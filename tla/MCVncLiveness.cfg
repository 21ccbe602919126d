CONSTANTS
    None = None
    NoPixel = NoPixel
    Blank = 0
    Sizes = {1}
    Tiles = {1}
    Colors = {0, 1}
    Texts = {1}
    Marks = {1}
    Delays = {1, 2, 5, 10}
    Wire <- MCWire
    Requests <- MCRequests
    MAX_EVENTS_PER_POLL = 1
    MAX_INPUTS_PER_POLL = 1
    MaxEvents = 2
    MaxConnects = 1
    MaxRequests = 1
SPECIFICATION Spec
PROPERTIES
    HostConverges
    HelperExits
CHECK_DEADLOCK FALSE
