CONSTANTS
    None = None
    NoPixel = NoPixel
    Blank = 0
    Sizes = {1, 2}
    Tiles = {1, 2}
    Colors = {0, 1}
    Texts = {1, 2, 3}
    Marks = {1}
    Delays = {1, 2, 5, 10}
    Wire <- MCWire
    Requests <- MCRequests
    MAX_EVENTS_PER_POLL = 2
    MAX_INPUTS_PER_POLL = 2
    MaxEvents = 4
    MaxConnects = 5
    MaxRequests = 2
SPECIFICATION MCSpec
INVARIANTS
    TypeOK
    DisplaySafe
    ServerHasLatestClipboard
    BackoffNeverShrinks
CHECK_DEADLOCK FALSE
