CONSTANTS
    s1 = s1
    s2 = s2
    None = None
    NoPixel = NoPixel
    Blank = 0
    Sizes <- MCSizes
    Tiles <- MCTiles
    Colors <- MCColors
    Texts = {1}
    Marks = {1}
    Delays = {1}
    Senders <- MCSenders
    FirstSender = s1
    Outputs <- MCOutputs
    MaxSends = 4
SPECIFICATION Spec
INVARIANTS
    WriterSafe
PROPERTIES
    WriterTerminates
    ControlsAreReliable
CHECK_DEADLOCK FALSE
