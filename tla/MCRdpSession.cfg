CONSTANTS
  Sizes <- OneCell
  Colors = {c1, c2}
  Marks = {m1}
  Texts = {t1}
  MaxEvents = 3
  MaxClipboard = 1
  Cap = 2
  MaxMergedRects = 4
  MaxPendingEvents = 3
  MaxPendingScreens = 1
  Settle = 1
  MaxLatency = 1
  None = None
SPECIFICATION Spec
CHECK_DEADLOCK FALSE
INVARIANTS
  CursorIsCurrent
PROPERTIES
  ControlsAreReliable
  HostConverges
  HelperExits
