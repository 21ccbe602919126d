CONSTANTS
  Width = 1
  Height = 2
  Sizes <- OneSize
  Colors = {c1}
  Marks = {}
  Texts = {}
  MaxSends = 8
  Cap = 1
  MaxMergedRects = 4096
  MaxPendingEvents = 12
  MaxPendingScreens = 3
  None = None
SPECIFICATION Spec
CHECK_DEADLOCK FALSE
INVARIANTS
  BacklogStaysProportional
