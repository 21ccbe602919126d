CONSTANTS
  Sizes <- TwoSizes
  Colors = {c1, c2}
  Marks = {}
  Texts = {}
  MaxEvents = 4
  MaxClipboard = 0
  Cap = 1
  MaxMergedRects = 4
  MaxPendingEvents = 3
  MaxPendingScreens = 1
  Settle = 1
  MaxLatency = 2
  None = None
SYMMETRY ColorSymmetry
SPECIFICATION Spec
CHECK_DEADLOCK FALSE
INVARIANTS
  OutputSafe
  PictureSafe
