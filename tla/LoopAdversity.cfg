SPECIFICATION Spec
CONSTANTS
  Loops = {w1, w2}
  Apis = {"execute", "subexecute"}
  Toggles = {TRUE, FALSE}
  Failures = {"timer", "bitmap"}
  Blocks = {b1, b2}
  Bitmaps = {m1, m2}
  Screen = Screen
  None = None
  GrowBy = 1
  TimerIsThread = TRUE
  MaxDepth = 2
  MaxTicks = 2
SYMMETRY Symmetry
INVARIANTS
  TargetFollowsSetting
  IInv
PROPERTIES
  DanglesByRestore
