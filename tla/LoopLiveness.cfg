SPECIFICATION FairSpec
CONSTANTS
  Loops = {w1, w2}
  Apis = {"subexecute"}
  Toggles = {}
  Failures = {}
  Blocks = {b1}
  Bitmaps = {m1, m2}
  Screen = Screen
  None = None
  GrowBy = 4
  TimerIsThread = FALSE
  MaxDepth = 2
  MaxTicks = 2
PROPERTIES
  QuitClosesLoop
  RefreshAfterLull
