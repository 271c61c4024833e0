SPECIFICATION Spec
CONSTANTS
  Loops = {w1, w2, w3}
  Apis = {"subexecute"}
  Toggles = {}
  Failures = {"malloc"}
  Blocks = {b1, b2}
  Bitmaps = {m1, m2}
  Screen = Screen
  None = None
  GrowBy = 1
  TimerIsThread = FALSE
  MaxDepth = 3
  MaxTicks = 2
SYMMETRY Symmetry
INVARIANTS
  StackMirrorsCalls
  NoWildAccess
  NoArraysLeak
  RoundsArePaid
  RefreshKept
PROPERTIES
  ClosedByOwnStop
  KeepsContract
