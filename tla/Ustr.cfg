SPECIFICATION Spec
CONSTANTS
  Radix = 4
  RefRadix = 2
  Addr = {a1, a2, a3, a4, a5}
  Empty = Empty
  Lit = Lit
  Fix = Fix
  Null = Null
  Junk = Junk
  None = None
  FmtLocal = 2
  LineSz = 2
  BlkSz = 2
  Handle = {1, 2}
  Edited = {1}
  Texts <- SmallTexts
  Confs <- SmallConfs
  Defaults <- SmallDefaults
  CopyLen = 4
  MaxLen = 4
  FixRoom = 11
VIEW Seen
CONSTRAINT Short
CHECK_DEADLOCK FALSE
INVARIANTS CountsMatchHolders NoWildAccess RoomForText
PROPERTIES KeepsPromise FailureFlagged
