SPECIFICATION GuiAndGameSpec
CONSTANTS
  Files = {sans, serif, missing}
  Readable = {sans, serif}
  FontBlocks = {x1, x2, x3, x4}
  FaceBlocks = {p1, p2, p3}
  CacheSize = 2
  MaxNames = 4
  FreeSans = sans
  Extra = {"load", "copy", "destroy"}
  Tables = {global, scratch}
  Keys <- MCKeys
  Values <- MCValues
  Hash <- MCHash
  BUCKETS = 2
  Nodes = {n1, n2, n3}
  Null = Null
  NULL = NULL
  MaxLength = 3
  LeastCapacity = 1
  EmptyString = ""
  Stale = Stale
  Single = {"1"}
  Global = global
  Scratch = scratch
SYMMETRY Alike
VIEW AllSeen
CONSTRAINT Few
INVARIANTS
  RefsCounted
  LeavesNothing
  ChainsSound
  ArrayOwns
PROPERTIES
  NamesLostByLoads
  KeepsPromise
