SPECIFICATION NullSpec
CONSTANTS
  Tables = {global, scratch}
  Keys <- MCKeys
  Values <- MCValues
  Hash <- MCHash
  BUCKETS = 2
  Nodes = {n1, n2, n3}
  Null = Null
  MaxLength = 3
  LeastCapacity = 1
  EmptyString = ""
  Stale = Stale
  Single = {"1"}
  Global = global
  Scratch = scratch
SYMMETRY Symmetry
VIEW Seen
CONSTRAINT Few
PROPERTIES
  KeepsPromise
