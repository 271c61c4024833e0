SPECIFICATION VoronoiSpec
CONSTANTS
  Diagrams <- SmallDiagrams
  Orders <- SmallOrders
  Factor = 2
  Null = Null
  Blank = Blank
INVARIANTS HeaderKept
