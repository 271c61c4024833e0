SPECIFICATION GuiSpec
CONSTANTS
  Files = {sans, serif, missing}
  Readable = {sans, serif}
  FontBlocks = {x1, x2, x3}
  FaceBlocks = {p1, p2}
  CacheSize = 2
  MaxNames = 4
  NULL = NULL
  FreeSans = sans
  Extra = {"load", "copy", "destroy"}
SYMMETRY Symmetry
INVARIANTS
  ShowsItsFile
