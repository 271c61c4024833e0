SPECIFICATION LibrarySpec
CONSTANTS
  Pool = {p1, p2, p3, p4}
  Mem = {m1, m2}
  Null = Null
  MaxSize = 2
  FreeNums = {1}
  Wide = 64
  Narrow = 16
  Octet = 4
  Combining <- MCCombining
  Kinds = {"words", "numbers", "bytes", "codes"}
  Alphabet <- MCAlphabet
  Longest <- MCLongest
  LongestPart <- MCLongestPart
  Largest = 150
  Radixes = {2, 8, 10, 16, 36}
SYMMETRY Same
CONSTRAINT Few
CHECK_DEADLOCK FALSE
INVARIANTS
  BlocksListedOnce
  HoldersServed
  LinksAgree
  QueriesAgree
  ParsesAgree
  Utf8Agree
PROPERTY KeepsPromise
