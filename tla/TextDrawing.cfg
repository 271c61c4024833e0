SPECIFICATION TextSpec
CONSTANTS
  Wide = 64
  Narrow = 16
  Octet = 4
  Combining <- MCCombining
  Kinds = {"codes"}
  Alphabet <- MCAlphabet
  Longest <- MCLongest
  LongestPart <- MCLongestPart
  Largest = 150
  Radixes = {2, 8, 10, 16, 36}
INVARIANTS AsEncoded
CHECK_DEADLOCK FALSE
