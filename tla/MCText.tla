------------------------------- MODULE MCText -------------------------------
(* A small instance of Text: see TextDrawing.cfg and MCStringLibrary. *)
EXTENDS Text

\* A, a, b and c, whose capitals come before the small letters; bytes and
\* characters on both sides of every limit of UTF-8.
MCAlphabet ==
  [words |-> {65, 97, 98},
   bytes |-> {65, 128, 143, 144, 160, 191, 192, 194, 224, 237, 239, 240, 244},
   codes |-> {65, 128, 2047, 2048, 4096, 65533, 65536, 262144, 1114111, 768}]
MCLongest == [words |-> 5, bytes |-> 4, codes |-> 3]
MCLongestPart == [words |-> 3, codes |-> 2]

Interval(a, b) == [first |-> a, last |-> b]
\* Some of the table: intervals of one character, adjacent ones and the ends.
MCCombining ==
  <<Interval(768, 879), Interval(1155, 1158), Interval(1160, 1161), Interval(1471, 1471),
    Interval(8203, 8207), Interval(65279, 65279), Interval(917760, 917999)>>
=============================================================================
