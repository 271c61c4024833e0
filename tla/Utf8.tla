-------------------------------- MODULE Utf8 --------------------------------
(***************************************************************************)
(* Strings as UTF-8: the checks and the counts of ustr-utf8-code.h, the    *)
(* spans of ustr-spn-code.h that are counted in characters, and the        *)
(* decoder with which a4f_textout draws (src/gui/a4f.c).                   *)
(*                                                                         *)
(* A string is a sequence of bytes without a NIL; the NIL after it is 0.   *)
(* A place in it is the number of bytes before that place.                 *)
(***************************************************************************)
EXTENDS Integers, Sequences, FiniteSetsExt, SequencesExt

CONSTANT Combining   \* the first and last characters of the intervals, in order, without a width

Byte(t, i) == IF i < Len(t) THEN t[i + 1] ELSE 0
Follows(b) == b \div 64 = 2               \* (b & 0xc0) == 0x80
Low(b) == b % 64

-----------------------------------------------------------------------------
(* ustr-utf8-code.h *)

Bad == [len |-> 0, ucs |-> 0]

\* The character at i, unless it is malformed, overlong, a surrogate or none.
Check(t, i) ==
  LET a == Byte(t, i)
      b == Byte(t, i + 1)
      c == Byte(t, i + 2)
      d == Byte(t, i + 3)
  IN  IF a < 128 THEN [len |-> 1, ucs |-> a]
      ELSE IF a \div 32 = 6 /\ Follows(b) /\ a \div 2 # 96
           THEN [len |-> 2, ucs |-> (a % 32) * 64 + Low(b)]
      ELSE IF /\ a \div 16 = 14 /\ Follows(b) /\ Follows(c)
              /\ ~(a = 224 /\ b \div 32 = 4)
              /\ ~(a = 237 /\ b \div 32 = 5)
              /\ ~(a = 239 /\ b = 191 /\ c \div 2 = 95)
           THEN [len |-> 3, ucs |-> (a % 16) * 4096 + Low(b) * 64 + Low(c)]
      ELSE IF /\ a \div 8 = 30 /\ Follows(b) /\ Follows(c) /\ Follows(d)
              /\ ~(a = 240 /\ b \div 16 = 8)
              /\ ~(a = 244 /\ b > 143)
              /\ a <= 244
           THEN [len |-> 4, ucs |-> (a % 8) * 262144 + Low(b) * 4096 + Low(c) * 64 + Low(d)]
      ELSE Bad

\* The characters of t, up to the first bad one.
RECURSIVE Scan(_, _)
Scan(t, i) ==
  IF Byte(t, i) = 0 THEN <<>>
  ELSE LET ch == Check(t, i)
       IN  IF ch.len = 0 THEN <<Bad>> ELSE <<ch>> \o Scan(t, i + ch.len)
Chars(t) == Scan(t, 0)
Valid(t) == \A k \in DOMAIN Chars(t) : Chars(t)[k] # Bad

\* utf8_prev and utf8_next do not check: a character begins where a byte is
\* no continuation.
Prev(t, i) ==
  LET from == {j \in 0 .. i - 1 : ~Follows(Byte(t, j))} IN IF from = {} THEN -1 ELSE Max(from)
Places(t) ==
  SetToSortSeq({0, Len(t)} \cup {i \in 0 .. Len(t) : ~Follows(Byte(t, i))}, <)

Utf8Len(t) == Cardinality({i \in DOMAIN t : ~Follows(t[i])})

\* Binary search in the table of intervals.
RECURSIVE Bisearch(_, _, _)
Bisearch(ucs, min, max) ==
  LET mid == (min + max) \div 2
  IN  IF max < min THEN FALSE
      ELSE IF ucs > Combining[mid].last THEN Bisearch(ucs, mid + 1, max)
      ELSE IF ucs < Combining[mid].first THEN Bisearch(ucs, min, mid - 1)
      ELSE TRUE

Wide2 ==
  {<<4352, 4447>>, <<9001, 9002>>, <<11904, 12350>>, <<12352, 42191>>, <<44032, 55203>>,
   <<63744, 64255>>, <<65040, 65049>>, <<65072, 65135>>, <<65280, 65376>>, <<65504, 65510>>,
   <<131072, 196605>>, <<196608, 262141>>}

WcWidth(ucs) ==
  IF ucs = 0 THEN 0
  ELSE IF ucs < 32 \/ ucs \in 127 .. 159 THEN -1
  ELSE IF Bisearch(ucs, 1, Len(Combining)) THEN 0
  ELSE IF \E r \in Wide2 : r[1] <= ucs /\ ucs <= r[2] THEN 2 ELSE 1

Width(t) ==
  IF Valid(t) THEN FoldLeft(LAMBDA w, ch: w + WcWidth(ch.ucs), 0, Chars(t)) ELSE 0

\* Mutant: the search goes one character too far.
Chars2BytesOneMore(t, pos, len) ==
  LET p == Places(t)
      n == Len(p) - 1
      from == IF pos \in 1 .. n THEN pos ELSE n
      beg == IF pos \in 1 .. n THEN p[pos] ELSE 0
  IN  IF len > n - from THEN [bytes |-> 0, pos |-> 0]
      ELSE [bytes |-> p[from + len + 1] - beg, pos |-> IF pos \in 1 .. n THEN beg + 1 ELSE 0]

(* The bytes of len characters from the character pos on, and the place of *)
(* the first.  No characters are taken for one; a place the string does    *)
(* not have is taken for its beginning.                                    *)
Chars2Bytes(t, pos, len) ==
  LET p == Places(t)
      n == Len(p) - 1
      from == IF pos \in 1 .. n THEN pos ELSE n
      beg == IF pos \in 1 .. n THEN p[pos] ELSE 0
      to == IF len = 0 THEN from ELSE from + len - 1
  IN  IF to > n THEN [bytes |-> 0, pos |-> 0]
      ELSE [bytes |-> p[to + 1] - beg, pos |-> IF pos \in 1 .. n THEN beg + 1 ELSE 0]

(* The characters that begin among len bytes from the character on that    *)
(* has the byte pos, and the number of that character.                     *)
Bytes2Chars(t, pos, len) ==
  LET beg == Prev(t, pos)
      Begins(a, b) == Cardinality({i \in a .. b : ~Follows(Byte(t, i))})
  IN  IF pos < 1 \/ pos > Len(t) \/ pos - 1 + len > Len(t) \/ beg < 0
      THEN [chars |-> 0, pos |-> 0]
      ELSE [chars |-> Begins(beg, beg + len - 1), pos |-> Begins(0, beg)]

\* ustr_sc_utf8_reverse: each character is turned round, then all of them.
Utf8Reverse(t) ==
  LET p == Places(t)
      Turned(k) == Reverse(SubSeq(t, p[k] + 1, p[k + 1]))
  IN  Reverse(FlattenSeq([k \in 1 .. Len(p) - 1 |-> Turned(k)]))

-----------------------------------------------------------------------------
(* Spans of ustr-spn-code.h that count characters.  A character is among   *)
(* chrs when its bytes are somewhere in it.                                *)

Among(bytes, chrs) ==
  \E i \in 0 .. Len(chrs) - Len(bytes) : SubSeq(chrs, i + 1, i + Len(bytes)) = bytes

RECURSIVE CountFwd(_, _, _, _)
CountFwd(t, i, chrs, in) ==
  LET next == Min({j \in i + 1 .. Len(t) : ~Follows(Byte(t, j))})
  IN  IF Byte(t, i) = 0 \/ Among(SubSeq(t, i + 1, next), chrs) # in THEN 0
      ELSE 1 + CountFwd(t, next, chrs, in)

RECURSIVE CountRev(_, _, _, _)
CountRev(t, len, chrs, in) ==
  LET beg == Prev(t, len)
  IN  IF len = 0 \/ beg < 0 \/ Among(SubSeq(t, beg + 1, len), chrs) # in THEN 0
      ELSE 1 + CountRev(t, beg, chrs, in)

\* The bytes that off characters take, at the beginning and at the end.  The
\* second function measures from one character too early.
SkipFwd(t, off) == IF off = 0 THEN 0 ELSE Chars2Bytes(t, 1, off).bytes
SkipRev(t, off) == IF off = 0 THEN 0 ELSE Chars2Bytes(t, Utf8Len(t) - off, off).bytes

Utf8SpnChrsFwd(t, off, chrs) == CountFwd(t, SkipFwd(t, off), chrs, TRUE)
Utf8SpnChrsRev(t, off, chrs) == CountRev(t, Len(t) - SkipRev(t, off), chrs, TRUE)
Utf8CspnChrsFwd(t, off, chrs) == CountFwd(t, SkipFwd(t, off), chrs, FALSE)
Utf8CspnChrsRev(t, off, chrs) == CountRev(t, Len(t) - SkipRev(t, off), chrs, FALSE)

-----------------------------------------------------------------------------
(* src/gui/a4f.c: u8_adv, u8_read and the loop of a4f_textout that uses    *)
(* them.  The first lead byte of each length is taken for one of a shorter *)
(* character.                                                              *)

U8Adv(c) ==
  IF c < 128 THEN 1 ELSE IF c > 252 THEN 6 ELSE IF c > 248 THEN 5
  ELSE IF c > 240 THEN 4 ELSE IF c > 224 THEN 3 ELSE 2

\* The bits of a lead byte of n, and six of each byte after it.
LeadBits(c, n) == c % (CASE n = 2 -> 32 [] n = 3 -> 16 [] n = 4 -> 8 [] n = 5 -> 4 [] n = 6 -> 2)
U8Read(t, i) ==
  LET c == Byte(t, i)
      n == U8Adv(c)
  IN  IF n = 1 THEN c
      ELSE FoldLeft(LAMBDA u, b: u * 64 + Low(b), LeadBits(c, n), SubSeq(t, i + 2, i + n))

\* The loop does not see the end when it steps over it.
PastEnd == -1
RECURSIVE Drawn(_, _)
Drawn(t, i) ==
  LET to == i + U8Adv(Byte(t, i))
  IN  IF Byte(t, i) = 0 THEN <<>>
      ELSE IF to > Len(t) THEN <<PastEnd>>
      ELSE <<U8Read(t, i)>> \o Drawn(t, to)
=============================================================================
