------------------------------ MODULE Numbers ------------------------------
(***************************************************************************)
(* Reading a number out of a string: ustr-parse-code.h.                    *)
(*                                                                         *)
(* A character is the digit it may be, 0 .. 35, or one of Space, Minus,    *)
(* Plus, Sep and Other, which are no digits.                               *)
(***************************************************************************)
EXTENDS Integers, Sequences, SequencesExt

CONSTANTS
  Wide,    \* 2^(the bits of the widest unsigned type)
  Narrow,  \* 2^(the bits of a shorter type)
  Octet    \* 256 in the code
ASSUME NumbersAssumption == Wide \in Nat /\ Narrow \in Nat /\ 2 <= Narrow /\ Narrow < Wide /\ Octet \in Nat \ {0, 1}

Space == 100
Minus == 101
Plus  == 102
Sep   == 103
Other == 104
LetterB == 11
LetterO == 24
LetterX == 33

(* What ustr__parse_num_beg leaves: at is the number of characters read,   *)
(* base is 0 when it gave up with error err.                               *)
Begun(at, base, neg, zero) == [at |-> at, base |-> base, neg |-> neg, zero |-> zero, err |-> "none"]
GivenUp(err) == [at |-> 0, base |-> 0, neg |-> FALSE, zero |-> FALSE, err |-> err]

BaseOf(asked) == IF asked > 36 THEN 36 ELSE IF asked = 1 THEN 2 ELSE asked

\* Mutant: a marked base is taken whatever base was asked for.
MarkedAnyBase(base, c) ==
  IF c = LetterB THEN 2 ELSE IF c = LetterO THEN 8 ELSE IF c = LetterX THEN 16 ELSE 0

\* The base that a letter after a leading 0 stands for, or 0.
Marked(base, c) ==
  IF base \in {0, 2} /\ c = LetterB THEN 2
  ELSE IF base \in {0, 8} /\ c = LetterO THEN 8
  ELSE IF base \in {0, 16} /\ c = LetterX THEN 16 ELSE 0

\* [ ]*[-+](0b|0o|0x|0): reading beyond the end finds the final NIL, Other.
NumBeg(t, asked, flags) ==
  LET base == BaseOf(asked)
      Char(i) == IF i < Len(t) THEN t[i + 1] ELSE Other
      Spaces == {i \in 0 .. Len(t) : \A j \in 0 .. i - 1 : Char(j) = Space}
      sp == IF "space" \in flags THEN CHOOSE i \in Spaces : \A j \in Spaces : j <= i ELSE 0
      signed == "no_beg_pm" \notin flags /\ Char(sp) \in {Minus, Plus}
      neg == signed /\ Char(sp) = Minus
      pm == IF signed THEN sp + 1 ELSE sp
      mark == Marked(base, Char(pm + 1))
      at == pm + 2
  IN  IF "space" \in flags /\ sp = Len(t) THEN GivenUp("only_s")
      ELSE IF "no_beg_pm" \notin flags /\ pm = Len(t) THEN GivenUp("only_spm")
      ELSE IF Char(pm) # 0 THEN Begun(pm, IF base = 0 THEN 10 ELSE base, neg, FALSE)
      ELSE IF pm + 1 = Len(t) THEN Begun(pm + 1, 10, neg, TRUE)
      ELSE IF mark = 0
           THEN IF "no_beg_zero" \in flags /\ (base # 0 \/ Char(pm + 1) = 0)
                THEN GivenUp("beg_zero")
                ELSE Begun(pm + 1, IF base = 0 THEN 8 ELSE base, neg, TRUE)
      ELSE IF at = Len(t) THEN GivenUp("only_spmx")
      ELSE IF "no_beg_zero" \in flags /\ Char(at) = 0 /\ at + 1 < Len(t) THEN GivenUp("beg_zero")
      ELSE Begun(at, mark, neg, FALSE)

(* The digits and separators from at on, with the value modulo Wide.  The  *)
(* test for an overflow undoes the last step by a division.                *)
RECURSIVE Digits(_, _, _, _, _, _)
Digits(t, at, base, once, flags, ret) ==
  LET c == t[at + 1]
      sep == once /\ "sep" \in flags /\ c = Sep
      next == (ret * base + c) % Wide
      undone == ((next - c) % Wide) \div base
  IN  IF at = Len(t) \/ (~sep /\ c >= base)
      THEN [at |-> at, once |-> once, ret |-> ret, err |-> "none"]
      ELSE IF ~sep /\ "overflow" \in flags /\ undone # ret
      THEN [at |-> at, once |-> once, ret |-> 0, err |-> "overflow"]
      ELSE Digits(t, at + 1, base, once \/ ~sep, flags, IF sep THEN ret ELSE next)

Answer(ret, len, err) == [ret |-> ret, len |-> len, err |-> err]

\* What the digits that were read come to within the limit.
Limited(read, neg, limit, left, flags) ==
  LET err == IF read.err = "none" /\ "exact" \in flags /\ left THEN "oob" ELSE read.err
      over == read.ret > limit
      flagged == over /\ "overflow" \in flags
      ret == IF flagged THEN 0 ELSE IF over THEN limit ELSE read.ret
  IN  IF ~read.once THEN Answer(0, -1, "oob")
      ELSE Answer(IF neg THEN (Wide - ret) % Wide ELSE ret, read.at,
                  IF flagged /\ err = "none" THEN "overflow" ELSE err)

Counted(t, beg, flags, limit) ==
  LET Within(read) == Limited(read, beg.neg, limit, read.at < Len(t), flags)
  IN  IF beg.base = 0 THEN Answer(0, -1, beg.err)
      ELSE IF beg.neg /\ "no_negative" \in flags THEN Answer(0, -1, "negative")
      ELSE Within(Digits(t, beg.at, beg.base, beg.zero, flags, 0))

\* ustr_parse_uintmaxx: len is -1 where the code does not store it.
UintMaxx(t, asked, flags, min, max) ==
  LET From(beg) == Counted(t, beg, flags, IF beg.neg THEN min ELSE max)
  IN  From(NumBeg(t, asked, flags))

\* A value as a type of size values, unsigned or in two's complement.
AsUnsigned(n, size) == n % size
AsSigned(n, size) == IF n % size >= size \div 2 THEN (n % size) - size ELSE n % size

Unsigned(t, asked, flags, size) ==
  [UintMaxx(t, asked, flags \cup {"no_negative"}, 0, size - 1) EXCEPT !.ret = AsUnsigned(@, size)]
Signed(t, asked, flags, size) ==
  [UintMaxx(t, asked, flags, size \div 2, size \div 2 - 1) EXCEPT !.ret = AsSigned(@, size)]

\* A short is negated as an int and becomes a limit far beyond its own.
Short(t, asked, flags, size) ==
  [UintMaxx(t, asked, flags, Wide - size \div 2, size \div 2 - 1) EXCEPT !.ret = AsSigned(@, size)]

-----------------------------------------------------------------------------
(* Numbers as bytes, the first the highest: ustr-b.h.                      *)

\* The bytes of n, cut off above width of them (ustr_add_b_uint16, 32, 64).
AddB(t, n, width) ==
  t \o [i \in 1 .. width |-> (n \div Octet ^ (width - i)) % Octet]

\* The number at an offset, 0 where the string ends before it does.
ParseB(t, off, width) ==
  IF Len(t) < width \/ Len(t) - width < off THEN 0
  ELSE FoldLeft(LAMBDA ret, byte: ret * Octet + byte, 0, SubSeq(t, off + 1, off + width))
=============================================================================
