---------------------------- MODULE UstrFormat ----------------------------
(***************************************************************************)
(* The layout of a managed string (ustr-main.h, ustr-main-code.h).  A      *)
(* string is a block of memory: one byte of flags, the reference count,    *)
(* the length, for a sized string the size of the block, then the text and *)
(* its terminator.  The width of each number is fixed when the block is    *)
(* made, so the numbers that fit it bound what may happen to the block.    *)
(*                                                                         *)
(* Radix stands for the 256 values of a byte of a length or a size and     *)
(* RefRadix for those of a byte of a reference count: they are constants   *)
(* so that a small instance reaches both limits.                           *)
(***************************************************************************)
EXTENDS Integers, Sequences, FiniteSetsExt

CONSTANTS Radix, RefRadix

ASSUME RadixAssumption == Radix \in Nat \ {0, 1} /\ RefRadix \in Nat \ {0, 1}

Widths == {0, 1, 2, 4, 8}

\* The kinds of memory a string pointer leads to: a read only literal, a
\* buffer of the caller, a block of the allocator, such a block before its
\* header was written, memory that was given back.
Kinds == {"ro", "fixed", "alloc", "raw", "free"}

-----------------------------------------------------------------------------
(* Sizes *)

\* How many numbers a field of width bytes holds when a byte holds base.
Square(n) == n * n
Values(base, width) == CASE width = 0 -> 1
                         [] width = 1 -> base
                         [] width = 2 -> Square(base)
                         [] width = 4 -> Square(Square(base))
                         [] width = 8 -> Square(Square(Square(base)))

\* The bytes a number needs (ustr__nb).
Nb(num) == CASE num >= Values(Radix, 4) -> 8
             [] num >= Values(Radix, 2) /\ num < Values(Radix, 4) -> 4
             [] num >= Radix /\ num < Values(Radix, 2) -> 2
             [] OTHER -> 1

\* A block that is not exact has one of the sizes 4, 6, 8, 12, 16, 24, ...
\* (ustr__ns): the smallest one that holds num bytes.
Doubled(num) ==
  LET size[k \in 0 .. num] == IF k = 0 THEN 4 ELSE 2 * size[k - 1]
  IN  size
Grades(num) == UNION {{s, s + s \div 2} : s \in {Doubled(num)[k] : k \in 0 .. num}}
Ns(num) == Min({g \in Grades(num) : g >= num})
Graded(exact, num) == IF exact THEN num ELSE Ns(num)

Larger(m, n) == IF m < n THEN n ELSE m

\* The bytes of a block that are not text.
\* Of the numbers as wide as the length, a sized block has two.
Fields(sized) == IF sized THEN 2 ELSE 1
HeadAndTail(rb, lb, fields) == 1 + rb + fields * lb + 1

\* A configuration: is the size stored (any size but 0 says yes), bytes of
\* the reference count, are blocks exact, is the error flag up.
Sized(k) == k.sz # 0 \/ k.rb = 8
RefWidth(k) == IF Sized(k) THEN Larger(k.rb, 2) ELSE k.rb
LenWidth(k, num) == Larger(Nb(num), IF Sized(k) THEN 2 ELSE 1)

\* The size to ask the allocator for (ustr_init_size).  The loop of the code
\* widens the length field until the whole block can be counted with it.
InitSize(k, len) ==
  LET first == LenWidth(k, IF k.sz # 0 THEN k.sz ELSE len)
      Needs(lb) == HeadAndTail(RefWidth(k), lb, Fields(Sized(k))) + len
      lb == Min({w \in Widths : w >= first /\ Nb(Needs(w)) <= w})
  IN  Graded(k.exact, Needs(lb))

-----------------------------------------------------------------------------
(* Blocks *)

Block(kind, k, rb, lb, ref, sz, room, text) ==
  [kind |-> kind, sized |-> Sized(k), exact |-> k.exact, emem |-> k.emem,
   rb |-> rb, lb |-> lb, ref |-> ref, sz |-> sz, room |-> room, text |-> text]

NoCfg == [sz |-> 0, rb |-> 0, exact |-> TRUE, emem |-> FALSE]
RoBlock(text) == Block("ro", NoCfg, 0, 1, 0, 0, Len(text) + 3, text)
FreeBlock == Block("free", NoCfg, 0, 1, 0, 0, 0, <<>>)

\* Writing a header into rsz bytes (ustr_init_alloc): refused, which leaves
\* the bytes as they were, when the text would not fit behind it.
InitAlloc(k, rsz, text) ==
  LET sz == IF Sized(k) THEN rsz ELSE 0
      rb == RefWidth(k)
      lb == LenWidth(k, IF Sized(k) THEN rsz ELSE Len(text))
      bad == \/ Sized(k) /\ rsz < 1 + 2 + 2 + 1
             \/ rsz < HeadAndTail(rb, lb, Fields(Sized(k))) + Len(text)
  IN  Block(IF bad THEN "raw" ELSE "alloc", k, rb, lb, IF rb = 0 THEN 0 ELSE 1,
            sz, rsz, text)

\* A string in a buffer of the caller (ustr_init_fixed): never counted.
InitFixed(rsz, exact) ==
  LET k == [sz |-> rsz, rb |-> 0, exact |-> exact, emem |-> FALSE]
  IN  [InitAlloc(k, rsz, <<>>) EXCEPT !.kind = "fixed", !.ref = 0]

Alloc(b) == b.kind = "alloc"
Ro(b) == b.kind = "ro"
Fixed(b) == b.kind = "fixed"
Limited(b) == Fixed(b) /\ b.exact

\* May the text be written in place (ustr_owner)?
Owner(b) == Fixed(b) \/ (Alloc(b) /\ (b.rb = 0 \/ b.ref = 1))

Overhead(b) == IF Ro(b) /\ b.text = <<>> THEN 1 ELSE HeadAndTail(b.rb, b.lb, Fields(b.sized))

\* What the code believes the block to measure (ustr_size_alloc), and the
\* text that can have without a call of the allocator (ustr_size).
SizeAlloc(b) == IF b.sized THEN b.sz ELSE Graded(b.exact, Len(b.text) + Overhead(b))
Size(b) == SizeAlloc(b) - Overhead(b)

\* Header, text and terminator lie within the block, and the numbers of the
\* header fit their fields and say so (ustr_assert_valid).
RoomFor(b) ==
  /\ Overhead(b) + Len(b.text) <= b.room
  /\ SizeAlloc(b) <= b.room
  /\ b.sized => Overhead(b) + Len(b.text) <= b.sz
  /\ Nb(Len(b.text)) <= b.lb

\* Do two configurations make the same blocks (ustr__dupx_cmp_eq)?
CfgEq(k1, k2) ==
  LET SizedEq(k) == k.sz # 0 \/ k.rb > 4
      RefEq(k) == IF k.sz # 0 THEN Larger(k.rb, 2) ELSE k.rb
  IN  /\ k1.exact = k2.exact
      /\ k1.emem = k2.emem
      /\ SizedEq(k1) = SizedEq(k2)
      /\ RefEq(k1) = RefEq(k2)

\* The configuration a copy of a block is made with (USTR__DUPX_FROM).
From(b, conf) ==
  IF Alloc(b) THEN [sz |-> b.sz, rb |-> b.rb, exact |-> b.exact, emem |-> b.emem]
  ELSE [conf EXCEPT !.emem = b.emem]

\* The largest count a header holds: the count stops there (ustr__ref_add).
RefLimit(b) == Values(RefRadix, b.rb) - 1

\* Mutant: the number of characters is not compared with the length field.
RwModAnyLength(b, nlen) ==
  LET need == Overhead(b) + nlen
      nsz == Graded(b.exact, need)
      fits == need <= SizeAlloc(b)
  IN  [can |-> Owner(b) /\ (fits \/ Alloc(b)), alloc |-> ~fits, nsz |-> nsz,
       sized |-> b.sized]

\* What a block that needs this many bytes for its text, graded to nsz, does
\* about it when it measures osz.
Fit(b, need, nsz, osz) ==
  LET same == IF b.sized /\ b.sz # 0 THEN need <= b.sz ELSE nsz = osz
      less == ~(b.sized /\ b.sz # 0) /\ nsz < osz
  IN  [can |-> same \/ less \/ Alloc(b), alloc |-> ~same /\ Alloc(b), nsz |-> nsz,
       sized |-> b.sized /\ b.sz # 0]

\* Can this block take nlen characters as it is or after a realloc
\* (ustr__rw_mod)?  "alloc": a realloc to nsz bytes comes first.  Only the
\* length is compared with the width of the fields, the new size is not.
RwMod(b, nlen) ==
  LET need == HeadAndTail(b.rb, b.lb, Fields(b.sized /\ b.sz # 0)) + nlen
  IN  IF Owner(b) /\ Nb(nlen) <= b.lb
      THEN Fit(b, need, Graded(b.exact, need), SizeAlloc(b))
      ELSE [can |-> FALSE, alloc |-> FALSE, nsz |-> 0, sized |-> FALSE]
=============================================================================
