---------------------------- MODULE StringArray ----------------------------
(***************************************************************************)
(* The arrays of strings of src/stringutils/austr.c: a block of pointers,  *)
(* of which the first "length" lead to strings that the array owns.  What  *)
(* the rest of the block holds is of no use: pointers to strings given     *)
(* back, or what malloc left there.                                        *)
(***************************************************************************)
EXTENDS Integers, Sequences, SequencesExt

CONSTANTS
  LeastCapacity,  \* 4 in the code
  EmptyString,    \* ustr_dup_empty's
  Stale           \* a pointer that leads to no string

ASSUME StringArrayAssumption == LeastCapacity \in Nat \ {0}

Capacity(a) == Len(a.slot)
NoStrings == [slot |-> <<>>, length |-> 0]      \* austr_init

\* The capacity of the next block.
Grown(length) ==
  IF length + length \div 2 < LeastCapacity THEN LeastCapacity ELSE length + length \div 2

\* Mutant: the loop that gives strings back begins one too late.
ResizeKeepsOne(a, length) ==
  IF length < a.length
  THEN [slot |-> [i \in DOMAIN a.slot |->
                    IF i \in length + 2 .. a.length THEN Stale ELSE a.slot[i]],
        length |-> length]
  ELSE [slot |-> [i \in 1 .. IF length > Capacity(a) THEN Grown(length) ELSE Capacity(a) |->
                    IF i <= a.length THEN a.slot[i]
                    ELSE IF i <= length THEN EmptyString ELSE Stale],
        length |-> length]

\* austr_resize: strings beyond the new length are given back; a larger array
\* is filled up with empty strings, in a new block if the old one is too small.
Resize(a, length) ==
  LET moved == length > Capacity(a)
      room == IF moved THEN Grown(length) ELSE Capacity(a)
      Kept(i) == IF moved /\ i > a.length THEN Stale ELSE a.slot[i]
  IN  [slot |-> IF length < a.length
                THEN [i \in 1 .. room |-> IF i \in length + 1 .. a.length THEN Stale
                                          ELSE a.slot[i]]
                ELSE [i \in 1 .. room |-> IF i \in a.length + 1 .. length THEN EmptyString
                                          ELSE Kept(i)],
       length |-> length]

\* austr_push: the new string takes the place of the empty one.
Push(a, string) == [Resize(a, a.length + 1) EXCEPT !.slot[a.length + 1] = string]

\* The callers' loops over another array.
PushAll(a, strings) ==
  LET after[n \in 0 .. Len(strings)] ==
        IF n = 0 THEN a ELSE Push(after[n - 1], strings[n])
  IN  after[Len(strings)]

\* austr_pop, and what it hands the caller.  An empty array has no last string:
\* its length less one is the largest unsigned number.
Pop(a) == Resize(a, a.length - 1)
Popped(a) == a.slot[a.length]

Emptied(a) == Resize(a, 0)                      \* austr_clear

Strings(a) == SubSeq(a.slot, 1, a.length)

\* The array owns exactly the strings it has: none was forgotten in a slot
\* beyond the length, where the next one would be written over it, and every
\* slot within the length leads to one.
Owns(a) == \A i \in DOMAIN a.slot : (a.slot[i] = Stale) <=> (i > a.length)
=============================================================================
