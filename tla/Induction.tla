----------------------------- MODULE Induction -----------------------------
(***************************************************************************)
(* Induction on numbers, stated of sets instead of predicates, and what it *)
(* gives for functions defined by recursion over an interval.              *)
(***************************************************************************)
EXTENDS Integers, TLAPS, WellFoundedInduction

\* Induction over the numbers, with a set in the place of a predicate.
LEMMA NatInduction1 ==
  ASSUME NEW S, 0 \in S, \A n \in Nat : n \in S => n + 1 \in S
  PROVE  Nat \subseteq S
<1> DEFINE R == {ss \in Nat \X Nat : ss[1] < ss[2]}
           T == Nat \ S
<1>1. R = OpToRel(<, Nat)
  BY DEF OpToRel
<1>2. IsWellFoundedOn(R, Nat)
  BY <1>1, NatLessThanWellFounded
<1>3. ASSUME T # {} PROVE FALSE
  <2>1. PICK x \in T : \A y \in T : <<y, x>> \notin R
    <3> HIDE DEF R, T
    <3>1. T \subseteq Nat
      BY DEF T
    <3> QED
      BY <1>2, <1>3, <3>1, WFMin
  <2>2. x # 0 /\ x - 1 \in Nat
    OBVIOUS
  <2>3. x - 1 \in T
    <3>1. x - 1 + 1 = x
      BY <2>2
    <3> QED
      BY <2>2, <3>1
  <2>4. <<x - 1, x>> \in R
    BY <2>2
  <2> QED
    BY <2>1, <2>3, <2>4
<1> QED
  BY <1>3

\* A set of numbers that is not empty has a least one.
LEMMA Least ==
  ASSUME NEW S \in SUBSET Nat, S # {}
  PROVE  \E x \in S : \A y \in S : x <= y
<1> DEFINE R == {ss \in Nat \X Nat : ss[1] < ss[2]}
<1>1. R = OpToRel(<, Nat)
  BY DEF OpToRel
<1>2. IsWellFoundedOn(R, Nat)
  BY <1>1, NatLessThanWellFounded
<1>3. PICK x \in S : \A y \in S : <<y, x>> \notin R
  <2> HIDE DEF R
  <2> QED
    BY <1>2, WFMin
<1>4. \A y \in S : x <= y
  <2> TAKE y \in S
  <2>1. x \in Nat /\ y \in Nat /\ ~(y < x)
    BY <1>3
  <2> QED
    BY <2>1
<1> QED
  BY <1>4

\* Up to a bound.
LEMMA UpTo ==
  ASSUME NEW N \in Nat, NEW S, 0 \in S,
         \A n \in 0 .. N - 1 : n \in S => n + 1 \in S
  PROVE  0 .. N \subseteq S
<1> DEFINE T == {n \in Nat : n <= N => n \in S}
<1>1. 0 \in T
  OBVIOUS
<1>2. \A n \in Nat : n \in T => n + 1 \in T
  OBVIOUS
<1> HIDE DEF T
<1>3. Nat \subseteq T
  BY <1>1, <1>2, NatInduction1
<1> QED
  BY <1>3 DEF T

\* From one number to another.
LEMMA FromTo ==
  ASSUME NEW M \in Int, NEW N \in Int, NEW S, M \in S,
         \A n \in M .. N - 1 : n \in S => n + 1 \in S
  PROVE  M .. N \subseteq S
<1> SUFFICES ASSUME M <= N PROVE M .. N \subseteq S
  OBVIOUS
<1> DEFINE T == {n \in Nat : M + n \in S}
<1>1. 0 \in T
  OBVIOUS
<1>2. \A n \in 0 .. (N - M) - 1 : n \in T => n + 1 \in T
  <2> SUFFICES ASSUME NEW n \in 0 .. (N - M) - 1, n \in T PROVE n + 1 \in T
    OBVIOUS
  <2>1. M + n \in M .. N - 1 /\ M + n \in S
    OBVIOUS
  <2>2. (M + n) + 1 \in S
    BY <2>1
  <2>3. (M + n) + 1 = M + (n + 1)
    OBVIOUS
  <2> QED
    BY <2>2, <2>3
<1> HIDE DEF T
<1>3. N - M \in Nat
  OBVIOUS
<1>4. 0 .. (N - M) \subseteq T
  BY <1>1, <1>2, <1>3, UpTo
<1>5. ASSUME NEW n \in M .. N PROVE n \in S
  <2>1. n - M \in 0 .. (N - M)
    OBVIOUS
  <2>2. M + (n - M) \in S
    BY <2>1, <1>4 DEF T
  <2> QED
    BY <2>2
<1> QED
  BY <1>5

\* The functions g over 0 .. N that begin with base and of which each value
\* comes from the one before, the n-th by step[n].
Steps(N, S) == [1 .. N -> [S -> S]]

Iterates(g, base, N, step, S) ==
  /\ g \in [0 .. N -> S] /\ g[0] = base
  /\ \A n \in 1 .. N : g[n] = step[n][g[n - 1]]

\* A step that can always be taken can be taken N times.
LEMMA Iteration ==
  ASSUME NEW S, NEW base \in S, NEW N \in Nat, NEW step \in Steps(N, S)
  PROVE  \E g : Iterates(g, base, N, step, S)
<1> DEFINE T == {m \in 0 .. N : \E g : Iterates(g, base, m, step, S)}
<1>1. 0 \in T
  <2> DEFINE h == [n \in 0 .. 0 |-> base]
  <2>1. Iterates(h, base, 0, step, S)
    BY DEF Iterates
  <2> QED
    BY <2>1
<1>2. ASSUME NEW m \in 0 .. N - 1, m \in T PROVE m + 1 \in T
  <2>1. PICK g : Iterates(g, base, m, step, S)
    BY <1>2
  <2> DEFINE h == [n \in 0 .. m + 1 |-> IF n = m + 1 THEN step[m + 1][g[m]] ELSE g[n]]
  <2>2. step[m + 1] \in [S -> S] /\ g[m] \in S
    <3>1. m + 1 \in 1 .. N /\ m \in 0 .. m
      OBVIOUS
    <3> QED
      BY <3>1, <2>1 DEF Steps, Iterates
  <2>3. step[m + 1][g[m]] \in S
    BY <2>2
  <2>4. h \in [0 .. m + 1 -> S]
    BY <2>1, <2>3 DEF Iterates
  <2>5. h[0] = base
    BY <2>1 DEF Iterates
  <2>6. \A n \in 1 .. m + 1 : h[n] = step[n][h[n - 1]]
    <3> TAKE n \in 1 .. m + 1
    <3>1. CASE n = m + 1
      BY <3>1
    <3>2. CASE n \in 1 .. m
      BY <3>2, <2>1 DEF Iterates
    <3> QED
      BY <3>1, <3>2
  <2> HIDE DEF h
  <2>7. Iterates(h, base, m + 1, step, S)
    BY <2>4, <2>5, <2>6 DEF Iterates
  <2> QED
    BY <2>7
<1> HIDE DEF T
<1>3. 0 .. N \subseteq T
  BY <1>1, <1>2, UpTo
<1>4. N \in T
  BY <1>3
<1> QED
  BY <1>4 DEF T
=============================================================================
