--------------------------- MODULE MappingProofs ---------------------------
(***************************************************************************)
(* The hash tables stay chains of their own nodes and keep the functions   *)
(* that stringutils.h promises, for every number of buckets, every hash,   *)
(* every set of strings and every order in which nodes are reused.         *)
(***************************************************************************)
EXTENDS GameState, Induction, FiniteSetTheorems

-----------------------------------------------------------------------------
(* Arrays: they hold what was put into them and own no more than that, for *)
(* every capacity, every string and every sequence of calls.               *)

\* The strings there are: the empty one is a string, a stale pointer is none.
StringSet(Some) == EmptyString \in Some /\ Stale \notin Some

\* The arrays the code can be in: a block of pointers, no shorter than the
\* array, that owns its strings.
Arrays(Some) ==
  {a \in [slot : Seq(Some \cup {Stale}), length : Nat] : a.length <= Len(a.slot) /\ Owns(a)}

-----------------------------------------------------------------------------
\* A new block is never shorter than what it is needed for.
LEMMA GrownEnough == ASSUME NEW n \in Nat PROVE Grown(n) \in Nat /\ n <= Grown(n)
BY StringArrayAssumption DEF Grown

\* An array begins empty (austr_init).
LEMMA NoStringsArray == ASSUME NEW Some PROVE NoStrings \in Arrays(Some)
BY DEF NoStrings, Arrays, Owns

\* What austr_resize leaves in a slot.
LEMMA ResizeSlot ==
  ASSUME NEW Some, StringSet(Some), NEW a \in Arrays(Some), NEW n \in Nat
  PROVE  LET r == Resize(a, n)
             room == IF n > Len(a.slot) THEN Grown(n) ELSE Len(a.slot)
         IN  /\ room \in Nat /\ n <= room
             /\ r.length = n
             /\ r.slot \in Seq(Some \cup {Stale}) /\ Len(r.slot) = room
             /\ \A i \in 1 .. room :
                  r.slot[i] = IF i > n THEN Stale
                              ELSE IF i <= a.length THEN a.slot[i] ELSE EmptyString
<1> DEFINE room == IF n > Len(a.slot) THEN Grown(n) ELSE Len(a.slot)
           Slot(i) == IF i > n THEN Stale
                      ELSE IF i <= a.length THEN a.slot[i] ELSE EmptyString
           r == Resize(a, n)
<1>1. /\ a.slot \in Seq(Some \cup {Stale}) /\ a.length \in Nat /\ a.length <= Len(a.slot)
      /\ Len(a.slot) \in Nat
      /\ \A i \in 1 .. Len(a.slot) : /\ a.slot[i] \in Some \cup {Stale}
                                     /\ (a.slot[i] = Stale) <=> (i > a.length)
  BY DEF Arrays, Owns
<1>2. room \in Nat /\ n <= room /\ Len(a.slot) <= room
  <2>1. Grown(n) \in Nat /\ n <= Grown(n)
    BY GrownEnough
  <2> QED BY <1>1, <2>1
<1>3. r.length = n
  BY DEF Resize
<1>4. r.slot = [i \in 1 .. room |-> Slot(i)]
  <2>1. CASE n < a.length
    <3>1. room = Len(a.slot)
      BY <1>1, <2>1
    <3>2. r.slot = [i \in 1 .. room |-> IF i \in n + 1 .. a.length THEN Stale ELSE a.slot[i]]
      BY <2>1, <1>1 DEF Resize, Capacity
    <3>3. \A i \in 1 .. room :
            (IF i \in n + 1 .. a.length THEN Stale ELSE a.slot[i]) = Slot(i)
      BY <1>1, <2>1, <3>1
    <3> HIDE DEF room, Slot, r
    <3> QED BY <3>2, <3>3
  <2>2. CASE ~(n < a.length)
    <3>1. r.slot = [i \in 1 .. room |->
                      IF i \in a.length + 1 .. n THEN EmptyString
                      ELSE IF n > Len(a.slot) /\ i > a.length THEN Stale ELSE a.slot[i]]
      BY <2>2 DEF Resize, Capacity
    <3>2. \A i \in 1 .. room :
            (IF i \in a.length + 1 .. n THEN EmptyString
             ELSE IF n > Len(a.slot) /\ i > a.length THEN Stale ELSE a.slot[i]) = Slot(i)
      BY <1>1, <1>2, <2>2
    <3> HIDE DEF room, Slot, r
    <3> QED BY <3>1, <3>2
  <2> QED BY <2>1, <2>2
<1>5. \A i \in 1 .. room : Slot(i) \in Some \cup {Stale}
  BY <1>1, <1>2 DEF StringSet
<1> HIDE DEF r, Slot
<1>6. r.slot \in Seq(Some \cup {Stale}) /\ Len(r.slot) = room
  BY <1>2, <1>4, <1>5
<1>7. \A i \in 1 .. room : r.slot[i] = Slot(i)
  BY <1>4
<1> QED BY <1>2, <1>3, <1>6, <1>7 DEF r, Slot

-----------------------------------------------------------------------------
\* Whatever length it is given, an array owns exactly the strings within it:
\* shrinking gives back every string beyond, growing fills every slot up to
\* it and leaves nothing behind in the rest of the block (austr_resize).
THEOREM ResizeOwns ==
  \A Some : StringSet(Some) =>
    \A a \in Arrays(Some), n \in Nat : Resize(a, n) \in Arrays(Some)
<1> SUFFICES ASSUME NEW Some, StringSet(Some), NEW a \in Arrays(Some), NEW n \in Nat
             PROVE  Resize(a, n) \in Arrays(Some)
  OBVIOUS
<1> DEFINE r == Resize(a, n)
           room == IF n > Len(a.slot) THEN Grown(n) ELSE Len(a.slot)
<1>1. /\ room \in Nat /\ n <= room /\ r.length = n
      /\ r.slot \in Seq(Some \cup {Stale}) /\ Len(r.slot) = room
      /\ \A i \in 1 .. room :
           r.slot[i] = IF i > n THEN Stale
                       ELSE IF i <= a.length THEN a.slot[i] ELSE EmptyString
  BY ResizeSlot
<1>2. \A i \in 1 .. Len(a.slot) : (a.slot[i] = Stale) <=> (i > a.length)
  BY DEF Arrays, Owns
<1>3. a.length \in Nat /\ a.length <= Len(a.slot) /\ Len(a.slot) \in Nat
  BY DEF Arrays
<1>4. r = [slot |-> r.slot, length |-> r.length]
  BY DEF Resize
<1> HIDE DEF r, room
<1>5. \A i \in 1 .. room : (r.slot[i] = Stale) <=> (i > n)
  BY <1>1, <1>2, <1>3 DEF StringSet
<1>6. Owns(r)
  BY <1>1, <1>5 DEF Owns
<1>7. r \in [slot : Seq(Some \cup {Stale}), length : Nat]
  BY <1>1, <1>4
<1>8. r \in Arrays(Some)
  BY <1>1, <1>6, <1>7 DEF Arrays
<1> QED BY <1>8 DEF r

\* The strings an array had stay in their places, up to the new length.
THEOREM ResizeKeeps ==
  \A Some : StringSet(Some) =>
    \A a \in Arrays(Some), n \in Nat : \A i \in 1 .. n :
      Resize(a, n).slot[i] = IF i <= a.length THEN a.slot[i] ELSE EmptyString
<1> SUFFICES ASSUME NEW Some, StringSet(Some), NEW a \in Arrays(Some), NEW n \in Nat,
                    NEW i \in 1 .. n
             PROVE  Resize(a, n).slot[i] = IF i <= a.length THEN a.slot[i] ELSE EmptyString
  OBVIOUS
<1> DEFINE room == IF n > Len(a.slot) THEN Grown(n) ELSE Len(a.slot)
<1>1. /\ room \in Nat /\ n <= room
      /\ \A j \in 1 .. room :
           Resize(a, n).slot[j] = IF j > n THEN Stale
                                  ELSE IF j <= a.length THEN a.slot[j] ELSE EmptyString
  BY ResizeSlot
<1>2. i \in 1 .. room /\ ~(i > n)
  BY <1>1
<1> HIDE DEF room
<1> QED BY <1>1, <1>2

\* The strings of an array, by their places.
LEMMA StringsSeq ==
  ASSUME NEW Some, StringSet(Some), NEW a \in Arrays(Some)
  PROVE  /\ Strings(a) \in Seq(Some) /\ Len(Strings(a)) = a.length
         /\ \A i \in 1 .. a.length : Strings(a)[i] = a.slot[i]
<1>1. /\ a.slot \in Seq(Some \cup {Stale}) /\ a.length \in Nat /\ a.length <= Len(a.slot)
      /\ \A i \in 1 .. Len(a.slot) : /\ a.slot[i] \in Some \cup {Stale}
                                     /\ (a.slot[i] = Stale) <=> (i > a.length)
  BY DEF Arrays, Owns
<1>2. Strings(a) = [i \in 1 .. a.length |-> a.slot[i]]
  BY <1>1 DEF Strings
<1>3. \A i \in 1 .. a.length : a.slot[i] \in Some
  BY <1>1
<1> QED BY <1>1, <1>2, <1>3

\* A string that is pushed comes last and is owned, and none of the others is
\* lost or moved (austr_push).
THEOREM PushAppends ==
  \A Some : StringSet(Some) =>
    \A a \in Arrays(Some), s \in Some :
      Push(a, s) \in Arrays(Some) /\ Strings(Push(a, s)) = Append(Strings(a), s)
<1> SUFFICES ASSUME NEW Some, StringSet(Some), NEW a \in Arrays(Some), NEW s \in Some
             PROVE  Push(a, s) \in Arrays(Some) /\ Strings(Push(a, s)) = Append(Strings(a), s)
  OBVIOUS
<1> DEFINE n == a.length + 1
           r == Resize(a, n)
           p == Push(a, s)
<1>1. a.length \in Nat /\ n \in Nat
  BY DEF Arrays
<1>2. r \in Arrays(Some) /\ r.length = n
  BY <1>1, ResizeOwns DEF Resize
<1>3. \A i \in 1 .. n : r.slot[i] = IF i <= a.length THEN a.slot[i] ELSE EmptyString
  BY <1>1, ResizeKeeps
<1>4. p = [r EXCEPT !.slot = [r.slot EXCEPT ![n] = s]]
  BY DEF Push
<1> HIDE DEF r, p
<1>5. /\ r \in [slot : Seq(Some \cup {Stale}), length : Nat] /\ n <= Len(r.slot)
      /\ \A i \in 1 .. Len(r.slot) : (r.slot[i] = Stale) <=> (i > n)
  BY <1>2 DEF Arrays, Owns
<1>6. /\ p.slot = [r.slot EXCEPT ![n] = s] /\ p.length = n
      /\ p = [slot |-> p.slot, length |-> p.length]
  BY <1>2, <1>4, <1>5
<1>7. /\ p.slot \in Seq(Some \cup {Stale}) /\ Len(p.slot) = Len(r.slot)
      /\ \A i \in 1 .. Len(r.slot) : p.slot[i] = IF i = n THEN s ELSE r.slot[i]
  BY <1>1, <1>5, <1>6
<1>8. p \in Arrays(Some)
  <2>1. Owns(p)
    BY <1>1, <1>5, <1>6, <1>7 DEF Owns, StringSet
  <2>2. p \in [slot : Seq(Some \cup {Stale}), length : Nat]
    BY <1>1, <1>6, <1>7
  <2> QED BY <1>5, <1>6, <1>7, <2>1, <2>2 DEF Arrays
<1>9. Strings(p) = Append(Strings(a), s)
  <2>1. /\ Strings(p) \in Seq(Some) /\ Len(Strings(p)) = n
        /\ \A i \in 1 .. n : Strings(p)[i] = p.slot[i]
    BY <1>6, <1>8, StringsSeq
  <2>2. /\ Strings(a) \in Seq(Some) /\ Len(Strings(a)) = a.length
        /\ \A i \in 1 .. a.length : Strings(a)[i] = a.slot[i]
    BY StringsSeq
  <2>3. \A i \in 1 .. n : p.slot[i] = IF i = n THEN s ELSE a.slot[i]
    BY <1>1, <1>3, <1>5, <1>7
  <2>4. Append(Strings(a), s) \in Seq(Some) /\ Len(Append(Strings(a), s)) = n
    BY <1>1, <2>2
  <2>5. \A i \in 1 .. n : Append(Strings(a), s)[i] = Strings(p)[i]
    BY SMTT(30), <1>1, <2>1, <2>2, <2>3
  <2> QED BY <2>1, <2>4, <2>5
<1> QED BY <1>8, <1>9 DEF p

\* The string that is popped is the last one; the others stay (austr_pop).
THEOREM PopDropsLast ==
  \A Some : StringSet(Some) =>
    \A a \in Arrays(Some) : a.length > 0 =>
      Pop(a) \in Arrays(Some) /\ Strings(a) = Append(Strings(Pop(a)), Popped(a))
<1> SUFFICES ASSUME NEW Some, StringSet(Some), NEW a \in Arrays(Some), a.length > 0
             PROVE  Pop(a) \in Arrays(Some) /\ Strings(a) = Append(Strings(Pop(a)), Popped(a))
  OBVIOUS
<1> DEFINE n == a.length - 1
<1>1. a.length \in Nat /\ n \in Nat
  BY DEF Arrays
<1>2. Pop(a) \in Arrays(Some) /\ Pop(a).length = n
  BY <1>1, ResizeOwns DEF Pop, Resize
<1>3. \A i \in 1 .. n : Pop(a).slot[i] = a.slot[i]
  BY <1>1, ResizeKeeps DEF Pop
<1>4. /\ Strings(a) \in Seq(Some) /\ Len(Strings(a)) = a.length
      /\ \A i \in 1 .. a.length : Strings(a)[i] = a.slot[i]
  BY StringsSeq
<1>5. /\ Strings(Pop(a)) \in Seq(Some) /\ Len(Strings(Pop(a))) = n
      /\ \A i \in 1 .. n : Strings(Pop(a))[i] = Pop(a).slot[i]
  BY <1>2, StringsSeq
<1>6. Popped(a) \in Some /\ Popped(a) = Strings(a)[a.length]
  BY <1>1, <1>4 DEF Popped
<1>7. /\ Append(Strings(Pop(a)), Popped(a)) \in Seq(Some)
      /\ Len(Append(Strings(Pop(a)), Popped(a))) = a.length
      /\ \A i \in 1 .. a.length : Append(Strings(Pop(a)), Popped(a))[i] = Strings(a)[i]
  BY <1>1, <1>3, <1>4, <1>5, <1>6
<1>8. Strings(a) = Append(Strings(Pop(a)), Popped(a))
  BY <1>1, <1>4, <1>7
<1> QED BY <1>2, <1>8

\* A loop that pushes one string after another appends them in their order.
THEOREM PushAllAppends ==
  \A Some : StringSet(Some) =>
    \A a \in Arrays(Some), s \in Seq(Some) :
      PushAll(a, s) \in Arrays(Some) /\ Strings(PushAll(a, s)) = Strings(a) \o s
<1> SUFFICES ASSUME NEW Some, StringSet(Some), NEW a \in Arrays(Some), NEW s \in Seq(Some)
             PROVE  PushAll(a, s) \in Arrays(Some) /\ Strings(PushAll(a, s)) = Strings(a) \o s
  OBVIOUS
<1> DEFINE N == Len(s)
           All == Arrays(Some)
           step == [n \in 1 .. N |-> [b \in All |-> Push(b, s[n])]]
           Value(g, n) == IF n = 0 THEN a ELSE Push(g[n - 1], s[n])
           Solves(g) == g = [n \in 0 .. N |-> Value(g, n)]
           after == CHOOSE g : Solves(g)
<1>1. N \in Nat /\ \A n \in 1 .. N : s[n] \in Some
  OBVIOUS
<1>2. \A n \in 1 .. N : \A b \in All : Push(b, s[n]) \in All
  BY <1>1, PushAppends
<1>3. step \in Steps(N, All)
  BY <1>2 DEF Steps
<1>4. \E g : Solves(g)
  <2>1. PICK g : Iterates(g, a, N, step, All)
    <3> HIDE DEF N, All, step
    <3>1. a \in All
      BY DEF All
    <3> QED
      BY <1>1, <1>3, <3>1, Iteration
  <2>2. /\ g \in [0 .. N -> All] /\ g[0] = a
        /\ \A n \in 1 .. N : g[n] = step[n][g[n - 1]]
    BY <2>1 DEF Iterates
  <2>3. \A n \in 1 .. N : g[n] = Push(g[n - 1], s[n])
    <3> TAKE n \in 1 .. N
    <3>0. n - 1 \in 0 .. N
      BY <1>1
    <3> HIDE DEF All, N
    <3>1. g[n - 1] \in All
      BY <3>0, <2>2
    <3> QED
      BY <3>1, <2>2
  <2>4. \A n \in 0 .. N : g[n] = Value(g, n)
    <3> TAKE n \in 0 .. N
    <3>1. CASE n = 0
      BY <3>1, <2>2
    <3>2. CASE n # 0
      <4>1. n \in 1 .. N
        BY <3>2, <1>1
      <4> QED
        BY <3>2, <4>1, <2>3
    <3> QED
      BY <3>1, <3>2
  <2> HIDE DEF Value, N, All
  <2>5. g = [n \in 0 .. N |-> Value(g, n)]
    BY <2>2, <2>4
  <2> QED
    BY <2>5
<1>5. PushAll(a, s) = after[N]
  BY Zenon DEF PushAll
<1> HIDE DEF Solves
<1>6. Solves(after)
  BY <1>4, Zenon
<1> HIDE DEF after, step
<1>7. \A n \in 0 .. N : after[n] = Value(after, n)
  <2> HIDE DEF Value
  <2> QED
    BY <1>6 DEF Solves
<1>8. /\ after[0] = a
      /\ \A n \in 0 .. N - 1 : after[n + 1] = Push(after[n], s[n + 1])
  <2> HIDE DEF N
  <2>1. 0 \in 0 .. N /\ \A n \in 0 .. N - 1 : n + 1 \in 0 .. N /\ n + 1 # 0 /\ (n + 1) - 1 = n
    BY <1>1
  <2> QED
    BY <2>1, <1>7
<1> HIDE DEF N, All, Value
<1> DEFINE M == Len(Strings(a))
           Holds(b, n) == /\ Len(Strings(b)) = M + n
                          /\ \A i \in 1 .. M : Strings(b)[i] = Strings(a)[i]
                          /\ \A i \in 1 .. n : Strings(b)[M + i] = s[i]
           T == {n \in 0 .. N : after[n] \in All /\ Holds(after[n], n)}
<1>9. \A b \in All : Strings(b) \in Seq(Some) /\ Len(Strings(b)) \in Nat
  BY StringsSeq DEF All
<1>10. a \in All /\ M \in Nat
  BY <1>9 DEF All
<1> HIDE DEF M
<1>11. 0 \in T
  BY <1>1, <1>8, <1>10 DEF M
<1>12. ASSUME NEW n \in 0 .. N - 1, n \in T PROVE n + 1 \in T
  <2>1. /\ after[n] \in All /\ Len(Strings(after[n])) = M + n
        /\ \A i \in 1 .. M : Strings(after[n])[i] = Strings(a)[i]
        /\ \A i \in 1 .. n : Strings(after[n])[M + i] = s[i]
    BY <1>12
  <2>2. n + 1 \in 1 .. N /\ n \in Nat
    BY <1>1
  <2> DEFINE b == after[n]
             c == after[n + 1]
  <2>3. c = Push(b, s[n + 1]) /\ s[n + 1] \in Some
    BY <2>2, <1>1, <1>8
  <2> HIDE DEF b, c
  <2>4. b \in All
    BY <2>1 DEF b
  <2>5. c \in All /\ Strings(c) = Append(Strings(b), s[n + 1])
    BY <2>3, <2>4, PushAppends DEF All
  <2>6. /\ Len(Strings(c)) = M + n + 1
        /\ \A i \in 1 .. M + n : Strings(c)[i] = Strings(b)[i]
        /\ Strings(c)[M + n + 1] = s[n + 1]
    <3>1. Strings(b) \in Seq(Some) /\ Len(Strings(b)) = M + n
      BY <2>1, <2>4, <1>9 DEF b
    <3> DEFINE u == Strings(b)
    <3> HIDE DEF u
    <3>2. u \in Seq(Some) /\ Len(u) = M + n /\ Strings(c) = Append(u, s[n + 1])
      BY <3>1, <2>5 DEF u
    <3>3. \A i \in 1 .. M + n : Strings(c)[i] = u[i]
      BY <3>2, <2>2, <1>10
    <3> QED
      BY <3>2, <3>3, <2>2, <2>3, <1>10 DEF u
  <2>7. Holds(c, n + 1)
    <3>1. Len(Strings(c)) = M + (n + 1)
      BY <2>2, <2>6, <1>10
    <3>2. ASSUME NEW i \in 1 .. M PROVE Strings(c)[i] = Strings(a)[i]
      <4>1. i \in 1 .. M + n
        BY <2>2, <1>10
      <4> QED
        BY <4>1, <2>1, <2>6 DEF b
    <3>3. ASSUME NEW i \in 1 .. n + 1 PROVE Strings(c)[M + i] = s[i]
      <4>1. CASE i = n + 1
        <5>1. M + i = M + n + 1
          BY <4>1, <1>10, <2>2
        <5> QED
          BY <4>1, <5>1, <2>6
      <4>2. CASE i \in 1 .. n
        <5>1. M + i \in 1 .. M + n
          BY <4>2, <1>10, <2>2
        <5> QED
          BY <4>2, <5>1, <2>1, <2>6 DEF b
      <4> QED
        BY <4>1, <4>2, <2>2
    <3> QED
      BY <3>1, <3>2, <3>3
  <2> HIDE DEF Holds
  <2> QED
    BY <2>2, <2>5, <2>7 DEF c
<1> HIDE DEF T
<1>13. 0 .. N \subseteq T
  BY <1>1, <1>11, <1>12, UpTo
<1>14. N \in T
  BY <1>1, <1>13
<1> DEFINE r == after[N]
<1>15. r \in All /\ Holds(r, N)
  BY <1>14 DEF T
<1> HIDE DEF r
<1>16. Strings(r) = Strings(a) \o s
  <2> DEFINE u == Strings(r)
             v == Strings(a)
  <2>1. u \in Seq(Some) /\ v \in Seq(Some)
    BY <1>9, <1>10, <1>15
  <2>2. /\ Len(u) = M + N /\ \A i \in 1 .. M : u[i] = v[i]
        /\ \A i \in 1 .. N : u[M + i] = s[i]
    BY <1>15
  <2>3. Len(v) = M
    BY DEF M
  <2> HIDE DEF u, v
  <2>4. v \o s \in Seq(Some) /\ Len(v \o s) = M + N
    BY <2>1, <2>3 DEF N
  <2>5. ASSUME NEW i \in 1 .. M + N PROVE u[i] = (v \o s)[i]
    <3>1. CASE i \in 1 .. M
      BY <3>1, <2>1, <2>2, <2>3
    <3>2. CASE i \notin 1 .. M
      <4>1. i - M \in 1 .. N /\ M + (i - M) = i
        BY <3>2, <1>1, <1>10
      <4>2. u[i] = s[i - M]
        BY <4>1, <2>2
      <4>3. (v \o s)[i] = s[i - M]
        BY <3>2, <4>1, <2>1, <2>3, <1>1, <1>10 DEF N
      <4> QED
        BY <4>2, <4>3
    <3> QED
      BY <3>1, <3>2
  <2>6. u = v \o s
    BY <2>1, <2>2, <2>4, <2>5
  <2> QED
    BY <2>6 DEF u, v
<1> QED
  BY <1>5, <1>15, <1>16 DEF All, r

-----------------------------------------------------------------------------
(* Tables *)

\* What a node may hold, the heads of a table, and the rows that spell its
\* chains out.
Cells == [key : Keys \cup {Null}, value : Values \cup {<<>>}, next : Nodes \cup {Null}]
Heads == [Bucket -> Nodes \cup {Null}]
Rows == [Bucket -> Seq(Nodes)]

\* The nodes of a chain as a sequence, with nothing beyond its end.
Item(s, i) == IF i \in 1 .. Len(s) THEN s[i] ELSE Null
On(s) == {s[i] : i \in 1 .. Len(s)}

\* Which nodes a chain leads to from its head, and what they have to hold.
Leads(s, head, nd) ==
  /\ head = Item(s, 1)
  /\ \A i \in 1 .. Len(s) : nd[s[i]].next = Item(s, i + 1)

\* A chain holds strings of its own bucket, each of them once.
Hashed(s, b, nd) ==
  /\ \A i \in 1 .. Len(s) : /\ nd[s[i]].key \in Keys /\ Hash[nd[s[i]].key] % BUCKETS = b
                            /\ nd[s[i]].value \in Values
  /\ \A i, j \in 1 .. Len(s) : nd[s[i]].key = nd[s[j]].key => i = j

\* The rows are the chains of a table.
Strung(row, heads, nd) ==
  /\ row \in Rows /\ heads \in Heads
  /\ \A b \in Bucket : Leads(row[b], heads[b], nd) /\ Hashed(row[b], b, nd)

\* The nodes on the chains of a table.
Held(row) == UNION {On(row[b]) : b \in Bucket}

-----------------------------------------------------------------------------
(* What lookup walks along.                                                *)

\* Chain, of any head and any nodes.
ChainOn(head, nd) ==
  LET at[i \in 0 .. Cardinality(Nodes)] ==
        IF i = 0 THEN head
        ELSE IF at[i - 1] = Null THEN Null ELSE nd[at[i - 1]].next
  IN at

\* The bound on the nodes is a number.
LEMMA NodesFinite == IsFiniteSet(Nodes) /\ Cardinality(Nodes) \in Nat
BY MappingAssumption, FS_CardinalityType

\* A null pointer points to no node.
LEMMA NullIsNoNode == Null \notin Nodes
BY Zenon, PointersAssumption

\* A walk from the head passes the nodes of the chain and then stays at its end.
LEMMA ChainIsRow ==
  ASSUME NEW nd, NEW s \in Seq(Nodes), NEW head, Leads(s, head, nd)
  PROVE  /\ DOMAIN ChainOn(head, nd) = 0 .. Cardinality(Nodes)
         /\ \A i \in 0 .. Cardinality(Nodes) : ChainOn(head, nd)[i] = Item(s, i + 1)
<1> DEFINE N == Cardinality(Nodes)
           After(g, i) == IF i = 0 THEN head
                          ELSE IF g[i - 1] = Null THEN Null ELSE nd[g[i - 1]].next
           Solves(g) == g = [i \in 0 .. N |-> After(g, i)]
           at == CHOOSE g : Solves(g)
           h == [i \in 0 .. N |-> Item(s, i + 1)]
<1>1. N \in Nat
  BY NodesFinite
<1>2. \A i \in Nat : i # 0 =>
        Item(s, i + 1) = IF Item(s, i) = Null THEN Null ELSE nd[Item(s, i)].next
  <2> SUFFICES ASSUME NEW i \in Nat, i # 0
               PROVE  Item(s, i + 1) = IF Item(s, i) = Null THEN Null ELSE nd[Item(s, i)].next
    OBVIOUS
  <2>1. CASE i \in 1 .. Len(s)
    <3>1. Item(s, i) = s[i] /\ s[i] \in Nodes /\ nd[s[i]].next = Item(s, i + 1)
      BY <2>1 DEF Item, Leads
    <3> QED
      BY <3>1, NullIsNoNode
  <2>2. CASE i \notin 1 .. Len(s)
    <3>1. Len(s) \in Nat
      OBVIOUS
    <3>2. i + 1 \notin 1 .. Len(s)
      BY <2>2, <3>1
    <3> QED
      BY <2>2, <3>2 DEF Item
  <2> QED
    BY <2>1, <2>2
<1>3. Solves(h)
  <2>1. \A i \in 0 .. N : After(h, i) = Item(s, i + 1)
    <3> TAKE i \in 0 .. N
    <3>1. CASE i = 0
      BY <3>1 DEF Leads
    <3>2. CASE i # 0
      <4>1. i \in Nat /\ i - 1 \in 0 .. N /\ (i - 1) + 1 = i
        BY <3>2, <1>1
      <4>2. h[i - 1] = Item(s, i)
        BY <4>1
      <4> HIDE DEF h
      <4> QED
        BY <3>2, <4>1, <4>2, <1>2
    <3> QED
      BY <3>1, <3>2
  <2> HIDE DEF After, N
  <2> QED
    BY <2>1
<1>4. ChainOn(head, nd) = at
  BY Zenon DEF ChainOn
<1> HIDE DEF Solves
<1>5. Solves(at)
  BY <1>3, Zenon
<1> HIDE DEF at
<1>6. DOMAIN at = 0 .. N /\ \A i \in 0 .. N : at[i] = After(at, i)
  <2> HIDE DEF After
  <2> QED
    BY <1>5 DEF Solves
<1> DEFINE T == {i \in 0 .. N : at[i] = Item(s, i + 1)}
<1>7. 0 \in T
  BY <1>1, <1>6 DEF Leads
<1>8. ASSUME NEW i \in 0 .. N - 1, i \in T PROVE i + 1 \in T
  <2>1. i + 1 \in 0 .. N /\ i + 1 # 0 /\ (i + 1) - 1 = i /\ i + 1 \in Nat
    BY <1>1
  <2>2. at[i] = Item(s, i + 1)
    BY <1>8
  <2>3. at[i + 1] = IF at[i] = Null THEN Null ELSE nd[at[i]].next
    BY <2>1, <1>6
  <2>4. at[i + 1] = Item(s, (i + 1) + 1)
    BY <2>1, <2>2, <2>3, <1>2
  <2> QED
    BY <2>1, <2>4
<1> HIDE DEF T
<1>9. 0 .. N \subseteq T
  BY <1>1, <1>7, <1>8, UpTo
<1> QED
  BY <1>4, <1>6, <1>9 DEF T

\* A chain is no longer than there are nodes.
LEMMA RowFits ==
  ASSUME NEW nd, NEW b, NEW s \in Seq(Nodes), Hashed(s, b, nd)
  PROVE  /\ Len(s) \in Nat /\ Len(s) <= Cardinality(Nodes)
         /\ \A i, j \in 1 .. Len(s) : s[i] = s[j] => i = j
<1>1. Len(s) \in Nat
  OBVIOUS
<1>2. \A i, j \in 1 .. Len(s) : s[i] = s[j] => i = j
  BY DEF Hashed
<1>3. s \in Injection(1 .. Len(s), Nodes)
  BY <1>2 DEF Injection, IsInjective
<1>4. Cardinality(1 .. Len(s)) = Len(s)
  BY <1>1, FS_Interval
<1> HIDE DEF Injection
<1>5. Cardinality(1 .. Len(s)) <= Cardinality(Nodes)
  BY <1>3, NodesFinite, FS_Injection
<1> QED
  BY <1>1, <1>2, <1>4, <1>5

-----------------------------------------------------------------------------
(* What a table holds.                                                     *)

\* NodesOf, Contents and Lookup, of any heads and any nodes.
NodesOn(heads, nd) ==
  UNION {LET c == ChainOn(heads[b], nd) IN {c[i] : i \in DOMAIN c} \ {Null} : b \in Bucket}

KeysIn(S, nd) == {nd[n].key : n \in S}
ContentsIn(S, nd) == [k \in KeysIn(S, nd) |-> nd[CHOOSE n \in S : nd[n].key = k].value]
ContentsOn(heads, nd) == ContentsIn(NodesOn(heads, nd), nd)

\* What lookup finds, of any heads and any nodes.
LookupOn(heads, nd, k) ==
  LET b == Hash[k] % BUCKETS
      c == ChainOn(heads[b], nd)
      i == Min({j \in DOMAIN c : c[j] = Null \/ nd[c[j]].key = k})
  IN [bucket |-> b, prev |-> IF i = 0 THEN Null ELSE c[i - 1], at |-> c[i],
      compared |-> {c[j] : j \in 0 .. i} \ {Null}]

\* The operators of the model are the ones above at its own variables.
LEMMA AtPlaces ==
  /\ \A t \in Tables, b \in Bucket : Chain(t, b) = ChainOn(pimpl[t][b], node)
  /\ \A t \in Tables : NodesOf(t) = NodesOn(pimpl[t], node)
  /\ \A t \in Tables : Contents(t) = IF pimpl[t] = Null THEN Null ELSE ContentsOn(pimpl[t], node)
  /\ \A t \in Tables, k \in Keys : Lookup(t, k) = LookupOn(pimpl[t], node, k)
<1>1. \A t \in Tables, b \in Bucket : Chain(t, b) = ChainOn(pimpl[t][b], node)
  BY Zenon DEF Chain, ChainOn
<1>2. \A t \in Tables : NodesOf(t) = NodesOn(pimpl[t], node)
  BY Zenon DEF NodesOf, NodesOn, Chain, ChainOn
<1>3. \A t \in Tables : Contents(t) = IF pimpl[t] = Null THEN Null ELSE ContentsOn(pimpl[t], node)
  BY Zenon DEF Contents, ContentsOn, ContentsIn, KeysIn, NodesOf, NodesOn, Chain, ChainOn
<1>4. \A t \in Tables, k \in Keys : Lookup(t, k) = LookupOn(pimpl[t], node, k)
  BY Zenon DEF Lookup, LookupOn, Chain, ChainOn
<1> QED
  BY <1>1, <1>2, <1>3, <1>4

\* So they are in the next state.
LEMMA AtPlacesPrimed ==
  /\ \A t \in Tables, b \in Bucket : Chain(t, b)' = ChainOn(pimpl'[t][b], node')
  /\ \A t \in Tables : NodesOf(t)' = NodesOn(pimpl'[t], node')
  /\ \A t \in Tables : Contents(t)' = IF pimpl'[t] = Null THEN Null ELSE ContentsOn(pimpl'[t], node')
<1>1. \A t \in Tables, b \in Bucket : Chain(t, b)' = ChainOn(pimpl'[t][b], node')
  BY Zenon DEF Chain, ChainOn
<1>2. \A t \in Tables : NodesOf(t)' = NodesOn(pimpl'[t], node')
  BY Zenon DEF NodesOf, NodesOn, Chain, ChainOn
<1>3. \A t \in Tables : Contents(t)' = IF pimpl'[t] = Null THEN Null ELSE ContentsOn(pimpl'[t], node')
  BY Zenon DEF Contents, ContentsOn, ContentsIn, KeysIn, NodesOf, NodesOn, Chain, ChainOn
<1> QED
  BY <1>1, <1>2, <1>3

\* Every string hashes to a bucket (mapping.c takes the hash modulo the
\* buckets).
LEMMA HashedBucket == \A k \in Keys : Hash[k] % BUCKETS \in Bucket
<1> TAKE k \in Keys
<1>1. Hash[k] \in Nat /\ BUCKETS \in Nat \ {0}
  BY MappingAssumption
<1> QED
  BY <1>1 DEF Bucket

\* What a sound table says of one bucket.
LEMMA StrungRow ==
  ASSUME NEW row, NEW heads, NEW nd, Strung(row, heads, nd), NEW b \in Bucket
  PROVE  /\ row[b] \in Seq(Nodes) /\ Leads(row[b], heads[b], nd) /\ Hashed(row[b], b, nd)
         /\ Len(row[b]) \in Nat /\ Len(row[b]) <= Cardinality(Nodes)
         /\ \A i, j \in 1 .. Len(row[b]) : row[b][i] = row[b][j] => i = j
<1>1. row[b] \in Seq(Nodes) /\ Leads(row[b], heads[b], nd) /\ Hashed(row[b], b, nd)
  BY DEF Strung, Rows
<1> QED
  BY <1>1, RowFits

\* The nodes that are found from the heads are those of the rows.
LEMMA NodesAreHeld ==
  ASSUME NEW row, NEW heads, NEW nd, Strung(row, heads, nd)
  PROVE  NodesOn(heads, nd) = Held(row)
<1> DEFINE Found(b) == LET c == ChainOn(heads[b], nd) IN {c[i] : i \in DOMAIN c} \ {Null}
<1>1. ASSUME NEW b \in Bucket
      PROVE  Found(b) = On(row[b])
  <2> DEFINE s == row[b]
             c == ChainOn(heads[b], nd)
             N == Cardinality(Nodes)
  <2>1. /\ s \in Seq(Nodes) /\ Leads(s, heads[b], nd) /\ Len(s) \in Nat /\ Len(s) <= N
        /\ N \in Nat
    BY StrungRow, NodesFinite
  <2>2. DOMAIN c = 0 .. N /\ \A i \in 0 .. N : c[i] = Item(s, i + 1)
    BY <2>1, ChainIsRow
  <2> HIDE DEF c, s, N
  <2>3. ASSUME NEW i \in 0 .. N, c[i] # Null PROVE c[i] \in On(s)
    <3>1. c[i] = Item(s, i + 1)
      BY <2>2
    <3>2. i + 1 \in 1 .. Len(s)
      BY <2>3, <3>1 DEF Item
    <3> QED
      BY <3>1, <3>2 DEF Item, On
  <2>4. ASSUME NEW j \in 1 .. Len(s)
        PROVE  s[j] # Null /\ \E i \in 0 .. N : c[i] = s[j]
    <3>1. j - 1 \in 0 .. N /\ (j - 1) + 1 = j
      BY <2>1
    <3>2. c[j - 1] = s[j]
      BY <2>2, <3>1 DEF Item
    <3>3. s[j] \in Nodes
      BY <2>1
    <3> QED
      BY <3>1, <3>2, <3>3, NullIsNoNode
  <2>5. {c[i] : i \in 0 .. N} \ {Null} = On(s)
    BY <2>3, <2>4 DEF On
  <2> QED
    BY <2>2, <2>5 DEF c, s
<1>2. NodesOn(heads, nd) = UNION {Found(b) : b \in Bucket}
  BY Zenon DEF NodesOn
<1> HIDE DEF Found
<1> QED
  BY <1>1, <1>2 DEF Held

\* No two nodes of a table have the same key.
LEMMA KeysDiffer ==
  ASSUME NEW row, NEW heads, NEW nd, Strung(row, heads, nd)
  PROVE  /\ \A n \in Held(row) : n \in Nodes /\ nd[n].key \in Keys /\ nd[n].value \in Values
         /\ \A m, n \in Held(row) : nd[m].key = nd[n].key => m = n
<1>1. ASSUME NEW n \in Held(row)
      PROVE  \E b \in Bucket : \E i \in 1 .. Len(row[b]) :
               /\ n = row[b][i] /\ n \in Nodes /\ nd[n].key \in Keys /\ nd[n].value \in Values
               /\ Hash[nd[n].key] % BUCKETS = b
  <2>1. PICK b \in Bucket : n \in On(row[b])
    BY DEF Held
  <2>2. PICK i \in 1 .. Len(row[b]) : n = row[b][i]
    BY <2>1 DEF On
  <2>3. row[b] \in Seq(Nodes) /\ Hashed(row[b], b, nd)
    BY StrungRow
  <2>4. n \in Nodes
    BY <2>2, <2>3
  <2> QED
    BY <2>2, <2>3, <2>4 DEF Hashed
<1>2. ASSUME NEW m \in Held(row), NEW n \in Held(row), nd[m].key = nd[n].key PROVE m = n
  <2>1. PICK a \in Bucket : \E i \in 1 .. Len(row[a]) : m = row[a][i] /\ Hash[nd[m].key] % BUCKETS = a
    BY <1>1
  <2>2. PICK b \in Bucket : \E j \in 1 .. Len(row[b]) : n = row[b][j] /\ Hash[nd[n].key] % BUCKETS = b
    BY <1>1
  <2>3. a = b
    BY <1>2, <2>1, <2>2
  <2>4. Hashed(row[b], b, nd)
    BY StrungRow
  <2> QED
    BY <1>2, <2>1, <2>2, <2>3, <2>4 DEF Hashed
<1> QED
  BY <1>1, <1>2

\* lookup returns the link that leads to the node of a key, if there is one,
\* and the link at the end of the key's chain if there is none.
LeadsTo(link, b, s, k, nd, p) ==
  /\ p \in 1 .. Len(s) + 1
  /\ link.bucket = b /\ link.prev = Item(s, p - 1) /\ link.at = Item(s, p)
  /\ p = Len(s) + 1 => \A i \in 1 .. Len(s) : nd[s[i]].key # k
  /\ p # Len(s) + 1 => nd[s[p]].key = k
  /\ link.prev # Null => link.prev \in link.compared
  /\ link.at # Null => link.at \in link.compared

\* lookup stops at the node that holds the string, or past the end of its
\* chain.
LEMMA Looks ==
  ASSUME NEW row, NEW heads, NEW nd, Strung(row, heads, nd), NEW k \in Keys
  PROVE  LET b == Hash[k] % BUCKETS
         IN  \E p : LeadsTo(LookupOn(heads, nd, k), b, row[b], k, nd, p)
<1> DEFINE b == Hash[k] % BUCKETS
           s == row[b]
           c == ChainOn(heads[b], nd)
           N == Cardinality(Nodes)
           S == {j \in DOMAIN c : c[j] = Null \/ nd[c[j]].key = k}
           i == Min(S)
           link == LookupOn(heads, nd, k)
<1>1. b \in Bucket
  BY HashedBucket
<1>2. /\ s \in Seq(Nodes) /\ Leads(s, heads[b], nd) /\ Len(s) \in Nat /\ Len(s) <= N
      /\ N \in Nat
  <2> HIDE DEF b
  <2> QED
    BY <1>1, StrungRow, NodesFinite
<1>3. DOMAIN c = 0 .. N /\ \A j \in 0 .. N : c[j] = Item(s, j + 1)
  <2> HIDE DEF b
  <2> QED
    BY <1>2, ChainIsRow
<1>4. /\ link.bucket = b /\ link.prev = IF i = 0 THEN Null ELSE c[i - 1]
      /\ link.at = c[i] /\ link.compared = {c[j] : j \in 0 .. i} \ {Null}
  <2>1. link = [bucket |-> b, prev |-> IF i = 0 THEN Null ELSE c[i - 1], at |-> c[i],
                compared |-> {c[j] : j \in 0 .. i} \ {Null}]
    BY Zenon DEF LookupOn
  <2> HIDE DEF link, i, c, b
  <2> QED
    BY <2>1
<1> HIDE DEF c, s, b, N, link
<1>5. Len(s) \in S
  <2>1. Len(s) \in 0 .. N /\ Len(s) + 1 \notin 1 .. Len(s)
    BY <1>2
  <2> QED
    BY <2>1, <1>3 DEF Item
<1>6. S \in SUBSET Nat
  BY <1>2, <1>3
<1>7. i \in S /\ \A j \in S : i <= j
  <2> HIDE DEF S
  <2>1. \E x \in S : \A y \in S : x <= y
    BY <1>5, <1>6, Least
  <2> QED
    BY <2>1, Zenon DEF Min
<1> HIDE DEF i
<1>8. /\ i \in 0 .. N /\ i <= Len(s) /\ i \in Nat
      /\ c[i] = Null \/ nd[c[i]].key = k
      /\ \A j \in 0 .. N : (c[j] = Null \/ nd[c[j]].key = k) => i <= j
  <2>1. i \in S /\ i <= Len(s) /\ \A j \in S : i <= j
    BY <1>5, <1>7
  <2>2. i \in 0 .. N /\ i \in Nat
    BY <2>1, <1>2, <1>3
  <2> QED
    BY <2>1, <2>2, <1>3
<1> HIDE DEF S
<1>9. i + 1 \in 1 .. Len(s) + 1 /\ (i + 1) - 1 = i
  BY <1>2, <1>8
<1>10. link.prev = Item(s, (i + 1) - 1)
  <2>1. CASE i = 0
    <3>1. 0 \notin 1 .. Len(s)
      BY <1>2
    <3> QED
      BY <2>1, <3>1, <1>4, <1>9 DEF Item
  <2>2. CASE i # 0
    <3>1. i - 1 \in 0 .. N /\ (i - 1) + 1 = i
      BY <2>2, <1>8, <1>2
    <3> QED
      BY <2>2, <3>1, <1>3, <1>4, <1>9
  <2> QED
    BY <2>1, <2>2
<1>11. link.at = Item(s, i + 1)
  BY <1>3, <1>4, <1>8
<1>12. ASSUME i + 1 = Len(s) + 1, NEW j \in 1 .. Len(s) PROVE nd[s[j]].key # k
  <2>1. j - 1 \in 0 .. N /\ (j - 1) + 1 = j /\ ~(i <= j - 1)
    BY <1>12, <1>2, <1>8
  <2>2. c[j - 1] = s[j]
    BY <2>1, <1>3 DEF Item
  <2> QED
    BY <2>1, <2>2, <1>8
<1>13. ASSUME i + 1 # Len(s) + 1 PROVE nd[s[i + 1]].key = k
  <2>1. i + 1 \in 1 .. Len(s)
    BY <1>13, <1>9, <1>2
  <2>2. c[i] = s[i + 1] /\ s[i + 1] \in Nodes
    BY <2>1, <1>2, <1>3, <1>8 DEF Item
  <2> QED
    BY <2>2, <1>8, NullIsNoNode
<1>14. /\ link.prev # Null => link.prev \in link.compared
       /\ link.at # Null => link.at \in link.compared
  <2>1. i \in 0 .. i /\ (i # 0 => i - 1 \in 0 .. i)
    BY <1>8
  <2> QED
    BY <2>1, <1>4
<1>15. LeadsTo(link, b, s, k, nd, i + 1)
  BY <1>4, <1>9, <1>10, <1>11, <1>12, <1>13, <1>14 DEF LeadsTo
<1> QED
  BY <1>15, Zenon DEF link, s, b

\* The function a table stands for has the key and the value of every node.
LEMMA ContentsTell ==
  ASSUME NEW row, NEW heads, NEW nd, Strung(row, heads, nd)
  PROVE  /\ DOMAIN ContentsOn(heads, nd) = KeysIn(Held(row), nd)
         /\ ContentsOn(heads, nd) \in [KeysIn(Held(row), nd) -> Values]
         /\ \A n \in Held(row) : ContentsOn(heads, nd)[nd[n].key] = nd[n].value
<1> DEFINE D == KeysIn(Held(row), nd)
           Of(k) == CHOOSE n \in Held(row) : nd[n].key = k
           f == ContentsOn(heads, nd)
<1>1. f = [k \in D |-> nd[Of(k)].value]
  <2>1. f = ContentsIn(Held(row), nd)
    BY NodesAreHeld, Zenon DEF ContentsOn
  <2> QED
    BY <2>1, Zenon DEF ContentsIn
<1>2. \A k \in D : Of(k) \in Held(row) /\ nd[Of(k)].key = k
  BY DEF KeysIn
<1>3. \A n \in Held(row) : nd[n].value \in Values /\ nd[n].key \in D
  BY KeysDiffer DEF KeysIn
<1>4. \A m, n \in Held(row) : nd[m].key = nd[n].key => m = n
  BY KeysDiffer
<1> HIDE DEF Of, f, D
<1>5. \A n \in Held(row) : Of(nd[n].key) = n
  BY <1>2, <1>3, <1>4
<1>6. f \in [D -> Values] /\ DOMAIN f = D
  BY <1>1, <1>2, <1>3
<1>7. \A n \in Held(row) : f[nd[n].key] = nd[n].value
  BY <1>1, <1>3, <1>5
<1> QED
  BY <1>6, <1>7 DEF f, D

\* No other function does.
Fits(f, row, heads, nd) ==
  /\ Strung(row, heads, nd)
  /\ f \in [KeysIn(Held(row), nd) -> Values]
  /\ \A n \in Held(row) : f[nd[n].key] = nd[n].value

\* And for no other.
LEMMA OneContents ==
  ASSUME NEW row, NEW heads, NEW nd, NEW f, Fits(f, row, heads, nd)
  PROVE  ContentsOn(heads, nd) = f
<1> DEFINE D == KeysIn(Held(row), nd)
           g == ContentsOn(heads, nd)
<1>1. DOMAIN g = D /\ g \in [D -> Values] /\ \A n \in Held(row) : g[nd[n].key] = nd[n].value
  BY ContentsTell DEF Fits
<1>2. \A k \in D : \E n \in Held(row) : k = nd[n].key
  BY DEF KeysIn
<1>3. f \in [D -> Values] /\ \A n \in Held(row) : f[nd[n].key] = nd[n].value
  BY DEF Fits
<1> HIDE DEF D, g
<1>4. \A k \in D : f[k] = g[k]
  BY <1>1, <1>2, <1>3
<1>5. f = [k \in D |-> f[k]] /\ g = [k \in D |-> g[k]]
  BY <1>1, <1>3
<1>6. g = f
  BY <1>4, <1>5
<1> QED
  BY <1>6 DEF g

\* Tables with the same nodes and what is in them are the same function.
LEMMA ContentsSame ==
  ASSUME NEW row, NEW heads, NEW nd, Strung(row, heads, nd),
         NEW heads2, NEW nd2, Strung(row, heads2, nd2),
         \A n \in Held(row) : nd2[n].key = nd[n].key /\ nd2[n].value = nd[n].value
  PROVE  ContentsOn(heads2, nd2) = ContentsOn(heads, nd)
<1> DEFINE D == KeysIn(Held(row), nd)
           D2 == KeysIn(Held(row), nd2)
           f == ContentsOn(heads, nd)
<1>1. f \in [D -> Values] /\ \A n \in Held(row) : f[nd[n].key] = nd[n].value
  BY ContentsTell
<1>2. D2 = D
  BY DEF KeysIn
<1>3. \A n \in Held(row) : f[nd2[n].key] = nd2[n].value
  BY <1>1
<1> HIDE DEF D, D2, f
<1>4. f \in [D2 -> Values]
  BY <1>1, <1>2
<1>5. Fits(f, row, heads2, nd2)
  BY <1>3, <1>4 DEF Fits, D2
<1>6. ContentsOn(heads2, nd2) = f
  BY <1>5, OneContents
<1> QED
  BY <1>6 DEF f

\* One node x with key k and value v, new or there before.
With(f, k, v) == [j \in DOMAIN f \cup {k} |-> IF j = k THEN v ELSE f[j]]

\* One table becomes another by mapping k to v in the node x, which is new or
\* holds k.
Puts(row, heads, nd, row2, heads2, nd2, x, k, v) ==
  /\ Strung(row, heads, nd) /\ Strung(row2, heads2, nd2)
  /\ Held(row2) = Held(row) \cup {x}
  /\ nd2[x].key = k /\ nd2[x].value = v
  /\ x \in Held(row) => nd[x].key = k
  /\ \A n \in Held(row) \ {x} : nd2[n].key = nd[n].key /\ nd2[n].value = nd[n].value

\* Writing one node changes the function at one string.
LEMMA ContentsPut ==
  ASSUME NEW row, NEW heads, NEW nd, NEW row2, NEW heads2, NEW nd2, NEW x, NEW k, NEW v,
         Puts(row, heads, nd, row2, heads2, nd2, x, k, v)
  PROVE  ContentsOn(heads2, nd2) = With(ContentsOn(heads, nd), k, v)
<1> SUFFICES ASSUME Strung(row, heads, nd), Strung(row2, heads2, nd2),
                    Held(row2) = Held(row) \cup {x},
                    nd2[x].key = k, nd2[x].value = v,
                    x \in Held(row) => nd[x].key = k,
                    \A n \in Held(row) \ {x} :
                      nd2[n].key = nd[n].key /\ nd2[n].value = nd[n].value
             PROVE  ContentsOn(heads2, nd2) = With(ContentsOn(heads, nd), k, v)
  BY Zenon DEF Puts
<1> DEFINE D == KeysIn(Held(row), nd)
           D2 == KeysIn(Held(row2), nd2)
           f == ContentsOn(heads, nd)
           g == [j \in D \cup {k} |-> IF j = k THEN v ELSE f[j]]
<1>1. DOMAIN f = D /\ \A n \in Held(row) : f[nd[n].key] = nd[n].value
  BY ContentsTell
<1>2. D2 = D \cup {k}
  BY DEF KeysIn
<1>3. ASSUME NEW n \in Held(row2) PROVE g[nd2[n].key] = nd2[n].value
  <2>1. CASE n = x
    BY <2>1
  <2>2. CASE n # x
    <3>1. n \in Held(row) \ {x} /\ x \in Held(row2)
      BY <2>2
    <3>2. nd2[n].key # k
      BY <2>2, <3>1, KeysDiffer
    <3>3. nd2[n].key \in D /\ f[nd2[n].key] = nd2[n].value
      BY <3>1, <1>1 DEF KeysIn
    <3> QED
      BY <3>2, <3>3
  <2> QED
    BY <2>1, <2>2
<1>4. g \in [D2 -> Values]
  <2>1. f \in [D -> Values] /\ v \in Values
    BY ContentsTell, KeysDiffer
  <2> HIDE DEF D2, D, f
  <2> QED
    BY <1>2, <2>1
<1> HIDE DEF g, D2
<1>5. Fits(g, row2, heads2, nd2)
  BY <1>3, <1>4, Zenon DEF Fits, D2
<1>6. ContentsOn(heads2, nd2) = g
  BY <1>5, OneContents, Zenon
<1> QED
  BY <1>1, <1>6 DEF g, With

\* One node less.
Unmapped(f, k) == [j \in DOMAIN f \ {k} |-> f[j]]

\* One table becomes another by losing the node x.
Cuts(row, heads, nd, row2, heads2, nd2, x) ==
  /\ Strung(row, heads, nd) /\ Strung(row2, heads2, nd2)
  /\ x \in Held(row) /\ Held(row2) = Held(row) \ {x}
  /\ \A n \in Held(row2) : nd2[n].key = nd[n].key /\ nd2[n].value = nd[n].value

\* Losing one node removes one string from it.
LEMMA ContentsCut ==
  ASSUME NEW row, NEW heads, NEW nd, NEW row2, NEW heads2, NEW nd2, NEW x,
         Cuts(row, heads, nd, row2, heads2, nd2, x)
  PROVE  ContentsOn(heads2, nd2) = Unmapped(ContentsOn(heads, nd), nd[x].key)
<1> SUFFICES ASSUME Strung(row, heads, nd), Strung(row2, heads2, nd2),
                    x \in Held(row), Held(row2) = Held(row) \ {x},
                    \A n \in Held(row2) :
                      nd2[n].key = nd[n].key /\ nd2[n].value = nd[n].value
             PROVE  ContentsOn(heads2, nd2) = Unmapped(ContentsOn(heads, nd), nd[x].key)
  BY Zenon DEF Cuts
<1> DEFINE D == KeysIn(Held(row), nd)
           D2 == KeysIn(Held(row2), nd2)
           f == ContentsOn(heads, nd)
           g == [j \in D \ {nd[x].key} |-> f[j]]
<1>1. DOMAIN f = D /\ \A n \in Held(row) : f[nd[n].key] = nd[n].value
  BY ContentsTell
<1>2. \A n \in Held(row) : nd[n].key = nd[x].key => n = x
  BY KeysDiffer
<1>3. D2 = D \ {nd[x].key}
  BY <1>2 DEF KeysIn
<1>4. ASSUME NEW n \in Held(row2) PROVE g[nd2[n].key] = nd2[n].value
  <2>1. n \in Held(row) /\ nd2[n].key \in D2
    BY DEF KeysIn
  <2> HIDE DEF D, D2
  <2> QED
    BY <2>1, <1>1, <1>3
<1>5. g \in [D2 -> Values]
  <2>1. f \in [D -> Values]
    BY ContentsTell
  <2> HIDE DEF D2, D, f
  <2> QED
    BY <1>3, <2>1
<1> HIDE DEF g, D2
<1>6. Fits(g, row2, heads2, nd2)
  BY <1>4, <1>5, Zenon DEF Fits, D2
<1>7. ContentsOn(heads2, nd2) = g
  BY <1>6, OneContents, Zenon
<1> QED
  BY <1>1, <1>7 DEF g, Unmapped

-----------------------------------------------------------------------------
(* What the writes do to the rows.                                         *)

\* The nodes of one chain are nodes of the table.
LEMMA OnHeld ==
  ASSUME NEW row, NEW heads, NEW nd, Strung(row, heads, nd), NEW b \in Bucket
  PROVE  /\ On(row[b]) \subseteq Held(row) /\ On(row[b]) \subseteq Nodes
         /\ \A i \in 1 .. Len(row[b]) : row[b][i] \in On(row[b])
<1>1. row[b] \in Seq(Nodes)
  BY StrungRow
<1> QED
  BY <1>1 DEF On, Held

\* A chain that is not written to stays as it is.
LEMMA RowSame ==
  ASSUME NEW s \in Seq(Nodes), NEW b, NEW head, NEW nd, NEW nd2,
         Leads(s, head, nd), Hashed(s, b, nd), \A n \in On(s) : nd2[n] = nd[n]
  PROVE  Leads(s, head, nd2) /\ Hashed(s, b, nd2)
<1>1. \A i \in 1 .. Len(s) : nd2[s[i]] = nd[s[i]]
  BY DEF On
<1> QED
  BY <1>1 DEF Leads, Hashed

\* One chain is another one now, the others are left alone.
Replaces(row, heads, nd, b, s, row2, heads2, nd2) ==
  /\ Strung(row, heads, nd)
  /\ row2 = [row EXCEPT ![b] = s]
  /\ b \in Bucket /\ s \in Seq(Nodes) /\ heads2 \in Heads
  /\ Leads(s, heads2[b], nd2) /\ Hashed(s, b, nd2)
  /\ \A c \in Bucket \ {b} : heads2[c] = heads[c]
  /\ \A n \in Held(row) \ On(row[b]) : nd2[n] = nd[n]

\* A table stays sound when one bucket gets another sound chain and no node of
\* the others is written.
LEMMA RowReplaced ==
  ASSUME NEW row, NEW heads, NEW nd, NEW b, NEW s, NEW row2, NEW heads2, NEW nd2,
         Replaces(row, heads, nd, b, s, row2, heads2, nd2)
  PROVE  /\ Strung(row2, heads2, nd2)
         /\ Held(row2) = (Held(row) \ On(row[b])) \cup On(s)
<1> DEFINE others == Held(row) \ On(row[b])
<1>0. /\ Strung(row, heads, nd)
      /\ b \in Bucket /\ s \in Seq(Nodes) /\ heads2 \in Heads
      /\ Leads(s, heads2[b], nd2) /\ Hashed(s, b, nd2)
      /\ \A c \in Bucket \ {b} : heads2[c] = heads[c]
      /\ \A n \in others : nd2[n] = nd[n]
  BY Zenon DEF Replaces
<1>1. /\ row2 \in Rows /\ row2[b] = s /\ \A c \in Bucket \ {b} : row2[c] = row[c]
  BY <1>0 DEF Strung, Rows, Replaces
<1>2. ASSUME NEW c \in Bucket \ {b}, NEW n \in On(row[c])
      PROVE  n \in others
  <2>1. n \in Held(row)
    BY <1>0, <1>2, OnHeld
  <2>2. PICK i \in 1 .. Len(row[c]) : n = row[c][i]
    BY <1>2 DEF On
  <2>3. Hash[nd[n].key] % BUCKETS = c
    BY <1>0, <2>2, StrungRow DEF Hashed
  <2>4. n \notin On(row[b])
    <3> SUFFICES ASSUME n \in On(row[b]) PROVE FALSE
      OBVIOUS
    <3>1. PICK j \in 1 .. Len(row[b]) : n = row[b][j]
      BY DEF On
    <3>2. Hash[nd[n].key] % BUCKETS = b
      BY <1>0, <3>1, StrungRow DEF Hashed
    <3> QED
      BY <2>3, <3>2
  <2> QED
    BY <2>1, <2>4
<1>3. ASSUME NEW c \in Bucket
      PROVE  Leads(row2[c], heads2[c], nd2) /\ Hashed(row2[c], c, nd2)
  <2>1. CASE c = b
    BY <1>0, <2>1, <1>1
  <2>2. CASE c # b
    <3>1. row[c] \in Seq(Nodes) /\ Leads(row[c], heads[c], nd) /\ Hashed(row[c], c, nd)
      BY <1>0, StrungRow
    <3>2. \A n \in On(row[c]) : nd2[n] = nd[n]
      BY <1>0, <2>2, <1>2
    <3>3. Leads(row[c], heads[c], nd2) /\ Hashed(row[c], c, nd2)
      BY <3>1, <3>2, RowSame, Zenon
    <3> QED
      BY <1>0, <2>2, <3>3, <1>1
  <2> QED
    BY <2>1, <2>2
<1>4. Strung(row2, heads2, nd2)
  BY <1>0, <1>1, <1>3 DEF Strung
<1>5. Held(row2) = others \cup On(s)
  <2>1. \A n : n \in Held(row2) <=> \E c \in Bucket : n \in On(row2[c])
    BY DEF Held
  <2>2. \A n : n \in Held(row) <=> \E c \in Bucket : n \in On(row[c])
    BY DEF Held
  <2> QED
    BY <2>1, <2>2, <1>0, <1>1, <1>2
<1> QED
  BY <1>4, <1>5

\* A node that is written has its key and its place still.
LEMMA RowOverwritten ==
  ASSUME NEW row, NEW heads, NEW nd, Strung(row, heads, nd), NEW nd2,
         \A n \in Held(row) : /\ nd2[n].key = nd[n].key /\ nd2[n].next = nd[n].next
                              /\ nd2[n].value \in Values
  PROVE  Strung(row, heads, nd2)
<1>1. ASSUME NEW b \in Bucket PROVE Leads(row[b], heads[b], nd2) /\ Hashed(row[b], b, nd2)
  <2>1. Leads(row[b], heads[b], nd) /\ Hashed(row[b], b, nd)
    BY StrungRow
  <2>2. \A i \in 1 .. Len(row[b]) : row[b][i] \in Held(row)
    BY OnHeld
  <2>3. \A i \in 1 .. Len(row[b]) :
          /\ nd2[row[b][i]].key = nd[row[b][i]].key /\ nd2[row[b][i]].next = nd[row[b][i]].next
          /\ nd2[row[b][i]].value \in Values
    BY <2>2
  <2> QED
    BY <2>1, <2>3 DEF Leads, Hashed
<1> QED
  BY <1>1 DEF Strung

\* A node n is put at the end of the chain of its key.
Appends(row, heads, nd, row2, heads2, nd2, n, k, v) ==
  LET b == Hash[k] % BUCKETS
      s == row[b]
      L == Len(s)
  IN  /\ Strung(row, heads, nd) /\ row2 = [row EXCEPT ![b] = Append(s, n)]
      /\ k \in Keys /\ v \in Values /\ n \in Nodes /\ n \notin Held(row)
      /\ \A i \in 1 .. L : nd[s[i]].key # k
      /\ heads2 \in Heads /\ \A c \in Bucket \ {b} : heads2[c] = heads[c]
      /\ heads2[b] = IF L = 0 THEN n ELSE heads[b]
      /\ nd2[n] = [key |-> k, value |-> v, next |-> Null]
      /\ L # 0 => /\ nd2[s[L]].next = n
                  /\ nd2[s[L]].key = nd[s[L]].key /\ nd2[s[L]].value = nd[s[L]].value
      /\ \A m \in Held(row) : Item(s, L) # m => nd2[m] = nd[m]

\* mapping_ins: a new node at the end of its chain leaves the table sound.
LEMMA RowAppended ==
  ASSUME NEW row, NEW heads, NEW nd, NEW row2, NEW heads2, NEW nd2,
         NEW n, NEW k, NEW v, Appends(row, heads, nd, row2, heads2, nd2, n, k, v)
  PROVE  Strung(row2, heads2, nd2) /\ Held(row2) = Held(row) \cup {n}
<1> DEFINE b == Hash[k] % BUCKETS
           s == row[b]
           L == Len(s)
           s2 == Append(s, n)
<1> SUFFICES ASSUME Strung(row, heads, nd),
                    k \in Keys, v \in Values, n \in Nodes, n \notin Held(row),
                    \A i \in 1 .. L : nd[s[i]].key # k,
                    heads2 \in Heads, \A c \in Bucket \ {b} : heads2[c] = heads[c],
                    heads2[b] = IF L = 0 THEN n ELSE heads[b],
                    nd2[n] = [key |-> k, value |-> v, next |-> Null],
                    L # 0 => /\ nd2[s[L]].next = n
                             /\ nd2[s[L]].key = nd[s[L]].key /\ nd2[s[L]].value = nd[s[L]].value,
                    \A m \in Held(row) : Item(s, L) # m => nd2[m] = nd[m]
             PROVE  Strung(row2, heads2, nd2) /\ Held(row2) = Held(row) \cup {n}
  BY Zenon DEF Appends
<1>0. row2 = [row EXCEPT ![b] = s2]
  BY Zenon DEF Appends
<1>1. b \in Bucket
  BY HashedBucket
<1>2. /\ s \in Seq(Nodes) /\ Leads(s, heads[b], nd) /\ Hashed(s, b, nd) /\ L \in Nat
      /\ \A i, j \in 1 .. L : s[i] = s[j] => i = j
  <2> HIDE DEF b
  <2>1. s = row[b]
    BY DEF b
  <2> QED
    BY <1>1, <2>1, StrungRow
<1>3. \A i \in 1 .. L : s[i] \in Held(row) /\ s[i] # n /\ s[i] \in On(s)
  <2> HIDE DEF b
  <2>1. s = row[b]
    BY DEF b
  <2> QED
    BY <1>1, <2>1, OnHeld
<1> HIDE DEF b
<1>4. s2 \in Seq(Nodes) /\ Len(s2) = L + 1 /\ s2[L + 1] = n /\ \A i \in 1 .. L : s2[i] = s[i]
  BY <1>2
<1> HIDE DEF s2
<1>5. \A i \in 1 .. L : Item(s2, i) = s[i] /\ Item(s, i) = s[i]
  BY <1>2, <1>4 DEF Item
<1>6. Item(s2, L + 1) = n /\ Item(s2, L + 2) = Null
  BY <1>2, <1>4 DEF Item
<1>7. ASSUME NEW i \in 1 .. L - 1 PROVE nd2[s[i]] = nd[s[i]]
  <2>1. i \in 1 .. L /\ L \in 1 .. L /\ i # L
    BY <1>2
  <2>2. s[i] # Item(s, L) /\ s[i] \in Held(row)
    BY <2>1, <1>2, <1>3, <1>5
  <2> QED
    BY <2>2
<1>8. ASSUME NEW i \in 1 .. L
      PROVE  nd2[s[i]].key = nd[s[i]].key /\ nd2[s[i]].value = nd[s[i]].value
  <2>1. CASE i = L
    BY <2>1, <1>2
  <2>2. CASE i \in 1 .. L - 1
    BY <2>2, <1>7
  <2> QED
    BY <2>1, <2>2, <1>2
<1>9. nd2[n].key = k /\ nd2[n].value = v /\ nd2[n].next = Null
  OBVIOUS
<1>10. Leads(s2, heads2[b], nd2)
  <2>1. heads2[b] = Item(s2, 1)
    <3>1. CASE L = 0
      BY <3>1, <1>6 DEF b
    <3>2. CASE L # 0
      <4>1. 1 \in 1 .. L
        BY <3>2, <1>2
      <4>2. heads2[b] = heads[b] /\ heads[b] = Item(s, 1)
        BY <3>2, <1>2 DEF b, Leads
      <4> QED
        BY <4>1, <4>2, <1>5
    <3> QED
      BY <3>1, <3>2
  <2>2. ASSUME NEW i \in 1 .. L + 1 PROVE nd2[s2[i]].next = Item(s2, i + 1)
    <3>1. CASE i = L + 1
      BY <3>1, <1>2, <1>4, <1>6, <1>9
    <3>2. CASE i = L
      <4>1. L # 0 /\ L \in 1 .. L
        BY <3>2, <1>2
      <4> QED
        BY <3>2, <4>1, <1>4, <1>6
    <3>3. CASE i \in 1 .. L - 1
      <4>1. i \in 1 .. L /\ i + 1 \in 1 .. L
        BY <3>3, <1>2
      <4>2. nd[s[i]].next = Item(s, i + 1)
        BY <4>1, <1>2 DEF Leads
      <4> QED
        BY <3>3, <4>1, <4>2, <1>4, <1>5, <1>7
    <3> QED
      BY <3>1, <3>2, <3>3, <1>2
  <2> QED
    BY <2>1, <2>2, <1>4 DEF Leads
<1>11. Hashed(s2, b, nd2)
  <2>1. ASSUME NEW i \in 1 .. L + 1
        PROVE  /\ nd2[s2[i]].key \in Keys /\ Hash[nd2[s2[i]].key] % BUCKETS = b
               /\ nd2[s2[i]].value \in Values
    <3>1. CASE i = L + 1
      BY <3>1, <1>4, <1>9 DEF b
    <3>2. CASE i \in 1 .. L
      BY <3>2, <1>2, <1>4, <1>8 DEF Hashed
    <3> QED
      BY <3>1, <3>2, <1>2
  <2>2. ASSUME NEW i \in 1 .. L + 1, NEW j \in 1 .. L + 1, nd2[s2[i]].key = nd2[s2[j]].key
        PROVE  i = j
    <3>1. \A h \in 1 .. L : nd2[s2[h]].key = nd[s[h]].key /\ nd[s[h]].key # k
      BY <1>4, <1>8
    <3>2. nd2[s2[L + 1]].key = k
      BY <1>4, <1>9
    <3>3. CASE i = L + 1 \/ j = L + 1
      <4>1. i \in 1 .. L \/ i = L + 1
        BY <1>2
      <4>2. j \in 1 .. L \/ j = L + 1
        BY <1>2
      <4>3. ASSUME NEW h \in 1 .. L PROVE nd2[s2[h]].key # nd2[s2[L + 1]].key
        BY <3>1, <3>2
      <4> QED
        BY <2>2, <3>3, <4>1, <4>2, <4>3, Zenon
    <3>4. CASE i # L + 1 /\ j # L + 1
      <4>1. i \in 1 .. L /\ j \in 1 .. L
        BY <3>4, <1>2
      <4>2. nd[s[i]].key = nd[s[j]].key
        BY <2>2, <3>1, <4>1
      <4> QED
        BY <4>1, <4>2, <1>2, Zenon DEF Hashed
    <3> QED
      BY <3>3, <3>4
  <2> QED
    BY <2>1, <2>2, <1>4 DEF Hashed
<1>12. \A m \in Held(row) \ On(row[b]) : nd2[m] = nd[m]
  <2> TAKE m \in Held(row) \ On(row[b])
  <2>1. row[b] = s
    BY DEF b
  <2>2. m # Item(s, L)
    <3>1. CASE L \in 1 .. L
      BY <2>1, <3>1, <1>3, <1>5
    <3>2. CASE L \notin 1 .. L
      <4>1. m \in Nodes /\ Item(s, L) = Null
        BY <3>2, KeysDiffer DEF Item
      <4> QED
        BY <4>1, NullIsNoNode
    <3> QED
      BY <3>1, <3>2
  <2> QED
    BY <2>2
<1>13. \A c \in Bucket \ {b} : heads2[c] = heads[c]
  BY DEF b
<1>14. Strung(row2, heads2, nd2) /\ Held(row2) = (Held(row) \ On(row[b])) \cup On(s2)
  <2>1. Replaces(row, heads, nd, b, s2, row2, heads2, nd2)
    BY <1>0, <1>1, <1>4, <1>10, <1>11, <1>12, <1>13, Zenon DEF Replaces
  <2> QED
    BY <2>1, RowReplaced
<1>15. On(s2) = On(s) \cup {n} /\ On(s) \subseteq Held(row) /\ On(row[b]) = On(s)
  <2>1. row[b] = s
    BY DEF b
  <2>2. On(s) \subseteq Held(row)
    BY <2>1, <1>1, OnHeld
  <2>3. On(s2) = On(s) \cup {n}
    <3>1. \A i \in 1 .. L + 1 : s2[i] = n \/ \E j \in 1 .. L : s2[i] = s[j]
      BY <1>2, <1>4
    <3>2. L + 1 \in 1 .. L + 1 /\ \A j \in 1 .. L : j \in 1 .. L + 1 /\ s2[j] = s[j]
      BY <1>2, <1>4
    <3> QED
      BY <3>1, <3>2, <1>4 DEF On
  <2> QED
    BY <2>1, <2>2, <2>3
<1>16. Held(row2) = Held(row) \cup {n}
  BY <1>14, <1>15
<1> QED
  BY <1>14, <1>16

\* A sequence without its p-th item.
Without(s, p) == [i \in 1 .. Len(s) - 1 |-> IF i < p THEN s[i] ELSE s[i + 1]]

\* What is left of a chain that loses one node.
LEMMA WithoutItems ==
  ASSUME NEW s \in Seq(Nodes), NEW p \in 1 .. Len(s),
         \A i, j \in 1 .. Len(s) : s[i] = s[j] => i = j
  PROVE  /\ Without(s, p) \in Seq(Nodes) /\ Len(Without(s, p)) = Len(s) - 1
         /\ \A i \in 1 .. Len(s) :
              Item(Without(s, p), i) = IF i < p THEN Item(s, i) ELSE Item(s, i + 1)
         /\ On(Without(s, p)) = On(s) \ {s[p]}
<1> DEFINE L == Len(s)
           w == Without(s, p)
<1>1. L \in Nat /\ L - 1 \in Nat /\ p \in Nat /\ \A i \in 1 .. L : s[i] \in Nodes
  OBVIOUS
<1>2. w = [i \in 1 .. L - 1 |-> IF i < p THEN s[i] ELSE s[i + 1]]
  BY DEF Without
<1> HIDE DEF L, w
<1>3. \A i \in 1 .. L - 1 : (IF i < p THEN s[i] ELSE s[i + 1]) \in Nodes
  BY <1>1
<1>4. w \in Seq(Nodes) /\ Len(w) = L - 1
  BY <1>1, <1>2, <1>3
<1>5. \A i \in 1 .. L - 1 : w[i] = IF i < p THEN s[i] ELSE s[i + 1]
  BY <1>2
<1>6. ASSUME NEW i \in 1 .. L
      PROVE  Item(w, i) = IF i < p THEN Item(s, i) ELSE Item(s, i + 1)
  <2>1. CASE i \in 1 .. L - 1
    <3>1. i + 1 \in 1 .. L
      BY <2>1, <1>1
    <3>2. Item(w, i) = w[i] /\ Item(s, i) = s[i] /\ Item(s, i + 1) = s[i + 1]
      BY <2>1, <3>1, <1>4 DEF Item, L
    <3> QED
      BY <2>1, <3>2, <1>5
  <2>2. CASE i = L
    <3>1. i \notin 1 .. L - 1 /\ ~(i < p) /\ i + 1 \notin 1 .. L
      BY <2>2, <1>1 DEF L
    <3>2. Item(w, i) = Null /\ Item(s, i + 1) = Null
      BY <3>1, <1>4 DEF Item, L
    <3> QED
      BY <3>1, <3>2
  <2> QED
    BY <2>1, <2>2, <1>1
<1>7. ASSUME NEW i \in 1 .. L - 1
      PROVE  \E j \in 1 .. L : j # p /\ w[i] = s[j]
  <2>1. CASE i < p
    <3>1. i \in 1 .. L /\ i # p
      BY <2>1, <1>1
    <3> QED
      BY <2>1, <3>1, <1>5
  <2>2. CASE ~(i < p)
    <3>1. i + 1 \in 1 .. L /\ i + 1 # p
      BY <2>2, <1>1
    <3> QED
      BY <2>2, <3>1, <1>5
  <2> QED
    BY <2>1, <2>2
<1>8. ASSUME NEW j \in 1 .. L, j # p
      PROVE  \E i \in 1 .. L - 1 : w[i] = s[j]
  <2>1. CASE j < p
    <3>1. j \in 1 .. L - 1
      BY <2>1, <1>1 DEF L
    <3> QED
      BY <2>1, <3>1, <1>5
  <2>2. CASE ~(j < p)
    <3>1. j - 1 \in 1 .. L - 1 /\ ~(j - 1 < p) /\ (j - 1) + 1 = j
      BY <2>2, <1>8, <1>1 DEF L
    <3> QED
      BY <2>2, <3>1, <1>5
  <2> QED
    BY <2>1, <2>2
<1>9. On(w) = On(s) \ {s[p]}
  <2>1. \A j \in 1 .. L : j # p => s[j] # s[p]
    BY DEF L
  <2>2. \A y : y \in On(w) <=> \E i \in 1 .. L - 1 : y = w[i]
    BY <1>4 DEF On
  <2>3. \A y : y \in On(s) <=> \E j \in 1 .. L : y = s[j]
    BY DEF On, L
  <2> QED
    BY SMTT(30), <2>1, <2>2, <2>3, <1>7, <1>8
<1> QED
  BY <1>4, <1>6, <1>9 DEF w, L

\* A node x is taken out of its chain: the link before it leads on.
CutsOut(row, heads, nd, row2, heads2, nd2, b, p) ==
  LET s == row[b]
      x == s[p]
  IN  /\ Strung(row, heads, nd) /\ row2 = [row EXCEPT ![b] = Without(s, p)]
      /\ b \in Bucket /\ p \in 1 .. Len(s)
      /\ heads2 \in Heads /\ \A c \in Bucket \ {b} : heads2[c] = heads[c]
      /\ heads2[b] = IF p = 1 THEN nd[x].next ELSE heads[b]
      /\ p # 1 => /\ nd2[s[p - 1]].next = nd[x].next
                  /\ nd2[s[p - 1]].key = nd[s[p - 1]].key
                  /\ nd2[s[p - 1]].value = nd[s[p - 1]].value
      /\ \A m \in Held(row) \ {x} : Item(s, p - 1) # m => nd2[m] = nd[m]

\* mapping_del: linking past a node leaves the table sound.
LEMMA RowCut ==
  ASSUME NEW row, NEW heads, NEW nd, NEW row2, NEW heads2, NEW nd2,
         NEW b, NEW p, CutsOut(row, heads, nd, row2, heads2, nd2, b, p)
  PROVE  Strung(row2, heads2, nd2) /\ Held(row2) = Held(row) \ {row[b][p]}
<1> SUFFICES ASSUME Strung(row, heads, nd), b \in Bucket,
                    NEW s, s = row[b], NEW x, x = s[p], p \in 1 .. Len(s),
                    heads2 \in Heads, \A c \in Bucket \ {b} : heads2[c] = heads[c],
                    heads2[b] = IF p = 1 THEN nd[x].next ELSE heads[b],
                    p # 1 => /\ nd2[s[p - 1]].next = nd[x].next
                             /\ nd2[s[p - 1]].key = nd[s[p - 1]].key
                             /\ nd2[s[p - 1]].value = nd[s[p - 1]].value,
                    \A m \in Held(row) \ {x} : Item(s, p - 1) # m => nd2[m] = nd[m]
             PROVE  Strung(row2, heads2, nd2) /\ Held(row2) = Held(row) \ {x}
  BY Zenon DEF CutsOut
<1>0. row2 = [row EXCEPT ![b] = Without(s, p)]
  BY Zenon DEF CutsOut
<1> DEFINE L == Len(s)
           s2 == Without(s, p)
<1>1. /\ s \in Seq(Nodes) /\ Leads(s, heads[b], nd) /\ Hashed(s, b, nd) /\ L \in Nat
      /\ \A i, j \in 1 .. L : s[i] = s[j] => i = j
  BY StrungRow
<1>2. \A i \in 1 .. L : s[i] \in Held(row)
  BY OnHeld
<1>3. p \in 1 .. L /\ p \in Nat /\ x = s[p]
  BY <1>1
<1> HIDE DEF s2
<1>4. /\ s2 \in Seq(Nodes) /\ Len(s2) = L - 1 /\ On(s2) = On(s) \ {x}
      /\ \A i \in 1 .. L : Item(s2, i) = IF i < p THEN Item(s, i) ELSE Item(s, i + 1)
  BY <1>1, WithoutItems DEF s2
<1> HIDE DEF L
<1>5. \A i \in 1 .. L : Item(s, i) = s[i]
  BY DEF Item, L
<1>6. \A i \in 1 .. L - 1 : Item(s2, i) = s2[i]
  BY <1>1, <1>4 DEF Item
<1>7. \A i \in 1 .. L : nd[s[i]].next = Item(s, i + 1)
  BY <1>1 DEF Leads, L
<1>8. ASSUME NEW i \in 1 .. L, i # p, i # p - 1 PROVE nd2[s[i]] = nd[s[i]]
  <2>1. s[i] \in Held(row) \ {x}
    BY <1>8, <1>1, <1>2, <1>3
  <2>2. Item(s, p - 1) # s[i]
    <3>1. CASE p - 1 \in 1 .. L
      BY <3>1, <1>8, <1>1, <1>5
    <3>2. CASE p - 1 \notin 1 .. L
      <4>1. Item(s, p - 1) = Null /\ s[i] \in Nodes
        BY <3>2, <1>1 DEF Item, L
      <4> QED
        BY <4>1, NullIsNoNode
    <3> QED
      BY <3>1, <3>2
  <2> QED
    BY <2>1, <2>2
<1>9. ASSUME NEW i \in 1 .. L, i # p
      PROVE  nd2[s[i]].key = nd[s[i]].key /\ nd2[s[i]].value = nd[s[i]].value
  <2>1. CASE i = p - 1
    <3>1. p # 1
      BY <2>1, <1>3
    <3> QED
      BY <2>1, <3>1
  <2>2. CASE i # p - 1
    BY <2>2, <1>8, <1>9
  <2> QED
    BY <2>1, <2>2
<1>10. Leads(s2, heads2[b], nd2)
  <2>1. heads2[b] = Item(s2, 1)
    <3>0. 1 \in 1 .. L
      BY <1>1, <1>3
    <3>1. CASE p = 1
      BY <3>0, <3>1, <1>3, <1>4, <1>7
    <3>2. CASE p # 1
      <4>1. 1 < p
        BY <3>2, <1>3
      <4> QED
        BY <3>0, <3>2, <4>1, <1>1, <1>4 DEF Leads
    <3> QED
      BY <3>1, <3>2
  <2>2. ASSUME NEW i \in 1 .. L - 1 PROVE nd2[s2[i]].next = Item(s2, i + 1)
    <3>0. i \in 1 .. L /\ i + 1 \in 1 .. L
      BY <1>1
    <3>1. CASE i < p - 1
      <4>1. i < p /\ i + 1 < p /\ i # p /\ i # p - 1
        BY <3>1, <1>3
      <4>2. s2[i] = s[i] /\ Item(s2, i + 1) = Item(s, i + 1)
        BY <3>0, <4>1, <1>4, <1>5, <1>6
      <4> QED
        BY <3>0, <4>1, <4>2, <1>7, <1>8
    <3>2. CASE i = p - 1
      <4>1. i < p /\ i + 1 = p /\ p # 1 /\ ~(p < p)
        BY <3>2, <1>3
      <4>2. s2[i] = s[i] /\ Item(s2, i + 1) = Item(s, p + 1)
        BY <3>0, <4>1, <1>4, <1>5, <1>6
      <4> QED
        BY <3>2, <4>1, <4>2, <1>3, <1>7
    <3>3. CASE ~(i < p)
      <4>1. ~(i + 1 < p) /\ i + 1 # p /\ i + 1 # p - 1
        BY <3>3, <1>3
      <4>2. s2[i] = s[i + 1] /\ Item(s2, i + 1) = Item(s, (i + 1) + 1)
        BY <3>0, <3>3, <4>1, <1>4, <1>5, <1>6
      <4> QED
        BY <3>0, <4>1, <4>2, <1>7, <1>8
    <3> QED
      BY <3>1, <3>2, <3>3, <1>3
  <2> QED
    BY <2>1, <2>2, <1>4 DEF Leads
<1>11. Hashed(s2, b, nd2)
  <2> DEFINE from(i) == IF i < p THEN i ELSE i + 1
  <2>1. ASSUME NEW i \in 1 .. L - 1
        PROVE  from(i) \in 1 .. L /\ from(i) # p /\ s2[i] = s[from(i)]
    <3>1. i \in 1 .. L /\ i + 1 \in 1 .. L
      BY <1>1
    <3>2. CASE i < p
      BY <3>1, <3>2, <1>3, <1>4, <1>5, <1>6
    <3>3. CASE ~(i < p)
      BY <3>1, <3>3, <1>3, <1>4, <1>5, <1>6
    <3> QED
      BY <3>2, <3>3
  <2>2. \A i, j \in 1 .. L - 1 : from(i) = from(j) => i = j
    BY <1>1, <1>3
  <2>3. \A i \in 1 .. L : /\ nd[s[i]].key \in Keys /\ Hash[nd[s[i]].key] % BUCKETS = b
                          /\ nd[s[i]].value \in Values
    BY <1>1 DEF Hashed, L
  <2>4. \A i, j \in 1 .. L : nd[s[i]].key = nd[s[j]].key => i = j
    BY <1>1 DEF Hashed, L
  <2> HIDE DEF from
  <2>5. \A i \in 1 .. L - 1 :
          nd2[s2[i]].key = nd[s[from(i)]].key /\ nd2[s2[i]].value = nd[s[from(i)]].value
    BY <2>1, <1>9
  <2>6. \A i \in 1 .. L - 1 : /\ nd2[s2[i]].key \in Keys /\ Hash[nd2[s2[i]].key] % BUCKETS = b
                              /\ nd2[s2[i]].value \in Values
    BY <2>1, <2>3, <2>5
  <2>7. \A i, j \in 1 .. L - 1 : nd2[s2[i]].key = nd2[s2[j]].key => i = j
    BY <2>1, <2>2, <2>4, <2>5
  <2> QED
    BY <2>6, <2>7, <1>4 DEF Hashed
<1>12. \A m \in Held(row) \ On(row[b]) : nd2[m] = nd[m]
  <2> TAKE m \in Held(row) \ On(row[b])
  <2>1. \A i \in 1 .. L : s[i] \in On(row[b])
    BY DEF On, L
  <2>2. m # x
    BY <2>1, <1>3
  <2>3. m # Item(s, p - 1)
    <3>1. CASE p - 1 \in 1 .. L
      BY <2>1, <3>1, <1>5
    <3>2. CASE p - 1 \notin 1 .. L
      <4>1. m \in Nodes /\ Item(s, p - 1) = Null
        BY <3>2, KeysDiffer DEF Item, L
      <4> QED
        BY <4>1, NullIsNoNode
    <3> QED
      BY <3>1, <3>2
  <2> QED
    BY <2>2, <2>3
<1>13. Strung(row2, heads2, nd2) /\ Held(row2) = (Held(row) \ On(row[b])) \cup On(s2)
  <2>1. Replaces(row, heads, nd, b, s2, row2, heads2, nd2)
    BY <1>0, <1>4, <1>10, <1>11, <1>12, Zenon DEF Replaces, s2
  <2> QED
    BY <2>1, RowReplaced
<1>14. Held(row2) = Held(row) \ {x}
  <2>1. On(s) \subseteq Held(row) /\ On(row[b]) = On(s) /\ x \in On(s)
    BY <1>3, OnHeld DEF On, L
  <2> QED
    BY <2>1, <1>4, <1>13
<1> QED
  BY <1>13, <1>14

-----------------------------------------------------------------------------
(* The tables together.                                                    *)

\* lookup finds a key exactly if the function has it, and then its node.
LEMMA FoundOrNot ==
  ASSUME NEW row, NEW heads, NEW nd, Strung(row, heads, nd), NEW k \in Keys
  PROVE  LET at == LookupOn(heads, nd, k).at
             f == ContentsOn(heads, nd)
         IN  /\ at = Null => k \notin DOMAIN f
             /\ at # Null => at \in Held(row) /\ nd[at].key = k /\ k \in DOMAIN f /\ f[k] = nd[at].value
<1> DEFINE b == Hash[k] % BUCKETS
           s == row[b]
           link == LookupOn(heads, nd, k)
           f == ContentsOn(heads, nd)
<1>1. b \in Bucket
  BY HashedBucket
<1>2. PICK p : LeadsTo(link, b, s, k, nd, p)
  BY Looks, Zenon
<1> HIDE DEF b, link
<1>3. /\ s \in Seq(Nodes) /\ Len(s) \in Nat
      /\ \A i \in 1 .. Len(s) : s[i] \in Held(row) /\ s[i] \in Nodes
  BY <1>1, StrungRow, OnHeld
<1> HIDE DEF s
<1>4. /\ p \in 1 .. Len(s) + 1 /\ link.at = Item(s, p)
      /\ p = Len(s) + 1 => \A i \in 1 .. Len(s) : nd[s[i]].key # k
      /\ p # Len(s) + 1 => nd[s[p]].key = k
  BY <1>2 DEF LeadsTo
<1>5. DOMAIN f = KeysIn(Held(row), nd) /\ \A n \in Held(row) : f[nd[n].key] = nd[n].value
  BY ContentsTell
<1> HIDE DEF f
<1>6. ASSUME link.at = Null PROVE k \notin DOMAIN f
  <2>1. p = Len(s) + 1
    <3> SUFFICES ASSUME p # Len(s) + 1 PROVE FALSE
      OBVIOUS
    <3>1. p \in 1 .. Len(s)
      BY <1>3, <1>4
    <3>2. s[p] = Null
      BY <1>4, <1>6, <3>1 DEF Item
    <3> QED
      BY <1>3, <3>1, <3>2, NullIsNoNode
  <2>2. ASSUME k \in DOMAIN f PROVE FALSE
    <3>1. PICK n \in Held(row) : nd[n].key = k
      BY <2>2, <1>5 DEF KeysIn
    <3>2. PICK c \in Bucket : n \in On(row[c])
      BY DEF Held
    <3>3. PICK i \in 1 .. Len(row[c]) : n = row[c][i]
      BY <3>2 DEF On
    <3>4. Hash[nd[n].key] % BUCKETS = c
      BY <3>3, StrungRow DEF Hashed
    <3>5. row[c] = s
      BY <3>1, <3>4 DEF s, b
    <3> QED
      BY <1>4, <2>1, <3>1, <3>3, <3>5
  <2> QED
    BY <2>2
<1>7. ASSUME link.at # Null
      PROVE  link.at \in Held(row) /\ nd[link.at].key = k /\ k \in DOMAIN f /\ f[k] = nd[link.at].value
  <2>1. p \in 1 .. Len(s)
    BY <1>4, <1>7 DEF Item
  <2>2. p # Len(s) + 1
    BY <2>1, <1>3
  <2>3. link.at = s[p] /\ nd[s[p]].key = k /\ s[p] \in Held(row)
    BY <2>1, <2>2, <1>4, <1>3 DEF Item
  <2> QED
    BY <2>3, <1>5 DEF KeysIn
<1> QED
  BY <1>6, <1>7 DEF link, f

\* A table whose nodes are left alone is the same function.
LEMMA StrungSame ==
  ASSUME NEW row, NEW heads, NEW nd, Strung(row, heads, nd), NEW nd2,
         \A n \in Held(row) : nd2[n] = nd[n]
  PROVE  Strung(row, heads, nd2) /\ ContentsOn(heads, nd2) = ContentsOn(heads, nd)
<1>1. \A n \in Held(row) : /\ nd2[n].key = nd[n].key /\ nd2[n].next = nd[n].next
                           /\ nd2[n].value = nd[n].value /\ nd2[n].value \in Values
  BY KeysDiffer
<1>2. Strung(row, heads, nd2)
  BY <1>1, RowOverwritten
<1> QED
  BY <1>1, <1>2, ContentsSame

\* The chains of a table without nodes.
EmptyRow == [b \in Bucket |-> <<>>]

\* The array of null heads is a sound table that maps nothing.
LEMMA EmptyRowHolds ==
  /\ EmptyRow \in Rows /\ Held(EmptyRow) = {} /\ NoBuckets \in Heads
  /\ \A nd : Strung(EmptyRow, NoBuckets, nd)
  /\ \A nd : ContentsOn(NoBuckets, nd) = [k \in {} |-> <<>>]
<1>1. EmptyRow \in Rows /\ NoBuckets \in Heads
  BY DEF EmptyRow, Rows, NoBuckets, Heads
<1>2. \A b \in Bucket : EmptyRow[b] = <<>> /\ NoBuckets[b] = Null
  BY DEF EmptyRow, NoBuckets
<1>3. Len(<<>>) = 0 /\ 1 .. 0 = {} /\ Item(<<>>, 1) = Null
  BY DEF Item
<1>4. On(<<>>) = {}
  BY DEF On
<1>5. Held(EmptyRow) = {}
  BY <1>2, <1>4 DEF Held
<1>6. ASSUME NEW nd PROVE Strung(EmptyRow, NoBuckets, nd)
  <2>1. \A b \in Bucket : Leads(EmptyRow[b], NoBuckets[b], nd)
    BY <1>2, <1>3 DEF Leads
  <2>2. \A b \in Bucket : Hashed(EmptyRow[b], b, nd)
    BY <1>2, <1>3 DEF Hashed
  <2> QED
    BY <1>1, <2>1, <2>2 DEF Strung
<1>7. ASSUME NEW nd PROVE ContentsOn(NoBuckets, nd) = [k \in {} |-> <<>>]
  <2> DEFINE f == ContentsOn(NoBuckets, nd)
  <2>1. f \in [KeysIn(Held(EmptyRow), nd) -> Values]
    BY <1>6, ContentsTell
  <2>2. KeysIn(Held(EmptyRow), nd) = {}
    BY <1>5 DEF KeysIn
  <2> HIDE DEF f
  <2>3. f \in [{} -> Values]
    BY <2>1, <2>2
  <2>4. f = [k \in {} |-> <<>>]
    BY <2>3
  <2> QED
    BY <2>4 DEF f
<1> QED
  BY <1>1, <1>5, <1>6, <1>7

\* The heap of nodes, the tables, and the rows of every table at once: no node
\* lies on the chains of two.
Allocs == [Nodes -> Cells]
Pimpls == [Tables -> Heads \cup {Null}]

\* Every table has its rows, and the nodes of the rows are those allocated.
Rowed(rows, heads, nd, allocated) ==
  /\ rows \in [Tables -> Rows]
  /\ \A t \in Tables : IF heads[t] = Null THEN Held(rows[t]) = {}
                       ELSE Strung(rows[t], heads[t], nd)
  /\ allocated = UNION {Held(rows[t]) : t \in Tables}
  /\ \A t, u \in Tables : t # u => Held(rows[t]) \cap Held(rows[u]) = {}

\* The invariant of the tables.
TablesOK == /\ node \in Allocs /\ pimpl \in Pimpls /\ live \subseteq Nodes
            /\ \E rows : Rowed(rows, pimpl, node, live)

\* A mapping that is not initialized has no array of heads.
LEMMA NullIsNoHeads == Null \notin Heads
BY Zenon, PointersAssumption DEF Heads

\* What an operation on table t has to see to: that its own rows are right,
\* and that it takes and gives back nothing of the other tables.
Turns(rows, t, row2, h2) ==
  /\ Rowed(rows, pimpl, node, live)
  /\ row2 \in Rows
  /\ h2 = Null => Held(row2) = {}
  /\ h2 # Null => Strung(row2, h2, node')
  /\ \A n \in Held(row2) : n \in Held(rows[t]) \/ n \notin live
  /\ pimpl' = [pimpl EXCEPT ![t] = h2]
  /\ \A n : n \in live' <=> n \in Held(row2) \/ (n \in live /\ n \notin Held(rows[t]))
  /\ \A n \in live : n \notin Held(rows[t]) => node'[n] = node[n]

\* A step that turns one table into another sound one, of its own nodes and new
\* ones, leaves every other table and what it stands for alone.
LEMMA TableTurns ==
  ASSUME TablesOK, NEW t \in Tables, NEW rows, NEW row2, NEW h2 \in Heads \cup {Null},
         node' \in Allocs, Turns(rows, t, row2, h2)
  PROVE  /\ TablesOK'
         /\ \A u \in Tables \ {t} : Contents(u)' = Contents(u)
         /\ Contents(t)' = IF h2 = Null THEN Null ELSE ContentsOn(h2, node')
<1> DEFINE rows2 == [rows EXCEPT ![t] = row2]
<1>1. /\ rows \in [Tables -> Rows]
      /\ \A u \in Tables : pimpl[u] = Null => Held(rows[u]) = {}
      /\ \A u \in Tables : pimpl[u] # Null => Strung(rows[u], pimpl[u], node)
      /\ \A n : n \in live <=> \E u \in Tables : n \in Held(rows[u])
      /\ \A u, w \in Tables : u # w => \A n : ~(n \in Held(rows[u]) /\ n \in Held(rows[w]))
  BY DEF Turns, Rowed
<1>2. /\ row2 \in Rows
      /\ h2 = Null => Held(row2) = {}
      /\ h2 # Null => Strung(row2, h2, node')
      /\ \A n \in Held(row2) : n \in Held(rows[t]) \/ n \notin live
      /\ pimpl' = [pimpl EXCEPT ![t] = h2]
      /\ \A n : n \in live' <=> n \in Held(row2) \/ (n \in live /\ n \notin Held(rows[t]))
      /\ \A n \in live : n \notin Held(rows[t]) => node'[n] = node[n]
  BY Zenon DEF Turns
<1>3. pimpl \in Pimpls
  BY DEF TablesOK
<1>4. /\ pimpl' \in Pimpls /\ pimpl'[t] = h2
      /\ \A u \in Tables \ {t} : pimpl'[u] = pimpl[u]
  BY <1>2, <1>3 DEF Pimpls
<1>5. /\ rows2 \in [Tables -> Rows] /\ rows2[t] = row2
      /\ \A u \in Tables \ {t} : rows2[u] = rows[u]
  BY <1>1, <1>2
<1> HIDE DEF rows2
<1>6. ASSUME NEW u \in Tables \ {t}, NEW n \in Held(rows[u])
      PROVE  n \in live /\ n \notin Held(rows[t]) /\ node'[n] = node[n] /\ n \notin Held(row2)
  <2>1. n \in live /\ n \notin Held(rows[t])
    BY <1>1, <1>6
  <2> QED
    BY <2>1, <1>2
<1>7. ASSUME NEW u \in Tables \ {t}, pimpl[u] # Null
      PROVE  Strung(rows[u], pimpl[u], node') /\ ContentsOn(pimpl[u], node') = ContentsOn(pimpl[u], node)
  <2>1. Strung(rows[u], pimpl[u], node) /\ \A n \in Held(rows[u]) : node'[n] = node[n]
    BY <1>1, <1>6, <1>7
  <2> QED
    BY <2>1, StrungSame
<1>8. Rowed(rows2, pimpl', node', live')
  <2>1. ASSUME NEW u \in Tables
        PROVE  IF pimpl'[u] = Null THEN Held(rows2[u]) = {} ELSE Strung(rows2[u], pimpl'[u], node')
    <3>1. CASE u = t
      BY <3>1, <1>2, <1>4, <1>5
    <3>2. CASE u # t
      BY <3>2, <1>1, <1>4, <1>5, <1>7
    <3> QED
      BY <3>1, <3>2
  <2>2. \A n : n \in live' <=> \E u \in Tables : n \in Held(rows2[u])
    <3> TAKE n
    <3>1. ASSUME n \in live' PROVE \E u \in Tables : n \in Held(rows2[u])
      <4>1. CASE n \in Held(row2)
        BY <4>1, <1>5
      <4>2. CASE n \in live /\ n \notin Held(rows[t])
        <5>1. PICK u \in Tables : n \in Held(rows[u])
          BY <4>2, <1>1
        <5>2. u # t
          BY <4>2, <5>1
        <5> QED
          BY <5>1, <5>2, <1>5
      <4> QED
        BY <3>1, <4>1, <4>2, <1>2
    <3>2. ASSUME NEW u \in Tables, n \in Held(rows2[u]) PROVE n \in live'
      <4>1. CASE u = t
        BY <3>2, <4>1, <1>2, <1>5
      <4>2. CASE u # t
        <5>1. n \in Held(rows[u])
          BY <3>2, <4>2, <1>5
        <5> QED
          BY <4>2, <5>1, <1>2, <1>6
      <4> QED
        BY <4>1, <4>2
    <3> QED
      BY <3>1, <3>2
  <2>3. ASSUME NEW u \in Tables, NEW w \in Tables, u # w
        PROVE  Held(rows2[u]) \cap Held(rows2[w]) = {}
    <3>1. CASE u # t /\ w # t
      BY <2>3, <3>1, <1>1, <1>5
    <3>2. CASE u = t
      BY <2>3, <3>2, <1>5, <1>6
    <3>3. CASE w = t
      BY <2>3, <3>3, <1>5, <1>6
    <3> QED
      BY <3>1, <3>2, <3>3
  <2>4. live' = UNION {Held(rows2[u]) : u \in Tables}
    BY <2>2
  <2> QED
    BY <2>1, <2>3, <2>4, <1>5 DEF Rowed
<1>9. live' \subseteq Nodes
  <2>1. \A n \in Held(row2) : n \in Nodes
    <3>1. CASE h2 = Null
      BY <3>1, <1>2
    <3>2. CASE h2 # Null
      BY <3>2, <1>2, KeysDiffer
    <3> QED
      BY <3>1, <3>2
  <2>2. live \subseteq Nodes
    BY DEF TablesOK
  <2> QED
    BY <2>1, <2>2, <1>2
<1>10. TablesOK'
  BY <1>4, <1>8, <1>9 DEF TablesOK
<1>11. ASSUME NEW u \in Tables \ {t} PROVE Contents(u)' = Contents(u)
  BY <1>4, <1>7, AtPlaces, AtPlacesPrimed
<1>12. Contents(t)' = IF h2 = Null THEN Null ELSE ContentsOn(h2, node')
  BY <1>4, AtPlacesPrimed
<1> QED
  BY <1>10, <1>11, <1>12

-----------------------------------------------------------------------------
(* The operations on tables.                                               *)

\* The mappings that the tables stand for.
Map == [u \in Tables |-> Contents(u)]
NoKeys == [k \in {} |-> <<>>]

\* A mapping is null exactly when it is not initialized.
LEMMA MapAt ==
  /\ \A t \in Tables : Map[t] = Contents(t)
  /\ TablesOK => \A t \in Tables : pimpl[t] = Null <=> Contents(t) = Null
<1>1. \A t \in Tables : Map[t] = Contents(t)
  BY DEF Map
<1>2. ASSUME TablesOK, NEW t \in Tables, pimpl[t] # Null PROVE Contents(t) # Null
  <2>1. PICK rows : Rowed(rows, pimpl, node, live)
    BY <1>2 DEF TablesOK
  <2> DEFINE S == KeysIn(Held(rows[t]), node)
  <2>2. Strung(rows[t], pimpl[t], node)
    BY <1>2, <2>1 DEF Rowed
  <2>3. Contents(t) \in [S -> Values]
    BY <1>2, <2>2, ContentsTell, AtPlaces
  <2>4. S \in SUBSET Keys
    BY <2>2, KeysDiffer DEF KeysIn
  <2>5. Null \notin [S -> Values]
    <3> HIDE DEF S
    <3> QED
      BY <2>4, Zenon, PointersAssumption
  <2> QED
    BY <2>3, <2>5
<1>3. \A t \in Tables : pimpl[t] = Null => Contents(t) = Null
  BY AtPlaces
<1> QED
  BY <1>1, <1>2, <1>3

\* A step on one table, as the maps see it.
LEMMA MapTurns ==
  ASSUME NEW t \in Tables, NEW f, \A u \in Tables \ {t} : Contents(u)' = Contents(u),
         Contents(t)' = f
  PROVE  Map' = [Map EXCEPT ![t] = f]
<1>1. \A u \in Tables : Contents(u)' = IF u = t THEN f ELSE Contents(u)
  OBVIOUS
<1>2. Map' = [u \in Tables |-> Contents(u)']
  BY Zenon DEF Map
<1>3. [Map EXCEPT ![t] = f] = [u \in Tables |-> IF u = t THEN f ELSE Contents(u)]
  BY DEF Map
<1> QED
  BY <1>1, <1>2, <1>3

\* Freed nodes are blank; the others are left alone.
LEMMA BlankedCells ==
  ASSUME node \in Allocs, NEW S
  PROVE  /\ Blanked(S, node) \in Allocs
         /\ \A n \in Nodes : n \notin S => Blanked(S, node)[n] = node[n]
<1>1. Blank \in Cells
  BY DEF Blank, Cells
<1>2. \A n \in Nodes : node[n] \in Cells
  BY DEF Allocs
<1> QED
  BY <1>1, <1>2 DEF Blanked, Allocs

\* The rows of a table that is open.
LEMMA OpenRow ==
  ASSUME TablesOK, NEW t \in Tables, NEW rows, Rowed(rows, pimpl, node, live)
  PROVE  /\ rows[t] \in Rows /\ Held(rows[t]) \subseteq live /\ live \subseteq Nodes
         /\ pimpl[t] # Null => /\ Strung(rows[t], pimpl[t], node) /\ pimpl[t] \in Heads
                               /\ NodesOf(t) = Held(rows[t])
                               /\ Contents(t) = ContentsOn(pimpl[t], node)
<1>1. rows[t] \in Rows /\ (pimpl[t] # Null => Strung(rows[t], pimpl[t], node))
  BY DEF Rowed
<1>2. Held(rows[t]) \subseteq live
  BY DEF Rowed
<1>3. live \subseteq Nodes
  BY DEF TablesOK
<1>4. ASSUME pimpl[t] # Null
      PROVE  /\ Strung(rows[t], pimpl[t], node) /\ pimpl[t] \in Heads
             /\ NodesOf(t) = Held(rows[t])
             /\ Contents(t) = ContentsOn(pimpl[t], node)
  <2>1. Strung(rows[t], pimpl[t], node)
    BY <1>1, <1>4
  <2>2. pimpl[t] \in Heads
    BY <2>1 DEF Strung
  <2>3. NodesOf(t) = Held(rows[t])
    BY <2>1, AtPlaces, NodesAreHeld, Zenon
  <2> QED
    BY <1>4, <2>1, <2>2, <2>3, AtPlaces
<1> QED
  BY <1>1, <1>2, <1>3, <1>4

\* mapping_init.
LEMMA InitCreates ==
  ASSUME TablesOK, NEW t \in Tables, MapInit(t)
  PROVE  TablesOK' /\ Map[t] = Null /\ Map' = [Map EXCEPT ![t] = NoKeys]
<1>1. PICK rows : Rowed(rows, pimpl, node, live)
  BY DEF TablesOK
<1>2. /\ pimpl[t] = Null /\ node' = node /\ live' = live
      /\ pimpl' = [pimpl EXCEPT ![t] = NoBuckets]
  BY DEF MapInit
<1>3. NoBuckets \in Heads /\ NoBuckets # Null /\ node' \in Allocs
  BY <1>2, EmptyRowHolds, NullIsNoHeads DEF TablesOK
<1>4. Held(rows[t]) = {}
  BY <1>1, <1>2 DEF Rowed
<1>5. Turns(rows, t, EmptyRow, NoBuckets)
  BY <1>1, <1>2, <1>3, <1>4, EmptyRowHolds DEF Turns
<1>6. /\ TablesOK' /\ \A u \in Tables \ {t} : Contents(u)' = Contents(u)
      /\ Contents(t)' = ContentsOn(NoBuckets, node')
  BY <1>3, <1>5, TableTurns
<1>7. Contents(t)' = NoKeys
  BY <1>6, EmptyRowHolds DEF NoKeys
<1> QED
  BY <1>2, <1>6, <1>7, MapAt, MapTurns

\* mapping_deinit, alone or followed by mapping_init: no other table notices.
Empties(t, h) ==
  /\ pimpl[t] # Null
  /\ pimpl' = [pimpl EXCEPT ![t] = h]
  /\ live' = live \ NodesOf(t)
  /\ node' = Blanked(NodesOf(t), node)

\* mapping_deinit and mapping_clear free the nodes of one mapping and no
\* others.
LEMMA EmptiesOne ==
  ASSUME TablesOK, NEW t \in Tables, NEW h \in {Null, NoBuckets}, Empties(t, h)
  PROVE  /\ TablesOK' /\ Map[t] # Null
         /\ Map' = [Map EXCEPT ![t] = IF h = Null THEN Null ELSE NoKeys]
<1>1. PICK rows : Rowed(rows, pimpl, node, live)
  BY DEF TablesOK
<1>2. /\ pimpl[t] # Null /\ pimpl' = [pimpl EXCEPT ![t] = h]
      /\ live' = live \ NodesOf(t) /\ node' = Blanked(NodesOf(t), node)
  BY DEF Empties
<1>3. NodesOf(t) = Held(rows[t]) /\ Held(rows[t]) \subseteq live /\ live \subseteq Nodes
  BY <1>1, <1>2, OpenRow
<1>4. h \in Heads \cup {Null}
  BY EmptyRowHolds
<1>5. node' \in Allocs /\ \A n \in Nodes : n \notin Held(rows[t]) => node'[n] = node[n]
  BY <1>2, <1>3, BlankedCells DEF TablesOK
<1>6. Turns(rows, t, EmptyRow, h)
  <2>1. \A n : n \in live' <=> n \in live /\ n \notin Held(rows[t])
    BY <1>2, <1>3
  <2>2. \A n \in live : n \notin Held(rows[t]) => node'[n] = node[n]
    BY <1>3, <1>5
  <2>3. h # Null => Strung(EmptyRow, h, node')
    BY EmptyRowHolds
  <2> QED
    BY <1>1, <1>2, <2>1, <2>2, <2>3, EmptyRowHolds DEF Turns
<1>7. /\ TablesOK' /\ \A u \in Tables \ {t} : Contents(u)' = Contents(u)
      /\ Contents(t)' = IF h = Null THEN Null ELSE ContentsOn(h, node')
  BY <1>4, <1>5, <1>6, TableTurns
<1>8. Contents(t)' = IF h = Null THEN Null ELSE NoKeys
  BY <1>7, EmptyRowHolds DEF NoKeys
<1> QED
  BY <1>2, <1>7, <1>8, MapAt, MapTurns

\* A node with key k and value v is written, or joins the others.
Writes(rows, t, row2, h2, x, k, v) ==
  /\ h2 \in Heads /\ pimpl[t] # Null /\ node' \in Allocs
  /\ Turns(rows, t, row2, h2)
  /\ Puts(rows[t], pimpl[t], node, row2, h2, node', x, k, v)

\* A table that turns into one with k mapped to v keeps the invariant.
LEMMA PutTurns ==
  ASSUME TablesOK, NEW t \in Tables, NEW rows, NEW row2, NEW h2,
         NEW x, NEW k, NEW v, Writes(rows, t, row2, h2, x, k, v)
  PROVE  TablesOK' /\ Map[t] # Null /\ Map' = [Map EXCEPT ![t] = With(Map[t], k, v)]
<1> SUFFICES ASSUME h2 \in Heads, pimpl[t] # Null, node' \in Allocs,
                    Turns(rows, t, row2, h2),
                    Puts(rows[t], pimpl[t], node, row2, h2, node', x, k, v)
             PROVE  TablesOK' /\ Map[t] # Null /\ Map' = [Map EXCEPT ![t] = With(Map[t], k, v)]
  BY Zenon DEF Writes
<1>1. h2 # Null
  BY NullIsNoHeads
<1>2. /\ TablesOK' /\ \A u \in Tables \ {t} : Contents(u)' = Contents(u)
      /\ Contents(t)' = ContentsOn(h2, node')
  BY <1>1, TableTurns
<1>3. Contents(t) = ContentsOn(pimpl[t], node)
  BY AtPlaces
<1>4. ContentsOn(h2, node') = With(ContentsOn(pimpl[t], node), k, v)
  BY ContentsPut
<1>5. Contents(t)' = With(Map[t], k, v)
  BY <1>2, <1>3, <1>4, MapAt
<1> QED
  BY <1>2, <1>5, MapAt, MapTurns

\* mapping_ins finds the key in node x.
Overwrites(rows, t, x, k, v) ==
  /\ Rowed(rows, pimpl, node, live) /\ pimpl[t] # Null
  /\ x \in Held(rows[t]) /\ node[x].key = k
  /\ node' = [node EXCEPT ![x].value = v] /\ pimpl' = pimpl /\ live' = live

\* mapping_ins of a string that is there overwrites its value.
LEMMA InsFound ==
  ASSUME TablesOK, NEW t \in Tables, NEW k \in Keys, NEW v \in Values,
         NEW rows, NEW x, Overwrites(rows, t, x, k, v)
  PROVE  TablesOK' /\ Map[t] # Null /\ Map' = [Map EXCEPT ![t] = With(Map[t], k, v)]
<1> SUFFICES ASSUME Rowed(rows, pimpl, node, live), pimpl[t] # Null,
                    x \in Held(rows[t]), node[x].key = k,
                    node' = [node EXCEPT ![x].value = v], pimpl' = pimpl, live' = live
             PROVE  TablesOK' /\ Map[t] # Null /\ Map' = [Map EXCEPT ![t] = With(Map[t], k, v)]
  BY Zenon DEF Overwrites
<1> DEFINE row == rows[t]
           h == pimpl[t]
<1>1. /\ row \in Rows /\ Held(row) \subseteq live /\ live \subseteq Nodes
      /\ Strung(row, h, node) /\ h \in Heads
  BY OpenRow
<1>2. node \in [Nodes -> Cells] /\ pimpl \in [Tables -> Heads \cup {Null}]
  BY DEF TablesOK, Allocs, Pimpls
<1>3. x \in Nodes /\ node[x] \in Cells
  BY <1>1, <1>2
<1>4. /\ node'[x] = [node[x] EXCEPT !.value = v]
      /\ \A n \in Nodes : n # x => node'[n] = node[n]
      /\ DOMAIN node' = Nodes
  BY <1>2, <1>3
<1>5. /\ node'[x].key = node[x].key /\ node'[x].next = node[x].next /\ node'[x].value = v
      /\ node'[x] \in Cells
  BY <1>3, <1>4 DEF Cells
<1>6. node' \in Allocs
  <2>1. \A n \in Nodes : node'[n] \in Cells
    BY <1>2, <1>4, <1>5
  <2> QED
    BY <2>1, <1>2, <1>3 DEF Allocs
<1> HIDE DEF row, h
<1>7. \A n \in Held(row) : /\ node'[n].key = node[n].key /\ node'[n].next = node[n].next
                           /\ node'[n].value \in Values
  BY <1>1, <1>4, <1>5, KeysDiffer
<1>8. Strung(row, h, node')
  BY <1>1, <1>7, RowOverwritten
<1>9. Turns(rows, t, row, h)
  <2>1. pimpl' = [pimpl EXCEPT ![t] = h]
    BY <1>2 DEF h
  <2>2. h # Null
    BY DEF h
  <2>3. \A n \in live : n \notin Held(rows[t]) => node'[n] = node[n]
    BY <1>1, <1>4
  <2>4. Held(rows[t]) = Held(row)
    BY DEF row
  <2>5. \A n : n \in live' <=> n \in Held(row) \/ (n \in live /\ n \notin Held(rows[t]))
    BY <1>1, <2>4
  <2> QED
    BY <1>1, <1>8, <2>1, <2>2, <2>3, <2>4, <2>5 DEF Turns
<1>10. Puts(row, h, node, row, h, node', x, k, v)
  <2>1. x \in Held(row)
    BY DEF row
  <2>2. Held(row) = Held(row) \cup {x}
    BY <2>1
  <2>3. \A n \in Held(row) \ {x} : node'[n].key = node[n].key /\ node'[n].value = node[n].value
    BY <1>1, <1>4
  <2> QED
    BY <1>1, <1>5, <1>8, <2>2, <2>3, Zenon DEF Puts
<1>11. Writes(rows, t, row, h, x, k, v)
  <2>1. h # Null /\ row = rows[t] /\ h = pimpl[t]
    BY DEF row, h
  <2> QED
    BY <1>1, <1>6, <1>9, <1>10, <2>1, Zenon DEF Writes
<1> QED
  BY <1>11, PutTurns

\* It does not, and puts a new node n after prev, or into the bucket.
Inserts(rows, t, b, s, n, prev, others, k, v) ==
  /\ Rowed(rows, pimpl, node, live) /\ pimpl[t] # Null
  /\ b = Hash[k] % BUCKETS /\ s = rows[t][b]
  /\ \A i \in 1 .. Len(s) : node[s[i]].key # k
  /\ n \in Nodes /\ n \notin live /\ live' = live \cup {n}
  /\ prev = Item(s, Len(s))
  /\ others = [node EXCEPT ![n] = [key |-> k, value |-> v, next |-> Null]]
  /\ prev = Null => pimpl' = [pimpl EXCEPT ![t][b] = n] /\ node' = others
  /\ prev # Null => pimpl' = pimpl /\ node' = [others EXCEPT ![prev].next = n]

\* Writing one node leaves the others.
LEMMA NodeWritten ==
  ASSUME NEW nd \in [Nodes -> Cells], NEW x \in Nodes, NEW c \in Cells
  PROVE  LET nd2 == [nd EXCEPT ![x] = c]
         IN  /\ nd2[x] = c /\ nd2 \in [Nodes -> Cells]
             /\ \A m \in Nodes : m # x => nd2[m] = nd[m]
OBVIOUS

\* mapping_ins of a string that is not there links a new node in.
LEMMA InsNew ==
  ASSUME TablesOK, NEW t \in Tables, NEW k \in Keys, NEW v \in Values,
         NEW rows, NEW b, NEW s, NEW n, NEW prev, NEW others,
         Inserts(rows, t, b, s, n, prev, others, k, v)
  PROVE  TablesOK' /\ Map[t] # Null /\ Map' = [Map EXCEPT ![t] = With(Map[t], k, v)]
<1>a. Rowed(rows, pimpl, node, live) /\ pimpl[t] # Null
  BY Zenon DEF Inserts
<1>b. /\ b = Hash[k] % BUCKETS /\ s = rows[t][b]
      /\ \A i \in 1 .. Len(s) : node[s[i]].key # k
  BY Zenon DEF Inserts
<1>c. n \in Nodes /\ n \notin live /\ live' = live \cup {n}
  BY Zenon DEF Inserts
<1>d. prev = Item(s, Len(s))
  BY Zenon DEF Inserts
<1>e. others = [node EXCEPT ![n] = [key |-> k, value |-> v, next |-> Null]]
  BY Zenon DEF Inserts
<1>f. /\ prev = Null => pimpl' = [pimpl EXCEPT ![t][b] = n] /\ node' = others
      /\ prev # Null => pimpl' = pimpl /\ node' = [others EXCEPT ![prev].next = n]
  BY Zenon DEF Inserts
<1> DEFINE row == rows[t]
           h == pimpl[t]
           L == Len(s)
           row2 == [row EXCEPT ![b] = Append(s, n)]
           h2 == IF prev = Null THEN [h EXCEPT ![b] = n] ELSE h
           new == [key |-> k, value |-> v, next |-> Null]
<1>1. /\ row \in Rows /\ Held(row) \subseteq live /\ live \subseteq Nodes
      /\ Strung(row, h, node) /\ h \in Heads
  BY <1>a, OpenRow
<1>2. node \in [Nodes -> Cells] /\ pimpl \in [Tables -> Heads \cup {Null}]
  BY DEF TablesOK, Allocs, Pimpls
<1>3. b \in Bucket
  BY <1>b, HashedBucket
<1> HIDE DEF row, h
<1>4. /\ s \in Seq(Nodes) /\ L \in Nat
      /\ \A i \in 1 .. L : s[i] \in Held(row) /\ s[i] \in Nodes /\ s[i] # n
  <2>1. s = row[b]
    BY <1>b DEF row
  <2>2. s \in Seq(Nodes)
    BY <1>1, <1>3, <2>1, StrungRow
  <2>3. \A i \in 1 .. Len(s) : s[i] \in Held(row)
    BY <1>1, <1>3, <2>1, OnHeld
  <2>4. n \notin Held(row)
    BY <1>1, <1>c
  <2> QED
    BY <2>2, <2>3, <2>4
<1>5. new \in Cells
  BY DEF Cells
<1>6. /\ others \in [Nodes -> Cells] /\ others[n] = new
      /\ \A m \in Nodes : m # n => others[m] = node[m]
  BY <1>2, <1>5, <1>c, <1>e DEF new
<1> HIDE DEF new
<1>7. /\ L = 0 => prev = Null
      /\ L # 0 => prev = s[L] /\ L \in 1 .. L /\ prev \in Nodes /\ prev # Null /\ prev # n
  <2>1. CASE L = 0
    BY <2>1, <1>d DEF Item
  <2>2. CASE L # 0
    <3>1. L \in 1 .. L
      BY <2>2, <1>4
    <3>2. prev = s[L]
      BY <3>1, <1>d DEF Item
    <3> QED
      BY <2>2, <3>1, <3>2, <1>4, NullIsNoNode
  <2> QED
    BY <2>1, <2>2
<1> HIDE DEF L
<1>8. ASSUME L # 0
      PROVE  /\ node'[prev] = [others[prev] EXCEPT !.next = n]
             /\ \A m \in Nodes : m # prev => node'[m] = others[m]
             /\ node' \in [Nodes -> Cells]
             /\ node'[prev].key = node[prev].key /\ node'[prev].value = node[prev].value
             /\ node'[prev].next = n
  <2>1. prev \in Nodes /\ prev # n /\ node' = [others EXCEPT ![prev].next = n]
    BY <1>7, <1>8, <1>f
  <2>2. others[prev] = node[prev] /\ others[prev] \in Cells
    BY <2>1, <1>2, <1>6
  <2> DEFINE c == [others[prev] EXCEPT !.next = n]
  <2>3. /\ c \in Cells /\ c.key = node[prev].key /\ c.value = node[prev].value /\ c.next = n
    BY <2>2, <1>c DEF Cells
  <2>4. node' = [others EXCEPT ![prev] = c]
    BY <2>1, Zenon
  <2> HIDE DEF c
  <2>5. /\ node'[prev] = c /\ \A m \in Nodes : m # prev => node'[m] = others[m]
        /\ node' \in [Nodes -> Cells]
    <3>1. others \in [Nodes -> Cells] /\ c \in Cells /\ prev \in Nodes
      BY <2>1, <2>3, <1>6
    <3> DEFINE nd2 == [others EXCEPT ![prev] = c]
    <3>2. /\ nd2[prev] = c /\ \A m \in Nodes : m # prev => nd2[m] = others[m]
          /\ nd2 \in [Nodes -> Cells]
      BY <3>1, NodeWritten, Zenon
    <3>3. node' = nd2
      BY <2>4
    <3> HIDE DEF nd2
    <3> QED
      BY <3>2, <3>3, Zenon
  <2> QED
    BY <2>3, <2>5 DEF c
<1>9. /\ node' \in Allocs /\ node'[n] = new
      /\ \A m \in Nodes : m # n /\ m # prev => node'[m] = node[m]
  <2>1. CASE L = 0
    BY <2>1, <1>6, <1>7, <1>f DEF Allocs
  <2>2. CASE L # 0
    BY <2>2, <1>6, <1>7, <1>8, <1>c DEF Allocs
  <2> QED
    BY <2>1, <2>2
<1>10. /\ h2 \in Heads /\ \A c \in Bucket \ {b} : h2[c] = h[c]
       /\ h2[b] = IF L = 0 THEN n ELSE h[b]
  BY <1>1, <1>3, <1>7, <1>c DEF Heads
<1>11. pimpl' = [pimpl EXCEPT ![t] = h2]
  <2>1. CASE prev = Null
    <3>1. pimpl' = [pimpl EXCEPT ![t] = [pimpl[t] EXCEPT ![b] = n]]
      BY <2>1, <1>f
    <3> QED
      BY <2>1, <3>1, Zenon DEF h
  <2>2. CASE prev # Null
    BY <2>2, <1>2, <1>f DEF h
  <2> QED
    BY <2>1, <2>2
<1> HIDE DEF h2
<1>12. Appends(row, h, node, row2, h2, node', n, k, v)
  <2>1. row[b] = s /\ n \notin Held(row)
    BY <1>1, <1>b, <1>c DEF row
  <2>2. \A m \in Held(row) : prev # m => node'[m] = node[m]
    BY <1>1, <1>9, <1>c
  <2>3. L # 0 => /\ node'[s[L]].next = n
                 /\ node'[s[L]].key = node[s[L]].key /\ node'[s[L]].value = node[s[L]].value
    BY <1>7, <1>8
  <2>4. node'[n] = [key |-> k, value |-> v, next |-> Null]
    BY <1>9 DEF new
  <2> QED
    <3>1. n \in Nodes /\ b = Hash[k] % BUCKETS /\ prev = Item(row[b], Len(row[b]))
      BY <2>1, <1>b, <1>c, <1>d
    <3>2. \A i \in 1 .. Len(s) : node[s[i]].key # k
      BY <1>b
    <3>3. h2[b] = IF Len(s) = 0 THEN n ELSE h[b]
      BY <1>10 DEF L
    <3>4. Len(s) # 0 => /\ node'[s[Len(s)]].next = n
                        /\ node'[s[Len(s)]].key = node[s[Len(s)]].key
                        /\ node'[s[Len(s)]].value = node[s[Len(s)]].value
      BY <2>3 DEF L
    <3>5. row2 = [row EXCEPT ![b] = Append(row[b], n)]
      BY <2>1, Zenon
    <3> HIDE DEF row2
    <3> QED
      BY <1>1, <1>10, <2>1, <2>2, <2>4, <3>1, <3>2, <3>3, <3>4, <3>5, Zenon DEF Appends
<1>13. Strung(row2, h2, node') /\ Held(row2) = Held(row) \cup {n}
  <2> HIDE DEF row2
  <2> QED
    BY <1>12, RowAppended
<1> HIDE DEF row2
<1>14. row2 \in Rows /\ h2 # Null
  BY <1>10, <1>13, NullIsNoHeads DEF Strung
<1>15. Turns(rows, t, row2, h2)
  <2>1. Held(rows[t]) = Held(row)
    BY DEF row
  <2>2. \A m \in live : m \notin Held(rows[t]) => node'[m] = node[m]
    <3> TAKE m \in live
    <3>1. ASSUME m \notin Held(row) PROVE m \in Nodes /\ m # n /\ m # prev
      <4>1. m \in Nodes /\ m # n
        BY <1>1, <1>c
      <4>2. CASE L = 0
        BY <4>1, <4>2, <1>7, NullIsNoNode
      <4>3. CASE L # 0
        <5>1. prev \in Held(row)
          BY <4>3, <1>4, <1>7
        <5> QED
          BY <3>1, <4>1, <5>1
      <4> QED
        BY <4>1, <4>2, <4>3
    <3> QED
      BY <2>1, <3>1, <1>9
  <2>3. \A m : m \in live' <=> m \in Held(row2) \/ (m \in live /\ m \notin Held(rows[t]))
    BY <2>1, <1>1, <1>13, <1>c
  <2>4. \A m \in Held(row2) : m \in Held(rows[t]) \/ m \notin live
    BY <2>1, <1>13, <1>c
  <2> QED
    BY <1>11, <1>13, <1>14, <1>a, <2>2, <2>3, <2>4, Zenon DEF Turns
<1>16. Puts(row, h, node, row2, h2, node', n, k, v)
  <2>1. node'[n].key = k /\ node'[n].value = v
    BY <1>9 DEF new
  <2>2. n \notin Held(row)
    BY <1>1, <1>c
  <2>3. \A m \in Held(row) \ {n} : node'[m].key = node[m].key /\ node'[m].value = node[m].value
    <3> TAKE m \in Held(row) \ {n}
    <3>1. CASE m = prev
      <4>1. L # 0 /\ m \in Nodes
        BY <3>1, <1>1, <1>7, NullIsNoNode
      <4> QED
        BY <3>1, <4>1, <1>8
    <3>2. CASE m # prev
      BY <3>2, <1>1, <1>9, <1>c
    <3> QED
      BY <3>1, <3>2
  <2> QED
    BY <1>1, <1>13, <2>1, <2>2, <2>3, Zenon DEF Puts
<1>17. Writes(rows, t, row2, h2, n, k, v)
  <2>1. row = rows[t] /\ h = pimpl[t]
    BY DEF row, h
  <2> QED
    BY <1>9, <1>10, <1>15, <1>16, <2>1, <1>a, Zenon DEF Writes
<1> QED
  BY <1>17, PutTurns

\* mapping_ins.
LEMMA InsPuts ==
  ASSUME TablesOK, NEW t \in Tables, NEW k \in Keys, NEW v \in Values, MapIns(t, k, v)
  PROVE  TablesOK' /\ Map[t] # Null /\ Map' = [Map EXCEPT ![t] = With(Map[t], k, v)]
<1> DEFINE b == Hash[k] % BUCKETS
           link == Lookup(t, k)
           new == [key |-> k, value |-> v, next |-> Null]
<1>1. PICK rows : Rowed(rows, pimpl, node, live)
  BY DEF TablesOK
<1> DEFINE s == rows[t][b]
<1>2. pimpl[t] # Null /\ Store(t, k, v)
  BY Zenon DEF MapIns, Finds, Open
<1>3. Strung(rows[t], pimpl[t], node) /\ link = LookupOn(pimpl[t], node, k)
  BY <1>1, <1>2, OpenRow, AtPlaces
<1>4. PICK p : LeadsTo(link, b, s, k, node, p)
  BY <1>3, Looks, Zenon
<1>5. link.at # Null => link.at \in Held(rows[t]) /\ node[link.at].key = k
  <2> HIDE DEF link
  <2> QED
    BY <1>3, FoundOrNot
<1>6. CASE link.at # Null
  <2>1. node' = [node EXCEPT ![link.at].value = v] /\ pimpl' = pimpl /\ live' = live
    BY <1>2, <1>6, Zenon DEF Store
  <2> HIDE DEF link
  <2>2. Overwrites(rows, t, link.at, k, v)
    BY <1>1, <1>2, <1>5, <1>6, <2>1, Zenon DEF Overwrites
  <2> QED
    BY <2>2, InsFound
<1>7. CASE link.at = Null
  <2>1. PICK n \in Nodes \ live :
           /\ live' = live \cup {n}
           /\ Relink(t, link, n, [node EXCEPT ![n] = new])
    BY <1>2, <1>7, Zenon DEF Store
  <2> HIDE DEF link, b, s, new
  <2>2. /\ p \in 1 .. Len(s) + 1 /\ link.bucket = b
        /\ link.prev = Item(s, p - 1) /\ link.at = Item(s, p)
        /\ p = Len(s) + 1 => \A i \in 1 .. Len(s) : node[s[i]].key # k
    BY <1>4 DEF LeadsTo
  <2>3. b \in Bucket
    BY HashedBucket DEF b
  <2>4. Len(s) \in Nat /\ \A i \in 1 .. Len(s) : s[i] \in Nodes
    BY <1>3, <2>3, StrungRow DEF s
  <2>5. p = Len(s) + 1
    <3> SUFFICES ASSUME p # Len(s) + 1 PROVE FALSE
      OBVIOUS
    <3>1. p \in 1 .. Len(s)
      BY <2>2, <2>4
    <3>2. s[p] = Null
      BY <1>7, <2>2, <3>1 DEF Item
    <3> QED
      BY <3>1, <3>2, <2>4, NullIsNoNode
  <2>6. link.prev = Item(s, Len(s)) /\ \A i \in 1 .. Len(s) : node[s[i]].key # k
    <3>1. p - 1 = Len(s)
      BY <2>4, <2>5
    <3> QED
      BY <3>1, <2>2, <2>5
  <2> DEFINE others == [node EXCEPT ![n] = new]
  <2>7. /\ link.prev = Null => pimpl' = [pimpl EXCEPT ![t][b] = n] /\ node' = others
        /\ link.prev # Null => pimpl' = pimpl /\ node' = [others EXCEPT ![link.prev].next = n]
    BY <2>1, <2>2, Zenon DEF Relink
  <2>8. others = [node EXCEPT ![n] = [key |-> k, value |-> v, next |-> Null]]
    BY DEF new
  <2> HIDE DEF others
  <2>9. n \in Nodes /\ n \notin live /\ live' = live \cup {n}
    BY <2>1
  <2>10. Inserts(rows, t, b, s, n, link.prev, others, k, v)
    <3>1. b = Hash[k] % BUCKETS /\ s = rows[t][b]
      BY Zenon DEF b, s
    <3> QED
      BY <1>1, <1>2, <2>6, <2>7, <2>8, <2>9, <3>1, Zenon DEF Inserts
  <2> QED
    BY <2>10, InsNew
<1> QED
  BY <1>6, <1>7

\* A node goes.
Drops(rows, t, row2, h2, x) ==
  /\ h2 \in Heads /\ pimpl[t] # Null /\ node' \in Allocs
  /\ Turns(rows, t, row2, h2)
  /\ Cuts(rows[t], pimpl[t], node, row2, h2, node', x)

\* A table that turns into one without x keeps the invariant.
LEMMA CutTurns ==
  ASSUME TablesOK, NEW t \in Tables, NEW rows, NEW row2, NEW h2, NEW x,
         Drops(rows, t, row2, h2, x)
  PROVE  /\ TablesOK' /\ Map[t] # Null
         /\ Map' = [Map EXCEPT ![t] = Unmapped(Map[t], node[x].key)]
<1>0. /\ h2 \in Heads /\ pimpl[t] # Null /\ node' \in Allocs
      /\ Turns(rows, t, row2, h2)
      /\ Cuts(rows[t], pimpl[t], node, row2, h2, node', x)
  BY Zenon DEF Drops
<1>1. h2 # Null
  BY <1>0, NullIsNoHeads
<1>2. /\ TablesOK' /\ \A u \in Tables \ {t} : Contents(u)' = Contents(u)
      /\ Contents(t)' = ContentsOn(h2, node')
  BY <1>0, <1>1, TableTurns
<1>3. Contents(t) = ContentsOn(pimpl[t], node)
  BY <1>0, AtPlaces
<1>4. ContentsOn(h2, node') = Unmapped(ContentsOn(pimpl[t], node), node[x].key)
  <2>1. Cuts(rows[t], pimpl[t], node, row2, h2, node', x)
    BY <1>0
  <2> QED
    BY <2>1, ContentsCut
<1>5. Contents(t)' = Unmapped(Map[t], node[x].key)
  BY <1>2, <1>3, <1>4, MapAt
<1> QED
  BY <1>0, <1>2, <1>5, MapAt, MapTurns

\* mapping_del takes the p-th node out of its chain.
Unlinks(rows, t, b, s, p, prev, others) ==
  /\ Rowed(rows, pimpl, node, live) /\ pimpl[t] # Null
  /\ b \in Bucket /\ s = rows[t][b] /\ p \in 1 .. Len(s)
  /\ prev = Item(s, p - 1)
  /\ others = Blanked({s[p]}, node) /\ live' = live \ {s[p]}
  /\ prev = Null => pimpl' = [pimpl EXCEPT ![t][b] = node[s[p]].next] /\ node' = others
  /\ prev # Null => pimpl' = pimpl /\ node' = [others EXCEPT ![prev].next = node[s[p]].next]

\* mapping_del of a string that is there unlinks and frees its node.
LEMMA DelFound ==
  ASSUME TablesOK, NEW t \in Tables, NEW rows, NEW b, NEW s, NEW p, NEW prev, NEW others,
         Unlinks(rows, t, b, s, p, prev, others)
  PROVE  /\ TablesOK' /\ Map[t] # Null
         /\ Map' = [Map EXCEPT ![t] = Unmapped(Map[t], node[s[p]].key)]
<1>a. Rowed(rows, pimpl, node, live) /\ pimpl[t] # Null
  BY Zenon DEF Unlinks
<1>b. b \in Bucket /\ s = rows[t][b] /\ p \in 1 .. Len(s)
  BY Zenon DEF Unlinks
<1>c. others = Blanked({s[p]}, node) /\ live' = live \ {s[p]}
  BY Zenon DEF Unlinks
<1>d. prev = Item(s, p - 1)
  BY Zenon DEF Unlinks
<1>e. /\ prev = Null => pimpl' = [pimpl EXCEPT ![t][b] = node[s[p]].next] /\ node' = others
      /\ prev # Null => pimpl' = pimpl /\ node' = [others EXCEPT ![prev].next = node[s[p]].next]
  BY Zenon DEF Unlinks
<1> DEFINE row == rows[t]
           h == pimpl[t]
           x == s[p]
           y == node[s[p]].next
           row2 == [row EXCEPT ![b] = Without(row[b], p)]
           h2 == IF prev = Null THEN [h EXCEPT ![b] = y] ELSE h
<1>1. /\ row \in Rows /\ Held(row) \subseteq live /\ live \subseteq Nodes
      /\ Strung(row, h, node) /\ h \in Heads
  BY <1>a, OpenRow
<1>2. node \in [Nodes -> Cells] /\ pimpl \in [Tables -> Heads \cup {Null}]
  BY DEF TablesOK, Allocs, Pimpls
<1> HIDE DEF row, h
<1>3. /\ s = row[b] /\ s \in Seq(Nodes) /\ Len(s) \in Nat /\ p \in 1 .. Len(s)
      /\ \A i \in 1 .. Len(s) : s[i] \in Held(row) /\ s[i] \in Nodes
      /\ \A i, j \in 1 .. Len(s) : s[i] = s[j] => i = j
  <2>1. s = row[b]
    BY <1>b DEF row
  <2>2. /\ s \in Seq(Nodes) /\ Len(s) \in Nat
        /\ \A i, j \in 1 .. Len(s) : s[i] = s[j] => i = j
    BY <1>1, <1>b, <2>1, StrungRow
  <2>3. \A i \in 1 .. Len(s) : s[i] \in Held(row)
    BY <1>1, <1>b, <2>1, OnHeld
  <2> QED
    BY <1>b, <2>1, <2>2, <2>3
<1>4. x \in Held(row) /\ x \in Nodes /\ y \in Nodes \cup {Null}
  <2>1. x \in Nodes /\ node[x] \in Cells
    BY <1>2, <1>3
  <2> QED
    BY <1>3, <2>1 DEF Cells
<1>5. others \in [Nodes -> Cells] /\ \A m \in Nodes : m # x => others[m] = node[m]
  <2>1. node \in Allocs
    BY DEF TablesOK
  <2>2. Blanked({x}, node) \in Allocs /\ \A m \in Nodes : m \notin {x} => Blanked({x}, node)[m] = node[m]
    BY <2>1, BlankedCells
  <2> QED
    BY <2>2, <1>c DEF Allocs
<1>6. /\ p = 1 => prev = Null
      /\ p # 1 => /\ prev = s[p - 1] /\ p - 1 \in 1 .. Len(s)
                  /\ prev \in Nodes /\ prev \in Held(row) /\ prev # Null /\ prev # x
  <2>1. CASE p = 1
    <3>1. p - 1 \notin 1 .. Len(s)
      BY <2>1
    <3> QED
      BY <2>1, <3>1, <1>d DEF Item
  <2>2. CASE p # 1
    <3>1. p - 1 \in 1 .. Len(s) /\ p - 1 # p
      BY <2>2, <1>3
    <3>2. prev = s[p - 1]
      BY <3>1, <1>d DEF Item
    <3> QED
      BY <2>2, <3>1, <3>2, <1>3, NullIsNoNode
  <2> QED
    BY <2>1, <2>2
<1> HIDE DEF x, y
<1>7. ASSUME p # 1
      PROVE  /\ \A m \in Nodes : m # prev => node'[m] = others[m]
             /\ node' \in [Nodes -> Cells]
             /\ node'[prev].key = node[prev].key /\ node'[prev].value = node[prev].value
             /\ node'[prev].next = y
  <2>1. prev \in Nodes /\ prev # x /\ node' = [others EXCEPT ![prev].next = y]
    BY <1>6, <1>7, <1>e DEF y
  <2>2. others[prev] = node[prev] /\ others[prev] \in Cells
    BY <2>1, <1>5
  <2> DEFINE c == [others[prev] EXCEPT !.next = y]
  <2>3. /\ c \in Cells /\ c.key = node[prev].key /\ c.value = node[prev].value /\ c.next = y
    BY <2>2, <1>4 DEF Cells
  <2>4. node' = [others EXCEPT ![prev] = c]
    BY <2>1, Zenon
  <2> HIDE DEF c
  <2>5. /\ node'[prev] = c /\ \A m \in Nodes : m # prev => node'[m] = others[m]
        /\ node' \in [Nodes -> Cells]
    <3>1. others \in [Nodes -> Cells] /\ c \in Cells /\ prev \in Nodes
      BY <2>1, <2>3, <1>5
    <3> DEFINE nd2 == [others EXCEPT ![prev] = c]
    <3>2. /\ nd2[prev] = c /\ \A m \in Nodes : m # prev => nd2[m] = others[m]
          /\ nd2 \in [Nodes -> Cells]
      BY <3>1, NodeWritten, Zenon
    <3>3. node' = nd2
      BY <2>4
    <3> HIDE DEF nd2
    <3> QED
      BY <3>2, <3>3, Zenon
  <2> QED
    BY <2>3, <2>5
<1>8. node' \in Allocs /\ \A m \in Nodes : m # x /\ m # prev => node'[m] = node[m]
  <2>1. CASE p = 1
    BY <2>1, <1>5, <1>6, <1>e DEF Allocs
  <2>2. CASE p # 1
    BY <2>2, <1>5, <1>7 DEF Allocs
  <2> QED
    BY <2>1, <2>2
<1>9. /\ h2 \in Heads /\ \A c \in Bucket \ {b} : h2[c] = h[c]
      /\ h2[b] = IF p = 1 THEN y ELSE h[b]
  BY <1>1, <1>b, <1>4, <1>6 DEF Heads
<1>10. pimpl' = [pimpl EXCEPT ![t] = h2]
  <2>1. CASE prev = Null
    <3>1. pimpl' = [pimpl EXCEPT ![t] = [pimpl[t] EXCEPT ![b] = y]]
      BY <2>1, <1>e DEF y
    <3> QED
      BY <2>1, <3>1, Zenon DEF h
  <2>2. CASE prev # Null
    BY <2>2, <1>2, <1>e DEF h
  <2> QED
    BY <2>1, <2>2
<1> HIDE DEF h2
<1>11. CutsOut(row, h, node, row2, h2, node', b, p)
  <2>1. row[b][p] = x /\ node[x].next = y /\ row[b] = s
    BY <1>3 DEF x, y
  <2>2. p # 1 => /\ node'[s[p - 1]].next = y
                 /\ node'[s[p - 1]].key = node[s[p - 1]].key
                 /\ node'[s[p - 1]].value = node[s[p - 1]].value
    BY <1>6, <1>7
  <2>3. \A m \in Held(row) \ {x} : Item(s, p - 1) # m => node'[m] = node[m]
    BY <1>1, <1>8, <1>d
  <2> HIDE DEF row2
  <2>4. row2 = [row EXCEPT ![b] = Without(row[b], p)]
    BY DEF row2
  <2> QED
    BY <1>1, <1>3, <1>9, <1>b, <2>1, <2>2, <2>3, <2>4, Zenon DEF CutsOut
<1> HIDE DEF row2
<1>12. Strung(row2, h2, node') /\ Held(row2) = Held(row) \ {x}
  <2>1. row[b][p] = x
    BY <1>3 DEF x
  <2> QED
    BY <1>11, <2>1, RowCut
<1>13. row2 \in Rows /\ h2 # Null
  BY <1>9, <1>12, NullIsNoHeads DEF Strung
<1>14. Turns(rows, t, row2, h2)
  <2>1. Held(rows[t]) = Held(row)
    BY DEF row
  <2>2. \A m \in live : m \notin Held(rows[t]) => node'[m] = node[m]
    <3> TAKE m \in live
    <3>1. ASSUME m \notin Held(row) PROVE m \in Nodes /\ m # x /\ m # prev
      <4>1. m \in Nodes /\ m # x
        BY <3>1, <1>1, <1>4
      <4> QED
        BY <3>1, <4>1, <1>6, NullIsNoNode
    <3> QED
      BY <2>1, <3>1, <1>8
  <2>3. \A m : m \in live' <=> m \in Held(row2) \/ (m \in live /\ m \notin Held(rows[t]))
    BY <2>1, <1>1, <1>4, <1>12, <1>c DEF x
  <2>4. \A m \in Held(row2) : m \in Held(rows[t]) \/ m \notin live
    BY <2>1, <1>12
  <2> QED
    BY <1>10, <1>12, <1>13, <1>a, <2>2, <2>3, <2>4, Zenon DEF Turns
<1>15. Cuts(row, h, node, row2, h2, node', x)
  <2>1. \A m \in Held(row2) : node'[m].key = node[m].key /\ node'[m].value = node[m].value
    <3> TAKE m \in Held(row2)
    <3>1. m \in Nodes /\ m # x
      BY <1>1, <1>12
    <3>2. CASE m = prev
      <4>1. p # 1
        BY <3>1, <3>2, <1>6, NullIsNoNode
      <4> QED
        BY <3>2, <4>1, <1>7
    <3>3. CASE m # prev
      BY <3>1, <3>3, <1>8
    <3> QED
      BY <3>2, <3>3
  <2> QED
    BY <1>1, <1>4, <1>12, <2>1, Zenon DEF Cuts
<1>16. Drops(rows, t, row2, h2, x)
  <2>1. row = rows[t] /\ h = pimpl[t]
    BY DEF row, h
  <2> QED
    BY <1>8, <1>9, <1>14, <1>15, <1>a, <2>1, Zenon DEF Drops
<1>17. /\ TablesOK' /\ Map[t] # Null
       /\ Map' = [Map EXCEPT ![t] = Unmapped(Map[t], node[x].key)]
  BY <1>16, CutTurns
<1> QED
  BY <1>17 DEF x

\* mapping_del.
LEMMA DelUnmaps ==
  ASSUME TablesOK, NEW t \in Tables, NEW k \in Keys, MapDel(t, k)
  PROVE  TablesOK' /\ Map[t] # Null /\ Map' = [Map EXCEPT ![t] = Unmapped(Map[t], k)]
<1> DEFINE b == Hash[k] % BUCKETS
           link == Lookup(t, k)
<1>1. PICK rows : Rowed(rows, pimpl, node, live)
  BY DEF TablesOK
<1> DEFINE s == rows[t][b]
<1>2. pimpl[t] # Null
  BY Zenon DEF MapDel, Finds, Open
<1>3. Strung(rows[t], pimpl[t], node) /\ link = LookupOn(pimpl[t], node, k)
  BY <1>1, <1>2, OpenRow, AtPlaces
<1>4. PICK p : LeadsTo(link, b, s, k, node, p)
  BY <1>3, Looks, Zenon
<1>5. /\ link.at = Null => k \notin DOMAIN ContentsOn(pimpl[t], node)
      /\ link.at # Null => link.at \in Held(rows[t]) /\ node[link.at].key = k
  <2> HIDE DEF link
  <2> QED
    BY <1>3, FoundOrNot
<1>6. Contents(t) = ContentsOn(pimpl[t], node)
  BY <1>1, <1>2, OpenRow
<1>7. CASE link.at = Null
  <2>1. pimpl' = pimpl /\ node' = node /\ live' = live
    BY <1>7, Zenon DEF MapDel, tableVars
  <2>2. TablesOK' /\ \A u \in Tables : Contents(u)' = Contents(u)
    <3>1. TablesOK'
      BY <2>1 DEF TablesOK
    <3>2. \A u \in Tables : Contents(u)' = Contents(u)
      BY <2>1, AtPlaces, AtPlacesPrimed
    <3> QED
      BY <3>1, <3>2
  <2>3. Unmapped(Map[t], k) = Contents(t)
    <3>1. Map[t] = Contents(t) /\ k \notin DOMAIN Contents(t)
      BY <1>5, <1>6, <1>7, MapAt
    <3> DEFINE f == Contents(t)
               S == KeysIn(Held(rows[t]), node)
    <3>2. f \in [S -> Values]
      BY <1>3, <1>6, ContentsTell
    <3> HIDE DEF f, S
    <3>3. [j \in DOMAIN f |-> f[j]] = f
      BY <3>2
    <3>4. DOMAIN f \ {k} = DOMAIN f
      BY <3>1 DEF f
    <3>5. Unmapped(f, k) = f
      BY <3>3, <3>4, Zenon DEF Unmapped
    <3> QED
      BY <3>1, <3>5 DEF f
  <2>4. Contents(t)' = Unmapped(Map[t], k)
    BY <2>2, <2>3
  <2> QED
    BY <1>2, <2>2, <2>4, MapAt, MapTurns
<1>8. CASE link.at # Null
  <2>1. /\ Relink(t, link, node[link.at].next, Blanked({link.at}, node))
        /\ live' = live \ {link.at}
    BY <1>8, Zenon DEF MapDel
  <2> HIDE DEF link, b, s
  <2>2. /\ p \in 1 .. Len(s) + 1 /\ link.bucket = b
        /\ link.prev = Item(s, p - 1) /\ link.at = Item(s, p)
    BY <1>4 DEF LeadsTo
  <2>3. p \in 1 .. Len(s) /\ link.at = s[p]
    BY <1>8, <2>2 DEF Item
  <2>4. b \in Bucket
    BY HashedBucket DEF b
  <2> DEFINE others == Blanked({s[p]}, node)
  <2>5. /\ link.prev = Null => pimpl' = [pimpl EXCEPT ![t][b] = node[s[p]].next] /\ node' = others
        /\ link.prev # Null => /\ pimpl' = pimpl
                               /\ node' = [others EXCEPT ![link.prev].next = node[s[p]].next]
    BY <2>1, <2>2, <2>3, Zenon DEF Relink
  <2>6. live' = live \ {s[p]}
    BY <2>1, <2>3, Zenon
  <2> HIDE DEF others
  <2>7. Unlinks(rows, t, b, s, p, link.prev, others)
    <3>1. s = rows[t][b] /\ others = Blanked({s[p]}, node)
      BY Zenon DEF s, others
    <3> QED
      BY <1>1, <1>2, <2>2, <2>3, <2>4, <2>5, <2>6, <3>1, Zenon DEF Unlinks
  <2>8. /\ TablesOK' /\ Map[t] # Null
        /\ Map' = [Map EXCEPT ![t] = Unmapped(Map[t], node[s[p]].key)]
    BY <2>7, DelFound
  <2> QED
    BY <1>5, <1>8, <2>3, <2>8
<1> QED
  BY <1>7, <1>8

-----------------------------------------------------------------------------
(* mapping_keys.                                                           *)

\* The strings of the tables are ones that arrays can hold.
LEMMA TextsAreStrings ==
  StringSet(Texts) /\ Keys \subseteq Texts /\ \A v \in Values : v \in Seq(Texts)
<1>1. Stale \notin Texts /\ Values \subseteq Seq(Texts)
  BY Zenon, PointersAssumption
<1>2. EmptyString \in Texts /\ Keys \subseteq Texts
  BY DEF Texts
<1> QED
  BY <1>1, <1>2 DEF StringSet

\* A sequence that lists a set, each member once.
Lists(u, S) ==
  /\ \A i, j \in 1 .. Len(u) : u[i] = u[j] => i = j
  /\ \A y : y \in S <=> \E i \in 1 .. Len(u) : y = u[i]

\* Two lists of different things make one list of both.
LEMMA ListsJoined ==
  ASSUME NEW T, NEW u \in Seq(T), NEW w \in Seq(T), NEW S, NEW R, Lists(u, S), Lists(w, R),
         S \cap R = {}
  PROVE  Lists(u \o w, S \cup R)
<1> DEFINE M == Len(u)
           N == Len(w)
           z == u \o w
<1>1. M \in Nat /\ N \in Nat /\ z \in Seq(T) /\ Len(z) = M + N
  OBVIOUS
<1>2. \A i \in 1 .. M : z[i] = u[i]
  OBVIOUS
<1>3. \A i \in 1 .. N : M + i \in 1 .. M + N /\ z[M + i] = w[i]
  OBVIOUS
<1>4. /\ \A i, j \in 1 .. M : u[i] = u[j] => i = j
      /\ \A y : y \in S <=> \E i \in 1 .. M : y = u[i]
      /\ \A i, j \in 1 .. N : w[i] = w[j] => i = j
      /\ \A y : y \in R <=> \E i \in 1 .. N : y = w[i]
  BY DEF Lists
<1> HIDE DEF M, N, z
<1>5. \A i \in 1 .. M + N : i \in 1 .. M \/ (i - M \in 1 .. N /\ M + (i - M) = i)
  BY <1>1
<1>6. \A i \in 1 .. M : i \in 1 .. M + N
  BY <1>1
<1>7. ASSUME NEW y
      PROVE  y \in S \cup R <=> \E i \in 1 .. M + N : y = z[i]
  <2>1. ASSUME NEW i \in 1 .. M + N, y = z[i] PROVE y \in S \cup R
    <3>1. CASE i \in 1 .. M
      BY <2>1, <3>1, <1>2, <1>4
    <3>2. CASE i - M \in 1 .. N /\ M + (i - M) = i
      <4>1. z[i] = w[i - M]
        BY <3>2, <1>3
      <4> QED
        BY <2>1, <3>2, <4>1, <1>4
    <3> QED
      BY <3>1, <3>2, <1>5
  <2>2. ASSUME y \in S PROVE \E i \in 1 .. M + N : y = z[i]
    <3>1. PICK i \in 1 .. M : y = u[i]
      BY <2>2, <1>4
    <3> QED
      BY <3>1, <1>2, <1>6
  <2>3. ASSUME y \in R PROVE \E i \in 1 .. M + N : y = z[i]
    <3>1. PICK i \in 1 .. N : y = w[i]
      BY <2>3, <1>4
    <3> QED
      BY <3>1, <1>3
  <2> QED
    BY <2>1, <2>2, <2>3
<1>8. ASSUME NEW i \in 1 .. M + N, NEW j \in 1 .. M + N, z[i] = z[j] PROVE i = j
  <2>1. CASE i \in 1 .. M /\ j \in 1 .. M
    BY <1>8, <2>1, <1>2, <1>4
  <2>2. CASE i \in 1 .. M /\ j \notin 1 .. M
    <3>1. j - M \in 1 .. N /\ z[j] = w[j - M]
      BY <2>2, <1>3, <1>5
    <3>2. z[i] \in S /\ z[j] \in R
      BY <2>2, <3>1, <1>2, <1>4
    <3> QED
      BY <1>8, <3>2
  <2>3. CASE i \notin 1 .. M /\ j \in 1 .. M
    <3>1. i - M \in 1 .. N /\ z[i] = w[i - M]
      BY <2>3, <1>3, <1>5
    <3>2. z[i] \in R /\ z[j] \in S
      BY <2>3, <3>1, <1>2, <1>4
    <3> QED
      BY <1>8, <3>2
  <2>4. CASE i \notin 1 .. M /\ j \notin 1 .. M
    <3>1. /\ i - M \in 1 .. N /\ z[i] = w[i - M] /\ M + (i - M) = i
          /\ j - M \in 1 .. N /\ z[j] = w[j - M] /\ M + (j - M) = j
      BY <2>4, <1>3, <1>5
    <3>2. i - M = j - M
      BY <1>8, <3>1, <1>4
    <3> QED
      BY <3>1, <3>2
  <2> QED
    BY <2>1, <2>2, <2>3, <2>4
<1>9. Lists(z, S \cup R)
  <2> HIDE DEF Lists
  <2>1. Len(z) = M + N
    BY <1>1
  <2>2. \A i, j \in 1 .. Len(z) : z[i] = z[j] => i = j
    BY <2>1, <1>8
  <2>3. \A y : y \in S \cup R <=> \E i \in 1 .. Len(z) : y = z[i]
    BY <2>1, <1>7
  <2> QED
    BY <2>2, <2>3, Zenon DEF Lists
<1> QED
  BY <1>9 DEF z

\* It is as long as the set is large.
LEMMA ListsCount ==
  ASSUME NEW T, NEW u \in Seq(T), NEW S, Lists(u, S)
  PROVE  ToSet(u) = S /\ Len(u) = Cardinality(S)
<1> DEFINE N == Len(u)
<1>1. N \in Nat /\ u \in [1 .. N -> T] /\ DOMAIN u = 1 .. N
  OBVIOUS
<1>2. /\ \A i, j \in 1 .. N : u[i] = u[j] => i = j
      /\ \A y : y \in S <=> \E i \in 1 .. N : y = u[i]
  BY DEF Lists
<1> HIDE DEF N
<1>3. ToSet(u) = S
  BY <1>1, <1>2 DEF ToSet
<1>4. \A i \in 1 .. N : u[i] \in S
  BY <1>2
<1>5. u \in [1 .. N -> S]
  BY <1>1, <1>4
<1>6. u \in Bijection(1 .. N, S)
  <2>1. u \in Injection(1 .. N, S)
    BY <1>2, <1>5 DEF Injection, IsInjective
  <2>2. u \in Surjection(1 .. N, S)
    BY <1>2, <1>5 DEF Surjection
  <2> QED
    BY <2>1, <2>2 DEF Bijection
<1>7. IsFiniteSet(1 .. N) /\ Cardinality(1 .. N) = N
  BY <1>1, FS_Interval
<1> HIDE DEF Bijection
<1>8. ExistsBijection(1 .. N, S)
  BY <1>6 DEF ExistsBijection
<1>9. Cardinality(S) = Cardinality(1 .. N)
  BY <1>7, <1>8, FS_Bijection
<1> QED
  BY <1>3, <1>7, <1>9 DEF N

\* The strings along a chain.
KeyRow(s, nd) == [i \in 1 .. Len(s) |-> nd[s[i]].key]

\* A chain lists the strings of its bucket.
LEMMA KeyRowLists ==
  ASSUME NEW row, NEW heads, NEW nd, Strung(row, heads, nd), NEW b \in Bucket
  PROVE  /\ KeyRow(row[b], nd) \in Seq(Keys)
         /\ Lists(KeyRow(row[b], nd), {k \in KeysIn(Held(row), nd) : Hash[k] % BUCKETS = b})
<1> DEFINE s == row[b]
           L == Len(s)
           u == KeyRow(s, nd)
           S == {k \in KeysIn(Held(row), nd) : Hash[k] % BUCKETS = b}
<1>1. /\ s \in Seq(Nodes) /\ L \in Nat /\ Hashed(s, b, nd)
  BY StrungRow
<1>2. \A i \in 1 .. L : s[i] \in Held(row)
  BY OnHeld
<1>3. /\ \A i \in 1 .. L : nd[s[i]].key \in Keys /\ Hash[nd[s[i]].key] % BUCKETS = b
      /\ \A i, j \in 1 .. L : nd[s[i]].key = nd[s[j]].key => i = j
  BY <1>1 DEF Hashed
<1>4. u \in Seq(Keys) /\ Len(u) = L /\ \A i \in 1 .. L : u[i] = nd[s[i]].key
  <2> HIDE DEF L, s
  <2>1. u = [i \in 1 .. L |-> nd[s[i]].key]
    BY DEF KeyRow, L
  <2> HIDE DEF u
  <2> QED
    BY <2>1, <1>1, <1>3
<1> HIDE DEF u, L
<1>5. ASSUME NEW y PROVE y \in S <=> \E i \in 1 .. L : y = u[i]
  <2>1. ASSUME NEW i \in 1 .. L PROVE u[i] \in S
    BY <1>2, <1>3, <1>4 DEF KeysIn
  <2>2. ASSUME y \in S PROVE \E i \in 1 .. L : y = u[i]
    <3>1. PICK n \in Held(row) : y = nd[n].key
      BY <2>2 DEF KeysIn
    <3>2. PICK c \in Bucket : n \in On(row[c])
      BY DEF Held
    <3>3. PICK i \in 1 .. Len(row[c]) : n = row[c][i]
      BY <3>2 DEF On
    <3>4. Hash[nd[n].key] % BUCKETS = c
      BY <3>3, StrungRow DEF Hashed
    <3>5. c = b
      BY <2>2, <3>1, <3>4
    <3> QED
      BY <3>1, <3>3, <3>5, <1>4 DEF L
  <2> QED
    BY <2>1, <2>2
<1>6. Lists(u, S)
  <2> HIDE DEF S
  <2> QED
    BY <1>3, <1>4, <1>5 DEF Lists
<1> QED
  BY <1>4, <1>6 DEF u

\* What the walk along a bucket yields.
LEMMA KeysOfRow ==
  ASSUME NEW t \in Tables, NEW row, Strung(row, pimpl[t], node), NEW b \in Bucket
  PROVE  KeysOf(t, b) = KeyRow(row[b], node)
<1> DEFINE s == row[b]
           L == Len(s)
           N == Cardinality(Nodes)
           c == Chain(t, b)
           J == {j \in DOMAIN c : c[j] # Null}
           n == Cardinality(J)
<1>1. /\ s \in Seq(Nodes) /\ Leads(s, pimpl[t][b], node) /\ L \in Nat /\ L <= N /\ N \in Nat
  BY StrungRow, NodesFinite
<1>2. DOMAIN c = 0 .. N /\ \A i \in 0 .. N : c[i] = Item(s, i + 1)
  <2>1. c = ChainOn(pimpl[t][b], node)
    BY AtPlaces
  <2> HIDE DEF c, s, N
  <2>2. /\ DOMAIN ChainOn(pimpl[t][b], node) = 0 .. Cardinality(Nodes)
        /\ \A i \in 0 .. Cardinality(Nodes) : ChainOn(pimpl[t][b], node)[i] = Item(s, i + 1)
    BY <1>1, ChainIsRow
  <2> QED
    BY <2>1, <2>2 DEF N
<1>3. KeysOf(t, b) = [i \in 1 .. n |-> node[c[i - 1]].key]
  BY Zenon DEF KeysOf
<1>4. \A i \in 1 .. L : s[i] \in Nodes
  BY <1>1
<1> HIDE DEF c, s, N, L
<1>5. J = 0 .. L - 1
  <2>1. ASSUME NEW j \in 0 .. N
        PROVE  c[j] # Null <=> j \in 0 .. L - 1
    <3>1. CASE j + 1 \in 1 .. L
      <4>1. c[j] = s[j + 1] /\ j \in 0 .. L - 1
        BY <3>1, <1>1, <1>2 DEF Item, L
      <4> QED
        BY <3>1, <4>1, <1>4, NullIsNoNode
    <3>2. CASE j + 1 \notin 1 .. L
      <4>1. c[j] = Null /\ j \notin 0 .. L - 1
        BY <3>2, <1>1, <1>2 DEF Item, L
      <4> QED
        BY <4>1
    <3> QED
      BY <3>1, <3>2
  <2>2. 0 .. L - 1 \subseteq 0 .. N
    BY <1>1
  <2> QED
    BY <2>1, <2>2, <1>2
<1>6. n = L
  <2>1. Cardinality(0 .. L - 1) = IF 0 > L - 1 THEN 0 ELSE (L - 1) - 0 + 1
    BY <1>1, FS_Interval
  <2> HIDE DEF J
  <2> QED
    BY <2>1, <1>1, <1>5
<1> HIDE DEF J, n
<1>7. \A i \in 1 .. L : node[c[i - 1]].key = node[s[i]].key
  <2> TAKE i \in 1 .. L
  <2>1. i - 1 \in 0 .. N /\ (i - 1) + 1 = i
    BY <1>1
  <2>2. c[i - 1] = s[i]
    BY <2>1, <1>2 DEF Item, L
  <2> QED
    BY <2>2
<1>8. KeysOf(t, b) = [i \in 1 .. L |-> node[s[i]].key]
  BY <1>3, <1>6, <1>7
<1> QED
  BY <1>8 DEF KeyRow, s, L

\* One bucket after the other, the keys are put into the caller's array.
LEMMA KeysListed ==
  ASSUME TablesOK, out \in Arrays(Texts), NEW t \in Tables, MapKeys(t)
  PROVE  /\ out' \in Arrays(Texts)
         /\ ToSet(Strings(out')) = DOMAIN Map[t]
         /\ Len(Strings(out')) = Cardinality(DOMAIN Map[t])
<1>1. PICK rows : Rowed(rows, pimpl, node, live)
  BY DEF TablesOK
<1> DEFINE row == rows[t]
           B == BUCKETS
           All == Arrays(Texts)
           D == KeysIn(Held(row), node)
           Below(b) == {k \in D : Hash[k] % BUCKETS < b}
           step == [n \in 1 .. B |-> [a \in All |-> PushAll(a, KeysOf(t, n - 1))]]
           base == Emptied(out)
           Value(g, b) == IF b = 0 THEN base ELSE PushAll(g[b - 1], KeysOf(t, b - 1))
           Solves(g) == g = [b \in 0 .. B |-> Value(g, b)]
           after == CHOOSE g : Solves(g)
<1>2. /\ Strung(row, pimpl[t], node) /\ Contents(t) = ContentsOn(pimpl[t], node)
  BY <1>1, OpenRow DEF MapKeys, Open
<1>3. out' = after[B]
  BY Zenon DEF MapKeys
<1> HIDE DEF row
<1>4. B \in Nat /\ Bucket = 0 .. B - 1
  BY MappingAssumption DEF Bucket
<1>5. ASSUME NEW b \in Bucket
      PROVE  /\ KeysOf(t, b) \in Seq(Keys) /\ KeysOf(t, b) \in Seq(Texts)
             /\ Lists(KeysOf(t, b), {k \in D : Hash[k] % BUCKETS = b})
  <2>1. KeysOf(t, b) = KeyRow(row[b], node)
    BY <1>2, KeysOfRow
  <2>2. /\ KeyRow(row[b], node) \in Seq(Keys)
        /\ Lists(KeyRow(row[b], node), {k \in D : Hash[k] % BUCKETS = b})
    BY <1>2, KeyRowLists
  <2>3. \A u \in Seq(Keys) : u \in Seq(Texts)
    BY TextsAreStrings
  <2> QED
    BY <2>1, <2>2, <2>3
<1>6. base \in All /\ Strings(base) = <<>>
  <2>1. base \in All /\ base.length = 0
    BY ResizeOwns, TextsAreStrings DEF Emptied, Resize
  <2> HIDE DEF base
  <2>2. Strings(base) \in Seq(Texts) /\ Len(Strings(base)) = 0
    BY <2>1, StringsSeq, TextsAreStrings
  <2> QED
    BY <2>1, <2>2
<1> HIDE DEF base
<1>7. \A b \in Bucket, a \in All :
        /\ PushAll(a, KeysOf(t, b)) \in All
        /\ Strings(PushAll(a, KeysOf(t, b))) = Strings(a) \o KeysOf(t, b)
  BY <1>5, PushAllAppends, TextsAreStrings
<1>8. \A n \in 1 .. B : n - 1 \in Bucket
  BY <1>4
<1> HIDE DEF All, D
<1>9. step \in Steps(B, All)
  <2> HIDE DEF B
  <2> QED
    BY <1>7, <1>8 DEF Steps
<1>10. \E g : Solves(g)
  <2>1. PICK g : Iterates(g, base, B, step, All)
    <3> HIDE DEF step, B
    <3> QED
      BY <1>4, <1>6, <1>9, Iteration
  <2> HIDE DEF B
  <2>2. /\ g \in [0 .. B -> All] /\ g[0] = base
        /\ \A n \in 1 .. B : g[n] = step[n][g[n - 1]]
    BY <2>1 DEF Iterates
  <2>3. \A b \in 0 .. B : g[b] = Value(g, b)
    <3> TAKE b \in 0 .. B
    <3>1. CASE b = 0
      BY <3>1, <2>2
    <3>2. CASE b # 0
      <4>1. b \in 1 .. B /\ b - 1 \in 0 .. B
        BY <3>2, <1>4
      <4>2. g[b - 1] \in All
        BY <4>1, <2>2
      <4>3. step[b][g[b - 1]] = PushAll(g[b - 1], KeysOf(t, b - 1))
        BY <4>1, <4>2
      <4> QED
        BY <3>2, <4>1, <4>3, <2>2
    <3> QED
      BY <3>1, <3>2
  <2> HIDE DEF Value
  <2>4. g = [b \in 0 .. B |-> Value(g, b)]
    BY <2>2, <2>3
  <2> QED
    BY <2>4
<1> HIDE DEF Solves
<1>11. Solves(after)
  BY <1>10, Zenon
<1> HIDE DEF after, step
<1>12. \A b \in 0 .. B : after[b] = Value(after, b)
  <2> HIDE DEF Value, B
  <2> QED
    BY <1>11 DEF Solves
<1> HIDE DEF B
<1>13. /\ after[0] = base
       /\ \A b \in 0 .. B - 1 : b \in Bucket /\ after[b + 1] = PushAll(after[b], KeysOf(t, b))
  <2>1. 0 \in 0 .. B /\ \A b \in 0 .. B - 1 : b + 1 \in 0 .. B /\ b + 1 # 0 /\ (b + 1) - 1 = b
    BY <1>4
  <2> QED
    BY <2>1, <1>4, <1>12
<1> HIDE DEF Value
<1>14. \A k \in D : Hash[k] % BUCKETS \in Bucket
  BY <1>2, KeysDiffer, HashedBucket DEF KeysIn, D
<1> DEFINE T == {b \in 0 .. B : after[b] \in All /\ Lists(Strings(after[b]), Below(b))}
<1>15. 0 \in T
  <2>1. Below(0) = {}
    BY <1>4, <1>14
  <2> HIDE DEF Below
  <2>2. Lists(<<>>, {})
    BY DEF Lists
  <2>3. Strings(after[0]) = <<>> /\ after[0] \in All
    BY <1>6, <1>13, Zenon
  <2>4. Lists(Strings(after[0]), Below(0))
    BY <2>1, <2>2, <2>3, Zenon
  <2>5. 0 \in 0 .. B
    BY <1>4
  <2> QED
    BY <2>3, <2>4, <2>5
<1>16. ASSUME NEW b \in 0 .. B - 1, b \in T PROVE b + 1 \in T
  <2> DEFINE a == after[b]
             u == KeysOf(t, b)
             S == {k \in D : Hash[k] % BUCKETS = b}
  <2>1. a \in All /\ Lists(Strings(a), Below(b)) /\ b \in Bucket /\ b + 1 \in 0 .. B
    BY <1>4, <1>13, <1>16
  <2>2. after[b + 1] \in All /\ Strings(after[b + 1]) = Strings(a) \o u
    BY <2>1, <1>7, <1>13
  <2>3. u \in Seq(Texts) /\ Lists(u, S)
    BY <2>1, <1>5
  <2>4. Strings(a) \in Seq(Texts)
    BY <2>1, StringsSeq, TextsAreStrings DEF All
  <2>5. Below(b) \cap S = {} /\ Below(b) \cup S = Below(b + 1)
    <3>1. \A k \in D : Hash[k] % BUCKETS \in Int
      BY <1>4, <1>14
    <3> QED
      BY <2>1, <3>1, <1>4
  <2> HIDE DEF Below, S, u, a
  <2>6. Lists(Strings(a) \o u, Below(b) \cup S)
    BY <2>1, <2>3, <2>4, <2>5, ListsJoined
  <2> QED
    BY <2>1, <2>2, <2>5, <2>6
<1> HIDE DEF T
<1>17. 0 .. B \subseteq T
  BY <1>4, <1>15, <1>16, UpTo
<1>18. B \in T
  BY <1>4, <1>17
<1>19. after[B] \in All /\ Lists(Strings(after[B]), Below(B))
  BY <1>18 DEF T
<1>20. Below(B) = D
  BY <1>4, <1>14
<1>21. out' \in All /\ Lists(Strings(out'), D)
  BY <1>3, <1>19, <1>20 DEF B
<1>22. D = DOMAIN Map[t]
  BY <1>2, ContentsTell, MapAt DEF D
<1>23. Strings(out') \in Seq(Texts)
  BY <1>21, StringsSeq, TextsAreStrings DEF All
<1>24. ToSet(Strings(out')) = D /\ Len(Strings(out')) = Cardinality(D)
  BY <1>21, <1>23, ListsCount
<1> QED
  BY <1>21, <1>22, <1>24 DEF All

-----------------------------------------------------------------------------
(* The invariants.                                                         *)

\* A node whose key could not be copied is the last of its chain.
KeylessOK == \A n \in keyless : n \in live /\ node[n].next = Null

\* A lookup that compares no such node returns no link out of one.
LEMMA LinksApart ==
  ASSUME TablesOK, NEW t \in Tables, NEW k \in Keys, Finds(t, k)
  PROVE  /\ Lookup(t, k).prev # Null => Lookup(t, k).prev \notin keyless
         /\ Lookup(t, k).at # Null => Lookup(t, k).at \notin keyless
<1>1. PICK rows : Rowed(rows, pimpl, node, live)
  BY DEF TablesOK
<1>2. pimpl[t] # Null /\ Lookup(t, k).compared \cap keyless = {}
  BY Zenon DEF Finds, Open, Stumbles
<1>3. Strung(rows[t], pimpl[t], node) /\ Lookup(t, k) = LookupOn(pimpl[t], node, k)
  BY <1>1, <1>2, OpenRow, AtPlaces
<1>4. PICK p : LeadsTo(Lookup(t, k), Hash[k] % BUCKETS, rows[t][Hash[k] % BUCKETS], k, node, p)
  BY <1>3, Looks, Zenon
<1>5. /\ Lookup(t, k).prev # Null => Lookup(t, k).prev \in Lookup(t, k).compared
      /\ Lookup(t, k).at # Null => Lookup(t, k).at \in Lookup(t, k).compared
  BY <1>4, Zenon DEF LeadsTo
<1> QED
  BY <1>2, <1>5

\* A write through a link leaves the next of every node that is not the one
\* the link is in, and is not written beside it.
LEMMA RelinkKeeps ==
  ASSUME NEW t, NEW link, NEW n, NEW others \in [Nodes -> Cells], NEW m \in Nodes,
         Relink(t, link, n, others), link.prev # Null => link.prev # m
  PROVE  node'[m].next = others[m].next
<1>1. CASE link.prev = Null
  BY <1>1 DEF Relink
<1>2. CASE link.prev # Null
  BY <1>2 DEF Relink
<1> QED
  BY <1>1, <1>2

\* mapping_ins appends to no node without a key, and may make one.
LEMMA StoreKeeps ==
  ASSUME TablesOK, KeylessOK, NEW t \in Tables, NEW k \in Keys, NEW v \in Values,
         Finds(t, k), Store(t, k, v)
  PROVE  KeylessOK'
<1> DEFINE link == Lookup(t, k)
<1>1. node \in [Nodes -> Cells] /\ live \subseteq Nodes
  BY DEF TablesOK, Allocs
<1>2. \A m \in keyless : m \in Nodes /\ m \in live /\ node[m].next = Null
  BY <1>1 DEF KeylessOK
<1>3. CASE link.at # Null
  <2>1. node' = [node EXCEPT ![link.at].value = v] /\ live' = live /\ keyless' = keyless
    BY <1>3, Zenon DEF Store
  <2> HIDE DEF link
  <2>2. ASSUME NEW m \in keyless PROVE node'[m].next = Null
    <3>1. m \in Nodes /\ node[m].next = Null
      BY <1>2
    <3>2. CASE m = link.at
      BY <2>1, <3>1, <3>2, <1>1 DEF Cells
    <3>3. CASE m # link.at
      BY <2>1, <3>1, <3>3, <1>1
    <3> QED
      BY <3>2, <3>3
  <2> QED
    BY <1>2, <2>1, <2>2 DEF KeylessOK
<1>4. CASE link.at = Null
  <2> DEFINE New(n) == [node EXCEPT ![n] = [key |-> k, value |-> v, next |-> Null]]
  <2>1. PICK n \in Nodes \ live :
          live' = live \cup {n} /\ KeyCopied(n, k) /\ Relink(t, link, n, New(n))
    BY <1>4, Zenon DEF Store
  <2>2. link.prev # Null => link.prev \notin keyless
    BY LinksApart
  <2>3. link.prev # n
    <3>1. PICK rows : Rowed(rows, pimpl, node, live)
      BY DEF TablesOK
    <3>2. pimpl[t] # Null
      BY Zenon DEF Finds, Open
    <3>3. /\ Strung(rows[t], pimpl[t], node) /\ Held(rows[t]) \subseteq live
          /\ link = LookupOn(pimpl[t], node, k)
      BY <3>1, <3>2, OpenRow, AtPlaces
    <3> DEFINE b == Hash[k] % BUCKETS
               s == rows[t][b]
    <3>4. PICK p : LeadsTo(link, b, s, k, node, p)
      BY <3>3, Looks, Zenon
    <3> HIDE DEF link
    <3>5. link.prev = Item(s, p - 1)
      BY <3>4, Zenon DEF LeadsTo
    <3>6. b \in Bucket
      BY HashedBucket
    <3> HIDE DEF b
    <3>7. \A i \in 1 .. Len(s) : s[i] \in Held(rows[t])
      BY <3>3, <3>6, OnHeld
    <3>8. link.prev = Null \/ link.prev \in live
      BY <3>3, <3>5, <3>7 DEF Item
    <3> QED
      BY <2>1, <3>8, NullIsNoNode
  <2> HIDE DEF link
  <2>4. New(n) \in [Nodes -> Cells] /\ New(n)[n].next = Null
        /\ \A m \in Nodes : m # n => New(n)[m] = node[m]
    <3>1. [key |-> k, value |-> v, next |-> Null] \in Cells
      BY DEF Cells
    <3> QED
      BY <1>1, <2>1, <3>1
  <2>5. ASSUME NEW m \in keyless \cup {n}
        PROVE  m \in live' /\ node'[m].next = Null
    <3>1. m \in Nodes /\ New(n)[m].next = Null /\ m \in live'
      BY <1>2, <2>1, <2>4
    <3>2. link.prev # Null => link.prev # m
      BY <2>2, <2>3
    <3>3. node'[m].next = New(n)[m].next
      <4> HIDE DEF New
      <4> QED
        BY <2>1, <2>4, <3>1, <3>2, RelinkKeeps
    <3> QED
      BY <3>1, <3>3
  <2>6. keyless' \subseteq keyless \cup {n}
    BY <2>1 DEF KeyCopied
  <2> QED
    BY <2>5, <2>6 DEF KeylessOK
<1> QED
  BY <1>3, <1>4

\* mapping_del passes no node without a key.
LEMMA DelKeeps ==
  ASSUME TablesOK, KeylessOK, NEW t \in Tables, NEW k \in Keys, MapDel(t, k)
  PROVE  KeylessOK'
<1> DEFINE link == Lookup(t, k)
<1>1. node \in [Nodes -> Cells] /\ live \subseteq Nodes
  BY DEF TablesOK, Allocs
<1>2. \A m \in keyless : m \in Nodes /\ m \in live /\ node[m].next = Null
  BY <1>1 DEF KeylessOK
<1>3. keyless' = keyless /\ Finds(t, k)
  BY Zenon DEF MapDel
<1>4. CASE link.at = Null
  <2>1. node' = node /\ live' = live
    BY <1>4, Zenon DEF MapDel, tableVars
  <2> QED
    BY <1>2, <1>3, <2>1 DEF KeylessOK
<1>5. CASE link.at # Null
  <2>1. /\ Relink(t, link, node[link.at].next, Blanked({link.at}, node))
        /\ live' = live \ {link.at}
    BY <1>5, Zenon DEF MapDel
  <2>2. /\ link.prev # Null => link.prev \notin keyless
        /\ link.at \notin keyless
    BY <1>3, <1>5, LinksApart
  <2> HIDE DEF link
  <2> DEFINE others == Blanked({link.at}, node)
  <2>3. others \in [Nodes -> Cells] /\ \A m \in Nodes : m # link.at => others[m] = node[m]
    BY <1>1, BlankedCells DEF Allocs, TablesOK, Blanked, Blank, Cells
  <2> HIDE DEF others
  <2>4. ASSUME NEW m \in keyless PROVE m \in live' /\ node'[m].next = Null
    <3>1. m \in Nodes /\ m # link.at /\ others[m].next = Null
      BY <1>2, <2>2, <2>3
    <3>2. node'[m].next = others[m].next
      BY <2>1, <2>2, <2>3, <3>1, RelinkKeeps DEF others
    <3> QED
      BY <1>2, <2>1, <3>1, <3>2
  <2> QED
    BY <1>3, <2>4 DEF KeylessOK
<1> QED
  BY <1>4, <1>5

\* What frees a whole table frees its nodes without a key too.
LEMMA FreesKeep ==
  ASSUME TablesOK, KeylessOK, NEW S, live' = live \ S, keyless' = keyless \ S,
         node' = Blanked(S, node)
  PROVE  KeylessOK'
<1>1. \A n \in keyless : n \in Nodes
  BY DEF TablesOK, KeylessOK
<1>2. \A n \in Nodes : n \notin S => node'[n] = node[n]
  BY DEF Blanked
<1> QED
  BY <1>1, <1>2 DEF KeylessOK

\* Chains as rows make what ChainsSound says of them.
LEMMA RowsAreSound == ASSUME TablesOK, KeylessOK PROVE ChainsSound
<1>1. PICK rows : Rowed(rows, pimpl, node, live)
  BY DEF TablesOK
<1> DEFINE IsOpen(t) == pimpl[t] # Null
           N == Cardinality(Nodes)
<1>2. ASSUME NEW t \in Tables, IsOpen(t)
      PROVE  NodesOf(t) = Held(rows[t]) /\ Strung(rows[t], pimpl[t], node)
  BY <1>1, <1>2, OpenRow
<1>3. live = UNION {NodesOf(t) : t \in {u \in Tables : IsOpen(u)}}
  <2>1. \A n : n \in live <=> \E t \in Tables : n \in Held(rows[t])
    BY <1>1 DEF Rowed
  <2>2. \A t \in Tables : ~IsOpen(t) => Held(rows[t]) = {}
    BY <1>1 DEF Rowed
  <2> HIDE DEF IsOpen
  <2> QED
    BY <2>1, <2>2, <1>2
<1>4. ASSUME NEW t \in Tables, IsOpen(t), NEW b \in Bucket
      PROVE  LET c == Chain(t, b)
                 held == {i \in DOMAIN c : c[i] # Null}
             IN  /\ c[N] = Null
                 /\ \A i \in held : Hash[node[c[i]].key] % BUCKETS = b
                 /\ \A i, j \in held : i # j => node[c[i]].key # node[c[j]].key
  <2> DEFINE s == rows[t][b]
             L == Len(s)
             c == Chain(t, b)
             held == {i \in DOMAIN c : c[i] # Null}
  <2>1. /\ s \in Seq(Nodes) /\ Leads(s, pimpl[t][b], node) /\ Hashed(s, b, node)
        /\ L \in Nat /\ L <= N /\ N \in Nat
    BY <1>2, <1>4, StrungRow, NodesFinite
  <2>2. DOMAIN c = 0 .. N /\ \A i \in 0 .. N : c[i] = Item(s, i + 1)
    <3>1. c = ChainOn(pimpl[t][b], node)
      BY AtPlaces
    <3> HIDE DEF c, s, N
    <3>2. /\ DOMAIN ChainOn(pimpl[t][b], node) = 0 .. Cardinality(Nodes)
          /\ \A i \in 0 .. Cardinality(Nodes) : ChainOn(pimpl[t][b], node)[i] = Item(s, i + 1)
      BY <2>1, ChainIsRow
    <3> QED
      BY <3>1, <3>2 DEF N
  <2>3. /\ \A i \in 1 .. L : Hash[node[s[i]].key] % BUCKETS = b
        /\ \A i, j \in 1 .. L : node[s[i]].key = node[s[j]].key => i = j
    BY <2>1 DEF Hashed
  <2> HIDE DEF c, s, N
  <2>4. c[N] = Null
    <3>1. N \in 0 .. N /\ N + 1 \notin 1 .. L
      BY <2>1
    <3> QED
      BY <3>1, <2>2 DEF Item
  <2>5. \A i \in held : i \in Int /\ i + 1 \in 1 .. L /\ c[i] = s[i + 1]
    BY <2>1, <2>2 DEF Item
  <2> HIDE DEF held, L
  <2>6. \A i \in held : Hash[node[c[i]].key] % BUCKETS = b
    BY <2>3, <2>5
  <2>7. \A i, j \in held : i # j => node[c[i]].key # node[c[j]].key
    <3> SUFFICES ASSUME NEW i \in held, NEW j \in held, node[c[i]].key = node[c[j]].key
                 PROVE  i = j
      OBVIOUS
    <3>1. i + 1 = j + 1
      BY <2>3, <2>5
    <3> QED
      BY <3>1, <2>5
  <2> QED
    BY <2>4, <2>6, <2>7 DEF c, held
<1>5. ASSUME NEW t \in Tables, NEW u \in Tables, IsOpen(t), IsOpen(u), t # u
      PROVE  NodesOf(t) \cap NodesOf(u) = {}
  <2>1. Held(rows[t]) \cap Held(rows[u]) = {}
    BY <1>1, <1>5 DEF Rowed
  <2> QED
    BY <2>1, <1>2, <1>5
<1>6. \A n \in keyless : n \in live /\ node[n].next = Null
  BY DEF KeylessOK
<1> QED
  BY <1>3, <1>4, <1>5, <1>6, Zenon DEF ChainsSound

\* Steps that leave the tables alone keep their invariant.
LEMMA TablesSame ==
  ASSUME TablesOK, KeylessOK, UNCHANGED <<tableVars, keyless>>
  PROVE  TablesOK' /\ KeylessOK' /\ Map' = Map
<1>1. pimpl' = pimpl /\ node' = node /\ live' = live /\ keyless' = keyless
  BY Zenon DEF tableVars
<1>2. TablesOK' /\ KeylessOK'
  BY <1>1 DEF TablesOK, KeylessOK
<1>3. \A u \in Tables : Contents(u)' = Contents(u)
  BY <1>1, AtPlaces, AtPlacesPrimed
<1>4. Map' = [u \in Tables |-> Contents(u)']
  BY Zenon DEF Map
<1> QED
  BY <1>2, <1>3, <1>4 DEF Map

\* What is found is what was put there; else the array stays as it was.
LEMMA FindIntoGives ==
  ASSUME TablesOK, NEW t \in Tables, NEW k \in Keys, pimpl[t] # Null,
         NEW a \in Arrays(Texts)
  PROVE  /\ FindInto(t, k, a) \in Arrays(Texts)
         /\ k \in DOMAIN Map[t] => /\ Strings(FindInto(t, k, a)) = Map[t][k]
                                   /\ Map[t][k] \in Seq(Texts)
         /\ k \notin DOMAIN Map[t] => FindInto(t, k, a) = a
<1> DEFINE at == Lookup(t, k).at
           v == node[at].value
           r == FindInto(t, k, a)
<1>1. PICK rows : Rowed(rows, pimpl, node, live)
  BY DEF TablesOK
<1>2. Strung(rows[t], pimpl[t], node) /\ Map[t] = ContentsOn(pimpl[t], node)
  BY <1>1, OpenRow, MapAt
<1>3. at = LookupOn(pimpl[t], node, k).at
  BY AtPlaces
<1>4. r = IF at = Null THEN a ELSE PushAll(Emptied(a), v)
  BY Zenon DEF FindInto
<1> HIDE DEF at, r
<1>5. /\ at = Null => k \notin DOMAIN Map[t]
      /\ at # Null => k \in DOMAIN Map[t] /\ Map[t][k] = v /\ at \in Held(rows[t])
  BY <1>2, <1>3, FoundOrNot
<1>6. CASE at = Null
  BY <1>4, <1>5, <1>6 DEF r
<1>7. CASE at # Null
  <2>1. v \in Seq(Texts)
    BY <1>2, <1>5, <1>7, KeysDiffer, TextsAreStrings
  <2> DEFINE base == Emptied(a)
  <2>2. base \in Arrays(Texts) /\ base.length = 0
    BY ResizeOwns, TextsAreStrings DEF Emptied, Resize
  <2> HIDE DEF base
  <2>3. Strings(base) \in Seq(Texts) /\ Len(Strings(base)) = 0
    BY <2>2, StringsSeq, TextsAreStrings
  <2>4. Strings(base) \o v = v
    BY <2>1, <2>3
  <2> HIDE DEF v
  <2>5. PushAll(base, v) \in Arrays(Texts) /\ Strings(PushAll(base, v)) = Strings(base) \o v
    BY <2>1, <2>2, PushAllAppends, TextsAreStrings
  <2>6. r = PushAll(base, v)
    BY <1>4, <1>7 DEF base
  <2> QED
    BY <1>5, <1>7, <2>1, <2>4, <2>5, <2>6 DEF r
<1> QED
  BY <1>6, <1>7

\* An array that is new or emptied holds no strings.
LEMMA EmptyArrays ==
  /\ NoStrings \in Arrays(Texts) /\ Strings(NoStrings) = <<>>
  /\ \A a \in Arrays(Texts) : Emptied(a) \in Arrays(Texts) /\ Strings(Emptied(a)) = <<>>
<1>1. NoStrings \in Arrays(Texts) /\ NoStrings.length = 0
  BY NoStringsArray DEF NoStrings
<1>2. \A a \in Arrays(Texts) : Emptied(a) \in Arrays(Texts) /\ Emptied(a).length = 0
  BY ResizeOwns, TextsAreStrings DEF Emptied, Resize
<1>3. ASSUME NEW a \in Arrays(Texts), a.length = 0 PROVE Strings(a) = <<>>
  <2>1. Strings(a) \in Seq(Texts) /\ Len(Strings(a)) = 0
    BY <1>3, StringsSeq, TextsAreStrings
  <2> QED
    BY <2>1
<1> QED
  BY <1>1, <1>2, <1>3

\* The strings that are stored one at a time.
LEMMA Singles ==
  \A string \in Single : /\ string \in Texts /\ <<string>> \in Values
                         /\ Strings(Push(NoStrings, string)) = <<string>>
<1> TAKE string \in Single
<1>1. <<string>> \in Values
  BY GameStateAssumption
<1>2. string \in Texts
  <2>1. <<string>> \in Seq(Texts)
    BY <1>1, TextsAreStrings
  <2> QED
    BY <2>1
<1>3. Strings(Push(NoStrings, string)) = Append(<<>>, string)
  BY <1>2, EmptyArrays, PushAppends, TextsAreStrings
<1> QED
  BY <1>1, <1>2, <1>3

-----------------------------------------------------------------------------
(* The steps, as stringutils.h has them.                                   *)

\* The inductive invariant: the tables are sound, nodes without a key end
\* their chains, and the array of results is sound.
Inv == TablesOK /\ KeylessOK /\ out \in Arrays(Texts)

\* A step that leaves the array of results alone keeps the invariant if it
\* keeps the tables'.
LEMMA TablesStep ==
  ASSUME Inv, TablesOK', KeylessOK', out' = out, got' = got
  PROVE  Inv' /\ Strings(out') = Strings(out)
BY DEF Inv

\* One lemma for each operation that the promise names: what the code does is
\* what it allows.
LEMMA Creates ==
  ASSUME Inv, NEW t \in Tables, MapInit(t) PROVE Inv' /\ Promise!Create(t)
<1>1. out' = out /\ got' = got /\ UNCHANGED <<node, live, keyless>>
  BY Zenon DEF MapInit
<1>2. TablesOK' /\ Map[t] = Null /\ Map' = [Map EXCEPT ![t] = NoKeys]
  BY InitCreates DEF Inv
<1>3. Inv' /\ Strings(out') = Strings(out)
  <2>1. KeylessOK'
    BY <1>1 DEF Inv, KeylessOK
  <2> QED
    BY <1>1, <1>2, <2>1, TablesStep
<1>4. Promise!Create(t)
  BY <1>1, <1>2, <1>3, Zenon DEF Promise!Create, Map, NoKeys
<1> QED
  BY <1>3, <1>4

\* mapping_deinit.
LEMMA Destroys ==
  ASSUME Inv, NEW t \in Tables, MapDeinit(t) PROVE Inv' /\ Promise!Destroy(t)
<1>1. out' = out /\ got' = got /\ Empties(t, Null)
  BY Zenon DEF MapDeinit, Open, Empties
<1>2. /\ TablesOK' /\ Map[t] # Null
      /\ Map' = [Map EXCEPT ![t] = IF Null = Null THEN Null ELSE NoKeys]
  BY <1>1, EmptiesOne DEF Inv
<1>3. Inv' /\ Strings(out') = Strings(out)
  <2>1. keyless' = keyless \ NodesOf(t)
    BY Zenon DEF MapDeinit
  <2>2. KeylessOK'
    BY <1>1, <2>1, FreesKeep DEF Inv, Empties
  <2> QED
    BY <1>1, <1>2, <2>2, TablesStep
<1>4. Map' = [Map EXCEPT ![t] = Null]
  BY <1>2
<1>5. Promise!Destroy(t)
  BY <1>1, <1>2, <1>3, <1>4, Zenon DEF Promise!Destroy, Map
<1> QED
  BY <1>3, <1>5

\* mapping_clear, of the global mapping.
LEMMA Renews == ASSUME Inv, Clear PROVE Inv' /\ Promise!Renew(Global)
<1>0. Global \in Tables /\ NoBuckets # Null
  BY GameStateAssumption, EmptyRowHolds, NullIsNoHeads
<1>1. out' = out /\ got' = got /\ Empties(Global, NoBuckets)
  BY Zenon DEF Clear, Open, Empties
<1>2. /\ TablesOK' /\ Map[Global] # Null
      /\ Map' = [Map EXCEPT ![Global] = IF NoBuckets = Null THEN Null ELSE NoKeys]
  BY <1>0, <1>1, EmptiesOne DEF Inv
<1>3. Inv' /\ Strings(out') = Strings(out)
  <2>1. keyless' = keyless \ NodesOf(Global)
    BY Zenon DEF Clear
  <2>2. KeylessOK'
    BY <1>1, <2>1, FreesKeep DEF Inv, Empties
  <2> QED
    BY <1>1, <1>2, <2>2, TablesStep
<1>4. Map' = [Map EXCEPT ![Global] = NoKeys]
  BY <1>0, <1>2
<1>5. Promise!Renew(Global)
  BY <1>1, <1>2, <1>3, <1>4, Zenon DEF Promise!Renew, Map, NoKeys
<1> QED
  BY <1>3, <1>5

\* mapping_ins.
LEMMA Inserted ==
  ASSUME Inv, NEW t \in Tables, NEW k \in Keys, NEW v \in Values, MapIns(t, k, v)
  PROVE  Inv' /\ Promise!Put(t, k, v)
<1>1. out' = out /\ got' = got
  BY Zenon DEF MapIns
<1>2. TablesOK' /\ Map[t] # Null /\ Map' = [Map EXCEPT ![t] = With(Map[t], k, v)]
  BY InsPuts DEF Inv
<1>3. Inv' /\ Strings(out') = Strings(out)
  <2>1. Finds(t, k) /\ Store(t, k, v)
    BY Zenon DEF MapIns
  <2>2. KeylessOK'
    BY <2>1, StoreKeeps DEF Inv
  <2> QED
    BY <1>1, <1>2, <2>2, TablesStep
<1>4. Promise!Put(t, k, v)
  BY <1>1, <1>2, <1>3, Zenon DEF Promise!Put, Map, With
<1> QED
  BY <1>3, <1>4

\* mapping_del.
LEMMA Deleted ==
  ASSUME Inv, NEW t \in Tables, NEW k \in Keys, MapDel(t, k)
  PROVE  Inv' /\ Promise!Unmap(t, k)
<1>1. out' = out /\ got' = got
  BY Zenon DEF MapDel
<1>2. TablesOK' /\ Map[t] # Null /\ Map' = [Map EXCEPT ![t] = Unmapped(Map[t], k)]
  BY DelUnmaps DEF Inv
<1>3. Inv' /\ Strings(out') = Strings(out)
  <2>1. KeylessOK'
    BY DelKeeps DEF Inv
  <2> QED
    BY <1>1, <1>2, <2>1, TablesStep
<1>4. Promise!Unmap(t, k)
  BY <1>1, <1>2, <1>3, Zenon DEF Promise!Unmap, Promise!Restrict, Restrict, Map, Unmapped
<1> QED
  BY <1>3, <1>4

\* mapping_find and gamestate_global_aget, which clears the array first.
LEMMA Found ==
  ASSUME Inv, NEW t \in Tables, NEW k \in Keys, pimpl[t] # Null,
         NEW a \in {out, Emptied(out)}, out' = FindInto(t, k, a),
         UNCHANGED <<tableVars, keyless>>, got' = got
  PROVE  Inv' /\ Promise!Get(t, k)
<1>1. TablesOK /\ KeylessOK /\ out \in Arrays(Texts)
  BY DEF Inv
<1>2. TablesOK' /\ KeylessOK' /\ Map' = Map
  BY <1>1, TablesSame
<1>3. a \in Arrays(Texts) /\ Strings(a) \in {Strings(out), <<>>}
  BY <1>1, EmptyArrays
<1>4. /\ out' \in Arrays(Texts)
      /\ k \in DOMAIN Map[t] => Strings(out') = Map[t][k]
      /\ k \notin DOMAIN Map[t] => out' = a
  BY <1>1, <1>3, FindIntoGives
<1>5. Map[t] # Null
  BY <1>1, MapAt
<1>6. Inv'
  BY <1>2, <1>4 DEF Inv
<1>7. k \notin DOMAIN Map[t] => Strings(out') \in {Strings(out), <<>>}
  BY <1>3, <1>4
<1>8. Promise!Get(t, k)
  BY <1>2, <1>4, <1>5, <1>7, Zenon DEF Promise!Get, Map
<1> QED
  BY <1>6, <1>8

\* mapping_find of the global mapping, and its first string.
LEMMA GetsFirst ==
  ASSUME Inv, NEW k \in Keys, GlobalGet(k)
  PROVE  Inv' /\ Promise!GetFirst(Global, k)
<1> DEFINE r == FindInto(Global, k, NoStrings)
<1>0. Global \in Tables /\ pimpl[Global] # Null
  BY GameStateAssumption DEF GlobalGet, Finds, Open
<1>1. /\ got' = IF r.length >= 1 THEN r.slot[1] ELSE EmptyString
      /\ out' = out /\ UNCHANGED <<tableVars, keyless>>
  BY Zenon DEF GlobalGet
<1>2. TablesOK' /\ KeylessOK' /\ Map' = Map /\ Map[Global] # Null
  BY <1>0, <1>1, TablesSame, MapAt DEF Inv
<1>3. /\ r \in Arrays(Texts)
      /\ k \in DOMAIN Map[Global] => Strings(r) = Map[Global][k]
      /\ k \notin DOMAIN Map[Global] => r = NoStrings
  BY <1>0, FindIntoGives, EmptyArrays DEF Inv
<1> HIDE DEF r
<1>4. /\ Strings(r) \in Seq(Texts) /\ Len(Strings(r)) = r.length
      /\ \A i \in 1 .. r.length : Strings(r)[i] = r.slot[i]
      /\ r.length \in Nat
  BY <1>3, StringsSeq, TextsAreStrings DEF Arrays
<1>5. IF Strings(r) # <<>> THEN got' = Head(Strings(r)) ELSE got' = EmptyString
  <2> DEFINE u == Strings(r)
  <2>1. u \in Seq(Texts) /\ Len(u) = r.length
    BY <1>4
  <2> HIDE DEF u
  <2>2. CASE r.length >= 1
    <3>1. 1 \in 1 .. r.length
      BY <1>4, <2>2
    <3>2. u # <<>> /\ Head(u) = u[1]
      BY <2>1, <2>2
    <3>3. u[1] = r.slot[1]
      BY <3>1, <1>4 DEF u
    <3> QED
      BY <1>1, <2>2, <3>2, <3>3 DEF u
  <2>3. CASE ~(r.length >= 1)
    <3>1. r.length = 0
      BY <1>4, <2>3
    <3>2. u = <<>>
      BY <2>1, <3>1
    <3> QED
      BY <1>1, <2>3, <3>2 DEF u
  <2> QED
    BY <2>2, <2>3
<1>6. got' = IF k \in DOMAIN Map[Global] /\ Map[Global][k] # <<>> THEN Head(Map[Global][k])
             ELSE EmptyString
  <2>1. k \notin DOMAIN Map[Global] => Strings(r) = <<>>
    BY <1>3, EmptyArrays
  <2> QED
    BY <2>1, <1>3, <1>5
<1>7. Inv' /\ Strings(out') = Strings(out)
  BY <1>1, <1>2 DEF Inv
<1>8. Promise!GetFirst(Global, k)
  BY <1>2, <1>6, <1>7, Zenon DEF Promise!GetFirst, Map
<1> QED
  BY <1>7, <1>8

\* mapping_keys.
LEMMA KeysGiven ==
  ASSUME Inv, NEW t \in Tables, MapKeys(t)
  PROVE  Inv' /\ Promise!ListKeys(t)
<1>1. /\ out' \in Arrays(Texts)
      /\ ToSet(Strings(out')) = DOMAIN Map[t]
      /\ Len(Strings(out')) = Cardinality(DOMAIN Map[t])
  BY KeysListed DEF Inv
<1>2. UNCHANGED <<tableVars, keyless>> /\ got' = got /\ pimpl[t] # Null
  BY Zenon DEF MapKeys, Open
<1>3. TablesOK' /\ KeylessOK' /\ Map' = Map /\ Map[t] # Null
  BY <1>2, TablesSame, MapAt DEF Inv
<1>4. Inv'
  BY <1>1, <1>3 DEF Inv
<1>5. Promise!ListKeys(t)
  <2>1. \A S : Promise!Cardinality(S) = Cardinality(S)
    BY Zenon DEF Promise!Cardinality, Cardinality
  <2>2. \A u : Promise!ToSet(u) = ToSet(u)
    BY Zenon DEF Promise!ToSet, ToSet
  <2>3. /\ Promise!ToSet(Strings(out')) = DOMAIN Map[t]
        /\ Len(Strings(out')) = Promise!Cardinality(DOMAIN Map[t])
    BY <1>1, <2>1, <2>2, Zenon
  <2> QED
    BY <1>2, <1>3, <2>3, Zenon DEF Promise!ListKeys, Map
<1> QED
  BY <1>4, <1>5

\* The caller's own uses of its array.
LEMMA PushedOne ==
  ASSUME Inv, NEW string \in Single, OutPush(string) PROVE Inv' /\ Promise!Pushed
<1>1. out' = Push(out, string) /\ UNCHANGED <<tableVars, keyless>> /\ got' = got
  BY Zenon DEF OutPush
<1>2. TablesOK' /\ KeylessOK' /\ Map' = Map
  BY <1>1, TablesSame DEF Inv
<1>3. out' \in Arrays(Texts) /\ Strings(out') = Append(Strings(out), string)
  BY <1>1, PushAppends, Singles, TextsAreStrings DEF Inv
<1>4. Strings(out) \in Seq(Texts) /\ string \in Texts
  BY StringsSeq, Singles, TextsAreStrings DEF Inv
<1> DEFINE u == Strings(out)
           w == Strings(out')
<1>5. u \in Seq(Texts) /\ w = Append(u, string)
  BY <1>3, <1>4
<1> HIDE DEF u, w
<1>6. Len(w) = Len(u) + 1
  BY <1>4, <1>5
<1>7. SubSeq(w, 1, Len(w) - 1) = u
  <2>1. Len(w) - 1 = Len(u) /\ \A i \in 1 .. Len(u) : w[i] = u[i]
    BY <1>4, <1>5
  <2>2. SubSeq(w, 1, Len(u)) = [i \in 1 .. Len(u) |-> w[i]]
    BY <1>4, <1>5
  <2>3. u = [i \in 1 .. Len(u) |-> u[i]]
    BY <1>5
  <2> QED
    BY <2>1, <2>2, <2>3
<1>8. Inv'
  BY <1>2, <1>3 DEF Inv
<1>9. Promise!Pushed
  BY <1>1, <1>2, <1>6, <1>7, Zenon DEF Promise!Pushed, Promise!Front, Map, u, w
<1> QED
  BY <1>8, <1>9

\* A pop off it.
LEMMA PoppedOne ==
  ASSUME Inv, OutPop, out.length > 0 PROVE Inv' /\ Promise!PoppedOff
<1>1. got' = Popped(out) /\ out' = Pop(out) /\ UNCHANGED <<tableVars, keyless>>
  BY Zenon DEF OutPop
<1>2. TablesOK' /\ KeylessOK' /\ Map' = Map
  BY <1>1, TablesSame DEF Inv
<1>3. out' \in Arrays(Texts) /\ Strings(out) = Append(Strings(out'), got')
  BY <1>1, PopDropsLast, TextsAreStrings DEF Inv
<1>4. Strings(out') \in Seq(Texts) /\ Strings(out) \in Seq(Texts)
  BY <1>3, StringsSeq, TextsAreStrings DEF Inv
<1> DEFINE u == Strings(out')
           w == Strings(out)
<1>5. u \in Seq(Texts) /\ w = Append(u, got')
  BY <1>3, <1>4
<1> HIDE DEF u, w
<1>6. w # <<>> /\ w[Len(w)] = got' /\ Len(w) - 1 = Len(u)
  BY <1>5
<1>7. SubSeq(w, 1, Len(w) - 1) = u
  <2>1. \A i \in 1 .. Len(u) : w[i] = u[i]
    BY <1>5
  <2>2. SubSeq(w, 1, Len(u)) = [i \in 1 .. Len(u) |-> w[i]]
    BY <1>5
  <2>3. u = [i \in 1 .. Len(u) |-> u[i]]
    BY <1>5
  <2> QED
    BY <1>6, <2>1, <2>2, <2>3
<1>8. Inv'
  BY <1>2, <1>3 DEF Inv
<1>9. Promise!PoppedOff
  BY <1>2, <1>6, <1>7, Zenon DEF Promise!PoppedOff, Promise!Front, Promise!Last, Map, u, w
<1> QED
  BY <1>8, <1>9

\* A resize, or its release.
LEMMA ResizedTo ==
  ASSUME Inv, NEW n \in Nat, UNCHANGED <<tableVars, keyless>>, got' = got,
         out' = Resize(out, n) \/ (n = 0 /\ out' = NoStrings)
  PROVE  Inv' /\ Promise!Resized
<1>1. TablesOK' /\ KeylessOK' /\ Map' = Map
  BY TablesSame DEF Inv
<1>2. out' \in Arrays(Texts) /\ out'.length = n
  BY ResizeOwns, NoStringsArray, TextsAreStrings DEF Inv, Resize, NoStrings
<1> DEFINE u == Strings(out)
           w == Strings(out')
<1>3. /\ w \in Seq(Texts) /\ Len(w) = n /\ \A i \in 1 .. n : w[i] = out'.slot[i]
      /\ Len(u) = out.length /\ \A i \in 1 .. out.length : u[i] = out.slot[i]
      /\ out.length \in Nat
  BY <1>2, StringsSeq, TextsAreStrings DEF Inv, Arrays
<1>4. \A i \in 1 .. n : out'.slot[i] = IF i <= out.length THEN out.slot[i] ELSE EmptyString
  BY ResizeKeeps, TextsAreStrings DEF Inv
<1> HIDE DEF u, w
<1>5. \A i \in 1 .. n : w[i] = IF i <= Len(u) THEN u[i] ELSE EmptyString
  <2> TAKE i \in 1 .. n
  <2>1. i <= out.length => i \in 1 .. out.length
    BY <1>3
  <2> QED
    BY <2>1, <1>3, <1>4
<1>6. w = [i \in 1 .. Len(w) |-> IF i <= Len(u) THEN u[i] ELSE EmptyString]
  <2>1. w = [i \in 1 .. n |-> w[i]]
    BY <1>3
  <2> QED
    BY <2>1, <1>3, <1>5
<1>7. Inv'
  BY <1>1, <1>2 DEF Inv
<1>8. Promise!Resized
  BY <1>1, <1>6, Zenon DEF Promise!Resized, Map, u, w
<1> QED
  BY <1>7, <1>8

\* Steps that write none of this.
LEMMA Stands ==
  ASSUME Inv, UNCHANGED <<tableVars, keyless, out, got>> PROVE Inv'
<1>1. UNCHANGED <<tableVars, keyless>> /\ out' = out /\ got' = got
  BY Zenon
<1>2. TablesOK' /\ KeylessOK'
  BY <1>1, TablesSame DEF Inv
<1> QED
  BY <1>1, <1>2, TablesStep

\* The steps after which the program does not run on are beyond the promise.
LEMMA RunsOn == ASSUME Inv, Game \/ Other PROVE status' = "running" \/ Beyond
<1>1. Global \in Tables /\ Scratch \in Tables
  BY GameStateAssumption
<1>2. \A t \in Tables :
        /\ MapInit(t) \/ MapDeinit(t) \/ MapKeys(t) => status' = "running"
        /\ \A k \in Keys : MapDel(t, k) \/ MapFind(t, k) => status' = "running"
        /\ \A k \in Keys : \A v : MapIns(t, k, v) => status' = "running"
        /\ \A k \in Keys : KeysWild(t) \/ LookupWild(t, k) => Beyond
        /\ KeysWild(t) => Beyond
  BY Zenon DEF MapInit, MapDeinit, MapKeys, MapDel, MapFind, MapIns, Finds, Open, Beyond
<1>3. CASE Game
  <2>1. CASE Initialize \/ Shutdown \/ Clear
    BY <1>1, <1>2, <2>1, Zenon DEF Initialize, Shutdown, Clear, Open
  <2>2. CASE SaveOrLoad \/ CountriesPut
    BY <2>2, Zenon DEF SaveOrLoad, Beyond
  <2>3. ASSUME NEW k \in Keys, GlobalAget(k) \/ GlobalGet(k) \/ LookupWild(Global, k)
        PROVE  status' = "running" \/ Beyond
    BY <1>1, <1>2, <2>3, Zenon DEF GlobalAget, GlobalGet, Finds, Open
  <2>4. ASSUME NEW k \in Keys, NEW v \in Values, GlobalAput(k, v) PROVE status' = "running"
    BY <1>1, <1>2, <2>4, Zenon DEF GlobalAput
  <2>5. ASSUME NEW k \in Keys, NEW string \in Single, GlobalPut(k, string)
        PROVE  status' = "running"
    BY <1>1, <1>2, <2>5, Zenon DEF GlobalPut
  <2> QED
    BY <1>3, <2>1, <2>2, <2>3, <2>4, <2>5, Zenon DEF Game
<1>4. CASE Other
  <2>1. CASE OutPop
    <3>1. out.length > 0 \/ out.length = 0
      BY DEF Inv, Arrays
    <3> QED
      BY <2>1, <3>1, Zenon DEF OutPop, Beyond
  <2>2. CASE OutRenew \/ (\E string \in Single : OutPush(string))
             \/ (\E length \in 0 .. MaxLength : OutResize(length))
    BY <2>2, Zenon DEF OutRenew, OutPush, OutResize
  <2> QED
    BY <1>1, <1>2, <1>4, <2>1, <2>2, Zenon DEF Other
<1> QED
  BY <1>3, <1>4

\* The step of the game, of the other client and of the end.
LEMMA GameStep == ASSUME Inv, Game PROVE Inv' /\ (Promise!Next \/ Beyond)
<1>0. Global \in Tables
  BY GameStateAssumption
<1>1. CASE Initialize
  BY <1>0, <1>1, Creates, Zenon DEF Initialize, Promise!Next
<1>2. CASE Shutdown
  BY <1>0, <1>2, Destroys, Zenon DEF Shutdown, Promise!Next
<1>3. CASE Clear
  BY <1>0, <1>3, Renews, Zenon DEF Promise!Next
<1>4. CASE SaveOrLoad \/ CountriesPut \/ \E k \in Keys : LookupWild(Global, k)
  <2>1. UNCHANGED <<tableVars, keyless, out, got>>
    BY <1>4, Zenon DEF SaveOrLoad, CountriesPut, LookupWild
  <2>2. Beyond
    BY <1>0, <1>4, Zenon DEF SaveOrLoad, Beyond
  <2> QED
    BY <2>1, <2>2, Stands
<1>5. ASSUME NEW k \in Keys, GlobalAget(k) PROVE Inv' /\ Promise!Next
  <2>1. /\ pimpl[Global] # Null /\ out' = FindInto(Global, k, Emptied(out))
        /\ UNCHANGED <<tableVars, keyless>> /\ got' = got
    BY <1>5, Zenon DEF GlobalAget, Finds, Open
  <2>2. Emptied(out) \in {out, Emptied(out)}
    OBVIOUS
  <2>3. Inv' /\ Promise!Get(Global, k)
    BY <1>0, <2>1, <2>2, Found
  <2> QED
    BY <1>0, <2>3, Zenon DEF Promise!Next
<1>6. ASSUME NEW k \in Keys, GlobalGet(k) PROVE Inv' /\ Promise!Next
  BY <1>0, <1>6, GetsFirst, Zenon DEF Promise!Next
<1>7. ASSUME NEW k \in Keys, NEW v \in Values, GlobalAput(k, v) PROVE Inv' /\ Promise!Next
  BY <1>0, <1>7, Inserted, Zenon DEF GlobalAput, Promise!Next
<1>8. ASSUME NEW k \in Keys, NEW string \in Single, GlobalPut(k, string)
      PROVE  Inv' /\ Promise!Next
  <2>1. <<string>> \in Values /\ MapIns(Global, k, <<string>>)
    BY <1>8, Singles DEF GlobalPut
  <2> QED
    BY <1>0, <2>1, Inserted, Zenon DEF Promise!Next
<1> QED
  BY <1>1, <1>2, <1>3, <1>4, <1>5, <1>6, <1>7, <1>8, Zenon DEF Game

\* The steps of the other callers.
LEMMA OtherStep == ASSUME Inv, Other PROVE Inv' /\ (Promise!Next \/ Beyond)
<1>0. Scratch \in Tables
  BY GameStateAssumption
<1>1. CASE MapInit(Scratch)
  BY <1>0, <1>1, Creates, Zenon DEF Promise!Next
<1>2. CASE MapDeinit(Scratch)
  BY <1>0, <1>2, Destroys, Zenon DEF Promise!Next
<1>3. CASE MapKeys(Scratch)
  BY <1>0, <1>3, KeysGiven, Zenon DEF Promise!Next
<1>4. CASE KeysWild(Scratch) \/ \E k \in Keys : LookupWild(Scratch, k)
  <2>1. UNCHANGED <<tableVars, keyless, out, got>>
    BY <1>4, Zenon DEF KeysWild, LookupWild
  <2>2. Beyond
    BY <1>0, <1>4, Zenon DEF Beyond
  <2> QED
    BY <2>1, <2>2, Stands
<1>5. ASSUME NEW k \in Keys, MapDel(Scratch, k) PROVE Inv' /\ Promise!Next
  BY <1>0, <1>5, Deleted, Zenon DEF Promise!Next
<1>6. ASSUME NEW k \in Keys, MapFind(Scratch, k) PROVE Inv' /\ Promise!Next
  <2>1. /\ pimpl[Scratch] # Null /\ out' = FindInto(Scratch, k, out)
        /\ UNCHANGED <<tableVars, keyless>> /\ got' = got
    BY <1>6, Zenon DEF MapFind, Finds, Open
  <2>2. out \in {out, Emptied(out)}
    OBVIOUS
  <2>3. Inv' /\ Promise!Get(Scratch, k)
    BY <1>0, <2>1, <2>2, Found
  <2> QED
    BY <1>0, <2>3, Zenon DEF Promise!Next
<1>7. ASSUME NEW k \in Keys, NEW v \in Values, MapIns(Scratch, k, v)
      PROVE  Inv' /\ Promise!Next
  BY <1>0, <1>7, Inserted, Zenon DEF Promise!Next
<1>8. ASSUME NEW string \in Single, OutPush(string) PROVE Inv' /\ Promise!Next
  BY <1>8, PushedOne, Zenon DEF Promise!Next
<1>9. ASSUME NEW n \in 0 .. MaxLength, OutResize(n) PROVE Inv' /\ Promise!Next
  <2>1. n \in Nat /\ out' = Resize(out, n) /\ UNCHANGED <<tableVars, keyless>> /\ got' = got
    BY <1>9, MappingAssumption DEF OutResize
  <2>2. Inv' /\ Promise!Resized
    BY <2>1, ResizedTo
  <2> QED
    BY <2>2, Zenon DEF Promise!Next
<1>10. CASE OutRenew
  <2>1. out' = NoStrings /\ UNCHANGED <<tableVars, keyless>> /\ got' = got
    BY <1>10, Zenon DEF OutRenew
  <2>2. Inv' /\ Promise!Resized
    <3>1. 0 \in Nat
      OBVIOUS
    <3> QED
      BY <2>1, <3>1, ResizedTo
  <2> QED
    BY <2>2, Zenon DEF Promise!Next
<1>11. CASE OutPop
  <2>1. CASE out.length > 0
    BY <1>11, <2>1, PoppedOne, Zenon DEF Promise!Next
  <2>2. CASE ~(out.length > 0)
    <3>1. UNCHANGED <<tableVars, keyless, out, got>>
      BY <1>11, <2>2, Zenon DEF OutPop
    <3>2. out.length = 0
      BY <2>2 DEF Inv, Arrays
    <3> QED
      BY <1>11, <3>1, <3>2, Stands, Zenon DEF Beyond
  <2> QED
    BY <2>1, <2>2
<1> QED
  BY <1>1, <1>2, <1>3, <1>4, <1>5, <1>6, <1>7, <1>8, <1>9, <1>10, <1>11, Zenon DEF Other

\* What a step does of what is promised.
Answers == status' = "running" /\ [Promise!Next]_Promise!vars

\* Every step.
LEMMA EveryStep ==
  ASSUME Inv, [Next]_mappingVars PROVE Inv' /\ [Answers \/ Beyond]_mappingVars
<1>1. CASE UNCHANGED mappingVars
  <2>1. UNCHANGED <<tableVars, keyless, out, got>>
    BY <1>1, Zenon DEF mappingVars
  <2> QED
    BY <1>1, <2>1, Stands
<1>2. CASE Memory
  <2>1. UNCHANGED <<tableVars, keyless, out, got>> /\ status' = "aborted"
    BY <1>2, Zenon DEF Memory, NoMemory
  <2> QED
    BY <2>1, Stands, Zenon DEF Beyond
<1>3. CASE Ended
  BY <1>1, <1>3, Zenon DEF Ended
<1>4. CASE Game \/ Other
  <2>1. Inv' /\ (Promise!Next \/ Beyond)
    BY <1>4, GameStep, OtherStep
  <2>2. status' = "running" \/ Beyond
    BY <1>4, RunsOn
  <2> QED
    BY <2>1, <2>2, Zenon DEF Answers
<1> QED
  BY <1>1, <1>2, <1>3, <1>4, Zenon DEF Next

\* Nothing is initialized at the start.
LEMMA Begins == Init => Inv /\ Map = [t \in Tables |-> Null] /\ Strings(out) = <<>>
<1> SUFFICES ASSUME Init
             PROVE  Inv /\ Map = [t \in Tables |-> Null] /\ Strings(out) = <<>>
  OBVIOUS
<1>1. /\ pimpl = [t \in Tables |-> Null] /\ node = [n \in Nodes |-> Blank]
      /\ live = {} /\ keyless = {} /\ out = NoStrings
  BY DEF Init, MappingInit
<1>2. node \in Allocs /\ pimpl \in Pimpls
  <2>1. Blank \in Cells
    BY DEF Blank, Cells
  <2> QED
    BY <1>1, <2>1 DEF Allocs, Pimpls
<1>3. \E rows : Rowed(rows, pimpl, node, live)
  <2> DEFINE rows == [t \in Tables |-> EmptyRow]
  <2>1. rows \in [Tables -> Rows] /\ \A t \in Tables : Held(rows[t]) = {}
    BY EmptyRowHolds
  <2> HIDE DEF rows
  <2>2. Rowed(rows, pimpl, node, live)
    BY <1>1, <2>1 DEF Rowed
  <2> QED
    BY <2>2
<1>4. TablesOK
  BY <1>1, <1>2, <1>3 DEF TablesOK
<1>5. \A t \in Tables : Contents(t) = Null
  BY <1>1, AtPlaces
<1> QED
  BY <1>1, <1>4, <1>5, EmptyArrays DEF Inv, KeylessOK, Map

\* The invariant holds of every run.
LEMMA Invariant == Spec => []Inv
<1>1. Init => Inv
  BY Begins
<1>2. Inv /\ [Next]_mappingVars => Inv'
  BY EveryStep
<1> QED
  BY <1>1, <1>2, PTL DEF Spec

\* The caller's array owns its strings and no others, however it is resized,
\* pushed to, popped from and filled by the mappings (austr.c, mapping.c).
THEOREM ArrayStaysOwned == Spec => []ArrayOwns
<1>1. Inv => ArrayOwns
  BY DEF Inv, Arrays, ArrayOwns
<1> QED
  BY <1>1, Invariant, PTL

\* No node is lost or in two places, every chain ends, every key is in its
\* own chain once, and a node whose key could not be copied is the last of its
\* chain, for every hash and every number of buckets (mapping.c).
THEOREM ChainsStaySound == Spec => []ChainsSound
<1>1. Inv => ChainsSound
  BY RowsAreSound DEF Inv
<1> QED
  BY <1>1, Invariant, PTL

\* The mappings of the game are the functions that stringutils.h promises to
\* callers that pass no null value: each call writes under its own key of its
\* own table, and what is found is what was written last, unless the call does
\* not come to its end in one of the ways that Beyond names (mapping.c,
\* gamestate.c).
THEOREM PromiseKept == Spec => KeepsPromise
<1>1. Init => Promise!Init
  BY Begins, Zenon DEF Promise!Init, Map, Init, MappingInit
<1>2. Inv /\ [Next]_mappingVars => [Answers \/ Beyond]_mappingVars
  BY EveryStep
<1> QED
  BY <1>1, <1>2, Invariant, PTL DEF Spec, KeepsPromise, Answers
=============================================================================
