----------------------------- MODULE UstrProofs -----------------------------
(***************************************************************************)
(* No call of the string library uses memory that is not the library's,    *)
(* loses or drops a block that somebody holds, or puts more into a block   *)
(* than it has room for: for every number of handles, blocks and           *)
(* configurations, every text, and an allocator that refuses or moves what *)
(* it likes.                                                               *)
(*                                                                         *)
(* A state of a call is Good when every place holds what it should and     *)
(* counts the handles that hold it, with those in the hands of the call;   *)
(* Post says what a call leaves alone beside that, and Got what it makes.  *)
(* Each function of the library takes a good state to good ones, so that   *)
(* each action of the program keeps the invariant IInv.                    *)
(***************************************************************************)
EXTENDS Ustr, Induction, FiniteSetTheorems

-----------------------------------------------------------------------------
(* Sizes *)

\* A field of more bytes holds more numbers.
LEMMA SquareGrows ==
  ASSUME NEW n \in Nat, n >= 1
  PROVE  Square(n) \in Nat /\ Square(n) >= n
<1>1. n * n \in Nat
  OBVIOUS
<1>2. n * n >= n
  OBVIOUS
<1> QED
  BY <1>1, <1>2 DEF Square

\* What fields of one, two and four bytes hold.
LEMMA ValuesGrow ==
  ASSUME NEW base \in Nat, base >= 2
  PROVE  /\ \A w \in Widths : Values(base, w) \in Nat \ {0}
         /\ \A w \in Widths \ {0} : Values(base, w) >= 2
         /\ Values(base, 1) = base
         /\ Values(base, 1) <= Values(base, 2)
         /\ Values(base, 2) <= Values(base, 4)
<1>1. Square(base) \in Nat /\ Square(base) >= base
  BY SquareGrows
<1>2. Square(Square(base)) \in Nat /\ Square(Square(base)) >= Square(base)
  BY <1>1, SquareGrows
<1>3. Square(Square(Square(base))) \in Nat /\ Square(Square(Square(base))) >= Square(Square(base))
  BY <1>1, <1>2, SquareGrows
<1> QED
  BY <1>1, <1>2, <1>3 DEF Values, Widths

\* The bytes a number needs.
LEMMA NbFacts ==
  ASSUME NEW num \in Nat
  PROVE  /\ Nb(num) \in {1, 2, 4, 8}
         /\ num < Values(Radix, 2) <=> Nb(num) <= 2
         /\ \A n \in Nat : n <= num => Nb(n) <= Nb(num)
<1> DEFINE R1 == Radix
           R2 == Values(Radix, 2)
           R4 == Values(Radix, 4)
<1>1. R1 \in Nat /\ R2 \in Nat /\ R4 \in Nat /\ R1 <= R2 /\ R2 <= R4
  BY ValuesGrow, RadixAssumption DEF Widths
<1>2. \A n \in Nat : Nb(n) = IF n >= R4 THEN 8 ELSE IF n >= R2 THEN 4 ELSE IF n >= R1 THEN 2 ELSE 1
  BY <1>1 DEF Nb
<1> HIDE DEF R1, R2, R4
<1>3. /\ Nb(num) \in {1, 2, 4, 8}
      /\ num < R2 <=> Nb(num) <= 2
      /\ \A n \in Nat : n <= num => Nb(n) <= Nb(num)
  BY <1>1, <1>2
<1> QED
  BY <1>3 DEF R2

\* The sizes of blocks double from 4 on.
LEMMA DoubledFacts ==
  ASSUME NEW num \in Nat
  PROVE  /\ Doubled(num) \in [0 .. num -> Nat]
         /\ Doubled(num)[0] = 4
         /\ \A k \in 1 .. num : Doubled(num)[k] = 2 * Doubled(num)[k - 1]
         /\ \A k \in 0 .. num : Doubled(num)[k] >= k + 4
<1> DEFINE F(f) == f = [k \in 0 .. num |-> IF k = 0 THEN 4 ELSE 2 * f[k - 1]]
           step == [k \in 1 .. num |-> [n \in Nat |-> 2 * n]]
           d == Doubled(num)
<1>1. \E f : F(f)
  <2>1. step \in Steps(num, Nat)
    BY DEF Steps
  <2>2. PICK g : Iterates(g, 4, num, step, Nat)
    <3> HIDE DEF step
    <3> QED
      BY <2>1, Iteration
  <2>3. g \in [0 .. num -> Nat] /\ g[0] = 4
    BY <2>2 DEF Iterates
  <2>4. \A k \in 1 .. num : g[k] = 2 * g[k - 1]
    <3> TAKE k \in 1 .. num
    <3>1. g[k] = step[k][g[k - 1]] /\ g[k - 1] \in Nat
      <4>1. k - 1 \in 0 .. num
        OBVIOUS
      <4> QED
        BY <4>1, <2>2, <2>3 DEF Iterates
    <3> QED
      BY <3>1
  <2>5. F(g)
    BY <2>3, <2>4
  <2> QED
    BY <2>5
<1>2. d = CHOOSE f : F(f)
  BY DEF Doubled
<1>3. F(d)
  BY <1>1, <1>2
<1> HIDE DEF d
<1>4. d[0] = 4 /\ \A k \in 1 .. num : d[k] = 2 * d[k - 1]
  BY <1>3
<1> DEFINE T == {k \in 0 .. num : d[k] \in Nat /\ d[k] >= k + 4}
<1>5. 0 \in T
  BY <1>4
<1>6. \A k \in 0 .. num - 1 : k \in T => k + 1 \in T
  <2> SUFFICES ASSUME NEW k \in 0 .. num - 1, k \in T PROVE k + 1 \in T
    OBVIOUS
  <2>1. k + 1 \in 1 .. num /\ (k + 1) - 1 = k
    OBVIOUS
  <2>2. d[k + 1] = 2 * d[k]
    BY <2>1, <1>4
  <2> QED
    BY <2>1, <2>2
<1> HIDE DEF T
<1>7. 0 .. num \subseteq T
  BY <1>5, <1>6, UpTo
<1>8. \A k \in 0 .. num : d[k] \in Nat /\ d[k] >= k + 4
  BY <1>7 DEF T
<1>9. d \in [0 .. num -> Nat]
  BY <1>3, <1>8
<1> QED
  BY <1>4, <1>8, <1>9 DEF d

\* The sizes 4, 8, 16, ... do not depend on how many are listed.
LEMMA DoubledAgree ==
  ASSUME NEW m \in Nat, NEW n \in Nat, m <= n
  PROVE  \A k \in 0 .. m : Doubled(m)[k] = Doubled(n)[k]
<1> DEFINE T == {k \in 0 .. m : Doubled(m)[k] = Doubled(n)[k]}
<1>1. 0 \in T
  <2>1. Doubled(m)[0] = 4 /\ Doubled(n)[0] = 4
    BY DoubledFacts
  <2> QED
    BY <2>1
<1>2. \A k \in 0 .. m - 1 : k \in T => k + 1 \in T
  <2> SUFFICES ASSUME NEW k \in 0 .. m - 1, k \in T PROVE k + 1 \in T
    OBVIOUS
  <2>1. k + 1 \in 1 .. m /\ k + 1 \in 1 .. n /\ (k + 1) - 1 = k
    OBVIOUS
  <2>2. Doubled(m)[k + 1] = 2 * Doubled(m)[k] /\ Doubled(n)[k + 1] = 2 * Doubled(n)[k]
    BY <2>1, DoubledFacts
  <2> QED
    BY <2>1, <2>2
<1> HIDE DEF T
<1>3. 0 .. m \subseteq T
  BY <1>1, <1>2, UpTo
<1> QED
  BY <1>3 DEF T

\* Later sizes are larger.
LEMMA DoubledGrows ==
  ASSUME NEW n \in Nat, NEW i \in 0 .. n, NEW j \in 0 .. n, i <= j
  PROVE  Doubled(n)[i] <= Doubled(n)[j]
<1> DEFINE d == Doubled(n)
           T == {k \in i .. n : d[i] <= d[k]}
<1>1. /\ d \in [0 .. n -> Nat]
      /\ \A k \in 1 .. n : d[k] = 2 * d[k - 1]
  BY DoubledFacts
<1> HIDE DEF d
<1>2. i \in T
  BY <1>1
<1>3. \A k \in i .. n - 1 : k \in T => k + 1 \in T
  <2> SUFFICES ASSUME NEW k \in i .. n - 1, k \in T PROVE k + 1 \in T
    OBVIOUS
  <2>1. k + 1 \in 1 .. n /\ (k + 1) - 1 = k /\ k \in 0 .. n /\ k + 1 \in i .. n
    OBVIOUS
  <2>2. d[k + 1] = 2 * d[k] /\ d[k] \in Nat /\ d[i] \in Nat /\ d[i] <= d[k]
    BY <2>1, <1>1
  <2> QED
    BY <2>1, <2>2
<1> HIDE DEF T
<1>4. i .. n \subseteq T
  BY <1>2, <1>3, FromTo
<1> QED
  BY <1>4 DEF T, d

\* The size of a block holds what it is for, and more does not get less.
LEMMA NsFacts ==
  ASSUME NEW num \in Nat
  PROVE  /\ Ns(num) \in Nat /\ Ns(num) >= num
         /\ \E k \in 0 .. num : LET s == Doubled(num)[k] IN Ns(num) \in {s, s + s \div 2}
         /\ \A g \in Grades(num) : g >= num => Ns(num) <= g
<1> DEFINE d == Doubled(num)
           S == {g \in Grades(num) : g >= num}
<1>1. d \in [0 .. num -> Nat] /\ d[num] >= num + 4
  <2>1. /\ d \in [0 .. num -> Nat]
        /\ \A k \in 0 .. num : d[k] >= k + 4
    BY DoubledFacts
  <2> QED
    BY <2>1
<1>2. Grades(num) = UNION {{s, s + s \div 2} : s \in {d[k] : k \in 0 .. num}}
  BY DEF Grades
<1> HIDE DEF d
<1>3. Grades(num) \subseteq Nat
  BY <1>1, <1>2
<1>4. d[num] \in Grades(num)
  BY <1>2
<1>5. S \in SUBSET Nat /\ S # {}
  BY <1>1, <1>3, <1>4
<1>6. \E x \in S : \A y \in S : x <= y
  <2> HIDE DEF S
  <2> QED
    BY <1>5, Least
<1>7. Ns(num) = CHOOSE x \in S : \A y \in S : x <= y
  BY DEF Ns, Min
<1>8. Ns(num) \in S /\ \A y \in S : Ns(num) <= y
  BY <1>6, <1>7
<1>9. \E k \in 0 .. num : Ns(num) \in {d[k], d[k] + d[k] \div 2}
  BY <1>2, <1>8
<1> QED
  BY <1>3, <1>8, <1>9 DEF d

\* More bytes never get a smaller block.
LEMMA NsGrows ==
  ASSUME NEW m \in Nat, NEW n \in Nat, m <= n
  PROVE  Ns(m) <= Ns(n)
<1>1. PICK k \in 0 .. n : Ns(n) \in {Doubled(n)[k], Doubled(n)[k] + Doubled(n)[k] \div 2}
  BY NsFacts
<1>2. Ns(n) \in Nat /\ Ns(n) >= n /\ Ns(m) \in Nat
  BY NsFacts
<1>3. Doubled(n)[k] \in Nat
  BY DoubledFacts
<1>4. CASE k <= m
  <2>1. Doubled(m)[k] = Doubled(n)[k] /\ k \in 0 .. m
    BY <1>4, DoubledAgree
  <2>2. Ns(n) \in Grades(m)
    BY <1>1, <2>1 DEF Grades
  <2> QED
    BY <1>2, <2>2, NsFacts
<1>5. CASE k > m
  <2>1. Doubled(m)[m] = Doubled(n)[m] /\ m \in 0 .. n
    BY DoubledAgree
  <2>2. Doubled(n)[m] <= Doubled(n)[k]
    BY <2>1, <1>5, DoubledGrows
  <2>3. Doubled(m)[m] >= m + 4 /\ Doubled(m)[m] \in Nat
    BY DoubledFacts
  <2>4. Doubled(m)[m] \in Grades(m)
    BY DEF Grades
  <2>5. Ns(m) <= Doubled(m)[m]
    BY <2>3, <2>4, NsFacts
  <2> QED
    BY <1>1, <1>2, <1>3, <2>1, <2>2, <2>3, <2>5
<1> QED
  BY <1>4, <1>5

\* A graded size is large enough.
LEMMA GradedFacts ==
  ASSUME NEW exact \in BOOLEAN, NEW m \in Nat, NEW n \in Nat, m <= n
  PROVE  /\ Graded(exact, n) \in Nat /\ Graded(exact, n) >= n
         /\ Graded(exact, m) <= Graded(exact, n)
BY NsFacts, NsGrows DEF Graded

-----------------------------------------------------------------------------
(* Texts *)

IsText(t) == \E S : t \in Seq(S)

\* A function on 1 .. n is a text of n characters.
LEMMA TextOfFunction ==
  ASSUME NEW n \in Nat, NEW f, f = [i \in 1 .. n |-> f[i]]
  PROVE  IsText(f) /\ Len(f) = n
<1> DEFINE S == {f[i] : i \in 1 .. n}
<1>1. f \in [1 .. n -> S]
  OBVIOUS
<1>2. f \in Seq(S)
  BY <1>1
<1>3. IsText(f)
  BY <1>2 DEF IsText
<1>4. Len(f) = n
  BY <1>1
<1> QED
  BY <1>3, <1>4

\* A text is a function on its positions.
LEMMA TextIsFunction ==
  ASSUME NEW t, IsText(t)
  PROVE  Len(t) \in Nat /\ t = [i \in 1 .. Len(t) |-> t[i]]
<1>1. PICK S : t \in Seq(S)
  BY DEF IsText
<1> QED
  BY <1>1

\* Characters nobody wrote are a text.
LEMMA JunksText ==
  ASSUME NEW n \in Int
  PROVE  IsText(Junks(n)) /\ Len(Junks(n)) = IF n < 0 THEN 0 ELSE n
<1>1. CASE n \in Nat
  <2>1. Junks(n) = [i \in 1 .. n |-> Junks(n)[i]]
    BY DEF Junks
  <2> QED
    BY <1>1, <2>1, TextOfFunction
<1>2. CASE n < 0
  <2>1. 1 .. n = 1 .. 0
    BY <1>2
  <2>2. Junks(n) = [i \in 1 .. 0 |-> Junks(n)[i]]
    BY <2>1 DEF Junks
  <2> QED
    BY <1>2, <2>2, TextOfFunction
<1> QED
  BY <1>1, <1>2

\* A repeated character is a text.
LEMMA RepText ==
  ASSUME NEW chr, NEW n \in Nat
  PROVE  IsText(Rep(chr, n)) /\ Len(Rep(chr, n)) = n
<1>1. Rep(chr, n) = [i \in 1 .. n |-> Rep(chr, n)[i]]
  BY DEF Rep
<1> QED
  BY <1>1, TextOfFunction

\* A part of a text is a text.
LEMMA SliceText ==
  ASSUME NEW t, IsText(t), NEW off \in Nat, NEW len \in Int, off + len <= Len(t)
  PROVE  IsText(Slice(t, off, len)) /\ Len(Slice(t, off, len)) = IF len < 0 THEN 0 ELSE len
<1>1. PICK S : t \in Seq(S)
  BY DEF IsText
<1>2. Len(t) \in Nat
  BY <1>1
<1>3. \A i \in off + 1 .. off + len : i \in 1 .. Len(t)
  BY <1>2
<1>4. SubSeq(t, off + 1, off + len) \in Seq(S)
  BY <1>1, <1>3
<1>5. Len(SubSeq(t, off + 1, off + len)) = IF len < 0 THEN 0 ELSE len
  <2>1. CASE off + 1 <= off + len
    BY <1>1, <1>3, <2>1
  <2>2. CASE ~(off + 1 <= off + len)
    BY <1>1, <2>2
  <2> QED
    BY <2>1, <2>2
<1> QED
  BY <1>4, <1>5 DEF IsText, Slice

\* Two texts in a row are a text.
LEMMA JoinText ==
  ASSUME NEW t, NEW u, IsText(t), IsText(u)
  PROVE  IsText(t \o u) /\ Len(t \o u) = Len(t) + Len(u)
<1>1. PICK S : t \in Seq(S)
  BY DEF IsText
<1>2. PICK T : u \in Seq(T)
  BY DEF IsText
<1>3. t \in Seq(S \cup T) /\ u \in Seq(S \cup T)
  BY <1>1, <1>2
<1>4. t \o u \in Seq(S \cup T)
  BY <1>3
<1>5. Len(t \o u) = Len(t) + Len(u)
  BY <1>3
<1> QED
  BY <1>4, <1>5 DEF IsText

\* The empty text has no characters.
LEMMA EmptyText ==
  /\ IsText(<<>>) /\ Len(<<>>) = 0
  /\ \A t : IsText(t) => (t = <<>> <=> Len(t) = 0)
<1>1. <<>> \in Seq({}) /\ Len(<<>>) = 0
  OBVIOUS
<1>2. ASSUME NEW t, IsText(t) PROVE t = <<>> <=> Len(t) = 0
  <2>1. PICK S : t \in Seq(S)
    BY <1>2 DEF IsText
  <2> QED
    BY <2>1
<1> QED
  BY <1>1, <1>2 DEF IsText

-----------------------------------------------------------------------------
(* Sound blocks *)

\* The types of the parts of a block.
IsBlock(b) ==
  /\ b \in [kind : Kinds, sized : BOOLEAN, exact : BOOLEAN, emem : BOOLEAN, rb : Widths,
            lb : Widths \ {0}, ref : Nat, sz : Nat, room : Nat, text : {b.text}]
  /\ IsText(b.text)
  /\ b.kind = "fixed" => b.sized /\ Nb(b.sz) <= b.lb

\* The configuration a block was made with.
OwnConf(b) == [sz |-> b.sz, rb |-> b.rb, exact |-> b.exact, emem |-> b.emem]

\* A block that is as the library makes them.
SoundBlock(b) ==
  /\ IsBlock(b)
  /\ b.kind # "raw"
  /\ Len(b.text) <= MaxLen
  /\ b.kind \in {"alloc", "fixed"} => RoomFor(b)
  /\ b.kind = "alloc" => /\ FitsConf(OwnConf(b)) /\ b.sized = Sized(OwnConf(b))
                         /\ b.sized => b.lb = 2

\* The block counts n holders (CountsMatchHolders).
CountOK(b, n) ==
  CASE b.kind = "free"               -> n = 0
    [] b.kind = "alloc" /\ b.rb = 0 -> n = 1
    [] b.kind = "alloc" /\ b.rb > 0 -> b.ref \in {0, n} /\ b.ref <= RefLimit(b)
    [] OTHER -> FALSE

\* The longest text is a number of characters.
LEMMA MaxLenNat == MaxLen \in Nat
  BY UstrAssumption

\* What a header with these fields takes.
LEMMA HeadAndTailNat ==
  ASSUME NEW rb \in Widths, NEW lb \in Widths, NEW fields \in {1, 2}
  PROVE  /\ HeadAndTail(rb, lb, fields) \in Nat /\ HeadAndTail(rb, lb, fields) >= 2 + rb + lb
         /\ \A w \in Widths : w <= lb => HeadAndTail(rb, w, fields) <= HeadAndTail(rb, lb, fields)
<1>1. CASE fields = 1
  BY <1>1 DEF HeadAndTail, Widths
<1>2. CASE fields = 2
  BY <1>2 DEF HeadAndTail, Widths
<1> QED
  BY <1>1, <1>2

\* The width of the count a configuration asks for.
LEMMA RefWidthWidth ==
  ASSUME NEW k, IsConf(k)
  PROVE  RefWidth(k) \in Widths /\ RefWidth(k) >= k.rb /\ (Sized(k) => RefWidth(k) >= 2)
BY DEF IsConf, RefWidth, Larger, Widths

\* A new block is made as it should be.
LEMMA InitSizedSound ==
  ASSUME NEW k, FitsConf(k), Sized(k), NEW text, IsText(text), Len(text) <= MaxLen
  PROVE  LET b == InitAlloc(k, InitSize(k, Len(text)), text)
         IN  /\ SoundBlock(b) /\ b.kind = "alloc" /\ b.text = text
             /\ CountOK(b, 1) /\ Owner(b)
<1> DEFINE n == Len(text)
           rw == RefWidth(k)
           V2 == Values(Radix, 2)
           Needs(w) == HeadAndTail(rw, w, 2) + n
           rsz == Graded(k.exact, Needs(2))
           top == HeadAndTail(rw, 2, 2) + MaxLen
<1>1. /\ n \in Nat /\ n <= MaxLen /\ MaxLen \in Nat /\ IsConf(k) /\ k.exact \in BOOLEAN /\ k.sz \in Nat
      /\ k.emem \in BOOLEAN
      /\ rw \in Widths /\ rw >= 2
  BY TextIsFunction, MaxLenNat, RefWidthWidth DEF FitsConf, IsConf
<1>2. HeadAndTail(rw, 2, 2) = 6 + rw
  BY <1>1 DEF HeadAndTail, Widths
<1>3. /\ top \in Nat /\ Needs(2) \in Nat /\ Needs(2) <= top /\ n < top
      /\ Graded(k.exact, top) < V2 /\ k.sz < V2 /\ V2 \in Nat
  <2>1. Graded(k.exact, top) < V2 /\ k.sz < V2
    BY DEF FitsConf
  <2>2. V2 \in Nat
    BY RadixAssumption, ValuesGrow DEF Widths
  <2>3. /\ top \in Nat /\ Needs(2) \in Nat /\ Needs(2) <= top /\ n < top
    BY <1>1, <1>2 DEF Widths
  <2> QED
    BY <2>1, <2>2, <2>3
<1>4. /\ rsz \in Nat /\ rsz >= Needs(2) /\ rsz < V2 /\ top < V2
  <2>1. /\ Graded(k.exact, Needs(2)) \in Nat /\ Graded(k.exact, Needs(2)) >= Needs(2)
        /\ Graded(k.exact, Needs(2)) <= Graded(k.exact, top)
        /\ Graded(k.exact, top) >= top /\ Graded(k.exact, top) \in Nat
    <3> HIDE DEF Needs, top
    <3> QED
      BY <1>1, <1>3, GradedFacts
  <2> QED
    BY <2>1, <1>3
<1>5. Nb(n) <= 2 /\ Nb(k.sz) <= 2 /\ Nb(Needs(2)) <= 2 /\ Nb(rsz) <= 2
      /\ Nb(n) \in Nat /\ Nb(k.sz) \in Nat /\ Nb(rsz) \in Nat
  <2>1. n < V2 /\ Needs(2) < V2
    BY <1>1, <1>3, <1>4
  <2> HIDE DEF Needs, rsz, n
  <2>2. \A m \in Nat : m < V2 => Nb(m) <= 2 /\ Nb(m) \in Nat
    BY NbFacts
  <2> QED
    BY <1>1, <1>3, <1>4, <2>1, <2>2
<1>6. InitSize(k, n) = rsz
  <2> DEFINE first == LenWidth(k, IF k.sz # 0 THEN k.sz ELSE n)
             W == {w \in Widths : w >= first /\ Nb(Needs(w)) <= w}
  <2>1. first = 2
    BY <1>5 DEF LenWidth, Larger
  <2>2. 2 \in W /\ \A w \in W : 2 <= w
    BY <2>1, <1>5 DEF Widths
  <2>3. Min(W) = 2
    <3> HIDE DEF W
    <3>1. Min(W) = CHOOSE x \in W : \A y \in W : x <= y
      BY DEF Min
    <3>2. \A x \in W : (\A y \in W : x <= y) => x = 2
      <4>1. W \subseteq Int
        BY DEF W, Widths
      <4> QED
        BY <4>1, <2>2
    <3> QED
      BY <3>1, <3>2, <2>2
  <2> HIDE DEF W, first
  <2>4. InitSize(k, n) = Graded(k.exact, Needs(Min(W)))
    BY DEF InitSize, W, first, Fields
  <2> QED
    BY <2>3, <2>4
<1>7. LenWidth(k, rsz) = 2
  BY <1>5 DEF LenWidth, Larger
<1> DEFINE b == InitAlloc(k, rsz, text)
<1>8. b = [kind |-> "alloc", sized |-> TRUE, exact |-> k.exact, emem |-> k.emem, rb |-> rw,
           lb |-> 2, ref |-> 1, sz |-> rsz, room |-> rsz, text |-> text]
  <2>1. rsz >= HeadAndTail(rw, 2, 2) + n /\ rsz >= 6
    <3> HIDE DEF rsz
    <3> QED
      BY <1>1, <1>2, <1>4 DEF Widths
  <2>2. b = Block("alloc", k, rw, 2, IF rw = 0 THEN 0 ELSE 1, rsz, rsz, text)
    <3> HIDE DEF rsz
    <3>1. Fields(Sized(k)) = 2
      BY DEF Fields
    <3>2. /\ ~(rsz < 1 + 2 + 2 + 1)
          /\ ~(rsz < HeadAndTail(RefWidth(k), 2, 2) + Len(text))
      BY <2>1, <1>1, <1>4 DEF Widths, HeadAndTail
    <3> HIDE DEF rw
    <3> QED
      BY <1>7, <3>1, <3>2 DEF InitAlloc, rw
  <2>3. IF rw = 0 THEN FALSE ELSE TRUE
    BY <1>1
  <2> HIDE DEF rsz, rw
  <2> QED
    BY <2>2, <2>3 DEF Block, Sized
<1> HIDE DEF b, rsz
<1>9. IsBlock(b)
  BY <1>1, <1>4, <1>8 DEF IsBlock, Kinds, Widths
<1>10. RoomFor(b)
  <2>1. Overhead(b) = HeadAndTail(rw, 2, 2)
    BY <1>8 DEF Overhead, Ro, Fields
  <2>2. SizeAlloc(b) = rsz
    BY <1>8 DEF SizeAlloc
  <2> QED
    BY <2>1, <2>2, <1>4, <1>5, <1>8 DEF RoomFor
<1>11. FitsConf(OwnConf(b)) /\ b.sized = Sized(OwnConf(b))
  <2>1. OwnConf(b) = [sz |-> rsz, rb |-> rw, exact |-> k.exact, emem |-> k.emem]
    BY <1>8 DEF OwnConf
  <2>2. Sized(OwnConf(b)) /\ RefWidth(OwnConf(b)) = rw
    BY <2>1, <1>1, <1>2, <1>4 DEF Sized, RefWidth, Larger, Widths
  <2>3. IsConf(OwnConf(b))
    BY <2>1, <1>1, <1>4 DEF IsConf
  <2> QED
    BY <2>1, <2>2, <2>3, <1>3, <1>4, <1>8 DEF FitsConf
<1>12. CountOK(b, 1)
  <2>1. Values(RefRadix, rw) >= 2 /\ Values(RefRadix, rw) \in Nat
    BY <1>1, RadixAssumption, ValuesGrow
  <2>2. RefLimit(b) = Values(RefRadix, rw) - 1
    BY <1>8 DEF RefLimit
  <2>3. rw > 0
    BY <1>1 DEF Widths
  <2> QED
    BY <1>8, <2>1, <2>2, <2>3 DEF CountOK
<1>13. b.kind = "alloc" /\ b.text = text /\ b.lb = 2
  BY <1>8
<1>14. SoundBlock(b)
  BY <1>1, <1>9, <1>10, <1>11, <1>13 DEF SoundBlock
<1>15. b = InitAlloc(k, InitSize(k, Len(text)), text)
  BY <1>6 DEF b
<1>16. Owner(b)
  BY <1>8 DEF Owner, Alloc
<1> QED
  BY <1>12, <1>13, <1>14, <1>15, <1>16

\* A new block that does not store its size is sound.
LEMMA InitUnsizedSound ==
  ASSUME NEW k, FitsConf(k), ~Sized(k), NEW text, IsText(text), Len(text) <= MaxLen
  PROVE  LET b == InitAlloc(k, InitSize(k, Len(text)), text)
         IN  /\ SoundBlock(b) /\ b.kind = "alloc" /\ b.text = text
             /\ CountOK(b, 1) /\ Owner(b)
<1> DEFINE n == Len(text)
           rw == RefWidth(k)
           Needs(w) == HeadAndTail(rw, w, 1) + n
           W == {w \in Widths : w >= Nb(n) /\ Nb(Needs(w)) <= w}
           wide == Min(W)
           rsz == Graded(k.exact, Needs(wide))
<1>1. /\ n \in Nat /\ n <= MaxLen /\ IsConf(k) /\ k.exact \in BOOLEAN /\ k.sz = 0 /\ k.rb \in Widths
      /\ k.emem \in BOOLEAN /\ rw \in Widths /\ rw = k.rb /\ k.rb # 8
  BY TextIsFunction, RefWidthWidth DEF FitsConf, IsConf, Sized, RefWidth
<1>2. Nb(n) \in {1, 2, 4, 8}
  BY <1>1, NbFacts
<1>3. wide \in Widths /\ wide >= Nb(n)
  <2>1. 8 \in W
    <3>1. Needs(8) \in Nat
      <4>1. HeadAndTail(rw, 8, 1) \in Nat
        BY ZenonT(40), <1>1, HeadAndTailNat DEF Widths
      <4> QED
        BY <1>1, <4>1
    <3>2. Nb(Needs(8)) <= 8
      BY <3>1, NbFacts
    <3> QED
      BY <1>2, <3>2 DEF Widths
  <2>2. W \in SUBSET Nat
    BY DEF Widths
  <2> HIDE DEF W
  <2>3. \E x \in W : \A y \in W : x <= y
    BY <2>1, <2>2, Least
  <2>4. wide \in W
    BY <2>3 DEF Min
  <2> QED
    BY <2>4 DEF W
<1>4. InitSize(k, n) = rsz
  <2>1. LenWidth(k, n) = Nb(n)
    BY <1>2 DEF LenWidth, Larger
  <2> QED
    BY <1>1, <2>1 DEF InitSize, Fields
<1> HIDE DEF wide
<1>5. /\ Needs(wide) \in Nat /\ Needs(Nb(n)) \in Nat /\ Needs(Nb(n)) <= Needs(wide)
      /\ HeadAndTail(rw, Nb(n), 1) \in Nat
  <2>1. Nb(n) \in Widths
    BY <1>2 DEF Widths
  <2>2. /\ HeadAndTail(rw, wide, 1) \in Nat /\ HeadAndTail(rw, Nb(n), 1) \in Nat
        /\ HeadAndTail(rw, Nb(n), 1) <= HeadAndTail(rw, wide, 1)
    BY <1>1, <1>3, <2>1, HeadAndTailNat
  <2> QED
    BY <1>1, <2>2
<1>6. /\ rsz \in Nat /\ rsz >= Needs(wide)
      /\ Graded(k.exact, Needs(Nb(n))) <= rsz
  <2> HIDE DEF Needs
  <2> QED
    BY <1>1, <1>5, GradedFacts
<1>7. LenWidth(k, n) = Nb(n)
  BY <1>2 DEF LenWidth, Larger
<1> DEFINE b == InitAlloc(k, rsz, text)
<1>8. b = [kind |-> "alloc", sized |-> FALSE, exact |-> k.exact, emem |-> k.emem, rb |-> rw,
           lb |-> Nb(n), ref |-> IF rw = 0 THEN 0 ELSE 1, sz |-> 0, room |-> rsz, text |-> text]
  <2>1. rsz >= HeadAndTail(rw, Nb(n), 1) + n
    BY <1>5, <1>6
  <2>2. b = Block("alloc", k, rw, Nb(n), IF rw = 0 THEN 0 ELSE 1, 0, rsz, text)
    <3> HIDE DEF rsz
    <3> QED
      BY <1>7, <2>1, <1>1, <1>5, <1>6 DEF InitAlloc, Fields
  <2> QED
    BY <2>2, <1>1 DEF Block, Sized
<1> HIDE DEF b, rsz
<1>9. IsBlock(b)
  BY <1>1, <1>2, <1>6, <1>8 DEF IsBlock, Kinds, Widths
<1>10. RoomFor(b)
  <2>1. Overhead(b) = HeadAndTail(rw, Nb(n), 1)
    BY <1>8 DEF Overhead, Ro, Fields
  <2>2. SizeAlloc(b) = Graded(k.exact, Needs(Nb(n)))
    <3>1. n + Overhead(b) = Needs(Nb(n))
      BY <2>1, <1>1, <1>5
    <3> QED
      BY <1>8, <3>1 DEF SizeAlloc
  <2> QED
    BY <2>1, <2>2, <1>2, <1>5, <1>6, <1>8 DEF RoomFor
<1>11. FitsConf(OwnConf(b)) /\ b.sized = Sized(OwnConf(b))
  <2>1. OwnConf(b) = [sz |-> 0, rb |-> rw, exact |-> k.exact, emem |-> k.emem]
    BY <1>8 DEF OwnConf
  <2> QED
    BY <2>1, <1>1, <1>8 DEF FitsConf, IsConf, Sized
<1>12. CountOK(b, 1)
  <2>1. CASE rw = 0
    BY <1>8, <2>1 DEF CountOK
  <2>2. CASE rw # 0
    <3>1. Values(RefRadix, rw) >= 2 /\ Values(RefRadix, rw) \in Nat
      BY <1>1, <2>2, RadixAssumption, ValuesGrow
    <3>2. RefLimit(b) = Values(RefRadix, rw) - 1 /\ rw > 0
      BY <1>1, <1>8, <2>2 DEF RefLimit, Widths
    <3> QED
      BY <1>8, <3>1, <3>2 DEF CountOK
  <2> QED
    BY <2>1, <2>2
<1>13. b.kind = "alloc" /\ b.text = text /\ b.sized = FALSE
  BY <1>8
<1>14. SoundBlock(b)
  BY <1>1, <1>9, <1>10, <1>11, <1>13 DEF SoundBlock
<1>15. b = InitAlloc(k, InitSize(k, Len(text)), text)
  BY <1>4 DEF b
<1>16. Owner(b)
  BY <1>8 DEF Owner, Alloc
<1> QED
  BY <1>12, <1>13, <1>14, <1>15, <1>16

\* The parts of a block.
LEMMA BlockParts ==
  ASSUME NEW b, IsBlock(b)
  PROVE  /\ b.kind \in Kinds /\ b.sized \in BOOLEAN /\ b.exact \in BOOLEAN /\ b.emem \in BOOLEAN
         /\ b.rb \in Widths /\ b.lb \in Widths \ {0} /\ b.ref \in Nat /\ b.sz \in Nat
         /\ b.room \in Nat /\ IsText(b.text) /\ Len(b.text) \in Nat
BY TextIsFunction DEF IsBlock

\* The configuration of memory that is not a block.
LEMMA NoCfgParts ==
  /\ NoCfg.sz = 0 /\ NoCfg.rb = 0 /\ NoCfg.exact = TRUE /\ NoCfg.emem = FALSE
  /\ Sized(NoCfg) = FALSE
<1>1. NoCfg.sz = 0 /\ NoCfg.rb = 0 /\ NoCfg.exact = TRUE /\ NoCfg.emem = FALSE
  BY DEF NoCfg
<1>2. ~Sized(NoCfg)
  BY <1>1 DEF Sized
<1>3. Sized(NoCfg) \in BOOLEAN
  BY DEF Sized
<1> QED
  BY <1>1, <1>2, <1>3

\* Memory that was given back is sound.
LEMMA FreeSound == SoundBlock(FreeBlock) /\ FreeBlock.kind = "free"
<1>1. FreeBlock = [kind |-> "free", sized |-> FALSE, exact |-> TRUE, emem |-> FALSE, rb |-> 0,
                   lb |-> 1, ref |-> 0, sz |-> 0, room |-> 0, text |-> <<>>]
  BY NoCfgParts DEF FreeBlock, Block
<1>2. IsBlock(FreeBlock)
  BY <1>1, EmptyText DEF IsBlock, Kinds, Widths
<1> QED
  BY <1>1, <1>2, EmptyText, MaxLenNat DEF SoundBlock

\* A read only string is sound.
LEMMA RoSound ==
  ASSUME NEW text, IsText(text), Len(text) <= MaxLen
  PROVE  SoundBlock(RoBlock(text)) /\ Ro(RoBlock(text)) /\ RoBlock(text).text = text
<1>1. RoBlock(text) = [kind |-> "ro", sized |-> FALSE, exact |-> TRUE, emem |-> FALSE, rb |-> 0,
                   lb |-> 1, ref |-> 0, sz |-> 0, room |-> Len(text) + 3, text |-> text]
  BY NoCfgParts DEF RoBlock, Block
<1>2. Len(text) \in Nat
  BY TextIsFunction
<1>3. IsBlock(RoBlock(text))
  BY <1>1, <1>2 DEF IsBlock, Kinds, Widths
<1> QED
  BY <1>1, <1>3 DEF SoundBlock, Ro

\* The text of a block may become any text of the same length.
LEMMA SameLengthSound ==
  ASSUME NEW b, SoundBlock(b), NEW t, IsText(t), Len(t) = Len(b.text)
  PROVE  LET d == [b EXCEPT !.text = t]
         IN  /\ SoundBlock(d) /\ d.kind = b.kind /\ d.rb = b.rb /\ d.ref = b.ref /\ d.text = t
             /\ d.emem = b.emem
<1> DEFINE d == [b EXCEPT !.text = t]
<1>1. /\ IsBlock(b) /\ b.kind # "raw" /\ Len(b.text) <= MaxLen
      /\ b.kind \in {"alloc", "fixed"} => RoomFor(b)
      /\ b.kind = "alloc" => /\ FitsConf(OwnConf(b)) /\ b.sized = Sized(OwnConf(b))
                             /\ b.sized => b.lb = 2
  BY DEF SoundBlock
<1>2. IsBlock(d)
  BY <1>1 DEF IsBlock
<1>3. /\ d.kind = b.kind /\ d.sized = b.sized /\ d.exact = b.exact /\ d.rb = b.rb /\ d.lb = b.lb
      /\ d.ref = b.ref /\ d.sz = b.sz /\ d.room = b.room /\ d.text = t /\ d.emem = b.emem
  BY <1>1 DEF IsBlock
<1> HIDE DEF d
<1>4. OwnConf(d) = OwnConf(b)
  BY <1>3 DEF OwnConf
<1>5. ASSUME b.kind \in {"alloc", "fixed"} PROVE RoomFor(d)
  <2>1. RoomFor(b)
    BY <1>1, <1>5
  <2>2. Overhead(d) = Overhead(b) /\ SizeAlloc(d) = SizeAlloc(b)
    <3>1. Overhead(d) = Overhead(b)
      BY <1>3, <1>5 DEF Overhead, Ro
    <3> QED
      BY <1>3, <3>1 DEF SizeAlloc
  <2> QED
    BY <1>3, <2>1, <2>2 DEF RoomFor
<1>6. SoundBlock(d)
  BY <1>1, <1>2, <1>3, <1>4, <1>5 DEF SoundBlock
<1> QED
  BY <1>3, <1>6 DEF d

\* The error flag and the count say nothing of the room.
LEMMA FlagSound ==
  ASSUME NEW b, SoundBlock(b), NEW flag \in BOOLEAN
  PROVE  LET d == [b EXCEPT !.emem = flag]
         IN  SoundBlock(d) /\ d.kind = b.kind /\ d.rb = b.rb /\ d.ref = b.ref /\ d.text = b.text
<1> DEFINE d == [b EXCEPT !.emem = flag]
<1>1. /\ IsBlock(b) /\ b.kind # "raw" /\ Len(b.text) <= MaxLen
      /\ b.kind \in {"alloc", "fixed"} => RoomFor(b)
      /\ b.kind = "alloc" => /\ FitsConf(OwnConf(b)) /\ b.sized = Sized(OwnConf(b))
                             /\ b.sized => b.lb = 2
  BY DEF SoundBlock
<1>2. IsBlock(d)
  BY <1>1 DEF IsBlock
<1>3. /\ d.kind = b.kind /\ d.sized = b.sized /\ d.exact = b.exact /\ d.rb = b.rb /\ d.lb = b.lb
      /\ d.ref = b.ref /\ d.sz = b.sz /\ d.room = b.room /\ d.text = b.text /\ d.emem = flag
  BY <1>1 DEF IsBlock
<1> HIDE DEF d
<1>4. ASSUME b.kind = "alloc" PROVE FitsConf(OwnConf(d)) /\ d.sized = Sized(OwnConf(d))
  BY <1>1, <1>2, <1>3, <1>4, BlockParts DEF OwnConf, FitsConf, IsConf, Sized, RefWidth
<1>5. ASSUME b.kind \in {"alloc", "fixed"} PROVE RoomFor(d)
  <2>1. RoomFor(b)
    BY <1>1, <1>5
  <2>2. Overhead(d) = Overhead(b) /\ SizeAlloc(d) = SizeAlloc(b)
    <3>1. Overhead(d) = Overhead(b)
      BY <1>3, <1>5 DEF Overhead, Ro
    <3> QED
      BY <1>3, <3>1 DEF SizeAlloc
  <2> QED
    BY <1>3, <2>1, <2>2 DEF RoomFor
<1>6. SoundBlock(d)
  BY <1>1, <1>2, <1>3, <1>4, <1>5 DEF SoundBlock
<1> QED
  BY <1>3, <1>6 DEF d

\* Another count leaves a block sound.
LEMMA CountSound ==
  ASSUME NEW b, SoundBlock(b), NEW n \in Nat
  PROVE  LET d == [b EXCEPT !.ref = n]
         IN  SoundBlock(d) /\ d.kind = b.kind /\ d.rb = b.rb /\ d.ref = n /\ d.text = b.text
<1> DEFINE d == [b EXCEPT !.ref = n]
<1>1. /\ IsBlock(b) /\ b.kind # "raw" /\ Len(b.text) <= MaxLen
      /\ b.kind \in {"alloc", "fixed"} => RoomFor(b)
      /\ b.kind = "alloc" => /\ FitsConf(OwnConf(b)) /\ b.sized = Sized(OwnConf(b))
                             /\ b.sized => b.lb = 2
  BY DEF SoundBlock
<1>2. IsBlock(d)
  BY <1>1 DEF IsBlock
<1>3. /\ d.kind = b.kind /\ d.sized = b.sized /\ d.exact = b.exact /\ d.rb = b.rb /\ d.lb = b.lb
      /\ d.ref = n /\ d.sz = b.sz /\ d.room = b.room /\ d.text = b.text /\ d.emem = b.emem
  BY <1>1 DEF IsBlock
<1> HIDE DEF d
<1>4. OwnConf(d) = OwnConf(b)
  BY <1>3 DEF OwnConf
<1>5. ASSUME b.kind \in {"alloc", "fixed"} PROVE RoomFor(d)
  <2>1. RoomFor(b)
    BY <1>1, <1>5
  <2>2. Overhead(d) = Overhead(b) /\ SizeAlloc(d) = SizeAlloc(b)
    <3>1. Overhead(d) = Overhead(b)
      BY <1>3, <1>5 DEF Overhead, Ro
    <3> QED
      BY <1>3, <3>1 DEF SizeAlloc
  <2> QED
    BY <1>3, <2>1, <2>2 DEF RoomFor
<1>6. SoundBlock(d)
  BY <1>1, <1>2, <1>3, <1>4, <1>5 DEF SoundBlock
<1> QED
  BY <1>3, <1>6 DEF d

\* A block that stays where it is has room for the text it is to take.
LEMMA RwModInPlace ==
  ASSUME NEW b, SoundBlock(b), NEW t, IsText(t), Len(t) <= MaxLen,
         RwMod(b, Len(t)).can, ~RwMod(b, Len(t)).alloc
  PROVE  /\ Owner(b)
         /\ Overhead(b) + Len(t) <= b.room
         /\ LET d == [b EXCEPT !.text = t]
            IN  /\ SoundBlock(d) /\ d.kind = b.kind /\ d.rb = b.rb /\ d.ref = b.ref
                /\ d.text = t /\ d.emem = b.emem
<1> DEFINE d == [b EXCEPT !.text = t]
           n == Len(t)
           m == RwMod(b, n)
<1>1. /\ IsBlock(b) /\ b.kind # "raw" /\ Len(b.text) <= MaxLen
      /\ b.kind \in {"alloc", "fixed"} => RoomFor(b)
      /\ b.kind = "alloc" => /\ FitsConf(OwnConf(b)) /\ b.sized = Sized(OwnConf(b))
                             /\ b.sized => b.lb = 2
  BY DEF SoundBlock
<1>2. n \in Nat
  BY TextIsFunction
<1>3. Owner(b) /\ Nb(n) <= b.lb
  BY DEF RwMod
<1>4. b.kind \in {"alloc", "fixed"} /\ b.kind # "ro"
  BY <1>3 DEF Owner, Alloc, Fixed
<1>5. RoomFor(b)
  BY <1>1, <1>4
<1> DEFINE need == HeadAndTail(b.rb, b.lb, Fields(b.sized)) + n
<1>6. /\ Overhead(b) = HeadAndTail(b.rb, b.lb, Fields(b.sized)) /\ Overhead(b) \in Nat
      /\ Overhead(b) > 0 /\ need \in Nat /\ need = Overhead(b) + n
  <2>1. Overhead(b) = HeadAndTail(b.rb, b.lb, Fields(b.sized))
    BY <1>4 DEF Overhead, Ro
  <2>2. Fields(b.sized) \in {1, 2} /\ b.rb \in Widths /\ b.lb \in Widths
    BY <1>1, BlockParts DEF Fields
  <2>3. /\ HeadAndTail(b.rb, b.lb, Fields(b.sized)) \in Nat
        /\ HeadAndTail(b.rb, b.lb, Fields(b.sized)) >= 2 + b.rb + b.lb
    BY <2>2, HeadAndTailNat
  <2> QED
    BY <1>2, <2>1, <2>2, <2>3 DEF Widths
<1>0. b.sz \in Nat /\ b.room \in Nat /\ Len(b.text) \in Nat /\ b.exact \in BOOLEAN
  BY <1>1, BlockParts
<1>7. ASSUME b.sized PROVE b.sz # 0
  <2>1. Overhead(b) + Len(b.text) <= b.sz
    BY <1>5, <1>7 DEF RoomFor
  <2> QED
    BY <1>0, <1>6, <2>1
<1>8. m = Fit(b, need, Graded(b.exact, need), SizeAlloc(b))
  BY <1>3, <1>7 DEF RwMod, Fields
<1> HIDE DEF need, m
<1>9. CASE b.sized
  <2>1. need <= b.sz
    BY <1>7, <1>8, <1>9 DEF Fit, m
  <2> QED
    <3>1. SizeAlloc(b) = b.sz
      BY <1>9 DEF SizeAlloc
    <3>2. b.sz <= b.room
      BY <1>5, <3>1 DEF RoomFor
    <3>3. /\ d.kind = b.kind /\ d.sized = b.sized /\ d.exact = b.exact /\ d.rb = b.rb /\ d.lb = b.lb
          /\ d.ref = b.ref /\ d.sz = b.sz /\ d.room = b.room /\ d.text = t /\ d.emem = b.emem
          /\ IsBlock(d)
      BY <1>1 DEF IsBlock
    <3> HIDE DEF d
    <3>4. OwnConf(d) = OwnConf(b) /\ Overhead(d) = Overhead(b) /\ SizeAlloc(d) = b.sz
      BY <3>3, <1>4, <1>9 DEF OwnConf, Overhead, Ro, SizeAlloc
    <3>5. Overhead(b) + n <= b.room
      BY <2>1, <3>2, <1>2, <1>6, <1>0
    <3>6. RoomFor(d)
      BY <3>2, <3>3, <3>4, <3>5, <2>1, <1>3, <1>6 DEF RoomFor
    <3>7. SoundBlock(d)
      BY <1>1, <3>3, <3>4, <3>6 DEF SoundBlock
    <3> QED
      BY <1>3, <3>3, <3>5, <3>7 DEF d
<1>10. CASE ~b.sized
  <2>1. Graded(b.exact, need) <= SizeAlloc(b)
    <3>1. Graded(b.exact, need) = SizeAlloc(b) \/ Graded(b.exact, need) < SizeAlloc(b)
      BY <1>8, <1>10 DEF Fit, m
    <3>2. Graded(b.exact, need) \in Nat
      BY <1>0, <1>6, GradedFacts
    <3>3. SizeAlloc(b) \in Nat
      <4>1. Len(b.text) + Overhead(b) \in Nat
        BY <1>0, <1>6
      <4> QED
        BY SMTT(30), <1>0, <1>10, <4>1, GradedFacts DEF SizeAlloc
    <3> QED
      BY <3>1, <3>2, <3>3
  <2>2. SizeAlloc(b) <= b.room
    BY <1>5 DEF RoomFor
  <2>3. Graded(b.exact, need) \in Nat /\ Graded(b.exact, need) >= need /\ b.room \in Nat
    BY <1>1, <1>6, BlockParts, GradedFacts
  <2>4. SizeAlloc(b) \in Nat
    <3>1. Len(b.text) + Overhead(b) \in Nat
      BY <1>0, <1>6
    <3> QED
      BY SMTT(30), <1>0, <1>10, <3>1, GradedFacts DEF SizeAlloc
  <2>5. Overhead(b) + n <= b.room /\ Graded(b.exact, need) <= b.room
    BY <2>1, <2>2, <2>3, <2>4, <1>2, <1>6
  <2>6. /\ d.kind = b.kind /\ d.sized = b.sized /\ d.exact = b.exact /\ d.rb = b.rb /\ d.lb = b.lb
        /\ d.ref = b.ref /\ d.sz = b.sz /\ d.room = b.room /\ d.text = t /\ d.emem = b.emem
        /\ IsBlock(d)
    BY <1>1 DEF IsBlock
  <2> HIDE DEF d
  <2>7. OwnConf(d) = OwnConf(b) /\ Overhead(d) = Overhead(b)
    BY <2>6, <1>4 DEF OwnConf, Overhead, Ro
  <2>8. SizeAlloc(d) = Graded(b.exact, need)
    <3>1. n + Overhead(b) = need
      BY <1>2, <1>6
    <3> QED
      BY <2>6, <2>7, <3>1, <1>10 DEF SizeAlloc
  <2>9. RoomFor(d)
    BY <2>5, <2>6, <2>7, <2>8, <1>3, <1>10 DEF RoomFor
  <2>10. SoundBlock(d)
    BY <1>1, <2>6, <2>7, <2>9 DEF SoundBlock
  <2> QED
    BY <1>3, <2>5, <2>6, <2>10 DEF d
<1> QED
  BY <1>9, <1>10

-----------------------------------------------------------------------------
(* The places strings are at, and who holds them *)

\* One holder more.
With(k, x) == [a \in Places |-> IF a = x THEN k[a] + 1 ELSE k[a]]

\* A block that stays though nobody may be counted.
Stays(b) == Ro(b) \/ Fixed(b) \/ (Alloc(b) /\ b.rb # 0 /\ b.ref = 0)

\* The blocks are sound, the one at odd perhaps not yet, and k counts the
\* holders.
Heaps(hp, k, odd) ==
  /\ hp = [x \in Places |-> hp[x]]
  /\ \A x \in Places : x # odd => SoundBlock(hp[x])
  /\ \A a \in Addr : CountOK(hp[a], k[a])
  /\ Ro(hp[Empty]) /\ Ro(hp[Lit]) /\ hp[Empty].text = <<>>
  /\ hp[Fix].kind \in {"fixed", "free"}
  /\ k[Fix] # 0 => Fixed(hp[Fix])

\* The state of a call in which nothing wild happened.
IsCall(c) ==
  /\ c = [heap |-> c.heap, s |-> c.s, n |-> c.n, ok |-> c.ok, wild |-> c.wild, conf |-> c.conf]
  /\ c.ok \in BOOLEAN
  /\ c.wild = FALSE
  /\ FitsConf(c.conf)

\* k counts the holders other than the caller's string.
Good(c, k) ==
  /\ IsCall(c)
  /\ k \in [Places -> Nat]
  /\ Heaps(c.heap, With(k, c.s), Null)
\* What is there for ever stays, a call edits a string, and goes on to do so.
Kept(c, d) == \A x \in Places : Stays(c.heap[x]) => Stays(d.heap[x])
Edits(c, k) == Good(c, k) /\ c.s \in Places
Post(c, k, d) == Edits(d, k) /\ Kept(c, d)

\* A string that is there as long as the call lasts.
Pinned(c, k, x) == x \in Places /\ (k[x] # 0 \/ Stays(c.heap[x]))
Live(b) == b.kind \in {"ro", "fixed", "alloc"}

\* Counting one pointer more.
LEMMA WithFacts ==
  ASSUME NEW k \in [Places -> Nat], NEW x
  PROVE  /\ With(k, x) \in [Places -> Nat]
         /\ \A a \in Places : With(k, x)[a] = IF a = x THEN k[a] + 1 ELSE k[a]
         /\ x \notin Places => With(k, x) = k
<1>1. With(k, x) = [a \in Places |-> IF a = x THEN k[a] + 1 ELSE k[a]]
  BY DEF With
<1>2. \A a \in Places : k[a] + 1 \in Nat /\ k[a] \in Nat
  OBVIOUS
<1>3. \A a \in Places : With(k, x)[a] = IF a = x THEN k[a] + 1 ELSE k[a]
  BY <1>1
<1>4. With(k, x) \in [Places -> Nat]
  BY <1>1, <1>2
<1>5. ASSUME x \notin Places PROVE With(k, x) = k
  BY <1>1, <1>5
<1> QED
  BY <1>3, <1>4, <1>5

\* Pointers are counted in any order.
LEMMA WithCommutes ==
  ASSUME NEW k \in [Places -> Nat], NEW x, NEW y
  PROVE  With(With(k, x), y) = With(With(k, y), x)
<1>1. /\ With(k, x) \in [Places -> Nat] /\ With(k, y) \in [Places -> Nat]
      /\ \A a \in Places : With(k, x)[a] = IF a = x THEN k[a] + 1 ELSE k[a]
      /\ \A a \in Places : With(k, y)[a] = IF a = y THEN k[a] + 1 ELSE k[a]
  BY WithFacts
<1>2. /\ With(With(k, x), y) \in [Places -> Nat] /\ With(With(k, y), x) \in [Places -> Nat]
      /\ \A a \in Places : With(With(k, x), y)[a] = IF a = y THEN With(k, x)[a] + 1 ELSE With(k, x)[a]
      /\ \A a \in Places : With(With(k, y), x)[a] = IF a = x THEN With(k, y)[a] + 1 ELSE With(k, y)[a]
  BY <1>1, WithFacts
<1>3. \A a \in Places : With(With(k, x), y)[a] = With(With(k, y), x)[a]
  BY <1>1, <1>2
<1> QED
  BY <1>2, <1>3

\* The places a pointer leads to.
LEMMA PlacesFacts ==
  /\ Addr \subseteq Places /\ Empty \in Places /\ Lit \in Places /\ Fix \in Places
  /\ Null \notin Places
  /\ \A x \in Places : x \in Addr \/ x = Empty \/ x = Lit \/ x = Fix
  /\ \A a \in Addr : a # Empty /\ a # Lit /\ a # Fix
  /\ Empty # Lit /\ Empty # Fix /\ Lit # Fix
BY PlacesAssumption DEF Places

\* A block that is replaced by a sound one that counts the same.
LEMMA HeapPut ==
  ASSUME NEW hp, NEW k, NEW odd, NEW x \in Places, odd = x \/ odd \notin Places, Heaps(hp, k, odd),
         NEW b, SoundBlock(b), b.kind = hp[x].kind, b.rb = hp[x].rb, b.ref = hp[x].ref, ~Ro(hp[x])
  PROVE  Heaps([hp EXCEPT ![x] = b], k, Null)
<1> DEFINE hq == [hp EXCEPT ![x] = b]
<1>1. /\ hp = [y \in Places |-> hp[y]]
      /\ \A y \in Places : y # x => SoundBlock(hp[y])
      /\ \A a \in Addr : CountOK(hp[a], k[a])
      /\ Ro(hp[Empty]) /\ Ro(hp[Lit]) /\ hp[Empty].text = <<>>
      /\ hp[Fix].kind \in {"fixed", "free"}
      /\ k[Fix] # 0 => Fixed(hp[Fix])
  BY DEF Heaps
<1>2. hq = [y \in Places |-> hq[y]] /\ \A y \in Places : hq[y] = IF y = x THEN b ELSE hp[y]
  BY <1>1
<1> HIDE DEF hq
<1>3. \A y \in Places : hq[y].kind = hp[y].kind /\ hq[y].rb = hp[y].rb /\ hq[y].ref = hp[y].ref
  BY <1>2
<1>4. \A y \in Places : SoundBlock(hq[y])
  BY <1>1, <1>2
<1>5. \A a \in Addr : CountOK(hq[a], k[a])
  BY <1>1, <1>3, PlacesFacts DEF CountOK, RefLimit
<1>6. Ro(hq[Empty]) /\ Ro(hq[Lit]) /\ hq[Empty].text = <<>> /\ hq[Fix].kind \in {"fixed", "free"} /\ (k[Fix] # 0 => Fixed(hq[Fix]))
  BY <1>1, <1>2, <1>3, PlacesFacts DEF Ro, Fixed
<1>7. Heaps(hq, k, Null)
  BY <1>2, <1>4, <1>5, <1>6 DEF Heaps
<1> QED
  BY <1>7 DEF hq

\* A block of the allocator changes its number of holders.
LEMMA HeapCount ==
  ASSUME NEW hp, NEW k \in [Places -> Nat], NEW l \in [Places -> Nat], NEW x \in Addr,
         Heaps(hp, k, Null), \A y \in Places : y # x => l[y] = k[y],
         NEW b, SoundBlock(b), CountOK(b, l[x])
  PROVE  Heaps([hp EXCEPT ![x] = b], l, Null)
<1> DEFINE hq == [hp EXCEPT ![x] = b]
<1>1. /\ hp = [y \in Places |-> hp[y]]
      /\ \A y \in Places : SoundBlock(hp[y])
      /\ \A a \in Addr : CountOK(hp[a], k[a])
      /\ Ro(hp[Empty]) /\ Ro(hp[Lit]) /\ hp[Empty].text = <<>>
      /\ hp[Fix].kind \in {"fixed", "free"}
      /\ k[Fix] # 0 => Fixed(hp[Fix])
  BY PlacesFacts DEF Heaps
<1>2. hq = [y \in Places |-> hq[y]] /\ \A y \in Places : hq[y] = IF y = x THEN b ELSE hp[y]
  BY <1>1
<1> HIDE DEF hq
<1>3. \A y \in Places : SoundBlock(hq[y])
  BY <1>1, <1>2
<1>4. \A a \in Addr : CountOK(hq[a], l[a])
  BY <1>1, <1>2, PlacesFacts
<1>5. Ro(hq[Empty]) /\ Ro(hq[Lit]) /\ hq[Empty].text = <<>> /\ hq[Fix].kind \in {"fixed", "free"} /\ (l[Fix] # 0 => Fixed(hq[Fix]))
  BY <1>1, <1>2, PlacesFacts
<1>6. Heaps(hq, l, Null)
  BY <1>2, <1>3, <1>4, <1>5 DEF Heaps
<1> QED
  BY <1>6 DEF hq

\* What is said of a place.
LEMMA PlaceFacts ==
  ASSUME NEW hp, NEW k \in [Places -> Nat], Heaps(hp, k, Null), NEW x \in Places
  PROVE  /\ SoundBlock(hp[x]) /\ IsBlock(hp[x])
         /\ hp[x].kind \in {"ro", "fixed", "alloc", "free"}
         /\ k[x] # 0 => Live(hp[x])
         /\ hp[x].kind \in {"alloc"} => x \in Addr
         /\ Alloc(hp[x]) => x \in Addr
         /\ IsText(hp[x].text) /\ Len(hp[x].text) \in Nat /\ Len(hp[x].text) <= MaxLen
<1>1. SoundBlock(hp[x]) /\ IsBlock(hp[x]) /\ IsText(hp[x].text) /\ Len(hp[x].text) <= MaxLen
  BY PlacesFacts DEF Heaps, SoundBlock, IsBlock
<1>2. hp[x].kind \in {"ro", "fixed", "alloc", "free"}
  BY <1>1, BlockParts DEF SoundBlock, Kinds
<1>3. ASSUME k[x] # 0 PROVE Live(hp[x])
  <2>1. CASE x \in Addr
    <3>1. CountOK(hp[x], k[x])
      BY <2>1 DEF Heaps
    <3> QED
      BY <3>1, <1>2, <1>3 DEF CountOK, Live
  <2>2. CASE x \notin Addr
    BY <1>3, <2>2, PlacesFacts DEF Heaps, Live, Ro, Fixed
  <2> QED
    BY <2>1, <2>2
<1>4. ASSUME hp[x].kind = "alloc" PROVE x \in Addr
  BY <1>4, PlacesFacts DEF Heaps, Ro
<1> QED
  BY <1>1, <1>2, <1>3, <1>4, TextIsFunction DEF Alloc

-----------------------------------------------------------------------------
(* Good states of a call *)

\* What a good state of a call says.
LEMMA GoodFacts ==
  ASSUME NEW c, NEW k, Good(c, k)
  PROVE  /\ c = [heap |-> c.heap, s |-> c.s, n |-> c.n, ok |-> c.ok, wild |-> c.wild, conf |-> c.conf]
         /\ c.ok \in BOOLEAN /\ c.wild = FALSE /\ FitsConf(c.conf) /\ IsConf(c.conf)
         /\ k \in [Places -> Nat] /\ With(k, c.s) \in [Places -> Nat]
         /\ Heaps(c.heap, With(k, c.s), Null)
         /\ c.heap = [x \in Places |-> c.heap[x]]
BY WithFacts DEF Good, IsCall, Heaps, FitsConf

\* What lies at a place.
LEMMA PlaceOf ==
  ASSUME NEW c, NEW k, Good(c, k), NEW x \in Places
  PROVE  /\ SoundBlock(c.heap[x]) /\ IsBlock(c.heap[x])
         /\ c.heap[x].kind \in {"ro", "fixed", "alloc", "free"}
         /\ Alloc(c.heap[x]) => x \in Addr
         /\ IsText(c.heap[x].text) /\ Len(c.heap[x].text) \in Nat /\ Len(c.heap[x].text) <= MaxLen
BY GoodFacts, PlaceFacts

\* The string a call edits.
LEMMA StrFacts ==
  ASSUME NEW c, NEW k, Edits(c, k)
  PROVE  /\ c.s \in Places /\ Str(c) = c.heap[c.s] /\ Text(c) = Str(c).text
         /\ SoundBlock(Str(c)) /\ IsBlock(Str(c)) /\ Live(Str(c))
         /\ Alloc(Str(c)) => c.s \in Addr
         /\ IsText(Text(c)) /\ Len(Text(c)) \in Nat /\ Len(Text(c)) <= MaxLen
<1>1. Good(c, k) /\ c.s \in Places
  BY DEF Edits
<1>2. With(k, c.s)[c.s] # 0 /\ With(k, c.s) \in [Places -> Nat] /\ Heaps(c.heap, With(k, c.s), Null)
  <2>1. k \in [Places -> Nat] /\ With(k, c.s) \in [Places -> Nat] /\ Heaps(c.heap, With(k, c.s), Null)
    BY <1>1, GoodFacts
  <2>2. With(k, c.s)[c.s] = k[c.s] + 1 /\ k[c.s] \in Nat
    BY <1>1, <2>1, WithFacts
  <2> QED
    BY <2>1, <2>2
<1>3. Live(c.heap[c.s])
  BY <1>1, <1>2, PlaceFacts
<1> QED
  BY <1>1, <1>3, PlaceOf DEF Str, Text

\* What a function returned changes nothing else.
LEMMA Answered ==
  ASSUME NEW c, NEW k, Good(c, k), NEW ok \in BOOLEAN, NEW d, d = [c EXCEPT !.ok = ok]
  PROVE  /\ Good(d, k) /\ d.ok = ok /\ d.s = c.s /\ d.n = c.n /\ d.heap = c.heap /\ d.conf = c.conf
         /\ d.wild = c.wild
         /\ Kept(c, d)
         /\ Str(d) = Str(c) /\ Text(d) = Text(c)
         /\ Edits(c, k) => Edits(d, k) /\ Post(c, k, d)
<1>1. c = [heap |-> c.heap, s |-> c.s, n |-> c.n, ok |-> c.ok, wild |-> c.wild, conf |-> c.conf]
  BY GoodFacts
<1>2. /\ d = [heap |-> c.heap, s |-> c.s, n |-> c.n, ok |-> ok, wild |-> c.wild, conf |-> c.conf]
      /\ d.ok = ok /\ d.s = c.s /\ d.n = c.n /\ d.heap = c.heap /\ d.conf = c.conf /\ d.wild = c.wild
  BY <1>1
<1>3. Good(d, k)
  BY <1>2 DEF Good, IsCall
<1>4. Kept(c, d)
  BY <1>2 DEF Kept
<1> QED
  BY <1>2, <1>3, <1>4 DEF Str, Text, Edits, Post

\* Success changes nothing but the answer.
LEMMA DoneGood ==
  ASSUME NEW c, NEW k, Good(c, k)
  PROVE  /\ Good(Done(c), k) /\ Done(c).ok = TRUE /\ Done(c).s = c.s /\ Done(c).n = c.n
         /\ Done(c).heap = c.heap /\ Done(c).conf = c.conf
         /\ Kept(c, Done(c)) /\ Str(Done(c)) = Str(c) /\ Text(Done(c)) = Text(c)
         /\ Edits(c, k) => Edits(Done(c), k) /\ Post(c, k, Done(c))
BY Answered DEF Done

\* Failure changes nothing but the answer.
LEMMA FailGood ==
  ASSUME NEW c, NEW k, Good(c, k)
  PROVE  /\ Good(Fail(c), k) /\ Fail(c).ok = FALSE /\ Fail(c).s = c.s /\ Fail(c).n = c.n
         /\ Fail(c).heap = c.heap /\ Fail(c).conf = c.conf
         /\ Kept(c, Fail(c)) /\ Str(Fail(c)) = Str(c) /\ Text(Fail(c)) = Text(c)
         /\ Edits(c, k) => Edits(Fail(c), k) /\ Post(c, k, Fail(c))
BY Answered DEF Fail

\* What stays through two steps stays.
LEMMA KeptTrans ==
  ASSUME NEW c, NEW d, NEW e, Kept(c, d), Kept(d, e)
  PROVE  Kept(c, e)
BY DEF Kept

\* Two steps of a call are one.
LEMMA PostTrans ==
  ASSUME NEW c, NEW k, NEW d, NEW e, Post(c, k, d), Post(d, k, e)
  PROVE  Post(c, k, e)
BY KeptTrans DEF Post

\* No step is a step.
LEMMA PostSelf ==
  ASSUME NEW c, NEW k, Edits(c, k)
  PROVE  Post(c, k, c)
BY DEF Post, Kept

\* What is pinned stays pinned.
LEMMA PinnedKept ==
  ASSUME NEW c, NEW d, NEW k, NEW x, Pinned(c, k, x), Kept(c, d)
  PROVE  Pinned(d, k, x)
BY DEF Pinned, Kept

\* What is pinned can be read.
LEMMA PinnedLive ==
  ASSUME NEW c, NEW k, Good(c, k), NEW x, Pinned(c, k, x)
  PROVE  Live(c.heap[x])
<1>1. x \in Places /\ (k[x] # 0 \/ Stays(c.heap[x])) /\ k \in [Places -> Nat]
  BY GoodFacts DEF Pinned
<1>2. k[x] # 0 => With(k, c.s)[x] # 0
  BY <1>1, WithFacts
<1>3. k[x] # 0 => Live(c.heap[x])
  BY <1>1, <1>2, GoodFacts, PlaceFacts
<1>4. Stays(c.heap[x]) => Live(c.heap[x])
  BY DEF Stays, Live, Ro, Alloc, Fixed
<1> QED
  BY <1>1, <1>3, <1>4

\* A block that is not the caller's alone to write stays.
LEMMA OthersPinned ==
  ASSUME NEW c, NEW k, Edits(c, k), ~(Owner(Str(c)) /\ Alloc(Str(c)))
  PROVE  Pinned(c, k, c.s)
<1>1. /\ c.s \in Places /\ Str(c) = c.heap[c.s] /\ Live(Str(c)) /\ IsBlock(Str(c))
      /\ Alloc(Str(c)) => c.s \in Addr
  BY StrFacts
<1>2. Heaps(c.heap, With(k, c.s), Null) /\ k \in [Places -> Nat]
  BY GoodFacts DEF Edits
<1>3. CASE Alloc(Str(c))
  <2>1. CountOK(Str(c), With(k, c.s)[c.s]) /\ With(k, c.s)[c.s] = k[c.s] + 1
    BY <1>1, <1>2, <1>3, WithFacts DEF Heaps
  <2>2. Str(c).rb # 0 /\ Str(c).ref # 1
    BY <1>3 DEF Owner
  <2>3. Str(c).rb \in Nat /\ Str(c).ref \in Nat
    BY <1>1, BlockParts DEF Widths
  <2>4. Str(c).ref \in {0, k[c.s] + 1}
    BY <2>1, <2>2, <2>3, <1>3 DEF CountOK, Alloc
  <2>5. k[c.s] \in Nat
    BY <1>1, <1>2
  <2>6. Str(c).ref = 0 \/ k[c.s] # 0
    BY <2>2, <2>4, <2>5
  <2> QED
    BY <1>1, <1>3, <2>2, <2>6 DEF Pinned, Stays
<1>4. CASE ~Alloc(Str(c))
  BY <1>1, <1>4 DEF Pinned, Stays, Live, Alloc, Ro, Fixed
<1> QED
  BY <1>3, <1>4

\* The caller's block is replaced by a sound one that counts the same.
LEMMA PutGood ==
  ASSUME NEW c, NEW k, Edits(c, k), NEW b, SoundBlock(b), b.kind = Str(c).kind, b.rb = Str(c).rb,
         b.ref = Str(c).ref, ~Ro(Str(c)), NEW d, d = [c EXCEPT !.heap = [c.heap EXCEPT ![c.s] = b]]
  PROVE  /\ Post(c, k, d) /\ d.ok = c.ok /\ d.s = c.s /\ d.n = c.n /\ d.conf = c.conf
         /\ Str(d) = b /\ Text(d) = b.text
         /\ \A x \in Places : x # c.s => d.heap[x] = c.heap[x]
<1>1. /\ c = [heap |-> c.heap, s |-> c.s, n |-> c.n, ok |-> c.ok, wild |-> c.wild, conf |-> c.conf]
      /\ k \in [Places -> Nat] /\ Heaps(c.heap, With(k, c.s), Null)
      /\ c.heap = [x \in Places |-> c.heap[x]]
      /\ c.s \in Places /\ Str(c) = c.heap[c.s]
  BY GoodFacts, StrFacts DEF Edits
<1> DEFINE hp == [c.heap EXCEPT ![c.s] = b]
<1>2. /\ d = [heap |-> hp, s |-> c.s, n |-> c.n, ok |-> c.ok, wild |-> c.wild, conf |-> c.conf]
      /\ d.ok = c.ok /\ d.s = c.s /\ d.n = c.n /\ d.heap = hp /\ d.conf = c.conf /\ d.wild = c.wild
  <2> HIDE DEF hp
  <2>1. d = [c EXCEPT !.heap = hp]
    BY DEF hp
  <2> QED
    BY <1>1, <2>1
<1>3. \A x \in Places : hp[x] = IF x = c.s THEN b ELSE c.heap[x]
  BY <1>1
<1>4. Heaps(hp, With(k, c.s), Null)
  BY <1>1, PlacesFacts, HeapPut
<1> HIDE DEF hp
<1>5. Edits(d, k)
  BY <1>1, <1>2, <1>4 DEF Edits, Good, IsCall
<1>6. Kept(c, d)
  BY <1>1, <1>2, <1>3 DEF Kept, Stays, Ro, Fixed, Alloc
<1>7. Str(d) = b
  BY <1>1, <1>2, <1>3 DEF Str
<1> QED
  BY <1>1, <1>2, <1>3, <1>5, <1>6, <1>7 DEF Post, Text

\* The error flag.
LEMMA FlagGood ==
  ASSUME NEW c, NEW k, Edits(c, k), NEW flag \in BOOLEAN, NEW d, d = SetEnomem(c, flag)
  PROVE  /\ Post(c, k, d) /\ d.ok = c.ok /\ d.s = c.s /\ d.n = c.n /\ d.conf = c.conf
         /\ Text(d) = Text(c) /\ Str(d).kind = Str(c).kind /\ Str(d).rb = Str(c).rb
         /\ Str(d).ref = Str(c).ref
         /\ \A x \in Places : x # c.s => d.heap[x] = c.heap[x]
<1>1. SoundBlock(Str(c)) /\ Str(c) = c.heap[c.s] /\ Text(c) = Str(c).text /\ c.s \in Places
  BY StrFacts
<1>2. CASE Owner(Str(c))
  <2> DEFINE b == [Str(c) EXCEPT !.emem = flag]
  <2>1. SoundBlock(b) /\ b.kind = Str(c).kind /\ b.rb = Str(c).rb /\ b.ref = Str(c).ref
        /\ b.text = Str(c).text
    BY <1>1, FlagSound
  <2>2. d = [c EXCEPT !.heap = [c.heap EXCEPT ![c.s] = b]]
    BY <1>1, <1>2 DEF SetEnomem
  <2> HIDE DEF b
  <2> QED
    BY <1>1, <1>2, <2>1, <2>2, PutGood DEF Owner, Fixed, Alloc, Ro
<1>3. CASE ~Owner(Str(c))
  BY <1>1, <1>3, PostSelf DEF SetEnomem
<1> QED
  BY <1>2, <1>3

\* The flag of a failure may be raised (ustr_setf_enomem_err).
LEMMA FlaggedGood ==
  ASSUME NEW c, NEW k, Edits(c, k), NEW d, d = Flagged(c)
  PROVE  /\ Post(c, k, d) /\ d.ok = FALSE /\ d.s = c.s /\ d.n = c.n
         /\ Text(d) = Text(c)
         /\ \A x \in Places : x # c.s => d.heap[x] = c.heap[x]
<1>1. PICK e : e = SetEnomem(c, TRUE)
  OBVIOUS
<1>2. /\ Post(c, k, e) /\ e.s = c.s /\ Text(e) = Text(c) /\ e.n = c.n
      /\ \A x \in Places : x # c.s => e.heap[x] = c.heap[x]
  BY <1>1, FlagGood
<1>3. d = Fail(e)
  BY <1>1 DEF Flagged
<1>4. Good(e, k) /\ Edits(e, k)
  BY <1>2 DEF Post, Edits
<1>5. Post(e, k, d) /\ d.ok = FALSE /\ d.s = e.s /\ Text(d) = Text(e) /\ d.heap = e.heap /\ d.n = e.n
  BY <1>3, <1>4, FailGood
<1> QED
  BY <1>2, <1>5, PostTrans

\* The length and the text that comes to light with it.
NewLen(text, nlen) ==
  Slice(text, 0, IF nlen < Len(text) THEN nlen ELSE Len(text)) \o Junks(nlen - Len(text))

\* The text after a new length was written.
LEMMA NewLenText ==
  ASSUME NEW t, IsText(t), NEW nlen \in Nat
  PROVE  IsText(NewLen(t, nlen)) /\ Len(NewLen(t, nlen)) = nlen
<1> DEFINE keep == IF nlen < Len(t) THEN nlen ELSE Len(t)
<1>1. Len(t) \in Nat /\ keep \in Nat /\ 0 + keep <= Len(t) /\ nlen - Len(t) \in Int
  BY TextIsFunction
<1> HIDE DEF keep
<1>2. IsText(Slice(t, 0, keep)) /\ Len(Slice(t, 0, keep)) = keep
  BY <1>1, SliceText
<1>3. IsText(Junks(nlen - Len(t)))
      /\ Len(Junks(nlen - Len(t))) = IF nlen - Len(t) < 0 THEN 0 ELSE nlen - Len(t)
  BY <1>1, JunksText
<1>4. /\ IsText(Slice(t, 0, keep) \o Junks(nlen - Len(t)))
      /\ Len(Slice(t, 0, keep) \o Junks(nlen - Len(t))) = keep + Len(Junks(nlen - Len(t)))
  BY <1>2, <1>3, JoinText
<1>5. keep + Len(Junks(nlen - Len(t))) = nlen
  <2>1. CASE nlen < Len(t)
    <3>1. keep = nlen /\ nlen - Len(t) < 0
      BY <1>1, <2>1 DEF keep
    <3>2. Len(Junks(nlen - Len(t))) = 0
      BY <1>3, <3>1
    <3> QED
      BY <3>1, <3>2
  <2>2. CASE ~(nlen < Len(t))
    <3>1. keep = Len(t) /\ ~(nlen - Len(t) < 0)
      BY <1>1, <2>2 DEF keep
    <3>2. Len(Junks(nlen - Len(t))) = nlen - Len(t)
      BY <1>3, <3>1
    <3> QED
      BY <1>1, <3>1, <3>2
  <2> QED
    BY <2>1, <2>2
<1> QED
  BY <1>4, <1>5 DEF NewLen, keep

\* A call whose string may not be sound yet.
Almost(c, k) ==
  /\ IsCall(c)
  /\ k \in [Places -> Nat]
  /\ c.s \in Places
  /\ Heaps(c.heap, With(k, c.s), c.s)
  /\ IsText(Text(c))

\* A good state is almost one.
LEMMA EditsAlmost ==
  ASSUME NEW c, NEW k, Edits(c, k)
  PROVE  Almost(c, k)
BY StrFacts, PlacesFacts DEF Edits, Good, Almost, Heaps

SetTo(c, k, d, nlen) ==
  /\ Edits(d, k) /\ Kept(c, d) /\ d.ok = TRUE /\ d.s = c.s /\ d.n = c.n
  /\ Len(Text(d)) = nlen
  /\ Str(d).kind = Str(c).kind /\ Str(d).rb = Str(c).rb /\ Str(d).ref = Str(c).ref
  /\ \A x \in Places : x # c.s => d.heap[x] = c.heap[x]

\* Once the length is set the block is sound.
LEMMA SetLenGood ==
  ASSUME NEW c, NEW k, Almost(c, k), ~Ro(Str(c)), NEW nlen \in Nat, NEW t, t = NewLen(Text(c), nlen),
         NEW f, f = [Str(c) EXCEPT !.text = t],
         SoundBlock(f), f.kind = Str(c).kind, f.rb = Str(c).rb, f.ref = Str(c).ref, f.text = t,
         ~(Overhead(Str(c)) + nlen > Str(c).room),
         NEW d, d = SetLen(c, nlen)
  PROVE  SetTo(c, k, d, nlen)
<1> DEFINE b == [Str(c) EXCEPT !.text = NewLen(Text(c), nlen)]
           hp == [c.heap EXCEPT ![c.s] = b]
<1>0. f = b
  OBVIOUS
<1>1. /\ SoundBlock(b) /\ b.kind = Str(c).kind /\ b.rb = Str(c).rb /\ b.ref = Str(c).ref
      /\ b.text = NewLen(Text(c), nlen)
  <2> HIDE DEF b
  <2> QED
    BY <1>0
<1>2. /\ c = [heap |-> c.heap, s |-> c.s, n |-> c.n, ok |-> c.ok, wild |-> c.wild, conf |-> c.conf]
      /\ c.wild = FALSE /\ FitsConf(c.conf) /\ c.s \in Places
      /\ k \in [Places -> Nat] /\ Heaps(c.heap, With(k, c.s), c.s)
      /\ c.heap = [x \in Places |-> c.heap[x]] /\ Str(c) = c.heap[c.s]
      /\ IsText(Text(c))
  BY DEF Almost, IsCall, Heaps, Str
<1>3. d = [c EXCEPT !.ok = TRUE, !.heap = hp, !.wild = FALSE]
  <2>1. (c.wild \/ Overhead(Str(c)) + nlen > Str(c).room) = FALSE
    BY <1>2
  <2>2. Slice(Str(c).text, 0, IF nlen < Len(Str(c).text) THEN nlen ELSE Len(Str(c).text))
         \o Junks(nlen - Len(Str(c).text)) = NewLen(Text(c), nlen)
    BY DEF NewLen, Text
  <2>3. d = [Done(c) EXCEPT !.heap = hp, !.wild = (c.wild \/ Overhead(Str(c)) + nlen > Str(c).room)]
    BY <1>2, <2>2 DEF SetLen, Done
  <2> QED
    BY <1>2, <2>1, <2>3 DEF Done
<1>4. \A x \in Places : hp[x] = IF x = c.s THEN b ELSE c.heap[x]
  BY <1>2
<1>5. Heaps(hp, With(k, c.s), Null)
  <2> HIDE DEF b
  <2> QED
    BY <1>1, <1>2, HeapPut
<1> HIDE DEF b
<1>6. /\ d = [heap |-> hp, s |-> c.s, n |-> c.n, ok |-> TRUE, wild |-> FALSE, conf |-> c.conf]
      /\ d.ok = TRUE /\ d.s = c.s /\ d.n = c.n /\ d.heap = hp /\ d.conf = c.conf /\ d.wild = FALSE
  <2> HIDE DEF hp
  <2> QED
    BY <1>2, <1>3
<1> HIDE DEF hp
<1>7. Edits(d, k)
  BY <1>2, <1>5, <1>6 DEF Edits, Good, IsCall
<1>8. Kept(c, d)
  BY <1>1, <1>2, <1>4, <1>6 DEF Kept, Stays, Ro, Fixed, Alloc
<1>9. Str(d) = b
  BY <1>2, <1>4, <1>6 DEF Str
<1>10. Len(Text(d)) = nlen /\ Text(d) = NewLen(Text(c), nlen)
  BY <1>1, <1>2, <1>9, NewLenText DEF Text
<1> QED
  BY <1>1, <1>2, <1>4, <1>6, <1>7, <1>8, <1>9, <1>10 DEF b, SetTo

\* Where memcpy reads is memory that is there.
SrcOK(c, src) ==
  /\ src = [at |-> src.at, off |-> src.off, text |-> src.text]
  /\ src.at = Null \/ (src.at \in Places /\ Live(c.heap[src.at]))

\* ustr__memcpy stays within the text and reads what is there.
LEMMA MemcpyGood ==
  ASSUME NEW c, NEW k, Edits(c, k), NEW off \in Int, NEW src, NEW len \in Int,
         len # 0 => /\ SrcOK(c, src) /\ off + len <= Len(Text(c)) /\ ~Ro(Str(c)),
         NEW d, d = Memcpy(c, off, src, len)
  PROVE  /\ Post(c, k, d) /\ d.ok = c.ok /\ d.s = c.s /\ d.n = c.n
         /\ Len(Text(d)) = Len(Text(c))
         /\ Str(d).kind = Str(c).kind /\ Str(d).rb = Str(c).rb /\ Str(d).ref = Str(c).ref
         /\ len # 0 => Str(d) = [Str(c) EXCEPT !.text = [i \in 1 .. Len(Text(c)) |->
                 IF i > off /\ i <= off + len THEN Bytes(c, src, len)[i - off] ELSE Text(c)[i]]]
         /\ len = 0 => d = c
         /\ \A x \in Places : x # c.s => d.heap[x] = c.heap[x]
<1>1. CASE len = 0
  BY <1>1, PostSelf DEF Memcpy
<1>2. CASE len # 0
  <2> DEFINE t == [i \in 1 .. Len(Text(c)) |->
                     IF i > off /\ i <= off + len THEN Bytes(c, src, len)[i - off] ELSE Text(c)[i]]
             b == [Str(c) EXCEPT !.text = t]
  <2>1. /\ SoundBlock(Str(c)) /\ Str(c) = c.heap[c.s] /\ Text(c) = Str(c).text /\ c.s \in Places
        /\ IsText(Text(c)) /\ Len(Text(c)) \in Nat
    BY StrFacts
  <2>2. /\ c = [heap |-> c.heap, s |-> c.s, n |-> c.n, ok |-> c.ok, wild |-> c.wild, conf |-> c.conf]
        /\ c.wild = FALSE
    BY GoodFacts DEF Edits
  <2>3. IsText(t) /\ Len(t) = Len(Text(c))
    <3>1. t = [i \in 1 .. Len(Text(c)) |-> t[i]]
      OBVIOUS
    <3> HIDE DEF t
    <3> QED
      BY <2>1, <3>1, TextOfFunction
  <2>4. SoundBlock(b) /\ b.kind = Str(c).kind /\ b.rb = Str(c).rb /\ b.ref = Str(c).ref /\ b.text = t
    <3> HIDE DEF t
    <3> QED
      BY <2>1, <2>3, SameLengthSound
  <2>5. (c.wild \/ Ro(Str(c)) \/ ~Readable(c, src, len) \/ off + len > Len(Text(c))) = FALSE
    <3>1. Readable(c, src, len)
      BY <1>2 DEF Readable, SrcOK, Live
    <3> QED
      BY <1>2, <2>1, <2>2, <3>1
  <2>6. d = [c EXCEPT !.heap = [c.heap EXCEPT ![c.s] = b],
              !.wild = (c.wild \/ Ro(Str(c)) \/ ~Readable(c, src, len) \/ off + len > Len(Text(c)))]
    BY <1>2, <2>1 DEF Memcpy
  <2> HIDE DEF b, t
  <2>7. d = [c EXCEPT !.heap = [c.heap EXCEPT ![c.s] = b]]
    BY <2>2, <2>5, <2>6
  <2>8. /\ Post(c, k, d) /\ d.ok = c.ok /\ d.s = c.s /\ d.n = c.n
        /\ Str(d) = b /\ Text(d) = b.text
        /\ \A x \in Places : x # c.s => d.heap[x] = c.heap[x]
    BY <1>2, <2>1, <2>4, <2>7, PutGood
  <2> QED
    BY <1>2, <2>3, <2>4, <2>8 DEF b, t
<1> QED
  BY <1>1, <1>2

-----------------------------------------------------------------------------
(* Blocks from the allocator, and blocks given back *)

\* The configuration of a copy is one whose blocks are sound.
LEMMA FromFits ==
  ASSUME NEW c, NEW k, Good(c, k), NEW x \in Places
  PROVE  /\ FitsConf(From(c.heap[x], c.conf))
         /\ FitsConf([From(c.heap[x], c.conf) EXCEPT !.emem = TRUE])
<1>1. SoundBlock(c.heap[x]) /\ IsBlock(c.heap[x]) /\ IsConf(c.conf) /\ FitsConf(c.conf)
  BY PlaceOf, GoodFacts
<1>2. ASSUME NEW q, FitsConf(q), NEW flag \in BOOLEAN
      PROVE  FitsConf([q EXCEPT !.emem = flag])
  <2> DEFINE r == [q EXCEPT !.emem = flag]
  <2>1. q \in [sz : Nat, rb : Widths, exact : BOOLEAN, emem : BOOLEAN]
    BY <1>2 DEF FitsConf, IsConf
  <2>2. IsConf(r) /\ r.sz = q.sz /\ r.rb = q.rb /\ r.exact = q.exact
    BY <2>1 DEF IsConf
  <2> HIDE DEF r
  <2>3. Sized(r) = Sized(q) /\ RefWidth(r) = RefWidth(q)
    BY <2>2 DEF Sized, RefWidth
  <2>4. FitsConf(r)
    BY <1>2, <2>2, <2>3 DEF FitsConf
  <2> QED
    BY <2>4 DEF r
<1>3. FitsConf(From(c.heap[x], c.conf))
  <2>1. CASE Alloc(c.heap[x])
    BY <1>1, <2>1 DEF From, SoundBlock, Alloc, OwnConf
  <2>2. CASE ~Alloc(c.heap[x])
    <3>1. c.heap[x].emem \in BOOLEAN
      BY <1>1, BlockParts
    <3> QED
      BY <1>1, <1>2, <2>2, <3>1 DEF From
  <2> QED
    BY <2>1, <2>2
<1> QED
  BY <1>2, <1>3

\* What is said of a function that returns a new pointer.
Got(c, k, d) ==
  /\ d.s = c.s /\ d.ok \in BOOLEAN
  /\ Kept(c, d)
  /\ d.ok => d.n \in Places /\ Good(d, With(k, d.n))
  /\ ~d.ok => Good(d, k)
  /\ \A x \in Places : Live(c.heap[x]) => /\ d.heap[x].text = c.heap[x].text
                                          /\ d.heap[x].kind = c.heap[x].kind
                                          /\ d.heap[x].sized = c.heap[x].sized
                                          /\ d.heap[x].rb = c.heap[x].rb

\* The allocator gives out what nobody holds.
LEMMA FreshFree ==
  ASSUME NEW c, NEW a \in Fresh(c)
  PROVE  a \in Addr /\ c.heap[a].kind = "free"
BY DEF Fresh

\* A new block has one holder, who asked for it.
LEMMA NewBlockGood ==
  ASSUME NEW c, NEW k, Good(c, k), NEW b, SoundBlock(b), Alloc(b), CountOK(b, 1),
         NEW d \in NewBlock(c, b)
  PROVE  /\ Got(c, k, d)
         /\ d.ok => d.heap[d.n] = b /\ d.n # c.s /\ d.n \in Addr
         /\ ~d.ok => d.heap = c.heap
<1>1. /\ c = [heap |-> c.heap, s |-> c.s, n |-> c.n, ok |-> c.ok, wild |-> c.wild, conf |-> c.conf]
      /\ c.wild = FALSE /\ FitsConf(c.conf)
      /\ k \in [Places -> Nat] /\ With(k, c.s) \in [Places -> Nat] /\ Heaps(c.heap, With(k, c.s), Null)
      /\ c.heap = [x \in Places |-> c.heap[x]]
  BY GoodFacts
<1>2. CASE d = [Fail(c) EXCEPT !.n = Null]
  <2>1. d = [heap |-> c.heap, s |-> c.s, n |-> Null, ok |-> FALSE, wild |-> c.wild, conf |-> c.conf]
    BY <1>1, <1>2 DEF Fail
  <2>2. Good(d, k) /\ d.heap = c.heap /\ d.s = c.s /\ d.ok = FALSE
    BY <1>1, <2>1 DEF Good, IsCall
  <2> QED
    BY <2>2 DEF Got, Kept
<1>3. CASE d # [Fail(c) EXCEPT !.n = Null]
  <2>1. PICK a \in Fresh(c) :
          d = [Done(c) EXCEPT !.heap[a] = b, !.n = a, !.wild = @ \/ b.kind = "raw"]
    BY <1>3 DEF NewBlock
  <2>2. a \in Addr /\ a \in Places /\ c.heap[a].kind = "free" /\ a # Null
    BY FreshFree, PlacesFacts
  <2> DEFINE hp == [c.heap EXCEPT ![a] = b]
  <2>3. (c.wild \/ b.kind = "raw") = FALSE
    BY <1>1 DEF Alloc
  <2>4. d = [heap |-> hp, s |-> c.s, n |-> a, ok |-> TRUE, wild |-> FALSE, conf |-> c.conf]
    BY <1>1, <2>1, <2>3 DEF Done
  <2>5. \A x \in Places : hp[x] = IF x = a THEN b ELSE c.heap[x]
    BY <1>1
  <2>6. With(k, c.s)[a] = 0 /\ a # c.s
    <3>1. CountOK(c.heap[a], With(k, c.s)[a])
      BY <1>1, <2>2 DEF Heaps
    <3>2. With(k, c.s)[a] = 0
      BY <2>2, <3>1 DEF CountOK
    <3>3. With(k, c.s)[a] = (IF a = c.s THEN k[a] + 1 ELSE k[a]) /\ k[a] \in Nat
      BY <1>1, <2>2, WithFacts
    <3> QED
      BY <3>2, <3>3
  <2>7. Heaps(hp, With(With(k, a), c.s), Null)
    <3> DEFINE l == With(With(k, c.s), a)
    <3>1. /\ l \in [Places -> Nat] /\ l[a] = 1 /\ \A y \in Places : y # a => l[y] = With(k, c.s)[y]
      BY <1>1, <2>2, <2>6, WithFacts
    <3>2. CountOK(b, l[a])
      BY <3>1
    <3> HIDE DEF l
    <3>3. Heaps(hp, l, Null)
      BY <1>1, <2>2, <3>1, <3>2, HeapCount
    <3> QED
      BY <1>1, <3>3, WithCommutes DEF l
  <2> HIDE DEF hp
  <2>8. /\ d.heap = hp /\ d.s = c.s /\ d.n = a /\ d.ok = TRUE /\ d.wild = FALSE /\ d.conf = c.conf
        /\ d = [heap |-> d.heap, s |-> d.s, n |-> d.n, ok |-> d.ok, wild |-> d.wild, conf |-> d.conf]
    BY <2>4
  <2>9. Good(d, With(k, a))
    <3>1. With(k, a) \in [Places -> Nat]
      BY <1>1, WithFacts
    <3> QED
      BY <1>1, <2>7, <2>8, <3>1 DEF Good, IsCall
  <2>10. \A x \in Places : c.heap[x].kind # "free" => d.heap[x] = c.heap[x]
    BY <2>2, <2>5, <2>8
  <2>11. Kept(c, d)
    BY <2>10 DEF Kept, Stays, Ro, Fixed, Alloc
  <2>12. d.heap[a] = b
    BY <2>2, <2>5, <2>8
  <2> QED
    BY <2>2, <2>6, <2>8, <2>9, <2>10, <2>11, <2>12 DEF Got, Live
<1> QED
  BY <1>2, <1>3

\* A holder comes or goes where nobody counts.
LEMMA HeapUncounted ==
  ASSUME NEW hp, NEW k \in [Places -> Nat], NEW l \in [Places -> Nat], NEW x \in Places,
         Heaps(hp, k, Null), \A y \in Places : y # x => l[y] = k[y],
         Stays(hp[x])
  PROVE  Heaps(hp, l, Null)
<1>1. /\ hp = [y \in Places |-> hp[y]]
      /\ \A y \in Places : y # Null => SoundBlock(hp[y])
      /\ \A a \in Addr : CountOK(hp[a], k[a])
      /\ Ro(hp[Empty]) /\ Ro(hp[Lit]) /\ hp[Empty].text = <<>>
      /\ hp[Fix].kind \in {"fixed", "free"}
      /\ k[Fix] # 0 => Fixed(hp[Fix])
  BY DEF Heaps
<1>2. \A a \in Addr : CountOK(hp[a], l[a])
  <2> SUFFICES ASSUME NEW a \in Addr
               PROVE  CountOK(hp[a], l[a])
    OBVIOUS
  <2>1. CASE a = x
    <3>1. CountOK(hp[x], k[x])
      BY <1>1, <2>1
    <3> QED
      BY <2>1, <3>1 DEF CountOK, Stays, Ro, Fixed, Alloc
  <2>2. CASE a # x
    BY <1>1, <2>2, PlacesFacts
  <2> QED
    BY <2>1, <2>2
<1>3. l[Fix] # 0 => Fixed(hp[Fix])
  <2>1. CASE Fix = x
    BY <1>1, <2>1 DEF Stays, Ro, Fixed, Alloc
  <2>2. CASE Fix # x
    BY <1>1, <2>2, PlacesFacts
  <2> QED
    BY <2>1, <2>2
<1> QED
  BY <1>1, <1>2, <1>3 DEF Heaps

\* One holder less.
LEMMA FreeHeap ==
  ASSUME NEW c, IsCall(c), NEW l \in [Places -> Nat], NEW x \in Places,
         Heaps(c.heap, With(l, x), Null), NEW d, d = Free(c, x)
  PROVE  /\ Heaps(d.heap, l, Null)
         /\ d = [c EXCEPT !.heap = d.heap]
         /\ \A y \in Places : y # x => d.heap[y] = c.heap[y]
         /\ \A y \in Places : /\ Stays(c.heap[y]) => d.heap[y] = c.heap[y]
                              /\ Live(d.heap[y]) => /\ d.heap[y].text = c.heap[y].text
                                                    /\ d.heap[y].kind = c.heap[y].kind
                                                    /\ d.heap[y].rb = c.heap[y].rb
                                                    /\ d.heap[y].sized = c.heap[y].sized
<1> DEFINE b == c.heap[x]
           k == With(l, x)
<1>1. /\ c = [heap |-> c.heap, s |-> c.s, n |-> c.n, ok |-> c.ok, wild |-> c.wild, conf |-> c.conf]
      /\ c.heap = [y \in Places |-> c.heap[y]]
  BY DEF IsCall, Heaps
<1>2. /\ k \in [Places -> Nat] /\ k[x] = l[x] + 1 /\ l[x] \in Nat
      /\ \A y \in Places : y # x => l[y] = k[y]
  BY WithFacts
<1> HIDE DEF k
<1>3. Heaps(c.heap, k, Null)
  BY DEF k
<1>4. /\ SoundBlock(b) /\ IsBlock(b) /\ Live(b) /\ (Alloc(b) => x \in Addr)
  BY <1>2, <1>3, PlaceFacts
<1>5. x # Null /\ b.kind \notin {"free", "raw"} /\ b.ref \in Nat /\ b.rb \in Nat
  BY <1>4, PlacesFacts, BlockParts DEF Live, Widths
<1>6. CASE ~Alloc(b) \/ (b.rb > 0 /\ b.ref = 0)
  <2>1. d = c
    BY <1>5, <1>6 DEF Free
  <2>2. Stays(b)
    BY <1>4, <1>5, <1>6 DEF Stays, Live, Ro, Fixed, Alloc
  <2>3. Heaps(c.heap, l, Null)
    BY <1>2, <1>3, <2>2, HeapUncounted
  <2>4. c = [c EXCEPT !.heap = c.heap]
    BY <1>1
  <2> QED
    BY <2>1, <2>3, <2>4
<1>7. CASE ~(~Alloc(b) \/ (b.rb > 0 /\ b.ref = 0))
  <2>1. Alloc(b) /\ x \in Addr /\ ~Stays(b) /\ CountOK(b, k[x])
    <3>1. Alloc(b) /\ x \in Addr /\ ~(b.rb > 0 /\ b.ref = 0)
      BY <1>4, <1>7
    <3>2. CountOK(b, k[x])
      BY <1>3, <3>1 DEF Heaps
    <3> HIDE DEF b
    <3>3. ~Stays(b)
      BY <1>5, <3>1 DEF Stays, Ro, Fixed, Alloc
    <3> QED
      BY <3>1, <3>2, <3>3
  <2> DEFINE nb == IF b.rb = 0 \/ b.ref = 1 THEN FreeBlock ELSE [b EXCEPT !.ref = b.ref - 1]
             hp == [c.heap EXCEPT ![x] = nb]
  <2>2. d = [c EXCEPT !.heap = hp]
    <3>1. CASE b.rb = 0 \/ b.ref = 1
      BY <1>5, <1>7, <3>1 DEF Free
    <3>2. CASE ~(b.rb = 0 \/ b.ref = 1)
      BY <1>5, <1>7, <3>2 DEF Free
    <3> QED
      BY <3>1, <3>2
  <2>3. /\ SoundBlock(nb) /\ CountOK(nb, l[x])
        /\ Live(nb) => nb.text = b.text /\ nb.kind = b.kind /\ nb.rb = b.rb /\ nb.sized = b.sized
    <3>1. CASE b.rb = 0 \/ b.ref = 1
      <4>1. k[x] = 1
        BY <2>1, <3>1, <1>5 DEF CountOK, Alloc
      <4>2. l[x] = 0
        BY <1>2, <4>1
      <4> QED
        BY <3>1, <4>2, FreeSound DEF CountOK, Live
    <3>2. CASE ~(b.rb = 0 \/ b.ref = 1)
      <4>1. b.rb > 0 /\ b.ref = k[x] /\ b.ref <= RefLimit(b) /\ b.kind = "alloc"
        BY <2>1, <3>2, <1>5, <1>7 DEF CountOK, Alloc
      <4>2. b.ref - 1 \in Nat /\ b.ref - 1 = l[x]
        BY <4>1, <1>2, <1>5
      <4>3. LET e == [b EXCEPT !.ref = b.ref - 1]
            IN  /\ SoundBlock(e) /\ e.kind = b.kind /\ e.rb = b.rb /\ e.ref = b.ref - 1 /\ e.text = b.text
                /\ e.sized = b.sized
        <5>1. [b EXCEPT !.ref = b.ref - 1].sized = b.sized
          BY <1>4 DEF IsBlock
        <5> QED
          BY <1>4, <4>2, <5>1, CountSound
      <4>4. nb = [b EXCEPT !.ref = b.ref - 1]
        BY <3>2
      <4> HIDE DEF nb, b
      <4>5. RefLimit(nb) = RefLimit(b)
        BY <4>3, <4>4 DEF RefLimit
      <4>6. RefLimit(b) \in Int
        <5>1. Values(RefRadix, b.rb) \in Nat
          BY <1>4, BlockParts, ValuesGrow, RadixAssumption
        <5> QED
          BY <5>1 DEF RefLimit
      <4>7. CountOK(nb, l[x])
        BY <4>1, <4>2, <4>3, <4>4, <4>5, <4>6, <1>5 DEF CountOK
      <4> QED
        BY <4>3, <4>4, <4>7
    <3> QED
      BY <3>1, <3>2
  <2> HIDE DEF nb
  <2>4. Heaps(hp, l, Null)
    BY <1>2, <1>3, <2>1, <2>3, HeapCount
  <2>5. \A y \in Places : hp[y] = IF y = x THEN nb ELSE c.heap[y]
    BY <1>1
  <2> HIDE DEF hp
  <2>6. d.heap = hp
    BY <1>1, <2>2
  <2> QED
    BY <2>1, <2>2, <2>3, <2>4, <2>5, <2>6
<1> QED
  BY <1>6, <1>7

\* A holder that was counted lets go.
LEMMA FreeGood ==
  ASSUME NEW c, NEW k \in [Places -> Nat], NEW x \in Places, Good(c, With(k, x)),
         NEW d, d = Free(c, x)
  PROVE  /\ Good(d, k) /\ Kept(c, d) /\ d.ok = c.ok /\ d.s = c.s /\ d.n = c.n
         /\ Edits(c, With(k, x)) => Post(c, k, d) /\ Text(d) = Text(c)
<1>1. /\ IsCall(c) /\ Heaps(c.heap, With(With(k, x), c.s), Null)
      /\ c = [heap |-> c.heap, s |-> c.s, n |-> c.n, ok |-> c.ok, wild |-> c.wild, conf |-> c.conf]
  BY GoodFacts DEF Good
<1>2. Heaps(c.heap, With(With(k, c.s), x), Null) /\ With(k, c.s) \in [Places -> Nat]
  <2>1. With(With(k, x), c.s) = With(With(k, c.s), x)
    BY WithCommutes
  <2>2. With(k, c.s) \in [Places -> Nat]
    BY WithFacts
  <2> QED
    BY <1>1, <2>1, <2>2
<1>3. /\ Heaps(d.heap, With(k, c.s), Null)
      /\ d = [c EXCEPT !.heap = d.heap]
      /\ \A y \in Places : /\ Stays(c.heap[y]) => d.heap[y] = c.heap[y]
                           /\ Live(d.heap[y]) => d.heap[y].text = c.heap[y].text
  BY <1>1, <1>2, FreeHeap
<1>4. /\ d = [heap |-> d.heap, s |-> c.s, n |-> c.n, ok |-> c.ok, wild |-> c.wild, conf |-> c.conf]
      /\ d.s = c.s /\ d.n = c.n /\ d.ok = c.ok /\ d.wild = c.wild /\ d.conf = c.conf
  BY <1>1, <1>3
<1>5. Good(d, k)
  BY <1>1, <1>3, <1>4 DEF Good, IsCall
<1>6. Kept(c, d)
  BY <1>3 DEF Kept
<1>7. ASSUME Edits(c, With(k, x)) PROVE Post(c, k, d) /\ Text(d) = Text(c)
  <2>1. Edits(d, k) /\ c.s \in Places
    BY <1>4, <1>5, <1>7 DEF Edits
  <2>2. Live(d.heap[c.s])
    BY <2>1, <1>4, StrFacts
  <2> QED
    BY <2>1, <2>2, <1>3, <1>4, <1>6 DEF Post, Text, Str
<1> QED
  BY <1>4, <1>5, <1>6, <1>7

\* The caller's string is let go and another one takes its place.
LEMMA ScFree2Good ==
  ASSUME NEW c, NEW k \in [Places -> Nat], NEW x, x \in Places \/ x = Null, Good(c, With(k, x)),
         c.s \in Places, NEW d, d = ScFree2(c, x)
  PROVE  /\ Good(d, k) /\ Kept(c, d) /\ d.s = x /\ d.n = c.n
         /\ d.ok <=> c.ok
         /\ x \in Places => /\ Post(c, k, d) /\ Text(d) = c.heap[x].text
                            /\ x # c.s => Str(d) = c.heap[x]
<1>1. /\ IsCall(c) /\ Heaps(c.heap, With(With(k, x), c.s), Null)
      /\ c = [heap |-> c.heap, s |-> c.s, n |-> c.n, ok |-> c.ok, wild |-> c.wild, conf |-> c.conf]
  BY GoodFacts DEF Good
<1>2. With(k, x) \in [Places -> Nat]
  BY WithFacts
<1>3. PICK e : e = Free(c, c.s)
  OBVIOUS
<1>4. /\ Heaps(e.heap, With(k, x), Null)
      /\ e = [c EXCEPT !.heap = e.heap]
      /\ \A y \in Places : y # c.s => e.heap[y] = c.heap[y]
      /\ \A y \in Places : /\ Stays(c.heap[y]) => e.heap[y] = c.heap[y]
                           /\ Live(e.heap[y]) => e.heap[y].text = c.heap[y].text
  BY <1>1, <1>2, <1>3, FreeHeap
<1>5. d = [e EXCEPT !.s = x]
  BY <1>3 DEF ScFree2
<1>6. /\ d = [heap |-> e.heap, s |-> x, n |-> c.n, ok |-> c.ok, wild |-> c.wild, conf |-> c.conf]
      /\ d.s = x /\ d.n = c.n /\ d.ok = c.ok /\ d.wild = c.wild /\ d.conf = c.conf /\ d.heap = e.heap
  BY <1>1, <1>4, <1>5
<1>7. Good(d, k)
  BY <1>1, <1>4, <1>6 DEF Good, IsCall
<1>8. Kept(c, d)
  BY <1>4, <1>6 DEF Kept
<1>9. ASSUME x \in Places PROVE /\ Post(c, k, d) /\ Text(d) = c.heap[x].text
                                /\ x # c.s => Str(d) = c.heap[x]
  <2>1. Edits(d, k)
    BY <1>6, <1>7, <1>9 DEF Edits
  <2>2. Live(d.heap[x])
    BY <2>1, <1>6, StrFacts
  <2> QED
    BY <2>1, <2>2, <1>4, <1>6, <1>8, <1>9 DEF Post, Text, Str
<1> QED
  BY <1>6, <1>7, <1>8, <1>9

\* A block that nobody counts may get another holder.
LEMMA CountUp ==
  ASSUME NEW c, NEW k, Good(c, k), NEW x \in Places, Stays(c.heap[x])
  PROVE  Good(c, With(k, x))
<1>1. /\ IsCall(c)
      /\ k \in [Places -> Nat] /\ With(k, c.s) \in [Places -> Nat] /\ Heaps(c.heap, With(k, c.s), Null)
  BY GoodFacts DEF Good
<1> DEFINE l == With(With(k, c.s), x)
<1>2. l \in [Places -> Nat] /\ \A y \in Places : y # x => l[y] = With(k, c.s)[y]
  BY <1>1, WithFacts
<1>3. l = With(With(k, x), c.s)
  BY <1>1, WithCommutes DEF l
<1> HIDE DEF l
<1>4. Heaps(c.heap, l, Null)
  BY <1>1, <1>2, HeapUncounted
<1>5. With(k, x) \in [Places -> Nat]
  BY <1>1, WithFacts
<1> QED
  BY <1>1, <1>3, <1>4, <1>5 DEF Good

\* Where the newest pointer leads is nobody's business.
LEMMA NamedGood ==
  ASSUME NEW c, NEW k, Good(c, k), NEW x, NEW d, d = [c EXCEPT !.n = x]
  PROVE  /\ Good(d, k) /\ d.n = x /\ d.s = c.s /\ d.heap = c.heap /\ d.conf = c.conf
         /\ d.ok = c.ok /\ d.ok \in BOOLEAN /\ Kept(c, d)
         /\ Edits(c, k) => Post(c, k, d) /\ Text(d) = Text(c) /\ Str(d) = Str(c)
<1>1. c = [heap |-> c.heap, s |-> c.s, n |-> c.n, ok |-> c.ok, wild |-> c.wild, conf |-> c.conf]
      /\ c.ok \in BOOLEAN
  BY GoodFacts
<1>2. d = [heap |-> c.heap, s |-> c.s, n |-> x, ok |-> c.ok, wild |-> c.wild, conf |-> c.conf]
  BY <1>1
<1>3. d.heap = c.heap /\ d.s = c.s /\ d.n = x /\ d.ok = c.ok /\ d.wild = c.wild /\ d.conf = c.conf
  BY <1>2
<1>4. Good(d, k)
  BY <1>2, <1>3 DEF Good, IsCall
<1>5. Kept(c, d)
  BY <1>3 DEF Kept
<1> QED
  BY <1>1, <1>3, <1>4, <1>5 DEF Post, Edits, Str, Text

\* A pointer that came with the call is taken for the new one.
LEMMA PointAt ==
  ASSUME NEW c, NEW k, Good(c, k), NEW x \in Places, Stays(c.heap[x]),
         NEW d, d = [Done(c) EXCEPT !.n = x]
  PROVE  Got(c, k, d) /\ d.ok = TRUE /\ d.n = x /\ d.heap = c.heap
<1>1. /\ Good(Done(c), k) /\ Done(c).heap = c.heap /\ Done(c).ok = TRUE /\ Done(c).s = c.s
  BY DoneGood
<1>2. Good(Done(c), With(k, x))
  BY <1>1, CountUp
<1>3. /\ Good(d, With(k, x)) /\ d.n = x /\ d.s = c.s /\ d.heap = c.heap /\ d.ok = TRUE
  BY <1>1, <1>2, NamedGood
<1> QED
  BY <1>3 DEF Got, Kept

\* The library's "" and the literal are there for ever.
LEMMA LibraryEmpty ==
  ASSUME NEW c, NEW k, Good(c, k)
  PROVE  /\ Stays(c.heap[Empty]) /\ c.heap[Empty].text = <<>> /\ Empty \in Places /\ Empty # Null
         /\ Stays(c.heap[Lit]) /\ Lit \in Places
BY GoodFacts, PlacesFacts DEF Heaps, Stays

\* ustrp__dupx_undef.
LEMMA DupxUndefGood ==
  ASSUME NEW c, NEW k, Good(c, k), NEW q, FitsConf(q), NEW text, IsText(text), Len(text) <= MaxLen,
         NEW d \in DupxUndef(c, q, text)
  PROVE  /\ Got(c, k, d)
         /\ d.ok => /\ d.heap[d.n].text = text
                    /\ text # <<>> => Owner(d.heap[d.n]) /\ d.n # c.s
<1>1. CASE text = <<>> /\ CfgEq(q, c.conf)
  <2>1. d = [Done(c) EXCEPT !.n = Empty]
    BY <1>1 DEF DupxUndef
  <2>2. Stays(c.heap[Empty]) /\ c.heap[Empty].text = <<>> /\ Empty \in Places
    BY LibraryEmpty
  <2>3. Got(c, k, d) /\ d.n = Empty /\ d.heap = c.heap
    BY ZenonT(40), <2>1, <2>2, PointAt
  <2> QED
    BY <1>1, <2>2, <2>3
<1>2. CASE ~(text = <<>> /\ CfgEq(q, c.conf))
  <2>1. d \in NewBlock(c, InitAlloc(q, InitSize(q, Len(text)), text))
    BY <1>2 DEF DupxUndef
  <2>2. LET b == InitAlloc(q, InitSize(q, Len(text)), text)
        IN  SoundBlock(b) /\ b.kind = "alloc" /\ b.text = text /\ CountOK(b, 1) /\ Owner(b)
    BY InitSizedSound, InitUnsizedSound
  <2>3. PICK b : b = InitAlloc(q, InitSize(q, Len(text)), text)
    OBVIOUS
  <2>4. SoundBlock(b) /\ Alloc(b) /\ b.text = text /\ CountOK(b, 1) /\ Owner(b) /\ d \in NewBlock(c, b)
    BY <2>1, <2>2, <2>3 DEF Alloc
  <2> QED
    BY <2>4, NewBlockGood
<1> QED
  BY <1>1, <1>2

\* What is read is a text.
LEMMA BytesText ==
  ASSUME NEW c, NEW src, NEW len \in Nat
  PROVE  IsText(Bytes(c, src, len)) /\ Len(Bytes(c, src, len)) = len
<1>1. PICK t : t = Bytes(c, src, len)
  OBVIOUS
<1>2. t = [i \in 1 .. len |-> t[i]]
  BY <1>1 DEF Bytes
<1> QED
  BY <1>1, <1>2, TextOfFunction

\* ustrp__dupx_buf.
LEMMA DupxBufGood ==
  ASSUME NEW c, NEW k, Good(c, k), NEW q, FitsConf(q), NEW src, NEW len \in Nat, len <= MaxLen,
         len # 0 => SrcOK(c, src),
         NEW d \in DupxBuf(c, q, src, len)
  PROVE  /\ Got(c, k, d)
         /\ d.ok => /\ d.heap[d.n].text = Bytes(c, src, len)
                    /\ len # 0 => Owner(d.heap[d.n]) /\ d.n # c.s
<1>1. PICK e \in DupxUndef(c, q, Bytes(c, src, len)) :
        d = IF e.ok THEN [e EXCEPT !.wild = @ \/ ~Readable(c, src, len)] ELSE e
  BY DEF DupxBuf
<1>2. IsText(Bytes(c, src, len)) /\ Len(Bytes(c, src, len)) = len
  BY BytesText
<1>3. /\ Got(c, k, e)
      /\ e.ok => /\ e.heap[e.n].text = Bytes(c, src, len)
                 /\ Bytes(c, src, len) # <<>> => Owner(e.heap[e.n]) /\ e.n # c.s
  BY <1>1, <1>2, DupxUndefGood
<1>4. Readable(c, src, len)
  BY DEF Readable, SrcOK, Live
<1>5. d = e
  <2>1. CASE e.ok
    <3>1. e = [heap |-> e.heap, s |-> e.s, n |-> e.n, ok |-> e.ok, wild |-> e.wild, conf |-> e.conf]
          /\ e.wild = FALSE
      BY <1>3, <2>1, GoodFacts DEF Got
    <3>2. (e.wild \/ ~Readable(c, src, len)) = e.wild
      BY <1>4, <3>1
    <3>3. d = [e EXCEPT !.wild = (e.wild \/ ~Readable(c, src, len))]
      BY <1>1, <2>1
    <3> QED
      BY <3>1, <3>2, <3>3
  <2>2. CASE ~e.ok
    BY <1>1, <2>2
  <2> QED
    BY <2>1, <2>2
<1> QED
  BY <1>2, <1>3, <1>5, EmptyText

\* The new block of a function that returned one is marked.
LEMMA MarkGood ==
  ASSUME NEW c, NEW k, Good(c, k), NEW e, Got(c, k, e), e.ok, Owner(e.heap[e.n]), e.n # c.s,
         c.heap[e.n].kind = "free",
         NEW flag \in BOOLEAN, NEW d, d = [e EXCEPT !.heap[e.n].emem = flag]
  PROVE  /\ Got(c, k, d) /\ d.ok = e.ok /\ d.n = e.n
         /\ d.heap[d.n].text = e.heap[e.n].text /\ Owner(d.heap[d.n])
<1> DEFINE b == [e.heap[e.n] EXCEPT !.emem = flag]
           hp == [e.heap EXCEPT ![e.n] = b]
<1>1. /\ e = [heap |-> e.heap, s |-> e.s, n |-> e.n, ok |-> e.ok, wild |-> e.wild, conf |-> e.conf]
      /\ e.n \in Places /\ Good(e, With(k, e.n)) /\ e.heap = [x \in Places |-> e.heap[x]]
      /\ Heaps(e.heap, With(With(k, e.n), e.s), Null) /\ With(k, e.n) \in [Places -> Nat]
      /\ e.s = c.s
  BY GoodFacts DEF Got
<1>2. SoundBlock(b) /\ b.kind = e.heap[e.n].kind /\ b.rb = e.heap[e.n].rb /\ b.ref = e.heap[e.n].ref
      /\ b.text = e.heap[e.n].text
  BY <1>1, PlaceOf, FlagSound
<1>3. d = [e EXCEPT !.heap = hp]
  BY <1>1
<1>4. \A x \in Places : hp[x] = IF x = e.n THEN b ELSE e.heap[x]
  BY <1>1
<1> HIDE DEF b
<1>5. Heaps(hp, With(With(k, e.n), e.s), Null)
  BY <1>1, <1>2, HeapPut, PlacesFacts DEF Owner, Fixed, Alloc, Ro
<1> HIDE DEF hp
<1>6. /\ d = [heap |-> hp, s |-> e.s, n |-> e.n, ok |-> e.ok, wild |-> e.wild, conf |-> e.conf]
      /\ d.heap = hp /\ d.s = e.s /\ d.n = e.n /\ d.ok = e.ok /\ d.wild = e.wild /\ d.conf = e.conf
  BY <1>1, <1>3
<1>7. Good(d, With(k, e.n))
  BY <1>1, <1>5, <1>6 DEF Good, IsCall
<1>8. Kept(c, d)
  BY <1>1, <1>2, <1>4, <1>6 DEF Kept, Got, Stays, Ro, Fixed, Alloc
<1>9. \A x \in Places : Live(c.heap[x]) => d.heap[x] = e.heap[x]
  BY <1>4, <1>6 DEF Live
<1>10. d.heap[d.n] = b
  BY <1>1, <1>4, <1>6
<1>11. Owner(b)
  BY <1>2 DEF Owner, Fixed, Alloc
<1>12. d.ok => d.n \in Places /\ Good(d, With(k, d.n))
  BY <1>1, <1>6, <1>7
<1>13. \A x \in Places : Live(c.heap[x]) => /\ d.heap[x].text = c.heap[x].text
                                            /\ d.heap[x].kind = c.heap[x].kind
                                            /\ d.heap[x].sized = c.heap[x].sized
                                            /\ d.heap[x].rb = c.heap[x].rb
  BY <1>9 DEF Got
<1>14. d.s = c.s /\ d.ok = e.ok /\ e.ok \in BOOLEAN
  BY <1>1, <1>6 DEF Got
<1>15. Got(c, k, d)
  BY <1>8, <1>12, <1>13, <1>14 DEF Got
<1> QED
  BY <1>2, <1>6, <1>10, <1>11, <1>15

\* ustrp__dupx_empty.
LEMMA DupxEmptyGood ==
  ASSUME NEW c, NEW k, Good(c, k), NEW q, FitsConf(q), FitsConf([q EXCEPT !.emem = TRUE]),
         NEW d \in DupxEmpty(c, q)
  PROVE  /\ Got(c, k, d)
         /\ d.ok => d.heap[d.n].text = <<>>
<1>1. PICK e \in DupxUndef(c, [q EXCEPT !.emem = TRUE], <<>>) :
        d = IF e.ok /\ Owner(e.heap[e.n]) THEN [e EXCEPT !.heap[e.n].emem = q.emem] ELSE e
  BY DEF DupxEmpty
<1>2. Got(c, k, e) /\ (e.ok => e.heap[e.n].text = <<>>)
  BY <1>1, DupxUndefGood, EmptyText, MaxLenNat
<1>3. CASE e.ok /\ Owner(e.heap[e.n])
  <2>1. e.n # Empty
    <3>1. Ro(e.heap[Empty])
      BY <1>2, <1>3 DEF Got, Good, Heaps
    <3> QED
      BY <1>3, <3>1 DEF Owner, Ro, Fixed, Alloc
  <2>2. PICK b : b = InitAlloc([q EXCEPT !.emem = TRUE], InitSize([q EXCEPT !.emem = TRUE], Len(<<>>)), <<>>)
    OBVIOUS
  <2>3. e # [Done(c) EXCEPT !.n = Empty]
    <3>1. [Done(c) EXCEPT !.n = Empty].n = Empty
      BY GoodFacts DEF Done
    <3> QED
      BY <2>1, <3>1
  <2>4. e \in NewBlock(c, b)
    BY <1>1, <2>2, <2>3 DEF DupxUndef
  <2>5. SoundBlock(b) /\ Alloc(b) /\ CountOK(b, 1)
    BY <2>2, InitSizedSound, InitUnsizedSound, EmptyText, MaxLenNat DEF Alloc
  <2>6. c.heap[e.n].kind = "free" /\ e.n # c.s
    <3>1. e # [Fail(c) EXCEPT !.n = Null]
      <4>1. [Fail(c) EXCEPT !.n = Null].ok = FALSE
        BY GoodFacts DEF Fail
      <4> QED
        BY <1>3, <4>1
    <3>2. PICK a \in Fresh(c) : e = [Done(c) EXCEPT !.heap[a] = b, !.n = a, !.wild = @ \/ b.kind = "raw"]
      BY <2>4, <3>1 DEF NewBlock
    <3>3. e.n = a
      BY <3>2, GoodFacts DEF Done
    <3>4. e.n # c.s
      BY <1>3, <2>4, <2>5, NewBlockGood
    <3> QED
      BY <3>3, <3>4, FreshFree
  <2>7. q.emem \in BOOLEAN
    BY DEF FitsConf, IsConf
  <2>8. d = [e EXCEPT !.heap[e.n].emem = q.emem]
    BY <1>1, <1>3
  <2> QED
    BY <1>2, <1>3, <2>6, <2>7, <2>8, MarkGood
<1>4. CASE ~(e.ok /\ Owner(e.heap[e.n]))
  BY <1>1, <1>2, <1>4
<1> QED
  BY <1>3, <1>4

\* One holder more, or a copy.
LEMMA RefAddGood ==
  ASSUME NEW c, NEW k, Good(c, k), NEW x \in Places, Live(c.heap[x]), NEW d, d = RefAdd(c, x)
  PROVE  /\ d.ok => /\ Good(d, With(k, x)) /\ d.s = c.s /\ Kept(c, d)
                    /\ \A y \in Places : /\ d.heap[y].text = c.heap[y].text
                                         /\ d.heap[y].kind = c.heap[y].kind
                                         /\ d.heap[y].sized = c.heap[y].sized
                                         /\ d.heap[y].rb = c.heap[y].rb
         /\ ~d.ok => d = Fail(c)
         /\ d.ok \in BOOLEAN
<1> DEFINE b == c.heap[x]
<1>1. /\ c = [heap |-> c.heap, s |-> c.s, n |-> c.n, ok |-> c.ok, wild |-> c.wild, conf |-> c.conf]
      /\ c.wild = FALSE /\ FitsConf(c.conf) /\ IsCall(c)
      /\ k \in [Places -> Nat] /\ With(k, c.s) \in [Places -> Nat] /\ Heaps(c.heap, With(k, c.s), Null)
      /\ c.heap = [y \in Places |-> c.heap[y]]
  BY GoodFacts DEF Good
<1>2. SoundBlock(b) /\ IsBlock(b) /\ (Alloc(b) => x \in Addr) /\ b.rb \in Nat /\ b.ref \in Nat /\ b.rb \in Widths
  <2>1. SoundBlock(b) /\ IsBlock(b) /\ (Alloc(b) => x \in Addr)
    BY PlaceOf
  <2> QED
    BY <2>1, BlockParts DEF Widths
<1>3. CASE Ro(b) \/ (Alloc(b) /\ b.rb > 0 /\ b.ref = 0)
  <2>1. d = Done(c)
    BY <1>3 DEF RefAdd
  <2>2. Stays(b)
    BY <1>2, <1>3 DEF Stays
  <2>3. Good(d, k) /\ d.heap = c.heap /\ d.ok = TRUE /\ d.s = c.s /\ Kept(c, d)
    BY <2>1, DoneGood
  <2>4. Good(d, With(k, x))
    BY <2>2, <2>3, CountUp
  <2> QED
    BY <2>3, <2>4
<1>4. CASE /\ ~(Ro(b) \/ (Alloc(b) /\ b.rb > 0 /\ b.ref = 0))
           /\ Fixed(b) \/ b.rb = 0 \/ b.ref = RefLimit(b)
  <2>1. d = Fail(c)
    BY <1>4 DEF RefAdd
  <2>2. d.ok = FALSE
    BY <1>1, <2>1 DEF Fail
  <2> QED
    BY <2>1, <2>2
<1>5. CASE /\ ~(Ro(b) \/ (Alloc(b) /\ b.rb > 0 /\ b.ref = 0))
           /\ ~(Fixed(b) \/ b.rb = 0 \/ b.ref = RefLimit(b))
  <2> DEFINE nb == [b EXCEPT !.ref = b.ref + 1]
             hp == [c.heap EXCEPT ![x] = nb]
             l == With(With(k, c.s), x)
  <2>1. d = [c EXCEPT !.ok = TRUE, !.heap = hp]
    BY <1>1, <1>5 DEF RefAdd, Done
  <2>2. Alloc(b) /\ x \in Addr /\ b.rb > 0 /\ b.ref # 0 /\ b.ref # RefLimit(b) /\ b.kind = "alloc"
    <3> HIDE DEF b
    <3>1. Live(b)
      BY DEF b
    <3> QED
      BY <1>2, <1>5, <3>1 DEF Live, Ro, Fixed, Alloc
  <2>3. CountOK(b, With(k, c.s)[x])
    BY <1>1, <2>2 DEF Heaps
  <2>4. b.ref = With(k, c.s)[x] /\ b.ref <= RefLimit(b) /\ RefLimit(b) \in Int
    <3>1. Values(RefRadix, b.rb) \in Nat
      BY <1>2, ValuesGrow, RadixAssumption
    <3> QED
      BY <1>2, <2>2, <2>3, <3>1 DEF CountOK, RefLimit
  <2>5. l \in [Places -> Nat] /\ l[x] = b.ref + 1 /\ \A y \in Places : y # x => l[y] = With(k, c.s)[y]
    BY <1>1, <2>4, WithFacts
  <2>6. SoundBlock(nb) /\ nb.kind = b.kind /\ nb.rb = b.rb /\ nb.ref = b.ref + 1 /\ nb.text = b.text
        /\ nb.sized = b.sized
    <3>1. nb.sized = b.sized
      BY <1>2 DEF IsBlock
    <3>2. b.ref + 1 \in Nat
      BY <1>2
    <3> QED
      BY <1>2, <3>1, <3>2, CountSound
  <2> HIDE DEF nb, l
  <2>7. CountOK(nb, l[x])
    <3>1. RefLimit(nb) = RefLimit(b)
      BY <2>6 DEF RefLimit
    <3> QED
      BY <1>2, <2>2, <2>4, <2>5, <2>6, <3>1 DEF CountOK
  <2>8. Heaps(hp, l, Null)
    BY <1>1, <2>2, <2>5, <2>6, <2>7, HeapCount
  <2>9. \A y \in Places : hp[y] = IF y = x THEN nb ELSE c.heap[y]
    BY <1>1
  <2> HIDE DEF hp
  <2>10. d = [heap |-> hp, s |-> c.s, n |-> c.n, ok |-> TRUE, wild |-> c.wild, conf |-> c.conf]
    BY <1>1, <2>1
  <2>11. /\ d.heap = hp /\ d.s = c.s /\ d.n = c.n /\ d.ok = TRUE /\ d.wild = c.wild /\ d.conf = c.conf
    BY <2>10
  <2>12. Heaps(hp, With(With(k, x), c.s), Null) /\ With(k, x) \in [Places -> Nat]
    <3>1. l = With(With(k, x), c.s)
      BY <1>1, WithCommutes DEF l
    <3>2. With(k, x) \in [Places -> Nat]
      BY <1>1, WithFacts
    <3> QED
      BY <2>8, <3>1, <3>2
  <2>13. Good(d, With(k, x))
    BY <1>1, <2>10, <2>11, <2>12 DEF Good, IsCall
  <2>14. ~Stays(b)
    BY <2>2 DEF Stays, Ro, Fixed, Alloc
  <2>15. Kept(c, d)
    BY <2>9, <2>11, <2>14 DEF Kept
  <2>16. \A y \in Places : /\ d.heap[y].text = c.heap[y].text
                           /\ d.heap[y].kind = c.heap[y].kind
                           /\ d.heap[y].sized = c.heap[y].sized
                           /\ d.heap[y].rb = c.heap[y].rb
    <3>1. nb.rb = b.rb
      BY <2>6
    <3> QED
      BY <2>6, <2>9, <2>11, <3>1
  <2> QED
    BY <2>11, <2>13, <2>15, <2>16
<1> QED
  BY <1>3, <1>4, <1>5

\* Reading all of a text.
LEMMA BytesWhole ==
  ASSUME NEW c, NEW x, x # Null, IsText(c.heap[x].text)
  PROVE  Bytes(c, Of(x, 0), Len(c.heap[x].text)) = c.heap[x].text
<1>1. PICK t, n : t = c.heap[x].text /\ n = Len(t)
  OBVIOUS
<1>2. n \in Nat /\ t = [i \in 1 .. n |-> t[i]]
  BY <1>1, TextIsFunction
<1>3. Bytes(c, Of(x, 0), n) = [i \in 1 .. n |-> IF 0 + i <= Len(t) THEN t[0 + i] ELSE Junk]
  BY <1>1 DEF Bytes, Of
<1>4. \A i \in 1 .. n : 0 + i = i /\ i <= Len(t)
  BY <1>1, <1>2
<1>5. Bytes(c, Of(x, 0), n) = t
  BY <1>2, <1>3, <1>4
<1> QED
  BY <1>1, <1>5

\* ustrp__dup: another holder, or a copy.
LEMMA DupGood ==
  ASSUME NEW c, NEW k, Good(c, k), NEW x \in Places, Live(c.heap[x]), NEW d \in Dup(c, x)
  PROVE  /\ Got(c, k, d)
         /\ d.ok => /\ d.heap[d.n].text = c.heap[x].text
                    /\ Len(d.heap[d.n].text) = Len(c.heap[x].text)
<1>1. PICK e : e = RefAdd(c, x)
  OBVIOUS
<1>2. /\ e.ok => /\ Good(e, With(k, x)) /\ e.s = c.s /\ Kept(c, e)
                 /\ \A y \in Places : /\ e.heap[y].text = c.heap[y].text
                                      /\ e.heap[y].kind = c.heap[y].kind
                                      /\ e.heap[y].sized = c.heap[y].sized
                                      /\ e.heap[y].rb = c.heap[y].rb
      /\ ~e.ok => e = Fail(c)
  BY <1>1, RefAddGood
<1>3. CASE e.ok
  <2>1. d = [e EXCEPT !.n = x]
    BY <1>1, <1>3 DEF Dup
  <2>2. /\ Good(d, With(k, x)) /\ d.n = x /\ d.s = e.s /\ d.heap = e.heap /\ d.ok \in BOOLEAN
    BY <1>2, <1>3, <2>1, NamedGood
  <2>3. d.ok = e.ok
    BY <1>2, <1>3, <2>1, NamedGood
  <2> QED
    BY <1>2, <1>3, <2>2, <2>3 DEF Got, Kept
<1>4. CASE ~e.ok
  <2>1. e = Fail(c) /\ Good(e, k) /\ e.heap = c.heap /\ e.s = c.s /\ Kept(c, e)
    BY <1>2, <1>4, FailGood
  <2>2. d \in DupxBuf(e, From(c.heap[x], c.conf), Of(x, 0), Len(c.heap[x].text))
    <3>1. e.conf = c.conf
      BY <2>1, FailGood
    <3> QED
      BY <1>1, <1>4, <3>1 DEF Dup
  <2>3. FitsConf(From(c.heap[x], c.conf)) /\ Len(c.heap[x].text) \in Nat /\ Len(c.heap[x].text) <= MaxLen
    BY FromFits, PlaceOf
  <2>4. SrcOK(e, Of(x, 0))
    BY <2>1 DEF SrcOK, Of
  <2>5. /\ Got(e, k, d) /\ d.ok => d.heap[d.n].text = Bytes(e, Of(x, 0), Len(c.heap[x].text))
    BY <2>1, <2>2, <2>3, <2>4, DupxBufGood
  <2>6. Got(e, k, d)
    BY <2>1, <2>2, <2>3, <2>4, DupxBufGood
  <2>7. Got(c, k, d)
    BY <2>1, <2>6, KeptTrans DEF Got
  <2>8. Bytes(e, Of(x, 0), Len(c.heap[x].text)) = c.heap[x].text
    <3>1. e.heap[x].text = c.heap[x].text /\ IsText(c.heap[x].text) /\ x # Null
      BY <2>1, PlaceOf, PlacesFacts
    <3> QED
      BY <3>1, BytesWhole
  <2> QED
    BY <2>5, <2>6, <2>7, <2>8
<1> QED
  BY <1>3, <1>4

\* A part that is accepted lies within the text.
LEMMA GoodSubFits ==
  ASSUME NEW text, IsText(text), NEW pos \in Nat \ {0}, NEW len \in Nat \ {0},
         GoodSub(text, pos, len)
  PROVE  /\ pos - 1 + len <= Len(text) /\ len <= Len(text) /\ pos <= Len(text)
         /\ Len(text) \in Nat /\ pos - 1 \in Nat
<1>1. Len(text) \in Nat
  BY TextIsFunction
<1>2. ValidSub(text, pos, len)
  BY DEF GoodSub
<1> QED
  BY <1>1, <1>2 DEF ValidSub

\* ustrp__dupx.
LEMMA DupxGood ==
  ASSUME NEW c, NEW k, Good(c, k), NEW q, FitsConf(q), NEW x \in Places, Live(c.heap[x]),
         NEW d \in Dupx(c, q, x)
  PROVE  /\ Got(c, k, d)
         /\ d.ok => Len(d.heap[d.n].text) = Len(c.heap[x].text)
<1>1. CASE CfgEq(q, From(c.heap[x], c.conf))
  BY <1>1, DupGood DEF Dupx
<1>2. CASE ~CfgEq(q, From(c.heap[x], c.conf))
  <2>1. d \in DupxBuf(c, q, Of(x, 0), Len(c.heap[x].text))
    BY <1>2 DEF Dupx
  <2>2. SrcOK(c, Of(x, 0)) /\ Len(c.heap[x].text) \in Nat /\ Len(c.heap[x].text) <= MaxLen
    BY PlaceOf DEF SrcOK, Of
  <2> QED
    BY <2>1, <2>2, DupxBufGood, BytesText
<1> QED
  BY <1>1, <1>2

\* ustrp__dupx_subustr.
LEMMA DupxSubustrGood ==
  ASSUME NEW c, NEW k, Good(c, k), NEW q, FitsConf(q), NEW x \in Places, Live(c.heap[x]),
         NEW pos \in Nat \ {0}, NEW len \in Nat, NEW d \in DupxSubustr(c, q, x, pos, len)
  PROVE  /\ Got(c, k, d)
         /\ d.ok => Len(d.heap[d.n].text) = len
<1> DEFINE text == c.heap[x].text
<1>1. IsText(text) /\ Len(text) \in Nat /\ Len(text) <= MaxLen
  BY PlaceOf
<1>2. CASE len = 0
  <2>1. d \in DupxUndef(c, q, <<>>)
    BY <1>2 DEF DupxSubustr
  <2> QED
    BY <1>2, <2>1, DupxUndefGood, EmptyText, MaxLenNat
<1>3. CASE len # 0 /\ ~GoodSub(text, pos, len)
  <2>1. d = [Fail(c) EXCEPT !.n = Null]
    BY <1>3 DEF DupxSubustr
  <2>3. PICK f : f = Fail(c)
    OBVIOUS
  <2>4. Good(f, k) /\ f.s = c.s /\ f.heap = c.heap /\ f.ok = FALSE
    BY <2>3, FailGood
  <2>5. d = [f EXCEPT !.n = Null]
    BY <2>1, <2>3
  <2>2. Good(d, k) /\ d.s = c.s /\ d.heap = c.heap /\ d.ok = FALSE
    BY <2>4, <2>5, NamedGood
  <2> QED
    BY <2>2 DEF Got, Kept
<1>4. CASE len # 0 /\ GoodSub(text, pos, len) /\ len = Len(text)
  <2>1. d \in Dupx(c, q, x)
    BY <1>4 DEF DupxSubustr
  <2> QED
    BY <1>4, <2>1, DupxGood
<1>5. CASE len # 0 /\ GoodSub(text, pos, len) /\ len # Len(text)
  <2>1. d \in DupxBuf(c, q, Of(x, pos - 1), len)
    BY <1>5 DEF DupxSubustr
  <2>2. len <= Len(text)
    BY <1>1, <1>5, GoodSubFits
  <2>3. SrcOK(c, Of(x, pos - 1)) /\ len <= MaxLen
    BY <1>1, <2>2, MaxLenNat DEF SrcOK, Of
  <2> QED
    BY <2>1, <2>3, DupxBufGood, BytesText
<1> QED
  BY <1>2, <1>3, <1>4, <1>5

\* ustrp__dup_subustr.
LEMMA DupSubustrGood ==
  ASSUME NEW c, NEW k, Good(c, k), NEW x \in Places, Live(c.heap[x]),
         NEW pos \in Nat \ {0}, NEW len \in Nat, NEW d \in DupSubustr(c, x, pos, len)
  PROVE  /\ Got(c, k, d)
         /\ d.ok => Len(d.heap[d.n].text) = len
BY ZenonT(40), FromFits, DupxSubustrGood DEF DupSubustr

\* The new block takes the place of the caller's, or there is none.
LEMMA TakeNew ==
  ASSUME NEW c, NEW k, Edits(c, k), NEW d, Got(c, k, d), d.ok, NEW e, e = ScFree2(d, d.n)
  PROVE  /\ Post(c, k, e) /\ e.ok = TRUE /\ Text(e) = d.heap[d.n].text /\ e.s = d.n
         /\ d.n # c.s => Str(e) = d.heap[d.n]
<1>1. /\ d.s = c.s /\ Kept(c, d) /\ d.n \in Places /\ Good(d, With(k, d.n)) /\ d.ok = TRUE
      /\ c.s \in Places /\ k \in [Places -> Nat]
  BY GoodFacts DEF Got, Edits
<1>4. PICK x : x = d.n
  OBVIOUS
<1>5. x \in Places /\ Good(d, With(k, x)) /\ d.s \in Places /\ e = ScFree2(d, x)
  BY <1>1, <1>4
<1>6. Post(d, k, e) /\ Text(e) = d.heap[x].text /\ e.s = x
  BY <1>1, <1>5, ScFree2Good
<1>7. x # d.s => Str(e) = d.heap[x]
  BY <1>1, <1>5, ScFree2Good
<1>9. e.ok = TRUE
  BY <1>1, <1>5, ScFree2Good
<1>2. /\ Post(d, k, e) /\ Text(e) = d.heap[d.n].text /\ e.s = d.n
      /\ d.n # d.s => Str(e) = d.heap[d.n]
  BY <1>4, <1>6, <1>7
<1>3. Post(c, k, e)
  BY <1>1, <1>2, KeptTrans DEF Post
<1> QED
  BY <1>1, <1>2, <1>3, <1>9

\* No new block was to be had.
LEMMA TakeNone ==
  ASSUME NEW c, NEW k, Edits(c, k), NEW d, Got(c, k, d), ~d.ok
  PROVE  Post(c, k, d) /\ Text(d) = Text(c) /\ d.ok = FALSE /\ d.s = c.s
<1>1. Good(d, k) /\ d.s = c.s /\ Kept(c, d) /\ d.ok = FALSE
  BY DEF Got
<1>2. Live(c.heap[c.s]) /\ c.s \in Places
  BY StrFacts
<1>3. d.heap[c.s].text = c.heap[c.s].text
  BY <1>2 DEF Got
<1> QED
  BY <1>1, <1>2, <1>3 DEF Post, Edits, Text, Str

\* No new block was to be had, which the string remembers.
LEMMA TakeFlagged ==
  ASSUME NEW c, NEW k, Edits(c, k), NEW d, Got(c, k, d), ~d.ok, NEW e, e = Flagged(d)
  PROVE  Post(c, k, e) /\ Text(e) = Text(c) /\ e.ok = FALSE /\ e.s = c.s
<1>1. Post(c, k, d) /\ Text(d) = Text(c) /\ d.s = c.s /\ Edits(d, k)
  BY TakeNone DEF Post
<1>2. Post(d, k, e) /\ Text(e) = Text(d) /\ e.ok = FALSE /\ e.s = d.s
  BY <1>1, FlaggedGood
<1> QED
  BY <1>1, <1>2, PostTrans

\* A new block takes the place of one that cannot be written.
LEMMA RebuildGood ==
  ASSUME NEW c, NEW k, Edits(c, k), NEW text, IsText(text), Len(text) <= MaxLen,
         NEW d \in Rebuild(c, text)
  PROVE  /\ Post(c, k, d)
         /\ d.ok => Text(d) = text /\ (text # <<>> => Owner(Str(d)))
<1>1. PICK e \in DupxUndef(c, From(Str(c), c.conf), text) :
        d = IF e.ok THEN ScFree2(e, e.n) ELSE Flagged(e)
  BY DEF Rebuild
<1>2. Good(c, k) /\ FitsConf(From(Str(c), c.conf))
  <2>1. Good(c, k) /\ c.s \in Places /\ Str(c) = c.heap[c.s]
    BY StrFacts DEF Edits
  <2> QED
    BY <2>1, FromFits
<1>3. /\ Got(c, k, e)
      /\ e.ok => /\ e.heap[e.n].text = text
                 /\ text # <<>> => Owner(e.heap[e.n]) /\ e.n # c.s
  BY <1>1, <1>2, DupxUndefGood
<1>4. CASE e.ok
  <2>1. d = ScFree2(e, e.n)
    BY <1>1, <1>4
  <2> QED
    BY ZenonT(40), <1>3, <1>4, <2>1, TakeNew
<1>5. CASE ~e.ok
  <2>1. d = Flagged(e)
    BY <1>1, <1>5
  <2>2. Post(c, k, d) /\ d.ok = FALSE
    BY <1>3, <1>5, <2>1, TakeFlagged
  <2> QED
    BY <2>2
<1> QED
  BY <1>4, <1>5

\* The string becomes a copy of another one.
LEMMA BecomeCopyGood ==
  ASSUME NEW c, NEW k, Edits(c, k), NEW x \in Places, Live(c.heap[x]), NEW d \in BecomeCopy(c, x)
  PROVE  /\ Post(c, k, d)
         /\ d.ok => Len(Text(d)) = Len(c.heap[x].text)
<1>1. PICK e \in Dupx(c, From(Str(c), c.conf), x) :
        d = IF e.ok THEN ScFree2(e, e.n) ELSE Flagged(e)
  BY DEF BecomeCopy
<1>2. Good(c, k) /\ FitsConf(From(Str(c), c.conf))
  <2>1. Good(c, k) /\ c.s \in Places /\ Str(c) = c.heap[c.s]
    BY StrFacts DEF Edits
  <2> QED
    BY <2>1, FromFits
<1>3. /\ Got(c, k, e)
      /\ e.ok => Len(e.heap[e.n].text) = Len(c.heap[x].text)
  BY <1>1, <1>2, DupxGood
<1>4. CASE e.ok
  <2>1. d = ScFree2(e, e.n)
    BY <1>1, <1>4
  <2> QED
    BY <1>3, <1>4, <2>1, TakeNew
<1>5. CASE ~e.ok
  <2>1. d = Flagged(e)
    BY <1>1, <1>5
  <2>2. Post(c, k, d) /\ d.ok = FALSE
    BY <1>3, <1>5, <2>1, TakeFlagged
  <2> QED
    BY <2>2
<1> QED
  BY <1>4, <1>5

\* A block of one's own.
LEMMA EnsureOwnerGood ==
  ASSUME NEW c, NEW k, Edits(c, k), NEW d \in EnsureOwner(c)
  PROVE  /\ Post(c, k, d)
         /\ d.ok => /\ Len(Text(d)) = Len(Text(c))
                    /\ Len(Text(c)) # 0 => Owner(Str(d))
<1>0. Good(c, k) /\ c.s \in Places /\ Str(c) = c.heap[c.s] /\ Live(c.heap[c.s]) /\ IsText(Text(c))
      /\ Len(Text(c)) \in Nat /\ Len(Text(c)) <= MaxLen
  BY StrFacts DEF Edits
<1>1. CASE Owner(Str(c))
  <2>1. d = Done(c)
    BY <1>1 DEF EnsureOwner
  <2> QED
    BY <1>0, <1>1, <2>1, DoneGood
<1>2. CASE ~Owner(Str(c))
  <2> DEFINE q == From(Str(c), c.conf)
  <2>1. FitsConf(q) /\ FitsConf([q EXCEPT !.emem = TRUE])
    BY <1>0, FromFits
  <2> HIDE DEF q
  <2>2. PICK e : /\ d = IF e.ok THEN ScFree2(e, e.n) ELSE e
                 /\ Got(c, k, e)
                 /\ e.ok => /\ Len(e.heap[e.n].text) = Len(Text(c))
                            /\ Len(Text(c)) # 0 => Owner(e.heap[e.n]) /\ e.n # c.s
    <3>1. CASE Text(c) = <<>>
      <4>1. PICK e \in DupxEmpty(c, q) : d = IF e.ok THEN ScFree2(e, e.n) ELSE e
        BY <1>2, <3>1 DEF EnsureOwner, q
      <4>2. Got(c, k, e) /\ (e.ok => e.heap[e.n].text = <<>>)
        BY <1>0, <2>1, <4>1, DupxEmptyGood
      <4> QED
        BY <3>1, <4>1, <4>2, EmptyText
    <3>2. CASE Text(c) # <<>>
      <4>1. PICK e \in DupxBuf(c, q, Of(c.s, 0), Len(Text(c))) : d = IF e.ok THEN ScFree2(e, e.n) ELSE e
        BY <1>2, <3>2 DEF EnsureOwner, q
      <4>2. SrcOK(c, Of(c.s, 0))
        BY <1>0 DEF SrcOK, Of
      <4>3. /\ Got(c, k, e)
            /\ e.ok => /\ e.heap[e.n].text = Bytes(c, Of(c.s, 0), Len(Text(c)))
                       /\ Len(Text(c)) # 0 => Owner(e.heap[e.n]) /\ e.n # c.s
        BY <1>0, <2>1, <4>1, <4>2, DupxBufGood
      <4> QED
        BY <1>0, <4>1, <4>3, BytesText
    <3> QED
      BY <3>1, <3>2
  <2>3. CASE e.ok
    <3>1. d = ScFree2(e, e.n)
      BY <2>2, <2>3
    <3> QED
      BY <2>2, <2>3, <3>1, TakeNew
  <2>4. CASE ~e.ok
    <3>1. d = e
      BY <2>2, <2>4
    <3> QED
      BY <2>2, <2>4, <3>1, TakeNone
  <2> QED
    BY <2>3, <2>4
<1> QED
  BY <1>1, <1>2

-----------------------------------------------------------------------------
(* Memory that is asked to grow or shrink *)

\* The parts of a sound block that may be written.
LEMMA WritableParts ==
  ASSUME NEW b, SoundBlock(b), b.kind \in {"alloc", "fixed"}
  PROVE  /\ Overhead(b) = HeadAndTail(b.rb, b.lb, Fields(b.sized)) /\ Overhead(b) \in Nat
         /\ Overhead(b) > 0 /\ b.sz \in Nat /\ b.room \in Nat /\ Len(b.text) \in Nat
         /\ b.exact \in BOOLEAN /\ b.rb \in Widths /\ b.lb \in Widths \ {0} /\ b.sized \in BOOLEAN
         /\ RoomFor(b) /\ IsText(b.text) /\ Len(b.text) <= MaxLen
         /\ b.sized => b.sz # 0 /\ Overhead(b) + Len(b.text) <= b.sz
         /\ Nb(Len(b.text)) <= b.lb /\ SizeAlloc(b) <= b.room /\ Overhead(b) + Len(b.text) <= b.room
         /\ b.emem \in BOOLEAN
<1>1. IsBlock(b) /\ RoomFor(b) /\ Len(b.text) <= MaxLen
  BY DEF SoundBlock
<1>2. /\ b.sz \in Nat /\ b.room \in Nat /\ Len(b.text) \in Nat /\ b.sized \in BOOLEAN
      /\ b.exact \in BOOLEAN /\ b.rb \in Widths /\ b.lb \in Widths \ {0} /\ IsText(b.text) /\ b.emem \in BOOLEAN
  BY <1>1, BlockParts
<1>3. Overhead(b) = HeadAndTail(b.rb, b.lb, Fields(b.sized))
  BY DEF Overhead, Ro
<1>4. Overhead(b) \in Nat /\ Overhead(b) > 0
  <2>1. Fields(b.sized) \in {1, 2} /\ b.lb \in Widths
    BY <1>2 DEF Fields
  <2>2. /\ HeadAndTail(b.rb, b.lb, Fields(b.sized)) \in Nat
        /\ HeadAndTail(b.rb, b.lb, Fields(b.sized)) >= 2 + b.rb + b.lb
    BY <1>2, <2>1, HeadAndTailNat
  <2> QED
    BY <1>2, <1>3, <2>2 DEF Widths
<1>5. /\ Overhead(b) + Len(b.text) <= b.room /\ SizeAlloc(b) <= b.room /\ Nb(Len(b.text)) <= b.lb
      /\ b.sized => Overhead(b) + Len(b.text) <= b.sz
  BY <1>1 DEF RoomFor
<1>6. ASSUME b.sized PROVE b.sz # 0
  BY <1>2, <1>4, <1>5, <1>6
<1> QED
  BY <1>1, <1>2, <1>3, <1>4, <1>5, <1>6

\* A shorter text has room where the longer one had.
LEMMA ShorterSound ==
  ASSUME NEW b, SoundBlock(b), b.kind \in {"alloc", "fixed"}, NEW t, IsText(t),
         Len(t) <= Len(b.text)
  PROVE  /\ Overhead(b) + Len(t) <= b.room
         /\ LET d == [b EXCEPT !.text = t]
            IN  /\ SoundBlock(d) /\ d.kind = b.kind /\ d.rb = b.rb /\ d.ref = b.ref
                /\ d.text = t
<1> DEFINE d == [b EXCEPT !.text = t]
           n == Len(t)
<1>1. /\ IsBlock(b) /\ b.kind # "raw"
      /\ b.kind = "alloc" => /\ FitsConf(OwnConf(b)) /\ b.sized = Sized(OwnConf(b))
                             /\ b.sized => b.lb = 2
  BY DEF SoundBlock
<1>2. n \in Nat /\ n <= Len(b.text) /\ n <= MaxLen /\ Len(b.text) \in Nat
  BY TextIsFunction, MaxLenNat, WritableParts
<1>3. /\ d.kind = b.kind /\ d.sized = b.sized /\ d.exact = b.exact /\ d.rb = b.rb /\ d.lb = b.lb
      /\ d.ref = b.ref /\ d.sz = b.sz /\ d.room = b.room /\ d.text = t /\ d.emem = b.emem
      /\ IsBlock(d)
  BY <1>1 DEF IsBlock
<1> HIDE DEF d
<1>4. /\ Overhead(b) \in Nat /\ b.sz \in Nat /\ b.room \in Nat /\ b.lb \in Nat
      /\ b.sized => Overhead(b) + Len(b.text) <= b.sz
      /\ Nb(Len(b.text)) <= b.lb /\ SizeAlloc(b) <= b.room /\ Overhead(b) + Len(b.text) <= b.room
      /\ b.exact \in BOOLEAN /\ b.sized \in BOOLEAN
  BY WritableParts DEF Widths
<1>5. OwnConf(d) = OwnConf(b) /\ Overhead(d) = Overhead(b)
  BY <1>3 DEF OwnConf, Overhead, Ro
<1>6. Nb(n) <= b.lb
  <2>1. Nb(n) <= Nb(Len(b.text)) /\ Nb(n) \in Nat /\ Nb(Len(b.text)) \in Nat
    BY <1>2, NbFacts
  <2> QED
    BY <1>4, <2>1
<1>7. Overhead(b) + n <= b.room /\ (b.sized => Overhead(b) + n <= b.sz)
  BY <1>2, <1>4
<1>8. SizeAlloc(d) <= b.room
  <2>1. CASE b.sized
    BY <1>3, <1>4, <2>1 DEF SizeAlloc
  <2>2. CASE ~b.sized
    <3>1. n + Overhead(b) \in Nat /\ Len(b.text) + Overhead(b) \in Nat
          /\ n + Overhead(b) <= Len(b.text) + Overhead(b)
      BY <1>2, <1>4
    <3>2. /\ Graded(b.exact, n + Overhead(b)) <= Graded(b.exact, Len(b.text) + Overhead(b))
          /\ Graded(b.exact, n + Overhead(b)) \in Nat
          /\ Graded(b.exact, Len(b.text) + Overhead(b)) \in Nat
      <4>1. PICK i, j : i = n + Overhead(b) /\ j = Len(b.text) + Overhead(b)
        OBVIOUS
      <4>3. i \in Nat /\ j \in Nat /\ i <= j /\ i <= i /\ b.exact \in BOOLEAN
        BY <1>4, <3>1, <4>1
      <4>2. Graded(b.exact, i) <= Graded(b.exact, j) /\ Graded(b.exact, i) \in Nat
            /\ Graded(b.exact, j) \in Nat
        BY <4>3, GradedFacts
      <4> QED
        BY <4>1, <4>2
    <3>3. /\ SizeAlloc(d) = Graded(b.exact, n + Overhead(b))
          /\ SizeAlloc(b) = Graded(b.exact, Len(b.text) + Overhead(b))
      BY <1>3, <1>5, <2>2 DEF SizeAlloc
    <3> QED
      BY <1>4, <3>2, <3>3
  <2> QED
    BY <2>1, <2>2
<1>9. RoomFor(d)
  BY <1>3, <1>5, <1>6, <1>7, <1>8 DEF RoomFor
<1>10. SoundBlock(d)
  BY <1>1, <1>2, <1>3, <1>5, <1>9 DEF SoundBlock
<1> QED
  BY <1>3, <1>7, <1>10 DEF d

\* What a block that must be reallocated is like.
LEMMA RwModMoves ==
  ASSUME NEW b, SoundBlock(b), NEW n \in Nat, RwMod(b, n).can, RwMod(b, n).alloc
  PROVE  /\ Alloc(b) /\ Owner(b) /\ Nb(n) <= b.lb
         /\ RwMod(b, n).nsz = Graded(b.exact, Overhead(b) + n)
         /\ RwMod(b, n).sized = b.sized
         /\ n <= Len(b.text) => ~b.sized
<1> DEFINE m == RwMod(b, n)
           need == HeadAndTail(b.rb, b.lb, Fields(b.sized)) + n
<1>1. Owner(b) /\ Nb(n) <= b.lb
  BY DEF RwMod
<1>2. b.kind \in {"alloc", "fixed"}
  BY <1>1 DEF Owner, Alloc, Fixed
<1>3. /\ Overhead(b) = HeadAndTail(b.rb, b.lb, Fields(b.sized)) /\ Overhead(b) \in Nat
      /\ b.sz \in Nat /\ b.sized \in BOOLEAN /\ Len(b.text) \in Nat
      /\ b.sized => b.sz # 0 /\ Overhead(b) + Len(b.text) <= b.sz
  BY <1>2, WritableParts
<1>4. (b.sized /\ b.sz # 0) = b.sized
  BY <1>3
<1>5. m = Fit(b, need, Graded(b.exact, need), SizeAlloc(b))
  BY <1>1, <1>4 DEF RwMod
<1> HIDE DEF m, need
<1>6. /\ m.alloc = (~(IF b.sized /\ b.sz # 0 THEN need <= b.sz ELSE Graded(b.exact, need) = SizeAlloc(b)) /\ Alloc(b))
      /\ m.nsz = Graded(b.exact, need) /\ m.sized = (b.sized /\ b.sz # 0)
  BY <1>5 DEF Fit
<1>7. need = Overhead(b) + n
  BY <1>3 DEF need
<1>8. m.alloc
  BY DEF m
<1>9. Alloc(b) /\ (b.sized => ~(need <= b.sz))
  BY <1>3, <1>6, <1>8
<1>10. ASSUME n <= Len(b.text), b.sized PROVE FALSE
  <2>2. Overhead(b) + Len(b.text) <= b.sz
    BY <1>3, <1>10
  <2>3. Overhead(b) \in Nat /\ b.sz \in Nat /\ Len(b.text) \in Nat /\ n <= Len(b.text)
    BY <1>3, <1>10
  <2>1. need <= b.sz
    BY <1>7, <2>2, <2>3
  <2> QED
    BY <1>9, <1>10, <2>1
<1>11. m.nsz = Graded(b.exact, Overhead(b) + n) /\ m.sized = b.sized
  BY <1>4, <1>6, <1>7
<1> QED
  BY <1>1, <1>9, <1>10, <1>11 DEF m

\* The block after the allocator and the header were told of its new size.
Resized(b, sized, nsz) ==
  [b EXCEPT !.room = nsz, !.sz = IF sized THEN nsz % Values(Radix, b.lb) ELSE b.sz]

\* A block whose memory grew or shrank is sound with its new text.
LEMMA ResizedSound ==
  ASSUME NEW b, SoundBlock(b), Alloc(b), NEW t, IsText(t), Len(t) <= MaxLen, Nb(Len(t)) <= b.lb,
         NEW nsz, nsz \in Nat, Overhead(b) + Len(t) <= nsz,
         ~b.sized => nsz = Graded(b.exact, Overhead(b) + Len(t)),
         b.sized => nsz < Values(Radix, 2)
  PROVE  LET d == [Resized(b, b.sized, nsz) EXCEPT !.text = t]
         IN  /\ SoundBlock(d) /\ d.kind = b.kind /\ d.rb = b.rb /\ d.ref = b.ref /\ d.text = t
             /\ d.room = nsz /\ Overhead(d) = Overhead(b)
<1> DEFINE d == [Resized(b, b.sized, nsz) EXCEPT !.text = t]
           n == Len(t)
           nz == IF b.sized THEN nsz % Values(Radix, b.lb) ELSE b.sz
<1>1. /\ IsBlock(b) /\ b.kind = "alloc"
      /\ FitsConf(OwnConf(b)) /\ b.sized = Sized(OwnConf(b))
      /\ b.sized => b.lb = 2
  BY DEF SoundBlock, Alloc
<1>2. /\ Overhead(b) \in Nat /\ b.sz \in Nat /\ b.room \in Nat /\ b.lb \in Nat
      /\ b.exact \in BOOLEAN /\ b.sized \in BOOLEAN /\ b.rb \in Widths /\ Overhead(b) > 0
      /\ b.emem \in BOOLEAN
  BY <1>1, WritableParts DEF Widths
<1>3. n \in Nat
  BY TextIsFunction
<1>4. Values(Radix, 2) \in Nat /\ (b.sized => nz = nsz) /\ (~b.sized => nz = b.sz) /\ nz \in Nat
  <2>1. Values(Radix, 2) \in Nat
    BY RadixAssumption, ValuesGrow DEF Widths
  <2>2. ASSUME b.sized PROVE nz = nsz
    <3>1. nz = nsz % Values(Radix, 2)
      BY <1>1, <2>2
    <3>2. nsz < Values(Radix, 2)
      BY <2>2
    <3> HIDE DEF nz
    <3>3. nsz % Values(Radix, 2) = nsz
      BY <2>1, <3>2
    <3> QED
      BY <3>1, <3>3
  <2>3. ~b.sized => nz = b.sz
    OBVIOUS
  <2> HIDE DEF nz
  <2> QED
    BY <1>2, <2>1, <2>2, <2>3
<1>5. d = [b EXCEPT !.room = nsz, !.sz = nz, !.text = t]
  BY <1>1 DEF Resized, IsBlock
<1> HIDE DEF d, nz
<1>6. /\ d.kind = b.kind /\ d.sized = b.sized /\ d.exact = b.exact /\ d.rb = b.rb /\ d.lb = b.lb
      /\ d.ref = b.ref /\ d.sz = nz /\ d.room = nsz /\ d.text = t /\ d.emem = b.emem
      /\ IsBlock(d)
  BY <1>1, <1>4, <1>5 DEF IsBlock
<1>7. Overhead(d) = Overhead(b)
  BY <1>1, <1>6 DEF Overhead, Ro
<1>8. SizeAlloc(d) <= nsz
  <2>1. CASE b.sized
    BY <1>4, <1>6, <2>1 DEF SizeAlloc
  <2>2. CASE ~b.sized
    <3>1. n + Overhead(b) = Overhead(b) + n
      BY <1>2, <1>3
    <3>2. SizeAlloc(d) = Graded(b.exact, n + Overhead(b))
      BY <1>6, <1>7, <2>2 DEF SizeAlloc
    <3> QED
      BY <2>2, <3>1, <3>2
  <2> QED
    BY <2>1, <2>2
<1>9. RoomFor(d)
  BY <1>4, <1>6, <1>7, <1>8 DEF RoomFor
<1>10. FitsConf(OwnConf(d)) /\ d.sized = Sized(OwnConf(d))
  <2> DEFINE q == OwnConf(b)
             r == OwnConf(d)
  <2>1. /\ q.sz = b.sz /\ q.rb = b.rb /\ q.exact = b.exact
        /\ r = [sz |-> nz, rb |-> b.rb, exact |-> b.exact, emem |-> b.emem]
        /\ r.sz = nz /\ r.rb = b.rb /\ r.exact = b.exact
    BY <1>6 DEF OwnConf
  <2>2. IsConf(r)
    BY <1>2, <1>4, <2>1 DEF IsConf
  <2> HIDE DEF q, r
  <2>3. CASE b.sized
    <3>1. nz # 0 /\ nz \in Nat /\ nz < Values(Radix, 2)
      <4>1. nsz # 0
        BY <1>2, <1>3
      <4> QED
        BY <1>4, <2>3, <4>1
    <3>2. Sized(r) /\ Sized(q)
      BY <1>1, <2>1, <2>3, <3>1 DEF Sized, q
    <3>3. RefWidth(r) = RefWidth(q)
      BY <2>1, <3>2 DEF RefWidth
    <3>4. FitsConf(r)
      BY <1>1, <2>1, <2>2, <3>1, <3>2, <3>3 DEF FitsConf, q
    <3>5. Sized(r) \in BOOLEAN
      BY DEF Sized
    <3> QED
      BY <1>6, <2>3, <3>2, <3>4, <3>5 DEF r
  <2>4. CASE ~b.sized
    <3>1. Sized(r) = Sized(q) /\ ~Sized(q)
      BY <1>1, <1>4, <2>1, <2>4 DEF Sized, q
    <3> QED
      BY <1>1, <1>6, <2>2, <2>4, <3>1 DEF FitsConf, q, r
  <2> QED
    BY <2>3, <2>4
<1>11. SoundBlock(d)
  BY <1>1, <1>6, <1>9, <1>10 DEF SoundBlock
<1> QED
  BY <1>6, <1>7, <1>11 DEF d

\* A block whose text does not fit yet, with the holders it has.
LEMMA HeapOdd ==
  ASSUME NEW hp, NEW k \in [Places -> Nat], NEW l \in [Places -> Nat], NEW x \in Addr,
         Heaps(hp, k, Null), \A y \in Places : y # x => l[y] = k[y],
         NEW b, CountOK(b, l[x])
  PROVE  Heaps([hp EXCEPT ![x] = b], l, x)
<1> DEFINE hq == [hp EXCEPT ![x] = b]
<1>1. /\ hp = [y \in Places |-> hp[y]]
      /\ \A y \in Places : SoundBlock(hp[y])
      /\ \A a \in Addr : CountOK(hp[a], k[a])
      /\ Ro(hp[Empty]) /\ Ro(hp[Lit]) /\ hp[Empty].text = <<>>
      /\ hp[Fix].kind \in {"fixed", "free"}
      /\ k[Fix] # 0 => Fixed(hp[Fix])
  BY PlacesFacts DEF Heaps
<1>2. hq = [y \in Places |-> hq[y]] /\ \A y \in Places : hq[y] = IF y = x THEN b ELSE hp[y]
  BY <1>1
<1> HIDE DEF hq
<1>3. \A y \in Places : y # x => SoundBlock(hq[y])
  BY <1>1, <1>2
<1>4. \A a \in Addr : CountOK(hq[a], l[a])
  BY <1>1, <1>2, PlacesFacts
<1>5. Ro(hq[Empty]) /\ Ro(hq[Lit]) /\ hq[Empty].text = <<>> /\ hq[Fix].kind \in {"fixed", "free"} /\ (l[Fix] # 0 => Fixed(hq[Fix]))
  BY <1>1, <1>2, PlacesFacts
<1>6. Heaps(hq, l, x)
  BY <1>2, <1>3, <1>4, <1>5 DEF Heaps
<1> QED
  BY <1>6 DEF hq

\* A block of the allocator that is the caller's alone has one holder.
LEMMA OwnCount ==
  ASSUME NEW c, NEW k, Edits(c, k), Alloc(Str(c)), Owner(Str(c))
  PROVE  /\ c.s \in Addr /\ k[c.s] = 0 /\ With(k, c.s)[c.s] = 1 /\ ~Stays(Str(c))
         /\ CountOK(Str(c), 1)
<1>1. /\ Str(c) = c.heap[c.s] /\ c.s \in Addr /\ k \in [Places -> Nat] /\ c.s \in Places
      /\ Heaps(c.heap, With(k, c.s), Null)
  BY StrFacts, GoodFacts DEF Edits
<1>2. CountOK(Str(c), With(k, c.s)[c.s]) /\ With(k, c.s)[c.s] = k[c.s] + 1 /\ k[c.s] \in Nat
  BY <1>1, WithFacts DEF Heaps
<1>3. Str(c).rb = 0 \/ Str(c).ref = 1
  BY DEF Owner, Fixed, Alloc
<1>4. With(k, c.s)[c.s] = 1
  BY <1>2, <1>3 DEF CountOK, Alloc
<1>5. ~Stays(Str(c))
  BY <1>3 DEF Stays, Alloc, Ro, Fixed
<1> QED
  BY <1>1, <1>2, <1>4, <1>5

\* ustr__rw_realloc.
LEMMA RwReallocGood ==
  ASSUME NEW c, NEW k, Edits(c, k), Alloc(Str(c)), Owner(Str(c)), NEW nsz \in Nat,
         NEW sized \in BOOLEAN, NEW d \in RwRealloc(c, sized, nsz)
  PROVE  /\ d.ok \in BOOLEAN /\ Kept(c, d)
         /\ ~d.ok => Post(c, k, d) /\ Text(d) = Text(c) /\ d.s = c.s
                     /\ Str(d).kind = Str(c).kind /\ Str(d).rb = Str(c).rb /\ Str(d).ref = Str(c).ref
         /\ d.ok => Almost(d, k) /\ Text(d) = Text(c) /\ Str(d) = Resized(Str(c), sized, nsz)
<1> DEFINE b == Str(c)
           nb == Resized(b, sized, nsz)
<1>1. /\ c = [heap |-> c.heap, s |-> c.s, n |-> c.n, ok |-> c.ok, wild |-> c.wild, conf |-> c.conf]
      /\ c.wild = FALSE /\ FitsConf(c.conf) /\ Good(c, k)
      /\ k \in [Places -> Nat] /\ With(k, c.s) \in [Places -> Nat] /\ Heaps(c.heap, With(k, c.s), Null)
      /\ c.heap = [y \in Places |-> c.heap[y]]
  BY GoodFacts DEF Edits
<1>2. b = c.heap[c.s] /\ IsBlock(b) /\ SoundBlock(b) /\ IsText(b.text) /\ c.s \in Places /\ Text(c) = b.text
  BY StrFacts
<1>3. c.s \in Addr /\ k[c.s] = 0 /\ With(k, c.s)[c.s] = 1 /\ ~Stays(b) /\ CountOK(b, 1)
  BY OwnCount
<1>4. /\ nb.kind = b.kind /\ nb.rb = b.rb /\ nb.ref = b.ref /\ nb.text = b.text
      /\ nb = [[b EXCEPT !.room = nsz] EXCEPT !.sz = IF sized THEN nsz % Values(Radix, b.lb)
                                                     ELSE [b EXCEPT !.room = nsz].sz]
  BY <1>2 DEF IsBlock, Resized
<1> HIDE DEF nb
<1>5. CountOK(nb, 1)
  <2>1. RefLimit(nb) = RefLimit(b)
    BY <1>4 DEF RefLimit
  <2> QED
    BY <1>3, <1>4, <2>1 DEF CountOK
<1>6. PICK e \in ReallocBlock(c, nsz) :
        d = IF ~e.ok THEN Flagged(e)
            ELSE [e EXCEPT !.s = e.n,
                           !.heap[e.n].sz = IF sized THEN nsz % Values(Radix, b.lb) ELSE @]
  BY DEF RwRealloc
<1> DEFINE rb == [b EXCEPT !.room = nsz]
<1>7. \/ e = [Fail(c) EXCEPT !.n = Null]
      \/ e = [Done(c) EXCEPT !.heap[c.s] = rb, !.n = c.s]
      \/ \E a \in Fresh(c) :
           e = [Done(c) EXCEPT !.heap = [@ EXCEPT ![c.s] = FreeBlock, ![a] = rb], !.n = a]
  BY <1>6 DEF ReallocBlock
<1>8. CASE e = [Fail(c) EXCEPT !.n = Null]
  <2>1. PICK f : f = Fail(c)
    OBVIOUS
  <2>2. Good(f, k) /\ f.s = c.s /\ f.heap = c.heap /\ f.ok = FALSE /\ Edits(f, k) /\ Post(c, k, f)
        /\ Text(f) = Text(c) /\ Str(f) = Str(c)
    BY <1>1, <2>1, FailGood
  <2>3. e = [f EXCEPT !.n = Null]
    BY <1>8, <2>1
  <2>4. Post(f, k, e) /\ Text(e) = Text(f) /\ e.s = f.s /\ Edits(e, k) /\ Str(e) = Str(f)
    BY <2>2, <2>3, NamedGood DEF Post
  <2>5. ~e.ok
    BY <1>1, <1>8 DEF Fail
  <2>6. d = Flagged(e)
    BY <1>6, <2>5
  <2>7. Post(e, k, d) /\ Text(d) = Text(e) /\ d.s = e.s /\ d.ok = FALSE
    BY <2>4, <2>6, FlaggedGood
  <2>8. Str(d).kind = Str(e).kind /\ Str(d).rb = Str(e).rb /\ Str(d).ref = Str(e).ref
    <3>1. PICK g : g = SetEnomem(e, TRUE)
      OBVIOUS
    <3>2. Str(g).kind = Str(e).kind /\ Str(g).rb = Str(e).rb /\ Str(g).ref = Str(e).ref /\ Edits(g, k)
      BY <2>4, <3>1, FlagGood DEF Post
    <3>3. Str(Fail(g)) = Str(g)
      BY <3>2, FailGood DEF Edits
    <3> QED
      BY <2>6, <3>1, <3>2, <3>3 DEF Flagged
  <2>9. Post(c, k, d)
    BY <2>2, <2>4, <2>7, PostTrans
  <2> QED
    BY <2>2, <2>4, <2>7, <2>8, <2>9 DEF Post
<1>9. CASE e = [Done(c) EXCEPT !.heap[c.s] = rb, !.n = c.s]
  <2> DEFINE hp == [c.heap EXCEPT ![c.s] = nb]
             hr == [c.heap EXCEPT ![c.s] = rb]
  <2>1. e = [heap |-> hr, s |-> c.s, n |-> c.s, ok |-> TRUE, wild |-> c.wild, conf |-> c.conf]
    BY <1>1, <1>9 DEF Done
  <2> HIDE DEF rb
  <2>2. hr[c.s] = rb /\ hr = [y \in Places |-> hr[y]] /\ [hr EXCEPT ![c.s] = nb] = hp
    BY <1>1, <1>2
  <2>3. nb = [rb EXCEPT !.sz = IF sized THEN nsz % Values(Radix, b.lb) ELSE rb.sz]
    BY <1>4 DEF rb
  <2>4. d = [heap |-> hp, s |-> c.s, n |-> c.s, ok |-> TRUE, wild |-> c.wild, conf |-> c.conf]
    <3> HIDE DEF hr, hp
    <3>1. d = [e EXCEPT !.s = e.n,
                        !.heap[e.n].sz = IF sized THEN nsz % Values(Radix, b.lb) ELSE @]
      BY <1>6, <2>1
    <3>2. d = [e EXCEPT !.s = c.s, !.heap = [hr EXCEPT ![c.s] = nb]]
      BY <2>1, <2>2, <2>3, <3>1
    <3> QED
      BY <2>1, <2>2, <3>2
  <2>5. d.heap = hp /\ d.s = c.s /\ d.ok = TRUE /\ d.wild = c.wild /\ d.conf = c.conf /\ d.n = c.s
    BY <2>4
  <2>6. Heaps(hp, With(k, c.s), c.s)
    BY <1>1, <1>3, <1>5, HeapOdd
  <2>7. \A y \in Places : hp[y] = IF y = c.s THEN nb ELSE c.heap[y]
    BY <1>1
  <2> HIDE DEF hp
  <2>8. Str(d) = nb /\ Text(d) = Text(c)
    BY <1>2, <1>4, <2>5, <2>7 DEF Str, Text
  <2>9. Almost(d, k)
    BY <1>1, <1>2, <2>4, <2>5, <2>6, <2>8 DEF Almost, IsCall
  <2>10. Kept(c, d)
    BY <1>2, <1>3, <2>5, <2>7 DEF Kept
  <2> QED
    BY <2>5, <2>8, <2>9, <2>10 DEF nb
<1>10. CASE \E a \in Fresh(c) :
              e = [Done(c) EXCEPT !.heap = [@ EXCEPT ![c.s] = FreeBlock, ![a] = rb], !.n = a]
  <2>0. PICK a \in Fresh(c) :
          e = [Done(c) EXCEPT !.heap = [@ EXCEPT ![c.s] = FreeBlock, ![a] = rb], !.n = a]
    BY <1>10
  <2>11. a \in Addr /\ a \in Places /\ c.heap[a].kind = "free" /\ a # c.s
    BY <1>2, FreshFree, PlacesFacts DEF Alloc
  <2> DEFINE h1 == [c.heap EXCEPT ![c.s] = FreeBlock]
             hr == [h1 EXCEPT ![a] = rb]
             hp == [h1 EXCEPT ![a] = nb]
  <2>1. e = [heap |-> hr, s |-> c.s, n |-> a, ok |-> TRUE, wild |-> c.wild, conf |-> c.conf]
    BY <1>1, <2>0 DEF Done
  <2> HIDE DEF rb
  <2>12. h1 = [y \in Places |-> h1[y]] /\ \A y \in Places : h1[y] = IF y = c.s THEN FreeBlock ELSE c.heap[y]
    BY <1>1, <1>2
  <2>13. Heaps(h1, k, Null)
    <3>1. \A y \in Places : y # c.s => k[y] = With(k, c.s)[y]
      BY <1>1, WithFacts
    <3>2. CountOK(FreeBlock, k[c.s])
      BY <1>3, FreeSound DEF CountOK
    <3> QED
      BY <1>1, <1>3, <3>1, <3>2, FreeSound, HeapCount
  <2> HIDE DEF h1
  <2>14. k[a] = 0 /\ With(k, a) \in [Places -> Nat] /\ With(k, a)[a] = 1
         /\ \A y \in Places : y # a => With(k, a)[y] = k[y]
    <3>1. CountOK(h1[a], k[a]) /\ h1[a].kind = "free"
      BY <2>11, <2>12, <2>13 DEF Heaps
    <3>2. k[a] = 0
      BY <3>1 DEF CountOK
    <3>3. /\ With(k, a) \in [Places -> Nat]
          /\ \A y \in Places : With(k, a)[y] = IF y = a THEN k[y] + 1 ELSE k[y]
      BY <1>1, WithFacts
    <3>4. With(k, a)[a] = 1
      BY <2>11, <3>2, <3>3
    <3>5. \A y \in Places : y # a => With(k, a)[y] = k[y]
      BY <3>3
    <3> QED
      BY <3>2, <3>3, <3>4, <3>5
  <2>2. hr[a] = rb /\ [hr EXCEPT ![a] = nb] = hp
    BY <2>11, <2>12
  <2>3. nb = [rb EXCEPT !.sz = IF sized THEN nsz % Values(Radix, b.lb) ELSE rb.sz]
    BY <1>4 DEF rb
  <2>4. d = [heap |-> hp, s |-> a, n |-> a, ok |-> TRUE, wild |-> c.wild, conf |-> c.conf]
    <3> HIDE DEF hr, hp
    <3>1. d = [e EXCEPT !.s = e.n,
                        !.heap[e.n].sz = IF sized THEN nsz % Values(Radix, b.lb) ELSE @]
      BY <1>6, <2>1
    <3>2. d = [e EXCEPT !.s = a, !.heap = [hr EXCEPT ![a] = nb]]
      BY <2>1, <2>2, <2>3, <3>1
    <3> QED
      BY <2>1, <2>2, <3>2
  <2>5. d.heap = hp /\ d.s = a /\ d.ok = TRUE /\ d.wild = c.wild /\ d.conf = c.conf /\ d.n = a
    BY <2>4
  <2>6. Heaps(hp, With(k, a), a)
    BY <1>1, <1>5, <2>11, <2>13, <2>14, HeapOdd
  <2>7. \A y \in Places : hp[y] = IF y = a THEN nb ELSE IF y = c.s THEN FreeBlock ELSE c.heap[y]
    BY <2>12
  <2> HIDE DEF hp
  <2>8. Str(d) = nb /\ Text(d) = Text(c)
    BY <1>2, <1>4, <2>5, <2>7, <2>11 DEF Str, Text
  <2>9. Almost(d, k)
    BY <1>1, <1>2, <2>4, <2>5, <2>6, <2>8, <2>11 DEF Almost, IsCall
  <2>10. Kept(c, d)
    BY <1>2, <1>3, <2>5, <2>7, <2>11 DEF Kept, Stays, Ro, Fixed, Alloc
  <2> QED
    BY <2>5, <2>8, <2>9, <2>10 DEF nb
<1> QED
  BY <1>7, <1>8, <1>9, <1>10

\* An almost good state whose block is sound is good.
LEMMA AlmostSound ==
  ASSUME NEW c, NEW k, Almost(c, k), SoundBlock(Str(c))
  PROVE  Edits(c, k)
<1>1. Heaps(c.heap, With(k, c.s), Null)
  BY DEF Almost, Heaps, Str
<1> QED
  BY <1>1 DEF Almost, Edits, Good

\* Who owns a block is a matter of its kind and its count.
LEMMA OwnerLike ==
  ASSUME NEW a, NEW b, a.kind = b.kind, a.rb = b.rb, a.ref = b.ref
  PROVE  (Owner(a) <=> Owner(b)) /\ (Ro(a) <=> Ro(b)) /\ (Fixed(a) <=> Fixed(b)) /\ (Alloc(a) <=> Alloc(b))
BY DEF Owner, Ro, Fixed, Alloc

\* The whole size of a sized block that holds a text of any length.
LEMMA SizedRoom ==
  ASSUME NEW b, SoundBlock(b), Alloc(b), b.sized, NEW n \in Nat, n <= MaxLen
  PROVE  Graded(b.exact, Overhead(b) + n) < Values(Radix, 2)
<1> DEFINE q == OwnConf(b)
           top == HeadAndTail(RefWidth(q), 2, 2) + MaxLen
           need == Overhead(b) + n
<1>1. /\ FitsConf(q) /\ Sized(q) /\ b.lb = 2 /\ IsBlock(b)
  BY DEF SoundBlock, Alloc
<1>2. q.rb = b.rb /\ q.exact = b.exact /\ b.rb \in Widths /\ b.exact \in BOOLEAN
  BY <1>1, BlockParts DEF OwnConf
<1>3. IsConf(q) /\ Graded(b.exact, top) < Values(Radix, 2)
  BY <1>1, <1>2 DEF FitsConf
<1>4. RefWidth(q) \in Widths /\ RefWidth(q) >= b.rb
  BY <1>2, <1>3, RefWidthWidth
<1>5. Overhead(b) = HeadAndTail(b.rb, 2, 2)
  BY <1>1, WritableParts DEF Alloc, Fields
<1>6. need \in Nat /\ top \in Nat /\ need <= top
  BY <1>2, <1>4, <1>5, MaxLenNat DEF HeadAndTail, Widths
<1> HIDE DEF need, top
<1>7. Graded(b.exact, need) <= Graded(b.exact, top) /\ Graded(b.exact, top) \in Nat
      /\ Graded(b.exact, need) \in Nat
  BY <1>2, <1>6, GradedFacts
<1>8. Values(Radix, 2) \in Nat
  BY RadixAssumption, ValuesGrow DEF Widths
<1>9. Graded(b.exact, need) < Values(Radix, 2)
  BY <1>3, <1>7, <1>8
<1> QED
  BY <1>9 DEF need

\* ustrp__realloc.
LEMMA ReallocGood ==
  ASSUME NEW c, NEW k, Edits(c, k), NEW size \in Nat, NEW d \in Realloc(c, size)
  PROVE  Post(c, k, d)
<1> DEFINE b == Str(c)
           nsz == Overhead(b) + (IF size = 0 THEN Len(b.text) ELSE size)
<1>1. Good(c, k) /\ SoundBlock(b) /\ Text(c) = b.text /\ IsBlock(b)
  BY StrFacts DEF Edits
<1>2. CASE d = Fail(c)
  BY <1>1, <1>2, FailGood
<1>3. CASE d = Done(c)
  BY <1>1, <1>3, DoneGood
<1>4. CASE /\ b.sized /\ Alloc(b) /\ Owner(b)
           /\ ~(nsz < Overhead(b) + Len(b.text)) /\ ~(Nb(nsz) > b.lb)
           /\ d \in RwRealloc(c, TRUE, nsz)
  <2>1. /\ Overhead(b) \in Nat /\ Len(b.text) \in Nat /\ IsText(b.text) /\ Len(b.text) <= MaxLen
        /\ Nb(Len(b.text)) <= b.lb /\ b.lb = 2
    BY <1>1, <1>4, WritableParts DEF Alloc, SoundBlock
  <2>2. nsz \in Nat /\ Overhead(b) + Len(b.text) <= nsz
    BY <1>4, <2>1
  <2>3. nsz < Values(Radix, 2)
    <3> HIDE DEF nsz
    <3>1. Nb(nsz) \in {1, 2, 4, 8} /\ (nsz < Values(Radix, 2) <=> Nb(nsz) <= 2)
      BY <2>2, NbFacts
    <3> QED
      BY <1>4, <2>1, <3>1
  <2> HIDE DEF nsz
  <2>4. /\ d.ok \in BOOLEAN /\ Kept(c, d)
        /\ ~d.ok => Post(c, k, d)
        /\ d.ok => Almost(d, k) /\ Str(d) = Resized(b, TRUE, nsz)
    BY <1>4, <2>2, RwReallocGood
  <2>5. CASE d.ok
    <3> DEFINE e == [Resized(b, b.sized, nsz) EXCEPT !.text = b.text]
    <3>1. SoundBlock(e)
      BY <1>1, <1>4, <2>1, <2>2, <2>3, ResizedSound
    <3>2. e = Str(d)
      <4>1. (IF b.sized THEN nsz % Values(Radix, b.lb) ELSE b.sz) = nsz % Values(Radix, b.lb)
        BY <1>4
      <4>2. Str(d) = [b EXCEPT !.room = nsz, !.sz = nsz % Values(Radix, b.lb)]
        BY <2>4, <2>5 DEF Resized
      <4>3. e = [[b EXCEPT !.room = nsz, !.sz = nsz % Values(Radix, b.lb)] EXCEPT !.text = b.text]
        BY <4>1 DEF Resized
      <4> QED
        BY <1>1, <4>2, <4>3 DEF IsBlock
    <3> HIDE DEF e
    <3>3. Edits(d, k)
      BY <2>4, <2>5, <3>1, <3>2, AlmostSound
    <3> QED
      BY <2>4, <3>3 DEF Post
  <2>6. CASE ~d.ok
    BY <2>4, <2>6
  <2> QED
    BY <2>4, <2>5, <2>6
<1> QED
  BY <1>2, <1>3, <1>4 DEF Realloc

\* Shrinking: what is left is the caller's to write.
LEMMA ShrinkGood ==
  ASSUME NEW c, NEW k, Edits(c, k), NEW nlen \in Nat, nlen <= Len(Text(c)),
         NEW d \in Shrink(c, RwMod(Str(c), nlen), nlen)
  PROVE  /\ Post(c, k, d)
         /\ d.ok => Len(Text(d)) = nlen /\ (nlen # 0 => Owner(Str(d)))
<1> DEFINE b == Str(c)
           m == RwMod(b, nlen)
           nt == NewLen(Text(c), nlen)
<1>1. /\ Good(c, k) /\ SoundBlock(b) /\ Text(c) = b.text /\ IsBlock(b) /\ IsText(Text(c))
      /\ Len(Text(c)) \in Nat /\ Len(Text(c)) <= MaxLen /\ nlen <= MaxLen /\ MaxLen \in Nat
  BY StrFacts, MaxLenNat DEF Edits
<1>2. IsText(nt) /\ Len(nt) = nlen
  BY <1>1, NewLenText
<1>3. CASE ~m.can
  <2>1. d \in Rebuild(c, Slice(Text(c), 0, nlen))
    BY <1>3 DEF Shrink
  <2>2. IsText(Slice(Text(c), 0, nlen)) /\ Len(Slice(Text(c), 0, nlen)) = nlen
    BY <1>1, SliceText
  <2> QED
    BY <1>1, <2>1, <2>2, RebuildGood, EmptyText
<1>4. CASE m.can /\ ~m.alloc
  <2>1. d = SetLen(c, nlen)
    BY <1>4 DEF Shrink
  <2> DEFINE e == [b EXCEPT !.text = nt]
  <2>2. /\ Owner(b) /\ Overhead(b) + nlen <= b.room
        /\ SoundBlock(e) /\ e.kind = b.kind /\ e.rb = b.rb /\ e.ref = b.ref /\ e.text = nt
    <3> HIDE DEF nt
    <3> QED
      BY <1>1, <1>2, <1>4, RwModInPlace
  <2>3. ~Ro(b) /\ ~(Overhead(b) + nlen > b.room)
    <3>1. b.kind \in {"alloc", "fixed"}
      BY <2>2 DEF Owner, Alloc, Fixed
    <3>2. Overhead(b) \in Nat /\ b.room \in Nat
      BY <1>1, <3>1, WritableParts
    <3> QED
      BY <2>2, <3>1, <3>2 DEF Ro
  <2> HIDE DEF e
  <2>4. /\ Edits(d, k) /\ Kept(c, d) /\ d.ok = TRUE /\ Len(Text(d)) = nlen
        /\ Str(d).kind = b.kind /\ Str(d).rb = b.rb /\ Str(d).ref = b.ref
    <3>1. PICK t, g : t = nt /\ g = e
      OBVIOUS
    <3>2. g = [Str(c) EXCEPT !.text = t]
      BY <3>1 DEF e
    <3>3. t = NewLen(Text(c), nlen)
      BY <3>1
    <3> HIDE DEF b, nt
    <3>4. SoundBlock(g) /\ g.kind = Str(c).kind /\ g.rb = Str(c).rb /\ g.ref = Str(c).ref /\ g.text = t
      BY <2>2, <3>1 DEF b
    <3>5. ~Ro(Str(c)) /\ ~(Overhead(Str(c)) + nlen > Str(c).room) /\ Almost(c, k)
      BY <2>3, EditsAlmost DEF b
    <3>6. SetTo(c, k, d, nlen)
      BY <2>1, <3>2, <3>3, <3>4, <3>5, SetLenGood
    <3> QED
      BY <3>6 DEF b, SetTo
  <2> QED
    BY <2>2, <2>4, OwnerLike DEF Post
<1>5. CASE m.can /\ m.alloc
  <2>1. PICK f \in RwRealloc(c, FALSE, m.nsz) :
          d = SetLen(IF f.ok \/ Str(c).emem THEN f ELSE SetEnomem(f, FALSE), nlen)
    BY <1>5 DEF Shrink
  <2>2. /\ Alloc(b) /\ Owner(b) /\ Nb(nlen) <= b.lb /\ ~b.sized /\ b.sized = FALSE
        /\ m.nsz = Graded(b.exact, Overhead(b) + nlen)
    <3>1. /\ Alloc(b) /\ Owner(b) /\ Nb(nlen) <= b.lb
          /\ m.nsz = Graded(b.exact, Overhead(b) + nlen)
          /\ nlen <= Len(b.text) => ~b.sized
      BY <1>1, <1>5, RwModMoves
    <3>2. b.sized \in BOOLEAN
      BY <1>1, BlockParts
    <3> QED
      BY <1>1, <3>1, <3>2
  <2>3. /\ Overhead(b) \in Nat /\ b.exact \in BOOLEAN /\ b.room \in Nat
    BY <1>1, <2>2, WritableParts DEF Alloc
  <2>4. m.nsz \in Nat /\ Overhead(b) + nlen <= m.nsz
    <3>1. PICK i : i = Overhead(b) + nlen
      OBVIOUS
    <3>2. i \in Nat
      BY <2>3, <3>1
    <3>3. Graded(b.exact, i) \in Nat /\ Graded(b.exact, i) >= i
      BY <2>3, <3>2, GradedFacts
    <3> QED
      BY <2>2, <3>1, <3>2, <3>3
  <2> HIDE DEF m
  <2>5. PICK nsz \in Nat : nsz = m.nsz
    BY <2>4
  <2>6. /\ f.ok \in BOOLEAN /\ Kept(c, f)
        /\ ~f.ok => Post(c, k, f) /\ Text(f) = Text(c) /\ f.s = c.s
                    /\ Str(f).kind = b.kind /\ Str(f).rb = b.rb /\ Str(f).ref = b.ref
        /\ f.ok => Almost(f, k) /\ Text(f) = Text(c) /\ Str(f) = Resized(b, FALSE, nsz)
    BY <2>1, <2>2, <2>5, RwReallocGood
  <2>7. CASE f.ok
    <3>1. d = SetLen(f, nlen)
      BY <2>1, <2>7
    <3> DEFINE e == [Resized(b, FALSE, nsz) EXCEPT !.text = nt]
    <3>2. /\ SoundBlock(e) /\ e.kind = b.kind /\ e.rb = b.rb /\ e.ref = b.ref /\ e.text = nt
          /\ e.room = nsz /\ Overhead(e) = Overhead(b)
      <4> DEFINE g == [Resized(b, b.sized, nsz) EXCEPT !.text = nt]
      <4>0. e = g
        BY <2>2
      <4>1. nsz = Graded(b.exact, Overhead(b) + Len(nt)) /\ Overhead(b) + Len(nt) <= nsz
            /\ Len(nt) <= MaxLen
        BY <1>1, <1>2, <2>2, <2>4, <2>5
      <4>2. Nb(Len(nt)) <= b.lb
        BY <1>2, <2>2
      <4> HIDE DEF nt, e
      <4>3. /\ SoundBlock(g) /\ g.kind = b.kind /\ g.rb = b.rb /\ g.ref = b.ref /\ g.text = nt
            /\ g.room = nsz /\ Overhead(g) = Overhead(b)
        BY <1>1, <1>2, <2>2, <4>1, <4>2, ResizedSound
      <4> QED
        BY <4>0, <4>3
    <3>3. Str(f).kind = b.kind /\ Str(f).rb = b.rb /\ Str(f).ref = b.ref /\ Str(f).room = nsz
          /\ Overhead(Str(f)) = Overhead(b)
      <4>1. Str(f) = Resized(b, FALSE, nsz)
        BY <2>6, <2>7
      <4>2. Resized(b, FALSE, nsz) = [b EXCEPT !.room = nsz, !.sz = b.sz]
        BY DEF Resized
      <4>3. /\ Str(f).kind = b.kind /\ Str(f).rb = b.rb /\ Str(f).ref = b.ref /\ Str(f).room = nsz
            /\ Str(f).lb = b.lb /\ Str(f).sized = b.sized /\ Str(f).text = b.text
        BY <1>1, <4>1, <4>2 DEF IsBlock
      <4> QED
        BY <4>3 DEF Overhead, Ro
    <3>4. ~Ro(Str(f)) /\ ~(Overhead(Str(f)) + nlen > Str(f).room)
      BY <2>2, <2>3, <2>4, <2>5, <3>3 DEF Ro, Alloc
    <3>5. e = [Str(f) EXCEPT !.text = NewLen(Text(f), nlen)]
      BY <2>6, <2>7
    <3> HIDE DEF e, nt
    <3>6. NewLen(Text(f), nlen) = nt
      BY <2>6, <2>7 DEF nt
    <3>7. /\ Edits(d, k) /\ Kept(f, d) /\ d.ok = TRUE /\ Len(Text(d)) = nlen
          /\ Str(d).kind = Str(f).kind /\ Str(d).rb = Str(f).rb /\ Str(d).ref = Str(f).ref
      <4>1. PICK t, g : t = nt /\ g = e
        OBVIOUS
      <4>2. g = [Str(f) EXCEPT !.text = t] /\ t = NewLen(Text(f), nlen)
        BY <3>5, <3>6, <4>1
      <4>3. SoundBlock(g) /\ g.kind = Str(f).kind /\ g.rb = Str(f).rb /\ g.ref = Str(f).ref /\ g.text = t
        BY <3>2, <3>3, <4>1
      <4>4. Almost(f, k)
        BY <2>6, <2>7
      <4>5. SetTo(f, k, d, nlen)
        BY <3>1, <3>4, <4>2, <4>3, <4>4, SetLenGood
      <4> QED
        BY <4>5 DEF SetTo
    <3> QED
      BY <2>2, <2>6, <3>3, <3>7, OwnerLike, KeptTrans DEF Post
  <2>8. CASE ~f.ok
    <3>1. PICK g : g = IF Str(c).emem THEN f ELSE SetEnomem(f, FALSE)
      OBVIOUS
    <3>2. d = SetLen(g, nlen)
      BY <2>1, <2>8, <3>1
    <3>3. Edits(f, k)
      BY <2>6, <2>8 DEF Post
    <3>4. Post(f, k, g) /\ Text(g) = Text(f) /\ Str(g).kind = Str(f).kind
          /\ Str(g).rb = Str(f).rb /\ Str(g).ref = Str(f).ref
      <4>1. CASE Str(c).emem
        BY <3>1, <3>3, <4>1, PostSelf
      <4>2. CASE ~Str(c).emem
        BY <3>1, <3>3, <4>2, FlagGood
      <4> QED
        BY <4>1, <4>2
    <3>5. Edits(g, k) /\ Text(g) = Text(c) /\ Str(g).kind = b.kind /\ Str(g).rb = b.rb
          /\ Str(g).ref = b.ref /\ Kept(c, g) /\ SoundBlock(Str(g)) /\ Str(g).text = Text(c)
      <4>1. Edits(g, k) /\ Text(g) = Text(c) /\ Str(g).kind = b.kind /\ Str(g).rb = b.rb
            /\ Str(g).ref = b.ref /\ Kept(c, g)
        BY <2>6, <2>8, <3>4, KeptTrans DEF Post
      <4> QED
        BY <4>1, StrFacts
    <3> DEFINE e == [Str(g) EXCEPT !.text = nt]
    <3>6. /\ Overhead(Str(g)) + nlen <= Str(g).room /\ Str(g).kind \in {"alloc", "fixed"}
          /\ SoundBlock(e) /\ e.kind = Str(g).kind /\ e.rb = Str(g).rb /\ e.ref = Str(g).ref /\ e.text = nt
      <4>1. Str(g).kind = "alloc"
        BY <2>2, <3>5 DEF Alloc
      <4> HIDE DEF nt
      <4> QED
        BY <1>1, <1>2, <3>5, <4>1, ShorterSound
    <3>7. ~Ro(Str(g)) /\ ~(Overhead(Str(g)) + nlen > Str(g).room)
      <4>1. Overhead(Str(g)) \in Nat /\ Str(g).room \in Nat
        BY <3>5, <3>6, WritableParts
      <4> QED
        BY <3>6, <4>1 DEF Ro
    <3> HIDE DEF e
    <3>8. /\ Edits(d, k) /\ Kept(g, d) /\ d.ok = TRUE /\ Len(Text(d)) = nlen
          /\ Str(d).kind = Str(g).kind /\ Str(d).rb = Str(g).rb /\ Str(d).ref = Str(g).ref
      <4>1. PICK t, f2 : t = nt /\ f2 = e
        OBVIOUS
      <4>2. f2 = [Str(g) EXCEPT !.text = t] /\ t = NewLen(Text(g), nlen)
        BY <3>5, <4>1 DEF e
      <4>3. SoundBlock(f2) /\ f2.kind = Str(g).kind /\ f2.rb = Str(g).rb /\ f2.ref = Str(g).ref /\ f2.text = t
        BY <3>6, <4>1
      <4>4. Almost(g, k)
        BY <3>5, EditsAlmost
      <4>5. SetTo(g, k, d, nlen)
        BY <3>2, <3>7, <4>2, <4>3, <4>4, SetLenGood
      <4> QED
        BY <4>5 DEF SetTo
    <3> QED
      BY <2>2, <3>5, <3>8, OwnerLike, KeptTrans DEF Post
  <2> QED
    BY <2>6, <2>7, <2>8
<1> QED
  BY <1>3, <1>4, <1>5

-----------------------------------------------------------------------------
(* Edits: text is cut out *)

\* What an edit that succeeds leaves: a text of this length, which may be
\* written to.
Came(c, k, d, n) == Post(c, k, d) /\ (d.ok => Len(Text(d)) = n)
Opened(c, k, d, n) == Came(c, k, d, n) /\ (d.ok => ~Ro(Str(d)))

\* A string with room made for text.
LEMMA OpenedParts ==
  ASSUME NEW c, NEW k, NEW d, NEW n, Opened(c, k, d, n)
  PROVE  Post(c, k, d) /\ Edits(d, k) /\ Kept(c, d) /\ Came(c, k, d, n)
BY DEF Opened, Came, Post

\* A string that came out of an edit.
LEMMA CameParts ==
  ASSUME NEW c, NEW k, NEW d, NEW n, Came(c, k, d, n)
  PROVE  Post(c, k, d) /\ Edits(d, k) /\ Kept(c, d) /\ Good(d, k) /\ d.ok \in BOOLEAN
BY GoodFacts DEF Came, Post, Edits

\* An edit after a step.
LEMMA CameTrans ==
  ASSUME NEW c, NEW k, NEW d, NEW e, NEW n, Post(c, k, d)
  PROVE  /\ Came(d, k, e, n) => Came(c, k, e, n)
         /\ Opened(d, k, e, n) => Opened(c, k, e, n)
BY PostTrans DEF Came, Opened

\* An edit with nothing to do.
LEMMA DoneCame ==
  ASSUME NEW c, NEW k, Edits(c, k)
  PROVE  Came(c, k, Done(c), Len(Text(c)))
<1>1. Good(c, k)
  BY DEF Edits
<1> QED
  BY <1>1, DoneGood DEF Came

\* A failure leaves whatever is said of success.
LEMMA FailCame ==
  ASSUME NEW c, NEW k, Edits(c, k), NEW n
  PROVE  Opened(c, k, Fail(c), n) /\ Opened(c, k, Flagged(c), n)
<1>1. Good(c, k)
  BY DEF Edits
<1>2. Post(c, k, Fail(c)) /\ ~Fail(c).ok
  BY <1>1, FailGood
<1>3. Post(c, k, Flagged(c)) /\ ~Flagged(c).ok
  BY FlaggedGood
<1> QED
  BY <1>2, <1>3 DEF Opened, Came

\* A block of one's own is not read only.
LEMMA OwnerOpen ==
  ASSUME NEW b, Owner(b)
  PROVE  ~Ro(b)
BY DEF Owner, Ro, Fixed, Alloc

\* The length of a string that was rebuilt.
LEMMA RebuildCame ==
  ASSUME NEW c, NEW k, Edits(c, k), NEW text, IsText(text), Len(text) <= MaxLen,
         NEW d \in Rebuild(c, text)
  PROVE  /\ Came(c, k, d, Len(text))
         /\ Len(text) # 0 => Opened(c, k, d, Len(text))
<1>1. Post(c, k, d) /\ (d.ok => Text(d) = text /\ (text # <<>> => Owner(Str(d))))
  BY RebuildGood
<1>2. Came(c, k, d, Len(text))
  BY <1>1 DEF Came
<1>3. ASSUME Len(text) # 0 PROVE Opened(c, k, d, Len(text))
  <2>1. text # <<>>
    BY <1>3, EmptyText
  <2> QED
    BY <1>1, <1>2, <2>1, OwnerOpen DEF Opened
<1> QED
  BY <1>2, <1>3

\* The length of a string that shrank.
LEMMA ShrinkCame ==
  ASSUME NEW c, NEW k, Edits(c, k), NEW nlen \in Nat, nlen <= Len(Text(c)),
         NEW d \in Shrink(c, RwMod(Str(c), nlen), nlen)
  PROVE  /\ Came(c, k, d, nlen)
         /\ nlen # 0 => Opened(c, k, d, nlen)
<1>1. Post(c, k, d) /\ (d.ok => Len(Text(d)) = nlen /\ (nlen # 0 => Owner(Str(d))))
  BY ShrinkGood
<1> QED
  BY <1>1, OwnerOpen DEF Came, Opened

\* ustrp__del.
LEMMA DelCame ==
  ASSUME NEW c, NEW k, Edits(c, k), NEW len \in Nat, NEW d \in Del(c, len)
  PROVE  /\ Came(c, k, d, Len(Text(c)) - len)
         /\ len # 0 /\ Len(Text(c)) - len # 0 => Opened(c, k, d, Len(Text(c)) - len)
<1> DEFINE nlen == Len(Str(c).text) - len
<1>1. Good(c, k) /\ Text(c) = Str(c).text /\ Len(Text(c)) \in Nat /\ c.s \in Places
  BY StrFacts DEF Edits
<1>2. CASE len = 0
  <2>1. d = Done(c) /\ nlen = Len(Text(c))
    BY <1>1, <1>2 DEF Del
  <2> QED
    BY <1>1, <1>2, <2>1, DoneCame
<1>3. CASE nlen = 0 /\ d = ScFree2(Done(c), Empty)
  <2>1. PICK e : e = Done(c)
    OBVIOUS
  <2>2. Post(c, k, e) /\ Good(e, k) /\ e.s = c.s
    BY <1>1, <2>1, DoneGood
  <2>3. Stays(e.heap[Empty]) /\ e.heap[Empty].text = <<>> /\ Empty \in Places
    BY <2>2, LibraryEmpty
  <2>4. Good(e, With(k, Empty)) /\ k \in [Places -> Nat]
    BY <2>2, <2>3, CountUp, GoodFacts
  <2>5. Post(e, k, d) /\ Text(d) = e.heap[Empty].text
    <3>1. d = ScFree2(e, Empty) /\ e.s \in Places
      BY <1>1, <1>3, <2>1, <2>2
    <3> QED
      BY SMTT(30), <2>3, <2>4, <3>1, ScFree2Good
  <2>6. Post(c, k, d) /\ Len(Text(d)) = 0
    BY <2>2, <2>3, <2>5, PostTrans, EmptyText
  <2> QED
    BY <1>1, <1>3, <2>6 DEF Came
<1>4. CASE d = Fail(c)
  BY <1>1, <1>4, FailCame, OpenedParts
<1>5. CASE len # 0 /\ ~(nlen < 0) /\ d \in Shrink(c, RwMod(Str(c), nlen), nlen)
  <2>1. nlen \in Nat /\ nlen <= Len(Text(c)) /\ nlen = Len(Text(c)) - len
    BY <1>1, <1>5
  <2> HIDE DEF nlen
  <2>2. Came(c, k, d, nlen) /\ (nlen # 0 => Opened(c, k, d, nlen))
    BY <1>5, <2>1, ShrinkCame
  <2> QED
    BY <2>1, <2>2
<1> QED
  BY <1>2, <1>3, <1>4, <1>5 DEF Del

\* What is between the parts that stay.
LEMMA RestText ==
  ASSUME NEW text, IsText(text), NEW pos \in Nat \ {0}, NEW len \in Nat \ {0},
         GoodSub(text, pos, len),
         NEW rest, rest = Slice(text, 0, pos - 1) \o Slice(text, pos - 1 + len,
                                                           Len(text) - len - pos + 1)
  PROVE  IsText(rest) /\ Len(rest) = Len(text) - len
<1> DEFINE n == Len(text)
           left == Slice(text, 0, pos - 1)
           right == Slice(text, pos - 1 + len, n - len - pos + 1)
<1>1. pos - 1 + len <= n /\ n \in Nat /\ pos - 1 \in Nat
  BY GoodSubFits
<1>2. IsText(left) /\ Len(left) = pos - 1
  <2>1. PICK m : m = pos - 1
    OBVIOUS
  <2>2. 0 \in Nat /\ m \in Nat /\ 0 + m <= n /\ ~(m < 0)
    BY <1>1, <2>1
  <2>3. IsText(Slice(text, 0, m)) /\ Len(Slice(text, 0, m)) = m
    BY <2>2, SliceText
  <2> QED
    BY <2>1, <2>3
<1>3. IsText(right) /\ Len(right) = n - len - pos + 1
  <2>1. PICK off, m : off = pos - 1 + len /\ m = n - len - pos + 1
    OBVIOUS
  <2>2. off \in Nat /\ m \in Nat /\ off + m <= n
    BY <1>1, <2>1
  <2>3. IsText(Slice(text, off, m)) /\ Len(Slice(text, off, m)) = m
    BY <2>2, SliceText
  <2> QED
    BY <2>1, <2>3
<1>4. IsText(left \o right) /\ Len(left \o right) = Len(left) + Len(right)
  BY <1>2, <1>3, JoinText
<1>5. Len(left) + Len(right) = n - len
  BY <1>1, <1>2, <1>3
<1> QED
  BY <1>4, <1>5

\* A text of the same length may stand in any block that is written to.
LEMMA RewriteGood ==
  ASSUME NEW c, NEW k, Edits(c, k), ~Ro(Str(c)), NEW t, IsText(t), Len(t) = Len(Text(c)),
         NEW d, d = [c EXCEPT !.heap[c.s].text = t]
  PROVE  /\ Post(c, k, d) /\ d.ok = c.ok /\ d.s = c.s /\ d.n = c.n
         /\ Text(d) = t /\ ~Ro(Str(d))
         /\ \A x \in Places : x # c.s => d.heap[x] = c.heap[x]
<1>1. SoundBlock(Str(c)) /\ Str(c) = c.heap[c.s] /\ Text(c) = Str(c).text
  BY StrFacts
<1> DEFINE b == [Str(c) EXCEPT !.text = t]
<1>2. /\ SoundBlock(b) /\ b.kind = Str(c).kind /\ b.rb = Str(c).rb /\ b.ref = Str(c).ref /\ b.text = t
  BY <1>1, SameLengthSound
<1>3. d = [c EXCEPT !.heap = [c.heap EXCEPT ![c.s] = b]]
  BY <1>1
<1> HIDE DEF b
<1>4. /\ Post(c, k, d) /\ d.ok = c.ok /\ d.s = c.s /\ d.n = c.n /\ Str(d) = b /\ Text(d) = b.text
      /\ \A x \in Places : x # c.s => d.heap[x] = c.heap[x]
  BY <1>2, <1>3, PutGood
<1> QED
  BY <1>2, <1>4 DEF Ro

\* ustrp__del_subustr.
LEMMA DelSubustrCame ==
  ASSUME NEW c, NEW k, Edits(c, k), NEW pos \in Nat \ {0}, NEW len \in Nat,
         NEW d \in DelSubustr(c, pos, len)
  PROVE  /\ Came(c, k, d, Len(Text(c)) - len)
         /\ len # 0 /\ Len(Text(c)) - len # 0 => Opened(c, k, d, Len(Text(c)) - len)
<1> DEFINE text == Text(c)
           rest == Slice(text, 0, pos - 1) \o Slice(text, pos - 1 + len,
                                                    Len(text) - len - pos + 1)
<1>1. Good(c, k) /\ IsText(text) /\ Len(text) \in Nat /\ Len(text) <= MaxLen /\ MaxLen \in Nat
      /\ text = Str(c).text /\ Str(c) = c.heap[c.s]
  BY StrFacts, MaxLenNat DEF Edits
<1>2. CASE len = 0
  <2>1. d = Done(c) /\ Len(text) - len = Len(text)
    BY <1>1, <1>2 DEF DelSubustr
  <2> QED
    BY <1>1, <1>2, <2>1, DoneCame
<1>3. CASE d = Fail(c)
  BY <1>1, <1>3, FailCame, OpenedParts
<1>4. CASE d \in Del(c, len)
  BY <1>4, DelCame
<1>5. CASE /\ len # 0 /\ GoodSub(text, pos, len) /\ RwMod(Str(c), Len(rest)).can
           /\ d \in Del([c EXCEPT !.heap[c.s].text = rest \o Junks(len)], len)
  <2>1. IsText(rest) /\ Len(rest) = Len(text) - len
    <3>1. PICK r : r = rest
      OBVIOUS
    <3>2. IsText(text) /\ GoodSub(text, pos, len) /\ len \in Nat \ {0}
      BY <1>1, <1>5
    <3>4. r = Slice(text, 0, pos - 1) \o Slice(text, pos - 1 + len, Len(text) - len - pos + 1)
      BY <3>1
    <3> HIDE DEF text
    <3>3. IsText(r) /\ Len(r) = Len(text) - len
      BY <3>2, <3>4, RestText
    <3> QED
      BY <3>1, <3>3
  <2>2. ~Ro(Str(c))
    BY <1>5 DEF RwMod, Owner, Ro, Fixed, Alloc
  <2> HIDE DEF rest
  <2>3. IsText(Junks(len)) /\ Len(Junks(len)) = len
    BY JunksText
  <2>4. IsText(rest \o Junks(len)) /\ Len(rest \o Junks(len)) = Len(text)
    <3>1. IsText(rest \o Junks(len)) /\ Len(rest \o Junks(len)) = Len(rest) + Len(Junks(len))
      BY <2>1, <2>3, JoinText
    <3> QED
      BY <1>1, <2>1, <2>3, <3>1
  <2>5. PICK e, t : e = [c EXCEPT !.heap[c.s].text = t] /\ t = rest \o Junks(len)
    OBVIOUS
  <2>6. Post(c, k, e) /\ Text(e) = t
    BY <2>2, <2>4, <2>5, RewriteGood
  <2>7. d \in Del(e, len) /\ Edits(e, k) /\ Len(Text(e)) = Len(text)
    BY <1>5, <2>4, <2>5, <2>6 DEF Post
  <2>8. /\ Came(e, k, d, Len(text) - len)
        /\ len # 0 /\ Len(text) - len # 0 => Opened(e, k, d, Len(text) - len)
    BY <2>7, DelCame
  <2> QED
    BY <2>6, <2>8, CameTrans
<1>6. CASE len # 0 /\ GoodSub(text, pos, len) /\ d \in Rebuild(c, rest)
  <2>1. IsText(rest) /\ Len(rest) = Len(text) - len
    <3>1. PICK r : r = rest
      OBVIOUS
    <3>2. IsText(text) /\ GoodSub(text, pos, len) /\ len \in Nat \ {0}
      BY <1>1, <1>6
    <3>4. r = Slice(text, 0, pos - 1) \o Slice(text, pos - 1 + len, Len(text) - len - pos + 1)
      BY <3>1
    <3> HIDE DEF text
    <3>3. IsText(r) /\ Len(r) = Len(text) - len
      BY <3>2, <3>4, RestText
    <3> QED
      BY <3>1, <3>3
  <2> HIDE DEF rest
  <2>2. Len(rest) <= MaxLen
    BY <1>1, <2>1
  <2> QED
    BY <1>6, <2>1, <2>2, RebuildCame
<1> QED
  BY <1>2, <1>3, <1>4, <1>5, <1>6 DEF DelSubustr

-----------------------------------------------------------------------------
(* Edits: text is added *)

\* The block is told of its new size and of the length of its text.
LEMMA GrowMoved ==
  ASSUME NEW c, NEW k, Edits(c, k), NEW n \in Nat, n <= MaxLen, Len(Text(c)) <= n,
         RwMod(Str(c), n).can, RwMod(Str(c), n).alloc,
         NEW f \in RwRealloc(c, RwMod(Str(c), n).sized, RwMod(Str(c), n).nsz), f.ok,
         NEW d, d = SetLen(f, n)
  PROVE  Opened(c, k, d, n)
<1> DEFINE b == Str(c)
           m == RwMod(b, n)
<1>1. /\ Good(c, k) /\ SoundBlock(b) /\ Text(c) = b.text /\ IsBlock(b) /\ IsText(Text(c))
      /\ Len(Text(c)) \in Nat
  BY StrFacts DEF Edits
<1>2. /\ Alloc(b) /\ Owner(b) /\ Nb(n) <= b.lb
      /\ m.nsz = Graded(b.exact, Overhead(b) + n)
      /\ m.sized = b.sized
  BY <1>1, RwModMoves
<1>3. /\ Overhead(b) \in Nat /\ b.exact \in BOOLEAN /\ b.room \in Nat /\ b.sized \in BOOLEAN
  BY <1>1, <1>2, WritableParts DEF Alloc
<1>4. PICK nsz : nsz = Graded(b.exact, Overhead(b) + n)
  OBVIOUS
<1>5. nsz \in Nat /\ Overhead(b) + n <= nsz
  <2>1. PICK i : i = Overhead(b) + n
    OBVIOUS
  <2>2. i \in Nat /\ i <= i
    BY <1>3, <2>1
  <2>3. Graded(b.exact, i) \in Nat /\ Graded(b.exact, i) >= i
    BY <1>3, <2>2, GradedFacts
  <2> QED
    BY <1>4, <2>1, <2>2, <2>3
<1>6. b.sized => nsz < Values(Radix, 2)
  BY <1>1, <1>2, <1>4, SizedRoom
<1>7. Kept(c, f) /\ Almost(f, k) /\ Text(f) = Text(c) /\ Str(f) = Resized(b, b.sized, nsz)
  <2>1. f \in RwRealloc(c, b.sized, nsz)
    BY <1>2, <1>4
  <2> QED
    BY <1>2, <1>3, <1>5, <2>1, RwReallocGood
<1>8. PICK t, e : t = NewLen(Text(c), n) /\ e = [Resized(b, b.sized, nsz) EXCEPT !.text = t]
  OBVIOUS
<1>9. IsText(t) /\ Len(t) = n
  BY <1>1, <1>8, NewLenText
<1>10. /\ SoundBlock(e) /\ e.kind = b.kind /\ e.rb = b.rb /\ e.ref = b.ref /\ e.text = t
  <2>1. Overhead(b) + Len(t) <= nsz /\ Len(t) <= MaxLen /\ Nb(Len(t)) <= b.lb
        /\ nsz = Graded(b.exact, Overhead(b) + Len(t))
    BY <1>2, <1>4, <1>5, <1>9
  <2> DEFINE g == [Resized(b, b.sized, nsz) EXCEPT !.text = t]
  <2>2. SoundBlock(g) /\ g.kind = b.kind /\ g.rb = b.rb /\ g.ref = b.ref /\ g.text = t
    BY <1>1, <1>2, <1>5, <1>6, <1>9, <2>1, ResizedSound
  <2> QED
    BY <1>8, <2>2
<1>11. Str(f).kind = b.kind /\ Str(f).rb = b.rb /\ Str(f).ref = b.ref /\ Str(f).room = nsz
       /\ Overhead(Str(f)) = Overhead(b)
  <2>1. PICK z : z = IF b.sized THEN nsz % Values(Radix, b.lb) ELSE b.sz
    OBVIOUS
  <2>2. Str(f) = [b EXCEPT !.room = nsz, !.sz = z]
    BY <1>7, <2>1 DEF Resized
  <2>3. /\ Str(f).kind = b.kind /\ Str(f).rb = b.rb /\ Str(f).ref = b.ref /\ Str(f).room = nsz
        /\ Str(f).lb = b.lb /\ Str(f).sized = b.sized /\ Str(f).text = b.text
    BY <1>1, <2>2 DEF IsBlock
  <2> QED
    BY <2>3 DEF Overhead, Ro
<1>12. ~Ro(Str(f)) /\ ~(Overhead(Str(f)) + n > Str(f).room)
  BY <1>2, <1>3, <1>5, <1>11 DEF Ro, Alloc
<1>13. SetTo(f, k, d, n)
  <2>1. e = [Str(f) EXCEPT !.text = t] /\ t = NewLen(Text(f), n)
    BY <1>7, <1>8
  <2>2. SoundBlock(e) /\ e.kind = Str(f).kind /\ e.rb = Str(f).rb /\ e.ref = Str(f).ref /\ e.text = t
    BY <1>10, <1>11
  <2> QED
    BY <1>7, <1>12, <2>1, <2>2, SetLenGood
<1>14. Post(c, k, d) /\ Len(Text(d)) = n /\ ~Ro(Str(d))
  BY <1>2, <1>7, <1>11, <1>13, KeptTrans DEF SetTo, Post, Ro, Alloc
<1> QED
  BY <1>14 DEF Opened, Came

\* ustrp__add_undef, where text comes behind the text.
LEMMA GrowGood ==
  ASSUME NEW c, NEW k, Edits(c, k), NEW len \in Nat \ {0}, Len(Text(c)) + len <= MaxLen,
         NEW d \in Grow(c, RwMod(Str(c), Len(Text(c)) + len), len)
  PROVE  Opened(c, k, d, Len(Text(c)) + len)
<1> DEFINE b == Str(c)
           n == Len(Text(c)) + len
           m == RwMod(b, n)
<1>1. /\ Good(c, k) /\ SoundBlock(b) /\ Text(c) = b.text /\ IsBlock(b) /\ IsText(Text(c))
      /\ Len(Text(c)) \in Nat /\ MaxLen \in Nat
  BY StrFacts, MaxLenNat DEF Edits
<1>2. n \in Nat /\ Len(Text(c)) <= n /\ n # 0 /\ n <= MaxLen
  BY <1>1
<1>3. CASE ~m.can /\ d = Flagged(c)
  BY <1>3, FailCame
<1>4. CASE ~m.can /\ d \in Rebuild(c, Text(c) \o Junks(len))
  <2>1. IsText(Junks(len)) /\ Len(Junks(len)) = len
    BY JunksText
  <2>2. IsText(Text(c) \o Junks(len)) /\ Len(Text(c) \o Junks(len)) = n
    BY <1>1, <2>1, JoinText
  <2> HIDE DEF n
  <2>3. Opened(c, k, d, n)
    BY <1>2, <1>4, <2>2, RebuildCame
  <2> QED
    BY <2>3 DEF n
<1>5. CASE m.can /\ m.alloc
  <2>1. PICK f \in RwRealloc(c, m.sized, m.nsz) : d = IF f.ok THEN SetLen(f, Len(Text(c)) + len) ELSE f
    BY <1>5 DEF Grow
  <2>2. PICK n2 : n2 = n
    OBVIOUS
  <2>3. n2 \in Nat /\ Len(Text(c)) <= n2 /\ n2 <= MaxLen /\ RwMod(Str(c), n2).can /\ RwMod(Str(c), n2).alloc
        /\ f \in RwRealloc(c, RwMod(Str(c), n2).sized, RwMod(Str(c), n2).nsz)
    BY <1>2, <1>5, <2>1, <2>2
  <2>4. CASE f.ok
    <3>1. d = SetLen(f, n2)
      BY <2>1, <2>2, <2>4
    <3> HIDE DEF n
    <3>2. Opened(c, k, d, n2)
      BY <2>3, <2>4, <3>1, GrowMoved
    <3> QED
      BY <2>2, <3>2 DEF n
  <2>5. CASE ~f.ok
    <3>1. Alloc(b) /\ Owner(b) /\ m.sized = b.sized /\ m.nsz = Graded(b.exact, Overhead(b) + n)
      BY <1>1, <1>2, <1>5, RwModMoves
    <3>2. Overhead(b) \in Nat /\ b.exact \in BOOLEAN /\ b.sized \in BOOLEAN
      BY <1>1, <3>1, WritableParts DEF Alloc
    <3>3. m.nsz \in Nat
      <4>1. PICK i : i = Overhead(b) + n
        OBVIOUS
      <4>2. i \in Nat /\ i <= i
        BY <1>2, <3>2, <4>1
      <4>3. Graded(b.exact, i) \in Nat
        BY <3>2, <4>2, GradedFacts
      <4> QED
        BY <3>1, <4>1, <4>3
    <3>4. PICK nsz, sized : nsz = m.nsz /\ sized = m.sized
      OBVIOUS
    <3>5. f \in RwRealloc(c, sized, nsz) /\ nsz \in Nat /\ sized \in BOOLEAN
      BY <2>1, <3>1, <3>2, <3>3, <3>4
    <3>6. Post(c, k, f)
      BY <2>5, <3>1, <3>5, RwReallocGood
    <3> QED
      BY <2>1, <2>5, <3>6 DEF Opened, Came
  <2> QED
    BY <2>4, <2>5
<1>6. CASE m.can /\ ~m.alloc
  <2>1. d = SetLen(Done(c), n)
    <3>1. PICK f \in {Done(c)} : d = IF f.ok THEN SetLen(f, Len(Text(c)) + len) ELSE f
      BY <1>6 DEF Grow
    <3>2. Done(c).ok = TRUE
      BY <1>1, DoneGood
    <3> QED
      BY <3>1, <3>2
  <2>2. PICK f : f = Done(c)
    OBVIOUS
  <2>3. Post(c, k, f) /\ Edits(f, k) /\ Str(f) = b /\ Text(f) = Text(c)
    BY <1>1, <2>2, DoneGood
  <2>4. PICK t, e : t = NewLen(Text(c), n) /\ e = [b EXCEPT !.text = t]
    OBVIOUS
  <2> HIDE DEF n
  <2>5. IsText(t) /\ Len(t) = n
    BY <1>1, <1>2, <2>4, NewLenText
  <2>6. /\ Owner(b) /\ Overhead(b) + n <= b.room
        /\ SoundBlock(e) /\ e.kind = b.kind /\ e.rb = b.rb /\ e.ref = b.ref /\ e.text = t
    <3> DEFINE g == [b EXCEPT !.text = t]
    <3>1. /\ Owner(b) /\ Overhead(b) + Len(t) <= b.room
          /\ SoundBlock(g) /\ g.kind = b.kind /\ g.rb = b.rb /\ g.ref = b.ref /\ g.text = t
      BY <1>1, <1>2, <1>6, <2>5, RwModInPlace
    <3> QED
      BY <2>4, <2>5, <3>1
  <2>7. ~Ro(b) /\ ~(Overhead(b) + n > b.room)
    <3>1. b.kind \in {"alloc", "fixed"}
      BY <2>6 DEF Owner, Alloc, Fixed
    <3>2. Overhead(b) \in Nat /\ b.room \in Nat
      BY <1>1, <3>1, WritableParts
    <3> QED
      BY <1>2, <2>6, <3>1, <3>2 DEF Ro
  <2>8. SetTo(f, k, d, n)
    <3>1. e = [Str(f) EXCEPT !.text = t] /\ t = NewLen(Text(f), n)
      BY <2>3, <2>4
    <3>2. SoundBlock(e) /\ e.kind = Str(f).kind /\ e.rb = Str(f).rb /\ e.ref = Str(f).ref /\ e.text = t
          /\ ~Ro(Str(f)) /\ ~(Overhead(Str(f)) + n > Str(f).room)
      BY <2>3, <2>6, <2>7
    <3>3. Almost(f, k) /\ d = SetLen(f, n)
      BY <2>1, <2>2, <2>3, EditsAlmost
    <3> QED
      BY <1>2, <3>1, <3>2, <3>3, SetLenGood
  <2>9. Post(c, k, d) /\ Len(Text(d)) = n /\ ~Ro(Str(d))
    BY <2>3, <2>7, <2>8, KeptTrans DEF SetTo, Post, Ro
  <2>10. Opened(c, k, d, n)
    BY <2>9 DEF Opened, Came
  <2> QED
    BY <2>10 DEF n
<1> QED
  BY <1>3, <1>4, <1>5, <1>6 DEF Grow

\* ustrp__add_undef.
LEMMA AddUndefGood ==
  ASSUME NEW c, NEW k, Edits(c, k), NEW len \in Nat, Len(Text(c)) + len <= MaxLen,
         NEW d \in AddUndef(c, len)
  PROVE  /\ Came(c, k, d, Len(Text(c)) + len)
         /\ len # 0 => Opened(c, k, d, Len(Text(c)) + len)
<1>1. CASE len = 0
  <2>1. d = Done(c) /\ Len(Text(c)) + len = Len(Text(c))
    BY <1>1, StrFacts DEF AddUndef
  <2> QED
    BY <1>1, <2>1, DoneCame
<1>2. CASE len # 0
  <2>1. d \in Grow(c, RwMod(Str(c), Len(Text(c)) + len), len)
    BY <1>2 DEF AddUndef
  <2> QED
    BY <1>2, <2>1, GrowGood, OpenedParts
<1> QED
  BY <1>1, <1>2

\* A source that is there as long as the call lasts.
HeldSrc(c, k, src) ==
  /\ src = [at |-> src.at, off |-> src.off, text |-> src.text]
  /\ src.at = Null \/ Pinned(c, k, src.at)

\* Where text may be copied from.
LEMMA SrcForms ==
  /\ \A c, k, text : HeldSrc(c, k, Buf(text))
  /\ \A c, k, x, off : Pinned(c, k, x) => HeldSrc(c, k, Of(x, off))
  /\ \A c, x, off : x \in Places /\ Live(c.heap[x]) => SrcOK(c, Of(x, off))
  /\ \A c, text : SrcOK(c, Buf(text))
<1>1. \A text : Buf(text) = [at |-> Buf(text).at, off |-> Buf(text).off, text |-> Buf(text).text]
                /\ Buf(text).at = Null
  BY DEF Buf
<1>2. \A x, off : Of(x, off) = [at |-> Of(x, off).at, off |-> Of(x, off).off, text |-> Of(x, off).text]
                  /\ Of(x, off).at = x
  BY DEF Of
<1>3. \A c, k, text : HeldSrc(c, k, Buf(text))
  BY <1>1 DEF HeldSrc
<1>4. \A c, k, x, off : Pinned(c, k, x) => HeldSrc(c, k, Of(x, off))
  BY <1>2 DEF HeldSrc
<1>5. \A c, x, off : x \in Places /\ Live(c.heap[x]) => SrcOK(c, Of(x, off))
  BY <1>2 DEF SrcOK
<1>6. \A c, text : SrcOK(c, Buf(text))
  BY <1>1 DEF SrcOK
<1> QED
  BY <1>3, <1>4, <1>5, <1>6

\* A source that somebody holds is there after a step.
LEMMA HeldStays ==
  ASSUME NEW c, NEW k, NEW src, HeldSrc(c, k, src), NEW d, Kept(c, d), Good(d, k)
  PROVE  HeldSrc(d, k, src) /\ SrcOK(d, src)
<1>1. CASE src.at = Null
  BY <1>1 DEF HeldSrc, SrcOK
<1>2. CASE src.at # Null
  <2>1. PICK x : x = src.at
    OBVIOUS
  <2>2. Pinned(c, k, x) /\ x \in Places
    BY <1>2, <2>1 DEF HeldSrc, Pinned
  <2>3. Pinned(d, k, x)
    BY <2>2, PinnedKept
  <2>4. Live(d.heap[x])
    BY <2>3, PinnedLive
  <2> QED
    BY <2>1, <2>2, <2>3, <2>4 DEF HeldSrc, SrcOK
<1> QED
  BY <1>1, <1>2

\* Bytes are copied into a text that was made to be written to.
LEMMA CopyGood ==
  ASSUME NEW c, NEW k, NEW d, NEW n, Opened(c, k, d, n), d.ok, NEW off \in Int, NEW len \in Int,
         off + len <= n, NEW src, SrcOK(d, src), NEW e, e = Memcpy(d, off, src, len)
  PROVE  Opened(c, k, e, n) /\ e.ok /\ e.s = d.s
<1>1. Edits(d, k) /\ Post(c, k, d) /\ Len(Text(d)) = n /\ ~Ro(Str(d))
  BY OpenedParts DEF Opened, Came
<1>2. off + len <= Len(Text(d))
  BY <1>1
<1>3. /\ Post(d, k, e) /\ e.ok = d.ok /\ e.s = d.s
      /\ Len(Text(e)) = Len(Text(d)) /\ Str(e).kind = Str(d).kind
  <2>1. len # 0 => SrcOK(d, src) /\ off + len <= Len(Text(d)) /\ ~Ro(Str(d))
    BY <1>1, <1>2
  <2>2. Post(d, k, e)
    BY <1>1, <2>1, MemcpyGood
  <2>3. e.s = d.s
    BY <1>1, <2>1, MemcpyGood
  <2>5. e.ok = d.ok
    BY <1>1, <2>1, MemcpyGood
  <2>4. Len(Text(e)) = Len(Text(d)) /\ Str(e).kind = Str(d).kind
    BY <1>1, <2>1, MemcpyGood
  <2> QED
    BY <2>2, <2>3, <2>4, <2>5
<1>4. Post(c, k, e)
  BY <1>1, <1>3, PostTrans
<1> QED
  BY <1>1, <1>3, <1>4 DEF Opened, Came, Ro

\* Text of another string goes into the room made for it.
LEMMA CopyHeld ==
  ASSUME NEW c, NEW k, NEW d, NEW n, Opened(c, k, d, n), d.ok, NEW off \in Int, NEW len \in Int,
         off + len <= n, NEW src, HeldSrc(c, k, src), NEW e, e = Memcpy(d, off, src, len)
  PROVE  Opened(c, k, e, n) /\ e.ok /\ e.s = d.s
<1>1. Edits(d, k) /\ Kept(c, d) /\ Good(d, k)
  BY OpenedParts DEF Edits
<1>2. SrcOK(d, src)
  BY <1>1, HeldStays
<1> QED
  BY <1>2, CopyGood

\* What a string copies from itself is there.
LEMMA CopyOwn ==
  ASSUME NEW c, NEW k, NEW d, NEW n, Opened(c, k, d, n), d.ok, NEW off \in Int, NEW len \in Int,
         off + len <= n, NEW o, NEW e, e = Memcpy(d, off, Of(d.s, o), len)
  PROVE  Opened(c, k, e, n) /\ e.ok /\ e.s = d.s
<1>1. Edits(d, k)
  BY OpenedParts
<1>2. d.s \in Places /\ Live(d.heap[d.s])
  BY <1>1, StrFacts
<1>3. SrcOK(d, Of(d.s, o))
  BY <1>2, SrcForms
<1> QED
  BY <1>3, CopyGood

\* No bytes are copied.
LEMMA CopyNone ==
  ASSUME NEW d, NEW off, NEW src
  PROVE  Memcpy(d, off, src, 0) = d
BY DEF Memcpy

\* ustrp__add_buf.
LEMMA AddBufGood ==
  ASSUME NEW c, NEW k, Edits(c, k), NEW len \in Nat, Len(Text(c)) + len <= MaxLen,
         NEW src, len # 0 => HeldSrc(c, k, src), NEW d \in AddBuf(c, src, len)
  PROVE  Came(c, k, d, Len(Text(c)) + len)
<1>1. PICK e \in AddUndef(c, len) : d = IF e.ok THEN Memcpy(e, Len(Text(e)) - len, src, len) ELSE e
  BY DEF AddBuf
<1>2. /\ Came(c, k, e, Len(Text(c)) + len)
      /\ len # 0 => Opened(c, k, e, Len(Text(c)) + len)
  BY <1>1, AddUndefGood
<1>3. CASE ~e.ok
  BY <1>1, <1>2, <1>3
<1>4. CASE e.ok /\ len = 0
  BY <1>1, <1>2, <1>4, CopyNone
<1>5. CASE e.ok /\ len # 0
  <2>1. Opened(c, k, e, Len(Text(c)) + len) /\ Len(Text(e)) = Len(Text(c)) + len
        /\ Len(Text(c)) \in Nat
    BY <1>2, <1>5, StrFacts DEF Came
  <2>2. PICK off, n : off = Len(Text(e)) - len /\ n = Len(Text(c)) + len
    OBVIOUS
  <2>3. off \in Int /\ len \in Int /\ off + len <= n /\ Opened(c, k, e, n) /\ HeldSrc(c, k, src)
    BY <1>5, <2>1, <2>2
  <2>4. d = Memcpy(e, off, src, len)
    BY <1>1, <1>5, <2>2
  <2>5. Opened(c, k, d, n)
    BY <1>5, <2>3, <2>4, CopyHeld
  <2> QED
    BY <2>2, <2>5, OpenedParts
<1> QED
  BY <1>3, <1>4, <1>5

\* A string the caller may name: the one that is edited or one that stays.
Known(c, k, x) == x = c.s \/ Pinned(c, k, x)

\* A string that is named in a call.
LEMMA KnownFacts ==
  ASSUME NEW c, NEW k, Edits(c, k), NEW x, Known(c, k, x)
  PROVE  /\ x \in Places /\ Live(c.heap[x])
         /\ IsText(c.heap[x].text) /\ Len(c.heap[x].text) \in Nat /\ Len(c.heap[x].text) <= MaxLen
         /\ x # c.s => Pinned(c, k, x)
         /\ ~(Owner(Str(c)) /\ Alloc(Str(c))) => Pinned(c, k, x)
<1>1. Good(c, k)
  BY DEF Edits
<1>2. x \in Places /\ Live(c.heap[x])
  <2>1. CASE x = c.s
    BY <2>1, StrFacts
  <2>2. CASE Pinned(c, k, x)
    BY <1>1, <2>2, PinnedLive DEF Pinned
  <2> QED
    BY <2>1, <2>2 DEF Known
<1>3. IsText(c.heap[x].text) /\ Len(c.heap[x].text) \in Nat /\ Len(c.heap[x].text) <= MaxLen
  BY <1>1, <1>2, PlaceOf
<1> QED
  BY <1>2, <1>3, OthersPinned DEF Known

\* ustrp__add.
LEMMA AddGood ==
  ASSUME NEW c, NEW k, Edits(c, k), NEW x, Known(c, k, x),
         Len(Text(c)) + Len(c.heap[x].text) <= MaxLen, NEW d \in Add(c, x)
  PROVE  Came(c, k, d, Len(Text(c)) + Len(c.heap[x].text))
<1> DEFINE len1 == Len(Text(c))
           len2 == Len(c.heap[x].text)
<1>1. /\ Good(c, k) /\ len1 \in Nat /\ len2 \in Nat /\ len2 <= MaxLen /\ Str(c) = c.heap[c.s] /\ Text(c) = Str(c).text
      /\ x \in Places /\ Live(c.heap[x])
  BY StrFacts, KnownFacts DEF Edits
<1>2. CASE len2 = 0
  <2>1. d = Done(c) /\ len1 + len2 = len1
    BY <1>1, <1>2 DEF Add
  <2> QED
    BY <2>1, DoneCame
<1>3. CASE len2 # 0 /\ c.s = x /\ Owner(Str(c)) /\ Alloc(Str(c))
  <2>1. PICK e \in AddUndef(c, len1) : d = IF e.ok THEN Memcpy(e, len1, Of(e.s, 0), len1) ELSE e
    BY <1>3 DEF Add
  <2>2. len1 = len2
    BY <1>1, <1>3
  <2> HIDE DEF len1, len2
  <2>3. len1 + len1 <= MaxLen /\ len1 # 0 /\ len1 = Len(Text(c))
    BY <1>3, <2>2 DEF len1, len2
  <2>4. Opened(c, k, e, len1 + len1)
    BY <1>1, <2>1, <2>3, AddUndefGood
  <2>5. CASE e.ok
    <3>1. PICK n : n = len1 + len1
      OBVIOUS
    <3>2. Opened(c, k, e, n) /\ len1 \in Int /\ len1 + len1 <= n /\ d = Memcpy(e, len1, Of(e.s, 0), len1)
      BY <1>1, <2>1, <2>4, <2>5, <3>1
    <3>3. Opened(c, k, d, n)
      BY <2>5, <3>2, CopyOwn
    <3> QED
      BY <2>2, <3>1, <3>3, OpenedParts DEF len1, len2
  <2>6. CASE ~e.ok
    BY <2>1, <2>2, <2>4, <2>6, OpenedParts DEF len1, len2
  <2> QED
    BY <2>5, <2>6
<1>4. CASE len2 # 0 /\ ~(c.s = x /\ Owner(Str(c)) /\ Alloc(Str(c)))
  <2>1. Pinned(c, k, x)
    BY <1>4, KnownFacts
  <2>2. CASE d \in AddBuf(c, Of(x, 0), len2)
    <3>1. HeldSrc(c, k, Of(x, 0))
      BY <2>1, SrcForms
    <3> QED
      BY <1>1, <2>2, <3>1, AddBufGood
  <2>3. CASE len1 = 0 /\ d \in BecomeCopy(c, x)
    <3>1. Post(c, k, d) /\ (d.ok => Len(Text(d)) = len2)
      BY <1>1, <2>3, BecomeCopyGood
    <3>2. len1 + len2 = len2
      BY <1>1, <2>3
    <3> QED
      BY <3>1, <3>2 DEF Came
  <2> QED
    BY <1>4, <2>2, <2>3 DEF Add, TreatAsBuf
<1> QED
  BY <1>2, <1>3, <1>4

\* ustrp__add_subustr.
LEMMA AddSubustrGood ==
  ASSUME NEW c, NEW k, Edits(c, k), NEW x, Known(c, k, x), NEW pos \in Nat \ {0}, NEW len \in Nat,
         Len(Text(c)) + len <= MaxLen, NEW d \in AddSubustr(c, x, pos, len)
  PROVE  Came(c, k, d, Len(Text(c)) + len)
<1> DEFINE text == c.heap[x].text
<1>1. /\ Good(c, k) /\ Len(Text(c)) \in Nat /\ Str(c) = c.heap[c.s] /\ Text(c) = Str(c).text
      /\ x \in Places /\ Live(c.heap[x]) /\ IsText(text) /\ Len(text) \in Nat
      /\ x # c.s => Pinned(c, k, x)
  BY StrFacts, KnownFacts DEF Edits
<1>2. CASE len = 0
  <2>1. d = Done(c) /\ Len(Text(c)) + len = Len(Text(c))
    BY <1>1, <1>2 DEF AddSubustr
  <2> QED
    BY <2>1, DoneCame
<1>3. CASE d = Fail(c)
  BY <1>3, FailCame, OpenedParts
<1>4. CASE len = Len(text) /\ d \in Add(c, x)
  BY <1>4, AddGood
<1>5. CASE c.s # x /\ d \in AddBuf(c, Of(x, pos - 1), len)
  <2>1. HeldSrc(c, k, Of(x, pos - 1))
    BY <1>1, <1>5, SrcForms
  <2> QED
    BY <1>5, <2>1, AddBufGood
<1>6. CASE /\ c.s = x /\ len # 0
           /\ d \in {IF e.ok THEN Memcpy(e, Len(text), Of(e.s, pos - 1), len) ELSE e : e \in AddUndef(c, len)}
  <2>1. PICK e \in AddUndef(c, len) : d = IF e.ok THEN Memcpy(e, Len(text), Of(e.s, pos - 1), len) ELSE e
    BY <1>6
  <2>2. Opened(c, k, e, Len(Text(c)) + len) /\ text = Text(c)
    BY <1>1, <1>6, <2>1, AddUndefGood
  <2>3. CASE e.ok
    <3>1. PICK n, off : n = Len(Text(c)) + len /\ off = Len(text)
      OBVIOUS
    <3>2. Opened(c, k, e, n) /\ off \in Int /\ len \in Int /\ off + len <= n
          /\ d = Memcpy(e, off, Of(e.s, pos - 1), len)
      BY <1>1, <2>1, <2>2, <2>3, <3>1
    <3>3. Opened(c, k, d, n)
      BY <2>3, <3>2, CopyOwn
    <3> QED
      BY <3>1, <3>3, OpenedParts
  <2>4. CASE ~e.ok
    BY <2>1, <2>2, <2>4, OpenedParts
  <2> QED
    BY <2>3, <2>4
<1> QED
  BY <1>2, <1>3, <1>4, <1>5, <1>6 DEF AddSubustr

\* ustrp__sc_del.
LEMMA ScDelGood ==
  ASSUME NEW c, NEW k, Edits(c, k), NEW d \in ScDel(c)
  PROVE  Post(c, k, d)
<1>1. PICK e \in Del(c, Len(Text(c))) : d = IF e.ok THEN e ELSE ScFree2(Done(e), Empty)
  BY DEF ScDel
<1>2. Post(c, k, e) /\ Edits(e, k) /\ Good(e, k) /\ e.s \in Places
  BY <1>1, StrFacts, DelCame, CameParts DEF Edits
<1>3. CASE e.ok
  BY <1>1, <1>2, <1>3
<1>4. CASE ~e.ok
  <2>1. PICK f : f = Done(e)
    OBVIOUS
  <2>2. Post(e, k, f) /\ Good(f, k) /\ f.s = e.s
    BY <1>2, <2>1, DoneGood
  <2>3. Stays(f.heap[Empty]) /\ Empty \in Places
    BY <2>2, LibraryEmpty
  <2>4. Good(f, With(k, Empty)) /\ k \in [Places -> Nat]
    BY <2>2, <2>3, CountUp, GoodFacts
  <2>5. d = ScFree2(f, Empty) /\ f.s \in Places
    BY <1>1, <1>2, <1>4, <2>1, <2>2
  <2>6. Post(f, k, d)
    BY <2>3, <2>4, <2>5, ScFree2Good
  <2> QED
    BY <1>2, <2>2, <2>6, PostTrans
<1> QED
  BY <1>3, <1>4

-----------------------------------------------------------------------------
(* Edits: text is set *)

\* ustrp__set_undef.
LEMMA SetUndefGood ==
  ASSUME NEW c, NEW k, Edits(c, k), NEW nlen \in Nat, nlen <= MaxLen, NEW d \in SetUndef(c, nlen)
  PROVE  /\ Came(c, k, d, nlen)
         /\ nlen # 0 => Opened(c, k, d, nlen)
<1> DEFINE clen == Len(Str(c).text)
<1>1. Good(c, k) /\ clen \in Nat /\ clen = Len(Text(c)) /\ MaxLen \in Nat
  BY StrFacts, MaxLenNat DEF Edits
<1>2. CASE nlen = clen /\ Owner(Str(c)) /\ d = Done(c)
  <2>1. Came(c, k, d, nlen)
    BY <1>1, <1>2, DoneCame
  <2>2. Str(d) = Str(c)
    BY <1>1, <1>2, DoneGood
  <2> QED
    BY <1>2, <2>1, <2>2, OwnerOpen DEF Opened
<1>3. CASE nlen > clen /\ d \in AddUndef(c, nlen - clen)
  <2>1. PICK len : len = nlen - clen
    OBVIOUS
  <2>2. len \in Nat /\ len # 0 /\ Len(Text(c)) + len = nlen
    BY <1>1, <1>3, <2>1
  <2>3. Opened(c, k, d, nlen)
    BY <1>3, <2>1, <2>2, AddUndefGood
  <2> QED
    BY <2>3, OpenedParts
<1>4. CASE ~(nlen > clen) /\ nlen # clen /\ d \in Del(c, clen - nlen)
  <2>1. PICK len : len = clen - nlen
    OBVIOUS
  <2>2. len \in Nat /\ len # 0 /\ Len(Text(c)) - len = nlen
    BY <1>1, <1>4, <2>1
  <2>3. Came(c, k, d, nlen) /\ (nlen # 0 => Opened(c, k, d, nlen))
    BY <1>4, <2>1, <2>2, DelCame
  <2> QED
    BY <2>3
<1>5. CASE d = Flagged(c)
  BY <1>5, FailCame, OpenedParts
<1>6. CASE d \in Rebuild(c, Junks(nlen))
  <2>1. IsText(Junks(nlen)) /\ Len(Junks(nlen)) = nlen
    BY JunksText
  <2> QED
    BY <1>6, <2>1, RebuildCame
<1> QED
  BY <1>2, <1>3, <1>4, <1>5, <1>6 DEF SetUndef

\* ustrp__set_empty.
LEMMA SetEmptyGood ==
  ASSUME NEW c, NEW k, Edits(c, k), NEW d \in SetEmpty(c)
  PROVE  Post(c, k, d)
<1>1. Good(c, k) /\ Len(Text(c)) \in Nat /\ c.s \in Places /\ Str(c) = c.heap[c.s]
  BY StrFacts DEF Edits
<1>2. CASE d \in Del(c, Len(Text(c)))
  BY <1>1, <1>2, DelCame, CameParts
<1>3. CASE d \in {IF e.ok THEN ScFree2(e, e.n) ELSE Flagged(e) :
                  e \in DupxEmpty(c, From(Str(c), c.conf))}
  <2>1. PICK e \in DupxEmpty(c, From(Str(c), c.conf)) : d = IF e.ok THEN ScFree2(e, e.n) ELSE Flagged(e)
    BY <1>3
  <2>2. PICK q : q = From(Str(c), c.conf)
    OBVIOUS
  <2>3. FitsConf(q) /\ FitsConf([q EXCEPT !.emem = TRUE])
    BY <1>1, <2>2, FromFits
  <2>4. Got(c, k, e)
    BY <1>1, <2>1, <2>2, <2>3, DupxEmptyGood
  <2>5. CASE e.ok
    BY <2>1, <2>4, <2>5, TakeNew
  <2>6. CASE ~e.ok
    BY <2>1, <2>4, <2>6, TakeFlagged
  <2> QED
    BY <2>5, <2>6
<1> QED
  BY <1>2, <1>3 DEF SetEmpty

\* ustrp__set_buf.
LEMMA SetBufGood ==
  ASSUME NEW c, NEW k, Edits(c, k), NEW len \in Nat, len <= MaxLen,
         NEW src, len # 0 => HeldSrc(c, k, src), NEW d \in SetBuf(c, src, len)
  PROVE  Came(c, k, d, len)
<1>1. PICK e \in SetUndef(c, len) : d = IF e.ok THEN Memcpy(e, 0, src, len) ELSE e
  BY DEF SetBuf
<1>2. Came(c, k, e, len) /\ (len # 0 => Opened(c, k, e, len))
  BY <1>1, SetUndefGood
<1>3. CASE ~e.ok
  BY <1>1, <1>2, <1>3
<1>4. CASE e.ok /\ len = 0
  BY <1>1, <1>2, <1>4, CopyNone
<1>5. CASE e.ok /\ len # 0
  <2>1. 0 \in Int /\ len \in Int /\ 0 + len <= len /\ d = Memcpy(e, 0, src, len) /\ Opened(c, k, e, len)
        /\ HeldSrc(c, k, src)
    BY <1>1, <1>2, <1>5
  <2> QED
    BY <1>5, <2>1, CopyHeld, OpenedParts
<1> QED
  BY <1>3, <1>4, <1>5

\* ustrp__set.
LEMMA SetGood ==
  ASSUME NEW c, NEW k, Edits(c, k), NEW x, Known(c, k, x), NEW d \in Set(c, x)
  PROVE  Came(c, k, d, Len(c.heap[x].text))
<1> DEFINE len == Len(c.heap[x].text)
<1>1. /\ Good(c, k) /\ len \in Nat /\ len <= MaxLen /\ x \in Places /\ Live(c.heap[x])
      /\ x # c.s => Pinned(c, k, x)
      /\ Text(c) = c.heap[c.s].text
  BY KnownFacts, StrFacts DEF Edits
<1>2. CASE c.s = x
  <2>1. d = Done(c)
    BY <1>2 DEF Set
  <2> QED
    BY <1>1, <1>2, <2>1, DoneCame
<1>3. CASE c.s # x /\ d \in SetBuf(c, Of(x, 0), len)
  <2>1. HeldSrc(c, k, Of(x, 0))
    BY <1>1, <1>3, SrcForms
  <2> HIDE DEF len
  <2>2. Came(c, k, d, len)
    BY <1>1, <1>3, <2>1, SetBufGood
  <2> QED
    BY <2>2 DEF len
<1>4. CASE d \in BecomeCopy(c, x)
  BY <1>1, <1>4, BecomeCopyGood DEF Came
<1> QED
  BY <1>2, <1>3, <1>4 DEF Set

\* ustrp__set_subustr.
LEMMA SetSubustrGood ==
  ASSUME NEW c, NEW k, Edits(c, k), NEW x, Known(c, k, x), NEW pos \in Nat \ {0}, NEW len \in Nat,
         NEW d \in SetSubustr(c, x, pos, len)
  PROVE  Post(c, k, d)
<1> DEFINE text == c.heap[x].text
<1>1. /\ Good(c, k) /\ Len(Text(c)) \in Nat /\ Str(c) = c.heap[c.s] /\ Text(c) = Str(c).text
      /\ x \in Places /\ Live(c.heap[x]) /\ IsText(text) /\ Len(text) \in Nat /\ Len(text) <= MaxLen
      /\ MaxLen \in Nat
      /\ ~(Owner(Str(c)) /\ Alloc(Str(c)) /\ x = c.s) => Pinned(c, k, x)
  BY StrFacts, KnownFacts, MaxLenNat DEF Edits
<1>2. CASE d \in Del(c, Len(Text(c)))
  BY <1>1, <1>2, DelCame, CameParts
<1>3. CASE d = Fail(c)
  BY <1>3, FailCame, OpenedParts
<1>4. CASE d \in Set(c, x)
  BY <1>4, SetGood, CameParts
<1>5. CASE /\ len # 0 /\ GoodSub(text, pos, len) /\ c.s = x
           /\ d \in UNION {{Done(f) : f \in DelSubustr(e, 1, pos - 1)} :
                           e \in Del(c, Len(text) - (pos - 1 + len))}
  <2>1. PICK e \in Del(c, Len(text) - (pos - 1 + len)) : \E f \in DelSubustr(e, 1, pos - 1) : d = Done(f)
    BY <1>5
  <2>2. PICK f \in DelSubustr(e, 1, pos - 1) : d = Done(f)
    BY <2>1
  <2>3. PICK m, p : m = Len(text) - (pos - 1 + len) /\ p = pos - 1
    OBVIOUS
  <2>4. m \in Nat /\ p \in Nat /\ 1 \in Nat \ {0}
    <3>1. len \in Nat \ {0}
      BY <1>5
    <3>2. pos - 1 + len <= Len(text)
      BY <1>1, <1>5, <3>1, GoodSubFits
    <3> QED
      BY <1>1, <2>3, <3>2
  <2>5. Post(c, k, e) /\ Edits(e, k)
    BY <2>1, <2>3, <2>4, DelCame, CameParts
  <2>6. Post(e, k, f) /\ Edits(f, k) /\ Good(f, k)
    BY <2>2, <2>3, <2>4, <2>5, DelSubustrCame, CameParts
  <2>7. Post(f, k, d)
    BY <2>2, <2>6, DoneGood
  <2> QED
    BY <2>5, <2>6, <2>7, PostTrans
<1>6. CASE /\ len # 0 /\ GoodSub(text, pos, len) /\ ~(c.s = x /\ Owner(Str(c)) /\ Alloc(Str(c)))
           /\ d \in SetBuf(c, Of(x, pos - 1), len)
  <2>1. HeldSrc(c, k, Of(x, pos - 1))
    BY <1>1, <1>6, SrcForms
  <2>2. len <= MaxLen
    <3>1. len \in Nat \ {0}
      BY <1>6
    <3>2. len <= Len(text)
      BY <1>1, <1>6, <3>1, GoodSubFits
    <3> QED
      BY <1>1, <3>2
  <2> QED
    BY <1>6, <2>1, <2>2, SetBufGood, CameParts
<1> QED
  BY <1>2, <1>3, <1>4, <1>5, <1>6 DEF SetSubustr

-----------------------------------------------------------------------------
(* Edits: text is put in *)

Copied(c, k, d, n, e) == Opened(c, k, e, n) /\ e.ok /\ e.s = d.s
OwnSrc(d, src) == \E o : src = Of(d.s, o)
\* A part of the string itself.
LEMMA OwnForms == \A d, o : OwnSrc(d, Of(d.s, o))
BY DEF OwnSrc
\* Text of the string itself goes into the room made for it.
LEMMA CopyOwned ==
  ASSUME NEW c, NEW k, NEW d, NEW n, Opened(c, k, d, n), d.ok, NEW off \in Int, NEW len \in Int,
         off + len <= n, NEW src, OwnSrc(d, src), NEW e, e = Memcpy(d, off, src, len)
  PROVE  Copied(c, k, d, n, e)
<1>1. PICK o : src = Of(d.s, o)
  BY DEF OwnSrc
<1>2. Edits(d, k)
  BY OpenedParts
<1>3. d.s \in Places /\ Live(d.heap[d.s])
  BY <1>2, StrFacts
<1>4. SrcOK(d, src)
  BY <1>1, <1>3, SrcForms
<1>5. Opened(c, k, e, n)
  BY <1>4, CopyGood
<1>6. e.ok
  BY <1>4, CopyGood
<1>7. e.s = d.s
  BY <1>4, CopyGood
<1> QED
  BY <1>5, <1>6, <1>7 DEF Copied

GapIn(t, n) == IsText(t) /\ Len(t) = n

\* The text with a gap in it.
LEMMA GapText ==
  ASSUME NEW text, IsText(text), NEW pos \in Nat, NEW clen \in Nat, pos <= clen, clen <= Len(text),
         NEW len \in Nat, NEW m \in Int, m = clen - pos,
         NEW t, t = Slice(text, 0, pos) \o Junks(len) \o Slice(text, pos, m)
  PROVE  GapIn(t, clen + len)
<1>1. Len(text) \in Nat
  BY TextIsFunction
<1>2. IsText(Slice(text, 0, pos)) /\ Len(Slice(text, 0, pos)) = pos
  <2>1. 0 + pos <= Len(text) /\ ~(pos < 0)
    BY <1>1
  <2> QED
    BY <2>1, SliceText
<1>3. IsText(Junks(len)) /\ Len(Junks(len)) = len
  BY JunksText
<1>4. IsText(Slice(text, pos, m)) /\ Len(Slice(text, pos, m)) = clen - pos
  <2>1. m \in Nat /\ pos + m <= Len(text) /\ ~(m < 0)
    BY <1>1
  <2> QED
    BY <2>1, SliceText
<1>5. PICK a, b, e : a = Slice(text, 0, pos) /\ b = Junks(len) /\ e = Slice(text, pos, m)
  OBVIOUS
<1>6. IsText(a \o b) /\ Len(a \o b) = pos + len
  BY <1>2, <1>3, <1>5, JoinText
<1>7. IsText((a \o b) \o e) /\ Len((a \o b) \o e) = (pos + len) + (clen - pos)
  BY <1>4, <1>5, <1>6, JoinText
<1>8. (pos + len) + (clen - pos) = clen + len
  OBVIOUS
<1> QED
  BY <1>5, <1>7, <1>8 DEF GapIn

\* ustrp__ins_undef.
LEMMA InsUndefGood ==
  ASSUME NEW c, NEW k, Edits(c, k), NEW pos \in Nat, NEW len \in Nat, Len(Text(c)) + len <= MaxLen,
         NEW d \in InsUndef(c, pos, len)
  PROVE  /\ Came(c, k, d, Len(Text(c)) + len)
         /\ len # 0 => Opened(c, k, d, Len(Text(c)) + len)
         /\ len # 0 /\ d.ok => pos <= Len(Text(c))
<1> DEFINE clen == Len(Str(c).text)
           n == clen + len
           Gap(text) == Slice(text, 0, pos) \o Junks(len) \o Slice(text, pos, clen - pos)
<1>1. Good(c, k) /\ clen \in Nat /\ clen = Len(Text(c)) /\ IsText(Text(c)) /\ Text(c) = Str(c).text
  BY StrFacts DEF Edits
<1>2. CASE len = 0
  <2>1. d = Done(c) /\ Len(Text(c)) + len = Len(Text(c))
    BY <1>1, <1>2 DEF InsUndef
  <2> QED
    BY <1>2, <2>1, DoneCame
<1>3. CASE d = Fail(c)
  <2>1. ~d.ok
    BY <1>1, <1>3, FailGood
  <2> QED
    BY <1>3, <2>1, FailCame, OpenedParts
<1>4. CASE /\ len # 0 /\ ~(pos > clen)
           /\ d \in {IF e.ok THEN [e EXCEPT !.heap[e.s].text = Gap(@)] ELSE e : e \in AddUndef(c, len)}
  <2>1. PICK e \in AddUndef(c, len) : d = IF e.ok THEN [e EXCEPT !.heap[e.s].text = Gap(@)] ELSE e
    BY <1>4
  <2>2. Opened(c, k, e, n)
    BY <1>1, <1>4, <2>1, AddUndefGood
  <2>3. pos <= clen
    BY <1>1, <1>4
  <2>4. CASE e.ok
    <3>1. Edits(e, k) /\ ~Ro(Str(e)) /\ Len(Text(e)) = n /\ Post(c, k, e)
      BY <2>2, <2>4, OpenedParts DEF Opened, Came
    <3>2. IsText(Text(e)) /\ Text(e) = e.heap[e.s].text
      BY <3>1, StrFacts
    <3>3. PICK t : t = Gap(Text(e))
      OBVIOUS
    <3>4. IsText(t) /\ Len(t) = Len(Text(e))
      <4>0. clen \in Nat /\ clen - pos \in Int
        BY <1>1
      <4>1. PICK m \in Nat, l \in Int, u \in {Text(e)} : m = clen /\ l = m - pos
        BY <4>0
      <4>2. IsText(u) /\ pos <= m /\ m <= Len(u) /\ Len(u) = m + len
        BY <1>1, <2>3, <3>1, <3>2, <4>1
      <4>3. t = Slice(u, 0, pos) \o Junks(len) \o Slice(u, pos, l)
        BY <3>3, <4>1
      <4>4. GapIn(t, m + len)
        BY <4>1, <4>2, <4>3, GapText
      <4> QED
        BY <4>1, <4>2, <4>4 DEF GapIn
    <3>5. d = [e EXCEPT !.heap[e.s].text = t]
      BY <2>1, <2>4, <3>2, <3>3
    <3> HIDE DEF n
    <3>6. Post(e, k, d) /\ Text(d) = t /\ ~Ro(Str(d))
      BY <3>1, <3>4, <3>5, RewriteGood
    <3>7. Opened(c, k, d, n)
      BY <3>1, <3>4, <3>6, PostTrans DEF Opened, Came
    <3> QED
      BY <1>1, <2>3, <3>7, OpenedParts DEF n
  <2>5. CASE ~e.ok
    BY <1>1, <2>1, <2>2, <2>5, OpenedParts
  <2> QED
    BY <2>4, <2>5
<1>5. CASE len # 0 /\ ~(pos > clen) /\ d \in Rebuild(c, Gap(Str(c).text))
  <2>1. pos <= clen /\ clen <= clen /\ n # 0 /\ n <= MaxLen
    BY <1>1, <1>5
  <2>2. PICK t : t = Gap(Str(c).text)
    OBVIOUS
  <2>3. IsText(t) /\ Len(t) = n
    <3>0. clen \in Nat /\ clen - pos \in Int
      BY <1>1
    <3>1. PICK m \in Nat, l \in Int, u \in {Str(c).text} : m = clen /\ l = m - pos
      BY <3>0
    <3>2. IsText(u) /\ pos <= m /\ m <= Len(u)
      BY <1>1, <2>1, <3>1
    <3>3. t = Slice(u, 0, pos) \o Junks(len) \o Slice(u, pos, l)
      BY <2>2, <3>1
    <3>4. GapIn(t, m + len)
      BY <3>1, <3>2, <3>3, GapText
    <3> QED
      BY <3>1, <3>4 DEF GapIn
  <2> HIDE DEF n
  <2>4. Opened(c, k, d, n)
    BY <1>5, <2>1, <2>2, <2>3, RebuildCame
  <2> QED
    BY <1>1, <2>1, <2>4, OpenedParts DEF n
<1> QED
  BY <1>2, <1>3, <1>4, <1>5 DEF InsUndef

\* ustrp__ins_buf.
LEMMA InsBufGood ==
  ASSUME NEW c, NEW k, Edits(c, k), NEW pos \in Nat, NEW len \in Nat, Len(Text(c)) + len <= MaxLen,
         NEW src, len # 0 => HeldSrc(c, k, src), NEW d \in InsBuf(c, pos, src, len)
  PROVE  Came(c, k, d, Len(Text(c)) + len)
<1>1. PICK e \in InsUndef(c, pos, len) : d = IF e.ok THEN Memcpy(e, pos, src, len) ELSE e
  BY DEF InsBuf
<1>2. PICK n : n = Len(Text(c)) + len
  OBVIOUS
<1>3. /\ Came(c, k, e, n) /\ (len # 0 => Opened(c, k, e, n))
      /\ len # 0 /\ e.ok => pos <= Len(Text(c))
  BY <1>1, <1>2, InsUndefGood
<1>4. CASE ~e.ok
  BY <1>1, <1>2, <1>3, <1>4
<1>5. CASE e.ok /\ len = 0
  BY <1>1, <1>2, <1>3, <1>5, CopyNone
<1>6. CASE e.ok /\ len # 0
  <2>1. pos \in Int /\ len \in Int /\ pos + len <= n /\ d = Memcpy(e, pos, src, len) /\ Opened(c, k, e, n)
        /\ HeldSrc(c, k, src)
    BY <1>1, <1>2, <1>3, <1>6, StrFacts
  <2> QED
    BY <1>2, <1>6, <2>1, CopyHeld, OpenedParts
<1> QED
  BY <1>4, <1>5, <1>6

\* ustrp__ins.
LEMMA InsGood ==
  ASSUME NEW c, NEW k, Edits(c, k), NEW pos \in Nat, NEW x, Known(c, k, x),
         Len(Text(c)) + Len(c.heap[x].text) <= MaxLen,
         x = c.s /\ Owner(Str(c)) /\ Len(Text(c)) = 0 => pos = 0, NEW d \in Ins(c, pos, x)
  PROVE  Came(c, k, d, Len(Text(c)) + Len(c.heap[x].text))
<1> DEFINE len == Len(Text(c))
           len2 == Len(c.heap[x].text)
<1>1. /\ Good(c, k) /\ len \in Nat /\ len2 \in Nat /\ Str(c) = c.heap[c.s] /\ Text(c) = Str(c).text
      /\ x \in Places
      /\ ~(Owner(Str(c)) /\ x = c.s) => Pinned(c, k, x)
  BY StrFacts, KnownFacts DEF Edits
<1>2. CASE pos = len
  <2>1. d \in Add(c, x)
    BY <1>2 DEF Ins
  <2> QED
    BY <2>1, AddGood
<1>3. CASE pos # len /\ c.s = x /\ Owner(Str(c))
  <2>1. PICK e \in InsUndef(c, pos, len) :
          d = IF e.ok
              THEN Memcpy(Memcpy(e, pos, Of(e.s, 0), pos), 2 * pos, Of(e.s, len + pos), len - pos)
              ELSE e
    BY <1>3 DEF Ins
  <2>2. len # 0 /\ len = len2
    BY <1>1, <1>3
  <2>3. PICK n, m : n = len + len /\ m = len
    OBVIOUS
  <2>4. m \in Nat /\ m # 0 /\ Len(Text(c)) + m = n /\ n <= MaxLen
    BY <1>1, <2>2, <2>3
  <2>5. Opened(c, k, e, n) /\ (e.ok => pos <= m)
    BY <2>1, <2>3, <2>4, InsUndefGood
  <2>8. n \in Nat /\ n = m + m
    BY <2>3, <2>4
  <2>6. CASE e.ok
    <3>1. PICK f : f = Memcpy(e, pos, Of(e.s, 0), pos)
      OBVIOUS
    <3>2. pos \in Int /\ pos + pos <= n /\ pos <= m
      BY <2>4, <2>5, <2>6, <2>8
    <3>3. Copied(c, k, e, n, f)
      <4>1. Opened(c, k, e, n) /\ e.ok /\ pos \in Int /\ pos + pos <= n
        BY <2>5, <2>6, <3>2
      <4>2. PICK src : src = Of(e.s, 0)
        OBVIOUS
      <4>3. OwnSrc(e, src) /\ f = Memcpy(e, pos, src, pos)
        BY <3>1, <4>2, OwnForms
      <4> QED
        BY <4>1, <4>3, CopyOwned
    <3>9. 2 * pos \in Int /\ len - pos \in Int /\ len + pos \in Int
      BY <1>1
    <3>4. PICK off \in Int, l \in Int, o \in Int : off = 2 * pos /\ l = len - pos /\ o = len + pos
      BY <3>9
    <3>5. off + l <= n
      <4>1. l = m - pos
        BY <2>3, <3>4
      <4> QED
        BY <2>4, <2>8, <3>2, <3>4, <4>1
    <3>10. Opened(c, k, f, n) /\ f.ok /\ f.s = e.s
      BY <3>3 DEF Copied
    <3>11. PICK src : src = Of(e.s, o)
      OBVIOUS
    <3>6. d = Memcpy(f, off, src, l)
      BY <2>1, <2>6, <3>1, <3>4, <3>11
    <3>12. OwnSrc(f, src)
      BY <3>10, <3>11, OwnForms
    <3>13. Copied(c, k, f, n, d)
      BY <3>5, <3>6, <3>10, <3>12, CopyOwned
    <3>7. Opened(c, k, d, n)
      BY <3>13 DEF Copied
    <3> QED
      BY <2>2, <2>3, <3>7, OpenedParts
  <2>7. CASE ~e.ok
    BY <2>1, <2>2, <2>3, <2>5, <2>7, OpenedParts
  <2> QED
    BY <2>6, <2>7
<1>4. CASE ~(c.s = x /\ Owner(Str(c))) /\ d \in InsBuf(c, pos, Of(x, 0), len2)
  <2>1. HeldSrc(c, k, Of(x, 0))
    BY <1>1, <1>4, SrcForms
  <2> QED
    BY <1>1, <1>4, <2>1, InsBufGood
<1> QED
  BY <1>2, <1>3, <1>4 DEF Ins

\* ustrp__ins_subustr.
LEMMA InsSubustrGood ==
  ASSUME NEW c, NEW k, Edits(c, k), NEW pos1 \in Nat, NEW x, Known(c, k, x),
         NEW pos2 \in Nat \ {0}, NEW len2 \in Nat,
         Len(Text(c)) + len2 <= MaxLen, NEW d \in InsSubustr(c, pos1, x, pos2, len2)
  PROVE  Came(c, k, d, Len(Text(c)) + len2)
<1> DEFINE text == c.heap[x].text
           before == pos1 - pos2 + 1
<1>1. /\ Good(c, k) /\ Len(Text(c)) \in Nat /\ Str(c) = c.heap[c.s] /\ Text(c) = Str(c).text
      /\ x \in Places /\ IsText(text) /\ Len(text) \in Nat
      /\ ~(Owner(Str(c)) /\ x = c.s) => Pinned(c, k, x)
  BY StrFacts, KnownFacts DEF Edits
<1>2. CASE len2 = 0
  <2>1. d = Done(c) /\ Len(Text(c)) + len2 = Len(Text(c))
    BY <1>1, <1>2 DEF InsSubustr
  <2> QED
    BY <2>1, DoneCame
<1>3. CASE d = Fail(c)
  BY <1>3, FailCame, OpenedParts
<1>4. CASE len2 # 0 /\ len2 = Len(text) /\ d \in Ins(c, pos1, x)
  <2>1. x = c.s => Len(Text(c)) # 0
    BY <1>1, <1>4
  <2> QED
    BY <1>4, <2>1, InsGood
<1>5. CASE d \in AddSubustr(c, x, pos2, len2)
  BY <1>5, AddSubustrGood
<1>6. CASE /\ len2 # 0 /\ c.s = x
           /\ d \in {IF ~e.ok THEN e
                     ELSE IF pos2 > pos1 THEN Memcpy(e, pos1, Of(e.s, pos2 + len2 - 1), len2)
                     ELSE IF pos2 + len2 - 1 > pos1
                     THEN Memcpy(Memcpy(e, pos1, Of(e.s, pos2 - 1), before), pos1 + before,
                                 Of(e.s, pos2 + len2 + before - 1), len2 - before)
                     ELSE Memcpy(e, pos1, Of(e.s, pos2 - 1), len2) :
                     e \in InsUndef(c, pos1, len2)}
  <2>1. PICK e \in InsUndef(c, pos1, len2) :
          d = IF ~e.ok THEN e
              ELSE IF pos2 > pos1 THEN Memcpy(e, pos1, Of(e.s, pos2 + len2 - 1), len2)
              ELSE IF pos2 + len2 - 1 > pos1
              THEN Memcpy(Memcpy(e, pos1, Of(e.s, pos2 - 1), before), pos1 + before,
                          Of(e.s, pos2 + len2 + before - 1), len2 - before)
              ELSE Memcpy(e, pos1, Of(e.s, pos2 - 1), len2)
    BY <1>6
  <2>2. PICK n : n = Len(Text(c)) + len2
    OBVIOUS
  <2>3. Opened(c, k, e, n) /\ (e.ok => pos1 <= Len(Text(c)))
    BY <1>6, <2>1, <2>2, InsUndefGood
  <2>8. n \in Nat
    BY <1>1, <2>2
  <2>4. CASE ~e.ok
    BY <2>1, <2>2, <2>3, <2>4, OpenedParts
  <2>5. ASSUME e.ok, NEW o, d = Memcpy(e, pos1, Of(e.s, o), len2) PROVE Opened(c, k, d, n)
    <3>1. pos1 \in Int /\ len2 \in Int /\ pos1 + len2 <= n
      BY <1>1, <2>2, <2>3, <2>5
    <3> QED
      BY <2>3, <2>5, <3>1, CopyOwn
  <2>6. ASSUME e.ok, ~(pos2 > pos1), pos2 + len2 - 1 > pos1,
               d = Memcpy(Memcpy(e, pos1, Of(e.s, pos2 - 1), before), pos1 + before,
                          Of(e.s, pos2 + len2 + before - 1), len2 - before)
        PROVE  Opened(c, k, d, n)
    <3>0. before \in Int /\ pos2 - 1 \in Int
      OBVIOUS
    <3>1. PICK bf \in Int, o1 \in Int : bf = before /\ o1 = pos2 - 1
      BY <3>0
    <3>9. PICK f : f = Memcpy(e, pos1, Of(e.s, o1), bf)
      OBVIOUS
    <3>2. bf \in Int /\ pos1 \in Int /\ bf <= len2 /\ pos1 + bf <= n
      <4>1. pos1 <= Len(Text(c)) /\ Len(Text(c)) \in Nat /\ n = Len(Text(c)) + len2
        BY <1>1, <2>2, <2>3, <2>6
      <4>2. bf = pos1 - pos2 + 1 /\ pos2 + len2 - 1 > pos1
        BY <2>6, <3>1
      <4>3. bf \in Int /\ bf <= len2
        BY <4>2
      <4> QED
        BY <4>1, <4>3
    <3>3. Copied(c, k, e, n, f)
      <4>1. Opened(c, k, e, n) /\ e.ok /\ pos1 \in Int /\ pos1 + bf <= n
        BY <2>3, <2>6, <3>2
      <4>2. PICK src : src = Of(e.s, o1)
        OBVIOUS
      <4>3. OwnSrc(e, src) /\ f = Memcpy(e, pos1, src, bf)
        BY <3>9, <4>2, OwnForms
      <4> QED
        BY <4>1, <4>3, CopyOwned
    <3>8. pos1 + bf \in Int /\ len2 - bf \in Int /\ pos2 + len2 + bf - 1 \in Int
      BY <3>1
    <3>4. PICK off \in Int, l \in Int, o \in Int :
            off = pos1 + bf /\ l = len2 - bf /\ o = pos2 + len2 + bf - 1
      BY <3>8
    <3>5. off + l <= n
      BY <1>1, <2>2, <2>3, <2>6, <2>8, <3>2, <3>4
    <3>10. Opened(c, k, f, n) /\ f.ok /\ f.s = e.s
      BY <3>3 DEF Copied
    <3>11. PICK src : src = Of(e.s, o)
      OBVIOUS
    <3>6. d = Memcpy(f, off, src, l)
      BY <2>6, <3>1, <3>4, <3>9, <3>10, <3>11
    <3>12. OwnSrc(f, src)
      BY <3>10, <3>11, OwnForms
    <3>13. Copied(c, k, f, n, d)
      BY <3>5, <3>6, <3>10, <3>12, CopyOwned
    <3> QED
      BY <3>13 DEF Copied
  <2>7. e.ok => Opened(c, k, d, n)
    <3> HIDE DEF before
    <3> QED
      BY <2>1, <2>5, <2>6
  <2> QED
    BY <2>2, <2>4, <2>7, OpenedParts
<1>7. CASE ~(c.s = x /\ Owner(Str(c))) /\ d \in InsBuf(c, pos1, Of(x, pos2 - 1), len2)
  <2>1. HeldSrc(c, k, Of(x, pos2 - 1))
    BY <1>1, <1>7, SrcForms
  <2> QED
    BY <1>7, <2>1, InsBufGood
<1> QED
  BY <1>2, <1>3, <1>4, <1>5, <1>6, <1>7 DEF InsSubustr

-----------------------------------------------------------------------------
(* Edits: a part is exchanged *)

\* Text goes into the room made for it.
LEMMA CopyFrom ==
  ASSUME NEW c, NEW k, NEW d, NEW n, Opened(c, k, d, n), d.ok, NEW off \in Int, NEW len \in Int,
         off + len <= n, NEW src, HeldSrc(c, k, src), NEW e, e = Memcpy(d, off, src, len)
  PROVE  Copied(c, k, d, n, e)
<1>1. Opened(c, k, e, n)
  BY CopyHeld
<1>2. e.ok
  BY CopyHeld
<1>3. e.s = d.s
  BY CopyHeld
<1> QED
  BY <1>1, <1>2, <1>3 DEF Copied

\* A string whose room was filled.
LEMMA CopiedParts ==
  ASSUME NEW c, NEW k, NEW d, NEW n, NEW e, Copied(c, k, d, n, e)
  PROVE  Opened(c, k, e, n) /\ e.ok /\ e.s = d.s /\ Came(c, k, e, n)
BY OpenedParts DEF Copied

\* ustrp__sub_undef.
LEMMA SubUndefGood ==
  ASSUME NEW c, NEW k, Edits(c, k), NEW pos \in Nat \ {0}, NEW len \in Nat,
         pos - 1 + len <= MaxLen, NEW n, n = Larger(Len(Text(c)), pos - 1 + len),
         NEW d \in SubUndef(c, pos, len)
  PROVE  /\ len # 0 => Opened(c, k, d, n)
         /\ len = 0 => Came(c, k, d, Len(Text(c)))
<1> DEFINE clen == Len(Text(c))
           left == clen - (pos - 1)
<1>1. clen \in Nat /\ clen <= MaxLen /\ MaxLen \in Nat /\ IsText(Text(c))
  BY StrFacts, MaxLenNat
<1>2. CASE len = 0
  <2>1. d = Done(c)
    BY <1>2 DEF SubUndef
  <2> QED
    BY <1>2, <2>1, DoneCame
<1>3. CASE len # 0 /\ d = Fail(c)
  BY <1>3, FailCame
<1>4. CASE len # 0 /\ GoodSub(Text(c), pos, 1) /\ left < len /\ d \in AddUndef(c, len - left)
  <2>1. len - left \in Nat
    BY <1>1, <1>4
  <2>2. PICK m \in Nat : m = len - left
    BY <2>1
  <2>3. m # 0 /\ clen + m = n /\ clen + m <= MaxLen
    BY <1>1, <1>4, <2>2 DEF Larger
  <2>4. d \in AddUndef(c, m)
    BY <1>4, <2>2
  <2>5. Opened(c, k, d, clen + m)
    BY <2>3, <2>4, AddUndefGood
  <2> QED
    BY <1>4, <2>3, <2>5
<1>5. CASE len # 0 /\ GoodSub(Text(c), pos, 1) /\ ~(left < len) /\ d \in EnsureOwner(c)
  <2>1. n = clen /\ clen # 0
    BY <1>1, <1>5 DEF Larger
  <2>2. Post(c, k, d)
    BY <1>5, EnsureOwnerGood
  <2>3. ASSUME d.ok PROVE Len(Text(d)) = n /\ ~Ro(Str(d))
    <3>1. Len(Text(d)) = clen
      BY <1>5, <2>3, EnsureOwnerGood
    <3>2. Owner(Str(d))
      BY <1>5, <2>1, <2>3, EnsureOwnerGood
    <3> QED
      BY <2>1, <3>1, <3>2, OwnerOpen
  <2> QED
    BY <1>5, <2>2, <2>3 DEF Opened, Came
<1> QED
  BY <1>2, <1>3, <1>4, <1>5 DEF SubUndef

\* ustrp__sub_buf.
LEMMA SubBufGood ==
  ASSUME NEW c, NEW k, Edits(c, k), NEW pos \in Nat \ {0}, NEW len \in Nat,
         pos - 1 + len <= MaxLen, NEW n, n = Larger(Len(Text(c)), pos - 1 + len),
         NEW src, len # 0 => HeldSrc(c, k, src), NEW d \in SubBuf(c, pos, src, len)
  PROVE  /\ len # 0 => Came(c, k, d, n)
         /\ len = 0 => Came(c, k, d, Len(Text(c)))
<1>1. PICK e \in SubUndef(c, pos, len) : d = IF e.ok THEN Memcpy(e, pos - 1, src, len) ELSE e
  BY DEF SubBuf
<1>2. CASE len = 0
  <2>1. Came(c, k, e, Len(Text(c)))
    BY <1>1, <1>2, SubUndefGood
  <2>2. d = e
    BY <1>1, <1>2, CopyNone
  <2> QED
    BY <1>2, <2>1, <2>2
<1>3. CASE len # 0
  <2>1. Opened(c, k, e, n) /\ HeldSrc(c, k, src)
    BY <1>1, <1>3, SubUndefGood
  <2>2. CASE ~e.ok
    BY <1>1, <1>3, <2>1, <2>2, OpenedParts
  <2>3. CASE e.ok
    <3>0. pos - 1 \in Int /\ Len(Text(c)) \in Nat
      BY StrFacts
    <3>1. PICK off \in Int : off = pos - 1
      BY <3>0
    <3>2. off + len <= n
      BY <3>0, <3>1 DEF Larger
    <3>3. d = Memcpy(e, off, src, len)
      BY <1>1, <2>3, <3>1
    <3>4. Copied(c, k, e, n, d)
      BY <2>1, <2>3, <3>2, <3>3, CopyFrom
    <3> QED
      BY <1>3, <3>4, CopiedParts
  <2> QED
    BY <2>2, <2>3
<1> QED
  BY <1>2, <1>3

\* ustrp__sub.
LEMMA SubGood ==
  ASSUME NEW c, NEW k, Edits(c, k), NEW pos \in Nat \ {0}, NEW x, Known(c, k, x),
         pos - 1 + Len(c.heap[x].text) <= MaxLen, NEW d \in Sub(c, pos, x)
  PROVE  Post(c, k, d)
<1>1. Len(c.heap[x].text) \in Nat /\ x \in Places /\ Str(c) = c.heap[c.s] /\ Text(c) = Str(c).text
  BY StrFacts, KnownFacts
<1>2. CASE c.s = x
  <2>0. pos - 1 \in Nat
    OBVIOUS
  <2>1. PICK m \in Nat : m = pos - 1
    BY <2>0
  <2>2. d \in InsSubustr(c, m, x, 1, m)
    BY <1>2, <2>1 DEF Sub
  <2>3. Len(Text(c)) + m <= MaxLen
    BY <1>1, <1>2, <2>1
  <2>4. Came(c, k, d, Len(Text(c)) + m)
    <3>1. 1 \in Nat \ {0}
      OBVIOUS
    <3> QED
      BY <2>2, <2>3, <3>1, InsSubustrGood
  <2> QED
    BY <2>4, CameParts
<1>3. CASE c.s # x
  <2>1. d \in SubBuf(c, pos, Of(x, 0), Len(c.heap[x].text))
    BY <1>3 DEF Sub
  <2>2. PICK src : src = Of(x, 0)
    OBVIOUS
  <2>3. HeldSrc(c, k, src)
    BY <1>3, <2>2, KnownFacts, SrcForms
  <2>4. PICK len \in Nat : len = Len(c.heap[x].text)
    BY <1>1
  <2>5. PICK n : n = Larger(Len(Text(c)), pos - 1 + len)
    OBVIOUS
  <2>6. pos - 1 + len <= MaxLen /\ d \in SubBuf(c, pos, src, len)
    BY <2>1, <2>2, <2>4
  <2>7. Came(c, k, d, n) \/ Came(c, k, d, Len(Text(c)))
    BY <2>3, <2>5, <2>6, SubBufGood
  <2> QED
    BY <2>7, CameParts
<1> QED
  BY <1>2, <1>3

\* A copy of a string, or of a part of it, is one more string.
LEMMA GotEdits ==
  ASSUME NEW c, NEW k, Edits(c, k), NEW d, Got(c, k, d), d.ok
  PROVE  /\ d.n \in Places /\ With(k, d.n) \in [Places -> Nat]
         /\ Edits(d, With(k, d.n)) /\ Pinned(d, With(k, d.n), d.n) /\ Known(d, With(k, d.n), d.n)
         /\ Text(d) = Text(c) /\ d.s = c.s
<1>1. d.n \in Places /\ Good(d, With(k, d.n)) /\ d.s = c.s /\ d.s \in Places
  BY DEF Got, Edits
<1>2. k \in [Places -> Nat]
  BY DEF Edits, Good
<1>3. With(k, d.n) \in [Places -> Nat] /\ With(k, d.n)[d.n] = k[d.n] + 1
  BY <1>1, <1>2, WithFacts
<1>4. With(k, d.n)[d.n] # 0
  <2>1. k[d.n] \in Nat
    BY <1>1, <1>2
  <2> QED
    BY <1>3, <2>1
<1>5. Live(c.heap[c.s])
  BY StrFacts
<1>6. d.heap[c.s].text = c.heap[c.s].text
  BY <1>1, <1>5 DEF Got
<1> QED
  BY <1>1, <1>3, <1>4, <1>6 DEF Edits, Pinned, Known, Text, Str

\* An edit that goes through a copy gives it back.
LEMMA ViaCopyGood ==
  ASSUME NEW c, NEW k, Edits(c, k), NEW d, Got(c, k, d), d.ok, NEW e, Post(d, With(k, d.n), e),
         NEW f, f = Free(e, d.n)
  PROVE  Post(c, k, f) /\ Text(f) = Text(e) /\ f.ok = e.ok
<1>1. d.n \in Places /\ k \in [Places -> Nat] /\ Kept(c, d)
  BY DEF Got, Edits, Good
<1>2. Edits(e, With(k, d.n)) /\ Good(e, With(k, d.n)) /\ Kept(d, e)
  BY DEF Post, Edits
<1>3. PICK x \in Places : x = d.n
  BY <1>1
<1>4. Good(e, With(k, x)) /\ Edits(e, With(k, x)) /\ f = Free(e, x)
  BY <1>2, <1>3
<1>5. Post(e, k, f)
  BY <1>1, <1>4, FreeGood
<1>6. Text(f) = Text(e) /\ f.ok = e.ok
  BY <1>1, <1>4, FreeGood
<1>7. Kept(c, f)
  BY <1>1, <1>2, <1>5, KeptTrans DEF Post
<1> QED
  BY <1>5, <1>6, <1>7 DEF Post

\* A part that is copied over the string itself goes through a copy.
LEMMA PartOfItself ==
  ASSUME NEW c, NEW k, Edits(c, k), NEW x, Known(c, k, x), NEW pos \in Nat \ {0}, NEW len \in Nat,
         NEW d \in DupSubustr(c, x, pos, len)
  PROVE  /\ Got(c, k, d) /\ Edits(c, k)
         /\ d.ok => Len(d.heap[d.n].text) = len
         /\ ~d.ok => Post(c, k, d)
<1>1. Good(c, k) /\ x \in Places /\ Live(c.heap[x])
  BY KnownFacts DEF Edits
<1>2. Got(c, k, d)
  BY <1>1, DupSubustrGood
<1>3. d.ok => Len(d.heap[d.n].text) = len
  BY <1>1, DupSubustrGood
<1>4. ~d.ok => Post(c, k, d)
  BY <1>2, TakeNone
<1> QED
  BY <1>2, <1>3, <1>4

\* ustrp__sub_subustr.
LEMMA SubSubustrGood ==
  ASSUME NEW c, NEW k, Edits(c, k), NEW pos1 \in Nat \ {0}, NEW x, Known(c, k, x),
         NEW pos2 \in Nat \ {0}, NEW len2 \in Nat, pos1 - 1 + len2 <= MaxLen,
         NEW d \in SubSubustr(c, pos1, x, pos2, len2)
  PROVE  Post(c, k, d)
<1> DEFINE text == c.heap[x].text
<1>1. /\ IsText(text) /\ Len(text) \in Nat /\ Text(c) = c.heap[c.s].text /\ Good(c, k)
      /\ Len(Text(c)) \in Nat
  BY StrFacts, KnownFacts DEF Edits
<1>2. CASE d = Done(c)
  BY <1>1, <1>2, DoneGood
<1>3. CASE d = Fail(c)
  BY <1>1, <1>3, FailGood
<1>4. CASE len2 = Len(text) /\ d \in Sub(c, pos1, x)
  BY <1>4, SubGood
<1>5. CASE len2 # 0 /\ GoodSub(text, pos2, len2) /\ c.s = x /\ pos1 = pos2
           /\ d \in Del(c, Len(text) - pos1 + 1 - len2)
  <2>1. pos2 - 1 + len2 <= Len(text)
    BY <1>1, <1>5, GoodSubFits
  <2>2. Len(text) - pos1 + 1 - len2 \in Nat
    BY <1>1, <1>5, <2>1
  <2>3. PICK m \in Nat : m = Len(text) - pos1 + 1 - len2
    BY <2>2
  <2>4. d \in Del(c, m)
    BY <1>5, <2>3
  <2>5. Came(c, k, d, Len(Text(c)) - m)
    BY <2>4, DelCame
  <2> QED
    BY <2>5, CameParts
<1>6. CASE d \in UNION {IF e.ok THEN ViaCopy(Sub(e, pos1, e.n), e.n) ELSE {e} :
                        e \in DupSubustr(c, x, pos2, len2)}
  <2>1. PICK e \in DupSubustr(c, x, pos2, len2) :
               d \in IF e.ok THEN ViaCopy(Sub(e, pos1, e.n), e.n) ELSE {e}
    BY <1>6
  <2>2. CASE ~e.ok
    BY <2>1, <2>2, PartOfItself
  <2>3. CASE e.ok
    <3>1. Got(c, k, e) /\ Len(e.heap[e.n].text) = len2
      BY <2>3, PartOfItself
    <3>2. PICK f \in Sub(e, pos1, e.n) : d = Free(f, e.n)
      BY <2>1, <2>3 DEF ViaCopy
    <3>3. PICK l, y : l = With(k, e.n) /\ y = e.n
      OBVIOUS
    <3>4. Edits(e, l) /\ Known(e, l, y)
      BY <2>3, <3>1, <3>3, GotEdits
    <3>5. pos1 - 1 + Len(e.heap[y].text) <= MaxLen /\ f \in Sub(e, pos1, y)
      BY <3>1, <3>2, <3>3
    <3>6. Post(e, l, f)
      BY <3>4, <3>5, SubGood
    <3>7. Post(e, With(k, e.n), f)
      BY <3>3, <3>6
    <3> QED
      BY <2>3, <3>1, <3>2, <3>7, ViaCopyGood
  <2> QED
    BY <2>2, <2>3
<1>7. CASE ~(c.s = x /\ Owner(Str(c))) /\ d \in SubBuf(c, pos1, Of(x, pos2 - 1), len2)
  <2>1. PICK src : src = Of(x, pos2 - 1)
    OBVIOUS
  <2>2. Pinned(c, k, x)
    BY <1>7, KnownFacts
  <2>3. HeldSrc(c, k, src)
    BY <2>1, <2>2, SrcForms
  <2>4. PICK n : n = Larger(Len(Text(c)), pos1 - 1 + len2)
    OBVIOUS
  <2>5. d \in SubBuf(c, pos1, src, len2)
    BY <1>7, <2>1
  <2>6. Came(c, k, d, n) \/ Came(c, k, d, Len(Text(c)))
    BY <2>3, <2>4, <2>5, SubBufGood
  <2> QED
    BY <2>6, CameParts
<1> QED
  BY <1>2, <1>3, <1>4, <1>5, <1>6, <1>7 DEF SubSubustr

\* ustrp__sc_sub_undef.
LEMMA ScSubUndefGood ==
  ASSUME NEW c, NEW k, Edits(c, k), NEW pos \in Nat \ {0}, NEW olen \in Nat, NEW len \in Nat,
         NEW n, n = Len(Text(c)) + len - olen, n <= MaxLen, NEW d \in ScSubUndef(c, pos, olen, len)
  PROVE  /\ Came(c, k, d, n)
         /\ len # 0 => Opened(c, k, d, n)
         /\ len # 0 /\ d.ok => pos - 1 + len <= n
<1> DEFINE clen == Len(Text(c))
<1>1. clen \in Nat /\ clen <= MaxLen /\ MaxLen \in Nat /\ IsText(Text(c)) /\ n \in Int
      /\ pos - 1 \in Nat
  BY StrFacts, MaxLenNat
<1>2. CASE olen = 0
  <2>1. PICK m \in Nat : m = pos - 1
    BY <1>1
  <2>2. d \in InsUndef(c, m, len) /\ clen + len = n
    BY <1>1, <1>2, <2>1 DEF ScSubUndef
  <2>3. Came(c, k, d, clen + len)
    BY <1>1, <2>2, InsUndefGood
  <2>4. len # 0 => Opened(c, k, d, clen + len)
    BY <1>1, <2>2, InsUndefGood
  <2>5. len # 0 /\ d.ok => m <= clen
    BY <1>1, <2>2, InsUndefGood
  <2>6. len # 0 /\ d.ok => pos - 1 + len <= n
    <3> SUFFICES ASSUME len # 0, d.ok PROVE pos - 1 + len <= n
      OBVIOUS
    <3>1. m <= clen
      BY <2>5
    <3> QED
      BY <1>1, <2>1, <2>2, <3>1
  <2> QED
    BY <2>2, <2>3, <2>4, <2>6
<1>3. CASE d = Fail(c)
  <2>1. ~d.ok
    BY <1>1, <1>3, FailGood DEF Edits
  <2> QED
    BY <1>3, <2>1, FailCame, OpenedParts
<1>4. ASSUME olen # 0, GoodSub(Text(c), pos, olen)
      PROVE  pos - 1 + olen <= clen /\ olen <= clen /\ clen # 0
  <2>1. pos - 1 + olen <= clen
    BY <1>1, <1>4, GoodSubFits
  <2> QED
    BY <1>1, <1>4, <2>1
<1>5. CASE olen # 0 /\ GoodSub(Text(c), pos, olen) /\ len = olen /\ d \in EnsureOwner(c)
  <2>1. n = clen /\ clen # 0 /\ pos - 1 + len <= n
    BY <1>1, <1>4, <1>5
  <2>2. Post(c, k, d)
    BY <1>5, EnsureOwnerGood
  <2>3. ASSUME d.ok PROVE Len(Text(d)) = n /\ ~Ro(Str(d))
    <3>1. Len(Text(d)) = clen
      BY <1>5, <2>3, EnsureOwnerGood
    <3>2. Owner(Str(d))
      BY <1>5, <2>1, <2>3, EnsureOwnerGood
    <3> QED
      BY <2>1, <3>1, <3>2, OwnerOpen
  <2>4. Opened(c, k, d, n)
    BY <2>2, <2>3 DEF Opened, Came
  <2> QED
    BY <2>1, <2>4, OpenedParts
<1>6. CASE olen # 0 /\ GoodSub(Text(c), pos, olen) /\ len < olen
           /\ d \in DelSubustr(c, pos + len, olen - len)
  <2>1. olen - len \in Nat /\ pos + len \in Nat \ {0}
    BY <1>6
  <2>2. PICK m \in Nat, p \in Nat \ {0} : m = olen - len /\ p = pos + len
    BY <2>1
  <2>3. d \in DelSubustr(c, p, m) /\ clen - m = n /\ m # 0 /\ (len # 0 => clen - m # 0)
        /\ pos - 1 + len <= n
    BY <1>1, <1>4, <1>6, <2>2
  <2>4. Came(c, k, d, clen - m)
    BY <2>3, DelSubustrCame
  <2>5. clen - m # 0 => Opened(c, k, d, clen - m)
    BY <2>3, DelSubustrCame
  <2> QED
    BY <2>3, <2>4, <2>5
<1>7. CASE olen # 0 /\ GoodSub(Text(c), pos, olen) /\ len # olen /\ ~(len < olen)
           /\ d \in InsUndef(c, pos + olen - 1, len - olen)
  <2>1. len - olen \in Nat /\ pos + olen - 1 \in Nat
    BY <1>7
  <2>2. PICK m \in Nat, p \in Nat : m = len - olen /\ p = pos + olen - 1
    BY <2>1
  <2>3. d \in InsUndef(c, p, m) /\ clen + m = n /\ m # 0 /\ pos - 1 + len <= n /\ clen + m <= MaxLen
    BY <1>1, <1>4, <1>7, <2>2
  <2>4. Opened(c, k, d, clen + m)
    BY <2>3, InsUndefGood
  <2> QED
    BY <2>3, <2>4, OpenedParts
<1> QED
  BY <1>2, <1>3, <1>5, <1>6, <1>7 DEF ScSubUndef

\* ustrp__sc_sub_buf.
LEMMA ScSubBufGood ==
  ASSUME NEW c, NEW k, Edits(c, k), NEW pos \in Nat \ {0}, NEW olen \in Nat, NEW len \in Nat,
         NEW n, n = Len(Text(c)) + len - olen, n <= MaxLen,
         NEW src, len # 0 => HeldSrc(c, k, src), NEW d \in ScSubBuf(c, pos, olen, src, len)
  PROVE  Came(c, k, d, n)
<1>1. PICK e \in ScSubUndef(c, pos, olen, len) : d \in IF e.ok THEN SubBuf(e, pos, src, len) ELSE {e}
  BY DEF ScSubBuf
<1>2. Came(c, k, e, n)
  BY <1>1, ScSubUndefGood
<1>3. len # 0 /\ e.ok => pos - 1 + len <= n
  BY <1>1, ScSubUndefGood
<1>4. CASE ~e.ok
  BY <1>1, <1>2, <1>4
<1>5. CASE e.ok
  <2>1. Post(c, k, e) /\ Edits(e, k) /\ Kept(c, e) /\ Good(e, k)
    BY <1>2, CameParts
  <2>2. Len(Text(e)) = n /\ n \in Nat /\ MaxLen \in Nat
    <3>1. Len(Text(e)) = n
      BY <1>2, <1>5 DEF Came
    <3> QED
      BY <2>1, <3>1, StrFacts, MaxLenNat
  <2>3. d \in SubBuf(e, pos, src, len)
    BY <1>1, <1>5
  <2>4. CASE len = 0
    <3>1. \A z \in SubBuf(e, pos, src, len) : z = Done(e)
      BY <2>4, CopyNone DEF SubBuf, SubUndef
    <3>2. d = Done(e)
      BY <2>3, <3>1
    <3>3. Came(e, k, d, n)
      BY <2>1, <2>2, <3>2, DoneCame
    <3> QED
      BY <2>1, <3>3, CameTrans
  <2>5. CASE len # 0
    <3>1. HeldSrc(e, k, src)
      BY <2>1, <2>5, HeldStays
    <3>2. pos - 1 + len <= n /\ pos - 1 + len <= MaxLen
      BY <1>3, <1>5, <2>2, <2>5
    <3>3. n = Larger(Len(Text(e)), pos - 1 + len)
      BY <2>2, <3>2 DEF Larger
    <3>4. Came(e, k, d, n)
      BY <2>1, <2>3, <2>5, <3>1, <3>2, <3>3, SubBufGood
    <3> QED
      BY <2>1, <3>4, CameTrans
  <2> QED
    BY <2>4, <2>5
<1> QED
  BY <1>4, <1>5

\* The whole string takes the place of a part of itself.
LEMMA ScSubOwnGood ==
  ASSUME NEW c, NEW k, Edits(c, k), Owner(Str(c)), NEW pos \in Nat \ {0}, NEW olen \in Nat \ {0},
         GoodSub(Text(c), pos, olen),
         NEW clen \in Nat, clen = Len(Text(c)), NEW before \in Int, before = pos - 1,
         NEW after \in Int, after = clen - (pos + olen) + 1,
         NEW n, n = clen + clen - olen, n <= MaxLen, NEW e \in AddUndef(c, clen - olen), e.ok,
         NEW text, NEW d,
         d = Memcpy(Memcpy(Memcpy(e, before, Buf(text), clen), 0, Of(e.s, before), before),
                    clen + before, Of(e.s, pos + olen - 1 + before), after)
  PROVE  Came(c, k, d, n)
<1>1. IsText(Text(c)) /\ pos - 1 + olen <= clen /\ n \in Int
  <2>1. IsText(Text(c))
    BY StrFacts
  <2> QED
    BY <2>1, GoodSubFits
<1>2. clen - olen \in Nat
  BY <1>1
<1>3. PICK m \in Nat : m = clen - olen
  BY <1>2
<1>4. clen + m = n /\ e \in AddUndef(c, m)
  BY <1>1, <1>3
<1>5. Opened(c, k, e, n)
  <2>1. CASE m # 0
    <3>1. Opened(c, k, e, clen + m)
      BY <1>4, <2>1, AddUndefGood
    <3> QED
      BY <1>4, <3>1
  <2>2. CASE m = 0
    <3>1. e = Done(c) /\ n = clen
      BY <1>1, <1>4, <2>2 DEF AddUndef
    <3>2. Came(c, k, e, n)
      BY <3>1, DoneCame
    <3>3. Str(e) = Str(c)
      BY <3>1, DoneGood DEF Edits
    <3> QED
      BY <3>2, <3>3, OwnerOpen DEF Opened
  <2> QED
    BY <2>1, <2>2
<1>6. PICK b : b = Buf(text)
  OBVIOUS
<1>7. PICK f : f = Memcpy(e, before, b, clen)
  OBVIOUS
<1>8. HeldSrc(c, k, b)
  BY <1>6, SrcForms
<1>9. Copied(c, k, e, n, f)
  <2>0. \A i \in Int : \E j \in Int : j = i
    OBVIOUS
  <2>3. clen \in Int
    OBVIOUS
  <2>1. PICK o1 \in Int, l1 \in Int : o1 = before /\ l1 = clen
    BY <2>0, <2>3
  <2>2. o1 + l1 <= n /\ f = Memcpy(e, o1, b, l1)
    BY <1>1, <1>7, <2>1
  <2> QED
    BY <1>5, <1>8, <2>2, CopyFrom
<1>10. Opened(c, k, f, n) /\ f.ok /\ f.s = e.s
  BY <1>9 DEF Copied
<1>11. PICK s1 : s1 = Of(e.s, before)
  OBVIOUS
<1>12. PICK g : g = Memcpy(f, 0, s1, before)
  OBVIOUS
<1>13. OwnSrc(f, s1)
  BY <1>10, <1>11, OwnForms
<1>14. Copied(c, k, f, n, g)
  <2>1. 0 \in Int
    OBVIOUS
  <2>2. PICK z \in Int : z = 0
    BY <2>1
  <2>3. z + before <= n /\ g = Memcpy(f, z, s1, before)
    BY <1>1, <1>12, <2>2
  <2> QED
    BY <1>10, <1>13, <2>3, CopyOwned
<1>15. Opened(c, k, g, n) /\ g.ok /\ g.s = e.s
  BY <1>10, <1>14 DEF Copied
<1>16. PICK s2 : s2 = Of(e.s, pos + olen - 1 + before)
  OBVIOUS
<1>17. clen + before \in Int
  OBVIOUS
<1>18. PICK off \in Int : off = clen + before
  BY <1>17
<1>19. d = Memcpy(g, off, s2, after)
  BY <1>6, <1>7, <1>11, <1>12, <1>16, <1>18
<1>20. OwnSrc(g, s2)
  BY <1>15, <1>16 DEF OwnSrc
<1>21. Copied(c, k, g, n, d)
  <2>1. off + after <= n
    BY <1>1, <1>18
  <2> QED
    BY <1>15, <1>19, <1>20, <2>1, CopyOwned
<1> QED
  BY <1>21, CopiedParts

\* ustrp__sc_sub.
LEMMA ScSubGood ==
  ASSUME NEW c, NEW k, Edits(c, k), NEW pos \in Nat \ {0}, NEW olen \in Nat, NEW x, Known(c, k, x),
         Len(Text(c)) + Len(c.heap[x].text) - olen <= MaxLen,
         olen = 0 /\ x = c.s /\ Owner(Str(c)) /\ Len(Text(c)) = 0 => pos = 1,
         NEW d \in ScSub(c, pos, olen, x)
  PROVE  Post(c, k, d)
<1> DEFINE clen == Len(Text(c))
           before == pos - 1
           after == clen - (pos + olen) + 1
<1>1. /\ clen \in Nat /\ IsText(Text(c)) /\ Len(c.heap[x].text) \in Nat /\ pos - 1 \in Nat
      /\ Text(c) = c.heap[c.s].text
  BY StrFacts, KnownFacts
<1>2. CASE olen = 0 /\ d \in Ins(c, pos - 1, x)
  <2>1. PICK p \in Nat : p = pos - 1
    BY <1>1
  <2>7. clen + Len(c.heap[x].text) <= MaxLen
    <3>1. \A a, b \in Nat : a + b - 0 = a + b
      OBVIOUS
    <3>2. clen + Len(c.heap[x].text) - 0 <= MaxLen
      BY <1>2
    <3>3. clen + Len(c.heap[x].text) - 0 = clen + Len(c.heap[x].text)
      BY <1>1, <3>1
    <3> QED
      BY <3>2, <3>3
  <2>8. d \in Ins(c, p, x)
    BY <1>2, <2>1
  <2>2. clen + Len(c.heap[x].text) <= MaxLen /\ d \in Ins(c, p, x)
    BY <2>7, <2>8
  <2>6. ASSUME x = c.s, Owner(Str(c)), clen = 0 PROVE p = 0
    <3>1. pos = 1
      BY <1>2, <2>6
    <3> QED
      BY <2>1, <3>1
  <2>3. PICK n : n = clen + Len(c.heap[x].text)
    OBVIOUS
  <2>4. Came(c, k, d, clen + Len(c.heap[x].text))
    BY <2>2, <2>6, InsGood
  <2>5. Came(c, k, d, n)
    BY <2>3, <2>4
  <2> QED
    BY <2>5, CameParts
<1>3. CASE d = Fail(c)
  BY <1>3, FailGood DEF Edits
<1>4. CASE /\ olen # 0 /\ c.s = x /\ Owner(Str(c)) /\ GoodSub(Text(c), pos, olen)
           /\ d \in {IF e.ok
                     THEN Memcpy(Memcpy(Memcpy(e, before, Buf(Text(c)), clen),
                                        0, Of(e.s, before), before),
                                 clen + before, Of(e.s, pos + olen - 1 + before), after)
                     ELSE e : e \in AddUndef(c, clen - olen)}
  <2>1. PICK e \in AddUndef(c, clen - olen) :
               d = IF e.ok
                   THEN Memcpy(Memcpy(Memcpy(e, before, Buf(Text(c)), clen),
                                      0, Of(e.s, before), before),
                               clen + before, Of(e.s, pos + olen - 1 + before), after)
                   ELSE e
    BY <1>4
  <2>2. before \in Int /\ after \in Int /\ clen + clen - olen <= MaxLen
    BY <1>1, <1>4
  <2>3. CASE e.ok
    <3>1. PICK cl \in Nat, bf \in Int, af \in Int : cl = clen /\ bf = before /\ af = after
      BY <1>1, <2>2
    <3>2. PICK n, text : n = cl + cl - olen /\ text = Text(c)
      OBVIOUS
    <3>3. /\ n <= MaxLen /\ e \in AddUndef(c, cl - olen) /\ bf = pos - 1
          /\ af = cl - (pos + olen) + 1 /\ olen \in Nat \ {0}
      BY <1>4, <2>1, <2>2, <3>1, <3>2
    <3>4. d = Memcpy(Memcpy(Memcpy(e, bf, Buf(text), cl), 0, Of(e.s, bf), bf),
                     cl + bf, Of(e.s, pos + olen - 1 + bf), af)
      BY <2>1, <2>3, <3>1, <3>2
    <3>5. Came(c, k, d, n)
      BY <1>4, <2>3, <3>1, <3>2, <3>3, <3>4, ScSubOwnGood
    <3> QED
      BY <3>5, CameParts
  <2>4. CASE ~e.ok
    <3>1. pos - 1 + olen <= clen
      BY <1>1, <1>4, GoodSubFits
    <3>2. clen - olen \in Nat
      BY <1>1, <3>1
    <3>3. PICK m \in Nat : m = clen - olen
      BY <3>2
    <3>4. clen + m <= MaxLen /\ e \in AddUndef(c, m)
      BY <1>1, <2>1, <2>2, <3>3
    <3>5. PICK n : n = clen + m
      OBVIOUS
    <3>6. Came(c, k, e, clen + m)
      BY <3>4, AddUndefGood
    <3>7. Came(c, k, e, n)
      BY <3>5, <3>6
    <3> QED
      BY <2>1, <2>4, <3>7, CameParts
  <2> QED
    BY <2>3, <2>4
<1>5. CASE ~(c.s = x /\ Owner(Str(c))) /\ d \in ScSubBuf(c, pos, olen, Of(x, 0), Len(c.heap[x].text))
  <2>1. PICK src : src = Of(x, 0)
    OBVIOUS
  <2>2. PICK len \in Nat : len = Len(c.heap[x].text)
    BY <1>1
  <2>3. PICK n : n = clen + len - olen
    OBVIOUS
  <2>4. Pinned(c, k, x)
    BY <1>5, KnownFacts
  <2>5. HeldSrc(c, k, src) /\ n <= MaxLen /\ d \in ScSubBuf(c, pos, olen, src, len)
    BY <1>5, <2>1, <2>2, <2>3, <2>4, SrcForms
  <2>6. Came(c, k, d, n)
    BY <2>3, <2>5, ScSubBufGood
  <2> QED
    BY <2>6, CameParts
<1> QED
  BY <1>2, <1>3, <1>4, <1>5 DEF ScSub

\* ustrp__sc_sub_subustr.
LEMMA ScSubSubustrGood ==
  ASSUME NEW c, NEW k, Edits(c, k), NEW pos1 \in Nat \ {0}, NEW len1 \in Nat, NEW x, Known(c, k, x),
         NEW pos2 \in Nat \ {0}, NEW len2 \in Nat, Len(Text(c)) + len2 - len1 <= MaxLen,
         NEW d \in ScSubSubustr(c, pos1, len1, x, pos2, len2)
  PROVE  Post(c, k, d)
<1> DEFINE text == c.heap[x].text
<1>1. /\ IsText(text) /\ Len(text) \in Nat /\ Text(c) = c.heap[c.s].text /\ Good(c, k)
      /\ Len(Text(c)) \in Nat
  BY StrFacts, KnownFacts DEF Edits
<1>2. CASE d \in DelSubustr(c, pos1, len1)
  <2>1. PICK n : n = Len(Text(c)) - len1
    OBVIOUS
  <2>2. Came(c, k, d, Len(Text(c)) - len1)
    BY <1>2, DelSubustrCame
  <2>3. Came(c, k, d, n)
    BY <2>1, <2>2
  <2> QED
    BY <2>3, CameParts
<1>3. CASE d = Fail(c)
  BY <1>1, <1>3, FailGood
<1>8. ASSUME GoodSub(text, pos2, len2) PROVE Len(text) # 0
  BY <1>1, <1>8, EmptyText DEF GoodSub
<1>4. CASE GoodSub(text, pos2, len2) /\ len2 = Len(text) /\ d \in ScSub(c, pos1, len1, x)
  <2>1. x = c.s => Len(Text(c)) # 0
    BY <1>1, <1>4, <1>8
  <2> QED
    BY <1>4, <2>1, ScSubGood
<1>6. CASE /\ GoodSub(text, pos2, len2) /\ c.s = x
           /\ d \in UNION {IF e.ok THEN ViaCopy(ScSub(e, pos1, len1, e.n), e.n) ELSE {e} :
                           e \in DupSubustr(c, x, pos2, len2)}
  <2>1. PICK e \in DupSubustr(c, x, pos2, len2) :
               d \in IF e.ok THEN ViaCopy(ScSub(e, pos1, len1, e.n), e.n) ELSE {e}
    BY <1>6
  <2>2. CASE ~e.ok
    BY <2>1, <2>2, PartOfItself
  <2>3. CASE e.ok
    <3>1. Got(c, k, e) /\ Len(e.heap[e.n].text) = len2
      BY <2>3, PartOfItself
    <3>2. PICK f \in ScSub(e, pos1, len1, e.n) : d = Free(f, e.n)
      BY <2>1, <2>3 DEF ViaCopy
    <3>3. PICK l, y : l = With(k, e.n) /\ y = e.n
      OBVIOUS
    <3>4. Edits(e, l) /\ Known(e, l, y) /\ Text(e) = Text(c)
      BY <2>3, <3>1, <3>3, GotEdits
    <3>5. /\ Len(Text(e)) + Len(e.heap[y].text) - len1 <= MaxLen /\ f \in ScSub(e, pos1, len1, y)
          /\ Len(Text(e)) # 0
      BY <1>1, <1>6, <1>8, <3>1, <3>2, <3>3, <3>4
    <3>6. Post(e, l, f)
      BY <3>4, <3>5, ScSubGood
    <3>7. Post(e, With(k, e.n), f)
      BY <3>3, <3>6
    <3> QED
      BY <2>3, <3>1, <3>2, <3>7, ViaCopyGood
  <2> QED
    BY <2>2, <2>3
<1>7. CASE ~(c.s = x /\ Owner(Str(c))) /\ d \in ScSubBuf(c, pos1, len1, Of(x, pos2 - 1), len2)
  <2>1. PICK src : src = Of(x, pos2 - 1)
    OBVIOUS
  <2>2. Pinned(c, k, x)
    BY <1>7, KnownFacts
  <2>3. PICK n : n = Len(Text(c)) + len2 - len1
    OBVIOUS
  <2>5. HeldSrc(c, k, src) /\ n <= MaxLen /\ d \in ScSubBuf(c, pos1, len1, src, len2)
    BY <1>7, <2>1, <2>2, <2>3, SrcForms
  <2>6. Came(c, k, d, n)
    BY <2>3, <2>5, ScSubBufGood
  <2> QED
    BY <2>6, CameParts
<1> QED
  BY <1>2, <1>3, <1>4, <1>6, <1>7 DEF ScSubSubustr

-----------------------------------------------------------------------------
(* Edits: parts are searched and replaced *)

\* A part of a text, character by character.
LEMMA SliceIs ==
  ASSUME NEW t, IsText(t), NEW off \in Nat, NEW len \in Nat, off + len <= Len(t)
  PROVE  Slice(t, off, len) = [i \in 1 .. len |-> t[off + i]]
<1>1. PICK S : t \in Seq(S)
  BY DEF IsText
<1>2. SubSeq(t, off + 1, off + len) = [i \in 1 .. ((off + len) - (off + 1)) + 1 |-> t[i + (off + 1) - 1]]
  BY <1>1
<1>3. ((off + len) - (off + 1)) + 1 = len
  OBVIOUS
<1>4. \A i \in 1 .. len : i + (off + 1) - 1 = off + i
  OBVIOUS
<1>5. SubSeq(t, off + 1, off + len) = [i \in 1 .. len |-> t[off + i]]
  BY <1>2, <1>3, <1>4
<1> QED
  BY <1>5 DEF Slice

\* Where a text is found.
Matches(text, off, old) ==
  {p \in off + 1 .. Len(text) - Len(old) + 1 : Slice(text, p - 1, Len(old)) = old}

First(text, off, old, p) ==
  /\ p \in Nat
  /\ p = 0 <=> Matches(text, off, old) = {}
  /\ p # 0 => /\ p \in Matches(text, off, old)
              /\ \A q \in Matches(text, off, old) : p <= q
              /\ p > off /\ p - 1 + Len(old) <= Len(text)

\* A search finds the first match behind an offset.
LEMMA FindFacts ==
  ASSUME NEW text, IsText(text), NEW off \in Nat, NEW old, IsText(old), NEW p, p = Find(text, off, old)
  PROVE  First(text, off, old, p)
<1> DEFINE at == Matches(text, off, old)
<1>1. Len(text) \in Nat /\ Len(old) \in Nat
  BY TextIsFunction
<1>2. p = IF at = {} THEN 0 ELSE CHOOSE x \in at : \A y \in at : x <= y
  BY DEF Find, Matches, Min
<1>3. \A q \in at : q \in Nat /\ q > off /\ q - 1 + Len(old) <= Len(text)
  BY <1>1 DEF Matches
<1>4. at \in SUBSET Nat
  BY <1>3
<1> HIDE DEF at
<1>5. CASE at = {}
  BY <1>2, <1>5 DEF at, First
<1>6. CASE at # {}
  <2>1. \E x \in at : \A y \in at : x <= y
    BY <1>4, <1>6, Least
  <2>2. p \in at /\ \A y \in at : p <= y
    BY <1>2, <1>6, <2>1
  <2>3. p \in Nat /\ p > off /\ p - 1 + Len(old) <= Len(text) /\ p # 0
    BY <1>3, <2>2
  <2> QED
    BY <1>6, <2>2, <2>3 DEF at, First
<1> QED
  BY <1>5, <1>6

\* Texts that end alike, each from its place on.
SameEnds(t1, off1, t2, off2) ==
  /\ Len(t1) - off1 = Len(t2) - off2
  /\ \A j \in 1 .. Len(t1) - off1 : t1[off1 + j] = t2[off2 + j]

\* The same is found in them, at the same distance.
LEMMA MatchMoves ==
  ASSUME NEW t1, IsText(t1), NEW t2, IsText(t2), NEW off1 \in Nat, NEW off2 \in Nat,
         SameEnds(t1, off1, t2, off2), NEW old, IsText(old), NEW p \in Matches(t1, off1, old)
  PROVE  (p - off1) + off2 \in Matches(t2, off2, old)
<1> DEFINE q == (p - off1) + off2
           l == Len(old)
<1>1. Len(t1) \in Nat /\ Len(t2) \in Nat /\ l \in Nat
  BY TextIsFunction
<1>2. p \in off1 + 1 .. Len(t1) - l + 1 /\ Slice(t1, p - 1, l) = old
  BY DEF Matches
<1>3. Len(t1) - off1 = Len(t2) - off2
  BY DEF SameEnds
<1> HIDE DEF l
<1>4. q \in off2 + 1 .. Len(t2) - l + 1 /\ q \in Nat /\ q - 1 \in Nat /\ p - 1 \in Nat
      /\ (q - 1) + l <= Len(t2) /\ (p - 1) + l <= Len(t1)
  BY <1>1, <1>2, <1>3
<1>5. PICK a \in Nat, b \in Nat : a = p - 1 /\ b = q - 1
  BY <1>4
<1>10. PICK m \in Nat : m = l
  BY <1>1
<1>11. a + m <= Len(t1) /\ b + m <= Len(t2)
  BY <1>4, <1>5, <1>10
<1>6. Slice(t1, a, m) = [i \in 1 .. m |-> t1[a + i]]
  BY <1>11, SliceIs
<1>7. Slice(t2, b, m) = [i \in 1 .. m |-> t2[b + i]]
  BY <1>11, SliceIs
<1>8. \A i \in 1 .. l : t1[a + i] = t2[b + i]
  <2> TAKE i \in 1 .. l
  <2>1. (a + i) - off1 \in 1 .. Len(t1) - off1
    BY <1>1, <1>2, <1>4, <1>5
  <2>2. PICK j \in 1 .. Len(t1) - off1 : j = (a + i) - off1
    BY <2>1
  <2>3. t1[off1 + j] = t2[off2 + j]
    BY DEF SameEnds
  <2>4. off1 + j = a + i /\ off2 + j = b + i
    BY <1>1, <1>2, <1>5, <2>2
  <2> QED
    BY <2>3, <2>4
<1>9. Slice(t2, b, l) = old
  BY <1>2, <1>5, <1>6, <1>7, <1>8, <1>10
<1> QED
  BY <1>4, <1>5, <1>9 DEF Matches, l

\* Texts with the same end are searched alike.
LEMMA FindMoves ==
  ASSUME NEW t1, IsText(t1), NEW t2, IsText(t2), NEW off1 \in Nat, NEW off2 \in Nat,
         SameEnds(t1, off1, t2, off2), NEW old, IsText(old),
         NEW p, p = Find(t1, off1, old), NEW q, q = Find(t2, off2, old)
  PROVE  /\ p = 0 <=> q = 0
         /\ p # 0 => p - off1 = q - off2
<1>1. SameEnds(t2, off2, t1, off1)
  <2>1. Len(t1) - off1 = Len(t2) - off2
    BY DEF SameEnds
  <2>2. 1 .. Len(t2) - off2 = 1 .. Len(t1) - off1
    BY <2>1
  <2>3. \A j \in 1 .. Len(t1) - off1 : t1[off1 + j] = t2[off2 + j]
    BY DEF SameEnds
  <2> QED
    BY <2>1, <2>2, <2>3 DEF SameEnds
<1> DEFINE A == Matches(t1, off1, old)
           B == Matches(t2, off2, old)
<1>2. /\ p = 0 <=> A = {}
      /\ p # 0 => p \in A /\ \A y \in A : p <= y
      /\ p \in Nat
  <2>1. First(t1, off1, old, p)
    BY FindFacts
  <2> QED
    BY <2>1 DEF First
<1>3. /\ q = 0 <=> B = {}
      /\ q # 0 => q \in B /\ \A y \in B : q <= y
      /\ q \in Nat
  <2>1. First(t2, off2, old, q)
    BY FindFacts
  <2> QED
    BY <2>1 DEF First
<1>4. \A x \in A : (x - off1) + off2 \in B
  BY MatchMoves
<1>5. \A x \in B : (x - off2) + off1 \in A
  BY <1>1, MatchMoves
<1> HIDE DEF A, B
<1>6. p = 0 <=> q = 0
  BY <1>2, <1>3, <1>4, <1>5
<1>7. ASSUME p # 0 PROVE p - off1 = q - off2
  <2>1. q # 0 /\ p \in A /\ q \in B
    BY <1>2, <1>3, <1>6, <1>7
  <2>2. q <= (p - off1) + off2
    BY <1>3, <1>4, <2>1
  <2>3. p <= (q - off2) + off1
    BY <1>2, <1>5, <1>7, <2>1
  <2> QED
    BY <1>2, <1>3, <2>2, <2>3
<1> QED
  BY <1>6, <1>7

\* A scan has as many rounds.
LEMMA LimitNat ==
  ASSUME NEW text, IsText(text), NEW lim \in Nat
  PROVE  Limit(text, lim) \in Nat
BY TextIsFunction DEF Limit

\* The rounds of a scan are what their definition says.
LEMMA ScanDefined ==
  ASSUME NEW text, IsText(text), NEW old, NEW new, NEW lim \in Nat,
         NEW R, R = ScanRounds(text, old, new, lim), NEW N, N = Limit(text, lim)
  PROVE  /\ R[0] = [off |-> 0, num |-> 0, out |-> <<>>]
         /\ \A i \in 1 .. N : R[i] = ScanRound(R[i - 1], text, old, new)
<1> DEFINE base == [off |-> 0, num |-> 0, out |-> <<>>]
           F(f, m) == f = [i \in 0 .. m |-> IF i = 0 THEN base
                                            ELSE ScanRound(f[i - 1], text, old, new)]
           T == {m \in 0 .. N : \E f : F(f, m)}
<1>1. N \in Nat
  BY LimitNat
<1>2. 0 \in T
  <2> DEFINE h == [i \in 0 .. 0 |-> base]
  <2>1. h = [i \in 0 .. 0 |-> IF i = 0 THEN base ELSE ScanRound(h[i - 1], text, old, new)]
    OBVIOUS
  <2> HIDE DEF h
  <2>2. F(h, 0)
    BY <2>1
  <2> QED
    BY <1>1, <2>2
<1>3. ASSUME NEW m \in 0 .. N - 1, m \in T PROVE m + 1 \in T
  <2>1. PICK g : F(g, m)
    BY <1>3
  <2> DEFINE h == [i \in 0 .. m + 1 |-> IF i = m + 1 THEN ScanRound(g[m], text, old, new) ELSE g[i]]
  <2>2. \A i \in 0 .. m + 1 : h[i] = IF i = 0 THEN base ELSE ScanRound(h[i - 1], text, old, new)
    <3> TAKE i \in 0 .. m + 1
    <3>1. CASE i = m + 1
      <4>1. i # 0 /\ i - 1 = m /\ m \in 0 .. m + 1 /\ m # m + 1
        BY <3>1
      <4>2. h[i] = ScanRound(g[m], text, old, new) /\ h[m] = g[m]
        BY <3>1, <4>1
      <4> QED
        BY <4>1, <4>2
    <3>2. CASE i \in 0 .. m
      <4>1. i # m + 1 /\ (i # 0 => i - 1 \in 0 .. m + 1 /\ i - 1 # m + 1)
        BY <3>2
      <4>2. h[i] = g[i] /\ (i # 0 => h[i - 1] = g[i - 1])
        BY <4>1
      <4>3. g[i] = IF i = 0 THEN base ELSE ScanRound(g[i - 1], text, old, new)
        BY <2>1, <3>2
      <4> QED
        BY <4>2, <4>3
    <3> QED
      BY <3>1, <3>2
  <2>3. h = [i \in 0 .. m + 1 |-> h[i]]
    OBVIOUS
  <2> HIDE DEF h
  <2>4. F(h, m + 1)
    BY <2>2, <2>3
  <2>5. m + 1 \in 0 .. N
    BY <1>1
  <2> QED
    BY <2>4, <2>5
<1> HIDE DEF T
<1>4. 0 .. N \subseteq T
  BY <1>1, <1>2, <1>3, UpTo
<1>5. \E f : F(f, N)
  BY <1>1, <1>4 DEF T
<1>6. R = CHOOSE f : F(f, N)
  BY DEF ScanRounds
<1> HIDE DEF F
<1>7. F(R, N)
  BY <1>5, <1>6
<1>8. R = [i \in 0 .. N |-> IF i = 0 THEN base ELSE ScanRound(R[i - 1], text, old, new)]
  BY <1>7 DEF F
<1> QED
  BY <1>1, <1>8

\* The characters that so many replacements add.
Gain(num, old, new) == num * (Len(new) - Len(old))

\* What replacements add to the length.
LEMMA GainFacts ==
  ASSUME NEW old, IsText(old), NEW new, IsText(new), NEW num \in Nat
  PROVE  /\ Gain(num, old, new) \in Int /\ Gain(0, old, new) = 0
         /\ Gain(num + 1, old, new) = Gain(num, old, new) + Len(new) - Len(old)
<1>1. Len(old) \in Nat /\ Len(new) \in Nat
  BY TextIsFunction
<1>2. Len(new) - Len(old) \in Int
  BY <1>1
<1>3. \A d \in Int : num * d \in Int /\ 0 * d = 0 /\ (num + 1) * d = num * d + d
  OBVIOUS
<1>4. Gain(num, old, new) \in Int /\ Gain(0, old, new) = 0
  BY <1>2, <1>3 DEF Gain
<1>5. Gain(num + 1, old, new) = Gain(num, old, new) + (Len(new) - Len(old))
  BY <1>2, <1>3 DEF Gain
<1> QED
  BY <1>1, <1>4, <1>5

\* How far a scan is, and what it has put together.
ScanOK(text, old, new, r) ==
  /\ r.off \in Nat /\ r.off <= Len(text) /\ r.num \in Nat /\ IsText(r.out)
  /\ Len(r.out) = r.off + Gain(r.num, old, new)

\* A round of the scan adds up.
LEMMA ScanRoundOK ==
  ASSUME NEW text, IsText(text), NEW old, IsText(old), NEW new, IsText(new),
         NEW r, ScanOK(text, old, new, r), NEW s, s = ScanRound(r, text, old, new)
  PROVE  ScanOK(text, old, new, s) /\ s.num >= r.num
<1>1. PICK p : p = Find(text, r.off, old)
  OBVIOUS
<1>2. /\ r.off \in Nat /\ r.off <= Len(text) /\ r.num \in Nat /\ IsText(r.out)
      /\ Len(r.out) = r.off + Gain(r.num, old, new)
      /\ Len(text) \in Nat /\ Len(old) \in Nat /\ Len(new) \in Nat
  BY TextIsFunction DEF ScanOK
<1>3. First(text, r.off, old, p)
  <2>1. PICK o \in Nat : o = r.off
    BY <1>2
  <2>2. First(text, o, old, p)
    BY <1>1, <2>1, FindFacts
  <2> QED
    BY <2>1, <2>2
<1>4. CASE p = 0
  BY <1>1, <1>2, <1>4 DEF ScanRound
<1>5. CASE p # 0
  <2>1. p \in Nat /\ p > r.off /\ p - 1 + Len(old) <= Len(text)
    BY <1>3, <1>5 DEF First
  <2>2. PICK o \in Nat, m \in Int, l \in Nat, w \in Nat, nn \in Nat :
          o = r.off /\ m = p - 1 - r.off /\ l = Len(old) /\ w = Len(new) /\ nn = r.num
    <3>1. p - 1 - r.off \in Int
      BY <1>2, <2>1
    <3> QED
      BY <1>2, <3>1
  <2>3. m \in Nat /\ o + m <= Len(text) /\ ~(m < 0)
    BY SMTT(30), <1>2, <2>1, <2>2
  <2>4. PICK t : t = Slice(text, o, m)
    OBVIOUS
  <2>5. IsText(t) /\ Len(t) = m
    BY <2>3, <2>4, SliceText
  <2>6. s = [off |-> p - 1 + l, num |-> nn + 1, out |-> r.out \o t \o new]
    BY <1>1, <1>5, <2>2, <2>4 DEF ScanRound
  <2>7. PICK a : a = r.out
    OBVIOUS
  <2>8. IsText(a \o t) /\ Len(a \o t) = Len(a) + m
    BY <1>2, <2>5, <2>7, JoinText
  <2>9. IsText((a \o t) \o new) /\ Len((a \o t) \o new) = (Len(a) + m) + w
    BY <2>2, <2>8, JoinText
  <2>10. s.off = p - 1 + l /\ s.num = nn + 1 /\ s.out = (a \o t) \o new
    BY <2>6, <2>7
  <2>12. Gain(nn, old, new) \in Int /\ Gain(nn + 1, old, new) = Gain(nn, old, new) + w - l
    BY <2>2, GainFacts
  <2>13. PICK z \in Int : z = Gain(nn, old, new)
    BY <2>12
  <2>11. Len(a) = o + z /\ p = m + 1 + o
    <3>1. Len(a) = o + z
      BY <1>2, <2>2, <2>7, <2>13
    <3>3. m = p - 1 - o
      BY <2>2
    <3>2. p = m + 1 + o
      BY <2>1, <3>3
    <3> QED
      BY <3>1, <3>2
  <2>14. (Len(a) + m) + w = (p - 1 + l) + (z + (w - l))
    BY <2>1, <2>11, <2>13
  <2>15. /\ s.off \in Nat /\ s.off <= Len(text) /\ s.num \in Nat /\ IsText(s.out)
         /\ s.num >= r.num
    <3>1. s.off \in Nat /\ s.off <= Len(text)
      BY <2>1, <2>2, <2>10
    <3>2. s.num \in Nat /\ s.num >= r.num
      BY <2>2, <2>10
    <3>3. IsText(s.out)
      BY <2>9, <2>10
    <3> QED
      BY <3>1, <3>2, <3>3
  <2>16. Len(s.out) = s.off + Gain(s.num, old, new)
    <3>1. Gain(s.num, old, new) = z + (w - l)
      <4>1. Gain(s.num, old, new) = z + w - l
        BY <2>10, <2>12, <2>13
      <4> QED
        BY <4>1
    <3>2. Len(s.out) = (Len(a) + m) + w
      BY <2>9, <2>10
    <3> QED
      BY <2>10, <2>14, <3>1, <3>2
  <2> QED
    BY <2>15, <2>16 DEF ScanOK
<1> QED
  BY <1>4, <1>5

\* All rounds of the scan add up.
LEMMA ScanAllOK ==
  ASSUME NEW text, IsText(text), NEW old, IsText(old), NEW new, IsText(new), NEW lim \in Nat,
         NEW R, R = ScanRounds(text, old, new, lim), NEW N \in Nat, N = Limit(text, lim)
  PROVE  \A i \in 0 .. N : ScanOK(text, old, new, R[i]) /\ R[i].num <= R[N].num
<1>1. N \in Nat
  OBVIOUS
<1>2. R[0] = [off |-> 0, num |-> 0, out |-> <<>>]
  BY ScanDefined
<1>3. \A i \in 1 .. N : R[i] = ScanRound(R[i - 1], text, old, new)
  BY ScanDefined
<1> DEFINE T == {i \in 0 .. N : ScanOK(text, old, new, R[i])}
<1>4. 0 \in T
  <2>1. Len(text) \in Nat /\ Len(old) \in Nat /\ Len(new) \in Nat
    BY TextIsFunction
  <2>2. Gain(0, old, new) = 0
    <3>1. 0 \in Nat
      OBVIOUS
    <3> QED
      BY <3>1, GainFacts
  <2>4. ScanOK(text, old, new, R[0])
    BY <1>2, <2>1, <2>2, EmptyText DEF ScanOK
  <2> QED
    BY <1>1, <2>4
<1>5. \A i \in 0 .. N - 1 : i \in T => i + 1 \in T
  <2> SUFFICES ASSUME NEW i \in 0 .. N - 1, i \in T PROVE i + 1 \in T
    OBVIOUS
  <2>1. i + 1 \in 1 .. N /\ (i + 1) - 1 = i /\ i + 1 \in 0 .. N
    BY <1>1
  <2>2. R[i + 1] = ScanRound(R[i], text, old, new)
    BY <1>3, <2>1
  <2>3. ScanOK(text, old, new, R[i + 1])
    BY <2>2, ScanRoundOK
  <2> QED
    BY <2>1, <2>3
<1> HIDE DEF T
<1>6. 0 .. N \subseteq T
  BY <1>1, <1>4, <1>5, UpTo
<1>7. \A i \in 0 .. N : ScanOK(text, old, new, R[i])
  BY <1>6 DEF T
<1>8. ASSUME NEW i \in 0 .. N PROVE R[i].num <= R[N].num
  <2> DEFINE V == {j \in i .. N : R[i].num <= R[j].num}
  <2>1. i \in V
    BY <1>1, <1>7 DEF ScanOK
  <2>2. \A j \in i .. N - 1 : j \in V => j + 1 \in V
    <3> SUFFICES ASSUME NEW j \in i .. N - 1, j \in V PROVE j + 1 \in V
      OBVIOUS
    <3>1. j + 1 \in 1 .. N /\ (j + 1) - 1 = j /\ j \in 0 .. N /\ j + 1 \in i .. N /\ j + 1 \in 0 .. N
      BY <1>1
    <3>2. R[j + 1] = ScanRound(R[j], text, old, new)
      BY <1>3, <3>1
    <3>3. R[j + 1].num >= R[j].num
      BY <1>7, <3>1, <3>2, ScanRoundOK
    <3>4. R[i].num \in Nat /\ R[j].num \in Nat /\ R[j + 1].num \in Nat
      BY <1>7, <3>1 DEF ScanOK
    <3>5. R[i].num <= R[j].num
      OBVIOUS
    <3> QED
      BY <3>1, <3>3, <3>4, <3>5
  <2> HIDE DEF V
  <2>0. i \in Int /\ N \in Int
    OBVIOUS
  <2>5. PICK i0 \in Int, n0 \in Int : i0 = i /\ n0 = N
    BY <2>0
  <2>6. i0 \in V /\ \A j \in i0 .. n0 - 1 : j \in V => j + 1 \in V
    BY <2>1, <2>2, <2>5
  <2>7. i0 .. n0 \subseteq V
    BY <2>6, FromTo
  <2>3. i .. N \subseteq V
    BY <2>5, <2>7
  <2>4. N \in V
    BY <1>1, <2>3
  <2> QED
    BY <2>4 DEF V
<1> QED
  BY <1>1, <1>7, <1>8

TextGains(total, text, num, old, new) ==
  IsText(total) /\ Len(total) = Len(text) + Gain(num, old, new)

\* The length of the text after the replacements.
LEMMA SplicedText ==
  ASSUME NEW text, IsText(text), NEW old, IsText(old), NEW new, IsText(new), NEW lim \in Nat,
         NEW r, r = Scan(text, old, new, lim), NEW total, total = Spliced(text, old, new, lim)
  PROVE  TextGains(total, text, r.num, old, new)
<1>0. Limit(text, lim) \in Nat
  BY LimitNat
<1>13. PICK N \in Nat : N = Limit(text, lim)
  BY <1>0
<1>14. PICK R : R = ScanRounds(text, old, new, lim)
  OBVIOUS
<1>1. R = ScanRounds(text, old, new, lim) /\ N = Limit(text, lim)
  BY <1>13, <1>14
<1>2. r = R[N] /\ N \in 0 .. N
  BY <1>1 DEF Scan
<1>3. ScanOK(text, old, new, r)
  <2>1. ScanOK(text, old, new, R[N])
    BY <1>1, <1>2, ScanAllOK
  <2> QED
    BY <1>2, <2>1
<1>4. /\ r.off \in Nat /\ r.off <= Len(text) /\ r.num \in Nat /\ IsText(r.out)
      /\ Len(r.out) = r.off + Gain(r.num, old, new)
      /\ Len(text) \in Nat /\ Len(old) \in Nat /\ Len(new) \in Nat
  BY <1>3, TextIsFunction DEF ScanOK
<1>5. PICK o \in Nat, m \in Int : o = r.off /\ m = Len(text) - r.off
  <2>1. Len(text) - r.off \in Int
    BY <1>4
  <2> QED
    BY <1>4, <2>1
<1>6. o + m <= Len(text) /\ ~(m < 0)
  BY <1>4, <1>5
<1>7. PICK t, a : t = Slice(text, o, m) /\ a = r.out
  OBVIOUS
<1>8. IsText(t) /\ Len(t) = m
  BY <1>6, <1>7, SliceText
<1>9. total = a \o t
  BY <1>5, <1>7 DEF Spliced
<1>10. IsText(a \o t) /\ Len(a \o t) = Len(a) + m
  BY <1>4, <1>7, <1>8, JoinText
<1>11. PICK z \in Int : z = Gain(r.num, old, new)
  BY <1>4, GainFacts
<1>12. Len(a) + m = Len(text) + z
  BY <1>4, <1>5, <1>7, <1>11
<1> QED
  BY <1>9, <1>10, <1>11, <1>12 DEF TextGains

\* Blocks that differ in their text.
Same(b, d) == d.kind = b.kind /\ d.sized = b.sized /\ d.rb = b.rb /\ d.lb = b.lb /\ d.sz = b.sz

\* The same header has room for the same text.
LEMMA SameSize ==
  ASSUME NEW b, SoundBlock(b), Fixed(b), NEW d, Same(b, d)
  PROVE  Fixed(d) /\ Size(d) = Size(b)
<1>1. b.sized /\ b.kind = "fixed" /\ d.kind = "fixed" /\ d.sized
  BY DEF SoundBlock, IsBlock, Fixed, Same
<1>2. Overhead(d) = Overhead(b)
  BY <1>1 DEF Overhead, Ro, Same
<1>3. SizeAlloc(d) = SizeAlloc(b)
  BY <1>1 DEF SizeAlloc, Same
<1> QED
  BY <1>1, <1>2, <1>3 DEF Size, Fixed

\* A buffer of the caller takes what its size allows.
LEMMA FixedRoom ==
  ASSUME NEW b, SoundBlock(b), Fixed(b), NEW n \in Nat, n <= Size(b)
  PROVE  RwMod(b, n).can /\ ~RwMod(b, n).alloc
<1>1. b.sized /\ b.kind = "fixed" /\ Nb(b.sz) <= b.lb
  BY DEF SoundBlock, IsBlock, Fixed
<1>2. /\ Overhead(b) = HeadAndTail(b.rb, b.lb, Fields(b.sized)) /\ Overhead(b) \in Nat
      /\ b.sz \in Nat /\ b.sz # 0 /\ b.lb \in Widths
  BY <1>1, WritableParts
<1>3. Size(b) = b.sz - Overhead(b)
  BY <1>1 DEF Size, SizeAlloc
<1>4. Overhead(b) + n <= b.sz /\ n <= b.sz
  BY <1>2, <1>3
<1>5. Nb(n) <= Nb(b.sz) /\ Nb(n) \in {1, 2, 4, 8} /\ Nb(b.sz) \in {1, 2, 4, 8}
  <2>1. PICK z \in Nat : z = b.sz
    BY <1>2
  <2>2. Nb(z) \in {1, 2, 4, 8} /\ \A m \in Nat : m <= z => Nb(m) <= Nb(z)
    BY NbFacts
  <2>3. Nb(n) \in {1, 2, 4, 8}
    BY NbFacts
  <2> QED
    BY <1>4, <2>1, <2>2, <2>3
<1>6. Nb(n) <= b.lb
  BY <1>1, <1>2, <1>5 DEF Widths
<1>7. Owner(b) /\ ~Alloc(b)
  BY <1>1 DEF Owner, Fixed, Alloc
<1> DEFINE need == HeadAndTail(b.rb, b.lb, Fields(b.sized /\ b.sz # 0)) + n
<1>8. RwMod(b, n) = Fit(b, need, Graded(b.exact, need), SizeAlloc(b))
  BY <1>6, <1>7 DEF RwMod
<1>9. Fields(b.sized /\ b.sz # 0) = Fields(b.sized)
  BY <1>1, <1>2 DEF Fields
<1>10. need <= b.sz
  BY <1>2, <1>4, <1>9
<1>11. SizeAlloc(b) = b.sz
  BY <1>1 DEF SizeAlloc
<1> HIDE DEF need
<1>12. PICK g : g = Graded(b.exact, need)
  OBVIOUS
<1>13. RwMod(b, n) = Fit(b, need, g, b.sz)
  BY <1>8, <1>11, <1>12
<1>14. PICK q : q = need
  OBVIOUS
<1>15. RwMod(b, n) = Fit(b, q, g, b.sz) /\ q <= b.sz /\ b.sized /\ b.sz # 0 /\ ~Alloc(b)
  BY <1>1, <1>2, <1>7, <1>10, <1>13, <1>14
<1>16. Fit(b, q, g, b.sz).can /\ ~Fit(b, q, g, b.sz).alloc
  BY <1>15 DEF Fit
<1> QED
  BY <1>15, <1>16

\* Of an edit in a buffer of the caller that has room: nothing moves or fails.
Stayed(c, k, d, n) ==
  /\ Post(c, k, d) /\ d.ok /\ d.s = c.s /\ Len(Text(d)) = n /\ Same(Str(c), Str(d))

\* A string that stayed in its buffer.
LEMMA StayedParts ==
  ASSUME NEW c, NEW k, NEW d, NEW n, Stayed(c, k, d, n), Edits(c, k), Fixed(Str(c))
  PROVE  /\ Edits(d, k) /\ Fixed(Str(d)) /\ Size(Str(d)) = Size(Str(c)) /\ d.ok /\ d.s = c.s
         /\ IsText(Text(d)) /\ Len(Text(d)) = n /\ Text(d) = Str(d).text /\ Str(d) = d.heap[d.s]
<1>1. SoundBlock(Str(c))
  BY StrFacts
<1>2. Edits(d, k) /\ d.ok /\ d.s = c.s /\ Len(Text(d)) = n
  BY DEF Stayed, Post
<1>3. IsText(Text(d)) /\ Text(d) = Str(d).text /\ Str(d) = d.heap[d.s]
  BY <1>2, StrFacts
<1>4. Fixed(Str(d)) /\ Size(Str(d)) = Size(Str(c))
  BY <1>1, SameSize DEF Stayed
<1> QED
  BY <1>2, <1>3, <1>4

\* Text comes behind the text in a buffer with room for it.
LEMMA FixedGrows ==
  ASSUME NEW c, NEW k, Edits(c, k), Fixed(Str(c)), NEW m \in Nat \ {0}, NEW n, n = Len(Text(c)) + m,
         n <= MaxLen, n <= Size(Str(c)), NEW d \in AddUndef(c, m)
  PROVE  /\ Stayed(c, k, d, n)
         /\ \A i \in 1 .. Len(Text(c)) : Text(d)[i] = Text(c)[i]
<1> DEFINE t == Text(c)
<1>1. /\ c.s \in Places /\ Str(c) = c.heap[c.s] /\ t = Str(c).text /\ SoundBlock(Str(c))
      /\ IsText(t) /\ Len(t) \in Nat /\ IsBlock(Str(c)) /\ Good(c, k)
  BY StrFacts DEF Edits
<1>2. n \in Nat
  BY <1>1
<1>3. RwMod(Str(c), n).can /\ ~RwMod(Str(c), n).alloc
  BY <1>1, <1>2, FixedRoom
<1>4. d \in Grow(c, RwMod(Str(c), n), m)
  BY DEF AddUndef
<1>5. PICK e : e = Done(c)
  OBVIOUS
<1>6. e.ok = TRUE /\ e.s = c.s /\ e.heap = c.heap /\ Str(e) = Str(c) /\ Text(e) = t
      /\ e = [heap |-> e.heap, s |-> e.s, n |-> e.n, ok |-> e.ok, wild |-> e.wild, conf |-> e.conf]
      /\ e.heap = [x \in Places |-> e.heap[x]]
  <2>1. Good(e, k)
    BY <1>1, <1>5, DoneGood
  <2> QED
    BY <1>1, <1>5, <2>1, DoneGood, GoodFacts
<1>7. d = SetLen(e, n)
  BY <1>3, <1>4, <1>5, <1>6 DEF Grow
<1>8. PICK u : u = NewLen(t, n)
  OBVIOUS
<1>9. d.s = c.s /\ d.heap[c.s] = [Str(c) EXCEPT !.text = u] /\ d.ok = TRUE
  <2>1. PICK w : w = Slice(e.heap[e.s].text, 0, IF n < Len(e.heap[e.s].text) THEN n ELSE Len(e.heap[e.s].text))
                     \o Junks(n - Len(e.heap[e.s].text))
    OBVIOUS
  <2>2. d = [Done(e) EXCEPT !.heap[e.s].text = w, !.wild = @ \/ Overhead(Str(e)) + n > Str(e).room]
    BY <1>6, <1>7, <2>1 DEF SetLen, Done
  <2>3. d.heap = [e.heap EXCEPT ![e.s] = [e.heap[e.s] EXCEPT !.text = w]] /\ d.s = e.s /\ d.ok = TRUE
    BY <1>6, <2>2 DEF Done
  <2>4. e.heap[e.s] = Str(c) /\ e.heap[e.s].text = t
    BY <1>1, <1>6
  <2>5. u = Slice(t, 0, IF n < Len(t) THEN n ELSE Len(t)) \o Junks(n - Len(t))
    BY <1>8 DEF NewLen
  <2>6. w = u
    BY <2>1, <2>4, <2>5
  <2>7. d.heap[e.s] = [Str(c) EXCEPT !.text = w]
    BY <1>1, <1>6, <2>3, <2>4
  <2> QED
    BY <1>6, <2>3, <2>6, <2>7
<1>10. Text(d) = u /\ Same(Str(c), Str(d))
  BY <1>1, <1>9 DEF Text, Str, Same, IsBlock
<1>11. \A i \in 1 .. Len(t) : u[i] = t[i]
  <2>1. ~(n < Len(t)) /\ n - Len(t) = m
    BY <1>1, <1>2
  <2>2. u = Slice(t, 0, Len(t)) \o Junks(m)
    BY <1>8, <2>1 DEF NewLen
  <2>3. PICK l \in Nat : l = Len(t)
    BY <1>1
  <2>12. PICK a, b : a = Slice(t, 0, Len(t)) /\ b = Junks(m)
    OBVIOUS
  <2>4. a = [i \in 1 .. l |-> t[0 + i]] /\ Len(a) = l /\ IsText(a)
    <3>4. PICK z \in Nat : z = 0
      OBVIOUS
    <3>5. PICK u0 : u0 = t
      OBVIOUS
    <3>1. z + l <= Len(u0) /\ ~(l < 0) /\ IsText(u0)
      BY <1>1, <2>3, <3>4, <3>5
    <3>2. Slice(u0, z, l) = [i \in 1 .. l |-> u0[z + i]]
      BY <3>1, SliceIs
    <3>3. IsText(Slice(u0, z, l)) /\ Len(Slice(u0, z, l)) = l
      BY <3>1, SliceText
    <3> QED
      BY <2>3, <2>12, <3>2, <3>3, <3>4, <3>5
  <2>5. IsText(b)
    BY <2>12, JunksText
  <2>6. \A i \in 1 .. l : (a \o b)[i] = a[i]
    <3>1. PICK A : a \in Seq(A)
      BY <2>4 DEF IsText
    <3>2. PICK B : b \in Seq(B)
      BY <2>5 DEF IsText
    <3>3. a \in Seq(A \cup B) /\ b \in Seq(A \cup B)
      BY <3>1, <3>2
    <3> QED
      BY <3>3, <2>4
  <2> QED
    BY <2>2, <2>3, <2>12, <2>4, <2>6
<1>12. Post(c, k, d) /\ Len(Text(d)) = n
  <2>1. Opened(c, k, d, n)
    <3>1. PICK l \in Nat : l = m
      OBVIOUS
    <3>2. d \in AddUndef(c, m) /\ Len(Text(c)) + m <= MaxLen
      OBVIOUS
    <3>3. Opened(c, k, d, Len(Text(c)) + m)
      BY <3>2, AddUndefGood
    <3> QED
      BY <3>3
  <2> QED
    BY <1>9, <2>1 DEF Opened, Came
<1> QED
  BY <1>9, <1>10, <1>11, <1>12 DEF Stayed

\* The characters of two texts in a row.
LEMMA JoinAt ==
  ASSUME NEW a, NEW b, IsText(a), IsText(b)
  PROVE  /\ \A i \in 1 .. Len(a) : (a \o b)[i] = a[i]
         /\ \A i \in 1 .. Len(b) : (a \o b)[Len(a) + i] = b[i]
<1>1. PICK A : a \in Seq(A)
  BY DEF IsText
<1>2. PICK B : b \in Seq(B)
  BY DEF IsText
<1>3. a \in Seq(A \cup B) /\ b \in Seq(A \cup B)
  BY <1>1, <1>2
<1> QED
  BY <1>3

\* What is behind the gap has moved by its length.
Behind(t, from, text, len) == \A i \in from + 1 .. Len(t) : t[i] = text[i - len]

\* What lies behind a gap.
LEMMA GapMoves ==
  ASSUME NEW text, IsText(text), NEW pos \in Nat, NEW clen \in Nat, pos <= clen, clen <= Len(text),
         NEW len \in Nat, NEW m \in Int, m = clen - pos,
         NEW t, t = Slice(text, 0, pos) \o Junks(len) \o Slice(text, pos, m)
  PROVE  Behind(t, pos + len, text, len)
<1>1. Len(text) \in Nat /\ m \in Nat /\ pos + m <= Len(text)
  BY TextIsFunction
<1>2. IsText(Slice(text, 0, pos)) /\ Len(Slice(text, 0, pos)) = pos
  <2>1. 0 + pos <= Len(text) /\ ~(pos < 0)
    BY <1>1
  <2> QED
    BY <2>1, SliceText
<1>3. IsText(Junks(len)) /\ Len(Junks(len)) = len
  BY JunksText
<1>4. IsText(Slice(text, pos, m)) /\ Len(Slice(text, pos, m)) = m
  BY <1>1, SliceText
<1>5. Slice(text, pos, m) = [i \in 1 .. m |-> text[pos + i]]
  <2>1. PICK w \in Nat : w = m
    BY <1>1
  <2>2. pos + w <= Len(text)
    BY <1>1, <2>1
  <2>3. Slice(text, pos, w) = [i \in 1 .. w |-> text[pos + i]]
    BY <2>2, SliceIs
  <2> QED
    BY <2>1, <2>3
<1>6. PICK a, b, e : a = Slice(text, 0, pos) /\ b = Junks(len) /\ e = Slice(text, pos, m)
  OBVIOUS
<1>7. PICK h : h = a \o b
  OBVIOUS
<1>8. IsText(h) /\ Len(h) = pos + len
  BY <1>2, <1>3, <1>6, <1>7, JoinText
<1>9. t = h \o e /\ IsText(e) /\ Len(e) = m /\ e = [i \in 1 .. m |-> text[pos + i]]
  BY <1>4, <1>5, <1>6, <1>7
<1>10. Len(t) = (pos + len) + m
  BY <1>8, <1>9, JoinText
<1>11. \A i \in 1 .. m : t[(pos + len) + i] = e[i]
  <2>1. \A i \in 1 .. Len(e) : (h \o e)[Len(h) + i] = e[i]
    BY <1>8, <1>9, JoinAt
  <2> QED
    BY <1>8, <1>9, <2>1
<1>12. ASSUME NEW i \in pos + len + 1 .. Len(t) PROVE t[i] = text[i - len]
  <2>1. i - (pos + len) \in 1 .. m
    BY <1>10, <1>12
  <2>2. PICK j \in 1 .. m : j = i - (pos + len)
    BY <2>1
  <2>3. t[(pos + len) + j] = text[pos + j]
    BY <1>9, <1>11
  <2>4. (pos + len) + j = i /\ pos + j = i - len
    BY <2>2, <1>12
  <2> QED
    BY <2>3, <2>4
<1> QED
  BY <1>12 DEF Behind

\* Other text of the same length.
LEMMA RewriteSame ==
  ASSUME NEW c, NEW k, Edits(c, k), ~Ro(Str(c)), NEW t, IsText(t), Len(t) = Len(Text(c)),
         NEW d, d = [c EXCEPT !.heap[c.s].text = t]
  PROVE  Post(c, k, d) /\ d.ok = c.ok /\ d.s = c.s /\ Text(d) = t /\ Same(Str(c), Str(d))
<1>1. SoundBlock(Str(c)) /\ Str(c) = c.heap[c.s] /\ Text(c) = Str(c).text /\ IsBlock(Str(c))
  BY StrFacts
<1> DEFINE b == [Str(c) EXCEPT !.text = t]
<1>2. /\ SoundBlock(b) /\ b.kind = Str(c).kind /\ b.rb = Str(c).rb /\ b.ref = Str(c).ref /\ b.text = t
  BY <1>1, SameLengthSound
<1>3. d = [c EXCEPT !.heap = [c.heap EXCEPT ![c.s] = b]]
  BY <1>1
<1>5. Same(Str(c), b)
  BY <1>1 DEF Same, IsBlock
<1> HIDE DEF b
<1>4. Post(c, k, d) /\ d.ok = c.ok /\ d.s = c.s /\ Str(d) = b /\ Text(d) = b.text
  BY <1>2, <1>3, PutGood
<1> QED
  BY <1>2, <1>4, <1>5

\* Sameness carries over.
LEMMA SameTrans ==
  ASSUME NEW a, NEW b, NEW d, Same(a, b), Same(b, d)
  PROVE  Same(a, d)
BY DEF Same

\* A gap is made in a buffer of the caller.
Gapped(c, k, d, n, from, len) == Stayed(c, k, d, n) /\ Behind(Text(d), from, Text(c), len)

\* A gap opens in a buffer with room for it.
LEMMA FixedGap ==
  ASSUME NEW c, NEW k, Edits(c, k), Fixed(Str(c)), NEW pos \in Nat, NEW len \in Nat \ {0},
         pos <= Len(Text(c)), NEW n, n = Len(Text(c)) + len, n <= MaxLen, n <= Size(Str(c)),
         NEW d \in InsUndef(c, pos, len)
  PROVE  Gapped(c, k, d, n, pos + len, len)
<1>1. /\ SoundBlock(Str(c)) /\ Text(c) = Str(c).text /\ IsText(Text(c)) /\ Len(Text(c)) \in Nat
  BY StrFacts
<1>2. PICK clen \in Nat : clen = Len(Str(c).text)
  BY <1>1
<1>3. n = clen + len /\ n \in Nat /\ ~(pos > clen) /\ pos <= clen /\ len # 0
  BY <1>1, <1>2
<1>4. RwMod(Str(c), n).can
  BY <1>1, <1>3, FixedRoom
<1> DEFINE Gap(text) == Slice(text, 0, pos) \o Junks(len) \o Slice(text, pos, clen - pos)
<1>5. PICK e \in AddUndef(c, len) : d = IF e.ok THEN [e EXCEPT !.heap[e.s].text = Gap(@)] ELSE e
  BY <1>2, <1>3, <1>4 DEF InsUndef
<1>6. /\ Stayed(c, k, e, n)
      /\ \A i \in 1 .. clen : Text(e)[i] = Text(c)[i]
  <2>1. /\ Stayed(c, k, e, n)
        /\ \A i \in 1 .. Len(Text(c)) : Text(e)[i] = Text(c)[i]
    BY FixedGrows
  <2> QED
    BY <1>1, <1>2, <2>1
<1>7. /\ Edits(e, k) /\ Fixed(Str(e)) /\ e.ok /\ e.s = c.s /\ IsText(Text(e)) /\ Len(Text(e)) = n
      /\ Text(e) = Str(e).text /\ Str(e) = e.heap[e.s]
  BY <1>6, StayedParts
<1>8. PICK u : u = Text(e)
  OBVIOUS
<1>9. PICK m \in Int : m = clen - pos
  OBVIOUS
<1>10. PICK t : t = Slice(u, 0, pos) \o Junks(len) \o Slice(u, pos, m)
  OBVIOUS
<1>11. IsText(u) /\ clen <= Len(u) /\ Len(u) = clen + len
  BY <1>3, <1>7, <1>8
<1>12. GapIn(t, clen + len)
  BY <1>3, <1>9, <1>10, <1>11, GapText
<1>13. Behind(t, pos + len, u, len)
  BY <1>3, <1>9, <1>10, <1>11, GapMoves
<1>14. IsText(t) /\ Len(t) = n
  BY <1>3, <1>12 DEF GapIn
<1>15. d = [e EXCEPT !.heap[e.s].text = t]
  BY <1>5, <1>7, <1>8, <1>9, <1>10
<1>16. ~Ro(Str(e))
  BY <1>7 DEF Ro, Fixed
<1>17. Post(e, k, d) /\ d.ok = e.ok /\ d.s = e.s /\ Text(d) = t /\ Same(Str(e), Str(d))
  BY ZenonT(40), <1>7, <1>14, <1>15, <1>16, RewriteSame
<1>18. Post(c, k, d) /\ d.ok /\ d.s = c.s /\ Same(Str(c), Str(d))
  BY <1>6, <1>7, <1>17, PostTrans, SameTrans DEF Stayed
<1>19. Behind(t, pos + len, Text(c), len)
  <2>1. ASSUME NEW i \in pos + len + 1 .. Len(t) PROVE t[i] = Text(c)[i - len]
    <3>1. t[i] = u[i - len]
      BY <1>13, <2>1 DEF Behind
    <3>2. i - len \in 1 .. clen
      BY <1>3, <1>14, <2>1
    <3> QED
      BY <1>6, <1>8, <3>1, <3>2
  <2> QED
    BY <2>1 DEF Behind
<1> QED
  BY <1>14, <1>17, <1>18, <1>19 DEF Gapped, Stayed

\* Characters make way for more of them.
LEMMA FixedPut ==
  ASSUME NEW c, NEW k, Edits(c, k), Fixed(Str(c)), NEW pos \in Nat \ {0}, NEW olen \in Nat \ {0},
         NEW len \in Nat, olen < len, pos - 1 + olen <= Len(Text(c)),
         NEW n, n = Len(Text(c)) + len - olen, n <= MaxLen, n <= Size(Str(c)),
         NEW src, HeldSrc(c, k, src), NEW d \in ScSubBuf(c, pos, olen, src, len)
  PROVE  Gapped(c, k, d, n, pos - 1 + len, len - olen)
<1>1. /\ Text(c) = Str(c).text /\ IsText(Text(c)) /\ Len(Text(c)) \in Nat
  BY StrFacts
<1>2. PICK m \in Nat \ {0}, p \in Nat : m = len - olen /\ p = pos + olen - 1
  <2>1. len - olen \in Nat \ {0} /\ pos + olen - 1 \in Nat
    OBVIOUS
  <2> QED
    BY <2>1
<1>3. GoodSub(Text(c), pos, olen)
  <2>1. Len(Text(c)) >= pos /\ Len(Text(c)) >= olen + pos - 1 /\ Len(Text(c)) # 0
    BY <1>1
  <2>2. Text(c) # <<>>
    BY <1>1, <2>1, EmptyText
  <2> QED
    BY <2>1, <2>2 DEF GoodSub, ValidSub
<1>4. ScSubUndef(c, pos, olen, len) = InsUndef(c, p, m)
  <2>1. len # olen /\ ~(len < olen) /\ olen # 0
    OBVIOUS
  <2> QED
    BY <1>2, <1>3, <2>1 DEF ScSubUndef
<1>5. PICK e \in InsUndef(c, p, m) : d \in IF e.ok THEN SubBuf(e, pos, src, len) ELSE {e}
  BY <1>4 DEF ScSubBuf
<1>6. Gapped(c, k, e, n, p + m, m)
  <2>1. p <= Len(Text(c)) /\ n = Len(Text(c)) + m
    BY <1>1, <1>2
  <2> QED
    BY <2>1, FixedGap
<1>7. /\ Edits(e, k) /\ Fixed(Str(e)) /\ e.ok /\ e.s = c.s /\ IsText(Text(e)) /\ Len(Text(e)) = n
      /\ Stayed(c, k, e, n) /\ Behind(Text(e), p + m, Text(c), m) /\ Good(e, k)
  <2>1. Stayed(c, k, e, n) /\ Behind(Text(e), p + m, Text(c), m)
    BY <1>6 DEF Gapped
  <2>2. Edits(e, k) /\ Fixed(Str(e)) /\ e.ok /\ e.s = c.s /\ IsText(Text(e)) /\ Len(Text(e)) = n
    BY <2>1, StayedParts
  <2> QED
    BY <2>1, <2>2 DEF Edits
<1>8. n \in Nat /\ ~(n - (pos - 1) < len) /\ pos - 1 + len <= n /\ len # 0 /\ n # 0
      /\ n >= pos /\ n >= 1 + pos - 1
  BY <1>1, <1>2
<1>9. GoodSub(Text(e), pos, 1)
  <2>1. Text(e) # <<>>
    BY <1>7, <1>8, EmptyText
  <2> QED
    BY <1>7, <1>8, <2>1 DEF GoodSub, ValidSub
<1>10. SubUndef(e, pos, len) = {Done(e)}
  <2>1. SubUndef(e, pos, len) = EnsureOwner(e)
    BY <1>7, <1>8, <1>9 DEF SubUndef
  <2> QED
    BY <1>7, <2>1 DEF EnsureOwner, Owner
<1>11. PICK f : f = Done(e)
  OBVIOUS
<1>12. /\ Good(f, k) /\ Edits(f, k) /\ f.ok /\ f.s = e.s /\ Str(f) = Str(e) /\ Text(f) = Text(e)
       /\ Post(e, k, f)
  BY <1>7, <1>11, DoneGood
<1>13. PICK o \in Int : o = pos - 1
  OBVIOUS
<1>14. d = Memcpy(f, o, src, len)
  BY <1>5, <1>7, <1>10, <1>11, <1>12, <1>13 DEF SubBuf
<1>15. Post(c, k, f) /\ Kept(c, f)
  <2>1. Post(c, k, e)
    BY <1>7 DEF Stayed
  <2> QED
    BY <1>12, <2>1, PostTrans DEF Post
<1>16. SrcOK(f, src)
  BY <1>12, <1>15, HeldStays
<1>17. ~Ro(Str(f)) /\ o + len <= Len(Text(f))
  BY <1>7, <1>8, <1>12, <1>13 DEF Ro, Fixed
<1>18. /\ Post(f, k, d) /\ d.ok = f.ok /\ d.s = f.s
       /\ Len(Text(d)) = Len(Text(f))
       /\ len # 0 => Str(d) = [Str(f) EXCEPT !.text = [i \in 1 .. Len(Text(f)) |->
                 IF i > o /\ i <= o + len THEN Bytes(f, src, len)[i - o] ELSE Text(f)[i]]]
  <2>1. len # 0 => SrcOK(f, src) /\ o + len <= Len(Text(f)) /\ ~Ro(Str(f))
    BY <1>16, <1>17
  <2>2. Edits(f, k)
    BY <1>12
  <2> QED
    BY <2>1, <2>2, <1>14, MemcpyGood
<1>19. PICK t : t = [i \in 1 .. n |-> IF i > o /\ i <= o + len THEN Bytes(f, src, len)[i - o]
                                      ELSE Text(f)[i]]
  OBVIOUS
<1>20. Str(d) = [Str(f) EXCEPT !.text = t]
  BY <1>7, <1>8, <1>12, <1>18, <1>19
<1>21. IsBlock(Str(f))
  BY <1>12, StrFacts
<1>22. Text(d) = t /\ Same(Str(f), Str(d))
  BY <1>20, <1>21 DEF Text, Same, IsBlock
<1>23. Stayed(c, k, d, n)
  <2>1. Post(c, k, d)
    BY <1>15, <1>18, PostTrans
  <2>2. Same(Str(c), Str(d))
    BY <1>7, <1>12, <1>22, SameTrans DEF Stayed
  <2> QED
    BY <1>7, <1>12, <1>18, <2>1, <2>2 DEF Stayed
<1>24. Behind(Text(d), pos - 1 + len, Text(c), len - olen)
  <2>1. ASSUME NEW i \in pos - 1 + len + 1 .. Len(Text(d)) PROVE Text(d)[i] = Text(c)[i - (len - olen)]
    <3>1. i \in 1 .. n /\ ~(i <= o + len) /\ i \in p + m + 1 .. n
      <4>1. Len(Text(d)) = n
        BY <1>7, <1>12, <1>18
      <4>2. i \in o + len + 1 .. n
        BY <4>1, <1>13, <2>1
      <4>3. p + m = o + len /\ o + len \in Nat
        BY <1>2, <1>13
      <4> QED
        BY <1>8, <4>2, <4>3
    <3>2. t[i] = Text(f)[i]
      BY <1>19, <3>1
    <3>3. Text(e)[i] = Text(c)[i - m]
      BY <1>7, <3>1 DEF Behind
    <3> QED
      BY <1>2, <1>12, <1>22, <3>2, <3>3
  <2> QED
    BY <2>1 DEF Behind
<1> QED
  BY <1>23, <1>24 DEF Gapped

InlineAll(S, old, new) == UNION {InlineRound(r, old, new) : r \in S}

\* The rounds in place are what their definition says.
LEMMA InlineDefined ==
  ASSUME NEW c, IsText(Text(c)), NEW old, NEW new, NEW lim \in Nat,
         NEW R, R = InlineRounds(c, old, new, lim), NEW N, N = Limit(Text(c), lim)
  PROVE  /\ R[0] = {[c |-> c, off |-> 0]}
         /\ \A i \in 1 .. N : R[i] = InlineAll(R[i - 1], old, new)
<1> DEFINE base == {[c |-> c, off |-> 0]}
           F(f, m) == f = [i \in 0 .. m |-> IF i = 0 THEN base
                                            ELSE InlineAll(f[i - 1], old, new)]
           T == {m \in 0 .. N : \E f : F(f, m)}
<1>1. N \in Nat
  <2>1. PICK text : text = Text(c)
    OBVIOUS
  <2> QED
    BY <2>1, LimitNat
<1>2. 0 \in T
  <2> DEFINE h == [i \in 0 .. 0 |-> base]
  <2>1. h = [i \in 0 .. 0 |-> IF i = 0 THEN base ELSE InlineAll(h[i - 1], old, new)]
    OBVIOUS
  <2> HIDE DEF h
  <2>2. F(h, 0)
    BY <2>1
  <2> QED
    BY <1>1, <2>2
<1>3. ASSUME NEW m \in 0 .. N - 1, m \in T PROVE m + 1 \in T
  <2>1. PICK g : F(g, m)
    BY <1>3
  <2> DEFINE h == [i \in 0 .. m + 1 |-> IF i = m + 1 THEN InlineAll(g[m], old, new) ELSE g[i]]
  <2>2. \A i \in 0 .. m + 1 : h[i] = IF i = 0 THEN base ELSE InlineAll(h[i - 1], old, new)
    <3> TAKE i \in 0 .. m + 1
    <3>1. CASE i = m + 1
      <4>1. i # 0 /\ i - 1 = m /\ m \in 0 .. m + 1 /\ m # m + 1
        BY <3>1
      <4>2. h[i] = InlineAll(g[m], old, new) /\ h[m] = g[m]
        BY <3>1, <4>1
      <4> QED
        BY <4>1, <4>2
    <3>2. CASE i \in 0 .. m
      <4>1. i # m + 1 /\ (i # 0 => i - 1 \in 0 .. m + 1 /\ i - 1 # m + 1)
        BY <3>2
      <4>2. h[i] = g[i] /\ (i # 0 => h[i - 1] = g[i - 1])
        BY <4>1
      <4>3. g[i] = IF i = 0 THEN base ELSE InlineAll(g[i - 1], old, new)
        BY <2>1, <3>2
      <4> QED
        BY <4>2, <4>3
    <3> QED
      BY <3>1, <3>2
  <2>3. h = [i \in 0 .. m + 1 |-> h[i]]
    OBVIOUS
  <2> HIDE DEF h
  <2>4. F(h, m + 1)
    BY <2>2, <2>3
  <2>5. m + 1 \in 0 .. N
    BY <1>1
  <2> QED
    BY <2>4, <2>5
<1> HIDE DEF T
<1>4. 0 .. N \subseteq T
  BY <1>1, <1>2, <1>3, UpTo
<1>5. \E f : F(f, N)
  BY <1>1, <1>4 DEF T
<1>6. R = CHOOSE f : F(f, N)
  BY DEF InlineRounds, InlineAll
<1> HIDE DEF F
<1>7. F(R, N)
  BY <1>5, <1>6
<1>8. R = [i \in 0 .. N |-> IF i = 0 THEN base ELSE InlineAll(R[i - 1], old, new)]
  BY <1>7 DEF F
<1> HIDE DEF base
<1>9. R[0] = base
  <2>1. 0 \in 0 .. N
    BY <1>1
  <2> QED
    BY <1>8, <2>1
<1>10. ASSUME NEW i \in 1 .. N PROVE R[i] = InlineAll(R[i - 1], old, new)
  <2>1. i \in 0 .. N /\ i # 0
    BY <1>1
  <2> QED
    BY <1>8, <2>1
<1> QED
  BY <1>9, <1>10 DEF base

\* Less takes the place of more.
LEMMA InlineRoundShrinks ==
  ASSUME NEW c, NEW k, NEW r, Post(c, k, r.c), r.off \in Nat, NEW old, IsText(old), Len(old) # 0,
         NEW new, IsText(new), Len(new) <= Len(old), NEW s \in InlineRound(r, old, new)
  PROVE  Post(c, k, s.c) /\ s.off \in Nat
<1>1. PICK e : e = r.c
  OBVIOUS
<1>2. Edits(e, k) /\ IsText(Text(e)) /\ Len(Text(e)) \in Nat /\ Len(Text(e)) <= MaxLen
  BY <1>1, StrFacts DEF Post
<1>3. PICK p : p = Find(Text(e), r.off, old)
  OBVIOUS
<1>9. PICK u : u = Text(e)
  OBVIOUS
<1>4. PICK o \in Nat : u = Text(e) /\ o = r.off
  BY <1>9
<1>5. First(u, o, old, p)
  BY <1>2, <1>3, <1>4, FindFacts
<1>6. CASE p = 0
  BY <1>1, <1>3, <1>6 DEF InlineRound
<1>7. CASE p # 0
  <2>1. p \in Nat \ {0}
    BY <1>5, <1>7 DEF First
  <2>2. PICK l \in Nat, w \in Nat : l = Len(old) /\ w = Len(new)
    BY TextIsFunction
  <2>3. PICK d \in ScSubBuf(e, p, l, Buf(new), w) : s = [c |-> d, off |-> p - 1 + w]
    BY <1>1, <1>3, <1>7, <2>2 DEF InlineRound
  <2>4. PICK n : n = Len(Text(e)) + w - l
    OBVIOUS
  <2>5. n <= MaxLen
    BY <1>2, <2>2, <2>4, MaxLenNat
  <2>6. PICK src : src = Buf(new)
    OBVIOUS
  <2>7. HeldSrc(e, k, src)
    BY <2>6, SrcForms
  <2>8. Came(e, k, d, n)
    BY <1>2, <2>1, <2>3, <2>4, <2>5, <2>6, <2>7, ScSubBufGood
  <2>9. Post(e, k, d)
    BY <2>8, CameParts
  <2>10. Post(c, k, d)
    BY <1>1, <2>9, PostTrans
  <2>11. p - 1 + w \in Nat
    BY <2>1
  <2> QED
    BY <2>3, <2>10, <2>11
<1> QED
  BY <1>6, <1>7

\* Replacing in place by text that is no longer.
LEMMA InlineShrinks ==
  ASSUME NEW c, NEW k, Edits(c, k), NEW old, IsText(old), Len(old) # 0,
         NEW new, IsText(new), Len(new) <= Len(old), NEW lim \in Nat,
         NEW d \in ReplaceInline(c, old, new, lim)
  PROVE  Post(c, k, d)
<1>1. IsText(Text(c))
  BY StrFacts
<1>2. Limit(Text(c), lim) \in Nat
  <2>1. PICK text : text = Text(c)
    OBVIOUS
  <2> QED
    BY <1>1, <2>1, LimitNat
<1>3. PICK N \in Nat : N = Limit(Text(c), lim)
  BY <1>2
<1>4. PICK R : R = InlineRounds(c, old, new, lim)
  OBVIOUS
<1>5. PICK r \in R[N] : d = Done(r.c)
  BY <1>3, <1>4 DEF ReplaceInline
<1>6. R[0] = {[c |-> c, off |-> 0]}
  BY <1>1, <1>3, <1>4, InlineDefined
<1>7. \A i \in 1 .. N : R[i] = InlineAll(R[i - 1], old, new)
  BY <1>1, <1>3, <1>4, InlineDefined
<1> DEFINE T == {i \in 0 .. N : \A s \in R[i] : Post(c, k, s.c) /\ s.off \in Nat}
<1>8. 0 \in T
  BY <1>6, PostSelf
<1>9. \A i \in 0 .. N - 1 : i \in T => i + 1 \in T
  <2> SUFFICES ASSUME NEW i \in 0 .. N - 1, i \in T PROVE i + 1 \in T
    OBVIOUS
  <2>1. i + 1 \in 1 .. N /\ (i + 1) - 1 = i /\ i + 1 \in 0 .. N
    OBVIOUS
  <2>2. R[i + 1] = InlineAll(R[i], old, new)
    BY <1>7, <2>1
  <2>3. ASSUME NEW s \in R[i + 1] PROVE Post(c, k, s.c) /\ s.off \in Nat
    <3>1. PICK q \in R[i] : s \in InlineRound(q, old, new)
      BY <2>2 DEF InlineAll
    <3>2. Post(c, k, q.c) /\ q.off \in Nat
      OBVIOUS
    <3> QED
      BY <3>1, <3>2, InlineRoundShrinks
  <2> QED
    BY <2>1, <2>3
<1> HIDE DEF T
<1>10. 0 .. N \subseteq T
  BY <1>8, <1>9, UpTo
<1>11. Post(c, k, r.c)
  BY <1>5, <1>10 DEF T
<1>12. PICK e : e = r.c
  OBVIOUS
<1>13. Edits(e, k) /\ Good(e, k)
  BY <1>11, <1>12 DEF Post, Edits
<1>14. Post(e, k, d)
  BY <1>5, <1>12, <1>13, DoneGood
<1> QED
  BY <1>11, <1>12, <1>14, PostTrans

\* More replacements add more.
LEMMA GainGrows ==
  ASSUME NEW old, IsText(old), NEW new, IsText(new), Len(old) < Len(new),
         NEW a \in Nat, NEW b \in Nat, a <= b
  PROVE  Gain(a, old, new) <= Gain(b, old, new)
<1>1. Len(old) \in Nat /\ Len(new) \in Nat
  BY TextIsFunction
<1>2. PICK d \in Nat : d = Len(new) - Len(old)
  BY <1>1
<1>3. PICK e \in Nat : b = a + e
  <2>1. b - a \in Nat /\ b = a + (b - a)
    OBVIOUS
  <2> QED
    BY <2>1
<1>4. \A x, y, z \in Nat : (x + y) * z = x * z + y * z /\ y * z >= 0 /\ x * z \in Nat /\ y * z \in Nat
  OBVIOUS
<1>5. (a + e) * d = a * d + e * d /\ e * d >= 0 /\ a * d \in Nat /\ e * d \in Nat
  BY <1>4
<1>6. a * d <= b * d
  BY <1>3, <1>5
<1> QED
  BY <1>2, <1>6 DEF Gain

\* The size of a buffer is a number.
LEMMA FixedSizeInt ==
  ASSUME NEW b, SoundBlock(b), Fixed(b)
  PROVE  Size(b) \in Int
<1>1. b.sized /\ b.kind = "fixed"
  BY DEF SoundBlock, IsBlock, Fixed
<1>2. Overhead(b) \in Nat /\ b.sz \in Nat /\ b.sz # 0
  BY <1>1, WritableParts
<1> QED
  BY <1>1, <1>2 DEF Size, SizeAlloc

\* The text in place, and where the search is in it, are those of the scan.
InPlace(c, k, r, text, q, old, new) ==
  /\ Post(c, k, r.c) /\ Fixed(Str(r.c)) /\ Size(Str(r.c)) = Size(Str(c))
  /\ r.off \in Nat /\ r.off <= Len(Text(r.c))
  /\ SameEnds(Text(r.c), r.off, text, q.off)
  /\ Len(Text(r.c)) = Len(text) + Gain(q.num, old, new)

\* One replacement in place by longer text.
LEMMA InlineRoundGrows ==
  ASSUME NEW c, NEW k, Edits(c, k), NEW text, IsText(text),
         NEW old, IsText(old), Len(old) # 0, NEW new, IsText(new), Len(old) < Len(new),
         NEW q, ScanOK(text, old, new, q), NEW v, v = ScanRound(q, text, old, new),
         NEW r, InPlace(c, k, r, text, q, old, new), NEW s \in InlineRound(r, old, new),
         Len(text) + Gain(v.num, old, new) <= MaxLen,
         Len(text) + Gain(v.num, old, new) <= Size(Str(c))
  PROVE  InPlace(c, k, s, text, v, old, new)
<1>1. PICK e, u : e = r.c /\ u = Text(e)
  OBVIOUS
<1>2. PICK z : z = Gain(q.num, old, new)
  OBVIOUS
<1>3. /\ Post(c, k, e) /\ Edits(e, k) /\ Fixed(Str(e)) /\ Size(Str(e)) = Size(Str(c))
      /\ r.off \in Nat /\ r.off <= Len(u) /\ SameEnds(u, r.off, text, q.off)
      /\ Len(u) = Len(text) + z
  BY <1>1, <1>2 DEF InPlace, Post
<1>4. IsText(u) /\ Len(u) \in Nat /\ Len(text) \in Nat
  BY <1>1, <1>3, StrFacts, TextIsFunction
<1>5. q.off \in Nat /\ q.num \in Nat
  BY DEF ScanOK
<1>6. PICK o1 \in Nat, o2 \in Nat, num \in Nat : o1 = r.off /\ o2 = q.off /\ num = q.num
  BY <1>3, <1>5
<1>7. PICK p, b : p = Find(u, o1, old) /\ b = Find(text, o2, old)
  OBVIOUS
<1>8. SameEnds(u, o1, text, o2)
  BY <1>3, <1>6
<1>9. First(u, o1, old, p)
  BY <1>4, <1>7, FindFacts
<1>10. (p = 0 <=> b = 0) /\ (p # 0 => p - o1 = b - o2)
  BY <1>4, <1>7, <1>8, FindMoves
<1>11. CASE p = 0
  <2>1. s = r /\ v = q
    BY <1>1, <1>6, <1>7, <1>10, <1>11 DEF InlineRound, ScanRound
  <2> QED
    BY <2>1
<1>12. CASE p # 0
  <2>1. p \in Nat \ {0} /\ p > o1 /\ p - 1 + Len(old) <= Len(u)
    BY <1>9, <1>12 DEF First
  <2>2. PICK l \in Nat \ {0}, w \in Nat : l = Len(old) /\ w = Len(new)
    BY TextIsFunction
  <2>3. PICK d \in ScSubBuf(e, p, l, Buf(new), w) : s = [c |-> d, off |-> p - 1 + w]
    BY <1>1, <1>6, <1>7, <1>12, <2>2 DEF InlineRound
  <2>4. v.off = b - 1 + l /\ v.num = num + 1
    BY <1>6, <1>7, <1>10, <1>12, <2>2 DEF ScanRound
  <2>5. z \in Int /\ Gain(num + 1, old, new) = z + w - l
    <3>1. Gain(num, old, new) \in Int /\ Gain(num + 1, old, new) = Gain(num, old, new) + Len(new) - Len(old)
      BY GainFacts
    <3> QED
      BY <1>2, <1>6, <2>2, <3>1
  <2>6. PICK n : n = Len(u) + w - l
    OBVIOUS
  <2>7. n = Len(text) + Gain(v.num, old, new)
    BY <1>3, <1>4, <2>2, <2>4, <2>5, <2>6
  <2>8. n <= MaxLen /\ n <= Size(Str(e))
    BY <1>3, <2>7
  <2>9. PICK src : src = Buf(new)
    OBVIOUS
  <2>10. HeldSrc(e, k, src)
    BY <2>9, SrcForms
  <2>11. Gapped(e, k, d, n, p - 1 + w, w - l)
    <3>1. l < w /\ p - 1 + l <= Len(Text(e)) /\ n = Len(Text(e)) + w - l
      BY <1>1, <2>1, <2>2, <2>6
    <3> QED
      BY <1>3, <2>1, <2>3, <2>8, <2>9, <2>10, <3>1, FixedPut
  <2>12. Stayed(e, k, d, n) /\ Behind(Text(d), p - 1 + w, u, w - l)
    BY <1>1, <2>11 DEF Gapped
  <2>13. /\ Fixed(Str(d)) /\ Size(Str(d)) = Size(Str(e)) /\ IsText(Text(d)) /\ Len(Text(d)) = n
    BY <1>3, <2>12, StayedParts
  <2>14. Post(c, k, d)
    <3>1. Post(e, k, d)
      BY <2>12 DEF Stayed
    <3> QED
      BY <1>3, <3>1, PostTrans
  <2>15. p - 1 + w \in Nat /\ p - 1 + w <= n
    BY <1>4, <2>1, <2>2, <2>6
  <2>16. Len(u) - o1 = Len(text) - o2
    BY <1>8 DEF SameEnds
  <2>17. p - o1 = b - o2 /\ b \in Int
    <3>1. First(text, o2, old, b)
      BY <1>7, FindFacts
    <3> QED
      BY <1>10, <1>12, <3>1 DEF First
  <2>18. n - (p - 1 + w) = Len(text) - (b - 1 + l)
    BY <1>4, <2>1, <2>2, <2>6, <2>16, <2>17
  <2>19. ASSUME NEW j \in 1 .. n - (p - 1 + w)
         PROVE  Text(d)[(p - 1 + w) + j] = text[(b - 1 + l) + j]
    <3>1. (p - 1 + w) + j \in p - 1 + w + 1 .. n
      BY <1>4, <2>1, <2>2, <2>6, <2>15
    <3>2. PICK i \in p - 1 + w + 1 .. n : i = (p - 1 + w) + j
      BY <3>1
    <3>3. Text(d)[i] = u[i - (w - l)]
      BY <2>12, <2>13 DEF Behind
    <3>4. i - (w - l) = p - 1 + l + j
      BY <2>1, <2>2, <3>2
    <3>5. p - 1 + l + j - o1 \in 1 .. Len(u) - o1
      BY <1>4, <2>1, <2>2, <2>6
    <3>6. PICK m \in 1 .. Len(u) - o1 : m = p - 1 + l + j - o1
      BY <3>5
    <3>7. u[o1 + m] = text[o2 + m]
      BY <1>8 DEF SameEnds
    <3>8. o1 + m = p - 1 + l + j
      BY <2>1, <3>6
    <3>9. o2 + m = (b - 1 + l) + j
      BY <2>1, <2>17, <3>6
    <3> QED
      BY <3>2, <3>3, <3>4, <3>7, <3>8, <3>9
  <2>20. SameEnds(Text(d), p - 1 + w, text, b - 1 + l)
    BY <2>13, <2>18, <2>19 DEF SameEnds
  <2>21. s.c = d /\ s.off = p - 1 + w
    BY <2>3
  <2> QED
    BY <1>3, <2>4, <2>7, <2>13, <2>14, <2>15, <2>20, <2>21 DEF InPlace
<1> QED
  BY <1>11, <1>12

\* Replacing in place by longer text.
LEMMA InlineGrows ==
  ASSUME NEW c, NEW k, Edits(c, k), Fixed(Str(c)), NEW old, IsText(old), Len(old) # 0,
         NEW new, IsText(new), Len(old) < Len(new), NEW lim \in Nat,
         NEW total, total = Spliced(Text(c), old, new, lim),
         Len(total) <= MaxLen, Len(total) <= Size(Str(c)),
         NEW d \in ReplaceInline(c, old, new, lim)
  PROVE  Post(c, k, d)
<1>1. PICK text : text = Text(c)
  OBVIOUS
<1>2. IsText(text) /\ Len(text) \in Nat
  BY <1>1, StrFacts
<1>3. Limit(text, lim) \in Nat
  BY <1>2, LimitNat
<1>4. PICK N \in Nat : N = Limit(text, lim)
  BY <1>3
<1>5. PICK R, Q : R = InlineRounds(c, old, new, lim) /\ Q = ScanRounds(text, old, new, lim)
  OBVIOUS
<1>6. PICK r \in R[N] : d = Done(r.c)
  BY <1>1, <1>4, <1>5 DEF ReplaceInline
<1>7. R[0] = {[c |-> c, off |-> 0]}
  BY <1>1, <1>2, <1>4, <1>5, InlineDefined
<1>8. \A i \in 1 .. N : R[i] = InlineAll(R[i - 1], old, new)
  BY <1>1, <1>2, <1>4, <1>5, InlineDefined
<1>9. Q[0] = [off |-> 0, num |-> 0, out |-> <<>>]
  BY <1>2, <1>4, <1>5, ScanDefined
<1>10. \A i \in 1 .. N : Q[i] = ScanRound(Q[i - 1], text, old, new)
  BY <1>2, <1>4, <1>5, ScanDefined
<1>11. \A i \in 0 .. N : ScanOK(text, old, new, Q[i]) /\ Q[i].num <= Q[N].num
  BY <1>2, <1>4, <1>5, ScanAllOK
<1>12. Q[N] = Scan(text, old, new, lim)
  BY <1>4, <1>5 DEF Scan
<1>13. IsText(total) /\ Len(total) = Len(text) + Gain(Q[N].num, old, new)
  <2>1. PICK e : e = Scan(text, old, new, lim)
    OBVIOUS
  <2>2. total = Spliced(text, old, new, lim)
    BY <1>1
  <2>3. TextGains(total, text, e.num, old, new)
    BY <1>2, <2>1, <2>2, SplicedText
  <2> QED
    BY <1>12, <2>1, <2>3 DEF TextGains
<1>14. ASSUME NEW i \in 0 .. N
       PROVE  Len(text) + Gain(Q[i].num, old, new) <= Len(total)
  <2>1. Q[i].num \in Nat /\ Q[N].num \in Nat /\ Q[i].num <= Q[N].num
    BY <1>11 DEF ScanOK
  <2>2. PICK a \in Nat, b \in Nat : a = Q[i].num /\ b = Q[N].num
    BY <2>1
  <2>3. Gain(a, old, new) <= Gain(b, old, new)
    BY <2>1, <2>2, GainGrows
  <2>4. Gain(a, old, new) \in Int /\ Gain(b, old, new) \in Int
    <3>1. Gain(a, old, new) \in Int
      BY GainFacts
    <3>2. Gain(b, old, new) \in Int
      BY GainFacts
    <3> QED
      BY <3>1, <3>2
  <2>5. PICK x \in Int, y \in Int : x = Gain(a, old, new) /\ y = Gain(b, old, new)
    BY <2>4
  <2> QED
    BY <1>2, <1>13, <2>2, <2>3, <2>5
<1> DEFINE T == {i \in 0 .. N : \A s \in R[i] : InPlace(c, k, s, text, Q[i], old, new)}
<1>15. 0 \in T
  <2>1. ASSUME NEW s \in R[0] PROVE InPlace(c, k, s, text, Q[0], old, new)
    <3>1. s.c = c /\ s.off = 0
      BY <1>7
    <3>2. SameEnds(text, 0, text, 0)
      BY <1>2 DEF SameEnds
    <3>3. Gain(0, old, new) = 0
      <4>1. 0 \in Nat
        OBVIOUS
      <4> QED
        BY <4>1, GainFacts
    <3>4. Post(c, k, c)
      BY PostSelf
    <3> QED
      BY <1>1, <1>2, <1>9, <3>1, <3>2, <3>3, <3>4 DEF InPlace
  <2> QED
    BY <2>1
<1>16. \A i \in 0 .. N - 1 : i \in T => i + 1 \in T
  <2> SUFFICES ASSUME NEW i \in 0 .. N - 1, i \in T PROVE i + 1 \in T
    OBVIOUS
  <2>1. i + 1 \in 1 .. N /\ (i + 1) - 1 = i /\ i + 1 \in 0 .. N /\ i \in 0 .. N
    OBVIOUS
  <2>2. R[i + 1] = InlineAll(R[i], old, new)
    BY <1>8, <2>1
  <2>3. PICK q, v : q = Q[i] /\ v = Q[i + 1]
    OBVIOUS
  <2>4. v = ScanRound(q, text, old, new)
    BY <1>10, <2>1, <2>3
  <2>5. ScanOK(text, old, new, q)
    BY <1>11, <2>1, <2>3
  <2>6. Len(text) + Gain(v.num, old, new) <= MaxLen /\ Len(text) + Gain(v.num, old, new) <= Size(Str(c))
    <3>1. Len(text) + Gain(v.num, old, new) <= Len(total)
      BY <1>14, <2>1, <2>3
    <3>2. Gain(v.num, old, new) \in Int
      <4>1. v.num \in Nat
        BY <1>11, <2>1, <2>3 DEF ScanOK
      <4>2. PICK a \in Nat : a = v.num
        BY <4>1
      <4>3. Gain(a, old, new) \in Int
        BY GainFacts
      <4> QED
        BY <4>2, <4>3
    <3>3. Len(total) \in Nat /\ MaxLen \in Nat /\ Size(Str(c)) \in Int
      <4>1. IsText(total)
        BY <1>13
      <4>2. SoundBlock(Str(c))
        BY StrFacts
      <4> QED
        BY <4>1, <4>2, TextIsFunction, MaxLenNat, FixedSizeInt
    <3>4. PICK x \in Int : x = Len(text) + Gain(v.num, old, new)
      BY <1>2, <3>2
    <3> QED
      BY <3>1, <3>3, <3>4
  <2>7. ASSUME NEW s \in R[i + 1] PROVE InPlace(c, k, s, text, v, old, new)
    <3>1. PICK r1 \in R[i] : s \in InlineRound(r1, old, new)
      BY <2>2 DEF InlineAll
    <3>2. InPlace(c, k, r1, text, q, old, new)
      BY <2>3
    <3> QED
      BY <1>2, <2>4, <2>5, <2>6, <3>1, <3>2, InlineRoundGrows
  <2> QED
    BY <2>1, <2>3, <2>7
<1> HIDE DEF T
<1>17. 0 .. N \subseteq T
  BY <1>15, <1>16, UpTo
<1>18. Post(c, k, r.c)
  BY <1>6, <1>17 DEF T, InPlace
<1>19. PICK e : e = r.c
  OBVIOUS
<1>20. Edits(e, k) /\ Good(e, k)
  BY <1>18, <1>19 DEF Post, Edits
<1>21. Post(e, k, d)
  BY <1>6, <1>19, <1>20, DoneGood
<1> QED
  BY <1>18, <1>19, <1>21, PostTrans

\* ustrp__replace_buf.
LEMMA ReplaceBufGood ==
  ASSUME NEW c, NEW k, Edits(c, k), NEW old, IsText(old), Len(old) # 0,
         NEW new, IsText(new), NEW lim \in Nat,
         NEW total, total = Spliced(Text(c), old, new, lim), Len(total) <= MaxLen,
         NEW d \in ReplaceBuf(c, old, new, lim)
  PROVE  Post(c, k, d)
<1>1. PICK text : text = Text(c)
  OBVIOUS
<1>2. /\ IsText(text) /\ Good(c, k) /\ text = Str(c).text /\ Len(text) \in Nat
      /\ Len(old) \in Nat /\ Len(new) \in Nat /\ c.s \in Places
  BY <1>1, StrFacts, TextIsFunction DEF Edits
<1>3. IsText(total)
  <2>1. PICK e : e = Scan(text, old, new, lim)
    OBVIOUS
  <2>2. total = Spliced(text, old, new, lim)
    BY <1>1
  <2>3. TextGains(total, text, e.num, old, new)
    BY <1>2, <2>1, <2>2, SplicedText
  <2> QED
    BY <2>3 DEF TextGains
<1>4. CASE d = Fail(c)
  BY <1>2, <1>4, FailGood
<1>5. CASE d \in ReplaceInline(c, old, new, lim) /\ Len(new) <= Len(old)
  BY <1>5, InlineShrinks
<1>6. CASE /\ d \in ReplaceInline(c, old, new, lim) /\ ~(Len(new) <= Len(old))
           /\ Fixed(Str(c)) /\ Len(total) <= Size(Str(c))
  <2>1. Len(old) < Len(new)
    BY <1>2, <1>6
  <2> QED
    BY <1>6, <2>1, InlineGrows
<1>7. CASE d \in Del(c, Len(text))
  <2>1. PICK m \in Nat : m = Len(text)
    BY <1>2
  <2>2. d \in Del(c, m)
    BY <1>7, <2>1
  <2>3. Came(c, k, d, Len(Text(c)) - m)
    BY <2>2, DelCame
  <2> QED
    BY <2>3, CameParts
<1>8. CASE d \in {Flagged(c)}
  BY <1>8, FlaggedGood
<1>9. CASE d \in UNION {IF ~e.ok THEN {Flagged(e)}
                        ELSE IF ~Fixed(Str(c)) \/ Len(total) > Size(Str(c)) THEN {ScFree2(e, e.n)}
                        ELSE {Free(Done(f), e.n) : f \in Set(e, e.n)} :
                        e \in DupxUndef(c, From(Str(c), c.conf), total)}
  <2>1. PICK e \in DupxUndef(c, From(Str(c), c.conf), total) :
               d \in IF ~e.ok THEN {Flagged(e)}
                     ELSE IF ~Fixed(Str(c)) \/ Len(total) > Size(Str(c)) THEN {ScFree2(e, e.n)}
                     ELSE {Free(Done(f), e.n) : f \in Set(e, e.n)}
    BY <1>9
  <2>2. PICK q : q = From(Str(c), c.conf)
    OBVIOUS
  <2>3. FitsConf(q)
    BY <1>2, <2>2, FromFits DEF Str
  <2>4. Got(c, k, e)
    BY <1>2, <1>3, <2>1, <2>2, <2>3, DupxUndefGood
  <2>5. CASE ~e.ok
    BY <2>1, <2>4, <2>5, TakeFlagged
  <2>6. CASE e.ok /\ d = ScFree2(e, e.n)
    BY <2>4, <2>6, TakeNew
  <2>7. CASE e.ok /\ d \in {Free(Done(f), e.n) : f \in Set(e, e.n)}
    <3>1. PICK f \in Set(e, e.n) : d = Free(Done(f), e.n)
      BY <2>7
    <3>2. PICK l, y, g : l = With(k, e.n) /\ y = e.n /\ g = Done(f)
      OBVIOUS
    <3>3. Edits(e, l) /\ Known(e, l, y)
      BY <2>4, <2>7, <3>2, GotEdits
    <3>4. f \in Set(e, y)
      BY <3>1, <3>2
    <3>5. Came(e, l, f, Len(e.heap[y].text))
      BY <3>3, <3>4, SetGood
    <3>6. Post(e, l, f) /\ Edits(f, l) /\ Good(f, l)
      BY <3>5, CameParts
    <3>7. Post(f, l, g)
      BY <3>2, <3>6, DoneGood
    <3>8. Post(e, With(k, e.n), g)
      BY <3>2, <3>6, <3>7, PostTrans
    <3> QED
      BY <2>4, <2>7, <3>1, <3>2, <3>8, ViaCopyGood
  <2> QED
    BY <2>1, <2>5, <2>6, <2>7
<1> DEFINE few == Fixed(Str(c)) /\ (Hits(Str(c).text, old, lim) <= 2 \/ Limited(Str(c)))
           inline == \/ Len(old) = Len(new) /\ Owner(Str(c))
                     \/ total # <<>> /\ few /\ Len(total) <= Size(Str(c))
<1>10. inline => Len(new) <= Len(old) \/ (Fixed(Str(c)) /\ Len(total) <= Size(Str(c)))
  BY <1>2
<1>11. total = Spliced(Str(c).text, old, new, lim)
  BY <1>1, <1>2
<1>12. \/ d = Fail(c)
       \/ inline /\ d \in ReplaceInline(c, old, new, lim)
       \/ d \in Del(c, Len(text))
       \/ d \in {Flagged(c)}
       \/ d \in UNION {IF ~e.ok THEN {Flagged(e)}
                        ELSE IF ~Fixed(Str(c)) \/ Len(total) > Size(Str(c)) THEN {ScFree2(e, e.n)}
                        ELSE {Free(Done(f), e.n) : f \in Set(e, e.n)} :
                        e \in DupxUndef(c, From(Str(c), c.conf), total)}
  BY <1>2, <1>11 DEF ReplaceBuf
<1> HIDE DEF inline
<1> QED
  BY <1>4, <1>5, <1>6, <1>7, <1>8, <1>9, <1>10, <1>12

\* The string itself is held once more while it is searched for or put in.
Holding(c, k, x, l, d) ==
  /\ d.s = c.s /\ Kept(c, d)
  /\ ~d.ok => Post(c, k, d)
  /\ d.ok => /\ Edits(d, l) /\ Known(d, l, d.n) /\ d.n \in Places
             /\ d.heap[d.n].text = c.heap[x].text
             /\ \A y : Known(c, k, y) => Known(d, l, y) /\ d.heap[y].text = c.heap[y].text

\* The string itself is held once more.
LEMMA HoldGood ==
  ASSUME NEW c, NEW k, Edits(c, k), NEW x, Known(c, k, x),
         NEW d \in IF x = c.s THEN Dup(c, x) ELSE {[Done(c) EXCEPT !.n = x]},
         NEW l, l = IF x = c.s THEN With(k, d.n) ELSE k
  PROVE  Holding(c, k, x, l, d)
<1>1. x \in Places /\ Live(c.heap[x]) /\ Good(c, k) /\ k \in [Places -> Nat]
  BY KnownFacts DEF Edits, Good
<1>2. CASE x = c.s
  <2>1. Got(c, k, d)
    BY <1>1, <1>2, DupGood
  <2>2. d.ok => d.heap[d.n].text = c.heap[x].text
    BY <1>1, <1>2, DupGood
  <2>3. d.s = c.s /\ Kept(c, d)
    BY <2>1 DEF Got
  <2>4. ~d.ok => Post(c, k, d)
    BY <2>1, TakeNone
  <2>5. ASSUME d.ok
        PROVE  /\ Edits(d, l) /\ Known(d, l, d.n) /\ d.n \in Places
               /\ \A y : Known(c, k, y) => Known(d, l, y) /\ d.heap[y].text = c.heap[y].text
    <3>1. /\ d.n \in Places /\ With(k, d.n) \in [Places -> Nat]
          /\ Edits(d, With(k, d.n)) /\ Known(d, With(k, d.n), d.n)
      BY <2>1, <2>5, GotEdits
    <3>2. ASSUME NEW y, Known(c, k, y) PROVE Known(d, l, y) /\ d.heap[y].text = c.heap[y].text
      <4>1. y \in Places /\ Live(c.heap[y])
        BY <3>2, KnownFacts
      <4>2. d.heap[y].text = c.heap[y].text
        BY <2>1, <4>1 DEF Got
      <4>3. k[y] # 0 => l[y] # 0
        <5>1. With(k, d.n)[y] = IF y = d.n THEN k[y] + 1 ELSE k[y]
          BY <1>1, <4>1, WithFacts
        <5>2. k[y] \in Nat
          BY <1>1, <4>1
        <5> QED
          BY <1>2, <5>1, <5>2
      <4>4. Known(d, l, y)
        BY <2>3, <3>2, <4>1, <4>3 DEF Known, Pinned, Kept
      <4> QED
        BY <4>2, <4>4
    <3> QED
      BY <1>2, <3>1, <3>2
  <2> QED
    BY <2>2, <2>3, <2>4, <2>5 DEF Holding
<1>3. CASE x # c.s
  <2>1. d = [Done(c) EXCEPT !.n = x] /\ l = k
    BY <1>3
  <2>2. PICK e : e = Done(c)
    OBVIOUS
  <2>3. Good(e, k) /\ e.ok = TRUE /\ e.s = c.s /\ e.heap = c.heap /\ Edits(e, k) /\ Kept(c, e)
    BY <1>1, <2>2, DoneGood
  <2>4. /\ Good(d, k) /\ d.n = x /\ d.s = e.s /\ d.heap = e.heap
        /\ d.ok = e.ok
    BY <2>1, <2>2, <2>3, NamedGood
  <2>5. Edits(d, k) /\ Kept(c, d)
    BY <2>3, <2>4 DEF Edits, Kept
  <2>6. \A y : Known(c, k, y) => Known(d, k, y) /\ d.heap[y].text = c.heap[y].text
    BY <2>3, <2>4 DEF Known, Pinned
  <2> QED
    BY <1>1, <2>1, <2>3, <2>4, <2>5, <2>6 DEF Holding
<1> QED
  BY <1>2, <1>3

\* And let go of again.
HeldBy(c, k, x, d) == IF x = c.s THEN With(k, d.n) ELSE k
LetGoOf(c, x, d, e) == IF x = c.s THEN Free(e, d.n) ELSE e

\* What was held once more is let go.
LEMMA LetGoGood ==
  ASSUME NEW c, NEW k, Edits(c, k), NEW x, NEW l, NEW d, Holding(c, k, x, l, d), d.ok,
         l = HeldBy(c, k, x, d), NEW e, Post(d, l, e), NEW f, f = LetGoOf(c, x, d, e)
  PROVE  Post(c, k, f)
<1>1. /\ Kept(c, d) /\ d.n \in Places /\ k \in [Places -> Nat] /\ Edits(e, l) /\ Good(e, l)
      /\ Kept(d, e)
  BY DEF Holding, Edits, Good, Post
<1>2. CASE x = c.s
  <2>1. PICK y \in Places : y = d.n
    BY <1>1
  <2>2. Good(e, With(k, y)) /\ Edits(e, With(k, y)) /\ f = Free(e, y)
    BY <1>1, <1>2, <2>1 DEF HeldBy, LetGoOf
  <2>3. Post(e, k, f)
    BY <1>1, <2>2, FreeGood
  <2> QED
    BY <1>1, <2>3, KeptTrans DEF Post
<1>3. CASE x # c.s
  BY <1>1, <1>3, KeptTrans DEF Post, HeldBy, LetGoOf
<1> QED
  BY <1>2, <1>3

\* ustrp__replace.
LEMMA ReplaceGood ==
  ASSUME NEW c, NEW k, Edits(c, k), NEW old, Known(c, k, old), NEW new, Known(c, k, new),
         Len(c.heap[old].text) # 0, NEW lim \in Nat,
         Len(Spliced(Text(c), c.heap[old].text, c.heap[new].text, lim)) <= MaxLen,
         NEW d \in Replace(c, old, new, lim)
  PROVE  Post(c, k, d)
<1> DEFINE Hold(d1, x) == IF x = c.s THEN Dup(d1, x) ELSE {[Done(d1) EXCEPT !.n = x]}
           LetGo(e, x, held) == IF x = c.s THEN Free(e, held) ELSE e
           Work(d1, d2) ==
             IF ~d2.ok THEN {LetGo(d2, old, d1.n)}
             ELSE {LetGo(LetGo(e, old, d1.n), new, d2.n) :
                   e \in ReplaceBuf(d2, d2.heap[d1.n].text, d2.heap[d2.n].text, lim)}
<1>1. PICK d1 \in Hold(c, old) :
             d \in IF d1.ok THEN UNION {Work(d1, d2) : d2 \in Hold(d1, new)} ELSE {d1}
  BY DEF Replace
<1>2. PICK l1 : l1 = IF old = c.s THEN With(k, d1.n) ELSE k
  OBVIOUS
<1>3. Holding(c, k, old, l1, d1)
  BY <1>1, <1>2, HoldGood
<1>4. CASE ~d1.ok
  BY <1>1, <1>3, <1>4 DEF Holding
<1>5. CASE d1.ok
  <2>1. PICK d2 \in Hold(d1, new) : d \in Work(d1, d2)
    BY <1>1, <1>5
  <2>2. d1.s = c.s /\ Edits(d1, l1) /\ Known(d1, l1, new) /\ Known(d1, l1, d1.n)
        /\ d1.heap[new].text = c.heap[new].text /\ d1.heap[d1.n].text = c.heap[old].text
        /\ d1.heap[c.s].text = c.heap[c.s].text /\ d1.n \in Places
    <3>1. Known(c, k, c.s)
      BY DEF Known
    <3> QED
      BY <1>3, <1>5, <3>1 DEF Holding
  <2>3. PICK l2 : l2 = IF new = d1.s THEN With(l1, d2.n) ELSE l1
    OBVIOUS
  <2>4. d2 \in IF new = d1.s THEN Dup(d1, new) ELSE {[Done(d1) EXCEPT !.n = new]}
    BY <2>1, <2>2
  <2>5. Holding(d1, l1, new, l2, d2)
    BY <2>2, <2>3, <2>4, HoldGood
  <2>6. CASE ~d2.ok
    <3>1. d = LetGo(d2, old, d1.n)
      BY <2>1, <2>6
    <3>2. Post(d1, l1, d2)
      BY <2>5, <2>6 DEF Holding
    <3>3. l1 = HeldBy(c, k, old, d1)
      BY <1>2 DEF HeldBy
    <3>6. PICK f : f = LetGoOf(c, old, d1, d2)
      OBVIOUS
    <3>4. Post(c, k, f)
      BY <1>3, <1>5, <3>2, <3>3, <3>6, LetGoGood
    <3>5. d = f
      BY <3>1, <3>6 DEF LetGoOf
    <3> QED
      BY <3>4, <3>5
  <2>7. CASE d2.ok
    <3>1. PICK e \in ReplaceBuf(d2, d2.heap[d1.n].text, d2.heap[d2.n].text, lim) :
                 d = LetGo(LetGo(e, old, d1.n), new, d2.n)
      BY <2>1, <2>7
    <3>2. PICK t1, t2 : t1 = c.heap[old].text /\ t2 = c.heap[new].text
      OBVIOUS
    <3>3. /\ d2.heap[d1.n].text = t1 /\ d2.heap[d2.n].text = t2 /\ d2.s = c.s
          /\ d2.heap[c.s].text = c.heap[c.s].text /\ Edits(d2, l2) /\ d2.n \in Places
          /\ Kept(d1, d2)
      <4>1. Known(d1, l1, c.s)
        BY <2>2 DEF Known
      <4> QED
        BY <2>2, <2>5, <2>7, <3>2, <4>1 DEF Holding
    <3>4. IsText(t1) /\ IsText(t2) /\ Len(t1) # 0
      BY <3>2, KnownFacts
    <3>5. PICK total : total = Spliced(Text(d2), t1, t2, lim)
      OBVIOUS
    <3>6. Text(d2) = Text(c)
      BY <3>3 DEF Text, Str
    <3>7. Len(total) <= MaxLen
      BY <3>2, <3>5, <3>6
    <3>8. e \in ReplaceBuf(d2, t1, t2, lim)
      BY <3>1, <3>3
    <3>9. Post(d2, l2, e)
      BY <3>3, <3>4, <3>5, <3>7, <3>8, ReplaceBufGood
    <3>10. Edits(e, l2) /\ Good(e, l2) /\ Kept(d2, e) /\ Kept(c, e)
      <4>1. Edits(e, l2) /\ Kept(d2, e)
        BY <3>9 DEF Post
      <4>2. Kept(c, d1)
        BY <1>3 DEF Holding
      <4>3. Kept(c, d2)
        BY <3>3, <4>2, KeptTrans
      <4> QED
        BY <4>1, <4>3, KeptTrans DEF Edits
    <3>11. k \in [Places -> Nat] /\ d1.n \in Places /\ d2.n \in Places
      BY <2>2, <3>3 DEF Edits, Good
    <3>12. PICK n1 \in Places, n2 \in Places : n1 = d1.n /\ n2 = d2.n
      BY <3>11
    <3>13. CASE old # c.s /\ new # c.s
      <4>1. l2 = k /\ d = e
        BY <1>2, <2>2, <2>3, <3>1, <3>13
      <4> QED
        BY <3>10, <4>1 DEF Post
    <3>14. CASE old = c.s /\ new # c.s
      <4>1. l2 = With(k, n1) /\ d = Free(e, n1)
        BY <1>2, <2>2, <2>3, <3>1, <3>12, <3>14
      <4>2. Edits(e, With(k, n1)) /\ Good(e, With(k, n1))
        BY <3>10, <4>1
      <4>3. Post(e, k, d)
        BY <3>11, <4>1, <4>2, FreeGood
      <4> QED
        BY <3>10, <4>3, KeptTrans DEF Post
    <3>15. CASE old # c.s /\ new = c.s
      <4>1. l2 = With(k, n2) /\ d = Free(e, n2)
        BY <1>2, <2>2, <2>3, <3>1, <3>12, <3>15
      <4>2. Edits(e, With(k, n2)) /\ Good(e, With(k, n2))
        BY <3>10, <4>1
      <4>3. Post(e, k, d)
        BY <3>11, <4>1, <4>2, FreeGood
      <4> QED
        BY <3>10, <4>3, KeptTrans DEF Post
    <3>16. CASE old = c.s /\ new = c.s
      <4>1. PICK m, f : m = With(k, n2) /\ f = Free(e, n1)
        OBVIOUS
      <4>2. m \in [Places -> Nat] /\ With(m, n1) = With(With(k, n1), n2)
        <5>1. m \in [Places -> Nat]
          BY <3>11, <4>1, WithFacts
        <5>2. With(With(k, n2), n1) = With(With(k, n1), n2)
          BY <3>11, WithCommutes
        <5> QED
          BY <4>1, <5>1, <5>2
      <4>3. l2 = With(m, n1) /\ d = Free(f, n2)
        BY <1>2, <2>2, <2>3, <3>1, <3>12, <3>16, <4>1, <4>2
      <4>4. Edits(e, With(m, n1)) /\ Good(e, With(m, n1))
        BY <3>10, <4>3
      <4>5. Post(e, m, f)
        BY <4>1, <4>2, <4>4, FreeGood
      <4>6. Edits(f, With(k, n2)) /\ Good(f, With(k, n2)) /\ Kept(e, f)
        BY <4>1, <4>5 DEF Post, Edits
      <4>7. Post(f, k, d)
        BY <3>11, <4>3, <4>6, FreeGood
      <4> QED
        BY <3>10, <4>6, <4>7, KeptTrans DEF Post
    <3> QED
      BY <3>13, <3>14, <3>15, <3>16
  <2> QED
    BY <2>6, <2>7
<1> QED
  BY <1>4, <1>5

-----------------------------------------------------------------------------
(* Sharing for ever, and copies of one part *)

\* The caller lets go of its string and has none then.
LEMMA DropGood ==
  ASSUME NEW c, NEW k, Edits(c, k), NEW d, d = ScFree2(c, Null)
  PROVE  Good(d, k) /\ d.s = Null /\ (d.ok <=> c.ok)
<1>1. Good(c, k) /\ k \in [Places -> Nat] /\ c.s \in Places
  BY DEF Edits, Good
<1>2. With(k, Null) = k
  BY <1>1, WithFacts, PlacesFacts
<1>3. PICK x : x = Null
  OBVIOUS
<1>4. Good(c, With(k, x)) /\ d = ScFree2(c, x)
  BY <1>1, <1>2, <1>3
<1> QED
  BY <1>1, <1>3, <1>4, ScFree2Good

\* The count of a block is set.
LEMMA RefSetGood ==
  ASSUME NEW c, NEW k, Edits(c, k), Alloc(Str(c)), NEW n \in Nat,
         NEW b, b = [Str(c) EXCEPT !.ref = n], CountOK(b, With(k, c.s)[c.s]),
         NEW d, d = [c EXCEPT !.heap[c.s].ref = n]
  PROVE  Edits(d, k) /\ d.s = c.s /\ d.ok = c.ok
<1>1. /\ c = [heap |-> c.heap, s |-> c.s, n |-> c.n, ok |-> c.ok, wild |-> c.wild, conf |-> c.conf]
      /\ k \in [Places -> Nat] /\ With(k, c.s) \in [Places -> Nat] /\ Heaps(c.heap, With(k, c.s), Null)
      /\ c.heap = [x \in Places |-> c.heap[x]]
      /\ c.s \in Addr /\ c.s \in Places /\ Str(c) = c.heap[c.s] /\ SoundBlock(Str(c))
  BY GoodFacts, StrFacts DEF Edits
<1>2. SoundBlock(b)
  BY <1>1, CountSound
<1>3. PICK hp : hp = [c.heap EXCEPT ![c.s] = b]
  OBVIOUS
<1>4. d = [c EXCEPT !.heap = hp]
  BY <1>1, <1>3
<1>5. /\ d = [heap |-> hp, s |-> c.s, n |-> c.n, ok |-> c.ok, wild |-> c.wild, conf |-> c.conf]
      /\ d.heap = hp /\ d.s = c.s /\ d.ok = c.ok /\ d.wild = c.wild /\ d.conf = c.conf
  BY <1>1, <1>4
<1>6. PICK x \in Addr : x = c.s
  BY <1>1
<1>8. PICK l : l = With(k, c.s)
  OBVIOUS
<1>7. Heaps(hp, l, Null)
  <2>1. l \in [Places -> Nat] /\ Heaps(c.heap, l, Null) /\ CountOK(b, l[x])
        /\ hp = [c.heap EXCEPT ![x] = b]
    BY <1>1, <1>3, <1>6, <1>8
  <2> QED
    BY <1>2, <2>1, HeapCount
<1> QED
  BY <1>1, <1>5, <1>7, <1>8 DEF Edits, Good, IsCall

\* A count has room for one holder.
LEMMA RefLimitOne ==
  ASSUME NEW b, b.rb \in Widths, b.rb # 0
  PROVE  1 <= RefLimit(b)
<1>1. PICK base \in Nat : base = RefRadix /\ base >= 2
  BY RadixAssumption
<1>2. PICK w \in Widths \ {0} : w = b.rb
  OBVIOUS
<1>3. Values(base, w) \in Nat /\ Values(base, w) >= 2
  BY <1>1, ValuesGrow DEF Widths
<1>4. RefLimit(b) = Values(base, w) - 1
  BY <1>1, <1>2 DEF RefLimit
<1>5. PICK v \in Nat : v = Values(base, w)
  BY <1>3
<1> QED
  BY <1>3, <1>4, <1>5

\* A block that nobody counts is given back by its last holder.
LEMMA ScFreeSharedGood ==
  ASSUME NEW c, NEW k, Edits(c, k), k[c.s] = 0,
         Ro(Str(c)) \/ (Alloc(Str(c)) /\ Str(c).rb > 0 /\ Str(c).ref = 0), NEW d \in ScFreeShared(c)
  PROVE  Good(d, k) /\ d.s = Null
<1>1. k \in [Places -> Nat] /\ c.s \in Places /\ Good(c, k) /\ IsBlock(Str(c)) /\ Str(c) = c.heap[c.s]
  BY StrFacts DEF Edits, Good
<1>2. PICK e : e = IF Alloc(Str(c)) THEN [c EXCEPT !.heap[c.s].ref = 1] ELSE c
  OBVIOUS
<1>3. d = ScFree2(Done(e), Null)
  BY <1>2 DEF ScFreeShared
<1>4. Edits(e, k)
  <2>1. CASE Alloc(Str(c))
    <3>1. Str(c).rb \in Nat /\ Str(c).rb > 0 /\ Str(c).kind = "alloc"
      BY <1>1, <2>1, BlockParts DEF Alloc, Ro, Widths
    <3>2. With(k, c.s)[c.s] = 1
      BY <1>1, WithFacts
    <3>3. PICK b : b = [Str(c) EXCEPT !.ref = 1]
      OBVIOUS
    <3>4. b.kind = "alloc" /\ b.rb = Str(c).rb /\ b.ref = 1 /\ b.lb = Str(c).lb
      BY <1>1, <3>1, <3>3 DEF IsBlock
    <3>5. 1 <= RefLimit(b)
      <4>1. b.rb \in Widths /\ b.rb # 0
        BY <1>1, <3>1, <3>4, BlockParts
      <4> QED
        BY <4>1, RefLimitOne
    <3>6. CountOK(b, With(k, c.s)[c.s])
      BY <3>1, <3>2, <3>4, <3>5 DEF CountOK
    <3>7. e = [c EXCEPT !.heap[c.s].ref = 1]
      BY <1>2, <2>1
    <3>8. PICK one \in Nat : one = 1
      OBVIOUS
    <3>9. b = [Str(c) EXCEPT !.ref = one] /\ e = [c EXCEPT !.heap[c.s].ref = one]
      BY <3>3, <3>7, <3>8
    <3> QED
      BY <2>1, <3>6, <3>9, RefSetGood
  <2> QED
    BY <1>2, <2>1
<1>5. PICK f : f = Done(e)
  OBVIOUS
<1>6. Edits(f, k)
  BY <1>4, <1>5, DoneGood DEF Edits
<1>7. d = ScFree2(f, Null)
  BY <1>3, <1>5
<1> QED
  BY <1>6, <1>7, DropGood

\* The caller keeps the copy.
Parted(c, k, d) ==
  /\ ~d.ok => Edits(d, k) /\ d.s = c.s
  /\ d.ok => Good(d, With(k, d.n)) /\ d.s \in Places /\ d.n \in Places

\* ustr_sc_dup: the string and its copy part.
LEMMA ScDupGood ==
  ASSUME NEW c, NEW k, Edits(c, k), NEW d \in ScDup(c)
  PROVE  Parted(c, k, d) /\ d.ok \in BOOLEAN
<1>1. PICK e \in Dup(c, c.s) : d = IF e.ok THEN [e EXCEPT !.s = e.n, !.n = c.s] ELSE e
  BY DEF ScDup
<1>2. c.s \in Places /\ Good(c, k) /\ Live(c.heap[c.s]) /\ k \in [Places -> Nat]
  BY StrFacts DEF Edits, Good
<1>3. Got(c, k, e)
  <2>1. PICK x : x = c.s
    OBVIOUS
  <2> QED
    BY <1>1, <1>2, <2>1, DupGood
<1>4. CASE ~e.ok
  BY <1>1, <1>2, <1>3, <1>4 DEF Parted, Got, Edits
<1>5. CASE e.ok
  <2>1. e.n \in Places /\ Good(e, With(k, e.n)) /\ e.s = c.s /\ e.ok = TRUE
    BY <1>3, <1>5 DEF Got
  <2>2. PICK x \in Places, y \in Places : x = e.n /\ y = c.s
    BY <1>2, <2>1
  <2>3. /\ IsCall(e) /\ Heaps(e.heap, With(With(k, x), y), Null)
        /\ e = [heap |-> e.heap, s |-> e.s, n |-> e.n, ok |-> e.ok, wild |-> e.wild, conf |-> e.conf]
    BY <2>1, <2>2, GoodFacts DEF Good
  <2>4. Heaps(e.heap, With(With(k, y), x), Null)
    BY <1>2, <2>3, WithCommutes
  <2>5. d = [e EXCEPT !.s = x, !.n = y]
    BY <1>1, <1>5, <2>2
  <2>6. /\ d = [heap |-> e.heap, s |-> x, n |-> y, ok |-> e.ok, wild |-> e.wild, conf |-> e.conf]
        /\ d.heap = e.heap /\ d.s = x /\ d.n = y /\ d.ok = e.ok /\ d.wild = e.wild /\ d.conf = e.conf
    BY <2>3, <2>5
  <2>7. With(k, y) \in [Places -> Nat]
    BY <1>2, WithFacts
  <2>8. Good(d, With(k, y))
    BY <2>3, <2>4, <2>6, <2>7 DEF Good, IsCall
  <2> QED
    BY <2>1, <2>6, <2>8 DEF Parted
<1> QED
  BY <1>3, <1>4, <1>5 DEF Got

-----------------------------------------------------------------------------
(* Reversing, cases and trimming *)

\* A text that is written over, or an empty one that stays as it is.
LEMMA RewriteOwn ==
  ASSUME NEW c, NEW k, Edits(c, k), Len(Text(c)) # 0 => ~Ro(Str(c)),
         NEW t, IsText(t), Len(t) = Len(Text(c)), NEW d, d = [c EXCEPT !.heap[c.s].text = t]
  PROVE  Post(c, k, d)
<1>1. CASE ~Ro(Str(c))
  BY <1>1, RewriteGood
<1>2. CASE Len(Text(c)) = 0
  <2>1. /\ c = [heap |-> c.heap, s |-> c.s, n |-> c.n, ok |-> c.ok, wild |-> c.wild, conf |-> c.conf]
        /\ c.heap = [x \in Places |-> c.heap[x]]
    BY GoodFacts DEF Edits
  <2>2. c.s \in Places /\ Str(c) = c.heap[c.s] /\ Text(c) = Str(c).text /\ IsBlock(Str(c)) /\ IsText(Text(c))
    BY StrFacts
  <2>3. t = Text(c)
    BY <1>2, <2>2, EmptyText
  <2>4. PICK b : b = Str(c)
    OBVIOUS
  <2>5. b = [b EXCEPT !.text = t]
    BY <2>2, <2>3, <2>4 DEF IsBlock
  <2>6. PICK hp : hp = c.heap
    OBVIOUS
  <2>7. hp = [hp EXCEPT ![c.s] = b]
    BY <2>1, <2>2, <2>4, <2>6
  <2>8. d = [c EXCEPT !.heap = [hp EXCEPT ![c.s] = [b EXCEPT !.text = t]]]
    BY <2>1, <2>2, <2>4, <2>6
  <2>9. d = [c EXCEPT !.heap = hp]
    BY <2>5, <2>7, <2>8
  <2>10. d = c
    BY <2>1, <2>6, <2>9
  <2> QED
    BY <2>10, PostSelf
<1> QED
  BY <1>1, <1>2

\* The exchange of the halves is what its definition says.
LEMMA SwapsDefined ==
  ASSUME NEW text, IsText(text),
         NEW R, R = Swaps(text), NEW N, N = Len(text) \div 2
  PROVE  /\ R[0] = text
         /\ \A i \in 1 .. N : R[i] = SwapPair(R[i - 1], i)
<1> DEFINE base == text
           F(f, m) == f = [i \in 0 .. m |-> IF i = 0 THEN base ELSE SwapPair(f[i - 1], i)]
           T == {m \in 0 .. N : \E f : F(f, m)}
<1>1. N \in Nat
  BY TextIsFunction
<1>2. 0 \in T
  <2> DEFINE h == [i \in 0 .. 0 |-> base]
  <2>1. h = [i \in 0 .. 0 |-> IF i = 0 THEN base ELSE SwapPair(h[i - 1], i)]
    OBVIOUS
  <2> HIDE DEF h
  <2>2. F(h, 0)
    BY <2>1
  <2> QED
    BY <1>1, <2>2
<1>3. ASSUME NEW m \in 0 .. N - 1, m \in T PROVE m + 1 \in T
  <2>1. PICK g : F(g, m)
    BY <1>3
  <2> DEFINE h == [i \in 0 .. m + 1 |-> IF i = m + 1 THEN SwapPair(g[m], i) ELSE g[i]]
  <2>2. \A i \in 0 .. m + 1 : h[i] = IF i = 0 THEN base ELSE SwapPair(h[i - 1], i)
    <3> TAKE i \in 0 .. m + 1
    <3>1. CASE i = m + 1
      <4>1. i # 0 /\ i - 1 = m /\ m \in 0 .. m + 1 /\ m # m + 1
        BY <3>1
      <4>2. h[i] = SwapPair(g[m], i) /\ h[m] = g[m]
        BY <3>1, <4>1
      <4> QED
        BY <4>1, <4>2
    <3>2. CASE i \in 0 .. m
      <4>1. i # m + 1 /\ (i # 0 => i - 1 \in 0 .. m + 1 /\ i - 1 # m + 1)
        BY <3>2
      <4>2. h[i] = g[i] /\ (i # 0 => h[i - 1] = g[i - 1])
        BY <4>1
      <4>3. g[i] = IF i = 0 THEN base ELSE SwapPair(g[i - 1], i)
        BY <2>1, <3>2
      <4> QED
        BY <4>2, <4>3
    <3> QED
      BY <3>1, <3>2
  <2>3. h = [i \in 0 .. m + 1 |-> h[i]]
    OBVIOUS
  <2> HIDE DEF h
  <2>4. F(h, m + 1)
    BY <2>2, <2>3
  <2>5. m + 1 \in 0 .. N
    BY <1>1
  <2> QED
    BY <2>4, <2>5
<1> HIDE DEF T
<1>4. 0 .. N \subseteq T
  BY <1>1, <1>2, <1>3, UpTo
<1>5. \E f : F(f, N)
  BY <1>1, <1>4 DEF T
<1>6. R = CHOOSE f : F(f, N)
  BY DEF Swaps
<1> HIDE DEF F
<1>7. F(R, N)
  BY <1>5, <1>6
<1>8. R = [i \in 0 .. N |-> IF i = 0 THEN base ELSE SwapPair(R[i - 1], i)]
  BY <1>7 DEF F
<1> HIDE DEF base
<1>9. R[0] = base
  <2>1. 0 \in 0 .. N
    BY <1>1
  <2> QED
    BY <1>8, <2>1
<1>10. ASSUME NEW i \in 1 .. N PROVE R[i] = SwapPair(R[i - 1], i)
  <2>1. i \in 0 .. N /\ i # 0
    BY <1>1
  <2> QED
    BY <1>8, <2>1
<1> QED
  BY <1>9, <1>10 DEF base

\* Two characters that change places leave the length.
LEMMA SwapPairText ==
  ASSUME NEW t, IsText(t), NEW i \in Nat, NEW u, u = SwapPair(t, i)
  PROVE  IsText(u) /\ Len(u) = Len(t)
<1>1. PICK n \in Nat : n = Len(t) /\ t = [x \in 1 .. n |-> t[x]]
  BY TextIsFunction
<1>2. DOMAIN u = DOMAIN t /\ u = [x \in DOMAIN t |-> u[x]]
  BY DEF SwapPair
<1>3. DOMAIN t = 1 .. n
  BY <1>1
<1>4. u = [x \in 1 .. n |-> u[x]]
  BY <1>2, <1>3
<1> QED
  BY <1>1, <1>4, TextOfFunction

\* A reversed text is as long.
LEMMA SwapEndsText ==
  ASSUME NEW text, IsText(text), NEW u, u = SwapEnds(text)
  PROVE  IsText(u) /\ Len(u) = Len(text)
<1>1. PICK n \in Nat : n = Len(text)
  BY TextIsFunction
<1>2. n \div 2 \in Nat
  BY <1>1
<1>3. PICK N \in Nat : N = n \div 2
  BY <1>2
<1>4. PICK R : R = Swaps(text)
  OBVIOUS
<1>5. R[0] = text /\ \A i \in 1 .. N : R[i] = SwapPair(R[i - 1], i)
  BY <1>1, <1>3, <1>4, SwapsDefined
<1> DEFINE T == {i \in 0 .. N : IsText(R[i]) /\ Len(R[i]) = n}
<1>6. 0 \in T
  BY <1>1, <1>5
<1>7. \A i \in 0 .. N - 1 : i \in T => i + 1 \in T
  <2> SUFFICES ASSUME NEW i \in 0 .. N - 1, i \in T PROVE i + 1 \in T
    OBVIOUS
  <2>1. i + 1 \in 1 .. N /\ (i + 1) - 1 = i /\ i + 1 \in 0 .. N /\ i + 1 \in Nat
    OBVIOUS
  <2>2. R[i + 1] = SwapPair(R[i], i + 1)
    BY <1>5, <2>1
  <2>3. PICK v, w : v = R[i] /\ w = R[i + 1]
    OBVIOUS
  <2>4. PICK j \in Nat : j = i + 1
    BY <2>1
  <2>5. IsText(v) /\ w = SwapPair(v, j)
    BY <2>2, <2>3, <2>4
  <2>6. IsText(w) /\ Len(w) = Len(v)
    BY <2>5, SwapPairText
  <2> QED
    BY <2>1, <2>3, <2>6
<1> HIDE DEF T
<1>8. 0 .. N \subseteq T
  BY <1>6, <1>7, UpTo
<1>9. IsText(R[N]) /\ Len(R[N]) = n
  BY <1>8 DEF T
<1>10. u = R[N]
  BY <1>1, <1>3, <1>4 DEF SwapEnds
<1> QED
  BY <1>1, <1>9, <1>10

\* ustrp__sc_reverse.
LEMMA ScReverseGood ==
  ASSUME NEW c, NEW k, Edits(c, k), NEW d \in ScReverse(c)
  PROVE  Post(c, k, d)
<1>1. PICK e \in EnsureOwner(c) :
        d = IF e.ok THEN [e EXCEPT !.heap[e.s].text = SwapEnds(@)] ELSE e
  BY DEF ScReverse
<1>2. Post(c, k, e) /\ (e.ok => (Len(Text(c)) # 0 => Owner(Str(e))) /\ Len(Text(e)) = Len(Text(c)))
  BY <1>1, EnsureOwnerGood
<1>3. CASE e.ok
  <2>1. Edits(e, k) /\ (Len(Text(e)) # 0 => ~Ro(Str(e)))
    BY <1>2, <1>3, OwnerOpen DEF Post
  <2>2. IsText(Text(e)) /\ Text(e) = e.heap[e.s].text
    BY <2>1, StrFacts
  <2>3. PICK t : t = SwapEnds(Text(e))
    OBVIOUS
  <2>4. IsText(t) /\ Len(t) = Len(Text(e))
    BY <2>2, <2>3, SwapEndsText
  <2>5. d = [e EXCEPT !.heap[e.s].text = t]
    BY <1>1, <1>3, <2>2, <2>3
  <2>6. Post(e, k, d)
    BY <2>1, <2>4, <2>5, RewriteOwn
  <2> QED
    BY <1>2, <2>6, PostTrans
<1> QED
  BY <1>1, <1>2, <1>3

\* ustrp__sc_toupper, ustrp__sc_tolower.
LEMMA ScMapGood ==
  ASSUME NEW c, NEW k, Edits(c, k), NEW to, NEW d \in ScMap(c, to)
  PROVE  Post(c, k, d)
<1>1. PICK e \in EnsureOwner(c) :
        d = IF e.ok THEN [e EXCEPT !.heap[e.s].text = [i \in 1 .. Len(@) |-> to[@[i]]]] ELSE e
  BY DEF ScMap
<1>2. Post(c, k, e) /\ (e.ok => (Len(Text(c)) # 0 => Owner(Str(e))) /\ Len(Text(e)) = Len(Text(c)))
  BY <1>1, EnsureOwnerGood
<1>3. CASE e.ok
  <2>1. Edits(e, k) /\ (Len(Text(e)) # 0 => ~Ro(Str(e)))
    BY <1>2, <1>3, OwnerOpen DEF Post
  <2>2. IsText(Text(e)) /\ Text(e) = e.heap[e.s].text /\ Len(Text(e)) \in Nat
    BY <2>1, StrFacts
  <2>3. PICK m \in Nat : m = Len(Text(e))
    BY <2>2
  <2>4. PICK u : u = Text(e)
    OBVIOUS
  <2>5. PICK t : t = [i \in 1 .. m |-> to[u[i]]]
    OBVIOUS
  <2>6. t = [i \in 1 .. m |-> t[i]]
    BY <2>5
  <2>7. IsText(t) /\ Len(t) = m
    BY <2>6, TextOfFunction
  <2>8. d = [e EXCEPT !.heap[e.s].text = t]
    BY <1>1, <1>3, <2>2, <2>3, <2>4, <2>5
  <2>9. Post(e, k, d)
    BY <2>1, <2>3, <2>7, <2>8, RewriteOwn
  <2> QED
    BY <1>2, <2>9, PostTrans
<1> QED
  BY <1>1, <1>2, <1>3

\* An interval has as many elements.
LEMMA IntervalSize ==
  ASSUME NEW n \in Nat
  PROVE  IsFiniteSet(1 .. n) /\ Cardinality(1 .. n) = n
<1>1. Cardinality(1 .. n) = IF 1 > n THEN 0 ELSE n - 1 + 1
  BY FS_Interval
<1> QED
  BY <1>1, FS_Interval

\* The members of an interval that a condition picks are no more than it has.
LEMMA PartOfInterval ==
  ASSUME NEW n \in Nat, NEW S, S \subseteq 1 .. n
  PROVE  IsFiniteSet(S) /\ Cardinality(S) \in Nat /\ Cardinality(S) <= n /\ (Cardinality(S) = n => S = 1 .. n)
<1>1. IsFiniteSet(1 .. n) /\ Cardinality(1 .. n) = n
  BY IntervalSize
<1>2. IsFiniteSet(S) /\ Cardinality(S) <= Cardinality(1 .. n)
      /\ (Cardinality(S) = Cardinality(1 .. n) => S = 1 .. n)
  BY <1>1, FS_Subset
<1> QED
  BY <1>1, <1>2, FS_CardinalityType

\* What is trimmed off from the left and from the right does not meet, but when
\* everything is.
LEMMA SpansApart ==
  ASSUME NEW text, IsText(text), NEW chrs, NEW n \in Nat, n = Len(text)
  PROVE  /\ SpanFwd(text, chrs) \in Nat /\ SpanFwd(text, chrs) <= n
         /\ SpanRev(text, chrs) \in Nat /\ SpanRev(text, chrs) <= n
         /\ SpanFwd(text, chrs) # n => SpanFwd(text, chrs) + SpanRev(text, chrs) <= n
<1> DEFINE L == {i \in 1 .. n : \A j \in 1 .. i : text[j] \in chrs}
           R == {i \in 1 .. n : \A j \in i .. n : text[j] \in chrs}
<1>1. L \subseteq 1 .. n /\ R \subseteq 1 .. n
  OBVIOUS
<1>2. SpanFwd(text, chrs) = Cardinality(L)
  BY DEF SpanFwd
<1>3. SpanRev(text, chrs) = Cardinality(R)
  BY DEF SpanRev
<1>4. L # 1 .. n => L \cap R = {}
  <2> SUFFICES ASSUME L # 1 .. n, NEW x \in L, x \in R PROVE FALSE
    OBVIOUS
  <2>1. PICK i \in 1 .. n : i \notin L
    BY <1>1
  <2>2. PICK j \in 1 .. i : text[j] \notin chrs
    BY <2>1
  <2>3. j \in 1 .. n /\ x \in 1 .. n
    BY <2>1, <2>2
  <2>4. x < j
    BY <2>2, <2>3
  <2>5. j \in x .. n
    BY <2>3, <2>4
  <2> QED
    BY <2>2, <2>5
<1> HIDE DEF L, R
<1>5. IsFiniteSet(L) /\ Cardinality(L) \in Nat /\ Cardinality(L) <= n /\ (Cardinality(L) = n => L = 1 .. n)
  BY <1>1, PartOfInterval
<1>6. IsFiniteSet(R) /\ Cardinality(R) \in Nat /\ Cardinality(R) <= n
  BY <1>1, PartOfInterval
<1>7. ASSUME Cardinality(L) # n PROVE Cardinality(L) + Cardinality(R) <= n
  <2>1. L # 1 .. n
    <3>1. Cardinality(1 .. n) = n
      BY IntervalSize
    <3> QED
      BY <1>7, <3>1
  <2>2. Cardinality(L \cap R) = 0
    BY <1>4, <2>1, FS_EmptySet
  <2>3. IsFiniteSet(L \cup R) /\ Cardinality(L \cup R) = Cardinality(L) + Cardinality(R) - Cardinality(L \cap R)
    BY <1>5, <1>6, FS_Union
  <2>4. L \cup R \subseteq 1 .. n
    BY <1>1
  <2>5. Cardinality(L \cup R) <= n
    BY <2>4, PartOfInterval
  <2>6. PICK a \in Nat : a = Cardinality(L)
    BY <1>5
  <2>7. PICK b \in Nat : b = Cardinality(R)
    BY <1>6
  <2> QED
    BY <2>2, <2>3, <2>5, <2>6, <2>7
<1> QED
  BY <1>2, <1>3, <1>5, <1>6, <1>7

\* ustrp__sc_ltrim_chrs.
LEMMA LTrimGood ==
  ASSUME NEW c, NEW k, Edits(c, k), NEW chrs, NEW d \in LTrim(c, chrs)
  PROVE  Post(c, k, d)
<1>1. PICK text : text = Text(c)
  OBVIOUS
<1>2. IsText(text) /\ Len(text) \in Nat
  BY <1>1, StrFacts
<1>3. SpanFwd(text, chrs) \in Nat
  BY <1>2, SpansApart
<1>4. PICK l \in Nat : l = SpanFwd(text, chrs)
  BY <1>3
<1>5. PICK pos \in Nat \ {0} : pos = 1
  OBVIOUS
<1>6. d \in DelSubustr(c, pos, l)
  BY <1>1, <1>4, <1>5 DEF LTrim
<1>7. Came(c, k, d, Len(Text(c)) - l)
  BY <1>6, DelSubustrCame
<1> QED
  BY <1>7 DEF Came

\* ustrp__sc_rtrim_chrs.
LEMMA RTrimGood ==
  ASSUME NEW c, NEW k, Edits(c, k), NEW chrs, NEW d \in RTrim(c, chrs)
  PROVE  Post(c, k, d)
<1>1. PICK text : text = Text(c)
  OBVIOUS
<1>2. IsText(text) /\ Len(text) \in Nat
  BY <1>1, StrFacts
<1>3. SpanRev(text, chrs) \in Nat
  BY <1>2, SpansApart
<1>4. PICK r \in Nat : r = SpanRev(text, chrs)
  BY <1>3
<1>6. d \in Del(c, r)
  BY <1>1, <1>4 DEF RTrim
<1>7. Came(c, k, d, Len(Text(c)) - r)
  BY <1>6, DelCame
<1> QED
  BY <1>7 DEF Came

\* ustrp__sc_trim_chrs.
LEMMA TrimGood ==
  ASSUME NEW c, NEW k, Edits(c, k), NEW chrs, NEW d \in Trim(c, chrs)
  PROVE  Post(c, k, d)
<1>1. PICK text : text = Text(c)
  OBVIOUS
<1>2. IsText(text) /\ Len(text) \in Nat
  BY <1>1, StrFacts
<1>3. PICK n \in Nat : n = Len(text)
  BY <1>2
<1>4. /\ SpanFwd(text, chrs) \in Nat /\ SpanFwd(text, chrs) <= n
      /\ SpanRev(text, chrs) \in Nat /\ SpanRev(text, chrs) <= n
      /\ SpanFwd(text, chrs) # n => SpanFwd(text, chrs) + SpanRev(text, chrs) <= n
  BY <1>2, <1>3, SpansApart
<1>5. PICK l \in Nat : l = SpanFwd(text, chrs)
  BY <1>4
<1>6. PICK r \in Nat : r = SpanRev(text, chrs)
  BY <1>4
<1>7. PICK m \in Int : m = n - l - r
  OBVIOUS
<1>8. d \in IF l = n THEN Del(c, l)
            ELSE IF l = 0 /\ r = 0 THEN {Done(c)}
            ELSE IF Owner(Str(c))
                 THEN Del([c EXCEPT !.heap[c.s].text = Slice(text, l, m) \o Junks(l + r)], l + r)
            ELSE {IF e.ok THEN ScFree2(e, e.n) ELSE e : e \in DupSubustr(c, c.s, 1 + l, m)}
  BY <1>1, <1>3, <1>5, <1>6, <1>7 DEF Trim
<1>9. CASE l = n
  <2>1. Came(c, k, d, Len(Text(c)) - l)
    BY <1>8, <1>9, DelCame
  <2> QED
    BY <2>1 DEF Came
<1>10. CASE l # n /\ l = 0 /\ r = 0
  <2>1. d = Done(c)
    BY <1>8, <1>10
  <2>2. Good(c, k)
    BY DEF Edits
  <2> QED
    BY <2>1, <2>2, DoneGood
<1>11. CASE l # n /\ ~(l = 0 /\ r = 0)
  <2>1. l + r <= n
    BY <1>4, <1>5, <1>6, <1>11
  <2>2. m \in Nat /\ m = n - (l + r)
    BY <1>7, <2>1
  <2>3. CASE Owner(Str(c))
    <3>1. PICK a \in Nat : a = l + r
      OBVIOUS
    <3>2. PICK u : u = Slice(text, l, m)
      OBVIOUS
    <3>3. IsText(u) /\ Len(u) = m
      <4>1. l + m <= Len(text)
        BY <1>3, <1>7, <2>2
      <4>2. IsText(u)
        BY <1>2, <2>2, <3>2, <4>1, SliceText
      <4>3. Len(u) = IF m < 0 THEN 0 ELSE m
        BY <1>2, <2>2, <3>2, <4>1, SliceText
      <4> QED
        BY <2>2, <4>2, <4>3
    <3>4. IsText(Junks(a)) /\ Len(Junks(a)) = a
      BY JunksText
    <3>5. PICK t : t = u \o Junks(a)
      OBVIOUS
    <3>6. IsText(t) /\ Len(t) = m + a
      BY <3>3, <3>4, <3>5, JoinText
    <3>7. Len(t) = Len(Text(c))
      BY <1>1, <1>3, <2>2, <3>1, <3>6
    <3>8. PICK e : e = [c EXCEPT !.heap[c.s].text = t]
      OBVIOUS
    <3>9. Post(c, k, e)
      BY <2>3, <3>6, <3>7, <3>8, OwnerOpen, RewriteOwn
    <3>10. d \in Del(e, a)
      BY <1>8, <1>11, <2>3, <3>1, <3>2, <3>5, <3>8
    <3>11. Edits(e, k)
      BY <3>9 DEF Post
    <3>12. Came(e, k, d, Len(Text(e)) - a)
      BY <3>10, <3>11, DelCame
    <3>13. Post(e, k, d)
      BY <3>12 DEF Came
    <3> QED
      BY <3>9, <3>13, PostTrans
  <2>4. CASE ~Owner(Str(c))
    <3>1. PICK x \in Places : x = c.s
      BY DEF Edits
    <3>2. PICK pos \in Nat \ {0} : pos = 1 + l
      OBVIOUS
    <3>3. PICK e \in DupSubustr(c, x, pos, m) : d = IF e.ok THEN ScFree2(e, e.n) ELSE e
      BY <1>8, <1>11, <2>4, <3>1, <3>2
    <3>4. Live(c.heap[x]) /\ Good(c, k)
      BY <3>1, StrFacts DEF Edits
    <3>5. Got(c, k, e)
      BY <2>2, <3>3, <3>4, DupSubustrGood
    <3>6. CASE e.ok
      BY <3>3, <3>5, <3>6, TakeNew
    <3>7. CASE ~e.ok
      BY <3>3, <3>5, <3>7, TakeNone
    <3> QED
      BY <3>6, <3>7
  <2> QED
    BY <2>3, <2>4
<1> QED
  BY <1>9, <1>10, <1>11

-----------------------------------------------------------------------------
(* Strings joined *)

\* Two strings that are joined, and three.
OfTwo(c, sep, x, y, t) == t = c.heap[x].text \o c.heap[sep].text \o c.heap[y].text
OfThree(c, sep, x, y, z, t) ==
  t = (c.heap[x].text \o c.heap[sep].text \o c.heap[y].text) \o c.heap[sep].text \o c.heap[z].text

\* Two strings joined.
LEMMA JoinedTwo ==
  ASSUME NEW c, NEW sep, NEW x, NEW y, NEW t, t = Joined(c, sep, <<x, y>>)
  PROVE  OfTwo(c, sep, x, y, t)
<1>00. PICK a, b, s : a = c.heap[x].text /\ b = c.heap[y].text /\ s = c.heap[sep].text
  OBVIOUS
<1>0. PICK v : v = a \o s \o b
  OBVIOUS
<1> DEFINE F(f) == f = [i \in 1 .. 2 |-> IF i = 1 THEN a ELSE f[i - 1] \o s \o c.heap[<<x, y>>[i]].text]
           h == [i \in 1 .. 2 |-> IF i = 1 THEN a ELSE v]
<1>1. PICK xs : xs = <<x, y>>
  OBVIOUS
<1>2. Len(xs) = 2 /\ xs[1] = x /\ xs[2] = y
  BY <1>1
<1>3. F(h)
  <2>1. h[1] = a
    OBVIOUS
  <2>2. \A i \in 1 .. 2 : h[i] = IF i = 1 THEN a ELSE h[i - 1] \o s \o c.heap[xs[i]].text
    <3> TAKE i \in 1 .. 2
    <3>1. CASE i = 1
      BY <3>1
    <3>2. CASE i = 2
      <4>1. h[2] = v
        OBVIOUS
      <4>2. i - 1 = 1 /\ xs[i] = y /\ i # 1
        BY <1>2, <3>2
      <4> HIDE DEF h
      <4>3. h[i] = a \o s \o b
        BY <1>0, <3>2, <4>1
      <4>4. h[i - 1] = a
        BY <2>1, <4>2
      <4> QED
        BY <1>00, <4>2, <4>3, <4>4
    <3> QED
      BY <3>1, <3>2
  <2>3. h = [i \in 1 .. 2 |-> h[i]]
    OBVIOUS
  <2> HIDE DEF h
  <2> QED
    BY <1>00, <1>1, <2>2, <2>3
<1>4. Joins(c, sep, xs) = CHOOSE f : F(f)
  BY <1>00, <1>1, <1>2 DEF Joins
<1> HIDE DEF F, h
<1>5. PICK R : R = Joins(c, sep, xs)
  OBVIOUS
<1>6. F(R)
  BY <1>3, <1>4, <1>5
<1>7. R = [i \in 1 .. 2 |-> IF i = 1 THEN a ELSE R[i - 1] \o s \o c.heap[xs[i]].text]
  BY <1>1, <1>6 DEF F
<1>8. R[1] = a
  BY <1>7
<1>9. R[2] = R[1] \o s \o c.heap[xs[2]].text
  <2>1. 2 \in 1 .. 2 /\ 2 # 1 /\ 2 - 1 = 1
    OBVIOUS
  <2> QED
    BY <1>7, <2>1
<1>10. Joined(c, sep, xs) = R[2]
  BY <1>2, <1>5 DEF Joined
<1> QED
  BY <1>00, <1>1, <1>2, <1>8, <1>9, <1>10 DEF OfTwo

\* Three strings joined.
LEMMA JoinedThree ==
  ASSUME NEW c, NEW sep, NEW x, NEW y, NEW z, NEW t, t = Joined(c, sep, <<x, y, z>>)
  PROVE  OfThree(c, sep, x, y, z, t)
<1>00. PICK a, b, d, s : /\ a = c.heap[x].text /\ b = c.heap[y].text /\ d = c.heap[z].text
                         /\ s = c.heap[sep].text
  OBVIOUS
<1>0. PICK v : v = a \o s \o b
  OBVIOUS
<1>01. PICK w : w = v \o s \o d
  OBVIOUS
<1> DEFINE F(f) == f = [i \in 1 .. 3 |-> IF i = 1 THEN a ELSE f[i - 1] \o s \o c.heap[<<x, y, z>>[i]].text]
           h == [i \in 1 .. 3 |-> IF i = 1 THEN a ELSE IF i = 2 THEN v ELSE w]
<1>1. PICK xs : xs = <<x, y, z>>
  OBVIOUS
<1>2. Len(xs) = 3 /\ xs[1] = x /\ xs[2] = y /\ xs[3] = z
  BY <1>1
<1>3. F(h)
  <2>1. h[1] = a /\ h[2] = v /\ h[3] = w
    OBVIOUS
  <2>3. h = [i \in 1 .. 3 |-> h[i]]
    OBVIOUS
  <2> HIDE DEF h
  <2>2. \A i \in 1 .. 3 : h[i] = IF i = 1 THEN a ELSE h[i - 1] \o s \o c.heap[xs[i]].text
    <3> TAKE i \in 1 .. 3
    <3>1. CASE i = 1
      BY <2>1, <3>1
    <3>2. CASE i = 2
      <4>2. i - 1 = 1 /\ xs[i] = y /\ i # 1
        BY <1>2, <3>2
      <4>3. h[i] = a \o s \o b
        BY <1>0, <2>1, <3>2
      <4>4. h[i - 1] = a
        BY <2>1, <4>2
      <4> QED
        BY <1>00, <4>2, <4>3, <4>4
    <3>3. CASE i = 3
      <4>2. i - 1 = 2 /\ xs[i] = z /\ i # 1
        BY <1>2, <3>3
      <4>3. h[i] = v \o s \o d
        BY <1>01, <2>1, <3>3
      <4>4. h[i - 1] = v
        BY <2>1, <4>2
      <4> QED
        BY <1>00, <4>2, <4>3, <4>4
    <3> QED
      BY <3>1, <3>2, <3>3
  <2> QED
    BY <1>00, <1>1, <2>2, <2>3
<1>4. Joins(c, sep, xs) = CHOOSE f : F(f)
  BY <1>00, <1>1, <1>2 DEF Joins
<1> HIDE DEF F, h
<1>5. PICK R : R = Joins(c, sep, xs)
  OBVIOUS
<1>6. F(R)
  BY <1>3, <1>4, <1>5
<1>7. R = [i \in 1 .. 3 |-> IF i = 1 THEN a ELSE R[i - 1] \o s \o c.heap[xs[i]].text]
  BY <1>1, <1>6 DEF F
<1>8. R[1] = a
  BY <1>7
<1>9. R[2] = R[1] \o s \o c.heap[xs[2]].text
  <2>1. 2 \in 1 .. 3 /\ 2 # 1 /\ 2 - 1 = 1
    OBVIOUS
  <2> QED
    BY <1>7, <2>1
<1>10. R[3] = R[2] \o s \o c.heap[xs[3]].text
  <2>1. 3 \in 1 .. 3 /\ 3 # 1 /\ 3 - 1 = 2
    OBVIOUS
  <2> QED
    BY <1>7, <2>1
<1>11. Joined(c, sep, xs) = R[3]
  BY <1>2, <1>5 DEF Joined
<1> QED
  BY <1>00, <1>1, <1>2, <1>8, <1>9, <1>10, <1>11 DEF OfThree

\* A text that a new string is made with.
LEMMA JoinGood ==
  ASSUME NEW c, NEW k, Good(c, k), NEW q, FitsConf(q), NEW x \in Places,
         NEW text, text = c.heap[x].text, Len(text \o text) + Len(text) <= MaxLen,
         NEW d \in ScJoin(c, q, x, <<x, x>>)
  PROVE  Got(c, k, d)
<1>1. IsText(text) /\ Len(text) \in Nat
  BY PlaceOf
<1>2. PICK t : t = Joined(c, x, <<x, x>>)
  OBVIOUS
<1>3. t = text \o text \o text
  <2>1. PICK y : y = x
    OBVIOUS
  <2>2. text = c.heap[y].text
    BY <2>1
  <2>3. t = Joined(c, y, <<y, y>>)
    BY <1>2, <2>1
  <2>4. OfTwo(c, y, y, y, t)
    BY <2>3, JoinedTwo
  <2> QED
    BY <2>2, <2>4 DEF OfTwo
<1>4. IsText(text \o text) /\ Len(text \o text) = Len(text) + Len(text)
  BY <1>1, JoinText
<1>5. PICK u : u = text \o text
  OBVIOUS
<1>6. IsText(u \o text) /\ Len(u \o text) = Len(u) + Len(text)
  BY <1>1, <1>4, <1>5, JoinText
<1>7. IsText(t) /\ Len(t) <= MaxLen
  BY <1>3, <1>5, <1>6
<1>8. d \in DupxUndef(c, q, t)
  BY <1>2 DEF ScJoin
<1> QED
  BY <1>7, <1>8, DupxUndefGood

\* ustrp__sc_vconcatx.
LEMMA ConcatGood ==
  ASSUME NEW c, NEW k, Good(c, k), NEW q, FitsConf(q), NEW x \in Places,
         NEW text, text = c.heap[x].text, Len(text \o text) <= MaxLen,
         NEW d \in ScConcat(c, q, <<x, x>>)
  PROVE  Got(c, k, d)
<1>1. IsText(text) /\ Len(text) \in Nat /\ c.heap[Empty].text = <<>>
  BY PlaceOf, LibraryEmpty
<1>2. PICK t : t = Joined(c, Empty, <<Empty, x, x>>)
  OBVIOUS
<1>3. PICK s : s = <<>>
  OBVIOUS
<1>4. t = (s \o s \o text) \o s \o text
  <2>1. s = c.heap[Empty].text
    BY <1>1, <1>3
  <2>2. PICK y : y = Empty
    OBVIOUS
  <2>3. PICK z : z = x
    OBVIOUS
  <2>4. s = c.heap[y].text /\ text = c.heap[z].text
    BY <2>1, <2>2, <2>3
  <2>5. t = Joined(c, y, <<y, z, z>>)
    BY <1>2, <2>2, <2>3
  <2>6. OfThree(c, y, y, z, z, t)
    BY <2>5, JoinedThree
  <2> QED
    BY <2>4, <2>6 DEF OfThree
<1>5. IsText(s) /\ Len(s) = 0
  BY <1>3, EmptyText
<1>6. PICK u : u = s \o s
  OBVIOUS
<1>7. IsText(u) /\ Len(u) = 0
  BY <1>5, <1>6, JoinText
<1>8. PICK v : v = u \o text
  OBVIOUS
<1>9. IsText(v) /\ Len(v) = Len(text)
  BY <1>1, <1>7, <1>8, JoinText
<1>10. PICK w : w = v \o s
  OBVIOUS
<1>11. IsText(w) /\ Len(w) = Len(text)
  BY <1>1, <1>5, <1>9, <1>10, JoinText
<1>12. t = w \o text
  BY <1>4, <1>6, <1>8, <1>10
<1>13. IsText(t) /\ Len(t) = Len(text) + Len(text)
  BY <1>1, <1>11, <1>12, JoinText
<1>14. Len(text \o text) = Len(text) + Len(text)
  BY <1>1, JoinText
<1>15. d \in DupxUndef(c, q, t)
  <2>1. <<Empty>> \o <<x, x>> = <<Empty, x, x>>
    <3>1. PICK a, b, r : a = <<Empty>> /\ b = <<x, x>> /\ r = <<Empty, x, x>>
      OBVIOUS
    <3>2. a \in Seq(Places) /\ b \in Seq(Places) /\ r \in Seq(Places)
      BY <3>1, PlacesFacts
    <3>3. IsText(a) /\ IsText(b) /\ IsText(r)
      BY <3>2 DEF IsText
    <3>4. /\ Len(a) = 1 /\ Len(b) = 2 /\ Len(r) = 3
          /\ a[1] = Empty /\ b[1] = x /\ b[2] = x /\ r[1] = Empty /\ r[2] = x /\ r[3] = x
      BY <3>1
    <3>5. PICK j : j = a \o b
      OBVIOUS
    <3>6. IsText(j) /\ Len(j) = 3
      <4>1. IsText(a \o b) /\ Len(a \o b) = Len(a) + Len(b)
        BY <3>3, JoinText
      <4> QED
        BY <3>4, <3>5, <4>1
    <3>7. /\ \A i \in 1 .. 1 : j[i] = a[i]
          /\ \A i \in 1 .. 2 : j[1 + i] = b[i]
      <4>1. /\ \A i \in 1 .. Len(a) : (a \o b)[i] = a[i]
            /\ \A i \in 1 .. Len(b) : (a \o b)[Len(a) + i] = b[i]
        BY <3>3, JoinAt
      <4> QED
        BY <3>4, <3>5, <4>1
    <3>8. j[1] = Empty /\ j[2] = x /\ j[3] = x
      BY <3>4, <3>7
    <3>9. j = [i \in 1 .. 3 |-> j[i]] /\ r = [i \in 1 .. 3 |-> r[i]]
      BY <3>3, <3>4, <3>6, TextIsFunction
    <3>10. \A i \in 1 .. 3 : j[i] = r[i]
      <4> TAKE i \in 1 .. 3
      <4>1. i = 1 \/ i = 2 \/ i = 3
        OBVIOUS
      <4> QED
        BY <3>4, <3>8, <4>1
    <3>11. j = r
      BY <3>9, <3>10
    <3> QED
      BY <3>1, <3>5, <3>11
  <2> QED
    BY <1>2, <2>1 DEF ScConcat, ScJoin
<1>16. Len(t) <= MaxLen
  BY <1>13, <1>14
<1> QED
  BY <1>13, <1>15, <1>16, DupxUndefGood

\* A block that is shared for ever from now on.
LEMMA SetfShareGood ==
  ASSUME NEW c, NEW k, Edits(c, k), NEW d, d = SetfShare(c)
  PROVE  Edits(d, k)
<1>1. Good(c, k) /\ IsBlock(Str(c)) /\ Str(c) = c.heap[c.s]
  BY StrFacts DEF Edits
<1>2. Edits(Done(c), k) /\ Edits(Fail(c), k)
  BY <1>1, DoneGood, FailGood
<1>3. CASE Alloc(Str(c)) /\ Str(c).rb # 0
  <2>1. PICK e : e = Done(c)
    OBVIOUS
  <2>2. Edits(e, k) /\ Str(e) = Str(c) /\ e.s = c.s
    BY <1>1, <1>2, <2>1, DoneGood
  <2>3. PICK z \in Nat : z = 0
    OBVIOUS
  <2>4. PICK b : b = [Str(e) EXCEPT !.ref = z]
    OBVIOUS
  <2>5. b.kind = "alloc" /\ b.rb = Str(c).rb /\ b.rb # 0 /\ b.rb \in Widths /\ b.ref = 0
    BY <1>1, <1>3, <2>2, <2>3, <2>4 DEF IsBlock, Alloc
  <2>6. 1 <= RefLimit(b)
    BY <2>5, RefLimitOne
  <2>7. RefLimit(b) \in Int
    <3>1. RefRadix \in Nat /\ RefRadix >= 2
      BY RadixAssumption
    <3>2. \A w \in Widths : Values(RefRadix, w) \in Nat
      BY <3>1, ValuesGrow
    <3>3. Values(RefRadix, b.rb) \in Nat
      BY <2>5, <3>2
    <3> QED
      BY <3>3 DEF RefLimit
  <2>8. CountOK(b, With(k, e.s)[e.s])
    BY <2>5, <2>6, <2>7 DEF CountOK, Widths
  <2>9. d = [e EXCEPT !.heap[e.s].ref = z]
    BY <1>3, <2>1, <2>2, <2>3 DEF SetfShare
  <2>10. Alloc(Str(e))
    BY <1>3, <2>2
  <2> QED
    BY <2>2, <2>4, <2>8, <2>9, <2>10, RefSetGood
<1> QED
  BY <1>2, <1>3 DEF SetfShare

-----------------------------------------------------------------------------
(* Formatted text *)

ViaOK(c, k, viaBuf) == \A e \in viaBuf : Post(c, k, e)
RoomMade(c, k, len, n, pos, room) ==
  \A e \in room : IF len # 0 THEN Opened(c, k, e, n) /\ (e.ok => pos + len <= n) ELSE Post(c, k, e)

\* Text that is printed: by way of a buffer, or into the room made for it.
LEMMA PrintfGood ==
  ASSUME NEW c, NEW k, NEW text, IsText(text), NEW len, len = Len(text), NEW n \in Int, NEW pos \in Int,
         NEW viaBuf, ViaOK(c, k, viaBuf), NEW room, RoomMade(c, k, len, n, pos, room),
         NEW d \in Printf(text, viaBuf, room, pos)
  PROVE  Post(c, k, d)
<1>1. CASE Len(text) < FmtLocal
  BY <1>1 DEF Printf, ViaOK
<1>2. CASE ~(Len(text) < FmtLocal)
  <2>1. PICK e \in room : d = IF e.ok THEN Memcpy(e, pos, Buf(text), len) ELSE e
    BY <1>2 DEF Printf
  <2>2. len \in Nat
    BY TextIsFunction
  <2>6. IF len # 0 THEN Opened(c, k, e, n) /\ (e.ok => pos + len <= n) ELSE Post(c, k, e)
    BY <2>1 DEF RoomMade
  <2>3. CASE len = 0
    <3>1. PICK src : src = Buf(text)
      OBVIOUS
    <3>2. Memcpy(e, pos, src, 0) = e
      BY CopyNone
    <3>3. d = e
      BY <2>1, <2>3, <3>1, <3>2
    <3> QED
      BY <2>3, <2>6, <3>3
  <2>4. CASE len # 0 /\ ~e.ok
    <3>1. Opened(c, k, e, n)
      BY <2>4, <2>6
    <3> QED
      BY <2>1, <2>4, <3>1, OpenedParts
  <2>5. CASE len # 0 /\ e.ok
    <3>1. Opened(c, k, e, n) /\ pos + len <= n
      BY <2>5, <2>6
    <3>2. PICK src : src = Buf(text)
      OBVIOUS
    <3>3. HeldSrc(c, k, src)
      BY <3>2, SrcForms
    <3>4. d = Memcpy(e, pos, src, len)
      BY <2>1, <2>5, <3>2
    <3>5. PICK l \in Int : l = len
      BY <2>2
    <3>6. Copied(c, k, e, n, d)
      BY <2>5, <3>1, <3>3, <3>4, <3>5, CopyFrom
    <3>7. Opened(c, k, d, n)
      BY <3>6 DEF Copied
    <3> QED
      BY <3>7, OpenedParts
  <2> QED
    BY <2>3, <2>4, <2>5
<1> QED
  BY <1>1, <1>2

\* An edit is a step.
LEMMA CamePost ==
  ASSUME NEW c, NEW k, NEW d, NEW n, Came(c, k, d, n)
  PROVE  Post(c, k, d)
BY DEF Came

\* ustrp__add_vfmt_lim.
LEMMA AddFmtGood ==
  ASSUME NEW c, NEW k, Edits(c, k), NEW text, IsText(text), Len(Text(c)) + Len(text) <= MaxLen,
         NEW d \in AddFmt(c, text)
  PROVE  Post(c, k, d)
<1>1. PICK len \in Nat : len = Len(text)
  BY TextIsFunction
<1>2. PICK p \in Nat : p = Len(Text(c))
  BY StrFacts
<1>3. PICK n \in Nat : n = p + len
  OBVIOUS
<1>4. PICK src : src = Buf(text)
  OBVIOUS
<1>5. HeldSrc(c, k, src)
  BY <1>4, SrcForms
<1>6. \A e \in AddBuf(c, src, len) : Post(c, k, e)
  <2> TAKE e \in AddBuf(c, src, len)
  <2>1. Came(c, k, e, Len(Text(c)) + len)
    BY <1>1, <1>2, <1>5, AddBufGood
  <2> QED
    BY <2>1, CamePost
<1>7. \A e \in AddUndef(c, len) : IF len # 0 THEN Opened(c, k, e, n) /\ (e.ok => p + len <= n) ELSE Post(c, k, e)
  <2> TAKE e \in AddUndef(c, len)
  <2>1. Came(c, k, e, Len(Text(c)) + len)
    BY <1>1, <1>2, AddUndefGood
  <2>2. len # 0 => Opened(c, k, e, Len(Text(c)) + len)
    BY <1>1, <1>2, AddUndefGood
  <2> QED
    BY <1>2, <1>3, <2>1, <2>2, CamePost
<1>8. d \in Printf(text, AddBuf(c, src, len), AddUndef(c, len), p)
  BY <1>1, <1>2, <1>4 DEF AddFmt
<1>9. PICK v, r : v = AddBuf(c, src, len) /\ r = AddUndef(c, len)
  OBVIOUS
<1>11. ViaOK(c, k, v) /\ RoomMade(c, k, len, n, p, r)
  BY <1>6, <1>7, <1>9 DEF ViaOK, RoomMade
<1>12. d \in Printf(text, v, r, p)
  BY <1>8, <1>9
<1> QED
  BY <1>1, <1>11, <1>12, PrintfGood

\* ustrp__set_vfmt_lim.
LEMMA SetFmtGood ==
  ASSUME NEW c, NEW k, Edits(c, k), NEW text, IsText(text), Len(text) <= MaxLen,
         NEW d \in SetFmt(c, text)
  PROVE  Post(c, k, d)
<1>1. PICK len \in Nat : len = Len(text)
  BY TextIsFunction
<1>2. PICK p \in Nat : p = 0
  OBVIOUS
<1>4. PICK src : src = Buf(text)
  OBVIOUS
<1>5. HeldSrc(c, k, src)
  BY <1>4, SrcForms
<1>6. \A e \in SetBuf(c, src, len) : Post(c, k, e)
  <2> TAKE e \in SetBuf(c, src, len)
  <2>1. Came(c, k, e, len)
    BY <1>1, <1>5, SetBufGood
  <2> QED
    BY <2>1, CamePost
<1>7. \A e \in SetUndef(c, len) : IF len # 0 THEN Opened(c, k, e, len) /\ (e.ok => p + len <= len) ELSE Post(c, k, e)
  <2> TAKE e \in SetUndef(c, len)
  <2>1. Came(c, k, e, len)
    BY <1>1, SetUndefGood
  <2>2. len # 0 => Opened(c, k, e, len)
    BY <1>1, SetUndefGood
  <2> QED
    BY <1>2, <2>1, <2>2, CamePost
<1>8. d \in Printf(text, SetBuf(c, src, len), SetUndef(c, len), p)
  BY <1>1, <1>2, <1>4 DEF SetFmt
<1>9. PICK v, r : v = SetBuf(c, src, len) /\ r = SetUndef(c, len)
  OBVIOUS
<1>11. ViaOK(c, k, v) /\ RoomMade(c, k, len, len, p, r)
  BY <1>6, <1>7, <1>9 DEF ViaOK, RoomMade
<1>12. d \in Printf(text, v, r, p)
  BY <1>8, <1>9
<1> QED
  BY <1>1, <1>11, <1>12, PrintfGood

\* ustrp__ins_vfmt_lim.
LEMMA InsFmtGood ==
  ASSUME NEW c, NEW k, Edits(c, k), NEW pos \in Nat, NEW text, IsText(text),
         Len(Text(c)) + Len(text) <= MaxLen, NEW d \in InsFmt(c, pos, text)
  PROVE  Post(c, k, d)
<1>1. PICK len \in Nat : len = Len(text)
  BY TextIsFunction
<1>2. PICK p \in Nat : p = Len(Text(c))
  BY StrFacts
<1>3. PICK n \in Nat : n = p + len
  OBVIOUS
<1>4. PICK src : src = Buf(text)
  OBVIOUS
<1>5. HeldSrc(c, k, src)
  BY <1>4, SrcForms
<1>6. \A e \in InsBuf(c, pos, src, len) : Post(c, k, e)
  <2> TAKE e \in InsBuf(c, pos, src, len)
  <2>1. Came(c, k, e, Len(Text(c)) + len)
    BY <1>1, <1>2, <1>5, InsBufGood
  <2> QED
    BY <2>1, CamePost
<1>7. \A e \in InsUndef(c, pos, len) : IF len # 0 THEN Opened(c, k, e, n) /\ (e.ok => pos + len <= n) ELSE Post(c, k, e)
  <2> TAKE e \in InsUndef(c, pos, len)
  <2>1. Came(c, k, e, Len(Text(c)) + len)
    BY <1>1, <1>2, InsUndefGood
  <2>2. len # 0 => Opened(c, k, e, Len(Text(c)) + len)
    BY <1>1, <1>2, InsUndefGood
  <2>3. len # 0 /\ e.ok => pos <= Len(Text(c))
    BY <1>1, <1>2, InsUndefGood
  <2> QED
    BY <1>2, <1>3, <2>1, <2>2, <2>3, CamePost
<1>8. d \in Printf(text, InsBuf(c, pos, src, len), InsUndef(c, pos, len), pos)
  BY <1>1, <1>2, <1>4 DEF InsFmt
<1>9. PICK v, r : v = InsBuf(c, pos, src, len) /\ r = InsUndef(c, pos, len)
  OBVIOUS
<1>11. ViaOK(c, k, v) /\ RoomMade(c, k, len, n, pos, r)
  BY <1>6, <1>7, <1>9 DEF ViaOK, RoomMade
<1>12. d \in Printf(text, v, r, pos)
  BY <1>8, <1>9
<1> QED
  BY <1>1, <1>11, <1>12, PrintfGood

\* ustrp__sub_vfmt_lim.
LEMMA SubFmtGood ==
  ASSUME NEW c, NEW k, Edits(c, k), NEW pos \in Nat \ {0}, NEW text, IsText(text),
         pos - 1 + Len(text) <= MaxLen, NEW d \in SubFmt(c, pos, text)
  PROVE  Post(c, k, d)
<1>1. PICK len \in Nat : len = Len(text)
  BY TextIsFunction
<1>2. PICK p \in Nat : p = pos - 1
  OBVIOUS
<1>3. PICK n \in Nat : n = Larger(Len(Text(c)), pos - 1 + len)
  BY <1>2, StrFacts DEF Larger
<1>10. p + len <= n
  BY <1>2, <1>3, StrFacts DEF Larger
<1>4. PICK src : src = Buf(text)
  OBVIOUS
<1>5. HeldSrc(c, k, src)
  BY <1>4, SrcForms
<1>6. \A e \in SubBuf(c, pos, src, len) : Post(c, k, e)
  <2> TAKE e \in SubBuf(c, pos, src, len)
  <2>1. len # 0 => Came(c, k, e, n)
    BY <1>1, <1>3, <1>5, SubBufGood
  <2>2. len = 0 => Came(c, k, e, Len(Text(c)))
    BY <1>1, <1>3, <1>5, SubBufGood
  <2> QED
    BY <2>1, <2>2, CamePost
<1>7. \A e \in SubUndef(c, pos, len) : IF len # 0 THEN Opened(c, k, e, n) /\ (e.ok => p + len <= n) ELSE Post(c, k, e)
  <2> TAKE e \in SubUndef(c, pos, len)
  <2>1. len = 0 => Came(c, k, e, Len(Text(c)))
    BY <1>1, <1>3, SubUndefGood
  <2>2. len # 0 => Opened(c, k, e, n)
    BY <1>1, <1>3, SubUndefGood
  <2> QED
    BY <1>10, <2>1, <2>2, CamePost
<1>8. d \in Printf(text, SubBuf(c, pos, src, len), SubUndef(c, pos, len), p)
  BY <1>1, <1>2, <1>4 DEF SubFmt
<1>9. PICK v, r : v = SubBuf(c, pos, src, len) /\ r = SubUndef(c, pos, len)
  OBVIOUS
<1>11. ViaOK(c, k, v) /\ RoomMade(c, k, len, n, p, r)
  BY <1>6, <1>7, <1>9 DEF ViaOK, RoomMade
<1>12. d \in Printf(text, v, r, p)
  BY <1>8, <1>9
<1> QED
  BY <1>1, <1>11, <1>12, PrintfGood

\* ustrp__sc_sub_vfmt_lim.
LEMMA ScSubFmtGood ==
  ASSUME NEW c, NEW k, Edits(c, k), NEW pos \in Nat \ {0}, NEW olen \in Nat, NEW text, IsText(text),
         Len(Text(c)) + Len(text) - olen <= MaxLen, NEW d \in ScSubFmt(c, pos, olen, text)
  PROVE  Post(c, k, d)
<1>1. PICK len \in Nat : len = Len(text)
  BY TextIsFunction
<1>2. PICK p \in Nat : p = pos - 1
  OBVIOUS
<1>3. PICK n \in Int : n = Len(Text(c)) + len - olen
  BY StrFacts
<1>10. n <= MaxLen
  BY <1>1, <1>3
<1>4. PICK src : src = Buf(text)
  OBVIOUS
<1>5. HeldSrc(c, k, src)
  BY <1>4, SrcForms
<1>6. \A e \in ScSubBuf(c, pos, olen, src, len) : Post(c, k, e)
  <2> TAKE e \in ScSubBuf(c, pos, olen, src, len)
  <2>1. Came(c, k, e, n)
    BY <1>3, <1>5, <1>10, ScSubBufGood
  <2> QED
    BY <2>1, CamePost
<1>7. \A e \in ScSubUndef(c, pos, olen, len) : IF len # 0 THEN Opened(c, k, e, n) /\ (e.ok => p + len <= n) ELSE Post(c, k, e)
  <2> TAKE e \in ScSubUndef(c, pos, olen, len)
  <2>1. Came(c, k, e, n)
    BY <1>3, <1>10, ScSubUndefGood
  <2>2. len # 0 => Opened(c, k, e, n)
    BY <1>3, <1>10, ScSubUndefGood
  <2>3. len # 0 /\ e.ok => pos - 1 + len <= n
    BY <1>3, <1>10, ScSubUndefGood
  <2> QED
    BY <1>2, <2>1, <2>2, <2>3, CamePost
<1>8. d \in Printf(text, ScSubBuf(c, pos, olen, src, len), ScSubUndef(c, pos, olen, len), p)
  BY <1>1, <1>2, <1>4 DEF ScSubFmt
<1>9. PICK v, r : v = ScSubBuf(c, pos, olen, src, len) /\ r = ScSubUndef(c, pos, olen, len)
  OBVIOUS
<1>11. ViaOK(c, k, v) /\ RoomMade(c, k, len, n, p, r)
  BY <1>6, <1>7, <1>9 DEF ViaOK, RoomMade
<1>12. d \in Printf(text, v, r, p)
  BY <1>8, <1>9
<1> QED
  BY <1>1, <1>11, <1>12, PrintfGood

-----------------------------------------------------------------------------
(* Files *)

\* What was asked for and did not come is given up again.
LEMMA ReadGood ==
  ASSUME NEW c, NEW k, Edits(c, k), NEW num \in Nat, NEW got, IsText(got), Len(got) <= num,
         Len(Text(c)) + num <= MaxLen, NEW d \in Read(c, num, got)
  PROVE  Post(c, k, d)
<1>1. PICK e \in AddUndef(c, num) :
        d \in IF e.ok THEN {Done(f) : f \in Del(Memcpy(e, Len(Text(c)), Buf(got), Len(got)), num - Len(got))}
              ELSE {e}
  BY DEF Read
<1>2. PICK g \in Nat : g = Len(got)
  BY TextIsFunction
<1>3. PICK p \in Nat : p = Len(Text(c))
  BY StrFacts
<1>4. Came(c, k, e, Len(Text(c)) + num) /\ (num # 0 => Opened(c, k, e, Len(Text(c)) + num))
  BY <1>1, AddUndefGood
<1>5. CASE ~e.ok
  BY <1>1, <1>4, <1>5, CamePost
<1>6. CASE e.ok
  <2>1. PICK src : src = Buf(got)
    OBVIOUS
  <2>2. PICK m : m = Memcpy(e, p, src, g)
    OBVIOUS
  <2>3. Post(c, k, m)
    <3>1. CASE num = 0
      <4>1. g = 0
        BY <1>2, <3>1
      <4>2. Memcpy(e, p, src, 0) = e
        BY CopyNone
      <4>3. m = e
        BY <2>2, <4>1, <4>2
      <4> QED
        BY <1>4, <4>3, CamePost
    <3>2. CASE num # 0
      <4>1. PICK n \in Int : n = p + num
        OBVIOUS
      <4>2. Opened(c, k, e, n) /\ p + g <= n
        BY <1>2, <1>3, <1>4, <3>2, <4>1
      <4>3. HeldSrc(c, k, src)
        BY <2>1, SrcForms
      <4>4. Copied(c, k, e, n, m)
        BY <1>6, <2>2, <4>2, <4>3, CopyFrom
      <4>5. Opened(c, k, m, n)
        BY <4>4 DEF Copied
      <4> QED
        BY <4>5, OpenedParts
    <3> QED
      BY <3>1, <3>2
  <2>4. PICK f \in Del(m, num - g) : d = Done(f)
    BY <1>1, <1>2, <1>3, <1>6, <2>1, <2>2
  <2>5. PICK l \in Nat : l = num - g
    BY SMTT(30), <1>2
  <2>6. Edits(m, k)
    BY <2>3 DEF Post
  <2>7. Came(m, k, f, Len(Text(m)) - l)
    BY <2>4, <2>5, <2>6, DelCame
  <2>8. Post(m, k, f) /\ Edits(f, k) /\ Good(f, k)
    BY <2>7, CameParts
  <2>9. Post(f, k, d)
    BY <2>4, <2>8, DoneGood
  <2>10. Post(m, k, d)
    BY <2>8, <2>9, PostTrans
  <2> QED
    BY <2>3, <2>10, PostTrans
<1> QED
  BY <1>5, <1>6

\* ustrp__io_get.
LEMMA IoGetGood ==
  ASSUME NEW c, NEW k, Edits(c, k), NEW num \in Nat, NEW got, IsText(got), Len(got) <= num,
         Len(Text(c)) + num <= MaxLen, NEW d \in IoGet(c, num, got)
  PROVE  Post(c, k, d)
<1>1. CASE num = 0
  <2>1. d = Done(c) /\ Good(c, k)
    BY <1>1 DEF IoGet, Edits
  <2> QED
    BY <2>1, DoneGood
<1>2. CASE num # 0
  <2>1. PICK e \in Read(c, num, got) : d = [e EXCEPT !.ok = @ /\ got # <<>>]
    BY <1>2 DEF IoGet
  <2>2. Post(c, k, e)
    BY <2>1, ReadGood
  <2>3. Good(e, k) /\ Edits(e, k)
    BY <2>2 DEF Post, Edits
  <2>4. PICK ok \in BOOLEAN : ok = (e.ok /\ got # <<>>)
    OBVIOUS
  <2>5. d = [e EXCEPT !.ok = ok]
    BY <2>1, <2>3, <2>4, GoodFacts
  <2>6. Post(e, k, d)
    BY <2>3, <2>5, Answered
  <2> QED
    BY <2>2, <2>6, PostTrans
<1> QED
  BY <1>1, <1>2

\* What is asked of a file is a number of characters.
LEMMA AskedNat ==
  ASSUME NEW c, NEW k, Edits(c, k)
  PROVE  Asked(c) \in Nat
<1>1. PICK b : b = Str(c)
  OBVIOUS
<1>2. IsBlock(b) /\ Len(Text(c)) \in Nat /\ Text(c) = b.text
  BY <1>1, StrFacts
<1>3. /\ b.sized \in BOOLEAN /\ b.exact \in BOOLEAN /\ b.rb \in Widths /\ b.lb \in Widths
      /\ b.sz \in Nat
  BY <1>2, BlockParts
<1>4. Overhead(b) \in Nat
  <2>1. Fields(b.sized) \in {1, 2}
    BY DEF Fields
  <2>2. HeadAndTail(b.rb, b.lb, Fields(b.sized)) \in Nat
    BY <1>3, <2>1, HeadAndTailNat
  <2> QED
    BY <2>2 DEF Overhead
<1>5. PICK o \in Nat : o = Overhead(b)
  BY <1>4
<1>6. PICK l \in Nat : l = Len(b.text)
  BY <1>2
<1>7. PICK t \in Nat : t = l + o
  OBVIOUS
<1>8. Graded(b.exact, t) \in Nat
  BY <1>3, GradedFacts
<1>9. SizeAlloc(b) \in Nat
  BY <1>3, <1>5, <1>6, <1>7, <1>8 DEF SizeAlloc
<1>10. Size(b) \in Int
  BY <1>5, <1>9 DEF Size
<1>11. BlkSz \in Nat
  BY EditAssumption
<1>12. PICK x \in Int : x = Size(b) - Len(Text(c))
  BY <1>2, <1>10
<1>13. Asked(c) = Larger(BlkSz, x)
  BY <1>1, <1>12 DEF Asked
<1> QED
  BY <1>11, <1>13 DEF Larger

FileAll(S) == UNION {IF r.more THEN FileRound(r) ELSE {r} : r \in S}
LineAll(S, olen, delim) == UNION {IF r.more THEN LineRound(r, olen, delim) ELSE {r} : r \in S}

\* The reads are what their definition says.
LEMMA FileDefined ==
  ASSUME NEW c, NEW input, IsText(input),
         NEW R, R = FileRounds(c, input), NEW N, N = Len(input) + 1
  PROVE  /\ R[0] = {[c |-> c, rest |-> input, more |-> TRUE]}
         /\ \A i \in 1 .. N : R[i] = FileAll(R[i - 1])
<1> DEFINE base == {[c |-> c, rest |-> input, more |-> TRUE]}
           F(f, m) == f = [i \in 0 .. m |-> IF i = 0 THEN base ELSE FileAll(f[i - 1])]
           T == {m \in 0 .. N : \E f : F(f, m)}
<1>1. N \in Nat
  BY TextIsFunction
<1>2. 0 \in T
  <2> DEFINE h == [i \in 0 .. 0 |-> base]
  <2>1. h = [i \in 0 .. 0 |-> IF i = 0 THEN base ELSE FileAll(h[i - 1])]
    OBVIOUS
  <2> HIDE DEF h
  <2>2. F(h, 0)
    BY <2>1
  <2> QED
    BY <1>1, <2>2
<1>3. ASSUME NEW m \in 0 .. N - 1, m \in T PROVE m + 1 \in T
  <2>1. PICK g : F(g, m)
    BY <1>3
  <2> DEFINE h == [i \in 0 .. m + 1 |-> IF i = m + 1 THEN FileAll(g[m]) ELSE g[i]]
  <2>2. \A i \in 0 .. m + 1 : h[i] = IF i = 0 THEN base ELSE FileAll(h[i - 1])
    <3> TAKE i \in 0 .. m + 1
    <3>1. CASE i = m + 1
      <4>1. i # 0 /\ i - 1 = m /\ m \in 0 .. m + 1 /\ m # m + 1
        BY <3>1
      <4>2. h[i] = FileAll(g[m]) /\ h[m] = g[m]
        BY <3>1, <4>1
      <4> QED
        BY <4>1, <4>2
    <3>2. CASE i \in 0 .. m
      <4>1. i # m + 1 /\ (i # 0 => i - 1 \in 0 .. m + 1 /\ i - 1 # m + 1)
        BY <3>2
      <4>2. h[i] = g[i] /\ (i # 0 => h[i - 1] = g[i - 1])
        BY <4>1
      <4>3. g[i] = IF i = 0 THEN base ELSE FileAll(g[i - 1])
        BY <2>1, <3>2
      <4> QED
        BY <4>2, <4>3
    <3> QED
      BY <3>1, <3>2
  <2>3. h = [i \in 0 .. m + 1 |-> h[i]]
    OBVIOUS
  <2> HIDE DEF h
  <2>4. F(h, m + 1)
    BY <2>2, <2>3
  <2>5. m + 1 \in 0 .. N
    BY <1>1
  <2> QED
    BY <2>4, <2>5
<1> HIDE DEF T
<1>4. 0 .. N \subseteq T
  BY <1>1, <1>2, <1>3, UpTo
<1>5. \E f : F(f, N)
  BY <1>1, <1>4 DEF T
<1>6. R = CHOOSE f : F(f, N)
  BY DEF FileRounds, FileAll
<1> HIDE DEF F
<1>7. F(R, N)
  BY <1>5, <1>6
<1>8. R = [i \in 0 .. N |-> IF i = 0 THEN base ELSE FileAll(R[i - 1])]
  BY <1>7 DEF F
<1> HIDE DEF base
<1>9. R[0] = base
  <2>1. 0 \in 0 .. N
    BY <1>1
  <2> QED
    BY <1>8, <2>1
<1>10. ASSUME NEW i \in 1 .. N PROVE R[i] = FileAll(R[i - 1])
  <2>1. i \in 0 .. N /\ i # 0
    BY <1>1
  <2> QED
    BY <1>8, <2>1
<1> QED
  BY <1>9, <1>10 DEF base

\* So are those of a line.
LEMMA LineDefined ==
  ASSUME NEW c, NEW input, IsText(input), NEW delim, NEW olen, olen = Len(Text(c)),
         NEW R, R = LineRounds(c, input, delim), NEW N, N = Len(input) + 1
  PROVE  /\ R[0] = {[c |-> c, rest |-> input, more |-> TRUE, hit |-> FALSE]}
         /\ \A i \in 1 .. N : R[i] = LineAll(R[i - 1], olen, delim)
<1> DEFINE base == {[c |-> c, rest |-> input, more |-> TRUE, hit |-> FALSE]}
           F(f, m) == f = [i \in 0 .. m |-> IF i = 0 THEN base ELSE LineAll(f[i - 1], olen, delim)]
           T == {m \in 0 .. N : \E f : F(f, m)}
<1>1. N \in Nat
  BY TextIsFunction
<1>2. 0 \in T
  <2> DEFINE h == [i \in 0 .. 0 |-> base]
  <2>1. h = [i \in 0 .. 0 |-> IF i = 0 THEN base ELSE LineAll(h[i - 1], olen, delim)]
    OBVIOUS
  <2> HIDE DEF h
  <2>2. F(h, 0)
    BY <2>1
  <2> QED
    BY <1>1, <2>2
<1>3. ASSUME NEW m \in 0 .. N - 1, m \in T PROVE m + 1 \in T
  <2>1. PICK g : F(g, m)
    BY <1>3
  <2> DEFINE h == [i \in 0 .. m + 1 |-> IF i = m + 1 THEN LineAll(g[m], olen, delim) ELSE g[i]]
  <2>2. \A i \in 0 .. m + 1 : h[i] = IF i = 0 THEN base ELSE LineAll(h[i - 1], olen, delim)
    <3> TAKE i \in 0 .. m + 1
    <3>1. CASE i = m + 1
      <4>1. i # 0 /\ i - 1 = m /\ m \in 0 .. m + 1 /\ m # m + 1
        BY <3>1
      <4>2. h[i] = LineAll(g[m], olen, delim) /\ h[m] = g[m]
        BY <3>1, <4>1
      <4> QED
        BY <4>1, <4>2
    <3>2. CASE i \in 0 .. m
      <4>1. i # m + 1 /\ (i # 0 => i - 1 \in 0 .. m + 1 /\ i - 1 # m + 1)
        BY <3>2
      <4>2. h[i] = g[i] /\ (i # 0 => h[i - 1] = g[i - 1])
        BY <4>1
      <4>3. g[i] = IF i = 0 THEN base ELSE LineAll(g[i - 1], olen, delim)
        BY <2>1, <3>2
      <4> QED
        BY <4>2, <4>3
    <3> QED
      BY <3>1, <3>2
  <2>3. h = [i \in 0 .. m + 1 |-> h[i]]
    OBVIOUS
  <2> HIDE DEF h
  <2>4. F(h, m + 1)
    BY <2>2, <2>3
  <2>5. m + 1 \in 0 .. N
    BY <1>1
  <2> QED
    BY <2>4, <2>5
<1> HIDE DEF T
<1>4. 0 .. N \subseteq T
  BY <1>1, <1>2, <1>3, UpTo
<1>5. \E f : F(f, N)
  BY <1>1, <1>4 DEF T
<1>6. R = CHOOSE f : F(f, N)
  BY DEF LineRounds, LineAll
<1> HIDE DEF F
<1>7. F(R, N)
  BY <1>5, <1>6
<1>8. R = [i \in 0 .. N |-> IF i = 0 THEN base ELSE LineAll(R[i - 1], olen, delim)]
  BY <1>7 DEF F
<1> HIDE DEF base
<1>9. R[0] = base
  <2>1. 0 \in 0 .. N
    BY <1>1
  <2> QED
    BY <1>8, <2>1
<1>10. ASSUME NEW i \in 1 .. N PROVE R[i] = LineAll(R[i - 1], olen, delim)
  <2>1. i \in 0 .. N /\ i # 0
    BY <1>1
  <2> QED
    BY <1>8, <2>1
<1> QED
  BY <1>9, <1>10 DEF base

\* What is taken from the front of a stream, and what is left.
LEMMA FrontText ==
  ASSUME NEW t, IsText(t), NEW len \in Nat, len <= Len(t), NEW u, u = Slice(t, 0, len)
  PROVE  IsText(u) /\ Len(u) = len
<1>1. PICK z \in Nat : z = 0
  OBVIOUS
<1>2. PICK n \in Int : n = len
  OBVIOUS
<1>3. z + n <= Len(t)
  BY <1>1, <1>2
<1>4. IsText(Slice(t, z, n))
  BY <1>3, SliceText
<1>5. Len(Slice(t, z, n)) = IF n < 0 THEN 0 ELSE n
  BY <1>3, SliceText
<1> QED
  BY <1>1, <1>2, <1>4, <1>5

\* What is left of a stream.
LEMMA BackText ==
  ASSUME NEW t, IsText(t), NEW len \in Nat, len <= Len(t)
  PROVE  IsText(Slice(t, len, Len(t) - len))
<1>1. PICK l \in Nat : l = Len(t)
  BY TextIsFunction
<1>2. PICK m \in Int : m = l - len
  OBVIOUS
<1>3. len + m <= Len(t)
  BY <1>1, <1>2
<1>4. IsText(Slice(t, len, m))
  BY <1>3, SliceText
<1> QED
  BY <1>1, <1>2, <1>4

Reading(c, k, r) == Post(c, k, r.c) /\ IsText(r.rest)

\* A read of ustrp__io_getfile.
LEMMA FileRoundGood ==
  ASSUME NEW c, NEW k, NEW r, Reading(c, k, r), Len(Text(r.c)) + Asked(r.c) <= MaxLen,
         NEW s \in FileRound(r)
  PROVE  Reading(c, k, s)
<1>1. PICK e, t : e = r.c /\ t = r.rest
  OBVIOUS
<1>2. Post(c, k, e) /\ Edits(e, k) /\ IsText(t)
  BY <1>1 DEF Reading, Post
<1>3. PICK num \in Nat : num = Asked(e)
  BY <1>2, AskedNat
<1>4. PICK l \in Nat : l = Len(t)
  BY <1>2, TextIsFunction
<1>5. PICK got : got = IF Len(t) < num THEN t ELSE Slice(t, 0, num)
  OBVIOUS
<1>6. IsText(got) /\ Len(got) \in Nat /\ Len(got) <= num /\ Len(got) <= l
  <2>1. CASE l < num
    BY <1>2, <1>4, <1>5, <2>1
  <2>2. CASE ~(l < num)
    <3>1. num <= Len(t) /\ got = Slice(t, 0, num)
      BY <1>4, <1>5, <2>2
    <3>2. IsText(got) /\ Len(got) = num
      BY <1>2, <3>1, FrontText
    <3> QED
      BY <1>4, <3>1, <3>2
  <2> QED
    BY <2>1, <2>2
<1>7. PICK g \in Nat : g = Len(got)
  BY <1>6
<1>8. PICK d \in Read(e, num, got) :
        s = [c |-> d, rest |-> Slice(t, g, Len(t) - g), more |-> d.ok /\ g = num]
  BY <1>1, <1>3, <1>5, <1>7 DEF FileRound
<1>9. IsText(s.rest)
  <2>1. g <= Len(t)
    BY <1>4, <1>6, <1>7
  <2>2. IsText(Slice(t, g, Len(t) - g))
    BY <1>2, <2>1, BackText
  <2> QED
    BY <1>8, <2>2
<1>10. Post(e, k, d)
  <2>1. Len(Text(e)) + num <= MaxLen
    BY <1>1, <1>3
  <2> QED
    BY <1>2, <1>6, <1>8, <2>1, ReadGood
<1>11. Post(c, k, d)
  BY <1>2, <1>10, PostTrans
<1> QED
  BY <1>8, <1>9, <1>11 DEF Reading

\* A string read from a file, when every read has the room it asks for.
LEMMA IoGetFileGood ==
  ASSUME NEW c, NEW k, Edits(c, k), NEW input, IsText(input),
         \A i \in 0 .. Len(input) : \A r \in FileRounds(c, input)[i] :
            r.more => Len(Text(r.c)) + Asked(r.c) <= MaxLen,
         NEW d \in IoGetFile(c, input)
  PROVE  Post(c, k, d)
<1>1. PICK m \in Nat : m = Len(input)
  BY TextIsFunction
<1>2. PICK N \in Nat : N = m + 1
  OBVIOUS
<1>3. PICK R : R = FileRounds(c, input)
  OBVIOUS
<1>4. R[0] = {[c |-> c, rest |-> input, more |-> TRUE]}
  BY <1>3, FileDefined
<1>5. \A i \in 1 .. N : R[i] = FileAll(R[i - 1])
  BY <1>1, <1>2, <1>3, FileDefined
<1>6. PICK r \in R[N] : d = r.c
  BY <1>1, <1>2, <1>3 DEF IoGetFile
<1> DEFINE T == {i \in 0 .. N : \A s \in R[i] : Reading(c, k, s)}
<1>7. 0 \in T
  BY <1>4, PostSelf DEF Reading
<1>8. \A i \in 0 .. N - 1 : i \in T => i + 1 \in T
  <2> SUFFICES ASSUME NEW i \in 0 .. N - 1, i \in T PROVE i + 1 \in T
    OBVIOUS
  <2>1. i + 1 \in 1 .. N /\ (i + 1) - 1 = i /\ i + 1 \in 0 .. N /\ i \in 0 .. m
    BY <1>2
  <2>2. R[i + 1] = FileAll(R[i])
    BY <1>5, <2>1
  <2>3. ASSUME NEW s \in R[i + 1] PROVE Reading(c, k, s)
    <3>1. PICK q \in R[i] : s \in IF q.more THEN FileRound(q) ELSE {q}
      BY <2>2 DEF FileAll
    <3>2. Reading(c, k, q)
      OBVIOUS
    <3>3. CASE q.more
      <4>1. Len(Text(q.c)) + Asked(q.c) <= MaxLen
        BY <1>1, <1>3, <2>1, <3>1, <3>3
      <4> QED
        BY <3>1, <3>2, <3>3, <4>1, FileRoundGood
    <3>4. CASE ~q.more
      BY <3>1, <3>2, <3>4
    <3> QED
      BY <3>3, <3>4
  <2> QED
    BY <2>1, <2>3
<1> HIDE DEF T
<1>9. 0 .. N \subseteq T
  BY <1>7, <1>8, UpTo
<1>10. Reading(c, k, r)
  BY <1>6, <1>9 DEF T
<1> QED
  BY <1>6, <1>10 DEF Reading

LineReading(c, k, r) == Post(c, k, r.c) /\ IsText(r.rest) /\ r.hit \in BOOLEAN

\* A read of ustrp__io_getdelim.
LEMMA LineRoundGood ==
  ASSUME NEW c, NEW k, NEW r, LineReading(c, k, r), Len(Text(r.c)) + LineSz <= MaxLen,
         NEW olen, NEW delim, NEW s \in LineRound(r, olen, delim)
  PROVE  LineReading(c, k, s)
<1>1. PICK e, t : e = r.c /\ t = r.rest
  OBVIOUS
<1>2. Post(c, k, e) /\ Edits(e, k) /\ IsText(t)
  BY <1>1 DEF LineReading, Post
<1>3. PICK num \in Nat : num = LineSz /\ num # 0
  BY EditAssumption
<1>4. PICK l \in Nat : l = Len(t)
  BY <1>2, TextIsFunction
<1>5. PICK window : window = IF Len(t) < num THEN t ELSE Slice(t, 0, num)
  OBVIOUS
<1>6. IsText(window) /\ Len(window) \in Nat /\ Len(window) <= num /\ Len(window) <= l
  <2>1. CASE l < num
    BY <1>2, <1>4, <1>5, <2>1
  <2>2. CASE ~(l < num)
    <3>1. num <= Len(t) /\ window = Slice(t, 0, num)
      BY <1>4, <1>5, <2>2
    <3>2. IsText(window) /\ Len(window) = num
      BY <1>2, <3>1, FrontText
    <3> QED
      BY <1>4, <3>1, <3>2
  <2> QED
    BY <2>1, <2>2
<1>7. PICK u : u = <<delim>>
  OBVIOUS
<1>8. IsText(u) /\ Len(u) = 1
  <2>1. u \in Seq({delim})
    BY <1>7
  <2> QED
    BY <1>7, <2>1 DEF IsText
<1>9. PICK end : end = Find(window, 0, u)
  OBVIOUS
<1>10. end \in Nat /\ (end # 0 => end <= Len(window))
  <2>1. PICK z \in Nat : z = 0
    OBVIOUS
  <2>2. First(window, z, u, end)
    BY <1>6, <1>8, <1>9, <2>1, FindFacts
  <2> QED
    BY <1>6, <1>8, <2>2 DEF First
<1>11. PICK got : got = IF end # 0 THEN Slice(window, 0, end) ELSE window
  OBVIOUS
<1>12. IsText(got) /\ Len(got) \in Nat /\ Len(got) <= num /\ Len(got) <= l
  <2>1. CASE end = 0
    BY <1>6, <1>11, <2>1
  <2>2. CASE end # 0
    <3>1. end \in Nat /\ end <= Len(window) /\ got = Slice(window, 0, end)
      BY <1>10, <1>11, <2>2
    <3>2. IsText(got) /\ Len(got) = end
      BY <1>6, <3>1, FrontText
    <3> QED
      BY <1>6, <3>1, <3>2
  <2> QED
    BY <2>1, <2>2
<1>13. PICK g \in Nat : g = Len(got)
  BY <1>12
<1>14. PICK rest : rest = Slice(t, g, Len(t) - g)
  OBVIOUS
<1>15. IsText(rest)
  <2>1. g <= Len(t)
    BY <1>4, <1>12, <1>13
  <2> QED
    BY <1>2, <1>14, <2>1, BackText
<1>16. PICK p \in Nat : p = Len(Text(e))
  BY <1>2, StrFacts
<1>17. PICK d \in AddUndef(e, num) :
         s \in IF ~d.ok THEN {[c |-> [d EXCEPT !.ok = r.hit], rest |-> rest, more |-> FALSE, hit |-> FALSE]}
               ELSE IF g = num
               THEN {[c |-> Memcpy(d, p, Buf(got), g), rest |-> rest, more |-> TRUE, hit |-> end # 0]}
               ELSE {[c |-> [f EXCEPT !.ok = end # 0 \/ Len(Text(f)) # olen], rest |-> rest,
                      more |-> FALSE, hit |-> FALSE] :
                     f \in Del(Memcpy(d, p, Buf(got), g), num - g)}
  <2> DEFINE W == IF Len(r.rest) < LineSz THEN r.rest ELSE Slice(r.rest, 0, LineSz)
             E == Find(W, 0, <<delim>>)
             G == IF E # 0 THEN Slice(W, 0, E) ELSE W
             S == Slice(r.rest, Len(G), Len(r.rest) - Len(G))
             P(d) ==
               IF ~d.ok THEN {[c |-> [d EXCEPT !.ok = r.hit], rest |-> S, more |-> FALSE, hit |-> FALSE]}
               ELSE IF Len(G) = LineSz
               THEN {[c |-> Memcpy(d, Len(Text(r.c)), Buf(G), Len(G)), rest |-> S, more |-> TRUE,
                      hit |-> E # 0]}
               ELSE {[c |-> [f EXCEPT !.ok = E # 0 \/ Len(Text(f)) # olen], rest |-> S,
                      more |-> FALSE, hit |-> FALSE] :
                     f \in Del(Memcpy(d, Len(Text(r.c)), Buf(G), Len(G)), LineSz - Len(G))}
  <2>1. s \in UNION {P(d) : d \in AddUndef(r.c, LineSz)}
    BY DEF LineRound
  <2>2. W = window
    BY <1>1, <1>3, <1>5
  <2> HIDE DEF W
  <2>3. E = end
    BY <1>7, <1>9, <2>2
  <2> HIDE DEF E
  <2>4. G = got
    BY <1>11, <2>2, <2>3
  <2> HIDE DEF G
  <2>5. S = rest /\ Len(G) = g
    BY <1>1, <1>13, <1>14, <2>4
  <2> HIDE DEF S
  <2>6. PICK d \in AddUndef(e, num) : s \in P(d)
    <3> HIDE DEF P
    <3> QED
      BY <1>1, <1>3, <2>1
  <2> QED
    BY <1>1, <1>3, <1>16, <2>3, <2>4, <2>5, <2>6
<1>18. PICK n \in Int : n = p + num
  OBVIOUS
<1>19. Opened(e, k, d, n)
  <2>1. Len(Text(e)) + num <= MaxLen
    BY <1>1, <1>3
  <2>2. num # 0 => Opened(e, k, d, Len(Text(e)) + num)
    BY <1>2, <1>17, <2>1, AddUndefGood
  <2> QED
    BY <1>3, <1>16, <1>18, <2>2
<1>20. CASE ~d.ok
  <2>1. PICK ok \in BOOLEAN : ok = r.hit
    BY DEF LineReading
  <2>2. PICK f : f = [d EXCEPT !.ok = ok]
    OBVIOUS
  <2>3. s = [c |-> f, rest |-> rest, more |-> FALSE, hit |-> FALSE]
    BY <1>17, <1>20, <2>1, <2>2
  <2>4. Post(e, k, d) /\ Edits(d, k)
    BY <1>19, OpenedParts
  <2>5. Post(d, k, f)
    BY <2>2, <2>4, Answered DEF Edits
  <2>6. Post(e, k, f)
    BY <2>4, <2>5, PostTrans
  <2>7. Post(c, k, f)
    BY <1>2, <2>6, PostTrans
  <2> QED
    BY <1>15, <2>3, <2>7 DEF LineReading
<1>21. CASE d.ok
  <2>1. PICK src : src = Buf(got)
    OBVIOUS
  <2>2. PICK m : m = Memcpy(d, p, src, g)
    OBVIOUS
  <2>3. HeldSrc(e, k, src) /\ p + g <= n
    BY <1>12, <1>13, <1>18, <2>1, SrcForms
  <2>4. Copied(e, k, d, n, m)
    BY <1>19, <1>21, <2>2, <2>3, CopyFrom
  <2>5. Opened(e, k, m, n)
    BY <2>4 DEF Copied
  <2>6. Post(e, k, m) /\ Edits(m, k)
    BY <2>5, OpenedParts
  <2>7. Post(c, k, m)
    BY <1>2, <2>6, PostTrans
  <2>8. CASE g = num
    <3>1. s = [c |-> m, rest |-> rest, more |-> TRUE, hit |-> end # 0]
      BY <1>17, <1>21, <2>1, <2>2, <2>8
    <3> QED
      BY <1>15, <2>7, <3>1 DEF LineReading
  <2>9. CASE g # num
    <3>1. PICK x \in Nat : x = num - g
      BY <1>12, <1>13
    <3>2. PICK f \in Del(m, x) :
            s = [c |-> [f EXCEPT !.ok = end # 0 \/ Len(Text(f)) # olen], rest |-> rest,
                 more |-> FALSE, hit |-> FALSE]
      BY <1>17, <1>21, <2>1, <2>2, <2>9, <3>1
    <3>3. PICK ok \in BOOLEAN : ok = (end # 0 \/ Len(Text(f)) # olen)
      OBVIOUS
    <3>4. PICK h : h = [f EXCEPT !.ok = ok]
      OBVIOUS
    <3>5. Came(m, k, f, Len(Text(m)) - x)
      BY <2>6, <3>1, <3>2, DelCame
    <3>6. Post(m, k, f) /\ Edits(f, k) /\ Good(f, k)
      BY <3>5, CameParts
    <3>7. Post(f, k, h)
      BY <3>4, <3>6, Answered
    <3>8. Post(m, k, h)
      BY <3>6, <3>7, PostTrans
    <3>9. Post(c, k, h)
      BY <2>7, <3>8, PostTrans
    <3>10. s = [c |-> h, rest |-> rest, more |-> FALSE, hit |-> FALSE]
      BY <3>2, <3>3, <3>4
    <3> QED
      BY <1>15, <3>9, <3>10 DEF LineReading
  <2> QED
    BY <2>8, <2>9
<1> QED
  BY <1>20, <1>21

\* ustrp__io_getdelim.
LEMMA IoGetDelimGood ==
  ASSUME NEW c, NEW k, Edits(c, k), NEW input, IsText(input), NEW delim,
         \A i \in 0 .. Len(input) : \A r \in LineRounds(c, input, delim)[i] :
            r.more => Len(Text(r.c)) + LineSz <= MaxLen,
         NEW d \in IoGetDelim(c, input, delim)
  PROVE  Post(c, k, d)
<1>1. PICK m \in Nat : m = Len(input)
  BY TextIsFunction
<1>2. PICK N \in Nat : N = m + 1
  OBVIOUS
<1>3. PICK R : R = LineRounds(c, input, delim)
  OBVIOUS
<1>0. PICK olen : olen = Len(Text(c))
  OBVIOUS
<1>4. R[0] = {[c |-> c, rest |-> input, more |-> TRUE, hit |-> FALSE]}
  BY <1>0, <1>3, LineDefined
<1>5. \A i \in 1 .. N : R[i] = LineAll(R[i - 1], olen, delim)
  BY <1>0, <1>1, <1>2, <1>3, LineDefined
<1>6. PICK r \in R[N] : d = r.c
  BY <1>1, <1>2, <1>3 DEF IoGetDelim
<1> DEFINE T == {i \in 0 .. N : \A s \in R[i] : LineReading(c, k, s)}
<1>7. 0 \in T
  <2>1. ASSUME NEW s \in R[0] PROVE LineReading(c, k, s)
    <3>1. s.c = c /\ s.rest = input /\ s.hit = FALSE
      BY <1>4
    <3> QED
      BY <3>1, PostSelf DEF LineReading
  <2> QED
    BY <2>1
<1>8. \A i \in 0 .. N - 1 : i \in T => i + 1 \in T
  <2> SUFFICES ASSUME NEW i \in 0 .. N - 1, i \in T PROVE i + 1 \in T
    OBVIOUS
  <2>1. i + 1 \in 1 .. N /\ (i + 1) - 1 = i /\ i + 1 \in 0 .. N /\ i \in 0 .. m
    BY <1>2
  <2>2. R[i + 1] = LineAll(R[i], olen, delim)
    BY <1>5, <2>1
  <2>3. ASSUME NEW s \in R[i + 1] PROVE LineReading(c, k, s)
    <3>1. PICK q \in R[i] : s \in IF q.more THEN LineRound(q, olen, delim) ELSE {q}
      BY <2>2 DEF LineAll
    <3>2. LineReading(c, k, q)
      OBVIOUS
    <3>3. CASE q.more
      <4>1. Len(Text(q.c)) + LineSz <= MaxLen
        BY <1>1, <1>3, <2>1, <3>1, <3>3
      <4> QED
        BY <3>1, <3>2, <3>3, <4>1, LineRoundGood
    <3>4. CASE ~q.more
      BY <3>1, <3>2, <3>4
    <3> QED
      BY <3>3, <3>4
  <2> QED
    BY <2>1, <2>3
<1> HIDE DEF T
<1>9. 0 .. N \subseteq T
  BY <1>7, <1>8, UpTo
<1>10. LineReading(c, k, r)
  BY <1>6, <1>9 DEF T
<1> QED
  BY <1>6, <1>10 DEF LineReading

\* A string of which some is written to a file and dropped.
LEMMA IoPutGood ==
  ASSUME NEW c, NEW k, Edits(c, k), NEW beglen \in Nat, NEW put \in Nat, NEW d \in IoPut(c, beglen, put)
  PROVE  Post(c, k, d)
<1>1. Good(c, k) /\ Post(c, k, Done(c)) /\ Post(c, k, Fail(c))
  BY DoneGood, FailGood DEF Edits
<1>2. PICK whole \in BOOLEAN : whole = (beglen = Len(Text(c)))
  OBVIOUS
<1>3. CASE beglen > Len(Text(c)) \/ beglen = 0
  BY <1>1, <1>3 DEF IoPut
<1>4. CASE ~(beglen > Len(Text(c)) \/ beglen = 0)
  <2>1. PICK e \in IF whole THEN {Done(c)} ELSE EnsureOwner(c) :
          d \in IF e.ok
                THEN {[f EXCEPT !.ok = put = beglen] : f \in
                      IF put = 0 THEN {e} ELSE IF whole THEN ScDel(e) ELSE DelSubustr(e, 1, put)}
                ELSE {e}
    BY <1>2, <1>4 DEF IoPut
  <2>2. Post(c, k, e)
    <3>1. CASE whole
      BY <1>1, <2>1, <3>1
    <3>2. CASE ~whole
      BY <2>1, <3>2, EnsureOwnerGood
    <3> QED
      BY <3>1, <3>2
  <2>3. CASE ~e.ok
    BY <2>1, <2>2, <2>3
  <2>4. CASE e.ok
    <3>1. PICK f \in IF put = 0 THEN {e} ELSE IF whole THEN ScDel(e) ELSE DelSubustr(e, 1, put) :
            d = [f EXCEPT !.ok = put = beglen]
      BY <2>1, <2>4
    <3>2. Edits(e, k)
      BY <2>2 DEF Post
    <3>3. Post(e, k, f)
      <4>1. CASE put = 0
        BY <3>1, <3>2, <4>1, PostSelf
      <4>2. CASE put # 0 /\ whole
        BY <3>1, <3>2, <4>2, ScDelGood
      <4>3. CASE put # 0 /\ ~whole
        <5>1. PICK one \in Nat \ {0} : one = 1
          OBVIOUS
        <5>2. f \in DelSubustr(e, one, put)
          BY <3>1, <4>3, <5>1
        <5>3. Came(e, k, f, Len(Text(e)) - put)
          BY <3>2, <5>2, DelSubustrCame
        <5> QED
          BY <5>3, CamePost
      <4> QED
        BY <4>1, <4>2, <4>3
    <3>4. PICK ok \in BOOLEAN : ok = (put = beglen)
      OBVIOUS
    <3>5. d = [f EXCEPT !.ok = ok]
      BY <3>1, <3>4
    <3>6. Good(f, k) /\ Edits(f, k)
      BY <3>3 DEF Post, Edits
    <3>7. Post(f, k, d)
      BY <3>5, <3>6, Answered
    <3>8. Post(e, k, d)
      BY <3>3, <3>7, PostTrans
    <3> QED
      BY <2>2, <3>8, PostTrans
  <2> QED
    BY <2>3, <2>4
<1> QED
  BY <1>3, <1>4

-----------------------------------------------------------------------------
(* Splitting *)

\* A set of numbers that is bounded has a greatest one.
LEMMA Greatest ==
  ASSUME NEW n \in Nat, NEW S, S \subseteq 0 .. n, S # {}, NEW m, m = Max(S)
  PROVE  m \in S
<1> DEFINE D == {n - x : x \in S}
<1>1. D \in SUBSET Nat /\ D # {}
  <2>1. ASSUME NEW y \in D PROVE y \in Nat
    <3>1. PICK x \in S : y = n - x
      OBVIOUS
    <3>2. x \in 0 .. n
      OBVIOUS
    <3> QED
      BY <3>1, <3>2
  <2>2. PICK x : x \in S
    OBVIOUS
  <2>3. n - x \in D
    BY <2>2
  <2> HIDE DEF D
  <2>4. D \subseteq Nat
    BY <2>1
  <2> QED
    BY <2>3, <2>4
<1>2. PICK d \in D : \A y \in D : d <= y
  <2> HIDE DEF D
  <2> QED
    BY <1>1, Least
<1>3. PICK x \in S : d = n - x
  BY <1>2
<1>4. \A y \in S : x >= y
  <2> TAKE y \in S
  <2>1. n - y \in D
    OBVIOUS
  <2>2. d <= n - y /\ x \in Nat /\ y \in Nat
    BY <1>2, <2>1
  <2> QED
    BY <1>3, <2>2
<1>5. m = CHOOSE z \in S : \A y \in S : z >= y
  BY DEF Max
<1> QED
  BY <1>4, <1>5

\* Separators that are skipped lie within the text.
LEMMA PastSepsWithin ==
  ASSUME NEW text, IsText(text), NEW sep, Len(sep) = 1, NEW o \in Nat, o <= Len(text),
         NEW p, p = PastSeps(text, o, sep)
  PROVE  p \in Nat /\ o <= p /\ p <= Len(text)
<1>1. PICK n \in Nat : n = Len(text)
  BY TextIsFunction
<1> DEFINE S == {m \in 0 .. Len(text) : \A j \in 0 .. m - 1 : IsSep(text, o + j * Len(sep), sep)}
<1>2. PICK m : m = Max(S)
  OBVIOUS
<1>3. S \subseteq 0 .. n
  BY <1>1
<1>4. 0 \in S
  <2>1. \A j \in 0 .. 0 - 1 : FALSE
    OBVIOUS
  <2> QED
    BY <1>1, <2>1
<1>5. m \in S
  <2> HIDE DEF S
  <2>1. S # {}
    BY <1>4
  <2> QED
    BY <1>2, <1>3, <2>1, Greatest
<1>6. p = o + 1 * m
  BY <1>2 DEF PastSeps
<1>7. m \in Nat
  BY <1>1, <1>5
<1>8. o + m <= n
  <2>1. CASE m = 0
    BY <1>1, <2>1
  <2>2. CASE m # 0
    <3>1. PICK j \in Nat : j = m - 1
      BY <1>7, <2>2
    <3>2. j \in 0 .. m - 1
      BY <1>7, <3>1
    <3>3. IsSep(text, o + j * Len(sep), sep)
      BY <1>5, <3>2
    <3>4. j * Len(sep) = j
      OBVIOUS
    <3>5. PICK q \in Nat : q = o + j
      OBVIOUS
    <3>6. IsSep(text, q, sep)
      BY <3>3, <3>4, <3>5
    <3>7. Len(text) - q >= 1
      BY <3>6 DEF IsSep
    <3> QED
      BY <1>1, <1>7, <3>1, <3>5, <3>7
  <2> QED
    BY <2>1, <2>2
<1> HIDE DEF S
<1> QED
  BY <1>1, <1>6, <1>7, <1>8

\* The part between separators lies within the text.
PartWithin(st, n) ==
  st.len # -1 => /\ st.off \in Nat /\ st.len \in Nat
                 /\ st.off + st.len <= n

\* The next part lies within the text.
LEMMA SplitStepWithin ==
  ASSUME NEW text, IsText(text), NEW sep, IsText(sep), Len(sep) = 1, NEW off \in Nat, off <= Len(text),
         NEW flags, NEW n, n = Len(text), NEW st, st = SplitStep(text, off, sep, flags)
  PROVE  PartWithin(st, n)
<1>1. n \in Nat
  BY TextIsFunction
<1>2. PICK skip \in BOOLEAN : skip = ({"sep", "non"} \cap flags = {})
  OBVIOUS
<1>3. PICK start : start = IF skip THEN PastSeps(text, off, sep) ELSE off
  OBVIOUS
<1>4. start \in Nat /\ start <= n
  <2>1. CASE skip
    BY <1>3, <2>1, PastSepsWithin
  <2>2. CASE ~skip
    BY <1>3, <2>2
  <2> QED
    BY <2>1, <2>2
<1>5. PICK found : found = Find(text, start, sep)
  OBVIOUS
<1>6. First(text, start, sep, found)
  BY <1>4, <1>5, FindFacts
<1>7. found \in Nat /\ (found # 0 => found > start /\ found <= n)
  BY <1>1, <1>6 DEF First
<1>8. PICK tail \in 0 .. 1 : tail = IF "sep" \in flags THEN Len(sep) ELSE 0
  OBVIOUS
<1>9. CASE sep = <<>> \/ start = Len(text)
  <2>1. st.len = -1
    BY <1>2, <1>3, <1>9 DEF SplitStep
  <2> QED
    BY <2>1 DEF PartWithin
<1>10. CASE ~(sep = <<>> \/ start = Len(text)) /\ found = 0
  <2>1. st.off = start /\ st.len = n - start
    BY <1>2, <1>3, <1>5, <1>10 DEF SplitStep
  <2> QED
    BY <1>1, <1>4, <2>1 DEF PartWithin
<1>11. CASE ~(sep = <<>> \/ start = Len(text)) /\ found # 0
  <2>1. st.off = start /\ st.len = found - 1 - start + tail
    BY <1>2, <1>3, <1>5, <1>8, <1>11 DEF SplitStep
  <2> QED
    BY <1>1, <1>4, <1>7, <1>11, <2>1 DEF PartWithin
<1> QED
  BY <1>9, <1>10, <1>11

\* A part in the place of the string the caller has.  No part, or no memory for
\* it: the caller has none then.
SplitInto(d, k) == Good(d, k) /\ d.s \in Places \cup {Null}

\* The string is dropped when there is no part.
LEMMA DropInto ==
  ASSUME NEW c, NEW k, Edits(c, k), NEW d, d = [Free(c, c.s) EXCEPT !.s = Null]
  PROVE  SplitInto(d, k)
<1>1. d = ScFree2(c, Null)
  BY DEF ScFree2
<1>2. Good(d, k) /\ d.s = Null
  BY <1>1, DropGood
<1> QED
  BY <1>2 DEF SplitInto

\* ustrp__split_buf over a string.
LEMMA SplitOver ==
  ASSUME NEW c, NEW k, Edits(c, k), NEW x, Known(c, k, x), NEW off \in Nat, off <= Len(c.heap[x].text),
         NEW sep, IsText(sep), Len(sep) = 1, NEW flags, NEW d \in SplitBuf(c, x, off, sep, flags)
  PROVE  SplitInto(d, k)
<1>1. PICK text : text = c.heap[x].text
  OBVIOUS
<1>2. IsText(text) /\ Len(text) \in Nat
  BY <1>1, KnownFacts
<1>3. PICK st : st = SplitStep(text, off, sep, flags)
  OBVIOUS
<1>4. PICK n : n = Len(text)
  OBVIOUS
<1>5. PartWithin(st, n)
  BY <1>1, <1>2, <1>3, <1>4, SplitStepWithin
<1>6. c.s # Null /\ Good(c, k)
  BY PlacesFacts DEF Edits
<1>7. CASE st.len = -1
  <2>1. PICK e : e = Fail(c)
    OBVIOUS
  <2>2. Edits(e, k) /\ e.s = c.s
    BY <1>6, <2>1, FailGood
  <2>3. d = [Free(e, e.s) EXCEPT !.s = Null]
    BY <1>1, <1>3, <1>7, <2>1, <2>2 DEF SplitBuf
  <2> QED
    BY <2>2, <2>3, DropInto
<1>8. CASE st.len # -1
  <2>1. st.off \in Nat /\ st.len \in Nat
    BY <1>5, <1>8 DEF PartWithin
  <2>2. PICK pos \in Nat \ {0} : pos = st.off + 1
    BY <2>1
  <2>3. PICK len \in Nat : len = st.len
    BY <2>1
  <2>4. PICK e \in SetSubustr(c, x, pos, len) : d = IF e.ok THEN e ELSE [Free(e, e.s) EXCEPT !.s = Null]
    BY <1>1, <1>3, <1>6, <1>8, <2>2, <2>3 DEF SplitBuf
  <2>5. Post(c, k, e)
    BY <2>4, SetSubustrGood
  <2>6. Edits(e, k) /\ Good(e, k) /\ e.s \in Places
    BY <2>5 DEF Post, Edits
  <2>7. CASE e.ok
    BY <2>4, <2>6, <2>7 DEF SplitInto
  <2>8. CASE ~e.ok
    BY <2>4, <2>6, <2>8, DropInto
  <2> QED
    BY <2>7, <2>8
<1> QED
  BY <1>7, <1>8

\* A part in a new string.
Fetched(c, k, d) == \E e : Got(c, k, e) /\ d = [e EXCEPT !.s = IF e.ok THEN e.n ELSE Null]

\* ustrp__split_buf into a new string.
LEMMA SplitOff ==
  ASSUME NEW c, NEW k, Good(c, k), c.s = Null, NEW x \in Places, Live(c.heap[x]),
         NEW off \in Nat, off <= Len(c.heap[x].text),
         NEW sep, IsText(sep), Len(sep) = 1, NEW flags,
         SplitStep(c.heap[x].text, off, sep, flags).len # -1,
         NEW d \in SplitBuf(c, x, off, sep, flags)
  PROVE  Fetched(c, k, d)
<1>1. PICK text : text = c.heap[x].text
  OBVIOUS
<1>2. IsText(text) /\ Len(text) \in Nat /\ Len(text) <= MaxLen
  BY <1>1, PlaceOf
<1>3. PICK st : st = SplitStep(text, off, sep, flags)
  OBVIOUS
<1>4. PICK n : n = Len(text)
  OBVIOUS
<1>5. PartWithin(st, n) /\ st.len # -1
  BY <1>1, <1>2, <1>3, <1>4, SplitStepWithin
<1>6. st.off \in Nat /\ st.len \in Nat /\ st.off + st.len <= n
  BY <1>5 DEF PartWithin
<1>7. PICK pos \in Nat \ {0} : pos = st.off + 1
  BY <1>6
<1>8. PICK len \in Nat : len = st.len
  BY <1>6
<1>9. PICK src : src = Of(x, st.off)
  OBVIOUS
<1>10. PICK e \in IF "conf" \in flags THEN DupSubustr(c, x, pos, len) ELSE DupxBuf(c, c.conf, src, len) :
         d = [e EXCEPT !.s = IF e.ok THEN e.n ELSE Null]
  BY <1>1, <1>3, <1>5, <1>7, <1>8, <1>9 DEF SplitBuf
<1>11. CASE "conf" \in flags
  <2>1. Got(c, k, e)
    BY <1>10, <1>11, DupSubustrGood
  <2> QED
    BY <1>10, <2>1 DEF Fetched
<1>12. CASE "conf" \notin flags
  <2>1. FitsConf(c.conf)
    BY GoodFacts
  <2>2. SrcOK(c, src)
    BY <1>9, SrcForms
  <2>3. len <= MaxLen
    BY <1>2, <1>4, <1>6, <1>8, MaxLenNat
  <2>4. PICK q : q = c.conf
    OBVIOUS
  <2>5. Got(c, k, e)
    BY <1>10, <1>12, <2>1, <2>2, <2>3, <2>4, DupxBufGood
  <2> QED
    BY <1>10, <2>5 DEF Fetched
<1> QED
  BY <1>11, <1>12

-----------------------------------------------------------------------------
(* The state of the program *)

Holding1(v, x) == {g \in Handle : v[g] = x}
Counts(v) == [x \in Places |-> Cardinality(Holding1(v, x))]
\* The counts but for handle h.
Others(v, h) == [x \in Places |-> Cardinality(Holding1(v, x) \ {h})]

IsVar(v) == v \in [Handle -> Places \cup {Null}]

\* The inductive invariant.
IInv ==
  /\ IsVar(var)
  /\ wild = FALSE
  /\ conf \in Defaults
  /\ Heaps(heap, Counts(var), Null)

\* Handles are counted with the one in question or without it.
LEMMA CountsFacts ==
  ASSUME NEW v, IsVar(v), NEW h \in Handle
  PROVE  /\ Others(v, h) \in [Places -> Nat]
         /\ Counts(v) = With(Others(v, h), v[h])
         /\ \A g \in Handle : g # h /\ v[g] \in Places => Others(v, h)[v[g]] # 0
<1>1. \A x : IsFiniteSet(Holding1(v, x) \ {h})
  <2>1. IsFiniteSet(Handle)
    BY UstrAssumption
  <2>2. SUFFICES ASSUME NEW x PROVE IsFiniteSet(Holding1(v, x) \ {h})
    OBVIOUS
  <2>3. Holding1(v, x) \ {h} \subseteq Handle
    BY DEF Holding1
  <2> QED
    BY <2>1, <2>3, FS_Subset
<1>2. \A x : Cardinality(Holding1(v, x) \ {h}) \in Nat
  BY <1>1, FS_CardinalityType
<1>3. \A x : v[h] = x => Cardinality(Holding1(v, x)) = Cardinality(Holding1(v, x) \ {h}) + 1
  <2>1. SUFFICES ASSUME NEW x, v[h] = x
                 PROVE Cardinality(Holding1(v, x)) = Cardinality(Holding1(v, x) \ {h}) + 1
    OBVIOUS
  <2> PICK S : S = Holding1(v, x) \ {h}
    OBVIOUS
  <2>2. Holding1(v, x) = S \cup {h} /\ h \notin S
    BY <2>1 DEF Holding1
  <2>3. Cardinality(S \cup {h}) = Cardinality(S) + 1
    BY <1>1, <2>2, FS_AddElement
  <2> QED
    BY <2>2, <2>3
<1>4. \A x : v[h] # x => Holding1(v, x) \ {h} = Holding1(v, x)
  BY DEF Holding1
<1>5. Others(v, h) \in [Places -> Nat]
  BY <1>2 DEF Others
<1>6. Counts(v) = With(Others(v, h), v[h])
  BY <1>3, <1>4 DEF Counts, With, Others
<1>7. ASSUME NEW g \in Handle, g # h, v[g] \in Places
      PROVE  Others(v, h)[v[g]] # 0
  <2>1. g \in Holding1(v, v[g]) \ {h}
    BY <1>7 DEF Holding1
  <2>2. Cardinality(Holding1(v, v[g]) \ {h}) # 0
    BY <1>1, <2>1, FS_EmptySet
  <2> QED
    BY <1>7, <2>2 DEF Others
<1> QED
  BY <1>5, <1>6, <1>7

VarAfter(v, h, s, w) ==
  /\ IsVar(w) /\ w[h] = s
  /\ Counts(w) = With(Others(v, h), s)
  /\ \A g \in Handle \ {h} : w[g] = v[g]

\* A handle that takes another pointer leaves the counts of the others.
LEMMA VarSet ==
  ASSUME NEW v, IsVar(v), NEW h \in Handle, NEW s \in Places \cup {Null},
         NEW w, w = [v EXCEPT ![h] = s]
  PROVE  VarAfter(v, h, s, w)
<1>1. IsVar(w)
  BY DEF IsVar
<1>2. w[h] = s
  BY DEF IsVar
<1>3. \A g \in Handle \ {h} : w[g] = v[g]
  BY DEF IsVar
<1>4. \A x : Holding1(w, x) \ {h} = Holding1(v, x) \ {h}
  BY <1>3 DEF Holding1
<1>5. Others(w, h) = Others(v, h)
  BY <1>4 DEF Others
<1>6. Counts(w) = With(Others(w, h), w[h])
  BY <1>1, CountsFacts
<1> QED
  BY <1>1, <1>2, <1>3, <1>5, <1>6 DEF VarAfter

\* The buffer of the caller is nobody's when no handle points at it.
LEMMA TidyHeap ==
  ASSUME NEW hp, NEW k \in [Places -> Nat], Heaps(hp, k, Null), k[Fix] = 0
  PROVE  Heaps([hp EXCEPT ![Fix] = FreeBlock], k, Null)
<1> DEFINE hq == [hp EXCEPT ![Fix] = FreeBlock]
<1>1. \A x \in Places : hq[x] = IF x = Fix THEN FreeBlock ELSE hp[x]
  BY PlacesFacts DEF Heaps
<1>2. hq = [x \in Places |-> hq[x]]
  BY PlacesFacts DEF Heaps
<1>3. \A x \in Places : SoundBlock(hq[x])
  BY <1>1, FreeSound, PlacesFacts DEF Heaps
<1>4. \A a \in Addr : CountOK(hq[a], k[a])
  BY <1>1, PlacesFacts DEF Heaps
<1>5. Ro(hq[Empty]) /\ Ro(hq[Lit]) /\ hq[Empty].text = <<>>
  BY <1>1, PlacesFacts DEF Heaps
<1>6. hq[Fix].kind = "free"
  BY <1>1, PlacesFacts, FreeSound
<1> QED
  BY <1>2, <1>3, <1>4, <1>5, <1>6 DEF Heaps

-----------------------------------------------------------------------------
(* Steps *)

\* A call that ends like this keeps the invariant.
Ends(d, k) == Good(d, k) /\ d.s \in Places \cup {Null}
AllEnd(S, k) == \A d \in S : Ends(d, k)

\* A call that ends well keeps the invariant.
LEMMA StepKeeps ==
  ASSUME IInv, NEW h \in Handle, NEW req, NEW S, AllEnd(S, Others(var, h)), Step(h, req, S)
  PROVE  IInv'
<1>1. PICK c \in S : /\ heap' = Tidy(h, c)
                     /\ var' = [var EXCEPT ![h] = c.s]
                     /\ wild' = c.wild
                     /\ conf' = conf
  BY DEF Step
<1>2. Ends(c, Others(var, h))
  BY DEF AllEnd
<1>3. c.s \in Places \cup {Null} /\ Good(c, Others(var, h))
  BY <1>2 DEF Ends
<1> PICK k : k = Others(var, h)
  OBVIOUS
<1> PICK hp : hp = c.heap
  OBVIOUS
<1> PICK s : s = c.s
  OBVIOUS
<1>4. c.wild = FALSE /\ Heaps(hp, With(k, s), Null)
  BY <1>3, GoodFacts
<1>5. IsVar(var)
  BY DEF IInv
<1>6. /\ IsVar(var') /\ var'[h] = s
      /\ Counts(var') = With(k, s)
      /\ \A g \in Handle \ {h} : var'[g] = var[g]
  <2>1. var' = [var EXCEPT ![h] = s] /\ s \in Places \cup {Null}
    BY <1>1, <1>3
  <2> DEFINE v == var
             w == var'
  <2>2. IsVar(v) /\ w = [v EXCEPT ![h] = s]
    BY <1>5, <2>1
  <2> HIDE DEF v, w
  <2>3. VarAfter(v, h, s, w)
    BY <2>1, <2>2, VarSet
  <2> QED
    BY <2>3 DEF v, w, VarAfter
<1>7. With(k, s) \in [Places -> Nat]
  BY <1>3, GoodFacts
<1>8. Heaps(heap', Counts(var'), Null)
  <2>1. CASE s # Fix /\ \A g \in Handle \ {h} : var[g] # Fix
    <3>1. heap' = [hp EXCEPT ![Fix] = FreeBlock]
      BY <1>1, <2>1 DEF Tidy
    <3>2. Holding1(var', Fix) = {}
      BY <2>1, <1>6 DEF Holding1
    <3>3. Counts(var')[Fix] = 0
      BY <3>2, FS_EmptySet, PlacesFacts DEF Counts
    <3> PICK l : l = With(k, s)
      OBVIOUS
    <3>4. l[Fix] = 0 /\ l \in [Places -> Nat] /\ Heaps(hp, l, Null)
      BY <3>3, <1>4, <1>6, <1>7
    <3>5. Heaps([hp EXCEPT ![Fix] = FreeBlock], l, Null)
      BY <3>4, TidyHeap
    <3> QED
      BY <3>1, <3>5, <1>6
  <2>2. CASE ~(s # Fix /\ \A g \in Handle \ {h} : var[g] # Fix)
    <3>1. heap' = hp
      BY <1>1, <2>2 DEF Tidy
    <3> QED
      BY <3>1, <1>4, <1>6
  <2> QED
    BY <2>1, <2>2
<1> QED
  BY <1>1, <1>4, <1>6, <1>8 DEF IInv

\* How a call starts.
LEMMA StartGood ==
  ASSUME SizesFit, IInv, NEW h \in Handle, NEW c, c = Start(h), NEW k, k = Others(var, h)
  PROVE  /\ Good(c, k) /\ c.s = var[h] /\ c.ok = TRUE /\ c.heap = heap /\ c.conf = conf
         /\ FitsConf(conf)
         /\ k \in [Places -> Nat]
<1>1. /\ c = [heap |-> heap, s |-> var[h], n |-> Null, ok |-> TRUE, wild |-> wild, conf |-> conf]
      /\ c.heap = heap /\ c.s = var[h] /\ c.n = Null /\ c.ok = TRUE /\ c.wild = wild
      /\ c.conf = conf
  BY DEF Start
<1>2. conf \in Confs /\ FitsConf(conf)
  BY UstrAssumption DEF IInv, SizesFit
<1>3. IsCall(c)
  BY <1>1, <1>2 DEF IsCall, IInv
<1>4. IsVar(var)
  BY DEF IInv
<1>5. k \in [Places -> Nat] /\ Counts(var) = With(k, c.s)
  BY <1>1, <1>4, CountsFacts
<1>6. Heaps(heap, Counts(var), Null)
  BY DEF IInv
<1>7. Heaps(c.heap, With(k, c.s), Null)
  BY <1>1, <1>5, <1>6
<1>8. Good(c, k)
  BY <1>3, <1>5, <1>7 DEF Good
<1> QED
  BY <1>1, <1>2, <1>5, <1>8

\* What the other handles hold is there to be read.
LEMMA StartHeld ==
  ASSUME SizesFit, IInv, NEW h \in Handle, NEW c, c = Start(h), NEW k, k = Others(var, h), Held(h)
  PROVE  /\ Edits(c, k)
         /\ Text(c) = TextOf(h)
         /\ \A g \in Handle : Held(g) => Known(c, k, var[g]) /\ c.heap[var[g]].text = TextOf(g)
<1>1. Good(c, k) /\ c.s = var[h] /\ c.heap = heap
  BY StartGood
<1>2. IsVar(var)
  BY DEF IInv
<1>3. var[h] \in Places
  BY <1>2 DEF IsVar, Held
<1>4. Edits(c, k)
  BY <1>1, <1>3 DEF Edits
<1>5. Text(c) = TextOf(h)
  BY <1>1 DEF Text, Str, TextOf
<1>6. ASSUME NEW g \in Handle, Held(g)
      PROVE  Known(c, k, var[g]) /\ c.heap[var[g]].text = TextOf(g)
  <2>1. var[g] \in Places
    BY <1>2, <1>6 DEF IsVar, Held
  <2>2. c.heap[var[g]].text = TextOf(g)
    BY <1>1 DEF TextOf
  <2>3. g # h => k[var[g]] # 0
    BY <1>2, <2>1, CountsFacts
  <2>4. Known(c, k, var[g])
    BY <1>1, <2>1, <2>3 DEF Known, Pinned
  <2> QED
    BY <2>2, <2>4
<1> QED
  BY <1>4, <1>5, <1>6

\* What another handle holds can be read.
LEMMA OtherLive ==
  ASSUME SizesFit, IInv, NEW h \in Handle, NEW g \in Handle, g # h, Held(g)
  PROVE  /\ var[g] \in Places /\ Live(heap[var[g]]) /\ IsText(TextOf(g)) /\ LenOf(g) \in Nat
         /\ LenOf(g) <= MaxLen
<1>1. IsVar(var) /\ Heaps(heap, Counts(var), Null)
  BY DEF IInv
<1> PICK x : x = var[g]
  OBVIOUS
<1>2. x \in Places
  BY <1>1 DEF IsVar, Held
<1> PICK l : l = Counts(var)
  OBVIOUS
<1>3. l \in [Places -> Nat] /\ l[x] # 0
  <2>1. Others(var, h) \in [Places -> Nat] /\ Counts(var) = With(Others(var, h), var[h])
        /\ Others(var, h)[x] # 0
    BY <1>1, <1>2, CountsFacts
  <2> PICK o : o = Others(var, h)
    OBVIOUS
  <2> PICK y : y = var[h]
    OBVIOUS
  <2>2. o \in [Places -> Nat] /\ l = With(o, y) /\ o[x] # 0
    BY <2>1
  <2>3. With(o, y) \in [Places -> Nat] /\ With(o, y)[x] = IF x = y THEN o[x] + 1 ELSE o[x]
    BY <2>2, <1>2, WithFacts
  <2>4. o[x] \in Nat
    BY <2>2, <1>2
  <2>5. l[x] # 0
    BY <2>2, <2>3, <2>4
  <2> QED
    BY <2>2, <2>3, <2>5
<1>4. Live(heap[x]) /\ IsText(heap[x].text) /\ Len(heap[x].text) \in Nat /\ Len(heap[x].text) <= MaxLen
  BY <1>1, <1>2, <1>3, PlaceFacts
<1> QED
  BY <1>2, <1>4 DEF TextOf, LenOf

\* A call on the string of handle h, which holds one.
Begun(h, c, k) ==
  /\ h \in Handle /\ c = Start(h) /\ k = Others(var, h)
  /\ Edits(c, k)
  /\ Text(c) = TextOf(h) /\ c.s = var[h] /\ c.heap = heap /\ c.ok = TRUE
  /\ LenOf(h) \in Nat /\ LenOf(h) <= MaxLen
  /\ \A g \in Handle : Held(g) => /\ Known(c, k, var[g])
                                  /\ c.heap[var[g]].text = TextOf(g)
                                  /\ IsText(TextOf(g)) /\ LenOf(g) \in Nat
StepOf(h, S) == \E req : Step(h, req, S)
EditOf(h, peak, S) == peak <= MaxLen /\ StepOf(h, S)

\* Whether the request is an odd one makes no difference to the blocks.
LEMMA EditMakes ==
  \A h, req, peak, S : Edit(h, req, peak, S) => EditOf(h, peak, S)
BY DEF Edit, EditOf, StepOf

\* A call on a string that a handle holds.
LEMMA Begin ==
  ASSUME SizesFit, IInv, NEW h \in Handle, Held(h)
  PROVE  \E c, k : Begun(h, c, k)
<1> PICK c : c = Start(h)
  OBVIOUS
<1> PICK k : k = Others(var, h)
  OBVIOUS
<1>1. c.s = var[h] /\ c.heap = heap /\ c.ok = TRUE
  BY StartGood
<1>2. /\ Edits(c, k) /\ Text(c) = TextOf(h)
      /\ \A g \in Handle : Held(g) => Known(c, k, var[g]) /\ c.heap[var[g]].text = TextOf(g)
  BY StartHeld
<1>3. \A g \in Handle : Held(g) => IsText(TextOf(g)) /\ LenOf(g) \in Nat
  BY <1>2, KnownFacts DEF LenOf
<1>4. LenOf(h) \in Nat /\ LenOf(h) <= MaxLen
  BY <1>2, StrFacts DEF LenOf
<1> QED
  BY <1>1, <1>2, <1>3, <1>4 DEF Begun

\* An edit that ends well keeps the invariant.
LEMMA EditKeeps ==
  ASSUME IInv, NEW h, NEW c, NEW k, Begun(h, c, k), NEW S, ViaOK(c, k, S), StepOf(h, S)
  PROVE  IInv'
<1>1. h \in Handle /\ k = Others(var, h)
  BY DEF Begun
<1>2. AllEnd(S, k)
  BY DEF ViaOK, AllEnd, Ends, Post, Edits
<1>3. PICK req : Step(h, req, S)
  BY DEF StepOf
<1> QED
  BY <1>1, <1>2, <1>3, StepKeeps

\* So does one that is only made when the text has room.
LEMMA PeakKeeps ==
  ASSUME IInv, NEW h, NEW c, NEW k, Begun(h, c, k), NEW S, NEW peak, EditOf(h, peak, S),
         peak <= MaxLen => ViaOK(c, k, S)
  PROVE  IInv'
<1>1. peak <= MaxLen /\ StepOf(h, S)
  BY DEF EditOf
<1>2. ViaOK(c, k, S)
  BY <1>1
<1> QED
  BY <1>1, <1>2, EditKeeps

\* All outcomes of an edit.
LEMMA CameAll ==
  ASSUME NEW c, NEW k, NEW S, NEW n, \A d \in S : Came(c, k, d, n)
  PROVE  ViaOK(c, k, S)
BY CamePost DEF ViaOK

\* A text of the caller.
LEMMA TextsText ==
  ASSUME NEW text \in Texts
  PROVE  IsText(text) /\ Len(text) \in Nat /\ Len(text) <= MaxLen
<1>1. text \in Seq({"a", "A"}) /\ Len(text) <= MaxLen
  BY UstrAssumption
<1> QED
  BY <1>1 DEF IsText

\* Positions are positive.
LEMMA PosNat ==
  ASSUME NEW h, LenOf(h) \in Nat
  PROVE  Pos(h) \subseteq Nat \ {0}
BY DEF Pos

-----------------------------------------------------------------------------
(* Steps that take nothing from outside *)

\* ustr_realloc.
LEMMA ResizeKeeps ==
  ASSUME IInv, NEW h, NEW c, NEW k, Begun(h, c, k), Resize(h)
  PROVE  IInv'
<1>1. Edits(c, k) /\ c = Start(h)
  BY DEF Begun
<1>2. PICK size \in {0, 2, MaxLen} : StepOf(h, Realloc(c, size))
  BY <1>1 DEF Resize, StepOf
<1>3. size \in Nat
  BY <1>2, MaxLenNat
<1>4. ViaOK(c, k, Realloc(c, size))
  BY <1>1, <1>3, ReallocGood DEF ViaOK
<1> QED
  BY <1>2, <1>4, EditKeeps

\* ustr_sc_ensure_owner.
LEMMA OwnKeeps ==
  ASSUME IInv, NEW h, NEW c, NEW k, Begun(h, c, k), Own(h)
  PROVE  IInv'
<1>1. Edits(c, k) /\ c = Start(h)
  BY DEF Begun
<1>2. StepOf(h, EnsureOwner(c))
  BY <1>1 DEF Own, StepOf
<1>3. ViaOK(c, k, EnsureOwner(c))
  BY <1>1, EnsureOwnerGood DEF ViaOK
<1> QED
  BY <1>2, <1>3, EditKeeps

\* ustr_sc_del.
LEMMA ClearKeeps ==
  ASSUME IInv, NEW h, NEW c, NEW k, Begun(h, c, k), Clear(h)
  PROVE  IInv'
<1>1. Edits(c, k) /\ c = Start(h)
  BY DEF Begun
<1>2. StepOf(h, ScDel(c))
  BY <1>1 DEF Clear, StepOf
<1>3. ViaOK(c, k, ScDel(c))
  BY <1>1, ScDelGood DEF ViaOK
<1> QED
  BY <1>2, <1>3, EditKeeps

\* ustr_set_empty.
LEMMA EmptyKeeps ==
  ASSUME IInv, NEW h, NEW c, NEW k, Begun(h, c, k), Empty1(h)
  PROVE  IInv'
<1>1. Edits(c, k) /\ c = Start(h)
  BY DEF Begun
<1>2. StepOf(h, SetEmpty(c))
  BY <1>1 DEF Empty1, StepOf
<1>3. ViaOK(c, k, SetEmpty(c))
  BY <1>1, SetEmptyGood DEF ViaOK
<1> QED
  BY <1>2, <1>3, EditKeeps

\* ustr_del.
LEMMA DeleteKeeps ==
  ASSUME IInv, NEW h, NEW c, NEW k, Begun(h, c, k), Delete(h)
  PROVE  IInv'
<1>1. Edits(c, k) /\ c = Start(h) /\ LenOf(h) \in Nat
  BY DEF Begun
<1>2. PICK len \in 0 .. LenOf(h) + 1 : StepOf(h, Del(c, len))
  BY <1>1 DEF Delete, StepOf
<1>3. len \in Nat
  BY <1>1, <1>2
<1>4. ViaOK(c, k, Del(c, len))
  <2>1. \A d \in Del(c, len) : Came(c, k, d, Len(Text(c)) - len)
    BY <1>1, <1>3, DelCame
  <2> QED
    BY <2>1, CameAll
<1> QED
  BY <1>2, <1>4, EditKeeps

\* ustr_del_subustr.
LEMMA DeletePartKeeps ==
  ASSUME IInv, NEW h, NEW c, NEW k, Begun(h, c, k), DeletePart(h)
  PROVE  IInv'
<1>1. Edits(c, k) /\ c = Start(h) /\ LenOf(h) \in Nat
  BY DEF Begun
<1>2. PICK pos \in Pos(h), len \in 0 .. 2 : StepOf(h, DelSubustr(c, pos, len))
  BY <1>1 DEF DeletePart, StepOf
<1>3. pos \in Nat \ {0} /\ len \in Nat
  BY <1>1, <1>2, PosNat
<1>4. ViaOK(c, k, DelSubustr(c, pos, len))
  <2>1. \A d \in DelSubustr(c, pos, len) : Came(c, k, d, Len(Text(c)) - len)
    BY <1>1, <1>3, DelSubustrCame
  <2> QED
    BY <2>1, CameAll
<1> QED
  BY <1>2, <1>4, EditKeeps

\* ustr_sc_reverse.
LEMMA ReverseKeeps ==
  ASSUME IInv, NEW h, NEW c, NEW k, Begun(h, c, k), Reverse1(h)
  PROVE  IInv'
<1>1. Edits(c, k) /\ c = Start(h)
  BY DEF Begun
<1>2. StepOf(h, ScReverse(c))
  BY <1>1 DEF Reverse1, StepOf
<1>3. ViaOK(c, k, ScReverse(c))
  BY <1>1, ScReverseGood DEF ViaOK
<1> QED
  BY <1>2, <1>3, EditKeeps

\* ustr_sc_toupper, ustr_sc_tolower.
LEMMA ChangeCaseKeeps ==
  ASSUME IInv, NEW h, NEW c, NEW k, Begun(h, c, k), ChangeCase(h)
  PROVE  IInv'
<1>1. Edits(c, k) /\ c = Start(h)
  BY DEF Begun
<1>2. PICK to : StepOf(h, ScMap(c, to))
  BY <1>1 DEF ChangeCase, StepOf
<1>3. ViaOK(c, k, ScMap(c, to))
  BY <1>1, ScMapGood DEF ViaOK
<1> QED
  BY <1>2, <1>3, EditKeeps

\* ustr_sc_ltrim_chrs, ustr_sc_rtrim_chrs, ustr_sc_trim_chrs.
LEMMA TrimCharsKeeps ==
  ASSUME IInv, NEW h, NEW c, NEW k, Begun(h, c, k), TrimChars(h)
  PROVE  IInv'
<1>1. Edits(c, k) /\ c = Start(h)
  BY DEF Begun
<1> PICK chrs : chrs = {"a"}
  OBVIOUS
<1>2. \/ StepOf(h, LTrim(c, chrs))
      \/ StepOf(h, RTrim(c, chrs))
      \/ StepOf(h, Trim(c, chrs))
  BY <1>1 DEF TrimChars, StepOf
<1>3. ViaOK(c, k, LTrim(c, chrs))
  BY <1>1, LTrimGood DEF ViaOK
<1>4. ViaOK(c, k, RTrim(c, chrs))
  BY <1>1, RTrimGood DEF ViaOK
<1>5. ViaOK(c, k, Trim(c, chrs))
  BY <1>1, TrimGood DEF ViaOK
<1> QED
  BY <1>2, <1>3, <1>4, <1>5, EditKeeps

\* ustr_setf_enomem_clr.
LEMMA ClrEnomemKeeps ==
  ASSUME IInv, NEW h, NEW c, NEW k, Begun(h, c, k), ClrEnomem(h)
  PROVE  IInv'
<1>1. Edits(c, k) /\ c = Start(h)
  BY DEF Begun
<1> PICK d : d = SetEnomem(c, FALSE)
  OBVIOUS
<1>2. StepOf(h, {d})
  BY <1>1 DEF ClrEnomem, StepOf
<1>3. Post(c, k, d)
  BY <1>1, FlagGood
<1>4. ViaOK(c, k, {d})
  BY <1>3 DEF ViaOK
<1> QED
  BY <1>2, <1>4, EditKeeps

-----------------------------------------------------------------------------
(* Steps that put text into a string *)

\* Text of the caller behind or instead of the text.
LEMMA PutTextKeeps ==
  ASSUME IInv, NEW h, NEW c, NEW k, Begun(h, c, k), PutText(h)
  PROVE  IInv'
<1>1. Edits(c, k) /\ c = Start(h) /\ LenOf(h) \in Nat /\ Text(c) = TextOf(h)
  BY DEF Begun
<1>2. PICK text \in Texts :
        \/ EditOf(h, LenOf(h) + Len(text), AddBuf(c, Buf(text), Len(text)))
        \/ EditOf(h, LenOf(h) + Len(text), AddFmt(c, text))
        \/ /\ text = Rep("A", Len(text))
           /\ EditOf(h, LenOf(h) + Len(text), AddRepChr(c, "A", Len(text)))
        \/ EditOf(h, Len(text), SetBuf(c, Buf(text), Len(text)))
        \/ EditOf(h, Len(text), SetFmt(c, text))
        \/ text = Rep("A", Len(text)) /\ EditOf(h, Len(text), SetRepChr(c, "A", Len(text)))
  BY <1>1, EditMakes DEF PutText
<1> PICK len : len = Len(text)
  OBVIOUS
<1> PICK n : n = LenOf(h)
  OBVIOUS
<1> PICK src : src = Buf(text)
  OBVIOUS
<1>3. len \in Nat /\ IsText(text) /\ len <= MaxLen /\ n \in Nat /\ Len(Text(c)) = n
  BY <1>1, TextsText DEF LenOf
<1>4. HeldSrc(c, k, src)
  BY SrcForms
<1>5. CASE EditOf(h, n + len, AddBuf(c, src, len))
  <2>1. ASSUME n + len <= MaxLen PROVE ViaOK(c, k, AddBuf(c, src, len))
    <3>1. \A d \in AddBuf(c, src, len) : Came(c, k, d, n + len)
      BY <1>1, <1>3, <1>4, <2>1, AddBufGood
    <3> QED
      BY <3>1, CameAll
  <2> QED
    BY <1>5, <2>1, PeakKeeps
<1>6. CASE EditOf(h, n + len, AddFmt(c, text))
  <2>1. ASSUME n + len <= MaxLen PROVE ViaOK(c, k, AddFmt(c, text))
    BY <1>1, <1>3, <2>1, AddFmtGood DEF ViaOK
  <2> QED
    BY <1>6, <2>1, PeakKeeps
<1>7. CASE EditOf(h, len, SetBuf(c, src, len))
  <2>1. \A d \in SetBuf(c, src, len) : Came(c, k, d, len)
    BY <1>1, <1>3, <1>4, SetBufGood
  <2>2. ViaOK(c, k, SetBuf(c, src, len))
    BY <2>1, CameAll
  <2> QED
    BY <1>7, <2>2, PeakKeeps
<1>8. CASE EditOf(h, len, SetFmt(c, text))
  <2>1. ViaOK(c, k, SetFmt(c, text))
    BY <1>1, <1>3, SetFmtGood DEF ViaOK
  <2> QED
    BY <1>8, <2>1, PeakKeeps
<1>9. text = Rep("A", len) => /\ AddRepChr(c, "A", len) = AddBuf(c, src, len)
                              /\ SetRepChr(c, "A", len) = SetBuf(c, src, len)
  BY DEF AddRepChr, SetRepChr
<1> QED
  BY <1>2, <1>5, <1>6, <1>7, <1>8, <1>9

\* Text of the caller at a position.
LEMMA PutTextAtKeeps ==
  ASSUME IInv, NEW h, NEW c, NEW k, Begun(h, c, k), PutTextAt(h)
  PROVE  IInv'
<1>1. Edits(c, k) /\ c = Start(h) /\ LenOf(h) \in Nat /\ Text(c) = TextOf(h)
  BY DEF Begun
<1>2. PICK text \in Texts, pos \in Pos(h) :
        \/ EditOf(h, LenOf(h) + Len(text), InsBuf(c, pos - 1, Buf(text), Len(text)))
        \/ EditOf(h, LenOf(h) + Len(text), InsFmt(c, pos - 1, text))
        \/ /\ text = Rep("A", Len(text))
           /\ EditOf(h, LenOf(h) + Len(text), InsRepChr(c, pos - 1, "A", Len(text)))
        \/ EditOf(h, pos - 1 + Len(text), SubBuf(c, pos, Buf(text), Len(text)))
        \/ EditOf(h, pos - 1 + Len(text), SubFmt(c, pos, text))
        \/ /\ text = Rep("A", Len(text))
           /\ EditOf(h, pos - 1 + Len(text), SubRepChr(c, pos, "A", Len(text)))
  BY <1>1, EditMakes DEF PutTextAt
<1> PICK len : len = Len(text)
  OBVIOUS
<1> PICK n : n = LenOf(h)
  OBVIOUS
<1> PICK src : src = Buf(text)
  OBVIOUS
<1>3. len \in Nat /\ IsText(text) /\ n \in Nat /\ Len(Text(c)) = n
  BY <1>1, TextsText DEF LenOf
<1>4. HeldSrc(c, k, src)
  BY SrcForms
<1>p. pos \in Nat \ {0}
  BY <1>1, PosNat
<1> PICK off : off = pos - 1
  OBVIOUS
<1>o. off \in Nat
  BY <1>p
<1>5. CASE EditOf(h, n + len, InsBuf(c, off, src, len))
  <2>1. ASSUME n + len <= MaxLen PROVE ViaOK(c, k, InsBuf(c, off, src, len))
    <3>1. \A d \in InsBuf(c, off, src, len) : Came(c, k, d, n + len)
      BY <1>1, <1>3, <1>4, <1>o, <2>1, InsBufGood
    <3> QED
      BY <3>1, CameAll
  <2> QED
    BY <1>5, <2>1, PeakKeeps
<1>6. CASE EditOf(h, n + len, InsFmt(c, off, text))
  <2>1. ASSUME n + len <= MaxLen PROVE ViaOK(c, k, InsFmt(c, off, text))
    BY <1>1, <1>3, <1>o, <2>1, InsFmtGood DEF ViaOK
  <2> QED
    BY <1>6, <2>1, PeakKeeps
<1>7. CASE EditOf(h, off + len, SubBuf(c, pos, src, len))
  <2>1. ASSUME off + len <= MaxLen PROVE ViaOK(c, k, SubBuf(c, pos, src, len))
    <3>1. \A d \in SubBuf(c, pos, src, len) : Post(c, k, d)
      BY <1>1, <1>3, <1>4, <1>p, <2>1, SubBufGood, CamePost
    <3> QED
      BY <3>1 DEF ViaOK
  <2> QED
    BY <1>7, <2>1, PeakKeeps
<1>8. CASE EditOf(h, off + len, SubFmt(c, pos, text))
  <2>1. ASSUME off + len <= MaxLen PROVE ViaOK(c, k, SubFmt(c, pos, text))
    BY <1>1, <1>3, <1>p, <2>1, SubFmtGood DEF ViaOK
  <2> QED
    BY <1>8, <2>1, PeakKeeps
<1>9. text = Rep("A", len) => /\ InsRepChr(c, off, "A", len) = InsBuf(c, off, src, len)
                              /\ SubRepChr(c, pos, "A", len) = SubBuf(c, pos, src, len)
  BY DEF InsRepChr, SubRepChr
<1> QED
  BY <1>2, <1>5, <1>6, <1>7, <1>8, <1>9

\* Text of the caller for a part of the text.
LEMMA ExchangeTextKeeps ==
  ASSUME IInv, NEW h, NEW c, NEW k, Begun(h, c, k), ExchangeText(h)
  PROVE  IInv'
<1>1. Edits(c, k) /\ c = Start(h) /\ LenOf(h) \in Nat /\ Text(c) = TextOf(h)
  BY DEF Begun
<1>2. PICK text \in Texts, pos \in Pos(h), olen \in 0 .. 2 :
        \/ EditOf(h, LenOf(h) + Len(text) - olen, ScSubBuf(c, pos, olen, Buf(text), Len(text)))
        \/ EditOf(h, LenOf(h) + Len(text) - olen, ScSubFmt(c, pos, olen, text))
        \/ /\ text = Rep("A", Len(text))
           /\ EditOf(h, LenOf(h) + Len(text) - olen, ScSubRepChr(c, pos, olen, "A", Len(text)))
  BY <1>1, EditMakes DEF ExchangeText
<1> PICK len : len = Len(text)
  OBVIOUS
<1> PICK src : src = Buf(text)
  OBVIOUS
<1> PICK n : n = LenOf(h) + len - olen
  OBVIOUS
<1>3. len \in Nat /\ IsText(text) /\ n = Len(Text(c)) + len - olen
  BY <1>1, TextsText DEF LenOf
<1>4. HeldSrc(c, k, src)
  BY SrcForms
<1>5. pos \in Nat \ {0} /\ olen \in Nat
  BY <1>1, PosNat
<1>6. CASE EditOf(h, n, ScSubBuf(c, pos, olen, src, len))
  <2>1. ASSUME n <= MaxLen PROVE ViaOK(c, k, ScSubBuf(c, pos, olen, src, len))
    <3>1. \A d \in ScSubBuf(c, pos, olen, src, len) : Came(c, k, d, n)
      BY <1>1, <1>3, <1>4, <1>5, <2>1, ScSubBufGood
    <3> QED
      BY <3>1, CameAll
  <2> QED
    BY <1>6, <2>1, PeakKeeps
<1>7. CASE EditOf(h, n, ScSubFmt(c, pos, olen, text))
  <2>1. ASSUME n <= MaxLen PROVE ViaOK(c, k, ScSubFmt(c, pos, olen, text))
    BY <1>1, <1>3, <1>5, <2>1, ScSubFmtGood DEF ViaOK
  <2> QED
    BY <1>7, <2>1, PeakKeeps
<1>8. text = Rep("A", len) => ScSubRepChr(c, pos, olen, "A", len) = ScSubBuf(c, pos, olen, src, len)
  BY DEF ScSubRepChr
<1> QED
  BY <1>2, <1>6, <1>7, <1>8

\* The text of another string, or of the string itself.
LEMMA PutStringKeeps ==
  ASSUME IInv, NEW h, NEW c, NEW k, Begun(h, c, k), NEW g \in Handle, Held(g), PutString(h, g)
  PROVE  IInv'
<1>1. Edits(c, k) /\ c = Start(h) /\ LenOf(h) \in Nat /\ Text(c) = TextOf(h) /\ c.s = var[h]
      /\ c.heap = heap
  BY DEF Begun
<1>2. Known(c, k, var[g]) /\ c.heap[var[g]].text = TextOf(g) /\ LenOf(g) \in Nat
  BY DEF Begun
<1> PICK x : x = var[g]
  OBVIOUS
<1> PICK n : n = LenOf(h)
  OBVIOUS
<1> PICK m : m = LenOf(g)
  OBVIOUS
<1> DEFINE Unchecked(pos) == x = c.s /\ n = 0 /\ Owner(Str(c)) /\ pos > 1
<1>3. \/ EditOf(h, n + m, Add(c, x))
      \/ EditOf(h, m, Set(c, x))
      \/ \E pos \in Pos(h) : ~Unchecked(pos) /\ EditOf(h, n + m, Ins(c, pos - 1, x))
      \/ \E pos \in Pos(h) : EditOf(h, pos - 1 + m, Sub(c, pos, x))
      \/ \E pos \in Pos(h), olen \in 0 .. 2 :
           (olen = 0 => ~Unchecked(pos)) /\ EditOf(h, n + m - olen, ScSub(c, pos, olen, x))
  <2>1. Str(c) = heap[var[h]]
    BY <1>1 DEF Str
  <2> QED
    BY <1>1, <2>1, EditMakes DEF PutString
<1>4. n \in Nat /\ m \in Nat /\ Len(Text(c)) = n /\ Known(c, k, x) /\ Len(c.heap[x].text) = m
  BY <1>1, <1>2 DEF LenOf
<1> HIDE DEF Unchecked
<1>5. CASE EditOf(h, n + m, Add(c, x))
  <2>1. ASSUME n + m <= MaxLen PROVE ViaOK(c, k, Add(c, x))
    <3>1. \A d \in Add(c, x) : Came(c, k, d, n + m)
      BY <1>1, <1>4, <2>1, AddGood
    <3> QED
      BY <3>1, CameAll
  <2> QED
    BY <1>5, <2>1, PeakKeeps
<1>6. CASE EditOf(h, m, Set(c, x))
  <2>1. \A d \in Set(c, x) : Came(c, k, d, m)
    BY <1>1, <1>4, SetGood
  <2>2. ViaOK(c, k, Set(c, x))
    BY <2>1, CameAll
  <2> QED
    BY <1>6, <2>2, PeakKeeps
<1>7. ASSUME NEW pos \in Pos(h), ~Unchecked(pos), EditOf(h, n + m, Ins(c, pos - 1, x)) PROVE IInv'
  <2> PICK off : off = pos - 1
    OBVIOUS
  <2>1. pos \in Nat \ {0} /\ off \in Nat
    BY <1>1, PosNat
  <2>2. x = c.s /\ Owner(Str(c)) /\ n = 0 => off = 0
    BY <1>7, <2>1 DEF Unchecked
  <2>3. ASSUME n + m <= MaxLen PROVE ViaOK(c, k, Ins(c, off, x))
    <3>1. \A d \in Ins(c, off, x) : Came(c, k, d, n + m)
      BY <1>1, <1>4, <2>1, <2>2, <2>3, InsGood
    <3> QED
      BY <3>1, CameAll
  <2> QED
    BY <1>7, <2>3, PeakKeeps
<1>8. ASSUME NEW pos \in Pos(h), EditOf(h, pos - 1 + m, Sub(c, pos, x)) PROVE IInv'
  <2>1. pos \in Nat \ {0}
    BY <1>1, PosNat
  <2>2. ASSUME pos - 1 + m <= MaxLen PROVE ViaOK(c, k, Sub(c, pos, x))
    BY <1>1, <1>4, <2>1, <2>2, SubGood DEF ViaOK
  <2> QED
    BY <1>8, <2>2, PeakKeeps
<1>9. ASSUME NEW pos \in Pos(h), NEW olen \in 0 .. 2, olen = 0 => ~Unchecked(pos),
             EditOf(h, n + m - olen, ScSub(c, pos, olen, x))
      PROVE  IInv'
  <2>1. pos \in Nat \ {0} /\ olen \in Nat
    BY <1>1, PosNat
  <2>2. olen = 0 /\ x = c.s /\ Owner(Str(c)) /\ n = 0 => pos = 1
    BY <1>9, <2>1 DEF Unchecked
  <2>3. ASSUME n + m - olen <= MaxLen PROVE ViaOK(c, k, ScSub(c, pos, olen, x))
    BY <1>1, <1>4, <2>1, <2>2, <2>3, ScSubGood DEF ViaOK
  <2> QED
    BY <1>9, <2>3, PeakKeeps
<1> QED
  BY <1>3, <1>5, <1>6, <1>7, <1>8, <1>9

\* A part of the text of another string, or of the string itself.
LEMMA PutPartKeeps ==
  ASSUME IInv, NEW h, NEW c, NEW k, Begun(h, c, k), NEW g \in Handle, Held(g), PutPart(h, g)
  PROVE  IInv'
<1>1. Edits(c, k) /\ c = Start(h) /\ LenOf(h) \in Nat /\ Text(c) = TextOf(h)
  BY DEF Begun
<1>2. Known(c, k, var[g]) /\ LenOf(g) \in Nat
  BY DEF Begun
<1> PICK x : x = var[g]
  OBVIOUS
<1> PICK n : n = LenOf(h)
  OBVIOUS
<1> DEFINE Makes(peak, S) == \E req : Edit(h, req, peak, S)
<1>e. /\ \A peak, S : Makes(peak, S) => EditOf(h, peak, S)
      /\ \A req, peak, S : Edit(h, req, peak, S) => Makes(peak, S)
  BY EditMakes
<1> HIDE DEF Makes
<1>3. PICK from \in Pos(g), len \in 0 .. 2 : PutPartOf(h, g, from, len)
  BY DEF PutPart
<1>m. \/ Makes(LenOf(h) + len, AddSubustr(Start(h), var[g], from, len))
      \/ Makes(len, SetSubustr(Start(h), var[g], from, len))
      \/ \E pos \in {0} \cup Pos(h) :
           Makes(LenOf(h) + len, InsSubustr(Start(h), pos, var[g], from, len))
      \/ \E pos \in Pos(h) :
           Makes(pos - 1 + len, SubSubustr(Start(h), pos, var[g], from, len))
      \/ \E pos \in Pos(h), olen \in 0 .. 2 :
           Makes(LenOf(h) + len - olen, ScSubSubustr(Start(h), pos, olen, var[g], from, len))
  BY <1>3, <1>e DEF PutPartOf
<1>n. \/ EditOf(h, n + len, AddSubustr(c, x, from, len))
      \/ EditOf(h, len, SetSubustr(c, x, from, len))
      \/ \E pos \in {0} \cup Pos(h) : EditOf(h, n + len, InsSubustr(c, pos, x, from, len))
      \/ \E pos \in Pos(h) : EditOf(h, pos - 1 + len, SubSubustr(c, pos, x, from, len))
      \/ \E pos \in Pos(h), olen \in 0 .. 2 :
           EditOf(h, n + len - olen, ScSubSubustr(c, pos, olen, x, from, len))
  BY <1>1, <1>e, <1>m
<1>4. n \in Nat /\ Len(Text(c)) = n /\ Known(c, k, x) /\ from \in Nat \ {0} /\ len \in Nat
  BY <1>1, <1>2, PosNat DEF LenOf
<1>5. CASE EditOf(h, n + len, AddSubustr(c, x, from, len))
  <2>1. ASSUME n + len <= MaxLen PROVE ViaOK(c, k, AddSubustr(c, x, from, len))
    <3>1. \A d \in AddSubustr(c, x, from, len) : Came(c, k, d, n + len)
      BY <1>1, <1>4, <2>1, AddSubustrGood
    <3> QED
      BY <3>1, CameAll
  <2> QED
    BY <1>5, <2>1, PeakKeeps
<1>6. CASE EditOf(h, len, SetSubustr(c, x, from, len))
  <2>1. ViaOK(c, k, SetSubustr(c, x, from, len))
    BY <1>1, <1>4, SetSubustrGood DEF ViaOK
  <2> QED
    BY <1>6, <2>1, PeakKeeps
<1>7. ASSUME NEW pos \in {0} \cup Pos(h), EditOf(h, n + len, InsSubustr(c, pos, x, from, len))
      PROVE  IInv'
  <2>1. pos \in Nat
    BY <1>1, PosNat
  <2>2. ASSUME n + len <= MaxLen PROVE ViaOK(c, k, InsSubustr(c, pos, x, from, len))
    <3>1. \A d \in InsSubustr(c, pos, x, from, len) : Came(c, k, d, n + len)
      BY <1>1, <1>4, <2>1, <2>2, InsSubustrGood
    <3> QED
      BY <3>1, CameAll
  <2> QED
    BY <1>7, <2>2, PeakKeeps
<1>8. ASSUME NEW pos \in Pos(h), EditOf(h, pos - 1 + len, SubSubustr(c, pos, x, from, len))
      PROVE  IInv'
  <2>1. pos \in Nat \ {0}
    BY <1>1, PosNat
  <2>2. ASSUME pos - 1 + len <= MaxLen PROVE ViaOK(c, k, SubSubustr(c, pos, x, from, len))
    BY <1>1, <1>4, <2>1, <2>2, SubSubustrGood DEF ViaOK
  <2> QED
    BY <1>8, <2>2, PeakKeeps
<1>9. ASSUME NEW pos \in Pos(h), NEW olen \in 0 .. 2,
             EditOf(h, n + len - olen, ScSubSubustr(c, pos, olen, x, from, len))
      PROVE  IInv'
  <2>1. pos \in Nat \ {0} /\ olen \in Nat
    BY <1>1, PosNat
  <2>2. ASSUME n + len - olen <= MaxLen PROVE ViaOK(c, k, ScSubSubustr(c, pos, olen, x, from, len))
    BY <1>1, <1>4, <2>1, <2>2, ScSubSubustrGood DEF ViaOK
  <2> QED
    BY <1>9, <2>2, PeakKeeps
<1> QED
  BY <1>n, <1>5, <1>6, <1>7, <1>8, <1>9

\* ustr_replace_buf.
LEMMA ReplaceTextKeeps ==
  ASSUME IInv, NEW h, NEW c, NEW k, Begun(h, c, k), ReplaceText(h)
  PROVE  IInv'
<1>1. Edits(c, k) /\ c = Start(h) /\ Text(c) = TextOf(h)
  BY DEF Begun
<1>2. PICK old \in Texts, new \in Texts, lim \in 0 .. 2 :
        /\ old # <<>>
        /\ \/ EditOf(h, Len(Spliced(Text(c), old, new, lim)), ReplaceBuf(c, old, new, lim))
           \/ /\ old = Rep("A", Len(old)) /\ new = Rep("A", Len(new))
              /\ EditOf(h, Len(Spliced(Text(c), old, new, lim)),
                        ReplaceRepChr(c, "A", Len(old), "A", Len(new), lim))
  BY <1>1, EditMakes DEF ReplaceText
<1> PICK total : total = Spliced(Text(c), old, new, lim)
  OBVIOUS
<1>3. IsText(old) /\ IsText(new) /\ Len(old) # 0
  BY <1>2, TextsText, EmptyText
<1>4. lim \in Nat
  OBVIOUS
<1>5. ASSUME Len(total) <= MaxLen PROVE ViaOK(c, k, ReplaceBuf(c, old, new, lim))
  BY <1>1, <1>3, <1>4, <1>5, ReplaceBufGood DEF ViaOK
<1>6. EditOf(h, Len(total), ReplaceBuf(c, old, new, lim))
  BY <1>2 DEF ReplaceRepChr
<1> QED
  BY <1>5, <1>6, PeakKeeps

\* ustr_replace.
LEMMA ReplaceStringKeeps ==
  ASSUME IInv, NEW h, NEW c, NEW k, Begun(h, c, k), NEW g1 \in Handle, Held(g1),
         NEW g2 \in Handle, Held(g2), ReplaceString(h, g1, g2)
  PROVE  IInv'
<1>1. Edits(c, k) /\ c = Start(h) /\ Text(c) = TextOf(h)
  BY DEF Begun
<1>2. /\ Known(c, k, var[g1]) /\ c.heap[var[g1]].text = TextOf(g1) /\ IsText(TextOf(g1))
      /\ Known(c, k, var[g2]) /\ c.heap[var[g2]].text = TextOf(g2)
  BY DEF Begun
<1> PICK x : x = var[g1]
  OBVIOUS
<1> PICK y : y = var[g2]
  OBVIOUS
<1> PICK lim \in Nat : lim = 0
  OBVIOUS
<1> PICK old : old = TextOf(g1)
  OBVIOUS
<1> PICK new : new = TextOf(g2)
  OBVIOUS
<1>3. old # <<>> /\ EditOf(h, Len(Spliced(Text(c), old, new, lim)), Replace(c, x, y, lim))
  BY <1>1, EditMakes DEF ReplaceString
<1>4. Known(c, k, x) /\ Known(c, k, y) /\ c.heap[x].text = old /\ c.heap[y].text = new
      /\ Len(c.heap[x].text) # 0
  BY <1>2, <1>3, EmptyText
<1>5. ASSUME Len(Spliced(Text(c), old, new, lim)) <= MaxLen PROVE ViaOK(c, k, Replace(c, x, y, lim))
  <2>1. Len(Spliced(Text(c), c.heap[x].text, c.heap[y].text, lim)) <= MaxLen
    BY <1>4, <1>5
  <2> QED
    BY <1>1, <1>4, <2>1, ReplaceGood DEF ViaOK
<1> QED
  BY <1>3, <1>5, PeakKeeps

-----------------------------------------------------------------------------
(* Files *)

\* ustr_io_get.
LEMMA GetSomeKeeps ==
  ASSUME IInv, NEW h, NEW c, NEW k, Begun(h, c, k), GetSome(h)
  PROVE  IInv'
<1>1. Edits(c, k) /\ c = Start(h) /\ LenOf(h) \in Nat /\ Text(c) = TextOf(h)
  BY DEF Begun
<1>2. PICK input \in Texts, num \in 0 .. 2 :
        Len(input) <= num /\ EditOf(h, LenOf(h) + num, IoGet(c, num, input))
  BY <1>1, EditMakes DEF GetSome
<1>3. num \in Nat /\ IsText(input) /\ LenOf(h) = Len(Text(c))
  BY <1>1, TextsText DEF LenOf
<1>4. ASSUME LenOf(h) + num <= MaxLen PROVE ViaOK(c, k, IoGet(c, num, input))
  <2>1. Len(Text(c)) + num <= MaxLen
    BY <1>3, <1>4
  <2> QED
    BY <1>1, <1>2, <1>3, <2>1, IoGetGood DEF ViaOK
<1> QED
  BY <1>2, <1>4, PeakKeeps

\* ustr_io_getfile.
LEMMA GetAllKeeps ==
  ASSUME IInv, NEW h, NEW c, NEW k, Begun(h, c, k), GetAll(h)
  PROVE  IInv'
<1>1. Edits(c, k) /\ c = Start(h)
  BY DEF Begun
<1>2. PICK input \in Texts :
        /\ \A r \in UNION {FileRounds(c, input)[i] : i \in 0 .. Len(input)} :
              r.more => Len(Text(r.c)) + Asked(r.c) <= MaxLen
        /\ StepOf(h, IoGetFile(c, input))
  BY <1>1 DEF GetAll, StepOf
<1>3. \A i \in 0 .. Len(input) : \A r \in FileRounds(c, input)[i] :
        r.more => Len(Text(r.c)) + Asked(r.c) <= MaxLen
  BY <1>2
<1>4. IsText(input)
  BY TextsText
<1>5. \A d \in IoGetFile(c, input) : Post(c, k, d)
  BY <1>1, <1>3, <1>4, IoGetFileGood
<1>6. ViaOK(c, k, IoGetFile(c, input))
  BY <1>5 DEF ViaOK
<1> QED
  BY <1>2, <1>6, EditKeeps

\* ustr_io_getdelim.
LEMMA GetLineKeeps ==
  ASSUME IInv, NEW h, NEW c, NEW k, Begun(h, c, k), GetLine(h)
  PROVE  IInv'
<1>1. Edits(c, k) /\ c = Start(h)
  BY DEF Begun
<1> PICK delim : delim = "A"
  OBVIOUS
<1>2. PICK input \in Texts :
        /\ \A r \in UNION {LineRounds(c, input, delim)[i] : i \in 0 .. Len(input)} :
              r.more => Len(Text(r.c)) + LineSz <= MaxLen
        /\ StepOf(h, IoGetDelim(c, input, delim))
  BY <1>1 DEF GetLine, StepOf
<1>3. \A i \in 0 .. Len(input) : \A r \in LineRounds(c, input, delim)[i] :
        r.more => Len(Text(r.c)) + LineSz <= MaxLen
  BY <1>2
<1>4. IsText(input)
  BY TextsText
<1>5. \A d \in IoGetDelim(c, input, delim) : Post(c, k, d)
  BY <1>1, <1>3, <1>4, IoGetDelimGood
<1>6. ViaOK(c, k, IoGetDelim(c, input, delim))
  BY <1>5 DEF ViaOK
<1> QED
  BY <1>2, <1>6, EditKeeps

\* ustr_io_put.
LEMMA PutSomeKeeps ==
  ASSUME IInv, NEW h, NEW c, NEW k, Begun(h, c, k), PutSome(h)
  PROVE  IInv'
<1>1. Edits(c, k) /\ c = Start(h) /\ LenOf(h) \in Nat
  BY DEF Begun
<1>2. PICK beglen \in 0 .. LenOf(h) + 1, put \in 0 .. 2 :
        \E d \in IoPut(c, beglen, put) : \E ok \in BOOLEAN : StepOf(h, {[d EXCEPT !.ok = ok]})
  <2>1. PICK beglen \in 0 .. LenOf(h) + 1, put \in 0 .. 2 :
          \E d \in IoPut(c, beglen, put) : StepOf(h, {[d EXCEPT !.ok = ~(beglen > LenOf(h))]})
    BY <1>1 DEF PutSome, StepOf
  <2>2. PICK d \in IoPut(c, beglen, put) : StepOf(h, {[d EXCEPT !.ok = ~(beglen > LenOf(h))]})
    BY <2>1
  <2>3. CASE beglen > LenOf(h)
    <3>1. [d EXCEPT !.ok = ~(beglen > LenOf(h))] = [d EXCEPT !.ok = FALSE]
      BY <2>3
    <3> QED
      BY <2>2, <3>1
  <2>4. CASE ~(beglen > LenOf(h))
    <3>1. [d EXCEPT !.ok = ~(beglen > LenOf(h))] = [d EXCEPT !.ok = TRUE]
      BY <2>4
    <3> QED
      BY <2>2, <3>1
  <2> QED
    BY <2>3, <2>4
<1>3. PICK d \in IoPut(c, beglen, put), ok \in BOOLEAN : StepOf(h, {[d EXCEPT !.ok = ok]})
  BY <1>2
<1>4. beglen \in Nat /\ put \in Nat
  BY <1>1
<1>5. Post(c, k, d)
  BY <1>1, <1>3, <1>4, IoPutGood
<1> PICK e : e = [d EXCEPT !.ok = ok]
  OBVIOUS
<1>6. Good(d, k) /\ Edits(d, k)
  BY <1>5 DEF Post, Edits
<1>7. Post(d, k, e)
  BY <1>6, Answered
<1>8. Post(c, k, e)
  BY <1>5, <1>7, PostTrans
<1>9. ViaOK(c, k, {e})
  BY <1>8 DEF ViaOK
<1> QED
  BY <1>3, <1>9, EditKeeps

-----------------------------------------------------------------------------
(* Sharing and dropping *)

\* ustr_sc_free.
LEMMA FreeKeeps ==
  ASSUME SizesFit, IInv, NEW h \in Handle, Free1(h)
  PROVE  IInv'
<1>1. Held(h)
  BY DEF Free1
<1>2. PICK c, k : Begun(h, c, k)
  BY <1>1, Begin
<1>3. Edits(c, k) /\ Good(c, k) /\ c = Start(h) /\ k = Others(var, h)
  BY <1>2 DEF Begun, Edits
<1> PICK e : e = Done(c)
  OBVIOUS
<1> PICK d : d = ScFree2(e, Null)
  OBVIOUS
<1>4. PICK req : Step(h, req, {d})
  BY <1>3 DEF Free1
<1>5. Edits(e, k)
  BY <1>3, DoneGood
<1>6. Good(d, k) /\ d.s = Null
  BY <1>5, DropGood
<1>7. AllEnd({d}, k)
  BY <1>6 DEF AllEnd, Ends
<1> QED
  BY <1>3, <1>4, <1>7, StepKeeps

\* ustr_setf_share.
LEMMA ShareKeeps ==
  ASSUME IInv, NEW h, NEW c, NEW k, Begun(h, c, k), Share(h)
  PROVE  IInv'
<1>1. Edits(c, k) /\ c = Start(h) /\ h \in Handle /\ k = Others(var, h)
  BY DEF Begun
<1> PICK d : d = SetfShare(c)
  OBVIOUS
<1>2. PICK req : Step(h, req, {d})
  BY <1>1 DEF Share
<1>3. Edits(d, k)
  BY <1>1, SetfShareGood
<1>4. AllEnd({d}, k)
  BY <1>3 DEF AllEnd, Ends, Edits
<1> QED
  BY <1>1, <1>2, <1>4, StepKeeps

\* ustr_sc_free_shared.
LEMMA FreeSharedKeeps ==
  ASSUME IInv, NEW h, NEW c, NEW k, Begun(h, c, k), FreeShared(h)
  PROVE  IInv'
<1>1. Edits(c, k) /\ c = Start(h) /\ h \in Handle /\ k = Others(var, h) /\ c.s = var[h] /\ c.heap = heap
  BY DEF Begun
<1>2. PICK req : Step(h, req, ScFreeShared(c))
  BY <1>1 DEF FreeShared
<1>3. Ro(Str(c)) \/ (Alloc(Str(c)) /\ Str(c).rb > 0 /\ Str(c).ref = 0)
  BY <1>1 DEF FreeShared, Str
<1>4. k[c.s] = 0
  <2>1. Holding1(var, var[h]) \ {h} = {}
    BY DEF FreeShared, Holding1
  <2>2. c.s \in Places
    BY <1>1 DEF Edits
  <2> QED
    BY <1>1, <2>1, <2>2, FS_EmptySet DEF Others
<1>5. \A d \in ScFreeShared(c) : Good(d, k) /\ d.s = Null
  BY <1>1, <1>3, <1>4, ScFreeSharedGood
<1>6. AllEnd(ScFreeShared(c), k)
  BY <1>5 DEF AllEnd, Ends
<1> QED
  BY <1>1, <1>2, <1>6, StepKeeps

-----------------------------------------------------------------------------
(* Handles that get a string *)

\* The new string, or null.
Taken(e) == [e EXCEPT !.s = IF e.ok THEN e.n ELSE Null]

\* A new string ends a call well, and so does none.
LEMMA GotEnds ==
  ASSUME NEW c, NEW k \in [Places -> Nat], c.s = Null, NEW e, Got(c, k, e), NEW d, d = Taken(e)
  PROVE  Ends(d, k) /\ d.ok = e.ok /\ d.n = e.n /\ Taken(d) = d
<1>1. e.s = Null /\ e.ok \in BOOLEAN
  BY DEF Got
<1>2. CASE e.ok
  <2>1. e.n \in Places /\ Good(e, With(k, e.n))
    BY <1>2 DEF Got
  <2> PICK n : n = e.n
    OBVIOUS
  <2> PICK l : l = With(k, n)
    OBVIOUS
  <2>2. IsCall(e) /\ l \in [Places -> Nat] /\ Heaps(e.heap, With(l, Null), Null)
    BY <2>1, <1>1 DEF Good
  <2>3. With(l, Null) = l
    BY <2>2, WithFacts, PlacesFacts
  <2>4. d = [e EXCEPT !.s = n]
    BY <1>2 DEF Taken
  <2>5. e = [heap |-> e.heap, s |-> e.s, n |-> e.n, ok |-> e.ok, wild |-> e.wild, conf |-> e.conf]
        /\ e.wild = FALSE /\ FitsConf(e.conf)
    BY <2>2 DEF IsCall
  <2>6. /\ d = [heap |-> e.heap, s |-> n, n |-> e.n, ok |-> e.ok, wild |-> e.wild, conf |-> e.conf]
        /\ d.heap = e.heap /\ d.s = n /\ d.n = e.n /\ d.ok = e.ok /\ d.wild = e.wild
        /\ d.conf = e.conf
    BY <2>4, <2>5
  <2>7. IsCall(d)
    BY <2>5, <2>6, <1>1 DEF IsCall
  <2>9. Heaps(d.heap, With(k, d.s), Null)
    BY <2>2, <2>3, <2>6
  <2> QED
    BY <2>1, <2>6, <2>7, <2>9, <1>2 DEF Ends, Good, Taken
<1>3. CASE ~e.ok
  <2>1. Good(e, k)
    BY <1>3 DEF Got
  <2>2. d = [e EXCEPT !.s = Null]
    BY <1>3 DEF Taken
  <2>3. e = [heap |-> e.heap, s |-> e.s, n |-> e.n, ok |-> e.ok, wild |-> e.wild, conf |-> e.conf]
    BY <2>1, GoodFacts
  <2>4. d = e
    BY <2>2, <2>3, <1>1
  <2> QED
    BY <2>1, <2>4, <1>1, <1>3 DEF Ends, Taken
<1> QED
  BY <1>1, <1>2, <1>3

\* A call for handle h, which holds nothing.
Opens(h, c, k) ==
  /\ h \in Handle /\ c = Start(h) /\ k = Others(var, h) /\ c.s = Null
  /\ Good(c, k) /\ c.heap = heap /\ c.conf = conf
  /\ FitsConf(conf)
  /\ \A g \in Handle : Held(g) => /\ var[g] \in Places /\ Live(c.heap[var[g]])
                                  /\ c.heap[var[g]].text = TextOf(g)
                                  /\ IsText(TextOf(g)) /\ LenOf(g) \in Nat

\* A call for a handle that holds nothing.
LEMMA Open ==
  ASSUME SizesFit, IInv, NEW h \in Handle, ~Held(h)
  PROVE  \E c, k : Opens(h, c, k)
<1> PICK c : c = Start(h)
  OBVIOUS
<1> PICK k : k = Others(var, h)
  OBVIOUS
<1>1. Good(c, k) /\ c.s = var[h] /\ c.heap = heap /\ c.conf = conf /\ FitsConf(conf)
  BY StartGood
<1>2. c.s = Null
  BY <1>1 DEF Held
<1>3. ASSUME NEW g \in Handle, Held(g)
      PROVE  /\ var[g] \in Places /\ Live(c.heap[var[g]]) /\ c.heap[var[g]].text = TextOf(g)
             /\ IsText(TextOf(g)) /\ LenOf(g) \in Nat
  <2>1. g # h
    BY <1>3
  <2>2. var[g] \in Places /\ Live(heap[var[g]]) /\ IsText(TextOf(g)) /\ LenOf(g) \in Nat
    BY <1>3, <2>1, OtherLive
  <2> QED
    BY <1>1, <2>2 DEF TextOf
<1> QED
  BY <1>1, <1>2, <1>3 DEF Opens

AllGot(c, k, S) == \A d \in S : Got(c, k, d)
NewOf(h, S) == \E src : New(h, src, S)

\* All outcomes of a call for a new string.
LEMMA TakenEnd ==
  ASSUME NEW c, NEW k \in [Places -> Nat], c.s = Null, NEW S, \A d \in S : Got(c, k, d)
  PROVE  AllEnd({Taken(d) : d \in S}, k)
BY GotEnds DEF AllEnd

\* A call for a new string keeps the invariant.
LEMMA NewKeeps ==
  ASSUME IInv, NEW h, NEW c, NEW k, Opens(h, c, k), NEW S, AllGot(c, k, S), NewOf(h, S)
  PROVE  IInv'
<1>1. h \in Handle /\ k = Others(var, h) /\ c.s = Null /\ k \in [Places -> Nat]
  BY DEF Opens, Good
<1> PICK T : T = {Taken(d) : d \in S}
  OBVIOUS
<1>2. PICK req : Step(h, req, T)
  BY DEF NewOf, New, Taken
<1>3. AllEnd(T, k)
  BY <1>1, TakenEnd DEF AllGot
<1> QED
  BY <1>1, <1>2, <1>3, StepKeeps

\* ustr_dup_buf.
LEMMA DupBufKeeps ==
  ASSUME IInv, NEW h, NEW c, NEW k, Opens(h, c, k), DupBuf(h)
  PROVE  IInv'
<1>1. c = Start(h) /\ Good(c, k) /\ FitsConf(conf)
  BY DEF Opens
<1>2. PICK text \in Texts : NewOf(h, DupxBuf(c, conf, Buf(text), Len(text)))
  BY <1>1 DEF DupBuf, NewOf
<1> PICK q : q = conf
  OBVIOUS
<1> PICK len : len = Len(text)
  OBVIOUS
<1> PICK src : src = Buf(text)
  OBVIOUS
<1>3. len \in Nat /\ len <= MaxLen /\ FitsConf(q) /\ SrcOK(c, src)
  BY <1>1, TextsText, SrcForms
<1>4. AllGot(c, k, DupxBuf(c, q, src, len))
  BY <1>1, <1>3, DupxBufGood DEF AllGot
<1> QED
  BY <1>2, <1>4, NewKeeps

\* ustr_dup_rep_chr.
LEMMA DupRepKeeps ==
  ASSUME IInv, NEW h, NEW c, NEW k, Opens(h, c, k), DupRep(h)
  PROVE  IInv'
<1>1. c = Start(h) /\ Good(c, k) /\ FitsConf(conf)
  BY DEF Opens
<1> PICK q : q = conf
  OBVIOUS
<1> PICK text : text = Rep("A", 2)
  OBVIOUS
<1>2. NewOf(h, DupxUndef(c, q, text))
  BY <1>1 DEF DupRep, NewOf, DupxRepChr
<1>3. IsText(text) /\ Len(text) <= MaxLen
  <2>1. IsText(text) /\ Len(text) = 2
    BY RepText
  <2>2. 2 <= MaxLen
    BY UstrAssumption
  <2> QED
    BY <2>1, <2>2
<1>4. FitsConf(q)
  BY <1>1
<1>5. AllGot(c, k, DupxUndef(c, q, text))
  BY <1>1, <1>3, <1>4, DupxUndefGood DEF AllGot
<1> QED
  BY <1>2, <1>5, NewKeeps

\* ustr_dup_empty.
LEMMA DupEmptyKeeps ==
  ASSUME IInv, NEW h, NEW c, NEW k, Opens(h, c, k), DupEmpty(h)
  PROVE  IInv'
<1>1. c = Start(h) /\ Good(c, k) /\ FitsConf(conf)
  BY DEF Opens
<1> PICK q : q = conf
  OBVIOUS
<1>2. NewOf(h, DupxEmpty(c, q))
  BY <1>1 DEF DupEmpty, NewOf
<1>3. FitsConf(q) /\ FitsConf([q EXCEPT !.emem = TRUE])
  BY <1>1 DEF FitsConf, IsConf, Sized, RefWidth
<1>4. AllGot(c, k, DupxEmpty(c, q))
  BY <1>1, <1>3, DupxEmptyGood DEF AllGot
<1> QED
  BY <1>2, <1>4, NewKeeps

\* ustr_dup, ustr_dupx, ustr_dup_subustr.
LEMMA CopyKeeps ==
  ASSUME SizesFit, IInv, NEW h, NEW c, NEW k, Opens(h, c, k), NEW g \in Handle, Held(g),
         DupOf(h, g) \/ DupxOf(h, g) \/ DupPart(h, g)
  PROVE  IInv'
<1>1. c = Start(h) /\ Good(c, k)
  BY DEF Opens
<1> PICK x : x = var[g]
  OBVIOUS
<1>2. x \in Places /\ Live(c.heap[x]) /\ LenOf(g) \in Nat
  BY DEF Opens
<1>3. \/ NewOf(h, Dup(c, x))
      \/ \E q \in Confs : NewOf(h, Dupx(c, q, x))
      \/ \E pos \in 1 .. LenOf(g), len \in 0 .. 2 : NewOf(h, DupSubustr(c, x, pos, len))
  BY <1>1 DEF DupOf, DupxOf, DupPart, NewOf
<1>4. AllGot(c, k, Dup(c, x))
  BY <1>1, <1>2, DupGood DEF AllGot
<1>5. ASSUME NEW q \in Confs PROVE AllGot(c, k, Dupx(c, q, x))
  <2>1. FitsConf(q)
    BY DEF SizesFit
  <2> QED
    BY <1>1, <1>2, <2>1, DupxGood DEF AllGot
<1>6. ASSUME NEW pos \in 1 .. LenOf(g), NEW len \in 0 .. 2
      PROVE  AllGot(c, k, DupSubustr(c, x, pos, len))
  <2>1. pos \in Nat \ {0} /\ len \in Nat
    BY <1>2
  <2> QED
    BY <1>1, <1>2, <2>1, DupSubustrGood DEF AllGot
<1> QED
  BY <1>3, <1>4, <1>5, <1>6, NewKeeps

\* ustr_sc_join, ustr_sc_concat.
LEMMA JoinOfKeeps ==
  ASSUME IInv, NEW h, NEW c, NEW k, Opens(h, c, k), NEW g \in Handle, Held(g), JoinOf(h, g)
  PROVE  IInv'
<1>1. c = Start(h) /\ Good(c, k) /\ FitsConf(conf)
  BY DEF Opens
<1> PICK x : x = var[g]
  OBVIOUS
<1> PICK q : q = conf
  OBVIOUS
<1> PICK text : text = TextOf(g)
  OBVIOUS
<1>2. x \in Places /\ c.heap[x].text = text /\ LenOf(g) \in Nat /\ FitsConf(q) /\ IsText(text)
  BY <1>1 DEF Opens
<1>3. /\ Len(text \o text) <= 2
      /\ \/ NewOf(h, ScConcat(c, q, <<x, x>>))
         \/ Len(text \o text) + Len(text) <= 2 /\ NewOf(h, ScJoin(c, q, x, <<x, x>>))
  BY <1>1 DEF JoinOf, NewOf, LenOf
<1> PICK n : n = Len(text \o text)
  OBVIOUS
<1> PICK m : m = Len(text)
  OBVIOUS
<1>4. n \in Nat /\ m \in Nat
  <2>1. IsText(text \o text)
    BY <1>2, JoinText
  <2> QED
    BY <1>2, <2>1, TextIsFunction
<1>5. MaxLen \in Nat /\ 2 <= MaxLen
  BY UstrAssumption
<1>6. CASE NewOf(h, ScConcat(c, q, <<x, x>>))
  <2>1. n <= MaxLen
    BY <1>3, <1>4, <1>5
  <2>2. AllGot(c, k, ScConcat(c, q, <<x, x>>))
    BY <1>1, <1>2, <2>1, ConcatGood DEF AllGot
  <2> QED
    BY <1>6, <2>2, NewKeeps
<1>7. CASE n + m <= 2 /\ NewOf(h, ScJoin(c, q, x, <<x, x>>))
  <2>1. n + m <= MaxLen
    BY <1>4, <1>5, <1>7
  <2>2. AllGot(c, k, ScJoin(c, q, x, <<x, x>>))
    BY <1>1, <1>2, <2>1, JoinGood DEF AllGot
  <2> QED
    BY <1>7, <2>2, NewKeeps
<1> QED
  BY <1>3, <1>6, <1>7

\* A literal of the program.
LEMMA UseLiteralKeeps ==
  ASSUME IInv, NEW h, NEW c, NEW k, Opens(h, c, k), UseLiteral(h)
  PROVE  IInv'
<1>1. c = Start(h) /\ Good(c, k) /\ h \in Handle /\ k = Others(var, h) /\ c.s = Null
      /\ k \in [Places -> Nat]
  BY DEF Opens, Good
<1> PICK d : d = [c EXCEPT !.s = Lit]
  OBVIOUS
<1>2. PICK req : Step(h, req, {d})
  BY <1>1 DEF UseLiteral
<1>3. Stays(c.heap[Lit]) /\ Lit \in Places
  BY <1>1, LibraryEmpty
<1>4. Good(c, With(k, Lit))
  BY <1>1, <1>3, CountUp
<1> PICK l : l = With(k, Lit)
  OBVIOUS
<1>5. Heaps(c.heap, With(l, Null), Null) /\ l \in [Places -> Nat] /\ IsCall(c)
  BY <1>1, <1>4 DEF Good
<1>6. With(l, Null) = l
  BY <1>5, WithFacts, PlacesFacts
<1>7. IsCall(d) /\ d.s = Lit /\ d.heap = c.heap
  BY <1>5 DEF IsCall
<1>8. Heaps(d.heap, With(k, d.s), Null)
  BY <1>5, <1>6, <1>7
<1>9. Ends(d, k)
  BY <1>1, <1>3, <1>7, <1>8 DEF Ends, Good
<1>10. AllEnd({d}, k)
  BY <1>9 DEF AllEnd
<1> QED
  BY <1>1, <1>2, <1>10, StepKeeps

\* A buffer of the caller with room for a header is an empty string.
LEMMA InitFixedSound ==
  ASSUME NEW exact \in BOOLEAN, NEW b, b = InitFixed(FixRoom, exact)
  PROVE  SoundBlock(b) /\ b.kind = "fixed"
<1> PICK q : q = [sz |-> FixRoom, rb |-> 0, exact |-> exact, emem |-> FALSE]
  OBVIOUS
<1>1. FixRoom \in Nat /\ RoomFor(b)
  BY UstrAssumption
<1>2. q.sz = FixRoom /\ q.rb = 0 /\ q.exact = exact /\ q.emem = FALSE
  OBVIOUS
<1> PICK lb : lb = LenWidth(q, IF Sized(q) THEN FixRoom ELSE 0)
  OBVIOUS
<1>3. b = [kind |-> "fixed", sized |-> Sized(q), exact |-> exact, emem |-> FALSE, rb |-> RefWidth(q),
           lb |-> lb, ref |-> 0, sz |-> IF Sized(q) THEN FixRoom ELSE 0, room |-> FixRoom,
           text |-> <<>>]
  BY <1>2, EmptyText DEF InitFixed, InitAlloc, Block
<1>4. IsConf(q)
  BY <1>1 DEF IsConf, Widths
<1>5. RefWidth(q) \in Widths
  BY <1>4, RefWidthWidth
<1>6. Nb(FixRoom) \in {1, 2, 4, 8} /\ Nb(0) \in {1, 2, 4, 8}
  BY <1>1, NbFacts
<1>7. lb \in Widths \ {0} /\ (Sized(q) => Nb(FixRoom) <= lb)
  BY <1>6 DEF LenWidth, Larger, Widths
<1>8. Sized(q)
  <2>1. Overhead(b) + Len(b.text) <= b.room
    BY <1>1 DEF RoomFor
  <2>2. Overhead(b) = HeadAndTail(b.rb, b.lb, Fields(b.sized))
    BY <1>3 DEF Overhead, Ro
  <2>3. b.rb \in Widths /\ b.lb \in Widths /\ b.room = FixRoom /\ b.text = <<>>
    BY <1>3, <1>5, <1>7
  <2> PICK rb : rb = b.rb
    OBVIOUS
  <2> PICK fields : fields = Fields(b.sized)
    OBVIOUS
  <2>4. fields \in {1, 2}
    BY DEF Fields
  <2>5. HeadAndTail(rb, lb, fields) \in Nat /\ HeadAndTail(rb, lb, fields) >= 2 + rb + lb
    BY <2>3, <2>4, <1>7, HeadAndTailNat
  <2>6. rb \in Nat /\ lb \in Nat
    BY <2>3, <1>7 DEF Widths
  <2>7. b.lb = lb
    BY <1>3
  <2>8. FixRoom # 0
    BY SMTT(30), <2>1, <2>2, <2>3, <2>5, <2>6, <2>7, <1>1, EmptyText
  <2> QED
    BY <2>8, <1>2 DEF Sized
<1>9. b.kind = "fixed" /\ b.sized = TRUE /\ b.sz = FixRoom /\ b.lb = lb /\ b.text = <<>>
  BY <1>3, <1>8
<1>10. IsBlock(b)
  <2>1. b \in [kind : Kinds, sized : BOOLEAN, exact : BOOLEAN, emem : BOOLEAN, rb : Widths,
               lb : Widths \ {0}, ref : Nat, sz : Nat, room : Nat, text : {b.text}]
    BY <1>1, <1>3, <1>5, <1>7, <1>8 DEF Kinds
  <2>2. IsText(b.text)
    BY <1>9, EmptyText
  <2> QED
    BY <2>1, <2>2, <1>7, <1>8, <1>9 DEF IsBlock
<1>11. Len(b.text) <= MaxLen
  BY <1>9, EmptyText, MaxLenNat
<1> QED
  BY <1>1, <1>9, <1>10, <1>11 DEF SoundBlock

\* ustr_init_fixed.
LEMMA InitBufferKeeps ==
  ASSUME IInv, NEW h, NEW c, NEW k, Opens(h, c, k), InitBuffer(h)
  PROVE  IInv'
<1>1. c = Start(h) /\ Good(c, k) /\ h \in Handle /\ k = Others(var, h) /\ c.s = Null
      /\ k \in [Places -> Nat]
  BY DEF Opens, Good
<1>2. PICK exact \in BOOLEAN :
        \E req : Step(h, req, {[c EXCEPT !.s = Fix, !.heap[Fix] = InitFixed(FixRoom, exact)]})
  BY <1>1 DEF InitBuffer
<1> PICK b : b = InitFixed(FixRoom, exact)
  OBVIOUS
<1> PICK d : d = [c EXCEPT !.s = Fix, !.heap[Fix] = b]
  OBVIOUS
<1>3. SoundBlock(b) /\ b.kind = "fixed"
  BY InitFixedSound
<1>4. IsCall(c) /\ Heaps(c.heap, With(k, Null), Null)
  BY <1>1 DEF Good
<1>5. With(k, Null) = k
  BY <1>1, WithFacts, PlacesFacts
<1> PICK hp : hp = c.heap
  OBVIOUS
<1> PICK hq : hq = [hp EXCEPT ![Fix] = b]
  OBVIOUS
<1>6. Heaps(hp, k, Null)
  BY <1>4, <1>5
<1>7. IsCall(d) /\ d.s = Fix /\ d.heap = hq
  BY <1>4 DEF IsCall
<1> PICK l : l = With(k, Fix)
  OBVIOUS
<1>8. \A a \in Addr : l[a] = k[a]
  BY <1>1, WithFacts, PlacesFacts
<1>9. \A x \in Places : hq[x] = IF x = Fix THEN b ELSE hp[x]
  BY <1>6, PlacesFacts DEF Heaps
<1>10. hq = [x \in Places |-> hq[x]]
  BY <1>6, PlacesFacts DEF Heaps
<1>11. \A x \in Places : SoundBlock(hq[x])
  BY <1>3, <1>6, <1>9, PlacesFacts DEF Heaps
<1>12. \A a \in Addr : CountOK(hq[a], l[a])
  BY <1>6, <1>8, <1>9, PlacesFacts DEF Heaps
<1>13. Ro(hq[Empty]) /\ Ro(hq[Lit]) /\ hq[Empty].text = <<>>
  BY <1>6, <1>9, PlacesFacts DEF Heaps
<1>14. hq[Fix].kind = "fixed" /\ Fixed(hq[Fix])
  BY <1>3, <1>9, PlacesFacts DEF Fixed
<1>15. Heaps(hq, l, Null)
  BY <1>10, <1>11, <1>12, <1>13, <1>14 DEF Heaps
<1>16. Good(d, k)
  BY <1>1, <1>7, <1>15 DEF Good
<1>17. AllEnd({d}, k)
  BY <1>7, <1>16, PlacesFacts DEF AllEnd, Ends
<1> QED
  BY <1>1, <1>2, <1>17, StepKeeps

\* ustr_split_buf: over the string of the handle, or into a new one.
LEMMA SplitOverKeeps ==
  ASSUME IInv, NEW h, NEW c, NEW k, Begun(h, c, k), Held(h), NEW g \in Handle, Held(g), Split(h, g)
  PROVE  IInv'
<1>1. c = Start(h) /\ Edits(c, k) /\ h \in Handle /\ k = Others(var, h)
  BY DEF Begun
<1> PICK x : x = var[g]
  OBVIOUS
<1> PICK sep : sep = <<"a">>
  OBVIOUS
<1>2. Known(c, k, x) /\ Len(c.heap[x].text) = LenOf(g) /\ LenOf(g) \in Nat
  BY DEF Begun, LenOf
<1>3. IsText(sep) /\ Len(sep) = 1
  <2>1. sep \in Seq({"a"}) /\ Len(sep) = 1
    OBVIOUS
  <2> QED
    BY <2>1 DEF IsText
<1>4. PICK off \in 0 .. LenOf(g), flags \in {{}, {"non"}, {"sep", "conf"}} : \E d \in SplitBuf(c, x, off, sep, flags) :
        \E req : Step(h, req, {[d EXCEPT !.ok = TRUE]})
  BY <1>1 DEF Split
<1>5. PICK d \in SplitBuf(c, x, off, sep, flags) : \E req : Step(h, req, {[d EXCEPT !.ok = TRUE]})
  BY <1>4
<1>6. off \in Nat /\ off <= Len(c.heap[x].text)
  BY <1>2
<1>7. SplitInto(d, k)
  BY <1>1, <1>2, <1>3, <1>5, <1>6, SplitOver
<1> PICK e : e = [d EXCEPT !.ok = TRUE]
  OBVIOUS
<1>8. Good(d, k) /\ d.s \in Places \cup {Null}
  BY <1>7 DEF SplitInto
<1>9. Good(e, k) /\ e.s = d.s
  BY <1>8, Answered
<1>10. AllEnd({e}, k)
  BY <1>8, <1>9 DEF AllEnd, Ends
<1> QED
  BY <1>1, <1>5, <1>10, StepKeeps

\* ustr_split_buf into a new string.
LEMMA SplitOffKeeps ==
  ASSUME IInv, NEW h, NEW c, NEW k, Opens(h, c, k), ~Held(h), NEW g \in Handle, Held(g), Split(h, g)
  PROVE  IInv'
<1>1. c = Start(h) /\ Good(c, k) /\ h \in Handle /\ k = Others(var, h) /\ c.s = Null
      /\ k \in [Places -> Nat]
  BY DEF Opens, Good
<1> PICK x : x = var[g]
  OBVIOUS
<1> PICK sep : sep = <<"a">>
  OBVIOUS
<1> PICK text : text = TextOf(g)
  OBVIOUS
<1>2. x \in Places /\ Live(c.heap[x]) /\ c.heap[x].text = text /\ Len(text) \in Nat
      /\ Len(text) = LenOf(g)
  BY DEF Opens, LenOf
<1>3. IsText(sep) /\ Len(sep) = 1
  <2>1. sep \in Seq({"a"}) /\ Len(sep) = 1
    OBVIOUS
  <2> QED
    BY <2>1 DEF IsText
<1>4. PICK off \in 0 .. LenOf(g), flags \in {{}, {"non"}, {"sep", "conf"}} :
        /\ SplitStep(text, off, sep, flags).len # -1
        /\ \E src : New(h, src, SplitBuf(c, x, off, sep, flags))
  BY <1>1 DEF Split
<1>5. off \in Nat /\ off <= Len(c.heap[x].text) /\ SplitStep(c.heap[x].text, off, sep, flags).len # -1
  BY <1>2, <1>4
<1> PICK S : S = SplitBuf(c, x, off, sep, flags)
  OBVIOUS
<1>6. \A d \in S : Fetched(c, k, d)
  BY <1>1, <1>2, <1>3, <1>5, SplitOff
<1> PICK T : T = {Taken(d) : d \in S}
  OBVIOUS
<1>7. PICK req : Step(h, req, T)
  BY <1>4 DEF New, Taken
<1>8. ASSUME NEW d \in S PROVE Ends(Taken(d), k)
  <2>1. PICK e : Got(c, k, e) /\ d = Taken(e)
    BY <1>6 DEF Fetched, Taken
  <2>2. Ends(d, k) /\ Taken(d) = d
    BY <1>1, <2>1, GotEnds
  <2> QED
    BY <2>2
<1>9. AllEnd(T, k)
  BY <1>8 DEF AllEnd
<1> QED
  BY <1>1, <1>7, <1>9, StepKeeps

VarsAfter(v, h, s, n, w) == IsVar(w) /\ Counts(w) = With(With(Others(v, h), s), n)

\* Two handles change at once: the copy goes to the other one.
LEMMA TwoSet ==
  ASSUME NEW v, IsVar(v), NEW h \in Handle, NEW g \in Handle, g # h, v[g] = Null,
         NEW s \in Places \cup {Null}, NEW n \in Places \cup {Null},
         NEW w, w = [v EXCEPT ![h] = s, ![g] = n]
  PROVE  VarsAfter(v, h, s, n, w)
<1> PICK u : u = [v EXCEPT ![h] = s]
  OBVIOUS
<1>1. VarAfter(v, h, s, u)
  BY VarSet
<1>2. w = [u EXCEPT ![g] = n]
  OBVIOUS
<1>3. IsVar(u) /\ Counts(u) = With(Others(v, h), s) /\ u[g] = Null
  BY <1>1 DEF VarAfter
<1>4. VarAfter(u, g, n, w)
  BY <1>2, <1>3, VarSet
<1>5. Counts(u) = With(Others(u, g), Null) /\ Others(u, g) \in [Places -> Nat]
  BY <1>3, CountsFacts
<1> PICK o : o = Others(u, g)
  OBVIOUS
<1>6. With(o, Null) = o
  BY <1>5, WithFacts, PlacesFacts
<1> QED
  BY <1>3, <1>4, <1>5, <1>6 DEF VarAfter, VarsAfter

\* ustr_sc_dup for another handle.
LEMMA DupAwayKeeps ==
  ASSUME IInv, NEW h, NEW c, NEW k, Begun(h, c, k), NEW g \in Handle, g # h, DupAway(h, g)
  PROVE  IInv'
<1>1. c = Start(h) /\ Edits(c, k) /\ h \in Handle /\ k = Others(var, h) /\ k \in [Places -> Nat]
  BY DEF Begun, Edits, Good
<1>2. PICK d \in ScDup(c) : /\ heap' = d.heap
                            /\ var' = [var EXCEPT ![h] = d.s, ![g] = IF d.ok THEN d.n ELSE Null]
                            /\ wild' = d.wild
                            /\ conf' = conf
  BY <1>1 DEF DupAway
<1>3. Parted(c, k, d) /\ d.ok \in BOOLEAN
  BY <1>1, <1>2, ScDupGood
<1>4. IsVar(var) /\ var[g] = Null
  BY DEF IInv, DupAway, Held
<1> PICK s : s = d.s
  OBVIOUS
<1> PICK n : n = IF d.ok THEN d.n ELSE Null
  OBVIOUS
<1>5. /\ s \in Places \cup {Null} /\ n \in Places \cup {Null} /\ d.wild = FALSE
      /\ Heaps(d.heap, With(With(k, s), n), Null)
  <2>1. CASE d.ok
    <3>1. Good(d, With(k, n)) /\ s \in Places /\ n \in Places
      BY <1>3, <2>1 DEF Parted
    <3>2. Heaps(d.heap, With(With(k, n), s), Null) /\ d.wild = FALSE
      BY <3>1 DEF Good, IsCall
    <3>3. With(With(k, n), s) = With(With(k, s), n)
      BY <1>1, WithCommutes
    <3> QED
      BY <3>1, <3>2, <3>3
  <2>2. CASE ~d.ok
    <3>1. Good(d, k) /\ s \in Places /\ n = Null
      BY <1>3, <2>2 DEF Parted, Edits
    <3> PICK l : l = With(k, s)
      OBVIOUS
    <3>2. Heaps(d.heap, l, Null) /\ d.wild = FALSE /\ l \in [Places -> Nat]
      BY <3>1, GoodFacts
    <3>3. With(l, Null) = l
      BY <3>2, WithFacts, PlacesFacts
    <3> QED
      BY <3>1, <3>2, <3>3
  <2> QED
    BY <2>1, <2>2, <1>3
<1>6. IsVar(var') /\ Counts(var') = With(With(k, s), n)
  <2> DEFINE v == var
             w == var'
  <2>1. IsVar(v) /\ v[g] = Null /\ w = [v EXCEPT ![h] = s, ![g] = n] /\ k = Others(v, h)
    BY <1>1, <1>2, <1>4
  <2> HIDE DEF v, w
  <2>2. VarsAfter(v, h, s, n, w)
    BY <1>1, <1>5, <2>1, TwoSet
  <2> QED
    BY <2>1, <2>2 DEF w, VarsAfter
<1> QED
  BY <1>2, <1>5, <1>6 DEF IInv

-----------------------------------------------------------------------------
(* The theorems *)

\* A string library that nobody has called yet.
LEMMA InitHolds ==
  ASSUME SizesFit, Init
  PROVE  IInv
<1>1. IsVar(var)
  BY DEF Init, IsVar
<1>2. \A x \in Places : Counts(var)[x] = 0
  <2>1. \A x \in Places : Holding1(var, x) = {}
    BY PlacesFacts DEF Init, Holding1
  <2> QED
    BY <2>1, FS_EmptySet DEF Counts
<1> PICK l : l = Counts(var)
  OBVIOUS
<1>3. heap = [x \in Places |-> heap[x]]
  BY DEF Init
<1>4. /\ heap[Empty] = RoBlock(<<>>)
      /\ heap[Lit] = RoBlock(<<"a", "A">>)
      /\ \A x \in Places : x # Empty /\ x # Lit => heap[x] = FreeBlock
  BY PlacesFacts DEF Init
<1>5. SoundBlock(heap[Empty]) /\ Ro(heap[Empty]) /\ heap[Empty].text = <<>>
  <2> PICK text : text = <<>>
    OBVIOUS
  <2>1. IsText(text) /\ Len(text) <= MaxLen
    BY EmptyText, MaxLenNat
  <2>2. SoundBlock(RoBlock(text)) /\ Ro(RoBlock(text)) /\ RoBlock(text).text = text
    BY <2>1, RoSound
  <2> QED
    BY <1>4, <2>2
<1>6. SoundBlock(heap[Lit]) /\ Ro(heap[Lit])
  <2> PICK text : text = <<"a", "A">>
    OBVIOUS
  <2>1. text \in Seq({"a", "A"}) /\ Len(text) = 2
    OBVIOUS
  <2>2. IsText(text) /\ Len(text) <= MaxLen
    BY <2>1, UstrAssumption DEF IsText
  <2>3. SoundBlock(RoBlock(text)) /\ Ro(RoBlock(text))
    BY <2>2, RoSound
  <2> QED
    BY <1>4, <2>3
<1>7. \A x \in Places : SoundBlock(heap[x])
  BY <1>4, <1>5, <1>6, FreeSound
<1>8. \A a \in Addr : CountOK(heap[a], l[a])
  BY <1>2, <1>4, PlacesFacts, FreeSound DEF CountOK
<1>9. heap[Fix].kind = "free" /\ l[Fix] = 0
  BY <1>2, <1>4, PlacesFacts, FreeSound
<1>10. Heaps(heap, l, Null)
  BY <1>3, <1>5, <1>6, <1>7, <1>8, <1>9 DEF Heaps
<1> QED
  BY <1>1, <1>10 DEF IInv, Init

\* ustr_cntl_opt.
LEMMA CntlOptKeeps ==
  ASSUME IInv, CntlOpt
  PROVE  IInv'
<1>1. conf' \in Defaults /\ heap' = heap /\ var' = var /\ wild' = wild
  BY DEF CntlOpt
<1> QED
  BY <1>1 DEF IInv

\* A step of a handle that holds nothing yet, or drops what it holds.
LEMMA AloneKeeps ==
  ASSUME SizesFit, IInv, NEW h \in Handle,
         DupBuf(h) \/ DupRep(h) \/ DupEmpty(h) \/ UseLiteral(h) \/ InitBuffer(h) \/ Free1(h)
  PROVE  IInv'
<1>1. CASE Free1(h)
  BY <1>1, FreeKeeps
<1>2. CASE ~Free1(h)
  <2>1. ~Held(h)
    BY <1>2 DEF DupBuf, DupRep, DupEmpty, UseLiteral, InitBuffer, New
  <2>2. PICK c, k : Opens(h, c, k)
    BY <2>1, Open
  <2> QED
    BY <1>2, <2>2, DupBufKeeps, DupRepKeeps, DupEmptyKeeps, UseLiteralKeeps, InitBufferKeeps
<1> QED
  BY <1>1, <1>2

\* A step that copies from another handle.
LEMMA FromOtherKeeps ==
  ASSUME SizesFit, IInv, NEW h \in Handle, NEW g \in Handle, h # g, Held(g),
         DupOf(h, g) \/ DupxOf(h, g) \/ DupPart(h, g) \/ JoinOf(h, g) \/ Split(h, g)
  PROVE  IInv'
<1>1. CASE Held(h)
  <2>1. Split(h, g)
    BY <1>1 DEF DupOf, DupxOf, DupPart, JoinOf, New
  <2>2. PICK c, k : Begun(h, c, k)
    BY <1>1, Begin
  <2> QED
    BY <1>1, <2>1, <2>2, SplitOverKeeps
<1>2. CASE ~Held(h)
  <2>1. PICK c, k : Opens(h, c, k)
    BY <1>2, Open
  <2> QED
    BY <1>2, <2>1, CopyKeeps, JoinOfKeeps, SplitOffKeeps
<1> QED
  BY <1>1, <1>2

\* A step on any string.
LEMMA HeldKeeps ==
  ASSUME SizesFit, IInv, NEW h \in Handle, Held(h),
         Share(h) \/ FreeShared(h) \/ ClrEnomem(h) \/ Own(h)
  PROVE  IInv'
<1>1. PICK c, k : Begun(h, c, k)
  BY Begin
<1> QED
  BY <1>1, ShareKeeps, FreeSharedKeeps, ClrEnomemKeeps, OwnKeeps

\* A step that edits.
LEMMA EditedKeeps ==
  ASSUME SizesFit, IInv, NEW h \in Handle, Held(h),
         \/ Resize(h) \/ Clear(h) \/ Empty1(h) \/ Delete(h)
         \/ DeletePart(h) \/ PutText(h) \/ PutTextAt(h)
         \/ ExchangeText(h) \/ ReplaceText(h) \/ Reverse1(h)
         \/ ChangeCase(h) \/ TrimChars(h) \/ GetSome(h)
         \/ GetAll(h) \/ GetLine(h) \/ PutSome(h)
  PROVE  IInv'
<1>1. PICK c, k : Begun(h, c, k)
  BY Begin
<1>2. CASE Resize(h) \/ Clear(h) \/ Empty1(h) \/ Delete(h) \/ DeletePart(h) \/ Reverse1(h)
           \/ ChangeCase(h) \/ TrimChars(h)
  BY <1>1, <1>2, ResizeKeeps, ClearKeeps, EmptyKeeps, DeleteKeeps, DeletePartKeeps, ReverseKeeps,
     ChangeCaseKeeps, TrimCharsKeeps
<1>3. CASE PutText(h) \/ PutTextAt(h) \/ ExchangeText(h) \/ ReplaceText(h) \/ GetSome(h)
           \/ GetAll(h) \/ GetLine(h) \/ PutSome(h)
  BY <1>1, <1>3, PutTextKeeps, PutTextAtKeeps, ExchangeTextKeeps, ReplaceTextKeeps, GetSomeKeeps,
     GetAllKeeps, GetLineKeeps, PutSomeKeeps
<1> QED
  BY <1>2, <1>3

\* Every step keeps the invariant.
LEMMA NextKeeps ==
  ASSUME SizesFit, IInv, [Next]_vars
  PROVE  IInv'
<1>1. CASE CntlOpt
  BY <1>1, CntlOptKeeps
<1>2. ASSUME NEW h \in Handle,
             DupBuf(h) \/ DupRep(h) \/ DupEmpty(h) \/ UseLiteral(h) \/ InitBuffer(h) \/ Free1(h)
      PROVE  IInv'
  BY <1>2, AloneKeeps
<1>3. ASSUME NEW h \in Handle, NEW g \in Handle, h # g, Held(g),
             DupOf(h, g) \/ DupxOf(h, g) \/ DupPart(h, g) \/ JoinOf(h, g) \/ Split(h, g)
      PROVE  IInv'
  BY <1>3, FromOtherKeeps
<1>4. ASSUME NEW h \in Handle, Held(h), Share(h) \/ FreeShared(h) \/ ClrEnomem(h) \/ Own(h)
      PROVE  IInv'
  BY <1>4, HeldKeeps
<1>5. ASSUME NEW h \in Edited, Held(h),
             \/ Resize(h) \/ Clear(h) \/ Empty1(h) \/ Delete(h)
             \/ DeletePart(h) \/ PutText(h) \/ PutTextAt(h)
             \/ ExchangeText(h) \/ ReplaceText(h) \/ Reverse1(h)
             \/ ChangeCase(h) \/ TrimChars(h) \/ GetSome(h)
             \/ GetAll(h) \/ GetLine(h) \/ PutSome(h)
      PROVE  IInv'
  <2>1. h \in Handle
    BY UstrAssumption
  <2> QED
    BY <1>5, <2>1, EditedKeeps
<1>6. ASSUME NEW h \in Edited, NEW g \in Handle, Held(h), g # h, DupAway(h, g)
      PROVE  IInv'
  <2>1. h \in Handle
    BY UstrAssumption
  <2>2. PICK c, k : Begun(h, c, k)
    BY <1>6, <2>1, Begin
  <2> QED
    BY <1>6, <2>2, DupAwayKeeps
<1>7. ASSUME NEW h \in Edited, NEW g \in Handle, Held(h), Held(g), PutString(h, g) \/ PutPart(h, g)
      PROVE  IInv'
  <2>1. h \in Handle
    BY UstrAssumption
  <2>2. PICK c, k : Begun(h, c, k)
    BY <1>7, <2>1, Begin
  <2> QED
    BY <1>7, <2>2, PutStringKeeps, PutPartKeeps
<1>8. ASSUME NEW h \in Edited, NEW g1 \in Handle, NEW g2 \in Handle, Held(h), Held(g1), Held(g2),
             ReplaceString(h, g1, g2)
      PROVE  IInv'
  <2>1. h \in Handle
    BY UstrAssumption
  <2>2. PICK c, k : Begun(h, c, k)
    BY <1>8, <2>1, Begin
  <2> QED
    BY <1>8, <2>2, ReplaceStringKeeps
<1>9. CASE UNCHANGED vars
  BY <1>9 DEF vars, IInv
<1> QED
  BY <1>1, <1>2, <1>3, <1>4, <1>5, <1>6, <1>7, <1>8, <1>9 DEF Next

\* What every state satisfies.
LEMMA InvHolds ==
  ASSUME SizesFit
  PROVE  Spec => []IInv
<1>1. Init => IInv
  BY InitHolds
<1>2. IInv /\ [Next]_vars => IInv'
  BY NextKeeps
<1> QED
  BY <1>1, <1>2, PTL DEF Spec

\* The count in the header of a block is the number of handles that hold it,
\* and what nobody holds has been given back (ustr__ref_add, ustr__ref_del,
\* ustrp__free): whatever the allocator refuses, in every function.
THEOREM CountsStayRight ==
  ASSUME SizesFit
  PROVE  Spec => []CountsMatchHolders
<1>1. IInv => CountsMatchHolders
  <2> SUFFICES ASSUME IInv, NEW a \in Addr
               PROVE CountOK(heap[a], Cardinality(Holders(a)))
    BY DEF CountsMatchHolders, CountOK
  <2>1. CountOK(heap[a], Counts(var)[a])
    BY DEF IInv, Heaps
  <2>2. Counts(var)[a] = Cardinality(Holders(a))
    BY PlacesFacts DEF Counts, Holding1, Holders
  <2> QED
    BY <2>1, <2>2
<1> QED
  BY <1>1, InvHolds, PTL

\* No function reads memory that was given back, writes into read only text or
\* behind the end of a block, or goes on with a header that was never written.
THEOREM MemoryStaysSafe ==
  ASSUME SizesFit
  PROVE  Spec => []NoWildAccess
<1>1. IInv => NoWildAccess
  BY DEF IInv, NoWildAccess
<1> QED
  BY <1>1, InvHolds, PTL

\* Header, text and terminator lie within the block and the header says so
\* (ustr_assert_valid).
THEOREM RoomStaysForText ==
  ASSUME SizesFit
  PROVE  Spec => []RoomForText
<1>1. IInv => RoomForText
  <2> SUFFICES ASSUME IInv, NEW x \in Addr \cup {Fix}, heap[x].kind \in {"alloc", "fixed"}
               PROVE RoomFor(heap[x])
    BY DEF RoomForText
  <2>1. SoundBlock(heap[x])
    BY PlacesFacts DEF IInv, Heaps
  <2> QED
    BY <2>1 DEF SoundBlock
<1> QED
  BY <1>1, InvHolds, PTL
=============================================================================
