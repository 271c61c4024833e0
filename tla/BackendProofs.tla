--------------------------- MODULE BackendProofs ---------------------------
(***************************************************************************)
(* The name generator and the back end around it, for every corpus, every  *)
(* list of lexicons, every alphabet up to the 26 letters and every line a  *)
(* player may type: the histograms agree, the generator never leaves them, *)
(* names sound like their language and commands are answered once.         *)
(***************************************************************************)
EXTENDS Backend, Induction, FiniteSetTheorems

\* There is a letter, and no more of them than the alphabet has.
LEMMA AlphabetSize == Letters \in 1 .. 26 /\ Letters \in Nat
<1>1. Letters \in 1 .. 26
  BY CorpusAssumption, Zenon
<1> QED
  BY <1>1

-----------------------------------------------------------------------------
(* Sums over a row of a histogram.                                         *)

\* Before(row) is what the recursion in it says.
LEMMA BeforeRow ==
  ASSUME NEW row \in Rows
  PROVE  /\ Before(row) \in [0 .. Letters + 1 -> Nat]
         /\ Before(row)[0] = 0
         /\ \A c \in Codes : Before(row)[c + 1] = Before(row)[c] + row[c]
<1> DEFINE N == Letters + 1
           step == [n \in 1 .. N |-> [x \in Nat |-> x + row[n - 1]]]
           Solves(sum) == sum = [n \in 0 .. N |-> IF n = 0 THEN 0 ELSE sum[n - 1] + row[n - 1]]
<1>1. Letters \in Nat /\ N \in Nat /\ \A n \in 1 .. N : n - 1 \in Codes
  <2>1. Letters \in Nat
    BY AlphabetSize
  <2> QED
    BY <2>1 DEF Codes
<1>2. step \in Steps(N, Nat)
  BY <1>1 DEF Rows, Steps
<1>3. \E g \in [0 .. N -> Nat] : Solves(g)
  <2> HIDE DEF step
  <2>1. PICK g : Iterates(g, 0, N, step, Nat)
    <3>1. 0 \in Nat
      OBVIOUS
    <3> HIDE DEF N
    <3> QED
      BY <3>1, <1>1, <1>2, Iteration
  <2>2. \A n \in 1 .. N : step[n][g[n - 1]] = g[n - 1] + row[n - 1]
    BY <1>1, <2>1 DEF step, Iterates
  <2> DEFINE Value(n) == IF n = 0 THEN 0 ELSE g[n - 1] + row[n - 1]
  <2>3. \A n \in 0 .. N : g[n] = Value(n)
    BY <1>1, <2>1, <2>2 DEF Iterates
  <2>4. g = [n \in 0 .. N |-> Value(n)]
    <3> HIDE DEF Value
    <3> QED
      BY <2>1, <2>3 DEF Iterates
  <2> QED
    BY <2>1, <2>4 DEF Iterates
<1>4. Before(row) = CHOOSE g : Solves(g)
  BY Zenon DEF Before
<1> HIDE DEF Solves
<1>5. Solves(Before(row))
  BY <1>3, <1>4, Zenon
<1>6. /\ DOMAIN Before(row) = 0 .. N
      /\ Before(row) = [n \in 0 .. N |-> Before(row)[n]]
      /\ Before(row)[0] = 0
      /\ \A n \in 1 .. N : Before(row)[n] = Before(row)[n - 1] + row[n - 1]
  BY <1>1, <1>5 DEF Solves
<1> DEFINE S == {n \in 0 .. N : Before(row)[n] \in Nat}
<1>7. 0 .. N \subseteq S
  <2>1. 0 \in S
    BY <1>1, <1>6
  <2>2. ASSUME NEW n \in 0 .. N - 1, n \in S PROVE n + 1 \in S
    <3>1. n + 1 \in 1 .. N /\ (n + 1) - 1 = n /\ n \in Codes
      BY <1>1, <2>2 DEF Codes
    <3>2. Before(row)[n + 1] = Before(row)[n] + row[n] /\ row[n] \in Nat
      BY <3>1, <1>6 DEF Rows
    <3> QED
      BY <3>1, <3>2, <1>1, <2>2
  <2> HIDE DEF S
  <2> QED
    BY <1>1, <2>1, <2>2, UpTo
<1>8. Before(row) \in [0 .. N -> Nat]
  BY <1>6, <1>7
<1>9. \A c \in Codes : Before(row)[c + 1] = Before(row)[c] + row[c]
  <2>1. \A c \in Codes : c + 1 \in 1 .. N /\ (c + 1) - 1 = c
    BY <1>1 DEF Codes
  <2> QED
    BY <2>1, <1>6
<1> QED
  BY <1>6, <1>8, <1>9

\* The running total of a row never falls.
LEMMA BeforeGrows ==
  ASSUME NEW row \in Rows, NEW m \in 0 .. Letters + 1, NEW n \in m .. Letters + 1
  PROVE  Before(row)[m] <= Before(row)[n]
<1> DEFINE B == Before(row)
           S == {k \in m .. n : B[m] <= B[k]}
<1>1. Letters \in Nat
  BY AlphabetSize
<1>2. /\ B \in [0 .. Letters + 1 -> Nat]
      /\ \A c \in Codes : B[c + 1] = B[c] + row[c] /\ row[c] \in Nat
  BY BeforeRow DEF Rows
<1> HIDE DEF B
<1>3. m \in S
  BY <1>1, <1>2
<1>4. ASSUME NEW k \in m .. n - 1, k \in S PROVE k + 1 \in S
  <2>1. k \in Codes /\ k \in 0 .. Letters + 1 /\ k + 1 \in 0 .. Letters + 1 /\ k + 1 \in m .. n
    BY <1>1 DEF Codes
  <2>2. B[k + 1] = B[k] + row[k] /\ row[k] \in Nat /\ B[k] \in Nat /\ B[m] \in Nat
    BY <2>1, <1>2
  <2> QED
    BY <2>1, <2>2, <1>4
<1> HIDE DEF S
<1>5. m .. n \subseteq S
  BY <1>1, <1>3, <1>4, FromTo
<1> QED
  BY <1>1, <1>5 DEF S, B

\* A scan stops at a code the row counts.
LEMMA ScanCounted ==
  ASSUME NEW row \in Rows, NEW from \in Codes, NEW sel \in Nat, NEW c \in Scan(row, from, sel)
  PROVE  c \in Codes /\ from <= c /\ row[c] > 0
<1>1. /\ c \in from .. Letters
      /\ Before(row)[c] <= Before(row)[from] + sel
      /\ Before(row)[from] + sel < Before(row)[c + 1]
  BY DEF Scan
<1>2. Letters \in Nat
  BY AlphabetSize
<1>3. c \in Codes /\ c \in 0 .. Letters + 1 /\ from \in 0 .. Letters + 1 /\ from <= c
  BY <1>1, <1>2 DEF Codes
<1>4. /\ Before(row)[c + 1] = Before(row)[c] + row[c] /\ row[c] \in Nat
      /\ Before(row)[c] \in Nat /\ Before(row)[from] \in Nat
  BY <1>3, BeforeRow DEF Rows
<1> QED
  BY <1>1, <1>3, <1>4

\* A number below what a row counts has a code where the scan for it stops.
LEMMA ScanStops ==
  ASSUME NEW row \in Rows, NEW from \in Codes,
         NEW sel \in 0 .. Before(row)[Letters + 1] - Before(row)[from] - 1
  PROVE  Scan(row, from, sel) # {}
<1> DEFINE B == Before(row)
           S == {n \in from .. Letters + 1 : B[n] <= B[from] + sel}
<1>1. Letters \in Nat
  BY AlphabetSize
<1>2. B \in [0 .. Letters + 1 -> Nat]
  BY BeforeRow
<1>3. ASSUME \A c \in from .. Letters : ~(B[c] <= B[from] + sel /\ B[from] + sel < B[c + 1])
      PROVE  FALSE
  <2> HIDE DEF B
  <2>1. from \in S
    BY <1>1, <1>2 DEF Codes
  <2>2. ASSUME NEW n \in from .. Letters + 1 - 1, n \in S PROVE n + 1 \in S
    BY <1>1, <1>2, <1>3, <2>2 DEF Codes
  <2> HIDE DEF S
  <2>3. from .. Letters + 1 \subseteq S
    BY <1>1, <2>1, <2>2, FromTo DEF Codes
  <2>4. Letters + 1 \in S
    BY <1>1, <2>3 DEF Codes
  <2>5. B[Letters + 1] <= B[from] + sel /\ B[Letters + 1] \in Nat /\ B[from] \in Nat
    BY <1>1, <1>2, <2>4 DEF S, Codes
  <2> QED
    BY <2>5 DEF B
<1> QED
  BY <1>3 DEF Scan

\* The places K where a code follows, sorted by the codes that follow there:
\* as many are counted before n as have a code below n.
LEMMA BeforeCounts ==
  ASSUME NEW row \in Rows, NEW more \in Rows, NEW K, IsFiniteSet(K), NEW g \in [K -> Codes],
         \A c \in Codes : more[c] = row[c] + Cardinality({k \in K : g[k] = c})
  PROVE  Before(more)[Letters + 1] = Before(row)[Letters + 1] + Cardinality(K)
<1> DEFINE B == Before(row)
           M == Before(more)
           Below(n) == {k \in K : g[k] < n}
           At1(c) == {k \in K : g[k] = c}
           S == {n \in 0 .. Letters + 1 : M[n] = B[n] + Cardinality(Below(n))}
<1>1. Letters \in Nat
  BY AlphabetSize
<1>2. /\ B \in [0 .. Letters + 1 -> Nat] /\ B[0] = 0
      /\ \A c \in Codes : B[c + 1] = B[c] + row[c] /\ row[c] \in Nat
  BY BeforeRow DEF Rows
<1>3. /\ M \in [0 .. Letters + 1 -> Nat] /\ M[0] = 0
      /\ \A c \in Codes : M[c + 1] = M[c] + more[c]
  BY BeforeRow
<1>4. \A n \in Nat : IsFiniteSet(Below(n)) /\ Cardinality(Below(n)) \in Nat
  BY FS_Subset, FS_CardinalityType
<1>5. \A c \in Nat : IsFiniteSet(At1(c)) /\ Cardinality(At1(c)) \in Nat
  BY FS_Subset, FS_CardinalityType
<1>6. \A n \in Nat : Cardinality(Below(n + 1)) = Cardinality(Below(n)) + Cardinality(At1(n))
  <2> TAKE n \in Nat
  <2>1. Below(n + 1) = Below(n) \cup At1(n) /\ Below(n) \cap At1(n) = {}
    <3>1. \A k \in K : g[k] \in Nat
      BY <1>1 DEF Codes
    <3>2. \A k \in K : g[k] < n + 1 <=> (g[k] < n \/ g[k] = n)
      BY <3>1
    <3>3. \A k \in K : ~(g[k] < n /\ g[k] = n)
      BY <3>1
    <3> QED
      BY <3>2, <3>3
  <2> HIDE DEF Below, At1
  <2>2. Cardinality(Below(n) \cup At1(n))
          = Cardinality(Below(n)) + Cardinality(At1(n)) - Cardinality(Below(n) \cap At1(n))
    BY <1>4, <1>5, FS_Union
  <2>3. Cardinality(Below(n) \cap At1(n)) = 0
    BY <2>1, FS_EmptySet
  <2> QED
    <3>1. Cardinality(Below(n + 1)) = Cardinality(Below(n) \cup At1(n))
      BY <2>1, Zenon
    <3> QED
      BY <3>1, <2>2, <2>3, <1>4, <1>5
<1>7. Cardinality(Below(0)) = 0
  <2>1. Below(0) = {}
    BY <1>1 DEF Codes
  <2> QED
    BY <2>1, FS_EmptySet
<1>8. Below(Letters + 1) = K
  BY <1>1 DEF Codes
<1>9. \A c \in Codes : more[c] = row[c] + Cardinality(At1(c))
  OBVIOUS
<1> HIDE DEF B, M, Below, At1
<1>10. 0 \in S
  BY <1>1, <1>2, <1>3, <1>7
<1>11. ASSUME NEW n \in 0 .. Letters + 1 - 1, n \in S PROVE n + 1 \in S
  <2>1. n \in Codes /\ n \in Nat /\ n + 1 \in 0 .. Letters + 1 /\ n \in 0 .. Letters + 1
    BY <1>1 DEF Codes
  <2>2. M[n + 1] = M[n] + more[n] /\ B[n + 1] = B[n] + row[n] /\ row[n] \in Nat
    BY <2>1, <1>2, <1>3
  <2>3. B[n] \in Nat
    BY <2>1, <1>2
  <2>4. M[n] = B[n] + Cardinality(Below(n))
    BY <1>11
  <2>5. Cardinality(Below(n)) \in Nat /\ Cardinality(At1(n)) \in Nat
    BY <2>1, <1>4, <1>5
  <2>6. /\ more[n] = row[n] + Cardinality(At1(n))
        /\ Cardinality(Below(n + 1)) = Cardinality(Below(n)) + Cardinality(At1(n))
    BY <2>1, <1>6, <1>9
  <2>7. M[n + 1] = B[n + 1] + Cardinality(Below(n + 1))
    BY <2>2, <2>3, <2>4, <2>5, <2>6
  <2> QED
    BY <2>1, <2>7
<1> HIDE DEF S
<1>12. 0 .. Letters + 1 \subseteq S
  BY <1>1, <1>10, <1>11, UpTo
<1>13. Letters + 1 \in S
  BY <1>1, <1>12
<1> QED
  BY <1>13, <1>8 DEF S, B, M

-----------------------------------------------------------------------------
(* What a word adds to the histograms.                                     *)

Chars == 97 .. 96 + Letters
Words1 == Seq(Chars)

\* The end of a word is coded as zero.
LEMMA EndIsCode == 0 \in Codes /\ Letters \in Nat
<1>1. Letters \in Nat
  BY AlphabetSize
<1> QED
  BY <1>1 DEF Codes

\* No letter is coded as the end of a word.
LEMMA CodeLetter ==
  ASSUME NEW char \in Chars
  PROVE  Code(char) \in Codes \ {0}
<1>1. Letters \in 1 .. 26
  BY AlphabetSize
<1>2. char \in Int /\ 97 <= char /\ char <= 122
  BY <1>1 DEF Chars
<1>3. char % 32 = char - 96
  BY <1>2
<1>4. (char - 96) % 27 = char - 96
  BY <1>2
<1> QED
  BY <1>1, <1>2, <1>3, <1>4 DEF Code, Codes, Chars

\* A framed word has an end at both ends and letters between them.
LEMMA FramedWord ==
  ASSUME NEW word \in Words1
  PROVE  LET f == Framed(word)
         IN  /\ f \in Seq(Codes) /\ Len(f) = Len(word) + 2 /\ Len(word) \in Nat
             /\ f[1] = 0 /\ f[Len(f)] = 0
             /\ \A k \in 2 .. Len(f) - 1 : f[k] \in Codes \ {0}
<1> DEFINE mid == [k \in DOMAIN word |-> Code(word[k])]
           f == Framed(word)
<1>1. Len(word) \in Nat /\ DOMAIN word = 1 .. Len(word)
  BY DEF Words1
<1>2. \A k \in 1 .. Len(word) : Code(word[k]) \in Codes \ {0}
  <2>1. \A k \in 1 .. Len(word) : word[k] \in Chars
    BY DEF Words1
  <2> QED
    BY <2>1, CodeLetter
<1>3. /\ mid \in Seq(Codes) /\ Len(mid) = Len(word)
      /\ \A k \in 1 .. Len(word) : mid[k] \in Codes \ {0}
  BY <1>1, <1>2
<1>4. 0 \in Codes
  BY EndIsCode
<1>5. f = <<0>> \o mid \o <<0>>
  BY DEF Framed
<1> HIDE DEF mid, f
<1> DEFINE g == <<0>> \o mid
<1>6. g \in Seq(Codes) /\ Len(g) = Len(word) + 1 /\ g[1] = 0
      /\ \A k \in 2 .. Len(word) + 1 : g[k] = mid[k - 1]
  BY <1>1, <1>3, <1>4
<1>7. f = g \o <<0>>
  BY <1>5
<1> HIDE DEF g
<1>8. /\ f \in Seq(Codes) /\ Len(f) = Len(word) + 2
      /\ \A k \in 1 .. Len(word) + 1 : f[k] = g[k]
      /\ f[Len(word) + 2] = 0
  BY <1>1, <1>4, <1>6, <1>7
<1>9. \A k \in 2 .. Len(f) - 1 : f[k] \in Codes \ {0}
  <2> TAKE k \in 2 .. Len(f) - 1
  <2>1. k \in 2 .. Len(word) + 1 /\ k \in 1 .. Len(word) + 1 /\ k - 1 \in 1 .. Len(word)
    BY <1>1, <1>8
  <2> QED
    BY <2>1, <1>3, <1>6, <1>8
<1>10. f[1] = 0
  BY <1>1, <1>6, <1>8
<1> QED
  BY <1>1, <1>8, <1>9, <1>10 DEF f

\* The places of a framed word where codes follow each other.
At2(f, a, b) == {k \in 1 .. Len(f) - 1 : f[k] = a /\ f[k + 1] = b}
At3(f, a, b, c) == {k \in 1 .. Len(f) - 2 : f[k] = a /\ f[k + 1] = b /\ f[k + 2] = c}

\* A word has finitely many pairs and triples, and a count is positive when
\* there is one.
LEMMA PlacesFinite ==
  ASSUME NEW f \in Seq(Codes), NEW a, NEW b, NEW c
  PROVE  /\ IsFiniteSet(At2(f, a, b)) /\ Cardinality(At2(f, a, b)) \in Nat
         /\ IsFiniteSet(At3(f, a, b, c)) /\ Cardinality(At3(f, a, b, c)) \in Nat
         /\ Cardinality(At2(f, a, b)) > 0 <=> At2(f, a, b) # {}
         /\ Cardinality(At3(f, a, b, c)) > 0 <=> At3(f, a, b, c) # {}
<1>1. Len(f) - 1 \in Int /\ Len(f) - 2 \in Int
  OBVIOUS
<1>2. IsFiniteSet(1 .. Len(f) - 1) /\ IsFiniteSet(1 .. Len(f) - 2)
  BY <1>1, FS_Interval
<1>3. IsFiniteSet(At2(f, a, b)) /\ IsFiniteSet(At3(f, a, b, c))
  BY <1>2, FS_Subset DEF At2, At3
<1>4. Cardinality(At2(f, a, b)) \in Nat /\ Cardinality(At3(f, a, b, c)) \in Nat
  BY <1>3, FS_CardinalityType
<1>5. /\ Cardinality(At2(f, a, b)) = 0 <=> At2(f, a, b) = {}
      /\ Cardinality(At3(f, a, b, c)) = 0 <=> At3(f, a, b, c) = {}
  BY <1>3, FS_EmptySet
<1> QED
  BY <1>3, <1>4, <1>5

\* The cells of the histograms are numbers.
LEMMA CountTypes ==
  ASSUME NEW lex \in Lexicons, NEW a \in Codes, NEW b \in Codes
  PROVE  /\ lex.histogram2[a] \in Rows /\ lex.histogram2[a][b] \in Nat
         /\ lex.histogram3[a][b] \in Rows
         /\ \A c \in Codes : lex.histogram3[a][b][c] \in Nat
<1>1. lex.histogram2 \in [Codes -> Rows] /\ lex.histogram3 \in [Codes -> [Codes -> Rows]]
  BY DEF Lexicons
<1>2. lex.histogram2[a] \in Rows /\ lex.histogram3[a][b] \in Rows
  BY <1>1
<1> QED
  BY <1>2 DEF Rows

\* Learning a word adds its pairs and its triples to the counts.
LEMMA WithWordIs ==
  ASSUME NEW lex \in Lexicons, NEW word \in Words1
  PROVE  LET f == Framed(word)
             more == WithWord(lex, word)
         IN  /\ more \in Lexicons
             /\ \A a, b \in Codes : more.histogram2[a][b]
                  = lex.histogram2[a][b] + Cardinality(At2(f, a, b))
             /\ \A a, b, c \in Codes : more.histogram3[a][b][c]
                  = lex.histogram3[a][b][c] + Cardinality(At3(f, a, b, c))
<1> DEFINE f == Framed(word)
           more == WithWord(lex, word)
           N2(a, b) == lex.histogram2[a][b] + Cardinality(At2(f, a, b))
           N3(a, b, c) == lex.histogram3[a][b][c] + Cardinality(At3(f, a, b, c))
<1>1. f \in Seq(Codes)
  BY FramedWord
<1>2. more = [histogram2 |-> [a \in Codes |-> [b \in Codes |-> N2(a, b)]],
              histogram3 |-> [a \in Codes |-> [b \in Codes |-> [c \in Codes |-> N3(a, b, c)]]]]
  BY DEF WithWord, Counted, At2, At3
<1> HIDE DEF f, more
<1>3. \A a, b, c \in Codes : N2(a, b) \in Nat /\ N3(a, b, c) \in Nat
  <2> TAKE a, b, c \in Codes
  <2>1. lex.histogram2[a][b] \in Nat /\ lex.histogram3[a][b][c] \in Nat
    BY CountTypes
  <2>2. Cardinality(At2(f, a, b)) \in Nat /\ Cardinality(At3(f, a, b, c)) \in Nat
    BY <1>1, PlacesFinite
  <2> QED
    BY <2>1, <2>2
<1> HIDE DEF N2, N3
<1>4. more \in Lexicons
  BY <1>2, <1>3 DEF Lexicons, Rows
<1>5. /\ \A a, b \in Codes : more.histogram2[a][b] = N2(a, b)
      /\ \A a, b, c \in Codes : more.histogram3[a][b][c] = N3(a, b, c)
  BY <1>2
<1> QED
  BY <1>4, <1>5 DEF f, more, N2, N3

-----------------------------------------------------------------------------
(* What is true of a lexicon whatever words it has learned.                *)

\* Pairs are counted as often as the triples that begin with them.
Agrees(lex) ==
  \A a \in Codes, b \in Codes \ {0} :
    lex.histogram2[a][b] = Before(lex.histogram3[a][b])[Letters + 1]

\* A triple ends in a pair; no word is one letter long.
Linked(lex) ==
  /\ \A a, b, c \in Codes : lex.histogram3[a][b][c] > 0 => lex.histogram2[b][c] > 0
  /\ \A b \in Codes \ {0} : lex.histogram3[0][b][0] = 0

\* It knows triples of its language only, and a first letter if it has read
\* the first n words and one of them was long enough to learn.
Knows(lex, lang, n) ==
  /\ \A a, b, c \in Codes : lex.histogram3[a][b][c] > 0 => <<a, b, c>> \in Spoken(lang)
  /\ (\E j \in 1 .. n : ~TooShort(Corpus[lang][j])) =>
       \E c \in 1 .. Letters : lex.histogram2[0][c] > 0

\* Learning a word keeps pairs the sums of triples.
LEMMA WordAgrees ==
  ASSUME NEW lex \in Lexicons, NEW word \in Words1, Agrees(lex)
  PROVE  Agrees(WithWord(lex, word))
<1> DEFINE f == Framed(word)
           more == WithWord(lex, word)
<1>1. /\ f \in Seq(Codes) /\ Len(f) \in Nat /\ Len(f) >= 2 /\ f[Len(f)] = 0
  BY FramedWord
<1>2. /\ more \in Lexicons
      /\ \A a, b \in Codes : more.histogram2[a][b]
           = lex.histogram2[a][b] + Cardinality(At2(f, a, b))
      /\ \A a, b, c \in Codes : more.histogram3[a][b][c]
           = lex.histogram3[a][b][c] + Cardinality(At3(f, a, b, c))
  BY WithWordIs
<1> HIDE DEF f, more
<1> SUFFICES ASSUME NEW a \in Codes, NEW b \in Codes \ {0}
             PROVE  more.histogram2[a][b] = Before(more.histogram3[a][b])[Letters + 1]
  BY DEF Agrees, more
<1> DEFINE row == lex.histogram3[a][b]
           new == more.histogram3[a][b]
           K == At2(f, a, b)
           g == [k \in K |-> f[k + 2]]
<1>3. row \in Rows /\ new \in Rows
  BY <1>2, CountTypes
<1>4. \A k \in K : k \in 1 .. Len(f) - 2
  BY <1>1 DEF At2
<1>5. g \in [K -> Codes]
  BY <1>1, <1>4
<1>6. \A c \in Codes : At3(f, a, b, c) = {k \in K : g[k] = c}
  BY <1>1, <1>4 DEF At2, At3
<1>7. \A c \in Codes : new[c] = row[c] + Cardinality({k \in K : g[k] = c})
  <2> TAKE c \in Codes
  <2>1. new[c] = row[c] + Cardinality(At3(f, a, b, c))
    BY <1>2
  <2>2. Cardinality(At3(f, a, b, c)) = Cardinality({k \in K : g[k] = c})
    BY <1>6, Zenon
  <2> QED
    BY <2>1, <2>2
<1>8. IsFiniteSet(K)
  BY <1>1, PlacesFinite
<1>9. more.histogram2[a][b] = lex.histogram2[a][b] + Cardinality(K)
  BY <1>2
<1>10. lex.histogram2[a][b] = Before(row)[Letters + 1]
  BY DEF Agrees
<1> HIDE DEF row, new, K, g
<1>11. Before(new)[Letters + 1] = Before(row)[Letters + 1] + Cardinality(K)
  BY <1>3, <1>5, <1>7, <1>8, BeforeCounts
<1> QED
  BY <1>9, <1>10, <1>11 DEF new

\* Learning a word that is long enough keeps the end of every triple a pair that is
\* counted, and counts no word of one letter.
LEMMA WordLinks ==
  ASSUME NEW lex \in Lexicons, NEW word \in Words1, ~TooShort(word), Linked(lex)
  PROVE  Linked(WithWord(lex, word))
<1> DEFINE f == Framed(word)
           more == WithWord(lex, word)
<1>1. /\ f \in Seq(Codes) /\ Len(f) \in Nat /\ Len(f) >= 4
      /\ \A k \in 2 .. Len(f) - 1 : f[k] \in Codes \ {0}
  BY FramedWord DEF TooShort
<1>2. /\ more \in Lexicons
      /\ \A a, b \in Codes : more.histogram2[a][b]
           = lex.histogram2[a][b] + Cardinality(At2(f, a, b))
      /\ \A a, b, c \in Codes : more.histogram3[a][b][c]
           = lex.histogram3[a][b][c] + Cardinality(At3(f, a, b, c))
  BY WithWordIs
<1> HIDE DEF f, more
<1>3. /\ \A a, b \in Codes : lex.histogram2[a][b] \in Nat
      /\ \A a, b, c \in Codes : lex.histogram3[a][b][c] \in Nat
  BY CountTypes
<1>4. ASSUME NEW a \in Codes, NEW b \in Codes, NEW c \in Codes, more.histogram3[a][b][c] > 0
      PROVE  more.histogram2[b][c] > 0
  <2>1. \/ lex.histogram3[a][b][c] > 0
        \/ At3(f, a, b, c) # {}
    BY <1>1, <1>2, <1>3, <1>4, PlacesFinite
  <2>2. CASE lex.histogram3[a][b][c] > 0
    <3>1. lex.histogram2[b][c] > 0
      BY <2>2 DEF Linked
    <3>2. Cardinality(At2(f, b, c)) \in Nat
      BY <1>1, PlacesFinite
    <3> QED
      BY <3>1, <3>2, <1>2, <1>3
  <2>3. CASE At3(f, a, b, c) # {}
    <3>1. PICK k \in At3(f, a, b, c) : TRUE
      BY <2>3
    <3>2. k + 1 \in At2(f, b, c)
      BY <3>1, <1>1 DEF At2, At3
    <3>3. Cardinality(At2(f, b, c)) > 0 /\ Cardinality(At2(f, b, c)) \in Nat
      BY <3>2, <1>1, PlacesFinite
    <3> QED
      BY <3>3, <1>2, <1>3
  <2> QED
    BY <2>1, <2>2, <2>3
<1>5. ASSUME NEW b \in Codes \ {0} PROVE more.histogram3[0][b][0] = 0
  <2>1. At3(f, 0, b, 0) = {}
    BY <1>1 DEF At3
  <2>2. Cardinality(At3(f, 0, b, 0)) = 0
    BY <2>1, FS_EmptySet
  <2>3. 0 \in Codes /\ lex.histogram3[0][b][0] = 0
    BY EndIsCode DEF Linked
  <2> QED
    BY <2>2, <2>3, <1>2
<1> QED
  BY <1>4, <1>5 DEF Linked, more

\* Learning a word makes its triples known, and a word that is too short adds
\* none.
LEMMA WordKnown ==
  ASSUME NEW lex \in Lexicons, NEW lang \in DOMAIN Corpus, NEW n \in Nat,
         n < Len(Corpus[lang]), Knows(lex, lang, n)
  PROVE  LET word == Corpus[lang][n + 1]
         IN  /\ word \in Words1
             /\ ~TooShort(word) => Knows(WithWord(lex, word), lang, n + 1)
             /\ TooShort(word) => Knows(lex, lang, n + 1)
<1> DEFINE word == Corpus[lang][n + 1]
           f == Framed(word)
           more == WithWord(lex, word)
<1>1. Corpus[lang] \in Seq(Words1) /\ n + 1 \in DOMAIN Corpus[lang]
  BY CorpusAssumption DEF Words1, Chars
<1>2. word \in Words1
  BY <1>1
<1> HIDE DEF word, f, more
<1>3. ASSUME TooShort(word) PROVE Knows(lex, lang, n + 1)
  BY <1>3 DEF Knows, word
<1>4. ASSUME ~TooShort(word) PROVE Knows(more, lang, n + 1)
  <2>1. /\ f \in Seq(Codes) /\ Len(f) \in Nat /\ Len(f) >= 4 /\ f[1] = 0
        /\ \A k \in 2 .. Len(f) - 1 : f[k] \in Codes \ {0}
    BY <1>2, <1>4, FramedWord DEF TooShort, f
  <2>2. /\ more \in Lexicons
        /\ \A a, b \in Codes : more.histogram2[a][b]
             = lex.histogram2[a][b] + Cardinality(At2(f, a, b))
        /\ \A a, b, c \in Codes : more.histogram3[a][b][c]
             = lex.histogram3[a][b][c] + Cardinality(At3(f, a, b, c))
    BY <1>2, WithWordIs DEF f, more
  <2>3. /\ \A a, b \in Codes : lex.histogram2[a][b] \in Nat
        /\ \A a, b, c \in Codes : lex.histogram3[a][b][c] \in Nat
    BY CountTypes
  <2>4. \A k \in 1 .. Len(f) - 2 : <<f[k], f[k + 1], f[k + 2]>> \in Spoken(lang)
    <3>1. n + 1 \in DOMAIN Corpus[lang] /\ Len(word) >= 2
      BY <1>1, <1>2, <1>4 DEF TooShort, Words1
    <3>2. \A k \in 1 .. Len(f) - 2 : <<f[k], f[k + 1], f[k + 2]>> \in Codes \X Codes \X Codes
      BY <2>1
    <3> QED
      BY <3>1, <3>2 DEF Spoken, f, word
  <2>5. ASSUME NEW a \in Codes, NEW b \in Codes, NEW c \in Codes, more.histogram3[a][b][c] > 0
        PROVE  <<a, b, c>> \in Spoken(lang)
    <3>1. \/ lex.histogram3[a][b][c] > 0
          \/ At3(f, a, b, c) # {}
      BY <2>1, <2>2, <2>3, <2>5, PlacesFinite
    <3>2. CASE lex.histogram3[a][b][c] > 0
      BY <3>2 DEF Knows
    <3>3. CASE At3(f, a, b, c) # {}
      BY <3>3, <2>4 DEF At3
    <3> QED
      BY <3>1, <3>2, <3>3
  <2>6. more.histogram2[0][f[2]] > 0 /\ f[2] \in 1 .. Letters
    <3>0. 0 \in Codes /\ Letters \in Nat
      BY EndIsCode
    <3>1. 1 \in At2(f, 0, f[2]) /\ f[2] \in Codes /\ f[2] # 0
      BY <2>1 DEF At2
    <3>2. Cardinality(At2(f, 0, f[2])) > 0 /\ Cardinality(At2(f, 0, f[2])) \in Nat
      BY <3>1, <2>1, PlacesFinite
    <3>3. more.histogram2[0][f[2]] = lex.histogram2[0][f[2]] + Cardinality(At2(f, 0, f[2]))
      BY <3>0, <3>1, <2>2
    <3>4. lex.histogram2[0][f[2]] \in Nat
      BY <3>0, <3>1, <2>3
    <3> QED
      BY <3>0, <3>1, <3>2, <3>3, <3>4 DEF Codes
  <2> QED
    BY <2>5, <2>6 DEF Knows
<1> QED
  BY <1>2, <1>3, <1>4 DEF word, more

-----------------------------------------------------------------------------
(* wordsplit always ends with a sequence of words.                         *)

Modes == {"between", "word", "quote", "escape", "octal"}
Texts == Seq(Nat)
Scans == [mode : Modes, octal : Nat, digits : Nat, word : Texts, words : Seq(Texts)]

\* The splitter keeps its state in its range, whatever it reads.
LEMMA AddType == ASSUME NEW s \in Scans, NEW c \in Nat PROVE Add(s, c) \in Scans
<1>1. s.word \in Texts
  BY DEF Scans
<1>2. Append(s.word, c) \in Texts
  BY <1>1 DEF Texts
<1>3. \A t \in Texts : [s EXCEPT !.word = t] \in Scans
  BY DEF Scans
<1> QED
  BY <1>2, <1>3 DEF Add

\* So does the end of a word,
LEMMA EndWordType == ASSUME NEW s \in Scans PROVE EndWord(s) \in Scans
<1>1. s.word \in Texts /\ s.words \in Seq(Texts)
  BY DEF Scans
<1>2. Append(s.words, s.word) \in Seq(Texts)
  BY <1>1
<1>3. <<>> \in Texts /\ "between" \in Modes
  BY DEF Texts, Modes
<1>4. \A m \in Modes, t \in Texts, u \in Seq(Texts) :
        [s EXCEPT !.mode = m, !.word = t, !.words = u] \in Scans
  BY DEF Scans
<1> QED
  BY <1>2, <1>3, <1>4 DEF EndWord

\* a change of mode,
LEMMA ModeType == ASSUME NEW s \in Scans, NEW m \in Modes PROVE [s EXCEPT !.mode = m] \in Scans
BY DEF Scans

\* the end of an octal escape,
LEMMA EndOctalType == ASSUME NEW s \in Scans PROVE EndOctal(s) \in Scans
<1>1. s.octal % 256 \in Nat
  BY DEF Scans
<1>2. Add(s, s.octal % 256) \in Scans
  BY <1>1, AddType
<1>3. (IF s.octal % 256 = 0 THEN s ELSE Add(s, s.octal % 256)) \in Scans
  BY <1>2
<1>4. "quote" \in Modes
  BY DEF Modes
<1> QED
  BY <1>3, <1>4, ModeType DEF EndOctal

\* a character between quotes,
LEMMA InQuotesType == ASSUME NEW s \in Scans, NEW c \in Nat PROVE InQuotes(s, c) \in Scans
<1>1. "word" \in Modes /\ "escape" \in Modes
  BY DEF Modes
<1> QED
  BY <1>1, AddType, ModeType DEF InQuotes

\* and so any character.
LEMMA Scan1Type == ASSUME NEW s \in Scans, NEW c \in Nat PROVE Scan1(s, c) \in Scans
<1>1. {"between", "word", "quote", "escape", "octal"} \subseteq Modes
  BY DEF Modes
<1>2. OutsideQuotes(s, c) \in Scans
  <2>1. [Add(s, c) EXCEPT !.mode = "word"] \in Scans
    BY <1>1, AddType, ModeType
  <2> QED
    BY <2>1, <1>1, EndWordType, ModeType DEF OutsideQuotes
<1>3. AfterBackslash(s, c) \in Scans
  <2>1. Meaning(c) \in Nat
    BY DEF Meaning
  <2>2. [Add(s, Meaning(c)) EXCEPT !.mode = "quote"] \in Scans
    BY <2>1, <1>1, AddType, ModeType
  <2>3. c \in Digits => [s EXCEPT !.mode = "octal", !.octal = c - 48, !.digits = 1] \in Scans
    <3>1. c \in Digits => c - 48 \in Nat
      BY DEF Digits
    <3>2. \A m \in Modes, n, d \in Nat : [s EXCEPT !.mode = m, !.octal = n, !.digits = d] \in Scans
      BY DEF Scans
    <3> QED
      BY <1>1, <3>1, <3>2
  <2> QED
    BY <2>2, <2>3 DEF AfterBackslash
<1>4. InOctal(s, c) \in Scans
  <2>1. c \in Digits => [s EXCEPT !.octal = @ * 8 + c - 48, !.digits = @ + 1] \in Scans
    <3>1. c \in Digits => s.octal * 8 + c - 48 \in Nat
      <4>1. s.octal \in Nat
        BY DEF Scans
      <4> QED
        BY <4>1 DEF Digits
    <3>2. s.digits + 1 \in Nat
      BY DEF Scans
    <3>3. \A n, d \in Nat : [s EXCEPT !.octal = n, !.digits = d] \in Scans
      BY DEF Scans
    <3> QED
      BY <3>1, <3>2, <3>3
  <2>2. InQuotes(EndOctal(s), c) \in Scans
    BY EndOctalType, InQuotesType
  <2> QED
    BY <2>1, <2>2 DEF InOctal
<1>5. s.mode \in Modes
  BY DEF Scans
<1> QED
  BY <1>2, <1>3, <1>4, <1>5, InQuotesType DEF Scan1, Modes

\* A line splits into a sequence of words.
LEMMA WordsSeq == ASSUME NEW line \in Seq(Nat) PROVE Words(line) \in Seq(Seq(Nat))
<1> DEFINE N == Len(line)
           step == [n \in 1 .. N |-> [s \in Scans |-> Scan1(s, line[n])]]
           Value(g, n) == IF n = 0 THEN Scanning ELSE Scan1(g[n - 1], line[n])
           Solves(read) == read = [n \in 0 .. N |-> Value(read, n)]
           read == CHOOSE g : Solves(g)
           last == read[N]
           s == IF last.mode = "octal" THEN EndOctal(last) ELSE last
<1>1. N \in Nat /\ \A n \in 1 .. N : line[n] \in Nat
  OBVIOUS
<1>2. Scanning \in Scans
  <2>1. <<>> \in Texts /\ <<>> \in Seq(Texts) /\ "between" \in Modes
    BY DEF Texts, Modes
  <2> QED
    BY <2>1 DEF Scanning, Scans
<1>3. step \in Steps(N, Scans)
  BY <1>1, Scan1Type DEF Steps
<1>4. \E g : Solves(g)
  <2>1. PICK g : Iterates(g, Scanning, N, step, Scans)
    <3> HIDE DEF N, step
    <3> QED
      BY <1>1, <1>2, <1>3, Iteration
  <2>2. /\ g \in [0 .. N -> Scans] /\ g[0] = Scanning
        /\ \A n \in 1 .. N : g[n] = step[n][g[n - 1]]
    BY <2>1 DEF Iterates
  <2>3. \A n \in 1 .. N : g[n] = Scan1(g[n - 1], line[n])
    <3> TAKE n \in 1 .. N
    <3>1. g[n - 1] \in Scans
      BY <1>1, <2>2
    <3> QED
      BY <3>1, <2>2
  <2>4. \A n \in 0 .. N : g[n] = Value(g, n)
    BY <1>1, <2>2, <2>3
  <2>5. g = [n \in 0 .. N |-> Value(g, n)]
    <3> HIDE DEF Value
    <3> QED
      BY <2>2, <2>4
  <2> HIDE DEF Value
  <2> QED
    BY <2>5
<1>5. Words(line) = IF s.mode = "between" THEN s.words ELSE Append(s.words, s.word)
  BY Zenon DEF Words
<1> HIDE DEF Solves
<1>6. Solves(read)
  BY <1>4, Zenon
<1> HIDE DEF read, s, step
<1>7. \A n \in 0 .. N : read[n] = Value(read, n)
  <2> HIDE DEF Value
  <2> QED
    BY <1>6 DEF Solves
<1> DEFINE T == {n \in 0 .. N : read[n] \in Scans}
<1>8. 0 .. N \subseteq T
  <2>1. 0 \in T
    BY <1>1, <1>2, <1>7
  <2>2. ASSUME NEW n \in 0 .. N - 1, n \in T PROVE n + 1 \in T
    <3>1. n + 1 \in 0 .. N /\ n + 1 # 0 /\ (n + 1) - 1 = n /\ line[n + 1] \in Nat
      BY <1>1
    <3>2. read[n + 1] = Scan1(read[n], line[n + 1])
      BY <3>1, <1>7
    <3> QED
      BY <3>1, <3>2, <2>2, Scan1Type
  <2> HIDE DEF T
  <2> QED
    BY <1>1, <2>1, <2>2, UpTo
<1>9. s \in Scans
  <2>1. last \in Scans
    BY <1>1, <1>8
  <2> QED
    BY <2>1, EndOctalType DEF s
<1>10. s.word \in Texts /\ s.words \in Seq(Texts)
  BY <1>9 DEF Scans
<1> QED
  BY <1>5, <1>10 DEF Texts

-----------------------------------------------------------------------------
(* The inductive invariant.                                                *)

\* A new lexicon has counted nothing.
LEMMA EmptyLexicon ==
  ASSUME NEW lang \in DOMAIN Corpus
  PROVE  Empty \in Lexicons /\ Agrees(Empty) /\ Linked(Empty) /\ Knows(Empty, lang, 0)
<1> DEFINE row == [c \in Codes |-> 0]
           S == {n \in 0 .. Letters + 1 : Before(row)[n] = 0}
<1>1. Letters \in Nat /\ 0 \in Codes
  BY EndIsCode
<1>2. row \in Rows
  BY DEF Rows
<1>3. /\ Before(row)[0] = 0
      /\ \A c \in Codes : Before(row)[c + 1] = Before(row)[c] + 0
  BY <1>2, BeforeRow
<1>4. Before(row)[Letters + 1] = 0
  <2>1. 0 \in S
    BY <1>1, <1>3
  <2>2. ASSUME NEW n \in 0 .. Letters + 1 - 1, n \in S PROVE n + 1 \in S
    BY <1>1, <1>3, <2>2 DEF Codes
  <2> HIDE DEF S
  <2>3. 0 .. Letters + 1 \subseteq S
    BY <1>1, <2>1, <2>2, UpTo
  <2>4. Letters + 1 \in S
    BY <1>1, <2>3
  <2> QED
    BY <2>4 DEF S
<1>5. /\ \A a, b \in Codes : Empty.histogram2[a][b] = 0 /\ Empty.histogram3[a][b] = row
      /\ \A a, b, c \in Codes : Empty.histogram3[a][b][c] = 0
  BY DEF Empty
<1>6. Empty \in Lexicons
  BY DEF Empty, Lexicons, Rows
<1>7. Agrees(Empty)
  <2> SUFFICES ASSUME NEW a \in Codes, NEW b \in Codes \ {0}
               PROVE  Empty.histogram2[a][b] = Before(Empty.histogram3[a][b])[Letters + 1]
    BY DEF Agrees
  <2>1. Empty.histogram2[a][b] = 0 /\ Empty.histogram3[a][b] = row
    BY <1>5
  <2> HIDE DEF row
  <2> QED
    BY <2>1, <1>4
<1>8. Linked(Empty) /\ Knows(Empty, lang, 0)
  BY <1>1, <1>5 DEF Linked, Knows
<1> QED
  BY <1>6, <1>7, <1>8

Entries == [name : Languages, lexicon : Lexicons \cup {Unloaded}]

\* How many words of its file the lexicon of entry n has learned.
Learned(n) ==
  IF task.phase = "learn" /\ task.at = n THEN task.words
  ELSE Len(Corpus[lexicon_list[n].name])

\* An entry whose lexicon has learned so many words.
Taught(e, count) ==
  /\ e.name \in DOMAIN Corpus
  /\ e.lexicon \in Lexicons /\ e.lexicon # Unloaded
  /\ Agrees(e.lexicon) /\ Linked(e.lexicon) /\ Knows(e.lexicon, e.name, count)

ListOK ==
  /\ lexicon_list \in Seq(Entries)
  /\ \A n \in DOMAIN lexicon_list :
       lexicon_list[n].lexicon # Unloaded => Taught(lexicon_list[n], Learned(n))

Phases == {"idle", "learn", "first", "next", "done"}
Busy == {"learn", "first", "next"}
Lengths == 0 .. 2
Tasks == [phase : Phases, at : Nat, words : Nat, c0 : Codes, c1 : Codes, length : Lengths]

\* The next letter follows two that are followed by something.
TaskOK ==
  /\ task \in Tasks
  /\ task.phase \in Busy => task.at \in DOMAIN lexicon_list /\ Entry.lexicon # Unloaded
  /\ task.phase = "learn" => task.words <= Len(Corpus[Entry.name])
  /\ task.phase \in {"learn", "first"} => task.c0 = 0
  /\ task.phase = "next" =>
       task.c1 # 0 /\ Following > 0 /\ (task.c0 = 0 \/ task.length = 2)
  /\ task.phase = "done" => task.at = 0 \/ task.length = 2

LexInv == ListOK /\ TaskOK /\ StraysOnlyUntaught

\* The program starts with sound lexicons.
LEMMA LexInitial == Init => LexInv
<1> SUFFICES ASSUME Init PROVE LexInv
  OBVIOUS
<1> USE DEF Init, LexiconInit
<1>1. Len(Listed) \in Nat /\ \A n \in 1 .. Len(Listed) : Reverse(Listed)[n] \in Languages
  BY CorpusAssumption DEF Reverse
<1>2. lexicon_list \in Seq(Entries) /\ \A n \in DOMAIN lexicon_list : lexicon_list[n].lexicon = Unloaded
  BY <1>1 DEF ListInit, Entries
<1>3. task \in Tasks /\ task.phase = "idle"
  BY EndIsCode DEF Idle, Tasks, Phases, Lengths
<1> QED
  BY <1>2, <1>3 DEF LexInv, ListOK, TaskOK, StraysOnlyUntaught, Busy

\* The lexicon of one entry is replaced.
LEMMA Replaced ==
  ASSUME NEW list \in Seq(Entries), NEW n \in DOMAIN list, NEW lex \in Lexicons
  PROVE  LET new == [list EXCEPT ![n].lexicon = lex]
         IN  /\ new \in Seq(Entries) /\ DOMAIN new = DOMAIN list
             /\ new[n].name = list[n].name /\ new[n].lexicon = lex
             /\ new[n] \in Entries
             /\ \A k \in DOMAIN list : k # n => new[k] = list[k]
<1> DEFINE entry == [list[n] EXCEPT !.lexicon = lex]
           new == [list EXCEPT ![n] = entry]
<1>1. list[n] \in Entries
  OBVIOUS
<1>2. entry \in Entries /\ entry.name = list[n].name /\ entry.lexicon = lex
  BY <1>1 DEF Entries
<1> HIDE DEF entry
<1>3. /\ new \in Seq(Entries) /\ DOMAIN new = DOMAIN list /\ new[n] = entry
      /\ \A k \in DOMAIN list : k # n => new[k] = list[k]
  BY <1>2
<1> QED
  BY <1>2, <1>3 DEF entry

\* Steps that leave the lexicons alone keep them sound.
LEMMA LexSame ==
  ASSUME LexInv, UNCHANGED lexiconVars
  PROVE  LexInv'
BY DEF LexInv, ListOK, TaskOK, StraysOnlyUntaught, lexiconVars, Learned, Entry, Following

\* The lexicon of the task at hand has learned as far as the task says.
LEMMA EntryTaught ==
  ASSUME LexInv, task.phase \in Busy
  PROVE  /\ task.at \in DOMAIN lexicon_list /\ Entry \in Entries
         /\ Taught(Entry, IF task.phase = "learn" THEN task.words ELSE Len(Corpus[Entry.name]))
<1>1. task.at \in DOMAIN lexicon_list /\ Entry.lexicon # Unloaded
  BY DEF LexInv, TaskOK
<1>2. Entry \in Entries
  BY <1>1 DEF LexInv, ListOK, Entry
<1>3. Taught(Entry, Learned(task.at))
  BY <1>1 DEF LexInv, ListOK, Entry
<1> QED
  BY <1>1, <1>2, <1>3 DEF Learned, Entry

\* One lemma for each step of the generator: the lexicons stay sound.
LEMMA LearnWordKeeps ==
  ASSUME LexInv, LearnWord
  PROVE  LexInv'
<1> DEFINE n == task.at
           lang == Entry.name
           word == Corpus[lang][task.words + 1]
           lex == IF TooShort(word) THEN Entry.lexicon ELSE WithWord(Entry.lexicon, word)
<1>1. /\ status = "running" /\ task.phase = "learn" /\ status' = status
      /\ task.words < Len(Corpus[lang])
      /\ task' = [task EXCEPT !.words = @ + 1]
  BY DEF LearnWord, In
<1>2. n \in DOMAIN lexicon_list /\ Entry \in Entries /\ Taught(Entry, task.words)
  BY <1>1, EntryTaught DEF Busy
<1>3. lexicon_list' = [lexicon_list EXCEPT ![n].lexicon = lex]
  BY DEF LearnWord, Entry
<1>4. task \in Tasks /\ task.words \in Nat
  BY DEF LexInv, TaskOK, Tasks
<1>5. /\ task' \in Tasks /\ task'.phase = "learn" /\ task'.at = n
      /\ task'.words = task.words + 1 /\ task'.c0 = task.c0
  BY <1>1, <1>4 DEF Tasks
<1>6. /\ word \in Words1
      /\ ~TooShort(word) => Knows(WithWord(Entry.lexicon, word), lang, task.words + 1)
      /\ TooShort(word) => Knows(Entry.lexicon, lang, task.words + 1)
  BY <1>1, <1>2, <1>4, WordKnown DEF Taught
<1> HIDE DEF word
<1>7. lex \in Lexicons /\ Agrees(lex) /\ Linked(lex) /\ Knows(lex, lang, task.words + 1)
  <2>1. CASE TooShort(word)
    BY <2>1, <1>2, <1>6 DEF Taught
  <2>2. CASE ~TooShort(word)
    <3>1. /\ Entry.lexicon \in Lexicons /\ Agrees(Entry.lexicon) /\ Linked(Entry.lexicon)
      BY <1>2 DEF Taught
    <3>2. WithWord(Entry.lexicon, word) \in Lexicons
      BY <3>1, <1>6, WithWordIs
    <3>3. Agrees(WithWord(Entry.lexicon, word)) /\ Linked(WithWord(Entry.lexicon, word))
      BY <3>1, <1>6, <2>2, WordAgrees, WordLinks
    <3> QED
      BY <3>2, <3>3, <2>2, <1>6
  <2> QED
    BY <2>1, <2>2
<1> HIDE DEF lex
<1>8. lexicon_list \in Seq(Entries)
  BY DEF LexInv, ListOK
<1>9. /\ lexicon_list' \in Seq(Entries) /\ DOMAIN lexicon_list' = DOMAIN lexicon_list
      /\ lexicon_list'[n].name = lang /\ lexicon_list'[n].lexicon = lex
      /\ \A k \in DOMAIN lexicon_list : k # n => lexicon_list'[k] = lexicon_list[k]
  BY <1>2, <1>3, <1>7, <1>8, Replaced DEF Entry
<1>10. lex # Unloaded
  BY <1>7, CorpusAssumption
<1>11. ListOK'
  <2> SUFFICES ASSUME NEW k \in DOMAIN lexicon_list, lexicon_list'[k].lexicon # Unloaded
               PROVE  Taught(lexicon_list'[k], Learned(k)')
    BY <1>9 DEF ListOK
  <2>1. CASE k = n
    <3>1. Learned(k)' = task.words + 1
      BY <2>1, <1>5 DEF Learned
    <3> QED
      BY <3>1, <2>1, <1>2, <1>7, <1>9, <1>10 DEF Taught
  <2>2. CASE k # n
    <3>1. lexicon_list'[k] = lexicon_list[k]
      BY <2>2, <1>9
    <3>2. Taught(lexicon_list[k], Learned(k))
      BY <2>2, <3>1 DEF LexInv, ListOK
    <3>3. Learned(k)' = Learned(k)
      BY <2>2, <3>1, <1>5 DEF Learned
    <3> QED
      BY <3>1, <3>2, <3>3
  <2> QED
    BY <2>1, <2>2
<1>12. TaskOK'
  <2>1. task.c0 = 0
    BY <1>1 DEF LexInv, TaskOK
  <2>2. Entry'.name = lang /\ Entry'.lexicon = lex
    BY <1>5, <1>9 DEF Entry
  <2>3. task'.words <= Len(Corpus[lang])
    <3>1. Len(Corpus[lang]) \in Nat
      BY <1>2, CorpusAssumption DEF Taught
    <3> QED
      BY <3>1, <1>1, <1>4, <1>5
  <2> QED
    BY <2>1, <2>2, <2>3, <1>2, <1>5, <1>9, <1>10 DEF TaskOK
<1> QED
  BY <1>1, <1>11, <1>12 DEF LexInv, StraysOnlyUntaught

\* The end of learning.
LEMMA LearnDoneKeeps ==
  ASSUME LexInv, LearnDone
  PROVE  LexInv'
<1>1. /\ status = "running" /\ task.phase = "learn" /\ UNCHANGED <<lexicon_list, status>>
      /\ task.words = Len(Corpus[Entry.name])
      /\ task' = [task EXCEPT !.phase = "first", !.words = 0]
  BY DEF LearnDone, In
<1>2. /\ task \in Tasks /\ task.c0 = 0
      /\ task.at \in DOMAIN lexicon_list /\ Entry.lexicon # Unloaded
  BY <1>1 DEF LexInv, TaskOK, Busy
<1>3. task' \in Tasks /\ task'.phase = "first" /\ task'.at = task.at /\ task'.c0 = 0
  BY <1>1, <1>2 DEF Tasks, Phases
<1>4. \A n \in DOMAIN lexicon_list : Learned(n)' = Learned(n)
  BY <1>1, <1>3 DEF Learned, Entry
<1>5. ListOK'
  BY <1>1, <1>4 DEF LexInv, ListOK
<1>6. TaskOK'
  BY <1>1, <1>2, <1>3 DEF TaskOK, Entry
<1> QED
  BY <1>1, <1>5, <1>6 DEF LexInv, StraysOnlyUntaught

\* The start of a generate command.
LEMMA StartKeeps ==
  ASSUME LexInv, NEW lang, StartGenerate(lang)
  PROVE  LexInv' /\ (status' = "aborted" => task'.phase = "idle")
<1>1. /\ status = "running" /\ task.phase = "idle"
      /\ task \in Tasks /\ lexicon_list \in Seq(Entries)
  BY DEF StartGenerate, In, LexInv, TaskOK, ListOK
<1>2. Idle \in Tasks
  BY EndIsCode DEF Idle, Tasks, Phases, Lengths
<1>3. CASE /\ Found(lang) = {}
           /\ task' = [Idle EXCEPT !.phase = "done"]
           /\ UNCHANGED <<lexicon_list, status>>
  <2>1. /\ task' \in Tasks /\ task'.phase = "done" /\ task'.at = 0
    BY <1>2, <1>3 DEF Idle, Tasks, Phases, Lengths
  <2>2. \A n \in DOMAIN lexicon_list : Learned(n)' = Learned(n)
    BY <1>1, <1>3, <2>1 DEF Learned
  <2> QED
    BY <1>1, <1>3, <2>1, <2>2 DEF LexInv, ListOK, TaskOK, Busy, StraysOnlyUntaught
<1>4. ASSUME NEW n \in Found(lang), lexicon_list[n].lexicon # Unloaded,
             task' = [Idle EXCEPT !.phase = "first", !.at = n],
             UNCHANGED <<lexicon_list, status>>
      PROVE  LexInv'
  <2>1. n \in DOMAIN lexicon_list /\ n \in Nat
    BY <1>1, <1>4 DEF Found
  <2>2. /\ task' \in Tasks /\ task'.phase = "first" /\ task'.at = n /\ task'.c0 = 0
    BY <1>2, <1>4, <2>1 DEF Idle, Tasks, Phases, Lengths
  <2>3. \A k \in DOMAIN lexicon_list : Learned(k)' = Learned(k)
    BY <1>1, <1>4, <2>2 DEF Learned
  <2>4. ListOK'
    BY <1>4, <2>3 DEF LexInv, ListOK
  <2>5. TaskOK'
    BY <1>4, <2>1, <2>2 DEF TaskOK, Entry
  <2> QED
    BY <1>1, <1>4, <2>4, <2>5 DEF LexInv, StraysOnlyUntaught
<1>5. ASSUME NEW n \in Found(lang), lexicon_list[n].lexicon = Unloaded, lang \in DOMAIN Corpus,
             task' = [Idle EXCEPT !.phase = "learn", !.at = n],
             lexicon_list' = [lexicon_list EXCEPT ![n].lexicon = Empty],
             UNCHANGED status
      PROVE  LexInv'
  <2>1. n \in DOMAIN lexicon_list /\ n \in Nat /\ lexicon_list[n].name = lang
    BY <1>1, <1>5 DEF Found
  <2>2. Empty \in Lexicons /\ Agrees(Empty) /\ Linked(Empty) /\ Knows(Empty, lang, 0)
    BY <1>5, EmptyLexicon
  <2>3. Empty # Unloaded
    BY <2>2, CorpusAssumption
  <2>4. /\ task' \in Tasks /\ task'.phase = "learn" /\ task'.at = n /\ task'.words = 0
        /\ task'.c0 = 0
    BY <1>2, <1>5, <2>1 DEF Idle, Tasks, Phases, Lengths
  <2>5. /\ lexicon_list' \in Seq(Entries) /\ DOMAIN lexicon_list' = DOMAIN lexicon_list
        /\ lexicon_list'[n].name = lang /\ lexicon_list'[n].lexicon = Empty
        /\ \A k \in DOMAIN lexicon_list : k # n => lexicon_list'[k] = lexicon_list[k]
    BY <1>1, <1>5, <2>1, <2>2, Replaced
  <2>6. ListOK'
    <3> SUFFICES ASSUME NEW k \in DOMAIN lexicon_list, lexicon_list'[k].lexicon # Unloaded
                 PROVE  Taught(lexicon_list'[k], Learned(k)')
      BY <2>5 DEF ListOK
    <3>1. CASE k = n
      <4>1. Learned(k)' = 0
        BY <3>1, <2>4 DEF Learned
      <4> QED
        BY <3>1, <4>1, <2>2, <2>3, <2>5, <1>5 DEF Taught
    <3>2. CASE k # n
      <4>1. lexicon_list'[k] = lexicon_list[k]
        BY <3>2, <2>5
      <4>2. Taught(lexicon_list[k], Learned(k))
        BY <3>2, <4>1 DEF LexInv, ListOK
      <4>3. Learned(k)' = Learned(k)
        BY <3>2, <4>1, <2>4, <1>1 DEF Learned
      <4> QED
        BY <4>1, <4>2, <4>3
    <3> QED
      BY <3>1, <3>2
  <2>7. TaskOK'
    <3>1. Entry'.name = lang /\ Entry'.lexicon = Empty
      BY <2>4, <2>5 DEF Entry
    <3>2. 0 <= Len(Corpus[lang])
      BY <1>5, CorpusAssumption
    <3> QED
      BY <3>1, <3>2, <2>1, <2>3, <2>4, <2>5 DEF TaskOK
  <2> QED
    BY <1>1, <1>5, <2>6, <2>7 DEF LexInv, StraysOnlyUntaught
<1>6. ASSUME status' = "aborted", UNCHANGED <<lexicon_list, task>>
      PROVE  LexInv'
  BY <1>6 DEF LexInv, ListOK, TaskOK, StraysOnlyUntaught, Learned, Entry, Following
<1>7. \/ Found(lang) = {} /\ task' = [Idle EXCEPT !.phase = "done"]
         /\ UNCHANGED <<lexicon_list, status>>
      \/ \E n \in Found(lang) : /\ lexicon_list[n].lexicon # Unloaded
                                /\ task' = [Idle EXCEPT !.phase = "first", !.at = n]
                                /\ UNCHANGED <<lexicon_list, status>>
      \/ \E n \in Found(lang) : /\ lexicon_list[n].lexicon = Unloaded /\ lang \in DOMAIN Corpus
                                /\ task' = [Idle EXCEPT !.phase = "learn", !.at = n]
                                /\ lexicon_list' = [lexicon_list EXCEPT ![n].lexicon = Empty]
                                /\ UNCHANGED status
      \/ status' = "aborted" /\ UNCHANGED <<lexicon_list, task>>
  BY DEF StartGenerate
<1> QED
  BY <1>1, <1>3, <1>4, <1>5, <1>6, <1>7

\* The row a letter is drawn from counts the letter.
LEMMA FirstLetterKeeps ==
  ASSUME LexInv, NEW letter \in Codes, FirstLetter(letter)
  PROVE  LexInv'
<1>1. /\ status = "running" /\ task.phase = "first" /\ UNCHANGED <<lexicon_list, status>>
      /\ \E sel \in 0 .. Starting - 1 : letter \in Scan(Pairs(0), 1, sel)
      /\ task' = [task EXCEPT !.phase = "next", !.c1 = letter, !.length = 1]
  BY DEF FirstLetter, In
<1>2. task \in Tasks /\ task.c0 = 0 /\ task.at \in DOMAIN lexicon_list /\ Taught(Entry, Len(Corpus[Entry.name]))
  BY <1>1, EntryTaught DEF LexInv, TaskOK, Busy
<1>3. /\ task' \in Tasks /\ task'.phase = "next" /\ task'.at = task.at
      /\ task'.c0 = 0 /\ task'.c1 = letter
  <2>1. "next" \in Phases /\ 1 \in Lengths
    BY DEF Phases, Lengths
  <2>2. \A p \in Phases, l \in Lengths :
          LET new == [task EXCEPT !.phase = p, !.c1 = letter, !.length = l]
          IN  /\ new \in Tasks /\ new.phase = p /\ new.at = task.at
              /\ new.c0 = task.c0 /\ new.c1 = letter
    BY <1>2 DEF Tasks
  <2> QED
    BY <2>1, <2>2, <1>1, <1>2
<1>4. letter # 0 /\ Entry.lexicon.histogram2[0][letter] > 0
  <2>1. Entry.lexicon.histogram2[0] \in Rows
    BY <1>2, EndIsCode, CountTypes DEF Taught
  <2>2. 1 \in Codes
    <3>1. Letters \in 1 .. 26
      BY AlphabetSize
    <3> QED
      BY <3>1 DEF Codes
  <2>3. PICK sel \in Nat : letter \in Scan(Entry.lexicon.histogram2[0], 1, sel)
    BY <1>1 DEF Pairs
  <2>4. letter \in Codes /\ 1 <= letter /\ Entry.lexicon.histogram2[0][letter] > 0
    BY <2>1, <2>2, <2>3, ScanCounted
  <2> QED
    BY <2>4, EndIsCode DEF Codes
<1>5. \A n \in DOMAIN lexicon_list : Learned(n)' = Learned(n)
  BY <1>1, <1>3 DEF Learned
<1>6. ListOK'
  BY <1>1, <1>5 DEF LexInv, ListOK
<1>7. Entry' = Entry
  BY <1>1, <1>3 DEF Entry
<1>8. Following' > 0
  BY <1>3, <1>4, <1>7 DEF Following
<1>9. TaskOK'
  BY <1>1, <1>2, <1>3, <1>4, <1>7, <1>8 DEF TaskOK, Taught
<1> QED
  BY <1>1, <1>6, <1>9 DEF LexInv, StraysOnlyUntaught

\* A letter that is chosen follows the two before it in some word learned.
LEMMA NextLetterCounted ==
  ASSUME LexInv, NEW letter \in Codes, NextLetter(letter)
  PROVE  /\ Taught(Entry, Len(Corpus[Entry.name]))
         /\ task.c0 \in Codes /\ task.c1 \in Codes \ {0}
         /\ Entry.lexicon.histogram3[task.c0][task.c1][letter] > 0
<1>1. /\ task.phase = "next"
      /\ \E sel \in 0 .. Following - 1 : letter \in Scan(Triples(task.c0, task.c1), 0, sel)
  BY DEF NextLetter, In
<1>2. Taught(Entry, Len(Corpus[Entry.name]))
  BY <1>1, EntryTaught DEF Busy
<1>3. task.c0 \in Codes /\ task.c1 \in Codes \ {0}
  BY <1>1 DEF LexInv, TaskOK, Tasks
<1>4. Triples(task.c0, task.c1) \in Rows
  BY <1>2, <1>3, CountTypes DEF Taught, Triples
<1>5. PICK sel \in Nat : letter \in Scan(Triples(task.c0, task.c1), 0, sel)
  BY <1>1
<1>6. Triples(task.c0, task.c1)[letter] > 0
  BY <1>4, <1>5, EndIsCode, ScanCounted
<1> QED
  BY <1>2, <1>3, <1>6 DEF Triples

\* The choice of a letter.
LEMMA NextLetterKeeps ==
  ASSUME LexInv, NEW letter \in Codes, NextLetter(letter)
  PROVE  LexInv'
<1>1. /\ status = "running" /\ task.phase = "next" /\ UNCHANGED <<lexicon_list, status>>
      /\ task' = [task EXCEPT !.phase = IF letter = 0 THEN "done" ELSE "next",
                              !.c0 = task.c1, !.c1 = letter,
                              !.length = IF letter = 0 THEN @ ELSE 2]
  BY DEF NextLetter, In
<1>2. /\ task \in Tasks /\ task.at \in DOMAIN lexicon_list /\ Entry.lexicon # Unloaded
      /\ task.c0 = 0 \/ task.length = 2
  BY <1>1 DEF LexInv, TaskOK, Busy
<1>3. /\ Taught(Entry, Len(Corpus[Entry.name]))
      /\ task.c0 \in Codes /\ task.c1 \in Codes \ {0}
      /\ Entry.lexicon.histogram3[task.c0][task.c1][letter] > 0
  BY NextLetterCounted
<1>4. /\ task' \in Tasks /\ task'.at = task.at /\ task'.c0 = task.c1 /\ task'.c1 = letter
      /\ letter = 0 => task'.phase = "done" /\ task'.length = task.length
      /\ letter # 0 => task'.phase = "next" /\ task'.length = 2
  <2> DEFINE phase == IF letter = 0 THEN "done" ELSE "next"
             length == IF letter = 0 THEN task.length ELSE 2
  <2>1. phase \in Phases /\ length \in Lengths
    BY <1>2 DEF Tasks, Phases, Lengths
  <2>2. \A p \in Phases, l \in Lengths :
          LET new == [task EXCEPT !.phase = p, !.c0 = task.c1, !.c1 = letter, !.length = l]
          IN  /\ new \in Tasks /\ new.phase = p /\ new.at = task.at /\ new.length = l
              /\ new.c0 = task.c1 /\ new.c1 = letter
    BY <1>2, <1>3 DEF Tasks
  <2>3. task' = [task EXCEPT !.phase = phase, !.c0 = task.c1, !.c1 = letter, !.length = length]
    BY <1>1
  <2>4. /\ letter = 0 => phase = "done" /\ length = task.length
        /\ letter # 0 => phase = "next" /\ length = 2
    OBVIOUS
  <2> HIDE DEF phase, length
  <2> QED
    BY <2>1, <2>2, <2>3, <2>4
<1>5. letter = 0 => task.length = 2
  <2> SUFFICES ASSUME letter = 0, task.c0 = 0 PROVE FALSE
    BY <1>2
  <2>1. Entry.lexicon.histogram3[0][task.c1][0] = 0
    BY <1>3 DEF Taught, Linked
  <2> QED
    BY <2>1, <1>3
<1>6. letter # 0 => Following' > 0
  <2>1. Entry.lexicon.histogram2[task.c1][letter] > 0
    BY <1>3 DEF Taught, Linked
  <2> QED
    BY <2>1, <1>1, <1>4 DEF Following, Entry
<1>7. \A n \in DOMAIN lexicon_list : Learned(n)' = Learned(n)
  BY <1>1, <1>4 DEF Learned
<1>8. ListOK'
  BY <1>1, <1>7 DEF LexInv, ListOK
<1>9. TaskOK'
  <2>1. CASE letter = 0
    BY <2>1, <1>4, <1>5 DEF TaskOK, Busy
  <2>2. CASE letter # 0
    BY <2>2, <1>1, <1>2, <1>4, <1>6 DEF TaskOK, Entry
  <2> QED
    BY <2>1, <2>2
<1> QED
  BY <1>1, <1>8, <1>9 DEF LexInv, StraysOnlyUntaught

\* random is divided by zero only when no word was learned, and a scan never
\* runs out of its row.
LEMMA StrayKeeps ==
  ASSUME LexInv, Stray
  PROVE  LexInv'
<1>1. status' = "wild" /\ UNCHANGED <<lexicon_list, task>>
  BY DEF Stray
<1>2. Letters \in 1 .. 26 /\ 0 \in Codes /\ 1 \in Codes /\ Letters + 1 \in 1 .. Letters + 1
  <2>1. Letters \in 1 .. 26
    BY AlphabetSize
  <2> QED
    BY <2>1 DEF Codes
<1>3. task.phase # "next"
  <2> SUFFICES ASSUME task.phase = "next" PROVE FALSE
    OBVIOUS
  <2>1. Taught(Entry, Len(Corpus[Entry.name]))
    BY EntryTaught DEF Busy
  <2>2. task.c0 \in Codes /\ task.c1 \in Codes \ {0} /\ Following > 0
    BY DEF LexInv, TaskOK, Tasks
  <2> DEFINE row == Triples(task.c0, task.c1)
  <2>3. row \in Rows
    BY <2>1, <2>2, CountTypes DEF Taught, Triples
  <2>4. Following = Before(row)[Letters + 1]
    BY <2>1, <2>2 DEF Taught, Agrees, Following, Triples
  <2>5. \E sel \in 0 .. Following - 1 : Scan(row, 0, sel) = {}
    BY <2>2 DEF Stray, In
  <2> HIDE DEF row
  <2>6. Before(row)[0] = 0 /\ Before(row)[Letters + 1] \in Nat
    BY <2>3, <1>2, BeforeRow
  <2>7. PICK sel \in 0 .. Before(row)[Letters + 1] - Before(row)[0] - 1 : Scan(row, 0, sel) = {}
    BY <2>4, <2>5, <2>6
  <2> QED
    BY <2>3, <2>7, <1>2, ScanStops
<1>4. ASSUME task.phase = "first" PROVE Spoken(Entry.name) = {}
  <2>1. Taught(Entry, Len(Corpus[Entry.name]))
    BY <1>4, EntryTaught DEF Busy
  <2> DEFINE row == Pairs(0)
  <2>2. row \in Rows
    BY <2>1, <1>2, CountTypes DEF Taught, Pairs
  <2>3. Starting = 0 \/ \E sel \in 0 .. Starting - 1 : Scan(row, 1, sel) = {}
    BY <1>4 DEF Stray, In
  <2>4. Starting = Before(row)[Letters + 1] - Before(row)[1]
    BY DEF Starting
  <2> HIDE DEF row
  <2>5. Starting = 0
    BY <2>2, <2>3, <2>4, <1>2, ScanStops
  <2>6. ASSUME NEW c \in 1 .. Letters PROVE row[c] = 0
    <3>1. /\ c \in Codes /\ 1 \in 0 .. Letters + 1 /\ c \in 1 .. Letters + 1
          /\ c \in 0 .. Letters + 1 /\ c + 1 \in 0 .. Letters + 1
          /\ Letters + 1 \in c + 1 .. Letters + 1
      BY <1>2 DEF Codes
    <3>2. Before(row)[1] <= Before(row)[c]
      BY <3>1, <2>2, BeforeGrows
    <3>3. Before(row)[c + 1] <= Before(row)[Letters + 1]
      BY <3>1, <2>2, BeforeGrows
    <3>4. Before(row)[c + 1] = Before(row)[c] + row[c] /\ row[c] \in Nat
      BY <3>1, <2>2, BeforeRow DEF Rows
    <3>5. /\ Before(row)[1] \in Nat /\ Before(row)[c] \in Nat
          /\ Before(row)[c + 1] \in Nat /\ Before(row)[Letters + 1] \in Nat
      BY <3>1, <2>2, <1>2, BeforeRow
    <3> QED
      BY <3>2, <3>3, <3>4, <3>5, <2>4, <2>5
  <2>7. ~ \E c \in 1 .. Letters : Entry.lexicon.histogram2[0][c] > 0
    BY <2>6 DEF row, Pairs
  <2>8. \A j \in 1 .. Len(Corpus[Entry.name]) : TooShort(Corpus[Entry.name][j])
    BY <2>1, <2>7 DEF Taught, Knows
  <2>9. \A j \in DOMAIN Corpus[Entry.name] : ~(Len(Corpus[Entry.name][j]) >= 2)
    <3>1. Corpus[Entry.name] \in Seq(Words1)
      BY <2>1, CorpusAssumption DEF Taught, Words1, Chars
    <3>2. \A j \in DOMAIN Corpus[Entry.name] : Corpus[Entry.name][j] \in Words1
      BY <3>1
    <3>3. \A w \in Words1 : Len(w) \in Nat
      BY DEF Words1
    <3>4. DOMAIN Corpus[Entry.name] = 1 .. Len(Corpus[Entry.name])
      BY <3>1
    <3> QED
      BY <3>2, <3>3, <3>4, <2>8 DEF TooShort
  <2> QED
    BY <2>9 DEF Spoken
<1>5. task.phase \in {"first", "next"}
  BY DEF Stray, In
<1>6. StraysOnlyUntaught'
  BY <1>1, <1>3, <1>4, <1>5 DEF StraysOnlyUntaught, Entry, Spoken
<1> QED
  BY <1>1, <1>6 DEF LexInv, ListOK, TaskOK, Learned, Entry, Following

-----------------------------------------------------------------------------
(* The command loop around it.                                             *)

\* One answer is on its way while the generator works.
BackOK ==
  /\ words \in Seq(Seq(Nat))
  /\ pc # "generate" => task.phase = "idle"
  /\ pc \in {"dispatch", "generate"} => ~quit_flag
  /\ pc = "dispatch" /\ status = "running" => answers = 0
  /\ pc = "generate" /\ words # <<LexiconName>> => answers = 0 /\ words # <<>>
  /\ OneAnswer

Inv == LexInv /\ BackOK

\* The program starts in the invariant.
LEMMA Initial == Init => Inv
<1> SUFFICES ASSUME Init PROVE BackOK
  BY LexInitial DEF Inv
<1> QED
  BY DEF Init, LexiconInit, Idle, BackOK, OneAnswer

\* Generating leaves the list and the task of an idle generator alone.
LEMMA GeneratingKeeps ==
  ASSUME LexInv, Generating
  PROVE  LexInv' /\ task.phase # "idle" /\ status = "running"
<1>1. LexInv'
  BY LearnWordKeeps, LearnDoneKeeps, StrayKeeps, FirstLetterKeeps, NextLetterKeeps DEF Generating
<1> QED
  BY <1>1 DEF Generating, LearnWord, LearnDone, Stray, FirstLetter, NextLetter, In

\* An answer to a command leaves the lexicons alone.
LEMMA AnswerKeeps ==
  ASSUME LexInv, Answer
  PROVE  LexInv'
<1>1. /\ task.phase = "done" /\ task' = Idle
      /\ status = "running" /\ UNCHANGED <<lexicon_list, status>>
  BY DEF Answer, At
<1>2. task' \in Tasks /\ task'.phase = "idle"
  BY <1>1, EndIsCode DEF Idle, Tasks, Phases, Lengths
<1>3. \A n \in DOMAIN lexicon_list : Learned(n)' = Learned(n)
  BY <1>1, <1>2 DEF Learned
<1> QED
  BY <1>1, <1>2, <1>3 DEF LexInv, ListOK, TaskOK, Busy, StraysOnlyUntaught

\* So does the end of the back end.
LEMMA ExitKeeps ==
  ASSUME Inv, Exit
  PROVE  LexInv'
<1>1. task.phase = "idle" /\ lexicon_list' = <<>> /\ UNCHANGED <<task, status>>
  BY DEF Exit, At, Inv, BackOK
<1>2. task' \in Tasks /\ task'.phase = "idle" /\ task.phase = "idle"
  BY <1>1 DEF Inv, LexInv, TaskOK
<1>3. <<>> \in Seq(Entries) /\ DOMAIN <<>> = {}
  OBVIOUS
<1>4. ListOK'
  BY <1>1, <1>3 DEF ListOK
<1> QED
  BY <1>2, <1>4 DEF LexInv, TaskOK, Busy, StraysOnlyUntaught

\* Every step keeps the lexicons sound.
LEMMA LexKept ==
  ASSUME Inv, [Next]_vars
  PROVE  LexInv'
<1>1. LexInv
  BY DEF Inv
<1>2. CASE UNCHANGED lexiconVars
  BY <1>1, <1>2, LexSame
<1>3. CASE Exit
  BY <1>3, ExitKeeps
<1>4. CASE Answer
  BY <1>1, <1>4, AnswerKeeps
<1>5. CASE LexiconCommand
  BY <1>1, <1>5, StartKeeps DEF LexiconCommand
<1>6. CASE LexiconOfNothing
  <2>1. CASE \E lang \in Languages : StartGenerate(lang)
    BY <1>1, <2>1, StartKeeps
  <2>2. CASE status' = "wild" /\ UNCHANGED <<lexicon_list, task, pc>>
    <3>1. task.phase = "idle"
      BY <1>6 DEF LexiconOfNothing, Command, At, Inv, BackOK
    <3> QED
      BY <2>2, <3>1, <1>1 DEF LexInv, ListOK, TaskOK, StraysOnlyUntaught, Learned, Entry, Following
  <2> QED
    BY <1>6, <2>1, <2>2 DEF LexiconOfNothing
<1>7. CASE Generating /\ UNCHANGED backendVars
  BY <1>1, <1>7, GeneratingKeeps
<1>8. CASE (\E line \in Lines : GetLine(line)) \/ Skip \/ QuitCommand \/ LexiconsCommand
        \/ Unrecognized \/ Ended
  BY <1>2, <1>8 DEF GetLine, Skip, QuitCommand, LexiconsCommand, Unrecognized, Ended, vars
<1>9. CASE UNCHANGED vars
  BY <1>2, <1>9 DEF vars
<1> QED
  BY <1>3, <1>4, <1>5, <1>6, <1>7, <1>8, <1>9 DEF Next, Handler

\* Every step keeps commands and answers matched.
LEMMA BackKept ==
  ASSUME Inv, [Next]_vars
  PROVE  BackOK'
<1>1. BackOK /\ words \in Seq(Seq(Nat))
  BY DEF Inv, BackOK
<1>2. ASSUME NEW line \in Lines, GetLine(line) PROVE BackOK'
  <2>1. Words(line) \in Seq(Seq(Nat))
    BY LinesAssumption, WordsSeq
  <2> QED
    BY <1>1, <1>2, <2>1 DEF GetLine, At, BackOK, OneAnswer, lexiconVars
<1>3. CASE Exit
  BY <1>1, <1>3 DEF Exit, At, BackOK, OneAnswer
<1>4. CASE Skip
  BY <1>1, <1>4 DEF Skip, At, BackOK, OneAnswer, lexiconVars
<1>5. CASE QuitCommand
  BY <1>1, <1>5 DEF QuitCommand, Command, At, BackOK, OneAnswer, lexiconVars
<1>6. CASE LexiconsCommand
  BY <1>1, <1>6 DEF LexiconsCommand, Command, At, BackOK, OneAnswer, lexiconVars
<1>7. CASE Unrecognized
  BY <1>1, <1>7 DEF Unrecognized, At, BackOK, OneAnswer, lexiconVars
<1>8. CASE LexiconCommand
  BY <1>1, <1>8 DEF LexiconCommand, Command, At, BackOK, OneAnswer
<1>9. CASE LexiconOfNothing
  <2>1. words = <<LexiconName>>
    <3>1. words # <<>> /\ words[1] = LexiconName /\ Len(words) < 2
      BY <1>9 DEF LexiconOfNothing, Command
    <3>2. Len(words) = 1
      <4>1. Len(words) \in Nat
        BY <1>1
      <4>2. Len(words) = 0 => words = <<>>
        BY <1>1
      <4>3. \A n \in Nat : n # 0 /\ n < 2 => n = 1
        OBVIOUS
      <4> QED
        BY <4>1, <4>2, <4>3, <3>1, Zenon
    <3>3. words = <<words[1]>>
      BY <3>2, <1>1
    <3> QED
      BY <3>1, <3>3
  <2> QED
    BY <1>1, <1>9, <2>1 DEF LexiconOfNothing, Command, At, BackOK, OneAnswer
<1>10. CASE Answer
  BY <1>1, <1>10 DEF Answer, At, Idle, BackOK, OneAnswer
<1>11. CASE Generating /\ UNCHANGED backendVars
  <2>1. task.phase # "idle" /\ status = "running"
    BY <1>11, GeneratingKeeps DEF Inv
  <2> QED
    BY <1>1, <1>11, <2>1 DEF backendVars, BackOK, OneAnswer
<1>12. CASE UNCHANGED vars
  BY <1>1, <1>12 DEF vars, lexiconVars, backendVars, BackOK, OneAnswer
<1> QED
  BY <1>2, <1>3, <1>4, <1>5, <1>6, <1>7, <1>8, <1>9, <1>10, <1>11, <1>12
     DEF Next, Handler, Ended

\* The invariant holds of every run.
LEMMA Invariant == Spec => []Inv
<1>1. Inv /\ [Next]_vars => Inv'
  BY LexKept, BackKept DEF Inv
<1> QED
  BY Initial, <1>1, PTL DEF Spec

-----------------------------------------------------------------------------
(* What the runs of the back end check, for every corpus and every line.   *)

\* histogram2 holds the sums of the rows of histogram3, whatever was learned:
\* the scans of lexicon_generate trust it to.
THEOREM HistogramsAgree == Spec => []CountsAgree
<1>1. Inv => CountsAgree
  BY DEF Inv, LexInv, ListOK, Taught, Agrees, CountsAgree
<1> QED
  BY <1>1, Invariant, PTL

\* No name of a known language has fewer than two letters.
THEOREM LongEnough == Spec => []NamesLongEnough
<1>1. Inv => NamesLongEnough
  BY DEF Inv, LexInv, TaskOK, NamesLongEnough
<1> QED
  BY <1>1, Invariant, PTL

\* The generator never scans past the end of a histogram, and divides by zero
\* only for a language with no word to learn.
THEOREM StaysInHistograms == Spec => []StraysOnlyUntaught
<1>1. Inv => StraysOnlyUntaught
  BY DEF Inv, LexInv
<1> QED
  BY <1>1, Invariant, PTL

\* Whatever line is typed, its command is answered by one line, or by none if
\* it is empty or quits.
THEOREM AnsweredOnce == Spec => []OneAnswer
<1>1. Inv => OneAnswer
  BY DEF Inv, BackOK
<1> QED
  BY <1>1, Invariant, PTL

\* Every letter of a name, and its end, follows two letters it follows in a
\* word of the language.
THEOREM InLanguage == Spec => NamesInLanguage
<1>1. Inv /\ [Next]_vars =>
        [task.phase = "next" /\ task' # task
           => <<task.c0, task.c1, task'.c1>> \in Spoken(Entry.name)]_task
  <2> SUFFICES ASSUME Inv, [Next]_vars, task.phase = "next", task' # task
               PROVE  <<task.c0, task.c1, task'.c1>> \in Spoken(Entry.name)
    OBVIOUS
  <2>1. task \in Tasks /\ LexInv
    BY DEF Inv, LexInv, TaskOK
  <2>2. PICK letter \in Codes : NextLetter(letter)
    BY DEF Next, Handler, Skip, QuitCommand, LexiconsCommand, Unrecognized, LexiconCommand,
           LexiconOfNothing, StartGenerate, In, Answer, GetLine, Exit, Ended, vars, lexiconVars,
           Generating, LearnWord, LearnDone, FirstLetter, Stray
  <2>3. task'.c1 = letter
    BY <2>1, <2>2 DEF NextLetter, Tasks
  <2>4. /\ Taught(Entry, Len(Corpus[Entry.name]))
        /\ task.c0 \in Codes /\ task.c1 \in Codes \ {0}
        /\ Entry.lexicon.histogram3[task.c0][task.c1][letter] > 0
    BY <2>1, <2>2, NextLetterCounted
  <2> QED
    BY <2>3, <2>4 DEF Taught, Knows
<1> QED
  BY <1>1, Invariant, PTL DEF Spec, NamesInLanguage
=============================================================================
