--------------------------- MODULE VoronoiProofs ---------------------------
(***************************************************************************)
(* The copy of a Voronoi diagram, for every diagram CGAL may answer, every *)
(* first face, every order of evaluation and every growth of a vector: the *)
(* pointers kept while the vectors move lead to where they should, the     *)
(* copy is the part of the diagram that can be reached, and the relaxation *)
(* goes around each bounded face once.                                     *)
(***************************************************************************)
EXTENDS Voronoi, Induction, FiniteSetTheorems

H == Cardinality(graph.halves)
F == Cardinality(graph.faces)

\* Pointers to the copies in a vector, behind its n blanks.
To(n, v) == [at : {1}, i : n + 1 .. Len(v.item)]
ToHalf == To(H, halfedges)
ToFace == To(F, faces)

EdgeFields == {"twin", "face", "prev", "next"}
HalfItems(half, face) ==
  [of : graph.halves \cup {Blank}, twin : half \cup {Null}, face : face \cup {Null},
   prev : half \cup {Null}, next : half \cup {Null}]
FaceItems(half) ==
  [of : graph.faces \cup {Blank}, halfedge : half \cup {Null}, is_bounded : BOOLEAN]

-----------------------------------------------------------------------------
(* Vectors.                                                                *)

\* A vector of so many copies behind n blanks: it moves with the first copy,
\* and never again while there are no more copies than blanks.
Filled(v, n, copies) ==
  /\ Len(v.item) = n + copies
  /\ \/ copies = 0 /\ v.at = 0 /\ v.room = n
     \/ copies > 0 /\ v.at = 1 /\ v.room = n * Factor

Vectors(S) == [at : {0, 1}, room : Nat, item : Seq(S)]

\* Doubling the room makes room for the blanks and as many copies.
LEMMA Twice == ASSUME NEW n \in Nat PROVE n * Factor \in Nat /\ n + n <= n * Factor
<1>1. Factor \in Nat /\ Factor >= 2
  BY VoronoiAssumption
<1>2. PICK k \in Nat : Factor = 2 + k
  <2>1. Factor - 2 \in Nat /\ Factor = 2 + (Factor - 2)
    BY <1>1
  <2> QED
    BY <2>1
<1>3. n * (2 + k) = n + n + n * k
  OBVIOUS
<1>4. n * k \in Nat
  OBVIOUS
<1> QED
  BY <1>2, <1>3, <1>4

\* push_back behind the blanks adds one item and moves none.
LEMMA Pushed ==
  ASSUME NEW n \in Nat, NEW copies \in Nat, copies < n, NEW S, NEW v \in Vectors(S), NEW x \in S,
         Filled(v, n, copies)
  PROVE  LET w == PushBack(v, x)
         IN  /\ w \in Vectors(S) /\ Filled(w, n, copies + 1) /\ w.at = 1
             /\ w.item = Append(v.item, x)
             /\ Len(w.item) = Len(v.item) + 1
             /\ \A i \in 1 .. Len(v.item) : i \in 1 .. Len(w.item) /\ w.item[i] = v.item[i]
             /\ w.item[Len(w.item)] = x
<1> DEFINE w == PushBack(v, x)
           moves == Len(v.item) = v.room
<1>1. v.item \in Seq(S) /\ v.room \in Nat /\ Len(v.item) \in Nat
  BY DEF Vectors
<1>2. /\ Append(v.item, x) \in Seq(S) /\ Len(Append(v.item, x)) = Len(v.item) + 1
      /\ \A i \in 1 .. Len(v.item) : Append(v.item, x)[i] = v.item[i]
      /\ Append(v.item, x)[Len(v.item) + 1] = x
  BY <1>1
<1>3. n * Factor \in Nat /\ n + n <= n * Factor
  BY Twice
<1>4. /\ w.item = Append(v.item, x)
      /\ w.at = (IF moves THEN v.at + 1 ELSE v.at)
      /\ w.room = (IF moves THEN v.room * Factor ELSE v.room)
      /\ w = [at |-> w.at, room |-> w.room, item |-> w.item]
  BY DEF PushBack
<1>5. CASE copies = 0
  <2>1. moves /\ v.at = 0 /\ v.room = n /\ Len(v.item) = n
    BY <1>5 DEF Filled
  <2>2. w.at = 1 /\ w.room = n * Factor
    BY <2>1, <1>4
  <2>3. Filled(w, n, copies + 1)
    BY <2>1, <2>2, <1>2, <1>4, <1>5 DEF Filled
  <2> HIDE DEF w
  <2>4. w \in Vectors(S)
    BY <2>2, <1>2, <1>3, <1>4 DEF Vectors
  <2> QED
    BY <2>2, <2>3, <2>4, <1>1, <1>2, <1>4 DEF w
<1>6. CASE copies > 0
  <2>1. v.at = 1 /\ v.room = n * Factor /\ Len(v.item) = n + copies
    BY <1>6 DEF Filled
  <2>2. ~moves
    BY <2>1, <1>3
  <2>3. w.at = 1 /\ w.room = n * Factor
    BY <2>1, <2>2, <1>4
  <2>4. Filled(w, n, copies + 1)
    BY <2>1, <2>3, <1>2, <1>4, <1>6 DEF Filled
  <2> HIDE DEF w
  <2>5. w \in Vectors(S)
    BY <2>3, <1>2, <1>3, <1>4 DEF Vectors
  <2> QED
    BY <2>3, <2>4, <2>5, <1>1, <1>2, <1>4 DEF w
<1> QED
  BY <1>5, <1>6

\* A field of an element is set.
LEMMA FieldSet ==
  ASSUME NEW half, NEW face, NEW x \in HalfItems(half, face), NEW field \in EdgeFields,
         NEW p, field = "face" => p \in face, field # "face" => p \in half
  PROVE  LET y == [x EXCEPT ![field] = p]
         IN  /\ y \in HalfItems(half, face) /\ y.of = x.of /\ y[field] = p
             /\ \A other \in EdgeFields \ {field} : y[other] = x[other]
<1>1. CASE field = "twin"
  BY <1>1 DEF HalfItems, EdgeFields
<1>2. CASE field = "face"
  BY <1>2 DEF HalfItems, EdgeFields
<1>3. CASE field = "prev"
  BY <1>3 DEF HalfItems, EdgeFields
<1>4. CASE field = "next"
  BY <1>4 DEF HalfItems, EdgeFields
<1> QED
  BY <1>1, <1>2, <1>3, <1>4 DEF EdgeFields

\* Storing a face's half-edge changes nothing else of it.
LEMMA FaceSet ==
  ASSUME NEW half, NEW x \in FaceItems(half), NEW p \in half
  PROVE  LET y == [x EXCEPT !.halfedge = p]
         IN  y \in FaceItems(half) /\ y.of = x.of /\ y.halfedge = p
BY DEF FaceItems

\* Marking a face bounded changes nothing else of it.
LEMMA BoundedSet ==
  ASSUME NEW half, NEW x \in FaceItems(half), NEW b \in BOOLEAN
  PROVE  LET y == [x EXCEPT !.is_bounded = b]
         IN  y \in FaceItems(half) /\ y.of = x.of /\ y.halfedge = x.halfedge
BY DEF FaceItems

\* An element of a vector is replaced.
LEMMA ItemSet ==
  ASSUME NEW S, NEW v \in Vectors(S), NEW i \in 1 .. Len(v.item), NEW x \in S
  PROVE  LET w == [v EXCEPT !.item[i] = x]
         IN  /\ w \in Vectors(S) /\ w.at = v.at /\ w.room = v.room
             /\ Len(w.item) = Len(v.item) /\ w.item[i] = x
             /\ \A k \in 1 .. Len(v.item) : k # i => w.item[k] = v.item[k]
<1>1. v.item \in Seq(S) /\ DOMAIN v.item = 1 .. Len(v.item)
  BY DEF Vectors
<1> DEFINE s == [v.item EXCEPT ![i] = x]
<1>2. /\ s \in Seq(S) /\ Len(s) = Len(v.item) /\ s[i] = x
      /\ \A k \in 1 .. Len(v.item) : k # i => s[k] = v.item[k]
  BY <1>1
<1> HIDE DEF s
<1>3. \A t \in Seq(S) : LET w == [v EXCEPT !.item = t]
                        IN w \in Vectors(S) /\ w.at = v.at /\ w.room = v.room /\ w.item = t
  BY DEF Vectors
<1>4. [v EXCEPT !.item[i] = x] = [v EXCEPT !.item = s]
  BY DEF Vectors, s
<1> QED
  BY <1>2, <1>3, <1>4

-----------------------------------------------------------------------------
(* The diagram and what can be reached in it.                              *)

Objects == graph.halves \cup graph.faces
Reached == ReachedIn(graph)

\* What the assumption on diagrams says of the one being converted.
LEMMA GraphFacts ==
  ASSUME graph \in Diagrams
  PROVE  /\ IsFiniteSet(graph.halves) /\ IsFiniteSet(graph.faces) /\ H \in Nat /\ F \in Nat
         /\ graph.halves \cap graph.faces = {} /\ Null \notin graph.halves /\ Null \notin graph.faces
         /\ graph.first \in graph.faces /\ graph.edge \in [graph.faces -> graph.halves]
         /\ graph.twin \in [graph.halves -> graph.halves \cup {Null}]
         /\ graph.next \in [graph.halves -> graph.halves \cup {Null}]
         /\ graph.prev \in [graph.halves -> graph.halves \cup {Null}]
         /\ graph.face \in [graph.halves -> graph.faces]
<1>1. IsFiniteSet(graph.halves) /\ IsFiniteSet(graph.faces)
  BY VoronoiAssumption
<1>2. H \in Nat /\ F \in Nat
  BY <1>1, FS_CardinalityType DEF H, F
<1> QED
  BY <1>1, <1>2, VoronoiAssumption

\* Pointers of the diagram lead to its own objects.
LEMMA BesideObjects ==
  ASSUME graph \in Diagrams, NEW S
  PROVE  Beside(graph, S) \subseteq Objects
BY GraphFacts DEF Beside, Objects

\* What is reached contains the first face and is closed, and nothing smaller
\* is.
LEMMA ReachedFacts ==
  ASSUME graph \in Diagrams
  PROVE  /\ graph.first \in Reached /\ Beside(graph, Reached) \subseteq Reached
         /\ \A S : graph.first \in S /\ Beside(graph, S) \subseteq S => Reached \subseteq S
<1> DEFINE N == H + F
           All == SUBSET Objects
           step == [n \in 1 .. N |-> [S \in All |-> Spread(graph, S)]]
           Value(g, n) == IF n = 0 THEN {graph.first} ELSE Spread(graph, g[n - 1])
           Solves(g) == g = [n \in 0 .. N |-> Value(g, n)]
           at == CHOOSE g : Solves(g)
<1>1. N \in Nat /\ {graph.first} \in All
  BY GraphFacts DEF Objects
<1>2. \A S \in All : Spread(graph, S) \in All
  BY BesideObjects DEF Spread
<1>3. step \in Steps(N, All)
  BY <1>2 DEF Steps
<1>4. \E g : Solves(g)
  <2>1. PICK g : Iterates(g, {graph.first}, N, step, All)
    <3> HIDE DEF N, All, step
    <3> QED
      BY <1>1, <1>3, Iteration
  <2>2. /\ g \in [0 .. N -> All] /\ g[0] = {graph.first}
        /\ \A n \in 1 .. N : g[n] = step[n][g[n - 1]]
    BY <2>1 DEF Iterates
  <2>3. \A n \in 1 .. N : g[n] = Spread(graph, g[n - 1])
    <3> TAKE n \in 1 .. N
    <3> HIDE DEF All, N
    <3>1. g[n - 1] \in All
      BY <1>1, <2>2
    <3> QED
      BY <3>1, <2>2
  <2>4. \A n \in 0 .. N : g[n] = Value(g, n)
    <3> HIDE DEF N
    <3> QED
      BY <1>1, <2>2, <2>3
  <2>5. g = [n \in 0 .. N |-> Value(g, n)]
    <3> HIDE DEF Value
    <3> QED
      BY <2>2, <2>4
  <2> HIDE DEF Value
  <2> QED
    BY <2>5
<1>5. Reached = at[N]
  BY Zenon DEF Reached, ReachedIn, H, F
<1> HIDE DEF Solves
<1>6. Solves(at)
  BY <1>4, Zenon
<1> HIDE DEF at, step
<1>7. \A n \in 0 .. N : at[n] = Value(at, n)
  <2> HIDE DEF Value
  <2> QED
    BY <1>6 DEF Solves
<1>8. /\ at[0] = {graph.first}
      /\ \A n \in 0 .. N - 1 : at[n + 1] = at[n] \cup Beside(graph, at[n])
  <2> HIDE DEF N
  <2>1. 0 \in 0 .. N /\ \A n \in 0 .. N - 1 : n + 1 \in 0 .. N /\ n + 1 # 0 /\ (n + 1) - 1 = n
    BY <1>1
  <2> QED
    BY <2>1, <1>7 DEF Spread
<1> DEFINE closed(n) == Beside(graph, at[n]) \subseteq at[n]
           T == {n \in 0 .. N : /\ at[n] \in All /\ graph.first \in at[n]
                                /\ closed(n) \/ Cardinality(at[n]) >= n + 1}
<1>9. IsFiniteSet(Objects) /\ Cardinality(Objects) <= N /\ Cardinality(Objects) \in Nat
  <2>1. IsFiniteSet(graph.halves) /\ IsFiniteSet(graph.faces)
    BY GraphFacts
  <2>2. /\ IsFiniteSet(Objects)
        /\ Cardinality(Objects) = H + F - Cardinality(graph.halves \cap graph.faces)
    BY <2>1, FS_Union DEF Objects, H, F
  <2>3. Cardinality(graph.halves \cap graph.faces) \in Nat
    BY <2>1, FS_Intersection, FS_CardinalityType
  <2>4. Cardinality(Objects) \in Nat
    BY <2>2, FS_CardinalityType
  <2>5. H \in Nat /\ F \in Nat
    BY GraphFacts
  <2> QED
    BY <2>2, <2>3, <2>4, <2>5
<1>10. \A n \in 0 .. N : at[n] \in All => IsFiniteSet(at[n]) /\ Cardinality(at[n]) \in Nat
  BY <1>9, FS_Subset, FS_CardinalityType
<1> HIDE DEF N
<1>11. 0 \in T
  <2>1. Cardinality({graph.first}) = 1
    BY FS_Singleton
  <2> QED
    BY <1>1, <1>8, <2>1
<1>12. ASSUME NEW n \in 0 .. N - 1, n \in T PROVE n + 1 \in T
  <2>1. n \in 0 .. N /\ n + 1 \in 0 .. N
    BY <1>1
  <2>2. /\ at[n] \in All /\ graph.first \in at[n]
        /\ closed(n) \/ Cardinality(at[n]) >= n + 1
    BY <1>12
  <2>3. at[n + 1] = at[n] \cup Beside(graph, at[n])
    BY <1>8
  <2>4. at[n + 1] \in All /\ graph.first \in at[n + 1]
    BY <1>2, <2>2, <2>3 DEF Spread
  <2>5. CASE closed(n)
    <3>1. at[n + 1] = at[n]
      BY <2>3, <2>5
    <3> QED
      BY <3>1, <2>1, <2>4, <2>5
  <2>6. CASE ~closed(n)
    <3>1. Cardinality(at[n]) >= n + 1
      BY <2>2, <2>6
    <3>2. PICK x : x \in Beside(graph, at[n]) /\ x \notin at[n]
      BY <2>6
    <3>3. /\ IsFiniteSet(at[n]) /\ Cardinality(at[n]) \in Nat
          /\ IsFiniteSet(at[n + 1]) /\ Cardinality(at[n + 1]) \in Nat
      BY <2>1, <2>2, <2>4, <1>10
    <3>4. Cardinality(at[n] \cup {x}) = Cardinality(at[n]) + 1
      BY <3>2, <3>3, FS_AddElement
    <3>5. at[n] \cup {x} \subseteq at[n + 1]
      BY <2>3, <3>2
    <3>6. Cardinality(at[n] \cup {x}) <= Cardinality(at[n + 1])
      BY <3>3, <3>5, FS_Subset
    <3>7. Cardinality(at[n + 1]) >= (n + 1) + 1
      BY <3>1, <3>3, <3>4, <3>6
    <3> QED
      BY <3>7, <2>1, <2>4
  <2> QED
    BY <2>5, <2>6
<1> HIDE DEF T
<1>13. 0 .. N \subseteq T
  BY <1>1, <1>11, <1>12, UpTo
<1>14. at[N] \in All /\ graph.first \in at[N] /\ (closed(N) \/ Cardinality(at[N]) >= N + 1)
  BY <1>1, <1>13 DEF T
<1>15. closed(N)
  <2>1. Cardinality(at[N]) \in Nat /\ Cardinality(at[N]) <= Cardinality(Objects)
    <3>1. at[N] \subseteq Objects
      BY <1>14
    <3> QED
      BY <3>1, <1>9, FS_Subset, FS_CardinalityType
  <2> QED
    BY <2>1, <1>1, <1>9, <1>14
<1>16. ASSUME NEW S, graph.first \in S, Beside(graph, S) \subseteq S PROVE at[N] \subseteq S
  <2> DEFINE U == {n \in 0 .. N : at[n] \subseteq S}
  <2>1. 0 \in U
    BY <1>1, <1>8, <1>16
  <2>2. ASSUME NEW n \in 0 .. N - 1, n \in U PROVE n + 1 \in U
    <3>1. n + 1 \in 0 .. N /\ at[n] \subseteq S
      BY <1>1, <2>2
    <3>2. Beside(graph, at[n]) \subseteq Beside(graph, S)
      BY <3>1 DEF Beside
    <3> QED
      BY <3>1, <3>2, <1>8, <1>16
  <2> HIDE DEF U
  <2>3. 0 .. N \subseteq U
    BY <1>1, <2>1, <2>2, UpTo
  <2> QED
    BY <2>3, <1>1 DEF U
<1> QED
  BY <1>5, <1>14, <1>15, <1>16

-----------------------------------------------------------------------------
(* The inductive invariant.                                                *)

FaceFrames == [kind : {"face"}, i : F + 1 .. Len(faces.item), at : {Null, 1},
               left : {<<"halfedge">>, <<>>}]
HalfFrames == [kind : {"halfedge"}, i : H + 1 .. Len(halfedges.item), at : {Null, 1},
               left : Seq(EdgeFields)]
Frames == FaceFrames \cup HalfFrames

\* The object a call converts, and the one it wants converted next.
Of(call) == IF call.kind = "face" THEN faces.item[call.i].of ELSE halfedges.item[call.i].of
Aim(call) == IF call.kind = "face" THEN graph.edge[Of(call)] ELSE graph[Head(call.left)][Of(call)]

IsCopy(p, x) ==
  \/ x \in graph.halves /\ p \in ToHalf /\ halfedges.item[p.i].of = x
  \/ x \in graph.faces /\ p \in ToFace /\ faces.item[p.i].of = x

\* The vectors and the maps.
CopiesOK ==
  /\ halfedges \in Vectors(HalfItems(ToHalf, ToFace)) /\ faces \in Vectors(FaceItems(ToHalf))
  /\ DOMAIN halfedgemap \subseteq graph.halves /\ DOMAIN facemap \subseteq graph.faces
  /\ Filled(halfedges, H, Cardinality(DOMAIN halfedgemap))
  /\ Filled(faces, F, Cardinality(DOMAIN facemap))
  /\ \A i \in 1 .. H : halfedges.item[i] = BlankHalfedge
  /\ \A i \in 1 .. F : faces.item[i] = BlankFace
  /\ \A i \in H + 1 .. Len(halfedges.item) : halfedges.item[i].of \in DOMAIN halfedgemap
  /\ \A i \in F + 1 .. Len(faces.item) : faces.item[i].of \in DOMAIN facemap
  /\ \A h \in DOMAIN halfedgemap : IsCopy(halfedgemap[h], h)
  /\ \A f \in DOMAIN facemap : IsCopy(facemap[f], f)

\* Every call but the innermost waits for the next one.
CallsOK ==
  /\ stack \in Seq(Frames)
  /\ \A k \in 1 .. Len(stack) - 1 :
       stack[k].left # <<>> /\ Aim(stack[k]) = Of(stack[k + 1])
  /\ ret # Null /\ stack # <<>> => Top.left # <<>> /\ IsCopy(ret, Aim(Top))
  /\ stage # "convert" => stack = <<>>
  /\ stage = "convert" => outcome = "running"

Holds(s, x) == \E j \in DOMAIN s : s[j] = x

\* A field is what it is to be unless some call has it left.
Pending(kind, i, field) ==
  \E k \in DOMAIN stack : /\ stack[k].kind = kind /\ stack[k].i = i
                          /\ Holds(stack[k].left, field)

Matches(p, x) == IF x = Null THEN p = Null ELSE p # Null /\ IsCopy(p, x)

FieldsOK ==
  /\ \A i \in H + 1 .. Len(halfedges.item), field \in EdgeFields :
       \/ Pending("halfedge", i, field)
       \/ Matches(halfedges.item[i][field], graph[field][halfedges.item[i].of])
  /\ \A i \in F + 1 .. Len(faces.item) :
       \/ Pending("face", i, "halfedge")
       \/ Matches(faces.item[i].halfedge, graph.edge[faces.item[i].of])

Copied == DOMAIN halfedgemap \cup DOMAIN facemap

Inv ==
  /\ graph \in Diagrams
  /\ CopiesOK /\ CallsOK /\ FieldsOK
  /\ graph.first \in DOMAIN facemap /\ Copied \subseteq Reached

-----------------------------------------------------------------------------
(* Facts about every state of the invariant.                               *)

\* The vectors hold the blanks and the copies made so far, so no copy is moved.
LEMMA Lengths ==
  ASSUME Inv
  PROVE  /\ H \in Nat /\ F \in Nat
         /\ halfedges.item \in Seq(HalfItems(ToHalf, ToFace)) /\ faces.item \in Seq(FaceItems(ToHalf))
         /\ Len(halfedges.item) \in Nat /\ Len(faces.item) \in Nat
         /\ DOMAIN halfedges.item = 1 .. Len(halfedges.item)
         /\ DOMAIN faces.item = 1 .. Len(faces.item)
         /\ Cardinality(DOMAIN halfedgemap) \in Nat /\ Cardinality(DOMAIN facemap) \in Nat
         /\ IsFiniteSet(DOMAIN halfedgemap) /\ IsFiniteSet(DOMAIN facemap)
         /\ H <= Len(halfedges.item) /\ F <= Len(faces.item)
         /\ Len(halfedges.item) > H => halfedges.at = 1
         /\ Len(faces.item) > F => faces.at = 1
<1>1. H \in Nat /\ F \in Nat
  BY GraphFacts DEF Inv
<1>2. /\ halfedges.item \in Seq(HalfItems(ToHalf, ToFace)) /\ faces.item \in Seq(FaceItems(ToHalf))
  BY DEF Inv, CopiesOK, Vectors
<1>3. /\ IsFiniteSet(DOMAIN halfedgemap) /\ IsFiniteSet(DOMAIN facemap)
  BY GraphFacts, FS_Subset DEF Inv, CopiesOK
<1>4. Cardinality(DOMAIN halfedgemap) \in Nat /\ Cardinality(DOMAIN facemap) \in Nat
  BY <1>3, FS_CardinalityType
<1>5. /\ Filled(halfedges, H, Cardinality(DOMAIN halfedgemap))
      /\ Filled(faces, F, Cardinality(DOMAIN facemap))
  BY DEF Inv, CopiesOK
<1>6. /\ H <= Len(halfedges.item) /\ F <= Len(faces.item)
      /\ Len(halfedges.item) > H => halfedges.at = 1
      /\ Len(faces.item) > F => faces.at = 1
  BY <1>1, <1>4, <1>5 DEF Filled
<1> QED
  BY <1>1, <1>2, <1>3, <1>4, <1>6

\* The elements there are go on being copies of what they are.
Grows ==
  /\ graph' = graph
  /\ Len(halfedges'.item) \in Nat /\ Len(halfedges.item) <= Len(halfedges'.item)
  /\ Len(faces'.item) \in Nat /\ Len(faces.item) <= Len(faces'.item)
  /\ \A i \in H + 1 .. Len(halfedges.item) : halfedges'.item[i].of = halfedges.item[i].of
  /\ \A i \in F + 1 .. Len(faces.item) : faces'.item[i].of = faces.item[i].of

\* What a step that only adds copies leaves true.
LEMMA Grown ==
  ASSUME Inv, Grows
  PROVE  /\ H' = H /\ F' = F /\ ToHalf \subseteq ToHalf' /\ ToFace \subseteq ToFace'
         /\ HalfItems(ToHalf, ToFace) \subseteq HalfItems(ToHalf, ToFace)'
         /\ FaceItems(ToHalf) \subseteq FaceItems(ToHalf)'
         /\ \A p, x : IsCopy(p, x) => IsCopy(p, x)'
         /\ \A p, x : Matches(p, x) => Matches(p, x)'
         /\ \A call \in Frames : call \in Frames' /\ Of(call)' = Of(call) /\ Aim(call)' = Aim(call)
         /\ Reached' = Reached
<1>1. H' = H /\ F' = F
  BY DEF Grows, H, F
<1>2. H + 1 .. Len(halfedges.item) \subseteq H + 1 .. Len(halfedges'.item)
  BY Lengths DEF Grows
<1>3. F + 1 .. Len(faces.item) \subseteq F + 1 .. Len(faces'.item)
  BY Lengths DEF Grows
<1>4. ToHalf \subseteq ToHalf' /\ ToFace \subseteq ToFace'
  BY <1>1, <1>2, <1>3 DEF ToHalf, ToFace, To
<1>5. /\ HalfItems(ToHalf, ToFace) \subseteq HalfItems(ToHalf, ToFace)'
      /\ FaceItems(ToHalf) \subseteq FaceItems(ToHalf)'
  BY <1>4 DEF HalfItems, FaceItems, Grows
<1>6. \A p, x : IsCopy(p, x) => IsCopy(p, x)'
  BY <1>4 DEF IsCopy, Grows, ToHalf, ToFace, To
<1>7. \A p, x : Matches(p, x) => Matches(p, x)'
  BY <1>6 DEF Matches
<1>8. ASSUME NEW call \in Frames
      PROVE  call \in Frames' /\ Of(call)' = Of(call) /\ Aim(call)' = Aim(call)
  <2>1. /\ call \in Frames'
        /\ Of(call)' = Of(call)
    BY <1>1, <1>2, <1>3 DEF Frames, FaceFrames, HalfFrames, Of, Grows
  <2> QED
    BY <2>1 DEF Aim, Grows
<1>9. Reached' = Reached
  BY DEF Reached, Grows
<1> QED
  BY <1>1, <1>4, <1>5, <1>6, <1>7, <1>8, <1>9

\* The object of the innermost call, and the one it wants.
LEMMA TopFacts ==
  ASSUME Inv, stack # <<>>
  PROVE  /\ Len(stack) \in Nat \ {0} /\ Top \in Frames /\ Self = Of(Top)
         /\ Top.kind = "face" => /\ Top \in FaceFrames /\ Of(Top) \in DOMAIN facemap /\ faces.at = 1
         /\ Top.kind # "face" => /\ Top \in HalfFrames /\ Of(Top) \in DOMAIN halfedgemap
                                 /\ halfedges.at = 1
<1>1. stack \in Seq(Frames)
  BY DEF Inv, CallsOK
<1>2. Len(stack) \in Nat \ {0}
  BY <1>1
<1>3. Top \in Frames
  BY <1>1, <1>2 DEF Top, Last
<1>4. Top.kind = "face" => /\ Top \in FaceFrames /\ Of(Top) \in DOMAIN facemap /\ faces.at = 1
  <2> SUFFICES ASSUME Top.kind = "face" PROVE Top \in FaceFrames /\ Of(Top) \in DOMAIN facemap /\ faces.at = 1
    OBVIOUS
  <2>1. Top \in FaceFrames
    BY <1>3 DEF Frames, HalfFrames
  <2>2. Top.i \in F + 1 .. Len(faces.item)
    BY <2>1 DEF FaceFrames
  <2>3. Len(faces.item) > F
    BY <2>2, Lengths
  <2> QED
    BY <2>1, <2>2, <2>3, Lengths DEF Inv, CopiesOK, Of
<1>5. Top.kind # "face" => /\ Top \in HalfFrames /\ Of(Top) \in DOMAIN halfedgemap /\ halfedges.at = 1
  <2> SUFFICES ASSUME Top.kind # "face" PROVE Top \in HalfFrames /\ Of(Top) \in DOMAIN halfedgemap /\ halfedges.at = 1
    OBVIOUS
  <2>1. Top \in HalfFrames
    BY <1>3 DEF Frames, FaceFrames
  <2>2. Top.i \in H + 1 .. Len(halfedges.item)
    BY <2>1 DEF HalfFrames
  <2>3. Len(halfedges.item) > H
    BY <2>2, Lengths
  <2> QED
    BY <2>1, <2>2, <2>3, Lengths DEF Inv, CopiesOK, Of
<1>6. Self = Of(Top)
  BY DEF Self, Of
<1> QED
  BY <1>2, <1>3, <1>4, <1>5, <1>6

\* What the latest call is about to convert.
LEMMA WantedFacts ==
  ASSUME Inv, stack # <<>>, Top.left # <<>>
  PROVE  /\ Wanted = Aim(Top)
         /\ Top.kind = "face" => Top.left = <<"halfedge">> /\ Head(Top.left) = "halfedge"
                                 /\ Wanted \in graph.halves
         /\ Top.kind # "face" => Head(Top.left) \in EdgeFields
         /\ Top.kind # "face" /\ Head(Top.left) = "face" => Wanted \in graph.faces
         /\ Top.kind # "face" /\ Head(Top.left) # "face" => Wanted \in graph.halves \cup {Null}
         /\ Wanted \in Reached \cup {Null}
<1>1. graph \in Diagrams
  BY DEF Inv
<1> DEFINE x == Of(Top)
<1>2. Copied \subseteq Reached /\ Beside(graph, Reached) \subseteq Reached
  BY <1>1, ReachedFacts DEF Inv
<1>3. Self = x
  BY TopFacts
<1>4. CASE Top.kind = "face"
  <2>1. x \in DOMAIN facemap /\ x \in graph.faces /\ x \in Reached
    BY <1>2, <1>4, TopFacts DEF Inv, CopiesOK, Copied
  <2>2. Top.left = <<"halfedge">>
    BY <1>4, TopFacts DEF FaceFrames
  <2>3. Head(Top.left) = "halfedge"
    BY <2>2
  <2>4. Wanted = graph.edge[x] /\ Aim(Top) = graph.edge[x]
    BY <1>3, <1>4, <2>3 DEF Wanted, Aim
  <2>5. graph.edge[x] \in graph.halves
    BY <1>1, <2>1, GraphFacts
  <2>6. graph.edge[x] \in Beside(graph, Reached)
    BY <2>1 DEF Beside
  <2> HIDE DEF x
  <2> QED
    BY <1>2, <1>4, <2>2, <2>3, <2>4, <2>5, <2>6
<1>5. CASE Top.kind # "face"
  <2>1. x \in DOMAIN halfedgemap /\ x \in graph.halves /\ x \in Reached
    BY <1>2, <1>5, TopFacts DEF Inv, CopiesOK, Copied
  <2>2. Top.left \in Seq(EdgeFields)
    BY <1>5, TopFacts DEF HalfFrames
  <2>3. Head(Top.left) \in EdgeFields
    BY <2>2
  <2>4. Aim(Top) = graph[Head(Top.left)][x]
    BY <1>5 DEF Aim
  <2> HIDE DEF x
  <2> DEFINE field == Head(Top.left)
  <2>5. Wanted = graph[field][x]
    BY <1>3, <2>3 DEF Wanted, EdgeFields
  <2>6. /\ field = "face" => graph[field][x] \in graph.faces
        /\ field # "face" => graph[field][x] \in graph.halves \cup {Null}
    BY <1>1, <2>1, <2>3, GraphFacts DEF EdgeFields
  <2>7. graph[field][x] \in Beside(graph, Reached) \cup {Null}
    BY <2>1, <2>3 DEF Beside, EdgeFields
  <2> QED
    BY <1>2, <1>5, <2>3, <2>4, <2>5, <2>6, <2>7
<1> QED
  BY <1>4, <1>5

\* Computing the place of a field changes no call in what it has to do.
Alike(s, t) ==
  /\ Len(s) = Len(t)
  /\ \A k \in 1 .. Len(t) : s[k].kind = t[k].kind /\ s[k].i = t[k].i /\ s[k].left = t[k].left

\* Placing a result into the latest call keeps the calls below it.
LEMMA PlacedFacts ==
  ASSUME Inv, stack # <<>>
  PROVE  Placed \in Seq(Frames) /\ Alike(Placed, stack)
<1> DEFINE at == IF Top.kind = "face" THEN faces.at ELSE halfedges.at
           n == Len(stack)
           call == [stack[n] EXCEPT !.at = at]
           new == [stack EXCEPT ![n] = call]
<1>1. stack \in Seq(Frames) /\ n \in Nat \ {0} /\ stack[n] \in Frames
  BY TopFacts DEF Inv, CallsOK, Top, Last
<1>2. at = 1
  BY TopFacts
<1> HIDE DEF at
<1>3. /\ call \in Frames /\ call.kind = stack[n].kind /\ call.i = stack[n].i
      /\ call.left = stack[n].left
  <2>1. CASE stack[n] \in FaceFrames
    BY <1>2, <2>1 DEF Frames, FaceFrames
  <2>2. CASE stack[n] \in HalfFrames
    BY <1>2, <2>2 DEF Frames, HalfFrames
  <2> QED
    BY <1>1, <2>1, <2>2 DEF Frames
<1> HIDE DEF call
<1>4. new \in Seq(Frames) /\ Alike(new, stack)
  BY <1>1, <1>3 DEF Alike
<1>5. Placed = stack \/ Placed = new
  BY DEF Placed, call, at
<1>6. Alike(stack, stack)
  BY DEF Alike
<1> QED
  BY <1>1, <1>4, <1>5, <1>6

-----------------------------------------------------------------------------
(* The steps of the conversion.                                            *)

\* One lemma for each step of the conversion: the invariant is kept.
LEMMA KnownKeeps ==
  ASSUME Inv, Known
  PROVE  Inv'
<1>1. /\ stack # <<>> /\ Top.left # <<>> /\ stage = "convert" /\ outcome = "running"
      /\ Wanted \in DOMAIN halfedgemap \cup DOMAIN facemap
      /\ ret' = IF Wanted \in DOMAIN facemap THEN facemap[Wanted] ELSE halfedgemap[Wanted]
      /\ stack' = Placed
      /\ UNCHANGED <<graph, halfedges, faces, halfedgemap, facemap, stage, outcome>>
  BY DEF Known, Calling, Running
<1>2. Grows
  BY <1>1, Lengths DEF Grows
<1>3. Placed \in Seq(Frames) /\ Alike(Placed, stack)
  BY <1>1, PlacedFacts
<1>4. stack \in Seq(Frames) /\ Len(stack) \in Nat \ {0}
  BY <1>1, TopFacts DEF Inv, CallsOK
<1>5. /\ stack' \in Seq(Frames) /\ Len(stack') = Len(stack)
      /\ DOMAIN stack' = 1 .. Len(stack) /\ DOMAIN stack = 1 .. Len(stack)
      /\ \A k \in 1 .. Len(stack) : /\ stack'[k].kind = stack[k].kind
                                    /\ stack'[k].i = stack[k].i /\ stack'[k].left = stack[k].left
  BY <1>1, <1>3, <1>4 DEF Alike
<1>6. \A k \in 1 .. Len(stack) : /\ (Of(stack[k]))' = Of(stack[k]) /\ (Aim(stack[k]))' = Aim(stack[k])
  BY <1>1, <1>5 DEF Of, Aim
<1>7. CopiesOK'
  BY <1>1 DEF Inv, CopiesOK, HalfItems, FaceItems, ToHalf, ToFace, To, IsCopy, Filled, H, F
<1>8. stack' \in Seq(Frames')
  BY <1>1, <1>5 DEF Frames, FaceFrames, HalfFrames, H, F
<1>9. \A k \in 1 .. Len(stack') - 1 :
        (stack[k].left # <<>>)' /\ (Aim(stack[k]) = Of(stack[k + 1]))'
  <2> TAKE k \in 1 .. Len(stack') - 1
  <2>1. k \in 1 .. Len(stack) /\ k + 1 \in 1 .. Len(stack) /\ k \in 1 .. Len(stack) - 1
    BY <1>4, <1>5
  <2>2. stack[k].left # <<>> /\ Aim(stack[k]) = Of(stack[k + 1])
    BY <2>1 DEF Inv, CallsOK
  <2> QED
    BY <2>1, <2>2, <1>5, <1>6
<1>10. ret' # Null /\ stack' # <<>> => Top'.left # <<>> /\ (IsCopy(ret, Aim(Top)))'
  <2>1. Top = stack[Len(stack)] /\ Top' = stack'[Len(stack)]
    BY <1>5 DEF Top, Last
  <2>2. Top'.left # <<>> /\ (Aim(Top))' = Wanted
    BY <1>1, <1>4, <1>5, <1>6, <2>1, WantedFacts
  <2>3. IsCopy(ret', Wanted)
    BY <1>1 DEF Inv, CopiesOK
  <2>4. (IsCopy(ret, Aim(Top)))'
    BY <2>2, <2>3, <1>1, <1>2 DEF IsCopy, ToHalf, ToFace, To, H, F
  <2> QED
    BY <2>2, <2>4
<1>11. CallsOK'
  BY <1>1, <1>8, <1>9, <1>10 DEF CallsOK
<1>12. FieldsOK'
  <2>1. \A kind, i, field : Pending(kind, i, field) => Pending(kind, i, field)'
    BY <1>5 DEF Pending
  <2> QED
    BY <2>1, <1>1, <1>2, Grown DEF Inv, FieldsOK
<1> QED
  BY <1>1, <1>2, <1>7, <1>11, <1>12, Grown DEF Inv, Copied

\* The calls after one more has begun, for an element behind the others.
LEMMA CallBegins ==
  ASSUME Inv, Grows, Calling, NEW call, call \in Frames', call.at = Null,
         stack' = Append(Placed, call), ret' = ret, stage' = stage, outcome' = outcome,
         Of(call)' = Wanted
  PROVE  /\ CallsOK'
         /\ \A kind, i, field : Pending(kind, i, field) => Pending(kind, i, field)'
         /\ \A field : Holds(call.left, field)
                          => Pending(call.kind, call.i, field)'
<1> DEFINE n == Len(stack)
<1>1. /\ stack # <<>> /\ Top.left # <<>> /\ stage = "convert" /\ outcome = "running" /\ ret = Null
  BY DEF Calling, Running
<1>2. Placed \in Seq(Frames) /\ Alike(Placed, stack)
  BY <1>1, PlacedFacts
<1>3. stack \in Seq(Frames) /\ n \in Nat \ {0}
  BY <1>1, TopFacts DEF Inv, CallsOK
<1>4. Frames \subseteq Frames'
  BY Grown
<1>0. PICK P : P = Placed
  OBVIOUS
<1>5. P \in Seq(Frames') /\ Len(P) = n /\ P \in Seq(Frames)
  BY <1>0, <1>2, <1>4 DEF Alike
<1>6. \A k \in 1 .. n : /\ P[k] \in Frames /\ P[k].kind = stack[k].kind
                        /\ P[k].i = stack[k].i /\ P[k].left = stack[k].left
  BY <1>0, <1>2, <1>5 DEF Alike
<1>7. /\ stack' \in Seq(Frames') /\ Len(stack') = n + 1 /\ stack'[n + 1] = call
      /\ DOMAIN stack' = 1 .. n + 1 /\ DOMAIN stack = 1 .. n
      /\ \A k \in 1 .. n : stack'[k] = P[k]
  BY <1>0, <1>3, <1>5
<1> HIDE DEF n
<1>8. \A k \in 1 .. n : stack[k] \in Frames
  BY <1>3 DEF n
<1>9. \A k \in 1 .. n : Of(P[k])' = Of(stack[k]) /\ Aim(P[k])' = Aim(stack[k])
  <2> TAKE k \in 1 .. n
  <2>1. Of(P[k])' = Of(P[k]) /\ Aim(P[k])' = Aim(P[k])
    BY <1>6, Grown
  <2>2. Of(P[k]) = Of(stack[k]) /\ Aim(P[k]) = Aim(stack[k])
    BY <1>6 DEF Of, Aim
  <2> QED
    BY <2>1, <2>2
<1>10. \A k \in 1 .. Len(stack') - 1 :
        (stack[k].left # <<>>)' /\ (Aim(stack[k]) = Of(stack[k + 1]))'
  <2> TAKE k \in 1 .. Len(stack') - 1
  <2>1. k \in 1 .. n /\ k + 1 \in 1 .. n + 1 /\ stack'[k] = P[k]
    BY <1>3, <1>7 DEF n
  <2>2. CASE k = n
    <3>1. Top = stack[n]
      BY DEF Top, Last, n
    <3>2. stack'[k].left # <<>>
      BY <1>1, <1>6, <2>1, <2>2, <3>1
    <3>3. Aim(P[k])' = Wanted
      BY <1>1, <1>9, <2>1, <2>2, <3>1, WantedFacts
    <3> QED
      BY <1>7, <2>1, <2>2, <3>2, <3>3
  <2>3. CASE k # n
    <3>1. k + 1 \in 1 .. n /\ k \in 1 .. Len(stack) - 1 /\ stack'[k + 1] = P[k + 1]
      BY <1>3, <1>7, <2>1, <2>3 DEF n
    <3>2. stack[k].left # <<>> /\ Aim(stack[k]) = Of(stack[k + 1])
      BY <3>1 DEF Inv, CallsOK
    <3> QED
      BY <3>1, <3>2, <2>1, <1>6, <1>9
  <2> QED
    BY <2>2, <2>3
<1>11. CallsOK'
  BY <1>1, <1>7, <1>10 DEF CallsOK
<1>12. \A kind, i, field : Pending(kind, i, field) => Pending(kind, i, field)'
  BY <1>3, <1>6, <1>7 DEF Pending, n
<1>13. \A field : Holds(call.left, field)
                    => Pending(call.kind, call.i, field)'
  BY <1>3, <1>7 DEF Pending, n
<1> QED
  BY <1>11, <1>12, <1>13

\* What a list holds, any list that it is part of holds.
LEMMA Joined ==
  ASSUME NEW S, NEW s \in Seq(S), NEW t \in Seq(S), NEW x, Holds(s, x) \/ Holds(t, x)
  PROVE  Holds(s \o t, x)
<1>1. /\ DOMAIN (s \o t) = 1 .. Len(s) + Len(t) /\ Len(s) \in Nat /\ Len(t) \in Nat
      /\ DOMAIN s = 1 .. Len(s) /\ DOMAIN t = 1 .. Len(t)
      /\ \A j \in 1 .. Len(s) : (s \o t)[j] = s[j]
  OBVIOUS
<1>2. \A j \in 1 .. Len(t) : Len(s) + j \in 1 .. Len(s) + Len(t) /\ (s \o t)[Len(s) + j] = t[j]
  BY <1>1
<1>3. \A j \in 1 .. Len(s) : j \in 1 .. Len(s) + Len(t)
  BY <1>1
<1> QED
  BY <1>1, <1>2, <1>3 DEF Holds

\* The fields a halfedge has, the others being null.
LEMMA FieldsOfFacts ==
  ASSUME NEW h
  PROVE  /\ FieldsOf(h) \in Seq(EdgeFields)
         /\ \A field \in EdgeFields :
              Holds(FieldsOf(h), field) \/ graph[field][h] = Null
<1> DEFINE p == IF graph.prev[h] = Null THEN <<>> ELSE <<"prev">>
           q == IF graph.next[h] = Null THEN <<>> ELSE <<"next">>
           s == <<"twin", "face">>
<1>1. s \in Seq(EdgeFields) /\ Holds(s, "twin") /\ Holds(s, "face")
  <2>1. s \in Seq(EdgeFields) /\ Len(s) = 2 /\ s[1] = "twin" /\ s[2] = "face"
    BY DEF EdgeFields
  <2> QED
    BY <2>1 DEF Holds
<1>2. \A e \in EdgeFields : <<e>> \in Seq(EdgeFields) /\ Holds(<<e>>, e)
  <2> TAKE e \in EdgeFields
  <2>1. <<e>> \in Seq(EdgeFields) /\ Len(<<e>>) = 1 /\ <<e>>[1] = e
    OBVIOUS
  <2> QED
    BY <2>1 DEF Holds
<1>3. <<>> \in Seq(EdgeFields) /\ "prev" \in EdgeFields /\ "next" \in EdgeFields
  BY DEF EdgeFields
<1>4. p \in Seq(EdgeFields) /\ (graph.prev[h] # Null => Holds(p, "prev"))
  BY <1>2, <1>3
<1>5. q \in Seq(EdgeFields) /\ (graph.next[h] # Null => Holds(q, "next"))
  BY <1>2, <1>3
<1>6. FieldsOf(h) = (s \o p) \o q
  BY DEF FieldsOf
<1> HIDE DEF p, q, s
<1>7. s \o p \in Seq(EdgeFields) /\ FieldsOf(h) \in Seq(EdgeFields)
  BY <1>1, <1>4, <1>5, <1>6
<1>8. Holds(s \o p, "twin") /\ Holds(s \o p, "face")
      /\ (graph.prev[h] # Null => Holds(s \o p, "prev"))
  BY <1>1, <1>4, Joined
<1>9. /\ Holds(FieldsOf(h), "twin") /\ Holds(FieldsOf(h), "face")
      /\ graph.prev[h] # Null => Holds(FieldsOf(h), "prev")
      /\ graph.next[h] # Null => Holds(FieldsOf(h), "next")
  BY <1>5, <1>6, <1>7, <1>8, Joined
<1> QED
  BY <1>7, <1>9 DEF EdgeFields

\* A map and the number of its keys after one more.
LEMMA OneMore ==
  ASSUME NEW D, NEW E, IsFiniteSet(E), D \subseteq E, NEW x \in E \ D
  PROVE  /\ Cardinality(D) \in Nat /\ Cardinality(D) < Cardinality(E)
         /\ Cardinality(D \cup {x}) = Cardinality(D) + 1
<1>1. IsFiniteSet(D) /\ Cardinality(D) \in Nat /\ Cardinality(E) \in Nat
  BY FS_Subset, FS_CardinalityType
<1>2. Cardinality(D \cup {x}) = Cardinality(D) + 1
  BY <1>1, FS_AddElement
<1>3. Cardinality(D \cup {x}) <= Cardinality(E)
  BY FS_Subset
<1> QED
  BY <1>1, <1>2, <1>3

\* The copy of a half-edge, which calls for its neighbours.
LEMMA ConvertHalfedgeKeeps ==
  ASSUME Inv, ConvertHalfedge
  PROVE  Inv'
<1> DEFINE h == Wanted
           D == DOMAIN halfedgemap
           item == [BlankHalfedge EXCEPT !.of = h]
           n == Len(halfedges.item)
           S == HalfItems(ToHalf, ToFace)
           call == [kind |-> "halfedge", i |-> n + 1, at |-> Null, left |-> FieldsOf(h)]
<1>1. /\ Calling /\ stack # <<>> /\ Top.left # <<>> /\ h \in graph.halves \ D
      /\ halfedges' = PushBack(halfedges, item)
      /\ halfedgemap' = [k \in D \cup {h} |-> IF k = h THEN Last1(halfedges') ELSE halfedgemap[k]]
      /\ UNCHANGED <<graph, faces, facemap, ret, stage, outcome>>
  BY DEF ConvertHalfedge, Calling
<1>2. stack' = Append(Placed, [kind |-> "halfedge", i |-> Len(halfedges'.item), at |-> Null,
                               left |-> FieldsOf(h)])
  BY DEF ConvertHalfedge
<1>3. graph \in Diagrams /\ IsFiniteSet(graph.halves) /\ H \in Nat /\ n \in Nat /\ H <= n /\ D \subseteq graph.halves
  BY GraphFacts, Lengths DEF Inv, CopiesOK
<1>4. Cardinality(D) \in Nat /\ Cardinality(D) < H /\ Cardinality(D \cup {h}) = Cardinality(D) + 1
  BY <1>1, <1>3, OneMore DEF H
<1>5. item \in S /\ item.of = h /\ item.prev = Null /\ item.next = Null
  BY <1>1 DEF HalfItems, BlankHalfedge
<1>6. halfedges \in Vectors(S) /\ Filled(halfedges, H, Cardinality(D))
  BY DEF Inv, CopiesOK
<1> HIDE DEF D, item, S
<1>7. /\ halfedges' \in Vectors(S) /\ Filled(halfedges', H, Cardinality(D) + 1) /\ halfedges'.at = 1
      /\ Len(halfedges'.item) = n + 1
      /\ \A i \in 1 .. n : i \in 1 .. n + 1 /\ halfedges'.item[i] = halfedges.item[i]
      /\ halfedges'.item[n + 1] = item
  BY <1>1, <1>3, <1>4, <1>5, <1>6, Pushed
<1> HIDE DEF h
<1>8. DOMAIN halfedgemap' = D \cup {h}
  BY <1>1
<1>9. Grows
  BY <1>1, <1>3, <1>7, Lengths DEF Grows
<1>10. /\ H' = H /\ F' = F /\ S \subseteq HalfItems(ToHalf, ToFace)'
       /\ FaceItems(ToHalf) \subseteq FaceItems(ToHalf)'
       /\ \A p, x : IsCopy(p, x) => IsCopy(p, x)'
       /\ \A p, x : Matches(p, x) => Matches(p, x)'
       /\ Reached' = Reached
  BY <1>9, Grown DEF S
<1>11. CopiesOK'
  <2>1. halfedges' \in Vectors(HalfItems(ToHalf, ToFace)') /\ faces' \in Vectors(FaceItems(ToHalf)')
    BY <1>1, <1>7, <1>10 DEF Vectors, Inv, CopiesOK
  <2>2. DOMAIN halfedgemap' \subseteq graph'.halves /\ DOMAIN facemap' \subseteq graph'.faces
    BY <1>1, <1>3, <1>8 DEF Inv, CopiesOK
  <2>3. /\ Filled(halfedges, H, Cardinality(DOMAIN halfedgemap))'
        /\ Filled(faces, F, Cardinality(DOMAIN facemap))'
    <3>1. Cardinality(DOMAIN halfedgemap') = Cardinality(D) + 1
      BY <1>4, <1>8, Zenon
    <3> QED
      BY <3>1, <1>1, <1>7, <1>10 DEF Inv, CopiesOK, Filled
  <2>4. /\ \A i \in 1 .. H : halfedges'.item[i] = BlankHalfedge
        /\ \A i \in 1 .. F : faces'.item[i] = BlankFace
    BY SMTT(30), <1>1, <1>3, <1>7 DEF Inv, CopiesOK
  <2>5. /\ \A i \in H + 1 .. Len(halfedges'.item) : halfedges'.item[i].of \in DOMAIN halfedgemap'
        /\ \A i \in F + 1 .. Len(faces'.item) : faces'.item[i].of \in DOMAIN facemap'
    <3>1. \A i \in H + 1 .. n : halfedges.item[i].of \in D
      BY DEF Inv, CopiesOK, D
    <3>2. \A i \in H + 1 .. n + 1 : (i \in 1 .. n /\ i \in H + 1 .. n) \/ i = n + 1
      BY <1>3
    <3>3. \A i \in H + 1 .. n + 1 : halfedges'.item[i].of \in D \cup {h}
      BY <3>1, <3>2, <1>5, <1>7
    <3> QED
      BY <3>3, <1>1, <1>7, <1>8 DEF Inv, CopiesOK
  <2>6. \A k \in DOMAIN halfedgemap' : IsCopy(halfedgemap[k], k)'
    <3> TAKE k \in DOMAIN halfedgemap'
    <3>1. CASE k = h
      <4>1. halfedgemap'[k] = [at |-> 1, i |-> n + 1]
        BY <3>1, <1>1, <1>7, <1>8 DEF Last1
      <4>2. [at |-> 1, i |-> n + 1] \in ToHalf'
        BY <1>3, <1>7, <1>10 DEF ToHalf, To
      <4>3. h \in graph'.halves
        BY <1>1
      <4> QED
        BY <3>1, <4>1, <4>2, <4>3, <1>5, <1>7 DEF IsCopy
    <3>2. CASE k # h
      <4>1. k \in D /\ halfedgemap'[k] = halfedgemap[k]
        BY <3>2, <1>1, <1>8
      <4>2. IsCopy(halfedgemap[k], k)
        BY <4>1 DEF Inv, CopiesOK, D
      <4>3. \A p : p = halfedgemap[k] => IsCopy(p, k)'
        BY <4>2, <1>10
      <4>4. PICK q : q = halfedgemap[k]
        OBVIOUS
      <4> QED
        BY <4>1, <4>3, <4>4 DEF IsCopy
    <3> QED
      BY <3>1, <3>2
  <2>7. \A f \in DOMAIN facemap' : IsCopy(facemap[f], f)'
    <3> TAKE f \in DOMAIN facemap'
    <3>1. PICK q : q = facemap[f]
      OBVIOUS
    <3>2. IsCopy(q, f)
      BY <3>1, <1>1 DEF Inv, CopiesOK
    <3>3. IsCopy(q, f)'
      BY <3>2, <1>10
    <3> QED
      BY <3>1, <3>3, <1>1 DEF IsCopy
  <2> QED
    BY <2>1, <2>2, <2>3, <2>4, <2>5, <2>6, <2>7, <1>10 DEF CopiesOK
<1>12. PICK c : c = call
  OBVIOUS
<1>13. c \in Frames' /\ c.at = Null /\ Of(c)' = h /\ stack' = Append(Placed, c)
       /\ c.kind = "halfedge" /\ c.i = n + 1 /\ c.left = FieldsOf(h)
  <2>1. n + 1 \in H' + 1 .. Len(halfedges'.item)
    BY <1>3, <1>7, <1>10
  <2>2. c \in HalfFrames'
    BY <2>1, <1>12, FieldsOfFacts DEF HalfFrames
  <2> QED
    BY <2>2, <1>2, <1>5, <1>7, <1>12 DEF Frames, Of
<1>14. /\ CallsOK'
       /\ \A kind, i, field : Pending(kind, i, field) => Pending(kind, i, field)'
       /\ \A field : Holds(c.left, field) => Pending(c.kind, c.i, field)'
  BY <1>1, <1>9, <1>13, CallBegins DEF h
<1>15. FieldsOK'
  <2>1. ASSUME NEW i \in H' + 1 .. Len(halfedges'.item), NEW field \in EdgeFields
        PROVE  \/ Pending("halfedge", i, field)'
               \/ Matches(halfedges.item[i][field], graph[field][halfedges.item[i].of])'
    <3>1. CASE i = n + 1
      <4>1. Holds(FieldsOf(h), field) \/ graph[field][h] = Null
        BY FieldsOfFacts
      <4>2. Holds(FieldsOf(h), field) => Pending("halfedge", i, field)'
        BY <3>1, <1>13, <1>14
      <4>3. ASSUME ~ Holds(FieldsOf(h), field)
            PROVE  Matches(halfedges.item[i][field], graph[field][halfedges.item[i].of])'
        <5>1. graph'[field][h] = Null /\ halfedges'.item[i] = item
          BY <4>1, <4>3, <3>1, <1>1, <1>7
        <5>2. item[field] = Null /\ item.of = h
          BY <1>5 DEF EdgeFields, item, BlankHalfedge
        <5> QED
          BY <5>1, <5>2 DEF Matches
      <4> QED
        BY <4>2, <4>3
    <3>2. CASE i # n + 1
      <4>1. i \in H + 1 .. n /\ halfedges'.item[i] = halfedges.item[i]
        BY <3>2, <1>3, <1>7, <1>10
      <4>2. PICK p, x : p = halfedges.item[i][field] /\ x = graph[field][halfedges.item[i].of]
        OBVIOUS
      <4>3. Pending("halfedge", i, field) \/ Matches(p, x)
        BY <4>1, <4>2 DEF Inv, FieldsOK
      <4>4. Pending("halfedge", i, field)' \/ Matches(p, x)'
        BY <4>3, <1>10, <1>14
      <4> QED
        BY <4>1, <4>2, <4>4, <1>1 DEF Matches, IsCopy
    <3> QED
      BY <3>1, <3>2
  <2>2. ASSUME NEW i \in F' + 1 .. Len(faces'.item)
        PROVE  \/ Pending("face", i, "halfedge")'
               \/ Matches(faces.item[i].halfedge, graph.edge[faces.item[i].of])'
    <3>1. PICK p, x : p = faces.item[i].halfedge /\ x = graph.edge[faces.item[i].of]
      OBVIOUS
    <3>2. Pending("face", i, "halfedge") \/ Matches(p, x)
      BY <3>1, <1>1, <1>10 DEF Inv, FieldsOK
    <3>3. Pending("face", i, "halfedge")' \/ Matches(p, x)'
      BY <3>2, <1>10, <1>14
    <3> QED
      BY <3>1, <3>3, <1>1 DEF Matches, IsCopy
  <2> QED
    BY <2>1, <2>2 DEF FieldsOK
<1>16. Copied' \subseteq Reached'
  <2>1. h \in Reached
    BY <1>1, <1>3, WantedFacts, GraphFacts DEF h
  <2> QED
    BY <2>1, <1>1, <1>8, <1>10 DEF Copied, Inv, D
<1> QED
  BY <1>1, <1>11, <1>14, <1>15, <1>16 DEF Inv

\* The copy of a face, which calls for its half-edge.
LEMMA ConvertFaceKeeps ==
  ASSUME Inv, ConvertFace
  PROVE  Inv'
<1> DEFINE f == Wanted
           D == DOMAIN facemap
           item == [BlankFace EXCEPT !.of = f]
           n == Len(faces.item)
           S == FaceItems(ToHalf)
           call == [kind |-> "face", i |-> n + 1, at |-> Null, left |-> <<"halfedge">>]
<1>1. /\ Calling /\ stack # <<>> /\ Top.left # <<>> /\ f \in graph.faces \ D
      /\ faces' = PushBack(faces, item)
      /\ facemap' = [k \in D \cup {f} |-> IF k = f THEN Last1(faces') ELSE facemap[k]]
      /\ UNCHANGED <<graph, halfedges, halfedgemap, ret, stage, outcome>>
  BY DEF ConvertFace, Calling
<1>2. stack' = Append(Placed, [kind |-> "face", i |-> Len(faces'.item), at |-> Null,
                               left |-> <<"halfedge">>])
  BY DEF ConvertFace
<1>3. graph \in Diagrams /\ IsFiniteSet(graph.faces) /\ F \in Nat /\ n \in Nat /\ F <= n /\ D \subseteq graph.faces
  BY GraphFacts, Lengths DEF Inv, CopiesOK
<1>4. Cardinality(D) \in Nat /\ Cardinality(D) < F /\ Cardinality(D \cup {f}) = Cardinality(D) + 1
  BY <1>1, <1>3, OneMore DEF F
<1>5. item \in S /\ item.of = f
  BY <1>1 DEF FaceItems, BlankFace
<1>6. faces \in Vectors(S) /\ Filled(faces, F, Cardinality(D))
  BY DEF Inv, CopiesOK
<1> HIDE DEF D, item, S
<1>7. /\ faces' \in Vectors(S) /\ Filled(faces', F, Cardinality(D) + 1) /\ faces'.at = 1
      /\ Len(faces'.item) = n + 1
      /\ \A i \in 1 .. n : i \in 1 .. n + 1 /\ faces'.item[i] = faces.item[i]
      /\ faces'.item[n + 1] = item
  BY <1>1, <1>3, <1>4, <1>5, <1>6, Pushed
<1> HIDE DEF f
<1>8. DOMAIN facemap' = D \cup {f}
  BY <1>1
<1>9. Grows
  BY <1>1, <1>3, <1>7, Lengths DEF Grows
<1>10. /\ H' = H /\ F' = F /\ S \subseteq FaceItems(ToHalf)'
       /\ HalfItems(ToHalf, ToFace) \subseteq HalfItems(ToHalf, ToFace)'
       /\ \A p, x : IsCopy(p, x) => IsCopy(p, x)'
       /\ \A p, x : Matches(p, x) => Matches(p, x)'
       /\ Reached' = Reached
  BY <1>9, Grown DEF S
<1>11. CopiesOK'
  <2>1. halfedges' \in Vectors(HalfItems(ToHalf, ToFace)') /\ faces' \in Vectors(FaceItems(ToHalf)')
    BY <1>1, <1>7, <1>10 DEF Vectors, Inv, CopiesOK
  <2>2. DOMAIN halfedgemap' \subseteq graph'.halves /\ DOMAIN facemap' \subseteq graph'.faces
    BY <1>1, <1>3, <1>8 DEF Inv, CopiesOK
  <2>3. /\ Filled(halfedges, H, Cardinality(DOMAIN halfedgemap))'
        /\ Filled(faces, F, Cardinality(DOMAIN facemap))'
    <3>1. Cardinality(DOMAIN facemap') = Cardinality(D) + 1
      BY <1>4, <1>8, Zenon
    <3> QED
      BY <3>1, <1>1, <1>7, <1>10 DEF Inv, CopiesOK, Filled
  <2>4. /\ \A i \in 1 .. H : halfedges'.item[i] = BlankHalfedge
        /\ \A i \in 1 .. F : faces'.item[i] = BlankFace
    BY <1>1, <1>3, <1>7 DEF Inv, CopiesOK
  <2>5. /\ \A i \in H + 1 .. Len(halfedges'.item) : halfedges'.item[i].of \in DOMAIN halfedgemap'
        /\ \A i \in F + 1 .. Len(faces'.item) : faces'.item[i].of \in DOMAIN facemap'
    <3>1. \A i \in F + 1 .. n : faces.item[i].of \in D
      BY DEF Inv, CopiesOK, D
    <3>2. \A i \in F + 1 .. n + 1 : (i \in 1 .. n /\ i \in F + 1 .. n) \/ i = n + 1
      BY <1>3
    <3>3. \A i \in F + 1 .. n + 1 : faces'.item[i].of \in D \cup {f}
      BY <3>1, <3>2, <1>5, <1>7
    <3> QED
      BY <3>3, <1>1, <1>7, <1>8 DEF Inv, CopiesOK
  <2>6. \A k \in DOMAIN facemap' : IsCopy(facemap[k], k)'
    <3> TAKE k \in DOMAIN facemap'
    <3>1. CASE k = f
      <4>1. facemap'[k] = [at |-> 1, i |-> n + 1]
        BY <3>1, <1>1, <1>7, <1>8 DEF Last1
      <4>2. [at |-> 1, i |-> n + 1] \in ToFace'
        BY <1>3, <1>7, <1>10 DEF ToFace, To
      <4>3. f \in graph'.faces
        BY <1>1
      <4> QED
        BY <3>1, <4>1, <4>2, <4>3, <1>5, <1>7 DEF IsCopy
    <3>2. CASE k # f
      <4>1. k \in D /\ facemap'[k] = facemap[k]
        BY <3>2, <1>1, <1>8
      <4>2. IsCopy(facemap[k], k)
        BY <4>1 DEF Inv, CopiesOK, D
      <4>3. \A p : p = facemap[k] => IsCopy(p, k)'
        BY <4>2, <1>10
      <4>4. PICK q : q = facemap[k]
        OBVIOUS
      <4> QED
        BY <4>1, <4>3, <4>4 DEF IsCopy
    <3> QED
      BY <3>1, <3>2
  <2>7. \A h \in DOMAIN halfedgemap' : IsCopy(halfedgemap[h], h)'
    <3> TAKE h \in DOMAIN halfedgemap'
    <3>1. PICK q : q = halfedgemap[h]
      OBVIOUS
    <3>2. IsCopy(q, h)
      BY <3>1, <1>1 DEF Inv, CopiesOK
    <3>3. IsCopy(q, h)'
      BY <3>2, <1>10
    <3> QED
      BY <3>1, <3>3, <1>1 DEF IsCopy
  <2> QED
    BY <2>1, <2>2, <2>3, <2>4, <2>5, <2>6, <2>7, <1>10 DEF CopiesOK
<1>12. PICK c : c = call
  OBVIOUS
<1>13. c \in Frames' /\ c.at = Null /\ Of(c)' = f /\ stack' = Append(Placed, c)
       /\ c.kind = "face" /\ c.i = n + 1 /\ Holds(c.left, "halfedge")
  <2>1. n + 1 \in F' + 1 .. Len(faces'.item)
    BY <1>3, <1>7, <1>10
  <2>2. c \in FaceFrames'
    BY <2>1, <1>12 DEF FaceFrames
  <2>3. Holds(<<"halfedge">>, "halfedge")
    <3>1. Len(<<"halfedge">>) = 1 /\ <<"halfedge">> \in Seq({"halfedge"}) /\ <<"halfedge">>[1] = "halfedge"
      OBVIOUS
    <3> QED
      BY <3>1 DEF Holds
  <2> QED
    BY <2>2, <2>3, <1>2, <1>5, <1>7, <1>12 DEF Frames, Of
<1>14. /\ CallsOK'
       /\ \A kind, i, field : Pending(kind, i, field) => Pending(kind, i, field)'
       /\ \A field : Holds(c.left, field) => Pending(c.kind, c.i, field)'
  BY <1>1, <1>9, <1>13, CallBegins DEF f
<1>15. FieldsOK'
  <2>1. ASSUME NEW i \in F' + 1 .. Len(faces'.item)
        PROVE  \/ Pending("face", i, "halfedge")'
               \/ Matches(faces.item[i].halfedge, graph.edge[faces.item[i].of])'
    <3>1. CASE i = n + 1
      BY <3>1, <1>13, <1>14
    <3>2. CASE i # n + 1
      <4>1. i \in F + 1 .. n /\ faces'.item[i] = faces.item[i]
        BY <3>2, <1>3, <1>7, <1>10
      <4>2. PICK p, x : p = faces.item[i].halfedge /\ x = graph.edge[faces.item[i].of]
        OBVIOUS
      <4>3. Pending("face", i, "halfedge") \/ Matches(p, x)
        BY <4>1, <4>2 DEF Inv, FieldsOK
      <4>4. Pending("face", i, "halfedge")' \/ Matches(p, x)'
        BY <4>3, <1>10, <1>14
      <4> QED
        BY <4>1, <4>2, <4>4, <1>1 DEF Matches, IsCopy
    <3> QED
      BY <3>1, <3>2
  <2>2. ASSUME NEW i \in H' + 1 .. Len(halfedges'.item), NEW field \in EdgeFields
        PROVE  \/ Pending("halfedge", i, field)'
               \/ Matches(halfedges.item[i][field], graph[field][halfedges.item[i].of])'
    <3>1. PICK p, x : p = halfedges.item[i][field] /\ x = graph[field][halfedges.item[i].of]
      OBVIOUS
    <3>2. Pending("halfedge", i, field) \/ Matches(p, x)
      BY <3>1, <1>1, <1>10 DEF Inv, FieldsOK
    <3>3. Pending("halfedge", i, field)' \/ Matches(p, x)'
      BY <3>2, <1>10, <1>14
    <3> QED
      BY <3>1, <3>3, <1>1 DEF Matches, IsCopy
  <2> QED
    BY <2>1, <2>2 DEF FieldsOK
<1>16. Copied' \subseteq Reached'
  <2>1. f \in Reached
    BY <1>1, <1>3, WantedFacts, GraphFacts DEF f
  <2> QED
    BY <2>1, <1>1, <1>8, <1>10 DEF Copied, Inv, D
<1>17. graph'.first \in DOMAIN facemap'
  BY <1>1, <1>8 DEF Inv, D
<1> QED
  BY <1>1, <1>11, <1>14, <1>15, <1>16, <1>17 DEF Inv

\* What a list holds other than its head, its tail holds.
LEMMA TailHolds ==
  ASSUME NEW S, NEW s \in Seq(S), s # <<>>, NEW x, Holds(s, x), x # Head(s)
  PROVE  Holds(Tail(s), x)
<1>1. PICK j \in 1 .. Len(s) : s[j] = x
  BY DEF Holds
<1>2. j # 1 /\ Len(s) \in Nat
  BY <1>1
<1>3. j - 1 \in 1 .. Len(Tail(s)) /\ Tail(s)[j - 1] = s[j] /\ DOMAIN Tail(s) = 1 .. Len(Tail(s))
  BY <1>1, <1>2
<1> QED
  BY <1>1, <1>3 DEF Holds

\* What a call that goes on or returns leaves for the others to do.
LEMMA StoreKeeps ==
  ASSUME Inv, Store
  PROVE  Inv'
<1> DEFINE field == Head(Top.left)
           n == Len(stack)
           i0 == Top.i
           call == [stack[n] EXCEPT !.left = Tail(Top.left), !.at = Null]
           faceSet == [faces EXCEPT !.item[Top.i].halfedge = ret]
           halfSet == [halfedges EXCEPT !.item[Top.i][field] = ret]
<1>1. /\ stack # <<>> /\ ret # Null /\ stage = "convert" /\ outcome = "running"
      /\ UNCHANGED <<graph, stage>>
  BY DEF Store, Running
<1>2. /\ n \in Nat \ {0} /\ stack \in Seq(Frames) /\ Top \in Frames /\ Top = stack[n]
      /\ Top.left # <<>> /\ IsCopy(ret, Aim(Top)) /\ Wanted = Aim(Top)
  BY <1>1, TopFacts, WantedFacts DEF Inv, CallsOK, Top, Last
<1>3. graph \in Diagrams
  BY DEF Inv
<1>4. Top.at \in {Null, 1}
  BY <1>2 DEF Frames, FaceFrames, HalfFrames
<1>5. /\ Top.at \in {Null, IF Top.kind = "face" THEN faces.at ELSE halfedges.at}
  BY <1>1, <1>4, TopFacts
<1>6. /\ IF Top.kind = "face"
         THEN faces' = faceSet /\ UNCHANGED halfedges
         ELSE halfedges' = halfSet /\ UNCHANGED faces
      /\ stack' = [stack EXCEPT ![n].left = Tail(@), ![n].at = Null]
      /\ ret' = Null
      /\ UNCHANGED <<halfedgemap, facemap, outcome>>
  BY <1>5 DEF Store
<1>7. /\ call \in Frames /\ call.kind = Top.kind /\ call.i = Top.i /\ call.left = Tail(Top.left)
  <2>1. CASE Top.kind = "face"
    <3>1. Top \in FaceFrames /\ Top.left = <<"halfedge">>
      BY <1>1, <1>2, <2>1, TopFacts, WantedFacts
    <3>2. Tail(Top.left) = <<>>
      BY <3>1
    <3> QED
      BY <3>1, <3>2, <1>2 DEF Frames, FaceFrames
  <2>2. CASE Top.kind # "face"
    <3>1. Top \in HalfFrames
      BY <1>1, <2>2, TopFacts
    <3>2. Tail(Top.left) \in Seq(EdgeFields)
      BY <3>1, <1>2 DEF HalfFrames
    <3> QED
      BY <3>1, <3>2, <1>2 DEF Frames, HalfFrames
  <2> QED
    BY <2>1, <2>2
<1>8. stack' = [stack EXCEPT ![n] = call]
  BY <1>2, <1>6
<1> HIDE DEF call
<1>9. /\ stack' \in Seq(Frames) /\ Len(stack') = n /\ DOMAIN stack' = 1 .. n /\ DOMAIN stack = 1 .. n
      /\ stack'[n] = call /\ \A k \in 1 .. n : k # n => stack'[k] = stack[k]
  BY <1>2, <1>7, <1>8
<1>10. /\ halfedges' \in Vectors(HalfItems(ToHalf, ToFace)) /\ faces' \in Vectors(FaceItems(ToHalf))
       /\ halfedges'.at = halfedges.at /\ halfedges'.room = halfedges.room
       /\ faces'.at = faces.at /\ faces'.room = faces.room
       /\ Len(halfedges'.item) = Len(halfedges.item) /\ Len(faces'.item) = Len(faces.item)
       /\ \A i \in 1 .. Len(halfedges.item) :
            /\ halfedges'.item[i].of = halfedges.item[i].of
            /\ Top.kind = "face" \/ i # i0 => halfedges'.item[i] = halfedges.item[i]
       /\ \A i \in 1 .. Len(faces.item) :
            /\ faces'.item[i].of = faces.item[i].of
            /\ Top.kind # "face" \/ i # i0 => faces'.item[i] = faces.item[i]
       /\ Top.kind = "face" => i0 \in F + 1 .. Len(faces.item) /\ faces'.item[i0].halfedge = ret
       /\ Top.kind # "face" =>
            /\ i0 \in H + 1 .. Len(halfedges.item) /\ halfedges'.item[i0][field] = ret
            /\ \A other \in EdgeFields \ {field} :
                 halfedges'.item[i0][other] = halfedges.item[i0][other]
  <2>0. /\ halfedges \in Vectors(HalfItems(ToHalf, ToFace)) /\ faces \in Vectors(FaceItems(ToHalf))
    BY DEF Inv, CopiesOK
  <2>1. CASE Top.kind = "face"
    <3>1. i0 \in F + 1 .. Len(faces.item) /\ i0 \in 1 .. Len(faces.item)
      <4>1. i0 \in F + 1 .. Len(faces.item)
        BY <1>1, <2>1, TopFacts DEF FaceFrames
      <4> QED
        BY <4>1, Lengths
    <3>2. Wanted \in graph.halves
      BY <1>1, <1>2, <2>1, WantedFacts
    <3>3. ret \in ToHalf
      BY <1>2, <1>3, <3>2, GraphFacts DEF IsCopy
    <3> DEFINE x == [faces.item[i0] EXCEPT !.halfedge = ret]
    <3>4. faces.item[i0] \in FaceItems(ToHalf)
      BY <3>1, Lengths
    <3>5. x \in FaceItems(ToHalf) /\ x.of = faces.item[i0].of /\ x.halfedge = ret
      BY <3>3, <3>4, FaceSet
    <3>6. faces' = [faces EXCEPT !.item[i0] = x]
      BY <1>6, <2>1
    <3> HIDE DEF x
    <3> DEFINE w == [faces EXCEPT !.item[i0] = x]
    <3>7. /\ w \in Vectors(FaceItems(ToHalf)) /\ w.at = faces.at /\ w.room = faces.room
          /\ Len(w.item) = Len(faces.item) /\ w.item[i0] = x
          /\ \A k \in 1 .. Len(faces.item) : k # i0 => w.item[k] = faces.item[k]
      BY <2>0, <3>1, <3>5, ItemSet
    <3>8. w = faces' /\ halfedges' = halfedges
      BY <1>6, <2>1, <3>6
    <3> HIDE DEF w, field, i0
    <3>9. \A i \in 1 .. Len(faces.item) : faces'.item[i].of = faces.item[i].of
      BY <3>5, <3>7, <3>8
    <3> QED
      BY <2>0, <2>1, <3>1, <3>5, <3>7, <3>8, <3>9
  <2>2. CASE Top.kind # "face"
    <3>1. i0 \in H + 1 .. Len(halfedges.item) /\ i0 \in 1 .. Len(halfedges.item)
      <4>1. i0 \in H + 1 .. Len(halfedges.item)
        BY <1>1, <2>2, TopFacts DEF HalfFrames
      <4> QED
        BY <4>1, Lengths
    <3>2. /\ field \in EdgeFields
          /\ field = "face" => Wanted \in graph.faces
          /\ field # "face" => Wanted \in graph.halves \cup {Null}
      BY <1>1, <1>2, <2>2, WantedFacts
    <3>3. (field = "face" => ret \in ToFace) /\ (field # "face" => ret \in ToHalf)
      BY <1>2, <1>3, <3>2, GraphFacts DEF IsCopy
    <3> DEFINE x == [halfedges.item[i0] EXCEPT ![field] = ret]
    <3>4. halfedges.item[i0] \in HalfItems(ToHalf, ToFace)
      BY <3>1, Lengths
    <3>5. /\ x \in HalfItems(ToHalf, ToFace) /\ x.of = halfedges.item[i0].of /\ x[field] = ret
          /\ \A other \in EdgeFields \ {field} : x[other] = halfedges.item[i0][other]
      <4>1. PICK half, face, e, q, r0 :
              half = ToHalf /\ face = ToFace /\ e = field /\ q = ret /\ r0 = halfedges.item[i0]
        OBVIOUS
      <4>2. /\ r0 \in HalfItems(half, face) /\ e \in EdgeFields
            /\ (e = "face" => q \in face) /\ (e # "face" => q \in half)
        BY <4>1, <3>2, <3>3, <3>4
      <4>3. LET y == [r0 EXCEPT ![e] = q]
            IN  /\ y \in HalfItems(half, face) /\ y.of = r0.of /\ y[e] = q
                /\ \A other \in EdgeFields \ {e} : y[other] = r0[other]
        BY <4>2, FieldSet
      <4> HIDE DEF field, i0
      <4> QED
        BY <4>1, <4>3
    <3>6. halfedges' = [halfedges EXCEPT !.item[i0] = x]
      BY <1>6, <2>2
    <3> HIDE DEF x
    <3> DEFINE w == [halfedges EXCEPT !.item[i0] = x]
    <3>7. /\ w \in Vectors(HalfItems(ToHalf, ToFace)) /\ w.at = halfedges.at /\ w.room = halfedges.room
          /\ Len(w.item) = Len(halfedges.item) /\ w.item[i0] = x
          /\ \A k \in 1 .. Len(halfedges.item) : k # i0 => w.item[k] = halfedges.item[k]
      BY <2>0, <3>1, <3>5, ItemSet
    <3>8. w = halfedges' /\ faces' = faces
      BY <1>6, <2>2, <3>6
    <3> HIDE DEF w, field, i0
    <3>9. \A i \in 1 .. Len(halfedges.item) : halfedges'.item[i].of = halfedges.item[i].of
      BY <3>5, <3>7, <3>8
    <3> QED
      BY <2>0, <2>2, <3>1, <3>5, <3>7, <3>8, <3>9
  <2> QED
    BY <2>1, <2>2
<1>11. Grows
  BY <1>1, <1>10, Lengths DEF Grows
<1>12. /\ H' = H /\ F' = F
       /\ HalfItems(ToHalf, ToFace) \subseteq HalfItems(ToHalf, ToFace)'
       /\ FaceItems(ToHalf) \subseteq FaceItems(ToHalf)'
       /\ \A p, x : IsCopy(p, x) => IsCopy(p, x)'
       /\ \A p, x : Matches(p, x) => Matches(p, x)'
       /\ Reached' = Reached
  BY <1>11, Grown
<1>13. CopiesOK'
  <2>1. halfedges' \in Vectors(HalfItems(ToHalf, ToFace)') /\ faces' \in Vectors(FaceItems(ToHalf)')
    BY <1>10, <1>12 DEF Vectors
  <2>2. /\ DOMAIN halfedgemap' \subseteq graph'.halves /\ DOMAIN facemap' \subseteq graph'.faces
        /\ Filled(halfedges, H, Cardinality(DOMAIN halfedgemap))'
        /\ Filled(faces, F, Cardinality(DOMAIN facemap))'
    BY <1>1, <1>6, <1>10, <1>12 DEF Inv, CopiesOK, Filled
  <2>3. \A i \in 1 .. H : halfedges'.item[i] = BlankHalfedge
    <3> TAKE i \in 1 .. H
    <3>1. i \in 1 .. Len(halfedges.item) /\ i \notin H + 1 .. Len(halfedges.item)
      BY Lengths
    <3>2. Top.kind = "face" \/ i # i0
      BY <3>1, <1>10
    <3> QED
      BY <3>1, <3>2, <1>10 DEF Inv, CopiesOK
  <2>4. \A i \in 1 .. F : faces'.item[i] = BlankFace
    <3> TAKE i \in 1 .. F
    <3>1. i \in 1 .. Len(faces.item) /\ i \notin F + 1 .. Len(faces.item)
      BY Lengths
    <3>2. Top.kind # "face" \/ i # i0
      BY <3>1, <1>10
    <3> QED
      BY <3>1, <3>2, <1>10 DEF Inv, CopiesOK
  <2>5. /\ \A i \in H + 1 .. Len(halfedges'.item) : halfedges'.item[i].of \in DOMAIN halfedgemap'
        /\ \A i \in F + 1 .. Len(faces'.item) : faces'.item[i].of \in DOMAIN facemap'
    BY SMTT(30), <1>6, <1>10, Lengths DEF Inv, CopiesOK
  <2>6. /\ \A h \in DOMAIN halfedgemap' : IsCopy(halfedgemap[h], h)'
        /\ \A f \in DOMAIN facemap' : IsCopy(facemap[f], f)'
    <3>1. PICK a, b : a = halfedgemap /\ b = facemap
      OBVIOUS
    <3>2. /\ \A h \in DOMAIN a : IsCopy(a[h], h)'
          /\ \A f \in DOMAIN b : IsCopy(b[f], f)'
      BY <3>1, <1>12 DEF Inv, CopiesOK
    <3> QED
      BY <3>1, <3>2, <1>6 DEF IsCopy
  <2> QED
    BY <2>1, <2>2, <2>3, <2>4, <2>5, <2>6, <1>12 DEF CopiesOK
<1>14. PICK s, t : s = stack /\ t = stack'
  OBVIOUS
<1>15. /\ \A k \in 1 .. n : s[k] \in Frames /\ t[k] \in Frames /\ t[k].kind = s[k].kind /\ t[k].i = s[k].i
       /\ \A k \in 1 .. n : k # n => t[k] = s[k]
       /\ t[n].left = Tail(s[n].left) /\ s[n] = Top
  <2>1. n \in Nat /\ n \in 1 .. n
    BY <1>2
  <2>2. /\ \A k \in 1 .. n : k # n => t[k] = s[k]
        /\ t[n] = call /\ s[n] = Top
    BY <1>2, <1>9, <1>14, Zenon
  <2>3. \A k \in 1 .. n : s[k] \in Frames
    BY <1>2, <1>14
  <2>4. t[n] \in Frames /\ t[n].kind = s[n].kind /\ t[n].i = s[n].i /\ t[n].left = Tail(s[n].left)
    BY <1>7, <2>2
  <2> HIDE DEF n
  <2>5. \A k \in 1 .. n : t[k] \in Frames /\ t[k].kind = s[k].kind /\ t[k].i = s[k].i
    <3> TAKE k \in 1 .. n
    <3> QED
      BY <2>2, <2>3, <2>4
  <2> QED
    BY <2>2, <2>3, <2>4, <2>5
<1>16. CallsOK'
  <2>1. \A k \in 1 .. n : /\ Of(t[k])' = Of(t[k]) /\ Aim(t[k])' = Aim(t[k])
                          /\ Of(t[k]) = Of(s[k]) /\ (k # n => Aim(t[k]) = Aim(s[k]))
    BY <1>11, <1>15, Grown DEF Of
  <2>2. ASSUME NEW k \in 1 .. Len(stack') - 1
        PROVE  t[k].left # <<>> /\ Aim(t[k])' = Of(t[k + 1])'
    <3>1. k \in 1 .. n /\ k + 1 \in 1 .. n /\ k # n /\ k \in 1 .. Len(stack) - 1
      <4>1. Len(stack') = n /\ n \in Nat \ {0}
        BY <1>2, <1>9, Zenon
      <4>2. k \in 1 .. n - 1
        BY <4>1
      <4>3. k \in 1 .. Len(stack) - 1
        BY <4>2
      <4> HIDE DEF n
      <4> QED
        BY <4>1, <4>2, <4>3
    <3>2. s[k].left # <<>> /\ Aim(s[k]) = Of(s[k + 1])
      BY <3>1, <1>14 DEF Inv, CallsOK
    <3> QED
      BY <3>1, <3>2, <2>1, <1>15
  <2>3. stack' \in Seq(Frames')
    <3>1. Frames \subseteq Frames'
      BY <1>11, Grown
    <3> QED
      BY <3>1, <1>9
  <2>4. \A k \in 1 .. Len(stack') - 1 : (stack[k].left # <<>>)' /\ (Aim(stack[k]) = Of(stack[k + 1]))'
    BY <2>2, <1>14
  <2> QED
    BY <2>3, <2>4, <1>1, <1>6 DEF CallsOK
<1>17. \A kind, i, e : Pending(kind, i, e) =>
         Pending(kind, i, e)' \/ (kind = Top.kind /\ i = i0 /\ e = field)
  <2> SUFFICES ASSUME NEW kind, NEW i, NEW e, Pending(kind, i, e),
                      ~(kind = Top.kind /\ i = i0 /\ e = field)
               PROVE  Pending(kind, i, e)'
    OBVIOUS
  <2>1. PICK k \in 1 .. n : s[k].kind = kind /\ s[k].i = i /\ Holds(s[k].left, e)
    BY <1>9, <1>14, Zenon DEF Pending
  <2>2. Holds(t[k].left, e)
    <3>1. CASE k # n
      BY <3>1, <2>1, <1>15
    <3>2. CASE k = n
      <4>1. Holds(Top.left, e) /\ e # Head(Top.left)
        BY <3>2, <2>1, <1>15
      <4>2. Top.left \in Seq(EdgeFields \cup {"halfedge"})
        <5>1. CASE Top.kind = "face"
          <6>1. Top.left = <<"halfedge">>
            BY <5>1, <1>1, <1>2, WantedFacts
          <6>2. <<"halfedge">> \in Seq(EdgeFields \cup {"halfedge"})
            OBVIOUS
          <6> QED
            BY <6>1, <6>2
        <5>2. CASE Top.kind # "face"
          <6>1. Top.left \in Seq(EdgeFields)
            BY <5>2, <1>1, TopFacts DEF HalfFrames
          <6> QED
            BY <6>1
        <5> QED
          BY <5>1, <5>2
      <4>3. Holds(Tail(Top.left), e)
        BY <4>1, <4>2, <1>2, TailHolds
      <4> QED
        BY <3>2, <4>3, <1>15
    <3> QED
      BY <3>1, <3>2
  <2> QED
    <3>1. k \in DOMAIN stack' /\ t = stack'
      BY <1>9, <1>14, Zenon
    <3>2. t[k].kind = kind /\ t[k].i = i
      BY <2>1, <1>15, Zenon
    <3> QED
      BY <2>2, <3>1, <3>2, Zenon DEF Pending
<1>18. ret # Null /\ IsCopy(ret, Wanted) /\ Wanted # Null
  BY <1>1, <1>2, <1>3, GraphFacts DEF IsCopy
<1>19. PICK r, w : r = ret /\ w = Wanted
  OBVIOUS
<1>20. Matches(r, w)'
  BY <1>12, <1>18, <1>19 DEF Matches
<1>21. FieldsOK'
  <2>1. ASSUME NEW i \in H' + 1 .. Len(halfedges'.item), NEW e \in EdgeFields
        PROVE  \/ Pending("halfedge", i, e)'
               \/ Matches(halfedges.item[i][e], graph[e][halfedges.item[i].of])'
    <3>0. i \in H + 1 .. Len(halfedges.item) /\ i \in 1 .. Len(halfedges.item)
      BY <1>10, <1>12, Lengths
    <3>1. CASE Top.kind = "halfedge" /\ i = i0 /\ e = field
      <4>1. halfedges'.item[i][e] = r
        BY <3>1, <1>10, <1>19
      <4>2. w = graph'[e][halfedges'.item[i].of]
        BY <3>0, <3>1, <1>1, <1>2, <1>10, <1>19 DEF Aim, Of
      <4> QED
        BY <4>1, <4>2, <1>20 DEF Matches, IsCopy
    <3>2. CASE ~(Top.kind = "halfedge" /\ i = i0 /\ e = field)
      <4>1. halfedges'.item[i][e] = halfedges.item[i][e] /\ halfedges'.item[i].of = halfedges.item[i].of
        <5>1. Top.kind # "face" => Top.kind = "halfedge"
          BY <1>1, TopFacts DEF HalfFrames
        <5> QED
          BY <5>1, <3>0, <3>2, <1>10
      <4>2. PICK p, x : p = halfedges.item[i][e] /\ x = graph[e][halfedges.item[i].of]
        OBVIOUS
      <4>3. Pending("halfedge", i, e) \/ Matches(p, x)
        BY <3>0, <4>2 DEF Inv, FieldsOK
      <4>4. Pending("halfedge", i, e)' \/ Matches(p, x)'
        BY <3>2, <4>3, <1>12, <1>17
      <4> QED
        BY <4>1, <4>2, <4>4, <1>1 DEF Matches, IsCopy
    <3> QED
      BY <3>1, <3>2
  <2>2. ASSUME NEW i \in F' + 1 .. Len(faces'.item)
        PROVE  \/ Pending("face", i, "halfedge")'
               \/ Matches(faces.item[i].halfedge, graph.edge[faces.item[i].of])'
    <3>0. i \in F + 1 .. Len(faces.item) /\ i \in 1 .. Len(faces.item)
      BY <1>10, <1>12, Lengths
    <3>1. CASE Top.kind = "face" /\ i = i0
      <4>1. faces'.item[i].halfedge = r
        BY <3>1, <1>10, <1>19
      <4>2. w = graph'.edge[faces'.item[i].of]
        BY <3>0, <3>1, <1>1, <1>2, <1>10, <1>19 DEF Aim, Of
      <4> QED
        BY <4>1, <4>2, <1>20 DEF Matches, IsCopy
    <3>2. CASE ~(Top.kind = "face" /\ i = i0)
      <4>1. faces'.item[i] = faces.item[i]
        BY <3>0, <3>2, <1>10
      <4>2. PICK p, x : p = faces.item[i].halfedge /\ x = graph.edge[faces.item[i].of]
        OBVIOUS
      <4>3. Pending("face", i, "halfedge") \/ Matches(p, x)
        BY <3>0, <4>2 DEF Inv, FieldsOK
      <4>4. Pending("face", i, "halfedge")' \/ Matches(p, x)'
        BY <3>2, <4>3, <1>12, <1>17
      <4> QED
        BY <4>1, <4>2, <4>4, <1>1 DEF Matches, IsCopy
    <3> QED
      BY <3>1, <3>2
  <2> QED
    BY <2>1, <2>2 DEF FieldsOK
<1>22. graph'.first \in DOMAIN facemap' /\ Copied' \subseteq Reached'
  BY <1>1, <1>6, <1>12 DEF Inv, Copied
<1> QED
  BY <1>1, <1>13, <1>16, <1>21, <1>22 DEF Inv

\* What is left of the stack of calls when the latest returns.
LEMMA FrontFacts ==
  ASSUME NEW S, NEW s \in Seq(S), s # <<>>
  PROVE  /\ Front(s) \in Seq(S) /\ Len(Front(s)) = Len(s) - 1
         /\ DOMAIN Front(s) = 1 .. Len(s) - 1
         /\ \A k \in 1 .. Len(s) - 1 : Front(s)[k] = s[k]
<1> DEFINE m == Len(s) - 1
<1>1. m \in Nat /\ Len(s) \in Nat /\ m < Len(s)
  OBVIOUS
<1> HIDE DEF m
<1>2. Len(SubSeq(s, 1, m)) = m
  BY <1>1
<1>3. SubSeq(s, 1, m) \in Seq(S)
  BY <1>1
<1>4. DOMAIN SubSeq(s, 1, m) = 1 .. m
  BY <1>2, <1>3
<1>5. \A k \in 1 .. m : SubSeq(s, 1, m)[k] = s[k]
  BY <1>1
<1> QED
  BY <1>2, <1>3, <1>4, <1>5, Zenon DEF Front, m

\* A call that returns has nothing left, and the one that waits for it is
\* given a pointer to what it wanted.
LEMMA ReturnKeeps ==
  ASSUME Inv, Return
  PROVE  Inv'
<1> DEFINE n == Len(stack)
           i0 == Top.i
           bounded == Bounded(Self)
           set == [faces EXCEPT !.item[Top.i].is_bounded = bounded]
<1>1. /\ stack # <<>> /\ ret = Null /\ Top.left = <<>> /\ stage = "convert" /\ outcome = "running"
      /\ IF Top.kind = "face"
         THEN faces' = set /\ ret' = [at |-> faces.at, i |-> i0]
         ELSE ret' = [at |-> halfedges.at, i |-> i0] /\ faces' = faces
      /\ stack' = Front(stack)
      /\ stage' = IF n = 1 THEN "lloyd" ELSE stage
      /\ UNCHANGED <<graph, halfedges, halfedgemap, facemap, outcome>>
  BY DEF Return, Running
<1>2. /\ n \in Nat \ {0} /\ stack \in Seq(Frames) /\ Top \in Frames /\ Top = stack[n]
  BY <1>1, TopFacts DEF Inv, CallsOK, Top, Last
<1>3. graph \in Diagrams
  BY DEF Inv
<1>4. /\ faces' \in Vectors(FaceItems(ToHalf)) /\ faces'.at = faces.at /\ faces'.room = faces.room
      /\ Len(faces'.item) = Len(faces.item)
      /\ \A i \in 1 .. Len(faces.item) :
           /\ faces'.item[i].of = faces.item[i].of
           /\ faces'.item[i].halfedge = faces.item[i].halfedge
      /\ \A i \in 1 .. F : i \in 1 .. Len(faces.item) /\ faces'.item[i] = faces.item[i]
  <2>0. faces \in Vectors(FaceItems(ToHalf)) /\ \A i \in 1 .. F : i \in 1 .. Len(faces.item)
    BY Lengths DEF Inv, CopiesOK
  <2>1. CASE Top.kind = "face"
    <3>1. i0 \in F + 1 .. Len(faces.item)
      BY <1>1, <2>1, TopFacts DEF FaceFrames
    <3>2. i0 \in 1 .. Len(faces.item) /\ \A i \in 1 .. F : i # i0
      BY <3>1, Lengths
    <3>3. faces.item[i0] \in FaceItems(ToHalf)
      BY <3>2, Lengths
    <3>4. bounded \in BOOLEAN
      BY DEF Bounded
    <3> HIDE DEF bounded
    <3> DEFINE x == [faces.item[i0] EXCEPT !.is_bounded = bounded]
    <3>5. x \in FaceItems(ToHalf) /\ x.of = faces.item[i0].of /\ x.halfedge = faces.item[i0].halfedge
      BY <3>3, <3>4, BoundedSet
    <3>6. faces' = [faces EXCEPT !.item[i0] = x]
      BY <1>1, <2>1
    <3> HIDE DEF x
    <3> DEFINE w == [faces EXCEPT !.item[i0] = x]
    <3>7. /\ w \in Vectors(FaceItems(ToHalf)) /\ w.at = faces.at /\ w.room = faces.room
          /\ Len(w.item) = Len(faces.item) /\ w.item[i0] = x
          /\ \A k \in 1 .. Len(faces.item) : k # i0 => w.item[k] = faces.item[k]
      BY <2>0, <3>2, <3>5, ItemSet
    <3>8. w = faces'
      BY <3>6
    <3> HIDE DEF w, i0
    <3> QED
      BY <2>0, <3>2, <3>5, <3>7, <3>8
  <2>2. CASE Top.kind # "face"
    BY <1>1, <2>0, <2>2
  <2> QED
    BY <2>1, <2>2
<1>5. Grows
  BY <1>1, <1>4, Lengths DEF Grows
<1>6. /\ H' = H /\ F' = F
      /\ HalfItems(ToHalf, ToFace) \subseteq HalfItems(ToHalf, ToFace)'
      /\ FaceItems(ToHalf) \subseteq FaceItems(ToHalf)'
      /\ \A p, x : IsCopy(p, x) => IsCopy(p, x)'
      /\ \A p, x : Matches(p, x) => Matches(p, x)'
      /\ Reached' = Reached /\ Frames \subseteq Frames'
      /\ \A call \in Frames : Of(call)' = Of(call) /\ Aim(call)' = Aim(call)
  BY <1>5, Grown
<1>7. CopiesOK'
  <2>1. halfedges' \in Vectors(HalfItems(ToHalf, ToFace)') /\ faces' \in Vectors(FaceItems(ToHalf)')
    <3>1. halfedges \in Vectors(HalfItems(ToHalf, ToFace))
      BY DEF Inv, CopiesOK
    <3> QED
      BY <3>1, <1>1, <1>4, <1>6 DEF Vectors
  <2>2. /\ DOMAIN halfedgemap' \subseteq graph'.halves /\ DOMAIN facemap' \subseteq graph'.faces
        /\ Filled(halfedges, H, Cardinality(DOMAIN halfedgemap))'
        /\ Filled(faces, F, Cardinality(DOMAIN facemap))'
    BY <1>1, <1>4, <1>6 DEF Inv, CopiesOK, Filled
  <2>3. /\ \A i \in 1 .. H : halfedges'.item[i] = BlankHalfedge
        /\ \A i \in 1 .. F : faces'.item[i] = BlankFace
    BY <1>1, <1>4 DEF Inv, CopiesOK
  <2>4. /\ \A i \in H + 1 .. Len(halfedges'.item) : halfedges'.item[i].of \in DOMAIN halfedgemap'
        /\ \A i \in F + 1 .. Len(faces'.item) : faces'.item[i].of \in DOMAIN facemap'
    BY <1>1, <1>4, Lengths DEF Inv, CopiesOK
  <2>5. /\ \A h \in DOMAIN halfedgemap' : IsCopy(halfedgemap[h], h)'
        /\ \A f \in DOMAIN facemap' : IsCopy(facemap[f], f)'
    <3>1. PICK a, b : a = halfedgemap /\ b = facemap
      OBVIOUS
    <3>2. /\ \A h \in DOMAIN a : IsCopy(a[h], h)'
          /\ \A f \in DOMAIN b : IsCopy(b[f], f)'
      BY <3>1, <1>6 DEF Inv, CopiesOK
    <3> QED
      BY <3>1, <3>2, <1>1 DEF IsCopy
  <2> QED
    BY <2>1, <2>2, <2>3, <2>4, <2>5, <1>6 DEF CopiesOK
<1>8. /\ stack' \in Seq(Frames) /\ Len(stack') = n - 1
      /\ \A k \in 1 .. n - 1 : stack'[k] = stack[k] /\ stack[k] \in Frames
      /\ DOMAIN stack' = 1 .. n - 1 /\ DOMAIN stack = 1 .. n
  <2>1. /\ Front(stack) \in Seq(Frames) /\ Len(Front(stack)) = n - 1 /\ DOMAIN Front(stack) = 1 .. n - 1
        /\ \A k \in 1 .. n - 1 : Front(stack)[k] = stack[k]
    BY <1>2, FrontFacts
  <2>2. DOMAIN stack = 1 .. n /\ \A k \in 1 .. n - 1 : stack[k] \in Frames
    BY <1>2
  <2> QED
    BY <2>1, <2>2, <1>1, Zenon
<1>9. PICK p, s : p = [at |-> 1, i |-> i0] /\ s = stack
  OBVIOUS
<1>10. ret' = p /\ IsCopy(p, Of(Top))
  <2>1. CASE Top.kind = "face"
    <3>1. Top \in FaceFrames /\ Of(Top) \in graph.faces /\ faces.at = 1
      BY <1>1, <2>1, TopFacts DEF Inv, CopiesOK
    <3>2. p \in ToFace /\ p.i = i0
      BY <3>1, <1>9 DEF FaceFrames, ToFace, To
    <3> QED
      BY <2>1, <3>1, <3>2, <1>1, <1>9 DEF IsCopy, Of
  <2>2. CASE Top.kind # "face"
    <3>1. Top \in HalfFrames /\ Of(Top) \in graph.halves /\ halfedges.at = 1
      BY <1>1, <2>2, TopFacts DEF Inv, CopiesOK
    <3>2. p \in ToHalf /\ p.i = i0
      BY <3>1, <1>9 DEF HalfFrames, ToHalf, To
    <3> QED
      BY <2>2, <3>1, <3>2, <1>1, <1>9 DEF IsCopy, Of
  <2> QED
    BY <2>1, <2>2
<1>11. \A k \in 1 .. n - 1 : /\ s[k].left # <<>> /\ Aim(s[k]) = Of(s[k + 1])
                             /\ Aim(s[k])' = Aim(s[k]) /\ Of(s[k + 1])' = Of(s[k + 1])
  <2>1. \A k \in 1 .. n - 1 : s[k].left # <<>> /\ Aim(s[k]) = Of(s[k + 1])
    BY <1>9 DEF Inv, CallsOK
  <2>2. \A k \in 1 .. n - 1 : k + 1 \in 1 .. n /\ k \in 1 .. n
    BY <1>2
  <2>3. \A k \in 1 .. n : s[k] \in Frames
    BY <1>2, <1>9
  <2> HIDE DEF n
  <2> QED
    BY <2>1, <2>2, <2>3, <1>6
<1>12. CallsOK'
  <2>1. stack' \in Seq(Frames')
    BY <1>6, <1>8
  <2>2. \A k \in 1 .. Len(stack') - 1 : (stack[k].left # <<>>)' /\ (Aim(stack[k]) = Of(stack[k + 1]))'
    <3> TAKE k \in 1 .. Len(stack') - 1
    <3>1. k \in 1 .. n - 1 /\ k + 1 \in 1 .. n - 1
      <4>1. Len(stack') = n - 1 /\ n \in Nat \ {0}
        BY <1>2, <1>8, Zenon
      <4>2. k \in 1 .. (n - 1) - 1
        BY <4>1
      <4> HIDE DEF n
      <4> QED
        BY <4>1, <4>2
    <3>2. stack'[k] = s[k] /\ stack'[k + 1] = s[k + 1]
      BY <3>1, <1>8, <1>9, Zenon
    <3>3. s[k].left # <<>> /\ Aim(s[k])' = Of(s[k + 1])'
      BY <3>1, <1>11
    <3> QED
      BY <3>2, <3>3
  <2>3. stack' # <<>> => Top'.left # <<>> /\ IsCopy(ret, Aim(Top))'
    <3> SUFFICES ASSUME stack' # <<>> PROVE Top'.left # <<>> /\ IsCopy(ret, Aim(Top))'
      OBVIOUS
    <3>1. PICK m : m = n - 1
      OBVIOUS
    <3>2. Len(stack') = m /\ m \in 1 .. n - 1 /\ m + 1 = n
      <4>1. Len(stack') # 0 /\ Len(stack') = m
        BY <1>8, <3>1
      <4> QED
        BY <4>1, <1>2, <3>1
    <3>3. Top' = s[m]
      <4>1. stack'[m] = stack[m]
        BY <3>2, <1>8, Zenon
      <4>2. Top' = stack'[m]
        BY <3>2, Zenon DEF Top, Last
      <4> QED
        BY <4>1, <4>2, <1>9, Zenon
    <3>4. s[m].left # <<>> /\ Aim(s[m])' = Of(s[m + 1])
      BY <3>2, <1>11
    <3>5. s[m + 1] = Top
      BY <3>2, <1>2, <1>9, Zenon
    <3>6. PICK x : x = Aim(s[m])'
      OBVIOUS
    <3>7. IsCopy(p, x)'
      <4>1. IsCopy(p, x)
        BY <3>4, <3>5, <3>6, <1>10, Zenon
      <4> QED
        BY <4>1, <1>6, Zenon
    <3>8. Aim(Top)' = x
      BY <3>3, <3>6, Zenon DEF Aim, Of
    <3> QED
      BY <3>3, <3>4, <3>7, <3>8, <1>10, Zenon DEF IsCopy
  <2>4. stage' # "convert" => stack' = <<>>
    BY <1>1, <1>8
  <2> QED
    BY <2>1, <2>2, <2>3, <2>4, <1>1 DEF CallsOK
<1>13. \A kind, i, field : Pending(kind, i, field) => Pending(kind, i, field)'
  <2> SUFFICES ASSUME NEW kind, NEW i, NEW field, Pending(kind, i, field)
               PROVE  Pending(kind, i, field)'
    OBVIOUS
  <2>1. PICK k \in DOMAIN stack : /\ stack[k].kind = kind /\ stack[k].i = i
                                  /\ Holds(stack[k].left, field)
    BY DEF Pending
  <2>2. k # n
    <3>1. ~Holds(Top.left, field)
      BY <1>1 DEF Holds
    <3> QED
      BY <2>1, <3>1, <1>2, Zenon
  <2>3. k \in 1 .. n - 1
    <3>1. k \in 1 .. n
      BY <2>1, <1>8, Zenon
    <3> QED
      BY <2>2, <3>1, <1>2
  <2>4. k \in DOMAIN stack' /\ stack'[k] = stack[k]
    BY <2>3, <1>8, Zenon
  <2> QED
    BY <2>1, <2>4, Zenon DEF Pending
<1>14. FieldsOK'
  <2>1. ASSUME NEW i \in H' + 1 .. Len(halfedges'.item), NEW field \in EdgeFields
        PROVE  \/ Pending("halfedge", i, field)'
               \/ Matches(halfedges.item[i][field], graph[field][halfedges.item[i].of])'
    <3>1. PICK q, x : q = halfedges.item[i][field] /\ x = graph[field][halfedges.item[i].of]
      OBVIOUS
    <3>2. Pending("halfedge", i, field) \/ Matches(q, x)
      BY <3>1, <1>1, <1>6 DEF Inv, FieldsOK
    <3>3. Pending("halfedge", i, field)' \/ Matches(q, x)'
      BY <3>2, <1>6, <1>13
    <3> QED
      BY <3>1, <3>3, <1>1 DEF Matches, IsCopy
  <2>2. ASSUME NEW i \in F' + 1 .. Len(faces'.item)
        PROVE  \/ Pending("face", i, "halfedge")'
               \/ Matches(faces.item[i].halfedge, graph.edge[faces.item[i].of])'
    <3>1. i \in F + 1 .. Len(faces.item) /\ i \in 1 .. Len(faces.item)
      BY <1>4, <1>6, Lengths
    <3>2. PICK q, x : q = faces.item[i].halfedge /\ x = graph.edge[faces.item[i].of]
      OBVIOUS
    <3>3. q = faces'.item[i].halfedge /\ x = graph'.edge[faces'.item[i].of]
      BY <3>1, <3>2, <1>1, <1>4
    <3>4. Pending("face", i, "halfedge") \/ Matches(q, x)
      BY <3>1, <3>2 DEF Inv, FieldsOK
    <3>5. Pending("face", i, "halfedge")' \/ Matches(q, x)'
      BY <3>4, <1>6, <1>13
    <3> QED
      BY <3>3, <3>5 DEF Matches, IsCopy
  <2> QED
    BY <2>1, <2>2 DEF FieldsOK
<1>15. graph'.first \in DOMAIN facemap' /\ Copied' \subseteq Reached'
  BY <1>1, <1>6 DEF Inv, Copied
<1> QED
  BY <1>1, <1>3, <1>7, <1>12, <1>14, <1>15 DEF Inv

\* The relaxation reads the copy and leaves it as it is.
LEMMA OthersKeep ==
  ASSUME Inv, Stays \/ Begin \/ Around \/ Done \/ Finished \/ UNCHANGED voronoiVars
  PROVE  Inv'
<1>1. UNCHANGED <<graph, copyVars>>
  BY DEF Stays, Begin, Around, Done, Finished, voronoiVars
<1>2. \/ stage' = stage /\ outcome' = outcome
      \/ stage # "convert" /\ stage' # "convert"
  BY DEF Stays, Begin, Around, Done, Finished, voronoiVars, AtFace, Running
<1>3. CopiesOK' /\ FieldsOK' /\ Copied' = Copied /\ Reached' = Reached
  <2>1. H' = H /\ F' = F /\ ToHalf' = ToHalf /\ ToFace' = ToFace
    BY <1>1 DEF H, F, ToHalf, ToFace, To, copyVars
  <2>2. \A p, x : IsCopy(p, x)' <=> IsCopy(p, x)
    BY <1>1, <2>1 DEF IsCopy, copyVars
  <2>3. CopiesOK'
    BY <1>1 DEF Inv, CopiesOK, copyVars, H, F, ToHalf, ToFace, To, IsCopy, HalfItems, FaceItems
  <2>4. FieldsOK'
    BY <1>1 DEF Inv, FieldsOK, copyVars, H, F, ToHalf, ToFace, To, Pending, Matches, IsCopy
  <2>5. Copied' = Copied /\ Reached' = Reached
    BY <1>1 DEF Copied, Reached, copyVars
  <2> QED
    BY <2>3, <2>4, <2>5
<1>4. CallsOK'
  <2>1. Frames' = Frames
    BY <1>1 DEF copyVars, Frames, FaceFrames, HalfFrames, H, F
  <2>2. \A call : Of(call)' = Of(call) /\ Aim(call)' = Aim(call)
    BY <1>1, Zenon DEF copyVars, Of, Aim
  <2>3. /\ Top' = Top
        /\ ret # Null /\ stack # <<>> => IsCopy(ret, Aim(Top))'
    BY <1>1 DEF Inv, CallsOK, copyVars, Top, Aim, Of, IsCopy, H, F, ToHalf, ToFace, To
  <2>4. stack' = stack /\ ret' = ret
    BY <1>1 DEF copyVars
  <2>5. \A k \in 1 .. Len(stack') - 1 : (stack[k].left # <<>>)' /\ (Aim(stack[k]) = Of(stack[k + 1]))'
    BY <1>1 DEF Inv, CallsOK, copyVars, Aim, Of
  <2> QED
    BY <1>2, <2>1, <2>3, <2>4, <2>5 DEF Inv, CallsOK
<1> QED
  BY <1>1, <1>3, <1>4 DEF Inv, copyVars

\* The conversion starts in the invariant.
LEMMA Initial ==
  ASSUME VoronoiInit
  PROVE  Inv
<1> DEFINE f == graph.first
           x == [BlankFace EXCEPT !.of = f]
           v == Resized(F, BlankFace)
           call == [kind |-> "face", i |-> Len(faces.item), at |-> Null, left |-> <<"halfedge">>]
<1>1. /\ graph \in Diagrams
      /\ halfedges = Resized(H, BlankHalfedge) /\ faces = PushBack(v, x)
      /\ halfedgemap = [h \in {} |-> Null] /\ facemap = [e \in {f} |-> Last1(faces)]
      /\ stack = <<call>> /\ ret = Null /\ stage = "convert" /\ outcome = "running"
  BY DEF VoronoiInit, H, F
<1>2. H \in Nat /\ F \in Nat /\ f \in graph.faces
  BY <1>1, GraphFacts
<1>3. F > 0
  <2>1. graph.faces # {} /\ IsFiniteSet(graph.faces)
    BY <1>1, <1>2, GraphFacts
  <2>2. Cardinality(graph.faces) # 0
    BY <2>1, FS_EmptySet
  <2> QED
    BY <2>2, <1>2 DEF F
<1>4. DOMAIN halfedgemap = {} /\ DOMAIN facemap = {f}
  BY <1>1
<1>5. Cardinality(DOMAIN halfedgemap) = 0 /\ Cardinality(DOMAIN facemap) = 1
  <2>1. Cardinality({}) = 0 /\ Cardinality({f}) = 1
    BY FS_EmptySet, FS_Singleton
  <2> QED
    BY <2>1, <1>4, Zenon
<1>6. /\ halfedges \in Vectors(HalfItems(ToHalf, ToFace)) /\ Filled(halfedges, H, 0)
      /\ Len(halfedges.item) = H /\ \A i \in 1 .. H : halfedges.item[i] = BlankHalfedge
  <2>1. \A half, face : BlankHalfedge \in HalfItems(half, face)
    BY DEF BlankHalfedge, HalfItems
  <2>2. PICK items : items = HalfItems(ToHalf, ToFace)
    OBVIOUS
  <2>3. BlankHalfedge \in items
    BY <2>1, <2>2
  <2>4. [i \in 1 .. H |-> BlankHalfedge] \in Seq(items) /\ Len([i \in 1 .. H |-> BlankHalfedge]) = H
    BY <1>2, <2>3
  <2>5. /\ halfedges.item = [i \in 1 .. H |-> BlankHalfedge] /\ halfedges.at = 0 /\ halfedges.room = H
        /\ halfedges = [at |-> 0, room |-> H, item |-> [i \in 1 .. H |-> BlankHalfedge]]
    BY <1>1 DEF Resized
  <2>6. halfedges \in Vectors(items)
    BY <2>4, <2>5, <1>2 DEF Vectors
  <2> QED
    BY <2>2, <2>4, <2>5, <2>6, <1>2 DEF Filled
<1>7. /\ faces \in Vectors(FaceItems(ToHalf)) /\ Filled(faces, F, 1) /\ faces.at = 1
      /\ Len(faces.item) = F + 1 /\ faces.item[F + 1] = x
      /\ \A i \in 1 .. F : faces.item[i] = BlankFace
  <2>1. PICK items : items = FaceItems(ToHalf)
    OBVIOUS
  <2>2. BlankFace \in items /\ x \in items
    BY <2>1, <1>2 DEF BlankFace, FaceItems
  <2>3. [i \in 1 .. F |-> BlankFace] \in Seq(items) /\ Len([i \in 1 .. F |-> BlankFace]) = F
    BY <1>2, <2>2
  <2>4. /\ v.item = [i \in 1 .. F |-> BlankFace] /\ v.at = 0 /\ v.room = F
        /\ v = [at |-> 0, room |-> F, item |-> [i \in 1 .. F |-> BlankFace]]
    BY DEF Resized
  <2>5. v \in Vectors(items) /\ Filled(v, F, 0)
    BY <2>3, <2>4, <1>2 DEF Vectors, Filled
  <2>6. Len(v.item) = F /\ \A i \in 1 .. F : v.item[i] = BlankFace
    BY <2>3, <2>4
  <2> HIDE DEF v, x
  <2> DEFINE w == PushBack(v, x)
  <2>7. /\ w \in Vectors(items) /\ Filled(w, F, 0 + 1) /\ w.at = 1
        /\ Len(w.item) = Len(v.item) + 1
        /\ \A i \in 1 .. Len(v.item) : i \in 1 .. Len(w.item) /\ w.item[i] = v.item[i]
        /\ w.item[Len(w.item)] = x
    BY <1>2, <1>3, <2>2, <2>5, Pushed
  <2>8. w = faces /\ 0 + 1 = 1
    BY <1>1
  <2> HIDE DEF w
  <2> QED
    BY <2>1, <2>6, <2>7, <2>8
<1>8. x.of = f
  BY DEF BlankFace
<1>9. IsCopy(Last1(faces), f)
  <2>1. Last1(faces) \in ToFace /\ Last1(faces).i = F + 1
    BY <1>2, <1>7 DEF Last1, ToFace, To
  <2> HIDE DEF x
  <2> QED
    BY <2>1, <1>2, <1>7, <1>8 DEF IsCopy
<1> HIDE DEF x
<1>10. CopiesOK
  <2>1. /\ \A h \in DOMAIN halfedgemap : IsCopy(halfedgemap[h], h)
        /\ \A e \in DOMAIN facemap : IsCopy(facemap[e], e)
    BY <1>1, <1>4, <1>9
  <2>2. \A i \in F + 1 .. Len(faces.item) : faces.item[i].of \in DOMAIN facemap
    BY <1>2, <1>4, <1>7, <1>8
  <2>3. \A i \in H + 1 .. Len(halfedges.item) : halfedges.item[i].of \in DOMAIN halfedgemap
    BY <1>2, <1>6
  <2> QED
    BY <2>1, <2>2, <2>3, <1>2, <1>4, <1>5, <1>6, <1>7 DEF CopiesOK
<1>11. call \in Frames
  BY <1>2, <1>7 DEF Frames, FaceFrames
<1>12. Len(stack) = 1 /\ stack[1] = call /\ DOMAIN stack = {1}
  BY <1>1
<1>13. CallsOK
  <2>1. PICK c : c = call
    OBVIOUS
  <2>2. stack = <<c>> /\ c \in Frames
    BY <1>1, <1>11, <2>1
  <2>3. stack \in Seq(Frames)
    BY <2>2
  <2>4. \A k \in 1 .. Len(stack) - 1 : FALSE
    BY <1>12
  <2> QED
    BY <2>3, <2>4, <1>1 DEF CallsOK
<1>14. FieldsOK
  <2>1. Pending("face", F + 1, "halfedge")
    <3>1. Len(<<"halfedge">>) = 1 /\ <<"halfedge">> \in Seq({"halfedge"}) /\ <<"halfedge">>[1] = "halfedge"
      OBVIOUS
    <3>2. Holds(<<"halfedge">>, "halfedge")
      BY <3>1 DEF Holds
    <3>3. call.kind = "face" /\ call.i = F + 1 /\ call.left = <<"halfedge">>
      BY <1>7
    <3> QED
      BY <3>2, <3>3, <1>12 DEF Pending
  <2>2. \A i \in F + 1 .. Len(faces.item) : i = F + 1
    BY <1>2, <1>7
  <2>3. \A i \in H + 1 .. Len(halfedges.item) : FALSE
    BY <1>2, <1>6
  <2> QED
    BY <2>1, <2>2, <2>3 DEF FieldsOK
<1>15. f \in DOMAIN facemap /\ Copied \subseteq Reached
  BY <1>1, <1>4, ReachedFacts DEF Copied
<1> QED
  BY <1>1, <1>10, <1>13, <1>14, <1>15 DEF Inv

-----------------------------------------------------------------------------
(* What holds of every run.                                                *)

\* The invariant holds of every run.
THEOREM Invariant == VoronoiSpec => []Inv
<1>1. VoronoiInit => Inv
  BY Initial
<1>2. ASSUME Inv, [VoronoiNext]_voronoiVars PROVE Inv'
  BY <1>2, KnownKeeps, ConvertHalfedgeKeeps, ConvertFaceKeeps, StoreKeeps, ReturnKeeps, OthersKeep
     DEF VoronoiNext
<1> QED
  BY <1>1, <1>2, PTL DEF VoronoiSpec

\* A copy behind the blanks is where a pointer to it says.
LEMMA CopyLeads ==
  ASSUME Inv
  PROVE  /\ \A p \in ToHalf : LeadsTo(halfedges, p)
         /\ \A p \in ToFace : LeadsTo(faces, p)
<1>1. ASSUME NEW p \in ToHalf PROVE LeadsTo(halfedges, p)
  <2>1. p.at = 1 /\ p.i \in H + 1 .. Len(halfedges.item)
    BY DEF ToHalf, To
  <2> QED
    BY <2>1, Lengths DEF LeadsTo
<1>2. ASSUME NEW p \in ToFace PROVE LeadsTo(faces, p)
  <2>1. p.at = 1 /\ p.i \in F + 1 .. Len(faces.item)
    BY DEF ToFace, To
  <2> QED
    BY <2>1, Lengths DEF LeadsTo
<1> QED
  BY <1>1, <1>2

\* Whatever the diagram, the order of evaluation and the growth of a vector:
\* no pointer that is kept while the vectors move leads into a block that was
\* given back, and each map knows where its copies are.
THEOREM PointersKept == VoronoiSpec => []PointersLead
<1>1. ASSUME Inv PROVE PointersLead
  <2>1. stage = "convert" => outcome = "running"
    BY <1>1 DEF Inv, CallsOK
  <2>2. \A h \in DOMAIN halfedgemap :
          LeadsTo(halfedges, halfedgemap[h]) /\ halfedges.item[halfedgemap[h].i].of = h
    <3> TAKE h \in DOMAIN halfedgemap
    <3>1. IsCopy(halfedgemap[h], h) /\ h \in graph.halves
      BY <1>1 DEF Inv, CopiesOK
    <3>2. h \notin graph.faces
      BY <1>1, <3>1, GraphFacts DEF Inv
    <3>3. halfedgemap[h] \in ToHalf /\ halfedges.item[halfedgemap[h].i].of = h
      BY <3>1, <3>2 DEF IsCopy
    <3> QED
      BY <1>1, <3>3, CopyLeads
  <2>3. \A f \in DOMAIN facemap :
          LeadsTo(faces, facemap[f]) /\ faces.item[facemap[f].i].of = f
    <3> TAKE f \in DOMAIN facemap
    <3>1. IsCopy(facemap[f], f) /\ f \in graph.faces
      BY <1>1 DEF Inv, CopiesOK
    <3>2. f \notin graph.halves
      BY <1>1, <3>1, GraphFacts DEF Inv
    <3>3. facemap[f] \in ToFace /\ faces.item[facemap[f].i].of = f
      BY <3>1, <3>2 DEF IsCopy
    <3> QED
      BY <1>1, <3>3, CopyLeads
  <2>4. /\ \A i \in DOMAIN halfedges.item :
             halfedges.item[i] \in HalfItems(ToHalf, ToFace)
        /\ \A i \in DOMAIN faces.item : faces.item[i] \in FaceItems(ToHalf)
    BY <1>1, Lengths
  <2>5. PICK half, face : half = ToHalf /\ face = ToFace
    OBVIOUS
  <2>6. /\ \A x \in HalfItems(half, face) :
             /\ x.twin \in half \cup {Null} /\ x.prev \in half \cup {Null}
             /\ x.next \in half \cup {Null} /\ x.face \in face \cup {Null}
        /\ \A x \in FaceItems(half) : x.halfedge \in half \cup {Null}
    BY DEF HalfItems, FaceItems
  <2>7. /\ \A field \in {"twin", "prev", "next"} : Pointers(halfedges, field) \subseteq half
        /\ Pointers(halfedges, "face") \subseteq face
        /\ Pointers(faces, "halfedge") \subseteq half
    BY <2>4, <2>5, <2>6 DEF Pointers
  <2> QED
    BY <1>1, <2>1, <2>2, <2>3, <2>5, <2>7, CopyLeads DEF PointersLead
<1> QED
  BY <1>1, Invariant, PTL

-----------------------------------------------------------------------------
(* When the conversion is over.                                            *)

\* Every field of every copy points at the copy of what the field of the
\* original leads to, so nothing that can be reached is left out.
LEMMA AllMatch ==
  ASSUME Inv, stage # "convert"
  PROVE  /\ \A i \in H + 1 .. Len(halfedges.item), field \in EdgeFields :
              Matches(halfedges.item[i][field], graph[field][halfedges.item[i].of])
         /\ \A i \in F + 1 .. Len(faces.item) :
              Matches(faces.item[i].halfedge, graph.edge[faces.item[i].of])
<1>1. stack = <<>>
  BY DEF Inv, CallsOK
<1>2. DOMAIN stack = {}
  BY <1>1
<1>3. \A kind, i, field : ~Pending(kind, i, field)
  BY <1>2, Zenon DEF Pending
<1> QED
  BY <1>3 DEF Inv, FieldsOK

\* When no call is left, everything that the first face leads to is copied.
LEMMA AllCopied ==
  ASSUME Inv, stage # "convert"
  PROVE  Copied = Reached
<1>1. graph \in Diagrams /\ graph.first \in Copied /\ Copied \subseteq Reached
  BY DEF Inv, Copied
<1>2. ASSUME NEW p, NEW x, x # Null, Matches(p, x) PROVE x \in Copied
  <2>1. IsCopy(p, x)
    BY <1>2 DEF Matches
  <2> QED
    BY <2>1 DEF IsCopy, ToHalf, ToFace, To, Copied, Inv, CopiesOK
<1>3. ASSUME NEW f \in Copied \cap graph.faces PROVE graph.edge[f] \in Copied
  <2>1. f \in DOMAIN facemap
    BY <1>1, <1>3, GraphFacts DEF Copied, Inv, CopiesOK
  <2>2. IsCopy(facemap[f], f) /\ f \notin graph.halves
    BY <1>1, <1>3, <2>1, GraphFacts DEF Inv, CopiesOK
  <2>3. PICK i \in F + 1 .. Len(faces.item) : faces.item[i].of = f
    BY <2>2 DEF IsCopy, ToFace, To
  <2>4. Matches(faces.item[i].halfedge, graph.edge[f])
    BY <2>3, AllMatch
  <2>5. graph.edge[f] # Null
    BY <1>1, <1>3, GraphFacts
  <2> QED
    BY <1>2, <2>4, <2>5
<1>4. ASSUME NEW h \in Copied \cap graph.halves, NEW field \in EdgeFields, graph[field][h] # Null
      PROVE  graph[field][h] \in Copied
  <2>1. h \in DOMAIN halfedgemap
    BY <1>1, <1>4, GraphFacts DEF Copied, Inv, CopiesOK
  <2>2. IsCopy(halfedgemap[h], h) /\ h \notin graph.faces
    BY <1>1, <1>4, <2>1, GraphFacts DEF Inv, CopiesOK
  <2>3. PICK i \in H + 1 .. Len(halfedges.item) : halfedges.item[i].of = h
    BY <2>2 DEF IsCopy, ToHalf, To
  <2>4. Matches(halfedges.item[i][field], graph[field][h])
    BY <2>3, AllMatch
  <2> QED
    BY <1>2, <1>4, <2>4
<1>5. \A h \in Copied \cap graph.halves :
        {graph.twin[h], graph.face[h], graph.next[h], graph.prev[h]} \ {Null} \subseteq Copied
  <2>1. \A h \in Copied \cap graph.halves : /\ graph.twin[h] # Null => graph.twin[h] \in Copied
                                            /\ graph.face[h] # Null => graph.face[h] \in Copied
                                            /\ graph.next[h] # Null => graph.next[h] \in Copied
                                            /\ graph.prev[h] # Null => graph.prev[h] \in Copied
    BY <1>4 DEF EdgeFields
  <2> QED
    BY <2>1
<1>6. Beside(graph, Copied) \subseteq Copied
  BY <1>3, <1>5 DEF Beside
<1> QED
  BY <1>1, <1>6, ReachedFacts

\* The copies lie behind the blanks.
LEMMA CopiesBehind ==
  ASSUME Inv
  PROVE  /\ Copies(faces) = F + 1 .. Len(faces.item)
         /\ Copies(halfedges) = H + 1 .. Len(halfedges.item)
<1>1. /\ F \in Nat /\ Len(faces.item) \in Nat /\ F <= Len(faces.item)
      /\ H \in Nat /\ Len(halfedges.item) \in Nat /\ H <= Len(halfedges.item)
      /\ DOMAIN faces.item = 1 .. Len(faces.item)
      /\ DOMAIN halfedges.item = 1 .. Len(halfedges.item)
  BY Lengths
<1>2. Blank \notin graph.faces \cup graph.halves
  BY RingAssumption DEF Inv
<1>3. /\ \A i \in 1 .. F : faces.item[i].of = Blank
      /\ \A i \in 1 .. H : halfedges.item[i].of = Blank
  BY DEF Inv, CopiesOK, BlankFace, BlankHalfedge
<1>4. /\ \A i \in F + 1 .. Len(faces.item) : faces.item[i].of \in graph.faces
      /\ \A i \in H + 1 .. Len(halfedges.item) : halfedges.item[i].of \in graph.halves
  BY DEF Inv, CopiesOK
<1>5. Copies(faces) = F + 1 .. Len(faces.item)
  BY <1>1, <1>2, <1>3, <1>4 DEF Copies
<1>6. Copies(halfedges) = H + 1 .. Len(halfedges.item)
  BY <1>1, <1>2, <1>3, <1>4 DEF Copies
<1> QED
  BY <1>5, <1>6

\* No halfedge is copied twice: there are as many copies as halfedges copied.
LEMMA CopiedOnce ==
  ASSUME Inv, NEW p \in H + 1 .. Len(halfedges.item), NEW q \in H + 1 .. Len(halfedges.item),
         halfedges.item[p].of = halfedges.item[q].of
  PROVE  p = q
<1> DEFINE n == Len(halfedges.item)
           I == H + 1 .. n
           D == DOMAIN halfedgemap
           f == [i \in I |-> halfedges.item[i].of]
<1>1. H \in Nat /\ n \in Nat /\ H <= n /\ IsFiniteSet(D) /\ Cardinality(D) \in Nat
  BY Lengths
<1>2. Cardinality(D) = n - H
  BY <1>1 DEF Inv, CopiesOK, Filled
<1>3. IsFiniteSet(I) /\ Cardinality(I) = n - H
  <2>1. H + 1 \in Int /\ n \in Int
    BY <1>1
  <2>2. IsFiniteSet(I) /\ Cardinality(I) = IF H + 1 > n THEN 0 ELSE n - (H + 1) + 1
    BY <2>1, FS_Interval
  <2> QED
    BY <2>2, <1>1
<1>4. f \in [I -> D]
  BY DEF Inv, CopiesOK
<1>5. ASSUME NEW h \in D PROVE \E i \in I : f[i] = h
  <2>1. IsCopy(halfedgemap[h], h) /\ h \in graph.halves /\ h \notin graph.faces
    BY GraphFacts DEF Inv, CopiesOK
  <2> QED
    BY <2>1 DEF IsCopy, ToHalf, To
<1>6. f \in Surjection(I, D)
  BY <1>4, <1>5 DEF Surjection
<1> HIDE DEF f, I, D
<1>7. f \in Injection(I, D)
  <2>1. Cardinality(I) = Cardinality(D)
    BY <1>2, <1>3
  <2> QED
    BY <2>1, <1>3, <1>6, FS_SurjSameCardinalityImpliesInj
<1>8. \A i, j \in I : f[i] = f[j] => i = j
  BY <1>7 DEF Injection, IsInjective
<1>9. p \in I /\ q \in I
  BY DEF I
<1> QED
  BY <1>8, <1>9 DEF f

\* Nor is a face.
LEMMA FaceCopiedOnce ==
  ASSUME Inv, NEW p \in F + 1 .. Len(faces.item), NEW q \in F + 1 .. Len(faces.item),
         faces.item[p].of = faces.item[q].of
  PROVE  p = q
<1> DEFINE n == Len(faces.item)
           I == F + 1 .. n
           D == DOMAIN facemap
           f == [i \in I |-> faces.item[i].of]
<1>1. F \in Nat /\ n \in Nat /\ F <= n /\ IsFiniteSet(D) /\ Cardinality(D) \in Nat
  BY Lengths
<1>2. Cardinality(D) = n - F
  BY <1>1 DEF Inv, CopiesOK, Filled
<1>3. IsFiniteSet(I) /\ Cardinality(I) = n - F
  <2>1. F + 1 \in Int /\ n \in Int
    BY <1>1
  <2>2. IsFiniteSet(I) /\ Cardinality(I) = IF F + 1 > n THEN 0 ELSE n - (F + 1) + 1
    BY <2>1, FS_Interval
  <2> QED
    BY <2>2, <1>1
<1>4. f \in [I -> D]
  BY DEF Inv, CopiesOK
<1>5. ASSUME NEW h \in D PROVE \E i \in I : f[i] = h
  <2>1. IsCopy(facemap[h], h) /\ h \in graph.faces /\ h \notin graph.halves
    BY GraphFacts DEF Inv, CopiesOK
  <2> QED
    BY <2>1 DEF IsCopy, ToFace, To
<1>6. f \in Surjection(I, D)
  BY <1>4, <1>5 DEF Surjection
<1> HIDE DEF f, I, D
<1>7. f \in Injection(I, D)
  <2>1. Cardinality(I) = Cardinality(D)
    BY <1>2, <1>3
  <2> QED
    BY <2>1, <1>3, <1>6, FS_SurjSameCardinalityImpliesInj
<1>8. \A i, j \in I : f[i] = f[j] => i = j
  BY <1>7 DEF Injection, IsInjective
<1>9. p \in I /\ q \in I
  BY DEF I
<1> QED
  BY <1>8, <1>9 DEF f

\* Whatever the diagram, the order of evaluation and the growth of a vector:
\* when voronoi_new is done it has copied no face or halfedge twice, the copies
\* point at each other as the originals do, and if any edge has a next one
\* nothing of the diagram is left out.
THEOREM CopyIsDiagram == VoronoiSpec => []DiagramCopied
<1>1. ASSUME Inv PROVE DiagramCopied
  <2> SUFFICES ASSUME stage # "convert" PROVE DiagramCopied
    BY DEF DiagramCopied
  <2>1. graph \in Diagrams
    BY <1>1 DEF Inv
  <2>2. DOMAIN halfedgemap = Reached \cap graph.halves /\ DOMAIN facemap = Reached \cap graph.faces
    <3>1. DOMAIN halfedgemap \subseteq graph.halves /\ DOMAIN facemap \subseteq graph.faces
      BY <1>1 DEF Inv, CopiesOK
    <3>2. graph.halves \cap graph.faces = {}
      BY <2>1, GraphFacts
    <3>3. DOMAIN halfedgemap \cup DOMAIN facemap = Reached
      BY <1>1, AllCopied DEF Copied
    <3> QED
      BY <3>1, <3>2, <3>3
  <2>3. Copies(faces) = F + 1 .. Len(faces.item) /\ Copies(halfedges) = H + 1 .. Len(halfedges.item)
    BY <1>1, CopiesBehind
  <2>4. {faces.item[i].of : i \in F + 1 .. Len(faces.item)} = Reached \cap graph.faces
    <3>1. \A i \in F + 1 .. Len(faces.item) : faces.item[i].of \in DOMAIN facemap
      BY <1>1 DEF Inv, CopiesOK
    <3>2. ASSUME NEW f \in DOMAIN facemap PROVE \E i \in F + 1 .. Len(faces.item) : faces.item[i].of = f
      <4>1. IsCopy(facemap[f], f) /\ f \notin graph.halves
        BY <1>1, <2>1, GraphFacts DEF Inv, CopiesOK
      <4> QED
        BY <4>1 DEF IsCopy, ToFace, To
    <3>3. {faces.item[i].of : i \in F + 1 .. Len(faces.item)} = DOMAIN facemap
      BY <3>1, <3>2
    <3> QED
      BY <2>2, <3>3, Zenon
  <2>5. {halfedges.item[i].of : i \in H + 1 .. Len(halfedges.item)} = Reached \cap graph.halves
    <3>1. \A i \in H + 1 .. Len(halfedges.item) : halfedges.item[i].of \in DOMAIN halfedgemap
      BY <1>1 DEF Inv, CopiesOK
    <3>2. ASSUME NEW h \in DOMAIN halfedgemap
          PROVE  \E i \in H + 1 .. Len(halfedges.item) : halfedges.item[i].of = h
      <4>1. IsCopy(halfedgemap[h], h) /\ h \notin graph.faces
        BY <1>1, <2>1, GraphFacts DEF Inv, CopiesOK
      <4> QED
        BY <4>1 DEF IsCopy, ToHalf, To
    <3>3. {halfedges.item[i].of : i \in H + 1 .. Len(halfedges.item)} = DOMAIN halfedgemap
      BY <3>1, <3>2
    <3> QED
      BY <2>2, <3>3, Zenon
  <2> DEFINE Same(v, p, x) == IF x = Null THEN p = Null ELSE p # Null /\ v.item[p.i].of = x
  <2>6. /\ \A p, x : x \in graph.halves \cup {Null} /\ Matches(p, x) => Same(halfedges, p, x)
        /\ \A p, x : x \in graph.faces /\ Matches(p, x) => Same(faces, p, x)
    BY <2>1, GraphFacts DEF Matches, IsCopy
  <2>7. \A i \in Copies(faces) :
          Same(halfedges, faces.item[i].halfedge, graph.edge[faces.item[i].of])
    <3> TAKE i \in Copies(faces)
    <3>5. i \in F + 1 .. Len(faces.item)
      BY <2>3
    <3>1. Matches(faces.item[i].halfedge, graph.edge[faces.item[i].of])
      BY <1>1, <3>5, AllMatch
    <3>2. faces.item[i].of \in graph.faces
      BY <1>1, <3>5 DEF Inv, CopiesOK
    <3>3. graph.edge[faces.item[i].of] \in graph.halves
      BY <2>1, <3>2, GraphFacts
    <3> HIDE DEF Same
    <3> QED
      BY <2>6, <3>1, <3>3
  <2>8. ASSUME NEW i \in Copies(halfedges)
        PROVE  LET x == halfedges.item[i]
               IN  /\ Same(halfedges, x.twin, graph.twin[x.of])
                   /\ Same(faces, x.face, graph.face[x.of])
                   /\ Same(halfedges, x.prev, graph.prev[x.of])
                   /\ Same(halfedges, x.next, graph.next[x.of])
    <3>1. PICK x : x = halfedges.item[i]
      OBVIOUS
    <3>6. i \in H + 1 .. Len(halfedges.item)
      BY <2>3
    <3>2. \A field \in EdgeFields : Matches(x[field], graph[field][x.of])
      BY <1>1, <3>1, <3>6, AllMatch
    <3>3. /\ Matches(x.twin, graph.twin[x.of]) /\ Matches(x.face, graph.face[x.of])
          /\ Matches(x.prev, graph.prev[x.of]) /\ Matches(x.next, graph.next[x.of])
      BY <3>2 DEF EdgeFields
    <3>4. x.of \in graph.halves
      BY <1>1, <3>1, <3>6 DEF Inv, CopiesOK
    <3>5. /\ graph.twin[x.of] \in graph.halves \cup {Null} /\ graph.face[x.of] \in graph.faces
          /\ graph.prev[x.of] \in graph.halves \cup {Null}
          /\ graph.next[x.of] \in graph.halves \cup {Null}
      BY <2>1, <3>4, GraphFacts
    <3> HIDE DEF Same
    <3> QED
      BY <2>6, <3>1, <3>3, <3>5
  <2>9. ASSUME ~OnALine
        PROVE  Originals(faces) = graph.faces /\ Originals(halfedges) = graph.halves
    <3>1. \E h \in graph.halves : graph.next[h] # Null
      BY <2>9 DEF OnALine
    <3>2. Reached = graph.faces \cup graph.halves
      BY <2>1, <3>1, ConnectedAssumption, Zenon DEF Reached
    <3>3. Originals(faces) = Reached \cap graph.faces /\ Originals(halfedges) = Reached \cap graph.halves
      BY <2>3, <2>4, <2>5, Zenon DEF Originals
    <3> QED
      BY <3>2, <3>3
  <2>10. /\ \A i, j \in Copies(faces) : faces.item[i].of = faces.item[j].of => i = j
         /\ \A i, j \in Copies(halfedges) : halfedges.item[i].of = halfedges.item[j].of => i = j
    <3>1. ASSUME NEW i \in Copies(faces), NEW j \in Copies(faces), faces.item[i].of = faces.item[j].of
          PROVE  i = j
      BY <1>1, <2>3, <3>1, FaceCopiedOnce
    <3>2. ASSUME NEW i \in Copies(halfedges), NEW j \in Copies(halfedges),
                 halfedges.item[i].of = halfedges.item[j].of
          PROVE  i = j
      BY <1>1, <2>3, <3>2, CopiedOnce
    <3> QED
      BY <3>1, <3>2
  <2> QED
    BY <2>7, <2>8, <2>9, <2>10, Zenon DEF DiagramCopied
<1> QED
  BY <1>1, Invariant, PTL

-----------------------------------------------------------------------------
(* The relaxation: the walk around each face.                              *)

\* A face that is copied is known to be bounded or not once its call returns.
BoundsOK ==
  \A i \in F + 1 .. Len(faces.item) :
    \/ \E k \in DOMAIN stack : stack[k].kind = "face" /\ stack[k].i = i
    \/ faces.item[i].is_bounded = Bounded(faces.item[i].of)

\* What a site is moved to.
Averaged(to, f) ==
  IF f \in graph.faces /\ Bounded(f)
  THEN IsInjective(to.corners) /\ ToSet(to.corners) = Rim(graph, f)
  ELSE to = [site |-> f]

\* On the way around the face f the halfedges in T are behind, and h is next.
OnRim(f, h, T) ==
  /\ f \in graph.faces /\ Bounded(f)
  /\ T \subseteq Rim(graph, f) /\ h \in Rim(graph, f) /\ h \notin T
  /\ graph.edge[f] \in T \cup {h}
  /\ \A x \in T : graph.next[x] \in T \cup {h}
  /\ \A x \in T \cup {h} : x = graph.edge[f] \/ graph.prev[x] \in T

Values == {Null} \cup [site : graph.faces \cup {Blank}] \cup [corners : Seq(graph.halves)]
Walks == [i : Nat \ {0}, h : ToHalf \cup {Null}, seen : Seq(graph.halves)]

\* The place the relaxation has come to.
WalkOK ==
  /\ points \in Seq(Values) /\ walk \in Walks
  /\ walk.h = Null => walk.seen = <<>>
  /\ walk.h # Null =>
       /\ walk.i \in F + 1 .. Len(faces.item) /\ IsInjective(walk.seen)
       /\ OnRim(faces.item[walk.i].of, halfedges.item[walk.h.i].of, ToSet(walk.seen))

PointsOK ==
  /\ stage = "convert" => /\ walk.i = 1 /\ walk.h = Null
                          /\ \A i \in DOMAIN points : points[i] = Null
  /\ \A i \in DOMAIN points : points[i] # Null => Averaged(points[i], faces.item[i].of)
  /\ outcome \in {"running", "wild"}
  /\ outcome = "wild" => walk.h = Null

LloydInv == BoundsOK /\ WalkOK /\ PointsOK

\* What the assumption says of the diagram that is relaxed.
LEMMA RingFacts ==
  ASSUME graph \in Diagrams
  PROVE  /\ Blank \notin graph.faces
         /\ \A h \in graph.halves : graph.next[h] # Null =>
              graph.prev[graph.next[h]] = h /\ graph.face[graph.next[h]] = graph.face[h]
         /\ \A f \in graph.faces : \A S \in SUBSET Rim(graph, f) :
              S # {} /\ (\A h \in S : graph.next[h] \in S) => S = Rim(graph, f)
         /\ \A f \in graph.faces : graph.face[graph.edge[f]] = f
BY RingAssumption, VoronoiAssumption

-----------------------------------------------------------------------------
(* The conversion leaves a bound for each face.                            *)

\* Calls and faces stay, but for what the calls have left and for bounds that
\* are given to faces whose calls are over.
LEMMA BoundsStay ==
  ASSUME Inv, BoundsOK, graph' = graph, Len(faces'.item) \in Nat,
         \A i \in F + 1 .. Len(faces.item) :
           faces'.item[i].of = faces.item[i].of /\ faces'.item[i].is_bounded = faces.item[i].is_bounded,
         \A i \in Len(faces.item) + 1 .. Len(faces'.item) :
           \E k \in DOMAIN stack' : stack'[k].kind = "face" /\ stack'[k].i = i,
         \A k \in DOMAIN stack : k \in DOMAIN stack' /\ stack'[k].kind = stack[k].kind
                                                     /\ stack'[k].i = stack[k].i
  PROVE  BoundsOK'
<1>1. F' = F /\ F \in Nat /\ Len(faces.item) \in Nat
  BY Lengths DEF F
<1>2. \A x : Bounded(x)' <=> Bounded(x)
  BY DEF Bounded
<1>3. ASSUME NEW i \in F + 1 .. Len(faces.item)
      PROVE  \/ \E k \in DOMAIN stack' : stack'[k].kind = "face" /\ stack'[k].i = i
             \/ (faces.item[i].is_bounded = Bounded(faces.item[i].of))'
  <2>1. CASE \E k \in DOMAIN stack : stack[k].kind = "face" /\ stack[k].i = i
    BY <2>1
  <2>2. CASE faces.item[i].is_bounded = Bounded(faces.item[i].of)
    <3>1. PICK x, b : x = faces.item[i].of /\ b = faces.item[i].is_bounded
      OBVIOUS
    <3>2. faces'.item[i].of = x /\ faces'.item[i].is_bounded = b /\ b = Bounded(x)
      BY <2>2, <3>1
    <3>3. b = Bounded(x)'
      BY <3>2 DEF Bounded
    <3> QED
      BY <3>2, <3>3 DEF Bounded
  <2> QED
    BY <2>1, <2>2 DEF BoundsOK
<1>4. \A i \in F + 1 .. Len(faces'.item) :
        i \in F + 1 .. Len(faces.item) \/ i \in Len(faces.item) + 1 .. Len(faces'.item)
  BY <1>1
<1>5. \A i \in F + 1 .. Len(faces'.item) :
        \/ \E k \in DOMAIN stack' : stack'[k].kind = "face" /\ stack'[k].i = i
        \/ (faces.item[i].is_bounded = Bounded(faces.item[i].of))'
  BY <1>3, <1>4
<1> QED
  BY <1>1, <1>5 DEF BoundsOK

\* The bounds after a step, each said of the face before it.
LEMMA BoundsGiven ==
  ASSUME graph' = graph,
         \A i \in F + 1 .. Len(faces'.item) :
           \/ \E k \in DOMAIN stack' : stack'[k].kind = "face" /\ stack'[k].i = i
           \/ \E x : faces'.item[i].of = x /\ faces'.item[i].is_bounded = Bounded(x)
  PROVE  BoundsOK'
<1>1. F' = F
  BY DEF F
<1>2. ASSUME NEW i, NEW x, faces'.item[i].of = x, faces'.item[i].is_bounded = Bounded(x)
      PROVE  (faces.item[i].is_bounded = Bounded(faces.item[i].of))'
  <2>1. PICK b : b = faces'.item[i].is_bounded
    OBVIOUS
  <2>2. b = Bounded(x)'
    BY <1>2, <2>1 DEF Bounded
  <2> QED
    BY <1>2, <2>1, <2>2 DEF Bounded
<1> QED
  BY <1>1, <1>2 DEF BoundsOK

\* A call that begins, or places its field, stays in the stack.
LEMMA StackGrows ==
  ASSUME Inv, stack # <<>>, NEW call, stack' = Placed \/ stack' = Append(Placed, call)
  PROVE  /\ \A k \in DOMAIN stack : k \in DOMAIN stack' /\ stack'[k].kind = stack[k].kind
                                                       /\ stack'[k].i = stack[k].i
         /\ stack' = Append(Placed, call) => \E k \in DOMAIN stack' : stack'[k] = call
<1>1. PICK P : P = Placed
  OBVIOUS
<1>2. P \in Seq(Frames) /\ Alike(P, stack) /\ stack \in Seq(Frames)
  BY <1>1, PlacedFacts DEF Inv, CallsOK
<1>3. /\ DOMAIN P = DOMAIN stack /\ DOMAIN stack = 1 .. Len(stack)
      /\ Len(P) = Len(stack) /\ Len(stack) \in Nat
      /\ \A k \in 1 .. Len(stack) : P[k].kind = stack[k].kind /\ P[k].i = stack[k].i
  BY <1>2 DEF Alike
<1>4. CASE stack' = Placed
  <2>1. P \in Seq(Frames \cup {call})
    BY <1>2
  <2>2. Len(Append(P, call)) = Len(P) + 1
    BY <2>1
  <2>3. P # Append(P, call)
    <3>1. PICK n \in Nat : n = Len(P)
      BY <1>3
    <3> QED
      BY <3>1, <2>2
  <2>4. stack' # Append(Placed, call)
    BY <1>1, <1>4, <2>3, Zenon
  <2> QED
    BY <1>1, <1>3, <1>4, <2>4
<1>5. CASE stack' = Append(Placed, call)
  <2>1. /\ DOMAIN Append(P, call) = 1 .. Len(stack) + 1 /\ Append(P, call)[Len(stack) + 1] = call
        /\ \A k \in 1 .. Len(stack) : Append(P, call)[k] = P[k]
    BY <1>2, <1>3
  <2> QED
    BY <1>1, <1>3, <1>5, <2>1
<1> QED
  BY <1>4, <1>5

\* Every step keeps what is known of the bounds; a call that returns leaves
\* the bound of its face.
LEMMA BoundsKept ==
  ASSUME Inv, BoundsOK, [VoronoiNext]_voronoiVars
  PROVE  BoundsOK'
<1>1. Len(faces.item) \in Nat /\ F \in Nat /\ F <= Len(faces.item)
  BY Lengths
<1>2. \A i \in Len(faces.item) + 1 .. Len(faces.item) : FALSE
  BY <1>1
<1>3. CASE Known
  <2>1. stack # <<>> /\ stack' = Placed /\ graph' = graph /\ faces' = faces
    BY <1>3 DEF Known, Calling
  <2> QED
    BY <2>1, <1>1, <1>2, StackGrows, BoundsStay
<1>4. CASE ConvertHalfedge
  <2>1. /\ stack # <<>> /\ graph' = graph /\ faces' = faces
        /\ \E call : stack' = Append(Placed, call)
    BY <1>4 DEF ConvertHalfedge, Calling
  <2> QED
    BY <2>1, <1>1, <1>2, StackGrows, BoundsStay
<1>5. CASE ConvertFace
  <2> DEFINE f == Wanted
             item == [BlankFace EXCEPT !.of = f]
             D == DOMAIN facemap
             n == Len(faces.item)
             call == [kind |-> "face", i |-> n + 1, at |-> Null, left |-> <<"halfedge">>]
  <2>1. /\ stack # <<>> /\ graph' = graph /\ faces' = PushBack(faces, item) /\ f \in graph.faces \ D
        /\ stack' = Append(Placed, [kind |-> "face", i |-> Len(faces'.item), at |-> Null,
                                    left |-> <<"halfedge">>])
    BY <1>5 DEF ConvertFace, Calling
  <2>2. D \subseteq graph.faces /\ graph \in Diagrams /\ IsFiniteSet(graph.faces)
    BY GraphFacts DEF Inv, CopiesOK
  <2>3. Cardinality(D) \in Nat /\ Cardinality(D) < F
    BY <2>1, <2>2, OneMore DEF F
  <2>4. item \in FaceItems(ToHalf)
    BY <2>1 DEF FaceItems, BlankFace
  <2>5. faces \in Vectors(FaceItems(ToHalf)) /\ Filled(faces, F, Cardinality(D))
    BY DEF Inv, CopiesOK
  <2> HIDE DEF D, item, f
  <2>6. Len(faces'.item) = n + 1 /\ \A i \in 1 .. n : faces'.item[i] = faces.item[i]
    BY <1>1, <2>1, <2>3, <2>4, <2>5, Pushed
  <2>7. stack' = Append(Placed, call)
    BY <2>1, <2>6
  <2>8. call.kind = "face" /\ call.i = n + 1
    OBVIOUS
  <2> HIDE DEF call
  <2>9. /\ \E k \in DOMAIN stack' : stack'[k] = call
        /\ \A k \in DOMAIN stack : k \in DOMAIN stack' /\ stack'[k].kind = stack[k].kind
                                                      /\ stack'[k].i = stack[k].i
    BY <2>1, <2>7, StackGrows
  <2>10. /\ n + 1 \in Nat /\ \A i \in n + 1 .. n + 1 : i = n + 1
         /\ \A i \in F + 1 .. n : i \in 1 .. n
    BY <1>1
  <2> QED
    BY <2>1, <2>6, <2>8, <2>9, <2>10, BoundsStay
<1>6. CASE Store
  <2> DEFINE n == Len(stack)
             i0 == Top.i
  <2>1. stack # <<>> /\ graph' = graph
    BY <1>6 DEF Store
  <2>2. CASE UNCHANGED copyVars
    <3>1. stack' = stack /\ faces' = faces
      BY <2>2 DEF copyVars
    <3> QED
      BY <2>1, <3>1, <1>1, <1>2, BoundsStay
  <2>3. CASE /\ stack' = [stack EXCEPT ![n].left = Tail(@), ![n].at = Null]
             /\ \/ faces' = faces
                \/ Top.kind = "face" /\ faces' = [faces EXCEPT !.item[Top.i].halfedge = ret]
    <3>1. n \in Nat \ {0} /\ stack \in Seq(Frames) /\ Top \in Frames
      BY <2>1, TopFacts DEF Inv, CallsOK
    <3>2. \A k \in DOMAIN stack : k \in DOMAIN stack' /\ stack'[k].kind = stack[k].kind
                                                    /\ stack'[k].i = stack[k].i
      <4>1. \A x \in Frames : /\ [x EXCEPT !.left = Tail(x.left)].kind = x.kind
                              /\ [x EXCEPT !.left = Tail(x.left)].i = x.i
        OBVIOUS
      <4> QED
        BY <2>3, <3>1
    <3>3. /\ Len(faces'.item) = Len(faces.item)
          /\ \A i \in F + 1 .. Len(faces.item) : /\ faces'.item[i].of = faces.item[i].of
                                                 /\ faces'.item[i].is_bounded = faces.item[i].is_bounded
      <4>1. faces.item \in Seq(FaceItems(ToHalf)) /\ faces \in Vectors(FaceItems(ToHalf))
        BY Lengths DEF Inv, CopiesOK
      <4>2. CASE faces' = faces
        BY <4>2
      <4>3. CASE Top.kind = "face" /\ faces' = [faces EXCEPT !.item[Top.i].halfedge = ret]
        <5>1. faces'.item = [faces.item EXCEPT ![i0] = [@ EXCEPT !.halfedge = ret]]
          BY <4>1, <4>3 DEF Vectors
        <5>2. \A x \in FaceItems(ToHalf) : /\ [x EXCEPT !.halfedge = ret].of = x.of
                                           /\ [x EXCEPT !.halfedge = ret].is_bounded = x.is_bounded
          BY DEF FaceItems
        <5>3. /\ DOMAIN faces.item = 1 .. Len(faces.item)
              /\ \A i \in 1 .. Len(faces.item) : faces.item[i] \in FaceItems(ToHalf)
          BY <4>1
        <5>4. DOMAIN faces'.item = DOMAIN faces.item
          BY <5>1
        <5>5. Len(faces'.item) = Len(faces.item)
          BY <5>1, <4>1
        <5>6. \A i \in 1 .. Len(faces.item) :
                faces'.item[i] = IF i = i0 THEN [faces.item[i] EXCEPT !.halfedge = ret] ELSE faces.item[i]
          BY <5>1, <5>3
        <5>7. \A i \in F + 1 .. Len(faces.item) : i \in 1 .. Len(faces.item)
          BY <1>1
        <5> QED
          BY <5>2, <5>3, <5>5, <5>6, <5>7
      <4> QED
        BY <2>3, <4>2, <4>3
    <3> QED
      BY <2>1, <3>2, <3>3, <1>1, <1>2, BoundsStay
  <2> QED
    BY <1>6, <2>2, <2>3 DEF Store
<1>7. CASE Return
  <2> DEFINE n == Len(stack)
             i0 == Top.i
  <2>1. /\ stack # <<>> /\ graph' = graph /\ stack' = Front(stack)
        /\ IF Top.kind = "face"
           THEN faces' = [faces EXCEPT !.item[i0].is_bounded = Bounded(Self)] ELSE faces' = faces
    BY <1>7 DEF Return
  <2>2. /\ n \in Nat \ {0} /\ stack \in Seq(Frames) /\ Top = stack[n]
        /\ DOMAIN stack = 1 .. n /\ DOMAIN stack' = 1 .. n - 1
        /\ \A k \in 1 .. n - 1 : stack'[k] = stack[k]
    BY <2>1, TopFacts, FrontFacts DEF Inv, CallsOK, Top, Last
  <2>3. faces.item \in Seq(FaceItems(ToHalf)) /\ faces \in Vectors(FaceItems(ToHalf))
    BY Lengths DEF Inv, CopiesOK
  <2>4. F' = F /\ \A x : Bounded(x) \in BOOLEAN
    BY <2>1 DEF F, Bounded
  <2>5. CASE Top.kind # "face"
    <3>1. \A i \in F + 1 .. Len(faces.item), k \in DOMAIN stack :
            stack[k].kind = "face" => k \in DOMAIN stack' /\ stack'[k] = stack[k]
      BY <2>2, <2>5
    <3>2. \A i \in F + 1 .. Len(faces.item) :
            \/ \E k \in DOMAIN stack' : stack'[k].kind = "face" /\ stack'[k].i = i
            \/ faces.item[i].is_bounded = Bounded(faces.item[i].of)
      BY <3>1 DEF BoundsOK
    <3> QED
      BY <3>2, <2>1, <2>5, BoundsGiven
  <2>6. CASE Top.kind = "face"
    <3> DEFINE b == Bounded(faces.item[i0].of)
    <3>1. i0 \in F + 1 .. Len(faces.item) /\ Self = faces.item[i0].of
      BY <2>1, <2>6, TopFacts DEF FaceFrames, Self
    <3>2. b \in BOOLEAN
      BY <2>4
    <3>3. faces' = [faces EXCEPT !.item[i0].is_bounded = b]
      BY <2>1, <2>6, <3>1
    <3> HIDE DEF b
    <3>4. /\ Len(faces'.item) = Len(faces.item)
          /\ \A i \in 1 .. Len(faces.item) :
               faces'.item[i] = IF i = i0 THEN [faces.item[i] EXCEPT !.is_bounded = b] ELSE faces.item[i]
      <4>1. faces'.item = [faces.item EXCEPT ![i0] = [@ EXCEPT !.is_bounded = b]]
        BY <3>3, <2>3 DEF Vectors
      <4> QED
        BY <4>1, <2>3
    <3>5. \A i \in F + 1 .. Len(faces.item) :
            /\ faces'.item[i].of = faces.item[i].of
            /\ i # i0 => faces'.item[i].is_bounded = faces.item[i].is_bounded
            /\ i = i0 => faces'.item[i].is_bounded = b
      <4>1. \A x \in FaceItems(ToHalf) : /\ [x EXCEPT !.is_bounded = b].of = x.of
                                         /\ [x EXCEPT !.is_bounded = b].is_bounded = b
        BY DEF FaceItems
      <4>2. \A i \in F + 1 .. Len(faces.item) :
              i \in 1 .. Len(faces.item) /\ faces.item[i] \in FaceItems(ToHalf)
        BY <1>1, <2>3
      <4> QED
        BY <4>1, <4>2, <3>4
    <3>6. ASSUME NEW i \in F + 1 .. Len(faces.item)
          PROVE  \/ \E k \in DOMAIN stack' : stack'[k].kind = "face" /\ stack'[k].i = i
                 \/ faces'.item[i].is_bounded = Bounded(faces'.item[i].of)
      <4>1. CASE i = i0
        BY <4>1, <3>5 DEF b
      <4>2. CASE i # i0 /\ \E k \in DOMAIN stack : stack[k].kind = "face" /\ stack[k].i = i
        BY <4>2, <2>2
      <4>3. CASE i # i0 /\ faces.item[i].is_bounded = Bounded(faces.item[i].of)
        BY <4>3, <3>5
      <4> QED
        BY <4>1, <4>2, <4>3 DEF BoundsOK
    <3> QED
      BY <3>4, <3>6, <2>1, BoundsGiven
  <2> QED
    BY <2>5, <2>6
<1>8. CASE Stays \/ Begin \/ Around \/ Done \/ Finished \/ UNCHANGED voronoiVars
  <2>1. UNCHANGED <<graph, copyVars>>
    BY <1>8 DEF Stays, Begin, Around, Done, Finished, voronoiVars
  <2>2. graph' = graph /\ stack' = stack /\ faces' = faces
    BY <2>1 DEF copyVars
  <2> QED
    BY <2>2, <1>1, <1>2, BoundsStay
<1> QED
  BY <1>3, <1>4, <1>5, <1>6, <1>7, <1>8 DEF VoronoiNext

-----------------------------------------------------------------------------
(* Around a face.                                                          *)

\* The next halfedge is the first one again when all are behind, and one that
\* was not met yet otherwise.
LEMMA RimStep ==
  ASSUME graph \in Diagrams, NEW f, NEW h, NEW T, OnRim(f, h, T)
  PROVE  /\ h \in graph.halves /\ graph.next[h] # Null /\ graph.next[h] \in graph.halves
         /\ graph.next[h] = graph.edge[f] => T \cup {h} = Rim(graph, f)
         /\ graph.next[h] # graph.edge[f] => OnRim(f, graph.next[h], T \cup {h})
<1> DEFINE y == graph.next[h]
           U == T \cup {h}
<1>1. /\ f \in graph.faces /\ Bounded(f)
      /\ T \subseteq Rim(graph, f) /\ h \in Rim(graph, f) /\ h \notin T
      /\ graph.edge[f] \in T \cup {h}
      /\ \A x \in T : graph.next[x] \in T \cup {h}
      /\ \A x \in T \cup {h} : x = graph.edge[f] \/ graph.prev[x] \in T
  BY DEF OnRim
<1>2. h \in graph.halves /\ graph.face[h] = f
  BY <1>1 DEF Rim
<1>3. y # Null /\ y \in graph.halves
  BY <1>1, <1>2, GraphFacts DEF Bounded
<1>4. graph.prev[y] = h /\ y \in Rim(graph, f)
  BY <1>2, <1>3, RingFacts DEF Rim
<1>5. U \in SUBSET Rim(graph, f) /\ U # {}
  BY <1>1
<1>6. CASE y = graph.edge[f]
  <2>1. \A x \in U : graph.next[x] \in U
    BY <1>1, <1>6
  <2>2. U = Rim(graph, f)
    BY <1>1, <1>5, <2>1, RingFacts
  <2> QED
    BY <1>2, <1>3, <1>6, <2>2
<1>7. CASE y # graph.edge[f]
  <2>1. y \notin U
    BY <1>1, <1>4, <1>7
  <2>2. \A x \in U : graph.next[x] \in U \cup {y}
    BY <1>1
  <2>3. \A x \in U \cup {y} : x = graph.edge[f] \/ graph.prev[x] \in U
    BY <1>1, <1>4
  <2>4. OnRim(f, y, U)
    <3> HIDE DEF y, U
    <3>1. graph.edge[f] \in U \cup {y}
      BY <1>1 DEF U
    <3> QED
      BY <1>1, <1>4, <1>5, <2>1, <2>2, <2>3, <3>1 DEF OnRim
  <2> QED
    BY <1>2, <1>3, <1>7, <2>4
<1> QED
  BY <1>6, <1>7

\* A halfedge is counted that was not.
LEMMA SeenMore ==
  ASSUME NEW S, NEW s \in Seq(S), IsInjective(s), NEW h \in S, h \notin ToSet(s)
  PROVE  LET t == Append(s, h)
         IN  t \in Seq(S) /\ IsInjective(t) /\ ToSet(t) = ToSet(s) \cup {h}
<1> DEFINE t == Append(s, h)
           n == Len(s)
<1>1. /\ n \in Nat /\ t \in Seq(S) /\ DOMAIN s = 1 .. n /\ DOMAIN t = 1 .. n + 1
      /\ t[n + 1] = h /\ \A i \in 1 .. n : t[i] = s[i]
  OBVIOUS
<1> HIDE DEF t, n
<1>2. \A i \in 1 .. n + 1 : i \in 1 .. n \/ i = n + 1
  BY <1>1
<1>3. \A i \in 1 .. n : s[i] # h
  BY <1>1 DEF ToSet
<1>4. IsInjective(t)
  BY <1>1, <1>2, <1>3 DEF IsInjective
<1>5. ToSet(t) = ToSet(s) \cup {h}
  <2>1. n + 1 \in 1 .. n + 1 /\ \A i \in 1 .. n : i \in 1 .. n + 1
    BY <1>1
  <2> QED
    BY <1>1, <1>2, <2>1 DEF ToSet
<1> QED
  BY <1>1, <1>4, <1>5 DEF t

\* What the conversion left does not change while sites are moved.
Relaxing == stage = "lloyd" /\ outcome = "running" /\ UNCHANGED <<graph, copyVars, stage>>

\* The constants of the relaxation.
LEMMA Unmoved ==
  ASSUME Relaxing
  PROVE  /\ F' = F /\ Walks' = Walks /\ Values' = Values
         /\ graph' = graph /\ faces' = faces /\ halfedges' = halfedges
         /\ \A to, f : Averaged(to, f)' <=> Averaged(to, f)
         /\ \A f, h, T : OnRim(f, h, T)' <=> OnRim(f, h, T)
<1>1. graph' = graph /\ faces' = faces /\ halfedges' = halfedges
  BY DEF Relaxing, copyVars
<1>2. \A f : Bounded(f)' <=> Bounded(f)
  BY <1>1 DEF Bounded
<1>3. \A to, f : Averaged(to, f)' <=> Averaged(to, f)
  BY <1>1, <1>2 DEF Averaged
<1>4. \A f, h, T : OnRim(f, h, T)' <=> OnRim(f, h, T)
  BY <1>1, <1>2 DEF OnRim
<1> QED
  BY <1>1, <1>3, <1>4 DEF F, ToHalf, To, H, Values, Walks

\* A site is moved, or what lies behind the array is.
LEMMA MovedKeeps ==
  ASSUME Inv, LloydInv, Relaxing, NEW to \in Values, Averaged(to, faces.item[walk.i].of), Moved(to)
  PROVE  (WalkOK /\ PointsOK)'
<1> DEFINE n == Len(points)
<1>1. /\ points \in Seq(Values) /\ walk.i \in Nat \ {0} /\ n \in Nat /\ DOMAIN points = 1 .. n
      /\ \A i \in DOMAIN points : points[i] # Null => Averaged(points[i], faces.item[i].of)
      /\ stage = "lloyd" /\ outcome = "running" /\ stage' = "lloyd"
  BY DEF LloydInv, WalkOK, Walks, PointsOK, Relaxing
<1>2. walk'.i = walk.i + 1 /\ walk'.h = Null /\ walk'.seen = <<>> /\ walk' \in Walks
  BY <1>1 DEF Moved, Walks
<1>3. CASE walk.i \in DOMAIN points
  <2>1. points' = [points EXCEPT ![walk.i] = to] /\ outcome' = "running"
    BY <1>1, <1>3 DEF Moved
  <2>2. /\ points' \in Seq(Values) /\ Len(points') = n /\ DOMAIN points' = DOMAIN points
        /\ \A i \in DOMAIN points : points'[i] = IF i = walk.i THEN to ELSE points[i]
    <3>1. PICK k : k = walk.i
      OBVIOUS
    <3>2. k \in 1 .. n /\ points' = [points EXCEPT ![k] = to]
      BY <1>1, <1>3, <2>1, <3>1
    <3>3. \A i \in DOMAIN points : points'[i] = IF i = k THEN to ELSE points[i]
      BY <3>2
    <3>4. points' \in [1 .. n -> Values]
      BY <1>1, <3>2, <3>3
    <3>5. points' \in Seq(Values) /\ Len(points') = n
      BY <1>1, <3>4
    <3> QED
      BY <1>1, <3>1, <3>3, <3>4, <3>5
  <2>3. WalkOK'
    BY <1>1, <1>2, <2>2, Unmoved DEF WalkOK
  <2>4. \A i \in DOMAIN points' : points'[i] # Null => Averaged(points'[i], faces.item[i].of)
    BY <1>1, <2>2
  <2>5. \A i \in DOMAIN points' : points'[i] # Null => Averaged(points[i], faces.item[i].of)'
    BY <2>4, Unmoved DEF Averaged
  <2> QED
    BY <1>1, <1>2, <2>1, <2>3, <2>5 DEF PointsOK
<1>4. CASE walk.i \notin DOMAIN points
  <2>1. points' = points /\ outcome' = "wild"
    BY <1>4 DEF Moved
  <2>3. WalkOK'
    BY <1>1, <1>2, <2>1, Unmoved DEF WalkOK
  <2>4. \A i \in DOMAIN points' : points'[i] # Null => Averaged(points[i], faces.item[i].of)'
    BY <1>1, <2>1, Unmoved DEF Averaged
  <2> QED
    BY <1>1, <1>2, <2>1, <2>3, <2>4 DEF PointsOK
<1> QED
  BY <1>3, <1>4

\* When the conversion is over the bound of each face is known; a blank one
\* counts as unbounded.
LEMMA BoundsKnown ==
  ASSUME Inv, BoundsOK, stage # "convert", NEW i \in 1 .. Len(faces.item)
  PROVE  LET f == faces.item[i].of
         IN  /\ f \in graph.faces \cup {Blank}
             /\ faces.item[i].is_bounded => f \in graph.faces /\ Bounded(f) /\ i \in F + 1 .. Len(faces.item)
             /\ ~faces.item[i].is_bounded => ~(f \in graph.faces /\ Bounded(f))
<1>1. F \in Nat /\ Len(faces.item) \in Nat
  BY Lengths
<1>2. Blank \notin graph.faces
  BY RingFacts DEF Inv
<1>3. CASE i \in 1 .. F
  <2>1. faces.item[i] = BlankFace
    BY <1>3 DEF Inv, CopiesOK
  <2> QED
    BY <1>2, <2>1 DEF BlankFace
<1>4. CASE i \in F + 1 .. Len(faces.item)
  <2>1. DOMAIN stack = {}
    BY DEF Inv, CallsOK
  <2>2. faces.item[i].is_bounded = Bounded(faces.item[i].of)
    BY <1>4, <2>1 DEF BoundsOK
  <2>3. faces.item[i].of \in graph.faces
    BY <1>4 DEF Inv, CopiesOK
  <2> QED
    BY <1>4, <2>2, <2>3
<1> QED
  BY <1>1, <1>3, <1>4

\* The site of a face without a bound stays.
LEMMA StaysKeeps ==
  ASSUME Inv, LloydInv, Stays
  PROVE  (WalkOK /\ PointsOK)'
<1> DEFINE f == faces.item[walk.i].of
           to == [site |-> f]
<1>1. /\ stage = "lloyd" /\ outcome = "running" /\ walk.i <= Len(faces.item)
      /\ ~faces.item[walk.i].is_bounded /\ Moved(to)
      /\ Relaxing
  BY DEF Stays, AtFace, Running, Face, Relaxing
<1>2. walk.i \in 1 .. Len(faces.item)
  BY <1>1, Lengths DEF LloydInv, WalkOK, Walks
<1>3. f \in graph.faces \cup {Blank} /\ ~(f \in graph.faces /\ Bounded(f))
  BY <1>1, <1>2, BoundsKnown DEF LloydInv
<1>4. to \in Values
  BY <1>3 DEF Values
<1>5. Averaged(to, f)
  BY <1>3 DEF Averaged
<1> QED
  BY <1>1, <1>4, <1>5, MovedKeeps

\* The walk begins at the halfedge of the face.
LEMMA BeginKeeps ==
  ASSUME Inv, LloydInv, Begin
  PROVE  (WalkOK /\ PointsOK)'
<1> DEFINE f == faces.item[walk.i].of
           p == faces.item[walk.i].halfedge
           h == graph.edge[f]
<1>1. /\ stage = "lloyd" /\ outcome = "running" /\ walk.i <= Len(faces.item) /\ walk.h = Null
      /\ faces.item[walk.i].is_bounded /\ walk' = [walk EXCEPT !.h = p]
      /\ points' = points /\ stage' = stage /\ outcome' = outcome
      /\ Relaxing
  BY DEF Begin, AtFace, Running, Face, Relaxing
<1>2. walk.i \in 1 .. Len(faces.item)
  BY <1>1, Lengths DEF LloydInv, WalkOK, Walks
<1>3. f \in graph.faces /\ Bounded(f) /\ walk.i \in F + 1 .. Len(faces.item)
  BY <1>1, <1>2, BoundsKnown DEF LloydInv
<1>4. graph \in Diagrams /\ h \in graph.halves /\ h # Null /\ h \notin graph.faces /\ graph.face[h] = f
  BY <1>3, GraphFacts, RingFacts DEF Inv
<1>5. p \in ToHalf /\ halfedges.item[p.i].of = h
  <2>1. Matches(p, h)
    BY <1>1, <1>3, AllMatch
  <2> QED
    BY <1>4, <2>1 DEF Matches, IsCopy
<1>6. walk.seen = <<>> /\ walk'.i = walk.i /\ walk'.h = p /\ walk'.seen = <<>> /\ walk' \in Walks
  BY <1>1, <1>5 DEF LloydInv, WalkOK, Walks
<1>7. OnRim(f, h, {})
  BY <1>3, <1>4 DEF OnRim, Rim
<1>8. ToSet(<<>>) = {} /\ IsInjective(<<>>)
  BY DEF ToSet, IsInjective
<1>9. walk'.h # Null => /\ walk'.i \in F + 1 .. Len(faces.item) /\ IsInjective(walk'.seen)
                        /\ OnRim(faces.item[walk'.i].of, halfedges.item[walk'.h.i].of, ToSet(walk'.seen))
  <2> HIDE DEF p, h, f
  <2>1. faces.item[walk'.i].of = f /\ halfedges.item[walk'.h.i].of = h /\ walk'.seen = <<>>
    BY <1>5, <1>6 DEF f
  <2> QED
    BY <1>3, <1>6, <1>7, <1>8, <2>1
<1>10. WalkOK'
  <2>1. points' \in Seq(Values) /\ (walk'.h = Null => walk'.seen = <<>>)
    BY <1>1, <1>6 DEF LloydInv, WalkOK
  <2> HIDE DEF p, h, f
  <2> QED
    BY <1>1, <1>6, <1>9, <2>1, Unmoved DEF WalkOK
<1>11. PointsOK'
  <2> HIDE DEF p, h, f
  <2>1. \A i \in DOMAIN points : points[i] # Null => Averaged(points[i], faces.item[i].of)'
    BY <1>1, Unmoved DEF LloydInv, PointsOK, Averaged
  <2> QED
    BY <1>1, <1>6, <2>1, Unmoved DEF LloydInv, PointsOK
<1> QED
  BY <1>10, <1>11

\* One turn of the walk: the next halfedge is there; if it is the first again
\* then all were counted.
LEMMA AroundKeeps ==
  ASSUME Inv, LloydInv, Around
  PROVE  (WalkOK /\ PointsOK)'
<1> DEFINE f == faces.item[walk.i].of
           here == halfedges.item[walk.h.i]
           cur == here.of
           p == here.next
           seen == Append(walk.seen, cur)
           T == ToSet(walk.seen)
<1>1. /\ stage = "lloyd" /\ outcome = "running" /\ walk.h # Null
      /\ Relaxing
  BY DEF Around, Running, Relaxing
<1>2. /\ walk.i \in F + 1 .. Len(faces.item) /\ walk.h \in ToHalf /\ IsInjective(walk.seen)
      /\ OnRim(f, cur, T) /\ walk.seen \in Seq(graph.halves) /\ walk \in Walks /\ points \in Seq(Values)
  BY <1>1 DEF LloydInv, WalkOK, Walks
<1>3. graph \in Diagrams
  BY DEF Inv
<1>4. /\ cur \in graph.halves /\ graph.next[cur] # Null /\ graph.next[cur] \in graph.halves
      /\ graph.next[cur] = graph.edge[f] => T \cup {cur} = Rim(graph, f)
      /\ graph.next[cur] # graph.edge[f] => OnRim(f, graph.next[cur], T \cup {cur})
      /\ cur \notin T /\ f \in graph.faces /\ Bounded(f)
  <2> HIDE DEF f, cur, T
  <2>1. cur \notin T /\ f \in graph.faces /\ Bounded(f)
    BY <1>2 DEF OnRim
  <2> QED
    BY <1>2, <1>3, <2>1, RimStep
<1>5. p \in ToHalf /\ p # Null /\ halfedges.item[p.i].of = graph.next[cur]
  <2>1. walk.h.i \in H + 1 .. Len(halfedges.item)
    BY <1>2 DEF ToHalf, To
  <2>2. \A i \in H + 1 .. Len(halfedges.item) :
          Matches(halfedges.item[i].next, graph.next[halfedges.item[i].of])
    BY <1>1, AllMatch DEF EdgeFields
  <2>3. Matches(p, graph.next[cur])
    BY <2>1, <2>2
  <2> QED
    BY <1>3, <1>4, <2>3, GraphFacts DEF Matches, IsCopy
<1>6. /\ faces.item[walk.i].halfedge \in ToHalf
      /\ halfedges.item[faces.item[walk.i].halfedge.i].of = graph.edge[f]
  <2>1. Matches(faces.item[walk.i].halfedge, graph.edge[f])
    BY <1>1, <1>2, AllMatch
  <2>2. graph.edge[f] \in graph.halves /\ graph.edge[f] # Null /\ graph.edge[f] \notin graph.faces
    BY <1>3, <1>4, GraphFacts
  <2> QED
    BY <2>1, <2>2 DEF Matches, IsCopy
<1>7. seen \in Seq(graph.halves) /\ IsInjective(seen) /\ ToSet(seen) = T \cup {cur}
  <2>1. PICK s, h : s = walk.seen /\ h = cur
    OBVIOUS
  <2>2. s \in Seq(graph.halves) /\ IsInjective(s) /\ h \in graph.halves /\ h \notin ToSet(s)
    BY <1>2, <1>4, <2>1
  <2>3. /\ Append(s, h) \in Seq(graph.halves) /\ IsInjective(Append(s, h))
        /\ ToSet(Append(s, h)) = ToSet(s) \cup {h}
    BY <2>2, SeenMore
  <2> QED
    BY <2>1, <2>3
<1>8. CASE p = faces.item[walk.i].halfedge
  <2> DEFINE to == [corners |-> seen]
  <2>1. Moved(to)
    BY <1>5, <1>8 DEF Around, Here, Face
  <2>2. ToSet(seen) = Rim(graph, f)
    BY <1>4, <1>5, <1>6, <1>7, <1>8
  <2> HIDE DEF seen
  <2>3. to \in Values /\ to.corners = seen
    BY <1>7 DEF Values
  <2> HIDE DEF to
  <2>4. Averaged(to, f)
    BY <1>4, <1>7, <2>2, <2>3 DEF Averaged
  <2> QED
    BY <1>1, <2>1, <2>3, <2>4, MovedKeeps
<1>9. CASE p # faces.item[walk.i].halfedge
  <2>1. walk' = [walk EXCEPT !.h = p, !.seen = seen] /\ points' = points /\ outcome' = outcome
    BY <1>5, <1>9 DEF Around, Here, Face
  <2>2. graph.next[cur] # graph.edge[f]
    <3>1. CASE graph.next[cur] = graph.edge[f]
      <4>1. p.i = faces.item[walk.i].halfedge.i
        BY <1>5, <1>6, <3>1, CopiedOnce DEF ToHalf, To
      <4> QED
        BY <1>5, <1>6, <1>9, <4>1 DEF ToHalf, To
    <3> QED
      BY <3>1
  <2>3. OnRim(f, graph.next[cur], ToSet(seen))
    BY <1>4, <1>7, <2>2
  <2> HIDE DEF seen, p, cur, T
  <2>4. walk'.i = walk.i /\ walk'.h = p /\ walk'.seen = seen /\ walk' \in Walks
    BY <1>2, <1>5, <1>7, <2>1 DEF Walks
  <2>5. /\ walk'.i \in F + 1 .. Len(faces.item) /\ IsInjective(walk'.seen)
        /\ OnRim(faces.item[walk'.i].of, halfedges.item[walk'.h.i].of, ToSet(walk'.seen))
    BY <1>2, <1>5, <1>7, <2>3, <2>4
  <2>6. WalkOK'
    BY <1>2, <1>5, <2>1, <2>4, <2>5, <1>1, Unmoved DEF WalkOK
  <2>7. PointsOK'
    <3>1. \A i \in DOMAIN points : points[i] # Null => Averaged(points[i], faces.item[i].of)'
      BY <1>1, <2>1, Unmoved DEF LloydInv, PointsOK, Averaged
    <3> QED
      BY <1>1, <2>1, <2>4, <3>1, Unmoved DEF LloydInv, PointsOK, Relaxing
  <2> QED
    BY <2>6, <2>7
<1> QED
  BY <1>8, <1>9

\* The conversion leaves sites and array alone.
LEMMA ConversionWaits ==
  ASSUME Inv, Inv', LloydInv, Known \/ ConvertHalfedge \/ ConvertFace \/ Store \/ Return
  PROVE  (WalkOK /\ PointsOK)'
<1>1. /\ stage = "convert" /\ outcome = "running" /\ points' = points /\ walk' = walk /\ graph' = graph
      /\ \/ stage' = "convert"
         \/ stage' = "lloyd" /\ outcome' = outcome
  BY DEF Known, ConvertHalfedge, ConvertFace, Store, Return, Calling, Running, lloydVars
<1>2. stage' \in {"convert", "lloyd"} /\ outcome' = "running"
  BY <1>1 DEF Inv, CallsOK
<1>3. /\ points \in Seq(Values) /\ walk \in Walks /\ walk.seen = <<>> /\ walk.h = Null /\ walk.i = 1
      /\ \A i \in DOMAIN points : points[i] = Null
  BY <1>1 DEF LloydInv, WalkOK, PointsOK
<1>4. Values' = Values /\ walk \in Walks'
  BY <1>1, <1>3 DEF Values, Walks
<1>5. WalkOK'
  BY <1>1, <1>3, <1>4 DEF WalkOK
<1>7. PointsOK'
  <2>1. \A i \in DOMAIN points' : points'[i] = Null
    BY <1>1, <1>3
  <2> QED
    BY <1>1, <1>2, <1>3, <2>1 DEF PointsOK
<1> QED
  BY <1>5, <1>7

\* At first no site is moved.
LEMMA LloydInitial ==
  ASSUME VoronoiInit
  PROVE  LloydInv
<1>1. graph \in Diagrams /\ Inv
  BY Initial DEF VoronoiInit
<1>2. /\ stack = <<[kind |-> "face", i |-> Len(faces.item), at |-> Null, left |-> <<"halfedge">>]>>
      /\ faces = PushBack(Resized(F, BlankFace), [BlankFace EXCEPT !.of = graph.first])
      /\ DOMAIN facemap = {graph.first}
  BY DEF VoronoiInit, F
<1>3. BoundsOK
  <2>1. Cardinality(DOMAIN facemap) = 1
    <3>1. Cardinality({graph.first}) = 1
      BY FS_Singleton
    <3> QED
      BY <3>1, <1>2, Zenon
  <2>2. Len(faces.item) = F + 1 /\ F \in Nat
    BY <1>1, <2>1, Lengths DEF Inv, CopiesOK, Filled
  <2>3. 1 \in DOMAIN stack /\ stack[1].kind = "face" /\ stack[1].i = Len(faces.item)
    BY <1>2
  <2>4. \A i \in F + 1 .. Len(faces.item) : i = Len(faces.item)
    BY <2>2
  <2> QED
    BY <2>3, <2>4 DEF BoundsOK
<1>4. PICK n \in Nat : points = [i \in 1 .. n |-> Null]
  <2>1. PICK more \in {1, 2} : points = [i \in 1 .. more * F |-> Null]
    BY DEF VoronoiInit, F
  <2>2. F \in Nat
    BY <1>1, GraphFacts
  <2>3. more * F \in Nat
    BY <2>1, <2>2
  <2> QED
    BY <2>1, <2>3
<1>5. /\ points \in Seq(Values) /\ Len(points) = n /\ DOMAIN points = 1 .. n
      /\ \A i \in DOMAIN points : points[i] = Null
  <2>1. Null \in Values
    BY DEF Values
  <2> QED
    BY <1>4, <2>1
<1>6. /\ walk \in Walks /\ walk.h = Null /\ walk.seen = <<>> /\ walk.i = 1
      /\ stage = "convert" /\ outcome = "running"
  BY DEF VoronoiInit, Walks
<1>7. WalkOK
  BY <1>5, <1>6 DEF WalkOK
<1>8. PointsOK
  BY <1>5, <1>6 DEF PointsOK
<1> QED
  BY <1>3, <1>7, <1>8 DEF LloydInv

\* The place of the relaxation and the sites it moved are right in every
\* reachable state.
THEOREM RelaxationKept == VoronoiSpec => []LloydInv
<1>1. VoronoiInit => LloydInv
  BY LloydInitial
<1>2. ASSUME Inv, Inv', LloydInv, [VoronoiNext]_voronoiVars PROVE LloydInv'
  <2>1. BoundsOK'
    BY <1>2, BoundsKept DEF LloydInv
  <2>2. CASE Stays \/ Begin \/ Around \/ Known \/ ConvertHalfedge \/ ConvertFace \/ Store \/ Return
    <3>1. (WalkOK /\ PointsOK)'
      BY <1>2, <2>2, StaysKeeps, BeginKeeps, AroundKeeps, ConversionWaits
    <3> QED
      BY <2>1, <3>1 DEF LloydInv
  <2>3. CASE Done \/ Finished \/ UNCHANGED voronoiVars
    <3>1. /\ graph' = graph /\ faces' = faces /\ halfedges' = halfedges
          /\ points' = points /\ walk' = walk /\ outcome' = outcome
          /\ stage' = stage \/ (stage = "lloyd" /\ outcome = "running" /\ stage' = "done")
      BY <2>3 DEF Done, Finished, voronoiVars, copyVars, lloydVars, Running
    <3>2. \A f : Bounded(f)' <=> Bounded(f)
      BY <3>1 DEF Bounded
    <3>3. /\ \A to, f : Averaged(to, f)' <=> Averaged(to, f)
          /\ \A f, h, T : OnRim(f, h, T)' <=> OnRim(f, h, T)
      BY <3>1, <3>2 DEF Averaged, OnRim
    <3>4. F' = F /\ Walks' = Walks /\ Values' = Values
      BY <3>1 DEF F, H, ToHalf, To, Walks, Values
    <3>5. WalkOK'
      BY <1>2, <3>1, <3>3, <3>4 DEF LloydInv, WalkOK
    <3>6. PointsOK'
      <4>1. \A i \in DOMAIN points : points[i] # Null => Averaged(points[i], faces.item[i].of)'
        BY <1>2, <3>1, <3>3 DEF LloydInv, PointsOK, Averaged
      <4> QED
        BY <1>2, <3>1, <4>1 DEF LloydInv, PointsOK
    <3> QED
      BY <2>1, <3>5, <3>6 DEF LloydInv
  <2> QED
    BY <1>2, <2>2, <2>3 DEF VoronoiNext
<1> QED
  BY <1>1, <1>2, Invariant, PTL DEF VoronoiSpec

\* Whatever the diagram and the array: the site of a bounded face becomes the
\* mean of all its corners, each counted once, that of an unbounded one stays,
\* and the walk never steps off the copy.
THEOREM SitesAveraged == VoronoiSpec => []LloydAverages
<1>1. ASSUME Inv, LloydInv PROVE LloydAverages
  <2>1. \A f : Rim(graph, f) = {h \in graph.halves : graph.face[h] = f}
    BY DEF Rim
  <2>2. \A to, f : Averaged(to, f) <=>
          IF f \in graph.faces /\ Bounded(f)
          THEN IsInjective(to.corners) /\ ToSet(to.corners) = {h \in graph.halves : graph.face[h] = f}
          ELSE to = [site |-> f]
    BY <2>1 DEF Averaged
  <2>3. ASSUME NEW i \in DOMAIN points, points[i] # Null, faces.item[i].of \in graph.faces
        PROVE  LET f == faces.item[i].of
               IN  IF Bounded(f)
                   THEN /\ IsInjective(points[i].corners)
                        /\ ToSet(points[i].corners) = {h \in graph.halves : graph.face[h] = f}
                   ELSE points[i] = [site |-> f]
    <3>1. Averaged(points[i], faces.item[i].of)
      BY <1>1, <2>3 DEF LloydInv, PointsOK
    <3>2. PICK f : f = faces.item[i].of
      OBVIOUS
    <3> QED
      BY <2>2, <2>3, <3>1, <3>2
  <2>4. walk.h # Null => outcome = "running"
    BY <1>1 DEF LloydInv, PointsOK
  <2> QED
    BY <2>3, <2>4, Zenon DEF LloydAverages
<1> QED
  BY <1>1, Invariant, RelaxationKept, PTL
=============================================================================
