------------------------------ MODULE Voronoi ------------------------------
(***************************************************************************)
(* src/backend/voronoi.cxx and src/backend/lloyd.c.  CGAL computes a       *)
(* Voronoi diagram of the sites; voronoi_new copies it, face by face and   *)
(* halfedge by halfedge, into two vectors whose elements point at each     *)
(* other, by a recursion over the diagram; lloyd_relaxation walks around   *)
(* each face of the copy and moves its site to the middle of its corners.  *)
(*                                                                         *)
(* A vector has a generation: it moves, and becomes the next one, when an  *)
(* element is appended to a full block.  A pointer is a generation and an  *)
(* index.  The vectors are sized for the whole diagram before elements are *)
(* appended, so the copies lie behind as many elements that stay blank.    *)
(*                                                                         *)
(* The geometry is CGAL's: a diagram is its faces and halfedges and how    *)
(* they lead to each other.                                                *)
(***************************************************************************)
EXTENDS VoronoiDiagram, Integers, Sequences, SequencesExt

VARIABLES
  graph,          \* the diagram
  early,          \* the order of evaluation the compiler chose
  halfedges, faces,         \* the vectors
  halfedgemap, facemap,     \* where the copies were when they were made
  stack, ret,     \* the calls of convert, and what the last one returned
  points, walk,   \* the caller's array, and lloyd_relaxation's place
  stage,          \* "convert", "lloyd" or "done"
  outcome         \* "running" or "wild"

copyVars == <<halfedges, faces, halfedgemap, facemap, stack, ret>>
lloydVars == <<points, walk>>
voronoiVars == <<graph, early, copyVars, lloydVars, stage, outcome>>

Running(label) == outcome = "running" /\ stage = label

-----------------------------------------------------------------------------
(* Vectors *)

BlankHalfedge == [of |-> Blank, twin |-> Null, face |-> Null, prev |-> Null, next |-> Null]
BlankFace == [of |-> Blank, halfedge |-> Null, is_bounded |-> FALSE]

Resized(n, blank) == [at |-> 0, room |-> n, item |-> [i \in 1 .. n |-> blank]]
PushBack(v, x) ==
  LET moves == Len(v.item) = v.room
  IN  [at |-> IF moves THEN v.at + 1 ELSE v.at,
       room |-> IF moves THEN (v.room * Factor) ELSE v.room,
       item |-> Append(v.item, x)]
Last1(v) == [at |-> v.at, i |-> Len(v.item)]
LeadsTo(v, p) == p.at = v.at /\ p.i \in DOMAIN v.item

VoronoiInit ==
  /\ graph \in Diagrams /\ early \in Orders
  /\ halfedges = Resized(Cardinality(graph.halves), BlankHalfedge)
  /\ faces = PushBack(Resized(Cardinality(graph.faces), BlankFace),
                      [BlankFace EXCEPT !.of = graph.first])
  /\ halfedgemap = [h \in {} |-> Null]
  /\ facemap = [f \in {graph.first} |-> Last1(faces)]
  /\ stack = <<[kind |-> "face", i |-> Len(faces.item), at |-> Null, left |-> <<"halfedge">>]>>
  /\ ret = Null
  /\ \E more \in {1, 2} : points = [i \in 1 .. more * Cardinality(graph.faces) |-> Null]
  /\ walk = [i |-> 1, h |-> Null, seen |-> <<>>]
  /\ stage = "convert" /\ outcome = "running"

-----------------------------------------------------------------------------
(* CGALConverter *)

Top == Last(stack)
Self == IF Top.kind = "face" THEN faces.item[Top.i].of ELSE halfedges.item[Top.i].of

\* The object whose copy the next field of the innermost call is to point at.
Wanted ==
  CASE Head(Top.left) = "twin" -> graph.twin[Self]
    [] Head(Top.left) = "face" -> graph.face[Self]
    [] Head(Top.left) = "prev" -> graph.prev[Self]
    [] Head(Top.left) = "next" -> graph.next[Self]
    [] Head(Top.left) = "halfedge" -> graph.edge[Self]

\* A halfedge without a source or a target has no previous or next one.
FieldsOf(h) ==
  <<"twin", "face">> \o (IF graph.prev[h] = Null THEN <<>> ELSE <<"prev">>)
                     \o (IF graph.next[h] = Null THEN <<>> ELSE <<"next">>)

\* The place of the field, if it is computed before the call.
Placed == IF Head(Top.left) \notin early THEN stack
          ELSE [stack EXCEPT ![Len(stack)].at = IF Top.kind = "face" THEN faces.at ELSE halfedges.at]

Calling == Running("convert") /\ stack # <<>> /\ ret = Null /\ Top.left # <<>>

\* Mutant: a halfedge is looked up by its twin.
KnownByTwin ==
  /\ Calling /\ Wanted \in DOMAIN halfedgemap \cup DOMAIN facemap
  /\ ret' = IF Wanted \in DOMAIN facemap THEN facemap[Wanted]
            ELSE IF graph.twin[Wanted] \in DOMAIN halfedgemap
            THEN halfedgemap[graph.twin[Wanted]] ELSE halfedgemap[Wanted]
  /\ stack' = Placed
  /\ UNCHANGED <<graph, early, halfedges, faces, halfedgemap, facemap, lloydVars, stage, outcome>>

Known ==
  /\ Calling /\ Wanted \in DOMAIN halfedgemap \cup DOMAIN facemap
  /\ ret' = IF Wanted \in DOMAIN facemap THEN facemap[Wanted] ELSE halfedgemap[Wanted]
  /\ stack' = Placed
  /\ UNCHANGED <<graph, early, halfedges, faces, halfedgemap, facemap, lloydVars, stage, outcome>>

\* Mutant: the map keeps the index before the element is appended.
ConvertHalfedgeEarly ==
  /\ Calling /\ Wanted \in graph.halves \ DOMAIN halfedgemap
  /\ LET h == Wanted
         v == PushBack(halfedges, [BlankHalfedge EXCEPT !.of = h])
     IN  /\ halfedges' = v
         /\ halfedgemap' = [k \in DOMAIN halfedgemap \cup {h} |->
                              IF k = h THEN Last1(halfedges) ELSE halfedgemap[k]]
         /\ stack' = Append(Placed, [kind |-> "halfedge", i |-> Len(v.item), at |-> Null,
                                     left |-> FieldsOf(h)])
  /\ UNCHANGED <<graph, early, faces, facemap, ret, lloydVars, stage, outcome>>

ConvertHalfedge ==
  /\ Calling /\ Wanted \in graph.halves \ DOMAIN halfedgemap
  /\ LET h == Wanted
         v == PushBack(halfedges, [BlankHalfedge EXCEPT !.of = h])
     IN  /\ halfedges' = v
         /\ halfedgemap' = [k \in DOMAIN halfedgemap \cup {h} |->
                              IF k = h THEN Last1(v) ELSE halfedgemap[k]]
         /\ stack' = Append(Placed, [kind |-> "halfedge", i |-> Len(v.item), at |-> Null,
                                     left |-> FieldsOf(h)])
  /\ UNCHANGED <<graph, early, faces, facemap, ret, lloydVars, stage, outcome>>

ConvertFace ==
  /\ Calling /\ Wanted \in graph.faces \ DOMAIN facemap
  /\ LET f == Wanted
         v == PushBack(faces, [BlankFace EXCEPT !.of = f])
     IN  /\ faces' = v
         /\ facemap' = [k \in DOMAIN facemap \cup {f} |->
                          IF k = f THEN Last1(v) ELSE facemap[k]]
         /\ stack' = Append(Placed, [kind |-> "face", i |-> Len(v.item), at |-> Null,
                                     left |-> <<"halfedge">>])
  /\ UNCHANGED <<graph, early, halfedges, halfedgemap, ret, lloydVars, stage, outcome>>

\* The pointer a call returned goes where the caller has its field.
Store ==
  /\ Running("convert") /\ stack # <<>> /\ ret # Null
  /\ LET field == Head(Top.left)
         v == IF Top.kind = "face" THEN faces ELSE halfedges
     IN  IF Top.at \notin {Null, v.at}
         THEN outcome' = "wild" /\ UNCHANGED copyVars
         ELSE /\ IF Top.kind = "face"
                 THEN faces' = [faces EXCEPT !.item[Top.i].halfedge = ret] /\ UNCHANGED halfedges
                 ELSE halfedges' = [halfedges EXCEPT !.item[Top.i][field] = ret] /\ UNCHANGED faces
              /\ stack' = [stack EXCEPT ![Len(stack)].left = Tail(@), ![Len(stack)].at = Null]
              /\ ret' = Null
              /\ UNCHANGED <<halfedgemap, facemap, outcome>>
  /\ UNCHANGED <<graph, early, lloydVars, stage>>

\* A face is bounded when each of its halfedges has a next one.
Bounded(f) == \A h \in graph.halves : graph.face[h] = f => graph.next[h] # Null

\* The rest of the fields, and a pointer to the element as it lies by now.
Return ==
  /\ Running("convert") /\ stack # <<>> /\ ret = Null /\ Top.left = <<>>
  /\ IF Top.kind = "face"
     THEN /\ faces' = [faces EXCEPT !.item[Top.i].is_bounded = Bounded(Self)]
          /\ ret' = [at |-> faces.at, i |-> Top.i]
     ELSE ret' = [at |-> halfedges.at, i |-> Top.i] /\ UNCHANGED faces
  /\ stack' = Front(stack)
  /\ stage' = IF Len(stack) = 1 THEN "lloyd" ELSE stage
  /\ UNCHANGED <<graph, early, halfedges, halfedgemap, facemap, lloydVars, outcome>>

-----------------------------------------------------------------------------
(* lloyd_relaxation, over as many faces as the vector has *)

Face == faces.item[walk.i]
Here == halfedges.item[walk.h.i]

\* points[i] may lie beyond the array.
Moved(to) ==
  /\ IF walk.i \in DOMAIN points
     THEN points' = [points EXCEPT ![walk.i] = to] /\ UNCHANGED outcome
     ELSE outcome' = "wild" /\ UNCHANGED points
  /\ walk' = [i |-> walk.i + 1, h |-> Null, seen |-> <<>>]

AtFace == Running("lloyd") /\ walk.i <= Len(faces.item) /\ walk.h = Null

\* The site of an unbounded face stays; a blank face has any.
Stays ==
  /\ AtFace /\ ~Face.is_bounded
  /\ Moved([site |-> Face.of])
  /\ UNCHANGED <<graph, early, copyVars, stage>>

Begin ==
  /\ AtFace /\ Face.is_bounded
  /\ walk' = [walk EXCEPT !.h = Face.halfedge]
  /\ UNCHANGED <<graph, early, copyVars, points, stage, outcome>>

\* Mutant: the walk ends before its first halfedge is counted.
AroundRest ==
  /\ Running("lloyd") /\ walk.h # Null
  /\ LET h == Here.next
     IN  IF h = Null THEN outcome' = "wild" /\ UNCHANGED lloydVars
         ELSE IF h = Face.halfedge THEN Moved([corners |-> walk.seen])
         ELSE walk' = [walk EXCEPT !.h = h, !.seen = Append(@, Here.of)] /\ UNCHANGED <<points, outcome>>
  /\ UNCHANGED <<graph, early, copyVars, stage>>

\* One turn of the do ... while loop.
Around ==
  /\ Running("lloyd") /\ walk.h # Null
  /\ LET h == Here.next
         seen == Append(walk.seen, Here.of)
     IN  IF h = Null THEN outcome' = "wild" /\ UNCHANGED lloydVars
         ELSE IF h = Face.halfedge THEN Moved([corners |-> seen])
         ELSE walk' = [walk EXCEPT !.h = h, !.seen = seen] /\ UNCHANGED <<points, outcome>>
  /\ UNCHANGED <<graph, early, copyVars, stage>>

Done ==
  /\ Running("lloyd") /\ walk.i > Len(faces.item)
  /\ stage' = "done"
  /\ UNCHANGED <<graph, early, copyVars, lloydVars, outcome>>

Finished == (stage = "done" \/ outcome # "running") /\ UNCHANGED voronoiVars

VoronoiNext ==
  \/ Known \/ ConvertHalfedge \/ ConvertFace \/ Store \/ Return
  \/ Stays \/ Begin \/ Around \/ Done \/ Finished

VoronoiSpec == VoronoiInit /\ [][VoronoiNext]_voronoiVars

-----------------------------------------------------------------------------
(* Properties *)

Pointers(v, field) == {v.item[i][field] : i \in DOMAIN v.item} \ {Null}

\* The vectors move while pointers into them are in use: none of those that
\* are kept in the elements, in the maps or by the calls that are under way
\* leads into a block that was given back, whichever way the compiler orders
\* an assignment, and each map knows where its copies are.
PointersLead ==
  /\ stage = "convert" => outcome = "running"
  /\ \A h \in DOMAIN halfedgemap :
       LeadsTo(halfedges, halfedgemap[h]) /\ halfedges.item[halfedgemap[h].i].of = h
  /\ \A f \in DOMAIN facemap :
       LeadsTo(faces, facemap[f]) /\ faces.item[facemap[f].i].of = f
  /\ \A field \in {"twin", "prev", "next"} : \A p \in Pointers(halfedges, field) : LeadsTo(halfedges, p)
  /\ \A p \in Pointers(halfedges, "face") : LeadsTo(faces, p)
  /\ \A p \in Pointers(faces, "halfedge") : LeadsTo(halfedges, p)

\* The elements of a vector that were converted; the others are blank.
Copies(v) == {i \in DOMAIN v.item : v.item[i].of # Blank}
Originals(v) == {v.item[i].of : i \in Copies(v)}

\* The sites lie on a line when no edge meets another.
OnALine == \A h \in graph.halves : graph.next[h] = Null

\* When voronoi_new is done, no face or halfedge was copied twice, every copy
\* points at the copies of what its original leads to, and nothing of the
\* diagram is left out, except of that of sites on a line, which the recursion
\* from the first face may not reach all of (voronoi.cxx:183).
DiagramCopied ==
  stage # "convert" =>
    LET Same(v, p, x) == IF x = Null THEN p = Null ELSE p # Null /\ v.item[p.i].of = x
    IN  /\ \A i, j \in Copies(faces) : faces.item[i].of = faces.item[j].of => i = j
        /\ \A i, j \in Copies(halfedges) : halfedges.item[i].of = halfedges.item[j].of => i = j
        /\ \A i \in Copies(faces) :
             Same(halfedges, faces.item[i].halfedge, graph.edge[faces.item[i].of])
        /\ \A i \in Copies(halfedges) :
             LET x == halfedges.item[i]
             IN  /\ Same(halfedges, x.twin, graph.twin[x.of])
                 /\ Same(faces, x.face, graph.face[x.of])
                 /\ Same(halfedges, x.prev, graph.prev[x.of])
                 /\ Same(halfedges, x.next, graph.next[x.of])
        /\ ~OnALine => Originals(faces) = graph.faces /\ Originals(halfedges) = graph.halves

\* Lloyd's relaxation gives a bounded face of the diagram the mean of all its
\* corners, each counted once, and leaves the site of an unbounded one; and
\* its walk around a face never steps off the copy.
LloydAverages ==
  /\ \A i \in DOMAIN points :
       LET f == faces.item[i].of
       IN  points[i] # Null /\ f \in graph.faces =>
             IF Bounded(f)
             THEN /\ IsInjective(points[i].corners)
                  /\ ToSet(points[i].corners) = {h \in graph.halves : graph.face[h] = f}
             ELSE points[i] = [site |-> f]
  /\ walk.h # Null => outcome = "running"

\* What voronoi.h promises whoever has had sites relaxed: there are as many
\* faces and halfedges as the diagram has (100), an arbitrary face is one of
\* them (70), all the others are reached from it (41), and an array with room
\* for the sites is enough (29).  Stated as weakly as can be, that one of these
\* is kept, so that a state that violates it refutes each of them.
HeaderKept ==
  stage = "done" \/ outcome = "wild" =>
    \/ Len(faces.item) = Cardinality(graph.faces)
    \/ Len(halfedges.item) = Cardinality(graph.halves)
    \/ faces.item[1].of \in graph.faces
    \/ Originals(faces) = graph.faces
    \/ outcome = "running"
=============================================================================
