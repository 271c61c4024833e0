--------------------------- MODULE VoronoiDiagram ---------------------------
(***************************************************************************)
(* A Voronoi diagram as CGAL answers it to src/backend/voronoi.cxx: its    *)
(* faces and halfedges, how they lead to each other, the face CGAL lists   *)
(* first, and what can be reached from there.                              *)
(***************************************************************************)
EXTENDS Naturals, FiniteSets

CONSTANTS
  Diagrams,       \* what CGAL may answer, with the face it lists first
  Orders,         \* fields whose place is computed before their value
  Factor,         \* how much larger a vector's next block is
  Null, Blank

Fields == {"twin", "face", "prev", "next", "halfedge"}
ASSUME VoronoiAssumption ==
  /\ Orders \subseteq SUBSET Fields
  /\ Factor \in Nat \ {0, 1}
  /\ \A g \in Diagrams :
       /\ IsFiniteSet(g.faces) /\ IsFiniteSet(g.halves)
       /\ g.faces \cap g.halves = {} /\ Null \notin g.faces \cup g.halves
       /\ g.first \in g.faces /\ g.edge \in [g.faces -> g.halves]
       /\ {g.twin, g.next, g.prev} \subseteq [g.halves -> g.halves \cup {Null}]
       /\ g.face \in [g.halves -> g.faces]
       /\ \A h \in g.halves : g.twin[h] # h /\ g.twin[g.twin[h]] = h
       /\ \A f \in g.faces : g.face[g.edge[f]] = f

\* The objects one step away from those in S, and what can be reached from
\* the first face in as many steps as there are objects.
Beside(g, S) ==
  {g.edge[f] : f \in S \cap g.faces}
  \cup UNION {{g.twin[h], g.face[h], g.next[h], g.prev[h]} \ {Null} : h \in S \cap g.halves}

Spread(g, S) == S \cup Beside(g, S)

ReachedIn(g) ==
  LET N == Cardinality(g.halves) + Cardinality(g.faces)
      at[n \in 0 .. N] == IF n = 0 THEN {g.first} ELSE Spread(g, at[n - 1])
  IN  at[N]

\* The edges of a diagram hang together, unless they are parallel lines.
ASSUME ConnectedAssumption ==
  \A g \in Diagrams :
    (\E h \in g.halves : g.next[h] # Null) => ReachedIn(g) = g.faces \cup g.halves

\* The edges around a face form one ring, or run from one end to another; and
\* a blank is no part of a diagram.
Rim(g, f) == {h \in g.halves : g.face[h] = f}
ASSUME RingAssumption ==
  \A g \in Diagrams :
    /\ Blank \notin g.faces \cup g.halves
    /\ \A h \in g.halves : g.next[h] # Null =>
         g.prev[g.next[h]] = h /\ g.face[g.next[h]] = g.face[h]
    /\ \A f \in g.faces : \A S \in SUBSET Rim(g, f) :
         S # {} /\ (\A h \in S : g.next[h] \in S) => S = Rim(g, f)
=============================================================================
