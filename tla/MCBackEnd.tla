----------------------------- MODULE MCBackEnd -----------------------------
(***************************************************************************)
(* Two parts of galcry-backend that share no state: its command loop and   *)
(* its copy of a Voronoi diagram.  A behaviour is one of the commands or   *)
(* one of the diagram, and the other part stays as it began.               *)
(***************************************************************************)
EXTENDS MCBackend, Voronoi, MCDiagrams

VARIABLE part

BackEndInit ==
  /\ Init /\ VoronoiInit
  /\ part \in {"commands", "diagram"}
  /\ part = "commands" =>
       /\ graph = CHOOSE g \in Diagrams : TRUE
       /\ early = {} /\ Len(points) = Cardinality(graph.faces)

Commands == part = "commands" /\ Next /\ UNCHANGED voronoiVars
Diagram == part = "diagram" /\ VoronoiNext /\ UNCHANGED vars

BackEndSpec ==
  /\ BackEndInit
  /\ [][(Commands \/ Diagram) /\ UNCHANGED part]_<<part, vars, voronoiVars>>
  /\ Fairness
=============================================================================
