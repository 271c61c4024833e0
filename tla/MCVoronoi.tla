----------------------------- MODULE MCVoronoi -----------------------------
(* The small instance of Voronoi: see VoronoiHeader.cfg. *)
EXTENDS Voronoi, MCDiagrams
=============================================================================
