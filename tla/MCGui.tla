------------------------------- MODULE MCGui -------------------------------
(* A small instance of Gui for TLC. *)
EXTENDS Gui, TLC

Symmetry == Permutations(FontBlocks) \cup Permutations(FaceBlocks)
=============================================================================
