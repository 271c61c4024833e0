----------------------------- MODULE MCGameLoop -----------------------------
(* Small instances of GameLoop for TLC. *)
EXTENDS GameLoop, TLC

(* The loops, the arrays and the memory bitmaps are interchangeable.       *)
Symmetry == Permutations(Loops) \cup Permutations(Blocks)
              \cup Permutations(Bitmaps)
=============================================================================
