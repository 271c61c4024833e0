-------------------------- MODULE MCStringLibrary --------------------------
(***************************************************************************)
(* Two parts of ustr that share no state, the memory pools and the         *)
(* functions that only read a string: a behaviour is one of the pools or   *)
(* one of the texts, and the other part stays as it began.                 *)
(***************************************************************************)
EXTENDS UstrPool, MCText, TLC

VARIABLE part_of_library
libraryVars == <<vars, textVars, part_of_library>>

LibraryInit ==
  /\ Init /\ TextInit
  /\ part_of_library \in {"pools", "texts"}
  /\ part_of_library = "pools" => kind = "bytes"

Pools == part_of_library = "pools" /\ Next /\ UNCHANGED textVars
Texts == part_of_library = "texts" /\ TextNext /\ UNCHANGED vars

LibrarySpec == LibraryInit /\ [][(Pools \/ Texts) /\ UNCHANGED part_of_library]_libraryVars

Same == Permutations(Pool) \cup Permutations(Mem)

\* One pool at a time has settings other than those it was made with.
Few == Cardinality({p \in Live : pool[p].free_num # 2 \/ ~pool[p].call_realloc}) <= 1
=============================================================================
