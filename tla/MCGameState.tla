---------------------------- MODULE MCGameState ----------------------------
(* A small instance of GameState for TLC: three keys that collide, so that *)
(* a chain has a first, a middle and a last node, and a bucket that stays  *)
(* empty.                                                                  *)
EXTENDS GameState, TLC

MCKeys == {"gold", "name", "turn"}
MCHash == [k \in MCKeys |-> CASE k = "gold" -> 4 [] k = "name" -> 2 [] k = "turn" -> 0]
MCValues == {<<"1">>, <<"2", "1">>}

Symmetry == Permutations(Nodes)

(* What a caller was handed is of no consequence.                          *)
Seen == <<tableVars, keyless, out, status>>

KeyLists == {s \in UNION {[1 .. n -> Keys] : n \in 1 .. Cardinality(Keys)} :
               Cardinality(ToSet(s)) = Len(s)}

(* While a mapping is open, the array holds what the mappings put there,   *)
(* and no more slots than that takes.  At most one node has no key, and    *)
(* while there is one the array is empty.                                  *)
Few ==
  /\ (\A t \in Tables : pimpl[t] = Null) \/ Strings(out) \in Values \cup {<<>>} \cup KeyLists
  /\ Cardinality(keyless) <= 1 /\ (keyless = {} \/ out.length = 0)
=============================================================================
