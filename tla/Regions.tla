------------------------------ MODULE Regions ------------------------------
(***************************************************************************)
(* What a pool is for (struct Ustr_pool in ustr-main.h): memory that is    *)
(* given back together.  Pools form trees.  A block belongs to the pool it *)
(* was asked from; it goes when its pool, or a pool above it, is cleared   *)
(* or freed, and not before unless its holder gave it up.  A pool may keep *)
(* a block that was given up for as long as it likes.                      *)
(***************************************************************************)
EXTENDS Naturals

CONSTANTS Pool, Mem, Top, None

VARIABLES
  parent,   \* the pool above each pool: Top for none, None for no pool
  owner,    \* the pool each block of memory belongs to, None for free memory
  held      \* the blocks whose holder may still use them, and their sizes

vars == <<parent, owner, held>>

Init == /\ parent = [p \in Pool |-> None]
        /\ owner = [b \in Mem |-> None]
        /\ held = <<>>

Pools == {p \in Pool : parent[p] # None}

\* The pools from p down, p included.
Below(p) ==
  {q \in Pool : \A S \in SUBSET Pool :
     (p \in S /\ \A x \in Pools : parent[x] \in S => x \in S) => q \in S}

In(S) == {b \in Mem : owner[b] \in S}
Keep(S) == [b \in DOMAIN held \cap S |-> held[b]]

Make == /\ UNCHANGED <<owner, held>>
        /\ \E p \in Pool \ Pools, q \in Pools \cup {Top} : parent' = [parent EXCEPT ![p] = q]

\* New memory for p, perhaps in place of the block old, which its holder
\* gives up: it is freed at once or stays with the pool.
Give ==
  /\ UNCHANGED parent
  /\ \E p \in Pools, b \in Mem : \E old \in {{}} \cup {{x} : x \in In({p})} :
       /\ owner[b] = None \/ b \in old
       /\ \/ owner' = [owner EXCEPT ![b] = p]
          \/ owner' = [[c \in Mem |-> IF c \in old THEN None ELSE owner[c]] EXCEPT ![b] = p]
       /\ DOMAIN held' = (DOMAIN held \ old) \cup {b}
       /\ \A c \in DOMAIN held' \ {b} : held'[c] = held[c]

Drop == /\ UNCHANGED parent
        /\ \E b \in DOMAIN held : /\ held' = Keep(Mem \ {b})
                                 /\ owner' \in {owner, [owner EXCEPT ![b] = None]}

\* The blocks of these pools are given back.
GiveBack(S) ==
  /\ owner' = [b \in Mem |-> IF owner[b] \in S THEN None ELSE owner[b]]
  /\ held' = Keep(Mem \ In(S))

Clear == /\ UNCHANGED parent
         /\ \E p \in Pools : GiveBack(Below(p))

Destroy == \E p \in Pools :
  LET gone == Below(p)
  IN  /\ parent' = [q \in Pool |-> IF q \in gone THEN None ELSE parent[q]]
      /\ GiveBack(gone)

Next == Make \/ Give \/ Drop \/ Clear \/ Destroy
Spec == Init /\ [][Next]_vars
=============================================================================
