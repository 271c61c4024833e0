----------------------------- MODULE StringMap -----------------------------
(***************************************************************************)
(* What stringutils.h promises of mappings of strings to arrays of         *)
(* strings: each is a finite function, written by one operation at a time, *)
(* and a look-up returns what was last written under its key in its own    *)
(* mapping.  An array is a sequence.                                       *)
(***************************************************************************)
EXTENDS Integers, Sequences, FiniteSets, Functions, SequencesExt

CONSTANTS Tables, Keys, Values,
          NoMap     \* a mapping between mapping_deinit and mapping_init

CONSTANT EmptyString

VARIABLES map,      \* per table, the function it is, or NoMap
          out,      \* the caller's array of strings
          got       \* the string the caller was handed last

vars == <<map, out, got>>

Init == map = [t \in Tables |-> NoMap] /\ out = <<>> /\ got = EmptyString

Create(t) ==
  /\ map[t] = NoMap
  /\ map' = [map EXCEPT ![t] = [k \in {} |-> <<>>]]
  /\ UNCHANGED <<out, got>>

Destroy(t) ==
  /\ map[t] # NoMap
  /\ map' = [map EXCEPT ![t] = NoMap]
  /\ UNCHANGED <<out, got>>

(* mapping_deinit followed by mapping_init.                                *)
Renew(t) ==
  /\ map[t] # NoMap
  /\ map' = [map EXCEPT ![t] = [k \in {} |-> <<>>]]
  /\ UNCHANGED <<out, got>>

Put(t, k, v) ==
  /\ map[t] # NoMap
  /\ map' = [map EXCEPT ![t] =
               [j \in DOMAIN @ \cup {k} |-> IF j = k THEN v ELSE map[t][j]]]
  /\ UNCHANGED <<out, got>>

(* The insertion of a null value maps an empty array.                      *)
PutNull(t, k) == Put(t, k, <<>>)

Unmap(t, k) ==
  /\ map[t] # NoMap
  /\ map' = [map EXCEPT ![t] = Restrict(@, DOMAIN @ \ {k})]
  /\ UNCHANGED <<out, got>>

(* The array is left as it was, or empty, when there is nothing to copy.   *)
Get(t, k) ==
  /\ map[t] # NoMap
  /\ IF k \in DOMAIN map[t] THEN out' = map[t][k] ELSE out' \in {out, <<>>}
  /\ UNCHANGED <<map, got>>

(* The first string of the array, the empty string if there is none.       *)
GetFirst(t, k) ==
  /\ map[t] # NoMap
  /\ got' = IF k \in DOMAIN map[t] /\ map[t][k] # <<>> THEN Head(map[t][k]) ELSE EmptyString
  /\ UNCHANGED <<map, out>>

ListKeys(t) ==
  /\ map[t] # NoMap
  /\ ToSet(out') = DOMAIN map[t] /\ Len(out') = Cardinality(DOMAIN map[t])
  /\ UNCHANGED <<map, got>>

(* The array is used like a stack, and resized to any length.              *)
Pushed == Len(out') = Len(out) + 1 /\ Front(out') = out /\ UNCHANGED <<map, got>>
PoppedOff == out # <<>> /\ got' = Last(out) /\ out' = Front(out) /\ UNCHANGED map
Resized ==
  /\ out' = [i \in 1 .. Len(out') |-> IF i <= Len(out) THEN out[i] ELSE EmptyString]
  /\ UNCHANGED <<map, got>>

Next ==
  \/ Pushed \/ PoppedOff \/ Resized
  \/ \E t \in Tables :
       \/ Create(t) \/ Destroy(t) \/ Renew(t) \/ ListKeys(t)
       \/ \E k \in Keys : PutNull(t, k) \/ Unmap(t, k) \/ Get(t, k) \/ GetFirst(t, k)
       \/ \E k \in Keys, v \in Values : Put(t, k, v)

Spec == Init /\ [][Next]_vars
=============================================================================
