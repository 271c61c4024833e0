----------------------------- MODULE GameState -----------------------------
(***************************************************************************)
(* The variables of a game, src/backend/gamestate.c: one mapping for the   *)
(* game and one for each country.  Beside it another client of             *)
(* stringutils.h uses a mapping and an array of its own through the whole  *)
(* interface.                                                              *)
(***************************************************************************)
EXTENDS Mapping

CONSTANTS Global,     \* gamestate.c's static Mapping global
          Scratch,    \* the other client's mapping
          Single      \* strings that are stored one at a time

ASSUME GameStateAssumption ==
  /\ Tables = {Global, Scratch} /\ Global # Scratch
  /\ \A string \in Single : <<string>> \in Values

Init == MappingInit

Initialize == MapInit(Global)
Shutdown == MapDeinit(Global)

(* gamestate_shutdown and gamestate_initialize.                            *)
Clear ==
  /\ Open(Global)
  /\ pimpl' = [pimpl EXCEPT ![Global] = NoBuckets]
  /\ live' = live \ NodesOf(Global) /\ keyless' = keyless \ NodesOf(Global)
  /\ node' = Blanked(NodesOf(Global), node)
  /\ UNCHANGED <<out, got, status>>

(* gamestate_save and gamestate_load abort.                                *)
SaveOrLoad ==
  /\ Open(Global)
  /\ status' = "aborted"
  /\ UNCHANGED <<tableVars, keyless, out, got>>

(* gamestate_global_aget clears the array before it looks.                 *)
GlobalAget(k) ==
  /\ Finds(Global, k)
  /\ out' = FindInto(Global, k, Emptied(out))
  /\ UNCHANGED <<tableVars, keyless, got, status>>

(* gamestate_global_get: the first string, or the empty string, by way of  *)
(* an array of its own.                                                    *)
GlobalGet(k) ==
  /\ Finds(Global, k)
  /\ LET avalue == FindInto(Global, k, NoStrings)
     IN got' = IF avalue.length >= 1 THEN avalue.slot[1] ELSE EmptyString
  /\ UNCHANGED <<tableVars, keyless, out, status>>

GlobalAput(k, v) == MapIns(Global, k, v)
GlobalPut(k, string) == MapIns(Global, k, Strings(Push(NoStrings, string)))

(* gamestate_countries_put: ncountry is 0, for the first growth writes     *)
(* through country, the null pointer, instead of the new array.            *)
CountriesPut ==
  /\ Open(Global)
  /\ status' = "wild"
  /\ UNCHANGED <<tableVars, keyless, out, got>>

Game ==
  \/ Initialize \/ Shutdown \/ Clear \/ SaveOrLoad \/ CountriesPut
  \/ \E k \in Keys : GlobalAget(k) \/ GlobalGet(k) \/ LookupWild(Global, k)
  \/ \E k \in Keys, v \in Values : GlobalAput(k, v)
  \/ \E k \in Keys, string \in Single : GlobalPut(k, string)

Other ==
  \/ MapInit(Scratch) \/ MapDeinit(Scratch) \/ MapKeys(Scratch) \/ KeysWild(Scratch)
  \/ \E k \in Keys : MapDel(Scratch, k) \/ MapFind(Scratch, k) \/ LookupWild(Scratch, k)
  \/ \E k \in Keys, v \in Values : MapIns(Scratch, k, v)
  \/ \E string \in Single : OutPush(string)
  \/ \E length \in 0 .. MaxLength : OutResize(length)
  \/ OutPop \/ OutRenew

Memory == \E t \in Tables : NoMemory(t)

Ended == status # "running" /\ UNCHANGED mappingVars

Next == Game \/ Other \/ Memory \/ Ended

Spec == Init /\ [][Next]_mappingVars

(* With a client that inserts null values too, as stringutils.h:89-90 lets *)
(* it.                                                                     *)
NullSpec == Init /\ [][Next \/ \E k \in Keys : InsNull(Scratch, k)]_mappingVars

-----------------------------------------------------------------------------
Promise == INSTANCE StringMap WITH NoMap <- Null,
                                   map <- [t \in Tables |-> Contents(t)],
                                   out <- Strings(out)

(* The ends the promise does not speak of: memory that runs out or a call   *)
(* of a function that only aborts, a string asked of an empty array, the    *)
(* mapping of a country, and an operation that comes to a node whose key    *)
(* could not be copied, which mapping.c:115 does not check.                 *)
Beyond ==
  \/ status' = "aborted"
  \/ OutPop /\ out.length = 0
  \/ CountriesPut
  \/ \E t \in Tables : KeysWild(t) \/ \E k \in Keys : LookupWild(t, k)

(* The tables are the functions stringutils.h promises, under any order of *)
(* insertions, deletions and reuse of nodes, and keys that collide: every   *)
(* operation but those beyond the promise comes to its end, and does what   *)
(* is promised.                                                            *)
KeepsPromise ==
  /\ Promise!Init
  /\ [][(status' = "running" /\ [Promise!Next]_Promise!vars) \/ Beyond]_mappingVars
=============================================================================
