------------------------------ MODULE Mapping ------------------------------
(***************************************************************************)
(* The hash tables of src/stringutils/mapping.c, at the level of their     *)
(* cells: an array of buckets per table, each the head of a chain of SList *)
(* nodes that malloc hands out and free takes back.  lookup returns the    *)
(* link that leads to a key or ends its chain, and mapping_ins and         *)
(* mapping_del write through that link.  The array that a caller passes    *)
(* for results is one of austr.c; those in the nodes are their strings.    *)
(***************************************************************************)
EXTENDS StringArray, FiniteSets, FiniteSetsExt

CONSTANTS
  Tables, Keys,
  Values,         \* arrays of strings, as sequences
  Hash,           \* stringhash
  BUCKETS,        \* 256 in the code
  Nodes,          \* addresses malloc returns for list nodes
  MaxLength,      \* bound of the caller's array
  Null

Bucket == 0 .. BUCKETS - 1

(* The strings that get into arrays.                                       *)
Texts == {EmptyString} \cup Keys \cup UNION {ToSet(v) : v \in Values}

ASSUME MappingAssumption ==
  /\ MaxLength \in Nat
  /\ Hash \in [Keys -> Nat] /\ BUCKETS \in Nat \ {0}
  /\ IsFiniteSet(Nodes)

(* A null pointer is no node, no array of buckets and no table, and a      *)
(* pointer that leads to no string is none.                                *)
ASSUME PointersAssumption ==
  /\ Null \notin Nodes /\ Null \notin [Bucket -> Nodes \cup {Null}]
  /\ \A S \in SUBSET Keys : Null \notin [S -> Values]
  /\ Values \subseteq Seq(Texts) /\ Stale \notin Texts

VARIABLES
  pimpl,          \* per table, the heads of its buckets, or Null
  node,           \* what each node holds: key, value, next
  live,           \* the nodes allocated and not freed
  keyless,        \* those whose key is a null pointer
  out,            \* the array a caller passes for the results
  got,            \* the string a caller was handed last
  status          \* "running", "aborted" or "wild"

tableVars == <<pimpl, node, live>>
mappingVars == <<tableVars, keyless, out, got, status>>

Open(t) == status = "running" /\ pimpl[t] # Null

(* What is in a node that is not allocated is of no account.  A node's key  *)
(* is the one the node was made for, also when the copy of the key failed.  *)
Blank == [key |-> Null, value |-> <<>>, next |-> Null]
Blanked(freed, others) == [n \in Nodes |-> IF n \in freed THEN Blank ELSE others[n]]

MappingInit ==
  /\ pimpl = [t \in Tables |-> Null]
  /\ node = [n \in Nodes |-> Blank]
  /\ live = {} /\ keyless = {}
  /\ out = NoStrings /\ got = EmptyString /\ status = "running"

-----------------------------------------------------------------------------
(* lookup.                                                                 *)

(* The i-th node of a chain, and Null beyond its end.                      *)
Chain(t, b) ==
  LET at[i \in 0 .. Cardinality(Nodes)] ==
        IF i = 0 THEN pimpl[t][b]
        ELSE IF at[i - 1] = Null THEN Null ELSE node[at[i - 1]].next
  IN at

(* The link to the node of k, or to the end of its chain: it is bucket b   *)
(* when prev is Null and the next of prev otherwise; at is what it holds,   *)
(* and compared are the nodes whose keys were compared with k.              *)
Lookup(t, k) ==
  LET b == Hash[k] % BUCKETS
      c == Chain(t, b)
      i == Min({j \in DOMAIN c : c[j] = Null \/ node[c[j]].key = k})
  IN [bucket |-> b, prev |-> IF i = 0 THEN Null ELSE c[i - 1], at |-> c[i],
      compared |-> {c[j] : j \in 0 .. i} \ {Null}]

(* ustr_cmp_eq reads through the key of each node it compares.             *)
Stumbles(t, k) == Lookup(t, k).compared \cap keyless # {}
Finds(t, k) == Open(t) /\ ~Stumbles(t, k)

LookupWild(t, k) ==
  /\ Open(t) /\ Stumbles(t, k)
  /\ status' = "wild"
  /\ UNCHANGED <<tableVars, keyless, out, got>>

(* Writes n through a link, after the changes to nodes that others makes.  *)
Relink(t, link, n, others) ==
  IF link.prev = Null
  THEN pimpl' = [pimpl EXCEPT ![t][link.bucket] = n] /\ node' = others
  ELSE /\ node' = [others EXCEPT ![link.prev].next = n]
       /\ UNCHANGED pimpl

-----------------------------------------------------------------------------
(* The operations.                                                         *)

NoBuckets == [b \in Bucket |-> Null]

MapInit(t) ==
  /\ status = "running" /\ pimpl[t] = Null
  /\ pimpl' = [pimpl EXCEPT ![t] = NoBuckets]
  /\ UNCHANGED <<node, live, keyless, out, got, status>>

NodesOf(t) ==
  UNION {LET c == Chain(t, b) IN {c[i] : i \in DOMAIN c} \ {Null} : b \in Bucket}

MapDeinit(t) ==
  /\ Open(t)
  /\ pimpl' = [pimpl EXCEPT ![t] = Null]
  /\ live' = live \ NodesOf(t) /\ keyless' = keyless \ NodesOf(t)
  /\ node' = Blanked(NodesOf(t), node)
  /\ UNCHANGED <<out, got, status>>

(* A new node whose ustr_dup_buf may have failed, which nobody checks: the  *)
(* node stays in the chain without a key.  An empty key is not allocated.   *)
KeyCopied(n, k) ==
  \/ keyless' = keyless
  \/ k # EmptyString /\ keyless' = keyless \cup {n}

(* Mutant: the next of the new node is what malloc left in the memory.     *)
StoreUncut(t, k, v) ==
  LET link == Lookup(t, k)
  IN IF link.at # Null
     THEN /\ node' = [node EXCEPT ![link.at].value = v]
          /\ UNCHANGED <<pimpl, live, keyless>>
     ELSE \E n \in Nodes \ live, left \in Nodes \cup {Null} :
            /\ live' = live \cup {n} /\ KeyCopied(n, k)
            /\ Relink(t, link, n,
                      [node EXCEPT ![n] = [key |-> k, value |-> v, next |-> left]])

(* The value is copied into the node of k, or into a new node at the end    *)
(* of the chain.                                                           *)
Store(t, k, v) ==
  LET link == Lookup(t, k)
  IN IF link.at # Null
     THEN /\ node' = [node EXCEPT ![link.at].value = v]
          /\ UNCHANGED <<pimpl, live, keyless>>
     ELSE \E n \in Nodes \ live :
            /\ live' = live \cup {n} /\ KeyCopied(n, k)
            /\ Relink(t, link, n,
                      [node EXCEPT ![n] = [key |-> k, value |-> v, next |-> Null]])

MapIns(t, k, v) ==
  /\ Finds(t, k) /\ Store(t, k, v)
  /\ UNCHANGED <<out, got, status>>

(* malloc may return null to mapping_init, for the node of mapping_ins and  *)
(* to austr.c: all abort.                                                  *)
NoMemory(t) ==
  /\ status = "running"
  /\ status' = "aborted"
  /\ UNCHANGED <<tableVars, keyless, out, got>>

(* mapping_ins of a null value: the node is there and its array is empty,   *)
(* then the length is read through null.                                   *)
InsNull(t, k) ==
  /\ Finds(t, k) /\ Store(t, k, <<>>)
  /\ status' = "wild"
  /\ UNCHANGED <<out, got>>

(* Mutant: the link is cleared instead of leading on to the next node.     *)
DelTail(t, k) ==
  /\ Finds(t, k)
  /\ LET link == Lookup(t, k)
     IN IF link.at = Null THEN UNCHANGED tableVars
        ELSE /\ Relink(t, link, Null, Blanked({link.at}, node))
             /\ live' = live \ {link.at}
  /\ UNCHANGED <<keyless, out, got, status>>

MapDel(t, k) ==
  /\ Finds(t, k)
  /\ LET link == Lookup(t, k)
     IN IF link.at = Null THEN UNCHANGED tableVars
        ELSE /\ Relink(t, link, node[link.at].next, Blanked({link.at}, node))
             /\ live' = live \ {link.at}
  /\ UNCHANGED <<keyless, out, got, status>>

(* What mapping_find leaves in an array that held before.                  *)
FindInto(t, k, before) ==
  LET at == Lookup(t, k).at
  IN  IF at = Null THEN before ELSE PushAll(Emptied(before), node[at].value)

MapFind(t, k) ==
  /\ Finds(t, k)
  /\ out' = FindInto(t, k, out)
  /\ UNCHANGED <<tableVars, keyless, got, status>>

KeysOf(t, b) ==
  LET c == Chain(t, b)
      n == Cardinality({j \in DOMAIN c : c[j] # Null})
  IN  [i \in 1 .. n |-> node[c[i - 1]].key]

(* mapping_keys: bucket by bucket, each chain in order.                    *)
MapKeys(t) ==
  /\ Open(t) /\ NodesOf(t) \cap keyless = {}
  /\ LET after[b \in 0 .. BUCKETS] ==
           IF b = 0 THEN Emptied(out) ELSE PushAll(after[b - 1], KeysOf(t, b - 1))
     IN  out' = after[BUCKETS]
  /\ UNCHANGED <<tableVars, keyless, got, status>>

(* The copy of a key that is not there reads null.                         *)
KeysWild(t) ==
  /\ Open(t) /\ NodesOf(t) \cap keyless # {}
  /\ status' = "wild"
  /\ UNCHANGED <<tableVars, keyless, out, got>>

-----------------------------------------------------------------------------
(* The caller's array.                                                     *)

OutPush(string) ==
  /\ status = "running" /\ out.length < MaxLength
  /\ out' = Push(out, string)
  /\ UNCHANGED <<tableVars, keyless, got, status>>

OutPop ==
  /\ status = "running"
  /\ IF out.length > 0
     THEN got' = Popped(out) /\ out' = Pop(out) /\ UNCHANGED status
     ELSE status' = "wild" /\ UNCHANGED <<out, got>>   \* array[UINT_MAX]
  /\ UNCHANGED <<tableVars, keyless>>

OutResize(length) ==
  /\ status = "running"
  /\ out' = Resize(out, length)
  /\ UNCHANGED <<tableVars, keyless, got, status>>

(* austr_deinit and, before the next use, austr_init.                      *)
OutRenew ==
  /\ status = "running"
  /\ out' = NoStrings
  /\ UNCHANGED <<tableVars, keyless, got, status>>

-----------------------------------------------------------------------------
(* Properties.                                                             *)

(* The caller's array owns its strings and no others, whatever was pushed, *)
(* popped, resized or copied into it, and however often its block moved.   *)
ArrayOwns == Owns(out)

(* Every allocated node is in exactly one place of one chain, the one of   *)
(* the key it was made for, and no key has two nodes: nothing leaks and no *)
(* two tables, buckets or links share a node.  A node whose key could not  *)
(* be copied (mapping.c:115) stays the last of its chain until it is freed  *)
(* with its table: every operation that comes to it reads null instead.    *)
ChainsSound ==
  status = "running" =>
    /\ live = UNION {NodesOf(t) : t \in {u \in Tables : pimpl[u] # Null}}
    /\ \A t \in Tables : pimpl[t] # Null =>
         \A b \in Bucket :
           LET c == Chain(t, b)
               held == {i \in DOMAIN c : c[i] # Null}
           IN  /\ c[Cardinality(Nodes)] = Null
               /\ \A i \in held : Hash[node[c[i]].key] % BUCKETS = b
               /\ \A i, j \in held : i # j => node[c[i]].key # node[c[j]].key
    /\ \A t, u \in Tables :
         pimpl[t] # Null /\ pimpl[u] # Null /\ t # u =>
           NodesOf(t) \cap NodesOf(u) = {}
    /\ \A n \in keyless : n \in live /\ node[n].next = Null

(* The function a table stands for.                                        *)
Contents(t) ==
  IF pimpl[t] = Null THEN Null
  ELSE [k \in {node[n].key : n \in NodesOf(t)} |->
          node[CHOOSE n \in NodesOf(t) : node[n].key = k].value]

=============================================================================
