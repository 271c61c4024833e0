------------------------------ MODULE UstrPool ------------------------------
(***************************************************************************)
(* The linked list pools of the string library (ustr-pool-code.h).  A pool *)
(* has a list of nodes, one for each block it gave out, the newest first,  *)
(* and the list of its sub pools.  Only the newest block can be resized in *)
(* place, and only the newest free_num blocks can be freed one by one: the *)
(* others wait for the pool to be cleared.                                 *)
(*                                                                         *)
(* A list of nodes is the sequence of their blocks.  The links between     *)
(* pools are kept as the code has them, since it is they that may break.   *)
(***************************************************************************)
EXTENDS Integers, Sequences, FiniteSets

CONSTANTS
  Pool, Mem,  \* addresses of pools, and of blocks
  Null,
  MaxSize,    \* largest block asked for
  FreeNums    \* values of free_num

\* struct Ustr__pool_ll_base, with the blocks of its nodes in the place of beg.
Bases == [beg : Seq(Mem), sbeg : Pool \cup {Null}, base : Pool \cup {Null},
          next : Pool \cup {Null}, prev : Pool \cup {Null},
          free_num : Nat, call_realloc : BOOLEAN]

ASSUME PoolAssumption ==
  /\ MaxSize \in Nat \ {0}
  /\ FreeNums \subseteq Nat
  /\ Null \notin Pool /\ Null \notin Bases
  /\ {"top", "none"} \cap Pool = {}

VARIABLES
  pool,   \* the pools by address, Null where there is none
  room,   \* what the allocator gave for each block, 0 for free memory
  held,   \* the holder's view of the blocks still in use: pool and size
  wild    \* freed memory was read, written or freed again

vars == <<pool, room, held, wild>>

Live == {p \in Pool : pool[p] # Null}
Free == {b \in Mem : room[b] = 0}
Drop(f, S) == [x \in DOMAIN f \ S |-> f[x]]

\* What a call knows and changes.
Now == [pool |-> pool, room |-> room, wild |-> wild]
Return(c) == pool' = c.pool /\ room' = c.room /\ wild' = c.wild

\* Fields of a pool; one that was freed is read in vain.
At(c, p, f) == IF c.pool[p] = Null THEN Null ELSE c.pool[p][f]
Put(c, p, f, v) ==
  IF c.pool[p] = Null THEN [c EXCEPT !.wild = TRUE] ELSE [c EXCEPT !.pool[p][f] = v]

\* free of a block: it must be there.
FreeMem(c, b) == [c EXCEPT !.room[b] = 0, !.wild = @ \/ c.room[b] = 0]

Init == /\ pool = [p \in Pool |-> Null]
        /\ room = [b \in Mem |-> 0]
        /\ held = <<>>
        /\ wild = FALSE

-----------------------------------------------------------------------------
(* Blocks *)

\* ustr__pool_ll_sys_malloc: the block is given back when there is no memory
\* for its node; either way the caller gets null then.
Malloc(p) == \E b \in Free, size \in 1 .. MaxSize :
  /\ room' = [room EXCEPT ![b] = size]
  /\ pool' = [pool EXCEPT ![p].beg = <<b>> \o @]
  /\ held' = [x \in DOMAIN held \cup {b} |-> IF x = b THEN [p |-> p, size |-> size] ELSE held[x]]
  /\ UNCHANGED wild

\* ustr__pool_ll_sys_realloc, when the allocator has memory.
MoveTo(p, old, b, size) ==
  held' = [x \in (DOMAIN held \ {old}) \cup {b} |->
             IF x = b THEN [p |-> p, size |-> size] ELSE held[x]]

\* Mutant: the node still says where the newest block was.
ReallocUnnoted(p, old) == \E size \in 1 .. MaxSize, b \in Free \cup {old} :
  /\ old \in DOMAIN held /\ held[old].p = p
  /\ pool[p].beg # <<>> /\ pool[p].beg[1] = old
  /\ room' = [[room EXCEPT ![old] = 0] EXCEPT ![b] = size]
  /\ MoveTo(p, old, b, size)
  /\ UNCHANGED <<pool, wild>>

\* Mutant: a block that is not the newest is always taken to be large enough.
ReallocNever(p, old) == \E size \in 1 .. MaxSize :
  /\ old \in DOMAIN held /\ held[old].p = p
  /\ MoveTo(p, old, old, size)
  /\ UNCHANGED <<pool, room, wild>>

Realloc(p, old) == \E size \in 1 .. MaxSize :
  /\ old \in DOMAIN held /\ held[old].p = p
  /\ LET olen == held[old].size
         head == pool[p].beg # <<>> /\ pool[p].beg[1] = old
     IN  \/ \* the newest block grows, shrinks or moves
            /\ head /\ pool[p].call_realloc
            /\ \E b \in Free \cup {old} :
                 /\ room' = [[room EXCEPT ![old] = 0] EXCEPT ![b] = size]
                 /\ pool' = [pool EXCEPT ![p].beg[1] = b]
                 /\ MoveTo(p, old, b, size)
            /\ UNCHANGED wild
         \/ \* another one that need not grow stays what it is
            /\ ~(head /\ pool[p].call_realloc)
            /\ olen >= size
            /\ MoveTo(p, old, old, size)
            /\ UNCHANGED <<pool, room, wild>>
         \/ \* or its text is copied, and the pool keeps the old block
            /\ ~(head /\ pool[p].call_realloc)
            /\ olen < size
            /\ \E b \in Free :
                 /\ room' = [room EXCEPT ![b] = size]
                 /\ pool' = [pool EXCEPT ![p].beg = <<b>> \o @]
                 /\ MoveTo(p, old, b, size)
            /\ wild' = (wild \/ room[old] < olen)

\* ustr__pool_ll_sys_free looks at the newest free_num nodes only.
FreeBlock(p, old) ==
  LET beg == pool[p].beg
      at == {i \in 1 .. Len(beg) : i <= pool[p].free_num /\ beg[i] = old}
  IN  /\ old \in DOMAIN held /\ held[old].p = p
      /\ held' = Drop(held, {old})
      /\ IF at = {} THEN UNCHANGED <<pool, room, wild>>
         ELSE LET i == CHOOSE i \in at : \A j \in at : i <= j
              IN  Return([FreeMem(Now, old) EXCEPT !.pool[p].beg =
                            SubSeq(beg, 1, i - 1) \o SubSeq(beg, i + 1, Len(beg))])

-----------------------------------------------------------------------------
(* Pools *)

\* ustr__pool_ll_make_subpool: a pool, as the first of the sub pools of up
\* if that is a pool.
NewPool(up, next) ==
  [beg |-> <<>>, sbeg |-> Null, base |-> up, next |-> next, prev |-> Null,
   free_num |-> 2, call_realloc |-> TRUE]

\* Mutant: the pool that was first does not learn of the one before it.
MakeSubpoolOneWay(up) == \E p \in Pool \ Live :
  LET next == IF up = Null THEN Null ELSE pool[up].sbeg
      new == [Now EXCEPT !.pool[p] = NewPool(up, next)]
  IN  /\ Return(IF up = Null THEN new ELSE Put(new, up, "sbeg", p))
      /\ UNCHANGED held

MakeSubpool(up) == \E p \in Pool \ Live :
  LET next == IF up = Null THEN Null ELSE pool[up].sbeg
      new == [Now EXCEPT !.pool[p] = NewPool(up, next)]
      linked == IF next = Null THEN new ELSE Put(new, next, "prev", p)
  IN  /\ Return(IF up = Null THEN new ELSE Put(linked, up, "sbeg", p))
      /\ UNCHANGED held

\* ustr__pool_ll__clear and ustr__pool_ll__free call themselves for the first
\* sub pool and, but for the pool p they were asked to take, the next sibling.
Ways(p, x) == IF x = p THEN {"sbeg"} ELSE {"sbeg", "next"}

\* Mutant: the sub pools are not looked at.
VisitedTop(c, p) == {p}

\* The pools they come by, in whatever order.
Visited(c, p) ==
  LET Closed(S) == \A x \in S : \A f \in Ways(p, x) : At(c, x, f) \in S \cup {Null}
  IN  {x \in Pool : \A S \in SUBSET Pool : p \in S /\ Closed(S) => x \in S}

\* They come by a pool again, which was freed by then, or by one that had been
\* freed before.  (To clear one again would do no harm, or never end.)
Astray(c, p) ==
  LET S == Visited(c, p)
      Calls(x, f, y) == x \in S /\ f \in Ways(p, x) /\ At(c, x, f) = y
  IN  \/ \E x \in S : c.pool[x] = Null \/ \E f \in Ways(p, x) : At(c, x, f) = p
      \/ \E x, y, z \in S, f, g \in {"sbeg", "next"} :
           Calls(x, f, z) /\ Calls(y, g, z) /\ <<x, f>> # <<y, g>>

\* The nodes of these pools are taken off and their blocks freed, one by one.
FreeNodes(c, S) ==
  LET there == {x \in S : c.pool[x] # Null}
      Ptr(x, i) == c.pool[x].beg[i]
      Nodes1(x) == 1 .. Len(c.pool[x].beg)
  IN  [c EXCEPT
        !.pool = [x \in Pool |-> IF x \in there THEN [@[x] EXCEPT !.beg = <<>>] ELSE @[x]],
        !.room = [b \in Mem |-> IF \E x \in there : \E i \in Nodes1(x) : Ptr(x, i) = b
                                THEN 0 ELSE @[b]],
        !.wild = \/ @
                 \/ \E x \in there : \E i \in Nodes1(x) : c.room[Ptr(x, i)] = 0
                 \/ \E x, y \in there : \E i \in Nodes1(x), j \in Nodes1(y) :
                      <<x, i>> # <<y, j>> /\ Ptr(x, i) = Ptr(y, j)]

\* ustr__pool_ll__clear: the pools stay.
ClearTree(c, p) == [FreeNodes(c, Visited(c, p)) EXCEPT !.wild = @ \/ Astray(c, p)]

\* ustr__pool_ll__free: they go, with what is in them.
FreeTree(c, p) ==
  [ClearTree(c, p) EXCEPT !.pool = [x \in Pool |-> IF x \in Visited(c, p) THEN Null ELSE @[x]]]

\* Whose blocks are gone with the call may not be used any more.
Gone(c) == held' = Drop(held, {b \in DOMAIN held : c.room[b] = 0})

PoolClear(p) ==
  LET c == ClearTree(Now, p)
  IN  Return(c) /\ Gone(c)

\* ustr__pool_ll_free: the pool leaves the list it is in.
Unlink(c, p) ==
  LET s == c.pool[p]
      c1 == IF s.prev # Null THEN Put(c, s.prev, "next", s.next)
            ELSE IF s.base # Null THEN Put(c, s.base, "sbeg", s.next) ELSE c
  IN  IF s.next # Null THEN Put(c1, s.next, "prev", s.prev) ELSE c1

PoolFree(p) ==
  LET c == FreeTree(Unlink(Now, p), p)
  IN  Return(c) /\ Gone(c)

\* ustr_pool_ll_cntl.
Cntl(p) ==
  /\ \/ \E num \in FreeNums : pool' = [pool EXCEPT ![p].free_num = num]
     \/ \E toggle \in BOOLEAN : pool' = [pool EXCEPT ![p].call_realloc = toggle]
  /\ UNCHANGED <<room, held, wild>>

Next ==
  \/ MakeSubpool(Null)
  \/ \E p \in Live : MakeSubpool(p) \/ Malloc(p) \/ PoolClear(p) \/ PoolFree(p) \/ Cntl(p)
  \/ \E p \in Live, old \in DOMAIN held : Realloc(p, old) \/ FreeBlock(p, old)

Spec == Init /\ [][Next]_vars

-----------------------------------------------------------------------------
(* Properties *)

Nodes(p) == {pool[p].beg[i] : i \in 1 .. Len(pool[p].beg)}

\* Every block the allocator gave out is in the list of exactly one pool, once,
\* and nothing else is: no block is lost, and none is freed twice when pools
\* are cleared and freed in any order.
BlocksListedOnce ==
  /\ ~wild
  /\ UNION {Nodes(p) : p \in Live} = Mem \ Free
  /\ \A p \in Live : Cardinality(Nodes(p)) = Len(pool[p].beg)
  /\ \A p, q \in Live : p # q => Nodes(p) \cap Nodes(q) = {}

\* A holder's block is in its pool's list and as large as the holder thinks.
HoldersServed ==
  \A b \in DOMAIN held :
    /\ held[b].p \in Live /\ b \in Nodes(held[b].p)
    /\ held[b].size <= room[b]

\* The links between pools agree: each leads to a pool that exists, next and
\* prev are inverse, and the first sub pool is the one without a previous one.
LinksAgree ==
  \A p \in Live :
    LET s == pool[p]
    IN  /\ \A q \in {s.sbeg, s.base, s.next, s.prev} : q = Null \/ q \in Live
        /\ s.next # Null => pool[s.next].prev = p /\ pool[s.next].base = s.base
        /\ s.prev # Null => pool[s.prev].next = p /\ pool[s.prev].base = s.base
        /\ s.sbeg # Null => pool[s.sbeg].base = p /\ pool[s.sbeg].prev = Null
        /\ s.base # Null /\ s.prev = Null => pool[s.base].sbeg = p

\* The pools are the trees of regions struct Ustr_pool stands for: clearing
\* and freeing take exactly the blocks and the pools from there down.
Parent == [p \in Pool |-> IF p \notin Live THEN "none"
                          ELSE IF pool[p].base = Null THEN "top" ELSE pool[p].base]
AnyOf(S) == IF S = {} THEN "none" ELSE CHOOSE p \in S : TRUE
Owner == [b \in Mem |-> AnyOf({p \in Live : b \in Nodes(p)})]
Sizes == [b \in DOMAIN held |-> held[b].size]

R == INSTANCE Regions WITH
  Top <- "top", None <- "none", parent <- Parent, owner <- Owner, held <- Sizes
KeepsPromise == R!Spec
=============================================================================
