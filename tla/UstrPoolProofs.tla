--------------------------- MODULE UstrPoolProofs ---------------------------
(***************************************************************************)
(* The pools of the string library stay trees of doubly linked lists, each *)
(* block is in one list once, and the lists implement Regions, for any     *)
(* number of pools and blocks.                                             *)
(***************************************************************************)
EXTENDS UstrPool, Induction, SequenceTheorems, FiniteSetTheorems

Lives(pl) == {x \in Pool : pl[x] # Null}
Pools1 == [Pool -> Bases \cup {Null}]
Ranks == [Pool -> Nat]

\* A first sub pool says whose it is, and a pool was made after its base.
LinkedDown(pl, x, rank) ==
  LET z == pl[x].sbeg
      w == pl[x].base
  IN  /\ z # Null => z \in Lives(pl) /\ pl[z].base = x /\ pl[z].prev = Null
      /\ w # Null => w \in Lives(pl) /\ rank[x] < rank[w]

\* A pool is in the list of its base, between siblings of which the next is
\* the older one.
LinkedBeside(pl, x, rank) ==
  LET s == pl[x]
  IN  /\ s.next # Null => /\ s.next \in Lives(pl) /\ rank[x] < rank[s.next]
                          /\ pl[s.next].base = s.base /\ pl[s.next].prev = x
      /\ s.prev # Null => /\ s.prev \in Lives(pl) /\ rank[s.prev] < rank[x]
                          /\ pl[s.prev].base = s.base /\ pl[s.prev].next = x
      /\ s.base # Null /\ s.prev = Null => pl[s.base].sbeg = x

\* rank orders the pools by age, the oldest last.
Linked(pl, rank) ==
  \A x \in Lives(pl) : LinkedDown(pl, x, rank) /\ LinkedBeside(pl, x, rank)

\* The same where p has been taken out of its list, or not yet.
LinkedBut(pl, p, rank) ==
  /\ pl \in Pools1 /\ rank \in Ranks /\ p \in Lives(pl)
  /\ \A x \in Lives(pl) : /\ LinkedDown(pl, x, rank)
                          /\ x # p => LinkedBeside(pl, x, rank)

\* A pool that is there has its fields.
LEMMA Fields ==
  ASSUME NEW pl \in Pools1, NEW x \in Lives(pl)
  PROVE  /\ x \in Pool /\ pl[x] \in Bases /\ pl[x] # Null
         /\ pl[x].beg \in Seq(Mem) /\ Len(pl[x].beg) \in Nat
         /\ pl[x].sbeg \in Pool \cup {Null} /\ pl[x].base \in Pool \cup {Null}
         /\ pl[x].next \in Pool \cup {Null} /\ pl[x].prev \in Pool \cup {Null}
BY DEF Pools1, Lives, Bases

\* What Visited is: the least set that holds p and all that is called for.
LEMMA VisitedLeast ==
  ASSUME NEW c, c.pool \in Pools1, NEW p \in Lives(c.pool),
         \A x \in Lives(c.pool) : \A f \in Ways(p, x) : c.pool[x][f] \in Lives(c.pool) \cup {Null}
  PROVE  LET S == Visited(c, p)
         IN  /\ p \in S /\ S \subseteq Lives(c.pool)
             /\ \A x \in S : \A f \in Ways(p, x) :
                  At(c, x, f) = c.pool[x][f] /\ c.pool[x][f] \in S \cup {Null}
             /\ \A T \in SUBSET Pool :
                  p \in T /\ (\A x \in S \cap T : \A f \in Ways(p, x) : c.pool[x][f] \in T \cup {Null})
                    => S \subseteq T
<1> DEFINE S == Visited(c, p)
           L == Lives(c.pool)
           Closed(T) == \A x \in T : \A f \in Ways(p, x) : At(c, x, f) \in T \cup {Null}
<1>1. \A x \in L : \A f : At(c, x, f) = c.pool[x][f]
  BY DEF At, Lives
<1>2. S = {x \in Pool : \A T \in SUBSET Pool : p \in T /\ Closed(T) => x \in T}
  BY DEF Visited
<1>3. p \in S
  BY <1>2 DEF Lives
<1>4. \A T \in SUBSET Pool : p \in T /\ Closed(T) => S \subseteq T
  BY <1>2
<1>5. L \in SUBSET Pool /\ Closed(L)
  BY <1>1 DEF Lives
<1>6. S \subseteq L
  BY <1>4, <1>5
<1>7. ASSUME NEW x \in S, NEW f \in Ways(p, x) PROVE At(c, x, f) \in S \cup {Null}
  <2>1. \A T \in SUBSET Pool : p \in T /\ Closed(T) => At(c, x, f) \in T \cup {Null}
    BY <1>4
  <2>2. At(c, x, f) \in Pool \cup {Null}
    BY <2>1, <1>3, <1>5, <1>6
  <2> HIDE DEF Closed
  <2>3. CASE At(c, x, f) = Null
    BY <2>3
  <2>4. CASE At(c, x, f) # Null
    BY <2>1, <2>2, <2>4, <1>2
  <2> QED
    BY <2>3, <2>4
<1>8. ASSUME NEW T \in SUBSET Pool, p \in T,
             \A x \in S \cap T : \A f \in Ways(p, x) : c.pool[x][f] \in T \cup {Null}
      PROVE  S \subseteq T
  <2>1. \A x \in S : \A f \in Ways(p, x) : At(c, x, f) = c.pool[x][f]
    BY <1>1, <1>6
  <2> HIDE DEF S
  <2>2. Closed(S \cap T)
    BY <1>7, <1>8, <2>1
  <2>3. S \cap T \in SUBSET Pool /\ p \in S \cap T
    BY <1>3, <1>8
  <2> QED
    BY <2>2, <2>3, <1>4
<1> QED
  <2>1. \A x \in S : \A f \in Ways(p, x) :
                  At(c, x, f) = c.pool[x][f] /\ c.pool[x][f] \in S \cup {Null}
    BY <1>1, <1>6, <1>7
  <2> QED
    BY <1>3, <1>6, <1>8, <2>1

\* A call for p comes by the pools below p, each once, and by no other.
LEMMA VisitsBelow ==
  ASSUME NEW c, NEW p, NEW rank, LinkedBut(c.pool, p, rank)
  PROVE  LET S == Visited(c, p)
             pl == c.pool
         IN  /\ p \in S /\ S \subseteq Lives(pl)
             /\ \A x \in S \ {p} : pl[x].base \in S
             /\ \A x \in Lives(pl) : pl[x].base \in S => x \in S
             /\ \A T \in SUBSET Pool :
                  p \in T /\ (\A x \in Lives(pl) : pl[x].base \in T => x \in T) => S \subseteq T
             /\ ~Astray(c, p)
<1> DEFINE S == Visited(c, p)
           pl == c.pool
           L == Lives(pl)
<1>0. /\ pl \in Pools1 /\ p \in L /\ rank \in Ranks
      /\ \A x \in L : LinkedDown(pl, x, rank) /\ (x # p => LinkedBeside(pl, x, rank))
      /\ Null \notin Pool
  BY PoolAssumption DEF LinkedBut
<1>1. \A x \in L : \A f \in Ways(p, x) : pl[x][f] \in L \cup {Null}
  <2> SUFFICES ASSUME NEW x \in L, NEW f \in Ways(p, x) PROVE pl[x][f] \in L \cup {Null}
    OBVIOUS
  <2>1. CASE f = "sbeg"
    BY <1>0, <2>1 DEF LinkedDown
  <2>2. CASE f = "next" /\ x # p
    BY <1>0, <2>2 DEF LinkedBeside
  <2> QED
    BY <2>1, <2>2 DEF Ways
<1>2. /\ p \in S /\ S \subseteq L
      /\ \A x \in S : \A f \in Ways(p, x) :
           At(c, x, f) = pl[x][f] /\ pl[x][f] \in S \cup {Null}
      /\ \A T \in SUBSET Pool :
           p \in T /\ (\A x \in S \cap T : \A f \in Ways(p, x) : pl[x][f] \in T \cup {Null})
             => S \subseteq T
  BY <1>0, <1>1, VisitedLeast
<1> HIDE DEF S, pl, L
<1>3. /\ \A x \in S : pl[x].sbeg \in S \cup {Null}
      /\ \A x \in S : x # p => pl[x].next \in S \cup {Null}
      /\ \A x \in S : At(c, x, "sbeg") = pl[x].sbeg
      /\ \A x \in S : x # p => At(c, x, "next") = pl[x].next
  BY <1>2 DEF Ways
<1>4. \A T \in SUBSET Pool :
        /\ p \in T
        /\ \A x \in S \cap T : /\ pl[x].sbeg \in T \cup {Null}
                               /\ x # p => pl[x].next \in T \cup {Null}
        => S \subseteq T
  BY <1>2 DEF Ways
<1>5. L \subseteq Pool /\ \A x \in L : rank[x] \in Nat
  BY <1>0 DEF L, Lives, Ranks
<1>6. /\ \A x \in L : pl[x].sbeg # Null =>
           pl[x].sbeg \in L /\ pl[pl[x].sbeg].base = x /\ pl[pl[x].sbeg].prev = Null
      /\ \A x \in L : pl[x].base # Null => pl[x].base \in L /\ rank[x] < rank[pl[x].base]
      /\ \A x \in L \ {p} : pl[x].next # Null =>
           /\ pl[x].next \in L /\ rank[x] < rank[pl[x].next]
           /\ pl[pl[x].next].base = pl[x].base /\ pl[pl[x].next].prev = x
      /\ \A x \in L \ {p} : pl[x].prev # Null =>
           /\ pl[x].prev \in L /\ rank[pl[x].prev] < rank[x]
           /\ pl[pl[x].prev].base = pl[x].base /\ pl[pl[x].prev].next = x
      /\ \A x \in L \ {p} : pl[x].base # Null /\ pl[x].prev = Null => pl[pl[x].base].sbeg = x
  BY <1>0 DEF LinkedDown, LinkedBeside, L
<1> DEFINE Top(x) == x = p \/ (pl[x].base \in S /\ rank[pl[x].base] <= rank[p])
<1>7. \A x \in S : Top(x)
  <2> DEFINE T == {x \in S : Top(x)}
  <2>1. p \in T /\ T \in SUBSET Pool
    BY <1>2, <1>5
  <2>2. ASSUME NEW x \in T, pl[x].sbeg # Null PROVE pl[x].sbeg \in T
    <3>1. pl[x].sbeg \in S /\ pl[pl[x].sbeg].base = x /\ x \in S /\ x \in L
      BY <1>2, <1>3, <1>6, <2>2
    <3>2. rank[x] <= rank[p]
      <4>1. CASE x = p
        BY <4>1, <1>0, <1>5
      <4>2. CASE x # p
        <5>1. /\ pl[x].base \in S /\ pl[x].base \in L /\ pl[x].base # Null
              /\ rank[pl[x].base] <= rank[p]
          BY <4>2, <2>2, <1>2, <1>5, <1>0
        <5>2. rank[x] < rank[pl[x].base]
          BY <5>1, <3>1, <1>6
        <5> QED
          BY <5>1, <5>2, <3>1, <1>0, <1>5
      <4> QED
        BY <4>1, <4>2
    <3> QED
      BY <3>1, <3>2
  <2>3. ASSUME NEW x \in T, x # p, pl[x].next # Null PROVE pl[x].next \in T
    <3>1. pl[x].next \in S /\ pl[pl[x].next].base = pl[x].base
      BY <1>2, <1>3, <1>6, <2>3
    <3> QED
      BY <3>1, <2>3
  <2> HIDE DEF Top
  <2> QED
    BY <2>1, <2>2, <2>3, <1>4
<1>8. \A x \in S : rank[x] <= rank[p]
  <2> SUFFICES ASSUME NEW x \in S, x # p PROVE rank[x] <= rank[p]
    BY <1>0, <1>5
  <2>1. pl[x].base \in S /\ pl[x].base \in L /\ pl[x].base # Null /\ rank[pl[x].base] <= rank[p]
    BY <1>7, <1>2, <1>5, <1>0
  <2>2. x \in L /\ rank[x] < rank[pl[x].base]
    BY <2>1, <1>2, <1>6
  <2> QED
    BY <2>1, <2>2, <1>0, <1>5
<1>9. pl[p].base \notin S
  <2> SUFFICES ASSUME pl[p].base \in S PROVE FALSE
    OBVIOUS
  <2>1. pl[p].base \in L /\ pl[p].base # Null
    BY <1>2, <1>5, <1>0
  <2>2. rank[p] < rank[pl[p].base]
    BY <2>1, <1>6, <1>0
  <2>3. rank[pl[p].base] <= rank[p]
    BY <1>8
  <2> QED
    BY <2>1, <2>2, <2>3, <1>0, <1>5
<1>10. \A x \in L : pl[x].base \in S => x \in S
  <2> DEFINE Bad == {x \in L : pl[x].base \in S /\ x \notin S}
             K == {rank[x] : x \in Bad}
  <2>1. SUFFICES ASSUME Bad # {} PROVE FALSE
    OBVIOUS
  <2>2. K \in SUBSET Nat /\ K # {}
    BY <1>5, <2>1
  <2>3. PICK k \in K : \A y \in K : k <= y
    BY <2>2, Least
  <2>4. PICK x \in Bad : \A y \in Bad : rank[x] <= rank[y]
    BY <2>3
  <2>5. x \in L \ {p} /\ pl[x].base \in S /\ pl[x].base \in L /\ pl[x].base # Null /\ x \notin S
    BY <2>4, <1>2, <1>5, <1>0
  <2>6. CASE pl[x].prev = Null
    <3>1. pl[pl[x].base].sbeg = x
      BY <2>5, <2>6, <1>6
    <3>2. x \in S \cup {Null}
      BY <3>1, <2>5, <1>3
    <3> QED
      BY <3>2, <2>5, <1>5, <1>0
  <2>7. CASE pl[x].prev # Null
    <3> DEFINE w == pl[x].prev
    <3>1. w \in L /\ rank[w] < rank[x] /\ pl[w].base = pl[x].base /\ pl[w].next = x
      BY <2>5, <2>7, <1>6
    <3>2. rank[w] \in Nat /\ rank[x] \in Nat
      BY <3>1, <2>5, <1>5
    <3>3. w \notin Bad
      BY <3>1, <3>2, <2>4
    <3>4. w \in S
      BY <3>1, <3>3, <2>5
    <3>5. w # p
      BY <3>1, <2>5, <1>9
    <3>6. x \in S \cup {Null}
      BY <3>1, <3>4, <3>5, <1>3
    <3> QED
      BY <3>6, <2>5, <1>5, <1>0
  <2> QED
    BY <2>6, <2>7
<1>11. ASSUME NEW T \in SUBSET Pool, p \in T, \A x \in L : pl[x].base \in T => x \in T
       PROVE  S \subseteq T
  <2> DEFINE V == {x \in S \cap T : x = p \/ pl[x].base \in T}
  <2>1. p \in V /\ V \in SUBSET Pool
    BY <1>2, <1>5, <1>11
  <2>2. ASSUME NEW x \in V, pl[x].sbeg # Null PROVE pl[x].sbeg \in V
    <3>1. x \in L /\ x \in T /\ pl[x].sbeg \in S /\ pl[x].sbeg \in L /\ pl[pl[x].sbeg].base = x
      BY <1>2, <1>3, <1>6, <2>2
    <3> QED
      BY <3>1, <1>11
  <2>3. ASSUME NEW x \in V, x # p, pl[x].next # Null PROVE pl[x].next \in V
    <3>1. /\ x \in L /\ pl[x].base \in T /\ pl[x].next \in S /\ pl[x].next \in L
          /\ pl[pl[x].next].base = pl[x].base
      BY <1>2, <1>3, <1>6, <2>3
    <3> QED
      BY <3>1, <1>11
  <2>4. S \subseteq V
    <3> HIDE DEF V
    <3> QED
      BY <2>1, <2>2, <2>3, <1>4
  <2> QED
    BY <2>4
<1>12. ~Astray(c, p)
  <2>1. \A x \in S : c.pool[x] # Null
    BY <1>2 DEF L, Lives, pl
  <2>2. \A x \in S : pl[x].sbeg # p
    BY <1>2, <1>6, <1>9, <1>0, <1>5
  <2>3. \A x \in S : x # p => pl[x].next # p
    <3> SUFFICES ASSUME NEW x \in S, x # p, pl[x].next = p PROVE FALSE
      OBVIOUS
    <3>1. pl[p].base = pl[x].base
      BY <1>2, <1>6, <1>0, <1>5
    <3> QED
      BY <3>1, <1>7, <1>9
  <2>4. \A x \in S : \A f \in Ways(p, x) : At(c, x, f) # p
    BY <2>2, <2>3, <1>3 DEF Ways
  <2>5. ASSUME NEW x \in S, NEW y \in S, NEW z \in S, NEW f \in Ways(p, x), NEW g \in Ways(p, y),
               At(c, x, f) = z, At(c, y, g) = z
        PROVE  x = y /\ f = g
    <3>1. z # Null /\ x \in L /\ y \in L
      BY <1>0, <1>2, <1>5
    <3>2. CASE f = "sbeg" /\ g = "sbeg"
      BY <3>1, <3>2, <2>5, <1>3, <1>6
    <3>3. CASE f = "next" /\ g = "next" /\ x # p /\ y # p
      BY <3>1, <3>3, <2>5, <1>3, <1>6
    <3>4. CASE f = "sbeg" /\ g = "next" /\ y # p
      <4>1. pl[z].prev = Null /\ pl[z].prev = y
        BY <3>1, <3>4, <2>5, <1>3, <1>6
      <4> QED
        BY <4>1, <3>1, <1>0, <1>5
    <3>5. CASE f = "next" /\ g = "sbeg" /\ x # p
      <4>1. pl[z].prev = Null /\ pl[z].prev = x
        BY <3>1, <3>5, <2>5, <1>3, <1>6
      <4> QED
        BY <4>1, <3>1, <1>0, <1>5
    <3> QED
      BY <3>2, <3>3, <3>4, <3>5 DEF Ways
  <2> QED
    BY <2>1, <2>4, <2>5 DEF Astray, S
<1> QED
  <2>1. \A x \in S \ {p} : pl[x].base \in S
    BY <1>7
  <2> QED
    BY <2>1, <1>2, <1>10, <1>11, <1>12 DEF S, L, pl

-----------------------------------------------------------------------------
(* Lists *)

\* Is the block b in the list of the pool x?
On(pl, x, b) == \E i \in 1 .. Len(pl[x].beg) : pl[x].beg[i] = b

\* The lists hold the blocks that are not free, each in one place.
Listed(pl, rm) ==
  /\ \A x \in Lives(pl), i \in Nat \ {0} : i <= Len(pl[x].beg) => rm[pl[x].beg[i]] # 0
  /\ \A b \in Mem : rm[b] # 0 => \E x \in Lives(pl) : On(pl, x, b)
  /\ \A x, y \in Lives(pl), i, j \in Nat \ {0} :
       /\ i <= Len(pl[x].beg) /\ j <= Len(pl[y].beg) /\ pl[x].beg[i] = pl[y].beg[j]
       => x = y /\ i = j

\* What holders hold is listed, and large enough.
Serves(pl, rm, hd) ==
  \A b \in DOMAIN hd :
    /\ hd[b].p \in Lives(pl) /\ On(pl, hd[b].p, b) /\ hd[b].size <= rm[b]

Rooms == [Mem -> Nat]
Holdings == UNION {[S -> [p : Pool, size : Nat]] : S \in SUBSET Mem}

Good(pl, rm, hd) ==
  /\ pl \in Pools1 /\ rm \in Rooms /\ hd \in Holdings
  /\ \E rank \in Ranks : Linked(pl, rank)
  /\ Listed(pl, rm) /\ Serves(pl, rm, hd)

\* The inductive invariant.
Inv == Good(pool, room, held) /\ wild = FALSE

\* The mapping to Regions, of any pools.
ParentOf(pl) == [p \in Pool |-> IF p \notin Lives(pl) THEN "none"
                                ELSE IF pl[p].base = Null THEN "top" ELSE pl[p].base]
OwnerOf(pl) == [b \in Mem |-> AnyOf({p \in Lives(pl) : On(pl, p, b)})]
SizesOf(hd) == [b \in DOMAIN hd |-> hd[b].size]

\* The mapping of UstrPool to Regions, before a step and after.
LEMMA Mapped ==
  /\ Parent = ParentOf(pool) /\ Owner = OwnerOf(pool) /\ Sizes = SizesOf(held)
  /\ Parent' = ParentOf(pool') /\ Owner' = OwnerOf(pool') /\ Sizes' = SizesOf(held')
<1>1. \A p \in Live : \A b : b \in Nodes(p) <=> On(pool, p, b)
  BY DEF Nodes, On
<1>2. \A p \in Live' : \A b : b \in Nodes(p)' <=> On(pool', p, b)
  BY DEF Nodes, On
<1>3. Live = Lives(pool) /\ Live' = Lives(pool')
  BY DEF Live, Lives
<1>4. Owner = OwnerOf(pool)
  <2>1. \A b : {p \in Live : b \in Nodes(p)} = {p \in Lives(pool) : On(pool, p, b)}
    BY <1>1, <1>3
  <2> QED
    BY <2>1 DEF Owner, OwnerOf
<1>5. Owner' = OwnerOf(pool')
  <2>1. \A b : {p \in Live' : b \in Nodes(p)'} = {p \in Lives(pool') : On(pool', p, b)}
    BY <1>2, <1>3
  <2> QED
    BY <2>1 DEF Owner, OwnerOf
<1> QED
  BY <1>3, <1>4, <1>5 DEF Parent, ParentOf, Sizes, SizesOf

\* The owner of a block is the pool in whose list it is.
LEMMA OwnerIs ==
  ASSUME NEW pl \in Pools1, NEW rm \in Rooms, Listed(pl, rm), NEW b \in Mem
  PROVE  /\ \A x \in Pool : OwnerOf(pl)[b] = x <=> x \in Lives(pl) /\ On(pl, x, b)
         /\ OwnerOf(pl)[b] = "none" <=> rm[b] = 0
         /\ OwnerOf(pl)[b] \in Pool \cup {"none"}
<1> DEFINE ps == {p \in Lives(pl) : On(pl, p, b)}
<1>1. OwnerOf(pl)[b] = IF ps = {} THEN "none" ELSE CHOOSE p \in ps : TRUE
  BY DEF OwnerOf, AnyOf
<1>2. \A x, y \in ps : x = y
  BY DEF Listed, On
<1>3. ps \subseteq Pool /\ "none" \notin Pool
  BY PoolAssumption DEF Lives
<1>4. rm[b] # 0 <=> ps # {}
  BY DEF Listed, On
<1>5. ps # {} => OwnerOf(pl)[b] \in ps
  BY <1>1
<1> HIDE DEF ps
<1>6. \A x \in Pool : x \in ps <=> x \in Lives(pl) /\ On(pl, x, b)
  BY DEF ps
<1>7. CASE ps = {}
  BY <1>1, <1>3, <1>4, <1>6, <1>7
<1>8. CASE ps # {}
  BY <1>2, <1>3, <1>4, <1>5, <1>6, <1>8
<1> QED
  BY <1>7, <1>8

\* Two tables with the same links are linked alike.
SameLinks(pl, more) ==
  /\ Lives(more) = Lives(pl)
  /\ \A x \in Lives(pl) : /\ more[x].sbeg = pl[x].sbeg /\ more[x].base = pl[x].base
                          /\ more[x].next = pl[x].next /\ more[x].prev = pl[x].prev

\* Pools whose links did not change are linked as before.
LEMMA LinksSame ==
  ASSUME NEW pl \in Pools1, NEW more \in Pools1, SameLinks(pl, more),
         NEW rank \in Ranks, Linked(pl, rank)
  PROVE  Linked(more, rank) /\ ParentOf(more) = ParentOf(pl)
<1>1. ASSUME NEW x \in Lives(pl) PROVE LinkedDown(more, x, rank) /\ LinkedBeside(more, x, rank)
  <2>1. LinkedDown(pl, x, rank) /\ LinkedBeside(pl, x, rank)
    BY DEF Linked
  <2> QED
    BY <1>1, <2>1 DEF LinkedDown, LinkedBeside, SameLinks
<1>2. ParentOf(more) = ParentOf(pl)
  BY DEF ParentOf, SameLinks
<1> QED
  BY <1>1, <1>2 DEF Linked, SameLinks

\* One pool gets another list; the blocks that come to it were free.
Relists(pl, rm, p, list, more, room2) ==
  /\ pl \in Pools1 /\ rm \in Rooms /\ room2 \in Rooms /\ Listed(pl, rm)
  /\ p \in Lives(pl) /\ list \in Seq(Mem) /\ more = [pl EXCEPT ![p].beg = list]
  /\ \A i, j \in 1 .. Len(list) : list[i] = list[j] => i = j
  /\ \A b \in Mem : (\E i \in 1 .. Len(list) : list[i] = b)
                      => room2[b] # 0 /\ (On(pl, p, b) \/ rm[b] = 0)
  /\ \A b \in Mem : (\A i \in 1 .. Len(list) : list[i] # b)
                      => (room2[b] # 0 <=> rm[b] # 0 /\ ~On(pl, p, b))

\* A list that turns into another one with the blocks it should have.
LEMMA ListTurns ==
  ASSUME NEW pl, NEW rm, NEW p, NEW list, NEW more, NEW room2,
         Relists(pl, rm, p, list, more, room2)
  PROVE  /\ more \in Pools1 /\ SameLinks(pl, more) /\ Listed(more, room2)
         /\ \A b \in Mem, x \in Lives(pl) \ {p} : On(more, x, b) <=> On(pl, x, b)
         /\ \A b \in Mem : On(more, p, b) <=> \E i \in 1 .. Len(list) : list[i] = b
<1>a. /\ pl \in Pools1 /\ rm \in Rooms /\ room2 \in Rooms
      /\ p \in Lives(pl) /\ list \in Seq(Mem) /\ more = [pl EXCEPT ![p].beg = list]
      /\ \A i, j \in 1 .. Len(list) : list[i] = list[j] => i = j
      /\ \A b \in Mem : (\E i \in 1 .. Len(list) : list[i] = b)
                          => room2[b] # 0 /\ (On(pl, p, b) \/ rm[b] = 0)
      /\ \A b \in Mem : (\A i \in 1 .. Len(list) : list[i] # b)
                          => (room2[b] # 0 <=> rm[b] # 0 /\ ~On(pl, p, b))
  BY DEF Relists
<1>b. /\ \A x \in Lives(pl), i \in Nat \ {0} : i <= Len(pl[x].beg) => rm[pl[x].beg[i]] # 0
      /\ \A b \in Mem : rm[b] # 0 => \E x \in Lives(pl) : On(pl, x, b)
      /\ \A x, y \in Lives(pl), i, j \in Nat \ {0} :
           /\ i <= Len(pl[x].beg) /\ j <= Len(pl[y].beg) /\ pl[x].beg[i] = pl[y].beg[j]
           => x = y /\ i = j
  BY DEF Relists, Listed
<1>0. /\ p \in Pool /\ pl[p] \in Bases /\ pl[p] # Null /\ list \in Seq(Mem) /\ Len(list) \in Nat
      /\ Null \notin Bases
  BY <1>a, Fields, PoolAssumption
<1>1. [pl[p] EXCEPT !.beg = list] \in Bases
  BY <1>a, <1>0 DEF Bases
<1>2. /\ more \in Pools1 /\ more[p] = [pl[p] EXCEPT !.beg = list] /\ more[p] # Null
      /\ \A x \in Pool \ {p} : more[x] = pl[x]
  BY <1>a, <1>0, <1>1 DEF Pools1
<1>3. Lives(more) = Lives(pl)
  BY <1>a, <1>2, <1>0 DEF Lives
<1>4. /\ more[p].beg = list /\ more[p].sbeg = pl[p].sbeg /\ more[p].base = pl[p].base
      /\ more[p].next = pl[p].next /\ more[p].prev = pl[p].prev
  BY <1>a, <1>2, <1>0 DEF Bases
<1>5. SameLinks(pl, more)
  BY <1>a, <1>2, <1>3, <1>4 DEF SameLinks, Lives
<1>6. /\ \A b \in Mem, x \in Lives(pl) \ {p} : On(more, x, b) <=> On(pl, x, b)
      /\ \A b \in Mem : On(more, p, b) <=> \E i \in 1 .. Len(list) : list[i] = b
  BY <1>a, <1>2, <1>4 DEF On, Lives
<1>7. Listed(more, room2)
  <2>1. ASSUME NEW x \in Lives(pl), NEW i \in Nat \ {0}, i <= Len(more[x].beg)
        PROVE  /\ more[x].beg[i] \in Mem /\ room2[more[x].beg[i]] # 0
               /\ x # p => ~On(pl, p, more[x].beg[i]) /\ rm[more[x].beg[i]] # 0
    <3>1. CASE x = p
      <4>1. i \in 1 .. Len(list) /\ list[i] \in Mem
        BY <1>a, <2>1, <3>1, <1>0, <1>4
      <4> QED
        BY <1>a, <3>1, <4>1, <1>4
    <3>2. CASE x # p
      <4>1. more[x] = pl[x] /\ pl[x].beg \in Seq(Mem) /\ i \in 1 .. Len(pl[x].beg)
        BY <1>a, <2>1, <3>2, <1>2, Fields DEF Lives
      <4>2. pl[x].beg[i] \in Mem
        BY <4>1
      <4>3. rm[pl[x].beg[i]] # 0
        BY <4>1, <1>b
      <4>4. ASSUME NEW j \in 1 .. Len(pl[p].beg), pl[p].beg[j] = pl[x].beg[i] PROVE FALSE
        <5>1. j \in Nat \ {0} /\ j <= Len(pl[p].beg) /\ i <= Len(pl[x].beg)
          BY <4>1, <1>0, Fields, <1>a
        <5> QED
          BY <5>1, <4>4, <3>2, <1>a, <1>b
      <4>5. ~On(pl, p, pl[x].beg[i])
        BY <4>4 DEF On
      <4>6. room2[pl[x].beg[i]] # 0
        BY <1>a, <4>2, <4>3, <4>5
      <4> QED
        BY <4>1, <4>2, <4>3, <4>5, <4>6
    <3> QED
      BY <1>a, <3>1, <3>2
  <2>2. ASSUME NEW b \in Mem, room2[b] # 0 PROVE \E x \in Lives(pl) : On(more, x, b)
    <3>1. CASE \E i \in 1 .. Len(list) : list[i] = b
      BY <1>a, <3>1, <1>6
    <3>2. CASE \A i \in 1 .. Len(list) : list[i] # b
      <4>1. rm[b] # 0 /\ ~On(pl, p, b)
        BY <1>a, <2>2, <3>2
      <4>2. PICK x \in Lives(pl) : On(pl, x, b)
        BY <4>1, <1>b
      <4>3. x \in Lives(pl) \ {p}
        BY <4>1, <4>2
      <4> QED
        BY <4>2, <4>3, <1>6
    <3> QED
      BY <1>a, <3>1, <3>2
  <2>3. ASSUME NEW x \in Lives(pl), NEW y \in Lives(pl), NEW i \in Nat \ {0}, NEW j \in Nat \ {0},
               i <= Len(more[x].beg), j <= Len(more[y].beg), more[x].beg[i] = more[y].beg[j]
        PROVE  x = y /\ i = j
    <3>1. CASE x = p /\ y = p
      BY <1>a, <2>3, <3>1, <1>0, <1>4
    <3>2. CASE x # p /\ y # p
      <4>1. more[x] = pl[x] /\ more[y] = pl[y]
        BY <1>a, <3>2, <1>2 DEF Lives
      <4> QED
        BY <2>3, <4>1, <1>b
    <3>3. CASE x = p /\ y # p
      <4>1. i \in 1 .. Len(list) /\ more[x].beg[i] = list[i] /\ list[i] \in Mem
        BY <1>a, <2>3, <3>3, <1>0, <1>4
      <4>2. On(pl, p, list[i]) \/ rm[list[i]] = 0
        BY <1>a, <4>1
      <4> QED
        BY <1>a, <4>1, <4>2, <3>3, <2>3, <2>1
    <3>4. CASE x # p /\ y = p
      <4>1. j \in 1 .. Len(list) /\ more[y].beg[j] = list[j] /\ list[j] \in Mem
        BY <1>a, <2>3, <3>4, <1>0, <1>4
      <4>2. On(pl, p, list[j]) \/ rm[list[j]] = 0
        BY <1>a, <4>1
      <4> QED
        BY <1>a, <4>1, <4>2, <3>4, <2>3, <2>1
    <3> QED
      BY <3>1, <3>2, <3>3, <3>4
  <2>4. \A x \in Lives(pl), i \in Nat \ {0} : i <= Len(more[x].beg) => room2[more[x].beg[i]] # 0
    BY <2>1
  <2>5. \A x, y \in Lives(pl), i, j \in Nat \ {0} :
          i <= Len(more[x].beg) /\ j <= Len(more[y].beg) /\ more[x].beg[i] = more[y].beg[j]
            => x = y /\ i = j
    BY <2>3
  <2> QED
    BY <2>2, <2>4, <2>5, <1>3 DEF Listed
<1>8. more \in Pools1
  BY <1>2
<1> QED
  BY <1>8, <1>5, <1>6, <1>7

\* What holders hold is a map from blocks.
LEMMA HoldingIs ==
  ASSUME NEW hd
  PROVE  hd \in Holdings <=> /\ DOMAIN hd \in SUBSET Mem
                             /\ hd \in [DOMAIN hd -> [p : Pool, size : Nat]]
<1>1. ASSUME NEW S \in SUBSET Mem, hd \in [S -> [p : Pool, size : Nat]]
      PROVE  DOMAIN hd = S
  BY <1>1
<1> QED
  BY <1>1 DEF Holdings

\* A holder gets a block, instead of those in out.
Holding(hd, out, b, p, size) ==
  [x \in (DOMAIN hd \ out) \cup {b} |-> IF x = b THEN [p |-> p, size |-> size] ELSE hd[x]]

\* A holding stays one when a block is added,
LEMMA HoldingGrows ==
  ASSUME NEW hd \in Holdings, NEW out, NEW b \in Mem, NEW p \in Pool, NEW size \in Nat
  PROVE  Holding(hd, out, b, p, size) \in Holdings
<1> DEFINE hd2 == Holding(hd, out, b, p, size)
<1>1. DOMAIN hd \in SUBSET Mem /\ hd \in [DOMAIN hd -> [p : Pool, size : Nat]]
  BY HoldingIs
<1>2. DOMAIN hd2 \in SUBSET Mem /\ hd2 \in [DOMAIN hd2 -> [p : Pool, size : Nat]]
  BY <1>1 DEF Holding
<1> QED
  BY <1>2, HoldingIs

\* or some are lost.
LEMMA HoldingDrops ==
  ASSUME NEW hd \in Holdings, NEW out, NEW hd2, hd2 = Drop(hd, out)
  PROVE  /\ hd2 \in Holdings /\ DOMAIN hd2 = DOMAIN hd \ out
         /\ \A x \in DOMAIN hd2 : hd2[x] = hd[x]
<1>1. DOMAIN hd \in SUBSET Mem /\ hd \in [DOMAIN hd -> [p : Pool, size : Nat]]
  BY HoldingIs
<1>2. DOMAIN hd2 = DOMAIN hd \ out /\ \A x \in DOMAIN hd2 : hd2[x] = hd[x]
  BY DEF Drop
<1>3. DOMAIN hd2 \in SUBSET Mem /\ hd2 \in [DOMAIN hd2 -> [p : Pool, size : Nat]]
  BY <1>1 DEF Drop
<1> QED
  BY <1>2, <1>3, HoldingIs

\* Blocks come to the list of a pool, and others leave it.
Turns(pl, rm, hd, p, list, more, room2, in, out) ==
  /\ Good(pl, rm, hd) /\ p \in Lives(pl)
  /\ list \in Seq(Mem) /\ more = [pl EXCEPT ![p].beg = list] /\ room2 \in Rooms
  /\ in \in SUBSET Mem /\ out \in SUBSET Mem
  /\ \A i, j \in 1 .. Len(list) : list[i] = list[j] => i = j
  /\ \A b \in Mem : (\E i \in 1 .. Len(list) : list[i] = b)
                      <=> b \in in \/ (On(pl, p, b) /\ b \notin out)
  /\ \A b \in in : room2[b] # 0 /\ (rm[b] = 0 \/ b \in out)
  /\ \A b \in out : On(pl, p, b)
  /\ \A b \in out \ in : room2[b] = 0
  /\ \A b \in Mem \ (in \cup out) : room2[b] = rm[b]

\* What is then held are blocks that came, or blocks that were held before.
Follows(hd, p, room2, in, out, hd2) ==
  /\ hd2 \in Holdings
  /\ \A b \in DOMAIN hd2 : \/ b \in in /\ hd2[b].p = p /\ hd2[b].size <= room2[b]
                           \/ b \in DOMAIN hd \ (in \cup out) /\ hd2[b] = hd[b]

\* One list and its blocks change: the invariant goes on.
LEMMA BlockTurns ==
  ASSUME NEW pl, NEW rm, NEW hd, NEW p, NEW list, NEW more, NEW room2, NEW in, NEW out, NEW hd2,
         Turns(pl, rm, hd, p, list, more, room2, in, out), Follows(hd, p, room2, in, out, hd2)
  PROVE  /\ Good(more, room2, hd2) /\ ParentOf(more) = ParentOf(pl)
         /\ OwnerOf(more) = [c \in Mem |-> IF c \in in THEN p ELSE IF c \in out THEN "none"
                                           ELSE OwnerOf(pl)[c]]
<1>1. /\ Good(pl, rm, hd) /\ p \in Lives(pl)
      /\ list \in Seq(Mem) /\ more = [pl EXCEPT ![p].beg = list] /\ room2 \in Rooms
      /\ in \in SUBSET Mem /\ out \in SUBSET Mem
      /\ \A i, j \in 1 .. Len(list) : list[i] = list[j] => i = j
  BY DEF Turns
<1>2. /\ pl \in Pools1 /\ rm \in Rooms /\ hd \in Holdings
      /\ Listed(pl, rm) /\ Serves(pl, rm, hd)
  BY <1>1 DEF Good
<1>3. \A b \in Mem : (\E i \in 1 .. Len(list) : list[i] = b)
                       <=> b \in in \/ (On(pl, p, b) /\ b \notin out)
  BY DEF Turns
<1>4. /\ \A b \in in : room2[b] # 0 /\ (rm[b] = 0 \/ b \in out)
      /\ \A b \in out : On(pl, p, b)
      /\ \A b \in out \ in : room2[b] = 0
      /\ \A b \in Mem \ (in \cup out) : room2[b] = rm[b]
  BY DEF Turns
<1>5. \A b \in Mem, x \in Lives(pl) : On(pl, x, b) => rm[b] # 0
  BY <1>2, <1>1, OwnerIs, PoolAssumption DEF Lives
<1>6. Relists(pl, rm, p, list, more, room2)
  <2>1. ASSUME NEW b \in Mem, \E i \in 1 .. Len(list) : list[i] = b
        PROVE  room2[b] # 0 /\ (On(pl, p, b) \/ rm[b] = 0)
    BY <2>1, <1>1, <1>3, <1>4, <1>5
  <2>2. ASSUME NEW b \in Mem, \A i \in 1 .. Len(list) : list[i] # b
        PROVE  room2[b] # 0 <=> rm[b] # 0 /\ ~On(pl, p, b)
    BY <2>2, <1>1, <1>3, <1>4, <1>5
  <2> QED
    BY <2>1, <2>2, <1>1, <1>2 DEF Relists
<1>7. /\ more \in Pools1 /\ SameLinks(pl, more) /\ Listed(more, room2)
      /\ \A b \in Mem, x \in Lives(pl) \ {p} : On(more, x, b) <=> On(pl, x, b)
      /\ \A b \in Mem : On(more, p, b) <=> \E i \in 1 .. Len(list) : list[i] = b
  BY <1>6, ListTurns
<1>8. PICK rank \in Ranks : Linked(pl, rank)
  BY <1>1 DEF Good
<1>9. Linked(more, rank) /\ ParentOf(more) = ParentOf(pl) /\ Lives(more) = Lives(pl)
  BY <1>2, <1>7, <1>8, LinksSame DEF SameLinks
<1>10. Serves(more, room2, hd2)
  <2> SUFFICES ASSUME NEW b \in DOMAIN hd2
               PROVE  /\ hd2[b].p \in Lives(pl) /\ On(more, hd2[b].p, b)
                      /\ hd2[b].size <= room2[b]
    BY <1>9 DEF Serves
  <2>1. CASE b \in in /\ hd2[b].p = p /\ hd2[b].size <= room2[b]
    BY <2>1, <1>1, <1>3, <1>7
  <2>2. CASE b \in DOMAIN hd \ (in \cup out) /\ hd2[b] = hd[b]
    <3>1. /\ hd[b].p \in Lives(pl) /\ On(pl, hd[b].p, b) /\ hd[b].size <= rm[b] /\ b \in Mem
      BY <2>2, <1>2, HoldingIs DEF Serves
    <3>2. room2[b] = rm[b]
      BY <2>2, <3>1, <1>4
    <3>3. CASE hd[b].p = p
      BY <2>2, <3>1, <3>2, <3>3, <1>3, <1>7
    <3>4. CASE hd[b].p # p
      BY <2>2, <3>1, <3>2, <3>4, <1>7
    <3> QED
      BY <3>3, <3>4
  <2> QED
    BY <2>1, <2>2 DEF Follows
<1>11. OwnerOf(more) = [c \in Mem |-> IF c \in in THEN p ELSE IF c \in out THEN "none"
                                      ELSE OwnerOf(pl)[c]]
  <2> SUFFICES ASSUME NEW c \in Mem
               PROVE  OwnerOf(more)[c] = IF c \in in THEN p ELSE IF c \in out THEN "none"
                                         ELSE OwnerOf(pl)[c]
    BY DEF OwnerOf
  <2>0. p \in Pool /\ \A x \in Lives(pl) : x \in Pool
    BY <1>1 DEF Lives
  <2>1. /\ \A x \in Pool : OwnerOf(more)[c] = x <=> x \in Lives(pl) /\ On(more, x, c)
        /\ OwnerOf(more)[c] = "none" <=> room2[c] = 0
    BY <1>7, <1>9, <1>1, OwnerIs
  <2>2. /\ \A x \in Pool : OwnerOf(pl)[c] = x <=> x \in Lives(pl) /\ On(pl, x, c)
        /\ OwnerOf(pl)[c] = "none" <=> rm[c] = 0
        /\ OwnerOf(pl)[c] \in Pool \cup {"none"}
    BY <1>2, OwnerIs
  <2>3. CASE c \in in
    BY <2>0, <2>1, <2>3, <1>1, <1>3, <1>7
  <2>4. CASE c \notin in /\ c \in out
    BY <2>1, <2>4, <1>4
  <2>5. CASE c \notin in /\ c \notin out /\ OwnerOf(pl)[c] = "none"
    BY <2>1, <2>2, <2>5, <1>4
  <2>6. CASE c \notin in /\ c \notin out /\ OwnerOf(pl)[c] # "none"
    <3>1. PICK x \in Pool : OwnerOf(pl)[c] = x
      BY <2>2, <2>6
    <3>2. x \in Lives(pl) /\ On(pl, x, c)
      BY <2>2, <3>1
    <3>3. On(more, x, c)
      BY <2>6, <3>2, <1>3, <1>7
    <3> QED
      BY <2>1, <2>6, <3>1, <3>2, <3>3
  <2> QED
    BY <2>3, <2>4, <2>5, <2>6
<1>12. hd2 \in Holdings
  BY DEF Follows
<1> QED
  BY <1>1, <1>7, <1>9, <1>10, <1>11, <1>12 DEF Good

\* A sequence with one more in front.
LEMMA FrontOf ==
  ASSUME NEW S, NEW s \in Seq(S), NEW b \in S
  PROVE  /\ <<b>> \o s \in Seq(S) /\ Len(<<b>> \o s) = Len(s) + 1 /\ (<<b>> \o s)[1] = b
         /\ \A i \in 1 .. Len(s) : (<<b>> \o s)[i + 1] = s[i]
<1> DEFINE t == <<b>>
<1>1. t \in Seq(S) /\ Len(t) = 1 /\ t[1] = b
  OBVIOUS
<1>2. Len(s) \in Nat
  OBVIOUS
<1> HIDE DEF t
<1>3. /\ t \o s \in Seq(S) /\ Len(t \o s) = Len(s) + 1 /\ (t \o s)[1] = b
         /\ \A i \in 1 .. Len(s) : (t \o s)[i + 1] = s[i]
  BY <1>1, <1>2, ConcatProperties
<1> QED
  BY <1>3 DEF t

\* The same without its i-th element.
LEMMA Without ==
  ASSUME NEW S, NEW s \in Seq(S), NEW i \in 1 .. Len(s)
  PROVE  LET list == SubSeq(s, 1, i - 1) \o SubSeq(s, i + 1, Len(s)) IN
         /\ list \in Seq(S) /\ Len(list) = Len(s) - 1
         /\ \A j \in 1 .. Len(list) : list[j] = IF j < i THEN s[j] ELSE s[j + 1]
<1> DEFINE u == SubSeq(s, 1, i - 1)
           v == SubSeq(s, i + 1, Len(s))
           list == u \o v
<1>1. Len(s) \in Nat /\ \A j \in 1 .. Len(s) : s[j] \in S
  OBVIOUS
<1>2. u \in Seq(S) /\ Len(u) = i - 1 /\ \A j \in 1 .. i - 1 : u[j] = s[1 + j - 1]
  BY <1>1, SubSeqProperties
<1>3. v \in Seq(S) /\ Len(v) = Len(s) - i /\ \A j \in 1 .. Len(s) - i : v[j] = s[(i + 1) + j - 1]
  BY <1>1, SubSeqProperties
<1> HIDE DEF u, v
<1>4. /\ u \o v \in Seq(S) /\ Len(u \o v) = Len(u) + Len(v)
      /\ \A j \in 1 .. Len(u) + Len(v) : (u \o v)[j] = IF j <= Len(u) THEN u[j] ELSE v[j - Len(u)]
  BY <1>2, <1>3, ConcatProperties
<1>5. list = u \o v
  OBVIOUS
<1> HIDE DEF list
<1>6. list \in Seq(S) /\ Len(list) = Len(s) - 1
  <2>1. Len(u) + Len(v) = Len(s) - 1
    BY <1>1, <1>2, <1>3
  <2> QED
    BY <2>1, <1>4, <1>5
<1>7. ASSUME NEW j \in 1 .. Len(list) PROVE list[j] = IF j < i THEN s[j] ELSE s[j + 1]
  <2>1. list[j] = IF j <= Len(u) THEN u[j] ELSE v[j - Len(u)]
    <3>1. j \in 1 .. Len(u) + Len(v)
      BY <1>4, <1>5
    <3> QED
      BY <3>1, <1>4, <1>5
  <2>2. CASE j < i
    <3>1. j \in 1 .. i - 1 /\ 1 + j - 1 = j /\ j <= Len(u)
      BY <2>2, <1>1, <1>2
    <3> QED
      BY <2>1, <2>2, <3>1, <1>2
  <2>3. CASE ~(j < i)
    <3>1. j - Len(u) \in 1 .. Len(s) - i /\ (i + 1) + (j - Len(u)) - 1 = j + 1
      BY <2>3, <1>1, <1>2, <1>6
    <3>2. ~(j <= Len(u))
      BY <2>3, <1>1, <1>2, <1>6
    <3>3. v[j - Len(u)] = s[j + 1]
      BY <3>1, <1>3
    <3> QED
      BY <2>1, <2>3, <3>2, <3>3
  <2> QED
    BY <2>2, <2>3
<1> QED
  BY <1>6, <1>7 DEF list, u, v

\* What is in a list is there, once.
LEMMA ListIs ==
  ASSUME NEW pl \in Pools1, NEW rm, Listed(pl, rm), NEW x \in Lives(pl)
  PROVE  /\ \A i \in 1 .. Len(pl[x].beg) : pl[x].beg[i] \in Mem /\ rm[pl[x].beg[i]] # 0
         /\ \A i, j \in 1 .. Len(pl[x].beg) : pl[x].beg[i] = pl[x].beg[j] => i = j
<1>1. pl[x].beg \in Seq(Mem) /\ Len(pl[x].beg) \in Nat
  BY Fields
<1> QED
  BY <1>1 DEF Listed

\* The ways a list changes: a new first block,
LEMMA Prepended ==
  ASSUME NEW pl, NEW rm, NEW hd, Good(pl, rm, hd), NEW p \in Lives(pl), NEW b \in Mem, rm[b] = 0,
         NEW list \in Seq(Mem), Len(list) = Len(pl[p].beg) + 1, list[1] = b,
         \A i \in 1 .. Len(pl[p].beg) : list[i + 1] = pl[p].beg[i],
         NEW size \in Nat \ {0}, NEW more, more = [pl EXCEPT ![p].beg = list],
         NEW room2, room2 = [rm EXCEPT ![b] = size]
  PROVE  Turns(pl, rm, hd, p, list, more, room2, {b}, {})
<1> DEFINE beg == pl[p].beg
<1>1. pl \in Pools1 /\ rm \in Rooms /\ Listed(pl, rm) /\ p \in Pool
  BY DEF Good, Lives
<1>2. pl[p] \in Bases /\ beg \in Seq(Mem) /\ Len(beg) \in Nat
  BY <1>1, Fields
<1>3. /\ list \in Seq(Mem) /\ Len(list) = Len(beg) + 1 /\ list[1] = b
      /\ \A i \in 1 .. Len(beg) : list[i + 1] = beg[i]
      /\ \A i \in 1 .. Len(list) : i # 1 => i - 1 \in 1 .. Len(beg) /\ list[i] = beg[i - 1]
  <2>1. ASSUME NEW i \in 1 .. Len(list), i # 1
        PROVE  i - 1 \in 1 .. Len(beg) /\ list[i] = beg[i - 1]
    <3>1. i - 1 \in 1 .. Len(beg) /\ (i - 1) + 1 = i
      BY <1>2, <2>1
    <3> QED
      BY <3>1
  <2> QED
    BY <2>1
<1>4. /\ \A i \in 1 .. Len(beg) : beg[i] \in Mem /\ rm[beg[i]] # 0
      /\ \A i, j \in 1 .. Len(beg) : beg[i] = beg[j] => i = j
  BY <1>1, ListIs
<1>5. more = [pl EXCEPT ![p].beg = list] /\ room2 \in Rooms
  BY <1>1 DEF Rooms
<1>6. ASSUME NEW i \in 1 .. Len(list), NEW j \in 1 .. Len(list), list[i] = list[j] PROVE i = j
  <2>0. ASSUME NEW k \in 1 .. Len(list), k # 1 PROVE rm[list[k]] # 0
    <3>1. k - 1 \in 1 .. Len(beg) /\ list[k] = beg[k - 1]
      BY <1>3, <2>0
    <3> QED
      BY <3>1, <1>4
  <2>1. CASE i = 1 /\ j # 1
    BY <2>0, <2>1, <1>3, <1>6
  <2>2. CASE i # 1 /\ j = 1
    BY <2>0, <2>2, <1>3, <1>6
  <2>3. CASE i # 1 /\ j # 1
    <3>1. i - 1 = j - 1
      BY <2>3, <1>3, <1>4, <1>6
    <3> QED
      BY <3>1, <1>2, <1>3
  <2> QED
    BY <2>1, <2>2, <2>3
<1>7. ASSUME NEW c \in Mem
      PROVE  (\E i \in 1 .. Len(list) : list[i] = c) <=> c \in {b} \/ (On(pl, p, c) /\ c \notin {})
  <2>1. ASSUME NEW i \in 1 .. Len(list), list[i] = c PROVE c = b \/ On(pl, p, c)
    BY <2>1, <1>3 DEF On
  <2>2. c = b => \E i \in 1 .. Len(list) : list[i] = c
    BY <1>2, <1>3
  <2>3. ASSUME On(pl, p, c) PROVE \E i \in 1 .. Len(list) : list[i] = c
    <3>1. PICK i \in 1 .. Len(beg) : beg[i] = c
      BY <2>3 DEF On
    <3>2. i + 1 \in 1 .. Len(list) /\ list[i + 1] = c
      BY <3>1, <1>2, <1>3
    <3> QED
      BY <3>2
  <2> QED
    BY <2>1, <2>2, <2>3
<1>8. room2[b] = size /\ \A c \in Mem \ {b} : room2[c] = rm[c]
  BY <1>1 DEF Rooms
<1> QED
  BY <1>3, <1>5, <1>6, <1>7, <1>8 DEF Turns

\* another first block in the place of the old one,
LEMMA HeadMoved ==
  ASSUME NEW pl, NEW rm, NEW hd, Good(pl, rm, hd), NEW p \in Lives(pl), NEW b \in Mem,
         pl[p].beg # <<>>, NEW old, old = pl[p].beg[1], rm[b] = 0 \/ b = old,
         NEW size \in Nat \ {0}, NEW more, more = [pl EXCEPT ![p].beg[1] = b],
         NEW room2, room2 = [[rm EXCEPT ![old] = 0] EXCEPT ![b] = size]
  PROVE  Turns(pl, rm, hd, p, [pl[p].beg EXCEPT ![1] = b], more, room2, {b}, {old})
<1> DEFINE beg == pl[p].beg
           list == [beg EXCEPT ![1] = b]
<1>1. pl \in Pools1 /\ rm \in Rooms /\ Listed(pl, rm) /\ p \in Pool
  BY DEF Good, Lives
<1>2. pl[p] \in Bases /\ beg \in Seq(Mem) /\ Len(beg) \in Nat /\ 1 \in 1 .. Len(beg) /\ old \in Mem
  BY <1>1, Fields
<1>3. /\ list \in Seq(Mem) /\ Len(list) = Len(beg) /\ list[1] = b
      /\ \A i \in 1 .. Len(beg) : i # 1 => list[i] = beg[i]
  BY <1>2
<1>4. /\ \A i \in 1 .. Len(beg) : beg[i] \in Mem /\ rm[beg[i]] # 0
      /\ \A i, j \in 1 .. Len(beg) : beg[i] = beg[j] => i = j
  BY <1>1, ListIs
<1>5. more = [pl EXCEPT ![p].beg = list] /\ room2 \in Rooms
  BY <1>1 DEF Rooms
<1> HIDE DEF list
<1>6. ASSUME NEW i \in 1 .. Len(list), NEW j \in 1 .. Len(list), list[i] = list[j] PROVE i = j
  <2>1. CASE i = 1 /\ j # 1
    BY <2>1, <1>2, <1>3, <1>4, <1>6
  <2>2. CASE i # 1 /\ j = 1
    BY <2>2, <1>2, <1>3, <1>4, <1>6
  <2>3. CASE i # 1 /\ j # 1
    BY <2>3, <1>3, <1>4, <1>6
  <2> QED
    BY <2>1, <2>2, <2>3
<1>7. ASSUME NEW c \in Mem
      PROVE  (\E i \in 1 .. Len(list) : list[i] = c) <=> c \in {b} \/ (On(pl, p, c) /\ c \notin {old})
  <2>1. ASSUME NEW i \in 1 .. Len(list), list[i] = c PROVE c = b \/ (On(pl, p, c) /\ c # old)
    BY <2>1, <1>2, <1>3, <1>4 DEF On
  <2>2. c = b => \E i \in 1 .. Len(list) : list[i] = c
    BY <1>2, <1>3
  <2>3. ASSUME On(pl, p, c), c # old PROVE \E i \in 1 .. Len(list) : list[i] = c
    <3>1. PICK i \in 1 .. Len(beg) : beg[i] = c
      BY <2>3 DEF On
    <3>2. i \in 1 .. Len(list) /\ list[i] = c
      BY <3>1, <2>3, <1>2, <1>3
    <3> QED
      BY <3>2
  <2> QED
    BY <2>1, <2>2, <2>3
<1>8. /\ room2[b] = size /\ (old # b => room2[old] = 0)
      /\ \A c \in Mem \ {b, old} : room2[c] = rm[c]
  BY <1>1, <1>2 DEF Rooms
<1>9. On(pl, p, old)
  BY <1>2 DEF On
<1> QED
  BY <1>2, <1>3, <1>5, <1>6, <1>7, <1>8, <1>9 DEF Turns, list

\* or one less.
LEMMA Removed ==
  ASSUME NEW pl, NEW rm, NEW hd, Good(pl, rm, hd), NEW p \in Lives(pl),
         NEW i \in 1 .. Len(pl[p].beg), NEW old, old = pl[p].beg[i],
         NEW list \in Seq(Mem), Len(list) = Len(pl[p].beg) - 1,
         \A j \in 1 .. Len(list) :
           list[j] = IF j < i THEN pl[p].beg[j] ELSE pl[p].beg[j + 1],
         NEW more, more = [pl EXCEPT ![p].beg = list],
         NEW room2, room2 = [rm EXCEPT ![old] = 0]
  PROVE  Turns(pl, rm, hd, p, list, more, room2, {}, {old})
<1> DEFINE beg == pl[p].beg
<1>1. pl \in Pools1 /\ rm \in Rooms /\ Listed(pl, rm) /\ p \in Pool
  BY DEF Good, Lives
<1>2. pl[p] \in Bases /\ beg \in Seq(Mem) /\ Len(beg) \in Nat /\ old \in Mem
  BY <1>1, Fields
<1>3. /\ list \in Seq(Mem) /\ Len(list) = Len(beg) - 1
      /\ \A j \in 1 .. Len(list) : list[j] = IF j < i THEN beg[j] ELSE beg[j + 1]
  OBVIOUS
<1>4. /\ \A j \in 1 .. Len(beg) : beg[j] \in Mem /\ rm[beg[j]] # 0
      /\ \A j, k \in 1 .. Len(beg) : beg[j] = beg[k] => j = k
  BY <1>1, ListIs
<1>5. room2 \in Rooms
  BY <1>1 DEF Rooms
<1>6. ASSUME NEW j \in 1 .. Len(list), NEW k \in 1 .. Len(list), list[j] = list[k] PROVE j = k
  <2> DEFINE At1(m) == IF m < i THEN m ELSE m + 1
  <2>1. \A m \in 1 .. Len(list) : At1(m) \in 1 .. Len(beg) /\ list[m] = beg[At1(m)]
    BY <1>2, <1>3
  <2>2. At1(j) = At1(k)
    <3>1. At1(j) \in 1 .. Len(beg) /\ At1(k) \in 1 .. Len(beg) /\ beg[At1(j)] = beg[At1(k)]
      BY <2>1, <1>6
    <3> HIDE DEF At1
    <3> QED
      BY <3>1, <1>4
  <2> QED
    BY <2>2, <1>2, <1>3
<1>7. ASSUME NEW c \in Mem
      PROVE  (\E j \in 1 .. Len(list) : list[j] = c) <=> c \in {} \/ (On(pl, p, c) /\ c \notin {old})
  <2>1. ASSUME NEW j \in 1 .. Len(list), list[j] = c PROVE On(pl, p, c) /\ c # old
    <3> DEFINE k == IF j < i THEN j ELSE j + 1
    <3>1. k \in 1 .. Len(beg) /\ k # i /\ c = beg[k]
      BY <2>1, <1>2, <1>3
    <3> HIDE DEF k
    <3> QED
      BY <3>1, <1>4 DEF On
  <2>2. ASSUME On(pl, p, c), c # old PROVE \E j \in 1 .. Len(list) : list[j] = c
    <3>1. PICK k \in 1 .. Len(beg) : beg[k] = c
      BY <2>2 DEF On
    <3>2. k # i
      BY <3>1, <2>2
    <3>3. CASE k < i
      <4>1. k \in 1 .. Len(list) /\ list[k] = c
        BY <3>1, <3>3, <1>2, <1>3
      <4> QED
        BY <4>1
    <3>4. CASE k > i
      <4>1. k - 1 \in 1 .. Len(list) /\ list[k - 1] = beg[(k - 1) + 1] /\ (k - 1) + 1 = k
        BY <3>1, <3>4, <1>2, <1>3
      <4> QED
        BY <4>1, <3>1
    <3> QED
      BY <3>2, <3>3, <3>4
  <2> QED
    BY <2>1, <2>2
<1>8. room2[old] = 0 /\ \A c \in Mem \ {old} : room2[c] = rm[c]
  BY <1>1, <1>2 DEF Rooms
<1>9. On(pl, p, old)
  BY <1>2 DEF On
<1> QED
  BY <1>2, <1>3, <1>5, <1>6, <1>7, <1>8, <1>9 DEF Turns

-----------------------------------------------------------------------------
(* Calls for blocks *)

\* The parts of the invariant, by name.
LEMMA InvIs ==
  ASSUME Inv
  PROVE  /\ pool \in Pools1 /\ room \in Rooms /\ held \in Holdings /\ wild = FALSE
         /\ Good(pool, room, held) /\ Listed(pool, room) /\ Serves(pool, room, held)
         /\ Live = Lives(pool)
BY DEF Inv, Good, Live, Lives

\* The invariant after a call.
LEMMA InvTurns ==
  ASSUME Good(pool', room', held'), wild' = FALSE
  PROVE  Inv'
BY DEF Inv

\* Regions gives out a block.
LEMMA Gives ==
  ASSUME pool \in Pools1, NEW p \in Lives(pool), NEW b \in Mem, NEW old \in SUBSET Mem,
         \/ old = {}
         \/ \E x \in Mem : old = {x} /\ OwnerOf(pool)[x] = p,
         ParentOf(pool') = ParentOf(pool), OwnerOf(pool)[b] = "none" \/ b \in old,
         \/ OwnerOf(pool') = [OwnerOf(pool) EXCEPT ![b] = p]
         \/ OwnerOf(pool') = [[c \in Mem |-> IF c \in old THEN "none" ELSE OwnerOf(pool)[c]]
                                EXCEPT ![b] = p],
         DOMAIN held' = (DOMAIN held \ old) \cup {b},
         \A c \in DOMAIN held' \ {b} : held'[c] = held[c]
  PROVE  R!Give
<1>1. /\ Parent = ParentOf(pool) /\ Owner = OwnerOf(pool) /\ Sizes = SizesOf(held)
      /\ Parent' = ParentOf(pool') /\ Owner' = OwnerOf(pool') /\ Sizes' = SizesOf(held')
  BY Mapped
<1>2. p \in R!Pools
  <2>1. p \in Pool /\ "none" \notin Pool
    BY PoolAssumption DEF Lives
  <2>2. pool[p].base \in Pool \cup {Null}
    BY Fields
  <2>3. Parent[p] # "none"
    BY <1>1, <2>1, <2>2 DEF ParentOf
  <2> QED
    BY <2>1, <2>3 DEF R!Pools
<1>3. old \in {{}} \cup {{x} : x \in R!In({p})}
  BY <1>1 DEF R!In
<1>4. /\ DOMAIN Sizes' = (DOMAIN Sizes \ old) \cup {b}
      /\ \A c \in DOMAIN Sizes' \ {b} : Sizes'[c] = Sizes[c]
  BY <1>1 DEF SizesOf
<1>5. Parent' = Parent
  BY <1>1
<1>6. Owner[b] = "none" \/ b \in old
  BY <1>1
<1>7. \/ Owner' = [Owner EXCEPT ![b] = p]
      \/ Owner' = [[c \in Mem |-> IF c \in old THEN "none" ELSE Owner[c]] EXCEPT ![b] = p]
  BY <1>1
<1> QED
  BY <1>2, <1>3, <1>4, <1>5, <1>6, <1>7 DEF R!Give

\* malloc gives out a new block of p.
LEMMA MallocTurns ==
  ASSUME Inv, NEW p \in Live, Malloc(p)
  PROVE  Inv' /\ R!Give
<1>1. PICK b \in Free, size \in 1 .. MaxSize :
        /\ room' = [room EXCEPT ![b] = size]
        /\ pool' = [pool EXCEPT ![p].beg = <<b>> \o @]
        /\ held' = [x \in DOMAIN held \cup {b} |-> IF x = b THEN [p |-> p, size |-> size] ELSE held[x]]
        /\ UNCHANGED wild
  BY DEF Malloc
<1>2. /\ pool \in Pools1 /\ room \in Rooms /\ held \in Holdings /\ wild = FALSE
      /\ Good(pool, room, held) /\ Listed(pool, room) /\ p \in Lives(pool) /\ p \in Pool
  BY InvIs DEF Live
<1>3. b \in Mem /\ room[b] = 0 /\ size \in Nat \ {0}
  BY PoolAssumption DEF Free
<1> DEFINE list == <<b>> \o pool[p].beg
<1>4. pool[p].beg \in Seq(Mem)
  BY <1>2, Fields
<1>5. /\ list \in Seq(Mem) /\ Len(list) = Len(pool[p].beg) + 1 /\ list[1] = b
      /\ \A i \in 1 .. Len(pool[p].beg) : list[i + 1] = pool[p].beg[i]
  BY <1>3, <1>4, FrontOf
<1>6. pool' = [pool EXCEPT ![p].beg = list]
  BY <1>1
<1> HIDE DEF list
<1>7. Turns(pool, room, held, p, list, pool', room', {b}, {})
  BY <1>1, <1>2, <1>3, <1>5, <1>6, Prepended
<1>8. /\ held' \in Holdings /\ DOMAIN held' = DOMAIN held \cup {b}
      /\ held'[b].p = p /\ held'[b].size = size
      /\ \A x \in DOMAIN held' \ {b} : x \in DOMAIN held /\ held'[x] = held[x]
  <2>1. held' = Holding(held, {}, b, p, size)
    BY <1>1 DEF Holding
  <2>2. held' \in Holdings
    BY <1>2, <1>3, <2>1, HoldingGrows
  <2>3. DOMAIN held' = DOMAIN held \cup {b} /\ held'[b] = [p |-> p, size |-> size]
    BY <2>1 DEF Holding
  <2>4. \A x \in DOMAIN held' \ {b} : x \in DOMAIN held /\ held'[x] = held[x]
    BY <2>1 DEF Holding
  <2> QED
    BY <2>2, <2>3, <2>4
<1>9. Follows(held, p, room', {b}, {}, held')
  <2>1. room'[b] = size /\ size <= size
    BY <1>1, <1>2, <1>3 DEF Rooms
  <2> QED
    BY <1>8, <2>1 DEF Follows
<1>10. /\ Good(pool', room', held') /\ ParentOf(pool') = ParentOf(pool)
       /\ OwnerOf(pool') = [c \in Mem |-> IF c \in {b} THEN p ELSE IF c \in {} THEN "none"
                                          ELSE OwnerOf(pool)[c]]
  BY <1>7, <1>9, BlockTurns
<1>11. OwnerOf(pool') = [OwnerOf(pool) EXCEPT ![b] = p]
  BY <1>3, <1>10 DEF OwnerOf
<1>12. OwnerOf(pool)[b] = "none"
  BY <1>2, <1>3, OwnerIs
<1>13. R!Give
  <2>1. DOMAIN held' = (DOMAIN held \ {}) \cup {b}
    BY <1>8
  <2>2. \A c \in DOMAIN held' \ {b} : held'[c] = held[c]
    BY <1>8
  <2>3. {} \in SUBSET Mem /\ ParentOf(pool') = ParentOf(pool)
    BY <1>10
  <2> QED
    BY <1>2, <1>3, <1>11, <1>12, <2>1, <2>2, <2>3, Gives
<1> QED
  BY <1>1, <1>2, <1>10, <1>13, InvTurns

\* What a holder holds in p is listed there, and owned by p.
LEMMA HeldIs ==
  ASSUME Inv, NEW p \in Live, NEW old \in DOMAIN held, held[old].p = p
  PROVE  /\ old \in Mem /\ On(pool, p, old) /\ OwnerOf(pool)[old] = p
         /\ held[old].size \in Nat /\ held[old].size <= room[old] /\ room[old] \in Nat \ {0}
<1>1. /\ pool \in Pools1 /\ room \in Rooms /\ held \in Holdings
      /\ Listed(pool, room) /\ Serves(pool, room, held) /\ p \in Lives(pool) /\ p \in Pool
  BY InvIs DEF Live
<1>2. old \in Mem /\ held[old].size \in Nat
  BY <1>1, HoldingIs
<1>3. On(pool, p, old) /\ held[old].size <= room[old]
  BY <1>1 DEF Serves
<1>4. OwnerOf(pool)[old] = p /\ room[old] # 0
  BY <1>1, <1>2, <1>3, OwnerIs, PoolAssumption
<1> QED
  BY <1>1, <1>2, <1>3, <1>4 DEF Rooms

\* realloc gives out a block of p in the place of another one.
LEMMA ReallocTurns ==
  ASSUME Inv, NEW p \in Live, NEW old \in DOMAIN held, Realloc(p, old)
  PROVE  Inv' /\ R!Give
<1> DEFINE head == pool[p].beg # <<>> /\ pool[p].beg[1] = old
<1>1. PICK size \in 1 .. MaxSize :
        /\ held[old].p = p
        /\ \/ /\ head
              /\ \E b \in Free \cup {old} :
                   /\ room' = [[room EXCEPT ![old] = 0] EXCEPT ![b] = size]
                   /\ pool' = [pool EXCEPT ![p].beg[1] = b]
                   /\ MoveTo(p, old, b, size)
              /\ UNCHANGED wild
           \/ /\ held[old].size >= size
              /\ MoveTo(p, old, old, size)
              /\ UNCHANGED <<pool, room, wild>>
           \/ /\ held[old].size < size
              /\ \E b \in Free :
                   /\ room' = [room EXCEPT ![b] = size]
                   /\ pool' = [pool EXCEPT ![p].beg = <<b>> \o @]
                   /\ MoveTo(p, old, b, size)
              /\ wild' = (wild \/ room[old] < held[old].size)
  BY DEF Realloc
<1>2. /\ pool \in Pools1 /\ room \in Rooms /\ held \in Holdings /\ wild = FALSE
      /\ Good(pool, room, held) /\ Listed(pool, room) /\ p \in Lives(pool) /\ p \in Pool
      /\ Serves(pool, room, held)
  BY InvIs DEF Live
<1>3. /\ old \in Mem /\ On(pool, p, old) /\ OwnerOf(pool)[old] = p
      /\ held[old].size \in Nat /\ held[old].size <= room[old] /\ room[old] \in Nat \ {0}
  BY <1>1, HeldIs
<1>4. size \in Nat \ {0} /\ \A b \in Free : b \in Mem /\ room[b] = 0
  BY PoolAssumption DEF Free
<1>5. {old} \in SUBSET Mem /\ \E x \in Mem : {old} = {x} /\ OwnerOf(pool)[x] = p
  BY <1>3
<1>6. ASSUME NEW b \in Mem, MoveTo(p, old, b, size)
      PROVE  /\ held' \in Holdings /\ DOMAIN held' = (DOMAIN held \ {old}) \cup {b}
             /\ held'[b].p = p /\ held'[b].size = size
             /\ \A x \in DOMAIN held' \ {b} : x \in DOMAIN held \ {old} /\ held'[x] = held[x]
  <2>1. held' = Holding(held, {old}, b, p, size)
    BY <1>6 DEF MoveTo, Holding
  <2>2. held' \in Holdings
    BY <1>2, <1>4, <1>6, <2>1, HoldingGrows
  <2>3. /\ DOMAIN held' = (DOMAIN held \ {old}) \cup {b}
        /\ held'[b] = [p |-> p, size |-> size]
    BY <2>1 DEF Holding
  <2>4. \A x \in DOMAIN held' \ {b} : x \in DOMAIN held \ {old} /\ held'[x] = held[x]
    BY <2>1 DEF Holding
  <2> QED
    BY <2>2, <2>3, <2>4
<1>7. ASSUME head, NEW b \in Free \cup {old},
             room' = [[room EXCEPT ![old] = 0] EXCEPT ![b] = size],
             pool' = [pool EXCEPT ![p].beg[1] = b], MoveTo(p, old, b, size), UNCHANGED wild
      PROVE  Inv' /\ R!Give
  <2>1. b \in Mem /\ (room[b] = 0 \/ b = old)
    BY <1>3, <1>4
  <2> DEFINE list == [pool[p].beg EXCEPT ![1] = b]
  <2>2. Turns(pool, room, held, p, list, pool', room', {b}, {old})
    BY <1>2, <1>4, <1>7, <2>1, HeadMoved
  <2> HIDE DEF list
  <2>3. /\ held' \in Holdings /\ DOMAIN held' = (DOMAIN held \ {old}) \cup {b}
        /\ held'[b].p = p /\ held'[b].size = size
        /\ \A x \in DOMAIN held' \ {b} : x \in DOMAIN held \ {old} /\ held'[x] = held[x]
    BY <1>6, <1>7, <2>1
  <2>4. room'[b] = size /\ size <= size
    BY <1>2, <1>3, <1>4, <1>7, <2>1 DEF Rooms
  <2>5. Follows(held, p, room', {b}, {old}, held')
    BY <2>3, <2>4 DEF Follows
  <2>6. /\ Good(pool', room', held') /\ ParentOf(pool') = ParentOf(pool)
        /\ OwnerOf(pool') = [c \in Mem |-> IF c \in {b} THEN p ELSE IF c \in {old} THEN "none"
                                           ELSE OwnerOf(pool)[c]]
    BY <2>2, <2>5, BlockTurns
  <2>7. OwnerOf(pool') = [[c \in Mem |-> IF c \in {old} THEN "none" ELSE OwnerOf(pool)[c]]
                            EXCEPT ![b] = p]
    BY <2>1, <2>6
  <2>8. OwnerOf(pool)[b] = "none" \/ b \in {old}
    BY <1>2, <2>1, OwnerIs
  <2>9. R!Give
    BY <1>2, <1>5, <2>1, <2>3, <2>6, <2>7, <2>8, Gives
  <2> QED
    BY <1>2, <1>7, <2>6, <2>9, InvTurns
<1>8. ASSUME held[old].size >= size, MoveTo(p, old, old, size), UNCHANGED <<pool, room, wild>>
      PROVE  Inv' /\ R!Give
  <2>1. /\ held' \in Holdings /\ DOMAIN held' = (DOMAIN held \ {old}) \cup {old}
        /\ held'[old].p = p /\ held'[old].size = size
        /\ \A x \in DOMAIN held' \ {old} : x \in DOMAIN held \ {old} /\ held'[x] = held[x]
    BY <1>3, <1>6, <1>8
  <2>2. size <= room[old]
    BY <1>3, <1>4, <1>8
  <2>3. Serves(pool, room, held')
    BY <1>2, <1>3, <2>1, <2>2 DEF Serves
  <2>4. Good(pool', room', held')
    BY <1>2, <1>8, <2>1, <2>3 DEF Good
  <2>5. OwnerOf(pool') = [OwnerOf(pool) EXCEPT ![old] = p] /\ ParentOf(pool') = ParentOf(pool)
    <3>1. OwnerOf(pool) = [OwnerOf(pool) EXCEPT ![old] = p]
      BY <1>3 DEF OwnerOf
    <3> QED
      BY <1>8, <3>1
  <2>6. R!Give
    BY <1>2, <1>3, <1>5, <2>1, <2>5, Gives
  <2> QED
    BY <1>2, <1>8, <2>4, <2>6, InvTurns
<1>9. ASSUME held[old].size < size, NEW b \in Free, room' = [room EXCEPT ![b] = size],
             pool' = [pool EXCEPT ![p].beg = <<b>> \o @], MoveTo(p, old, b, size),
             wild' = (wild \/ room[old] < held[old].size)
      PROVE  Inv' /\ R!Give
  <2>1. b \in Mem /\ room[b] = 0 /\ b # old
    BY <1>3, <1>4
  <2> DEFINE list == <<b>> \o pool[p].beg
  <2>a. pool[p].beg \in Seq(Mem)
    BY <1>2, Fields
  <2>b. /\ list \in Seq(Mem) /\ Len(list) = Len(pool[p].beg) + 1 /\ list[1] = b
        /\ \A i \in 1 .. Len(pool[p].beg) : list[i + 1] = pool[p].beg[i]
    BY <2>1, <2>a, FrontOf
  <2>c. pool' = [pool EXCEPT ![p].beg = list]
    BY <1>9
  <2> HIDE DEF list
  <2>2. Turns(pool, room, held, p, list, pool', room', {b}, {})
    BY <1>2, <1>4, <1>9, <2>1, <2>b, <2>c, Prepended
  <2>3. /\ held' \in Holdings /\ DOMAIN held' = (DOMAIN held \ {old}) \cup {b}
        /\ held'[b].p = p /\ held'[b].size = size
        /\ \A x \in DOMAIN held' \ {b} : x \in DOMAIN held \ {old} /\ held'[x] = held[x]
    BY <1>6, <1>9, <2>1
  <2>4. room'[b] = size /\ size <= size
    BY <1>2, <1>4, <1>9, <2>1 DEF Rooms
  <2>5. Follows(held, p, room', {b}, {}, held')
    BY <2>3, <2>4 DEF Follows
  <2>6. /\ Good(pool', room', held') /\ ParentOf(pool') = ParentOf(pool)
        /\ OwnerOf(pool') = [c \in Mem |-> IF c \in {b} THEN p ELSE IF c \in {} THEN "none"
                                           ELSE OwnerOf(pool)[c]]
    BY <2>2, <2>5, BlockTurns
  <2>7. OwnerOf(pool') = [OwnerOf(pool) EXCEPT ![b] = p]
    BY <2>1, <2>6 DEF OwnerOf
  <2>8. OwnerOf(pool)[b] = "none"
    BY <1>2, <2>1, OwnerIs
  <2>9. R!Give
    <3>1. \A c \in DOMAIN held' \ {b} : held'[c] = held[c]
      BY <2>3
    <3>2. ParentOf(pool') = ParentOf(pool) /\ DOMAIN held' = (DOMAIN held \ {old}) \cup {b}
      BY <2>3, <2>6
    <3> QED
      BY <1>2, <1>5, <2>1, <2>7, <2>8, <3>1, <3>2, Gives
  <2>10. wild' = FALSE
    <3>1. ~(room[old] < held[old].size)
      BY <1>3
    <3> QED
      BY <1>2, <1>9, <3>1
  <2> QED
    BY <2>6, <2>9, <2>10, InvTurns
<1> HIDE DEF head
<1> QED
  BY <1>1, <1>7, <1>8, <1>9

\* free makes the holder give up a block, which leaves its list or not.
LEMMA FreeBlockTurns ==
  ASSUME Inv, NEW p \in Live, NEW old \in DOMAIN held, FreeBlock(p, old)
  PROVE  Inv' /\ R!Drop
<1> DEFINE beg == pool[p].beg
           at == {i \in 1 .. Len(beg) : i <= pool[p].free_num /\ beg[i] = old}
           i == CHOOSE i \in at : \A j \in at : i <= j
           list == SubSeq(beg, 1, i - 1) \o SubSeq(beg, i + 1, Len(beg))
<1>1. /\ held[old].p = p /\ held' = Drop(held, {old})
      /\ IF at = {} THEN UNCHANGED <<pool, room, wild>>
         ELSE Return([FreeMem(Now, old) EXCEPT !.pool[p].beg = list])
  BY DEF FreeBlock
<1>2. /\ pool \in Pools1 /\ room \in Rooms /\ held \in Holdings /\ wild = FALSE
      /\ Good(pool, room, held) /\ Listed(pool, room) /\ p \in Lives(pool) /\ p \in Pool
      /\ Serves(pool, room, held)
  BY InvIs DEF Live
<1>3. /\ old \in Mem /\ On(pool, p, old) /\ OwnerOf(pool)[old] = p /\ room[old] \in Nat \ {0}
  BY <1>1, HeldIs
<1>4. /\ held' \in Holdings /\ DOMAIN held' = DOMAIN held \ {old}
      /\ \A x \in DOMAIN held' : held'[x] = held[x]
  <2>1. held' = Drop(held, {old})
    BY <1>1
  <2> QED
    BY SMTT(30), <1>2, <2>1, HoldingDrops
<1>5. beg \in Seq(Mem) /\ Len(beg) \in Nat
  BY <1>2, Fields
<1>6. ASSUME at = {}
      PROVE  Inv' /\ ParentOf(pool') = ParentOf(pool) /\ OwnerOf(pool') = OwnerOf(pool)
  <2>1. UNCHANGED <<pool, room, wild>>
    BY <1>1, <1>6
  <2>2. Serves(pool, room, held')
    BY <1>2, <1>4 DEF Serves
  <2>3. Good(pool', room', held')
    BY <1>2, <1>4, <2>1, <2>2 DEF Good
  <2> QED
    BY <1>2, <2>1, <2>3, InvTurns
<1>7. ASSUME at # {}
      PROVE  /\ Inv' /\ ParentOf(pool') = ParentOf(pool)
             /\ OwnerOf(pool') = [OwnerOf(pool) EXCEPT ![old] = "none"]
  <2>1. i \in at
    <3>1. \E k \in at : \A j \in at : k <= j
      <4>1. at \in SUBSET Nat
        BY <1>5
      <4> HIDE DEF at
      <4> QED
        BY <4>1, <1>7, Least
    <3> QED
      BY <3>1
  <2>2. i \in 1 .. Len(beg) /\ old = beg[i]
    BY <2>1
  <2>3. /\ pool' = [pool EXCEPT ![p].beg = list] /\ room' = [room EXCEPT ![old] = 0]
        /\ wild' = (wild \/ room[old] = 0)
    BY <1>1, <1>7 DEF Return, FreeMem, Now
  <2> HIDE DEF i, at
  <2>4. /\ list \in Seq(Mem) /\ Len(list) = Len(beg) - 1
        /\ \A j \in 1 .. Len(list) : list[j] = IF j < i THEN beg[j] ELSE beg[j + 1]
    BY <1>5, <2>2, Without
  <2> HIDE DEF list
  <2>5. Turns(pool, room, held, p, list, pool', room', {}, {old})
    BY <1>2, <2>2, <2>3, <2>4, Removed
  <2>6. Follows(held, p, room', {}, {old}, held')
    BY <1>4 DEF Follows
  <2>7. /\ Good(pool', room', held') /\ ParentOf(pool') = ParentOf(pool)
        /\ OwnerOf(pool') = [c \in Mem |-> IF c \in {} THEN p ELSE IF c \in {old} THEN "none"
                                           ELSE OwnerOf(pool)[c]]
    BY <2>5, <2>6, BlockTurns
  <2>8. OwnerOf(pool') = [OwnerOf(pool) EXCEPT ![old] = "none"]
    BY <1>3, <2>7 DEF OwnerOf
  <2>9. wild' = FALSE
    BY <1>2, <1>3, <2>3
  <2> QED
    BY <2>7, <2>8, <2>9, InvTurns
<1> HIDE DEF at
<1>8. /\ Inv' /\ ParentOf(pool') = ParentOf(pool)
      /\ OwnerOf(pool') \in {OwnerOf(pool), [OwnerOf(pool) EXCEPT ![old] = "none"]}
  BY <1>6, <1>7
<1>9. R!Drop
  <2>1. /\ Parent = ParentOf(pool) /\ Owner = OwnerOf(pool) /\ Sizes = SizesOf(held)
        /\ Parent' = ParentOf(pool') /\ Owner' = OwnerOf(pool') /\ Sizes' = SizesOf(held')
    BY Mapped
  <2>2. old \in DOMAIN Sizes
    BY <2>1 DEF SizesOf
  <2>3. Sizes' = R!Keep(Mem \ {old})
    <3>1. DOMAIN held \in SUBSET Mem
      BY <1>2, HoldingIs
    <3>2. DOMAIN held' = DOMAIN held \cap (Mem \ {old})
      BY <1>4, <3>1
    <3> QED
      BY <1>4, <2>1, <3>2 DEF SizesOf, R!Keep
  <2> QED
    BY <1>8, <2>1, <2>2, <2>3 DEF R!Drop
<1> QED
  BY <1>8, <1>9

-----------------------------------------------------------------------------
(* Calls for pools *)

\* What a call knows while nothing is wild.
Call(pl, rm) == [pool |-> pl, room |-> rm, wild |-> FALSE]
Put1(pl, q, f, v) == [pl EXCEPT ![q][f] = v]

\* Put writes one link of a pool that is there.
LEMMA PutIs ==
  ASSUME NEW pl \in Pools1, NEW rm, NEW q \in Lives(pl), NEW f, NEW v
  PROVE  Put(Call(pl, rm), q, f, v) = Call(Put1(pl, q, f, v), rm)
BY DEF Put, Call, Put1, Lives

Puts(pl, q, f, v, more) ==
  /\ more \in Pools1 /\ Lives(more) = Lives(pl)
  /\ \A x \in Lives(pl) :
       /\ more[x].beg = pl[x].beg
       /\ more[x].base = pl[x].base
       /\ more[x].sbeg = IF x = q /\ f = "sbeg" THEN v ELSE pl[x].sbeg
       /\ more[x].next = IF x = q /\ f = "next" THEN v ELSE pl[x].next
       /\ more[x].prev = IF x = q /\ f = "prev" THEN v ELSE pl[x].prev

\* Writing a link keeps everything else.
LEMMA Put1Is ==
  ASSUME NEW pl \in Pools1, NEW q \in Lives(pl), NEW f \in {"sbeg", "next", "prev"},
         NEW v \in Pool \cup {Null}
  PROVE  Puts(pl, q, f, v, Put1(pl, q, f, v))
<1> DEFINE r == [pl[q] EXCEPT ![f] = v]
           more == Put1(pl, q, f, v)
<1>1. q \in Pool /\ pl[q] \in Bases /\ Null \notin Bases
  BY Fields, PoolAssumption
<1>2. /\ r \in Bases /\ r.beg = pl[q].beg /\ r.base = pl[q].base
      /\ r.sbeg = IF f = "sbeg" THEN v ELSE pl[q].sbeg
      /\ r.next = IF f = "next" THEN v ELSE pl[q].next
      /\ r.prev = IF f = "prev" THEN v ELSE pl[q].prev
  <2>1. CASE f = "sbeg"
    BY <1>1, <2>1 DEF Bases
  <2>2. CASE f = "next"
    BY <1>1, <2>2 DEF Bases
  <2>3. CASE f = "prev"
    BY <1>1, <2>3 DEF Bases
  <2> QED
    BY <2>1, <2>2, <2>3
<1>3. more = [pl EXCEPT ![q] = r]
  BY DEF Put1
<1> HIDE DEF r
<1>4. more \in Pools1 /\ more[q] = r /\ \A x \in Pool \ {q} : more[x] = pl[x]
  BY <1>1, <1>2, <1>3 DEF Pools1
<1>5. Lives(more) = Lives(pl)
  BY <1>1, <1>2, <1>4 DEF Lives
<1> HIDE DEF more
<1>6. ASSUME NEW x \in Lives(pl)
      PROVE  /\ more[x].beg = pl[x].beg
             /\ more[x].base = pl[x].base
             /\ more[x].sbeg = IF x = q /\ f = "sbeg" THEN v ELSE pl[x].sbeg
             /\ more[x].next = IF x = q /\ f = "next" THEN v ELSE pl[x].next
             /\ more[x].prev = IF x = q /\ f = "prev" THEN v ELSE pl[x].prev
  <2>1. CASE x = q
    BY <2>1, <1>2, <1>4
  <2>2. CASE x # q
    BY <2>2, <1>4 DEF Lives
  <2> QED
    BY <2>1, <2>2
<1> QED
  BY <1>4, <1>5, <1>6 DEF more, Puts

\* Nothing of the blocks changes.
SameLists(pl, more) ==
  /\ Lives(pl) \subseteq Lives(more)
  /\ \A x \in Lives(pl) : more[x].beg = pl[x].beg
  /\ \A x \in Lives(more) \ Lives(pl) : more[x].beg = <<>>

\* Where no list changed, the same blocks are listed and served.
LEMMA ListsSame ==
  ASSUME NEW pl \in Pools1, NEW more \in Pools1, SameLists(pl, more), NEW rm, NEW hd,
         Listed(pl, rm), Serves(pl, rm, hd)
  PROVE  Listed(more, rm) /\ Serves(more, rm, hd) /\ OwnerOf(more) = OwnerOf(pl)
<1>1. /\ \A x \in Lives(more) : \A b : On(more, x, b) <=> x \in Lives(pl) /\ On(pl, x, b)
      /\ \A x \in Lives(more) \ Lives(pl), i \in Nat \ {0} : ~(i <= Len(more[x].beg))
  BY DEF SameLists, On
<1>2. Serves(more, rm, hd)
  BY <1>1 DEF Serves, SameLists
<1>3. Listed(more, rm)
  <2>1. \A x \in Lives(more), i \in Nat \ {0} : i <= Len(more[x].beg) => x \in Lives(pl)
    BY <1>1
  <2>2. \A x \in Lives(pl) : more[x].beg = pl[x].beg /\ x \in Lives(more)
    BY DEF SameLists
  <2>3. \A x \in Lives(more), i \in Nat \ {0} : i <= Len(more[x].beg) => rm[more[x].beg[i]] # 0
    BY <2>1, <2>2 DEF Listed
  <2>4. \A b \in Mem : rm[b] # 0 => \E x \in Lives(more) : On(more, x, b)
    BY <1>1, <2>2 DEF Listed
  <2>5. \A x, y \in Lives(more), i, j \in Nat \ {0} :
          i <= Len(more[x].beg) /\ j <= Len(more[y].beg) /\ more[x].beg[i] = more[y].beg[j]
            => x = y /\ i = j
    BY <2>1, <2>2 DEF Listed
  <2> QED
    BY <2>3, <2>4, <2>5 DEF Listed
<1>4. OwnerOf(more) = OwnerOf(pl)
  <2>1. \A b \in Mem : {x \in Lives(more) : On(more, x, b)} = {x \in Lives(pl) : On(pl, x, b)}
    BY <1>1 DEF SameLists
  <2> QED
    BY <2>1 DEF OwnerOf
<1> QED
  BY <1>2, <1>3, <1>4

\* cntl changes nothing that matters here.
LEMMA CntlTurns ==
  ASSUME Inv, NEW p \in Live, Cntl(p)
  PROVE  Inv' /\ UNCHANGED R!vars
<1>1. /\ pool \in Pools1 /\ room \in Rooms /\ held \in Holdings /\ wild = FALSE
      /\ Listed(pool, room) /\ Serves(pool, room, held) /\ p \in Lives(pool) /\ p \in Pool
  BY InvIs DEF Live
<1>2. PICK rank \in Ranks : Linked(pool, rank)
  BY InvIs DEF Good
<1>3. UNCHANGED <<room, held, wild>>
  BY DEF Cntl
<1>4. PICK r \in Bases :
        /\ pool' = [pool EXCEPT ![p] = r]
        /\ r.beg = pool[p].beg /\ r.sbeg = pool[p].sbeg /\ r.base = pool[p].base
        /\ r.next = pool[p].next /\ r.prev = pool[p].prev
  <2>0. pool[p] \in Bases
    BY <1>1, Fields
  <2>1. ASSUME NEW num \in FreeNums, pool' = [pool EXCEPT ![p].free_num = num]
        PROVE  \E r \in Bases :
                 /\ pool' = [pool EXCEPT ![p] = r]
                 /\ r.beg = pool[p].beg /\ r.sbeg = pool[p].sbeg /\ r.base = pool[p].base
                 /\ r.next = pool[p].next /\ r.prev = pool[p].prev
    <3>1. num \in Nat
      BY PoolAssumption
    <3>2. [pool[p] EXCEPT !.free_num = num] \in Bases
      BY <2>0, <3>1 DEF Bases
    <3> QED
      BY <2>0, <2>1, <3>2 DEF Bases
  <2>2. ASSUME NEW toggle \in BOOLEAN, pool' = [pool EXCEPT ![p].call_realloc = toggle]
        PROVE  \E r \in Bases :
                 /\ pool' = [pool EXCEPT ![p] = r]
                 /\ r.beg = pool[p].beg /\ r.sbeg = pool[p].sbeg /\ r.base = pool[p].base
                 /\ r.next = pool[p].next /\ r.prev = pool[p].prev
    <3>2. [pool[p] EXCEPT !.call_realloc = toggle] \in Bases
      BY <2>0 DEF Bases
    <3> QED
      BY <2>0, <2>2, <3>2 DEF Bases
  <2> QED
    BY <2>1, <2>2 DEF Cntl
<1>5. /\ pool' \in Pools1 /\ pool'[p] = r
      /\ \A x \in Pool \ {p} : pool'[x] = pool[x]
  BY <1>1, <1>4 DEF Pools1
<1>6. Lives(pool') = Lives(pool)
  BY <1>1, <1>5, PoolAssumption DEF Lives
<1>7. SameLinks(pool, pool') /\ SameLists(pool, pool')
  <2>1. \A x \in Lives(pool) :
          /\ pool'[x].beg = pool[x].beg
          /\ pool'[x].sbeg = pool[x].sbeg /\ pool'[x].base = pool[x].base
          /\ pool'[x].next = pool[x].next /\ pool'[x].prev = pool[x].prev
    BY <1>4, <1>5 DEF Lives
  <2> QED
    BY <1>6, <2>1 DEF SameLinks, SameLists
<1>8. Linked(pool', rank) /\ ParentOf(pool') = ParentOf(pool)
  BY <1>1, <1>2, <1>5, <1>7, LinksSame
<1>9. Listed(pool', room) /\ Serves(pool', room, held) /\ OwnerOf(pool') = OwnerOf(pool)
  BY <1>1, <1>5, <1>7, ListsSame
<1>10. Inv'
  BY <1>1, <1>3, <1>5, <1>8, <1>9 DEF Inv, Good
<1> QED
  BY <1>3, <1>8, <1>9, <1>10, Mapped DEF R!vars

\* A new pool p comes first in the list of up, before the pool there.
LEMMA LinkedMore ==
  ASSUME NEW pl \in Pools1, NEW rank \in Ranks, Linked(pl, rank), NEW more \in Pools1,
         NEW up \in Lives(pl) \cup {Null}, NEW p \in Pool \ Lives(pl), NEW next,
         next = IF up = Null THEN Null ELSE pl[up].sbeg,
         Lives(more) = Lives(pl) \cup {p}, more[p] = NewPool(up, next),
         \A x \in Lives(pl) :
           /\ more[x].base = pl[x].base /\ more[x].next = pl[x].next
           /\ more[x].sbeg = IF x = up THEN p ELSE pl[x].sbeg
           /\ more[x].prev = IF x = next THEN p ELSE pl[x].prev
  PROVE  \E young \in Ranks : Linked(more, young)
<1> DEFINE young == [x \in Pool |-> IF x = p THEN 0 ELSE rank[x] + 1]
           L == Lives(pl)
<1>1. Null \notin Pool /\ L \subseteq Pool /\ p \notin L
  BY PoolAssumption DEF Lives
<1>2. /\ young \in Ranks /\ \A x \in L : young[p] < young[x]
      /\ \A x, y \in L : rank[x] < rank[y] => young[x] < young[y]
  BY <1>1 DEF Ranks
<1>3. /\ more[p].sbeg = Null /\ more[p].base = up /\ more[p].next = next /\ more[p].prev = Null
  BY DEF NewPool
<1>4. \A x \in L : LinkedDown(pl, x, rank) /\ LinkedBeside(pl, x, rank)
  BY DEF Linked
<1>5. next # Null => next \in L /\ up \in L /\ pl[next].base = up /\ pl[next].prev = Null
  BY <1>1, <1>4 DEF LinkedDown
<1> HIDE DEF young, L
<1>6. LinkedDown(more, p, young) /\ LinkedBeside(more, p, young)
  <2>1. up # Null => up \in L /\ more[up].sbeg = p
    BY DEF L
  <2>2. next # Null => next \in L /\ more[next].base = up /\ more[next].prev = p
    BY <1>5 DEF L
  <2>3. L \subseteq Lives(more)
    BY DEF L
  <2> QED
    BY <1>2, <1>3, <2>1, <2>2, <2>3 DEF LinkedDown, LinkedBeside
<1>7. ASSUME NEW x \in L PROVE LinkedDown(more, x, young) /\ LinkedBeside(more, x, young)
  <2>1. /\ more[x].base = pl[x].base /\ more[x].next = pl[x].next
        /\ more[x].sbeg = IF x = up THEN p ELSE pl[x].sbeg
        /\ more[x].prev = IF x = next THEN p ELSE pl[x].prev
    BY DEF L
  <2>2. /\ pl[x].sbeg # Null => pl[x].sbeg \in L /\ pl[pl[x].sbeg].base = x /\ pl[pl[x].sbeg].prev = Null
        /\ pl[x].base # Null => pl[x].base \in L /\ rank[x] < rank[pl[x].base]
        /\ pl[x].next # Null => /\ pl[x].next \in L /\ rank[x] < rank[pl[x].next]
                                /\ pl[pl[x].next].base = pl[x].base /\ pl[pl[x].next].prev = x
        /\ pl[x].prev # Null => /\ pl[x].prev \in L /\ rank[pl[x].prev] < rank[x]
                                /\ pl[pl[x].prev].base = pl[x].base /\ pl[pl[x].prev].next = x
        /\ pl[x].base # Null /\ pl[x].prev = Null => pl[pl[x].base].sbeg = x
    BY <1>4 DEF LinkedDown, LinkedBeside, L
  <2>3. \A y \in L : /\ y \in Lives(more) /\ more[y].base = pl[y].base /\ more[y].next = pl[y].next
                     /\ (y # up => more[y].sbeg = pl[y].sbeg) /\ (y # next => more[y].prev = pl[y].prev)
    BY DEF L
  <2>4. p \in Lives(more) /\ x \in Pool /\ x # p /\ x # Null
    BY <1>1
  <2>5. LinkedDown(more, x, young)
    <3>1. ASSUME more[x].base # Null
          PROVE  more[x].base \in Lives(more) /\ young[x] < young[more[x].base]
      BY <3>1, <1>2, <2>1, <2>2, <2>3
    <3>2. ASSUME x # up, more[x].sbeg # Null
          PROVE  /\ more[x].sbeg \in Lives(more) /\ more[more[x].sbeg].base = x
                 /\ more[more[x].sbeg].prev = Null
      <4>1. more[x].sbeg = pl[x].sbeg /\ pl[x].sbeg # next
        BY <3>2, <2>1, <2>2, <1>5
      <4> QED
        BY <3>2, <4>1, <2>2, <2>3
    <3>3. x = up => more[x].sbeg = p /\ more[p].base = x /\ more[p].prev = Null
      BY <1>3, <2>1
    <3> QED
      BY <3>1, <3>2, <3>3, <2>4 DEF LinkedDown
  <2>6. LinkedBeside(more, x, young)
    <3>1. ASSUME more[x].next # Null
          PROVE  /\ more[x].next \in Lives(more) /\ young[x] < young[more[x].next]
                 /\ more[more[x].next].base = more[x].base /\ more[more[x].next].prev = x
      <4>1. pl[x].next # next
        BY <3>1, <2>1, <2>2, <2>4, <1>5
      <4> QED
        BY <3>1, <4>1, <2>1, <2>2, <2>3, <1>2
    <3>2. ASSUME more[x].prev # Null, x # next
          PROVE  /\ more[x].prev \in Lives(more) /\ young[more[x].prev] < young[x]
                 /\ more[more[x].prev].base = more[x].base /\ more[more[x].prev].next = x
      BY <3>2, <2>1, <2>2, <2>3, <1>2
    <3>3. ASSUME x = next
          PROVE  /\ more[x].prev = p /\ young[p] < young[x]
                 /\ more[p].base = more[x].base /\ more[p].next = x
      BY <3>3, <1>2, <1>3, <1>5, <2>1, <2>4
    <3>4. ASSUME more[x].base # Null, more[x].prev = Null PROVE more[more[x].base].sbeg = x
      <4>1. x # next /\ pl[x].prev = Null /\ pl[x].base \in L /\ pl[pl[x].base].sbeg = x
        BY <3>4, <1>1, <2>1, <2>2, <2>4
      <4>2. pl[x].base # up
        BY <4>1, <1>1
      <4> QED
        BY <4>1, <4>2, <2>1, <2>3
    <3> QED
      BY <3>1, <3>2, <3>3, <3>4, <2>4 DEF LinkedBeside
  <2> QED
    BY <2>5, <2>6
<1>8. \A x \in Lives(more) : x = p \/ x \in L
  BY DEF L
<1> QED
  BY <1>2, <1>6, <1>7, <1>8 DEF Linked

\* ustr__pool_ll_make_subpool makes a pool, and links it.
LEMMA MakeTurns ==
  ASSUME Inv, NEW up \in Live \cup {Null}, MakeSubpool(up)
  PROVE  Inv' /\ R!Make
<1> DEFINE next == IF up = Null THEN Null ELSE pool[up].sbeg
<1>1. PICK p \in Pool \ Live :
        LET new == [Now EXCEPT !.pool[p] = NewPool(up, next)]
            linked == IF next = Null THEN new ELSE Put(new, next, "prev", p)
        IN  /\ Return(IF up = Null THEN new ELSE Put(linked, up, "sbeg", p))
            /\ UNCHANGED held
  BY DEF MakeSubpool
<1>2. /\ pool \in Pools1 /\ room \in Rooms /\ held \in Holdings /\ wild = FALSE
      /\ Listed(pool, room) /\ Serves(pool, room, held) /\ Live = Lives(pool)
      /\ Null \notin Pool /\ Null \notin Bases /\ "none" \notin Pool /\ "top" \notin Pool
  BY InvIs, PoolAssumption
<1>3. PICK rank \in Ranks : Linked(pool, rank)
  BY InvIs DEF Good
<1>4. next \in Lives(pool) \cup {Null} /\ (next # Null => pool[next].base = up /\ up # Null)
  BY <1>2, <1>3 DEF Linked, LinkedDown
<1>5. NewPool(up, next) \in Bases /\ NewPool(up, next).beg = <<>> /\ NewPool(up, next).base = up
  <2>1. up \in Pool \cup {Null} /\ next \in Pool \cup {Null}
    BY <1>2, <1>4 DEF Lives
  <2>2. <<>> \in Seq(Mem) /\ 2 \in Nat /\ TRUE \in BOOLEAN
    OBVIOUS
  <2> QED
    BY <2>1, <2>2 DEF NewPool, Bases
<1> DEFINE a == [pool EXCEPT ![p] = NewPool(up, next)]
           b == IF next = Null THEN a ELSE Put1(a, next, "prev", p)
           c == IF up = Null THEN a ELSE Put1(b, up, "sbeg", p)
<1>6. a \in Pools1 /\ a[p] = NewPool(up, next) /\ \A x \in Lives(pool) : a[x] = pool[x]
  BY <1>2, <1>5 DEF Pools1, Lives
<1>7. Lives(a) = Lives(pool) \cup {p}
  BY <1>2, <1>5, <1>6 DEF Lives, Pools1
<1>8. [Now EXCEPT !.pool[p] = NewPool(up, next)] = Call(a, room)
  <2>1. [Now EXCEPT !.pool[p] = NewPool(up, next)] = [pool |-> a, room |-> room, wild |-> wild]
    BY DEF Now
  <2> QED
    BY <1>2, <2>1 DEF Call
<1> HIDE DEF a, next
<1>9. /\ b \in Pools1 /\ Lives(b) = Lives(a)
      /\ \A x \in Lives(a) : /\ b[x].beg = a[x].beg /\ b[x].base = a[x].base
                             /\ b[x].sbeg = a[x].sbeg /\ b[x].next = a[x].next
                             /\ b[x].prev = IF x = next THEN p ELSE a[x].prev
      /\ (IF next = Null THEN Call(a, room) ELSE Put(Call(a, room), next, "prev", p))
           = Call(b, room)
  <2>1. CASE next = Null
    BY <2>1, <1>2, <1>6 DEF Lives
  <2>2. CASE next # Null
    <3>1. next \in Lives(a) /\ p \in Pool \cup {Null} /\ b = Put1(a, next, "prev", p)
      BY <2>2, <1>4, <1>7
    <3>2. /\ b \in Pools1 /\ Lives(b) = Lives(a)
          /\ \A x \in Lives(a) : /\ b[x].beg = a[x].beg /\ b[x].base = a[x].base
                                 /\ b[x].sbeg = a[x].sbeg /\ b[x].next = a[x].next
                                 /\ b[x].prev = IF x = next THEN p ELSE a[x].prev
      <4>1. Puts(a, next, "prev", p, b)
        BY <3>1, <1>6, Put1Is
      <4> HIDE DEF b
      <4> QED
        BY <4>1 DEF Puts
    <3>3. Put(Call(a, room), next, "prev", p) = Call(b, room)
      BY <3>1, <1>6, PutIs
    <3> QED
      BY <2>2, <3>2, <3>3
  <2> QED
    BY <2>1, <2>2
<1> HIDE DEF b
<1>10. /\ c \in Pools1 /\ Lives(c) = Lives(a)
       /\ \A x \in Lives(a) : /\ c[x].beg = a[x].beg /\ c[x].base = a[x].base
                              /\ c[x].sbeg = IF x = up THEN p ELSE a[x].sbeg
                              /\ c[x].next = a[x].next
                              /\ c[x].prev = IF x = next THEN p ELSE a[x].prev
       /\ (IF up = Null THEN Call(a, room) ELSE Put(Call(b, room), up, "sbeg", p))
            = Call(c, room)
  <2>1. CASE up = Null
    <3>1. next = Null
      BY <2>1 DEF next
    <3> QED
      BY <2>1, <3>1, <1>2, <1>6 DEF Lives
  <2>2. CASE up # Null
    <3>1. up \in Lives(b) /\ p \in Pool \cup {Null} /\ c = Put1(b, up, "sbeg", p)
      BY <2>2, <1>2, <1>7, <1>9
    <3>2. /\ c \in Pools1 /\ Lives(c) = Lives(b)
          /\ \A x \in Lives(b) : /\ c[x].beg = b[x].beg /\ c[x].base = b[x].base
                                 /\ c[x].sbeg = IF x = up THEN p ELSE b[x].sbeg
                                 /\ c[x].next = b[x].next /\ c[x].prev = b[x].prev
      <4>1. Puts(b, up, "sbeg", p, c)
        BY <3>1, <1>9, Put1Is
      <4> HIDE DEF c
      <4> QED
        BY <4>1 DEF Puts
    <3>3. Put(Call(b, room), up, "sbeg", p) = Call(c, room)
      BY <3>1, <1>9, PutIs
    <3> QED
      BY <2>2, <3>2, <3>3, <1>9
  <2> QED
    BY <2>1, <2>2
<1> HIDE DEF c
<1>11. pool' = c /\ UNCHANGED <<room, held, wild>>
  <2>1. Return(Call(c, room)) /\ UNCHANGED held
    BY <1>1, <1>8, <1>9, <1>10
  <2> QED
    BY <1>2, <2>1 DEF Return, Call
<1>12. p \notin Lives(pool) /\ p # up /\ p # next
  BY <1>2, <1>4
<1>13. /\ c[p].beg = <<>> /\ c[p].base = up
       /\ \A x \in Lives(pool) :
            /\ c[x].beg = pool[x].beg /\ c[x].base = pool[x].base /\ c[x].next = pool[x].next
            /\ c[x].sbeg = IF x = up THEN p ELSE pool[x].sbeg
            /\ c[x].prev = IF x = next THEN p ELSE pool[x].prev
  BY <1>5, <1>6, <1>7, <1>10
<1>14. c[p] = NewPool(up, next)
  <2>1. b[p] = a[p] /\ c[p] = b[p]
    <3>1. p \in Pool /\ a \in Pools1 /\ b \in Pools1
      BY <1>6, <1>9
    <3>2. b[p] = a[p]
      BY <3>1, <1>12 DEF b, Put1, Pools1
    <3>3. c[p] = b[p]
      BY <3>1, <3>2, <1>12 DEF c, Put1, Pools1
    <3> QED
      BY <3>2, <3>3
  <2> QED
    BY <2>1, <1>6
<1>15. \E young \in Ranks : Linked(c, young)
  <2>1. /\ up \in Lives(pool) \cup {Null} /\ p \in Pool \ Lives(pool) /\ Lives(c) = Lives(pool) \cup {p}
        /\ next = IF up = Null THEN Null ELSE pool[up].sbeg
    BY <1>2, <1>7, <1>10 DEF next
  <2> QED
    BY <1>2, <1>3, <1>10, <1>13, <1>14, <2>1, LinkedMore
<1>16. SameLists(pool, c)
  BY <1>7, <1>10, <1>13 DEF SameLists
<1>17. Listed(c, room) /\ Serves(c, room, held) /\ OwnerOf(c) = OwnerOf(pool)
  BY <1>2, <1>10, <1>16, ListsSame
<1>18. Inv'
  BY <1>2, <1>10, <1>11, <1>15, <1>17 DEF Inv, Good
<1>19. R!Make
  <2>1. /\ Parent = ParentOf(pool) /\ Owner = OwnerOf(pool) /\ Sizes = SizesOf(held)
        /\ Parent' = ParentOf(c) /\ Owner' = OwnerOf(c) /\ Sizes' = SizesOf(held)
    BY <1>11, Mapped
  <2>2. UNCHANGED <<Owner, Sizes>>
    BY <1>17, <2>1
  <2> DEFINE q == IF up = Null THEN "top" ELSE up
  <2>3. Parent' = [Parent EXCEPT ![p] = q]
    <3>1. \A x \in Pool : x \in Lives(c) <=> x = p \/ x \in Lives(pool)
      BY <1>7, <1>10
    <3> QED
      BY <1>12, <1>13, <2>1, <3>1 DEF ParentOf
  <2>4. /\ R!Pools = Lives(pool)
        /\ p \in Pool
    <3>1. \A x \in Pool : Parent[x] # "none" <=> x \in Lives(pool)
      <4>1. \A x \in Lives(pool) : pool[x].base \in Pool \cup {Null}
        BY <1>2, Fields
      <4> QED
        BY <1>2, <2>1, <4>1 DEF ParentOf
    <3> QED
      BY <3>1 DEF R!Pools, Lives
  <2>5. q \in R!Pools \cup {"top"} /\ p \in Pool \ R!Pools
    BY <1>2, <1>12, <2>4
  <2> HIDE DEF q
  <2> QED
    BY <2>2, <2>3, <2>5 DEF R!Make
<1> QED
  BY <1>18, <1>19

\* The pools of Regions are the pools there, and those below p the same.
LEMMA PoolsAre == ASSUME pool \in Pools1 PROVE R!Pools = Lives(pool)
<1>1. "none" \notin Pool /\ \A x \in Lives(pool) : pool[x].base \in Pool \cup {Null}
  BY Fields, PoolAssumption
<1>2. \A x \in Pool : Parent[x] # "none" <=> x \in Lives(pool)
  BY <1>1, Mapped DEF ParentOf
<1> QED
  BY <1>2 DEF R!Pools, Lives

\* What Regions takes to be below a pool is the least set closed downwards.
LEMMA BelowIs ==
  ASSUME pool \in Pools1, NEW p \in Lives(pool), NEW S, p \in S, S \subseteq Lives(pool),
         \A x \in Lives(pool) : pool[x].base \in S => x \in S,
         \A T \in SUBSET Pool :
           p \in T /\ (\A x \in Lives(pool) : pool[x].base \in T => x \in T) => S \subseteq T
  PROVE  R!Below(p) = S
<1>1. Lives(pool) \subseteq Pool /\ "top" \notin Pool /\ Null \notin Pool
  BY PoolAssumption DEF Lives
<1>2. \A x \in Lives(pool), T \in SUBSET Pool : Parent[x] \in T <=> pool[x].base \in T
  BY <1>1, Mapped DEF ParentOf
<1> DEFINE Closed(T) == p \in T /\ \A x \in R!Pools : Parent[x] \in T => x \in T
<1>3. R!Below(p) = {q \in Pool : \A T \in SUBSET Pool : Closed(T) => q \in T}
  BY DEF R!Below
<1>4. \A T \in SUBSET Pool :
        Closed(T) <=> p \in T /\ \A x \in Lives(pool) : pool[x].base \in T => x \in T
  BY <1>2, PoolsAre
<1> HIDE DEF Closed
<1>5. S \in SUBSET Pool /\ Closed(S)
  BY <1>1, <1>4
<1>6. \A T \in SUBSET Pool : Closed(T) => S \subseteq T
  BY <1>4
<1> QED
  BY <1>3, <1>5, <1>6

\* The lists of the pools in S are emptied, and their blocks freed.
LEMMA Emptied ==
  ASSUME NEW pl \in Pools1, NEW rm \in Rooms, Listed(pl, rm), NEW S, S \subseteq Lives(pl)
  PROVE  LET d == FreeNodes(Call(pl, rm), S)
         IN  /\ d = Call(d.pool, d.room)
             /\ d.pool \in Pools1 /\ SameLinks(pl, d.pool) /\ d.room \in Rooms
             /\ \A x \in Lives(pl) : d.pool[x].beg = IF x \in S THEN <<>> ELSE pl[x].beg
             /\ \A b \in Mem : d.room[b] = IF \E x \in S : On(pl, x, b) THEN 0 ELSE rm[b]
<1> DEFINE d == FreeNodes(Call(pl, rm), S)
           pool2 == [x \in Pool |-> IF x \in S THEN [pl[x] EXCEPT !.beg = <<>>] ELSE pl[x]]
           room2 == [b \in Mem |-> IF \E x \in S : On(pl, x, b) THEN 0 ELSE rm[b]]
<1>1. {x \in S : Call(pl, rm).pool[x] # Null} = S
  BY DEF Call, Lives
<1>2. \A x \in S : \A i \in 1 .. Len(pl[x].beg) : rm[pl[x].beg[i]] # 0
  BY ListIs
<1>3. ASSUME NEW x \in S, NEW y \in S, NEW i \in 1 .. Len(pl[x].beg), NEW j \in 1 .. Len(pl[y].beg),
             pl[x].beg[i] = pl[y].beg[j]
      PROVE  x = y /\ i = j
  <2>1. x \in Lives(pl) /\ y \in Lives(pl)
    OBVIOUS
  <2>2. Len(pl[x].beg) \in Nat /\ Len(pl[y].beg) \in Nat
    BY <2>1, Fields
  <2>3. i \in Nat \ {0} /\ i <= Len(pl[x].beg) /\ j \in Nat \ {0} /\ j <= Len(pl[y].beg)
    BY <2>2
  <2> QED
    BY <1>3, <2>1, <2>3 DEF Listed
<1>4. d = Call(pool2, room2)
  <2> DEFINE w == \/ FALSE
                  \/ \E x \in S : \E i \in 1 .. Len(pl[x].beg) : rm[pl[x].beg[i]] = 0
                  \/ \E x, y \in S : \E i \in 1 .. Len(pl[x].beg), j \in 1 .. Len(pl[y].beg) :
                       <<x, i>> # <<y, j>> /\ pl[x].beg[i] = pl[y].beg[j]
  <2>1. w = FALSE
    BY <1>2, <1>3
  <2> DEFINE c == Call(pl, rm)
             there == {x \in S : c.pool[x] # Null}
             p2 == [x \in Pool |-> IF x \in there THEN [c.pool[x] EXCEPT !.beg = <<>>] ELSE c.pool[x]]
             r2 == [b \in Mem |-> IF \E x \in there : \E i \in 1 .. Len(c.pool[x].beg) :
                                        c.pool[x].beg[i] = b THEN 0 ELSE c.room[b]]
             w2 == \/ c.wild
                   \/ \E x \in there : \E i \in 1 .. Len(c.pool[x].beg) : c.room[c.pool[x].beg[i]] = 0
                   \/ \E x, y \in there : \E i \in 1 .. Len(c.pool[x].beg), j \in 1 .. Len(c.pool[y].beg) :
                        <<x, i>> # <<y, j>> /\ c.pool[x].beg[i] = c.pool[y].beg[j]
  <2>2. d = [c EXCEPT !.pool = p2, !.room = r2, !.wild = w2]
    BY DEF FreeNodes
  <2>3. c.pool = pl /\ c.room = rm /\ c.wild = FALSE /\ there = S
    BY <1>1 DEF Call
  <2> HIDE DEF there
  <2>4. p2 = pool2 /\ r2 = room2 /\ w2 = w
    <3> HIDE DEF c
    <3> QED
      BY <2>3 DEF On
  <2> HIDE DEF w, pool2, room2, p2, r2, w2
  <2>5. d = [pool |-> pool2, room |-> room2, wild |-> w]
    BY <2>2, <2>4 DEF Call
  <2> QED
    BY <2>1, <2>5 DEF Call
<1>5. \A x \in Lives(pl) : /\ pl[x] \in Bases /\ pl[x] # Null
                           /\ [pl[x] EXCEPT !.beg = <<>>] \in Bases
  <2>1. <<>> \in Seq(Mem)
    OBVIOUS
  <2> QED
    BY <2>1, Fields DEF Bases
<1>6. pool2 \in Pools1 /\ Lives(pool2) = Lives(pl)
  BY <1>5, PoolAssumption DEF Pools1, Lives
<1>7. \A x \in Lives(pl) :
        /\ pool2[x].beg = IF x \in S THEN <<>> ELSE pl[x].beg
        /\ pool2[x].sbeg = pl[x].sbeg /\ pool2[x].base = pl[x].base
        /\ pool2[x].next = pl[x].next /\ pool2[x].prev = pl[x].prev
  BY <1>5 DEF Lives, Bases
<1>8. SameLinks(pl, pool2)
  BY <1>6, <1>7 DEF SameLinks
<1>9. room2 \in Rooms /\ \A b \in Mem : room2[b] = IF \E x \in S : On(pl, x, b) THEN 0 ELSE rm[b]
  BY DEF Rooms
<1> HIDE DEF d, pool2, room2
<1>10. d.pool = pool2 /\ d.room = room2
  BY <1>4 DEF Call
<1> QED
  BY <1>4, <1>6, <1>7, <1>8, <1>9, <1>10 DEF d

\* The blocks of the pools in S are gone, and perhaps the pools.
Sweeps(pl, rm, hd, S, more, room2, hd2) ==
  /\ pl \in Pools1 /\ rm \in Rooms /\ hd \in Holdings /\ Listed(pl, rm) /\ Serves(pl, rm, hd)
  /\ S \subseteq Lives(pl) /\ more \in Pools1 /\ room2 \in Rooms
  /\ Lives(pl) \ S \subseteq Lives(more) /\ Lives(more) \subseteq Lives(pl)
  /\ \A x \in Lives(more) : more[x].beg = IF x \in S THEN <<>> ELSE pl[x].beg
  /\ \A b \in Mem : room2[b] = IF \E x \in S : On(pl, x, b) THEN 0 ELSE rm[b]
  /\ hd2 = Drop(hd, {b \in DOMAIN hd : room2[b] = 0})

\* The blocks of these pools, and the owners and holdings without them.
Theirs(pl, S) == {b \in Mem : OwnerOf(pl)[b] \in S}
Orphaned(pl, S) == [b \in Mem |-> IF OwnerOf(pl)[b] \in S THEN "none" ELSE OwnerOf(pl)[b]]
Lost(hd, bs, hd2) ==
  DOMAIN hd2 = DOMAIN hd \cap (Mem \ bs) /\ \A b \in DOMAIN hd2 : hd2[b] = hd[b]

\* Where the lists of some pools were emptied, the rest stay.
LEMMA Swept ==
  ASSUME NEW pl, NEW rm, NEW hd, NEW S, NEW more, NEW room2, NEW hd2,
         Sweeps(pl, rm, hd, S, more, room2, hd2)
  PROVE  /\ Listed(more, room2) /\ Serves(more, room2, hd2) /\ hd2 \in Holdings
         /\ OwnerOf(more) = Orphaned(pl, S) /\ Lost(hd, Theirs(pl, S), hd2)
<1>1. /\ pl \in Pools1 /\ rm \in Rooms /\ hd \in Holdings /\ Listed(pl, rm) /\ Serves(pl, rm, hd)
      /\ S \subseteq Lives(pl) /\ more \in Pools1 /\ room2 \in Rooms
      /\ Lives(pl) \ S \subseteq Lives(more) /\ Lives(more) \subseteq Lives(pl)
      /\ \A x \in Lives(more) : more[x].beg = IF x \in S THEN <<>> ELSE pl[x].beg
      /\ \A b \in Mem : room2[b] = IF \E x \in S : On(pl, x, b) THEN 0 ELSE rm[b]
  BY DEF Sweeps
<1>2. S \subseteq Pool /\ "none" \notin Pool
  BY <1>1, PoolAssumption DEF Lives
<1>3. \A x \in Lives(more) : \A i : i \in 1 .. Len(more[x].beg) => x \in Lives(pl) \ S
  BY <1>1
<1>4. \A x \in Lives(more) : \A b : On(more, x, b) <=> x \in Lives(pl) \ S /\ On(pl, x, b)
  BY <1>1, <1>3 DEF On
<1>5. \A b \in Mem : /\ \A x \in Pool : OwnerOf(pl)[b] = x <=> x \in Lives(pl) /\ On(pl, x, b)
                     /\ OwnerOf(pl)[b] = "none" <=> rm[b] = 0
                     /\ OwnerOf(pl)[b] \in Pool \cup {"none"}
  BY <1>1, OwnerIs
<1>6. \A b \in Mem : (\E x \in S : On(pl, x, b)) <=> OwnerOf(pl)[b] \in S
  BY <1>1, <1>2, <1>5
<1>7. \A b \in Mem : room2[b] = IF OwnerOf(pl)[b] \in S THEN 0 ELSE rm[b]
  BY <1>1, <1>6
<1>8. Listed(more, room2)
  <2>1. ASSUME NEW x \in Lives(more), NEW i \in Nat \ {0}, i <= Len(more[x].beg)
        PROVE  room2[more[x].beg[i]] # 0
    <3>1. Len(more[x].beg) \in Nat
      BY <1>1, Fields
    <3>2. i \in 1 .. Len(more[x].beg)
      BY <2>1, <3>1
    <3>3. x \in Lives(pl) \ S /\ more[x].beg = pl[x].beg
      BY <1>1, <1>3, <3>2
    <3>4. pl[x].beg[i] \in Mem /\ rm[pl[x].beg[i]] # 0
      BY <1>1, <3>2, <3>3, ListIs
    <3>5. OwnerOf(pl)[pl[x].beg[i]] = x
      BY <1>2, <1>5, <3>2, <3>3, <3>4, <1>1 DEF On, Lives
    <3> QED
      BY <1>7, <3>3, <3>4, <3>5
  <2>2. ASSUME NEW b \in Mem, room2[b] # 0 PROVE \E x \in Lives(more) : On(more, x, b)
    <3>1. rm[b] # 0 /\ OwnerOf(pl)[b] \notin S
      BY <1>7, <2>2
    <3>2. PICK x \in Lives(pl) : On(pl, x, b)
      BY <1>1, <3>1 DEF Listed
    <3>3. x \notin S
      BY <1>6, <3>1, <3>2
    <3> QED
      BY <1>1, <1>4, <3>2, <3>3
  <2>3. ASSUME NEW x \in Lives(more), NEW y \in Lives(more), NEW i \in Nat \ {0}, NEW j \in Nat \ {0},
               i <= Len(more[x].beg), j <= Len(more[y].beg), more[x].beg[i] = more[y].beg[j]
        PROVE  x = y /\ i = j
    <3>1. i \in 1 .. Len(more[x].beg) /\ j \in 1 .. Len(more[y].beg)
      BY <1>1, <2>3, Fields
    <3>2. /\ x \in Lives(pl) /\ more[x].beg = pl[x].beg
          /\ y \in Lives(pl) /\ more[y].beg = pl[y].beg
      BY <1>1, <1>3, <3>1
    <3> QED
      BY <1>1, <2>3, <3>2 DEF Listed
  <2> QED
    BY <2>1, <2>2, <2>3 DEF Listed
<1>9. OwnerOf(more) = [b \in Mem |-> IF OwnerOf(pl)[b] \in S THEN "none" ELSE OwnerOf(pl)[b]]
  <2> SUFFICES ASSUME NEW b \in Mem
               PROVE  OwnerOf(more)[b] = IF OwnerOf(pl)[b] \in S THEN "none" ELSE OwnerOf(pl)[b]
    BY DEF OwnerOf
  <2>1. /\ \A x \in Pool : OwnerOf(more)[b] = x <=> x \in Lives(more) /\ On(more, x, b)
        /\ OwnerOf(more)[b] = "none" <=> room2[b] = 0
    BY <1>1, <1>8, OwnerIs
  <2>2. CASE OwnerOf(pl)[b] \in S
    BY <1>7, <2>1, <2>2
  <2>3. CASE OwnerOf(pl)[b] \notin S /\ OwnerOf(pl)[b] = "none"
    BY <1>5, <1>7, <2>1, <2>3
  <2>4. CASE OwnerOf(pl)[b] \notin S /\ OwnerOf(pl)[b] # "none"
    <3>1. PICK x \in Pool : OwnerOf(pl)[b] = x
      BY <1>5, <2>4
    <3>2. x \in Lives(pl) \ S /\ On(pl, x, b)
      BY <1>5, <2>4, <3>1
    <3>3. x \in Lives(more) /\ On(more, x, b)
      BY <1>1, <1>4, <3>2
    <3> QED
      BY <2>1, <2>4, <3>1, <3>3
  <2> QED
    BY <2>2, <2>3, <2>4
<1>10. DOMAIN hd \in SUBSET Mem /\ \A b \in DOMAIN hd : rm[b] # 0
  <2>1. DOMAIN hd \in SUBSET Mem
    BY <1>1, HoldingIs
  <2>2. ASSUME NEW b \in DOMAIN hd PROVE rm[b] # 0
    <3>1. hd[b].p \in Lives(pl) /\ On(pl, hd[b].p, b) /\ hd[b].p \in Pool /\ b \in Mem
      BY <1>1, <2>1 DEF Serves, Lives
    <3> QED
      BY <3>1, <1>2, <1>5
  <2> QED
    BY <2>1, <2>2
<1>11. /\ hd2 \in Holdings /\ DOMAIN hd2 = DOMAIN hd \ {b \in DOMAIN hd : room2[b] = 0}
       /\ \A b \in DOMAIN hd2 : hd2[b] = hd[b]
  <2> DEFINE gone == {b \in DOMAIN hd : room2[b] = 0}
  <2>1. hd2 = Drop(hd, gone)
    BY DEF Sweeps
  <2> HIDE DEF gone
  <2>2. hd2 \in Holdings /\ DOMAIN hd2 = DOMAIN hd \ gone /\ \A b \in DOMAIN hd2 : hd2[b] = hd[b]
    <3>1. hd2 \in Holdings
      BY <1>1, <2>1, HoldingDrops
    <3>2. DOMAIN hd2 = DOMAIN hd \ gone /\ \A b \in DOMAIN hd2 : hd2[b] = hd[b]
      BY <2>1 DEF Drop
    <3> QED
      BY <3>1, <3>2
  <2> QED
    BY <2>2 DEF gone
<1>12. DOMAIN hd2 = DOMAIN hd \cap (Mem \ {b \in Mem : OwnerOf(pl)[b] \in S})
  BY <1>7, <1>10, <1>11
<1>13. Serves(more, room2, hd2)
  <2> SUFFICES ASSUME NEW b \in DOMAIN hd2
               PROVE  /\ hd2[b].p \in Lives(more) /\ On(more, hd2[b].p, b)
                      /\ hd2[b].size <= room2[b]
    BY DEF Serves
  <2>1. b \in DOMAIN hd /\ b \in Mem /\ OwnerOf(pl)[b] \notin S /\ hd2[b] = hd[b]
    BY <1>11, <1>12
  <2>2. /\ hd[b].p \in Lives(pl) /\ On(pl, hd[b].p, b) /\ hd[b].size <= rm[b]
    BY <1>1, <2>1 DEF Serves
  <2>3. hd[b].p \notin S
    BY <1>6, <2>1, <2>2
  <2> QED
    BY <1>1, <1>4, <1>7, <2>1, <2>2, <2>3
<1> QED
  BY <1>8, <1>9, <1>11, <1>12, <1>13 DEF Theirs, Orphaned, Lost

\* Regions takes that for the blocks being given back.
LEMMA GivesBack ==
  ASSUME NEW S, Sweeps(pool, room, held, S, pool', room', held')
  PROVE  R!GiveBack(S)
<1>0. OwnerOf(pool') = Orphaned(pool, S) /\ Lost(held, Theirs(pool, S), held')
  BY Swept
<1>1. /\ OwnerOf(pool') = Orphaned(pool, S) /\ DOMAIN held' = DOMAIN held \cap (Mem \ Theirs(pool, S))
      /\ \A b \in DOMAIN held' : held'[b] = held[b]
  BY <1>0 DEF Lost
<1>2. /\ Owner = OwnerOf(pool) /\ Sizes = SizesOf(held)
      /\ Owner' = OwnerOf(pool') /\ Sizes' = SizesOf(held')
  BY Mapped
<1>3. Owner' = [b \in Mem |-> IF Owner[b] \in S THEN "none" ELSE Owner[b]]
  BY <1>1, <1>2 DEF Orphaned
<1>4. Sizes' = R!Keep(Mem \ R!In(S))
  <2>1. R!In(S) = Theirs(pool, S)
    BY <1>2 DEF R!In, Theirs
  <2>2. DOMAIN held' = DOMAIN held \cap (Mem \ R!In(S))
    BY <1>1, <2>1
  <2>3. Sizes' = [b \in DOMAIN held' |-> held'[b].size]
    BY <1>2 DEF SizesOf
  <2>4. R!Keep(Mem \ R!In(S)) = [b \in DOMAIN held \cap (Mem \ R!In(S)) |-> held[b].size]
    BY <1>2 DEF R!Keep, SizesOf
  <2> QED
    BY <1>1, <2>2, <2>3, <2>4
<1> QED
  BY <1>3, <1>4 DEF R!GiveBack

\* A call for p finds no pool twice, so that nothing is wild.
LEMMA ClearIs ==
  ASSUME NEW pl, NEW p, NEW rank, LinkedBut(pl, p, rank), NEW rm \in Rooms, Listed(pl, rm)
  PROVE  LET c == Call(pl, rm)
         IN  ClearTree(c, p) = FreeNodes(c, Visited(c, p))
<1> DEFINE c == Call(pl, rm)
           S == Visited(c, p)
           d == FreeNodes(c, S)
<1>1. c.pool = pl
  BY DEF Call
<1>2. S \subseteq Lives(pl) /\ ~Astray(c, p)
  <2> HIDE DEF c
  <2>1. LinkedBut(c.pool, p, rank)
    BY <1>1
  <2>2. S \subseteq Lives(c.pool) /\ ~Astray(c, p)
    BY <2>1, VisitsBelow
  <2> QED
    BY <1>1, <2>2
<1> HIDE DEF S
<1>3. d = Call(d.pool, d.room)
  <2>1. pl \in Pools1
    BY DEF LinkedBut
  <2> QED
    BY <1>2, <2>1, Emptied
<1>4. ClearTree(c, p) = [d EXCEPT !.wild = @ \/ Astray(c, p)]
  BY DEF ClearTree, S
<1> HIDE DEF d, c
<1>5. [d EXCEPT !.wild = @ \/ Astray(c, p)] = d
  <2>1. d = [pool |-> d.pool, room |-> d.room, wild |-> FALSE]
    BY <1>3 DEF Call
  <2>2. d.wild \/ Astray(c, p) <=> FALSE
    BY <1>2, <2>1
  <2>3. (d.wild \/ Astray(c, p)) = FALSE
    BY <2>2
  <2>4. [d EXCEPT !.wild = FALSE] = d
    BY <2>1
  <2> QED
    BY <2>3, <2>4
<1> QED
  BY <1>4, <1>5 DEF c, d, S

\* ustr__pool_ll__clear gives back what is in p and below.
LEMMA ClearTurns ==
  ASSUME Inv, NEW p \in Live, PoolClear(p)
  PROVE  Inv' /\ R!Clear
<1> DEFINE c == Call(pool, room)
           S == Visited(c, p)
           d == FreeNodes(c, S)
<1>1. /\ pool \in Pools1 /\ room \in Rooms /\ held \in Holdings /\ wild = FALSE
      /\ Listed(pool, room) /\ Serves(pool, room, held) /\ p \in Lives(pool) /\ p \in Pool
  BY InvIs DEF Live
<1>2. PICK rank \in Ranks : Linked(pool, rank)
  BY InvIs DEF Good
<1>3. LinkedBut(pool, p, rank)
  BY <1>1, <1>2 DEF Linked, LinkedBut
<1>4. Now = c /\ c.pool = pool
  BY <1>1 DEF Now, Call
<1>5. /\ p \in S /\ S \subseteq Lives(pool)
      /\ \A x \in Lives(pool) : pool[x].base \in S => x \in S
      /\ \A T \in SUBSET Pool :
           p \in T /\ (\A x \in Lives(pool) : pool[x].base \in T => x \in T) => S \subseteq T
  <2>1. LinkedBut(c.pool, p, rank)
    BY <1>3, <1>4
  <2> HIDE DEF c
  <2>2. /\ p \in S /\ S \subseteq Lives(c.pool)
        /\ \A x \in Lives(c.pool) : c.pool[x].base \in S => x \in S
        /\ \A T \in SUBSET Pool :
             p \in T /\ (\A x \in Lives(c.pool) : c.pool[x].base \in T => x \in T) => S \subseteq T
    BY <2>1, VisitsBelow
  <2> QED
    BY <1>4, <2>2
<1> HIDE DEF S
<1>6. /\ d = Call(d.pool, d.room)
      /\ d.pool \in Pools1 /\ SameLinks(pool, d.pool) /\ d.room \in Rooms
      /\ \A x \in Lives(pool) : d.pool[x].beg = IF x \in S THEN <<>> ELSE pool[x].beg
      /\ \A b \in Mem : d.room[b] = IF \E x \in S : On(pool, x, b) THEN 0 ELSE room[b]
  BY <1>1, <1>5, Emptied
<1>7. ClearTree(c, p) = d
  BY <1>1, <1>3, ClearIs DEF S
<1>8. Return(d) /\ Gone(d)
  BY <1>4, <1>7 DEF PoolClear
<1> HIDE DEF c, d
<1>9. /\ pool' = d.pool /\ room' = d.room /\ wild' = FALSE
      /\ held' = Drop(held, {b \in DOMAIN held : room'[b] = 0})
  <2>1. d.wild = FALSE
    BY <1>6 DEF Call
  <2> QED
    BY <1>8, <2>1 DEF Return, Gone
<1>10. Sweeps(pool, room, held, S, pool', room', held')
  <2>1. Lives(pool') = Lives(pool)
    BY <1>6, <1>9 DEF SameLinks
  <2> QED
    BY <1>1, <1>5, <1>6, <1>9, <2>1 DEF Sweeps
<1>11. Listed(pool', room') /\ Serves(pool', room', held') /\ held' \in Holdings
  BY <1>10, Swept
<1>12. Linked(pool', rank) /\ ParentOf(pool') = ParentOf(pool)
  BY <1>1, <1>2, <1>6, <1>9, LinksSame
<1>13. Inv'
  BY <1>6, <1>9, <1>11, <1>12 DEF Inv, Good
<1>14. R!Clear
  <2>1. R!Below(p) = S /\ p \in R!Pools
    BY <1>1, <1>5, BelowIs, PoolsAre
  <2>2. Parent' = Parent
    BY <1>12, Mapped
  <2>3. R!GiveBack(S)
    BY <1>10, GivesBack
  <2> QED
    BY <2>1, <2>2, <2>3 DEF R!Clear
<1> QED
  BY <1>13, <1>14

\* Where p has left its list, no pool leads to it.
LEMMA Unlinked ==
  ASSUME NEW pl \in Pools1, NEW rank \in Ranks, Linked(pl, rank), NEW p \in Lives(pl),
         NEW more \in Pools1, Lives(more) = Lives(pl),
         \A x \in Lives(pl) :
           /\ more[x].base = pl[x].base
           /\ more[x].sbeg = IF x = pl[p].base /\ pl[p].prev = Null THEN pl[p].next ELSE pl[x].sbeg
           /\ more[x].next = IF x = pl[p].prev THEN pl[p].next ELSE pl[x].next
           /\ more[x].prev = IF x = pl[p].next THEN pl[p].prev ELSE pl[x].prev
  PROVE  /\ LinkedBut(more, p, rank)
         /\ \A x \in Lives(pl) : /\ more[x].sbeg # p
                                 /\ x # p => more[x].next # p /\ more[x].prev # p
<1> DEFINE L == Lives(pl)
           base == pl[p].base
           next == pl[p].next
           prev == pl[p].prev
<1>1. L \subseteq Pool /\ Null \notin Pool /\ p \in L /\ Lives(more) = L /\ \A x \in L : rank[x] \in Nat
  BY PoolAssumption DEF Lives, Ranks
<1>2. \A x \in L :
        /\ pl[x].sbeg # Null => pl[x].sbeg \in L /\ pl[pl[x].sbeg].base = x /\ pl[pl[x].sbeg].prev = Null
        /\ pl[x].base # Null => pl[x].base \in L /\ rank[x] < rank[pl[x].base]
        /\ pl[x].next # Null => /\ pl[x].next \in L /\ rank[x] < rank[pl[x].next]
                                /\ pl[pl[x].next].base = pl[x].base /\ pl[pl[x].next].prev = x
        /\ pl[x].prev # Null => /\ pl[x].prev \in L /\ rank[pl[x].prev] < rank[x]
                                /\ pl[pl[x].prev].base = pl[x].base /\ pl[pl[x].prev].next = x
        /\ pl[x].base # Null /\ pl[x].prev = Null => pl[pl[x].base].sbeg = x
  BY DEF Linked, LinkedDown, LinkedBeside
<1>3. \A x \in L :
        /\ more[x].base = pl[x].base
        /\ more[x].sbeg = IF x = base /\ prev = Null THEN next ELSE pl[x].sbeg
        /\ more[x].next = IF x = prev THEN next ELSE pl[x].next
        /\ more[x].prev = IF x = next THEN prev ELSE pl[x].prev
  OBVIOUS
<1>4. /\ base # Null => base \in L /\ rank[p] < rank[base]
      /\ next # Null => next \in L /\ rank[p] < rank[next] /\ pl[next].base = base /\ pl[next].prev = p
      /\ prev # Null => prev \in L /\ rank[prev] < rank[p] /\ pl[prev].base = base /\ pl[prev].next = p
      /\ base # Null /\ prev = Null => pl[base].sbeg = p
  BY <1>1, <1>2
<1> HIDE DEF L, base, next, prev
<1>5. next # p /\ prev # p
  BY <1>1, <1>4
<1>6. ASSUME NEW x \in L PROVE more[x].sbeg # p
  <2>1. CASE x = base /\ prev = Null
    BY <2>1, <1>3, <1>5
  <2>2. CASE ~(x = base /\ prev = Null)
    <3> SUFFICES ASSUME more[x].sbeg = p PROVE FALSE
      OBVIOUS
    <3>1. pl[x].sbeg = p /\ p # Null
      BY <2>2, <1>1, <1>3
    <3>2. base = x /\ prev = Null
      BY <3>1, <1>2 DEF base, prev
    <3> QED
      BY <2>2, <3>2
  <2> QED
    BY <2>1, <2>2
<1>7. ASSUME NEW x \in L, x # p PROVE more[x].next # p /\ more[x].prev # p
  <2>1. ASSUME more[x].next = p PROVE FALSE
    <3>1. x # prev /\ pl[x].next = p /\ p # Null
      BY <2>1, <1>1, <1>3, <1>5
    <3>2. prev = x
      BY <3>1, <1>2 DEF prev
    <3> QED
      BY <3>1, <3>2
  <2>2. ASSUME more[x].prev = p PROVE FALSE
    <3>1. x # next /\ pl[x].prev = p /\ p # Null
      BY <2>2, <1>1, <1>3, <1>5
    <3>2. next = x
      BY <3>1, <1>2 DEF next
    <3> QED
      BY <3>1, <3>2
  <2> QED
    BY <2>1, <2>2
<1>8. ASSUME NEW x \in L PROVE LinkedDown(more, x, rank)
  <2>1. more[x].base # Null => more[x].base \in L /\ rank[x] < rank[more[x].base]
    BY <1>2, <1>3
  <2>2. ASSUME more[x].sbeg # Null
        PROVE  more[x].sbeg \in L /\ more[more[x].sbeg].base = x /\ more[more[x].sbeg].prev = Null
    <3>1. CASE x = base /\ prev = Null
      <4>1. more[x].sbeg = next /\ next # Null /\ next \in L /\ pl[next].base = base
        BY <2>2, <3>1, <1>3, <1>4
      <4> QED
        BY <3>1, <4>1, <1>3
    <3>2. CASE ~(x = base /\ prev = Null)
      <4>1. /\ more[x].sbeg = pl[x].sbeg /\ pl[x].sbeg \in L
            /\ pl[pl[x].sbeg].base = x /\ pl[pl[x].sbeg].prev = Null
        BY <2>2, <3>2, <1>2, <1>3
      <4>2. pl[x].sbeg # next
        BY <4>1, <1>1, <1>4
      <4> QED
        BY <4>1, <4>2, <1>3
    <3> QED
      BY <3>1, <3>2
  <2> QED
    BY <2>1, <2>2, <1>1 DEF LinkedDown
<1>9. ASSUME NEW x \in L, x # p PROVE LinkedBeside(more, x, rank)
  <2>1. ASSUME more[x].next # Null
        PROVE  /\ more[x].next \in L /\ rank[x] < rank[more[x].next]
               /\ more[more[x].next].base = more[x].base /\ more[more[x].next].prev = x
    <3>1. CASE x = prev
      <4>1. /\ more[x].next = next /\ next # Null /\ next \in L /\ rank[x] < rank[p] /\ rank[p] < rank[next]
            /\ pl[next].base = base /\ pl[x].base = base
        BY <2>1, <3>1, <1>1, <1>3, <1>4
      <4>2. rank[x] < rank[next]
        BY <4>1, <1>1
      <4>3. more[next].prev = x /\ more[next].base = more[x].base
        BY <4>1, <3>1, <1>3
      <4> QED
        BY <4>1, <4>2, <4>3
    <3>2. CASE x # prev
      <4>1. /\ more[x].next = pl[x].next /\ pl[x].next \in L /\ rank[x] < rank[pl[x].next]
            /\ pl[pl[x].next].base = pl[x].base /\ pl[pl[x].next].prev = x
        BY <2>1, <3>2, <1>2, <1>3
      <4>2. pl[x].next # next
        BY <4>1, <1>1, <1>4, <1>9
      <4> QED
        BY <4>1, <4>2, <1>3
    <3> QED
      BY <3>1, <3>2
  <2>2. ASSUME more[x].prev # Null
        PROVE  /\ more[x].prev \in L /\ rank[more[x].prev] < rank[x]
               /\ more[more[x].prev].base = more[x].base /\ more[more[x].prev].next = x
    <3>1. CASE x = next
      <4>1. /\ more[x].prev = prev /\ prev # Null /\ prev \in L /\ rank[prev] < rank[p] /\ rank[p] < rank[x]
            /\ pl[prev].base = base /\ pl[x].base = base
        BY <2>2, <3>1, <1>1, <1>3, <1>4
      <4>2. rank[prev] < rank[x]
        BY <4>1, <1>1
      <4>3. more[prev].next = x /\ more[prev].base = more[x].base
        BY <4>1, <3>1, <1>3
      <4> QED
        BY <4>1, <4>2, <4>3
    <3>2. CASE x # next
      <4>1. /\ more[x].prev = pl[x].prev /\ pl[x].prev \in L /\ rank[pl[x].prev] < rank[x]
            /\ pl[pl[x].prev].base = pl[x].base /\ pl[pl[x].prev].next = x
        BY <2>2, <3>2, <1>2, <1>3
      <4>2. pl[x].prev # prev
        BY <4>1, <1>1, <1>4, <1>9
      <4> QED
        BY <4>1, <4>2, <1>3
    <3> QED
      BY <3>1, <3>2
  <2>3. ASSUME more[x].base # Null, more[x].prev = Null PROVE more[more[x].base].sbeg = x
    <3>1. pl[x].base # Null /\ pl[x].base \in L /\ more[x].base = pl[x].base
      BY <2>3, <1>2, <1>3
    <3>2. CASE x = next
      <4>1. prev = Null /\ pl[x].base = base
        BY <2>3, <3>2, <1>1, <1>3, <1>4
      <4> QED
        BY <3>1, <3>2, <4>1, <1>3
    <3>3. CASE x # next
      <4>1. pl[x].prev = Null /\ pl[pl[x].base].sbeg = x
        BY <2>3, <3>1, <3>3, <1>2, <1>3
      <4>2. ~(pl[x].base = base /\ prev = Null)
        BY <3>1, <4>1, <1>4, <1>9
      <4> QED
        BY <3>1, <4>1, <4>2, <1>3
    <3> QED
      BY <3>2, <3>3
  <2> QED
    BY <2>1, <2>2, <2>3, <1>1 DEF LinkedBeside
<1> QED
  BY <1>1, <1>6, <1>7, <1>8, <1>9 DEF LinkedBut, L

\* Unlink takes p out of its list, and nothing else.
LEMMA UnlinkIs ==
  ASSUME NEW pl \in Pools1, NEW rm, NEW rank \in Ranks, Linked(pl, rank), NEW p \in Lives(pl)
  PROVE  \E more \in Pools1 :
           /\ Unlink(Call(pl, rm), p) = Call(more, rm)
           /\ LinkedBut(more, p, rank) /\ Lives(more) = Lives(pl)
           /\ \A x \in Lives(pl) :
                /\ more[x].beg = pl[x].beg /\ more[x].base = pl[x].base
                /\ more[x].sbeg # p
                /\ x # p => more[x].next # p /\ more[x].prev # p
<1> DEFINE base == pl[p].base
           next == pl[p].next
           prev == pl[p].prev
           b == IF prev # Null THEN Put1(pl, prev, "next", next)
                ELSE IF base # Null THEN Put1(pl, base, "sbeg", next) ELSE pl
           c == IF next # Null THEN Put1(b, next, "prev", prev) ELSE b
           u1 == IF prev # Null THEN Put(Call(pl, rm), prev, "next", next)
                 ELSE IF base # Null THEN Put(Call(pl, rm), base, "sbeg", next) ELSE Call(pl, rm)
           u == IF next # Null THEN Put(u1, next, "prev", prev) ELSE u1
<1>1. /\ next \in Lives(pl) \cup {Null} /\ prev \in Lives(pl) \cup {Null}
      /\ base \in Lives(pl) \cup {Null}
  BY DEF Linked, LinkedDown, LinkedBeside
<1>2. Lives(pl) \subseteq Pool /\ Null \notin Pool
  BY PoolAssumption DEF Lives
<1>3. Unlink(Call(pl, rm), p) = u
  <2>1. Call(pl, rm).pool[p] = pl[p]
    BY DEF Call
  <2> QED
    BY <2>1 DEF Unlink
<1> HIDE DEF next, prev, base
<1>4. /\ b \in Pools1 /\ Lives(b) = Lives(pl) /\ u1 = Call(b, rm)
      /\ \A x \in Lives(pl) :
           /\ b[x].beg = pl[x].beg /\ b[x].base = pl[x].base /\ b[x].prev = pl[x].prev
           /\ b[x].sbeg = IF x = base /\ prev = Null THEN next ELSE pl[x].sbeg
           /\ b[x].next = IF x = prev THEN next ELSE pl[x].next
  <2>1. CASE prev # Null
    <3>1. prev \in Lives(pl) /\ next \in Pool \cup {Null} /\ b = Put1(pl, prev, "next", next)
          /\ u1 = Put(Call(pl, rm), prev, "next", next)
      BY <2>1, <1>1, <1>2
    <3> HIDE DEF b, u1
    <3>2. /\ b \in Pools1 /\ Lives(b) = Lives(pl)
          /\ \A x \in Lives(pl) :
               /\ b[x].beg = pl[x].beg /\ b[x].base = pl[x].base /\ b[x].prev = pl[x].prev
               /\ b[x].sbeg = pl[x].sbeg
               /\ b[x].next = IF x = prev THEN next ELSE pl[x].next
      <4>1. Puts(pl, prev, "next", next, b)
        BY <3>1, Put1Is
      <4> QED
        BY <4>1 DEF Puts
    <3>3. u1 = Call(b, rm)
      BY <3>1, PutIs
    <3> QED
      BY <2>1, <3>2, <3>3
  <2>2. CASE prev = Null /\ base # Null
    <3>1. base \in Lives(pl) /\ next \in Pool \cup {Null} /\ b = Put1(pl, base, "sbeg", next)
          /\ u1 = Put(Call(pl, rm), base, "sbeg", next)
      BY <2>2, <1>1, <1>2
    <3> HIDE DEF b, u1
    <3>2. /\ b \in Pools1 /\ Lives(b) = Lives(pl)
          /\ \A x \in Lives(pl) :
               /\ b[x].beg = pl[x].beg /\ b[x].base = pl[x].base /\ b[x].prev = pl[x].prev
               /\ b[x].sbeg = IF x = base THEN next ELSE pl[x].sbeg
               /\ b[x].next = pl[x].next
      <4>1. Puts(pl, base, "sbeg", next, b)
        BY <3>1, Put1Is
      <4> QED
        BY <4>1 DEF Puts
    <3>3. u1 = Call(b, rm)
      BY <3>1, PutIs
    <3> QED
      BY <2>2, <1>2, <3>2, <3>3
  <2>3. CASE prev = Null /\ base = Null
    <3>1. b = pl /\ u1 = Call(pl, rm)
      BY <2>3
    <3> HIDE DEF b, u1
    <3> QED
      BY <2>3, <1>2, <3>1
  <2> QED
    BY <2>1, <2>2, <2>3
<1> HIDE DEF b, u1
<1>5. /\ c \in Pools1 /\ Lives(c) = Lives(pl) /\ u = Call(c, rm)
      /\ \A x \in Lives(pl) :
           /\ c[x].beg = b[x].beg /\ c[x].base = b[x].base
           /\ c[x].sbeg = b[x].sbeg /\ c[x].next = b[x].next
           /\ c[x].prev = IF x = next THEN prev ELSE b[x].prev
  <2>1. CASE next # Null
    <3>1. next \in Lives(b) /\ prev \in Pool \cup {Null} /\ c = Put1(b, next, "prev", prev)
          /\ u = Put(Call(b, rm), next, "prev", prev)
      BY <2>1, <1>1, <1>2, <1>4
    <3> HIDE DEF c, u
    <3>2. /\ c \in Pools1 /\ Lives(c) = Lives(b)
          /\ \A x \in Lives(b) :
               /\ c[x].beg = b[x].beg /\ c[x].base = b[x].base
               /\ c[x].sbeg = b[x].sbeg /\ c[x].next = b[x].next
               /\ c[x].prev = IF x = next THEN prev ELSE b[x].prev
      <4>1. Puts(b, next, "prev", prev, c)
        BY <3>1, <1>4, Put1Is
      <4> QED
        BY <4>1 DEF Puts
    <3>3. u = Call(c, rm)
      BY <3>1, <1>4, PutIs
    <3> QED
      BY <3>2, <3>3, <1>4
  <2>2. CASE next = Null
    <3>1. c = b /\ u = Call(b, rm)
      BY <2>2, <1>4
    <3> HIDE DEF c, u
    <3> QED
      BY <2>2, <1>2, <1>4, <3>1
  <2> QED
    BY <2>1, <2>2
<1> HIDE DEF c, u
<1>6. \A x \in Lives(pl) :
        /\ c[x].beg = pl[x].beg
        /\ c[x].base = pl[x].base
        /\ c[x].sbeg = IF x = pl[p].base /\ pl[p].prev = Null THEN pl[p].next ELSE pl[x].sbeg
        /\ c[x].next = IF x = pl[p].prev THEN pl[p].next ELSE pl[x].next
        /\ c[x].prev = IF x = pl[p].next THEN pl[p].prev ELSE pl[x].prev
  BY <1>4, <1>5 DEF base, next, prev
<1>7. /\ LinkedBut(c, p, rank)
      /\ \A x \in Lives(pl) : /\ c[x].sbeg # p
                              /\ x # p => c[x].next # p /\ c[x].prev # p
  BY <1>5, <1>6, Unlinked
<1> QED
  BY <1>3, <1>5, <1>6, <1>7

\* What is left when the pools below p are gone is linked.
LEMMA LinkedLess ==
  ASSUME NEW pl, NEW p, NEW rank, LinkedBut(pl, p, rank),
         \A x \in Lives(pl) : /\ pl[x].sbeg # p
                              /\ x # p => pl[x].next # p /\ pl[x].prev # p,
         NEW S, p \in S, S \subseteq Lives(pl),
         \A x \in S \ {p} : pl[x].base \in S,
         \A x \in Lives(pl) : pl[x].base \in S => x \in S,
         NEW more, Lives(more) = Lives(pl) \ S, \A x \in Lives(more) : more[x] = pl[x]
  PROVE  Linked(more, rank)
<1>1. Lives(pl) \subseteq Pool /\ Null \notin Pool
  BY PoolAssumption DEF Lives
<1>2. ASSUME NEW x \in Lives(pl) \ S PROVE LinkedDown(more, x, rank) /\ LinkedBeside(more, x, rank)
  <2>1. x # p /\ more[x] = pl[x] /\ pl[x].sbeg # p /\ pl[x].next # p /\ pl[x].prev # p
    OBVIOUS
  <2>2. /\ pl[x].sbeg # Null => pl[x].sbeg \in Lives(pl) /\ pl[pl[x].sbeg].base = x /\ pl[pl[x].sbeg].prev = Null
        /\ pl[x].base # Null => pl[x].base \in Lives(pl) /\ rank[x] < rank[pl[x].base]
        /\ pl[x].next # Null => /\ pl[x].next \in Lives(pl) /\ rank[x] < rank[pl[x].next]
                                /\ pl[pl[x].next].base = pl[x].base /\ pl[pl[x].next].prev = x
        /\ pl[x].prev # Null => /\ pl[x].prev \in Lives(pl) /\ rank[pl[x].prev] < rank[x]
                                /\ pl[pl[x].prev].base = pl[x].base /\ pl[pl[x].prev].next = x
        /\ pl[x].base # Null /\ pl[x].prev = Null => pl[pl[x].base].sbeg = x
    BY <2>1 DEF LinkedBut, LinkedDown, LinkedBeside
  <2>3. pl[x].base \notin S
    OBVIOUS
  <2>4. \A y \in Lives(pl) : y \notin S => y \in Lives(more) /\ more[y] = pl[y]
    OBVIOUS
  <2>5. pl[x].sbeg # Null => pl[x].sbeg \notin S
    BY <2>1, <2>2
  <2>6. pl[x].next # Null => pl[x].next \notin S
    BY <2>1, <2>2, <2>3
  <2>7. pl[x].prev # Null => pl[x].prev \notin S
    BY <2>1, <2>2, <2>3
  <2>8. LinkedDown(more, x, rank)
    BY <2>1, <2>2, <2>3, <2>4, <2>5 DEF LinkedDown
  <2>9. LinkedBeside(more, x, rank)
    BY <2>1, <2>2, <2>3, <2>4, <2>6, <2>7 DEF LinkedBeside
  <2> QED
    BY <2>8, <2>9
<1> QED
  BY <1>2 DEF Linked

\* ustr__pool_ll_free makes p and the pools below it go, with what is in them.
LEMMA FreeTurns ==
  ASSUME Inv, NEW p \in Live, PoolFree(p)
  PROVE  Inv' /\ R!Destroy
<1>1. /\ pool \in Pools1 /\ room \in Rooms /\ held \in Holdings /\ wild = FALSE
      /\ Listed(pool, room) /\ Serves(pool, room, held) /\ p \in Lives(pool) /\ p \in Pool
  BY InvIs DEF Live
<1>2. PICK rank \in Ranks : Linked(pool, rank)
  BY InvIs DEF Good
<1>3. PICK pl \in Pools1 :
        /\ Unlink(Call(pool, room), p) = Call(pl, room)
        /\ LinkedBut(pl, p, rank) /\ Lives(pl) = Lives(pool)
        /\ \A x \in Lives(pool) :
             /\ pl[x].beg = pool[x].beg /\ pl[x].base = pool[x].base
             /\ pl[x].sbeg # p
             /\ x # p => pl[x].next # p /\ pl[x].prev # p
  BY <1>1, <1>2, UnlinkIs
<1> DEFINE c == Call(pl, room)
           S == Visited(c, p)
           d == FreeNodes(c, S)
<1>4. Unlink(Now, p) = c /\ c.pool = pl
  <2>1. Now = Call(pool, room)
    BY <1>1 DEF Now, Call
  <2> QED
    BY <1>3, <2>1 DEF Call
<1>5. /\ p \in S /\ S \subseteq Lives(pl)
      /\ \A x \in S \ {p} : pl[x].base \in S
      /\ \A x \in Lives(pl) : pl[x].base \in S => x \in S
      /\ \A T \in SUBSET Pool :
           p \in T /\ (\A x \in Lives(pl) : pl[x].base \in T => x \in T) => S \subseteq T
  <2>1. LinkedBut(c.pool, p, rank)
    BY <1>3, <1>4
  <2> HIDE DEF c
  <2>2. /\ p \in S /\ S \subseteq Lives(c.pool)
        /\ \A x \in S \ {p} : c.pool[x].base \in S
        /\ \A x \in Lives(c.pool) : c.pool[x].base \in S => x \in S
        /\ \A T \in SUBSET Pool :
             p \in T /\ (\A x \in Lives(c.pool) : c.pool[x].base \in T => x \in T) => S \subseteq T
    BY <2>1, VisitsBelow
  <2> QED
    BY <1>4, <2>2
<1>6. Listed(pl, room) /\ Serves(pl, room, held) /\ OwnerOf(pl) = OwnerOf(pool)
  <2>1. SameLists(pool, pl)
    BY <1>3 DEF SameLists
  <2> QED
    BY <1>1, <2>1, ListsSame
<1>7. ClearTree(c, p) = d
  BY <1>1, <1>3, <1>6, ClearIs
<1>8. FreeTree(c, p) = [d EXCEPT !.pool = [x \in Pool |-> IF x \in S THEN Null ELSE d.pool[x]]]
  BY <1>7 DEF FreeTree
<1> HIDE DEF S
<1>9. /\ d = Call(d.pool, d.room)
      /\ d.pool \in Pools1 /\ SameLinks(pl, d.pool) /\ d.room \in Rooms
      /\ \A x \in Lives(pl) : d.pool[x].beg = IF x \in S THEN <<>> ELSE pl[x].beg
      /\ \A b \in Mem : d.room[b] = IF \E x \in S : On(pl, x, b) THEN 0 ELSE room[b]
  BY <1>1, <1>5, <1>6, Emptied
<1>10. Return(FreeTree(c, p)) /\ Gone(FreeTree(c, p))
  BY <1>4 DEF PoolFree
<1> HIDE DEF c, d
<1> DEFINE more == [x \in Pool |-> IF x \in S THEN Null ELSE d.pool[x]]
<1>11. /\ pool' = more /\ room' = d.room /\ wild' = FALSE
       /\ held' = Drop(held, {b \in DOMAIN held : room'[b] = 0})
  <2> DEFINE pl2 == d.pool
             rm2 == d.room
  <2>1. d = [pool |-> pl2, room |-> rm2, wild |-> FALSE]
    BY <1>9 DEF Call
  <2>2. FreeTree(c, p) = [d EXCEPT !.pool = more]
    BY <1>8
  <2> HIDE DEF more, pl2, rm2
  <2>a. FreeTree(c, p) = [pool |-> more, room |-> rm2, wild |-> FALSE]
    BY <2>1, <2>2
  <2>3. FreeTree(c, p) = Call(more, d.room)
    BY <2>a DEF Call, rm2
  <2>4. Return(Call(more, d.room)) /\ Gone(Call(more, d.room))
    BY <1>10, <2>3
  <2> QED
    BY <2>4 DEF Return, Gone, Call
<1>12. more \in Pools1 /\ Lives(more) = Lives(pl) \ S /\ \A x \in Lives(more) : more[x] = d.pool[x]
  BY <1>9 DEF Pools1, Lives, SameLinks
<1> HIDE DEF more
<1>13. Linked(more, rank)
  <2>1. LinkedBut(d.pool, p, rank)
    <3>1. LinkedBut(pl, p, rank)
      BY <1>3
    <3>2. ASSUME NEW x \in Lives(pl)
          PROVE  LinkedDown(d.pool, x, rank) /\ (x # p => LinkedBeside(d.pool, x, rank))
      <4>1. LinkedDown(pl, x, rank) /\ (x # p => LinkedBeside(pl, x, rank))
        BY <3>1 DEF LinkedBut
      <4>a. /\ Lives(d.pool) = Lives(pl)
            /\ \A y \in Lives(pl) : /\ d.pool[y].sbeg = pl[y].sbeg /\ d.pool[y].base = pl[y].base
                                    /\ d.pool[y].next = pl[y].next /\ d.pool[y].prev = pl[y].prev
        BY <1>9 DEF SameLinks
      <4>2. LinkedDown(d.pool, x, rank)
        BY <4>1, <4>a DEF LinkedDown
      <4>3. ASSUME LinkedBeside(pl, x, rank) PROVE LinkedBeside(d.pool, x, rank)
        <5> DEFINE e == d.pool
        <5>1. /\ x \in Lives(pl) /\ Lives(e) = Lives(pl)
              /\ \A y \in Lives(pl) : /\ e[y].sbeg = pl[y].sbeg /\ e[y].base = pl[y].base
                                      /\ e[y].next = pl[y].next /\ e[y].prev = pl[y].prev
          BY <4>a
        <5>2. /\ LinkedDown(pl, x, rank) /\ LinkedBeside(pl, x, rank)
          BY <4>1, <4>3
        <5> HIDE DEF e
        <5>3. LinkedBeside(e, x, rank)
          BY <5>1, <5>2 DEF LinkedDown, LinkedBeside
        <5> QED
          BY <5>3 DEF e
      <4> QED
        BY <4>1, <4>2, <4>3
    <3> QED
      BY <3>1, <3>2, <1>9 DEF LinkedBut, SameLinks
  <2>2. Lives(d.pool) = Lives(pl) /\ \A x \in Lives(pl) : d.pool[x].base = pl[x].base
    BY <1>9 DEF SameLinks
  <2>3. \A x \in Lives(d.pool) : /\ d.pool[x].sbeg # p
                                 /\ x # p => d.pool[x].next # p /\ d.pool[x].prev # p
    BY <1>3, <1>9 DEF SameLinks
  <2>4. /\ p \in S /\ S \subseteq Lives(d.pool)
        /\ \A x \in S \ {p} : d.pool[x].base \in S
        /\ \A x \in Lives(d.pool) : d.pool[x].base \in S => x \in S
    BY <1>5, <2>2
  <2>5. Lives(more) = Lives(d.pool) \ S
    BY <1>12, <2>2
  <2> QED
    BY <1>12, <2>1, <2>3, <2>4, <2>5, LinkedLess
<1>14. Sweeps(pool, room, held, S, pool', room', held')
  <2>1. \A x \in Lives(more) : more[x].beg = IF x \in S THEN <<>> ELSE pool[x].beg
    BY <1>3, <1>9, <1>12
  <2>2. \A x \in S : \A b : On(pl, x, b) <=> On(pool, x, b)
    BY <1>3, <1>5 DEF On
  <2>3. \A b \in Mem : room'[b] = IF \E x \in S : On(pool, x, b) THEN 0 ELSE room[b]
    BY <1>9, <1>11, <2>2
  <2> QED
    BY <1>1, <1>3, <1>5, <1>9, <1>11, <1>12, <2>1, <2>3 DEF Sweeps
<1>15. Listed(pool', room') /\ Serves(pool', room', held') /\ held' \in Holdings
  BY <1>14, Swept
<1>16. Inv'
  BY <1>9, <1>11, <1>12, <1>13, <1>15 DEF Inv, Good
<1>17. R!Destroy
  <2>1. R!Below(p) = S /\ p \in R!Pools
    BY <1>1, <1>3, <1>5, BelowIs, PoolsAre
  <2>2. Parent' = [q \in Pool |-> IF q \in S THEN "none" ELSE Parent[q]]
    <3>1. Parent = ParentOf(pool) /\ Parent' = ParentOf(more)
      BY <1>11, Mapped
    <3>2. \A q \in Lives(more) : more[q].base = pool[q].base
      BY <1>3, <1>9, <1>12 DEF SameLinks
    <3>3. \A q \in Pool : q \in Lives(more) <=> q \in Lives(pool) /\ q \notin S
      BY <1>3, <1>12
    <3> QED
      BY <3>1, <3>2, <3>3 DEF ParentOf
  <2>3. R!GiveBack(S)
    BY <1>14, GivesBack
  <2> QED
    BY <2>1, <2>2, <2>3 DEF R!Destroy
<1> QED
  BY <1>16, <1>17

-----------------------------------------------------------------------------
(* The theorems *)

\* There are no pools and no blocks at first.
LEMMA NothingYet ==
  ASSUME Init
  PROVE  Inv /\ R!Init
<1>1. Lives(pool) = {} /\ pool \in Pools1 /\ room \in Rooms /\ wild = FALSE
  BY DEF Init, Lives, Pools1, Rooms
<1>2. held \in Holdings /\ DOMAIN held = {}
  <2>1. held = <<>> /\ DOMAIN held = {}
    BY DEF Init
  <2>2. \A b \in DOMAIN held : held[b] \in [p : Pool, size : Nat]
    BY <2>1
  <2>3. held \in [DOMAIN held -> [p : Pool, size : Nat]]
    BY <2>1, <2>2
  <2> QED
    BY <2>1, <2>3, HoldingIs
<1>3. Listed(pool, room) /\ Serves(pool, room, held)
  BY <1>1, <1>2 DEF Listed, Serves, Init
<1>4. [x \in Pool |-> 0] \in Ranks
  BY DEF Ranks
<1>5. Linked(pool, [x \in Pool |-> 0])
  BY <1>1 DEF Linked
<1>6. Inv
  BY <1>1, <1>2, <1>3, <1>4, <1>5 DEF Inv, Good
<1>7. Parent = [p \in Pool |-> "none"]
  BY <1>1, Mapped DEF ParentOf
<1>8. Owner = [b \in Mem |-> "none"]
  <2>1. \A b : {p \in Lives(pool) : On(pool, p, b)} = {}
    BY <1>1
  <2>2. AnyOf({}) = "none"
    BY DEF AnyOf
  <2>3. OwnerOf(pool) = [b \in Mem |-> AnyOf({})]
    BY <2>1 DEF OwnerOf
  <2> QED
    BY <2>2, <2>3, Mapped
<1>9. Sizes = <<>>
  BY DEF Sizes, Init
<1> QED
  BY <1>6, <1>7, <1>8, <1>9 DEF R!Init

\* Each call keeps the invariant, and is a step of Regions.
LEMMA CallTurns ==
  ASSUME Inv, [Next]_vars
  PROVE  Inv' /\ [R!Next]_R!vars
<1> USE DEF R!Next
<1>1. CASE MakeSubpool(Null)
  <2>1. Inv' /\ R!Make
    BY <1>1, MakeTurns
  <2> QED
    BY <2>1
<1>2. ASSUME NEW p \in Live, MakeSubpool(p) PROVE Inv' /\ R!Next
  <2>1. Inv' /\ R!Make
    BY <1>2, MakeTurns
  <2> QED
    BY <2>1
<1>3. ASSUME NEW p \in Live, Malloc(p) PROVE Inv' /\ R!Next
  <2>1. Inv' /\ R!Give
    BY <1>3, MallocTurns
  <2> QED
    BY <2>1
<1>4. ASSUME NEW p \in Live, PoolClear(p) PROVE Inv' /\ R!Next
  <2>1. Inv' /\ R!Clear
    BY <1>4, ClearTurns
  <2> QED
    BY <2>1
<1>5. ASSUME NEW p \in Live, PoolFree(p) PROVE Inv' /\ R!Next
  <2>1. Inv' /\ R!Destroy
    BY <1>5, FreeTurns
  <2> QED
    BY <2>1
<1>6. ASSUME NEW p \in Live, Cntl(p) PROVE Inv' /\ UNCHANGED R!vars
  BY <1>6, CntlTurns
<1>7. ASSUME NEW p \in Live, NEW old \in DOMAIN held, Realloc(p, old) PROVE Inv' /\ R!Next
  <2>1. Inv' /\ R!Give
    BY <1>7, ReallocTurns
  <2> QED
    BY <2>1
<1>8. ASSUME NEW p \in Live, NEW old \in DOMAIN held, FreeBlock(p, old) PROVE Inv' /\ R!Next
  <2>1. Inv' /\ R!Drop
    BY <1>8, FreeBlockTurns
  <2> QED
    BY <2>1
<1>9. CASE UNCHANGED vars
  <2>1. pool' = pool /\ room' = room /\ held' = held /\ wild' = wild
    BY <1>9 DEF vars
  <2>2. Inv'
    BY <2>1 DEF Inv
  <2>3. Parent' = Parent /\ Owner' = Owner /\ Sizes' = Sizes
    BY <2>1, Mapped
  <2> QED
    BY <2>2, <2>3 DEF R!vars
<1> QED
  BY <1>1, <1>2, <1>3, <1>4, <1>5, <1>6, <1>7, <1>8, <1>9 DEF Next

\* As many blocks as nodes.
LEMMA NodesCounted ==
  ASSUME Inv, NEW p \in Lives(pool)
  PROVE  Cardinality(Nodes(p)) = Len(pool[p].beg)
<1> DEFINE n == Len(pool[p].beg)
           f == [i \in 1 .. n |-> pool[p].beg[i]]
<1>1. pool \in Pools1 /\ Listed(pool, room)
  BY InvIs
<1>2. n \in Nat
  BY <1>1, Fields
<1>3. \A i, j \in 1 .. n : pool[p].beg[i] = pool[p].beg[j] => i = j
  BY <1>1, ListIs
<1>4. f \in Bijection(1 .. n, Nodes(p))
  BY <1>3 DEF Bijection, Injection, Surjection, IsInjective, Nodes
<1>5. ExistsBijection(1 .. n, Nodes(p))
  BY <1>4 DEF ExistsBijection
<1> QED
  BY <1>2, <1>5, FS_CountingElements

\* What the invariant says of the pools.
LEMMA InvShows ==
  ASSUME Inv
  PROVE  BlocksListedOnce /\ HoldersServed /\ LinksAgree
<1>1. /\ pool \in Pools1 /\ room \in Rooms /\ held \in Holdings /\ wild = FALSE
      /\ Listed(pool, room) /\ Serves(pool, room, held) /\ Live = Lives(pool)
  BY InvIs
<1>2. \A p \in Live : \A b : b \in Nodes(p) <=> On(pool, p, b)
  BY DEF Nodes, On
<1>3. \A p \in Live : \A b : On(pool, p, b) => b \in Mem /\ room[b] # 0
  BY <1>1, ListIs DEF On
<1>4. UNION {Nodes(p) : p \in Live} = Mem \ Free
  <2>1. \A b \in Mem : room[b] # 0 => \E p \in Live : On(pool, p, b)
    BY <1>1 DEF Listed
  <2> QED
    BY <1>2, <1>3, <2>1 DEF Free
<1>5. ASSUME NEW p \in Live, NEW q \in Live, p # q PROVE Nodes(p) \cap Nodes(q) = {}
  <2>1. \A b : ~(On(pool, p, b) /\ On(pool, q, b))
    <3> SUFFICES ASSUME NEW b, On(pool, p, b), On(pool, q, b) PROVE FALSE
      OBVIOUS
    <3>1. PICK i \in 1 .. Len(pool[p].beg) : pool[p].beg[i] = b
      BY DEF On
    <3>2. PICK j \in 1 .. Len(pool[q].beg) : pool[q].beg[j] = b
      BY DEF On
    <3>3. Len(pool[p].beg) \in Nat /\ Len(pool[q].beg) \in Nat
      BY <1>1, Fields
    <3> QED
      BY <3>1, <3>2, <3>3, <1>1, <1>5 DEF Listed
  <2> QED
    BY <2>1, <1>2, <1>5
<1>6. \A p \in Live : Cardinality(Nodes(p)) = Len(pool[p].beg)
  BY <1>1, NodesCounted
<1>7. BlocksListedOnce
  BY <1>1, <1>4, <1>5, <1>6 DEF BlocksListedOnce
<1>8. HoldersServed
  BY <1>1, <1>2 DEF HoldersServed, Serves
<1>9. LinksAgree
  <2>1. PICK rank \in Ranks : Linked(pool, rank)
    BY DEF Inv, Good
  <2>2. \A p \in Live : LinkedDown(pool, p, rank) /\ LinkedBeside(pool, p, rank)
    BY <2>1, <1>1 DEF Linked
  <2> QED
    BY <2>2, <1>1 DEF LinkedDown, LinkedBeside, LinksAgree
<1> QED
  BY <1>7, <1>8, <1>9

\* The invariant holds whatever is called, in whatever order.
THEOREM PoolsStayGood == Spec => []Inv
<1>1. Init => Inv
  BY NothingYet
<1>2. Inv /\ [Next]_vars => Inv'
  BY CallTurns
<1> QED
  BY <1>1, <1>2, PTL DEF Spec

\* No block of a pool is lost, none is in two lists or twice in one, and
\* nothing freed is touched, whatever pools are made, cleared and freed
\* (ustr__pool_ll__clear, ustr__pool_ll__free, ustr_pool_ll_free).
THEOREM BlocksStayListed == Spec => []BlocksListedOnce
<1>1. Inv => BlocksListedOnce
  BY InvShows
<1> QED
  BY <1>1, PoolsStayGood, PTL

\* A block is in its pool's list and as large as its holder thinks, through
\* resizing, freeing, clearing (ustr__pool_ll_sys_realloc).
THEOREM HoldersStayServed == Spec => []HoldersServed
<1>1. Inv => HoldersServed
  BY InvShows
<1> QED
  BY <1>1, PoolsStayGood, PTL

\* The links between pools stay those of trees of doubly linked lists
\* (ustr__pool_ll_make_subpool, ustr_pool_ll_free).
THEOREM LinksStayAgreed == Spec => []LinksAgree
<1>1. Inv => LinksAgree
  BY InvShows
<1> QED
  BY <1>1, PoolsStayGood, PTL

\* The linked lists are the trees of regions of struct Ustr_pool: clearing or
\* freeing a pool takes the blocks and the pools from there down, and no others.
THEOREM PoolsKeepPromise == Spec => KeepsPromise
<1>1. Init => R!Init
  BY NothingYet
<1>2. Inv /\ [Next]_vars => [R!Next]_R!vars
  BY CallTurns
<1> QED
  BY <1>1, <1>2, PoolsStayGood, PTL DEF Spec, KeepsPromise, R!Spec
=============================================================================
