------------------------------- MODULE Ustr -------------------------------
(***************************************************************************)
(* The string library as its callers use it: handles that hold pointers to *)
(* strings, and one action for every function of the interface.  An action *)
(* runs the whole function (UstrHeap, UstrEdit) with an allocator that may *)
(* refuse or move any block, and records what was asked for.               *)
(*                                                                         *)
(* A text of the caller is a member of Texts, of at most two characters;   *)
(* the texts of Edited handles grow to MaxLen, those of the others are     *)
(* only copied, shared and dropped.  At most one block is shared for ever. *)
(***************************************************************************)
EXTENDS UstrEdit

CONSTANTS
  Handle, Edited,
  None,
  Texts,      \* texts a caller passes in
  Confs,      \* configurations of blocks
  Defaults,   \* those the program may set as the library's default
  CopyLen,    \* longest text of the handles that are not edited
  MaxLen,     \* longest text
  FixRoom     \* size of the caller's buffer

\* A configuration is one the code can be given, a text of two characters is
\* not too long, a block for the longest is counted with four bytes, and the
\* caller's buffer has room for a header (ustr_init_fixed answers null
\* otherwise).  A string of 4 GiB would become a sized one (ustr-main-code.h:486
\* and 558), which InitSize and InitAlloc leave out.
ASSUME UstrAssumption ==
  /\ IsFiniteSet(Handle) /\ Edited \subseteq Handle
  /\ \A k \in Confs : k \in [sz : Nat, rb : Widths, exact : BOOLEAN, emem : BOOLEAN]
  /\ Defaults \subseteq Confs
  /\ MaxLen \in Nat \ {0, 1}
  /\ MaxLen + HeadAndTail(4, 4, 1) < Values(Radix, 4)
  /\ CopyLen \in 0 .. MaxLen
  /\ FixRoom \in Nat /\ \A exact \in BOOLEAN : RoomFor(InitFixed(FixRoom, exact))
  /\ \A text \in Texts : text \in Seq({"a", "A"}) /\ Len(text) <= MaxLen

VARIABLES
  heap, var,  \* the blocks, and the pointer every handle holds
  wild,       \* memory was used that is not the library's to use
  conf,       \* the default configuration
  call        \* the last call: the request and whether it was granted

vars == <<heap, var, wild, conf, call>>

Places == Addr \cup {Empty, Lit, Fix}

Held(h) == var[h] # Null
TextOf(h) == heap[var[h]].text
LenOf(h) == Len(TextOf(h))
\* Positions a caller may name: those of the text and two behind it.
Pos(h) == 1 .. LenOf(h) + 2
Start(h) == [heap |-> heap, s |-> var[h], n |-> Null, ok |-> TRUE,
             wild |-> wild, conf |-> conf]

St == INSTANCE Strings
        WITH val <- [h \in Handle |-> IF Held(h) THEN TextOf(h) ELSE None], call <- call

\* A text may not outgrow a limited buffer (ustr-main.h:427-429).
Most(h) == IF Held(h) /\ Limited(heap[var[h]]) THEN Size(heap[var[h]]) ELSE None
Outgrown(h, len) == Most(h) # None /\ len > Most(h)
Request(h, kind) ==
  [h |-> h, kind |-> kind, bad |-> FALSE, odd |-> FALSE, partial |-> FALSE, most |-> Most(h)]
Cut(h, off, cut, src) ==
  Request(h, "splice") @@ [off |-> off, cut |-> cut, src |-> src]
Bad(req, bad) == [req EXCEPT !.bad = bad]
\* Requests that the library is known to answer otherwise than it promises.
Odd(req, odd) == [req EXCEPT !.odd = odd]
Given(text) == St!Given(text)
PartOf(h, off, len) == St!PartOf(h, off, len)
AllOf(h) == PartOf(h, 0, LenOf(h))

\* The caller's buffer is the caller's again once no handle points at it.
Tidy(h, c) ==
  IF c.s # Fix /\ \A g \in Handle \ {h} : var[g] # Fix
  THEN [c.heap EXCEPT ![Fix] = FreeBlock] ELSE c.heap

Step(h, req, S) ==
  \E c \in S :
    /\ heap' = Tidy(h, c)
    /\ var' = [var EXCEPT ![h] = c.s]
    /\ wild' = c.wild
    /\ call' = [req |-> req, ok |-> c.ok]
    /\ UNCHANGED conf

\* The function returns a new string, or null.
New(h, src, S) ==
  /\ ~Held(h)
  /\ h \notin Edited => src.len <= CopyLen
  /\ Step(h, Request(h, "new") @@ [src |-> src],
          {[c EXCEPT !.s = IF c.ok THEN c.n ELSE Null] : c \in S})

\* A limited string without room gets a block of the allocator when characters
\* go before its end (ustr-ins-code.h:49-62), though it "cannot grow".
Escapes(h, req, peak) ==
  /\ Outgrown(h, peak)
  /\ req.kind = "splice" /\ req.off + req.cut < LenOf(h)

\* The function edits the text of the handle, which has peak characters then.
Edit(h, req, peak, S) ==
  peak <= MaxLen /\ Step(h, IF Escapes(h, req, peak) THEN Odd(req, TRUE) ELSE req, S)

Init ==
  /\ heap = [x \in Places |-> CASE x = Empty -> RoBlock(<<>>)
                                [] x = Lit -> RoBlock(<<"a", "A">>)
                                [] OTHER -> FreeBlock]
  /\ var = [h \in Handle |-> Null]
  /\ wild = FALSE
  /\ conf \in Defaults
  /\ call = None

-----------------------------------------------------------------------------
(* Handles that get a string *)

DupBuf(h) == \E text \in Texts :
  New(h, Given(text), DupxBuf(Start(h), conf, Buf(text), Len(text)))
DupRep(h) == New(h, Given(<<"A", "A">>), DupxRepChr(Start(h), conf, "A", 2))
DupEmpty(h) == New(h, Given(<<>>), DupxEmpty(Start(h), conf))
DupOf(h, g) == New(h, AllOf(g), Dup(Start(h), var[g]))
DupxOf(h, g) == \E k \in Confs : New(h, AllOf(g), Dupx(Start(h), k, var[g]))
DupPart(h, g) == \E pos \in 1 .. LenOf(g), len \in 0 .. 2 :
  /\ pos - 1 + len <= LenOf(g)
  /\ New(h, PartOf(g, pos - 1, len), DupSubustr(Start(h), var[g], pos, len))
JoinOf(h, g) ==
  LET text == TextOf(g) \o TextOf(g)
  IN  /\ Len(text) <= 2
      /\ \/ New(h, Given(text), ScConcat(Start(h), conf, <<var[g], var[g]>>))
         \/ /\ Len(text) + LenOf(g) <= 2
            /\ New(h, Given(text \o TextOf(g)), ScJoin(Start(h), conf, var[g], <<var[g], var[g]>>))
UseLiteral(h) ==
  /\ ~Held(h)
  /\ Step(h, Request(h, "new") @@ [src |-> Given(<<"a", "A">>)], {[Start(h) EXCEPT !.s = Lit]})
InitBuffer(h) == \E exact \in BOOLEAN :
  /\ ~Held(h)
  /\ \A g \in Handle : var[g] # Fix
  /\ Step(h, Request(h, "new") @@ [src |-> Given(<<>>)],
          {[Start(h) EXCEPT !.s = Fix, !.heap[Fix] = InitFixed(FixRoom, exact)]})

\* The part of g's text up to the next separator, in a new string or in the
\* one the handle has.
Split(h, g) == \E off \in 0 .. LenOf(g), flags \in {{}, {"non"}, {"sep", "conf"}} :
  LET st == SplitStep(TextOf(g), off, <<"a">>, flags)
      src == PartOf(g, st.off, st.len)
      S == SplitBuf(Start(h), var[g], off, <<"a">>, flags)
  IN  IF Held(h)
      THEN \E c \in S : Step(h, IF c.ok THEN Cut(h, 0, LenOf(h), src) ELSE Request(h, "drop"),
                             {[c EXCEPT !.ok = TRUE]})
      ELSE /\ st.len # -1
           /\ New(h, src, S)

Free1(h) == Held(h) /\ Step(h, Request(h, "drop"), {ScFree2(Done(Start(h)), Null)})

\* ustr_setf_share: the count says 0 from now on; ustr_sc_free_shared undoes
\* it for the last holder.
Share(h) ==
  /\ \A a \in Addr : Alloc(heap[a]) /\ heap[a].rb > 0 => heap[a].ref # 0
  /\ LET d == SetfShare(Start(h)) IN Step(h, Bad(Request(h, "keep"), ~d.ok), {d})
FreeShared(h) ==
  /\ Ro(heap[var[h]]) \/ (Alloc(heap[var[h]]) /\ heap[var[h]].rb > 0 /\ heap[var[h]].ref = 0)
  /\ \A g \in Handle \ {h} : var[g] # var[h]
  /\ Step(h, Request(h, "drop"), ScFreeShared(Start(h)))
ClrEnomem(h) == Step(h, Request(h, "keep"), {SetEnomem(Start(h), FALSE)})

\* The copy goes to another handle.
DupAway(h, g) ==
  /\ ~Held(g)
  /\ LenOf(h) <= CopyLen
  /\ \E c \in ScDup(Start(h)) :
       /\ heap' = c.heap
       /\ var' = [var EXCEPT ![h] = c.s, ![g] = IF c.ok THEN c.n ELSE Null]
       /\ call' = [req |-> Request(g, "new") @@ [src |-> AllOf(h)], ok |-> c.ok]
       /\ wild' = c.wild
       /\ UNCHANGED conf

-----------------------------------------------------------------------------
(* Handles whose string is edited *)

Resize(h) == \E size \in {0, 2, MaxLen} :
  Step(h, Request(h, "keep"), Realloc(Start(h), size))
Own(h) == Step(h, Request(h, "keep"), EnsureOwner(Start(h)))
Clear(h) == Step(h, Cut(h, 0, LenOf(h), Given(<<>>)), ScDel(Start(h)))
Empty1(h) == Step(h, Cut(h, 0, LenOf(h), Given(<<>>)), SetEmpty(Start(h)))
Delete(h) == \E len \in 0 .. LenOf(h) + 1 :
  Step(h, Bad(Cut(h, LenOf(h) - len, len, Given(<<>>)), len > LenOf(h)), Del(Start(h), len))

\* Is there no part of len characters at pos?
Miss(h, pos, len) == len # 0 /\ pos - 1 + len > LenOf(h)
DeletePart(h) == \E pos \in Pos(h), len \in 0 .. 2 :
  Step(h, Bad(Cut(h, pos - 1, len, Given(<<>>)), Miss(h, pos, len)),
       DelSubustr(Start(h), pos, len))

\* Text of the caller.  pos is where the new characters go, olen how many
\* they replace; the functions that take a repeated character and those that
\* print are the same but for where the characters come from.
PutText(h) == \E text \in Texts :
  LET c == Start(h)
      len == Len(text)
      n == LenOf(h)
      Add1(S) == Edit(h, Cut(h, n, 0, Given(text)), n + len, S)
      Set1(S) == Edit(h, Cut(h, 0, n, Given(text)), len, S)
  IN  \/ Add1(AddBuf(c, Buf(text), len))
      \/ Add1(AddFmt(c, text))
      \/ text = Rep("A", len) /\ Add1(AddRepChr(c, "A", len))
      \/ Set1(SetBuf(c, Buf(text), len))
      \/ Set1(SetFmt(c, text))
      \/ text = Rep("A", len) /\ Set1(SetRepChr(c, "A", len))

PutTextAt(h) == \E text \in Texts, pos \in Pos(h) :
  LET c == Start(h)
      len == Len(text)
      n == LenOf(h)
      Ins1(S) == Edit(h, Bad(Cut(h, pos - 1, 0, Given(text)), pos - 1 > n /\ len # 0),
                      n + len, S)
      Sub1(S) == Edit(h, Bad(Cut(h, pos - 1, len, Given(text)), pos > n /\ len # 0),
                      pos - 1 + len, S)
  IN  \/ Ins1(InsBuf(c, pos - 1, Buf(text), len))
      \/ Ins1(InsFmt(c, pos - 1, text))
      \/ text = Rep("A", len) /\ Ins1(InsRepChr(c, pos - 1, "A", len))
      \/ Sub1(SubBuf(c, pos, Buf(text), len))
      \/ Sub1(SubFmt(c, pos, text))
      \/ text = Rep("A", len) /\ Sub1(SubRepChr(c, pos, "A", len))

ExchangeText(h) == \E text \in Texts, pos \in Pos(h), olen \in 0 .. 2 :
  LET c == Start(h)
      len == Len(text)
      Put(S) == Edit(h, Bad(Cut(h, pos - 1, olen, Given(text)),
                            IF olen = 0 THEN len # 0 /\ pos - 1 > LenOf(h)
                            ELSE Miss(h, pos, olen)),
                     LenOf(h) + len - olen, S)
  IN  \/ Put(ScSubBuf(c, pos, olen, Buf(text), len))
      \/ Put(ScSubFmt(c, pos, olen, text))
      \/ text = Rep("A", len) /\ Put(ScSubRepChr(c, pos, olen, "A", len))

\* ustr_sub of a string over itself inserts its beginning: it takes the place
\* behind the end, and lets a limited string grow.
SubsItself(h, g, len, pos) ==
  /\ var[g] = var[h] /\ len = LenOf(h) /\ len # 0
  /\ pos = len + 1 \/ Outgrown(h, pos - 1 + len)

\* ustr_sub_subustr of a part over itself cuts the text off behind it
\* (ustr-sub-code.h:107-108).
SubsPartOfItself(h, g, from, len, pos) ==
  /\ var[g] = var[h] /\ Owner(heap[var[h]])
  /\ pos = from /\ len \notin {0, LenOf(h)}

\* ustr_ins_subustr takes the length of the other text for the end of the
\* handle's, so that the characters go to the wrong place
\* (ustr-ins-code.h:158-159).
InsAtWrongEnd(h, g, len, pos) ==
  len \notin {0, LenOf(g)} /\ pos = LenOf(g) /\ pos # LenOf(h)

\* The text of a handle, or a part of it, which may be the handle's own.
PutString(h, g) ==
  LET c == Start(h)
      n == LenOf(h)
      x == var[g]
      \* ustr_ins of an empty string into itself does not look at the position.
      Unchecked(pos) == x = var[h] /\ n = 0 /\ Owner(heap[x]) /\ pos > 1
  IN  \/ Edit(h, Cut(h, n, 0, AllOf(g)), n + LenOf(g), Add(c, x))
      \/ Edit(h, Cut(h, 0, n, AllOf(g)), LenOf(g), Set(c, x))
      \/ \E pos \in Pos(h) :
           \/ /\ ~Unchecked(pos)
              /\ Edit(h, Bad(Cut(h, pos - 1, 0, AllOf(g)), pos - 1 > n /\ LenOf(g) # 0),
                      n + LenOf(g), Ins(c, pos - 1, x))
           \/ Edit(h, Odd(Bad(Cut(h, pos - 1, LenOf(g), AllOf(g)), pos > n /\ LenOf(g) # 0),
                          SubsItself(h, g, LenOf(g), pos)),
                   pos - 1 + LenOf(g), Sub(c, pos, x))
      \/ \E pos \in Pos(h), olen \in 0 .. 2 :
           /\ olen = 0 => ~Unchecked(pos)
           /\ Edit(h, Bad(Cut(h, pos - 1, olen, AllOf(g)),
                          IF olen = 0 THEN LenOf(g) # 0 /\ pos - 1 > n ELSE Miss(h, pos, olen)),
                   n + LenOf(g) - olen, ScSub(c, pos, olen, x))

PutPartOf(h, g, from, len) ==
  LET c == Start(h)
      n == LenOf(h)
      x == var[g]
      src == PartOf(g, from - 1, len)
      miss == Miss(g, from, len)
      Part(off, cut, bad, odd, peak, S) ==
        Edit(h, Odd(Bad(Cut(h, off, cut, src), miss \/ bad), odd), peak, S)
      \* A part of a text in the caller's buffer is copied over itself.
      overlaps == x = var[h] /\ Fixed(heap[x])
  IN  \/ Part(n, 0, FALSE, FALSE, n + len, AddSubustr(c, x, from, len))
      \/ ~overlaps /\ Part(0, n, FALSE, FALSE, len, SetSubustr(c, x, from, len))
      \/ \E pos \in {0} \cup Pos(h) :
           Part(pos, 0, len # 0 /\ pos > n, InsAtWrongEnd(h, g, len, pos), n + len,
                InsSubustr(c, pos, x, from, len))
      \/ \E pos \in Pos(h) :
           Part(pos - 1, len, len # 0 /\ pos > n,
                SubsItself(h, g, len, pos) \/ SubsPartOfItself(h, g, from, len, pos),
                pos - 1 + len, SubSubustr(c, pos, x, from, len))
      \/ \E pos \in Pos(h), olen \in 0 .. 2 :
           Part(pos - 1, olen,
                IF len = 0 \/ olen # 0 THEN Miss(h, pos, olen) ELSE pos - 1 > n, FALSE,
                n + len - olen, ScSubSubustr(c, pos, olen, x, from, len))

PutPart(h, g) == \E from \in Pos(g), len \in 0 .. 2 : PutPartOf(h, g, from, len)

ReplaceText(h) == \E old \in Texts, new \in Texts, lim \in 0 .. 2 :
  LET total == Spliced(TextOf(h), old, new, lim)
      none == total = TextOf(h) /\ Find(TextOf(h), 0, old) = 0
      Put(S) == Edit(h, Bad(Request(h, "replace"), none)
                        @@ [old |-> Given(old), src |-> Given(new), lim |-> lim],
                     Len(total), S)
  IN  /\ old # <<>>
      /\ \/ Put(ReplaceBuf(Start(h), old, new, lim))
         \/ /\ old = Rep("A", Len(old)) /\ new = Rep("A", Len(new))
            /\ Put(ReplaceRepChr(Start(h), "A", Len(old), "A", Len(new), lim))

ReplaceString(h, g1, g2) ==
  LET total == Spliced(TextOf(h), TextOf(g1), TextOf(g2), 0)
  IN  /\ TextOf(g1) # <<>>
      /\ Edit(h, Bad(Request(h, "replace"), Find(TextOf(h), 0, TextOf(g1)) = 0)
                 @@ [old |-> AllOf(g1), src |-> AllOf(g2), lim |-> 0],
              Len(total), Replace(Start(h), var[g1], var[g2], 0))

Reverse1(h) == Step(h, Request(h, "reverse"), ScReverse(Start(h)))
Upper == [ch \in {"a", "A"} |-> "A"]
Lower == [ch \in {"a", "A"} |-> "a"]
ChangeCase(h) ==
  \/ Step(h, Request(h, "map") @@ [to |-> Upper], ScMap(Start(h), Upper))
  \/ Step(h, Request(h, "map") @@ [to |-> Lower], ScMap(Start(h), Lower))
TrimChars(h) ==
  LET Of1(l, r) == Request(h, "trim") @@ [chrs |-> {"a"}, left |-> l, right |-> r]
  IN  \/ Step(h, Of1(TRUE, FALSE), LTrim(Start(h), {"a"}))
      \/ Step(h, Of1(FALSE, TRUE), RTrim(Start(h), {"a"}))
      \/ Step(h, Of1(TRUE, TRUE), Trim(Start(h), {"a"}))

-----------------------------------------------------------------------------
(* Files *)

\* minlen characters are asked for and the stream has those of input.
GetSome(h) == \E input \in Texts, minlen \in 0 .. 2 :
  /\ Len(input) <= minlen
  /\ Edit(h, Bad(Cut(h, LenOf(h), 0, Given(input)), minlen # 0 /\ input = <<>>),
          LenOf(h) + minlen, IoGet(Start(h), minlen, input))

GetAll(h) == \E input \in Texts :
  LET reads == UNION {FileRounds(Start(h), input)[i] : i \in 0 .. Len(input)}
  IN  /\ \A r \in reads : r.more => Len(Text(r.c)) + Asked(r.c) <= MaxLen
      /\ Step(h, [Cut(h, LenOf(h), 0, Given(input)) EXCEPT !.partial = TRUE],
              IoGetFile(Start(h), input))

\* A delimiter that fills the room made for it does not end the line
\* (ustr-io-code.h:134-151).
GetLine(h) == \E input \in Texts :
  LET end == Find(input, 0, <<"A">>)
      reads == UNION {LineRounds(Start(h), input, "A")[i] : i \in 0 .. Len(input)}
      line == IF end = 0 THEN input ELSE Slice(input, 0, end)
      missed == end # 0 /\ end % LineSz = 0 /\ end # Len(input)
      req == Odd(Bad(Cut(h, LenOf(h), 0, Given(line)), input = <<>>), missed)
  IN  /\ \A r \in reads : r.more => Len(Text(r.c)) + LineSz <= MaxLen
      /\ Step(h, [req EXCEPT !.partial = TRUE], IoGetDelim(Start(h), input, "A"))

\* beglen characters are to be written and put of them are.
PutSome(h) == \E beglen \in 0 .. LenOf(h) + 1, put \in 0 .. 2 :
  LET gone == IF put = 0 THEN 0 ELSE IF beglen = LenOf(h) THEN LenOf(h) ELSE put
      bad == beglen > LenOf(h)
  IN  /\ put <= beglen
      /\ bad => put = 0
      /\ \E c \in IoPut(Start(h), beglen, put) :
           Step(h, IF c.ok \/ (put # 0 /\ c.heap[c.s].text # TextOf(h))
                   THEN Bad(Cut(h, 0, gone, Given(<<>>)), bad) ELSE Request(h, "keep"),
                {[c EXCEPT !.ok = ~bad]})

-----------------------------------------------------------------------------
\* The program sets the library's defaults (ustr_cntl_opt), with strings of
\* other configurations about.
CntlOpt ==
  /\ conf' \in Defaults \ {conf}
  /\ call' = None
  /\ UNCHANGED <<heap, var, wild>>

-----------------------------------------------------------------------------
Next ==
  \/ CntlOpt
  \/ \E h \in Handle : \/ DupBuf(h) \/ DupRep(h) \/ DupEmpty(h) \/ UseLiteral(h)
                       \/ InitBuffer(h) \/ Free1(h)
  \/ \E h \in Handle, g \in Handle :
       h # g /\ Held(g) /\ (\/ DupOf(h, g) \/ DupxOf(h, g) \/ DupPart(h, g) \/ JoinOf(h, g)
                            \/ Split(h, g))
  \/ \E h \in Handle : Held(h) /\ (Share(h) \/ FreeShared(h) \/ ClrEnomem(h) \/ Own(h))
  \/ \E h \in Edited : Held(h) /\ (\/ Resize(h) \/ Clear(h) \/ Empty1(h) \/ Delete(h)
                                   \/ DeletePart(h) \/ PutText(h) \/ PutTextAt(h)
                                   \/ ExchangeText(h) \/ ReplaceText(h) \/ Reverse1(h)
                                   \/ ChangeCase(h) \/ TrimChars(h) \/ GetSome(h)
                                   \/ GetAll(h) \/ GetLine(h) \/ PutSome(h))
  \/ \E h \in Edited, g \in Handle : Held(h) /\ g # h /\ DupAway(h, g)
  \/ \E h \in Edited, g \in Handle :
       Held(h) /\ Held(g) /\ (PutString(h, g) \/ PutPart(h, g))
  \/ \E h \in Edited, g1 \in Handle, g2 \in Handle :
       Held(h) /\ Held(g1) /\ Held(g2) /\ ReplaceString(h, g1, g2)

Spec == Init /\ [][Next]_vars

-----------------------------------------------------------------------------
(* Sizes that fit *)

\* A configuration that stores no size may have texts of any length.  One that
\* does gives its blocks fields of two bytes (ustr_init_size), and the theorems
\* ask that the size of a block for the longest text fits them: ustr__rw_mod
\* does not look, and StoredSizeFits shows what becomes of a longer one.
IsConf(k) == k \in [sz : Nat, rb : Widths, exact : BOOLEAN, emem : BOOLEAN]
FitsConf(k) ==
  /\ IsConf(k)
  /\ Sized(k) => /\ k.sz < Values(Radix, 2)
                 /\ Graded(k.exact, HeadAndTail(RefWidth(k), 2, 2) + MaxLen) < Values(Radix, 2)
SizesFit == \A k \in Confs : FitsConf(k)

-----------------------------------------------------------------------------
(* Properties *)

Holders(a) == {h \in Handle : var[h] = a}

\* The count of a block is the number of handles that hold it, a block without
\* a count has one holder, and memory that nobody holds has been given back:
\* nothing leaks and nothing is freed under another holder, whatever the
\* allocator refused and however often a count met its limit.  Only a block
\* that is shared for ever (count 0) may be held by any number, or none.
CountsMatchHolders ==
  \A a \in Addr :
    LET b == heap[a]
        n == Cardinality(Holders(a))
    IN  CASE b.kind = "free"               -> n = 0
          [] b.kind = "alloc" /\ b.rb = 0 -> n = 1
          [] b.kind = "alloc" /\ b.rb > 0 -> b.ref \in {0, n} /\ b.ref <= RefLimit(b)
          [] OTHER -> FALSE

\* No call reads memory that was given back, writes into the read only ""
\* or a literal, writes behind the end of a block, or uses a header that was
\* never written.
NoWildAccess == ~wild

\* Header, text and terminator lie within the block, the numbers of the header
\* say so, and the length fits the bytes it is kept in (the assertions of
\* ustr_assert_valid, which release builds do not make).
RoomForText ==
  \A x \in Addr \cup {Fix} : heap[x].kind \in {"alloc", "fixed"} => RoomFor(heap[x])

\* A stored size is not smaller than what the block holds, and is a number
\* that as many bytes as the length has can hold: what ustr_assert_valid
\* asserts of every string (ustr-main-code.h:88-93).  The length is compared
\* with the width of its field before a block grows, the new size is not.
StoredSizeFits ==
  \A x \in Addr :
    LET b == heap[x]
    IN  Alloc(b) /\ b.sized =>
          /\ Nb(b.sz) <= b.lb
          /\ Overhead(b) + Len(b.text) <= b.sz

\* The library keeps its promise: what a call does to the texts is what was
\* asked for, to that handle only, or nothing.
KeepsPromise == St!Spec

\* A call that failed for want of memory leaves the error flag up on a string
\* that may be written to, so that a caller may look once after many calls.
\* A string that is the source of its own edit is left without the flag, when
\* it is the copy of the part that failed.
FailureFlagged ==
  [][LET r == call'.req
     IN  /\ call' # None /\ ~call'.ok /\ ~r.bad
         /\ r.kind \in {"splice", "replace", "map", "reverse", "trim"}
         /\ "src" \in DOMAIN r => r.src.h # r.h
         /\ "old" \in DOMAIN r => r.old.h # r.h
         /\ var'[r.h] # Null
         /\ Owner(heap'[var'[r.h]])
         => heap'[var'[r.h]].emem]_vars
=============================================================================
