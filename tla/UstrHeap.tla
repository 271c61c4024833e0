----------------------------- MODULE UstrHeap -----------------------------
(***************************************************************************)
(* The core of the string library (ustr-main-code.h): what its functions   *)
(* do to the memory they are handed.                                       *)
(*                                                                         *)
(* A function is an operator from the state c of a call to the set of the  *)
(* states it may end in: the allocator may refuse any request, and realloc *)
(* may or may not move the block.  The state of a call is                  *)
(*   heap   the blocks, by address                                         *)
(*   s, n   the caller's string (the code's *ps1), the newest pointer      *)
(*   ok     what the last function returned                                *)
(*   wild   some access went outside of a live block, or a header that was *)
(*          never written was used: what happens next is not defined       *)
(*   conf   the default configuration (ustr-cntl.h)                        *)
(***************************************************************************)
EXTENDS UstrFormat, SequencesExt

CONSTANTS
  Addr,               \* addresses the allocator gives out
  Empty, Lit, Fix,    \* the library's "", a literal, a buffer of the caller
  Null,
  Junk                \* a character nobody wrote

ASSUME PlacesAssumption ==
  /\ Empty \notin Addr /\ Lit \notin Addr /\ Fix \notin Addr /\ Null \notin Addr
  /\ Empty # Lit /\ Empty # Fix /\ Lit # Fix
  /\ Null \notin {Empty, Lit, Fix}

Done(c) == [c EXCEPT !.ok = TRUE]
Fail(c) == [c EXCEPT !.ok = FALSE]
Str(c) == c.heap[c.s]
Text(c) == Str(c).text
Junks(len) == [i \in 1 .. len |-> Junk]
Slice(text, off, len) == SubSeq(text, off + 1, off + len)

\* The out-of-memory flag (ustr_setf_enomem_err, ustr_setf_enomem_clr): not
\* on a block that others read.
SetEnomem(c, flag) ==
  IF Owner(Str(c)) THEN [c EXCEPT !.heap[c.s].emem = flag] ELSE c
Flagged(c) == Fail(SetEnomem(c, TRUE))

-----------------------------------------------------------------------------
(* The allocator, which is not part of the library *)

\* The address of the next block, if there is one left.
Fresh(c) == LET unused == {a \in Addr : c.heap[a].kind = "free"}
            IN  IF unused = {} THEN {} ELSE {CHOOSE a \in unused : TRUE}

\* realloc of the caller's block: it fails, grows in place or moves.
ReallocBlock(c, nsz) ==
  LET b == [Str(c) EXCEPT !.room = nsz]
  IN  { [Fail(c) EXCEPT !.n = Null],
        [Done(c) EXCEPT !.heap[c.s] = b, !.n = c.s] }
      \cup {[Done(c) EXCEPT !.heap = [@ EXCEPT ![c.s] = FreeBlock, ![a] = b], !.n = a] :
            a \in Fresh(c)}

-----------------------------------------------------------------------------
(* Reference counts *)

\* Another holder for the block (ustr__ref_add): refused for a buffer of the
\* caller, a block without a count and a count at its limit.
RefAdd(c, x) ==
  LET b == c.heap[x]
  IN  IF Ro(b) \/ (Alloc(b) /\ b.rb > 0 /\ b.ref = 0) THEN Done(c)
      ELSE IF Fixed(b) \/ b.rb = 0 \/ b.ref = RefLimit(b) THEN Fail(c)
      ELSE [Done(c) EXCEPT !.heap[x].ref = @ + 1]

\* One holder less, and the last one gives the memory back (ustrp__free with
\* ustr__ref_del).  A count of 0 says shared for ever.
Free(c, x) ==
  LET b == c.heap[x]
  IN  IF x = Null THEN c
      ELSE IF b.kind \in {"free", "raw"} THEN [c EXCEPT !.wild = TRUE]
      ELSE IF ~Alloc(b) \/ (b.rb > 0 /\ b.ref = 0) THEN c
      ELSE IF b.rb = 0 \/ b.ref = 1 THEN [c EXCEPT !.heap[x] = FreeBlock]
      ELSE [c EXCEPT !.heap[x].ref = @ - 1]

ScFree2(c, x) == [Free(c, c.s) EXCEPT !.s = x]

SetfShare(c) == IF Alloc(Str(c)) /\ Str(c).rb = 0 THEN Fail(c)
                ELSE IF Alloc(Str(c)) THEN [Done(c) EXCEPT !.heap[c.s].ref = 0]
                ELSE Done(c)

-----------------------------------------------------------------------------
(* Text *)

\* The length and the terminator are written (ustr__len_set,
\* ustr__terminate): text that comes to light was not written by anyone.
SetLen(c, nlen) ==
  LET b == Str(c)
  IN  [Done(c) EXCEPT
        !.heap[c.s].text = Slice(@, 0, IF nlen < Len(@) THEN nlen ELSE Len(@))
                           \o Junks(nlen - Len(@)),
        !.wild = @ \/ Overhead(b) + nlen > b.room]

\* What memcpy reads: bytes of the caller, or len bytes of the string at an
\* address, as that string is when the bytes are read.
Buf(text) == [at |-> Null, off |-> 0, text |-> text]
Of(x, off) == [at |-> x, off |-> off, text |-> <<>>]
Bytes(c, src, len) ==
  LET text == IF src.at = Null THEN src.text ELSE c.heap[src.at].text
  IN  [i \in 1 .. len |-> IF src.off + i <= Len(text) THEN text[src.off + i]
                          ELSE Junk]
Readable(c, src, len) ==
  len = 0 \/ src.at = Null \/ c.heap[src.at].kind \in {"ro", "fixed", "alloc"}

\* ustr__memcpy: len bytes to offset off of the caller's string.
Memcpy(c, off, src, len) ==
  IF len = 0 THEN c
  ELSE [c EXCEPT
         !.heap[c.s].text = [i \in 1 .. Len(@) |->
            IF i > off /\ i <= off + len THEN Bytes(c, src, len)[i - off] ELSE @[i]],
         !.wild = @ \/ Ro(Str(c)) \/ ~Readable(c, src, len)
                    \/ off + len > Len(Text(c))]

Rep(chr, len) == [i \in 1 .. len |-> chr]

\* Is there a part of len characters at pos (ustrp__assert_valid_subustr)?
ValidSub(text, pos, len) ==
  \/ (pos = 1 \/ len = 0) /\ len = Len(text)
  \/ Len(text) >= pos /\ Len(text) >= len + pos - 1
\* The function answers with the length, which is 0 for the empty string.
GoodSub(text, pos, len) == text # <<>> /\ ValidSub(text, pos, len)

-----------------------------------------------------------------------------
(* New blocks *)

\* malloc of a block that becomes b: it fails or takes a free address.
NewBlock(c, b) ==
  {[Fail(c) EXCEPT !.n = Null]}
  \cup {[Done(c) EXCEPT !.heap[a] = b, !.n = a, !.wild = @ \/ b.kind = "raw"] : a \in Fresh(c)}

\* ustrp__dupx_undef followed by the copy every caller makes: a block of
\* configuration k with this text.  The header may turn out not to fit, and
\* the block is returned as it came.
DupxUndef(c, k, text) ==
  IF text = <<>> /\ CfgEq(k, c.conf) THEN {[Done(c) EXCEPT !.n = Empty]}
  ELSE NewBlock(c, InitAlloc(k, InitSize(k, Len(text)), text))

\* ustrp__dupx_empty: the error flag keeps the library's "" away.
DupxEmpty(c, k) ==
  {IF d.ok /\ Owner(d.heap[d.n]) THEN [d EXCEPT !.heap[d.n].emem = k.emem] ELSE d :
   d \in DupxUndef(c, [k EXCEPT !.emem = TRUE], <<>>)}

DupxBuf(c, k, src, len) ==
  {IF d.ok THEN [d EXCEPT !.wild = @ \/ ~Readable(c, src, len)] ELSE d :
   d \in DupxUndef(c, k, Bytes(c, src, len))}

Dup(c, x) ==
  LET d == RefAdd(c, x)
  IN  IF d.ok THEN {[d EXCEPT !.n = x]}
      ELSE DupxBuf(d, From(c.heap[x], c.conf), Of(x, 0), Len(c.heap[x].text))

Dupx(c, k, x) ==
  IF CfgEq(k, From(c.heap[x], c.conf)) THEN Dup(c, x)
  ELSE DupxBuf(c, k, Of(x, 0), Len(c.heap[x].text))

DupxSubustr(c, k, x, pos, len) ==
  LET text == c.heap[x].text
  IN  IF len = 0 THEN DupxUndef(c, k, <<>>)
      ELSE IF ~GoodSub(text, pos, len) THEN {[Fail(c) EXCEPT !.n = Null]}
      ELSE IF len = Len(text) THEN Dupx(c, k, x)
      ELSE DupxBuf(c, k, Of(x, pos - 1), len)
DupSubustr(c, x, pos, len) == DupxSubustr(c, From(c.heap[x], c.conf), x, pos, len)

DupxRepChr(c, k, chr, len) == DupxUndef(c, k, Rep(chr, len))

\* Mutant: the failure is returned and not remembered.
RebuildSilent(c, text) ==
  {IF d.ok THEN ScFree2(d, d.n) ELSE Fail(d) :
   d \in DupxUndef(c, From(Str(c), c.conf), text)}

\* The way out when a block cannot be written in place: a new block with this
\* text takes its place.
Rebuild(c, text) ==
  {IF d.ok THEN ScFree2(d, d.n) ELSE Flagged(d) :
   d \in DupxUndef(c, From(Str(c), c.conf), text)}

-----------------------------------------------------------------------------
(* Shrinking and growing *)

RwRealloc(c, sized, nsz) ==
  {IF ~d.ok THEN Flagged(d)
   ELSE [d EXCEPT !.s = d.n,
                  !.heap[d.n].sz = IF sized THEN nsz % Values(Radix, Str(c).lb) ELSE @]
   : d \in ReallocBlock(c, nsz)}

\* Fine control of a sized block (ustrp__realloc).
Realloc(c, size) ==
  LET b == Str(c)
      nsz == Overhead(b) + (IF size = 0 THEN Len(b.text) ELSE size)
  IN  IF ~b.sized \/ ~Alloc(b) \/ ~Owner(b) THEN {Fail(c)}
      ELSE IF nsz = b.sz THEN {Done(c)}
      ELSE IF nsz < Overhead(b) + Len(b.text) \/ Nb(nsz) > b.lb THEN {Fail(c)}
      ELSE RwRealloc(c, TRUE, nsz)

Shrink(c, m, nlen) ==
  IF ~m.can THEN Rebuild(c, Slice(Text(c), 0, nlen))
  ELSE IF ~m.alloc THEN {SetLen(c, nlen)}
  ELSE \* a block that could not shrink is as good: the flag stays as it was
       {SetLen(IF d.ok \/ Str(c).emem THEN d ELSE SetEnomem(d, FALSE), nlen) :
        d \in RwRealloc(c, FALSE, m.nsz)}

Del(c, len) ==
  LET b == Str(c)
      nlen == Len(b.text) - len
  IN  IF len = 0 THEN {Done(c)}
      ELSE IF nlen = 0 /\ ~Fixed(b) /\ ~(b.sized /\ Owner(b))
              /\ CfgEq(c.conf, From(b, c.conf)) THEN {ScFree2(Done(c), Empty)}
      ELSE IF nlen < 0 THEN {Fail(c)}
      ELSE Shrink(c, RwMod(b, nlen), nlen)

DelSubustr(c, pos, len) ==
  LET text == Text(c)
      rest == Slice(text, 0, pos - 1) \o Slice(text, pos - 1 + len,
                                               Len(text) - len - pos + 1)
  IN  IF len = 0 THEN {Done(c)}
      ELSE IF ~GoodSub(text, pos, len) THEN {Fail(c)}
      ELSE IF pos - 1 = Len(text) - len THEN Del(c, len)
      ELSE IF RwMod(Str(c), Len(rest)).can
           THEN Del([c EXCEPT !.heap[c.s].text = rest \o Junks(len)], len)
      ELSE Rebuild(c, rest)

Grow(c, m, len) ==
  IF m.can
  THEN {IF d.ok THEN SetLen(d, Len(Text(c)) + len) ELSE d :
        d \in IF m.alloc THEN RwRealloc(c, m.sized, m.nsz) ELSE {Done(c)}}
  ELSE IF Limited(Str(c)) THEN {Flagged(c)}
  ELSE Rebuild(c, Text(c) \o Junks(len))

AddUndef(c, len) ==
  IF len = 0 THEN {Done(c)}
  ELSE Grow(c, RwMod(Str(c), Len(Text(c)) + len), len)

AddBuf(c, src, len) ==
  {IF d.ok THEN Memcpy(d, Len(Text(d)) - len, src, len) ELSE d : d \in AddUndef(c, len)}
AddRepChr(c, chr, len) == AddBuf(c, Buf(Rep(chr, len)), len)

\* A copy of another string takes the place of this one (the end of
\* ustrp__add and ustrp__set).
BecomeCopy(c, x) ==
  {IF d.ok THEN ScFree2(d, d.n) ELSE Flagged(d) : d \in Dupx(c, From(Str(c), c.conf), x)}

TreatAsBuf(b, len1, len2) == len1 # 0 \/ Limited(b) \/ (Owner(b) /\ Size(b) >= len2)

Add(c, x) ==
  LET len1 == Len(Text(c))
      len2 == Len(c.heap[x].text)
  IN  IF len2 = 0 THEN {Done(c)}
      ELSE IF c.s = x /\ Owner(Str(c)) /\ Alloc(Str(c))
           THEN {IF d.ok THEN Memcpy(d, len1, Of(d.s, 0), len1) ELSE d :
                 d \in AddUndef(c, len1)}
      ELSE IF TreatAsBuf(Str(c), len1, len2) THEN AddBuf(c, Of(x, 0), len2)
      ELSE BecomeCopy(c, x)

\* Mutant: the pointer to the text is taken before the text may move.
AddSubustrStale(c, x, pos, len) ==
  IF len = 0 THEN {Done(c)}
  ELSE IF ~GoodSub(c.heap[x].text, pos, len) THEN {Fail(c)}
  ELSE IF len = Len(c.heap[x].text) THEN Add(c, x)
  ELSE AddBuf(c, Of(x, pos - 1), len)

AddSubustr(c, x, pos, len) ==
  LET text == c.heap[x].text
  IN  IF len = 0 THEN {Done(c)}
      ELSE IF ~GoodSub(text, pos, len) THEN {Fail(c)}
      ELSE IF len = Len(text) THEN Add(c, x)
      ELSE IF c.s # x THEN AddBuf(c, Of(x, pos - 1), len)
      ELSE {IF d.ok THEN Memcpy(d, Len(text), Of(d.s, pos - 1), len) ELSE d :
            d \in AddUndef(c, len)}

\* Empty a string whatever happens (ustrp__sc_del).
ScDel(c) == {IF d.ok THEN d ELSE ScFree2(Done(d), Empty) : d \in Del(c, Len(Text(c)))}

\* A block of one's own, before the text is written to (ustrp__sc_ensure_owner).
\* A failure leaves no flag: the block is not this string's to mark.
EnsureOwner(c) ==
  LET k == From(Str(c), c.conf)
  IN  IF Owner(Str(c)) THEN {Done(c)}
      ELSE {IF d.ok THEN ScFree2(d, d.n) ELSE d :
            d \in IF Text(c) = <<>> THEN DupxEmpty(c, k)
                  ELSE DupxBuf(c, k, Of(c.s, 0), Len(Text(c)))}
=============================================================================
