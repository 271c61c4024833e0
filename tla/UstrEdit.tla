----------------------------- MODULE UstrEdit -----------------------------
(***************************************************************************)
(* The editing functions of the string library, on top of its core: set,   *)
(* insert, substitute, replace, the shortcuts, formatted and file input    *)
(* and output.  Every operator stands for the internal function and for    *)
(* the two wrappers that call it, with and without a pool.                 *)
(***************************************************************************)
EXTENDS UstrHeap

CONSTANTS
  FmtLocal,   \* formatted text shorter than this goes through a local buffer
  LineSz,     \* characters ustr_io_getdelim makes room for at a time
  BlkSz       \* characters ustr_io_getfile reads at a time

ASSUME EditAssumption == FmtLocal \in Nat /\ LineSz \in Nat \ {0} /\ BlkSz \in Nat \ {0}

-----------------------------------------------------------------------------
(* ustr-set-code.h *)

SetUndef(c, nlen) ==
  LET b == Str(c)
      clen == Len(b.text)
  IN  IF nlen = clen /\ Owner(b) THEN {Done(c)}
      ELSE IF nlen # clen /\ RwMod(b, nlen).can
           THEN IF nlen > clen THEN AddUndef(c, nlen - clen) ELSE Del(c, clen - nlen)
      ELSE IF nlen # clen /\ Limited(b) THEN {Flagged(c)}
      ELSE Rebuild(c, Junks(nlen))

SetEmpty(c) ==
  IF Str(c).sized /\ Owner(Str(c)) THEN Del(c, Len(Text(c)))
  ELSE {IF d.ok THEN ScFree2(d, d.n) ELSE Flagged(d) :
        d \in DupxEmpty(c, From(Str(c), c.conf))}

SetBuf(c, src, len) == {IF d.ok THEN Memcpy(d, 0, src, len) ELSE d : d \in SetUndef(c, len)}
SetRepChr(c, chr, len) == SetBuf(c, Buf(Rep(chr, len)), len)

Set(c, x) ==
  LET len == Len(c.heap[x].text)
  IN  IF c.s = x THEN {Done(c)}
      ELSE IF TreatAsBuf(Str(c), 0, len) THEN SetBuf(c, Of(x, 0), len)
      ELSE BecomeCopy(c, x)

SetSubustr(c, x, pos, len) ==
  LET text == c.heap[x].text
  IN  IF len = 0 THEN Del(c, Len(Text(c)))
      ELSE IF ~GoodSub(text, pos, len) THEN {Fail(c)}
      ELSE IF len = Len(text) THEN Set(c, x)
      ELSE IF c.s = x /\ Owner(Str(c)) /\ Alloc(Str(c))
           THEN UNION {{Done(e) : e \in DelSubustr(d, 1, pos - 1)} :
                       d \in Del(c, Len(text) - (pos - 1 + len))}
      ELSE SetBuf(c, Of(x, pos - 1), len)

-----------------------------------------------------------------------------
(* ustr-ins-code.h: pos is the number of characters before the gap *)

InsUndef(c, pos, len) ==
  LET b == Str(c)
      clen == Len(b.text)
      Gap(text) == Slice(text, 0, pos) \o Junks(len) \o Slice(text, pos, clen - pos)
  IN  IF len = 0 THEN {Done(c)}
      ELSE IF pos > clen THEN {Fail(c)}
      ELSE IF pos = clen \/ RwMod(b, clen + len).can
           THEN {IF d.ok THEN [d EXCEPT !.heap[d.s].text = Gap(@)] ELSE d :
                 d \in AddUndef(c, len)}
      ELSE Rebuild(c, Gap(b.text))

InsBuf(c, pos, src, len) ==
  {IF d.ok THEN Memcpy(d, pos, src, len) ELSE d : d \in InsUndef(c, pos, len)}
InsRepChr(c, pos, chr, len) == InsBuf(c, pos, Buf(Rep(chr, len)), len)

\* A string put into itself lies on both sides of the gap.
Ins(c, pos, x) ==
  LET len == Len(Text(c))
  IN  IF pos = len THEN Add(c, x)
      ELSE IF c.s = x /\ Owner(Str(c))
           THEN {IF d.ok
                 THEN Memcpy(Memcpy(d, pos, Of(d.s, 0), pos), 2 * pos,
                             Of(d.s, len + pos), len - pos)
                 ELSE d : d \in InsUndef(c, pos, len)}
      ELSE InsBuf(c, pos, Of(x, 0), Len(c.heap[x].text))

\* The end of the string is recognised by the length of the other one.
InsSubustr(c, pos1, x, pos2, len2) ==
  LET text == c.heap[x].text
      before == pos1 - pos2 + 1     \* characters of the part before the gap
  IN  IF len2 = 0 THEN {Done(c)}
      ELSE IF ~GoodSub(text, pos2, len2) THEN {Fail(c)}
      ELSE IF len2 = Len(text) THEN Ins(c, pos1, x)
      ELSE IF pos1 = Len(text) THEN AddSubustr(c, x, pos2, len2)
      ELSE IF c.s = x /\ Owner(Str(c))
           THEN {IF ~d.ok THEN d
                 ELSE IF pos2 > pos1 THEN Memcpy(d, pos1, Of(d.s, pos2 + len2 - 1), len2)
                 ELSE IF pos2 + len2 - 1 > pos1
                 THEN Memcpy(Memcpy(d, pos1, Of(d.s, pos2 - 1), before), pos1 + before,
                             Of(d.s, pos2 + len2 + before - 1), len2 - before)
                 ELSE Memcpy(d, pos1, Of(d.s, pos2 - 1), len2) :
                 d \in InsUndef(c, pos1, len2)}
      ELSE InsBuf(c, pos1, Of(x, pos2 - 1), len2)

-----------------------------------------------------------------------------
(* ustr-sub-code.h: the characters at pos are overwritten *)

\* Mutant: text is written over in place whoever else holds it.
SubUndefShared(c, pos, len) ==
  LET left == Len(Text(c)) - (pos - 1)
  IN  IF len = 0 THEN {Done(c)}
      ELSE IF ~GoodSub(Text(c), pos, 1) THEN {Fail(c)}
      ELSE IF left < len THEN AddUndef(c, len - left)
      ELSE IF Alloc(Str(c)) THEN {Done(c)} ELSE EnsureOwner(c)

SubUndef(c, pos, len) ==
  LET left == Len(Text(c)) - (pos - 1)
  IN  IF len = 0 THEN {Done(c)}
      ELSE IF ~GoodSub(Text(c), pos, 1) THEN {Fail(c)}
      ELSE IF left < len THEN AddUndef(c, len - left)
      ELSE EnsureOwner(c)

SubBuf(c, pos, src, len) ==
  {IF d.ok THEN Memcpy(d, pos - 1, src, len) ELSE d : d \in SubUndef(c, pos, len)}
SubRepChr(c, pos, chr, len) == SubBuf(c, pos, Buf(Rep(chr, len)), len)

Sub(c, pos, x) ==
  IF c.s = x THEN InsSubustr(c, pos - 1, x, 1, pos - 1)
  ELSE SubBuf(c, pos, Of(x, 0), Len(c.heap[x].text))

\* Mutant: the copy is kept when the edit fails.
ViaCopyKept(edited, copy) == {IF c.ok THEN Free(c, copy) ELSE c : c \in edited}

\* A part of a string over another part of it goes through a copy, which is
\* given back however the edit ended.
ViaCopy(edited, copy) == {Free(c, copy) : c \in edited}

SubSubustr(c, pos1, x, pos2, len2) ==
  LET text == c.heap[x].text
  IN  IF len2 = 0 THEN {Done(c)}
      ELSE IF ~GoodSub(text, pos2, len2) THEN {Fail(c)}
      ELSE IF len2 = Len(text) THEN Sub(c, pos1, x)
      ELSE IF c.s = x /\ Owner(Str(c))
           THEN IF pos1 = pos2 THEN Del(c, Len(text) - pos1 + 1 - len2)
                ELSE UNION {IF d.ok THEN ViaCopy(Sub(d, pos1, d.n), d.n) ELSE {d} :
                            d \in DupSubustr(c, x, pos2, len2)}
      ELSE SubBuf(c, pos1, Of(x, pos2 - 1), len2)

\* olen characters make way for len.
ScSubUndef(c, pos, olen, len) ==
  IF olen = 0 THEN InsUndef(c, pos - 1, len)
  ELSE IF ~GoodSub(Text(c), pos, olen) THEN {Fail(c)}
  ELSE IF len = olen THEN EnsureOwner(c)
  ELSE IF len < olen THEN DelSubustr(c, pos + len, olen - len)
  ELSE InsUndef(c, pos + olen - 1, len - olen)

ScSubBuf(c, pos, olen, src, len) ==
  UNION {IF d.ok THEN SubBuf(d, pos, src, len) ELSE {d} :
         d \in ScSubUndef(c, pos, olen, len)}
ScSubRepChr(c, pos, olen, chr, len) == ScSubBuf(c, pos, olen, Buf(Rep(chr, len)), len)

\* The whole string for a part of it: the text moves up to make room and its
\* beginning and its end are copied from where they are then.
ScSub(c, pos, olen, x) ==
  LET text == Text(c)
      clen == Len(text)
      before == pos - 1
      after == clen - (pos + olen) + 1
  IN  IF olen = 0 THEN Ins(c, pos - 1, x)
      ELSE IF c.s = x /\ Owner(Str(c))
           THEN IF ~GoodSub(text, pos, olen) THEN {Fail(c)}
                ELSE {IF d.ok
                      THEN Memcpy(Memcpy(Memcpy(d, before, Buf(text), clen),
                                         0, Of(d.s, before), before),
                                  clen + before, Of(d.s, pos + olen - 1 + before), after)
                      ELSE d : d \in AddUndef(c, clen - olen)}
      ELSE ScSubBuf(c, pos, olen, Of(x, 0), Len(c.heap[x].text))

ScSubSubustr(c, pos1, len1, x, pos2, len2) ==
  LET text == c.heap[x].text
  IN  IF len2 = 0 THEN DelSubustr(c, pos1, len1)
      ELSE IF ~GoodSub(text, pos2, len2) THEN {Fail(c)}
      ELSE IF len2 = Len(text) THEN ScSub(c, pos1, len1, x)
      ELSE IF c.s = x /\ Owner(Str(c))
           THEN UNION {IF d.ok THEN ViaCopy(ScSub(d, pos1, len1, d.n), d.n) ELSE {d} :
                       d \in DupSubustr(c, x, pos2, len2)}
      ELSE ScSubBuf(c, pos1, len1, Of(x, pos2 - 1), len2)

-----------------------------------------------------------------------------
(* ustr-replace-code.h *)

\* Where the text old is found from offset off on, 0 if nowhere
\* (ustr_srch_buf_fwd).
Find(text, off, old) ==
  LET at == {p \in off + 1 .. Len(text) - Len(old) + 1 : Slice(text, p - 1, Len(old)) = old}
  IN  IF at = {} THEN 0 ELSE Min(at)

\* A scan from left to right that replaces at most lim parts (0: all): how far
\* it is, how many it met, and the text so far, as the copying loop puts it
\* together.  A round of it is one search.
Limit(text, lim) == IF lim = 0 \/ lim > Len(text) THEN Len(text) ELSE lim
ScanRound(r, text, old, new) ==
  LET p == Find(text, r.off, old)
  IN  IF p = 0 THEN r
      ELSE [off |-> p - 1 + Len(old), num |-> r.num + 1,
            out |-> r.out \o Slice(text, r.off, p - 1 - r.off) \o new]
ScanRounds(text, old, new, lim) ==
  LET round[i \in 0 .. Limit(text, lim)] ==
        IF i = 0 THEN [off |-> 0, num |-> 0, out |-> <<>>]
        ELSE ScanRound(round[i - 1], text, old, new)
  IN  round
Scan(text, old, new, lim) == ScanRounds(text, old, new, lim)[Limit(text, lim)]
Hits(text, old, lim) == Scan(text, old, <<>>, lim).num
Spliced(text, old, new, lim) ==
  LET end == Scan(text, old, new, lim)
  IN  end.out \o Slice(text, end.off, Len(text) - end.off)

\* ustrp__replace_inline_buf: each one in its place, and the search goes on in
\* the text as it is then.
InlineRound(r, old, new) ==
  LET p == Find(Text(r.c), r.off, old)
  IN  IF p = 0 THEN {r}
      ELSE {[c |-> d, off |-> p - 1 + Len(new)] :
            d \in ScSubBuf(r.c, p, Len(old), Buf(new), Len(new))}
InlineRounds(c, old, new, lim) ==
  LET round[i \in 0 .. Limit(Text(c), lim)] ==
        IF i = 0 THEN {[c |-> c, off |-> 0]}
        ELSE UNION {InlineRound(r, old, new) : r \in round[i - 1]}
  IN  round
ReplaceInline(c, old, new, lim) ==
  {Done(r.c) : r \in InlineRounds(c, old, new, lim)[Limit(Text(c), lim)]}

\* ok stands for the number of replacements, which is not 0 then.  A string
\* that has nothing to replace is not a failure but cannot be told from one.
ReplaceBuf(c, old, new, lim) ==
  LET b == Str(c)
      hits == Hits(b.text, old, lim)
      total == Spliced(b.text, old, new, lim)
      few == Fixed(b) /\ (hits <= 2 \/ Limited(b))
      inline == \/ Len(old) = Len(new) /\ Owner(b)
                \/ total # <<>> /\ few /\ Len(total) <= Size(b)
  IN  IF hits = 0 THEN {Fail(c)}
      ELSE IF inline THEN ReplaceInline(c, old, new, lim)
      ELSE IF total = <<>> THEN Del(c, Len(b.text))
      ELSE IF few /\ Limited(b) THEN {Flagged(c)}
      ELSE UNION {IF ~d.ok THEN {Flagged(d)}
                  ELSE IF ~Fixed(b) \/ Len(total) > Size(b) THEN {ScFree2(d, d.n)}
                  ELSE {Free(Done(e), d.n) : e \in Set(d, d.n)} :
                  d \in DupxUndef(c, From(b, c.conf), total)}

ReplaceRepChr(c, ochr, olen, nchr, nlen, lim) ==
  ReplaceBuf(c, Rep(ochr, olen), Rep(nchr, nlen), lim)

\* The string itself as the search text or the replacement is held once more
\* while the work goes on; when that fails nothing is flagged.
Replace(c, old, new, lim) ==
  LET Hold(d, x) == IF x = c.s THEN Dup(d, x) ELSE {[Done(d) EXCEPT !.n = x]}
      LetGo(e, x, held) == IF x = c.s THEN Free(e, held) ELSE e
      Work(d1, d2) ==
        IF ~d2.ok THEN {LetGo(d2, old, d1.n)}
        ELSE {LetGo(LetGo(e, old, d1.n), new, d2.n) :
              e \in ReplaceBuf(d2, d2.heap[d1.n].text, d2.heap[d2.n].text, lim)}
  IN  UNION {IF d1.ok THEN UNION {Work(d1, d2) : d2 \in Hold(d1, new)} ELSE {d1} :
             d1 \in Hold(c, old)}

-----------------------------------------------------------------------------
(* ustr-sc-code.h *)

\* Give back a block that was shared for ever: the caller knows that nobody
\* else holds it.
ScFreeShared(c) ==
  LET d == IF Alloc(Str(c)) THEN [c EXCEPT !.heap[c.s].ref = 1] ELSE c
  IN  {ScFree2(Done(d), Null)}

\* A copy for somebody else, of which the caller keeps the new block.
ScDup(c) == {IF d.ok THEN [d EXCEPT !.s = d.n, !.n = c.s] ELSE d : d \in Dup(c, c.s)}

\* The halves of the text change places one pair at a time (ustr__reverse).
SwapPair(text, i) ==
  LET j == Len(text) + 1 - i IN [text EXCEPT ![i] = text[j], ![j] = text[i]]
Swaps(text) ==
  LET swapped[i \in 0 .. Len(text) \div 2] ==
        IF i = 0 THEN text ELSE SwapPair(swapped[i - 1], i)
  IN  swapped
SwapEnds(text) == Swaps(text)[Len(text) \div 2]

ScReverse(c) ==
  {IF d.ok THEN [d EXCEPT !.heap[d.s].text = SwapEnds(@)] ELSE d : d \in EnsureOwner(c)}

\* ustrp__sc_toupper and ustrp__sc_tolower: one pass over the characters.
ScMap(c, to) ==
  {IF d.ok THEN [d EXCEPT !.heap[d.s].text = [i \in 1 .. Len(@) |-> to[@[i]]]] ELSE d :
   d \in EnsureOwner(c)}

SpanFwd(text, chrs) ==
  Cardinality({i \in 1 .. Len(text) : \A j \in 1 .. i : text[j] \in chrs})
SpanRev(text, chrs) ==
  Cardinality({i \in 1 .. Len(text) : \A j \in i .. Len(text) : text[j] \in chrs})

LTrim(c, chrs) == DelSubustr(c, 1, SpanFwd(Text(c), chrs))
RTrim(c, chrs) == Del(c, SpanRev(Text(c), chrs))
Trim(c, chrs) ==
  LET text == Text(c)
      l == SpanFwd(text, chrs)
      r == SpanRev(text, chrs)
      nlen == Len(text) - l - r
  IN  IF l = Len(text) THEN Del(c, l)
      ELSE IF l = 0 /\ r = 0 THEN {Done(c)}
      ELSE IF Owner(Str(c))
           THEN Del([c EXCEPT !.heap[c.s].text = Slice(text, l, nlen) \o Junks(l + r)], l + r)
      ELSE {IF d.ok THEN ScFree2(d, d.n) ELSE d : d \in DupSubustr(c, c.s, 1 + l, nlen)}

\* The strings at xs with sep between them, in one block (ustrp__sc_vjoinx).
Joins(c, sep, xs) ==
  LET joined[i \in 1 .. Len(xs)] ==
        IF i = 1 THEN c.heap[xs[1]].text
        ELSE joined[i - 1] \o c.heap[sep].text \o c.heap[xs[i]].text
  IN  joined
Joined(c, sep, xs) == Joins(c, sep, xs)[Len(xs)]
ScJoin(c, k, sep, xs) == DupxUndef(c, k, Joined(c, sep, xs))
ScConcat(c, k, xs) == ScJoin(c, k, Empty, <<Empty>> \o xs)

-----------------------------------------------------------------------------
(* ustr-fmt-code.h and the vfmt functions of the others: short text goes   *)
(* through a buffer on the stack, long text is printed where it belongs,   *)
(* and the character the terminator falls on is put back.                  *)

Printf(text, viaBuf, room, pos) ==
  IF Len(text) < FmtLocal THEN viaBuf
  ELSE {IF d.ok THEN Memcpy(d, pos, Buf(text), Len(text)) ELSE d : d \in room}

AddFmt(c, text) == Printf(text, AddBuf(c, Buf(text), Len(text)),
                          AddUndef(c, Len(text)), Len(Text(c)))
SetFmt(c, text) == Printf(text, SetBuf(c, Buf(text), Len(text)), SetUndef(c, Len(text)), 0)
InsFmt(c, pos, text) == Printf(text, InsBuf(c, pos, Buf(text), Len(text)),
                               InsUndef(c, pos, Len(text)), pos)
SubFmt(c, pos, text) == Printf(text, SubBuf(c, pos, Buf(text), Len(text)),
                               SubUndef(c, pos, Len(text)), pos - 1)
ScSubFmt(c, pos, olen, text) == Printf(text, ScSubBuf(c, pos, olen, Buf(text), Len(text)),
                                       ScSubUndef(c, pos, olen, Len(text)), pos - 1)

-----------------------------------------------------------------------------
(* ustr-io-code.h.  A stream is the characters that are left of it. *)

\* got of the num characters asked for arrive, the rest of the room is given up.
Read(c, num, got) ==
  UNION {IF d.ok
         THEN {Done(e) : e \in Del(Memcpy(d, Len(Text(c)), Buf(got), Len(got)), num - Len(got))}
         ELSE {d} : d \in AddUndef(c, num)}
IoGet(c, minlen, got) ==
  IF minlen = 0 THEN {Done(c)}
  ELSE {[d EXCEPT !.ok = @ /\ got # <<>>] : d \in Read(c, minlen, got)}

\* Reads until less arrives than was asked for: that was the end of the file.
\* A round is one read, rest what the stream has left, and more says whether
\* there is another.
Asked(c) == Larger(BlkSz, Size(Str(c)) - Len(Text(c)))
FileRound(r) ==
  LET num == Asked(r.c)
      got == IF Len(r.rest) < num THEN r.rest ELSE Slice(r.rest, 0, num)
  IN  {[c |-> d, rest |-> Slice(r.rest, Len(got), Len(r.rest) - Len(got)),
        more |-> d.ok /\ Len(got) = num] : d \in Read(r.c, num, got)}
FileRounds(c, input) ==
  LET round[i \in 0 .. Len(input) + 1] ==
        IF i = 0 THEN {[c |-> c, rest |-> input, more |-> TRUE]}
        ELSE UNION {IF r.more THEN FileRound(r) ELSE {r} : r \in round[i - 1]}
  IN  round
IoGetFile(c, input) == {r.c : r \in FileRounds(c, input)[Len(input) + 1]}

\* Reads up to the delimiter.  A round makes room for LineSz characters, and a
\* delimiter that is the last of them (hit) is not seen as the end.
LineRound(r, olen, delim) ==
  LET window == IF Len(r.rest) < LineSz THEN r.rest ELSE Slice(r.rest, 0, LineSz)
      end == Find(window, 0, <<delim>>)
      got == IF end # 0 THEN Slice(window, 0, end) ELSE window
      rest == Slice(r.rest, Len(got), Len(r.rest) - Len(got))
      Ended(d, ok) == [c |-> [d EXCEPT !.ok = ok], rest |-> rest, more |-> FALSE, hit |-> FALSE]
      Filled(d) == Memcpy(d, Len(Text(r.c)), Buf(got), Len(got))
  IN  UNION {IF ~d.ok THEN {Ended(d, r.hit)}
             ELSE IF Len(got) = LineSz
             THEN {[c |-> Filled(d), rest |-> rest, more |-> TRUE, hit |-> end # 0]}
             ELSE {Ended(e, end # 0 \/ Len(Text(e)) # olen) :
                   e \in Del(Filled(d), LineSz - Len(got))} :
             d \in AddUndef(r.c, LineSz)}
LineRounds(c, input, delim) ==
  LET round[i \in 0 .. Len(input) + 1] ==
        IF i = 0 THEN {[c |-> c, rest |-> input, more |-> TRUE, hit |-> FALSE]}
        ELSE UNION {IF r.more THEN LineRound(r, Len(Text(c)), delim) ELSE {r} :
                    r \in round[i - 1]}
  IN  round
IoGetDelim(c, input, delim) == {r.c : r \in LineRounds(c, input, delim)[Len(input) + 1]}

\* The first beglen characters are written, put of them arrive.  A string
\* that is written in full is dropped in full, whatever arrived.
IoPut(c, beglen, put) ==
  LET whole == beglen = Len(Text(c))
      Rest(d) == IF put = 0 THEN {d} ELSE IF whole THEN ScDel(d) ELSE DelSubustr(d, 1, put)
  IN  IF beglen > Len(Text(c)) THEN {Fail(c)}
      ELSE IF beglen = 0 THEN {Done(c)}
      ELSE UNION {IF d.ok THEN {[e EXCEPT !.ok = put = beglen] : e \in Rest(d)} ELSE {d} :
                  d \in IF whole THEN {Done(c)} ELSE EnsureOwner(c)}

-----------------------------------------------------------------------------
(* ustr-split-code.h: the part of the string at x from off to the next     *)
(* separator, as a new string or in the caller's (c.s, Null when there is  *)
(* none yet).                                                              *)

\* Where the part starts, how long it is, where the next call goes on.
IsSep(text, o, sep) == Len(text) - o >= Len(sep) /\ Slice(text, o, Len(sep)) = sep
\* The first place from o on where no separator starts.
PastSeps(text, o, sep) ==
  o + Len(sep) * Max({m \in 0 .. Len(text) : \A j \in 0 .. m - 1 : IsSep(text, o + j * Len(sep), sep)})
SplitStep(text, off, sep, flags) ==
  LET skip == {"sep", "non"} \cap flags = {}
      start == IF skip THEN PastSeps(text, off, sep) ELSE off
      found == Find(text, start, sep)
      next == found - 1 + Len(sep)
  IN  IF sep = <<>> \/ start = Len(text) THEN [off |-> start, len |-> -1, next |-> start]
      ELSE IF found = 0 THEN [off |-> start, len |-> Len(text) - start, next |-> Len(text)]
      ELSE [off |-> start, next |-> IF skip THEN PastSeps(text, next, sep) ELSE next,
            len |-> found - 1 - start + (IF "sep" \in flags THEN Len(sep) ELSE 0)]

SplitBuf(c, x, off, sep, flags) ==
  LET st == SplitStep(c.heap[x].text, off, sep, flags)
  IN  IF st.len = -1 THEN {[Free(Fail(c), c.s) EXCEPT !.s = Null]}
      ELSE IF c.s # Null
           THEN {IF d.ok THEN d ELSE [Free(d, d.s) EXCEPT !.s = Null] :
                 d \in SetSubustr(c, x, st.off + 1, st.len)}
      ELSE {[d EXCEPT !.s = IF d.ok THEN d.n ELSE Null] : d \in
              IF "conf" \in flags THEN DupSubustr(c, x, st.off + 1, st.len)
              ELSE DupxBuf(c, c.conf, Of(x, st.off), st.len)}
=============================================================================
