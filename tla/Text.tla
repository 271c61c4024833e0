-------------------------------- MODULE Text --------------------------------
(***************************************************************************)
(* What the functions that only read a string must answer, whatever the    *)
(* string: Search, Numbers and Utf8 against definitions that do not follow *)
(* their loops.  A behaviour is a caller that thinks of ever longer texts, *)
(* of larger numbers and of other things to look for.                      *)
(***************************************************************************)
EXTENDS Search, Numbers, Utf8

CONSTANTS
  Kinds,       \* of texts: "words", "numbers", "bytes", "codes"
  Alphabet,    \* the characters of a text, by kind
  Longest,     \* the length of the longest text, by kind
  LongestPart, \* the length of the longest text that is looked for, by kind
  Largest,     \* the largest number that is spelled
  Radixes      \* that numbers are spelled in

VARIABLES kind, text, part, number
textVars == <<kind, text, part, number>>

TextInit == kind \in Kinds /\ text = <<>> /\ part = <<>> /\ number = 0

\* The text has one more character.
Extend ==
  /\ kind # "numbers" /\ Len(text) < Longest[kind]
  /\ \E c \in Alphabet[kind] : text' = Append(text, c)
  /\ UNCHANGED <<kind, part, number>>

\* One more character is looked for.
LookFor ==
  /\ kind \in {"words", "codes"} /\ Len(part) < LongestPart[kind]
  /\ \E c \in Alphabet[kind] : part' = Append(part, c)
  /\ UNCHANGED <<kind, text, number>>

\* The next number is spelled.
Count ==
  /\ kind = "numbers" /\ number < Largest
  /\ number' = number + 1
  /\ UNCHANGED <<kind, text, part>>

TextNext == Extend \/ LookFor \/ Count
TextSpec == TextInit /\ [][TextNext]_textVars

-----------------------------------------------------------------------------
(* Words *)

\* Where nd is in t, from the place from to the place to.
Occurs(t, nd, from, to) == {i \in from .. to - Len(nd) + 1 : SubSeq(t, i, i + Len(nd) - 1) = nd}
Times(n, c) == [i \in 1 .. n |-> c]
SameFwd(found, t, off, nd) == found = FirstOf(Occurs(t, nd, off + 1, Len(t)))
SameRev(found, t, off, nd) == found = LastOf(Occurs(t, nd, 1, Len(t) - off))

(* A forward search finds the first place at or after off, a reverse one   *)
(* the last that ends before the last off characters; a run of characters  *)
(* is found where a text of so many would be, also when a run of others    *)
(* broke off before it; without regard to case they find what is the same  *)
(* in capitals.                                                            *)
SearchesAgree ==
  \A off \in 0 .. Len(text) :
    /\ part # <<>> =>
         /\ SameFwd(BufFwd(text, off, part), text, off, part)
         /\ SameRev(BufRev(text, off, part), text, off, part)
         /\ SameFwd(CaseBufFwd(text, off, part), Folded(text), off, Folded(part))
         /\ SameRev(CaseBufRev(text, off, part), Folded(text), off, Folded(part))
    /\ \A c \in Alphabet[kind], n \in 1 .. LongestPart[kind] :
         /\ SameFwd(RepChrFwd(text, off, c, n), text, off, Times(n, c))
         /\ SameRev(RepChrRev(text, off, c, n), text, off, Times(n, c))
         /\ SameFwd(CaseRepChrFwd(text, off, c, n), Folded(text), off, Folded(Times(n, c)))
         /\ SameRev(CaseRepChrRev(text, off, c, n), Folded(text), off, Folded(Times(n, c)))

\* A part of the other text is a prefix where a search finds it first, a
\* suffix where a reverse search finds it last; an impossible part is empty.
PartsAgree ==
  \A pos \in 1 .. Len(part) + 1, len \in 0 .. Len(part) :
    LET nd == Part(part, pos, len)
        end == Len(text) - Len(nd) + 1
        Empty(fwd, rev) == nd = <<>> => fwd = Min({1, Len(text)}) /\ rev = Len(text)
        Prefix(eq, found) == eq <=> (nd = <<>> \/ found = 1)
        Suffix(eq, found) == eq <=> (nd = <<>> \/ (found # 0 /\ found = end))
    IN  /\ Empty(SubustrFwd(text, 0, part, pos, len), SubustrRev(text, 0, part, pos, len))
        /\ Prefix(CmpPrefixSubustrEq(text, part, pos, len), SubustrFwd(text, 0, part, pos, len))
        /\ Suffix(CmpSuffixSubustrEq(text, part, pos, len), SubustrRev(text, 0, part, pos, len))
        /\ Prefix(CmpCasePrefixSubustrEq(text, part, pos, len),
                  CaseSubustrFwd(text, 0, part, pos, len))
        /\ Suffix(CmpCaseSuffixSubustrEq(text, part, pos, len),
                  CaseSubustrRev(text, 0, part, pos, len))
        /\ (CmpSubustr(text, part, pos, len) = 0) <=> (text = nd)
        /\ (CmpFastSubustr(text, part, pos, len) = 0) <=> (text = nd)
        /\ CmpCaseSubustrEq(text, part, pos, len) <=>
             (len = Len(text) /\ Folded(text) = Folded(nd))

\* a comes before b in the dictionary.
Before(a, b) ==
  \E n \in 0 .. Min({Len(a), Len(b)}) :
    /\ Cut(a, n) = Cut(b, n)
    /\ IF n = Len(a) THEN n < Len(b) ELSE n < Len(b) /\ a[n + 1] < b[n + 1]

\* The orders by cmp are those of the dictionary and of length before all.
OrdersAgree ==
  /\ CmpBuf(text, part) = IF Before(text, part) THEN -1 ELSE IF text = part THEN 0 ELSE 1
  /\ (CmpFastBuf(text, part) = 0) <=> (text = part)
  /\ CmpFastBuf(text, part) = - CmpFastBuf(part, text)
  /\ CmpCaseBuf(text, part) = - CmpCaseBuf(part, text)
  /\ CmpCaseEq(text, part) <=> (Folded(text) = Folded(part))

Reversed(t) == [i \in DOMAIN t |-> t[Len(t) + 1 - i]]

(* A span goes on while its characters are the ones asked for and no       *)
(* further, and a reverse span is a forward span of the reversed text.     *)
SpansAgree ==
  \A off \in 0 .. Len(text) :
    LET chrs == ToSet(part)
        spn == SpnChrsFwd(text, off, chrs)
        cspn == CspnChrsFwd(text, off, chrs)
        At(n) == text[off + n]
    IN  /\ \A n \in 1 .. spn : At(n) \in chrs
        /\ off + spn < Len(text) => At(spn + 1) \notin chrs
        /\ \A n \in 1 .. cspn : At(n) \notin chrs
        /\ off + cspn < Len(text) => At(cspn + 1) \in chrs
        /\ SpnChrsRev(text, off, chrs) = SpnChrsFwd(Reversed(text), off, chrs)
        /\ CspnChrsRev(text, off, chrs) = CspnChrsFwd(Reversed(text), off, chrs)

(* The pieces between separators are all there is between them and in      *)
(* order; with the separators they are the text.                           *)
PiecesAgree ==
  LET seps == ToSet(part)
      kept == SelectSeq(text, LAMBDA c: c \notin seps)
      Pieces(flags) == SplitSpn(text, 0, seps, flags)
      begins == {i \in DOMAIN text : text[i] \notin seps /\ (i > 1 => text[i - 1] \in seps)}
  IN  seps # {} =>
        /\ FlattenSeq(Pieces({})) = kept /\ Len(Pieces({})) = Cardinality(begins)
        /\ \A k \in DOMAIN Pieces({}) : Pieces({})[k] # <<>>
        /\ FlattenSeq(Pieces({"non"})) = kept
        /\ FlattenSeq(Pieces({"sep"})) = text
        /\ Len(Pieces({"sep"})) = Len(Pieces({"non"}))

(* Invariant: whatever text is searched, compared, spanned or split        *)
(* (ustr-srch-code.h, ustr-cmp.h, ustr-spn-code.h, ustr-split-code.h) the  *)
(* answers are those of the definitions above.                             *)
QueriesAgree ==
  kind = "words" =>
    SearchesAgree /\ PartsAgree /\ OrdersAgree /\ SpansAgree /\ PiecesAgree

-----------------------------------------------------------------------------
(* Numbers *)

RECURSIVE Spelled(_, _)
Spelled(n, base) ==
  IF n < base THEN <<n>> ELSE Append(Spelled(n \div base, base), n % base)

\* The ways to spell a number, and the flags it takes to read it that way.
Styles == [neg: BOOLEAN, spaces: 0 .. 1, mark: BOOLEAN, zeros: 0 .. 1, seps: BOOLEAN, tail: BOOLEAN]
Mark(base) == CASE base = 2 -> <<0, LetterB>> [] base = 8 -> <<0, LetterO>> [] base = 16 -> <<0, LetterX>>
Apart(digits) == FlattenSeq([i \in DOMAIN digits |-> IF i = 1 THEN <<digits[1]>> ELSE <<Sep, digits[i]>>])
Numeral(n, base, s) ==
  LET digits == Spelled(n, base)
  IN  Times(s.spaces, Space) \o (IF s.neg THEN <<Minus>> ELSE <<>>)
        \o (IF s.mark THEN Mark(base) ELSE <<>>) \o Times(s.zeros, 0)
        \o (IF s.seps THEN Apart(digits) ELSE digits)
Needs(s) == (IF s.spaces = 1 THEN {"space"} ELSE {}) \cup (IF s.seps THEN {"sep"} ELSE {})
Sound(base, s) == s.mark => base \in {2, 8, 16}

(* The first step that leaves the widest type does so by its addition: the *)
(* test of the code divides the addition away and misses it.               *)
RECURSIVE Missed(_, _)
Missed(n, base) ==
  n >= Wide /\ LET m == n \div base
               IN  IF m >= Wide THEN Missed(m, base) ELSE m * base < Wide

\* The ways to read: what is asked for, its limits, and whether they hold.
Reads ==
  [type : {"unsigned"}, size : {Wide, Narrow}] \cup [type : {"signed"}, size : {Wide, Narrow}]
    \cup [type : {"short"}, size : {Narrow}]
Read(r, t, asked, flags) ==
  CASE r.type = "unsigned" -> Unsigned(t, asked, flags, r.size)
    [] r.type = "signed" -> Signed(t, asked, flags, r.size)
    [] r.type = "short" -> Short(t, asked, flags, r.size)
LimitOf(r, neg) ==
  IF r.type = "unsigned" THEN r.size - 1 ELSE IF neg THEN r.size \div 2 ELSE r.size \div 2 - 1

(* A number within its limits is read back however it is spelled.  One     *)
(* outside of them is answered with 0 and an error, or without the flag by *)
(* the limit as long as it fits the widest type; the exceptions are a      *)
(* missed overflow and a negative short, which has no limit of its own.    *)
ReadsBack(r, base, s, asked, exact, over) ==
  LET numeral == Numeral(number, base, s)
      all == IF s.tail THEN Append(numeral, Other) ELSE numeral
      flags == Needs(s) \cup exact \cup over
      limit == LimitOf(r, s.neg)
      signed == IF s.neg THEN - number ELSE number
      Right(a) ==
        IF s.neg /\ r.type = "unsigned" THEN a.err = "negative" /\ a.ret = 0
        ELSE IF number <= limit
             THEN a = Answer(signed, Len(numeral), IF s.tail /\ exact # {} THEN "oob" ELSE "none")
        ELSE IF (r.type = "short" /\ s.neg) \/ Missed(number, base) THEN TRUE
        ELSE IF over # {} THEN a.err # "none" /\ a.ret = 0
        ELSE number < Wide => a.ret = IF s.neg THEN - limit ELSE limit
  IN  Right(Read(r, all, asked, flags))

(* Invariant: ustr_parse_* read every number as it is spelled, with or     *)
(* without a mark of its base, and tell when it is out of range; one that  *)
(* was added as bytes is found where it was put, and nowhere else; where   *)
(* the test for overflow misses one at the last digit, what is answered is *)
(* the number modulo the range, without an error.                          *)
ParsesAgree ==
  kind = "numbers" =>
    /\ \A width \in {2, 4, 8}, before \in {<<>>, <<1>>}, after \in {<<>>, <<0>>, <<1>>} :
         LET t == AddB(before, number, width) \o after
         IN  /\ ParseB(t, Len(before), width) = number % Octet ^ width
             /\ \A off \in Len(t) - width + 1 .. Len(t) : ParseB(t, off, width) = 0
    /\ \A base \in Radixes, s \in Styles, exact \in {{}, {"exact"}}, over \in {{}, {"overflow"}} :
         Sound(base, s) =>
           /\ \A r \in Reads : ReadsBack(r, base, s, base, exact, over)
           /\ s.mark => \A r \in Reads : ReadsBack(r, base, s, 0, exact, over)
           /\ (Missed(number, base) /\ number \div base < Wide /\ ~s.neg /\ ~s.tail) =>
                Read([type |-> "unsigned", size |-> Wide], Numeral(number, base, s), base,
                     Needs(s) \cup over) = Answer(number - Wide, Len(Numeral(number, base, s)), "none")

-----------------------------------------------------------------------------
(* UTF-8 *)

Scalar(u) == u \in 0 .. 1114111 /\ u \notin 55296 .. 57343 /\ u \notin {65534, 65535}

\* The shortest encoding.
Encoded(u) ==
  IF u < 128 THEN <<u>>
  ELSE IF u < 2048 THEN <<192 + u \div 64, 128 + Low(u)>>
  ELSE IF u < 65536 THEN <<224 + u \div 4096, 128 + Low(u \div 64), 128 + Low(u)>>
  ELSE <<240 + u \div 262144, 128 + Low(u \div 4096), 128 + Low(u \div 64), 128 + Low(u)>>
EncodedAll(codes) == FlattenSeq([k \in DOMAIN codes |-> Encoded(codes[k])])
CodesOf(t) == [k \in DOMAIN Chars(t) |-> Chars(t)[k].ucs]

\* What is valid is the shortest encoding of characters there are.
ValidAreEncodings(bytes) ==
  Valid(bytes) => /\ EncodedAll(CodesOf(bytes)) = bytes
                  /\ \A u \in ToSet(CodesOf(bytes)) : Scalar(u)

\* What is asked of a span from the end of a text, off characters before it.
SpannedFromEnd(codes, off, chrs) ==
  LET t == EncodedAll(codes)
      set == ToSet(chrs)
  IN  /\ Utf8SpnChrsRev(t, off, EncodedAll(chrs)) = SpnChrsRev(codes, off, set)
      /\ Utf8CspnChrsRev(t, off, EncodedAll(chrs)) = RunRev(codes, off, set)

\* Exception: the offset is taken for as many bytes as off characters have
\* that begin one character too early (ustr-spn-code.h:279).
Misplaced(codes, off) ==
  off # 0 /\ (off = Len(codes) \/ Len(Encoded(codes[Len(codes) - off])) # Len(Encoded(Last(codes))))

\* Exception: the client mistakes the first lead byte of characters of three
\* and of four bytes for one of a shorter character (a4f.c:406, 408).
Misread(codes) == \E u \in ToSet(codes) : Encoded(u)[1] \in {224, 240}

\* Characters and bytes are counted alike, a text turned round is the text of
\* its characters from last to first, spans of them end where those of the
\* characters do, and the client draws the characters; with the exceptions
\* above.
EncodingsAreValid(codes, chrs) ==
  LET t == EncodedAll(codes)
      n == Len(codes)
      set == ToSet(chrs)
      Bytes(k) == Len(EncodedAll(Cut(codes, k)))
  IN  /\ Valid(t) /\ CodesOf(t) = codes /\ Utf8Len(t) = n
      /\ Utf8Reverse(t) = EncodedAll(Reverse(codes))
      /\ \A pos \in 1 .. n : \A len \in 1 .. n - pos + 1 :
           LET b == Chars2Bytes(t, pos, len)
           IN  /\ b = [bytes |-> Bytes(pos + len - 1) - Bytes(pos - 1), pos |-> Bytes(pos - 1) + 1]
               /\ Bytes2Chars(t, b.pos, b.bytes) = [chars |-> len, pos |-> pos]
      /\ \A pos \in 1 .. n : \A k \in Bytes(pos - 1) + 1 .. Bytes(pos) :
           Bytes2Chars(t, k, 1) = [chars |-> 1, pos |-> pos]
      /\ \A off \in 0 .. n :
           /\ Utf8SpnChrsFwd(t, off, EncodedAll(chrs)) = SpnChrsFwd(codes, off, set)
           /\ Utf8CspnChrsFwd(t, off, EncodedAll(chrs)) = RunFwd(codes, off, set)
           /\ Misplaced(codes, off) \/ SpannedFromEnd(codes, off, chrs)
      /\ Misread(codes) \/ Drawn(t, 0) = codes

\* The binary search finds what is in an interval.
IntervalsFound ==
  \A n \in 1 .. Len(Combining) :
    \A u \in {Combining[k].first + d : k \in 1 .. n, d \in {-1, 0}}
               \cup {Combining[k].last + d : k \in 1 .. n, d \in {0, 1}} :
      Bisearch(u, 1, n) <=> \E k \in 1 .. n : Combining[k].first <= u /\ u <= Combining[k].last

(* Invariant: valid UTF-8 is what encodes characters and nothing else; its *)
(* characters are counted, measured, spanned and drawn as they are encoded  *)
(* (ustr-utf8-code.h, ustr-spn-code.h, a4f.c), except a reverse span past   *)
(* an offset (Misplaced) and the drawing of two lead bytes (Misread).      *)
Utf8Agree ==
  /\ kind = "bytes" => ValidAreEncodings(text)
  /\ kind = "codes" => EncodingsAreValid(text, part) /\ IntervalsFound
                         /\ Width(EncodedAll(text)) =
                              FoldLeft(LAMBDA w, u: w + WcWidth(u), 0, text)

(* A text in UTF-8 is drawn as it is encoded, which a4f.h:72-74 promises,  *)
(* and a span from its end past an offset counts the characters that        *)
(* encode.  Stated as weakly as can be, that one of the two holds, so that  *)
(* a text that violates it refutes both.                                    *)
AsEncoded ==
  kind = "codes" =>
    \/ Drawn(EncodedAll(text), 0) = text
    \/ \A off \in 0 .. Len(text) : SpannedFromEnd(text, off, part)
=============================================================================
