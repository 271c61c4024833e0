------------------------------- MODULE Search -------------------------------
(***************************************************************************)
(* The questions the string library answers about a string without         *)
(* changing it: where something is found (ustr-srch-code.h), how far a     *)
(* span of characters goes (ustr-spn-code.h), which of two strings comes   *)
(* first (ustr-cmp.h, ustr-cmp-code.h), and the pieces between separators  *)
(* (ustr_split_spn_chrs).                                                  *)
(*                                                                         *)
(* A string is a sequence of character codes.  As in the code, off skips   *)
(* so many characters, from the end for a reverse search, and what is      *)
(* found is a position from 1, or 0.                                       *)
(***************************************************************************)
EXTENDS Integers, Sequences, FiniteSetsExt, FiniteSets

FirstOf(S) == IF S = {} THEN 0 ELSE Min(S)
LastOf(S) == IF S = {} THEN 0 ELSE Max(S)
Cut(t, n) == SubSeq(t, 1, n)

\* Letters are alike in the functions that ignore case.
Folded(t) == [i \in DOMAIN t |-> IF t[i] \in 97 .. 122 THEN t[i] - 32 ELSE t[i]]

\* An impossible part of a string is taken for the empty one.
Part(t, pos, len) ==
  IF pos >= 1 /\ len >= 1 /\ pos - 1 + len <= Len(t) THEN SubSeq(t, pos, pos + len - 1) ELSE <<>>

-----------------------------------------------------------------------------
(* Searching *)

ChrFwd(t, off, c) == FirstOf({i \in off + 1 .. Len(t) : t[i] = c})
ChrRev(t, off, c) == LastOf({i \in 1 .. Len(t) - off : t[i] = c})

\* The first place of nd in t that is not before from.
RECURSIVE MemMem(_, _, _)
MemMem(t, from, nd) ==
  IF Len(t) - from + 1 < Len(nd) THEN 0
  ELSE IF SubSeq(t, from, from + Len(nd) - 1) = nd THEN from
  ELSE MemMem(t, from + 1, nd)

BufFwd(t, off, nd) ==
  IF Len(nd) = 1 THEN ChrFwd(t, off, nd[1])
  ELSE IF nd = <<>> THEN IF t = <<>> THEN 0 ELSE off + 1
  ELSE MemMem(t, off + 1, nd)

\* The last of what Next finds in turn.
RECURSIVE LastFound(_, _, _)
LastFound(Next(_), from, prev) ==
  LET at == Next(from)
  IN  IF at = 0 THEN prev ELSE LastFound(Next, at + 1, at)

BufRev(t, off, nd) ==
  IF Len(nd) = 1 THEN ChrRev(t, off, nd[1])
  ELSE IF nd = <<>> THEN Len(t) - off
  ELSE LastFound(LAMBDA from: MemMem(Cut(t, Len(t) - off), from, nd), 1, 0)

SubustrFwd(t, off, s, pos, len) == BufFwd(t, off, Part(s, pos, len))
SubustrRev(t, off, s, pos, len) == BufRev(t, off, Part(s, pos, len))

\* Mutant: a run that is broken is left behind as a whole.
RECURSIVE MemRepChrWindow(_, _, _, _)
MemRepChrWindow(t, from, c, n) ==
  LET at == ChrFwd(t, from - 1, c)
      broken == {i \in at .. at + n - 1 : t[i] # c}
  IN  IF at = 0 \/ at + n - 1 > Len(t) THEN 0
      ELSE IF broken = {} THEN at
      ELSE MemRepChrWindow(t, at + n, c, n)

\* A run of n times c: it is compared from its end, and the search goes on
\* from the character that broke it.
RECURSIVE MemRepChr(_, _, _, _)
MemRepChr(t, from, c, n) ==
  LET at == ChrFwd(t, from - 1, c)
      broken == {i \in at .. at + n - 1 : t[i] # c}
  IN  IF at = 0 \/ at + n - 1 > Len(t) THEN 0
      ELSE IF broken = {} THEN at
      ELSE MemRepChr(t, Max(broken), c, n)

RepChrFwd(t, off, c, n) ==
  IF n = 1 THEN ChrFwd(t, off, c)
  ELSE IF n = 0 THEN IF t = <<>> THEN 0 ELSE off + 1
  ELSE MemRepChr(t, off + 1, c, n)

RepChrRev(t, off, c, n) ==
  IF n = 1 THEN ChrRev(t, off, c)
  ELSE IF n = 0 THEN Len(t) - off
  ELSE LastFound(LAMBDA from: MemRepChr(Cut(t, Len(t) - off), from, c, n), 1, 0)

\* Ignoring case.
Upper(c) == Folded(<<c>>)[1]
CaseChrFwd(t, off, c) == ChrFwd(Folded(t), off, Upper(c))
CaseChrRev(t, off, c) ==
  LastFound(LAMBDA from: ChrFwd(Folded(Cut(t, Len(t) - off)), from - 1, Upper(c)), 1, 0)
CaseBufFwd(t, off, nd) == BufFwd(Folded(t), off, Folded(nd))
CaseBufRev(t, off, nd) ==
  IF Len(nd) = 1 THEN CaseChrRev(t, off, nd[1]) ELSE BufRev(Folded(t), off, Folded(nd))
CaseSubustrFwd(t, off, s, pos, len) == CaseBufFwd(t, off, Part(s, pos, len))
CaseSubustrRev(t, off, s, pos, len) == CaseBufRev(t, off, Part(s, pos, len))
CaseRepChrFwd(t, off, c, n) == RepChrFwd(Folded(t), off, Upper(c), n)
CaseRepChrRev(t, off, c, n) == RepChrRev(Folded(t), off, Upper(c), n)

-----------------------------------------------------------------------------
(* Spans *)

\* The characters from off on before the first one in Stop.
RunFwd(t, off, Stop) ==
  LET end == FirstOf({i \in off + 1 .. Len(t) : t[i] \in Stop})
  IN  IF end = 0 THEN Len(t) - off ELSE end - off - 1
RunRev(t, off, Stop) == Len(t) - off - LastOf({i \in 1 .. Len(t) - off : t[i] \in Stop})

Others(t, chrs) == {t[i] : i \in DOMAIN t} \ chrs
SpnChrsFwd(t, off, chrs) == RunFwd(t, off, Others(t, chrs))
SpnChrsRev(t, off, chrs) == RunRev(t, off, Others(t, chrs))
SpnChrFwd(t, off, c) == SpnChrsFwd(t, off, {c})
SpnChrRev(t, off, c) == SpnChrsRev(t, off, {c})

CspnChrFwd(t, off, c) ==
  LET found == ChrFwd(t, off, c) IN IF found = 0 THEN Len(t) - off ELSE found - off - 1
CspnChrRev(t, off, c) == 
  LET found == ChrRev(t, off, c) IN IF found = 0 THEN Len(t) - off ELSE Len(t) - found - off

OnlyOne(chrs) == CHOOSE c \in chrs : TRUE
CspnChrsFwd(t, off, chrs) ==
  IF Cardinality(chrs) = 1 THEN CspnChrFwd(t, off, OnlyOne(chrs)) ELSE RunFwd(t, off, chrs)
CspnChrsRev(t, off, chrs) ==
  IF Cardinality(chrs) = 1 THEN CspnChrRev(t, off, OnlyOne(chrs)) ELSE RunRev(t, off, chrs)

\* ustr_split_spn_chrs called until it has no more: the pieces between the
\* separators, with each separator on its own if flags ask for that.
RECURSIVE SplitSpn(_, _, _, _)
SplitSpn(t, off, seps, flags) ==
  LET spn == CspnChrsFwd(t, off, seps)
      sep == IF flags # {} THEN IF off + spn = Len(t) THEN 0 ELSE 1
             ELSE SpnChrsFwd(t, off + spn, seps)
      kept == IF "sep" \in flags THEN spn + sep ELSE spn
  IN  IF seps = {} \/ off = Len(t) THEN <<>>
      ELSE IF spn = 0 /\ flags = {}
           THEN SplitSpn(t, off + SpnChrsFwd(t, off, seps), seps, flags)
      ELSE <<SubSeq(t, off + 1, off + kept)>> \o SplitSpn(t, off + spn + sep, seps, flags)

-----------------------------------------------------------------------------
(* Comparing: below 0, 0 or above 0 *)

\* memcmp of the first n characters.
MemCmp(a, b, n) ==
  LET i == FirstOf({j \in 1 .. n : a[j] # b[j]}) IN IF i = 0 THEN 0 ELSE a[i] - b[i]

Sign(n) == IF n > 0 THEN 1 ELSE IF n < 0 THEN -1 ELSE 0
CmpBuf(a, b) ==
  LET by == MemCmp(a, b, Min({Len(a), Len(b)}))
  IN  IF by # 0 THEN Sign(by) ELSE Sign(Len(a) - Len(b))
CmpFastBuf(a, b) == IF Len(a) = Len(b) THEN Sign(MemCmp(a, b, Len(a))) ELSE Sign(Len(a) - Len(b))
CmpCaseBuf(a, b) == CmpBuf(Folded(a), Folded(b))

CmpPrefixBufEq(a, b) == Len(a) >= Len(b) /\ MemCmp(a, b, Len(b)) = 0
CmpSuffixBufEq(a, b) ==
  Len(a) >= Len(b) /\ MemCmp(SubSeq(a, Len(a) - Len(b) + 1, Len(a)), b, Len(b)) = 0
CmpCaseEq(a, b) == Len(a) = Len(b) /\ CmpCaseBuf(a, b) = 0
CmpCasePrefixBufEq(a, b) == CmpPrefixBufEq(Folded(a), Folded(b))
CmpCaseSuffixBufEq(a, b) == CmpSuffixBufEq(Folded(a), Folded(b))

CmpSubustr(a, s, pos, len) == CmpBuf(a, Part(s, pos, len))
CmpFastSubustr(a, s, pos, len) == CmpFastBuf(a, Part(s, pos, len))
CmpCaseSubustr(a, s, pos, len) == CmpCaseBuf(a, Part(s, pos, len))
CmpPrefixSubustrEq(a, s, pos, len) == CmpPrefixBufEq(a, Part(s, pos, len))
CmpSuffixSubustrEq(a, s, pos, len) == CmpSuffixBufEq(a, Part(s, pos, len))
\* The length asked for is compared, whatever the part is.
CmpCaseSubustrEq(a, s, pos, len) == Len(a) = len /\ CmpCaseSubustr(a, s, pos, len) = 0
CmpCasePrefixSubustrEq(a, s, pos, len) == CmpCasePrefixBufEq(a, Part(s, pos, len))
CmpCaseSuffixSubustrEq(a, s, pos, len) == CmpCaseSuffixBufEq(a, Part(s, pos, len))
=============================================================================
