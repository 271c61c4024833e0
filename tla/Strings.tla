------------------------------ MODULE Strings ------------------------------
(***************************************************************************)
(* What the string library promises (ustr.h and the comments of its        *)
(* headers), without blocks, counts or sizes: every handle has a text of   *)
(* its own or none, a call changes the text of the handle it names and no  *)
(* other, and a call that fails changes nothing.                           *)
(*                                                                         *)
(* "call" is the last call: what was asked for and whether it succeeded.   *)
(* Most requests cut "cut" characters out of the text after the first      *)
(* "off" and put others there, taken from the caller or from the text of a *)
(* handle, which may be the same one.  A request that is "bad" names a     *)
(* place the text does not have.  A limited string cannot grow: "most" is  *)
(* the longest text its buffer has room for (None: no limit).  What the    *)
(* library is known to make of a request otherwise than it promises is     *)
(* "odd", and the text that has after a success is left open.              *)
(***************************************************************************)
EXTENDS Integers, Sequences, FiniteSetsExt

CONSTANTS Handle, None

VARIABLES val, call

vars == <<val, call>>

\* Where new characters come from: the caller, or part of a handle's text.
Given(text) == [h |-> None, off |-> 0, len |-> Len(text), text |-> text]
PartOf(h, off, len) == [h |-> h, off |-> off, len |-> len, text |-> <<>>]
Source(src) == IF src.h = None THEN src.text ELSE SubSeq(val[src.h], src.off + 1, src.off + src.len)

\* Nothing put in the place of nothing is no change, wherever that place is.
Splice(text, off, cut, new) ==
  IF cut = 0 /\ new = <<>> THEN text
  ELSE SubSeq(text, 1, off) \o new \o SubSeq(text, off + cut + 1, Len(text))

IsAt(text, off, part) ==
  off + Len(part) <= Len(text) /\ SubSeq(text, off + 1, off + Len(part)) = part

\* At most lim replacements (0: all), from left to right.
Replaced(text, old, new, lim) ==
  LET rest[off \in 0 .. Len(text), left \in 0 .. lim] ==
        IF off = Len(text) THEN <<>>
        ELSE IF IsAt(text, off, old) /\ (lim = 0 \/ left > 0)
        THEN new \o rest[off + Len(old), IF lim = 0 THEN 0 ELSE left - 1]
        ELSE <<text[off + 1]>> \o rest[off + 1, left]
  IN  rest[0, lim]

\* The text without the characters of chrs at its beginning and its end.
Trimmed(text, chrs, left, right) ==
  LET kept == {i \in 1 .. Len(text) : text[i] \notin chrs}
  IN  IF kept = {} THEN IF left \/ right THEN <<>> ELSE text
      ELSE SubSeq(text, IF left THEN Min(kept) ELSE 1, IF right THEN Max(kept) ELSE Len(text))

\* The text of handle r.h after request r succeeded.
Granted(r) ==
  LET text == val[r.h]
  IN  CASE r.kind = "splice"  -> Splice(text, r.off, r.cut, Source(r.src))
        [] r.kind = "new"     -> Source(r.src)
        [] r.kind = "drop"    -> None
        [] r.kind = "keep"    -> text
        [] r.kind = "replace" -> Replaced(text, Source(r.old), Source(r.src), r.lim)
        [] r.kind = "reverse" -> [i \in 1 .. Len(text) |-> text[Len(text) + 1 - i]]
        [] r.kind = "map"     -> [i \in 1 .. Len(text) |-> r.to[text[i]]]
        [] r.kind = "trim"    -> Trimmed(text, r.chrs, r.left, r.right)

\* Input that arrived before the call failed stays.
Arrived(r) == {val[r.h] \o SubSeq(r.src.text, 1, n) : n \in 0 .. r.src.len}

\* The call that ends the library's promise to one handle keeps those to others.
OthersKept(r) == \A g \in Handle \ {r.h} : val'[g] = val[g]

Limited(r) == r.most # None /\ val'[r.h] # None => Len(val'[r.h]) <= r.most

Promise(r, ok) ==
  \/ ok /\ r.odd /\ OthersKept(r)
  \/ /\ ~(ok /\ (r.odd \/ r.bad))
     /\ \E text \in IF ok THEN {Granted(r)}
                    ELSE IF r.partial THEN Arrived(r) ELSE {val[r.h]} :
          val' = [val EXCEPT ![r.h] = text]
     /\ Limited(r)

Init == /\ val = [h \in Handle |-> None]
        /\ call = None
\* What concerns no string, such as the choice of the defaults, changes none.
Next == \/ call' = None /\ UNCHANGED val
        \/ call' # None /\ Promise(call'.req, call'.ok)
Spec == Init /\ [][Next]_vars
=============================================================================
