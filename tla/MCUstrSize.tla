----------------------------- MODULE MCUstrSize -----------------------------
(* Small instances of Ustr, and what tells their states apart: see           *)
(* UstrSizeField.cfg, and MCUstr for Ustr.cfg.                               *)
EXTENDS Ustr

Conf(sz, rb, exact) == [sz |-> sz, rb |-> rb, exact |-> exact, emem |-> FALSE]
SizedConfs == {Conf(1, 2, FALSE)}
SmallTexts == {<<>>, <<"A">>, <<"a", "A">>}

\* The addresses of the blocks matter only by who holds them, and a block that
\* nobody can reach only by what it still counts.
Lost == {a \in Addr : Holders(a) = {} /\ heap[a].kind # "free"}
Seen == <<[h \in Handle |-> IF Held(h) THEN <<heap[var[h]], {g \in Handle : var[g] = var[h]}>>
                            ELSE <<>>],
          {<<heap[a].kind, heap[a].rb = 0, heap[a].ref>> : a \in Lost}, wild, conf>>
=============================================================================
