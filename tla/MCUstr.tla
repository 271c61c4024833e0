------------------------------- MODULE MCUstr -------------------------------
(* A small instance of Ustr whose sizes fit: see Ustr.cfg. *)
EXTENDS MCUstrSize

SmallConfs == {Conf(0, 0, TRUE), Conf(0, 1, FALSE), Conf(1, 2, FALSE)}
SmallDefaults == {Conf(0, 1, FALSE), Conf(1, 2, FALSE)}

\* The theorems of UstrProofs are about such an instance.
ASSUME MCUstrAssumption == SizesFit

\* Two different strings at once are short and made while the default is not
\* sized, the error flag is of interest on the one that is edited and a lost
\* block while there is one string; one string alone is as long as MaxLen.
Short ==
  Cardinality({var[g] : g \in Handle} \ {Null}) > 1 =>
    /\ Lost = {} /\ conf.sz = 0
    /\ \A h \in Handle : Held(h) =>
         /\ LenOf(h) <= 1 \/ var[h] = Lit
         /\ h \in Edited \/ ~heap[var[h]].emem
=============================================================================
