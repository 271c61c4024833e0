----------------------------- MODULE MCDiagrams -----------------------------
(* Small diagrams for TLC.  Faces are numbered, and a halfedge is the number *)
(* of its face and its name there.                                         *)
EXTENDS VoronoiDiagram, Integers, Sequences, TLC

Site(i) == <<i, "face">>
Halves(F, names) == F \X names
At1(h, name) == <<h[1], name>>

\* Rays from one corner: n sites around it, none of them enclosed.
Star(n) ==
  LET H == Halves((1 .. n), {"in", "out"})
  IN  [faces |-> {Site(i) : i \in 1 .. n}, halves |-> H,
       face |-> [h \in H |-> Site(h[1])],
       twin |-> [h \in H |-> IF h[2] = "out" THEN <<(h[1] % n) + 1, "in">>
                             ELSE <<((h[1] + n - 2) % n) + 1, "out">>],
       next |-> [h \in H |-> IF h[2] = "in" THEN At1(h, "out") ELSE Null],
       prev |-> [h \in H |-> IF h[2] = "out" THEN At1(h, "in") ELSE Null]]

Spoke(i) == <<"a", "b", "c", "d">>[i]
Number(name) == CHOOSE i \in 1 .. 4 : Spoke(i) = name
Names(n) == {Spoke(i) : i \in 1 .. n}

\* One site enclosed by n others.
Ring(n) ==
  LET Inner == Halves({0}, Names(n))
      H == Inner \cup Halves((1 .. n), {"in", "mid", "out"})
  IN  [faces |-> {Site(i) : i \in 0 .. n}, halves |-> H,
       face |-> [h \in H |-> Site(h[1])],
       twin |-> [h \in H |-> CASE h \in Inner -> <<Number(h[2]), "mid">>
                               [] h[2] = "mid" -> <<0, Spoke(h[1])>>
                               [] h[2] = "out" -> <<((h[1] + n - 2) % n) + 1, "in">>
                               [] h[2] = "in" -> <<(h[1] % n) + 1, "out">>],
       next |-> [h \in H |-> CASE h \in Inner -> <<0, Spoke((Number(h[2]) % n) + 1)>>
                               [] h[2] = "in" -> At1(h, "mid")
                               [] h[2] = "mid" -> At1(h, "out")
                               [] OTHER -> Null],
       prev |-> [h \in H |-> CASE h \in Inner -> <<0, Spoke(((Number(h[2]) + n - 2) % n) + 1)>>
                               [] h[2] = "mid" -> At1(h, "in")
                               [] h[2] = "out" -> At1(h, "mid")
                               [] OTHER -> Null]]

\* Sites on a line: n strips between parallel lines.
Strips(n) ==
  LET H == {h \in Halves((1 .. n), {"left", "right"}) : h # <<1, "left">> /\ h # <<n, "right">>}
  IN  [faces |-> {Site(i) : i \in 1 .. n}, halves |-> H,
       face |-> [h \in H |-> Site(h[1])],
       twin |-> [h \in H |-> IF h[2] = "right" THEN <<h[1] + 1, "left">> ELSE <<h[1] - 1, "right">>],
       next |-> [h \in H |-> Null], prev |-> [h \in H |-> Null]]

\* With every choice of the first face, and of the halfedge a face offers for
\* the faces of some.
Offers(d, chosen) ==
  {[e \in d.faces |-> IF e \in chosen THEN c[e] ELSE CHOOSE h \in d.halves : d.face[h] = e]
   : c \in {k \in [chosen -> d.halves] : \A e \in chosen : d.face[k[e]] = e}}
Answers(d, chosen) ==
  {d @@ [first |-> f, edge |-> edge] : f \in d.faces, edge \in Offers(d, chosen)}

SmallDiagrams ==
  Answers(Star(3), {Site(1), Site(2), Site(3)}) \cup Answers(Star(4), {Site(1)})
  \cup Answers(Ring(3), {Site(0), Site(1), Site(2)}) \cup Answers(Ring(4), {Site(0)})
  \cup Answers(Strips(4), {Site(2), Site(3)})
SmallOrders == {{}, {"twin", "prev"}, Fields}
=============================================================================
