---------------------------- MODULE LoopContract ----------------------------
(***************************************************************************)
(* What loop.h promises of nested game loops, without timer, arrays or     *)
(* bitmaps: loops stack up; a round of a loop that loop_subexecute runs    *)
(* calls the logic of every loop on the stack, the earliest first, and one  *)
(* of a loop that loop_execute runs its own logic only; a logic routine may *)
(* open a loop before it returns; and only the latest loop's own LOOP_STOP  *)
(* ends the latest loop.                                                   *)
(***************************************************************************)
EXTENDS Integers, Sequences

CONSTANTS Loops,    \* the clients' loops
          None      \* no loop

VARIABLES stack,    \* the loops that run, the earliest first
          round     \* per loop: the call its current round has come to

(* first is the loop whose logic a round calls first.                      *)
Rest(first) == [first |-> first, turn |-> 0, callee |-> None, stop |-> FALSE]

vars == <<stack, round>>

Latest == Len(stack)

(* The routine the latest loop has called and that has not returned yet.   *)
Busy == round[Latest].callee # None

Init == stack = <<>> /\ round = <<>>

(* Only a logic routine, or the application outside all loops, opens one.  *)
Open(first, w) ==
  /\ stack = <<>> \/ Busy
  /\ \A k \in 1 .. Latest : stack[k] # w
  /\ stack' = Append(stack, w)
  /\ round' = Append(round, Rest(first))

Execute(w) == Open(Latest + 1, w)
Subexecute(w) == Open(1, w)

Begin ==
  /\ stack # <<>> /\ round[Latest].turn = 0
  /\ round' = [round EXCEPT ![Latest].turn = round[Latest].first]
  /\ UNCHANGED stack

Call ==
  /\ stack # <<>> /\ ~Busy
  /\ round[Latest].turn \in 1 .. Latest
  /\ round' = [round EXCEPT ![Latest].callee = stack[round[Latest].turn]]
  /\ UNCHANGED stack

Return(stop) ==
  /\ stack # <<>> /\ Busy
  /\ round' = [round EXCEPT
       ![Latest] = [first |-> @.first, turn |-> @.turn + 1, callee |-> None,
                    stop |-> stop /\ @.turn = Latest]]
  /\ UNCHANGED stack

Finished == stack # <<>> /\ round[Latest].turn = Latest + 1

Again ==
  /\ Finished /\ ~round[Latest].stop
  /\ round' = [round EXCEPT ![Latest] = Rest(@.first)]
  /\ UNCHANGED stack

Close ==
  /\ Finished /\ round[Latest].stop
  /\ stack' = SubSeq(stack, 1, Latest - 1)
  /\ round' = SubSeq(round, 1, Latest - 1)

Next ==
  \/ \E w \in Loops : Execute(w) \/ Subexecute(w)
  \/ Begin \/ Call \/ Again \/ Close
  \/ \E stop \in BOOLEAN : Return(stop)

Spec == Init /\ [][Next]_vars
=============================================================================
