--------------------------- MODULE GameLoopProofs ---------------------------
(***************************************************************************)
(* Proofs about GameLoop, for any number of loops, depth, ticks, blocks    *)
(* and bitmaps, either timer, either entry point and any failures.  IInv   *)
(* is inductive: each of its parts is a lemma with one step per group of   *)
(* actions that can disturb it.  The loops implement LoopContract: while no *)
(* loop runs that loop_execute opened inside another, every step of theirs  *)
(* is a step of the contract, or leaves what the contract speaks of         *)
(* unchanged; the facts about arrays and rounds come from IInv.             *)
(***************************************************************************)
EXTENDS GameLoop, Sequences, TLAPS

USE DEF Slots, Idle, Overdrawn, STOP, CONTINUE, REFRESH, At, Goto, InClient,
        Top, Ends, GuiAbort, libVars, stackVars, tickVars, loopVars

(* The program starts in the invariant: no loop, no tick, no bitmap.       *)
LEMMA InitIInv == Init => IInv
  <1> SUFFICES ASSUME Init PROVE IInv
    OBVIOUS
  <1> USE ParametersAssumption, PointersAssumption DEF Init
  <1>1. TypeLib /\ TypeHistory
    BY DEF TypeLib, TypeHistory
  <1>8. TypeTicks
    BY DEF TypeTicks
  <1>2. NoNested \in Nested
    BY DEF Nested, NoNested
  <1>3. TypeStack
    BY <1>2 DEF TypeStack
  <1>4. NoFrame \in Frame
    BY <1>2 DEF NoFrame, Frame
  <1>5. TypeFrames
    BY <1>4 DEF TypeFrames
  <1>6. StackShape /\ StackContents /\ Rounds
    BY DEF StackShape, StackContents, Rounds, Holds, Mirrors, NoNested
  <1>7. Counters /\ Ownership
    BY DEF Counters, Ownership, NoNested
  <1> QED BY <1>1, <1>3, <1>5, <1>6, <1>7, <1>8 DEF IInv, TypeOK

(* The steps that leave the loops and their rounds alone.                  *)
Aside ==
  \/ Timer \/ SetTicksPerSecond \/ (\E b \in Toggles : SetDirectVideo(b))
  \/ RefreshWild \/ CallWild \/ Halted
  \/ \E api \in Apis, w \in Loops : OpenFails(api, w) \/ OpenWild(api, w)

(* The steps that move the latest loop through its round.                  *)
Round ==
  \/ RefreshAll \/ PollTicks \/ TestTicks \/ LoadTicks \/ StoreTicks
  \/ CallLogic \/ NextRound
  \/ (\E leave \in BOOLEAN : Input(leave))
  \/ \E v \in {STOP, CONTINUE, REFRESH} : Return(v)

(* Every step is one of the two, opens a loop or closes one.               *)
LEMMA Cases ==
  ASSUME Next
  PROVE  Aside \/ Round \/ Close \/ \E api \in Apis, w \in Loops : Open(api, w)
  BY DEF Next, Client, Machine, Callback, Aside, Round

(* Steps aside keep the stack, the arrays and the rounds.                  *)
LEMMA AsideFrame ==
  ASSUME Aside
  PROVE  UNCHANGED <<stackVars, frame, depth, pc, quit, reg, stale>>
  BY DEF Aside, Timer, TimerInterrupt, TimerLoad, TimerStore, SetDirectVideo,
         SetTicksPerSecond, RefreshWild, CallWild, Halted, OpenFails, OpenWild,
         vars

(* A loop that goes through its round leaves the library and the stack as  *)
(* they are, and every frame but its own.                                  *)
LEMMA RoundFrame ==
  ASSUME Round, TypeFrames
  PROVE  /\ UNCHANGED <<libVars, stackVars, depth, status>>
         /\ \A d \in Slots \ {depth} : frame'[d] = frame[d]
         /\ DOMAIN frame' = Slots
  BY DEF Round, RefreshAll, PollTicks, TestTicks, LoadTicks, StoreTicks,
         CallLogic, NextRound, Input, Return, TypeFrames

(* The library's own variables keep their types.                           *)
LEMMA TypeLibStep ==
  ASSUME TypeLib, TypeFrames, Next
  PROVE  TypeLib'
  <1> USE ParametersAssumption DEF TypeLib
  <1>1. CASE Aside
    BY <1>1 DEF Aside, Timer, TimerInterrupt, TimerLoad, TimerStore,
       SetDirectVideo, SetupTargetBitmap, SetTicksPerSecond, RefreshWild,
       CallWild, Halted, OpenFails, OpenWild, vars
  <1>2. CASE Round
    BY <1>2, RoundFrame
  <1>3. CASE Close
    BY <1>3 DEF Close
  <1>4. ASSUME NEW api \in Apis, NEW w \in Loops, Open(api, w)
        PROVE  TypeLib'
    BY <1>4 DEF Open, SetupTargetBitmap
  <1> QED BY <1>1, <1>2, <1>3, <1>4, Cases

(* Nested calls that are pushed are nested calls.                          *)
LEMMA PushedType ==
  ASSUME TypeStack, StackShape, NEW w \in Loops
  PROVE  Pushed(w) \in [Slots -> Loops \cup {None}]
  <1> SUFFICES ASSUME NEW k \in Slots
               PROVE  Pushed(w)[k] \in Loops \cup {None}
    BY DEF Pushed
  <1>1. CASE k <= nested_calls.len
    <2>1. nested_calls.arr \in Blocks
      BY <1>1 DEF TypeStack, Nested, StackShape, Holds
    <2> QED BY <1>1, <2>1 DEF Pushed, TypeStack
  <1>2. CASE k = nested_calls.len + 1
    BY <1>2 DEF Pushed, TypeStack, Nested
  <1>3. CASE ~(k <= nested_calls.len) /\ k # nested_calls.len + 1
    BY <1>3 DEF Pushed
  <1> QED BY <1>1, <1>2, <1>3

(* The arrays keep their types.                                            *)
LEMMA TypeStackStep ==
  ASSUME TypeStack, TypeFrames, StackShape, Next
  PROVE  TypeStack'
  <1> USE ParametersAssumption DEF TypeStack
  <1>1. CASE Aside
    BY <1>1, AsideFrame
  <1>2. CASE Round
    BY <1>2, RoundFrame
  <1>3. CASE Close
    <2>1. depth \in Slots
      BY <1>3 DEF Close, StackShape, TypeFrames
    <2>2. Top.saved \in Nested
      BY <2>1 DEF TypeFrames, Frame
    <2>3. nested_calls.len >= 1
      BY <2>1 DEF StackShape, Holds
    <2>4. [nested_calls EXCEPT !.len = @ - 1] \in Nested
      BY <2>3 DEF Nested
    <2> QED BY <1>3, <2>2, <2>4 DEF Close, Popped
  <1>4. ASSUME NEW api \in Apis, NEW w \in Loops, Open(api, w)
        PROVE  TypeStack'
    <2>1. PICK b \in Blocks :
            /\ heap' = [heap EXCEPT ![b] = Pushed(w)]
            /\ live' = (live \ {nested_calls.arr}) \cup {b}
            /\ nested_calls' = [cap |-> IF Full THEN NewCap
                                        ELSE nested_calls.cap,
                                len |-> nested_calls.len + 1, arr |-> b]
      BY <1>4 DEF Open
    <2>2. NewCap \in Nat
      BY DEF NewCap, Nested
    <2>3. nested_calls' \in Nested
      BY <2>1, <2>2 DEF Nested
    <2> QED BY <2>1, <2>3, PushedType
  <1> QED BY <1>1, <1>2, <1>3, <1>4, Cases

(* The frames keep their types.                                            *)
LEMMA TypeFramesStep ==
  ASSUME TypeStack, TypeFrames, StackShape, Rounds, Next
  PROVE  TypeFrames'
  <1> USE ParametersAssumption DEF TypeFrames
  <1>1. CASE Aside
    BY <1>1, AsideFrame
  <1>2. CASE RefreshAll \/ PollTicks \/ TestTicks \/ LoadTicks \/ StoreTicks
    <2>1. depth \in Slots
      BY <1>2 DEF StackShape, RefreshAll, PollTicks, TestTicks, LoadTicks,
         StoreTicks
    <2>2. [frame[depth] EXCEPT !.need = FALSE] \in Frame
      BY ZenonT(40), <2>1 DEF Frame
    <2> QED BY <1>2, <2>1, <2>2
            DEF RefreshAll, PollTicks, TestTicks, LoadTicks, StoreTicks
  <1>3. ASSUME NEW leave \in BOOLEAN, Input(leave)
        PROVE  TypeFrames'
    <2>1. depth \in Slots
      BY <1>3 DEF StackShape, Input
    <2>2. [frame[depth] EXCEPT !.idx = 1, !.verdict = CONTINUE] \in Frame
      BY ZenonT(40), <2>1 DEF Frame
    <2>3. frame' \in [Slots -> Frame]
      BY <1>3, <2>1, <2>2 DEF Input
    <2>4. quit' \in [Loops -> BOOLEAN]
      BY <1>3 DEF Input
    <2> QED BY <1>3, <2>3, <2>4 DEF Input
  <1>4. CASE CallLogic
    <2>1. depth \in Slots /\ Top.idx \in Slots /\ nested_calls.arr \in Blocks
      BY <1>4 DEF StackShape, Rounds, RoundAt, CallLogic, Holds, TypeStack,
         Nested
    <2>2. heap[nested_calls.arr][Top.idx] \in Loops \cup {None}
      BY <2>1 DEF TypeStack
    <2>3. [frame[depth] EXCEPT !.cb = heap[nested_calls.arr][Top.idx]]
            \in Frame
      BY <2>1, <2>2 DEF Frame
    <2> QED BY <1>4, <2>1, <2>3 DEF CallLogic
  <1>5. ASSUME NEW v \in {STOP, CONTINUE, REFRESH}, Return(v)
        PROVE  TypeFrames'
    <2>1. depth \in Slots
      BY <1>5 DEF StackShape, Return
    <2>2. Verdict(v) \in {STOP, CONTINUE, REFRESH}
      BY <2>1 DEF Verdict, Frame
    <2>3. ASSUME NEW u \in {STOP, CONTINUE, REFRESH}, NEW i \in Nat
          PROVE  [frame[depth] EXCEPT !.verdict = u, !.idx = i, !.cb = None]
                   \in Frame
      BY ZenonT(40), <2>1 DEF Frame
    <2>4. frame[depth].idx + 1 \in Nat
      BY <2>1 DEF Frame
    <2>5. frame' \in [Slots -> Frame]
      BY <1>5, <2>1, <2>2, <2>3, <2>4 DEF Return
    <2>6. quit' \in [Loops -> BOOLEAN]
      BY <1>5 DEF Return
    <2> QED BY <1>5, <2>5, <2>6 DEF Return
  <1>6. CASE NextRound
    <2>1. depth \in Slots
      BY <1>6 DEF StackShape, NextRound
    <2>2. ASSUME NEW n \in BOOLEAN
          PROVE  [frame[depth] EXCEPT !.need = n, !.idx = 0,
                                      !.verdict = CONTINUE] \in Frame
      BY ZenonT(40), <2>1 DEF Frame
    <2> QED BY <1>6, <2>1, <2>2 DEF NextRound
  <1>7. CASE Close
    <2>1. depth \in Slots
      BY <1>7 DEF StackShape, Close
    <2>2. NoFrame \in Frame
      BY DEF NoFrame, Frame, NoNested, Nested
    <2> QED BY <1>7, <2>1, <2>2 DEF Close
  <1>8. ASSUME NEW api \in Apis, NEW w \in Loops, Open(api, w)
        PROVE  TypeFrames'
    <2>1. depth + 1 \in Slots
      BY <1>8 DEF Open, CanOpen
    <2>2. [NoFrame EXCEPT !.who = w, !.exec = (api = "execute"),
                          !.saved = nested_calls, !.need = TRUE] \in Frame
      BY DEF NoFrame, Frame, TypeStack
    <2> QED BY <1>8, <2>1, <2>2 DEF Open
  <1> QED BY <1>1, <1>2, <1>3, <1>4, <1>5, <1>6, <1>7, <1>8, Cases DEF Round

(* The counters keep their types.                                          *)
LEMMA TypeTicksStep ==
  ASSUME TypeTicks, Counters, Next
  PROVE  TypeTicks'
  <1> USE ParametersAssumption DEF TypeTicks, Counters
  <1>1. CASE Timer
    BY <1>1 DEF Timer, TimerInterrupt, TimerLoad, TimerStore, Pay
  <1>2. CASE LoadTicks \/ StoreTicks
    BY <1>2 DEF LoadTicks, StoreTicks, Spend
  <1>3. ASSUME ~Timer, ~(LoadTicks \/ StoreTicks)
        PROVE  UNCHANGED tickVars
    BY <1>3 DEF Next, Client, Machine, Callback, SetDirectVideo,
       SetTicksPerSecond, Open, OpenFails, OpenWild, RefreshAll, RefreshWild,
       PollTicks, TestTicks, Input, CallLogic, CallWild, Return, NextRound,
       Close, Halted, vars
  <1> QED BY <1>1, <1>2, <1>3

(* The history and the outcome keep their types.                           *)
LEMMA TypeHistoryStep ==
  ASSUME TypeHistory, Next
  PROVE  TypeHistory'
  BY DEF TypeHistory, Next, Timer, Client, Machine, Callback, TimerInterrupt,
     TimerLoad, TimerStore, SetDirectVideo, SetTicksPerSecond, Open, OpenFails,
     OpenWild, RefreshAll, RefreshWild, PollTicks, TestTicks, LoadTicks,
     StoreTicks, Input, CallLogic, CallWild, Return, NextRound, Close, Halted,
     vars

-----------------------------------------------------------------------------
(* A round changes neither which loops run nor how they were opened.       *)
LEMMA RoundKeeps ==
  ASSUME Round, TypeFrames, StackShape
  PROVE  /\ pc' # "app"
         /\ \A d \in Slots : /\ frame'[d].who = frame[d].who
                             /\ frame'[d].exec = frame[d].exec
                             /\ frame'[d].saved = frame[d].saved
  <1>1. depth \in Slots
    BY DEF Round, RefreshAll, PollTicks, TestTicks, LoadTicks, StoreTicks,
       CallLogic, NextRound, Input, Return, TypeFrames, StackShape
  <1>2. CASE PollTicks \/ TestTicks \/ LoadTicks \/ StoreTicks
    BY <1>2 DEF PollTicks, TestTicks, LoadTicks, StoreTicks
  <1>3. CASE RefreshAll
    BY <1>1, <1>3 DEF RefreshAll, TypeFrames, Frame
  <1>6. CASE CallLogic
    BY <1>1, <1>6 DEF CallLogic, TypeFrames, Frame
  <1>7. CASE NextRound
    BY <1>1, <1>7 DEF NextRound, TypeFrames, Frame
  <1>4. ASSUME NEW leave \in BOOLEAN, Input(leave)
        PROVE  /\ pc' # "app"
               /\ \A d \in Slots : /\ frame'[d].who = frame[d].who
                                   /\ frame'[d].exec = frame[d].exec
                                   /\ frame'[d].saved = frame[d].saved
    BY <1>1, <1>4 DEF Input, TypeFrames, Frame
  <1>5. ASSUME NEW v \in {STOP, CONTINUE, REFRESH}, Return(v)
        PROVE  /\ pc' # "app"
               /\ \A d \in Slots : /\ frame'[d].who = frame[d].who
                                   /\ frame'[d].exec = frame[d].exec
                                   /\ frame'[d].saved = frame[d].saved
    BY <1>1, <1>5 DEF Return, TypeFrames, Frame
  <1> QED BY <1>2, <1>3, <1>4, <1>5, <1>6, <1>7 DEF Round

(* Opening a loop puts it on top of the frames and marks it not to stop.   *)
LEMMA OpenFrame ==
  ASSUME NEW api \in Apis, NEW w \in Loops, Open(api, w), TypeFrames,
         StackShape
  PROVE  /\ depth \in Nat /\ depth + 1 \in Slots /\ depth' = depth + 1
         /\ pc' = "top"
         /\ \A d \in 1 .. depth : frame'[d] = frame[d]
         /\ frame'[depth + 1].who = w
         /\ frame'[depth + 1].exec = (api = "execute")
         /\ frame'[depth + 1].saved = nested_calls
         /\ frame'[depth + 1].need = TRUE /\ frame'[depth + 1].idx = 0
         /\ frame'[depth + 1].cb = None
         /\ frame'[depth + 1].verdict = CONTINUE
  <1> USE ParametersAssumption
  <1>1. depth \in Nat /\ depth + 1 \in Slots
    BY DEF Open, CanOpen, TypeFrames
  <1>2. frame'[depth + 1] = [NoFrame EXCEPT
          !.who = w, !.exec = (api = "execute"), !.saved = nested_calls,
          !.need = TRUE]
    BY <1>1 DEF Open, TypeFrames
  <1>3. \A d \in 1 .. depth : frame'[d] = frame[d]
    BY <1>1 DEF Open, TypeFrames
  <1>4. depth' = depth + 1 /\ pc' = "top"
    BY DEF Open
  <1>5. /\ frame'[depth + 1].who = w
        /\ frame'[depth + 1].exec = (api = "execute")
        /\ frame'[depth + 1].saved = nested_calls
        /\ frame'[depth + 1].need = TRUE /\ frame'[depth + 1].idx = 0
        /\ frame'[depth + 1].cb = None
        /\ frame'[depth + 1].verdict = CONTINUE
    BY <1>2 DEF NoFrame
  <1> QED BY <1>1, <1>3, <1>4, <1>5

(* Closing a loop takes it off the frames.                                 *)
LEMMA CloseFrame ==
  ASSUME Close, TypeFrames, StackShape
  PROVE  /\ depth \in Slots /\ depth' = depth - 1
         /\ \A d \in 1 .. depth - 1 : frame'[d] = frame[d]
         /\ pc' = IF depth = 1 THEN "app" ELSE "logic"
  BY DEF Close, TypeFrames, StackShape

(* nested_calls and its saved copies keep the lengths of the C stack.      *)
LEMMA StackShapeStep ==
  ASSUME TypeStack, TypeFrames, StackShape, Next
  PROVE  StackShape'
  <1> USE ParametersAssumption, PointersAssumption
  <1>1. CASE Aside
    BY <1>1, AsideFrame DEF StackShape, Holds
  <1>2. CASE Round
    <2>1. depth \in 0 .. MaxDepth /\ depth # 0
      BY <1>2 DEF TypeFrames, StackShape, Round, RefreshAll, PollTicks,
         TestTicks, LoadTicks, StoreTicks, CallLogic, NextRound, Input, Return
    <2> QED BY <1>2, <2>1, RoundFrame, RoundKeeps DEF StackShape, Holds
  <1>3. CASE Close
    <2>1. Holds(nested_calls', depth - 1)
      BY <1>3, CloseFrame DEF Close, Popped, StackShape, Holds, TypeStack,
         Nested
    <2>2. depth' = 0 <=> pc' = "app"
      BY <1>3, CloseFrame
    <2> QED BY <1>3, <2>1, <2>2, CloseFrame DEF StackShape, Holds
  <1>4. ASSUME NEW api \in Apis, NEW w \in Loops, Open(api, w)
        PROVE  StackShape'
    <2>1. Holds(nested_calls', depth + 1)
      <3>1. PICK b \in Blocks :
              nested_calls' = [cap |-> IF Full THEN NewCap
                                       ELSE nested_calls.cap,
                               len |-> nested_calls.len + 1, arr |-> b]
        BY <1>4 DEF Open
      <3>2. nested_calls.cap \in Nat /\ nested_calls.len \in Nat
        BY DEF TypeStack, Nested
      <3>3. Full => NewCap >= nested_calls.len + 1
        BY <3>2 DEF Full, NewCap
      <3>4. ~Full => nested_calls.len + 1 <= nested_calls.cap
        BY <3>2 DEF Full, StackShape, Holds
      <3> QED BY <3>1, <3>2, <3>3, <3>4 DEF Holds, StackShape
    <2>2. /\ depth \in Nat /\ depth' = depth + 1 /\ pc' = "top"
          /\ \A d \in 1 .. depth : frame'[d] = frame[d]
          /\ frame'[depth + 1].saved = nested_calls
      BY <1>4, OpenFrame
    <2>3. ASSUME NEW d \in 1 .. depth + 1
          PROVE  Holds(frame'[d].saved, d - 1)
      BY <2>2 DEF StackShape, Holds
    <2> QED BY <2>1, <2>2, <2>3 DEF StackShape, Holds
  <1> QED BY <1>1, <1>2, <1>3, <1>4, Cases

(* Arrays that exist keep mirroring the loops that run, whatever order     *)
(* pushes, growth, restores and the reuse of freed blocks come in.         *)
LEMMA StackContentsStep ==
  ASSUME TypeStack, TypeFrames, StackShape, StackContents, Next
  PROVE  StackContents'
  <1> USE ParametersAssumption, PointersAssumption
  <1>1. CASE Aside
    BY <1>1, AsideFrame DEF StackContents, Mirrors
  <1>2. CASE Round
    <2>1. /\ UNCHANGED <<nested_calls, heap, live, depth>>
          /\ \A d \in Slots : /\ frame'[d].who = frame[d].who
                              /\ frame'[d].saved = frame[d].saved
      BY <1>2, RoundFrame, RoundKeeps
    <2>2. 1 .. depth \subseteq Slots /\ depth \in Nat
      BY DEF TypeFrames
    <2> QED BY <2>1, <2>2 DEF StackContents, Mirrors
  <1>3. CASE Close
    <2>1. /\ depth \in Slots /\ depth' = depth - 1
          /\ \A d \in 1 .. depth - 1 : frame'[d] = frame[d]
          /\ UNCHANGED <<heap, live>>
      BY <1>3, CloseFrame DEF Close
    <2>2. nested_calls'.arr \in {nested_calls.arr, frame[depth].saved.arr}
      BY <1>3 DEF Close, Popped
    <2>3. Mirrors(nested_calls.arr, depth)
          /\ Mirrors(frame[depth].saved.arr, depth - 1)
      BY <2>1 DEF StackContents
    <2>4. Mirrors(nested_calls.arr, depth)'
      BY <2>1, <2>2, <2>3 DEF Mirrors
    <2>5. ASSUME NEW d \in 1 .. depth - 1
          PROVE  Mirrors(frame[d].saved.arr, d - 1)'
      BY <2>1 DEF StackContents, Mirrors
    <2> QED BY <2>1, <2>4, <2>5 DEF StackContents
  <1>4. ASSUME NEW api \in Apis, NEW w \in Loops, Open(api, w)
        PROVE  StackContents'
    <2>1. /\ depth \in Nat /\ depth' = depth + 1 /\ depth + 1 \in Slots
          /\ \A d \in 1 .. depth : frame'[d] = frame[d]
          /\ frame'[depth + 1].saved = nested_calls
          /\ frame'[depth + 1].who = w
      BY <1>4, OpenFrame
    <2>2. PICK b \in Blocks :
            /\ IF Full THEN b \notin live ELSE b = nested_calls.arr
            /\ heap' = [heap EXCEPT ![b] = Pushed(w)]
            /\ live' = (live \ {nested_calls.arr}) \cup {b}
            /\ nested_calls' = [cap |-> IF Full THEN NewCap
                                        ELSE nested_calls.cap,
                                len |-> nested_calls.len + 1, arr |-> b]
      BY <1>4 DEF Open
    <2>3. \A k \in 1 .. depth : heap[nested_calls.arr][k] = frame[k].who
      BY <1>4, <2>1 DEF Open, Dangling, StackContents, StackShape, Mirrors,
         Holds
    <2>4. \A k \in 1 .. depth + 1 : Pushed(w)[k] = frame'[k].who
      BY <2>1, <2>3 DEF Pushed, StackShape, Holds
    <2>5. \A k \in 1 .. depth + 1 : heap'[b][k] = frame'[k].who
      BY <2>2, <2>4 DEF TypeStack
    <2>6. ASSUME NEW arr \in live', NEW len \in 0 .. depth, Mirrors(arr, len)
          PROVE  \A k \in 1 .. len : heap'[arr][k] = frame'[k].who
      <3>1. CASE arr = b
        BY <2>1, <2>5, <3>1
      <3>2. CASE arr # b
        <4>1. arr \in live /\ heap'[arr] = heap[arr]
          BY <2>2, <3>2 DEF TypeStack
        <4> QED BY <2>1, <2>6, <4>1 DEF Mirrors
      <3> QED BY <3>1, <3>2
    <2>7. Mirrors(nested_calls.arr, depth)'
      BY <2>1, <2>2, <2>5 DEF Mirrors
    <2>8. ASSUME NEW d \in 1 .. depth + 1
          PROVE  Mirrors(frame[d].saved.arr, d - 1)'
      <3>1. d - 1 \in 0 .. depth
        BY <2>1
      <3>2. Mirrors(frame'[d].saved.arr, d - 1)
        <4>1. CASE d = depth + 1
          BY <2>1, <4>1 DEF StackContents, Mirrors
        <4>2. CASE d \in 1 .. depth
          BY <2>1, <4>2 DEF StackContents, Mirrors
        <4> QED BY <2>1, <4>1, <4>2
      <3> QED BY <2>6, <3>1, <3>2 DEF Mirrors
    <2> QED BY <2>1, <2>7, <2>8 DEF StackContents
  <1> QED BY <1>1, <1>2, <1>3, <1>4, Cases

-----------------------------------------------------------------------------
(* A signal timer leaves no tick unpaid, a thread none below zero.         *)
LEMMA CountersStep ==
  ASSUME TypeTicks, Counters, Next
  PROVE  Counters'
  <1> USE ParametersAssumption DEF TypeTicks, Counters
  <1>1. CASE Timer
    BY <1>1 DEF Timer, TimerInterrupt, TimerLoad, TimerStore, Pay
  <1>2. CASE TestTicks \/ LoadTicks \/ StoreTicks
    BY <1>2 DEF TestTicks, LoadTicks, StoreTicks, Spend
  <1>3. ASSUME ~Timer, ~(TestTicks \/ LoadTicks \/ StoreTicks)
        PROVE  /\ UNCHANGED tickVars
               /\ pc' = pc \/ pc' \notin {"load", "store"}
    BY <1>3 DEF Next, Client, Machine, Callback, SetDirectVideo,
       SetTicksPerSecond, Open, OpenFails, OpenWild, RefreshAll, RefreshWild,
       PollTicks, Input, CallLogic, CallWild, Return, NextRound,
       Close, Halted, vars
  <1> QED BY <1>1, <1>2, <1>3

(* Used safely, the library owns one set of arrays and never touches       *)
(* memory it does not own.                                                 *)
LEMMA OwnershipStep ==
  ASSUME TypeStack, TypeFrames, StackShape, Ownership, Next
  PROVE  Ownership'
  <1> SUFFICES ASSUME SafeUse
               PROVE  /\ \A d \in 1 .. depth' : ~frame'[d].exec
                      /\ live' = {nested_calls'.arr} \ {None}
                      /\ depth' > 0 => initialized'
                      /\ initialized' => target_bitmap' # None
                      /\ status' # "wild"
    BY DEF Ownership, SafeUse
  <1> USE ParametersAssumption, PointersAssumption DEF Ownership, SafeUse
  <1>1. ~Dangling
    BY DEF Dangling
  <1>2. CASE Aside
    <2> DEFINE Kept == /\ initialized' => target_bitmap' # None
                       /\ initialized' = initialized
                       /\ status' # "wild"
    <2>1. ASSUME Timer \/ SetTicksPerSecond \/ Halted
          PROVE  Kept
      BY <2>1 DEF Timer, TimerInterrupt, TimerLoad, TimerStore,
         SetTicksPerSecond, Halted, vars
    <2>2. ASSUME NEW b \in Toggles, SetDirectVideo(b)
          PROVE  Kept
      BY <2>2 DEF SetDirectVideo, SetupTargetBitmap
    <2>3. ~RefreshWild
      BY <1>1 DEF RefreshWild, StackShape, TypeFrames
    <2>4. ~CallWild
      BY <1>1 DEF CallWild
    <2>5. ASSUME NEW api \in Apis, NEW w \in Loops,
                 OpenFails(api, w) \/ OpenWild(api, w)
          PROVE  Kept
      BY <1>1, <2>5 DEF OpenFails, OpenWild
    <2>6. Kept
      BY <1>2, <2>1, <2>2, <2>3, <2>4, <2>5 DEF Aside
    <2> QED BY <1>2, <2>6, AsideFrame
  <1>3. CASE Round
    <2>1. 1 .. depth \subseteq Slots
      BY DEF TypeFrames
    <2> QED BY <1>3, <2>1, RoundFrame, RoundKeeps
  <1>4. CASE Close
    <2>1. /\ depth \in Slots /\ depth' = depth - 1
          /\ \A d \in 1 .. depth - 1 : frame'[d] = frame[d]
      BY <1>4, CloseFrame
    <2>2. nested_calls'.arr = nested_calls.arr
      BY <1>4, <2>1 DEF Close, Popped, TypeStack, Nested
    <2> QED BY <1>4, <2>1, <2>2 DEF Close
  <1>5. ASSUME NEW api \in Apis, NEW w \in Loops, Open(api, w)
        PROVE  /\ \A d \in 1 .. depth' : ~frame'[d].exec
               /\ live' = {nested_calls'.arr} \ {None}
               /\ initialized' /\ target_bitmap' # None
               /\ status' # "wild"
    <2>1. /\ depth \in Nat /\ depth' = depth + 1
          /\ \A d \in 1 .. depth : frame'[d] = frame[d]
          /\ frame'[depth + 1].exec = (api = "execute")
      BY <1>5, OpenFrame
    <2>2. \A d \in 1 .. depth' : ~frame'[d].exec
      <3>1. (api = "execute") = FALSE
        OBVIOUS
      <3>2. ~frame'[depth + 1].exec
        BY <2>1, <3>1
      <3> QED BY <2>1, <3>2
    <2>3. PICK b \in Blocks :
            /\ IF Full THEN b \notin live ELSE b = nested_calls.arr
            /\ live' = (live \ {nested_calls.arr}) \cup {b}
            /\ nested_calls' = [cap |-> IF Full THEN NewCap
                                        ELSE nested_calls.cap,
                                len |-> nested_calls.len + 1, arr |-> b]
      BY <1>5 DEF Open
    <2>4. live' = {nested_calls'.arr} \ {None}
      BY <2>3
    <2>5. initialized' /\ target_bitmap' # None /\ status' # "wild"
      BY <1>5 DEF Open, CanOpen, SetupTargetBitmap
    <2> QED BY <2>2, <2>4, <2>5
  <1> QED BY <1>2, <1>3, <1>4, <1>5, Cases

-----------------------------------------------------------------------------
(* The rounds of all loops on the stack stay in step with the stack: each   *)
(* call in progress is of the loop its index names, and a verdict to stop   *)
(* is the latest loop's own.                                                *)
LEMMA RoundsStep ==
  ASSUME TypeStack, TypeFrames, StackShape, StackContents, Rounds, Next
  PROVE  Rounds'
  <1> USE ParametersAssumption, PointersAssumption
  <1>1. CASE Aside
    BY <1>1, AsideFrame DEF Rounds, RoundAt
  <1>2. CASE RefreshAll \/ PollTicks \/ TestTicks \/ LoadTicks \/ StoreTicks
    <2>1. Round
      BY <1>2 DEF Round
    <2>2. depth \in Slots
      BY <1>2 DEF StackShape, TypeFrames, RefreshAll, PollTicks, TestTicks,
         LoadTicks, StoreTicks
    <2>3. /\ UNCHANGED <<depth, quit>>
          /\ pc \notin {"call", "logic"} /\ pc' \notin {"call", "logic"}
      BY <1>2 DEF RefreshAll, PollTicks, TestTicks, LoadTicks, StoreTicks
    <2>4. \A d \in Slots :
            /\ frame'[d].who = frame[d].who /\ frame'[d].idx = frame[d].idx
            /\ frame'[d].cb = frame[d].cb
            /\ frame'[d].verdict = frame[d].verdict
      BY <1>2, <2>2 DEF RefreshAll, PollTicks, TestTicks, LoadTicks,
         StoreTicks, TypeFrames, Frame
    <2> QED BY <2>2, <2>3, <2>4 DEF Rounds, RoundAt
  <1>3. ASSUME NEW leave \in BOOLEAN, Input(leave)
        PROVE  Rounds'
    <2>1. depth \in Slots /\ depth' = depth /\ pc = "input" /\ pc' = "call"
      BY <1>3 DEF StackShape, TypeFrames, Input
    <2>2. \A d \in Slots : quit[frame[d].who] /\ frame[d].who \in Loops
                             => quit'[frame[d].who]
      BY <1>3, <2>1 DEF Input, TypeFrames, Frame
    <2>3. /\ frame'[depth].who = frame[depth].who
          /\ frame'[depth].idx = 1 /\ frame'[depth].cb = frame[depth].cb
          /\ frame'[depth].verdict = CONTINUE
          /\ \A d \in 1 .. depth - 1 : frame'[d] = frame[d]
      BY <1>3, <2>1 DEF Input, TypeFrames, Frame
    <2>4. ASSUME NEW d \in 1 .. depth
          PROVE  RoundAt(d)'
      <3>1. CASE d = depth
        BY <2>1, <2>3, <3>1 DEF Rounds, RoundAt
      <3>2. CASE d \in 1 .. depth - 1
        BY <2>1, <2>2, <2>3, <3>2 DEF Rounds, RoundAt
      <3> QED BY <2>1, <3>1, <3>2
    <2> QED BY <2>1, <2>4 DEF Rounds
  <1>4. CASE CallLogic
    <2>1. depth \in Slots /\ depth' = depth /\ pc = "call" /\ pc' = "logic"
          /\ quit' = quit
      BY <1>4 DEF StackShape, TypeFrames, CallLogic
    <2>2. Top.idx \in 1 .. depth
      BY <1>4, <2>1 DEF Rounds, RoundAt, StackShape, Holds, CallLogic
    <2>3. heap[nested_calls.arr][Top.idx] = frame[Top.idx].who
      BY <1>4, <2>1, <2>2 DEF CallLogic, Dangling, StackContents, Mirrors,
         StackShape, Holds
    <2>4. /\ frame'[depth].who = frame[depth].who
          /\ frame'[depth].idx = frame[depth].idx
          /\ frame'[depth].cb = frame[frame[depth].idx].who
          /\ frame'[depth].verdict = frame[depth].verdict
          /\ \A d \in 1 .. depth - 1 : frame'[d] = frame[d]
      BY <1>4, <2>1, <2>3 DEF CallLogic, TypeFrames, Frame
    <2>5. \A d \in 1 .. depth : frame'[d].who = frame[d].who
      BY <2>1, <2>4
    <2>6. ASSUME NEW d \in 1 .. depth
          PROVE  RoundAt(d)'
      <3>1. CASE d = depth
        BY <2>1, <2>2, <2>4, <2>5, <3>1 DEF Rounds, RoundAt
      <3>2. CASE d \in 1 .. depth - 1
        BY <2>1, <2>4, <2>5, <3>2 DEF Rounds, RoundAt
      <3> QED BY <2>1, <3>1, <3>2
    <2> QED BY <2>1, <2>6 DEF Rounds
  <1>5. ASSUME NEW v \in {STOP, CONTINUE, REFRESH}, Return(v)
        PROVE  Rounds'
    <2>1. depth \in Slots /\ depth' = depth /\ pc = "logic" /\ pc' = "call"
      BY <1>5 DEF StackShape, TypeFrames, Return
    <2>2. /\ frame[depth].who \in Loops /\ frame[depth].idx \in 1 .. depth
          /\ frame[depth].cb = frame[frame[depth].idx].who
          /\ frame[depth].verdict # STOP
      BY <2>1 DEF Rounds, RoundAt
    <2>3. /\ frame'[depth].who = frame[depth].who
          /\ frame'[depth].idx = frame[depth].idx + 1
          /\ frame'[depth].cb = None
          /\ frame'[depth].verdict = Verdict(v)
          /\ \A d \in 1 .. depth - 1 : frame'[d] = frame[d]
      BY <1>5, <2>1 DEF Return, TypeFrames, Frame
    <2>4. \A w \in Loops : quit[w] => quit'[w]
      BY <1>5 DEF Return, TypeFrames
    <2>5. Verdict(v) = STOP => v = STOP /\ frame[depth].idx = depth
      BY <2>2 DEF Verdict, StackShape, Holds
    <2>6. v = STOP /\ frame[depth].idx = depth => quit'[frame[depth].who]
      BY <1>5, <2>2 DEF Return, TypeFrames
    <2>7. ASSUME NEW d \in 1 .. depth
          PROVE  RoundAt(d)'
      <3>1. CASE d = depth
        BY <2>1, <2>2, <2>3, <2>5, <2>6, <3>1 DEF RoundAt
      <3>2. CASE d \in 1 .. depth - 1
        <4>1. RoundAt(d)
          BY <2>1, <3>2 DEF Rounds
        <4> QED BY <2>1, <2>3, <2>4, <3>2, <4>1 DEF RoundAt
      <3> QED BY <2>1, <3>1, <3>2
    <2> QED BY <2>1, <2>7 DEF Rounds
  <1>6. CASE NextRound
    <2>1. depth \in Slots /\ depth' = depth /\ pc = "call" /\ pc' = "while"
          /\ quit' = quit
      BY <1>6 DEF StackShape, TypeFrames, NextRound
    <2>2. /\ frame'[depth].who = frame[depth].who /\ frame'[depth].idx = 0
          /\ frame'[depth].cb = frame[depth].cb
          /\ frame'[depth].verdict = CONTINUE
          /\ \A d \in 1 .. depth - 1 : frame'[d] = frame[d]
      BY <1>6, <2>1 DEF NextRound, TypeFrames, Frame
    <2>3. ASSUME NEW d \in 1 .. depth
          PROVE  RoundAt(d)'
      <3>1. CASE d = depth
        BY <2>1, <2>2, <3>1 DEF Rounds, RoundAt
      <3>2. CASE d \in 1 .. depth - 1
        <4>1. RoundAt(d)
          BY <2>1, <3>2 DEF Rounds
        <4> QED BY <2>1, <2>2, <3>2, <4>1 DEF RoundAt
      <3> QED BY <2>1, <3>1, <3>2
    <2> QED BY <2>1, <2>3 DEF Rounds
  <1>7. CASE Close
    <2>1. /\ depth \in Slots /\ depth' = depth - 1 /\ quit' = quit
          /\ \A d \in 1 .. depth - 1 : frame'[d] = frame[d]
          /\ pc' = IF depth = 1 THEN "app" ELSE "logic"
      BY <1>7, CloseFrame DEF Close
    <2>2. ASSUME NEW d \in 1 .. depth - 1
          PROVE  RoundAt(d)'
      <3>1. RoundAt(d)
        BY <2>1 DEF Rounds
      <3>2. frame[d].idx \in 1 .. depth - 1 /\ pc' = "logic"
        BY <2>1, <3>1 DEF RoundAt
      <3> QED BY <2>1, <3>1, <3>2 DEF RoundAt
    <2> QED BY <2>1, <2>2 DEF Rounds
  <1>8. ASSUME NEW api \in Apis, NEW w \in Loops, Open(api, w)
        PROVE  Rounds'
    <2>1. /\ depth \in Nat /\ depth' = depth + 1 /\ pc' = "top"
          /\ \A d \in 1 .. depth : frame'[d] = frame[d]
          /\ frame'[depth + 1].who = w /\ frame'[depth + 1].idx = 0
          /\ frame'[depth + 1].cb = None
          /\ frame'[depth + 1].verdict = CONTINUE
      BY <1>8, OpenFrame
    <2>2. \A d \in 1 .. depth : frame[d].who # w
      BY <1>8 DEF Open, CanOpen, Fresh
    <2>3. \A x \in Loops : x # w => quit'[x] = quit[x]
      BY <1>8 DEF Open, TypeFrames
    <2>4. pc = "logic" \/ depth = 0
      BY <1>8 DEF Open, CanOpen, StackShape
    <2>5. ASSUME NEW d \in 1 .. depth + 1
          PROVE  RoundAt(d)'
      <3>1. CASE d = depth + 1
        BY <2>1, <3>1 DEF RoundAt
      <3>2. CASE d \in 1 .. depth
        <4>1. RoundAt(d)
          BY <3>2 DEF Rounds
        <4>2. /\ frame[d].who \in Loops /\ frame[d].idx \in 1 .. d
              /\ frame[d].cb = frame[frame[d].idx].who
              /\ frame[d].verdict # STOP
          BY <2>1, <2>4, <3>2, <4>1 DEF RoundAt
        <4>3. frame'[d] = frame[d] /\ frame'[frame[d].idx] = frame[frame[d].idx]
          BY <2>1, <3>2, <4>2
        <4> QED BY <2>1, <3>2, <4>2, <4>3 DEF RoundAt
      <3> QED BY <2>1, <3>1, <3>2
    <2> QED BY <2>1, <2>5 DEF Rounds
  <1> QED BY <1>1, <1>2, <1>3, <1>4, <1>5, <1>6, <1>7, <1>8, Cases DEF Round

-----------------------------------------------------------------------------
(* IInv is inductive, so it holds in every behavior.                        *)
THEOREM Invariant == Spec => []IInv
  <1>1. ASSUME IInv, [Next]_vars
        PROVE  IInv'
    <2>1. CASE Next
      BY <1>1, <2>1, TypeLibStep, TypeStackStep, TypeFramesStep,
         TypeTicksStep, TypeHistoryStep, StackShapeStep, StackContentsStep,
         RoundsStep, CountersStep, OwnershipStep DEF IInv, TypeOK
    <2>2. CASE UNCHANGED vars
      BY <1>1, <2>2 DEF IInv, TypeOK, TypeLib, TypeStack, TypeFrames,
         TypeTicks, TypeHistory, StackShape, StackContents, Rounds, RoundAt,
         Holds, Mirrors, Counters, Ownership, vars
    <2> QED BY <1>1, <2>1, <2>2
  <1> QED BY <1>1, InitIInv, PTL DEF Spec

(* Every variable keeps to its range, whichever timer drives the loop.     *)
THEOREM TypeCorrect == Spec => []TypeOK
  <1>1. IInv => TypeOK
    BY DEF IInv
  <1> QED BY <1>1, Invariant, PTL

(* nested_calls describes the C stack, unless the arrays dangle.           *)
THEOREM StackMirrored == Spec => []StackMirrorsCalls
  <1>1. IInv => StackMirrorsCalls
    BY DEF IInv, TypeOK, TypeFrames, StackShape, StackContents,
       StackMirrorsCalls, Holds, Mirrors, Dangling
  <1> QED BY <1>1, Invariant, PTL

(* With a timer that interrupts the loop, every round is paid for.         *)
THEOREM Paid == ASSUME ~TimerIsThread PROVE Spec => []RoundsArePaid
  <1>1. IInv => RoundsArePaid
    BY DEF IInv, TypeOK, TypeTicks, Counters, RoundsArePaid
  <1> QED BY <1>1, Invariant, PTL

(* loop_subexecute alone, with the bitmaps it needs, touches no memory it   *)
(* does not own.                                                            *)
THEOREM MemorySafe == ASSUME SafeUse PROVE Spec => []NoWildAccess
  <1>1. IInv => NoWildAccess
    BY DEF IInv, Ownership, NoWildAccess
  <1> QED BY <1>1, Invariant, PTL

(* Nor does it leak arrays: each that loop_subexecute outgrows is freed.    *)
THEOREM NoLeak == ASSUME SafeUse PROVE Spec => []NoArraysLeak
  <1>1. IInv => NoArraysLeak
    BY DEF IInv, Ownership, NoArraysLeak
  <1> QED BY <1>1, Invariant, PTL

(* A loop ends only after its own logic has answered LOOP_STOP.             *)
THEOREM OwnStop == Spec => ClosedByOwnStop
  <1>1. ASSUME IInv, [Next]_vars
        PROVE  [depth' < depth => quit[Top.who]]_vars
    <2>1. CASE Close
      <3>1. depth \in Slots /\ Top.verdict = STOP
        BY <1>1, <2>1, CloseFrame DEF IInv, TypeOK, Close
      <3>2. RoundAt(depth)
        BY <1>1, <3>1 DEF IInv, Rounds
      <3> QED BY <3>1, <3>2 DEF RoundAt
    <2>2. CASE Aside
      BY <1>1, <2>2, AsideFrame DEF IInv, TypeOK, TypeFrames
    <2>3. CASE Round
      BY <1>1, <2>3, RoundFrame DEF IInv, TypeOK, TypeFrames
    <2>4. ASSUME NEW api \in Apis, NEW w \in Loops, Open(api, w)
          PROVE  ~(depth' < depth)
      <3>1. TypeFrames /\ StackShape
        BY <1>1 DEF IInv, TypeOK
      <3>2. depth \in Nat /\ depth' = depth + 1
        BY <2>4, <3>1, OpenFrame
      <3> QED BY <3>2
    <2> QED BY <1>1, <2>1, <2>2, <2>3, <2>4, Cases
  <1> QED BY <1>1, Invariant, PTL DEF Spec, ClosedByOwnStop

-----------------------------------------------------------------------------
(* Three laws that need more than IInv: where the refreshes go to, what a   *)
(* request to refresh becomes, and which restore makes arrays dangle.  Each *)
(* is proved from an inductive invariant of its own, on top of IInv.        *)

(* Before the first loop there is neither a target nor a bitmap.           *)
Target ==
  /\ TargetFollowsSetting
  /\ ~initialized => target_bitmap = None /\ bitmaps = {}

(* setup_target_bitmap destroys the old bitmap and makes the one asked for. *)
LEMMA SetupFollows ==
  ASSUME NEW direct \in BOOLEAN, SetupTargetBitmap(direct),
         bitmaps = {target_bitmap} \ {Screen, None}
  PROVE  /\ direct <=> target_bitmap' = Screen
         /\ bitmaps' = {target_bitmap'} \ {Screen, None}
  <1> DEFINE kept == IF target_bitmap \in {None, Screen} THEN bitmaps
                     ELSE bitmaps \ {target_bitmap}
  <1>1. kept = {}
    OBVIOUS
  <1>2. \/ direct /\ target_bitmap' = Screen /\ bitmaps' = {}
        \/ ~direct /\ \E b \in Bitmaps : target_bitmap' = b /\ bitmaps' = {b}
        \/ ~direct /\ target_bitmap' = None /\ bitmaps' = {}
    BY <1>1 DEF SetupTargetBitmap
  <1>3. CASE direct /\ target_bitmap' = Screen /\ bitmaps' = {}
    BY <1>3
  <1>4. CASE ~direct /\ \E b \in Bitmaps : target_bitmap' = b /\ bitmaps' = {b}
    BY <1>4, PointersAssumption
  <1>5. CASE ~direct /\ target_bitmap' = None /\ bitmaps' = {}
    BY <1>5, PointersAssumption
  <1> QED BY <1>2, <1>3, <1>4, <1>5

\* Every step keeps the target what the setting asks for.
LEMMA TargetStep ==
  ASSUME IInv, Target, [Next]_vars
  PROVE  Target'
  <1> USE DEF IInv, TypeOK
  <1>1. CASE UNCHANGED vars
    BY <1>1 DEF vars, Target, TargetFollowsSetting
  <1>2. CASE Aside
    <2>1. ASSUME NEW b \in Toggles, SetDirectVideo(b)
          PROVE  Target'
      <3>1. CASE initialized
        <4>1. /\ b \in BOOLEAN /\ SetupTargetBitmap(b)
              /\ direct_video' = b /\ initialized'
          BY <2>1, <3>1, ParametersAssumption DEF SetDirectVideo
        <4> QED BY <3>1, <4>1, SetupFollows DEF Target, TargetFollowsSetting
      <3>2. CASE ~initialized
        BY <2>1, <3>2 DEF SetDirectVideo, Target, TargetFollowsSetting
      <3> QED BY <3>1, <3>2
    <2>2. ASSUME ~(\E b \in Toggles : SetDirectVideo(b))
          PROVE  UNCHANGED libVars
      BY <1>2, <2>2 DEF Aside, Timer, TimerInterrupt, TimerLoad, TimerStore,
         SetTicksPerSecond, RefreshWild, CallWild, Halted, OpenFails,
         OpenWild, vars
    <2> QED BY <2>1, <2>2 DEF Target, TargetFollowsSetting
  <1>3. CASE Round
    BY <1>3, RoundFrame DEF Target, TargetFollowsSetting
  <1>4. CASE Close
    BY <1>4 DEF Close, Target, TargetFollowsSetting
  <1>5. ASSUME NEW api \in Apis, NEW w \in Loops, Open(api, w)
        PROVE  Target'
    <2>1. initialized' /\ direct_video' = direct_video /\ direct_video \in BOOLEAN
      BY <1>5 DEF Open, TypeLib
    <2>2. CASE initialized
      BY <1>5, <2>1, <2>2 DEF Open, Target, TargetFollowsSetting
    <2>3. CASE ~initialized
      <3>1. SetupTargetBitmap(direct_video)
            /\ bitmaps = {target_bitmap} \ {Screen, None}
        BY <1>5, <2>3 DEF Open, Target
      <3> QED BY <2>1, <3>1, SetupFollows DEF Target, TargetFollowsSetting
    <2> QED BY <2>2, <2>3
  <1> QED BY <1>1, <1>2, <1>3, <1>4, <1>5, Cases

(* The refresh target is what the last loop_set_direct_video_refresh asked  *)
(* for, and the only memory bitmap is the one in use.                       *)
THEOREM TargetFollows == Spec => []TargetFollowsSetting
  <1>1. Init => Target
    BY DEF Init, Target, TargetFollowsSetting
  <1>2. IInv /\ Target /\ [Next]_vars => Target'
    BY TargetStep
  <1>3. Target => TargetFollowsSetting
    BY DEF Target
  <1> QED BY <1>1, <1>2, <1>3, Invariant, PTL DEF Spec

-----------------------------------------------------------------------------
(* A request to refresh is in needs_refresh, or still in the verdict of the *)
(* round that asks for it, unless that round stops its loop.                *)
Remembered ==
  stale = "asked" =>
    /\ pc # "app"
    /\ \/ Top.need
       \/ pc \in {"call", "logic"} /\ Top.verdict \in {REFRESH, STOP}

\* Every step keeps a wanted refresh in mind.
LEMMA RememberedStep ==
  ASSUME IInv, Remembered, [Next]_vars
  PROVE  Remembered'
  <1> USE DEF IInv, TypeOK
  <1>1. CASE UNCHANGED vars
    BY <1>1 DEF vars, Remembered
  <1>2. CASE Aside
    BY <1>2, AsideFrame DEF Remembered
  <1>3. CASE Round
    <2>1. depth' = depth /\ pc' # "app" /\ depth \in Slots
      <3>1. depth \in Slots
        BY <1>3 DEF Round, RefreshAll, PollTicks, TestTicks, LoadTicks,
           StoreTicks, CallLogic, NextRound, Input, Return, TypeFrames,
           StackShape
      <3> QED BY <1>3, <3>1, RoundFrame, RoundKeeps
    <2>2. CASE RefreshAll
      BY <2>1, <2>2 DEF RefreshAll, Remembered, TypeFrames, Frame
    <2>3. CASE PollTicks \/ TestTicks \/ LoadTicks \/ StoreTicks
      BY <2>1, <2>3 DEF PollTicks, TestTicks, LoadTicks, StoreTicks, Remembered
    <2>4. CASE CallLogic
      BY <2>1, <2>4 DEF CallLogic, Remembered, TypeFrames, Frame
    <2>5. CASE NextRound
      <3>1. frame'[depth].need = (Top.need \/ Top.verdict = REFRESH)
        BY <2>1, <2>5 DEF NextRound, TypeFrames, Frame
      <3>2. Top.verdict # STOP /\ stale' = stale
        BY <2>5 DEF NextRound
      <3>3. stale = "asked" => Top.need \/ Top.verdict = REFRESH
        BY <3>2 DEF Remembered
      <3>4. stale = "asked" => frame'[depth].need
        BY <3>1, <3>3, Zenon
      <3> QED BY <2>1, <3>2, <3>4 DEF Remembered
    <2>6. ASSUME NEW leave \in BOOLEAN, Input(leave)
          PROVE  Remembered'
      BY <2>1, <2>6 DEF Input, Remembered, TypeFrames, Frame
    <2>7. ASSUME NEW v \in {STOP, CONTINUE, REFRESH}, Return(v)
          PROVE  Remembered'
      <3>1. /\ frame'[depth].need = Top.need
            /\ frame'[depth].verdict = Verdict(v)
            /\ pc = "logic" /\ pc' = "call"
            /\ stale' = IF v = REFRESH THEN "asked" ELSE stale
        BY <2>1, <2>7 DEF Return, TypeFrames, Frame
      <3>2. /\ v = REFRESH => Verdict(v) = REFRESH
            /\ v # REFRESH => Verdict(v) \in {STOP, Top.verdict}
        BY DEF Verdict
      <3> QED BY <2>1, <3>1, <3>2 DEF Remembered
    <2> QED BY <1>3, <2>2, <2>3, <2>4, <2>5, <2>6, <2>7 DEF Round
  <1>4. CASE Close
    BY <1>4 DEF Close, Remembered
  <1>5. ASSUME NEW api \in Apis, NEW w \in Loops, Open(api, w)
        PROVE  Remembered'
    <2>1. pc' = "top" /\ frame'[depth + 1].need = TRUE /\ depth' = depth + 1
      BY <1>5, OpenFrame
    <2>2. frame'[depth'].need
      BY <2>1, Zenon
    <2> QED BY <2>1, <2>2 DEF Remembered
  <1> QED BY <1>1, <1>2, <1>3, <1>4, <1>5, Cases

(* When a loop comes to paint, needs_refresh is set if a logic routine has  *)
(* asked for a refresh since the last one, whichever loop it was asked in   *)
(* and whatever else the routines of that round answered.                   *)
THEOREM RefreshesKept == Spec => []RefreshKept
  <1>1. Init => Remembered
    BY DEF Init, Remembered
  <1>2. IInv /\ Remembered /\ [Next]_vars => Remembered'
    BY RememberedStep
  <1>3. Remembered => RefreshKept
    BY DEF Remembered, RefreshKept
  <1> QED BY <1>1, <1>2, <1>3, Invariant, PTL DEF Spec

-----------------------------------------------------------------------------
(* Of two values of nested_calls, the older has the same arrays or smaller  *)
(* ones.                                                                    *)
Older(m, n) == m.cap < n.cap \/ (m.cap = n.cap /\ m.arr = n.arr)

Ages ==
  \A d \in 1 .. depth :
    /\ Older(frame[d].saved, nested_calls)
    /\ \A e \in d .. depth : Older(frame[d].saved, frame[e].saved)

\* Every step keeps a copy that a loop saved no larger than the arrays are now.
LEMMA AgesStep ==
  ASSUME IInv, Ages, [Next]_vars
  PROVE  Ages'
  <1> USE DEF IInv, TypeOK
  <1>0. depth \in Nat /\ 1 .. depth \subseteq Slots
    BY ParametersAssumption DEF TypeFrames
  <1>1. CASE UNCHANGED vars
    BY <1>1 DEF vars, Ages, Older
  <1>2. CASE Aside
    BY <1>2, AsideFrame DEF Ages, Older
  <1>3. CASE Round
    <2>1. /\ depth' = depth /\ nested_calls' = nested_calls
          /\ \A d \in 1 .. depth : frame'[d].saved = frame[d].saved
      BY <1>0, <1>3, RoundFrame, RoundKeeps
    <2> QED BY <1>0, <2>1 DEF Ages, Older
  <1>4. CASE Close
    <2>1. /\ depth \in Slots /\ depth' = depth - 1 /\ nested_calls' = Popped
          /\ \A d \in 1 .. depth - 1 : frame'[d] = frame[d]
      BY <1>4, CloseFrame DEF Close
    <2>2. \/ nested_calls' = frame[depth].saved
          \/ nested_calls'.cap = nested_calls.cap
             /\ nested_calls'.arr = nested_calls.arr
      BY <2>1 DEF Popped, TypeStack, Nested
    <2>3. \A d \in 1 .. depth - 1 : Older(frame[d].saved, nested_calls')
      BY <1>0, <2>2 DEF Ages, Older
    <2>4. \A d \in 1 .. depth - 1 : \A e \in d .. depth - 1 :
            Older(frame[d].saved, frame[e].saved) /\ frame'[e] = frame[e]
      BY <1>0, <2>1 DEF Ages
    <2> QED BY <1>0, <2>1, <2>3, <2>4 DEF Ages, Older
  <1>5. ASSUME NEW api \in Apis, NEW w \in Loops, Open(api, w)
        PROVE  Ages'
    <2>1. /\ depth' = depth + 1
          /\ \A d \in 1 .. depth : frame'[d] = frame[d]
          /\ frame'[depth + 1].saved = nested_calls
      BY <1>5, OpenFrame
    <2>2. /\ nested_calls.cap \in Nat
          /\ nested_calls'.cap = IF Full THEN NewCap ELSE nested_calls.cap
          /\ ~Full => nested_calls'.arr = nested_calls.arr
      BY <1>5 DEF Open, TypeStack, Nested
    <2>3. NewCap \in Nat /\ nested_calls.cap < NewCap
      <3>1. nested_calls.cap \div 2 \in Nat
        BY <2>2
      <3> QED BY <2>2, <3>1, ParametersAssumption DEF NewCap
    <2>4. Older(nested_calls, nested_calls')
      BY <2>2, <2>3 DEF Older
    <2>5. \A d \in 1 .. depth : frame[d].saved.cap \in Nat
      BY <1>0 DEF TypeFrames, Frame, Nested
    <2>6. \A d \in 1 .. depth : /\ Older(frame[d].saved, nested_calls)
                                /\ Older(frame[d].saved, nested_calls')
      BY <2>2, <2>3, <2>4, <2>5 DEF Ages, Older
    <2>7. ASSUME NEW d \in 1 .. depth + 1
          PROVE  /\ Older(frame'[d].saved, nested_calls')
                 /\ \A e \in d .. depth + 1 :
                      Older(frame'[d].saved, frame'[e].saved)
      <3>1. CASE d = depth + 1
        BY <1>0, <2>1, <2>4, <3>1 DEF Older
      <3>2. CASE d \in 1 .. depth
        <4>1. \A e \in d .. depth : Older(frame[d].saved, frame[e].saved)
          BY <3>2 DEF Ages
        <4>2. \A e \in d .. depth : frame'[e] = frame[e]
          BY <1>0, <2>1, <3>2
        <4> QED BY <1>0, <2>1, <2>6, <3>2, <4>1, <4>2
      <3> QED BY <1>0, <3>1, <3>2
    <2> QED BY <2>1, <2>7 DEF Ages, Older
  <1> QED BY <1>1, <1>2, <1>3, <1>4, <1>5, Cases

(* nested_calls points at freed arrays only after loop_execute has put back *)
(* a copy from before the arrays grew.                                      *)
THEOREM RestoreDangles == Spec => DanglesByRestore
  <1>1. Init => Ages
    BY DEF Init, Ages
  <1>2. IInv /\ Ages /\ [Next]_vars => Ages'
    BY AgesStep
  <1>3. ASSUME IInv, Ages, [Next]_vars
        PROVE  [~Dangling /\ Dangling'
                  => Top.exec /\ Top.saved.cap < nested_calls.cap]_vars
    <2> SUFFICES ASSUME ~Dangling, Dangling', Next
                 PROVE  Top.exec /\ Top.saved.cap < nested_calls.cap
      BY <1>3
    <2> USE <1>3 DEF IInv, TypeOK
    <2>1. CASE Aside
      BY <2>1, AsideFrame DEF Dangling
    <2>2. CASE Round
      BY <2>2, RoundFrame DEF Dangling
    <2>3. CASE Close
      <3>1. depth \in 1 .. depth /\ nested_calls' = Popped /\ live' = live
        BY <2>3, CloseFrame, ParametersAssumption DEF Close
      <3>2. Top.exec
        BY <3>1 DEF Popped, Dangling, TypeStack, Nested
      <3>3. Top.saved.arr # nested_calls.arr
        BY <3>1, <3>2 DEF Popped, Dangling
      <3> QED BY <3>1, <3>2, <3>3 DEF Ages, Older
    <2>4. ASSUME NEW api \in Apis, NEW w \in Loops, Open(api, w)
          PROVE  FALSE
      BY <2>4 DEF Open, Dangling
    <2> QED BY <2>1, <2>2, <2>3, <2>4, Cases
  <1> QED BY <1>1, <1>2, <1>3, Invariant, PTL DEF Spec, DanglesByRestore

HIDE DEF Idle, Overdrawn, InClient, Ends, GuiAbort

-----------------------------------------------------------------------------
(* The refinement mapping, by name.                                        *)

Stack == [d \in 1 .. depth |-> frame[d].who]
Turn(d) == [first  |-> IF frame[d].exec THEN d ELSE 1,
            turn   |-> IF d = depth /\ pc = "input" THEN 1 ELSE frame[d].idx,
            callee |-> frame[d].cb,
            stop   |-> frame[d].verdict = STOP]
Calls == [d \in 1 .. depth |-> Turn(d)]

\* The loops and their calls, read off the frames of the C stack.
LEMMA Mapped ==
  ASSUME TypeFrames
  PROVE  /\ depth \in Nat /\ Len(Stack) = depth /\ Len(Calls) = depth
         /\ (Stack = <<>>) <=> (depth = 0)
         /\ \A d \in 1 .. depth : /\ Stack[d] = frame[d].who
                                  /\ Calls[d] = Turn(d)
  <1>1. depth \in Nat
    BY ParametersAssumption DEF TypeFrames
  <1>2. Len(Stack) = depth
    BY <1>1 DEF Stack
  <1>3. Len(Calls) = depth
    BY <1>1 DEF Calls
  <1>4. (Stack = <<>>) <=> (depth = 0)
    BY <1>1, <1>2 DEF Stack
  <1> QED BY <1>1, <1>2, <1>3, <1>4 DEF Stack, Calls

(* A step of the latest loop changes its own turn only.                    *)
LEMMA MappedRound ==
  ASSUME Round, TypeFrames, StackShape
  PROVE  /\ depth \in Slots /\ Stack' = Stack
         /\ Calls' = [Calls EXCEPT ![depth] =
              [first  |-> IF frame[depth].exec THEN depth ELSE 1,
               turn   |-> IF pc' = "input" THEN 1 ELSE frame'[depth].idx,
               callee |-> frame'[depth].cb,
               stop   |-> frame'[depth].verdict = STOP]]
  <1>1. /\ depth' = depth /\ \A d \in Slots \ {depth} : frame'[d] = frame[d]
    BY RoundFrame
  <1>2. \A d \in Slots : frame'[d].who = frame[d].who /\ frame'[d].exec = frame[d].exec
    BY RoundKeeps
  <1>3. depth \in Slots
    BY DEF Round, RefreshAll, PollTicks, TestTicks, LoadTicks, StoreTicks,
       CallLogic, NextRound, Input, Return, TypeFrames, StackShape
  <1>4. 1 .. depth \subseteq Slots
    BY <1>3, ParametersAssumption
  <1>5. Stack' = Stack
    BY <1>1, <1>2, <1>4 DEF Stack
  <1> DEFINE New == [first  |-> IF frame[depth].exec THEN depth ELSE 1,
                     turn   |-> IF pc' = "input" THEN 1 ELSE frame'[depth].idx,
                     callee |-> frame'[depth].cb,
                     stop   |-> frame'[depth].verdict = STOP]
  <1>6. Calls' = [Calls EXCEPT ![depth] = New]
    <2>1. Calls' = [d \in 1 .. depth |-> Turn(d)']
      BY <1>1 DEF Calls
    <2>2. [Calls EXCEPT ![depth] = New]
            = [d \in 1 .. depth |-> IF d = depth THEN New ELSE Turn(d)]
      BY DEF Calls
    <2>3. ASSUME NEW d \in 1 .. depth
          PROVE  Turn(d)' = IF d = depth THEN New ELSE Turn(d)
      <3>1. CASE d = depth
        BY <1>1, <1>2, <1>3, <3>1 DEF Turn
      <3>2. CASE d # depth
        <4>1. frame'[d] = frame[d] /\ depth' = depth
          BY <1>1, <1>4, <3>2
        <4> QED BY <3>2, <4>1 DEF Turn
      <3> QED BY <3>1, <3>2
    <2> HIDE DEF New
    <2> QED BY <2>1, <2>2, <2>3
  <1> QED BY <1>3, <1>5, <1>6

-----------------------------------------------------------------------------
(* The contract's actions, in terms of the mapping.                        *)

\* Opening a loop is a step of the contract.
LEMMA Opens ==
  ASSUME NEW w \in Loops,
         Stack = <<>> \/ Calls[Len(Stack)].callee # None,
         \A k \in 1 .. Len(Stack) : Stack[k] # w,
         Stack' = Append(Stack, w),
         NEW first \in {1, Len(Stack) + 1},
         Calls' = Append(Calls, [first |-> first, turn |-> 0, callee |-> None,
                                 stop |-> FALSE])
  PROVE  Contract!Next
  BY DEF Contract!Next, Contract!Execute, Contract!Subexecute, Contract!Open,
     Contract!Latest, Contract!Busy, Contract!Rest, Stack, Calls, Turn

\* So is the start of a round,
LEMMA Begins ==
  ASSUME Stack # <<>>, Calls[Len(Stack)].turn = 0, Stack' = Stack,
         Calls' = [Calls EXCEPT ![Len(Stack)].turn = Calls[Len(Stack)].first]
  PROVE  Contract!Next
  BY DEF Contract!Next, Contract!Begin, Contract!Latest, Stack, Calls, Turn

\* the call of a routine,
LEMMA CallsLogic ==
  ASSUME Stack # <<>>, Calls[Len(Stack)].callee = None, Stack' = Stack,
         Calls[Len(Stack)].turn \in 1 .. Len(Stack),
         Calls' = [Calls EXCEPT ![Len(Stack)].callee =
                     Stack[Calls[Len(Stack)].turn]]
  PROVE  Contract!Next
  BY DEF Contract!Next, Contract!Call, Contract!Latest, Contract!Busy,
     Stack, Calls, Turn

\* its return,
LEMMA Returns ==
  ASSUME NEW stop \in BOOLEAN,
         Stack # <<>>, Calls[Len(Stack)].callee # None, Stack' = Stack,
         Calls' = [Calls EXCEPT ![Len(Stack)] =
                     [first  |-> @.first,
                      turn   |-> @.turn + 1,
                      callee |-> None,
                      stop   |-> stop /\ @.turn = Len(Stack)]]
  PROVE  Contract!Next
  BY DEF Contract!Next, Contract!Return, Contract!Latest, Contract!Busy,
     Stack, Calls, Turn

\* the next round,
LEMMA RunsAgain ==
  ASSUME Stack # <<>>, Calls[Len(Stack)].turn = Len(Stack) + 1,
         ~Calls[Len(Stack)].stop, Stack' = Stack,
         Calls' = [Calls EXCEPT ![Len(Stack)] =
                     [first |-> @.first, turn |-> 0, callee |-> None, stop |-> FALSE]]
  PROVE  Contract!Next
  BY DEF Contract!Next, Contract!Again, Contract!Finished, Contract!Latest,
     Contract!Rest, Stack, Calls, Turn

\* and the end of a loop.
LEMMA Closes ==
  ASSUME Stack # <<>>, Calls[Len(Stack)].turn = Len(Stack) + 1,
         Calls[Len(Stack)].stop,
         Stack' = SubSeq(Stack, 1, Len(Stack) - 1),
         Calls' = SubSeq(Calls, 1, Len(Stack) - 1)
  PROVE  Contract!Next
  BY DEF Contract!Next, Contract!Close, Contract!Finished, Contract!Latest,
     Stack, Calls, Turn

-----------------------------------------------------------------------------
(* Steps aside, and the loop's own book-keeping, are nothing to it.        *)
LEMMA Stutters ==
  ASSUME IInv, Aside \/ RefreshAll \/ PollTicks \/ TestTicks \/ LoadTicks
  PROVE  UNCHANGED <<Stack, Calls>>
  <1> USE DEF IInv, TypeOK
  <1>1. CASE Aside
    BY <1>1, AsideFrame DEF Stack, Calls, Turn
  <1>2. CASE RefreshAll \/ PollTicks \/ TestTicks \/ LoadTicks
    <2>1. Round /\ pc # "input" /\ pc' # "input"
      BY <1>2 DEF Round, RefreshAll, PollTicks, TestTicks, LoadTicks
    <2>2. /\ depth \in 1 .. depth /\ Stack' = Stack
          /\ Calls' = [Calls EXCEPT ![depth] =
               [first  |-> IF frame[depth].exec THEN depth ELSE 1,
                turn   |-> frame'[depth].idx,
                callee |-> frame'[depth].cb,
                stop   |-> frame'[depth].verdict = STOP]]
      BY <2>1, MappedRound, ParametersAssumption
    <2>3. /\ frame'[depth].idx = frame[depth].idx
          /\ frame'[depth].cb = frame[depth].cb
          /\ frame'[depth].verdict = frame[depth].verdict
      BY <1>2, <2>1, MappedRound, ZenonT(60) DEF RefreshAll, PollTicks, TestTicks,
         LoadTicks, TypeFrames, Frame
    <2>4. Calls[depth] = [first  |-> IF frame[depth].exec THEN depth ELSE 1,
                          turn   |-> frame'[depth].idx,
                          callee |-> frame'[depth].cb,
                          stop   |-> frame'[depth].verdict = STOP]
      BY <2>1, <2>2, <2>3 DEF Calls, Turn
    <2>5. Calls' = Calls
      BY <2>2, <2>4 DEF Calls
    <2> QED BY <2>2, <2>5
  <1> QED BY <1>1, <1>2

(* What a round's step finds and leaves, for the actions of a round.       *)
LEMMA OfRound ==
  ASSUME IInv, Round
  PROVE  /\ depth \in Slots /\ depth \in 1 .. depth
         /\ Stack # <<>> /\ Len(Stack) = depth /\ Stack' = Stack
         /\ Calls[depth] =
              [first  |-> IF frame[depth].exec THEN depth ELSE 1,
               turn   |-> IF pc = "input" THEN 1 ELSE frame[depth].idx,
               callee |-> frame[depth].cb,
               stop   |-> frame[depth].verdict = STOP]
         /\ Calls' = [Calls EXCEPT ![depth] =
              [first  |-> IF frame[depth].exec THEN depth ELSE 1,
               turn   |-> IF pc' = "input" THEN 1 ELSE frame'[depth].idx,
               callee |-> frame'[depth].cb,
               stop   |-> frame'[depth].verdict = STOP]]
         /\ RoundAt(depth)
  <1> USE DEF IInv, TypeOK
  <1>1. depth \in Slots /\ depth \in 1 .. depth
    BY MappedRound, ParametersAssumption
  <1> QED BY <1>1, Mapped, MappedRound DEF Turn, Rounds

\* One lemma for each step of the loop: the contract allows it.
LEMMA StoreBegins ==
  ASSUME IInv, StoreTicks, ~NestedExecute
  PROVE  Contract!Next
  <1>1. Round /\ pc = "store" /\ pc' = "input" /\ frame' = frame
    BY DEF Round, StoreTicks
  <1>2. /\ frame[depth].idx = 0 /\ frame[depth].cb = None
        /\ frame[depth].verdict = CONTINUE
    BY <1>1, OfRound DEF RoundAt
  <1>3. (IF frame[depth].exec THEN depth ELSE 1) = 1
    <2>1. frame[depth].exec => depth \notin 2 .. depth
      BY DEF NestedExecute
    <2>2. depth \in 1 .. depth /\ depth \in Nat
      BY <1>1, OfRound, ParametersAssumption
    <2> QED BY <2>1, <2>2
  <1> DEFINE Come(i) == [first |-> 1, turn |-> i, callee |-> None, stop |-> FALSE]
  <1>4. Calls[depth] = Come(0)
    <2>1. (frame[depth].verdict = STOP) = FALSE
      BY <1>2
    <2> QED BY <1>1, <1>2, <1>3, <2>1, OfRound
  <1>5. Calls' = [Calls EXCEPT ![depth] = Come(1)]
    <2>1. (frame'[depth].verdict = STOP) = FALSE
      BY <1>1, <1>2
    <2> QED BY <1>1, <1>2, <1>3, <2>1, OfRound
  <1>6. Calls' = [Calls EXCEPT ![depth].turn = Calls[depth].first]
    <2>1. [Calls[depth] EXCEPT !.turn = 1] = Come(1)
      <3>1. \A n, f : LET c == [first |-> 1, turn |-> 0, callee |-> n, stop |-> f]
                      IN  [c EXCEPT !.turn = 1] =
                            [first |-> 1, turn |-> 1, callee |-> n, stop |-> f]
        OBVIOUS
      <3> QED BY <1>4, <3>1
    <2>2. Calls[depth].first = 1
      BY <1>4
    <2> QED BY <1>5, <2>1, <2>2
  <1>7. Calls[depth].turn = 0
    BY <1>4
  <1> HIDE DEF At
  <1> QED BY <1>1, <1>6, <1>7, OfRound, Begins

\* Reading the input is nothing to the contract.
LEMMA InputStutters ==
  ASSUME IInv, NEW leave \in BOOLEAN, Input(leave)
  PROVE  UNCHANGED <<Stack, Calls>>
  <1>1. Round /\ pc = "input" /\ pc' = "call"
    BY DEF Round, Input
  <1>2. /\ frame'[depth].idx = 1 /\ frame'[depth].cb = frame[depth].cb
        /\ frame'[depth].verdict = CONTINUE /\ frame[depth].verdict = CONTINUE
    BY <1>1, OfRound DEF RoundAt, Input, IInv, TypeOK, TypeFrames, Frame
  <1>3. Calls' = [Calls EXCEPT ![depth] = Calls[depth]]
    BY <1>1, <1>2, OfRound
  <1>4. Calls' = Calls
    BY <1>3, OfRound DEF Calls
  <1> QED BY <1>1, <1>4, OfRound

\* The call of the next routine.
LEMMA CallCalls ==
  ASSUME IInv, CallLogic
  PROVE  Contract!Next
  <1> USE DEF IInv, TypeOK
  <1>1. Round /\ pc = "call" /\ pc' = "logic"
    BY DEF Round, CallLogic
  <1>2. frame[depth].idx \in 1 .. depth /\ frame[depth].cb = None
    BY <1>1, OfRound DEF RoundAt, StackShape, Holds, CallLogic
  <1>3. frame'[depth].cb = frame[frame[depth].idx].who
    BY <1>1, <1>2, OfRound DEF CallLogic, Dangling, StackContents, Mirrors,
       StackShape, Holds, TypeFrames, Frame
  <1>4. /\ frame'[depth].idx = frame[depth].idx
        /\ frame'[depth].verdict = frame[depth].verdict
    BY <1>1, OfRound DEF CallLogic, TypeFrames, Frame
  <1>5. /\ Calls[depth].turn = frame[depth].idx /\ Calls[depth].callee = None
        /\ Stack[frame[depth].idx] = frame'[depth].cb
    BY <1>1, <1>2, <1>3, OfRound, Mapped
  <1>6. [Calls[depth] EXCEPT !.callee = frame'[depth].cb]
          = [first  |-> IF frame[depth].exec THEN depth ELSE 1,
             turn   |-> frame[depth].idx,
             callee |-> frame'[depth].cb,
             stop   |-> frame[depth].verdict = STOP]
    BY <1>1, OfRound
  <1>7. Calls' = [Calls EXCEPT ![depth].callee = frame'[depth].cb]
    BY <1>1, <1>4, <1>6, OfRound
  <1> QED BY <1>1, <1>2, <1>5, <1>7, OfRound, CallsLogic, ZenonT(60)

\* A routine's verdict.
LEMMA ReturnReturns ==
  ASSUME IInv, NEW v \in {STOP, CONTINUE, REFRESH}, Return(v)
  PROVE  Contract!Next
  <1> USE DEF IInv, TypeOK
  <1>1. Round /\ pc = "logic" /\ pc' = "call"
    BY DEF Round, Return
  <1>2. /\ frame[depth].idx \in 1 .. depth /\ frame[depth].cb # None
        /\ frame[depth].verdict # STOP
    <2>1. /\ frame[depth].idx \in 1 .. depth
          /\ frame[depth].cb = frame[frame[depth].idx].who
          /\ frame[depth].verdict # STOP
      BY <1>1, OfRound DEF RoundAt
    <2>2. frame[frame[depth].idx].who \in Loops
      BY <2>1 DEF Rounds, RoundAt
    <2> QED BY <2>1, <2>2, PointersAssumption
  <1>3. /\ frame'[depth].idx = frame[depth].idx + 1
        /\ frame'[depth].cb = None
        /\ frame'[depth].verdict = Verdict(v)
    BY <1>1, OfRound DEF Return, TypeFrames, Frame
  <1>4. (Verdict(v) = STOP) = (v = STOP /\ frame[depth].idx = depth)
    BY <1>2 DEF Verdict, StackShape, Holds
  <1>5. Calls[depth].turn = frame[depth].idx /\ Calls[depth].callee # None
    BY <1>1, <1>2, OfRound
  <1>6. Calls' = [Calls EXCEPT ![depth] =
                    [first  |-> @.first,
                     turn   |-> @.turn + 1,
                     callee |-> None,
                     stop   |-> v = STOP /\ @.turn = depth]]
    BY <1>1, <1>3, <1>4, <1>5, OfRound
  <1>7. (v = STOP) \in BOOLEAN
    OBVIOUS
  <1> QED BY <1>1, <1>5, <1>6, <1>7, OfRound, Returns

\* The end of a round that does not stop the loop.
LEMMA NextRoundAgain ==
  ASSUME IInv, NextRound
  PROVE  Contract!Next
  <1> USE DEF IInv, TypeOK
  <1>1. Round /\ pc = "call" /\ pc' = "while"
    BY DEF Round, NextRound
  <1>2. /\ frame[depth].idx = depth + 1 /\ frame[depth].cb = None
        /\ frame[depth].verdict # STOP
    BY <1>1, OfRound DEF RoundAt, StackShape, Holds, NextRound
  <1>3. /\ frame'[depth].idx = 0 /\ frame'[depth].cb = None
        /\ (frame'[depth].verdict = STOP) = FALSE
    BY <1>1, <1>2, OfRound DEF NextRound, TypeFrames, Frame
  <1>4. Calls[depth].turn = depth + 1 /\ ~Calls[depth].stop
    <2>1. Calls[depth].turn = depth + 1
          /\ Calls[depth].stop = (frame[depth].verdict = STOP)
      BY <1>1, <1>2, OfRound
    <2> QED BY <1>2, <2>1, Zenon
  <1>5. Calls' = [Calls EXCEPT ![depth] =
                    [first |-> @.first, turn |-> 0, callee |-> None, stop |-> FALSE]]
    <2>1. Calls[depth].first = IF frame[depth].exec THEN depth ELSE 1
      BY <1>1, OfRound
    <2>2. Calls' = [Calls EXCEPT ![depth] =
                      [first |-> Calls[depth].first, turn |-> 0, callee |-> None,
                       stop |-> FALSE]]
      BY <1>1, <1>3, <2>1, OfRound
    <2> QED BY <2>2
  <1> QED BY <1>1, <1>4, <1>5, OfRound, RunsAgain

\* The end of one that does.
LEMMA CloseCloses ==
  ASSUME IInv, Close
  PROVE  Contract!Next
  <1> USE DEF IInv, TypeOK
  <1>1. /\ depth \in Slots /\ depth \in 1 .. depth /\ depth' = depth - 1
        /\ \A d \in 1 .. depth - 1 : frame'[d] = frame[d]
        /\ pc = "call" /\ pc' # "input"
    BY CloseFrame, ParametersAssumption DEF Close
  <1>2. frame[depth].idx = depth + 1 /\ frame[depth].verdict = STOP
    BY <1>1 DEF Rounds, RoundAt, StackShape, Holds, Close
  <1>3. Stack # <<>> /\ Len(Stack) = depth /\ Len(Calls) = depth
    BY <1>1, Mapped
  <1>4. Calls[depth].turn = Len(Stack) + 1 /\ Calls[depth].stop
    <2>1. Calls[depth].turn = Len(Stack) + 1
          /\ Calls[depth].stop = (frame[depth].verdict = STOP)
      BY <1>1, <1>2, <1>3, Mapped DEF Turn
    <2> QED BY <1>2, <2>1, Zenon
  <1>5. Stack' = SubSeq(Stack, 1, depth - 1)
    BY <1>1, <1>3 DEF Stack
  <1>6. Calls' = SubSeq(Calls, 1, depth - 1)
    <2>1. \A d \in 1 .. depth - 1 : Turn(d)' = Turn(d)
      BY <1>1 DEF Turn
    <2>2. Calls' = [d \in 1 .. depth - 1 |-> Turn(d)']
      BY <1>1 DEF Calls
    <2>3. SubSeq(Calls, 1, depth - 1) = [d \in 1 .. depth - 1 |-> Turn(d)]
      BY <1>1, <1>3 DEF Calls
    <2> QED BY <2>1, <2>2, <2>3
  <1> QED BY <1>3, <1>4, <1>5, <1>6, Closes

\* A loop opened by the program or by a routine.
LEMMA OpenOpens ==
  ASSUME IInv, NEW api \in Apis, NEW w \in Loops, Open(api, w)
  PROVE  Contract!Next
  <1> USE DEF IInv, TypeOK
  <1>1. /\ depth \in Nat /\ depth' = depth + 1 /\ pc' = "top"
        /\ \A d \in 1 .. depth : frame'[d] = frame[d]
        /\ frame'[depth + 1].who = w /\ frame'[depth + 1].idx = 0
        /\ frame'[depth + 1].cb = None
        /\ frame'[depth + 1].verdict = CONTINUE
        /\ frame'[depth + 1].exec = (api = "execute")
    BY OpenFrame
  <1>2. pc \in {"app", "logic"} /\ \A d \in 1 .. depth : frame[d].who # w
    BY DEF Open, CanOpen, InClient, Fresh
  <1>3. Len(Stack) = depth /\ Len(Calls) = depth
        /\ \A d \in 1 .. depth : Stack[d] = frame[d].who /\ Calls[d] = Turn(d)
    BY Mapped
  <1>4. Stack = <<>> \/ Calls[Len(Stack)].callee # None
    <2>1. CASE pc = "app"
      BY <2>1, Mapped DEF StackShape
    <2>2. CASE pc = "logic"
      <3>1. depth \in 1 .. depth
        BY <1>1, <2>2 DEF StackShape
      <3>2. frame[depth].idx \in 1 .. depth
            /\ frame[depth].cb = frame[frame[depth].idx].who
        BY <2>2, <3>1 DEF Rounds, RoundAt
      <3>3. frame[depth].cb # None
        BY <3>2, PointersAssumption DEF Rounds, RoundAt
      <3> QED BY <1>3, <3>1, <3>3 DEF Turn
    <2> QED BY <1>2, <2>1, <2>2
  <1>5. Stack' = Append(Stack, w)
    BY <1>1, <1>3 DEF Stack
  <1> DEFINE first == IF api = "execute" THEN depth + 1 ELSE 1
             Resting == [first |-> first, turn |-> 0, callee |-> None, stop |-> FALSE]
  <1>6. Calls' = Append(Calls, Resting)
    <2>1. Calls' = [d \in 1 .. depth + 1 |-> Turn(d)']
      BY <1>1 DEF Calls
    <2>2. \A d \in 1 .. depth : Turn(d)' = Calls[d]
      BY <1>1, <1>2, <1>3 DEF Turn
    <2>3. ASSUME NEW d, d = depth + 1
          PROVE  Turn(d)' = Resting
      <3>1. (frame'[depth + 1].verdict = STOP) = FALSE
        BY <1>1
      <3> QED BY <1>1, <2>3, <3>1 DEF Turn
    <2>4. Append(Calls, Resting)
            = [d \in 1 .. depth + 1 |-> IF d = depth + 1 THEN Resting ELSE Calls[d]]
      <3> HIDE DEF Resting
      <3>1. \A x : Append(Calls, x) =
               [d \in 1 .. depth + 1 |-> IF d = depth + 1 THEN x ELSE Calls[d]]
        BY <1>1, <1>3 DEF Calls
      <3> QED BY <3>1
    <2>5. \A d \in 1 .. depth + 1 :
            Turn(d)' = IF d = depth + 1 THEN Resting ELSE Calls[d]
      BY <1>1, <2>2, <2>3
    <2> HIDE DEF Resting
    <2>6. Calls' = Append(Calls, Resting)
      BY <2>1, <2>4, <2>5
    <2> QED BY <2>6
  <1>7. first \in {1, Len(Stack) + 1}
    BY <1>3
  <1> HIDE DEF first
  <1> QED BY <1>2, <1>3, <1>4, <1>5, <1>6, <1>7, Opens

-----------------------------------------------------------------------------
(* The loops keep the contract of loop.h, however many of them nest, how    *)
(* the arrays grow or dangle, and whatever the timer does: who is called,   *)
(* in which order, and what ends a loop (loop_subexecute, logic_all).  It   *)
(* is said of the outermost loop_execute and of every loop_subexecute, and  *)
(* not while a loop_execute inside another loop runs, whose rounds call the *)
(* loops around it against loop.h:59-61.                                   *)
THEOREM Implements == Spec => KeepsContract
  <1>1. Init => Stack = <<>> /\ Calls = <<>>
    BY DEF Init, Stack, Calls
  <1>2. Init => Contract!Init
    BY <1>1 DEF Contract!Init, Stack, Calls, Turn
  <1>3. ASSUME IInv, [Next]_vars
        PROVE  Contract!Next \/ NestedExecute \/ UNCHANGED <<Stack, Calls>>
    <2>1. CASE Aside \/ RefreshAll \/ PollTicks \/ TestTicks \/ LoadTicks
      BY <1>3, <2>1, Stutters
    <2>2. CASE UNCHANGED vars
      BY <2>2 DEF vars, Stack, Calls, Turn
    <2> QED BY <1>3, <2>1, <2>2, Cases, StoreBegins, InputStutters, CallCalls,
               ReturnReturns, NextRoundAgain, CloseCloses, OpenOpens DEF Round
  <1>4. ASSUME IInv, [Next]_vars
        PROVE  [Contract!Next \/ NestedExecute]_Contract!vars
    <2>1. CASE Contract!Next \/ NestedExecute
      BY <2>1
    <2>2. CASE Stack' = Stack /\ Calls' = Calls
      <3>1. UNCHANGED Contract!vars
        BY <2>2, Zenon DEF Stack, Calls, Turn, Contract!vars
      <3> QED BY <3>1
    <2> QED BY <1>3, <1>4, <2>1, <2>2
  <1> QED BY <1>2, <1>4, Invariant, PTL DEF Spec, KeepsContract
=============================================================================
