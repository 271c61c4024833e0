------------------------------ MODULE GameLoop ------------------------------
(***************************************************************************)
(* The game loop of the GUI program, src/gui/loop.c: a timer counts ticks, *)
(* loop_subexecute spends them on rounds of input and logic callbacks, and *)
(* a logic callback may itself call loop_execute or loop_subexecute, which *)
(* runs a further loop on the C stack before the callback returns.  The    *)
(* library keeps the callbacks of every running loop in three parallel     *)
(* heap arrays (nested_calls); one block stands here for the three, which  *)
(* are always allocated, copied and freed together.                        *)
(*                                                                         *)
(* The loop is one thread; the timer callback inc_ticks interrupts it      *)
(* (TimerIsThread = FALSE, Allegro's signal driven timer) or runs beside   *)
(* it (TRUE, Allegro's thread driven timer).  Neither ++ticks nor --ticks  *)
(* is atomic, so each is a load and a store.                               *)
(***************************************************************************)
EXTENDS Integers

CONSTANTS
  Loops,          \* the clients' loops: a state object with its callbacks
  Apis,           \* entry points the clients use, of "execute", "subexecute"
  Toggles,        \* values passed to loop_set_direct_video_refresh
  Failures,       \* calls that may fail, of "malloc", "timer", "bitmap"
  Blocks,         \* addresses malloc returns for the callback arrays
  Bitmaps,        \* memory bitmaps create_bitmap returns
  Screen,         \* Allegro's screen bitmap
  None,           \* the null pointer, and "no loop"
  GrowBy,         \* the 4 of cap + cap / 2 + 4
  TimerIsThread,  \* does inc_ticks run beside the loop, or interrupt it?
  MaxDepth,       \* bound: loops nested on the C stack
  MaxTicks        \* bound: ticks pending at once

ASSUME ParametersAssumption ==
  /\ Apis \subseteq {"execute", "subexecute"}
  /\ Toggles \subseteq BOOLEAN
  /\ Failures \subseteq {"malloc", "timer", "bitmap"}
  /\ TimerIsThread \in BOOLEAN
  /\ GrowBy \in Nat \ {0} /\ MaxDepth \in Nat \ {0} /\ MaxTicks \in Nat \ {0}

ASSUME PointersAssumption ==
  /\ None \notin Loops \cup Blocks \cup Bitmaps
  /\ Screen \notin Bitmaps \cup {None}

VARIABLES
  initialized,    \* static bool initialized
  direct_video,   \* static int direct_video
  target_bitmap,  \* static BITMAP *target_bitmap
  bitmaps,        \* the memory bitmaps created and not destroyed
  nested_calls,   \* static Nested nested_calls: cap, len, arr
  heap,           \* the contents of each block
  live,           \* the blocks allocated and not freed
  frame,          \* the activations of loop_subexecute, outermost first
  depth,          \* how many of them are on the C stack
  pc,             \* where the innermost one is ("app": none runs)
  quit,           \* has this loop's state decided to stop?
  ticks,          \* static volatile int ticks
  reg,            \* the loop's copy of ticks, between load and store
  isr,            \* the timer thread's copy, or Idle
  owed,           \* history: timer periods not yet spent on a round
  stale,          \* history: a refresh was asked for and not yet painted
  status          \* "running", "aborted" (exit) or "wild" (bad access)

libVars   == <<initialized, direct_video, target_bitmap, bitmaps>>
stackVars == <<nested_calls, heap, live>>
tickVars  == <<ticks, reg, isr, owed>>
loopVars  == <<libVars, stackVars, frame, depth, quit>>
vars == <<loopVars, pc, tickVars, stale, status>>

STOP     == "LOOP_STOP"
CONTINUE == "LOOP_CONTINUE"
REFRESH  == "LOOP_REFRESH"

Slots == 1 .. MaxDepth
Idle  == -1
NoNested == [cap |-> 0, len |-> 0, arr |-> None]
NoFrame  == [who |-> None, exec |-> FALSE, saved |-> NoNested, need |-> FALSE,
             idx |-> 0, cb |-> None, verdict |-> CONTINUE]

Top == frame[depth]

(* The callback arrays were freed while nested_calls still points at them. *)
Dangling == nested_calls.arr # None /\ nested_calls.arr \notin live

(* Only client code calls the library: the application between loops, or a *)
(* logic callback.                                                         *)
InClient == status = "running" /\ pc \in {"app", "logic"}

At(label) == status = "running" /\ pc = label

Init ==
  /\ initialized = FALSE /\ direct_video = FALSE
  /\ target_bitmap = None /\ bitmaps = {}
  /\ nested_calls = NoNested
  /\ heap = [b \in Blocks |-> [k \in Slots |-> None]] /\ live = {}
  /\ frame = [d \in Slots |-> NoFrame] /\ depth = 0 /\ pc = "app"
  /\ quit = [w \in Loops |-> FALSE]
  /\ ticks = 0 /\ reg = 0 /\ isr = Idle /\ owed = 0
  /\ stale = "fresh" /\ status = "running"

-----------------------------------------------------------------------------
(* The timer: inc_ticks, installed by the first loop that runs.            *)

(* owed counts the periods not yet spent, up to MaxTicks; a round that no   *)
(* period paid for makes it Overdrawn for good.                            *)
Overdrawn == -1
Pay(n)    == IF n \in {Overdrawn, MaxTicks} THEN n ELSE n + 1
Spend(n)  == IF n = Overdrawn THEN n ELSE n - 1

TimerInterrupt ==
  /\ ~TimerIsThread /\ status = "running" /\ initialized
  /\ ticks < MaxTicks
  /\ ticks' = ticks + 1
  /\ owed' = Pay(owed)
  /\ UNCHANGED <<loopVars, pc, reg, isr, stale, status>>

TimerLoad ==
  /\ TimerIsThread /\ status = "running" /\ initialized
  /\ isr = Idle /\ ticks < MaxTicks
  /\ isr' = ticks
  /\ UNCHANGED <<loopVars, pc, ticks, reg, owed, stale, status>>

TimerStore ==
  /\ status = "running" /\ isr # Idle
  /\ ticks' = isr + 1
  /\ isr' = Idle
  /\ owed' = Pay(owed)
  /\ UNCHANGED <<loopVars, pc, reg, stale, status>>

-----------------------------------------------------------------------------
(* Calls a client makes.                                                   *)

(* Mutant: the old memory bitmap is never destroyed.                       *)
SetupTargetLeaks(direct) ==
  \/ direct /\ target_bitmap' = Screen /\ UNCHANGED bitmaps
  \/ /\ ~direct
     /\ \E b \in Bitmaps \ bitmaps :
          target_bitmap' = b /\ bitmaps' = bitmaps \cup {b}

(* setup_target_bitmap: the old memory bitmap is destroyed, the screen is  *)
(* not; the result of create_bitmap is not checked.                        *)
SetupTargetBitmap(direct) ==
  LET kept == IF target_bitmap \in {None, Screen} THEN bitmaps
              ELSE bitmaps \ {target_bitmap}
  IN \/ /\ direct
        /\ target_bitmap' = Screen /\ bitmaps' = kept
     \/ /\ ~direct
        /\ \E b \in Bitmaps \ kept :
             target_bitmap' = b /\ bitmaps' = kept \cup {b}
     \/ /\ ~direct /\ "bitmap" \in Failures
        /\ target_bitmap' = None /\ bitmaps' = kept

SetDirectVideo(b) ==
  /\ InClient
  /\ direct_video' = b
  /\ IF initialized THEN SetupTargetBitmap(b)
     ELSE UNCHANGED <<target_bitmap, bitmaps>>
  /\ UNCHANGED <<initialized, stackVars, frame, depth, pc, quit, tickVars,
                 stale, status>>

(* The end of the program: gui_abort found no memory or no timer, or a bad *)
(* access leaves what follows undefined.                                   *)
Ends(how) ==
  status' = how /\ UNCHANGED <<loopVars, pc, tickVars, stale>>

GuiAbort == Ends("aborted")

SetTicksPerSecond ==
  /\ InClient /\ initialized
  /\ "timer" \in Failures
  /\ GuiAbort

Fresh(w) == \A d \in 1 .. depth : frame[d].who # w

CanOpen(api, w) == InClient /\ depth < MaxDepth /\ api \in Apis /\ Fresh(w)

Full == nested_calls.len = nested_calls.cap

(* ncap: the capacity of the arrays that replace full ones.                *)
NewCap == nested_calls.cap + nested_calls.cap \div 2 + GrowBy

(* Mutant: the old entries are not copied into the new arrays.             *)
PushedUncopied(w) ==
  [k \in Slots |-> CASE k = nested_calls.len + 1 -> w
                     [] k <= nested_calls.len /\ ~Full
                          -> heap[nested_calls.arr][k]
                     [] OTHER -> None]

(* The arrays after the push, copied first when they were full.            *)
Pushed(w) ==
  [k \in Slots |-> CASE k <= nested_calls.len -> heap[nested_calls.arr][k]
                     [] k = nested_calls.len + 1 -> w
                     [] OTHER -> None]

(* loop_subexecute up to its do loop; loop_execute first saves             *)
(* nested_calls, to restore it when the loop has stopped.                  *)
Open(api, w) ==
  /\ CanOpen(api, w) /\ ~Dangling
  /\ initialized' = TRUE
  /\ IF initialized THEN UNCHANGED <<target_bitmap, bitmaps>>
     ELSE SetupTargetBitmap(direct_video)
  /\ \E b \in Blocks :
       /\ IF Full THEN b \notin live ELSE b = nested_calls.arr
       /\ heap' = [heap EXCEPT ![b] = Pushed(w)]
       /\ live' = (live \ {nested_calls.arr}) \cup {b}
       /\ nested_calls' = [cap |-> IF Full THEN NewCap ELSE nested_calls.cap,
                           len |-> nested_calls.len + 1,
                           arr |-> b]
  /\ frame' = [frame EXCEPT ![depth + 1] =
                 [NoFrame EXCEPT !.who = w, !.exec = (api = "execute"),
                                 !.saved = nested_calls, !.need = TRUE]]
  /\ depth' = depth + 1
  /\ pc' = "top"
  /\ quit' = [quit EXCEPT ![w] = FALSE]
  /\ UNCHANGED <<direct_video, tickVars, stale, status>>

OpenFails(api, w) ==
  /\ CanOpen(api, w)
  /\ \/ ~initialized /\ "timer" \in Failures
     \/ Full /\ ("malloc" \in Failures \/ Blocks \subseteq live)
  /\ GuiAbort

(* The push reads, writes or frees arrays that were freed before.          *)
OpenWild(api, w) ==
  /\ CanOpen(api, w) /\ Dangling
  /\ Ends("wild")

-----------------------------------------------------------------------------
(* The do loop of the innermost loop_subexecute.                           *)

Goto(label) == pc' = label

(* refresh_all and the copy to the screen, when a refresh is needed.       *)
RefreshAll ==
  /\ At("top")
  /\ Top.need => ~Dangling /\ target_bitmap # None
  /\ frame' = [frame EXCEPT ![depth].need = FALSE]
  /\ stale' = IF Top.need THEN "fresh" ELSE stale
  /\ Goto("poll")
  /\ UNCHANGED <<libVars, stackVars, depth, quit, tickVars, status>>

RefreshWild ==
  /\ At("top") /\ Top.need
  /\ Dangling \/ target_bitmap = None
  /\ Ends("wild")

(* if (ticks) ... else rest (1)                                            *)
PollTicks ==
  /\ At("poll")
  /\ Goto(IF ticks # 0 THEN "while" ELSE "top")
  /\ UNCHANGED <<loopVars, tickVars, stale, status>>

(* Mutant: while (ticks >= 0).                                             *)
TestTicksAtZero ==
  /\ At("while")
  /\ Goto(IF ticks >= 0 THEN "load" ELSE "top")
  /\ UNCHANGED <<loopVars, tickVars, stale, status>>

(* while (ticks > 0 && rv != LOOP_STOP)                                    *)
TestTicks ==
  /\ At("while")
  /\ Goto(IF ticks > 0 THEN "load" ELSE "top")
  /\ UNCHANGED <<loopVars, tickVars, stale, status>>

(* --ticks, a load and a store.                                            *)
LoadTicks ==
  /\ At("load")
  /\ reg' = ticks
  /\ Goto("store")
  /\ UNCHANGED <<loopVars, ticks, isr, owed, stale, status>>

StoreTicks ==
  /\ At("store")
  /\ ticks' = reg - 1
  /\ reg' = 0
  /\ owed' = Spend(owed)
  /\ Goto("input")
  /\ UNCHANGED <<loopVars, isr, stale, status>>

(* input (state), then logic_all starts: the player may ask to leave.      *)
Input(leave) ==
  /\ At("input")
  /\ quit' = [quit EXCEPT ![Top.who] = @ \/ leave]
  /\ frame' = [frame EXCEPT ![depth].idx = 1, ![depth].verdict = CONTINUE]
  /\ Goto("call")
  /\ UNCHANGED <<libVars, stackVars, depth, tickVars, stale, status>>

(* a_logic[i] (a_state[i]): the call, and its return with the verdict v.   *)
CallLogic ==
  /\ At("call") /\ ~Dangling
  /\ Top.idx <= nested_calls.len
  /\ frame' = [frame EXCEPT ![depth].cb = heap[nested_calls.arr][Top.idx]]
  /\ Goto("logic")
  /\ UNCHANGED <<libVars, stackVars, depth, quit, tickVars, stale, status>>

CallWild ==
  /\ At("call") /\ Dangling
  /\ Top.idx <= nested_calls.len
  /\ Ends("wild")

(* Mutants: the last answer wins; any LOOP_STOP counts; the latest loop is *)
(* looked for one entry too early.                                         *)
VerdictOfLast(v) ==
  IF v = STOP /\ Top.idx # nested_calls.len THEN Top.verdict ELSE v

VerdictOfAny(v) == IF v \in {STOP, REFRESH} THEN v ELSE Top.verdict

VerdictTooEarly(v) ==
  CASE v = REFRESH -> REFRESH
    [] v = STOP /\ Top.idx = nested_calls.len - 1 -> STOP
    [] OTHER -> Top.verdict

(* The switch of logic_all: only the latest loop's LOOP_STOP counts.       *)
Verdict(v) ==
  CASE v = REFRESH -> REFRESH
    [] v = STOP /\ Top.idx = nested_calls.len -> STOP
    [] OTHER -> Top.verdict

Return(v) ==
  /\ At("logic")
  /\ quit[Top.cb] => v = STOP
  /\ quit' = [quit EXCEPT ![Top.cb] = @ \/ v = STOP]
  /\ stale' = IF v = REFRESH THEN "asked" ELSE stale
  /\ frame' = [frame EXCEPT ![depth].verdict = Verdict(v),
                            ![depth].idx = @ + 1, ![depth].cb = None]
  /\ Goto("call")
  /\ UNCHANGED <<libVars, stackVars, depth, tickVars, status>>

(* logic_all has returned and the loop goes on.                            *)
NextRound ==
  /\ At("call")
  /\ Top.idx > nested_calls.len /\ Top.verdict # STOP
  /\ frame' = [frame EXCEPT ![depth].need = @ \/ Top.verdict = REFRESH,
                            ![depth].idx = 0, ![depth].verdict = CONTINUE]
  /\ Goto("while")
  /\ UNCHANGED <<libVars, stackVars, depth, quit, tickVars, stale, status>>

(* Mutants: both entry points restore; loop_execute restores before the    *)
(* pop.                                                                    *)
PoppedRestored == Top.saved

PoppedTwice ==
  [(IF Top.exec THEN Top.saved ELSE nested_calls) EXCEPT !.len = @ - 1]

(* What nested_calls is when the innermost loop has returned.              *)
Popped == IF Top.exec THEN Top.saved
          ELSE [nested_calls EXCEPT !.len = @ - 1]

(* logic_all has returned LOOP_STOP: back in the callback that opened the  *)
(* loop, or in the application.                                            *)
Close ==
  /\ At("call")
  /\ Top.idx > nested_calls.len /\ Top.verdict = STOP
  /\ nested_calls' = Popped
  /\ frame' = [frame EXCEPT ![depth] = NoFrame]
  /\ depth' = depth - 1
  /\ Goto(IF depth = 1 THEN "app" ELSE "logic")
  /\ stale' = IF stale = "asked" THEN "orphan" ELSE stale
  /\ UNCHANGED <<libVars, heap, live, quit, tickVars, status>>

(* The process has ended.                                                  *)
Halted == status # "running" /\ UNCHANGED vars

-----------------------------------------------------------------------------
Timer == TimerInterrupt \/ TimerLoad \/ TimerStore

Client ==
  \/ \E b \in Toggles : SetDirectVideo(b)
  \/ SetTicksPerSecond
  \/ \E api \in Apis, w \in Loops :
       Open(api, w) \/ OpenFails(api, w) \/ OpenWild(api, w)

(* The steps the loop takes by itself.                                     *)
Machine ==
  \/ RefreshAll \/ RefreshWild \/ PollTicks \/ TestTicks
  \/ LoadTicks \/ StoreTicks \/ CallLogic \/ CallWild \/ NextRound \/ Close

Callback ==
  \/ \E leave \in BOOLEAN : Input(leave)
  \/ \E v \in {STOP, CONTINUE, REFRESH} : Return(v)

Next == Timer \/ Client \/ Machine \/ Callback \/ Halted

Spec == Init /\ [][Next]_vars

(* The timer keeps ticking, the loop keeps running, input returns, and a    *)
(* logic callback opens finitely many loops before it returns.              *)
Fairness ==
  /\ WF_vars(TimerInterrupt) /\ WF_vars(TimerLoad) /\ WF_vars(TimerStore)
  /\ WF_vars(Machine)
  /\ WF_vars(\E leave \in BOOLEAN : Input(leave))
  /\ \A d \in Slots :
       SF_vars(depth = d /\ \E v \in {STOP, CONTINUE, REFRESH} : Return(v))

FairSpec == Spec /\ Fairness

-----------------------------------------------------------------------------
(* Properties.                                                             *)

Nested == [cap : Nat, len : Nat, arr : Blocks \cup {None}]

Frame ==
  [who : Loops \cup {None}, exec : BOOLEAN, saved : Nested, need : BOOLEAN,
   idx : Nat, cb : Loops \cup {None}, verdict : {STOP, CONTINUE, REFRESH}]

TypeLib ==
  /\ initialized \in BOOLEAN /\ direct_video \in BOOLEAN
  /\ target_bitmap \in Bitmaps \cup {Screen, None} /\ bitmaps \subseteq Bitmaps

TypeStack ==
  /\ nested_calls \in Nested
  /\ heap \in [Blocks -> [Slots -> Loops \cup {None}]] /\ live \subseteq Blocks

TypeFrames ==
  /\ frame \in [Slots -> Frame] /\ depth \in 0 .. MaxDepth
  /\ quit \in [Loops -> BOOLEAN]
  /\ pc \in {"app", "top", "poll", "while", "load", "store", "input", "call",
             "logic"}

TypeTicks ==
  /\ ticks \in 0 .. MaxTicks /\ reg \in 0 .. MaxTicks
  /\ isr \in Idle .. MaxTicks - 1 /\ owed \in Overdrawn .. MaxTicks

TypeHistory ==
  /\ stale \in {"fresh", "asked", "orphan"}
  /\ status \in {"running", "aborted", "wild"}

(* Every variable stays in its range; in particular the tick counter is    *)
(* never negative, so while (ticks > 0) and if (ticks) agree.              *)
TypeOK == TypeLib /\ TypeStack /\ TypeFrames /\ TypeTicks /\ TypeHistory

(* nested_calls describes the loops on the C stack: as many entries, within *)
(* the arrays, the outermost loop first, wherever pushes, growth of the arrays *)
(* and the restore of loop_execute have left it, unless the arrays dangle.  *)
StackMirrorsCalls ==
  status = "running" /\ ~Dangling =>
    /\ nested_calls.len = depth /\ depth <= nested_calls.cap
    /\ \A k \in 1 .. depth : heap[nested_calls.arr][k] = frame[k].who

(* The library never uses freed callback arrays nor a missing bitmap.  It   *)
(* holds for loop_subexecute, and for loop_execute while nesting stays      *)
(* within the first arrays; loop.h lets loops nest without such a limit.    *)
NoWildAccess == status # "wild"

(* Arrays that nested_calls lost dangle only because loop_execute restored  *)
(* a copy made before the loops inside it replaced them by larger ones.     *)
DanglesByRestore ==
  [][~Dangling /\ Dangling' => Top.exec /\ Top.saved.cap < nested_calls.cap]_vars

(* Loops opened by loop_subexecute leave no arrays behind: at most the ones *)
(* nested_calls points at are allocated.                                    *)
NoArraysLeak == live = {nested_calls.arr} \ {None}

(* Every round of input and logic is paid for by a timer period of its own. *)
(* A signal that strikes inside --ticks may lose a period, never add one.   *)
RoundsArePaid == owed # Overdrawn

(* The refresh target is what the last loop_set_direct_video_refresh asked  *)
(* for, whether it came before the first loop or during one, and the only   *)
(* memory bitmap that exists is the one in use.                             *)
TargetFollowsSetting ==
  initialized =>
    /\ direct_video <=> target_bitmap = Screen
    /\ bitmaps = {target_bitmap} \ {Screen, None}

(* A refresh some logic routine asked for is not forgotten: before the next *)
(* chance to paint, needs_refresh is set, unless the loop it was asked in   *)
(* stopped first.                                                           *)
RefreshKept == At("top") /\ stale = "asked" => Top.need

(* A loop ends only after its own logic routine has answered LOOP_STOP;     *)
(* the answers of the loops around it never end it.                         *)
ClosedByOwnStop == [][depth' < depth => quit[Top.who]]_vars

(* The player does not stay for ever in a loop that runs again and again.   *)
PlayerLeaves == \A d \in Slots : SF_vars(depth = d /\ Input(TRUE))

(* A loop whose logic has decided to stop returns to its caller, however    *)
(* many loops its callbacks open first, as long as the player leaves those. *)
QuitClosesLoop ==
  PlayerLeaves =>
    \A d \in Slots :
      depth = d /\ quit[Top.who] ~> depth < d \/ status # "running"

(* A refresh that was asked for is painted, or its loop stops, if the loop  *)
(* catches up with the timer again and again, so that it sees the counter   *)
(* at zero; while ticks keep coming it starves.                             *)
RefreshAfterLull ==
  []<><<TestTicks /\ ticks = 0>>_vars => (stale = "asked" ~> stale # "asked")

(* The loops keep the contract of loop.h about who is called, in which      *)
(* order, and what ends a loop, on top of the arrays, the timer and the     *)
(* step by step logic_all, except while a loop runs that loop_execute       *)
(* opened inside another: its rounds call the loops around it too, which    *)
(* loop.h:59-61 reserves to loop_subexecute.                                *)
Contract == INSTANCE LoopContract WITH
  stack <- [d \in 1 .. depth |-> frame[d].who],
  round <- [d \in 1 .. depth |->
              [first  |-> IF frame[d].exec THEN d ELSE 1,
               turn   |-> IF d = depth /\ pc = "input" THEN 1 ELSE frame[d].idx,
               callee |-> frame[d].cb,
               stop   |-> frame[d].verdict = STOP]]

NestedExecute == \E d \in 2 .. depth : frame[d].exec

KeepsContract == Contract!Init /\ [][Contract!Next \/ NestedExecute]_Contract!vars

-----------------------------------------------------------------------------
(* The inductive invariant behind the properties, in named parts.          *)

(* nested_calls, and each copy loop_execute saved, has the length of the   *)
(* C stack it belongs to, and arrays to hold it.                           *)
Holds(n, len) == n.len = len /\ len <= n.cap /\ (len > 0 => n.arr # None)

StackShape ==
  /\ depth = 0 <=> pc = "app"
  /\ Holds(nested_calls, depth)
  /\ \A d \in 1 .. depth : Holds(frame[d].saved, d - 1)

(* Arrays that still exist hold the loops that ran when they were saved.   *)
Mirrors(arr, len) ==
  arr \in live => \A k \in 1 .. len : heap[arr][k] = frame[k].who

StackContents ==
  /\ Mirrors(nested_calls.arr, depth)
  /\ \A d \in 1 .. depth : Mirrors(frame[d].saved.arr, d - 1)

(* Where the round of the loop at depth d has come to.                     *)
RoundAt(d) ==
  /\ frame[d].who \in Loops
  /\ d < depth \/ pc = "logic" =>
       /\ frame[d].idx \in 1 .. d
       /\ frame[d].cb = frame[frame[d].idx].who
  /\ d = depth /\ pc # "logic" => frame[d].cb = None
  /\ d = depth /\ pc = "call" => frame[d].idx \in 1 .. d + 1
  /\ d = depth /\ pc \notin {"call", "logic"} =>
       frame[d].idx = 0 /\ frame[d].verdict = CONTINUE
  /\ frame[d].verdict = STOP => frame[d].idx = d + 1 /\ quit[frame[d].who]

Rounds == \A d \in 1 .. depth : RoundAt(d)

Counters ==
  /\ pc = "load" => ticks >= 1
  /\ pc = "store" => reg >= 1
  /\ ~TimerIsThread =>
       isr = Idle /\ ticks <= owed /\ (pc = "store" => reg <= ticks)

(* How the library is used when no array is ever outdated: loops are opened *)
(* by loop_subexecute only, and the memory bitmap can be had.               *)
SafeUse == "execute" \notin Apis /\ "bitmap" \notin Failures

Ownership ==
  SafeUse =>
    /\ \A d \in 1 .. depth : ~frame[d].exec
    /\ live = {nested_calls.arr} \ {None}
    /\ depth > 0 => initialized
    /\ initialized => target_bitmap # None
    /\ status # "wild"

IInv ==
  TypeOK /\ StackShape /\ StackContents /\ Rounds /\ Counters /\ Ownership
=============================================================================
