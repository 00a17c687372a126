------------------------------- MODULE RunLoop -------------------------------
(***************************************************************************)
(* CFRunLoop (CFRunLoop.c): the loop of one secondary thread, the threads  *)
(* that post blocks, signal its sources, stop it and wake it up, and the   *)
(* libdispatch timers of its time limits.                                  *)
(*                                                                         *)
(* A thread runs its loop in a mode; a callout may run it again, in that   *)
(* mode or another.  The runs form a stack and each has its own per-run    *)
(* data.  The loop holds its lock except around callouts and in mach_msg,  *)
(* so an action of the loop is one locked segment, and "at" names the      *)
(* unlocked place the run is in:                                           *)
(*   entry, top      observers of the entry; before timers and sources     *)
(*   blocks1..3      the three calls of __CFRunLoopDoBlocks                *)
(*   sources         __CFRunLoopDoSources0                                 *)
(*   wait, woken     observers called before waiting, and mach_msg; back   *)
(*                   from it, without the lock yet                         *)
(*   after           observers called after waiting                        *)
(*   source1         __CFRunLoopDoSource1, which is to call the source     *)
(*   performed, exit back from that call; observers of the exit            *)
(*                                                                         *)
(* The modes hold no timers, observers run no nested loop, and the version *)
(* 1 source stays valid.                                                   *)
(***************************************************************************)
EXTENDS Integers, Sequences, FiniteSets

CONSTANTS Modes, Base,  \* the modes, and the one the outermost run is in
          Clients,      \* threads that use the loop
          Sources,      \* version 0 sources: in every mode of the loop
          PortModes,    \* modes that hold the version 1 source
          OnceModes,    \* modes run with returnAfterSourceHandled
          Calls,        \* calls the clients make
          BlockModes,   \* sets of modes that blocks are posted for
          Limits,       \* time limits of the runs; one that never passes is none
          MaxRuns,      \* bound: runs of the loop
          MaxCalls      \* bound: calls of the clients

ASSUME RunLoopAssumption == /\ Base \in Modes /\ PortModes \cup OnceModes \subseteq Modes
                            /\ BlockModes \subseteq (SUBSET Modes) \ {{}}
                            /\ Limits \subseteq {"instant", "timed"}
                            /\ {MaxRuns, MaxCalls} \subseteq Nat

VARIABLES stack,            \* the runs, innermost last
          blocks,           \* _blocks_head.._blocks_tail
          signaled, valid,  \* version 0 sources that are signaled, and valid
          members,          \* version 0 sources that the modes hold
          modeStopped,      \* _stopped of each mode
          wakeUpPort, port1,\* message in _wakeUpPort; messages to the version 1 source
          timer,            \* state of each run's timeout source
          passed, term,     \* the limit has passed; termTSR is 0
          runs, calls,      \* runs and calls so far
          todo              \* per client

sources == <<signaled, valid, members>>
timeout == <<timer, passed, term>>
ports == <<wakeUpPort, port1>>
loopVars == <<stack, blocks, sources, modeStopped, ports, timeout, runs, calls, todo>>

Runs == 1..MaxRuns
Top == stack[Len(stack)]
Set(f) == stack' = [stack EXCEPT ![Len(stack)] = f]
BlockPlace(n) == <<"blocks1", "blocks2", "blocks3">>[n]
Places == {"entry", "top", "sources", "wait", "woken", "after",
           "source1", "performed", "exit"} \cup {BlockPlace(n) : n \in 1..3}
Block == [id : 1..MaxCalls, modes : SUBSET Modes]

LoopInit == /\ stack = <<>> /\ blocks = <<>>
            /\ signaled = {} /\ valid = Sources /\ members = Sources
            /\ modeStopped = [m \in Modes |-> FALSE]
            /\ wakeUpPort = FALSE /\ port1 = 0
            /\ timer = [r \in Runs |-> "none"]
            /\ passed = [r \in Runs |-> FALSE] /\ term = [r \in Runs |-> FALSE]
            /\ runs = 0 /\ calls = 0
            /\ todo = [c \in Clients |-> "idle"]

(***************************************************************************)
(* A run begins and ends                                                   *)
(***************************************************************************)
Eligible(b, m) == m \in b.modes
ModeIsEmpty(m, pending) ==
    /\ members = {} /\ m \notin PortModes
    /\ \A i \in 1..Len(pending) : ~Eligible(pending[i], m)

\* CFRunLoopRunSpecific, with its thread's runs at st.
PushRun(st, m) ==
    /\ runs < MaxRuns /\ ~ModeIsEmpty(m, blocks)
    /\ runs' = runs + 1
    /\ \E l \in Limits :
           stack' = Append(st, [run |-> runs + 1, mode |-> m, limit |-> l, at |-> "entry",
                                stopped |-> FALSE, ignore |-> FALSE, robbed |-> FALSE,
                                handled |-> FALSE, poll |-> FALSE, live |-> "none",
                                list |-> <<>>, kept |-> <<>>, coll |-> {}])

Start == /\ stack = <<>> /\ PushRun(<<>>, Base)
         /\ UNCHANGED <<blocks, sources, modeStopped, ports, timeout, calls, todo>>

\* The next iteration of the loop.
Iterate(f) == [f EXCEPT !.ignore = FALSE, !.at = "top", !.handled = FALSE,
                        !.poll = FALSE, !.live = "none", !.robbed = FALSE]

\* __CFRunLoopRun returns at once if the run or its mode has been stopped.
Begin ==
    /\ stack # <<>> /\ Top.at = "entry"
    /\ IF Top.stopped \/ modeStopped[Top.mode]
       THEN /\ Set([Top EXCEPT !.stopped = FALSE, !.at = "exit"])
            /\ modeStopped' = [modeStopped EXCEPT ![Top.mode] = @ /\ Top.stopped]
            /\ UNCHANGED timeout
       ELSE /\ Set(Iterate(Top))
            /\ term' = [term EXCEPT ![Top.run] = Top.limit = "instant"]
            /\ passed' = [passed EXCEPT ![Top.run] = Top.limit = "instant"]
            /\ timer' = [timer EXCEPT ![Top.run] = IF Top.limit = "timed" THEN "armed"
                                                                           ELSE "none"]
            /\ UNCHANGED modeStopped
    /\ UNCHANGED <<blocks, sources, ports, runs, calls, todo>>

Pop == /\ stack # <<>> /\ Top.at = "exit"
       /\ stack' = SubSeq(stack, 1, Len(stack) - 1)
       /\ passed' = [passed EXCEPT ![Top.run] = FALSE]
       /\ term' = [term EXCEPT ![Top.run] = FALSE]
       /\ UNCHANGED <<blocks, sources, modeStopped, ports, timer, runs, calls, todo>>

\* The end of an iteration, with the blocks that are pending.
Ends(f, pending) == \/ f.handled /\ f.mode \in OnceModes
                    \/ passed[f.run] \/ f.stopped \/ modeStopped[f.mode]
                    \/ ModeIsEmpty(f.mode, pending)
TakesStop(f) == ~(f.handled /\ f.mode \in OnceModes) /\ ~passed[f.run]
EndIteration(f, pending) ==
    IF Ends(f, pending)
    THEN LET s == TakesStop(f) /\ f.stopped IN
         /\ Set([Iterate(f) EXCEPT !.stopped = @ /\ ~s, !.ignore = TRUE, !.at = "exit"])
         /\ modeStopped' = [modeStopped EXCEPT ![f.mode] = @ /\ (s \/ ~TakesStop(f))]
         /\ timer' = [timer EXCEPT ![f.run] = IF @ = "wake" THEN @ ELSE "none"]
    ELSE Set(Iterate(f)) /\ UNCHANGED <<modeStopped, timer>>

(***************************************************************************)
(* Blocks and version 0 sources                                            *)
(***************************************************************************)
BeforeWaiting(f) ==
    [f EXCEPT !.poll = f.handled \/ term[f.run], !.at = "wait"]

Collected == {s \in members : s \in signaled /\ s \in valid}
CollectSources0(f) == IF Collected = {} THEN BeforeWaiting(f)
                      ELSE [f EXCEPT !.coll = Collected, !.at = "sources"]

\* What follows the nth call of DoBlocks in the same locked segment.
Continue(f, n, pending) ==
    CASE n = 1 -> Set(CollectSources0(f)) /\ UNCHANGED <<modeStopped, timer>>
      [] n = 2 -> Set(BeforeWaiting(f)) /\ UNCHANGED <<modeStopped, timer>>
      [] n = 3 -> EndIteration(f, pending)

DoBlocks(f, n) == \/ /\ blocks = <<>> /\ Continue(f, n, <<>>)
                     /\ UNCHANGED blocks
                  \/ /\ blocks # <<>> /\ blocks' = <<>>
                     /\ Set([f EXCEPT !.list = blocks, !.at = BlockPlace(n)])
                     /\ UNCHANGED <<modeStopped, timer>>

\* A callout made by the run, which now is f: it returns, or it runs the loop.
\* (robbed is history: that run may take the wakeups meant for f, and f has been
\* through its blocks before.)
Callout(f) ==
    \/ Set(f) /\ UNCHANGED runs
    \/ LET g == [f EXCEPT !.robbed = f.at = "blocks1"]
       IN \E m \in Modes : PushRun([stack EXCEPT ![Len(stack)] = g], m)

BeforeSources == /\ stack # <<>> /\ Top.at = "top" /\ DoBlocks(Top, 1)
                 /\ UNCHANGED <<sources, ports, passed, term, runs, calls, todo>>

\* The next block that may run in the mode; those before it are kept.
RunBlock(n) ==
    /\ stack # <<>> /\ Top.at = BlockPlace(n)
    /\ \E i \in 1..Len(Top.list) :
           /\ Eligible(Top.list[i], Top.mode)
           /\ \A j \in 1..i - 1 : ~Eligible(Top.list[j], Top.mode)
           /\ Callout([Top EXCEPT !.kept = @ \o SubSeq(Top.list, 1, i - 1),
                                  !.list = SubSeq(@, i + 1, Len(@))])
    /\ UNCHANGED <<blocks, sources, modeStopped, ports, timeout, calls, todo>>

\* (Variant: the blocks that were kept are appended.)
AppendBack(n) ==
    /\ stack # <<>> /\ Top.at = BlockPlace(n)
    /\ \A i \in 1..Len(Top.list) : ~Eligible(Top.list[i], Top.mode)
    /\ blocks' = blocks \o Top.kept \o Top.list
    /\ Continue([Top EXCEPT !.list = <<>>, !.kept = <<>>], n, blocks')
    /\ UNCHANGED <<sources, ports, passed, term, runs, calls, todo>>

\* The blocks that were kept go back before those posted meanwhile.
PutBack(n) ==
    /\ stack # <<>> /\ Top.at = BlockPlace(n)
    /\ \A i \in 1..Len(Top.list) : ~Eligible(Top.list[i], Top.mode)
    /\ blocks' = Top.kept \o Top.list \o blocks
    /\ Continue([Top EXCEPT !.list = <<>>, !.kept = <<>>], n, blocks')
    /\ UNCHANGED <<sources, ports, passed, term, runs, calls, todo>>

\* A collected source is performed if it still is signaled, and valid.
Source0 ==
    /\ stack # <<>> /\ Top.at = "sources"
    /\ \E s \in Top.coll :
           LET rest == [Top EXCEPT !.coll = @ \ {s}] IN
           /\ signaled' = signaled \ {s}
           /\ IF s \in signaled /\ s \in valid
              THEN Callout([rest EXCEPT !.handled = TRUE,
                                        !.coll = IF Top.mode \in OnceModes THEN {} ELSE @])
              ELSE Set(rest) /\ UNCHANGED runs
    /\ UNCHANGED <<blocks, valid, members, modeStopped, ports, timeout, calls, todo>>

AfterSources0 ==
    /\ stack # <<>> /\ Top.at = "sources" /\ Top.coll = {}
    /\ IF Top.handled THEN DoBlocks(Top, 2)
       ELSE Set(BeforeWaiting(Top)) /\ UNCHANGED <<blocks, modeStopped, timer>>
    /\ UNCHANGED <<sources, ports, passed, term, runs, calls, todo>>

(***************************************************************************)
(* Waiting, and what a message is for                                      *)
(***************************************************************************)
\* mach_msg on the port set of the mode.
Live == (IF wakeUpPort THEN {"wakeup"} ELSE {})
           \cup (IF port1 > 0 /\ Top.mode \in PortModes THEN {"source1"} ELSE {})
ServiceMachPort ==
    /\ stack # <<>> /\ Top.at = "wait"
    /\ \/ /\ Top.poll /\ Live = {}
          /\ Set([Top EXCEPT !.at = "woken"]) /\ UNCHANGED ports
       \/ \E l \in Live :
             /\ Set([Top EXCEPT !.live = l, !.at = "woken"])
             /\ wakeUpPort' = (wakeUpPort /\ l # "wakeup")
             /\ port1' = IF l = "source1" THEN port1 - 1 ELSE port1
    /\ UNCHANGED <<blocks, sources, modeStopped, timeout, runs, calls, todo>>

Handle(f) == IF f.live = "source1"
             THEN /\ Set([f EXCEPT !.at = "source1", !.live = "none"])
                  /\ UNCHANGED <<blocks, modeStopped, timer>>
             ELSE DoBlocks([f EXCEPT !.live = "none"], 3)

\* With the lock again, wakeups are ignored until the next iteration.
MsgReturns ==
    /\ stack # <<>> /\ Top.at = "woken"
    /\ IF Top.poll THEN Handle([Top EXCEPT !.ignore = TRUE, !.poll = FALSE])
       ELSE /\ Set([Top EXCEPT !.ignore = TRUE, !.at = "after"])
            /\ UNCHANGED <<blocks, modeStopped, timer>>
    /\ UNCHANGED <<sources, ports, passed, term, runs, calls, todo>>

AfterWaiting == /\ stack # <<>> /\ Top.at = "after" /\ Handle(Top)
                /\ UNCHANGED <<sources, ports, passed, term, runs, calls, todo>>

\* The version 1 source is called, and may run the loop again.
Source1 == /\ stack # <<>> /\ Top.at = "source1"
           /\ Callout([Top EXCEPT !.handled = TRUE, !.at = "performed"])
           /\ UNCHANGED <<blocks, sources, modeStopped, ports, timeout, calls, todo>>

AfterSource1 == /\ stack # <<>> /\ Top.at = "performed" /\ DoBlocks(Top, 3)
                /\ UNCHANGED <<sources, ports, passed, term, runs, calls, todo>>

(***************************************************************************)
(* The time limit, by a libdispatch timer                                  *)
(***************************************************************************)
\* (Variant: not ignored, but sent only to a loop that sleeps.)
WakeUpSleeper == /\ wakeUpPort' = (wakeUpPort \/ (stack # <<>> /\ Top.at = "wait"))
                 /\ UNCHANGED port1

\* CFRunLoopWakeUp; the port holds one message.
WakeUp == /\ wakeUpPort' = (wakeUpPort \/ stack = <<>> \/ ~Top.ignore)
          /\ UNCHANGED port1

LimitPasses(r) == /\ timer[r] = "armed" /\ ~passed[r]
                  /\ passed' = [passed EXCEPT ![r] = TRUE]
                  /\ UNCHANGED <<stack, blocks, sources, modeStopped, ports, timer, term,
                                 runs, calls, todo>>

\* (Variant: the handler relies on termTSR alone.)
TimeoutQuietly(r) == /\ timer[r] = "armed" /\ passed[r]
                     /\ timer' = [timer EXCEPT ![r] = "none"]
                     /\ term' = [term EXCEPT ![r] = TRUE]
                     /\ UNCHANGED <<stack, blocks, sources, modeStopped, ports, passed, runs,
                                    calls, todo>>

Timeout(r) == /\ timer[r] = "armed" /\ passed[r]
              /\ timer' = [timer EXCEPT ![r] = "wake"]
              /\ term' = [term EXCEPT ![r] = TRUE]
              /\ UNCHANGED <<stack, blocks, sources, modeStopped, ports, passed, runs,
                             calls, todo>>

TimeoutWakes(r) == /\ timer[r] = "wake" /\ WakeUp
                   /\ timer' = [timer EXCEPT ![r] = "none"]
                   /\ UNCHANGED <<stack, blocks, sources, modeStopped, passed, term, runs,
                                  calls, todo>>

(***************************************************************************)
(* The clients.  What needs a wakeup is followed by one.                   *)
(***************************************************************************)
Call(c, kind, l) == /\ todo[c] = "idle" /\ kind \in Calls /\ calls < MaxCalls
                    /\ calls' = calls + 1
                    /\ todo' = [todo EXCEPT ![c] = l]
                    /\ UNCHANGED <<timeout, runs>>

PerformBlock(c) ==
    /\ Call(c, "block", "wake")
    /\ \E ms \in BlockModes : blocks' = Append(blocks, [id |-> calls + 1, modes |-> ms])
    /\ UNCHANGED <<stack, sources, modeStopped, ports>>

SourceSignal(c) ==
    /\ Call(c, "signal", "wake")
    /\ \E s \in Sources : signaled' = signaled \cup ({s} \cap valid)
    /\ UNCHANGED <<stack, blocks, valid, members, modeStopped, ports>>

\* A message to the version 1 source needs no wakeup.
Send(c) == /\ Call(c, "send", "idle")
           /\ port1' = port1 + 1
           /\ UNCHANGED <<stack, blocks, sources, modeStopped, wakeUpPort>>

\* Stop marks the innermost run.
Stop(c) == /\ Call(c, "stop", IF stack = <<>> THEN "idle" ELSE "wake")
           /\ IF stack = <<>> THEN UNCHANGED stack ELSE Set([Top EXCEPT !.stopped = TRUE])
           /\ UNCHANGED <<blocks, sources, modeStopped, ports>>

StopMode(c) == /\ Call(c, "stopMode", "wake")
               /\ \E m \in Modes : modeStopped' = [modeStopped EXCEPT ![m] = TRUE]
               /\ UNCHANGED <<stack, blocks, sources, ports>>

WakesUp(c) == /\ todo[c] = "wake" /\ WakeUp
              /\ todo' = [todo EXCEPT ![c] = "idle"]
              /\ UNCHANGED <<stack, blocks, sources, modeStopped, timeout, runs, calls>>

\* An invalid source is not signaled; then it leaves its modes.
SourceInvalidate(c) ==
    /\ Call(c, "invalidate", "remove")
    /\ \E s \in valid : valid' = valid \ {s} /\ signaled' = signaled \ {s}
    /\ UNCHANGED <<stack, blocks, members, modeStopped, ports>>

RemoveSource(c) ==
    /\ todo[c] = "remove"
    /\ \E s \in members \ valid : members' = members \ {s}
    /\ todo' = [todo EXCEPT ![c] = "idle"]
    /\ UNCHANGED <<stack, blocks, signaled, valid, modeStopped, ports, timeout, runs, calls>>

(***************************************************************************)
(* Specification                                                           *)
(***************************************************************************)
LoopStep == \/ Begin \/ Pop \/ BeforeSources \/ Source0 \/ AfterSources0
            \/ ServiceMachPort \/ MsgReturns \/ AfterWaiting \/ Source1 \/ AfterSource1
            \/ \E n \in 1..3 : RunBlock(n) \/ PutBack(n)
TimerStep(r) == Timeout(r) \/ TimeoutWakes(r)
ClientCall(c) == \/ PerformBlock(c) \/ SourceSignal(c) \/ Send(c) \/ Stop(c)
                 \/ StopMode(c) \/ SourceInvalidate(c)
LoopNext == \/ Start \/ LoopStep
            \/ \E r \in Runs : LimitPasses(r) \/ TimerStep(r)
            \/ \E c \in Clients : ClientCall(c) \/ WakesUp(c) \/ RemoveSource(c)

LoopSpec == LoopInit /\ [][LoopNext]_loopVars

\* The loop's thread and the timers' run, and a client that owes a wakeup sends
\* it.  Nobody has to start a run, to call, or to reach the limit of one.
LoopFairSpec == /\ LoopSpec /\ WF_loopVars(LoopStep)
                /\ \A r \in Runs : WF_loopVars(TimerStep(r))
                /\ \A c \in Clients : WF_loopVars(WakesUp(c) \/ RemoveSource(c))

(***************************************************************************)
(* Properties                                                              *)
(***************************************************************************)
Increasing(s) == \A i, j \in 1..Len(s) : i < j => s[i].id < s[j].id

\* The runs, the pending blocks, the ports and the timers have their types.
LoopTypeOK == /\ Len(stack) <= runs /\ runs \in 0..MaxRuns /\ calls \in 0..MaxCalls
              /\ \A i \in 1..Len(stack) :
                     /\ stack[i].mode \in Modes /\ stack[i].at \in Places
                     /\ stack[i].coll \subseteq Sources
                     /\ stack[i].list \in Seq(Block) /\ stack[i].kept \in Seq(Block)
              /\ blocks \in Seq(Block)
              /\ signaled \subseteq valid /\ valid \subseteq members /\ members \subseteq Sources
              /\ wakeUpPort \in BOOLEAN /\ port1 \in 0..MaxCalls
              /\ timer \in [Runs -> {"none", "armed", "wake"}]
              /\ todo \in [Clients -> {"idle", "wake", "remove"}]

\* The blocks of every run's list and those that are pending stay in the order
\* they were posted in, whatever runs were nested while a list was worked off
\* (__CFRunLoopDoBlocks puts what it kept before what came meanwhile).
Precede(s, t) == \A i \in 1..Len(s), j \in 1..Len(t) : s[i].id < t[j].id
Held(f) == f.kept \o f.list
PendingInOrder ==
    /\ Increasing(blocks)
    /\ \A i \in 1..Len(stack) :
           /\ Increasing(Held(stack[i])) /\ Precede(Held(stack[i]), blocks)
           /\ \A j \in i + 1..Len(stack) : Precede(Held(stack[i]), Held(stack[j]))

\* A run that has decided to wait has nothing to do, or finds a message, or
\* somebody still owes it a wakeup (CFRunLoopWakeUp: "we don't want to lose a
\* wakeup"; wakeups are ignored from the return of mach_msg to the next
\* iteration).  A run is exempt while it is robbed, except for its sources and
\* its time limit, which it looks at after the first DoBlocks.
HasWork(f) ==
    \/ Collected # {} \/ term[f.run]
    \/ /\ ~f.robbed
       /\ \/ f.stopped \/ modeStopped[f.mode]
          \/ \E i \in 1..Len(blocks) : Eligible(blocks[i], f.mode)
WakeupOwed == (\E c \in Clients : todo[c] = "wake") \/ (\E r \in Runs : timer[r] = "wake")
NoLostWakeup == stack # <<>> /\ Top.at = "wait" /\ ~Top.poll /\ HasWork(Top)
                   => Live # {} \/ WakeupOwed

\* The run in which a stop, or its time limit, has been seen ends, unless a
\* callout of it runs the loop again (CFRunLoopStop, __CFRunLoopTimeout).
Innermost(r) == stack # <<>> /\ Top.run = r
Ending(f) == passed[f.run] \/ (f.stopped /\ ~f.robbed)
StopEndsRun == \A r \in Runs : (Innermost(r) /\ Ending(Top)) ~> ~Innermost(r)
=============================================================================
