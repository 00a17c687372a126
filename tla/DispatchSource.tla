---------------------------- MODULE DispatchSource ----------------------------
(***************************************************************************)
(* A dispatch source (source.c) between the manager queue and its target   *)
(* queue.  A source is a queue with a suspend count and a lock bit         *)
(* (do_suspend_cnt): whoever takes the lock with the count at 0 pushes the *)
(* source on a queue, and _dispatch_queue_invoke runs it there.  Each      *)
(* thing a source does has its queue: it is installed, re-armed and        *)
(* uninstalled on the manager queue, it calls its handlers on the target   *)
(* queue, and it moves itself from the one to the other.  The manager      *)
(* thread also receives the kernel's events.                               *)
(*                                                                         *)
(* Two kinds of source: "adder" (DATA_ADD, fed by dispatch_source_merge_   *)
(* data) and "level" (read, write: an event disarms it until it is armed   *)
(* again).  The probe of a wakeup, which reads several fields, is one step:*)
(* every change of one of them is followed by a wakeup of its own.         *)
(***************************************************************************)
EXTENDS Integers, Sequences, FiniteSets

CONSTANTS Clients,   \* threads with a reference of their own to the source
          Workers,   \* threads that drain the target queue
          Manager,   \* the thread that drains the manager queue
          MaxCalls,  \* bound: calls of the clients
          MaxEvents  \* bound: events of the kernel

ASSUME SourceAssumption == /\ Manager \notin Clients \cup Workers
                           /\ Clients \cap Workers = {}
                           /\ Clients # {} /\ IsFiniteSet(Clients \cup Workers)
                           /\ MaxCalls \in Nat /\ MaxEvents \in Nat

VARIABLES level, rearm,          \* ds_is_level, ds_needs_rearm
          susp, locked, running, \* do_suspend_cnt: count, lock bit; dq_running
          targetq, items,        \* do_targetq; the source's own queue of blocks
          queued,                \* the queue the source is on
          installed, dkev,       \* ds_is_installed, ds_dkev # NULL
          knote,                 \* the kernel may report an event
          canceled, armed,       \* DSF_CANCELED, DSF_ARMED
          pending, data,         \* ds_pending_data, ds_data
          regh, cancelh, handler,\* registration, cancellation, event handler set
          holders, ref, disposed,\* external references, do_ref_cnt, memory given back
          pc, on, tq, after,     \* per thread: place, queue it drains, queue to
                                 \* push on next, return point of a wakeup
          merged, delivered, dropped,     \* history: data merged, given to the
          cancelRuns,                     \* handler, latched with no handler set
          calls, events

kinds == <<level, rearm>>
lock == <<susp, locked, running>>
queues == <<targetq, items, queued>>
kevent == <<installed, dkev, knote, armed>>
value == <<pending, data, merged, delivered, dropped>>
handlers == <<regh, cancelh, handler, cancelRuns>>
refs == <<holders, ref, disposed>>
bounds == <<calls, events>>
source == <<kinds, lock, queues, kevent, canceled, value, handlers, refs>>
vars == <<source, pc, on, tq, after, bounds>>

Threads == Clients \cup Workers \cup {Manager}
Queues == {"mgr", "target"}
WakePoints == {"wake", "probe", "lock"}
MergePoints == {"merge", "add", "disarm"}
InvokePoints == {"drain", "invoke", "callout", "cancelling", "latch", "xchg",
                 "handler", "rearm", "arm", "leave"}
Points == {"idle", "run", "unlock", "recheck", "release"}
              \cup WakePoints \cup MergePoints \cup InvokePoints

\* What the creator put on the source: no handler yet, or all of them.
Setup == {<<"target">>, <<"target", "event", "registration", "cancel">>}

\* dispatch_source_create and the calls that set the handlers: suspended, with
\* the manager queue for a target until the first block sets the real one.
Init == /\ level \in BOOLEAN /\ rearm = level
        /\ susp = 1 /\ locked = FALSE /\ running = FALSE
        /\ targetq = "mgr" /\ items \in Setup /\ queued = "none"
        /\ installed = FALSE /\ dkev = TRUE /\ knote = FALSE /\ armed = FALSE
        /\ canceled = FALSE
        /\ pending = 0 /\ data = 0 /\ merged = 0 /\ delivered = 0
        /\ dropped = 0
        /\ regh = FALSE /\ cancelh = FALSE /\ handler = FALSE /\ cancelRuns = 0
        /\ holders = Clients /\ ref = 3 /\ disposed = FALSE
        /\ pc = [t \in Threads |-> "idle"]
        /\ on = [t \in Threads |-> "none"]
        /\ tq = [t \in Threads |-> "none"]
        /\ after = [t \in Threads |-> "idle"]
        /\ calls = 0 /\ events = 0

Goto(t, p) == pc' = [pc EXCEPT ![t] = p]
Move(t, p, q) == pc[t] = p /\ Goto(t, q)
Wakeup(t, p) == Goto(t, "wake") /\ after' = [after EXCEPT ![t] = p]
Return(t) == Goto(t, after[t]) /\ after' = [after EXCEPT ![t] = "idle"]
Call(t) == pc[t] = "idle" /\ t \in holders /\ calls < MaxCalls /\ calls' = calls + 1

Gone == canceled \/ holders = {}  \* cancelled, or the external count is -1

-----------------------------------------------------------------------------
(* Calls of the clients.                                                   *)

\* dispatch_source_merge_data.  Its assertion reads the filter through ds_dkev
\* in every build: once the source is uninstalled that is a NULL pointer, and
\* the process, which ends there, is not followed.
MergeData(t) ==
    /\ Call(t) /\ ~level /\ dkev
    /\ Goto(t, "merge")
    /\ UNCHANGED <<source, on, tq, after, events>>

\* dispatch_source_cancel retains, sets the flag and wakes the source up.
Cancel(t) ==
    /\ Call(t)
    /\ canceled' = TRUE
    /\ ref' = ref + 1
    /\ Wakeup(t, "release")
    /\ UNCHANGED <<kinds, lock, queues, kevent, value, handlers, holders,
                   disposed, on, tq, events>>

\* An event or a cancel handler set late: a block on the source's own queue.
\* A handler is set once.
SetHandler(t, h) ==
    /\ Call(t)
    /\ h \notin {items[i] : i \in DOMAIN items}
    /\ IF h = "cancel" THEN ~cancelh /\ cancelRuns = 0 ELSE ~handler
    /\ items' = Append(items, h)
    /\ IF items = <<>> THEN Wakeup(t, "idle") ELSE UNCHANGED <<pc, after>>
    /\ UNCHANGED <<kinds, lock, targetq, queued, kevent, canceled, value,
                   handlers, refs, on, tq, events>>

Suspend(t) ==
    /\ Call(t) /\ susp = 0
    /\ susp' = susp + 1
    /\ ref' = ref + 1
    /\ UNCHANGED <<kinds, locked, running, queues, kevent, canceled, value,
                   handlers, holders, disposed, pc, on, tq, after, events>>

\* dispatch_resume: the last one wakes the source up unless an invocation, which
\* looks again when it unlocks, holds the lock.
Resume(t) ==
    /\ pc[t] = "idle" /\ t \in holders /\ susp > 0
    /\ susp' = susp - 1
    /\ IF susp = 1 /\ ~locked THEN Wakeup(t, "release")
                              ELSE Goto(t, "release") /\ UNCHANGED after
    /\ UNCHANGED <<kinds, locked, running, queues, kevent, canceled, value,
                   handlers, refs, on, tq, bounds>>

\* dispatch_release: the last one, of a source not suspended, goes through
\* _dispatch_source_xref_dispose.
Release(t) ==
    /\ pc[t] = "idle" /\ t \in holders
    /\ holders = {t} => susp = 0
    /\ holders' = holders \ {t}
    /\ IF holders' = {} THEN Wakeup(t, "release") ELSE UNCHANGED <<pc, after>>
    /\ UNCHANGED <<kinds, lock, queues, kevent, canceled, value, handlers, ref,
                   disposed, on, tq, bounds>>

-----------------------------------------------------------------------------
(* _dispatch_source_merge_kevent.                                          *)

\* The kernel reports an event to the manager and will not until armed again.
KernelEvent ==
    /\ Move(Manager, "idle", "merge")
    /\ knote /\ events < MaxEvents
    /\ knote' = FALSE
    /\ events' = events + 1
    /\ UNCHANGED <<kinds, lock, queues, installed, dkev, armed, canceled,
                   value, handlers, refs, on, tq, after, calls>>

MergeTest(t) ==
    /\ pc[t] = "merge"
    /\ Goto(t, IF Gone THEN "idle" ELSE "add")
    /\ UNCHANGED <<source, on, tq, after, bounds>>

Merge(t) ==
    /\ pc[t] = "add"
    /\ pending' = IF level THEN 1 ELSE pending + 1
    /\ merged' = merged + 1
    /\ Goto(t, IF rearm THEN "disarm" ELSE "wake")
    /\ UNCHANGED <<kinds, lock, queues, kevent, canceled, data, delivered,
                   dropped, handlers, refs, on, tq, after, bounds>>

Disarm(t) ==
    /\ Move(t, "disarm", "wake")
    /\ armed' = FALSE
    /\ UNCHANGED <<kinds, lock, queues, installed, dkev, knote, canceled,
                   value, handlers, refs, on, tq, after, bounds>>

-----------------------------------------------------------------------------
(* _dispatch_wakeup and _dispatch_source_probe.                            *)

WakeTest(t) ==
    /\ pc[t] = "wake"
    /\ IF susp > 0 THEN Return(t) ELSE Goto(t, "probe") /\ UNCHANGED after
    /\ UNCHANGED <<source, on, tq, bounds>>

_dispatch_source_probe ==
    \/ ~installed
    \/ regh
    \/ Gone /\ (dkev \/ cancelh \/ handler)
    \/ ~Gone /\ (pending # 0 \/ (rearm /\ ~armed))

Probe(t) ==
    /\ pc[t] = "probe"
    /\ IF _dispatch_source_probe \/ items # <<>>
       THEN Goto(t, "lock") /\ UNCHANGED after
       ELSE Return(t)
    /\ UNCHANGED <<source, on, tq, bounds>>

\* (Variant: the queue the source is put on has no reference to it.)
PushUnretained(t) ==
    /\ pc[t] = "lock"
    /\ IF susp = 0 /\ ~locked THEN locked' = TRUE /\ queued' = targetq
                              ELSE UNCHANGED <<locked, queued>>
    /\ Return(t)
    /\ UNCHANGED <<kinds, susp, running, targetq, items, kevent, canceled,
                   value, handlers, refs, on, tq, bounds>>

\* Take the lock with the whole word at 0, retain, push on the target queue.
LockAndPush(t) ==
    /\ pc[t] = "lock"
    /\ IF susp = 0 /\ ~locked
       THEN locked' = TRUE /\ ref' = ref + 1 /\ queued' = targetq
       ELSE UNCHANGED <<locked, ref, queued>>
    /\ Return(t)
    /\ UNCHANGED <<kinds, susp, running, targetq, items, kevent, canceled,
                   value, handlers, holders, disposed, on, tq, bounds>>

-----------------------------------------------------------------------------
(* _dispatch_queue_invoke.                                                 *)

\* A thread that drains a queue finds the source there.
Dequeue(t) ==
    /\ Move(t, "idle", "run")
    /\ queued = IF t = Manager THEN "mgr" ELSE "target"
    /\ t \notin Clients
    /\ on' = [on EXCEPT ![t] = queued]
    /\ queued' = "none"
    /\ UNCHANGED <<kinds, lock, targetq, items, kevent, canceled, value,
                   handlers, refs, tq, after, bounds>>

Enter(t) ==
    /\ pc[t] = "run"
    /\ IF susp = 0 /\ ~running THEN running' = TRUE /\ Goto(t, "drain")
                               ELSE UNCHANGED running /\ Goto(t, "unlock")
    /\ UNCHANGED <<kinds, susp, locked, queues, kevent, canceled, value,
                   handlers, refs, on, tq, after, bounds>>

\* The blocks on the source itself: its target queue and its handlers.
DrainItem(t) ==
    /\ pc[t] = "drain" /\ items # <<>> /\ susp = 0
    /\ items' = Tail(items)
    /\ targetq' = IF Head(items) = "target" THEN "target" ELSE targetq
    /\ handler' = (handler \/ Head(items) = "event")
    /\ regh' = (regh \/ Head(items) = "registration")
    /\ cancelh' = (cancelh \/ Head(items) = "cancel")
    /\ UNCHANGED <<kinds, lock, queued, kevent, canceled, value, cancelRuns,
                   refs, pc, on, tq, after, bounds>>

DrainEnds(t) ==
    /\ Move(t, "drain", "invoke")
    /\ items = <<>> \/ susp > 0
    /\ UNCHANGED <<source, on, tq, after, bounds>>

Leave(t, q) == Goto(t, "leave") /\ tq' = [tq EXCEPT ![t] = q]

\* running is dropped, and the source goes to another queue or unlocks.
LeaveInvoke(t) ==
    /\ pc[t] = "leave"
    /\ running' = FALSE
    /\ tq' = [tq EXCEPT ![t] = "none"]
    /\ on' = [on EXCEPT ![t] = "none"]
    /\ queued' = IF tq[t] = "none" THEN queued ELSE tq[t]
    /\ Goto(t, IF tq[t] = "none" THEN "unlock" ELSE "idle")
    /\ UNCHANGED <<kinds, susp, locked, targetq, items, kevent, canceled,
                   value, handlers, refs, after, bounds>>

\* (Variant: unlocks without looking again.)
UnlockOnly(t) ==
    /\ Move(t, "unlock", "release")
    /\ locked' = FALSE
    /\ on' = [on EXCEPT ![t] = "none"]
    /\ UNCHANGED <<kinds, susp, running, queues, kevent, canceled, value,
                   handlers, refs, tq, after, bounds>>

Unlock(t) ==
    /\ pc[t] = "unlock"
    /\ locked' = FALSE
    /\ on' = [on EXCEPT ![t] = "none"]
    /\ Goto(t, IF susp = 0 THEN "recheck" ELSE "release")
    /\ UNCHANGED <<kinds, susp, running, queues, kevent, canceled, value,
                   handlers, refs, tq, after, bounds>>

Recheck(t) ==
    /\ pc[t] = "recheck"
    /\ IF running THEN Goto(t, "release") /\ UNCHANGED after ELSE Wakeup(t, "release")
    /\ UNCHANGED <<source, on, tq, bounds>>

ReleaseRef(t) ==
    /\ Move(t, "release", "idle")
    /\ ref' = ref - 1
    /\ disposed' = (disposed \/ ref = 1)
    /\ UNCHANGED <<kinds, lock, queues, kevent, canceled, value, handlers,
                   holders, on, tq, after, bounds>>

-----------------------------------------------------------------------------
(* _dispatch_source_invoke: the first of its cases that applies.           *)

Invoking(t) == pc[t] = "invoke"
Elsewhere(t, q) == /\ on[t] # q
                   /\ Leave(t, q)
                   /\ UNCHANGED <<source, on, after, bounds>>

Install(t) ==
    /\ Invoking(t) /\ ~installed
    /\ \/ Elsewhere(t, "mgr")
       \/ /\ on[t] = "mgr"
          /\ installed' = TRUE /\ armed' = TRUE
          /\ knote' = level
          /\ Leave(t, IF regh THEN targetq ELSE IF holders = {} THEN "mgr" ELSE "none")
          /\ UNCHANGED <<kinds, lock, queues, dkev, canceled, value, handlers,
                         refs, on, after, bounds>>

InvokeSuspended(t) ==
    /\ Invoking(t) /\ installed /\ susp > 0
    /\ Leave(t, "none")
    /\ UNCHANGED <<source, on, after, bounds>>

RegistrationCallout(t) ==
    /\ Invoking(t) /\ installed /\ susp = 0 /\ regh
    /\ \/ Elsewhere(t, targetq)
       \/ /\ on[t] = targetq
          /\ regh' = FALSE
          /\ Leave(t, IF holders = {} THEN "mgr" ELSE "none")
          /\ UNCHANGED <<kinds, lock, queues, kevent, canceled, value, cancelh,
                         handler, cancelRuns, refs, on, after, bounds>>

Ready(t) == Invoking(t) /\ installed /\ susp = 0 /\ ~regh

\* (Variant: the cancellation does not wait for the kernel event to go.)
CancelFirst(t) ==
    /\ Ready(t) /\ Gone
    /\ Goto(t, "callout")
    /\ UNCHANGED <<source, on, tq, after, bounds>>

\* Cancelled or released: uninstall, which drops the manager's reference.
Uninstall(t) ==
    /\ Ready(t) /\ Gone
    /\ \/ dkev /\ Elsewhere(t, "mgr")
       \/ /\ dkev => on[t] = "mgr"
          /\ dkev' = FALSE
          /\ knote' = IF dkev THEN FALSE ELSE knote
          /\ armed' = IF dkev THEN FALSE ELSE armed
          /\ rearm' = IF dkev THEN FALSE ELSE rearm
          /\ ref' = IF dkev THEN ref - 1 ELSE ref
          /\ Goto(t, "callout")
          /\ UNCHANGED <<level, lock, queues, installed, canceled, value,
                         handlers, holders, disposed, on, tq, after, bounds>>

\* _dispatch_source_cancel_callout.  The handler runs only if the source was
\* cancelled, not if it was merely released.
CancelCallout(t) ==
    /\ pc[t] = "callout"
    /\ \/ (cancelh \/ handler) /\ Elsewhere(t, targetq)
       \/ /\ cancelh \/ handler => on[t] = targetq
          /\ pending' = 0 /\ data' = 0
          /\ handler' = FALSE
          /\ IF cancelh /\ canceled
             THEN Goto(t, "cancelling") /\ cancelRuns' = cancelRuns + 1
                  /\ UNCHANGED <<tq, cancelh>>
             ELSE Leave(t, "none") /\ cancelh' = FALSE /\ UNCHANGED cancelRuns
          /\ UNCHANGED <<kinds, lock, queues, kevent, canceled, merged,
                         delivered, dropped, regh, refs, on, after, bounds>>

CancelHandlerReturns(t) ==
    /\ pc[t] = "cancelling"
    /\ cancelh' = FALSE
    /\ Leave(t, "none")
    /\ UNCHANGED <<kinds, lock, queues, kevent, canceled, value, regh, handler,
                   cancelRuns, refs, on, after, bounds>>

Deliver(t) ==
    /\ Ready(t) /\ ~Gone /\ pending # 0
    /\ \/ Elsewhere(t, targetq)
       \/ /\ on[t] = targetq
          /\ Goto(t, "latch")
          /\ UNCHANGED <<source, on, tq, after, bounds>>

AfterDelivery(t) == Leave(t, IF rearm THEN "mgr" ELSE "none")

\* _dispatch_source_latch_and_call.
LatchTest(t) ==
    /\ pc[t] = "latch"
    /\ IF Gone THEN AfterDelivery(t) ELSE Goto(t, "xchg") /\ UNCHANGED tq
    /\ UNCHANGED <<source, on, after, bounds>>

\* What was latched goes to the event handler, or nowhere if none is set.
CallHandler(t) ==
    IF handler THEN Goto(t, "handler") /\ UNCHANGED <<dropped, tq>>
               ELSE AfterDelivery(t) /\ dropped' = dropped + pending

\* (Variant: the data are read and not taken.)
LatchLate(t) ==
    /\ pc[t] = "xchg"
    /\ data' = pending
    /\ CallHandler(t)
    /\ UNCHANGED <<kinds, lock, queues, kevent, canceled, pending, merged,
                   delivered, handlers, refs, on, after, bounds>>

Latch(t) ==
    /\ pc[t] = "xchg"
    /\ data' = pending
    /\ pending' = 0
    /\ CallHandler(t)
    /\ UNCHANGED <<kinds, lock, queues, kevent, canceled, merged, delivered,
                   handlers, refs, on, after, bounds>>

HandlerReturns(t) ==
    /\ pc[t] = "handler"
    /\ delivered' = delivered + data
    /\ AfterDelivery(t)
    /\ UNCHANGED <<kinds, lock, queues, kevent, canceled, pending, data,
                   merged, dropped, handlers, refs, on, after, bounds>>

\* (Variant: armed again on whatever queue it is.)
RearmAnywhere(t) ==
    /\ Ready(t) /\ ~Gone /\ pending = 0 /\ rearm /\ ~armed
    /\ Goto(t, "arm") /\ knote' = TRUE
    /\ UNCHANGED <<kinds, lock, queues, installed, dkev, armed, canceled,
                   value, handlers, refs, on, tq, after, bounds>>

\* Armed again on the manager queue, whose thread receives the next event.
Rearm(t) ==
    /\ Ready(t) /\ ~Gone /\ pending = 0 /\ rearm /\ ~armed
    /\ \/ Elsewhere(t, "mgr")
       \/ /\ on[t] = "mgr"
          /\ Goto(t, "arm") /\ knote' = TRUE
          /\ UNCHANGED <<kinds, lock, queues, installed, dkev, armed, canceled,
                         value, handlers, refs, on, tq, after, bounds>>

Arm(t) ==
    /\ pc[t] = "arm"
    /\ armed' = TRUE
    /\ Leave(t, "none")
    /\ UNCHANGED <<kinds, lock, queues, installed, dkev, knote, canceled,
                   value, handlers, refs, on, after, bounds>>

NothingToDo(t) ==
    /\ Ready(t) /\ ~Gone /\ pending = 0 /\ ~(rearm /\ ~armed)
    /\ Leave(t, "none")
    /\ UNCHANGED <<source, on, after, bounds>>

-----------------------------------------------------------------------------
Invoke(t) == \/ Install(t) \/ InvokeSuspended(t) \/ RegistrationCallout(t)
             \/ Uninstall(t) \/ CancelCallout(t) \/ CancelHandlerReturns(t)
             \/ Deliver(t) \/ LatchTest(t) \/ Latch(t) \/ HandlerReturns(t)
             \/ Rearm(t) \/ Arm(t) \/ NothingToDo(t)

Step(t) == \/ MergeTest(t) \/ Merge(t) \/ Disarm(t)
           \/ WakeTest(t) \/ Probe(t) \/ LockAndPush(t)
           \/ Dequeue(t) \/ Enter(t) \/ DrainItem(t) \/ DrainEnds(t) \/ Invoke(t)
           \/ LeaveInvoke(t) \/ Unlock(t) \/ Recheck(t) \/ ReleaseRef(t)

ClientCall(t) == \/ MergeData(t) \/ Cancel(t) \/ SetHandler(t, "event")
                 \/ SetHandler(t, "cancel")
                 \/ Suspend(t) \/ Resume(t) \/ Release(t)

Next == \/ \E t \in Clients : ClientCall(t)
        \/ KernelEvent
        \/ \E t \in Threads : Step(t)

Spec == Init /\ [][Next]_vars
FairSpec == Spec /\ \A t \in Threads : WF_vars(Step(t))

-----------------------------------------------------------------------------
Running(P) == {t \in Threads : pc[t] \in P}
Quiet == queued = "none" /\ \A t \in Threads : pc[t] \in {"idle", "release"}

TypeOK == /\ {level, rearm, locked, running, installed, dkev, knote, canceled, armed,
              regh, cancelh, handler, disposed} \subseteq BOOLEAN
          /\ {susp, pending, data, merged, delivered, dropped, cancelRuns, ref} \subseteq Nat
          /\ targetq \in Queues /\ queued \in Queues \cup {"none"}
          /\ items \in Seq({"target", "event", "cancel", "registration"})
          /\ holders \subseteq Clients
          /\ pc \in [Threads -> Points]
          /\ on \in [Threads -> Queues \cup {"none"}]
          /\ tq \in [Threads -> Queues \cup {"none"}]
          /\ after \in [Threads -> {"idle", "release"}]
          /\ calls \in 0..MaxCalls /\ events \in 0..MaxEvents

\* The source is on one queue or run by one thread at a time, so its handlers
\* never run in parallel (the lock bit of do_suspend_cnt, queue.c _dispatch_wakeup).
OneInvocation ==
    Cardinality(Running({"run", "unlock"} \cup InvokePoints))
        + (IF queued = "none" THEN 0 ELSE 1) = (IF locked THEN 1 ELSE 0)

\* Until it is cancelled, what was merged into a DATA_ADD source is what the
\* handler was given, what waits, and what was latched while no handler was set:
\* nothing else is lost and nothing is delivered twice
\* (_dispatch_source_latch_and_call takes the data by exchange).
DataConserved ==
    ~level /\ ~Gone =>
        merged = delivered + dropped + pending
                     + (IF Running({"handler"}) # {} THEN data ELSE 0)

\* The cancel handler runs once, with the kernel event gone, so that it may close
\* the descriptor, and no event handler runs beside or after it
\* (_dispatch_source_invoke uninstalls first, _dispatch_source_cancel_callout).
CancelIsLast == /\ cancelRuns <= 1
                /\ cancelRuns > 0 => /\ ~dkev /\ ~knote
                                     /\ Running({"latch", "xchg", "handler", "arm"}) = {}

\* Nobody touches a source whose memory is gone, which is neither installed
\* nor on a queue (the references of the manager queue, of a suspension, of the
\* list it is on, and of dispatch_source_cancel).
NoUseAfterDispose ==
    disposed => /\ holders = {} /\ ~dkev /\ queued = "none"
                /\ \A t \in Threads : pc[t] = "idle"

\* A source that nobody runs or is about to wake up has nothing to do, and if
\* it says that it is armed the kernel knows it (the recheck after unlocking in
\* _dispatch_queue_invoke, _dispatch_source_probe).
NothingStranded ==
    Quiet /\ susp = 0 /\ ~disposed =>
        /\ items = <<>> /\ ~_dispatch_source_probe
        /\ level /\ armed => knote

\* A cancelled source calls its cancel handler, even one set after the
\* cancellation, provided that it does not stay suspended
\* (dispatch_source_cancel, _dispatch_source_probe).
CancelHandlerRuns ==
    <>[](susp = 0) =>
        [](canceled /\ (cancelh \/ "cancel" \in {items[i] : i \in DOMAIN items})
               => <>(cancelRuns = 1))
=============================================================================
