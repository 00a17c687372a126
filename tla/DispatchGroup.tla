--------------------------- MODULE DispatchGroup ---------------------------
(***************************************************************************)
(* dispatch_group_t (semaphore.c): a semaphore created with LONG_MAX.      *)
(* dispatch_group_enter decrements dsema_value, dispatch_group_leave       *)
(* increments it, and the group is empty when dsema_value = dsema_orig.    *)
(* Threads wait for that on a kernel semaphore, counted in                 *)
(* dsema_group_waiters; blocks wait for it in a linked list of             *)
(* dispatch_sema_notify_s.  Whoever sees the group empty runs              *)
(* _dispatch_group_wake, which takes both and serves them.                 *)
(*                                                                         *)
(* One action is one atomic access to shared memory or one kernel call.    *)
(* PortAtInit = FALSE is the USE_MACH_SEM build, where the kernel          *)
(* semaphores are ports created lazily; TRUE is USE_POSIX_SEM or           *)
(* USE_FUTEX_SEM, where _dispatch_semaphore_init makes the one semaphore.  *)
(***************************************************************************)
EXTENDS ThreadCount

CONSTANTS Threads,      \* threads that use the group
          Notes,        \* notify blocks that may be registered
          None,         \* the NULL pointer
          LongMax,      \* LONG_MAX, the value of an empty group
          PortAtInit,   \* FALSE for USE_MACH_SEM
          MaxCalls      \* bound: calls the threads make altogether

ASSUME GroupAssumption ==
    /\ IsFiniteSet(Threads)
    /\ None \notin Notes \cup Threads
    /\ PortAtInit \in BOOLEAN
    /\ MaxCalls \in Nat
    /\ LongMax \in Nat /\ MaxCalls < LongMax  \* enter never goes negative

VARIABLES value,       \* dsema_value
          waiters,     \* dsema_group_waiters
          waiterPort,  \* the kernel semaphore of group waiters exists
          kern,        \* its count
          head, tail,  \* dsema_notify_head, dsema_notify_tail
          next,        \* dsn_next of every notify block
          status,      \* life of a notify block
          refs,        \* references _dispatch_retain added to the group
          crashed,     \* DISPATCH_CRASH or DISPATCH_CLIENT_CRASH happened
          pc,          \* where each thread is
          kind,        \* timeout argument of a wait
          rval,        \* wake: kernel signals still to be sent
          whead, wtail,\* wake: locals head and tail
          dsn, prev,   \* notify: locals dsn and prev
          surplus,     \* history: counts left behind, see Recheck
          calls        \* calls made so far

locals == <<kind, rval, whead, wtail, dsn, prev>>
kernelVars == <<waiterPort, kern>>
listVars == <<head, tail, next, status, refs>>
vars == <<value, waiters, kernelVars, listVars, crashed, pc, locals,
          surplus, calls>>

\* Points of dispatch_group_wait after the first test of the value.
WaitPoints == {"look", "count", "recheck", "timedwait", "undo", "drain"}
\* Points of _dispatch_group_wake.
WakePoints == {"takehead", "taketail", "takewaiters", "signal", "fire", "advance", "release"}
\* Points of dispatch_group_notify_f.
NotifyPoints == {"append", "link", "retain", "sethead", "checkempty"}
Points == {"idle", "dead"} \cup WaitPoints \cup WakePoints \cup NotifyPoints

LongMin == -LongMax - 1
\* Machine increment.
Increment(v) == IF v = LongMax THEN LongMin ELSE v + 1

Empty == value = LongMax

-----------------------------------------------------------------------------
Init == /\ value = LongMax
        /\ waiters = 0
        /\ waiterPort = PortAtInit
        /\ kern = 0
        /\ head = None /\ tail = None
        /\ next = [n \in Notes |-> None]
        /\ status = [n \in Notes |-> "unused"]
        /\ refs = 0
        /\ crashed = FALSE
        /\ pc = [t \in Threads |-> "idle"]
        /\ kind = [t \in Threads |-> "forever"]
        /\ rval = [t \in Threads |-> 0]
        /\ whead = [t \in Threads |-> None]
        /\ wtail = [t \in Threads |-> None]
        /\ dsn = [t \in Threads |-> None]
        /\ prev = [t \in Threads |-> None]
        /\ surplus = 0
        /\ calls = 0

Goto(t, p) == pc' = [pc EXCEPT ![t] = p]
At(t, p) == ~crashed /\ pc[t] = p
Call(t) == /\ At(t, "idle")
           /\ calls < MaxCalls
           /\ calls' = calls + 1

-----------------------------------------------------------------------------
\* dispatch_group_enter: a wait on the group's semaphore; the value of a
\* group is never so low that it would block.
Enter(t) ==
    /\ Call(t)
    /\ value' = value - 1
    /\ UNCHANGED <<waiters, kernelVars, listVars, crashed, pc, locals, surplus>>

\* dispatch_group_leave: the last one out wakes; one too many wraps the value
\* around to LONG_MIN and crashes.
Leave(t) ==
    /\ Call(t)
    /\ value' = Increment(value)
    /\ IF value' = LongMin
       THEN crashed' = TRUE /\ Goto(t, "dead")
       ELSE crashed' = FALSE /\ Goto(t, IF value' = LongMax THEN "takehead" ELSE "idle")
    /\ UNCHANGED <<waiters, kernelVars, listVars, locals, surplus>>

-----------------------------------------------------------------------------
\* dispatch_group_wait, with DISPATCH_TIME_NOW: the answer is immediate and
\* nothing changes.  With another timeout and a non-empty group, wait_slow.
Wait(t, k) ==
    /\ Call(t)
    /\ kind' = [kind EXCEPT ![t] = k]
    /\ Goto(t, IF Empty \/ k = "now" THEN "idle" ELSE "look")
    /\ UNCHANGED <<value, waiters, kernelVars, listVars, crashed,
                   rval, whead, wtail, dsn, prev, surplus>>

\* wait_slow, again: the group is empty, go and wake ...
LookEmpty(t) ==
    /\ At(t, "look")
    /\ Empty
    /\ Goto(t, "takehead")
    /\ UNCHANGED <<value, waiters, kernelVars, listVars, crashed, locals, surplus, calls>>

\* ... or it is not ...
LookBusy(t) ==
    /\ At(t, "look")
    /\ ~Empty
    /\ Goto(t, "count")
    /\ UNCHANGED <<value, waiters, kernelVars, listVars, crashed, locals, surplus, calls>>

\* ... or was not when it looked: become a group waiter.
Count(t) ==
    /\ At(t, "count")
    /\ waiters' = waiters + 1
    /\ Goto(t, "recheck")
    /\ UNCHANGED <<value, kernelVars, listVars, crashed, locals, surplus, calls>>

\* (Variant: the value is not looked at again.)
RecheckSkipped(t) ==
    /\ At(t, "recheck")
    /\ Goto(t, IF kind[t] = "timed" THEN "timedwait" ELSE "drain")
    /\ UNCHANGED <<value, waiters, kernelVars, listVars, crashed, locals, surplus, calls>>

\* The value is looked at again.  If the group is empty by now the thread
\* leaves through a wake of its own; its count stays, for a wake to take or
\* for another waiter to give back in its place (history: surplus).  The
\* kernel wait that follows otherwise takes dsema_waiter_port, where
\* create_port was given dsema_port: without a waiter port the kernel refuses
\* and DISPATCH_SEMAPHORE_VERIFY_KR crashes.
Recheck(t) ==
    /\ At(t, "recheck")
    /\ crashed' = (~Empty /\ ~waiterPort)
    /\ Goto(t, IF Empty THEN "takehead"
               ELSE IF ~waiterPort THEN "dead"
               ELSE IF kind[t] = "timed" THEN "timedwait" ELSE "drain")
    /\ surplus' = IF Empty THEN surplus + 1 ELSE surplus
    /\ UNCHANGED <<value, waiters, kernelVars, listVars, locals, calls>>

\* The kernel lets a waiter go: look again.
KernelWake(t) ==
    /\ At(t, "timedwait") \/ At(t, "drain")
    /\ kern > 0
    /\ kern' = kern - 1
    /\ Goto(t, "look")
    /\ UNCHANGED <<value, waiters, waiterPort, listVars, crashed, locals, surplus, calls>>

\* The timed wait runs out.
KernelTimeout(t) ==
    /\ At(t, "timedwait")
    /\ Goto(t, "undo")
    /\ UNCHANGED <<value, waiters, kernelVars, listVars, crashed, locals, surplus, calls>>

\* Take the count back and report the timeout, or find that a wake already
\* took it and drain the kernel signal it sends.
Undo(t) ==
    /\ At(t, "undo")
    /\ IF waiters > 0
       THEN waiters' = waiters - 1 /\ Goto(t, "idle")
       ELSE waiters' = waiters /\ Goto(t, "drain")
    /\ UNCHANGED <<value, kernelVars, listVars, crashed, locals, surplus, calls>>

-----------------------------------------------------------------------------
\* _dispatch_group_wake takes the list of notify blocks: first the head,
TakeHead(t) ==
    /\ At(t, "takehead")
    /\ head' = None
    /\ whead' = [whead EXCEPT ![t] = head]
    /\ Goto(t, IF head = None THEN "takewaiters" ELSE "taketail")
    /\ UNCHANGED <<value, waiters, kernelVars, tail, next, status, refs,
                   crashed, kind, rval, wtail, dsn, prev, surplus, calls>>

\* (Variant: the tail is read and left in place.)
TakeTailKept(t) ==
    /\ At(t, "taketail")
    /\ wtail' = [wtail EXCEPT ![t] = tail]
    /\ Goto(t, "takewaiters")
    /\ UNCHANGED <<value, waiters, kernelVars, listVars,
                   crashed, kind, rval, whead, dsn, prev, surplus, calls>>

\* then, if there was one, the tail,
TakeTail(t) ==
    /\ At(t, "taketail")
    /\ tail' = None
    /\ wtail' = [wtail EXCEPT ![t] = tail]
    /\ Goto(t, "takewaiters")
    /\ UNCHANGED <<value, waiters, kernelVars, head, next, status, refs,
                   crashed, kind, rval, whead, dsn, prev, surplus, calls>>

\* and the count of waiters.
TakeWaiters(t) ==
    /\ At(t, "takewaiters")
    /\ waiters' = 0
    /\ rval' = [rval EXCEPT ![t] = waiters]
    /\ Goto(t, IF waiters > 0 THEN "signal"
               ELSE IF whead[t] # None THEN "fire" ELSE "idle")
    /\ UNCHANGED <<value, kernelVars, listVars, crashed, kind, whead, wtail, dsn, prev, surplus, calls>>

\* (Variant: one kernel signal is taken to be enough for all of them.)
SignalOnce(t) ==
    /\ At(t, "signal")
    /\ waiterPort' = TRUE
    /\ kern' = kern + 1
    /\ rval' = [rval EXCEPT ![t] = 0]
    /\ Goto(t, IF whead[t] # None THEN "fire" ELSE "idle")
    /\ UNCHANGED <<value, waiters, listVars, crashed, kind, whead, wtail, dsn, prev, surplus, calls>>

\* One kernel signal for each waiter, the first one after its port was made
\* sure of (create_port: whoever loses the race uses the winner's port).
SignalWaiter(t) ==
    /\ At(t, "signal")
    /\ waiterPort' = TRUE
    /\ kern' = kern + 1
    /\ rval' = [rval EXCEPT ![t] = rval[t] - 1]
    /\ Goto(t, IF rval[t] > 1 THEN "signal"
               ELSE IF whead[t] # None THEN "fire" ELSE "idle")
    /\ UNCHANGED <<value, waiters, listVars, crashed, kind, whead, wtail, dsn, prev, surplus, calls>>

\* Submit the first block that was taken to its queue.
FireNote(t) ==
    /\ At(t, "fire")
    /\ status' = [status EXCEPT ![whead[t]] = IF @ = "pending" THEN "fired" ELSE "again"]
    /\ Goto(t, "advance")
    /\ UNCHANGED <<value, waiters, kernelVars, head, tail, next, refs, crashed, locals, surplus, calls>>

\* Go on to the next block, spinning while its notifier has not linked it
\* yet, and free this one.
Advance(t) ==
    /\ At(t, "advance")
    /\ next[whead[t]] # None \/ whead[t] = wtail[t]
    /\ status' = [status EXCEPT ![whead[t]] = "freed"]
    /\ whead' = [whead EXCEPT ![t] = next[whead[t]]]
    /\ Goto(t, IF whead'[t] = None THEN "release" ELSE "fire")
    /\ UNCHANGED <<value, waiters, kernelVars, head, tail, next, refs,
                   crashed, kind, rval, wtail, dsn, prev, surplus, calls>>

\* Drop the reference the list held.
Release(t) ==
    /\ At(t, "release")
    /\ refs' = refs - 1
    /\ wtail' = [wtail EXCEPT ![t] = None]
    /\ Goto(t, "idle")
    /\ UNCHANGED <<value, waiters, kernelVars, head, tail, next, status,
                   crashed, kind, rval, whead, dsn, prev, surplus, calls>>

-----------------------------------------------------------------------------
\* dispatch_group_notify_f: a fresh block (calloc) ...
Notify(t, n) ==
    /\ Call(t)
    /\ status[n] = "unused"
    /\ status' = [status EXCEPT ![n] = "pending"]
    /\ dsn' = [dsn EXCEPT ![t] = n]
    /\ Goto(t, "append")
    /\ UNCHANGED <<value, waiters, kernelVars, head, tail, next, refs,
                   crashed, kind, rval, whead, wtail, prev, surplus>>

\* ... becomes the tail ...
Append(t) ==
    /\ At(t, "append")
    /\ prev' = [prev EXCEPT ![t] = tail]
    /\ tail' = dsn[t]
    /\ Goto(t, IF tail = None THEN "retain" ELSE "link")
    /\ UNCHANGED <<value, waiters, kernelVars, head, next, status, refs,
                   crashed, kind, rval, whead, wtail, dsn, surplus, calls>>

\* ... linked from the old tail, if there was one.
Link(t) ==
    /\ At(t, "link")
    /\ next' = [next EXCEPT ![prev[t]] = dsn[t]]
    /\ prev' = [prev EXCEPT ![t] = None]
    /\ dsn' = [dsn EXCEPT ![t] = None]
    /\ Goto(t, "idle")
    /\ UNCHANGED <<value, waiters, kernelVars, head, tail, status, refs,
                   crashed, kind, rval, whead, wtail, surplus, calls>>

\* (Variant: the list takes no reference on the group.)
RetainForgotten(t) ==
    /\ At(t, "retain")
    /\ Goto(t, "sethead")
    /\ UNCHANGED <<value, waiters, kernelVars, listVars, crashed, locals, surplus, calls>>

\* The first block of a list: the list keeps the group alive,
Retain(t) ==
    /\ At(t, "retain")
    /\ refs' = refs + 1
    /\ Goto(t, "sethead")
    /\ UNCHANGED <<value, waiters, kernelVars, head, tail, next, status,
                   crashed, locals, surplus, calls>>

\* its head is published,
SetHead(t) ==
    /\ At(t, "sethead")
    /\ head' = dsn[t]
    /\ dsn' = [dsn EXCEPT ![t] = None]
    /\ Goto(t, "checkempty")
    /\ UNCHANGED <<value, waiters, kernelVars, tail, next, status, refs,
                   crashed, kind, rval, whead, wtail, prev, surplus, calls>>

\* (Variant: notify leaves the wake to the next leave.)
CheckEmptySkipped(t) ==
    /\ At(t, "checkempty")
    /\ Goto(t, "idle")
    /\ UNCHANGED <<value, waiters, kernelVars, listVars, crashed, locals, surplus, calls>>

\* and if the group is empty by now nobody else will wake it.
CheckEmpty(t) ==
    /\ At(t, "checkempty")
    /\ Goto(t, IF Empty THEN "takehead" ELSE "idle")
    /\ UNCHANGED <<value, waiters, kernelVars, listVars, crashed, locals, surplus, calls>>

-----------------------------------------------------------------------------
WaitKinds == {"now", "timed", "forever"}

WaitStep(t) == LookEmpty(t) \/ LookBusy(t) \/ Count(t) \/ Recheck(t) \/ Undo(t)
WakeStep(t) == \/ TakeHead(t) \/ TakeTail(t) \/ TakeWaiters(t) \/ SignalWaiter(t)
               \/ FireNote(t) \/ Advance(t) \/ Release(t)
NotifyStep(t) == Append(t) \/ Link(t) \/ Retain(t) \/ SetHead(t) \/ CheckEmpty(t)

Step(t) == WaitStep(t) \/ WakeStep(t) \/ NotifyStep(t)

Next == \E t \in Threads :
            \/ Enter(t) \/ Leave(t)
            \/ \E k \in WaitKinds : Wait(t, k)
            \/ \E n \in Notes : Notify(t, n)
            \/ Step(t) \/ KernelWake(t) \/ KernelTimeout(t)

\* The scheduler lets every running thread go on, timers expire, and the
\* kernel semaphore passes over no waiter for ever.
Fairness == \A t \in Threads : /\ WF_vars(Step(t))
                               /\ SF_vars(KernelWake(t))
                               /\ WF_vars(KernelTimeout(t))

Spec == Init /\ [][Next]_vars

FairSpec == Spec /\ Fairness

-----------------------------------------------------------------------------
Statuses == {"unused", "pending", "fired", "freed"}
TypeOK == /\ value \in LongMin .. LongMax
          /\ waiters \in Nat /\ kern \in Nat /\ refs \in Nat
          /\ waiterPort \in BOOLEAN /\ crashed \in BOOLEAN
          /\ {head, tail} \subseteq Notes \cup {None}
          /\ next \in [Notes -> Notes \cup {None}]
          /\ status \in [Notes -> Statuses]  \* in particular, fired once
          /\ pc \in [Threads -> Points]
          /\ kind \in [Threads -> WaitKinds]
          /\ rval \in [Threads -> Nat]
          /\ {whead, wtail, dsn, prev} \subseteq [Threads -> Notes \cup {None}]
          /\ surplus \in Nat
          /\ calls \in 0 .. MaxCalls

\* Threads that count as group waiters.
GroupWaiters == ThreadsAt(Threads, pc, {"recheck", "timedwait", "undo", "drain"})

\* The kernel signals that wakes have still to send, each once.
Owed == UNION {{t} \X (1..rval[t]) : t \in Threads}

\* The counts and kernel signals are those of the group waiters, each once,
\* and of the waiters that left when they looked again: a time-out gives one
\* back or drains one, a wake turns what it takes into as many signals, and
\* none is lost or sent twice.
WaiterAccounting ==
    ~crashed => Cardinality(GroupWaiters) + surplus
                    = waiters + kern + Cardinality(Owed)

\* No wake is missed: of an empty group, a count left in dsema_group_waiters
\* is about to be taken by a wake, or its owner looks at the value again; and a
\* published list of blocks is about to be taken, or its notifier looks.
SomeAt(P) == \E t \in Threads : pc[t] \in P
WakeComing ==
    Empty => /\ waiters > 0 => SomeAt({"recheck", "takehead", "taketail", "takewaiters"})
             /\ head # None => SomeAt({"checkempty", "takehead"})

\* A notifier about to link its block from the previous tail never writes
\* into a block that a wake has freed.
LinkTargetAlive ==
    \A t \in Threads : pc[t] = "link" => status[prev[t]] \in {"pending", "fired"}

\* The list of notify blocks holds one reference on the group from before it
\* is published until its last block was submitted.
ListRetains ==
    refs = (IF head # None THEN 1 ELSE 0)
           + CountAt(Threads, pc, {"sethead", "release"})
           + Cardinality({t \in Threads : whead[t] # None})

\* The only crash is that of a leave without an enter, which wraps the value
\* around; DISPATCH_SEMAPHORE_VERIFY_KR's "flawed group/semaphore logic" is
\* never reached.
NoFlawedLogic == crashed => value = LongMin

\* Once the group stays empty, every registered block is submitted and every
\* waiter returns.
EventuallyServed ==
    <>[]Empty => <>[](/\ \A n \in Notes : status[n] \in {"unused", "freed"}
                      /\ \A t \in Threads : pc[t] \notin WaitPoints)
=============================================================================
