------------------------- MODULE DispatchSemaphore -------------------------
(***************************************************************************)
(* dispatch_semaphore_t (semaphore.c): a counter updated by one atomic     *)
(* instruction on the fast path, backed by a kernel semaphore on the slow  *)
(* path.  A negative dsema_value counts threads that went to the slow      *)
(* path.  One action is one atomic access to shared memory or one kernel   *)
(* call; a compare-and-swap loop whose failed rounds change nothing is the *)
(* single step of its successful round.                                    *)
(*                                                                         *)
(* Mach = TRUE is the build with USE_MACH_SEM, which also keeps the count  *)
(* dsema_sent_ksignals because the kernel semaphore may wake spuriously;   *)
(* Mach = FALSE is the build with USE_POSIX_SEM or USE_FUTEX_SEM, where    *)
(* the kernel's answer is trusted.                                         *)
(***************************************************************************)
EXTENDS ThreadCount

CONSTANTS Threads,   \* the threads that share the semaphore
          Orig,      \* dsema_orig, the value it was created with
          Mach,      \* TRUE for USE_MACH_SEM
          MaxCalls   \* bound: how many calls the threads make altogether

ASSUME SemaphoreAssumption ==
    /\ IsFiniteSet(Threads)
    /\ Orig \in Nat      \* dispatch_semaphore_create refuses a negative value
    /\ Mach \in BOOLEAN
    /\ MaxCalls \in Nat

VARIABLES value,   \* dsema_value
          ksig,    \* dsema_sent_ksignals (Mach build only)
          port,    \* dsema_port is set (lazily on Mach)
          kern,    \* count of the kernel semaphore published there
          pc,      \* where each thread is in signal or wait
          kind,    \* the timeout argument of each thread's current wait
          calls    \* calls made so far

vars == <<value, ksig, port, kern, pc, kind, calls>>

\* The timeout argument: DISPATCH_TIME_NOW, a time in between, FOREVER.
Kinds == {"now", "timed", "forever"}

\* Points of _dispatch_semaphore_wait_slow: "again" reads the signal count,
\* "waitport" tests dsema_port and "waitcreate" publishes a new one (in
\* _dispatch_semaphore_create_port), "timedwait" and "wait" are inside the
\* kernel, "undo" is about to give back what the fast path took.
SlowPoints == {"again", "waitport", "waitcreate", "timedwait", "undo", "wait"}

\* Points of _dispatch_semaphore_signal_slow: count the signal, test and
\* publish the port, signal the kernel.
SignalPoints == {"sent", "sigport", "sigcreate", "post"}

Points == {"idle"} \cup SlowPoints \cup SignalPoints

-----------------------------------------------------------------------------
Init == /\ value = Orig
        /\ ksig = 0
        /\ port = ~Mach
        /\ kern = 0
        /\ pc = [t \in Threads |-> "idle"]
        /\ kind = [t \in Threads |-> "forever"]
        /\ calls = 0

Goto(t, p) == pc' = [pc EXCEPT ![t] = p]

\* A thread enters one of the two calls.
Call(t) == /\ pc[t] = "idle"
           /\ calls < MaxCalls
           /\ calls' = calls + 1

\* The switch on the timeout in wait_slow.
SwitchPoint == [now |-> "undo", timed |-> "timedwait", forever |-> "wait"]

\* dispatch_semaphore_wait: the atomic decrement decides.
Wait(t, k) ==
    /\ Call(t)
    /\ kind' = [kind EXCEPT ![t] = k]
    /\ value' = value - 1
    /\ Goto(t, IF value' >= 0 THEN "idle"
               ELSE IF Mach THEN "again" ELSE SwitchPoint[k])
    /\ UNCHANGED <<ksig, port, kern>>

\* (Variant for mutation checks: the compare-and-swap result is ignored.)
TakeSentSignalTwice(t) ==
    /\ pc[t] = "again"
    /\ ksig > 0
    /\ Goto(t, "idle")
    /\ UNCHANGED <<value, ksig, port, kern, kind, calls>>

\* again: a signal already counted is taken without a kernel call.
TakeSentSignal(t) ==
    /\ pc[t] = "again"
    /\ ksig > 0
    /\ ksig' = ksig - 1
    /\ Goto(t, "idle")
    /\ UNCHANGED <<value, port, kern, kind, calls>>

\* again: nothing was sent; make sure of the port.
NoSentSignal(t) ==
    /\ pc[t] = "again"
    /\ ksig = 0
    /\ Goto(t, "waitport")
    /\ UNCHANGED <<value, ksig, port, kern, kind, calls>>

\* Where _dispatch_semaphore_create_port returns to: signal_slow signals the
\* kernel, wait_slow acts on the timeout.
AfterPort(t) == IF pc[t] \in SignalPoints THEN "post" ELSE SwitchPoint[kind[t]]

\* create_port: a port seen is used, else the thread creates a kernel
\* semaphore of its own, which nobody else knows yet.
TestPort(t) ==
    /\ pc[t] \in {"waitport", "sigport"}
    /\ Goto(t, IF port THEN AfterPort(t)
               ELSE IF pc[t] = "sigport" THEN "sigcreate" ELSE "waitcreate")
    /\ UNCHANGED <<value, ksig, port, kern, kind, calls>>

\* (Variant: a plain store in place of the compare-and-swap; it replaces a
\* semaphore published meanwhile, with the signals sent to it.)
PublishOver(t) ==
    /\ pc[t] \in {"waitcreate", "sigcreate"}
    /\ port' = TRUE
    /\ kern' = 0
    /\ Goto(t, AfterPort(t))
    /\ UNCHANGED <<value, ksig, kind, calls>>

\* create_port: the compare-and-swap publishes the new semaphore if there is
\* still none; the loser destroys its own and uses the published one.
PublishPort(t) ==
    /\ pc[t] \in {"waitcreate", "sigcreate"}
    /\ port' = TRUE
    /\ Goto(t, AfterPort(t))
    /\ UNCHANGED <<value, ksig, kern, kind, calls>>

\* What wait_slow does when the kernel lets it go: look again on Mach, return
\* in the other builds.
AfterWake == IF Mach THEN "again" ELSE "idle"

\* The kernel semaphore hands a unit to a thread that waits on it.
KernelWake(t) ==
    /\ pc[t] \in {"timedwait", "wait"}
    /\ port
    /\ kern > 0
    /\ kern' = kern - 1
    /\ Goto(t, AfterWake)
    /\ UNCHANGED <<value, ksig, port, kind, calls>>

\* "Mach semaphores appear to sometimes spuriously wake up."
SpuriousWake(t) ==
    /\ Mach
    /\ pc[t] \in {"timedwait", "wait"}
    /\ Goto(t, "again")
    /\ UNCHANGED <<value, ksig, port, kern, kind, calls>>

\* (Variant: a timeout is taken for a spurious wakeup.)
KernelTimeoutRetried(t) ==
    /\ pc[t] = "timedwait"
    /\ Goto(t, AfterWake)
    /\ UNCHANGED <<value, ksig, port, kern, kind, calls>>

\* The timed kernel wait runs out.
KernelTimeout(t) ==
    /\ pc[t] = "timedwait"
    /\ Goto(t, "undo")
    /\ UNCHANGED <<value, ksig, port, kern, kind, calls>>

\* (Variant: the unit is given back without looking at the value.)
UndoUnchecked(t) ==
    /\ pc[t] = "undo"
    /\ value' = value + 1
    /\ Goto(t, "idle")
    /\ UNCHANGED <<ksig, port, kern, kind, calls>>

\* Give back what the fast path took and return a timeout ...
Undo(t) ==
    /\ pc[t] = "undo"
    /\ value < 0
    /\ value' = value + 1
    /\ Goto(t, "idle")
    /\ UNCHANGED <<ksig, port, kern, kind, calls>>

\* ... unless a signal got there first: its wakeup has to be drained.
UndoTooLate(t) ==
    /\ pc[t] = "undo"
    /\ value >= 0
    /\ Goto(t, "wait")
    /\ UNCHANGED <<value, ksig, port, kern, kind, calls>>

\* dispatch_semaphore_signal: the atomic increment decides.
Signal(t) ==
    /\ Call(t)
    /\ value' = value + 1
    /\ Goto(t, IF value' > 0 THEN "idle" ELSE IF Mach THEN "sent" ELSE "post")
    /\ UNCHANGED <<ksig, port, kern, kind>>

\* signal_slow counts the signal it is about to send (Mach).
CountSent(t) ==
    /\ pc[t] = "sent"
    /\ ksig' = ksig + 1
    /\ Goto(t, "sigport")
    /\ UNCHANGED <<value, port, kern, kind, calls>>

\* (Variant: the signal is counted and never sent.)
KernelSignalLost(t) ==
    /\ pc[t] = "post"
    /\ Goto(t, "idle")
    /\ UNCHANGED <<value, ksig, port, kern, kind, calls>>

\* signal_slow signals the kernel semaphore.
KernelSignal(t) ==
    /\ pc[t] = "post"
    /\ kern' = kern + 1
    /\ Goto(t, "idle")
    /\ UNCHANGED <<value, ksig, port, kind, calls>>

\* What a thread that is inside a call does next, the choices of the kernel
\* excepted.
Step(t) == \/ TakeSentSignal(t) \/ NoSentSignal(t)
           \/ TestPort(t) \/ PublishPort(t)
           \/ Undo(t) \/ UndoTooLate(t)
           \/ CountSent(t) \/ KernelSignal(t)

Next == \E t \in Threads :
            \/ \E k \in Kinds : Wait(t, k)
            \/ Signal(t)
            \/ Step(t)
            \/ KernelWake(t)
            \/ SpuriousWake(t)
            \/ KernelTimeout(t)

\* A running thread goes on (the scheduler).  The timeout is a point in time
\* from which _dispatch_timeout recomputes what is left at every round, so it
\* expires however often the thread is woken meanwhile; and the kernel
\* semaphore, created with SYNC_POLICY_FIFO, does not pass over a waiter for
\* ever.  Nobody is obliged to make a call.
Fairness == \A t \in Threads :
                /\ WF_vars(Step(t))
                /\ SF_vars(KernelTimeout(t))
                /\ SF_vars(KernelWake(t))

Spec == Init /\ [][Next]_vars
FairSpec == Spec /\ Fairness

-----------------------------------------------------------------------------
TypeOK == /\ value \in Int
          /\ ksig \in Nat
          /\ port \in BOOLEAN
          /\ kern \in Nat
          /\ pc \in [Threads -> Points]
          /\ kind \in [Threads -> Kinds]
          /\ calls \in 0 .. MaxCalls

\* Threads inside wait_slow.
SlowWaiters == ThreadsAt(Threads, pc, SlowPoints)

\* Units on their way to a slow waiter: those it can already take, and those
\* of a signaller that incremented dsema_value and has not delivered yet.
Delivered == IF Mach THEN ksig ELSE kern
Undelivered == CountAt(Threads, pc, IF Mach THEN {"sent"} ELSE {"post"})

\* Every thread of the slow path is accounted for, once: the negative part of
\* dsema_value, or one unit on its way to it.  (The comment in
\* dispatch_semaphore_create says this of a value with no signal in flight.)
Accounting == Cardinality(SlowWaiters) =
                  (IF value < 0 THEN -value ELSE 0) + Delivered + Undelivered

\* A counted signal cannot be missed: for each there is a kernel signal given
\* or about to be given, or an awake thread that has yet to look at the count.
\* In particular no signal goes to a kernel semaphore that loses the race to
\* be published in dsema_port.
NoMissedSignal ==
    Mach => ksig <= kern + CountAt(Threads, pc, {"sigport", "sigcreate", "post"})
                         + CountAt(Threads, pc, {"again"})

\* The promise, as a counting semaphore: the units available are the value
\* plus those the slow waiters were charged for.
Abstract == INSTANCE CountingSemaphore
                WITH avail <- value + Cardinality(SlowWaiters),
                     waiting <- SlowWaiters
AbstractSpec == Abstract!Spec

\* When the value stays non-negative there is a unit for every waiter, and
\* every one of them comes back.
WaitersServed == <>[](value >= 0) => []<>(SlowWaiters = {})

\* A wait with a timeout comes back, signalled or not, whatever the other
\* threads do.  "Another thread called semaphore_signal(). Fall through and
\* drain the wakeup" (semaphore.c:305) promises a wakeup to drain.
TimedWaitReturns ==
    \A t \in Threads : (pc[t] \in SlowPoints /\ kind[t] # "forever")
                            ~> (pc[t] = "idle")

\* What the code does guarantee: a wait with a timeout comes back or else it
\* is draining a wakeup that another waiter took, with the value negative.
TimedWaitReturnsOrRobbed ==
    \A t \in Threads : (pc[t] \in SlowPoints /\ kind[t] # "forever")
                            ~> (pc[t] = "idle" \/ (pc[t] = "wait" /\ value < 0))
=============================================================================
