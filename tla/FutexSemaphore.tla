--------------------------- MODULE FutexSemaphore ---------------------------
(***************************************************************************)
(* A dispatch semaphore in the futex build (semaphore.c) and the life of   *)
(* the object (object.c).  The futex word holds a count of units in its    *)
(* low half and a count of waiters in its high half; each change of it is  *)
(* one atomic access to both.                                              *)
(*                                                                         *)
(* A reference is external (os_obj_xref_cnt, the clients' retain and       *)
(* release) or internal (os_obj_ref_cnt); both counts are one less than    *)
(* what they count.  All external references together own one internal     *)
(* one.  A thread waits only while it holds a reference, but it may signal *)
(* without one while some thread waits, which is what the comment in       *)
(* _dispatch_semaphore_signal_slow relies on.                              *)
(***************************************************************************)
EXTENDS Integers, FiniteSets

CONSTANTS Threads,  \* the client threads
          Orig,     \* the value the semaphore is created with
          MaxCalls  \* bound: calls of wait, signal and retain_weak altogether

ASSUME FutexAssumption == Orig \in Nat /\ MaxCalls \in Nat /\ IsFiniteSet(Threads)

VARIABLES value,          \* dsema_value
          count, nwait,   \* the halves of dsema_futex: units, waiters
          asleep,         \* threads that sleep in FUTEX_WAIT
          xref, ref,      \* os_obj_xref_cnt, os_obj_ref_cnt
          disposed,       \* the memory was given back
          holders,        \* threads that hold an external reference
          pc, kind,       \* per thread: place, timeout of its wait
          calls           \* calls made so far

futex == <<count, nwait, asleep>>
refs == <<xref, ref, disposed, holders>>
vars == <<value, futex, refs, pc, kind, calls>>

Kinds == {"now", "timed", "forever"}
SlowPoints == {"try", "enter", "sleep", "asleep", "leave", "expired", "undo"}
SignalPoints == {"retain", "post", "wake"}
Points == {"idle", "release", "xdispose"} \cup SlowPoints \cup SignalPoints

Init == /\ value = Orig
        /\ count = 0 /\ nwait = 0 /\ asleep = {}
        /\ holders \in (SUBSET Threads) \ {{}}
        /\ xref = Cardinality(holders) - 1 /\ ref = 0 /\ disposed = FALSE
        /\ pc = [t \in Threads |-> "idle"]
        /\ kind = [t \in Threads |-> "forever"]
        /\ calls = 0

Goto(t, p) == pc' = [pc EXCEPT ![t] = p]
Move(t, p, q) == pc[t] = p /\ Goto(t, q)
Call(t) == pc[t] = "idle" /\ calls < MaxCalls /\ calls' = calls + 1

-----------------------------------------------------------------------------
(* References.                                                             *)

\* _os_object_retain_weak: a reference for a thread that has none, unless the
\* last external one is gone.  The weak slot keeps the memory until disposal.
RetainWeak(t) ==
    /\ Call(t) /\ t \notin holders /\ ~disposed
    /\ xref # -1
    /\ xref' = xref + 1
    /\ holders' = holders \cup {t}
    /\ UNCHANGED <<value, futex, ref, disposed, pc, kind>>

\* _os_object_release: the last one gives the internal reference back.
\* A client may not let the object go while it owes it a signal.
ReleaseExternal(t) ==
    /\ pc[t] = "idle" /\ t \in holders
    /\ holders = {t} => value >= Orig
    /\ xref' = xref - 1
    /\ holders' = holders \ {t}
    /\ Goto(t, IF xref = 0 THEN "xdispose" ELSE "idle")
    /\ UNCHANGED <<value, futex, ref, disposed, kind, calls>>

\* _os_object_release_internal, at the end of a signal or of the last release.
ReleaseInternal(t) ==
    /\ pc[t] \in {"release", "xdispose"}
    /\ ref' = ref - 1
    /\ disposed' = (disposed \/ ref = 0)
    /\ Goto(t, "idle")
    /\ UNCHANGED <<value, futex, xref, holders, kind, calls>>

-----------------------------------------------------------------------------
(* dispatch_semaphore_signal.                                              *)

\* (Variant: the slow path does not retain.)
SignalUnretained(t) ==
    /\ Call(t)
    /\ t \in holders \/ value < 0
    /\ value' = value + 1
    /\ Goto(t, IF value' > 0 THEN "idle" ELSE "post")
    /\ UNCHANGED <<futex, refs, kind>>

Signal(t) ==
    /\ Call(t)
    /\ t \in holders \/ value < 0
    /\ value' = value + 1
    /\ Goto(t, IF value' > 0 THEN "idle" ELSE "retain")
    /\ UNCHANGED <<futex, refs, kind>>

\* _dispatch_semaphore_signal_slow holds a reference of its own.
RetainInternal(t) ==
    /\ Move(t, "retain", "post")
    /\ ref' = ref + 1
    /\ UNCHANGED <<value, futex, xref, disposed, holders, kind, calls>>

\* (Variant: a waiter is woken only by the first unit.)
PostFirst(t) ==
    /\ pc[t] = "post"
    /\ count' = count + 1
    /\ Goto(t, IF nwait > 0 /\ count = 0 THEN "wake" ELSE "release")
    /\ UNCHANGED <<value, nwait, asleep, refs, kind, calls>>

\* _dispatch_futex_signal: one more unit, and how many wait.
Post(t) ==
    /\ pc[t] = "post"
    /\ count' = count + 1
    /\ Goto(t, IF nwait > 0 THEN "wake" ELSE "release")
    /\ UNCHANGED <<value, nwait, asleep, refs, kind, calls>>

\* FUTEX_WAKE of one thread, if any sleeps.
Wake(t) ==
    /\ pc[t] = "wake"
    /\ IF asleep = {} THEN Goto(t, "release") /\ UNCHANGED asleep
       ELSE \E u \in asleep : /\ asleep' = asleep \ {u}
                              /\ pc' = [pc EXCEPT ![t] = "release", ![u] = "leave"]
    /\ UNCHANGED <<value, count, nwait, refs, kind, calls>>

-----------------------------------------------------------------------------
(* dispatch_semaphore_wait.                                                *)

Wait(t, k) ==
    /\ Call(t) /\ t \in holders
    /\ value' = value - 1
    /\ kind' = [kind EXCEPT ![t] = IF value > 0 THEN @ ELSE k]
    /\ Goto(t, IF value > 0 THEN "idle" ELSE IF k = "now" THEN "undo" ELSE "try")
    /\ UNCHANGED <<futex, refs>>

\* _dispatch_futex_trywait: take a unit, and the wait is over.
TryWait(t) ==
    /\ pc[t] = "try"
    /\ IF count > 0 THEN /\ count' = count - 1
                         /\ kind' = [kind EXCEPT ![t] = "forever"]
                         /\ Goto(t, "idle")
       ELSE Goto(t, "enter") /\ UNCHANGED <<count, kind>>
    /\ UNCHANGED <<value, nwait, asleep, refs, calls>>

\* _dispatch_futex_wait_slow: be counted before going to sleep.
Enter(t) ==
    /\ Move(t, "enter", "sleep")
    /\ nwait' = nwait + 1
    /\ UNCHANGED <<value, count, asleep, refs, kind, calls>>

\* (Variant: FUTEX_WAIT with the value the word has now.)
SleepAnyway(t) ==
    /\ Move(t, "sleep", "asleep")
    /\ asleep' = asleep \cup {t}
    /\ UNCHANGED <<value, count, nwait, refs, kind, calls>>

\* FUTEX_WAIT sleeps only while the count is 0 (else EWOULDBLOCK).
Sleep(t) ==
    /\ pc[t] = "sleep"
    /\ IF count = 0 THEN asleep' = asleep \cup {t} /\ Goto(t, "asleep")
                    ELSE asleep' = asleep /\ Goto(t, "leave")
    /\ UNCHANGED <<value, count, nwait, refs, kind, calls>>

\* The sleep ends with EINTR, or at its time-out.
Interrupted(t) ==
    /\ pc[t] = "asleep"
    /\ asleep' = asleep \ {t}
    /\ \/ Goto(t, "leave")
       \/ kind[t] = "timed" /\ Goto(t, "expired")
    /\ UNCHANGED <<value, count, nwait, refs, kind, calls>>

\* Woken, refused or interrupted: no longer counted, look again.  In the last
\* two cases the caller comes back with the timeout computed anew.
Leave(t) ==
    /\ pc[t] \in {"leave", "expired"}
    /\ nwait' = nwait - 1
    /\ Goto(t, IF pc[t] = "leave" THEN "try" ELSE "undo")
    /\ UNCHANGED <<value, count, asleep, refs, kind, calls>>

\* (Variant: the decrement is taken back in any case.)
UndoAlways(t) ==
    /\ Move(t, "undo", "idle")
    /\ value' = value + 1
    /\ kind' = [kind EXCEPT ![t] = "forever"]
    /\ UNCHANGED <<futex, refs, calls>>

\* Out of time: take the decrement back, unless a signal has been sent for it
\* (the wait goes on until that unit is found).
Undo(t) ==
    /\ pc[t] = "undo"
    /\ kind' = [kind EXCEPT ![t] = "forever"]
    /\ IF value < 0 THEN value' = value + 1 /\ Goto(t, "idle")
                    ELSE value' = value /\ Goto(t, "try")
    /\ UNCHANGED <<futex, refs, calls>>

-----------------------------------------------------------------------------
Step(t) == \/ ReleaseInternal(t) \/ RetainInternal(t) \/ Post(t) \/ Wake(t)
           \/ TryWait(t) \/ Enter(t) \/ Sleep(t) \/ Leave(t) \/ Undo(t)

Next == \E t \in Threads :
            \/ RetainWeak(t) \/ ReleaseExternal(t) \/ Signal(t)
            \/ \E k \in Kinds : Wait(t, k)
            \/ Step(t) \/ Interrupted(t)

Spec == Init /\ [][Next]_vars
FairSpec == Spec /\ \A t \in Threads : WF_vars(Step(t))

-----------------------------------------------------------------------------
SlowWaiters == {t \in Threads : pc[t] \in SlowPoints}
Awake == {t \in Threads : pc[t] \in {"try", "enter", "sleep", "leave"}}
At(p) == {t \in Threads : pc[t] = p}

TypeOK == /\ value \in Int /\ count \in Nat /\ nwait \in Nat
          /\ asleep = At("asleep")
          /\ xref \in Nat \cup {-1} /\ ref \in Nat \cup {-1}
          /\ disposed \in BOOLEAN /\ holders \subseteq Threads
          /\ pc \in [Threads -> Points] /\ kind \in [Threads -> Kinds]
          /\ calls \in 0..MaxCalls

\* Nobody touches the semaphore after its memory is gone: not a signal that
\* relied on a waiter's reference (semaphore.c, _dispatch_semaphore_signal_slow),
\* not a holder of a weak reference turned strong.
NoUseAfterDispose == disposed => /\ holders = {}
                                 /\ \A t \in Threads : pc[t] = "idle"

\* A thread sleeps beside a unit only if somebody is on the way to it: a
\* FUTEX_WAKE that is still to come, or a waiter that is awake and will look.
NoLostWakeup == asleep # {} => count <= Cardinality(At("wake") \cup Awake)

\* With the futex, too, the semaphore is a counting semaphore.
Abstract == INSTANCE CountingSemaphore
                WITH avail <- value + Cardinality(SlowWaiters),
                     waiting <- SlowWaiters
AbstractSpec == Abstract!Spec

\* When the value stays non-negative every wait comes to an end.
WaitersServed == <>[](value >= 0) => []<>(SlowWaiters = {})
=============================================================================
