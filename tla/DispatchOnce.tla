---------------------------- MODULE DispatchOnce ----------------------------
(***************************************************************************)
(* dispatch_once_f (once.c).  The predicate *vval is NULL, DONE, or the    *)
(* head of a list of waiters: records dow on the stacks of the threads     *)
(* that wait, linked by dow_next down to the record of the thread that     *)
(* runs the function.  Each waiter sleeps on its thread semaphore.         *)
(*                                                                         *)
(* A thread's record is named by the thread.  One action is one atomic     *)
(* access to memory another thread uses, or one kernel call.  The names    *)
(* are kept apart from those of DispatchApply: RunOnceProofs extends both. *)
(***************************************************************************)
EXTENDS Naturals, FiniteSets

CONSTANTS Threads,   \* threads that call dispatch_once on one predicate
          Null,      \* the NULL pointer
          Done,      \* DISPATCH_ONCE_DONE, the pointer ~0l
          MaxCalls   \* bound: calls the threads make altogether

ASSUME OnceAssumption == /\ {Null, Done} \cap Threads = {}
                         /\ Null # Done
                         /\ MaxCalls \in Nat

VARIABLES vval,   \* *vval
          dow_next, \* of each thread's record
          dow_sema, \* count of the semaphore in each thread's record
          tmp,    \* local tmp of each thread
          at,     \* where each thread is
          calls   \* calls made so far

dowVars == <<vval, dow_next, dow_sema, tmp, at, calls>>

\* "run" to "signal" are the first branch of dispatch_once_f, "load" to
\* "block" the second.
RunnerPoints == {"run", "walk", "signal"}
WaiterPoints == {"load", "push", "setnext", "block"}
OncePoints == {"idle"} \cup RunnerPoints \cup WaiterPoints

-----------------------------------------------------------------------------
OnceInit ==
    /\ vval = Null
    /\ dow_next = [t \in Threads |-> Null]
    /\ dow_sema = [t \in Threads |-> 0]
    /\ tmp = [t \in Threads |-> Null]
    /\ at = [t \in Threads |-> "idle"]
    /\ calls = 0

OnceGoto(t, p) == at' = [at EXCEPT ![t] = p]

\* (Variant for mutation checks: a test and a store instead of one
\* compare-and-swap, so that every thread that saw NULL runs the function.)
CallUnlessDone(t) ==
    /\ at[t] = "idle"
    /\ calls < MaxCalls
    /\ calls' = calls + 1
    /\ dow_next' = [dow_next EXCEPT ![t] = Null]
    /\ vval' = IF vval = Null THEN t ELSE vval
    /\ OnceGoto(t, IF vval = Done THEN "load" ELSE "run")
    /\ UNCHANGED <<dow_sema, tmp>>

\* A call with a fresh record: the compare-and-swap from NULL chooses the
\* thread that runs the function.
CallOnce(t) ==
    /\ at[t] = "idle"
    /\ calls < MaxCalls
    /\ calls' = calls + 1
    /\ dow_next' = [dow_next EXCEPT ![t] = Null]
    /\ IF vval = Null THEN vval' = t /\ OnceGoto(t, "run")
                      ELSE vval' = vval /\ OnceGoto(t, "load")
    /\ UNCHANGED <<dow_sema, tmp>>

\* The function returned: the exchange publishes DONE and takes the list.
Publish(t) ==
    /\ at[t] = "run"
    /\ tmp' = [tmp EXCEPT ![t] = vval]
    /\ vval' = Done
    /\ OnceGoto(t, "walk")
    /\ UNCHANGED <<dow_next, dow_sema, calls>>

\* The list ends with the runner's own record.
WalkEnd(t) ==
    /\ at[t] = "walk"
    /\ tmp[t] = t
    /\ tmp' = [tmp EXCEPT ![t] = Null]
    /\ OnceGoto(t, "idle")
    /\ UNCHANGED <<vval, dow_next, dow_sema, calls>>

\* (Variant: the runner does not wait for dow_next.)
WalkUnlinked(t) ==
    /\ at[t] = "walk"
    /\ tmp[t] # t
    /\ OnceGoto(t, "signal")
    /\ UNCHANGED <<vval, dow_next, dow_sema, tmp, calls>>

\* Wait until the record at hand is linked.
WalkLinked(t) ==
    /\ at[t] = "walk"
    /\ tmp[t] # t
    /\ dow_next[tmp[t]] # Null
    /\ OnceGoto(t, "signal")
    /\ UNCHANGED <<vval, dow_next, dow_sema, tmp, calls>>

\* Read its semaphore and its successor, then wake its owner: from here on
\* the record may be gone.
SignalWaiter(t) ==
    /\ at[t] = "signal"
    /\ dow_sema' = [dow_sema EXCEPT ![tmp[t]] = dow_sema[tmp[t]] + 1]
    /\ tmp' = [tmp EXCEPT ![t] = dow_next[tmp[t]]]
    /\ OnceGoto(t, "walk")
    /\ UNCHANGED <<vval, dow_next, calls>>

\* A waiter reads the predicate: done, return ...
LoadDone(t) ==
    /\ at[t] = "load"
    /\ vval = Done
    /\ OnceGoto(t, "idle")
    /\ tmp' = [tmp EXCEPT ![t] = Null]
    /\ UNCHANGED <<vval, dow_next, dow_sema, calls>>

\* ... or not yet.
LoadBusy(t) ==
    /\ at[t] = "load"
    /\ vval # Done
    /\ tmp' = [tmp EXCEPT ![t] = vval]
    /\ OnceGoto(t, "push")
    /\ UNCHANGED <<vval, dow_next, dow_sema, calls>>

\* The compare-and-swap puts its record at the head of the list, or the list
\* has changed and it reads again.
Push(t) ==
    /\ at[t] = "push"
    /\ IF vval = tmp[t] THEN vval' = t /\ OnceGoto(t, "setnext")
                        ELSE vval' = vval /\ OnceGoto(t, "load")
    /\ UNCHANGED <<dow_next, dow_sema, tmp, calls>>

\* (Variant: the waiter sleeps without linking its record.)
SetNextForgotten(t) ==
    /\ at[t] = "setnext"
    /\ OnceGoto(t, "block")
    /\ UNCHANGED <<vval, dow_next, dow_sema, tmp, calls>>

\* Link the record to the rest of the list.
SetNext(t) ==
    /\ at[t] = "setnext"
    /\ dow_next' = [dow_next EXCEPT ![t] = tmp[t]]
    /\ OnceGoto(t, "block")
    /\ UNCHANGED <<vval, dow_sema, tmp, calls>>

\* Sleep until woken, and look again.
Block(t) ==
    /\ at[t] = "block"
    /\ dow_sema[t] > 0
    /\ dow_sema' = [dow_sema EXCEPT ![t] = dow_sema[t] - 1]
    /\ OnceGoto(t, "load")
    /\ UNCHANGED <<vval, dow_next, tmp, calls>>

\* What a thread inside a call does next.
OnceStep(t) ==
    \/ Publish(t) \/ WalkEnd(t) \/ WalkLinked(t) \/ SignalWaiter(t)
    \/ LoadDone(t) \/ LoadBusy(t) \/ Push(t) \/ SetNext(t) \/ Block(t)

OnceNext == \E t \in Threads : CallOnce(t) \/ OnceStep(t)

\* The function returns and every thread goes on.
OnceFairness == \A t \in Threads : WF_dowVars(OnceStep(t))

DispatchOnceSpec == OnceInit /\ [][OnceNext]_dowVars
OnceFairSpec == DispatchOnceSpec /\ OnceFairness

-----------------------------------------------------------------------------
TypeOK == /\ vval \in Threads \cup {Null, Done}
          /\ dow_next \in [Threads -> Threads \cup {Null}]
          /\ dow_sema \in [Threads -> Nat]
          /\ tmp \in [Threads -> Threads \cup {Null}]
          /\ at \in [Threads -> OncePoints]
          /\ calls \in 0 .. MaxCalls

\* The promise.
AbstractOnce == INSTANCE Once
                    WITH running <- {t \in Threads : at[t] = "run"},
                         done <- (vval = Done),
                         inside <- {t \in Threads : at[t] # "idle"}
OnceSpec == AbstractOnce!Spec

\* The record the runner looks at is still on the stack of a thread that
\* sleeps, or is about to: a record is read only while it exists.
WaiterRecordAlive == \A r \in Threads :
    at[r] \in {"walk", "signal"} /\ tmp[r] # r
        => tmp[r] # Null /\ at[tmp[r]] \in {"setnext", "block"} /\ dow_sema[tmp[r]] = 0

\* The thread semaphore, which goes back to a cache for other uses, is given
\* back with no signal left in it.
SemaphoreReturnedClean == \A t \in Threads : at[t] # "block" => dow_sema[t] = 0

\* Every call returns once the function has.
EveryCallReturns == \A t \in Threads : at[t] # "idle" ~> at[t] = "idle"
=============================================================================
