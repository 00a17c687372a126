--------------------------- MODULE DispatchQueue ---------------------------
(***************************************************************************)
(* A dispatch queue that targets a root queue (queue.c): the list of       *)
(* items, pushed at dq_items_tail without a lock and popped by whoever     *)
(* drains; dq_running, the count of blocks that run (two for each, one for *)
(* a drain or a barrier on the fast path); and do_suspend_cnt, whose low   *)
(* bit is the lock held while the queue is on its target.                  *)
(*                                                                         *)
(* Clients submit blocks and suspend and resume the queue; workers are the *)
(* threads of the pool that pop what was pushed on the root queue.  The    *)
(* root queue is abstract here: it hands every item to one worker, in any  *)
(* order.  One action is one atomic access to the queue; accesses that     *)
(* only the thread at hand can be affected by are merged with the next.    *)
(* A block runs from the step that starts it to the next step of the       *)
(* thread it runs on.                                                      *)
(***************************************************************************)
EXTENDS ThreadCount

CONSTANTS Clients,     \* threads that call the queue
          Workers,     \* threads of the pool
          Blocks,      \* blocks that may be submitted, each once
          None,        \* the NULL pointer
          Width,       \* dq_width: 1 for a serial queue
          Calls,       \* which calls the clients make
          MaxSuspends, \* bound: how many times the queue is suspended
          MayRelease   \* whether clients give up their references

AllCalls == {"async", "barrier", "sync", "bsync"}

ASSUME QueueAssumption ==
    /\ IsFiniteSet(Clients) /\ IsFiniteSet(Workers) /\ IsFiniteSet(Blocks)
    /\ Clients \cap Workers = {}
    /\ None \notin Blocks /\ None \notin Clients
    /\ Width \in Nat \ {0}
    /\ Calls \subseteq AllCalls
    /\ MaxSuspends \in Nat
    /\ MayRelease \in BOOLEAN

VARIABLES running,      \* dq_running
          suspend,      \* do_suspend_cnt
          refs,         \* do_ref_cnt: one less than the internal references
          head, tail,   \* dq_items_head, dq_items_tail
          next,         \* do_next of every item
          queued,       \* how many times the queue is on its target
          redirected,   \* blocks pushed on the target by async_f_redirect
          signalled,    \* blocks whose thread semaphore was signalled
          kind,         \* the call each block was submitted with
          owner,        \* the client that submitted it
          ahead,        \* what that client had submitted and had not ended
          status,       \* "new", "called", "queued", "running" or "done"
          holds,        \* clients that hold an external reference
          suspended,    \* outstanding calls of dispatch_suspend
          suspends,     \* calls of dispatch_suspend so far
          pc,           \* where each thread is
          blk,          \* the block of a call, or of a redirected item
          dc, nextdc,   \* locals of the drain
          sema,         \* drain: the barrier sync to be signalled
          prev,         \* push: the previous tail
          after         \* where to go on after a function that was called

countVars == <<running, suspend, refs>>
listVars == <<head, tail, next>>
rootVars == <<queued, redirected>>
blockVars == <<kind, owner, ahead>>
userVars == <<holds, suspended, suspends>>
drainVars == <<dc, nextdc, sema>>

\* What the threads share, what is only history, and their local variables.
shared == <<countVars, listVars, rootVars, signalled>>
history == <<blockVars, status, userVars>>
locals == <<blk, drainVars, prev, after>>
vars == <<shared, history, pc, locals>>

Threads == Clients \cup Workers
LOCK == 1       \* DISPATCH_OBJECT_SUSPEND_LOCK
INTERVAL == 2   \* DISPATCH_OBJECT_SUSPEND_INTERVAL
Suspended == suspend >= INTERVAL

Serial == Width = 1
Barriers == {"barrier", "bsync"}
Syncs == {"sync", "bsync"}

\* dispatch_async_f and dispatch_sync_f on a queue of width 1 are barriers.
Effective(c) == IF ~Serial THEN c
                ELSE IF c \in Syncs THEN "bsync" ELSE "barrier"

-----------------------------------------------------------------------------
Init == /\ running = 0 /\ suspend = 0 /\ refs = 0
        /\ head = None /\ tail = None
        /\ next = [b \in Blocks |-> None]
        /\ queued = 0 /\ redirected = {} /\ signalled = {}
        /\ kind = [b \in Blocks |-> "async"]
        /\ owner = [b \in Blocks |-> None]
        /\ ahead = [b \in Blocks |-> {}]
        /\ status = [b \in Blocks |-> "new"]
        /\ holds = Clients /\ suspended = 0 /\ suspends = 0
        /\ pc = [t \in Threads |-> "idle"]
        /\ blk = [t \in Threads |-> None]
        /\ dc = [t \in Threads |-> None]
        /\ nextdc = [t \in Threads |-> None]
        /\ sema = [t \in Threads |-> None]
        /\ prev = [t \in Threads |-> None]
        /\ after = [t \in Threads |-> "idle"]

-----------------------------------------------------------------------------
At(t, p) == pc[t] = p
Goto(t, p) == pc' = [pc EXCEPT ![t] = p]

\* A step that only decides where to go.
Branch(t, from, to) == At(t, from) /\ Goto(t, to) /\ UNCHANGED <<shared, history, locals>>

\* An atomic addition to dq_running, to do_suspend_cnt.
AddRunning(t, from, n) ==
    /\ At(t, from)
    /\ running' = running + n
    /\ UNCHANGED <<suspend, refs, listVars, rootVars, signalled, blockVars, userVars>>
AddSuspend(t, from, n) ==
    /\ At(t, from)
    /\ suspend' = suspend + n
    /\ UNCHANGED <<running, refs, listVars, rootVars, signalled, history, locals>>

\* Call a function and go on at p when it returns.
Enter(t, function, p) == Goto(t, function) /\ after' = [after EXCEPT ![t] = p]
Stay(t, p) == Goto(t, p) /\ after' = after
Return(t) == Goto(t, after[t]) /\ after' = [after EXCEPT ![t] = "idle"]

\* if (running == 0) _dispatch_wakeup(dq), and go on at p.
WakeIfIdle(t, p) == IF running' = 0 THEN Enter(t, "wake", p) ELSE Stay(t, p)

\* A block starts, and ends; a call has no more use for its block.
Start(b) == status' = [status EXCEPT ![b] = "running"]
Finish(b) == status' = [status EXCEPT ![b] = "done"]
Forget(t) == blk' = [blk EXCEPT ![t] = None]

-----------------------------------------------------------------------------
(* The calls: dispatch_async_f, dispatch_barrier_async_f, dispatch_sync_f  *)
(* and dispatch_barrier_sync_f, up to the push or the fast path.           *)

\* A call with a block.  A barrier goes straight to the list.
Call(t, b, c) ==
    /\ At(t, "idle") /\ t \in holds
    /\ status[b] = "new"
    /\ status' = [status EXCEPT ![b] = "called"]
    /\ kind' = [kind EXCEPT ![b] = Effective(c)]
    /\ owner' = [owner EXCEPT ![b] = t]
    /\ ahead' = [ahead EXCEPT ![b] = {a \in Blocks : owner[a] = t /\ status[a] # "done"}]
    /\ blk' = [blk EXCEPT ![t] = b]
    /\ Goto(t, IF Effective(c) = "barrier" THEN "push" ELSE "look")
    /\ UNCHANGED <<shared, userVars, drainVars, prev, after>>

\* (Variant for mutation checks: the list is not looked at.)
LookTailSkipped(t) == Branch(t, "look", "looksuspended")

\* "1) ensure that this thread hasn't enqueued anything ahead of this call"
LookTail(t) == Branch(t, "look", IF tail # None THEN "push" ELSE "looksuspended")

\* "2) the queue is not suspended"
LookSuspended(t) ==
    Branch(t, "looksuspended", IF Suspended THEN "push"
                               ELSE IF kind[blk[t]] = "bsync" THEN "lock" ELSE "enter")

\* barrier_sync_f: the compare-and-swap of dq_running from 0 to 1.
Lock(t) ==
    \/ /\ running = 0
       /\ AddRunning(t, "lock", 1)
       /\ Goto(t, "runlocked")
       /\ Start(blk[t])
       /\ UNCHANGED locals
    \/ running # 0 /\ Branch(t, "lock", "push")

\* sync_f2: count one more block in, and run it unless there is a barrier.
EnterSync(t) ==
    /\ AddRunning(t, "enter", 2)
    /\ kind[blk[t]] = "sync"
    /\ IF running' % 2 = 1 THEN Goto(t, "backout") /\ status' = status
                           ELSE Goto(t, "runreader") /\ Start(blk[t])
    /\ UNCHANGED locals

\* (Variant: the width of the queue is not looked at.)
EnterAsyncAnyWidth(t) ==
    /\ AddRunning(t, "enter", 2)
    /\ kind[blk[t]] = "async"
    /\ Goto(t, IF running' % 2 = 1 THEN "backout" ELSE "redirect")
    /\ UNCHANGED <<status, locals>>

\* async_f2: the same within the width of the queue, and the block goes to
\* the target.
EnterAsync(t) ==
    /\ AddRunning(t, "enter", 2)
    /\ kind[blk[t]] = "async"
    /\ Goto(t, IF running' > Width THEN "overwide"
               ELSE IF running' % 2 = 1 THEN "backout" ELSE "redirect")
    /\ UNCHANGED <<status, locals>>

\* sync_f_slow2 and async_f2_slow: take the count back, wake the queue if
\* nothing runs any more, and join the list.
BackOut(t) ==
    /\ \/ AddRunning(t, "overwide", -2)
       \/ AddRunning(t, "backout", -2) /\ kind[blk[t]] = "sync"
    /\ WakeIfIdle(t, "push")
    /\ UNCHANGED <<status, blk, drainVars, prev>>

\* async_f2 met a barrier: "We might get lucky and find that the barrier has
\* ended by now" and look again, else join the list.
BackOutAsync(t) ==
    /\ AddRunning(t, "backout", -2)
    /\ kind[blk[t]] = "async"
    /\ Goto(t, IF running' % 2 = 1 THEN "push" ELSE "look")
    /\ UNCHANGED <<status, locals>>

\* async_f_redirect: the target gets the block and the queue a reference.
Redirect(t) ==
    /\ At(t, "redirect") /\ Goto(t, "idle")
    /\ refs' = refs + 1
    /\ redirected' = redirected \cup {blk[t]}
    /\ Forget(t)
    /\ UNCHANGED <<running, suspend, listVars, queued, signalled, history, drainVars, prev, after>>

-----------------------------------------------------------------------------
(* _dispatch_queue_push                                                    *)

\* The exchange of the tail makes the item the last one.
PushTail(t) ==
    /\ At(t, "push")
    /\ next' = [next EXCEPT ![blk[t]] = None]
    /\ tail' = blk[t]
    /\ prev' = [prev EXCEPT ![t] = tail]
    /\ status' = [status EXCEPT ![blk[t]] = "queued"]
    /\ Goto(t, IF tail # None THEN "link" ELSE "sethead")
    /\ UNCHANGED <<countVars, head, rootVars, signalled, blockVars, userVars, blk, drainVars, after>>

\* A synchronous call waits for its block to be popped, another one returns.
LeavePush(t) ==
    IF blk[t] # None /\ kind[blk[t]] \in Syncs
    THEN Goto(t, "wait") /\ blk' = blk
    ELSE Goto(t, "idle") /\ Forget(t)

\* There was a previous item: link it.
PushLink(t) ==
    /\ At(t, "link")
    /\ next' = [next EXCEPT ![prev[t]] = blk[t]]
    /\ prev' = [prev EXCEPT ![t] = None]
    /\ LeavePush(t)
    /\ UNCHANGED <<countVars, head, tail, rootVars, signalled, history, drainVars, after>>

\* (Variant: the queue is not retained, rdar://problem/6932776.)
PushHeadUnretained(t) ==
    /\ At(t, "sethead")
    /\ head' = blk[t]
    /\ Enter(t, "wake", "release")
    /\ UNCHANGED <<countVars, tail, next, rootVars, signalled, history, blk, drainVars, prev>>

\* push_list_slow2: there was none: retain the queue, publish the head ...
PushHead(t) ==
    /\ At(t, "sethead")
    /\ refs' = refs + 1
    /\ head' = blk[t]
    /\ Enter(t, "wake", "release")
    /\ UNCHANGED <<running, suspend, tail, next, rootVars, signalled, history, blk, drainVars, prev>>

\* ... wake the queue and release it.  (Also the last step of queue_invoke,
\* of redirect_invoke and of resume.)
Release(t) ==
    /\ At(t, "release")
    /\ refs' = refs - 1
    /\ LeavePush(t)
    /\ UNCHANGED <<running, suspend, listVars, rootVars, signalled, history, drainVars, prev, after>>

-----------------------------------------------------------------------------
(* _dispatch_wakeup                                                        *)

WakeSuspended(t) ==
    /\ At(t, "wake")
    /\ IF Suspended THEN Return(t) ELSE Stay(t, "wakeprobe")
    /\ UNCHANGED <<shared, history, blk, drainVars, prev>>

WakeProbe(t) ==
    /\ At(t, "wakeprobe")
    /\ IF tail = None THEN Return(t) ELSE Stay(t, "wakelock")
    /\ UNCHANGED <<shared, history, blk, drainVars, prev>>

\* (Variant: the lock bit is not tested.)
WakeLockLoose(t) ==
    /\ At(t, "wakelock")
    /\ IF suspend < INTERVAL
       THEN suspend' = LOCK /\ refs' = refs + 1 /\ queued' = queued + 1
       ELSE UNCHANGED <<suspend, refs, queued>>
    /\ Return(t)
    /\ UNCHANGED <<running, listVars, redirected, signalled, history, blk, drainVars, prev>>

\* Whoever takes the lock retains the queue and pushes it on its target.
WakeLock(t) ==
    /\ At(t, "wakelock")
    /\ IF suspend = 0
       THEN suspend' = LOCK /\ refs' = refs + 1 /\ queued' = queued + 1
       ELSE UNCHANGED <<suspend, refs, queued>>
    /\ Return(t)
    /\ UNCHANGED <<running, listVars, redirected, signalled, history, blk, drainVars, prev>>

-----------------------------------------------------------------------------
(* The end of a synchronous block.                                         *)

\* A pushed synchronous block runs on its own thread once signalled.
Resumed(t) ==
    /\ At(t, "wait")
    /\ blk[t] \in signalled
    /\ signalled' = signalled \ {blk[t]}
    /\ Start(blk[t])
    /\ Goto(t, IF kind[blk[t]] = "bsync" THEN "runslow" ELSE "runreader")
    /\ UNCHANGED <<countVars, listVars, rootVars, blockVars, userVars, locals>>

\* sync_f: count the block out.
LeaveSync(t) ==
    /\ AddRunning(t, "runreader", -2)
    /\ Finish(blk[t])
    /\ Forget(t)
    /\ WakeIfIdle(t, "idle")
    /\ UNCHANGED <<drainVars, prev>>

\* barrier_sync_f_invoke: are there items?
LeaveLocked(t) ==
    /\ At(t, "runlocked")
    /\ Finish(blk[t])
    /\ Forget(t)
    /\ Goto(t, IF tail = None THEN "unlockrunning" ELSE "handover")
    /\ UNCHANGED <<shared, blockVars, userVars, drainVars, prev, after>>

\* barrier_sync_f2: hand the lock over unless the queue is suspended,
Handover(t) ==
    /\ At(t, "handover")
    /\ IF Suspended THEN Stay(t, "unlockrunning") ELSE Enter(t, "take", "xfersuspend")
    /\ UNCHANGED <<shared, history, blk, drainVars, prev>>

\* else give it up.
UnlockRunning(t) ==
    /\ AddRunning(t, "unlockrunning", -1)
    /\ WakeIfIdle(t, "idle")
    /\ UNCHANGED <<status, blk, drainVars, prev>>

\* barrier_sync_f_slow: a block that ran under a transferred lock hands it on
\* if the queue is not suspended by anybody else ...
LeaveSlow(t) ==
    /\ At(t, "runslow")
    /\ Finish(blk[t])
    /\ Forget(t)
    /\ Goto(t, IF suspend < 2 * INTERVAL THEN "slowrunning" ELSE "slowsuspend")
    /\ UNCHANGED <<shared, blockVars, userVars, drainVars, prev, after>>

\* ... and nothing else is running,
SlowRunning(t) ==
    /\ At(t, "slowrunning")
    /\ IF running = 2 THEN Enter(t, "take", "xfersignal") ELSE Stay(t, "slowsuspend")
    /\ UNCHANGED <<shared, history, blk, drainVars, prev>>

\* else gives it up.
SlowSuspend(t) == AddSuspend(t, "slowsuspend", -INTERVAL) /\ Goto(t, "slowunlock")

SlowUnlock(t) ==
    /\ AddRunning(t, "slowunlock", -2)
    /\ WakeIfIdle(t, "idle")
    /\ UNCHANGED <<status, blk, drainVars, prev>>

\* drain_one_barrier_sync: take the first item if it is a barrier sync, and
\* report failure if it is not.
TakeOne(t) ==
    /\ At(t, "take")
    /\ head # None
    /\ kind[head] = "bsync"
    /\ sema' = [sema EXCEPT ![t] = head]
    /\ head' = next[head]
    /\ IF next[head] # None THEN Return(t) ELSE Stay(t, "taketail")
    /\ UNCHANGED <<countVars, tail, next, rootVars, signalled, history, blk, dc, nextdc, prev>>

TakeNone(t) ==
    /\ Branch(t, "take", IF after[t] = "xfersuspend" THEN "unlockrunning" ELSE "slowsuspend")
    /\ head # None => kind[head] # "bsync"

\* It seems to be the last: the compare-and-swap of the tail decides.
TakeOneTail(t) ==
    /\ At(t, "taketail")
    /\ IF tail = sema[t] THEN tail' = None /\ Return(t)
                         ELSE tail' = tail /\ Stay(t, "takelink")
    /\ UNCHANGED <<countVars, head, next, rootVars, signalled, history, blk, drainVars, prev>>

\* "Enqueue is TIGHTLY controlled, we won't wait long."
TakeOneLink(t) ==
    /\ At(t, "takelink")
    /\ next[sema[t]] # None
    /\ head' = next[sema[t]]
    /\ Return(t)
    /\ UNCHANGED <<countVars, tail, next, rootVars, signalled, history, blk, drainVars, prev>>

\* barrier_sync_f2: the fast path turns its lock into a transferred one,
TransferSuspend(t) == AddSuspend(t, "xfersuspend", INTERVAL) /\ Goto(t, "xferrunning")

\* "increment by 2 and decrement by 1",
TransferRunning(t) ==
    /\ AddRunning(t, "xferrunning", 1)
    /\ Goto(t, "xfersignal")
    /\ UNCHANGED <<status, locals>>

\* and lets the next barrier sync go.
TransferSignal(t) ==
    /\ At(t, "xfersignal") /\ Goto(t, "idle")
    /\ signalled' = signalled \cup {sema[t]}
    /\ sema' = [sema EXCEPT ![t] = None]
    /\ UNCHANGED <<countVars, listVars, rootVars, history, blk, dc, nextdc, prev, after>>

-----------------------------------------------------------------------------
(* _dispatch_queue_invoke and _dispatch_queue_drain, on a thread of the    *)
(* pool that popped the queue from its target.                             *)

PopQueue(t) ==
    /\ t \in Workers /\ At(t, "idle") /\ Goto(t, "invoke")
    /\ queued > 0
    /\ queued' = queued - 1
    /\ UNCHANGED <<countVars, listVars, redirected, signalled, history, locals>>

InvokeSuspended(t) == Branch(t, "invoke", IF Suspended THEN "unlock" ELSE "invokelock")

\* (Variant: a drain begins beside what runs.)
InvokeLockUnchecked(t) ==
    /\ AddRunning(t, "invokelock", 1)
    /\ Goto(t, "drain")
    /\ UNCHANGED <<status, locals>>

InvokeLock(t) ==
    \/ /\ running = 0
       /\ AddRunning(t, "invokelock", 1)
       /\ Goto(t, "drain")
       /\ UNCHANGED <<status, locals>>
    \/ running # 0 /\ Branch(t, "invokelock", "unlock")

\* while (dq->dq_items_tail)
Drain(t) == Branch(t, "drain", IF tail = None THEN "finish" ELSE "takehead")

\* Spin until the head is published, and take it.
DrainHead(t) ==
    /\ At(t, "takehead") /\ Goto(t, "next")
    /\ head # None
    /\ dc' = [dc EXCEPT ![t] = head]
    /\ head' = None
    /\ UNCHANGED <<countVars, tail, next, rootVars, signalled, history, blk, nextdc, sema, prev, after>>

\* Read the successor before the item runs.
DrainNext(t) ==
    /\ At(t, "next")
    /\ nextdc' = [nextdc EXCEPT ![t] = next[dc[t]]]
    /\ Goto(t, IF next[dc[t]] = None THEN "cleartail" ELSE "checksuspended")
    /\ UNCHANGED <<shared, history, blk, dc, sema, prev, after>>

\* It seems to be the last: the compare-and-swap of the tail decides.
DrainClearTail(t) ==
    /\ At(t, "cleartail")
    /\ IF tail = dc[t] THEN tail' = None /\ Goto(t, "checksuspended")
                       ELSE tail' = tail /\ Goto(t, "spinnext")
    /\ UNCHANGED <<countVars, head, next, rootVars, signalled, history, locals>>

\* "Enqueue is TIGHTLY controlled, we won't wait long."
DrainSpin(t) ==
    /\ At(t, "spinnext") /\ Goto(t, "checksuspended")
    /\ next[dc[t]] # None
    /\ nextdc' = [nextdc EXCEPT ![t] = next[dc[t]]]
    /\ UNCHANGED <<shared, history, blk, dc, sema, prev, after>>

\* The reasons to stop: the queue is suspended,
CheckSuspended(t) == Branch(t, "checksuspended", IF Suspended THEN "undo" ELSE "checkwidth")

\* it is full,
CheckWidth(t) ==
    Branch(t, "checkwidth", IF running > Width THEN "undo"
                            ELSE IF Serial THEN "pop"
                            ELSE IF kind[dc[t]] \in Barriers THEN "checkrunning"
                            ELSE "redirectadd")

\* (Variant: a barrier does not wait for what runs.)
CheckRunningSkipped(t) == Branch(t, "checkrunning", "pop")

\* or the item is a barrier and something runs.
CheckRunning(t) == Branch(t, "checkrunning", IF running > 1 THEN "undo" ELSE "pop")

\* On to the next item of the inner loop.
Advance(t) ==
    /\ dc' = [dc EXCEPT ![t] = nextdc[t]]
    /\ nextdc' = [nextdc EXCEPT ![t] = None]
    /\ Goto(t, IF nextdc[t] = None THEN "drain" ELSE "next")

\* continuation_redirect: what is not a barrier is counted in
RedirectAdd(t) ==
    /\ AddRunning(t, "redirectadd", 2)
    /\ Goto(t, "redirectpush")
    /\ UNCHANGED <<status, locals>>

\* and runs on its own thread or on the target.
RedirectPush(t) ==
    /\ At(t, "redirectpush")
    /\ IF kind[dc[t]] = "sync"
       THEN signalled' = signalled \cup {dc[t]} /\ UNCHANGED <<refs, redirected>>
       ELSE refs' = refs + 1 /\ redirected' = redirected \cup {dc[t]} /\ UNCHANGED signalled
    /\ Advance(t)
    /\ UNCHANGED <<running, suspend, listVars, queued, history, blk, sema, prev, after>>

\* continuation_pop: the block of an asynchronous item runs here;
PopRun(t) ==
    /\ At(t, "pop") /\ Goto(t, "rundrain")
    /\ kind[dc[t]] # "bsync"
    /\ Start(dc[t])
    /\ UNCHANGED <<shared, blockVars, userVars, locals>>

\* when it ends, on to the next.
DrainRan(t) ==
    /\ At(t, "rundrain")
    /\ Finish(dc[t])
    /\ Advance(t)
    /\ UNCHANGED <<shared, blockVars, userVars, blk, sema, prev, after>>

\* barrier_sync_f_pop: the lock is transferred to the thread of a barrier
\* sync: the queue is suspended,
PopSuspend(t) ==
    /\ AddSuspend(t, "pop", INTERVAL)
    /\ kind[dc[t]] = "bsync"
    /\ Goto(t, "poprunning")

\* counted as running, and the drain ends.
PopRunning(t) ==
    /\ AddRunning(t, "poprunning", 2)
    /\ sema' = [sema EXCEPT ![t] = dc[t]]
    /\ dc' = [dc EXCEPT ![t] = nextdc[t]]
    /\ Goto(t, IF nextdc[t] = None THEN "finish" ELSE "restore")
    /\ UNCHANGED <<status, blk, nextdc, prev, after>>

\* "if this is not a complete drain, we must undo some things": the item may
\* have to be the last again,
Undo(t) ==
    /\ At(t, "undo")
    /\ IF nextdc[t] = None /\ tail = None
       THEN tail' = dc[t] /\ Goto(t, "restore")
       ELSE tail' = tail /\ Goto(t, IF nextdc[t] = None THEN "undospin" ELSE "restore")
    /\ UNCHANGED <<countVars, head, next, rootVars, signalled, history, locals>>

\* or to be linked to an item pushed meanwhile,
UndoSpin(t) ==
    /\ At(t, "undospin") /\ Goto(t, "restore")
    /\ head # None
    /\ next' = [next EXCEPT ![dc[t]] = head]
    /\ UNCHANGED <<countVars, head, tail, rootVars, signalled, history, locals>>

\* and becomes the head.
Restore(t) ==
    /\ At(t, "restore") /\ Goto(t, "finish")
    /\ head' = dc[t]
    /\ UNCHANGED <<countVars, tail, next, rootVars, signalled, history, locals>>

\* The end of queue_invoke: nothing drains any more,
InvokeDone(t) ==
    /\ AddRunning(t, "finish", -1)
    /\ dc' = [dc EXCEPT ![t] = None]
    /\ nextdc' = [nextdc EXCEPT ![t] = None]
    /\ Goto(t, IF sema[t] # None THEN "invokesignal" ELSE "unlock")
    /\ UNCHANGED <<status, blk, sema, prev, after>>

\* (Variant: the lock is transferred and its new owner is not told.)
InvokeSignalLost(t) ==
    /\ At(t, "invokesignal") /\ Goto(t, "unlock")
    /\ sema' = [sema EXCEPT ![t] = None]
    /\ UNCHANGED <<shared, history, blk, dc, nextdc, prev, after>>

\* the thread that got the lock is let go,
InvokeSignal(t) ==
    /\ At(t, "invokesignal") /\ Goto(t, "unlock")
    /\ signalled' = signalled \cup {sema[t]}
    /\ sema' = [sema EXCEPT ![t] = None]
    /\ UNCHANGED <<countVars, listVars, rootVars, history, blk, dc, nextdc, prev, after>>

\* the suspend-count lock is dropped,
Unlock(t) ==
    /\ AddSuspend(t, "unlock", -LOCK)
    /\ Goto(t, IF suspend' = 0 THEN "verifyidle" ELSE "release")

\* (Variant: what came in while the lock was held is forgotten.)
VerifyIdleSkipped(t) == Branch(t, "verifyidle", "release")

\* and "verify that the queue is idle".
VerifyIdle(t) ==
    /\ At(t, "verifyidle")
    /\ IF running = 0 THEN Enter(t, "wake", "release") ELSE Stay(t, "release")
    /\ UNCHANGED <<shared, history, blk, drainVars, prev>>

-----------------------------------------------------------------------------
(* A redirected block, on a thread of the pool.                            *)

PopRedirected(t, b) ==
    /\ t \in Workers /\ At(t, "idle") /\ Goto(t, "runredirected")
    /\ b \in redirected
    /\ redirected' = redirected \ {b}
    /\ blk' = [blk EXCEPT ![t] = b]
    /\ Start(b)
    /\ UNCHANGED <<countVars, listVars, queued, signalled, blockVars, userVars, drainVars, prev, after>>

\* async_f_redirect_invoke: count it out and release the queue.
RedirectedRan(t) ==
    /\ AddRunning(t, "runredirected", -2)
    /\ Finish(blk[t])
    /\ Forget(t)
    /\ WakeIfIdle(t, "release")
    /\ UNCHANGED <<drainVars, prev>>

-----------------------------------------------------------------------------
(* dispatch_suspend, dispatch_resume and the last dispatch_release.        *)

Suspend(t) ==
    /\ At(t, "idle") /\ t \in holds
    /\ suspends < MaxSuspends
    /\ suspends' = suspends + 1
    /\ suspended' = suspended + 1
    /\ suspend' = suspend + INTERVAL
    /\ refs' = refs + 1
    /\ UNCHANGED <<running, listVars, rootVars, signalled, blockVars, status, holds, pc, locals>>

\* The last resume wakes the queue, unless it is locked.
Resume(t) ==
    /\ At(t, "idle") /\ t \in holds
    /\ suspended > 0
    /\ suspended' = suspended - 1
    /\ suspend' = suspend - INTERVAL
    /\ IF suspend = INTERVAL THEN Enter(t, "wake", "release") ELSE Stay(t, "release")
    /\ UNCHANGED <<running, refs, listVars, rootVars, signalled, blockVars, status,
                   holds, suspends, blk, drainVars, prev>>

\* A client gives up its reference: the last external reference takes the
\* internal one they share with it.  A suspended object must not be released.
GiveUp(c) ==
    /\ MayRelease
    /\ suspended = 0
    /\ c \in holds
    /\ holds' = holds \ {c}
    /\ refs' = IF holds' = {} THEN refs - 1 ELSE refs
    /\ UNCHANGED <<running, suspend, listVars, rootVars, signalled, blockVars, status,
                   suspended, suspends, pc, locals>>

\* It may do so between two calls,
ReleaseIdle(t) == At(t, "idle") /\ GiveUp(t)

\* or leave it to the block it submits last, which may run before the call
\* that submitted it has returned.
ReleaseInBlock(t) ==
    \E b \in Blocks : /\ \/ At(t, "rundrain") /\ b = dc[t]
                         \/ At(t, "runredirected") /\ b = blk[t]
                      /\ \A a \in Blocks : b \notin ahead[a]
                      /\ GiveUp(owner[b])

-----------------------------------------------------------------------------
SubmitStep(t) ==
    \/ LookTail(t) \/ LookSuspended(t) \/ Lock(t) \/ EnterSync(t) \/ EnterAsync(t)
    \/ BackOut(t) \/ BackOutAsync(t) \/ Redirect(t)
PushStep(t) == PushTail(t) \/ PushLink(t) \/ PushHead(t) \/ Release(t)
WakeStep(t) == WakeSuspended(t) \/ WakeProbe(t) \/ WakeLock(t)
SyncStep(t) ==
    \/ LeaveSync(t) \/ LeaveLocked(t) \/ Handover(t) \/ UnlockRunning(t)
    \/ LeaveSlow(t) \/ SlowRunning(t) \/ SlowSuspend(t) \/ SlowUnlock(t)
    \/ TakeOne(t) \/ TakeNone(t) \/ TakeOneTail(t) \/ TakeOneLink(t)
    \/ TransferSuspend(t) \/ TransferRunning(t) \/ TransferSignal(t) \/ Resumed(t)
DrainStep(t) ==
    \/ InvokeSuspended(t) \/ InvokeLock(t) \/ Drain(t) \/ DrainHead(t)
    \/ DrainNext(t) \/ DrainClearTail(t) \/ DrainSpin(t)
    \/ CheckSuspended(t) \/ CheckWidth(t) \/ CheckRunning(t)
    \/ RedirectAdd(t) \/ RedirectPush(t) \/ PopRun(t) \/ PopSuspend(t) \/ PopRunning(t)
    \/ DrainRan(t) \/ Undo(t) \/ UndoSpin(t) \/ Restore(t)
    \/ InvokeDone(t) \/ InvokeSignal(t) \/ Unlock(t) \/ VerifyIdle(t)
PoolStep(t) == PopQueue(t) \/ RedirectedRan(t) \/ \E b \in Blocks : PopRedirected(t, b)

\* What a thread that is busy, or a worker that has something to do, does.
Step(t) == \/ SubmitStep(t) \/ PushStep(t) \/ WakeStep(t) \/ SyncStep(t)
           \/ DrainStep(t) \/ PoolStep(t)

Next == \/ \E t \in Clients : \/ \E b \in Blocks, c \in Calls : Call(t, b, c)
                              \/ Suspend(t) \/ Resume(t) \/ ReleaseIdle(t)
        \/ \E t \in Workers : ReleaseInBlock(t)
        \/ \E t \in Threads : Step(t)

\* Blocks end, every running thread goes on, and the root queue runs what is
\* pushed on it.  Nobody is obliged to call, nor to resume the queue.
Fairness == \A t \in Threads : WF_vars(Step(t))

Spec == Init /\ [][Next]_vars
FairSpec == Spec /\ Fairness
-----------------------------------------------------------------------------
Points == {"idle", "look", "looksuspended", "lock", "enter", "overwide", "backout",
           "redirect", "push", "link", "sethead", "release", "wake", "wakeprobe",
           "wakelock", "runreader", "runlocked", "handover", "unlockrunning",
           "runslow", "slowrunning", "slowsuspend", "slowunlock", "take", "taketail",
           "takelink", "xfersuspend", "xferrunning", "xfersignal", "wait", "invoke",
           "invokelock", "drain", "takehead", "next", "cleartail", "spinnext",
           "checksuspended", "checkwidth", "checkrunning", "redirectadd",
           "redirectpush", "pop", "poprunning", "rundrain", "undo",
           "undospin", "restore", "finish", "invokesignal", "unlock", "verifyidle",
           "runredirected"}
Statuses == {"new", "called", "queued", "running", "done"}

TypeOK ==
    /\ running \in Nat /\ suspend \in Nat /\ refs \in Nat \cup {-1}
    /\ {head, tail} \subseteq Blocks \cup {None}
    /\ next \in [Blocks -> Blocks \cup {None}]
    /\ queued \in Nat
    /\ redirected \subseteq Blocks /\ signalled \subseteq Blocks
    /\ kind \in [Blocks -> AllCalls]
    /\ owner \in [Blocks -> Clients \cup {None}]
    /\ ahead \in [Blocks -> SUBSET Blocks]
    /\ status \in [Blocks -> Statuses]
    /\ holds \subseteq Clients /\ suspended \in 0 .. MaxSuspends /\ suspends \in 0 .. MaxSuspends
    /\ pc \in [Threads -> Points]
    /\ {blk, dc, nextdc, sema, prev} \subseteq [Threads -> Blocks \cup {None}]
    /\ after \in [Threads -> {"idle", "push", "release", "xfersuspend", "xfersignal"}]

Running == {b \in Blocks : status[b] = "running"}

\* A barrier runs by itself; on a serial queue every block is one.
BarrierExclusive ==
    \A a, b \in Running : a # b => {kind[a], kind[b]} \cap Barriers = {}

\* A block runs after those its client submitted before it, if one of the two
\* is a barrier.
Ordered ==
    \A b \in Running : \A a \in ahead[b] :
        {kind[a], kind[b]} \cap Barriers # {} => status[a] = "done"

\* do_suspend_cnt: the low bit is held by the one invocation of the queue that
\* is on its target or in progress; the rest is made of dispatch_suspend and of
\* transferred locks.
InvokePoints == {"invoke", "invokelock", "drain", "takehead", "next", "cleartail",
                 "spinnext", "checksuspended", "checkwidth", "checkrunning",
                 "redirectadd", "redirectpush", "pop", "poprunning",
                 "rundrain", "undo", "undospin", "restore", "finish",
                 "invokesignal", "unlock"}
OneInvocation ==
    suspend % 2 = queued + CountAt(Threads, pc, InvokePoints)

\* Nothing but the caller's memory is used after the last reference went.
NoUseAfterDispose ==
    refs = -1 => /\ tail = None /\ queued = 0 /\ redirected = {}
                 /\ \A t \in Threads : pc[t] \in {"idle", "link"}

\* An item that is linked from, or looked at, has not been run: its memory is
\* still there.
ItemsAlive ==
    \A t \in Threads :
        /\ pc[t] = "link" => status[prev[t]] = "queued" /\ prev[t] \notin signalled
        /\ pc[t] \in {"next", "spinnext", "checkwidth", "undospin"}
               => status[dc[t]] = "queued" /\ dc[t] \notin signalled

\* No block is left behind: when nobody is at work, the queue is empty or
\* suspended by its user.
NothingStranded ==
    /\ \A t \in Threads : pc[t] \in {"idle", "wait"}
    /\ queued = 0 /\ redirected = {} /\ signalled = {}
    => \/ tail = None /\ \A t \in Threads : pc[t] = "idle"
       \/ suspended > 0

\* No more asynchronous blocks are on the target or running than the width
\* of the queue allows (it is twice their number).
WidthRespected ==
    Cardinality({b \in redirected \cup Running : kind[b] = "async"}) <= (Width + 1) \div 2

\* The promise of a serial queue that is not suspended.  Whether a block has
\* been pushed yet is nobody's business.
SerialPromise == INSTANCE SerialQueue
    WITH state <- [b \in Blocks |-> IF status[b] \in {"called", "queued"} THEN "waiting"
                                    ELSE status[b]],
         sync <- [b \in Blocks |-> kind[b] = "bsync"],
         inside <- [c \in Clients |-> blk[c]]
SerialSpec == SerialPromise!Spec

\* Every block that was submitted runs, unless the queue stays suspended.
EveryBlockRuns ==
    []<>(suspended = 0) => \A b \in Blocks : status[b] = "called" ~> status[b] = "done"
=============================================================================
