----------------------------- MODULE RootQueue -----------------------------
(***************************************************************************)
(* A root queue and its worker threads (queue.c, queue_internal.h).        *)
(*                                                                         *)
(* Threads push items on a list whose tail is exchanged and whose head is  *)
(* written by whoever found the list empty.  A worker takes the head by    *)
(* exchanging it with the value Mediator; whoever gets an item owns the    *)
(* front of the list until it writes the head again.  The thread that      *)
(* wrote the head asks for a worker: a thread of the kernel's workqueue,   *)
(* counted by dgq_pending, or one of a pool of PoolSize threads that idle  *)
(* on a dispatch semaphore, which is taken here as what it promises,       *)
(* CountingSemaphore.                                                      *)
(*                                                                         *)
(* One action is one atomic access or one call of the kernel.              *)
(***************************************************************************)
EXTENDS Integers, FiniteSets

CONSTANTS MaxItems,  \* bound: items pushed altogether
          Pushers,   \* threads that push
          Workers,   \* worker threads, alive or not
          PoolSize,  \* dgq_thread_pool_size at start-up
          Null,      \* the NULL pointer
          Mediator   \* the pointer ~0ul

Items == 1..MaxItems  \* named in the order in which they are made

ASSUME RootQueueAssumption == /\ MaxItems \in Nat
                              /\ {Null, Mediator} \cap Items = {}
                              /\ Null # Mediator
                              /\ Pushers \cap Workers = {}
                              /\ PoolSize \in Nat \ {0}
                              /\ IsFiniteSet(Workers) /\ Cardinality(Workers) > PoolSize

VARIABLES head, tail, next,             \* dq_items_head, dq_items_tail, do_next
          kworkqueue,                   \* dgq_kworkqueue: "unset", "kernel" or "pool"
          pending, requests,            \* dgq_pending; threads asked of the kernel
          pool,                         \* dgq_thread_pool_size
          avail, waiting,               \* the semaphore dgq_thread_mediator
          status,                       \* life of each item
          pc, obj, prev, n, back        \* per thread: place, item at hand, tail found
                                        \* by a push, n of the wakeup, its return point

threadMediator == INSTANCE CountingSemaphore WITH Threads <- Workers, Orig <- 0

list == <<head, tail, next>>
kernel == <<kworkqueue, pending, requests>>
sema == <<avail, waiting>>
vars == <<list, kernel, pool, sema, status, pc, obj, prev, n, back>>

Threads == Pushers \cup Workers
WakePoints == {"probe", "pending", "init", "additem", "signal", "size", "create"}
FrontPoints == {"first", "cleartail", "last", "sethead"}
DrainPoints == {"drain", "restore", "contend", "nowork"} \cup FrontPoints
WorkerPoints == {"dead", "dec", "run", "wait", "retire", "recheck"} \cup DrainPoints
Points == {"idle", "publish"} \cup WakePoints \cup WorkerPoints

Init == /\ head = Null /\ tail = Null /\ next = [i \in Items |-> Null]
        /\ kworkqueue = "unset" /\ pending = 0 /\ requests = 0
        /\ pool = PoolSize
        /\ threadMediator!Init
        /\ status = [i \in Items |-> "new"]
        /\ pc = [t \in Threads |-> IF t \in Pushers THEN "idle" ELSE "dead"]
        /\ obj = [t \in Threads |-> Null]
        /\ prev = [t \in Threads |-> Null]
        /\ n = [t \in Threads |-> 1]
        /\ back = [t \in Threads |-> "dead"]

Goto(t, p) == pc' = [pc EXCEPT ![t] = p]
Move(t, p, q) == pc[t] = p /\ Goto(t, q)

\* A call of _dispatch_queue_wakeup_global2(dq, k) that returns to r.
Wakeup(t, k, r) == /\ Goto(t, "probe")
                   /\ n' = [n EXCEPT ![t] = k]
                   /\ back' = [back EXCEPT ![t] = r]

Return(t) == /\ Goto(t, back[t])
             /\ n' = [n EXCEPT ![t] = 1]
             /\ back' = [back EXCEPT ![t] = "dead"]

Within(t, p) == Goto(t, p) /\ UNCHANGED <<n, back>>

-----------------------------------------------------------------------------
(* Push: a list of one new item or two, linked before it is published.     *)

Push(t, f, l) ==
    /\ Move(t, "idle", "publish")
    /\ \A i \in Items : status[i] = "new" <=> i >= f
    /\ l \in {f, f + 1}
    /\ status' = [status EXCEPT ![f] = "queued", ![l] = "queued"]
    /\ next' = [next EXCEPT ![f] = IF f = l THEN Null ELSE l]
    /\ tail' = l
    /\ obj' = [obj EXCEPT ![t] = f]
    /\ prev' = [prev EXCEPT ![t] = tail]
    /\ n' = [n EXCEPT ![t] = IF f = l THEN 1 ELSE 2]
    /\ UNCHANGED <<head, kernel, pool, sema, back>>

\* The list was not empty: link behind the old tail.
PublishLink(t) ==
    /\ pc[t] = "publish" /\ prev[t] # Null
    /\ next' = [next EXCEPT ![prev[t]] = obj[t]]
    /\ obj' = [obj EXCEPT ![t] = Null]
    /\ prev' = [prev EXCEPT ![t] = Null]
    /\ n' = [n EXCEPT ![t] = 1]
    /\ Goto(t, "idle")
    /\ UNCHANGED <<head, tail, kernel, pool, sema, status, back>>

\* It was empty: write the head blindly and ask for a worker.
PublishHead(t) ==
    /\ pc[t] = "publish" /\ prev[t] = Null
    /\ head' = obj[t]
    /\ obj' = [obj EXCEPT ![t] = Null]
    /\ Wakeup(t, n[t], "idle")
    /\ UNCHANGED <<tail, next, kernel, pool, sema, status, prev>>

-----------------------------------------------------------------------------
(* _dispatch_queue_wakeup_global2 and _slow.                               *)

ProbeTail(t) ==
    /\ pc[t] = "probe"
    /\ IF tail = Null THEN Return(t)
       ELSE Within(t, IF kworkqueue = "pool" THEN "signal" ELSE "pending")
    /\ UNCHANGED <<list, kernel, pool, sema, status, obj, prev>>

\* One request at a time: who does not get dgq_pending from 0 relies on it.
TakePending(t) ==
    /\ pc[t] = "pending"
    /\ IF pending = 0 THEN pending' = n[t] /\ Within(t, "init")
                      ELSE pending' = pending /\ Return(t)
    /\ UNCHANGED <<list, kworkqueue, requests, pool, sema, status, obj, prev>>

\* dispatch_once_f(&pred, NULL, _dispatch_root_queues_init): the first call
\* finds out whether the kernel has workqueues.
RootQueuesInit(t) ==
    /\ pc[t] = "init"
    /\ kworkqueue' \in IF kworkqueue = "unset" THEN {"kernel", "pool"} ELSE {kworkqueue}
    /\ Within(t, IF kworkqueue' = "kernel" THEN "additem" ELSE "signal")
    /\ UNCHANGED <<list, pending, requests, pool, sema, status, obj, prev>>

AddItem(t) ==
    /\ pc[t] = "additem"
    /\ requests' = requests + n[t]
    /\ Return(t)
    /\ UNCHANGED <<list, kworkqueue, pending, pool, sema, status, obj, prev>>

\* dispatch_semaphore_signal says whether it woke an idle thread.
SignalMediator(t) ==
    /\ pc[t] = "signal"
    /\ threadMediator!Signal
    /\ IF avail < Cardinality(waiting) THEN Return(t) ELSE Within(t, "size")
    /\ UNCHANGED <<list, kernel, pool, status, obj, prev>>

TakeFromPool(t) ==
    /\ pc[t] = "size"
    /\ IF pool = 0 THEN pool' = pool /\ Return(t)
                   ELSE pool' = pool - 1 /\ Within(t, "create")
    /\ UNCHANGED <<list, kernel, sema, status, obj, prev>>

\* pthread_create, repeated while the system has no thread to give.
CreateThread(t, w) ==
    /\ pc[t] = "create"
    /\ pc[w] = "dead"
    /\ pc' = [pc EXCEPT ![t] = back[t], ![w] = "drain"]
    /\ n' = [n EXCEPT ![t] = 1]
    /\ back' = [back EXCEPT ![t] = "dead"]
    /\ UNCHANGED <<list, kernel, pool, sema, status, obj, prev>>

-----------------------------------------------------------------------------
(* _dispatch_queue_concurrent_drain_one.                                   *)

\* (Variant: the head is read, not exchanged.)
PeekHead(w) ==
    /\ pc[w] = "drain"
    /\ obj' = [obj EXCEPT ![w] = IF head = Mediator THEN Null ELSE head]
    /\ Goto(w, CASE head = Null -> "restore"
                 [] head = Mediator -> "contend"
                 [] OTHER -> "first")
    /\ UNCHANGED <<list, kernel, pool, sema, status, prev, n, back>>

TakeHead(w) ==
    /\ pc[w] = "drain"
    /\ head' = Mediator
    /\ obj' = [obj EXCEPT ![w] = IF head = Mediator THEN Null ELSE head]
    /\ Goto(w, CASE head = Null -> "restore"
                 [] head = Mediator -> "contend"
                 [] OTHER -> "first")
    /\ UNCHANGED <<tail, next, kernel, pool, sema, status, prev, n, back>>

\* No work: a compare-and-swap, since a push may have written the head.
RestoreHead(w) ==
    /\ Move(w, "restore", "nowork")
    /\ head' = IF head = Mediator THEN Null ELSE head
    /\ UNCHANGED <<tail, next, kernel, pool, sema, status, obj, prev, n, back>>

\* Another worker has the front: try again when it is done, or give up the
\* thread after DISPATCH_HEAD_CONTENTION_SPINS and ask for a new one.
Contend(w) ==
    /\ pc[w] = "contend"
    /\ \/ head # Mediator /\ Within(w, "drain")
       \/ Wakeup(w, 1, "nowork")
    /\ UNCHANGED <<list, kernel, pool, sema, status, obj, prev>>

\* The item taken may be the last one: then empty the list, head first.
ReadNext(w) ==
    /\ pc[w] = "first"
    /\ IF next[obj[w]] = Null THEN head' = Null /\ Goto(w, "cleartail")
                              ELSE head' = head /\ Goto(w, "sethead")
    /\ UNCHANGED <<tail, next, kernel, pool, sema, status, obj, prev, n, back>>

ClearTail(w) ==
    /\ pc[w] = "cleartail"
    /\ IF tail = obj[w] THEN tail' = Null /\ Goto(w, "run")
                        ELSE tail' = tail /\ Goto(w, "last")
    /\ status' = [status EXCEPT ![obj[w]] = IF tail = obj[w] THEN "running" ELSE @]
    /\ UNCHANGED <<head, next, kernel, pool, sema, obj, prev, n, back>>

\* A push has exchanged the tail and is about to link its item.
AwaitNext(w) ==
    /\ Move(w, "last", "sethead")
    /\ next[obj[w]] # Null
    /\ UNCHANGED <<list, kernel, pool, sema, status, obj, prev, n, back>>

\* (Variant: no worker is asked for.)
SetHeadQuietly(w) ==
    /\ Move(w, "sethead", "run")
    /\ head' = next[obj[w]]
    /\ status' = [status EXCEPT ![obj[w]] = "running"]
    /\ UNCHANGED <<tail, next, kernel, pool, sema, obj, prev, n, back>>

\* More items: give the front back and have another worker come for them.
SetHead(w) ==
    /\ pc[w] = "sethead"
    /\ head' = next[obj[w]]
    /\ status' = [status EXCEPT ![obj[w]] = "running"]
    /\ Wakeup(w, 1, "run")
    /\ UNCHANGED <<tail, next, kernel, pool, sema, obj, prev>>

-----------------------------------------------------------------------------
(* The worker threads: _dispatch_worker_thread4, and around it             *)
(* _dispatch_worker_thread2 and 3 (kernel), _dispatch_worker_thread (pool).*)

\* The item returns.
FinishItem(w) ==
    /\ Move(w, "run", "drain")
    /\ status' = [status EXCEPT ![obj[w]] = "done"]
    /\ obj' = [obj EXCEPT ![w] = Null]
    /\ UNCHANGED <<list, kernel, pool, sema, prev, n, back>>

\* The kernel grants a requested thread.
GrantThread(w) ==
    /\ Move(w, "dead", "dec")
    /\ requests > 0
    /\ requests' = requests - 1
    /\ UNCHANGED <<list, kworkqueue, pending, pool, sema, status, obj, prev, n, back>>

DecPending(w) ==
    /\ Move(w, "dec", "drain")
    /\ pending' = pending - 1
    /\ UNCHANGED <<list, kworkqueue, requests, pool, sema, status, obj, prev, n, back>>

ReturnToKernel(w) ==
    /\ pc[w] = "nowork" /\ kworkqueue = "kernel"
    /\ Goto(w, "dead")
    /\ UNCHANGED <<list, kernel, pool, sema, status, obj, prev, n, back>>

\* dispatch_semaphore_wait for 65 seconds: a unit at once, later, or never.
WaitMediator(w) ==
    /\ pc[w] = "nowork" /\ kworkqueue = "pool"
    /\ \/ threadMediator!Acquire /\ Goto(w, "drain")
       \/ threadMediator!Block(w) /\ Goto(w, "wait")
    /\ UNCHANGED <<list, kernel, pool, status, obj, prev, n, back>>

Woken(w) ==
    /\ Move(w, "wait", "drain")
    /\ threadMediator!Grant(w)
    /\ UNCHANGED <<list, kernel, pool, status, obj, prev, n, back>>

TimeOut(w) ==
    /\ Move(w, "wait", "retire")
    /\ threadMediator!GiveUp(w)
    /\ UNCHANGED <<list, kernel, pool, status, obj, prev, n, back>>

\* The thread gives its place in the pool back, and then looks whether
\* something was pushed while the pool was one thread short.
ReturnToPool(w) ==
    /\ Move(w, "retire", "recheck")
    /\ pool' = pool + 1
    /\ UNCHANGED <<list, kernel, sema, status, obj, prev, n, back>>

\* (Variant: the thread ends without a look.)
RetireBlindly(w) ==
    /\ Move(w, "recheck", "dead")
    /\ UNCHANGED <<list, kernel, pool, sema, status, obj, prev, n, back>>

Recheck(w) ==
    /\ pc[w] = "recheck"
    /\ IF tail = Null THEN Within(w, "dead")
                      ELSE Wakeup(w, 1, "dead")
    /\ UNCHANGED <<list, kernel, pool, sema, status, obj, prev>>

-----------------------------------------------------------------------------
WakeupStep(t) ==
    \/ ProbeTail(t) \/ TakePending(t) \/ RootQueuesInit(t) \/ AddItem(t)
    \/ SignalMediator(t) \/ TakeFromPool(t) \/ \E w \in Workers : CreateThread(t, w)

PushStep(t) == PublishLink(t) \/ PublishHead(t)

\* What a worker does by itself: neither an item nor a time-out is hurried.
WorkerStep(w) ==
    \/ TakeHead(w) \/ RestoreHead(w) \/ Contend(w) \/ ReadNext(w) \/ ClearTail(w)
    \/ AwaitNext(w) \/ SetHead(w) \/ GrantThread(w) \/ DecPending(w)
    \/ ReturnToKernel(w) \/ WaitMediator(w) \/ Woken(w) \/ ReturnToPool(w) \/ Recheck(w)

Next == \/ \E p \in Pushers, f, l \in Items : Push(p, f, l)
        \/ \E p \in Pushers : PushStep(p)
        \/ \E t \in Threads : WakeupStep(t)
        \/ \E w \in Workers : WorkerStep(w) \/ FinishItem(w) \/ TimeOut(w)

Spec == Init /\ [][Next]_vars

Fairness == /\ \A p \in Pushers : WF_vars(PushStep(p))
            /\ \A t \in Threads : WF_vars(WakeupStep(t))
            /\ \A w \in Workers : WF_vars(WorkerStep(w))

FairSpec == Spec /\ Fairness

-----------------------------------------------------------------------------
TypeOK == /\ head \in Items \cup {Null, Mediator}
          /\ tail \in Items \cup {Null}
          /\ next \in [Items -> Items \cup {Null}]
          /\ kworkqueue \in {"unset", "kernel", "pool"}
          /\ pending \in Nat /\ requests \in Nat
          /\ pool \in 0..PoolSize
          /\ avail \in Nat /\ waiting \subseteq Workers
          /\ status \in [Items -> {"new", "queued", "running", "done"}]
          /\ pc \in [Threads -> Points]
          /\ \A p \in Pushers : pc[p] \notin WorkerPoints
          /\ obj \in [Threads -> Items \cup {Null}]
          /\ prev \in [Threads -> Items \cup {Null}]
          /\ n \in [Threads -> {1, 2}]
          /\ back \in [Threads -> {"idle", "nowork", "run", "dead"}]

Holders(i) == {w \in Workers : obj[w] = i}

\* No item gets to two workers: the front of the list has one owner at a
\* time, although a worker that found nothing may put NULL over the mediator
\* of another (_dispatch_queue_concurrent_drain_one).
OneOwner == \A i \in Items :
              /\ \A w, v \in Holders(i) : w = v
              /\ Holders(i) # {} => status[i] \in {"queued", "running"}

\* A list with items is never left to nobody: a thread is on its way to the
\* list, or will look at it again before it sleeps, or has been asked for.
Attentive(t) == \/ t \in Pushers /\ (pc[t] = "publish" \/ pc[t] \in WakePoints)
                \/ t \in Workers /\ pc[t] \notin {"dead", "wait"}
NothingStranded == tail # Null => \/ \E t \in Threads : Attentive(t)
                                  \/ requests > 0
                                  \/ avail > 0 /\ waiting # {}

\* The promise.
WorkQueuePromise == INSTANCE WorkQueue
WorkQueueSpec == WorkQueuePromise!Spec

\* Items never block each other while threads are left: what was pushed is
\* started although the items that run never return, unless they occupy all
\* the threads there are.
Running == {i \in Items : status[i] = "running"}
Capacity == IF kworkqueue = "pool" THEN PoolSize ELSE Cardinality(Workers)
EveryItemStarts == \A i \in Items :
    status[i] = "queued" ~> status[i] # "queued" \/ Cardinality(Running) >= Capacity
=============================================================================
