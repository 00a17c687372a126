---------------------------- MODULE WakeupProofs ----------------------------
(***************************************************************************)
(* Proofs about the two components in which a thread that brings work and  *)
(* one that may be about to sleep have to find each other.                 *)
(*                                                                         *)
(* RootQueue, for any number of items, pushers, workers and pool threads:  *)
(* first about the list and who has its front, then about who will come    *)
(* for what is in it.                                                      *)
(*                                                                         *)
(* RunLoop, for any modes, sources, clients, calls and runs: first about   *)
(* wakeups, then about the order of the blocks.                            *)
(***************************************************************************)
EXTENDS RootQueue, RunLoop, FiniteSetTheorems, SequenceTheorems, TLAPS

\* The types of what concerns the list.
ListTypes ==
    /\ head \in Items \cup {Null, Mediator} /\ tail \in Items \cup {Null}
    /\ next \in [Items -> Items \cup {Null}]
    /\ status \in [Items -> {"new", "queued", "running", "done"}]
    /\ pc \in [Threads -> Points] /\ back \in [Threads -> {"idle", "nowork", "run", "dead"}]
    /\ obj \in [Threads -> Items \cup {Null}] /\ prev \in [Threads -> Items \cup {Null}]

\* Which points are the pushers' and which the workers'.
ThreadPlaces ==
    /\ \A p \in Pushers : /\ pc[p] \in {"idle", "publish"} \cup WakePoints
                          /\ pc[p] \in WakePoints => back[p] = "idle"
    /\ \A w \in Workers : /\ pc[w] \in WorkerPoints \cup WakePoints
                          /\ pc[w] \in WakePoints => back[w] # "idle"

\* A thread carries the front of the list: a worker between taking the head
\* and writing it, or a pusher that is about to write it.
Carries(t) == \/ t \in Workers /\ pc[t] \in FrontPoints
              \/ t \in Pushers /\ pc[t] = "publish" /\ prev[t] = Null

\* A worker runs its item, or asks for another worker before it does.
RunsItem(w) == pc[w] = "run" \/ (pc[w] \in WakePoints /\ back[w] = "run")

\* A thread has an item at hand exactly while it carries, links or runs it.
Objects == /\ \A w \in Workers : obj[w] \in Items <=> Carries(w) \/ RunsItem(w)
           /\ \A p \in Pushers : pc[p] = "publish" => obj[p] \in Items

\* Items enter the list in their order, and what is queued ends at the tail.
Order == /\ \A i \in Items : next[i] \in Items => next[i] = i + 1 /\ status[next[i]] # "new"
         /\ tail \in Items => \A j \in Items : status[j] = "new" <=> j > tail
         /\ tail = Null => \A j \in Items : status[j] # "queued"
         /\ \A p \in Pushers : pc[p] = "publish" /\ prev[p] \in Items
                => obj[p] = prev[p] + 1 /\ status[obj[p]] # "new"
         /\ \A w \in Workers : pc[w] = "sethead" => next[obj[w]] \in Items

\* Item i is the first of the items in the list.
IsFront(i) == /\ tail \in Items /\ i <= tail
              /\ \A j \in Items : status[j] = "queued" <=> i <= j /\ j <= tail

\* The front of the list is in one place at most: in the head, or with the one
\* thread that carries it.
Front == /\ head \in Items => IsFront(head)
         /\ \A t \in Threads : Carries(t) => IsFront(obj[t]) /\ head \notin Items
         /\ \A t, u \in Threads : Carries(t) /\ Carries(u) => t = u

\* An item that a worker runs is its own.
RunOnce == /\ \A w \in Workers : RunsItem(w) => status[obj[w]] = "running"
           /\ \A w, v \in Workers : RunsItem(w) /\ RunsItem(v) /\ obj[w] = obj[v] => w = v

\* The inductive invariant.
IInv == ListTypes /\ ThreadPlaces /\ Objects /\ Order /\ Front /\ RunOnce

\* A step is quiet for a thread when the thread carries, links and runs what it
\* did before.
Quiet(t) == /\ (Carries(t) <=> Carries(t)') /\ (RunsItem(t) <=> RunsItem(t)')
            /\ pc'[t] = "publish" <=> pc[t] = "publish"
            /\ pc'[t] = "sethead" => next[obj[t]] \in Items

\* A step that is quiet for all threads, and at most empties the head.
LEMMA QuietStep ==
    ASSUME IInv, ListTypes', ThreadPlaces', \A t \in Threads : Quiet(t),
           UNCHANGED <<tail, next, status, obj, prev>>, head' \in Items => head' = head
    PROVE  IInv'
<1> USE DEF IInv, Quiet, Threads
<1>1. Objects'
  BY DEF Objects
<1>2. Order'
  BY DEF Order
<1>3. Front'
  BY DEF Front, IsFront
<1>4. RunOnce'
  BY DEF RunOnce
<1> QED BY <1>1, <1>2, <1>3, <1>4

\* One thread moves, and stays what it is: the condition on its old and new
\* place and return point.
KeepsPlace(t, p, b) ==
    /\ t \in Pushers => /\ pc[t] # "publish" /\ p \in {"idle"} \cup WakePoints
                        /\ p \in WakePoints => b = "idle"
    /\ t \in Workers => /\ p \in WorkerPoints \cup WakePoints
                        /\ p \in WakePoints => b # "idle"
                        /\ p \in FrontPoints <=> pc[t] \in FrontPoints
                        /\ RunsItem(t) <=> p = "run" \/ (p \in WakePoints /\ b = "run")
                        /\ p = "sethead" => next[obj[t]] \in Items

LEMMA QuietMove ==
    ASSUME IInv, NEW t \in Threads, NEW p \in Points,
           NEW b \in {"idle", "nowork", "run", "dead"},
           pc' = [pc EXCEPT ![t] = p], back' = [back EXCEPT ![t] = b],
           UNCHANGED <<tail, next, status, obj, prev>>,
           head' \in {head, Null, Mediator}, KeepsPlace(t, p, b)
    PROVE  IInv'
<1> USE DEF IInv, KeepsPlace, Threads
<1>1. /\ Pushers \cap Workers = {} /\ {Null, Mediator} \cap Items = {}
  BY RootQueueAssumption DEF RootQueueAssumption
<1>2. ListTypes'
  BY DEF ListTypes
<1>3. \A u \in Threads : /\ pc'[u] = IF u = t THEN p ELSE pc[u]
                         /\ back'[u] = IF u = t THEN b ELSE back[u]
  BY DEF ListTypes
<1>4. ThreadPlaces'
  BY <1>3 DEF ThreadPlaces
<1>5. ASSUME NEW u \in Threads PROVE Quiet(u)
  <2>1. CASE u # t
    <3>1. pc[u] = "sethead" => u \in Workers
      BY <1>1 DEF ThreadPlaces, WakePoints
    <3> QED BY <1>3, <2>1, <3>1 DEF Quiet, Carries, RunsItem, Order
  <2>2. CASE u = t /\ t \in Pushers
    <3>1. /\ ~Carries(u) /\ ~Carries(u)'
          /\ pc'[u] \notin {"publish", "sethead"} /\ pc[u] # "publish"
      BY <1>1, <1>3, <2>2 DEF Carries, WakePoints
    <3>2. RunsItem(u) <=> RunsItem(u)'
      <4>1. ~RunsItem(u)
        BY <2>2 DEF ThreadPlaces, RunsItem, WakePoints
      <4>2. ~RunsItem(u)'
        BY <1>3, <2>2 DEF RunsItem, WakePoints
      <4> QED BY <4>1, <4>2
    <3> QED BY <3>1, <3>2 DEF Quiet
  <2>3. CASE u = t /\ t \in Workers
    <3>1. /\ pc[u] # "publish" /\ pc'[u] # "publish"
      BY <1>3, <2>3 DEF ThreadPlaces, WorkerPoints, DrainPoints, FrontPoints, WakePoints
    <3>2. RunsItem(u)' <=> p = "run" \/ (p \in WakePoints /\ b = "run")
      BY <1>3, <2>3 DEF RunsItem
    <3> QED BY <1>1, <1>3, <2>3, <3>1, <3>2 DEF Quiet, Carries
  <2> QED BY <2>1, <2>2, <2>3
<1>6. head' \in Items => head' = head
  BY <1>1
<1> QED BY <1>2, <1>4, <1>5, <1>6, QuietStep

\* A wakeup goes on, or returns to where it was called.
LEMMA WakeupMoves ==
    ASSUME IInv, NEW t \in Threads, pc[t] \in WakePoints,
           Return(t) \/ (\E p \in WakePoints : Within(t, p)),
           UNCHANGED <<list, status, obj, prev>>
    PROVE  IInv'
<1> USE DEF IInv, Threads
<1>1. Pushers \cap Workers = {}
  BY RootQueueAssumption DEF RootQueueAssumption
<1>2. back[t] \in {"idle", "nowork", "run", "dead"} /\ ListTypes /\ ThreadPlaces
  BY DEF ListTypes
<1>3. t \in Workers => pc[t] \notin FrontPoints /\ pc[t] # "run"
  BY DEF FrontPoints, WakePoints
<1>4. CASE Return(t)
  <2>1. pc' = [pc EXCEPT ![t] = back[t]] /\ back' = [back EXCEPT ![t] = "dead"]
    BY <1>4 DEF Return, Goto
  <2>2. back[t] \in Points /\ back[t] \notin FrontPoints
    BY <1>2 DEF Points, WorkerPoints, DrainPoints, FrontPoints
  <2>3. KeepsPlace(t, back[t], "dead")
    BY <1>1, <1>2, <1>3, <2>2
       DEF KeepsPlace, ThreadPlaces, RunsItem, WakePoints, WorkerPoints, DrainPoints, FrontPoints
  <2> QED BY <2>1, <2>2, <2>3, QuietMove DEF list
<1>5. CASE \E p \in WakePoints : Within(t, p)
  <2>1. PICK p \in WakePoints : Within(t, p)
    BY <1>5
  <2>2. pc' = [pc EXCEPT ![t] = p] /\ back' = [back EXCEPT ![t] = back[t]]
    BY <2>1 DEF Within, Goto, ListTypes
  <2>3. KeepsPlace(t, p, back[t]) /\ p \in Points
    BY <1>1, <1>2, <1>3, <2>1
       DEF KeepsPlace, ThreadPlaces, RunsItem, Points, WakePoints, FrontPoints
  <2> QED BY <1>2, <2>2, <2>3, QuietMove DEF list
<1> QED BY <1>4, <1>5

\* A worker moves among its own points, and is or is not at the front as before.
LEMMA WorkerMoves ==
    ASSUME IInv, NEW w \in Workers, NEW p \in WorkerPoints,
           pc[w] \in WorkerPoints, pc' = [pc EXCEPT ![w] = p],
           UNCHANGED <<tail, next, status, obj, prev, back>>,
           head' \in {head, Null, Mediator},
           p \in FrontPoints <=> pc[w] \in FrontPoints,
           p # "run", pc[w] # "run",
           p = "sethead" => next[obj[w]] \in Items
    PROVE  IInv'
<1> USE DEF IInv, Threads
<1>1. Pushers \cap Workers = {}
  BY RootQueueAssumption DEF RootQueueAssumption
<1>2. back' = [back EXCEPT ![w] = back[w]] /\ back[w] \in {"idle", "nowork", "run", "dead"}
  BY DEF ListTypes
<1>3. pc[w] \notin WakePoints /\ p \notin WakePoints /\ p \in Points
  BY DEF WorkerPoints, WakePoints, DrainPoints, FrontPoints, Points
<1>4. KeepsPlace(w, p, back[w])
  BY <1>1, <1>3 DEF KeepsPlace, RunsItem
<1> QED BY <1>2, <1>3, <1>4, QuietMove

\* A worker without an item asks for another one.
LEMMA WorkerWakes ==
    ASSUME IInv, NEW w \in Workers, pc[w] \in {"contend", "recheck"},
           NEW k, NEW r \in {"nowork", "dead"}, Wakeup(w, k, r),
           UNCHANGED <<list, status, obj, prev>>
    PROVE  IInv'
<1>1. Pushers \cap Workers = {}
  BY RootQueueAssumption DEF RootQueueAssumption
<1>2. pc' = [pc EXCEPT ![w] = "probe"] /\ back' = [back EXCEPT ![w] = r]
  BY DEF Wakeup, Goto
<1>3. KeepsPlace(w, "probe", r) /\ "probe" \in Points
  BY <1>1 DEF KeepsPlace, RunsItem, WakePoints, FrontPoints, Points
<1> QED BY <1>2, <1>3, QuietMove DEF list, Threads

\* The invariant holds at the start: the list is empty.
LEMMA InitIInv == Init => IInv
<1> SUFFICES ASSUME Init PROVE IInv
  OBVIOUS
<1>1. {Null, Mediator} \cap Items = {} /\ Null # Mediator /\ Pushers \cap Workers = {}
  BY RootQueueAssumption DEF RootQueueAssumption
<1>2. /\ \A p \in Pushers : pc[p] = "idle"
      /\ \A w \in Workers : pc[w] = "dead"
      /\ \A t \in Threads : obj[t] = Null
      /\ head = Null /\ tail = Null /\ \A i \in Items : next[i] = Null /\ status[i] = "new"
  BY <1>1 DEF Init, Threads
<1>3. ListTypes
  BY DEF Init, ListTypes, Points, WorkerPoints, Threads
<1>4. ThreadPlaces
  BY <1>2 DEF ThreadPlaces, WakePoints, WorkerPoints
<1>5. \A t \in Threads : ~Carries(t)
  BY <1>1, <1>2 DEF Carries, FrontPoints
<1>6. \A w \in Workers : ~RunsItem(w)
  BY <1>2 DEF RunsItem, WakePoints
<1>7. Objects /\ Order /\ Front /\ RunOnce
  BY <1>1, <1>2, <1>5, <1>6 DEF Objects, Order, Front, RunOnce, Threads
<1> QED BY <1>3, <1>4, <1>7 DEF IInv

\* The steps of a wakeup leave the list alone.
LEMMA WakeupIInv ==
    ASSUME IInv, NEW t \in Threads, WakeupStep(t)
    PROVE  IInv'
<1>1. CASE ProbeTail(t)
  BY <1>1, WakeupMoves DEF ProbeTail, WakePoints
<1>2. CASE TakePending(t)
  BY <1>2, WakeupMoves DEF TakePending, WakePoints
<1>3. CASE RootQueuesInit(t)
  BY <1>3, WakeupMoves DEF RootQueuesInit, WakePoints
<1>4. CASE AddItem(t)
  BY <1>4, WakeupMoves DEF AddItem, WakePoints
<1>5. CASE SignalMediator(t)
  BY <1>5, WakeupMoves DEF SignalMediator, WakePoints
<1>6. CASE TakeFromPool(t)
  BY <1>6, WakeupMoves DEF TakeFromPool, WakePoints
<1>7. ASSUME NEW w \in Workers, CreateThread(t, w) PROVE IInv'
  <2> DEFINE mid == [pc EXCEPT ![t] = back[t]]
  <2>1. /\ pc[t] = "create" /\ pc[w] = "dead"
        /\ pc' = [pc EXCEPT ![t] = back[t], ![w] = "drain"]
        /\ back' = [back EXCEPT ![t] = "dead"]
        /\ UNCHANGED <<head, tail, next, status, obj, prev>>
    BY <1>7 DEF CreateThread, list
  <2>2. /\ Pushers \cap Workers = {} /\ w # t /\ w \in Threads
        /\ ListTypes /\ ThreadPlaces
    BY <2>1, RootQueueAssumption DEF RootQueueAssumption, IInv, Threads
  <2>3. /\ back[t] \in {"idle", "nowork", "run", "dead"}
        /\ \A u \in Threads : /\ pc'[u] = IF u = w THEN "drain"
                                         ELSE IF u = t THEN back[t] ELSE pc[u]
                              /\ back'[u] = IF u = t THEN "dead" ELSE back[u]
    BY <2>1, <2>2 DEF ListTypes
  <2>4. ListTypes'
    BY <2>1, <2>2, <2>3 DEF ListTypes, Points, WorkerPoints, DrainPoints
  <2>5. ThreadPlaces'
    <3>1. ASSUME NEW p \in Pushers
          PROVE  /\ pc'[p] \in {"idle", "publish"} \cup WakePoints
                 /\ pc'[p] \in WakePoints => back'[p] = "idle"
      BY <2>1, <2>2, <2>3 DEF ThreadPlaces, Threads, WakePoints
    <3>2. ASSUME NEW v \in Workers
          PROVE  /\ pc'[v] \in WorkerPoints \cup WakePoints
                 /\ pc'[v] \in WakePoints => back'[v] # "idle"
      <4>1. v = t => back[t] \in {"nowork", "run", "dead"}
        BY <2>1, <2>2, <2>3 DEF ThreadPlaces, WakePoints
      <4>2. \A x \in {"nowork", "run", "dead", "drain"} : x \in WorkerPoints \ WakePoints
        BY DEF WorkerPoints, DrainPoints, WakePoints
      <4>3. /\ pc[v] \in WorkerPoints \cup WakePoints
            /\ pc[v] \in WakePoints => back[v] # "idle"
            /\ v \in Threads
        BY <2>2 DEF ThreadPlaces, Threads
      <4> QED BY <2>3, <4>1, <4>2, <4>3
    <3> QED BY <3>1, <3>2 DEF ThreadPlaces
  <2>6. ASSUME NEW u \in Threads PROVE Quiet(u)
    <3>1. CASE u = w
      <4>1. pc[u] = "dead" /\ pc'[u] = "drain"
        BY <2>1, <2>2, <2>3, <3>1
      <4>2. ~Carries(u) /\ ~Carries(u)' /\ ~RunsItem(u) /\ ~RunsItem(u)'
        BY <4>1 DEF Carries, RunsItem, FrontPoints, WakePoints
      <4> QED BY <4>1, <4>2 DEF Quiet
    <3>2. CASE u = t
      BY <2>1, <2>2, <2>3, <3>2
         DEF Quiet, Carries, RunsItem, ThreadPlaces, Threads, FrontPoints, WakePoints
    <3>3. CASE u # w /\ u # t
      <4>1. pc[u] = "sethead" => next[obj[u]] \in Items
        BY <2>2 DEF ThreadPlaces, Threads, WakePoints, IInv, Order
      <4> QED BY <2>1, <2>3, <3>3, <4>1 DEF Quiet, Carries, RunsItem
    <3> QED BY <3>1, <3>2, <3>3
  <2> QED BY <2>1, <2>4, <2>5, <2>6, QuietStep
<1> QED BY <1>1, <1>2, <1>3, <1>4, <1>5, <1>6, <1>7 DEF WakeupStep

\* The steps of a worker that leave the front of the list where it is.
LEMMA QuietWorkerIInv ==
    ASSUME IInv, NEW w \in Workers,
           \/ RestoreHead(w) \/ Contend(w) \/ ReadNext(w) \/ AwaitNext(w)
           \/ GrantThread(w) \/ DecPending(w) \/ ReturnToKernel(w) \/ WaitMediator(w)
           \/ Woken(w) \/ TimeOut(w) \/ ReturnToPool(w) \/ Recheck(w)
    PROVE  IInv'
<1> USE DEF Move, Goto, list, WorkerPoints, DrainPoints, FrontPoints
<1>1. CASE RestoreHead(w)
  BY <1>1, WorkerMoves DEF RestoreHead
<1>2. CASE Contend(w)
  <2>1. CASE Within(w, "drain")
    BY <1>2, <2>1, WorkerMoves DEF Contend, Within
  <2>2. CASE Wakeup(w, 1, "nowork")
    BY <1>2, <2>2, WorkerWakes DEF Contend
  <2> QED BY <1>2, <2>1, <2>2 DEF Contend
<1>3. CASE ReadNext(w)
  <2>1. obj[w] \in Items
    BY <1>3 DEF ReadNext, IInv, Objects, Carries
  <2>2. next[obj[w]] = Null \/ next[obj[w]] \in Items
    BY <2>1 DEF IInv, ListTypes
  <2> QED BY <1>3, <2>2, WorkerMoves DEF ReadNext
<1>4. CASE AwaitNext(w)
  <2>1. obj[w] \in Items
    BY <1>4 DEF AwaitNext, IInv, Objects, Carries
  <2>2. next[obj[w]] \in Items
    BY <1>4, <2>1 DEF AwaitNext, IInv, ListTypes
  <2> QED BY <1>4, <2>2, WorkerMoves DEF AwaitNext
<1>5. CASE GrantThread(w)
  BY <1>5, WorkerMoves DEF GrantThread
<1>6. CASE DecPending(w)
  BY <1>6, WorkerMoves DEF DecPending
<1>7. CASE ReturnToKernel(w)
  BY <1>7, WorkerMoves DEF ReturnToKernel
<1>8. CASE WaitMediator(w)
  BY <1>8, WorkerMoves DEF WaitMediator
<1>9. CASE Woken(w)
  BY <1>9, WorkerMoves DEF Woken
<1>10. CASE TimeOut(w)
  BY <1>10, WorkerMoves DEF TimeOut
<1>11. CASE ReturnToPool(w)
  BY <1>11, WorkerMoves DEF ReturnToPool
<1>12. CASE Recheck(w)
  <2>1. CASE Within(w, "dead")
    BY <1>12, <2>1, WorkerMoves DEF Recheck, Within
  <2>2. CASE Wakeup(w, 1, "dead")
    BY <1>12, <2>2, WorkerWakes DEF Recheck
  <2> QED BY <1>12, <2>1, <2>2 DEF Recheck
<1> QED BY <1>1, <1>2, <1>3, <1>4, <1>5, <1>6, <1>7, <1>8, <1>9, <1>10, <1>11, <1>12

\* A worker exchanges the head with the mediator: it has the front now, or
\* there was none to have.
LEMMA TakeHeadIInv ==
    ASSUME IInv, NEW w \in Workers, TakeHead(w)
    PROVE  IInv'
<1> USE DEF IInv
<1>1. /\ {Null, Mediator} \cap Items = {} /\ Null # Mediator /\ Pushers \cap Workers = {}
      /\ w \in Threads /\ w \notin Pushers
  BY RootQueueAssumption DEF RootQueueAssumption, Threads
<1>2. /\ pc[w] = "drain" /\ head' = Mediator
      /\ UNCHANGED <<tail, next, status, prev, back>>
  BY DEF TakeHead
<1>3. obj[w] = Null /\ ~Carries(w) /\ ~RunsItem(w)
  BY <1>1, <1>2 DEF Objects, ListTypes, Carries, RunsItem, FrontPoints, WakePoints
<1>4. CASE head \notin Items
  <2>1. obj' = [obj EXCEPT ![w] = Null]
    BY <1>4 DEF TakeHead, ListTypes
  <2>2. obj' = obj
    BY <1>1, <1>3, <2>1 DEF ListTypes
  <2>3. \E p \in {"restore", "contend"} : pc' = [pc EXCEPT ![w] = p]
    BY <1>1, <1>4 DEF TakeHead, Goto, ListTypes
  <2> QED BY <1>2, <2>2, <2>3, WorkerMoves
          DEF WorkerPoints, DrainPoints, FrontPoints
<1>5. CASE head \in Items
  <2>1. obj' = [obj EXCEPT ![w] = head] /\ pc' = [pc EXCEPT ![w] = "first"]
    BY <1>1, <1>5 DEF TakeHead, Goto
  <2>2. \A t \in Threads : /\ obj'[t] = IF t = w THEN head ELSE obj[t]
                           /\ pc'[t] = IF t = w THEN "first" ELSE pc[t]
    BY <2>1 DEF ListTypes
  <2>3. ListTypes'
    BY <1>2, <1>5, <2>1 DEF ListTypes, Points, WorkerPoints, DrainPoints, FrontPoints
  <2>4. ThreadPlaces'
    BY <1>1, <1>2, <2>2 DEF ThreadPlaces, Threads, WakePoints, WorkerPoints, DrainPoints, FrontPoints
  <2>5. \A t \in Threads : t # w => (Carries(t)' <=> Carries(t)) /\ (RunsItem(t)' <=> RunsItem(t))
    BY <1>2, <2>2 DEF Carries, RunsItem
  <2>6. Carries(w)' /\ ~RunsItem(w)'
    BY <1>1, <2>2 DEF Carries, RunsItem, FrontPoints, WakePoints
  <2>7. \A t \in Threads : ~Carries(t)
    BY <1>5 DEF Front
  <2>8. Objects' /\ RunOnce'
    BY <1>1, <1>2, <1>5, <2>2, <2>5, <2>6 DEF Objects, RunOnce, Threads
  <2>9. Order'
    BY <1>1, <1>2, <2>2 DEF Order, Threads
  <2>10. Front'
    BY <1>1, <1>2, <1>5, <2>2, <2>5, <2>6, <2>7 DEF Front, IsFront
  <2> QED BY <2>3, <2>4, <2>8, <2>9, <2>10
<1> QED BY <1>4, <1>5

\* The list becomes empty, or a push is under way behind the last item.
LEMMA ClearTailIInv ==
    ASSUME IInv, NEW w \in Workers, ClearTail(w)
    PROVE  IInv'
<1> USE DEF IInv
<1>1. /\ {Null, Mediator} \cap Items = {} /\ Null # Mediator /\ Pushers \cap Workers = {}
      /\ w \in Threads /\ w \notin Pushers
  BY RootQueueAssumption DEF RootQueueAssumption, Threads
<1>2. /\ pc[w] = "cleartail" /\ Carries(w) /\ obj[w] \in Items /\ IsFront(obj[w])
      /\ UNCHANGED <<head, next, obj, prev, back>>
  BY DEF ClearTail, Carries, FrontPoints, Objects, Front, Threads
<1>3. CASE tail # obj[w]
  <2>1. pc' = [pc EXCEPT ![w] = "last"] /\ tail' = tail /\ status' = status
    BY <1>3 DEF ClearTail, Goto, ListTypes
  <2> QED BY <1>2, <2>1, WorkerMoves DEF WorkerPoints, DrainPoints, FrontPoints
<1>4. CASE tail = obj[w]
  <2>1. /\ pc' = [pc EXCEPT ![w] = "run"] /\ tail' = Null
        /\ status' = [status EXCEPT ![obj[w]] = "running"]
    BY <1>4 DEF ClearTail, Goto
  <2>2. /\ \A t \in Threads : pc'[t] = IF t = w THEN "run" ELSE pc[t]
        /\ \A i \in Items : status'[i] = IF i = obj[w] THEN "running" ELSE status[i]
    BY <2>1 DEF ListTypes
  <2>3. ListTypes'
    BY <1>2, <2>1 DEF ListTypes, Points, WorkerPoints
  <2>4. ThreadPlaces'
    BY <1>1, <1>2, <2>2 DEF ThreadPlaces, Threads, WakePoints, WorkerPoints
  <2>5. \A t \in Threads : t # w => (Carries(t)' <=> Carries(t)) /\ (RunsItem(t)' <=> RunsItem(t))
    BY <1>2, <2>2 DEF Carries, RunsItem
  <2>6. ~Carries(w)' /\ RunsItem(w)'
    BY <1>1, <2>2 DEF Carries, RunsItem, FrontPoints
  <2>7. \A t \in Threads : ~Carries(t)'
    BY <1>1, <1>2, <2>5, <2>6 DEF Front
  <2>8. \A i \in Items : status[i] = "queued" <=> i = obj[w]
    BY <1>2, <1>4 DEF IsFront, Items
  <2>9. Objects'
    BY <1>2, <2>2, <2>5, <2>6 DEF Objects, Threads
  <2>10. \A v \in Workers : RunsItem(v) => obj[v] # obj[w] /\ obj[v] \in Items
    BY <1>2, <2>8 DEF RunOnce, Objects
  <2>11. RunOnce'
    BY <1>2, <2>2, <2>5, <2>6, <2>10 DEF RunOnce, Threads
  <2>12. Order'
    <3>1. \A i \in Items : status'[i] # "new" <=> status[i] # "new"
      BY <1>2, <2>2, <2>8
    <3>2. \A i \in Items : status'[i] # "queued"
      BY <2>2, <2>8
    <3>3. \A i \in Items : next[i] \in Items => next[i] = i + 1 /\ status'[next[i]] # "new"
      BY <3>1 DEF Order
    <3>4. \A p \in Pushers : pc'[p] = "publish" /\ prev[p] \in Items
              => obj[p] = prev[p] + 1 /\ status'[obj[p]] # "new"
      BY <1>1, <2>2, <3>1 DEF Order, Objects, Threads
    <3>5. \A v \in Workers : pc'[v] = "sethead" => next[obj[v]] \in Items
      BY <2>2 DEF Order, Threads
    <3> QED BY <1>1, <1>2, <2>1, <3>2, <3>3, <3>4, <3>5 DEF Order
  <2>13. Front'
    BY <1>1, <1>2, <2>7 DEF Front, Threads
  <2> QED BY <2>3, <2>4, <2>9, <2>11, <2>12, <2>13
<1> QED BY <1>3, <1>4

\* The front passes from the worker to the head, one item further.
LEMMA SetHeadIInv ==
    ASSUME IInv, NEW w \in Workers, SetHead(w)
    PROVE  IInv'
<1> USE DEF IInv
<1>1. /\ {Null, Mediator} \cap Items = {} /\ Null # Mediator /\ Pushers \cap Workers = {}
      /\ w \in Threads /\ w \notin Pushers
  BY RootQueueAssumption DEF RootQueueAssumption, Threads
<1> DEFINE i == obj[w]
<1>2. /\ pc[w] = "sethead" /\ Carries(w) /\ i \in Items /\ IsFront(i) /\ next[i] \in Items
      /\ head' = next[i] /\ status' = [status EXCEPT ![i] = "running"]
      /\ pc' = [pc EXCEPT ![w] = "probe"] /\ back' = [back EXCEPT ![w] = "run"]
      /\ UNCHANGED <<tail, next, obj, prev>>
  BY DEF SetHead, Wakeup, Goto, Carries, FrontPoints, Objects, Front, Order, Threads
<1>3. /\ \A t \in Threads : /\ pc'[t] = IF t = w THEN "probe" ELSE pc[t]
                            /\ back'[t] = IF t = w THEN "run" ELSE back[t]
      /\ \A j \in Items : status'[j] = IF j = i THEN "running" ELSE status[j]
  BY <1>2 DEF ListTypes
<1>4. ListTypes'
  BY <1>2 DEF ListTypes, Points, WakePoints
<1>5. ThreadPlaces'
  BY <1>1, <1>2, <1>3 DEF ThreadPlaces, Threads, WakePoints, WorkerPoints
<1>6. \A t \in Threads : t # w => (Carries(t)' <=> Carries(t)) /\ (RunsItem(t)' <=> RunsItem(t))
  BY <1>2, <1>3 DEF Carries, RunsItem
<1>7. ~Carries(w)' /\ RunsItem(w)'
  BY <1>1, <1>3 DEF Carries, RunsItem, FrontPoints, WakePoints
<1>8. \A t \in Threads : ~Carries(t)'
  BY <1>1, <1>2, <1>6, <1>7 DEF Front
<1>9. /\ next[i] = i + 1 /\ status[next[i]] # "new" /\ tail \in Items
      /\ i <= tail /\ \A j \in Items : status[j] = "new" <=> j > tail
      /\ \A j \in Items : status[j] = "queued" <=> i <= j /\ j <= tail
  BY <1>2 DEF Order, IsFront
<1>10. IsFront(head)'
  BY <1>2, <1>3, <1>9 DEF IsFront, Items
<1>11. status[i] = "queued"
  BY <1>2, <1>9 DEF Items
<1>12. Objects'
  BY <1>2, <1>3, <1>6, <1>7 DEF Objects, Threads
<1>13. RunOnce'
  <2>1. \A v \in Workers : RunsItem(v) => obj[v] # i /\ obj[v] \in Items
    BY <1>2, <1>11 DEF RunOnce, Objects
  <2> QED BY <1>2, <1>3, <1>6, <1>7, <2>1 DEF RunOnce, Threads
<1>14. Order'
  <2>1. \A j \in Items : /\ status'[j] # "new" <=> status[j] # "new"
                         /\ status'[j] = "queued" => status[j] = "queued"
    BY <1>2, <1>3, <1>11
  <2>2. \A j \in Items : next[j] \in Items => next[j] = j + 1 /\ status'[next[j]] # "new"
    BY <2>1 DEF Order
  <2>3. \A p \in Pushers : pc'[p] = "publish" /\ prev[p] \in Items
            => obj[p] = prev[p] + 1 /\ status'[obj[p]] # "new"
    BY <1>1, <1>3, <2>1 DEF Order, Objects, Threads
  <2>4. \A v \in Workers : pc'[v] = "sethead" => next[obj[v]] \in Items
    BY <1>3 DEF Order, Threads
  <2>5. \A j \in Items : status'[j] = "new" <=> j > tail
    BY <1>9, <2>1
  <2> QED BY <1>1, <1>2, <1>9, <2>2, <2>3, <2>4, <2>5 DEF Order
<1>15. Front'
  BY <1>8, <1>10 DEF Front
<1> QED BY <1>4, <1>5, <1>12, <1>13, <1>14, <1>15

\* The item of a worker is done, and nobody else had it.
LEMMA FinishItemIInv ==
    ASSUME IInv, NEW w \in Workers, FinishItem(w)
    PROVE  IInv'
<1> USE DEF IInv
<1>1. /\ {Null, Mediator} \cap Items = {} /\ Null # Mediator /\ Pushers \cap Workers = {}
      /\ w \in Threads /\ w \notin Pushers
  BY RootQueueAssumption DEF RootQueueAssumption, Threads
<1> DEFINE i == obj[w]
<1>2. /\ pc[w] = "run" /\ RunsItem(w) /\ i \in Items /\ status[i] = "running"
      /\ status' = [status EXCEPT ![i] = "done"] /\ obj' = [obj EXCEPT ![w] = Null]
      /\ pc' = [pc EXCEPT ![w] = "drain"]
      /\ UNCHANGED <<head, tail, next, prev, back>>
  BY DEF FinishItem, Move, Goto, RunsItem, Objects, RunOnce, list
<1>3. /\ \A t \in Threads : /\ pc'[t] = IF t = w THEN "drain" ELSE pc[t]
                            /\ obj'[t] = IF t = w THEN Null ELSE obj[t]
      /\ \A j \in Items : status'[j] = IF j = i THEN "done" ELSE status[j]
  BY <1>2 DEF ListTypes
<1>4. ListTypes'
  BY <1>2 DEF ListTypes, Points, WorkerPoints, DrainPoints
<1>5. ThreadPlaces'
  BY <1>1, <1>2, <1>3 DEF ThreadPlaces, Threads, WakePoints, WorkerPoints, DrainPoints
<1>6. \A t \in Threads : t # w => (Carries(t)' <=> Carries(t)) /\ (RunsItem(t)' <=> RunsItem(t))
  BY <1>2, <1>3 DEF Carries, RunsItem
<1>7. ~Carries(w)' /\ ~RunsItem(w)' /\ ~Carries(w)
  BY <1>1, <1>2, <1>3 DEF Carries, RunsItem, FrontPoints, WakePoints
<1>8. Objects'
  BY <1>1, <1>3, <1>6, <1>7 DEF Objects, Threads
<1>9. RunOnce'
  BY <1>2, <1>3, <1>6, <1>7 DEF RunOnce, Objects, Threads
<1>10. \A j \in Items : /\ status'[j] = "new" <=> status[j] = "new"
                        /\ status'[j] = "queued" <=> status[j] = "queued"
  BY <1>2, <1>3
<1>11. Order'
  <2>1. \A j \in Items : next[j] \in Items => next[j] = j + 1 /\ status'[next[j]] # "new"
    BY <1>10 DEF Order
  <2>2. \A p \in Pushers : pc'[p] = "publish" /\ prev[p] \in Items
            => obj'[p] = prev[p] + 1 /\ status'[obj'[p]] # "new"
    BY <1>1, <1>3, <1>10 DEF Order, Objects, Threads
  <2>3. \A v \in Workers : pc'[v] = "sethead" => next[obj'[v]] \in Items
    BY <1>3 DEF Order, Threads
  <2> QED BY <1>2, <1>10, <2>1, <2>2, <2>3 DEF Order
<1>12. Front'
  <2>1. \A j : IsFront(j)' <=> IsFront(j)
    BY <1>2, <1>10 DEF IsFront
  <2> QED BY <1>2, <1>3, <1>6, <1>7, <2>1 DEF Front
<1> QED BY <1>4, <1>5, <1>8, <1>9, <1>11, <1>12

\* A push links its items behind the tail that it found.
LEMMA PublishLinkIInv ==
    ASSUME IInv, NEW t \in Pushers, PublishLink(t)
    PROVE  IInv'
<1> USE DEF IInv
<1>1. /\ {Null, Mediator} \cap Items = {} /\ Null # Mediator /\ Pushers \cap Workers = {}
      /\ t \in Threads /\ t \notin Workers
  BY RootQueueAssumption DEF RootQueueAssumption, Threads
<1> DEFINE i == prev[t]
<1>2. /\ pc[t] = "publish" /\ prev[t] # Null /\ ~Carries(t)
      /\ next' = [next EXCEPT ![i] = obj[t]] /\ obj' = [obj EXCEPT ![t] = Null]
      /\ prev' = [prev EXCEPT ![t] = Null] /\ pc' = [pc EXCEPT ![t] = "idle"]
      /\ UNCHANGED <<head, tail, status, back>>
  BY <1>1 DEF PublishLink, Goto, Carries
<1>3. i \in Items /\ obj[t] \in Items /\ obj[t] = i + 1 /\ status[obj[t]] # "new"
  BY <1>1, <1>2 DEF ListTypes, Objects, Order
<1>4. /\ \A u \in Threads : /\ pc'[u] = IF u = t THEN "idle" ELSE pc[u]
                            /\ obj'[u] = IF u = t THEN Null ELSE obj[u]
                            /\ prev'[u] = IF u = t THEN Null ELSE prev[u]
      /\ \A j \in Items : next'[j] = IF j = i THEN obj[t] ELSE next[j]
  BY <1>2, <1>3 DEF ListTypes
<1>5. ListTypes'
  BY <1>2, <1>3 DEF ListTypes, Points
<1>6. ThreadPlaces'
  BY <1>1, <1>2, <1>4 DEF ThreadPlaces, Threads, WakePoints
<1>7. \A u \in Threads : u # t => (Carries(u)' <=> Carries(u)) /\ (RunsItem(u)' <=> RunsItem(u))
  BY <1>2, <1>4 DEF Carries, RunsItem
<1>8. ~Carries(t)'
  BY <1>1, <1>4 DEF Carries
<1>9. Objects' /\ RunOnce'
  BY <1>1, <1>2, <1>4, <1>7 DEF Objects, RunOnce, Threads
<1>10. Order'
  <2>1. \A j \in Items : next'[j] \in Items => next'[j] = j + 1 /\ status[next'[j]] # "new"
    BY <1>3, <1>4 DEF Order
  <2>2. \A p \in Pushers : pc'[p] = "publish" /\ prev'[p] \in Items
            => obj'[p] = prev'[p] + 1 /\ status[obj'[p]] # "new"
    BY <1>1, <1>4 DEF Order, Threads
  <2>3. \A v \in Workers : pc'[v] = "sethead" => next'[obj'[v]] \in Items
    BY <1>1, <1>3, <1>4 DEF Order, Threads, Objects, Carries, FrontPoints
  <2> QED BY <1>2, <2>1, <2>2, <2>3 DEF Order
<1>11. Front'
  BY <1>2, <1>4, <1>7, <1>8 DEF Front, IsFront
<1> QED BY <1>5, <1>6, <1>9, <1>10, <1>11

\* A push that found the list empty writes the head blindly: nobody else has
\* the front.
LEMMA PublishHeadIInv ==
    ASSUME IInv, NEW t \in Pushers, PublishHead(t)
    PROVE  IInv'
<1> USE DEF IInv
<1>1. /\ {Null, Mediator} \cap Items = {} /\ Null # Mediator /\ Pushers \cap Workers = {}
      /\ t \in Threads /\ t \notin Workers
  BY RootQueueAssumption DEF RootQueueAssumption, Threads
<1>2. /\ pc[t] = "publish" /\ Carries(t) /\ obj[t] \in Items /\ IsFront(obj[t])
      /\ head' = obj[t] /\ obj' = [obj EXCEPT ![t] = Null]
      /\ pc' = [pc EXCEPT ![t] = "probe"] /\ back' = [back EXCEPT ![t] = "idle"]
      /\ UNCHANGED <<tail, next, status, prev>>
  BY <1>1 DEF PublishHead, Wakeup, Goto, Carries, Objects, Front
<1>3. \A u \in Threads : /\ pc'[u] = IF u = t THEN "probe" ELSE pc[u]
                         /\ obj'[u] = IF u = t THEN Null ELSE obj[u]
                         /\ back'[u] = IF u = t THEN "idle" ELSE back[u]
  BY <1>2 DEF ListTypes
<1>4. ListTypes'
  BY <1>2 DEF ListTypes, Points, WakePoints
<1>5. ThreadPlaces'
  BY <1>1, <1>2, <1>3 DEF ThreadPlaces, Threads, WakePoints
<1>6. \A u \in Threads : u # t => (Carries(u)' <=> Carries(u)) /\ (RunsItem(u)' <=> RunsItem(u))
  BY <1>2, <1>3 DEF Carries, RunsItem
<1>7. \A u \in Threads : ~Carries(u)'
  BY <1>1, <1>2, <1>3, <1>6 DEF Front, Carries
<1>8. Objects' /\ RunOnce'
  BY <1>1, <1>2, <1>3, <1>6 DEF Objects, RunOnce, Threads
<1>9. Order'
  BY <1>1, <1>2, <1>3 DEF Order, Threads
<1>10. Front'
  BY <1>2, <1>7 DEF Front, IsFront
<1> QED BY <1>4, <1>5, <1>8, <1>9, <1>10

\* A push exchanges the tail: the new items follow those of the list, or are
\* the front, which then nobody has, and which the pusher carries.
LEMMA PushIInv ==
    ASSUME IInv, NEW t \in Pushers, NEW f \in Items, NEW l \in Items, Push(t, f, l)
    PROVE  IInv'
<1> USE DEF IInv
<1>1. /\ {Null, Mediator} \cap Items = {} /\ Null # Mediator /\ Pushers \cap Workers = {}
      /\ t \in Threads /\ t \notin Workers
  BY RootQueueAssumption DEF RootQueueAssumption, Threads
<1>2. /\ pc[t] = "idle" /\ l \in {f, f + 1}
      /\ \A i \in Items : status[i] = "new" <=> i >= f
      /\ status' = [status EXCEPT ![f] = "queued", ![l] = "queued"]
      /\ next' = [next EXCEPT ![f] = IF f = l THEN Null ELSE l]
      /\ tail' = l /\ obj' = [obj EXCEPT ![t] = f] /\ prev' = [prev EXCEPT ![t] = tail]
      /\ pc' = [pc EXCEPT ![t] = "publish"]
      /\ UNCHANGED <<head, back>>
  BY DEF Push, Move, Goto
<1>3. /\ \A u \in Threads : /\ pc'[u] = IF u = t THEN "publish" ELSE pc[u]
                            /\ obj'[u] = IF u = t THEN f ELSE obj[u]
                            /\ prev'[u] = IF u = t THEN tail ELSE prev[u]
      /\ \A j \in Items : /\ status'[j] = IF j \in {f, l} THEN "queued" ELSE status[j]
                          /\ next'[j] = IF j = f THEN IF f = l THEN Null ELSE l ELSE next[j]
  BY <1>2 DEF ListTypes
<1>4. ListTypes'
  BY <1>2 DEF ListTypes, Points
<1>5. ThreadPlaces'
  BY <1>1, <1>2, <1>3 DEF ThreadPlaces, Threads, WakePoints
<1>6. \A u \in Threads : u # t => (Carries(u)' <=> Carries(u)) /\ (RunsItem(u)' <=> RunsItem(u))
  BY <1>2, <1>3 DEF Carries, RunsItem
<1>7. Carries(t)' <=> tail = Null
  BY <1>1, <1>3 DEF Carries
<1>8. f \in Int /\ l \in Int /\ f <= l
      /\ \A j \in Items : /\ j \in {f, l} <=> f <= j /\ j <= l
                          /\ j > l <=> j >= f /\ j \notin {f, l}
  BY <1>2 DEF Items
\* The new items come right after the old tail.
<1>9. tail \in Items => f = tail + 1
  <2> SUFFICES ASSUME tail \in Items PROVE f = tail + 1
    OBVIOUS
  <2>1. \A j \in Items : j > tail <=> j >= f
    BY <1>2 DEF Order
  <2>2. f > tail /\ tail + 1 \in Items
    <3>1. f > tail
      BY <2>1 DEF Items
    <3>2. MaxItems \in Nat
      BY RootQueueAssumption DEF RootQueueAssumption
    <3> QED BY <3>1, <3>2 DEF Items
  <2>3. tail + 1 >= f
    BY <2>1, <2>2 DEF Items
  <2> QED BY <2>2, <2>3 DEF Items
<1>10. Objects'
  BY <1>1, <1>3, <1>6 DEF Objects, Threads
<1>11. RunOnce'
  <2>1. \A w \in Workers : RunsItem(w) => obj[w] \in Items \ {f, l}
    BY <1>2, <1>8 DEF RunOnce, Objects
  <2> QED BY <1>1, <1>3, <1>6, <2>1 DEF RunOnce, Threads
<1>12. Order'
  <2>1. \A j \in Items : status'[j] = "new" <=> j > l
    <3> SUFFICES ASSUME NEW j \in Items PROVE status'[j] = "new" <=> j > l
      OBVIOUS
    <3>1. status[j] = "new" <=> j >= f
      BY <1>2
    <3>2. status'[j] = IF j \in {f, l} THEN "queued" ELSE status[j]
      BY <1>3
    <3>3. j > l <=> j >= f /\ j \notin {f, l}
      BY <1>8
    <3> QED BY <3>1, <3>2, <3>3
  <2>2. \A j \in Items : status[j] # "new" => status'[j] # "new"
    BY <1>3
  <2>3. \A j \in Items : next'[j] \in Items => next'[j] = j + 1 /\ status'[next'[j]] # "new"
    <3> SUFFICES ASSUME NEW j \in Items, next'[j] \in Items
                 PROVE  next'[j] = j + 1 /\ status'[next'[j]] # "new"
      OBVIOUS
    <3>1. CASE j = f
      <4>1. next'[j] = l /\ f # l
        BY <1>1, <1>3, <3>1
      <4>2. status'[l] = "queued"
        BY <1>3
      <4> QED BY <1>2, <3>1, <4>1, <4>2
    <3>2. CASE j # f
      BY <1>3, <2>2, <3>2 DEF Order
    <3> QED BY <3>1, <3>2
  <2>4. ASSUME NEW p \in Pushers, pc'[p] = "publish", prev'[p] \in Items
        PROVE  obj'[p] = prev'[p] + 1 /\ status'[obj'[p]] # "new"
    <3>1. CASE p = t
      BY <1>1, <1>3, <1>9, <2>4, <3>1
    <3>2. CASE p # t
      BY <1>3, <2>2, <2>4, <3>2 DEF Order, Objects, Threads
    <3> QED BY <3>1, <3>2
  <2>5. ASSUME NEW v \in Workers, pc'[v] = "sethead" PROVE next'[obj'[v]] \in Items
    <3>1. /\ pc[v] = "sethead" /\ obj'[v] = obj[v] /\ obj[v] \in Items
          /\ next[obj[v]] \in Items /\ Carries(v)
      BY <1>1, <1>3, <2>5 DEF Order, Objects, Threads, Carries, FrontPoints
    <3>2. tail \in Items /\ obj[v] <= tail
      BY <3>1 DEF Front, IsFront, Threads
    <3>3. obj[v] # f
      BY <1>9, <3>1, <3>2 DEF Items
    <3> QED BY <1>3, <3>1, <3>3
  <2> QED BY <1>1, <1>2, <2>1, <2>3, <2>4, <2>5 DEF Order
<1>13. Front'
  <2>1. ASSUME NEW j \in Items, IsFront(j) PROVE IsFront(j)'
    <3>1. tail \in Items /\ f = tail + 1 /\ j <= tail
      BY <1>9, <2>1 DEF IsFront
    <3>2. ASSUME NEW i \in Items PROVE status'[i] = "queued" <=> j <= i /\ i <= l
      <4>1. status[i] = "queued" <=> j <= i /\ i <= tail
        BY <2>1 DEF IsFront
      <4>2. status'[i] = "queued" <=> (f <= i /\ i <= l) \/ (j <= i /\ i <= tail)
        BY <1>3, <1>8, <4>1
      <4>3. i \in Int /\ j \in Int /\ tail \in Int
        BY <3>1 DEF Items
      <4> QED BY <1>8, <3>1, <4>2, <4>3
    <3>3. j <= l /\ tail' \in Items
      BY <1>2, <1>8, <3>1 DEF Items
    <3> QED BY <1>2, <3>2, <3>3 DEF IsFront
  <2>2. CASE tail = Null
    <3>1. ~IsFront(head) /\ \A u \in Threads : ~Carries(u)
      BY <1>1, <2>2 DEF IsFront, Front
    <3>2. head \notin Items
      BY <3>1 DEF Front
    <3>3. \A u \in Threads : Carries(u)' => u = t
      BY <1>6, <3>1
    <3>4. IsFront(f)'
      <4>1. \A i \in Items : status[i] # "queued"
        BY <2>2 DEF Order
      <4> QED BY <1>2, <1>3, <1>8, <4>1 DEF IsFront
    <3> QED BY <1>2, <1>3, <3>2, <3>3, <3>4 DEF Front
  <2>3. CASE tail # Null
    <3>1. ~Carries(t)'
      BY <1>7, <2>3
    <3>2. \A u \in Threads : Carries(u) => obj[u] \in Items
      BY DEF Objects, Carries, Threads
    <3> QED BY <1>2, <1>3, <1>6, <2>1, <3>1, <3>2 DEF Front
  <2> QED BY <2>2, <2>3
<1> QED BY <1>4, <1>5, <1>10, <1>11, <1>12, <1>13

\* The invariant is preserved by every step.
LEMMA NextIInv == IInv /\ [Next]_vars => IInv'
<1> SUFFICES ASSUME IInv, [Next]_vars PROVE IInv'
  OBVIOUS
<1>1. ASSUME NEW p \in Pushers, NEW f \in Items, NEW l \in Items, Push(p, f, l) PROVE IInv'
  BY <1>1, PushIInv
<1>2. ASSUME NEW p \in Pushers, PushStep(p) PROVE IInv'
  BY <1>2, PublishLinkIInv, PublishHeadIInv DEF PushStep
<1>3. ASSUME NEW t \in Threads, WakeupStep(t) PROVE IInv'
  BY <1>3, WakeupIInv
<1>4. ASSUME NEW w \in Workers, WorkerStep(w) PROVE IInv'
  BY <1>4, QuietWorkerIInv, TakeHeadIInv, ClearTailIInv, SetHeadIInv DEF WorkerStep
<1>5. ASSUME NEW w \in Workers, FinishItem(w) \/ TimeOut(w) PROVE IInv'
  BY <1>5, QuietWorkerIInv, FinishItemIInv
<1>6. CASE UNCHANGED vars
  <2>1. \A i : IsFront(i)' <=> IsFront(i)
    BY <1>6 DEF vars, list, IsFront
  <2>2. \A t : (Carries(t)' <=> Carries(t)) /\ (RunsItem(t)' <=> RunsItem(t))
    BY <1>6 DEF vars, Carries, RunsItem
  <2> QED BY <1>6, <2>1, <2>2
          DEF vars, list, IInv, ListTypes, ThreadPlaces, Objects, Order, Front, RunOnce
<1> QED BY <1>1, <1>2, <1>3, <1>4, <1>5, <1>6 DEF Next

\* No item gets to two workers, although a worker that found the list empty may
\* put NULL over the mediator of another: that the front has one owner does not
\* rest on the mediator alone but on who was told to write the head
\* (queue.c, _dispatch_queue_concurrent_drain_one).
THEOREM OneOwnerHolds == Spec => []OneOwner
<1>1. ASSUME IInv PROVE OneOwner
  <2> SUFFICES ASSUME NEW i \in Items
               PROVE  /\ \A w, v \in Holders(i) : w = v
                      /\ Holders(i) # {} => status[i] \in {"queued", "running"}
    BY DEF OneOwner
  <2> USE <1>1 DEF IInv
  <2>1. ASSUME NEW w \in Workers, obj[w] = i
        PROVE  \/ Carries(w) /\ status[i] = "queued"
               \/ RunsItem(w) /\ status[i] = "running"
    <3>1. CASE Carries(w)
      BY <2>1, <3>1 DEF Front, IsFront, Threads, Items
    <3>2. CASE RunsItem(w)
      BY <2>1, <3>2 DEF RunOnce
    <3> QED BY <2>1, <3>1, <3>2 DEF Objects
  <2>2. ASSUME NEW w \in Workers, NEW v \in Workers, obj[w] = i, obj[v] = i
        PROVE  w = v
    BY <2>1, <2>2 DEF Front, RunOnce, Threads
  <2> QED BY <2>1, <2>2 DEF Holders
<1> QED BY <1>1, InitIInv, NextIInv, PTL DEF Spec

-----------------------------------------------------------------------------
(* What keeps a list with items from being left alone.                     *)

\* The types of what the list does not concern.
CountTypes ==
    /\ kworkqueue \in {"unset", "kernel", "pool"}
    /\ pending \in Nat /\ requests \in Nat /\ pool \in Nat /\ avail \in Nat
    /\ n \in [Threads -> {1, 2}]

\* What is queued can be reached: from the head, or from who carries the front.
Reachable == tail # Null => head \in Items \/ \E t \in Threads : Carries(t)

\* Workers that the kernel has granted and that have not said so yet.
Granted == {w \in Workers : pc[w] = "dec"}

\* Where a thread is only if the workers are those of the pool.
PoolPoints == {"signal", "size", "create", "wait", "retire"}

\* Until a wakeup has found out about the kernel there are no workers; then
\* either the kernel is asked for them, or the pool.
KernelModes ==
    /\ kworkqueue = "unset" => \A w \in Workers : pc[w] = "dead"
    /\ kworkqueue # "kernel" => /\ requests = 0 /\ Granted = {}
                                /\ \A t \in Threads : pc[t] # "additem"
    /\ kworkqueue # "pool" => /\ pool = PoolSize
                              /\ \A t \in Threads : pc[t] \notin PoolPoints
    /\ waiting = {w \in Workers : pc[w] = "wait"}

\* dgq_pending is what one wakeup is about to ask for, or what the kernel owes
\* and has granted.
Askers == {t \in Threads : pc[t] \in {"init", "additem"}}
PendingCount ==
    kworkqueue # "pool" =>
        \/ Askers = {} /\ pending = requests + Cardinality(Granted)
        \/ \E t \in Threads : /\ Askers = {t} /\ pending = n[t]
                              /\ requests = 0 /\ Granted = {}

\* A place of the pool is free, or taken for a thread to be, or a worker has it.
Lives(w) == /\ pc[w] \notin {"dead", "recheck"}
            /\ pc[w] \in WakePoints => back[w] # "dead"
Taken == ({t \in Threads : pc[t] = "create"} \X {"create"})
            \cup ({w \in Workers : Lives(w)} \X {"live"})
PoolCount == kworkqueue = "pool" =>
                 IsFiniteSet(Taken) /\ pool + Cardinality(Taken) = PoolSize

\* A thread will come for what is in the list, or see to it that one comes.
KeepPoints == {"probe", "init", "additem", "signal", "create",
               "dec", "drain", "retire", "recheck", "run"}
Keeps(t) == \/ Carries(t)
            \/ pc[t] \in KeepPoints
            \/ pc[t] \in WakePoints /\ back[t] = "run"
            \/ pc[t] = "pending" /\ pending = 0
            \/ pc[t] = "size" /\ pool > 0

\* A list with items has such a thread, or a thread the kernel owes, or a unit
\* for the next worker that is out of work.
Covered == tail # Null => \/ \E t \in Threads : Keeps(t)
                          \/ requests > 0
                          \/ /\ kworkqueue = "pool" /\ avail > 0
                             /\ \E w \in Workers : Lives(w)

\* The inductive invariant of the whole root queue.
KIInv == /\ IInv /\ CountTypes
         /\ Reachable /\ KernelModes /\ PendingCount /\ PoolCount /\ Covered

\* A step of thread t: the others stay where they are.
Only(t) == \A u \in Threads \ {t} : /\ pc'[u] = pc[u] /\ back'[u] = back[u]
                                    /\ prev'[u] = prev[u] /\ n'[u] = n[u]

LEMMA InitKIInv == Init => KIInv
<1> SUFFICES ASSUME Init PROVE KIInv
  OBVIOUS
<1>1. Pushers \cap Workers = {} /\ PoolSize \in Nat
  BY RootQueueAssumption DEF RootQueueAssumption
<1>2. /\ \A t \in Threads : pc[t] \in {"idle", "dead"}
      /\ \A w \in Workers : pc[w] = "dead"
  BY <1>1 DEF Init, Threads
<1>3. CountTypes /\ Reachable /\ Covered
  BY <1>1 DEF Init, CountTypes, Reachable, Covered, threadMediator!Init
<1>4. Granted = {} /\ Askers = {} /\ Cardinality(Granted) = 0
  BY <1>2, FS_EmptySet DEF Granted, Askers
<1>5. KernelModes
  BY <1>2, <1>4 DEF Init, KernelModes, PoolPoints, threadMediator!Init
<1>6. PendingCount /\ PoolCount
  BY <1>4 DEF Init, PendingCount, PoolCount
<1> QED BY <1>3, <1>5, <1>6, InitIInv DEF KIInv

-----------------------------------------------------------------------------
(* Steps that do not move what is counted.                                 *)

Busy == {"create", "init", "additem", "dec", "wait"}
Calm(t) == /\ Only(t) /\ UNCHANGED <<kernel, pool, waiting>>
           /\ pc[t] \notin Busy /\ pc'[t] \notin Busy
           /\ pc'[t] \in PoolPoints => kworkqueue = "pool"
           /\ t \in Workers => /\ pc[t] # "dead"
                               /\ kworkqueue = "pool" => (Lives(t) <=> Lives(t)')

Counts == KernelModes /\ PendingCount /\ PoolCount

LEMMA CalmStep ==
    ASSUME Counts, NEW t \in Threads, Calm(t)
    PROVE  Counts'
<1> USE DEF Counts, Calm, Busy, kernel
<1>1. Workers \subseteq Threads
  BY DEF Threads
<1>2. Granted' = Granted /\ Askers' = Askers
  BY <1>1 DEF Granted, Askers, Only
<1>3. KernelModes'
  <2>1. {w \in Workers : pc'[w] = "wait"} = {w \in Workers : pc[w] = "wait"}
    BY <1>1 DEF Only
  <2>2. \A w \in Workers : kworkqueue = "unset" => pc'[w] = "dead"
    BY <1>1 DEF Only, KernelModes
  <2>3. \A u \in Threads : /\ pc'[u] = "additem" => pc[u] = "additem"
                           /\ pc'[u] \in PoolPoints => kworkqueue = "pool"
    BY DEF Only, KernelModes
  <2> QED BY <1>2, <2>1, <2>2, <2>3 DEF KernelModes
<1>4. PendingCount'
  BY <1>2 DEF PendingCount, Only, Askers
<1>5. kworkqueue = "pool" => Taken' = Taken
  <2> SUFFICES ASSUME kworkqueue = "pool" PROVE Taken' = Taken
    OBVIOUS
  <2>1. \A w \in Workers : Lives(w)' <=> Lives(w)
    BY <1>1 DEF Lives, Only
  <2>2. {w \in Workers : Lives(w)}' = {w \in Workers : Lives(w)}
    BY <2>1
  <2>3. {u \in Threads : pc'[u] = "create"} = {u \in Threads : pc[u] = "create"}
    BY DEF Only
  <2> QED BY <2>2, <2>3 DEF Taken
<1>6. PoolCount'
  BY <1>5 DEF PoolCount
<1> QED BY <1>3, <1>4, <1>6

\* How a wakeup moves its thread.
LEMMA WakeMove ==
    ASSUME IInv, CountTypes, NEW t \in Threads, pc[t] \in WakePoints,
           UNCHANGED prev
    PROVE  /\ Return(t) => /\ Only(t) /\ pc'[t] = back[t]
                           /\ back[t] \in {"idle", "nowork", "run", "dead"}
                           /\ n' \in [Threads -> {1, 2}]
                           /\ t \in Workers => /\ back[t] # "idle"
                                               /\ Lives(t) <=> Lives(t)'
           /\ \A p \in WakePoints : Within(t, p) =>
                  /\ Only(t) /\ pc'[t] = p /\ back' = back /\ n' = n
                  /\ t \in Workers => (Lives(t) <=> Lives(t)')
<1> USE DEF IInv, ListTypes, CountTypes, Goto, Only
<1>1. back[t] \in {"idle", "nowork", "run", "dead"}
  OBVIOUS
<1>2. t \in Workers => back[t] # "idle"
  BY DEF ThreadPlaces
<1>3. ASSUME Return(t)
      PROVE  /\ Only(t) /\ pc'[t] = back[t] /\ n' \in [Threads -> {1, 2}]
             /\ t \in Workers => (Lives(t) <=> Lives(t)')
  BY <1>1, <1>2, <1>3 DEF Return, Lives, WakePoints
<1>4. ASSUME NEW p \in WakePoints, Within(t, p)
      PROVE  /\ Only(t) /\ pc'[t] = p /\ back' = back /\ n' = n
             /\ t \in Workers => (Lives(t) <=> Lives(t)')
  BY <1>4 DEF Within, Lives, WakePoints
<1> QED BY <1>1, <1>2, <1>3, <1>4

-----------------------------------------------------------------------------
(* The counts survive every step.                                          *)

LEMMA CardinalityFacts ==
    /\ IsFiniteSet(Granted) /\ Cardinality(Granted) \in Nat
    /\ Cardinality(Granted) = 0 <=> Granted = {}
    /\ KernelModes => /\ Cardinality(waiting) \in Nat
                      /\ Cardinality(waiting) = 0 <=> waiting = {}
<1>1. IsFiniteSet(Workers)
  BY RootQueueAssumption DEF RootQueueAssumption
<1>2. Granted \subseteq Workers /\ (KernelModes => waiting \subseteq Workers)
  BY DEF Granted, KernelModes
<1>3. IsFiniteSet(Granted) /\ (KernelModes => IsFiniteSet(waiting))
  BY <1>1, <1>2, FS_Subset
<1> QED BY <1>3, FS_CardinalityType, FS_EmptySet

\* The first wakeup finds out about the kernel, and no place of the pool is
\* taken yet.
LEMMA InitCounts ==
    ASSUME KIInv, NEW t \in Threads, RootQueuesInit(t)
    PROVE  CountTypes' /\ Counts'
<1> USE DEF KIInv, RootQueuesInit
<1>1. \E p \in {"additem", "signal"} : Within(t, p)
  BY DEF Within
<1>2. PICK p \in {"additem", "signal"} :
          Within(t, p) /\ (p = "additem" <=> kworkqueue' = "kernel")
  BY <1>1 DEF Within
<1>3. /\ Only(t) /\ pc[t] = "init" /\ pc'[t] = p /\ back' = back /\ n' = n
      /\ t \in Workers => (Lives(t) <=> Lives(t)')
  BY <1>2, WakeMove DEF WakePoints
<1>4. CountTypes'
  BY <1>3 DEF CountTypes, sema
<1>5. Workers \subseteq Threads
  BY DEF Threads
<1>6. Granted' = Granted
  BY <1>3, <1>5 DEF Granted, Only
<1>7. /\ t \in Askers
      /\ kworkqueue # "pool" => /\ Askers = {t} /\ pending = n[t]
                                /\ requests = 0 /\ Granted = {}
  BY <1>3 DEF Askers, PendingCount
<1>8. KernelModes'
  <2>1. {w \in Workers : pc'[w] = "wait"} = {w \in Workers : pc[w] = "wait"}
    BY <1>3, <1>5 DEF Only
  <2>2. kworkqueue' # "kernel" =>
          requests = 0 /\ Granted = {} /\ \A u \in Threads : pc'[u] # "additem"
    <3>1. kworkqueue = "unset" => \A u \in Threads : pc[u] # "additem"
      BY DEF KernelModes
    <3>2. kworkqueue # "unset" => kworkqueue' = kworkqueue
      OBVIOUS
    <3>3. kworkqueue' # "kernel" => kworkqueue # "kernel"
      BY <3>2
    <3> QED BY <1>2, <1>3, <3>3 DEF KernelModes, Only
  <2>3. kworkqueue' # "pool" => kworkqueue # "pool" /\ p = "additem"
    BY <1>2, <1>4 DEF CountTypes
  <2>4. kworkqueue' # "pool" => \A u \in Threads : pc'[u] \notin PoolPoints
    BY <1>3, <2>3 DEF KernelModes, Only, PoolPoints
  <2>5. kworkqueue' # "unset"
    BY DEF CountTypes
  <2> QED BY <1>6, <2>1, <2>2, <2>3, <2>4, <2>5 DEF KernelModes, sema
<1>9. PendingCount'
  <2> SUFFICES ASSUME kworkqueue' # "pool" PROVE PendingCount'
    BY DEF PendingCount
  <2>1. kworkqueue # "pool" /\ pc'[t] = "additem"
    BY <1>2, <1>3, <1>4 DEF CountTypes
  <2>2. Askers' = {t}
    BY <1>3, <1>7, <2>1 DEF Askers, Only
  <2> QED BY <1>3, <1>6, <1>7, <2>1, <2>2 DEF PendingCount
<1>10. PoolCount'
  <2> SUFFICES ASSUME kworkqueue' = "pool"
               PROVE  IsFiniteSet(Taken') /\ pool' + Cardinality(Taken') = PoolSize
    BY DEF PoolCount
  <2>1. {w \in Workers : Lives(w)}' = {w \in Workers : Lives(w)}
    BY <1>3, <1>5 DEF Only, Lives
  <2>2. {u \in Threads : pc'[u] = "create"} = {u \in Threads : pc[u] = "create"}
    BY <1>2, <1>3 DEF Only
  <2>3. Taken' = Taken
    BY <2>1, <2>2 DEF Taken
  <2>4. CASE kworkqueue = "pool"
    BY <2>3, <2>4 DEF PoolCount
  <2>5. CASE kworkqueue # "pool"
    <3>1. kworkqueue = "unset"
      BY <2>5 DEF CountTypes
    <3>2. Taken = {} /\ pool = PoolSize
      BY <3>1 DEF KernelModes, PoolPoints, Taken, Lives
    <3>3. PoolSize \in Nat
      BY RootQueueAssumption DEF RootQueueAssumption
    <3> QED BY <2>3, <3>2, <3>3, FS_EmptySet
  <2> QED BY <2>4, <2>5
<1> QED BY <1>4, <1>8, <1>9, <1>10 DEF Counts

\* A wakeup is the first to take dgq_pending from 0.
LEMMA PendingCounts ==
    ASSUME KIInv, NEW t \in Threads, TakePending(t)
    PROVE  CountTypes' /\ Counts'
<1> USE DEF KIInv, TakePending
<1>1. CASE pending # 0
  <2>1. /\ Only(t) /\ pc[t] = "pending" /\ pc'[t] = back[t]
        /\ back[t] \in {"idle", "nowork", "run", "dead"}
        /\ n' \in [Threads -> {1, 2}] /\ (t \in Workers => (Lives(t) <=> Lives(t)'))
    BY <1>1, WakeMove DEF WakePoints
  <2>2. CountTypes'
    BY <1>1, <2>1 DEF CountTypes, sema
  <2>3. Calm(t)
    BY <1>1, <2>1 DEF Calm, PoolPoints, Busy, sema, kernel
  <2> QED BY <2>2, <2>3, CalmStep DEF Counts
<1>2. CASE pending = 0
  <2>1. /\ Only(t) /\ pc[t] = "pending" /\ pc'[t] = "init" /\ back' = back /\ n' = n
        /\ t \in Workers => (Lives(t) <=> Lives(t)')
    BY <1>2, WakeMove DEF WakePoints
  <2>2. CountTypes'
    BY <1>2, <2>1 DEF CountTypes, sema
  <2>3. Workers \subseteq Threads
    BY DEF Threads
  <2>4. Granted' = Granted /\ {w \in Workers : pc'[w] = "wait"} = {w \in Workers : pc[w] = "wait"}
    BY <2>1, <2>3 DEF Granted, Only
  <2>5. kworkqueue = "unset" => t \notin Workers
    BY <2>1 DEF KernelModes, PoolPoints
  <2>6. KernelModes'
    BY <2>1, <2>3, <2>4, <2>5 DEF KernelModes, PoolPoints, Only, sema
  <2>7. PendingCount'
    <3> SUFFICES ASSUME kworkqueue # "pool" PROVE PendingCount'
      BY DEF PendingCount
    <3>1. Askers = {} /\ requests = 0 /\ Granted = {}
      <4>1. \A u \in Threads : n[u] # 0
        BY DEF CountTypes
      <4>2. Askers = {} /\ 0 = requests + Cardinality(Granted)
        BY <1>2, <4>1 DEF PendingCount
      <4>3. requests = 0 /\ Cardinality(Granted) = 0
        BY <4>2, CardinalityFacts DEF CountTypes
      <4> QED BY <4>2, <4>3, CardinalityFacts
    <3>2. Askers' = {t}
      BY <2>1, <3>1 DEF Askers, Only
    <3>3. pending' = n[t]
      BY <1>2
    <3> QED BY <2>1, <2>4, <3>1, <3>2, <3>3 DEF PendingCount
  <2>8. PoolCount'
    <3>1. {w \in Workers : Lives(w)}' = {w \in Workers : Lives(w)}
      BY <2>1, <2>3 DEF Only, Lives
    <3>2. {u \in Threads : pc'[u] = "create"} = {u \in Threads : pc[u] = "create"}
      BY <2>1 DEF Only
    <3>3. Taken' = Taken
      BY <3>1, <3>2 DEF Taken
    <3> QED BY <3>3 DEF PoolCount
  <2> QED BY <2>2, <2>6, <2>7, <2>8 DEF Counts
<1> QED BY <1>1, <1>2

\* It asks the kernel for the threads that it announced.
LEMMA AddItemCounts ==
    ASSUME KIInv, NEW t \in Threads, AddItem(t)
    PROVE  CountTypes' /\ Counts'
<1> USE DEF KIInv, AddItem
<1>1. /\ Only(t) /\ pc[t] = "additem" /\ pc'[t] = back[t]
      /\ back[t] \in {"idle", "nowork", "run", "dead"}
      /\ n' \in [Threads -> {1, 2}] /\ (t \in Workers => (Lives(t) <=> Lives(t)'))
  BY WakeMove DEF WakePoints
<1>2. CountTypes'
  BY <1>1 DEF CountTypes, sema
<1>3. Workers \subseteq Threads /\ kworkqueue = "kernel"
  BY <1>1 DEF Threads, KernelModes, PoolPoints
<1>4. Granted' = Granted /\ {w \in Workers : pc'[w] = "wait"} = {w \in Workers : pc[w] = "wait"}
  BY <1>1, <1>3 DEF Granted, Only
<1>5. KernelModes'
  BY <1>1, <1>3, <1>4 DEF KernelModes, PoolPoints, Only, sema
<1>6. PendingCount'
  <2>1. Askers = {t} /\ pending = n[t] /\ requests = 0 /\ Granted = {}
    BY <1>1, <1>3 DEF Askers, PendingCount
  <2>2. Askers' = {}
    BY <1>1, <2>1 DEF Askers, Only
  <2>3. pending' = n[t] /\ requests' = n[t] /\ Cardinality(Granted') = 0
    BY <1>4, <2>1, CardinalityFacts DEF CountTypes
  <2>4. n[t] \in {1, 2}
    BY DEF CountTypes
  <2> QED BY <2>2, <2>3, <2>4 DEF PendingCount
<1> QED BY <1>2, <1>3, <1>5, <1>6 DEF Counts, PoolCount

\* A thread takes a place of the pool for a new worker.
LEMMA TakeFromPoolCounts ==
    ASSUME KIInv, NEW t \in Threads, TakeFromPool(t)
    PROVE  CountTypes' /\ Counts'
<1> USE DEF KIInv, TakeFromPool
<1>1. CASE pool = 0
  <2>1. /\ Only(t) /\ pc[t] = "size" /\ pc'[t] = back[t]
        /\ back[t] \in {"idle", "nowork", "run", "dead"}
        /\ n' \in [Threads -> {1, 2}] /\ (t \in Workers => (Lives(t) <=> Lives(t)'))
    BY <1>1, WakeMove DEF WakePoints
  <2>2. CountTypes'
    BY <1>1, <2>1 DEF CountTypes, sema, kernel
  <2>3. Calm(t)
    BY <1>1, <2>1 DEF Calm, PoolPoints, Busy, sema, kernel
  <2> QED BY <2>2, <2>3, CalmStep DEF Counts
<1>2. CASE pool # 0
  <2>1. /\ Only(t) /\ pc[t] = "size" /\ pc'[t] = "create" /\ back' = back /\ n' = n
        /\ t \in Workers => (Lives(t) <=> Lives(t)')
    BY <1>2, WakeMove DEF WakePoints
  <2>2. CountTypes'
    BY <1>2, <2>1 DEF CountTypes, sema, kernel
  <2>3. Workers \subseteq Threads /\ kworkqueue = "pool"
    BY <2>1 DEF Threads, KernelModes, PoolPoints
  <2>4. Granted' = Granted /\ {w \in Workers : pc'[w] = "wait"} = {w \in Workers : pc[w] = "wait"}
    BY <2>1, <2>3 DEF Granted, Only
  <2>5. KernelModes'
    BY <2>1, <2>3, <2>4 DEF KernelModes, PoolPoints, Only, sema, kernel
  <2>6. PoolCount'
    <3> DEFINE x == <<t, "create">>
    <3>1. {w \in Workers : Lives(w)}' = {w \in Workers : Lives(w)}
      BY <2>1, <2>3 DEF Only, Lives
    <3>2. {u \in Threads : pc'[u] = "create"} = {u \in Threads : pc[u] = "create"} \cup {t}
      BY <2>1 DEF Only
    <3>3. Taken' = Taken \cup {x}
      BY <3>1, <3>2 DEF Taken
    <3>4. x \notin Taken
      BY <2>1 DEF Taken
    <3>5. IsFiniteSet(Taken) /\ pool + Cardinality(Taken) = PoolSize
      BY <2>3 DEF PoolCount
    <3> HIDE DEF x
    <3>6. IsFiniteSet(Taken') /\ Cardinality(Taken') = Cardinality(Taken) + 1
      BY <3>3, <3>4, <3>5, FS_AddElement
    <3>7. Cardinality(Taken) \in Nat /\ pool \in Nat /\ pool' = pool - 1
      BY <1>2, <3>5, FS_CardinalityType DEF CountTypes
    <3> QED BY <3>5, <3>6, <3>7 DEF PoolCount
  <2> QED BY <2>2, <2>3, <2>5, <2>6 DEF Counts, PendingCount, kernel
<1> QED BY <1>1, <1>2

\* The place is the new worker's.
LEMMA CreateThreadCounts ==
    ASSUME KIInv, NEW t \in Threads, NEW w \in Workers, CreateThread(t, w)
    PROVE  CountTypes' /\ Counts'
<1> USE DEF KIInv
<1>1. /\ w # t /\ w \in Threads /\ Workers \subseteq Threads
      /\ pc[t] = "create" /\ pc[w] = "dead"
      /\ \A u \in Threads : /\ pc'[u] = IF u = w THEN "drain"
                                        ELSE IF u = t THEN back[t] ELSE pc[u]
                            /\ back'[u] = IF u = t THEN "dead" ELSE back[u]
      /\ back[t] \in {"idle", "nowork", "run", "dead"}
      /\ n' \in [Threads -> {1, 2}]
      /\ UNCHANGED <<kworkqueue, pending, requests, pool, avail, waiting>>
  BY DEF CreateThread, IInv, ListTypes, Threads, CountTypes, sema, kernel
<1>2. CountTypes'
  BY <1>1 DEF CountTypes
<1>3. kworkqueue = "pool" /\ (t \in Workers => back[t] # "idle")
  BY <1>1 DEF KernelModes, PoolPoints, IInv, ThreadPlaces, WakePoints
<1>4. Granted' = Granted /\ {v \in Workers : pc'[v] = "wait"} = {v \in Workers : pc[v] = "wait"}
  BY <1>1 DEF Granted
<1>5. KernelModes'
  BY <1>1, <1>3, <1>4 DEF KernelModes, PoolPoints
<1>6. PoolCount'
  <2> DEFINE x == <<t, "create">>
             y == <<w, "live">>
  <2>1. \A v \in Workers : Lives(v)' <=> Lives(v) \/ v = w
    BY <1>1, <1>3 DEF Lives, WakePoints
  <2>2. {v \in Workers : Lives(v)}' = {v \in Workers : Lives(v)} \cup {w}
    BY <2>1
  <2>3. {u \in Threads : pc'[u] = "create"} = {u \in Threads : pc[u] = "create"} \ {t}
    BY <1>1
  <2>4. Taken' = (Taken \ {x}) \cup {y}
    BY <2>2, <2>3 DEF Taken
  <2>5. x \in Taken
    BY <1>1 DEF Taken
  <2>6. y \notin Taken \ {x}
    BY <1>1 DEF Taken, Lives
  <2>7. IsFiniteSet(Taken) /\ pool + Cardinality(Taken) = PoolSize
    BY <1>3 DEF PoolCount
  <2> HIDE DEF x, y
  <2>8. IsFiniteSet(Taken \ {x}) /\ Cardinality(Taken \ {x}) = Cardinality(Taken) - 1
    BY <2>5, <2>7, FS_RemoveElement
  <2>9. IsFiniteSet(Taken') /\ Cardinality(Taken') = Cardinality(Taken \ {x}) + 1
    BY <2>4, <2>6, <2>8, FS_AddElement
  <2>10. Cardinality(Taken) \in Nat /\ pool' = pool
    BY <1>1, <2>7, FS_CardinalityType
  <2> QED BY <2>7, <2>8, <2>9, <2>10 DEF PoolCount
<1> QED BY <1>1, <1>2, <1>3, <1>5, <1>6 DEF Counts, PendingCount

\* The kernel grants a thread that it owes.
LEMMA GrantCounts ==
    ASSUME KIInv, NEW w \in Workers, GrantThread(w)
    PROVE  CountTypes' /\ Counts'
<1> USE DEF KIInv
<1>1. /\ w \in Threads /\ Workers \subseteq Threads
      /\ pc[w] = "dead" /\ \A u \in Threads : pc'[u] = IF u = w THEN "dec" ELSE pc[u]
      /\ requests > 0 /\ requests' = requests - 1
      /\ UNCHANGED <<kworkqueue, pending, pool, avail, waiting, n, back>>
  BY DEF GrantThread, Move, Goto, IInv, ListTypes, Threads, sema
<1>2. CountTypes'
  BY <1>1 DEF CountTypes
<1>3. kworkqueue = "kernel"
  BY <1>1 DEF KernelModes, PoolPoints
<1>4. /\ Granted' = Granted \cup {w} /\ w \notin Granted /\ Askers' = Askers
      /\ {v \in Workers : pc'[v] = "wait"} = {v \in Workers : pc[v] = "wait"}
  BY <1>1 DEF Granted, Askers
<1>5. KernelModes'
  BY <1>1, <1>3, <1>4 DEF KernelModes, PoolPoints
<1>6. PendingCount'
  <2>1. Askers = {} /\ pending = requests + Cardinality(Granted)
    BY <1>1, <1>3 DEF PendingCount
  <2>2. Cardinality(Granted') = Cardinality(Granted) + 1
    BY <1>4, CardinalityFacts, FS_AddElement
  <2>3. pending = requests' + Cardinality(Granted')
    BY <1>1, <2>1, <2>2, CardinalityFacts DEF CountTypes
  <2> QED BY <1>1, <1>4, <2>1, <2>3 DEF PendingCount
<1> QED BY <1>1, <1>2, <1>3, <1>5, <1>6 DEF Counts, PoolCount

\* The worker says so.
LEMMA DecCounts ==
    ASSUME KIInv, NEW w \in Workers, DecPending(w)
    PROVE  CountTypes' /\ Counts'
<1> USE DEF KIInv
<1>1. /\ w \in Threads /\ Workers \subseteq Threads
      /\ pc[w] = "dec" /\ \A u \in Threads : pc'[u] = IF u = w THEN "drain" ELSE pc[u]
      /\ pending' = pending - 1
      /\ UNCHANGED <<kworkqueue, requests, pool, avail, waiting, n, back>>
  BY DEF DecPending, Move, Goto, IInv, ListTypes, Threads, sema
<1>2. w \in Granted /\ kworkqueue = "kernel"
  BY <1>1 DEF Granted, KernelModes, PoolPoints
<1>3. /\ Granted' = Granted \ {w} /\ Askers' = Askers
      /\ {v \in Workers : pc'[v] = "wait"} = {v \in Workers : pc[v] = "wait"}
  BY <1>1 DEF Granted, Askers
<1>4. Askers = {} /\ pending = requests + Cardinality(Granted)
  BY <1>2 DEF PendingCount
<1>5. Cardinality(Granted') = Cardinality(Granted) - 1 /\ Cardinality(Granted) # 0
  BY <1>2, <1>3, CardinalityFacts, FS_RemoveElement
<1>6. pending' \in Nat /\ pending' = requests + Cardinality(Granted')
  BY <1>1, <1>4, <1>5, CardinalityFacts DEF CountTypes
<1>7. CountTypes'
  BY <1>1, <1>6 DEF CountTypes
<1>8. KernelModes'
  BY <1>1, <1>2, <1>3 DEF KernelModes, PoolPoints
<1>9. PendingCount'
  BY <1>1, <1>3, <1>4, <1>6 DEF PendingCount
<1> QED BY <1>1, <1>2, <1>7, <1>8, <1>9 DEF Counts, PoolCount

\* A worker of the pool moves, and keeps its place or gives it back.
LEMMA PoolWorkerCounts ==
    ASSUME KIInv, NEW w \in Workers, NEW p \in {"drain", "wait", "retire"},
           pc[w] \in {"nowork", "wait"}, kworkqueue = "pool",
           \A u \in Threads : pc'[u] = IF u = w THEN p ELSE pc[u],
           waiting' = IF p = "wait" THEN waiting \cup {w} ELSE waiting \ {w},
           avail' \in Nat, UNCHANGED <<kworkqueue, pending, requests, pool, n, back>>
    PROVE  CountTypes' /\ Counts'
<1> USE DEF KIInv
<1>1. w \in Threads /\ Workers \subseteq Threads
  BY DEF Threads
<1>2. CountTypes'
  BY DEF CountTypes
<1>3. Granted' = Granted
  BY <1>1 DEF Granted
<1>4. waiting' = {v \in Workers : pc'[v] = "wait"}
  BY <1>1 DEF KernelModes, PoolPoints
<1>5. KernelModes'
  BY <1>1, <1>3, <1>4 DEF KernelModes, PoolPoints
<1>6. {v \in Workers : Lives(v)}' = {v \in Workers : Lives(v)}
  BY <1>1 DEF Lives, WakePoints
<1>7. {u \in Threads : pc'[u] = "create"} = {u \in Threads : pc[u] = "create"}
  OBVIOUS
<1>8. Taken' = Taken
  BY <1>6, <1>7 DEF Taken
<1>9. PoolCount'
  BY <1>8 DEF PoolCount
<1> QED BY <1>2, <1>5, <1>9 DEF Counts, PendingCount

\* A worker that has waited in vain gives its place back.
LEMMA RetireCounts ==
    ASSUME KIInv, NEW w \in Workers, ReturnToPool(w)
    PROVE  CountTypes' /\ Counts'
<1> USE DEF KIInv
<1>1. /\ w \in Threads /\ Workers \subseteq Threads
      /\ pc[w] = "retire" /\ \A u \in Threads : pc'[u] = IF u = w THEN "recheck" ELSE pc[u]
      /\ pool' = pool + 1
      /\ UNCHANGED <<kworkqueue, pending, requests, avail, waiting, n, back>>
  BY DEF ReturnToPool, Move, Goto, IInv, ListTypes, Threads, sema, kernel
<1>2. CountTypes'
  BY <1>1 DEF CountTypes
<1>3. Granted' = Granted /\ {v \in Workers : pc'[v] = "wait"} = {v \in Workers : pc[v] = "wait"}
  BY <1>1 DEF Granted
<1>4. kworkqueue = "pool"
  BY <1>1 DEF KernelModes, PoolPoints
<1>5. KernelModes'
  BY <1>1, <1>3, <1>4 DEF KernelModes, PoolPoints
<1>6. PoolCount'
  <2> DEFINE x == <<w, "live">>
  <2>1. {v \in Workers : Lives(v)}' = {v \in Workers : Lives(v)} \ {w}
    BY <1>1 DEF Lives, WakePoints
  <2>2. {u \in Threads : pc'[u] = "create"} = {u \in Threads : pc[u] = "create"}
    BY <1>1
  <2>3. Taken' = Taken \ {x}
    BY <2>1, <2>2 DEF Taken
  <2>4. x \in Taken
    BY <1>1 DEF Taken, Lives, WakePoints
  <2>5. IsFiniteSet(Taken) /\ pool + Cardinality(Taken) = PoolSize
    BY <1>4 DEF PoolCount
  <2> HIDE DEF x
  <2>6. IsFiniteSet(Taken') /\ Cardinality(Taken') = Cardinality(Taken) - 1
    BY <2>3, <2>4, <2>5, FS_RemoveElement
  <2>7. Cardinality(Taken) \in Nat /\ pool \in Nat
    BY <2>5, FS_CardinalityType DEF CountTypes
  <2> QED BY <1>1, <2>5, <2>6, <2>7 DEF PoolCount
<1> QED BY <1>1, <1>2, <1>4, <1>5, <1>6 DEF Counts, PendingCount

\* The steps along the list, and those that return, move nothing that is counted.
LEMMA QuietCounts ==
    ASSUME KIInv, NEW t \in Threads, pc' \in [Threads -> Points], Calm(t),
           n' \in [Threads -> {1, 2}], avail' \in Nat
    PROVE  CountTypes' /\ Counts'
<1>1. CountTypes'
  BY DEF KIInv, CountTypes, Calm, kernel
<1> QED BY <1>1, CalmStep DEF KIInv, Counts

LEMMA PusherCounts ==
    ASSUME KIInv, NEW t \in Pushers,
           PushStep(t) \/ \E f, l \in Items : Push(t, f, l)
    PROVE  CountTypes' /\ Counts'
<1> USE DEF KIInv, IInv, ListTypes, CountTypes
<1>1. t \in Threads /\ t \notin Workers
  BY RootQueueAssumption DEF RootQueueAssumption, Threads
<1>2. ASSUME NEW f \in Items, NEW l \in Items, Push(t, f, l)
      PROVE  /\ Calm(t) /\ pc' \in [Threads -> Points]
             /\ n' \in [Threads -> {1, 2}] /\ avail' \in Nat
  BY <1>1, <1>2 DEF Push, Move, Goto, Calm, Only, Busy, PoolPoints, Points, sema
<1>3. ASSUME PublishLink(t)
      PROVE  /\ Calm(t) /\ pc' \in [Threads -> Points]
             /\ n' \in [Threads -> {1, 2}] /\ avail' \in Nat
  BY <1>1, <1>3 DEF PublishLink, Goto, Calm, Only, Busy, PoolPoints, Points, sema
<1>4. ASSUME PublishHead(t)
      PROVE  /\ Calm(t) /\ pc' \in [Threads -> Points]
             /\ n' \in [Threads -> {1, 2}] /\ avail' \in Nat
  BY <1>1, <1>4
     DEF PublishHead, Wakeup, Goto, Calm, Only, Busy, PoolPoints, Points, WakePoints, sema
<1> QED BY <1>1, <1>2, <1>3, <1>4, QuietCounts DEF PushStep

LEMMA ListWorkerCounts ==
    ASSUME KIInv, NEW t \in Workers,
           \/ TakeHead(t) \/ RestoreHead(t) \/ Contend(t) \/ ReadNext(t) \/ ClearTail(t)
           \/ AwaitNext(t) \/ SetHead(t) \/ FinishItem(t) \/ ReturnToKernel(t) \/ Recheck(t)
    PROVE  CountTypes' /\ Counts'
<1> USE DEF KIInv, IInv, ListTypes, CountTypes, Move, Goto
<1>1. t \in Threads
  BY DEF Threads
\* Where the step leads, and how it gets there.
<1> DEFINE Plain == {"restore", "contend", "first", "nowork", "drain", "cleartail", "last",
                     "sethead", "run"}
           Stays(p) == /\ pc' = [pc EXCEPT ![t] = p]
                       /\ UNCHANGED <<kworkqueue, pending, requests, pool, avail, waiting,
                                      prev, n, back>>
           Wakes(r) == /\ pc' = [pc EXCEPT ![t] = "probe"]
                       /\ back' = [back EXCEPT ![t] = r] /\ n' = [n EXCEPT ![t] = 1]
                       /\ UNCHANGED <<kworkqueue, pending, requests, pool, avail, waiting,
                                      prev>>
<1>2. ASSUME pc[t] \in Plain, NEW p \in Plain, Stays(p)
      PROVE  CountTypes' /\ Counts'
  <2>1. /\ pc' \in [Threads -> Points] /\ Only(t) /\ pc'[t] = p /\ back'[t] = back[t]
    BY <1>1, <1>2 DEF Only, Points, WorkerPoints, DrainPoints, FrontPoints
  <2>2. Lives(t) /\ Lives(t)'
    BY <1>2, <2>1 DEF Lives, WakePoints
  <2>3. Calm(t)
    BY <1>2, <2>1, <2>2 DEF Calm, Busy, PoolPoints, kernel
  <2> QED BY <1>1, <1>2, <2>1, <2>3, QuietCounts
<1>3. ASSUME pc[t] \in Plain, NEW r \in {"nowork", "run"}, Wakes(r)
      PROVE  CountTypes' /\ Counts'
  <2>1. /\ pc' \in [Threads -> Points] /\ Only(t) /\ pc'[t] = "probe" /\ back'[t] = r
        /\ n' \in [Threads -> {1, 2}]
    BY <1>1, <1>3 DEF Only, Points, WakePoints
  <2>2. Lives(t) /\ Lives(t)'
    BY <1>3, <2>1 DEF Lives, WakePoints
  <2>3. Calm(t)
    BY <1>3, <2>1, <2>2 DEF Calm, Busy, PoolPoints, kernel
  <2> QED BY <1>1, <1>3, <2>1, <2>3, QuietCounts
<1>4. CASE TakeHead(t)
  <2> DEFINE p == CASE head = Null -> "restore" [] head = Mediator -> "contend"
                    [] OTHER -> "first"
  <2>1. pc[t] \in Plain /\ Stays(p)
    BY <1>4 DEF TakeHead, kernel, sema
  <2>2. p \in Plain
    OBVIOUS
  <2> HIDE DEF p
  <2> QED BY <1>2, <2>1, <2>2
<1>5. CASE RestoreHead(t)
  BY <1>2, <1>5 DEF RestoreHead, kernel, sema
<1>6. CASE Contend(t)
  <2>1. pc[t] \in Plain /\ (Stays("drain") \/ Wakes("nowork"))
    BY <1>6 DEF Contend, Within, Wakeup, kernel, sema
  <2> QED BY <1>2, <1>3, <2>1
<1>7. CASE ReadNext(t)
  <2>1. PICK p \in {"cleartail", "sethead"} : Stays(p)
    BY <1>7 DEF ReadNext, kernel, sema
  <2> QED BY <1>2, <1>7, <2>1 DEF ReadNext
<1>8. CASE ClearTail(t)
  <2>1. PICK p \in {"run", "last"} : Stays(p)
    BY <1>8 DEF ClearTail, kernel, sema
  <2> QED BY <1>2, <1>8, <2>1 DEF ClearTail
<1>9. CASE AwaitNext(t)
  BY <1>2, <1>9 DEF AwaitNext, kernel, sema
<1>10. CASE SetHead(t)
  <2>1. pc[t] \in Plain /\ Wakes("run")
    BY <1>10 DEF SetHead, Wakeup, kernel, sema
  <2> QED BY <1>3, <2>1
<1>11. CASE FinishItem(t)
  BY <1>2, <1>11 DEF FinishItem, kernel, sema
<1>12. CASE ReturnToKernel(t)
  <2>1. /\ pc' \in [Threads -> Points] /\ Only(t) /\ pc[t] = "nowork" /\ pc'[t] = "dead"
        /\ kworkqueue # "pool" /\ UNCHANGED <<kernel, pool, avail, waiting, n>>
    BY <1>1, <1>12 DEF ReturnToKernel, Only, Points, WorkerPoints, kernel, sema
  <2>2. Calm(t)
    BY <2>1 DEF Calm, Busy, PoolPoints, kernel
  <2> QED BY <1>1, <2>1, <2>2, QuietCounts
<1>13. CASE Recheck(t)
  <2>1. PICK p \in {"dead", "probe"} :
          /\ pc' = [pc EXCEPT ![t] = p]
          /\ back' = back \/ back' = [back EXCEPT ![t] = "dead"]
          /\ p = "probe" => back' = [back EXCEPT ![t] = "dead"]
          /\ n' = n \/ n' = [n EXCEPT ![t] = 1]
          /\ UNCHANGED <<kernel, pool, avail, waiting, prev>> /\ pc[t] = "recheck"
    BY <1>13 DEF Recheck, Within, Wakeup, sema
  <2>2. /\ pc' \in [Threads -> Points] /\ Only(t) /\ pc'[t] = p
        /\ n' \in [Threads -> {1, 2}] /\ (p = "probe" => back'[t] = "dead")
    BY <1>1, <2>1 DEF Only, Points, WorkerPoints, WakePoints
  <2>3. ~Lives(t) /\ ~Lives(t)'
    BY <2>1, <2>2 DEF Lives, WakePoints
  <2>4. Calm(t)
    BY <2>1, <2>2, <2>3 DEF Calm, Busy, PoolPoints
  <2> QED BY <1>1, <2>1, <2>2, <2>4, QuietCounts
<1> QED BY <1>4, <1>5, <1>6, <1>7, <1>8, <1>9, <1>10, <1>11, <1>12, <1>13

\* The steps of a wakeup, and of a worker without work.
LEMMA WakeupCounts ==
    ASSUME KIInv, NEW t \in Threads, WakeupStep(t)
    PROVE  CountTypes' /\ Counts'
<1> USE DEF KIInv
<1>1. CASE ProbeTail(t)
  <2>1. PICK p \in {back[t], "signal", "pending"} :
          /\ pc' = [pc EXCEPT ![t] = p]
          /\ p = "signal" => kworkqueue = "pool"
          /\ IF p = back[t] THEN Return(t) ELSE Within(t, p)
    <3>1. back[t] \notin {"signal", "pending"}
      BY DEF IInv, ListTypes
    <3> QED BY <1>1, <3>1 DEF ProbeTail, Return, Within, Goto
  <2>2. /\ pc[t] = "probe" /\ UNCHANGED <<kernel, pool, avail, waiting, prev>>
    BY <1>1 DEF ProbeTail, sema
  <2>3. /\ Only(t) /\ pc'[t] = p /\ n' \in [Threads -> {1, 2}]
        /\ back[t] \in {"idle", "nowork", "run", "dead"}
        /\ t \in Workers => (Lives(t) <=> Lives(t)')
    BY <2>1, <2>2, WakeMove DEF WakePoints, CountTypes, IInv, ListTypes
  <2>4. Calm(t) /\ pc' \in [Threads -> Points]
    BY <2>1, <2>2, <2>3
       DEF Calm, Busy, PoolPoints, Points, WorkerPoints, DrainPoints, WakePoints, IInv, ListTypes
  <2> QED BY <2>2, <2>3, <2>4, QuietCounts DEF CountTypes
<1>2. CASE SignalMediator(t)
  <2>1. pc[t] = "signal" /\ UNCHANGED <<kernel, pool, waiting, prev>> /\ avail' = avail + 1
    BY <1>2 DEF SignalMediator, threadMediator!Signal
  <2>2. PICK p \in {back[t], "size"} :
          /\ pc' = [pc EXCEPT ![t] = p]
          /\ IF p = back[t] THEN Return(t) ELSE Within(t, p)
    <3>1. back[t] # "size"
      BY DEF IInv, ListTypes
    <3> QED BY <1>2, <3>1 DEF SignalMediator, Return, Within, Goto
  <2>3. /\ Only(t) /\ pc'[t] = p /\ n' \in [Threads -> {1, 2}]
        /\ back[t] \in {"idle", "nowork", "run", "dead"}
        /\ t \in Workers => (Lives(t) <=> Lives(t)')
    BY <2>1, <2>2, WakeMove DEF WakePoints, CountTypes, IInv, ListTypes
  <2>4. kworkqueue = "pool" /\ avail' \in Nat
    BY <2>1 DEF KernelModes, PoolPoints, CountTypes
  <2>5. Calm(t) /\ pc' \in [Threads -> Points]
    BY <2>1, <2>2, <2>3, <2>4
       DEF Calm, Busy, PoolPoints, Points, WorkerPoints, DrainPoints, WakePoints, IInv, ListTypes
  <2> QED BY <2>3, <2>4, <2>5, QuietCounts
<1> QED
  BY <1>1, <1>2, PendingCounts, InitCounts, AddItemCounts, TakeFromPoolCounts, CreateThreadCounts
     DEF WakeupStep

\* The semaphore of the pool counts its waiters as this module does.
LEMMA MediatorCardinality == \A S : threadMediator!Cardinality(S) = Cardinality(S)
BY DEF threadMediator!Cardinality, Cardinality

LEMMA IdleWorkerCounts ==
    ASSUME KIInv, NEW w \in Workers, WaitMediator(w) \/ Woken(w) \/ TimeOut(w)
    PROVE  CountTypes' /\ Counts'
<1> USE DEF KIInv
<1>1. w \in Threads
  BY DEF Threads
<1>2. /\ avail \in Nat /\ Cardinality(waiting) \in Nat
      /\ waiting = {v \in Workers : pc[v] = "wait"}
  BY CardinalityFacts DEF CountTypes, KernelModes
<1>3. CASE WaitMediator(w)
  <2>1. PICK p \in {"drain", "wait"} : Goto(w, p) /\ IF p = "drain" THEN threadMediator!Acquire
                                                     ELSE threadMediator!Block(w)
    BY <1>3 DEF WaitMediator
  <2>2. /\ pc[w] = "nowork" /\ kworkqueue = "pool"
        /\ UNCHANGED <<kworkqueue, pending, requests, pool, n, back>>
    BY <1>3 DEF WaitMediator, kernel
  <2>3. /\ waiting' = IF p = "wait" THEN waiting \cup {w} ELSE waiting \ {w}
        /\ avail' \in Nat
    <3>1. w \notin waiting
      BY <1>2, <2>2
    <3>2. CASE p = "drain"
      <4>1. threadMediator!Acquire
        BY <2>1, <3>2
      <4>2. waiting' = waiting /\ avail > Cardinality(waiting) /\ avail' = avail - 1
        BY <4>1, MediatorCardinality DEF threadMediator!Acquire
      <4>3. avail' \in Nat
        BY <1>2, <4>2
      <4> QED BY <3>1, <3>2, <4>2, <4>3
    <3>3. CASE p = "wait"
      BY <1>2, <2>1, <3>3 DEF threadMediator!Block
    <3> QED BY <3>2, <3>3
  <2>4. \A u \in Threads : pc'[u] = IF u = w THEN p ELSE pc[u]
    BY <1>1, <2>1 DEF Goto, IInv, ListTypes
  <2> QED BY <2>2, <2>3, <2>4, PoolWorkerCounts
<1>4. CASE Woken(w) \/ TimeOut(w)
  <2>1. PICK p \in {"drain", "retire"} : Move(w, "wait", p)
    BY <1>4 DEF Woken, TimeOut
  <2>2. /\ UNCHANGED <<kworkqueue, pending, requests, pool, n, back>>
        /\ waiting' = waiting \ {w} /\ avail' \in Nat
    BY <1>2, <1>4 DEF Woken, TimeOut, threadMediator!Grant, threadMediator!GiveUp, kernel
  <2>3. pc[w] = "wait" /\ \A u \in Threads : pc'[u] = IF u = w THEN p ELSE pc[u]
    BY <1>1, <2>1 DEF Move, Goto, IInv, ListTypes
  <2>4. kworkqueue = "pool"
    BY <1>1, <2>3 DEF KernelModes, PoolPoints
  <2> QED BY <2>2, <2>3, <2>4, PoolWorkerCounts
<1> QED BY <1>3, <1>4

LEMMA NextCounts == KIInv /\ [Next]_vars => CountTypes' /\ Counts'
<1> SUFFICES ASSUME KIInv, [Next]_vars PROVE CountTypes' /\ Counts'
  OBVIOUS
<1>1. ASSUME NEW p \in Pushers, PushStep(p) \/ \E f, l \in Items : Push(p, f, l)
      PROVE  CountTypes' /\ Counts'
  BY <1>1, PusherCounts
<1>2. ASSUME NEW t \in Threads, WakeupStep(t) PROVE CountTypes' /\ Counts'
  BY <1>2, WakeupCounts
<1>3. ASSUME NEW w \in Workers, WorkerStep(w) \/ FinishItem(w) \/ TimeOut(w)
      PROVE  CountTypes' /\ Counts'
  BY <1>3, ListWorkerCounts, IdleWorkerCounts, GrantCounts, DecCounts, RetireCounts
     DEF WorkerStep
<1>4. CASE UNCHANGED vars
  <2>1. UNCHANGED <<Granted, Askers, Taken>>
    BY <1>4 DEF vars, Granted, Askers, Taken, Lives
  <2> QED BY <1>4, <2>1
          DEF vars, KIInv, CountTypes, Counts, KernelModes, PendingCount, PoolCount, kernel, sema
<1> QED BY <1>1, <1>2, <1>3, <1>4 DEF Next

-----------------------------------------------------------------------------
(* What is queued stays reachable and covered.                             *)

\* Others carry what they carried, and keep the list as they kept it.
LEMMA OthersKeep ==
    ASSUME NEW t \in Threads, Only(t), NEW u \in Threads, u # t
    PROVE  /\ Carries(u)' <=> Carries(u)
           /\ Lives(u)' <=> Lives(u)
           /\ pending' = pending /\ pool' = pool => (Keeps(u) => Keeps(u)')
           /\ pc[u] \in KeepPoints => Keeps(u)'
BY DEF Only, Carries, Lives, Keeps

\* Someone who keeps the list is enough.
LEMMA KeeperCovers ==
    ASSUME NEW t \in Threads, Keeps(t)'
    PROVE  Covered'
BY DEF Covered, Threads

\* A thread that did not keep the list moves.
LEMMA OthersCover ==
    ASSUME KIInv, NEW t \in Threads, Only(t), Keeps(t) => Keeps(t)',
           tail' # Null => tail # Null,
           UNCHANGED <<kworkqueue, pending, requests, pool, avail>>,
           kworkqueue = "pool" /\ t \in Workers => (Lives(t) => Lives(t)')
    PROVE  Covered'
<1> SUFFICES ASSUME tail' # Null PROVE Covered'
  BY DEF Covered
<1>1. CASE \E u \in Threads : Keeps(u)
  <2>1. PICK u \in Threads : Keeps(u)
    BY <1>1
  <2>2. Keeps(u)'
    BY <2>1, OthersKeep
  <2> QED BY <2>2, KeeperCovers
<1>2. CASE requests > 0
  BY <1>2 DEF Covered
<1>3. CASE kworkqueue = "pool" /\ avail > 0 /\ \E w \in Workers : Lives(w)
  <2>1. PICK w \in Workers : Lives(w)
    BY <1>3
  <2>2. Lives(w)' /\ w \in Threads
    BY <1>3, <2>1, OthersKeep DEF Threads
  <2> QED BY <1>3, <2>2 DEF Covered
<1> QED BY <1>1, <1>2, <1>3 DEF KIInv, Covered

\* A step that does not move the front of the list.
LEMMA ReachKept ==
    ASSUME KIInv, NEW t \in Threads, Only(t), tail' # Null => tail # Null,
           Carries(t) => Carries(t)', head \in Items => head' \in Items
    PROVE  Reachable'
<1> SUFFICES ASSUME tail' # Null PROVE Reachable'
  BY DEF Reachable
<1>1. tail # Null /\ (head \in Items \/ \E u \in Threads : Carries(u))
  BY DEF KIInv, Reachable
<1>2. ASSUME NEW u \in Threads, Carries(u) PROVE Carries(u)'
  BY <1>2, OthersKeep
<1> QED BY <1>1, <1>2 DEF Reachable

LEMMA PusherKeeps ==
    ASSUME KIInv, NEW t \in Pushers,
           PushStep(t) \/ \E f, l \in Items : Push(t, f, l)
    PROVE  Reachable' /\ Covered'
<1> USE DEF KIInv, IInv, ListTypes, CountTypes
<1>1. /\ t \in Threads /\ t \notin Workers /\ Null \notin Items
  BY RootQueueAssumption DEF RootQueueAssumption, Threads
<1>2. ASSUME NEW f \in Items, NEW l \in Items, Push(t, f, l)
      PROVE  Reachable' /\ Covered'
  <2>1. /\ Only(t) /\ pc[t] = "idle" /\ pc'[t] = "publish" /\ prev'[t] = tail /\ head' = head
        /\ UNCHANGED <<kworkqueue, pending, requests, pool, avail>>
    BY <1>1, <1>2 DEF Push, Move, Goto, Only, kernel, sema
  <2>2. ~Keeps(t) /\ ~Carries(t)
    BY <1>1, <2>1 DEF Keeps, Carries, KeepPoints, WakePoints
  <2>3. CASE tail = Null
    <3>1. Carries(t)'
      BY <2>1, <2>3 DEF Carries
    <3>2. Keeps(t)'
      BY <3>1 DEF Keeps
    <3> QED BY <1>1, <3>1, <3>2, KeeperCovers DEF Reachable
  <2>4. CASE tail # Null
    BY <1>1, <2>1, <2>2, <2>4, OthersCover, ReachKept
  <2> QED BY <2>3, <2>4
<1>3. ASSUME PublishLink(t)
      PROVE  Reachable' /\ Covered'
  <2>1. /\ Only(t) /\ pc[t] = "publish" /\ prev[t] # Null
        /\ UNCHANGED <<head, tail, kworkqueue, pending, requests, pool, avail>>
    BY <1>1, <1>3 DEF PublishLink, Goto, Only, kernel, sema
  <2>2. ~Keeps(t) /\ ~Carries(t)
    BY <1>1, <2>1 DEF Keeps, Carries, KeepPoints, WakePoints
  <2> QED BY <1>1, <2>1, <2>2, OthersCover, ReachKept
<1>4. ASSUME PublishHead(t)
      PROVE  Reachable' /\ Covered'
  <2>1. pc'[t] = "probe" /\ head' \in Items
    BY <1>1, <1>4 DEF PublishHead, Wakeup, Goto, Objects
  <2> QED BY <1>1, <2>1, KeeperCovers DEF Keeps, KeepPoints, Reachable
<1> QED BY <1>2, <1>3, <1>4 DEF PushStep

\* The mover of a wakeup has none of the front.
LEMMA WakeupKeeps ==
    ASSUME KIInv, NEW t \in Threads, WakeupStep(t), CountTypes', KernelModes'
    PROVE  Reachable' /\ Covered'
<1> USE DEF KIInv
<1>1. CASE \E w \in Workers : CreateThread(t, w)
  <2>1. PICK w \in Workers : CreateThread(t, w)
    BY <1>1
  <2>2. /\ w \in Threads /\ Workers \cap Pushers = {} /\ pc[w] = "dead" /\ pc[t] = "create"
        /\ \A u \in Threads : pc'[u] = IF u = w THEN "drain"
                                       ELSE IF u = t THEN back[t] ELSE pc[u]
        /\ UNCHANGED <<head, tail, prev>>
    BY <2>1, RootQueueAssumption
       DEF CreateThread, IInv, ListTypes, Threads, list, RootQueueAssumption
  <2>3. Keeps(w)'
    BY <2>2 DEF Keeps, KeepPoints
  <2>4. \A u \in Threads : Carries(u) => Carries(u)'
    BY <2>2 DEF Carries, FrontPoints
  <2> QED BY <2>2, <2>3, <2>4, KeeperCovers DEF Reachable
<1>2. CASE ~\E w \in Workers : CreateThread(t, w)
\* Where the wakeup goes, and what of the return point matters.
  <2>1. /\ UNCHANGED <<head, tail, prev>> /\ pc[t] \in WakePoints
        /\ Return(t) \/ \E p \in WakePoints : Within(t, p)
    BY <1>2 DEF WakeupStep, ProbeTail, TakePending, RootQueuesInit, AddItem, SignalMediator,
                TakeFromPool, WakePoints, list
  <2>2. /\ Only(t) /\ ~Carries(t)
        /\ t \in Workers => (Lives(t) <=> Lives(t)')
        /\ back[t] = "run" => Keeps(t)'
    <3>1. ~Carries(t)
      BY <2>1 DEF Carries, WakePoints, FrontPoints
    <3>2. Only(t) /\ (t \in Workers => (Lives(t) <=> Lives(t)'))
      BY <2>1, WakeMove
    <3>3. CASE Return(t)
      <4>1. pc'[t] = back[t]
        BY <2>1, <3>3, WakeMove
      <4> QED BY <3>1, <3>2, <4>1 DEF Keeps, KeepPoints
    <3>4. CASE \E p \in WakePoints : Within(t, p)
      <4>1. pc'[t] \in WakePoints /\ back' = back
        BY <2>1, <3>4, WakeMove
      <4> QED BY <3>1, <3>2, <4>1 DEF Keeps
    <3> QED BY <2>1, <3>3, <3>4
  <2>3. Reachable'
    BY <2>1, <2>2, ReachKept
  <2>4. Covered'
    <3> SUFFICES ASSUME tail # Null, back[t] # "run" PROVE Covered'
      BY <2>1, <2>2, KeeperCovers DEF Covered
    <3>1. CASE ProbeTail(t)
      <4>1. PICK p \in {"signal", "pending"} :
              Within(t, p) /\ (p = "signal" <=> kworkqueue = "pool")
        BY <3>1 DEF ProbeTail
      <4>2. /\ pc'[t] = p /\ pc[t] = "probe"
            /\ UNCHANGED <<kworkqueue, pending, requests, pool, avail>>
        BY <2>1, <3>1, <4>1, WakeMove DEF ProbeTail, WakePoints, kernel, sema
      <4>3. CASE p = "signal"
        BY <4>2, <4>3, KeeperCovers DEF Keeps, KeepPoints
      <4>4. CASE p = "pending" /\ pending = 0
        BY <4>2, <4>4, KeeperCovers DEF Keeps
      <4>5. CASE p = "pending" /\ pending # 0
        <5>1. kworkqueue # "pool" /\ (requests > 0 \/ Granted # {} \/ Askers # {})
          <6>1. requests = 0 /\ Granted = {} => requests + Cardinality(Granted) = 0
            BY CardinalityFacts
          <6> QED BY <4>1, <4>5, <6>1 DEF PendingCount, CountTypes
        <5>2. CASE requests > 0
          BY <4>2, <5>2 DEF Covered
        <5>3. CASE Granted # {} \/ Askers # {}
          <6>1. PICK u \in Threads : pc[u] \in {"dec", "init", "additem"}
            BY <5>3 DEF Granted, Askers, Threads
          <6>2. Keeps(u)'
            BY <2>2, <4>2, <6>1, OthersKeep DEF KeepPoints
          <6> QED BY <6>2, KeeperCovers
        <5> QED BY <5>1, <5>2, <5>3
      <4> QED BY <4>3, <4>4, <4>5
    <3>2. CASE TakePending(t)
      <4>1. CASE pending = 0
        <5>1. pc'[t] = "init"
          BY <2>1, <3>2, <4>1, WakeMove DEF TakePending, WakePoints
        <5> QED BY <5>1, KeeperCovers DEF Keeps, KeepPoints
      <4>2. CASE pending # 0
        <5>1. ~Keeps(t)
          BY <2>2, <3>2, <4>2 DEF TakePending, Keeps, KeepPoints
        <5>2. UNCHANGED <<kworkqueue, pending, requests, pool, avail>>
          BY <3>2, <4>2 DEF TakePending, sema
        <5> QED BY <2>1, <2>2, <5>1, <5>2, OthersCover
      <4> QED BY <4>1, <4>2
    <3>3. CASE RootQueuesInit(t)
      <4>1. PICK p \in {"additem", "signal"} : Within(t, p)
        BY <3>3 DEF RootQueuesInit, Within
      <4>2. pc'[t] = p
        BY <2>1, <4>1, WakeMove DEF WakePoints
      <4> QED BY <4>2, KeeperCovers DEF Keeps, KeepPoints
    <3>4. CASE AddItem(t)
      <4>1. requests' > 0
        BY <3>4 DEF AddItem, CountTypes
      <4> QED BY <4>1 DEF Covered
    <3>5. CASE SignalMediator(t)
      <4>1. /\ pc[t] = "signal" /\ avail' > 0 /\ kworkqueue = "pool"
            /\ UNCHANGED <<kworkqueue, pool>>
        BY <3>5 DEF SignalMediator, threadMediator!Signal, CountTypes, KernelModes, PoolPoints, kernel
      <4>2. CASE avail < Cardinality(waiting)
        <5>1. waiting # {} /\ waiting = {w \in Workers : pc[w] = "wait"}
          BY <4>2, CardinalityFacts DEF CountTypes, KernelModes
        <5>2. PICK w \in Workers : pc[w] = "wait"
          BY <5>1
        <5>3. Lives(w)' /\ w \in Threads
          BY <2>2, <4>1, <5>2, OthersKeep DEF Lives, WakePoints, Threads
        <5> QED BY <4>1, <5>3 DEF Covered
      <4>3. CASE avail >= Cardinality(waiting)
        <5>1. pc'[t] = "size"
          BY <2>1, <3>5, <4>3, CardinalityFacts, WakeMove
             DEF SignalMediator, WakePoints, CountTypes
        <5>2. CASE pool > 0
          BY <4>1, <5>1, <5>2, KeeperCovers DEF Keeps
        <5>3. CASE pool = 0
          <6>1. Taken # {}
            BY <4>1, <5>3, FS_EmptySet, RootQueueAssumption
               DEF PoolCount, RootQueueAssumption
          <6>2. CASE \E u \in Threads : pc[u] = "create"
            <7>1. PICK u \in Threads : pc[u] = "create"
              BY <6>2
            <7>2. Keeps(u)'
              BY <2>2, <4>1, <7>1, OthersKeep DEF KeepPoints
            <7> QED BY <7>2, KeeperCovers
          <6>3. CASE \E w \in Workers : Lives(w)
            <7>1. PICK w \in Workers : Lives(w)
              BY <6>3
            <7>2. Lives(w)'
              BY <2>2, <7>1, OthersKeep DEF Threads
            <7> QED BY <4>1, <7>2 DEF Covered
          <6> QED BY <6>1, <6>2, <6>3 DEF Taken
        <5> QED BY <5>2, <5>3 DEF CountTypes
      <4> QED BY <4>2, <4>3, CardinalityFacts DEF CountTypes
    <3>6. CASE TakeFromPool(t)
      <4>1. CASE pool = 0
        <5>1. ~Keeps(t)
          BY <2>2, <3>6, <4>1 DEF TakeFromPool, Keeps, KeepPoints
        <5>2. UNCHANGED <<kworkqueue, pending, requests, pool, avail>>
          BY <3>6, <4>1 DEF TakeFromPool, sema, kernel
        <5> QED BY <2>1, <2>2, <5>1, <5>2, OthersCover
      <4>2. CASE pool # 0
        <5>1. pc'[t] = "create"
          BY <2>1, <3>6, <4>2, WakeMove DEF TakeFromPool, WakePoints
        <5> QED BY <5>1, KeeperCovers DEF Keeps, KeepPoints
      <4> QED BY <4>1, <4>2
    <3> QED BY <1>2, <3>1, <3>2, <3>3, <3>4, <3>5, <3>6 DEF WakeupStep
  <2> QED BY <2>3, <2>4
<1> QED BY <1>1, <1>2

\* Workers either keep the list themselves, or found it in the hands of others.
LEMMA WorkerKeeps ==
    ASSUME KIInv, NEW t \in Workers, WorkerStep(t) \/ FinishItem(t) \/ TimeOut(t)
    PROVE  Reachable' /\ Covered'
<1> USE DEF KIInv
<1>1. t \in Threads /\ t \notin Pushers /\ {Null, Mediator} \cap Items = {}
  BY RootQueueAssumption DEF RootQueueAssumption, Threads
\* A step to a point where the thread keeps the list.
<1> DEFINE To(p) == pc' = [pc EXCEPT ![t] = p] /\ prev' = prev
                    /\ \A u \in Threads \ {t} : back'[u] = back[u] /\ n'[u] = n[u]
<1>2. ASSUME NEW p, To(p)
      PROVE  Only(t) /\ pc'[t] = p
  BY <1>1, <1>2 DEF IInv, ListTypes, Only
<1>3. CASE TakeHead(t)
  <2> DEFINE p == CASE head = Null -> "restore" [] head = Mediator -> "contend"
                    [] OTHER -> "first"
  <2>1. pc[t] = "drain" /\ To(p) /\ head' = Mediator /\ tail' = tail
    BY <1>3 DEF TakeHead, Goto
  <2> HIDE DEF p
  <2>2. Only(t) /\ pc'[t] = p
    BY <1>2, <2>1
  <2> SUFFICES ASSUME tail # Null PROVE \E u \in Threads : Carries(u)'
    BY <2>1, KeeperCovers DEF Reachable, Covered, Keeps
  <2>3. CASE head \in Items
    <3>1. p = "first"
      BY <1>1, <2>3 DEF p
    <3> QED BY <1>1, <2>2, <3>1 DEF Carries, FrontPoints
  <2>4. CASE head \notin Items
    <3>1. PICK u \in Threads : Carries(u)
      BY <2>4 DEF Reachable
    <3>2. u # t
      BY <1>1, <2>1, <3>1 DEF Carries, FrontPoints
    <3>3. Carries(u)'
      BY <1>1, <2>2, <3>1, <3>2, OthersKeep
    <3> QED BY <3>3
  <2> QED BY <2>3, <2>4
<1>4. CASE RestoreHead(t)
  <2>1. /\ pc[t] = "restore" /\ To("nowork") /\ tail' = tail
        /\ head \in Items => head' \in Items
        /\ UNCHANGED <<kworkqueue, pending, requests, pool, avail, back>>
    BY <1>1, <1>4 DEF RestoreHead, Move, Goto, kernel, sema
  <2>2. Only(t) /\ pc'[t] = "nowork"
    BY <1>2, <2>1
  <2>3. ~Keeps(t) /\ ~Carries(t) /\ Lives(t)'
    BY <1>1, <2>1, <2>2 DEF Keeps, Carries, KeepPoints, FrontPoints, WakePoints, Lives
  <2> QED BY <1>1, <2>1, <2>2, <2>3, OthersCover, ReachKept
\* The steps after which the thread keeps the list, and the front is as it was.
<1>5. ASSUME NEW p \in KeepPoints, To(p), ~Carries(t), head' = head, tail' = tail
      PROVE  Reachable' /\ Covered'
  <2>1. Only(t) /\ pc'[t] = p
    BY <1>2, <1>5
  <2>2. Keeps(t)'
    BY <2>1 DEF Keeps
  <2> QED BY <1>1, <1>5, <2>1, <2>2, KeeperCovers, ReachKept
<1>6. CASE Contend(t)
  <2>1. PICK p \in {"drain", "probe"} : To(p)
    BY <1>6 DEF Contend, Within, Wakeup, Goto, IInv, ListTypes, CountTypes
  <2>2. ~Carries(t) /\ UNCHANGED <<head, tail>>
    BY <1>1, <1>6 DEF Contend, Carries, FrontPoints, list
  <2> QED BY <1>5, <2>1, <2>2 DEF KeepPoints
<1>7. CASE FinishItem(t) \/ DecPending(t)
  <2>1. To("drain") /\ ~Carries(t) /\ UNCHANGED <<head, tail>>
    BY <1>1, <1>7 DEF FinishItem, DecPending, Move, Goto, Carries, FrontPoints, list
  <2> QED BY <1>5, <2>1 DEF KeepPoints
<1>8. CASE GrantThread(t)
  <2>1. To("dec") /\ ~Carries(t) /\ UNCHANGED <<head, tail>>
    BY <1>1, <1>8 DEF GrantThread, Move, Goto, Carries, FrontPoints, list
  <2> QED BY <1>5, <2>1 DEF KeepPoints
<1>9. CASE Woken(t) \/ TimeOut(t)
  <2>1. PICK p \in {"drain", "retire"} : To(p)
    BY <1>9 DEF Woken, TimeOut, Move, Goto
  <2>2. ~Carries(t) /\ UNCHANGED <<head, tail>>
    BY <1>1, <1>9 DEF Woken, TimeOut, Move, Carries, FrontPoints, list
  <2> QED BY <1>5, <2>1, <2>2 DEF KeepPoints
<1>10. CASE ReturnToPool(t)
  <2>1. To("recheck") /\ ~Carries(t) /\ UNCHANGED <<head, tail>>
    BY <1>1, <1>10 DEF ReturnToPool, Move, Goto, Carries, FrontPoints, list
  <2> QED BY <1>5, <2>1 DEF KeepPoints
\* The steps of the one who carries the front.
<1>11. ASSUME NEW p \in {"cleartail", "last", "sethead"}, To(p)
       PROVE  Reachable' /\ Covered'
  <2>1. Carries(t)'
    BY <1>1, <1>2, <1>11 DEF Carries, FrontPoints
  <2>2. Keeps(t)'
    BY <2>1 DEF Keeps
  <2> QED BY <1>1, <2>1, <2>2, KeeperCovers DEF Reachable
<1>12. CASE ReadNext(t)
  <2>1. PICK p \in {"cleartail", "sethead"} : To(p)
    BY <1>12 DEF ReadNext, Goto
  <2> QED BY <1>11, <2>1
<1>13. CASE ClearTail(t)
  <2>1. CASE tail = obj[t]
    BY <1>13, <2>1 DEF ClearTail, Reachable, Covered
  <2>2. CASE tail # obj[t]
    <3>1. To("last")
      BY <1>13, <2>2 DEF ClearTail, Goto
    <3> QED BY <1>11, <3>1
  <2> QED BY <2>1, <2>2
<1>14. CASE AwaitNext(t)
  <2>1. To("sethead")
    BY <1>14 DEF AwaitNext, Move, Goto
  <2> QED BY <1>11, <2>1
<1>15. CASE SetHead(t)
  <2>1. To("probe") /\ head' \in Items
    BY <1>15 DEF SetHead, Wakeup, Goto, IInv, ListTypes, CountTypes, Order
  <2>2. Keeps(t)'
    BY <1>2, <2>1 DEF Keeps, KeepPoints
  <2> QED BY <1>1, <2>1, <2>2, KeeperCovers DEF Reachable
\* A thread that goes to sleep, or ends.
<1>16. CASE ReturnToKernel(t)
  <2>1. /\ pc[t] = "nowork" /\ To("dead") /\ UNCHANGED <<head, tail, back>>
        /\ UNCHANGED <<kworkqueue, pending, requests, pool, avail>> /\ kworkqueue # "pool"
    BY <1>16 DEF ReturnToKernel, Goto, list, kernel, sema
  <2>2. ~Keeps(t) /\ ~Carries(t)
    BY <1>1, <2>1 DEF Keeps, Carries, KeepPoints, FrontPoints, WakePoints
  <2>3. Only(t)
    BY <1>2, <2>1
  <2> QED BY <1>1, <2>1, <2>2, <2>3, OthersCover, ReachKept
<1>17. CASE WaitMediator(t)
  <2>1. /\ pc[t] = "nowork" /\ UNCHANGED <<head, tail, back>>
        /\ UNCHANGED <<kworkqueue, pending, requests, pool>>
        /\ To("drain") \/ (To("wait") /\ avail' = avail)
    BY <1>17 DEF WaitMediator, Goto, list, kernel, threadMediator!Block
  <2>2. ~Keeps(t) /\ ~Carries(t)
    BY <1>1, <2>1 DEF Keeps, Carries, KeepPoints, FrontPoints, WakePoints
  <2>3. CASE To("drain")
    BY <1>5, <2>1, <2>2, <2>3 DEF KeepPoints
  <2>4. CASE To("wait") /\ avail' = avail
    <3>1. Only(t) /\ pc'[t] = "wait"
      BY <1>2, <2>4
    <3>2. Lives(t)'
      BY <3>1 DEF Lives, WakePoints
    <3> QED BY <1>1, <2>1, <2>2, <2>4, <3>1, <3>2, OthersCover, ReachKept
  <2> QED BY <2>1, <2>3, <2>4
<1>18. CASE Recheck(t)
  <2>1. ~Carries(t) /\ UNCHANGED <<head, tail>>
    BY <1>1, <1>18 DEF Recheck, Carries, FrontPoints, list
  <2>2. CASE tail = Null
    BY <2>1, <2>2 DEF Reachable, Covered
  <2>3. CASE tail # Null
    <3>1. To("probe")
      BY <1>18, <2>3 DEF Recheck, Wakeup, Goto, IInv, ListTypes, CountTypes
    <3> QED BY <1>5, <2>1, <3>1 DEF KeepPoints
  <2> QED BY <2>2, <2>3
<1> QED BY <1>3, <1>4, <1>6, <1>7, <1>8, <1>9, <1>10, <1>12, <1>13, <1>14, <1>15, <1>16,
           <1>17, <1>18 DEF WorkerStep

LEMMA NextKIInv == KIInv /\ [Next]_vars => KIInv'
<1> SUFFICES ASSUME KIInv, [Next]_vars PROVE KIInv'
  OBVIOUS
<1>1. IInv' /\ CountTypes' /\ Counts'
  BY NextIInv, NextCounts DEF KIInv
<1>2. CASE UNCHANGED vars
  <2>1. \A t : (Carries(t)' <=> Carries(t)) /\ (Lives(t)' <=> Lives(t)) /\ (Keeps(t)' <=> Keeps(t))
    BY <1>2 DEF vars, Carries, Lives, Keeps, kernel
  <2>2. Reachable' /\ Covered'
    BY <1>2, <2>1 DEF vars, list, kernel, sema, KIInv, Reachable, Covered
  <2> QED BY <1>1, <2>2 DEF KIInv, Counts
<1>3. CASE Next
  <2>1. Reachable' /\ Covered'
    BY <1>1, <1>3, PusherKeeps, WakeupKeeps, WorkerKeeps DEF Next, Counts
  <2> QED BY <1>1, <2>1 DEF KIInv, Counts
<1> QED BY <1>2, <1>3

\* A list with items is never left to nobody: whoever writes the head sees to a
\* worker after that, or leaves it to one who will come to the list later; and
\* a worker that waited in vain looks again after it has given its place back
\* (queue.c, _dispatch_queue_wakeup_global2, _dispatch_worker_thread).
THEOREM NothingStrandedHolds == Spec => []NothingStranded
<1>1. ASSUME KIInv PROVE NothingStranded
  <2> SUFFICES ASSUME tail # Null, \A t \in Threads : ~Attentive(t), requests = 0
               PROVE  avail > 0 /\ waiting # {}
    BY <1>1 DEF NothingStranded, KIInv, CountTypes
  <2>1. \A t \in Threads : ~Keeps(t)
    <3> SUFFICES ASSUME NEW t \in Threads, Keeps(t) PROVE FALSE
      OBVIOUS
    <3>1. CASE t \in Pushers
      BY <1>1, <3>1
         DEF Attentive, Keeps, Carries, KeepPoints, KIInv, IInv, ThreadPlaces, WakePoints, FrontPoints
    <3>2. CASE t \in Workers
      BY <1>1, <3>2, RootQueueAssumption
         DEF Attentive, Keeps, Carries, KeepPoints, WakePoints, FrontPoints, RootQueueAssumption
    <3> QED BY <3>1, <3>2 DEF Threads
  <2>2. avail > 0 /\ \E w \in Workers : Lives(w)
    BY <1>1, <2>1 DEF KIInv, Covered
  <2>3. PICK w \in Workers : Lives(w)
    BY <2>2
  <2>4. pc[w] = "wait"
    BY <2>3 DEF Attentive, Lives, Threads
  <2> QED BY <1>1, <2>2, <2>4 DEF KIInv, KernelModes
<1> QED BY <1>1, InitKIInv, NextKIInv, PTL DEF Spec

\* What may become of an item: it is submitted, started and ended, once each.
ItemCourse == {<<"queued", "running">>, <<"running", "done">>}
KeepsItemCourse == \A i \in Items :
    status'[i] = status[i] \/ <<status[i], status'[i]>> \in ItemCourse \cup {<<"new", "queued">>}

LEMMA PushMoves ==
    ASSUME IInv, NEW p \in Pushers, NEW f \in Items, NEW l \in Items, Push(p, f, l)
    PROVE  KeepsItemCourse
<1>1. status \in [Items -> {"new", "queued", "running", "done"}]
  BY DEF IInv, ListTypes
<1>2. /\ status[f] = "new" /\ status[l] = "new"
      /\ status' = [status EXCEPT ![f] = "queued", ![l] = "queued"]
  <2>1. f \in Nat /\ l \in Nat /\ l \in {f, f + 1}
    BY DEF Push, Items
  <2> QED BY <2>1 DEF Push
<1> QED BY <1>1, <1>2 DEF KeepsItemCourse

\* The worker with the front starts its item, which is queued, and who runs one ends it.
LEMMA StatusMoves ==
    ASSUME IInv, [Next]_vars, ~\E p \in Pushers, f, l \in Items : Push(p, f, l)
    PROVE  \/ status' = status
           \/ \E i \in Items, s \in {"running", "done"} :
                  status' = [status EXCEPT ![i] = s] /\ <<status[i], s>> \in ItemCourse
<1>1. status \in [Items -> {"new", "queued", "running", "done"}]
  BY DEF IInv, ListTypes
<1>2. ASSUME NEW w \in Workers, Carries(w) PROVE obj[w] \in Items /\ status[obj[w]] = "queued"
  BY <1>2 DEF IInv, Front, IsFront, Objects, Threads, Items
<1>3. ASSUME NEW w \in Workers, ClearTail(w) \/ SetHead(w)
      PROVE  \/ status' = status
             \/ /\ status' = [status EXCEPT ![obj[w]] = "running"]
                /\ obj[w] \in Items /\ status[obj[w]] = "queued"
  <2>1. Carries(w)
    BY <1>3 DEF ClearTail, SetHead, Carries, FrontPoints
  <2> QED BY <1>1, <1>2, <1>3, <2>1 DEF ClearTail, SetHead
<1>4. ASSUME NEW w \in Workers, FinishItem(w)
      PROVE  /\ status' = [status EXCEPT ![obj[w]] = "done"]
             /\ obj[w] \in Items /\ status[obj[w]] = "running"
  BY <1>4 DEF FinishItem, Move, IInv, RunOnce, RunsItem, Objects
<1>5. ASSUME NEW p \in Pushers, PushStep(p) PROVE status' = status
  BY <1>5 DEF PushStep, PublishLink, PublishHead
<1>6. ASSUME NEW t \in Threads, WakeupStep(t) PROVE status' = status
  BY <1>6 DEF WakeupStep, ProbeTail, TakePending, RootQueuesInit, AddItem, SignalMediator,
              TakeFromPool, CreateThread
<1>7. ASSUME NEW w \in Workers, WorkerStep(w) \/ TimeOut(w), ~ClearTail(w), ~SetHead(w)
      PROVE  status' = status
  BY <1>7 DEF WorkerStep, TimeOut, TakeHead, RestoreHead, Contend, ReadNext, AwaitNext, GrantThread,
              DecPending, ReturnToKernel, WaitMediator, Woken, ReturnToPool, Recheck
<1>8. CASE UNCHANGED vars
  BY <1>8 DEF vars
<1> QED BY <1>1, <1>3, <1>4, <1>5, <1>6, <1>7, <1>8 DEF Next, ItemCourse

\* Items are submitted in the order of their names.
NewLast == \A i, j \in Items : i < j /\ status[i] = "new" => status[j] = "new"

LEMMA NewLastHolds == Spec => []NewLast
<1>1. Init => NewLast
  BY DEF Init, NewLast
<1>2. ASSUME IInv, NewLast, [Next]_vars PROVE NewLast'
  <2> USE <1>2
  <2>0. status \in [Items -> {"new", "queued", "running", "done"}] /\ Items \subseteq Nat
    BY DEF IInv, ListTypes, Items
  <2>1. ASSUME NEW p \in Pushers, NEW f \in Items, NEW l \in Items, Push(p, f, l) PROVE NewLast'
    <3>1. /\ \A i \in Items : status[i] = "new" <=> i >= f
          /\ l \in {f, f + 1} /\ status' = [status EXCEPT ![f] = "queued", ![l] = "queued"]
      BY <2>1 DEF Push
    <3>2. \A i \in Items : status'[i] = "new" <=> i >= f /\ i # f /\ i # l
      BY <2>0, <3>1
    <3>3. \A i \in Items : status'[i] = "new" <=> i > l
      BY <2>0, <3>1, <3>2
    <3> QED BY <2>0, <3>3 DEF NewLast
  <2>2. ASSUME \A i \in Items : status'[i] = "new" <=> status[i] = "new" PROVE NewLast'
    BY <2>2 DEF NewLast
  <2>3. CASE ~\E p \in Pushers, f, l \in Items : Push(p, f, l)
    <3>1. ASSUME NEW i \in Items PROVE <<status[i], status'[i]>> \in ItemCourse \/ status'[i] = status[i]
      BY <2>0, <2>3, StatusMoves
    <3> QED BY <2>2, <3>1 DEF ItemCourse
  <2> QED BY <2>1, <2>3
<1> QED BY <1>1, <1>2, InitIInv, NextIInv, PTL DEF Spec

\* Items are started in the order in which they were pushed, whichever worker takes
\* them: the tail gives their order, and the front passes from one to the next.
StartedInOrder == \A i, j \in Items :
    i < j /\ status[j] \in {"running", "done"} => status[i] \in {"running", "done"}
THEOREM StartedInOrderHolds == Spec => []StartedInOrder
<1>1. ASSUME KIInv, NewLast PROVE StartedInOrder
  <2> SUFFICES ASSUME NEW i \in Items, NEW j \in Items, i < j, status[j] \in {"running", "done"}
               PROVE  status[i] \in {"running", "done"}
    BY DEF StartedInOrder
  <2> USE <1>1
  <2>1. status \in [Items -> {"new", "queued", "running", "done"}] /\ Items \subseteq Nat
        /\ tail \in Items \cup {Null}
    BY DEF KIInv, IInv, ListTypes, Items
  <2>2. status[i] # "new"
    BY DEF NewLast
  <2>3. ASSUME status[i] = "queued" PROVE FALSE
    <3>1. tail \in Items /\ j <= tail
      BY <2>1, <2>3 DEF KIInv, IInv, Order
    <3>2. PICK k : IsFront(k) /\ k \in Items
      BY <3>1, RootQueueAssumption
         DEF RootQueueAssumption, KIInv, IInv, Reachable, Front, IsFront, Objects, Carries, Threads
    <3>3. k <= i
      BY <2>3, <3>2 DEF IsFront
    <3>4. k <= j
      BY <2>1, <3>2, <3>3
    <3>5. status[j] = "queued"
      BY <3>1, <3>2, <3>4 DEF IsFront
    <3> QED BY <3>5
  <2> QED BY <2>1, <2>2, <2>3
<1> QED BY <1>1, InitKIInv, NextKIInv, NewLastHolds, PTL DEF Spec

\* An item is started once and ends once, by one worker.
THEOREM ItemsRunOnce == Spec => [][KeepsItemCourse]_vars
<1>1. IInv => status \in [Items -> {"new", "queued", "running", "done"}]
  BY DEF IInv, ListTypes
<1>2. IInv /\ [Next]_vars => [KeepsItemCourse]_vars
  BY <1>1, StatusMoves, PushMoves DEF KeepsItemCourse, ItemCourse
<1> QED BY <1>2, InitIInv, NextIInv, PTL DEF Spec

\* A root queue keeps the promise of a work queue: behind the exchanges of the tail and the head,
\* the mediator and the wakeups, items are started one after the other in the
\* order of the pushes, each once (queue.c, _dispatch_queue_concurrent_drain_one).
THEOREM ImplementsWorkQueue == Spec => WorkQueueSpec
<1>1. Init => WorkQueuePromise!Init
  BY DEF Init, WorkQueuePromise!Init
<1>2. ASSUME IInv, StartedInOrder', [Next]_vars PROVE [WorkQueuePromise!Next]_status
  <2> USE <1>2
  <2>0. status \in [Items -> {"new", "queued", "running", "done"}] /\ Items \subseteq Nat
    BY DEF IInv, ListTypes, Items
  <2>1. ASSUME NEW p \in Pushers, NEW f \in Items, NEW l \in Items, Push(p, f, l)
        PROVE  WorkQueuePromise!Push(f, l)
    BY <2>0, <2>1 DEF Push, WorkQueuePromise!Push
  <2>2. ASSUME NEW i \in Items, status' = [status EXCEPT ![i] = "running"], status[i] = "queued"
        PROVE  WorkQueuePromise!Start(i)
    <3>1. ASSUME NEW j \in Items, j < i PROVE status[j] \in {"running", "done"}
      <4>1. status'[i] = "running" /\ status'[j] = status[j]
        BY <2>0, <2>2, <3>1
      <4> QED BY <3>1, <4>1 DEF StartedInOrder
    <3> QED BY <2>2, <3>1 DEF WorkQueuePromise!Start, WorkQueuePromise!Started
  <2>3. ASSUME NEW i \in Items, status' = [status EXCEPT ![i] = "done"], status[i] = "running"
        PROVE  WorkQueuePromise!Finish(i)
    BY <2>3 DEF WorkQueuePromise!Finish
  <2> QED BY <2>1, <2>2, <2>3, StatusMoves DEF ItemCourse, WorkQueuePromise!Next
<1> QED BY <1>1, <1>2, StartedInOrderHolds, InitIInv, NextIInv, PTL
        DEF Spec, WorkQueueSpec, WorkQueuePromise!Spec

\* No more threads of the pool live than it has places; a thread that has given
\* its place back looks at the list once more, and may take a place again
\* (queue.c, dgq_thread_pool_size in _dispatch_queue_wakeup_global2 and _dispatch_worker_thread).
PoolRespected == kworkqueue = "pool" => Cardinality({w \in Workers : Lives(w)}) <= PoolSize
THEOREM PoolRespectedHolds == Spec => []PoolRespected
<1>1. ASSUME KIInv, kworkqueue = "pool" PROVE Cardinality({w \in Workers : Lives(w)}) <= PoolSize
  <2> DEFINE alive == {w \in Workers : Lives(w)}
             live == alive \X {"live"}
  <2>1. IsFiniteSet(Taken) /\ pool \in Nat /\ pool + Cardinality(Taken) = PoolSize
    BY <1>1 DEF KIInv, PoolCount, CountTypes
  <2>2. live \subseteq Taken
    BY DEF Taken
  <2>3. Cardinality(Taken) \in Nat /\ IsFiniteSet(live) /\ Cardinality(live) <= Cardinality(Taken)
    BY <2>1, <2>2, FS_Subset, FS_CardinalityType
  <2>4. IsFiniteSet(alive) /\ IsFiniteSet({"live"}) /\ Cardinality({"live"}) = 1
    BY RootQueueAssumption, FS_Subset, FS_Singleton DEF RootQueueAssumption
  <2>5. Cardinality(alive) \in Nat /\ Cardinality(live) = Cardinality(alive) * 1
    BY <2>4, FS_Product, FS_CardinalityType
  <2> HIDE DEF alive, live
  <2>6. Cardinality(alive) <= PoolSize
    BY <2>1, <2>3, <2>5, RootQueueAssumption DEF RootQueueAssumption
  <2> QED BY <2>6 DEF alive
<1> QED BY <1>1, InitKIInv, NextKIInv, PTL DEF Spec, PoolRespected

\* The kernel is asked by one wakeup at a time, and not before the threads of the
\* last request have come (queue.c, the compare-and-swap on dgq_pending).
OneRequest == kworkqueue = "kernel" =>
    /\ \A t, u \in Askers : t = u
    /\ Askers # {} => requests = 0 /\ Granted = {}
THEOREM OneRequestHolds == Spec => []OneRequest
<1>1. KIInv => OneRequest
  BY DEF KIInv, PendingCount, OneRequest
<1> QED BY <1>1, InitKIInv, NextKIInv, PTL DEF Spec

\* The list, the counters and the threads of a root queue have their types; the
\* pool gives no more places than it has, and takes none back that it has not given.
THEOREM PoolTypeCorrect == Spec => []TypeOK
<1>1. ASSUME KIInv PROVE TypeOK
  <2>1. pool \in 0 .. PoolSize
    <3>1. CASE kworkqueue = "pool"
      <4>1. IsFiniteSet(Taken) /\ pool \in Nat /\ pool + Cardinality(Taken) = PoolSize
        BY <1>1, <3>1 DEF KIInv, PoolCount, CountTypes
      <4>2. Cardinality(Taken) \in Nat
        BY <4>1, FS_CardinalityType
      <4> QED BY <4>1, <4>2
    <3>2. CASE kworkqueue # "pool"
      BY <1>1, <3>2, RootQueueAssumption DEF KIInv, KernelModes, RootQueueAssumption
    <3> QED BY <3>1, <3>2
  <2>2. \A p \in Pushers : pc[p] \notin WorkerPoints
    BY <1>1 DEF KIInv, IInv, ThreadPlaces, WakePoints, WorkerPoints, DrainPoints, FrontPoints
  <2>3. waiting \subseteq Workers
    BY <1>1 DEF KIInv, KernelModes
  <2> QED BY <1>1, <2>1, <2>2, <2>3 DEF KIInv, IInv, ListTypes, CountTypes, TypeOK
<1> QED BY <1>1, InitKIInv, NextKIInv, PTL DEF Spec

-----------------------------------------------------------------------------
(* RunLoop: no wakeup is lost.  The types come first.                       *)

\* The per-run data of a run.
Run == [run : Runs, mode : Modes, limit : Limits, at : Places, stopped : BOOLEAN,
        ignore : BOOLEAN, robbed : BOOLEAN, handled : BOOLEAN, poll : BOOLEAN,
        live : {"none", "wakeup", "source1"}, list : Seq(Block), kept : Seq(Block),
        coll : SUBSET Sources]

\* The stack of the runs, and the rest of the loop.
StackType == stack \in Seq(Run) /\ Len(stack) <= runs /\ runs \in 0 .. MaxRuns
SharedType ==
    /\ blocks \in Seq(Block) /\ calls \in 0 .. MaxCalls
    /\ signaled \subseteq valid /\ valid \subseteq members /\ members \subseteq Sources
    /\ modeStopped \in [Modes -> BOOLEAN]
    /\ wakeUpPort \in BOOLEAN /\ port1 \in 0 .. calls
    /\ timer \in [Runs -> {"none", "armed", "wake"}]
    /\ passed \in [Runs -> BOOLEAN] /\ term \in [Runs -> BOOLEAN]
    /\ todo \in [Clients -> {"idle", "wake", "remove"}]

\* What a run has to know of: its places in DoBlocks, a block for its mode, a
\* stop, a wakeup that is in the port or that somebody still owes.
BlockPlaces == {"blocks1", "blocks2", "blocks3"}
SomeEligible(s, m) == \E i \in 1 .. Len(s) : Eligible(s[i], m)
Stopped(f) == f.stopped \/ modeStopped[f.mode]
Announced == wakeUpPort \/ WakeupOwed

\* What a run is, wherever it is in the stack.
Good(f) == /\ f.at \notin BlockPlaces => f.list = <<>> /\ f.kept = <<>>
           /\ f.at \in {"top", "blocks1", "blocks2", "sources", "wait"} => ~f.ignore
           /\ f.at = "blocks2" => f.handled
           /\ f.at = "top" => ~f.handled /\ ~f.robbed
           /\ f.at = "wait" /\ ~f.poll => ~f.handled
           /\ ~SomeEligible(f.kept, f.mode)

\* A run that is in a callout in which the loop runs again: when that run has
\* ended, this one looks at everything again, or is robbed.
Below(f) == \/ f.at = "blocks1" /\ f.robbed
            \/ f.at \in {"blocks2", "blocks3", "performed"}
            \/ f.at = "sources" /\ f.handled

\* It works on no list of blocks.
NoLists(f) == f.list = <<>> /\ f.kept = <<>>

\* A run that goes to mach_msg and would sleep there.
Attends(f) == /\ f.at \in {"top", "blocks1", "sources", "wait"} /\ ~f.handled
              /\ f.at = "wait" => ~f.poll

\* What has come, since the run passed by the place where it looks at it, is
\* announced by a wakeup.
Watched(f) ==
    Attends(f) =>
       /\ ~f.robbed /\ Stopped(f) => Announced
       /\ ~f.robbed /\ f.at # "top" /\ SomeEligible(blocks, f.mode) => Announced
       /\ f.at = "sources" /\ ~(Collected \subseteq f.coll) => Announced
       /\ f.at = "wait" /\ (Collected # {} \/ term[f.run]) => Announced

\* The innermost run is watched; those below it are in callouts.
Frames == /\ \A i \in 1 .. Len(stack) : Good(stack[i])
          /\ \A i \in 1 .. Len(stack) - 1 : Below(stack[i])
Watch == stack # <<>> => Watched(Top)

\* The inductive invariant.
LoopIInv == StackType /\ SharedType /\ Frames /\ Watch

\* What a step of the loop has to show for the stack.
StackInv == StackType /\ Frames /\ Watch

-----------------------------------------------------------------------------
LEMMA TopOf ==
    ASSUME StackType, stack # <<>>
    PROVE  /\ Len(stack) \in Nat \ {0} /\ Top \in Run
           /\ \A i \in 1 .. Len(stack) : stack[i] \in Run
BY EmptySeq, ElementOfSeq DEF StackType, Top

\* The innermost run moves.
LEMMA SetStep ==
    ASSUME StackType, Frames, stack # <<>>, NEW f \in Run, Set(f), runs' = runs,
           Good(f), Watched(f)'
    PROVE  StackInv'
<1>1. Len(stack) \in Nat \ {0} /\ stack \in Seq(Run)
  BY TopOf DEF StackType
<1>2. /\ stack' \in Seq(Run) /\ Len(stack') = Len(stack)
      /\ \A i \in 1 .. Len(stack) : stack'[i] = IF i = Len(stack) THEN f ELSE stack[i]
  BY <1>1, ExceptSeq DEF Set
<1>3. StackType' /\ Frames'
  BY <1>1, <1>2 DEF StackType, Frames
<1>4. Top' = f
  BY <1>1, <1>2 DEF Top
<1> QED BY <1>3, <1>4 DEF StackInv, Watch, Watched, Attends, Stopped, Collected, Announced

\* A callout runs the loop again, in mode m: a new run goes on the stack.
LEMMA Pushed ==
    ASSUME StackType, stack # <<>>, NEW g \in Run, NEW m \in Modes,
           PushRun([stack EXCEPT ![Len(stack)] = g], m)
    PROVE  \E k \in Run :
              /\ Good(k) /\ ~Attends(k) /\ NoLists(k)
              /\ stack' \in Seq(Run) /\ Len(stack') = Len(stack) + 1
              /\ \A i \in 1 .. Len(stack) : stack'[i] = IF i = Len(stack) THEN g ELSE stack[i]
              /\ stack'[Len(stack) + 1] = k
              /\ runs' \in 0 .. MaxRuns /\ runs' = runs + 1
<1> DEFINE st == [stack EXCEPT ![Len(stack)] = g]
<1>1. Len(stack) \in Nat \ {0} /\ stack \in Seq(Run)
  BY TopOf DEF StackType
<1>2. /\ st \in Seq(Run) /\ Len(st) = Len(stack)
      /\ \A i \in 1 .. Len(stack) : st[i] = IF i = Len(stack) THEN g ELSE stack[i]
  BY <1>1, ExceptSeq
<1>3. PICK l \in Limits :
          stack' = Append(st, [run |-> runs + 1, mode |-> m, limit |-> l, at |-> "entry",
                               stopped |-> FALSE, ignore |-> FALSE, robbed |-> FALSE,
                               handled |-> FALSE, poll |-> FALSE, live |-> "none",
                               list |-> <<>>, kept |-> <<>>, coll |-> {}])
  BY DEF PushRun
<1> DEFINE k == [run |-> runs + 1, mode |-> m, limit |-> l, at |-> "entry",
                 stopped |-> FALSE, ignore |-> FALSE, robbed |-> FALSE,
                 handled |-> FALSE, poll |-> FALSE, live |-> "none",
                 list |-> <<>>, kept |-> <<>>, coll |-> {}]
<1>4. runs \in 0 .. MaxRuns /\ runs < MaxRuns /\ runs' = runs + 1 /\ MaxRuns \in Nat
  BY RunLoopAssumption DEF RunLoopAssumption, PushRun, StackType
<1>5. k \in Run /\ Good(k) /\ ~Attends(k) /\ NoLists(k)
  BY <1>4, EmptySeq DEF Run, Runs, Places, Good, SomeEligible, Attends, BlockPlaces, NoLists
<1> HIDE DEF k, st
<1>6. /\ stack' \in Seq(Run) /\ Len(stack') = Len(stack) + 1
      /\ \A i \in 1 .. Len(stack) : stack'[i] = IF i = Len(stack) THEN g ELSE stack[i]
      /\ stack'[Len(stack) + 1] = k
  BY <1>1, <1>2, <1>3, <1>5, AppendProperties DEF k
<1>7. runs' \in 0 .. MaxRuns
  BY <1>4
<1> QED BY <1>4, <1>5, <1>6, <1>7

LEMMA PushRunStep ==
    ASSUME StackType, Frames, stack # <<>>, NEW g \in Run, NEW m \in Modes,
           PushRun([stack EXCEPT ![Len(stack)] = g], m), Good(g), Below(g)
    PROVE  StackInv'
<1>1. Len(stack) \in Nat \ {0} /\ Len(stack) <= runs /\ runs \in Int
  BY TopOf DEF StackType
<1>2. PICK k \in Run :
          /\ Good(k) /\ ~Attends(k)
          /\ stack' \in Seq(Run) /\ Len(stack') = Len(stack) + 1
          /\ \A i \in 1 .. Len(stack) : stack'[i] = IF i = Len(stack) THEN g ELSE stack[i]
          /\ stack'[Len(stack) + 1] = k
          /\ runs' \in 0 .. MaxRuns /\ runs' = runs + 1
  BY Pushed
<1>3. StackType'
  BY <1>1, <1>2 DEF StackType
<1>4. Frames'
  <2>1. \A i \in 1 .. Len(stack') : i \in 1 .. Len(stack) \/ i = Len(stack) + 1
    BY <1>1, <1>2
  <2>2. \A i \in 1 .. Len(stack') : Good(stack'[i])
    BY <1>1, <1>2, <2>1 DEF Frames
  <2>3. \A i \in 1 .. Len(stack') - 1 : Below(stack'[i])
    BY <1>1, <1>2 DEF Frames
  <2> QED BY <2>2, <2>3 DEF Frames
<1>5. Top' = k
  BY <1>1, <1>2 DEF Top
<1> QED BY <1>2, <1>3, <1>4, <1>5 DEF StackInv, Watch, Watched, Attends

\* The outermost run begins.
LEMMA StartStep ==
    ASSUME StackType, Start PROVE StackInv'
<1>1. PICK l \in Limits :
          stack' = Append(<<>>, [run |-> runs + 1, mode |-> Base, limit |-> l, at |-> "entry",
                               stopped |-> FALSE, ignore |-> FALSE, robbed |-> FALSE,
                               handled |-> FALSE, poll |-> FALSE, live |-> "none",
                               list |-> <<>>, kept |-> <<>>, coll |-> {}])
  BY DEF Start, PushRun
<1> DEFINE k == [run |-> runs + 1, mode |-> Base, limit |-> l, at |-> "entry",
                 stopped |-> FALSE, ignore |-> FALSE, robbed |-> FALSE,
                 handled |-> FALSE, poll |-> FALSE, live |-> "none",
                 list |-> <<>>, kept |-> <<>>, coll |-> {}]
<1>2. /\ runs \in 0 .. MaxRuns /\ runs < MaxRuns /\ runs' = runs + 1 /\ MaxRuns \in Nat
      /\ Base \in Modes
  BY RunLoopAssumption DEF RunLoopAssumption, Start, PushRun, StackType
<1>3. k \in Run /\ Good(k) /\ ~Attends(k)
  BY <1>2, EmptySeq DEF Run, Runs, Places, Good, SomeEligible, Attends, BlockPlaces
<1> HIDE DEF k
<1>4. stack' \in Seq(Run) /\ Len(stack') = 1 /\ stack'[1] = k
  BY <1>1, <1>3, EmptySeq, AppendProperties DEF k
<1>5. Top' = k
  BY <1>4 DEF Top
<1> QED BY <1>2, <1>3, <1>4, <1>5 DEF StackInv, StackType, Frames, Watch, Watched, Attends

\* A run ends, and the one in whose callout it was goes on.
LEMMA PopStep ==
    ASSUME StackType, Frames, Pop PROVE StackInv'
<1>1. Len(stack) \in Nat \ {0} /\ stack \in Seq(Run) /\ \A i \in 1 .. Len(stack) : stack[i] \in Run
  BY TopOf DEF StackType, Pop
<1>2. stack' = SubSeq(stack, 1, Len(stack) - 1) /\ runs' = runs
  BY DEF Pop
<1>3. /\ stack' \in Seq(Run) /\ Len(stack') = Len(stack) - 1
      /\ \A i \in 1 .. Len(stack') : stack'[i] = stack[i]
  <2> DEFINE k == Len(stack) - 1
  <2>1. k \in Nat /\ \A i \in 1 .. k : stack[i] \in Run
    BY <1>1
  <2> HIDE DEF k
  <2>2. /\ SubSeq(stack, 1, k) \in Seq(Run)
        /\ Len(SubSeq(stack, 1, k)) = IF 1 <= k THEN k - 1 + 1 ELSE 0
        /\ \A i \in 1 .. k - 1 + 1 : SubSeq(stack, 1, k)[i] = stack[1 + i - 1]
    BY <2>1, SubSeqProperties
  <2>3. stack' = SubSeq(stack, 1, k)
    BY <1>2 DEF k
  <2>4. Len(stack') = k /\ \A i \in 1 .. k : stack'[i] = stack[i]
    BY <2>1, <2>2, <2>3
  <2> QED BY <2>2, <2>3, <2>4 DEF k
<1>4. StackType' /\ Frames'
  BY <1>1, <1>2, <1>3 DEF StackType, Frames
<1>5. ASSUME stack' # <<>> PROVE Watched(Top)'
  <2>1. Len(stack') \in 1 .. Len(stack) - 1
    BY <1>1, <1>3, <1>5, EmptySeq
  <2>2. Below(Top)'
    BY <1>3, <2>1 DEF Frames, Top
  <2> QED BY <2>2 DEF Below, Watched, Attends
<1> QED BY <1>4, <1>5 DEF StackInv, Watch

-----------------------------------------------------------------------------
(* The locked segments of the loop.                                         *)

Rest == UNCHANGED <<sources, ports, passed, term, runs, calls, todo>>

LEMMA RestShared ==
    ASSUME SharedType, Rest, blocks' \in Seq(Block), modeStopped' \in [Modes -> BOOLEAN],
           timer' \in [Runs -> {"none", "armed", "wake"}]
    PROVE  SharedType'
BY DEF SharedType, Rest, sources, ports

LEMMA RestCovered ==
    ASSUME Rest, timer' = timer PROVE Announced' = Announced /\ Collected' = Collected /\ term' = term
BY DEF Rest, ports, sources, Announced, WakeupOwed, Collected

LEMMA IterateType ==
    ASSUME NEW f \in Run, NoLists(f), NEW s \in BOOLEAN
    PROVE  /\ Iterate(f) \in Run /\ Good(Iterate(f))
           /\ [Iterate(f) EXCEPT !.stopped = @ /\ s, !.ignore = TRUE, !.at = "exit"] \in Run
           /\ Good([Iterate(f) EXCEPT !.stopped = @ /\ s, !.ignore = TRUE, !.at = "exit"])
           /\ Iterate(f).stopped = f.stopped /\ Iterate(f).mode = f.mode
           /\ Iterate(f).at = "top"
<1>0. f.kept = <<>> /\ f.list = <<>> /\ ~SomeEligible(<<>>, f.mode)
  BY EmptySeq DEF NoLists, SomeEligible
<1>1. Iterate(f) \in Run /\ Good(Iterate(f))
  <2>1. PICK g \in Run : g = Iterate(f)
    BY DEF Run, Iterate, Places
  <2>2. /\ g.at = "top" /\ g.list = f.list /\ g.kept = f.kept /\ g.mode = f.mode
        /\ ~g.ignore /\ ~g.handled /\ ~g.robbed
    BY <2>1 DEF Run, Iterate
  <2> QED BY <1>0, <2>1, <2>2 DEF Good, BlockPlaces
<1>2. /\ [Iterate(f) EXCEPT !.stopped = @ /\ s, !.ignore = TRUE, !.at = "exit"] \in Run
      /\ Good([Iterate(f) EXCEPT !.stopped = @ /\ s, !.ignore = TRUE, !.at = "exit"])
  <2>1. PICK g \in Run : g = [Iterate(f) EXCEPT !.stopped = @ /\ s, !.ignore = TRUE, !.at = "exit"]
    BY DEF Run, Iterate, Places
  <2>2. g.at = "exit" /\ g.list = f.list /\ g.kept = f.kept /\ g.mode = f.mode
    BY <2>1 DEF Run, Iterate
  <2> QED BY <1>0, <2>1, <2>2 DEF Good, BlockPlaces
<1>3. Iterate(f).stopped = f.stopped /\ Iterate(f).mode = f.mode /\ Iterate(f).at = "top"
  BY DEF Run, Iterate
<1> QED BY <1>1, <1>2, <1>3

\* The end of an iteration: a stop or a limit that has been seen ends the run.
LEMMA EndStep ==
    ASSUME LoopIInv, stack # <<>>, Rest, blocks' \in Seq(Block),
           NEW f \in Run, NEW p, EndIteration(f, p), NoLists(f)
    PROVE  LoopIInv'
<1>1. f.mode \in Modes /\ f.run \in Runs /\ f.stopped \in BOOLEAN /\ runs' = runs
  BY DEF Run, Rest
<1>2. modeStopped \in [Modes -> BOOLEAN] /\ timer \in [Runs -> {"none", "armed", "wake"}]
  BY DEF LoopIInv, SharedType
<1>3. CASE Ends(f, p)
  <2> DEFINE s == TakesStop(f) /\ f.stopped
  <2>1. PICK g \in Run : /\ g = [Iterate(f) EXCEPT !.stopped = @ /\ ~s, !.ignore = TRUE, !.at = "exit"]
                         /\ Set(g) /\ Good(g)
    <3>1. (~s) \in BOOLEAN
      BY DEF TakesStop
    <3>2. Set([Iterate(f) EXCEPT !.stopped = @ /\ ~s, !.ignore = TRUE, !.at = "exit"])
      BY <1>3 DEF EndIteration
    <3> HIDE DEF s
    <3> QED BY <3>1, <3>2, IterateType
  <2>2. g.at = "exit"
    BY <2>1 DEF Iterate, Run
  <2>3. /\ modeStopped' = [modeStopped EXCEPT ![f.mode] = @ /\ (s \/ ~TakesStop(f))]
        /\ timer' = [timer EXCEPT ![f.run] = IF @ = "wake" THEN @ ELSE "none"]
    BY <1>3 DEF EndIteration
  <2>4. modeStopped' \in [Modes -> BOOLEAN]
    BY <1>1, <1>2, <2>3
  <2>5. timer' \in [Runs -> {"none", "armed", "wake"}]
    BY <1>1, <1>2, <2>3
  <2>6. Watched(g)'
    BY <2>2 DEF Watched, Attends
  <2> QED BY <1>1, <2>1, <2>4, <2>5, <2>6, SetStep, RestShared DEF LoopIInv, StackInv
<1>4. CASE ~Ends(f, p)
  <2>1. Set(Iterate(f)) /\ UNCHANGED <<modeStopped, timer>>
    BY <1>4 DEF EndIteration
  <2>2. PICK g \in Run : g = Iterate(f) /\ Set(g) /\ Good(g)
    BY <2>1, IterateType
  <2>3. g.at = "top" /\ ~Stopped(g)'
    BY <1>4, <2>1, <2>2, IterateType DEF Ends, Stopped
  <2>4. Watched(g)'
    BY <2>3 DEF Watched, Stopped
  <2> QED BY <1>1, <1>2, <2>1, <2>2, <2>4, SetStep, RestShared DEF LoopIInv, StackInv
<1> QED BY <1>3, <1>4

\* Off to wait, or to the sources: nothing has come that is not announced.
Unannounced(f, p) == ~f.handled /\ ~f.robbed => (Stopped(f) \/ SomeEligible(p, f.mode) => Announced)

LEMMA WaitStep ==
    ASSUME LoopIInv, stack # <<>>, Rest, UNCHANGED <<modeStopped, timer>>, blocks' \in Seq(Block),
           NEW f \in Run, NoLists(f), ~f.ignore, Unannounced(f, blocks'),
           \/ Set(BeforeWaiting(f)) /\ (Collected # {} /\ ~f.handled => Announced)
           \/ Set(CollectSources0(f))
    PROVE  LoopIInv'
<1>0. /\ runs' = runs /\ term' = term /\ Announced' = Announced /\ Collected' = Collected
      /\ Collected \in SUBSET Sources /\ term[f.run] \in BOOLEAN
  BY RestCovered DEF Rest, Collected, LoopIInv, SharedType, Run
<1>1. SharedType'
  BY RestShared DEF LoopIInv, SharedType
<1>2. CASE Set(BeforeWaiting(f)) /\ (Collected # {} /\ ~f.handled => Announced)
  <2>1. PICK g \in Run : g = BeforeWaiting(f)
    BY <1>0 DEF BeforeWaiting, Run, Places
  <2>2. /\ g.at = "wait" /\ (~g.poll => ~f.handled /\ ~term[f.run]) /\ g.run = f.run /\ g.mode = f.mode
        /\ g.list = f.list /\ g.kept = f.kept /\ g.ignore = f.ignore /\ g.handled = f.handled
        /\ g.robbed = f.robbed /\ g.stopped = f.stopped
    BY <2>1 DEF BeforeWaiting, Run
  <2>3. Good(g)
    BY <2>2 DEF Good, NoLists, SomeEligible, BlockPlaces
  <2>4. Watched(g)'
    BY <1>0, <1>2, <2>2 DEF Watched, Attends, Stopped, Unannounced
  <2> QED BY <1>0, <1>1, <1>2, <2>1, <2>3, <2>4, SetStep DEF LoopIInv, StackInv
<1>3. CASE Set(CollectSources0(f)) /\ Collected # {}
  <2>1. PICK g \in Run : g = CollectSources0(f)
    BY <1>0, <1>3 DEF CollectSources0, Run, Places
  <2>2. /\ g.at = "sources" /\ g.coll = Collected /\ g.mode = f.mode /\ g.list = f.list
        /\ g.kept = f.kept /\ g.ignore = f.ignore /\ g.handled = f.handled
        /\ g.robbed = f.robbed /\ g.stopped = f.stopped
    BY <1>3, <2>1 DEF CollectSources0, Run
  <2>3. Good(g)
    BY <2>2 DEF Good, NoLists, SomeEligible, BlockPlaces
  <2>4. Watched(g)'
    BY <1>0, <1>3, <2>2 DEF Watched, Attends, Stopped, Unannounced
  <2> QED BY <1>0, <1>1, <1>3, <2>1, <2>3, <2>4, SetStep DEF LoopIInv, StackInv
<1> QED BY <1>2, <1>3 DEF CollectSources0

LEMMA ContinueStep ==
    ASSUME LoopIInv, stack # <<>>, Rest, NEW f \in Run, NEW k \in 1 .. 3, NEW p \in Seq(Block),
           blocks' = p, Continue(f, k, p), NoLists(f), k # 3 => ~f.ignore, k = 2 => f.handled,
           k = 1 => Unannounced(f, p)
    PROVE  LoopIInv'
<1>1. CASE k = 1
  BY <1>1, WaitStep DEF Continue
<1>2. CASE k = 2
  <2>1. Unannounced(f, blocks') /\ Set(BeforeWaiting(f)) /\ UNCHANGED <<modeStopped, timer>>
    BY <1>2 DEF Unannounced, Continue
  <2> QED BY <1>2, <2>1, WaitStep
<1>3. CASE k = 3
  <2>1. EndIteration(f, p)
    BY <1>3 DEF Continue
  <2> QED BY <2>1, EndStep
<1> QED BY <1>1, <1>2, <1>3

\* __CFRunLoopDoBlocks takes the blocks there are.
LEMMA DoBlocksStep ==
    ASSUME LoopIInv, stack # <<>>, Rest, NEW f \in Run, NEW k \in 1 .. 3, DoBlocks(f, k),
           NoLists(f), k # 3 => ~f.ignore, k = 2 => f.handled,
           k = 1 => (~f.handled /\ ~f.robbed /\ Stopped(f) => Announced)
    PROVE  LoopIInv'
<1>0. <<>> \in Seq(Block) /\ ~SomeEligible(<<>>, f.mode) /\ blocks \in Seq(Block)
  BY EmptySeq DEF SomeEligible, LoopIInv, SharedType
<1>1. CASE blocks = <<>> /\ Continue(f, k, <<>>) /\ UNCHANGED blocks
  <2>1. k = 1 => Unannounced(f, <<>>)
    BY <1>0 DEF Unannounced
  <2> QED BY <1>0, <1>1, <2>1, ContinueStep
<1>2. CASE /\ blocks # <<>> /\ blocks' = <<>> /\ UNCHANGED <<modeStopped, timer>>
           /\ Set([f EXCEPT !.list = blocks, !.at = BlockPlace(k)])
  <2>0. BlockPlace(k) = IF k = 1 THEN "blocks1" ELSE IF k = 2 THEN "blocks2" ELSE "blocks3"
    BY DEF BlockPlace
  <2>1. PICK g \in Run : g = [f EXCEPT !.list = blocks, !.at = BlockPlace(k)]
    BY <1>0 DEF Run, Places
  <2>2. /\ g.at = BlockPlace(k) /\ g.mode = f.mode /\ g.kept = f.kept /\ g.ignore = f.ignore
        /\ g.handled = f.handled /\ g.robbed = f.robbed /\ g.stopped = f.stopped
    BY <2>1 DEF Run
  <2>3. Good(g)
    BY <2>0, <2>2 DEF Good, NoLists, SomeEligible, BlockPlaces
  <2>4. Announced' = Announced /\ runs' = runs
    BY <1>2, RestCovered DEF Rest
  <2>5. Watched(g)'
    BY <1>0, <1>2, <2>0, <2>2, <2>4 DEF Watched, Attends, Stopped
  <2>6. SharedType'
    BY <1>0, <1>2, RestShared DEF LoopIInv, SharedType
  <2> QED BY <1>2, <2>1, <2>3, <2>4, <2>5, <2>6, SetStep DEF LoopIInv, StackInv
<1> QED BY <1>1, <1>2 DEF DoBlocks

-----------------------------------------------------------------------------
(* Each action preserves the invariant.                                     *)

LEMMA TopIs == ASSUME LoopIInv, stack # <<>> PROVE Top \in Run /\ Good(Top) /\ Watched(Top)
<1>1. Len(stack) \in Nat \ {0} /\ Top \in Run
  BY TopOf DEF LoopIInv
<1>2. Good(stack[Len(stack)])
  BY <1>1 DEF LoopIInv, Frames
<1> QED BY <1>1, <1>2 DEF LoopIInv, Watch, Top

LEMMA StartInv == ASSUME LoopIInv, Start PROVE LoopIInv'
<1>1. SharedType'
  BY DEF LoopIInv, SharedType, Start, sources, ports, timeout
<1> QED BY <1>1, StartStep DEF LoopIInv, StackInv

LEMMA PopInv == ASSUME LoopIInv, Pop PROVE LoopIInv'
<1>1. Top.run \in Runs
  BY TopIs DEF Run, Pop
<1>2. SharedType'
  BY <1>1 DEF LoopIInv, SharedType, Pop, sources, ports
<1> QED BY <1>2, PopStep DEF LoopIInv, StackInv

LEMMA BeginInv == ASSUME LoopIInv, Begin PROVE LoopIInv'
<1>0. stack # <<>> /\ Top.at = "entry" /\ Top \in Run /\ Good(Top) /\ Top.run \in Runs /\ Top.mode \in Modes
  BY TopIs DEF Begin, Run
<1>1. NoLists(Top) /\ ~SomeEligible(<<>>, Top.mode)
  BY <1>0, EmptySeq DEF Good, BlockPlaces, NoLists, SomeEligible
<1>2. CASE Top.stopped \/ modeStopped[Top.mode]
  <2>1. PICK g \in Run : g = [Top EXCEPT !.stopped = FALSE, !.at = "exit"]
    BY <1>0 DEF Run, Places
  <2>2. g.at = "exit" /\ g.list = Top.list /\ g.kept = Top.kept /\ g.mode = Top.mode
    BY <1>0, <2>1 DEF Run
  <2>3. Good(g) /\ Watched(g)'
    BY <1>1, <2>2 DEF Good, Watched, Attends, NoLists, BlockPlaces
  <2>4. /\ Set(g) /\ runs' = runs
        /\ modeStopped' = [modeStopped EXCEPT ![Top.mode] = @ /\ Top.stopped]
    BY <1>2, <2>1 DEF Begin
  <2>5. SharedType'
    BY <1>0, <1>2, <2>4 DEF LoopIInv, SharedType, Begin, sources, ports, timeout
  <2> QED BY <1>0, <2>3, <2>4, <2>5, SetStep DEF LoopIInv, StackInv
<1>3. CASE ~Stopped(Top)
  <2>1. PICK g \in Run : g = Iterate(Top) /\ Good(g)
    BY <1>0, <1>1, IterateType
  <2>2. g.at = "top" /\ g.stopped = Top.stopped /\ g.mode = Top.mode
    BY <1>0, <2>1 DEF Iterate, Run
  <2>3. Set(g) /\ runs' = runs /\ modeStopped' = modeStopped
    BY <1>3, <2>1 DEF Begin, Stopped
  <2>4. Watched(g)'
    BY <1>3, <2>2, <2>3 DEF Watched, Stopped
  <2>5. SharedType'
    <3>1. /\ term' = [term EXCEPT ![Top.run] = Top.limit = "instant"]
          /\ passed' = [passed EXCEPT ![Top.run] = Top.limit = "instant"]
          /\ timer' = [timer EXCEPT ![Top.run] = IF Top.limit = "timed" THEN "armed" ELSE "none"]
          /\ UNCHANGED <<blocks, sources, ports, calls, todo>>
      BY <1>3 DEF Begin, Stopped
    <3>2. (Top.limit = "instant") \in BOOLEAN
      OBVIOUS
    <3>3. term' \in [Runs -> BOOLEAN] /\ passed' \in [Runs -> BOOLEAN]
      BY <1>0, <3>1, <3>2 DEF LoopIInv, SharedType
    <3>4. timer' \in [Runs -> {"none", "armed", "wake"}]
      BY <1>0, <3>1 DEF LoopIInv, SharedType
    <3> QED BY <2>3, <3>1, <3>3, <3>4 DEF LoopIInv, SharedType, sources, ports
  <2> QED BY <1>0, <2>1, <2>3, <2>4, <2>5, SetStep DEF LoopIInv, StackInv
<1> QED BY <1>2, <1>3 DEF Stopped

LEMMA BeforeSourcesInv == ASSUME LoopIInv, BeforeSources PROVE LoopIInv'
<1>1. PICK f \in Run : f = Top
  BY TopIs DEF BeforeSources
<1>2. /\ stack # <<>> /\ f.at = "top" /\ DoBlocks(f, 1) /\ Rest /\ Good(f) /\ Watched(f)
  BY <1>1, TopIs DEF BeforeSources, Rest
<1>3. NoLists(f) /\ ~f.ignore /\ (~f.handled /\ ~f.robbed /\ Stopped(f) => Announced)
  BY <1>2 DEF Good, BlockPlaces, NoLists, Watched, Attends
<1> QED BY <1>2, <1>3, DoBlocksStep

\* After a callout of blocks or sources the run goes on, or runs the loop again.
LEMMA CalloutStep ==
    ASSUME LoopIInv, stack # <<>>, NEW f \in Run, Callout(f), SharedType', Good(f), Watched(f)',
           f.at \in BlockPlaces \cup {"performed"} \/ (f.at = "sources" /\ f.handled)
    PROVE  LoopIInv'
<1>1. CASE Set(f) /\ UNCHANGED runs
  BY <1>1, SetStep DEF LoopIInv, StackInv
<1>2. CASE ~(Set(f) /\ UNCHANGED runs)
  <2>1. PICK g \in Run : g = [f EXCEPT !.robbed = f.at = "blocks1"]
    <3>1. (f.at = "blocks1") \in BOOLEAN
      OBVIOUS
    <3> QED BY <3>1 DEF Run
  <2>2. /\ g.at = f.at /\ g.list = f.list /\ g.kept = f.kept /\ g.ignore = f.ignore
        /\ g.handled = f.handled /\ g.poll = f.poll /\ g.mode = f.mode
        /\ (f.at = "blocks1" => g.robbed)
    BY <2>1 DEF Run
  <2>3. Good(g) /\ Below(g)
    BY <2>2 DEF Good, Below, BlockPlaces
  <2>4. PICK m \in Modes : PushRun([stack EXCEPT ![Len(stack)] = g], m)
    BY <1>2, <2>1 DEF Callout
  <2> QED BY <2>3, <2>4, PushRunStep DEF LoopIInv, StackInv
<1> QED BY <1>1, <1>2

LEMMA SubSeqs ==
    ASSUME NEW s \in Seq(Block), NEW i \in 1 .. Len(s)
    PROVE  /\ SubSeq(s, 1, i - 1) \in Seq(Block) /\ Len(SubSeq(s, 1, i - 1)) = i - 1
           /\ \A j \in 1 .. i - 1 : SubSeq(s, 1, i - 1)[j] = s[j]
           /\ SubSeq(s, i + 1, Len(s)) \in Seq(Block) /\ Len(SubSeq(s, i + 1, Len(s))) = Len(s) - i
           /\ \A j \in 1 .. Len(s) - i : SubSeq(s, i + 1, Len(s))[j] = s[i + j]
<1>1. Len(s) \in Nat /\ \A j \in 1 .. Len(s) : s[j] \in Block
  BY ElementOfSeq, LenProperties
<1>2. i - 1 \in Int /\ i + 1 \in Int /\ Len(s) \in Int
  BY <1>1
<1>3. /\ SubSeq(s, 1, i - 1) \in Seq(Block)
      /\ Len(SubSeq(s, 1, i - 1)) = IF 1 <= i - 1 THEN i - 1 - 1 + 1 ELSE 0
      /\ \A j \in 1 .. i - 1 - 1 + 1 : SubSeq(s, 1, i - 1)[j] = s[1 + j - 1]
  <2>1. \A j \in 1 .. i - 1 : s[j] \in Block
    BY <1>1
  <2> QED BY <1>2, <2>1, SubSeqProperties
<1>4. /\ SubSeq(s, i + 1, Len(s)) \in Seq(Block)
      /\ Len(SubSeq(s, i + 1, Len(s))) = IF i + 1 <= Len(s) THEN Len(s) - (i + 1) + 1 ELSE 0
      /\ \A j \in 1 .. Len(s) - (i + 1) + 1 : SubSeq(s, i + 1, Len(s))[j] = s[i + 1 + j - 1]
  <2>1. \A j \in i + 1 .. Len(s) : s[j] \in Block
    BY <1>1
  <2> QED BY <1>2, <2>1, SubSeqProperties
<1> QED BY <1>1, <1>3, <1>4

\* A sequence of blocks put after another one.
LEMMA Joined ==
    ASSUME NEW s \in Seq(Block), NEW t \in Seq(Block)
    PROVE  /\ s \o t \in Seq(Block)
           /\ \A m : SomeEligible(s \o t, m) <=> SomeEligible(s, m) \/ SomeEligible(t, m)
<1>1. /\ s \o t \in Seq(Block) /\ Len(s \o t) = Len(s) + Len(t)
      /\ Len(s) \in Nat /\ Len(t) \in Nat
      /\ \A i \in 1 .. Len(s) + Len(t) :
             (s \o t)[i] = IF i <= Len(s) THEN s[i] ELSE t[i - Len(s)]
  BY ConcatProperties, LenProperties
<1>2. ASSUME NEW m, SomeEligible(s \o t, m) PROVE SomeEligible(s, m) \/ SomeEligible(t, m)
  <2>1. PICK i \in 1 .. Len(s) + Len(t) : Eligible((s \o t)[i], m)
    BY <1>1, <1>2 DEF SomeEligible
  <2>2. i <= Len(s) \/ i - Len(s) \in 1 .. Len(t)
    BY <1>1
  <2> QED BY <1>1, <2>1, <2>2 DEF SomeEligible
<1>3. ASSUME NEW m, SomeEligible(s, m) PROVE SomeEligible(s \o t, m)
  BY <1>1, <1>3 DEF SomeEligible
<1>4. ASSUME NEW m, SomeEligible(t, m) PROVE SomeEligible(s \o t, m)
  <2>1. PICK i \in 1 .. Len(t) : Eligible(t[i], m)
    BY <1>4 DEF SomeEligible
  <2>2. Len(s) + i \in 1 .. Len(s) + Len(t) /\ (s \o t)[Len(s) + i] = t[i]
    BY <1>1
  <2> QED BY <1>1, <2>1, <2>2 DEF SomeEligible
<1> QED BY <1>1, <1>2, <1>3, <1>4

LEMMA RunBlockInv == ASSUME LoopIInv, NEW k \in 1 .. 3, RunBlock(k) PROVE LoopIInv'
<1>0. stack # <<>> /\ Top \in Run /\ Good(Top) /\ Watched(Top) /\ Top.at = BlockPlace(k)
      /\ Top.list \in Seq(Block) /\ Top.kept \in Seq(Block)
  BY TopIs DEF RunBlock, Run
<1>1. PICK i \in 1 .. Len(Top.list) :
          /\ \A j \in 1 .. i - 1 : ~Eligible(Top.list[j], Top.mode)
          /\ Callout([Top EXCEPT !.kept = @ \o SubSeq(Top.list, 1, i - 1),
                                 !.list = SubSeq(@, i + 1, Len(@))])
  BY DEF RunBlock
<1> DEFINE s == SubSeq(Top.list, 1, i - 1)
           t == SubSeq(Top.list, i + 1, Len(Top.list))
<1>2. s \in Seq(Block) /\ t \in Seq(Block) /\ ~SomeEligible(s, Top.mode)
  BY <1>0, <1>1, SubSeqs DEF SomeEligible
<1> HIDE DEF s, t
<1>3. Top.kept \o s \in Seq(Block) /\ ~SomeEligible(Top.kept, Top.mode)
      /\ ~SomeEligible(Top.kept \o s, Top.mode)
  BY <1>0, <1>2, Joined DEF Good
<1>4. PICK f \in Run : f = [Top EXCEPT !.kept = @ \o s, !.list = t]
  BY <1>0, <1>2, <1>3 DEF Run
<1>5. /\ f.at = Top.at /\ f.ignore = Top.ignore /\ f.handled = Top.handled /\ f.poll = Top.poll
      /\ f.robbed = Top.robbed /\ f.mode = Top.mode /\ f.stopped = Top.stopped /\ f.run = Top.run
      /\ f.kept = Top.kept \o s /\ f.coll = Top.coll
  BY <1>0, <1>4 DEF Run
<1>6. Callout(f)
  BY <1>1, <1>4 DEF s, t
<1>7. f.at \in BlockPlaces
  BY <1>0, <1>5 DEF BlockPlace, BlockPlaces
<1>8. Good(f)
  BY <1>0, <1>3, <1>5, <1>7 DEF Good, BlockPlaces
<1>9. Watched(f)'
  BY <1>0, <1>5, <1>7 DEF RunBlock, Watched, Attends, Stopped, Announced, WakeupOwed, BlockPlaces,
                          ports, timeout
<1>10. SharedType'
  BY DEF RunBlock, LoopIInv, SharedType, sources, ports, timeout
<1> QED BY <1>0, <1>6, <1>7, <1>8, <1>9, <1>10, CalloutStep

LEMMA PutBackInv == ASSUME LoopIInv, NEW k \in 1 .. 3, PutBack(k) PROVE LoopIInv'
<1>0. stack # <<>> /\ Top \in Run /\ Good(Top) /\ Watched(Top) /\ Top.at = BlockPlace(k)
      /\ Top.list \in Seq(Block) /\ Top.kept \in Seq(Block) /\ blocks \in Seq(Block)
  BY TopIs DEF PutBack, Run, LoopIInv, SharedType
<1>1. ~SomeEligible(Top.list, Top.mode) /\ ~SomeEligible(Top.kept, Top.mode)
  BY <1>0 DEF PutBack, SomeEligible, Good
<1>2. Top.kept \o Top.list \in Seq(Block) /\ ~SomeEligible(Top.kept \o Top.list, Top.mode)
  BY <1>0, <1>1, Joined
<1>3. /\ blocks' = (Top.kept \o Top.list) \o blocks
      /\ Continue([Top EXCEPT !.list = <<>>, !.kept = <<>>], k, blocks') /\ Rest
  BY DEF PutBack, Rest
<1>4. PICK p \in Seq(Block) : p = blocks' /\ (SomeEligible(p, Top.mode) => SomeEligible(blocks, Top.mode))
  <2>1. PICK held \in Seq(Block) : held = Top.kept \o Top.list
    BY <1>2
  <2>2. PICK q \in Seq(Block) : q = held \o blocks
    BY <1>0, Joined
  <2>3. SomeEligible(q, Top.mode) => SomeEligible(held, Top.mode) \/ SomeEligible(blocks, Top.mode)
    BY <1>0, <2>2, Joined
  <2> QED BY <1>2, <1>3, <2>1, <2>2, <2>3
<1>5. PICK f \in Run : f = [Top EXCEPT !.list = <<>>, !.kept = <<>>]
  BY <1>0, EmptySeq DEF Run
<1>6. /\ f.at = Top.at /\ f.ignore = Top.ignore /\ f.handled = Top.handled
      /\ f.robbed = Top.robbed /\ f.mode = Top.mode /\ f.stopped = Top.stopped /\ NoLists(f)
  BY <1>0, <1>5 DEF Run, NoLists
<1>7. BlockPlace(k) = IF k = 1 THEN "blocks1" ELSE IF k = 2 THEN "blocks2" ELSE "blocks3"
  BY DEF BlockPlace
<1>8. (k # 3 => ~f.ignore) /\ (k = 2 => f.handled)
  BY <1>0, <1>6, <1>7 DEF Good
<1>9. k = 1 => Unannounced(f, p)
  BY <1>0, <1>4, <1>6, <1>7 DEF Unannounced, Watched, Attends, Stopped
<1> QED BY <1>0, <1>3, <1>4, <1>5, <1>6, <1>8, <1>9, ContinueStep

LEMMA Source0Inv == ASSUME LoopIInv, Source0 PROVE LoopIInv'
<1>0. stack # <<>> /\ Top \in Run /\ Good(Top) /\ Watched(Top) /\ Top.at = "sources"
      /\ Top.coll \in SUBSET Sources
  BY TopIs DEF Source0, Run
<1>1. PICK s \in Top.coll :
          /\ signaled' = signaled \ {s}
          /\ IF s \in signaled /\ s \in valid
             THEN Callout([[Top EXCEPT !.coll = @ \ {s}]
                             EXCEPT !.handled = TRUE,
                                    !.coll = IF Top.mode \in OnceModes THEN {} ELSE @])
             ELSE Set([Top EXCEPT !.coll = @ \ {s}]) /\ UNCHANGED runs
  BY DEF Source0
<1>2. /\ UNCHANGED <<blocks, valid, members, modeStopped, ports, timeout, calls, todo>>
  BY DEF Source0
<1>3. SharedType'
  BY <1>1, <1>2 DEF LoopIInv, SharedType, ports, timeout
<1>4. Announced' = Announced /\ Collected' = Collected \ {s}
  BY <1>1, <1>2 DEF Announced, WakeupOwed, Collected, ports, timeout
<1>5. CASE s \in signaled /\ s \in valid
  <2>1. PICK f \in Run : f = [[Top EXCEPT !.coll = @ \ {s}]
                                EXCEPT !.handled = TRUE,
                                       !.coll = IF Top.mode \in OnceModes THEN {} ELSE @]
    BY <1>0 DEF Run
  <2>2. /\ f.at = "sources" /\ f.handled /\ f.ignore = Top.ignore /\ f.mode = Top.mode
        /\ f.list = Top.list /\ f.kept = Top.kept
    BY <1>0, <2>1 DEF Run
  <2>3. Good(f) /\ Watched(f)'
    BY <1>0, <2>2 DEF Good, BlockPlaces, Watched, Attends
  <2>4. Callout(f)
    BY <1>1, <1>5, <2>1
  <2> QED BY <1>0, <1>3, <2>2, <2>3, <2>4, CalloutStep
<1>6. CASE ~(s \in signaled /\ s \in valid)
  <2>1. PICK f \in Run : f = [Top EXCEPT !.coll = @ \ {s}]
    BY <1>0 DEF Run
  <2>2. /\ f.at = "sources" /\ f.handled = Top.handled /\ f.ignore = Top.ignore
        /\ f.mode = Top.mode /\ f.list = Top.list /\ f.kept = Top.kept
        /\ f.robbed = Top.robbed /\ f.stopped = Top.stopped /\ f.coll = Top.coll \ {s}
    BY <1>0, <2>1 DEF Run
  <2>3. Good(f)
    BY <1>0, <2>2 DEF Good, BlockPlaces
  <2>4. Watched(f)'
    BY <1>0, <1>2, <1>4, <2>2 DEF Watched, Attends, Stopped
  <2>5. Set(f) /\ runs' = runs
    BY <1>1, <1>6, <2>1
  <2> QED BY <1>0, <1>3, <2>3, <2>4, <2>5, SetStep DEF LoopIInv, StackInv
<1> QED BY <1>5, <1>6

LEMMA AfterSources0Inv == ASSUME LoopIInv, AfterSources0 PROVE LoopIInv'
<1>1. PICK f \in Run : f = Top
  BY TopIs DEF AfterSources0
<1>2. /\ stack # <<>> /\ f.at = "sources" /\ f.coll = {} /\ Rest /\ Good(f) /\ Watched(f)
      /\ IF f.handled THEN DoBlocks(f, 2)
         ELSE Set(BeforeWaiting(f)) /\ UNCHANGED <<blocks, modeStopped, timer>>
  BY <1>1, TopIs DEF AfterSources0, Rest
<1>3. NoLists(f) /\ ~f.ignore
  BY <1>2 DEF Good, BlockPlaces, NoLists
<1>4. CASE f.handled
  BY <1>2, <1>3, <1>4, DoBlocksStep
<1>5. CASE ~f.handled
  <2>1. blocks' \in Seq(Block) /\ blocks' = blocks
    BY <1>2, <1>5 DEF LoopIInv, SharedType
  <2>2. Unannounced(f, blocks') /\ (Collected # {} /\ ~f.handled => Announced)
    BY <1>2, <1>5, <2>1 DEF Unannounced, Watched, Attends
  <2> QED BY <1>2, <1>3, <1>5, <2>1, <2>2, WaitStep
<1> QED BY <1>4, <1>5

\* mach_msg takes the wakeup for a run that next looks at everything.
LEMMA ServiceMachPortInv == ASSUME LoopIInv, ServiceMachPort PROVE LoopIInv'
<1>0. stack # <<>> /\ Top \in Run /\ Good(Top) /\ Top.at = "wait"
  BY TopIs DEF ServiceMachPort
<1>1. PICK l \in {"none", "wakeup", "source1"} :
          /\ Set([Top EXCEPT !.live = l, !.at = "woken"]) \/ Set([Top EXCEPT !.at = "woken"])
          /\ wakeUpPort' \in BOOLEAN /\ port1' \in 0 .. calls
  <2>1. CASE Top.poll /\ Live = {} /\ Set([Top EXCEPT !.at = "woken"]) /\ UNCHANGED ports
    BY <2>1 DEF ports, LoopIInv, SharedType
  <2>2. CASE \E l \in Live :
                /\ Set([Top EXCEPT !.live = l, !.at = "woken"])
                /\ wakeUpPort' = (wakeUpPort /\ l # "wakeup")
                /\ port1' = IF l = "source1" THEN port1 - 1 ELSE port1
    <3>1. PICK l \in Live : /\ Set([Top EXCEPT !.live = l, !.at = "woken"])
                            /\ wakeUpPort' = (wakeUpPort /\ l # "wakeup")
                            /\ port1' = IF l = "source1" THEN port1 - 1 ELSE port1
      BY <2>2
    <3>2. l \in {"wakeup", "source1"} /\ (l = "source1" => port1 > 0)
      BY DEF Live
    <3>3. port1 \in 0 .. calls /\ calls \in Int
      BY RunLoopAssumption DEF RunLoopAssumption, LoopIInv, SharedType
    <3>4. port1' \in 0 .. calls
      BY <3>1, <3>2, <3>3
    <3>5. wakeUpPort' \in BOOLEAN
      BY <3>1
    <3> QED BY <3>1, <3>2, <3>4, <3>5
  <2> QED BY <2>1, <2>2 DEF ServiceMachPort
<1>2. PICK f \in Run : /\ f.at = "woken" /\ f.list = Top.list /\ f.kept = Top.kept
                       /\ f.mode = Top.mode /\ Set(f)
  <2>1. CASE Set([Top EXCEPT !.live = l, !.at = "woken"])
    <3>1. PICK f \in Run : f = [Top EXCEPT !.live = l, !.at = "woken"]
      BY <1>0 DEF Run, Places
    <3>2. f.at = "woken" /\ f.list = Top.list /\ f.kept = Top.kept /\ f.mode = Top.mode
      BY <1>0, <3>1 DEF Run
    <3> QED BY <2>1, <3>1, <3>2
  <2>2. CASE Set([Top EXCEPT !.at = "woken"])
    <3>1. PICK f \in Run : f = [Top EXCEPT !.at = "woken"]
      BY <1>0 DEF Run, Places
    <3>2. f.at = "woken" /\ f.list = Top.list /\ f.kept = Top.kept /\ f.mode = Top.mode
      BY <1>0, <3>1 DEF Run
    <3> QED BY <2>2, <3>1, <3>2
  <2> QED BY <1>1, <2>1, <2>2
<1>3. Good(f) /\ Watched(f)'
  BY <1>0, <1>2 DEF Good, BlockPlaces, Watched, Attends
<1>4. SharedType' /\ runs' = runs
  BY <1>1 DEF ServiceMachPort, LoopIInv, SharedType, sources, timeout
<1> QED BY <1>0, <1>2, <1>3, <1>4, SetStep DEF LoopIInv, StackInv

\* What the loop does for the message it got.
LEMMA HandleStep ==
    ASSUME LoopIInv, stack # <<>>, Rest, NEW f \in Run, Handle(f), NoLists(f)
    PROVE  LoopIInv'
<1>1. CASE f.live = "source1"
  <2>1. PICK g \in Run : g = [f EXCEPT !.at = "source1", !.live = "none"]
    BY DEF Run, Places
  <2>2. g.at = "source1" /\ g.list = f.list /\ g.kept = f.kept /\ g.mode = f.mode
    BY <2>1 DEF Run
  <2>3. Good(g) /\ Watched(g)'
    BY <2>2, EmptySeq DEF Good, BlockPlaces, NoLists, SomeEligible, Watched, Attends
  <2>4. Set(g) /\ UNCHANGED <<blocks, modeStopped, timer>>
    BY <1>1, <2>1 DEF Handle
  <2>5. SharedType' /\ runs' = runs
    BY <2>4, RestShared DEF LoopIInv, SharedType, Rest
  <2> QED BY <2>1, <2>3, <2>4, <2>5, SetStep DEF LoopIInv, StackInv
<1>2. CASE f.live # "source1"
  <2>1. PICK g \in Run : g = [f EXCEPT !.live = "none"]
    BY DEF Run
  <2>2. NoLists(g)
    BY <2>1 DEF NoLists, Run
  <2>3. DoBlocks(g, 3)
    BY <1>2, <2>1 DEF Handle
  <2> QED BY <2>2, <2>3, DoBlocksStep
<1> QED BY <1>1, <1>2

LEMMA MsgReturnsInv == ASSUME LoopIInv, MsgReturns PROVE LoopIInv'
<1>0. stack # <<>> /\ Top \in Run /\ Good(Top) /\ Top.at = "woken" /\ Rest
  BY TopIs DEF MsgReturns, Rest
<1>1. CASE Top.poll
  <2>1. PICK f \in Run : f = [Top EXCEPT !.ignore = TRUE, !.poll = FALSE]
    BY <1>0 DEF Run
  <2>2. NoLists(f)
    BY <1>0, <2>1 DEF Run, Good, BlockPlaces, NoLists
  <2>3. Handle(f)
    BY <1>1, <2>1 DEF MsgReturns
  <2> QED BY <1>0, <2>2, <2>3, HandleStep
<1>2. CASE ~Top.poll
  <2>1. PICK f \in Run : f = [Top EXCEPT !.ignore = TRUE, !.at = "after"]
    BY <1>0 DEF Run, Places
  <2>2. f.at = "after" /\ f.list = Top.list /\ f.kept = Top.kept /\ f.mode = Top.mode
    BY <1>0, <2>1 DEF Run
  <2>3. Good(f) /\ Watched(f)'
    BY <1>0, <2>2 DEF Good, BlockPlaces, Watched, Attends
  <2>4. Set(f) /\ UNCHANGED <<blocks, modeStopped, timer>>
    BY <1>2, <2>1 DEF MsgReturns
  <2>5. SharedType' /\ runs' = runs
    BY <1>0, <2>4, RestShared DEF LoopIInv, SharedType, Rest
  <2> QED BY <1>0, <2>1, <2>3, <2>4, <2>5, SetStep DEF LoopIInv, StackInv
<1> QED BY <1>1, <1>2

LEMMA AfterWaitingInv == ASSUME LoopIInv, AfterWaiting PROVE LoopIInv'
<1>1. PICK f \in Run : f = Top
  BY TopIs DEF AfterWaiting
<1>2. stack # <<>> /\ f.at = "after" /\ Good(f) /\ Handle(f) /\ Rest
  BY <1>1, TopIs DEF AfterWaiting, Rest
<1>3. NoLists(f)
  BY <1>2 DEF Good, BlockPlaces, NoLists
<1> QED BY <1>2, <1>3, HandleStep

LEMMA Source1Inv == ASSUME LoopIInv, Source1 PROVE LoopIInv'
<1>0. stack # <<>> /\ Top \in Run /\ Good(Top) /\ Top.at = "source1"
  BY TopIs DEF Source1
<1>1. PICK f \in Run : f = [Top EXCEPT !.handled = TRUE, !.at = "performed"]
  BY <1>0 DEF Run, Places
<1>2. f.at = "performed" /\ f.list = Top.list /\ f.kept = Top.kept /\ f.mode = Top.mode
  BY <1>0, <1>1 DEF Run
<1>3. Good(f) /\ Watched(f)' /\ Callout(f)
  BY <1>0, <1>1, <1>2 DEF Good, Watched, Attends, BlockPlaces, Source1
<1>4. SharedType'
  BY DEF Source1, LoopIInv, SharedType, sources, ports, timeout
<1> QED BY <1>0, <1>2, <1>3, <1>4, CalloutStep

LEMMA AfterSource1Inv == ASSUME LoopIInv, AfterSource1 PROVE LoopIInv'
<1>1. PICK f \in Run : f = Top
  BY TopIs DEF AfterSource1
<1>2. stack # <<>> /\ f.at = "performed" /\ Good(f) /\ DoBlocks(f, 3) /\ Rest
  BY <1>1, TopIs DEF AfterSource1, Rest
<1>3. NoLists(f)
  BY <1>2 DEF Good, BlockPlaces, NoLists
<1> QED BY <1>2, <1>3, DoBlocksStep

\* A call of a client, or the limit of a run, is announced, and the runs stay.
LEMMA AnnouncedStep ==
    ASSUME LoopIInv, UNCHANGED <<stack, runs>>, Announced' PROVE StackInv'
<1>1. StackType' /\ Frames'
  BY DEF LoopIInv, StackType, Frames
<1>2. Top' = Top
  BY DEF Top
<1> QED BY <1>1, <1>2 DEF StackInv, Watch, Watched

LEMMA CallCovered ==
    ASSUME SharedType, NEW c \in Clients, NEW k, Call(c, k, "wake")
    PROVE  /\ Announced' /\ UNCHANGED runs
           /\ calls' \in 0 .. MaxCalls /\ calls' = calls + 1
           /\ todo' \in [Clients -> {"idle", "wake", "remove"}]
<1>1. calls \in 0 .. MaxCalls /\ MaxCalls \in Nat /\ calls < MaxCalls /\ calls' = calls + 1
  BY RunLoopAssumption DEF RunLoopAssumption, SharedType, Call
<1>2. todo' = [todo EXCEPT ![c] = "wake"] /\ todo \in [Clients -> {"idle", "wake", "remove"}]
  BY DEF SharedType, Call
<1>3. todo'[c] = "wake"
  BY <1>2
<1> QED BY <1>1, <1>2, <1>3 DEF Announced, WakeupOwed, Call

LEMMA PerformBlockInv == ASSUME LoopIInv, NEW c \in Clients, PerformBlock(c) PROVE LoopIInv'
<1>0. SharedType /\ Call(c, "block", "wake")
  BY DEF LoopIInv, PerformBlock
<1>1. /\ Announced' /\ UNCHANGED runs /\ calls' \in 0 .. MaxCalls /\ calls' = calls + 1
      /\ todo' \in [Clients -> {"idle", "wake", "remove"}]
  BY <1>0, CallCovered
<1>2. calls \in 0 .. MaxCalls /\ MaxCalls \in Nat /\ calls + 1 \in 1 .. MaxCalls
  BY <1>0, <1>1, RunLoopAssumption DEF RunLoopAssumption, SharedType
<1>3. blocks' \in Seq(Block)
  <2>1. PICK ms \in BlockModes : blocks' = Append(blocks, [id |-> calls + 1, modes |-> ms])
    BY DEF PerformBlock
  <2>2. ms \in SUBSET Modes
    BY RunLoopAssumption DEF RunLoopAssumption
  <2>3. [id |-> calls + 1, modes |-> ms] \in Block
    BY <1>2, <2>2 DEF Block
  <2>4. blocks \in Seq(Block)
    BY <1>0 DEF SharedType
  <2> QED BY <2>1, <2>3, <2>4, AppendProperties
<1>4. port1' \in 0 .. calls'
  BY <1>0, <1>1, <1>2 DEF SharedType, PerformBlock, ports
<1>5. SharedType'
  BY <1>0, <1>1, <1>3, <1>4 DEF SharedType, PerformBlock, Call, sources, ports, timeout
<1>6. UNCHANGED <<stack, runs>>
  BY <1>1 DEF PerformBlock
<1> QED BY <1>1, <1>5, <1>6, AnnouncedStep DEF LoopIInv, StackInv

LEMMA SourceSignalInv == ASSUME LoopIInv, NEW c \in Clients, SourceSignal(c) PROVE LoopIInv'
<1>0. SharedType /\ Call(c, "signal", "wake")
  BY DEF LoopIInv, SourceSignal
<1>1. /\ Announced' /\ UNCHANGED runs /\ calls' \in 0 .. MaxCalls /\ calls' = calls + 1
      /\ todo' \in [Clients -> {"idle", "wake", "remove"}]
  BY <1>0, CallCovered
<1>2. calls \in 0 .. MaxCalls /\ MaxCalls \in Nat
  BY <1>0, RunLoopAssumption DEF RunLoopAssumption, SharedType
<1>3. port1' \in 0 .. calls'
  BY <1>0, <1>1, <1>2 DEF SharedType, SourceSignal, ports
<1>4. SharedType'
  BY <1>0, <1>1, <1>3 DEF SharedType, SourceSignal, Call, ports, timeout
<1>5. UNCHANGED <<stack, runs>>
  BY <1>1 DEF SourceSignal
<1> QED BY <1>1, <1>4, <1>5, AnnouncedStep DEF LoopIInv, StackInv

\* What does not concern what the innermost run watches leaves it as it is.
LEMMA UnconcernedStep ==
    ASSUME LoopIInv, UNCHANGED <<stack, runs>>,
           UNCHANGED <<blocks, modeStopped, term>>, Collected' \subseteq Collected,
           Announced => Announced'
    PROVE  StackInv'
<1>1. StackType' /\ Frames'
  BY DEF LoopIInv, StackType, Frames
<1>2. Top' = Top
  BY DEF Top
<1>3. ASSUME stack # <<>> PROVE Watched(Top)'
  BY <1>2, <1>3 DEF LoopIInv, Watch, Watched, Attends, Stopped
<1> QED BY <1>1, <1>3 DEF StackInv, Watch

LEMMA SendInv == ASSUME LoopIInv, NEW c \in Clients, Send(c) PROVE LoopIInv'
<1>0. SharedType /\ Call(c, "send", "idle")
  BY DEF LoopIInv, Send
<1>1. calls \in 0 .. MaxCalls /\ MaxCalls \in Nat /\ calls < MaxCalls /\ calls' = calls + 1
  BY <1>0, RunLoopAssumption DEF RunLoopAssumption, SharedType, Call
<1>2. port1' \in 0 .. calls' /\ calls' \in 0 .. MaxCalls
  BY <1>0, <1>1 DEF SharedType, Send
<1>3. todo' = [todo EXCEPT ![c] = "idle"] /\ todo[c] = "idle"
      /\ todo \in [Clients -> {"idle", "wake", "remove"}]
  BY <1>0 DEF SharedType, Call
<1>4. todo' = todo
  BY <1>3
<1>5. SharedType'
  BY <1>0, <1>2, <1>4 DEF SharedType, Send, Call, sources, timeout
<1>6. Announced' = Announced /\ Collected' = Collected
  BY <1>4 DEF Announced, WakeupOwed, Collected, Send, Call, sources, timeout
<1>7. UNCHANGED <<stack, runs>> /\ UNCHANGED <<blocks, modeStopped, term>>
  BY DEF Send, Call, timeout
<1> QED BY <1>5, <1>6, <1>7, UnconcernedStep DEF LoopIInv, StackInv

LEMMA StopInv == ASSUME LoopIInv, NEW c \in Clients, Stop(c) PROVE LoopIInv'
<1>0. SharedType
  BY DEF LoopIInv
<1>1. CASE stack = <<>>
  <2>1. Call(c, "stop", "idle") /\ stack' = stack
    BY <1>1 DEF Stop
  <2>2. calls \in 0 .. MaxCalls /\ MaxCalls \in Nat /\ calls < MaxCalls /\ calls' = calls + 1
    BY <1>0, <2>1, RunLoopAssumption DEF RunLoopAssumption, SharedType, Call
  <2>3. todo' = [todo EXCEPT ![c] = "idle"] /\ todo \in [Clients -> {"idle", "wake", "remove"}]
    BY <1>0, <2>1 DEF SharedType, Call
  <2>4. todo' \in [Clients -> {"idle", "wake", "remove"}]
    BY <2>3
  <2>5. port1' \in 0 .. calls' /\ calls' \in 0 .. MaxCalls
    BY <1>0, <2>2 DEF SharedType, Stop, ports
  <2>6. SharedType'
    BY <1>0, <2>1, <2>4, <2>5 DEF SharedType, Stop, Call, sources, ports, timeout
  <2>7. StackType' /\ Frames' /\ Watch'
    BY <1>1, <2>1 DEF LoopIInv, StackType, Frames, Watch, Call
  <2> QED BY <2>6, <2>7 DEF LoopIInv
<1>2. CASE stack # <<>>
  <2>1. Call(c, "stop", "wake") /\ Set([Top EXCEPT !.stopped = TRUE])
    BY <1>2 DEF Stop
  <2>2. /\ Announced' /\ UNCHANGED runs /\ calls' \in 0 .. MaxCalls /\ calls' = calls + 1
        /\ todo' \in [Clients -> {"idle", "wake", "remove"}]
    BY <1>0, <2>1, CallCovered
  <2>3. PICK f \in Run : f = [Top EXCEPT !.stopped = TRUE]
    BY <1>2, TopIs DEF Run
  <2>4. /\ f.at = Top.at /\ f.ignore = Top.ignore /\ f.handled = Top.handled /\ f.poll = Top.poll
        /\ f.robbed = Top.robbed /\ f.mode = Top.mode /\ f.list = Top.list /\ f.kept = Top.kept
    BY <1>2, <2>3, TopIs DEF Run
  <2>5. Good(f) /\ Watched(f)'
    BY <1>2, <2>2, <2>4, TopIs DEF Good, Watched
  <2>6. calls \in 0 .. MaxCalls /\ MaxCalls \in Nat
    BY <1>0, RunLoopAssumption DEF RunLoopAssumption, SharedType
  <2>7. port1' \in 0 .. calls'
    BY <1>0, <2>2, <2>6 DEF SharedType, Stop, ports
  <2>8. SharedType'
    BY <1>0, <2>1, <2>2, <2>7 DEF SharedType, Stop, Call, sources, ports, timeout
  <2> QED BY <1>2, <2>1, <2>2, <2>3, <2>5, <2>8, SetStep DEF LoopIInv, StackInv
<1> QED BY <1>1, <1>2

LEMMA StopModeInv == ASSUME LoopIInv, NEW c \in Clients, StopMode(c) PROVE LoopIInv'
<1>0. SharedType /\ Call(c, "stopMode", "wake")
  BY DEF LoopIInv, StopMode
<1>1. /\ Announced' /\ UNCHANGED runs /\ calls' \in 0 .. MaxCalls /\ calls' = calls + 1
      /\ todo' \in [Clients -> {"idle", "wake", "remove"}]
  BY <1>0, CallCovered
<1>2. calls \in 0 .. MaxCalls /\ MaxCalls \in Nat
  BY <1>0, RunLoopAssumption DEF RunLoopAssumption, SharedType
<1>3. port1' \in 0 .. calls'
  BY <1>0, <1>1, <1>2 DEF SharedType, StopMode, ports
<1>4. modeStopped' \in [Modes -> BOOLEAN]
  BY <1>0 DEF SharedType, StopMode
<1>5. SharedType'
  BY <1>0, <1>1, <1>3, <1>4 DEF SharedType, StopMode, Call, sources, ports, timeout
<1>6. UNCHANGED <<stack, runs>>
  BY <1>1 DEF StopMode
<1> QED BY <1>1, <1>5, <1>6, AnnouncedStep DEF LoopIInv, StackInv

LEMMA SourceInvalidateInv == ASSUME LoopIInv, NEW c \in Clients, SourceInvalidate(c) PROVE LoopIInv'
<1>0. SharedType /\ Call(c, "invalidate", "remove")
  BY DEF LoopIInv, SourceInvalidate
<1>1. PICK s \in valid : valid' = valid \ {s} /\ signaled' = signaled \ {s}
  BY DEF SourceInvalidate
<1>2. calls \in 0 .. MaxCalls /\ MaxCalls \in Nat /\ calls < MaxCalls /\ calls' = calls + 1
  BY <1>0, RunLoopAssumption DEF RunLoopAssumption, SharedType, Call
<1>3. port1' \in 0 .. calls' /\ calls' \in 0 .. MaxCalls
  BY <1>0, <1>2 DEF SharedType, SourceInvalidate, ports
<1>4. /\ todo' = [todo EXCEPT ![c] = "remove"] /\ todo[c] = "idle"
      /\ todo \in [Clients -> {"idle", "wake", "remove"}]
  BY <1>0 DEF SharedType, Call
<1>5. todo' \in [Clients -> {"idle", "wake", "remove"}] /\ \A d \in Clients : todo[d] = "wake" => todo'[d] = "wake"
  BY <1>4
<1>6. SharedType'
  BY <1>0, <1>1, <1>3, <1>5 DEF SharedType, SourceInvalidate, Call, ports, timeout
<1>7. (Announced => Announced') /\ Collected' \subseteq Collected
  BY <1>1, <1>5 DEF Announced, WakeupOwed, Collected, SourceInvalidate, Call, ports, timeout
<1>8. UNCHANGED <<stack, runs>> /\ UNCHANGED <<blocks, modeStopped, term>>
  BY DEF SourceInvalidate, Call, timeout
<1> QED BY <1>6, <1>7, <1>8, UnconcernedStep DEF LoopIInv, StackInv

LEMMA RemoveSourceInv == ASSUME LoopIInv, NEW c \in Clients, RemoveSource(c) PROVE LoopIInv'
<1>0. SharedType
  BY DEF LoopIInv
<1>1. PICK s \in members \ valid : members' = members \ {s}
  BY DEF RemoveSource
<1>2. /\ todo' = [todo EXCEPT ![c] = "idle"] /\ todo[c] = "remove"
      /\ todo \in [Clients -> {"idle", "wake", "remove"}]
  BY <1>0 DEF SharedType, RemoveSource
<1>3. todo' \in [Clients -> {"idle", "wake", "remove"}] /\ \A d \in Clients : todo[d] = "wake" => todo'[d] = "wake"
  BY <1>2
<1>4. SharedType'
  BY <1>0, <1>1, <1>3 DEF SharedType, RemoveSource, ports, timeout
<1>5. (Announced => Announced') /\ Collected' \subseteq Collected
  BY <1>1, <1>3 DEF Announced, WakeupOwed, Collected, RemoveSource, ports, timeout
<1>6. UNCHANGED <<stack, runs>> /\ UNCHANGED <<blocks, modeStopped, term>>
  BY DEF RemoveSource, timeout
<1> QED BY <1>4, <1>5, <1>6, UnconcernedStep DEF LoopIInv, StackInv

LEMMA LimitPassesInv == ASSUME LoopIInv, NEW r \in Runs, LimitPasses(r) PROVE LoopIInv'
<1>1. passed' \in [Runs -> BOOLEAN]
  BY DEF LoopIInv, SharedType, LimitPasses
<1>2. SharedType'
  BY <1>1 DEF LoopIInv, SharedType, LimitPasses, sources, ports
<1>3. UNCHANGED <<stack, runs>> /\ UNCHANGED <<blocks, modeStopped, term>> /\ Announced' = Announced
      /\ Collected' = Collected
  BY DEF LimitPasses, Announced, WakeupOwed, Collected, sources, ports
<1> QED BY <1>2, <1>3, UnconcernedStep DEF LoopIInv, StackInv

LEMMA TimeoutInv == ASSUME LoopIInv, NEW r \in Runs, Timeout(r) PROVE LoopIInv'
<1>0. SharedType /\ timer' = [timer EXCEPT ![r] = "wake"] /\ term' = [term EXCEPT ![r] = TRUE]
  BY DEF LoopIInv, Timeout
<1>1. /\ timer' \in [Runs -> {"none", "armed", "wake"}] /\ timer'[r] = "wake"
      /\ term' \in [Runs -> BOOLEAN]
  BY <1>0 DEF SharedType
<1>2. SharedType'
  BY <1>0, <1>1 DEF SharedType, Timeout, sources, ports
<1>3. Announced' /\ UNCHANGED <<stack, runs>>
  BY <1>1 DEF Announced, WakeupOwed, Timeout
<1> QED BY <1>2, <1>3, AnnouncedStep DEF LoopIInv, StackInv

\* A wakeup is ignored only where the run looks at everything again.
LEMMA WakeUpStep ==
    ASSUME LoopIInv, WakeUp, UNCHANGED <<stack, blocks, sources, modeStopped, term, runs>>
    PROVE  StackInv'
<1>1. StackType' /\ Frames'
  BY DEF LoopIInv, StackType, Frames
<1>2. Top' = Top /\ Collected' = Collected
  BY DEF Top, Collected, sources
<1>3. ASSUME stack # <<>> PROVE Watched(Top)'
  <2>1. CASE Attends(Top)
    <3>1. ~Top.ignore
      BY <1>3, <2>1, TopIs DEF Good, Attends
    <3>2. Announced'
      BY <3>1 DEF WakeUp, Announced
    <3> QED BY <1>2, <3>2 DEF Watched
  <2>2. CASE ~Attends(Top)
    BY <1>2, <2>2 DEF Watched, Attends
  <2> QED BY <2>1, <2>2
<1> QED BY <1>1, <1>3 DEF StackInv, Watch

LEMMA TimeoutWakesInv == ASSUME LoopIInv, NEW r \in Runs, TimeoutWakes(r) PROVE LoopIInv'
<1>0. SharedType /\ timer' = [timer EXCEPT ![r] = "none"] /\ WakeUp
  BY DEF LoopIInv, TimeoutWakes
<1>1. timer' \in [Runs -> {"none", "armed", "wake"}]
  BY <1>0 DEF SharedType
<1>2. wakeUpPort' \in BOOLEAN /\ port1' = port1
  BY <1>0 DEF WakeUp
<1>3. SharedType'
  BY <1>0, <1>1, <1>2 DEF SharedType, TimeoutWakes, sources
<1> QED BY <1>0, <1>3, WakeUpStep DEF LoopIInv, StackInv, TimeoutWakes

LEMMA WakesUpInv == ASSUME LoopIInv, NEW c \in Clients, WakesUp(c) PROVE LoopIInv'
<1>0. SharedType /\ todo' = [todo EXCEPT ![c] = "idle"] /\ WakeUp
  BY DEF LoopIInv, WakesUp
<1>1. todo' \in [Clients -> {"idle", "wake", "remove"}]
  BY <1>0 DEF SharedType
<1>2. wakeUpPort' \in BOOLEAN /\ port1' = port1
  BY <1>0 DEF WakeUp
<1>3. SharedType'
  BY <1>0, <1>1, <1>2 DEF SharedType, WakesUp, sources, timeout
<1>4. UNCHANGED <<stack, blocks, sources, modeStopped, term, runs>>
  BY DEF WakesUp, timeout
<1> QED BY <1>0, <1>3, <1>4, WakeUpStep DEF LoopIInv, StackInv

-----------------------------------------------------------------------------
LEMMA LoopInitInv == LoopInit => LoopIInv
<1> SUFFICES ASSUME LoopInit PROVE LoopIInv
  OBVIOUS
<1>1. StackType /\ Frames /\ Watch
  BY RunLoopAssumption, EmptySeq DEF RunLoopAssumption, LoopInit, StackType, Frames, Watch
<1>2. SharedType
  <2>1. MaxCalls \in Nat /\ calls = 0 /\ port1 = 0 /\ blocks \in Seq(Block)
    BY RunLoopAssumption, EmptySeq DEF RunLoopAssumption, LoopInit
  <2>2. calls \in 0 .. MaxCalls /\ port1 \in 0 .. calls
    BY <2>1
  <2> QED BY <2>1, <2>2 DEF LoopInit, SharedType
<1> QED BY <1>1, <1>2 DEF LoopIInv

LEMMA LoopNextInv == LoopIInv /\ [LoopNext]_loopVars => LoopIInv'
<1> SUFFICES ASSUME LoopIInv, [LoopNext]_loopVars PROVE LoopIInv'
  OBVIOUS
<1>1. CASE UNCHANGED loopVars
  BY <1>1 DEF loopVars, sources, ports, timeout, LoopIInv, StackType, SharedType, Frames, Watch,
              Watched, Attends, Stopped, Announced, WakeupOwed, Collected, Top
<1>2. CASE Start
  BY <1>2, StartInv
<1>3. CASE LoopStep
  BY <1>3, BeginInv, PopInv, BeforeSourcesInv, Source0Inv, AfterSources0Inv, ServiceMachPortInv,
     MsgReturnsInv, AfterWaitingInv, Source1Inv, AfterSource1Inv, RunBlockInv, PutBackInv
     DEF LoopStep
<1>4. ASSUME NEW r \in Runs, LimitPasses(r) \/ TimerStep(r) PROVE LoopIInv'
  BY <1>4, LimitPassesInv, TimeoutInv, TimeoutWakesInv DEF TimerStep
<1>5. ASSUME NEW c \in Clients, ClientCall(c) \/ WakesUp(c) \/ RemoveSource(c) PROVE LoopIInv'
  BY <1>5, PerformBlockInv, SourceSignalInv, SendInv, StopInv, StopModeInv, SourceInvalidateInv,
     WakesUpInv, RemoveSourceInv DEF ClientCall
<1> QED BY <1>1, <1>2, <1>3, <1>4, <1>5 DEF LoopNext

\* A run that is about to sleep has nothing to do, finds a message or is owed a
\* wakeup: the flag that makes CFRunLoopWakeUp ignore wakeups is set only while
\* the loop is going to look at everything again.
THEOREM NoLostWakeupHolds == LoopSpec => []NoLostWakeup
<1>1. LoopIInv => NoLostWakeup
  <2> SUFFICES ASSUME LoopIInv, stack # <<>>, Top.at = "wait", ~Top.poll, HasWork(Top)
               PROVE  Live # {} \/ WakeupOwed
    BY DEF NoLostWakeup
  <2>1. Attends(Top)
    BY TopIs DEF Good, Attends
  <2>2. HasWork(Top) => Announced
    BY <2>1, TopIs DEF Watched, HasWork, Stopped, SomeEligible
  <2> QED BY <2>2 DEF Announced, Live
<1> QED BY <1>1, LoopInitInv, LoopNextInv, PTL DEF LoopSpec

-----------------------------------------------------------------------------
(* The order of the blocks.                                                 *)

\* The blocks of a sequence, by the calls that posted them.
Ids(s) == {s[i].id : i \in 1 .. Len(s)}

\* No block is posted by a call that has not been made yet.
Posted == /\ \A x \in Ids(blocks) : x <= calls
          /\ \A i \in 1 .. Len(stack) : \A x \in Ids(Held(stack[i])) : x <= calls

InOrder == PendingInOrder /\ Posted

LEMMA EmptyIds == Ids(<<>>) = {} /\ Increasing(<<>>)
BY EmptySeq DEF Ids, Increasing

LEMMA PrecedeIds ==
    ASSUME NEW s, NEW t
    PROVE  Precede(s, t) <=> \A x \in Ids(s), y \in Ids(t) : x < y
BY DEF Precede, Ids

\* What is in a concatenation, and when its blocks are in order.
LEMMA ConcatOrder ==
    ASSUME NEW s \in Seq(Block), NEW t \in Seq(Block)
    PROVE  /\ s \o t \in Seq(Block) /\ Ids(s \o t) = Ids(s) \cup Ids(t)
           /\ Increasing(s \o t) <=> Increasing(s) /\ Increasing(t) /\ Precede(s, t)
<1>1. /\ s \o t \in Seq(Block) /\ Len(s \o t) = Len(s) + Len(t)
      /\ Len(s) \in Nat /\ Len(t) \in Nat
      /\ \A i \in 1 .. Len(s) + Len(t) :
             (s \o t)[i] = IF i <= Len(s) THEN s[i] ELSE t[i - Len(s)]
  BY ConcatProperties, LenProperties
<1>2. \A i \in 1 .. Len(s) : i \in 1 .. Len(s \o t) /\ (s \o t)[i] = s[i]
  BY <1>1
<1>3. \A j \in 1 .. Len(t) : Len(s) + j \in 1 .. Len(s \o t) /\ (s \o t)[Len(s) + j] = t[j]
  BY <1>1
<1>4. \A i \in 1 .. Len(s \o t) : i \in 1 .. Len(s) \/ (i - Len(s) \in 1 .. Len(t)
                                                        /\ (s \o t)[i] = t[i - Len(s)])
  BY <1>1
<1> DEFINE u == s \o t
<1>5. Ids(u) = Ids(s) \cup Ids(t)
  <2> HIDE DEF u
  <2>1. \A x \in Ids(u) : x \in Ids(s) \cup Ids(t)
    BY <1>2, <1>4 DEF Ids, u
  <2>2. Ids(s) \subseteq Ids(u) /\ Ids(t) \subseteq Ids(u)
    BY <1>2, <1>3 DEF Ids, u
  <2> QED BY <2>1, <2>2
<1>6. ASSUME Increasing(u) PROVE Increasing(s) /\ Increasing(t) /\ Precede(s, t)
  <2> HIDE DEF u
  <2>1. Increasing(s)
    BY <1>2, <1>6 DEF Increasing, u
  <2>2. Increasing(t)
    <3> SUFFICES ASSUME NEW i \in 1 .. Len(t), NEW j \in 1 .. Len(t), i < j PROVE t[i].id < t[j].id
      BY DEF Increasing
    <3>1. Len(s) + i < Len(s) + j
      BY <1>1
    <3> QED BY <1>3, <1>6, <3>1 DEF Increasing, u
  <2>3. Precede(s, t)
    <3> SUFFICES ASSUME NEW i \in 1 .. Len(s), NEW j \in 1 .. Len(t) PROVE s[i].id < t[j].id
      BY DEF Precede
    <3>1. i < Len(s) + j
      BY <1>1
    <3> QED BY <1>2, <1>3, <1>6, <3>1 DEF Increasing, u
  <2> QED BY <2>1, <2>2, <2>3
<1>7. ASSUME Increasing(s), Increasing(t), Precede(s, t) PROVE Increasing(u)
  <2> SUFFICES ASSUME NEW i \in 1 .. Len(u), NEW j \in 1 .. Len(u), i < j PROVE u[i].id < u[j].id
    BY DEF Increasing
  <2>1. CASE j \in 1 .. Len(s)
    <3>1. i \in 1 .. Len(s)
      BY <1>1, <2>1
    <3> QED BY <1>2, <1>7, <2>1, <3>1 DEF Increasing
  <2>2. CASE j \notin 1 .. Len(s) /\ i \in 1 .. Len(s)
    BY <1>2, <1>4, <1>7, <2>2 DEF Precede
  <2>3. CASE j \notin 1 .. Len(s) /\ i \notin 1 .. Len(s)
    <3>1. i - Len(s) < j - Len(s)
      BY <1>1
    <3> QED BY <1>4, <1>7, <2>3, <3>1 DEF Increasing
  <2> QED BY <2>1, <2>2, <2>3
<1> QED BY <1>1, <1>5, <1>6, <1>7

\* InOrder, of the state after a step.
LEMMA InOrderNext ==
    ASSUME Increasing(blocks'), \A x \in Ids(blocks') : x <= calls',
           \A i \in 1 .. Len(stack') :
              /\ Increasing(Held(stack'[i])) /\ Precede(Held(stack'[i]), blocks')
              /\ \A x \in Ids(Held(stack'[i])) : x <= calls',
           \A i \in 1 .. Len(stack') : \A j \in i + 1 .. Len(stack') :
              Precede(Held(stack'[i]), Held(stack'[j]))
    PROVE  InOrder'
<1>1. PendingInOrder'
  BY DEF PendingInOrder, Increasing, Precede, Held
<1>2. Posted'
  BY DEF Posted, Ids, Held
<1> QED BY <1>1, <1>2 DEF InOrder

\* The innermost run, which now holds h, moves, or a callout runs the loop again.
LEMMA StackOrder ==
    ASSUME StackType, InOrder, stack # <<>>, blocks \in Seq(Block), calls' = calls,
           blocks' \in Seq(Block), NEW h \in Seq(Block),
           stack' \in Seq(Run), Len(stack') \in {Len(stack), Len(stack) + 1},
           \A i \in 1 .. Len(stack) - 1 : stack'[i] = stack[i],
           Held(stack'[Len(stack)]) = h,
           Len(stack') = Len(stack) + 1 => Held(stack'[Len(stack) + 1]) = <<>>,
           Increasing(h \o blocks'), Ids(h \o blocks') \subseteq Ids(Held(Top) \o blocks)
    PROVE  InOrder'
<1>1. Len(stack) \in Nat \ {0} /\ Top \in Run /\ Held(Top) \in Seq(Block)
  BY TopOf, ConcatProperties DEF Run, Held
<1>2. /\ Increasing(h) /\ Increasing(blocks') /\ Precede(h, blocks')
      /\ Ids(h) \cup Ids(blocks') \subseteq Ids(Held(Top)) \cup Ids(blocks)
  BY <1>1, ConcatOrder
<1> DEFINE top == Len(stack)
<1>3. \A i \in 1 .. top : \A x \in Ids(Held(stack[i])) :
          /\ \A y \in Ids(blocks) : x < y
          /\ \A j \in i + 1 .. top : \A y \in Ids(Held(stack[j])) : x < y
  BY PrecedeIds DEF InOrder, PendingInOrder
<1>4. \A i \in 1 .. top - 1 : \A x \in Ids(Held(stack'[i])) : \A y \in Ids(h) \cup Ids(blocks') : x < y
  BY <1>1, <1>2, <1>3 DEF Top
<1>5. ASSUME NEW i \in 1 .. top - 1, NEW j \in i + 1 .. top - 1
      PROVE  Precede(Held(stack'[i]), Held(stack'[j]))
  <2>1. i \in 1 .. Len(stack) /\ j \in i + 1 .. Len(stack) /\ j \in 1 .. Len(stack) - 1
    BY <1>1
  <2> QED BY <2>1 DEF InOrder, PendingInOrder
<1>6. \A i \in 1 .. top - 1 : Precede(Held(stack'[i]), h) /\ Precede(Held(stack'[i]), blocks')
  BY <1>4, PrecedeIds
<1>7. \A i \in 1 .. top - 1 : Increasing(Held(stack'[i]))
  BY <1>1 DEF InOrder, PendingInOrder
<1>8. /\ Increasing(<<>>) /\ Precede(<<>>, blocks')
      /\ \A s : Precede(s, <<>>)
  BY EmptyIds, PrecedeIds
<1>9. \A i \in 1 .. Len(stack') : i \in 1 .. top - 1 \/ i = top \/ (i = top + 1 /\ Len(stack') = top + 1)
  BY <1>1
<1>10. /\ \A i \in 1 .. Len(stack') :
              Increasing(Held(stack'[i])) /\ Precede(Held(stack'[i]), blocks')
       /\ \A i \in 1 .. Len(stack') : \A j \in i + 1 .. Len(stack') :
              Precede(Held(stack'[i]), Held(stack'[j]))
  <2>1. ASSUME NEW i \in 1 .. Len(stack')
        PROVE  Increasing(Held(stack'[i])) /\ Precede(Held(stack'[i]), blocks')
    BY <1>2, <1>6, <1>7, <1>8, <1>9
  <2>2. ASSUME NEW i \in 1 .. Len(stack'), NEW j \in i + 1 .. Len(stack')
        PROVE  Precede(Held(stack'[i]), Held(stack'[j]))
    <3>1. j \in 1 .. Len(stack') /\ i < j
      BY <1>1
    <3>2. CASE j = top + 1
      BY <1>1, <1>8, <1>9, <3>1, <3>2
    <3>3. CASE j = top
      BY <1>1, <1>6, <3>1, <3>3
    <3>4. CASE j \in 1 .. top - 1
      BY <1>1, <1>5, <3>1, <3>4
    <3> QED BY <1>9, <3>1, <3>2, <3>3, <3>4
  <2> QED BY <2>1, <2>2
<1>11. /\ \A x \in Ids(blocks') : x <= calls'
       /\ \A i \in 1 .. Len(stack') : \A x \in Ids(Held(stack'[i])) : x <= calls'
  <2>1. \A x \in Ids(h) \cup Ids(blocks') : x <= calls
    BY <1>1, <1>2 DEF InOrder, Posted, Top
  <2>2. \A i \in 1 .. top - 1 : \A x \in Ids(Held(stack'[i])) : x <= calls
    BY <1>1 DEF InOrder, Posted
  <2>3. \A i \in 1 .. Len(stack') : \A x \in Ids(Held(stack'[i])) : x <= calls
    BY <1>9, <2>1, <2>2, EmptyIds
  <2> QED BY <2>1, <2>3
<1> QED BY <1>2, <1>10, <1>11, InOrderNext

\* What a step makes of the lists of the innermost run, f being that run now.
KeepsLists(f) == \E g \in Run : Set(g) /\ g.list = f.list /\ g.kept = f.kept

LEMMA KeepsOrder ==
    ASSUME StackType, InOrder, stack # <<>>, blocks \in Seq(Block), calls' = calls,
           blocks' \in Seq(Block), NEW f \in Run, KeepsLists(f),
           Increasing(Held(f) \o blocks'),
           Ids(Held(f) \o blocks') \subseteq Ids(Held(Top) \o blocks)
    PROVE  InOrder'
<1>1. Len(stack) \in Nat \ {0} /\ stack \in Seq(Run)
  BY TopOf DEF StackType
<1>2. PICK g \in Run : Set(g) /\ g.list = f.list /\ g.kept = f.kept
  BY DEF KeepsLists
<1>3. /\ stack' \in Seq(Run) /\ Len(stack') = Len(stack)
      /\ \A i \in 1 .. Len(stack) : stack'[i] = IF i = Len(stack) THEN g ELSE stack[i]
  BY <1>1, <1>2, ExceptSeq DEF Set
<1>4. Held(f) \in Seq(Block) /\ Held(g) = Held(f)
  BY <1>2, ConcatProperties DEF Run, Held
<1>5. /\ \A i \in 1 .. Len(stack) - 1 : stack'[i] = stack[i]
      /\ stack'[Len(stack)] = g
  BY <1>1, <1>3
<1> QED BY <1>1, <1>3, <1>4, <1>5, StackOrder

\* What InOrder says of the innermost run, with what is pending.
LEMMA TopOrder ==
    ASSUME LoopIInv, InOrder, stack # <<>>
    PROVE  /\ Held(Top) \in Seq(Block) /\ blocks \in Seq(Block)
           /\ Increasing(Held(Top) \o blocks)
<1>1. Len(stack) \in Nat \ {0} /\ Top \in Run
  BY TopOf DEF LoopIInv
<1>2. Held(Top) \in Seq(Block) /\ blocks \in Seq(Block)
  BY <1>1, ConcatProperties DEF Run, Held, LoopIInv, SharedType
<1>3. Increasing(Held(Top)) /\ Precede(Held(Top), blocks) /\ Increasing(blocks)
  BY <1>1 DEF InOrder, PendingInOrder, Top
<1> QED BY <1>2, <1>3, ConcatOrder

\* A run that works on no list, or leaves its list and what is pending alone.
LEMMA UntouchedOrder ==
    ASSUME LoopIInv, InOrder, stack # <<>>, calls' = calls, UNCHANGED blocks,
           NEW f \in Run, KeepsLists(f), f.list = Top.list, f.kept = Top.kept
    PROVE  InOrder'
<1>1. Held(f) = Held(Top)
  BY DEF Held
<1> QED BY <1>1, TopOrder, KeepsOrder DEF LoopIInv

\* The steps that go on after the blocks.
LEMMA EndKeeps ==
    ASSUME NEW f \in Run, NEW p, EndIteration(f, p) PROVE KeepsLists(f)
<1>1. CASE Ends(f, p)
  <2> DEFINE s == TakesStop(f) /\ f.stopped
  <2>1. (~s) \in BOOLEAN
    BY DEF TakesStop
  <2>2. Set([Iterate(f) EXCEPT !.stopped = @ /\ ~s, !.ignore = TRUE, !.at = "exit"])
    BY <1>1 DEF EndIteration
  <2> HIDE DEF s
  <2>3. PICK g \in Run : g = [Iterate(f) EXCEPT !.stopped = @ /\ ~s, !.ignore = TRUE, !.at = "exit"]
    BY <2>1 DEF Run, Iterate, Places
  <2>4. g.list = f.list /\ g.kept = f.kept
    BY <2>3 DEF Run, Iterate
  <2> QED BY <2>2, <2>3, <2>4 DEF KeepsLists
<1>2. CASE ~Ends(f, p)
  <2>1. PICK g \in Run : g = Iterate(f)
    BY DEF Run, Iterate, Places
  <2>2. g.list = f.list /\ g.kept = f.kept
    BY <2>1 DEF Run, Iterate
  <2> QED BY <1>2, <2>1, <2>2 DEF KeepsLists, EndIteration
<1> QED BY <1>1, <1>2

LEMMA WaitKeeps ==
    ASSUME LoopIInv, NEW f \in Run, Set(BeforeWaiting(f)) \/ Set(CollectSources0(f))
    PROVE  KeepsLists(f)
<1>0. Collected \in SUBSET Sources /\ term[f.run] \in BOOLEAN
  BY DEF Collected, LoopIInv, SharedType, Run
<1>1. PICK g \in Run : g = BeforeWaiting(f)
  BY <1>0 DEF BeforeWaiting, Run, Places
<1>2. g.list = f.list /\ g.kept = f.kept
  BY <1>1 DEF BeforeWaiting, Run
<1>3. PICK h \in Run : h = [f EXCEPT !.coll = Collected, !.at = "sources"]
  BY <1>0 DEF Run, Places
<1>4. h.list = f.list /\ h.kept = f.kept
  BY <1>3 DEF Run
<1> QED BY <1>1, <1>2, <1>3, <1>4 DEF KeepsLists, CollectSources0

LEMMA ContinueKeeps ==
    ASSUME LoopIInv, NEW f \in Run, NEW k \in 1 .. 3, NEW p, Continue(f, k, p)
    PROVE  KeepsLists(f)
<1>1. CASE k = 1
  BY <1>1, WaitKeeps DEF Continue
<1>2. CASE k = 2
  BY <1>2, WaitKeeps DEF Continue
<1>3. CASE k = 3
  BY <1>3, EndKeeps DEF Continue
<1> QED BY <1>1, <1>2, <1>3

\* The pending blocks become the list of a run that has none.
LEMMA DoBlocksOrder ==
    ASSUME LoopIInv, InOrder, stack # <<>>, calls' = calls, NEW f \in Run, NEW k \in 1 .. 3,
           DoBlocks(f, k), NoLists(f), NoLists(Top)
    PROVE  InOrder'
<1>0. /\ Held(Top) = <<>> /\ Held(f) = <<>> /\ <<>> \in Seq(Block) /\ blocks \in Seq(Block)
      /\ Increasing(blocks) /\ \A s \in Seq(Block) : <<>> \o s = s /\ s \o <<>> = s
      /\ StackType
  BY EmptySeq, ConcatEmptySeq DEF NoLists, Held, InOrder, PendingInOrder, LoopIInv, SharedType
<1>1. CASE blocks = <<>> /\ Continue(f, k, <<>>) /\ UNCHANGED blocks
  <2>1. KeepsLists(f)
    BY <1>1, ContinueKeeps
  <2> QED BY <1>0, <1>1, <2>1, KeepsOrder
<1>2. CASE blocks' = <<>> /\ Set([f EXCEPT !.list = blocks, !.at = BlockPlace(k)])
  <2>0. BlockPlace(k) \in Places
    BY DEF Places
  <2>1. PICK g \in Run : g = [f EXCEPT !.list = blocks, !.at = BlockPlace(k)]
    BY <1>0, <2>0 DEF Run
  <2>2. g.list = blocks /\ g.kept = <<>> /\ Held(g) = blocks
    BY <1>0, <2>1 DEF Run, NoLists, Held
  <2>3. KeepsLists(g)
    BY <1>2, <2>1 DEF KeepsLists
  <2> QED BY <1>0, <1>2, <2>2, <2>3, KeepsOrder
<1> QED BY <1>1, <1>2 DEF DoBlocks

\* A callout: the run goes on as f, or runs the loop again.
LEMMA CalloutOrder ==
    ASSUME LoopIInv, InOrder, stack # <<>>, calls' = calls, UNCHANGED blocks,
           NEW f \in Run, Callout(f), Increasing(Held(f) \o blocks),
           Ids(Held(f) \o blocks) \subseteq Ids(Held(Top) \o blocks)
    PROVE  InOrder'
<1>0. StackType /\ blocks \in Seq(Block)
  BY DEF LoopIInv, SharedType
<1>1. CASE Set(f)
  <2>1. KeepsLists(f)
    BY <1>1 DEF KeepsLists
  <2> QED BY <1>0, <2>1, KeepsOrder
<1>2. CASE ~Set(f)
  <2>1. PICK g \in Run : g = [f EXCEPT !.robbed = f.at = "blocks1"]
    <3>1. (f.at = "blocks1") \in BOOLEAN
      OBVIOUS
    <3> QED BY <3>1 DEF Run
  <2>2. g.list = f.list /\ g.kept = f.kept
    BY <2>1 DEF Run
  <2>3. PICK m \in Modes : PushRun([stack EXCEPT ![Len(stack)] = g], m)
    BY <1>2, <2>1 DEF Callout
  <2>4. PICK k \in Run :
            /\ NoLists(k) /\ stack' \in Seq(Run) /\ Len(stack') = Len(stack) + 1
            /\ \A i \in 1 .. Len(stack) : stack'[i] = IF i = Len(stack) THEN g ELSE stack[i]
            /\ stack'[Len(stack) + 1] = k
    BY <1>0, <2>3, Pushed
  <2>5. Held(k) = <<>>
    BY <2>4, EmptySeq, ConcatEmptySeq DEF Held, NoLists
  <2>6. Len(stack) \in Nat \ {0}
    BY <1>0, TopOf
  <2>7. /\ \A i \in 1 .. Len(stack) - 1 : stack'[i] = stack[i]
        /\ stack'[Len(stack)] = g
    BY <2>4, <2>6
  <2>8. Held(f) \in Seq(Block) /\ Held(g) = Held(f)
    BY <2>2, ConcatProperties DEF Run, Held
  <2> QED BY <1>0, <2>4, <2>5, <2>7, <2>8, StackOrder
<1> QED BY <1>1, <1>2

\* The block that runs leaves the list, and those before it are kept.
LEMMA RunBlockOrder == ASSUME LoopIInv, InOrder, NEW k \in 1 .. 3, RunBlock(k) PROVE InOrder'
<1>0. stack # <<>> /\ Top \in Run /\ Top.list \in Seq(Block) /\ Top.kept \in Seq(Block)
      /\ calls' = calls /\ blocks' = blocks
  BY TopIs DEF RunBlock, Run
<1>1. PICK i \in 1 .. Len(Top.list) :
          Callout([Top EXCEPT !.kept = @ \o SubSeq(Top.list, 1, i - 1),
                              !.list = SubSeq(@, i + 1, Len(@))])
  BY DEF RunBlock
<1> DEFINE s == SubSeq(Top.list, 1, i - 1)
           b == SubSeq(Top.list, i, i)
           t == SubSeq(Top.list, i + 1, Len(Top.list))
<1>2. s \in Seq(Block) /\ t \in Seq(Block) /\ b \in Seq(Block)
  <2>1. Len(Top.list) \in Nat /\ \A j \in i .. i : Top.list[j] \in Block
    BY <1>0, ElementOfSeq, LenProperties
  <2>2. b \in Seq(Block)
    BY <2>1, SubSeqProperties
  <2> QED BY <1>0, <2>2, SubSeqs
<1>3. Top.list = s \o (b \o t)
  <2>1. Len(Top.list) \in Nat
    BY <1>0, LenProperties
  <2>2. b \o t = SubSeq(Top.list, i, Len(Top.list))
    BY <1>0, <2>1, ConcatAdjacentSubSeq
  <2>3. s \o SubSeq(Top.list, i - 1 + 1, Len(Top.list)) = SubSeq(Top.list, 1, Len(Top.list))
    <3>1. /\ 1 \in 1 .. Len(Top.list) + 1 /\ i - 1 \in 1 - 1 .. Len(Top.list)
          /\ Len(Top.list) \in i - 1 .. Len(Top.list)
      BY <2>1
    <3> QED BY <1>0, <3>1, ConcatAdjacentSubSeq
  <2>4. i - 1 + 1 = i
    BY <2>1
  <2> QED BY <1>0, <2>2, <2>3, <2>4, SubSeqFull
<1> HIDE DEF s, t, b
<1>4. PICK f \in Run : f = [Top EXCEPT !.kept = @ \o s, !.list = t]
  <2>1. Top.kept \o s \in Seq(Block)
    BY <1>0, <1>2, ConcatOrder
  <2> QED BY <1>0, <1>2, <2>1 DEF Run
<1>5. f.kept = Top.kept \o s /\ f.list = t /\ Callout(f)
  <2>1. f.kept = Top.kept \o s /\ f.list = t
    BY <1>0, <1>4 DEF Run
  <2> QED BY <1>1, <1>4, <2>1 DEF s, t
<1>6. /\ Ids(Held(f) \o blocks) \subseteq Ids(Held(Top) \o blocks)
      /\ Increasing(Held(f) \o blocks)
  <2>0. blocks \in Seq(Block)
    BY DEF LoopIInv, SharedType
  <2>1. PICK u \in Seq(Block) : /\ u = b \o t /\ Ids(u) = Ids(b) \cup Ids(t)
                                /\ Increasing(u) => Increasing(t)
    BY <1>2, ConcatOrder
  <2>2. /\ Ids(Top.list) = Ids(s) \cup Ids(b) \cup Ids(t)
        /\ Increasing(Top.list) => Increasing(s) /\ Increasing(t) /\ Precede(s, u)
    <3>1. Top.list = s \o u
      BY <1>3, <2>1
    <3>2. /\ Ids(s \o u) = Ids(s) \cup Ids(u)
          /\ Increasing(s \o u) => Increasing(s) /\ Increasing(u) /\ Precede(s, u)
      BY <1>2, ConcatOrder
    <3> QED BY <2>1, <3>1, <3>2
  <2>3. /\ Held(Top) \in Seq(Block) /\ Ids(Held(Top)) = Ids(Top.kept) \cup Ids(Top.list)
        /\ Increasing(Held(Top)) <=> Increasing(Top.kept) /\ Increasing(Top.list)
                                       /\ Precede(Top.kept, Top.list)
    BY <1>0, ConcatOrder DEF Held
  <2>4. /\ Ids(Held(Top) \o blocks) = Ids(Held(Top)) \cup Ids(blocks)
        /\ Increasing(Held(Top)) /\ Increasing(blocks) /\ Precede(Held(Top), blocks)
    BY <1>0, <2>0, <2>3, TopOrder, ConcatOrder
  <2>5. /\ f.kept \in Seq(Block) /\ Ids(f.kept) = Ids(Top.kept) \cup Ids(s)
        /\ Increasing(f.kept) <=> Increasing(Top.kept) /\ Increasing(s) /\ Precede(Top.kept, s)
    BY <1>0, <1>2, <1>5, ConcatOrder
  <2>6. /\ Held(f) \in Seq(Block) /\ Ids(Held(f)) = Ids(f.kept) \cup Ids(t)
        /\ Increasing(Held(f)) <=> Increasing(f.kept) /\ Increasing(t) /\ Precede(f.kept, t)
    BY <1>2, <1>5, <2>5, ConcatOrder DEF Held
  <2>7. Ids(Held(f)) \subseteq Ids(Held(Top))
    BY <2>2, <2>3, <2>5, <2>6
  <2>8. Precede(Top.kept, s) /\ Precede(f.kept, t)
    <3>1. Precede(Top.kept, Top.list) /\ Precede(s, u)
      BY <2>2, <2>3, <2>4
    <3>2. /\ \A x \in Ids(Top.kept), y \in Ids(Top.list) : x < y
          /\ \A x \in Ids(s), y \in Ids(u) : x < y
      BY <3>1, PrecedeIds
    <3>3. \A x \in Ids(f.kept), y \in Ids(t) : x < y
      BY <2>1, <2>2, <2>5, <3>2
    <3> QED BY <2>2, <3>2, <3>3, PrecedeIds
  <2>9. Precede(Held(f), blocks) /\ Increasing(Held(f))
    BY <2>2, <2>3, <2>4, <2>5, <2>6, <2>7, <2>8, PrecedeIds
  <2> QED BY <2>0, <2>4, <2>6, <2>7, <2>9, ConcatOrder
<1> QED BY <1>0, <1>5, <1>6, CalloutOrder

\* What was kept goes back before what came meanwhile.
LEMMA PutBackOrder == ASSUME LoopIInv, InOrder, NEW k \in 1 .. 3, PutBack(k) PROVE InOrder'
<1>0. stack # <<>> /\ Top \in Run /\ calls' = calls /\ StackType
  BY TopIs DEF PutBack, LoopIInv
<1>1. /\ blocks' = Held(Top) \o blocks
      /\ Continue([Top EXCEPT !.list = <<>>, !.kept = <<>>], k, blocks')
  BY DEF PutBack, Held
<1>2. PICK f \in Run : f = [Top EXCEPT !.list = <<>>, !.kept = <<>>]
  BY <1>0, EmptySeq DEF Run
<1>3. Held(f) = <<>> /\ \A s \in Seq(Block) : <<>> \o s = s
  <2>1. f.list = <<>> /\ f.kept = <<>>
    BY <1>0, <1>2 DEF Run
  <2> QED BY <2>1, EmptySeq, ConcatEmptySeq DEF Held
<1>4. KeepsLists(f)
  BY <1>1, <1>2, ContinueKeeps
<1>5. /\ blocks \in Seq(Block) /\ blocks' \in Seq(Block) /\ Increasing(blocks')
      /\ Held(Top) \in Seq(Block)
  BY <1>0, <1>1, TopOrder, ConcatOrder
<1> QED BY <1>0, <1>1, <1>3, <1>4, <1>5, KeepsOrder

LEMMA IdsInt == ASSUME NEW s \in Seq(Block) PROVE \A x \in Ids(s) : x \in Int
<1>1. \A i \in 1 .. Len(s) : s[i] \in Block
  BY ElementOfSeq
<1>2. \A b \in Block : b.id \in Int
  BY DEF Block
<1> QED BY <1>1, <1>2 DEF Ids

\* A new block is the last, and the newest.
LEMMA PerformBlockOrder ==
    ASSUME LoopIInv, InOrder, NEW c \in Clients, PerformBlock(c) PROVE InOrder'
<1>0. /\ stack' = stack /\ calls' = calls + 1 /\ calls \in Nat
      /\ calls < MaxCalls /\ MaxCalls \in Nat /\ blocks \in Seq(Block)
  BY RunLoopAssumption DEF RunLoopAssumption, PerformBlock, Call, LoopIInv, SharedType
<1>1. PICK b \in Block : b.id = calls + 1 /\ blocks' = Append(blocks, b)
  <2>1. PICK ms \in BlockModes : blocks' = Append(blocks, [id |-> calls + 1, modes |-> ms])
    BY DEF PerformBlock
  <2>2. ms \in SUBSET Modes /\ calls + 1 \in 1 .. MaxCalls
    BY <1>0, RunLoopAssumption DEF RunLoopAssumption
  <2>3. PICK b \in Block : b = [id |-> calls + 1, modes |-> ms]
    BY <2>2 DEF Block
  <2>4. b.id = calls + 1
    BY <2>3
  <2> QED BY <2>1, <2>3, <2>4
<1>2. /\ <<b>> \in Seq(Block) /\ Ids(<<b>>) = {calls + 1} /\ Increasing(<<b>>)
      /\ blocks' = blocks \o <<b>>
  <2>1. <<b>> \in Seq(Block) /\ Len(<<b>>) = 1 /\ <<b>>[1] = b
    OBVIOUS
  <2>2. Ids(<<b>>) = {calls + 1}
    BY <1>1, <2>1 DEF Ids
  <2>3. Increasing(<<b>>)
    BY <2>1 DEF Increasing
  <2>4. Append(blocks, b) = blocks \o <<b>>
    BY <1>0, AppendIsConcat
  <2> QED BY <1>1, <2>1, <2>2, <2>3, <2>4
<1>3. \A s : (\A x \in Ids(s) : x <= calls /\ x \in Int) => Precede(s, <<b>>)
  BY <1>0, <1>2, PrecedeIds
<1>4. \A s \in Seq(Block) : \A x \in Ids(s) : x \in Int
  BY IdsInt
<1>5. /\ Increasing(blocks') /\ Ids(blocks') = Ids(blocks) \cup {calls + 1}
  <2>1. Precede(blocks, <<b>>)
    BY <1>0, <1>3, <1>4 DEF InOrder, Posted
  <2> QED BY <1>0, <1>2, <2>1, ConcatOrder DEF InOrder, PendingInOrder
<1>6. ASSUME NEW i \in 1 .. Len(stack)
      PROVE  /\ Precede(Held(stack[i]), blocks')
             /\ \A x \in Ids(Held(stack[i])) : x <= calls + 1
  <2>1. Held(stack[i]) \in Seq(Block)
    <3>1. stack[i] \in Run
      BY ElementOfSeq DEF LoopIInv, StackType
    <3> QED BY <3>1, ConcatProperties DEF Run, Held
  <2>2. \A x \in Ids(Held(stack[i])) : x \in Int /\ x <= calls
    BY <1>4, <2>1 DEF InOrder, Posted
  <2>3. Precede(Held(stack[i]), blocks)
    BY DEF InOrder, PendingInOrder
  <2> QED BY <1>0, <1>5, <2>2, <2>3, PrecedeIds
<1>7. \A x \in Ids(blocks') : x <= calls + 1
  BY <1>0, <1>4, <1>5 DEF InOrder, Posted
<1>8. \A i \in 1 .. Len(stack) :
         /\ Increasing(Held(stack[i]))
         /\ \A j \in i + 1 .. Len(stack) : Precede(Held(stack[i]), Held(stack[j]))
  BY DEF InOrder, PendingInOrder
<1> QED BY <1>0, <1>5, <1>6, <1>7, <1>8, InOrderNext

\* Steps that change neither the stack nor what is pending.
LEMMA StayOrder ==
    ASSUME LoopIInv, InOrder, UNCHANGED <<stack, blocks>>, calls' \in {calls, calls + 1}
    PROVE  InOrder'
<1>0. calls \in Nat /\ blocks \in Seq(Block)
  BY RunLoopAssumption DEF RunLoopAssumption, LoopIInv, SharedType
<1>1. /\ Increasing(blocks)
      /\ \A i \in 1 .. Len(stack) :
            /\ Increasing(Held(stack[i])) /\ Precede(Held(stack[i]), blocks)
            /\ \A j \in i + 1 .. Len(stack) : Precede(Held(stack[i]), Held(stack[j]))
  BY DEF InOrder, PendingInOrder
<1>2. \A s \in Seq(Block) : \A x \in Ids(s) : x \in Int
  BY IdsInt
<1>3. \A i \in 1 .. Len(stack) : Held(stack[i]) \in Seq(Block)
  <2> SUFFICES ASSUME NEW i \in 1 .. Len(stack) PROVE Held(stack[i]) \in Seq(Block)
    OBVIOUS
  <2>1. stack[i] \in Run
    BY ElementOfSeq DEF LoopIInv, StackType
  <2> QED BY <2>1, ConcatProperties DEF Run, Held
<1>4. \A x \in Ids(blocks) : x \in Int /\ x <= calls
  BY <1>0, <1>2 DEF InOrder, Posted
<1>5. \A i \in 1 .. Len(stack) : \A x \in Ids(Held(stack[i])) : x \in Int /\ x <= calls
  BY <1>2, <1>3 DEF InOrder, Posted
<1>6. \A x \in Int : x <= calls => x <= calls'
  BY <1>0
<1> QED BY <1>1, <1>4, <1>5, <1>6, InOrderNext

LEMMA BeginOrder == ASSUME LoopIInv, InOrder, Begin PROVE InOrder'
<1>0. stack # <<>> /\ Top \in Run /\ calls' = calls /\ blocks' = blocks
  BY TopIs DEF Begin
<1>1. CASE Top.stopped \/ modeStopped[Top.mode]
  <2>1. PICK g \in Run : g = [Top EXCEPT !.stopped = FALSE, !.at = "exit"]
    BY <1>0 DEF Run, Places
  <2>2. g.list = Top.list /\ g.kept = Top.kept
    BY <1>0, <2>1 DEF Run
  <2>3. KeepsLists(g)
    BY <1>1, <2>1 DEF Begin, KeepsLists
  <2> QED BY <1>0, <2>2, <2>3, UntouchedOrder
<1>2. CASE ~(Top.stopped \/ modeStopped[Top.mode])
  <2>1. PICK g \in Run : g = Iterate(Top)
    BY <1>0 DEF Run, Iterate, Places
  <2>2. g.list = Top.list /\ g.kept = Top.kept
    BY <1>0, <2>1 DEF Run, Iterate
  <2>3. KeepsLists(g)
    BY <1>2, <2>1 DEF Begin, KeepsLists
  <2> QED BY <1>0, <2>2, <2>3, UntouchedOrder
<1> QED BY <1>1, <1>2

LEMMA StartOrder == ASSUME LoopIInv, InOrder, Start PROVE InOrder'
<1>1. PICK l \in Limits :
          stack' = Append(<<>>, [run |-> runs + 1, mode |-> Base, limit |-> l, at |-> "entry",
                               stopped |-> FALSE, ignore |-> FALSE, robbed |-> FALSE,
                               handled |-> FALSE, poll |-> FALSE, live |-> "none",
                               list |-> <<>>, kept |-> <<>>, coll |-> {}])
  BY DEF Start, PushRun
<1>2. Len(stack') = 1 /\ stack'[1].list = <<>> /\ stack'[1].kept = <<>>
  BY <1>1
<1>3. Held(stack'[1]) = <<>>
  BY <1>2, EmptySeq, ConcatEmptySeq DEF Held
<1>4. blocks' = blocks /\ calls' = calls
  BY DEF Start
<1>5. /\ Increasing(blocks) /\ Increasing(<<>>) /\ Precede(<<>>, blocks)
      /\ \A x \in Ids(blocks) : x <= calls
  BY EmptyIds, PrecedeIds DEF InOrder, PendingInOrder, Posted
<1>6. /\ \A i \in 1 .. Len(stack') : i = 1
      /\ \A i \in 1 .. Len(stack') : \A j \in i + 1 .. Len(stack') : FALSE
  BY <1>2
<1> QED BY <1>3, <1>4, <1>5, <1>6, EmptyIds, InOrderNext

LEMMA PopOrder == ASSUME LoopIInv, InOrder, Pop PROVE InOrder'
<1>1. Len(stack) \in Nat \ {0} /\ \A i \in 1 .. Len(stack) : stack[i] \in Run
  BY TopOf DEF LoopIInv, Pop
<1>2. /\ stack' = SubSeq(stack, 1, Len(stack) - 1) /\ blocks' = blocks /\ calls' = calls
  BY DEF Pop
<1>3. Len(stack') = Len(stack) - 1 /\ \A i \in 1 .. Len(stack') : stack'[i] = stack[i]
  <2> DEFINE k == Len(stack) - 1
  <2>1. k \in Nat /\ \A i \in 1 .. k : stack[i] \in Run
    BY <1>1
  <2> HIDE DEF k
  <2>2. /\ Len(SubSeq(stack, 1, k)) = IF 1 <= k THEN k - 1 + 1 ELSE 0
        /\ \A i \in 1 .. k - 1 + 1 : SubSeq(stack, 1, k)[i] = stack[1 + i - 1]
    BY <2>1, SubSeqProperties
  <2>3. stack' = SubSeq(stack, 1, k)
    BY <1>2 DEF k
  <2>4. Len(stack') = k /\ \A i \in 1 .. k : stack'[i] = stack[i]
    BY <2>1, <2>2, <2>3
  <2> QED BY <2>4 DEF k
<1>4. /\ \A i \in 1 .. Len(stack') : i \in 1 .. Len(stack)
      /\ \A i \in 1 .. Len(stack') : \A j \in i + 1 .. Len(stack') :
             j \in i + 1 .. Len(stack) /\ j \in 1 .. Len(stack')
  BY <1>1, <1>3
<1>5. /\ Increasing(blocks) /\ \A x \in Ids(blocks) : x <= calls
      /\ \A i \in 1 .. Len(stack') :
            /\ Increasing(Held(stack'[i])) /\ Precede(Held(stack'[i]), blocks)
            /\ \A x \in Ids(Held(stack'[i])) : x <= calls
      /\ \A i \in 1 .. Len(stack') : \A j \in i + 1 .. Len(stack') :
            Precede(Held(stack'[i]), Held(stack'[j]))
  BY <1>3, <1>4 DEF InOrder, PendingInOrder, Posted
<1> QED BY <1>2, <1>5, InOrderNext

LEMMA Source0Order == ASSUME LoopIInv, InOrder, Source0 PROVE InOrder'
<1>0. stack # <<>> /\ Top \in Run /\ calls' = calls /\ blocks' = blocks
  BY TopIs DEF Source0
<1>1. PICK s \in Top.coll :
          IF s \in signaled /\ s \in valid
          THEN Callout([[Top EXCEPT !.coll = @ \ {s}]
                          EXCEPT !.handled = TRUE,
                                 !.coll = IF Top.mode \in OnceModes THEN {} ELSE @])
          ELSE Set([Top EXCEPT !.coll = @ \ {s}])
  BY DEF Source0
<1>2. CASE s \in signaled /\ s \in valid
  <2>1. PICK f \in Run : f = [[Top EXCEPT !.coll = @ \ {s}]
                                EXCEPT !.handled = TRUE,
                                       !.coll = IF Top.mode \in OnceModes THEN {} ELSE @]
    BY <1>0 DEF Run
  <2>2. f.list = Top.list /\ f.kept = Top.kept /\ Callout(f)
    <3>1. f.list = Top.list /\ f.kept = Top.kept
      BY <1>0, <2>1 DEF Run
    <3> QED BY <1>1, <1>2, <2>1, <3>1
  <2>3. Held(f) = Held(Top)
    BY <2>2 DEF Held
  <2> QED BY <1>0, <2>2, <2>3, TopOrder, CalloutOrder
<1>3. CASE ~(s \in signaled /\ s \in valid)
  <2>1. PICK f \in Run : f = [Top EXCEPT !.coll = @ \ {s}]
    BY <1>0 DEF Run
  <2>2. f.list = Top.list /\ f.kept = Top.kept
    BY <1>0, <2>1 DEF Run
  <2>3. KeepsLists(f)
    BY <1>1, <1>3, <2>1 DEF KeepsLists
  <2> QED BY <1>0, <2>2, <2>3, UntouchedOrder
<1> QED BY <1>2, <1>3

LEMMA AfterSources0Order == ASSUME LoopIInv, InOrder, AfterSources0 PROVE InOrder'
<1>0. stack # <<>> /\ Top \in Run /\ calls' = calls /\ NoLists(Top)
  BY TopIs DEF AfterSources0, Good, BlockPlaces, NoLists
<1>1. CASE Top.handled
  <2>1. PICK f \in Run : f = Top
    BY <1>0
  <2>2. DoBlocks(f, 2) /\ NoLists(f)
    BY <1>0, <1>1, <2>1 DEF AfterSources0
  <2> QED BY <1>0, <2>2, DoBlocksOrder
<1>2. CASE ~Top.handled
  <2>1. Set(BeforeWaiting(Top)) /\ blocks' = blocks
    BY <1>2 DEF AfterSources0
  <2>2. KeepsLists(Top)
    BY <1>0, <2>1, WaitKeeps
  <2> QED BY <1>0, <2>1, <2>2, UntouchedOrder
<1> QED BY <1>1, <1>2

LEMMA ServiceMachPortOrder == ASSUME LoopIInv, InOrder, ServiceMachPort PROVE InOrder'
<1>0. stack # <<>> /\ Top \in Run /\ calls' = calls /\ blocks' = blocks
  BY TopIs DEF ServiceMachPort
<1>1. PICK l \in {"none", "wakeup", "source1"} :
          Set([Top EXCEPT !.live = l, !.at = "woken"]) \/ Set([Top EXCEPT !.at = "woken"])
  BY DEF ServiceMachPort, Live
<1>2. PICK f \in Run : f = [Top EXCEPT !.live = l, !.at = "woken"]
  BY <1>0 DEF Run, Places
<1>3. PICK g \in Run : g = [Top EXCEPT !.at = "woken"]
  BY <1>0 DEF Run, Places
<1>4. /\ f.list = Top.list /\ f.kept = Top.kept
      /\ g.list = Top.list /\ g.kept = Top.kept
  BY <1>0, <1>2, <1>3 DEF Run
<1>5. KeepsLists(f) \/ KeepsLists(g)
  BY <1>1, <1>2, <1>3 DEF KeepsLists
<1> QED BY <1>0, <1>4, <1>5, UntouchedOrder

LEMMA HandleOrder ==
    ASSUME LoopIInv, InOrder, stack # <<>>, calls' = calls, NEW f \in Run, Handle(f),
           NoLists(f), NoLists(Top)
    PROVE  InOrder'
<1>1. CASE f.live = "source1"
  <2>1. PICK g \in Run : g = [f EXCEPT !.at = "source1", !.live = "none"]
    BY DEF Run, Places
  <2>2. g.list = Top.list /\ g.kept = Top.kept
    BY <2>1 DEF Run, NoLists
  <2>3. KeepsLists(g) /\ blocks' = blocks
    BY <1>1, <2>1 DEF Handle, KeepsLists
  <2> QED BY <2>2, <2>3, UntouchedOrder
<1>2. CASE f.live # "source1"
  <2>1. PICK g \in Run : g = [f EXCEPT !.live = "none"]
    BY DEF Run
  <2>2. NoLists(g)
    BY <2>1 DEF NoLists, Run
  <2>3. DoBlocks(g, 3)
    BY <1>2, <2>1 DEF Handle
  <2> QED BY <2>2, <2>3, DoBlocksOrder
<1> QED BY <1>1, <1>2

LEMMA MsgReturnsOrder == ASSUME LoopIInv, InOrder, MsgReturns PROVE InOrder'
<1>0. stack # <<>> /\ Top \in Run /\ calls' = calls /\ NoLists(Top)
  BY TopIs DEF MsgReturns, Good, BlockPlaces, NoLists
<1>1. CASE Top.poll
  <2>1. PICK f \in Run : f = [Top EXCEPT !.ignore = TRUE, !.poll = FALSE]
    BY <1>0 DEF Run
  <2>2. NoLists(f)
    BY <1>0, <2>1 DEF Run, NoLists
  <2>3. Handle(f)
    BY <1>1, <2>1 DEF MsgReturns
  <2> QED BY <1>0, <2>2, <2>3, HandleOrder
<1>2. CASE ~Top.poll
  <2>1. PICK f \in Run : f = [Top EXCEPT !.ignore = TRUE, !.at = "after"]
    BY <1>0 DEF Run, Places
  <2>2. f.list = Top.list /\ f.kept = Top.kept
    BY <1>0, <2>1 DEF Run
  <2>3. KeepsLists(f) /\ blocks' = blocks
    BY <1>2, <2>1 DEF MsgReturns, KeepsLists
  <2> QED BY <1>0, <2>2, <2>3, UntouchedOrder
<1> QED BY <1>1, <1>2

\* The steps that start DoBlocks, or handle a message, with no list.
LEMMA BlocksOrder ==
    ASSUME LoopIInv, InOrder, BeforeSources \/ AfterWaiting \/ AfterSource1 PROVE InOrder'
<1>0. stack # <<>> /\ Top \in Run /\ calls' = calls /\ NoLists(Top)
  BY TopIs DEF BeforeSources, AfterWaiting, AfterSource1, Good, BlockPlaces, NoLists
<1>1. PICK f \in Run : f = Top
  BY <1>0
<1>2. NoLists(f)
  BY <1>0, <1>1
<1>3. CASE BeforeSources
  <2>1. DoBlocks(f, 1)
    BY <1>1, <1>3 DEF BeforeSources
  <2> QED BY <1>0, <1>2, <2>1, DoBlocksOrder
<1>4. CASE AfterWaiting
  <2>1. Handle(f)
    BY <1>1, <1>4 DEF AfterWaiting
  <2> QED BY <1>0, <1>2, <2>1, HandleOrder
<1>5. CASE AfterSource1
  <2>1. DoBlocks(f, 3)
    BY <1>1, <1>5 DEF AfterSource1
  <2> QED BY <1>0, <1>2, <2>1, DoBlocksOrder
<1> QED BY <1>3, <1>4, <1>5

LEMMA Source1Order == ASSUME LoopIInv, InOrder, Source1 PROVE InOrder'
<1>0. stack # <<>> /\ Top \in Run /\ calls' = calls /\ blocks' = blocks
  BY TopIs DEF Source1
<1>1. PICK f \in Run : f = [Top EXCEPT !.handled = TRUE, !.at = "performed"]
  BY <1>0 DEF Run, Places
<1>2. f.list = Top.list /\ f.kept = Top.kept /\ Callout(f)
  <2>1. f.list = Top.list /\ f.kept = Top.kept
    BY <1>0, <1>1 DEF Run
  <2> QED BY <1>1, <2>1 DEF Source1
<1>3. Held(f) = Held(Top)
  BY <1>2 DEF Held
<1> QED BY <1>0, <1>2, <1>3, TopOrder, CalloutOrder

LEMMA StopOrder == ASSUME LoopIInv, InOrder, NEW c \in Clients, Stop(c) PROVE InOrder'
<1>1. blocks' = blocks /\ calls' = calls + 1 /\ calls \in Nat
  BY DEF Stop, Call, LoopIInv, SharedType
<1>2. CASE stack = <<>>
  BY <1>1, <1>2, StayOrder DEF Stop
<1>3. CASE stack # <<>>
  <2>0. Len(stack) \in Nat \ {0} /\ stack \in Seq(Run) /\ Top \in Run
    BY <1>3, TopOf DEF LoopIInv, StackType
  <2>1. PICK f \in Run : f = [Top EXCEPT !.stopped = TRUE]
    BY <2>0 DEF Run
  <2>2. Held(f) = Held(Top) /\ Set(f)
    <3>1. f.list = Top.list /\ f.kept = Top.kept
      BY <2>0, <2>1 DEF Run
    <3>2. Set(f)
      BY <1>3, <2>1 DEF Stop
    <3> QED BY <3>1, <3>2 DEF Held
  <2>3. /\ Len(stack') = Len(stack)
        /\ \A i \in 1 .. Len(stack) : stack'[i] = IF i = Len(stack) THEN f ELSE stack[i]
    BY <2>0, <2>2, ExceptSeq DEF Set
  <2>4. \A i \in 1 .. Len(stack) : Held(stack'[i]) = Held(stack[i])
    BY <2>0, <2>2, <2>3 DEF Top
  <2>5. /\ \A i \in 1 .. Len(stack) : Held(stack[i]) \in Seq(Block)
        /\ blocks \in Seq(Block)
    <3> SUFFICES ASSUME NEW i \in 1 .. Len(stack) PROVE Held(stack[i]) \in Seq(Block)
      BY DEF LoopIInv, SharedType
    <3>1. stack[i] \in Run
      BY <2>0, ElementOfSeq
    <3> QED BY <3>1, ConcatProperties DEF Run, Held
  <2>6. /\ \A x \in Ids(blocks) : x \in Int /\ x <= calls
        /\ \A i \in 1 .. Len(stack) : \A x \in Ids(Held(stack[i])) : x \in Int /\ x <= calls
    BY <2>5, IdsInt DEF InOrder, Posted
  <2>7. \A x \in Int : x <= calls => x <= calls'
    BY <1>1
  <2>8. /\ Increasing(blocks)
        /\ \A i \in 1 .. Len(stack) :
              /\ Increasing(Held(stack[i])) /\ Precede(Held(stack[i]), blocks)
              /\ \A j \in i + 1 .. Len(stack) : Precede(Held(stack[i]), Held(stack[j]))
    BY DEF InOrder, PendingInOrder
  <2>9. \A i \in 1 .. Len(stack) : \A j \in i + 1 .. Len(stack) : j \in 1 .. Len(stack)
    BY <2>0
  <2> QED BY <1>1, <2>3, <2>4, <2>6, <2>7, <2>8, <2>9, InOrderNext
<1> QED BY <1>2, <1>3

LEMMA InOrderInit == LoopInit => InOrder
<1> SUFFICES ASSUME LoopInit PROVE InOrder
  OBVIOUS
<1>1. Len(stack) = 0 /\ blocks = <<>>
  BY EmptySeq DEF LoopInit
<1> QED BY <1>1, EmptyIds DEF InOrder, PendingInOrder, Posted

LEMMA InOrderStep == LoopIInv /\ InOrder /\ [LoopNext]_loopVars => InOrder'
<1> SUFFICES ASSUME LoopIInv, InOrder, [LoopNext]_loopVars PROVE InOrder'
  OBVIOUS
<1>1. CASE UNCHANGED loopVars
  BY <1>1, StayOrder DEF loopVars
<1>2. CASE Start
  BY <1>2, StartOrder
<1>3. CASE LoopStep
  BY <1>3, BeginOrder, PopOrder, BlocksOrder, Source0Order, AfterSources0Order, Source1Order,
     ServiceMachPortOrder, MsgReturnsOrder, RunBlockOrder, PutBackOrder DEF LoopStep
<1>4. ASSUME NEW r \in Runs, LimitPasses(r) \/ TimerStep(r) PROVE InOrder'
  BY <1>4, StayOrder DEF TimerStep, LimitPasses, Timeout, TimeoutWakes
<1>5. ASSUME NEW c \in Clients, ClientCall(c) \/ WakesUp(c) \/ RemoveSource(c) PROVE InOrder'
  <2>1. CASE PerformBlock(c) \/ Stop(c)
    BY <2>1, PerformBlockOrder, StopOrder
  <2>2. CASE SourceSignal(c) \/ Send(c) \/ StopMode(c) \/ SourceInvalidate(c)
    BY <2>2, StayOrder DEF SourceSignal, Send, StopMode, SourceInvalidate, Call
  <2>3. CASE WakesUp(c) \/ RemoveSource(c)
    BY <2>3, StayOrder DEF WakesUp, RemoveSource
  <2> QED BY <1>5, <2>1, <2>2, <2>3 DEF ClientCall
<1> QED BY <1>1, <1>2, <1>3, <1>4, <1>5 DEF LoopNext

\* The blocks of every run's list and those that are pending stay in the order in
\* which they were posted, whatever runs are nested, however deep, while a list
\* is worked off (__CFRunLoopDoBlocks).
THEOREM PendingInOrderHolds == LoopSpec => []PendingInOrder
<1>1. LoopInit => LoopIInv /\ InOrder
  BY LoopInitInv, InOrderInit
<1>2. (LoopIInv /\ InOrder) /\ [LoopNext]_loopVars => (LoopIInv /\ InOrder)'
  BY LoopNextInv, InOrderStep
<1>3. LoopIInv /\ InOrder => PendingInOrder
  BY DEF InOrder
<1> QED BY <1>1, <1>2, <1>3, PTL DEF LoopSpec

\* The runs, the pending blocks, the ports and the timers have their types.
THEOREM LoopTypeCorrect == LoopSpec => []LoopTypeOK
<1>1. LoopIInv => LoopTypeOK
  <2> SUFFICES ASSUME LoopIInv PROVE LoopTypeOK
    OBVIOUS
  <2>1. \A i \in 1 .. Len(stack) : stack[i] \in Run
    BY ElementOfSeq DEF LoopIInv, StackType
  <2>2. port1 \in 0 .. MaxCalls
    BY RunLoopAssumption DEF RunLoopAssumption, LoopIInv, SharedType
  <2> QED BY <2>1, <2>2 DEF LoopIInv, StackType, SharedType, LoopTypeOK, Run
<1> QED BY <1>1, LoopInitInv, LoopNextInv, PTL DEF LoopSpec
=============================================================================
