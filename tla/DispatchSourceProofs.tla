------------------------- MODULE DispatchSourceProofs -------------------------
(***************************************************************************)
(* Proofs about DispatchSource, for any finite set of clients and workers, *)
(* either kind of source, and any number of calls and events.              *)
(***************************************************************************)
EXTENDS DispatchSource, ThreadCountTheorems

\* Where a thread has the source it took from a queue.
HoldPoints == {"run", "unlock"} \cup InvokePoints
Holding == CountAt(Threads, pc, HoldPoints)

\* Where a thread has a reference to give back: place and return point.
OwePlaces == ((HoldPoints \cup {"recheck", "release"}) \X {"idle", "release"})
                 \cup (WakePoints \X {"release"})
Places == [t \in Threads |-> <<pc[t], after[t]>>]
Owing == CountAt(Threads, Places, OwePlaces)

\* A thread uses the source without a reference that it will give back: it is
\* a client that has its own, or the manager with an event.
Visits(t) == pc[t] \in MergePoints \/ (pc[t] \in WakePoints /\ after[t] = "idle")

\* The types of what the proofs are about.
Types == /\ pc \in [Threads -> Points] /\ after \in [Threads -> {"idle", "release"}]
         /\ on \in [Threads -> Queues \cup {"none"}] /\ tq \in [Threads -> Queues \cup {"none"}]
         /\ targetq \in Queues /\ queued \in Queues \cup {"none"}
         /\ items \in Seq({"target", "event", "cancel", "registration"})
         /\ susp \in Nat /\ ref \in Nat /\ holders \subseteq Clients
         /\ pending \in Nat /\ data \in Nat /\ merged \in Nat /\ delivered \in Nat
         /\ dropped \in Nat /\ cancelRuns \in Nat

\* The lock bit stands for the queue the source is on or the thread that has it.
Lock == Holding + (IF queued = "none" THEN 0 ELSE 1) = (IF locked THEN 1 ELSE 0)

\* Who has a reference: the clients together, the manager queue, a suspension,
\* the queue the source is on, and every thread that will give one back.
Held == (IF holders = {} THEN 0 ELSE 1) + (IF dkev THEN 1 ELSE 0) + susp
            + (IF queued = "none" THEN 0 ELSE 1)
References == ref = Held + Owing /\ (disposed <=> ref = 0)

\* Return points, who visits, and who drains the manager queue.
Visitors == /\ \A t \in Threads : pc[t] \notin WakePoints => after[t] = "idle"
            /\ \A t \in Threads : Visits(t) => t \in holders \/ (t = Manager /\ dkev)
            /\ \A t \in Threads : on[t] = "mgr" => t = Manager

\* The kernel event goes only with a source that is installed and cancelled or
\* released; whoever is past its removal knows that it is gone.
Kernel == /\ ~dkev => installed /\ Gone /\ ~knote
          /\ \A t \in Threads : pc[t] \in {"callout", "cancelling"} => ~dkev

\* There is one cancel handler, and once it has run nothing is delivered.
CancelBlocks == {i \in DOMAIN items : items[i] = "cancel"}
CancelOnce == /\ cancelRuns <= 1
              /\ cancelRuns > 0 => ~dkev
              /\ cancelRuns > 0 => \A t \in Threads : pc[t] \notin {"latch", "xchg", "handler", "arm"}
              /\ cancelRuns > 0 /\ cancelh => \E t \in Threads : pc[t] = "cancelling"
              /\ cancelh \/ cancelRuns > 0 => CancelBlocks = {}
              /\ \A i, j \in CancelBlocks : i = j

\* The inductive invariant.
IInv == Types /\ Lock /\ References /\ Visitors /\ Kernel /\ CancelOnce /\ DataConserved

\* The threads are finitely many, of three sorts.
LEMMA ThreadSorts ==
    /\ IsFiniteSet(Threads) /\ Manager \in Threads
    /\ Manager \notin Clients /\ Manager \notin Workers /\ Clients \cap Workers = {}
<1>1. IsFiniteSet((Clients \cup Workers) \cup {Manager})
  BY SourceAssumption, FS_AddElement DEF SourceAssumption
<1> QED BY <1>1, SourceAssumption DEF SourceAssumption, Threads

\* The counters are natural numbers, positive when there is such a thread.
LEMMA CountersAreNat ==
    /\ Holding \in Nat /\ Owing \in Nat
    /\ \A t \in Threads : /\ pc[t] \in HoldPoints => Holding > 0
                          /\ <<pc[t], after[t]>> \in OwePlaces => Owing > 0
<1>1. ASSUME NEW f, NEW P
      PROVE  /\ CountAt(Threads, f, P) \in Nat
             /\ \A t \in Threads : f[t] \in P => CountAt(Threads, f, P) > 0
  BY ThreadSorts, CountIsNat
<1>2. \A t \in Threads : Places[t] = <<pc[t], after[t]>>
  BY DEF Places
<1> QED BY <1>1, <1>2 DEF Holding, Owing

\* At most one thread has the source.
LEMMA HolderUnique ==
    ASSUME Lock, NEW t \in Threads, NEW u \in Threads,
           pc[t] \in HoldPoints, pc[u] \in HoldPoints
    PROVE  t = u /\ locked /\ queued = "none"
<1>1. Holding \in Nat /\ Holding > 0
  BY CountersAreNat
<1>2. locked /\ queued = "none" /\ Holding = 1
  BY <1>1 DEF Lock
<1>3. ASSUME t # u PROVE FALSE
  <2> DEFINE A == ThreadsAt(Threads, pc, HoldPoints)
  <2>1. IsFiniteSet(A)
    BY ThreadSorts, CountIsNat
  <2>2. t \in A /\ u \in A
    BY DEF ThreadsAt
  <2>3. IsFiniteSet(A \ {t}) /\ Cardinality(A \ {t}) = Cardinality(A) - 1
    BY <2>1, <2>2, FS_RemoveElement
  <2>4. Cardinality(A \ {t}) # 0
    <3>1. u \in A \ {t}
      BY <1>3, <2>2
    <3> QED BY <2>3, <3>1, FS_EmptySet
  <2>5. Cardinality(A) = 1
    BY <1>2 DEF Holding, CountAt
  <2> HIDE DEF A
  <2> QED BY <2>3, <2>4, <2>5
<1> QED BY <1>2, <1>3

\* Thread t goes to p, with return point a.
Moves(t, p, a) == pc' = [pc EXCEPT ![t] = p] /\ after' = [after EXCEPT ![t] = a]

\* What a thread at p with return point a adds to Owing.
Owes(p, a) == IF \/ p \in HoldPoints \cup {"recheck", "release"}
                 \/ p \in WakePoints /\ a = "release"
              THEN 1 ELSE 0

\* What a move does to the functions and to the counters.
LEMMA CountersMove ==
    ASSUME Types, NEW t \in Threads, NEW p \in Points, NEW a \in {"idle", "release"},
           Moves(t, p, a)
    PROVE  /\ pc' \in [Threads -> Points] /\ after' \in [Threads -> {"idle", "release"}]
           /\ \A u \in Threads : /\ pc'[u] = IF u = t THEN p ELSE pc[u]
                                 /\ after'[u] = IF u = t THEN a ELSE after[u]
           /\ Holding' = Holding - Hit(pc[t], HoldPoints) + Hit(p, HoldPoints)
           /\ Owing' = Owing - Owes(pc[t], after[t]) + Owes(p, a)
<1>1. /\ pc' \in [Threads -> Points] /\ after' \in [Threads -> {"idle", "release"}]
      /\ \A u \in Threads : /\ pc'[u] = IF u = t THEN p ELSE pc[u]
                            /\ after'[u] = IF u = t THEN a ELSE after[u]
  BY DEF Types, Moves
<1>2. MovesOnly(Threads, pc, pc', t, p)
  BY <1>1 DEF MovesOnly
<1>3. MovesOnly(Threads, Places, Places', t, <<p, a>>)
  <2>1. \A u \in Threads : /\ Places'[u] = <<pc'[u], after'[u]>>
                           /\ Places[u] = <<pc[u], after[u]>>
    BY DEF Places
  <2> QED BY <1>1, <2>1 DEF MovesOnly
<1>4. Holding' = Holding - Hit(pc[t], HoldPoints) + Hit(p, HoldPoints)
  BY <1>2, ThreadSorts, CountMove DEF Holding
<1>5. Owing' = Owing - Hit(Places[t], OwePlaces) + Hit(<<p, a>>, OwePlaces)
  BY <1>3, ThreadSorts, CountMove DEF Owing
<1>6. Places[t] = <<pc[t], after[t]>>
  BY DEF Places
<1>7. \A q : \A b \in {"idle", "release"} : Hit(<<q, b>>, OwePlaces) = Owes(q, b)
  BY DEF Hit, OwePlaces, Owes
<1>8. after[t] \in {"idle", "release"}
  BY DEF Types
<1> QED BY <1>1, <1>4, <1>5, <1>6, <1>7, <1>8

\* A quiet step moves one thread, which keeps what it has and owes, visits only
\* if it may, and neither enters nor leaves a place the invariant speaks of.
Still == <<level, locked, queued, targetq, items, dkev, installed, canceled, holders, value,
           cancelh, cancelRuns, susp, ref, disposed, on>>
MayVisit(t) == t \in holders \/ (t = Manager /\ dkev)
LEMMA QuietStep ==
    ASSUME IInv, NEW t \in Threads, NEW p \in Points, NEW a \in {"idle", "release"},
           Moves(t, p, a), UNCHANGED Still, tq' \in [Threads -> Queues \cup {"none"}],
           knote' => knote,
           p \in HoldPoints <=> pc[t] \in HoldPoints, Owes(p, a) = Owes(pc[t], after[t]),
           p \notin WakePoints => a = "idle",
           p \in MergePoints \/ (p \in WakePoints /\ a = "idle") => MayVisit(t),
           p \notin {"callout", "cancelling", "handler"},
           pc[t] \notin {"cancelling", "handler"},
           p \in {"latch", "xchg", "arm"} => cancelRuns = 0
    PROVE  IInv'
<1> USE DEF IInv, Still
<1>1. /\ \A u \in Threads : /\ pc'[u] = IF u = t THEN p ELSE pc[u]
                            /\ after'[u] = IF u = t THEN a ELSE after[u]
      /\ pc' \in [Threads -> Points] /\ after' \in [Threads -> {"idle", "release"}]
      /\ Holding' = Holding /\ Owing' = Owing
  BY CountersMove, CountersAreNat DEF Hit, Owes
<1>2. Types'
  BY <1>1 DEF Types, value
<1>3. Lock' /\ References'
  BY <1>1 DEF Lock, References, Held
<1>4. Visitors'
  BY <1>1 DEF Visitors, Visits, MayVisit
<1>5. Kernel'
  BY <1>1 DEF Kernel, Gone
<1>6. CancelOnce'
  <2>1. /\ cancelRuns > 0 => \A u \in Threads : pc'[u] \notin {"latch", "xchg", "handler", "arm"}
        /\ cancelRuns > 0 /\ cancelh => \E u \in Threads : pc'[u] = "cancelling"
    BY <1>1 DEF CancelOnce, Types
  <2>2. CancelBlocks' = CancelBlocks
    BY DEF CancelBlocks
  <2> QED BY <2>1, <2>2 DEF CancelOnce
<1>7. DataConserved'
  <2>1. Running({"handler"})' = Running({"handler"})
    BY <1>1 DEF Running
  <2> QED BY <2>1 DEF DataConserved, Gone, value
<1> QED BY <1>2, <1>3, <1>4, <1>5, <1>6, <1>7

\* The steps that are quiet, first those of calls, events and wakeups.
LEMMA QuietWakeup ==
    ASSUME IInv, NEW t \in Threads,
           \/ MergeTest(t) \/ Disarm(t) \/ WakeTest(t) \/ Probe(t) \/ Recheck(t)
           \/ (t \in Clients /\ MergeData(t)) \/ (t = Manager /\ KernelEvent)
    PROVE  IInv'
<1> USE DEF Move, Goto, Wakeup, Return, Moves, Still, source, kinds, lock, queues,
            kevent, value, handlers, refs
<1>1. /\ pc[t] \in Points /\ after[t] \in {"idle", "release"}
      /\ pc[t] \notin WakePoints => after[t] = "idle"
      /\ pc[t] \in MergePoints \/ (pc[t] \in WakePoints /\ after[t] = "idle") => MayVisit(t)
      /\ after = [after EXCEPT ![t] = after[t]]
      /\ tq \in [Threads -> Queues \cup {"none"}]
  BY DEF IInv, Types, Visitors, Visits, MayVisit
<1> USE DEF Points, HoldPoints, InvokePoints, WakePoints, MergePoints, Owes
<1>2. CASE MergeTest(t)
  BY <1>1, <1>2, QuietStep DEF MergeTest
<1>3. CASE Disarm(t)
  BY <1>1, <1>3, QuietStep DEF Disarm
<1>4. CASE WakeTest(t)
  BY <1>1, <1>4, QuietStep DEF WakeTest
<1>5. CASE Probe(t)
  BY <1>1, <1>5, QuietStep DEF Probe
<1>6. CASE Recheck(t)
  BY <1>1, <1>6, QuietStep DEF Recheck
<1>7. CASE t \in Clients /\ MergeData(t)
  BY <1>1, <1>7, QuietStep DEF MergeData, Call, MayVisit
<1>8. CASE t = Manager /\ KernelEvent
  <2>1. dkev
    BY <1>8 DEF KernelEvent, IInv, Kernel
  <2> QED BY <1>1, <1>8, <2>1, QuietStep DEF KernelEvent, MayVisit
<1> QED BY <1>2, <1>3, <1>4, <1>5, <1>6, <1>7, <1>8

\* Then those of an invocation: it leaves, for another queue or none, ...
LEMMA LeaveQuietly ==
    ASSUME IInv, NEW t \in Threads, pc[t] \in InvokePoints \ {"handler", "cancelling"},
           NEW q \in Queues \cup {"none"}, Leave(t, q), after' = after,
           UNCHANGED Still, knote' => knote
    PROVE  IInv'
<1>1. /\ after[t] = "idle" /\ after = [after EXCEPT ![t] = "idle"]
      /\ tq' \in [Threads -> Queues \cup {"none"}]
  BY DEF IInv, Types, Visitors, InvokePoints, WakePoints, Leave
<1> QED BY <1>1, QuietStep
        DEF Leave, Goto, Moves, Points, HoldPoints, InvokePoints, WakePoints, MergePoints, Owes

\* ... or goes on.
LEMMA QuietInvoke ==
    ASSUME IInv, NEW t \in Threads,
           \/ Enter(t) \/ DrainEnds(t) \/ InvokeSuspended(t) \/ RegistrationCallout(t)
           \/ Deliver(t) \/ LatchTest(t) \/ Arm(t) \/ NothingToDo(t)
           \/ pc[t] \in {"invoke", "callout"} /\ \E q \in Queues : Elsewhere(t, q)
    PROVE  IInv'
<1> USE DEF Still, source, kinds, lock, queues, kevent, value, handlers, refs
<1>1. /\ pc[t] \in Points
      /\ pc[t] \notin WakePoints => after[t] = "idle" /\ after = [after EXCEPT ![t] = "idle"]
      /\ tq \in [Threads -> Queues \cup {"none"}] /\ targetq \in Queues
  BY DEF IInv, Types, Visitors
<1>2. ~Gone \/ pc[t] \in {"latch", "xchg"} => cancelRuns = 0
  BY DEF IInv, CancelOnce, Kernel, Types
<1> USE DEF Points, HoldPoints, InvokePoints, WakePoints, MergePoints, Owes
\* A move within the invocation.
<1>3. ASSUME NEW p \in {"drain", "unlock", "invoke", "latch", "xchg"},
             pc[t] \in HoldPoints \ {"cancelling", "handler"},
             Goto(t, p), UNCHANGED <<after, tq, knote>>, UNCHANGED Still,
             p \in {"latch", "xchg"} => cancelRuns = 0
      PROVE  IInv'
  BY <1>1, <1>3, QuietStep DEF Goto, Moves
<1>4. ASSUME NEW q \in Queues \cup {"none"}, pc[t] \in InvokePoints \ {"handler", "cancelling"},
             Leave(t, q), after' = after, UNCHANGED Still, knote' = knote
      PROVE  IInv'
  BY <1>4, LeaveQuietly
<1>5. CASE Enter(t)
  BY <1>3, <1>5 DEF Enter
<1>6. CASE DrainEnds(t)
  BY <1>3, <1>6 DEF DrainEnds, Move
<1>7. CASE InvokeSuspended(t)
  BY <1>4, <1>7 DEF InvokeSuspended, Invoking
<1>8. CASE RegistrationCallout(t)
  BY <1>1, <1>4, <1>8 DEF RegistrationCallout, Invoking, Elsewhere, Queues
<1>9. CASE Deliver(t)
  BY <1>1, <1>2, <1>3, <1>4, <1>9 DEF Deliver, Ready, Invoking, Elsewhere
<1>10. CASE LatchTest(t)
  BY <1>2, <1>3, <1>4, <1>10 DEF LatchTest, AfterDelivery, Queues
<1>11. CASE Arm(t)
  BY <1>4, <1>11 DEF Arm
<1>12. CASE NothingToDo(t)
  BY <1>4, <1>12 DEF NothingToDo, Ready, Invoking
<1>13. CASE pc[t] \in {"invoke", "callout"} /\ \E q \in Queues : Elsewhere(t, q)
  BY <1>4, <1>13 DEF Elsewhere
<1> QED BY <1>5, <1>6, <1>7, <1>8, <1>9, <1>10, <1>11, <1>12, <1>13

\* What the other steps leave alone: four parts of the invariant.
LEMMA VisitorsStay ==
    ASSUME IInv, NEW t \in Threads, NEW p \in Points, NEW a \in {"idle", "release"},
           Moves(t, p, a), dkev' = dkev, \A u \in Threads \ {t} : u \in holders => u \in holders',
           \A u \in Threads : on'[u] = "mgr" => u = Manager,
           p \notin WakePoints => a = "idle",
           p \in MergePoints \/ (p \in WakePoints /\ a = "idle") => MayVisit(t)'
    PROVE  Visitors'
<1>1. \A u \in Threads : /\ pc'[u] = IF u = t THEN p ELSE pc[u]
                         /\ after'[u] = IF u = t THEN a ELSE after[u]
  BY CountersMove DEF IInv
<1> QED BY <1>1 DEF IInv, Visitors, Visits, MayVisit

LEMMA KernelStays ==
    ASSUME IInv, NEW t \in Threads, NEW p \in Points, NEW a \in {"idle", "release"},
           Moves(t, p, a), dkev' = dkev, Gone => Gone', installed => installed', knote' => knote,
           p \in {"callout", "cancelling"} => pc[t] \in {"callout", "cancelling"}
    PROVE  Kernel'
<1>1. \A u \in Threads : pc'[u] = IF u = t THEN p ELSE pc[u]
  BY CountersMove DEF IInv
<1> QED BY <1>1 DEF IInv, Kernel

LEMMA CancelStays ==
    ASSUME IInv, NEW t \in Threads, NEW p \in Points, NEW a \in {"idle", "release"},
           Moves(t, p, a), UNCHANGED <<items, cancelh, cancelRuns>>, dkev' => dkev,
           p \in {"latch", "xchg", "handler", "arm"} => cancelRuns = 0,
           pc[t] # "cancelling"
    PROVE  CancelOnce'
<1>1. \A u \in Threads : pc'[u] = IF u = t THEN p ELSE pc[u]
  BY CountersMove DEF IInv
<1>2. /\ cancelRuns > 0 => \A u \in Threads : pc'[u] \notin {"latch", "xchg", "handler", "arm"}
      /\ cancelRuns > 0 /\ cancelh => \E u \in Threads : pc'[u] = "cancelling"
  BY <1>1 DEF IInv, CancelOnce, Types
<1>3. CancelBlocks' = CancelBlocks
  BY DEF CancelBlocks
<1> QED BY <1>2, <1>3 DEF IInv, CancelOnce

LEMMA DataStay ==
    ASSUME IInv, NEW t \in Threads, NEW p \in Points, NEW a \in {"idle", "release"},
           Moves(t, p, a), UNCHANGED <<level, value>>, Gone => Gone',
           p # "handler", pc[t] # "handler"
    PROVE  DataConserved'
<1>1. \A u \in Threads : pc'[u] = IF u = t THEN p ELSE pc[u]
  BY CountersMove DEF IInv
<1>2. Running({"handler"})' = Running({"handler"})
  BY <1>1 DEF Running
<1> QED BY <1>2 DEF IInv, DataConserved, value

\* The references after a step, from what it does to each of their sources.
LEMMA ReferencesMove ==
    ASSUME IInv, NEW t \in Threads, NEW p \in Points, NEW a \in {"idle", "release"},
           Moves(t, p, a), Held' \in Nat,
           ref' = ref + (Held' - Held) + (Owes(p, a) - Owes(pc[t], after[t])),
           disposed' <=> ref' = 0
    PROVE  References'
<1>1. Owing' = Owing - Owes(pc[t], after[t]) + Owes(p, a)
  BY CountersMove DEF IInv
<1>2. Owing \in Nat /\ Held \in Nat /\ ref = Held + Owing
  BY CountersAreNat DEF IInv, References, Held, Types
<1>3. Owes(p, a) \in Int /\ Owes(pc[t], after[t]) \in Int
  BY DEF Owes
<1> QED BY <1>1, <1>2, <1>3 DEF References

\* The calls of the clients change the counts of references.
LEMMA ClientIInv ==
    ASSUME IInv, NEW t \in Clients, Cancel(t) \/ Suspend(t) \/ Resume(t) \/ Release(t)
    PROVE  IInv'
<1> USE DEF Goto, Wakeup, kinds, lock, queues, kevent, handlers, refs
<1>1. /\ t \in Threads /\ t # Manager /\ Types /\ Lock /\ References /\ Visitors
      /\ Holding \in Nat /\ Owing \in Nat /\ \A u \in Threads : on[u] = "mgr" => u = Manager
  BY ThreadSorts, CountersAreNat DEF IInv, Threads, Visitors
<1>2. /\ pc[t] = "idle" /\ t \in holders /\ after[t] = "idle"
      /\ after = [after EXCEPT ![t] = "idle"] /\ pc = [pc EXCEPT ![t] = "idle"]
  BY <1>1 DEF Cancel, Suspend, Resume, Release, Call, Types, Visitors, WakePoints
<1> USE DEF Points, HoldPoints, InvokePoints, WakePoints, MergePoints, Owes
\* The parts that do not count.
<1>3. ASSUME NEW p \in {"idle", "wake", "release"}, NEW a \in {"idle", "release"}, Moves(t, p, a),
             p = "wake" <=> a = "release",
             UNCHANGED <<kinds, kevent, value, handlers, items, locked, queued, targetq, on, tq>>,
             Gone => Gone', susp' \in Nat, ref' \in Nat, holders' \subseteq holders,
             \A u \in Threads \ {t} : u \in holders => u \in holders', References'
      PROVE  IInv'
  <2>1. Types'
    BY <1>1, <1>3, CountersMove DEF Types, value
  <2>2. Lock'
    BY <1>1, <1>2, <1>3, CountersMove DEF Lock, Hit
  <2>3. Visitors'
    BY <1>1, <1>3, VisitorsStay DEF MayVisit
  <2>4. Kernel' /\ CancelOnce' /\ DataConserved'
    BY <1>1, <1>2, <1>3, KernelStays, CancelStays, DataStay
  <2> QED BY <1>3, <2>1, <2>2, <2>3, <2>4 DEF IInv
\* A source with an external reference is alive.
<1>8. Held \in Nat /\ Held > 0 /\ ref > 0 /\ ref \in Nat /\ ~disposed /\ IInv
  BY <1>1, <1>2 DEF References, Held, Types
<1>4. CASE Cancel(t)
  <2>1. Moves(t, "wake", "release") /\ ref' = ref + 1
    BY <1>4 DEF Cancel, Moves
  <2>2. Held' = Held /\ disposed' = disposed
    BY <1>4 DEF Cancel, Held
  <2>3. References'
    BY <1>1, <1>2, <1>8, <2>1, <2>2, ReferencesMove
  <2> QED BY <1>1, <1>3, <1>4, <2>1, <2>3 DEF Cancel, Gone, Types
<1>5. CASE Suspend(t)
  <2>1. Moves(t, "idle", "idle") /\ ref' = ref + 1 /\ susp' = susp + 1
    BY <1>2, <1>5 DEF Suspend, Moves
  <2>2. Held' = Held + 1 /\ disposed' = disposed
    BY <1>1, <1>5 DEF Suspend, Held, Types
  <2>3. References'
    BY <1>1, <1>2, <1>8, <2>1, <2>2, ReferencesMove
  <2> QED BY <1>1, <1>3, <1>5, <2>1, <2>3 DEF Suspend, Gone, Types
<1>6. CASE Resume(t)
  <2>1. /\ Moves(t, "wake", "release") \/ Moves(t, "release", "idle")
        /\ susp' = susp - 1 /\ susp > 0
    BY <1>2, <1>6 DEF Resume, Moves
  <2>2. Held' = Held - 1 /\ Held' \in Nat /\ ref' = ref /\ disposed' = disposed
    BY <1>1, <1>6 DEF Resume, Held, Types
  <2>3. References'
    BY <1>1, <1>2, <1>8, <2>1, <2>2, ReferencesMove
  <2> QED BY <1>1, <1>3, <1>6, <2>1, <2>2, <2>3 DEF Resume, Gone, Types
<1>7. CASE Release(t)
  <2>1. /\ holders' = holders \ {t}
        /\ IF holders' = {} THEN Moves(t, "wake", "release") ELSE Moves(t, "idle", "idle")
    BY <1>2, <1>7 DEF Release, Moves
  <2>2. /\ Held' = IF holders' = {} THEN Held - 1 ELSE Held
        /\ Held' \in Nat /\ ref' = ref /\ disposed' = disposed
    BY <1>1, <1>2, <1>7 DEF Release, Held, Types
  <2>3. References'
    BY <1>1, <1>2, <1>8, <2>1, <2>2, ReferencesMove
  <2> QED BY <1>1, <1>3, <1>7, <2>1, <2>2, <2>3 DEF Release, Gone, Types
<1> QED BY <1>4, <1>5, <1>6, <1>7

\* A handler set late: if it is the cancel handler, it is the only one.
LEMMA SetHandlerIInv ==
    ASSUME IInv, NEW t \in Clients, NEW h \in {"event", "cancel"}, SetHandler(t, h)
    PROVE  IInv'
<1> USE DEF Goto, Wakeup, kinds, lock, queues, kevent, handlers, refs
<1>1. /\ t \in Threads /\ t # Manager /\ Types /\ Lock /\ References /\ Visitors /\ CancelOnce
      /\ Held \in Nat /\ \A u \in Threads : on[u] = "mgr" => u = Manager
  BY ThreadSorts DEF IInv, Threads, Visitors, Held, Types
<1>2. /\ pc[t] = "idle" /\ t \in holders /\ after[t] = "idle"
      /\ after = [after EXCEPT ![t] = "idle"] /\ pc = [pc EXCEPT ![t] = "idle"]
  BY <1>1 DEF SetHandler, Call, Types, Visitors, WakePoints
<1> USE DEF Points, HoldPoints, InvokePoints, WakePoints, MergePoints, Owes
<1>3. PICK p \in {"idle", "wake"} : Moves(t, p, "idle")
  BY <1>2 DEF SetHandler, Moves
<1>4. Types'
  BY <1>1, <1>3, CountersMove DEF SetHandler, Types, value
<1>5. Lock'
  BY <1>1, <1>2, <1>3, CountersMove, CountersAreNat DEF SetHandler, Lock, Hit
<1>6. References'
  <2>1. Held' = Held /\ ref' = ref /\ disposed' = disposed /\ ref \in Nat
    BY <1>1 DEF SetHandler, Held, Types
  <2> QED BY <1>1, <1>2, <1>3, <2>1, ReferencesMove DEF References
<1>7. Visitors'
  BY <1>1, <1>2, <1>3, VisitorsStay DEF SetHandler, MayVisit
<1>8. Kernel' /\ DataConserved'
  BY <1>1, <1>2, <1>3, KernelStays, DataStay DEF SetHandler, Gone
<1>9. CancelOnce'
  <2>1. UNCHANGED <<cancelRuns, cancelh>> /\ items' = Append(items, h)
    BY DEF SetHandler
  <2>2. CASE h = "event"
    <3>1. CancelBlocks' = CancelBlocks
      BY <1>1, <2>1, <2>2 DEF CancelBlocks, Types
    <3>2. pc[t] \notin {"latch", "xchg", "handler", "arm", "cancelling"} /\ UNCHANGED dkev
      BY <1>2 DEF SetHandler
    <3>3. \A u \in Threads : pc'[u] = IF u = t THEN p ELSE pc[u]
      BY <1>1, <1>3, CountersMove
    <3> QED BY <1>1, <2>1, <3>1, <3>2, <3>3 DEF CancelOnce
  <2>3. CASE h = "cancel"
    <3>1. cancelRuns = 0 /\ ~cancelh /\ CancelBlocks = {}
      BY <2>3 DEF SetHandler, CancelBlocks
    <3>2. CancelBlocks' \subseteq {Len(items) + 1}
      BY <1>1, <2>1, <3>1 DEF CancelBlocks, Types
    <3> QED BY <2>1, <3>1, <3>2 DEF CancelOnce
  <2> QED BY <2>2, <2>3
<1> QED BY <1>4, <1>5, <1>6, <1>7, <1>8, <1>9 DEF IInv

\* What is merged waits to be delivered.
LEMMA MergeIInv ==
    ASSUME IInv, NEW t \in Threads, Merge(t)
    PROVE  IInv'
<1> USE DEF Goto, kinds, lock, queues, kevent, handlers, refs
<1>1. /\ Types /\ Lock /\ References /\ Visitors /\ CancelOnce /\ Held \in Nat
      /\ \A u \in Threads : on[u] = "mgr" => u = Manager
  BY DEF IInv, Visitors, Held, Types
<1>2. /\ pc[t] = "add" /\ after[t] = "idle" /\ after = [after EXCEPT ![t] = "idle"]
      /\ MayVisit(t)
  BY <1>1 DEF Merge, Types, Visitors, WakePoints, MayVisit, Visits, MergePoints
<1> USE DEF Points, HoldPoints, InvokePoints, WakePoints, MergePoints, Owes
<1>3. PICK p \in {"disarm", "wake"} : Moves(t, p, "idle")
  BY <1>2 DEF Merge, Moves
<1>4. Types'
  BY <1>1, <1>3, CountersMove DEF Merge, Types
<1>5. Lock'
  BY <1>1, <1>2, <1>3, CountersMove, CountersAreNat DEF Merge, Lock, Hit
<1>6. References'
  <2>1. Held' = Held /\ ref' = ref /\ disposed' = disposed /\ ref \in Nat
    BY <1>1 DEF Merge, Held, Types
  <2> QED BY <1>1, <1>2, <1>3, <2>1, ReferencesMove DEF References
<1>7. Visitors'
  BY <1>1, <1>2, <1>3, VisitorsStay DEF Merge, MayVisit
<1>8. Kernel' /\ CancelOnce'
  BY <1>1, <1>2, <1>3, KernelStays, CancelStays DEF Merge, Gone
<1>9. DataConserved'
  <2>1. \A u \in Threads : pc'[u] = IF u = t THEN p ELSE pc[u]
    BY <1>1, <1>3, CountersMove
  <2>2. Running({"handler"})' = Running({"handler"})
    BY <1>2, <2>1 DEF Running
  <2>3. DataConserved
    BY DEF IInv
  <2> QED BY <1>1, <2>2, <2>3 DEF Merge, DataConserved, Gone, Types
<1> QED BY <1>4, <1>5, <1>6, <1>7, <1>8, <1>9 DEF IInv

\* A thread that owes or visits, or has the source, keeps it alive.
LEMMA Alive ==
    ASSUME IInv, NEW t \in Threads, Visits(t) \/ <<pc[t], after[t]>> \in OwePlaces
    PROVE  ref > 0 /\ ref \in Nat /\ ~disposed
<1>1. Owing \in Nat /\ Held \in Nat /\ ref = Held + Owing /\ ref \in Nat
  BY CountersAreNat DEF IInv, References, Held, Types
<1>2. CASE Visits(t)
  <2>1. Held > 0
    BY <1>2 DEF IInv, Visitors, Held, Types
  <2> QED BY <1>1, <2>1 DEF IInv, References
<1>3. CASE <<pc[t], after[t]>> \in OwePlaces
  BY <1>1, <1>3, CountersAreNat DEF IInv, References
<1> QED BY <1>2, <1>3

\* The steps that take or give back the lock, the queue or a reference.
LEMMA LockIInv ==
    ASSUME IInv, NEW t \in Threads,
           LockAndPush(t) \/ Dequeue(t) \/ LeaveInvoke(t) \/ Unlock(t) \/ ReleaseRef(t)
    PROVE  IInv'
<1> USE DEF Goto, Move, kinds, lock, queues, kevent, handlers, refs
<1>1. /\ Types /\ Lock /\ References /\ Visitors /\ CancelOnce /\ Held \in Nat /\ ref \in Nat
      /\ (Visits(t) \/ <<pc[t], after[t]>> \in OwePlaces => ref > 0 /\ ~disposed)
      /\ Holding \in Nat /\ (pc[t] \in HoldPoints => Holding > 0)
      /\ \A u \in Threads : on[u] = "mgr" => u = Manager
  BY Alive, CountersAreNat DEF IInv, Visitors, Held, Types
<1>2. /\ pc[t] \notin WakePoints => after[t] = "idle" /\ after = [after EXCEPT ![t] = "idle"]
      /\ after[t] \in {"idle", "release"} /\ tq[t] \in Queues \cup {"none"}
  BY <1>1 DEF Types, Visitors
<1> USE DEF Points, HoldPoints, InvokePoints, WakePoints, MergePoints, Owes
\* The parts they leave alone.
<1>3. ASSUME NEW p \in {"idle", "release", "run", "unlock", "recheck"}, Moves(t, p, "idle"),
             UNCHANGED <<kinds, kevent, canceled, value, handlers, holders, susp, targetq, items>>,
             on' \in [Threads -> Queues \cup {"none"}], tq' \in [Threads -> Queues \cup {"none"}],
             queued' \in Queues \cup {"none"}, ref' \in Nat,
             \A u \in Threads : on'[u] = "mgr" => u = Manager,
             pc[t] \notin {"handler", "cancelling"}, Lock', References'
      PROVE  IInv'
  <2>1. Types'
    BY <1>1, <1>3, CountersMove DEF Types, value
  <2>2. Visitors'
    BY <1>3, VisitorsStay
  <2>3. Kernel' /\ CancelOnce' /\ DataConserved'
    BY <1>3, KernelStays, CancelStays, DataStay DEF Gone
  <2> QED BY <1>3, <2>1, <2>2, <2>3 DEF IInv
<1>4. CASE LockAndPush(t)
  <2>1. PICK p \in {"idle", "release"} : p = after[t] /\ Moves(t, p, "idle")
    BY <1>2, <1>4 DEF LockAndPush, Return, Moves
  <2>2. Lock'
    BY <1>1, <1>4, <2>1, CountersMove DEF LockAndPush, Lock, Hit, Types, Queues
  <2>3. References'
    <3>1. /\ Held' \in Nat /\ ref' = ref + (Held' - Held) /\ ref' > 0 /\ disposed' = FALSE
          /\ ref' \in Nat
      <4>1. ref > 0 /\ ~disposed
        BY <1>1, <1>2, <1>4 DEF LockAndPush, Visits, OwePlaces
      <4>2. queued' # queued => queued = "none" /\ queued' # "none"
        BY <1>1, <1>4 DEF LockAndPush, Lock, Types, Queues
      <4>3. CASE susp = 0 /\ ~locked
        <5>1. queued = "none" /\ queued' # "none" /\ ref' = ref + 1
          BY <1>1, <1>4, <4>3 DEF LockAndPush, Lock, Types, Queues
        <5> QED BY <1>1, <1>4, <4>1, <5>1 DEF LockAndPush, Held, Types
      <4>4. CASE ~(susp = 0 /\ ~locked)
        BY <1>1, <1>4, <4>1, <4>4 DEF LockAndPush, Held, Types
      <4> QED BY <4>3, <4>4
    <3>2. Owes(p, "idle") = Owes(pc[t], after[t])
      BY <1>2, <1>4, <2>1 DEF LockAndPush
    <3> QED BY <1>1, <2>1, <3>1, <3>2, ReferencesMove
  <2> QED BY <1>1, <1>2, <1>3, <1>4, <2>1, <2>2, <2>3 DEF LockAndPush, Types
<1>5. CASE Dequeue(t)
  <2>1. Moves(t, "run", "idle") /\ pc[t] = "idle" /\ queued \in Queues /\ queued # "none"
    BY <1>2, <1>5 DEF Dequeue, Moves, Queues
  <2>2. Lock'
    <3>1. Holding' = Holding + 1
      BY <1>1, <2>1, CountersMove DEF Hit
    <3> QED BY <1>1, <1>5, <2>1, <3>1 DEF Dequeue, Lock
  <2>3. References'
    <3>1. Held' = Held - 1 /\ Held' \in Nat /\ ref' = ref /\ disposed' = disposed
      BY <1>1, <1>5, <2>1 DEF Dequeue, Held, Types
    <3>2. after[t] = "idle"
      BY <1>2, <2>1
    <3> QED BY <1>1, <2>1, <3>1, <3>2, ReferencesMove DEF References
  <2>4. /\ on' \in [Threads -> Queues \cup {"none"}]
        /\ \A u \in Threads : on'[u] = "mgr" => u = Manager
    BY <1>1, <1>5 DEF Dequeue, Types
  <2> QED BY <1>1, <1>3, <1>5, <2>1, <2>2, <2>3, <2>4 DEF Dequeue, Types
<1>6. CASE LeaveInvoke(t)
  <2>1. /\ pc[t] = "leave" /\ after[t] = "idle" /\ queued = "none"
        /\ tq[t] = "none" => Moves(t, "unlock", "idle") /\ queued' = "none"
        /\ tq[t] # "none" => Moves(t, "idle", "idle") /\ queued' \in Queues /\ queued' # "none"
        /\ queued' \in Queues \cup {"none"}
    <3>1. pc[t] = "leave" /\ after[t] = "idle" /\ after' = [after EXCEPT ![t] = "idle"]
      BY <1>2, <1>6 DEF LeaveInvoke
    <3>2. queued = "none"
      BY <1>1, <3>1 DEF Lock
    <3> QED BY <1>2, <1>6, <3>1, <3>2 DEF LeaveInvoke, Moves, Queues
  <2>2. Lock'
    BY <1>1, <1>6, <2>1, CountersMove DEF LeaveInvoke, Lock, Hit
  <2>3. References'
    <3>1. /\ Held' = IF tq[t] = "none" THEN Held ELSE Held + 1
          /\ Held' \in Nat /\ ref' = ref /\ disposed' = disposed
      BY <1>1, <1>6, <2>1 DEF LeaveInvoke, Held, Types
    <3> QED BY <1>1, <2>1, <3>1, ReferencesMove DEF References
  <2>4. /\ on' \in [Threads -> Queues \cup {"none"}] /\ tq' \in [Threads -> Queues \cup {"none"}]
        /\ \A u \in Threads : on'[u] = "mgr" => u = Manager
    BY <1>1, <1>6 DEF LeaveInvoke, Types
  <2> QED BY <1>1, <1>3, <1>6, <2>1, <2>2, <2>3, <2>4 DEF LeaveInvoke
<1>7. CASE Unlock(t)
  <2>1. /\ pc[t] = "unlock" /\ after[t] = "idle"
        /\ Moves(t, "recheck", "idle") \/ Moves(t, "release", "idle")
    BY <1>2, <1>7 DEF Unlock, Moves
  <2>2. Lock'
    BY <1>1, <1>7, <2>1, CountersMove DEF Unlock, Lock, Hit
  <2>3. References'
    <3>1. Held' = Held /\ ref' = ref /\ disposed' = disposed
      BY <1>7 DEF Unlock, Held
    <3> QED BY <1>1, <2>1, <3>1, ReferencesMove DEF References
  <2>4. /\ on' \in [Threads -> Queues \cup {"none"}]
        /\ \A u \in Threads : on'[u] = "mgr" => u = Manager
    BY <1>1, <1>7 DEF Unlock, Types
  <2> QED BY <1>1, <1>3, <1>7, <2>1, <2>2, <2>3, <2>4 DEF Unlock, Types
<1>8. CASE ReleaseRef(t)
  <2>1. pc[t] = "release" /\ after[t] = "idle" /\ Moves(t, "idle", "idle")
    BY <1>2, <1>8 DEF ReleaseRef, Moves
  <2>2. Lock'
    BY <1>1, <1>8, <2>1, CountersMove DEF ReleaseRef, Lock, Hit
  <2>3. ref > 0 /\ ~disposed
    BY <1>1, <2>1 DEF OwePlaces
  <2>4. References'
    <3>1. Held' = Held /\ ref' = ref - 1 /\ (disposed' <=> ref' = 0)
      <4>1. Held' = Held /\ ref' = ref - 1 /\ disposed' = (disposed \/ ref = 1)
        BY <1>8 DEF ReleaseRef, Held
      <4>2. ref' = 0 <=> ref = 1
        BY <1>1, <4>1
      <4> QED BY <2>3, <4>1, <4>2, Zenon
    <3>2. Owes(pc[t], after[t]) = 1 /\ Owes("idle", "idle") = 0
      BY <2>1
    <3> QED BY <1>1, <2>1, <3>1, <3>2, ReferencesMove
  <2> QED BY <1>1, <1>3, <1>8, <2>1, <2>2, <2>3, <2>4 DEF ReleaseRef, Types
<1> QED BY <1>4, <1>5, <1>6, <1>7, <1>8

\* A block on the source itself runs: the only cancel handler is set.
LEMMA DrainItemIInv ==
    ASSUME IInv, NEW t \in Threads, DrainItem(t)
    PROVE  IInv'
<1> USE DEF kinds, lock, queues, kevent, handlers, refs
<1>1. Types /\ Lock /\ References /\ Visitors /\ Kernel /\ CancelOnce /\ DataConserved
  BY DEF IInv
<1>2. /\ items # <<>> /\ items \in Seq({"target", "event", "cancel", "registration"})
      /\ items' = Tail(items) /\ items' \in Seq({"target", "event", "cancel", "registration"})
  BY <1>1 DEF DrainItem, Types
<1>3. Types'
  BY <1>1, <1>2 DEF DrainItem, Types, value, Queues
<1>4. Lock' /\ References' /\ Visitors' /\ Kernel'
  <2>1. Holding' = Holding /\ Owing' = Owing
    BY DEF DrainItem, Holding, Owing, Places
  <2> QED BY <1>1, <2>1 DEF DrainItem, Lock, References, Held, Visitors, Visits, Kernel, Gone
<1>5. DataConserved'
  BY <1>1 DEF DrainItem, DataConserved, Gone, Running, value
<1>6. CancelOnce'
  <2>1. \A i \in CancelBlocks' : i + 1 \in CancelBlocks /\ i \in Nat /\ i > 0
    BY <1>2 DEF CancelBlocks
  <2>2. Head(items) = "cancel" <=> 1 \in CancelBlocks
    BY <1>2 DEF CancelBlocks
  <2>3. cancelRuns' = cancelRuns /\ (cancelh' <=> cancelh \/ Head(items) = "cancel")
        /\ pc' = pc /\ dkev' = dkev /\ cancelRuns \in Nat
    BY <1>1 DEF DrainItem, Types
  <2>4. \A i, j \in CancelBlocks' : i = j
    BY <1>1, <2>1 DEF CancelOnce
  <2>5. cancelh' \/ cancelRuns' > 0 => CancelBlocks' = {}
    <3>1. ASSUME NEW i \in CancelBlocks' PROVE 1 \notin CancelBlocks
      BY <1>1, <2>1 DEF CancelOnce
    <3> QED BY <1>1, <2>1, <2>2, <2>3, <3>1 DEF CancelOnce
  <2>6. cancelRuns' > 0 /\ cancelh' => \E u \in Threads : pc'[u] = "cancelling"
    BY <1>1, <2>2, <2>3 DEF CancelOnce
  <2> QED BY <1>1, <2>3, <2>4, <2>5, <2>6 DEF CancelOnce
<1> QED BY <1>3, <1>4, <1>5, <1>6 DEF IInv

\* A step of the thread that has the source and keeps it: what it may leave to show.
EventMayGo(t) == (dkev' => dkev) /\ (dkev => dkev' \/ on[t] = "mgr")
LEMMA InvokeStep ==
    ASSUME IInv, NEW t \in Threads, pc[t] \in InvokePoints, NEW p \in InvokePoints,
           Goto(t, p), after' = after, tq' \in [Threads -> Queues \cup {"none"}],
           UNCHANGED <<lock, queues, holders, on>>, EventMayGo(t), ref' \in Nat, ref' = ref + (Held' - Held),
           disposed' = disposed,
           pending' \in Nat, data' \in Nat, merged' \in Nat, delivered' \in Nat,
           dropped' \in Nat, cancelRuns' \in Nat
    PROVE  /\ Types' /\ Lock' /\ References' /\ Visitors'
           /\ \A u \in Threads : pc'[u] = IF u = t THEN p ELSE pc[u]
           /\ \A u \in Threads : pc[u] \in HoldPoints => u = t
<1> USE DEF lock, queues
<1>1. /\ Types /\ Lock /\ References /\ Visitors /\ pc[t] \in HoldPoints /\ p \in HoldPoints
      /\ after[t] = "idle" /\ after = [after EXCEPT ![t] = "idle"] /\ p \in Points
  BY DEF IInv, Types, Visitors, HoldPoints, InvokePoints, WakePoints, Points
<1>2. Moves(t, p, "idle") /\ p \notin WakePoints \cup MergePoints
  BY <1>1 DEF Moves, Goto, InvokePoints, WakePoints, MergePoints
<1>3. Owes(p, "idle") = 1 /\ Owes(pc[t], after[t]) = 1 /\ ref > 0
  <2>1. <<pc[t], after[t]>> \in OwePlaces
    BY <1>1 DEF OwePlaces
  <2> QED BY <1>1, <2>1, Alive DEF Owes
<1>4. Types'
  BY <1>1, <1>2, CountersMove DEF Types
<1>5. Lock'
  BY <1>1, <1>2, CountersMove, CountersAreNat DEF Lock, Hit
<1>6. References'
  <2>1. Held' \in Nat /\ Held \in Nat
    BY <1>1 DEF Held, Types
  <2>2. ref' > 0
    <3>1. Owing' = Owing /\ Owing > 0
      <4>1. <<pc[t], after[t]>> \in OwePlaces
        BY <1>1 DEF OwePlaces
      <4> QED BY <1>1, <1>2, <1>3, <4>1, CountersMove, CountersAreNat
    <3>2. ref = Held + Owing /\ Owing \in Nat /\ ref \in Nat
      BY <1>1, CountersAreNat DEF References, Types
    <3>3. ref' = Held' + Owing
      BY <2>1, <3>2
    <3>4. \A m, n \in Nat : n > 0 => m + n > 0
      OBVIOUS
    <3>5. Held' + Owing > 0
      BY <2>1, <3>1, <3>2, <3>4, Zenon
    <3> QED BY <3>3, <3>5, Zenon
  <2>3. disposed = FALSE \/ ~disposed
    BY <1>3 DEF IInv, References
  <2>4. disposed' <=> ref' = 0
    BY <2>2, <2>3, <1>1, <1>3 DEF References
  <2>5. ref' = ref + (Held' - Held) + (Owes(p, "idle") - Owes(pc[t], after[t]))
    BY <1>1, <1>3, <2>1 DEF Types
  <2> QED BY <1>1, <1>2, <2>1, <2>4, <2>5, ReferencesMove
<1>7. \A u \in Threads : /\ pc'[u] = IF u = t THEN p ELSE pc[u]
                         /\ after'[u] = after[u] /\ on'[u] = on[u]
  BY <1>1, <1>2, CountersMove
<1>8. Visitors'
  BY <1>1, <1>2, <1>7 DEF Visitors, Visits, EventMayGo
<1>9. \A u \in Threads : pc[u] \in HoldPoints => u = t
  BY <1>1, HolderUnique
<1> QED BY <1>4, <1>5, <1>6, <1>7, <1>8, <1>9

\* The steps of an invocation that change what the invariant speaks of.
LEMMA InvokeIInv ==
    ASSUME IInv, NEW t \in Threads,
           \/ Install(t) \/ Uninstall(t) \/ CancelCallout(t) \/ CancelHandlerReturns(t)
           \/ Latch(t) \/ HandlerReturns(t) \/ Rearm(t)
    PROVE  IInv'
<1> USE DEF kinds, lock, queues, kevent, handlers, refs, Leave
<1>1. /\ Types /\ Lock /\ References /\ Visitors /\ Kernel /\ CancelOnce /\ DataConserved
      /\ tq \in [Threads -> Queues \cup {"none"}] /\ targetq \in Queues
      /\ pending \in Nat /\ data \in Nat /\ merged \in Nat /\ delivered \in Nat
      /\ dropped \in Nat /\ cancelRuns \in Nat /\ ref \in Nat /\ Held \in Nat
  BY DEF IInv, Types, Held
<1>2. ASSUME pc[t] \in {"invoke", "callout"}, NEW q \in Queues, Elsewhere(t, q)
      PROVE  IInv'
  BY <1>2, QuietInvoke
<1>3. "mgr" \in Queues /\ \A q \in Queues \cup {"none"} : [tq EXCEPT ![t] = q] \in [Threads -> Queues \cup {"none"}]
  BY <1>1 DEF Queues
\* From where a step leads to where, and the five parts that follow.
<1>4. ASSUME pc[t] \in InvokePoints, NEW p \in InvokePoints, Goto(t, p), after' = after,
             tq' \in [Threads -> Queues \cup {"none"}],
             UNCHANGED <<lock, queues, holders, disposed, on>>, EventMayGo(t), ref' \in Nat, ref' = ref + (Held' - Held),
             pending' \in Nat, data' \in Nat, merged' \in Nat, delivered' \in Nat,
             dropped' \in Nat, cancelRuns' \in Nat
      PROVE  /\ Types' /\ Lock' /\ References' /\ Visitors' /\ CancelBlocks' = CancelBlocks
             /\ \A u \in Threads : pc'[u] = IF u = t THEN p ELSE pc[u]
             /\ \A u \in Threads : pc[u] \in InvokePoints => u = t
  <2>1. CancelBlocks' = CancelBlocks
    BY <1>4 DEF CancelBlocks
  <2> QED BY <1>4, <2>1, InvokeStep DEF HoldPoints
<1> USE DEF InvokePoints
<1>5. CASE Install(t)
  <2>1. CASE Elsewhere(t, "mgr")
    BY <1>2, <1>3, <1>5, <2>1 DEF Install, Invoking
  <2>2. CASE ~Elsewhere(t, "mgr")
    <3>1. /\ pc[t] = "invoke" /\ ~installed /\ Goto(t, "leave") /\ dkev
          /\ UNCHANGED <<lock, queues, dkev, canceled, value, handlers, refs, on, after, level>>
          /\ tq' \in [Threads -> Queues \cup {"none"}]
      BY <1>1, <1>3, <1>5, <2>2 DEF Install, Invoking, Kernel
    <3>2. Held' = Held /\ EventMayGo(t)
      BY <3>1 DEF Held, EventMayGo
    <3>3. /\ Types' /\ Lock' /\ References' /\ Visitors' /\ CancelBlocks' = CancelBlocks
          /\ \A u \in Threads : pc'[u] = IF u = t THEN "leave" ELSE pc[u]
      BY <1>1, <1>4, <3>1, <3>2 DEF value
    <3>4. Kernel' /\ CancelOnce'
      BY <1>1, <3>1, <3>3 DEF Kernel, CancelOnce
    <3>5. DataConserved'
      <4>1. Running({"handler"})' = Running({"handler"})
        BY <3>1, <3>3 DEF Running
      <4> QED BY <1>1, <3>1, <4>1 DEF DataConserved, Gone, value
    <3> QED BY <3>3, <3>4, <3>5 DEF IInv
  <2> QED BY <2>1, <2>2
<1>6. CASE Uninstall(t)
  <2>1. CASE Elsewhere(t, "mgr")
    BY <1>2, <1>3, <1>6, <2>1 DEF Uninstall, Ready, Invoking
  <2>2. CASE ~Elsewhere(t, "mgr")
    <3>1. /\ pc[t] = "invoke" /\ installed /\ Gone /\ Goto(t, "callout") /\ ~dkev'
          /\ dkev => on[t] = "mgr" /\ knote' = FALSE /\ ref' = ref - 1
          /\ ~dkev => knote' = knote /\ ref' = ref
          /\ UNCHANGED <<lock, queues, installed, canceled, value, handlers, holders, disposed,
                         on, tq, after, level>>
      BY <1>6, <2>2 DEF Uninstall, Ready, Invoking
    <3>2. ref' \in Nat /\ ref' = ref + (Held' - Held)
      <4>1. Owing \in Nat /\ ref = Held + Owing
        BY <1>1, CountersAreNat DEF References
      <4>2. Held' = Held - (IF dkev THEN 1 ELSE 0) /\ Held' \in Nat
        BY <1>1, <3>1 DEF Held, Types
      <4> QED BY <1>1, <3>1, <4>1, <4>2
    <3>3. EventMayGo(t)
      BY <3>1 DEF EventMayGo
    <3>4. /\ Types' /\ Lock' /\ References' /\ Visitors' /\ CancelBlocks' = CancelBlocks
          /\ \A u \in Threads : pc'[u] = IF u = t THEN "callout" ELSE pc[u]
      <4>1. /\ pending' \in Nat /\ data' \in Nat /\ merged' \in Nat /\ delivered' \in Nat
            /\ dropped' \in Nat /\ cancelRuns' \in Nat /\ tq' \in [Threads -> Queues \cup {"none"}]
        BY <1>1, <3>1 DEF value
      <4>2. /\ UNCHANGED <<lock, queues, holders, disposed, on>> /\ after' = after
            /\ pc[t] \in InvokePoints /\ "callout" \in InvokePoints /\ Goto(t, "callout")
        BY <3>1
      <4> QED BY <1>4, <3>2, <3>3, <4>1, <4>2
    <3>5. Kernel'
      BY <1>1, <3>1, <3>4 DEF Kernel, Gone
    <3>6. CancelOnce'
      BY <1>1, <3>1, <3>4 DEF CancelOnce
    <3>7. DataConserved'
      BY <3>1 DEF DataConserved, Gone
    <3> QED BY <3>4, <3>5, <3>6, <3>7 DEF IInv
  <2> QED BY <2>1, <2>2
<1>7. CASE CancelCallout(t)
  <2>1. CASE Elsewhere(t, targetq)
    BY <1>1, <1>2, <1>7, <2>1 DEF CancelCallout
  <2>2. CASE ~Elsewhere(t, targetq)
    <3>1. /\ pc[t] = "callout" /\ pending' = 0 /\ data' = 0
          /\ UNCHANGED <<kinds, lock, queues, kevent, canceled, merged, delivered, dropped, regh,
                         refs, on, after>>
          /\ \/ /\ cancelh /\ Goto(t, "cancelling") /\ cancelRuns' = cancelRuns + 1
                /\ tq' = tq /\ cancelh' = cancelh
             \/ /\ Leave(t, "none") /\ cancelh' = FALSE /\ cancelRuns' = cancelRuns
      BY <1>7, <2>2 DEF CancelCallout
    <3>2. ~dkev /\ Gone /\ Held' = Held /\ EventMayGo(t)
      BY <1>1, <3>1 DEF Kernel, Held, EventMayGo
    <3>3. PICK p \in {"cancelling", "leave"} :
             /\ Goto(t, p)
             /\ p = "cancelling" => cancelh /\ cancelRuns' = cancelRuns + 1 /\ tq' = tq
             /\ p = "leave" => tq' = [tq EXCEPT ![t] = "none"] /\ ~cancelh' /\ cancelRuns' = cancelRuns
      BY <3>1
    <3>4. /\ tq' \in [Threads -> Queues \cup {"none"}] /\ cancelRuns' \in Nat
      BY <1>1, <1>3, <3>3
    <3>5. /\ Types' /\ Lock' /\ References' /\ Visitors' /\ CancelBlocks' = CancelBlocks
          /\ \A u \in Threads : pc'[u] = IF u = t THEN p ELSE pc[u]
          /\ \A u \in Threads : pc[u] \in InvokePoints => u = t
      BY <1>1, <1>4, <3>1, <3>2, <3>3, <3>4
    <3>6. Kernel'
      BY <1>1, <3>1, <3>2, <3>5 DEF Kernel, Gone
    <3>7. CancelOnce'
      <4>1. cancelh => cancelRuns = 0 /\ CancelBlocks = {}
        BY <1>1, <3>1, <3>5 DEF CancelOnce
      <4>2. \A u \in Threads : pc'[u] \notin {"latch", "xchg", "handler", "arm"}
        BY <3>1, <3>3, <3>5
      <4>3. CASE p = "cancelling"
        BY <1>1, <3>1, <3>2, <3>3, <3>5, <4>1, <4>2, <4>3 DEF CancelOnce
      <4>4. CASE p = "leave"
        BY <1>1, <3>1, <3>2, <3>3, <3>5, <4>2, <4>4 DEF CancelOnce
      <4> QED BY <4>3, <4>4
    <3>8. DataConserved'
      BY <3>1, <3>2 DEF DataConserved, Gone
    <3> QED BY <3>5, <3>6, <3>7, <3>8 DEF IInv
  <2> QED BY <2>1, <2>2
<1>8. CASE CancelHandlerReturns(t)
  <2>1. /\ pc[t] = "cancelling" /\ Goto(t, "leave") /\ ~cancelh'
        /\ tq' \in [Threads -> Queues \cup {"none"}] /\ Held' = Held /\ EventMayGo(t)
        /\ UNCHANGED <<kinds, lock, queues, kevent, canceled, value, cancelRuns, refs, on, after>>
    BY <1>3, <1>8 DEF CancelHandlerReturns, Held, EventMayGo
  <2>2. /\ Types' /\ Lock' /\ References' /\ Visitors' /\ CancelBlocks' = CancelBlocks
        /\ \A u \in Threads : pc'[u] = IF u = t THEN "leave" ELSE pc[u]
    BY <1>1, <1>4, <2>1 DEF value
  <2>3. Kernel' /\ CancelOnce'
    BY <1>1, <2>1, <2>2 DEF Kernel, CancelOnce, Gone
  <2>4. DataConserved'
    BY <1>1, <2>1 DEF Kernel, DataConserved, Gone
  <2> QED BY <2>2, <2>3, <2>4 DEF IInv
<1>9. CASE Latch(t)
  <2>1. /\ pc[t] = "xchg" /\ data' = pending /\ pending' = 0 /\ Held' = Held /\ EventMayGo(t)
        /\ UNCHANGED <<kinds, lock, queues, kevent, canceled, merged, delivered, handlers, refs,
                       on, after>>
    BY <1>9 DEF Latch, Held, EventMayGo
  <2>2. PICK p \in {"handler", "leave"} :
           /\ Goto(t, p) /\ tq' \in [Threads -> Queues \cup {"none"}]
           /\ dropped' = IF p = "handler" THEN dropped ELSE dropped + pending
    BY <1>1, <1>3, <1>9 DEF Latch, CallHandler, AfterDelivery
  <2>3. /\ Types' /\ Lock' /\ References' /\ Visitors' /\ CancelBlocks' = CancelBlocks
        /\ \A u \in Threads : pc'[u] = IF u = t THEN p ELSE pc[u]
        /\ \A u \in Threads : pc[u] \in InvokePoints => u = t
    BY <1>1, <1>4, <2>1, <2>2
  <2>4. Kernel' /\ CancelOnce'
    BY <1>1, <2>1, <2>2, <2>3 DEF Kernel, CancelOnce, Gone
  <2>5. DataConserved'
    <3>1. Running({"handler"}) = {}
      BY <2>1, <2>3 DEF Running
    <3>2. CASE p = "handler"
      <4>1. t \in Running({"handler"})'
        BY <2>3, <3>2 DEF Running
      <4> QED BY <1>1, <2>1, <2>2, <3>1, <3>2, <4>1 DEF DataConserved, Gone
    <3>3. CASE p = "leave"
      <4>1. Running({"handler"})' = {}
        BY <2>1, <2>3, <3>3 DEF Running
      <4> QED BY <1>1, <2>1, <2>2, <3>1, <3>3, <4>1 DEF DataConserved, Gone
    <3> QED BY <3>2, <3>3
  <2> QED BY <2>3, <2>4, <2>5 DEF IInv
<1>10. CASE HandlerReturns(t)
  <2>1. /\ pc[t] = "handler" /\ Goto(t, "leave") /\ delivered' = delivered + data /\ Held' = Held
        /\ EventMayGo(t)
        /\ tq' \in [Threads -> Queues \cup {"none"}]
        /\ UNCHANGED <<kinds, lock, queues, kevent, canceled, pending, data, merged, dropped,
                       handlers, refs, on, after>>
    BY <1>3, <1>10 DEF HandlerReturns, AfterDelivery, Held, EventMayGo
  <2>2. /\ Types' /\ Lock' /\ References' /\ Visitors' /\ CancelBlocks' = CancelBlocks
        /\ \A u \in Threads : pc'[u] = IF u = t THEN "leave" ELSE pc[u]
        /\ \A u \in Threads : pc[u] \in InvokePoints => u = t
    BY <1>1, <1>4, <2>1
  <2>3. Kernel' /\ CancelOnce'
    BY <1>1, <2>1, <2>2 DEF Kernel, CancelOnce, Gone
  <2>4. DataConserved'
    <3>1. t \in Running({"handler"}) /\ Running({"handler"})' = {}
      BY <2>1, <2>2 DEF Running
    <3> QED BY <1>1, <2>1, <3>1 DEF DataConserved, Gone
  <2> QED BY <2>2, <2>3, <2>4 DEF IInv
<1>11. CASE Rearm(t)
  <2>1. CASE Elsewhere(t, "mgr")
    BY <1>2, <1>3, <1>11, <2>1 DEF Rearm, Ready, Invoking
  <2>2. CASE ~Elsewhere(t, "mgr")
    <3>1. /\ pc[t] = "invoke" /\ ~Gone /\ Goto(t, "arm")
          /\ UNCHANGED <<kinds, lock, queues, installed, dkev, canceled, value, handlers, refs,
                         on, tq, after>>
      BY <1>11, <2>2 DEF Rearm, Ready, Invoking
    <3>2. dkev /\ Held' = Held /\ cancelRuns = 0 /\ EventMayGo(t)
      BY <1>1, <3>1 DEF Kernel, Held, CancelOnce, EventMayGo
    <3>3. /\ Types' /\ Lock' /\ References' /\ Visitors' /\ CancelBlocks' = CancelBlocks
          /\ \A u \in Threads : pc'[u] = IF u = t THEN "arm" ELSE pc[u]
      BY <1>1, <1>4, <3>1, <3>2 DEF value
    <3>4. Kernel' /\ CancelOnce'
      BY <1>1, <3>1, <3>2, <3>3 DEF Kernel, CancelOnce
    <3>5. DataConserved'
      <4>1. Running({"handler"})' = Running({"handler"})
        BY <3>1, <3>3 DEF Running
      <4> QED BY <1>1, <3>1, <4>1 DEF DataConserved, Gone, value
    <3> QED BY <3>3, <3>4, <3>5 DEF IInv
  <2> QED BY <2>1, <2>2
<1> QED BY <1>5, <1>6, <1>7, <1>8, <1>9, <1>10, <1>11

\* The invariant holds when the handlers have been set: the clients and the
\* manager queue have a reference, and the suspension a third.
LEMMA InitIInv == Init => IInv
<1> SUFFICES ASSUME Init PROVE IInv
  OBVIOUS
<1> USE DEF Init
<1>1. \A t \in Threads : pc[t] = "idle" /\ after[t] = "idle" /\ on[t] = "none"
  OBVIOUS
<1>2. Types
  <2>1. items \in Seq({"target", "event", "cancel", "registration"})
    <3> DEFINE S == {"target", "event", "cancel", "registration"}
    <3>1. <<"target">> \in Seq(S) /\ <<"target", "event", "registration", "cancel">> \in Seq(S)
      OBVIOUS
    <3>2. items = <<"target">> \/ items = <<"target", "event", "registration", "cancel">>
      BY DEF Setup
    <3> QED BY <3>1, <3>2, Zenon
  <2>2. /\ pc \in [Threads -> Points] /\ after \in [Threads -> {"idle", "release"}]
        /\ on \in [Threads -> Queues \cup {"none"}] /\ tq \in [Threads -> Queues \cup {"none"}]
    BY DEF Points
  <2>3. /\ targetq \in Queues /\ queued \in Queues \cup {"none"} /\ holders \subseteq Clients
        /\ {susp, ref, pending, data, merged, delivered, dropped, cancelRuns} \subseteq Nat
    BY DEF Queues
  <2> QED BY <2>1, <2>2, <2>3 DEF Types
<1>3. Holding = 0 /\ Owing = 0
  <2>1. ThreadsAt(Threads, pc, HoldPoints) = {} /\ ThreadsAt(Threads, Places, OwePlaces) = {}
    BY <1>1 DEF ThreadsAt, HoldPoints, InvokePoints, Places, OwePlaces, WakePoints
  <2> QED BY <2>1, FS_EmptySet DEF Holding, Owing, CountAt
<1>4. Lock /\ References
  <2>1. holders # {}
    BY SourceAssumption DEF SourceAssumption
  <2>2. Held = 3
    BY <2>1 DEF Held
  <2> QED BY <1>3, <2>2 DEF Lock, References
<1>5. Visitors /\ Kernel
  BY <1>1 DEF Visitors, Visits, MergePoints, WakePoints, Kernel
<1>6. CancelOnce
  <2>1. ASSUME NEW i \in CancelBlocks PROVE i = 4
    BY <2>1 DEF CancelBlocks, Setup
  <2> QED BY <2>1 DEF CancelOnce
<1>7. DataConserved
  <2>1. Running({"handler"}) = {}
    BY <1>1 DEF Running
  <2> QED BY <2>1 DEF DataConserved
<1> QED BY <1>2, <1>4, <1>5, <1>6, <1>7 DEF IInv

\* The invariant is preserved by every step.
LEMMA NextIInv == IInv /\ [Next]_vars => IInv'
<1> SUFFICES ASSUME IInv, [Next]_vars PROVE IInv'
  OBVIOUS
<1>1. ASSUME NEW t \in Clients, ClientCall(t) PROVE IInv'
  <2>1. t \in Threads
    BY DEF Threads
  <2>2. CASE MergeData(t)
    BY <2>1, <2>2, QuietWakeup
  <2>3. CASE SetHandler(t, "event") \/ SetHandler(t, "cancel")
    BY <2>3, SetHandlerIInv
  <2>4. CASE Cancel(t) \/ Suspend(t) \/ Resume(t) \/ Release(t)
    BY <2>4, ClientIInv
  <2> QED BY <1>1, <2>2, <2>3, <2>4 DEF ClientCall
<1>2. CASE KernelEvent
  BY <1>2, ThreadSorts, QuietWakeup
<1>3. ASSUME NEW t \in Threads, Invoke(t) PROVE IInv'
  BY <1>3, QuietInvoke, InvokeIInv DEF Invoke
<1>4. ASSUME NEW t \in Threads, Step(t) PROVE IInv'
  <2>1. CASE MergeTest(t) \/ Disarm(t) \/ WakeTest(t) \/ Probe(t) \/ Recheck(t)
    BY <2>1, QuietWakeup
  <2>2. CASE Enter(t) \/ DrainEnds(t)
    BY <2>2, QuietInvoke
  <2>3. CASE LockAndPush(t) \/ Dequeue(t) \/ LeaveInvoke(t) \/ Unlock(t) \/ ReleaseRef(t)
    BY <2>3, LockIInv
  <2>4. CASE Merge(t) \/ DrainItem(t)
    BY <2>4, MergeIInv, DrainItemIInv
  <2> QED BY <1>3, <1>4, <2>1, <2>2, <2>3, <2>4 DEF Step
<1>5. CASE UNCHANGED vars
  <2> USE <1>5 DEF vars, source, kinds, lock, queues, kevent, value, handlers, refs
  <2>1. Holding' = Holding /\ Owing' = Owing /\ Held' = Held /\ CancelBlocks' = CancelBlocks
    BY DEF Holding, Owing, Places, Held, CancelBlocks
  <2>2. (Types /\ Lock /\ References)'
    BY <2>1 DEF IInv, Types, Lock, References
  <2>3. (Visitors /\ Kernel)'
    BY DEF IInv, Visitors, Visits, Kernel, Gone
  <2>4. (CancelOnce /\ DataConserved)'
    BY <2>1 DEF IInv, CancelOnce, DataConserved, Gone, Running
  <2> QED BY <2>2, <2>3, <2>4 DEF IInv
<1> QED BY <1>1, <1>2, <1>4, <1>5 DEF Next

\* The source is on one queue or run by one thread, so that no handler runs beside
\* another: the lock bit of do_suspend_cnt goes with the source from the push of
\* _dispatch_wakeup to the unlock of _dispatch_queue_invoke.
THEOREM OneInvocationHolds == Spec => []OneInvocation
<1>1. ASSUME IInv PROVE OneInvocation
  <2>1. Running({"run", "unlock"} \cup InvokePoints) = ThreadsAt(Threads, pc, HoldPoints)
    BY DEF Running, ThreadsAt, HoldPoints
  <2> QED BY <1>1, <2>1 DEF IInv, Lock, Holding, CountAt, OneInvocation
<1> QED BY <1>1, InitIInv, NextIInv, PTL DEF Spec

\* What is merged is delivered once, or latched while no handler was set, however
\* the merges of clients interleave with the exchange and the handlers are set
\* (source.c, _dispatch_source_latch_and_call).
THEOREM DataConservedHolds == Spec => []DataConserved
<1>1. IInv => DataConserved
  BY DEF IInv
<1> QED BY <1>1, InitIInv, NextIInv, PTL DEF Spec

\* The cancel handler runs once, when the kernel event is gone and nothing will be
\* delivered any more (source.c, _dispatch_source_invoke).
THEOREM CancelIsLastHolds == Spec => []CancelIsLast
<1>1. ASSUME IInv PROVE CancelIsLast
  BY <1>1 DEF IInv, CancelOnce, Kernel, CancelIsLast, Running
<1> QED BY <1>1, InitIInv, NextIInv, PTL DEF Spec

\* The memory of a source is not given back while a thread may use it: every user
\* has a reference or leans on one of the clients' or the manager queue's
\* (object.c, _dispatch_release; source.c, _dispatch_source_xref_dispose).
THEOREM NoUseAfterDisposeHolds == Spec => []NoUseAfterDispose
<1>1. ASSUME IInv PROVE NoUseAfterDispose
  <2> SUFFICES ASSUME disposed
               PROVE  /\ holders = {} /\ ~dkev /\ queued = "none"
                      /\ \A t \in Threads : pc[t] = "idle"
    BY DEF NoUseAfterDispose
  <2>1. Held \in Nat /\ Owing \in Nat /\ Held = 0
    BY <1>1, CountersAreNat DEF IInv, References, Held, Types
  <2>2. ASSUME NEW t \in Threads PROVE pc[t] = "idle"
    <3>1. ~Visits(t) /\ <<pc[t], after[t]>> \notin OwePlaces
      BY <1>1, Alive
    <3>2. pc[t] \in Points /\ after[t] \in {"idle", "release"}
      BY <1>1 DEF IInv, Types
    <3> QED BY <3>1, <3>2 DEF Points, Visits, OwePlaces, HoldPoints
  <2> QED BY <1>1, <2>1, <2>2 DEF Held, IInv, Types
<1> QED BY <1>1, InitIInv, NextIInv, PTL DEF Spec

-----------------------------------------------------------------------------
(* What there is to do, and who will see to it.                            *)

\* dq_running is set only while a thread runs the source.
RunningHeld == running => \E t \in Threads : pc[t] \in InvokePoints

\* Work for a source that is not suspended is seen by who has the source, by who
\* gets it from the queue it is on, or by a wakeup that has yet to look.
Work == items # <<>> \/ _dispatch_source_probe
LookPoints == WakePoints \cup {"recheck", "disarm"}
Covered == susp = 0 /\ Work => locked \/ \E t \in Threads : pc[t] \in LookPoints

\* A source of the level kind that says it is armed is so in the kernel, or the
\* manager has just received its event, or it is about to be uninstalled.
\* The manager alone arms it, so no event comes between the two steps of that.
Level ==
    level => /\ dkev => rearm
             /\ \A t \in Threads : pc[t] \in MergePoints => t = Manager
             /\ \A t \in Threads : pc[t] = "arm" => t = Manager /\ knote
             /\ armed => knote \/ pc[Manager] \in MergePoints \/ (Gone /\ dkev)

\* The inductive invariant with these.
KIInv == IInv /\ RunningHeld /\ Covered /\ Level

LEMMA InitKIInv == Init => KIInv
<1> SUFFICES ASSUME Init PROVE KIInv
  OBVIOUS
<1>1. Manager \in Threads /\ pc = [t \in Threads |-> "idle"]
  BY ThreadSorts DEF Init
<1> QED BY <1>1, InitIInv DEF Init, KIInv, RunningHeld, Covered, Level, MergePoints

\* Thread t goes to p, and the others stay where they are.
Goes(t, p) == \A u \in Threads : pc'[u] = IF u = t THEN p ELSE pc[u]

\* Who has the source, has it alone and locked.
LEMMA HolderAlone ==
    ASSUME IInv, NEW t \in Threads, pc[t] \in HoldPoints
    PROVE  locked /\ \A u \in Threads : pc[u] \in HoldPoints => u = t
BY HolderUnique DEF IInv

\* What is said of the level kind stays, if the fields it speaks of do.
LEMMA LevelStays ==
    ASSUME KIInv, NEW t \in Threads, NEW p, Goes(t, p),
           UNCHANGED <<level, rearm, dkev, armed, knote>>, Gone => Gone',
           p \in MergePoints \cup {"arm"} => pc[t] = p,
           pc[t] \in MergePoints => p \in MergePoints \/ ~armed
    PROVE  Level'
<1>1. Manager \in Threads
  BY ThreadSorts
<1> QED BY <1>1 DEF KIInv, Level, Goes

\* The thread that runs the source goes on, and sees whatever work there is.
LEMMA HolderSees ==
    ASSUME KIInv, NEW t \in Threads, pc[t] \in HoldPoints, NEW p, Goes(t, p),
           locked' = locked, Level',
           running' => p \in InvokePoints
    PROVE  RunningHeld' /\ Covered' /\ Level'
<1>1. locked
  BY HolderAlone DEF KIInv
<1> QED BY <1>1 DEF Goes, RunningHeld, Covered

\* A thread that does not run the source moves, and either looks for work after
\* that, or there is none that was not there before and that it would have seen.
LEMMA OtherMoves ==
    ASSUME KIInv, NEW t \in Threads, pc[t] \notin InvokePoints, NEW p, Goes(t, p),
           running' = running, Level', p \in LookPoints \/ (susp' = 0 /\ Work' => locked')
               \/ (/\ susp' = 0 /\ Work' => susp = 0 /\ Work
                   /\ locked' = locked /\ pc[t] \notin LookPoints)
    PROVE  RunningHeld' /\ Covered' /\ Level'
<1>1. RunningHeld'
  BY DEF KIInv, RunningHeld, Goes
<1>2. Covered'
  BY DEF KIInv, Covered, Goes
<1> QED BY <1>1, <1>2

\* The calls of the clients wake the source up when they make work for it.
LEMMA ClientKeeps ==
    ASSUME KIInv, NEW t \in Clients, ClientCall(t)
    PROVE  RunningHeld' /\ Covered' /\ Level'
<1>1. t \in Threads /\ t # Manager /\ pc[t] = "idle" /\ pc \in [Threads -> Points]
  BY ThreadSorts
     DEF ClientCall, MergeData, Cancel, SetHandler, Suspend, Resume, Release, Call,
         Threads, KIInv, IInv, Types
<1> USE DEF Goto, Wakeup, Call, kinds, lock, queues, kevent, value, handlers, refs
\* Where the call leads, and that it leaves what the level kind is about.
<1>2. ASSUME NEW p \in {"idle", "wake", "release"}, Goes(t, p),
             UNCHANGED <<level, rearm, dkev, armed, knote, running, locked>>, Gone => Gone',
             p = "wake" \/ (susp' = 0 /\ Work' => locked \/ (susp = 0 /\ Work))
      PROVE  RunningHeld' /\ Covered' /\ Level'
  <2>1. Level'
    BY <1>1, <1>2, LevelStays DEF MergePoints
  <2>2. RunningHeld'
    BY <1>1, <1>2 DEF KIInv, RunningHeld, Goes, InvokePoints
  <2>3. Covered'
    BY <1>1, <1>2 DEF KIInv, Covered, Goes, LookPoints, WakePoints
  <2> QED BY <2>1, <2>2, <2>3
<1>3. CASE MergeData(t)
  <2>1. Goes(t, "merge") /\ ~level /\ ~level'
    BY <1>1, <1>3 DEF MergeData, Goes, source
  <2>2. UNCHANGED <<running, locked, susp, items>> /\ (Work' <=> Work)
    BY <1>3 DEF MergeData, source, Work, _dispatch_source_probe, Gone
  <2>3. Level'
    BY <2>1 DEF Level
  <2> QED BY <1>1, <2>1, <2>2, <2>3, OtherMoves DEF InvokePoints, LookPoints, WakePoints
<1>4. CASE Cancel(t)
  <2>1. Goes(t, "wake") /\ Gone'
    BY <1>1, <1>4 DEF Cancel, Goes, Gone
  <2> QED BY <1>2, <1>4, <2>1 DEF Cancel
<1>5. ASSUME NEW h \in {"event", "cancel"}, SetHandler(t, h)
      PROVE  RunningHeld' /\ Covered' /\ Level'
  <2>1. PICK p \in {"idle", "wake"} : Goes(t, p) /\ (p = "wake" <=> items = <<>>)
    BY <1>1, <1>5 DEF SetHandler, Goes
  <2>2. p = "wake" \/ (susp' = 0 /\ Work' => locked \/ (susp = 0 /\ Work))
    BY <1>5, <2>1 DEF SetHandler, Work
  <2> QED BY <1>2, <1>5, <2>1, <2>2 DEF SetHandler, Gone
<1>6. CASE Suspend(t)
  <2>1. Goes(t, "idle") /\ susp' = 1
    BY <1>1, <1>6 DEF Suspend, Goes
  <2> QED BY <1>2, <1>6, <2>1 DEF Suspend, Gone
<1>7. CASE Resume(t)
  <2>1. PICK p \in {"release", "wake"} : Goes(t, p) /\ (p = "wake" <=> susp = 1 /\ ~locked)
    BY <1>1, <1>7 DEF Resume, Goes
  <2>2. p = "wake" \/ susp' # 0 \/ locked
    BY <1>7, <2>1 DEF Resume, KIInv, IInv, Types
  <2> QED BY <1>2, <1>7, <2>1, <2>2 DEF Resume, Gone
<1>8. CASE Release(t)
  <2>1. PICK p \in {"idle", "wake"} : Goes(t, p) /\ (p = "wake" <=> holders' = {})
    BY <1>1, <1>8 DEF Release, Goes
  <2>2. /\ Gone => Gone'
        /\ p = "wake" \/ (Work' => Work)
    BY <1>8, <2>1 DEF Release, Gone, Work, _dispatch_source_probe
  <2>3. susp' = susp
    BY <1>8 DEF Release
  <2> QED BY <1>2, <1>8, <2>1, <2>2, <2>3 DEF Release
<1> QED BY <1>3, <1>4, <1>5, <1>6, <1>7, <1>8 DEF ClientCall

\* Events, wakeups, and what comes before and after an invocation.
LEMMA OutsideKeeps ==
    ASSUME KIInv, NEW t \in Threads,
           \/ (t = Manager /\ KernelEvent) \/ MergeTest(t) \/ Merge(t) \/ Disarm(t)
           \/ WakeTest(t) \/ Probe(t) \/ LockAndPush(t) \/ Dequeue(t) \/ Enter(t)
           \/ Unlock(t) \/ Recheck(t) \/ ReleaseRef(t)
    PROVE  RunningHeld' /\ Covered' /\ Level'
<1>1. /\ pc \in [Threads -> Points] /\ Manager \in Threads
      /\ after[t] \in {"idle", "release"}
      /\ pc[t] \in MergePoints /\ level => t = Manager /\ dkev /\ rearm /\ t \notin holders
  BY ThreadSorts DEF KIInv, IInv, Types, Visitors, Visits, Level
<1> USE DEF Goto, Move, Wakeup, Return, source, kinds, lock, queues, kevent, value, handlers, refs
\* A step of a wakeup that changes neither work nor the kernel event.
<1>2. ASSUME NEW p, Goes(t, p), p \notin MergePoints \cup {"arm"}, pc[t] \notin MergePoints,
             pc[t] \notin InvokePoints,
             UNCHANGED <<level, rearm, dkev, armed, knote, canceled, holders, running>>,
             p \in LookPoints \/ (susp' = 0 /\ Work' => locked')
               \/ ((susp' = 0 /\ Work' => susp = 0 /\ Work)
                   /\ locked' = locked /\ pc[t] \notin LookPoints)
      PROVE  RunningHeld' /\ Covered' /\ Level'
  <2>1. Level'
    BY <1>2, LevelStays DEF Gone
  <2> QED BY <1>2, <2>1, OtherMoves
<1>3. CASE t = Manager /\ KernelEvent
  <2>1. /\ Goes(t, "merge") /\ pc[t] = "idle" /\ dkev
        /\ UNCHANGED <<level, rearm, armed, dkev, running, locked, susp>>
    BY <1>1, <1>3 DEF KernelEvent, Goes, KIInv, IInv, Kernel
  <2>2. Work' <=> Work
    BY <1>3 DEF KernelEvent, Work, _dispatch_source_probe, Gone
  <2>3. Level'
    BY <1>1, <1>3, <2>1 DEF KIInv, Level, Goes, MergePoints
  <2> QED BY <2>1, <2>2, <2>3, OtherMoves DEF InvokePoints, LookPoints, WakePoints
<1>4. CASE MergeTest(t)
  <2>1. PICK p \in {"idle", "add"} : Goes(t, p) /\ (p = "idle" <=> Gone)
    BY <1>1, <1>4 DEF MergeTest, Goes
  <2>2. /\ pc[t] = "merge" /\ (Work' <=> Work) /\ (Gone' <=> Gone)
        /\ UNCHANGED <<level, rearm, dkev, armed, knote, running, locked, susp>>
    BY <1>4 DEF MergeTest, Work, _dispatch_source_probe, Gone
  <2>3. Level'
    BY <1>1, <2>1, <2>2 DEF KIInv, Level, Goes, MergePoints
  <2> QED BY <2>1, <2>2, <2>3, OtherMoves DEF InvokePoints, LookPoints, WakePoints
<1>5. CASE Merge(t)
  <2>1. PICK p \in {"disarm", "wake"} : Goes(t, p) /\ (p = "disarm" <=> rearm)
    BY <1>1, <1>5 DEF Merge, Goes
  <2>2. /\ pc[t] = "add" /\ (Gone' <=> Gone)
        /\ UNCHANGED <<level, rearm, dkev, armed, knote, running, locked, susp>>
    BY <1>5 DEF Merge, Gone
  <2>3. Level'
    BY <1>1, <2>1, <2>2 DEF KIInv, Level, Goes, MergePoints
  <2> QED BY <2>1, <2>2, <2>3, OtherMoves DEF InvokePoints, LookPoints, WakePoints
<1>6. CASE Disarm(t)
  <2>1. /\ Goes(t, "wake") /\ pc[t] = "disarm" /\ ~armed' /\ (Gone' <=> Gone)
        /\ UNCHANGED <<level, rearm, dkev, knote, running, locked, susp>>
    BY <1>1, <1>6 DEF Disarm, Goes, Gone
  <2>2. Level'
    BY <1>1, <2>1 DEF KIInv, Level, Goes, MergePoints
  <2> QED BY <2>1, <2>2, OtherMoves DEF InvokePoints, LookPoints, WakePoints
<1> USE DEF InvokePoints, LookPoints, WakePoints, MergePoints
<1>7. CASE WakeTest(t)
  <2>1. PICK p \in {"probe", "idle", "release"} : Goes(t, p) /\ (susp = 0 => p = "probe")
    BY <1>1, <1>7 DEF WakeTest, Goes, KIInv, IInv, Types
  <2> QED BY <1>2, <1>7, <2>1 DEF WakeTest
<1>8. CASE Probe(t)
  <2>1. PICK p \in {"lock", "idle", "release"} : Goes(t, p) /\ (Work => p = "lock")
    BY <1>1, <1>8 DEF Probe, Goes, Work
  <2>2. Work' <=> Work
    BY <1>8 DEF Probe, Work, _dispatch_source_probe, Gone
  <2> QED BY <1>2, <1>8, <2>1, <2>2 DEF Probe
<1>9. CASE LockAndPush(t)
  <2>1. Goes(t, after[t])
    BY <1>1, <1>9 DEF LockAndPush, Goes
  <2>2. susp' = 0 => locked'
    BY <1>9 DEF LockAndPush
  <2> QED BY <1>1, <1>2, <1>9, <2>1, <2>2 DEF LockAndPush
<1>10. CASE Dequeue(t)
  <2>1. Goes(t, "run") /\ pc[t] = "idle" /\ queued # "none"
    BY <1>1, <1>10 DEF Dequeue, Goes
  <2>2. locked
    BY <2>1, CountersAreNat DEF KIInv, IInv, Lock
  <2> QED BY <1>2, <1>10, <2>1, <2>2 DEF Dequeue
<1>11. CASE Enter(t)
  <2>1. ~running
    BY <1>11, HolderAlone DEF Enter, KIInv, RunningHeld, HoldPoints
  <2>2. PICK p \in {"drain", "unlock"} : Goes(t, p) /\ (running' => p = "drain")
    BY <1>1, <1>11, <2>1 DEF Enter, Goes
  <2>3. Level'
    BY <1>11, <2>2, LevelStays DEF Enter, Gone
  <2> QED BY <1>11, <2>2, <2>3, HolderSees DEF Enter, HoldPoints
<1>12. CASE Unlock(t)
  <2>1. PICK p \in {"recheck", "release"} : Goes(t, p) /\ (susp = 0 => p = "recheck")
    BY <1>1, <1>12 DEF Unlock, Goes
  <2> QED BY <1>2, <1>12, <2>1 DEF Unlock
<1>13. CASE Recheck(t)
  <2>1. PICK p \in {"release", "wake"} : Goes(t, p) /\ (~running => p = "wake")
    BY <1>1, <1>13 DEF Recheck, Goes
  <2>2. running => locked
    BY HolderAlone DEF KIInv, RunningHeld, HoldPoints
  <2> QED BY <1>2, <1>13, <2>1, <2>2 DEF Recheck
<1>14. CASE ReleaseRef(t)
  <2>1. Goes(t, "idle") /\ pc[t] = "release"
    BY <1>1, <1>14 DEF ReleaseRef, Goes
  <2>2. Work' <=> Work
    BY <1>14 DEF ReleaseRef, Work, _dispatch_source_probe, Gone
  <2> QED BY <1>2, <1>14, <2>1, <2>2 DEF ReleaseRef
<1> QED BY <1>3, <1>4, <1>5, <1>6, <1>7, <1>8, <1>9, <1>10, <1>11, <1>12, <1>13, <1>14

\* The steps of an invocation see the work themselves; those that arm the kernel
\* event and uninstall it keep what is said of the level kind.
LEMMA InvokeKeeps ==
    ASSUME KIInv, NEW t \in Threads, Invoke(t) \/ DrainItem(t) \/ DrainEnds(t) \/ LeaveInvoke(t)
    PROVE  RunningHeld' /\ Covered' /\ Level'
<1>1. pc \in [Threads -> Points] /\ Manager \in Threads /\ pc[t] \in InvokePoints
  BY ThreadSorts
     DEF KIInv, IInv, Types, InvokePoints, Invoke, Install, InvokeSuspended,
         RegistrationCallout, Uninstall, CancelCallout, CancelHandlerReturns, Deliver, LatchTest,
         Latch, HandlerReturns, Rearm, Arm, NothingToDo, Ready, Invoking, DrainItem, DrainEnds,
         LeaveInvoke, Move
<1>2. /\ \A u \in Threads : pc[u] \in InvokePoints => u = t
      /\ pc[Manager] \in MergePoints => dkev
      /\ on[t] = "mgr" => t = Manager
      /\ ~dkev => Gone /\ ~knote
  BY <1>1, HolderAlone, ThreadSorts, SourceAssumption
     DEF HoldPoints, KIInv, IInv, Visitors, Visits, Kernel, Types, SourceAssumption
<1> USE DEF Goto, Move, source, kinds, lock, queues, kevent, value, handlers, refs
\* It goes on within the invocation, or out of it with the lock.
<1>3. ASSUME NEW p, Goes(t, p), p \in InvokePoints \/ ~running', locked' = locked, Level'
      PROVE  RunningHeld' /\ Covered' /\ Level'
  BY <1>1, <1>3, HolderSees DEF HoldPoints
<1>4. ASSUME NEW p, Goes(t, p), p \in InvokePoints \/ ~running', p \notin MergePoints \cup {"arm"},
             UNCHANGED <<level, rearm, dkev, armed, knote, locked, canceled, holders>>
      PROVE  RunningHeld' /\ Covered' /\ Level'
  <2>1. Level'
    BY <1>1, <1>4, LevelStays DEF Gone, InvokePoints, MergePoints
  <2> QED BY <1>3, <1>4, <2>1
<1> USE DEF InvokePoints, MergePoints
<1>5. ASSUME NEW q, Leave(t, q),
             UNCHANGED <<level, rearm, dkev, armed, knote, locked, canceled, holders>>
      PROVE  RunningHeld' /\ Covered' /\ Level'
  <2>1. Goes(t, "leave")
    BY <1>1, <1>5 DEF Leave, Goes
  <2> QED BY <1>4, <1>5, <2>1
<1>6. ASSUME NEW q, Elsewhere(t, q) PROVE RunningHeld' /\ Covered' /\ Level'
  BY <1>5, <1>6 DEF Elsewhere
<1>7. CASE DrainItem(t)
  <2>1. Goes(t, "drain")
    BY <1>1, <1>7 DEF DrainItem, Goes
  <2> QED BY <1>4, <1>7, <2>1 DEF DrainItem
<1>8. CASE DrainEnds(t)
  <2>1. Goes(t, "invoke")
    BY <1>1, <1>8 DEF DrainEnds, Goes
  <2> QED BY <1>4, <1>8, <2>1 DEF DrainEnds
<1>9. CASE LeaveInvoke(t)
  <2>1. PICK p \in {"unlock", "idle"} : Goes(t, p)
    BY <1>1, <1>9 DEF LeaveInvoke, Goes
  <2> QED BY <1>4, <1>9, <2>1 DEF LeaveInvoke
<1>10. CASE Install(t)
  <2>1. CASE Elsewhere(t, "mgr")
    BY <1>6, <2>1
  <2>2. CASE ~Elsewhere(t, "mgr")
    <3>1. /\ Goes(t, "leave") /\ armed' /\ (level => knote') /\ locked' = locked
          /\ UNCHANGED <<level, rearm, dkev>>
      BY <1>1, <1>10, <2>2 DEF Install, Leave, Goes
    <3>2. Level'
      BY <1>2, <3>1 DEF KIInv, Level, Goes
    <3> QED BY <1>3, <3>1, <3>2
  <2> QED BY <2>1, <2>2
<1>11. CASE InvokeSuspended(t)
  BY <1>5, <1>11 DEF InvokeSuspended
<1>12. CASE RegistrationCallout(t)
  <2>1. CASE Elsewhere(t, targetq)
    BY <1>6, <2>1
  <2>2. CASE ~Elsewhere(t, targetq)
    BY <1>5, <1>12, <2>2 DEF RegistrationCallout
  <2> QED BY <2>1, <2>2
<1>13. CASE Uninstall(t)
  <2>1. CASE Elsewhere(t, "mgr")
    BY <1>6, <2>1
  <2>2. CASE ~Elsewhere(t, "mgr")
    <3>1. /\ Goes(t, "callout") /\ locked' = locked /\ level' = level /\ ~dkev'
          /\ IF dkev THEN ~armed' ELSE UNCHANGED <<armed, knote>>
      BY <1>1, <1>13, <2>2 DEF Uninstall, Goes
    <3>2. level => ~armed'
      BY <1>2, <3>1 DEF KIInv, Level
    <3>3. Level'
      BY <1>2, <3>1, <3>2 DEF KIInv, Level, Goes
    <3> QED BY <1>3, <3>1, <3>3
  <2> QED BY <2>1, <2>2
<1>14. CASE CancelCallout(t)
  <2>1. CASE Elsewhere(t, targetq)
    BY <1>6, <2>1
  <2>2. CASE ~Elsewhere(t, targetq)
    <3>1. PICK p \in {"cancelling", "leave"} : Goes(t, p)
      BY <1>1, <1>14, <2>2 DEF CancelCallout, Leave, Goes
    <3> QED BY <1>4, <1>14, <2>2, <3>1 DEF CancelCallout
  <2> QED BY <2>1, <2>2
<1>15. CASE CancelHandlerReturns(t)
  BY <1>5, <1>15 DEF CancelHandlerReturns
<1>16. CASE Deliver(t)
  <2>1. CASE Elsewhere(t, targetq)
    BY <1>6, <2>1
  <2>2. CASE ~Elsewhere(t, targetq)
    <3>1. Goes(t, "latch")
      BY <1>1, <1>16, <2>2 DEF Deliver, Goes
    <3> QED BY <1>4, <1>16, <2>2, <3>1 DEF Deliver
  <2> QED BY <2>1, <2>2
<1>17. CASE LatchTest(t)
  <2>1. PICK p \in {"leave", "xchg"} : Goes(t, p)
    BY <1>1, <1>17 DEF LatchTest, AfterDelivery, Leave, Goes
  <2> QED BY <1>4, <1>17, <2>1 DEF LatchTest
<1>18. CASE Latch(t)
  <2>1. PICK p \in {"handler", "leave"} : Goes(t, p)
    BY <1>1, <1>18 DEF Latch, CallHandler, AfterDelivery, Leave, Goes
  <2> QED BY <1>4, <1>18, <2>1 DEF Latch
<1>19. CASE HandlerReturns(t)
  BY <1>5, <1>19 DEF HandlerReturns, AfterDelivery
<1>20. CASE Rearm(t)
  <2>1. CASE Elsewhere(t, "mgr")
    BY <1>6, <2>1
  <2>2. CASE ~Elsewhere(t, "mgr")
    <3>1. /\ Goes(t, "arm") /\ knote' /\ t = Manager /\ locked' = locked
          /\ UNCHANGED <<level, rearm, dkev, armed>>
      BY <1>1, <1>2, <1>20, <2>2 DEF Rearm, Goes
    <3>2. Level'
      BY <1>2, <3>1 DEF KIInv, Level, Goes
    <3> QED BY <1>3, <3>1, <3>2
  <2> QED BY <2>1, <2>2
<1>21. CASE Arm(t)
  <2>1. /\ Goes(t, "leave") /\ pc[t] = "arm" /\ locked' = locked
        /\ UNCHANGED <<level, rearm, dkev, knote>>
    BY <1>1, <1>21 DEF Arm, Leave, Goes
  <2>2. Level'
    BY <1>2, <2>1 DEF KIInv, Level, Goes
  <2> QED BY <1>3, <2>1, <2>2
<1>22. CASE NothingToDo(t)
  BY <1>5, <1>22 DEF NothingToDo
<1> QED BY <1>7, <1>8, <1>9, <1>10, <1>11, <1>12, <1>13, <1>14, <1>15, <1>16, <1>17, <1>18,
           <1>19, <1>20, <1>21, <1>22 DEF Invoke

LEMMA NextKIInv == KIInv /\ [Next]_vars => KIInv'
<1> SUFFICES ASSUME KIInv, [Next]_vars PROVE KIInv'
  OBVIOUS
<1>1. IInv'
  BY NextIInv DEF KIInv
<1>2. CASE UNCHANGED vars
  <2>1. (Work' <=> Work) /\ (Gone' <=> Gone)
    BY <1>2 DEF vars, source, kinds, lock, queues, kevent, value, handlers, refs,
                Work, _dispatch_source_probe, Gone
  <2>2. RunningHeld' /\ Covered' /\ Level'
    BY <1>2, <2>1 DEF vars, source, kinds, lock, kevent, KIInv, RunningHeld, Covered, Level
  <2> QED BY <1>1, <2>2 DEF KIInv
<1>3. CASE Next
  BY <1>1, <1>3, ThreadSorts, ClientKeeps, OutsideKeeps, InvokeKeeps DEF Next, Step, KIInv
<1> QED BY <1>2, <1>3

\* A source that nobody runs or is about to wake up has nothing to do, and what
\* it says of the kernel event is true: each change that makes work is followed by a
\* wakeup, and the one that finds the lock taken may go since the holder looks
\* again after it has unlocked (source.c, _dispatch_source_probe; queue.c,
\* _dispatch_queue_invoke).
THEOREM NothingStrandedHolds == Spec => []NothingStranded
<1>1. ASSUME KIInv PROVE NothingStranded
  <2> SUFFICES ASSUME Quiet, susp = 0
               PROVE  items = <<>> /\ ~_dispatch_source_probe /\ (level /\ armed => knote)
    BY DEF NothingStranded
  <2>1. ThreadsAt(Threads, pc, HoldPoints) = {} /\ queued = "none"
    BY DEF Quiet, ThreadsAt, HoldPoints, InvokePoints
  <2>2. Holding = 0
    BY <2>1, ThreadSorts, CountIsNat DEF Holding
  <2>3. ~locked
    BY <1>1, <2>1, <2>2 DEF KIInv, IInv, Lock
  <2>4. ~Work
    BY <1>1, <2>3 DEF KIInv, Covered, Quiet, LookPoints, WakePoints
  <2>5. level /\ armed => knote
    BY <1>1, <2>4, ThreadSorts
       DEF KIInv, Level, Quiet, MergePoints, Work, _dispatch_source_probe
  <2> QED BY <2>4, <2>5 DEF Work
<1> QED BY <1>1, InitKIInv, NextKIInv, PTL DEF Spec

-----------------------------------------------------------------------------
(* The flags, and how many calls and events there were.                     *)

Flags == /\ level \in BOOLEAN /\ rearm \in BOOLEAN /\ locked \in BOOLEAN /\ running \in BOOLEAN
         /\ installed \in BOOLEAN /\ dkev \in BOOLEAN /\ knote \in BOOLEAN /\ armed \in BOOLEAN
         /\ canceled \in BOOLEAN /\ disposed \in BOOLEAN
         /\ regh \in BOOLEAN /\ cancelh \in BOOLEAN /\ handler \in BOOLEAN
         /\ calls \in 0 .. MaxCalls /\ events \in 0 .. MaxEvents

LEMMA InitFlags == Init => Flags
<1> SUFFICES ASSUME Init PROVE Flags
  OBVIOUS
<1>1. calls \in 0 .. MaxCalls /\ events \in 0 .. MaxEvents
  BY SourceAssumption DEF SourceAssumption, Init
<1> QED BY <1>1 DEF Init, Flags

\* No step leaves the types, since every flag is set from other flags.
LEMMA NextFlags == Flags /\ [Next]_vars => Flags'
<1> SUFFICES ASSUME Flags, [Next]_vars PROVE Flags'
  OBVIOUS
<1> USE DEF Flags, kinds, lock, queues, kevent, value, handlers, refs, source, bounds
<1>0. MaxCalls \in Nat /\ MaxEvents \in Nat
  BY SourceAssumption DEF SourceAssumption
<1>1. CASE UNCHANGED vars
  BY <1>1 DEF vars
<1>2. CASE KernelEvent
  <2>1. events' \in 0 .. MaxEvents
    BY <1>0, <1>2 DEF KernelEvent
  <2> QED BY <1>2, <2>1 DEF KernelEvent
<1>3. ASSUME NEW t \in Clients, ClientCall(t) PROVE Flags'
  <2>1. ASSUME Call(t) PROVE calls' \in 0 .. MaxCalls
    BY <1>0, <2>1 DEF Call
  <2> HIDE DEF Flags
  <2>2. CASE MergeData(t)
    BY <2>1, <2>2 DEF MergeData, Flags
  <2>3. CASE Cancel(t)
    BY <2>1, <2>3 DEF Cancel, Flags
  <2>4. CASE SetHandler(t, "event") \/ SetHandler(t, "cancel")
    BY <2>1, <2>4 DEF SetHandler, Flags
  <2>5. CASE Suspend(t)
    BY <2>1, <2>5 DEF Suspend, Flags
  <2>6. CASE Resume(t)
    BY <2>6 DEF Resume, Flags
  <2>7. CASE Release(t)
    BY <2>7 DEF Release, Flags
  <2> QED BY <1>3, <2>2, <2>3, <2>4, <2>5, <2>6, <2>7 DEF ClientCall
<1>4. ASSUME NEW t \in Threads, Step(t) PROVE Flags'
  <2>1. CASE MergeTest(t)
    BY <2>1 DEF MergeTest
  <2>2. CASE Merge(t)
    BY <2>2 DEF Merge
  <2>3. CASE Disarm(t)
    BY <2>3 DEF Disarm
  <2>4. CASE WakeTest(t)
    BY <2>4 DEF WakeTest
  <2>5. CASE Probe(t)
    BY <2>5 DEF Probe
  <2>6. CASE LockAndPush(t)
    BY <2>6 DEF LockAndPush
  <2>7. CASE Dequeue(t)
    BY <2>7 DEF Dequeue
  <2>8. CASE Enter(t)
    BY <2>8 DEF Enter
  <2>9. CASE DrainItem(t)
    BY <2>9 DEF DrainItem
  <2>10. CASE DrainEnds(t)
    BY <2>10 DEF DrainEnds
  <2>11. CASE LeaveInvoke(t)
    BY <2>11 DEF LeaveInvoke
  <2>12. CASE Unlock(t)
    BY <2>12 DEF Unlock
  <2>13. CASE Recheck(t)
    BY <2>13 DEF Recheck
  <2>14. CASE ReleaseRef(t)
    BY <2>14 DEF ReleaseRef
  <2>15. CASE Install(t)
    BY <2>15 DEF Install, Elsewhere
  <2>16. CASE InvokeSuspended(t)
    BY <2>16 DEF InvokeSuspended
  <2>17. CASE RegistrationCallout(t)
    BY <2>17 DEF RegistrationCallout, Elsewhere
  <2>18. CASE Uninstall(t)
    BY <2>18 DEF Uninstall, Elsewhere
  <2>19. CASE CancelCallout(t)
    <3>1. UNCHANGED <<kinds, lock, kevent, canceled, disposed, regh, calls, events>>
      BY <2>19 DEF CancelCallout, Elsewhere
    <3>2. handler' \in BOOLEAN /\ cancelh' \in BOOLEAN
      BY <2>19 DEF CancelCallout, Elsewhere
    <3> QED BY <3>1, <3>2
  <2>20. CASE CancelHandlerReturns(t)
    BY <2>20 DEF CancelHandlerReturns
  <2>21. CASE Deliver(t)
    BY <2>21 DEF Deliver, Elsewhere
  <2>22. CASE LatchTest(t)
    BY <2>22 DEF LatchTest
  <2>23. CASE Latch(t)
    BY <2>23 DEF Latch
  <2>24. CASE HandlerReturns(t)
    BY <2>24 DEF HandlerReturns
  <2>25. CASE Rearm(t)
    BY <2>25 DEF Rearm, Elsewhere
  <2>26. CASE Arm(t)
    BY <2>26 DEF Arm
  <2>27. CASE NothingToDo(t)
    BY <2>27 DEF NothingToDo
  <2> QED BY <1>4, <2>1, <2>2, <2>3, <2>4, <2>5, <2>6, <2>7, <2>8, <2>9, <2>10, <2>11, <2>12, <2>13, <2>14,
            <2>15, <2>16, <2>17, <2>18, <2>19, <2>20, <2>21, <2>22, <2>23, <2>24, <2>25, <2>26, <2>27 DEF Step, Invoke
<1> QED BY <1>1, <1>2, <1>3, <1>4 DEF Next

\* The flags, the counters and the threads of a source have their types; no reference
\* is released that was not retained, and no suspension resumed that was not made.
THEOREM TypeCorrect == Spec => []TypeOK
<1>1. IInv /\ Flags => TypeOK
  BY DEF IInv, Types, Flags, TypeOK
<1> QED BY InitIInv, NextIInv, InitFlags, NextFlags, <1>1, PTL DEF Spec
=============================================================================
