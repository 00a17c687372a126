------------------------- MODULE DispatchGroupProofs -------------------------
(***************************************************************************)
(* Proofs about DispatchGroup, for any finite set of threads, any notify   *)
(* blocks and any number of calls, in every build.                         *)
(***************************************************************************)
EXTENDS DispatchGroup, ThreadCountTheorems

-----------------------------------------------------------------------------
(* The parts of the inductive invariant.                                   *)

Types == /\ waiters \in Nat /\ kern \in Nat /\ refs \in Int /\ surplus \in Nat
         /\ {head, tail} \subseteq Notes \cup {None}
         /\ next \in [Notes -> Notes \cup {None}]
         /\ status \in [Notes -> Statuses]
         /\ pc \in [Threads -> Points]
         /\ rval \in [Threads -> Nat]
         /\ {whead, wtail, dsn, prev} \subseteq [Threads -> Notes \cup {None}]

\* Where a thread is about to publish the first block of a list, and where it
\* holds the head or the tail of the list but not both.
PublishPoints == {"retain", "sethead"}
ClaimPoints == PublishPoints \cup {"taketail"}

\* Which locals hold something, by the point a thread is at.
Locals == \A t \in Threads :
    /\ pc[t] \in {"taketail", "fire", "advance"} => whead[t] # None
    /\ pc[t] \notin {"taketail", "takewaiters", "signal", "fire", "advance"} => whead[t] = None
    /\ pc[t] \in {"append", "link"} \cup PublishPoints => dsn[t] # None
    /\ pc[t] = "link" <=> prev[t] # None
    /\ rval[t] > 0 <=> pc[t] = "signal"

\* The list that grows is published once and taken once: its head is stored, or
\* one thread is about to store it, or one thread has taken it and not the tail.
OneClaim ==
    /\ tail = None => head = None
    /\ \A t \in Threads : pc[t] \in ClaimPoints => tail # None /\ head = None
    /\ \A t, u \in Threads : {pc[t], pc[u]} \subseteq ClaimPoints => t = u

\* A block that is not freed yet, and the block after it, which its dsn_next or
\* the notifier that will store dsn_next names.
Alive(m) == status[m] \in {"pending", "fired"}
Linking(m, n) == \E u \in Threads : pc[u] = "link" /\ prev[u] = m /\ dsn[u] = n
Before(m, n) == Alive(m) /\ (next[m] = n \/ Linking(m, n))

\* The first block of a list that grows, or of what is left of one taken.
First(n) == \/ head = n
            \/ \E t \in Threads : whead[t] = n
            \/ \E u \in Threads : pc[u] \in PublishPoints /\ dsn[u] = n

\* A block that is in no list yet, which nothing leads to.
Fresh(n) == \/ status[n] = "unused"
            \/ \E u \in Threads : pc[u] = "append" /\ dsn[u] = n
FreshApart ==
    /\ \A n \in Notes : Fresh(n) =>
         /\ ~First(n) /\ tail # n /\ next[n] = None
         /\ \A m \in Notes : next[m] # n
         /\ \A t \in Threads : wtail[t] # n /\ prev[t] # n
         /\ \A t \in Threads : pc[t] = "link" => dsn[t] # n
    /\ \A u, v \in Threads : pc[u] = "append" /\ pc[v] = "append" /\ dsn[u] = dsn[v]
                               => u = v
    /\ \A u \in Threads : pc[u] = "append" => status[dsn[u]] = "pending"

\* The last block of a list has no successor, and one notifier at most is about
\* to give it one: then it is the tail no more, of no list.
LastBlocks ==
    /\ tail # None => next[tail] = None /\ status[tail] = "pending"
    /\ \A t \in Threads : tail # None => wtail[t] # tail
    /\ \A u \in Threads : pc[u] = "link" =>
         /\ Alive(prev[u]) /\ next[prev[u]] = None
         /\ prev[u] # tail
         /\ \A t \in Threads : prev[u] # wtail[t]
    /\ \A u, v \in Threads : pc[u] = "link" /\ pc[v] = "link" /\ prev[u] = prev[v]
                               => u = v

\* Every block of a list is reached in one way, and not submitted before it is
\* its turn.
OneWay ==
    /\ head # None => status[head] = "pending"
    /\ \A t \in Threads : whead[t] # None =>
         status[whead[t]] = IF pc[t] = "advance" THEN "fired" ELSE "pending"
    /\ \A u \in Threads : pc[u] \in PublishPoints => status[dsn[u]] = "pending"
    /\ \A m, n \in Notes : Before(m, n) => status[n] = "pending" /\ ~First(n)
    /\ \A m, k, n \in Notes : Before(m, n) /\ Before(k, n) => m = k

\* The blocks fall into lists: the one that grows (None), and those that were
\* taken, each of one thread.
Owners == [Notes -> Threads \cup {None}]
Lists(own) ==
    /\ tail # None => own[tail] = None
    /\ head # None => own[head] = None
    /\ \A u \in Threads : pc[u] \in PublishPoints => own[dsn[u]] = None
    /\ \A t \in Threads : whead[t] # None =>
         own[whead[t]] = IF pc[t] = "taketail" THEN None ELSE t
    /\ \A m, n \in Notes : Before(m, n) => own[m] = own[n]
Apart == \E own \in Owners : Lists(own)

\* The inductive invariant.
ListInv == FreshApart /\ LastBlocks /\ OneWay /\ Apart
CountInv == ListRetains /\ WaiterAccounting /\ IsFiniteSet(Owed)
IInv == Types /\ Locals /\ OneClaim /\ ListInv /\ CountInv
-----------------------------------------------------------------------------
(* Types, locals and the claims on the growing list.                       *)

Base == Types /\ Locals /\ OneClaim

\* The base survives every step.
LEMMA BaseNext == IInv /\ [Next]_vars => Base'
<1> SUFFICES ASSUME IInv, [Next]_vars PROVE Base'
  OBVIOUS
<1> USE GroupAssumption
        DEF GroupAssumption, Base, Types, Locals, OneClaim, Statuses, Points, WaitPoints,
            WakePoints, NotifyPoints, PublishPoints, ClaimPoints, Goto, Call, At,
            listVars, kernelVars, locals
<1>0. Types /\ Locals /\ OneClaim
  BY DEF IInv
<1>1. ASSUME NEW t \in Threads, Enter(t) PROVE Base'
  BY <1>0, <1>1 DEF Enter
<1>2. ASSUME NEW t \in Threads, Leave(t) PROVE Base'
  BY <1>0, <1>2 DEF Leave
<1>3. ASSUME NEW t \in Threads, NEW k \in WaitKinds, Wait(t, k) PROVE Base'
  BY <1>0, <1>3 DEF Wait
<1>4. ASSUME NEW t \in Threads, LookEmpty(t) PROVE Base'
  BY <1>0, <1>4 DEF LookEmpty
<1>5. ASSUME NEW t \in Threads, LookBusy(t) PROVE Base'
  BY <1>0, <1>5 DEF LookBusy
<1>5c. ASSUME NEW t \in Threads, Count(t) PROVE Base'
  BY <1>0, <1>5c DEF Count
<1>6. ASSUME NEW t \in Threads, Recheck(t) PROVE Base'
  <2>1. PICK p \in {"takehead", "timedwait", "drain", "dead"} : Goto(t, p)
    BY <1>6 DEF Recheck
  <2> QED BY <1>0, <1>6, <2>1 DEF Recheck
<1>7. ASSUME NEW t \in Threads, KernelWake(t) PROVE Base'
  BY <1>0, <1>7 DEF KernelWake
<1>8. ASSUME NEW t \in Threads, KernelTimeout(t) PROVE Base'
  BY <1>0, <1>8 DEF KernelTimeout
<1>9. ASSUME NEW t \in Threads, Undo(t) PROVE Base'
  BY <1>0, <1>9 DEF Undo
<1>10. ASSUME NEW t \in Threads, TakeHead(t) PROVE Base'
  BY <1>0, <1>10 DEF TakeHead
<1>11. ASSUME NEW t \in Threads, TakeTail(t) PROVE Base'
  BY <1>0, <1>11 DEF TakeTail
<1>12. ASSUME NEW t \in Threads, TakeWaiters(t) PROVE Base'
  BY <1>0, <1>12 DEF TakeWaiters
<1>13. ASSUME NEW t \in Threads, SignalWaiter(t) PROVE Base'
  BY <1>0, <1>13 DEF SignalWaiter
<1>14. ASSUME NEW t \in Threads, FireNote(t) PROVE Base'
  <2>1. status[whead[t]] = "pending"
    BY <1>0, <1>14 DEF FireNote, IInv, ListInv, OneWay
  <2> QED BY <1>0, <1>14, <2>1 DEF FireNote
<1>15. ASSUME NEW t \in Threads, Advance(t) PROVE Base'
  BY <1>0, <1>15 DEF Advance
<1>16. ASSUME NEW t \in Threads, Release(t) PROVE Base'
  BY <1>0, <1>16 DEF Release
<1>17. ASSUME NEW t \in Threads, NEW n \in Notes, Notify(t, n) PROVE Base'
  BY <1>0, <1>17 DEF Notify
<1>18. ASSUME NEW t \in Threads, Append(t) PROVE Base'
  BY <1>0, <1>18 DEF Append
<1>19. ASSUME NEW t \in Threads, Link(t) PROVE Base'
  BY <1>0, <1>19 DEF Link
<1>20. ASSUME NEW t \in Threads, Retain(t) PROVE Base'
  BY <1>0, <1>20 DEF Retain
<1>21. ASSUME NEW t \in Threads, SetHead(t) PROVE Base'
  BY <1>0, <1>21 DEF SetHead
<1>22. ASSUME NEW t \in Threads, CheckEmpty(t) PROVE Base'
  BY <1>0, <1>22 DEF CheckEmpty
<1>23. CASE UNCHANGED vars
  BY <1>0, <1>23 DEF vars
<1> QED BY <1>1, <1>2, <1>3, <1>4, <1>5, <1>5c, <1>6, <1>7, <1>8, <1>9, <1>10, <1>11,
           <1>12, <1>13, <1>14, <1>15, <1>16, <1>17, <1>18, <1>19, <1>20, <1>21, <1>22, <1>23
        DEF Next, Step, WaitStep, WakeStep, NotifyStep

-----------------------------------------------------------------------------
(* The reference of the list.                                              *)

\* The list holds its reference through its head, through the thread that has
\* retained the group and not stored the head, through the wake that has it.
HoldPoints == {"sethead", "release"}
HeadRef == IF head # None THEN 1 ELSE 0
Held == CountAt(Threads, pc, HoldPoints)
Taken == CountAt(Threads, whead, Notes)

\* ListRetains says that these are all the references added to the group.
RefsCounted == /\ Held \in Nat /\ Taken \in Nat /\ HeadRef \in {0, 1}
               /\ ListRetains <=> refs = HeadRef + Held + Taken
LEMMA RetainsCounted == Types => RefsCounted
<1> SUFFICES ASSUME Types PROVE RefsCounted
  OBVIOUS
<1>1. {t \in Threads : whead[t] # None} = ThreadsAt(Threads, whead, Notes)
  BY GroupAssumption DEF GroupAssumption, Types, ThreadsAt
<1>2. Held \in Nat /\ Taken \in Nat
  BY GroupAssumption, CountIsNat DEF GroupAssumption, Held, Taken
<1>3. HeadRef \in {0, 1}
  BY DEF HeadRef
<1> QED BY <1>1, <1>2, <1>3 DEF RefsCounted, ListRetains, HeadRef, Held, Taken, CountAt, HoldPoints

LEMMA RetainsCountedNext == Types' => RefsCounted'
BY RetainsCounted, PTL

\* How they change when thread t goes to p and its whead becomes w.
LEMMA RetainsMove ==
    ASSUME Types, NEW t \in Threads, NEW p, Goto(t, p),
           NEW w, whead' = [whead EXCEPT ![t] = w]
    PROVE  /\ Held' = Held - Hit(pc[t], HoldPoints) + Hit(p, HoldPoints)
           /\ Taken' = Taken - Hit(whead[t], Notes) + Hit(w, Notes)
<1>1. MovesOnly(Threads, pc, pc', t, p) /\ MovesOnly(Threads, whead, whead', t, w)
  BY DEF Types, Goto, MovesOnly
<1>2. IsFiniteSet(Threads)
  BY GroupAssumption DEF GroupAssumption
<1>3. Held' = Held - Hit(pc[t], HoldPoints) + Hit(p, HoldPoints)
  BY <1>1, <1>2, CountMove DEF Held
<1>4. Taken' = Taken - Hit(whead[t], Notes) + Hit(w, Notes)
  BY <1>1, <1>2, CountMove DEF Taken
<1> QED BY <1>3, <1>4

\* The reference of the list is kept.
LEMMA RetainsNext == IInv /\ Base' /\ [Next]_vars => ListRetains'
<1> SUFFICES ASSUME IInv, Base', [Next]_vars PROVE ListRetains'
  OBVIOUS
<1>0. Types /\ Types' /\ Locals /\ OneClaim /\ refs = HeadRef + Held + Taken
  BY RetainsCounted DEF RefsCounted, IInv, Base, CountInv
<1>a. /\ Held \in Nat /\ Taken \in Nat /\ HeadRef \in {0, 1}
      /\ HeadRef' \in {0, 1} /\ refs \in Int
      /\ ListRetains' <=> refs' = HeadRef' + Held' + Taken'
  BY <1>0, RetainsCounted, RetainsCountedNext DEF RefsCounted, Types
<1> USE DEF Goto, Call, At, Hit, HoldPoints, listVars, kernelVars, locals
\* Nothing that counts changes.
<1>b. ASSUME NEW t \in Threads, NEW p \in Points \ HoldPoints, Goto(t, p),
             pc[t] \notin HoldPoints, whead' = whead, head' = head, refs' = refs
      PROVE  ListRetains'
  <2>1. whead' = [whead EXCEPT ![t] = whead[t]]
    BY <1>0, <1>b DEF Types
  <2>2. Held' = Held /\ Taken' = Taken
    <3> DEFINE h == Hit(whead[t], Notes)
    <3>1. Held' = Held - 0 + 0 /\ Taken' = Taken - h + h /\ h \in {0, 1}
      BY <1>0, <1>b, <2>1, RetainsMove
    <3> HIDE DEF h
    <3> QED BY <3>1, <1>a
  <2>3. HeadRef' = HeadRef
    BY <1>b DEF HeadRef
  <2> QED BY <1>0, <1>a, <1>b, <2>2, <2>3
<1>1. ASSUME NEW t \in Threads, Enter(t) PROVE ListRetains'
  <2>1. Goto(t, "idle")
    BY <1>0, <1>1 DEF Enter, Types
  <2> QED BY <2>1, <1>b, <1>1 DEF Enter, Points
<1>2. ASSUME NEW t \in Threads, Leave(t) PROVE ListRetains'
  BY <1>b, <1>2 DEF Leave, Points, WaitPoints, WakePoints, NotifyPoints
<1>3. ASSUME NEW t \in Threads, NEW k \in WaitKinds, Wait(t, k) PROVE ListRetains'
  BY <1>b, <1>3 DEF Wait, Points, WaitPoints, WakePoints, NotifyPoints
<1>4. ASSUME NEW t \in Threads, LookEmpty(t) PROVE ListRetains'
  BY <1>b, <1>4 DEF LookEmpty, Points, WaitPoints, WakePoints, NotifyPoints
<1>5. ASSUME NEW t \in Threads, LookBusy(t) PROVE ListRetains'
  BY <1>b, <1>5 DEF LookBusy, Points, WaitPoints, WakePoints, NotifyPoints
<1>5c. ASSUME NEW t \in Threads, Count(t) PROVE ListRetains'
  BY <1>b, <1>5c DEF Count, Points, WaitPoints, WakePoints, NotifyPoints
<1>6. ASSUME NEW t \in Threads, Recheck(t) PROVE ListRetains'
  BY <1>b, <1>6 DEF Recheck, Points, WaitPoints, WakePoints, NotifyPoints
<1>7. ASSUME NEW t \in Threads, KernelWake(t) PROVE ListRetains'
  BY <1>b, <1>7 DEF KernelWake, Points, WaitPoints, WakePoints, NotifyPoints
<1>8. ASSUME NEW t \in Threads, KernelTimeout(t) PROVE ListRetains'
  BY <1>b, <1>8 DEF KernelTimeout, Points, WaitPoints, WakePoints, NotifyPoints
<1>9. ASSUME NEW t \in Threads, Undo(t) PROVE ListRetains'
  BY <1>b, <1>9 DEF Undo, Points, WaitPoints, WakePoints, NotifyPoints
<1>10. ASSUME NEW t \in Threads, TakeTail(t) PROVE ListRetains'
  BY <1>b, <1>10 DEF TakeTail, Points, WaitPoints, WakePoints, NotifyPoints
<1>11. ASSUME NEW t \in Threads, TakeWaiters(t) PROVE ListRetains'
  BY <1>b, <1>11 DEF TakeWaiters, Points, WaitPoints, WakePoints, NotifyPoints
<1>12. ASSUME NEW t \in Threads, SignalWaiter(t) PROVE ListRetains'
  BY <1>b, <1>12 DEF SignalWaiter, Points, WaitPoints, WakePoints, NotifyPoints
<1>13. ASSUME NEW t \in Threads, FireNote(t) PROVE ListRetains'
  BY <1>b, <1>13 DEF FireNote, Points, WaitPoints, WakePoints, NotifyPoints
<1>14. ASSUME NEW t \in Threads, NEW n \in Notes, Notify(t, n) PROVE ListRetains'
  BY <1>b, <1>14 DEF Notify, Points, WaitPoints, WakePoints, NotifyPoints
<1>15. ASSUME NEW t \in Threads, Append(t) PROVE ListRetains'
  BY <1>b, <1>15 DEF Append, Points, WaitPoints, WakePoints, NotifyPoints
<1>16. ASSUME NEW t \in Threads, Link(t) PROVE ListRetains'
  BY <1>b, <1>16 DEF Link, Points, WaitPoints, WakePoints, NotifyPoints
<1>17. ASSUME NEW t \in Threads, CheckEmpty(t) PROVE ListRetains'
  BY <1>b, <1>17 DEF CheckEmpty, Points, WaitPoints, WakePoints, NotifyPoints
<1>18. ASSUME NEW t \in Threads, TakeHead(t) PROVE ListRetains'
  <2>1. Held' = Held - 0 + 0 /\ Taken' = Taken - 0 + Hit(head, Notes)
    <3>1. Hit(whead[t], Notes) = 0
      BY <1>0, <1>18, GroupAssumption DEF TakeHead, Locals, GroupAssumption
    <3>2. PICK p \in {"takewaiters", "taketail"} : Goto(t, p)
      BY <1>18 DEF TakeHead
    <3> QED BY <1>0, <1>18, <3>1, <3>2, RetainsMove DEF TakeHead
  <2>2. HeadRef = Hit(head, Notes) /\ HeadRef' = 0 /\ refs' = refs
    BY <1>0, <1>18, GroupAssumption DEF TakeHead, HeadRef, Types, GroupAssumption
  <2> QED BY <1>0, <1>a, <2>1, <2>2
<1>19. ASSUME NEW t \in Threads, Advance(t) PROVE ListRetains'
  <2> DEFINE w == next[whead[t]]
  <2>1. /\ w \in Notes \cup {None} /\ Hit(whead[t], Notes) = 1
        /\ Goto(t, IF w = None THEN "release" ELSE "fire")
        /\ whead' = [whead EXCEPT ![t] = w] /\ pc[t] = "advance"
    BY <1>0, <1>19 DEF Advance, Types, Locals
  <2>2. HeadRef' = HeadRef /\ refs' = refs
    BY <1>19 DEF Advance, HeadRef
  <2> HIDE DEF w
  <2>3. CASE w = None
    <3>1. Held' = Held - 0 + 1 /\ Taken' = Taken - 1 + 0
      BY <1>0, <2>1, <2>3, GroupAssumption, RetainsMove DEF GroupAssumption
    <3> QED BY <1>0, <1>a, <2>2, <3>1
  <2>4. CASE w # None
    <3>0. Goto(t, "fire") /\ Hit(w, Notes) = 1
      BY <2>1, <2>4
    <3>1. Held' = Held - 0 + 0 /\ Taken' = Taken - 1 + 1
      BY <1>0, <2>1, <3>0, RetainsMove
    <3> QED BY <1>0, <1>a, <2>2, <3>1
  <2> QED BY <2>3, <2>4
<1>20. ASSUME NEW t \in Threads, Release(t) PROVE ListRetains'
  <2>1. whead' = [whead EXCEPT ![t] = whead[t]]
    BY <1>0, <1>20 DEF Release, Types
  <2>2. Hit(whead[t], Notes) = 0
    BY <1>0, <1>20, GroupAssumption DEF Release, Locals, PublishPoints, GroupAssumption
  <2>3. Held' = Held - 1 + 0 /\ Taken' = Taken - 0 + 0
    <3>1. PICK p \in {"idle", "sethead"} : /\ Goto(t, p) /\ Hit(p, HoldPoints) = 0
                                          /\ Hit(pc[t], HoldPoints) = 1
      BY <1>20 DEF Release
    <3> HIDE DEF Hit, HoldPoints
    <3> QED BY <1>0, <2>1, <2>2, <3>1, RetainsMove
  <2>4. HeadRef' = HeadRef /\ refs' = refs - 1
    BY <1>20 DEF Release, HeadRef
  <2> QED BY <1>0, <1>a, <2>3, <2>4
<1>21. ASSUME NEW t \in Threads, Retain(t) PROVE ListRetains'
  <2>1. whead' = [whead EXCEPT ![t] = whead[t]]
    BY <1>0, <1>21 DEF Retain, Types
  <2>2. Hit(whead[t], Notes) = 0
    BY <1>0, <1>21, GroupAssumption DEF Retain, Locals, PublishPoints, GroupAssumption
  <2>3. Held' = Held - 0 + 1 /\ Taken' = Taken - 0 + 0
    <3>1. PICK p \in {"idle", "sethead"} : /\ Goto(t, p) /\ Hit(p, HoldPoints) = 1
                                          /\ Hit(pc[t], HoldPoints) = 0
      BY <1>21 DEF Retain
    <3> HIDE DEF Hit, HoldPoints
    <3> QED BY <1>0, <2>1, <2>2, <3>1, RetainsMove
  <2>4. HeadRef' = HeadRef /\ refs' = refs + 1
    BY <1>21 DEF Retain, HeadRef
  <2> QED BY <1>0, <1>a, <2>3, <2>4
<1>22. ASSUME NEW t \in Threads, SetHead(t) PROVE ListRetains'
  <2>1. whead' = [whead EXCEPT ![t] = whead[t]]
    BY <1>0, <1>22 DEF SetHead, Types
  <2>2. Hit(whead[t], Notes) = 0
    BY <1>0, <1>22, GroupAssumption DEF SetHead, Locals, GroupAssumption
  <2>3. Held' = Held - 1 + 0 /\ Taken' = Taken - 0 + 0
    <3>1. /\ Goto(t, "checkempty") /\ Hit("checkempty", HoldPoints) = 0
          /\ Hit(pc[t], HoldPoints) = 1
      BY <1>22 DEF SetHead
    <3> HIDE DEF Hit, HoldPoints
    <3> QED BY <1>0, <2>1, <2>2, <3>1, RetainsMove
  <2>4. HeadRef = 0 /\ HeadRef' = 1 /\ refs' = refs
    BY <1>0, <1>22 DEF SetHead, HeadRef, Locals, OneClaim, ClaimPoints, PublishPoints
  <2> QED BY <1>0, <1>a, <2>3, <2>4
<1>23. CASE UNCHANGED vars
  <2>1. HeadRef' = HeadRef /\ Held' = Held /\ Taken' = Taken /\ refs' = refs
    BY <1>23 DEF vars, HeadRef, Held, Taken, CountAt, ThreadsAt
  <2> QED BY <1>0, <1>a, <2>1
<1> QED BY <1>1, <1>2, <1>3, <1>4, <1>5, <1>5c, <1>6, <1>7, <1>8, <1>9, <1>10, <1>11,
           <1>12, <1>13, <1>14, <1>15, <1>16, <1>17, <1>18, <1>19, <1>20, <1>21, <1>22, <1>23
        DEF Next, Step, WaitStep, WakeStep, NotifyStep

-----------------------------------------------------------------------------
(* The waiters.                                                            *)

WaitingPoints == {"recheck", "timedwait", "undo", "drain"}
Waiting == CountAt(Threads, pc, WaitingPoints)
Signals == Cardinality(Owed)

\* What a wake owes, with the last signal named.
LEMMA OwedElements ==
    Types => \A x : x \in Owed <=> \E t \in Threads, i \in Nat :
                                     x = <<t, i>> /\ 1 <= i /\ i <= rval[t]
BY DEF Types, Owed

LEMMA OwedElementsNext ==
    Types' => \A x : x \in Owed' <=> \E t \in Threads, i \in Nat :
                                      x = <<t, i>> /\ 1 <= i /\ i <= rval'[t]
BY DEF Types, Owed

\* A wake that takes n waiters owes n signals more ...
LEMMA OwedGrow ==
    ASSUME Types, Types', NEW t \in Threads, NEW n \in Nat, IsFiniteSet(Owed),
           rval[t] = 0, rval' = [rval EXCEPT ![t] = n]
    PROVE  IsFiniteSet(Owed') /\ Signals' = Signals + n
<1> DEFINE new == {t} \X (1..n)
<1>1. IsFiniteSet(new) /\ Cardinality(new) = n
  <2>1. IsFiniteSet({t}) /\ Cardinality({t}) = 1
    BY FS_Singleton
  <2>2. IsFiniteSet(1..n) /\ Cardinality(1..n) = n
    BY FS_Interval
  <2>3. IsFiniteSet(new) /\ Cardinality(new) = 1 * n
    BY <2>1, <2>2, FS_Product
  <2> QED BY <2>3
<1>2. \A x : x \in new <=> \E i \in Nat : x = <<t, i>> /\ 1 <= i /\ i <= n
  OBVIOUS
<1> HIDE DEF new
<1>3. Owed' = Owed \cup new
  <2>1. \A x : x \in Owed' <=> x \in Owed \/ x \in new
    BY <1>2, OwedElements, OwedElementsNext DEF Types
  <2> QED BY <2>1
<1>4. Owed \cap new = {}
  BY <1>2, OwedElements DEF Types
<1>5. Cardinality(Owed') = Cardinality(Owed) + Cardinality(new) /\ IsFiniteSet(Owed')
  <2>1. /\ Cardinality(Owed') = Cardinality(Owed) + Cardinality(new) - Cardinality({})
        /\ IsFiniteSet(Owed')
    BY <1>1, <1>3, <1>4, FS_Union
  <2>2. Cardinality({}) = 0 /\ Cardinality(Owed) \in Nat /\ Cardinality(new) \in Nat
    BY <1>1, FS_EmptySet, FS_CardinalityType
  <2> QED BY <2>1, <2>2
<1> QED BY <1>1, <1>5 DEF Signals

\* ... and one less when it has sent one.
LEMMA OwedShrink ==
    ASSUME Types, Types', NEW t \in Threads, IsFiniteSet(Owed),
           rval[t] > 0, rval' = [rval EXCEPT ![t] = rval[t] - 1]
    PROVE  IsFiniteSet(Owed') /\ Signals' = Signals - 1
<1> DEFINE last == <<t, rval[t]>>
<1>1. last \in Owed
  BY OwedElements DEF Types
<1>2. Owed' = Owed \ {last}
  <2>1. \A x : x \in Owed' <=> x \in Owed /\ x # last
    BY OwedElements, OwedElementsNext DEF Types
  <2> QED BY <2>1
<1> QED BY <1>1, <1>2, FS_RemoveElement DEF Signals

\* The counts of waiters are natural numbers ...
CoverTypes == Waiting \in Nat /\ Signals \in Nat
LEMMA CoverCounted == Types /\ IsFiniteSet(Owed) => CoverTypes
BY GroupAssumption, CountIsNat, FS_CardinalityType
   DEF GroupAssumption, Waiting, Signals, CoverTypes

\* ... and what they do when thread t goes to p.
LEMMA WaitingMove ==
    ASSUME Types, NEW t \in Threads, NEW p, Goto(t, p)
    PROVE  Waiting' = Waiting - Hit(pc[t], WaitingPoints) + Hit(p, WaitingPoints)
<1>1. MovesOnly(Threads, pc, pc', t, p)
  BY DEF Types, Goto, MovesOnly
<1> QED BY <1>1, GroupAssumption, CountMove DEF GroupAssumption, Waiting

\* WaiterAccounting with the names used here.
Balanced == Waiting + surplus = waiters + kern + Signals
Covered == ~crashed => Balanced
LEMMA CoveredMeans == WaiterAccounting <=> Covered
BY DEF WaiterAccounting, Covered, Balanced, GroupWaiters, Waiting, CountAt, WaitingPoints, Signals

\* The counts stay balanced.
LEMMA CoveredNext == IInv /\ Base' /\ [Next]_vars => Covered' /\ IsFiniteSet(Owed')
<1> SUFFICES ASSUME IInv, Base', [Next]_vars PROVE Covered' /\ IsFiniteSet(Owed')
  OBVIOUS
<1>0. /\ Types /\ Types' /\ Locals /\ IsFiniteSet(Owed) /\ CoverTypes
      /\ waiters \in Nat /\ kern \in Nat /\ surplus \in Nat
  BY CoverCounted DEF IInv, Base, CountInv, Types
<1>a. (~crashed => Balanced) /\ Waiting \in Nat /\ Signals \in Nat
  BY <1>0, CoveredMeans DEF Covered, CoverTypes, IInv, CountInv
<1> USE DEF Goto, Call, At, listVars, kernelVars, locals
\* Who waits, and what is there for them, stays the same.
<1>c. ASSUME NEW t \in Threads, NEW p, Goto(t, p),
             Hit(pc[t], WaitingPoints) = Hit(p, WaitingPoints),
             rval' = rval, waiters' = waiters, kern' = kern, surplus' = surplus,
             ~crashed
      PROVE  Covered' /\ IsFiniteSet(Owed')
  <2>1. Waiting' = Waiting
    <3> DEFINE h == Hit(p, WaitingPoints)
    <3>1. h \in {0, 1}
      BY DEF Hit
    <3>2. Waiting' = Waiting - h + h
      BY <1>0, <1>c, WaitingMove
    <3> HIDE DEF h
    <3> QED BY <1>a, <3>1, <3>2
  <2>2. Signals' = Signals /\ Owed' = Owed
    BY <1>c DEF Signals, Owed
  <2> QED BY <1>0, <1>a, <1>c, <2>1, <2>2 DEF Covered, Balanced
<1>1. ASSUME NEW t \in Threads, Enter(t) PROVE Covered' /\ IsFiniteSet(Owed')
  <2>1. Goto(t, "idle")
    BY <1>0, <1>1 DEF Enter, Types
  <2> QED BY <2>1, <1>c, <1>1 DEF Enter, Hit, WaitingPoints
<1>2. ASSUME NEW t \in Threads, Leave(t) PROVE Covered' /\ IsFiniteSet(Owed')
  BY <1>c, <1>2 DEF Leave, Hit, WaitingPoints
<1>3. ASSUME NEW t \in Threads, NEW k \in WaitKinds, Wait(t, k) PROVE Covered' /\ IsFiniteSet(Owed')
  BY <1>c, <1>3 DEF Wait, Hit, WaitingPoints
<1>4. ASSUME NEW t \in Threads, LookEmpty(t) PROVE Covered' /\ IsFiniteSet(Owed')
  BY <1>c, <1>4 DEF LookEmpty, Hit, WaitingPoints
<1>5. ASSUME NEW t \in Threads, KernelTimeout(t) PROVE Covered' /\ IsFiniteSet(Owed')
  BY <1>c, <1>5 DEF KernelTimeout, Hit, WaitingPoints
<1>6. ASSUME NEW t \in Threads, TakeHead(t) PROVE Covered' /\ IsFiniteSet(Owed')
  BY <1>c, <1>6 DEF TakeHead, Hit, WaitingPoints
<1>7. ASSUME NEW t \in Threads, TakeTail(t) PROVE Covered' /\ IsFiniteSet(Owed')
  BY <1>c, <1>7 DEF TakeTail, Hit, WaitingPoints
<1>8. ASSUME NEW t \in Threads, FireNote(t) PROVE Covered' /\ IsFiniteSet(Owed')
  BY <1>c, <1>8 DEF FireNote, Hit, WaitingPoints
<1>9. ASSUME NEW t \in Threads, Advance(t) PROVE Covered' /\ IsFiniteSet(Owed')
  BY <1>c, <1>9 DEF Advance, Hit, WaitingPoints
<1>10. ASSUME NEW t \in Threads, Release(t) PROVE Covered' /\ IsFiniteSet(Owed')
  BY <1>c, <1>10 DEF Release, Hit, WaitingPoints
<1>11. ASSUME NEW t \in Threads, NEW n \in Notes, Notify(t, n) PROVE Covered' /\ IsFiniteSet(Owed')
  BY <1>c, <1>11 DEF Notify, Hit, WaitingPoints
<1>12. ASSUME NEW t \in Threads, Append(t) PROVE Covered' /\ IsFiniteSet(Owed')
  BY <1>c, <1>12 DEF Append, Hit, WaitingPoints
<1>13. ASSUME NEW t \in Threads, Link(t) PROVE Covered' /\ IsFiniteSet(Owed')
  BY <1>c, <1>13 DEF Link, Hit, WaitingPoints
<1>14. ASSUME NEW t \in Threads, Retain(t) PROVE Covered' /\ IsFiniteSet(Owed')
  BY <1>c, <1>14 DEF Retain, Hit, WaitingPoints
<1>15. ASSUME NEW t \in Threads, SetHead(t) PROVE Covered' /\ IsFiniteSet(Owed')
  BY <1>c, <1>15 DEF SetHead, Hit, WaitingPoints
<1>16. ASSUME NEW t \in Threads, CheckEmpty(t) PROVE Covered' /\ IsFiniteSet(Owed')
  BY <1>c, <1>16 DEF CheckEmpty, Hit, WaitingPoints
<1>5c. ASSUME NEW t \in Threads, LookBusy(t) PROVE Covered' /\ IsFiniteSet(Owed')
  BY <1>c, <1>5c DEF LookBusy, Hit, WaitingPoints
<1>17. ASSUME NEW t \in Threads, Count(t) PROVE Covered' /\ IsFiniteSet(Owed')
  <2>1. Hit(pc[t], WaitingPoints) = 0 /\ Hit("recheck", WaitingPoints) = 1
    BY <1>17 DEF Count, Hit, WaitingPoints
  <2>2. Waiting' = Waiting - 0 + 1
    BY <1>0, <1>17, <2>1, WaitingMove DEF Count
  <2>3. Signals' = Signals /\ Owed' = Owed
    BY <1>17 DEF Count, Signals, Owed
  <2>4. ~crashed /\ waiters' = waiters + 1 /\ kern' = kern /\ surplus' = surplus
    BY <1>17 DEF Count
  <2> QED BY <1>0, <1>a, <2>2, <2>3, <2>4 DEF Covered, Balanced
<1>18. ASSUME NEW t \in Threads, Recheck(t) PROVE Covered' /\ IsFiniteSet(Owed')
  <2>1. Hit(pc[t], WaitingPoints) = 1 /\ ~crashed
    BY <1>18 DEF Recheck, Hit, WaitingPoints
  <2>2. Signals' = Signals /\ Owed' = Owed /\ waiters' = waiters /\ kern' = kern
    BY <1>18 DEF Recheck, Signals, Owed
  <2>3. CASE Empty
    <3>1. Goto(t, "takehead") /\ Hit("takehead", WaitingPoints) = 0
      BY <1>18, <2>3 DEF Recheck, Hit, WaitingPoints
    <3>2. Waiting' = Waiting - 1 + 0
      BY <1>0, <2>1, <3>1, WaitingMove
    <3>3. surplus' = surplus + 1
      BY <1>18, <2>3 DEF Recheck
    <3> QED BY <1>0, <1>a, <2>1, <2>2, <3>2, <3>3 DEF Covered, Balanced
  <2>4. CASE ~Empty /\ waiterPort
    <3>1. PICK p \in {"timedwait", "drain"} : Goto(t, p) /\ Hit(p, WaitingPoints) = 1
      BY <1>18, <2>4 DEF Recheck, Hit, WaitingPoints
    <3>2. Waiting' = Waiting - 1 + 1
      BY <1>0, <2>1, <3>1, WaitingMove
    <3>3. surplus' = surplus
      BY <1>18, <2>4 DEF Recheck
    <3> QED BY <1>0, <1>a, <2>1, <2>2, <3>2, <3>3 DEF Covered, Balanced
  <2>5. CASE ~Empty /\ ~waiterPort
    BY <1>0, <1>18, <2>2, <2>5 DEF Recheck, Covered
  <2> QED BY <2>3, <2>4, <2>5
<1>19. ASSUME NEW t \in Threads, KernelWake(t) PROVE Covered' /\ IsFiniteSet(Owed')
  <2>1. Hit(pc[t], WaitingPoints) = 1 /\ Hit("look", WaitingPoints) = 0
    BY <1>19 DEF KernelWake, Hit, WaitingPoints
  <2>2. Waiting' = Waiting - 1 + 0
    BY <1>0, <1>19, <2>1, WaitingMove DEF KernelWake
  <2>3. Signals' = Signals /\ Owed' = Owed
    BY <1>19 DEF KernelWake, Signals, Owed
  <2>4. ~crashed /\ waiters' = waiters /\ kern' = kern - 1 /\ kern > 0 /\ surplus' = surplus
    BY <1>19 DEF KernelWake
  <2> QED BY <1>0, <1>a, <2>2, <2>3, <2>4 DEF Covered, Balanced
<1>20. ASSUME NEW t \in Threads, Undo(t) PROVE Covered' /\ IsFiniteSet(Owed')
  <2>1. Hit(pc[t], WaitingPoints) = 1
    BY <1>20 DEF Undo, Hit, WaitingPoints
  <2>2. ~crashed /\ Signals' = Signals /\ Owed' = Owed /\ kern' = kern /\ surplus' = surplus
    BY <1>20 DEF Undo, Signals, Owed
  <2>3. CASE waiters > 0
    <3>1. Goto(t, "idle") /\ Hit("idle", WaitingPoints) = 0
      BY <1>20, <2>3 DEF Undo, Hit, WaitingPoints
    <3>2. Waiting' = Waiting - 1 + 0
      BY <1>0, <2>1, <3>1, WaitingMove
    <3>3. waiters' = waiters - 1
      BY <1>20, <2>3 DEF Undo
    <3> QED BY <1>0, <1>a, <2>2, <2>3, <3>2, <3>3 DEF Covered, Balanced
  <2>4. CASE ~(waiters > 0)
    <3>1. Goto(t, "drain") /\ Hit("drain", WaitingPoints) = 1
      BY <1>20, <2>4 DEF Undo, Hit, WaitingPoints
    <3>2. Waiting' = Waiting - 1 + 1
      BY <1>0, <2>1, <3>1, WaitingMove
    <3>3. waiters' = waiters
      BY <1>20, <2>4 DEF Undo
    <3> QED BY <1>0, <1>a, <2>2, <3>2, <3>3 DEF Covered, Balanced
  <2> QED BY <2>3, <2>4
<1>21. ASSUME NEW t \in Threads, TakeWaiters(t) PROVE Covered' /\ IsFiniteSet(Owed')
  <2>1. PICK p \in {"signal", "fire", "idle"} : Goto(t, p)
    BY <1>21 DEF TakeWaiters
  <2>2. Hit(pc[t], WaitingPoints) = 0 /\ Hit(p, WaitingPoints) = 0
    BY <1>21 DEF TakeWaiters, Hit, WaitingPoints
  <2>3. Waiting' = Waiting - 0 + 0
    BY <1>0, <2>1, <2>2, WaitingMove
  <2>4. rval[t] = 0
    BY <1>0, <1>21 DEF TakeWaiters, Locals, Types
  <2>5. IsFiniteSet(Owed') /\ Signals' = Signals + waiters
    BY <1>0, <1>21, <2>4, OwedGrow DEF TakeWaiters
  <2>6. ~crashed /\ waiters' = 0 /\ kern' = kern /\ surplus' = surplus
    BY <1>21 DEF TakeWaiters
  <2> QED BY <1>0, <1>a, <2>3, <2>5, <2>6 DEF Covered, Balanced
<1>22. ASSUME NEW t \in Threads, SignalWaiter(t) PROVE Covered' /\ IsFiniteSet(Owed')
  <2>1. PICK p \in {"signal", "fire", "idle"} : Goto(t, p)
    BY <1>22 DEF SignalWaiter
  <2>2. Hit(pc[t], WaitingPoints) = 0 /\ Hit(p, WaitingPoints) = 0
    BY <1>22 DEF SignalWaiter, Hit, WaitingPoints
  <2>3. Waiting' = Waiting - 0 + 0
    BY <1>0, <2>1, <2>2, WaitingMove
  <2>4. rval[t] > 0
    BY <1>0, <1>22 DEF SignalWaiter, Locals, Types
  <2>5. IsFiniteSet(Owed') /\ Signals' = Signals - 1
    BY <1>0, <1>22, <2>4, OwedShrink DEF SignalWaiter
  <2>6. ~crashed /\ waiters' = waiters /\ kern' = kern + 1 /\ surplus' = surplus
    BY <1>22 DEF SignalWaiter
  <2> QED BY <1>0, <1>a, <2>3, <2>5, <2>6 DEF Covered, Balanced
<1>23. CASE UNCHANGED vars
  <2>1. Waiting' = Waiting /\ Signals' = Signals /\ Owed' = Owed /\ waiters' = waiters /\ kern' = kern
        /\ surplus' = surplus /\ crashed' = crashed
    BY <1>23 DEF vars, Waiting, Signals, Owed, CountAt, ThreadsAt
  <2> QED BY <1>0, <1>a, <2>1 DEF Covered, Balanced
<1> QED BY <1>1, <1>2, <1>3, <1>4, <1>5, <1>5c, <1>6, <1>7, <1>8, <1>9, <1>10, <1>11,
           <1>12, <1>13, <1>14, <1>15, <1>16, <1>17, <1>18, <1>19, <1>20, <1>21, <1>22, <1>23
        DEF Next, Step, WaitStep, WakeStep, NotifyStep

-----------------------------------------------------------------------------
(* The lists.  Each step says what it does to First, Before and Fresh, and  *)
(* the invariant follows from that.                                         *)

Parts == Types /\ Locals /\ OneClaim /\ FreshApart /\ LastBlocks /\ OneWay

SameShape == \A n \in Notes :
    /\ First(n)' <=> First(n)
    /\ Fresh(n)' <=> Fresh(n)
    /\ \A m \in Notes : Before(m, n)' <=> Before(m, n)

\* The locals that lists are made of.
UnchangedLists == UNCHANGED <<head, tail, next, status, whead, wtail, dsn, prev>>

\* Points that say something about lists.
ListPoints == {"append", "link", "retain", "sethead", "taketail", "advance"}

\* Nothing happens to the lists.
LEMMA QuietStep ==
    ASSUME Parts, NEW own \in Owners, Lists(own), UnchangedLists,
           NEW t \in Threads, NEW p \in Points, Goto(t, p),
           \/ pc[t] \notin ListPoints /\ p \notin ListPoints
           \/ {pc[t], p} \subseteq PublishPoints
    PROVE  FreshApart' /\ LastBlocks' /\ OneWay' /\ Lists(own)'
<1> USE DEF Goto, ListPoints, PublishPoints, UnchangedLists
<1>0. \A u \in Threads : /\ pc'[u] \in PublishPoints <=> pc[u] \in PublishPoints
                         /\ pc'[u] = "append" <=> pc[u] = "append"
                         /\ pc'[u] = "link" <=> pc[u] = "link"
                         /\ pc'[u] = "taketail" <=> pc[u] = "taketail"
                         /\ pc'[u] = "advance" <=> pc[u] = "advance"
  BY DEF Parts, Types
<1> DEFINE Still == head' = head /\ tail' = tail /\ next' = next /\ status' = status
                    /\ whead' = whead /\ wtail' = wtail /\ dsn' = dsn /\ prev' = prev
<1>1. Still
  OBVIOUS
<1>2. SameShape
  BY <1>0, <1>1 DEF SameShape, First, Fresh, Before, Linking, Alive
<1>3. FreshApart'
  BY <1>0, <1>1, <1>2 DEF SameShape, FreshApart, Parts
<1>4. LastBlocks'
  BY <1>0, <1>1 DEF LastBlocks, Alive, Parts
<1>5. OneWay'
  BY <1>0, <1>1, <1>2 DEF SameShape, OneWay, Parts
<1>6. Lists(own)'
  BY <1>0, <1>1, <1>2 DEF SameShape, Lists
<1> QED BY <1>3, <1>4, <1>5, <1>6

\* A wake takes the head: the first block is its local's now.
LEMMA TakeHeadStep ==
    ASSUME Parts, NEW own \in Owners, Lists(own), NEW t \in Threads, TakeHead(t),
           head # None
    PROVE  FreshApart' /\ LastBlocks' /\ OneWay' /\ Lists(own)'
<1>1. /\ head' = None /\ whead' = [whead EXCEPT ![t] = head] /\ whead[t] = None
      /\ pc' = [pc EXCEPT ![t] = "taketail"] /\ pc[t] = "takehead"
      /\ UNCHANGED <<tail, next, status, wtail, dsn, prev>>
  BY DEF TakeHead, At, Goto, Parts, Locals
<1>0. \A u \in Threads : /\ pc'[u] \in PublishPoints <=> pc[u] \in PublishPoints
                         /\ pc'[u] = "append" <=> pc[u] = "append"
                         /\ pc'[u] = "link" <=> pc[u] = "link"
                         /\ pc'[u] = "advance" <=> pc[u] = "advance"
                         /\ u # t => pc'[u] = pc[u] /\ whead'[u] = whead[u]
                         /\ whead'[t] = head /\ pc'[t] = "taketail"
  BY <1>1 DEF Parts, Types, PublishPoints
<1>2. SameShape
  <2> SUFFICES ASSUME NEW n \in Notes
               PROVE  /\ First(n)' <=> First(n)
                      /\ Fresh(n)' <=> Fresh(n)
                      /\ \A m \in Notes : Before(m, n)' <=> Before(m, n)
    BY DEF SameShape
  <2>1. n # None
    BY GroupAssumption DEF GroupAssumption
  <2>2. First(n)' <=> First(n)
    BY <1>0, <1>1, <2>1 DEF First
  <2> QED BY <1>0, <1>1, <2>2 DEF Fresh, Before, Linking, Alive
<1>3. FreshApart'
  BY <1>0, <1>1, <1>2 DEF SameShape, FreshApart, Parts
<1>4. LastBlocks'
  BY <1>0, <1>1 DEF LastBlocks, Alive, Parts
<1>5. OneWay'
  BY <1>0, <1>1, <1>2 DEF SameShape, OneWay, Parts
<1>6. Lists(own)'
  BY <1>0, <1>1, <1>2 DEF SameShape, Lists
<1> QED BY <1>3, <1>4, <1>5, <1>6

\* It takes the tail: the list that grew is its own.
LEMMA TakeTailStep ==
    ASSUME Parts, NEW own \in Owners, Lists(own), NEW t \in Threads, TakeTail(t)
    PROVE  FreshApart' /\ LastBlocks' /\ OneWay' /\ Apart'
<1>1. /\ tail' = None /\ wtail' = [wtail EXCEPT ![t] = tail]
      /\ pc' = [pc EXCEPT ![t] = "takewaiters"] /\ pc[t] = "taketail"
      /\ UNCHANGED <<head, next, status, whead, dsn, prev>>
  BY DEF TakeTail, At, Goto
<1>2. tail # None /\ head = None /\ \A u \in Threads : pc[u] \in ClaimPoints => u = t
  BY <1>1 DEF Parts, OneClaim, ClaimPoints
<1>0. \A u \in Threads : /\ pc'[u] \in PublishPoints <=> pc[u] \in PublishPoints
                         /\ pc'[u] = "append" <=> pc[u] = "append"
                         /\ pc'[u] = "link" <=> pc[u] = "link"
                         /\ pc'[u] = "advance" <=> pc[u] = "advance"
                         /\ pc'[u] # "taketail" /\ (pc[u] = "taketail" <=> u = t)
                         /\ wtail'[u] = IF u = t THEN tail ELSE wtail[u]
  BY <1>1, <1>2 DEF Parts, Types, PublishPoints, ClaimPoints
<1>3. SameShape
  BY <1>0, <1>1 DEF SameShape, First, Fresh, Before, Linking, Alive
<1>4. FreshApart'
  BY <1>0, <1>1, <1>3 DEF SameShape, FreshApart, Parts
<1>a. \A u \in Threads : pc[u] = "link" => prev[u] # None
  BY DEF Parts, Locals
<1>5. LastBlocks'
  BY <1>0, <1>1, <1>a DEF LastBlocks, Alive, Parts
<1>6. OneWay'
  BY <1>0, <1>1, <1>3 DEF SameShape, OneWay, Parts
<1> DEFINE own2 == [n \in Notes |-> IF own[n] = None THEN t ELSE own[n]]
<1>7. own2 \in Owners
  BY DEF Owners
<1>8. Lists(own2)'
  <2>1. \A u \in Threads : whead'[u] # None => own2[whead'[u]] = u
    BY <1>0, <1>1, GroupAssumption DEF Lists, Parts, Types, GroupAssumption
  <2>2. \A u \in Threads : pc'[u] \notin PublishPoints
    BY <1>0, <1>1, <1>2 DEF PublishPoints, ClaimPoints
  <2>3. \A m, n \in Notes : Before(m, n)' => own2[m] = own2[n]
    BY <1>3 DEF SameShape, Lists
  <2> QED BY <1>0, <1>1, <1>2, <2>1, <2>2, <2>3 DEF Lists
<1> QED BY <1>4, <1>5, <1>6, <1>7, <1>8 DEF Apart

\* It submits its first block, which it is the only way to.
LEMMA FireStep ==
    ASSUME Parts, NEW own \in Owners, Lists(own), NEW t \in Threads, FireNote(t)
    PROVE  FreshApart' /\ LastBlocks' /\ OneWay' /\ Lists(own)'
<1> DEFINE x == whead[t]
<1>1. /\ x \in Notes /\ x # None /\ status[x] = "pending" /\ First(x) /\ own[x] = t
      /\ status' = [status EXCEPT ![x] = "fired"]
      /\ pc' = [pc EXCEPT ![t] = "advance"] /\ pc[t] = "fire"
      /\ UNCHANGED <<head, tail, next, whead, wtail, dsn, prev>>
  <2>1. pc[t] = "fire" /\ whead[t] # None
    BY DEF FireNote, At, Parts, Locals
  <2>2. status[x] = "pending" /\ own[x] = t /\ First(x)
    BY <2>1 DEF Parts, OneWay, Lists, First
  <2>3. x \in Notes
    BY <2>1 DEF Parts, Types
  <2>4. status' = [status EXCEPT ![x] = "fired"]
    BY <2>2, <2>3 DEF FireNote
  <2> QED BY <2>1, <2>2, <2>3, <2>4 DEF FireNote, Goto, locals
<1>0. \A u \in Threads : /\ pc'[u] \in PublishPoints <=> pc[u] \in PublishPoints
                         /\ pc'[u] = "append" <=> pc[u] = "append"
                         /\ pc'[u] = "link" <=> pc[u] = "link"
                         /\ pc'[u] = "taketail" <=> pc[u] = "taketail"
                         /\ u # t => pc'[u] = pc[u]
                         /\ pc'[t] = "advance"
  BY <1>1 DEF Parts, Types, PublishPoints
<1>2. \A n \in Notes : /\ status'[n] = IF n = x THEN "fired" ELSE status[n]
                       /\ Alive(n)' <=> Alive(n)
  BY <1>1 DEF Parts, Types, Alive
<1>3. SameShape
  <2>1. \A n \in Notes : First(n)' <=> First(n)
    BY <1>0, <1>1 DEF First
  <2>2. \A n \in Notes : Fresh(n)' <=> Fresh(n)
    BY <1>0, <1>1, <1>2 DEF Fresh
  <2>3. \A m, n \in Notes : Before(m, n)' <=> Before(m, n)
    BY <1>0, <1>1, <1>2 DEF Before, Linking
  <2> QED BY <2>1, <2>2, <2>3 DEF SameShape
<1>a. x # tail /\ x # head
  BY <1>1, GroupAssumption DEF Lists, GroupAssumption
<1>b. \A u \in Threads : u # t /\ whead[u] # None => whead[u] # x
  BY <1>1, GroupAssumption DEF Lists, GroupAssumption
<1>c. \A u \in Threads : pc[u] \in PublishPoints => dsn[u] # x
  BY <1>1, GroupAssumption DEF Lists, GroupAssumption
<1>d. \A u \in Threads : pc[u] = "append" => dsn[u] # x
  BY <1>1 DEF Parts, FreshApart, Fresh
<1>e. /\ tail \in Notes \cup {None} /\ head \in Notes \cup {None}
      /\ \A u \in Threads : /\ whead[u] \in Notes \cup {None}
                            /\ dsn[u] \in Notes \cup {None}
                            /\ prev[u] \in Notes \cup {None}
                            /\ pc[u] \in PublishPoints \cup {"append", "link"} => dsn[u] # None
                            /\ pc[u] = "link" => prev[u] # None
  BY DEF Parts, Types, Locals
<1>4. FreshApart'
  BY <1>0, <1>1, <1>2, <1>3, <1>d, <1>e DEF SameShape, FreshApart, Parts
<1>5. LastBlocks'
  BY <1>0, <1>1, <1>2, <1>a, <1>e DEF LastBlocks, Parts
<1>6. OneWay'
  BY <1>0, <1>1, <1>2, <1>3, <1>a, <1>b, <1>c, <1>e DEF SameShape, OneWay, Parts
<1>7. Lists(own)'
  BY <1>0, <1>1, <1>3 DEF SameShape, Lists
<1> QED BY <1>4, <1>5, <1>6, <1>7

\* It goes on to the next block, and frees this one, which nothing names.
LEMMA AdvanceStep ==
    ASSUME Parts, NEW own \in Owners, Lists(own), NEW t \in Threads, Advance(t)
    PROVE  FreshApart' /\ LastBlocks' /\ OneWay' /\ Lists(own)'
<1> DEFINE x == whead[t]
           y == next[x]
<1>1. /\ x \in Notes /\ x # None /\ status[x] = "fired" /\ First(x) /\ own[x] = t
      /\ y \in Notes \cup {None} /\ (y # None \/ x = wtail[t])
      /\ status' = [status EXCEPT ![x] = "freed"]
      /\ whead' = [whead EXCEPT ![t] = y]
      /\ pc[t] = "advance"
      /\ UNCHANGED <<head, tail, next, wtail, dsn, prev>>
  <2>1. pc[t] = "advance" /\ whead[t] # None
    BY DEF Advance, At, Parts, Locals
  <2>2. status[x] = "fired" /\ own[x] = t /\ First(x)
    BY <2>1 DEF Parts, OneWay, Lists, First
  <2>3. x \in Notes /\ y \in Notes \cup {None}
    BY <2>1 DEF Parts, Types
  <2> QED BY <2>1, <2>2, <2>3 DEF Advance
<1>2. PICK p \in {"release", "fire"} : pc' = [pc EXCEPT ![t] = p]
  BY DEF Advance, Goto
<1>0. \A u \in Threads : /\ pc'[u] \in PublishPoints <=> pc[u] \in PublishPoints
                         /\ pc'[u] = "append" <=> pc[u] = "append"
                         /\ pc'[u] = "link" <=> pc[u] = "link"
                         /\ pc'[u] = "taketail" <=> pc[u] = "taketail"
                         /\ u # t => pc'[u] = pc[u] /\ whead'[u] = whead[u]
                         /\ pc'[t] # "advance" /\ whead'[t] = y
  BY <1>1, <1>2 DEF Parts, Types, PublishPoints
<1>e. /\ tail \in Notes \cup {None} /\ head \in Notes \cup {None}
      /\ \A u \in Threads : /\ whead[u] \in Notes \cup {None}
                            /\ dsn[u] \in Notes \cup {None}
                            /\ prev[u] \in Notes \cup {None}
                            /\ pc[u] \in PublishPoints \cup {"append", "link"} => dsn[u] # None
                            /\ pc[u] = "link" => prev[u] # None
  BY DEF Parts, Types, Locals
<1>a. x # tail /\ x # head
  BY <1>1, GroupAssumption DEF Lists, GroupAssumption
<1>b. \A u \in Threads : u # t /\ whead[u] # None => whead[u] # x
  BY <1>1, GroupAssumption DEF Lists, GroupAssumption
<1>c. \A u \in Threads : pc[u] \in PublishPoints => dsn[u] # x
  BY <1>1, GroupAssumption DEF Lists, GroupAssumption
<1>d. \A u \in Threads : pc[u] = "append" => dsn[u] # x
  BY <1>1 DEF Parts, FreshApart, Fresh
\* Nobody is about to link a block to this one.
<1>f. \A u \in Threads : pc[u] = "link" => prev[u] # x
  BY <1>1 DEF Parts, LastBlocks
<1>g. y # None => Before(x, y)
  BY <1>1 DEF Before, Alive
<1> HIDE DEF x, y
<1>3. \A n \in Notes : /\ status'[n] = IF n = x THEN "freed" ELSE status[n]
                       /\ Alive(n)' <=> Alive(n) /\ n # x
  BY <1>1 DEF Parts, Types, Alive
<1>4. \A m, n \in Notes : Before(m, n)' => Before(m, n) /\ m # x
  BY <1>0, <1>1, <1>3 DEF Before, Linking
<1>5. \A n \in Notes : /\ First(n)' => First(n) \/ n = y
                       /\ Fresh(n)' => Fresh(n)
  BY <1>0, <1>1, <1>3 DEF First, Fresh
<1>6. FreshApart'
  <2>1. \A n \in Notes : Fresh(n)' => ~First(n)'
    BY <1>1, <1>5, <1>e, <1>g DEF FreshApart, Parts, x, y
  <2>2. \A u \in Threads : pc'[u] = "append" => status'[dsn'[u]] = "pending"
    BY <1>0, <1>1, <1>3, <1>d, <1>e DEF FreshApart, Parts
  <2>3. \A n \in Notes : Fresh(n)' =>
         /\ tail' # n /\ next'[n] = None
         /\ \A m \in Notes : next'[m] # n
         /\ \A u \in Threads : wtail'[u] # n /\ prev'[u] # n
         /\ \A u \in Threads : pc'[u] = "link" => dsn'[u] # n
    BY <1>0, <1>1, <1>5 DEF FreshApart, Parts
  <2>4. \A u, v \in Threads : pc'[u] = "append" /\ pc'[v] = "append" /\ dsn'[u] = dsn'[v]
                               => u = v
    BY <1>0, <1>1 DEF FreshApart, Parts
  <2> QED BY <2>1, <2>2, <2>3, <2>4 DEF FreshApart
<1>7. LastBlocks'
  BY <1>0, <1>1, <1>3, <1>a, <1>e, <1>f DEF LastBlocks, Parts
<1>8. OneWay'
  <2>1. head' # None => status'[head'] = "pending"
    BY <1>1, <1>3, <1>a, <1>e DEF OneWay, Parts
  <2>2. y # None => status[y] = "pending" /\ y # x /\ y \in Notes
    BY <1>1, <1>g DEF OneWay, Parts
  <2>3. ASSUME NEW u \in Threads, whead'[u] # None
        PROVE  status'[whead'[u]] = IF pc'[u] = "advance" THEN "fired" ELSE "pending"
    <3>1. CASE u = t
      BY <1>0, <1>3, <2>2, <2>3, <3>1
    <3>2. CASE u # t
      BY <1>0, <1>3, <1>b, <1>e, <2>3, <3>2 DEF OneWay, Parts
    <3> QED BY <3>1, <3>2
  <2>4. \A u \in Threads : pc'[u] \in PublishPoints => status'[dsn'[u]] = "pending"
    BY <1>0, <1>1, <1>3, <1>c, <1>e DEF OneWay, Parts
  <2>5. ASSUME NEW m \in Notes, NEW n \in Notes, Before(m, n)'
        PROVE  status'[n] = "pending" /\ ~First(n)'
    <3>1. Before(m, n) /\ m # x
      BY <1>4, <2>5
    <3>2. status[n] = "pending" /\ ~First(n)
      BY <3>1 DEF OneWay, Parts
    <3>3. n # x
      BY <1>1, <3>2
    <3>4. n # y
      BY <1>1, <1>g, <3>1, GroupAssumption DEF OneWay, Parts, GroupAssumption
    <3> QED BY <1>3, <1>5, <3>2, <3>3, <3>4
  <2>6. \A m, k, n \in Notes : Before(m, n)' /\ Before(k, n)' => m = k
    BY <1>4 DEF OneWay, Parts
  <2> QED BY <2>1, <2>3, <2>4, <2>5, <2>6 DEF OneWay
<1>9. Lists(own)'
  <2>1. y # None => own[y] = t
    BY <1>1, <1>g DEF Lists
  <2>2. \A u \in Threads : whead'[u] # None =>
           own[whead'[u]] = IF pc'[u] = "taketail" THEN None ELSE u
    BY <1>0, <1>1, <2>1 DEF Lists
  <2>3. \A m, n \in Notes : Before(m, n)' => own[m] = own[n]
    BY <1>4 DEF Lists
  <2> QED BY <1>0, <1>1, <2>2, <2>3 DEF Lists
<1> QED BY <1>6, <1>7, <1>8, <1>9

\* The wake is done with its list.
LEMMA ReleaseStep ==
    ASSUME Parts, NEW own \in Owners, Lists(own), NEW t \in Threads, Release(t)
    PROVE  FreshApart' /\ LastBlocks' /\ OneWay' /\ Lists(own)'
<1>1. /\ wtail' = [wtail EXCEPT ![t] = None]
      /\ pc' = [pc EXCEPT ![t] = "idle"] /\ pc[t] = "release"
      /\ UNCHANGED <<head, tail, next, status, whead, dsn, prev>>
  BY DEF Release, At, Goto
<1>0. \A u \in Threads : /\ pc'[u] \in PublishPoints <=> pc[u] \in PublishPoints
                         /\ pc'[u] = "append" <=> pc[u] = "append"
                         /\ pc'[u] = "link" <=> pc[u] = "link"
                         /\ pc'[u] = "advance" <=> pc[u] = "advance"
                         /\ pc'[u] = "taketail" <=> pc[u] = "taketail"
                         /\ wtail'[u] \in {None, wtail[u]}
  BY <1>1 DEF Parts, Types, PublishPoints
<1>2. None \notin Notes /\ \A u \in Threads : pc[u] = "link" => prev[u] # None
  BY GroupAssumption DEF Parts, Locals, GroupAssumption
<1>3. SameShape
  BY <1>0, <1>1 DEF SameShape, First, Fresh, Before, Linking, Alive
<1>4. FreshApart'
  BY <1>0, <1>1, <1>2, <1>3 DEF SameShape, FreshApart, Parts
<1>5. LastBlocks'
  BY <1>0, <1>1, <1>2 DEF LastBlocks, Alive, Parts
<1>6. OneWay'
  BY <1>0, <1>1, <1>3 DEF SameShape, OneWay, Parts
<1>7. Lists(own)'
  BY <1>0, <1>1, <1>3 DEF SameShape, Lists
<1> QED BY <1>4, <1>5, <1>6, <1>7

\* A notifier takes a block that nothing names.
LEMMA NotifyStep1 ==
    ASSUME Parts, NEW own \in Owners, Lists(own), NEW t \in Threads, NEW x \in Notes,
           Notify(t, x)
    PROVE  FreshApart' /\ LastBlocks' /\ OneWay' /\ Lists(own)'
<1>1. /\ status[x] = "unused" /\ status' = [status EXCEPT ![x] = "pending"]
      /\ dsn' = [dsn EXCEPT ![t] = x]
      /\ pc' = [pc EXCEPT ![t] = "append"] /\ pc[t] = "idle"
      /\ UNCHANGED <<head, tail, next, whead, wtail, prev>>
  BY DEF Notify, Call, At, Goto
<1>0. \A u \in Threads : /\ pc'[u] \in PublishPoints <=> pc[u] \in PublishPoints
                         /\ pc'[u] = "append" <=> pc[u] = "append" \/ u = t
                         /\ pc'[u] = "link" <=> pc[u] = "link"
                         /\ pc'[u] = "taketail" <=> pc[u] = "taketail"
                         /\ pc'[u] = "advance" <=> pc[u] = "advance"
                         /\ u # t => dsn'[u] = dsn[u]
                         /\ dsn'[t] = x
                         /\ pc[t] \notin PublishPoints \cup {"link", "append"}
  BY <1>1 DEF Parts, Types, PublishPoints
<1>2. \A n \in Notes : /\ status'[n] = IF n = x THEN "pending" ELSE status[n]
                       /\ Alive(n)' <=> Alive(n) \/ n = x
  BY <1>1 DEF Parts, Types, Alive
<1>3. Fresh(x) /\ ~Alive(x) /\ ~First(x) /\ tail # x /\ next[x] = None
  BY <1>1 DEF Fresh, Alive, Parts, FreshApart
<1>4. \A u \in Threads : prev[u] # x /\ whead[u] # x /\ (pc[u] = "append" => dsn[u] # x)
  BY <1>1, <1>3 DEF First, Parts, FreshApart
<1>e. /\ None \notin Notes
      /\ tail \in Notes \cup {None} /\ head \in Notes \cup {None}
      /\ \A u \in Threads : /\ whead[u] \in Notes \cup {None}
                            /\ dsn[u] \in Notes \cup {None}
                            /\ prev[u] \in Notes \cup {None}
                            /\ pc[u] \in PublishPoints \cup {"append", "link"} => dsn[u] # None
                            /\ pc[u] = "link" => prev[u] # None
  BY GroupAssumption DEF Parts, Types, Locals, GroupAssumption
<1>5. SameShape
  <2>1. \A n \in Notes : First(n)' <=> First(n)
    BY <1>0, <1>1 DEF First
  <2>2. \A n \in Notes : Fresh(n)' <=> Fresh(n)
    BY <1>0, <1>1, <1>2 DEF Fresh
  <2>3. \A m, n \in Notes : Linking(m, n)' <=> Linking(m, n)
    BY <1>0, <1>1 DEF Linking
  <2>4. \A m, n \in Notes : Before(m, n)' <=> Before(m, n)
    BY <1>1, <1>2, <1>3, <1>4, <1>e, <2>3 DEF Before, Linking
  <2> QED BY <2>1, <2>2, <2>4 DEF SameShape
<1>6. FreshApart'
  <2>1. \A n \in Notes : Fresh(n)' =>
         /\ ~First(n)' /\ tail' # n /\ next'[n] = None
         /\ \A m \in Notes : next'[m] # n
         /\ \A u \in Threads : wtail'[u] # n /\ prev'[u] # n
         /\ \A u \in Threads : pc'[u] = "link" => dsn'[u] # n
    BY <1>0, <1>1, <1>5 DEF SameShape, FreshApart, Parts
  <2>2. \A u, v \in Threads : pc'[u] = "append" /\ pc'[v] = "append" /\ dsn'[u] = dsn'[v]
                               => u = v
    BY <1>0, <1>4 DEF FreshApart, Parts
  <2>3. \A u \in Threads : pc'[u] = "append" => status'[dsn'[u]] = "pending"
    BY <1>0, <1>2, <1>e DEF FreshApart, Parts
  <2> QED BY <2>1, <2>2, <2>3 DEF FreshApart
<1>7. LastBlocks'
  BY <1>0, <1>1, <1>2, <1>3, <1>4, <1>e DEF LastBlocks, Parts
<1>8. OneWay'
  <2>1. head # x
    BY <1>3 DEF First
  <2>2. \A n \in Notes : status[n] # "unused" => status'[n] = status[n]
    BY <1>1, <1>2
  <2>3. \A m, n \in Notes : Before(m, n)' => status'[n] = "pending" /\ ~First(n)'
    BY <1>5, <2>2 DEF SameShape, OneWay, Parts
  <2>4. \A m, k, n \in Notes : Before(m, n)' /\ Before(k, n)' => m = k
    BY <1>5 DEF SameShape, OneWay, Parts
  <2>5. head' # None => status'[head'] = "pending"
    BY <1>1, <1>e, <2>2 DEF OneWay, Parts
  <2>6. \A u \in Threads : whead'[u] # None =>
         status'[whead'[u]] = IF pc'[u] = "advance" THEN "fired" ELSE "pending"
    BY <1>0, <1>1, <1>2, <1>4, <1>e DEF OneWay, Parts
  <2>7. \A u \in Threads : pc'[u] \in PublishPoints => status'[dsn'[u]] = "pending"
    BY <1>0, <1>e, <2>2 DEF OneWay, Parts
  <2> QED BY <2>3, <2>4, <2>5, <2>6, <2>7 DEF OneWay
<1>9. Lists(own)'
  BY <1>0, <1>1, <1>5 DEF SameShape, Lists
<1> QED BY <1>6, <1>7, <1>8, <1>9

\* A block becomes the first of a new list ...
LEMMA AppendFirstStep ==
    ASSUME Parts, NEW own \in Owners, Lists(own), NEW t \in Threads, Append(t),
           tail = None
    PROVE  FreshApart' /\ LastBlocks' /\ OneWay' /\ Apart'
<1> DEFINE x == dsn[t]
<1>1. /\ x \in Notes /\ x # None /\ Fresh(x) /\ status[x] = "pending"
      /\ prev[t] = None /\ prev' = [prev EXCEPT ![t] = None] /\ tail' = x
      /\ pc' = [pc EXCEPT ![t] = "retain"] /\ pc[t] = "append"
      /\ UNCHANGED <<head, next, status, whead, wtail, dsn>>
  <2>1. pc[t] = "append" /\ dsn[t] # None /\ prev[t] = None
    BY DEF Append, At, Parts, Locals
  <2>2. x \in Notes /\ Fresh(x) /\ status[x] = "pending"
    BY <2>1 DEF Parts, Types, FreshApart, Fresh
  <2> QED BY <2>1, <2>2 DEF Append, Goto
<1>0. \A u \in Threads : /\ pc'[u] \in PublishPoints <=> pc[u] \in PublishPoints \/ u = t
                         /\ pc'[u] = "append" <=> pc[u] = "append" /\ u # t
                         /\ pc'[u] = "link" <=> pc[u] = "link"
                         /\ pc'[u] = "taketail" <=> pc[u] = "taketail"
                         /\ pc'[u] = "advance" <=> pc[u] = "advance"
                         /\ prev'[u] = prev[u]
  BY <1>1 DEF Parts, Types, PublishPoints
<1>2. /\ ~First(x) /\ next[x] = None
      /\ \A m \in Notes : next[m] # x
      /\ \A u \in Threads : /\ wtail[u] # x /\ prev[u] # x /\ whead[u] # x
                            /\ pc[u] = "link" => dsn[u] # x
  BY <1>1 DEF Parts, FreshApart, First
<1>3. head = None /\ \A u \in Threads : pc[u] \notin PublishPoints
  BY DEF Parts, OneClaim, ClaimPoints
<1>4. None \notin Notes /\ \A u \in Threads : pc[u] = "link" => prev[u] # None /\ dsn[u] # None
  BY GroupAssumption DEF Parts, Locals, GroupAssumption
<1>u. \A u \in Threads : pc[u] = "append" /\ dsn[u] = x => u = t
  BY <1>1 DEF Parts, FreshApart
<1> HIDE DEF x
<1>5. \A n \in Notes : First(n)' => First(n) \/ n = x
  BY <1>0, <1>1 DEF First, x
<1>6. \A n \in Notes : Fresh(n)' => Fresh(n) /\ n # x
  BY <1>0, <1>1, <1>u DEF Fresh
<1>7. \A m, n \in Notes : Before(m, n)' => Before(m, n) /\ m # x /\ n # x
  BY <1>0, <1>1, <1>2, <1>4 DEF Before, Linking, Alive
<1>8. FreshApart'
  BY <1>0, <1>1, <1>5, <1>6 DEF FreshApart, Parts
<1>9. LastBlocks'
  BY <1>0, <1>1, <1>2 DEF LastBlocks, Alive, Parts
<1>10. OneWay'
  <2>1. \A u \in Threads : pc'[u] \in PublishPoints => status'[dsn'[u]] = "pending"
    BY <1>0, <1>1, <1>3 DEF x
  <2>2. \A m, n \in Notes : Before(m, n)' => status'[n] = "pending" /\ ~First(n)'
    BY <1>1, <1>5, <1>7 DEF OneWay, Parts
  <2>3. \A m, k, n \in Notes : Before(m, n)' /\ Before(k, n)' => m = k
    BY <1>7 DEF OneWay, Parts
  <2> QED BY <1>0, <1>1, <1>3, <2>1, <2>2, <2>3 DEF OneWay, Parts
<1>11. PICK own2 \in Owners : own2[x] = None /\ \A n \in Notes : n # x => own2[n] = own[n]
  <2> DEFINE moved == [own EXCEPT ![x] = None]
  <2>1. moved \in Owners /\ moved[x] = None /\ \A n \in Notes : n # x => moved[n] = own[n]
    BY <1>1 DEF Owners
  <2> QED BY <2>1
<1>12. Lists(own2)'
  <2>1. \A u \in Threads : pc'[u] \in PublishPoints => dsn'[u] = x
    BY <1>0, <1>1, <1>3 DEF x
  <2>2. \A u \in Threads : whead'[u] # None =>
          own2[whead'[u]] = IF pc'[u] = "taketail" THEN None ELSE u
    BY <1>0, <1>1, <1>2, <1>11 DEF Lists, Parts, Types
  <2>3. \A m, n \in Notes : Before(m, n)' => own2[m] = own2[n]
    BY <1>7, <1>11 DEF Lists
  <2> QED BY <1>1, <1>3, <1>11, <2>1, <2>2, <2>3 DEF Lists
<1> QED BY <1>8, <1>9, <1>10, <1>11, <1>12 DEF Apart

\* ... or the last of the list that grows, to be linked from the one before.
LEMMA AppendNextStep ==
    ASSUME Parts, NEW own \in Owners, Lists(own), NEW t \in Threads, Append(t),
           tail # None
    PROVE  FreshApart' /\ LastBlocks' /\ OneWay' /\ Apart'
<1> DEFINE x == dsn[t]
<1> DEFINE last == tail
<1>1. /\ x \in Notes /\ x # None /\ Fresh(x) /\ status[x] = "pending"
      /\ last \in Notes /\ prev' = [prev EXCEPT ![t] = last] /\ tail' = x
      /\ pc' = [pc EXCEPT ![t] = "link"] /\ pc[t] = "append"
      /\ UNCHANGED <<head, next, status, whead, wtail, dsn>>
  <2>1. pc[t] = "append" /\ dsn[t] # None
    BY DEF Append, At, Parts, Locals
  <2>2. x \in Notes /\ Fresh(x) /\ status[x] = "pending"
    BY <2>1 DEF Parts, Types, FreshApart, Fresh
  <2>3. last \in Notes
    BY DEF Parts, Types
  <2> QED BY <2>1, <2>2, <2>3 DEF Append, Goto
<1>0. \A u \in Threads : /\ pc'[u] \in PublishPoints <=> pc[u] \in PublishPoints
                         /\ pc'[u] = "append" <=> pc[u] = "append" /\ u # t
                         /\ pc'[u] = "link" <=> pc[u] = "link" \/ u = t
                         /\ pc'[u] = "taketail" <=> pc[u] = "taketail"
                         /\ pc'[u] = "advance" <=> pc[u] = "advance"
                         /\ u # t => prev'[u] = prev[u]
                         /\ prev'[t] = last /\ pc[t] # "link"
  BY <1>1 DEF Parts, Types, PublishPoints
<1>2. /\ ~First(x) /\ next[x] = None /\ last # x
      /\ \A m \in Notes : next[m] # x
      /\ \A u \in Threads : /\ wtail[u] # x /\ prev[u] # x /\ whead[u] # x
                            /\ pc[u] = "link" => dsn[u] # x
  BY <1>1 DEF Parts, FreshApart, First
<1>3. /\ next[last] = None /\ status[last] = "pending" /\ own[last] = None
      /\ \A u \in Threads : wtail[u] # last /\ (pc[u] = "link" => prev[u] # last)
  BY DEF Parts, LastBlocks, Lists
<1>4. None \notin Notes /\ \A u \in Threads : pc[u] = "link" => prev[u] # None /\ dsn[u] # None
  BY GroupAssumption DEF Parts, Locals, GroupAssumption
<1>t. \A n \in Notes : Fresh(n) => last # n
  BY DEF Parts, FreshApart
<1>u. \A u \in Threads : pc[u] = "append" /\ dsn[u] = x => u = t
  BY <1>1 DEF Parts, FreshApart
<1>v. \A u \in Threads : dsn'[u] = dsn[u] /\ dsn[t] = x
  BY <1>1
<1> HIDE DEF x, last
<1>5. \A n \in Notes : First(n)' <=> First(n)
  BY <1>0, <1>1 DEF First
<1>6. \A n \in Notes : Fresh(n)' => Fresh(n) /\ n # x
  BY <1>0, <1>1, <1>u DEF Fresh
<1>7. \A m, n \in Notes : Before(m, n)' =>
           \/ Before(m, n) /\ m # x /\ n # x
           \/ m = last /\ n = x
  BY <1>0, <1>1, <1>2, <1>4, <1>v DEF Before, Linking, Alive
<1>8. FreshApart'
  BY <1>0, <1>1, <1>5, <1>6, <1>t, <1>v DEF FreshApart, Parts
<1>9. LastBlocks'
  <2>1. tail' # None => next'[tail'] = None /\ status'[tail'] = "pending"
    BY <1>1, <1>2
  <2>2. \A u \in Threads : tail' # None => wtail'[u] # tail'
    BY <1>1, <1>2
  <2>3. ASSUME NEW u \in Threads, pc'[u] = "link"
        PROVE  /\ status'[prev'[u]] \in {"pending", "fired"} /\ next'[prev'[u]] = None
               /\ prev'[u] # tail'
               /\ \A v \in Threads : prev'[u] # wtail'[v]
    BY <1>0, <1>1, <1>2, <1>3, <2>3 DEF LastBlocks, Alive, Parts
  <2>4. \A u, v \in Threads : pc'[u] = "link" /\ pc'[v] = "link" /\ prev'[u] = prev'[v]
                               => u = v
    BY <1>0, <1>3 DEF LastBlocks, Parts
  <2> QED BY <2>1, <2>2, <2>3, <2>4 DEF LastBlocks, Alive
<1>10. OneWay'
  <2>1. \A u \in Threads : pc'[u] \in PublishPoints => status'[dsn'[u]] = "pending"
    BY <1>0, <1>1 DEF OneWay, Parts
  <2>2. \A m, n \in Notes : Before(m, n)' => status'[n] = "pending" /\ ~First(n)'
    BY <1>1, <1>2, <1>5, <1>7 DEF OneWay, Parts
  <2>3. \A m, k, n \in Notes : Before(m, n)' /\ Before(k, n)' => m = k
    BY <1>7 DEF OneWay, Parts
  <2> QED BY <1>0, <1>1, <2>1, <2>2, <2>3 DEF OneWay, Parts
<1>11. PICK own2 \in Owners : own2[x] = None /\ \A n \in Notes : n # x => own2[n] = own[n]
  <2> DEFINE moved == [own EXCEPT ![x] = None]
  <2>1. moved \in Owners /\ moved[x] = None /\ \A n \in Notes : n # x => moved[n] = own[n]
    BY <1>1 DEF Owners
  <2> QED BY <2>1
<1>12. Lists(own2)'
  <2>1. \A u \in Threads : pc'[u] \in PublishPoints => own2[dsn'[u]] = None
    <3>1. \A u \in Threads : pc[u] \in PublishPoints => dsn[u] \in Notes /\ dsn[u] # x
      BY <1>2, <1>4 DEF First, Parts, Types, Locals
    <3> QED BY <1>0, <1>v, <1>11, <3>1 DEF Lists
  <2>2. \A u \in Threads : whead'[u] # None =>
          own2[whead'[u]] = IF pc'[u] = "taketail" THEN None ELSE u
    BY <1>0, <1>1, <1>2, <1>11 DEF Lists, Parts, Types
  <2>3. \A m, n \in Notes : Before(m, n)' => own2[m] = own2[n]
    BY <1>1, <1>2, <1>3, <1>7, <1>11 DEF Lists
  <2>4. head' # None => own2[head'] = None
    BY <1>1, <1>2, <1>11 DEF Lists, First, Parts, Types
  <2> QED BY <1>1, <1>11, <2>1, <2>2, <2>3, <2>4 DEF Lists
<1> QED BY <1>8, <1>9, <1>10, <1>11, <1>12 DEF Apart

\* The notifier links its block from the one before.
LEMMA LinkStep ==
    ASSUME Parts, NEW own \in Owners, Lists(own), NEW t \in Threads, Link(t)
    PROVE  FreshApart' /\ LastBlocks' /\ OneWay' /\ Lists(own)'
<1>1. PICK x \in Notes, p \in Notes : dsn[t] = x /\ prev[t] = p
  BY DEF Link, At, Parts, Locals, Types
<1>2. /\ next' = [next EXCEPT ![p] = x]
      /\ prev' = [prev EXCEPT ![t] = None] /\ dsn' = [dsn EXCEPT ![t] = None]
      /\ pc' = [pc EXCEPT ![t] = "idle"] /\ pc[t] = "link"
      /\ UNCHANGED <<head, tail, status, whead, wtail>>
  BY <1>1 DEF Link, At, Goto
<1>0. \A u \in Threads : /\ pc'[u] \in PublishPoints <=> pc[u] \in PublishPoints
                         /\ pc'[u] = "append" <=> pc[u] = "append"
                         /\ pc'[u] = "link" <=> pc[u] = "link" /\ u # t
                         /\ pc'[u] = "taketail" <=> pc[u] = "taketail"
                         /\ pc'[u] = "advance" <=> pc[u] = "advance"
                         /\ u # t => prev'[u] = prev[u] /\ dsn'[u] = dsn[u]
                         /\ prev'[t] = None
                         /\ pc[t] \notin PublishPoints \cup {"append"}
  BY <1>2 DEF Parts, Types, PublishPoints
<1>3. \A m \in Notes : next'[m] = IF m = p THEN x ELSE next[m]
  BY <1>2 DEF Parts, Types
<1>4. /\ next[p] = None /\ p # tail
      /\ \A u \in Threads : pc[u] = "link" /\ u # t => prev[u] # p
  BY <1>1, <1>2 DEF Parts, LastBlocks
<1>5. None \notin Notes
  BY GroupAssumption DEF GroupAssumption
<1>e. /\ tail \in Notes \cup {None}
      /\ \A u \in Threads : prev[u] \in Notes \cup {None} /\ (pc[u] = "link" => prev[u] # None)
  BY DEF Parts, Types, Locals
<1>6. SameShape
  <2>1. \A n \in Notes : First(n)' <=> First(n)
    BY <1>0, <1>2 DEF First
  <2>2. \A n \in Notes : Fresh(n)' <=> Fresh(n)
    BY <1>0, <1>2 DEF Fresh
  <2>3. ASSUME NEW m \in Notes, NEW n \in Notes
        PROVE  (next'[m] = n \/ Linking(m, n)') <=> (next[m] = n \/ Linking(m, n))
    <3>1. CASE m = p
      <4>1. Linking(m, n) <=> n = x
        BY <1>1, <1>2, <1>4, <3>1 DEF Linking
      <4>2. ~Linking(m, n)'
        BY <1>0, <1>4, <3>1 DEF Linking
      <4> QED BY <1>3, <1>4, <1>5, <3>1, <4>1, <4>2
    <3>2. CASE m # p
      <4>1. Linking(m, n)' <=> Linking(m, n)
        BY <1>0, <1>1, <3>2 DEF Linking
      <4> QED BY <1>3, <3>2, <4>1
    <3> QED BY <3>1, <3>2
  <2>4. \A m, n \in Notes : Before(m, n)' <=> Before(m, n)
    BY <1>2, <2>3 DEF Before, Alive
  <2> QED BY <2>1, <2>2, <2>4 DEF SameShape
<1>7. FreshApart'
  <2>1. ASSUME NEW n \in Notes, Fresh(n)'
        PROVE  /\ ~First(n)' /\ tail' # n /\ next'[n] = None
               /\ \A m \in Notes : next'[m] # n
               /\ \A u \in Threads : wtail'[u] # n /\ prev'[u] # n
               /\ \A u \in Threads : pc'[u] = "link" => dsn'[u] # n
    <3>1. Fresh(n) /\ ~First(n)' /\ n # p /\ n # x
      BY <1>1, <1>2, <1>6, <2>1 DEF SameShape, FreshApart, Parts
    <3> QED BY <1>0, <1>2, <1>3, <1>5, <3>1 DEF FreshApart, Parts
  <2>2. \A u, v \in Threads : pc'[u] = "append" /\ pc'[v] = "append" /\ dsn'[u] = dsn'[v]
                               => u = v
    BY <1>0 DEF FreshApart, Parts
  <2>3. \A u \in Threads : pc'[u] = "append" => status'[dsn'[u]] = "pending"
    BY <1>0, <1>2 DEF FreshApart, Parts
  <2> QED BY <2>1, <2>2, <2>3 DEF FreshApart
<1>8. LastBlocks'
  BY <1>0, <1>2, <1>3, <1>4, <1>e DEF LastBlocks, Alive, Parts
<1>9. OneWay'
  BY <1>0, <1>2, <1>6 DEF SameShape, OneWay, Parts
<1>10. Lists(own)'
  BY <1>0, <1>2, <1>6 DEF SameShape, Lists
<1> QED BY <1>7, <1>8, <1>9, <1>10

\* The first block of a list is published.
LEMMA SetHeadStep ==
    ASSUME Parts, NEW own \in Owners, Lists(own), NEW t \in Threads, SetHead(t)
    PROVE  FreshApart' /\ LastBlocks' /\ OneWay' /\ Lists(own)'
<1>1. PICK x \in Notes : dsn[t] = x
  BY DEF SetHead, At, Parts, Locals, Types, PublishPoints
<1>2. /\ head' = x /\ dsn' = [dsn EXCEPT ![t] = None]
      /\ pc' = [pc EXCEPT ![t] = "checkempty"] /\ pc[t] = "sethead"
      /\ UNCHANGED <<tail, next, status, whead, wtail, prev>>
  BY <1>1 DEF SetHead, At, Goto
<1>3. head = None /\ \A u \in Threads : pc[u] \in PublishPoints => u = t
  BY <1>2 DEF Parts, OneClaim, ClaimPoints, PublishPoints
<1>0. \A u \in Threads : /\ pc'[u] \notin PublishPoints /\ (pc[u] \in PublishPoints <=> u = t)
                         /\ pc'[u] = "append" <=> pc[u] = "append"
                         /\ pc'[u] = "link" <=> pc[u] = "link"
                         /\ pc'[u] = "taketail" <=> pc[u] = "taketail"
                         /\ pc'[u] = "advance" <=> pc[u] = "advance"
                         /\ u # t => dsn'[u] = dsn[u]
                         /\ pc[t] \notin {"link", "append"}
  BY <1>2, <1>3 DEF Parts, Types, PublishPoints
<1>4. None \notin Notes
  BY GroupAssumption DEF GroupAssumption
<1>5. SameShape
  <2>1. \A n \in Notes : First(n)' <=> First(n)
    BY <1>0, <1>1, <1>2, <1>3, <1>4 DEF First
  <2>2. \A n \in Notes : Fresh(n)' <=> Fresh(n)
    BY <1>0, <1>2 DEF Fresh
  <2>3. \A m, n \in Notes : Before(m, n)' <=> Before(m, n)
    BY <1>0, <1>2 DEF Before, Linking, Alive
  <2> QED BY <2>1, <2>2, <2>3 DEF SameShape
<1>6. FreshApart'
  BY <1>0, <1>2, <1>5 DEF SameShape, FreshApart, Parts
<1>7. LastBlocks'
  BY <1>0, <1>2 DEF LastBlocks, Alive, Parts
<1>8. OneWay'
  BY <1>0, <1>1, <1>2, <1>5 DEF SameShape, OneWay, Parts
<1>9. Lists(own)'
  BY <1>0, <1>1, <1>2, <1>5 DEF SameShape, Lists
<1> QED BY <1>6, <1>7, <1>8, <1>9

\* The lists survive every step.
LEMMA ListNext == IInv /\ Base' /\ [Next]_vars => ListInv'
<1> SUFFICES ASSUME IInv, Base', [Next]_vars PROVE ListInv'
  OBVIOUS
<1>p. Parts
  BY DEF IInv, ListInv, Parts
<1>o. PICK own \in Owners : Lists(own)
  BY DEF IInv, ListInv, Apart
<1>a. FreshApart' /\ LastBlocks' /\ OneWay' /\ Lists(own)' => ListInv'
  BY <1>o DEF ListInv, Apart
<1>q. ASSUME NEW t \in Threads, NEW q \in Points, Goto(t, q), UnchangedLists,
             \/ pc[t] \notin ListPoints /\ q \notin ListPoints
             \/ {pc[t], q} \subseteq PublishPoints
      PROVE  ListInv'
  BY <1>p, <1>o, <1>a, <1>q, QuietStep
<1> USE DEF Call, At, listVars, kernelVars, locals
<1>1. ASSUME NEW t \in Threads, Enter(t) PROVE ListInv'
  <2>1. Goto(t, "idle")
    BY <1>p, <1>1 DEF Enter, Parts, Types, Goto
  <2> QED BY <2>1, <1>q, <1>1 DEF Enter, UnchangedLists, ListPoints, Points, WaitPoints, WakePoints, NotifyPoints
<1>2. ASSUME NEW t \in Threads, Leave(t) PROVE ListInv'
  <2>1. PICK q \in {"dead", "takehead", "idle"} : Goto(t, q)
    BY <1>2 DEF Leave
  <2>2. UnchangedLists /\ pc[t] \notin ListPoints
    BY <1>2 DEF Leave, UnchangedLists, ListPoints
  <2>3. q \in Points \ ListPoints
    BY DEF Points, WaitPoints, WakePoints, NotifyPoints, ListPoints
  <2> QED BY <1>q, <2>1, <2>2, <2>3
<1>3. ASSUME NEW t \in Threads, NEW k \in WaitKinds, Wait(t, k) PROVE ListInv'
  <2>1. PICK q \in {"idle", "look"} : Goto(t, q)
    BY <1>3 DEF Wait
  <2>2. UnchangedLists /\ pc[t] \notin ListPoints
    BY <1>3 DEF Wait, UnchangedLists, ListPoints
  <2>3. q \in Points \ ListPoints
    BY DEF Points, WaitPoints, WakePoints, NotifyPoints, ListPoints
  <2> QED BY <1>q, <2>1, <2>2, <2>3
<1>4. ASSUME NEW t \in Threads, LookEmpty(t) PROVE ListInv'
  BY <1>q, <1>4 DEF LookEmpty, UnchangedLists, ListPoints, Points, WaitPoints, WakePoints, NotifyPoints
<1>5. ASSUME NEW t \in Threads, LookBusy(t) PROVE ListInv'
  BY <1>q, <1>5 DEF LookBusy, UnchangedLists, ListPoints, Points, WaitPoints, WakePoints, NotifyPoints
<1>5c. ASSUME NEW t \in Threads, Count(t) PROVE ListInv'
  BY <1>q, <1>5c DEF Count, UnchangedLists, ListPoints, Points, WaitPoints, WakePoints, NotifyPoints
<1>6. ASSUME NEW t \in Threads, Recheck(t) PROVE ListInv'
  <2>1. PICK q \in {"takehead", "timedwait", "drain", "dead"} : Goto(t, q)
    BY <1>6 DEF Recheck
  <2>2. UnchangedLists /\ pc[t] \notin ListPoints
    BY <1>6 DEF Recheck, UnchangedLists, ListPoints
  <2>3. q \in Points \ ListPoints
    BY DEF Points, WaitPoints, WakePoints, NotifyPoints, ListPoints
  <2> QED BY <1>q, <2>1, <2>2, <2>3
<1>7. ASSUME NEW t \in Threads, KernelWake(t) PROVE ListInv'
  BY <1>q, <1>7 DEF KernelWake, UnchangedLists, ListPoints, Points, WaitPoints, WakePoints, NotifyPoints
<1>8. ASSUME NEW t \in Threads, KernelTimeout(t) PROVE ListInv'
  BY <1>q, <1>8 DEF KernelTimeout, UnchangedLists, ListPoints, Points, WaitPoints, WakePoints, NotifyPoints
<1>9. ASSUME NEW t \in Threads, Undo(t) PROVE ListInv'
  <2>1. PICK q \in {"idle", "drain"} : Goto(t, q)
    BY <1>9 DEF Undo
  <2>2. UnchangedLists /\ pc[t] \notin ListPoints
    BY <1>9 DEF Undo, UnchangedLists, ListPoints
  <2>3. q \in Points \ ListPoints
    BY DEF Points, WaitPoints, WakePoints, NotifyPoints, ListPoints
  <2> QED BY <1>q, <2>1, <2>2, <2>3
<1>10. ASSUME NEW t \in Threads, TakeHead(t) PROVE ListInv'
  <2>1. CASE head = None
    <3>1. whead' = whead /\ pc[t] = "takehead"
      BY <1>p, <1>10, <2>1 DEF TakeHead, Parts, Locals, Types
    <3> QED BY <1>q, <1>10, <2>1, <3>1 DEF TakeHead, UnchangedLists, ListPoints, Points, WaitPoints, WakePoints, NotifyPoints
  <2>2. CASE head # None
    BY <1>p, <1>o, <1>a, <1>10, <2>2, TakeHeadStep
  <2> QED BY <2>1, <2>2
<1>11. ASSUME NEW t \in Threads, TakeTail(t) PROVE ListInv'
  BY <1>p, <1>o, <1>11, TakeTailStep DEF ListInv
<1>12. ASSUME NEW t \in Threads, TakeWaiters(t) PROVE ListInv'
  <2>1. PICK q \in {"signal", "fire", "idle"} : Goto(t, q)
    BY <1>12 DEF TakeWaiters
  <2>2. UnchangedLists /\ pc[t] \notin ListPoints
    BY <1>12 DEF TakeWaiters, UnchangedLists, ListPoints
  <2>3. q \in Points \ ListPoints
    BY DEF Points, WaitPoints, WakePoints, NotifyPoints, ListPoints
  <2> QED BY <1>q, <2>1, <2>2, <2>3
<1>13. ASSUME NEW t \in Threads, SignalWaiter(t) PROVE ListInv'
  <2>1. PICK q \in {"signal", "fire", "idle"} : Goto(t, q)
    BY <1>13 DEF SignalWaiter
  <2>2. UnchangedLists /\ pc[t] \notin ListPoints
    BY <1>13 DEF SignalWaiter, UnchangedLists, ListPoints
  <2>3. q \in Points \ ListPoints
    BY DEF Points, WaitPoints, WakePoints, NotifyPoints, ListPoints
  <2> QED BY <1>q, <2>1, <2>2, <2>3
<1>14. ASSUME NEW t \in Threads, FireNote(t) PROVE ListInv'
  BY <1>p, <1>o, <1>a, <1>14, FireStep
<1>15. ASSUME NEW t \in Threads, Advance(t) PROVE ListInv'
  BY <1>p, <1>o, <1>a, <1>15, AdvanceStep
<1>16. ASSUME NEW t \in Threads, Release(t) PROVE ListInv'
  BY <1>p, <1>o, <1>a, <1>16, ReleaseStep
<1>17. ASSUME NEW t \in Threads, NEW n \in Notes, Notify(t, n) PROVE ListInv'
  BY <1>p, <1>o, <1>a, <1>17, NotifyStep1
<1>18. ASSUME NEW t \in Threads, Append(t) PROVE ListInv'
  <2>1. CASE tail = None
    BY <1>p, <1>o, <1>18, <2>1, AppendFirstStep DEF ListInv
  <2>2. CASE tail # None
    BY <1>p, <1>o, <1>18, <2>2, AppendNextStep DEF ListInv
  <2> QED BY <2>1, <2>2
<1>19. ASSUME NEW t \in Threads, Link(t) PROVE ListInv'
  BY <1>p, <1>o, <1>a, <1>19, LinkStep
<1>20. ASSUME NEW t \in Threads, Retain(t) PROVE ListInv'
  BY <1>q, <1>20 DEF Retain, UnchangedLists, PublishPoints, Points, NotifyPoints
<1>21. ASSUME NEW t \in Threads, SetHead(t) PROVE ListInv'
  BY <1>p, <1>o, <1>a, <1>21, SetHeadStep
<1>22. ASSUME NEW t \in Threads, CheckEmpty(t) PROVE ListInv'
  <2>1. PICK q \in {"takehead", "idle"} : Goto(t, q)
    BY <1>22 DEF CheckEmpty
  <2> QED BY <1>q, <1>22, <2>1 DEF CheckEmpty, UnchangedLists, ListPoints, Points, WaitPoints, WakePoints, NotifyPoints
<1>23. CASE UNCHANGED vars
  <2>1. FreshApart' /\ LastBlocks' /\ OneWay'
    BY <1>p, <1>23 DEF vars, Parts, FreshApart, LastBlocks, OneWay, First, Fresh, Before,
                        Linking, Alive
  <2>2. Lists(own)'
    BY <1>o, <1>23 DEF vars, Lists, Before, Linking, Alive
  <2> QED BY <1>a, <2>1, <2>2
<1> QED BY <1>1, <1>2, <1>3, <1>4, <1>5, <1>5c, <1>6, <1>7, <1>8, <1>9, <1>10, <1>11,
           <1>12, <1>13, <1>14, <1>15, <1>16, <1>17, <1>18, <1>19, <1>20, <1>21, <1>22, <1>23
        DEF Next, Step, WaitStep, WakeStep, NotifyStep

-----------------------------------------------------------------------------
(* The inductive invariant and what follows from it.                       *)

\* The invariant holds at the start ...
LEMMA InitIInv == Init => IInv
<1> SUFFICES ASSUME Init PROVE IInv
  OBVIOUS
<1> USE GroupAssumption DEF GroupAssumption, Init
<1>1. Types /\ Locals /\ OneClaim
  BY DEF Types, Locals, OneClaim, Statuses, Points, PublishPoints, ClaimPoints
<1>2. \A m, n \in Notes : ~Before(m, n)
  BY DEF Before, Linking
<1>3. \A n \in Notes : ~First(n)
  BY DEF First, PublishPoints
<1>4. FreshApart /\ LastBlocks /\ OneWay
  BY <1>2, <1>3 DEF FreshApart, LastBlocks, OneWay, PublishPoints
<1>5. Apart
  <2>1. [n \in Notes |-> None] \in Owners
    BY DEF Owners
  <2>2. Lists([n \in Notes |-> None])
    BY <1>2 DEF Lists, PublishPoints
  <2> QED BY <2>1, <2>2 DEF Apart
<1>6. CountInv
  <2>1. Owed = {}
    BY DEF Owed
  <2>2. ThreadsAt(Threads, pc, HoldPoints) = {} /\ ThreadsAt(Threads, whead, Notes) = {}
        /\ ThreadsAt(Threads, pc, WaitingPoints) = {}
    BY DEF ThreadsAt, HoldPoints, WaitingPoints
  <2>3. Held = 0 /\ Taken = 0 /\ Waiting = 0 /\ Signals = 0 /\ IsFiniteSet(Owed)
    BY <2>1, <2>2, FS_EmptySet DEF Held, Taken, Waiting, Signals, CountAt
  <2>4. ListRetains
    BY <1>1, <2>3, RetainsCounted DEF RefsCounted, HeadRef
  <2>5. WaiterAccounting
    BY <2>3, CoveredMeans DEF Covered, Balanced
  <2> QED BY <2>3, <2>4, <2>5 DEF CountInv
<1> QED BY <1>1, <1>4, <1>5, <1>6 DEF IInv, ListInv

\* ... and every step keeps it.
LEMMA CoveredMeansNext == WaiterAccounting' <=> Covered'
BY CoveredMeans, PTL

LEMMA NextIInv == IInv /\ [Next]_vars => IInv'
<1> SUFFICES ASSUME IInv, [Next]_vars PROVE IInv'
  OBVIOUS
<1>1. Base'
  BY BaseNext
<1>2. ListInv' /\ ListRetains' /\ WaiterAccounting' /\ IsFiniteSet(Owed')
  BY <1>1, ListNext, RetainsNext, CoveredNext, CoveredMeansNext
<1> QED BY <1>1, <1>2 DEF IInv, Base, CountInv

\* The counts of group waiters balance, whatever wakes and time-outs come
\* between: _dispatch_group_wake turns those it takes into as many signals,
\* _dispatch_group_wait_slow gives its own back or drains a signal, and only a
\* waiter that finds the group empty after it counted itself leaves one behind.
THEOREM WaiterAccountingHolds == Spec => []WaiterAccounting
<1>1. IInv => WaiterAccounting
  BY DEF IInv, CountInv
<1> QED BY InitIInv, NextIInv, <1>1, PTL DEF Spec

\* dispatch_group_notify_f never stores dsn_next of a block that
\* _dispatch_group_wake has freed.
THEOREM LinkTargetAliveHolds == Spec => []LinkTargetAlive
<1>1. IInv => LinkTargetAlive
  BY DEF IInv, ListInv, LastBlocks, Alive, LinkTargetAlive
<1> QED BY InitIInv, NextIInv, <1>1, PTL DEF Spec

\* The list holds one reference on the group, from before its head is stored
\* until its last block was submitted.
THEOREM ListRetainsHolds == Spec => []ListRetains
<1>1. IInv => ListRetains
  BY DEF IInv, CountInv
<1> QED BY InitIInv, NextIInv, <1>1, PTL DEF Spec

\* A notify block is submitted once: a wake comes to each block of its list
\* one time, and two wakes never have the same one.
NotesFiredOnce ==
    /\ status \in [Notes -> Statuses]
    /\ \A t, u \in Threads : whead[t] = whead[u] /\ whead[t] # None => t = u
THEOREM NotesFiredOnceHolds == Spec => []NotesFiredOnce
<1>1. IInv => NotesFiredOnce
  <2> SUFFICES ASSUME IInv PROVE NotesFiredOnce
    OBVIOUS
  <2>1. status \in [Notes -> Statuses]
    BY DEF IInv, Types
  <2>2. PICK own \in Owners : Lists(own)
    BY DEF IInv, ListInv, Apart
  <2>3. ASSUME NEW t \in Threads, NEW u \in Threads, whead[t] = whead[u], whead[t] # None
        PROVE  t = u
    <3>1. /\ own[whead[t]] = IF pc[t] = "taketail" THEN None ELSE t
          /\ own[whead[t]] = IF pc[u] = "taketail" THEN None ELSE u
      BY <2>2, <2>3 DEF Lists
    <3>2. pc[t] = "taketail" /\ pc[u] = "taketail" => t = u
      BY DEF IInv, OneClaim, ClaimPoints
    <3> QED BY <3>1, <3>2, GroupAssumption DEF GroupAssumption
  <2> QED BY <2>1, <2>3 DEF NotesFiredOnce
<1> QED BY InitIInv, NextIInv, <1>1, PTL DEF Spec

-----------------------------------------------------------------------------
(* The value of the group.                                                  *)

\* An enter takes one from the value, so that it is as near to LONG_MAX as calls were
\* made; only a leave of an empty group wraps it around, and that crashes.
ValueInv ==
    /\ calls \in 0 .. MaxCalls /\ crashed \in BOOLEAN /\ waiterPort \in BOOLEAN
    /\ kind \in [Threads -> WaitKinds]
    /\ value \in LongMin .. LongMax /\ (~crashed => value >= LongMax - calls)

LEMMA InitValueInv == Init => ValueInv
<1> SUFFICES ASSUME Init PROVE ValueInv
  OBVIOUS
<1>1. LongMax \in Nat /\ MaxCalls \in Nat /\ LongMin = -LongMax - 1 /\ PortAtInit \in BOOLEAN
  BY GroupAssumption DEF GroupAssumption, LongMin
<1>2. /\ calls = 0 /\ ~crashed /\ crashed \in BOOLEAN /\ waiterPort = PortAtInit /\ value = LongMax
      /\ kind \in [Threads -> WaitKinds]
  BY DEF Init, WaitKinds
<1>3. calls \in 0 .. MaxCalls /\ value \in LongMin .. LongMax /\ value >= LongMax - calls
  BY <1>1, <1>2
<1> QED BY <1>1, <1>2, <1>3 DEF ValueInv

\* Every call is at most one enter, and nothing else changes the value.
LEMMA NextValueInv == ValueInv /\ [Next]_vars => ValueInv'
<1> SUFFICES ASSUME ValueInv, [Next]_vars PROVE ValueInv'
  OBVIOUS
<1>0. LongMax \in Nat /\ MaxCalls \in Nat /\ MaxCalls < LongMax /\ LongMin = -LongMax - 1
  BY GroupAssumption DEF GroupAssumption, LongMin
<1>1. ASSUME NEW t \in Threads, Enter(t) PROVE ValueInv'
  <2>1. ~crashed /\ value' = value - 1 /\ calls' = calls + 1 /\ calls < MaxCalls
        /\ UNCHANGED <<crashed, waiterPort, kind>>
    BY <1>1 DEF Enter, Call, At, kernelVars, locals
  <2> QED BY <1>0, <2>1 DEF ValueInv
<1>2. ASSUME NEW t \in Threads, Leave(t) PROVE ValueInv'
  <2>1. ~crashed /\ value' = Increment(value) /\ crashed' = (value' = LongMin)
        /\ calls' = calls + 1 /\ calls < MaxCalls /\ UNCHANGED <<waiterPort, kind>>
    BY <1>2 DEF Leave, Call, At, kernelVars, locals
  <2>2. CASE value = LongMax
    <3>1. value' = LongMin /\ crashed' /\ crashed' \in BOOLEAN
      BY <2>1, <2>2 DEF Increment
    <3>2. LongMin \in LongMin .. LongMax /\ calls' \in 0 .. MaxCalls
      BY <1>0, <2>1 DEF ValueInv
    <3> QED BY <2>1, <3>1, <3>2 DEF ValueInv
  <2>3. CASE value # LongMax
    BY <1>0, <2>1, <2>3 DEF ValueInv, Increment
  <2> QED BY <2>2, <2>3
<1>3. ASSUME NEW t \in Threads, NEW k \in WaitKinds, Wait(t, k) PROVE ValueInv'
  <2>1. /\ calls' = calls + 1 /\ calls < MaxCalls /\ kind' = [kind EXCEPT ![t] = k]
        /\ UNCHANGED <<value, waiterPort, crashed>>
    BY <1>3 DEF Wait, Call, kernelVars
  <2> QED BY <1>0, <2>1 DEF ValueInv
<1>4. ASSUME NEW t \in Threads, NEW n \in Notes, Notify(t, n) PROVE ValueInv'
  <2>1. calls' = calls + 1 /\ calls < MaxCalls /\ UNCHANGED <<value, waiterPort, crashed, kind>>
    BY <1>4 DEF Notify, Call, kernelVars
  <2> QED BY <1>0, <2>1 DEF ValueInv
<1>5. ASSUME NEW t \in Threads, Recheck(t) PROVE ValueInv'
  <2>1. ~crashed /\ UNCHANGED <<value, waiterPort, calls, kind>>
        /\ crashed' = (~Empty /\ ~waiterPort)
    BY <1>5 DEF Recheck, At, kernelVars, locals, ValueInv
  <2> QED BY <2>1 DEF ValueInv
<1>6. ASSUME NEW t \in Threads, SignalWaiter(t) PROVE ValueInv'
  <2>1. UNCHANGED <<value, calls, crashed, kind>> /\ waiterPort' = TRUE
    BY <1>6 DEF SignalWaiter
  <2> QED BY <2>1 DEF ValueInv
<1>7. ASSUME UNCHANGED <<value, calls, crashed, waiterPort, kind>> PROVE ValueInv'
  BY <1>7 DEF ValueInv
<1>8. ASSUME NEW t \in Threads,
             \/ LookEmpty(t) \/ LookBusy(t) \/ Count(t) \/ Undo(t) \/ NotifyStep(t)
             \/ KernelWake(t) \/ KernelTimeout(t)
             \/ TakeHead(t) \/ TakeTail(t) \/ TakeWaiters(t) \/ FireNote(t) \/ Advance(t) \/ Release(t)
      PROVE  UNCHANGED <<value, calls, crashed, waiterPort, kind>>
  BY <1>8 DEF LookEmpty, LookBusy, Count, Undo, NotifyStep, Append, Link, Retain, SetHead, CheckEmpty,
              KernelWake, KernelTimeout, TakeHead, TakeTail, TakeWaiters, FireNote, Advance,
              Release, kernelVars, locals
<1>9. CASE UNCHANGED vars
  BY <1>7, <1>9 DEF vars, kernelVars, locals
<1> QED BY <1>1, <1>2, <1>3, <1>4, <1>5, <1>6, <1>7, <1>8, <1>9 DEF Next, Step, WaitStep, WakeStep

-----------------------------------------------------------------------------
(* No wake is missed.                                                       *)

\* Who looks at the waiters, or at the list, again.
TakePoints == {"recheck", "takehead", "taketail", "takewaiters"}
HeadPoints == {"checkempty", "takehead"}

\* A step of thread t to p that adds a waiter or a list only to look again, and
\* goes away from there only with both taken or the group not empty.
Looks(t, p) ==
    /\ Goto(t, p) /\ value' = value /\ waiters' \in Nat
    /\ p \in TakePoints \/ (waiters' <= waiters /\ (pc[t] \notin TakePoints \/ waiters' = 0 \/ ~Empty))
    /\ p \in HeadPoints \/ head' = None
         \/ (head' = head /\ (pc[t] \notin HeadPoints \/ ~Empty))

LEMMA LooksKeep ==
    ASSUME IInv, WakeComing, NEW t \in Threads, NEW p, Looks(t, p)
    PROVE  WakeComing'
<1>a. pc \in [Threads -> Points] /\ waiters \in Nat
  BY DEF IInv, Types
<1>b. Looks(t, p)
  OBVIOUS
<1> USE DEF Goto, SomeAt, TakePoints, HeadPoints, Looks
<1> SUFFICES ASSUME Empty'
             PROVE  /\ waiters' > 0 => \E u \in Threads : pc'[u] \in TakePoints
                    /\ head' # None => \E u \in Threads : pc'[u] \in HeadPoints
  BY DEF WakeComing
<1>1. Empty /\ pc' = [pc EXCEPT ![t] = p]
  BY <1>b DEF Empty
<1>2. \A u \in Threads : pc'[u] = IF u = t THEN p ELSE pc[u]
  BY <1>a, <1>1
<1>3. ASSUME waiters' > 0 PROVE \E u \in Threads : pc'[u] \in TakePoints
  <2>1. CASE p \in TakePoints
    BY <1>2, <2>1
  <2>2. CASE p \notin TakePoints
    <3>1. waiters > 0
      BY <1>a, <1>b, <1>3, <2>2
    <3>2. PICK u \in Threads : pc[u] \in TakePoints
      BY <1>1, <3>1 DEF WakeComing
    <3>3. u # t
      BY <1>a, <1>b, <1>1, <1>3, <2>2, <3>2
    <3> QED BY <1>2, <3>2, <3>3
  <2> QED BY <2>1, <2>2
<1>4. ASSUME head' # None PROVE \E u \in Threads : pc'[u] \in HeadPoints
  <2>1. CASE p \in HeadPoints
    BY <1>2, <2>1
  <2>2. CASE p \notin HeadPoints
    <3>1. head # None
      BY <1>b, <1>4, <2>2
    <3>2. PICK u \in Threads : pc[u] \in HeadPoints
      BY <1>1, <3>1 DEF WakeComing
    <3>3. u # t
      BY <1>b, <1>1, <1>4, <2>2, <3>2
    <3> QED BY <1>2, <3>2, <3>3
  <2> QED BY <2>1, <2>2
<1> QED BY <1>3, <1>4

\* While a group stays empty a thread leaves these points only when there is no
\* more to do there, and whoever empties the group goes there.
LEMMA WakeNext == IInv /\ ValueInv /\ WakeComing /\ [Next]_vars => WakeComing'
<1> SUFFICES ASSUME IInv, ValueInv, WakeComing, [Next]_vars PROVE WakeComing'
  OBVIOUS
<1>0. /\ pc \in [Threads -> Points] /\ waiters \in Nat /\ Locals /\ OneClaim
      /\ value \in LongMin .. LongMax /\ LongMax \in Nat /\ LongMin = -LongMax - 1
  BY GroupAssumption DEF IInv, Types, ValueInv, GroupAssumption, LongMin
<1> USE DEF Goto, Call, At, listVars, kernelVars, locals
<1>1. ASSUME NEW t \in Threads, Enter(t) PROVE WakeComing'
  BY <1>0, <1>1 DEF Enter, WakeComing, Empty
<1>2. ASSUME NEW t \in Threads, Leave(t) PROVE WakeComing'
  <2>1. CASE value' = LongMax
    <3>1. Goto(t, "takehead")
      BY <1>0, <1>2, <2>1 DEF Leave
    <3>2. pc'[t] = "takehead"
      BY <1>0, <3>1
    <3> QED BY <3>2 DEF WakeComing, SomeAt
  <2>2. CASE value' # LongMax
    BY <2>2 DEF WakeComing, Empty
  <2> QED BY <2>1, <2>2
<1>3. ASSUME NEW t \in Threads, NEW k \in WaitKinds, Wait(t, k) PROVE WakeComing'
  <2>1. Looks(t, IF Empty \/ k = "now" THEN "idle" ELSE "look")
    BY <1>0, <1>3 DEF Wait, Looks, TakePoints, HeadPoints
  <2> QED BY <2>1, LooksKeep
<1>4. ASSUME NEW t \in Threads, NEW n \in Notes, Notify(t, n) PROVE WakeComing'
  <2>1. Looks(t, "append")
    BY <1>0, <1>4 DEF Notify, Looks, TakePoints, HeadPoints
  <2> QED BY <2>1, LooksKeep
<1>5. ASSUME NEW t \in Threads, LookEmpty(t) PROVE WakeComing'
  <2>1. Looks(t, "takehead")
    BY <1>0, <1>5 DEF LookEmpty, Looks, TakePoints, HeadPoints
  <2> QED BY <2>1, LooksKeep
<1>6. ASSUME NEW t \in Threads, LookBusy(t) PROVE WakeComing'
  <2>1. Looks(t, "count")
    BY <1>0, <1>6 DEF LookBusy, Looks, TakePoints, HeadPoints
  <2> QED BY <2>1, LooksKeep
<1>7. ASSUME NEW t \in Threads, Count(t) PROVE WakeComing'
  <2>1. Looks(t, "recheck")
    BY <1>0, <1>7 DEF Count, Looks, TakePoints, HeadPoints
  <2> QED BY <2>1, LooksKeep
<1>8. ASSUME NEW t \in Threads, Recheck(t) PROVE WakeComing'
  <2>1. Looks(t, IF Empty THEN "takehead" ELSE IF ~waiterPort THEN "dead"
                   ELSE IF kind[t] = "timed" THEN "timedwait" ELSE "drain")
    BY <1>0, <1>8 DEF Recheck, Looks, TakePoints, HeadPoints
  <2> QED BY <2>1, LooksKeep
<1>9. ASSUME NEW t \in Threads, KernelWake(t) PROVE WakeComing'
  <2>1. Looks(t, "look")
    BY <1>0, <1>9 DEF KernelWake, Looks, TakePoints, HeadPoints
  <2> QED BY <2>1, LooksKeep
<1>10. ASSUME NEW t \in Threads, KernelTimeout(t) PROVE WakeComing'
  <2>1. Looks(t, "undo")
    BY <1>0, <1>10 DEF KernelTimeout, Looks, TakePoints, HeadPoints
  <2> QED BY <2>1, LooksKeep
<1>11. ASSUME NEW t \in Threads, Undo(t) PROVE WakeComing'
  <2>1. Looks(t, IF waiters > 0 THEN "idle" ELSE "drain")
    BY <1>0, <1>11 DEF Undo, Looks, TakePoints, HeadPoints
  <2> QED BY <2>1, LooksKeep
<1>12. ASSUME NEW t \in Threads, TakeHead(t) PROVE WakeComing'
  <2>1. Looks(t, IF head = None THEN "takewaiters" ELSE "taketail")
    BY <1>0, <1>12 DEF TakeHead, Looks, TakePoints, HeadPoints
  <2> QED BY <2>1, LooksKeep
<1>13. ASSUME NEW t \in Threads, TakeTail(t) PROVE WakeComing'
  <2>1. Looks(t, "takewaiters")
    BY <1>0, <1>13 DEF TakeTail, Looks, TakePoints, HeadPoints
  <2> QED BY <2>1, LooksKeep
<1>14. ASSUME NEW t \in Threads, TakeWaiters(t) PROVE WakeComing'
  <2>1. Looks(t, IF waiters > 0 THEN "signal" ELSE IF whead[t] # None THEN "fire" ELSE "idle")
    BY <1>0, <1>14 DEF TakeWaiters, Looks, TakePoints, HeadPoints
  <2> QED BY <2>1, LooksKeep
<1>15. ASSUME NEW t \in Threads, SignalWaiter(t) PROVE WakeComing'
  <2>1. Looks(t, IF rval[t] > 1 THEN "signal" ELSE IF whead[t] # None THEN "fire" ELSE "idle")
    BY <1>0, <1>15 DEF SignalWaiter, Looks, TakePoints, HeadPoints
  <2> QED BY <2>1, LooksKeep
<1>16. ASSUME NEW t \in Threads, FireNote(t) PROVE WakeComing'
  <2>1. Looks(t, "advance")
    BY <1>0, <1>16 DEF FireNote, Looks, TakePoints, HeadPoints
  <2> QED BY <2>1, LooksKeep
<1>17. ASSUME NEW t \in Threads, Advance(t) PROVE WakeComing'
  <2>1. Looks(t, IF whead'[t] = None THEN "release" ELSE "fire")
    BY <1>0, <1>17 DEF Advance, Looks, TakePoints, HeadPoints
  <2> QED BY <2>1, LooksKeep
<1>18. ASSUME NEW t \in Threads, Release(t) PROVE WakeComing'
  <2>1. Looks(t, "idle")
    BY <1>0, <1>18 DEF Release, Looks, TakePoints, HeadPoints
  <2> QED BY <2>1, LooksKeep
<1>19. ASSUME NEW t \in Threads, Append(t) PROVE WakeComing'
  <2>1. Looks(t, IF tail = None THEN "retain" ELSE "link")
    BY <1>0, <1>19 DEF Append, Looks, TakePoints, HeadPoints
  <2> QED BY <2>1, LooksKeep
<1>20. ASSUME NEW t \in Threads, Link(t) PROVE WakeComing'
  <2>1. Looks(t, "idle")
    BY <1>0, <1>20 DEF Link, Looks, TakePoints, HeadPoints
  <2> QED BY <2>1, LooksKeep
<1>21. ASSUME NEW t \in Threads, Retain(t) PROVE WakeComing'
  <2>1. Looks(t, "sethead")
    BY <1>0, <1>21 DEF Retain, Looks, TakePoints, HeadPoints
  <2> QED BY <2>1, LooksKeep
<1>22. ASSUME NEW t \in Threads, SetHead(t) PROVE WakeComing'
  <2>1. Looks(t, "checkempty")
    BY <1>0, <1>22 DEF SetHead, Looks, TakePoints, HeadPoints
  <2> QED BY <2>1, LooksKeep
<1>23. ASSUME NEW t \in Threads, CheckEmpty(t) PROVE WakeComing'
  <2>1. Looks(t, IF Empty THEN "takehead" ELSE "idle")
    BY <1>0, <1>23 DEF CheckEmpty, Looks, TakePoints, HeadPoints
  <2> QED BY <2>1, LooksKeep
<1>24. CASE UNCHANGED vars
  BY <1>24 DEF vars, WakeComing, Empty, SomeAt
<1> QED BY <1>1, <1>2, <1>3, <1>4, <1>5, <1>6, <1>7, <1>8, <1>9, <1>10, <1>11, <1>12,
           <1>13, <1>14, <1>15, <1>16, <1>17, <1>18, <1>19, <1>20, <1>21, <1>22, <1>23, <1>24
        DEF Next, Step, WaitStep, WakeStep, NotifyStep

\* A group that is empty has no count in dsema_group_waiters and no published
\* list of blocks that nobody is about to take: the second look of
\* _dispatch_group_wait_slow and that of dispatch_group_notify_f close the gap
\* between their test of the value and what they publish.
THEOREM WakeComingHolds == Spec => []WakeComing
<1>1. Init => WakeComing
  BY DEF Init, WakeComing
<1> QED BY InitIInv, NextIInv, InitValueInv, NextValueInv, WakeNext, <1>1, PTL DEF Spec

\* The group, the list and the threads have their types; the value stays within a
\* long, and no reference is released that was not retained.
THEOREM TypeCorrect == Spec => []TypeOK
<1>1. ASSUME IInv, ValueInv PROVE TypeOK
  <2>1. refs \in Nat
    <3> DEFINE wakers == {t \in Threads : whead[t] # None}
    <3>1. CountAt(Threads, pc, {"sethead", "release"}) \in Nat
      BY GroupAssumption, CountIsNat DEF GroupAssumption
    <3>2. Cardinality(wakers) \in Nat
      BY GroupAssumption, FS_Subset, FS_CardinalityType DEF GroupAssumption
    <3> HIDE DEF wakers
    <3>3. refs = (IF head # None THEN 1 ELSE 0) + CountAt(Threads, pc, {"sethead", "release"})
                     + Cardinality(wakers)
      BY <1>1 DEF IInv, CountInv, ListRetains, wakers
    <3> QED BY <3>1, <3>2, <3>3
  <2> QED BY <1>1, <2>1 DEF IInv, Types, ValueInv, TypeOK
<1> QED BY InitIInv, NextIInv, InitValueInv, NextValueInv, <1>1, PTL DEF Spec
=============================================================================
