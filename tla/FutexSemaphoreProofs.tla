------------------------ MODULE FutexSemaphoreProofs ------------------------
(***************************************************************************)
(* Proofs about FutexSemaphore, for any finite set of threads, any initial *)
(* value and any number of calls.                                          *)
(***************************************************************************)
EXTENDS FutexSemaphore, ThreadCountTheorems

\* Where a thread is one of the waiters counted in the futex word, where it
\* owes a unit, where a signal holds a reference, where a thread will look.
CountedPoints == {"sleep", "asleep", "leave", "expired"}
OwePoints == {"retain", "post"}
OwnPoints == {"post", "wake", "release"}
AwakePoints == {"try", "enter", "sleep", "leave"}

\* The counters of threads used by the invariant.
Slow == CountAt(Threads, pc, SlowPoints)
Counted == CountAt(Threads, pc, CountedPoints)
Owe == CountAt(Threads, pc, OwePoints)
Own == CountAt(Threads, pc, OwnPoints)
Waking == CountAt(Threads, pc, {"wake"})
Looking == CountAt(Threads, pc, AwakePoints)
LastRelease == CountAt(Threads, pc, {"xdispose"})

\* Every slow waiter is covered by the negative part of the value, by a unit
\* in the futex word, or by a unit that some signal still owes.
Units == Slow = (IF value < 0 THEN -value ELSE 0) + count + Owe

\* The high half of the futex word is the number of the waiters counted.
WaitersCounted == nwait = Counted

\* The slow waiters hold references.
WaitersHold == SlowWaiters \subseteq holders

\* The external count is what the clients hold; the internal count is the one
\* reference behind all of them and those of the signals.
References ==
    /\ xref = Cardinality(holders) - 1
    /\ ref + 1 = (IF holders = {} THEN 0 ELSE 1) + LastRelease + Own
    /\ holders # {} => LastRelease = 0
    /\ LastRelease <= 1
    /\ disposed <=> ref = -1

\* NoLostWakeup, spelled with the counters.
SleepersCovered == asleep # {} => count <= Waking + Looking

\* The inductive invariant.
IInv == TypeOK /\ Units /\ WaitersCounted /\ WaitersHold /\ References /\ SleepersCovered

\* The counters are natural numbers, positive when there is such a thread.
LEMMA CountersAreNat ==
    /\ Slow \in Nat /\ Counted \in Nat /\ Owe \in Nat /\ Own \in Nat
    /\ Waking \in Nat /\ Looking \in Nat /\ LastRelease \in Nat
    /\ Slow = 0 <=> SlowWaiters = {}
    /\ \A t \in Threads :
           /\ pc[t] \in SlowPoints => Slow > 0
           /\ pc[t] \in CountedPoints => Counted > 0
           /\ pc[t] \in OwePoints => Owe > 0
           /\ pc[t] \in OwnPoints => Own > 0
           /\ pc[t] \in AwakePoints => Looking > 0
           /\ pc[t] = "xdispose" => LastRelease > 0
<1>1. IsFiniteSet(Threads)
  BY FutexAssumption DEF FutexAssumption
<1>2. ASSUME NEW P
      PROVE  /\ CountAt(Threads, pc, P) \in Nat
             /\ CountAt(Threads, pc, P) = 0 <=> ThreadsAt(Threads, pc, P) = {}
             /\ \A t \in Threads : pc[t] \in P => CountAt(Threads, pc, P) > 0
  BY <1>1, CountIsNat
<1>3. Slow = 0 <=> SlowWaiters = {}
  BY <1>2 DEF Slow, SlowWaiters, ThreadsAt
<1> QED BY <1>2, <1>3 DEF Slow, Counted, Owe, Own, Waking, Looking, LastRelease

\* How they change when thread t goes to p.
LEMMA CountersMove ==
    ASSUME TypeOK, NEW t \in Threads, NEW p, Goto(t, p)
    PROVE  /\ Slow' = Slow - Hit(pc[t], SlowPoints) + Hit(p, SlowPoints)
           /\ Counted' = Counted - Hit(pc[t], CountedPoints) + Hit(p, CountedPoints)
           /\ Owe' = Owe - Hit(pc[t], OwePoints) + Hit(p, OwePoints)
           /\ Own' = Own - Hit(pc[t], OwnPoints) + Hit(p, OwnPoints)
           /\ Waking' = Waking - Hit(pc[t], {"wake"}) + Hit(p, {"wake"})
           /\ Looking' = Looking - Hit(pc[t], AwakePoints) + Hit(p, AwakePoints)
           /\ LastRelease' = LastRelease - Hit(pc[t], {"xdispose"}) + Hit(p, {"xdispose"})
<1>1. MovesOnly(Threads, pc, pc', t, p)
  BY DEF TypeOK, Goto, MovesOnly
<1>2. IsFiniteSet(Threads)
  BY FutexAssumption DEF FutexAssumption
<1>3. ASSUME NEW P
      PROVE  CountAt(Threads, pc', P) =
                 CountAt(Threads, pc, P) - Hit(pc[t], P) + Hit(p, P)
  BY <1>1, <1>2, CountMove
<1>4. Slow' = Slow - Hit(pc[t], SlowPoints) + Hit(p, SlowPoints)
  BY <1>3 DEF Slow
<1>5. Counted' = Counted - Hit(pc[t], CountedPoints) + Hit(p, CountedPoints)
  BY <1>3 DEF Counted
<1>6. Owe' = Owe - Hit(pc[t], OwePoints) + Hit(p, OwePoints)
  BY <1>3 DEF Owe
<1>7. Own' = Own - Hit(pc[t], OwnPoints) + Hit(p, OwnPoints)
  BY <1>3 DEF Own
<1>8. Waking' = Waking - Hit(pc[t], {"wake"}) + Hit(p, {"wake"})
  BY <1>3 DEF Waking
<1>9. Looking' = Looking - Hit(pc[t], AwakePoints) + Hit(p, AwakePoints)
  BY <1>3 DEF Looking
<1>10. LastRelease' = LastRelease - Hit(pc[t], {"xdispose"}) + Hit(p, {"xdispose"})
  BY <1>3 DEF LastRelease
<1> QED BY <1>4, <1>5, <1>6, <1>7, <1>8, <1>9, <1>10

\* Thread t, which wakes, lets the sleeper u go.
LetGo(t, u) == pc' = [pc EXCEPT ![t] = "release", ![u] = "leave"]

\* A signal wakes a sleeper: one thread more that will look, one wake less.
LEMMA CountersWake ==
    ASSUME TypeOK, NEW t \in Threads, NEW u \in Threads,
           pc[t] = "wake", pc[u] = "asleep", LetGo(t, u)
    PROVE  /\ Slow' = Slow /\ Counted' = Counted /\ Owe' = Owe /\ Own' = Own
           /\ Waking' = Waking - 1 /\ Looking' = Looking + 1
           /\ LastRelease' = LastRelease
<1> DEFINE mid == [pc EXCEPT ![t] = "release"]
<1>1. t # u
  OBVIOUS
<1>2. /\ MovesOnly(Threads, pc, mid, t, "release")
      /\ MovesOnly(Threads, mid, pc', u, "leave")
      /\ mid[u] = "asleep"
  BY <1>1 DEF TypeOK, MovesOnly, LetGo
<1>3. IsFiniteSet(Threads)
  BY FutexAssumption DEF FutexAssumption
<1> HIDE DEF mid
<1>4. ASSUME NEW P
      PROVE  /\ CountAt(Threads, pc', P) = CountAt(Threads, pc, P) - Hit("wake", P)
                     + Hit("release", P) - Hit("asleep", P) + Hit("leave", P)
             /\ CountAt(Threads, pc, P) \in Nat
  <2>1. CountAt(Threads, mid, P) = CountAt(Threads, pc, P) - Hit("wake", P) + Hit("release", P)
    BY <1>2, <1>3, CountMove
  <2>2. CountAt(Threads, pc', P) = CountAt(Threads, mid, P) - Hit("asleep", P) + Hit("leave", P)
    BY <1>2, <1>3, CountMove
  <2>3. CountAt(Threads, pc, P) \in Nat
    BY <1>3, CountIsNat
  <2> QED BY <2>1, <2>2, <2>3 DEF Hit
<1> DEFINE Gain(P) == Hit("release", P) + Hit("leave", P) - Hit("wake", P) - Hit("asleep", P)
<1>5. ASSUME NEW P
      PROVE  CountAt(Threads, pc', P) = CountAt(Threads, pc, P) + Gain(P)
  BY <1>4 DEF Hit
<1>6. ASSUME NEW P
      PROVE  CountAt(Threads, pc, P) \in Nat
  BY <1>4
<1>7. /\ Gain(SlowPoints) = 0 /\ Gain(CountedPoints) = 0 /\ Gain(OwePoints) = 0
      /\ Gain(OwnPoints) = 0 /\ Gain({"wake"}) = -1 /\ Gain(AwakePoints) = 1
      /\ Gain({"xdispose"}) = 0
  BY DEF Hit, SlowPoints, CountedPoints, OwePoints, OwnPoints, AwakePoints
<1> HIDE DEF Gain
<1>8. Slow' = Slow
  BY <1>5, <1>6, <1>7 DEF Slow
<1>9. Counted' = Counted
  BY <1>5, <1>6, <1>7 DEF Counted
<1>10. Owe' = Owe
  BY <1>5, <1>6, <1>7 DEF Owe
<1>11. Own' = Own
  BY <1>5, <1>6, <1>7 DEF Own
<1>12. Waking' = Waking - 1
  BY <1>5, <1>6, <1>7 DEF Waking
<1>13. Looking' = Looking + 1
  BY <1>5, <1>6, <1>7 DEF Looking
<1>14. LastRelease' = LastRelease
  BY <1>5, <1>6, <1>7 DEF LastRelease
<1> QED BY <1>8, <1>9, <1>10, <1>11, <1>12, <1>13, <1>14

\* The holders are finitely many, and how their number changes.
LEMMA HoldersCount ==
    ASSUME TypeOK
    PROVE  /\ Cardinality(holders) \in Nat
           /\ Cardinality(holders) = 0 <=> holders = {}
           /\ \A t \in holders : Cardinality(holders \ {t}) = Cardinality(holders) - 1
           /\ \A t \in Threads \ holders :
                  Cardinality(holders \cup {t}) = Cardinality(holders) + 1
<1>1. IsFiniteSet(holders)
  BY FutexAssumption, FS_Subset DEF TypeOK, FutexAssumption
<1> QED BY <1>1, FS_CardinalityType, FS_EmptySet, FS_RemoveElement, FS_AddElement

\* The invariant holds at the start.
LEMMA InitIInv == Init => IInv
<1> SUFFICES ASSUME Init PROVE IInv
  OBVIOUS
<1>1. /\ \A t \in Threads : pc[t] = "idle"
      /\ value = Orig /\ count = 0 /\ nwait = 0 /\ asleep = {}
      /\ holders \in (SUBSET Threads) \ {{}} /\ Orig \in Nat /\ MaxCalls \in Nat
  BY FutexAssumption DEF Init, FutexAssumption
<1>2. IsFiniteSet(holders) /\ Cardinality(holders) \in Nat /\ Cardinality(holders) # 0
  BY <1>1, FutexAssumption, FS_Subset, FS_CardinalityType, FS_EmptySet
     DEF FutexAssumption
<1>3. TypeOK
  <2>1. xref \in Nat
    BY <1>2 DEF Init
  <2>2. asleep = At("asleep")
    BY <1>1 DEF At
  <2>3. pc \in [Threads -> Points] /\ kind \in [Threads -> Kinds]
    BY DEF Init, Points, Kinds
  <2>4. holders \subseteq Threads
    BY <1>1
  <2>5. value \in Int /\ ref \in Nat \cup {-1} /\ calls \in 0..MaxCalls
    BY <1>1 DEF Init
  <2>6. disposed \in BOOLEAN
    BY DEF Init
  <2> QED BY <1>1, <2>1, <2>2, <2>3, <2>4, <2>5, <2>6 DEF TypeOK
<1>4. \A P : (\A p \in P : p # "idle") => CountAt(Threads, pc, P) = 0
  <2> SUFFICES ASSUME NEW P, \A p \in P : p # "idle"
               PROVE  CountAt(Threads, pc, P) = 0
    OBVIOUS
  <2>1. ThreadsAt(Threads, pc, P) = {}
    BY <1>1 DEF ThreadsAt
  <2> QED BY <2>1, CountIsNat, FutexAssumption DEF FutexAssumption
<1>5. /\ Slow = 0 /\ Counted = 0 /\ Owe = 0 /\ Own = 0
      /\ Waking = 0 /\ Looking = 0 /\ LastRelease = 0
  BY <1>4 DEF Slow, Counted, Owe, Own, Waking, Looking, LastRelease,
              SlowPoints, CountedPoints, OwePoints, OwnPoints, AwakePoints
<1>6. SlowWaiters = {}
  BY <1>5, CountersAreNat
<1> QED BY <1>1, <1>2, <1>3, <1>5, <1>6
        DEF Init, IInv, Units, WaitersCounted, WaitersHold, References, SleepersCovered

\* The invariant is preserved by every step.
LEMMA NextIInv == IInv /\ [Next]_vars => IInv'
<1> SUFFICES ASSUME IInv, [Next]_vars PROVE IInv'
  OBVIOUS
<1>1. TypeOK /\ MaxCalls \in Nat /\ IsFiniteSet(Threads)
  BY FutexAssumption DEF IInv, FutexAssumption
<1>2. /\ Slow \in Nat /\ Counted \in Nat /\ Owe \in Nat /\ Own \in Nat
      /\ Waking \in Nat /\ Looking \in Nat /\ LastRelease \in Nat
  BY CountersAreNat
<1>3. /\ Units /\ WaitersCounted /\ WaitersHold /\ References /\ SleepersCovered
      /\ \A t \in Threads : pc[t] \in SlowPoints => t \in holders
      /\ \A t \in Threads : pc[t] \in CountedPoints => nwait > 0
      /\ \A t \in Threads : pc[t] \in AwakePoints => Looking > 0
      /\ asleep # {} => Counted > 0
  <2>1. asleep # {} => \E u \in Threads : pc[u] = "asleep"
    BY DEF IInv, TypeOK, At
  <2> QED BY <2>1, CountersAreNat 
         DEF IInv, WaitersHold, WaitersCounted, SlowWaiters, CountedPoints
<1> USE DEF Points, SlowPoints, SignalPoints, Kinds, CountedPoints, OwePoints,
            OwnPoints, AwakePoints
\* What a step that moves one thread to p does to the sets of threads.
<1>4. ASSUME NEW t \in Threads, NEW p \in Points, Goto(t, p)
      PROVE  /\ pc' \in [Threads -> Points]
             /\ At("asleep")' = IF p = "asleep" THEN At("asleep") \cup {t}
                                                ELSE At("asleep") \ {t}
             /\ pc[t] # "asleep" /\ p # "asleep" => At("asleep")' = At("asleep")
             /\ SlowWaiters' = IF p \in SlowPoints THEN SlowWaiters \cup {t}
                                                   ELSE SlowWaiters \ {t}
  BY <1>1, <1>4 DEF TypeOK, Goto, At, SlowWaiters
\* The references when a step leaves them alone.
<1>5. ASSUME NEW t \in Threads, NEW p, Goto(t, p), UNCHANGED refs,
             Hit(pc[t], OwnPoints) = Hit(p, OwnPoints),
             pc[t] # "xdispose", p # "xdispose"
      PROVE  References'
  BY <1>1, <1>2, <1>3, <1>5, CountersMove DEF References, refs, Hit
<1>6. ASSUME NEW t \in Threads, RetainWeak(t) PROVE IInv'
  <2>1. /\ holders' = holders \cup {t} /\ t \notin holders
        /\ xref' = xref + 1 /\ xref # -1
        /\ UNCHANGED <<value, futex, ref, disposed, pc, kind>>
        /\ calls < MaxCalls /\ calls' = calls + 1
    BY <1>6 DEF RetainWeak, Call
  <2>2. holders # {} /\ Cardinality(holders') = Cardinality(holders) + 1
    BY <1>1, <1>3, <2>1, HoldersCount DEF References
  <2>3. TypeOK'
    BY <1>1, <2>1 DEF TypeOK, At, futex
  <2>4. References'
    <3>1. LastRelease' = LastRelease /\ Own' = Own
      BY <2>1 DEF LastRelease, Own
    <3>2. xref' = Cardinality(holders') - 1
      BY <1>1, <1>3, <2>1, <2>2, HoldersCount DEF References
    <3>3. holders' # {}
      BY <2>1
    <3>4. (disposed <=> ref = -1)'
      BY <1>3, <2>1 DEF References
    <3> QED BY <1>2, <1>3, <2>1, <2>2, <3>1, <3>2, <3>3, <3>4 DEF References
  <2> QED BY <1>3, <2>1, <2>3, <2>4
          DEF IInv, Units, WaitersCounted, WaitersHold, SleepersCovered, futex,
              SlowWaiters, Slow, Counted, Owe, Waking, Looking
<1>7. ASSUME NEW t \in Threads, ReleaseExternal(t) PROVE IInv'
  <2> DEFINE p == IF xref = 0 THEN "xdispose" ELSE "idle"
  <2>1. /\ Goto(t, p) /\ pc[t] = "idle" /\ t \in holders
        /\ holders' = holders \ {t} /\ xref' = xref - 1
        /\ UNCHANGED <<value, futex, ref, disposed, kind, calls>>
    BY <1>7 DEF ReleaseExternal
  <2>2. /\ Cardinality(holders) \in Nat
        /\ Cardinality(holders') = Cardinality(holders) - 1
        /\ holders' = {} <=> xref = 0
    <3>1. \A S : S \subseteq Threads => (Cardinality(S) = 0 <=> S = {})
      BY <1>1, FS_Subset, FS_EmptySet
    <3>2. Cardinality(holders') = Cardinality(holders) - 1
      BY <1>1, <2>1, HoldersCount
    <3>3. holders' \subseteq Threads
      BY <1>1, <2>1 DEF TypeOK
    <3> QED BY <1>1, <1>3, <3>1, <3>2, <3>3, HoldersCount DEF References
  <2>3. xref \in Nat /\ xref' \in Nat \cup {-1}
    BY <1>1, <1>3, <2>1, <2>2, HoldersCount DEF References, TypeOK
  <2>4. TypeOK'
    BY <1>1, <1>4, <2>1, <2>3 DEF TypeOK, futex
  <2>5. /\ Own' = Own
        /\ LastRelease' = LastRelease + Hit(p, {"xdispose"})
    BY <1>1, <1>2, <2>1, CountersMove DEF Hit
  <2>6. References'
    <3>1. (disposed <=> ref = -1)'
      BY <1>3, <2>1 DEF References
    <3> QED BY <1>2, <1>3, <2>1, <2>2, <2>5, <3>1 DEF References, Hit
  <2>7. WaitersHold'
    BY <1>1, <1>3, <1>4, <2>1 DEF WaitersHold, SlowWaiters
  <2>8. Units' /\ WaitersCounted' /\ SleepersCovered'
    BY <1>1, <1>2, <1>3, <2>1, CountersMove
       DEF Units, WaitersCounted, SleepersCovered, futex, Hit
  <2> QED BY <2>4, <2>6, <2>7, <2>8 DEF IInv
<1>8. ASSUME NEW t \in Threads, ReleaseInternal(t) PROVE IInv'
  <2>1. /\ Goto(t, "idle") /\ pc[t] \in {"release", "xdispose"}
        /\ ref' = ref - 1 /\ (disposed' <=> (disposed \/ ref = 0))
        /\ UNCHANGED <<value, futex, xref, holders, kind, calls>>
    BY <1>8 DEF ReleaseInternal
  <2>2. /\ Own' = Own - Hit(pc[t], OwnPoints)
        /\ LastRelease' = LastRelease - Hit(pc[t], {"xdispose"})
        /\ Own' \in Nat /\ LastRelease' \in Nat
    BY <1>1, <1>2, <2>1, CountersMove, CountersAreNat DEF Hit
  <2>3. ref \in Nat /\ ref' \in Nat \cup {-1}
    BY <1>1, <1>2, <1>3, <2>1, CountersAreNat DEF References, TypeOK
  <2>4. disposed' \in BOOLEAN
    BY <1>8 DEF ReleaseInternal
  <2>5. TypeOK'
    BY <1>1, <1>4, <2>1, <2>3, <2>4 DEF TypeOK, futex
  <2>6. References'
    <3>1. (disposed <=> ref = -1)'
      BY <1>3, <2>1, <2>3 DEF References
    <3> QED BY <1>2, <1>3, <2>1, <2>2, <2>3, <3>1 DEF References, Hit
  <2>7. WaitersHold'
    BY <1>1, <1>3, <1>4, <2>1 DEF WaitersHold
  <2>8. Units' /\ WaitersCounted' /\ SleepersCovered'
    BY <1>1, <1>2, <1>3, <2>1, CountersMove
       DEF Units, WaitersCounted, SleepersCovered, futex, Hit
  <2> QED BY <2>5, <2>6, <2>7, <2>8 DEF IInv
\* A thread that signals without a reference relies on the one of a waiter.
<1>9. ASSUME NEW t \in Threads, RetainInternal(t) PROVE IInv'
  <2>1. /\ Goto(t, "post") /\ pc[t] = "retain" /\ ref' = ref + 1
        /\ UNCHANGED <<value, futex, xref, disposed, holders, kind, calls>>
    BY <1>9 DEF RetainInternal, Move
  <2>2. holders # {}
    BY <1>1, <1>2, <1>3, <2>1, CountersAreNat DEF Units, WaitersHold, TypeOK
  <2>3. ref \in Nat
    BY <1>1, <1>2, <1>3, <2>2 DEF References, TypeOK
  <2>4. TypeOK'
    BY <1>1, <1>4, <2>1, <2>3 DEF TypeOK, futex
  <2>5. Own' = Own + 1 /\ LastRelease' = LastRelease
    BY <1>1, <1>2, <2>1, CountersMove DEF Hit
  <2>6. References'
    <3>1. (disposed <=> ref = -1)'
      BY <1>3, <2>1, <2>3 DEF References
    <3> QED BY <1>2, <1>3, <2>1, <2>3, <2>5, <3>1 DEF References
  <2>7. WaitersHold'
    BY <1>1, <1>3, <1>4, <2>1 DEF WaitersHold
  <2>8. Units' /\ WaitersCounted' /\ SleepersCovered'
    BY <1>1, <1>2, <1>3, <2>1, CountersMove
       DEF Units, WaitersCounted, SleepersCovered, futex, Hit
  <2> QED BY <2>4, <2>6, <2>7, <2>8 DEF IInv
<1>10. ASSUME NEW t \in Threads, Signal(t) PROVE IInv'
  <2> DEFINE p == IF value' > 0 THEN "idle" ELSE "retain"
  <2>1. /\ Goto(t, p) /\ p \in Points /\ UNCHANGED refs
        /\ pc[t] = "idle" /\ value' = value + 1
        /\ UNCHANGED <<count, nwait, asleep, kind>> /\ calls' = calls + 1 /\ calls < MaxCalls
    BY <1>1, <1>10 DEF Signal, Call, futex
  <2>2. TypeOK'
    BY <1>1, <1>4, <2>1 DEF TypeOK, refs
  <2>3. Units' /\ WaitersCounted' /\ SleepersCovered'
    BY <1>1, <1>2, <1>3, <2>1, CountersMove
       DEF Units, WaitersCounted, SleepersCovered, TypeOK, Hit
  <2>4. WaitersHold'
    BY <1>1, <1>3, <1>4, <2>1 DEF WaitersHold, refs
  <2>5. References'
    BY <1>5, <2>1 DEF Hit
  <2> QED BY <2>2, <2>3, <2>4, <2>5 DEF IInv
<1>11. ASSUME NEW t \in Threads, Post(t) PROVE IInv'
  <2> DEFINE p == IF nwait > 0 THEN "wake" ELSE "release"
  <2>1. /\ Goto(t, p) /\ p \in Points /\ UNCHANGED refs
        /\ pc[t] = "post" /\ count' = count + 1
        /\ UNCHANGED <<value, nwait, asleep, kind, calls>>
    BY <1>1, <1>11 DEF Post
  <2>2. TypeOK'
    BY <1>1, <1>4, <2>1 DEF TypeOK, refs
  <2>3. Units' /\ WaitersCounted' /\ SleepersCovered'
    BY <1>1, <1>2, <1>3, <2>1, CountersMove
       DEF Units, WaitersCounted, SleepersCovered, TypeOK, Hit
  <2>4. WaitersHold'
    BY <1>1, <1>3, <1>4, <2>1 DEF WaitersHold, refs
  <2>5. References'
    BY <1>5, <2>1 DEF Hit
  <2> QED BY <2>2, <2>3, <2>4, <2>5 DEF IInv
<1>12. ASSUME NEW t \in Threads, NEW k \in Kinds, Wait(t, k) PROVE IInv'
  <2> DEFINE p == IF value > 0 THEN "idle" ELSE IF k = "now" THEN "undo" ELSE "try"
  <2>1. /\ Goto(t, p) /\ p \in Points /\ UNCHANGED refs
        /\ pc[t] = "idle" /\ t \in holders /\ value' = value - 1
        /\ kind' \in [Threads -> Kinds]
        /\ UNCHANGED <<count, nwait, asleep>> /\ calls' = calls + 1 /\ calls < MaxCalls
    BY <1>1, <1>12 DEF Wait, Call, futex, TypeOK
  <2>2. TypeOK'
    BY <1>1, <1>4, <2>1 DEF TypeOK, refs
  <2>3. Units' /\ WaitersCounted' /\ SleepersCovered'
    <3>1. /\ value > 0 => p = "idle"
          /\ ~(value > 0) => p \in {"undo", "try"}
      OBVIOUS
    <3> HIDE DEF p
    <3> QED BY <1>1, <1>2, <1>3, <2>1, <3>1, CountersMove
            DEF Units, WaitersCounted, SleepersCovered, TypeOK, Hit
  <2>4. WaitersHold'
    BY <1>1, <1>3, <1>4, <2>1 DEF WaitersHold, refs
  <2>5. References'
    BY <1>5, <2>1 DEF Hit
  <2> QED BY <2>2, <2>3, <2>4, <2>5 DEF IInv
<1>13. ASSUME NEW t \in Threads, TryWait(t) PROVE IInv'
  <2> DEFINE p == IF count > 0 THEN "idle" ELSE "enter"
  <2>1. /\ Goto(t, p) /\ p \in Points /\ UNCHANGED refs
        /\ pc[t] = "try" /\ count' = IF count > 0 THEN count - 1 ELSE count
        /\ kind' \in [Threads -> Kinds]
        /\ UNCHANGED <<value, nwait, asleep, calls>>
    BY <1>1, <1>13 DEF TryWait, TypeOK
  <2>2. TypeOK'
    BY <1>1, <1>4, <2>1 DEF TypeOK, refs
  <2>3. Units' /\ WaitersCounted' /\ SleepersCovered'
    BY <1>1, <1>2, <1>3, <2>1, CountersMove
       DEF Units, WaitersCounted, SleepersCovered, TypeOK, Hit
  <2>4. WaitersHold'
    BY <1>1, <1>3, <1>4, <2>1 DEF WaitersHold, refs
  <2>5. References'
    BY <1>5, <2>1 DEF Hit
  <2> QED BY <2>2, <2>3, <2>4, <2>5 DEF IInv
<1>14. ASSUME NEW t \in Threads, Enter(t) PROVE IInv'
  <2> DEFINE p == "sleep"
  <2>1. /\ Goto(t, p) /\ p \in Points /\ UNCHANGED refs
        /\ pc[t] = "enter" /\ nwait' = nwait + 1
        /\ UNCHANGED <<value, count, asleep, kind, calls>>
    BY <1>1, <1>14 DEF Enter, Move
  <2>2. TypeOK'
    BY <1>1, <1>4, <2>1 DEF TypeOK, refs
  <2>3. Units' /\ WaitersCounted' /\ SleepersCovered'
    BY <1>1, <1>2, <1>3, <2>1, CountersMove
       DEF Units, WaitersCounted, SleepersCovered, TypeOK, Hit
  <2>4. WaitersHold'
    BY <1>1, <1>3, <1>4, <2>1 DEF WaitersHold, refs
  <2>5. References'
    BY <1>5, <2>1 DEF Hit
  <2> QED BY <2>2, <2>3, <2>4, <2>5 DEF IInv
<1>15. ASSUME NEW t \in Threads, Sleep(t) PROVE IInv'
  <2> DEFINE p == IF count = 0 THEN "asleep" ELSE "leave"
  <2>1. /\ Goto(t, p) /\ p \in Points /\ UNCHANGED refs
        /\ pc[t] = "sleep"
        /\ asleep' = IF count = 0 THEN asleep \cup {t} ELSE asleep
        /\ UNCHANGED <<value, count, nwait, kind, calls>>
    BY <1>1, <1>15 DEF Sleep
  <2>2. TypeOK'
    BY <1>1, <1>4, <2>1 DEF TypeOK, refs
  <2>3. Units' /\ WaitersCounted' /\ SleepersCovered'
    BY <1>1, <1>2, <1>3, <2>1, CountersMove
       DEF Units, WaitersCounted, SleepersCovered, TypeOK, Hit
  <2>4. WaitersHold'
    BY <1>1, <1>3, <1>4, <2>1 DEF WaitersHold, refs
  <2>5. References'
    BY <1>5, <2>1 DEF Hit
  <2> QED BY <2>2, <2>3, <2>4, <2>5 DEF IInv
<1>16. ASSUME NEW t \in Threads, Interrupted(t) PROVE IInv'
  <2>1. PICK p \in {"leave", "expired"} :
        /\ Goto(t, p) /\ UNCHANGED refs
        /\ pc[t] = "asleep" /\ asleep' = asleep \ {t}
        /\ UNCHANGED <<value, count, nwait, kind, calls>>
    BY <1>1, <1>16 DEF Interrupted
  <2>2. TypeOK'
    BY <1>1, <1>4, <2>1 DEF TypeOK, refs
  <2>3. Units' /\ WaitersCounted' /\ SleepersCovered'
    BY <1>1, <1>2, <1>3, <2>1, CountersMove
       DEF Units, WaitersCounted, SleepersCovered, TypeOK, Hit
  <2>4. WaitersHold'
    BY <1>1, <1>3, <1>4, <2>1 DEF WaitersHold, refs
  <2>5. References'
    BY <1>5, <2>1 DEF Hit
  <2> QED BY <2>2, <2>3, <2>4, <2>5 DEF IInv
<1>17. ASSUME NEW t \in Threads, Leave(t) PROVE IInv'
  <2> DEFINE p == IF pc[t] = "leave" THEN "try" ELSE "undo"
  <2>1. /\ Goto(t, p) /\ p \in Points /\ UNCHANGED refs
        /\ pc[t] \in {"leave", "expired"} /\ nwait' = nwait - 1
        /\ UNCHANGED <<value, count, asleep, kind, calls>>
    BY <1>1, <1>17 DEF Leave
  <2>2. TypeOK'
    BY <1>1, <1>3, <1>4, <2>1 DEF TypeOK, refs
  <2>3. Units' /\ WaitersCounted' /\ SleepersCovered'
    BY <1>1, <1>2, <1>3, <2>1, CountersMove
       DEF Units, WaitersCounted, SleepersCovered, TypeOK, Hit
  <2>4. WaitersHold'
    BY <1>1, <1>3, <1>4, <2>1 DEF WaitersHold, refs
  <2>5. References'
    BY <1>5, <2>1 DEF Hit
  <2> QED BY <2>2, <2>3, <2>4, <2>5 DEF IInv
<1>18. ASSUME NEW t \in Threads, Undo(t) PROVE IInv'
  <2> DEFINE p == IF value < 0 THEN "idle" ELSE "try"
  <2>1. /\ Goto(t, p) /\ p \in Points /\ UNCHANGED refs
        /\ pc[t] = "undo" /\ value' = IF value < 0 THEN value + 1 ELSE value
        /\ kind' \in [Threads -> Kinds]
        /\ UNCHANGED <<count, nwait, asleep, calls>>
    BY <1>1, <1>18 DEF Undo, Move, futex, TypeOK
  <2>2. TypeOK'
    BY <1>1, <1>4, <2>1 DEF TypeOK, refs
  <2>3. Units' /\ WaitersCounted' /\ SleepersCovered'
    BY <1>1, <1>2, <1>3, <2>1, CountersMove
       DEF Units, WaitersCounted, SleepersCovered, TypeOK, Hit
  <2>4. WaitersHold'
    BY <1>1, <1>3, <1>4, <2>1 DEF WaitersHold, refs
  <2>5. References'
    BY <1>5, <2>1 DEF Hit
  <2> QED BY <2>2, <2>3, <2>4, <2>5 DEF IInv
\* A wake that finds nobody asleep, or lets one sleeper go.
<1>19. ASSUME NEW t \in Threads, Wake(t) PROVE IInv'
  <2>1. /\ UNCHANGED <<value, count, nwait, refs, kind, calls>>
        /\ pc[t] = "wake"
    BY <1>19 DEF Wake
  <2>2. CASE asleep = {}
    <3>1. Goto(t, "release") /\ UNCHANGED asleep
      BY <1>19, <2>2 DEF Wake
    <3>2. TypeOK'
      BY <1>1, <1>4, <2>1, <3>1 DEF TypeOK, refs
    <3>3. Units' /\ WaitersCounted' /\ SleepersCovered'
      BY <1>1, <1>2, <1>3, <2>1, <2>2, <3>1, CountersMove
         DEF Units, WaitersCounted, SleepersCovered, Hit
    <3>4. WaitersHold'
      BY <1>1, <1>3, <1>4, <2>1, <3>1 DEF WaitersHold, refs
    <3>5. References'
      BY <1>5, <2>1, <3>1 DEF Hit
    <3> QED BY <3>2, <3>3, <3>4, <3>5 DEF IInv
  <2>3. CASE asleep # {}
    <3>1. PICK u \in asleep : asleep' = asleep \ {u} /\ LetGo(t, u)
      BY <1>19, <2>3 DEF Wake, LetGo
    <3>2. u \in Threads /\ pc[u] = "asleep"
      BY <1>1, <3>1 DEF TypeOK, At
    <3>3. /\ Slow' = Slow /\ Counted' = Counted /\ Owe' = Owe /\ Own' = Own
          /\ Waking' = Waking - 1 /\ Looking' = Looking + 1
          /\ LastRelease' = LastRelease
      BY <1>1, <2>1, <3>1, <3>2, CountersWake
    <3>4. /\ pc' \in [Threads -> Points]
          /\ At("asleep")' = At("asleep") \ {u}
          /\ SlowWaiters' = SlowWaiters
      BY <1>1, <2>1, <3>1, <3>2 DEF LetGo, TypeOK, At, SlowWaiters
    <3>5. TypeOK'
      BY <1>1, <2>1, <3>1, <3>4 DEF TypeOK, refs
    <3>6. Units' /\ WaitersCounted' /\ SleepersCovered'
      BY <1>2, <1>3, <2>1, <2>3, <3>3 DEF Units, WaitersCounted, SleepersCovered
    <3>7. WaitersHold' /\ References'
      BY <1>3, <2>1, <3>3, <3>4 DEF WaitersHold, References, refs
    <3> QED BY <3>5, <3>6, <3>7 DEF IInv
  <2> QED BY <2>2, <2>3
<1>20. CASE UNCHANGED vars
  BY <1>20 DEF vars, futex, refs, IInv, TypeOK, At, Units, WaitersCounted, WaitersHold,
     References, SleepersCovered, SlowWaiters, Slow, Counted, Owe, Own, Waking,
     Looking, LastRelease
<1> QED BY <1>6, <1>7, <1>8, <1>9, <1>10, <1>11, <1>12, <1>13, <1>14, <1>15, <1>16,
           <1>17, <1>18, <1>19, <1>20 DEF Next, Step

\* Type correctness, for every instance.
THEOREM TypeCorrect == Spec => []TypeOK
<1>1. IInv => TypeOK
  BY DEF IInv
<1> QED BY <1>1, InitIInv, NextIInv, PTL DEF Spec

\* Nobody touches the semaphore after its memory is gone: when the internal
\* count has dropped to -1 no client holds it, so nobody waits, so nobody owes
\* a unit or holds a reference on behalf of a signal (object.c,
\* _os_object_release_internal; semaphore.c, _dispatch_semaphore_signal_slow).
THEOREM NoUseAfterDisposeHolds == Spec => []NoUseAfterDispose
<1>1. ASSUME IInv PROVE NoUseAfterDispose
  <2> SUFFICES ASSUME disposed PROVE holders = {} /\ \A t \in Threads : pc[t] = "idle"
    BY DEF NoUseAfterDispose
  <2>1. /\ TypeOK /\ Units /\ WaitersHold /\ References
        /\ Slow \in Nat /\ Owe \in Nat /\ Own \in Nat /\ LastRelease \in Nat
    BY <1>1, CountersAreNat DEF IInv
  <2>2. ref = -1
    BY <2>1 DEF References
  <2>3. holders = {} /\ LastRelease = 0 /\ Own = 0
    BY <2>1, <2>2 DEF References
  <2>4. Slow = 0
    BY <2>1, <2>3, CountersAreNat DEF WaitersHold
  <2>5. Owe = 0
    BY <2>1, <2>4 DEF Units, TypeOK
  <2>6. ASSUME NEW t \in Threads PROVE pc[t] = "idle"
    <3>1. /\ pc[t] \notin SlowPoints /\ pc[t] \notin OwePoints
          /\ pc[t] \notin OwnPoints /\ pc[t] # "xdispose"
      BY <2>3, <2>4, <2>5, CountersAreNat
    <3> QED BY <2>1, <3>1
            DEF TypeOK, Points, SlowPoints, SignalPoints, OwePoints, OwnPoints
  <2> QED BY <2>3, <2>6
<1> QED BY <1>1, InitIInv, NextIInv, PTL DEF Spec

\* A unit never lies in the futex word beside a sleeper without a thread that
\* is on its way to wake one or to take it (_dispatch_futex_signal and
\* _dispatch_futex_wait_slow).
THEOREM NoLostWakeupHolds == Spec => []NoLostWakeup
<1>1. ASSUME IInv PROVE NoLostWakeup
  <2>1. TypeOK /\ SleepersCovered /\ IsFiniteSet(Threads)
    BY <1>1, FutexAssumption DEF IInv, FutexAssumption
  <2>2. /\ At("wake") = ThreadsAt(Threads, pc, {"wake"})
        /\ Awake = ThreadsAt(Threads, pc, AwakePoints)
    BY DEF At, Awake, ThreadsAt, AwakePoints
  <2>3. IsFiniteSet(At("wake")) /\ IsFiniteSet(Awake) /\ At("wake") \cap Awake = {}
    BY <2>1, FS_Subset DEF At, Awake
  <2>4. Cardinality(At("wake") \cup Awake) = Waking + Looking
    <3>1. Cardinality(At("wake") \cup Awake) =
              Cardinality(At("wake")) + Cardinality(Awake) - Cardinality({})
      BY <2>3, FS_Union
    <3> QED BY <2>2, <3>1, CountersAreNat, FS_EmptySet DEF Waking, Looking, CountAt
  <2> QED BY <2>1, <2>4 DEF SleepersCovered, NoLostWakeup
<1> QED BY <1>1, InitIInv, NextIInv, PTL DEF Spec

\* The number of waiters means the same in the abstract specification.
LEMMA AbstractCardinality == \A S : Abstract!Cardinality(S) = Cardinality(S)
BY DEF Abstract!Cardinality, Cardinality

\* The futex build implements the same abstract counting semaphore as the
\* others: whatever happens in the futex word, a wait takes a unit that is
\* there and gives up only when there are fewer units than waiters.
THEOREM ImplementsCountingSemaphore == Spec => AbstractSpec
<1>1. ASSUME Init PROVE Abstract!Init
  <2>1. SlowWaiters = {}
    BY <1>1 DEF Init, SlowWaiters, SlowPoints
  <2> QED BY <2>1, <1>1, FS_EmptySet, FutexAssumption
          DEF Abstract!Init, Init, FutexAssumption
<1>2. ASSUME IInv, IInv', [Next]_vars
      PROVE  [Abstract!Next]_Abstract!semVars
  <2>1. /\ TypeOK /\ TypeOK' /\ Units
        /\ Slow \in Nat /\ Owe \in Nat /\ Slow = Cardinality(SlowWaiters)
    BY <1>2, CountersAreNat DEF IInv, Slow, CountAt, ThreadsAt, SlowWaiters
  <2>2. Slow' = Cardinality(SlowWaiters')
    BY DEF Slow, SlowWaiters, CountAt, ThreadsAt
  <2> USE DEF Hit, Points, SlowPoints, SignalPoints, Kinds
  \* How the slow waiters change when a thread moves.
  <2>3. ASSUME NEW t \in Threads, NEW p, Goto(t, p)
        PROVE  SlowWaiters' = IF p \in SlowPoints THEN SlowWaiters \cup {t}
                                                 ELSE SlowWaiters \ {t}
    BY <2>1, <2>3 DEF Goto, TypeOK, SlowWaiters
  \* A thread moves within the slow path, or outside of it.
  <2>4. ASSUME NEW t \in Threads, NEW p, Goto(t, p), value' = value,
               pc[t] \in SlowPoints <=> p \in SlowPoints
        PROVE  UNCHANGED Abstract!semVars
    <3>1. SlowWaiters' = SlowWaiters
      BY <2>3, <2>4 DEF SlowWaiters
    <3> QED BY <3>1, <2>4 DEF Abstract!semVars
  <2>5. ASSUME NEW t \in Threads, NEW k \in Kinds, Wait(t, k)
        PROVE  Abstract!Acquire \/ Abstract!Block(t)
    <3> DEFINE p == IF value > 0 THEN "idle" ELSE IF k = "now" THEN "undo" ELSE "try"
    <3>1. Goto(t, p) /\ pc[t] = "idle" /\ value' = value - 1
      BY <2>5 DEF Wait, Call
    <3>2. Slow' = Slow + Hit(p, SlowPoints)
      BY <2>1, <3>1, CountersMove
    <3>3. t \notin SlowWaiters
      BY <3>1 DEF SlowWaiters
    <3>4. CASE value > 0
      <4>1. p = "idle"
        BY <3>4
      <4>2. Slow' = Slow /\ SlowWaiters' = SlowWaiters
        BY <4>1, <2>1, <2>3, <3>1, <3>2, <3>3
      <4> QED BY <4>2, <2>1, <2>2, <3>1, <3>4, AbstractCardinality
             DEF Abstract!Acquire, TypeOK
    <3>5. CASE ~(value > 0)
      <4>1. p \in SlowPoints
        BY <3>5
      <4>2. Slow' = Slow + 1 /\ SlowWaiters' = SlowWaiters \cup {t}
        BY <4>1, <2>1, <2>3, <3>1, <3>2
      <4> QED BY <4>2, <2>1, <2>2, <3>1, <3>3, <3>5, AbstractCardinality
             DEF Abstract!Block, TypeOK
    <3> QED BY <3>4, <3>5
  <2>6. ASSUME NEW t \in Threads, Signal(t) PROVE Abstract!Signal
    <3> DEFINE p == IF value' > 0 THEN "idle" ELSE "retain"
    <3>1. /\ Goto(t, p) /\ pc[t] = "idle" /\ p \notin SlowPoints
          /\ value' = value + 1
      BY <2>6 DEF Signal, Call
    <3>2. SlowWaiters' = SlowWaiters
      BY <2>3, <3>1 DEF SlowWaiters
    <3>3. Slow' = Slow
      BY <2>1, <3>1, CountersMove
    <3> QED BY <3>1, <3>2, <3>3, <2>1, <2>2 DEF Abstract!Signal, TypeOK
  <2>7. ASSUME NEW t \in Threads, TryWait(t)
        PROVE  Abstract!Grant(t) \/ UNCHANGED Abstract!semVars
    <3>1. CASE count > 0
      <4>1. /\ Goto(t, "idle") /\ pc[t] \in SlowPoints /\ value' = value
        BY <2>7, <3>1 DEF TryWait
      <4>2. t \in SlowWaiters /\ SlowWaiters' = SlowWaiters \ {t}
        BY <2>3, <4>1 DEF SlowWaiters
      <4>3. Slow' = Slow - 1
        BY <2>1, <4>1, CountersMove
      <4>4. value + Slow > 0
        BY <2>1, <3>1 DEF Units, TypeOK
      <4> QED BY <4>1, <4>2, <4>3, <4>4, <2>1, <2>2 DEF Abstract!Grant, TypeOK
    <3>2. CASE ~(count > 0)
      BY <2>4, <2>7, <3>2 DEF TryWait
    <3> QED BY <3>1, <3>2
  <2>8. ASSUME NEW t \in Threads, Undo(t)
        PROVE  Abstract!GiveUp(t) \/ UNCHANGED Abstract!semVars
    <3>1. CASE value < 0
      <4>1. Goto(t, "idle") /\ pc[t] = "undo" /\ value' = value + 1
        BY <2>8, <3>1 DEF Undo, Move
      <4>2. t \in SlowWaiters /\ SlowWaiters' = SlowWaiters \ {t}
        BY <2>3, <4>1 DEF SlowWaiters
      <4>3. Slow' = Slow - 1
        BY <2>1, <4>1, CountersMove
      <4> QED BY <4>1, <4>2, <4>3, <3>1, <2>1, <2>2, AbstractCardinality
             DEF Abstract!GiveUp, TypeOK
    <3>2. CASE ~(value < 0)
      BY <2>4, <2>8, <3>2 DEF Undo, Move
    <3> QED BY <3>1, <3>2
  \* A wake moves the sleeper within the slow path.
  <2>9. ASSUME NEW t \in Threads, Wake(t) PROVE UNCHANGED Abstract!semVars
    <3>1. CASE asleep = {}
      BY <2>4, <2>9, <3>1 DEF Wake
    <3>2. CASE asleep # {}
      <4>1. PICK u \in asleep : LetGo(t, u)
        BY <2>9, <3>2 DEF Wake, LetGo
      <4>2. SlowWaiters' = SlowWaiters
        BY <2>1, <2>9, <4>1 DEF LetGo, Wake, TypeOK, At, SlowWaiters
      <4> QED BY <2>9, <4>2 DEF Wake, Abstract!semVars
    <3> QED BY <3>1, <3>2
  <2>10. ASSUME NEW t \in Threads,
                \/ ReleaseExternal(t) \/ ReleaseInternal(t) \/ RetainInternal(t)
                \/ Post(t) \/ Enter(t) \/ Sleep(t) \/ Interrupted(t) \/ Leave(t)
         PROVE  UNCHANGED Abstract!semVars
    <3>1. CASE ReleaseExternal(t)
      BY <3>1, <2>4 DEF ReleaseExternal
    <3>2. CASE ReleaseInternal(t)
      BY <3>2, <2>4 DEF ReleaseInternal
    <3>3. CASE RetainInternal(t)
      BY <3>3, <2>4 DEF RetainInternal, Move
    <3>4. CASE Post(t)
      BY <3>4, <2>4 DEF Post
    <3>5. CASE Enter(t)
      BY <3>5, <2>4 DEF Enter, Move
    <3>6. CASE Sleep(t)
      BY <3>6, <2>4 DEF Sleep
    <3>7. CASE Interrupted(t)
      BY <3>7, <2>4 DEF Interrupted
    <3>8. CASE Leave(t)
      BY <3>8, <2>4 DEF Leave
    <3> QED BY <2>10, <3>1, <3>2, <3>3, <3>4, <3>5, <3>6, <3>7, <3>8
  <2>11. ASSUME NEW t \in Threads, RetainWeak(t) PROVE UNCHANGED Abstract!semVars
    BY <2>11 DEF RetainWeak, Abstract!semVars, SlowWaiters
  <2>12. CASE UNCHANGED vars
    BY <2>12 DEF vars, Abstract!semVars, SlowWaiters
  <2> QED BY <1>2, <2>5, <2>6, <2>7, <2>8, <2>9, <2>10, <2>11, <2>12
          DEF Next, Step, Abstract!Next
<1> QED BY <1>1, <1>2, InitIInv, NextIInv, PTL DEF Spec, AbstractSpec, Abstract!Spec
=============================================================================
