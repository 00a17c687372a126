--------------------------- MODULE RunOnceProofs ---------------------------
(***************************************************************************)
(* Proofs about the two calls that share work out among threads so that it *)
(* is done once.  dispatch_apply, for any callers, helpers, iterations and *)
(* queues: each iteration runs once, the record outlives its users, and    *)
(* the width that was reserved is given back where the queues have room.   *)
(* dispatch_once, for any threads and any number of calls: the function    *)
(* runs once, no call returns before it has finished, and the records of   *)
(* the waiters are there when they are looked at.                          *)
(***************************************************************************)
EXTENDS DispatchApply, DispatchOnce, ThreadCountTheorems

HelpersOf(c) == {c} \X (1 .. MaxCPUs - 1)
ProcsOf(c) == {c} \cup HelpersOf(c)
Iterations(c) == 0 .. iters[c] - 1
RanOf(c) == {i \in Iterations(c) : ran[c][i] = 1}
AllRan(c) == \A i \in Iterations(c) : ran[c][i] = 1

\* Who still uses the record or is going to.
LivePoints == InvokePoints \cup {"queued"}
Live(c) == {p \in ProcsOf(c) : pc[p] \in LivePoints}

ChainPoints == {"enter"} \cup ReservePoints
PrePoints == {"idle", "f2"} \cup ChainPoints
EndPoints == {"unreserve", "exit", "done"}

Types ==
    /\ pc \in [Procs -> Points]
    /\ first \in [Callers -> 1 .. Root] /\ iters \in [Callers -> 1 .. MaxIter]
    /\ running \in [Queues -> Int] /\ lv \in [Callers -> Int] /\ back \in [Callers -> Int]
    /\ width \in [Callers -> Int] /\ excess \in [Callers -> Int]
    /\ thr \in [Callers -> Int] /\ index \in [Callers -> Nat]
    /\ doneCnt \in [Callers -> Nat] /\ freed \in [Callers -> BOOLEAN]
    /\ sema \in [Callers -> Nat]
    /\ mine \in [Procs -> Nat] /\ idx \in [Procs -> Nat]
    /\ ran \in [Callers -> [0 .. MaxIter - 1 -> 0 .. 1]]

\* Before the helpers are pushed nobody but the caller knows the record.
Ready(c) == /\ \A h \in HelpersOf(c) : pc[h] = "none"
            /\ index[c] = 0 /\ doneCnt[c] = 0 /\ sema[c] = 0 /\ ~freed[c]
            /\ \A p \in ProcsOf(c) : mine[p] = 0
Before(c) ==
    /\ pc[c] \in PrePoints =>
           /\ Ready(c) /\ idx[c] = 0 /\ \A i \in Iterations(c) : ran[c][i] = 0
           /\ thr[c] \in 0 .. Word - 1
    /\ pc[c] = "idle" => lv[c] = first[c]
    /\ pc[c] \in ChainPoints => first[c] \in Queues /\ lv[c] \in Queues

\* The caller alone runs one iteration after the other.
Alone(c) ==
    pc[c] = "serial" =>
        /\ Ready(c) /\ idx[c] \in Iterations(c)
        /\ \A i \in Iterations(c) : ran[c][i] = IF i < idx[c] THEN 1 ELSE 0

\* da_thr_cnt counts those that are not through with the record, which is freed
\* when there are none.
Leaving(c) ==
    pc[c] \notin PrePoints \cup {"serial"} =>
        IF freed[c] THEN Live(c) = {} ELSE thr[c] = Cardinality(Live(c))

\* da_index hands out each iteration once.
HandedOut(c) ==
    \A p \in Live(c) :
        /\ \A i \in Iterations(c) : i >= index[c] => ran[c][i] = 0
        /\ pc[p] = "call" =>
               /\ idx[p] < index[c] /\ idx[p] < iters[c] /\ ran[c][idx[p]] = 0
               /\ \A q \in Live(c) : pc[q] = "call" /\ idx[q] = idx[p] => q = p

\* Iterations in D are in da_done and those in m[p] still in the local of p: the
\* two never count one twice.
Tally(c, D, m) ==
    /\ Cardinality(D) = doneCnt[c]
    /\ \A p \in ProcsOf(c) :
           /\ Cardinality(m[p]) = mine[p] /\ m[p] \cap D = {}
           /\ \A q \in ProcsOf(c) : q # p => m[p] \cap m[q] = {}
Tallied(c) == \E D \in SUBSET RanOf(c) : \E m \in [ProcsOf(c) -> SUBSET RanOf(c)] : Tally(c, D, m)

\* The caller is woken when all have run.
Woken(c) ==
    /\ sema[c] > 0 => AllRan(c)
    /\ \A p \in ProcsOf(c) : pc[p] = "signal" => AllRan(c)
    /\ pc[c] \in EndPoints => AllRan(c)

Good(c) == /\ Before(c) /\ Alone(c) /\ Leaving(c) /\ HandedOut(c) /\ Tallied(c) /\ Woken(c)

\* The inductive invariant.
IInv == Types /\ \A c \in Callers : Good(c)

-----------------------------------------------------------------------------
LEMMA ModBounds == ASSUME NEW x \in Int PROVE x % Word \in 0 .. Word - 1
<1>1. Word \in Nat /\ Word > 0
  BY ApplyAssumption DEF ApplyAssumption
<1> QED BY <1>1

\* Every caller and helper has one record, and what it does is of no concern to
\* the others.
LEMMA Records ==
    /\ Callers \subseteq Procs /\ Helpers \subseteq Procs
    /\ \A p \in Procs : RecordOf(p) \in Callers /\ p \in ProcsOf(RecordOf(p))
    /\ \A c \in Callers : \A p \in ProcsOf(c) : p \in Procs /\ RecordOf(p) = c
    /\ \A c \in Callers : HelpersOf(c) \subseteq Helpers /\ c \notin HelpersOf(c)
<1>1. \A h \in Helpers : h[1] \in Callers /\ h \in HelpersOf(h[1]) /\ h \notin Callers
  BY ApplyAssumption DEF ApplyAssumption, Helpers, HelpersOf
<1>2. \A c \in Callers : \A h \in HelpersOf(c) : h \in Helpers /\ h[1] = c
  BY DEF Helpers, HelpersOf
<1> QED BY <1>1, <1>2 DEF Procs, RecordOf, ProcsOf

LEMMA Strangers ==
    ASSUME NEW c \in Callers, NEW d \in Callers \ {c}, NEW p \in ProcsOf(d)
    PROVE  p \in Procs \ ProcsOf(c) /\ p # c /\ RecordOf(p) = d
<1>1. RecordOf(p) = d /\ p \in Procs
  BY Records
<1>2. RecordOf(c) = c /\ \A q \in ProcsOf(c) : RecordOf(q) = c
  BY Records DEF ProcsOf
<1> QED BY <1>1, <1>2

LEMMA ProcsFinite ==
    ASSUME NEW c \in Callers
    PROVE  IsFiniteSet(ProcsOf(c)) /\ IsFiniteSet(Live(c)) /\ Cardinality(Live(c)) \in Nat
<1> MaxCPUs \in Nat
  BY ApplyAssumption DEF ApplyAssumption
<1> DEFINE n == MaxCPUs - 1
<1>0. n \in Int
  OBVIOUS
<1>1. IsFiniteSet(1 .. n) /\ IsFiniteSet({c})
  <2> HIDE DEF n
  <2>1. 1 \in Int
    OBVIOUS
  <2>2. IsFiniteSet(1 .. n)
    BY <1>0, <2>1, FS_Interval, Zenon
  <2> QED BY <2>2, FS_Singleton
<1>2. IsFiniteSet(HelpersOf(c))
  BY <1>1, FS_Product DEF HelpersOf
<1>3. IsFiniteSet(ProcsOf(c))
  BY <1>1, <1>2, FS_Union DEF ProcsOf
<1>4. Live(c) \subseteq ProcsOf(c)
  BY DEF Live
<1> QED BY <1>3, <1>4, FS_Subset, FS_CardinalityType

LEMMA RanFinite ==
    ASSUME Types, NEW c \in Callers
    PROVE  /\ IsFiniteSet(Iterations(c)) /\ Cardinality(Iterations(c)) = iters[c]
           /\ IsFiniteSet(RanOf(c)) /\ RanOf(c) \subseteq Iterations(c) /\ iters[c] \in Nat
<1> DEFINE n == iters[c] - 1
<1>1. 0 \in Int /\ n \in Int /\ iters[c] \in Nat \ {0}
  BY ApplyAssumption DEF ApplyAssumption, Types
<1>2. IsFiniteSet(0 .. n) /\ Cardinality(0 .. n) = IF 0 > n THEN 0 ELSE n - 0 + 1
  <2> HIDE DEF n
  <2> QED BY <1>1, FS_Interval, Zenon
<1>3. IsFiniteSet(Iterations(c)) /\ Cardinality(Iterations(c)) = iters[c]
  BY <1>1, <1>2 DEF Iterations
<1>4. RanOf(c) \subseteq Iterations(c)
  BY DEF RanOf
<1> QED BY <1>1, <1>3, <1>4, FS_Subset

\* Nothing happened to the call of d.
Same(d) ==
    /\ thr'[d] = thr[d] /\ index'[d] = index[d] /\ doneCnt'[d] = doneCnt[d]
    /\ freed'[d] = freed[d] /\ sema'[d] = sema[d] /\ ran'[d] = ran[d] /\ lv'[d] = lv[d]
    /\ \A p \in ProcsOf(d) : pc'[p] = pc[p] /\ mine'[p] = mine[p] /\ idx'[p] = idx[p]

LEMMA GoodStays ==
    ASSUME NEW d \in Callers, Good(d), Same(d), UNCHANGED call
    PROVE  Good(d)'
<1>1. Live(d)' = Live(d) /\ RanOf(d)' = RanOf(d) /\ Iterations(d)' = Iterations(d)
      /\ AllRan(d)' = AllRan(d)
  BY DEF Live, RanOf, AllRan, Iterations, Same, call
<1>2. d \in ProcsOf(d) /\ HelpersOf(d) \subseteq ProcsOf(d) /\ Live(d) \subseteq ProcsOf(d)
  BY DEF ProcsOf, Live
<1>3. Before(d)' /\ Alone(d)' /\ Leaving(d)' /\ Woken(d)'
  BY <1>1, <1>2 DEF Good, Before, Alone, Leaving, Woken, Ready, Same, call
<1>4. HandedOut(d)'
  BY <1>1, <1>2 DEF Good, HandedOut, Same, call
<1>5. Tallied(d)'
  BY <1>1 DEF Good, Tallied, Tally, Same
<1> QED BY <1>3, <1>4, <1>5 DEF Good

\* A step of the call of c.
LEMMA GoodThen ==
    ASSUME \A d \in Callers : Good(d), NEW c \in Callers, Good(c)', UNCHANGED call,
           \A d \in Callers \ {c} : Same(d)
    PROVE  \A d \in Callers : Good(d)'
BY GoodStays

-----------------------------------------------------------------------------
LEMMA InitIInv == Init => IInv
<1> SUFFICES ASSUME Init PROVE IInv
  OBVIOUS
<1>1. MaxCPUs \in Nat \ {0} /\ MaxIter \in Nat \ {0} /\ Word \in Nat /\ Word > MaxCPUs
      /\ Root \in Nat
  BY ApplyAssumption DEF ApplyAssumption, Root
<1>2. Types
  BY <1>1, Records DEF Init, Types, Points, InvokePoints, Procs, Helpers
<1>3. ASSUME NEW c \in Callers PROVE Good(c)
  <2>1. /\ pc[c] = "idle" /\ Ready(c) /\ idx[c] = 0 /\ \A i \in Iterations(c) : ran[c][i] = 0
        /\ thr[c] \in 0 .. Word - 1 /\ lv[c] = first[c]
    BY <1>1, Records, ApplyAssumption DEF ApplyAssumption, Init, Ready, Iterations
  <2>2. Before(c) /\ Alone(c) /\ Leaving(c)
    BY <2>1 DEF Before, Alone, Leaving, PrePoints, ChainPoints, ReservePoints
  <2>3. Live(c) = {}
    BY <2>1 DEF Live, LivePoints, InvokePoints, Ready, ProcsOf
  <2>4. Tally(c, {}, [p \in ProcsOf(c) |-> {}])
    BY <2>1, FS_EmptySet DEF Tally, Ready
  <2>5. Woken(c)
    BY <2>1 DEF Woken, Ready, ProcsOf, EndPoints
  <2> QED BY <2>2, <2>3, <2>4, <2>5 DEF Good, HandedOut, Tallied
<1> QED BY <1>2, <1>3 DEF IInv

-----------------------------------------------------------------------------
(* The steps, as far as the record is concerned.                           *)

\* The call has nothing to do with it.
LEMMA NoneStep ==
    ASSUME \A d \in Callers : Good(d), UNCHANGED <<call, record, lv, pc, work>>
    PROVE  \A d \in Callers : Good(d)'
BY GoodStays DEF Same, record, work

\* The caller goes on before the helpers are pushed.
PreMove(c) ==
    /\ pc[c] \in PrePoints /\ pc'[c] \in (PrePoints \cup {"serial"}) \ {"idle"}
    /\ \A p \in Procs \ {c} : pc'[p] = pc[p]
    /\ thr'[c] \in 0 .. Word - 1
    /\ \A d \in Callers \ {c} : thr'[d] = thr[d] /\ lv'[d] = lv[d]
    /\ pc'[c] \in ChainPoints => first[c] \in Queues /\ lv'[c] \in Queues
    /\ UNCHANGED <<call, index, doneCnt, freed, sema, work>>

LEMMA PreStep ==
    ASSUME Types, \A d \in Callers : Good(d), NEW c \in Callers, PreMove(c)
    PROVE  \A d \in Callers : Good(d)'
<1>0. /\ iters' = iters /\ first' = first /\ index' = index /\ doneCnt' = doneCnt
      /\ freed' = freed /\ sema' = sema /\ mine' = mine /\ idx' = idx /\ ran' = ran
  BY DEF PreMove, call, work
<1>1. /\ Iterations(c)' = Iterations(c) /\ RanOf(c)' = RanOf(c)
  BY <1>0 DEF Iterations, RanOf
<1>2. Ready(c) /\ idx[c] = 0 /\ \A i \in Iterations(c) : ran[c][i] = 0
  BY DEF PreMove, Good, Before
<1>3. \A h \in HelpersOf(c) : pc'[h] = pc[h]
  BY Records DEF PreMove
<1>4. Ready(c)'
  BY <1>0, <1>2, <1>3 DEF Ready
<1>5. Before(c)'
  BY <1>0, <1>1, <1>2, <1>4 DEF Before, PreMove
<1>6. Alone(c)'
  <2>1. idx[c] \in Iterations(c) /\ \A i \in Iterations(c) : ~(i < idx[c])
    BY <1>2 DEF Iterations, Types
  <2> QED BY <1>0, <1>1, <1>2, <1>4, <2>1 DEF Alone
<1>7. Leaving(c)'
  BY DEF Leaving, PreMove
<1>8. Live(c)' = {} /\ \A p \in ProcsOf(c) : pc'[p] # "signal"
  BY <1>4 DEF Live, LivePoints, InvokePoints, Ready, ProcsOf, PreMove, PrePoints, ChainPoints,
     ReservePoints
<1>9. HandedOut(c)'
  BY <1>8 DEF HandedOut
<1>10. Tallied(c)'
  BY <1>0, <1>1 DEF Good, Tallied, Tally
<1>11. Woken(c)'
  <2>1. pc'[c] \notin EndPoints
    BY DEF PreMove, PrePoints, ChainPoints, ReservePoints, EndPoints
  <2> QED BY <1>4, <1>8, <2>1 DEF Woken, Ready
<1>12. Good(c)'
  BY <1>5, <1>6, <1>7, <1>9, <1>10, <1>11 DEF Good
<1>13. \A d \in Callers \ {c} : Same(d)
  <2> SUFFICES ASSUME NEW d \in Callers \ {c} PROVE Same(d)
    OBVIOUS
  <2>1. \A p \in ProcsOf(d) : p \in Procs \ {c}
    BY Strangers
  <2> QED BY <1>0, <2>1 DEF Same, PreMove
<1> QED BY <1>12, <1>13, GoodThen DEF PreMove

\* The caller goes on after the call.
EndMove(c) ==
    /\ pc[c] \in EndPoints /\ pc'[c] \in EndPoints
    /\ \A p \in Procs \ {c} : pc'[p] = pc[p]
    /\ \A d \in Callers \ {c} : lv'[d] = lv[d]
    /\ UNCHANGED <<call, record, work>>

LEMMA EndStep ==
    ASSUME Types, \A d \in Callers : Good(d), NEW c \in Callers, EndMove(c)
    PROVE  \A d \in Callers : Good(d)'
<1>0. /\ iters' = iters /\ first' = first /\ index' = index /\ doneCnt' = doneCnt /\ thr' = thr
      /\ freed' = freed /\ sema' = sema /\ mine' = mine /\ idx' = idx /\ ran' = ran
  BY DEF EndMove, call, work, record
<1>1. /\ Iterations(c)' = Iterations(c) /\ RanOf(c)' = RanOf(c) /\ AllRan(c)' = AllRan(c)
  BY <1>0 DEF Iterations, RanOf, AllRan
<1>2. \A h \in HelpersOf(c) : pc'[h] = pc[h]
  BY Records DEF EndMove
<1>3. \A x \in EndPoints : x \notin PrePoints \cup {"serial", "idle", "signal"} \cup ChainPoints
                                    \cup LivePoints
  BY DEF EndPoints, PrePoints, ChainPoints, ReservePoints, LivePoints, InvokePoints
<1>4. Live(c)' = Live(c)
  BY <1>2, <1>3 DEF Live, ProcsOf, EndMove
<1>5. Before(c)' /\ Alone(c)'
  BY <1>3 DEF Before, Alone, EndMove
<1>6. Leaving(c)'
  BY <1>0, <1>3, <1>4 DEF Good, Leaving, EndMove
<1>7. HandedOut(c)'
  <2>1. \A p \in Live(c) : pc'[p] = pc[p]
    BY <1>2, <1>3 DEF Live, ProcsOf, EndMove
  <2> QED BY <1>0, <1>1, <1>4, <2>1 DEF Good, HandedOut
<1>8. Tallied(c)'
  BY <1>0, <1>1 DEF Good, Tallied, Tally
<1>9. Woken(c)'
  BY <1>0, <1>1, <1>2, <1>3 DEF Good, Woken, EndMove, ProcsOf
<1>10. Good(c)'
  BY <1>5, <1>6, <1>7, <1>8, <1>9 DEF Good
<1>11. \A d \in Callers \ {c} : Same(d)
  <2> SUFFICES ASSUME NEW d \in Callers \ {c} PROVE Same(d)
    OBVIOUS
  <2>1. \A p \in ProcsOf(d) : p \in Procs \ {c}
    BY Strangers
  <2> QED BY <1>0, <2>1 DEF Same, EndMove
<1> QED BY <1>10, <1>11, GoodThen DEF EndMove

LEMMA SerialStep ==
    ASSUME Types, \A d \in Callers : Good(d), NEW c \in Callers, ApplySerial(c)
    PROVE  \A d \in Callers : Good(d)'
<1> DEFINE e == idx[c]
           more == e + 1 < iters[c]
<1>0. /\ iters' = iters /\ first' = first /\ index' = index /\ doneCnt' = doneCnt /\ thr' = thr
      /\ sema' = sema /\ mine' = mine
      /\ \A d \in Callers \ {c} : ran'[d] = ran[d] /\ freed'[d] = freed[d] /\ lv'[d] = lv[d]
      /\ \A p \in Procs \ {c} : pc'[p] = pc[p] /\ idx'[p] = idx[p]
  <2>1. UNCHANGED <<call, thr, index, doneCnt, sema, mine>>
    BY DEF ApplySerial
  <2>2. ran' = [ran EXCEPT ![c][e] = @ + 1] /\ idx' = [idx EXCEPT ![c] = idx'[c]]
    BY Records DEF ApplySerial, Set, Types
  <2>3. /\ freed' = freed \/ freed' = [freed EXCEPT ![c] = TRUE]
        /\ lv' = lv \/ lv' = [lv EXCEPT ![c] = Root - 1]
        /\ pc' = pc \/ \E x \in Points : pc' = [pc EXCEPT ![c] = x]
    BY DEF ApplySerial, Set, Leave, Goto, Points
  <2> QED BY <2>1, <2>2, <2>3 DEF call, Types
<1>1. /\ pc[c] = "serial" /\ Ready(c) /\ e \in Iterations(c)
      /\ \A i \in Iterations(c) : ran[c][i] = IF i < e THEN 1 ELSE 0
  BY DEF ApplySerial, Good, Alone
<1>2. /\ iters[c] \in Nat \ {0} /\ iters[c] <= MaxIter /\ Iterations(c) \subseteq 0 .. MaxIter - 1
      /\ MaxIter \in Nat
  <2>1. MaxIter \in Nat /\ iters[c] \in 1 .. MaxIter
    BY ApplyAssumption DEF ApplyAssumption, Types, call
  <2> QED BY <2>1 DEF Iterations
<1>3. Iterations(c)' = Iterations(c)
  BY <1>0 DEF Iterations
<1>4. \A i \in Iterations(c) : ran'[c][i] = IF i < e + 1 THEN 1 ELSE 0
  <2>1. ran[c] \in [0 .. MaxIter - 1 -> 0 .. 1] /\ ran \in [Callers -> [0 .. MaxIter - 1 -> 0 .. 1]]
    BY DEF Types
  <2>2. ran'[c] = [ran[c] EXCEPT ![e] = @ + 1]
    BY <2>1 DEF ApplySerial
  <2>3. ran[c][e] = 0 /\ e \in Int
    BY <1>1, <1>2 DEF Iterations
  <2> QED BY <1>1, <1>2, <2>1, <2>2, <2>3 DEF Iterations
<1>5. \/ more /\ pc'[c] = "serial" /\ idx'[c] = e + 1 /\ freed'[c] = freed[c]
      \/ ~more /\ pc'[c] \in {"done", "exit"} /\ freed'[c]
  <2>1. c \in Procs
    BY Records
  <2> QED BY <2>1 DEF ApplySerial, Set, Leave, Goto, Types
<1>6. \A h \in HelpersOf(c) : pc'[h] = "none"
  BY <1>0, <1>1, Records DEF Ready
<1>7. Live(c)' = {} /\ \A p \in ProcsOf(c) : pc'[p] # "signal"
  BY <1>5, <1>6 DEF Live, ProcsOf, LivePoints, InvokePoints
<1>8. Before(c)' /\ Leaving(c)'
  BY <1>5, <1>7 DEF Before, Leaving, PrePoints, ChainPoints, ReservePoints
<1>9. Alone(c)'
  <2> SUFFICES ASSUME pc'[c] = "serial" PROVE Alone(c)'
    BY DEF Alone
  <2>1. more /\ idx'[c] = e + 1 /\ freed'[c] = freed[c]
    BY <1>5
  <2>2. Ready(c)'
    BY <1>0, <1>1, <1>6, <2>1 DEF Ready
  <2>3. idx'[c] \in Iterations(c)
    BY <1>1, <1>2, <2>1 DEF Iterations
  <2> QED BY <1>3, <1>4, <2>1, <2>2, <2>3 DEF Alone
<1>10. Woken(c)'
  <2>1. ~more => AllRan(c)'
    <3>1. ~more => \A i \in Iterations(c) : i < e + 1
      BY <1>1, <1>2 DEF Iterations
    <3> QED BY <1>3, <1>4, <3>1 DEF AllRan
  <2>2. sema'[c] = 0
    BY <1>0, <1>1 DEF Ready
  <2> QED BY <1>5, <1>7, <2>1, <2>2 DEF Woken, EndPoints
<1>11. Tallied(c)'
  <2> DEFINE m == [p \in ProcsOf(c) |-> {}]
  <2>1. doneCnt'[c] = 0 /\ \A p \in ProcsOf(c) : mine'[p] = 0
    BY <1>0, <1>1 DEF Ready
  <2>2. Tally(c, {}, m)'
    BY <2>1, FS_EmptySet DEF Tally
  <2> QED BY <2>2 DEF Tallied
<1>12. Good(c)'
  BY <1>7, <1>8, <1>9, <1>10, <1>11 DEF Good, HandedOut
<1>13. \A d \in Callers \ {c} : Same(d)
  <2> SUFFICES ASSUME NEW d \in Callers \ {c} PROVE Same(d)
    OBVIOUS
  <2>1. \A p \in ProcsOf(d) : p \in Procs \ {c}
    BY Strangers
  <2> QED BY <1>0, <2>1 DEF Same
<1> QED BY <1>12, <1>13, GoodThen DEF ApplySerial
\* _dispatch_apply_f2 makes as many continuations as da_thr_cnt says.
LEMMA Continuations ==
    ASSUME Types, NEW c \in Callers, Before(c), PushHelpers(c)
    PROVE  /\ ContinuationCnt(c) \in 0 .. MaxCPUs - 1
           /\ thr[c] = ContinuationCnt(c) + 1
<1> DEFINE n == thr[c] - 1
<1>1. /\ Word \in Nat /\ MaxCPUs \in Nat /\ Word > MaxCPUs /\ Word > 0
  BY ApplyAssumption DEF ApplyAssumption
<1>2. thr[c] \in 0 .. Word - 1 /\ n % Word < MaxCPUs
  <2>1. thr[c] \in 0 .. Word - 1 /\ n % Word \in 1 .. MaxCPUs - 1
    BY DEF PushHelpers, Before, PrePoints, ContinuationCnt
  <2> HIDE DEF n
  <2> QED BY <1>1, <2>1
<1>3. CASE thr[c] = 0
  <2>1. (0 - 1) % Word = Word - 1
    BY <1>1
  <2>2. n = 0 - 1
    BY <1>3
  <2>3. n % Word = Word - 1
    BY <2>1, <2>2
  <2> QED BY <1>1, <1>2, <2>3
<1>4. CASE thr[c] # 0
  <2>1. n \in 0 .. Word - 1
    BY <1>1, <1>2, <1>4
  <2>2. n % Word = n
    <3> HIDE DEF n
    <3> QED BY <1>1, <2>1
  <2> QED BY <1>1, <1>2, <2>1, <2>2 DEF ContinuationCnt
<1> QED BY <1>3, <1>4

LEMMA PushStep ==
    ASSUME Types, \A d \in Callers : Good(d), NEW c \in Callers, PushHelpers(c)
    PROVE  \A d \in Callers : Good(d)'
<1> DEFINE k == ContinuationCnt(c)
           New == {c} \X (1 .. k)
<1>0. UNCHANGED <<queue, call, record, locals, work>>
  BY DEF PushHelpers
<1>1. pc[c] = "f2" /\ Ready(c) /\ idx[c] = 0 /\ \A i \in Iterations(c) : ran[c][i] = 0
  BY DEF Good, Before, PushHelpers, PrePoints
<1>2. k \in 0 .. MaxCPUs - 1 /\ thr[c] = k + 1
  BY Continuations DEF Good
<1>3. \A p \in Procs : pc'[p] = IF p = c THEN "take"
                                ELSE IF p \in Helpers /\ p[1] = c /\ p[2] <= k THEN "queued"
                                ELSE pc[p]
  BY DEF PushHelpers
<1>4. MaxCPUs \in Nat
  BY ApplyAssumption DEF ApplyAssumption
<1>5. \A h \in HelpersOf(c) : pc'[h] = IF h \in New THEN "queued" ELSE "none"
  <2> SUFFICES ASSUME NEW h \in HelpersOf(c)
               PROVE  pc'[h] = IF h \in New THEN "queued" ELSE "none"
    OBVIOUS
  <2>1. h \in Procs /\ h \in Helpers /\ h # c /\ pc[h] = "none"
    BY <1>1, Records DEF Ready
  <2>2. h[1] = c /\ h[2] \in 1 .. MaxCPUs - 1 /\ h = <<c, h[2]>>
    BY DEF HelpersOf
  <2>3. h \in New <=> h[2] <= k
    BY <1>2, <1>4, <2>2
  <2> QED BY <1>3, <2>1, <2>2, <2>3
<1>6. pc'[c] = "take" /\ New \subseteq HelpersOf(c) /\ c \notin New
  BY <1>2, <1>3, <1>4, Records DEF HelpersOf
<1>7. Live(c)' = New \cup {c}
  BY <1>5, <1>6 DEF Live, ProcsOf, LivePoints, InvokePoints
<1>8. IsFiniteSet(New) /\ Cardinality(New) = k
  <2>1. 1 \in Int /\ k \in Int /\ k \in Nat
    BY <1>2, <1>4
  <2> HIDE DEF k
  <2>2. IsFiniteSet(1 .. k) /\ Cardinality(1 .. k) = IF 1 > k THEN 0 ELSE k - 1 + 1
    BY <2>1, FS_Interval, Zenon
  <2>3. IsFiniteSet({c}) /\ Cardinality({c}) = 1
    BY FS_Singleton
  <2>4. IsFiniteSet(New) /\ Cardinality(New) = Cardinality({c}) * Cardinality(1 .. k)
    BY <2>2, <2>3, FS_Product
  <2>5. Cardinality(1 .. k) = k
    BY <2>1, <2>2
  <2> QED BY <2>1, <2>3, <2>4, <2>5
<1>9. Cardinality(Live(c)') = k + 1
  <2> HIDE DEF k, New
  <2> QED BY <1>2, <1>6, <1>7, <1>8, FS_AddElement
<1>10. Iterations(c)' = Iterations(c) /\ RanOf(c)' = RanOf(c) /\ AllRan(c)' = AllRan(c)
  BY <1>0 DEF Iterations, RanOf, AllRan, call, work
<1>11. Before(c)' /\ Alone(c)'
  BY <1>6 DEF Before, Alone, PrePoints, ChainPoints, ReservePoints
<1>12. Leaving(c)'
  BY <1>0, <1>1, <1>2, <1>9 DEF Leaving, Ready, record
<1>13. HandedOut(c)'
  <2>1. \A p \in Live(c)' : pc'[p] # "call"
    BY <1>5, <1>6, <1>7
  <2>2. \A i \in Iterations(c)' : ran'[c][i] = 0
    BY <1>0, <1>1, <1>10 DEF work
  <2> QED BY <2>1, <2>2 DEF HandedOut
<1>14. Tallied(c)'
  BY <1>0, <1>10 DEF Good, Tallied, Tally, record, work
<1>15. Woken(c)'
  <2>1. \A p \in ProcsOf(c) : pc'[p] # "signal"
    BY <1>5, <1>6 DEF ProcsOf
  <2> QED BY <1>0, <1>1, <1>6, <2>1 DEF Woken, Ready, EndPoints, record
<1>16. Good(c)'
  BY <1>11, <1>12, <1>13, <1>14, <1>15 DEF Good
<1>17. \A d \in Callers \ {c} : Same(d)
  <2> SUFFICES ASSUME NEW d \in Callers \ {c} PROVE Same(d)
    OBVIOUS
  <2>1. ASSUME NEW p \in ProcsOf(d) PROVE pc'[p] = pc[p]
    <3>1. p \in Procs \ ProcsOf(c) /\ RecordOf(p) = d
      BY <2>1, Strangers
    <3>2. p \in Helpers => p[1] # c
      BY <3>1, Records, ApplyAssumption DEF ApplyAssumption, RecordOf
    <3>3. p # c
      BY <3>1 DEF ProcsOf
    <3> QED BY <1>3, <3>1, <3>2, <3>3
  <2> QED BY <1>0, <2>1 DEF Same, record, work, locals
<1> QED BY <1>0, <1>16, <1>17, GoodThen

-----------------------------------------------------------------------------
(* Those that use the record.                                              *)

\* p, which uses the record of c, goes on or leaves.
UserMove(p, c) ==
    /\ pc[p] \in LivePoints
    /\ pc'[p] \in LivePoints \cup {IF p = c THEN "wait" ELSE "done"}
    /\ \A q \in Procs \ {p} : pc'[q] = pc[q] /\ mine'[q] = mine[q] /\ idx'[q] = idx[q]
    /\ \A d \in Callers \ {c} :
           /\ thr'[d] = thr[d] /\ index'[d] = index[d] /\ doneCnt'[d] = doneCnt[d]
           /\ freed'[d] = freed[d] /\ sema'[d] = sema[d] /\ ran'[d] = ran[d]
    /\ lv' = lv /\ UNCHANGED call

LEMMA UserStays ==
    ASSUME Types, \A d \in Callers : Good(d), NEW c \in Callers, NEW p \in ProcsOf(c),
           UserMove(p, c)
    PROVE  /\ p \in Live(c) /\ ~freed[c] /\ thr[c] = Cardinality(Live(c))
           /\ Before(c)' /\ Alone(c)' /\ Iterations(c)' = Iterations(c)
           /\ pc[c] \notin PrePoints \cup {"serial"}
           /\ \A q \in ProcsOf(c) \ {p} : pc'[q] = pc[q] /\ mine'[q] = mine[q] /\ idx'[q] = idx[q]
           /\ \A d \in Callers \ {c} : Same(d)
           /\ pc'[c] \in EndPoints => pc[c] \in EndPoints
<1>1. \A x \in LivePoints \cup {"wait"} : x \notin PrePoints \cup EndPoints \cup {"serial", "none", "idle"}
  BY DEF LivePoints, InvokePoints, PrePoints, ChainPoints, ReservePoints, EndPoints
<1>2. pc[c] \notin PrePoints \cup {"serial"}
  <2>1. CASE p = c
    BY <1>1, <2>1 DEF UserMove
  <2>2. CASE p # c
    <3>1. p \in HelpersOf(c)
      BY <2>2 DEF ProcsOf
    <3>2. ~Ready(c)
      BY <1>1, <3>1 DEF Ready, UserMove
    <3> QED BY <3>2 DEF Good, Before, Alone
  <2> QED BY <2>1, <2>2
<1>3. c \in Procs /\ ProcsOf(c) \subseteq Procs
  BY Records
<1>4. \A q \in ProcsOf(c) \ {p} : pc'[q] = pc[q] /\ mine'[q] = mine[q] /\ idx'[q] = idx[q]
  BY <1>3 DEF UserMove
<1>5. pc'[c] \notin PrePoints \cup {"serial"} /\ (pc'[c] \in EndPoints => pc[c] \in EndPoints)
  BY <1>1, <1>2, <1>3 DEF UserMove
<1>6. Before(c)' /\ Alone(c)'
  BY <1>5 DEF Before, Alone, PrePoints
<1>7. p \in Live(c)
  BY DEF Live, UserMove
<1>8. ~freed[c] /\ thr[c] = Cardinality(Live(c))
  BY <1>2, <1>7 DEF Good, Leaving
<1>9. Iterations(c)' = Iterations(c)
  BY DEF Iterations, UserMove, call
<1>10. \A d \in Callers \ {c} : Same(d)
  <2> SUFFICES ASSUME NEW d \in Callers \ {c} PROVE Same(d)
    OBVIOUS
  <2>1. \A q \in ProcsOf(d) : q \in Procs \ {p}
    BY Strangers
  <2> QED BY <2>1 DEF Same, UserMove
<1> QED BY <1>2, <1>4, <1>5, <1>6, <1>7, <1>8, <1>9, <1>10

\* Whoever goes on is still counted.
LEMMA UserLeaving ==
    ASSUME Types, \A d \in Callers : Good(d), NEW c \in Callers, NEW p \in ProcsOf(c),
           UserMove(p, c), pc'[p] \in LivePoints, thr'[c] = thr[c], freed'[c] = freed[c]
    PROVE  Leaving(c)' /\ Live(c)' = Live(c)
<1>1. Live(c)' = Live(c)
  <2>1. pc[p] \in LivePoints /\ \A q \in ProcsOf(c) \ {p} : pc'[q] = pc[q]
    BY UserStays DEF UserMove
  <2> QED BY <2>1 DEF Live
<1> QED BY <1>1, UserStays DEF Leaving
LEMMA TakeStep ==
    ASSUME Types, \A d \in Callers : Good(d), NEW c \in Callers, NEW p \in ProcsOf(c), Take(p)
    PROVE  \A d \in Callers : Good(d)'
<1>0. p \in Procs /\ RecordOf(p) = c
  BY Records
<1>1. /\ pc[p] = "take" /\ index' = [index EXCEPT ![c] = index[c] + 1]
      /\ \/ index[c] < iters[c] /\ pc'[p] = "call" /\ idx'[p] = index[c]
         \/ index[c] >= iters[c] /\ pc'[p] = "finish"
      /\ \A q \in Procs \ {p} : pc'[q] = pc[q] /\ idx'[q] = idx[q]
      /\ UNCHANGED <<queue, call, thr, doneCnt, freed, sema, locals, mine, ran>>
  BY <1>0 DEF Take, Set, Goto, Types
<1>2. thr' = thr /\ freed' = freed /\ sema' = sema /\ doneCnt' = doneCnt /\ mine' = mine
      /\ ran' = ran /\ lv' = lv /\ UNCHANGED call
  BY <1>1 DEF locals
<1>3. index'[c] = index[c] + 1 /\ \A d \in Callers \ {c} : index'[d] = index[d]
  BY <1>1 DEF Types
<1>4. UserMove(p, c) /\ pc'[p] \in LivePoints
  BY <1>1, <1>2, <1>3 DEF UserMove, LivePoints, InvokePoints
<1>5. Leaving(c)' /\ Live(c)' = Live(c)
  BY <1>2, <1>4, UserLeaving
<1>6. /\ p \in Live(c) /\ Before(c)' /\ Alone(c)' /\ Iterations(c)' = Iterations(c)
      /\ \A q \in ProcsOf(c) \ {p} : pc'[q] = pc[q] /\ idx'[q] = idx[q]
      /\ \A d \in Callers \ {c} : Same(d)
      /\ pc'[c] \in EndPoints => pc[c] \in EndPoints
  BY <1>4, UserStays
<1>7. RanOf(c)' = RanOf(c) /\ AllRan(c)' = AllRan(c) /\ iters' = iters
  BY <1>2, <1>6 DEF RanOf, AllRan, call
<1>8. Tallied(c)'
  BY <1>2, <1>7 DEF Good, Tallied, Tally
<1>9. Woken(c)'
  BY <1>1, <1>2, <1>6, <1>7 DEF Good, Woken
<1>10. HandedOut(c)'
  <2>1. index[c] \in Nat /\ iters[c] \in Nat
    BY DEF Types
  <2>2. \A i \in Iterations(c) : i >= index[c] => ran[c][i] = 0
    BY <1>6 DEF Good, HandedOut
  <2>3. \A q \in Live(c) : pc[q] = "call" =>
            /\ idx[q] < index[c] /\ idx[q] < iters[c] /\ ran[c][idx[q]] = 0
            /\ \A u \in Live(c) : pc[u] = "call" /\ idx[u] = idx[q] => u = q
    BY DEF Good, HandedOut
  <2>4. Live(c) \subseteq ProcsOf(c) /\ \A q \in ProcsOf(c) : idx[q] \in Nat
    BY Records DEF Live, Types
  <2>5. pc'[p] = "call" => /\ idx'[p] = index[c] /\ index[c] < iters[c]
                           /\ ran[c][index[c]] = 0
    BY <1>1, <2>1, <2>2 DEF Iterations
  <2>6. \A i \in Iterations(c) : i >= index'[c] => ran'[c][i] = 0
    BY <1>2, <1>3, <2>1, <2>2 DEF Iterations
  <2>7. ASSUME NEW q \in Live(c), pc'[q] = "call"
        PROVE  /\ idx'[q] < index'[c] /\ idx'[q] < iters[c] /\ ran'[c][idx'[q]] = 0
               /\ \A u \in Live(c) : pc'[u] = "call" /\ idx'[u] = idx'[q] => u = q
    <3>1. CASE q = p
      BY <1>2, <1>3, <1>6, <2>1, <2>3, <2>4, <2>5, <2>7, <3>1
    <3>2. CASE q # p
      BY <1>2, <1>3, <1>6, <2>1, <2>3, <2>4, <2>5, <2>7, <3>2
    <3> QED BY <3>1, <3>2
  <2> QED BY <1>5, <1>6, <1>7, <2>6, <2>7 DEF HandedOut
<1>11. Good(c)'
  BY <1>5, <1>6, <1>8, <1>9, <1>10 DEF Good
<1> QED BY <1>2, <1>6, <1>11, GoodThen

\* The iteration an invocation is about to call has not run.
LEMMA CallStep ==
    ASSUME Types, \A d \in Callers : Good(d), NEW c \in Callers, NEW p \in ProcsOf(c),
           CallIteration(p)
    PROVE  \A d \in Callers : Good(d)'
<1> DEFINE e == idx[p]
<1>0. p \in Procs /\ RecordOf(p) = c
  BY Records
<1>1. /\ pc[p] = "call" /\ pc'[p] = "take"
      /\ \A q \in Procs \ {p} : pc'[q] = pc[q] /\ mine'[q] = mine[q]
      /\ mine'[p] = mine[p] + 1 /\ ran' = [ran EXCEPT ![c][e] = @ + 1]
      /\ UNCHANGED <<queue, call, record, locals, idx>>
  BY <1>0 DEF CallIteration, Set, Move, Goto, Types
<1>2. /\ thr' = thr /\ freed' = freed /\ sema' = sema /\ doneCnt' = doneCnt /\ index' = index
      /\ lv' = lv /\ UNCHANGED call /\ idx' = idx
      /\ \A d \in Callers \ {c} : ran'[d] = ran[d]
  BY <1>1 DEF locals, record, Types
<1>3. UserMove(p, c) /\ pc'[p] \in LivePoints
  BY <1>1, <1>2 DEF UserMove, LivePoints, InvokePoints
<1>4. Leaving(c)' /\ Live(c)' = Live(c)
  BY <1>2, <1>3, UserLeaving
<1>5. /\ p \in Live(c) /\ Before(c)' /\ Alone(c)' /\ Iterations(c)' = Iterations(c)
      /\ \A q \in ProcsOf(c) \ {p} : pc'[q] = pc[q] /\ mine'[q] = mine[q]
      /\ \A d \in Callers \ {c} : Same(d)
      /\ pc'[c] \in EndPoints => pc[c] \in EndPoints
  BY <1>3, UserStays
<1>6. iters' = iters
  BY <1>2 DEF call
<1>7. e < index[c] /\ ran[c][e] = 0 /\ e \in Iterations(c) /\ e \in 0 .. MaxIter - 1
  <2>1. e < index[c] /\ e < iters[c] /\ ran[c][e] = 0
    BY <1>1, <1>5 DEF Good, HandedOut
  <2>2. e \in Nat /\ iters[c] \in 1 .. MaxIter /\ MaxIter \in Nat
    BY <1>0, ApplyAssumption DEF ApplyAssumption, Types
  <2> QED BY <2>1, <2>2 DEF Iterations
<1>8. ran'[c] = [ran[c] EXCEPT ![e] = 1]
  <2>1. ran'[c] = [ran[c] EXCEPT ![e] = @ + 1]
    BY <1>1 DEF Types
  <2> QED BY <1>7, <2>1
<1>9. \A i : ran'[c][i] = IF i = e /\ e \in DOMAIN ran[c] THEN 1 ELSE ran[c][i]
  BY <1>8
<1>10. ~AllRan(c)
  BY <1>7 DEF AllRan
<1>11. Woken(c)'
  <2>1. ~(sema[c] > 0) /\ pc[c] \notin EndPoints /\ \A q \in ProcsOf(c) : pc[q] # "signal"
    BY <1>10 DEF Good, Woken
  <2>2. \A q \in ProcsOf(c) : pc'[q] # "signal"
    BY <1>1, <1>5, <2>1
  <2> QED BY <1>2, <1>5, <2>1, <2>2 DEF Woken
<1>12. HandedOut(c)'
  <2>1. e \in Nat /\ index[c] \in Nat
    BY <1>0 DEF Types
  <2>2. \A i \in Iterations(c) : i >= index[c] => ran'[c][i] = 0
    BY <1>5, <1>7, <1>9, <2>1 DEF Good, HandedOut, Iterations
  <2>3. ASSUME NEW q \in Live(c), pc'[q] = "call"
        PROVE  /\ idx[q] < index[c] /\ idx[q] < iters[c] /\ ran'[c][idx[q]] = 0
               /\ \A u \in Live(c) : pc'[u] = "call" /\ idx[u] = idx[q] => u = q
    <3>1. \A u \in Live(c) : u \in ProcsOf(c) /\ (pc'[u] = "call" => u # p /\ pc[u] = "call")
      BY <1>1, <1>5 DEF Live
    <3>2. q # p /\ pc[q] = "call"
      BY <2>3, <3>1
    <3>3. idx[q] # e
      BY <1>1, <1>5, <3>2 DEF Good, HandedOut
    <3> QED BY <1>9, <3>1, <3>2, <3>3 DEF Good, HandedOut
  <2> QED BY <1>2, <1>4, <1>5, <1>6, <2>2, <2>3 DEF HandedOut
<1>13. Tallied(c)'
  <2>1. PICK D \in SUBSET RanOf(c), m \in [ProcsOf(c) -> SUBSET RanOf(c)] : Tally(c, D, m)
    BY DEF Good, Tallied
  <2>0. PICK m2 : m2 = [m EXCEPT ![p] = m[p] \cup {e}]
    OBVIOUS
  <2>2. RanOf(c)' = RanOf(c) \cup {e} /\ e \notin RanOf(c)
    <3>1. e \in DOMAIN ran[c]
      BY <1>7 DEF Types
    <3> QED BY <1>5, <1>7, <1>9, <3>1 DEF RanOf
  <2>3. m2 \in [ProcsOf(c) -> SUBSET RanOf(c)'] /\ D \in SUBSET RanOf(c)'
    BY <2>0, <2>2
  <2>4. IsFiniteSet(m[p]) /\ e \notin m[p]
    <3>1. IsFiniteSet(RanOf(c))
      BY RanFinite
    <3> QED BY <2>2, <3>1, FS_Subset
  <2>5. Cardinality(m2[p]) = Cardinality(m[p]) + 1
    BY <2>0, <2>4, FS_AddElement
  <2>6. Cardinality(D) = doneCnt'[c]
    BY <1>2, <2>1 DEF Tally
  <2>7. ASSUME NEW q \in ProcsOf(c)
        PROVE  /\ Cardinality(m2[q]) = mine'[q] /\ m2[q] \cap D = {}
               /\ \A u \in ProcsOf(c) : u # q => m2[q] \cap m2[u] = {}
    <3>1. \A u \in ProcsOf(c) : e \notin m[u]
      BY <2>2
    <3>2. e \notin D
      BY <2>2
    <3>3. m2[p] = m[p] \cup {e} /\ \A u \in ProcsOf(c) \ {p} : m2[u] = m[u]
      BY <2>0
    <3>4. Cardinality(m2[q]) = mine'[q]
      BY <1>1, <1>5, <2>1, <2>5, <3>3 DEF Tally
    <3> QED BY <2>1, <3>1, <3>2, <3>3, <3>4 DEF Tally
  <2>8. Tally(c, D, m2)'
    BY <2>6, <2>7 DEF Tally
  <2> QED BY <2>3, <2>8 DEF Tallied
<1>14. Good(c)'
  BY <1>4, <1>5, <1>11, <1>12, <1>13 DEF Good
<1> QED BY <1>2, <1>5, <1>14, GoodThen

\* Whoever is through with its iterations adds them to da_done, and wakes the caller if
\* they complete the count.
LEMMA FinishStep ==
    ASSUME Types, \A d \in Callers : Good(d), NEW c \in Callers, NEW p \in ProcsOf(c), Finish(p)
    PROVE  \A d \in Callers : Good(d)'
<1> DEFINE new == doneCnt[c] + mine[p]
<1>0. p \in Procs /\ RecordOf(p) = c
  BY Records
<1>1. /\ pc[p] = "finish" /\ pc'[p] = IF mine[p] > 0 /\ new = iters[c] THEN "signal" ELSE "dec"
      /\ \A q \in Procs \ {p} : pc'[q] = pc[q] /\ mine'[q] = mine[q]
      /\ mine'[p] = 0 /\ doneCnt' = [doneCnt EXCEPT ![c] = new]
      /\ UNCHANGED <<queue, call, thr, index, freed, sema, locals, idx, ran>>
  BY <1>0 DEF Finish, Set, Goto, Types
<1>2. /\ thr' = thr /\ freed' = freed /\ sema' = sema /\ index' = index /\ ran' = ran
      /\ lv' = lv /\ UNCHANGED call /\ idx' = idx /\ iters' = iters
      /\ doneCnt'[c] = new /\ \A d \in Callers \ {c} : doneCnt'[d] = doneCnt[d]
  BY <1>1 DEF locals, call, Types
<1>3. UserMove(p, c) /\ pc'[p] \in LivePoints
  BY <1>1, <1>2 DEF UserMove, LivePoints, InvokePoints
<1>4. Leaving(c)' /\ Live(c)' = Live(c)
  BY <1>2, <1>3, UserLeaving
<1>5. /\ p \in Live(c) /\ Before(c)' /\ Alone(c)' /\ Iterations(c)' = Iterations(c)
      /\ \A q \in ProcsOf(c) \ {p} : pc'[q] = pc[q] /\ mine'[q] = mine[q]
      /\ \A d \in Callers \ {c} : Same(d)
      /\ pc'[c] \in EndPoints => pc[c] \in EndPoints
  BY <1>3, UserStays
<1>6. RanOf(c)' = RanOf(c) /\ AllRan(c)' = AllRan(c)
  BY <1>2, <1>5 DEF RanOf, AllRan
<1>7. HandedOut(c)'
  <2>1. \A q \in Live(c) : pc'[q] = "call" => pc[q] = "call"
    BY <1>1, <1>5 DEF Live
  <2> QED BY <1>2, <1>4, <1>5, <2>1 DEF Good, HandedOut
<1>8. PICK D \in SUBSET RanOf(c), m \in [ProcsOf(c) -> SUBSET RanOf(c)] : Tally(c, D, m)
  BY DEF Good, Tallied
<1>9. PICK D2, m2 : D2 = D \cup m[p] /\ m2 = [m EXCEPT ![p] = {}]
  OBVIOUS
<1>10. IsFiniteSet(D2) /\ D2 \in SUBSET RanOf(c) /\ Cardinality(D2) = new
  <2>1. IsFiniteSet(D) /\ IsFiniteSet(m[p])
    BY RanFinite, FS_Subset
  <2>2. D \cap m[p] = {} /\ Cardinality(D) = doneCnt[c] /\ Cardinality(m[p]) = mine[p]
    BY <1>8 DEF Tally
  <2>3. /\ IsFiniteSet(D2)
        /\ Cardinality(D2) = Cardinality(D) + Cardinality(m[p]) - Cardinality(D \cap m[p])
    BY <1>9, <2>1, FS_Union
  <2>4. doneCnt[c] \in Nat /\ mine[p] \in Nat
    BY <1>0 DEF Types
  <2>5. Cardinality(D \cap m[p]) = 0
    BY <2>2, FS_EmptySet
  <2>6. Cardinality(D2) = new
    BY <2>2, <2>3, <2>4, <2>5
  <2> QED BY <1>9, <2>3, <2>6
<1>11. Tallied(c)'
  <2>1. m2 \in [ProcsOf(c) -> SUBSET RanOf(c)] /\ m2[p] = {}
        /\ \A q \in ProcsOf(c) \ {p} : m2[q] = m[q]
    BY <1>9
  <2>2. ASSUME NEW q \in ProcsOf(c)
        PROVE  /\ Cardinality(m2[q]) = mine'[q] /\ m2[q] \cap D2 = {}
               /\ \A u \in ProcsOf(c) : u # q => m2[q] \cap m2[u] = {}
    <3>1. CASE q = p
      BY <1>1, <2>1, <3>1, FS_EmptySet
    <3>2. CASE q # p
      BY <1>5, <1>8, <1>9, <2>1, <3>2 DEF Tally
    <3> QED BY <3>1, <3>2
  <2>3. Tally(c, D2, m2)'
    BY <1>2, <1>10, <2>2 DEF Tally
  <2> QED BY <1>6, <1>10, <2>1, <2>3 DEF Tallied
<1>12. Woken(c)'
  <2>1. ASSUME new = iters[c] PROVE AllRan(c)
    <3>1. D2 = Iterations(c)
      <4>1. D2 \in SUBSET Iterations(c) /\ Cardinality(D2) = Cardinality(Iterations(c))
        BY <1>10, <2>1, RanFinite
      <4> QED BY <4>1, RanFinite, FS_Subset
    <3> QED BY <1>10, <3>1 DEF AllRan, RanOf
  <2>2. pc'[p] = "signal" => AllRan(c)
    BY <1>1, <2>1
  <2> QED BY <1>2, <1>5, <1>6, <2>2 DEF Good, Woken
<1>13. Good(c)'
  BY <1>4, <1>5, <1>7, <1>11, <1>12 DEF Good
<1> QED BY <1>2, <1>5, <1>13, GoodThen

LEMMA SignalStep ==
    ASSUME Types, \A d \in Callers : Good(d), NEW c \in Callers, NEW p \in ProcsOf(c), Signal(p)
    PROVE  \A d \in Callers : Good(d)'
<1>0. p \in Procs /\ RecordOf(p) = c
  BY Records
<1>1. /\ pc[p] = "signal" /\ pc'[p] = "dec" /\ \A q \in Procs \ {p} : pc'[q] = pc[q]
      /\ sema' = [sema EXCEPT ![c] = sema[c] + 1]
      /\ UNCHANGED <<queue, call, thr, index, doneCnt, freed, locals, work>>
  BY <1>0 DEF Signal, Move, Set, Goto, Types
<1>2. /\ thr' = thr /\ freed' = freed /\ doneCnt' = doneCnt /\ index' = index /\ ran' = ran
      /\ lv' = lv /\ UNCHANGED call /\ idx' = idx /\ mine' = mine /\ iters' = iters
      /\ \A d \in Callers \ {c} : sema'[d] = sema[d]
  BY <1>1 DEF locals, work, call, Types
<1>3. UserMove(p, c) /\ pc'[p] \in LivePoints
  BY <1>1, <1>2 DEF UserMove, LivePoints, InvokePoints
<1>4. Leaving(c)' /\ Live(c)' = Live(c)
  BY <1>2, <1>3, UserLeaving
<1>5. /\ p \in Live(c) /\ Before(c)' /\ Alone(c)' /\ Iterations(c)' = Iterations(c)
      /\ \A q \in ProcsOf(c) \ {p} : pc'[q] = pc[q]
      /\ \A d \in Callers \ {c} : Same(d)
  BY <1>3, UserStays
<1>6. RanOf(c)' = RanOf(c) /\ AllRan(c)' = AllRan(c)
  BY <1>2, <1>5 DEF RanOf, AllRan
<1>7. HandedOut(c)'
  <2>1. \A q \in Live(c) : pc'[q] = "call" => pc[q] = "call"
    BY <1>1, <1>5 DEF Live
  <2> QED BY <1>2, <1>4, <1>5, <2>1 DEF Good, HandedOut
<1>8. Tallied(c)'
  BY <1>2, <1>6 DEF Good, Tallied, Tally
<1>9. Woken(c)'
  <2>1. AllRan(c)
    BY <1>1 DEF Good, Woken
  <2> QED BY <1>6, <2>1 DEF Woken
<1>10. Good(c)'
  BY <1>4, <1>5, <1>7, <1>8, <1>9 DEF Good
<1> QED BY <1>2, <1>5, <1>10, GoodThen

\* The last one frees the record.
LEMMA DecStep ==
    ASSUME Types, \A d \in Callers : Good(d), NEW c \in Callers, NEW p \in ProcsOf(c), Dec(p)
    PROVE  \A d \in Callers : Good(d)'
<1>0. p \in Procs /\ RecordOf(p) = c /\ (p \in Callers <=> p = c)
  <2>1. p \in Procs /\ RecordOf(p) = c
    BY Records
  <2> QED BY <2>1 DEF RecordOf
<1>1. /\ pc[p] = "dec" /\ pc'[p] = IF p = c THEN "wait" ELSE "done"
      /\ \A q \in Procs \ {p} : pc'[q] = pc[q]
      /\ thr' = [thr EXCEPT ![c] = thr[c] - 1]
      /\ freed' = IF thr[c] = 1 THEN [freed EXCEPT ![c] = TRUE] ELSE freed
      /\ UNCHANGED <<queue, call, index, doneCnt, sema, locals, work>>
  BY <1>0 DEF Dec, Set, Goto, Types
<1>2. /\ sema' = sema /\ doneCnt' = doneCnt /\ index' = index /\ ran' = ran
      /\ lv' = lv /\ UNCHANGED call /\ idx' = idx /\ mine' = mine /\ iters' = iters
      /\ thr'[c] = thr[c] - 1 /\ (freed'[c] <=> freed[c] \/ thr[c] = 1)
      /\ \A d \in Callers \ {c} : thr'[d] = thr[d] /\ freed'[d] = freed[d]
  BY <1>1 DEF locals, work, call, Types
<1>3. UserMove(p, c)
  BY <1>1, <1>2 DEF UserMove, LivePoints, InvokePoints
<1>4. /\ p \in Live(c) /\ Before(c)' /\ Alone(c)' /\ Iterations(c)' = Iterations(c)
      /\ ~freed[c] /\ thr[c] = Cardinality(Live(c))
      /\ \A q \in ProcsOf(c) \ {p} : pc'[q] = pc[q]
      /\ \A d \in Callers \ {c} : Same(d)
      /\ pc'[c] \in EndPoints => pc[c] \in EndPoints
  BY <1>3, UserStays
<1>5. Live(c)' = Live(c) \ {p}
  <2>1. pc'[p] \notin LivePoints
    BY <1>1 DEF LivePoints, InvokePoints
  <2> QED BY <1>4, <2>1 DEF Live
<1>6. Leaving(c)'
  <2>1. IsFiniteSet(Live(c)') /\ Cardinality(Live(c)') = thr[c] - 1
    BY <1>4, <1>5, ProcsFinite, FS_RemoveElement
  <2>2. thr[c] \in Int
    BY DEF Types
  <2>3. thr[c] = 1 => Live(c)' = {}
    BY <2>1, <2>2, FS_EmptySet
  <2> QED BY <1>2, <1>4, <2>1, <2>3 DEF Leaving
<1>7. RanOf(c)' = RanOf(c) /\ AllRan(c)' = AllRan(c)
  BY <1>2, <1>4 DEF RanOf, AllRan
<1>8. HandedOut(c)'
  <2>1. \A q \in Live(c)' : q \in Live(c) /\ pc'[q] = pc[q]
    BY <1>4, <1>5 DEF Live
  <2> QED BY <1>2, <1>4, <2>1 DEF Good, HandedOut
<1>9. Tallied(c)'
  BY <1>2, <1>7 DEF Good, Tallied, Tally
<1>10. Woken(c)'
  BY <1>1, <1>2, <1>4, <1>7 DEF Good, Woken
<1>11. Good(c)'
  BY <1>4, <1>6, <1>8, <1>9, <1>10 DEF Good
<1> QED BY <1>2, <1>4, <1>11, GoodThen

\* A helper that is started late is still counted.
LEMMA StartStep ==
    ASSUME Types, \A d \in Callers : Good(d), NEW c \in Callers, NEW p \in ProcsOf(c),
           HelperStarts(p)
    PROVE  \A d \in Callers : Good(d)'
<1>0. p \in Procs
  BY Records
<1>1. /\ pc[p] = "queued" /\ pc'[p] = "take" /\ \A q \in Procs \ {p} : pc'[q] = pc[q]
      /\ UNCHANGED <<queue, call, record, locals, work>>
  BY <1>0 DEF HelperStarts, Move, Goto, Types
<1>2. /\ thr' = thr /\ freed' = freed /\ doneCnt' = doneCnt /\ index' = index /\ ran' = ran
      /\ lv' = lv /\ UNCHANGED call /\ idx' = idx /\ mine' = mine /\ iters' = iters
      /\ sema' = sema
  BY <1>1 DEF locals, work, call, record
<1>3. UserMove(p, c) /\ pc'[p] \in LivePoints
  BY <1>1, <1>2 DEF UserMove, LivePoints, InvokePoints
<1>4. Leaving(c)' /\ Live(c)' = Live(c)
  BY <1>2, <1>3, UserLeaving
<1>5. /\ p \in Live(c) /\ Before(c)' /\ Alone(c)' /\ Iterations(c)' = Iterations(c)
      /\ \A q \in ProcsOf(c) \ {p} : pc'[q] = pc[q]
      /\ \A d \in Callers \ {c} : Same(d)
      /\ pc'[c] \in EndPoints => pc[c] \in EndPoints
  BY <1>3, UserStays
<1>6. RanOf(c)' = RanOf(c) /\ AllRan(c)' = AllRan(c)
  BY <1>2, <1>5 DEF RanOf, AllRan
<1>7. HandedOut(c)'
  <2>1. \A q \in Live(c) : pc'[q] = "call" => pc[q] = "call"
    BY <1>1, <1>5 DEF Live
  <2> QED BY <1>2, <1>4, <1>5, <2>1 DEF Good, HandedOut
<1>8. Tallied(c)'
  BY <1>2, <1>6 DEF Good, Tallied, Tally
<1>9. Woken(c)'
  BY <1>1, <1>2, <1>5, <1>6 DEF Good, Woken
<1>10. Good(c)'
  BY <1>4, <1>5, <1>7, <1>8, <1>9 DEF Good
<1> QED BY <1>2, <1>5, <1>10, GoodThen

LEMMA WaitStep ==
    ASSUME Types, \A d \in Callers : Good(d), NEW c \in Callers, Wait(c)
    PROVE  \A d \in Callers : Good(d)'
<1>0. c \in Procs
  BY Records
<1>1. /\ pc[c] = "wait" /\ sema[c] > 0 /\ pc'[c] \in EndPoints
      /\ \A q \in Procs \ {c} : pc'[q] = pc[q]
      /\ sema' = [sema EXCEPT ![c] = sema[c] - 1]
      /\ UNCHANGED <<queue, call, thr, index, doneCnt, freed, locals, work>>
  BY <1>0 DEF Wait, Set, Goto, Types, EndPoints
<1>2. /\ thr' = thr /\ freed' = freed /\ doneCnt' = doneCnt /\ index' = index /\ ran' = ran
      /\ lv' = lv /\ UNCHANGED call /\ idx' = idx /\ mine' = mine /\ iters' = iters
      /\ \A d \in Callers \ {c} : sema'[d] = sema[d]
  BY <1>1 DEF locals, work, call, Types
<1>3. \A q \in HelpersOf(c) : pc'[q] = pc[q]
  BY <1>1, Records
<1>4. \A x \in EndPoints \cup {"wait"} :
          x \notin PrePoints \cup {"serial", "idle", "signal", "call"} \cup ChainPoints \cup LivePoints
  BY DEF EndPoints, PrePoints, ChainPoints, ReservePoints, LivePoints, InvokePoints
<1>5. Live(c)' = Live(c) /\ Iterations(c)' = Iterations(c)
      /\ \A q \in Live(c) : pc'[q] = pc[q]
  BY <1>1, <1>2, <1>3, <1>4 DEF Live, ProcsOf, Iterations
<1>6. RanOf(c)' = RanOf(c) /\ AllRan(c)' = AllRan(c) /\ AllRan(c)
  BY <1>1, <1>2, <1>5 DEF RanOf, AllRan, Good, Woken
<1>7. Before(c)' /\ Alone(c)' /\ Leaving(c)'
  BY <1>1, <1>2, <1>4, <1>5 DEF Good, Before, Alone, Leaving
<1>8. HandedOut(c)'
  BY <1>2, <1>5 DEF Good, HandedOut
<1>9. Tallied(c)'
  BY <1>2, <1>6 DEF Good, Tallied, Tally
<1>10. Woken(c)'
  BY <1>6 DEF Woken
<1>11. Good(c)'
  BY <1>7, <1>8, <1>9, <1>10 DEF Good
<1>12. \A d \in Callers \ {c} : Same(d)
  <2> SUFFICES ASSUME NEW d \in Callers \ {c} PROVE Same(d)
    OBVIOUS
  <2>1. \A p \in ProcsOf(d) : p \in Procs \ {c}
    BY Strangers
  <2> QED BY <1>1, <1>2, <2>1 DEF Same
<1> QED BY <1>2, <1>11, <1>12, GoodThen

-----------------------------------------------------------------------------
LEMMA NextTypes == IInv /\ [Next]_vars => Types'
<1> SUFFICES ASSUME IInv, [Next]_vars PROVE Types'
  OBVIOUS
<1>0. /\ Root \in Nat /\ Word \in Nat /\ Word > 0 /\ MaxIter \in Nat
      /\ \A q \in Queues : q \in Nat /\ Share(q) \in Nat /\ Width[q] \in Nat
  BY ApplyAssumption DEF ApplyAssumption, Root, Share, Queues
<1>1. Types
  BY DEF IInv
<1>pc. pc \in [Procs -> Points]
  BY <1>1 DEF Types
<1>run. running \in [Queues -> Int]
  BY <1>1 DEF Types
<1>chain. /\ lv \in [Callers -> Int] /\ back \in [Callers -> Int]
          /\ first \in [Callers -> 1 .. Root] /\ \A c \in Callers : first[c] \in Int
  BY <1>1 DEF Types
<1>wide. width \in [Callers -> Int] /\ excess \in [Callers -> Int] /\ thr \in [Callers -> Int]
  BY <1>1 DEF Types
<1>cnt. /\ index \in [Callers -> Nat] /\ doneCnt \in [Callers -> Nat] /\ sema \in [Callers -> Nat]
        /\ freed \in [Callers -> BOOLEAN]
  BY <1>1 DEF Types
<1>own. mine \in [Procs -> Nat] /\ idx \in [Procs -> Nat]
  BY <1>1 DEF Types
<1>ran. ran \in [Callers -> [0 .. MaxIter - 1 -> 0 .. 1]]
  BY <1>1 DEF Types
<1> DEFINE Numbers == /\ first' = first /\ iters' = iters
                      /\ index' \in [Callers -> Nat] /\ doneCnt' \in [Callers -> Nat]
                      /\ freed' \in [Callers -> BOOLEAN] /\ sema' \in [Callers -> Nat]
                      /\ mine' \in [Procs -> Nat] /\ idx' \in [Procs -> Nat]
                      /\ ran' \in [Callers -> [0 .. MaxIter - 1 -> 0 .. 1]]
           Locals == /\ pc' \in [Procs -> Points] /\ running' \in [Queues -> Int]
                     /\ lv' \in [Callers -> Int] /\ back' \in [Callers -> Int]
                     /\ width' \in [Callers -> Int] /\ excess' \in [Callers -> Int]
                     /\ thr' \in [Callers -> Int]
<1>2. ASSUME Numbers, Locals PROVE Types'
  BY <1>1, <1>2 DEF Types
<1>3. ASSUME UNCHANGED <<call, index, doneCnt, freed, sema, work>> PROVE Numbers
  BY <1>1, <1>3 DEF Types, call, work
<1>4. ASSUME NEW q \in Queues, NEW x \in Int, running' = [running EXCEPT ![q] = x],
             UNCHANGED <<call, record, locals, pc, work>>
      PROVE  Types'
  BY <1>1, <1>4 DEF Types, call, record, locals, work
<1>5. ASSUME NEW q \in Queues, DrainBegins(q) \/ DrainEnds(q) \/ ReaderEnters(q) \/ ReaderLeaves(q)
      PROVE  Types'
  <2>1. running[q] \in Int /\ running[q] + 1 \in Int /\ running[q] - 1 \in Int
        /\ running[q] + Share(q) \in Int /\ (running[q] - Share(q)) % Word \in Int
    BY <1>0, <1>1, ModBounds DEF Types
  <2> QED BY <1>4, <1>5, <2>1 DEF DrainBegins, DrainEnds, ReaderEnters, ReaderLeaves
<1>6. ASSUME NEW c \in Callers, Start(c) PROVE Types'
  <2>1. Numbers
    BY <1>3, <1>6 DEF Start, record
  <2>2. Locals
    BY <1>1, <1>6 DEF Types, Start, Goto, Points, queue, record, locals
  <2> QED BY <1>2, <2>1, <2>2
<1>7. ASSUME NEW c \in Callers, Enter(c) \/ Exit(c) \/ Unreserve(c) PROVE Types'
  <2>1. Numbers
    BY <1>3, <1>7 DEF Enter, Exit, Unreserve, record
  <2>2. CASE Enter(c)
    <3>1. lv[c] \in Queues
      BY <2>2 DEF Enter, IInv, Good, Before, ChainPoints
    <3>2. running[lv[c]] + Share(lv[c]) \in Int /\ lv[c] + 1 \in Int /\ first[c] \in Int
          /\ 2 * (thr[c] - 1) \in Int
      BY <1>0, <1>run, <1>chain, <1>wide, <3>1
    <3>3. /\ running' = [running EXCEPT ![lv[c]] = running[lv[c]] + Share(lv[c])]
          /\ \E x \in {lv[c] + 1, first[c]} : lv' = [lv EXCEPT ![c] = x]
          /\ width' = width \/ \E x \in {0, 2 * (thr[c] - 1)} : width' = [width EXCEPT ![c] = x]
          /\ pc' = pc \/ \E x \in {"serial", "reserve"} : pc' = [pc EXCEPT ![c] = x]
          /\ UNCHANGED <<record, excess, back>>
      BY <2>2 DEF Enter, Set, Goto
    <3>4. running' \in [Queues -> Int]
      BY <1>run, <3>1, <3>2, <3>3
    <3>5. lv' \in [Callers -> Int] /\ width' \in [Callers -> Int]
      BY <1>chain, <1>wide, <3>2, <3>3
    <3>6. pc' \in [Procs -> Points]
      BY <1>pc, <3>3 DEF Points, ReservePoints
    <3> QED BY <1>2, <1>chain, <1>wide, <2>1, <3>3, <3>4, <3>5, <3>6 DEF record
  <2>3. CASE Exit(c)
    <3>1. running' \in [Queues -> Int]
      <4>1. \A q \in Queues : running[q] - Share(q) \in Int
        BY <1>0, <1>run
      <4>2. running' = [running EXCEPT ![lv[c]] = running[lv[c]] - Share(lv[c])]
        BY <2>3 DEF Exit
      <4> QED BY <1>run, <4>1, <4>2
    <3>2. lv' \in [Callers -> Int] /\ pc' \in [Procs -> Points]
      <4>1. /\ lv' = lv \/ lv' = [lv EXCEPT ![c] = lv[c] - 1]
            /\ pc' = pc \/ pc' = [pc EXCEPT ![c] = "done"]
        BY <2>3 DEF Exit, Set, Goto
      <4>2. lv[c] - 1 \in Int
        BY <1>chain
      <4>3. lv' \in [Callers -> Int]
        BY <1>chain, <4>1, <4>2
      <4> QED BY <1>pc, <4>1, <4>3 DEF Points
    <3> QED BY <1>2, <1>chain, <1>wide, <2>1, <2>3, <3>1, <3>2 DEF Exit, record
  <2>4. CASE Unreserve(c)
    <3>1. running' \in [Queues -> Int]
      <4>1. \A q \in Queues : (running[q] - width[c]) % Word \in Int
        BY <1>0, <1>run, <1>wide, ModBounds
      <4>2. running' = [running EXCEPT ![lv[c]] = (running[lv[c]] - width[c]) % Word]
        BY <2>4 DEF Unreserve
      <4> QED BY <1>run, <4>1, <4>2
    <3>2. lv' \in [Callers -> Int] /\ pc' \in [Procs -> Points] /\ width' \in [Callers -> Int]
      <4>1. /\ \E x \in {lv[c] + 1, Root - 1} : lv' = [lv EXCEPT ![c] = x]
            /\ pc' = pc \/ \E x \in {"done", "exit"} : pc' = [pc EXCEPT ![c] = x]
            /\ width' = width \/ width' = [width EXCEPT ![c] = 0]
        BY <2>4 DEF Unreserve, Set, Leave, Goto
      <4>2. lv[c] + 1 \in Int /\ Root - 1 \in Int
        BY <1>0, <1>chain
      <4>3. lv' \in [Callers -> Int] /\ width' \in [Callers -> Int]
        BY <1>chain, <1>wide, <4>1, <4>2
      <4> QED BY <1>pc, <4>1, <4>3 DEF Points
    <3> QED BY <1>2, <1>chain, <1>wide, <2>1, <2>4, <3>1, <3>2 DEF Unreserve, record
  <2> QED BY <1>7, <2>2, <2>3, <2>4
<1>8. ASSUME NEW c \in Callers, Reserve(c) \/ Undo(c) \/ Adjust(c) \/ NextQueue(c) PROVE Types'
  <2>1. Numbers
    BY <1>3, <1>8 DEF Reserve, Undo, Adjust, NextQueue, record
  <2>2. CASE Reserve(c)
    <3> DEFINE q == lv[c]
               v == (running[q] + width[c]) % Word
    <3>1. q \in Queues
      BY <2>2 DEF Reserve, IInv, Good, Before, ChainPoints, ReservePoints
    <3>2. v \in Int /\ v - Width[q] \in Int /\ width[c] \in Int /\ first[c] \in Int
      BY <1>0, <1>run, <1>chain, <1>wide, <3>1, ModBounds
    <3>3. /\ running' = [running EXCEPT ![q] = v]
          /\ pc' = [pc EXCEPT ![c] = "undo"] \/ pc' = [pc EXCEPT ![c] = "next"]
          /\ excess' = excess \/ \E x \in {v - Width[q], width[c]} : excess' = [excess EXCEPT ![c] = x]
          /\ back' = back \/ back' = [back EXCEPT ![c] = first[c]]
          /\ UNCHANGED <<record, width, lv>>
      BY <2>2 DEF Reserve, Set, Goto
    <3> HIDE DEF v, q
    <3>4. running' \in [Queues -> Int]
      BY <1>run, <3>1, <3>2, <3>3
    <3>5. pc' \in [Procs -> Points]
      BY <1>pc, <3>3 DEF Points, ReservePoints
    <3>6. excess' \in [Callers -> Int] /\ back' \in [Callers -> Int]
      BY <1>chain, <1>wide, <3>2, <3>3
    <3> QED BY <1>2, <1>chain, <1>wide, <2>1, <3>3, <3>4, <3>5, <3>6 DEF record
  <2>3. CASE Undo(c)
    <3>1. \A q \in Queues : (running[q] - excess[c]) % Word \in Int
      BY <1>run, <1>wide, ModBounds
    <3>2. /\ running' = [running EXCEPT ![back[c]] = (running[back[c]] - excess[c]) % Word]
          /\ pc' = pc \/ pc' = [pc EXCEPT ![c] = "adjust"]
          /\ \E x \in {Root, back[c] + 1} : back' = [back EXCEPT ![c] = x]
          /\ UNCHANGED <<record, width, lv, excess>>
      BY <2>3 DEF Undo, Set, Goto
    <3>3. running' \in [Queues -> Int]
      BY <1>run, <3>1, <3>2
    <3>4. pc' \in [Procs -> Points]
      BY <1>pc, <3>2 DEF Points, ReservePoints
    <3>5. back' \in [Callers -> Int]
      <4>1. Root \in Int /\ back[c] + 1 \in Int
        BY <1>0, <1>chain
      <4> QED BY <1>chain, <3>2, <4>1
    <3> QED BY <1>2, <1>chain, <1>wide, <2>1, <3>2, <3>3, <3>4, <3>5 DEF record
  <2>4. CASE Adjust(c)
    <3>1. (width[c] - excess[c]) % Word \in Int /\ (thr[c] - excess[c] \div 2) % Word \in Int
      <4>1. width[c] - excess[c] \in Int /\ thr[c] - excess[c] \div 2 \in Int
        BY <1>wide
      <4>2. \A x \in Int : x % Word \in Int
        BY ModBounds
      <4> QED BY <4>1, <4>2
    <3>2. /\ width' = [width EXCEPT ![c] = (width[c] - excess[c]) % Word]
          /\ excess' = [excess EXCEPT ![c] = 0]
          /\ \E x \in {"serial", "next"} : pc' = [pc EXCEPT ![c] = x]
          /\ thr' = thr \/ thr' = [thr EXCEPT ![c] = (thr[c] - excess[c] \div 2) % Word]
          /\ UNCHANGED <<queue, lv, back>>
      BY <2>4 DEF Adjust, Set, Goto
    <3>3. width' \in [Callers -> Int] /\ excess' \in [Callers -> Int] /\ thr' \in [Callers -> Int]
      BY <1>wide, <3>1, <3>2
    <3>4. pc' \in [Procs -> Points]
      BY <1>pc, <3>2 DEF Points, ReservePoints
    <3> QED BY <1>2, <1>run, <1>chain, <2>1, <3>2, <3>3, <3>4 DEF queue
  <2>5. CASE NextQueue(c)
    <3>1. /\ \E x \in {"reserve", "f2"} : pc' = [pc EXCEPT ![c] = x]
          /\ \E x \in {lv[c] + 1, first[c]} : lv' = [lv EXCEPT ![c] = x]
          /\ UNCHANGED <<queue, record, width, excess, back>>
      BY <2>5 DEF NextQueue, Move, Goto, Set
    <3>2. lv' \in [Callers -> Int]
      <4>1. lv[c] + 1 \in Int /\ first[c] \in Int
        BY <1>chain
      <4> QED BY <1>chain, <3>1, <4>1
    <3>3. pc' \in [Procs -> Points]
      BY <1>pc, <3>1 DEF Points, ReservePoints
    <3> QED BY <1>2, <1>run, <1>chain, <1>wide, <2>1, <3>1, <3>2, <3>3 DEF queue, record
  <2> QED BY <1>8, <2>2, <2>3, <2>4, <2>5
<1>9. ASSUME NEW c \in Callers, ApplySerial(c) PROVE Types'
  <2>1. ran[c][idx[c]] = 0 /\ idx[c] \in Nat /\ idx[c] + 1 \in Nat
    <3>1. idx[c] \in Iterations(c) /\ \A i \in Iterations(c) : ran[c][i] = IF i < idx[c] THEN 1 ELSE 0
      BY <1>9 DEF ApplySerial, IInv, Good, Alone
    <3>2. c \in Procs
      BY Records
    <3>3. idx[c] \in Nat
      BY <1>own, <3>2
    <3> QED BY <3>1, <3>3 DEF Iterations
  <2>2. ran' \in [Callers -> [0 .. MaxIter - 1 -> 0 .. 1]]
    <3>1. ran[c] \in [0 .. MaxIter - 1 -> 0 .. 1]
      BY <1>ran
    <3>2. [ran[c] EXCEPT ![idx[c]] = 1] \in [0 .. MaxIter - 1 -> 0 .. 1]
      <4>1. 1 \in 0 .. 1
        OBVIOUS
      <4> QED BY <3>1, <4>1
    <3>3. ran' = [ran EXCEPT ![c] = [ran[c] EXCEPT ![idx[c]] = 1]]
      BY <2>1, <1>9 DEF ApplySerial
    <3> QED BY <1>ran, <3>2, <3>3
  <2>3. /\ \E x \in {"serial", "done", "exit"} : pc' = [pc EXCEPT ![c] = x] \/ pc' = pc
        /\ \E x \in {idx[c] + 1, 0} : idx' = [idx EXCEPT ![c] = x]
        /\ freed' = freed \/ freed' = [freed EXCEPT ![c] = TRUE]
        /\ lv' = lv \/ lv' = [lv EXCEPT ![c] = Root - 1]
        /\ UNCHANGED <<queue, call, thr, index, doneCnt, sema, width, excess, back, mine>>
    BY <1>9 DEF ApplySerial, Set, Leave, Goto
  <2>4. Numbers
    <3>1. idx' \in [Procs -> Nat]
      <4>1. PICK x \in {idx[c] + 1, 0} : idx' = [idx EXCEPT ![c] = x]
        BY <2>3
      <4>2. x \in Nat
        BY <2>1, <4>1
      <4> QED BY <1>own, <4>1, <4>2
    <3> QED BY <1>cnt, <1>own, <2>2, <2>3, <3>1 DEF call
  <2>5. pc' \in [Procs -> Points]
    BY <1>pc, <2>3 DEF Points
  <2>6. lv' \in [Callers -> Int]
    BY <1>0, <1>chain, <2>3
  <2> QED BY <1>2, <1>run, <1>chain, <1>wide, <2>3, <2>4, <2>5, <2>6 DEF queue
<1>10. ASSUME NEW c \in Callers, PushHelpers(c) PROVE Types'
  <2>1. Numbers
    BY <1>3, <1>10 DEF PushHelpers, record
  <2>2. pc' \in [Procs -> Points]
    BY <1>1, <1>10 DEF PushHelpers, Types, Points, InvokePoints
  <2>3. Locals
    BY <1>1, <1>10, <2>2 DEF Types, PushHelpers, queue, record, locals
  <2> QED BY <1>2, <2>1, <2>3
<1>11. ASSUME NEW p \in Procs, HelperStarts(p) PROVE Types'
  <2>1. Numbers
    BY <1>3, <1>11 DEF HelperStarts, record
  <2>2. Locals
    BY <1>1, <1>11 DEF HelperStarts, Types, Move, Goto, Points, InvokePoints, queue, record, locals
  <2> QED BY <1>2, <2>1, <2>2
<1>12. ASSUME NEW p \in Procs, Invoke(p) PROVE Types'
  <2> DEFINE c == RecordOf(p)
  <2>1. c \in Callers /\ p \in ProcsOf(c)
    BY Records
  <2>2. /\ \E x \in {"call", "finish", "take", "signal", "dec", "wait", "done"} :
               pc' = [pc EXCEPT ![p] = x]
        /\ UNCHANGED <<queue, call, locals>>
    BY <1>12 DEF Invoke, Take, CallIteration, Finish, Signal, Dec, Move, Goto
  <2>3. thr' \in [Callers -> Int]
    <3>1. thr' = thr \/ thr' = [thr EXCEPT ![c] = thr[c] - 1]
      BY <1>12 DEF Invoke, Take, CallIteration, Finish, Signal, Dec, Set, record
    <3>2. thr[c] - 1 \in Int
      BY <1>wide, <2>1
    <3> HIDE DEF c
    <3> QED BY <1>wide, <3>1, <3>2
  <2>4. Locals
    <3>1. pc' \in [Procs -> Points]
      BY <1>pc, <2>2 DEF Points, InvokePoints
    <3> QED BY <1>run, <1>chain, <1>wide, <2>2, <2>3, <3>1 DEF queue, locals
  <2>5. /\ index' = index \/ index' = [index EXCEPT ![c] = index[c] + 1]
        /\ doneCnt' = doneCnt \/ doneCnt' = [doneCnt EXCEPT ![c] = doneCnt[c] + mine[p]]
        /\ freed' = freed \/ freed' = [freed EXCEPT ![c] = TRUE]
        /\ sema' = sema \/ sema' = [sema EXCEPT ![c] = sema[c] + 1]
        /\ mine' = mine \/ \E x \in {0, mine[p] + 1} : mine' = [mine EXCEPT ![p] = x]
        /\ idx' = idx \/ \E x \in {0, index[c]} : idx' = [idx EXCEPT ![p] = x]
    BY <1>12 DEF Invoke, Take, CallIteration, Finish, Signal, Dec, Set, record, work
  <2>6. ran' \in [Callers -> [0 .. MaxIter - 1 -> 0 .. 1]]
    <3>1. CASE CallIteration(p)
      <4>1. pc[p] = "call" /\ ran' = [ran EXCEPT ![c][idx[p]] = @ + 1]
        BY <3>1 DEF CallIteration, Move
      <4>2. p \in Live(c)
        BY <2>1, <4>1 DEF Live, LivePoints, InvokePoints
      <4>3. ran[c][idx[p]] = 0
        BY <2>1, <4>1, <4>2 DEF IInv, Good, HandedOut
      <4>4. ran' = [ran EXCEPT ![c] = [ran[c] EXCEPT ![idx[p]] = 1]]
        BY <4>1, <4>3
      <4>5. [ran[c] EXCEPT ![idx[p]] = 1] \in [0 .. MaxIter - 1 -> 0 .. 1]
        <5>1. 1 \in 0 .. 1 /\ ran[c] \in [0 .. MaxIter - 1 -> 0 .. 1]
          BY <1>ran, <2>1
        <5> HIDE DEF c
        <5> QED BY <5>1
      <4> HIDE DEF c
      <4> QED BY <1>ran, <4>4, <4>5
    <3>2. CASE ~CallIteration(p)
      BY <1>1, <1>12, <3>2 DEF Types, Invoke, Take, Finish, Signal, Dec, work
    <3> QED BY <3>1, <3>2
  <2>7. Numbers
    <3>1. /\ index[c] \in Nat /\ doneCnt[c] \in Nat /\ mine[p] \in Nat /\ sema[c] \in Nat
          /\ index[c] + 1 \in Nat /\ doneCnt[c] + mine[p] \in Nat /\ mine[p] + 1 \in Nat
          /\ sema[c] + 1 \in Nat /\ 0 \in Nat
      BY <1>12, <1>cnt, <1>own, <2>1
    <3> HIDE DEF c
    <3>2. /\ index' \in [Callers -> Nat] /\ doneCnt' \in [Callers -> Nat]
          /\ sema' \in [Callers -> Nat] /\ freed' \in [Callers -> BOOLEAN]
      BY <1>cnt, <2>5, <3>1
    <3>3. mine' \in [Procs -> Nat] /\ idx' \in [Procs -> Nat]
      BY <1>own, <2>5, <3>1
    <3> QED BY <2>2, <2>6, <3>2, <3>3 DEF call
  <2> QED BY <1>2, <2>4, <2>7
<1>13. ASSUME NEW c \in Callers, Wait(c) PROVE Types'
  <2>1. Numbers
    <3>1. sema[c] - 1 \in Nat
      BY <1>13, <1>cnt DEF Wait
    <3>2. sema' \in [Callers -> Nat]
      BY <1>13, <1>cnt, <3>1 DEF Wait, Set
    <3> QED BY <1>13, <1>cnt, <1>own, <1>ran, <3>2 DEF Wait, call, work
  <2>2. Locals
    BY <1>1, <1>13 DEF Types, Wait, Goto, Points, queue, locals
  <2> QED BY <1>2, <2>1, <2>2
<1>14. CASE UNCHANGED vars
  BY <1>1, <1>14 DEF Types, vars, queue, call, record, locals, work
<1>15. Callers \subseteq Procs /\ Helpers \subseteq Procs
  BY Records
<1>16. ASSUME NEW c \in Callers, Start(c) \/ CallerStep(c) PROVE Types'
  BY <1>6, <1>7, <1>8, <1>9, <1>10, <1>12, <1>13, <1>15, <1>16 DEF CallerStep
<1>17. ASSUME NEW h \in Helpers, HelperStarts(h) \/ Invoke(h) PROVE Types'
  BY <1>11, <1>12, <1>15, <1>17
<1> HIDE DEF Numbers, Locals
<1> QED BY <1>5, <1>14, <1>16, <1>17 DEF Next

\* The invariant is preserved by every step.
LEMMA NextIInv == IInv /\ [Next]_vars => IInv'
<1> SUFFICES ASSUME IInv, [Next]_vars PROVE \A d \in Callers : Good(d)'
  BY NextTypes DEF IInv
<1>0. Types /\ \A d \in Callers : Good(d)
  BY DEF IInv
<1>1. ASSUME NEW q \in Queues, DrainBegins(q) \/ DrainEnds(q) \/ ReaderEnters(q) \/ ReaderLeaves(q)
      PROVE  \A d \in Callers : Good(d)'
  <2>1. UNCHANGED <<call, record, lv, pc, work>>
    BY <1>1 DEF DrainBegins, DrainEnds, ReaderEnters, ReaderLeaves, locals
  <2> QED BY <1>0, <2>1, NoneStep
<1>2. ASSUME NEW c \in Callers, Start(c) \/ Enter(c) \/ Reserve(c) \/ Undo(c) \/ Adjust(c) \/ NextQueue(c)
      PROVE  \A d \in Callers : Good(d)'
  <2>0. /\ c \in Procs /\ Root \in Nat /\ first[c] \in 1 .. Root /\ lv[c] \in Int /\ Queues = 1 .. Root - 1
    BY <1>0, Records, ApplyAssumption DEF ApplyAssumption, Types, Root, Queues
  <2>1. pc[c] \in PrePoints
    BY <1>2 DEF Start, Enter, Reserve, Undo, Adjust, NextQueue, Move, PrePoints, ChainPoints,
           ReservePoints
  <2>2. /\ pc[c] = "idle" => lv[c] = first[c]
        /\ pc[c] \in ChainPoints => first[c] \in Queues /\ lv[c] \in Queues
        /\ thr[c] \in 0 .. Word - 1
    BY <1>0, <2>1 DEF Good, Before
  <2>3. UNCHANGED <<call, index, doneCnt, freed, sema, work>>
    BY <1>2 DEF Start, Enter, Reserve, Undo, Adjust, NextQueue, record
  <2>4. /\ pc' = pc \/ \E x \in {"enter", "serial", "f2", "reserve", "undo", "adjust", "next"} :
                           pc' = [pc EXCEPT ![c] = x]
        /\ lv' = lv \/ \E x \in {lv[c] + 1, first[c]} : lv' = [lv EXCEPT ![c] = x]
        /\ thr' = thr \/ thr' = [thr EXCEPT ![c] = (thr[c] - excess[c] \div 2) % Word]
    BY <1>2 DEF Start, Enter, Reserve, Undo, Adjust, NextQueue, Move, Goto, Set, record, locals
  <2>5. (thr[c] - excess[c] \div 2) % Word \in 0 .. Word - 1
    <3>1. thr[c] \in Int /\ excess[c] \in Int
      BY <1>0 DEF Types
    <3>2. thr[c] - excess[c] \div 2 \in Int
      BY <3>1
    <3> QED BY <3>2, ModBounds
  <2>6. /\ \A p \in Procs \ {c} : pc'[p] = pc[p]
        /\ \A d \in Callers \ {c} : thr'[d] = thr[d] /\ lv'[d] = lv[d]
        /\ thr'[c] \in 0 .. Word - 1
    BY <1>0, <2>2, <2>4, <2>5 DEF Types
  <2>7. pc'[c] \in (PrePoints \cup {"serial"}) \ {"idle"}
    <3>1. pc[c] # "idle" \/ pc' # pc
      <4>1. CASE Start(c)
        BY <1>0, <2>0, <4>1 DEF Start, Goto, Types
      <4> QED BY <1>2, <4>1 DEF Enter, Reserve, Undo, Adjust, NextQueue, Move
    <3> QED BY <1>0, <2>0, <2>1, <2>4, <3>1 DEF Types, PrePoints, ChainPoints, ReservePoints
  <2>8. pc'[c] \in ChainPoints => first[c] \in Queues /\ lv'[c] \in Queues
    <3>1. CASE Start(c)
      BY <1>0, <2>0, <2>2, <3>1 DEF Start, Goto, locals, Types, ChainPoints, ReservePoints
    <3>2. CASE ~Start(c)
      <4>1. pc[c] \in ChainPoints
        BY <1>2, <3>2 DEF Enter, Reserve, Undo, Adjust, NextQueue, Move, ChainPoints, ReservePoints
      <4>2. lv' = lv \/ lv' = [lv EXCEPT ![c] = first[c]]
            \/ (lv' = [lv EXCEPT ![c] = lv[c] + 1] /\ lv[c] + 1 < Root)
        BY <1>2, <3>2 DEF Enter, Reserve, Undo, Adjust, NextQueue, Set, locals
      <4>3. first[c] \in Queues /\ lv[c] \in Queues
        BY <2>2, <4>1
      <4>4. lv \in [Callers -> Int]
        BY <1>0 DEF Types
      <4>5. lv[c] + 1 < Root => lv[c] + 1 \in Queues
        BY <2>0, <4>3
      <4>6. lv'[c] \in {lv[c], first[c]} \/ (lv'[c] = lv[c] + 1 /\ lv[c] + 1 < Root)
        BY <4>2, <4>4
      <4> QED BY <4>3, <4>5, <4>6
    <3> QED BY <3>1, <3>2
  <2> QED BY <1>0, <2>1, <2>3, <2>6, <2>7, <2>8, PreStep DEF PreMove
<1>3. ASSUME NEW c \in Callers, Exit(c) \/ Unreserve(c) PROVE \A d \in Callers : Good(d)'
  <2>1. c \in Procs /\ pc[c] \in EndPoints
    BY <1>3, Records DEF Exit, Unreserve, EndPoints
  <2>2. /\ pc' = pc \/ \E x \in EndPoints : pc' = [pc EXCEPT ![c] = x]
        /\ lv' = lv \/ \E x \in {Root - 1, lv[c] + 1, lv[c] - 1} : lv' = [lv EXCEPT ![c] = x]
        /\ UNCHANGED <<call, record, work>>
    BY <1>3 DEF Exit, Unreserve, Leave, Goto, Set, EndPoints
  <2> QED BY <1>0, <2>1, <2>2, EndStep DEF EndMove, Types
<1>4. ASSUME NEW p \in Procs, Invoke(p) \/ HelperStarts(p) PROVE \A d \in Callers : Good(d)'
  <2>1. RecordOf(p) \in Callers /\ p \in ProcsOf(RecordOf(p))
    BY Records
  <2> QED BY <1>0, <1>4, <2>1, TakeStep, CallStep, FinishStep, SignalStep, DecStep, StartStep
          DEF Invoke
<1>5. CASE UNCHANGED vars
  BY <1>0, <1>5, NoneStep DEF vars, locals
<1>6. \A c \in Callers : c \in Procs
  BY Records
<1>7. \A h \in Helpers : h \in Procs
  BY Records
<1> QED BY <1>0, <1>1, <1>2, <1>3, <1>4, <1>5, <1>6, <1>7, SerialStep, PushStep, WaitStep
        DEF Next, CallerStep

LEMMA SpecIInv == Spec => []IInv
BY InitIInv, NextIInv, PTL DEF Spec

-----------------------------------------------------------------------------
\* _dispatch_apply_invoke and _dispatch_apply_serial: da_index hands out each
\* iteration once, and da_done lets the caller go on only when all have run,
\* however many helpers come, and whenever.
THEOREM EachIterationOnceHolds == Spec => []EachIterationOnce
<1>1. IInv => EachIterationOnce
  <2> SUFFICES ASSUME IInv, NEW c \in Callers, NEW i \in 0 .. iters[c] - 1
               PROVE  /\ ran[c][i] <= 1
                      /\ pc[c] \in {"unreserve", "exit", "done"} => ran[c][i] = 1
    BY DEF EachIterationOnce
  <2>1. i \in 0 .. MaxIter - 1
    BY ApplyAssumption DEF ApplyAssumption, IInv, Types
  <2>2. ran[c][i] \in 0 .. 1
    <3>1. ran \in [Callers -> [0 .. MaxIter - 1 -> 0 .. 1]]
      BY DEF IInv, Types
    <3>2. ran[c] \in [0 .. MaxIter - 1 -> 0 .. 1]
      BY <3>1
    <3> QED BY <2>1, <3>2
  <2> QED BY <2>2 DEF IInv, Good, Woken, AllRan, Iterations, EndPoints
<1> QED BY SpecIInv, <1>1, PTL

\* da_thr_cnt: the record is freed after everyone is through with it, even a
\* helper that starts when the call has long returned.
THEOREM RecordAliveHolds == Spec => []RecordAlive
<1>1. IInv => RecordAlive
  <2> SUFFICES ASSUME IInv, NEW p \in Procs, pc[p] \in LivePoints
               PROVE  ~freed[RecordOf(p)]
    BY DEF RecordAlive, LivePoints
  <2> DEFINE c == RecordOf(p)
  <2>1. c \in Callers /\ p \in ProcsOf(c)
    BY Records
  <2>2. p \in Live(c) /\ Good(c)
    BY <2>1 DEF Live, IInv
  <2>3. CASE pc[c] \in PrePoints \cup {"serial"}
    <3>1. Ready(c)
      BY <2>2, <2>3 DEF Good, Before, Alone
    <3> QED BY <3>1 DEF Ready
  <2>4. CASE pc[c] \notin PrePoints \cup {"serial"}
    BY <2>2, <2>4 DEF Good, Leaving
  <2> QED BY <2>3, <2>4
<1> QED BY SpecIInv, <1>1, PTL

-----------------------------------------------------------------------------
(* The reservation of width.  Room on each queue for all the others, and    *)
(* for all the calls but the reservation of one.                            *)
Crowd == 2 * MaxOthers + 2 * MaxCPUs * (Cardinality(Callers) - 1) + 2
Roomy == /\ \A q \in Queues : Width[q] = 1 \/ Width[q] >= Crowd
         /\ Word > Crowd + 2 * MaxCPUs

\* What the call of c has in dq_running of q: its share, and what it has reserved
\* and not yet taken back.
InQueue(c, q) ==
    /\ q >= first[c] /\ pc[c] \notin {"idle", "done"}
    /\ pc[c] = "enter" => q < lv[c]
    /\ pc[c] = "exit" => q <= lv[c]
Widened(c, q) ==
    /\ q >= first[c]
    /\ pc[c] = "reserve" => q < lv[c]
    /\ pc[c] \in {"undo", "adjust", "next"} => q <= lv[c]
    /\ pc[c] = "unreserve" => q >= lv[c]
Part(c, q) ==
    (IF InQueue(c, q) THEN Share(q) ELSE 0)
    + (IF Widened(c, q) THEN width[c] - (IF q < back[c] THEN excess[c] ELSE 0) ELSE 0)
PartOf(q) == [c \in Callers |-> Part(c, q)]

Drain(q) == IF draining[q] THEN 1 ELSE 0
Beside ==
    /\ readers \in [Queues -> Nat] /\ draining \in [Queues -> BOOLEAN]
    /\ others \in 0 .. MaxOthers
    /\ \A q \in Queues : readers[q] + Drain(q) <= others
Accounts ==
    \A q \in Queues :
        running[q] = Share(q) * readers[q] + Drain(q) + Total(Callers, PartOf(q))

\* The locals of a call, and the number of its threads.
Holding == {"f2", "wait"} \cup InvokePoints
OnChain == {"enter", "unreserve", "exit"} \cup ReservePoints
Reserving(c) ==
    /\ width[c] \in 0 .. 2 * (MaxCPUs - 1) /\ excess[c] \in 0 .. width[c]
    /\ first[c] = Root => width[c] = 0
    /\ pc[c] \notin {"undo", "adjust"} => excess[c] = 0
    /\ pc[c] \notin ReservePoints \cup Holding \cup {"unreserve"} => width[c] = 0
    /\ pc[c] \in {"idle", "enter"} => thr[c] \in 1 .. MaxCPUs
    /\ pc[c] \in ReservePoints =>
           thr[c] \in 2 .. MaxCPUs /\ width[c] \in 1 .. 2 * (thr[c] - 1)
    /\ pc[c] = "f2" => thr[c] \in 2 .. MaxCPUs
    /\ pc[c] \in OnChain => first[c] \in Queues /\ lv[c] \in first[c] .. Root - 1
    /\ pc[c] \in {"idle"} \cup Holding => lv[c] = first[c]
    /\ pc[c] = "undo" => back[c] \in first[c] .. lv[c]
    /\ pc[c] = "adjust" => back[c] > lv[c]

\* The inductive invariant.
WidthInv == IInv /\ Beside /\ Accounts /\ \A c \in Callers : Reserving(c)

LEMMA Bounds ==
    /\ IsFiniteSet(Callers) /\ Cardinality(Callers) \in Nat
    /\ MaxCPUs \in Nat \ {0} /\ MaxOthers \in Nat /\ Word \in Nat /\ Word > 2 * MaxCPUs
    /\ Root \in Nat \ {0} /\ Queues = 1 .. Root - 1 /\ Crowd \in Int
    /\ \A q \in Queues : q \in Nat /\ Width[q] \in Nat \ {0}
                         /\ Share(q) = (IF Width[q] = 1 THEN 1 ELSE 2)
<1>1. IsFiniteSet(Callers) /\ Cardinality(Callers) \in Nat
  BY ApplyAssumption, FS_CardinalityType DEF ApplyAssumption
<1>2. /\ MaxCPUs \in Nat \ {0} /\ MaxOthers \in Nat /\ Word \in Nat /\ Word > 2 * MaxCPUs
      /\ Width \in Seq(Nat \ {0})
  BY ApplyAssumption DEF ApplyAssumption
<1>3. Root \in Nat \ {0} /\ Queues = 1 .. Root - 1
  BY <1>2 DEF Root, Queues
<1>4. \A q \in Queues : q \in Nat /\ Width[q] \in Nat \ {0}
  BY <1>2 DEF Queues
<1>5. Crowd \in Int
  BY <1>1, <1>2 DEF Crowd
<1> QED BY <1>1, <1>2, <1>3, <1>4, <1>5 DEF Share

LEMMA PartTyped ==
    ASSUME NEW c \in Callers, Reserving(c), NEW q \in Queues
    PROVE  Part(c, q) \in 0 .. 2 * MaxCPUs /\ PartOf(q)[c] = Part(c, q)
<1>1. Share(q) \in 1 .. 2 /\ MaxCPUs \in Nat \ {0}
  BY Bounds
<1>2. width[c] \in 0 .. 2 * (MaxCPUs - 1) /\ excess[c] \in 0 .. width[c]
  BY DEF Reserving
<1>3. (IF InQueue(c, q) THEN Share(q) ELSE 0) \in 0 .. 2
  BY <1>1
<1>4. (IF Widened(c, q) THEN width[c] - (IF q < back[c] THEN excess[c] ELSE 0) ELSE 0)
        \in 0 .. 2 * (MaxCPUs - 1)
  BY <1>1, <1>2
<1>5. Part(c, q) \in 0 .. 2 * MaxCPUs
  BY <1>1, <1>3, <1>4 DEF Part
<1> QED BY <1>5 DEF PartOf

\* What others have in dq_running leaves room for what c adds.
LEMMA RoomFor ==
    ASSUME WidthInv, NEW c \in Callers, NEW q \in Queues
    PROVE  running[q] - Part(c, q) \in 0 .. Crowd - 2 /\ running[q] \in Nat
<1> DEFINE all == Total(Callers, PartOf(q))
           rest == Total(Callers \ {c}, PartOf(q))
           beside == Share(q) * readers[q] + Drain(q)
<1>1. \A d \in Callers : PartOf(q)[d] \in 0 .. 2 * MaxCPUs
  BY PartTyped DEF WidthInv
<1>2. IsFiniteSet(Callers) /\ 2 * MaxCPUs \in Nat
  BY Bounds
<1>3. /\ all = rest + PartOf(q)[c] /\ rest \in Nat
      /\ rest <= (Cardinality(Callers) - 1) * (2 * MaxCPUs)
  <2> HIDE DEF all, rest
  <2>1. /\ Total(Callers, PartOf(q)) = Total(Callers \ {c}, PartOf(q)) + PartOf(q)[c]
        /\ Total(Callers \ {c}, PartOf(q)) \in Nat
        /\ Total(Callers \ {c}, PartOf(q)) <= (Cardinality(Callers) - 1) * (2 * MaxCPUs)
    BY <1>1, <1>2, TotalSplit
  <2> QED BY <2>1 DEF all, rest
<1>4. PartOf(q)[c] = Part(c, q) /\ Part(c, q) \in Nat
  BY PartTyped, Bounds DEF WidthInv
<1>5. beside \in 0 .. 2 * MaxOthers
  <2>1. readers[q] \in Nat /\ Drain(q) \in 0 .. 1 /\ readers[q] + Drain(q) <= MaxOthers
    BY Bounds DEF WidthInv, Beside, Drain
  <2>2. Share(q) = 1 \/ Share(q) = 2
    BY Bounds
  <2>3. CASE Share(q) = 1
    BY <2>1, <2>3, Bounds
  <2>4. CASE Share(q) = 2
    BY <2>1, <2>4, Bounds
  <2> QED BY <2>2, <2>3, <2>4
<1>6. running[q] = beside + all
  BY DEF WidthInv, Accounts
<1> HIDE DEF all, rest, beside
<1>7. (Cardinality(Callers) - 1) * (2 * MaxCPUs) = 2 * MaxCPUs * (Cardinality(Callers) - 1)
  BY Bounds
<1>8. 2 * MaxCPUs * (Cardinality(Callers) - 1) \in Int
  BY Bounds
<1>9. running[q] - Part(c, q) = beside + rest /\ running[q] \in Nat
  BY <1>3, <1>4, <1>5, <1>6
<1>10. rest <= Crowd - 2 - 2 * MaxOthers /\ Crowd \in Int
  <2> DEFINE m == 2 * MaxCPUs * (Cardinality(Callers) - 1)
  <2>1. rest \in Nat /\ m \in Int /\ rest <= m
    BY <1>3, <1>7, <1>8
  <2>2. Crowd = 2 * MaxOthers + m + 2 /\ MaxOthers \in Nat
    BY Bounds DEF Crowd
  <2> HIDE DEF m
  <2> QED BY <2>1, <2>2
<1>11. MaxOthers \in Nat
  BY Bounds
<1> QED BY <1>3, <1>5, <1>9, <1>10, <1>11

-----------------------------------------------------------------------------
\* Nothing happens to the reservation of another call.
Aside(d) == /\ width'[d] = width[d] /\ excess'[d] = excess[d] /\ lv'[d] = lv[d]
            /\ back'[d] = back[d] /\ pc'[d] = pc[d]
            /\ pc[d] \in PrePoints => thr'[d] = thr[d]

LEMMA ReservingStays ==
    ASSUME NEW d \in Callers, Reserving(d), Aside(d), UNCHANGED call
    PROVE  Reserving(d)' /\ \A q \in Queues : Part(d, q)' = Part(d, q)
<1>1. Reserving(d)'
  BY DEF Reserving, Aside, call, PrePoints, ChainPoints
<1>2. \A q \in Queues : Part(d, q)' = Part(d, q)
  BY DEF Part, InQueue, Widened, Share, Aside, call
<1> QED BY <1>1, <1>2

\* A step of the call of c, which accounts for what it does to dq_running.
LEMMA ReservationStep ==
    ASSUME WidthInv, IInv', NEW c \in Callers, \A d \in Callers \ {c} : Aside(d),
           UNCHANGED <<call, draining, readers, others>>, Reserving(c)',
           \A q \in Queues : running'[q] = running[q] - Part(c, q) + Part(c, q)'
    PROVE  WidthInv'
<1>1. \A d \in Callers : Reserving(d)'
  BY ReservingStays DEF WidthInv
<1>2. Beside'
  BY DEF WidthInv, Beside, Drain
<1>3. ASSUME NEW q \in Queues
      PROVE  running'[q] = Share(q) * readers'[q] + Drain(q)' + Total(Callers, PartOf(q)')
  <2>1. \A d \in Callers : PartOf(q)[d] \in 0 .. 2 * MaxCPUs /\ PartOf(q)[d] = Part(d, q)
    BY PartTyped DEF WidthInv
  <2>2. ASSUME NEW d \in Callers
        PROVE  PartOf(q)'[d] \in 0 .. 2 * MaxCPUs /\ PartOf(q)'[d] = Part(d, q)'
    <3>1. Share(q) \in 1 .. 2 /\ MaxCPUs \in Nat \ {0}
      BY Bounds
    <3>2. width'[d] \in 0 .. 2 * (MaxCPUs - 1) /\ excess'[d] \in 0 .. width'[d]
      BY <1>1 DEF Reserving
    <3>3. (IF InQueue(d, q)' THEN Share(q) ELSE 0) \in 0 .. 2
      BY <3>1
    <3>4. (IF Widened(d, q)' THEN width'[d] - (IF q < back'[d] THEN excess'[d] ELSE 0) ELSE 0)
            \in 0 .. 2 * (MaxCPUs - 1)
      BY <3>1, <3>2
    <3>5. Part(d, q)' \in 0 .. 2 * MaxCPUs
      BY <3>1, <3>3, <3>4 DEF Part, Share
    <3> QED BY <3>5 DEF PartOf
  <2>3. \A d \in Callers \ {c} : PartOf(q)'[d] = PartOf(q)[d]
    BY <2>1, <2>2, ReservingStays DEF WidthInv
  <2>4. IsFiniteSet(Callers) /\ 2 * MaxCPUs \in Nat
    BY Bounds
  <2>5. Total(Callers, PartOf(q)') = Total(Callers, PartOf(q)) - PartOf(q)[c] + PartOf(q)'[c]
    <3> DEFINE f == PartOf(q)
               g == PartOf(q)'
    <3>1. \A d \in Callers : f[d] \in 0 .. 2 * MaxCPUs
      BY <2>1
    <3>2. \A d \in Callers : g[d] \in 0 .. 2 * MaxCPUs
      BY <2>2
    <3>3. \A d \in Callers \ {c} : g[d] = f[d]
      BY <2>3
    <3> HIDE DEF f, g
    <3>4. Total(Callers, g) = Total(Callers, f) - f[c] + g[c]
      BY <3>1, <3>2, <3>3, <2>4, TotalMove
    <3> QED BY <3>4 DEF f, g
  <2>6. Total(Callers, PartOf(q)) \in Nat
    BY <2>1, <2>4, TotalBound
  <2>7. running[q] = Share(q) * readers[q] + Drain(q) + Total(Callers, PartOf(q))
    BY DEF WidthInv, Accounts
  <2>8. Share(q) * readers[q] + Drain(q) \in Int
    <3>1. readers[q] \in Nat /\ Drain(q) \in 0 .. 1
      BY DEF WidthInv, Beside, Drain
    <3>2. Share(q) = 1 \/ Share(q) = 2
      BY Bounds
    <3>3. CASE Share(q) = 1
      BY <3>1, <3>3
    <3>4. CASE Share(q) = 2
      BY <3>1, <3>4
    <3> QED BY <3>2, <3>3, <3>4
  <2>9. Part(c, q) \in Int /\ Part(c, q)' \in Int
    BY <2>1, <2>2, Bounds
  <2>10. readers'[q] = readers[q] /\ Drain(q)' = Drain(q)
    BY DEF Drain
  <2> QED BY <2>1, <2>2, <2>5, <2>6, <2>7, <2>8, <2>9, <2>10
<1>4. Accounts'
  BY <1>3 DEF Accounts, Share
<1> QED BY <1>1, <1>2, <1>4 DEF WidthInv
-----------------------------------------------------------------------------
(* The steps.  With room nothing wraps around.                             *)

LEMMA NoWrap == ASSUME NEW x \in 0 .. Word - 1 PROVE x % Word = x
<1>1. Word \in Nat /\ Word > 0
  BY Bounds
<1> QED BY <1>1

LEMMA Shares ==
    ASSUME NEW q \in Queues, NEW n \in Nat
    PROVE  Share(q) * n \in Nat /\ (n > 0 => Share(q) <= Share(q) * n)
<1>1. Share(q) = 1 \/ Share(q) = 2
  BY Bounds
<1> QED BY <1>1

LEMMA LessThanWord ==
    ASSUME WidthInv, Roomy, NEW q \in Queues
    PROVE  /\ running[q] \in 0 .. Word - 1
           /\ running[q] - Share(q) * readers[q] - Drain(q) \in Nat
<1> DEFINE all == Total(Callers, PartOf(q))
           beside == Share(q) * readers[q] + Drain(q)
           m == 2 * MaxCPUs * (Cardinality(Callers) - 1)
<1>1. \A d \in Callers : PartOf(q)[d] \in 0 .. 2 * MaxCPUs
  BY PartTyped DEF WidthInv
<1>2. IsFiniteSet(Callers) /\ 2 * MaxCPUs \in Nat
  BY Bounds
<1>3. all \in Nat /\ all <= Cardinality(Callers) * (2 * MaxCPUs)
  BY <1>1, <1>2, TotalBound
<1>4. Cardinality(Callers) * (2 * MaxCPUs) = m + 2 * MaxCPUs /\ m \in Int
  BY Bounds
<1>5. readers[q] \in Nat /\ Drain(q) \in 0 .. 1 /\ readers[q] + Drain(q) <= MaxOthers
  BY Bounds DEF WidthInv, Beside, Drain
<1>6. beside \in 0 .. 2 * MaxOthers /\ Share(q) * readers[q] \in Nat
  <2>1. Share(q) = 1 \/ Share(q) = 2
    BY Bounds
  <2>2. CASE Share(q) = 1
    BY <1>5, <2>2, Bounds
  <2>3. CASE Share(q) = 2
    BY <1>5, <2>3, Bounds
  <2> QED BY <2>1, <2>2, <2>3
<1>7. running[q] = beside + all
  BY DEF WidthInv, Accounts
<1>8. Word > 2 * MaxOthers + m + 2 + 2 * MaxCPUs /\ MaxOthers \in Nat /\ Word \in Nat
  BY Bounds DEF Roomy, Crowd
<1> HIDE DEF all, m
<1>9. running[q] \in 0 .. Word - 1
  <2> HIDE DEF beside
  <2> QED BY <1>2, <1>3, <1>4, <1>6, <1>7, <1>8
<1>10. running[q] - Share(q) * readers[q] - Drain(q) = all
  BY <1>3, <1>5, <1>6, <1>7
<1> QED BY <1>3, <1>9, <1>10

\* The drains and readers beside the calls.
LEMMA BesideStep ==
    ASSUME WidthInv, IInv', UNCHANGED <<call, record, locals, pc>>, Beside',
           \A q \in Queues : running'[q] - Share(q) * readers'[q] - Drain(q)'
                                 = running[q] - Share(q) * readers[q] - Drain(q)
    PROVE  WidthInv'
<1>1. \A d \in Callers : Aside(d)
  BY DEF Aside, locals, record
<1>2. /\ \A d \in Callers : Reserving(d)'
      /\ \A d \in Callers : \A q \in Queues : Part(d, q)' = Part(d, q)
  BY <1>1, ReservingStays DEF WidthInv
<1>3. ASSUME NEW q \in Queues
      PROVE  running'[q] = Share(q) * readers'[q] + Drain(q)' + Total(Callers, PartOf(q)')
  <2>1. PartOf(q)' = PartOf(q)
    BY <1>2 DEF PartOf
  <2>2. running[q] = Share(q) * readers[q] + Drain(q) + Total(Callers, PartOf(q))
    BY DEF WidthInv, Accounts
  <2>3. Total(Callers, PartOf(q)) \in Nat
    <3>1. \A d \in Callers : PartOf(q)[d] \in 0 .. 2 * MaxCPUs
      BY PartTyped DEF WidthInv
    <3> QED BY <3>1, Bounds, TotalBound
  <2>4. /\ readers[q] \in Nat /\ readers'[q] \in Nat
        /\ Drain(q) \in Int /\ Drain(q)' \in Int /\ running'[q] \in Int
    BY DEF WidthInv, Beside, Drain, IInv, Types
  <2>5. Share(q) * readers[q] \in Int /\ Share(q) * readers'[q] \in Int
    <3>1. Share(q) = 1 \/ Share(q) = 2
      BY Bounds
    <3> QED BY <2>4, <3>1
  <2>6. running'[q] - Share(q) * readers'[q] - Drain(q)'
            = running[q] - Share(q) * readers[q] - Drain(q)
    OBVIOUS
  <2> DEFINE x == Share(q) * readers[q]
             y == Share(q) * readers'[q]
  <2> HIDE DEF x, y
  <2> QED BY <2>1, <2>2, <2>3, <2>4, <2>5, <2>6 DEF x, y
<1>4. Accounts'
  BY <1>3 DEF Accounts, Share
<1> QED BY <1>2, <1>4 DEF WidthInv

LEMMA BesideSteps ==
    ASSUME WidthInv, Roomy, IInv', NEW q \in Queues,
           DrainBegins(q) \/ DrainEnds(q) \/ ReaderEnters(q) \/ ReaderLeaves(q)
    PROVE  WidthInv'
<1> USE DEF Drain
<1>1. /\ readers \in [Queues -> Nat] /\ draining \in [Queues -> BOOLEAN]
      /\ others \in Nat /\ MaxOthers \in Nat /\ others <= MaxOthers
      /\ \A r \in Queues : readers[r] \in Nat /\ readers[r] + Drain(r) <= others
  BY Bounds DEF WidthInv, Beside
<1>2. running \in [Queues -> Int] /\ \A r \in Queues : running[r] \in Int
  BY DEF WidthInv, IInv, Types
<1>3. Share(q) = 1 \/ Share(q) = 2
  BY Bounds
<1>4. running[q] \in 0 .. Word - 1 /\ running[q] - Share(q) * readers[q] - Drain(q) \in Nat
  BY LessThanWord
<1>5. CASE DrainBegins(q)
  <2>1. ~draining[q]
    BY <1>1, <1>2, <1>3, <1>4, <1>5 DEF DrainBegins
  <2>2. Beside'
    BY <1>1, <1>5, <2>1 DEF DrainBegins, Beside
  <2>3. \A r \in Queues : running'[r] - Share(r) * readers'[r] - Drain(r)'
                              = running[r] - Share(r) * readers[r] - Drain(r)
    <3>1. \A r \in Queues : readers'[r] = readers[r]
          /\ running'[r] - Drain(r)' = running[r] - Drain(r)
      BY <1>1, <1>2, <1>5, <2>1 DEF DrainBegins
    <3>2. \A r \in Queues : Share(r) * readers[r] \in Int /\ Drain(r) \in Int
          /\ Drain(r)' \in Int /\ running'[r] \in Int
      <4>1. \A r \in Queues : Share(r) * readers[r] \in Int
        BY <1>1, Shares
      <4> QED BY <4>1 DEF IInv, Types
    <3> QED BY <1>2, <3>1, <3>2
  <2> QED BY <1>5, <2>2, <2>3, BesideStep DEF DrainBegins
<1>6. CASE DrainEnds(q)
  <2>1. Beside'
    BY <1>1, <1>6 DEF DrainEnds, Beside
  <2>2. \A r \in Queues : running'[r] - Share(r) * readers'[r] - Drain(r)'
                              = running[r] - Share(r) * readers[r] - Drain(r)
    <3>1. \A r \in Queues : readers'[r] = readers[r]
          /\ running'[r] - Drain(r)' = running[r] - Drain(r)
      BY <1>1, <1>2, <1>6 DEF DrainEnds
    <3>2. \A r \in Queues : Share(r) * readers[r] \in Int /\ Drain(r) \in Int
          /\ Drain(r)' \in Int /\ running'[r] \in Int
      <4>1. \A r \in Queues : Share(r) * readers[r] \in Int
        BY <1>1, Shares
      <4> QED BY <4>1 DEF IInv, Types
    <3> QED BY <1>2, <3>1, <3>2
  <2> QED BY <1>6, <2>1, <2>2, BesideStep DEF DrainEnds
<1>7. CASE ReaderEnters(q)
  <2>1. Beside'
    BY <1>1, <1>7 DEF ReaderEnters, Beside
  <2>2. \A r \in Queues : running'[r] - Share(r) * readers'[r] - Drain(r)'
                              = running[r] - Share(r) * readers[r] - Drain(r)
    <3>1. running'[q] = running[q] + Share(q) /\ readers'[q] = readers[q] + 1
      BY <1>1, <1>2, <1>7 DEF ReaderEnters
    <3>2. running'[q] - Share(q) * readers'[q] = running[q] - Share(q) * readers[q]
      BY <1>1, <1>2, <1>3, <3>1
    <3>3. \A r \in Queues \ {q} : running'[r] = running[r] /\ readers'[r] = readers[r]
      BY <1>1, <1>2, <1>7 DEF ReaderEnters
    <3>4. \A r \in Queues : Drain(r)' = Drain(r)
      BY <1>7 DEF ReaderEnters
    <3> QED BY <3>2, <3>3, <3>4
  <2> QED BY <1>7, <2>1, <2>2, BesideStep DEF ReaderEnters
<1>8. CASE ReaderLeaves(q)
  <2>1. Beside'
    BY <1>1, <1>8 DEF ReaderLeaves, Beside
  <2>2. running[q] - Share(q) \in 0 .. Word - 1
    <3>1. readers[q] > 0 /\ readers[q] \in Nat /\ Drain(q) \in Nat
      BY <1>1, <1>8 DEF ReaderLeaves
    <3>2. Share(q) * readers[q] \in Nat /\ Share(q) <= Share(q) * readers[q]
      BY <3>1, Shares
    <3>3. Share(q) \in Nat /\ Word \in Nat
      BY <1>3, Bounds
    <3> HIDE DEF Drain
    <3> QED BY <1>4, <3>1, <3>2, <3>3
  <2>3. running'[q] = running[q] - Share(q) /\ readers'[q] = readers[q] - 1
    BY <1>1, <1>2, <1>8, <2>2, NoWrap DEF ReaderLeaves
  <2>4. \A r \in Queues : running'[r] - Share(r) * readers'[r] - Drain(r)'
                              = running[r] - Share(r) * readers[r] - Drain(r)
    <3>2. running'[q] - Share(q) * readers'[q] = running[q] - Share(q) * readers[q]
      BY <1>1, <1>2, <1>3, <2>3
    <3>3. \A r \in Queues \ {q} : running'[r] = running[r] /\ readers'[r] = readers[r]
      BY <1>1, <1>2, <1>8 DEF ReaderLeaves
    <3>4. \A r \in Queues : Drain(r)' = Drain(r)
      BY <1>8 DEF ReaderLeaves
    <3> QED BY <3>2, <3>3, <3>4
  <2> QED BY <1>8, <2>1, <2>4, BesideStep DEF ReaderLeaves
<1> QED BY <1>5, <1>6, <1>7, <1>8

\* A step of caller c alone that keeps the record's count of threads.
Moves(c) == /\ UNCHANGED <<call, draining, readers, others>>
            /\ \A d \in Callers \ {c} : pc'[d] = pc[d]
            /\ \A d \in Callers \ {c} : thr'[d] = thr[d]
            /\ \A d \in Callers \ {c} :
                   /\ width'[d] = width[d] /\ excess'[d] = excess[d]
                   /\ lv'[d] = lv[d] /\ back'[d] = back[d]

LEMMA MoveStep ==
    ASSUME WidthInv, IInv', NEW c \in Callers, Moves(c), Reserving(c)',
           \A q \in Queues : running'[q] = running[q] - Part(c, q) + Part(c, q)'
    PROVE  WidthInv'
<1>1. \A d \in Callers \ {c} : Aside(d)
  BY DEF Moves, Aside
<1> QED BY <1>1, ReservationStep DEF Moves

\* The numbers of a call at hand.
LEMMA CallTyped ==
    ASSUME WidthInv, NEW c \in Callers
    PROVE  /\ width[c] \in Nat /\ excess[c] \in Nat /\ lv[c] \in Int /\ back[c] \in Int
           /\ thr[c] \in Int /\ first[c] \in 1 .. Root /\ width[c] <= 2 * (MaxCPUs - 1)
           /\ excess[c] <= width[c] /\ Reserving(c) /\ c \in Procs
           /\ pc \in [Procs -> Points] /\ width \in [Callers -> Int]
           /\ excess \in [Callers -> Int] /\ lv \in [Callers -> Int]
           /\ back \in [Callers -> Int] /\ thr \in [Callers -> Int]
           /\ running \in [Queues -> Int] /\ \A q \in Queues : running[q] \in Int
<1>1. Types /\ Reserving(c) /\ c \in Procs
  BY Records DEF WidthInv, IInv
<1>2. width[c] \in 0 .. 2 * (MaxCPUs - 1) /\ excess[c] \in 0 .. width[c] /\ MaxCPUs \in Nat
  BY <1>1, Bounds DEF Reserving
<1>3. width[c] \in Nat /\ excess[c] \in Nat /\ width[c] <= 2 * (MaxCPUs - 1)
      /\ excess[c] <= width[c]
  BY <1>2
<1> QED BY <1>1, <1>3 DEF Types
\* Steps that leave dq_running alone.
LEMMA QuietStep ==
    ASSUME WidthInv, IInv', NEW c \in Callers, Moves(c), UNCHANGED running,
           Reserving(c)', \A q \in Queues : Part(c, q)' = Part(c, q)
    PROVE  WidthInv'
<1>1. \A q \in Queues : running[q] \in Int /\ Part(c, q) \in Int
  BY CallTyped, PartTyped, Bounds DEF WidthInv
<1> QED BY <1>1, MoveStep

\* Steps that add x to dq_running of q.
LEMMA AddStep ==
    ASSUME WidthInv, IInv', NEW c \in Callers, Moves(c), Reserving(c)',
           NEW q \in Queues, NEW x \in Int,
           \A r \in Queues : running'[r] = IF r = q THEN running[r] + x ELSE running[r],
           \A r \in Queues : Part(c, r)' = IF r = q THEN Part(c, r) + x ELSE Part(c, r)
    PROVE  WidthInv'
<1>1. \A r \in Queues : running[r] \in Int /\ Part(c, r) \in Int
  BY CallTyped, PartTyped, Bounds DEF WidthInv
<1>2. \A r \in Queues : running'[r] = running[r] - Part(c, r) + Part(c, r)'
  BY <1>1
<1> QED BY <1>2, MoveStep

LEMMA StartReserves ==
    ASSUME WidthInv, IInv', NEW c \in Callers, Start(c)
    PROVE  WidthInv'
<1>1. Moves(c) /\ UNCHANGED <<running, thr, width, excess, lv, back, first>>
  BY DEF Start, Moves, Goto, queue, call, record, locals
<1>2. pc[c] = "idle"
      /\ pc'[c] = IF first[c] # Root THEN "enter" ELSE IF Serial(c) THEN "serial" ELSE "f2"
  BY CallTyped DEF Start, Goto
<1>3. thr[c] \in 1 .. MaxCPUs /\ lv[c] = first[c] /\ width[c] = 0 /\ excess[c] = 0
      /\ first[c] \in 1 .. Root
  BY <1>2, CallTyped DEF Reserving, ReservePoints, Holding, InvokePoints
<1>4. first[c] # Root => first[c] \in Queues
  BY <1>3, Bounds
<1>5. ~Serial(c) => thr[c] >= 2
  BY <1>3, Bounds DEF Serial
<1>6. Reserving(c)'
  BY <1>1, <1>2, <1>3, <1>4, <1>5, Bounds
     DEF Reserving, ReservePoints, Holding, InvokePoints, OnChain
<1>7. \A q \in Queues : Part(c, q)' = Part(c, q)
  BY <1>1, <1>2, <1>3, Bounds DEF Part, InQueue, Widened, Share
<1> QED BY <1>1, <1>6, <1>7, QuietStep

\* The counter of the queue at hand, and what is left of it.
LEMMA QueueAtHand ==
    ASSUME WidthInv, Roomy, NEW c \in Callers, NEW q \in Queues
    PROVE  /\ running[q] \in 0 .. Word - 1 /\ Part(c, q) \in 0 .. 2 * MaxCPUs
           /\ running[q] - Part(c, q) \in 0 .. Crowd - 2
           /\ Share(q) \in 1 .. 2 /\ q \in Nat
           /\ Word \in Nat /\ Word > Crowd + 2 * MaxCPUs /\ Crowd \in Int /\ MaxCPUs \in Nat
           /\ Width[q] = 1 \/ Width[q] >= Crowd
           /\ Width[q] \in Nat \ {0}
BY LessThanWord, RoomFor, PartTyped, Bounds DEF WidthInv, Roomy

LEMMA EnterReserves ==
    ASSUME WidthInv, IInv', NEW c \in Callers, Enter(c)
    PROVE  WidthInv'
<1> DEFINE q == lv[c]
<1>1. pc[c] = "enter"
  BY DEF Enter
<1>2. /\ thr[c] \in 1 .. MaxCPUs /\ width[c] = 0 /\ excess[c] = 0
      /\ first[c] \in Queues /\ q \in first[c] .. Root - 1
  BY <1>1, CallTyped DEF Reserving, ReservePoints, Holding, InvokePoints, OnChain
<1>3. q \in Queues /\ first[c] # Root /\ first[c] \in Nat /\ q \in Nat /\ Root \in Nat
  BY <1>2, Bounds
<1>4. /\ running' = [running EXCEPT ![q] = @ + Share(q)]
      /\ UNCHANGED <<call, draining, readers, others, record, excess, back>>
      /\ IF q + 1 < Root
         THEN lv' = [lv EXCEPT ![c] = q + 1] /\ pc' = pc /\ width' = width
         ELSE /\ lv' = [lv EXCEPT ![c] = first[c]]
              /\ pc' = [pc EXCEPT ![c] = IF Serial(c) THEN "serial" ELSE "reserve"]
              /\ width' = [width EXCEPT ![c] = IF Serial(c) THEN 0 ELSE 2 * (thr[c] - 1)]
  BY DEF Enter, Set, Goto
<1>5. Moves(c)
  BY <1>4, CallTyped DEF Moves, record
<1>6. \A r \in Queues : running'[r] = IF r = q THEN running[r] + Share(q) ELSE running[r]
  BY <1>3, <1>4, CallTyped
<1>7. thr'[c] = thr[c] /\ excess'[c] = 0 /\ first'[c] = first[c] /\ back' = back
  BY <1>2, <1>4 DEF record, call
<1>10. Share(q) \in Int
  BY <1>3, Bounds
<1>8. CASE q + 1 < Root
  <2>1. lv'[c] = q + 1 /\ pc'[c] = "enter" /\ width'[c] = 0
    BY <1>1, <1>2, <1>4, <1>8, CallTyped
  <2>2. Reserving(c)'
    BY <1>2, <1>3, <1>7, <1>8, <2>1, Bounds
       DEF Reserving, ReservePoints, Holding, InvokePoints, OnChain
  <2>3. \A r \in Queues : Part(c, r)' = IF r = q THEN Part(c, r) + Share(q) ELSE Part(c, r)
    BY <1>1, <1>2, <1>3, <1>7, <2>1, Bounds DEF Part, InQueue, Widened, Share
  <2> QED BY <1>3, <1>5, <1>6, <1>10, <2>2, <2>3, AddStep
<1>9. CASE ~(q + 1 < Root)
  <2>1. /\ lv'[c] = first[c] /\ q = Root - 1
        /\ IF Serial(c) THEN pc'[c] = "serial" /\ width'[c] = 0
           ELSE pc'[c] = "reserve" /\ width'[c] = 2 * (thr[c] - 1)
    BY <1>2, <1>3, <1>4, <1>9, CallTyped
  <2>2. ~Serial(c) => thr[c] >= 2
    BY <1>2, Bounds DEF Serial
  <2>3. Reserving(c)'
    BY <1>2, <1>3, <1>7, <2>1, <2>2, Bounds
       DEF Reserving, ReservePoints, Holding, InvokePoints, OnChain
  <2>4. \A r \in Queues : Part(c, r)' = IF r = q THEN Part(c, r) + Share(q) ELSE Part(c, r)
    BY <1>1, <1>2, <1>3, <1>7, <2>1, Bounds DEF Part, InQueue, Widened, Share
  <2> QED BY <1>3, <1>5, <1>6, <1>10, <2>3, <2>4, AddStep
<1> QED BY <1>8, <1>9

LEMMA ExitReserves ==
    ASSUME WidthInv, IInv', NEW c \in Callers, Exit(c)
    PROVE  WidthInv'
<1> DEFINE q == lv[c]
<1>1. pc[c] = "exit"
  BY DEF Exit
<1>2. /\ width[c] = 0 /\ excess[c] = 0
      /\ first[c] \in Queues /\ q \in first[c] .. Root - 1
  BY <1>1, CallTyped DEF Reserving, ReservePoints, Holding, InvokePoints, OnChain
<1>3. q \in Queues /\ first[c] # Root /\ first[c] \in Nat /\ q \in Nat /\ Root \in Nat
  BY <1>2, Bounds
<1>4. /\ running' = [running EXCEPT ![q] = @ - Share(q)]
      /\ UNCHANGED <<call, draining, readers, others, record, width, excess, back>>
      /\ IF q > first[c] THEN lv' = [lv EXCEPT ![c] = q - 1] /\ pc' = pc
                         ELSE pc' = [pc EXCEPT ![c] = "done"] /\ lv' = lv
  BY DEF Exit, Set, Goto
<1>5. Moves(c)
  BY <1>4, CallTyped DEF Moves, record
<1>6. \A r \in Queues : running'[r] = IF r = q THEN running[r] + (-Share(q)) ELSE running[r]
  BY <1>3, <1>4, CallTyped
<1>7. thr'[c] = thr[c] /\ excess'[c] = 0 /\ width'[c] = 0 /\ first'[c] = first[c]
      /\ back' = back
  BY <1>2, <1>4 DEF record, call
<1>8. IF q > first[c] THEN lv'[c] = q - 1 /\ pc'[c] = "exit" ELSE pc'[c] = "done"
  BY <1>1, <1>4, CallTyped
<1>9. Reserving(c)'
  BY <1>2, <1>3, <1>7, <1>8, Bounds
     DEF Reserving, ReservePoints, Holding, InvokePoints, OnChain
<1>10. \A r \in Queues : Part(c, r)' = IF r = q THEN Part(c, r) + (-Share(q)) ELSE Part(c, r)
  BY <1>1, <1>2, <1>3, <1>7, <1>8, Bounds DEF Part, InQueue, Widened, Share
<1>11. -Share(q) \in Int
  BY <1>3, Bounds
<1> QED BY <1>3, <1>5, <1>6, <1>9, <1>10, <1>11, AddStep

\* With nothing reserved, the serial loop goes on or leaves.
LEMMA SerialReserves ==
    ASSUME WidthInv, IInv', NEW c \in Callers, ApplySerial(c)
    PROVE  WidthInv'
<1>1. pc[c] = "serial"
  BY DEF ApplySerial
<1>2. width[c] = 0 /\ excess[c] = 0 /\ first[c] \in 1 .. Root
  BY <1>1, CallTyped DEF Reserving, ReservePoints, Holding, InvokePoints
<1>3. /\ UNCHANGED <<queue, call, thr, width, excess, back>>
      /\ \/ pc' = pc /\ lv' = lv
         \/ /\ pc' = [pc EXCEPT ![c] = IF first[c] = Root THEN "done" ELSE "exit"]
            /\ lv' = [lv EXCEPT ![c] = Root - 1]
  BY DEF ApplySerial, Leave, Set, Goto
<1>4. Moves(c) /\ UNCHANGED running
  BY <1>3, CallTyped DEF Moves, queue
<1>5. width'[c] = 0 /\ excess'[c] = 0 /\ first'[c] = first[c] /\ thr'[c] = thr[c]
  BY <1>2, <1>3 DEF call
<1>6. \/ pc'[c] = "serial"
      \/ first[c] = Root /\ pc'[c] = "done"
      \/ first[c] # Root /\ pc'[c] = "exit" /\ lv'[c] = Root - 1
  BY <1>1, <1>3, CallTyped
<1>7. Reserving(c)'
  BY <1>2, <1>5, <1>6, Bounds DEF Reserving, ReservePoints, Holding, InvokePoints, OnChain
<1>8. \A r \in Queues : Part(c, r)' = Part(c, r)
  BY <1>1, <1>2, <1>3, <1>5, <1>6, Bounds DEF Part, InQueue, Widened, Share
<1> QED BY <1>4, <1>7, <1>8, QuietStep

\* Where the width has room, no more than was added is in excess.
LEMMA ReserveReserves ==
    ASSUME WidthInv, Roomy, IInv', NEW c \in Callers, Reserve(c)
    PROVE  WidthInv'
<1> DEFINE q == lv[c]
           new == running[q] + width[c]
<1>1. pc[c] = "reserve"
  BY DEF Reserve
<1>2. /\ thr[c] \in 2 .. MaxCPUs /\ width[c] \in 1 .. 2 * (thr[c] - 1) /\ excess[c] = 0
      /\ first[c] \in Queues /\ q \in first[c] .. Root - 1
      /\ width[c] \in 0 .. 2 * (MaxCPUs - 1)
  BY <1>1, CallTyped DEF Reserving, ReservePoints, Holding, InvokePoints, OnChain
<1>3. q \in Queues /\ first[c] # Root /\ first[c] \in Nat /\ q \in Nat /\ Root \in Nat
  BY <1>2, Bounds
<1>4. /\ running[q] \in 0 .. Word - 1 /\ running[q] - Part(c, q) \in 0 .. Crowd - 2
      /\ Share(q) \in 1 .. 2 /\ Word \in Nat /\ Word > Crowd + 2 * MaxCPUs /\ Crowd \in Int
      /\ Width[q] = 1 \/ Width[q] >= Crowd
      /\ Width[q] \in Nat \ {0}
  BY <1>3, QueueAtHand
<1>5. Part(c, q) = Share(q)
  BY <1>1, <1>2, <1>3, <1>4 DEF Part, InQueue, Widened
<1>6. running[q] \in 1 .. Crowd
  BY <1>4, <1>5
<1>7. new \in 0 .. Word - 1
  <2>1. width[c] \in Nat /\ width[c] <= 2 * MaxCPUs /\ MaxCPUs \in Nat
    BY <1>2, Bounds
  <2> QED BY <1>4, <1>6, <2>1
<1>8. new % Word = new
  <2> HIDE DEF new
  <2> QED BY <1>7, NoWrap
<1>9. /\ running' = [running EXCEPT ![q] = new]
      /\ UNCHANGED <<call, draining, readers, others, record, width, lv>>
      /\ IF new > Width[q]
         THEN /\ excess' = [excess EXCEPT ![c] =
                                IF Width[q] > 1 THEN new - Width[q] ELSE width[c]]
              /\ back' = [back EXCEPT ![c] = first[c]]
              /\ pc' = [pc EXCEPT ![c] = "undo"]
         ELSE pc' = [pc EXCEPT ![c] = "next"] /\ UNCHANGED <<excess, back>>
  BY <1>8 DEF Reserve, Set, Goto
<1>10. Moves(c)
  BY <1>9, CallTyped DEF Moves, record
<1>11. \A r \in Queues : running'[r] = IF r = q THEN running[r] + width[c] ELSE running[r]
  BY <1>3, <1>9, CallTyped
<1>12. /\ thr'[c] = thr[c] /\ width'[c] = width[c] /\ lv'[c] = lv[c] /\ first'[c] = first[c]
       /\ UNCHANGED call
  BY <1>9 DEF record, call
<1>13. \/ /\ pc'[c] = "undo" /\ back'[c] = first[c]
          /\ excess'[c] = IF Width[q] > 1 THEN new - Width[q] ELSE width[c]
          /\ new > Width[q]
       \/ pc'[c] = "next" /\ excess'[c] = 0
  BY <1>2, <1>9, CallTyped
<1>14. excess'[c] \in 0 .. width[c]
  BY <1>2, <1>4, <1>6, <1>13
<1> HIDE DEF new
<1>15. Reserving(c)'
  <2>1. CASE pc'[c] = "undo"
    BY <1>2, <1>3, <1>12, <1>13, <1>14, <2>1
       DEF Reserving, ReservePoints, Holding, InvokePoints, OnChain
  <2>2. CASE pc'[c] = "next"
    BY <1>2, <1>3, <1>12, <1>13, <1>14, <2>2
       DEF Reserving, ReservePoints, Holding, InvokePoints, OnChain
  <2> QED BY <1>13, <2>1, <2>2
<1>16. ASSUME NEW r \in Queues
       PROVE  Part(c, r)' = IF r = q THEN Part(c, r) + width[c] ELSE Part(c, r)
  <2>1. r \in Nat /\ Share(r) \in Int /\ Share(r)' = Share(r) /\ width[c] \in Int
    BY <1>2, Bounds DEF Share
  <2>2. InQueue(c, r)' <=> InQueue(c, r)
    BY <1>1, <1>12, <1>13 DEF InQueue
  <2>3. (Widened(c, r)' <=> (Widened(c, r) \/ r = q)) /\ (Widened(c, r) => r # q)
    BY <1>1, <1>2, <1>3, <1>12, <1>13, <2>1 DEF Widened
  <2>4. Widened(c, r)' => (IF r < back'[c] THEN excess'[c] ELSE 0) = 0
    BY <1>2, <1>3, <1>12, <1>13, <2>1 DEF Widened
  <2>5. (IF r < back[c] THEN excess[c] ELSE 0) = 0
    BY <1>2
  <2> QED BY <1>12, <2>1, <2>2, <2>3, <2>4, <2>5 DEF Part
<1>17. width[c] \in Int
  BY <1>2
<1> QED BY <1>3, <1>10, <1>11, <1>15, <1>16, <1>17, AddStep

LEMMA UndoReserves ==
    ASSUME WidthInv, Roomy, IInv', NEW c \in Callers, Undo(c)
    PROVE  WidthInv'
<1> DEFINE q == back[c]
<1>1. pc[c] = "undo"
  BY DEF Undo
<1>2. /\ thr[c] \in 2 .. MaxCPUs /\ width[c] \in 1 .. 2 * (thr[c] - 1)
      /\ excess[c] \in 0 .. width[c]
      /\ first[c] \in Queues /\ lv[c] \in first[c] .. Root - 1 /\ q \in first[c] .. lv[c]
      /\ width[c] \in 0 .. 2 * (MaxCPUs - 1)
  BY <1>1, CallTyped DEF Reserving, ReservePoints, Holding, InvokePoints, OnChain
<1>3. q \in Queues /\ first[c] # Root /\ first[c] \in Nat /\ q \in Nat /\ Root \in Nat
      /\ lv[c] \in Nat /\ lv[c] < Root
  <2>1. Root \in Nat /\ Queues = 1 .. Root - 1
    BY Bounds
  <2> QED BY <1>2, <2>1
<1>4. /\ running[q] \in 0 .. Word - 1 /\ running[q] - Part(c, q) \in Nat
      /\ Share(q) \in 1 .. 2 /\ Word \in Nat
  BY <1>3, QueueAtHand
<1>5. Part(c, q) = Share(q) + width[c]
  BY <1>1, <1>2, <1>3, <1>4 DEF Part, InQueue, Widened
<1>6. running[q] - excess[c] \in 0 .. Word - 1
  BY <1>2, <1>4, <1>5
<1>7. (running[q] - excess[c]) % Word = running[q] - excess[c]
  BY <1>6, NoWrap
<1>8. /\ running' = [running EXCEPT ![q] = running[q] - excess[c]]
      /\ UNCHANGED <<call, draining, readers, others, record, width, excess, lv>>
      /\ IF q = lv[c] THEN pc' = [pc EXCEPT ![c] = "adjust"] /\ back' = [back EXCEPT ![c] = Root]
                      ELSE back' = [back EXCEPT ![c] = q + 1] /\ pc' = pc
  BY <1>7 DEF Undo, Set, Goto
<1>9. Moves(c)
  BY <1>8, CallTyped DEF Moves, record
<1>10. \A r \in Queues : running'[r] = IF r = q THEN running[r] + (-excess[c]) ELSE running[r]
  BY <1>3, <1>8, CallTyped
<1>11. /\ thr'[c] = thr[c] /\ width'[c] = width[c] /\ lv'[c] = lv[c] /\ first'[c] = first[c]
       /\ excess'[c] = excess[c] /\ UNCHANGED call
  BY <1>8 DEF record, call
<1>12. \/ pc'[c] = "adjust" /\ back'[c] = Root /\ q = lv[c]
       \/ pc'[c] = "undo" /\ back'[c] = q + 1 /\ q < lv[c]
  BY <1>1, <1>2, <1>3, <1>8, CallTyped
<1>13. Reserving(c)'
  <2>1. CASE pc'[c] = "undo"
    BY <1>2, <1>3, <1>11, <1>12, <2>1
       DEF Reserving, ReservePoints, Holding, InvokePoints, OnChain
  <2>2. CASE pc'[c] = "adjust"
    BY <1>2, <1>3, <1>11, <1>12, <2>2
       DEF Reserving, ReservePoints, Holding, InvokePoints, OnChain
  <2> QED BY <1>12, <2>1, <2>2
<1>14. ASSUME NEW r \in Queues
       PROVE  Part(c, r)' = IF r = q THEN Part(c, r) + (-excess[c]) ELSE Part(c, r)
  <2>1. /\ r \in Nat /\ Share(r) \in Int /\ Share(r)' = Share(r) /\ width[c] \in Int
        /\ excess[c] \in Int /\ r < Root
    BY <1>2, Bounds DEF Share
  <2>2. InQueue(c, r)' <=> InQueue(c, r)
    BY <1>1, <1>11, <1>12 DEF InQueue
  <2>3. (Widened(c, r)' <=> Widened(c, r)) /\ Widened(c, q) /\ (Widened(c, r) => r <= lv[c])
    BY <1>1, <1>2, <1>3, <1>11, <1>12, <2>1 DEF Widened
  <2>4. Widened(c, r) => (r < back'[c] <=> (r < q \/ r = q))
    BY <1>2, <1>3, <1>12, <2>1, <2>3
  <2>5. CASE Widened(c, r)
    BY <1>11, <1>3, <2>1, <2>2, <2>3, <2>4, <2>5 DEF Part
  <2>6. CASE ~Widened(c, r)
    BY <1>11, <2>1, <2>2, <2>3, <2>6 DEF Part
  <2> QED BY <2>5, <2>6
<1>15. -excess[c] \in Int
  BY <1>2
<1> QED BY <1>3, <1>9, <1>10, <1>13, <1>14, <1>15, AddStep

LEMMA AdjustReserves ==
    ASSUME WidthInv, Roomy, IInv', NEW c \in Callers, Adjust(c)
    PROVE  WidthInv'
<1> DEFINE w == width[c] - excess[c]
           n == thr[c] - excess[c] \div 2
<1>1. pc[c] = "adjust"
  BY DEF Adjust
<1>2. /\ thr[c] \in 2 .. MaxCPUs /\ width[c] \in 1 .. 2 * (thr[c] - 1)
      /\ excess[c] \in 0 .. width[c] /\ back[c] > lv[c] /\ back[c] \in Int
      /\ first[c] \in Queues /\ lv[c] \in first[c] .. Root - 1
      /\ width[c] \in 0 .. 2 * (MaxCPUs - 1)
  BY <1>1, CallTyped DEF Reserving, ReservePoints, Holding, InvokePoints, OnChain
<1>3. /\ first[c] # Root /\ first[c] \in Nat /\ Root \in Nat /\ lv[c] \in Nat
      /\ MaxCPUs \in Nat /\ Word \in Nat /\ Word > 2 * MaxCPUs
  BY <1>2, Bounds
<1>4. w \in 0 .. 2 * (MaxCPUs - 1) /\ w \in 0 .. Word - 1
  BY <1>2, <1>3
<1>5. /\ n \in 1 .. MaxCPUs /\ n \in 0 .. Word - 1
      /\ w > 0 => n >= 2 /\ w <= 2 * (n - 1)
  <2>1. excess[c] \div 2 \in Nat /\ 2 * (excess[c] \div 2) <= excess[c] /\ excess[c] \in Nat
    BY <1>2
  <2> QED BY <1>2, <1>3, <2>1
<1>6. w % Word = w /\ n % Word = n
  <2> HIDE DEF w, n
  <2> QED BY <1>4, <1>5, NoWrap
<1>7. /\ width' = [width EXCEPT ![c] = w] /\ excess' = [excess EXCEPT ![c] = 0]
      /\ IF width'[c] = 0 THEN pc' = [pc EXCEPT ![c] = "serial"] /\ thr' = thr
         ELSE pc' = [pc EXCEPT ![c] = "next"] /\ thr' = [thr EXCEPT ![c] = n]
      /\ UNCHANGED <<queue, call, lv, back>>
  BY <1>6 DEF Adjust, Set, Goto
<1>8. Moves(c) /\ UNCHANGED running
  BY <1>7, CallTyped DEF Moves, queue
<1>9. /\ width'[c] = w /\ excess'[c] = 0 /\ lv'[c] = lv[c] /\ first'[c] = first[c]
      /\ back'[c] = back[c]
      /\ \/ w = 0 /\ pc'[c] = "serial"
         \/ w > 0 /\ pc'[c] = "next" /\ thr'[c] = n
  BY <1>4, <1>7, CallTyped DEF call
<1> HIDE DEF n
<1>10. Reserving(c)'
  <2> HIDE DEF w
  <2> QED BY <1>2, <1>3, <1>4, <1>5, <1>9
          DEF Reserving, ReservePoints, Holding, InvokePoints, OnChain
<1>11. \A r \in Queues : Part(c, r)' = Part(c, r)
  <2> SUFFICES ASSUME NEW r \in Queues PROVE Part(c, r)' = Part(c, r)
    OBVIOUS
  <2>1. r \in Nat /\ Share(r) \in Int /\ Share(r)' = Share(r)
    BY <1>7, Bounds DEF Share
  <2>2. InQueue(c, r)' <=> InQueue(c, r)
    BY <1>1, <1>9 DEF InQueue
  <2>3. Widened(c, r) => r < back[c] /\ Widened(c, r)'
    BY <1>1, <1>2, <1>3, <1>9, <2>1 DEF Widened
  <2>4. Widened(c, r)' => Widened(c, r) \/ width'[c] = 0
    BY <1>1, <1>2, <1>3, <1>9, <2>1 DEF Widened
  <2>5. (IF r < back'[c] THEN excess'[c] ELSE 0) = 0 /\ width'[c] = width[c] - excess[c]
    BY <1>9
  <2>6. width'[c] \in Int
    BY <1>4, <2>5
  <2> QED BY <2>1, <2>2, <2>3, <2>4, <2>5, <2>6 DEF Part
<1> QED BY <1>8, <1>10, <1>11, QuietStep

LEMMA NextQueueReserves ==
    ASSUME WidthInv, IInv', NEW c \in Callers, NextQueue(c)
    PROVE  WidthInv'
<1>1. pc[c] = "next"
  BY DEF NextQueue, Move
<1>2. /\ thr[c] \in 2 .. MaxCPUs /\ width[c] \in 1 .. 2 * (thr[c] - 1)
      /\ excess[c] = 0 /\ width[c] \in 0 .. 2 * (MaxCPUs - 1)
      /\ first[c] \in Queues /\ lv[c] \in first[c] .. Root - 1
  BY <1>1, CallTyped DEF Reserving, ReservePoints, Holding, InvokePoints, OnChain
<1>3. first[c] # Root /\ first[c] \in Nat /\ Root \in Nat /\ lv[c] \in Nat /\ lv[c] < Root
  BY <1>2, Bounds
<1>4. /\ pc' = [pc EXCEPT ![c] = IF lv[c] + 1 < Root THEN "reserve" ELSE "f2"]
      /\ lv' = [lv EXCEPT ![c] = IF lv[c] + 1 < Root THEN lv[c] + 1 ELSE first[c]]
      /\ UNCHANGED <<queue, call, record, width, excess, back>>
  BY DEF NextQueue, Move, Goto, Set
<1>5. Moves(c) /\ UNCHANGED running
  BY <1>4, CallTyped DEF Moves, queue, record
<1>6. /\ width'[c] = width[c] /\ excess'[c] = 0 /\ first'[c] = first[c] /\ thr'[c] = thr[c]
      /\ back'[c] = back[c]
      /\ IF lv[c] + 1 < Root THEN pc'[c] = "reserve" /\ lv'[c] = lv[c] + 1
                             ELSE pc'[c] = "f2" /\ lv'[c] = first[c]
  BY <1>2, <1>4, CallTyped DEF call, record
<1>7. Reserving(c)'
  <2>1. CASE lv[c] + 1 < Root
    <3>1. pc'[c] = "reserve" /\ lv'[c] = lv[c] + 1 /\ lv'[c] \in first'[c] .. Root - 1
      BY <1>2, <1>3, <1>6, <2>1
    <3>2. /\ width'[c] \in 0 .. 2 * (MaxCPUs - 1) /\ excess'[c] = 0 /\ 0 \in 0 .. width'[c]
          /\ thr'[c] \in 2 .. MaxCPUs /\ width'[c] \in 1 .. 2 * (thr'[c] - 1)
          /\ first'[c] \in Queues /\ first'[c] # Root
      BY <1>2, <1>3, <1>6
    <3> QED BY <3>1, <3>2 DEF Reserving, ReservePoints, Holding, InvokePoints, OnChain
  <2>2. CASE ~(lv[c] + 1 < Root)
    BY <1>2, <1>3, <1>6, <2>2, Bounds
       DEF Reserving, ReservePoints, Holding, InvokePoints, OnChain
  <2> QED BY <2>1, <2>2
<1>8. ASSUME NEW r \in Queues PROVE Part(c, r)' = Part(c, r)
  <2>1. r \in Nat /\ r < Root
    BY <1>3, Bounds
  <2>2. InQueue(c, r)' = InQueue(c, r)
    BY <1>1, <1>3, <1>6 DEF InQueue
  <2>3. ASSUME lv[c] + 1 < Root PROVE Widened(c, r)' = Widened(c, r)
    <3>1. pc'[c] = "reserve" /\ lv'[c] = lv[c] + 1 /\ first'[c] = first[c]
      BY <1>6, <2>3
    <3> QED BY <1>1, <1>3, <2>1, <3>1 DEF Widened
  <2>4. ASSUME ~(lv[c] + 1 < Root) PROVE Widened(c, r)' = Widened(c, r)
    <3>1. pc'[c] = "f2" /\ first'[c] = first[c]
      BY <1>6, <2>4
    <3>2. r <= lv[c]
      BY <1>3, <2>1, <2>4
    <3> QED BY <1>1, <3>1, <3>2 DEF Widened
  <2>5. Share(r)' = Share(r)
    BY DEF Share
  <2>6. Widened(c, r)' = Widened(c, r)
    BY <2>3, <2>4
  <2> QED BY <1>2, <1>6, <2>2, <2>5, <2>6 DEF Part
<1> QED BY <1>5, <1>7, <1>8, QuietStep

LEMMA UnreserveReserves ==
    ASSUME WidthInv, Roomy, IInv', NEW c \in Callers, Unreserve(c)
    PROVE  WidthInv'
<1> DEFINE q == lv[c]
<1>1. pc[c] = "unreserve"
  BY DEF Unreserve
<1>2. /\ excess[c] = 0 /\ width[c] \in 0 .. 2 * (MaxCPUs - 1)
      /\ first[c] \in Queues /\ q \in first[c] .. Root - 1
  BY <1>1, CallTyped DEF Reserving, ReservePoints, Holding, InvokePoints, OnChain
<1>3. q \in Queues /\ first[c] # Root /\ first[c] \in Nat /\ q \in Nat /\ Root \in Nat
      /\ width[c] \in Nat
  BY <1>2, Bounds
<1>4. /\ running[q] \in 0 .. Word - 1 /\ running[q] - Part(c, q) \in Nat
      /\ Share(q) \in 1 .. 2 /\ Word \in Nat
  BY <1>3, QueueAtHand
<1>5. Part(c, q) = Share(q) + width[c]
  BY <1>1, <1>2, <1>3, <1>4 DEF Part, InQueue, Widened
<1>6. running[q] - width[c] \in 0 .. Word - 1
  BY <1>3, <1>4, <1>5
<1>7. (running[q] - width[c]) % Word = running[q] - width[c]
  BY <1>6, NoWrap
<1>8. /\ running' = [running EXCEPT ![q] = running[q] - width[c]]
      /\ UNCHANGED <<call, draining, readers, others, record, excess, back>>
      /\ IF q + 1 < Root
         THEN lv' = [lv EXCEPT ![c] = q + 1] /\ pc' = pc /\ width' = width
         ELSE /\ pc' = [pc EXCEPT ![c] = "exit"] /\ lv' = [lv EXCEPT ![c] = Root - 1]
              /\ width' = [width EXCEPT ![c] = 0]
  BY <1>3, <1>7 DEF Unreserve, Leave, Set, Goto
<1>9. Moves(c)
  BY <1>8, CallTyped DEF Moves, record
<1>10. \A r \in Queues : running'[r] = IF r = q THEN running[r] + (-width[c]) ELSE running[r]
  BY <1>3, <1>8, CallTyped
<1>11. /\ thr'[c] = thr[c] /\ first'[c] = first[c] /\ excess'[c] = 0 /\ back' = back
       /\ UNCHANGED call
  BY <1>2, <1>8 DEF record, call
<1>12. IF q + 1 < Root THEN lv'[c] = q + 1 /\ pc'[c] = "unreserve" /\ width'[c] = width[c]
       ELSE q = Root - 1 /\ lv'[c] = Root - 1 /\ pc'[c] = "exit" /\ width'[c] = 0
  BY <1>1, <1>2, <1>3, <1>8, CallTyped
<1>13. Reserving(c)'
  <2>1. CASE pc'[c] = "unreserve"
    BY <1>2, <1>3, <1>11, <1>12, <2>1
       DEF Reserving, ReservePoints, Holding, InvokePoints, OnChain
  <2>2. CASE pc'[c] = "exit"
    BY <1>2, <1>3, <1>11, <1>12, <2>2, Bounds
       DEF Reserving, ReservePoints, Holding, InvokePoints, OnChain
  <2> QED BY <1>12, <2>1, <2>2
<1>14. ASSUME NEW r \in Queues
       PROVE  Part(c, r)' = IF r = q THEN Part(c, r) + (-width[c]) ELSE Part(c, r)
  <2>1. /\ r \in Nat /\ Share(r) \in Int /\ Share(r)' = Share(r) /\ width[c] \in Int
        /\ r < Root
    BY <1>3, Bounds DEF Share
  <2>2. InQueue(c, r)' <=> InQueue(c, r)
    BY <1>1, <1>3, <1>11, <1>12, <2>1 DEF InQueue
  <2>3. /\ Widened(c, r) <=> r >= q
        /\ Widened(c, r)' /\ width'[c] # 0 => r >= q + 1
        /\ r >= q + 1 => Widened(c, r)' /\ width'[c] = width[c]
        /\ width'[c] \in Int
    BY <1>1, <1>2, <1>3, <1>11, <1>12, <2>1 DEF Widened
  <2>4. (IF r < back[c] THEN excess[c] ELSE 0) = 0 /\ (IF r < back'[c] THEN excess'[c] ELSE 0) = 0
    BY <1>2, <1>11
  <2>5. CASE r >= q + 1
    BY <1>3, <2>1, <2>2, <2>3, <2>4, <2>5 DEF Part
  <2>6. CASE r = q
    BY <1>3, <2>1, <2>2, <2>3, <2>4, <2>6 DEF Part
  <2>7. CASE r < q
    BY <1>3, <2>1, <2>2, <2>3, <2>4, <2>7 DEF Part
  <2> QED BY <1>3, <2>1, <2>5, <2>6, <2>7
<1>15. -width[c] \in Int
  BY <1>3
<1> QED BY <1>3, <1>9, <1>10, <1>13, <1>14, <1>15, AddStep

\* While a call runs its iterations its locals rest.
LEMMA HoldingStep ==
    ASSUME WidthInv, IInv', NEW c \in Callers, Moves(c), UNCHANGED running,
           UNCHANGED <<width, excess, lv, back>>,
           pc[c] \in Holding /\ pc'[c] \in Holding \ {"f2"}
    PROVE  WidthInv'
<1>1. UNCHANGED <<first, call>> /\ Reserving(c)
  BY CallTyped DEF Moves, call
<1>2. Reserving(c)'
  BY <1>1 DEF Reserving, Holding, InvokePoints, ReservePoints, OnChain
<1>3. \A q \in Queues : Part(c, q)' = Part(c, q)
  <2>1. \A q \in Queues : InQueue(c, q)' <=> InQueue(c, q)
    BY <1>1 DEF InQueue, Holding, InvokePoints
  <2>2. \A q \in Queues : Widened(c, q)' <=> Widened(c, q)
    BY <1>1 DEF Widened, Holding, InvokePoints
  <2> QED BY <2>1, <2>2 DEF Part, Share
<1> QED BY <1>2, <1>3, QuietStep

\* Helpers come when the reservation has been made.
LEMMA InvokeReserves ==
    ASSUME WidthInv, IInv', NEW p \in Procs, Invoke(p) \/ (p \in Helpers /\ HelperStarts(p))
    PROVE  WidthInv'
<1> DEFINE c == RecordOf(p)
<1>1. c \in Callers /\ p \in ProcsOf(c) /\ c \in Procs /\ pc \in [Procs -> Points]
      /\ (p \in Callers => p = c) /\ (p \notin Callers => p \in HelpersOf(c))
  BY Records, CallTyped DEF ProcsOf, RecordOf
<1>2. /\ pc[p] \in LivePoints
      /\ pc' = [pc EXCEPT ![p] = pc'[p]]
      /\ p \in Callers => pc[p] \in InvokePoints /\ pc'[p] \in InvokePoints \cup {"wait"}
  <2>1. p \in Helpers => p \notin Callers
    BY ApplyAssumption DEF ApplyAssumption
  <2>2. /\ pc[p] \in LivePoints
        /\ \E x \in InvokePoints \cup {"wait", "done"} :
              /\ pc' = [pc EXCEPT ![p] = x]
              /\ p \in Callers => pc[p] \in InvokePoints /\ x # "done"
    BY <2>1 DEF Invoke, Take, CallIteration, Finish, Signal, Dec, HelperStarts, Move, Goto,
           LivePoints, InvokePoints
  <2> QED BY <1>1, <2>2
<1>3. /\ UNCHANGED <<queue, call, locals>>
      /\ \A d \in Callers \ {c} : thr'[d] = thr[d]
  BY <1>1, CallTyped DEF Invoke, Take, CallIteration, Finish, Signal, Dec, HelperStarts, Set,
     record
<1>4. \A d \in Callers \ {c} : pc'[d] = pc[d]
  <2> SUFFICES ASSUME NEW d \in Callers \ {c} PROVE pc'[d] = pc[d]
    OBVIOUS
  <2>1. d \in Procs /\ d # p
    BY <1>1, Records
  <2> QED BY <1>1, <1>2, <2>1
<1>5. Moves(c) /\ UNCHANGED running /\ UNCHANGED <<width, excess, lv, back>>
  BY <1>3, <1>4 DEF Moves, queue, locals
<1>6. CASE p \in Callers
  <2>1. pc[c] \in Holding /\ pc'[c] \in Holding \ {"f2"}
    BY <1>1, <1>2, <1>6 DEF Holding, InvokePoints
  <2> QED BY <1>1, <1>5, <2>1, HoldingStep
<1>7. CASE p \notin Callers
  <2>1. pc'[c] = pc[c]
    BY <1>1, <1>2, <1>7
  <2>2. pc[c] \notin PrePoints
    <3>1. ~Ready(c)
      BY <1>1, <1>2, <1>7 DEF Ready, LivePoints, InvokePoints
    <3> QED BY <1>1, <3>1 DEF WidthInv, IInv, Good, Before
  <2>3. Aside(c)
    BY <1>5, <2>1, <2>2 DEF Aside
  <2>4. Reserving(c)' /\ \A q \in Queues : Part(c, q)' = Part(c, q)
    BY <1>1, <1>3, <2>3, ReservingStays DEF WidthInv
  <2> QED BY <1>1, <1>5, <2>4, QuietStep
<1> QED BY <1>6, <1>7

LEMMA PushReserves ==
    ASSUME WidthInv, IInv', NEW c \in Callers, PushHelpers(c)
    PROVE  WidthInv'
<1>1. \A d \in Callers : d \notin Helpers /\ d \in Procs
  BY Records, ApplyAssumption DEF ApplyAssumption
<1>2. pc[c] = "f2" /\ pc'[c] = "take" /\ UNCHANGED <<queue, call, record, locals>>
  BY <1>1 DEF PushHelpers
<1>3. \A d \in Callers \ {c} : pc'[d] = pc[d]
  BY <1>1 DEF PushHelpers
<1>4. Moves(c) /\ UNCHANGED running /\ UNCHANGED <<width, excess, lv, back>>
  BY <1>2, <1>3 DEF Moves, queue, record, locals
<1>5. pc[c] \in Holding /\ pc'[c] \in Holding \ {"f2"}
  BY <1>2 DEF Holding, InvokePoints
<1> QED BY <1>4, <1>5, HoldingStep

LEMMA WaitReserves ==
    ASSUME WidthInv, IInv', NEW c \in Callers, Wait(c)
    PROVE  WidthInv'
<1>1. pc[c] = "wait" /\ pc'[c] = (IF first[c] = Root THEN "done" ELSE "unreserve")
      /\ UNCHANGED <<queue, call, thr, locals>>
  BY CallTyped DEF Wait, Goto
<1>2. \A d \in Callers \ {c} : pc'[d] = pc[d]
  BY Records, CallTyped DEF Wait, Goto
<1>3. Moves(c) /\ UNCHANGED running /\ UNCHANGED <<width, excess, lv, back, first>>
  BY <1>1, <1>2 DEF Moves, queue, locals, call
<1>4. /\ width[c] \in 0 .. 2 * (MaxCPUs - 1) /\ excess[c] = 0 /\ lv[c] = first[c]
      /\ first[c] = Root => width[c] = 0
      /\ first[c] \in 1 .. Root
  BY <1>1, CallTyped DEF Reserving, Holding
<1>5. first[c] # Root => first[c] \in Queues /\ lv[c] \in first[c] .. Root - 1
  BY <1>4, Bounds
<1>6. Reserving(c)'
  BY <1>1, <1>3, <1>4, <1>5 DEF Reserving, Holding, InvokePoints, ReservePoints, OnChain
<1>7. \A q \in Queues : Part(c, q)' = Part(c, q)
  <2> SUFFICES ASSUME NEW q \in Queues PROVE Part(c, q)' = Part(c, q)
    OBVIOUS
  <2>1. q \in Nat /\ q < Root /\ Root \in Nat
    BY Bounds
  <2>2. InQueue(c, q)' <=> InQueue(c, q)
    BY <1>1, <1>3, <1>4, <2>1 DEF InQueue
  <2>3. Widened(c, q)' <=> Widened(c, q)
    BY <1>1, <1>3, <1>4, <2>1 DEF Widened
  <2> QED BY <1>3, <2>2, <2>3 DEF Part, Share
<1> QED BY <1>3, <1>6, <1>7, QuietStep

-----------------------------------------------------------------------------
LEMMA InitWidthInv == Init => WidthInv
<1> SUFFICES ASSUME Init PROVE WidthInv
  OBVIOUS
<1>1. IInv
  BY InitIInv
<1>2. Beside
  BY Bounds DEF Init, Beside, Drain
<1>3. \A c \in Callers : Reserving(c)
  <2> SUFFICES ASSUME NEW c \in Callers PROVE Reserving(c)
    OBVIOUS
  <2>1. c \in Procs /\ pc[c] = "idle" /\ width[c] = 0 /\ excess[c] = 0 /\ lv[c] = first[c]
    BY Records DEF Init
  <2>2. thr[c] \in 1 .. MaxCPUs
    <3>1. iters[c] \in 1 .. MaxIter /\ MaxIter \in Nat
      BY ApplyAssumption DEF ApplyAssumption, Init
    <3>2. thr[c] = IF iters[c] < MaxCPUs THEN iters[c] ELSE MaxCPUs
      BY DEF Init
    <3> QED BY <3>1, <3>2, Bounds
  <2> QED BY <2>1, <2>2, Bounds DEF Reserving, Holding, InvokePoints, ReservePoints, OnChain
<1>4. Accounts
  <2> SUFFICES ASSUME NEW q \in Queues
               PROVE  running[q] = Share(q) * readers[q] + Drain(q) + Total(Callers, PartOf(q))
    BY DEF Accounts
  <2>1. \A c \in Callers : PartOf(q)[c] \in 0 .. 0
    <3> SUFFICES ASSUME NEW c \in Callers PROVE PartOf(q)[c] = 0
      OBVIOUS
    <3>1. pc[c] = "idle" /\ width[c] = 0 /\ excess[c] = 0
      BY Records DEF Init
    <3>2. Part(c, q) = 0
      BY <3>1 DEF Part, InQueue
    <3> QED BY <3>2 DEF PartOf
  <2>2. Total(Callers, PartOf(q)) \in Nat /\ Total(Callers, PartOf(q)) <= Cardinality(Callers) * 0
    BY <2>1, Bounds, TotalBound
  <2>3. Total(Callers, PartOf(q)) = 0
    BY <2>2, Bounds
  <2>4. running[q] = 0 /\ readers[q] = 0 /\ Drain(q) = 0
    BY DEF Init, Drain
  <2>5. Share(q) * 0 = 0
    BY Bounds
  <2> QED BY <2>3, <2>4, <2>5
<1> QED BY <1>1, <1>2, <1>3, <1>4 DEF WidthInv

LEMMA NextWidthInv == ASSUME Roomy PROVE WidthInv /\ [Next]_vars => WidthInv'
<1> SUFFICES ASSUME WidthInv, [Next]_vars PROVE WidthInv'
  OBVIOUS
<1>1. IInv'
  BY NextIInv DEF WidthInv
<1>2. ASSUME NEW c \in Callers, Start(c) PROVE WidthInv'
  BY <1>1, <1>2, StartReserves
<1>3. ASSUME NEW c \in Callers, CallerStep(c) PROVE WidthInv'
  <2>1. c \in Procs
    BY Records
  <2> QED BY <1>1, <1>3, <2>1, EnterReserves, ExitReserves, SerialReserves, ReserveReserves,
             UndoReserves, AdjustReserves, NextQueueReserves, UnreserveReserves, PushReserves,
             InvokeReserves, WaitReserves DEF CallerStep
<1>4. ASSUME NEW h \in Helpers, HelperStarts(h) \/ Invoke(h) PROVE WidthInv'
  BY <1>1, <1>4, Records, InvokeReserves
<1>5. ASSUME NEW q \in Queues, DrainBegins(q) \/ DrainEnds(q) \/ ReaderEnters(q) \/ ReaderLeaves(q)
      PROVE  WidthInv'
  BY <1>1, <1>5, BesideSteps
<1>6. CASE UNCHANGED vars
  <2>1. /\ UNCHANGED <<running, readers, draining, others, call, record, locals, pc>>
    BY <1>6 DEF vars, queue
  <2>2. Beside'
    BY <2>1 DEF WidthInv, Beside, Drain
  <2>3. \A q \in Queues : running'[q] - Share(q) * readers'[q] - Drain(q)'
                              = running[q] - Share(q) * readers[q] - Drain(q)
    BY <2>1 DEF Drain
  <2> QED BY <1>1, <2>1, <2>2, <2>3, BesideStep
<1> QED BY <1>2, <1>3, <1>4, <1>5, <1>6 DEF Next

LEMMA SpecWidthInv == ASSUME Roomy PROVE Spec => []WidthInv
BY InitWidthInv, NextWidthInv, PTL DEF Spec

-----------------------------------------------------------------------------
\* _dispatch_apply_redirect and dispatch_apply_f: what the calls have taken from
\* dq_running of each queue of their chains is what they give back, however many
\* calls, drains and readers there are, where the widths have room for them.
THEOREM ReservationsFitHolds == ASSUME Roomy PROVE Spec => []ReservationsFit
<1>1. WidthInv => ReservationsFit
  <2> SUFFICES ASSUME WidthInv PROVE ReservationsFit
    OBVIOUS
  <2>1. \A c \in Callers : width[c] \in 0 .. 2 * (MaxCPUs - 1)
    BY DEF WidthInv, Reserving
  <2>2. ASSUME \A c \in Callers : pc[c] \notin ReservePoints \cup {"enter", "unreserve", "exit"},
               NEW q \in Queues
        PROVE  running[q] = Share(q) * readers[q] + (IF draining[q] THEN 1 ELSE 0)
                               + Total(Callers, [c \in Callers |-> Taken(c, q)])
    <3>1. ASSUME NEW c \in Callers PROVE Part(c, q) = Taken(c, q)
      <4>1. /\ pc[c] \notin ReservePoints \cup {"enter", "unreserve", "exit"} /\ excess[c] = 0
            /\ width[c] \in Nat /\ Share(q) \in Int /\ q \in Int /\ first[c] \in Int
            /\ pc[c] \in {"idle", "done"} => width[c] = 0
        <5>1. Reserving(c) /\ width[c] \in Nat /\ first[c] \in 1 .. Root /\ Root \in Nat
          BY CallTyped, Bounds
        <5>2. Share(q) \in Int /\ q \in Int
          BY Bounds
        <5>3. pc[c] \notin ReservePoints \cup {"enter", "unreserve", "exit"}
          BY <2>2
        <5>4. excess[c] = 0 /\ (pc[c] \in {"idle", "done"} => width[c] = 0)
          BY <5>1, <5>3 DEF Reserving, ReservePoints, Holding, InvokePoints
        <5> QED BY <5>1, <5>2, <5>3, <5>4
      <4> QED BY <4>1 DEF Part, InQueue, Widened, Taken, ReservePoints
    <3>2. PartOf(q) = [c \in Callers |-> Taken(c, q)]
      BY <3>1 DEF PartOf
    <3> QED BY <3>2 DEF WidthInv, Accounts, Drain
  <2> QED BY <2>1, <2>2 DEF ReservationsFit
<1> QED BY <1>1, SpecWidthInv, PTL

\* dispatch_assert(continuation_cnt) (apply.c:105) holds where the widths have room:
\* only a width too narrow for what is beside a call takes its last helper away.
THEOREM ContinuationCountedHolds == ASSUME Roomy PROVE Spec => []ContinuationCounted
<1>1. WidthInv => ContinuationCounted
  <2> SUFFICES ASSUME WidthInv, NEW c \in Callers, pc[c] = "f2" PROVE ContinuationCnt(c) # 0
    BY DEF ContinuationCounted
  <2>1. thr[c] \in 2 .. MaxCPUs
    BY DEF WidthInv, Reserving
  <2>2. thr[c] - 1 \in 1 .. MaxCPUs - 1 /\ MaxCPUs - 1 <= Word - 1 /\ Word \in Nat
    BY <2>1, Bounds
  <2>3. (thr[c] - 1) % Word = thr[c] - 1
    BY <2>1, <2>2, Bounds, NoWrap
  <2> QED BY <2>2, <2>3 DEF ContinuationCnt
<1> QED BY <1>1, SpecWidthInv, PTL
-----------------------------------------------------------------------------
(* dispatch_once.                                                            *)

\* What the predicate says about the threads, and they about it.
PhaseInv ==
    /\ \A t \in Threads : at[t] = "run" => vval \notin {Null, Done}
    /\ vval \notin {Null, Done} => \E t \in Threads : at[t] = "run"
    /\ \A t, u \in Threads : at[t] = "run" /\ at[u] = "run" => t = u
    /\ \A t \in Threads : at[t] \in {"walk", "signal"} => vval = Done
    /\ \A t \in Threads : at[t] \in WaiterPoints => vval # Null
    /\ \A t \in Threads : at[t] = "push" => tmp[t] # Done

\* The predicate and the program points are all the promise is about.
CoreType == /\ vval \in Threads \cup {Null, Done}
            /\ at \in [Threads -> OncePoints]
            /\ DOMAIN tmp = Threads

\* The inductive invariant.
OnceIInv == CoreType /\ PhaseInv

\* The invariant holds at the start.
LEMMA InitOnceIInv == OnceInit => OnceIInv
BY OnceAssumption
   DEF OnceAssumption, OnceInit, OnceIInv, CoreType, PhaseInv, OncePoints, RunnerPoints,
       WaiterPoints

\* The invariant is preserved by every step.
LEMMA NextOnceIInv == OnceIInv /\ [OnceNext]_dowVars => OnceIInv'
<1> SUFFICES ASSUME OnceIInv, [OnceNext]_dowVars PROVE OnceIInv'
  OBVIOUS
<1> USE OnceAssumption
        DEF OnceAssumption, OnceIInv, CoreType, PhaseInv, OncePoints, RunnerPoints,
            WaiterPoints, OnceGoto
<1>1. ASSUME NEW t \in Threads, CallOnce(t) PROVE OnceIInv'
  BY <1>1 DEF CallOnce
<1>2. ASSUME NEW t \in Threads, Publish(t) PROVE OnceIInv'
  BY <1>2 DEF Publish
<1>3. ASSUME NEW t \in Threads, WalkEnd(t) PROVE OnceIInv'
  BY <1>3 DEF WalkEnd
<1>4. ASSUME NEW t \in Threads, WalkLinked(t) PROVE OnceIInv'
  BY <1>4 DEF WalkLinked
<1>5. ASSUME NEW t \in Threads, SignalWaiter(t) PROVE OnceIInv'
  BY <1>5 DEF SignalWaiter
<1>6. ASSUME NEW t \in Threads, LoadDone(t) PROVE OnceIInv'
  BY <1>6 DEF LoadDone
<1>7. ASSUME NEW t \in Threads, LoadBusy(t) PROVE OnceIInv'
  BY <1>7 DEF LoadBusy
<1>8. ASSUME NEW t \in Threads, Push(t) PROVE OnceIInv'
  BY <1>8 DEF Push
<1>9. ASSUME NEW t \in Threads, SetNext(t) PROVE OnceIInv'
  BY <1>9 DEF SetNext
<1>10. ASSUME NEW t \in Threads, Block(t) PROVE OnceIInv'
  BY <1>10 DEF Block
<1>11. CASE UNCHANGED dowVars
  BY <1>11 DEF dowVars
<1> QED BY <1>1, <1>2, <1>3, <1>4, <1>5, <1>6, <1>7, <1>8, <1>9, <1>10, <1>11
        DEF OnceNext, OnceStep

\* At most one thread runs the function, and only while it is not done.
THEOREM OneRunner ==
    DispatchOnceSpec => []\A t, u \in Threads : at[t] = "run" /\ at[u] = "run" => t = u
<1>1. OnceIInv => \A t, u \in Threads : at[t] = "run" /\ at[u] = "run" => t = u
  BY DEF OnceIInv, PhaseInv
<1> QED BY <1>1, InitOnceIInv, NextOnceIInv, PTL DEF DispatchOnceSpec

\* dispatch_once_f implements the promise: one run, and no return before it
\* has finished.
THEOREM ImplementsOnce == DispatchOnceSpec => OnceSpec
<1> USE OnceAssumption DEF OnceAssumption
<1>1. OnceInit => AbstractOnce!Init
  BY DEF OnceInit, AbstractOnce!Init
<1>2. OnceIInv /\ [OnceNext]_dowVars => [AbstractOnce!Next]_AbstractOnce!onceVars
  <2> SUFFICES ASSUME OnceIInv, [OnceNext]_dowVars
               PROVE  [AbstractOnce!Next]_AbstractOnce!onceVars
    OBVIOUS
  <2> USE DEF OnceIInv, CoreType, PhaseInv, OncePoints, RunnerPoints, WaiterPoints, OnceGoto
  <2> DEFINE Runners == {u \in Threads : at[u] = "run"}
  <2>1. ASSUME NEW t \in Threads, CallOnce(t) PROVE AbstractOnce!Call(t)
    <3>1. CASE vval = Null
      <4>1. Runners = {} /\ Runners' = {t}
        BY <2>1, <3>1 DEF CallOnce
      <4> QED BY <2>1, <3>1, <4>1 DEF CallOnce, AbstractOnce!Call
    <3>2. CASE vval # Null
      <4>1. Runners' = Runners /\ (Runners = {} => vval = Done)
        BY <2>1, <3>2 DEF CallOnce
      <4> QED BY <2>1, <3>2, <4>1 DEF CallOnce, AbstractOnce!Call
    <3> QED BY <3>1, <3>2
  <2>2. ASSUME NEW t \in Threads, Publish(t) PROVE AbstractOnce!Finish(t)
    <3>1. Runners = {t} /\ Runners' = {}
      BY <2>2 DEF Publish
    <3> QED BY <2>2, <3>1 DEF Publish, AbstractOnce!Finish
  <2>3. ASSUME NEW t \in Threads, WalkEnd(t) \/ LoadDone(t)
        PROVE  AbstractOnce!Return(t)
    <3>1. Runners' = Runners
      BY <2>3 DEF WalkEnd, LoadDone
    <3> QED BY <2>3, <3>1 DEF WalkEnd, LoadDone, AbstractOnce!Return
  \* A thread that does not run the function goes on inside its call, and
  \* the predicate is as much or as little DONE as it was.
  <2>4. ASSUME NEW t \in Threads, NEW p \in OncePoints \ {"idle", "run"}, OnceGoto(t, p),
               at[t] \notin {"idle", "run"}, (vval' = Done) = (vval = Done)
        PROVE  UNCHANGED AbstractOnce!onceVars
    <3>1. {u \in Threads : at'[u] # "idle"} = {u \in Threads : at[u] # "idle"}
      BY <2>4
    <3>2. Runners' = Runners
      BY <2>4
    <3> QED BY <2>4, <3>1, <3>2 DEF AbstractOnce!onceVars
  <2>6. ASSUME NEW t \in Threads, WalkLinked(t) PROVE UNCHANGED AbstractOnce!onceVars
    BY <2>4, <2>6 DEF WalkLinked
  <2>7. ASSUME NEW t \in Threads, SignalWaiter(t) PROVE UNCHANGED AbstractOnce!onceVars
    BY <2>4, <2>7 DEF SignalWaiter
  <2>8. ASSUME NEW t \in Threads, LoadBusy(t) PROVE UNCHANGED AbstractOnce!onceVars
    BY <2>4, <2>8 DEF LoadBusy
  <2>9. ASSUME NEW t \in Threads, Push(t) PROVE UNCHANGED AbstractOnce!onceVars
    <3>1. CASE vval = tmp[t]
      BY <2>4, <2>9, <3>1 DEF Push
    <3>2. CASE vval # tmp[t]
      BY <2>4, <2>9, <3>2 DEF Push
    <3> QED BY <2>9, <3>1, <3>2
  <2>10. ASSUME NEW t \in Threads, SetNext(t) PROVE UNCHANGED AbstractOnce!onceVars
    BY <2>4, <2>10 DEF SetNext
  <2>11. ASSUME NEW t \in Threads, Block(t) PROVE UNCHANGED AbstractOnce!onceVars
    BY <2>4, <2>11 DEF Block
  <2>5. CASE UNCHANGED dowVars
    BY <2>5 DEF dowVars, AbstractOnce!onceVars
  <2> QED BY <2>1, <2>2, <2>3, <2>5, <2>6, <2>7, <2>8, <2>9, <2>10, <2>11 DEF OnceNext, OnceStep, AbstractOnce!Next
<1> QED BY <1>1, <1>2, InitOnceIInv, NextOnceIInv, PTL DEF DispatchOnceSpec, OnceSpec, AbstractOnce!Spec
-----------------------------------------------------------------------------
(* The list of records.  It is never looked at as a whole: what matters is   *)
(* that it starts and stays among the records that exist, and that nothing   *)
(* else leads to the record that goes when its owner is woken.               *)

\* The records on the list besides the runner's: their owners sleep or are
\* about to, and have no signal yet.
Listed == {t \in Threads : at[t] \in {"setnext", "block"} /\ dow_sema[t] = 0}

\* Where the list goes on after a record, also before dow_next is stored.
Link(t) == IF at[t] = "setnext" THEN tmp[t] ELSE dow_next[t]

\* Where the list starts: in the predicate, then in the local of the runner.
ListHead(r) == IF at[r] = "run" THEN vval ELSE tmp[r]

\* A signal is for a sleeper, and comes after DONE; dow_next is NULL until the
\* owner stores it, and the runner signals after it has seen it stored.
SleepInv ==
    /\ dow_sema \in [Threads -> {0, 1}]
    /\ \A t \in Threads : dow_sema[t] = 1 => at[t] = "block" /\ vval = Done
    /\ \A t \in Threads : at[t] \in {"push", "setnext"} => dow_next[t] = Null
    /\ \A t \in Threads : at[t] = "load" /\ vval # Done => dow_next[t] = Null
    /\ \A r \in Threads :
         at[r] = "signal" => tmp[r] # r /\ dow_next[tmp[r]] # Null

\* From its start the list leads through listed records to the runner's, and
\* one thing only leads to each of them.
ListInv ==
    \A r \in Threads : at[r] \in RunnerPoints =>
        /\ \A u \in Threads : at[u] \in RunnerPoints => u = r
        /\ ListHead(r) \in Listed \cup {r}
        /\ \A t \in Listed : Link(t) \in Listed \cup {r} /\ Link(t) # ListHead(r)
        /\ \A t, u \in Listed : Link(t) = Link(u) => t = u

\* The inductive invariant with the list.
ListIInv == /\ OnceIInv
            /\ dow_next \in [Threads -> Threads \cup {Null}]
            /\ tmp \in [Threads -> Threads \cup {Null}]
            /\ SleepInv
            /\ ListInv

LEMMA InitListIInv == OnceInit => ListIInv
<1> SUFFICES ASSUME OnceInit PROVE ListIInv
  OBVIOUS
<1>1. OnceIInv
  BY InitOnceIInv
<1> QED BY <1>1 DEF OnceInit, ListIInv, SleepInv, ListInv, Listed, RunnerPoints

\* The list survives every step.
LEMMA NextListIInv == ListIInv /\ [OnceNext]_dowVars => ListIInv'
<1> SUFFICES ASSUME ListIInv, [OnceNext]_dowVars PROVE ListIInv'
  OBVIOUS
<1> USE OnceAssumption DEF OnceAssumption
<1>0. OnceIInv'
  BY NextOnceIInv DEF ListIInv
<1> USE DEF ListIInv, OnceIInv, CoreType, PhaseInv, OncePoints, RunnerPoints,
            WaiterPoints, OnceGoto
<1> DEFINE Others == /\ {dow_next', tmp'} \subseteq [Threads -> Threads \cup {Null}]
                     /\ SleepInv'
                     /\ ListInv'
<1>1. ASSUME NEW t \in Threads, CallOnce(t) PROVE Others
  <2>0. PICK p \in {"run", "load"} : OnceGoto(t, p)
    BY <1>1 DEF CallOnce
  <2>1. Listed' = Listed /\ t \notin Listed
    BY <1>1, <2>0 DEF CallOnce, Listed
  <2>2. \A u \in Listed : Link(u)' = Link(u)
    BY <1>1, <2>0, <2>1 DEF CallOnce, Link, Listed
  <2>3. {dow_next', tmp'} \subseteq [Threads -> Threads \cup {Null}] /\ SleepInv'
    <3>1. dow_sema' = dow_sema /\ dow_sema[t] = 0 /\ (vval = Done <=> vval' = Done)
      BY <1>1 DEF CallOnce, SleepInv
    <3>2. /\ dow_next' = [dow_next EXCEPT ![t] = Null]
          /\ \A r \in Threads : at'[r] = "signal" => tmp'[r] = tmp[r] /\ at[r] = "signal"
      BY <1>1, <2>0 DEF CallOnce
    <3>3. \A r \in Threads : at[r] = "signal" => tmp[r] # t
      BY <1>1, <2>1 DEF CallOnce, SleepInv, ListInv, ListHead
    <3>4. {dow_next', tmp'} \subseteq [Threads -> Threads \cup {Null}]
      BY <1>1 DEF CallOnce
    <3> QED BY <2>0, <3>1, <3>2, <3>3, <3>4 DEF SleepInv
  <2>4. CASE vval = Null
    <3>1. Listed = {} /\ \A u \in Threads : at[u] \notin RunnerPoints
      BY <2>4 DEF Listed
    <3>2. ListHead(t)' = t
      BY <1>1, <2>4 DEF CallOnce, ListHead
    <3> QED BY <1>1, <2>1, <2>3, <2>4, <3>1, <3>2 DEF CallOnce, ListInv
  <2>5. CASE vval # Null
    <3>1. \A u \in Threads : at'[u] \in RunnerPoints => at[u] = at'[u] /\ ListHead(u)' = ListHead(u)
      BY <1>1, <2>5 DEF CallOnce, ListHead
    <3> QED BY <2>1, <2>2, <2>3, <3>1 DEF ListInv
  <2> QED BY <2>4, <2>5
\* A step after which the list is what it was.
<1>2. ASSUME Listed' = Listed,
             \A u \in Listed : Link(u)' = Link(u),
             \A u \in Threads : at'[u] \in RunnerPoints =>
                                  at[u] \in RunnerPoints /\ ListHead(u)' = ListHead(u)
      PROVE  ListInv'
  BY <1>2 DEF ListInv
<1>3. ASSUME NEW t \in Threads, Publish(t) PROVE Others
  <2>1. Listed' = Listed
    BY <1>3 DEF Publish, Listed
  <2>2. \A u \in Listed : Link(u)' = Link(u)
    BY <1>3 DEF Publish, Link, Listed
  <2>3. \A u \in Threads : at'[u] \in RunnerPoints =>
                                  at[u] \in RunnerPoints /\ ListHead(u)' = ListHead(u)
    BY <1>3 DEF Publish, ListHead, ListInv
  <2>4. {dow_next', tmp'} \subseteq [Threads -> Threads \cup {Null}] /\ SleepInv'
    BY <1>3 DEF Publish, SleepInv
  <2> QED BY <1>2, <2>1, <2>2, <2>3, <2>4
<1>4. ASSUME NEW t \in Threads, WalkEnd(t) PROVE Others
  <2>1. Listed' = Listed /\ \A u \in Listed : Link(u)' = Link(u)
    BY <1>4 DEF WalkEnd, Link, Listed
  <2>3. \A u \in Threads : at'[u] \in RunnerPoints =>
                                  at[u] \in RunnerPoints /\ ListHead(u)' = ListHead(u)
    BY <1>4 DEF WalkEnd, ListHead
  <2>4. {dow_next', tmp'} \subseteq [Threads -> Threads \cup {Null}] /\ SleepInv'
    BY <1>4 DEF WalkEnd, SleepInv
  <2> QED BY <1>2, <2>1, <2>3, <2>4
<1>5. ASSUME NEW t \in Threads, WalkLinked(t) PROVE Others
  <2>1. Listed' = Listed /\ \A u \in Listed : Link(u)' = Link(u)
    BY <1>5 DEF WalkLinked, Link, Listed
  <2>3. \A u \in Threads : at'[u] \in RunnerPoints =>
                                  at[u] \in RunnerPoints /\ ListHead(u)' = ListHead(u)
    BY <1>5 DEF WalkLinked, ListHead
  <2>4. {dow_next', tmp'} \subseteq [Threads -> Threads \cup {Null}] /\ SleepInv'
    BY <1>5 DEF WalkLinked, SleepInv
  <2> QED BY <1>2, <2>1, <2>3, <2>4
\* The first record leaves the list, and the list starts where it led.
<1>6. ASSUME NEW t \in Threads, SignalWaiter(t) PROVE Others
  <2> DEFINE x == tmp[t]
  <2>1. x \in Listed /\ at[x] = "block" /\ x # t /\ dow_next[x] # Null
    BY <1>6 DEF SignalWaiter, SleepInv, ListInv, ListHead, Listed
  <2>2. Listed' = Listed \ {x}
    BY <1>6, <2>1 DEF SignalWaiter, Listed, SleepInv
  <2>3. \A u \in Listed : u # t /\ Link(u)' = Link(u)
    BY <1>6 DEF SignalWaiter, Link, Listed
  <2>4. ListHead(t)' = Link(x) /\ ListHead(t) = x
    BY <1>6, <2>1 DEF SignalWaiter, ListHead, Link, Listed
  <2>5. \A u \in Threads : at'[u] \in RunnerPoints => u = t
    BY <1>6 DEF SignalWaiter, ListInv
  <2>6. {dow_next', tmp'} \subseteq [Threads -> Threads \cup {Null}] /\ SleepInv'
    BY <1>6, <2>1 DEF SignalWaiter, SleepInv, Listed
  <2>7. /\ \A u \in Listed : Link(u) \in Listed \cup {t} /\ Link(u) # x
        /\ \A u, v \in Listed : Link(u) = Link(v) => u = v
    BY <1>6, <2>4 DEF SignalWaiter, ListInv
  <2> HIDE DEF x
  <2>8. ListInv'
    BY <2>1, <2>2, <2>3, <2>4, <2>5, <2>7 DEF ListInv
  <2> QED BY <2>6, <2>8
<1>7. ASSUME NEW t \in Threads, LoadDone(t) \/ LoadBusy(t) PROVE Others
  <2>1. Listed' = Listed /\ \A u \in Listed : Link(u)' = Link(u)
    BY <1>7 DEF LoadDone, LoadBusy, Link, Listed
  <2>3. \A u \in Threads : at'[u] \in RunnerPoints =>
                                  at[u] \in RunnerPoints /\ ListHead(u)' = ListHead(u)
    BY <1>7 DEF LoadDone, LoadBusy, ListHead
  <2>4. {dow_next', tmp'} \subseteq [Threads -> Threads \cup {Null}] /\ SleepInv'
    BY <1>7 DEF LoadDone, LoadBusy, SleepInv
  <2> QED BY <1>2, <2>1, <2>3, <2>4
<1>8. ASSUME NEW t \in Threads, Push(t) PROVE Others
  <2>1. {dow_next', tmp'} \subseteq [Threads -> Threads \cup {Null}] /\ SleepInv'
    BY <1>8 DEF Push, SleepInv
  <2>2. CASE vval = tmp[t]
    <3>1. vval \notin {Null, Done}
      BY <1>8, <2>2 DEF Push
    <3>2. PICK r \in Threads : at[r] = "run"
      BY <3>1
    <3>3. /\ \A u \in Threads : at[u] \in RunnerPoints => u = r
          /\ vval \in Listed \cup {r}
          /\ \A u \in Listed : Link(u) \in Listed \cup {r} /\ Link(u) # vval
          /\ \A u, v \in Listed : Link(u) = Link(v) => u = v
      BY <3>2 DEF ListInv, ListHead
    <3>4. Listed' = Listed \cup {t} /\ t \notin Listed /\ t # r
      BY <1>8, <2>2, <3>2 DEF Push, Listed, SleepInv
    <3>5. \A u \in Listed : Link(u)' = Link(u)
      BY <1>8, <2>2 DEF Push, Link, Listed
    <3>6. Link(t)' = vval
      BY <1>8, <2>2 DEF Push, Link
    <3>7. /\ \A u \in Threads : at'[u] \in RunnerPoints => u = r
          /\ ListHead(r)' = t
      BY <1>8, <2>2, <3>2, <3>3, <3>4 DEF Push, ListHead
    <3>8. ListInv'
      BY <3>3, <3>4, <3>5, <3>6, <3>7 DEF ListInv
    <3> QED BY <2>1, <3>8
  <2>3. CASE vval # tmp[t]
    <3>1. Listed' = Listed /\ \A u \in Listed : Link(u)' = Link(u)
      BY <1>8, <2>3 DEF Push, Link, Listed
    <3>2. \A u \in Threads : at'[u] \in RunnerPoints =>
                               at[u] \in RunnerPoints /\ ListHead(u)' = ListHead(u)
      BY <1>8, <2>3 DEF Push, ListHead
    <3> QED BY <1>2, <2>1, <3>1, <3>2
  <2> QED BY <2>2, <2>3
<1>9. ASSUME NEW t \in Threads, SetNext(t) PROVE Others
  <2>1. Listed' = Listed /\ \A u \in Listed : Link(u)' = Link(u)
    BY <1>9 DEF SetNext, Link, Listed
  <2>3. \A u \in Threads : at'[u] \in RunnerPoints =>
                                  at[u] \in RunnerPoints /\ ListHead(u)' = ListHead(u)
    BY <1>9 DEF SetNext, ListHead
  <2>4. {dow_next', tmp'} \subseteq [Threads -> Threads \cup {Null}] /\ SleepInv'
    BY <1>9 DEF SetNext, SleepInv
  <2> QED BY <1>2, <2>1, <2>3, <2>4
<1>10. ASSUME NEW t \in Threads, Block(t) PROVE Others
  <2>0. dow_sema[t] = 1
    BY <1>10 DEF Block, SleepInv
  <2>1. Listed' = Listed /\ \A u \in Listed : u # t /\ Link(u)' = Link(u)
    BY <1>10, <2>0 DEF Block, Link, Listed
  <2>3. \A u \in Threads : at'[u] \in RunnerPoints =>
                                  at[u] \in RunnerPoints /\ ListHead(u)' = ListHead(u)
    BY <1>10 DEF Block, ListHead
  <2>4. {dow_next', tmp'} \subseteq [Threads -> Threads \cup {Null}] /\ SleepInv'
    BY <1>10, <2>0 DEF Block, SleepInv
  <2> QED BY <1>2, <2>1, <2>3, <2>4
<1>11. CASE UNCHANGED dowVars
  BY <1>11 DEF dowVars, SleepInv, ListInv, Listed, Link, ListHead
<1> QED BY <1>0, <1>1, <1>3, <1>4, <1>5, <1>6, <1>7, <1>8, <1>9, <1>10, <1>11
        DEF OnceNext, OnceStep

\* The record dispatch_once_f looks at when it wakes the waiters is on the
\* stack of a thread that has not been woken: it still exists.
THEOREM WaiterRecordAliveHolds == DispatchOnceSpec => []WaiterRecordAlive
<1>1. ListIInv => WaiterRecordAlive
  BY OnceAssumption
     DEF OnceAssumption, ListIInv, ListInv, Listed, ListHead, RunnerPoints, WaiterRecordAlive
<1> QED BY InitListIInv, NextListIInv, <1>1, PTL DEF DispatchOnceSpec

\* A thread semaphore is given back with no signal left in it.
THEOREM SemaphoreReturnedCleanHolds == DispatchOnceSpec => []SemaphoreReturnedClean
<1>1. ListIInv => SemaphoreReturnedClean
  BY DEF ListIInv, SleepInv, SemaphoreReturnedClean
<1> QED BY InitListIInv, NextListIInv, <1>1, PTL DEF DispatchOnceSpec

\* The predicate, the records and the threads have their types: a thread semaphore
\* counts at most one signal, and what is taken for a record is the record of a thread.
THEOREM OnceTypeCorrect == DispatchOnceSpec => []TypeOK
<1>1. OnceInit => calls \in 0 .. MaxCalls
  BY OnceAssumption DEF OnceAssumption, OnceInit
<1>2. calls \in 0 .. MaxCalls /\ [OnceNext]_dowVars => (calls \in 0 .. MaxCalls)'
  <2> SUFFICES ASSUME calls \in 0 .. MaxCalls, [OnceNext]_dowVars PROVE calls' \in 0 .. MaxCalls
    OBVIOUS
  <2>1. ASSUME NEW t \in Threads, CallOnce(t) PROVE calls' \in 0 .. MaxCalls
    BY <2>1, OnceAssumption DEF CallOnce, OnceAssumption
  <2>2. ASSUME NEW t \in Threads, OnceStep(t) PROVE calls' = calls
    BY <2>2 DEF OnceStep, Publish, WalkEnd, WalkLinked, SignalWaiter, LoadDone, LoadBusy,
                Push, SetNext, Block
  <2> QED BY <2>1, <2>2 DEF OnceNext, dowVars
<1>3. ListIInv /\ calls \in 0 .. MaxCalls => TypeOK
  BY DEF ListIInv, OnceIInv, CoreType, SleepInv, TypeOK
<1> QED BY InitListIInv, NextListIInv, <1>1, <1>2, <1>3, PTL DEF DispatchOnceSpec
=============================================================================
