---------------------- MODULE DispatchSemaphoreProofs ----------------------
(***************************************************************************)
(* Proofs about DispatchSemaphore, for any finite set of threads, any      *)
(* initial value, either build and any number of calls.                    *)
(***************************************************************************)
EXTENDS DispatchSemaphore, ThreadCountTheorems

\* The points of the Mach build: the signal count and the lazy port.
MachPoints == {"again", "waitport", "waitcreate", "sent", "sigport", "sigcreate"}

\* In the builds without a signal count nobody is at the points that use it,
\* and the kernel semaphore exists from the start.
BuildInv == ~Mach => /\ port
                     /\ \A t \in Threads : pc[t] \notin MachPoints

\* The inductive invariant.
IInv == TypeOK /\ Accounting /\ NoMissedSignal /\ BuildInv

\* The counters of threads used by the invariant.
Slow == CountAt(Threads, pc, SlowPoints)
Sent == CountAt(Threads, pc, {"sent"})
Posting == CountAt(Threads, pc, {"sigport", "sigcreate", "post"})
Post == CountAt(Threads, pc, {"post"})
Again == CountAt(Threads, pc, {"again"})

\* The counters are natural numbers; Slow counts the slow waiters.
LEMMA CountersAreNat ==
    /\ Slow \in Nat /\ Sent \in Nat /\ Post \in Nat /\ Posting \in Nat
    /\ Again \in Nat
    /\ Slow = Cardinality(SlowWaiters)
    /\ \A t \in Threads : pc[t] \in SlowPoints => Slow > 0
BY SemaphoreAssumption, CountIsNat
   DEF Slow, Sent, Post, Posting, Again, SlowWaiters, CountAt

\* How they change when thread t goes to p.
LEMMA CountersMove ==
    ASSUME TypeOK, NEW t \in Threads, NEW p, Goto(t, p)
    PROVE  /\ Slow' = Slow - Hit(pc[t], SlowPoints) + Hit(p, SlowPoints)
           /\ Sent' = Sent - Hit(pc[t], {"sent"}) + Hit(p, {"sent"})
           /\ Post' = Post - Hit(pc[t], {"post"}) + Hit(p, {"post"})
           /\ Posting' = Posting - Hit(pc[t], {"sigport", "sigcreate", "post"})
                           + Hit(p, {"sigport", "sigcreate", "post"})
           /\ Again' = Again - Hit(pc[t], {"again"}) + Hit(p, {"again"})
           /\ Again' \in Nat
<1>1. MovesOnly(Threads, pc, pc', t, p)
  BY DEF TypeOK, Goto, MovesOnly
<1>2. IsFiniteSet(Threads)
  BY SemaphoreAssumption DEF SemaphoreAssumption
<1>3. ASSUME NEW P
      PROVE  CountAt(Threads, pc', P) =
                 CountAt(Threads, pc, P) - Hit(pc[t], P) + Hit(p, P)
  BY <1>1, <1>2, CountMove
<1>4. Slow' = Slow - Hit(pc[t], SlowPoints) + Hit(p, SlowPoints)
  BY <1>3 DEF Slow
<1>5. Sent' = Sent - Hit(pc[t], {"sent"}) + Hit(p, {"sent"})
  BY <1>3 DEF Sent
<1>6. Post' = Post - Hit(pc[t], {"post"}) + Hit(p, {"post"})
  BY <1>3 DEF Post
<1>9. Posting' = Posting - Hit(pc[t], {"sigport", "sigcreate", "post"})
                   + Hit(p, {"sigport", "sigcreate", "post"})
  BY <1>3 DEF Posting
<1>7. Again' = Again - Hit(pc[t], {"again"}) + Hit(p, {"again"})
  BY <1>3 DEF Again
<1>8. Again' \in Nat
  BY <1>2, CountIsNat DEF Again
<1> QED BY <1>4, <1>5, <1>6, <1>7, <1>8, <1>9

\* The accounting, spelled with the counters.
Counts == /\ Slow = (IF value < 0 THEN -value ELSE 0)
                    + (IF Mach THEN ksig ELSE kern)
                    + (IF Mach THEN Sent ELSE Post)
          /\ Mach => ksig <= kern + Posting + Again

\* It says the same as the two invariants, in a state and in the next.
LEMMA CountsAre == Counts <=> Accounting /\ NoMissedSignal
<1>1. Undelivered = IF Mach THEN Sent ELSE Post
  BY SemaphoreAssumption DEF Undelivered, Sent, Post
<1> QED BY <1>1, CountersAreNat
        DEF Counts, Accounting, NoMissedSignal, Delivered, Posting, Again

LEMMA CountsAreNext == (Counts <=> Accounting /\ NoMissedSignal)'
BY CountsAre, PTL

\* The invariant holds at the start.
LEMMA InitIInv == Init => IInv
<1> SUFFICES ASSUME Init PROVE IInv
  OBVIOUS
<1>1. TypeOK
  BY SemaphoreAssumption
     DEF Init, TypeOK, Points, Kinds, SemaphoreAssumption
<1>2. /\ \A t \in Threads : pc[t] = "idle"
      /\ value = Orig /\ ksig = 0 /\ kern = 0 /\ (~Mach => port)
  BY SemaphoreAssumption DEF Init, SemaphoreAssumption
<1>3. Slow = 0 /\ Sent = 0 /\ Post = 0 /\ Posting = 0 /\ Again = 0
  <2>1. /\ ThreadsAt(Threads, pc, SlowPoints) = {}
        /\ ThreadsAt(Threads, pc, {"sent"}) = {}
        /\ ThreadsAt(Threads, pc, {"post"}) = {}
        /\ ThreadsAt(Threads, pc, {"sigport", "sigcreate", "post"}) = {}
      /\ ThreadsAt(Threads, pc, {"again"}) = {}
    BY <1>2 DEF ThreadsAt, SlowPoints
  <2> QED BY <2>1, SemaphoreAssumption, CountIsNat
          DEF Slow, Sent, Post, Posting, Again, SemaphoreAssumption
<1>4. Accounting /\ NoMissedSignal
  BY <1>2, <1>3, CountsAre, SemaphoreAssumption
     DEF SemaphoreAssumption, Counts
<1>5. BuildInv
  BY <1>2 DEF BuildInv, MachPoints
<1> QED BY <1>1, <1>4, <1>5 DEF IInv

\* The invariant is preserved by every step: an action changes the counters
\* of the program and the counters of threads in step.
LEMMA NextIInv == IInv /\ [Next]_vars => IInv'
<1> SUFFICES ASSUME IInv, [Next]_vars PROVE IInv'
  OBVIOUS
<1> USE DEF IInv
<1>1. TypeOK /\ (Mach \in BOOLEAN) /\ MaxCalls \in Nat
  BY SemaphoreAssumption DEF SemaphoreAssumption
<1>2. /\ Counts
      /\ Slow \in Nat /\ Sent \in Nat /\ Post \in Nat /\ Posting \in Nat
      /\ Again \in Nat
  BY CountsAre, CountersAreNat
<1> USE DEF TypeOK, Points, SlowPoints, SignalPoints, MachPoints, Kinds, Hit,
            SwitchPoint
<1>3. ASSUME NEW t \in Threads, NEW k \in Kinds, Wait(t, k) PROVE IInv'
  <2> DEFINE p == IF value' >= 0 THEN "idle"
                  ELSE IF Mach THEN "again" ELSE SwitchPoint[k]
  <2>1. Goto(t, p) /\ p \in {"idle", "again", "undo", "timedwait", "wait"}
    BY <1>1, <1>3 DEF Wait
  <2>2. TypeOK'
    BY <1>1, <1>3, <2>1 DEF Wait, Call, Goto
  <2>3. Counts'
    BY <1>1, <1>2, <1>3, <2>1, CountersMove DEF Wait, Call, Counts
  <2>4. BuildInv'
    BY <1>1, <1>3, <2>1 DEF Wait, Call, Goto, BuildInv
  <2> QED BY <2>2, <2>3, <2>4, CountsAreNext
<1>4. ASSUME NEW t \in Threads, TakeSentSignal(t) PROVE IInv'
  <2>1. Goto(t, "idle")
    BY <1>4 DEF TakeSentSignal
  <2>2. TypeOK'
    BY <1>1, <1>4, <2>1 DEF TakeSentSignal, Goto
  <2>3. Counts'
    BY <1>1, <1>2, <1>4, <2>1, CountersMove DEF TakeSentSignal, Counts, BuildInv
  <2>4. BuildInv'
    BY <1>1, <1>4, <2>1 DEF TakeSentSignal, Goto, BuildInv
  <2> QED BY <2>2, <2>3, <2>4, CountsAreNext
<1>5. ASSUME NEW t \in Threads, NoSentSignal(t) PROVE IInv'
  <2>1. Goto(t, "waitport")
    BY <1>5 DEF NoSentSignal
  <2>2. TypeOK'
    BY <1>1, <1>5, <2>1 DEF NoSentSignal, Goto
  <2>3. Counts'
    <3>1. Mach /\ pc[t] = "again" /\ ksig = 0
      BY <1>5 DEF NoSentSignal, BuildInv
    <3>2. /\ Slow' = Slow /\ Sent' = Sent /\ Posting' = Posting /\ Again' \in Nat
      BY <1>1, <1>2, <2>1, <3>1, CountersMove
    <3>3. ksig' = 0 /\ value' = value /\ kern' = kern
      BY <1>5, <3>1 DEF NoSentSignal
    <3>4. kern \in Nat /\ value \in Int
      BY <1>1
    <3>5. 0 <= kern + Posting + Again'
      <4>1. kern \in Nat /\ Posting \in Nat /\ Again' \in Nat
        BY <1>2, <3>2, <3>4
      <4>2. \A a, b, c \in Nat : 0 <= a + b + c
        OBVIOUS
      <4> QED BY <4>1, <4>2
    <3>6. Slow = (IF value < 0 THEN -value ELSE 0) + ksig + Sent
      BY <1>2, <3>1 DEF Counts
    <3> QED BY <3>1, <3>2, <3>3, <3>5, <3>6 DEF Counts
  <2>4. BuildInv'
    BY <1>1, <1>5, <2>1 DEF NoSentSignal, Goto, BuildInv
  <2> QED BY <2>2, <2>3, <2>4, CountsAreNext
<1>6. ASSUME NEW t \in Threads, KernelWake(t) PROVE IInv'
  <2> DEFINE p == AfterWake
  <2>1. Goto(t, p) /\ p \in Points
    BY <1>1, <1>6 DEF KernelWake, AfterWake
  <2>2. TypeOK'
    BY <1>1, <1>6, <2>1 DEF KernelWake, AfterWake, Goto
  <2>3. Counts'
    BY <1>1, <1>2, <1>6, <2>1, CountersMove DEF KernelWake, AfterWake, Counts, BuildInv
  <2>4. BuildInv'
    BY <1>1, <1>6, <2>1 DEF KernelWake, AfterWake, Goto, BuildInv
  <2> QED BY <2>2, <2>3, <2>4, CountsAreNext
<1>7. ASSUME NEW t \in Threads, SpuriousWake(t) PROVE IInv'
  <2>1. Goto(t, "again")
    BY <1>7 DEF SpuriousWake
  <2>2. TypeOK'
    BY <1>1, <1>7, <2>1 DEF SpuriousWake, Goto
  <2>3. Counts'
    BY <1>1, <1>2, <1>7, <2>1, CountersMove DEF SpuriousWake, Counts, BuildInv
  <2>4. BuildInv'
    BY <1>1, <1>7, <2>1 DEF SpuriousWake, Goto, BuildInv
  <2> QED BY <2>2, <2>3, <2>4, CountsAreNext
<1>8. ASSUME NEW t \in Threads, KernelTimeout(t) PROVE IInv'
  <2>1. Goto(t, "undo")
    BY <1>8 DEF KernelTimeout
  <2>2. TypeOK'
    BY <1>1, <1>8, <2>1 DEF KernelTimeout, Goto
  <2>3. Counts'
    BY <1>1, <1>2, <1>8, <2>1, CountersMove DEF KernelTimeout, Counts, BuildInv
  <2>4. BuildInv'
    BY <1>1, <1>8, <2>1 DEF KernelTimeout, Goto, BuildInv
  <2> QED BY <2>2, <2>3, <2>4, CountsAreNext
<1>9. ASSUME NEW t \in Threads, Undo(t) PROVE IInv'
  <2>1. Goto(t, "idle")
    BY <1>9 DEF Undo
  <2>2. TypeOK'
    BY <1>1, <1>9, <2>1 DEF Undo, Goto
  <2>3. Counts'
    BY <1>1, <1>2, <1>9, <2>1, CountersMove DEF Undo, Counts, BuildInv
  <2>4. BuildInv'
    BY <1>1, <1>9, <2>1 DEF Undo, Goto, BuildInv
  <2> QED BY <2>2, <2>3, <2>4, CountsAreNext
<1>10. ASSUME NEW t \in Threads, UndoTooLate(t) PROVE IInv'
  <2>1. Goto(t, "wait")
    BY <1>10 DEF UndoTooLate
  <2>2. TypeOK'
    BY <1>1, <1>10, <2>1 DEF UndoTooLate, Goto
  <2>3. Counts'
    BY <1>1, <1>2, <1>10, <2>1, CountersMove DEF UndoTooLate, Counts, BuildInv
  <2>4. BuildInv'
    BY <1>1, <1>10, <2>1 DEF UndoTooLate, Goto, BuildInv
  <2> QED BY <2>2, <2>3, <2>4, CountsAreNext
<1>11. ASSUME NEW t \in Threads, Signal(t) PROVE IInv'
  <2> DEFINE p == IF value' > 0 THEN "idle" ELSE IF Mach THEN "sent" ELSE "post"
  <2>1. Goto(t, p) /\ p \in Points
    BY <1>1, <1>11 DEF Signal
  <2>2. TypeOK'
    BY <1>1, <1>11, <2>1 DEF Signal, Call, Goto
  <2>3. Counts'
    BY <1>1, <1>2, <1>11, <2>1, CountersMove DEF Signal, Call, Counts, BuildInv
  <2>4. BuildInv'
    BY <1>1, <1>11, <2>1 DEF Signal, Call, Goto, BuildInv
  <2> QED BY <2>2, <2>3, <2>4, CountsAreNext
<1>12. ASSUME NEW t \in Threads, CountSent(t) PROVE IInv'
  <2>1. Goto(t, "sigport")
    BY <1>12 DEF CountSent
  <2>2. TypeOK'
    BY <1>1, <1>12, <2>1 DEF CountSent, Goto
  <2>3. Counts'
    BY <1>1, <1>2, <1>12, <2>1, CountersMove DEF CountSent, Counts, BuildInv
  <2>4. BuildInv'
    BY <1>1, <1>12, <2>1 DEF CountSent, Goto, BuildInv
  <2> QED BY <2>2, <2>3, <2>4, CountsAreNext
<1>13. ASSUME NEW t \in Threads, KernelSignal(t) PROVE IInv'
  <2>1. Goto(t, "idle")
    BY <1>13 DEF KernelSignal
  <2>2. TypeOK'
    BY <1>1, <1>13, <2>1 DEF KernelSignal, Goto
  <2>3. Counts'
    BY <1>1, <1>2, <1>13, <2>1, CountersMove DEF KernelSignal, Counts, BuildInv
  <2>4. BuildInv'
    BY <1>1, <1>13, <2>1 DEF KernelSignal, Goto, BuildInv
  <2> QED BY <2>2, <2>3, <2>4, CountsAreNext
<1>14. ASSUME NEW t \in Threads, TestPort(t) PROVE IInv'
  <2>1. PICK p \in Points \ {"idle", "again", "sent"} :
            /\ Goto(t, p)
            /\ pc[t] \in SlowPoints <=> p \in SlowPoints
    BY <1>1, <1>14 DEF TestPort, AfterPort
  <2>2. TypeOK'
    BY <1>1, <1>14, <2>1 DEF TestPort, Goto
  <2>3. Counts'
    <3>1. Mach /\ pc[t] \notin {"sent", "post", "again"}
      BY <1>14 DEF TestPort, BuildInv
    <3>2. /\ Slow' = Slow /\ Sent' = Sent /\ Posting' = Posting /\ Again' = Again
      BY <1>1, <1>2, <1>14, <2>1, <3>1, CountersMove DEF TestPort, AfterPort
    <3> QED BY <1>1, <1>2, <1>14, <3>1, <3>2 DEF TestPort, Counts
  <2>4. BuildInv'
    BY <1>1, <1>14, <2>1 DEF TestPort, Goto, BuildInv
  <2> QED BY <2>2, <2>3, <2>4, CountsAreNext
<1>15. ASSUME NEW t \in Threads, PublishPort(t) PROVE IInv'
  <2>1. PICK p \in Points \ {"idle", "again", "sent"} :
            /\ Goto(t, p)
            /\ pc[t] \in SlowPoints <=> p \in SlowPoints
    BY <1>1, <1>15 DEF PublishPort, AfterPort
  <2>2. TypeOK'
    BY <1>1, <1>15, <2>1 DEF PublishPort, Goto
  <2>3. Counts'
    <3>1. Mach /\ pc[t] \notin {"sent", "post", "again"}
      BY <1>15 DEF PublishPort, BuildInv
    <3>2. /\ Slow' = Slow /\ Sent' = Sent /\ Posting' = Posting /\ Again' = Again
      BY <1>1, <1>2, <1>15, <2>1, <3>1, CountersMove DEF PublishPort, AfterPort
    <3> QED BY <1>1, <1>2, <1>15, <3>1, <3>2 DEF PublishPort, Counts
  <2>4. BuildInv'
    BY <1>1, <1>15, <2>1 DEF PublishPort, Goto, BuildInv
  <2> QED BY <2>2, <2>3, <2>4, CountsAreNext
<1>16. CASE UNCHANGED vars
  BY <1>1, <1>16 DEF vars, Accounting, NoMissedSignal, BuildInv,
     SlowWaiters, Delivered, Undelivered
<1> QED BY <1>3, <1>4, <1>5, <1>6, <1>7, <1>8, <1>9, <1>10, <1>11, <1>12, <1>13,
           <1>14, <1>15, <1>16 DEF Next, Step

\* Type correctness, for every instance.
THEOREM TypeCorrect == Spec => []TypeOK
<1>1. IInv => TypeOK
  BY DEF IInv
<1> QED BY <1>1, InitIInv, NextIInv, PTL DEF Spec

\* Every thread of the slow path is covered by the negative part of
\* dsema_value or by exactly one unit on its way: semaphore.c never hands out
\* more units than were signalled and never loses one.
THEOREM AccountingHolds == Spec => []Accounting
<1>1. IInv => Accounting
  BY DEF IInv
<1> QED BY <1>1, InitIInv, NextIInv, PTL DEF Spec

\* A signal counted in dsema_sent_ksignals always finds, or will wake, a
\* thread that looks at the count, whoever wins the race to create the port.
THEOREM NoMissedSignalHolds == Spec => []NoMissedSignal
<1>1. IInv => NoMissedSignal
  BY DEF IInv
<1> QED BY <1>1, InitIInv, NextIInv, PTL DEF Spec

\* The number of waiters means the same in the abstract specification.
LEMMA AbstractCardinality == \A S : Abstract!Cardinality(S) = Cardinality(S)
BY DEF Abstract!Cardinality, Cardinality

\* The semaphore implements the abstract counting semaphore: the units it
\* has handed out, and to whom, are exactly those of the promise; a thread
\* gives up only when there are fewer units than waiters.
THEOREM ImplementsCountingSemaphore == Spec => AbstractSpec
<1> DEFINE avail == value + Cardinality(SlowWaiters)
<1>1. ASSUME Init PROVE Abstract!Init
  <2>1. SlowWaiters = {}
    BY <1>1 DEF Init, SlowWaiters, ThreadsAt, SlowPoints
  <2> QED BY <2>1, <1>1, FS_EmptySet, SemaphoreAssumption
          DEF Abstract!Init, Init, SemaphoreAssumption
<1>2. ASSUME IInv, IInv', [Next]_vars
      PROVE  [Abstract!Next]_Abstract!semVars
  <2>1. /\ TypeOK /\ TypeOK' /\ Counts /\ BuildInv
        /\ Slow \in Nat /\ Sent \in Nat /\ Post \in Nat
        /\ Slow = Cardinality(SlowWaiters)
    BY <1>2, CountsAre, CountersAreNat DEF IInv
  <2>2. Slow' = Cardinality(SlowWaiters')
    BY DEF Slow, SlowWaiters, CountAt
  <2> USE DEF Hit, Points, SlowPoints, SignalPoints, Kinds, SwitchPoint
  \* How the set of slow waiters changes when a thread moves.
  <2>3. ASSUME NEW t \in Threads, NEW p, Goto(t, p)
        PROVE  SlowWaiters' = IF p \in SlowPoints THEN SlowWaiters \cup {t}
                                                 ELSE SlowWaiters \ {t}
    BY <2>1, <2>3 DEF Goto, TypeOK, SlowWaiters, ThreadsAt
  <2>4. ASSUME NEW t \in Threads, NEW k \in Kinds, Wait(t, k)
        PROVE  Abstract!Acquire \/ Abstract!Block(t)
    <3> DEFINE p == IF value' >= 0 THEN "idle"
                    ELSE IF Mach THEN "again" ELSE SwitchPoint[k]
    <3>1. Goto(t, p) /\ pc[t] = "idle" /\ value' = value - 1
      BY <2>4 DEF Wait, Call
    <3>2. Slow' = Slow + Hit(p, SlowPoints)
      BY <2>1, <3>1, CountersMove
    <3>3. t \notin SlowWaiters
      BY <3>1 DEF SlowWaiters, ThreadsAt
    <3>4. CASE value' >= 0
      <4>1. p = "idle"
        BY <3>4
      <4>2. Slow' = Slow /\ SlowWaiters' = SlowWaiters
        BY <4>1, <2>1, <2>3, <3>1, <3>2, <3>3
      <4> QED BY <4>2, <2>1, <2>2, <3>1, <3>4, AbstractCardinality
             DEF Abstract!Acquire, TypeOK
    <3>5. CASE ~(value' >= 0)
      <4>1. p \in SlowPoints
        BY <3>5
      <4>2. Slow' = Slow + 1 /\ SlowWaiters' = SlowWaiters \cup {t}
        BY <4>1, <2>1, <2>3, <3>1, <3>2
      <4> QED BY <4>2, <2>1, <2>2, <3>1, <3>3, <3>5, AbstractCardinality
             DEF Abstract!Block, TypeOK
    <3> QED BY <3>4, <3>5
  \* A slow waiter returns with a unit.
  <2>5. ASSUME NEW t \in Threads, pc[t] \in SlowPoints, Goto(t, "idle"),
               value' = value, (IF Mach THEN ksig ELSE kern) > 0
        PROVE  Abstract!Grant(t)
    <3>1. t \in SlowWaiters /\ SlowWaiters' = SlowWaiters \ {t}
      BY <2>3, <2>5 DEF SlowWaiters, ThreadsAt
    <3>2. Slow' = Slow - 1
      BY <2>1, <2>5, CountersMove
    <3>3. value + Slow > 0
      BY <2>1, <2>5 DEF Counts, TypeOK
    <3> QED BY <3>1, <3>2, <3>3, <2>1, <2>2, <2>5 DEF Abstract!Grant, TypeOK
  \* A thread moves within the slow path, or outside of it.
  <2>6. ASSUME NEW t \in Threads, NEW p, Goto(t, p), value' = value,
               pc[t] \in SlowPoints <=> p \in SlowPoints
        PROVE  UNCHANGED Abstract!semVars
    <3>1. SlowWaiters' = SlowWaiters
      BY <2>3, <2>6 DEF SlowWaiters, ThreadsAt
    <3> QED BY <3>1, <2>6 DEF Abstract!semVars
  <2>7. ASSUME NEW t \in Threads, Undo(t) PROVE Abstract!GiveUp(t)
    <3>1. /\ Goto(t, "idle") /\ pc[t] = "undo"
          /\ value < 0 /\ value' = value + 1
      BY <2>7 DEF Undo
    <3>2. t \in SlowWaiters /\ SlowWaiters' = SlowWaiters \ {t}
      BY <2>3, <3>1 DEF SlowWaiters, ThreadsAt
    <3>3. Slow' = Slow - 1
      BY <2>1, <3>1, CountersMove
    <3> QED BY <3>1, <3>2, <3>3, <2>1, <2>2, AbstractCardinality
             DEF Abstract!GiveUp, TypeOK
  <2>8. ASSUME NEW t \in Threads, Signal(t) PROVE Abstract!Signal
    <3> DEFINE p == IF value' > 0 THEN "idle" ELSE IF Mach THEN "sent" ELSE "post"
    <3>1. /\ Goto(t, p) /\ pc[t] = "idle" /\ p \notin SlowPoints
          /\ value' = value + 1
      BY <2>8 DEF Signal, Call
    <3>2. SlowWaiters' = SlowWaiters
      BY <2>3, <3>1 DEF SlowWaiters, ThreadsAt
    <3>3. Slow' = Slow
      BY <2>1, <3>1, CountersMove
    <3> QED BY <3>1, <3>2, <3>3, <2>1, <2>2 DEF Abstract!Signal, TypeOK
  <2>9. ASSUME NEW t \in Threads, TakeSentSignal(t) PROVE Abstract!Grant(t)
    <3>1. Mach
      BY <2>1, <2>9 DEF TakeSentSignal, BuildInv, MachPoints
    <3> QED BY <3>1, <2>5, <2>9 DEF TakeSentSignal
  <2>10. ASSUME NEW t \in Threads, KernelWake(t)
         PROVE  Abstract!Grant(t) \/ UNCHANGED Abstract!semVars
    <3>1. CASE Mach
      BY <3>1, <2>6, <2>10 DEF KernelWake, AfterWake
    <3>2. CASE ~Mach
      BY <3>2, <2>5, <2>10 DEF KernelWake, AfterWake
    <3> QED BY <3>1, <3>2
  <2>11. ASSUME NEW t \in Threads,
                \/ NoSentSignal(t) \/ SpuriousWake(t) \/ KernelTimeout(t)
                \/ UndoTooLate(t) \/ CountSent(t) \/ KernelSignal(t)
                \/ TestPort(t) \/ PublishPort(t)
         PROVE  UNCHANGED Abstract!semVars
    <3>1. CASE NoSentSignal(t)
      BY <3>1, <2>6 DEF NoSentSignal
    <3>2. CASE SpuriousWake(t)
      BY <3>2, <2>6 DEF SpuriousWake
    <3>3. CASE KernelTimeout(t)
      BY <3>3, <2>6 DEF KernelTimeout
    <3>4. CASE UndoTooLate(t)
      BY <3>4, <2>6 DEF UndoTooLate
    <3>5. CASE CountSent(t)
      BY <3>5, <2>6 DEF CountSent
    <3>6. CASE KernelSignal(t)
      BY <3>6, <2>6 DEF KernelSignal
    <3>7. SwitchPoint[kind[t]] \in SlowPoints
      BY <2>1 DEF TypeOK
    <3>8. CASE TestPort(t)
      BY <3>8, <3>7, <2>6 DEF TestPort, AfterPort
    <3>9. CASE PublishPort(t)
      BY <3>9, <3>7, <2>6 DEF PublishPort, AfterPort
    <3> QED BY <2>11, <3>1, <3>2, <3>3, <3>4, <3>5, <3>6, <3>8, <3>9
  <2>12. CASE UNCHANGED vars
    BY <2>12 DEF vars, Abstract!semVars, SlowWaiters
  <2> QED BY <1>2, <2>4, <2>7, <2>8, <2>9, <2>10, <2>11, <2>12
          DEF Next, Step, Abstract!Next
<1> QED BY <1>1, <1>2, InitIInv, NextIInv, PTL DEF Spec, AbstractSpec, Abstract!Spec
=============================================================================
