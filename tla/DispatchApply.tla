---------------------------- MODULE DispatchApply ----------------------------
(***************************************************************************)
(* dispatch_apply (apply.c): one call, its caller and its helpers.         *)
(*                                                                         *)
(* A record shared by the caller and the helpers hands out the iterations  *)
(* (da_index), counts those that are done (da_done), and is freed by       *)
(* whoever is the last to leave (da_thr_cnt).  On a queue with a target    *)
(* the caller first enters the queue by dispatch_sync, and reserves width  *)
(* for its helpers on each queue of the chain down to the root queue: it   *)
(* adds what it wants to dq_running and takes the excess back.             *)
(*                                                                         *)
(* Queue q has the target q + 1, and the last one's target is the root     *)
(* queue, Root, which has none.  dq_running and da_thr_cnt are unsigned.   *)
(***************************************************************************)
EXTENDS ThreadCount, Sequences

CONSTANTS Width,    \* dq_width of the queues 1..Len(Width)
          Callers,  \* threads that call dispatch_apply, each once
          MaxCPUs,  \* cc_max_active, and DISPATCH_APPLY_MAX_CPUS
          MaxIter,  \* bound: iterations of a call
          MaxOthers,\* bound: drains and readers beside the calls
          Word      \* 2^32

Queues == 1..Len(Width)
Root == Len(Width) + 1
Helpers == Callers \X (1..MaxCPUs - 1)

ASSUME ApplyAssumption == /\ Width \in Seq(Nat \ {0})
                          /\ IsFiniteSet(Callers) /\ Callers \cap Helpers = {}
                          /\ {MaxCPUs, MaxIter} \subseteq Nat \ {0}
                          /\ MaxOthers \in Nat
                          /\ Word \in Nat /\ Word > 2 * MaxCPUs

VARIABLES running,            \* dq_running of each queue
          draining, readers,  \* its low bit is a drainer's; others in dispatch_sync
          others,             \* drains and readers so far
          first, iters,       \* per caller: queue and iterations of its call
          thr, index, doneCnt,\* the record: da_thr_cnt, da_index, da_done
          freed, sema,        \* the record is freed; da_sema
          width, excess,      \* locals da_width and excess
          lv, back,           \* the queue a caller's loop is at; that of its undo loop
          pc, mine, idx,      \* per caller and helper: place, done, idx
          ran                 \* how often each iteration ran

record == <<thr, index, doneCnt, freed, sema>>
locals == <<width, excess, lv, back>>
queue == <<running, draining, readers, others>>
call == <<first, iters>>
work == <<mine, idx, ran>>
vars == <<queue, call, record, locals, pc, work>>

Procs == Callers \cup Helpers
RecordOf(p) == IF p \in Callers THEN p ELSE p[1]
InvokePoints == {"take", "call", "finish", "signal", "dec"}
ReservePoints == {"reserve", "compare", "undo", "adjust", "next"}
Points == {"idle", "enter", "serial", "f2", "wait", "unreserve", "exit", "done",
           "none", "queued"} \cup InvokePoints \cup ReservePoints

Init == /\ running = [q \in Queues |-> 0]
        /\ draining = [q \in Queues |-> FALSE]
        /\ readers = [q \in Queues |-> 0] /\ others = 0
        /\ first \in [Callers -> 1..Root] /\ iters \in [Callers -> 1..MaxIter]
        /\ thr = [c \in Callers |-> IF iters[c] < MaxCPUs THEN iters[c] ELSE MaxCPUs]
        /\ index = [c \in Callers |-> 0]
        /\ doneCnt = [c \in Callers |-> 0]
        /\ freed = [c \in Callers |-> FALSE]
        /\ sema = [c \in Callers |-> 0]
        /\ width = [c \in Callers |-> 0] /\ excess = [c \in Callers |-> 0]
        /\ lv = [c \in Callers |-> first[c]] /\ back = [c \in Callers |-> Root]
        /\ pc = [p \in Procs |-> IF p \in Callers THEN "idle" ELSE "none"]
        /\ mine = [p \in Procs |-> 0] /\ idx = [p \in Procs |-> 0]
        /\ ran = [c \in Callers |-> [i \in 0..MaxIter - 1 |-> 0]]

Goto(p, q) == pc' = [pc EXCEPT ![p] = q]
Move(p, a, b) == pc[p] = a /\ Goto(p, b)
Set(f, p, v) == [f EXCEPT ![p] = v]

\* No helpers: a narrow queue, or one iteration, or one CPU.
Serial(c) == thr[c] <= 1 \/ (first[c] # Root /\ Width[first[c]] <= 2)

-----------------------------------------------------------------------------
(* The others on a queue: a drain, which holds the low bit, and readers.    *)

DrainBegins(q) ==
    /\ others < MaxOthers /\ Width[q] > 1 /\ running[q] = 0
    /\ running' = [running EXCEPT ![q] = @ + 1]
    /\ draining' = [draining EXCEPT ![q] = TRUE]
    /\ others' = others + 1
    /\ UNCHANGED <<readers, call, record, locals, pc, work>>

DrainEnds(q) ==
    /\ draining[q]
    /\ running' = [running EXCEPT ![q] = @ - 1]
    /\ draining' = [draining EXCEPT ![q] = FALSE]
    /\ UNCHANGED <<readers, others, call, record, locals, pc, work>>

\* A reader counts 2, and the only one of a serial queue 1.  It enters beside
\* other readers whatever the width, but with a drain, which lets it in, only up to
\* the width.
Share(q) == IF Width[q] = 1 THEN 1 ELSE 2
MayEnter(q) == IF Width[q] = 1 THEN running[q] = 0
                               ELSE draining[q] => running[q] <= Width[q]

ReaderEnters(q) ==
    /\ others < MaxOthers /\ MayEnter(q)
    /\ running' = [running EXCEPT ![q] = @ + Share(q)]
    /\ readers' = [readers EXCEPT ![q] = @ + 1]
    /\ others' = others + 1
    /\ UNCHANGED <<draining, call, record, locals, pc, work>>

ReaderLeaves(q) ==
    /\ readers[q] > 0
    /\ running' = [running EXCEPT ![q] = (@ - Share(q)) % Word]
    /\ readers' = [readers EXCEPT ![q] = @ - 1]
    /\ UNCHANGED <<draining, others, call, record, locals, pc, work>>

-----------------------------------------------------------------------------
(* dispatch_apply_f, and dispatch_sync_f through the chain of queues.      *)

Start(c) ==
    /\ pc[c] = "idle"
    /\ Goto(c, IF first[c] # Root THEN "enter" ELSE IF Serial(c) THEN "serial" ELSE "f2")
    /\ UNCHANGED <<queue, call, record, locals, work>>

Enter(c) ==
    LET q == lv[c] IN
    /\ pc[c] = "enter"
    /\ MayEnter(q)
    /\ running' = [running EXCEPT ![q] = @ + Share(q)]
    /\ IF q + 1 < Root THEN lv' = Set(lv, c, q + 1) /\ UNCHANGED <<pc, width>>
       ELSE /\ lv' = Set(lv, c, first[c])
            /\ Goto(c, IF Serial(c) THEN "serial" ELSE "reserve")
            /\ width' = Set(width, c, IF Serial(c) THEN 0 ELSE 2 * (thr[c] - 1))
    /\ UNCHANGED <<draining, readers, others, call, record, excess, back, work>>

\* Out of the chain, the last queue first.
Exit(c) ==
    LET q == lv[c] IN
    /\ pc[c] = "exit"
    /\ running' = [running EXCEPT ![q] = @ - Share(q)]
    /\ IF q > first[c] THEN lv' = Set(lv, c, q - 1) /\ UNCHANGED pc
                       ELSE Goto(c, "done") /\ UNCHANGED lv
    /\ UNCHANGED <<draining, readers, others, call, record, width, excess, back, work>>

Leave(c) == /\ Goto(c, IF first[c] = Root THEN "done" ELSE "exit")
            /\ lv' = Set(lv, c, Root - 1)

\* _dispatch_apply_serial.
ApplySerial(c) ==
    /\ pc[c] = "serial"
    /\ ran' = [ran EXCEPT ![c][idx[c]] = @ + 1]
    /\ IF idx[c] + 1 < iters[c]
       THEN idx' = Set(idx, c, idx[c] + 1) /\ UNCHANGED <<pc, lv, freed>>
       ELSE idx' = Set(idx, c, 0) /\ freed' = Set(freed, c, TRUE) /\ Leave(c)
    /\ UNCHANGED <<queue, call, thr, index, doneCnt, sema, width, excess, back, mine>>

-----------------------------------------------------------------------------
(* _dispatch_apply_redirect.                                               *)

\* Add da_width to dq_running; the excess is what is beyond the width, or all of
\* it on a serial queue.
Reserve(c) ==
    LET q == lv[c]
        new == (running[q] + width[c]) % Word IN
    /\ pc[c] = "reserve"
    /\ running' = [running EXCEPT ![q] = new]
    /\ IF new > Width[q]
       THEN /\ excess' = Set(excess, c, IF Width[q] > 1 THEN new - Width[q] ELSE width[c])
            /\ back' = Set(back, c, first[c])
            /\ Goto(c, "undo")
       ELSE Goto(c, "next") /\ UNCHANGED <<excess, back>>
    /\ UNCHANGED <<draining, readers, others, call, record, width, lv, work>>

\* (Variant: the excess is taken back on this queue only.)
UndoHere(c) ==
    /\ Move(c, "undo", "adjust")
    /\ running' = [running EXCEPT ![lv[c]] = (@ - excess[c]) % Word]
    /\ UNCHANGED <<draining, readers, others, call, record, locals, work>>

\* Take the excess back on this queue and on those before it.
Undo(c) ==
    /\ pc[c] = "undo"
    /\ running' = [running EXCEPT ![back[c]] = (@ - excess[c]) % Word]
    /\ IF back[c] = lv[c] THEN Goto(c, "adjust") /\ back' = Set(back, c, Root)
                          ELSE back' = Set(back, c, back[c] + 1) /\ UNCHANGED pc
    /\ UNCHANGED <<draining, readers, others, call, record, width, excess, lv, work>>

\* Fewer helpers, or none.
Adjust(c) ==
    /\ pc[c] = "adjust"
    /\ width' = Set(width, c, (width[c] - excess[c]) % Word)
    /\ excess' = Set(excess, c, 0)
    /\ IF width'[c] = 0 THEN Goto(c, "serial") /\ UNCHANGED thr
       ELSE Goto(c, "next") /\ thr' = Set(thr, c, (thr[c] - excess[c] \div 2) % Word)
    /\ UNCHANGED <<queue, call, index, doneCnt, freed, sema, lv, back, work>>

NextQueue(c) ==
    /\ Move(c, "next", IF lv[c] + 1 < Root THEN "reserve" ELSE "f2")
    /\ lv' = Set(lv, c, IF lv[c] + 1 < Root THEN lv[c] + 1 ELSE first[c])
    /\ UNCHANGED <<queue, call, record, width, excess, back, work>>

\* After the call: give the width back, on one queue after the other.
Unreserve(c) ==
    LET q == lv[c] IN
    /\ pc[c] = "unreserve"
    /\ running' = [running EXCEPT ![q] = (@ - width[c]) % Word]
    /\ IF q + 1 < Root THEN lv' = Set(lv, c, q + 1) /\ UNCHANGED <<pc, width>>
                       ELSE Leave(c) /\ width' = Set(width, c, 0)
    /\ UNCHANGED <<draining, readers, others, call, record, excess, back, work>>

-----------------------------------------------------------------------------
(* _dispatch_apply_f2 and _dispatch_apply_invoke.                          *)

ContinuationCnt(c) == (thr[c] - 1) % Word

\* One continuation for each thread but this one, pushed as a list.  With none the
\* process ends here in either build: by the assertion, or where push_list2
\* writes through the tail, which is NULL.  A da_thr_cnt that has wrapped to 0 asks
\* for Word - 1 continuations; the helpers bound what is followed at MaxCPUs - 1.
PushHelpers(c) ==
    /\ pc[c] = "f2"
    /\ ContinuationCnt(c) \in 1..MaxCPUs - 1
    /\ pc' = [p \in Procs |-> IF p = c THEN "take"
                              ELSE IF p \in Helpers /\ p[1] = c /\ p[2] <= ContinuationCnt(c)
                              THEN "queued" ELSE pc[p]]
    /\ UNCHANGED <<queue, call, record, locals, work>>

\* A thread of the root queue comes to a continuation, or never does.
HelperStarts(h) ==
    /\ Move(h, "queued", "take")
    /\ UNCHANGED <<queue, call, record, locals, work>>

Take(p) ==
    LET c == RecordOf(p) IN
    /\ pc[p] = "take"
    /\ index' = Set(index, c, index[c] + 1)
    /\ IF index[c] < iters[c] THEN Goto(p, "call") /\ idx' = Set(idx, p, index[c])
                              ELSE Goto(p, "finish") /\ idx' = Set(idx, p, 0)
    /\ UNCHANGED <<queue, call, thr, doneCnt, freed, sema, locals, mine, ran>>

CallIteration(p) ==
    /\ Move(p, "call", "take")
    /\ ran' = [ran EXCEPT ![RecordOf(p)][idx[p]] = @ + 1]
    /\ mine' = Set(mine, p, mine[p] + 1)
    /\ UNCHANGED <<queue, call, record, locals, idx>>

\* (Variant: the iterations are counted when they are handed out.)
FinishEarly(p) ==
    LET c == RecordOf(p) IN
    /\ pc[p] = "finish"
    /\ doneCnt' = Set(doneCnt, c, doneCnt[c] + mine[p])
    /\ Goto(p, IF index[c] >= iters[c] THEN "signal" ELSE "dec")
    /\ mine' = Set(mine, p, 0)
    /\ UNCHANGED <<queue, call, thr, index, freed, sema, locals, idx, ran>>

\* (Variant: the count before the addition is compared.)
FinishFetchAdd(p) ==
    LET c == RecordOf(p) IN
    /\ pc[p] = "finish"
    /\ doneCnt' = Set(doneCnt, c, doneCnt[c] + mine[p])
    /\ Goto(p, IF mine[p] > 0 /\ doneCnt[c] = iters[c] THEN "signal" ELSE "dec")
    /\ mine' = Set(mine, p, 0)
    /\ UNCHANGED <<queue, call, thr, index, freed, sema, locals, idx, ran>>

\* Whoever completes the count wakes the caller.
Finish(p) ==
    LET c == RecordOf(p)
        new == doneCnt[c] + mine[p] IN
    /\ pc[p] = "finish"
    /\ doneCnt' = Set(doneCnt, c, new)
    /\ Goto(p, IF mine[p] > 0 /\ new = iters[c] THEN "signal" ELSE "dec")
    /\ mine' = Set(mine, p, 0)
    /\ UNCHANGED <<queue, call, thr, index, freed, sema, locals, idx, ran>>

Signal(p) ==
    /\ Move(p, "signal", "dec")
    /\ sema' = Set(sema, RecordOf(p), sema[RecordOf(p)] + 1)
    /\ UNCHANGED <<queue, call, thr, index, doneCnt, freed, locals, work>>

\* (Variant: the caller, who waits for all, frees the record.)
CallerFrees(p) ==
    /\ pc[p] = "dec"
    /\ thr' = Set(thr, RecordOf(p), thr[RecordOf(p)] - 1)
    /\ freed' = IF p \in Callers THEN Set(freed, p, TRUE) ELSE freed
    /\ Goto(p, IF p \in Callers THEN "wait" ELSE "done")
    /\ UNCHANGED <<queue, call, index, doneCnt, sema, locals, work>>

\* Whoever leaves last frees the record.
Dec(p) ==
    LET c == RecordOf(p) IN
    /\ pc[p] = "dec"
    /\ thr' = Set(thr, c, thr[c] - 1)
    /\ freed' = IF thr[c] = 1 THEN Set(freed, c, TRUE) ELSE freed
    /\ Goto(p, IF p \in Callers THEN "wait" ELSE "done")
    /\ UNCHANGED <<queue, call, index, doneCnt, sema, locals, work>>

Wait(c) ==
    /\ pc[c] = "wait" /\ sema[c] > 0
    /\ sema' = Set(sema, c, sema[c] - 1)
    /\ IF first[c] = Root THEN Goto(c, "done") ELSE Goto(c, "unreserve")
    /\ UNCHANGED <<queue, call, thr, index, doneCnt, freed, locals, work>>

-----------------------------------------------------------------------------
Invoke(p) == Take(p) \/ CallIteration(p) \/ Finish(p) \/ Signal(p) \/ Dec(p)

CallerStep(c) ==
    \/ Enter(c) \/ Exit(c) \/ ApplySerial(c)
    \/ Reserve(c) \/ Undo(c) \/ Adjust(c) \/ NextQueue(c) \/ Unreserve(c)
    \/ PushHelpers(c) \/ Invoke(c) \/ Wait(c)

Next == \/ \E c \in Callers : Start(c) \/ CallerStep(c)
        \/ \E h \in Helpers : HelperStarts(h) \/ Invoke(h)
        \/ \E q \in Queues : \/ DrainBegins(q) \/ DrainEnds(q)
                           \/ ReaderEnters(q) \/ ReaderLeaves(q)

\* A helper that has started goes on; whether one starts is up to the pool.
Fairness == /\ \A c \in Callers : WF_vars(CallerStep(c))
            /\ \A h \in Helpers : WF_vars(Invoke(h))
            /\ \A q \in Queues : WF_vars(DrainEnds(q)) /\ WF_vars(ReaderLeaves(q))

Spec == Init /\ [][Next]_vars
FairSpec == Spec /\ Fairness

-----------------------------------------------------------------------------
\* Each iteration runs once, and all have run when the call returns or is about
\* to (da_index hands them out, da_done counts them: _dispatch_apply_invoke).
EachIterationOnce ==
    \A c \in Callers : \A i \in 0..iters[c] - 1 :
        /\ ran[c][i] <= 1
        /\ pc[c] \in {"unreserve", "exit", "done"} => ran[c][i] = 1

\* The record is freed after everyone is through with it, even a helper that
\* starts when the call has returned long ago (apply.c, da_thr_cnt).
RecordAlive ==
    \A p \in Procs : pc[p] \in InvokePoints \cup {"queued"} => ~freed[RecordOf(p)]

\* What the calls have taken from the width is accounted for on each queue of their
\* chains, while they run and after they have given it back; and where the width has
\* room for the readers, a call takes no more back than it added
\* (_dispatch_apply_redirect).
Taken(c, q) == IF q < first[c] \/ pc[c] \in {"idle", "done"} THEN 0 ELSE Share(q) + width[c]
ReservationsFit ==
    /\ \A c \in Callers : width[c] \in 0..2 * (MaxCPUs - 1)
    /\ (\A c \in Callers : pc[c] \notin ReservePoints \cup {"enter", "unreserve", "exit"})
       => \A q \in Queues :
              running[q] = Share(q) * readers[q] + (IF draining[q] THEN 1 ELSE 0)
                              + Total(Callers, [c \in Callers |-> Taken(c, q)])

\* "dispatch_assert(continuation_cnt)" (apply.c:105): whoever comes to push has
\* something to push.
ContinuationCounted == \A c \in Callers : pc[c] = "f2" => ContinuationCnt(c) # 0

\* A call returns even if no helper ever starts.
CallReturns == \A c \in Callers : pc[c] # "idle" ~> pc[c] = "done"
=============================================================================
