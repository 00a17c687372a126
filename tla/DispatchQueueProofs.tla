------------------------ MODULE DispatchQueueProofs ------------------------
(***************************************************************************)
(* Proofs about DispatchQueue, for any finite sets of clients, workers and *)
(* blocks, any width, any calls and any number of suspensions.             *)
(*                                                                         *)
(* The argument is a count.  Every thread is given what it holds at its    *)
(* point of the code: the low bit of dq_running, a share of two in it, the *)
(* right to take items from the list.  RunningCount says that dq_running   *)
(* covers the bits and shares of all threads and blocks, OneToken that the *)
(* right to the list exists once, even while a lock is transferred.  So a  *)
(* barrier that finds nothing but its own bit in dq_running is Alone.      *)
(*                                                                         *)
(* The second half is about serial queues.  There every block is a barrier *)
(* and the counters are exact; a witness names the items in the order they *)
(* were pushed, and where the list begins (Line), whoever holds a part of  *)
(* it.  From this follow the order, the lifetime and that nothing is left. *)
(***************************************************************************)
EXTENDS DispatchQueue, ThreadCountTheorems

Returns == {"idle", "push", "release", "xfersuspend", "xfersignal"}
Items == Blocks \cup {None}

\* Blocks that were submitted; the kind of such a block does not change.
Old == {b \in Blocks : status[b] # "new"} \cup {None}

-----------------------------------------------------------------------------
(* What a thread at p, with return point a and a semaphore s to signal, has *)
(* in its hands.                                                            *)

WakePoints == {"wake", "wakeprobe", "wakelock"}
TakePoints == {"take", "taketail", "takelink"}
DrainPoints == {"drain", "takehead", "next", "cleartail", "spinnext", "checksuspended",
                "checkwidth", "checkrunning", "redirectadd", "redirectpush", "pop",
                "poprunning", "rundrain", "undo", "undospin", "restore", "finish"}
FastPoints == {"runlocked", "handover", "unlockrunning", "xfersuspend", "xferrunning"}
SlowPoints == {"runslow", "slowrunning", "slowsuspend", "slowunlock", "xfersignal"}
SharePoints == {"overwide", "backout", "redirect", "runreader", "redirectpush",
                "runredirected"}

\* The lock of dq_running: its low bit,
Odd(p, a) == IF p \in DrainPoints \cup FastPoints \/ (p \in TakePoints /\ a = "xfersuspend")
             THEN 1 ELSE 0

\* a share of two in it, or a lock that was transferred as such a share,
Two(p, a, s) == IF \/ p \in SharePoints \cup SlowPoints \cup {"invokesignal"}
                   \/ p \in TakePoints /\ a = "xfersignal"
                   \/ p \in {"restore", "finish"} /\ s # None
                THEN 1 ELSE 0

\* the right to take items from the list.
Tok(p) == IF p \in DrainPoints \cup FastPoints \cup SlowPoints \cup TakePoints \cup {"invokesignal"}
          THEN 1 ELSE 0

Number(f) == CountAt(Threads, f, {1})
OddOf == [t \in Threads |-> Odd(pc[t], after[t])]
TwoOf == [t \in Threads |-> Two(pc[t], after[t], sema[t])]
TokOf == [t \in Threads |-> Tok(pc[t])]
Inside == CountAt(Threads, pc, InvokePoints)

-----------------------------------------------------------------------------
(* The inductive invariant.                                                 *)

Types == /\ pc \in [Threads -> Points] /\ after \in [Threads -> Returns]
         /\ blk \in [Threads -> Items] /\ dc \in [Threads -> Items]
         /\ nextdc \in [Threads -> Items] /\ sema \in [Threads -> Items]
         /\ running \in Int /\ suspend \in Int /\ queued \in Nat
         /\ head \in Items /\ next \in [Blocks -> Items]
         /\ redirected \subseteq Blocks /\ signalled \subseteq Blocks
         /\ kind \in [Blocks -> AllCalls] /\ status \in [Blocks -> Statuses]

\* dq_running is the low bit and at least the shares of the threads, of the
\* blocks on the target and of those whose threads have not woken up.
RunningCount ==
    /\ running % 2 = Number(OddOf)
    /\ running >= Number(OddOf) + 2 * Number(TwoOf)
                    + (2 * Cardinality(redirected) + 2 * Cardinality(signalled))

\* One thread has the right to the list, or one is about to wake up with it.
Handed == {b \in signalled : kind[b] = "bsync"}
OneToken == Number(TokOf) + Cardinality(Handed) <= 1

\* Whatever is on the list or in the hands of a thread was submitted.
AllOld == /\ head \in Old /\ next \in [Blocks -> Old]
          /\ redirected \subseteq Old /\ signalled \subseteq Old
          /\ \A t \in Threads : {blk[t], dc[t], nextdc[t], sema[t]} \subseteq Old

Kinds == /\ Serial => \A b \in Blocks : status[b] # "new" => kind[b] \in Barriers
         /\ ~Serial /\ "bsync" \notin Calls => \A b \in Blocks : kind[b] # "bsync"
         /\ \A b \in redirected : kind[b] = "async"

\* Where a thread has a block of its own, or an item of the list.
CallPoints == {"look", "looksuspended", "lock", "enter", "overwide", "backout", "redirect",
               "wait", "runreader", "runlocked", "runslow", "runredirected"}
ItemPoints == {"next", "cleartail", "spinnext", "checksuspended", "checkwidth",
               "checkrunning", "redirectadd", "redirectpush", "pop", "poprunning",
               "rundrain", "undo", "undospin"}
SemaPoints == {"restore", "finish", "invokesignal", "taketail", "takelink", "xfersuspend",
               "xferrunning", "xfersignal"}
Local(t) ==
    /\ pc[t] \in CallPoints => blk[t] # None
    /\ pc[t] \in ItemPoints => dc[t] # None
    /\ pc[t] \notin SemaPoints => sema[t] = None
    /\ pc[t] \in SemaPoints \ {"restore", "finish"} => sema[t] # None
    /\ pc[t] \in WakePoints => after[t] \in {"idle", "push", "release"}
    /\ pc[t] \in TakePoints => after[t] \in {"xfersuspend", "xfersignal"}
    /\ pc[t] \in {"redirect", "runredirected"} => kind[blk[t]] = "async"
    /\ pc[t] \in {"lock", "runlocked", "runslow"} => kind[blk[t]] = "bsync"
    /\ pc[t] = "runreader" => kind[blk[t]] = "sync"
    /\ pc[t] = "wait" => kind[blk[t]] \in Syncs
    /\ pc[t] \in {"redirectadd", "redirectpush"} => kind[dc[t]] \notin Barriers
    /\ pc[t] \in {"checkrunning", "pop", "poprunning", "rundrain"} => kind[dc[t]] \in Barriers
Locals == \A t \in Threads : Local(t)

\* Every running block runs on a thread.
RunPoints == {"runreader", "runlocked", "runslow", "runredirected"}
RunsOn(t, b) == \/ pc[t] \in RunPoints /\ blk[t] = b
                \/ pc[t] = "rundrain" /\ dc[t] = b
EachRunsOn == \A b \in Blocks : status[b] = "running" => \E t \in Threads : RunsOn(t, b)

\* A barrier that took the low bit of dq_running found nobody running, and
\* nobody has come since.
Readers == {"redirect", "runreader", "redirectpush", "runredirected"}
BarrierAt(t) == \/ pc[t] = "runlocked"
                \/ pc[t] \in {"pop", "rundrain"} /\ ~Serial
NoReaders == /\ \A t \in Threads : pc[t] \notin Readers
             /\ redirected = {} /\ signalled = {}
Alone == \A t \in Threads : BarrierAt(t) => NoReaders

\* The blocks on the target, or on their way to it or from it, are within the
\* width of the queue, and one more is where the drain has decided to add it.
AsyncPoints == {"redirect", "redirectpush", "runredirected"}
Redirects == CountAt(Threads, pc, AsyncPoints)
Shares == Redirects + Cardinality(redirected)
WithinWidth ==
    /\ 2 * Shares <= Width + 1
    /\ \A t \in Threads : pc[t] = "redirectadd" => 2 * Shares + 1 <= Width

IInv == /\ Types /\ OneInvocation /\ RunningCount /\ OneToken
        /\ AllOld /\ Kinds /\ Locals /\ EachRunsOn /\ Alone /\ WithinWidth

-----------------------------------------------------------------------------
(* A step of thread t leaves the places and the local variables of the     *)
(* others alone.                                                           *)
Frame(t) ==
    /\ pc' \in [Threads -> Points] /\ after' \in [Threads -> Returns]
    /\ blk' \in [Threads -> Items] /\ dc' \in [Threads -> Items]
    /\ nextdc' \in [Threads -> Items] /\ sema' \in [Threads -> Items]
    /\ \A u \in Threads \ {t} :
           /\ pc'[u] = pc[u] /\ after'[u] = after[u]
           /\ blk'[u] = blk[u] /\ dc'[u] = dc[u]
           /\ nextdc'[u] = nextdc[u] /\ sema'[u] = sema[u]

\* What the assumption says of the sets.
LEMMA ThreadsFinite == IsFiniteSet(Threads) /\ IsFiniteSet(Blocks) /\ None \notin Blocks
BY QueueAssumption, FS_Union DEF Threads, QueueAssumption

\* How a number of threads changes when one of them changes.
LEMMA NumberMove ==
    ASSUME NEW t \in Threads, NEW f, NEW g, f[t] \in {0, 1}, g[t] \in {0, 1},
           \A u \in Threads \ {t} : g[u] = f[u]
    PROVE  /\ Number(g) = Number(f) - f[t] + g[t]
           /\ Number(f) \in Nat /\ Number(g) \in Nat
           /\ Number(f) >= f[t]
<1>1. MovesOnly(Threads, f, g, t, g[t])
  BY DEF MovesOnly
<1>2. Number(g) = Number(f) - Hit(f[t], {1}) + Hit(g[t], {1})
  BY <1>1, ThreadsFinite, CountMove DEF Number
<1>3. Number(f) \in Nat /\ Number(g) \in Nat /\ (f[t] = 1 => Number(f) > 0)
  BY ThreadsFinite, CountIsNat DEF Number
<1>4. Hit(f[t], {1}) = f[t] /\ Hit(g[t], {1}) = g[t]
  BY DEF Hit
<1> QED BY <1>2, <1>3, <1>4

\* The same for the three numbers of the invariant and for Inside.
LEMMA NumbersMove ==
    ASSUME NEW t \in Threads, Types, Frame(t)
    PROVE  /\ Number(OddOf)' = Number(OddOf) - Odd(pc[t], after[t]) + Odd(pc'[t], after'[t])
           /\ Number(TwoOf)' = Number(TwoOf) - Two(pc[t], after[t], sema[t])
                                  + Two(pc'[t], after'[t], sema'[t])
           /\ Number(TokOf)' = Number(TokOf) - Tok(pc[t]) + Tok(pc'[t])
           /\ Inside' = Inside - Hit(pc[t], InvokePoints) + Hit(pc'[t], InvokePoints)
           /\ Number(OddOf) \in Nat /\ Number(TwoOf) \in Nat /\ Number(TokOf) \in Nat
           /\ Number(OddOf)' \in Nat /\ Number(TwoOf)' \in Nat /\ Number(TokOf)' \in Nat
           /\ Inside \in Nat /\ Inside' \in Nat
           /\ Number(OddOf) >= Odd(pc[t], after[t]) /\ Number(TokOf) >= Tok(pc[t])
           /\ Number(TwoOf) >= Two(pc[t], after[t], sema[t])
           /\ Inside >= Hit(pc[t], InvokePoints)
<1>1. \A u \in Threads : /\ OddOf[u] = Odd(pc[u], after[u]) /\ OddOf'[u] = Odd(pc'[u], after'[u])
                         /\ OddOf[u] \in {0, 1} /\ OddOf'[u] \in {0, 1}
  BY DEF OddOf, Odd
<1>2. \A u \in Threads : /\ TwoOf[u] = Two(pc[u], after[u], sema[u])
                         /\ TwoOf'[u] = Two(pc'[u], after'[u], sema'[u])
                         /\ TwoOf[u] \in {0, 1} /\ TwoOf'[u] \in {0, 1}
  BY DEF TwoOf, Two
<1>3. \A u \in Threads : /\ TokOf[u] = Tok(pc[u]) /\ TokOf'[u] = Tok(pc'[u])
                         /\ TokOf[u] \in {0, 1} /\ TokOf'[u] \in {0, 1}
  BY DEF TokOf, Tok
<1>4. \A u \in Threads \ {t} : OddOf'[u] = OddOf[u] /\ TwoOf'[u] = TwoOf[u] /\ TokOf'[u] = TokOf[u]
  BY <1>1, <1>2, <1>3 DEF Frame
<1>5. Number(OddOf)' = Number(OddOf') /\ Number(TwoOf)' = Number(TwoOf') /\ Number(TokOf)' = Number(TokOf')
  BY DEF Number
<1>6. /\ Number(OddOf)' = Number(OddOf) - Odd(pc[t], after[t]) + Odd(pc'[t], after'[t])
      /\ Number(OddOf) \in Nat /\ Number(OddOf)' \in Nat /\ Number(OddOf) >= Odd(pc[t], after[t])
  BY <1>1, <1>4, <1>5, NumberMove
<1>7. /\ Number(TwoOf)' = Number(TwoOf) - Two(pc[t], after[t], sema[t])
                                  + Two(pc'[t], after'[t], sema'[t])
      /\ Number(TwoOf) \in Nat /\ Number(TwoOf)' \in Nat
      /\ Number(TwoOf) >= Two(pc[t], after[t], sema[t])
  BY <1>2, <1>4, <1>5, NumberMove
<1>8. /\ Number(TokOf)' = Number(TokOf) - Tok(pc[t]) + Tok(pc'[t])
      /\ Number(TokOf) \in Nat /\ Number(TokOf)' \in Nat /\ Number(TokOf) >= Tok(pc[t])
  BY <1>3, <1>4, <1>5, NumberMove
<1>9. MovesOnly(Threads, pc, pc', t, pc'[t])
  BY DEF MovesOnly, Frame
<1>10. /\ Inside' = Inside - Hit(pc[t], InvokePoints) + Hit(pc'[t], InvokePoints)
       /\ Inside \in Nat /\ Inside' \in Nat /\ Inside >= Hit(pc[t], InvokePoints)
  <2>1. Inside' = Inside - Hit(pc[t], InvokePoints) + Hit(pc'[t], InvokePoints)
    BY <1>9, ThreadsFinite, CountMove DEF Inside
  <2>2. Inside \in Nat /\ Inside' \in Nat
    BY ThreadsFinite, CountIsNat DEF Inside
  <2>3. pc[t] \in InvokePoints => Inside > 0
    BY ThreadsFinite, CountIsNat DEF Inside
  <2> QED BY <2>1, <2>2, <2>3 DEF Hit
<1> QED BY <1>6, <1>7, <1>8, <1>10

\* Whoever is somewhere is counted.
LEMMA Counted ==
    /\ Number(OddOf) \in Nat /\ Number(TwoOf) \in Nat /\ Number(TokOf) \in Nat /\ Inside \in Nat
    /\ \A t \in Threads : /\ Number(OddOf) >= Odd(pc[t], after[t])
                          /\ Number(TwoOf) >= Two(pc[t], after[t], sema[t])
                          /\ Number(TokOf) >= Tok(pc[t])
<1>1. ASSUME NEW f
      PROVE  Number(f) \in Nat /\ \A t \in Threads : f[t] = 1 => Number(f) > 0
  BY ThreadsFinite, CountIsNat DEF Number
<1>2. Inside \in Nat
  BY ThreadsFinite, CountIsNat DEF Inside
<1>3. \A t \in Threads : /\ OddOf[t] = Odd(pc[t], after[t]) /\ OddOf[t] \in {0, 1}
                         /\ TwoOf[t] = Two(pc[t], after[t], sema[t]) /\ TwoOf[t] \in {0, 1}
                         /\ TokOf[t] = Tok(pc[t]) /\ TokOf[t] \in {0, 1}
  BY DEF OddOf, Odd, TwoOf, Two, TokOf, Tok
<1> QED BY <1>1, <1>2, <1>3

\* The sets of blocks are finite.
LEMMA SetsFinite ==
    ASSUME Types
    PROVE  /\ IsFiniteSet(redirected) /\ Cardinality(redirected) \in Nat
           /\ IsFiniteSet(signalled) /\ Cardinality(signalled) \in Nat
           /\ IsFiniteSet(Handed) /\ Cardinality(Handed) \in Nat
           /\ Cardinality(redirected) = 0 => redirected = {}
           /\ Cardinality(signalled) = 0 => signalled = {}
<1>1. /\ redirected \subseteq Blocks /\ signalled \subseteq Blocks /\ Handed \subseteq Blocks
  BY DEF Types, Handed
<1> QED BY <1>1, ThreadsFinite, FS_Subset, FS_CardinalityType, FS_EmptySet

-----------------------------------------------------------------------------
\* The parity of a counter r, n, when it changes by d.
LEMMA ParityAdd ==
    ASSUME NEW r \in Int, NEW n \in Nat, NEW o \in {0, 1}, NEW op \in {0, 1},
           NEW d \in {-2, -1, 0, 1, 2}, r % 2 = n, n >= o,
           \/ d \in {-2, 0, 2} /\ op = o
           \/ d \in {-1, 1} /\ o = 1 /\ op = 0
    PROVE  (r + d) % 2 = n - o + op
<1>1. n \in {0, 1}
  OBVIOUS
<1> QED BY <1>1

-----------------------------------------------------------------------------
(* The counters.                                                            *)
Counts == OneInvocation /\ RunningCount /\ OneToken

\* A step of t that adds d to dq_running, and whose thread needs no more for it;
Load(t) == Odd(pc[t], after[t]) + 2 * Two(pc[t], after[t], sema[t])
Adds(t, d) ==
    /\ running' = running + d
    /\ Load(t)' <= Load(t) + d
    /\ \/ d \in {-2, 0, 2} /\ Odd(pc'[t], after'[t]) = Odd(pc[t], after[t])
       \/ d \in {-1, 1} /\ Odd(pc[t], after[t]) = 1 /\ Odd(pc'[t], after'[t]) = 0

\* that takes neither the list nor the low bit of do_suspend_cnt, and adds and
\* takes whole suspensions;
KeepsLocks(t) ==
    /\ Tok(pc'[t]) <= Tok(pc[t])
    /\ Hit(pc'[t], InvokePoints) = Hit(pc[t], InvokePoints)
    /\ suspend' \in {suspend, suspend + INTERVAL, suspend - INTERVAL}
    /\ queued' = queued

\* and that leaves the sets of blocks alone.
KeepsSets == redirected' = redirected /\ signalled' = signalled /\ Handed' = Handed

\* What it does to dq_running,
LEMMA RunningStep ==
    ASSUME Types, Counts, NEW t \in Threads, Frame(t),
           NEW d \in {-2, -1, 0, 1, 2}, Adds(t, d), KeepsSets
    PROVE  RunningCount'
<1> DEFINE odd == Odd(pc[t], after[t])  oddp == Odd(pc'[t], after'[t])
           two == Two(pc[t], after[t], sema[t])  twop == Two(pc'[t], after'[t], sema'[t])
<1>1. odd \in {0, 1} /\ oddp \in {0, 1} /\ two \in {0, 1} /\ twop \in {0, 1}
  BY DEF Odd, Two
<1>2. /\ Number(OddOf)' = Number(OddOf) - odd + oddp
      /\ Number(TwoOf)' = Number(TwoOf) - two + twop
      /\ Number(OddOf) \in Nat /\ Number(TwoOf) \in Nat /\ Number(OddOf) >= odd
  BY NumbersMove
<1>3. oddp + 2 * twop <= odd + 2 * two + d /\ running' = running + d
  BY DEF Load, Adds
<1>4. \/ d \in {-2, 0, 2} /\ oddp = odd
      \/ d \in {-1, 1} /\ odd = 1 /\ oddp = 0
  BY DEF Adds
<1> DEFINE n == Number(OddOf)  np == Number(OddOf)'
           m == Number(TwoOf)  mp == Number(TwoOf)'
           c == 2 * Cardinality(redirected) + 2 * Cardinality(signalled)
<1>5. /\ n \in Nat /\ m \in Nat /\ c \in Int /\ running \in Int
      /\ running % 2 = n /\ running >= n + 2 * m + c
  BY <1>2, SetsFinite DEF Counts, RunningCount, Types
<1>6. np = n - odd + oddp /\ mp = m - two + twop /\ n >= odd
  BY <1>2
<1>7. c = 2 * Cardinality(redirected)' + 2 * Cardinality(signalled)'
  BY DEF KeepsSets
<1> HIDE DEF odd, oddp, two, twop, n, np, m, mp, c
<1>8. running' >= np + 2 * mp + c
  BY <1>1, <1>3, <1>5, <1>6
<1>9. running' % 2 = np
  <2>1. (running + d) % 2 = n - odd + oddp
    BY <1>1, <1>4, <1>5, <1>6, ParityAdd
  <2> QED BY <1>3, <1>6, <2>1
<1> QED BY <1>7, <1>8, <1>9 DEF RunningCount, np, mp

\* and to all three counters.
LEMMA CountsStep ==
    ASSUME Types, Counts, NEW t \in Threads, Frame(t),
           NEW d \in {-2, -1, 0, 1, 2}, Adds(t, d), KeepsLocks(t), KeepsSets
    PROVE  Counts'
<1>1. OneInvocation'
  <2>1. Inside' = Inside /\ Inside \in Nat
    <3>1. Hit(pc'[t], InvokePoints) = Hit(pc[t], InvokePoints)
      BY DEF KeepsLocks
    <3> QED BY <3>1, NumbersMove DEF Hit
  <2>2. suspend' % 2 = suspend % 2 /\ queued' = queued
    BY DEF Types, INTERVAL, KeepsLocks
  <2> QED BY <2>1, <2>2 DEF Counts, OneInvocation, Inside
<1>2. RunningCount'
  BY RunningStep
<1>3. OneToken'
  <2>1. Number(TokOf)' <= Number(TokOf) /\ Number(TokOf) \in Nat /\ Number(TokOf)' \in Nat
    <3>1. Tok(pc'[t]) \in {0, 1} /\ Tok(pc[t]) \in {0, 1}
      BY DEF Tok
    <3>2. Tok(pc'[t]) <= Tok(pc[t])
      BY DEF KeepsLocks
    <3> QED BY <3>1, <3>2, NumbersMove
  <2> QED BY <2>1, SetsFinite DEF Counts, OneToken, KeepsSets
<1> QED BY <1>1, <1>2, <1>3 DEF Counts

\* When dq_running is 0 nobody has a share in it, nor the list; when its low bit
\* is all there is, nobody has a share.
LEMMA NobodyCounted ==
    ASSUME Types, Counts, Locals,
           running = 0 \/ (running <= 1 /\ \E u \in Threads : Odd(pc[u], after[u]) = 1)
    PROVE  /\ Number(TwoOf) = 0 /\ redirected = {} /\ signalled = {} /\ Cardinality(Handed) = 0
           /\ \A u \in Threads : Two(pc[u], after[u], sema[u]) = 0
           /\ running = 0 => /\ Number(OddOf) = 0 /\ Number(TokOf) = 0
                             /\ \A u \in Threads : Odd(pc[u], after[u]) = 0 /\ Tok(pc[u]) = 0
<1>1. /\ running >= Number(OddOf) + 2 * Number(TwoOf)
                    + (2 * Cardinality(redirected) + 2 * Cardinality(signalled))
      /\ Cardinality(redirected) \in Nat /\ Cardinality(signalled) \in Nat
      /\ Number(OddOf) \in Nat /\ Number(TwoOf) \in Nat /\ running \in Int
  BY SetsFinite, Counted DEF Counts, RunningCount, Types
<1>2. running # 0 => Number(OddOf) >= 1
  BY Counted
<1>3. Number(TwoOf) = 0 /\ Cardinality(redirected) = 0 /\ Cardinality(signalled) = 0
  <2>1. ASSUME NEW r \in Int, NEW n \in Nat, NEW m \in Nat, NEW c \in Nat, NEW e \in Nat,
               r >= n + 2 * m + (2 * c + 2 * e), r <= 1, r # 0 => n >= 1
        PROVE  m = 0 /\ c = 0 /\ e = 0
    BY <2>1
  <2>2. running <= 1
    OBVIOUS
  <2> QED BY <1>1, <1>2, <2>1, <2>2
<1>4. redirected = {} /\ signalled = {}
  BY <1>3, SetsFinite
<1>5. Handed = {}
  BY <1>4 DEF Handed
<1>6. Cardinality(Handed) = 0
  BY <1>5, FS_EmptySet
<1>7. \A u \in Threads : Two(pc[u], after[u], sema[u]) = 0
  <2>1. \A u \in Threads : Two(pc[u], after[u], sema[u]) \in {0, 1}
    BY DEF Two
  <2> QED BY <2>1, <1>3, Counted
<1>8. running = 0 => Number(OddOf) = 0
  BY <1>1, <1>3
<1>9. running = 0 => \A u \in Threads : Odd(pc[u], after[u]) = 0
  <2>1. \A u \in Threads : Odd(pc[u], after[u]) \in {0, 1}
    BY DEF Odd
  <2> QED BY <2>1, <1>8, Counted
<1>10. running = 0 => \A u \in Threads : Tok(pc[u]) = 0
  <2>1. ASSUME NEW u \in Threads, Odd(pc[u], after[u]) = 0, Two(pc[u], after[u], sema[u]) = 0
        PROVE  Tok(pc[u]) = 0
    BY <2>1 DEF Odd, Two, Tok, Locals, Local
  <2> QED BY <2>1, <1>7, <1>9
<1>11. running = 0 => Number(TokOf) = 0
  <2>1. ASSUME running = 0 PROVE ThreadsAt(Threads, TokOf, {1}) = {}
    BY <2>1, <1>10 DEF ThreadsAt, TokOf
  <2> QED BY <2>1, ThreadsFinite, CountIsNat DEF Number
<1> QED BY <1>3, <1>4, <1>6, <1>7, <1>8, <1>9, <1>10, <1>11

-----------------------------------------------------------------------------
(* The width.                                                               *)

\* How the number of threads with a share of the target changes.
LEMMA RedirectsMove ==
    ASSUME Types, NEW t \in Threads, Frame(t)
    PROVE  /\ Redirects \in Nat /\ Redirects' \in Nat
           /\ Redirects' = Redirects - Hit(pc[t], AsyncPoints) + Hit(pc'[t], AsyncPoints)
<1>1. MovesOnly(Threads, pc, pc', t, pc'[t])
  BY DEF MovesOnly, Frame
<1>2. Redirects' = Redirects - Hit(pc[t], AsyncPoints) + Hit(pc'[t], AsyncPoints)
  BY <1>1, ThreadsFinite, CountMove DEF Redirects
<1>3. Redirects \in Nat /\ Redirects' \in Nat
  BY ThreadsFinite, CountIsNat DEF Redirects
<1> QED BY <1>2, <1>3

\* A step that adds no share on the target or on the way to it.
NoMore(t) == /\ Hit(pc'[t], AsyncPoints) <= Hit(pc[t], AsyncPoints)
             /\ redirected' = redirected
             /\ pc'[t] # "redirectadd"

\* Such a step stays within the width.
LEMMA WidthStays ==
    ASSUME Types, WithinWidth, NEW t \in Threads, Frame(t), NoMore(t)
    PROVE  WithinWidth'
<1> DEFINE a == Hit(pc[t], AsyncPoints)  b == Hit(pc'[t], AsyncPoints)
           r == Redirects  rp == Redirects'  c == Cardinality(redirected)
<1>1. a \in Int /\ b \in Int /\ b <= a
  BY DEF NoMore, Hit
<1>2. r \in Nat /\ rp \in Nat /\ rp = r - a + b
  BY RedirectsMove
<1>3. c \in Nat /\ Shares = r + c /\ Shares' = rp + c
  BY SetsFinite DEF Shares, NoMore
<1> HIDE DEF a, b, r, rp, c
<1>4. Shares' <= Shares /\ Shares \in Nat /\ Shares' \in Nat
  BY <1>1, <1>2, <1>3
<1>5. ASSUME NEW u \in Threads, pc'[u] = "redirectadd" PROVE pc[u] = "redirectadd"
  BY <1>5 DEF NoMore, Frame
<1>6. Width \in Nat
  BY QueueAssumption DEF QueueAssumption
<1>7. /\ 2 * Shares <= Width + 1 => 2 * Shares' <= Width + 1
      /\ 2 * Shares + 1 <= Width => 2 * Shares' + 1 <= Width
  <2>1. ASSUME NEW s \in Nat, NEW sp \in Nat, NEW w \in Nat, sp <= s
        PROVE  (2 * s <= w + 1 => 2 * sp <= w + 1) /\ (2 * s + 1 <= w => 2 * sp + 1 <= w)
    BY <2>1
  <2> QED BY <1>4, <1>6, <2>1
<1> QED BY <1>5, <1>7 DEF WithinWidth

\* The shares of the blocks on the target are shares of two in dq_running.
LEMMA SharesCounted ==
    ASSUME Types, RunningCount
    PROVE  /\ Shares \in Nat /\ 2 * Shares <= running
           /\ \A t \in Threads : Odd(pc[t], after[t]) = 1 => 2 * Shares + 1 <= running
<1> DEFINE A == ThreadsAt(Threads, pc, AsyncPoints)  B == ThreadsAt(Threads, TwoOf, {1})
<1>1. A \subseteq B
  BY DEF ThreadsAt, AsyncPoints, TwoOf, Two, SharePoints
<1>2. IsFiniteSet(B)
  BY ThreadsFinite, CountIsNat
<1>3. Cardinality(A) <= Cardinality(B)
  BY <1>1, <1>2, FS_Subset
<1>4. Redirects <= Number(TwoOf)
  BY <1>3 DEF Redirects, Number, CountAt
<1>5. Redirects \in Nat
  BY ThreadsFinite, CountIsNat DEF Redirects
<1> DEFINE r == Redirects  m == Number(TwoOf)  n == Number(OddOf)
           c == Cardinality(redirected)  e == Cardinality(signalled)
<1>6. /\ r \in Nat /\ m \in Nat /\ n \in Nat /\ c \in Nat /\ e \in Nat /\ running \in Int
      /\ r <= m /\ running >= n + 2 * m + (2 * c + 2 * e) /\ Shares = r + c
  BY <1>4, <1>5, Counted, SetsFinite DEF RunningCount, Types, Shares
<1>7. \A t \in Threads : Odd(pc[t], after[t]) = 1 => n >= 1
  BY Counted
<1> HIDE DEF r, m, n, c, e
<1>8. Shares \in Nat /\ 2 * Shares + n <= running
  BY <1>6
<1>9. Shares \in Nat /\ 2 * Shares <= running /\ (n >= 1 => 2 * Shares + 1 <= running)
  BY <1>6, <1>8
<1> QED BY <1>7, <1>9

-----------------------------------------------------------------------------
(* The rest of the invariant.                                               *)

\* Every step but Call: nothing becomes old, and kinds stay.
SameOld == /\ kind' = kind /\ status' \in [Blocks -> Statuses]
           /\ \A b \in Blocks : status'[b] = "new" <=> status[b] = "new"

\* What t has in its hands after the step.
Hands(t) == {blk'[t], dc'[t], nextdc'[t], sema'[t]} \subseteq Old

\* What stays on the list, on the target and with the semaphores.
SetsOld == /\ head' \in Old /\ next' \in [Blocks -> Old]
           /\ redirected' \subseteq Old /\ redirected' \subseteq Blocks
           /\ signalled' \subseteq Old /\ signalled' \subseteq Blocks
           /\ \A b \in redirected' : kind[b] = "async"

CountersTyped == running' \in Int /\ suspend' \in Int /\ queued' \in Nat

Knowledge == Types /\ AllOld /\ Kinds /\ Locals

\* Such a step keeps what is known of the blocks and of the other threads.
LEMMA KnowledgeStep ==
    ASSUME Knowledge, NEW t \in Threads, Frame(t), SameOld, Hands(t), SetsOld,
           CountersTyped, Local(t)'
    PROVE  Knowledge'
<1>1. Old' = Old
  BY DEF Old, SameOld
<1>2. Old \subseteq Items
  BY DEF Old, Items
<1>3. Types'
  BY <1>2 DEF Knowledge, Types, Frame, SameOld, SetsOld, CountersTyped
<1>4. AllOld'
  <2>1. \A u \in Threads : {blk'[u], dc'[u], nextdc'[u], sema'[u]} \subseteq Old
    BY DEF Knowledge, AllOld, Hands, Frame
  <2> QED BY <1>1, <2>1 DEF AllOld, SetsOld
<1>5. Kinds'
  BY DEF Knowledge, Kinds, SameOld, SetsOld
<1>6. ASSUME NEW u \in Threads, u # t PROVE Local(u)'
  BY <1>6 DEF Knowledge, Locals, Local, Frame, SameOld
<1>7. Locals'
  BY <1>6 DEF Locals
<1> QED BY <1>3, <1>4, <1>5, <1>7 DEF Knowledge

\* A block that runs after the step started in it, or ran before and not on t.
RunsKept(t) == \A b \in Blocks : status'[b] = "running"
                   => RunsOn(t, b)' \/ (status[b] = "running" /\ ~RunsOn(t, b))

\* Then every running block still has a thread.
LEMMA RunsStep ==
    ASSUME EachRunsOn, NEW t \in Threads, Frame(t), RunsKept(t)
    PROVE  EachRunsOn'
<1> SUFFICES ASSUME NEW b \in Blocks, status'[b] = "running"
             PROVE  \E u \in Threads : RunsOn(u, b)'
  BY DEF EachRunsOn
<1>1. CASE status[b] = "running" /\ ~RunsOn(t, b)
  <2>1. PICK u \in Threads : RunsOn(u, b)
    BY <1>1 DEF EachRunsOn
  <2>2. u # t
    BY <1>1, <2>1
  <2>3. RunsOn(u, b)'
    BY <2>1, <2>2 DEF RunsOn, Frame
  <2> QED BY <2>3
<1> QED BY <1>1 DEF RunsKept

\* No barrier comes and no reader,
LEMMA AloneStays ==
    ASSUME Alone, NEW t \in Threads, Frame(t), BarrierAt(t)' => BarrierAt(t),
           pc'[t] \in Readers => pc[t] \in Readers,
           redirected' \subseteq redirected, signalled' \subseteq signalled
    PROVE  Alone'
<1> SUFFICES ASSUME NEW u \in Threads, BarrierAt(u)' PROVE NoReaders'
  BY DEF Alone
<1>1. BarrierAt(u)
  BY DEF BarrierAt, Frame
<1>2. NoReaders
  BY <1>1 DEF Alone
<1> QED BY <1>2 DEF NoReaders, Frame

\* or there is no barrier that holds the low bit.
LEMMA NoneAlone ==
    ASSUME NEW t \in Threads, Frame(t), \A u \in Threads \ {t} : ~BarrierAt(u), ~BarrierAt(t)'
    PROVE  Alone'
<1>1. \A u \in Threads : ~BarrierAt(u)'
  BY DEF BarrierAt, Frame
<1> QED BY <1>1 DEF Alone

\* An ordinary step: no block starts or ends, none leaves the list or the
\* target, no reader and no barrier comes.
NoRun(t) == /\ pc[t] \notin RunPoints \cup {"rundrain"}
            /\ pc'[t] \notin Readers
            /\ BarrierAt(t)' => BarrierAt(t)
            /\ pc'[t] # "redirectadd"
SameBlocks == /\ kind' = kind /\ status' = status
              /\ redirected' = redirected /\ signalled' = signalled
              /\ head' \in Old /\ next' \in [Blocks -> Old]

\* It adds no share on the target.
LEMMA WidthKept ==
    ASSUME Types, WithinWidth, NEW t \in Threads, Frame(t), NoRun(t), redirected' = redirected
    PROVE  WithinWidth'
<1>1. NoMore(t)
  BY DEF NoMore, NoRun, Readers, AsyncPoints, Hit
<1> QED BY <1>1, WidthStays

\* An ordinary step keeps the invariant.
LEMMA OrdinaryStep ==
    ASSUME IInv, NEW t \in Threads, Frame(t), NEW d \in {-2, -1, 0, 1, 2}, Adds(t, d),
           KeepsLocks(t), SameBlocks, Hands(t), Local(t)', NoRun(t)
    PROVE  IInv'
<1>1. Counts'
  <2>1. KeepsSets
    BY DEF SameBlocks, KeepsSets, Handed
  <2> QED BY <2>1, CountsStep DEF IInv, Counts
<1>2. Knowledge'
  <2>1. SameOld /\ SetsOld
    BY DEF SameBlocks, SameOld, SetsOld, IInv, Types, AllOld, Kinds
  <2>2. CountersTyped
    <3>1. running' = running + d /\ running \in Int /\ suspend \in Int
      BY DEF Adds, IInv, Types
    <3> QED BY <3>1 DEF CountersTyped, KeepsLocks, IInv, Types, INTERVAL
  <2> QED BY <2>1, <2>2, KnowledgeStep DEF IInv, Knowledge
<1>3. EachRunsOn'
  <2>1. RunsKept(t)
    BY DEF RunsKept, NoRun, SameBlocks, RunsOn
  <2> QED BY <2>1, RunsStep DEF IInv
<1>4. Alone'
  BY AloneStays DEF IInv, NoRun, SameBlocks
<1>5. WithinWidth'
  BY WidthKept DEF IInv, SameBlocks
<1> QED BY <1>1, <1>2, <1>3, <1>4, <1>5 DEF IInv, Counts, Knowledge

\* A thread that has the list is the only one, and nobody wakes up with it.
LEMMA TokenUnique ==
    ASSUME Types, OneToken, NEW t \in Threads, Tok(pc[t]) = 1
    PROVE  /\ Number(TokOf) = 1 /\ Cardinality(Handed) = 0
           /\ \A u \in Threads : Tok(pc[u]) = 1 => u = t
<1>1. Number(TokOf) = 1 /\ Cardinality(Handed) = 0
  <2>1. Number(TokOf) \in Nat /\ Number(TokOf) >= 1 /\ Cardinality(Handed) \in Nat
    BY Counted, SetsFinite
  <2> QED BY <2>1 DEF OneToken
<1>2. ASSUME NEW u \in Threads, Tok(pc[u]) = 1, u # t PROVE FALSE
  <2> DEFINE A == ThreadsAt(Threads, TokOf, {1})
  <2>1. IsFiniteSet(A) /\ Cardinality(A) = 1
    BY <1>1, ThreadsFinite, CountIsNat DEF Number, CountAt
  <2>2. t \in A /\ u \in A
    BY <1>2 DEF ThreadsAt, TokOf
  <2>3. IsFiniteSet(A \ {t}) /\ Cardinality(A \ {t}) = Cardinality(A) - 1
    BY <2>1, <2>2, FS_RemoveElement
  <2>4. u \in A \ {t}
    BY <1>2, <2>2
  <2> HIDE DEF A
  <2>5. Cardinality(A \ {t}) = 0
    BY <2>1, <2>3
  <2>6. A \ {t} = {}
    BY <2>3, <2>5, FS_EmptySet
  <2> QED BY <2>4, <2>6
<1> QED BY <1>1, <1>2

-----------------------------------------------------------------------------
(* Steps that only decide where to go.                                      *)

\* The places where a thread has nothing of the queue, and those of a drain.
PlainPoints == {"idle", "look", "looksuspended", "lock", "enter", "push", "link", "sethead",
                "release", "wake", "wakeprobe", "wakelock", "wait", "verifyidle"}
SameWeights(p, q) == \/ p \in PlainPoints /\ q \in PlainPoints
                     \/ p \in DrainPoints \ SharePoints /\ q \in DrainPoints \ SharePoints
                     \/ p \in {"invoke", "invokelock"} /\ q \in {"invokelock", "unlock"}

\* Moves between these places change none of the weights.
LEMMA WeightsSame ==
    ASSUME NEW p, NEW q, NEW a, NEW b, SameWeights(p, q)
    PROVE  /\ Odd(q, b) = Odd(p, a) /\ Two(q, b, None) = Two(p, a, None)
           /\ Tok(q) = Tok(p) /\ Hit(q, InvokePoints) = Hit(p, InvokePoints)
<1>1. CASE p \in PlainPoints /\ q \in PlainPoints
  BY <1>1 DEF PlainPoints, Odd, Two, Tok, Hit, InvokePoints, DrainPoints, FastPoints,
     SlowPoints,
              SharePoints, TakePoints
<1>2. CASE p \in DrainPoints \ SharePoints /\ q \in DrainPoints \ SharePoints
  BY <1>2 DEF Odd, Two, Tok, Hit, InvokePoints, DrainPoints, FastPoints, SlowPoints,
              SharePoints, TakePoints
<1>3. CASE p \in {"invoke", "invokelock"} /\ q \in {"invokelock", "unlock"}
  BY <1>3 DEF Odd, Two, Tok, Hit, InvokePoints, DrainPoints, FastPoints, SlowPoints,
              SharePoints, TakePoints
<1> QED BY <1>1, <1>2, <1>3 DEF SameWeights

\* A step that only branches keeps the invariant.
LEMMA BranchStep ==
    ASSUME IInv, NEW t \in Threads, NEW p \in Points \ SemaPoints, NEW q \in Points,
           Branch(t, p, q), SameWeights(p, q),
           p \notin RunPoints \cup {"rundrain"}, q \notin Readers,
           q \in {"pop", "rundrain"} => Serial, q \notin {"runlocked", "runslow"},
           q = "lock" => kind[blk[t]] = "bsync",
           q \in CallPoints \ {"redirect", "runredirected", "runreader", "wait"} => blk[t] # None,
           q \notin {"redirect", "runredirected", "runreader", "wait"},
           q \in ItemPoints => dc[t] # None,
           q \notin WakePoints \cup TakePoints, q \in SemaPoints => q \in {"restore", "finish"},
           q # "redirectadd",
           q \in {"checkrunning", "pop", "poprunning", "rundrain"} => kind[dc[t]] \in Barriers
    PROVE  IInv'
<1>1. /\ pc[t] = p /\ pc' = [pc EXCEPT ![t] = q]
      /\ after' = after /\ blk' = blk /\ dc' = dc /\ nextdc' = nextdc /\ sema' = sema
      /\ running' = running /\ suspend' = suspend /\ queued' = queued
  BY DEF Branch, At, Goto, shared, countVars, rootVars, locals, drainVars
<1>2. SameBlocks
  BY DEF Branch, shared, listVars, rootVars, history, blockVars, SameBlocks, IInv, AllOld
<1>3. sema[t] = None
  BY <1>1 DEF IInv, Locals, Local
<1>4. Frame(t) /\ pc'[t] = q
  BY <1>1 DEF IInv, Types, Frame
<1>5. Adds(t, 0) /\ KeepsLocks(t)
  <2>1. /\ Odd(pc'[t], after'[t]) = Odd(pc[t], after[t]) /\ Tok(pc'[t]) = Tok(pc[t])
        /\ Two(pc'[t], after'[t], sema'[t]) = Two(pc[t], after[t], sema[t])
        /\ Hit(pc'[t], InvokePoints) = Hit(pc[t], InvokePoints)
    BY <1>1, <1>3, <1>4, WeightsSame
  <2>2. Load(t)' = Load(t) /\ Load(t) \in Int /\ Tok(pc[t]) \in Int
    BY <2>1 DEF Load, Odd, Two, Tok
  <2> QED BY <1>1, <2>1, <2>2 DEF Adds, KeepsLocks, IInv, Types
<1>6. Hands(t)
  BY <1>1 DEF Hands, IInv, AllOld
<1>7. Local(t)'
  BY <1>1, <1>3, <1>4 DEF Local, Branch, history, blockVars, Readers
<1>8. NoRun(t)
  BY <1>1, <1>4 DEF NoRun, BarrierAt
<1> QED BY <1>2, <1>4, <1>5, <1>6, <1>7, <1>8, OrdinaryStep

-----------------------------------------------------------------------------
(* The status of an old block changes.                                      *)
\* Whatever it becomes, it stays old.
LEMMA StatusMoves ==
    ASSUME Types, NEW b \in Old, NEW x \in Statuses \ {"new"},
           status' = [status EXCEPT ![b] = x], kind' = kind
    PROVE  SameOld
BY ThreadsFinite DEF Types, Old, SameOld

\* A block starts on t, where none ran,
LEMMA BlockStarts ==
    ASSUME Types, NEW t \in Threads, NEW b \in Items, status' = [status EXCEPT ![b] = "running"],
           pc[t] \notin RunPoints \cup {"rundrain"}, RunsOn(t, b)'
    PROVE  RunsKept(t)
<1> SUFFICES ASSUME NEW c \in Blocks, status'[c] = "running"
             PROVE  RunsOn(t, c)' \/ (status[c] = "running" /\ ~RunsOn(t, c))
  BY DEF RunsKept
<1>1. ~RunsOn(t, c)
  BY DEF RunsOn
<1>2. c = b \/ status[c] = "running"
  BY DEF Types
<1> QED BY <1>1, <1>2

\* or the block that runs on t ends, or another one that t has is queued.
LEMMA BlockEnds ==
    ASSUME Types, NEW t \in Threads, NEW b \in Items, NEW x \in {"queued", "done"},
           status' = [status EXCEPT ![b] = x], \A c \in Blocks : RunsOn(t, c) => c = b
    PROVE  RunsKept(t)
<1> SUFFICES ASSUME NEW c \in Blocks, status'[c] = "running"
             PROVE  status[c] = "running" /\ ~RunsOn(t, c)
  BY DEF RunsKept
<1>1. c # b /\ status[c] = "running"
  BY DEF Types
<1> QED BY <1>1

\* All of an ordinary step in one, and of a step that a block starts or ends in.
Ordinary(t, d) == /\ Frame(t) /\ Adds(t, d) /\ KeepsLocks(t) /\ SameBlocks
                  /\ Hands(t) /\ Local(t)' /\ NoRun(t)
SameSets == /\ redirected' = redirected /\ signalled' = signalled
            /\ head' \in Old /\ next' \in [Blocks -> Old]
BlockStep(t, d) == /\ Frame(t) /\ Adds(t, d) /\ KeepsLocks(t) /\ SameOld /\ SameSets
                   /\ Hands(t) /\ Local(t)' /\ RunsKept(t)

\* OrdinaryStep, by the one name.
LEMMA OrdinaryKeeps ==
    ASSUME IInv, NEW t \in Threads, NEW d \in {-2, -1, 0, 1, 2}, Ordinary(t, d)
    PROVE  IInv'
BY OrdinaryStep DEF Ordinary

\* The same for a step that a block starts or ends in.
LEMMA BlockStepKeeps ==
    ASSUME IInv, NEW t \in Threads, NEW d \in {-2, -1, 0, 1, 2}, BlockStep(t, d), Alone', WithinWidth'
    PROVE  IInv'
<1>1. Counts'
  <2>1. KeepsSets
    BY DEF BlockStep, SameSets, SameOld, KeepsSets, Handed
  <2> QED BY <2>1, CountsStep DEF IInv, Counts, BlockStep
<1>2. Knowledge'
  <2>1. SetsOld
    BY DEF BlockStep, SameSets, SetsOld, IInv, Types, AllOld, Kinds
  <2>2. CountersTyped
    <3>1. running' = running + d /\ running \in Int /\ suspend \in Int
      BY DEF BlockStep, Adds, IInv, Types
    <3> QED BY <3>1 DEF BlockStep, CountersTyped, KeepsLocks, IInv, Types, INTERVAL
  <2> QED BY <2>1, <2>2, KnowledgeStep DEF IInv, Knowledge, BlockStep
<1>3. EachRunsOn'
  BY RunsStep DEF IInv, BlockStep
<1> QED BY <1>1, <1>2, <1>3 DEF IInv, Counts, Knowledge

\* What a thread has at hand before a step.
LEMMA AtHand ==
    ASSUME IInv, NEW t \in Threads
    PROVE  /\ {blk[t], dc[t], nextdc[t], sema[t]} \subseteq Old /\ head \in Old
           /\ next \in [Blocks -> Old] /\ Old \subseteq Items /\ None \in Old
           /\ pc[t] \in Points /\ after[t] \in Returns
           /\ pc \in [Threads -> Points] /\ after \in [Threads -> Returns]
           /\ blk \in [Threads -> Items] /\ dc \in [Threads -> Items]
           /\ nextdc \in [Threads -> Items] /\ sema \in [Threads -> Items]
           /\ running \in Int /\ suspend \in Int
           /\ Local(t)
BY DEF IInv, AllOld, Types, Locals, Old, Items

\* A compare-and-swap that takes the low bit of dq_running, and the list.
LEMMA LockTaken ==
    ASSUME IInv, NEW t \in Threads, Frame(t), running = 0, running' = 1, KeepsSets,
           suspend' = suspend, queued' = queued,
           Odd(pc'[t], after'[t]) = 1, Two(pc'[t], after'[t], sema'[t]) = 0, Tok(pc'[t]) = 1,
           Hit(pc'[t], InvokePoints) = Hit(pc[t], InvokePoints)
    PROVE  Counts' /\ NoReaders /\ \A u \in Threads : Tok(pc[u]) = 0
<1>1. /\ Number(TwoOf) = 0 /\ redirected = {} /\ signalled = {} /\ Cardinality(Handed) = 0
      /\ Number(OddOf) = 0 /\ Number(TokOf) = 0
      /\ \A u \in Threads : /\ Two(pc[u], after[u], sema[u]) = 0
                            /\ Odd(pc[u], after[u]) = 0 /\ Tok(pc[u]) = 0
  BY NobodyCounted DEF IInv, Counts
<1>2. Number(OddOf)' = 1 /\ Number(TwoOf)' = 0 /\ Number(TokOf)' = 1 /\ Inside' = Inside
  <2>1. Number(OddOf)' = 0 - 0 + 1 /\ Number(TwoOf)' = 0 - 0 + 0 /\ Number(TokOf)' = 0 - 0 + 1
    BY <1>1, NumbersMove DEF IInv
  <2>2. Inside' = Inside
    BY NumbersMove DEF IInv, Hit
  <2> QED BY <2>1, <2>2
<1>3. OneInvocation'
  BY <1>2 DEF IInv, OneInvocation, Inside
<1>4. Cardinality(redirected)' = 0 /\ Cardinality(signalled)' = 0
  BY <1>1, FS_EmptySet DEF KeepsSets
<1>5. RunningCount'
  BY <1>2, <1>4 DEF RunningCount
<1>6. OneToken'
  BY <1>1, <1>2 DEF OneToken, KeepsSets
<1>7. NoReaders
  BY <1>1 DEF NoReaders, Readers, Two, SharePoints
<1> QED BY <1>1, <1>3, <1>5, <1>6, <1>7 DEF Counts

\* A thread that meets an even dq_running does not meet a barrier.
LEMMA EvenNotAlone ==
    ASSUME IInv, running % 2 = 0
    PROVE  \A u \in Threads : ~BarrierAt(u)
<1> SUFFICES ASSUME NEW u \in Threads, BarrierAt(u) PROVE FALSE
  OBVIOUS
<1>1. Odd(pc[u], after[u]) = 1
  BY DEF BarrierAt, Odd, DrainPoints, FastPoints
<1>2. Number(OddOf) >= 1 /\ Number(OddOf) \in Nat
  BY <1>1, Counted
<1>3. Number(OddOf) = 0
  BY DEF IInv, RunningCount
<1> QED BY <1>2, <1>3

-----------------------------------------------------------------------------
(* The calls up to the push.                                                *)
\* LookTail and LookSuspended: where a call goes.
LEMMA LookKeeps ==
    ASSUME IInv, NEW t \in Threads, LookTail(t) \/ LookSuspended(t)
    PROVE  IInv'
<1> USE DEF SameWeights, PlainPoints, DrainPoints, SharePoints, SemaPoints, RunPoints, Readers,
            CallPoints, ItemPoints, WakePoints, TakePoints, Points
<1>1. CASE LookTail(t)
  <2>1. PICK q \in {"push", "looksuspended"} : Branch(t, "look", q)
    BY <1>1 DEF LookTail
  <2>2. blk[t] # None
    BY <2>1, AtHand DEF Branch, At, Local
  <2> QED BY <2>1, <2>2, BranchStep
<1>2. CASE LookSuspended(t)
  <2>1. PICK q \in {"push", "lock", "enter"} :
            Branch(t, "looksuspended", q) /\ (q = "lock" => kind[blk[t]] = "bsync")
    BY <1>2 DEF LookSuspended
  <2>2. blk[t] # None
    BY <2>1, AtHand DEF Branch, At, Local
  <2> QED BY <2>1, <2>2, BranchStep
<1> QED BY <1>1, <1>2

\* Lock: a barrier sync takes the low bit on the fast path.
LEMMA LockKeeps ==
    ASSUME IInv, NEW t \in Threads, Lock(t)
    PROVE  IInv'
<1>1. CASE Branch(t, "lock", "push")
  BY <1>1, BranchStep DEF SameWeights, PlainPoints, DrainPoints, SharePoints, SemaPoints,
     RunPoints, Readers, CallPoints, ItemPoints, WakePoints, TakePoints, Points
<1>2. CASE running = 0 /\ AddRunning(t, "lock", 1)
  <2>1. /\ pc[t] = "lock" /\ pc' = [pc EXCEPT ![t] = "runlocked"] /\ after' = after
        /\ running' = 1 /\ suspend' = suspend /\ queued' = queued
        /\ blk' = blk /\ dc' = dc /\ nextdc' = nextdc /\ sema' = sema
        /\ status' = [status EXCEPT ![blk[t]] = "running"]
        /\ kind' = kind /\ SameSets
    BY <1>2, AtHand DEF Lock, Branch, AddRunning, At, Goto, Start, rootVars, listVars,
       drainVars,
                        locals, SameSets, blockVars
  <2>2. Frame(t) /\ pc'[t] = "runlocked"
    BY <2>1, AtHand DEF Frame, Points
  <2>3. SameOld /\ KeepsSets /\ RunsKept(t)
    <3>1. SameOld
      BY <2>1, AtHand, StatusMoves DEF IInv, Statuses
    <3>2. RunsOn(t, blk[t])' /\ blk' = blk
      BY <2>1, <2>2 DEF RunsOn, RunPoints
    <3>3. RunsKept(t)
      BY <2>1, <3>2, AtHand, BlockStarts DEF IInv, RunPoints
    <3> QED BY <2>1, <3>1, <3>3 DEF SameSets, KeepsSets, Handed
  <2>4. /\ Odd(pc'[t], after'[t]) = 1 /\ Two(pc'[t], after'[t], sema'[t]) = 0 /\ Tok(pc'[t]) = 1
        /\ Hit(pc'[t], InvokePoints) = Hit(pc[t], InvokePoints)
    BY <2>1, <2>2 DEF Odd, Two, Tok, Hit, InvokePoints, DrainPoints, FastPoints, SlowPoints,
                      SharePoints, TakePoints
  <2>5. Counts' /\ NoReaders
    BY <1>2, <2>1, <2>2, <2>3, <2>4, LockTaken
  <2>6. Knowledge'
    <3>1. Hands(t) /\ Local(t)'
      BY <2>1, <2>2, AtHand DEF Hands, Local, CallPoints, ItemPoints, SemaPoints,
         WakePoints, TakePoints
    <3>2. SetsOld /\ CountersTyped
      BY <2>1 DEF SetsOld, SameSets, CountersTyped, IInv, Types, AllOld, Kinds
    <3> QED BY <2>2, <2>3, <3>1, <3>2, KnowledgeStep DEF IInv, Knowledge
  <2>7. EachRunsOn'
    BY <2>2, <2>3, RunsStep DEF IInv
  <2>8. Alone'
    BY <2>1, <2>2, <2>5 DEF Alone, NoReaders, Frame, SameSets, Readers
  <2>9. WithinWidth'
    BY <2>1, <2>2, WidthStays DEF IInv, NoMore, SameSets, AsyncPoints, Hit
  <2> QED BY <2>5, <2>6, <2>7, <2>8, <2>9 DEF IInv, Counts, Knowledge
<1> QED BY <1>1, <1>2 DEF Lock

\* EnterSync and EnterAsync: a reader counts itself in, and looks.
LEMMA EnterKeeps ==
    ASSUME IInv, NEW t \in Threads, EnterSync(t) \/ EnterAsync(t)
    PROVE  IInv'
<1> USE DEF Odd, Two, Tok, Load, Hit, InvokePoints, DrainPoints, FastPoints, SlowPoints,
            SharePoints, TakePoints, WakePoints, CallPoints, ItemPoints, SemaPoints,
            RunPoints, Readers
<1>1. /\ pc[t] = "enter" /\ running' = running + 2 /\ suspend' = suspend /\ queued' = queued
      /\ after' = after /\ blk' = blk /\ dc' = dc /\ nextdc' = nextdc /\ sema' = sema
      /\ kind' = kind /\ SameSets
  BY AtHand DEF EnterSync, EnterAsync, AddRunning, At, rootVars, listVars, drainVars, locals,
                SameSets, blockVars
<1>2. \/ pc' = [pc EXCEPT ![t] = "overwide"] /\ status' = status
      \/ pc' = [pc EXCEPT ![t] = "backout"] /\ status' = status
      \/ /\ pc' = [pc EXCEPT ![t] = "redirect"] /\ status' = status
         /\ running' % 2 # 1 /\ kind[blk[t]] = "async"
      \/ /\ pc' = [pc EXCEPT ![t] = "runreader"] /\ status' = [status EXCEPT ![blk[t]] = "running"]
         /\ running' % 2 # 1 /\ kind[blk[t]] = "sync"
  BY DEF EnterSync, EnterAsync, Goto, Start
<1>3. Frame(t) /\ pc'[t] \in {"overwide", "backout", "redirect", "runreader"}
  BY <1>1, <1>2, AtHand DEF Frame, Points, Returns
<1>4. Adds(t, 2) /\ KeepsLocks(t)
  BY <1>1, <1>3, AtHand DEF Adds, KeepsLocks
<1>5. Hands(t) /\ Local(t)'
  BY <1>1, <1>2, <1>3, AtHand DEF Hands, Local
<1>6. SameOld /\ RunsKept(t)
  <2>1. CASE status' = status
    BY <1>1, <2>1 DEF SameOld, RunsKept, RunsOn, IInv, Types
  <2>2. CASE status' = [status EXCEPT ![blk[t]] = "running"] /\ pc'[t] = "runreader"
    <3>1. SameOld
      BY <1>1, <2>2, AtHand, StatusMoves DEF IInv, Statuses
    <3>2. RunsOn(t, blk[t])' /\ blk' = blk
      BY <1>1, <2>2 DEF RunsOn
    <3>3. RunsKept(t)
      BY <1>1, <2>2, <3>2, AtHand, BlockStarts DEF IInv
    <3> QED BY <3>1, <3>3
  <2> QED BY <1>2, <2>1, <2>2, AtHand
<1>7. Alone'
  <2>1. CASE pc'[t] \in {"overwide", "backout"}
    BY <1>1, <1>3, <2>1, AloneStays DEF IInv, BarrierAt, SameSets
  <2>2. CASE running' % 2 # 1
    <3>1. running % 2 = 0
      BY <1>1, <2>2, AtHand
    <3> QED BY <1>3, <3>1, EvenNotAlone, NoneAlone DEF BarrierAt
  <2> QED BY <1>2, <1>3, <2>1, <2>2, AtHand
<1>8. WithinWidth'
  <2>1. CASE pc'[t] \in {"overwide", "backout", "runreader"}
    BY <1>1, <1>3, <2>1, WidthStays DEF IInv, NoMore, SameSets, AsyncPoints
  <2>2. CASE pc'[t] = "redirect"
    <3>1. running + 2 <= Width /\ running % 2 = 0
      <4>1. running' <= Width /\ running' % 2 # 1
        <5>1. ~EnterSync(t)
          BY <1>2, <1>3, <2>2, AtHand DEF EnterSync, Goto
        <5>2. pc'[t] = IF running' > Width THEN "overwide"
                       ELSE IF running' % 2 = 1 THEN "backout" ELSE "redirect"
          BY <5>1, AtHand DEF EnterAsync, Goto
        <5>3. running' \in Int /\ Width \in Int
          BY <1>1, AtHand, QueueAssumption DEF QueueAssumption
        <5>4. ~(running' > Width)
          BY <2>2, <5>2
        <5>5. running' % 2 # 1
          BY <2>2, <5>2, <5>4
        <5>6. running' <= Width
          BY <5>3, <5>4
        <5> QED BY <5>5, <5>6
      <4>2. running % 2 = 0
        BY <1>1, <4>1, AtHand
      <4>3. running + 2 <= Width
        BY <1>1, <4>1
      <4> QED BY <4>2, <4>3
    <3>2. Shares' = Shares + 1
      <4>1. Hit(pc[t], AsyncPoints) = 0 /\ Hit(pc'[t], AsyncPoints) = 1
        BY <1>1, <2>2 DEF AsyncPoints
      <4>2. Redirects' = Redirects - 0 + 1 /\ Redirects \in Nat
        BY <1>3, <4>1, RedirectsMove DEF IInv
      <4> QED BY <1>1, <4>2, SetsFinite DEF Shares, SameSets, IInv
    <3>3. Shares \in Nat /\ 2 * Shares <= running
      BY SharesCounted DEF IInv
    <3>4. 2 * Shares' <= Width + 1
      BY <3>1, <3>2, <3>3, AtHand, QueueAssumption DEF QueueAssumption
    <3>5. \A u \in Threads : pc'[u] # "redirectadd"
      <4>1. ASSUME NEW u \in Threads, pc[u] = "redirectadd" PROVE FALSE
        <5>1. Number(OddOf) >= 1 /\ Number(OddOf) \in Nat
          BY <4>1, Counted
        <5> QED BY <3>1, <5>1 DEF IInv, RunningCount
      <4> QED BY <1>3, <2>2, <4>1 DEF Frame
    <3> QED BY <3>4, <3>5 DEF WithinWidth
  <2> QED BY <1>3, <2>1, <2>2
<1> QED BY <1>1, <1>3, <1>4, <1>5, <1>6, <1>7, <1>8, BlockStepKeeps DEF BlockStep

\* BackOut and BackOutAsync: it counts itself out again.
LEMMA BackOutKeeps ==
    ASSUME IInv, NEW t \in Threads, BackOut(t) \/ BackOutAsync(t)
    PROVE  IInv'
<1> USE DEF Odd, Two, Tok, Load, Hit, InvokePoints, DrainPoints, FastPoints, SlowPoints,
            SharePoints, TakePoints, WakePoints, CallPoints, ItemPoints, SemaPoints,
            RunPoints, Readers
<1>1. /\ pc[t] \in {"overwide", "backout"} /\ running' = running - 2
      /\ suspend' = suspend /\ queued' = queued
      /\ blk' = blk /\ dc' = dc /\ nextdc' = nextdc /\ sema' = sema
      /\ SameBlocks
  BY AtHand DEF BackOut, BackOutAsync, AddRunning, At, rootVars, listVars, drainVars, locals,
         SameBlocks, blockVars
<1>2. \/ pc' = [pc EXCEPT ![t] = "wake"] /\ after' = [after EXCEPT ![t] = "push"]
      \/ \E q \in {"push", "look"} : pc' = [pc EXCEPT ![t] = q] /\ after' = after
  BY DEF BackOut, BackOutAsync, WakeIfIdle, Enter, Stay, Goto, locals
<1>3. /\ Frame(t)
      /\ (pc'[t] = "wake" /\ after'[t] = "push") \/ pc'[t] \in {"push", "look"}
  BY <1>1, <1>2, AtHand DEF Frame, Points, Returns
<1>4. Adds(t, -2) /\ KeepsLocks(t)
  BY <1>1, <1>3, AtHand DEF Adds, KeepsLocks
<1>5. Hands(t) /\ Local(t)' /\ NoRun(t)
  BY <1>1, <1>3, AtHand DEF Hands, Local, NoRun, BarrierAt
<1> QED BY <1>1, <1>3, <1>4, <1>5, OrdinaryKeeps DEF Ordinary

\* A share passes from a thread to a block, or from a block to a thread.
SharePasses(t) ==
    /\ running' = running /\ suspend' = suspend /\ queued' = queued
    /\ Odd(pc'[t], after'[t]) = Odd(pc[t], after[t])
    /\ Hit(pc'[t], InvokePoints) = Hit(pc[t], InvokePoints)
    /\ \/ /\ Two(pc[t], after[t], sema[t]) = 1 /\ Two(pc'[t], after'[t], sema'[t]) = 0
          /\ \E b \in Items : \/ redirected' = redirected \cup {b} /\ signalled' = signalled
                              \/ redirected' = redirected /\ signalled' = signalled \cup {b}
       \/ /\ Two(pc[t], after[t], sema[t]) = 0 /\ Two(pc'[t], after'[t], sema'[t]) = 1
          /\ \/ redirected' = redirected /\ \E b \in signalled : signalled' = signalled \ {b}
             \/ signalled' = signalled /\ \E b \in redirected : redirected' = redirected \ {b}

\* How a finite set grows and shrinks by one.
LEMMA SetSizes ==
    ASSUME NEW S, IsFiniteSet(S), NEW b
    PROVE  /\ Cardinality(S) \in Nat
           /\ IsFiniteSet(S \cup {b}) /\ Cardinality(S \cup {b}) \in Nat
           /\ Cardinality(S \cup {b}) <= Cardinality(S) + 1
           /\ IsFiniteSet(S \ {b}) /\ Cardinality(S \ {b}) \in Nat
           /\ b \in S => Cardinality(S \ {b}) = Cardinality(S) - 1
<1>1. Cardinality(S) \in Nat
  BY FS_CardinalityType
<1>2. IsFiniteSet(S \cup {b}) /\ (Cardinality(S \cup {b}) = Cardinality(S) \/ Cardinality(S \cup {b}) = Cardinality(S) + 1)
  BY FS_AddElement
<1>3. IsFiniteSet(S \ {b}) /\ Cardinality(S \ {b}) \in Nat
  BY FS_RemoveElement, FS_CardinalityType
<1>4. b \in S => Cardinality(S \ {b}) = Cardinality(S) - 1
  BY FS_RemoveElement
<1> QED BY <1>1, <1>2, <1>3, <1>4

\* What this does to dq_running, and to the invocation.
LEMMA SharePassed ==
    ASSUME Types, Counts, NEW t \in Threads, Frame(t), SharePasses(t)
    PROVE  OneInvocation' /\ RunningCount'
<1>1. OneInvocation'
  <2>1. Inside' = Inside
    <3>1. Hit(pc'[t], InvokePoints) = Hit(pc[t], InvokePoints)
      BY DEF SharePasses
    <3> QED BY <3>1, NumbersMove DEF Hit
  <2> QED BY <2>1 DEF Counts, OneInvocation, Inside, SharePasses
<1> DEFINE n == Number(OddOf)  m == Number(TwoOf)  mp == Number(TwoOf)'
           c == Cardinality(redirected)  cp == Cardinality(redirected)'
           e == Cardinality(signalled)  ep == Cardinality(signalled)'
<1>2. Number(OddOf)' = n /\ n \in Nat
  <2>1. Odd(pc'[t], after'[t]) = Odd(pc[t], after[t])
    BY DEF SharePasses
  <2> QED BY <2>1, NumbersMove DEF Odd
<1>3. c \in Nat /\ e \in Nat /\ m \in Nat /\ running \in Int
  BY SetsFinite, NumbersMove DEF Types
<1>4. /\ cp \in Nat /\ ep \in Nat
      /\ \/ mp = m - 1 /\ cp <= c + 1 /\ ep = e
         \/ mp = m - 1 /\ cp = c /\ ep <= e + 1
         \/ mp = m + 1 /\ cp = c /\ ep = e - 1
         \/ mp = m + 1 /\ cp = c - 1 /\ ep = e
  <2>1. CASE /\ Two(pc[t], after[t], sema[t]) = 1 /\ Two(pc'[t], after'[t], sema'[t]) = 0
             /\ \E b \in Items : \/ redirected' = redirected \cup {b} /\ signalled' = signalled
                                 \/ redirected' = redirected /\ signalled' = signalled \cup {b}
    <3>1. mp = m - 1
      BY <1>3, <2>1, NumbersMove
    <3> QED BY <1>3, <2>1, <3>1, SetsFinite, SetSizes
  <2>2. CASE /\ Two(pc[t], after[t], sema[t]) = 0 /\ Two(pc'[t], after'[t], sema'[t]) = 1
             /\ \/ redirected' = redirected /\ \E b \in signalled : signalled' = signalled \ {b}
                \/ signalled' = signalled /\ \E b \in redirected : redirected' = redirected \ {b}
    <3>1. mp = m + 1
      BY <1>3, <2>2, NumbersMove
    <3> QED BY <1>3, <2>2, <3>1, SetsFinite, SetSizes
  <2> QED BY <2>1, <2>2 DEF SharePasses
<1>5. running' = running /\ running % 2 = n /\ running >= n + 2 * m + (2 * c + 2 * e)
  BY DEF Counts, RunningCount, SharePasses
<1> HIDE DEF n, m, mp, c, cp, e, ep
<1>6. running >= n + 2 * mp + (2 * cp + 2 * ep)
  <2>1. n \in Nat /\ mp \in Int
    BY <1>2, <1>3, <1>4
  <2> QED BY <1>3, <1>4, <1>5, <2>1
<1>7. RunningCount'
  BY <1>2, <1>5, <1>6 DEF RunningCount, n, m, mp, c, cp, e, ep
<1> QED BY <1>1, <1>7

\* The right to the list stays where it is.
LEMMA TokenStays ==
    ASSUME Types, OneToken, NEW t \in Threads, Frame(t), Tok(pc'[t]) = Tok(pc[t]), Handed' = Handed
    PROVE  OneToken'
<1>1. Number(TokOf)' = Number(TokOf)
  BY NumbersMove DEF Tok
<1> QED BY <1>1 DEF OneToken

\* A thread that has the list lets another one go.
LEMMA TokenSignalled ==
    ASSUME Types, OneToken, NEW t \in Threads, Frame(t), Tok(pc[t]) = 1, Tok(pc'[t]) = 0,
           kind' = kind, NEW b \in Items, signalled' = signalled \cup {b}
    PROVE  OneToken'
<1>1. Number(TokOf) = 1 /\ Cardinality(Handed) = 0
  BY TokenUnique
<1>2. Number(TokOf)' = 0
  <2>1. Number(TokOf)' = Number(TokOf) - Tok(pc[t]) + Tok(pc'[t])
    BY NumbersMove
  <2> QED BY <1>1, <2>1
<1>3. Handed = {}
  BY <1>1, SetsFinite, FS_EmptySet
<1>4. Handed' = {} \/ Handed' = {b}
  BY <1>3 DEF Handed
<1>5. Cardinality(Handed') <= 1 /\ Cardinality(Handed') \in Nat
  <2>1. CASE Handed' = {}
    <3>1. Cardinality(Handed') = 0
      BY <2>1, FS_EmptySet
    <3> QED BY <3>1
  <2>2. CASE Handed' = {b}
    <3>1. Cardinality(Handed') = 1
      BY <2>2, FS_Singleton
    <3> QED BY <3>1
  <2> QED BY <1>4, <2>1, <2>2
<1> QED BY <1>2, <1>5 DEF OneToken

\* The thread that was let go has it.
LEMMA TokenTaken ==
    ASSUME Types, OneToken, NEW t \in Threads, Frame(t), Tok(pc[t]) = 0, Tok(pc'[t]) = 1,
           NEW b \in Handed, Handed' = Handed \ {b}
    PROVE  OneToken'
<1>1. Number(TokOf)' = Number(TokOf) - 0 + 1 /\ Number(TokOf) \in Nat
  BY NumbersMove
<1>2. Cardinality(Handed') = Cardinality(Handed) - 1 /\ Cardinality(Handed) \in Nat
  BY SetsFinite, FS_RemoveElement
<1> QED BY <1>1, <1>2 DEF OneToken

\* What such steps have in common.
LEMMA PassKeeps ==
    ASSUME IInv, NEW t \in Threads, Frame(t), SharePasses(t), OneToken',
           SameOld, SetsOld, Hands(t), Local(t)', RunsKept(t), Alone', WithinWidth'
    PROVE  IInv'
<1>1. OneInvocation' /\ RunningCount'
  BY SharePassed DEF IInv, Counts
<1>2. CountersTyped
  BY DEF SharePasses, CountersTyped, IInv, Types
<1>3. Knowledge'
  BY <1>2, KnowledgeStep DEF IInv, Knowledge
<1>4. EachRunsOn'
  BY RunsStep DEF IInv
<1> QED BY <1>1, <1>3, <1>4 DEF IInv, Knowledge

\* A share that passes between a block on the target and a thread.
LEMMA WidthPasses ==
    ASSUME Types, WithinWidth, NEW t \in Threads, Frame(t), pc'[t] # "redirectadd",
           \/ /\ pc[t] \in AsyncPoints /\ pc'[t] \notin AsyncPoints
              /\ \E b \in Items : redirected' \in {redirected, redirected \cup {b}}
           \/ /\ pc[t] \notin AsyncPoints /\ pc'[t] \in AsyncPoints
              /\ \E b \in redirected : redirected' = redirected \ {b}
    PROVE  WithinWidth'
<1> DEFINE a == Hit(pc[t], AsyncPoints)  b == Hit(pc'[t], AsyncPoints)
           r == Redirects  rp == Redirects'
           c == Cardinality(redirected)  cp == Cardinality(redirected)'
<1>1. r \in Nat /\ rp \in Nat /\ rp = r - a + b
  BY RedirectsMove
<1>2. /\ c \in Nat /\ cp \in Nat
      /\ \/ a = 1 /\ b = 0 /\ cp <= c + 1
         \/ a = 0 /\ b = 1 /\ cp = c - 1
  <2>1. IsFiniteSet(redirected) /\ c \in Nat
    BY SetsFinite
  <2>2. CASE /\ pc[t] \in AsyncPoints /\ pc'[t] \notin AsyncPoints
             /\ \E d \in Items : redirected' \in {redirected, redirected \cup {d}}
    <3>1. PICK d \in Items : redirected' = redirected \/ redirected' = redirected \cup {d}
      BY <2>2
    <3>2. /\ Cardinality(redirected \cup {d}) \in Nat
          /\ Cardinality(redirected \cup {d}) <= Cardinality(redirected) + 1
      BY <2>1, SetSizes
    <3>3. cp \in Nat /\ cp <= c + 1
      <4>1. CASE redirected' = redirected
        <5>1. cp = c
          BY <4>1
        <5> HIDE DEF c, cp
        <5> QED BY <2>1, <5>1
      <4>2. CASE redirected' = redirected \cup {d}
        <5>1. cp = Cardinality(redirected \cup {d})
          BY <4>2
        <5> QED BY <3>2, <5>1
      <4> QED BY <3>1, <4>1, <4>2
    <3> QED BY <2>1, <2>2, <3>3 DEF Hit
  <2>3. CASE /\ pc[t] \notin AsyncPoints /\ pc'[t] \in AsyncPoints
             /\ \E d \in redirected : redirected' = redirected \ {d}
    <3>1. cp \in Nat /\ cp = c - 1
      BY <2>1, <2>3, SetSizes
    <3> QED BY <2>1, <2>3, <3>1 DEF Hit
  <2> QED BY <2>2, <2>3
<1>3. Shares = r + c /\ Shares' = rp + cp
  BY DEF Shares
<1> HIDE DEF a, b, r, rp, c, cp
<1>4. Shares' <= Shares /\ Shares \in Nat /\ Shares' \in Nat
  BY <1>1, <1>2, <1>3
<1>5. ASSUME NEW u \in Threads, pc'[u] = "redirectadd" PROVE pc[u] = "redirectadd"
  BY <1>5 DEF Frame
<1>6. Width \in Nat
  BY QueueAssumption DEF QueueAssumption
<1>7. /\ 2 * Shares <= Width + 1 => 2 * Shares' <= Width + 1
      /\ 2 * Shares + 1 <= Width => 2 * Shares' + 1 <= Width
  <2>1. ASSUME NEW s \in Nat, NEW sp \in Nat, NEW w \in Nat, sp <= s
        PROVE  (2 * s <= w + 1 => 2 * sp <= w + 1) /\ (2 * s + 1 <= w => 2 * sp + 1 <= w)
    BY <2>1
  <2> QED BY <1>4, <1>6, <2>1
<1> QED BY <1>5, <1>7 DEF WithinWidth

\* Redirect: a block of dispatch_async_f goes to the target.
LEMMA RedirectKeeps ==
    ASSUME IInv, NEW t \in Threads, Redirect(t)
    PROVE  IInv'
<1> USE DEF Odd, Two, Tok, Load, Hit, InvokePoints, DrainPoints, FastPoints, SlowPoints,
            SharePoints, TakePoints, WakePoints, CallPoints, ItemPoints, SemaPoints,
            RunPoints, Readers
<1>1. /\ pc[t] = "redirect" /\ pc' = [pc EXCEPT ![t] = "idle"] /\ after' = after
      /\ running' = running /\ suspend' = suspend /\ queued' = queued
      /\ blk' = [blk EXCEPT ![t] = None] /\ dc' = dc /\ nextdc' = nextdc /\ sema' = sema
      /\ redirected' = redirected \cup {blk[t]} /\ signalled' = signalled
      /\ kind' = kind /\ status' = status /\ head' = head /\ next' = next
  BY DEF Redirect, At, Goto, Forget, listVars, history, blockVars, drainVars
<1>2. Frame(t) /\ pc'[t] = "idle" /\ blk'[t] = None
  BY <1>1, AtHand, ThreadsFinite DEF Frame, Points, Items
<1>3. blk[t] # None /\ kind[blk[t]] = "async" /\ blk[t] \in Blocks
  BY <1>1, AtHand DEF Local, Items
<1>4. SharePasses(t)
  BY <1>1, <1>2, AtHand DEF SharePasses
<1>5. SameOld /\ SetsOld /\ Hands(t) /\ Local(t)'
  BY <1>1, <1>2, <1>3, AtHand DEF SameOld, SetsOld, Hands, Local, IInv, Types, AllOld, Kinds
<1>6. OneToken'
  <2>1. Handed' = Handed
    BY <1>1 DEF Handed
  <2> QED BY <1>1, <1>2, <2>1, TokenStays DEF IInv
<1>7. RunsKept(t)
  BY <1>1, <1>2 DEF RunsKept, RunsOn
<1>8. Alone'
  <2>1. \A u \in Threads : ~BarrierAt(u)
    BY <1>1 DEF IInv, Alone, NoReaders
  <2> QED BY <1>2, <2>1, NoneAlone DEF BarrierAt
<1>9. WithinWidth'
  BY <1>1, <1>2, AtHand, WidthPasses DEF IInv, AsyncPoints
<1> QED BY <1>2, <1>4, <1>5, <1>6, <1>7, <1>8, <1>9, PassKeeps

\* RedirectPush: a reader that was popped goes to its thread or to the target.
LEMMA RedirectPushKeeps ==
    ASSUME IInv, NEW t \in Threads, RedirectPush(t)
    PROVE  IInv'
<1> USE DEF Odd, Two, Tok, Load, Hit, InvokePoints, DrainPoints, FastPoints, SlowPoints,
            SharePoints, TakePoints, WakePoints, CallPoints, ItemPoints, SemaPoints,
            RunPoints, Readers
<1>1. /\ pc[t] = "redirectpush" /\ after' = after
      /\ pc' = [pc EXCEPT ![t] = IF nextdc[t] = None THEN "drain" ELSE "next"]
      /\ running' = running /\ suspend' = suspend /\ queued' = queued
      /\ blk' = blk /\ sema' = sema
      /\ dc' = [dc EXCEPT ![t] = nextdc[t]] /\ nextdc' = [nextdc EXCEPT ![t] = None]
      /\ kind' = kind /\ status' = status /\ head' = head /\ next' = next
  BY DEF RedirectPush, Advance, At, Goto, listVars, history, blockVars
<1>2. Frame(t) /\ pc'[t] \in {"drain", "next"} /\ (pc'[t] = "next" => dc'[t] # None)
      /\ dc'[t] = nextdc[t] /\ nextdc'[t] = None
  BY <1>1, AtHand, ThreadsFinite DEF Frame, Points, Items
<1>3. dc[t] # None /\ kind[dc[t]] \notin Barriers /\ dc[t] \in Blocks
  BY <1>1, AtHand DEF Local, Items
<1>4. \/ kind[dc[t]] = "sync" /\ signalled' = signalled \cup {dc[t]} /\ redirected' = redirected
      \/ kind[dc[t]] # "sync" /\ redirected' = redirected \cup {dc[t]} /\ signalled' = signalled
  BY DEF RedirectPush
<1>5. SharePasses(t)
  BY <1>1, <1>2, <1>3, <1>4, AtHand DEF SharePasses, Items
<1>6. SameOld /\ Hands(t) /\ Local(t)'
  BY <1>1, <1>2, AtHand DEF SameOld, Hands, Local, IInv, Types
<1>7. SetsOld
  <2>1. kind[dc[t]] # "sync" => kind[dc[t]] = "async"
    BY <1>3 DEF Barriers, AllCalls, IInv, Types
  <2> QED BY <1>1, <1>3, <1>4, <2>1, AtHand DEF SetsOld, IInv, Types, AllOld, Kinds
<1>8. OneToken'
  <2>1. Handed' = Handed
    BY <1>1, <1>3, <1>4 DEF Handed
  <2> QED BY <1>1, <1>2, <2>1, TokenStays DEF IInv
<1>9. RunsKept(t)
  BY <1>1, <1>2 DEF RunsKept, RunsOn
<1>10. Alone'
  <2>1. \A u \in Threads : ~BarrierAt(u)
    BY <1>1 DEF IInv, Alone, NoReaders
  <2> QED BY <1>2, <2>1, NoneAlone DEF BarrierAt
<1>11. WithinWidth'
  BY <1>1, <1>2, <1>3, <1>4, AtHand, WidthPasses DEF IInv, AsyncPoints
<1> QED BY <1>2, <1>5, <1>6, <1>7, <1>8, <1>9, <1>10, <1>11, PassKeeps

\* TransferSignal and InvokeSignal: a barrier sync is told that it has the lock.
LEMMA SignalKeeps ==
    ASSUME IInv, NEW t \in Threads, TransferSignal(t) \/ InvokeSignal(t)
    PROVE  IInv'
<1> USE DEF Odd, Two, Tok, Load, Hit, InvokePoints, DrainPoints, FastPoints, SlowPoints,
            SharePoints, TakePoints, WakePoints, CallPoints, ItemPoints, SemaPoints,
            RunPoints, Readers
<1>1. /\ \/ pc[t] = "xfersignal" /\ pc' = [pc EXCEPT ![t] = "idle"]
         \/ pc[t] = "invokesignal" /\ pc' = [pc EXCEPT ![t] = "unlock"]
      /\ running' = running /\ suspend' = suspend /\ queued' = queued /\ after' = after
      /\ blk' = blk /\ dc' = dc /\ nextdc' = nextdc /\ sema' = [sema EXCEPT ![t] = None]
      /\ kind' = kind /\ status' = status /\ head' = head /\ next' = next
      /\ signalled' = signalled \cup {sema[t]} /\ redirected' = redirected
  BY DEF TransferSignal, InvokeSignal, At, Goto, countVars, rootVars, listVars, history,
     blockVars
<1>2. /\ Frame(t) /\ sema'[t] = None
      /\ \/ pc[t] = "xfersignal" /\ pc'[t] = "idle"
         \/ pc[t] = "invokesignal" /\ pc'[t] = "unlock"
  BY <1>1, AtHand, ThreadsFinite DEF Frame, Points, Items
<1>3. sema[t] # None /\ sema[t] \in Blocks /\ sema[t] \in Old
  BY <1>1, AtHand DEF Local, Items
<1>4. SharePasses(t)
  BY <1>1, <1>2, <1>3, AtHand DEF SharePasses, Items
<1>5. SameOld /\ SetsOld /\ Hands(t) /\ Local(t)'
  BY <1>1, <1>2, <1>3, AtHand DEF SameOld, SetsOld, Hands, Local, IInv, Types, AllOld, Kinds
<1>6. OneToken'
  BY <1>1, <1>2, <1>3, TokenSignalled DEF IInv, Items
<1>7. RunsKept(t)
  BY <1>1, <1>2 DEF RunsKept, RunsOn
<1>8. Alone'
  <2>1. \A u \in Threads : Tok(pc[u]) = 1 => u = t
    BY <1>1, TokenUnique DEF IInv
  <2>2. \A u \in Threads : BarrierAt(u) => u = t
    BY <2>1 DEF BarrierAt
  <2> QED BY <1>2, <2>2, NoneAlone DEF BarrierAt
<1>9. WithinWidth'
  BY <1>1, <1>2, WidthStays DEF IInv, NoMore, AsyncPoints
<1> QED BY <1>2, <1>4, <1>5, <1>6, <1>7, <1>8, <1>9, PassKeeps

-----------------------------------------------------------------------------
(* The push and the wakeup.                                                 *)

\* PushTail: the block is queued.
LEMMA PushTailKeeps ==
    ASSUME IInv, NEW t \in Threads, PushTail(t)
    PROVE  IInv'
<1> USE DEF Odd, Two, Tok, Load, Hit, InvokePoints, DrainPoints, FastPoints, SlowPoints,
            SharePoints, TakePoints, WakePoints, CallPoints, ItemPoints, SemaPoints,
            RunPoints, Readers
<1>1. /\ pc[t] = "push" /\ running' = running /\ suspend' = suspend /\ queued' = queued
      /\ after' = after /\ blk' = blk /\ dc' = dc /\ nextdc' = nextdc /\ sema' = sema
      /\ kind' = kind /\ SameSets /\ status' = [status EXCEPT ![blk[t]] = "queued"]
      /\ \E q \in {"link", "sethead"} : pc' = [pc EXCEPT ![t] = q]
  BY AtHand DEF PushTail, At, Goto, countVars, rootVars, blockVars, drainVars, SameSets
<1>2. Frame(t) /\ pc'[t] \in {"link", "sethead"}
  BY <1>1, AtHand DEF Frame, Points
<1>3. Adds(t, 0) /\ KeepsLocks(t)
  BY <1>1, <1>2, AtHand DEF Adds, KeepsLocks
<1>4. Hands(t) /\ Local(t)'
  BY <1>1, <1>2, AtHand DEF Hands, Local
<1>5. SameOld
  BY <1>1, AtHand, StatusMoves DEF IInv, Statuses
<1>6. RunsKept(t)
  <2>1. \A c \in Blocks : ~RunsOn(t, c)
    BY <1>1 DEF RunsOn
  <2> QED BY <1>1, <2>1, AtHand, BlockEnds DEF IInv
<1>7. Alone'
  BY <1>1, <1>2, AloneStays DEF IInv, BarrierAt, SameSets
<1>8. WithinWidth'
  BY <1>1, <1>2, WidthStays DEF IInv, NoMore, SameSets, AsyncPoints
<1> QED BY <1>1, <1>2, <1>3, <1>4, <1>5, <1>6, <1>7, <1>8, BlockStepKeeps DEF BlockStep

\* PushLink and Release: a synchronous call waits for its block, another one returns.
LEMMA LinkKeeps ==
    ASSUME IInv, NEW t \in Threads, PushLink(t) \/ Release(t)
    PROVE  IInv'
<1> USE DEF Odd, Two, Tok, Load, Hit, InvokePoints, DrainPoints, FastPoints, SlowPoints,
            SharePoints, TakePoints, WakePoints, CallPoints, ItemPoints, SemaPoints,
            RunPoints, Readers
<1>1. /\ pc[t] \in {"link", "release"} /\ after' = after
      /\ running' = running /\ suspend' = suspend /\ queued' = queued
      /\ dc' = dc /\ nextdc' = nextdc /\ sema' = sema /\ kind' = kind
      /\ \/ pc' = [pc EXCEPT ![t] = "wait"] /\ blk' = blk /\ blk[t] # None /\ kind[blk[t]] \in Syncs
         \/ pc' = [pc EXCEPT ![t] = "idle"] /\ blk' = [blk EXCEPT ![t] = None]
      /\ SameBlocks
  BY AtHand DEF PushLink, Release, LeavePush, Forget, At, Goto, countVars, listVars,
     rootVars, history, blockVars, drainVars, SameBlocks
<1>2. /\ Frame(t)
      /\ pc'[t] \in {"wait", "idle"} /\ blk'[t] \in {blk[t], None}
      /\ pc'[t] = "wait" => blk'[t] # None /\ kind[blk'[t]] \in Syncs
  BY <1>1, AtHand, ThreadsFinite DEF Frame, Points, Returns, Items
<1>3. Adds(t, 0) /\ KeepsLocks(t)
  BY <1>1, <1>2, AtHand DEF Adds, KeepsLocks, Local, INTERVAL
<1>4. Hands(t) /\ Local(t)' /\ NoRun(t)
  BY <1>1, <1>2, AtHand DEF Hands, Local, NoRun, BarrierAt
<1> QED BY <1>1, <1>2, <1>3, <1>4, OrdinaryKeeps DEF Ordinary

\* PushHead: the head is published.
LEMMA PushHeadKeeps ==
    ASSUME IInv, NEW t \in Threads, PushHead(t)
    PROVE  IInv'
<1> USE DEF Odd, Two, Tok, Load, Hit, InvokePoints, DrainPoints, FastPoints, SlowPoints,
            SharePoints, TakePoints, WakePoints, CallPoints, ItemPoints, SemaPoints,
            RunPoints, Readers
<1>1. /\ pc[t] = "sethead" /\ pc' = [pc EXCEPT ![t] = "wake"] /\ after' = [after EXCEPT ![t] = "release"]
      /\ running' = running /\ suspend' = suspend /\ queued' = queued
      /\ blk' = blk /\ dc' = dc /\ nextdc' = nextdc /\ sema' = sema
      /\ SameBlocks
  BY AtHand DEF PushHead, Enter, At, Goto, rootVars, history, blockVars, drainVars,
     SameBlocks
<1>2. /\ Frame(t)
      /\ pc'[t] = "wake" /\ after'[t] = "release"
  BY <1>1, AtHand, ThreadsFinite DEF Frame, Points, Returns, Items
<1>3. Adds(t, 0) /\ KeepsLocks(t)
  BY <1>1, <1>2, AtHand DEF Adds, KeepsLocks, Local, INTERVAL
<1>4. Hands(t) /\ Local(t)' /\ NoRun(t)
  BY <1>1, <1>2, AtHand DEF Hands, Local, NoRun, BarrierAt
<1> QED BY <1>1, <1>2, <1>3, <1>4, OrdinaryKeeps DEF Ordinary

\* A step that takes or gives the low bit of do_suspend_cnt, or pops the queue.
LEMMA InvocationKeeps ==
    ASSUME IInv, NEW t \in Threads, Frame(t), OneInvocation', Adds(t, 0),
           Tok(pc'[t]) = Tok(pc[t]), SameBlocks, suspend' \in Int, queued' \in Nat,
           Hands(t), Local(t)', NoRun(t)
    PROVE  IInv'
<1>1. KeepsSets
  BY DEF SameBlocks, KeepsSets, Handed
<1>2. Counts'
  BY <1>1, RunningStep, TokenStays DEF IInv, Counts, KeepsSets
<1>3. Knowledge'
  <2>1. SameOld /\ SetsOld
    BY DEF SameBlocks, SameOld, SetsOld, IInv, Types, AllOld, Kinds
  <2>2. CountersTyped
    <3>1. running' = running + 0 /\ running \in Int
      BY DEF Adds, IInv, Types
    <3> QED BY <3>1 DEF CountersTyped
  <2> QED BY <2>1, <2>2, KnowledgeStep DEF IInv, Knowledge
<1>4. EachRunsOn'
  <2>1. RunsKept(t)
    BY DEF RunsKept, NoRun, SameBlocks, RunsOn
  <2> QED BY <2>1, RunsStep DEF IInv
<1>5. Alone'
  BY AloneStays DEF IInv, NoRun, SameBlocks
<1>6. WithinWidth'
  BY WidthKept DEF IInv, SameBlocks
<1> QED BY <1>2, <1>3, <1>4, <1>5, <1>6 DEF IInv, Counts, Knowledge

\* WakeSuspended and WakeProbe: there may be nothing to do.
LEMMA WakeProbeKeeps ==
    ASSUME IInv, NEW t \in Threads, WakeSuspended(t) \/ WakeProbe(t)
    PROVE  IInv'
<1> USE DEF Odd, Two, Tok, Load, Hit, InvokePoints, DrainPoints, FastPoints, SlowPoints,
            SharePoints, TakePoints, WakePoints, CallPoints, ItemPoints, SemaPoints,
            RunPoints, Readers
<1>1. /\ pc[t] \in {"wake", "wakeprobe"} /\ after[t] \in {"idle", "push", "release"}
      /\ \/ pc' = [pc EXCEPT ![t] = after[t]] /\ after' = [after EXCEPT ![t] = "idle"]
         \/ \E q \in {"wakeprobe", "wakelock"} : pc' = [pc EXCEPT ![t] = q] /\ after' = after
      /\ running' = running /\ suspend' = suspend /\ queued' = queued
      /\ blk' = blk /\ dc' = dc /\ nextdc' = nextdc /\ sema' = sema
      /\ SameBlocks
  BY AtHand DEF WakeSuspended, WakeProbe, Return, Stay, At, Goto, Local, shared, countVars,
     listVars, rootVars, history, blockVars, drainVars, SameBlocks
<1>2. /\ Frame(t)
      /\ \/ pc'[t] \in {"idle", "push", "release"}
         \/ pc'[t] \in {"wakeprobe", "wakelock"} /\ after'[t] \in {"idle", "push", "release"}
  BY <1>1, AtHand, ThreadsFinite DEF Frame, Points, Returns, Items
<1>3. Adds(t, 0) /\ KeepsLocks(t)
  BY <1>1, <1>2, AtHand DEF Adds, KeepsLocks, Local, INTERVAL
<1>4. Hands(t) /\ Local(t)' /\ NoRun(t)
  BY <1>1, <1>2, AtHand DEF Hands, Local, NoRun, BarrierAt
<1> QED BY <1>1, <1>2, <1>3, <1>4, OrdinaryKeeps DEF Ordinary

\* WakeLock: the queue goes to its target.
LEMMA WakeLockKeeps ==
    ASSUME IInv, NEW t \in Threads, WakeLock(t)
    PROVE  IInv'
<1> USE DEF Odd, Two, Tok, Load, Hit, InvokePoints, DrainPoints, FastPoints, SlowPoints,
            SharePoints, TakePoints, WakePoints, CallPoints, ItemPoints, SemaPoints,
            RunPoints, Readers
<1>1. /\ pc[t] = "wakelock" /\ after[t] \in {"idle", "push", "release"}
      /\ pc' = [pc EXCEPT ![t] = after[t]] /\ after' = [after EXCEPT ![t] = "idle"]
      /\ running' = running /\ SameBlocks
      /\ blk' = blk /\ dc' = dc /\ nextdc' = nextdc /\ sema' = sema
      /\ \/ suspend = 0 /\ suspend' = 1 /\ queued' = queued + 1
         \/ suspend' = suspend /\ queued' = queued
  BY AtHand DEF WakeLock, Return, At, Goto, Local, listVars, history, blockVars, drainVars,
                LOCK, SameBlocks
<1>2. Frame(t) /\ pc'[t] \in {"idle", "push", "release"}
  BY <1>1, AtHand DEF Frame, Points, Returns
<1>3. Adds(t, 0) /\ Tok(pc'[t]) = Tok(pc[t])
  BY <1>1, <1>2, AtHand DEF Adds, Local
<1>4. Hands(t) /\ Local(t)' /\ NoRun(t)
  BY <1>1, <1>2, AtHand DEF Hands, Local, NoRun, BarrierAt
<1>5. OneInvocation' /\ suspend' \in Int /\ queued' \in Nat
  <2>1. Inside' = Inside /\ Inside \in Nat
    <3>1. Hit(pc'[t], InvokePoints) = 0 /\ Hit(pc[t], InvokePoints) = 0
      BY <1>1, <1>2
    <3>2. /\ Inside' = Inside - Hit(pc[t], InvokePoints) + Hit(pc'[t], InvokePoints)
          /\ Inside \in Nat
      BY <1>2, NumbersMove DEF IInv
    <3> HIDE DEF Hit
    <3> QED BY <3>1, <3>2
  <2>2. suspend % 2 = queued + Inside /\ queued \in Nat /\ suspend \in Int
    BY DEF IInv, OneInvocation, Inside, Types
  <2>3. suspend' % 2 = queued' + Inside
    BY <1>1, <2>1, <2>2
  <2> QED BY <1>1, <2>1, <2>2, <2>3 DEF OneInvocation, Inside
<1> QED BY <1>1, <1>2, <1>3, <1>4, <1>5, InvocationKeeps


-----------------------------------------------------------------------------
(* The end of a synchronous block.                                          *)

\* LeaveSync: the block is counted out.
LEMMA LeaveSyncKeeps ==
    ASSUME IInv, NEW t \in Threads, LeaveSync(t)
    PROVE  IInv'
<1> USE DEF Odd, Two, Tok, Load, Hit, InvokePoints, DrainPoints, FastPoints, SlowPoints,
            SharePoints, TakePoints, WakePoints, CallPoints, ItemPoints, SemaPoints,
            RunPoints, Readers
<1>1. /\ pc[t] = "runreader"
      /\ running' = running - 2 /\ suspend' = suspend /\ queued' = queued
      /\ blk' = [blk EXCEPT ![t] = None] /\ dc' = dc /\ nextdc' = nextdc /\ sema' = sema
      /\ \/ pc' = [pc EXCEPT ![t] = "wake"] /\ after' = [after EXCEPT ![t] = "idle"]
         \/ pc' = [pc EXCEPT ![t] = "idle"] /\ after' = after
      /\ kind' = kind /\ SameSets /\ status' = [status EXCEPT ![blk[t]] = "done"]
  BY AtHand DEF LeaveSync, AddRunning, WakeIfIdle, Enter, Stay, At, Goto, Finish, Forget,
     shared, countVars, listVars, rootVars, blockVars, drainVars, SameSets
<1>2. /\ Frame(t)
      /\ blk'[t] = None
      /\ \/ pc'[t] = "wake" /\ after'[t] = "idle"
         \/ pc'[t] = "idle"
  BY <1>1, AtHand, ThreadsFinite DEF Frame, Points, Returns, Items
<1>3. Adds(t, -2) /\ KeepsLocks(t)
  BY <1>1, <1>2, AtHand DEF Adds, KeepsLocks, Local
<1>4. Hands(t) /\ Local(t)'
  BY <1>1, <1>2, AtHand DEF Hands, Local
<1>5. SameOld
  BY <1>1, AtHand, StatusMoves DEF IInv, Statuses
<1>6. RunsKept(t)
  <2>1. \A c \in Blocks : RunsOn(t, c) => c = blk[t]
    BY <1>1 DEF RunsOn
  <2> QED BY <1>1, <2>1, AtHand, BlockEnds DEF IInv
<1>7. Alone'
  BY <1>1, <1>2, AloneStays DEF IInv, BarrierAt, SameSets
<1>8. WithinWidth'
  BY <1>1, <1>2, WidthStays DEF IInv, NoMore, SameSets, AsyncPoints
<1> QED BY <1>1, <1>2, <1>3, <1>4, <1>5, <1>6, <1>7, <1>8, BlockStepKeeps DEF BlockStep

\* RedirectedRan: the same for a block on the target.
LEMMA RedirectedRanKeeps ==
    ASSUME IInv, NEW t \in Threads, RedirectedRan(t)
    PROVE  IInv'
<1> USE DEF Odd, Two, Tok, Load, Hit, InvokePoints, DrainPoints, FastPoints, SlowPoints,
            SharePoints, TakePoints, WakePoints, CallPoints, ItemPoints, SemaPoints,
            RunPoints, Readers
<1>1. /\ pc[t] = "runredirected"
      /\ running' = running - 2 /\ suspend' = suspend /\ queued' = queued
      /\ blk' = [blk EXCEPT ![t] = None] /\ dc' = dc /\ nextdc' = nextdc /\ sema' = sema
      /\ \/ pc' = [pc EXCEPT ![t] = "wake"] /\ after' = [after EXCEPT ![t] = "release"]
         \/ pc' = [pc EXCEPT ![t] = "release"] /\ after' = after
      /\ kind' = kind /\ SameSets /\ status' = [status EXCEPT ![blk[t]] = "done"]
  BY AtHand DEF RedirectedRan, AddRunning, WakeIfIdle, Enter, Stay, At, Goto, Finish,
     Forget, shared, countVars, listVars, rootVars, blockVars, drainVars, SameSets
<1>2. /\ Frame(t)
      /\ blk'[t] = None
      /\ \/ pc'[t] = "wake" /\ after'[t] = "release"
         \/ pc'[t] = "release"
  BY <1>1, AtHand, ThreadsFinite DEF Frame, Points, Returns, Items
<1>3. Adds(t, -2) /\ KeepsLocks(t)
  BY <1>1, <1>2, AtHand DEF Adds, KeepsLocks, Local
<1>4. Hands(t) /\ Local(t)'
  BY <1>1, <1>2, AtHand DEF Hands, Local
<1>5. SameOld
  BY <1>1, AtHand, StatusMoves DEF IInv, Statuses
<1>6. RunsKept(t)
  <2>1. \A c \in Blocks : RunsOn(t, c) => c = blk[t]
    BY <1>1 DEF RunsOn
  <2> QED BY <1>1, <2>1, AtHand, BlockEnds DEF IInv
<1>7. Alone'
  BY <1>1, <1>2, AloneStays DEF IInv, BarrierAt, SameSets
<1>8. WithinWidth'
  BY <1>1, <1>2, WidthStays DEF IInv, NoMore, SameSets, AsyncPoints
<1> QED BY <1>1, <1>2, <1>3, <1>4, <1>5, <1>6, <1>7, <1>8, BlockStepKeeps DEF BlockStep

\* LeaveLocked: the lock is kept for now.
LEMMA LeaveLockedKeeps ==
    ASSUME IInv, NEW t \in Threads, LeaveLocked(t)
    PROVE  IInv'
<1> USE DEF Odd, Two, Tok, Load, Hit, InvokePoints, DrainPoints, FastPoints, SlowPoints,
            SharePoints, TakePoints, WakePoints, CallPoints, ItemPoints, SemaPoints,
            RunPoints, Readers
<1>1. /\ pc[t] = "runlocked" /\ after' = after
      /\ running' = running /\ suspend' = suspend /\ queued' = queued
      /\ blk' = [blk EXCEPT ![t] = None] /\ dc' = dc /\ nextdc' = nextdc /\ sema' = sema
      /\ \E q \in {"unlockrunning", "handover"} : pc' = [pc EXCEPT ![t] = q]
      /\ kind' = kind /\ SameSets /\ status' = [status EXCEPT ![blk[t]] = "done"]
  BY AtHand DEF LeaveLocked, At, Goto, Finish, Forget, shared, countVars, listVars,
     rootVars, blockVars, drainVars, SameSets
<1>2. /\ Frame(t)
      /\ pc'[t] \in {"unlockrunning", "handover"} /\ blk'[t] = None
  BY <1>1, AtHand, ThreadsFinite DEF Frame, Points, Returns, Items
<1>3. Adds(t, 0) /\ KeepsLocks(t)
  BY <1>1, <1>2, AtHand DEF Adds, KeepsLocks, Local
<1>4. Hands(t) /\ Local(t)'
  BY <1>1, <1>2, AtHand DEF Hands, Local
<1>5. SameOld
  BY <1>1, AtHand, StatusMoves DEF IInv, Statuses
<1>6. RunsKept(t)
  <2>1. \A c \in Blocks : RunsOn(t, c) => c = blk[t]
    BY <1>1 DEF RunsOn
  <2> QED BY <1>1, <2>1, AtHand, BlockEnds DEF IInv
<1>7. Alone'
  BY <1>1, <1>2, AloneStays DEF IInv, BarrierAt, SameSets
<1>8. WithinWidth'
  BY <1>1, <1>2, WidthStays DEF IInv, NoMore, SameSets, AsyncPoints
<1> QED BY <1>1, <1>2, <1>3, <1>4, <1>5, <1>6, <1>7, <1>8, BlockStepKeeps DEF BlockStep

\* LeaveSlow: so is a lock that was transferred.
LEMMA LeaveSlowKeeps ==
    ASSUME IInv, NEW t \in Threads, LeaveSlow(t)
    PROVE  IInv'
<1> USE DEF Odd, Two, Tok, Load, Hit, InvokePoints, DrainPoints, FastPoints, SlowPoints,
            SharePoints, TakePoints, WakePoints, CallPoints, ItemPoints, SemaPoints,
            RunPoints, Readers
<1>1. /\ pc[t] = "runslow" /\ after' = after
      /\ running' = running /\ suspend' = suspend /\ queued' = queued
      /\ blk' = [blk EXCEPT ![t] = None] /\ dc' = dc /\ nextdc' = nextdc /\ sema' = sema
      /\ \E q \in {"slowrunning", "slowsuspend"} : pc' = [pc EXCEPT ![t] = q]
      /\ kind' = kind /\ SameSets /\ status' = [status EXCEPT ![blk[t]] = "done"]
  BY AtHand DEF LeaveSlow, At, Goto, Finish, Forget, shared, countVars, listVars, rootVars,
     blockVars, drainVars, SameSets
<1>2. /\ Frame(t)
      /\ pc'[t] \in {"slowrunning", "slowsuspend"} /\ blk'[t] = None
  BY <1>1, AtHand, ThreadsFinite DEF Frame, Points, Returns, Items
<1>3. Adds(t, 0) /\ KeepsLocks(t)
  BY <1>1, <1>2, AtHand DEF Adds, KeepsLocks, Local
<1>4. Hands(t) /\ Local(t)'
  BY <1>1, <1>2, AtHand DEF Hands, Local
<1>5. SameOld
  BY <1>1, AtHand, StatusMoves DEF IInv, Statuses
<1>6. RunsKept(t)
  <2>1. \A c \in Blocks : RunsOn(t, c) => c = blk[t]
    BY <1>1 DEF RunsOn
  <2> QED BY <1>1, <2>1, AtHand, BlockEnds DEF IInv
<1>7. Alone'
  BY <1>1, <1>2, AloneStays DEF IInv, BarrierAt, SameSets
<1>8. WithinWidth'
  BY <1>1, <1>2, WidthStays DEF IInv, NoMore, SameSets, AsyncPoints
<1> QED BY <1>1, <1>2, <1>3, <1>4, <1>5, <1>6, <1>7, <1>8, BlockStepKeeps DEF BlockStep

\* Handover: it goes to the next barrier, or is given up.
LEMMA HandoverKeeps ==
    ASSUME IInv, NEW t \in Threads, Handover(t)
    PROVE  IInv'
<1> USE DEF Odd, Two, Tok, Load, Hit, InvokePoints, DrainPoints, FastPoints, SlowPoints,
            SharePoints, TakePoints, WakePoints, CallPoints, ItemPoints, SemaPoints,
            RunPoints, Readers
<1>1. /\ pc[t] = "handover"
      /\ \/ pc' = [pc EXCEPT ![t] = "take"] /\ after' = [after EXCEPT ![t] = "xfersuspend"]
         \/ pc' = [pc EXCEPT ![t] = "unlockrunning"] /\ after' = after
      /\ running' = running /\ suspend' = suspend /\ queued' = queued
      /\ blk' = blk /\ dc' = dc /\ nextdc' = nextdc /\ sema' = sema
      /\ SameBlocks
  BY AtHand DEF Handover, Enter, Stay, At, Goto, shared, countVars, listVars, rootVars,
     history, blockVars, locals, drainVars, SameBlocks
<1>2. /\ Frame(t)
      /\ \/ pc'[t] = "take" /\ after'[t] = "xfersuspend"
         \/ pc'[t] = "unlockrunning"
  BY <1>1, AtHand, ThreadsFinite DEF Frame, Points, Returns, Items
<1>3. Adds(t, 0) /\ KeepsLocks(t)
  BY <1>1, <1>2, AtHand DEF Adds, KeepsLocks, Local, INTERVAL
<1>4. Hands(t) /\ Local(t)' /\ NoRun(t)
  BY <1>1, <1>2, AtHand DEF Hands, Local, NoRun, BarrierAt
<1> QED BY <1>1, <1>2, <1>3, <1>4, OrdinaryKeeps DEF Ordinary

\* UnlockRunning: the low bit is given up.
LEMMA UnlockRunningKeeps ==
    ASSUME IInv, NEW t \in Threads, UnlockRunning(t)
    PROVE  IInv'
<1> USE DEF Odd, Two, Tok, Load, Hit, InvokePoints, DrainPoints, FastPoints, SlowPoints,
            SharePoints, TakePoints, WakePoints, CallPoints, ItemPoints, SemaPoints,
            RunPoints, Readers
<1>1. /\ pc[t] = "unlockrunning"
      /\ \/ pc' = [pc EXCEPT ![t] = "wake"] /\ after' = [after EXCEPT ![t] = "idle"]
         \/ pc' = [pc EXCEPT ![t] = "idle"] /\ after' = after
      /\ running' = running - 1 /\ suspend' = suspend /\ queued' = queued
      /\ blk' = blk /\ dc' = dc /\ nextdc' = nextdc /\ sema' = sema
      /\ SameBlocks
  BY AtHand DEF UnlockRunning, AddRunning, WakeIfIdle, Enter, Stay, At, Goto, shared,
     countVars, listVars, rootVars, history, blockVars, locals, drainVars, SameBlocks
<1>2. /\ Frame(t)
      /\ \/ pc'[t] = "wake" /\ after'[t] = "idle"
         \/ pc'[t] = "idle"
  BY <1>1, AtHand, ThreadsFinite DEF Frame, Points, Returns, Items
<1>3. Adds(t, -1) /\ KeepsLocks(t)
  BY <1>1, <1>2, AtHand DEF Adds, KeepsLocks, Local, INTERVAL
<1>4. Hands(t) /\ Local(t)' /\ NoRun(t)
  BY <1>1, <1>2, AtHand DEF Hands, Local, NoRun, BarrierAt
<1> QED BY <1>1, <1>2, <1>3, <1>4, OrdinaryKeeps DEF Ordinary

\* SlowRunning: a transferred lock goes on, or is given up.
LEMMA SlowRunningKeeps ==
    ASSUME IInv, NEW t \in Threads, SlowRunning(t)
    PROVE  IInv'
<1> USE DEF Odd, Two, Tok, Load, Hit, InvokePoints, DrainPoints, FastPoints, SlowPoints,
            SharePoints, TakePoints, WakePoints, CallPoints, ItemPoints, SemaPoints,
            RunPoints, Readers
<1>1. /\ pc[t] = "slowrunning"
      /\ \/ pc' = [pc EXCEPT ![t] = "take"] /\ after' = [after EXCEPT ![t] = "xfersignal"]
         \/ pc' = [pc EXCEPT ![t] = "slowsuspend"] /\ after' = after
      /\ running' = running /\ suspend' = suspend /\ queued' = queued
      /\ blk' = blk /\ dc' = dc /\ nextdc' = nextdc /\ sema' = sema
      /\ SameBlocks
  BY AtHand DEF SlowRunning, Enter, Stay, At, Goto, shared, countVars, listVars, rootVars,
     history, blockVars, locals, drainVars, SameBlocks
<1>2. /\ Frame(t)
      /\ \/ pc'[t] = "take" /\ after'[t] = "xfersignal"
         \/ pc'[t] = "slowsuspend"
  BY <1>1, AtHand, ThreadsFinite DEF Frame, Points, Returns, Items
<1>3. Adds(t, 0) /\ KeepsLocks(t)
  BY <1>1, <1>2, AtHand DEF Adds, KeepsLocks, Local, INTERVAL
<1>4. Hands(t) /\ Local(t)' /\ NoRun(t)
  BY <1>1, <1>2, AtHand DEF Hands, Local, NoRun, BarrierAt
<1> QED BY <1>1, <1>2, <1>3, <1>4, OrdinaryKeeps DEF Ordinary

\* SlowSuspend: first the suspension,
LEMMA SlowSuspendKeeps ==
    ASSUME IInv, NEW t \in Threads, SlowSuspend(t)
    PROVE  IInv'
<1> USE DEF Odd, Two, Tok, Load, Hit, InvokePoints, DrainPoints, FastPoints, SlowPoints,
            SharePoints, TakePoints, WakePoints, CallPoints, ItemPoints, SemaPoints,
            RunPoints, Readers
<1>1. /\ pc[t] = "slowsuspend" /\ pc' = [pc EXCEPT ![t] = "slowunlock"] /\ after' = after
      /\ running' = running /\ suspend' = suspend - INTERVAL /\ queued' = queued
      /\ blk' = blk /\ dc' = dc /\ nextdc' = nextdc /\ sema' = sema
      /\ SameBlocks
  BY AtHand DEF SlowSuspend, AddSuspend, INTERVAL, At, Goto, shared, countVars, listVars,
     rootVars, history, blockVars, locals, drainVars, SameBlocks
<1>2. /\ Frame(t)
      /\ pc'[t] = "slowunlock"
  BY <1>1, AtHand, ThreadsFinite DEF Frame, Points, Returns, Items
<1>3. Adds(t, 0) /\ KeepsLocks(t)
  BY <1>1, <1>2, AtHand DEF Adds, KeepsLocks, Local, INTERVAL
<1>4. Hands(t) /\ Local(t)' /\ NoRun(t)
  BY <1>1, <1>2, AtHand DEF Hands, Local, NoRun, BarrierAt
<1> QED BY <1>1, <1>2, <1>3, <1>4, OrdinaryKeeps DEF Ordinary

\* SlowUnlock: then the share.
LEMMA SlowUnlockKeeps ==
    ASSUME IInv, NEW t \in Threads, SlowUnlock(t)
    PROVE  IInv'
<1> USE DEF Odd, Two, Tok, Load, Hit, InvokePoints, DrainPoints, FastPoints, SlowPoints,
            SharePoints, TakePoints, WakePoints, CallPoints, ItemPoints, SemaPoints,
            RunPoints, Readers
<1>1. /\ pc[t] = "slowunlock"
      /\ \/ pc' = [pc EXCEPT ![t] = "wake"] /\ after' = [after EXCEPT ![t] = "idle"]
         \/ pc' = [pc EXCEPT ![t] = "idle"] /\ after' = after
      /\ running' = running - 2 /\ suspend' = suspend /\ queued' = queued
      /\ blk' = blk /\ dc' = dc /\ nextdc' = nextdc /\ sema' = sema
      /\ SameBlocks
  BY AtHand DEF SlowUnlock, AddRunning, WakeIfIdle, Enter, Stay, At, Goto, shared,
     countVars, listVars, rootVars, history, blockVars, locals, drainVars, SameBlocks
<1>2. /\ Frame(t)
      /\ \/ pc'[t] = "wake" /\ after'[t] = "idle"
         \/ pc'[t] = "idle"
  BY <1>1, AtHand, ThreadsFinite DEF Frame, Points, Returns, Items
<1>3. Adds(t, -2) /\ KeepsLocks(t)
  BY <1>1, <1>2, AtHand DEF Adds, KeepsLocks, Local, INTERVAL
<1>4. Hands(t) /\ Local(t)' /\ NoRun(t)
  BY <1>1, <1>2, AtHand DEF Hands, Local, NoRun, BarrierAt
<1> QED BY <1>1, <1>2, <1>3, <1>4, OrdinaryKeeps DEF Ordinary

\* TakeNone: the first item is not a barrier sync.
LEMMA TakeNoneKeeps ==
    ASSUME IInv, NEW t \in Threads, TakeNone(t)
    PROVE  IInv'
<1> USE DEF Odd, Two, Tok, Load, Hit, InvokePoints, DrainPoints, FastPoints, SlowPoints,
            SharePoints, TakePoints, WakePoints, CallPoints, ItemPoints, SemaPoints,
            RunPoints, Readers
<1>1. /\ pc[t] = "take" /\ after' = after
      /\ pc' = [pc EXCEPT ![t] = IF after[t] = "xfersuspend" THEN "unlockrunning" ELSE "slowsuspend"]
      /\ running' = running /\ suspend' = suspend /\ queued' = queued
      /\ blk' = blk /\ dc' = dc /\ nextdc' = nextdc /\ sema' = sema
      /\ SameBlocks
  BY AtHand DEF TakeNone, Branch, At, Goto, shared, countVars, listVars, rootVars, history,
     blockVars, locals, drainVars, SameBlocks
<1>2. /\ Frame(t)
      /\ pc'[t] = IF after[t] = "xfersuspend" THEN "unlockrunning" ELSE "slowsuspend"
  BY <1>1, AtHand, ThreadsFinite DEF Frame, Points, Returns, Items
<1>3. Adds(t, 0) /\ KeepsLocks(t)
  BY <1>1, <1>2, AtHand DEF Adds, KeepsLocks, Local, INTERVAL
<1>4. Hands(t) /\ Local(t)' /\ NoRun(t)
  BY <1>1, <1>2, AtHand DEF Hands, Local, NoRun, BarrierAt
<1> QED BY <1>1, <1>2, <1>3, <1>4, OrdinaryKeeps DEF Ordinary

\* TakeOne: the first item is taken.
LEMMA TakeOneKeeps ==
    ASSUME IInv, NEW t \in Threads, TakeOne(t)
    PROVE  IInv'
<1> USE DEF Odd, Two, Tok, Load, Hit, InvokePoints, DrainPoints, FastPoints, SlowPoints,
            SharePoints, TakePoints, WakePoints, CallPoints, ItemPoints, SemaPoints,
            RunPoints, Readers
<1>1. /\ pc[t] = "take" /\ after[t] \in {"xfersuspend", "xfersignal"} /\ head # None
      /\ \/ pc' = [pc EXCEPT ![t] = after[t]] /\ after' = [after EXCEPT ![t] = "idle"]
         \/ pc' = [pc EXCEPT ![t] = "taketail"] /\ after' = after
      /\ running' = running /\ suspend' = suspend /\ queued' = queued
      /\ blk' = blk /\ dc' = dc /\ nextdc' = nextdc /\ sema' = [sema EXCEPT ![t] = head]
      /\ SameBlocks
  BY AtHand DEF TakeOne, Return, Stay, Local, TakePoints, Old, At, Goto, shared, countVars,
     listVars, rootVars, history, blockVars, locals, drainVars, SameBlocks
<1>2. /\ Frame(t)
      /\ \/ pc'[t] = after[t] /\ after'[t] = "idle"
         \/ pc'[t] = "taketail" /\ after'[t] = after[t]
      /\ sema'[t] # None /\ sema'[t] = head
  BY <1>1, AtHand, ThreadsFinite DEF Frame, Points, Returns, Items
<1>3. Adds(t, 0) /\ KeepsLocks(t)
  BY <1>1, <1>2, AtHand DEF Adds, KeepsLocks, Local, INTERVAL
<1>4. Hands(t) /\ Local(t)' /\ NoRun(t)
  BY <1>1, <1>2, AtHand DEF Hands, Local, NoRun, BarrierAt
<1> QED BY <1>1, <1>2, <1>3, <1>4, OrdinaryKeeps DEF Ordinary

\* TakeOneTail: it may be the last one.
LEMMA TakeOneTailKeeps ==
    ASSUME IInv, NEW t \in Threads, TakeOneTail(t)
    PROVE  IInv'
<1> USE DEF Odd, Two, Tok, Load, Hit, InvokePoints, DrainPoints, FastPoints, SlowPoints,
            SharePoints, TakePoints, WakePoints, CallPoints, ItemPoints, SemaPoints,
            RunPoints, Readers
<1>1. /\ pc[t] = "taketail" /\ after[t] \in {"xfersuspend", "xfersignal"} /\ sema[t] # None
      /\ \/ pc' = [pc EXCEPT ![t] = after[t]] /\ after' = [after EXCEPT ![t] = "idle"]
         \/ pc' = [pc EXCEPT ![t] = "takelink"] /\ after' = after
      /\ running' = running /\ suspend' = suspend /\ queued' = queued
      /\ blk' = blk /\ dc' = dc /\ nextdc' = nextdc /\ sema' = sema
      /\ SameBlocks
  BY AtHand DEF TakeOneTail, Return, Stay, Local, TakePoints, SemaPoints, At, Goto, shared,
     countVars, listVars, rootVars, history, blockVars, locals, drainVars, SameBlocks
<1>2. /\ Frame(t)
      /\ \/ pc'[t] = after[t] /\ after'[t] = "idle"
         \/ pc'[t] = "takelink" /\ after'[t] = after[t]
      /\ sema'[t] # None
  BY <1>1, AtHand, ThreadsFinite DEF Frame, Points, Returns, Items
<1>3. Adds(t, 0) /\ KeepsLocks(t)
  BY <1>1, <1>2, AtHand DEF Adds, KeepsLocks, Local, INTERVAL
<1>4. Hands(t) /\ Local(t)' /\ NoRun(t)
  BY <1>1, <1>2, AtHand DEF Hands, Local, NoRun, BarrierAt
<1> QED BY <1>1, <1>2, <1>3, <1>4, OrdinaryKeeps DEF Ordinary

\* TakeOneLink: the next one is the first now.
LEMMA TakeOneLinkKeeps ==
    ASSUME IInv, NEW t \in Threads, TakeOneLink(t)
    PROVE  IInv'
<1> USE DEF Odd, Two, Tok, Load, Hit, InvokePoints, DrainPoints, FastPoints, SlowPoints,
            SharePoints, TakePoints, WakePoints, CallPoints, ItemPoints, SemaPoints,
            RunPoints, Readers
<1>1. /\ pc[t] = "takelink" /\ after[t] \in {"xfersuspend", "xfersignal"} /\ sema[t] # None
      /\ pc' = [pc EXCEPT ![t] = after[t]] /\ after' = [after EXCEPT ![t] = "idle"]
      /\ running' = running /\ suspend' = suspend /\ queued' = queued
      /\ blk' = blk /\ dc' = dc /\ nextdc' = nextdc /\ sema' = sema
      /\ SameBlocks
  BY AtHand DEF TakeOneLink, Return, Stay, Local, TakePoints, SemaPoints, Old, At, Goto,
     shared, countVars, listVars, rootVars, history, blockVars, locals, drainVars,
     SameBlocks
<1>2. /\ Frame(t)
      /\ pc'[t] = after[t] /\ after'[t] = "idle"
      /\ sema'[t] # None
  BY <1>1, AtHand, ThreadsFinite DEF Frame, Points, Returns, Items
<1>3. Adds(t, 0) /\ KeepsLocks(t)
  BY <1>1, <1>2, AtHand DEF Adds, KeepsLocks, Local, INTERVAL
<1>4. Hands(t) /\ Local(t)' /\ NoRun(t)
  BY <1>1, <1>2, AtHand DEF Hands, Local, NoRun, BarrierAt
<1> QED BY <1>1, <1>2, <1>3, <1>4, OrdinaryKeeps DEF Ordinary

\* TransferSuspend: the lock becomes a suspension
LEMMA TransferSuspendKeeps ==
    ASSUME IInv, NEW t \in Threads, TransferSuspend(t)
    PROVE  IInv'
<1> USE DEF Odd, Two, Tok, Load, Hit, InvokePoints, DrainPoints, FastPoints, SlowPoints,
            SharePoints, TakePoints, WakePoints, CallPoints, ItemPoints, SemaPoints,
            RunPoints, Readers
<1>1. /\ pc[t] = "xfersuspend" /\ pc' = [pc EXCEPT ![t] = "xferrunning"] /\ after' = after /\ sema[t] # None
      /\ running' = running /\ suspend' = suspend + INTERVAL /\ queued' = queued
      /\ blk' = blk /\ dc' = dc /\ nextdc' = nextdc /\ sema' = sema
      /\ SameBlocks
  BY AtHand DEF TransferSuspend, AddSuspend, Local, SemaPoints, At, Goto, shared,
     countVars, listVars, rootVars, history, blockVars, locals, drainVars, SameBlocks
<1>2. /\ Frame(t)
      /\ pc'[t] = "xferrunning"
  BY <1>1, AtHand, ThreadsFinite DEF Frame, Points, Returns, Items
<1>3. Adds(t, 0) /\ KeepsLocks(t)
  BY <1>1, <1>2, AtHand DEF Adds, KeepsLocks, Local, INTERVAL
<1>4. Hands(t) /\ Local(t)' /\ NoRun(t)
  BY <1>1, <1>2, AtHand DEF Hands, Local, NoRun, BarrierAt
<1> QED BY <1>1, <1>2, <1>3, <1>4, OrdinaryKeeps DEF Ordinary

\* TransferRunning: and a share.
LEMMA TransferRunningKeeps ==
    ASSUME IInv, NEW t \in Threads, TransferRunning(t)
    PROVE  IInv'
<1> USE DEF Odd, Two, Tok, Load, Hit, InvokePoints, DrainPoints, FastPoints, SlowPoints,
            SharePoints, TakePoints, WakePoints, CallPoints, ItemPoints, SemaPoints,
            RunPoints, Readers
<1>1. /\ pc[t] = "xferrunning" /\ pc' = [pc EXCEPT ![t] = "xfersignal"] /\ after' = after /\ sema[t] # None
      /\ running' = running + 1 /\ suspend' = suspend /\ queued' = queued
      /\ blk' = blk /\ dc' = dc /\ nextdc' = nextdc /\ sema' = sema
      /\ SameBlocks
  BY AtHand DEF TransferRunning, AddRunning, Local, SemaPoints, At, Goto, shared,
     countVars, listVars, rootVars, history, blockVars, locals, drainVars, SameBlocks
<1>2. /\ Frame(t)
      /\ pc'[t] = "xfersignal"
  BY <1>1, AtHand, ThreadsFinite DEF Frame, Points, Returns, Items
<1>3. Adds(t, 1) /\ KeepsLocks(t)
  BY <1>1, <1>2, AtHand DEF Adds, KeepsLocks, Local, INTERVAL
<1>4. Hands(t) /\ Local(t)' /\ NoRun(t)
  BY <1>1, <1>2, AtHand DEF Hands, Local, NoRun, BarrierAt
<1> QED BY <1>1, <1>2, <1>3, <1>4, OrdinaryKeeps DEF Ordinary


-----------------------------------------------------------------------------
(* The drain.                                                               *)

\* CheckWidth: a reader is let through within the width.
LEMMA RedirectBranchKeeps ==
    ASSUME IInv, NEW t \in Threads, CheckWidth(t), Branch(t, "checkwidth", "redirectadd")
    PROVE  IInv'
<1> USE DEF Odd, Two, Tok, Load, Hit, InvokePoints, DrainPoints, FastPoints, SlowPoints,
            SharePoints, TakePoints, WakePoints, CallPoints, ItemPoints, SemaPoints,
            RunPoints, Readers
<1>1. /\ pc[t] = "checkwidth" /\ pc' = [pc EXCEPT ![t] = "redirectadd"]
      /\ running' = running /\ suspend' = suspend /\ queued' = queued /\ after' = after
      /\ blk' = blk /\ dc' = dc /\ nextdc' = nextdc /\ sema' = sema /\ kind' = kind
      /\ SameBlocks
  BY AtHand
     DEF Branch, At, Goto, shared, countVars, listVars, rootVars, history, blockVars, locals,
         drainVars, SameBlocks
<1>2. Frame(t) /\ pc'[t] = "redirectadd"
  BY <1>1, AtHand DEF Frame, Points
<1>3. running <= Width /\ kind[dc[t]] \notin Barriers
  <2>1. pc'[t] = IF running > Width THEN "undo"
                 ELSE IF Serial THEN "pop"
                 ELSE IF kind[dc[t]] \in Barriers THEN "checkrunning"
                 ELSE "redirectadd"
    BY AtHand DEF CheckWidth, Branch, Goto
  <2> QED BY <1>2, <2>1, AtHand, QueueAssumption DEF QueueAssumption
<1>4. Adds(t, 0) /\ KeepsLocks(t)
  BY <1>1, <1>2, AtHand DEF Adds, KeepsLocks
<1>5. Hands(t) /\ Local(t)'
  BY <1>1, <1>2, <1>3, AtHand DEF Hands, Local
<1>6. SameOld /\ SameSets /\ RunsKept(t)
  BY <1>1, AtHand DEF SameOld, SameSets, SameBlocks, RunsKept, RunsOn, IInv, Types
<1>7. Alone'
  BY <1>1, <1>2, AloneStays DEF IInv, BarrierAt, SameBlocks
<1>8. WithinWidth'
  <2>1. Shares' = Shares /\ Shares \in Nat
    <3>1. Hit(pc[t], AsyncPoints) = 0 /\ Hit(pc'[t], AsyncPoints) = 0
      BY <1>1, <1>2 DEF AsyncPoints
    <3>2. Redirects' = Redirects - 0 + 0 /\ Redirects \in Nat
      BY <1>2, <3>1, RedirectsMove DEF IInv
    <3> QED BY <1>1, <3>2, SetsFinite DEF Shares, SameBlocks, IInv
  <2>2. Odd(pc[t], after[t]) = 1
    BY <1>1
  <2>3. 2 * Shares + 1 <= running
    BY <2>2, SharesCounted DEF IInv
  <2>4. 2 * Shares + 1 <= Width
    BY <1>3, <2>1, <2>3, AtHand, QueueAssumption DEF QueueAssumption
  <2> QED BY <2>1, <2>4, QueueAssumption DEF WithinWidth, QueueAssumption
<1> QED BY <1>2, <1>4, <1>5, <1>6, <1>7, <1>8, BlockStepKeeps DEF BlockStep

\* InvokeSuspended, Drain, CheckSuspended and CheckWidth only decide.
LEMMA DrainBranchKeeps ==
    ASSUME IInv, NEW t \in Threads,
           InvokeSuspended(t) \/ Drain(t) \/ CheckSuspended(t) \/ CheckWidth(t)
    PROVE  IInv'
<1> USE DEF SameWeights, PlainPoints, DrainPoints, SharePoints, SemaPoints, RunPoints,
            Readers, CallPoints, ItemPoints, WakePoints, TakePoints, Points
<1>1. CASE InvokeSuspended(t)
  <2>1. PICK q \in {"unlock", "invokelock"} : Branch(t, "invoke", q)
    BY <1>1 DEF InvokeSuspended
  <2> QED BY <2>1, BranchStep
<1>2. CASE Drain(t)
  <2>1. PICK q \in {"finish", "takehead"} : Branch(t, "drain", q)
    BY <1>2 DEF Drain
  <2> QED BY <2>1, BranchStep
<1>3. CASE CheckSuspended(t)
  <2>1. PICK q \in {"undo", "checkwidth"} : Branch(t, "checksuspended", q)
    BY <1>3 DEF CheckSuspended
  <2>2. dc[t] # None
    BY <2>1, AtHand DEF Branch, At, Local
  <2> QED BY <2>1, <2>2, BranchStep
<1>4. CASE CheckWidth(t) /\ ~Branch(t, "checkwidth", "redirectadd")
  <2>1. PICK q \in {"undo", "pop", "checkrunning"} :
            /\ Branch(t, "checkwidth", q)
            /\ q = "pop" => Serial
            /\ q = "checkrunning" => kind[dc[t]] \in Barriers
    BY <1>4 DEF CheckWidth
  <2>2. dc[t] # None /\ dc[t] \in Old
    BY <2>1, AtHand DEF Branch, At, Local
  <2>3. Serial => kind[dc[t]] \in Barriers
    BY <2>2 DEF IInv, Kinds, Old
  <2> QED BY <2>1, <2>2, <2>3, BranchStep
<1>5. CASE CheckWidth(t) /\ Branch(t, "checkwidth", "redirectadd")
  BY <1>5, RedirectBranchKeeps
<1> QED BY <1>1, <1>2, <1>3, <1>4, <1>5

\* InvokeLock: the drain begins when nothing runs.
LEMMA InvokeLockKeeps ==
    ASSUME IInv, NEW t \in Threads, InvokeLock(t)
    PROVE  IInv'
<1>1. CASE Branch(t, "invokelock", "unlock")
  BY <1>1, BranchStep DEF SameWeights, PlainPoints, DrainPoints, SharePoints, SemaPoints,
     RunPoints,
     Readers, CallPoints, ItemPoints, WakePoints, TakePoints, Points
<1>2. CASE running = 0 /\ AddRunning(t, "invokelock", 1) /\ Goto(t, "drain") /\ UNCHANGED <<status, locals>>
  <2> USE DEF Odd, Two, Tok, Hit, InvokePoints, DrainPoints, FastPoints, SlowPoints,
              SharePoints, TakePoints, WakePoints, CallPoints, ItemPoints, SemaPoints,
              RunPoints, Readers
  <2>1. /\ pc[t] = "invokelock" /\ pc' = [pc EXCEPT ![t] = "drain"] /\ after' = after
        /\ running' = 1 /\ suspend' = suspend /\ queued' = queued
        /\ blk' = blk /\ dc' = dc /\ nextdc' = nextdc /\ sema' = sema
        /\ SameBlocks
    BY <1>2, AtHand DEF AddRunning, At, Goto, rootVars, listVars, drainVars, locals,
       SameBlocks, blockVars
  <2>2. Frame(t) /\ pc'[t] = "drain"
    BY <2>1, AtHand DEF Frame, Points
  <2>3. KeepsSets
    BY <2>1 DEF KeepsSets, SameBlocks, Handed
  <2>4. Hands(t) /\ Local(t)' /\ NoRun(t)
    BY <2>1, <2>2, AtHand DEF Hands, Local, NoRun, BarrierAt
  <2>5. /\ Odd(pc'[t], after'[t]) = 1 /\ Two(pc'[t], after'[t], sema'[t]) = 0 /\ Tok(pc'[t]) = 1
        /\ Hit(pc'[t], InvokePoints) = Hit(pc[t], InvokePoints)
    BY <2>1, <2>2
  <2>6. Counts'
    BY <1>2, <2>1, <2>2, <2>3, <2>5, LockTaken
  <2>7. Knowledge'
    <3>1. SameOld /\ SetsOld
      BY <2>1 DEF SameBlocks, SameOld, SetsOld, IInv, Types, AllOld, Kinds
    <3>2. CountersTyped
      BY <2>1 DEF CountersTyped, IInv, Types
    <3> QED BY <2>2, <2>4, <3>1, <3>2, KnowledgeStep DEF IInv, Knowledge
  <2>8. EachRunsOn'
    <3>1. RunsKept(t)
      BY <2>1, <2>4 DEF RunsKept, NoRun, SameBlocks, RunsOn
    <3> QED BY <2>2, <3>1, RunsStep DEF IInv
  <2>9. Alone'
    BY <2>1, <2>2, <2>4, AloneStays DEF IInv, NoRun, SameBlocks
  <2>10. WithinWidth'
    BY <2>1, <2>2, <2>4, WidthKept DEF IInv, SameBlocks
  <2> QED BY <2>6, <2>7, <2>8, <2>9, <2>10 DEF IInv, Counts, Knowledge
<1> QED BY <1>1, <1>2 DEF InvokeLock

\* DrainHead: the drain takes the list.
LEMMA DrainHeadKeeps ==
    ASSUME IInv, NEW t \in Threads, DrainHead(t)
    PROVE  IInv'
<1> USE DEF Odd, Two, Tok, Load, Hit, InvokePoints, DrainPoints, FastPoints, SlowPoints,
            SharePoints, TakePoints, WakePoints, CallPoints, ItemPoints, SemaPoints,
            RunPoints, Readers
<1>1. /\ pc[t] = "takehead" /\ pc' = [pc EXCEPT ![t] = "next"] /\ after' = after /\ head # None
      /\ running' = running /\ suspend' = suspend /\ queued' = queued
      /\ blk' = blk /\ dc' = [dc EXCEPT ![t] = head] /\ nextdc' = nextdc /\ sema' = sema
      /\ SameBlocks
  BY AtHand DEF DrainHead, At, Goto, shared, countVars, listVars, rootVars, history,
     blockVars, locals, drainVars, SameBlocks
<1>2. /\ Frame(t)
      /\ pc'[t] = "next" /\ dc'[t] = head
  BY <1>1, AtHand, ThreadsFinite DEF Frame, Points, Returns, Items
<1>3. Adds(t, 0) /\ KeepsLocks(t)
  BY <1>1, <1>2, AtHand DEF Adds, KeepsLocks, Local, INTERVAL
<1>4. Hands(t) /\ Local(t)' /\ NoRun(t)
  BY <1>1, <1>2, AtHand DEF Hands, Local, NoRun, BarrierAt
<1> QED BY <1>1, <1>2, <1>3, <1>4, OrdinaryKeeps DEF Ordinary

\* DrainNext and DrainSpin: the next item is read.
LEMMA DrainNextKeeps ==
    ASSUME IInv, NEW t \in Threads, DrainNext(t) \/ DrainSpin(t)
    PROVE  IInv'
<1> USE DEF Odd, Two, Tok, Load, Hit, InvokePoints, DrainPoints, FastPoints, SlowPoints,
            SharePoints, TakePoints, WakePoints, CallPoints, ItemPoints, SemaPoints,
            RunPoints, Readers
<1>1. /\ pc[t] \in {"next", "spinnext"} /\ after' = after /\ dc[t] # None /\ next[dc[t]] \in Old
      /\ \E q \in {"cleartail", "checksuspended"} : pc' = [pc EXCEPT ![t] = q]
      /\ running' = running /\ suspend' = suspend /\ queued' = queued
      /\ blk' = blk /\ dc' = dc /\ nextdc' = [nextdc EXCEPT ![t] = next[dc[t]]] /\ sema' = sema
      /\ SameBlocks
  BY AtHand DEF DrainNext, DrainSpin, Local, ItemPoints, Old, At, Goto, shared, countVars,
     listVars, rootVars, history, blockVars, locals, drainVars, SameBlocks
<1>2. /\ Frame(t)
      /\ pc'[t] \in {"cleartail", "checksuspended"}
      /\ nextdc'[t] = next[dc[t]]
  BY <1>1, AtHand, ThreadsFinite DEF Frame, Points, Returns, Items
<1>3. Adds(t, 0) /\ KeepsLocks(t)
  BY <1>1, <1>2, AtHand DEF Adds, KeepsLocks, Local, INTERVAL
<1>4. Hands(t) /\ Local(t)' /\ NoRun(t)
  BY <1>1, <1>2, AtHand DEF Hands, Local, NoRun, BarrierAt
<1> QED BY <1>1, <1>2, <1>3, <1>4, OrdinaryKeeps DEF Ordinary

\* DrainClearTail: it may be the last.
LEMMA DrainClearTailKeeps ==
    ASSUME IInv, NEW t \in Threads, DrainClearTail(t)
    PROVE  IInv'
<1> USE DEF Odd, Two, Tok, Load, Hit, InvokePoints, DrainPoints, FastPoints, SlowPoints,
            SharePoints, TakePoints, WakePoints, CallPoints, ItemPoints, SemaPoints,
            RunPoints, Readers
<1>1. /\ pc[t] = "cleartail" /\ after' = after
      /\ \E q \in {"checksuspended", "spinnext"} : pc' = [pc EXCEPT ![t] = q]
      /\ running' = running /\ suspend' = suspend /\ queued' = queued
      /\ blk' = blk /\ dc' = dc /\ nextdc' = nextdc /\ sema' = sema
      /\ SameBlocks
  BY AtHand DEF DrainClearTail, At, Goto, shared, countVars, listVars, rootVars, history,
     blockVars, locals, drainVars, SameBlocks
<1>2. /\ Frame(t)
      /\ pc'[t] \in {"checksuspended", "spinnext"}
  BY <1>1, AtHand, ThreadsFinite DEF Frame, Points, Returns, Items
<1>3. Adds(t, 0) /\ KeepsLocks(t)
  BY <1>1, <1>2, AtHand DEF Adds, KeepsLocks, Local, INTERVAL
<1>4. Hands(t) /\ Local(t)' /\ NoRun(t)
  BY <1>1, <1>2, AtHand DEF Hands, Local, NoRun, BarrierAt
<1> QED BY <1>1, <1>2, <1>3, <1>4, OrdinaryKeeps DEF Ordinary

\* Undo, UndoSpin and Restore: what was taken is put back.
LEMMA UndoKeeps ==
    ASSUME IInv, NEW t \in Threads, Undo(t) \/ UndoSpin(t) \/ Restore(t)
    PROVE  IInv'
<1> USE DEF Odd, Two, Tok, Load, Hit, InvokePoints, DrainPoints, FastPoints, SlowPoints,
            SharePoints, TakePoints, WakePoints, CallPoints, ItemPoints, SemaPoints,
            RunPoints, Readers
<1>1. /\ after' = after
      /\ \/ pc[t] = "undo" /\ pc' = [pc EXCEPT ![t] = "restore"]
         \/ pc[t] = "undo" /\ pc' = [pc EXCEPT ![t] = "undospin"]
         \/ pc[t] = "undospin" /\ pc' = [pc EXCEPT ![t] = "restore"]
         \/ pc[t] = "restore" /\ pc' = [pc EXCEPT ![t] = "finish"]
      /\ running' = running /\ suspend' = suspend /\ queued' = queued
      /\ blk' = blk /\ dc' = dc /\ nextdc' = nextdc /\ sema' = sema
      /\ SameBlocks
  BY AtHand DEF Undo, UndoSpin, Restore, At, Goto, shared, countVars, listVars, rootVars,
     history, blockVars, locals, drainVars, SameBlocks
<1>2. /\ Frame(t)
      /\ \/ pc[t] = "undo" /\ pc'[t] = "restore"
         \/ pc[t] = "undo" /\ pc'[t] = "undospin"
         \/ pc[t] = "undospin" /\ pc'[t] = "restore"
         \/ pc[t] = "restore" /\ pc'[t] = "finish"
  BY <1>1, AtHand, ThreadsFinite DEF Frame, Points, Returns, Items
<1>3. Adds(t, 0) /\ KeepsLocks(t)
  BY <1>1, <1>2, AtHand DEF Adds, KeepsLocks, Local, INTERVAL
<1>4. Hands(t) /\ Local(t)' /\ NoRun(t)
  BY <1>1, <1>2, AtHand DEF Hands, Local, NoRun, BarrierAt
<1> QED BY <1>1, <1>2, <1>3, <1>4, OrdinaryKeeps DEF Ordinary

\* InvokeDone: the drain ends, with a lock to be transferred or without.
LEMMA InvokeDoneKeeps ==
    ASSUME IInv, NEW t \in Threads, InvokeDone(t)
    PROVE  IInv'
<1> USE DEF Odd, Two, Tok, Load, Hit, InvokePoints, DrainPoints, FastPoints, SlowPoints,
            SharePoints, TakePoints, WakePoints, CallPoints, ItemPoints, SemaPoints,
            RunPoints, Readers
<1>1. /\ pc[t] = "finish" /\ after' = after
      /\ pc' = [pc EXCEPT ![t] = IF sema[t] # None THEN "invokesignal" ELSE "unlock"]
      /\ running' = running - 1 /\ suspend' = suspend /\ queued' = queued
      /\ blk' = blk /\ dc' = [dc EXCEPT ![t] = None] /\ nextdc' = [nextdc EXCEPT ![t] = None] /\ sema' = sema
      /\ SameBlocks
  BY AtHand DEF InvokeDone, AddRunning, At, Goto, shared, countVars, listVars, rootVars,
     history, blockVars, locals, drainVars, SameBlocks
<1>2. /\ Frame(t)
      /\ pc'[t] = IF sema[t] # None THEN "invokesignal" ELSE "unlock"
      /\ dc'[t] = None /\ nextdc'[t] = None
  BY <1>1, AtHand, ThreadsFinite DEF Frame, Points, Returns, Items
<1>3. Adds(t, -1) /\ KeepsLocks(t)
  BY <1>1, <1>2, AtHand DEF Adds, KeepsLocks, Local, INTERVAL
<1>4. Hands(t) /\ Local(t)' /\ NoRun(t)
  BY <1>1, <1>2, AtHand DEF Hands, Local, NoRun, BarrierAt
<1> QED BY <1>1, <1>2, <1>3, <1>4, OrdinaryKeeps DEF Ordinary

\* PopSuspend: a barrier sync that was popped suspends the queue
LEMMA PopSuspendKeeps ==
    ASSUME IInv, NEW t \in Threads, PopSuspend(t)
    PROVE  IInv'
<1> USE DEF Odd, Two, Tok, Load, Hit, InvokePoints, DrainPoints, FastPoints, SlowPoints,
            SharePoints, TakePoints, WakePoints, CallPoints, ItemPoints, SemaPoints,
            RunPoints, Readers
<1>1. /\ pc[t] = "pop" /\ pc' = [pc EXCEPT ![t] = "poprunning"] /\ after' = after
      /\ running' = running /\ suspend' = suspend + INTERVAL /\ queued' = queued
      /\ blk' = blk /\ dc' = dc /\ nextdc' = nextdc /\ sema' = sema /\ kind' = kind
      /\ SameBlocks
  BY AtHand DEF PopSuspend, AddSuspend, At, Goto, shared, countVars, listVars, rootVars,
     history, blockVars, locals, drainVars, SameBlocks
<1>2. /\ Frame(t)
      /\ pc'[t] = "poprunning"
  BY <1>1, AtHand, ThreadsFinite DEF Frame, Points, Returns, Items
<1>3. Adds(t, 0) /\ KeepsLocks(t)
  BY <1>1, <1>2, AtHand DEF Adds, KeepsLocks, Local, INTERVAL
<1>4. Hands(t) /\ Local(t)' /\ NoRun(t)
  BY <1>1, <1>2, AtHand DEF Hands, Local, NoRun, BarrierAt
<1> QED BY <1>1, <1>2, <1>3, <1>4, OrdinaryKeeps DEF Ordinary

\* PopRunning: and has a share.
LEMMA PopRunningKeeps ==
    ASSUME IInv, NEW t \in Threads, PopRunning(t)
    PROVE  IInv'
<1> USE DEF Odd, Two, Tok, Load, Hit, InvokePoints, DrainPoints, FastPoints, SlowPoints,
            SharePoints, TakePoints, WakePoints, CallPoints, ItemPoints, SemaPoints,
            RunPoints, Readers
<1>1. /\ pc[t] = "poprunning" /\ after' = after /\ dc[t] # None
      /\ \E q \in {"finish", "restore"} : pc' = [pc EXCEPT ![t] = q]
      /\ running' = running + 2 /\ suspend' = suspend /\ queued' = queued
      /\ blk' = blk /\ dc' = [dc EXCEPT ![t] = nextdc[t]] /\ nextdc' = nextdc /\ sema' = [sema EXCEPT ![t] = dc[t]]
      /\ SameBlocks
  BY AtHand DEF PopRunning, AddRunning, Local, ItemPoints, At, Goto, shared, countVars,
     listVars, rootVars, history, blockVars, locals, drainVars, SameBlocks
<1>2. /\ Frame(t)
      /\ pc'[t] \in {"finish", "restore"}
      /\ dc'[t] = nextdc[t] /\ sema'[t] = dc[t]
  BY <1>1, AtHand, ThreadsFinite DEF Frame, Points, Returns, Items
<1>3. Adds(t, 2) /\ KeepsLocks(t)
  BY <1>1, <1>2, AtHand DEF Adds, KeepsLocks, Local, INTERVAL
<1>4. Hands(t) /\ Local(t)' /\ NoRun(t)
  BY <1>1, <1>2, AtHand DEF Hands, Local, NoRun, BarrierAt
<1> QED BY <1>1, <1>2, <1>3, <1>4, OrdinaryKeeps DEF Ordinary

\* VerifyIdle: the queue is looked at once more.
LEMMA VerifyIdleKeeps ==
    ASSUME IInv, NEW t \in Threads, VerifyIdle(t)
    PROVE  IInv'
<1> USE DEF Odd, Two, Tok, Load, Hit, InvokePoints, DrainPoints, FastPoints, SlowPoints,
            SharePoints, TakePoints, WakePoints, CallPoints, ItemPoints, SemaPoints,
            RunPoints, Readers
<1>1. /\ pc[t] = "verifyidle"
      /\ \/ pc' = [pc EXCEPT ![t] = "wake"] /\ after' = [after EXCEPT ![t] = "release"]
         \/ pc' = [pc EXCEPT ![t] = "release"] /\ after' = after
      /\ running' = running /\ suspend' = suspend /\ queued' = queued
      /\ blk' = blk /\ dc' = dc /\ nextdc' = nextdc /\ sema' = sema
      /\ SameBlocks
  BY AtHand DEF VerifyIdle, Enter, Stay, At, Goto, shared, countVars, listVars, rootVars,
     history, blockVars, locals, drainVars, SameBlocks
<1>2. /\ Frame(t)
      /\ \/ pc'[t] = "wake" /\ after'[t] = "release"
         \/ pc'[t] = "release"
  BY <1>1, AtHand, ThreadsFinite DEF Frame, Points, Returns, Items
<1>3. Adds(t, 0) /\ KeepsLocks(t)
  BY <1>1, <1>2, AtHand DEF Adds, KeepsLocks, Local, INTERVAL
<1>4. Hands(t) /\ Local(t)' /\ NoRun(t)
  BY <1>1, <1>2, AtHand DEF Hands, Local, NoRun, BarrierAt
<1> QED BY <1>1, <1>2, <1>3, <1>4, OrdinaryKeeps DEF Ordinary

\* DrainRan: a block of the drain ends.
LEMMA DrainRanKeeps ==
    ASSUME IInv, NEW t \in Threads, DrainRan(t)
    PROVE  IInv'
<1> USE DEF Odd, Two, Tok, Load, Hit, InvokePoints, DrainPoints, FastPoints, SlowPoints,
            SharePoints, TakePoints, WakePoints, CallPoints, ItemPoints, SemaPoints,
            RunPoints, Readers
<1>1. /\ pc[t] = "rundrain" /\ after' = after
      /\ running' = running /\ suspend' = suspend /\ queued' = queued
      /\ blk' = blk /\ dc' = [dc EXCEPT ![t] = nextdc[t]] /\ nextdc' = [nextdc EXCEPT ![t] = None] /\ sema' = sema
      /\ pc' = [pc EXCEPT ![t] = IF nextdc[t] = None THEN "drain" ELSE "next"]
      /\ kind' = kind /\ SameSets /\ status' = [status EXCEPT ![dc[t]] = "done"]
  BY AtHand DEF DrainRan, Advance, At, Goto, Finish, shared, countVars, listVars, rootVars,
     blockVars, drainVars, SameSets
<1>2. /\ Frame(t)
      /\ pc'[t] = IF nextdc[t] = None THEN "drain" ELSE "next"
      /\ dc'[t] = nextdc[t] /\ nextdc'[t] = None
  BY <1>1, AtHand, ThreadsFinite DEF Frame, Points, Returns, Items
<1>3. Adds(t, 0) /\ KeepsLocks(t)
  BY <1>1, <1>2, AtHand DEF Adds, KeepsLocks, Local
<1>4. Hands(t) /\ Local(t)'
  BY <1>1, <1>2, AtHand DEF Hands, Local
<1>5. SameOld
  BY <1>1, AtHand, StatusMoves DEF IInv, Statuses
<1>6. RunsKept(t)
  <2>1. \A c \in Blocks : RunsOn(t, c) => c = dc[t]
    BY <1>1 DEF RunsOn
  <2> QED BY <1>1, <2>1, AtHand, BlockEnds DEF IInv
<1>7. Alone'
  BY <1>1, <1>2, AloneStays DEF IInv, BarrierAt, SameSets
<1>8. WithinWidth'
  BY <1>1, <1>2, WidthStays DEF IInv, NoMore, SameSets, AsyncPoints
<1> QED BY <1>1, <1>2, <1>3, <1>4, <1>5, <1>6, <1>7, <1>8, BlockStepKeeps DEF BlockStep


-----------------------------------------------------------------------------
(* Steps that change who may run.                                           *)

\* CheckRunning: a barrier goes on when nothing runs.
LEMMA CheckRunningKeeps ==
    ASSUME IInv, NEW t \in Threads, CheckRunning(t)
    PROVE  IInv'
<1> USE DEF Odd, Two, Tok, Load, Hit, InvokePoints, DrainPoints, FastPoints, SlowPoints,
            SharePoints, TakePoints, WakePoints, CallPoints, ItemPoints, SemaPoints,
            RunPoints, Readers
<1>1. CASE running > 1
  <2>1. Branch(t, "checkrunning", "undo") /\ dc[t] # None
    BY <1>1, AtHand DEF CheckRunning, Branch, At, Local
  <2> QED BY <2>1, BranchStep DEF SameWeights, PlainPoints, Points
<1>2. CASE ~(running > 1)
  <2>1. /\ pc[t] = "checkrunning" /\ pc' = [pc EXCEPT ![t] = "pop"]
        /\ running' = running /\ suspend' = suspend /\ queued' = queued /\ after' = after
        /\ blk' = blk /\ dc' = dc /\ nextdc' = nextdc /\ sema' = sema /\ kind' = kind
        /\ SameBlocks
    BY <1>2, AtHand
       DEF CheckRunning, Branch, At, Goto, shared, countVars, listVars, rootVars, history,
          blockVars, locals,
           drainVars, SameBlocks
  <2>2. Frame(t) /\ pc'[t] = "pop"
    BY <2>1, AtHand DEF Frame, Points
  <2>3. Adds(t, 0) /\ KeepsLocks(t)
    BY <2>1, <2>2, AtHand DEF Adds, KeepsLocks
  <2>4. Hands(t) /\ Local(t)'
    BY <2>1, <2>2, AtHand DEF Hands, Local
  <2>5. SameOld /\ SameSets /\ RunsKept(t)
    BY <2>1, AtHand DEF SameOld, SameSets, SameBlocks, RunsKept, RunsOn, IInv, Types
  <2>6. NoReaders
    <3>1. running <= 1 /\ Odd(pc[t], after[t]) = 1
      BY <1>2, <2>1, AtHand
    <3>2. /\ redirected = {} /\ signalled = {}
          /\ \A u \in Threads : Two(pc[u], after[u], sema[u]) = 0
      BY <3>1, NobodyCounted DEF IInv, Counts
    <3> QED BY <3>2 DEF NoReaders
  <2>7. Alone'
    BY <2>1, <2>2, <2>6 DEF Alone, NoReaders, Frame, SameBlocks
  <2>8. WithinWidth'
    BY <2>1, <2>2, WidthStays DEF IInv, NoMore, SameBlocks, AsyncPoints
  <2> QED BY <2>2, <2>3, <2>4, <2>5, <2>7, <2>8, BlockStepKeeps DEF BlockStep
<1> QED BY <1>1, <1>2

\* RedirectAdd: whoever drains a reader is not a barrier, and nobody else is.
LEMMA RedirectAddKeeps ==
    ASSUME IInv, NEW t \in Threads, RedirectAdd(t)
    PROVE  IInv'
<1> USE DEF Odd, Two, Tok, Load, Hit, InvokePoints, DrainPoints, FastPoints, SlowPoints,
            SharePoints, TakePoints, WakePoints, CallPoints, ItemPoints, SemaPoints,
            RunPoints, Readers
<1>1. /\ pc[t] = "redirectadd" /\ pc' = [pc EXCEPT ![t] = "redirectpush"]
      /\ running' = running + 2 /\ suspend' = suspend /\ queued' = queued /\ after' = after
      /\ blk' = blk /\ dc' = dc /\ nextdc' = nextdc /\ sema' = sema /\ kind' = kind
      /\ SameBlocks
  BY AtHand DEF RedirectAdd, AddRunning, At, Goto, rootVars, listVars, drainVars, locals,
     blockVars, SameBlocks
<1>2. Frame(t) /\ pc'[t] = "redirectpush"
  BY <1>1, AtHand DEF Frame, Points
<1>3. Adds(t, 2) /\ KeepsLocks(t)
  BY <1>1, <1>2, AtHand DEF Adds, KeepsLocks
<1>4. Hands(t) /\ Local(t)'
  BY <1>1, <1>2, AtHand DEF Hands, Local
<1>5. SameOld /\ SameSets /\ RunsKept(t)
  BY <1>1, AtHand DEF SameOld, SameSets, SameBlocks, RunsKept, RunsOn, IInv, Types
<1>6. Alone'
  <2>1. \A u \in Threads : Tok(pc[u]) = 1 => u = t
    BY <1>1, TokenUnique DEF IInv
  <2>2. \A u \in Threads \ {t} : ~BarrierAt(u)
    BY <2>1 DEF BarrierAt
  <2> QED BY <1>2, <2>2, NoneAlone DEF BarrierAt
<1>7. WithinWidth'
  <2>1. Shares' = Shares + 1 /\ Shares \in Nat
    <3>1. Hit(pc[t], AsyncPoints) = 0 /\ Hit(pc'[t], AsyncPoints) = 1
      BY <1>1, <1>2 DEF AsyncPoints
    <3>2. Redirects' = Redirects - 0 + 1 /\ Redirects \in Nat
      BY <1>2, <3>1, RedirectsMove DEF IInv
    <3> QED BY <1>1, <3>2, SetsFinite DEF Shares, SameBlocks, IInv
  <2>2. 2 * Shares + 1 <= Width
    BY <1>1 DEF IInv, WithinWidth
  <2>3. \A u \in Threads : pc'[u] # "redirectadd"
    <3>1. \A u \in Threads : Tok(pc[u]) = 1 => u = t
      BY <1>1, TokenUnique DEF IInv
    <3> QED BY <1>2, <3>1 DEF Frame
  <2>4. 2 * Shares' <= Width + 1
    BY <2>1, <2>2, QueueAssumption DEF QueueAssumption
  <2> QED BY <2>3, <2>4 DEF WithinWidth
<1> QED BY <1>2, <1>3, <1>4, <1>5, <1>6, <1>7, BlockStepKeeps DEF BlockStep

\* PopRun: the block starts.
LEMMA PopRunKeeps ==
    ASSUME IInv, NEW t \in Threads, PopRun(t)
    PROVE  IInv'
<1> USE DEF Odd, Two, Tok, Load, Hit, InvokePoints, DrainPoints, FastPoints, SlowPoints,
            SharePoints, TakePoints, WakePoints, CallPoints, ItemPoints, SemaPoints,
            RunPoints, Readers
<1>1. /\ pc[t] = "pop" /\ pc' = [pc EXCEPT ![t] = "rundrain"]
      /\ running' = running /\ suspend' = suspend /\ queued' = queued /\ after' = after
      /\ blk' = blk /\ dc' = dc /\ nextdc' = nextdc /\ sema' = sema /\ kind' = kind
      /\ SameSets /\ status' = [status EXCEPT ![dc[t]] = "running"]
  BY AtHand DEF PopRun, Start, At, Goto, shared, countVars, listVars, rootVars, history,
     blockVars, locals, drainVars, SameSets
<1>2. Frame(t) /\ pc'[t] = "rundrain"
  BY <1>1, AtHand DEF Frame, Points
<1>3. Adds(t, 0) /\ KeepsLocks(t)
  BY <1>1, <1>2, AtHand DEF Adds, KeepsLocks
<1>4. Hands(t) /\ Local(t)'
  BY <1>1, <1>2, AtHand DEF Hands, Local
<1>5. SameOld
  BY <1>1, AtHand, StatusMoves DEF IInv, Statuses
<1>6. RunsKept(t)
  <2>1. RunsOn(t, dc[t])' /\ dc' = dc
    BY <1>1, <1>2 DEF RunsOn
  <2> QED BY <1>1, <2>1, AtHand, BlockStarts DEF IInv
<1>7. Alone'
  BY <1>1, <1>2, AloneStays DEF IInv, BarrierAt, SameSets
<1>8. WithinWidth'
  BY <1>1, <1>2, WidthStays DEF IInv, NoMore, SameSets, AsyncPoints
<1> QED BY <1>1, <1>2, <1>3, <1>4, <1>5, <1>6, <1>7, <1>8, BlockStepKeeps DEF BlockStep

\* Resumed: a thread that was let go runs its block.
LEMMA ResumedKeeps ==
    ASSUME IInv, NEW t \in Threads, Resumed(t)
    PROVE  IInv'
<1> USE DEF Odd, Two, Tok, Load, Hit, InvokePoints, DrainPoints, FastPoints, SlowPoints,
            SharePoints, TakePoints, WakePoints, CallPoints, ItemPoints, SemaPoints,
            RunPoints, Readers
<1>1. /\ pc[t] = "wait" /\ after' = after /\ blk[t] \in signalled
      /\ pc' = [pc EXCEPT ![t] = IF kind[blk[t]] = "bsync" THEN "runslow" ELSE "runreader"]
      /\ running' = running /\ suspend' = suspend /\ queued' = queued
      /\ blk' = blk /\ dc' = dc /\ nextdc' = nextdc /\ sema' = sema
      /\ kind' = kind /\ status' = [status EXCEPT ![blk[t]] = "running"]
      /\ signalled' = signalled \ {blk[t]} /\ redirected' = redirected
      /\ head' = head /\ next' = next
  BY DEF Resumed, Start, At, Goto, shared, countVars, listVars, rootVars, history,
     blockVars, locals, drainVars
<1>2. Frame(t) /\ pc'[t] = IF kind[blk[t]] = "bsync" THEN "runslow" ELSE "runreader"
  BY <1>1, AtHand DEF Frame, Points
<1>3. blk[t] \in Blocks /\ kind[blk[t]] \in Syncs
  BY <1>1, AtHand DEF Local, IInv, Types
<1>4. SharePasses(t)
  BY <1>1, <1>2, AtHand DEF SharePasses
<1>5. SameOld
  BY <1>1, AtHand, StatusMoves DEF IInv, Statuses
<1>6. SetsOld /\ Hands(t) /\ Local(t)'
  BY <1>1, <1>2, <1>3, AtHand DEF SetsOld, Hands, Local, Syncs, IInv, Types, AllOld, Kinds
<1>7. OneToken'
  <2>1. CASE kind[blk[t]] = "bsync"
    <3>1. blk[t] \in Handed /\ Handed' = Handed \ {blk[t]}
      BY <1>1, <2>1 DEF Handed
    <3>2. Tok(pc[t]) = 0 /\ Tok(pc'[t]) = 1
      BY <1>1, <1>2, <2>1
    <3> QED BY <1>2, <3>1, <3>2, TokenTaken DEF IInv
  <2>2. CASE kind[blk[t]] # "bsync"
    <3>1. Handed' = Handed
      BY <1>1, <2>2 DEF Handed
    <3> QED BY <1>1, <1>2, <2>2, <3>1, TokenStays DEF IInv
  <2> QED BY <2>1, <2>2
<1>8. RunsKept(t)
  <2>1. RunsOn(t, blk[t])' /\ blk' = blk
    BY <1>1, <1>2 DEF RunsOn
  <2> QED BY <1>1, <2>1, AtHand, BlockStarts DEF IInv
<1>9. Alone'
  <2>1. \A u \in Threads : ~BarrierAt(u)
    BY <1>1 DEF IInv, Alone, NoReaders
  <2> QED BY <1>2, <2>1, NoneAlone DEF BarrierAt
<1>10. WithinWidth'
  BY <1>1, <1>2, WidthStays DEF IInv, NoMore, AsyncPoints
<1> QED BY <1>2, <1>4, <1>5, <1>6, <1>7, <1>8, <1>9, <1>10, PassKeeps

\* PopRedirected: a block runs on the target.
LEMMA PopRedirectedKeeps ==
    ASSUME IInv, NEW t \in Threads, NEW b \in Blocks, PopRedirected(t, b)
    PROVE  IInv'
<1> USE DEF Odd, Two, Tok, Load, Hit, InvokePoints, DrainPoints, FastPoints, SlowPoints,
            SharePoints, TakePoints, WakePoints, CallPoints, ItemPoints, SemaPoints,
            RunPoints, Readers
<1>1. /\ pc[t] = "idle" /\ after' = after /\ b \in redirected
      /\ pc' = [pc EXCEPT ![t] = "runredirected"]
      /\ running' = running /\ suspend' = suspend /\ queued' = queued
      /\ blk' = [blk EXCEPT ![t] = b] /\ dc' = dc /\ nextdc' = nextdc /\ sema' = sema
      /\ kind' = kind /\ status' = [status EXCEPT ![b] = "running"]
      /\ signalled' = signalled /\ redirected' = redirected \ {b}
      /\ head' = head /\ next' = next
  BY DEF PopRedirected, Start, At, Goto, shared, countVars, listVars, rootVars, history,
     blockVars, locals, drainVars
<1>2. Frame(t) /\ pc'[t] = "runredirected" /\ blk'[t] = b
  BY <1>1, AtHand DEF Frame, Points, Items
<1>3. b \in Old /\ kind[b] = "async" /\ b # None
  BY <1>1, ThreadsFinite DEF IInv, AllOld, Kinds
<1>4. SharePasses(t)
  BY <1>1, <1>2, AtHand DEF SharePasses
<1>5. SameOld
  BY <1>1, <1>3, AtHand, StatusMoves DEF IInv, Statuses
<1>6. SetsOld /\ Hands(t) /\ Local(t)'
  BY <1>1, <1>2, <1>3, AtHand DEF SetsOld, Hands, Local, IInv, Types, AllOld, Kinds
<1>7. OneToken'
  <2>1. Handed' = Handed
    BY <1>1 DEF Handed
  <2> QED BY <1>1, <1>2, <2>1, TokenStays DEF IInv
<1>8. RunsKept(t)
  <2>1. RunsOn(t, b)' /\ b \in Items
    BY <1>1, <1>2 DEF RunsOn, Items
  <2> QED BY <1>1, <2>1, AtHand, BlockStarts DEF IInv
<1>9. Alone'
  <2>1. \A u \in Threads : ~BarrierAt(u)
    BY <1>1 DEF IInv, Alone, NoReaders
  <2> QED BY <1>2, <2>1, NoneAlone DEF BarrierAt
<1>10. WithinWidth'
  BY <1>1, <1>2, WidthPasses DEF IInv, AsyncPoints
<1> QED BY <1>2, <1>4, <1>5, <1>6, <1>7, <1>8, <1>9, <1>10, PassKeeps

\* PopQueue and Unlock: the invocation of the queue begins and ends.
LEMMA PopQueueKeeps ==
    ASSUME IInv, NEW t \in Threads, PopQueue(t) \/ Unlock(t)
    PROVE  IInv'
<1> USE DEF Odd, Two, Tok, Load, Hit, InvokePoints, DrainPoints, FastPoints, SlowPoints,
            SharePoints, TakePoints, WakePoints, CallPoints, ItemPoints, SemaPoints,
            RunPoints, Readers
<1>1. /\ \/ /\ pc[t] = "idle" /\ pc' = [pc EXCEPT ![t] = "invoke"]
            /\ queued > 0 /\ queued' = queued - 1 /\ suspend' = suspend
         \/ /\ pc[t] = "unlock" /\ \E q \in {"verifyidle", "release"} : pc' = [pc EXCEPT ![t] = q]
            /\ suspend' = suspend - 1 /\ queued' = queued
      /\ running' = running /\ SameBlocks /\ after' = after
      /\ blk' = blk /\ dc' = dc /\ nextdc' = nextdc /\ sema' = sema
  BY AtHand DEF PopQueue, Unlock, AddSuspend, LOCK, SameBlocks, At, Goto, shared, countVars,
     listVars, rootVars, history, blockVars, locals, drainVars
<1>2. /\ Frame(t)
      /\ \/ pc[t] = "idle" /\ pc'[t] = "invoke"
         \/ pc[t] = "unlock" /\ pc'[t] \in {"verifyidle", "release"}
  BY <1>1, AtHand DEF Frame, Points, Returns
<1>3. Adds(t, 0) /\ Tok(pc'[t]) = Tok(pc[t])
  BY <1>1, <1>2, AtHand DEF Adds, Local
<1>4. Hands(t) /\ Local(t)' /\ NoRun(t)
  BY <1>1, <1>2, AtHand DEF Hands, Local, NoRun, BarrierAt
<1>5. OneInvocation' /\ suspend' \in Int /\ queued' \in Nat
  <2> DEFINE i == Inside  ip == Inside'
  <2>1. /\ i \in Nat /\ ip \in Nat
        /\ \/ pc[t] = "idle" /\ ip = i + 1
           \/ pc[t] = "unlock" /\ ip = i - 1
    <3>1. \/ pc[t] = "idle" /\ Hit(pc'[t], InvokePoints) = 1 /\ Hit(pc[t], InvokePoints) = 0
          \/ pc[t] = "unlock" /\ Hit(pc'[t], InvokePoints) = 0 /\ Hit(pc[t], InvokePoints) = 1
      BY <1>2
    <3>2. /\ Inside' = Inside - Hit(pc[t], InvokePoints) + Hit(pc'[t], InvokePoints)
          /\ Inside \in Nat /\ Inside' \in Nat
      BY <1>2, NumbersMove DEF IInv
    <3> HIDE DEF Hit
    <3> QED BY <3>1, <3>2
  <2>2. suspend % 2 = queued + i /\ queued \in Nat /\ suspend \in Int
    BY DEF IInv, OneInvocation, Inside, Types
  <2> HIDE DEF i, ip
  <2>3. suspend' % 2 = queued' + ip /\ suspend' \in Int /\ queued' \in Nat
    <3>1. CASE pc[t] = "idle"
      BY <1>1, <2>1, <2>2, <3>1
    <3>2. CASE pc[t] = "unlock"
      <4>1. suspend' = suspend - 1 /\ queued' = queued /\ ip = i - 1
        BY <1>1, <2>1, <3>2
      <4> QED BY <2>1, <2>2, <4>1
    <3> QED BY <2>1, <3>1, <3>2
  <2> QED BY <2>3 DEF OneInvocation, Inside, ip
<1> QED BY <1>1, <1>2, <1>3, <1>4, <1>5, InvocationKeeps

-----------------------------------------------------------------------------
(* The calls.                                                               *)

\* Suspend: one suspension more.
LEMMA SuspendKeeps ==
    ASSUME IInv, NEW t \in Threads, Suspend(t)
    PROVE  IInv'
<1> USE DEF Odd, Two, Tok, Load, Hit, InvokePoints, DrainPoints, FastPoints, SlowPoints,
            SharePoints, TakePoints, WakePoints, CallPoints, ItemPoints, SemaPoints,
            RunPoints, Readers
<1>1. /\ pc[t] = "idle" /\ pc' = pc /\ after' = after
      /\ running' = running /\ suspend' = suspend + INTERVAL /\ queued' = queued
      /\ blk' = blk /\ dc' = dc /\ nextdc' = nextdc /\ sema' = sema
      /\ SameBlocks
  BY AtHand DEF Suspend, At, Goto, shared, countVars, listVars, rootVars, history,
     blockVars, locals, drainVars, SameBlocks
<1>2. /\ Frame(t)
      /\ pc'[t] = "idle"
  BY <1>1, AtHand, ThreadsFinite DEF Frame, Points, Returns, Items
<1>3. Adds(t, 0) /\ KeepsLocks(t)
  BY <1>1, <1>2, AtHand DEF Adds, KeepsLocks, Local, INTERVAL
<1>4. Hands(t) /\ Local(t)' /\ NoRun(t)
  BY <1>1, <1>2, AtHand DEF Hands, Local, NoRun, BarrierAt
<1> QED BY <1>1, <1>2, <1>3, <1>4, OrdinaryKeeps DEF Ordinary

\* Resume: one less, and a wakeup if it was the last.
LEMMA ResumeKeeps ==
    ASSUME IInv, NEW t \in Threads, Resume(t)
    PROVE  IInv'
<1> USE DEF Odd, Two, Tok, Load, Hit, InvokePoints, DrainPoints, FastPoints, SlowPoints,
            SharePoints, TakePoints, WakePoints, CallPoints, ItemPoints, SemaPoints,
            RunPoints, Readers
<1>1. /\ pc[t] = "idle"
      /\ \/ pc' = [pc EXCEPT ![t] = "wake"] /\ after' = [after EXCEPT ![t] = "release"]
         \/ pc' = [pc EXCEPT ![t] = "release"] /\ after' = after
      /\ running' = running /\ suspend' = suspend - INTERVAL /\ queued' = queued
      /\ blk' = blk /\ dc' = dc /\ nextdc' = nextdc /\ sema' = sema
      /\ SameBlocks
  BY AtHand DEF Resume, Enter, Stay, At, Goto, shared, countVars, listVars, rootVars,
     history, blockVars, locals, drainVars, SameBlocks
<1>2. /\ Frame(t)
      /\ \/ pc'[t] = "wake" /\ after'[t] = "release"
         \/ pc'[t] = "release"
  BY <1>1, AtHand, ThreadsFinite DEF Frame, Points, Returns, Items
<1>3. Adds(t, 0) /\ KeepsLocks(t)
  BY <1>1, <1>2, AtHand DEF Adds, KeepsLocks, Local, INTERVAL
<1>4. Hands(t) /\ Local(t)' /\ NoRun(t)
  BY <1>1, <1>2, AtHand DEF Hands, Local, NoRun, BarrierAt
<1> QED BY <1>1, <1>2, <1>3, <1>4, OrdinaryKeeps DEF Ordinary


\* Call: a block becomes old.
LEMMA CallKeeps ==
    ASSUME IInv, NEW t \in Threads, NEW b \in Blocks, NEW c \in Calls, Call(t, b, c)
    PROVE  IInv'
<1> USE DEF Odd, Two, Tok, Load, Hit, InvokePoints, DrainPoints, FastPoints, SlowPoints,
            SharePoints, TakePoints, WakePoints, CallPoints, ItemPoints, SemaPoints,
            RunPoints, Readers
<1>1. /\ pc[t] = "idle" /\ after' = after /\ status[b] = "new"
      /\ \E q \in {"push", "look"} : pc' = [pc EXCEPT ![t] = q]
      /\ running' = running /\ suspend' = suspend /\ queued' = queued
      /\ blk' = [blk EXCEPT ![t] = b] /\ dc' = dc /\ nextdc' = nextdc /\ sema' = sema
      /\ kind' = [kind EXCEPT ![b] = Effective(c)] /\ status' = [status EXCEPT ![b] = "called"]
      /\ signalled' = signalled /\ redirected' = redirected
      /\ head' = head /\ next' = next
  BY DEF Call, At, Goto, shared, countVars, listVars, rootVars, drainVars
<1>2. Frame(t) /\ pc'[t] \in {"push", "look"} /\ blk'[t] = b
  BY <1>1, AtHand DEF Frame, Points, Items
<1>3. b \notin Old /\ b # None /\ Old' = Old \cup {b}
  BY <1>1, ThreadsFinite DEF Old, IInv, Types
<1>4. Effective(c) \in AllCalls
  BY QueueAssumption DEF QueueAssumption, Effective, AllCalls
<1>5. \A a \in Old \ {None} : kind'[a] = kind[a]
  BY <1>1, <1>3 DEF Old, IInv, Types
<1>6. Counts'
  <2>1. KeepsSets
    <3>1. Handed' = Handed
      BY <1>1, <1>5, ThreadsFinite DEF Handed, IInv, Types, AllOld
    <3> QED BY <1>1, <3>1 DEF KeepsSets
  <2>2. Adds(t, 0) /\ KeepsLocks(t)
    BY <1>1, <1>2, AtHand DEF Adds, KeepsLocks
  <2> QED BY <1>2, <2>1, <2>2, CountsStep DEF IInv, Counts
<1>7. Types'
  BY <1>1, <1>2, <1>4 DEF Types, IInv, Frame, Statuses
<1>8. AllOld'
  <2>1. \A u \in Threads : {blk'[u], dc'[u], nextdc'[u], sema'[u]} \subseteq Old \cup {b}
    BY <1>1, AtHand DEF IInv, AllOld, Types
  <2> QED BY <1>1, <1>3, <2>1, AtHand DEF AllOld, IInv
<1>9. Kinds'
  <2>1. Serial => Effective(c) \in Barriers
    BY DEF Effective, Barriers
  <2>2. ~Serial /\ "bsync" \notin Calls => Effective(c) # "bsync"
    BY DEF Effective
  <2>3. \A a \in Blocks : kind'[a] = IF a = b THEN Effective(c) ELSE kind[a]
    BY <1>1 DEF IInv, Types
  <2>4. \A a \in Blocks : a # b => status'[a] = status[a]
    BY <1>1 DEF IInv, Types
  <2>5. Serial => \A a \in Blocks : status'[a] # "new" => kind'[a] \in Barriers
    BY <2>1, <2>3, <2>4 DEF IInv, Kinds
  <2>6. ~Serial /\ "bsync" \notin Calls => \A a \in Blocks : kind'[a] # "bsync"
    BY <2>2, <2>3 DEF IInv, Kinds
  <2>7. \A a \in redirected' : kind'[a] = "async"
    BY <1>1, <1>5, ThreadsFinite DEF IInv, Kinds, AllOld, Types
  <2>8. Serial' = Serial /\ Calls' = Calls
    BY DEF Serial
  <2> QED BY <2>5, <2>6, <2>7 DEF Kinds, Serial
<1>10. Locals'
  <2>1. Local(t)'
    BY <1>1, <1>2, <1>3, AtHand DEF Local
  <2>2. ASSUME NEW u \in Threads, u # t PROVE Local(u)'
    <3>1. /\ pc'[u] = pc[u] /\ after'[u] = after[u] /\ sema'[u] = sema[u]
          /\ blk'[u] = blk[u] /\ dc'[u] = dc[u]
      BY <1>2, <2>2 DEF Frame
    <3>2. blk[u] \in Old /\ dc[u] \in Old /\ Local(u)
      BY AtHand
    <3>3. /\ blk[u] # None => kind'[blk[u]] = kind[blk[u]]
          /\ dc[u] # None => kind'[dc[u]] = kind[dc[u]]
      BY <1>5, <3>2
    <3> QED BY <3>1, <3>2, <3>3 DEF Local
  <2> QED BY <2>1, <2>2 DEF Locals
<1>11. EachRunsOn'
  <2>1. RunsKept(t)
    BY <1>1 DEF RunsKept, RunsOn, IInv, Types
  <2> QED BY <1>2, <2>1, RunsStep DEF IInv
<1>12. Alone'
  BY <1>1, <1>2, AloneStays DEF IInv, BarrierAt
<1>13. WithinWidth'
  BY <1>1, <1>2, WidthStays DEF IInv, NoMore, AsyncPoints
<1> QED BY <1>6, <1>7, <1>8, <1>9, <1>10, <1>11, <1>12, <1>13 DEF IInv, Counts

-----------------------------------------------------------------------------
(* The invariant.                                                           *)

\* A step that changes nothing the invariant is about.
LEMMA StutterKeeps ==
    ASSUME IInv,
           pc' = pc /\ after' = after /\ blk' = blk /\ dc' = dc /\ nextdc' = nextdc /\ sema' = sema,
           running' = running /\ suspend' = suspend /\ queued' = queued,
           head' = head /\ next' = next /\ redirected' = redirected /\ signalled' = signalled,
           kind' = kind /\ status' = status
    PROVE  IInv'
<1>1. Types' /\ AllOld' /\ Kinds'
  BY DEF IInv, Types, AllOld, Kinds, Old
<1>2. OddOf' = OddOf /\ TwoOf' = TwoOf /\ TokOf' = TokOf /\ Handed' = Handed
  BY DEF OddOf, TwoOf, TokOf, Handed
<1>3. OneInvocation' /\ RunningCount' /\ OneToken'
  BY <1>2 DEF IInv, OneInvocation, RunningCount, OneToken, Number
<1>4. Locals' /\ EachRunsOn' /\ Alone'
  BY DEF IInv, Locals, Local, EachRunsOn, RunsOn, Alone, BarrierAt, NoReaders
<1>5. WithinWidth'
  BY DEF IInv, WithinWidth, Shares, Redirects
<1> QED BY <1>1, <1>3, <1>4, <1>5 DEF IInv

\* The invariant holds at first,
LEMMA InitIInv == Init => IInv
<1> SUFFICES ASSUME Init PROVE IInv
  OBVIOUS
<1>1. Types
  BY DEF Init, Types, Points, Returns, Items, AllCalls, Statuses
<1>2. /\ Number(OddOf) = 0 /\ Number(TwoOf) = 0 /\ Number(TokOf) = 0 /\ Inside = 0
      /\ Cardinality(redirected) = 0 /\ Cardinality(signalled) = 0 /\ Cardinality(Handed) = 0
  <2>1. /\ ThreadsAt(Threads, OddOf, {1}) = {} /\ ThreadsAt(Threads, TwoOf, {1}) = {}
        /\ ThreadsAt(Threads, TokOf, {1}) = {} /\ ThreadsAt(Threads, pc, InvokePoints) = {}
    BY DEF Init, ThreadsAt, OddOf, TwoOf, TokOf, Odd, Two, Tok, DrainPoints, FastPoints,
           SlowPoints, TakePoints, SharePoints, InvokePoints
  <2>2. redirected = {} /\ signalled = {} /\ Handed = {}
    BY DEF Init, Handed
  <2> QED BY <2>1, <2>2, ThreadsFinite, CountIsNat, FS_EmptySet DEF Number, Inside
<1>3. OneInvocation /\ RunningCount /\ OneToken
  BY <1>2 DEF Init, OneInvocation, RunningCount, OneToken, Inside
<1>4. AllOld /\ Kinds
  BY DEF Init, AllOld, Kinds, Old
<1>5. Locals
  BY DEF Init, Locals, Local, CallPoints, ItemPoints, SemaPoints, WakePoints, TakePoints
<1>6. EachRunsOn /\ Alone
  BY DEF Init, EachRunsOn, Alone, BarrierAt
<1>7. WithinWidth
  <2>1. ThreadsAt(Threads, pc, AsyncPoints) = {}
    BY DEF Init, ThreadsAt, AsyncPoints
  <2>2. Redirects = 0
    BY <2>1, ThreadsFinite, CountIsNat DEF Redirects
  <2>3. 2 * Shares <= Width + 1
    BY <1>2, <2>2, QueueAssumption DEF Shares, QueueAssumption
  <2> QED BY <2>3 DEF Init, WithinWidth
<1> QED BY <1>1, <1>3, <1>4, <1>5, <1>6, <1>7 DEF IInv

\* every step of a busy thread keeps it,
LEMMA StepIInv ==
    ASSUME IInv, NEW t \in Threads, Step(t)
    PROVE  IInv'
<1>1. CASE SubmitStep(t)
  BY <1>1, LookKeeps, LockKeeps, EnterKeeps, BackOutKeeps, RedirectKeeps DEF SubmitStep
<1>2. CASE PushStep(t)
  BY <1>2, PushTailKeeps, LinkKeeps, PushHeadKeeps DEF PushStep
<1>3. CASE WakeStep(t)
  BY <1>3, WakeProbeKeeps, WakeLockKeeps DEF WakeStep
<1>4. CASE SyncStep(t)
  BY <1>4, LeaveSyncKeeps, LeaveLockedKeeps, HandoverKeeps, UnlockRunningKeeps, LeaveSlowKeeps,
     SlowRunningKeeps, SlowSuspendKeeps, SlowUnlockKeeps, TakeOneKeeps, TakeNoneKeeps,
     TakeOneTailKeeps, TakeOneLinkKeeps, TransferSuspendKeeps, TransferRunningKeeps,
     SignalKeeps, ResumedKeeps DEF SyncStep
<1>5. CASE DrainStep(t)
  BY <1>5, DrainBranchKeeps, InvokeLockKeeps, DrainHeadKeeps, DrainNextKeeps,
     DrainClearTailKeeps, CheckRunningKeeps, RedirectAddKeeps, RedirectPushKeeps, PopRunKeeps,
     PopSuspendKeeps, PopRunningKeeps, DrainRanKeeps, UndoKeeps, InvokeDoneKeeps,
     SignalKeeps, PopQueueKeeps, VerifyIdleKeeps DEF DrainStep
<1>6. CASE PoolStep(t)
  BY <1>6, PopQueueKeeps, RedirectedRanKeeps, PopRedirectedKeeps DEF PoolStep
<1> QED BY <1>1, <1>2, <1>3, <1>4, <1>5, <1>6 DEF Step

\* and so does every other step.
LEMMA NextIInv == IInv /\ [Next]_vars => IInv'
<1> SUFFICES ASSUME IInv, [Next]_vars PROVE IInv'
  OBVIOUS
<1>1. ASSUME NEW t \in Clients, NEW b \in Blocks, NEW c \in Calls, Call(t, b, c) PROVE IInv'
  BY <1>1, CallKeeps DEF Threads
<1>2. ASSUME NEW t \in Clients, Suspend(t) \/ Resume(t) PROVE IInv'
  BY <1>2, SuspendKeeps, ResumeKeeps DEF Threads
<1>3. ASSUME NEW t \in Clients, GiveUp(t) PROVE IInv'
  BY <1>3, StutterKeeps DEF GiveUp, listVars, rootVars, blockVars, locals, drainVars
<1>4. ASSUME NEW t \in Workers, ReleaseInBlock(t) PROVE IInv'
  <2>1. PICK c : GiveUp(c)
    BY <1>4 DEF ReleaseInBlock
  <2> QED BY <2>1, StutterKeeps DEF GiveUp, listVars, rootVars, blockVars, locals, drainVars
<1>5. ASSUME NEW t \in Threads, Step(t) PROVE IInv'
  BY <1>5, StepIInv
<1>6. CASE UNCHANGED vars
  BY <1>6, StutterKeeps
     DEF vars, shared, history, countVars, listVars, rootVars, blockVars, locals, drainVars
<1> QED BY <1>1, <1>2, <1>3, <1>4, <1>5, <1>6 DEF Next, ReleaseIdle

-----------------------------------------------------------------------------
\* The low bit of do_suspend_cnt is the lock that lets the queue be on its
\* target, or in _dispatch_queue_invoke, once and not twice.
THEOREM OneInvocationHolds == Spec => []OneInvocation
<1>1. IInv => OneInvocation
  BY DEF IInv
<1> QED BY InitIInv, NextIInv, <1>1, PTL DEF Spec

\* So two threads are never in _dispatch_queue_invoke of the queue together,
\* and nobody is while it is on its target.
OneDrainer == /\ \A t, u \in Threads : {pc[t], pc[u]} \subseteq InvokePoints => t = u
              /\ queued > 0 => \A t \in Threads : pc[t] \notin InvokePoints

\* One invocation is one thread.
LEMMA AtMostOneInside == IInv => OneDrainer
<1> SUFFICES ASSUME IInv PROVE OneDrainer
  OBVIOUS
<1> DEFINE A == ThreadsAt(Threads, pc, InvokePoints)
<1>1. IsFiniteSet(A) /\ Cardinality(A) \in Nat /\ Inside = Cardinality(A)
  BY ThreadsFinite, CountIsNat DEF Inside, CountAt
<1>2. queued \in Nat /\ queued + Cardinality(A) \in {0, 1}
  BY <1>1 DEF IInv, Types, OneInvocation, Inside
<1>3. ASSUME NEW t \in Threads, NEW u \in Threads,
             {pc[t], pc[u]} \subseteq InvokePoints
      PROVE  t = u
  <2>1. t \in A /\ u \in A
    BY <1>3 DEF ThreadsAt
  <2>2. IsFiniteSet(A \ {t}) /\ Cardinality(A \ {t}) = Cardinality(A) - 1
    BY <1>1, <2>1, FS_RemoveElement
  <2>3. Cardinality(A \ {t}) \in Nat
    BY <2>2, FS_CardinalityType
  <2>4. Cardinality(A \ {t}) = 0
    BY <1>1, <1>2, <2>2, <2>3
  <2>5. A \ {t} = {}
    BY <2>2, <2>4, FS_EmptySet
  <2> QED BY <2>1, <2>5
<1>4. ASSUME queued > 0, NEW t \in Threads, pc[t] \in InvokePoints PROVE FALSE
  <2>1. Inside > 0
    BY <1>4, ThreadsFinite, CountIsNat DEF Inside
  <2> QED BY <1>1, <1>2, <1>4, <2>1
<1> QED BY <1>3, <1>4 DEF OneDrainer

\* _dispatch_queue_invoke is never entered twice at once for one queue.
THEOREM OneDrainerHolds == Spec => []OneDrainer
BY InitIInv, NextIInv, AtMostOneInside, PTL DEF Spec

\* dq_items_head is taken without a lock, by the drain, by the end of a barrier
\* sync, and by a thread that a lock was transferred to: by one at a time.
ListPoints == DrainPoints \cup FastPoints \cup SlowPoints \cup TakePoints \cup {"invokesignal"}
OneListOwner == \A t, u \in Threads : {pc[t], pc[u]} \subseteq ListPoints => t = u

\* Two threads never take items from the list at once.
THEOREM OneListOwnerHolds == Spec => []OneListOwner
<1>1. IInv => OneListOwner
  <2> SUFFICES ASSUME IInv, NEW t \in Threads, NEW u \in Threads,
                      {pc[t], pc[u]} \subseteq ListPoints
               PROVE  t = u
    BY DEF OneListOwner
  <2>1. Tok(pc[t]) = 1 /\ Tok(pc[u]) = 1
    BY DEF ListPoints, Tok
  <2> QED BY <2>1, TokenUnique DEF IInv
<1> QED BY InitIInv, NextIInv, <1>1, PTL DEF Spec

\* Where a barrier runs.
LEMMA BarrierRuns ==
    ASSUME IInv, NEW t \in Threads, NEW b \in Blocks, RunsOn(t, b), kind[b] \in Barriers
    PROVE  /\ pc[t] \in {"runlocked", "runslow", "rundrain"} /\ Tok(pc[t]) = 1
           /\ kind[b] = "barrier" => pc[t] = "rundrain"
<1>1. Local(t)
  BY DEF IInv, Locals
<1>2. pc[t] \in {"runlocked", "runslow", "rundrain"}
  BY <1>1 DEF RunsOn, RunPoints, Local, Barriers
<1>3. kind[b] = "barrier" => pc[t] = "rundrain"
  BY <1>1, <1>2 DEF RunsOn, RunPoints, Local
<1> QED BY <1>2, <1>3 DEF Tok, DrainPoints, FastPoints, SlowPoints

\* Nothing runs beside a block that runs on the thread t, if t has the list
\* and no reader can run.
LEMMA RunsAlone ==
    ASSUME IInv, NEW t \in Threads, NEW a \in Running, RunsOn(t, a), Tok(pc[t]) = 1,
           NoReaders \/ (Serial /\ kind[a] \in Barriers), NEW b \in Running
    PROVE  a = b
<1>1. PICK u \in Threads : RunsOn(u, b)
  BY DEF IInv, EachRunsOn, Running
<1>2. Tok(pc[u]) = 1
  <2>1. CASE Serial
    <3>1. kind[b] \in Barriers
      BY <2>1 DEF IInv, Kinds, Running
    <3> QED BY <1>1, <3>1, BarrierRuns DEF Running
  <2>2. CASE NoReaders
    BY <1>1, <2>2 DEF NoReaders, RunsOn, RunPoints, Readers, Tok, DrainPoints, FastPoints,
       SlowPoints
  <2> QED BY <2>1, <2>2
<1>3. u = t
  BY <1>2, TokenUnique DEF IInv
<1> QED BY <1>1, <1>3 DEF RunsOn, RunPoints

\* A block of dispatch_barrier_async_f, or of dispatch_async_f on a serial queue,
\* runs by itself.
BarrierAsyncAlone == \A a, b \in Running : kind[a] = "barrier" => a = b

\* Nothing runs beside such a block, on a queue of any width, whatever the calls
\* and however locks are transferred.
THEOREM BarrierAsyncAloneHolds == Spec => []BarrierAsyncAlone
<1>1. IInv => BarrierAsyncAlone
  <2> SUFFICES ASSUME IInv, NEW a \in Running, NEW b \in Running, kind[a] = "barrier"
               PROVE  a = b
    BY DEF BarrierAsyncAlone
  <2>1. PICK t \in Threads : RunsOn(t, a)
    BY DEF IInv, EachRunsOn, Running
  <2>2. a \in Blocks /\ kind[a] \in Barriers
    BY DEF Running, Barriers
  <2>3. pc[t] = "rundrain" /\ Tok(pc[t]) = 1
    BY <2>1, <2>2, BarrierRuns
  <2>4. ~Serial => NoReaders
    BY <2>3 DEF IInv, Alone, BarrierAt
  <2> QED BY <2>1, <2>2, <2>3, <2>4, RunsAlone
<1> QED BY InitIInv, NextIInv, <1>1, PTL DEF Spec

\* A barrier runs by itself, on a serial queue, and on one of any width if no
\* barrier sync is called: the slow path of that call transfers a lock that
\* does not keep readers out.
THEOREM BarrierExclusiveHolds ==
    ASSUME Serial \/ "bsync" \notin Calls
    PROVE  Spec => []BarrierExclusive
<1>1. IInv => BarrierExclusive
  <2>1. ASSUME IInv, NEW a \in Running, NEW b \in Running, kind[a] \in Barriers
        PROVE  a = b
    <3>1. PICK t \in Threads : RunsOn(t, a)
      BY <2>1 DEF IInv, EachRunsOn, Running
    <3>2. a \in Blocks
      BY DEF Running
    <3>3. Tok(pc[t]) = 1 /\ (kind[a] = "barrier" => pc[t] = "rundrain")
      BY <2>1, <3>1, <3>2, BarrierRuns
    <3>4. ~Serial => NoReaders
      BY <2>1, <3>2, <3>3 DEF IInv, Kinds, Alone, BarrierAt, Barriers
    <3> QED BY <2>1, <3>1, <3>3, <3>4, RunsAlone
  <2> QED BY <2>1 DEF BarrierExclusive
<1> QED BY InitIInv, NextIInv, <1>1, PTL DEF Spec

\* The asynchronous blocks that run are no more than the threads that run blocks
\* of the target.
LEMMA AsyncRuns ==
    ASSUME IInv, NEW A, A = {b \in Running : kind[b] = "async"}
    PROVE  IsFiniteSet(A) /\ Cardinality(A) \in Nat /\ Cardinality(A) <= Redirects
<1> DEFINE S == {t \in ThreadsAt(Threads, pc, AsyncPoints) : pc[t] = "runredirected" /\ blk[t] \in A}
           f == [t \in S |-> blk[t]]
<1>1. ASSUME NEW b \in A PROVE \E t \in S : f[t] = b
  <2>1. PICK t \in Threads : RunsOn(t, b)
    BY DEF IInv, EachRunsOn, Running
  <2>2. Local(t) /\ kind[b] = "async"
    BY DEF IInv, Locals
  <2>3. pc[t] = "runredirected" /\ blk[t] = b
    BY <2>1, <2>2 DEF RunsOn, RunPoints, Local, Barriers
  <2>4. t \in S
    BY <2>3 DEF ThreadsAt, AsyncPoints
  <2> QED BY <2>3, <2>4
<1>2. f \in Surjection(S, A)
  BY <1>1 DEF Surjection
<1>3. IsFiniteSet(ThreadsAt(Threads, pc, AsyncPoints))
  BY ThreadsFinite, CountIsNat
<1>4. IsFiniteSet(S) /\ Cardinality(S) <= Redirects
  BY <1>3, FS_Subset DEF Redirects, CountAt
<1> HIDE DEF S, f
<1>5. IsFiniteSet(A) /\ Cardinality(A) <= Cardinality(S)
  BY <1>2, <1>4, FS_Surjection
<1>6. Cardinality(A) \in Nat /\ Cardinality(S) \in Nat /\ Redirects \in Nat
  BY <1>4, <1>5, FS_CardinalityType, ThreadsFinite, CountIsNat DEF Redirects
<1> QED BY <1>4, <1>5, <1>6

\* No more asynchronous blocks are on the target or running than the width of
\* the queue allows, whoever counted them in, a call or the drain.
THEOREM WidthRespectedHolds == Spec => []WidthRespected
<1>1. IInv => WidthRespected
  <2> SUFFICES ASSUME IInv PROVE WidthRespected
    OBVIOUS
  <2> DEFINE A == {b \in Running : kind[b] = "async"}
             B == {b \in redirected \cup Running : kind[b] = "async"}
  <2>1. IsFiniteSet(A) /\ Cardinality(A) \in Nat /\ Cardinality(A) <= Redirects
    BY AsyncRuns
  <2>2. IsFiniteSet(redirected) /\ Cardinality(redirected) \in Nat
    BY SetsFinite DEF IInv
  <2>3. /\ IsFiniteSet(redirected \cup A)
        /\ Cardinality(redirected \cup A)
             = Cardinality(redirected) + Cardinality(A) - Cardinality(redirected \cap A)
    BY <2>1, <2>2, FS_Union
  <2>4. Cardinality(redirected \cap A) \in Nat
    BY <2>2, FS_Subset, FS_CardinalityType
  <2>5. B \subseteq redirected \cup A
    OBVIOUS
  <2>6. IsFiniteSet(B) /\ Cardinality(B) <= Cardinality(redirected \cup A)
    BY <2>3, <2>5, FS_Subset
  <2>7. Cardinality(B) \in Nat
    BY <2>6, FS_CardinalityType
  <2>8. Redirects \in Nat
    BY ThreadsFinite, CountIsNat DEF Redirects
  <2> DEFINE a == Cardinality(A)  b == Cardinality(B)  c == Cardinality(redirected)
             d == Cardinality(redirected \cap A)  e == Cardinality(redirected \cup A)
             r == Redirects
  <2>9. /\ a \in Nat /\ b \in Nat /\ c \in Nat /\ d \in Nat /\ r \in Nat
        /\ a <= r /\ e = c + a - d /\ b <= e /\ Shares = r + c
    BY <2>1, <2>2, <2>3, <2>4, <2>6, <2>7, <2>8 DEF Shares
  <2>10. 2 * Shares <= Width + 1 /\ Width \in Nat
    BY QueueAssumption DEF IInv, WithinWidth, QueueAssumption
  <2> HIDE DEF a, b, c, d, e, r
  <2>11. b <= Shares /\ Shares \in Nat
    BY <2>9
  <2>12. b <= (Width + 1) \div 2
    <3>1. ASSUME NEW n \in Nat, NEW s \in Nat, NEW w \in Nat, n <= s, 2 * s <= w + 1
          PROVE  n <= (w + 1) \div 2
      BY <3>1
    <3> QED BY <2>9, <2>10, <2>11, <3>1
  <2> QED BY <2>12 DEF WidthRespected, b
<1> QED BY InitIInv, NextIInv, <1>1, PTL DEF Spec

-----------------------------------------------------------------------------
(* Serial queues.  Every block is a barrier, and only some of the places   *)
(* of the code are reached.                                                *)
SerialPoints == Points \ {"enter", "overwide", "backout", "redirect", "runreader",
                          "redirectadd", "redirectpush", "runredirected", "checkrunning"}
OnlyBarriers ==
    /\ redirected = {}
    /\ \A b \in signalled : kind[b] = "bsync"
    /\ \A t \in Threads :
           /\ pc[t] \in SerialPoints /\ after[t] # "push"
           /\ pc[t] \in {"look", "looksuspended"} => kind[blk[t]] = "bsync"

\* The types of the variables that the rest of the proofs needs no more of.
MoreTypes == /\ tail \in Items /\ prev \in [Threads -> Items] /\ refs \in Int
             /\ holds \subseteq Clients /\ suspended \in Nat /\ suspends \in Nat
             /\ suspended <= suspends /\ suspends <= MaxSuspends
             /\ owner \in [Blocks -> Clients \cup {None}]
             /\ ahead \in [Blocks -> SUBSET Blocks]

\* The counters, exactly.  A transferred lock is counted in do_suspend_cnt
\* from its transfer until it is given up;
Xfer(p, a, s) ==
    IF \/ p \in {"poprunning", "invokesignal", "xferrunning", "xfersignal",
                 "runslow", "slowrunning", "slowsuspend"}
       \/ p \in TakePoints /\ a = "xfersignal"
       \/ p \in {"restore", "finish"} /\ s # None
    THEN 1 ELSE 0
\* who has a reference to the queue gives it back after the invocation, after
\* the wakeup it was taken for, or at once.
Owe(p, a) ==
    IF \/ p \in InvokePoints \cup {"verifyidle", "release"}
       \/ p \in WakePoints /\ a = "release"
    THEN 1 ELSE 0
XferOf == [t \in Threads |-> Xfer(pc[t], after[t], sema[t])]
OweOf == [t \in Threads |-> Owe(pc[t], after[t])]
Held == IF holds = {} /\ Clients # {} THEN 0 ELSE 1

RunningIs == running = Number(OddOf) + 2 * Number(TwoOf) + 2 * Cardinality(signalled)
SuspendIs == suspend = 2 * (suspended + Number(XferOf) + Cardinality(signalled)) + queued + Inside
RefsAre == refs + 1 = Held + suspended + queued + Number(OweOf)
Exact == RunningIs /\ SuspendIs /\ RefsAre

\* Items of a queue that its user has not suspended are seen by somebody: the
\* queue is on its target, or a thread has it, has the right to the list, or
\* is about to wake the queue.
SeePoints == InvokePoints \cup DrainPoints \cup FastPoints \cup SlowPoints \cup TakePoints
                 \cup WakePoints \cup {"sethead", "verifyidle"}
Covered == tail # None /\ suspended = 0 =>
               queued > 0 \/ signalled # {} \/ \E t \in Threads : pc[t] \in SeePoints

-----------------------------------------------------------------------------
(* The list of a serial queue.  q names the n items that were pushed so    *)
(* far in their order, and lo is the first one that has not been popped.   *)

\* The link from one item to the next is made, or about to be.
Follows(q, i) ==
    \/ next[q[i]] = q[i + 1]
    \/ next[q[i]] = None
       /\ \E t \in Threads : pc[t] = "link" /\ prev[t] = q[i] /\ blk[t] = q[i + 1]
Body(q, n, k) == /\ k <= n /\ tail = q[n] /\ next[q[n]] = None
                 /\ \A i \in k .. n - 1 : Follows(q, i)

\* The items from k on are reached from the head, which is published or about
\* to be, or by a thread that has taken item k.
NoFirst == \A t \in Threads : pc[t] # "sethead"
First(q, k) == \E t \in Threads : /\ pc[t] = "sethead" /\ blk[t] = q[k]
                                  /\ \A u \in Threads : pc[u] = "sethead" => u = t
Listed(q, n, k) ==
    \/ k = n + 1 /\ tail = None /\ head = None /\ NoFirst
    \/ Body(q, n, k) /\ head = q[k] /\ NoFirst
    \/ Body(q, n, k) /\ head = None /\ First(q, k)
Taken(q, n, k) == Body(q, n, k) /\ head = None /\ NoFirst

\* What the thread that has the right to the list has taken from it.
FrontPoints == {"next", "cleartail", "spinnext"}
CheckPoints == {"checksuspended", "checkwidth", "pop", "undo", "undospin"}
RanPoints == {"rundrain", "poprunning"}
TailPoints == {"taketail", "takelink"}
HeldPoints == FrontPoints \cup CheckPoints \cup RanPoints \cup TailPoints \cup {"restore"}
Unlinked(q, i) == next[q[i]] = None /\ \A u \in Threads : pc[u] = "link" => prev[u] # q[i]
Has(q, n, lo, t) ==
    /\ pc[t] \in FrontPoints => /\ lo <= n /\ dc[t] = q[lo] /\ Taken(q, n, lo)
                                /\ pc[t] = "spinnext" => lo < n
    /\ pc[t] \in CheckPoints =>
           /\ lo <= n /\ dc[t] = q[lo]
           /\ \/ nextdc[t] = None /\ Unlinked(q, lo) /\ Listed(q, n, lo + 1)
              \/ /\ lo < n /\ nextdc[t] = q[lo + 1] /\ next[q[lo]] = q[lo + 1]
                 /\ Taken(q, n, lo)
           /\ pc[t] = "undospin" => nextdc[t] = None /\ lo < n
    /\ pc[t] \in RanPoints => /\ lo > 1 /\ dc[t] = q[lo - 1]
                              /\ \/ nextdc[t] = None /\ Listed(q, n, lo)
                                 \/ lo <= n /\ nextdc[t] = q[lo] /\ Taken(q, n, lo)
    /\ sema[t] # None => lo > 1 /\ sema[t] = q[lo - 1]
    /\ pc[t] \in TailPoints => /\ sema[t] # None /\ Taken(q, n, lo - 1)
                               /\ pc[t] = "takelink" => lo <= n
    /\ pc[t] = "restore" => /\ lo <= n /\ dc[t] = q[lo] /\ Body(q, n, lo) /\ NoFirst
                            /\ head = None \/ (lo < n /\ head = q[lo + 1])
Position(q, n, lo) ==
    /\ \A t \in Threads : Has(q, n, lo, t)
    /\ (\A t \in Threads : pc[t] \notin HeldPoints) => Listed(q, n, lo)

\* A thread that is to link its item does so to the one before, which has not
\* been popped, or will not be before that.
Links(q, n, lo) ==
    \A t \in Threads : pc[t] = "link" =>
        \E i \in 1 .. n - 1 :
            /\ prev[t] = q[i] /\ blk[t] = q[i + 1] /\ next[q[i]] = None
            /\ i >= lo \/ (i = lo - 1 /\ \E u \in Threads : pc[u] \in TailPoints)

\* An item that was popped is done, or some thread has it.
KeptBy(t, b) == \/ pc[t] = "runslow" /\ blk[t] = b
                \/ pc[t] \in RanPoints /\ dc[t] = b
                \/ sema[t] = b
Popped(b) == status[b] = "done" \/ b \in signalled \/ \E t \in Threads : KeptBy(t, b)
States(q, n, lo) ==
    /\ \A i \in 1 .. n : status[q[i]] \notin {"new", "called"}
    /\ \A i \in lo .. n : status[q[i]] = "queued" /\ q[i] \notin signalled
    /\ \A i \in 1 .. lo - 1 : Popped(q[i])
    /\ \A b \in Blocks : status[b] = "queued" => \E i \in 1 .. n : q[i] = b

\* What was submitted before an item, and not done then, is before it on the
\* list; and a client that found the list empty finds nothing of its own.
Earlier(a, q, j) == status[a] = "done" \/ \E i \in 1 .. j : q[i] = a
Found(q, n, lo, a) == \/ Earlier(a, q, lo - 1)
                      \/ lo <= n /\ a = q[lo] /\ \E u \in Threads : pc[u] \in CheckPoints
Order(q, n, lo) ==
    /\ \A j \in 1 .. n : \A a \in ahead[q[j]] : Earlier(a, q, j - 1)
    /\ \A t \in Threads : pc[t] \in {"looksuspended", "lock"}
                              => \A a \in ahead[blk[t]] : Found(q, n, lo, a)
    /\ \A t \in Threads : pc[t] \notin {"undo", "undospin"}
    /\ \A b \in Blocks : status[b] = "running" => \A a \in ahead[b] : status[a] = "done"

Numbered(q, n, lo) == /\ n \in Nat /\ q \in [1 .. n -> Blocks] /\ lo \in 1 .. n + 1
                      /\ \A i, j \in 1 .. n : q[i] = q[j] => i = j
Line(q, n, lo) == /\ Numbered(q, n, lo) /\ Position(q, n, lo) /\ Links(q, n, lo)
                  /\ States(q, n, lo) /\ (MaxSuspends = 0 => Order(q, n, lo))
InLine == \E n \in Nat : \E q \in [1 .. n -> Blocks] : \E lo \in 1 .. n + 1 : Line(q, n, lo)

-----------------------------------------------------------------------------
(* What a thread has in its hands, and what its client may give up.        *)

\* The block of a call is its client's own, and has come as far as the call.
PrePoints == {"look", "looksuspended", "lock", "push"}
HandPoints == PrePoints \cup {"link", "sethead", "runlocked", "runslow", "wait"}
Hand(t) ==
    /\ pc[t] \in HandPoints => blk[t] # None
    /\ blk[t] # None =>
           /\ owner[blk[t]] = t
           /\ \/ pc[t] \in HandPoints \cup {"release"}
              \/ pc[t] \in WakePoints /\ after[t] = "release"
    /\ pc[t] \in PrePoints => status[blk[t]] = "called"
    /\ pc[t] \in {"runlocked", "runslow"} => status[blk[t]] = "running"
    /\ pc[t] \in {"link", "sethead", "wait"} => status[blk[t]] = "queued"
    /\ pc[t] \in WakePoints \cup {"release"} /\ blk[t] # None /\ kind[blk[t]] = "bsync"
           => status[blk[t]] = "queued"
    /\ pc[t] \notin CheckPoints \cup RanPoints \cup {"restore", "finish"} => nextdc[t] = None
    /\ pc[t] = "rundrain" => kind[dc[t]] = "barrier" /\ status[dc[t]] = "running"
    /\ pc[t] = "poprunning" => /\ kind[dc[t]] = "bsync" /\ status[dc[t]] = "queued"
                               /\ dc[t] \notin signalled
    /\ sema[t] # None => /\ kind[sema[t]] = "bsync" /\ status[sema[t]] = "queued"
                         /\ sema[t] \notin signalled
    /\ t \in Workers => /\ blk[t] = None
                        /\ pc[t] # "idle" => Owe(pc[t], after[t]) = 1
    /\ pc[t] \in InvokePoints \cup {"verifyidle"} => t \in Workers
Owned == /\ \A t \in Threads : Hand(t)
         /\ \A b \in signalled : status[b] = "queued"
         /\ \A b \in Blocks : status[b] = "new" => owner[b] = None
         /\ \A b \in Blocks : \A a \in ahead[b] :
                a # b /\ owner[a] = owner[b] /\ status[a] # "new"
         /\ \A b \in Blocks : status[b] = "called" =>
                \E t \in Threads : blk[t] = b /\ pc[t] \in PrePoints
         /\ \A b \in Blocks : status[b] = "queued" /\ kind[b] = "bsync" =>
                \E t \in Threads : blk[t] = b

\* A client that is in the queue without a reference of its own to give back has
\* one that it will not give up: what it submitted before and is not done is ahead of the
\* block of this call.
Latest(t, a) ==
    /\ owner[a] = t
    /\ blk[t] = None => status[a] = "done"
    /\ blk[t] # None => a = blk[t]
    /\ \A b \in Blocks : owner[b] = t /\ b # a /\ status[b] # "done" => b \in ahead[a]
Visits(t) == \/ pc[t] # "idle" /\ Owe(pc[t], after[t]) = 0
             \/ blk[t] # None /\ kind[blk[t]] = "bsync"
Visitors == \A t \in Threads : Visits(t) => t \in holds /\ \E a \in Blocks : Latest(t, a)

\* The invariant of serial queues.
SInv == /\ IInv /\ OnlyBarriers /\ MoreTypes /\ Exact /\ Covered
        /\ InLine /\ Owned /\ Visitors

-----------------------------------------------------------------------------
(* What the counters are after a step.                                      *)

\* The other threads stay where they are, with what they have.
Rest(t) == \A u \in Threads \ {t} :
               /\ pc'[u] = pc[u] /\ after'[u] = after[u] /\ blk'[u] = blk[u]
               /\ dc'[u] = dc[u] /\ nextdc'[u] = nextdc[u] /\ sema'[u] = sema[u]
               /\ prev'[u] = prev[u]

\* The numbers of the threads with a transferred lock, and of those that owe.
LEMMA MoreNumbersMove ==
    ASSUME NEW t \in Threads, Rest(t)
    PROVE  /\ Number(XferOf)' = Number(XferOf) - Xfer(pc[t], after[t], sema[t])
                                  + Xfer(pc'[t], after'[t], sema'[t])
           /\ Number(OweOf)' = Number(OweOf) - Owe(pc[t], after[t]) + Owe(pc'[t], after'[t])
           /\ Number(XferOf) \in Nat /\ Number(XferOf)' \in Nat
           /\ Number(OweOf) \in Nat /\ Number(OweOf)' \in Nat
<1>1. \A u \in Threads : /\ XferOf[u] = Xfer(pc[u], after[u], sema[u])
                         /\ XferOf'[u] = Xfer(pc'[u], after'[u], sema'[u])
                         /\ XferOf[u] \in {0, 1} /\ XferOf'[u] \in {0, 1}
  BY DEF XferOf, Xfer
<1>2. \A u \in Threads : /\ OweOf[u] = Owe(pc[u], after[u]) /\ OweOf'[u] = Owe(pc'[u], after'[u])
                         /\ OweOf[u] \in {0, 1} /\ OweOf'[u] \in {0, 1}
  BY DEF OweOf, Owe
<1>3. \A u \in Threads \ {t} : XferOf'[u] = XferOf[u] /\ OweOf'[u] = OweOf[u]
  BY <1>1, <1>2 DEF Rest
<1>4. Number(XferOf)' = Number(XferOf') /\ Number(OweOf)' = Number(OweOf')
  BY DEF Number
<1> QED BY <1>1, <1>2, <1>3, <1>4, NumberMove

\* Whoever is somewhere is counted, and who counts is somewhere.
LEMMA MoreCounted ==
    /\ Number(XferOf) \in Nat /\ Number(OweOf) \in Nat
    /\ \A t \in Threads : /\ Number(OweOf) >= Owe(pc[t], after[t])
                          /\ Number(XferOf) >= Xfer(pc[t], after[t], sema[t])
    /\ Number(XferOf) > 0 => \E t \in Threads : Xfer(pc[t], after[t], sema[t]) = 1
    /\ Number(OddOf) > 0 => \E t \in Threads : Odd(pc[t], after[t]) = 1
    /\ Number(TwoOf) > 0 => \E t \in Threads : Two(pc[t], after[t], sema[t]) = 1
    /\ Inside > 0 => \E t \in Threads : pc[t] \in InvokePoints
<1>1. ASSUME NEW f
      PROVE  /\ Number(f) \in Nat /\ \A t \in Threads : f[t] = 1 => Number(f) > 0
             /\ Number(f) > 0 => \E t \in Threads : f[t] = 1
  <2>1. Number(f) \in Nat /\ (\A t \in Threads : f[t] = 1 => Number(f) > 0)
    BY ThreadsFinite, CountIsNat DEF Number
  <2>2. Number(f) = 0 <=> ThreadsAt(Threads, f, {1}) = {}
    BY ThreadsFinite, CountIsNat DEF Number
  <2> QED BY <2>1, <2>2 DEF ThreadsAt
<1>2. Inside > 0 => \E t \in Threads : pc[t] \in InvokePoints
  <2>1. Inside = 0 <=> ThreadsAt(Threads, pc, InvokePoints) = {}
    BY ThreadsFinite, CountIsNat DEF Inside
  <2> QED BY <2>1 DEF ThreadsAt
<1>3. \A t \in Threads : /\ XferOf[t] = Xfer(pc[t], after[t], sema[t]) /\ XferOf[t] \in {0, 1}
                         /\ OweOf[t] = Owe(pc[t], after[t]) /\ OweOf[t] \in {0, 1}
                         /\ OddOf[t] = Odd(pc[t], after[t])
                         /\ TwoOf[t] = Two(pc[t], after[t], sema[t])
  BY DEF XferOf, Xfer, OweOf, Owe, OddOf, TwoOf
<1> QED BY <1>1, <1>2, <1>3

\* The weights of a thread are 0 or 1.
LEMMA Weights ==
    \A p, a, s : Odd(p, a) \in {0, 1} /\ Two(p, a, s) \in {0, 1} /\ Xfer(p, a, s) \in {0, 1}
                   /\ Owe(p, a) \in {0, 1} /\ Hit(p, InvokePoints) \in {0, 1}
BY DEF Odd, Two, Xfer, Owe, Hit

\* The counters stay exact when each changes as the weights of the thread do,
\* and s blocks are signalled.
Shift(t, s) ==
    /\ running' = running + (Odd(pc'[t], after'[t]) - Odd(pc[t], after[t]))
                    + 2 * (Two(pc'[t], after'[t], sema'[t]) - Two(pc[t], after[t], sema[t]))
                    + 2 * s
    /\ suspend' = suspend + 2 * (suspended' - suspended)
                    + 2 * (Xfer(pc'[t], after'[t], sema'[t]) - Xfer(pc[t], after[t], sema[t]))
                    + 2 * s + (queued' - queued)
                    + (Hit(pc'[t], InvokePoints) - Hit(pc[t], InvokePoints))
    /\ refs' = refs + (Held' - Held) + (suspended' - suspended) + (queued' - queued)
                    + (Owe(pc'[t], after'[t]) - Owe(pc[t], after[t]))

\* Exact before and shifted like this, they are exact after.
LEMMA ExactStep ==
    ASSUME SInv, IInv', suspended' \in Nat, NEW t \in Threads, Rest(t), NEW s \in {-1, 0, 1},
           Cardinality(signalled)' = Cardinality(signalled) + s, Shift(t, s)
    PROVE  Exact'
<1>1. Frame(t)
  BY DEF Frame, Rest, IInv, Types
<1> DEFINE o == Number(OddOf)  w == Number(TwoOf)  x == Number(XferOf)  e == Number(OweOf)
           c == Cardinality(signalled)
           o1 == Odd(pc[t], after[t])  o2 == Odd(pc'[t], after'[t])
           w1 == Two(pc[t], after[t], sema[t])  w2 == Two(pc'[t], after'[t], sema'[t])
           x1 == Xfer(pc[t], after[t], sema[t])  x2 == Xfer(pc'[t], after'[t], sema'[t])
           e1 == Owe(pc[t], after[t])  e2 == Owe(pc'[t], after'[t])
           h1 == Hit(pc[t], InvokePoints)  h2 == Hit(pc'[t], InvokePoints)
<1>2. /\ o \in Nat /\ w \in Nat /\ x \in Nat /\ e \in Nat /\ c \in Nat /\ Inside \in Nat
      /\ o' = o - o1 + o2 /\ w' = w - w1 + w2 /\ x' = x - x1 + x2 /\ e' = e - e1 + e2
      /\ Inside' = Inside - h1 + h2
  <2>1. c \in Nat
    BY SetsFinite DEF SInv, IInv
  <2> QED BY <1>1, <2>1, NumbersMove, MoreNumbersMove DEF SInv, IInv
<1>3. /\ o1 \in Int /\ o2 \in Int /\ w1 \in Int /\ w2 \in Int /\ x1 \in Int /\ x2 \in Int
      /\ e1 \in Int /\ e2 \in Int /\ h1 \in Int /\ h2 \in Int
  BY Weights
<1>4. /\ running \in Int /\ suspend \in Int /\ refs \in Int /\ queued \in Nat /\ queued' \in Nat
      /\ suspended \in Nat /\ Held \in Int /\ Held' \in Int
  BY DEF SInv, MoreTypes, IInv, Types, Held
<1>5. /\ running = o + 2 * w + 2 * c
      /\ suspend = 2 * (suspended + x + c) + queued + Inside
      /\ refs + 1 = Held + suspended + queued + e
  BY DEF SInv, Exact, RunningIs, SuspendIs, RefsAre
<1>6. /\ running' = running + (o2 - o1) + 2 * (w2 - w1) + 2 * s
      /\ suspend' = suspend + 2 * (suspended' - suspended) + 2 * (x2 - x1) + 2 * s
                      + (queued' - queued) + (h2 - h1)
      /\ refs' = refs + (Held' - Held) + (suspended' - suspended) + (queued' - queued) + (e2 - e1)
  BY DEF Shift
<1>7. c' = c + s
  OBVIOUS
<1> HIDE DEF o, w, x, e, c, o1, o2, w1, w2, x1, x2, e1, e2, h1, h2
<1>8. running' = o' + 2 * w' + 2 * c'
  BY <1>2, <1>3, <1>4, <1>5, <1>6, <1>7
<1>9. suspend' = 2 * (suspended' + x' + c') + queued' + Inside'
  BY <1>2, <1>3, <1>4, <1>5, <1>6, <1>7
<1>10. refs' + 1 = Held' + suspended' + queued' + e'
  BY <1>2, <1>3, <1>4, <1>5, <1>6, <1>7
<1> QED BY <1>8, <1>9, <1>10 DEF Exact, RunningIs, SuspendIs, RefsAre, o, w, x, e, c

-----------------------------------------------------------------------------
(* Who sees the items.                                                      *)
Seen == queued > 0 \/ signalled # {} \/ \E t \in Threads : pc[t] \in SeePoints

\* Whoever runs, or holds do_suspend_cnt above what the user put there, does.
LEMMA CountedSees ==
    ASSUME IInv, OnlyBarriers, MoreTypes, Exact, running # 0 \/ (suspended = 0 /\ suspend # 0)
    PROVE  Seen
<1>1. /\ Cardinality(signalled) \in Nat /\ (Cardinality(signalled) > 0 => signalled # {})
  BY SetsFinite, FS_EmptySet DEF IInv
<1>2. /\ \A p, a, s : Xfer(p, a, s) = 1 => p \in SeePoints
      /\ \A p, a : Odd(p, a) = 1 => p \in SeePoints
      /\ \A p \in SerialPoints : \A a, s : Two(p, a, s) = 1 => p \in SeePoints
      /\ \A p \in InvokePoints : p \in SeePoints
  BY DEF Xfer, Odd, Two, SeePoints, SerialPoints, SharePoints, SlowPoints, TakePoints,
         DrainPoints, FastPoints, InvokePoints
<1>3. \/ \E t \in Threads : Xfer(pc[t], after[t], sema[t]) = 1
      \/ \E t \in Threads : Odd(pc[t], after[t]) = 1
      \/ \E t \in Threads : Two(pc[t], after[t], sema[t]) = 1
      \/ \E t \in Threads : pc[t] \in InvokePoints
      \/ queued > 0 \/ signalled # {}
  <2> DEFINE o == Number(OddOf)  w == Number(TwoOf)  x == Number(XferOf)
             c == Cardinality(signalled)
  <2>1. o \in Nat /\ w \in Nat /\ x \in Nat /\ c \in Nat /\ Inside \in Nat /\ queued \in Nat
    BY <1>1, Counted, MoreCounted DEF IInv, Types
  <2>2. running = o + 2 * w + 2 * c /\ suspend = 2 * (suspended + x + c) + queued + Inside
    BY DEF Exact, RunningIs, SuspendIs
  <2>3. o > 0 \/ w > 0 \/ x > 0 \/ c > 0 \/ Inside > 0 \/ queued > 0
    <3> HIDE DEF o, w, x, c
    <3> QED BY <2>1, <2>2
  <2> QED BY <2>3, <1>1, MoreCounted
<1> QED BY <1>2, <1>3 DEF Seen, OnlyBarriers

\* The same after a step.
LEMMA CountedSeesThen ==
    (IInv /\ OnlyBarriers /\ MoreTypes /\ Exact /\ (running # 0 \/ (suspended = 0 /\ suspend # 0))
        => Seen)'
<1>1. IInv /\ OnlyBarriers /\ MoreTypes /\ Exact /\ (running # 0 \/ (suspended = 0 /\ suspend # 0))
          => Seen
  BY CountedSees
<1> QED BY <1>1, PTL

\* A step of a thread that sees the items afterwards,
LEMMA CoveredBy ==
    ASSUME NEW t \in Threads, pc'[t] \in SeePoints
    PROVE  Covered'
BY DEF Covered

\* or did not see them before, and neither brings the first one nor ends a suspension.
LEMMA CoveredStays ==
    ASSUME Covered, NEW t \in Threads, Rest(t), pc[t] \notin SeePoints,
           queued' = queued, signalled' = signalled, suspended' = 0 => suspended = 0,
           tail' # None => tail # None
    PROVE  Covered'
BY DEF Covered, Rest

-----------------------------------------------------------------------------
(* Steps that leave the list alone.                                         *)

\* Nobody starts or stops linking an item or publishing the head.
SameLinks == /\ head' = head /\ tail' = tail /\ next' = next
             /\ \A u \in Threads : /\ pc'[u] = "link" <=> pc[u] = "link"
                                   /\ pc'[u] = "sethead" <=> pc[u] = "sethead"
                                   /\ pc[u] \in {"link", "sethead"}
                                          => blk'[u] = blk[u] /\ prev'[u] = prev[u]

\* Then every part of the list stays as it is.
LEMMA PartsStay ==
    ASSUME SameLinks, NEW q, NEW n, NEW k
    PROVE  /\ Body(q, n, k)' = Body(q, n, k) /\ NoFirst' = NoFirst
           /\ Listed(q, n, k)' = Listed(q, n, k) /\ Taken(q, n, k)' = Taken(q, n, k)
           /\ Unlinked(q, k)' = Unlinked(q, k)
<1>1. \A i : Follows(q, i)' = Follows(q, i)
  BY DEF Follows, SameLinks
<1>2. Body(q, n, k)' = Body(q, n, k)
  BY <1>1 DEF Body, SameLinks
<1>3. NoFirst' = NoFirst /\ First(q, k)' = First(q, k)
  BY DEF NoFirst, First, SameLinks
<1>4. Unlinked(q, k)' = Unlinked(q, k)
  BY DEF Unlinked, SameLinks
<1> QED BY <1>2, <1>3, <1>4 DEF Listed, Taken, SameLinks

\* A step of t leaves the list alone, and t has nothing of it;
Marked == HeldPoints \cup {"link", "sethead", "runslow"}
LeavesList(t) ==
    /\ head' = head /\ tail' = tail /\ next' = next
    /\ status' = status /\ signalled' = signalled /\ ahead' = ahead
    /\ dc'[t] = dc[t] /\ nextdc'[t] = nextdc[t] /\ sema'[t] = sema[t]
    /\ Rest(t)
\* it has not found the list empty, or has done so before.
Unordered(t) == pc'[t] \in {"looksuspended", "lock"}
                    => pc[t] \in {"looksuspended", "lock"} /\ blk'[t] = blk[t]

\* Then what was popped is still done or in the hands of a thread,
LEMMA PoppedStays ==
    ASSUME NEW t \in Threads, LeavesList(t), pc[t] # "runslow",
           pc[t] \in RanPoints <=> pc'[t] \in RanPoints, NEW b, Popped(b)
    PROVE  Popped(b)'
<1>1. ASSUME NEW u \in Threads, KeptBy(u, b) PROVE KeptBy(u, b)'
  BY <1>1 DEF KeptBy, LeavesList, Rest
<1> QED BY <1>1 DEF Popped, LeavesList

\* the items keep their states,
LEMMA StatesStay ==
    ASSUME NEW t \in Threads, LeavesList(t), pc[t] # "runslow",
           pc[t] \in RanPoints <=> pc'[t] \in RanPoints,
           NEW q, NEW n, NEW lo, States(q, n, lo)
    PROVE  States(q, n, lo)'
<1>1. \A b : Popped(b) => Popped(b)'
  BY PoppedStays
<1> QED BY <1>1 DEF States, LeavesList

\* and their order.
LEMMA OrderStays ==
    ASSUME NEW t \in Threads, LeavesList(t), pc[t] \in CheckPoints => pc'[t] \in CheckPoints,
           pc'[t] \notin {"undo", "undospin"}, NEW q, NEW n, NEW lo, Order(q, n, lo),
           Unordered(t) \/ (blk'[t] = blk[t] /\ \A a \in ahead[blk[t]] : Found(q, n, lo, a))
    PROVE  Order(q, n, lo)'
<1>1. \A a, j : Earlier(a, q, j)' = Earlier(a, q, j)
  BY DEF Earlier, LeavesList
<1>2. \A a : Found(q, n, lo, a) => Found(q, n, lo, a)'
  <2>1. (\E u \in Threads : pc[u] \in CheckPoints) => \E u \in Threads : pc'[u] \in CheckPoints
    BY DEF LeavesList, Rest
  <2> QED BY <1>1, <2>1 DEF Found
<1>3. ASSUME NEW u \in Threads, pc'[u] \in {"looksuspended", "lock"}, NEW a \in ahead[blk'[u]]
      PROVE  Found(q, n, lo, a)
  BY <1>3 DEF LeavesList, Rest, Unordered, Order
<1>4. \A u \in Threads : pc'[u] \notin {"undo", "undospin"}
  BY DEF LeavesList, Rest, Order
<1> QED BY <1>1, <1>2, <1>3, <1>4 DEF Order, LeavesList

\* A line after the step is enough.
LEMMA InLineThen ==
    ASSUME NEW q, NEW n, NEW lo, Line(q, n, lo)'
    PROVE  InLine'
BY DEF InLine, Line, Numbered

\* Such a step keeps the line, as the thread has no part in it,
LEMMA LineStays ==
    ASSUME NEW t \in Threads, LeavesList(t), pc[t] \notin Marked, pc'[t] \notin Marked,
           NEW q, NEW n, NEW lo, Line(q, n, lo),
           MaxSuspends # 0 \/ Unordered(t)
              \/ (blk'[t] = blk[t] /\ \A a \in ahead[blk[t]] : Found(q, n, lo, a))
    PROVE  Line(q, n, lo)'
<1>1. SameLinks
  BY DEF SameLinks, LeavesList, Rest, Marked
<1>2. ASSUME NEW u \in Threads PROVE Has(q, n, lo, u)'
  <2>1. CASE u = t
    BY <2>1 DEF Line, Position, Has, Marked, HeldPoints, LeavesList
  <2>2. CASE u # t
    <3>1. /\ pc'[u] = pc[u] /\ dc'[u] = dc[u] /\ nextdc'[u] = nextdc[u] /\ sema'[u] = sema[u]
          /\ head' = head /\ next' = next
      BY <2>2 DEF LeavesList, Rest
    <3>2. Has(q, n, lo, u)
      BY DEF Line, Position
    <3> QED BY <1>1, <3>1, <3>2, PartsStay DEF Has
  <2> QED BY <2>1, <2>2
<1>3. ASSUME \A u \in Threads : pc'[u] \notin HeldPoints PROVE Listed(q, n, lo)'
  <2>1. \A u \in Threads : pc[u] \notin HeldPoints
    BY <1>3 DEF LeavesList, Rest, Marked
  <2> QED BY <1>1, <2>1, PartsStay DEF Line, Position
<1>4. Links(q, n, lo)'
  BY DEF Line, Links, LeavesList, Rest, Marked, HeldPoints, TailPoints
<1>5. States(q, n, lo)' /\ (MaxSuspends = 0 => Order(q, n, lo)')
  BY StatesStay, OrderStays DEF Line, Marked, HeldPoints, CheckPoints
<1> QED BY <1>2, <1>3, <1>4, <1>5 DEF Line, Position, Numbered

\* or looks for a reason to stop the drain, or finds one.
LEMMA LineChecked ==
    ASSUME NEW t \in Threads, LeavesList(t), pc[t] \in {"checksuspended", "checkwidth"},
           pc'[t] \in {"checkwidth", "pop", "undo"}, MaxSuspends = 0 => pc'[t] # "undo",
           NEW q, NEW n, NEW lo, Line(q, n, lo)
    PROVE  Line(q, n, lo)'
<1>1. SameLinks
  BY DEF SameLinks, LeavesList, Rest
<1>2. ASSUME NEW u \in Threads PROVE Has(q, n, lo, u)'
  <2>1. /\ dc'[u] = dc[u] /\ nextdc'[u] = nextdc[u] /\ sema'[u] = sema[u]
        /\ head' = head /\ next' = next
    BY DEF LeavesList, Rest
  <2>2. Has(q, n, lo, u)
    BY DEF Line, Position
  <2>3. CASE u = t
    BY <1>1, <2>1, <2>2, <2>3, PartsStay
       DEF Has, FrontPoints, CheckPoints, RanPoints, TailPoints
  <2>4. CASE u # t
    <3>1. pc'[u] = pc[u]
      BY <2>4 DEF LeavesList, Rest
    <3> QED BY <1>1, <2>1, <2>2, <3>1, PartsStay DEF Has
  <2> QED BY <2>3, <2>4
<1>3. pc'[t] \in HeldPoints
  BY DEF HeldPoints, CheckPoints
<1>4. Links(q, n, lo)'
  BY DEF Line, Links, LeavesList, Rest, TailPoints
<1>5. States(q, n, lo)' /\ (MaxSuspends = 0 => Order(q, n, lo)')
  BY StatesStay, OrderStays DEF Line, RanPoints, CheckPoints, Unordered
<1> QED BY <1>2, <1>3, <1>4, <1>5 DEF Line, Position, Numbered

-----------------------------------------------------------------------------
(* Steps of control: they move a thread and change counters, and no more.   *)
Control(t) ==
    /\ head' = head /\ tail' = tail /\ next' = next /\ prev' = prev
    /\ blk' = blk /\ dc' = dc /\ nextdc' = nextdc /\ sema' = sema
    /\ redirected' = redirected /\ signalled' = signalled
    /\ status' = status /\ kind' = kind /\ owner' = owner /\ ahead' = ahead
    /\ holds' = holds /\ suspended' = suspended /\ suspends' = suspends
    /\ \A u \in Threads \ {t} : pc'[u] = pc[u] /\ after'[u] = after[u]

\* The others keep what they have in their hands.
LEMMA OthersHand ==
    ASSUME NEW t \in Threads, Rest(t), status' = status, kind' = kind, owner' = owner,
           signalled' = signalled, NEW u \in Threads \ {t}, Hand(u)
    PROVE  Hand(u)'
BY DEF Hand, Rest

\* What such a step has to show: that the places are those of a serial queue, what
\* the thread has there, and that it does not become a visitor.
Places(t) == /\ pc'[t] \in SerialPoints /\ after'[t] # "push"
             /\ pc'[t] \in {"look", "looksuspended"} => kind[blk[t]] = "bsync"
             /\ pc[t] \in PrePoints => pc'[t] \in PrePoints
             /\ Hand(t)' /\ (Visits(t)' => Visits(t))

\* Then the rest of the invariant holds,
LEMMA ControlKeepsRest ==
    ASSUME SInv, NEW t \in Threads, Control(t), Places(t), refs' \in Int
    PROVE  OnlyBarriers' /\ MoreTypes' /\ Owned' /\ Visitors'
<1>1. OnlyBarriers' /\ MoreTypes'
  BY DEF SInv, OnlyBarriers, MoreTypes, Control, Places
<1>2. Rest(t)
  BY DEF Rest, Control
<1>3. Owned'
  <2>1. \A u \in Threads : Hand(u)'
    BY <1>2, OthersHand DEF SInv, Owned, Control, Places
  <2>2. ASSUME NEW b \in Blocks, status[b] = "called"
        PROVE  \E u \in Threads : blk'[u] = b /\ pc'[u] \in PrePoints
    BY <2>2 DEF SInv, Owned, Control, Places
  <2> QED BY <2>1, <2>2 DEF SInv, Owned, Control
<1>4. Visitors'
  <2>1. ASSUME NEW u \in Threads, Visits(u)' PROVE Visits(u)
    BY <2>1 DEF Visits, Places, Control
  <2>2. \A u \in Threads, a \in Blocks : Latest(u, a)' = Latest(u, a)
    BY DEF Latest, Control
  <2> QED BY <2>1, <2>2 DEF SInv, Visitors, Control
<1> QED BY <1>1, <1>3, <1>4

\* the list is left alone,
LEMMA ControlLeaves ==
    ASSUME NEW t \in Threads, Control(t)
    PROVE  LeavesList(t) /\ Rest(t)
BY DEF Control, LeavesList, Rest

\* The items are seen after a step that leaves the list alone: by the thread, by
\* whoever the counters stand for, or by whom they were seen before.
Watched(t) == \/ pc'[t] \in SeePoints \/ queued' > 0 \/ tail' = None
              \/ running' # 0 \/ suspend' # 0
              \/ pc[t] \notin SeePoints /\ queued' = queued

\* and the counters stand for what they should.
LEMMA ControlCounts ==
    ASSUME SInv, IInv', NEW t \in Threads, Control(t), Places(t), Shift(t, 0), Watched(t)
    PROVE  /\ OnlyBarriers' /\ MoreTypes' /\ Exact' /\ Covered'
           /\ Owned' /\ Visitors'
<1>1. refs' \in Int /\ suspended' \in Nat /\ Cardinality(signalled)' = Cardinality(signalled) + 0
  <2>1. /\ refs \in Int /\ Held' = Held /\ suspended' = suspended /\ suspended \in Nat
        /\ queued' - queued \in Int /\ Cardinality(signalled) \in Nat
    BY SetsFinite DEF SInv, MoreTypes, IInv, Types, Held, Control
  <2> QED BY <2>1, Weights DEF Shift, Control
<1>2. Exact'
  BY <1>1, ControlLeaves, ExactStep
<1>3. OnlyBarriers' /\ MoreTypes' /\ Owned' /\ Visitors'
  BY <1>1, ControlKeepsRest
<1>4. Covered'
  <2>1. CASE running' # 0 \/ suspend' # 0
    BY <2>1, <1>2, <1>3, CountedSeesThen DEF Covered, Seen
  <2>2. CASE pc[t] \notin SeePoints /\ queued' = queued
    BY <2>2, ControlLeaves, CoveredStays DEF SInv, Control
  <2> QED BY <2>1, <2>2, CoveredBy DEF Watched, Covered
<1> QED BY <1>2, <1>3, <1>4

\* A step of control by a thread that has nothing of the list.
Unmarked(t) == pc[t] \notin Marked /\ pc'[t] \notin Marked /\ Unordered(t)
\* It keeps the invariant.
LEMMA ControlKeeps ==
    ASSUME SInv, IInv', NEW t \in Threads, Control(t), Places(t), Shift(t, 0), Watched(t),
           Unmarked(t)
    PROVE  SInv'
<1>1. InLine'
  BY ControlLeaves, LineStays DEF SInv, InLine, Unmarked
<1> QED BY <1>1, ControlCounts DEF SInv

-----------------------------------------------------------------------------
(* Wakeups, and what only decides where to go.                              *)

\* What is known where a thread is.
LEMMA InHand ==
    ASSUME SInv, NEW t \in Threads
    PROVE  /\ pc \in [Threads -> Points] /\ after \in [Threads -> Returns]
           /\ pc[t] \in SerialPoints /\ after[t] \in Returns \ {"push"}
           /\ blk[t] \in Items /\ dc[t] \in Items /\ nextdc[t] \in Items /\ sema[t] \in Items
           /\ Local(t) /\ Hand(t) /\ redirected = {} /\ Covered
           /\ pc[t] \in {"look", "looksuspended"} => kind[blk[t]] = "bsync"
           /\ running \in Int /\ suspend \in Int /\ refs \in Int /\ queued \in Nat
           /\ suspended \in Nat /\ signalled \subseteq Blocks
BY DEF SInv, IInv, Types, MoreTypes, Locals, OnlyBarriers, Owned, Returns

\* _dispatch_wakeup.
LEMMA WakeSerial ==
    ASSUME SInv, IInv', NEW t \in Threads, WakeStep(t)
    PROVE  SInv'
<1> USE InHand
<1>1. /\ pc[t] \in WakePoints /\ Control(t)
      /\ \/ pc'[t] = after[t] /\ after'[t] = "idle"
         \/ pc'[t] \in {"wakeprobe", "wakelock"} /\ after'[t] = after[t]
      /\ after[t] \in {"idle", "release"}
      /\ running' = running
      /\ \/ suspend' = suspend /\ queued' = queued /\ refs' = refs
         \/ suspend = 0 /\ suspend' = 1 /\ queued' = queued + 1 /\ refs' = refs + 1
            /\ pc'[t] = after[t] /\ after'[t] = "idle"
  BY DEF WakeStep, WakeSuspended, WakeProbe, WakeLock, Return, Stay, At, Goto, Control, shared,
         countVars, listVars, rootVars, history, blockVars, userVars, drainVars, WakePoints,
         Local, LOCK, Returns
<1>2. Places(t)
  BY <1>1 DEF Places, Control, SerialPoints, Points, PrePoints, WakePoints, Hand, HandPoints,
              Owe, InvokePoints, Visits, CheckPoints, RanPoints
<1>3. Shift(t, 0)
  BY <1>1 DEF Shift, Control, Held, Odd, Two, Xfer, Owe, Hit, InvokePoints, DrainPoints,
              FastPoints, SlowPoints, SharePoints, TakePoints, WakePoints
<1>4. Watched(t)
  BY <1>1 DEF Watched, SeePoints, WakePoints, WakeStep, WakeSuspended, WakeProbe, WakeLock,
              Return, Stay, At, Goto, Suspended, INTERVAL, Control, shared, countVars, listVars
<1>5. Unmarked(t)
  BY <1>1 DEF Marked, HeldPoints, FrontPoints, CheckPoints, RanPoints, TailPoints, WakePoints,
              Unordered, Unmarked
<1> QED BY <1>1, <1>2, <1>3, <1>4, <1>5, ControlKeeps

\* A call that looks at the suspend count, or finds that something runs, and an
\* invocation up to the list.
LEMMA BranchSerial ==
    ASSUME SInv, IInv', NEW t \in Threads,
           \/ LookSuspended(t) \/ (Lock(t) /\ running # 0)
           \/ InvokeSuspended(t) \/ InvokeLock(t) \/ Drain(t)
    PROVE  SInv'
<1> USE InHand
<1>1. /\ Control(t) /\ after'[t] = after[t] /\ suspend' = suspend /\ queued' = queued
      /\ refs' = refs
      /\ \/ /\ pc[t] = "looksuspended" /\ pc'[t] \in {"push", "lock"} /\ running' = running
         \/ /\ pc[t] = "lock" /\ pc'[t] = "push" /\ running' = running
         \/ /\ pc[t] = "invoke" /\ pc'[t] \in {"unlock", "invokelock"} /\ running' = running
         \/ /\ pc[t] = "invokelock" /\ pc'[t] = "unlock" /\ running' = running
         \/ /\ pc[t] = "invokelock" /\ pc'[t] = "drain" /\ running' = running + 1
         \/ /\ pc[t] = "drain" /\ pc'[t] \in {"finish", "takehead"} /\ running' = running
  BY DEF LookSuspended, Lock, InvokeSuspended, InvokeLock, Drain, Branch, AddRunning, At, Goto,
         Control, shared, history, locals, countVars, listVars, rootVars, blockVars, userVars,
         drainVars
<1>2. Places(t)
  BY <1>1 DEF Places, Control, SerialPoints, Points, PrePoints, WakePoints, Hand, HandPoints,
              Owe, InvokePoints, Visits, CheckPoints, RanPoints
<1>3. Shift(t, 0)
  BY <1>1 DEF Shift, Control, Held, Odd, Two, Xfer, Owe, Hit, InvokePoints, DrainPoints,
              FastPoints, SlowPoints, SharePoints, TakePoints, WakePoints, Local, SemaPoints
<1>4. Watched(t)
  BY <1>1 DEF Watched, SeePoints, WakePoints, InvokePoints, DrainPoints, FastPoints,
              SlowPoints, TakePoints
<1>5. Unmarked(t)
  BY <1>1 DEF Marked, HeldPoints, FrontPoints, CheckPoints, RanPoints, TailPoints,
              Unordered, Unmarked, Control
<1> QED BY <1>1, <1>2, <1>3, <1>4, <1>5, ControlKeeps

\* A lock that is handed over or given up.
LEMMA HandoverSerial ==
    ASSUME SInv, IInv', NEW t \in Threads,
           \/ Handover(t) \/ SlowRunning(t) \/ TakeNone(t)
           \/ SlowSuspend(t) \/ TransferSuspend(t) \/ TransferRunning(t)
    PROVE  SInv'
<1> USE InHand
<1>1. /\ Control(t) /\ queued' = queued /\ refs' = refs
      /\ \/ /\ pc[t] = "handover" /\ running' = running /\ suspend' = suspend
            /\ \/ pc'[t] = "unlockrunning"
               \/ pc'[t] = "take" /\ after'[t] = "xfersuspend"
         \/ /\ pc[t] = "slowrunning" /\ running' = running /\ suspend' = suspend
            /\ \/ pc'[t] = "slowsuspend"
               \/ pc'[t] = "take" /\ after'[t] = "xfersignal"
         \/ /\ pc[t] = "take" /\ running' = running /\ suspend' = suspend
            /\ \/ pc'[t] = "unlockrunning" /\ after[t] = "xfersuspend"
               \/ pc'[t] = "slowsuspend" /\ after[t] = "xfersignal"
         \/ /\ pc[t] = "slowsuspend" /\ pc'[t] = "slowunlock"
            /\ running' = running /\ suspend' = suspend - 2
         \/ /\ pc[t] = "xfersuspend" /\ pc'[t] = "xferrunning"
            /\ running' = running /\ suspend' = suspend + 2
         \/ /\ pc[t] = "xferrunning" /\ pc'[t] = "xfersignal"
            /\ running' = running + 1 /\ suspend' = suspend
      /\ after'[t] \in {after[t], "xfersuspend", "xfersignal"}
  BY DEF Handover, SlowRunning, TakeNone, SlowSuspend, TransferSuspend, TransferRunning, Branch,
         AddRunning, AddSuspend, Enter, Stay, At, Goto, Control, shared, history, locals,
         countVars, listVars, rootVars, blockVars, userVars, drainVars, INTERVAL, Local,
         TakePoints
<1>2. Places(t)
  BY <1>1 DEF Places, Control, SerialPoints, Points, PrePoints, WakePoints, Hand, HandPoints,
              Owe, InvokePoints, Visits, CheckPoints, RanPoints
<1>3. Shift(t, 0)
  BY <1>1 DEF Shift, Control, Held, Odd, Two, Xfer, Owe, Hit, InvokePoints, DrainPoints,
              FastPoints, SlowPoints, SharePoints, TakePoints, WakePoints, Local, SemaPoints
<1>4. Watched(t)
  BY <1>1 DEF Watched, SeePoints, WakePoints, InvokePoints, DrainPoints, FastPoints,
              SlowPoints, TakePoints
<1>5. Unmarked(t)
  BY <1>1 DEF Marked, HeldPoints, FrontPoints, CheckPoints, RanPoints, TailPoints,
              Unordered, Unmarked, Control
<1> QED BY <1>1, <1>2, <1>3, <1>4, <1>5, ControlKeeps

\* The last step of a call, or of an invocation, that has given up a lock.
LEMMA UnlockSerial ==
    ASSUME SInv, IInv', NEW t \in Threads,
           UnlockRunning(t) \/ SlowUnlock(t) \/ Unlock(t) \/ VerifyIdle(t) \/ PopQueue(t)
    PROVE  SInv'
<1> USE InHand
<1>1. /\ Control(t) /\ refs' = refs
      /\ \/ /\ pc[t] = "unlockrunning" /\ running' = running - 1
            /\ suspend' = suspend /\ queued' = queued
            /\ \/ pc'[t] = "wake" /\ after'[t] = "idle"
               \/ running' # 0 /\ pc'[t] = "idle" /\ after'[t] = after[t]
         \/ /\ pc[t] = "slowunlock" /\ running' = running - 2
            /\ suspend' = suspend /\ queued' = queued
            /\ \/ pc'[t] = "wake" /\ after'[t] = "idle"
               \/ running' # 0 /\ pc'[t] = "idle" /\ after'[t] = after[t]
         \/ /\ pc[t] = "unlock" /\ suspend' = suspend - 1 /\ after'[t] = after[t]
            /\ running' = running /\ queued' = queued
            /\ \/ pc'[t] = "verifyidle"
               \/ suspend' # 0 /\ pc'[t] = "release"
         \/ /\ pc[t] = "verifyidle" /\ suspend' = suspend
            /\ running' = running /\ queued' = queued
            /\ \/ pc'[t] = "wake" /\ after'[t] = "release"
               \/ running' # 0 /\ pc'[t] = "release" /\ after'[t] = after[t]
         \/ /\ pc[t] = "idle" /\ pc'[t] = "invoke" /\ t \in Workers
            /\ suspend' = suspend /\ running' = running /\ queued' = queued - 1
            /\ after'[t] = after[t]
  BY DEF UnlockRunning, SlowUnlock, Unlock, VerifyIdle, PopQueue, WakeIfIdle,
         AddRunning, AddSuspend, Enter, Stay, At, Goto, Control, shared, history, locals,
         countVars, listVars, rootVars, blockVars, userVars, drainVars, LOCK
<1>2. Places(t)
  BY <1>1 DEF Places, Control, SerialPoints, Points, PrePoints, WakePoints, Hand, HandPoints,
              Owe, InvokePoints, Visits, CheckPoints, RanPoints
<1>3. Shift(t, 0)
  BY <1>1 DEF Shift, Control, Held, Odd, Two, Xfer, Owe, Hit, InvokePoints, DrainPoints,
              FastPoints, SlowPoints, SharePoints, TakePoints, WakePoints, Local, SemaPoints
<1>4. Watched(t)
  BY <1>1 DEF Watched, SeePoints, WakePoints, InvokePoints, DrainPoints, FastPoints,
              SlowPoints, TakePoints
<1>5. Unmarked(t)
  BY <1>1 DEF Marked, HeldPoints, FrontPoints, CheckPoints, RanPoints, TailPoints,
              Unordered, Unmarked, Control
<1> QED BY <1>1, <1>2, <1>3, <1>4, <1>5, ControlKeeps

\* While a thread has the right to the list, nobody else has a part of the
\* counters but for a thread on its way in or out.
LEMMA OneHolder ==
    ASSUME SInv, NEW t \in Threads, Tok(pc[t]) = 1
    PROVE  /\ signalled = {} /\ \A u \in Threads \ {t} : Tok(pc[u]) = 0
           /\ Number(OddOf) <= 1 /\ Number(TwoOf) = Two(pc[t], after[t], sema[t])
           /\ Number(XferOf) = Xfer(pc[t], after[t], sema[t])
<1>1. /\ Cardinality(Handed) = 0 /\ \A u \in Threads : Tok(pc[u]) = 1 => u = t
  BY TokenUnique DEF SInv, IInv
<1>2. signalled = {}
  <2>1. Handed = signalled
    BY DEF Handed, SInv, OnlyBarriers
  <2> QED BY <1>1, <2>1, SetsFinite DEF SInv, IInv
<1>3. \A u \in Threads \ {t} : Tok(pc[u]) = 0
  BY <1>1 DEF Tok
<1>4. \A u \in Threads \ {t} : Two(pc[u], after[u], sema[u]) = 0 /\ Xfer(pc[u], after[u],
      sema[u]) = 0
  BY <1>3 DEF Tok, Two, Xfer, SharePoints, SlowPoints, TakePoints, DrainPoints, FastPoints,
              SInv, OnlyBarriers, SerialPoints
<1>5. Number(OddOf) <= 1
  <2>1. running % 2 = Number(OddOf) /\ running \in Int
    BY DEF SInv, IInv, RunningCount, Types
  <2> QED BY <2>1
<1>6. ASSUME NEW f, \A u \in Threads : f[u] \in {0, 1}, \A u \in Threads \ {t} : f[u] = 0
      PROVE  Number(f) = f[t]
  <2>1. CASE f[t] = 1
    <3>1. ThreadsAt(Threads, f, {1}) = {t}
      BY <1>6, <2>1 DEF ThreadsAt
    <3> QED BY <2>1, <3>1, FS_Singleton DEF Number, CountAt
  <2>2. CASE f[t] = 0
    <3>1. ThreadsAt(Threads, f, {1}) = {}
      BY <1>6, <2>2 DEF ThreadsAt
    <3> QED BY <2>2, <3>1, FS_EmptySet DEF Number, CountAt
  <2> QED BY <1>6, <2>1, <2>2
<1>7. \A u \in Threads : TwoOf[u] = Two(pc[u], after[u], sema[u]) /\ TwoOf[u] \in {0, 1}
                           /\ XferOf[u] = Xfer(pc[u], after[u], sema[u]) /\ XferOf[u] \in {0, 1}
  BY Weights DEF TwoOf, XferOf
<1> QED BY <1>2, <1>3, <1>4, <1>5, <1>6, <1>7

\* A drain that is not suspended by the user goes on with the item it took.
LEMMA DrainGoesOn ==
    ASSUME SInv, Serial, NEW t \in Threads, pc[t] \in {"checksuspended", "checkwidth"},
           MaxSuspends = 0
    PROVE  ~Suspended /\ running <= Width
<1>1. Tok(pc[t]) = 1 /\ Two(pc[t], after[t], sema[t]) = 0 /\ Xfer(pc[t], after[t], sema[t]) = 0
  BY DEF Tok, Two, Xfer, DrainPoints, SharePoints, SlowPoints, TakePoints
<1>2. /\ signalled = {} /\ Number(OddOf) <= 1 /\ Number(TwoOf) = 0 /\ Number(XferOf) = 0
      /\ Number(OddOf) \in Nat /\ Cardinality(signalled) = 0
  BY <1>1, OneHolder, Counted, FS_EmptySet
<1>3. running <= Width
  BY <1>2 DEF SInv, Exact, RunningIs, Serial
<1>4. suspended = 0
  BY DEF SInv, MoreTypes
<1>5. suspend = queued + Inside /\ suspend \in Int
  <2>1. queued \in Nat /\ Inside \in Nat
    BY Counted DEF SInv, IInv, Types
  <2>2. suspend = 2 * (0 + 0 + 0) + queued + Inside
    BY <1>2, <1>4 DEF SInv, Exact, SuspendIs
  <2> QED BY <2>1, <2>2
<1>6. suspend % 2 = queued + Inside
  BY DEF SInv, IInv, OneInvocation, Inside
<1> QED BY <1>3, <1>5, <1>6 DEF Suspended, INTERVAL

\* The drain looks for a reason to stop.
LEMMA CheckSerial ==
    ASSUME SInv, IInv', Serial, NEW t \in Threads, CheckSuspended(t) \/ CheckWidth(t)
    PROVE  SInv'
<1> USE InHand
<1>1. /\ Control(t) /\ after'[t] = after[t] /\ suspend' = suspend /\ queued' = queued
      /\ refs' = refs /\ running' = running
      /\ pc[t] \in {"checksuspended", "checkwidth"}
      /\ pc'[t] \in {"checkwidth", "pop", "undo"}
      /\ MaxSuspends = 0 => pc'[t] # "undo"
  <2>1. MaxSuspends = 0 => ~Suspended /\ ~(running > Width)
    <3>1. pc[t] \in {"checksuspended", "checkwidth"}
      BY DEF CheckSuspended, CheckWidth, Branch, At
    <3>2. Width \in Nat
      BY QueueAssumption
    <3> QED BY <3>1, <3>2, DrainGoesOn
  <2> HIDE DEF Suspended
  <2> QED BY <2>1
     DEF CheckSuspended, CheckWidth, Branch, At, Goto, Control, shared, history, locals,
         countVars, listVars, rootVars, blockVars, userVars, drainVars
<1>2. Places(t)
  BY <1>1 DEF Places, Control, SerialPoints, Points, PrePoints, WakePoints, Hand, HandPoints,
              Owe, InvokePoints, Visits, CheckPoints, RanPoints
<1>3. Shift(t, 0)
  BY <1>1 DEF Shift, Control, Held, Odd, Two, Xfer, Owe, Hit, InvokePoints, DrainPoints,
              FastPoints, SlowPoints, SharePoints, TakePoints, WakePoints, Local, SemaPoints
<1>4. Watched(t)
  BY <1>1 DEF Watched, SeePoints, InvokePoints
<1>5. InLine'
  BY <1>1, ControlLeaves, LineChecked DEF SInv, InLine
<1> QED BY <1>1, <1>2, <1>3, <1>4, <1>5, ControlCounts DEF SInv

\* When the list is empty, everything has been popped, or a drain has the last item.
LEMMA EmptyList ==
    ASSUME SInv, tail = None, NEW q, NEW n, NEW lo, Line(q, n, lo)
    PROVE  lo = n + 1 \/ (lo = n /\ \E u \in Threads : pc[u] \in CheckPoints)
<1> USE DEF Numbered, Line
<1>1. \A k \in 1 .. n + 1 : ~Body(q, n, k) /\ ~Taken(q, n, k) /\ (Listed(q, n, k) => k = n + 1)
  BY ThreadsFinite DEF Body, Taken, Listed
<1>2. CASE \A u \in Threads : pc[u] \notin HeldPoints
  BY <1>1, <1>2 DEF Line, Position
<1>3. ASSUME NEW u \in Threads, pc[u] \in HeldPoints
      PROVE  lo = n + 1 \/ (lo = n /\ pc[u] \in CheckPoints)
  <2>1. Has(q, n, lo, u)
    BY DEF Line, Position
  <2>2. CASE pc[u] \in FrontPoints \cup TailPoints \cup {"restore"}
    BY <1>1, <2>1, <2>2 DEF Has
  <2>3. CASE pc[u] \in RanPoints
    BY <1>1, <2>1, <2>3 DEF Has
  <2>4. CASE pc[u] \in CheckPoints
    BY <1>1, <2>1, <2>4 DEF Has
  <2> QED BY <1>3, <2>2, <2>3, <2>4 DEF HeldPoints
<1> QED BY <1>2, <1>3

\* What the client of a call submitted before is done or on the line.
LEMMA EarlierOnLine ==
    ASSUME SInv, NEW t \in Threads, pc[t] \in PrePoints, NEW q, NEW n, NEW lo,
           Line(q, n, lo), NEW a \in ahead[blk[t]]
    PROVE  Earlier(a, q, n)
<1> USE InHand
<1>1. /\ blk[t] \in Blocks /\ owner[blk[t]] = t /\ a \in Blocks /\ a # blk[t] /\ owner[a] = t
      /\ status[a] \in Statuses \ {"new"}
  <2>1. blk[t] \in Blocks /\ owner[blk[t]] = t
    BY DEF Hand, HandPoints, Items
  <2>2. a \in Blocks /\ status \in [Blocks -> Statuses]
    BY <2>1 DEF SInv, MoreTypes, IInv, Types
  <2> QED BY <2>1, <2>2 DEF SInv, Owned
<1>2. \A u \in Threads : blk[u] = a => u = t
  BY <1>1, ThreadsFinite DEF SInv, Owned, Hand
<1>3. CASE status[a] = "called"
  BY <1>1, <1>2, <1>3 DEF SInv, Owned
<1>4. CASE status[a] = "queued"
  BY <1>1, <1>4 DEF Line, States, Earlier
<1>5. CASE status[a] = "running"
  <2>1. PICK u \in Threads : RunsOn(u, a)
    BY <1>1, <1>5 DEF SInv, IInv, EachRunsOn
  <2>2. CASE blk[u] = a
    BY <1>1, <1>2, <2>2
  <2>3. CASE pc[u] = "rundrain" /\ dc[u] = a
    BY <2>3 DEF Line, Position, Has, RanPoints, Earlier, Numbered
  <2> QED BY <2>1, <2>2, <2>3 DEF RunsOn
<1> QED BY <1>1, <1>3, <1>4, <1>5 DEF Statuses, Earlier

\* A call that looks at the list: what the client submitted before is done if
\* it finds nothing, or a drain has it and will not put it back.
LEMMA LookTailSerial ==
    ASSUME SInv, IInv', NEW t \in Threads, LookTail(t)
    PROVE  SInv'
<1> USE InHand
<1>1. /\ Control(t) /\ after'[t] = after[t] /\ suspend' = suspend /\ queued' = queued
      /\ refs' = refs /\ running' = running
      /\ pc[t] = "look" /\ pc'[t] \in {"push", "looksuspended"}
      /\ pc'[t] = "looksuspended" => tail = None
  BY DEF LookTail, Branch, At, Goto, Control, shared, history, locals,
         countVars, listVars, rootVars, blockVars, userVars, drainVars
<1>2. Places(t)
  BY <1>1 DEF Places, Control, SerialPoints, Points, PrePoints, WakePoints, Hand, HandPoints,
              Owe, InvokePoints, Visits, CheckPoints, RanPoints
<1>3. Shift(t, 0)
  BY <1>1 DEF Shift, Control, Held, Odd, Two, Xfer, Owe, Hit, InvokePoints, DrainPoints,
              FastPoints, SlowPoints, SharePoints, TakePoints, WakePoints, Local, SemaPoints
<1>4. Watched(t)
  BY <1>1 DEF Watched, SeePoints, WakePoints, InvokePoints, DrainPoints, FastPoints,
              SlowPoints, TakePoints
<1>5. InLine'
  <2>1. PICK n, q, lo : Line(q, n, lo)
    BY DEF SInv, InLine
  <2>2. pc[t] \notin Marked /\ pc'[t] \notin Marked
    BY <1>1 DEF Marked, HeldPoints, FrontPoints, CheckPoints, RanPoints, TailPoints
  <2>3. CASE pc'[t] = "push"
    BY <1>1, <2>1, <2>2, <2>3, ControlLeaves, LineStays, InLineThen DEF Unordered
  <2>4. CASE pc'[t] = "looksuspended"
    <3>1. \A a \in ahead[blk[t]] : Found(q, n, lo, a)
      <4>1. \A a \in ahead[blk[t]] : Earlier(a, q, n)
        BY <1>1, <2>1, EarlierOnLine DEF PrePoints
      <4>2. lo = n + 1 \/ (lo = n /\ \E u \in Threads : pc[u] \in CheckPoints)
        BY <1>1, <2>1, <2>4, EmptyList
      <4>3. n \in Nat
        BY <2>1 DEF Line, Numbered
      <4> QED BY <4>1, <4>2, <4>3 DEF Earlier, Found
    <3> QED BY <1>1, <2>1, <2>2, <3>1, ControlLeaves, LineStays, InLineThen DEF Control
  <2> QED BY <1>1, <2>3, <2>4
<1> QED BY <1>1, <1>2, <1>3, <1>4, <1>5, ControlCounts DEF SInv

-----------------------------------------------------------------------------
(* Steps that change more.                                                  *)

\* A block is not what another thread runs, waits for or is to signal.
NotDue(u, c) == sema[u] # c /\ (pc[u] \in {"rundrain", "poprunning"} => dc[u] # c)
NotHis(u, c) == NotDue(u, c) /\ (blk[u] = c => kind[c] # "bsync" /\ pc[u] \notin HandPoints)
Kept(c) == status'[c] = status[c] /\ (c \in signalled' <=> c \in signalled)
SameCalls == kind' = kind /\ owner' = owner /\ ahead' = ahead

\* What the threads have in their hands after a step that changes blocks that
\* are not in the hands of the others.
OwnedChange(t) ==
    /\ Hand(t)' /\ signalled' \subseteq Blocks
    /\ \A c \in Blocks : status'[c] = status[c] \/ \A u \in Threads \ {t} : NotHis(u, c)
    /\ \A c \in signalled' \ signalled : \A u \in Threads \ {t} : NotDue(u, c)
    /\ \A c \in Blocks : status'[c] = "new" <=> status[c] = "new"
    /\ \A c \in signalled' : status'[c] = "queued"
    /\ \A c \in Blocks : status'[c] = "called" =>
           status[c] = "called" /\ (blk[t] = c => blk'[t] = c /\ pc'[t] \in PrePoints)
    /\ \A c \in Blocks : status'[c] = "queued" /\ kind[c] = "bsync" =>
           \/ status[c] = "queued" /\ blk[t] # c
           \/ blk'[t] = c
\* Then everybody has what he should.
LEMMA OwnedStep ==
    ASSUME SInv, NEW t \in Threads, Rest(t), SameCalls, OwnedChange(t)
    PROVE  Owned'
<1> USE DEF SameCalls
<1>1. ASSUME NEW u \in Threads, u # t PROVE Hand(u)'
  <2>1. /\ pc'[u] = pc[u] /\ after'[u] = after[u] /\ blk'[u] = blk[u] /\ dc'[u] = dc[u]
        /\ nextdc'[u] = nextdc[u] /\ sema'[u] = sema[u] /\ Hand(u)
        /\ blk[u] \in Items /\ dc[u] \in Items /\ sema[u] \in Items
        /\ pc[u] \in {"rundrain", "poprunning"} => dc[u] \in Blocks
    BY <1>1, InHand DEF Rest, Local, ItemPoints, Items
  <2>2. \A c \in Blocks : /\ status'[c] = status[c] \/ NotHis(u, c)
                          /\ (c \in signalled' => c \in signalled) \/ NotDue(u, c)
    BY <1>1 DEF OwnedChange
  <2>3. blk[u] # None => status'[blk[u]] = status[blk[u]] \/ NotHis(u, blk[u])
    BY <2>1, <2>2 DEF Items
  <2>4. sema[u] # None => /\ status'[sema[u]] = status[sema[u]]
                          /\ sema[u] \in signalled' => sema[u] \in signalled
    BY <2>1, <2>2 DEF Items, NotHis, NotDue
  <2>5. pc[u] \in {"rundrain", "poprunning"} =>
            status'[dc[u]] = status[dc[u]] /\ (dc[u] \in signalled' => dc[u] \in signalled)
    BY <2>1, <2>2 DEF NotHis, NotDue
  <2> QED BY <2>1, <2>3, <2>4, <2>5 DEF Hand, NotHis, HandPoints, PrePoints
<1>2. \A u \in Threads : Hand(u)'
  BY <1>1 DEF OwnedChange
<1>3. ASSUME NEW c \in Blocks, status'[c] = "called"
      PROVE  \E u \in Threads : blk'[u] = c /\ pc'[u] \in PrePoints
  <2>1. status[c] = "called" /\ (blk[t] = c => blk'[t] = c /\ pc'[t] \in PrePoints)
    BY <1>3 DEF OwnedChange
  <2>2. PICK u \in Threads : blk[u] = c /\ pc[u] \in PrePoints
    BY <2>1 DEF SInv, Owned
  <2> QED BY <2>1, <2>2 DEF Rest
<1>4. ASSUME NEW c \in Blocks, status'[c] = "queued", kind[c] = "bsync"
      PROVE  \E u \in Threads : blk'[u] = c
  <2>1. CASE status[c] = "queued" /\ blk[t] # c
    <3>1. PICK u \in Threads : blk[u] = c
      BY <1>4, <2>1 DEF SInv, Owned
    <3> QED BY <2>1, <3>1 DEF Rest
  <2> QED BY <1>4, <2>1 DEF OwnedChange
<1>5. \A b \in Blocks : \A a \in ahead[b] :
          a \in Blocks /\ a # b /\ owner[a] = owner[b] /\ status'[a] # "new"
  BY DEF SInv, Owned, MoreTypes, OwnedChange
<1> QED BY <1>2, <1>3, <1>4, <1>5 DEF Owned, OwnedChange, SInv

\* Who visits the queue after a step that neither begins a call nor gives up
\* a reference.
VisitorsChange(t) ==
    /\ holds' = holds
    /\ \A c \in Blocks : status[c] = "done" => status'[c] = "done"
    /\ Visits(t)' => /\ Visits(t)
                     /\ \/ blk'[t] = blk[t]
                        \/ /\ blk'[t] = None /\ blk[t] \in Blocks
                           /\ status'[blk[t]] = "done"
\* Then every visitor has a reference.
LEMMA VisitorsStep ==
    ASSUME SInv, NEW t \in Threads, Rest(t), SameCalls, VisitorsChange(t)
    PROVE  Visitors'
<1> USE DEF SameCalls
<1>1. ASSUME NEW u \in Threads, Visits(u)' PROVE u \in holds /\ \E a \in Blocks : Latest(u, a)'
  <2>1. Visits(u) /\ (blk'[u] = blk[u]
                          \/ (blk'[u] = None /\ blk[u] \in Blocks /\ status'[blk[u]] = "done"))
    BY <1>1 DEF Rest, Visits, VisitorsChange
  <2>2. PICK a \in Blocks : u \in holds /\ Latest(u, a)
    BY <2>1 DEF SInv, Visitors
  <2> QED BY <2>1, <2>2, ThreadsFinite DEF Latest, VisitorsChange
<1> QED BY <1>1 DEF Visitors, VisitorsChange

\* The parts of the invariant but for the line.
Seer(t) == \/ pc'[t] \in SeePoints \/ queued' > 0 \/ signalled' # {} \/ tail' = None
           \/ running' # 0 \/ suspend' # 0
           \/ /\ pc[t] \notin SeePoints /\ tail # None
              /\ queued' = queued /\ signalled' = signalled
Moved(t) ==
    /\ SameCalls /\ redirected' = redirected
    /\ suspended' = suspended /\ suspends' = suspends
    /\ tail' \in Items /\ prev' \in [Threads -> Items]
    /\ pc'[t] \in SerialPoints /\ after'[t] # "push"
    /\ pc'[t] \in {"look", "looksuspended"} => kind[blk'[t]] = "bsync"
    /\ \A b \in signalled' : kind[b] = "bsync"
\* A step with all of these keeps the invariant.
LEMMA StepKeeps ==
    ASSUME SInv, IInv', NEW t \in Threads, Rest(t), Moved(t), OwnedChange(t), VisitorsChange(t),
           NEW s \in {-1, 0, 1}, Cardinality(signalled)' = Cardinality(signalled) + s,
           Shift(t, s), Seer(t), InLine'
    PROVE  SInv'
<1>1. OnlyBarriers'
  BY DEF SInv, OnlyBarriers, Moved, SameCalls, Rest
<1>2. MoreTypes'
  <2>1. refs \in Int /\ Held \in Int /\ Held' \in Int /\ suspended' - suspended \in Int
        /\ queued' - queued \in Int
    BY DEF SInv, MoreTypes, IInv, Types, Held, Moved
  <2>2. refs' \in Int
    BY <2>1, Weights DEF Shift
  <2> QED BY <2>2 DEF SInv, MoreTypes, Moved, SameCalls, VisitorsChange
<1>3. Exact'
  BY <1>2, ExactStep DEF MoreTypes
<1>4. Covered'
  <2>1. CASE running' # 0 \/ suspend' # 0
    BY <2>1, <1>1, <1>2, <1>3, CountedSeesThen DEF Covered, Seen
  <2>2. CASE pc[t] \notin SeePoints /\ tail # None /\ queued' = queued /\ signalled' = signalled
    BY <2>2, CoveredStays DEF SInv, Moved
  <2> QED BY <2>1, <2>2, CoveredBy DEF Seer, Covered
<1>5. Owned' /\ Visitors'
  BY OwnedStep, VisitorsStep DEF Moved
<1> QED BY <1>1, <1>2, <1>3, <1>4, <1>5 DEF SInv

-----------------------------------------------------------------------------
(* The steps of the thread that has the right to the list.                  *)
Sole(t) == \A u \in Threads \ {t} : Tok(pc[u]) = 0
OtherPoints == SerialPoints \ (HeldPoints \cup {"runslow", "runlocked", "invokesignal"})

\* The others have nothing of the list.
LEMMA OthersIdle ==
    ASSUME SInv, NEW t \in Threads, Sole(t), NEW u \in Threads \ {t}
    PROVE  /\ pc[u] \in OtherPoints /\ sema[u] = None
           /\ \A b : ~KeptBy(u, b) \/ b = None
<1>1. pc[u] \in OtherPoints
  BY InHand DEF Sole, Tok, OtherPoints, HeldPoints, DrainPoints, FastPoints, SlowPoints, TakePoints,
                FrontPoints, CheckPoints, RanPoints, TailPoints
<1>2. sema[u] = None
  BY InHand DEF Sole, Tok, Local, SemaPoints, DrainPoints, FastPoints, SlowPoints, TakePoints
<1> QED BY <1>1, <1>2 DEF KeptBy, OtherPoints, HeldPoints

\* What such a step does to the line: the first item that has not been popped
\* is k afterwards.
Links1(t, q, lo, k) ==
    /\ \A u \in Threads \ {t} : pc[u] = "link" => next'[prev[u]] = next[prev[u]]
    /\ k = lo + 1 => pc[t] \notin TailPoints
    /\ \/ k = lo /\ (pc[t] \in TailPoints => pc'[t] \in TailPoints)
       \/ pc'[t] \in TailPoints
       \/ \A u \in Threads \ {t} : pc[u] = "link" => prev[u] # q[k - 1]
States1(t, q, n, lo, k) ==
    /\ \A c \in Blocks :
           \/ Kept(c)
           \/ /\ \A i \in k .. n : q[i] # c
              /\ status'[c] \notin {"new", "called", "queued"} \/ status'[c] = status[c]
              /\ status[c] = "done" => status'[c] = "done"
    /\ \A b \in Blocks : KeptBy(t, b) \/ b \in signalled \ signalled' => Popped(b)'
    /\ k = lo + 1 => Popped(q[lo])'
Order1(t, lo, k) ==
    /\ pc[t] \in CheckPoints /\ k = lo => pc'[t] \in CheckPoints
    /\ pc'[t] \notin {"undo", "undospin"}
    /\ \A b \in Blocks : status'[b] = "running" =>
           status[b] = "running" \/ \A a \in ahead[b] : status'[a] = "done"
LineChange(t, q, n, lo, k) ==
    /\ k \in {lo, lo + 1} /\ k <= n + 1
    /\ {pc[t], pc'[t]} \cap {"link", "sethead"} = {}
    /\ pc'[t] \notin {"looksuspended", "lock"}
    /\ Has(q, n, k, t)' /\ (pc'[t] \in HeldPoints \/ Listed(q, n, k)')
    /\ Links1(t, q, lo, k) /\ States1(t, q, n, lo, k)
    /\ MaxSuspends = 0 => Order1(t, lo, k)

\* Then the line from k on is as it should be.
LEMMA LineStep ==
    ASSUME SInv, NEW t \in Threads, Rest(t), SameCalls, Sole(t),
           NEW q, NEW n, NEW lo, Line(q, n, lo), NEW k, LineChange(t, q, n, lo, k)
    PROVE  Line(q, n, k)'
<1>1. /\ n \in Nat /\ q \in [1 .. n -> Blocks] /\ lo \in 1 .. n + 1 /\ k \in 1 .. n + 1
      /\ \A i, j \in 1 .. n : q[i] = q[j] => i = j
  BY DEF Line, Numbered, LineChange
<1>2. Position(q, n, k)'
  <2>1. ASSUME NEW u \in Threads \ {t} PROVE Has(q, n, k, u)' /\ pc'[u] \notin HeldPoints
    <3>1. pc'[u] \in OtherPoints /\ sema'[u] = None
      BY OthersIdle DEF Rest
    <3> QED BY <3>1 DEF Has, OtherPoints, HeldPoints
  <2> QED BY <2>1 DEF Position, LineChange
<1>3. Links(q, n, k)'
  <2>1. ASSUME NEW u \in Threads, pc'[u] = "link"
        PROVE  \E i \in 1 .. n - 1 :
                   /\ prev'[u] = q[i] /\ blk'[u] = q[i + 1] /\ next'[q[i]] = None
                   /\ i >= k \/ (i = k - 1 /\ pc'[t] \in TailPoints)
    <3>1. u # t /\ pc[u] = "link" /\ prev'[u] = prev[u] /\ blk'[u] = blk[u]
      BY <2>1 DEF LineChange, Rest
    <3>2. PICK i \in 1 .. n - 1 :
              /\ prev[u] = q[i] /\ blk[u] = q[i + 1] /\ next[q[i]] = None
              /\ i >= lo \/ (i = lo - 1 /\ \E v \in Threads : pc[v] \in TailPoints)
      BY <3>1 DEF Line, Links
    <3>3. i >= lo \/ (i = lo - 1 /\ pc[t] \in TailPoints)
      BY <3>2, OthersIdle DEF OtherPoints, HeldPoints
    <3>4. next'[q[i]] = None
      BY <3>1, <3>2 DEF LineChange, Links1
    <3>5. i >= k \/ (i = k - 1 /\ pc'[t] \in TailPoints)
      BY <1>1, <3>1, <3>2, <3>3 DEF LineChange, Links1
    <3> QED BY <3>1, <3>2, <3>4, <3>5
  <2> QED BY <2>1 DEF Links
<1>4. States(q, n, k)'
  <2> DEFINE S == States1(t, q, n, lo, k)
  <2>1. S
    BY DEF LineChange
  <2>2. \A i \in 1 .. n : q[i] \in Blocks /\ status'[q[i]] \notin {"new", "called"}
    BY <1>1, <2>1 DEF Line, States, Kept, States1
  <2>3. \A i \in k .. n : status'[q[i]] = "queued" /\ q[i] \notin signalled'
    <3>1. \A i \in k .. n : i \in lo .. n /\ q[i] \in Blocks
      BY <1>1 DEF LineChange
    <3> QED BY <2>1, <3>1 DEF Line, States, Kept, States1
  <2>4. ASSUME NEW b \in Blocks, Popped(b) PROVE Popped(b)'
    <3>1. status[b] = "done" => status'[b] = "done"
      BY <2>1 DEF States1, Kept
    <3>2. ASSUME NEW u \in Threads, KeptBy(u, b) PROVE u = t
      BY <3>2, OthersIdle, ThreadsFinite
    <3>3. CASE status[b] = "done"
      BY <3>1, <3>3 DEF Popped
    <3>4. CASE b \in signalled
      BY <2>1, <3>4 DEF Popped, States1
    <3>5. CASE \E u \in Threads : KeptBy(u, b)
      BY <2>1, <3>2, <3>5 DEF States1
    <3> QED BY <2>4, <3>3, <3>4, <3>5 DEF Popped
  <2>5. \A i \in 1 .. k - 1 : Popped(q[i])'
    <3>1. \A i \in 1 .. k - 1 : i \in 1 .. n /\ (i \in 1 .. lo - 1 \/ (i = lo /\ k = lo + 1))
      BY <1>1 DEF LineChange
    <3>2. \A i \in 1 .. lo - 1 : Popped(q[i])
      BY DEF Line, States
    <3> QED BY <1>1, <2>1, <2>4, <3>1, <3>2 DEF States1
  <2>6. \A b \in Blocks : status'[b] = "queued" => \E i \in 1 .. n : q[i] = b
    BY <2>1 DEF Line, States, Kept, States1
  <2> QED BY <2>2, <2>3, <2>5, <2>6 DEF States
<1>5. ASSUME MaxSuspends = 0 PROVE Order(q, n, k)'
  <2>1. Order1(t, lo, k) /\ Order(q, n, lo)
    BY <1>5 DEF LineChange, Line
  <2>2. \A a \in Blocks : status[a] = "done" => status'[a] = "done"
    BY DEF LineChange, States1, Kept
  <2>3. \A a \in Blocks : \A j : Earlier(a, q, j) => Earlier(a, q, j)'
    BY <2>2 DEF Earlier
  <2>4. \A b \in Blocks : ahead[b] \subseteq Blocks
    BY DEF SInv, MoreTypes
  <2>5. ASSUME NEW a \in Blocks, Found(q, n, lo, a) PROVE Found(q, n, k, a)'
    <3>1. CASE k = lo
      <4>1. \A u \in Threads : pc[u] \in CheckPoints => u = t
        BY OthersIdle DEF OtherPoints, HeldPoints
      <4> QED BY <2>1, <2>3, <2>5, <3>1, <4>1 DEF Found, Order1
    <3>2. CASE k = lo + 1
      <4>1. Earlier(a, q, lo - 1) \/ (lo <= n /\ a = q[lo])
        BY <2>5 DEF Found
      <4>2. Earlier(a, q, lo)
        BY <1>1, <4>1 DEF Earlier
      <4> QED BY <1>1, <2>3, <3>2, <4>2 DEF Found
    <3> QED BY <3>1, <3>2 DEF LineChange
  <2>6. \A u \in Threads : /\ pc'[u] \in {"looksuspended", "lock"}
                                 => u # t /\ pc[u] = pc'[u] /\ blk'[u] = blk[u]
                           /\ pc'[u] \notin {"undo", "undospin"}
    BY <2>1 DEF LineChange, Order1, Order, Rest
  <2>7. \A u \in Threads : pc'[u] \in {"looksuspended", "lock"} => blk[u] \in Blocks
    BY <2>6, InHand DEF Local, CallPoints, Items
  <2>8. \A u \in Threads : pc'[u] \in {"looksuspended", "lock"}
            => \A a \in ahead'[blk'[u]] : Found(q, n, k, a)'
    BY <2>1, <2>4, <2>5, <2>6, <2>7 DEF Order, SameCalls
  <2>9. \A j \in 1 .. n : \A a \in ahead'[q[j]] : Earlier(a, q, j - 1)'
    BY <1>1, <2>1, <2>3, <2>4 DEF Order, SameCalls
  <2>10. \A b \in Blocks : status'[b] = "running" => \A a \in ahead'[b] : status'[a] = "done"
    BY <2>1, <2>2, <2>4 DEF Order, Order1, SameCalls
  <2> QED BY <2>6, <2>8, <2>9, <2>10 DEF Order
<1> QED BY <1>1, <1>2, <1>3, <1>4, <1>5 DEF Line, Numbered

\* A thread that has the right to the list is the only one,
LEMMA HolderSole ==
    ASSUME SInv, NEW t \in Threads, Tok(pc[t]) = 1
    PROVE  Sole(t) /\ signalled = {}
BY OneHolder DEF Sole

\* The same after a step,
LEMMA TokenUniqueThen ==
    (Types /\ OneToken => \A t \in Threads : Tok(pc[t]) = 1 =>
         Cardinality(Handed) = 0 /\ \A u \in Threads : Tok(pc[u]) = 1 => u = t)'
<1>1. Types /\ OneToken => \A t \in Threads : Tok(pc[t]) = 1 =>
         Cardinality(Handed) = 0 /\ \A u \in Threads : Tok(pc[u]) = 1 => u = t
  BY TokenUnique
<1> QED BY <1>1, PTL

\* also one that just got it.
LEMMA HolderThen ==
    ASSUME SInv, IInv', NEW t \in Threads, Rest(t), Tok(pc'[t]) = 1, SameCalls
    PROVE  Sole(t) /\ \A b \in Blocks : kind[b] = "bsync" => b \notin signalled'
<1>1. Types' /\ OneToken'
  BY DEF IInv
<1>2. Cardinality(Handed)' = 0 /\ \A v \in Threads : Tok(pc'[v]) = 1 => v = t
  BY <1>1, TokenUniqueThen
<1>3. Handed' = {}
  <2>1. Handed' = {b \in signalled' : kind[b] = "bsync"}
    BY DEF Handed, SameCalls
  <2>2. IsFiniteSet(Handed')
    <3>1. signalled' \subseteq Blocks
      BY DEF IInv, Types
    <3> QED BY <2>1, <3>1, ThreadsFinite, FS_Subset
  <2> QED BY <1>2, <2>2, FS_EmptySet
<1>4. \A u \in Threads \ {t} : Tok(pc[u]) = 0
  BY <1>2 DEF Rest, Tok
<1> QED BY <1>3, <1>4 DEF Sole, Handed, SameCalls

\* What was popped is done, if nobody has the list.
LEMMA PoppedDone ==
    ASSUME SInv, NEW t \in Threads, Sole(t), NEW b \in Blocks, ~KeptBy(t, b), b \notin signalled,
           Popped(b)
    PROVE  status[b] = "done"
BY OthersIdle, ThreadsFinite DEF Popped

\* The fast path of a barrier sync: what its client submitted before is done.
LEMMA LockSerial ==
    ASSUME SInv, IInv', NEW t \in Threads, Lock(t), running = 0
    PROVE  SInv'
<1> USE InHand
<1>1. /\ pc[t] = "lock" /\ pc'[t] = "runlocked" /\ after'[t] = after[t] /\ Rest(t) /\ SameCalls
      /\ suspend' = suspend /\ queued' = queued /\ refs' = refs /\ running' = running + 1
      /\ head' = head /\ tail' = tail /\ next' = next /\ signalled' = signalled
      /\ blk' = blk /\ dc' = dc /\ nextdc' = nextdc /\ sema' = sema /\ prev' = prev
      /\ blk[t] \in Blocks /\ status[blk[t]] = "called" /\ status'[blk[t]] = "running"
      /\ \A c \in Blocks \ {blk[t]} : status'[c] = status[c]
      /\ holds' = holds /\ suspended' = suspended /\ suspends' = suspends
      /\ redirected' = redirected /\ sema[t] = None
  <2>1. pc[t] = "lock" /\ blk[t] \in Blocks /\ status[blk[t]] = "called" /\ sema[t] = None
    BY DEF Lock, AddRunning, Branch, At, Hand, PrePoints, HandPoints, Items, Local, SemaPoints
  <2>2. status \in [Blocks -> Statuses]
    BY DEF SInv, IInv, Types
  <2> QED BY <2>1, <2>2
     DEF Lock, AddRunning, Branch, Start, At, Goto, Rest, SameCalls, listVars, rootVars,
         blockVars, userVars, locals, drainVars
<1>2. Sole(t) /\ signalled = {}
  <2>1. Tok(pc'[t]) = 1
    BY <1>1 DEF Tok, FastPoints
  <2> QED BY <1>1, <2>1, HolderThen DEF SInv, OnlyBarriers
<1>3. OwnedChange(t)
  <2>1. Hand(t)'
    BY <1>1 DEF Hand, HandPoints, PrePoints, WakePoints, CheckPoints, RanPoints, InvokePoints,
                Owe, SameCalls
  <2>2. \A u \in Threads \ {t} : NotHis(u, blk[t])
    <3>1. ASSUME NEW u \in Threads \ {t}
          PROVE  /\ pc[u] \notin {"rundrain", "poprunning"} /\ sema[u] = None
                 /\ blk[u] # blk[t]
      <4>1. pc[u] \in OtherPoints /\ sema[u] = None
        BY <1>2, OthersIdle
      <4>2. blk[u] = blk[t] => u = t
        <5>1. Hand(u) /\ Hand(t) /\ blk[t] # None
          BY <1>1, ThreadsFinite
        <5> QED BY <5>1 DEF Hand
      <4> QED BY <4>1, <4>2 DEF OtherPoints, HeldPoints, RanPoints
    <3> QED BY <1>1, <3>1, ThreadsFinite DEF NotHis, NotDue
  <2> QED BY <1>1, <1>2, <2>1, <2>2 DEF OwnedChange, Kept
<1>4. VisitorsChange(t)
  BY <1>1 DEF VisitorsChange, Visits, Owe, InvokePoints, WakePoints
<1>5. Moved(t) /\ Shift(t, 0) /\ Seer(t)
  BY <1>1, <1>2 DEF Moved, SerialPoints, Points, Shift, Held, Odd, Two, Xfer, Owe, Hit,
         InvokePoints, DrainPoints, FastPoints, SlowPoints, SharePoints, TakePoints, WakePoints,
         Seer, SeePoints, SInv, MoreTypes
<1>6. InLine'
  <2>1. PICK q, n, lo : Line(q, n, lo)
    BY DEF SInv, InLine
  <2>2. \A i \in 1 .. n : q[i] # blk[t]
    BY <1>1, <2>1 DEF Line, States
  <2>3. SameLinks
    BY <1>1 DEF SameLinks, Rest
  <2>4. Listed(q, n, lo)
    <3>1. \A u \in Threads : pc[u] \notin HeldPoints
      BY <1>1, <1>2, OthersIdle
         DEF OtherPoints, HeldPoints, FrontPoints, CheckPoints, RanPoints, TailPoints
    <3> QED BY <2>1, <3>1 DEF Line, Position
  <2>5. MaxSuspends = 0 => \A a \in ahead[blk[t]] : status'[a] = "done"
    <3>1. ASSUME MaxSuspends = 0, NEW a \in ahead[blk[t]] PROVE status[a] = "done" /\ a # blk[t]
      <4>1. a \in Blocks /\ a # blk[t]
        BY <1>1 DEF SInv, MoreTypes, Owned
      <4>2. Found(q, n, lo, a)
        BY <1>1, <2>1, <3>1 DEF Line, Order
      <4>3. \A u \in Threads : pc[u] \notin CheckPoints
        BY <1>1, <1>2, OthersIdle DEF OtherPoints, HeldPoints, CheckPoints
      <4>4. status[a] = "done" \/ Popped(a)
        BY <2>1, <4>2, <4>3 DEF Found, Earlier, Line, States
      <4>5. ~KeptBy(t, a)
        BY <1>1, <4>1, ThreadsFinite DEF KeptBy, RanPoints
      <4> QED BY <1>2, <4>1, <4>4, <4>5, PoppedDone
    <3> QED BY <1>1, <3>1 DEF SInv, MoreTypes
  <2>6. LineChange(t, q, n, lo, lo)
    <3>1. Has(q, n, lo, t)' /\ Listed(q, n, lo)'
      BY <1>1, <2>3, <2>4, PartsStay
         DEF Has, HeldPoints, FrontPoints, CheckPoints, RanPoints, TailPoints
    <3>2. lo \in Nat /\ n \in Nat /\ lo <= n + 1
      BY <2>1 DEF Line, Numbered
    <3>3. Links1(t, q, lo, lo)
      BY <1>1, <3>2 DEF Links1, TailPoints
    <3>4. States1(t, q, n, lo, lo)
      <4>1. \A b \in Blocks : ~KeptBy(t, b)
        BY <1>1, ThreadsFinite DEF KeptBy, RanPoints
      <4>2. \A c \in Blocks : Kept(c) \/ c = blk[t]
        BY <1>1 DEF Kept
      <4>3. \A i \in lo .. n : i \in 1 .. n
        BY <2>1 DEF Line, Numbered
      <4> QED BY <1>1, <2>2, <3>2, <4>1, <4>2, <4>3 DEF States1
    <3>5. MaxSuspends = 0 => Order1(t, lo, lo)
      BY <1>1, <2>5 DEF Order1, CheckPoints
    <3> QED BY <1>1, <3>1, <3>2, <3>3, <3>4, <3>5 DEF LineChange
  <2> QED BY <1>1, <1>2, <2>1, <2>6, LineStep, InLineThen
<1>7. Cardinality(signalled)' = Cardinality(signalled) + 0
  BY <1>1, <1>2, FS_EmptySet
<1> QED BY <1>1, <1>3, <1>4, <1>5, <1>6, <1>7, StepKeeps

\* The block of a call is nobody else's.
LEMMA OwnBlock ==
    ASSUME SInv, NEW t \in Threads, Sole(t), blk[t] # None
    PROVE  \A u \in Threads \ {t} : blk[u] # blk[t] /\ NotHis(u, blk[t])
<1>1. ASSUME NEW u \in Threads \ {t}
      PROVE  blk[u] # blk[t] /\ NotHis(u, blk[t])
  <2>1. pc[u] \in OtherPoints /\ sema[u] = None
    BY OthersIdle
  <2>2. Hand(u) /\ Hand(t)
    BY InHand
  <2> QED BY <2>1, <2>2 DEF NotHis, NotDue, Hand, OtherPoints, HeldPoints, RanPoints
<1> QED BY <1>1

\* A step of the thread that has the right to the list, which leaves the list
\* alone and takes nothing from it.
LEMMA LineKept ==
    ASSUME SInv, NEW t \in Threads, Rest(t), SameCalls, Sole(t),
           head' = head, tail' = tail, next' = next, {pc[t], pc'[t]} \cap HeldPoints = {},
           {pc[t], pc'[t]} \cap {"link", "sethead"} = {}, pc'[t] \notin {"looksuspended", "lock"},
           sema'[t] \in {sema[t], None},
           NEW q, NEW n, NEW lo, Line(q, n, lo), States1(t, q, n, lo, lo),
           MaxSuspends = 0 => \A b \in Blocks : status'[b] = "running" =>
               status[b] = "running" \/ \A a \in ahead[b] : status'[a] = "done"
    PROVE  Line(q, n, lo)'
<1>1. SameLinks
  BY DEF SameLinks, Rest
<1>2. Listed(q, n, lo)
  <2>1. \A u \in Threads : pc[u] \notin HeldPoints
    BY OthersIdle DEF OtherPoints, HeldPoints
  <2> QED BY <2>1 DEF Line, Position
<1>3. Has(q, n, lo, t)' /\ Listed(q, n, lo)'
  <2>1. Has(q, n, lo, t) /\ Listed(q, n, lo)'
    BY <1>1, <1>2, PartsStay DEF Line, Position
  <2> QED BY <2>1 DEF Has, HeldPoints
<1>4. lo \in Nat /\ n \in Nat /\ lo <= n + 1
  BY DEF Line, Numbered
<1>5. Links1(t, q, lo, lo) /\ (MaxSuspends = 0 => Order1(t, lo, lo))
  BY <1>4 DEF Links1, Order1, HeldPoints, CheckPoints
<1>6. LineChange(t, q, n, lo, lo)
  BY <1>3, <1>4, <1>5 DEF LineChange
<1> QED BY <1>6, LineStep

\* The end of a block that ran with the lock.
LEMMA LeaveSerial ==
    ASSUME SInv, IInv', NEW t \in Threads, LeaveLocked(t) \/ LeaveSlow(t)
    PROVE  SInv'
<1> USE InHand
<1>1. /\ \/ pc[t] = "runlocked" /\ pc'[t] \in {"unlockrunning", "handover"}
         \/ pc[t] = "runslow" /\ pc'[t] \in {"slowrunning", "slowsuspend"}
      /\ after'[t] = after[t] /\ Rest(t) /\ SameCalls
      /\ suspend' = suspend /\ queued' = queued /\ refs' = refs /\ running' = running
      /\ head' = head /\ tail' = tail /\ next' = next /\ signalled' = signalled
      /\ blk'[t] = None /\ dc' = dc /\ nextdc' = nextdc /\ sema' = sema /\ prev' = prev
      /\ blk[t] \in Blocks /\ status[blk[t]] = "running" /\ status'[blk[t]] = "done"
      /\ \A c \in Blocks \ {blk[t]} : status'[c] = status[c]
      /\ holds' = holds /\ suspended' = suspended /\ suspends' = suspends
      /\ redirected' = redirected /\ sema[t] = None
  <2>1. /\ pc[t] \in {"runlocked", "runslow"} /\ blk[t] \in Blocks /\ status[blk[t]] = "running"
        /\ sema[t] = None
    BY DEF LeaveLocked, LeaveSlow, At, Hand, HandPoints, Items, Local, SemaPoints
  <2>2. status \in [Blocks -> Statuses] /\ blk \in [Threads -> Items]
    BY DEF SInv, IInv, Types
  <2> QED BY <2>1, <2>2
     DEF LeaveLocked, LeaveSlow, Finish, Forget, At, Goto, Rest, SameCalls, listVars, rootVars,
         blockVars, userVars, drainVars, shared, countVars
<1>2. Sole(t) /\ signalled = {}
  <2>1. Tok(pc[t]) = 1
    BY <1>1 DEF Tok, FastPoints, SlowPoints
  <2> QED BY <2>1, HolderSole
<1>3. OwnedChange(t)
  <2>1. Hand(t)'
    BY <1>1 DEF Hand, HandPoints, PrePoints, WakePoints, CheckPoints, RanPoints, InvokePoints,
                Owe, SameCalls
  <2>2. \A u \in Threads \ {t} : NotHis(u, blk[t])
    BY <1>1, <1>2, OwnBlock, ThreadsFinite
  <2> QED BY <1>1, <1>2, <2>1, <2>2 DEF OwnedChange, Kept
<1>4. VisitorsChange(t)
  BY <1>1 DEF VisitorsChange, Visits, Owe, InvokePoints, WakePoints
<1>5. Moved(t) /\ Shift(t, 0) /\ Seer(t)
  BY <1>1, <1>2 DEF Moved, SerialPoints, Points, Shift, Held, Odd, Two, Xfer, Owe, Hit,
         InvokePoints, DrainPoints, FastPoints, SlowPoints, SharePoints, TakePoints, WakePoints,
         Seer, SeePoints, SInv, MoreTypes
<1>6. InLine'
  <2>1. PICK q, n, lo : Line(q, n, lo)
    BY DEF SInv, InLine
  <2>2. States1(t, q, n, lo, lo)
    <3>1. \A b \in Blocks : KeptBy(t, b) => Popped(b)'
      BY <1>1, ThreadsFinite DEF KeptBy, RanPoints, Popped
    <3>2. \A c \in Blocks : Kept(c) \/ c = blk[t]
      BY <1>1 DEF Kept
    <3>3. \A i \in lo .. n : q[i] # blk[t]
      BY <1>1, <2>1 DEF Line, States, Numbered
    <3>4. lo # lo + 1
      BY <2>1 DEF Line, Numbered
    <3> QED BY <1>1, <3>1, <3>2, <3>3, <3>4 DEF States1
  <2>3. \A b \in Blocks : status'[b] = "running" => status[b] = "running"
    BY <1>1
  <2>4. {pc[t], pc'[t]} \cap HeldPoints = {}
    BY <1>1 DEF HeldPoints, FrontPoints, CheckPoints, RanPoints, TailPoints
  <2> QED BY <1>1, <1>2, <2>1, <2>2, <2>3, <2>4, LineKept, InLineThen
<1>7. Cardinality(signalled)' = Cardinality(signalled) + 0
  BY <1>1, <1>2, FS_EmptySet
<1> QED BY <1>1, <1>3, <1>4, <1>5, <1>6, <1>7, StepKeeps

\* A pushed block wakes up: what its client submitted before is done.
LEMMA ResumedSerial ==
    ASSUME SInv, IInv', NEW t \in Threads, Resumed(t)
    PROVE  SInv'
<1> USE InHand
<1>1. /\ pc[t] = "wait" /\ pc'[t] = "runslow"
      /\ after'[t] = after[t] /\ Rest(t) /\ SameCalls
      /\ suspend' = suspend /\ queued' = queued /\ refs' = refs /\ running' = running
      /\ head' = head /\ tail' = tail /\ next' = next /\ signalled' = signalled \ {blk[t]}
      /\ blk' = blk /\ dc' = dc /\ nextdc' = nextdc /\ sema' = sema /\ prev' = prev
      /\ blk[t] \in Blocks /\ blk[t] \in signalled
      /\ status[blk[t]] = "queued" /\ status'[blk[t]] = "running"
      /\ \A c \in Blocks \ {blk[t]} : status'[c] = status[c]
      /\ holds' = holds /\ suspended' = suspended /\ suspends' = suspends
      /\ redirected' = redirected /\ sema[t] = None
  <2>1. /\ pc[t] = "wait" /\ blk[t] \in Blocks /\ status[blk[t]] = "queued" /\ sema[t] = None
        /\ kind[blk[t]] = "bsync"
    BY DEF Resumed, At, Hand, HandPoints, Items, Local, SemaPoints, SInv, OnlyBarriers
  <2>2. status \in [Blocks -> Statuses] /\ blk \in [Threads -> Items]
    BY DEF SInv, IInv, Types
  <2> QED BY <2>1, <2>2
     DEF Resumed, Start, At, Goto, Rest, SameCalls, listVars, rootVars,
         blockVars, userVars, drainVars, locals, countVars
<1>2. Sole(t) /\ signalled' = {}
  <2>1. Tok(pc'[t]) = 1
    BY <1>1 DEF Tok, SlowPoints
  <2> QED BY <1>1, <2>1, HolderThen DEF SInv, OnlyBarriers
<1>3. OwnedChange(t)
  <2>1. Hand(t)'
    BY <1>1 DEF Hand, HandPoints, PrePoints, WakePoints, CheckPoints, RanPoints, InvokePoints,
                Owe, SameCalls
  <2>2. \A u \in Threads \ {t} : NotHis(u, blk[t])
    BY <1>1, <1>2, OwnBlock, ThreadsFinite
  <2> QED BY <1>1, <1>2, <2>1, <2>2 DEF OwnedChange, Kept
<1>4. VisitorsChange(t)
  BY <1>1 DEF VisitorsChange, Visits, Owe, InvokePoints, WakePoints
<1>5. Moved(t) /\ Shift(t, -1) /\ Seer(t)
  BY <1>1, <1>2 DEF Moved, SerialPoints, Points, Shift, Held, Odd, Two, Xfer, Owe, Hit,
         InvokePoints, DrainPoints, FastPoints, SlowPoints, SharePoints, TakePoints, WakePoints,
         Seer, SeePoints, SInv, MoreTypes
<1>6. InLine'
  <2>1. PICK q, n, lo : Line(q, n, lo)
    BY DEF SInv, InLine
  <2>2. PICK j \in 1 .. lo - 1 : j \in 1 .. n /\ q[j] = blk[t]
    BY <1>1, <2>1 DEF Line, States, Numbered
  <2>3. States1(t, q, n, lo, lo)
    <3>1. \A b \in Blocks : b \in signalled => Popped(b)'
      BY <1>1, <1>2 DEF KeptBy, Popped
    <3>2. \A c \in Blocks : Kept(c) \/ c = blk[t]
      BY <1>1 DEF Kept
    <3>3. \A i \in lo .. n : q[i] # blk[t]
      BY <1>1, <2>1 DEF Line, States, Numbered
    <3>4. lo # lo + 1
      BY <2>1 DEF Line, Numbered
    <3>5. \A b \in Blocks : ~KeptBy(t, b)
      BY <1>1, ThreadsFinite DEF KeptBy, RanPoints
    <3> QED BY <1>1, <3>1, <3>2, <3>3, <3>4, <3>5 DEF States1
  <2>4. ASSUME MaxSuspends = 0, NEW a \in ahead[blk[t]] PROVE status'[a] = "done"
    <3>1. a \in Blocks /\ Earlier(a, q, j - 1)
      BY <1>1, <2>1, <2>2, <2>4 DEF Line, Order, SInv, MoreTypes
    <3>2. status[a] = "done" \/ (Popped(a) /\ a # blk[t])
      <4>1. ASSUME NEW i \in 1 .. j - 1, q[i] = a PROVE Popped(a) /\ a # blk[t]
        BY <2>1, <2>2, <4>1 DEF Line, Numbered, States
      <4> QED BY <3>1, <4>1 DEF Earlier
    <3>3. ~KeptBy(t, a) /\ (a # blk[t] => a \notin signalled)
      BY <1>1, <1>2, <3>1, ThreadsFinite DEF KeptBy, RanPoints
    <3> QED BY <1>1, <1>2, <3>1, <3>2, <3>3, PoppedDone
  <2>5. {pc[t], pc'[t]} \cap HeldPoints = {}
    BY <1>1 DEF HeldPoints, FrontPoints, CheckPoints, RanPoints, TailPoints
  <2>6. MaxSuspends = 0 => \A b \in Blocks : status'[b] = "running" =>
               status[b] = "running" \/ \A a \in ahead[b] : status'[a] = "done"
    BY <1>1, <2>4
  <2> QED BY <1>1, <1>2, <2>1, <2>3, <2>5, <2>6, LineKept, InLineThen
<1>7. Cardinality(signalled)' = Cardinality(signalled) + (-1)
  BY <1>1, SetsFinite, FS_RemoveElement DEF SInv, IInv
<1> QED BY <1>1, <1>3, <1>4, <1>5, <1>6, <1>7, StepKeeps

-----------------------------------------------------------------------------
(* Items are taken from the list, or put back.                              *)

\* A step of the thread that has the right to the list which only changes the list,
\* the counters and what it has taken.
Pulls(t) ==
    /\ Rest(t) /\ SameCalls /\ status' = status /\ signalled' = signalled
    /\ blk' = blk /\ prev' = prev /\ refs' = refs /\ queued' = queued
    /\ holds' = holds /\ suspended' = suspended /\ suspends' = suspends
    /\ redirected' = redirected /\ tail' \in Items
    /\ pc'[t] \in SerialPoints \ (HandPoints \cup {"idle"}) /\ after'[t] # "push"
    /\ pc'[t] \in SeePoints /\ pc'[t] \notin WakePoints /\ Tok(pc[t]) = 1
PullLine(t, q, n, lo, k) ==
    /\ k \in {lo, lo + 1} /\ k <= n + 1
    /\ Has(q, n, k, t)' /\ (pc'[t] \in HeldPoints \/ Listed(q, n, k)')
    /\ Links1(t, q, lo, k)
    /\ \A b \in Blocks : KeptBy(t, b) => KeptBy(t, b)'
    /\ k = lo + 1 => KeptBy(t, q[lo])'
    /\ MaxSuspends = 0 => /\ pc[t] \in CheckPoints /\ k = lo => pc'[t] \in CheckPoints
                          /\ pc'[t] \notin {"undo", "undospin"}
\* the step keeps the invariant.
LEMMA PullKeeps ==
    ASSUME SInv, IInv', NEW t \in Threads, Pulls(t), Hand(t)', Visits(t)' => Visits(t),
           Shift(t, 0), NEW q, NEW n, NEW lo, NEW k, Line(q, n, lo), PullLine(t, q, n, lo, k)
    PROVE  SInv'
<1> USE DEF Pulls
<1>1. Sole(t) /\ signalled = {}
  BY HolderSole
<1>2. pc[t] \notin PrePoints \cup {"link", "sethead"}
  BY DEF Tok, PrePoints, DrainPoints, FastPoints, SlowPoints, TakePoints
<1>3. OwnedChange(t)
  <2>1. \A c \in Blocks : blk[t] = c => status[c] # "called"
    BY <1>2, InHand, ThreadsFinite DEF Hand, HandPoints, Tok, WakePoints, DrainPoints,
       FastPoints, SlowPoints, TakePoints
  <2>2. signalled \subseteq Blocks
    BY InHand
  <2> QED BY <1>1, <2>1, <2>2 DEF OwnedChange, Kept
<1>4. VisitorsChange(t)
  BY DEF VisitorsChange
<1>5. Moved(t) /\ Seer(t)
  BY <1>1 DEF Moved, Seer, HandPoints, PrePoints, SInv, MoreTypes
<1>6. InLine'
  <2>1. States1(t, q, n, lo, k)
    BY DEF PullLine, States1, Kept, Popped
  <2>2. MaxSuspends = 0 => Order1(t, lo, k)
    BY DEF PullLine, Order1
  <2>3. LineChange(t, q, n, lo, k)
    BY <1>2, <2>1, <2>2 DEF LineChange, PullLine, HandPoints, PrePoints
  <2> QED BY <1>1, <2>3, LineStep, InLineThen
<1>7. Cardinality(signalled)' = Cardinality(signalled) + 0
  BY <1>1, FS_EmptySet
<1> QED BY <1>3, <1>4, <1>5, <1>6, <1>7, StepKeeps

\* The first item is a barrier sync, and is taken by the thread that ended one.
LEMMA TakeOneSerial ==
    ASSUME SInv, IInv', NEW t \in Threads, TakeOne(t)
    PROVE  SInv'
<1> USE InHand
<1>1. /\ pc[t] = "take" /\ head \in Blocks /\ kind[head] = "bsync"
      /\ sema'[t] = head /\ head' = next[head] /\ tail' = tail /\ next' = next
      /\ \/ next[head] # None /\ pc'[t] = after[t] /\ after'[t] = "idle"
         \/ next[head] = None /\ pc'[t] = "taketail" /\ after'[t] = after[t]
      /\ after[t] \in {"xfersuspend", "xfersignal"}
      /\ running' = running /\ suspend' = suspend /\ dc' = dc /\ nextdc' = nextdc
  BY DEF TakeOne, Return, Stay, At, Goto, SInv, IInv, Types, Items, Local, TakePoints,
         countVars, listVars, rootVars, shared
<1>2. Pulls(t)
  BY <1>1 DEF Pulls, TakeOne, Return, Stay, At, Goto, Rest, SameCalls, SerialPoints, Points,
         HandPoints, PrePoints, SeePoints, FastPoints, SlowPoints, TakePoints, WakePoints, Tok,
         countVars, listVars, rootVars, shared, history, blockVars, userVars, SInv, MoreTypes
<1>3. PICK q, n, lo : Line(q, n, lo)
  BY DEF SInv, InLine
<1>4. Sole(t) /\ signalled = {}
  BY <1>2, HolderSole DEF Pulls
<1>5. /\ n \in Nat /\ lo \in 1 .. n /\ lo + 1 <= n + 1 /\ lo + 1 > 1 /\ (lo + 1) - 1 = lo
      /\ head = q[lo] /\ Body(q, n, lo) /\ NoFirst /\ q[lo] \in Blocks
      /\ \A u \in Threads : pc[u] \notin HeldPoints
  <2>1. \A u \in Threads : pc[u] \notin HeldPoints
    BY <1>1, <1>4, OthersIdle
       DEF OtherPoints, HeldPoints, FrontPoints, CheckPoints, RanPoints, TailPoints
  <2>2. Listed(q, n, lo) /\ Numbered(q, n, lo)
    BY <1>3, <2>1 DEF Line, Position
  <2>3. Body(q, n, lo) /\ head = q[lo] /\ NoFirst
    BY <1>1, <2>2, ThreadsFinite DEF Listed
  <2> QED BY <2>1, <2>2, <2>3 DEF Numbered, Body
<1>6. status[head] = "queued"
  BY <1>3, <1>5 DEF Line, States
<1>7. Hand(t)' /\ (Visits(t)' => Visits(t))
  BY <1>1, <1>2, <1>4, <1>6 DEF Pulls, Hand, HandPoints, PrePoints, WakePoints, CheckPoints,
       RanPoints, InvokePoints, Owe, SameCalls, Visits
<1>8. Shift(t, 0)
  BY <1>1, <1>2 DEF Pulls, Shift, Held, Odd, Two, Xfer, Owe, Hit, InvokePoints, DrainPoints,
         FastPoints, SlowPoints, SharePoints, TakePoints, WakePoints
<1>10. PullLine(t, q, n, lo, lo + 1)
  <2>1. /\ Body(q, n, lo)' /\ NoFirst'
    BY <1>1, <1>2, <1>5 DEF Body, Follows, NoFirst, Pulls, Rest
  <2>2. next[q[lo]] # None => lo + 1 \in 1 .. n /\ next[q[lo]] = q[lo + 1]
    BY <1>5 DEF Body, Follows
  <2>3. Has(q, n, lo + 1, t)' /\ (pc'[t] \in HeldPoints \/ Listed(q, n, lo + 1)')
    <3>1. CASE next[head] # None
      <4>1. Listed(q, n, lo + 1)'
        BY <1>1, <1>5, <2>1, <2>2, <3>1 DEF Listed, Body
      <4> QED BY <1>1, <1>5, <3>1, <4>1
              DEF Has, HeldPoints, FrontPoints, CheckPoints, RanPoints, TailPoints
    <3>2. CASE next[head] = None
      <4>1. pc'[t] = "taketail" /\ Taken(q, n, lo)'
        BY <1>1, <1>5, <2>1, <3>2 DEF Taken
      <4> QED BY <1>1, <1>5, <4>1, ThreadsFinite
              DEF Has, HeldPoints, FrontPoints, CheckPoints, RanPoints, TailPoints
    <3> QED BY <3>1, <3>2
  <2>4. Links1(t, q, lo, lo + 1)
    <3>1. CASE next[head] # None
      <4>1. \A u \in Threads : pc[u] = "link" => next[prev[u]] = None
        BY <1>3 DEF Line, Links
      <4> QED BY <1>1, <1>5, <3>1, <4>1 DEF Links1, TailPoints
    <3>2. CASE next[head] = None
      BY <1>1, <1>5, <3>2 DEF Links1, TailPoints
    <3> QED BY <3>1, <3>2
  <2>5. (\A b \in Blocks : ~KeptBy(t, b)) /\ KeptBy(t, q[lo])'
    BY <1>1, <1>5, ThreadsFinite DEF KeptBy, RanPoints, Local, SemaPoints
  <2> QED BY <1>1, <1>5, <2>3, <2>4, <2>5 DEF PullLine, CheckPoints
<1> QED BY <1>2, <1>3, <1>7, <1>8, <1>10, PullKeeps

\* The first item is where the head says, when somebody can take it.
LEMMA FirstItem ==
    ASSUME SInv, NEW t \in Threads, Sole(t), pc[t] \notin HeldPoints,
           NEW q, NEW n, NEW lo, Line(q, n, lo), head # None
    PROVE  lo \in 1 .. n /\ head = q[lo] /\ Body(q, n, lo) /\ NoFirst
<1>1. \A u \in Threads : pc[u] \notin HeldPoints
  BY OthersIdle DEF OtherPoints
<1>2. Listed(q, n, lo) /\ Numbered(q, n, lo)
  BY <1>1 DEF Line, Position
<1>3. Body(q, n, lo) /\ head = q[lo] /\ NoFirst
  BY <1>2 DEF Listed
<1> QED BY <1>2, <1>3 DEF Numbered, Body

\* The links stay as they are.
LEMMA BodyStays ==
    ASSUME NEW t \in Threads, Pulls(t), next' = next
    PROVE  /\ NoFirst' = NoFirst /\ \A q, i : Unlinked(q, i)' = Unlinked(q, i)
           /\ \A q, n, k : tail' = tail => Body(q, n, k)' = Body(q, n, k)
           /\ \A q, n, k : tail' = tail /\ head' = head =>
                  Listed(q, n, k)' = Listed(q, n, k) /\ Taken(q, n, k)' = Taken(q, n, k)
<1>1. /\ {pc[t], pc'[t]} \cap {"link", "sethead"} = {} /\ blk' = blk /\ prev' = prev
      /\ \A u \in Threads : pc'[u] # pc[u] => u = t
  BY DEF Pulls, Rest, Tok, HandPoints, PrePoints, DrainPoints, FastPoints, SlowPoints, TakePoints
<1>2. NoFirst' = NoFirst /\ \A q, i : Unlinked(q, i)' = Unlinked(q, i)
  BY <1>1 DEF NoFirst, Unlinked
<1>3. \A q, i : Follows(q, i)' = Follows(q, i)
  BY <1>1 DEF Follows
<1>4. \A q, n, k : tail' = tail => Body(q, n, k)' = Body(q, n, k)
  BY <1>3 DEF Body
<1>5. \A q, k : First(q, k)' = First(q, k)
  BY <1>1 DEF First
<1> QED BY <1>2, <1>4, <1>5 DEF Listed, Taken

\* The thread that took it was right to take it for the last, or was not.
LEMMA TakeOneTailSerial ==
    ASSUME SInv, IInv', NEW t \in Threads, TakeOneTail(t)
    PROVE  SInv'
<1> USE InHand
<1>1. /\ pc[t] = "taketail" /\ next' = next /\ head' = head
      /\ dc' = dc /\ nextdc' = nextdc /\ sema' = sema
      /\ \/ tail = sema[t] /\ tail' = None /\ pc'[t] = after[t] /\ after'[t] = "idle"
         \/ tail # sema[t] /\ tail' = tail /\ pc'[t] = "takelink" /\ after'[t] = after[t]
      /\ after[t] \in {"xfersuspend", "xfersignal"}
      /\ running' = running /\ suspend' = suspend
  BY DEF TakeOneTail, Return, Stay, At, Goto, Local, TakePoints, countVars, listVars, rootVars,
         shared, drainVars
<1>2. Pulls(t)
  BY <1>1 DEF Pulls, TakeOneTail, Return, Stay, At, Goto, Rest, SameCalls, SerialPoints, Points,
         HandPoints, PrePoints, SeePoints, InvokePoints, FastPoints, SlowPoints, TakePoints,
         DrainPoints, WakePoints, Tok, countVars, listVars, rootVars, shared, history, locals,
         drainVars, blockVars, userVars, SInv, MoreTypes, Items
<1>3. PICK q, n, lo : Line(q, n, lo)
  BY DEF SInv, InLine
<1>4. Sole(t) /\ signalled = {} /\ Has(q, n, lo, t) /\ Numbered(q, n, lo)
  BY <1>2, <1>3, HolderSole DEF Pulls, Line, Position
<1>5. Hand(t)' /\ (Visits(t)' => Visits(t))
  BY <1>1, <1>2, <1>4 DEF Pulls, Hand, HandPoints, PrePoints, WakePoints, CheckPoints,
       RanPoints, InvokePoints, Owe, SameCalls, Visits
<1>6. Shift(t, 0)
  BY <1>1, <1>2, ThreadsFinite DEF Pulls, Shift, Held, Odd, Two, Xfer, Owe, Hit, InvokePoints,
        DrainPoints,
         FastPoints, SlowPoints, SharePoints, TakePoints, WakePoints, Local, SemaPoints
<1>7. PullLine(t, q, n, lo, lo)
  <2>1. /\ lo > 1 /\ sema[t] = q[lo - 1] /\ sema[t] # None /\ Body(q, n, lo - 1) /\ head = None
        /\ NoFirst
    BY <1>1, <1>4 DEF Has, TailPoints, Taken
  <2>2. lo - 1 \in 1 .. n /\ n \in Nat /\ lo \in Nat
    BY <1>4, <2>1 DEF Numbered, Body
  <2>3. CASE tail = sema[t]
    <3>1. lo = n + 1
      <4>1. q[n] = q[lo - 1] /\ n \in 1 .. n
        BY <2>1, <2>2, <2>3 DEF Body
      <4>2. lo - 1 = n
        BY <1>4, <2>2, <4>1 DEF Numbered
      <4> QED BY <2>2, <4>2
    <3>2. Listed(q, n, lo)'
      BY <1>1, <1>2, <2>1, <2>3, <3>1, BodyStays DEF Listed
    <3>3. \A u \in Threads : pc[u] = "link" => prev[u] # q[lo - 1]
      BY <1>3, <1>4, <2>2, <3>1 DEF Line, Links, Numbered
    <3> QED BY <1>1, <2>1, <2>2, <2>3, <3>2, <3>3, ThreadsFinite
            DEF PullLine, Links1, Has, KeptBy, HeldPoints, FrontPoints, CheckPoints, RanPoints,
                  TailPoints
  <2>4. CASE tail # sema[t]
    <3>1. lo <= n
      <4>1. tail = q[n]
        BY <2>1 DEF Body
      <4> QED BY <2>1, <2>2, <2>4, <4>1
    <3>2. Taken(q, n, lo - 1)'
      <4>1. Taken(q, n, lo - 1)
        BY <2>1 DEF Taken
      <4> QED BY <1>1, <1>2, <2>4, <4>1, BodyStays
    <3> QED BY <1>1, <2>1, <2>2, <2>4, <3>1, <3>2, ThreadsFinite
            DEF PullLine, Links1, Has, KeptBy, HeldPoints, FrontPoints, CheckPoints, RanPoints,
                  TailPoints
  <2> QED BY <2>3, <2>4
<1> QED BY <1>2, <1>3, <1>5, <1>6, <1>7, PullKeeps

\* There is another item, and it is the first one now.
LEMMA TakeOneLinkSerial ==
    ASSUME SInv, IInv', NEW t \in Threads, TakeOneLink(t)
    PROVE  SInv'
<1> USE InHand
<1>1. /\ pc[t] = "takelink" /\ next' = next /\ tail' = tail
      /\ dc' = dc /\ nextdc' = nextdc /\ sema' = sema
      /\ next[sema[t]] # None /\ head' = next[sema[t]]
      /\ pc'[t] = after[t] /\ after'[t] = "idle"
      /\ after[t] \in {"xfersuspend", "xfersignal"}
      /\ running' = running /\ suspend' = suspend
  BY DEF TakeOneLink, Return, At, Goto, Local, TakePoints, countVars, listVars, rootVars,
         shared, drainVars
<1>2. Pulls(t)
  BY <1>1 DEF Pulls, TakeOneLink, Return, At, Goto, Rest, SameCalls, SerialPoints, Points,
         HandPoints, PrePoints, SeePoints, InvokePoints, FastPoints, SlowPoints, TakePoints,
         DrainPoints, WakePoints, Tok, countVars, listVars, rootVars, shared, history, locals,
         drainVars, blockVars, userVars, SInv, MoreTypes, Items
<1>3. PICK q, n, lo : Line(q, n, lo)
  BY DEF SInv, InLine
<1>4. Sole(t) /\ signalled = {} /\ Has(q, n, lo, t) /\ Numbered(q, n, lo)
  BY <1>2, <1>3, HolderSole DEF Pulls, Line, Position
<1>5. Hand(t)' /\ (Visits(t)' => Visits(t))
  BY <1>1, <1>2, <1>4 DEF Pulls, Hand, HandPoints, PrePoints, WakePoints, CheckPoints,
       RanPoints, InvokePoints, Owe, SameCalls, Visits
<1>6. Shift(t, 0)
  BY <1>1, <1>2, ThreadsFinite DEF Pulls, Shift, Held, Odd, Two, Xfer, Owe, Hit, InvokePoints,
        DrainPoints,
         FastPoints, SlowPoints, SharePoints, TakePoints, WakePoints, Local, SemaPoints
<1>7. PullLine(t, q, n, lo, lo)
  <2>1. /\ lo > 1 /\ sema[t] = q[lo - 1] /\ sema[t] # None /\ Body(q, n, lo - 1) /\ head = None
        /\ NoFirst /\ lo <= n
    BY <1>1, <1>4 DEF Has, TailPoints, Taken
  <2>2. lo - 1 \in 1 .. n - 1 /\ (lo - 1) + 1 = lo /\ n \in Nat /\ lo \in Nat
    BY <1>4, <2>1 DEF Numbered
  <2>3. head' = q[lo]
    BY <1>1, <2>1, <2>2 DEF Body, Follows
  <2>4. Body(q, n, lo)
    BY <2>1, <2>2 DEF Body
  <2>5. Listed(q, n, lo)'
    <3>1. Body(q, n, lo)' /\ NoFirst'
      BY <1>1, <1>2, <2>1, <2>4, BodyStays
    <3> QED BY <2>3, <3>1 DEF Listed
  <2>6. \A u \in Threads : pc[u] = "link" => prev[u] # q[lo - 1]
    BY <1>1, <1>3, <2>1 DEF Line, Links
  <2> QED BY <1>1, <2>1, <2>2, <2>5, <2>6, ThreadsFinite
          DEF PullLine, Links1, Has, KeptBy, HeldPoints, FrontPoints, CheckPoints, RanPoints,
                TailPoints
<1> QED BY <1>2, <1>3, <1>5, <1>6, <1>7, PullKeeps

\* The drain takes the first item,
LEMMA DrainHeadSerial ==
    ASSUME SInv, IInv', NEW t \in Threads, DrainHead(t)
    PROVE  SInv'
<1> USE InHand
<1>1. /\ pc[t] = "takehead" /\ pc'[t] = "next" /\ next' = next /\ tail' = tail
      /\ head # None /\ head' = None /\ dc'[t] = head /\ nextdc' = nextdc /\ sema' = sema
      /\ after' = after /\ running' = running /\ suspend' = suspend
  BY DEF DrainHead, At, Goto, SInv, IInv, Types, countVars, listVars, rootVars, shared, drainVars
<1>2. Pulls(t)
  BY <1>1 DEF Pulls, DrainHead, At, Goto, Rest, SameCalls, SerialPoints, Points,
         HandPoints, PrePoints, SeePoints, InvokePoints, FastPoints, SlowPoints, TakePoints,
         DrainPoints, WakePoints, Tok, countVars, listVars, rootVars, shared, history, locals,
         drainVars, blockVars, userVars, SInv, MoreTypes, Items
<1>3. PICK q, n, lo : Line(q, n, lo)
  BY DEF SInv, InLine
<1>4. Sole(t) /\ signalled = {} /\ Has(q, n, lo, t) /\ Numbered(q, n, lo)
  BY <1>2, <1>3, HolderSole DEF Pulls, Line, Position
<1>5. Hand(t)' /\ (Visits(t)' => Visits(t))
  BY <1>1, <1>2, <1>4 DEF Pulls, Hand, HandPoints, PrePoints, WakePoints, CheckPoints,
       RanPoints, InvokePoints, Owe, SameCalls, Visits
<1>6. Shift(t, 0)
  BY <1>1, <1>2, ThreadsFinite DEF Pulls, Shift, Held, Odd, Two, Xfer, Owe, Hit, InvokePoints,
        DrainPoints,
         FastPoints, SlowPoints, SharePoints, TakePoints, WakePoints, Local, SemaPoints
<1>7. PullLine(t, q, n, lo, lo)
  <2>1. lo \in 1 .. n /\ head = q[lo] /\ Body(q, n, lo) /\ NoFirst
    BY <1>1, <1>3, <1>4, FirstItem DEF HeldPoints, FrontPoints, CheckPoints, RanPoints, TailPoints
  <2>2. Taken(q, n, lo)'
    BY <1>1, <1>2, <2>1, BodyStays DEF Taken
  <2> QED BY <1>1, <1>4, <2>1, <2>2, ThreadsFinite
          DEF PullLine, Links1, Has, KeptBy, Numbered, Local, SemaPoints, HeldPoints, FrontPoints,
                CheckPoints, RanPoints, TailPoints
<1> QED BY <1>2, <1>3, <1>5, <1>6, <1>7, PullKeeps

\* reads its successor,
LEMMA DrainNextSerial ==
    ASSUME SInv, IInv', NEW t \in Threads, DrainNext(t)
    PROVE  SInv'
<1> USE InHand
<1>1. /\ pc[t] = "next" /\ next' = next /\ tail' = tail /\ head' = head
      /\ dc' = dc /\ nextdc'[t] = next[dc[t]] /\ sema' = sema
      /\ \/ next[dc[t]] = None /\ pc'[t] = "cleartail"
         \/ next[dc[t]] # None /\ pc'[t] = "checksuspended"
      /\ after' = after /\ running' = running /\ suspend' = suspend
  BY DEF DrainNext, At, Goto, SInv, IInv, Types, countVars, listVars, rootVars, shared, drainVars
<1>2. Pulls(t)
  BY <1>1 DEF Pulls, DrainNext, At, Goto, Rest, SameCalls, SerialPoints, Points,
         HandPoints, PrePoints, SeePoints, InvokePoints, FastPoints, SlowPoints, TakePoints,
         DrainPoints, WakePoints, Tok, countVars, listVars, rootVars, shared, history, locals,
         drainVars, blockVars, userVars, SInv, MoreTypes, Items
<1>3. PICK q, n, lo : Line(q, n, lo)
  BY DEF SInv, InLine
<1>4. Sole(t) /\ signalled = {} /\ Has(q, n, lo, t) /\ Numbered(q, n, lo)
  BY <1>2, <1>3, HolderSole DEF Pulls, Line, Position
<1>5. Hand(t)' /\ (Visits(t)' => Visits(t))
  BY <1>1, <1>2, <1>4 DEF Pulls, Hand, HandPoints, PrePoints, WakePoints, CheckPoints,
       RanPoints, InvokePoints, Owe, SameCalls, Visits
<1>6. Shift(t, 0)
  BY <1>1, <1>2, ThreadsFinite DEF Pulls, Shift, Held, Odd, Two, Xfer, Owe, Hit, InvokePoints,
        DrainPoints,
         FastPoints, SlowPoints, SharePoints, TakePoints, WakePoints, Local, SemaPoints
<1>7. PullLine(t, q, n, lo, lo)
  <2>1. lo <= n /\ dc[t] = q[lo] /\ Taken(q, n, lo)
    BY <1>1, <1>4 DEF Has, FrontPoints
  <2>2. Taken(q, n, lo)'
    BY <1>1, <1>2, <2>1, BodyStays
  <2>3. next[dc[t]] # None => lo < n /\ next[q[lo]] = q[lo + 1]
    BY <1>4, <2>1 DEF Taken, Body, Follows, Numbered
  <2> QED BY <1>1, <1>4, <2>1, <2>2, <2>3, ThreadsFinite
          DEF PullLine, Links1, Has, KeptBy, Numbered, Local, SemaPoints, HeldPoints, FrontPoints,
                CheckPoints, RanPoints, TailPoints
<1> QED BY <1>2, <1>3, <1>5, <1>6, <1>7, PullKeeps

\* makes sure that it has none,
LEMMA DrainClearTailSerial ==
    ASSUME SInv, IInv', NEW t \in Threads, DrainClearTail(t)
    PROVE  SInv'
<1> USE InHand
<1>1. /\ pc[t] = "cleartail" /\ next' = next /\ head' = head
      /\ dc' = dc /\ nextdc' = nextdc /\ sema' = sema
      /\ \/ tail = dc[t] /\ tail' = None /\ pc'[t] = "checksuspended"
         \/ tail # dc[t] /\ tail' = tail /\ pc'[t] = "spinnext"
      /\ after' = after /\ running' = running /\ suspend' = suspend
  BY DEF DrainClearTail, At, Goto, SInv, IInv, Types, countVars, listVars, rootVars, shared,
         drainVars, locals
<1>2. Pulls(t)
  BY <1>1 DEF Pulls, DrainClearTail, At, Goto, Rest, SameCalls, SerialPoints, Points,
         HandPoints, PrePoints, SeePoints, InvokePoints, FastPoints, SlowPoints, TakePoints,
         DrainPoints, WakePoints, Tok, countVars, listVars, rootVars, shared, history, locals,
         drainVars, blockVars, userVars, SInv, MoreTypes, Items
<1>3. PICK q, n, lo : Line(q, n, lo)
  BY DEF SInv, InLine
<1>4. Sole(t) /\ signalled = {} /\ Has(q, n, lo, t) /\ Numbered(q, n, lo)
  BY <1>2, <1>3, HolderSole DEF Pulls, Line, Position
<1>5. Hand(t)' /\ (Visits(t)' => Visits(t))
  BY <1>1, <1>2, <1>4 DEF Pulls, Hand, HandPoints, PrePoints, WakePoints, CheckPoints,
       RanPoints, InvokePoints, Owe, SameCalls, Visits
<1>6. Shift(t, 0)
  BY <1>1, <1>2, ThreadsFinite DEF Pulls, Shift, Held, Odd, Two, Xfer, Owe, Hit, InvokePoints,
        DrainPoints,
         FastPoints, SlowPoints, SharePoints, TakePoints, WakePoints, Local, SemaPoints
<1>7. PullLine(t, q, n, lo, lo)
  <2>1. lo <= n /\ dc[t] = q[lo] /\ Body(q, n, lo) /\ head = None /\ NoFirst /\ nextdc[t] = None
    BY <1>1, <1>4 DEF Has, FrontPoints, Taken, Hand, CheckPoints, RanPoints
  <2>2. n \in Nat /\ lo \in 1 .. n
    BY <1>4, <2>1 DEF Numbered
  <2>3. CASE tail = dc[t]
    <3>1. lo = n
      <4>1. q[n] = q[lo] /\ n \in 1 .. n
        BY <2>1, <2>2, <2>3 DEF Body
      <4> QED BY <1>4, <2>2, <4>1 DEF Numbered
    <3>2. Listed(q, n, lo + 1)'
      BY <1>1, <1>2, <2>1, <2>3, <3>1, ThreadsFinite, BodyStays DEF Listed
    <3>3. \A u \in Threads : pc[u] = "link" => prev[u] # q[lo]
      BY <1>3, <1>4, <2>2, <3>1 DEF Line, Links, Numbered
    <3>4. Unlinked(q, lo)'
      <4>1. Unlinked(q, lo)
        BY <2>1, <3>1, <3>3 DEF Unlinked, Body
      <4> QED BY <1>1, <1>2, <4>1, BodyStays
    <3> QED BY <1>1, <1>4, <2>1, <2>2, <2>3, <3>2, <3>4, ThreadsFinite
            DEF PullLine, Links1, Has, KeptBy, Local, SemaPoints, HeldPoints, FrontPoints,
                  CheckPoints, RanPoints, TailPoints
  <2>4. CASE tail # dc[t]
    <3>1. lo < n
      <4>1. tail = q[n]
        BY <2>1 DEF Body
      <4> QED BY <2>1, <2>2, <2>4, <4>1
    <3>2. Taken(q, n, lo)'
      <4>1. Taken(q, n, lo)
        BY <2>1 DEF Taken
      <4> QED BY <1>1, <1>2, <2>4, <4>1, BodyStays
    <3> QED BY <1>1, <1>4, <2>1, <2>2, <2>4, <3>1, <3>2, ThreadsFinite
            DEF PullLine, Links1, Has, KeptBy, Local, SemaPoints, HeldPoints, FrontPoints,
                  CheckPoints, RanPoints, TailPoints
  <2> QED BY <2>3, <2>4
<1> QED BY <1>2, <1>3, <1>5, <1>6, <1>7, PullKeeps

\* or waits for it.
LEMMA DrainSpinSerial ==
    ASSUME SInv, IInv', NEW t \in Threads, DrainSpin(t)
    PROVE  SInv'
<1> USE InHand
<1>1. /\ pc[t] = "spinnext" /\ pc'[t] = "checksuspended"
      /\ next' = next /\ tail' = tail /\ head' = head
      /\ dc' = dc /\ nextdc'[t] = next[dc[t]] /\ next[dc[t]] # None /\ sema' = sema
      /\ after' = after /\ running' = running /\ suspend' = suspend
  BY DEF DrainSpin, At, Goto, SInv, IInv, Types, countVars, listVars, rootVars, shared, drainVars
<1>2. Pulls(t)
  BY <1>1 DEF Pulls, DrainSpin, At, Goto, Rest, SameCalls, SerialPoints, Points,
         HandPoints, PrePoints, SeePoints, InvokePoints, FastPoints, SlowPoints, TakePoints,
         DrainPoints, WakePoints, Tok, countVars, listVars, rootVars, shared, history, locals,
         drainVars, blockVars, userVars, SInv, MoreTypes, Items
<1>3. PICK q, n, lo : Line(q, n, lo)
  BY DEF SInv, InLine
<1>4. Sole(t) /\ signalled = {} /\ Has(q, n, lo, t) /\ Numbered(q, n, lo)
  BY <1>2, <1>3, HolderSole DEF Pulls, Line, Position
<1>5. Hand(t)' /\ (Visits(t)' => Visits(t))
  BY <1>1, <1>2, <1>4 DEF Pulls, Hand, HandPoints, PrePoints, WakePoints, CheckPoints,
       RanPoints, InvokePoints, Owe, SameCalls, Visits
<1>6. Shift(t, 0)
  BY <1>1, <1>2, ThreadsFinite DEF Pulls, Shift, Held, Odd, Two, Xfer, Owe, Hit, InvokePoints,
        DrainPoints,
         FastPoints, SlowPoints, SharePoints, TakePoints, WakePoints, Local, SemaPoints
<1>7. PullLine(t, q, n, lo, lo)
  <2>1. lo <= n /\ dc[t] = q[lo] /\ Taken(q, n, lo)
    BY <1>1, <1>4 DEF Has, FrontPoints
  <2>2. Taken(q, n, lo)'
    BY <1>1, <1>2, <2>1, BodyStays
  <2>3. lo < n /\ next[q[lo]] = q[lo + 1]
    BY <1>1, <1>4, <2>1 DEF Taken, Body, Follows, Numbered
  <2> QED BY <1>1, <1>4, <2>1, <2>2, <2>3, ThreadsFinite
          DEF PullLine, Links1, Has, KeptBy, Numbered, Local, SemaPoints, HeldPoints, FrontPoints,
                CheckPoints, RanPoints, TailPoints
<1> QED BY <1>2, <1>3, <1>5, <1>6, <1>7, PullKeeps

\* The list is as the line says, when nobody has taken anything from it.
LEMMA ListedNow ==
    ASSUME SInv, NEW t \in Threads, Sole(t), pc[t] \notin HeldPoints,
           NEW q, NEW n, NEW lo, Line(q, n, lo)
    PROVE  Listed(q, n, lo)
<1>1. \A u \in Threads : pc[u] \notin HeldPoints
  BY OthersIdle DEF OtherPoints
<1> QED BY <1>1 DEF Line, Position

\* A drain has popped the item it took.
LEMMA PopLine ==
    ASSUME SInv, NEW t \in Threads, pc[t] = "pop", Rest(t), pc'[t] \in RanPoints,
           head' = head, tail' = tail, next' = next, dc' = dc, nextdc' = nextdc, sema' = sema,
           NEW q, NEW n, NEW lo, Line(q, n, lo)
    PROVE  Has(q, n, lo + 1, t)' /\ Links1(t, q, lo, lo + 1)
<1>1. Has(q, n, lo, t) /\ Numbered(q, n, lo) /\ sema[t] = None
  BY InHand DEF Line, Position, Local, SemaPoints
<1>2. n \in Nat /\ lo \in Nat /\ (lo + 1) - 1 = lo /\ lo <= n /\ lo + 1 > 1
      /\ dc[t] = q[lo] /\ q[lo] \in Blocks /\ \A i \in 1 .. n : q[i] \in Blocks
  BY <1>1 DEF Has, CheckPoints, Numbered
<1>3. \/ nextdc[t] = None /\ Unlinked(q, lo) /\ Listed(q, n, lo + 1)
      \/ /\ lo < n /\ nextdc[t] = q[lo + 1] /\ next[q[lo]] = q[lo + 1] /\ Taken(q, n, lo)
  BY <1>1 DEF Has, CheckPoints
<1>4. Has(q, n, lo + 1, t)'
  <2>1. \A k : Listed(q, n, k)' = Listed(q, n, k) /\ Taken(q, n, k)' = Taken(q, n, k)
    <3>1. SameLinks
      BY DEF SameLinks, Rest, RanPoints
    <3> QED BY <3>1, PartsStay
  <2>2. \/ nextdc[t] = None /\ Listed(q, n, lo + 1)'
        \/ lo + 1 <= n /\ nextdc[t] = q[lo + 1] /\ Taken(q, n, lo + 1)'
    <3>1. CASE nextdc[t] = None /\ Listed(q, n, lo + 1)
      BY <2>1, <3>1
    <3>2. CASE lo < n /\ nextdc[t] = q[lo + 1] /\ Taken(q, n, lo)
      <4>1. Taken(q, n, lo + 1)
        BY <1>2, <3>2 DEF Taken, Body
      <4> QED BY <1>2, <2>1, <3>2, <4>1
    <3> QED BY <1>3, <3>1, <3>2
  <2>3. lo + 1 > 1 /\ dc'[t] = q[(lo + 1) - 1] /\ sema'[t] = None
    BY <1>1, <1>2
  <2> QED BY <2>2, <2>3 DEF Has, HeldPoints, FrontPoints, CheckPoints, RanPoints, TailPoints
<1>5. Links1(t, q, lo, lo + 1)
  <2>1. \A u \in Threads : pc[u] = "link" => prev[u] # q[lo]
    <3>1. \A u \in Threads : pc[u] = "link" => next[prev[u]] = None
      BY DEF Line, Links
    <3> QED BY <1>2, <1>3, <3>1, ThreadsFinite DEF Unlinked
  <2> QED BY <1>2, <2>1 DEF Links1, TailPoints
<1> QED BY <1>4, <1>5

\* A barrier sync gets the lock: the drain ends,
LEMMA PopSuspendSerial ==
    ASSUME SInv, IInv', NEW t \in Threads, PopSuspend(t)
    PROVE  SInv'
<1> USE InHand
<1>1. /\ pc[t] = "pop" /\ pc'[t] = "poprunning" /\ kind[dc[t]] = "bsync"
      /\ next' = next /\ tail' = tail /\ head' = head
      /\ dc' = dc /\ nextdc' = nextdc /\ sema' = sema
      /\ after' = after /\ running' = running /\ suspend' = suspend + 2
  BY DEF PopSuspend, AddSuspend, At, Goto, INTERVAL, SInv, IInv, Types, countVars, listVars,
        rootVars, shared, drainVars, locals,
         history, blockVars, userVars
<1>2. Pulls(t)
  BY <1>1 DEF Pulls, PopSuspend, AddSuspend, At, Goto, Rest, SameCalls, SerialPoints, Points,
         HandPoints, PrePoints, SeePoints, InvokePoints, FastPoints, SlowPoints, TakePoints,
         DrainPoints, WakePoints, Tok, countVars, listVars, rootVars, shared, history, locals,
         drainVars, blockVars, userVars, SInv, MoreTypes, Items
<1>3. PICK q, n, lo : Line(q, n, lo)
  BY DEF SInv, InLine
<1>4. Sole(t) /\ signalled = {} /\ Has(q, n, lo, t) /\ Numbered(q, n, lo)
  BY <1>2, <1>3, HolderSole DEF Pulls, Line, Position
<1>8. status[dc[t]] = "queued" /\ dc[t] \notin signalled
  BY <1>1, <1>3, <1>4 DEF Has, CheckPoints, Numbered, Line, States
<1>5. Hand(t)' /\ (Visits(t)' => Visits(t))
  BY <1>1, <1>2, <1>4, <1>8 DEF Pulls, Hand, HandPoints, PrePoints, WakePoints, CheckPoints,
       RanPoints, InvokePoints, Owe, SameCalls, Visits
<1>6. Shift(t, 0)
  BY <1>1, <1>2, ThreadsFinite DEF Pulls, Shift, Held, Odd, Two, Xfer, Owe, Hit, InvokePoints,
        DrainPoints,
         FastPoints, SlowPoints, SharePoints, TakePoints, WakePoints, Local, SemaPoints
<1>7. PullLine(t, q, n, lo, lo + 1)
  <2>1. n \in Nat /\ lo \in Nat /\ (lo + 1) - 1 = lo /\ lo <= n /\ lo + 1 > 1
        /\ dc[t] = q[lo] /\ q[lo] \in Blocks /\ \A i \in 1 .. n : q[i] \in Blocks
    BY <1>1, <1>4 DEF Has, CheckPoints, Numbered
  <2>2. Has(q, n, lo + 1, t)' /\ Links1(t, q, lo, lo + 1)
    BY <1>1, <1>2, <1>3, PopLine DEF Pulls, RanPoints
  <2>5. (\A b \in Blocks : ~KeptBy(t, b)) /\ KeptBy(t, q[lo])'
    BY <1>1, <2>1, ThreadsFinite DEF KeptBy, RanPoints, Local, SemaPoints
  <2> QED BY <1>1, <2>1, <2>2, <2>5 DEF PullLine, HeldPoints, RanPoints
<1> QED BY <1>2, <1>3, <1>5, <1>6, <1>7, PullKeeps

\* and goes on to put the rest back,
LEMMA PopRunningSerial ==
    ASSUME SInv, IInv', NEW t \in Threads, PopRunning(t)
    PROVE  SInv'
<1> USE InHand
<1>1. /\ pc[t] = "poprunning" /\ next' = next /\ tail' = tail /\ head' = head
      /\ \/ nextdc[t] = None /\ pc'[t] = "finish"
         \/ nextdc[t] # None /\ pc'[t] = "restore"
      /\ dc'[t] = nextdc[t] /\ nextdc' = nextdc /\ sema'[t] = dc[t] /\ dc[t] \in Blocks
      /\ after' = after /\ running' = running + 2 /\ suspend' = suspend
  BY DEF PopRunning, AddRunning, At, Goto, Local, ItemPoints, Items, SInv, IInv, Types, countVars,
        listVars, rootVars, shared, drainVars, locals,
         history, blockVars, userVars
<1>2. Pulls(t)
  BY <1>1 DEF Pulls, PopRunning, AddRunning, At, Goto, Rest, SameCalls, SerialPoints, Points,
         HandPoints, PrePoints, SeePoints, InvokePoints, FastPoints, SlowPoints, TakePoints,
         DrainPoints, WakePoints, Tok, countVars, listVars, rootVars, shared, history, locals,
         drainVars, blockVars, userVars, SInv, MoreTypes, Items
<1>3. PICK q, n, lo : Line(q, n, lo)
  BY DEF SInv, InLine
<1>4. Sole(t) /\ signalled = {} /\ Has(q, n, lo, t) /\ Numbered(q, n, lo)
  BY <1>2, <1>3, HolderSole DEF Pulls, Line, Position
<1>5. Hand(t)' /\ (Visits(t)' => Visits(t))
  BY <1>1, <1>2, <1>4 DEF Pulls, Hand, HandPoints, PrePoints, WakePoints, CheckPoints,
       RanPoints, InvokePoints, Owe, SameCalls, Visits
<1>6. Shift(t, 0)
  BY <1>1, <1>2, ThreadsFinite DEF Pulls, Shift, Held, Odd, Two, Xfer, Owe, Hit, InvokePoints,
        DrainPoints,
         FastPoints, SlowPoints, SharePoints, TakePoints, WakePoints, Local, SemaPoints
<1>7. PullLine(t, q, n, lo, lo)
  <2>1. n \in Nat /\ lo \in Nat /\ lo > 1 /\ dc[t] = q[lo - 1] /\ lo <= n + 1
    BY <1>1, <1>4 DEF Has, RanPoints, Numbered
  <2>2. \/ nextdc[t] = None /\ Listed(q, n, lo)
        \/ lo <= n /\ nextdc[t] = q[lo] /\ Taken(q, n, lo) /\ q[lo] \in Blocks
    BY <1>1, <1>4 DEF Has, RanPoints, Numbered
  <2>3. CASE nextdc[t] = None /\ Listed(q, n, lo)
    <3>1. Listed(q, n, lo)'
      BY <1>1, <1>2, <2>3, BodyStays
    <3> QED BY <1>1, <2>1, <2>3, <3>1, ThreadsFinite
            DEF PullLine, Links1, Has, KeptBy, Local, SemaPoints, HeldPoints, FrontPoints,
                  CheckPoints, RanPoints, TailPoints
  <2>4. CASE lo <= n /\ nextdc[t] = q[lo] /\ Taken(q, n, lo) /\ q[lo] \in Blocks
    <3>1. Body(q, n, lo)' /\ NoFirst' /\ head' = None
      BY <1>1, <1>2, <2>4, BodyStays DEF Taken
    <3> QED BY <1>1, <2>1, <2>4, <3>1, ThreadsFinite
            DEF PullLine, Links1, Has, KeptBy, Local, SemaPoints, HeldPoints, FrontPoints,
                  CheckPoints, RanPoints, TailPoints
  <2> QED BY <2>2, <2>3, <2>4
<1> QED BY <1>2, <1>3, <1>5, <1>6, <1>7, PullKeeps

\* as does one that has found a reason to stop.
LEMMA UndoSerial ==
    ASSUME SInv, IInv', NEW t \in Threads, Undo(t)
    PROVE  SInv'
<1> USE InHand
<1>1. /\ pc[t] = "undo" /\ next' = next /\ head' = head
      /\ \/ nextdc[t] = None /\ tail = None /\ tail' = dc[t] /\ pc'[t] = "restore"
         \/ nextdc[t] = None /\ tail # None /\ tail' = tail /\ pc'[t] = "undospin"
         \/ nextdc[t] # None /\ tail' = tail /\ pc'[t] = "restore"
      /\ dc' = dc /\ nextdc' = nextdc /\ sema' = sema
      /\ after' = after /\ running' = running /\ suspend' = suspend
  BY DEF Undo, At, Goto, SInv, IInv, Types, countVars, listVars, rootVars, shared, drainVars,
        locals,
         history, blockVars, userVars
<1>2. Pulls(t)
  BY <1>1 DEF Pulls, Undo, At, Goto, Rest, SameCalls, SerialPoints, Points,
         HandPoints, PrePoints, SeePoints, InvokePoints, FastPoints, SlowPoints, TakePoints,
         DrainPoints, WakePoints, Tok, countVars, listVars, rootVars, shared, history, locals,
         drainVars, blockVars, userVars, SInv, MoreTypes, Items
<1>3. PICK q, n, lo : Line(q, n, lo)
  BY DEF SInv, InLine
<1>4. Sole(t) /\ signalled = {} /\ Has(q, n, lo, t) /\ Numbered(q, n, lo)
  BY <1>2, <1>3, HolderSole DEF Pulls, Line, Position
<1>5. Hand(t)' /\ (Visits(t)' => Visits(t))
  BY <1>1, <1>2, <1>4 DEF Pulls, Hand, HandPoints, PrePoints, WakePoints, CheckPoints,
       RanPoints, InvokePoints, Owe, SameCalls, Visits
<1>6. Shift(t, 0)
  BY <1>1, <1>2, ThreadsFinite DEF Pulls, Shift, Held, Odd, Two, Xfer, Owe, Hit, InvokePoints,
        DrainPoints,
         FastPoints, SlowPoints, SharePoints, TakePoints, WakePoints, Local, SemaPoints
<1>7. PullLine(t, q, n, lo, lo)
  <2>1. n \in Nat /\ lo \in Nat /\ lo <= n /\ lo <= n + 1 /\ dc[t] = q[lo] /\ q[lo] \in Blocks
    BY <1>1, <1>4 DEF Has, CheckPoints, Numbered
  <2>2. \/ nextdc[t] = None /\ Unlinked(q, lo) /\ Listed(q, n, lo + 1)
        \/ lo < n /\ nextdc[t] = q[lo + 1] /\ Taken(q, n, lo) /\ q[lo + 1] \in Blocks
    BY <1>1, <1>4 DEF Has, CheckPoints, Numbered
  <2>3. MaxSuspends # 0
    BY <1>1, <1>3 DEF Line, Order
  <2>4. CASE nextdc[t] = None /\ tail = None
    <3>1. lo = n /\ head = None /\ NoFirst /\ Unlinked(q, lo)
      BY <2>1, <2>2, <2>4, <1>4, ThreadsFinite DEF Listed, Body, Numbered
    <3>2. Body(q, n, lo)' /\ NoFirst'
      <4>1. tail' = q[n] /\ next'[q[n]] = None /\ ~(\E i \in lo .. n - 1 : TRUE)
        BY <1>1, <2>1, <2>4, <3>1, ThreadsFinite DEF Unlinked
      <4> QED BY <1>1, <1>2, <2>1, <3>1, <4>1, BodyStays DEF Body
    <3> QED BY <1>1, <2>1, <2>3, <2>4, <3>1, <3>2, ThreadsFinite
            DEF PullLine, Links1, Has, KeptBy, Local, SemaPoints, HeldPoints, FrontPoints,
                  CheckPoints, RanPoints, TailPoints
  <2>5. CASE nextdc[t] = None /\ tail # None
    <3>1. Unlinked(q, lo) /\ Listed(q, n, lo + 1)
      BY <2>2, <2>5, ThreadsFinite
    <3>2. lo < n
      BY <2>1, <2>5, <3>1 DEF Listed, Body
    <3>3. Unlinked(q, lo)' /\ Listed(q, n, lo + 1)'
      BY <1>1, <1>2, <2>5, <3>1, BodyStays
    <3> QED BY <1>1, <2>1, <2>3, <2>5, <3>2, <3>3, ThreadsFinite
            DEF PullLine, Links1, Has, KeptBy, Local, SemaPoints, HeldPoints, FrontPoints,
                  CheckPoints, RanPoints, TailPoints
  <2>6. CASE nextdc[t] # None
    <3>1. Body(q, n, lo)' /\ NoFirst' /\ head' = None
      BY <1>1, <1>2, <2>2, <2>6, BodyStays DEF Taken
    <3> QED BY <1>1, <2>1, <2>3, <2>6, <3>1, ThreadsFinite
            DEF PullLine, Links1, Has, KeptBy, Local, SemaPoints, HeldPoints, FrontPoints,
                  CheckPoints, RanPoints, TailPoints
  <2> QED BY <2>4, <2>5, <2>6
<1> QED BY <1>2, <1>3, <1>5, <1>6, <1>7, PullKeeps

\* The item is linked to one that was pushed meanwhile,
LEMMA UndoSpinSerial ==
    ASSUME SInv, IInv', NEW t \in Threads, UndoSpin(t)
    PROVE  SInv'
<1> USE InHand
<1>1. /\ pc[t] = "undospin" /\ pc'[t] = "restore" /\ tail' = tail /\ head' = head
      /\ head # None /\ dc[t] \in Blocks /\ next'[dc[t]] = head
      /\ \A c \in Blocks \ {dc[t]} : next'[c] = next[c]
      /\ dc' = dc /\ nextdc' = nextdc /\ sema' = sema
      /\ after' = after /\ running' = running /\ suspend' = suspend
  BY DEF UndoSpin, At, Goto, Local, ItemPoints, Items, SInv, IInv, Types, countVars, listVars,
        rootVars, shared, drainVars, locals,
         history, blockVars, userVars
<1>2. Pulls(t)
  BY <1>1 DEF Pulls, UndoSpin, At, Goto, Rest, SameCalls, SerialPoints, Points,
         HandPoints, PrePoints, SeePoints, InvokePoints, FastPoints, SlowPoints, TakePoints,
         DrainPoints, WakePoints, Tok, countVars, listVars, rootVars, shared, history, locals,
         drainVars, blockVars, userVars, SInv, MoreTypes, Items
<1>3. PICK q, n, lo : Line(q, n, lo)
  BY DEF SInv, InLine
<1>4. Sole(t) /\ signalled = {} /\ Has(q, n, lo, t) /\ Numbered(q, n, lo)
  BY <1>2, <1>3, HolderSole DEF Pulls, Line, Position
<1>5. Hand(t)' /\ (Visits(t)' => Visits(t))
  BY <1>1, <1>2, <1>4 DEF Pulls, Hand, HandPoints, PrePoints, WakePoints, CheckPoints,
       RanPoints, InvokePoints, Owe, SameCalls, Visits
<1>6. Shift(t, 0)
  BY <1>1, <1>2, ThreadsFinite DEF Pulls, Shift, Held, Odd, Two, Xfer, Owe, Hit, InvokePoints,
        DrainPoints,
         FastPoints, SlowPoints, SharePoints, TakePoints, WakePoints, Local, SemaPoints
<1>7. PullLine(t, q, n, lo, lo)
  <2>1. n \in Nat /\ lo \in Nat /\ lo < n /\ lo <= n + 1 /\ dc[t] = q[lo] /\ q[lo] \in Blocks
        /\ nextdc[t] = None
    BY <1>1, <1>4 DEF Has, CheckPoints, Numbered
  <2>2. Unlinked(q, lo) /\ Listed(q, n, lo + 1)
    BY <1>1, <1>4, <2>1, ThreadsFinite DEF Has, CheckPoints, Numbered
  <2>3. Body(q, n, lo + 1) /\ head = q[lo + 1] /\ NoFirst
    BY <1>1, <2>2 DEF Listed
  <2>4. MaxSuspends # 0
    BY <1>1, <1>3 DEF Line, Order
  <2>5. Pulls(t) /\ {pc[t], pc'[t]} \cap {"link", "sethead"} = {}
        /\ \A u \in Threads : pc'[u] # pc[u] => u = t
    BY <1>1, <1>2 DEF Pulls, Rest
  <2>6. \A i \in lo + 1 .. n : q[i] \in Blocks \ {q[lo]} /\ next'[q[i]] = next[q[i]]
    BY <1>1, <1>4, <2>1 DEF Numbered
  <2>7. Body(q, n, lo)'
    <3>1. \A i \in lo + 1 .. n - 1 : Follows(q, i)'
      <4>1. \A i \in lo + 1 .. n - 1 : Follows(q, i) /\ next'[q[i]] = next[q[i]]
        BY <2>1, <2>3, <2>6 DEF Body
      <4>2. \A u \in Threads : pc'[u] = "link" <=> pc[u] = "link"
        BY <2>5
      <4> QED BY <2>5, <4>1, <4>2 DEF Follows, Pulls
    <3>2. Follows(q, lo)'
      BY <1>1, <2>1, <2>3 DEF Follows
    <3>3. \A i \in lo .. n - 1 : i = lo \/ i \in lo + 1 .. n - 1
      BY <2>1
    <3>4. next'[q[n]] = None /\ tail' = q[n]
      BY <1>1, <2>1, <2>3, <2>6 DEF Body
    <3> QED BY <2>1, <3>1, <3>2, <3>3, <3>4 DEF Body
  <2>8. NoFirst'
    BY <2>3, <2>5 DEF NoFirst
  <2>9. \A u \in Threads : pc[u] = "link" => next'[prev[u]] = next[prev[u]]
    <3>1. \A u \in Threads : pc[u] = "link" => prev[u] \in Blocks \ {q[lo]}
      <4>1. \A u \in Threads : pc[u] = "link" => prev[u] \in Blocks
        BY <1>3, <1>4, <2>1 DEF Line, Links, Numbered
      <4> QED BY <2>2, <4>1 DEF Unlinked
    <3> QED BY <1>1, <2>1, <3>1
  <2> QED BY <1>1, <2>1, <2>3, <2>4, <2>7, <2>8, <2>9, ThreadsFinite
          DEF PullLine, Links1, Has, KeptBy, Local, SemaPoints, HeldPoints, FrontPoints,
                CheckPoints, RanPoints, TailPoints
<1> QED BY <1>2, <1>3, <1>5, <1>6, <1>7, PullKeeps

\* and is the head again.
LEMMA RestoreSerial ==
    ASSUME SInv, IInv', NEW t \in Threads, Restore(t)
    PROVE  SInv'
<1> USE InHand
<1>1. /\ pc[t] = "restore" /\ pc'[t] = "finish" /\ tail' = tail /\ head' = dc[t]
      /\ next' = next /\ dc' = dc /\ nextdc' = nextdc /\ sema' = sema
      /\ after' = after /\ running' = running /\ suspend' = suspend
  BY DEF Restore, At, Goto, SInv, IInv, Types, countVars, listVars, rootVars, shared, drainVars,
        locals,
         history, blockVars, userVars
<1>2. Pulls(t)
  BY <1>1 DEF Pulls, Restore, At, Goto, Rest, SameCalls, SerialPoints, Points,
         HandPoints, PrePoints, SeePoints, InvokePoints, FastPoints, SlowPoints, TakePoints,
         DrainPoints, WakePoints, Tok, countVars, listVars, rootVars, shared, history, locals,
         drainVars, blockVars, userVars, SInv, MoreTypes, Items
<1>3. PICK q, n, lo : Line(q, n, lo)
  BY DEF SInv, InLine
<1>4. Sole(t) /\ signalled = {} /\ Has(q, n, lo, t) /\ Numbered(q, n, lo)
  BY <1>2, <1>3, HolderSole DEF Pulls, Line, Position
<1>5. Hand(t)' /\ (Visits(t)' => Visits(t))
  BY <1>1, <1>2, <1>4 DEF Pulls, Hand, HandPoints, PrePoints, WakePoints, CheckPoints,
       RanPoints, InvokePoints, Owe, SameCalls, Visits
<1>6. Shift(t, 0)
  BY <1>1, <1>2, ThreadsFinite DEF Pulls, Shift, Held, Odd, Two, Xfer, Owe, Hit, InvokePoints,
        DrainPoints,
         FastPoints, SlowPoints, SharePoints, TakePoints, WakePoints, Local, SemaPoints
<1>7. PullLine(t, q, n, lo, lo)
  <2>1. n \in Nat /\ lo \in Nat /\ lo <= n + 1 /\ dc[t] = q[lo] /\ Body(q, n, lo) /\ NoFirst
    BY <1>1, <1>4 DEF Has, Numbered
  <2>2. Body(q, n, lo)' /\ NoFirst'
    BY <1>1, <1>2, <2>1, BodyStays
  <2>3. Listed(q, n, lo)'
    BY <1>1, <2>1, <2>2 DEF Listed
  <2> QED BY <1>1, <1>4, <2>1, <2>3, ThreadsFinite
          DEF PullLine, Links1, Has, KeptBy, Local, SemaPoints, HeldPoints, FrontPoints,
                CheckPoints, RanPoints, TailPoints
<1> QED BY <1>2, <1>3, <1>5, <1>6, <1>7, PullKeeps

\* Nothing drains any more.
LEMMA InvokeDoneSerial ==
    ASSUME SInv, IInv', NEW t \in Threads, InvokeDone(t)
    PROVE  SInv'
<1> USE InHand
<1>1. /\ pc[t] = "finish" /\ tail' = tail /\ head' = head /\ next' = next
      /\ \/ sema[t] # None /\ pc'[t] = "invokesignal"
         \/ sema[t] = None /\ pc'[t] = "unlock"
      /\ dc'[t] = None /\ nextdc'[t] = None /\ sema' = sema
      /\ after' = after /\ running' = running - 1 /\ suspend' = suspend
  BY DEF InvokeDone, AddRunning, At, Goto, SInv, IInv, Types, countVars, listVars, rootVars,
        shared, drainVars, locals,
         history, blockVars, userVars
<1>2. Pulls(t)
  BY <1>1 DEF Pulls, InvokeDone, AddRunning, At, Goto, Rest, SameCalls, SerialPoints, Points,
         HandPoints, PrePoints, SeePoints, InvokePoints, FastPoints, SlowPoints, TakePoints,
         DrainPoints, WakePoints, Tok, countVars, listVars, rootVars, shared, history, locals,
         drainVars, blockVars, userVars, SInv, MoreTypes, Items
<1>3. PICK q, n, lo : Line(q, n, lo)
  BY DEF SInv, InLine
<1>4. Sole(t) /\ signalled = {} /\ Has(q, n, lo, t) /\ Numbered(q, n, lo)
  BY <1>2, <1>3, HolderSole DEF Pulls, Line, Position
<1>5. Hand(t)' /\ (Visits(t)' => Visits(t))
  BY <1>1, <1>2, <1>4 DEF Pulls, Hand, HandPoints, PrePoints, WakePoints, CheckPoints,
       RanPoints, InvokePoints, Owe, SameCalls, Visits
<1>6. Shift(t, 0)
  BY <1>1, <1>2, ThreadsFinite DEF Pulls, Shift, Held, Odd, Two, Xfer, Owe, Hit, InvokePoints,
        DrainPoints,
         FastPoints, SlowPoints, SharePoints, TakePoints, WakePoints, Local, SemaPoints
<1>7. PullLine(t, q, n, lo, lo)
  <2>1. n \in Nat /\ lo \in Nat /\ lo <= n + 1
    BY <1>4 DEF Numbered
  <2>2. Listed(q, n, lo)'
    <3>1. Listed(q, n, lo)
      BY <1>1, <1>3, <1>4, ListedNow DEF HeldPoints, FrontPoints, CheckPoints, RanPoints, TailPoints
    <3> QED BY <1>1, <1>2, <3>1, BodyStays
  <2> QED BY <1>1, <1>4, <2>1, <2>2, ThreadsFinite
          DEF PullLine, Links1, Has, KeptBy, Local, SemaPoints, HeldPoints, FrontPoints,
                CheckPoints, RanPoints, TailPoints
<1> QED BY <1>2, <1>3, <1>5, <1>6, <1>7, PullKeeps

\* The block of an asynchronous call runs on the drain: the thread that pushed
\* it has done with it.
LEMMA PopRunSerial ==
    ASSUME SInv, IInv', NEW t \in Threads, PopRun(t)
    PROVE  SInv'
<1> USE InHand
<1>1. /\ pc[t] = "pop" /\ pc'[t] = "rundrain" /\ after'[t] = after[t] /\ Rest(t) /\ SameCalls
      /\ suspend' = suspend /\ queued' = queued /\ refs' = refs /\ running' = running
      /\ head' = head /\ tail' = tail /\ next' = next /\ signalled' = signalled
      /\ blk' = blk /\ dc' = dc /\ nextdc' = nextdc /\ sema' = sema /\ prev' = prev
      /\ dc[t] \in Blocks /\ kind[dc[t]] = "barrier" /\ status'[dc[t]] = "running"
      /\ \A c \in Blocks \ {dc[t]} : status'[c] = status[c]
      /\ holds' = holds /\ suspended' = suspended /\ suspends' = suspends
      /\ redirected' = redirected /\ sema[t] = None /\ blk[t] = None /\ t \in Workers
  <2>1. /\ pc[t] = "pop" /\ dc[t] \in Blocks /\ kind[dc[t]] = "barrier" /\ sema[t] = None
        /\ blk[t] = None /\ t \in Workers
    BY DEF PopRun, At, Local, ItemPoints, SemaPoints, Items, Barriers, Hand, InvokePoints
  <2>2. status \in [Blocks -> Statuses]
    BY DEF SInv, IInv, Types
  <2> QED BY <2>1, <2>2
     DEF PopRun, Start, At, Goto, Rest, SameCalls, shared, countVars, listVars, rootVars,
         blockVars, userVars, locals, drainVars
<1>2. Sole(t) /\ signalled = {}
  <2>1. Tok(pc[t]) = 1
    BY <1>1 DEF Tok, DrainPoints
  <2> QED BY <2>1, HolderSole
<1>3. PICK q, n, lo : Line(q, n, lo)
  BY DEF SInv, InLine
<1>4. /\ lo \in 1 .. n /\ dc[t] = q[lo] /\ status[dc[t]] = "queued"
      /\ \/ Listed(q, n, lo + 1) \/ NoFirst
  BY <1>1, <1>3 DEF Line, Position, Has, CheckPoints, Numbered, States, Taken
<1>5. OwnedChange(t)
  <2>1. Hand(t)'
    BY <1>1, <1>2 DEF Hand, HandPoints, PrePoints, WakePoints, CheckPoints, RanPoints, InvokePoints,
                Owe, SameCalls
  <2>2. ASSUME NEW u \in Threads \ {t} PROVE NotHis(u, dc[t])
    <3>1. pc[u] \in OtherPoints /\ sema[u] = None
      BY <1>2, OthersIdle
    <3>2. ASSUME blk[u] = dc[t], pc[u] \in HandPoints PROVE FALSE
      <4>1. pc[u] \in {"link", "sethead"}
        BY <1>1, <1>4, <3>1, <3>2 DEF Hand, HandPoints, PrePoints, OtherPoints, Local, Syncs
      <4>2. CASE pc[u] = "link"
        <5>1. \A v \in Threads : pc[v] \notin TailPoints
          BY <1>1, <1>2, OthersIdle DEF OtherPoints, HeldPoints, TailPoints
        <5>2. PICK i \in 1 .. n - 1 : blk[u] = q[i + 1] /\ i >= lo
          BY <1>3, <4>2, <5>1 DEF Line, Links
        <5>3. i + 1 \in 1 .. n /\ lo \in 1 .. n /\ i + 1 # lo /\ q[i + 1] = q[lo]
          BY <1>3, <1>4, <3>2, <5>2 DEF Line, Numbered
        <5> QED BY <1>3, <5>3 DEF Line, Numbered
      <4>3. CASE pc[u] = "sethead"
        <5>1. First(q, lo + 1) /\ Body(q, n, lo + 1)
          BY <1>4, <4>3 DEF NoFirst, Listed
        <5>2. blk[u] = q[lo + 1] /\ lo + 1 \in 1 .. n
          BY <1>3, <1>4, <4>3, <5>1 DEF First, Body, Line, Numbered
        <5>3. lo \in 1 .. n /\ lo + 1 # lo /\ q[lo + 1] = q[lo]
          BY <1>3, <1>4, <3>2, <5>2 DEF Line, Numbered
        <5> QED BY <1>3, <5>2, <5>3 DEF Line, Numbered
      <4> QED BY <4>1, <4>2, <4>3
    <3> QED BY <1>1, <3>1, <3>2, ThreadsFinite DEF NotHis, NotDue, OtherPoints, HeldPoints,
          RanPoints
  <2> QED BY <1>1, <1>2, <1>4, <2>1, <2>2, ThreadsFinite DEF OwnedChange
<1>6. VisitorsChange(t)
  BY <1>1, <1>4 DEF VisitorsChange, Visits, Owe, InvokePoints, WakePoints
<1>7. Moved(t) /\ Shift(t, 0) /\ Seer(t)
  BY <1>1, <1>2 DEF Moved, SerialPoints, Points, Shift, Held, Odd, Two, Xfer, Owe, Hit,
         InvokePoints, DrainPoints, FastPoints, SlowPoints, SharePoints, TakePoints, WakePoints,
         Seer, SeePoints, SInv, MoreTypes
<1>8. InLine'
  <2>1. Has(q, n, lo + 1, t)' /\ Links1(t, q, lo, lo + 1)
    BY <1>1, <1>3, PopLine DEF RanPoints
  <2>2. n \in Nat /\ lo + 1 <= n + 1 /\ lo + 1 # lo
    BY <1>3, <1>4 DEF Line, Numbered
  <2>3. States1(t, q, n, lo, lo + 1)
    <3>1. \A b \in Blocks : ~KeptBy(t, b)
      BY <1>1, ThreadsFinite DEF KeptBy, RanPoints
    <3>2. \A c \in Blocks : Kept(c) \/ c = dc[t]
      BY <1>1 DEF Kept
    <3>3. \A i \in lo + 1 .. n : q[i] # dc[t]
      BY <1>3, <1>4 DEF Line, Numbered
    <3>4. Popped(q[lo])'
      BY <1>1, <1>4 DEF Popped, KeptBy, RanPoints
    <3> QED BY <1>1, <1>4, <3>1, <3>2, <3>3, <3>4 DEF States1
  <2>4. ASSUME MaxSuspends = 0, NEW a \in ahead[dc[t]] PROVE status'[a] = "done"
    <3>1. a \in Blocks /\ Earlier(a, q, lo - 1)
      BY <1>1, <1>3, <1>4, <2>4 DEF Line, Order, SInv, MoreTypes
    <3>2. status[a] = "done" \/ (Popped(a) /\ a # dc[t])
      <4>1. ASSUME NEW i \in 1 .. lo - 1, q[i] = a PROVE Popped(a) /\ a # dc[t]
        BY <1>3, <1>4, <4>1 DEF Line, Numbered, States
      <4> QED BY <3>1, <4>1 DEF Earlier
    <3>3. ~KeptBy(t, a)
      BY <1>1, <3>1, ThreadsFinite DEF KeptBy, RanPoints
    <3> QED BY <1>1, <1>2, <1>4, <3>1, <3>2, <3>3, PoppedDone
  <2>5. MaxSuspends = 0 => Order1(t, lo, lo + 1)
    BY <1>1, <2>2, <2>4 DEF Order1
  <2>6. LineChange(t, q, n, lo, lo + 1)
    BY <1>1, <2>1, <2>2, <2>3, <2>5 DEF LineChange, HeldPoints, RanPoints
  <2> QED BY <1>1, <1>2, <1>3, <2>6, LineStep, InLineThen
<1>9. Cardinality(signalled)' = Cardinality(signalled) + 0
  BY <1>1, <1>2, FS_EmptySet
<1> QED BY <1>1, <1>5, <1>6, <1>7, <1>8, <1>9, StepKeeps

\* It ends, and the drain goes on with the next.
LEMMA DrainRanSerial ==
    ASSUME SInv, IInv', NEW t \in Threads, DrainRan(t)
    PROVE  SInv'
<1> USE InHand
<1>1. /\ pc[t] = "rundrain" /\ after'[t] = after[t] /\ Rest(t) /\ SameCalls
      /\ \/ nextdc[t] = None /\ pc'[t] = "drain"
         \/ nextdc[t] # None /\ pc'[t] = "next"
      /\ suspend' = suspend /\ queued' = queued /\ refs' = refs /\ running' = running
      /\ head' = head /\ tail' = tail /\ next' = next /\ signalled' = signalled
      /\ blk' = blk /\ dc'[t] = nextdc[t] /\ nextdc'[t] = None /\ sema' = sema /\ prev' = prev
      /\ dc[t] \in Blocks /\ kind[dc[t]] = "barrier" /\ status[dc[t]] = "running"
      /\ status'[dc[t]] = "done"
      /\ \A c \in Blocks \ {dc[t]} : status'[c] = status[c]
      /\ holds' = holds /\ suspended' = suspended /\ suspends' = suspends
      /\ redirected' = redirected /\ sema[t] = None /\ blk[t] = None /\ t \in Workers
  <2>1. /\ pc[t] = "rundrain" /\ dc[t] \in Blocks /\ kind[dc[t]] = "barrier" /\ sema[t] = None
        /\ status[dc[t]] = "running" /\ blk[t] = None /\ t \in Workers
    BY DEF DrainRan, At, Local, ItemPoints, SemaPoints, Items, Hand, InvokePoints
  <2>2. status \in [Blocks -> Statuses] /\ dc \in [Threads -> Items] /\ nextdc \in [Threads -> Items]
    BY DEF SInv, IInv, Types
  <2> QED BY <2>1, <2>2
     DEF DrainRan, Finish, Advance, At, Goto, Rest, SameCalls, shared, countVars, listVars,
         rootVars, blockVars, userVars
<1>2. Sole(t) /\ signalled = {}
  <2>1. Tok(pc[t]) = 1
    BY <1>1 DEF Tok, DrainPoints
  <2> QED BY <2>1, HolderSole
<1>3. PICK q, n, lo : Line(q, n, lo)
  BY DEF SInv, InLine
<1>4. /\ n \in Nat /\ lo \in 2 .. n + 1 /\ dc[t] = q[lo - 1]
      /\ \/ nextdc[t] = None /\ Listed(q, n, lo)
         \/ lo <= n /\ nextdc[t] = q[lo] /\ Taken(q, n, lo) /\ q[lo] \in Blocks
  BY <1>1, <1>3 DEF Line, Position, Has, RanPoints, Numbered
<1>5. OwnedChange(t)
  <2>1. Hand(t)'
    BY <1>1, <1>2 DEF Hand, HandPoints, PrePoints, WakePoints, CheckPoints, RanPoints, InvokePoints,
                Owe, SameCalls
  <2>2. ASSUME NEW u \in Threads \ {t} PROVE NotHis(u, dc[t])
    <3>1. pc[u] \in OtherPoints /\ sema[u] = None
      BY <1>2, OthersIdle
    <3>2. blk[u] = dc[t] => pc[u] \notin HandPoints
      BY <1>1, <3>1 DEF Hand, HandPoints, PrePoints, OtherPoints
    <3> QED BY <1>1, <3>1, <3>2, ThreadsFinite DEF NotHis, NotDue, OtherPoints, HeldPoints,
          RanPoints
  <2> QED BY <1>1, <1>2, <2>1, <2>2, ThreadsFinite DEF OwnedChange
<1>6. VisitorsChange(t)
  BY <1>1 DEF VisitorsChange, Visits, Owe, InvokePoints, WakePoints
<1>7. Moved(t) /\ Shift(t, 0) /\ Seer(t)
  BY <1>1, <1>2 DEF Moved, SerialPoints, Points, Shift, Held, Odd, Two, Xfer, Owe, Hit,
         InvokePoints, DrainPoints, FastPoints, SlowPoints, SharePoints, TakePoints, WakePoints,
         Seer, SeePoints, SInv, MoreTypes
<1>8. InLine'
  <2>1. SameLinks
    BY <1>1 DEF SameLinks, Rest
  <2>2. Has(q, n, lo, t)' /\ (pc'[t] \in HeldPoints \/ Listed(q, n, lo)')
    <3>1. CASE nextdc[t] = None /\ Listed(q, n, lo)
      <4>1. Listed(q, n, lo)'
        BY <2>1, <3>1, PartsStay
      <4> QED BY <1>1, <3>1, <4>1
              DEF Has, HeldPoints, FrontPoints, CheckPoints, RanPoints, TailPoints
    <3>2. CASE lo <= n /\ nextdc[t] = q[lo] /\ Taken(q, n, lo) /\ q[lo] \in Blocks
      <4>1. Taken(q, n, lo)'
        BY <2>1, <3>2, PartsStay
      <4> QED BY <1>1, <3>2, <4>1, ThreadsFinite
              DEF Has, HeldPoints, FrontPoints, CheckPoints, RanPoints, TailPoints
    <3> QED BY <1>4, <3>1, <3>2
  <2>3. States1(t, q, n, lo, lo)
    <3>1. \A b \in Blocks : KeptBy(t, b) => Popped(b)'
      BY <1>1, ThreadsFinite DEF KeptBy, Popped
    <3>2. \A c \in Blocks : Kept(c) \/ c = dc[t]
      BY <1>1 DEF Kept
    <3>3. \A i \in lo .. n : q[i] # dc[t]
      BY <1>3, <1>4 DEF Line, Numbered
    <3>4. lo # lo + 1
      BY <1>4
    <3> QED BY <1>1, <3>1, <3>2, <3>3, <3>4 DEF States1
  <2>4. MaxSuspends = 0 => Order1(t, lo, lo)
    BY <1>1 DEF Order1, CheckPoints
  <2>5. Links1(t, q, lo, lo)
    BY <1>1, <1>4 DEF Links1, TailPoints
  <2>6. LineChange(t, q, n, lo, lo)
    BY <1>1, <1>4, <2>2, <2>3, <2>4, <2>5 DEF LineChange
  <2> QED BY <1>1, <1>2, <1>3, <2>6, LineStep, InLineThen
<1>9. Cardinality(signalled)' = Cardinality(signalled) + 0
  BY <1>1, <1>2, FS_EmptySet
<1> QED BY <1>1, <1>5, <1>6, <1>7, <1>8, <1>9, StepKeeps

\* A barrier sync is told that it has the lock.
LEMMA SignalSerial ==
    ASSUME SInv, IInv', NEW t \in Threads, TransferSignal(t) \/ InvokeSignal(t)
    PROVE  SInv'
<1> USE InHand
<1>1. /\ \/ pc[t] = "xfersignal" /\ pc'[t] = "idle"
         \/ pc[t] = "invokesignal" /\ pc'[t] = "unlock"
      /\ after'[t] = after[t] /\ Rest(t) /\ SameCalls
      /\ suspend' = suspend /\ queued' = queued /\ refs' = refs /\ running' = running
      /\ head' = head /\ tail' = tail /\ next' = next /\ signalled' = signalled \cup {sema[t]}
      /\ blk' = blk /\ dc' = dc /\ nextdc' = nextdc /\ sema'[t] = None /\ prev' = prev
      /\ status' = status /\ sema[t] \in Blocks /\ status[sema[t]] = "queued"
      /\ kind[sema[t]] = "bsync" /\ sema[t] \notin signalled
      /\ holds' = holds /\ suspended' = suspended /\ suspends' = suspends
      /\ redirected' = redirected /\ blk[t] = None
  <2>1. /\ pc[t] \in {"xfersignal", "invokesignal"} /\ sema[t] \in Blocks
        /\ status[sema[t]] = "queued" /\ kind[sema[t]] = "bsync" /\ sema[t] \notin signalled
        /\ blk[t] = None
    BY DEF TransferSignal, InvokeSignal, At, Local, SemaPoints, Items, Hand, HandPoints, PrePoints,
           WakePoints
  <2>2. sema \in [Threads -> Items]
    BY DEF SInv, IInv, Types
  <2> QED BY <2>1, <2>2
     DEF TransferSignal, InvokeSignal, At, Goto, Rest, SameCalls, countVars, listVars,
         rootVars, history, blockVars, userVars
<1>2. Sole(t) /\ signalled = {}
  <2>1. Tok(pc[t]) = 1
    BY <1>1 DEF Tok, SlowPoints
  <2> QED BY <2>1, HolderSole
<1>3. OwnedChange(t)
  <2>1. Hand(t)'
    BY <1>1, <1>2 DEF Hand, HandPoints, PrePoints, WakePoints, CheckPoints, RanPoints, InvokePoints,
                Owe, SameCalls
  <2>2. \A u \in Threads \ {t} : NotDue(u, sema[t])
    BY <1>1, <1>2, OthersIdle, ThreadsFinite DEF NotDue, OtherPoints, HeldPoints, RanPoints
  <2> QED BY <1>1, <1>2, <2>1, <2>2, ThreadsFinite DEF OwnedChange
<1>4. VisitorsChange(t)
  BY <1>1 DEF VisitorsChange, Visits, Owe, InvokePoints, WakePoints, Hand
<1>5. Moved(t) /\ Shift(t, 1) /\ Seer(t)
  BY <1>1, <1>2 DEF Moved, SerialPoints, Points, Shift, Held, Odd, Two, Xfer, Owe, Hit,
         InvokePoints, DrainPoints, FastPoints, SlowPoints, SharePoints, TakePoints, WakePoints,
         Seer, SeePoints, SInv, MoreTypes
<1>6. InLine'
  <2>1. PICK q, n, lo : Line(q, n, lo)
    BY DEF SInv, InLine
  <2>2. n \in Nat /\ lo \in 2 .. n + 1 /\ sema[t] = q[lo - 1]
    BY <1>1, <2>1, ThreadsFinite DEF Line, Numbered, Position, Has
  <2>3. States1(t, q, n, lo, lo)
    <3>1. \A b \in Blocks : KeptBy(t, b) => Popped(b)'
      BY <1>1 DEF KeptBy, Popped, RanPoints
    <3>2. \A c \in Blocks : Kept(c) \/ c = sema[t]
      BY <1>1 DEF Kept
    <3>3. \A i \in lo .. n : q[i] # sema[t]
      BY <2>1, <2>2 DEF Line, Numbered
    <3>4. lo # lo + 1
      BY <2>2
    <3> QED BY <1>1, <1>2, <3>1, <3>2, <3>3, <3>4 DEF States1
  <2>4. {pc[t], pc'[t]} \cap HeldPoints = {}
    BY <1>1 DEF HeldPoints, FrontPoints, CheckPoints, RanPoints, TailPoints
  <2> QED BY <1>1, <1>2, <2>1, <2>3, <2>4, LineKept, InLineThen
<1>7. Cardinality(signalled)' = Cardinality(signalled) + 1
  <2>1. signalled' = {sema[t]}
    BY <1>1, <1>2
  <2>2. Cardinality(signalled) = 0 /\ Cardinality({sema[t]}) = 1
    BY <1>2, FS_EmptySet, FS_Singleton
  <2> QED BY <2>1, <2>2
<1> QED BY <1>1, <1>3, <1>4, <1>5, <1>6, <1>7, StepKeeps

-----------------------------------------------------------------------------
(* Steps of a thread that has no right to the list.                         *)

\* A call that is still to be pushed is where its client is.
LEMMA CalledAtPre ==
    ASSUME SInv, NEW t \in Threads, blk[t] \in Blocks, status[blk[t]] = "called"
    PROVE  pc[t] \in PrePoints
<1>1. PICK u \in Threads : blk[u] = blk[t] /\ pc[u] \in PrePoints
  BY DEF SInv, Owned
<1>2. Hand(u) /\ Hand(t)
  BY InHand
<1> QED BY <1>1, <1>2, ThreadsFinite DEF Hand

\* An idle thread has nothing.
LEMMA IdleHand ==
    ASSUME SInv, NEW t \in Threads, pc[t] = "idle"
    PROVE  blk[t] = None /\ sema[t] = None /\ nextdc[t] = None /\ ~Visits(t)
<1>1. Hand(t) /\ Local(t)
  BY InHand
<1> QED BY <1>1 DEF Hand, Local, SemaPoints, HandPoints, PrePoints, WakePoints, CheckPoints,
                RanPoints, Visits

\* Nothing happens to the blocks, nor to the places of the threads.
AllSame == /\ SameCalls /\ status' = status /\ pc' = pc /\ after' = after /\ blk' = blk
           /\ dc' = dc /\ nextdc' = nextdc /\ sema' = sema /\ prev' = prev
           /\ head' = head /\ tail' = tail /\ next' = next /\ running' = running
           /\ redirected' = redirected /\ signalled' = signalled /\ queued' = queued
\* Then most of the invariant stays as it is.
LEMMA AllSameKeeps ==
    ASSUME SInv, NEW t \in Threads, pc[t] \notin Marked, AllSame
    PROVE  Rest(t) /\ OnlyBarriers' /\ InLine' /\ Owned'
<1>1. Rest(t) /\ LeavesList(t) /\ Unordered(t)
  BY DEF AllSame, Rest, LeavesList, Unordered, SameCalls
<1>2. OnlyBarriers'
  BY DEF SInv, OnlyBarriers, AllSame, SameCalls
<1>3. InLine'
  <2>1. PICK q, n, lo : Line(q, n, lo)
    BY DEF SInv, InLine
  <2>2. pc'[t] \notin Marked
    BY DEF AllSame
  <2> QED BY <1>1, <2>1, <2>2, LineStays, InLineThen
<1>4. Owned'
  <2>1. \A u \in Threads : Hand(u)'
    BY DEF SInv, Owned, Hand, AllSame, SameCalls
  <2> QED BY <2>1 DEF SInv, Owned, AllSame, SameCalls
<1> QED BY <1>1, <1>2, <1>3, <1>4

\* dispatch_suspend.
LEMMA SuspendSerial ==
    ASSUME SInv, IInv', NEW t \in Threads, Suspend(t)
    PROVE  SInv'
<1> USE InHand
<1>1. /\ pc[t] = "idle" /\ AllSame /\ suspends < MaxSuspends /\ suspends' = suspends + 1
      /\ suspended' = suspended + 1 /\ suspend' = suspend + 2 /\ refs' = refs + 1
      /\ holds' = holds
  BY DEF Suspend, At, AllSame, SameCalls, INTERVAL, listVars, rootVars, blockVars, locals,
         drainVars
<1>2. Rest(t) /\ OnlyBarriers' /\ InLine' /\ Owned'
  BY <1>1, AllSameKeeps
     DEF Marked, HeldPoints, FrontPoints, CheckPoints, RanPoints, TailPoints
<1>3. MoreTypes'
  BY <1>1, QueueAssumption DEF SInv, MoreTypes, AllSame, SameCalls
<1>4. Exact'
  <2>1. Shift(t, 0)
    BY <1>1 DEF Shift, AllSame, Held, Odd, Two, Xfer, Owe, Hit, SInv, MoreTypes
  <2>2. Cardinality(signalled)' = Cardinality(signalled) + 0
    BY <1>1, SetsFinite DEF AllSame, SInv, IInv
  <2> QED BY <1>2, <1>3, <2>1, <2>2, ExactStep DEF MoreTypes
<1>5. Covered'
  BY <1>1 DEF Covered
<1>6. Visitors'
  BY <1>1 DEF SInv, Visitors, Visits, Latest, AllSame, SameCalls
<1> QED BY <1>2, <1>3, <1>4, <1>5, <1>6 DEF SInv

\* dispatch_resume: the last one wakes the queue, unless it is locked.
LEMMA ResumeSerial ==
    ASSUME SInv, IInv', NEW t \in Threads, Resume(t)
    PROVE  SInv'
<1> USE InHand
<1>1. /\ pc[t] = "idle" /\ suspended > 0 /\ suspends' = suspends
      /\ suspended' = suspended - 1 /\ suspend' = suspend - 2 /\ refs' = refs
      /\ \/ suspend = 2 /\ pc'[t] = "wake" /\ after'[t] = "release"
         \/ suspend # 2 /\ pc'[t] = "release" /\ after'[t] = after[t]
      /\ holds' = holds /\ SameCalls /\ status' = status /\ Rest(t)
      /\ head' = head /\ tail' = tail /\ next' = next /\ running' = running
      /\ redirected' = redirected /\ signalled' = signalled /\ queued' = queued
      /\ blk' = blk /\ dc' = dc /\ nextdc' = nextdc /\ sema' = sema /\ prev' = prev
  BY DEF Resume, Enter, Stay, Goto, At, SameCalls, Rest, INTERVAL, listVars, rootVars, blockVars,
         drainVars
<1>2. blk[t] = None /\ sema[t] = None /\ nextdc[t] = None
  BY <1>1, IdleHand
<1>3. OnlyBarriers' /\ MoreTypes'
  BY <1>1, <1>2 DEF SInv, MoreTypes, SameCalls, OnlyBarriers, Rest, SerialPoints, Points
<1>4. Exact'
  <2>1. Shift(t, 0)
    BY <1>1, <1>2 DEF Shift, Held, Odd, Two, Xfer, Owe, Hit, SInv, MoreTypes, DrainPoints,
        FastPoints, TakePoints, SharePoints, SlowPoints, InvokePoints, WakePoints
  <2>2. Cardinality(signalled)' = Cardinality(signalled) + 0
    BY <1>1, SetsFinite DEF SInv, IInv
  <2> QED BY <1>1, <1>3, <2>1, <2>2, ExactStep DEF MoreTypes
<1>5. Covered'
  <2>1. CASE pc'[t] = "wake"
    BY <2>1, CoveredBy DEF SeePoints, WakePoints
  <2>2. CASE suspend # 2
    <3>1. suspend' # 0
      BY <1>1, <2>2
    <3> QED BY <1>3, <1>4, <3>1, CountedSeesThen DEF Covered, Seen
  <2> QED BY <1>1, <2>1, <2>2
<1>6. Owned'
  <2>1. Hand(t)'
    BY <1>1, <1>2 DEF Hand, HandPoints, PrePoints, WakePoints, CheckPoints, RanPoints,
                      InvokePoints, Owe, SameCalls
  <2> QED BY <1>1, <1>2, <2>1, ThreadsFinite, OwnedStep DEF OwnedChange, SInv, Owned
<1>7. Visitors'
  <2>1. VisitorsChange(t)
    BY <1>1, <1>2 DEF VisitorsChange, Visits, Owe, WakePoints
  <2> QED BY <1>1, <2>1, VisitorsStep
<1>8. InLine'
  <2>1. PICK q, n, lo : Line(q, n, lo)
    BY DEF SInv, InLine
  <2>2. LeavesList(t) /\ Unordered(t) /\ pc[t] \notin Marked /\ pc'[t] \notin Marked
    BY <1>1 DEF LeavesList, SameCalls, Unordered, Marked, HeldPoints, FrontPoints, CheckPoints,
                RanPoints, TailPoints
  <2> QED BY <2>1, <2>2, LineStays, InLineThen
<1> QED BY <1>3, <1>4, <1>5, <1>6, <1>7, <1>8 DEF SInv

\* A client that does not visit the queue gives up its reference.
LEMMA GiveUpSerial ==
    ASSUME SInv, IInv', NEW c \in Threads, ~Visits(c), GiveUp(c)
    PROVE  SInv'
<1> USE InHand
<1>1. /\ AllSame /\ suspends' = suspends /\ suspended' = suspended /\ suspend' = suspend
      /\ suspended = 0 /\ c \in holds /\ holds' = holds \ {c}
      /\ refs' = IF holds' = {} THEN refs - 1 ELSE refs
  BY DEF GiveUp, AllSame, SameCalls, listVars, rootVars, blockVars, locals, drainVars
<1>2. Rest(c) /\ OnlyBarriers' /\ Owned'
  <2>1. \A u \in Threads : Hand(u)'
    BY <1>1 DEF SInv, Owned, Hand, AllSame, SameCalls
  <2> QED BY <1>1, <2>1 DEF SInv, OnlyBarriers, Owned, AllSame, SameCalls, Rest
<1>3. InLine'
  <2>1. PICK q, n, lo : Line(q, n, lo)
    BY DEF SInv, InLine
  <2>2. SameLinks
    BY <1>1 DEF AllSame, SameLinks
  <2>3. Position(q, n, lo)'
    <3>1. \A u \in Threads : Has(q, n, lo, u)'
      <4>1. \A k : /\ Listed(q, n, k)' = Listed(q, n, k) /\ Taken(q, n, k)' = Taken(q, n, k)
                   /\ Body(q, n, k)' = Body(q, n, k) /\ Unlinked(q, k)' = Unlinked(q, k)
                   /\ NoFirst' = NoFirst
        BY <2>2, PartsStay
      <4> QED BY <1>1, <2>1, <4>1 DEF Line, Position, Has, AllSame
    <3>2. Listed(q, n, lo)' = Listed(q, n, lo)
      BY <2>2, PartsStay
    <3> QED BY <1>1, <2>1, <3>1, <3>2 DEF Line, Position, AllSame
  <2>4. Links(q, n, lo)'
    BY <1>1, <2>1 DEF Line, Links, AllSame
  <2>5. States(q, n, lo)'
    BY <1>1, <2>1 DEF Line, States, Popped, KeptBy, AllSame
  <2>6. MaxSuspends = 0 => Order(q, n, lo)'
    BY <1>1, <2>1 DEF Line, Order, Found, Earlier, AllSame, SameCalls
  <2> QED BY <2>1, <2>3, <2>4, <2>5, <2>6, InLineThen DEF Line, Numbered
<1>4. MoreTypes'
  BY <1>1 DEF SInv, MoreTypes, AllSame, SameCalls
<1>5. Exact'
  <2>1. Shift(c, 0)
    <3> DEFINE d == Held' - Held
    <3>1. refs' = refs + d /\ d \in Int /\ refs \in Int
      BY <1>1 DEF Held, SInv, MoreTypes
    <3>2. /\ suspended' - suspended = 0 /\ queued' - queued = 0
          /\ Owe(pc'[c], after'[c]) - Owe(pc[c], after[c]) = 0
      BY <1>1 DEF AllSame, SInv, MoreTypes, IInv, Types, Owe
    <3> HIDE DEF d
    <3>3. refs' = refs + d + (suspended' - suspended) + (queued' - queued)
                  + (Owe(pc'[c], after'[c]) - Owe(pc[c], after[c]))
      BY <3>1, <3>2
    <3> QED BY <1>1, <3>3 DEF Shift, AllSame, SInv, MoreTypes, Odd, Two, Xfer, Hit, IInv,
              Types, d
  <2>2. Cardinality(signalled)' = Cardinality(signalled) + 0
    BY <1>1, SetsFinite DEF AllSame, SInv, IInv
  <2> QED BY <1>2, <1>4, <2>1, <2>2, ExactStep DEF MoreTypes
<1>6. Covered'
  BY <1>1 DEF SInv, Covered, AllSame
<1>7. Visitors'
  BY <1>1 DEF SInv, Visitors, Visits, Latest, AllSame, SameCalls
<1> QED BY <1>2, <1>3, <1>4, <1>5, <1>6, <1>7 DEF SInv

\* It does so between two calls, or in the block it submitted last.
LEMMA ReleaseIdleSerial ==
    ASSUME SInv, IInv', NEW t \in Threads, ReleaseIdle(t)
    PROVE  SInv'
BY IdleHand, GiveUpSerial DEF ReleaseIdle, At

\* The client of the last block has no part in the queue while it runs.
LEMMA ReleaseInBlockSerial ==
    ASSUME SInv, IInv', NEW t \in Threads, ReleaseInBlock(t)
    PROVE  SInv'
<1> USE InHand
<1>1. PICK b \in Blocks : /\ pc[t] = "rundrain" /\ b = dc[t] /\ GiveUp(owner[b])
                          /\ \A a \in Blocks : b \notin ahead[a]
  BY DEF ReleaseInBlock, At, SerialPoints
<1>2. kind[b] = "barrier" /\ status[b] = "running"
  BY <1>1 DEF Hand
<1>3. owner[b] \in Threads
  BY <1>1 DEF GiveUp, SInv, MoreTypes, Threads
<1>4. ASSUME Visits(owner[b]) PROVE FALSE
  <2> DEFINE c == owner[b]
  <2>1. PICK a \in Blocks : Latest(c, a)
    BY <1>3, <1>4 DEF SInv, Visitors
  <2>2. b = a
    BY <1>1, <1>2, <2>1 DEF Latest
  <2>3. blk[c] = b
    BY <1>2, <2>1, <2>2 DEF Latest
  <2>4. pc[c] # "idle" /\ Owe(pc[c], after[c]) = 0
    BY <1>2, <1>4, <2>3 DEF Visits
  <2>5. Hand(c) /\ Local(c) /\ b # None
    BY <1>3, ThreadsFinite
  <2> QED BY <1>2, <2>3, <2>4, <2>5 DEF Hand, Local, Owe, HandPoints, PrePoints, WakePoints
<1> QED BY <1>1, <1>3, <1>4, GiveUpSerial

\* The queue is released after a wakeup.
LEMMA ReleaseSerial ==
    ASSUME SInv, IInv', Serial, NEW t \in Threads, Release(t)
    PROVE  SInv'
<1> USE InHand
<1>1. /\ pc[t] = "release" /\ after'[t] = after[t] /\ Rest(t) /\ SameCalls
      /\ \/ blk[t] \in Blocks /\ kind[blk[t]] = "bsync" /\ pc'[t] = "wait" /\ blk'[t] = blk[t]
         \/ (blk[t] = None \/ kind[blk[t]] = "barrier") /\ pc'[t] = "idle" /\ blk'[t] = None
      /\ suspend' = suspend /\ queued' = queued /\ refs' = refs - 1 /\ running' = running
      /\ head' = head /\ tail' = tail /\ next' = next /\ signalled' = signalled
      /\ dc' = dc /\ nextdc' = nextdc /\ sema' = sema /\ prev' = prev /\ status' = status
      /\ holds' = holds /\ suspended' = suspended /\ suspends' = suspends
      /\ redirected' = redirected /\ sema[t] = None
  <2>1. blk[t] # None => blk[t] \in Blocks /\ kind[blk[t]] \in Barriers
    <3>1. blk[t] \in Old
      BY DEF SInv, IInv, AllOld
    <3> QED BY <3>1, ThreadsFinite DEF Old, SInv, IInv, Kinds
  <2>2. sema[t] = None /\ blk \in [Threads -> Items]
    BY DEF Release, At, Local, SemaPoints, SInv, IInv, Types
  <2> QED BY <2>1, <2>2
     DEF Release, LeavePush, Forget, At, Goto, Rest, SameCalls, listVars, rootVars, history,
         blockVars, userVars, drainVars, Syncs, Barriers
<1>2. OwnedChange(t)
  <2>1. Hand(t)'
    <3>1. Hand(t) /\ None \notin Blocks /\ nextdc[t] = None
      BY <1>1, ThreadsFinite DEF Hand, CheckPoints, RanPoints
    <3>2. CASE blk[t] \in Blocks /\ kind[blk[t]] = "bsync" /\ pc'[t] = "wait" /\ blk'[t] = blk[t]
      <4>1. blk[t] # None /\ status[blk[t]] = "queued" /\ t \notin Workers /\ owner[blk[t]] = t
        BY <1>1, <3>1, <3>2 DEF Hand
      <4> QED BY <1>1, <3>1, <3>2, <4>1 DEF Hand, HandPoints, PrePoints, WakePoints, CheckPoints,
                RanPoints, InvokePoints, SameCalls
    <3>3. CASE pc'[t] = "idle" /\ blk'[t] = None
      BY <1>1, <3>1, <3>3 DEF Hand, HandPoints, PrePoints, WakePoints, CheckPoints,
                RanPoints, InvokePoints, SameCalls
    <3> QED BY <1>1, <3>2, <3>3
  <2>2. blk[t] \in Blocks => status[blk[t]] # "called"
    BY <1>1, CalledAtPre DEF PrePoints
  <2>3. \A c \in signalled : status[c] = "queued"
    BY DEF SInv, Owned
  <2> QED BY <1>1, <2>1, <2>2, <2>3, ThreadsFinite DEF OwnedChange
<1>3. VisitorsChange(t)
  <2>1. pc'[t] = "wait" => Visits(t) /\ blk'[t] = blk[t]
    BY <1>1, ThreadsFinite DEF Visits
  <2>2. pc'[t] = "idle" => ~Visits(t)'
    BY <1>1 DEF Visits
  <2> QED BY <1>1, <2>1, <2>2 DEF VisitorsChange
<1>4. Moved(t) /\ Shift(t, 0) /\ Seer(t)
  BY <1>1 DEF Moved, SerialPoints, Points, Shift, Held, Odd, Two, Xfer, Owe, Hit,
         InvokePoints, DrainPoints, FastPoints, SlowPoints, SharePoints, TakePoints, WakePoints,
         Seer, SeePoints, SInv, MoreTypes, OnlyBarriers
<1>5. InLine'
  <2>1. PICK q, n, lo : Line(q, n, lo)
    BY DEF SInv, InLine
  <2>2. LeavesList(t) /\ Unordered(t) /\ pc[t] \notin Marked /\ pc'[t] \notin Marked
    BY <1>1 DEF LeavesList, SameCalls, Unordered, Marked, HeldPoints, FrontPoints, CheckPoints,
                RanPoints, TailPoints
  <2> QED BY <2>1, <2>2, LineStays, InLineThen
<1>6. Cardinality(signalled)' = Cardinality(signalled) + 0
  BY <1>1, SetsFinite DEF SInv, IInv
<1> QED BY <1>1, <1>2, <1>3, <1>4, <1>5, <1>6, StepKeeps

-----------------------------------------------------------------------------
(* A push.                                                                  *)

\* The last item of a list that is not empty is the one pushed last.
LEMMA LastItem ==
    ASSUME SInv, tail # None, NEW q, NEW n, NEW lo, Line(q, n, lo)
    PROVE  /\ n >= 1 /\ tail = q[n] /\ next[q[n]] = None
           /\ n >= lo \/ (n = lo - 1 /\ \E u \in Threads : pc[u] \in TailPoints)
<1>1. n \in Nat /\ lo \in 1 .. n + 1
  BY DEF Line, Numbered
<1>2. \A k : Listed(q, n, k) \/ Taken(q, n, k) => Body(q, n, k)
  BY DEF Listed, Taken
<1>3. \A k : Body(q, n, k) => k <= n /\ tail = q[n] /\ next[q[n]] = None
  BY DEF Body
<1>4. CASE \A u \in Threads : pc[u] \notin HeldPoints
  BY <1>1, <1>2, <1>3, <1>4 DEF Line, Position
<1>5. ASSUME NEW u \in Threads, pc[u] \in HeldPoints
      PROVE  /\ n >= 1 /\ tail = q[n] /\ next[q[n]] = None
             /\ n >= lo \/ (n = lo - 1 /\ pc[u] \in TailPoints)
  <2>1. Has(q, n, lo, u)
    BY DEF Line, Position
  <2>2. CASE pc[u] \in FrontPoints \cup {"restore"}
    BY <1>1, <1>2, <1>3, <2>1, <2>2 DEF Has
  <2>3. CASE pc[u] \in RanPoints
    BY <1>1, <1>2, <1>3, <2>1, <2>3 DEF Has
  <2>4. CASE pc[u] \in CheckPoints
    <3>1. Listed(q, n, lo + 1) \/ Taken(q, n, lo)
      BY <2>1, <2>4 DEF Has
    <3> QED BY <1>1, <1>2, <1>3, <3>1
  <2>5. CASE pc[u] \in TailPoints
    <3>1. Taken(q, n, lo - 1) /\ sema[u] # None /\ lo > 1
      BY <2>1, <2>5 DEF Has
    <3> QED BY <1>1, <1>2, <1>3, <2>5, <3>1
  <2> QED BY <1>5, <2>2, <2>3, <2>4, <2>5 DEF HeldPoints
<1> QED BY <1>4, <1>5

\* The exchange of the tail, and the line with one more item.
Appends(t) ==
    /\ pc[t] = "push" /\ pc'[t] = (IF tail # None THEN "link" ELSE "sethead")
    /\ blk[t] \in Blocks /\ head' = head /\ tail' = blk[t]
    /\ next'[blk[t]] = None /\ \A c \in Blocks \ {blk[t]} : next'[c] = next[c]
    /\ prev'[t] = tail /\ blk' = blk /\ dc' = dc /\ nextdc' = nextdc /\ sema' = sema
    /\ status[blk[t]] = "called" /\ status'[blk[t]] = "queued"
    /\ \A c \in Blocks \ {blk[t]} : status'[c] = status[c]
    /\ signalled' = signalled /\ blk[t] \notin signalled /\ sema[t] = None
    /\ Rest(t) /\ SameCalls
Longer(q, n, b) == [i \in 1 .. n + 1 |-> IF i <= n THEN q[i] ELSE b]

\* The line with one more item names what it should.
LEMMA LongerIs ==
    ASSUME NEW n \in Nat, NEW q \in [1 .. n -> Blocks], NEW b \in Blocks,
           \A i, j \in 1 .. n : q[i] = q[j] => i = j, \A i \in 1 .. n : q[i] # b,
           NEW r, r = Longer(q, n, b)
    PROVE  /\ r \in [1 .. n + 1 -> Blocks] /\ r[n + 1] = b
           /\ \A i \in 1 .. n : r[i] = q[i] /\ q[i] \in Blocks
           /\ \A i, j \in 1 .. n + 1 : r[i] = r[j] => i = j
<1>1. /\ r \in [1 .. n + 1 -> Blocks] /\ r[n + 1] = b /\ \A i \in 1 .. n : r[i] = q[i]
  BY DEF Longer
<1>2. \A i \in 1 .. n + 1 : i \in 1 .. n \/ i = n + 1
  OBVIOUS
<1> QED BY <1>1, <1>2

\* The parts of the list with one more item.
LEMMA PartsLonger ==
    ASSUME SInv, NEW t \in Threads, Appends(t), NEW q, NEW n, NEW lo, Numbered(q, n, lo),
           \A i \in 1 .. n : q[i] # blk[t], NEW r, r = Longer(q, n, blk[t])
    PROVE  /\ \A k \in 1 .. n : Body(q, n, k) => Body(r, n + 1, k)'
           /\ tail # None => /\ NoFirst => NoFirst'
                             /\ \A k \in 1 .. n : First(q, k) => First(r, k)'
           /\ \A k \in 1 .. n : Taken(q, n, k) => Taken(r, n + 1, k)'
           /\ \A k \in 1 .. n + 1 : Listed(q, n, k) => Listed(r, n + 1, k)'
<1>1. n \in Nat /\ q \in [1 .. n -> Blocks] /\ \A i, j \in 1 .. n : q[i] = q[j] => i = j
  BY DEF Numbered
<1>2. blk[t] \in Blocks
  BY DEF Appends
<1>3. /\ r \in [1 .. n + 1 -> Blocks] /\ r[n + 1] = blk[t]
      /\ \A i \in 1 .. n : r[i] = q[i] /\ q[i] \in Blocks
  BY <1>1, <1>2, LongerIs
<1>4. \A i \in 1 .. n : next'[q[i]] = next[q[i]]
  BY <1>1, <1>3 DEF Appends
<1>5. ASSUME NEW i \in 1 .. n - 1, Follows(q, i) PROVE Follows(r, i)'
  <2>1. i \in 1 .. n /\ i + 1 \in 1 .. n
    BY <1>1
  <2>2. next'[r[i]] = next[q[i]] /\ r[i] = q[i] /\ r[i + 1] = q[i + 1]
    BY <1>3, <1>4, <2>1
  <2>3. \A u \in Threads : pc[u] = "link" =>
            pc'[u] = "link" /\ prev'[u] = prev[u] /\ blk'[u] = blk[u]
    BY DEF Appends, Rest
  <2> QED BY <1>5, <2>2, <2>3 DEF Follows
<1>6. ASSUME NEW k \in 1 .. n, Body(q, n, k) PROVE Body(r, n + 1, k)' /\ tail # None
  <2>1. /\ tail = q[n] /\ next[q[n]] = None /\ \A i \in k .. n - 1 : Follows(q, i)
        /\ n \in 1 .. n
    BY <1>1, <1>6 DEF Body
  <2>2. tail # None
    BY <1>3, <2>1, ThreadsFinite
  <2>3. Follows(r, n)'
    <3>1. pc'[t] = "link" /\ prev'[t] = r[n] /\ blk'[t] = r[n + 1] /\ next'[r[n]] = None
      BY <1>3, <1>4, <2>1, <2>2 DEF Appends
    <3> QED BY <3>1 DEF Follows
  <2>4. ASSUME NEW i \in k .. n PROVE Follows(r, i)'
    <3>1. i = n \/ (i \in k .. n - 1 /\ i \in 1 .. n - 1)
      BY <1>1
    <3> QED BY <1>5, <2>1, <2>3, <3>1
  <2>5. tail' = r[n + 1] /\ next'[r[n + 1]] = None /\ k <= n + 1 /\ (n + 1) - 1 = n
    BY <1>1, <1>3 DEF Appends
  <2> QED BY <2>2, <2>4, <2>5 DEF Body
<1>7. ASSUME tail # None PROVE (NoFirst => NoFirst')
                               /\ \A k \in 1 .. n : First(q, k) => First(r, k)'
  <2>1. \A u \in Threads : /\ pc'[u] = "sethead" <=> pc[u] = "sethead"
                           /\ pc[u] = "sethead" => blk'[u] = blk[u]
    BY <1>7 DEF Appends, Rest
  <2> QED BY <1>3, <2>1 DEF NoFirst, First
<1>8. \A k \in 1 .. n : Taken(q, n, k) => Taken(r, n + 1, k)'
  BY <1>6, <1>7 DEF Taken, Appends
<1>9. ASSUME NEW k \in 1 .. n + 1, Listed(q, n, k) PROVE Listed(r, n + 1, k)'
  <2>1. CASE k = n + 1 /\ tail = None /\ head = None /\ NoFirst
    <3>1. Body(r, n + 1, k)'
      <4>1. \A i \in k .. (n + 1) - 1 : FALSE
        BY <1>1, <2>1
      <4> QED BY <1>1, <1>3, <2>1, <4>1 DEF Body, Appends
    <3>2. First(r, k)'
      BY <1>3, <2>1 DEF First, NoFirst, Appends, Rest
    <3> QED BY <2>1, <3>1, <3>2 DEF Listed, Appends
  <2>2. CASE Body(q, n, k) /\ head = q[k] /\ NoFirst
    <3>1. k \in 1 .. n
      BY <1>1, <2>2 DEF Body
    <3> QED BY <1>3, <1>6, <1>7, <2>2, <3>1 DEF Listed, Appends
  <2>3. CASE Body(q, n, k) /\ head = None /\ First(q, k)
    <3>1. k \in 1 .. n
      BY <1>1, <2>3 DEF Body
    <3> QED BY <1>3, <1>6, <1>7, <2>3, <3>1 DEF Listed, Appends
  <2> QED BY <1>9, <2>1, <2>2, <2>3 DEF Listed
<1> QED BY <1>6, <1>7, <1>8, <1>9

\* The line after the push.
LEMMA AppendLine ==
    ASSUME SInv, NEW t \in Threads, Appends(t), NEW q, NEW n, NEW lo, Line(q, n, lo)
    PROVE  \E r : Line(r, n + 1, lo)'
<1> USE InHand
<1>0. PICK r : r = Longer(q, n, blk[t])
  OBVIOUS
<1>1. /\ n \in Nat /\ q \in [1 .. n -> Blocks] /\ lo \in 1 .. n + 1 /\ Numbered(q, n, lo)
      /\ \A i, j \in 1 .. n : q[i] = q[j] => i = j
  BY DEF Line, Numbered
<1>2. \A i \in 1 .. n : q[i] # blk[t]
  BY DEF Line, States, Appends
<1>3. blk[t] \in Blocks
  BY DEF Appends
<1>4. /\ r \in [1 .. n + 1 -> Blocks] /\ r[n + 1] = blk[t]
      /\ \A i \in 1 .. n : r[i] = q[i] /\ q[i] \in Blocks
      /\ \A i, j \in 1 .. n + 1 : r[i] = r[j] => i = j
  <2> DEFINE b == blk[t]
  <2>1. b \in Blocks /\ r = Longer(q, n, b) /\ \A i \in 1 .. n : q[i] # b
    BY <1>0, <1>2, <1>3
  <2> HIDE DEF b
  <2>2. /\ r \in [1 .. n + 1 -> Blocks] /\ r[n + 1] = b
        /\ \A i \in 1 .. n : r[i] = q[i] /\ q[i] \in Blocks
        /\ \A i, j \in 1 .. n + 1 : r[i] = r[j] => i = j
    BY <1>1, <2>1, LongerIs
  <2> QED BY <2>2 DEF b
<1>5. /\ \A k \in 1 .. n : Body(q, n, k) => Body(r, n + 1, k)'
      /\ tail # None => (NoFirst => NoFirst')
      /\ \A k \in 1 .. n : Taken(q, n, k) => Taken(r, n + 1, k)'
      /\ \A k \in 1 .. n + 1 : Listed(q, n, k) => Listed(r, n + 1, k)'
  BY <1>0, <1>1, <1>2, PartsLonger
<1>6. \A i \in 1 .. n : next'[q[i]] = next[q[i]] /\ next'[r[i]] = next[q[i]]
  BY <1>2, <1>4 DEF Appends
<1>7. Numbered(r, n + 1, lo)'
  BY <1>1, <1>4 DEF Numbered
<1>8. ASSUME NEW u \in Threads PROVE Has(r, n + 1, lo, u)'
  <2>1. CASE u = t
    BY <2>1 DEF Appends, Has, FrontPoints, CheckPoints, RanPoints, TailPoints
  <2>2. CASE u # t
    <3>1. /\ pc'[u] = pc[u] /\ dc'[u] = dc[u] /\ nextdc'[u] = nextdc[u] /\ sema'[u] = sema[u]
          /\ head' = head
      BY <2>2 DEF Appends, Rest
    <3>2. Has(q, n, lo, u)
      BY DEF Line, Position
    <3>3. pc[u] \in FrontPoints => /\ lo <= n + 1 /\ dc'[u] = r[lo] /\ Taken(r, n + 1, lo)'
                                   /\ pc[u] = "spinnext" => lo < n + 1
      BY <1>1, <1>4, <1>5, <3>1, <3>2 DEF Has
    <3>4. ASSUME pc[u] \in CheckPoints
          PROVE  /\ lo <= n + 1 /\ dc'[u] = r[lo]
                 /\ \/ nextdc'[u] = None /\ Unlinked(r, lo)' /\ Listed(r, n + 1, lo + 1)'
                    \/ /\ lo < n + 1 /\ nextdc'[u] = r[lo + 1] /\ next'[r[lo]] = r[lo + 1]
                       /\ Taken(r, n + 1, lo)'
                 /\ pc[u] = "undospin" => nextdc'[u] = None /\ lo < n + 1
      <4>1. lo \in 1 .. n /\ dc[u] = q[lo] /\ r[lo] = q[lo]
            /\ (pc[u] = "undospin" => nextdc[u] = None /\ lo < n)
        BY <1>1, <1>4, <3>2, <3>4 DEF Has
      <4>2. CASE nextdc[u] = None /\ Unlinked(q, lo) /\ Listed(q, n, lo + 1)
        <5>1. lo + 1 \in 1 .. n + 1
          BY <1>1, <4>1
        <5>2. Listed(r, n + 1, lo + 1)'
          BY <1>5, <4>2, <5>1
        <5>3. pc'[t] = "link" => prev'[t] # q[lo]
          <6>1. ASSUME tail # None PROVE tail # q[lo]
            <7>1. lo + 1 <= n /\ tail = q[n]
              BY <1>1, <4>2, <6>1 DEF Listed, Body
            <7>2. n \in 1 .. n /\ lo \in 1 .. n /\ lo # n
              BY <1>1, <4>1, <7>1
            <7> QED BY <1>1, <7>1, <7>2
          <6> QED BY <6>1 DEF Appends
        <5>4. Unlinked(r, lo)'
          <6>1. next'[r[lo]] = None
            BY <1>6, <4>1, <4>2 DEF Unlinked
          <6>2. \A v \in Threads : pc'[v] = "link" => prev'[v] # q[lo]
            BY <4>2, <5>3 DEF Unlinked, Appends, Rest
          <6> QED BY <4>1, <6>1, <6>2 DEF Unlinked
        <5> QED BY <1>1, <3>1, <4>1, <4>2, <5>2, <5>4
      <4>3. CASE /\ lo < n /\ nextdc[u] = q[lo + 1] /\ next[q[lo]] = q[lo + 1]
                 /\ Taken(q, n, lo)
        <5>1. lo + 1 \in 1 .. n
          BY <1>1, <4>1, <4>3
        <5> QED BY <1>1, <1>4, <1>5, <1>6, <3>1, <4>1, <4>3, <5>1
      <4> QED BY <3>2, <3>4, <4>2, <4>3 DEF Has
    <3>5. ASSUME pc[u] \in RanPoints
          PROVE  /\ lo > 1 /\ dc'[u] = r[lo - 1]
                 /\ \/ nextdc'[u] = None /\ Listed(r, n + 1, lo)'
                    \/ lo <= n + 1 /\ nextdc'[u] = r[lo] /\ Taken(r, n + 1, lo)'
      <4>1. lo - 1 \in 1 .. n /\ lo \in 1 .. n + 1 /\ lo > 1 /\ dc[u] = q[lo - 1]
        BY <1>1, <3>2, <3>5 DEF Has
      <4>2. CASE nextdc[u] = None /\ Listed(q, n, lo)
        BY <1>4, <1>5, <3>1, <4>1, <4>2
      <4>3. CASE lo <= n /\ nextdc[u] = q[lo] /\ Taken(q, n, lo)
        <5>1. lo \in 1 .. n /\ lo <= n + 1
          BY <1>1, <4>3
        <5> QED BY <1>4, <1>5, <3>1, <4>1, <4>3, <5>1
      <4> QED BY <3>2, <3>5, <4>2, <4>3 DEF Has
    <3>6. sema[u] # None => lo > 1 /\ sema'[u] = r[lo - 1]
      <4>1. lo > 1 => lo - 1 \in 1 .. n
        BY <1>1
      <4> QED BY <1>4, <3>1, <3>2, <4>1 DEF Has
    <3>7. pc[u] \in TailPoints => /\ sema'[u] # None /\ Taken(r, n + 1, lo - 1)'
                                  /\ pc[u] = "takelink" => lo <= n + 1
      <4>1. pc[u] \in TailPoints => lo - 1 \in 1 .. n
        BY <1>1, <3>2 DEF Has
      <4> QED BY <1>1, <1>5, <3>1, <3>2, <4>1 DEF Has
    <3>8. ASSUME pc[u] = "restore"
          PROVE  /\ lo <= n + 1 /\ dc'[u] = r[lo] /\ Body(r, n + 1, lo)' /\ NoFirst'
                 /\ head' = None \/ (lo < n + 1 /\ head' = r[lo + 1])
      <4>1. /\ lo \in 1 .. n /\ dc[u] = q[lo] /\ Body(q, n, lo) /\ NoFirst
            /\ head = None \/ (lo < n /\ head = q[lo + 1])
        BY <1>1, <3>2, <3>8 DEF Has
      <4>2. tail # None
        BY <1>1, <1>4, <4>1, ThreadsFinite DEF Body
      <4>3. lo < n => lo + 1 \in 1 .. n
        BY <1>1, <4>1
      <4> QED BY <1>1, <1>4, <1>5, <3>1, <4>1, <4>2, <4>3
    <3>9. /\ (pc'[u] \in FrontPoints <=> pc[u] \in FrontPoints)
          /\ (pc'[u] \in CheckPoints <=> pc[u] \in CheckPoints)
          /\ (pc'[u] \in RanPoints <=> pc[u] \in RanPoints)
          /\ (pc'[u] \in TailPoints <=> pc[u] \in TailPoints)
      BY <3>1
    <3> QED BY <3>1, <3>3, <3>4, <3>5, <3>6, <3>7, <3>8, <3>9 DEF Has
  <2> QED BY <2>1, <2>2
<1>9. ASSUME \A u \in Threads : pc'[u] \notin HeldPoints PROVE Listed(r, n + 1, lo)'
  <2>1. \A u \in Threads : pc[u] \notin HeldPoints
    BY <1>9 DEF Appends, Rest, HeldPoints, FrontPoints, CheckPoints, RanPoints, TailPoints
  <2> QED BY <1>1, <1>5, <2>1 DEF Line, Position
<1>10. Links(r, n + 1, lo)'
  <2>1. ASSUME NEW u \in Threads, pc'[u] = "link"
        PROVE  \E i \in 1 .. (n + 1) - 1 :
                   /\ prev'[u] = r[i] /\ blk'[u] = r[i + 1] /\ next'[r[i]] = None
                   /\ i >= lo \/ (i = lo - 1 /\ \E v \in Threads : pc'[v] \in TailPoints)
    <3>1. (\E v \in Threads : pc[v] \in TailPoints) => \E v \in Threads : pc'[v] \in TailPoints
      BY DEF Appends, Rest, TailPoints
    <3>2. CASE u = t
      <4>1. tail # None /\ prev'[t] = tail /\ blk'[t] = blk[t]
        BY <2>1, <3>2 DEF Appends
      <4>2. /\ n >= 1 /\ tail = q[n] /\ next[q[n]] = None
            /\ n >= lo \/ (n = lo - 1 /\ \E v \in Threads : pc[v] \in TailPoints)
        BY <4>1, LastItem
      <4>3. n \in 1 .. (n + 1) - 1 /\ n \in 1 .. n
        BY <1>1, <4>2
      <4> QED BY <1>4, <1>6, <3>1, <3>2, <4>1, <4>2, <4>3
    <3>3. CASE u # t
      <4>1. pc[u] = "link" /\ prev'[u] = prev[u] /\ blk'[u] = blk[u]
        BY <2>1, <3>3 DEF Appends, Rest
      <4>2. PICK i \in 1 .. n - 1 :
                /\ prev[u] = q[i] /\ blk[u] = q[i + 1] /\ next[q[i]] = None
                /\ i >= lo \/ (i = lo - 1 /\ \E v \in Threads : pc[v] \in TailPoints)
        BY <4>1 DEF Line, Links
      <4>3. i \in 1 .. (n + 1) - 1 /\ i \in 1 .. n /\ i + 1 \in 1 .. n
        BY <1>1
      <4> QED BY <1>4, <1>6, <3>1, <4>1, <4>2, <4>3
    <3> QED BY <3>2, <3>3
  <2> QED BY <2>1 DEF Links
<1>11. States(r, n + 1, lo)'
  <2>1. \A i \in 1 .. n + 1 : i \in 1 .. n \/ i = n + 1
    BY <1>1
  <2>2. \A c \in Blocks : Popped(c) => Popped(c)'
    <3>1. ASSUME NEW c, NEW u \in Threads, KeptBy(u, c) PROVE KeptBy(u, c)'
      BY <3>1 DEF KeptBy, Appends, Rest, RanPoints
    <3> QED BY <3>1 DEF Popped, Appends
  <2>3. \A i \in 1 .. n + 1 : status'[r[i]] \notin {"new", "called"}
    BY <1>2, <1>4, <2>1 DEF Line, States, Appends
  <2>4. ASSUME NEW i \in lo .. n + 1 PROVE status'[r[i]] = "queued" /\ r[i] \notin signalled'
    <3>1. (i \in lo .. n /\ i \in 1 .. n) \/ i = n + 1
      BY <1>1
    <3> QED BY <1>2, <1>4, <3>1 DEF Line, States, Appends
  <2>5. ASSUME NEW i \in 1 .. lo - 1 PROVE Popped(r[i])'
    <3>1. i \in 1 .. n
      BY <1>1
    <3> QED BY <1>4, <2>2, <3>1 DEF Line, States
  <2>6. ASSUME NEW c \in Blocks, status'[c] = "queued" PROVE \E i \in 1 .. n + 1 : r[i] = c
    <3>1. CASE c = blk[t]
      <4>1. n + 1 \in 1 .. n + 1
        BY <1>1
      <4> QED BY <1>4, <3>1, <4>1
    <3>2. CASE c # blk[t]
      <4>1. PICK i \in 1 .. n : q[i] = c
        BY <2>6, <3>2 DEF Line, States, Appends
      <4>2. i \in 1 .. n + 1
        BY <1>1
      <4> QED BY <1>4, <4>1, <4>2
    <3> QED BY <3>1, <3>2
  <2> QED BY <2>3, <2>4, <2>5, <2>6 DEF States
<1>12. ASSUME MaxSuspends = 0 PROVE Order(r, n + 1, lo)'
  <2>1. Order(q, n, lo)
    BY <1>12 DEF Line
  <2>2. \A c \in Blocks : ahead[c] \subseteq Blocks /\ ahead'[c] = ahead[c]
    BY DEF SInv, MoreTypes, Appends, SameCalls
  <2>3. \A c \in Blocks : (status'[c] = "done" <=> status[c] = "done")
                           /\ (status'[c] = "running" <=> status[c] = "running")
    BY DEF Appends
  <2>4. ASSUME NEW a \in Blocks, NEW j \in 0 .. n, Earlier(a, q, j) PROVE Earlier(a, r, j)'
    <3>1. \A i \in 1 .. j : i \in 1 .. n
      BY <1>1
    <3> QED BY <1>4, <2>3, <2>4, <3>1 DEF Earlier
  <2>5. ASSUME NEW j \in 1 .. n + 1, NEW a \in ahead'[r[j]] PROVE Earlier(a, r, j - 1)'
    <3>1. CASE j = n + 1
      <4>1. a \in Blocks /\ a \in ahead[blk[t]]
        BY <1>3, <1>4, <2>2, <2>5, <3>1
      <4>2. Earlier(a, q, n)
        BY <4>1, EarlierOnLine DEF Appends, PrePoints
      <4>3. n \in 0 .. n /\ (n + 1) - 1 = n
        BY <1>1
      <4> QED BY <2>4, <3>1, <4>1, <4>2, <4>3
    <3>2. CASE j # n + 1
      <4>1. j \in 1 .. n /\ j - 1 \in 0 .. n
        BY <1>1, <3>2
      <4>2. a \in Blocks /\ a \in ahead[q[j]]
        BY <1>4, <2>2, <2>5, <4>1
      <4> QED BY <2>1, <2>4, <4>1, <4>2 DEF Order
    <3> QED BY <3>1, <3>2
  <2>6. ASSUME NEW a \in Blocks, Found(q, n, lo, a) PROVE Found(r, n + 1, lo, a)'
    <3>1. lo - 1 \in 0 .. n
      BY <1>1
    <3>2. (\E u \in Threads : pc[u] \in CheckPoints) => \E u \in Threads : pc'[u] \in CheckPoints
      BY DEF Appends, Rest, CheckPoints
    <3>3. lo <= n => lo <= n + 1 /\ lo \in 1 .. n
      BY <1>1
    <3> QED BY <1>4, <2>4, <2>6, <3>1, <3>2, <3>3 DEF Found
  <2>7. ASSUME NEW u \in Threads, pc'[u] \in {"looksuspended", "lock"}, NEW a \in ahead'[blk'[u]]
        PROVE  Found(r, n + 1, lo, a)'
    <3>1. pc[u] = pc'[u] /\ blk'[u] = blk[u]
      BY <2>7 DEF Appends, Rest
    <3>2. blk[u] \in Blocks
      BY <2>7, <3>1 DEF Local, CallPoints, Items
    <3> QED BY <2>1, <2>2, <2>6, <2>7, <3>1, <3>2 DEF Order
  <2>8. \A u \in Threads : pc'[u] \notin {"undo", "undospin"}
    BY <2>1 DEF Order, Appends, Rest
  <2>9. \A c \in Blocks : status'[c] = "running" => \A a \in ahead'[c] : status'[a] = "done"
    BY <2>1, <2>2, <2>3 DEF Order
  <2> QED BY <2>5, <2>7, <2>8, <2>9 DEF Order
<1> QED BY <1>7, <1>8, <1>9, <1>10, <1>11, <1>12 DEF Line, Position

\* _dispatch_queue_push: the exchange of the tail,
LEMMA PushTailSerial ==
    ASSUME SInv, IInv', NEW t \in Threads, PushTail(t)
    PROVE  SInv'
<1> USE InHand
<1>1. /\ Appends(t) /\ after' = after /\ redirected' = redirected /\ queued' = queued
      /\ running' = running /\ suspend' = suspend /\ refs' = refs
      /\ holds' = holds /\ suspended' = suspended /\ suspends' = suspends
      /\ prev' \in [Threads -> Items] /\ nextdc[t] = None
  <2>1. pc[t] = "push" /\ blk[t] \in Blocks /\ status[blk[t]] = "called" /\ sema[t] = None
        /\ nextdc[t] = None
    BY DEF PushTail, At, Hand, PrePoints, HandPoints, Items, Local, SemaPoints, CheckPoints,
           RanPoints
  <2>2. blk[t] \notin signalled
    BY <2>1 DEF SInv, Owned
  <2>3. /\ status \in [Blocks -> Statuses] /\ next \in [Blocks -> Items] /\ tail \in Items
        /\ prev \in [Threads -> Items]
    BY DEF SInv, IInv, Types, MoreTypes
  <2> QED BY <2>1, <2>2, <2>3
     DEF PushTail, At, Goto, Appends, Rest, SameCalls, countVars, rootVars,
         blockVars, userVars, drainVars
<1>2. OwnedChange(t)
  <2>1. Hand(t)'
    BY <1>1, ThreadsFinite DEF Appends, Hand, HandPoints, PrePoints, WakePoints, CheckPoints,
         RanPoints, InvokePoints, Owe, SameCalls
  <2>2. \A u \in Threads \ {t} : NotHis(u, blk[t])
    <3>1. ASSUME NEW u \in Threads \ {t}
          PROVE  /\ sema[u] # blk[t] /\ blk[u] # blk[t]
                 /\ pc[u] \in {"rundrain", "poprunning"} => dc[u] # blk[t]
      <4>1. Hand(u) /\ Hand(t) /\ blk[t] # None /\ status[blk[t]] = "called"
        BY <1>1, ThreadsFinite DEF Appends
      <4> QED BY <4>1 DEF Hand
    <3> QED BY <3>1 DEF NotHis, NotDue
  <2>3. \A c \in Blocks \ {blk[t]} : status'[c] = status[c]
    BY <1>1 DEF Appends
  <2>4. \A c \in signalled : status[c] = "queued" /\ c \in Blocks
    BY DEF SInv, Owned, IInv, Types
  <2>5. status[blk[t]] = "called" /\ status'[blk[t]] = "queued" /\ blk' = blk
        /\ signalled' = signalled /\ blk[t] \notin signalled
    BY <1>1 DEF Appends
  <2> QED BY <2>1, <2>2, <2>3, <2>4, <2>5 DEF OwnedChange
<1>3. VisitorsChange(t)
  BY <1>1 DEF Appends, VisitorsChange, Visits, Owe, InvokePoints, WakePoints
<1>4. Moved(t) /\ Shift(t, 0) /\ Seer(t)
  <2>1. tail' \in Items
    BY <1>1 DEF Appends, Items
  <2> QED BY <1>1, <2>1 DEF Appends, Moved, SerialPoints, Points, Shift, Held, Odd, Two, Xfer, Owe,
         Hit, InvokePoints, DrainPoints, FastPoints, SlowPoints, SharePoints, TakePoints,
         WakePoints, Seer, SeePoints, SInv, MoreTypes, OnlyBarriers
<1>5. InLine'
  <2>1. PICK q, n, lo : Line(q, n, lo)
    BY DEF SInv, InLine
  <2> QED BY <1>1, <2>1, AppendLine, InLineThen
<1>6. Cardinality(signalled)' = Cardinality(signalled) + 0
  BY <1>1, SetsFinite DEF SInv, IInv, Appends
<1>7. Rest(t)
  BY <1>1 DEF Appends
<1> QED BY <1>2, <1>3, <1>4, <1>5, <1>6, <1>7, StepKeeps

\* A step of a thread that has nothing that was popped, nor looks for a way in.
Aside(t) ==
    /\ status' = status /\ signalled' = signalled /\ ahead' = ahead /\ Rest(t)
    /\ {pc[t], pc'[t]} \cap (HeldPoints \cup {"runslow", "looksuspended", "lock"}) = {}
    /\ sema[t] = None /\ sema' = sema

\* Then the items are in the state they were in.
LEMMA AsideStays ==
    ASSUME SInv, NEW t \in Threads, Aside(t), NEW q, NEW n, NEW lo, Line(q, n, lo)
    PROVE  States(q, n, lo)' /\ (MaxSuspends = 0 => Order(q, n, lo)')
<1>1. \A b \in Blocks : Popped(b) => Popped(b)'
  <2>1. ASSUME NEW b \in Blocks, NEW u \in Threads, KeptBy(u, b) PROVE KeptBy(u, b)'
    <3>1. u # t
      BY <2>1, ThreadsFinite DEF KeptBy, Aside, HeldPoints
    <3> QED BY <2>1, <3>1 DEF KeptBy, Aside, Rest
  <2> QED BY <2>1 DEF Popped, Aside
<1>2. \A i \in 1 .. lo - 1 : q[i] \in Blocks
  BY DEF Line, Numbered
<1>3. States(q, n, lo)'
  BY <1>1, <1>2 DEF Line, States, Aside
<1>4. ASSUME MaxSuspends = 0 PROVE Order(q, n, lo)'
  <2>1. \A a, j : Earlier(a, q, j)' = Earlier(a, q, j)
    BY DEF Earlier, Aside
  <2>2. (\E u \in Threads : pc[u] \in CheckPoints) => \E u \in Threads : pc'[u] \in CheckPoints
    BY DEF Aside, Rest, HeldPoints
  <2>3. \A a : Found(q, n, lo, a) => Found(q, n, lo, a)'
    BY <2>1, <2>2 DEF Found
  <2>4. \A u \in Threads : /\ pc'[u] \in {"looksuspended", "lock"}
                                 => pc[u] = pc'[u] /\ blk'[u] = blk[u]
                           /\ pc'[u] \notin {"undo", "undospin"}
    BY <1>4 DEF Line, Order, Aside, Rest, HeldPoints, CheckPoints
  <2> QED BY <1>4, <2>1, <2>3, <2>4 DEF Line, Order, Aside
<1> QED BY <1>3, <1>4

\* push_list_slow2: the head of a list that was empty.
LEMMA HeadLine ==
    ASSUME SInv, NEW t \in Threads, Aside(t), pc[t] = "sethead", pc'[t] = "wake", dc' = dc,
           nextdc' = nextdc, head' = blk[t], tail' = tail, next' = next,
           NEW q, NEW n, NEW lo, Line(q, n, lo)
    PROVE  Line(q, n, lo)'
<1>1. ~NoFirst /\ \A k : ~Taken(q, n, k)
  BY DEF NoFirst, Taken
<1>2. ASSUME NEW k PROVE Body(q, n, k)' = Body(q, n, k)
  <2>1. \A u \in Threads : /\ pc'[u] = "link" <=> pc[u] = "link"
                           /\ pc[u] = "link" => prev'[u] = prev[u] /\ blk'[u] = blk[u]
    BY DEF Aside, Rest
  <2>2. \A i : Follows(q, i)' = Follows(q, i)
    BY <2>1 DEF Follows
  <2> QED BY <2>2 DEF Body
<1>3. ASSUME NEW k, Listed(q, n, k) PROVE Listed(q, n, k)'
  <2>1. Body(q, n, k) /\ First(q, k)
    BY <1>1, <1>3 DEF Listed
  <2>2. blk[t] = q[k] /\ \A u \in Threads : pc[u] = "sethead" => u = t
    BY <2>1 DEF First
  <2>3. NoFirst'
    BY <2>2 DEF NoFirst, Aside, Rest
  <2> QED BY <1>2, <2>1, <2>2, <2>3 DEF Listed
<1>4. ASSUME NEW u \in Threads PROVE Has(q, n, lo, u)'
  <2>1. CASE u = t
    BY <2>1 DEF Aside, Has, FrontPoints, CheckPoints, RanPoints, TailPoints
  <2>2. CASE u # t
    <3>1. /\ pc'[u] = pc[u] /\ dc'[u] = dc[u] /\ nextdc'[u] = nextdc[u] /\ sema'[u] = sema[u]
      BY <2>2 DEF Aside, Rest
    <3>2. Has(q, n, lo, u)
      BY DEF Line, Position
    <3>3. Unlinked(q, lo) => Unlinked(q, lo)'
      BY DEF Unlinked, Aside, Rest
    <3>4. /\ Listed(q, n, lo + 1) => Listed(q, n, lo + 1)'
          /\ Listed(q, n, lo) => Listed(q, n, lo)'
      BY <1>3
    <3> QED BY <1>1, <3>1, <3>2, <3>3, <3>4 DEF Has
  <2> QED BY <2>1, <2>2
<1>5. ASSUME \A u \in Threads : pc'[u] \notin HeldPoints PROVE Listed(q, n, lo)'
  <2>1. \A u \in Threads : pc[u] \notin HeldPoints
    BY <1>5 DEF Aside, Rest
  <2> QED BY <1>3, <2>1 DEF Line, Position
<1>6. Links(q, n, lo)'
  <2>1. \A u \in Threads : /\ pc'[u] = "link" => /\ pc[u] = "link" /\ prev'[u] = prev[u]
                                                 /\ blk'[u] = blk[u]
                           /\ pc[u] \in TailPoints => pc'[u] \in TailPoints
    BY DEF Aside, Rest, TailPoints
  <2> QED BY <2>1 DEF Line, Links
<1> QED BY <1>4, <1>5, <1>6, AsideStays DEF Line, Position, Numbered

\* The queue is retained for the wakeup.
LEMMA PushHeadSerial ==
    ASSUME SInv, IInv', NEW t \in Threads, PushHead(t)
    PROVE  SInv'
<1> USE InHand
<1>1. /\ pc[t] = "sethead" /\ pc'[t] = "wake" /\ after'[t] = "release" /\ Rest(t) /\ SameCalls
      /\ refs' = refs + 1 /\ head' = blk[t] /\ blk[t] \in Blocks
      /\ running' = running /\ suspend' = suspend /\ queued' = queued
      /\ tail' = tail /\ next' = next /\ signalled' = signalled /\ redirected' = redirected
      /\ blk' = blk /\ dc' = dc /\ nextdc' = nextdc /\ sema' = sema /\ prev' = prev
      /\ holds' = holds /\ suspended' = suspended /\ suspends' = suspends
      /\ status' = status /\ sema[t] = None
  <2>1. pc[t] = "sethead" /\ blk[t] \in Blocks /\ sema[t] = None
    BY DEF PushHead, At, Hand, HandPoints, Items, Local, SemaPoints
  <2> QED BY <2>1 DEF PushHead, Enter, At, Goto, Rest, SameCalls, rootVars, history,
         blockVars, userVars, drainVars
<1>2. Aside(t)
  BY <1>1 DEF Aside, SameCalls, HeldPoints, FrontPoints, CheckPoints, RanPoints, TailPoints
<1>3. OwnedChange(t)
  <2>1. Hand(t)'
    BY <1>1, ThreadsFinite DEF Hand, HandPoints, PrePoints, WakePoints, CheckPoints,
         RanPoints, InvokePoints, Owe, SameCalls
  <2>2. \A c \in signalled : status[c] = "queued" /\ c \in Blocks
    BY DEF SInv, Owned, IInv, Types
  <2>3. status[blk[t]] = "queued"
    BY <1>1 DEF Hand
  <2> QED BY <1>1, <2>1, <2>2, <2>3 DEF OwnedChange
<1>4. VisitorsChange(t)
  BY <1>1 DEF VisitorsChange, Visits, Owe, InvokePoints, WakePoints
<1>5. Moved(t) /\ Shift(t, 0) /\ Seer(t)
  BY <1>1 DEF Moved, SerialPoints, Points, Shift, Held, Odd, Two, Xfer, Owe,
         Hit, InvokePoints, DrainPoints, FastPoints, SlowPoints, SharePoints, TakePoints,
         WakePoints, Seer, SeePoints, SInv, MoreTypes, OnlyBarriers
<1>6. InLine'
  <2>1. PICK q, n, lo : Line(q, n, lo)
    BY DEF SInv, InLine
  <2> QED BY <1>1, <1>2, <2>1, HeadLine, InLineThen
<1>7. Cardinality(signalled)' = Cardinality(signalled) + 0
  BY <1>1, SetsFinite DEF SInv, IInv
<1> QED BY <1>1, <1>3, <1>4, <1>5, <1>6, <1>7, StepKeeps

\* The link from the previous item.
LEMMA LinkLine ==
    ASSUME SInv, NEW t \in Threads, Aside(t), pc[t] = "link", pc'[t] \in {"wait", "idle"},
           dc' = dc, nextdc' = nextdc, head' = head, tail' = tail,
           next' = [next EXCEPT ![prev[t]] = blk[t]],
           NEW q, NEW n, NEW lo, Line(q, n, lo)
    PROVE  Line(q, n, lo)'
<1> USE InHand
<1>1. /\ n \in Nat /\ q \in [1 .. n -> Blocks] /\ lo \in 1 .. n + 1
      /\ \A i, j \in 1 .. n : q[i] = q[j] => i = j
  BY DEF Line, Numbered
<1>2. PICK i \in 1 .. n - 1 : prev[t] = q[i] /\ blk[t] = q[i + 1] /\ next[q[i]] = None
  BY DEF Line, Links
<1>3. i \in 1 .. n /\ i + 1 \in 1 .. n /\ i # n
  BY <1>1
<1>4. q[i] \in Blocks /\ q[i + 1] \in Blocks /\ q[i + 1] # None
  BY <1>1, <1>3, ThreadsFinite
<1>5. next'[q[i]] = q[i + 1] /\ \A c \in Blocks \ {q[i]} : next'[c] = next[c]
  BY <1>2, <1>4 DEF SInv, IInv, Types
<1>6. \A j \in 1 .. n : j # i => next'[q[j]] = next[q[j]] /\ q[j] # q[i]
  BY <1>1, <1>3, <1>5
<1>7. \A u \in Threads \ {t} : /\ pc'[u] = pc[u] /\ blk'[u] = blk[u] /\ prev'[u] = prev[u]
                               /\ dc'[u] = dc[u] /\ nextdc'[u] = nextdc[u] /\ sema'[u] = sema[u]
  BY DEF Aside, Rest
<1>8. ASSUME NEW j \in 1 .. n - 1, Follows(q, j) PROVE Follows(q, j)'
  <2>1. j \in 1 .. n
    BY <1>1
  <2>2. CASE j = i
    BY <1>5, <2>2 DEF Follows
  <2>3. CASE j # i
    <3>1. next'[q[j]] = next[q[j]] /\ q[j] # q[i]
      BY <1>6, <2>1, <2>3
    <3>2. CASE next[q[j]] = q[j + 1]
      BY <3>1, <3>2 DEF Follows
    <3>3. ASSUME NEW u \in Threads, pc[u] = "link", prev[u] = q[j], blk[u] = q[j + 1],
                 next[q[j]] = None
          PROVE  Follows(q, j)'
      <4>1. u # t
        BY <1>2, <3>1, <3>3
      <4> QED BY <1>7, <3>1, <3>3, <4>1 DEF Follows
    <3> QED BY <1>8, <3>2, <3>3 DEF Follows
  <2> QED BY <2>2, <2>3
<1>9. ASSUME NEW k \in 1 .. n + 1, Body(q, n, k) PROVE Body(q, n, k)'
  <2>1. n \in 1 .. n /\ \A j \in k .. n - 1 : j \in 1 .. n - 1
    BY <1>1, <1>3
  <2>2. next'[q[n]] = next[q[n]]
    BY <1>3, <1>6, <2>1
  <2> QED BY <1>8, <1>9, <2>1, <2>2 DEF Body
<1>10. ASSUME NEW k PROVE First(q, k)' = First(q, k) /\ NoFirst' = NoFirst
  <2>1. \A u \in Threads : /\ pc'[u] = "sethead" <=> pc[u] = "sethead"
                           /\ pc[u] = "sethead" => blk'[u] = blk[u]
    BY <1>7
  <2> QED BY <2>1 DEF First, NoFirst
<1>11. \A k \in 1 .. n + 1 : /\ Listed(q, n, k) => Listed(q, n, k)'
                             /\ Taken(q, n, k) => Taken(q, n, k)'
  BY <1>9, <1>10 DEF Listed, Taken
<1>12. ASSUME lo <= n, Unlinked(q, lo) PROVE Unlinked(q, lo)'
  <2>1. lo # i /\ lo \in 1 .. n
    BY <1>1, <1>2, <1>12 DEF Unlinked
  <2>2. next'[q[lo]] = None
    BY <1>6, <1>12, <2>1 DEF Unlinked
  <2> QED BY <1>7, <1>12, <2>2 DEF Unlinked
<1>13. ASSUME NEW u \in Threads PROVE Has(q, n, lo, u)'
  <2>1. CASE u = t
    BY <2>1 DEF Aside, Has, FrontPoints, CheckPoints, RanPoints, TailPoints
  <2>2. CASE u # t
    <3>1. Has(q, n, lo, u) /\ pc'[u] = pc[u] /\ dc'[u] = dc[u] /\ nextdc'[u] = nextdc[u]
          /\ sema'[u] = sema[u]
      BY <1>7, <2>2 DEF Line, Position
    <3>2. Taken(q, n, lo) => Taken(q, n, lo)'
      BY <1>1, <1>11
    <3>3. Listed(q, n, lo) => Listed(q, n, lo)'
      BY <1>1, <1>11
    <3>4. lo <= n => /\ Listed(q, n, lo + 1) => Listed(q, n, lo + 1)'
                     /\ next[q[lo]] = q[lo + 1] /\ lo < n => next'[q[lo]] = q[lo + 1]
      <4>1. lo <= n => lo + 1 \in 1 .. n + 1 /\ lo \in 1 .. n
        BY <1>1
      <4>2. lo < n => lo + 1 \in 1 .. n
        BY <1>1
      <4>3. lo < n => q[lo + 1] # None
        BY <1>1, <4>2, ThreadsFinite
      <4> QED BY <1>2, <1>6, <1>11, <4>1, <4>3
    <3>5. lo > 1 /\ Taken(q, n, lo - 1) => Taken(q, n, lo - 1)'
      <4>1. lo > 1 => lo - 1 \in 1 .. n + 1
        BY <1>1
      <4> QED BY <1>11, <4>1
    <3>6. (Body(q, n, lo) => Body(q, n, lo)') /\ (NoFirst => NoFirst')
      BY <1>1, <1>9, <1>10
    <3> QED BY <1>12, <3>1, <3>2, <3>3, <3>4, <3>5, <3>6 DEF Has
  <2> QED BY <2>1, <2>2
<1>14. ASSUME \A u \in Threads : pc'[u] \notin HeldPoints PROVE Listed(q, n, lo)'
  <2>1. \A u \in Threads : pc[u] \notin HeldPoints
    BY <1>14 DEF Aside, Rest
  <2> QED BY <1>1, <1>11, <2>1 DEF Line, Position
<1>15. Links(q, n, lo)'
  <2>1. ASSUME NEW u \in Threads, pc'[u] = "link"
        PROVE  \E j \in 1 .. n - 1 :
                   /\ prev'[u] = q[j] /\ blk'[u] = q[j + 1] /\ next'[q[j]] = None
                   /\ j >= lo \/ (j = lo - 1 /\ \E v \in Threads : pc'[v] \in TailPoints)
    <3>1. u # t /\ pc[u] = "link" /\ prev'[u] = prev[u] /\ blk'[u] = blk[u]
      BY <1>7, <2>1
    <3>2. PICK j \in 1 .. n - 1 :
              /\ prev[u] = q[j] /\ blk[u] = q[j + 1] /\ next[q[j]] = None
              /\ j >= lo \/ (j = lo - 1 /\ \E v \in Threads : pc[v] \in TailPoints)
      BY <3>1 DEF Line, Links
    <3>3. j # i
      <4>1. blk[u] = blk[t] => u = t
        <5>1. Hand(u) /\ Hand(t) /\ blk[t] # None
          BY <1>2, <1>4
        <5> QED BY <5>1 DEF Hand
      <4> QED BY <1>2, <3>1, <3>2, <4>1
    <3>4. j \in 1 .. n
      BY <1>1
    <3>5. (\E v \in Threads : pc[v] \in TailPoints) => \E v \in Threads : pc'[v] \in TailPoints
      BY <1>7 DEF TailPoints
    <3> QED BY <1>6, <3>1, <3>2, <3>3, <3>4, <3>5
  <2> QED BY <2>1 DEF Links
<1> QED BY <1>13, <1>14, <1>15, AsideStays DEF Line, Position, Numbered

\* A client that does not wait returns.
LEMMA PushLinkSerial ==
    ASSUME SInv, IInv', Serial, NEW t \in Threads, PushLink(t)
    PROVE  SInv'
<1> USE InHand
<1>1. /\ pc[t] = "link" /\ after'[t] = after[t] /\ Rest(t) /\ SameCalls
      /\ blk[t] \in Blocks
      /\ \/ kind[blk[t]] = "bsync" /\ pc'[t] = "wait" /\ blk'[t] = blk[t]
         \/ kind[blk[t]] = "barrier" /\ pc'[t] = "idle" /\ blk'[t] = None
      /\ suspend' = suspend /\ queued' = queued /\ refs' = refs /\ running' = running
      /\ head' = head /\ tail' = tail /\ next' = [next EXCEPT ![prev[t]] = blk[t]]
      /\ signalled' = signalled /\ prev' \in [Threads -> Items]
      /\ dc' = dc /\ nextdc' = nextdc /\ sema' = sema /\ status' = status
      /\ holds' = holds /\ suspended' = suspended /\ suspends' = suspends
      /\ redirected' = redirected /\ sema[t] = None
  <2>1. blk[t] # None /\ blk[t] \in Blocks /\ kind[blk[t]] \in Barriers
    <3>1. blk[t] # None /\ blk[t] \in Old
      BY DEF PushLink, At, Hand, HandPoints, SInv, IInv, AllOld
    <3> QED BY <3>1 DEF Old, SInv, IInv, Kinds
  <2>2. sema[t] = None /\ blk \in [Threads -> Items] /\ prev \in [Threads -> Items]
    BY DEF PushLink, At, Local, SemaPoints, SInv, IInv, Types, MoreTypes
  <2> QED BY <2>1, <2>2
     DEF PushLink, LeavePush, Forget, At, Goto, Rest, SameCalls, countVars, rootVars, history,
         blockVars, userVars, drainVars, Syncs, Barriers, Items
<1>2. Aside(t)
  BY <1>1 DEF Aside, SameCalls, HeldPoints, FrontPoints, CheckPoints, RanPoints, TailPoints
<1>3. OwnedChange(t)
  <2>1. Hand(t) /\ blk[t] # None /\ None \notin Blocks
    BY <1>1, ThreadsFinite
  <2>2. status[blk[t]] = "queued" /\ owner[blk[t]] = t /\ t \notin Workers /\ nextdc[t] = None
    BY <1>1, <2>1 DEF Hand, CheckPoints, RanPoints
  <2>3. Hand(t)'
    BY <1>1, <2>1, <2>2 DEF Hand, HandPoints, PrePoints, WakePoints, CheckPoints,
         RanPoints, InvokePoints, SameCalls
  <2>4. \A c \in signalled : status[c] = "queued" /\ c \in Blocks
    BY DEF SInv, Owned, IInv, Types
  <2> QED BY <1>1, <2>1, <2>2, <2>3, <2>4 DEF OwnedChange
<1>4. VisitorsChange(t)
  <2>1. pc'[t] = "wait" => Visits(t) /\ blk'[t] = blk[t]
    BY <1>1, ThreadsFinite DEF Visits
  <2>2. pc'[t] = "idle" => ~Visits(t)'
    BY <1>1 DEF Visits
  <2> QED BY <1>1, <2>1, <2>2 DEF VisitorsChange
<1>5. Moved(t) /\ Shift(t, 0) /\ Seer(t)
  BY <1>1 DEF Moved, SerialPoints, Points, Shift, Held, Odd, Two, Xfer, Owe,
         Hit, InvokePoints, DrainPoints, FastPoints, SlowPoints, SharePoints, TakePoints,
         WakePoints, Seer, SeePoints, SInv, MoreTypes, OnlyBarriers
<1>6. InLine'
  <2>1. PICK q, n, lo : Line(q, n, lo)
    BY DEF SInv, InLine
  <2> QED BY <1>1, <1>2, <2>1, LinkLine, InLineThen
<1>7. Cardinality(signalled)' = Cardinality(signalled) + 0
  BY <1>1, SetsFinite DEF SInv, IInv
<1> QED BY <1>1, <1>3, <1>4, <1>5, <1>6, <1>7, StepKeeps

-----------------------------------------------------------------------------
(* A call.                                                                  *)
Calls1(t, b) ==
    /\ t \in Clients /\ t \in holds /\ pc[t] = "idle" /\ Rest(t)
    /\ pc'[t] \in {"push", "look"} /\ (pc'[t] = "look" => kind'[b] = "bsync")
    /\ kind'[b] \in {"barrier", "bsync"} /\ status[b] = "new" /\ status'[b] = "called"
    /\ owner' = [owner EXCEPT ![b] = t] /\ owner'[b] = t
    /\ ahead' = [ahead EXCEPT ![b] = {a \in Blocks : owner[a] = t /\ status[a] # "done"}]
    /\ ahead'[b] = {a \in Blocks : owner[a] = t /\ status[a] # "done"}
    /\ \A c \in Blocks \ {b} : /\ kind'[c] = kind[c] /\ owner'[c] = owner[c]
                               /\ status'[c] = status[c] /\ ahead'[c] = ahead[c]
    /\ blk'[t] = b /\ after' = after /\ prev' = prev
    /\ dc' = dc /\ nextdc' = nextdc /\ sema' = sema
    /\ head' = head /\ tail' = tail /\ next' = next /\ running' = running
    /\ suspend' = suspend /\ refs' = refs /\ queued' = queued
    /\ redirected' = redirected /\ signalled' = signalled
    /\ holds' = holds /\ suspended' = suspended /\ suspends' = suspends

\* Nobody has a block that is new.
LEMMA NobodyHasNew ==
    ASSUME SInv, NEW b \in Blocks, status[b] = "new"
    PROVE  /\ owner[b] = None /\ b \notin signalled
           /\ \A u \in Threads : blk[u] # b /\ dc[u] # b /\ sema[u] # b
           /\ \A c \in Blocks : b \notin ahead[c]
<1>1. b \notin Old
  BY ThreadsFinite DEF Old
<1> QED BY <1>1 DEF SInv, IInv, AllOld, Owned

\* The counters and the places after a call,
LEMMA CallRest ==
    ASSUME SInv, IInv', NEW t \in Threads, NEW b \in Blocks, Calls1(t, b)
    PROVE  OnlyBarriers' /\ MoreTypes' /\ Exact' /\ Covered'
<1> USE InHand
<1>1. /\ status[b] = "new" /\ owner[b] = None /\ b \notin signalled
      /\ \A u \in Threads : blk[u] # b
  BY NobodyHasNew DEF Calls1
<1>2. OnlyBarriers'
  <2>1. ASSUME NEW u \in Threads
        PROVE  /\ pc'[u] \in SerialPoints /\ after'[u] # "push"
               /\ pc'[u] \in {"look", "looksuspended"} => kind'[blk'[u]] = "bsync"
    <3>1. CASE u = t
      BY <3>1 DEF SInv, OnlyBarriers, Calls1, SerialPoints, Points
    <3>2. CASE u # t
      <4>1. pc'[u] = pc[u] /\ blk'[u] = blk[u] /\ after'[u] = after[u]
        BY <3>2 DEF Calls1, Rest
      <4>2. pc[u] \in {"look", "looksuspended"} => blk[u] \in Blocks \ {b}
        BY <1>1 DEF Local, CallPoints, Items
      <4> QED BY <4>1, <4>2 DEF SInv, OnlyBarriers, Calls1
    <3> QED BY <3>1, <3>2
  <2>2. signalled \subseteq Blocks \ {b}
    BY <1>1 DEF SInv, IInv, Types
  <2> QED BY <2>1, <2>2 DEF SInv, OnlyBarriers, Calls1
<1>3. MoreTypes'
  <2>1. owner' \in [Blocks -> Clients \cup {None}] /\ ahead' \in [Blocks -> SUBSET Blocks]
    BY DEF SInv, MoreTypes, Calls1
  <2> QED BY <2>1 DEF SInv, MoreTypes, Calls1
<1>4. Exact'
  <2>1. Shift(t, 0)
    BY DEF Calls1, Shift, Held, Odd, Two, Xfer, Owe, Hit, SInv, MoreTypes, DrainPoints,
        FastPoints, TakePoints, SharePoints, SlowPoints, InvokePoints, WakePoints
  <2>2. Cardinality(signalled)' = Cardinality(signalled) + 0
    BY SetsFinite DEF SInv, IInv, Calls1
  <2>3. Rest(t)
    BY DEF Calls1
  <2> QED BY <1>3, <2>1, <2>2, <2>3, ExactStep DEF MoreTypes
<1>5. Covered'
  BY CoveredStays DEF SInv, Calls1, SeePoints, WakePoints, InvokePoints, DrainPoints, FastPoints,
         SlowPoints, TakePoints
<1> QED BY <1>2, <1>3, <1>4, <1>5

\* what the threads have in their hands: the block is the client's own,
LEMMA CallOwned ==
    ASSUME SInv, NEW t \in Threads, NEW b \in Blocks, Calls1(t, b)
    PROVE  Owned'
<1> USE InHand
<1>1. /\ status[b] = "new" /\ owner[b] = None /\ b \notin signalled
      /\ \A u \in Threads : blk[u] # b /\ dc[u] # b /\ sema[u] # b
      /\ \A c \in Blocks : b \notin ahead[c]
  BY NobodyHasNew DEF Calls1
<1>2. None \notin Blocks /\ t # None /\ t \notin Workers
  BY ThreadsFinite, QueueAssumption DEF Calls1
<1>3. blk[t] = None /\ sema[t] = None /\ nextdc[t] = None
  BY IdleHand DEF Calls1
<1>4. ASSUME NEW u \in Threads PROVE Hand(u)'
  <2>1. CASE u = t
    BY <1>2, <1>3, <2>1 DEF Calls1, Hand, HandPoints, PrePoints, WakePoints, CheckPoints,
          RanPoints, InvokePoints
  <2>2. CASE u # t
    <3>1. /\ pc'[u] = pc[u] /\ after'[u] = after[u] /\ blk'[u] = blk[u] /\ dc'[u] = dc[u]
          /\ nextdc'[u] = nextdc[u] /\ sema'[u] = sema[u] /\ signalled' = signalled
      BY <2>2 DEF Calls1, Rest
    <3>2. /\ blk[u] # None => blk[u] \in Blocks \ {b}
          /\ sema[u] # None => sema[u] \in Blocks \ {b}
          /\ pc[u] \in {"rundrain", "poprunning"} => dc[u] \in Blocks \ {b}
      BY <1>1 DEF Items, Local, ItemPoints
    <3>3. /\ blk[u] # None => /\ kind'[blk[u]] = kind[blk[u]] /\ owner'[blk[u]] = owner[blk[u]]
                              /\ status'[blk[u]] = status[blk[u]]
          /\ sema[u] # None => /\ kind'[sema[u]] = kind[sema[u]]
                               /\ status'[sema[u]] = status[sema[u]]
          /\ pc[u] \in {"rundrain", "poprunning"} =>
                 kind'[dc[u]] = kind[dc[u]] /\ status'[dc[u]] = status[dc[u]]
      BY <3>2 DEF Calls1
    <3>4. Hand(u)
      OBVIOUS
    <3> QED BY <3>1, <3>3, <3>4 DEF Hand, HandPoints, PrePoints
  <2> QED BY <2>1, <2>2
<1>5. \A c \in signalled' : status'[c] = "queued"
  BY <1>1 DEF SInv, Owned, IInv, Types, Calls1
<1>6. \A c \in Blocks : status'[c] = "new" => owner'[c] = None
  BY DEF SInv, Owned, Calls1
<1>7. ASSUME NEW c \in Blocks, NEW a \in ahead'[c]
      PROVE  a # c /\ owner'[a] = owner'[c] /\ status'[a] # "new"
  <2>1. CASE c = b
    <3>1. a \in Blocks /\ owner[a] = t /\ a # b
      BY <1>1, <1>2, <1>7, <2>1 DEF Calls1
    <3>2. status[a] # "new"
      BY <1>2, <3>1 DEF SInv, Owned
    <3> QED BY <2>1, <3>1, <3>2 DEF Calls1
  <2>2. CASE c # b
    <3>1. a \in ahead[c] /\ a \in Blocks /\ a # b
      BY <1>1, <1>7, <2>2 DEF Calls1, SInv, MoreTypes
    <3> QED BY <2>2, <3>1 DEF SInv, Owned, Calls1
  <2> QED BY <2>1, <2>2
<1>8. ASSUME NEW c \in Blocks, status'[c] = "called"
      PROVE  \E u \in Threads : blk'[u] = c /\ pc'[u] \in PrePoints
  <2>1. CASE c = b
    BY <2>1 DEF Calls1, PrePoints
  <2>2. CASE c # b
    <3>1. PICK u \in Threads : blk[u] = c /\ pc[u] \in PrePoints
      BY <1>8, <2>2 DEF SInv, Owned, Calls1
    <3> QED BY <3>1 DEF Calls1, Rest, PrePoints
  <2> QED BY <2>1, <2>2
<1>9. ASSUME NEW c \in Blocks, status'[c] = "queued", kind'[c] = "bsync"
      PROVE  \E u \in Threads : blk'[u] = c
  <2>1. c # b /\ status[c] = "queued" /\ kind[c] = "bsync"
    BY <1>9 DEF Calls1
  <2>2. PICK u \in Threads : blk[u] = c
    BY <2>1 DEF SInv, Owned
  <2> QED BY <1>2, <1>3, <2>2 DEF Calls1, Rest
<1> QED BY <1>4, <1>5, <1>6, <1>7, <1>8, <1>9 DEF Owned

\* the visitors: what the client has not ended is ahead of the block,
LEMMA CallVisitors ==
    ASSUME SInv, NEW t \in Threads, NEW b \in Blocks, Calls1(t, b)
    PROVE  Visitors'
<1>1. /\ owner[b] = None /\ \A u \in Threads : blk[u] # b
      /\ \A c \in Blocks : b \notin ahead[c]
  BY NobodyHasNew DEF Calls1
<1>2. ASSUME NEW u \in Threads, Visits(u)'
      PROVE  u \in holds' /\ \E a \in Blocks : Latest(u, a)'
  <2>1. CASE u = t
    <3>1. Latest(t, b)'
      BY ThreadsFinite DEF Calls1, Latest
    <3> QED BY <2>1, <3>1 DEF Calls1
  <2>2. CASE u # t
    <3>1. pc'[u] = pc[u] /\ after'[u] = after[u] /\ blk'[u] = blk[u] /\ blk[u] \in Items
      BY <2>2 DEF Calls1, Rest, SInv, IInv, Types
    <3>2. Visits(u)
      BY <1>1, <1>2, <3>1 DEF Visits, Calls1, Items
    <3>3. u \in holds /\ u # None
      BY <3>2, QueueAssumption DEF SInv, Visitors, MoreTypes
    <3>4. PICK a \in Blocks : Latest(u, a)
      BY <3>2 DEF SInv, Visitors
    <3>5. a # b
      BY <1>1, <3>3, <3>4 DEF Latest
    <3>6. Latest(u, a)'
      <4>1. ASSUME NEW c \in Blocks, owner'[c] = u, c # a, status'[c] # "done"
            PROVE  c \in ahead'[a]
        <5>1. c # b
          BY <2>2, <4>1 DEF Calls1
        <5> QED BY <3>4, <3>5, <4>1, <5>1 DEF Latest, Calls1
      <4> QED BY <3>1, <3>4, <3>5, <4>1 DEF Latest, Calls1
    <3> QED BY <3>3, <3>6 DEF Calls1
  <2> QED BY <2>1, <2>2
<1> QED BY <1>2 DEF Visitors

\* the line, which the block is not on yet.
LEMMA CallLine ==
    ASSUME SInv, NEW t \in Threads, NEW b \in Blocks, Calls1(t, b),
           NEW q, NEW n, NEW lo, Line(q, n, lo)
    PROVE  Line(q, n, lo)'
<1> USE InHand
<1>1. status[b] = "new" /\ sema[t] = None
  BY IdleHand DEF Calls1
<1>2. \A i \in 1 .. n : q[i] \in Blocks \ {b}
  BY <1>1 DEF Line, Numbered, States
<1>3. SameLinks
  BY DEF SameLinks, Calls1, Rest
<1>4. Position(q, n, lo)'
  <2>1. ASSUME NEW u \in Threads PROVE Has(q, n, lo, u)'
    <3>1. CASE u = t
      BY <1>1, <3>1 DEF Calls1, Has, FrontPoints, CheckPoints, RanPoints, TailPoints
    <3>2. CASE u # t
      <4>1. /\ pc'[u] = pc[u] /\ dc'[u] = dc[u] /\ nextdc'[u] = nextdc[u] /\ sema'[u] = sema[u]
            /\ head' = head /\ next' = next
        BY <3>2 DEF Calls1, Rest
      <4>2. Has(q, n, lo, u)
        BY DEF Line, Position
      <4> QED BY <1>3, <4>1, <4>2, PartsStay DEF Has
    <3> QED BY <3>1, <3>2
  <2>2. ASSUME \A u \in Threads : pc'[u] \notin HeldPoints PROVE Listed(q, n, lo)'
    <3>1. \A u \in Threads : pc[u] \notin HeldPoints
      BY <2>2 DEF Calls1, Rest, HeldPoints, FrontPoints, CheckPoints, RanPoints, TailPoints
    <3> QED BY <1>3, <3>1, PartsStay DEF Line, Position
  <2> QED BY <2>1, <2>2 DEF Position
<1>5. Links(q, n, lo)'
  <2>1. \A u \in Threads : /\ pc'[u] = "link" => /\ pc[u] = "link" /\ prev'[u] = prev[u]
                                                 /\ blk'[u] = blk[u]
                           /\ pc[u] \in TailPoints => pc'[u] \in TailPoints
    BY DEF Calls1, Rest, TailPoints
  <2> QED BY <2>1 DEF Line, Links, Calls1
<1>6. States(q, n, lo)'
  <2>1. \A c \in Blocks \ {b} : Popped(c) => Popped(c)'
    <3>1. ASSUME NEW c \in Blocks, NEW u \in Threads, KeptBy(u, c) PROVE KeptBy(u, c)'
      <4>1. u # t
        BY <1>1, <3>1, ThreadsFinite DEF KeptBy, Calls1, RanPoints
      <4> QED BY <3>1, <4>1 DEF KeptBy, Calls1, Rest
    <3> QED BY <3>1 DEF Popped, Calls1
  <2>2. \A i \in lo .. n : i \in 1 .. n
    BY DEF Line, Numbered
  <2>3. \A i \in 1 .. lo - 1 : i \in 1 .. n
    BY DEF Line, Numbered
  <2> QED BY <1>2, <2>1, <2>2, <2>3 DEF Line, States, Calls1
<1>7. ASSUME MaxSuspends = 0 PROVE Order(q, n, lo)'
  <2>1. Order(q, n, lo) /\ \A c \in Blocks : ahead[c] \subseteq Blocks
    BY <1>7 DEF Line, SInv, MoreTypes
  <2>2. \A c \in Blocks : (status'[c] = "done" <=> status[c] = "done")
                           /\ (status'[c] = "running" => c # b /\ status[c] = "running")
    BY DEF Calls1
  <2>3. ASSUME NEW a \in Blocks, NEW j, Earlier(a, q, j) PROVE Earlier(a, q, j)'
    BY <2>2, <2>3 DEF Earlier
  <2>4. ASSUME NEW a \in Blocks, Found(q, n, lo, a) PROVE Found(q, n, lo, a)'
    <3>1. (\E u \in Threads : pc[u] \in CheckPoints) => \E u \in Threads : pc'[u] \in CheckPoints
      BY DEF Calls1, Rest, CheckPoints
    <3> QED BY <2>3, <2>4, <3>1 DEF Found
  <2>5. ASSUME NEW j \in 1 .. n, NEW a \in ahead'[q[j]] PROVE Earlier(a, q, j - 1)'
    <3>1. a \in ahead[q[j]] /\ a \in Blocks
      BY <1>2, <2>1, <2>5 DEF Calls1
    <3> QED BY <2>1, <2>3, <3>1 DEF Order
  <2>6. ASSUME NEW u \in Threads, pc'[u] \in {"looksuspended", "lock"}, NEW a \in ahead'[blk'[u]]
        PROVE  Found(q, n, lo, a)'
    <3>1. pc[u] = pc'[u] /\ blk'[u] = blk[u]
      BY <2>6 DEF Calls1, Rest
    <3>2. blk[u] \in Blocks \ {b}
      BY <2>6, <3>1, NobodyHasNew DEF Local, CallPoints, Items, Calls1
    <3>3. a \in ahead[blk[u]] /\ a \in Blocks
      BY <2>1, <2>6, <3>1, <3>2 DEF Calls1
    <3> QED BY <2>1, <2>4, <2>6, <3>1, <3>3 DEF Order
  <2>7. \A u \in Threads : pc'[u] \notin {"undo", "undospin"}
    BY <2>1 DEF Order, Calls1, Rest
  <2>8. \A c \in Blocks : status'[c] = "running" => \A a \in ahead'[c] : status'[a] = "done"
    BY <2>1, <2>2 DEF Order, Calls1
  <2> QED BY <2>5, <2>6, <2>7, <2>8 DEF Order
<1> QED BY <1>4, <1>5, <1>6, <1>7 DEF Line, Numbered

\* dispatch_async_f, dispatch_sync_f and the barriers.
LEMMA CallSerial ==
    ASSUME SInv, IInv', Serial, NEW t \in Clients, NEW b \in Blocks, NEW c \in Calls, Call(t, b, c)
    PROVE  SInv'
<1>1. t \in Threads
  BY DEF Threads
<1>2. Calls1(t, b)
  <2>1. Effective(c) \in {"barrier", "bsync"}
    BY QueueAssumption DEF Effective, AllCalls, Syncs
  <2>2. /\ pc \in [Threads -> Points] /\ blk \in [Threads -> Items]
        /\ kind \in [Blocks -> AllCalls] /\ status \in [Blocks -> Statuses]
        /\ owner \in [Blocks -> Clients \cup {None}] /\ ahead \in [Blocks -> SUBSET Blocks]
    BY DEF SInv, IInv, Types, MoreTypes
  <2> QED BY <1>1, <2>1, <2>2
     DEF Call, At, Goto, Calls1, Rest, shared, countVars, listVars, rootVars, userVars, drainVars
<1>3. InLine'
  <2>1. PICK q, n, lo : Line(q, n, lo)
    BY DEF SInv, InLine
  <2> QED BY <1>1, <1>2, <2>1, CallLine, InLineThen
<1> QED BY <1>1, <1>2, <1>3, CallRest, CallOwned, CallVisitors DEF SInv

-----------------------------------------------------------------------------
(* The invariant of serial queues.                                          *)
LEMMA InitSInv == Init => SInv
<1> SUFFICES ASSUME Init PROVE SInv
  OBVIOUS
<1>1. IInv
  BY InitIInv
<1>2. \A t \in Threads : pc[t] = "idle" /\ after[t] = "idle" /\ blk[t] = None /\ dc[t] = None
                          /\ nextdc[t] = None /\ sema[t] = None /\ prev[t] = None
  BY DEF Init
<1>3. OnlyBarriers
  BY <1>2 DEF Init, OnlyBarriers, SerialPoints, Points
<1>4. MoreTypes
  BY QueueAssumption DEF Init, MoreTypes, Items
<1>5. Exact
  <2>1. /\ ThreadsAt(Threads, OddOf, {1}) = {} /\ ThreadsAt(Threads, TwoOf, {1}) = {}
        /\ ThreadsAt(Threads, XferOf, {1}) = {} /\ ThreadsAt(Threads, OweOf, {1}) = {}
        /\ ThreadsAt(Threads, pc, InvokePoints) = {}
    BY <1>2 DEF ThreadsAt, OddOf, TwoOf, XferOf, OweOf, Odd, Two, Xfer, Owe, DrainPoints,
           FastPoints, SlowPoints, TakePoints, SharePoints, InvokePoints, WakePoints
  <2>2. /\ Number(OddOf) = 0 /\ Number(TwoOf) = 0 /\ Number(XferOf) = 0 /\ Number(OweOf) = 0
        /\ Inside = 0 /\ Cardinality({}) = 0
    BY <2>1, ThreadsFinite, CountIsNat, FS_EmptySet DEF Number, Inside
  <2>3. Held = 1
    BY DEF Init, Held
  <2> QED BY <2>2, <2>3, QueueAssumption DEF Init, Exact, RunningIs, SuspendIs, RefsAre
<1>6. Covered
  BY DEF Init, Covered
<1>7. InLine
  <2> DEFINE q == [i \in 1 .. 0 |-> None]
  <2>1. 0 \in Nat /\ q \in [1 .. 0 -> Blocks] /\ 1 \in 1 .. 0 + 1
        /\ \A i \in 1 .. 0 : FALSE
    OBVIOUS
  <2>2. Line(q, 0, 1)
    <3>1. Numbered(q, 0, 1)
      BY <2>1 DEF Numbered
    <3>2. Position(q, 0, 1)
      BY <1>2 DEF Init, Position, Has, Listed, NoFirst, HeldPoints, FrontPoints, CheckPoints,
             RanPoints, TailPoints
    <3>3. Links(q, 0, 1)
      BY <1>2 DEF Links
    <3>4. States(q, 0, 1)
      <4>1. \A i \in 1 .. 1 - 1 : FALSE
        OBVIOUS
      <4> QED BY <2>1, <4>1 DEF Init, States
    <3>5. Order(q, 0, 1)
      BY <1>2, <2>1 DEF Init, Order
    <3> QED BY <3>1, <3>2, <3>3, <3>4, <3>5 DEF Line
  <2> QED BY <2>1, <2>2 DEF InLine
<1>8. Owned
  <2>1. ASSUME NEW t \in Threads PROVE Hand(t)
    BY <1>2 DEF Hand, HandPoints, PrePoints, WakePoints, CheckPoints, RanPoints, InvokePoints
  <2> QED BY <2>1 DEF Init, Owned
<1>9. Visitors
  BY <1>2 DEF Visitors, Visits
<1> QED BY <1>1, <1>3, <1>4, <1>5, <1>6, <1>7, <1>8, <1>9 DEF SInv

\* A step that changes nothing,
LEMMA StutterSerial ==
    ASSUME SInv, IInv', UNCHANGED vars
    PROVE  SInv'
<1>1. /\ AllSame /\ suspend' = suspend /\ refs' = refs
      /\ holds' = holds /\ suspended' = suspended /\ suspends' = suspends
  BY DEF vars, shared, history, countVars, listVars, rootVars, blockVars, userVars, locals,
         drainVars, AllSame, SameCalls
<1>2. OnlyBarriers' /\ MoreTypes' /\ Covered'
  BY <1>1 DEF SInv, OnlyBarriers, MoreTypes, Covered, AllSame, SameCalls
<1>3. Exact'
  <2>1. OddOf' = OddOf /\ TwoOf' = TwoOf /\ XferOf' = XferOf /\ OweOf' = OweOf /\ Inside' = Inside
    BY <1>1 DEF OddOf, TwoOf, XferOf, OweOf, Inside, AllSame
  <2>2. /\ Number(OddOf)' = Number(OddOf) /\ Number(TwoOf)' = Number(TwoOf)
        /\ Number(XferOf)' = Number(XferOf) /\ Number(OweOf)' = Number(OweOf)
        /\ Held' = Held
    BY <1>1, <2>1 DEF Number, Held
  <2> QED BY <1>1, <2>1, <2>2 DEF SInv, Exact, RunningIs, SuspendIs, RefsAre, AllSame
<1>4. Owned'
  <2>1. \A u \in Threads : Hand(u)'
    BY <1>1 DEF SInv, Owned, Hand, AllSame, SameCalls
  <2> QED BY <1>1, <2>1 DEF SInv, Owned, AllSame, SameCalls
<1>5. Visitors'
  BY <1>1 DEF SInv, Visitors, Visits, Latest, AllSame, SameCalls
<1>6. InLine'
  <2>1. PICK q, n, lo : Line(q, n, lo)
    BY DEF SInv, InLine
  <2>2. SameLinks
    BY <1>1 DEF AllSame, SameLinks
  <2>3. Position(q, n, lo)'
    <3>1. \A u \in Threads : Has(q, n, lo, u)'
      <4>1. \A k : /\ Listed(q, n, k)' = Listed(q, n, k) /\ Taken(q, n, k)' = Taken(q, n, k)
                   /\ Body(q, n, k)' = Body(q, n, k) /\ Unlinked(q, k)' = Unlinked(q, k)
                   /\ NoFirst' = NoFirst
        BY <2>2, PartsStay
      <4> QED BY <1>1, <2>1, <4>1 DEF Line, Position, Has, AllSame
    <3>2. Listed(q, n, lo)' = Listed(q, n, lo)
      BY <2>2, PartsStay
    <3> QED BY <1>1, <2>1, <3>1, <3>2 DEF Line, Position, AllSame
  <2>4. Links(q, n, lo)'
    BY <1>1, <2>1 DEF Line, Links, AllSame
  <2>5. States(q, n, lo)'
    BY <1>1, <2>1 DEF Line, States, Popped, KeptBy, AllSame
  <2>6. MaxSuspends = 0 => Order(q, n, lo)'
    BY <1>1, <2>1 DEF Line, Order, Found, Earlier, AllSame, SameCalls
  <2> QED BY <2>1, <2>3, <2>4, <2>5, <2>6, InLineThen DEF Line, Numbered
<1> QED BY <1>2, <1>3, <1>4, <1>5, <1>6 DEF SInv

\* a step of a busy thread,
LEMMA StepSerial ==
    ASSUME SInv, IInv', Serial, NEW t \in Threads, Step(t)
    PROVE  SInv'
<1>1. pc[t] \in SerialPoints /\ redirected = {} /\ Local(t) /\ Hand(t)
  BY InHand DEF SInv, OnlyBarriers
<1>2. CASE SubmitStep(t)
  <2>1. ~EnterSync(t) /\ ~EnterAsync(t) /\ ~BackOut(t) /\ ~BackOutAsync(t) /\ ~Redirect(t)
    BY <1>1 DEF EnterSync, EnterAsync, BackOut, BackOutAsync, Redirect, AddRunning, At,
                SerialPoints
  <2>2. ASSUME Lock(t) PROVE SInv'
    BY <2>2, LockSerial, BranchSerial
  <2> QED BY <1>2, <2>1, <2>2, LookTailSerial, BranchSerial DEF SubmitStep
<1>3. CASE PushStep(t)
  BY <1>3, PushTailSerial, PushLinkSerial, PushHeadSerial, ReleaseSerial DEF PushStep
<1>4. CASE WakeStep(t)
  BY <1>4, WakeSerial
<1>5. CASE SyncStep(t)
  <2>1. ~LeaveSync(t)
    BY <1>1 DEF LeaveSync, AddRunning, At, SerialPoints
  <2> QED BY <1>5, <2>1, LeaveSerial, HandoverSerial, UnlockSerial, TakeOneSerial,
             TakeOneTailSerial, TakeOneLinkSerial, SignalSerial, ResumedSerial DEF SyncStep
<1>6. CASE DrainStep(t)
  <2>1. ~CheckRunning(t) /\ ~RedirectAdd(t) /\ ~RedirectPush(t)
    BY <1>1 DEF CheckRunning, RedirectAdd, RedirectPush, Branch, AddRunning, At, SerialPoints
  <2> QED BY <1>6, <2>1, BranchSerial, DrainHeadSerial, DrainNextSerial, DrainClearTailSerial,
             DrainSpinSerial, CheckSerial, PopRunSerial, PopSuspendSerial, PopRunningSerial,
             DrainRanSerial, UndoSerial, UndoSpinSerial, RestoreSerial, InvokeDoneSerial,
             SignalSerial, UnlockSerial DEF DrainStep
<1>7. CASE PoolStep(t)
  <2>1. ~RedirectedRan(t) /\ \A b \in Blocks : ~PopRedirected(t, b)
    BY <1>1 DEF RedirectedRan, PopRedirected, AddRunning, At, SerialPoints
  <2> QED BY <1>7, <2>1, UnlockSerial DEF PoolStep
<1> QED BY <1>2, <1>3, <1>4, <1>5, <1>6, <1>7 DEF Step

\* and every other step.
LEMMA NextSInv ==
    ASSUME Serial
    PROVE  SInv /\ [Next]_vars => SInv'
<1> SUFFICES ASSUME SInv, [Next]_vars PROVE SInv'
  OBVIOUS
<1>1. IInv'
  BY NextIInv DEF SInv
<1>2. ASSUME NEW t \in Clients, NEW b \in Blocks, NEW c \in Calls, Call(t, b, c) PROVE SInv'
  BY <1>1, <1>2, CallSerial
<1>3. ASSUME NEW t \in Clients, Suspend(t) \/ Resume(t) \/ ReleaseIdle(t) PROVE SInv'
  BY <1>1, <1>3, SuspendSerial, ResumeSerial, ReleaseIdleSerial DEF Threads
<1>4. ASSUME NEW t \in Workers, ReleaseInBlock(t) PROVE SInv'
  BY <1>1, <1>4, ReleaseInBlockSerial DEF Threads
<1>5. ASSUME NEW t \in Threads, Step(t) PROVE SInv'
  BY <1>1, <1>5, StepSerial
<1>6. CASE UNCHANGED vars
  BY <1>1, <1>6, StutterSerial
<1> QED BY <1>2, <1>3, <1>4, <1>5, <1>6 DEF Next
\* The invariant of serial queues holds in every behaviour.
LEMMA SpecSInv ==
    ASSUME Serial
    PROVE  Spec => []SInv
BY InitSInv, NextSInv, PTL DEF Spec

-----------------------------------------------------------------------------
\* _dispatch_wakeup and the end of _dispatch_queue_invoke look at the queue after
\* the list or the counters changed: no item of a serial queue, and no thread
\* that waits for one, is left behind with nobody at work.
THEOREM NothingStrandedHolds ==
    ASSUME Serial
    PROVE  Spec => []NothingStranded
<1>1. SInv => NothingStranded
  <2> SUFFICES ASSUME SInv, \A t \in Threads : pc[t] \in {"idle", "wait"},
                      queued = 0, signalled = {}, suspended = 0
               PROVE  tail = None /\ \A t \in Threads : pc[t] = "idle"
    BY DEF NothingStranded, SInv, MoreTypes
  <2>1. \A t \in Threads : pc[t] \notin SeePoints \cup HeldPoints \cup {"runslow"} /\ sema[t] = None
    BY InHand DEF SeePoints, InvokePoints, DrainPoints, FastPoints, SlowPoints, TakePoints,
          WakePoints,
           HeldPoints, FrontPoints, CheckPoints, RanPoints, TailPoints, Local, SemaPoints
  <2>2. tail = None
    BY <2>1 DEF SInv, Covered
  <2>3. ASSUME NEW t \in Threads, pc[t] = "wait" PROVE FALSE
    <3>1. blk[t] \in Blocks /\ status[blk[t]] = "queued"
      BY <2>3, InHand DEF Hand, HandPoints, Items
    <3>2. PICK q, n, lo : Line(q, n, lo)
      BY DEF SInv, InLine
    <3>3. PICK i \in 1 .. n : q[i] = blk[t]
      BY <3>1, <3>2 DEF Line, States
    <3>4. i \in 1 .. lo - 1
      BY <2>1, <2>2, <3>2, <3>3, EmptyList DEF Line, Numbered, HeldPoints
    <3>5. Popped(blk[t])
      BY <3>2, <3>3, <3>4 DEF Line, States
    <3> QED BY <2>1, <3>1, <3>5, ThreadsFinite DEF Popped, KeptBy, HeldPoints
  <2> QED BY <2>2, <2>3
<1> QED BY SpecSInv, <1>1, PTL

\* The references that the code takes and gives back are enough on a serial
\* queue: once the last one went, nobody is in the queue, not even a client
\* whose block gave up its reference.
THEOREM NoUseAfterDisposeHolds ==
    ASSUME Serial
    PROVE  Spec => []NoUseAfterDispose
<1>1. SInv => NoUseAfterDispose
  <2> SUFFICES ASSUME SInv, refs = -1 PROVE NoUseAfterDispose
    BY DEF NoUseAfterDispose
  <2>1. Held = 0 /\ suspended = 0 /\ queued = 0 /\ Number(OweOf) = 0
    <3> DEFINE h == Held  e == Number(OweOf)
    <3>1. h \in Nat /\ suspended \in Nat /\ queued \in Nat /\ e \in Nat
      BY MoreCounted DEF SInv, MoreTypes, IInv, Types, Held
    <3>2. refs + 1 = h + suspended + queued + e
      BY DEF SInv, Exact, RefsAre
    <3> HIDE DEF h, e
    <3>3. h = 0 /\ suspended = 0 /\ queued = 0 /\ e = 0
      BY <3>1, <3>2
    <3> QED BY <3>3 DEF h, e
  <2>2. holds = {}
    BY <2>1 DEF Held
  <2>3. \A t \in Threads : ~Visits(t)
    BY <2>2 DEF SInv, Visitors
  <2>4. ASSUME NEW t \in Threads PROVE pc[t] = "idle"
    <3>1. Owe(pc[t], after[t]) = 0
      BY <2>1, MoreCounted, Weights
    <3> QED BY <2>3, <3>1 DEF Visits
  <2>5. signalled = {}
    <3>1. ASSUME NEW b \in signalled PROVE FALSE
      <4>1. b \in Blocks /\ kind[b] = "bsync" /\ status[b] = "queued"
        BY DEF SInv, IInv, Types, OnlyBarriers, Owned
      <4>2. PICK t \in Threads : blk[t] = b
        BY <4>1 DEF SInv, Owned
      <4> QED BY <2>3, <4>1, <4>2, ThreadsFinite DEF Visits
    <3> QED BY <3>1
  <2>6. tail = None
    BY <2>1, <2>4, <2>5 DEF SInv, Covered, SeePoints, InvokePoints, DrainPoints, FastPoints,
           SlowPoints, TakePoints, WakePoints
  <2> QED BY <2>1, <2>4, <2>6 DEF NoUseAfterDispose, SInv, OnlyBarriers
<1> QED BY SpecSInv, <1>1, PTL

\* On a serial queue that is never suspended, a block runs after those its client
\* submitted before it, also when a synchronous call overtakes the list on the
\* fast path: it found the list empty, and what a drain had taken runs first.
THEOREM OrderedHolds ==
    ASSUME Serial, MaxSuspends = 0
    PROVE  Spec => []Ordered
<1>1. SInv => Ordered
  BY DEF SInv, InLine, Line, Order, Ordered, Running
<1> QED BY SpecSInv, <1>1, PTL
\* _dispatch_queue_push writes a link into the item that was the last one, and the
\* drain reads links and kinds: on a serial queue, only of items whose block
\* has not started, so that their memory is still there.
THEOREM ItemsAliveHolds ==
    ASSUME Serial
    PROVE  Spec => []ItemsAlive
<1>1. SInv => ItemsAlive
  <2> SUFFICES ASSUME SInv, NEW t \in Threads
               PROVE  /\ pc[t] = "link" => status[prev[t]] = "queued" /\ prev[t] \notin signalled
                      /\ pc[t] \in {"next", "spinnext", "checkwidth", "undospin"}
                             => status[dc[t]] = "queued" /\ dc[t] \notin signalled
    BY DEF ItemsAlive
  <2>1. PICK q, n, lo : Line(q, n, lo)
    BY DEF SInv, InLine
  <2>2. \A i \in lo .. n : status[q[i]] = "queued" /\ q[i] \notin signalled
    BY <2>1 DEF Line, States
  <2>3. ASSUME NEW u \in Threads, pc[u] \in TailPoints
        PROVE  status[q[lo - 1]] = "queued" /\ q[lo - 1] \notin signalled
    <3>1. sema[u] # None /\ sema[u] = q[lo - 1]
      BY <2>1, <2>3 DEF Line, Position, Has
    <3> QED BY <3>1, InHand DEF Hand
  <2>4. ASSUME pc[t] = "link"
        PROVE  status[prev[t]] = "queued" /\ prev[t] \notin signalled
    <3>1. PICK i \in 1 .. n - 1 : /\ prev[t] = q[i]
                                  /\ \/ i >= lo
                                     \/ i = lo - 1 /\ \E u \in Threads : pc[u] \in TailPoints
      BY <2>1, <2>4 DEF Line, Links
    <3>2. CASE i >= lo
      BY <2>1, <2>2, <3>1, <3>2 DEF Line, Numbered
    <3>3. CASE i = lo - 1 /\ \E u \in Threads : pc[u] \in TailPoints
      BY <2>3, <3>1, <3>3
    <3> QED BY <3>1, <3>2, <3>3
  <2>5. ASSUME pc[t] \in FrontPoints \cup CheckPoints
        PROVE  status[dc[t]] = "queued" /\ dc[t] \notin signalled
    <3>1. lo <= n /\ dc[t] = q[lo]
      BY <2>1, <2>5 DEF Line, Position, Has
    <3> QED BY <2>1, <2>2, <3>1 DEF Line, Numbered
  <2> QED BY <2>4, <2>5 DEF FrontPoints, CheckPoints
<1> QED BY SpecSInv, <1>1, PTL

\* What may become of a block: it is submitted once, starts once, at once or
\* after it has been queued once, and ends.
Course == {<<"new", "called">>, <<"called", "queued">>, <<"called", "running">>,
           <<"queued", "running">>, <<"running", "done">>}
KeepsCourse == \A b \in Blocks : status'[b] = status[b] \/ <<status[b], status'[b]>> \in Course

\* The list, the fast path of dispatch_barrier_sync_f and the transfer of the lock never
\* run a block twice, nor one that is on the list besides, and a block that ended is
\* not queued again.
THEOREM BlocksRunOnce ==
    ASSUME Serial
    PROVE  Spec => [][KeepsCourse]_vars
<1>1. ASSUME SInv, [Next]_vars PROVE [KeepsCourse]_vars
  <2> USE <1>1
  <2>0. status \in [Blocks -> Statuses]
    BY DEF SInv, IInv, Types
  <2>1. ASSUME NEW b \in Blocks, NEW s \in Statuses, <<status[b], s>> \in Course,
               status' = [status EXCEPT ![b] = s]
        PROVE  KeepsCourse
    BY <2>0, <2>1 DEF KeepsCourse
  <2>2. ASSUME status' = status PROVE KeepsCourse
    BY <2>2 DEF KeepsCourse
  <2>3. ASSUME NEW t \in Threads, NEW b \in Blocks, NEW c \in Calls, Call(t, b, c) PROVE KeepsCourse
    BY <2>1, <2>3 DEF Call, Course, Statuses
  <2>4. ASSUME NEW t \in Threads, Suspend(t) \/ Resume(t) \/ ReleaseIdle(t) \/ ReleaseInBlock(t)
        PROVE  KeepsCourse
    BY <2>2, <2>4 DEF Suspend, Resume, ReleaseIdle, ReleaseInBlock, GiveUp
  <2>5. ASSUME NEW t \in Threads, Step(t) PROVE KeepsCourse
    <3>1. blk[t] # None => blk[t] \in Blocks
      BY <2>5, InHand DEF Items
    <3>2. CASE SubmitStep(t)
      <4>1. CASE Lock(t) /\ running = 0 /\ pc[t] = "lock" /\ Start(blk[t])
        <5>1. blk[t] \in Blocks /\ status[blk[t]] = "called"
          BY <3>1, <4>1, InHand DEF Hand, HandPoints, PrePoints
        <5> QED BY <2>1, <4>1, <5>1 DEF Start, Course, Statuses
      <4>2. CASE status' = status
        BY <2>2, <4>2
      <4> QED BY <3>2, <4>1, <4>2, InHand
              DEF SubmitStep, LookTail, LookSuspended, Lock, EnterSync, EnterAsync, BackOut,
                  BackOutAsync, Redirect, Branch, AddRunning, At, history, SerialPoints
    <3>3. CASE PushStep(t)
      <4>1. CASE PushTail(t)
        <5>1. blk[t] \in Blocks /\ status[blk[t]] = "called"
          BY <3>1, <4>1, InHand DEF PushTail, At, Hand, HandPoints, PrePoints
        <5> QED BY <2>1, <4>1, <5>1 DEF PushTail, Course, Statuses
      <4> QED BY <2>2, <3>3, <4>1 DEF PushStep, PushLink, PushHead, Release, history
    <3>4. CASE WakeStep(t)
      BY <2>2, <3>4 DEF WakeStep, WakeSuspended, WakeProbe, WakeLock, history
    <3>5. CASE SyncStep(t)
      <4>1. CASE LeaveLocked(t) \/ LeaveSlow(t)
        <5>1. blk[t] \in Blocks /\ status[blk[t]] = "running"
          BY <3>1, <4>1, InHand DEF LeaveLocked, LeaveSlow, At, Hand, HandPoints
        <5>2. status' = [status EXCEPT ![blk[t]] = "done"]
          BY <4>1 DEF LeaveLocked, LeaveSlow, Finish
        <5> QED BY <2>1, <5>1, <5>2 DEF Course, Statuses
      <4>2. CASE Resumed(t)
        <5>1. blk[t] \in Blocks /\ status[blk[t]] = "queued"
          BY <3>1, <4>2, InHand DEF Resumed, At, Hand, HandPoints
        <5>2. status' = [status EXCEPT ![blk[t]] = "running"]
          BY <4>2 DEF Resumed, Start
        <5> QED BY <2>1, <5>1, <5>2 DEF Course, Statuses
      <4>3. ~LeaveSync(t)
        BY InHand DEF LeaveSync, AddRunning, At, SerialPoints
      <4> QED BY <2>2, <3>5, <4>1, <4>2, <4>3
              DEF SyncStep, Handover, UnlockRunning, SlowRunning, SlowSuspend, SlowUnlock,
                  TakeOne, TakeNone, TakeOneTail, TakeOneLink, TransferSuspend,
                  TransferRunning, TransferSignal, Branch, AddSuspend, history
    <3>6. CASE DrainStep(t)
      <4>1. CASE PopRun(t)
        <5>1. PICK q, n, lo : Line(q, n, lo)
          BY DEF SInv, InLine
        <5>2. lo <= n /\ dc[t] = q[lo]
          BY <4>1, <5>1 DEF PopRun, At, Line, Position, Has, CheckPoints
        <5>3. dc[t] \in Blocks /\ status[dc[t]] = "queued"
          BY <5>1, <5>2 DEF Line, Numbered, States
        <5>4. status' = [status EXCEPT ![dc[t]] = "running"]
          BY <4>1 DEF PopRun, Start
        <5> QED BY <2>1, <5>3, <5>4 DEF Course, Statuses
      <4>2. CASE DrainRan(t)
        <5>1. pc[t] = "rundrain" /\ status' = [status EXCEPT ![dc[t]] = "done"]
          BY <4>2 DEF DrainRan, At, Finish
        <5>2. dc[t] \in Blocks /\ status[dc[t]] = "running"
          BY <5>1, InHand DEF Hand, Local, ItemPoints, Items
        <5> QED BY <2>1, <5>1, <5>2 DEF Course, Statuses
      <4>3. CASE status' = status
        BY <2>2, <4>3
      <4> QED BY <3>6, <4>1, <4>2, <4>3
              DEF DrainStep, InvokeSuspended, InvokeLock, Drain, DrainHead, DrainNext,
                  DrainClearTail, DrainSpin, CheckSuspended, CheckWidth, CheckRunning,
                  RedirectAdd, RedirectPush, PopSuspend, PopRunning, Undo, UndoSpin, Restore,
                  InvokeDone, InvokeSignal, Unlock, VerifyIdle, Branch, AddSuspend, history
    <3>7. CASE PoolStep(t)
      <4>1. ~RedirectedRan(t) /\ \A b \in Blocks : ~PopRedirected(t, b)
        BY InHand DEF RedirectedRan, PopRedirected, AddRunning, At, SerialPoints
      <4> QED BY <2>2, <3>7, <4>1 DEF PoolStep, PopQueue, history
    <3> QED BY <2>5, <3>2, <3>3, <3>4, <3>5, <3>6, <3>7 DEF Step
  <2>6. CASE UNCHANGED vars
    BY <2>6
  <2> QED BY <2>3, <2>4, <2>5, <2>6 DEF Next, Threads
<1> QED BY SpecSInv, <1>1, PTL DEF Spec

-----------------------------------------------------------------------------
(* The promise of a serial queue.                                          *)

\* Who calls, and what the call is for, does not change.
SameClients == \A c \in Clients : blk'[c] = blk[c]

LEMMA PromiseUnmoved ==
    ASSUME UNCHANGED <<blockVars, status>>, SameClients
    PROVE  UNCHANGED SerialPromise!queueVars
BY DEF SerialPromise!queueVars, blockVars, SameClients

LEMMA PromiseStarts ==
    ASSUME Serial, SInv, BarrierExclusive', Ordered', NEW b \in Blocks,
           status[b] \in {"called", "queued"}, status' = [status EXCEPT ![b] = "running"],
           UNCHANGED blockVars, SameClients
    PROVE  SerialPromise!Start(b)
<1>1. /\ status \in [Blocks -> Statuses] /\ UNCHANGED <<kind, owner, ahead>>
      /\ ahead \in [Blocks -> SUBSET Blocks]
      /\ \A a \in Blocks : status[a] # "new" => kind[a] \in Barriers
  BY DEF SInv, IInv, Types, Kinds, MoreTypes, blockVars
<1>2. b \in Running' /\ kind'[b] \in Barriers
  BY <1>1 DEF Running
<1>3. \A a \in Blocks : status[a] # "running"
  <2> SUFFICES ASSUME NEW a \in Blocks, status[a] = "running" PROVE FALSE
    OBVIOUS
  <2>1. a # b /\ a \in Running'
    BY <1>1 DEF Running
  <2> QED BY <1>2, <2>1 DEF BarrierExclusive
<1>4. \A a \in ahead[b] : status[a] = "done"
  <2> SUFFICES ASSUME NEW a \in ahead[b] PROVE status[a] = "done"
    OBVIOUS
  <2>1. a \in Blocks /\ status'[a] = "done"
    BY <1>1, <1>2 DEF Ordered
  <2> QED BY <1>1, <2>1
<1>5. \A a \in ahead[b] : a \in Blocks
  BY <1>1
<1> QED BY <1>1, <1>3, <1>4, <1>5 DEF SerialPromise!Start, SameClients

LEMMA PromiseFinishes ==
    ASSUME SInv, NEW b \in Blocks,
           status[b] = "running", status' = [status EXCEPT ![b] = "done"], UNCHANGED blockVars,
           \A c \in Clients : blk'[c] = IF kind[b] = "bsync" /\ c = owner[b] THEN None ELSE blk[c]
    PROVE  SerialPromise!Finish(b)
<1>1. status \in [Blocks -> Statuses] /\ UNCHANGED <<kind, owner, ahead>>
  BY DEF SInv, IInv, Types, blockVars
<1> QED BY <1>1 DEF SerialPromise!Finish

LEMMA PromiseReturns ==
    ASSUME SInv, NEW t \in Threads, LeavePush(t), UNCHANGED <<blockVars, status>>
    PROVE  \/ UNCHANGED SerialPromise!queueVars
           \/ t \in Clients /\ SerialPromise!Return(t)
<1>1. blk \in [Threads -> Items] /\ (t \in Workers => blk[t] = None) /\ UNCHANGED <<kind, owner, ahead>>
      /\ Clients \subseteq Threads /\ t \in Clients \cup Workers
  BY InHand DEF Hand, SInv, IInv, Types, blockVars, Threads
<1>2. CASE blk' = blk
  BY <1>2, PromiseUnmoved DEF SameClients
<1>3. CASE blk' # blk
  <2>1. blk' = [blk EXCEPT ![t] = None] /\ blk[t] # None /\ kind[blk[t]] \notin Syncs
    BY <1>1, <1>3 DEF LeavePush, Forget
  <2>2. t \in Clients /\ blk[t] \in Blocks /\ kind[blk[t]] # "bsync"
    BY <1>1, <2>1 DEF Items, Syncs
  <2> QED BY <1>1, <2>1, <2>2 DEF SerialPromise!Return
<1> QED BY <1>2, <1>3

LEMMA PromiseSubmits ==
    ASSUME Serial, SInv, NEW t \in Clients, NEW b \in Blocks, NEW c \in Calls, Call(t, b, c)
    PROVE  SerialPromise!Submit(t, b, Effective(c) = "bsync")
<1>1. t \in Threads /\ Clients \subseteq Threads
  BY DEF Threads
<1>2. pc[t] = "idle" /\ blk[t] = None
  BY <1>1, InHand DEF Call, At, Hand, HandPoints, PrePoints, WakePoints
<1>3. /\ status \in [Blocks -> Statuses] /\ blk \in [Threads -> Items]
      /\ kind \in [Blocks -> AllCalls]
  BY DEF SInv, IInv, Types
<1>4. /\ status[b] = "new" /\ status' = [status EXCEPT ![b] = "called"]
      /\ kind' = [kind EXCEPT ![b] = Effective(c)] /\ owner' = [owner EXCEPT ![b] = t]
      /\ ahead' = [ahead EXCEPT ![b] = {a \in Blocks : owner[a] = t /\ status[a] # "done"}]
      /\ blk' = [blk EXCEPT ![t] = b]
  BY DEF Call
<1>5. \A a \in Blocks : (IF status[a] \in {"called", "queued"} THEN "waiting" ELSE status[a]) # "done"
                            <=> status[a] # "done"
  OBVIOUS
<1> QED BY <1>1, <1>2, <1>3, <1>4, <1>5 DEF SerialPromise!Submit

\* Every step of the queue is a step of the promise, or none of its business.
LEMMA PromiseStep ==
    ASSUME Serial, SInv, BarrierExclusive', Ordered', [Next]_vars
    PROVE  [SerialPromise!Next]_SerialPromise!queueVars
<1> DEFINE Quiet == UNCHANGED <<blockVars, status>> /\ blk' = blk
<1>0. status \in [Blocks -> Statuses] /\ Clients \subseteq Threads /\ Threads = Clients \cup Workers
      /\ blk \in [Threads -> Items]
  BY DEF SInv, IInv, Types, Threads
<1>1. ASSUME Quiet PROVE UNCHANGED SerialPromise!queueVars
  BY <1>1, PromiseUnmoved DEF SameClients
<1>2. ASSUME NEW t \in Clients, NEW b \in Blocks, NEW c \in Calls, Call(t, b, c)
      PROVE  SerialPromise!Next
  <2>1. (Effective(c) = "bsync") \in BOOLEAN
    OBVIOUS
  <2> QED BY <1>2, <2>1, PromiseSubmits DEF SerialPromise!Next
<1>3. ASSUME NEW t \in Threads, Suspend(t) \/ Resume(t) \/ ReleaseIdle(t) \/ ReleaseInBlock(t)
      PROVE  Quiet
  BY <1>3 DEF Suspend, Resume, ReleaseIdle, ReleaseInBlock, GiveUp, locals
<1>4. ASSUME NEW t \in Threads, Step(t)
      PROVE  SerialPromise!Next \/ UNCHANGED SerialPromise!queueVars
  <2> USE <1>4
  <2>0. blk[t] # None => blk[t] \in Blocks /\ t \in Clients /\ owner[blk[t]] = t
    BY <1>0, InHand DEF Hand, Items
  <2>1. CASE SubmitStep(t)
    <3>1. CASE Lock(t) /\ running = 0 /\ pc[t] = "lock" /\ Start(blk[t])
      <4>1. blk[t] \in Blocks /\ status[blk[t]] = "called"
        BY <2>0, <3>1, InHand DEF Hand, HandPoints, PrePoints
      <4>2. status' = [status EXCEPT ![blk[t]] = "running"] /\ UNCHANGED <<blockVars, blk>>
        BY <3>1, <4>1, <1>0 DEF Start, Lock, AddRunning, Branch, history, locals, At
      <4> QED BY <4>1, <4>2, PromiseStarts DEF SerialPromise!Next, SameClients
    <3>2. CASE Quiet
      BY <1>1, <3>2
    <3> QED BY <2>1, <3>1, <3>2, InHand
            DEF SubmitStep, LookTail, LookSuspended, Lock, EnterSync, EnterAsync, BackOut,
                BackOutAsync, Redirect, Branch, AddRunning, At, history, locals, SerialPoints
  <2>2. CASE PushStep(t)
    <3>1. CASE PushTail(t)
      <4>1. blk[t] \in Blocks /\ status[blk[t]] = "called"
        BY <2>0, <3>1, InHand DEF PushTail, At, Hand, HandPoints, PrePoints
      <4>2. status' = [status EXCEPT ![blk[t]] = "queued"] /\ UNCHANGED <<blockVars, blk>>
        BY <3>1 DEF PushTail
      <4> QED BY <1>0, <4>1, <4>2 DEF SerialPromise!queueVars, blockVars
    <3>2. CASE PushHead(t)
      BY <1>1, <3>2 DEF PushHead, history
    <3>3. CASE PushLink(t) \/ Release(t)
      BY <3>3, PromiseReturns DEF PushLink, Release, history, SerialPromise!Next
    <3> QED BY <2>2, <3>1, <3>2, <3>3 DEF PushStep
  <2>3. CASE WakeStep(t)
    BY <1>1, <2>3 DEF WakeStep, WakeSuspended, WakeProbe, WakeLock, history
  <2>4. CASE SyncStep(t)
    <3>1. CASE LeaveLocked(t) \/ LeaveSlow(t)
      <4>1. blk[t] \in Blocks /\ status[blk[t]] = "running" /\ kind[blk[t]] = "bsync"
        BY <2>0, <3>1, InHand DEF LeaveLocked, LeaveSlow, At, Hand, HandPoints, Local
      <4>2. /\ status' = [status EXCEPT ![blk[t]] = "done"] /\ UNCHANGED blockVars
            /\ blk' = [blk EXCEPT ![t] = None]
        BY <3>1 DEF LeaveLocked, LeaveSlow, Finish, Forget
      <4>3. \A c \in Clients : blk'[c] = IF c = t THEN None ELSE blk[c]
        BY <1>0, <4>2
      <4>4. owner[blk[t]] = t
        BY <2>0, <4>1, ThreadsFinite
      <4> QED BY <4>1, <4>2, <4>3, <4>4, PromiseFinishes DEF SerialPromise!Next
    <3>2. CASE Resumed(t)
      <4>1. blk[t] \in Blocks /\ status[blk[t]] = "queued"
        BY <2>0, <3>2, InHand DEF Resumed, At, Hand, HandPoints
      <4>2. status' = [status EXCEPT ![blk[t]] = "running"] /\ UNCHANGED <<blockVars, blk>>
        BY <3>2 DEF Resumed, Start, locals
      <4> QED BY <4>1, <4>2, PromiseStarts DEF SerialPromise!Next, SameClients
    <3>3. ~LeaveSync(t)
      BY InHand DEF LeaveSync, AddRunning, At, SerialPoints
    <3>4. CASE Quiet
      BY <1>1, <3>4
    <3> QED BY <2>4, <3>1, <3>2, <3>3, <3>4
            DEF SyncStep, Handover, UnlockRunning, SlowRunning, SlowSuspend, SlowUnlock,
                TakeOne, TakeNone, TakeOneTail, TakeOneLink, TransferSuspend, AddRunning,
                TransferRunning, TransferSignal, Branch, AddSuspend, history, locals
  <2>5. CASE DrainStep(t)
    <3>1. CASE PopRun(t)
      <4>1. PICK q, n, lo : Line(q, n, lo)
        BY DEF SInv, InLine
      <4>2. lo <= n /\ dc[t] = q[lo]
        BY <3>1, <4>1 DEF PopRun, At, Line, Position, Has, CheckPoints
      <4>3. dc[t] \in Blocks /\ status[dc[t]] = "queued"
        BY <4>1, <4>2 DEF Line, Numbered, States
      <4>4. status' = [status EXCEPT ![dc[t]] = "running"] /\ UNCHANGED <<blockVars, blk>>
        BY <3>1 DEF PopRun, Start, locals
      <4> QED BY <4>3, <4>4, PromiseStarts DEF SerialPromise!Next, SameClients
    <3>2. CASE DrainRan(t)
      <4>1. /\ pc[t] = "rundrain" /\ status' = [status EXCEPT ![dc[t]] = "done"]
            /\ UNCHANGED <<blockVars, blk>>
        BY <3>2 DEF DrainRan, At, Finish
      <4>2. dc[t] \in Blocks /\ status[dc[t]] = "running" /\ kind[dc[t]] = "barrier"
        BY <4>1, InHand DEF Hand, Local, ItemPoints, Items
      <4> QED BY <4>1, <4>2, PromiseFinishes DEF SerialPromise!Next
    <3>3. CASE Quiet
      BY <1>1, <3>3
    <3> QED BY <2>5, <3>1, <3>2, <3>3, InHand
            DEF DrainStep, InvokeSuspended, InvokeLock, Drain, DrainHead, DrainNext,
                DrainClearTail, DrainSpin, CheckSuspended, CheckWidth, CheckRunning,
                RedirectAdd, RedirectPush, PopSuspend, PopRunning, Undo, UndoSpin, Restore,
                InvokeDone, InvokeSignal, Unlock, VerifyIdle, Branch, AddSuspend, AddRunning,
                history, locals
  <2>6. CASE PoolStep(t)
    <3>1. ~RedirectedRan(t) /\ \A b \in Blocks : ~PopRedirected(t, b)
      BY InHand DEF RedirectedRan, PopRedirected, AddRunning, At, SerialPoints
    <3>2. Quiet
      BY <2>6, <3>1 DEF PoolStep, PopQueue, history, locals
    <3> QED BY <1>1, <3>2
  <2> QED BY <2>1, <2>2, <2>3, <2>4, <2>5, <2>6 DEF Step
<1>5. CASE UNCHANGED vars
  BY <1>1, <1>5 DEF vars, history, locals
<1> QED BY <1>1, <1>2, <1>3, <1>4, <1>5 DEF Next, Threads

\* The queue, the list and the threads of a serial queue have their types. Of the
\* counters this says that nothing is taken off them that was not put on:
\* dq_running and do_suspend_cnt are never negative, and no reference is released
\* that nobody had (the count is one less than the references, as in object.c).
THEOREM SerialTypeCorrect ==
    ASSUME Serial
    PROVE  Spec => []TypeOK
<1>1. ASSUME SInv PROVE TypeOK
  <2>1. \A f : Number(f) \in Nat
    BY ThreadsFinite, CountIsNat DEF Number
  <2>2. Number(OddOf) \in Nat /\ Number(TwoOf) \in Nat /\ Number(XferOf) \in Nat
        /\ Number(OweOf) \in Nat /\ Inside \in Nat /\ Held \in Nat
    BY <2>1, ThreadsFinite, CountIsNat DEF Inside, Held
  <2>3. Cardinality(signalled) \in Nat /\ queued \in Nat /\ suspended \in Nat /\ refs \in Int
    BY <1>1, ThreadsFinite, FS_Subset, FS_CardinalityType DEF SInv, IInv, Types, MoreTypes
  <2>4. running \in Nat
    BY <1>1, <2>2, <2>3 DEF SInv, Exact, RunningIs
  <2>5. suspend \in Nat
    BY <1>1, <2>2, <2>3 DEF SInv, Exact, SuspendIs
  <2>6. refs \in Nat \cup {-1}
    BY <1>1, <2>2, <2>3 DEF SInv, Exact, RefsAre
  <2>7. suspended \in 0 .. MaxSuspends /\ suspends \in 0 .. MaxSuspends
    BY <1>1, QueueAssumption DEF SInv, MoreTypes, QueueAssumption
  <2> QED BY <1>1, <2>4, <2>5, <2>6, <2>7 DEF SInv, IInv, Types, MoreTypes, Items, Returns, TypeOK
<1> QED BY SpecSInv, <1>1, PTL

\* dispatch_async_f, dispatch_sync_f, the list, the drain and the hand-over of the lock
\* together keep the promise of a serial queue: blocks run one at a time and each once,
\* those of a client in its order, and a synchronous call returns when its
\* block has ended.  A suspension may break the order.
THEOREM ImplementsSerialQueue ==
    ASSUME Serial, MaxSuspends = 0
    PROVE  Spec => SerialSpec
<1>1. Init => SerialPromise!Init
  BY DEF Init, SerialPromise!Init, Threads
<1>2. SInv /\ BarrierExclusive' /\ Ordered' /\ [Next]_vars
          => [SerialPromise!Next]_SerialPromise!queueVars
  BY PromiseStep
<1>3. Spec => []BarrierExclusive
  BY BarrierExclusiveHolds
<1> QED BY <1>1, <1>2, <1>3, SpecSInv, OrderedHolds, PTL DEF Spec, SerialSpec, SerialPromise!Spec
=============================================================================
