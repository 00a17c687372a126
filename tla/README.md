# TLA+ models of the GCD sources in YNAppleSource

The repository collects Apple and GNUstep sources for reading. The one body of
code that is built and annotated there is a copy of libdispatch,
`src/YNGCDTest/YNGCDTest/src/` (paths below are relative to it unless they
start with `src/`). Its core is a handful of lock-free protocols on a few
words of memory. This directory models those protocols, checks them with TLC
and proves part of what is checked with TLAPS.

## 1. Inventory

| part | state | operations | hard because | correct when |
|---|---|---|---|---|
| dispatch semaphore, `semaphore.c` 46-346 | `dsema_value`, `dsema_sent_ksignals`, kernel semaphore made on first use | wait (now, timed, for ever), signal | fast path in user space, slow path in the kernel; time-outs race signals; Mach may wake spuriously | it is a counting semaphore; no signal is lost or used twice; a time-out returns |
| dispatch group, `semaphore.c` 351-602 | `dsema_value`, `dsema_group_waiters`, notify list (head, tail, links) | enter, leave, wait, notify, wake | the list is taken in two exchanges while it is appended to; waiters count themselves after a check | every waiter and every notify block is served once when the group empties |
| dispatch once, `once.c` | one word: NULL, list of stack records, DONE | `dispatch_once_f` | records live on the stacks of sleeping threads | one run; nobody returns before its end; every call returns |
| dispatch queue, `queue.c`, `queue_internal.h`, `object.c` | item list, `dq_running`, `do_suspend_cnt`, references | async, barrier_async, sync, barrier_sync, suspend, resume, release; push, wakeup, invoke, drain | four words updated separately; an incomplete drain is undone; the running lock is handed to sleeping threads | barriers exclusive, program order kept, width respected, one drain at a time, nothing stranded, no use after disposal |
| root queues and worker pool, `queue.c` 2019-2117, 2350-2523 | root list with a mediator in `dq_items_head`, `dgq_pending`, pool size | wakeup_global, drain_one, worker loop with a 65 s idle wait | workers fight for the head; wakeup against idle time-out | each item run once, none stranded, pool bound respected |
| main queue, `queue.c` 2280-2310 | marker item | drain by the run loop | push during a drain | one round runs what was there |
| target queue and width, `queue.c` 690-800 | `do_targetq`, `dq_width` | set_target_queue, set_width as barrier items | the drainer is on the old target | items continue on the new one |
| group_async, continuations, `queue.c` 1103-1160, 1380-1410 | group reference in an item | group_async, pop | enter at submission, leave after the block | group empties after the last block |
| dispatch_apply, `apply.c` | `da_index`, `da_done`, `da_thr_cnt`, width reservation | apply | shared counters, record freed by the last one | each iteration once; caller outlives them |
| object references, `object.c` | internal and external counts | retain, release, weak retain | disposal racing retain | disposed once |
| thread and futex semaphores, `semaphore.c` 618-846 | per-thread cache; futex word of value and waiters | get, put, signal, wait | post between trial and sleep | no lost wakeup |
| sources, timers, manager, `source.c` | pending data, armed and registered flags, timer heaps | merge, latch, invoke, cancel, resume | state spread over manager and target queues | data delivered once; cancel handler last |
| I/O, `io.c` | channels, fd entries, operation queues | read, write, barrier, close | serialised over private queues, real system calls | handlers in order; close waits |
| data, transforms, time, init, benchmark | immutable buffers, tables | pure or start-up code | - | functional correctness |
| CFRunLoop, `src/RunLoopCF-1153.18/CFRunLoop.c` (again under `src/RunLoopProject`) | modes, posted blocks, sources, timers, wake-up port, flags of each run | run (nested), perform block, signal, stop, wake up, invalidate | callouts run the loop again; wakeups are suppressed for part of each iteration | work posted is seen before the loop sleeps; blocks keep their order; a stop ends the run |
| Objective-C runtime, `src/objc-runtime-old-source/runtime` | side tables, sync lists, class flags | `@synchronized`, weak load, `+initialize` | striped locks, re-entrancy | mutual exclusion, no dangling weak |
| GNUstep base, rest of CoreFoundation, demo apps | | | third-party or application shells | |

The parts meet like this. A queue pushes *itself* on its target when its list
turns non-empty; a root queue hands what is pushed on it to worker threads; a
worker pops the queue and drains it. A blocked `dispatch_sync` sleeps on its
thread semaphore until an item it pushed is popped. Root-queue workers idle on
a dispatch semaphore. A group's notify blocks are submitted to queues with
`dispatch_async_f`. Root queues are set up under `dispatch_once`.

`PROJECT.json` lists every component with its status, and the hazards of the
code, each at its line with the properties that watch it.

## 2. Plan

Built, in this order: semaphore, once, group, queue; then root queues, the
futex build with its references, sources, apply, the run loop. Left, in order:

1. Proofs: what `ItemsAlive` says of the list, for a concurrent queue, whose counters must
   take readers in.
2. `GroupAsync`: enter, submit, run, leave over an abstract executor and the
   abstract promise of a group, to be refined by `DispatchGroup`.
3. Timers of a source (`_dispatch_timer_list_update`) and of a run loop's mode.
4. The main queue: `_dispatch_main_queue_drain` with its marker, composed with the
   port the run loop waits on; changes of a queue's target while it holds work.
5. `objc-sync`, `+initialize`, weak references of the Objective-C runtime.

## 3. Modules

| module | models | state and actions |
|---|---|---|
| `CountingSemaphore` | promise of a semaphore | `avail`, `waiting`; Signal, Acquire, Block, Grant, GiveUp (only while there are fewer units than waiters) |
| `DispatchSemaphore` | `semaphore.c` 46-346 | the two counters, the kernel semaphore and whether it is published, one program point per atomic access; `Mach` selects the build |
| `FutexSemaphore` | `semaphore.c` 733-846 under 46-346; `object.c` 35-125 | the futex word is `count` and `nwait`, `asleep` is the kernel's; `xref`, `ref` and the threads that hold a reference |
| `Once` | promise of once | `running`, `done`, `inside` |
| `DispatchOnce` | `once.c` | the predicate word, one record and one thread semaphore per thread |
| `DispatchGroup` | `semaphore.c` 351-602 | value, waiter count, notify list with its links, life of each block (`status`), kernel semaphore; `surplus` (waiters that left without their count) is history |
| `SerialQueue` | promise of a serial queue | `state` of each block, its `owner`, what it has `ahead`, whether its call waits (`sync`), the call each client is `inside`; Submit, Start, Finish, Return |
| `DispatchQueue` | the queue row above | `running`, `suspend`, `refs`, `head`/`tail`/`next` are the fields of the code; `queued` and `redirected` are the root queue; `status`, `owner`, `ahead`, `holds` are history the properties need |
| `WorkQueue` | promise of a root queue | `status` of each item; Push, Start (of the first that waits), Finish |
| `RootQueue` | `queue.c` 2019-2117, 1926-1948, 2350-2523 | list with the mediator, `kworkqueue`, `pending`, `requests` (threads the kernel owes), `pool`; the pool's mediator semaphore is an instance of `CountingSemaphore` |
| `DispatchSource` | `source.c` 50-685, with the parts of `queue.c` and `object.c` it runs on | flags and data of the source; `queued` is the queue it is on, `knote` the event the kernel holds for it; `merged`, `delivered`, `dropped` (latched while no handler was set), `cancelRuns` are history |
| `DispatchApply` | `apply.c` | the shared record, `running` of each queue of the chain, the locals of the reservation; drains and readers beside the call |
| `RunLoop` | `CFRunLoop.c` 1587-1850, 2333-2836, 3419-3475 | a stack of runs, each with its per-run data and its place; posted blocks, sources, ports, the timers of the time limits |
| `ThreadCount`, `ThreadCountTheorems` | no code | how many threads are at a set of points, and a sum over threads (`Total`); how the two move with one thread |
| `MC...` | | model values, constant definitions, the symmetry set of `DispatchQueue` |
| `...Proofs` | | theorems, section 6 |

How they compose. `DispatchSemaphore` and `FutexSemaphore` both implement
`CountingSemaphore`, and `RootQueue` uses that promise instead of either build.
`DispatchQueue` of width 1 implements `SerialQueue` while nobody suspends it
(`SerialSpec`): a block is `waiting` from the call that submits it to its start, whether or
not it has been pushed.
`DispatchQueue` and `DispatchSource` take the root queue as a place where each
item is run once by some worker, which is what `RootQueue` implements (`WorkQueue`,
`WorkQueueSpec`) and checks (`EveryItemStarts`). A time limit in `RunLoop` is a timer source that fires at
most once and whose cancellation does not recall a handler that has begun.

Conventions:

* One action is one atomic access to memory that other threads use, or one
  kernel call. `pc[t]` names the place in the code; the comment at each action
  says which. A compare-and-swap loop whose failed rounds change nothing is
  the step of its successful round. In `RunLoop`, whose state is under locks,
  an action of the loop is the segment between two unlocked places.
* Steps are merged only where no other thread can tell. In `DispatchQueue`
  and `DispatchSource`: the wakeup takes the lock, retains and pushes on the target
  (nobody acts on the lock before the push). In `DispatchQueue`: `DrainHead` reads and
  clears the head, which only the drainer reads; `Redirect` retains and pushes. A
  function called from several places returns through `after` (`back` in
  `RootQueue`).
* A block runs from the step that starts it to the next step of its thread.
* Memory is sequentially consistent. The code's barriers are full barriers on
  the machines it supports; weak-memory effects are outside the models.
* Definitions marked "(Variant ...)" are never used by a specification: each is
  an action with a plausible bug in it, kept to show that a property notices.

What is external: the kernel semaphore (a counter; `SpuriousWake` in the Mach
build as the comment at `semaphore.c:226` reports), the futex call, the kernel
workqueue (a request becomes a thread sooner or later), the kernel event of a source (one
report per arming), Mach ports of a run loop, and, for `DispatchQueue`, the root
queue.

## 4. Runs

Deadlock checking is off in all runs: every run bounds the number of calls
(`MaxCalls`, `MaxItems`, `MaxOthers`, `MaxRuns`, `MaxEvents`, or blocks that are
submitted once), so the system stops when the threads have made theirs; the
liveness properties look for threads that stop half-way. Every detailed module has a type
invariant `TypeOK` or, for apply, types in the invariant of its proofs. It is proved for
all instances, of queues for the serial ones (section 6), and not repeated in the runs.

| run | instance | checks |
|---|---|---|
| `sem_mach` | 3 threads, 4 calls, created with 0, Mach | `Accounting`: every slow waiter has a unit of debt or one unit on its way; `NoMissedSignal`: each announced signal has its kernel signal, also when two threads make the port at once; refinement of `CountingSemaphore`; `WaitersServed`; `TimedWaitReturnsOrRobbed` |
| `group` | 3 threads, 2 notify blocks, 5 calls | `WaiterAccounting`: counts and kernel signals are those of the waiters, each once; `WakeComing`: who comes as the group empties is seen by a wake or looks again; `LinkTargetAlive`; `ListRetains`; `EventuallyServed` |
| `once` | 4 threads, 5 calls | `WaiterRecordAlive`; refinement of `Once`; `EveryCallReturns` |
| `queue_serial` | width 1, 3 clients, 2 workers, 3 blocks, async and sync, releases | `Ordered`, `OneInvocation`, `NoUseAfterDispose`, `NothingStranded`; refinement of `SerialQueue` |
| `queue_concurrent` | width 4, 2 clients, 2 workers, 3 blocks; async, sync, barrier_async | `BarrierExclusive`, `WidthRespected` |
| `queue_live` | width 1, 2 clients, 1 worker, 2 blocks, 1 suspension | `EveryBlockRuns` |
| `pool` | 2 pushers, 3 items, 3 workers, pool of 2, or a kernel workqueue | refinement of `WorkQueue`; `NothingStranded`: while the list holds items somebody is about to look at it; `EveryItemStarts` |
| `futex` | 3 threads, 7 calls, created with 0 | `NoUseAfterDispose`, `NoLostWakeup`, refinement of `CountingSemaphore`, `WaitersServed` |
| `source` | 2 clients, 1 worker and the manager, 2 calls, 2 events; one-shot or custom; event and cancel handlers set before or late | `DataConserved`: data latched while no handler is set are counted apart; `CancelIsLast`, `NoUseAfterDispose`, `NothingStranded`, `CancelHandlerRuns` |
| `apply` | 1 call on a chain of widths 1, 10, 8 or on the root queue; 2 helpers, 3 iterations, 3 others | `EachIterationOnce`, `RecordAlive`, `ReservationsFit`, `CallReturns` |
| `apply_assert` | 2 calls that start on either queue of widths 6 and 4, 1 other | violated: `ContinuationCounted` (disagreement 6) |
| `runloop` | 2 modes, 2 runs, 1 client, 3 calls, a source of each version; callouts may run the loop | `PendingInOrder`, `NoLostWakeup`, `StopEndsRun` |

Why the bounds are enough. A semaphore race has a signaller, a waiter and a
third thread that takes what was meant for the second; the futex build needs
seven calls so that a release and a weak retain come on top. A group race has a
thread that wakes, one that waits or notifies, and one that leaves; two notify
blocks make one link. Once needs two waiters so that a record links to another
waiter's, and a late caller. A queue race has a drainer and two clients (a third
where the lock is handed over: one gives it, one takes it, one pushes behind it);
the third block is the one that finds the queue in the state the first two left.
A root queue needs a worker that has the head, one that contends and one that
leaves, and a third item that is pushed when the first two have been taken. A source
is invoked by one thread at a time, so the race is between that thread, the
manager and a client; a second client may hold the last reference. In apply the
record is at stake between the caller and the last helper, and the second
helper makes the last one uncertain. A run loop needs one nested run and three calls: two
blocks whose order matters and one more while they are worked off.
Every property of a passing run is broken by at least one variant of one
action within the same bounds (`mutants` in `PROJECT.json`).

The instances keep away from the disagreements of section 5, which would hide
everything else: `BarrierExclusive` is checked on a concurrent queue without
`dispatch_barrier_sync`, `Ordered` and `NothingStranded` on serial queues, `group` with
its port made at the start, and in `apply` the widths leave room for all the
readers and drains of the instance (`dispatch_sync` does not look at the width), with
one redirecting call. In `StopEndsRun` and `NoLostWakeup` the
history flag `robbed` marks a run of the loop after which a callout has taken wakeups.

Symmetry is used in safety runs only; clients, workers and blocks are
interchangeable in every definition.

**Fairness.** Weak fairness of each thread's own steps: a running thread goes on,
blocks return, and workers run what is on the root queue. Kernel wake-ups of a Mach
semaphore have strong fairness, since they are created with `SYNC_POLICY_FIFO`
(`semaphore.c:104`) and so pass over no waiter for ever. The timed wait
of a semaphore has strong fairness because the time-out is a point in time from which
`_dispatch_timeout` recomputes the rest at each round. In `RootQueue` the
kernel grants the threads asked for; a worker's time-out is never
obliged to come. In `DispatchApply` a helper that has started goes on, but none has to
start. In `RunLoop` the loop's thread, the timer handlers and a client that owes
a wakeup go on; nobody has to start a run or let time pass. Nobody is obliged to
call, signal, leave or resume, and the properties say so: `WaitersServed`
assumes the value ends non-negative, `EventuallyServed` that the group stays
empty, `EveryBlockRuns` that the queue is resumed again and again.

## 5. Disagreements between code and comments

The sixth is a run. The others are found by changing constants of a `.cfg`, as given in
brackets; the definitions they violate are in the modules.

1. *Timed wait* [`sem_mach` with `Mach = FALSE` and only the
   property `TimedWaitReturns`]. A wait with a time-out that finds
   `dsema_value >= 0` goes to an untimed wait to "drain the wakeup"
   (`semaphore.c:305`). A third thread can take that wakeup, and the call, even
   with `DISPATCH_TIME_NOW`, blocks until somebody signals again.
   `TimedWaitReturnsOrRobbed` is what does hold.
2. *Group port* [`group` with `PortAtInit = FALSE`, `MaxCalls = 6`, invariant
   `NoFlawedLogic`]. In the Mach build `_dispatch_group_wait_slow`
   creates `dsema_port` (`semaphore.c:464`) and waits on `dsema_waiter_port`,
   which only a wake creates. The first waiter waits on port 0 and ends the
   process with "flawed group/semaphore logic".
3. *Stranded items* [`queue_concurrent` with `Width = 100`, one worker, two blocks,
   `Calls = {"async", "barrier"}`, invariant `NothingStranded`]. `_dispatch_async_f2`
   takes back its count at `queue.c:1300` without looking whether it is the last one
   out, as `queue.c:1291` and 1732 do. If the drainer left meanwhile, it saw
   `dq_running` at 2 and did not verify that the queue was idle
   (`queue.c:2155`). The items wait for the next wakeup, which may never come.
4. *Barrier beside a reader* [`queue_concurrent` with `Width = 100`,
   `Calls = {"async", "sync", "bsync"}`, invariant `BarrierExclusive`]. A
   transferred running lock is 2 in `dq_running`, and what keeps others out is the
   suspend count. A thread that looked at the suspend count before the transfer
   adds 2, sees an even count and runs beside the barrier.
5. *Overtaken barrier* [`queue_concurrent` with `Width = 100`, one worker,
   `Calls = {"sync", "barrier"}`, invariant `Ordered`]. A drain empties the tail
   before it decides that the barrier it took must wait for a reader. A
   `dispatch_sync` of the thread that submitted the barrier sees an empty queue and
   runs first. Suspension in the same window has the same effect on a serial queue.
6. *Excess of a reservation* (`apply_assert`). `apply.c:145` takes back what
   `dq_running` exceeds the width by, whoever caused it. In the run of TLC a queue of
   width 4 is being drained (`dq_running` 1), a call of one iteration is inside its
   `dispatch_sync` (3), and a call of two iterations enters (5) and reserves 2: the
   sum, 7, exceeds the width by 3. So `da_width` wraps to 2^32 - 1, the test for the serial
   case is missed, `da_thr_cnt` falls to 1, and `_dispatch_apply_f2` has nothing to
   push. That fails `dispatch_assert(continuation_cnt)` (`apply.c:105`); without the
   assertion the empty list is pushed, which writes through its NULL tail
   (`queue_internal.h:163`). Either way the process ends, and the model
   with it. Concurrent queues are made with the largest width; it takes a queue
   narrowed by `dispatch_queue_set_width`.
7. *Wakeup taken by a nested run* [`runloop` with `HasWork` without its
   exemption `~f.robbed`]. A block of the first `__CFRunLoopDoBlocks` of an iteration may
   run the loop again. The nested run receives the message in `_wakeUpPort`, and
   ends; the outer run goes on to sleep with a block for its own mode, or a
   stop, still pending: nothing after the first `DoBlocks` looks at them if no source
   was handled. `CFRunLoop.c:2732` says "we don't want to lose a wakeup".

## 6. Proofs

Checked by TLAPS for every value of the constants (finite sets of threads or
clients, workers and blocks; any width; any bound on calls), under the `ASSUME`
of each module, which TLC evaluates in the runs.

* `DispatchSemaphoreProofs`. The inductive invariant is `TypeOK /\ Accounting /\
  NoMissedSignal` and `BuildInv` (without Mach the kernel semaphore exists
  and the Mach-only points, those of the port's creation among them, are never visited). `Accounting` is needed for
  type correctness to be inductive at all: it bounds the units by the threads
  that will take them. The counts are cardinalities of sets of threads;
  `CountMove` of `ThreadCountTheorems` says how such a count changes when one
  thread moves, so each action reduces to arithmetic. Results: `TypeCorrect`,
  `AccountingHolds`, `NoMissedSignalHolds`, and
  `ImplementsCountingSemaphore`: with `avail` the value plus the number of slow
  waiters, every step is a step of `CountingSemaphore` or a stutter. Both builds are
  covered (`Mach` is a constant).
* `RunOnceProofs`, on `DispatchOnce`. The invariant `PhaseInv` ties the word to the program
  points: somebody is in the function exactly while the word is neither NULL
  nor DONE, walkers exist only after DONE, waiters only after the first call.
  `ListIInv` adds the list of records on the stacks of the waiters: who is asleep
  has been given its unit or is still listed (`SleepInv`), and from
  the word or the place of the walker each listed record is reached in one way only
  (`ListInv`), so that the walker that signals a record never meets it again.
  Results: `OneRunner`, `ImplementsOnce`, `WaiterRecordAliveHolds` (no record is read after
  its owner has returned), `SemaphoreReturnedCleanHolds` (a thread semaphore
  goes back to the cache without a unit left in it), `OnceTypeCorrect`.
* `RunOnceProofs`, on `DispatchApply`. The record is known to the caller alone until the
  helpers are pushed (`Before`, `Alone`). From then on `da_thr_cnt` is the number of those
  that are not through with it, whether they have started or not, and it is
  freed when there are none (`Leaving`). What `da_index` has handed out is nobody
  else's (`HandedOut`). The iterations that have run are not all in `da_done`: some are
  in the locals of the threads, and the sum of the two is never more than what has
  run. `Tallied` says so without a sum: there are disjoint sets of
  iterations that have run, one of the size of `da_done` and one of the size of each
  local, so that a count equal to the number of iterations means that all are in
  the first. Hence who signals does so after the last one (`Woken`). Nothing is asked of
  `dq_running` or of the reservation, which may come out wrong
  (disagreement 6) without harm to these. Results: `EachIterationOnceHolds`,
  `RecordAliveHolds`. Both are for calls that push at most `MaxCPUs - 1` helpers; one that
  has none to push ends the process and takes no further step.

  The reservation itself is the invariant `WidthInv` on top of it. `Part(c, q)` is what the
  call of `c` has in `dq_running` of `q` at any point of its loops over the chain:
  its share of the queues it has entered, and its width on those it has reserved on, less
  the excess on those where it has been taken back. `Accounts` says that each
  `dq_running` is the drain, the readers and the parts of all calls, and `Reserving`
  bounds the locals of a call: the excess is no more than its width, and no more than two
  for each helper it still counts on. That the excess `apply.c:145` computes is the
  call's own needs room, and this is the hypothesis `Roomy` of the two results: a
  concurrent queue is at least as wide as all that others may have in it (`Crowd`, the
  bounds on readers, drains and calls), and the counters have room for one call more. A
  serial queue needs none. Without it the results are false (disagreement 6);
  a queue that nobody narrowed is as wide as the counter itself. Results:
  `ReservationsFitHolds` (what is taken is given back, on every queue of every
  chain, with any number of calls at once) and `ContinuationCountedHolds` (the assertion of
  `apply.c:105`). TLC checked `WidthInv` on `apply` and on three chains with two calls at once.
* `DispatchGroupProofs`. The notify list is appended to by an exchange of the tail
  and taken by two exchanges, head and tail, between which it may be
  appended to. The invariant keeps its parts apart with a witness: there is an
  assignment of blocks to the list that grows or to the wake that took them
  (`Apart`) under which links stay inside a part, each block is reached in
  one way (`OneWay`), and only the last block of a part may lack a link
  (`LastBlocks`). `CountInv` says that the counts and the kernel
  signals, sent or still owed by a wake (the set of pairs `Owed`), are those of the waiters
  (`WaiterAccounting`) and that the list holds one reference to the group for as long
  as it has blocks (`ListRetains`). The accounting needs the history `surplus`: a waiter
  that finds the group empty when it looks again leaves its count behind, and its wake
  or another one's spends a kernel signal on it, which a later waiter will take for a
  spurious one; a time-out may give back or drain another's count in its place. Results:
  `WaiterAccountingHolds`, `LinkTargetAliveHolds` (no link is written into a block
  that has been freed), `ListRetainsHolds`, `NotesFiredOnceHolds` (no block is
  submitted twice). `ValueInv` bounds the value of the group by the calls made. That no wake
  is missed is inductive with it: a waiter that read the value before the last leave
  counts itself after the wake and looks again (`semaphore.c:459`), a notifier
  likewise (`semaphore.c:598`), and the leave itself ends in a wake
  (`WakeComingHolds`). `TypeCorrect` follows from these invariants.
* `DispatchQueueProofs`. Each thread has, by its program point, a part in
  `dq_running`: the low bit (a barrier), shares of two (one for each item it runs), and in
  the low bit of the suspend count: the right to the list. `RunningCount` says that
  `dq_running` is the sum of these over the threads, the redirected items
  and the sleepers the lock was handed to; `OneInvocation` and `OneToken` say that the
  right to the list exists once. A barrier runs only after it found
  `dq_running` at its own bit, by whoever had the list, and those who come later see the bit
  (`Alone`, which needs `AllOld`: what the compare-and-swap saw). `WithinWidth` says
  that the shares stay within the width, with room for one where a redirect
  is about to add one. Results: `OneInvocationHolds`, `OneDrainerHolds` (two threads never
  drain the same queue, and nobody drains it while it waits on its
  target), `OneListOwnerHolds`, `WidthRespectedHolds`, `BarrierAsyncAloneHolds`
  (an asynchronous barrier is alone, with no hypothesis), and
  `BarrierExclusiveHolds` for serial queues and for concurrent ones without
  `dispatch_barrier_sync`: with it the property is false (disagreement 4).

  The second half of the module proves the other three properties of the queue for
  serial queues (`Width = 1`), from a second invariant `SInv` on top of `IInv`. Its
  parts: on a serial queue only barriers exist and the reader's points are never
  reached (`OnlyBarriers`); `dq_running`, the suspend count and the references are
  *exactly* the sum of what the threads hold, owe or have been handed (`Exact`); while the
  queue has a tail and is not suspended, it is on its target or somebody is on the way
  to look at it (`Covered`); and some sequence names all items ever
  pushed in order, with the place from which on they are not popped (`InLine`). `Line` ties the sequence
  to the pointers: `do_next` of each item is the next one or a pusher is about to
  write it, head and tail are its ends or whoever took them off has what was there
  in `dc`, `nextdc` or `sema`. `Owned` and `Visitors` tie a thread to its block and a client
  inside a call to a reference it cannot give up meanwhile, also when the last block
  gives it up before the call that submitted it has returned. The invariant was checked by TLC
  on two small serial queues, with releases and with suspensions, before it was proved. Results:
  `NothingStrandedHolds` and `NoUseAfterDisposeHolds` for any serial queue, and
  `OrderedHolds` for one that is never suspended. A suspension breaks the order
  (disagreement 5), so that hypothesis is needed. `ItemsAliveHolds` says that the pushers
  and the drain only touch items whose block has not started, and `BlocksRunOnce`, an
  action property, that each block is submitted, perhaps queued, started and ended once,
  in that order. `SerialTypeCorrect` says among others that `dq_running` and the suspend count
  are never negative and that no reference is released that nobody had: from `Exact`.

  `ImplementsSerialQueue` puts these together: a serial queue that is never suspended
  implements `SerialQueue`. The call of a client maps to Submit and the step
  that starts a block to Start. That Start may happen is `BarrierExclusive` and
  `Ordered` after the step: the block that has started is alone, and nothing its client
  submitted before is left. The end of a block maps to Finish and sends home the
  client that waits for it, the return of an asynchronous call to Return; all else (the
  list, the wakeups, the hand-over of the lock, the root queue) is a stutter. What a
  synchronous client does after its block has ended, to give the lock on, concerns
  no block of its own: the map counts it as outside from the end of its block.

  None of the first
  three is true of a concurrent queue: there `Ordered` fails by disagreement 5 and
  `NothingStranded` by disagreement 3, and an item that is stranded is also what
  the last reference may leave behind, which `NoUseAfterDispose` excludes.

* `FutexSemaphoreProofs`. The invariant has five parts besides the types:
  slow waiters are the debt of the value plus the units in the word plus
  those still owed (`Units`); the word's high half counts the waiters in it
  (`WaitersCounted`); slow waiters hold references (`WaitersHold`); the two
  counts of `object.c` are the holders, the reference behind them all, and those
  of the signals (`References`); units beside a sleeper are covered by a wake or
  a waiter that is awake (`SleepersCovered`). `WaitersHold` and
  `Units` together are why a signal may count on a waiter's reference before it
  takes its own: a unit it owes implies a slow waiter, who holds one.
  Results: `TypeCorrect`, `NoUseAfterDisposeHolds`, `NoLostWakeupHolds` and
  `ImplementsCountingSemaphore`, the same promise as the other builds'.
* `WakeupProofs`, on `RootQueue`. The front of the list is either in the head or with one
  thread that carries it (`Front`): a worker between its exchange and the store
  of the new head, or the pusher that was told to store it. The head's mediator
  alone does not give that, since a worker that finds the list empty may replace
  another worker's mediator by NULL; what does is that items enter in order and
  that what is queued is the segment from the front to the tail (`Order`).
  That nothing is stranded needs to know who will come for the front:
  somebody who `Keeps` the list, a thread the kernel owes, or a unit of the pool's
  semaphore with a live worker to take it (`Covered`). A wakeup that leaves because
  `dgq_pending` is not 0 relies on `PendingCount` (pending is what one wakeup is
  about to ask for, or what the kernel owes and has granted), one that leaves because
  the pool is empty on `PoolCount` (each place that is not free is taken for a
  thread to be, or a worker that has not given it back has it).
  Results: `OneOwnerHolds`, `NothingStrandedHolds`. From the same invariants follow, for
  any pool and workers: `ItemsRunOnce` and `StartedInOrderHolds` (an item starts once, in the
  order of the pushes), `ImplementsWorkQueue` (hence every step is one of the promise
  or a stutter: a push maps to Push, the step of a worker that gives
  the front away, or leaves the list empty, to Start, the return of an item to Finish), `PoolRespectedHolds` (no more live threads than places), `OneRequestHolds`
  (the kernel is asked only when all threads of the last request have come), and
  `PoolTypeCorrect`.
* `WakeupProofs`, on `RunLoop`. `NoLostWakeup` speaks of a run that is about to sleep;
  to be inductive it must say what holds on the way there. `Watched` does, for
  the innermost run while it `Attends` (it goes to `mach_msg` and will sleep): what
  has come since the run passed by the place that looks at it is announced, by the
  message in `_wakeUpPort` or by somebody who still owes the wakeup. Stops count from
  the start of an iteration, blocks from the first `DoBlocks`, sources from the
  moment they are collected, the time limit from the decision to wait. `Good` adds
  that such a run never ignores wakeups, so a wakeup that is sent reaches the port, and
  `Below` that a run below another is in a callout, of a block or of a source of either version,
  after which it polls, looks at everything again, or is robbed (disagreement 7).
  For `PendingInOrder`, `Posted` bounds the blocks by the calls made, and a step
  may drop blocks from what the innermost run holds followed by what is pending, but
  not change their order (`StackOrder`).
  Results: `NoLostWakeupHolds`, `PendingInOrderHolds`, `LoopTypeCorrect`.
* `DispatchSourceProofs`. `Lock` counts the threads that have the source plus the
  queue it is on, against the lock bit; `References` counts `do_ref_cnt`: the
  clients together, the manager queue while the kernel event is registered, each
  suspension, the queue the source is on, and each thread that will give one back;
  `DataConserved` counts what the latch takes while no event handler is
  set (`source.c:462`) apart from what is delivered; `Visitors` says that whoever uses the source without one of its own is a
  client with an external reference or the manager with the event; `Kernel`
  and `CancelOnce` say when the event goes and that there is one cancel handler.
  `CancelIsLast` needs `Lock` (the thread that calls the handler is the only one
  past the test) and that cancellation is never undone. That nothing is stranded
  is two more parts: work of a source that is not suspended is seen by the
  thread that has it, by who takes it from the queue it is on, or by a wakeup that
  is yet to look (`Covered`); and a level source that counts as armed is armed in
  the kernel, or the manager has just received its event, or it is about to be
  uninstalled (`Level`). Results: `OneInvocationHolds`, `DataConservedHolds`,
  `CancelIsLastHolds`, `NoUseAfterDisposeHolds`, `NothingStrandedHolds`, `TypeCorrect`.

On the instances of their runs, TLC finds no reachable state outside the
invariants of `WakeupProofs`, `DispatchSourceProofs`, `FutexSemaphoreProofs`,
`RunOnceProofs`, `DispatchGroupProofs` and `DispatchQueueProofs` (for `SInv`, on
the two smaller serial queues).

Model-checked only: for concurrent queues, what `SInv` gives of the list; all liveness
properties (fairness and ENABLED are outside the prover's reach).

## 7. Not modelled

Semaphore disposal crashes and the crash at `LONG_MIN` signals (groups model theirs);
spurious wakes of the group's Mach semaphore; a group re-entered while an old
wake is still under way is modelled, but no property restricts when its notify
blocks fire then; the port of a group that is made by two wakes at once (the semaphore
models that of `_dispatch_semaphore_create_port`). In the queue: whether anything is
stranded on a concurrent queue when a reader backs out (`queue.c:1300`, 1732) or the
last reference goes while items are redirected (`queue.c:1245`): the steps are modelled, but
disagreement 3 breaks the properties there; changes of target and width while it holds work,
chains of non-global targets, the main queue, recursive sync on a queue's own thread (a
deadlock by contract), queue-specific data and continuation caches. In the
source: timers and their heaps, several sources on one kernel event, Mach ports,
errors the kernel reports, the `select` and `epoll` loops of the manager; a
`dispatch_source_merge_data` after the source was uninstalled (its assertion,
`source.c:209`, reads through a NULL `ds_dkev`). In
apply: nested calls; a `da_thr_cnt` that wraps to 0 and asks for about 2^32 continuations. In the run loop: the main thread's (its dispatch port), timers
of a mode, observers that run the loop or change it (a run of the loop inside
a before-waiting observer takes wakeups as in disagreement 7), sources that
are not in every mode, adding sources, the invalidation of a version 1 source while its
message is under way. Dispatch I/O (system calls over private serial
queues), data and transforms (sequential code on immutable buffers), and the other
libraries of the repository, most of it third-party code kept for reading:
containers and property lists of CoreFoundation, GNUstep base, the Objective-C
runtime. See `components`.
