# fastworker in TLA+

A verification development for `fastworker`, the Go worker pool in `src/`.  It
models the pool's core (`pool.go`, `dlq.go`, `control.go`), the queues
(`queue/*.go`), what becomes of one job beside its place in a queue (futures,
cancellation, idempotency keys, `Map`), the rate and concurrency limits, the
event bus, and what options and configurations turn into, as TLA+ modules.  TLC
checks them on small instances, and TLAPS proves the main safety properties for
every number of jobs, workers and callers, every queue size, limit and rate.

Line numbers are those of `src/`.

## 1. The system

| Component | State | Operations | Called by |
|---|---|---|---|
| FIFO (`queue/fifo.go`) | circular buffer, head, tail, len, closed, two condition variables | TryPush, Push, TryPop, Pop, PopTimeout, Close | submitters and workers, through `Pool.basicq`, `Pool.fastq` |
| Priority queue (`queue/priority.go`) | binary heap, closed, condition variable, wake channel of one slot | Push, DropOldestPush, TryPop, Pop, PopTimeout, Close | submitters, workers (requeue), replay, through `Pool.q` |
| Pool core (`pool.go`, `config.go`, `retry.go`, `errors.go`) | state word, counters, spill list, DLQ, context, wait group | Submit, the worker loop, execute, requeue, deadletter, Start, autoscale, Pause, Resume, Shutdown, Terminate | users |
| Dead letters (`dlq.go`) | the DLQ | ReplayDeadLetters, PurgeDeadLetters | users |
| Control helpers (`control.go`) | none of their own | WaitIdle, Drain, Wait, QueueDepth | users |
| Inspection (`inspect.go`) | tracking index | CancelJob, InspectJob, ActiveJobs, CancelAll | users |
| Futures (`future.go`, `typed.go`) | done channel, value, error | Get, Cancel, complete | users, workers |
| Rate limiter, keyed semaphore (`rate_limiter.go`) | token buckets, active counts | reserveDelay, tryAcquire, release | submitters, workers |
| Job (`job.go`) | state word, attempts, options | | workers |
| Usability layer (`usability.go`) | queue policies, paused queues, options | PauseQueue, Once, Replace, Resize, config file, test pool | users |
| Batch, groups, chains (`batch.go`, `chain.go`) | wait groups | Map, Group | users |
| Scheduler (`scheduler.go`, `cron.go`) | timers | ScheduleEvery, After, At | users |
| Lifecycle bus (`lifecycle.go`) | handler table | On, Once, off, emit | users, workers |
| Ring (`queue/ring.go`) | slots with sequence numbers, two counters | TryPush, TryPop | nobody in the pool |
| Store (`store.go`) | files | SaveJob, SaveDeadLetter, Close | submitters, workers |
| Hooks, callbacks, middleware, progress, backoff | user functions | called in place | workers |
| Admin, metrics, Prometheus | none | HTTP handlers over counters | users |

How a job flows.  `submit` loads the state word once; later it pushes the job
into one of three queues: bare functions into `basicq`, immediate jobs of
normal priority into `fastq`, all others into the heap `q`.  A push that fails
may go to the spill list.  Each worker polls `basicq`, `fastq`, the spill list
and the heap in that order, takes a job in hand, and runs, drops, postpones,
retries (through the heap) or dead-letters it.  Nothing but the state word and
the closing of the queues tells workers and submitters that the pool stops.

What is hard here: every decision is a load that is acted on later.  The state
word is read before the push, before the poll, before the retry and before the
spawn; four queue lengths are read one after the other; requeue runs on the
worker's own goroutine against the queue that only workers empty; `Shutdown`,
`Terminate`, `Start`, `Pause` and the autoscaler share a word that some of
them swap and others store blindly; one token or one signal wakes one of many.
The list of these hazards, each at its line and with the properties that watch
it, is `hazards` in `PROJECT.json`.

What makes each component correct:

- FIFO, priority queue: order, capacity, nothing vanishes, no wake-up is lost,
  Close frees everybody.
- Pool: a job is in one place; it is begun at most `MaxAttempts` times; it ends
  once; a stopped pool stays stopped and is left by all workers; a drain leaves nothing
  behind; every accepted job ends on a running pool; whoever blocks is freed.
- Dead letters: only a dead letter comes back, with its attempts reset.
- WaitIdle returns, and means what it says.
- Job objects: a recycled `*queuedJob` is nobody's any more; the index, the
  state word and the future say the same of a job; a key excludes a second job.
- Limits: no more starts than the bucket earns, no start before its reservation
  is due, no more jobs of a key at once than `MaxConcurrentPerKey`.
- Ring: an element comes out once, in order; a refusal has a cause.
- Event bus: who stays subscribed hears every event, nobody hears one twice.
- Options: a pool has workers, room and attempts whatever it was configured with.

## 2. The modules

| Module | What it is |
|---|---|
| `BoundedQueue` | what a FIFO promises its callers: atomic calls, order, capacity, the reasons to give up |
| `FIFO` | `queue/fifo.go`: buffer, counters, parking and waking; `Refines` maps it to `BoundedQueue` |
| `FIFOProofs` | theorems about `FIFO` |
| `DelayQueue` | what the heap promises: in order, never early, nothing vanishes |
| `PriorityQueue` | `queue/priority.go`: the array heap with its sift loops, the condition variable, the wake channel, timers and a clock; `Refines` maps it to `DelayQueue` |
| `MCPriorityQueue`, `PriorityQueueProofs` | its items for TLC; theorems |
| `Pool` | `pool.go`, `dlq.go`: the whole pool |
| `MCPool` | symmetry for TLC |
| `PoolPause` | `Pool` with the history that Pause is about |
| `PoolIdle` | `Pool` and a goroutine in `WaitIdle` |
| `PoolClaims` | statements of the documentation that the code does not keep |
| `PoolProofs` | theorems about `Pool` and, for Pause, `PoolPause` |
| `Execution` | `submit`, `execute`, `deadletter`, `releaseJob`, `inspect.go`, `future.go`, `batch.go`, `Once` and `Replace`: the job objects and all that points to them |
| `MCExecution`, `ExecutionClaims`, `ExecutionProofs` | its jobs for TLC; statements that do not hold; theorems |
| `Limits`, `MCLimits`, `LimitsProofs` | `rate_limiter.go` and its callers in `pool.go`; rates and limits for TLC; theorems |
| `Ring`, `LaxQueue`, `MCRing`, `RingProofs` | `queue/ring.go` access by access; what it promises: order, capacity, and refusals that look only at a position; symmetry; theorems |
| `Lifecycle`, `MCLifecycle`, `LifecycleProofs` | `lifecycle.go`; its handlers for TLC; theorems |
| `Options`, `OptionsProofs` | `config.go`, the options of `job.go` and `usability.go`, the choice of the queue, `backoff.go`, as operators; theorems |

`Pool` uses the two FIFOs and the heap as atomic sequences and a set: `FIFO`
and `PriorityQueue` show that this is what the real ones are.  It keeps of the
heap which jobs are ripe, since only those can come out.

One action is one access to shared state (an atomic load, store or swap, or one
critical section); what a goroutine does in between is local.  In `Pool`:

| Variables | Code |
|---|---|
| `state`, `ctxDone`, `scaleClosed`, `fifoClosed`, `heapClosed` | `p.state`, `p.ctx`, `p.scaleStop`, `closed` of the queues |
| `basicq`, `fastq`, `spill`, `heap`, `delayed`, `dlq`, `replay` | the queues, the jobs in `p.q` that are not ripe, the DLQ, the slice `ReplayDeadLetters` walks |
| `job`, `attempt`, `cancelled`, `late` | where each job is or how it ended; `qj.attempt`; cancelled contexts; history: accepted, or replayed, after stopping was stored |
| `wpc`, `wjob` | a worker's place in its loop, the job in its hands |
| `startpc`, `toSpawn`, `spc`, `tpc`, `scalepc`, `replaypc` | the goroutines in Start, Shutdown, Terminate, autoscale, ReplayDeadLetters |

| Actions | Code |
|---|---|
| `SubmitCheck`; `PushBasic`, `PushFast`, `PushHeap`, `DropFront`, `PushMisses`, `TryAgain`, `SpillOver`, `Reject` | `submit` 192-324, `pushBasic`, `pushFast`, `pushBlock`, `trySpill` |
| `WorkerTop`, `WorkerGate`, `WorkerPaused` | the checks at the head of the loop, 429-440 |
| `PollBasic`, `PollFast`, `PollSpill`, `PollHeap`, `PollMisses`, `WorkerExitCheck`, `WorkerReap`, `WorkerSelect`, `WorkerLeaves` | the polls, the exit check and idle reaping, 441-498 |
| `DropCancelled`, `Postpone`, `Begin`, `Succeed`, `FailBasic`, `FailRetry`, `FailDead` | `execute`, `executeBasic` |
| `Requeue`, `RequeueMisses`, `RequeueAgain`, `RequeueGivesUp` | `requeue` and `pushBlock` on the worker, then `deadletter` |
| `Start`, `StartSpawns`, `ScaleTick`, `ScaleSpawns`, `ScaleStops`, `Pause`, `Resume`, `Shutdown...`, `Terminate...` | the functions of those names |
| `ReplayCalls`, `ReplayTakes`, `ReplayPushes`, `Purge` | `dlq.go` |
| `Elapse`, `CancelJob` | a `runAt` arrives; `CancelJob` or `Future.Cancel` |

In `Execution`, the queues are sets, so that what is left is the order in which
`pool.go` writes to an object, `p.jobs`, `p.idemp`, the future and `p.dlq`:

| Variables | Code |
|---|---|
| `obj`, `fresh`, `pooled`, `owner`, `word`, `attempt` | `jobPool` and the `queuedJob` objects: whose they are, `qj.state`, `qj.attempt` |
| `index`, `keys`, `ctx`, `fut` | `p.jobs`, `p.idemp`, cancelled contexts, the futures |
| `queued`, `bare`, `dlq`, `replay` | objects and bare functions in some queue, the letters |
| `jpc`, `wpc`, `wobj`, `cpc`, `cobj`, `cid` | the goroutines in Submit, the workers, those in CancelJob or Future.Cancel with the pointers they loaded |
| `pending`, `mpc` | the wait group of `Map` or a `Group`, and its caller |

`Begin`, `TakeKey`, `RateRefuses`, `Fill`, `Push`, `PushFails`, `PushFailed` are
`submit`; `DropCancelled` to `Releases` the two ends of `execute`; `Fails`, `Retries`,
`Requeues` and `DeadLetter` to `DeathFreesKey` the failure, with the time between
the word `JobRetrying` and the push, when the worker still holds the job;
`Postpones` a paused queue, a rate or a concurrency limit; `CancelLoads` to `CancelUnindex`
are `CancelJob`, one step for each write.  It takes its configurations and job
options from `Options`, so that `useBasicFastPath` decides which path a job takes.

In `Limits`, time is in ticks and a token costs `Second \div rate` of them, so
that the floating-point bucket is exact.  `SubmitLoads`, `Admit`, `NotAdmitted`
are `admitRate`; `RateNotReady`, `RateReady`, `RateLoad`, `Reserve`, `Reserved`
are `delayForRateLimit`; `Acquire`, `NoSlot`, `Release` the semaphore; a worker
loads the bucket in one step and uses it in another, between which `SetRateLimit`
may replace it.

In `Ring` an action is one atomic access or one access to a cell's value.  In
`Lifecycle` it is one critical section of the bus or one call of a handler; a
registration's unique id is the handler itself, so `removeEntry` is `Without`.

The full correspondence, definition by definition, is `map` in `PROJECT.json`.

Definitions called `Bug...` are not part of any specification.  Each is the
definition that follows it with one mistake a programmer might make (a missing
wait, an off-by-one, a signal to nobody); putting it in the place of the right
one must break the property `mutants` names, which shows that the property is
about the code.

## 3. The runs

| Run | Question and instance |
|---|---|
| `FIFO` | Is the circular buffer the atomic queue, does it lose a wake-up, does everybody get out?  3 goroutines, 2 values, 2 slots |
| `MCPriorityQueue` | Does the array stay a heap, does it deliver in order and on time, do its waiters get out?  3 callers, 5 items, 4 nodes, 2 instants |
| `MCPoolDrain` | Does Shutdown leave a job behind?  2 workers, one job of each kind with a retry, a postponement, a cancellation, under DropOldest |
| `PoolControl` | Do Start, Pause, Resume, Terminate and two Shutdowns racing revive the pool or outrun a pause?  1 worker, 2 jobs with retries and deadlines |
| `MCPoolLetters` | Do spilling, replays, purges, the autoscaler and Terminate keep jobs within their attempts, queues within their limits and workers within `MaxWorkers`?  3 jobs, at most 2 workers of 3 names |
| `MCPoolStops` | Do Shutdown and Terminate end, do they free a submitter and a postponing worker blocked on the full heap, and do workers of a racing Start leave the stopped pool?  Under fairness (`MCPoolScales.cfg`, module `Pool`, asks the last of the late spawn of an autoscaler) |
| `PoolIdle` | Does every accepted job end on a running pool, and does WaitIdle return?  Under fairness, 2 workers |
| `MCRing` | Is the ring a queue that refuses only for a cause?  3 goroutines, 2 cells, counters that wrap |
| `MCLimits` | Do two jobs with limits 1 and 2 on one key keep to rate and limits through retries, requeues, a replay and a new bucket?  All three modes |
| `MCExecution` | Do index, futures, keys, `InspectJob` and `Map` tell the truth about a job through retry and postponement, and do futures and `Map` end?  Pairs of calls on two configurations, 2 workers, a canceller, a replay |
| `MCLifecycle` | Does every handler that stays on hear of every event, once?  3 handlers, 1 event, a switch of mode |
| `ClaimCancelNamesJob` | Counterexample to `inspect.go`'s comment, section 6 |

`CHECK_DEADLOCK FALSE` stands in all runs but those of `FIFO` and the priority
queue: when a pool is stopped, or the bounded number of calls of a run has been
made and answered, no step is left, as it should be.

### Properties

- `FIFO`: `NoLostWakeup` (while pushers or poppers are parked, each free slot
  or element has an awake goroutine coming for it), `Refines`, `CloseReleases`,
  `HandOver`; proved besides: `TypeOK`, `BufferConsistent`, `ParkedConsistent`.
- `PriorityQueue`: `HeapOrdered`, `NoLostSignal`, `Refines`, `CloseReleases`,
  `TimeoutReturns`, `HandOver`.
- `Pool`: `OnePlace`, `AttemptsBounded`, `QueuesBounded`, `WorkersBounded`,
  `DrainComplete`; the action properties `StopIsFinal` and
  `EndIsFinal`; the liveness properties `ShutdownEnds`, `SubmitEnds`,
  `TerminateEnds`, `AcceptedEnds`, `StoppedEmpties` (a stopped pool is left for
  good by the workers that Start or the autoscaler spawned too late).
- `PoolPause.PauseBounds`: a pause lets a worker begin at most the one job it
  was already reaching for.  `PoolIdle.WaitIdleReturns`.

- `Ring`: `Refines` (to `LaxQueue`), `RefusedForCause` (TryPop says no only if
  its position was free at some moment of the call, TryPush only if it was taken).
- `Limits`: `WithinRate` (no window of time sees more tokens fall due than the
  burst and what the window earns), `StartsPaid` (no attempt begins before a token
  for it is due), `WithinLimit` (a start finds its own limit kept).
- `Execution`: `IndexTrue`, `FutureTrue`, `KeyExclusive`, `InspectTrue`,
  `MapComplete`, `FutureEnds`, `MapEnds`, each stated where it is defined.
  `InspectTrue` counts a job as queued or retrying also while a worker that puts it
  back still holds it (`pushBlock` may spin there for long), since that is what
  the code reports.
- `Lifecycle`: `Reaches`, `CallsOnce`.

`DrainComplete` excepts the jobs in `late`: those whose `submit` passed the state
check before Shutdown and pushed after it.  That exception is real (section 6,
`ClaimDrainAccepted`).  `AcceptedEnds` is checked with a heap that has room for
every job, because with less room workers that all requeue at once on a full
heap wait for each other for ever (a hazard of `pushBlock`, 385); stopping the
pool frees them (`ShutdownEnds`).

### Bounds and why they are enough

- Jobs: two or three.  The interesting conflicts need one job in a worker's
  hands, one waiting and one on its way, and one job of each of the three queue
  classes where they interact.  `MaxAttempts` = 2 tells a first attempt
  from a retried one; it is 1 where letters are replayed (`MCPoolLetters`) and where
  postponements fill the heap instead of retries (`MCPoolStops`).
- Workers: one where the conflict is with a controller, two where it is between
  workers (leaving while the other requeues, stale worker counts), a third name
  where the autoscaler might exceed the limit.
- `QueueSize` 1 to 3, so queues fill; with two slots a circular buffer wraps
  and has a middle.
- Two callers of Shutdown (`PoolControl`), since the second is refused, waits,
  or panics on the closed channel, according to what the first has done.
- `MaxReplays` bounds calls of ReplayDeadLetters; one lets a letter be revived,
  die again and be purged, while other jobs are pushed into the same heap.
- `MaxTime` in `PriorityQueue` is 1: now and later.  Every `runAt` and deadline
  lies within it, so no timer is cut off.
- `Ring` runs without end on two cells: `Wrap` is 10, five laps, a multiple of
  the cells as 2^64 is.  `NotLapped` bounds how far the counters may run past a
  goroutine that sleeps between its loads: less than half of `Wrap`, since
  beyond it the signed difference lies; in the program that takes 2^63 calls.
- `Limits`: `MaxTime` 2, two ticks to a token of the slower rate, so that a bucket
  lies idle, overflows and is drawn below zero; `MaxSets` 1 replaces the bucket
  once, `MaxReplays` 1 revives a job with its reservation.
- `Execution`: `Loads` names the pairs of calls that share something (a key, the
  recycled objects, the wait group); `MaxObjs` is 3, more than two calls need, so
  that a new object and a recycled one are both a choice; one job is `Delayable`
  and may be put off again and again; one canceller
  meets every step of the calls; two configurations, one that tracks and one that
  takes the bare path.  `ClaimMapRetried.cfg` and `ClaimMapCancelled.cfg` hold what
  is outside the passing run (section 6).
- `Lifecycle`: three handlers (of all events, of one type and one-shot, of two
  types), since taking one off shifts the others under an emission; `MaxSwitches` 1.
- The heap of four nodes is the smallest in which a pop compares two children;
  the fifth item lets DropOldestPush displace one.

Symmetry is used only in safety runs, over interchangeable workers and jobs.

### Fairness

`Fairness` in `Pool` is weak, but for one select, and says: a goroutine inside Submit, the worker
loop, Start, the autoscaler, Shutdown, Terminate or a replay goes on when it can;
timers fire; a job's `Run` returns.  The Go scheduler is preemptive and Go's
mutex hands itself to a waiter after a millisecond, so a goroutine that stays
runnable runs.  Nobody is obliged to submit, cancel, pause, resume, start, stop
or replay.  That `Run` returns is the user's side of the contract: `Shutdown`
waits for jobs.  It is strong for the branch `<-p.ctx.Done()` of the select at the
end of the worker loop: Go chooses at random among ready branches, and a token in
`p.queueWake`, the other branch, stands for a push, of which there are finitely many once the
queues are closed.  `PoolIdle` adds that the caller of WaitIdle goes on polling;
`FIFO` and `PriorityQueue`, that calls in progress go on and time passes.
`Execution` has weak fairness of `Progress`, the steps of all goroutines in
calls.  Attempts, replays and calls are bounded there, so the only infinite
behaviours postpone a job for ever; strong fairness of the start of an attempt
excludes them, which says that a paused queue is resumed and a limit lets its
jobs pass in the end.  A queue that stays paused does keep its jobs.  `Ring`, `Limits`
and `Lifecycle` are checked for safety only.

## 4. The proofs

All theorems hold for every set of threads, jobs, workers and stoppers, every
capacity and every configuration that `normalizeConfig` yields (the assumptions
`CapacityAssumption`, `ThreadsAssumption`, `NoneAssumption` in `FIFO`; `ItemsAssumption`,
`CapacityAssumption`, `ForeverAssumption`, `ThreadsAssumption` in `PriorityQueue`;
`RingAssumption` in `Ring`;
`JobsAssumption`, `ConfigAssumption`, `SpillAssumption` in `Pool`).

`FIFOProofs`: `TypeCorrect`, `BufferIsConsistent`, `NoWakeupIsLost`,
`Implementation`.  The buffer's invariant is inductive together with types and
`ParkedConsistent`; the arithmetic of `SlotAt` is a handful of lemmas.
`NoLostWakeup` is inductive beside it: a push adds an element and wakes a
popper, a pop takes an element and an awake popper, and parking needs an empty
buffer, so the awake poppers never fall below the elements while some are
parked; this is counting with finite sets.  `Implementation` maps initial states
and each action to `BoundedQueue`.

`PriorityQueueProofs` (from `ItemsAssumption`: no two items share a sequence number,
as `p.seq` sees to):

| Theorem | Property | Argument |
|---|---|---|
| `QueueTypes`, `HeapStaysOrdered` | `TypeOK`, `HeapOrdered` | `Shape`: types, heap order and an array without repetitions, inductive together.  A loop of `pq.push` or `pq.pop` is a recursive function over an array and a node; it exists and ends because the node moves towards the root, or the end (`LoopExists`, `LoopEnds`, from the library's minimum of a well-founded order, which takes a set and no operator).  The loop invariants are `Rising` and `Sinking`: every node but one is in order with its parent, and those below that one follow the node above it (`Rises`, `Sinks`: one round keeps them).  `PushMakesHeap` and `PopMakesHeap` are the result: a heap, with the item added or the root taken away and no other change of contents |
| `NoSignalIsLost` | `NoLostSignal` | with `Parking` (only callers of Pop are parked, none on a closed queue) and the length of the array from the lemmas above; a push that finds somebody parked moves him among those who are coming, an item leaves with at most one of them, a Pop gives up only when the queue is closed; counting with finite sets |
| `HeapImplementsQueue` | `Refines` | `RootIsFirst`: the root precedes all others, by the least node that would not be behind it and `LessOrder`, which says that `lessItem` is a total order; an array without repetitions has as many items as places |

`RingProofs` (from `RingAssumption`: at least two cells, which divide `Wrap` and fit
into it four times, as a power of two does into 2^64; that `Cells` is a number and
at least two follows from its definition, but powers are out of the provers' reach,
and TLC evaluates it; `None` is no element and no call):

| Theorem | Property | Argument |
|---|---|---|
| `RefusalsHaveCause` | `RefusedForCause` | `Lifts`: there are counters, positions and sequence numbers that never wrap, of which the variables show the remainder modulo `Wrap`, and for which `Ideal` holds.  `Ideal` says of every position whose turn its cell is: between head and tail it is `Filled`, or with the push that won it; within a lap after the tail `Vacant`, or with the pop that empties it; owners are `Alone` in their cells, and whoever is about to compare and swap found the cell `Ready` unless the counter has moved.  `Near`, which the guard `NotLapped` keeps, puts a loaded position less than half of `Wrap` behind the counter, so the signed difference of two remainders is the difference itself (`ShownDif`).  A cell that is behind is then that of the counter as it is now (`BehindAtTail`, `BehindAtHead`) |
| `RingImplementsQueue` | `Refines` | with `Written` (a push about to publish has put its element into the cell): the compare-and-swap appends to the contents or takes their first element, which is in the cell already because nobody pushes there; between that and the last store a thread touches only its own cell, which holds none of the other elements.  The existential counters are picked anew in each step, so no history variable is added |

The arithmetic is in lemmas about remainders (`Apart`: numbers with one remainder
and less than the divisor apart are equal), proved from quotient and remainder alone.

`PoolProofs`:

| Theorem | Property | Argument |
|---|---|---|
| `PoolTypes`, `NoJobIsLost` | `TypeOK`, `OnePlace` | inductive only together: `Place` keeps `job` typed because the job moved is in a worker's hands or at the head of a list, which `OnePlace` says, and its lists are typed.  Lemmas say what Append, Tail and a function update do to a list without duplicates; one lemma per action |
| `StoppedForGood` | `StopIsFinal` | Start, Pause and Resume are compare-and-swaps from accepting states, everything else stores a stopping state; `spc` and `tpc` need no invariant |
| `EndedForGood` | `EndIsFinal` | with `OnePlace`, the job a step moves is never one that has ended, save replay and purge |
| `AttemptsAreBounded` | `AttemptsBounded` | inductive over `OnePlace`: whatever waits has an attempt left, a retry is only made with one left, a postponed job keeps its number |
| `QueuesAreBounded` | `QueuesBounded` | every push tests the room in the same critical section; the heap as a finite set |
| `WorkersAreBounded` | `WorkersBounded` | strengthened by the spawn count: the live workers plus those Start, or the autoscaler, have still to spawn are at most `MaxWorkers`; workers only leave in between |

Those about Pause and Shutdown, which use these invariants:

| Theorem | Property | Argument |
|---|---|---|
| `PauseHoldsWorkers` | `PauseBounds` | `PauseInv`: in a pause, a worker that has begun a job still has it, or is on its way back to the gate, or waits there (`Halted`); none of these places leads to a poll without passing the gate |
| `DrainLeavesNothing` | `DrainComplete` | `DrainInv`: `Watched` (a waiting job that was accepted in time has a worker that has not yet found its queue empty on the way out), and while the pool accepts, some worker is not on its way out; a worker that requeues a job goes back to the head of its loop and watches it.  `Orderly`: whoever stops the pool begins after Start has spawned, nobody spawns afterwards, and Shutdown is done only when no worker is left.  Under `~RacingStart`, `~Spillover` and `NeverScales` (`AutoScale` is off or `MinWorkers` is `MaxWorkers`); `ClaimDrainSpilled` and `ClaimDrainWorkers` show what happens without |

`LimitsProofs` (from `LimitsAssumption`: finitely many workers, at
least a tick for each token):

| Theorem | Property | Argument |
|---|---|---|
| `LimitsTypes` | `Typed` | inductive: `TypeOK` with `AtHand` (a busy worker has a job), `Asked` (a loaded bucket exists) and `Sound` (a bucket holds a token at least); `Parts` cuts it into what jobs, workers and buckets contribute, one lemma each |
| `SlotsAreCounted` | `SlotsCounted` | the count is the cardinality of the workers between tryAcquire and release; one action adds one, one takes one away |
| `LimitIsKept` | `WithinLimit` | from that and the test in `tryAcquire` |
| `RateIsKept` | `WithinRate` | strengthened by `Budget`: what is left, with the tokens granted since any grant, is within the burst and what was earned since.  Two lemmas of pure arithmetic: refilling keeps it, and a grant keeps it and the pace; the bucket invariant and `WithinRate` follow for every rate and burst |
| `StartsArePaid` | `StartsPaid` | `Backing`: claims (an attempt begun, a reservation that a job or its worker carries) map one-to-one into the tokens granted, and the token of a claim is due by the time its attempt may begin; `Holding`: a job is in one worker's hands, and one that lets it pass uses up its reservation.  A step keeps a claim or makes one together with its token |

`LifecycleProofs` (from `LifecycleAssumption`: finitely many handlers):

| Theorem | Property | Argument |
|---|---|---|
| `LifecycleTypes` | `TypeOK` | with `Counted`: the buses made and the goroutines that may still make one are no more than the handlers |
| `EventsReach`, `HandlersCalledOnce` | `Reaches`, `CallsOnce` | `Entries`: the lists of a bus hold each subscribed handler once, in the right list; `Emission`: the handlers called, started and still to be called are disjoint (`Once`), were all meant (`Meant`), and leave out nobody who was on before and is on still (`Covers`).  An emission copies the two lists in one critical section, so later changes to them do not matter |

`ExecutionProofs` (from `ExecutionAssumption`; any options, any number of
objects, attempts and replays):

| Theorem | Property | Argument |
|---|---|---|
| `ObjectsPlaced` | `Typed /\ Placed` | inductive only together: an object with a job's data is with one submission, in one of `queued`, `dlq` and `replay`, or with one worker.  What `jobPool` gives out has no owner, and nothing with an owner is pooled; a worker in `deadletter`'s last steps (`Late`) has given its object away already, and cancellers never own one |
| `IndexAgrees` | `IndexTrue` | `Indexed`: `Found` (an entry leads to a live object of that ID) and `Kept` (a job not ended and not asked to cancel is under its ID); `Ending` and `Asking` say that whoever deletes an entry has ended its job or been asked to |
| `FuturesTell` | `replays = 0 => FutureTrue` | what a worker is about to tell has been recorded (`Told`, `Refusing`), a letter still being seen to is in the DLQ once (`Lettered`), and a canceller's pointer leads to the job it was loaded for (`Pointed`) because an object with a future is never recycled.  Hypothesis `CancelsFuturesOnly`: CancelJob is called for jobs of SubmitResult |
| `KeysExclude` | `KeyExclusive` | `Claimed`: a job claims its key from `LoadOrStore` until its worker gives it back (`Closing`), one job at a time; beside it `Settled`: what waits has been accepted and has not ended |
| `InspectTells` | `InspectTrue` | `Worded`: what `qj.state` says of an object in each place (a queue, each step of a worker, the DLQ), unless CancelJob wrote over it, and which end, if any, its job has come to; `Hopeful`: what waits for an attempt has one left, which `ExecutionAssumption` (attempts are positive, as `normalizeConfig` sees to) gives a job at its submission.  No bound on replays, retries or postponements |
| `MapGathers`, `ExecutionTypes` | `replays = 0 => MapComplete`, `TypeOK` | `Counting`: the wait group counts the items that are submitted and have not returned, and refused ones of a `Group`; an item runs once (`FirstRun`, `BareOnce`), so it is discounted once.  Hypothesis `OneAttempt`: items have one attempt |

The hypotheses are where the code stops keeping the promise: `CancelsFuturesOnly`
and `replays = 0` of `FuturesTell` are what `ClaimCancelNamesJob` and
`ClaimLateDeadletter` violate, `OneAttempt` what `ClaimMapRetried` does (section
6); `MCExecution.cfg` satisfies the two on constants.  After a replay a letter may
be worked on by its new worker while the old one still reads it; that `FutureTrue`
and `MapComplete` hold in that instance after its one replay too is
shown by TLC alone.

`OptionsProofs` (no assumptions): `NewIsNormal`, `FromFileIsNormal`,
`OptionsKeepNormal` (whatever a Config, a file, options, presets or Resize say, in
any order, the pool has a worker, room, attempts, and no fewer workers at most
than at least), `PausedJobsAreDelayed` (a job of a paused queue goes neither to
`basicq` nor to `fastq`), `SubmittedIsComplete` (a keyed job has an ID and does
not bypass the keys), `BackoffIsCapped`.  They are about records, field by field.

Left to TLC: liveness and whatever depends on `ENABLED` (`SubmitEnds`,
`StoppedEmpties`, `AcceptedEnds`, `WaitIdleReturns`, `CloseReleases`, `FutureEnds` and the like).

## 5. What is not modelled

- In `Pool`: callbacks, the store, Resize under running workers, panics with
  `RecoverPanics` off.  The objects, futures, keys and the index are `Execution`'s;
  rate and concurrency limits, in `Pool` and `Execution` the free choice to postpone a
  `Delayable` job, are those of `Limits`.
- In `Pool` two sequences are one step: the return of `wg.Wait` with the store of
  `stopped` and the cancellation (pool.go:796-800), and the three reads of a tick of the
  autoscaler (149-154).  The spawn that follows those reads is a step of its own.
- In `Execution`: the value of a future (`setValue`, `Get`), `CancelAll` (a loop of
  CancelJob), jobs discarded by DropOldest or abandoned by Terminate, whose
  futures nobody completes, and two tracked jobs of one ID.
- In `Limits`: a mode that changes while jobs hold reservations, several keys
  (they share nothing), and a job whose limit is not positive (section 6).
- In `Ring`: `Len`, which has no caller in the repository.
- In `Options`: Diagnose and Explain (text), fractional backoff factors.
- Schedules and cron (goroutines that call Submit), the store (an audit log that
  nothing reads back), hooks, callbacks and middleware (user functions called in
  place), admin, metrics and Prometheus handlers (formatting over counters), the
  test pool, examples and benchmarks.
- One replay at a time, one caller of Start and one of Terminate.  `PauseQueue`
  is the free choice to postpone.
- The counters of `Stats`: nothing reads them back except `busy` and `workers`,
  which are `Busy` and `Live`.
- In `PriorityQueue`, the mutex is a critical section and several readings of
  the clock in it are one.
- Components with status `not_modelled` in `PROJECT.json`, with the reason.

## 6. Findings

`ClaimCancelNamesJob` (inspect.go:31): CancelJob loads the `*queuedJob` from
`p.jobs` and then writes through it.  In between a worker may finish the job and
put the object back into `jobPool`, and Submit fills it for another job: the
state, the context and the future that are cancelled are those of the other
job.  inspect.go:20 says CancelJob "cancels a queued or running job by ID."

### Further divergences

The following are stated in the modules too, with a configuration to see the
counterexample:

| Property | Configuration | Statement it contradicts |
|---|---|---|
| `PoolClaims.DrainFinishesAccepted` | `ClaimDrainAccepted.cfg` | control.go:50 "waits for all accepted jobs to finish": Submit reads the state once (pool.go:195); a goroutine past the check pushes after the last worker has left, gets nil, and the job is stranded |
| `PoolClaims.DrainFinishesSpilled` | `ClaimDrainSpilled.cfg` | the same: the exit check of a worker (pool.go:463) does not look at the spill list |
| `PoolIdle.IdleMeansDone` | `PoolIdleClaim.cfg` | control.go:39: between the pop of a job and `busy.Add(1)` it is counted nowhere; WaitIdle returns too early |
| `PoolClaims.ReapingStopsAtMin` | `ClaimReaping.cfg` | idle workers act on the same count (pool.go:475) and the pool falls below `MinWorkers` |
| `PoolClaims.DrainRunsPostponed` | `ClaimDrainPostponed.cfg` | README.md:78: a job waiting for its rate or concurrency limit is dead-lettered unrun when Shutdown closes the heap |
| `PoolClaims.DrainWaitsForWorkers` | `ClaimDrainWorkers.cfg` | README.md:78: the autoscaler spawns a worker after Shutdown has waited for the others |
| `PoolClaims.PriorityRunsFirst` | `ClaimPriority.cfg` | README.md:165: `fastq` is polled before the heap where priorities are |
| `PoolPause.PausedJobsWait` | `PoolPauseClaim.cfg` | README.md:71: a worker past the gate begins a job submitted after Pause |
| `PriorityQueue.EarlierJobWakes` | `ClaimEarlierJob.cfg` (module `MCPriorityQueue`) | README.md:180: the one token may wake a caller whose time is up, and the others sleep on |
| `ExecutionClaims.CounterNatural` | `ClaimMapRetried.cfg` | batch.go:20: a retried item calls `wg.Done` twice; the counter goes below zero, which panics |
| `Execution.MapEnds` | `ClaimMapCancelled.cfg` (module `ExecutionClaims`) | batch.go:20: an item that is cancelled before it runs never calls `wg.Done`; Map waits until its context ends |
| `Execution.MapEnds` | `ClaimGroupRefused.cfg` (module `ExecutionClaims`) | scheduler.go:77: `Group.Go` counts a job that Submit refuses; Wait never returns |
| `ExecutionClaims.KeyHeldByJob` | `ClaimKeyHeld.cfg` | pool.go:238: a job that is refused after its key was stored, or cancelled, keeps the key for ever |
| `ExecutionClaims.KeyExclusiveAlways` | `ClaimReplacedKey.cfg` | usability.go:499: the end of a replaced job frees the key of its replacement |
| `Execution.FutureTrue` | `ClaimLateDeadletter.cfg` (module `ExecutionClaims`) | pool.go:716: a letter without a future that is replayed and recycled before `deadletter` is done; it then completes the future of the next job |
| `Lifecycle.ReachesAll` | `ClaimLazyBus.cfg` (module `MCLifecycle`) | lifecycle.go:195: two goroutines make two buses, and one is lost |

Modelled but not counted as a finding: a bare job loses its callback, since
`useBasicFastPath` (pool.go:325) does not look at it; NoSlot burns the token that
the job has just used (pool.go's concurrency delay comes after the rate delay); a
job without a limit frees a slot of its key that it never took
(`keyedSemaphore.release`, whence `AllLimited`); a Backoff whose product exceeds a
Duration may be negative and pass the test of Max; two racing callers of Shutdown may both
close `scaleStop`, which panics (`spc = "panicked"`), and Shutdown stores
`stopped` over `terminated`.

## 7. Plan

1. Proofs: `FuturesTell` and `MapGathers` beyond the first replay, for letters
   that have a future or whose worker is done with them.
2. `JobLifecycle`: the abstract promise of a pool to one job (accepted, begun a
   bounded number of times, ended once, replayed only when dead), refined by
   `Pool`; the refinement proved from `OnePlace`.
3. Resize as actions of `Pool`; the mode of a rate limit changing under
   reservations; `CancelAll`; the value of a future.
