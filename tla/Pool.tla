-------------------------------- MODULE Pool --------------------------------
(***************************************************************************)
(* pool.go, dlq.go: a pool's state word, its three queues and the spill    *)
(* list, the goroutines that submit jobs, the workers that poll, run,      *)
(* retry and dead-letter them, and the goroutines that start, pause, stop, *)
(* terminate and scale the pool.  One action is one access to shared       *)
(* state: a load, store or compare-and-swap of an atomic, or one critical  *)
(* section of a mutex.  Everything between two accesses is local, so the   *)
(* interleavings of the actions are those of the goroutines.               *)
(*                                                                         *)
(* The two FIFOs are the atomic queues that FIFO.tla is shown to           *)
(* implement.  Time is not counted: a delayed job becomes ripe, a deadline *)
(* passes and a job's Run returns at any moment.                           *)
(***************************************************************************)
EXTENDS Integers, Sequences, FiniteSets, Functions

CONSTANTS
    BasicJobs,      \* jobs that pass useBasicFastPath: bare functions in basicq
    FastJobs,       \* jobs that pass useFastQueue: *queuedJob in fastq
    HeapJobs,       \* all other jobs (priority, delay): straight to the heap p.q
    Delayable,      \* jobs with a paused queue, rate limit or concurrency limit
    Cancellable,    \* jobs with a context of their own (future, ID, tracking)
    Workers,        \* names for worker goroutines, at least MaxWorkers of them
    Stoppers,       \* goroutines that call Shutdown, Stop or Drain
    NoJob,          \* a worker has no job in hand
    MinWorkers, MaxWorkers, QueueSize,  \* Config
    MaxAttempts,    \* JobOptions.MaxAttempts of every job
    Backpressure,   \* "block", "reject", "dropOldest" or "dropNewest"
    SubmitTimeout,  \* TRUE: Config.SubmitTimeout > 0
    Spillover,      \* TRUE: UseSpillover gave the pool a spillPath
    SpillMax,       \* spillMax; 0 is no limit
    AutoScale,      \* TRUE: Config.EnableAutoScale
    MaxReplays,     \* bound on the calls to ReplayDeadLetters
    MayPurge,       \* TRUE: PurgeDeadLetters may be called
    RacingStart,    \* TRUE: Start may run beside Shutdown and Terminate
    MayPause,       \* TRUE: Pause and Resume may be called
    MayTerminate,   \* TRUE: Terminate may be called
    MayGiveUp       \* TRUE: the context given to Shutdown may expire

Jobs == BasicJobs \cup FastJobs \cup HeapJobs

ASSUME JobsAssumption ==
    /\ BasicJobs \cap (FastJobs \cup HeapJobs) = {}
    /\ FastJobs \cap HeapJobs = {}
    /\ Delayable \subseteq FastJobs \cup HeapJobs
    /\ Cancellable \subseteq FastJobs \cup HeapJobs
    /\ NoJob \notin Jobs
\* What normalizeConfig makes of any Config, and the bounds of the model.
NormalConfig ==
    /\ MinWorkers \in Nat \ {0}
    /\ MaxWorkers \in Nat /\ MaxWorkers >= MinWorkers
    /\ IsFiniteSet(Workers) /\ Cardinality(Workers) >= MaxWorkers
    /\ QueueSize \in Nat \ {0}
    /\ MaxAttempts \in Nat \ {0}
    /\ SpillMax \in Nat
    /\ MaxReplays \in Nat
    /\ Backpressure \in {"block", "reject", "dropOldest", "dropNewest"}
    /\ \A b \in {SubmitTimeout, Spillover, AutoScale, MayPurge, RacingStart,
                 MayPause, MayTerminate, MayGiveUp} : b \in BOOLEAN
ASSUME ConfigAssumption == NormalConfig
ASSUME SpillAssumption == Spillover => BasicJobs = {}   \* useBasicFastPath

VARIABLES
    state,          \* p.state
    ctxDone,        \* p.cancel() has been called
    scaleClosed,    \* close(p.scaleStop) has been called
    fifoClosed,     \* basicq and fastq are closed (closeOnce)
    heapClosed,     \* p.q is closed
    basicq, fastq,  \* the two FIFOs
    spill,          \* p.spill
    heap,           \* the jobs in p.q
    delayed,        \* those among them whose runAt is still to come
    dlq,            \* p.dlq
    replay,         \* the items ReplayDeadLetters has still to push
    replays,        \* calls to ReplayDeadLetters so far
    replaypc,       \* the goroutine that makes them
    job,            \* where each job is, or how it ended
    late,           \* jobs accepted although the pool was stopping already
    attempt,        \* qj.attempt
    cancelled,      \* jobs whose own context is cancelled
    wpc, wjob,      \* each worker's place in its loop, and the job in its hands
    startpc,        \* the goroutine that calls Start
    toSpawn,        \* the workers it has still to spawn
    spc,            \* the goroutines that call Shutdown
    tpc,            \* the goroutine that calls Terminate
    scalepc         \* the autoscaler goroutine

queues  == <<basicq, fastq, spill, heap, delayed>>
letters == <<dlq, replay, replays, replaypc>>
closing == <<state, ctxDone, scaleClosed, fifoClosed, heapClosed>>
control == <<startpc, toSpawn, spc, tpc, scalepc>>
workers == <<wpc, wjob>>
vars == <<closing, queues, letters, job, late, attempt, cancelled, workers, control>>
-----------------------------------------------------------------------------
States   == {"new", "running", "paused", "stopping", "stopped", "terminated"}
Accepting == {"new", "running", "paused"}   \* State(p.state.Load()) < stateStopping

\* The places a job passes through and the ends it comes to.
Waiting  == {"basicq", "fastq", "spill", "heap"}
Finished == {"succeeded", "failed", "dead", "cancelled", "dropped", "purged"}
Places   == {"new", "pushing", "missed", "rejected", "worker", "replay"}
               \cup Waiting \cup Finished

\* Definitions named Bug... are not part of the specification: each is the
\* definition after it with one mistake, which a property must notice.

\* The polls of Pool.worker: which queue each looks at, and what follows a miss.
Polls == [basic |-> "basicq", fast |-> "fastq", spill |-> "spill", heap |-> "heap",
          idleBasic |-> "basicq", idleFast |-> "fastq",
          waitBasic |-> "basicq", lastFast |-> "fastq", lastHeap |-> "heap"]
BugHeapNotPolled ==
    [basic |-> "fast", fast |-> "spill", spill |-> "exit", heap |-> "exit",
     idleBasic |-> "idleFast", idleFast |-> "reapAgain",
     waitBasic |-> "lastFast", lastFast |-> "select", lastHeap |-> "select"]
AfterMiss == [basic |-> "fast", fast |-> "spill", spill |-> "heap", heap |-> "exit",
              idleBasic |-> "idleFast", idleFast |-> "reapAgain",
              waitBasic |-> "lastFast", lastFast |-> "lastHeap", lastHeap |-> "select"]

Holding   == {"got", "run", "retry", "retrySpin", "delay", "delaySpin"}
WorkerPCs == {"none", "top", "gate", "paused", "exit", "exitBasic", "exitFast",
              "exitHeap", "reap", "reapAgain", "select", "leaving"}
                \cup DOMAIN Polls \cup Holding

\* The steps of Shutdown, and how a call of it ends.
StopperPCs == {"idle", "refused", "store", "closeScale", "closeFifos", "closeHeap",
               "wait", "done", "gaveUp", "panicked"}

\* p.workers, and the wait group p.wg: the workers that have not returned.
Live == {w \in Workers : wpc[w] # "none"}

BugBusyWhilePolling == Live

\* p.c.busy: workers between busy.Add(1) and the return of execute.
Busy == {w \in Workers : wpc[w] \in {"run", "retry", "retrySpin"}}

\* What a poll of q can take: all of a list, the ripe jobs of the heap.
Ready(q) == CASE q = "basicq" -> Range(basicq)
              [] q = "fastq"  -> Range(fastq)
              [] q = "spill"  -> Range(spill)
              [] q = "heap"   -> heap \ delayed

BugRoomForOneMore == ~heapClosed /\ Cardinality(heap) <= QueueSize
HeapRoom  == ~heapClosed /\ Cardinality(heap) < QueueSize
FifoRoom(q) == ~fifoClosed /\ Len(q) < QueueSize
SpillRoom == Spillover /\ (SpillMax = 0 \/ Len(spill) < SpillMax)

\* Reject and DropNewest try once, and so does DropOldestPush; the other pushes
\* try again, those on a FIFO without a deadline by blocking in FIFO.Push.
TriesOnce(j) ==
    \/ Backpressure \in {"reject", "dropNewest"}
    \/ Backpressure = "dropOldest" /\ j \in HeapJobs
Blocks(j) == j \notin HeapJobs /\ ~TriesOnce(j) /\ ~SubmitTimeout
-----------------------------------------------------------------------------
Init ==
    /\ state = "new"
    /\ ctxDone = FALSE
    /\ scaleClosed = FALSE
    /\ fifoClosed = FALSE
    /\ heapClosed = FALSE
    /\ basicq = <<>>
    /\ fastq = <<>>
    /\ spill = <<>>
    /\ heap = {}
    /\ delayed = {}
    /\ dlq = <<>>
    /\ replay = <<>>
    /\ replays = 0
    /\ replaypc = "idle"
    /\ job = [j \in Jobs |-> "new"]
    /\ late = {}
    /\ attempt = [j \in Jobs |-> 0]
    /\ cancelled = {}
    /\ wpc = [w \in Workers |-> "none"]
    /\ wjob = [w \in Workers |-> NoJob]
    /\ startpc = "idle"
    /\ toSpawn = 0
    /\ spc = [s \in Stoppers |-> "idle"]
    /\ tpc = "idle"
    /\ scalepc = "off"
-----------------------------------------------------------------------------
(* Submit: the state is loaded once, the push comes later. *)

Place(j, where) == job' = [job EXCEPT ![j] = where]

SubmitCheck(j) ==
    /\ job[j] = "new"
    /\ Place(j, IF state \in Accepting THEN "pushing" ELSE "rejected")
    /\ UNCHANGED <<closing, queues, letters, late, attempt, cancelled, workers, control>>

\* p.c.accepted.Add(1); late remembers that Shutdown had begun by then.
Accepted(j) == late' = IF state \in Accepting THEN late ELSE late \cup {j}

PushBasic(j) ==
    /\ job[j] = "pushing" /\ j \in BasicJobs
    /\ FifoRoom(basicq)
    /\ basicq' = Append(basicq, j)
    /\ Place(j, "basicq")
    /\ Accepted(j)
    /\ UNCHANGED <<closing, fastq, spill, heap, delayed, letters, attempt,
                   cancelled, workers, control>>

PushFast(j) ==
    /\ job[j] = "pushing" /\ j \in FastJobs
    /\ FifoRoom(fastq)
    /\ fastq' = Append(fastq, j)
    /\ Place(j, "fastq")
    /\ Accepted(j)
    /\ UNCHANGED <<closing, basicq, spill, heap, delayed, letters, attempt,
                   cancelled, workers, control>>

PushHeap(j) ==
    /\ job[j] = "pushing" /\ j \in HeapJobs
    /\ HeapRoom
    /\ heap' = heap \cup {j}
    /\ delayed' = delayed \cup {j}
    /\ Place(j, "heap")
    /\ Accepted(j)
    /\ UNCHANGED <<closing, basicq, fastq, spill, letters, attempt, cancelled,
                   workers, control>>

\* DropOldestPush on a full heap discards its front: the earliest runAt, hence
\* a ripe job if there is one.
DropFront(j, victim) ==
    /\ job[j] = "pushing" /\ j \in HeapJobs
    /\ Backpressure = "dropOldest"
    /\ ~heapClosed /\ Cardinality(heap) >= QueueSize
    /\ victim \in IF heap \subseteq delayed THEN heap ELSE heap \ delayed
    /\ heap' = (heap \ {victim}) \cup {j}
    /\ delayed' = (delayed \ {victim}) \cup {j}
    /\ job' = [job EXCEPT ![j] = "heap", ![victim] = "dropped"]
    /\ Accepted(j)
    /\ UNCHANGED <<closing, basicq, fastq, spill, letters, attempt, cancelled,
                   workers, control>>

\* The queue of job j has no room for it now.
NoRoom(j) ==
    \/ j \in BasicJobs /\ ~FifoRoom(basicq)
    \/ j \in FastJobs  /\ ~FifoRoom(fastq)
    \/ j \in HeapJobs  /\ (heapClosed \/ (~HeapRoom /\ Backpressure # "dropOldest"))

\* A push that fails.  FIFO.Push fails on a closed queue only.
PushMisses(j) ==
    /\ job[j] = "pushing"
    /\ NoRoom(j)
    /\ Blocks(j) => fifoClosed
    /\ Place(j, "missed")
    /\ UNCHANGED <<closing, queues, letters, late, attempt, cancelled, workers, control>>

\* The loops of pushBasic, pushFast and pushBlock try again ...
TryAgain(j) ==
    /\ job[j] = "missed"
    /\ ~TriesOnce(j) /\ ~Blocks(j)
    /\ state \in Accepting
    /\ Place(j, "pushing")
    /\ UNCHANGED <<closing, queues, letters, late, attempt, cancelled, workers, control>>

BugPushGoesOn(j) == TriesOnce(j) \/ Blocks(j) \/ SubmitTimeout

\* ... until the deadline has passed or the pool is stopping.
PushOver(j) == TriesOnce(j) \/ Blocks(j) \/ SubmitTimeout \/ state \notin Accepting

\* trySpill, whatever the reason of the miss was.
SpillOver(j) ==
    /\ job[j] = "missed"
    /\ PushOver(j)
    /\ SpillRoom
    /\ spill' = Append(spill, j)
    /\ Place(j, "spill")
    /\ Accepted(j)
    /\ UNCHANGED <<closing, basicq, fastq, heap, delayed, letters, attempt,
                   cancelled, workers, control>>

Reject(j) ==
    /\ job[j] = "missed"
    /\ PushOver(j)
    /\ ~SpillRoom
    /\ Place(j, "rejected")
    /\ UNCHANGED <<closing, queues, letters, late, attempt, cancelled, workers, control>>

Submit(j) ==
    \/ PushBasic(j)
    \/ PushFast(j)
    \/ PushHeap(j)
    \/ \E victim \in heap : DropFront(j, victim)
    \/ PushMisses(j)
    \/ TryAgain(j)
    \/ SpillOver(j)
    \/ Reject(j)

\* The heap's clock: runAt of a waiting job arrives.
Elapse(j) ==
    /\ j \in delayed
    /\ delayed' = delayed \ {j}
    /\ UNCHANGED <<closing, basicq, fastq, spill, heap, letters, job, late,
                   attempt, cancelled, workers, control>>

\* future.Cancel or CancelJob: the job's own context is cancelled.
CancelJob(j) ==
    /\ j \in Cancellable \ cancelled
    /\ job[j] \in Waiting \cup {"worker", "dead"}
    /\ cancelled' = cancelled \cup {j}
    /\ UNCHANGED <<closing, queues, letters, job, late, attempt, workers, control>>
-----------------------------------------------------------------------------
(* Pool.worker: one turn of the loop, poll by poll. *)

Goto(w, pc) == wpc' = [wpc EXCEPT ![w] = pc] /\ UNCHANGED wjob

\* The checks at the head of the loop: terminated, then the pause gate, which
\* sleeps and looks again.
WorkerTop(w) ==
    /\ wpc[w] = "top"
    /\ Goto(w, IF state = "terminated" THEN "leaving" ELSE "gate")
    /\ UNCHANGED <<closing, queues, letters, job, late, attempt, cancelled, control>>

BugGateOpen(w) ==
    /\ wpc[w] = "gate"
    /\ Goto(w, "basic")
    /\ UNCHANGED <<closing, queues, letters, job, late, attempt, cancelled, control>>

WorkerGate(w) ==
    /\ wpc[w] = "gate"
    /\ Goto(w, IF state = "paused" THEN "paused" ELSE "basic")
    /\ UNCHANGED <<closing, queues, letters, job, late, attempt, cancelled, control>>

WorkerPaused(w) ==
    /\ wpc[w] = "paused"
    /\ Goto(w, IF ctxDone THEN "leaving" ELSE "gate")
    /\ UNCHANGED <<closing, queues, letters, job, late, attempt, cancelled, control>>

\* Worker w takes job j out of the queue it polls.
Take(w, j) ==
    /\ wpc' = [wpc EXCEPT ![w] = "got"]
    /\ wjob' = [wjob EXCEPT ![w] = j]
    /\ Place(j, "worker")
    /\ UNCHANGED <<closing, letters, late, attempt, cancelled, control>>

Polling(w, q) == wpc[w] \in DOMAIN Polls /\ Polls[wpc[w]] = q

PollBasic(w) ==
    /\ Polling(w, "basicq")
    /\ basicq # <<>>
    /\ basicq' = Tail(basicq)
    /\ Take(w, Head(basicq))
    /\ UNCHANGED <<fastq, spill, heap, delayed>>

PollFast(w) ==
    /\ Polling(w, "fastq")
    /\ fastq # <<>>
    /\ fastq' = Tail(fastq)
    /\ Take(w, Head(fastq))
    /\ UNCHANGED <<basicq, spill, heap, delayed>>

PollSpill(w) ==
    /\ Polling(w, "spill")
    /\ spill # <<>>
    /\ spill' = Tail(spill)
    /\ Take(w, Head(spill))
    /\ UNCHANGED <<basicq, fastq, heap, delayed>>

BugPeekHeap(w) ==
    /\ Polling(w, "heap")
    /\ \E j \in heap \ delayed : Take(w, j)
    /\ UNCHANGED queues

\* PriorityQueue.TryPop and PopTimeout: only a ripe job comes out.
PollHeap(w) ==
    /\ Polling(w, "heap")
    /\ \E j \in heap \ delayed :
          /\ heap' = heap \ {j}
          /\ Take(w, j)
    /\ UNCHANGED <<basicq, fastq, spill, delayed>>

PollMisses(w) ==
    /\ \E q \in Waiting : Polling(w, q) /\ Ready(q) = {}
    /\ Goto(w, AfterMiss[wpc[w]])
    /\ UNCHANGED <<closing, queues, letters, job, late, attempt, cancelled, control>>

\* The exit check: the state, then the lengths of the three queues.
ExitChecks == [exit |-> state = "stopping", exitBasic |-> basicq = <<>>,
               exitFast |-> fastq = <<>>, exitHeap |-> heap = {}]
BugHeapNotChecked == [exit |-> "exitBasic", exitBasic |-> "exitFast",
                      exitFast |-> "leaving", exitHeap |-> "leaving"]
AfterExitCheck == [exit |-> "exitBasic", exitBasic |-> "exitFast",
                   exitFast |-> "exitHeap", exitHeap |-> "leaving"]
WorkerExitCheck(w) ==
    /\ wpc[w] \in DOMAIN ExitChecks
    /\ Goto(w, IF ExitChecks[wpc[w]] THEN AfterExitCheck[wpc[w]] ELSE "reap")
    /\ UNCHANGED <<closing, queues, letters, job, late, attempt, cancelled, control>>

\* Idle reaping: the number of workers is read before the idle wait and again
\* after it, and the worker that returns is counted out later.
TooMany == Cardinality(Live) > MinWorkers
WorkerReap(w) ==
    /\ wpc[w] \in {"reap", "reapAgain"}
    /\ Goto(w, CASE wpc[w] = "reap" -> IF TooMany THEN "idleBasic" ELSE "waitBasic"
                 [] wpc[w] = "reapAgain" -> IF TooMany THEN "leaving" ELSE "top")
    /\ UNCHANGED <<closing, queues, letters, job, late, attempt, cancelled, control>>

\* The select at the end of the loop.  p.queueWake may be ready beside
\* p.ctx.Done(), so a worker may make one more turn after the cancellation.
WorkerSelect(w) ==
    /\ wpc[w] = "select"
    /\ \/ Goto(w, "top")
       \/ ctxDone /\ Goto(w, "leaving")
    /\ UNCHANGED <<closing, queues, letters, job, late, attempt, cancelled, control>>

\* The deferred workers.Add(-1) and wg.Done().
WorkerLeaves(w) ==
    /\ wpc[w] = "leaving"
    /\ Goto(w, "none")
    /\ UNCHANGED <<closing, queues, letters, job, late, attempt, cancelled, control>>
-----------------------------------------------------------------------------
(* executeBasic and execute: what a worker does with the job in its hands. *)

LetGo(w) ==
    /\ wpc' = [wpc EXCEPT ![w] = "top"]
    /\ wjob' = [wjob EXCEPT ![w] = NoJob]

\* The job ends for good, or is dead-lettered (deadletter appends to p.dlq).
Ends(w, how) ==
    /\ LetGo(w)
    /\ Place(wjob[w], how)
    /\ dlq' = IF how = "dead" THEN Append(dlq, wjob[w]) ELSE dlq
    /\ UNCHANGED <<closing, queues, replay, replays, replaypc, late, cancelled, control>>

CtxErr(j) == ctxDone \/ j \in cancelled     \* qj.ctx derives from p.ctx

\* A job whose context is done when it is dequeued is cancelled unrun;
\* executeBasic does not look at the context.
DropCancelled(w) ==
    /\ wpc[w] = "got"
    /\ wjob[w] \notin BasicJobs
    /\ CtxErr(wjob[w])
    /\ Ends(w, "cancelled")
    /\ UNCHANGED attempt

\* The job's queue may be paused (isQueuedPaused), its key may have no token yet
\* (delayForRateLimit, whatever it reserved before) or no free place (tryAcquire).
MayHaveToWait(j) == j \in Delayable

Postpone(w) ==
    /\ wpc[w] = "got"
    /\ MayHaveToWait(wjob[w])
    /\ ~CtxErr(wjob[w])
    /\ Goto(w, "delay")
    /\ UNCHANGED <<closing, queues, letters, job, late, attempt, cancelled, control>>

Begin(w) ==
    /\ wpc[w] = "got"
    /\ wjob[w] \in BasicJobs \/ ~CtxErr(wjob[w])
    /\ Goto(w, "run")
    /\ attempt' = [attempt EXCEPT ![wjob[w]] = @ + 1]
    /\ UNCHANGED <<closing, queues, letters, job, late, cancelled, control>>

\* Run returned nil; a job whose context was cancelled meanwhile has failed.
Succeed(w) ==
    /\ wpc[w] = "run"
    /\ wjob[w] \in BasicJobs \/ ~CtxErr(wjob[w])
    /\ Ends(w, "succeeded")
    /\ UNCHANGED attempt

BugOneTryMore(j) == attempt[j] <= MaxAttempts /\ state \in Accepting
MayRetry(j) == attempt[j] < MaxAttempts /\ state \in Accepting

\* Run returned an error, panicked or timed out.  A basic job is only counted;
\* another one is retried if it may be and the error is not permanent.
FailBasic(w) ==
    /\ wpc[w] = "run"
    /\ wjob[w] \in BasicJobs
    /\ Ends(w, "failed")
    /\ UNCHANGED attempt

FailRetry(w) ==
    /\ wpc[w] = "run"
    /\ wjob[w] \notin BasicJobs
    /\ MayRetry(wjob[w])
    /\ Goto(w, "retry")
    /\ UNCHANGED <<closing, queues, letters, job, late, attempt, cancelled, control>>

FailDead(w) ==
    /\ wpc[w] = "run"
    /\ wjob[w] \notin BasicJobs
    /\ Ends(w, "dead")
    /\ UNCHANGED attempt

\* requeue: pushBlock with the job's new runAt.
Requeue(w) ==
    /\ wpc[w] \in {"retry", "delay"}
    /\ HeapRoom
    /\ heap' = heap \cup {wjob[w]}
    /\ delayed' = delayed \cup {wjob[w]}
    /\ Place(wjob[w], "heap")
    /\ LetGo(w)
    /\ UNCHANGED <<closing, basicq, fastq, spill, letters, late, attempt,
                   cancelled, control>>

RequeueMisses(w) ==
    /\ wpc[w] \in {"retry", "delay"}
    /\ ~HeapRoom
    /\ Goto(w, IF wpc[w] = "retry" THEN "retrySpin" ELSE "delaySpin")
    /\ UNCHANGED <<closing, queues, letters, job, late, attempt, cancelled, control>>

RequeueAgain(w) ==
    /\ wpc[w] \in {"retrySpin", "delaySpin"}
    /\ state \in Accepting
    /\ Goto(w, IF wpc[w] = "retrySpin" THEN "retry" ELSE "delay")
    /\ UNCHANGED <<closing, queues, letters, job, late, attempt, cancelled, control>>

BugRequeueGoesOn(w) ==
    /\ wpc[w] \in {"retrySpin", "delaySpin"}
    /\ SubmitTimeout
    /\ Ends(w, "dead")
    /\ UNCHANGED attempt

\* The deadline has passed or the pool is stopping: deadletter(ErrQueueFull).
RequeueGivesUp(w) ==
    /\ wpc[w] \in {"retrySpin", "delaySpin"}
    /\ SubmitTimeout \/ state \notin Accepting
    /\ Ends(w, "dead")
    /\ UNCHANGED attempt

Execute(w) ==
    \/ DropCancelled(w)
    \/ Postpone(w)
    \/ Begin(w)
    \/ Succeed(w)
    \/ FailBasic(w)
    \/ FailRetry(w)
    \/ FailDead(w)
    \/ Requeue(w)
    \/ RequeueMisses(w)
    \/ RequeueAgain(w)
    \/ RequeueGivesUp(w)

Worker(w) ==
    \/ WorkerTop(w)
    \/ WorkerGate(w)
    \/ WorkerPaused(w)
    \/ PollBasic(w)
    \/ PollFast(w)
    \/ PollSpill(w)
    \/ PollHeap(w)
    \/ PollMisses(w)
    \/ WorkerExitCheck(w)
    \/ WorkerReap(w)
    \/ WorkerSelect(w)
    \/ WorkerLeaves(w)
    \/ Execute(w)
-----------------------------------------------------------------------------
(* The goroutines that control the pool. *)

Spawn(w) ==
    /\ wpc[w] = "none"
    /\ wpc' = [wpc EXCEPT ![w] = "top"]
    /\ UNCHANGED wjob

\* Start: compare-and-swap, then one spawnWorker after the other, then the
\* autoscaler.
Start ==
    /\ startpc = "idle"
    /\ RacingStart \/ (tpc = "idle" /\ \A s \in Stoppers : spc[s] = "idle")
    /\ state = "new"
    /\ state' = "running"
    /\ startpc' = "spawning"
    /\ toSpawn' = MinWorkers
    /\ UNCHANGED <<ctxDone, scaleClosed, fifoClosed, heapClosed, queues, letters, job,
                   late, attempt, cancelled, workers, spc, tpc, scalepc>>

BugStartSpawnsOneMore(w) ==
    /\ startpc = "spawning"
    /\ Spawn(w)
    /\ toSpawn' = toSpawn - 1
    /\ startpc' = IF toSpawn > 0 THEN "spawning" ELSE "done"
    /\ UNCHANGED <<closing, queues, letters, job, late, attempt, cancelled, spc, tpc, scalepc>>

StartSpawns(w) ==
    /\ startpc = "spawning"
    /\ Spawn(w)
    /\ toSpawn' = toSpawn - 1
    /\ IF toSpawn > 1
          THEN UNCHANGED <<startpc, scalepc>>
          ELSE /\ startpc' = "done"
               /\ scalepc' = IF AutoScale /\ MaxWorkers > MinWorkers THEN "wait" ELSE "off"
    /\ UNCHANGED <<closing, queues, letters, job, late, attempt, cancelled, spc, tpc>>

BugOneWorkerMore == heap # {} /\ Cardinality(Live) <= MaxWorkers
MoreWorkers ==
    Cardinality(heap) > Cardinality(Live) /\ Cardinality(Live) < MaxWorkers

\* One tick of the autoscaler decides on a state, a depth and a number of
\* workers it has read, and spawns afterwards.  The three reads are one step: only
\* the spawn uses what may be old by then.
ScaleTick ==
    /\ scalepc = "wait"
    /\ state = "running"
    /\ MoreWorkers
    /\ scalepc' = "spawn"
    /\ UNCHANGED <<closing, queues, letters, job, late, attempt, cancelled, workers,
                   startpc, toSpawn, spc, tpc>>

ScaleSpawns(w) ==
    /\ scalepc = "spawn"
    /\ Spawn(w)
    /\ scalepc' = "wait"
    /\ UNCHANGED <<closing, queues, letters, job, late, attempt, cancelled,
                   startpc, toSpawn, spc, tpc>>

ScaleStops ==
    /\ scalepc = "wait"
    /\ scaleClosed \/ ctxDone
    /\ scalepc' = "off"
    /\ UNCHANGED <<closing, queues, letters, job, late, attempt, cancelled, workers,
                   startpc, toSpawn, spc, tpc>>

Pause ==
    /\ MayPause
    /\ state = "running"
    /\ state' = "paused"
    /\ UNCHANGED <<ctxDone, scaleClosed, fifoClosed, heapClosed, queues, letters, job,
                   late, attempt, cancelled, workers, control>>

BugResumeStores ==
    /\ state \notin {"new", "terminated"}
    /\ state' = "running"
    /\ UNCHANGED <<ctxDone, scaleClosed, fifoClosed, heapClosed, queues, letters, job,
                   late, attempt, cancelled, workers, control>>

Resume ==
    /\ state = "paused"
    /\ state' = "running"
    /\ UNCHANGED <<ctxDone, scaleClosed, fifoClosed, heapClosed, queues, letters, job,
                   late, attempt, cancelled, workers, control>>

Stopper(s, from, to) ==
    /\ spc[s] = from
    /\ spc' = [spc EXCEPT ![s] = to]
    /\ UNCHANGED <<queues, letters, job, late, attempt, cancelled, workers,
                   startpc, toSpawn, tpc, scalepc>>

\* Shutdown loads the state; only the caller that finds the pool not yet
\* stopping closes anything.
ShutdownLoads(s) ==
    /\ RacingStart \/ startpc # "spawning"
    /\ Stopper(s, "idle", CASE state = "terminated" -> "refused"
                            [] state \in Accepting -> "store"
                            [] OTHER -> "wait")
    /\ UNCHANGED closing

ShutdownStores(s) ==
    /\ Stopper(s, "store", "closeScale")
    /\ state' = "stopping"
    /\ UNCHANGED <<ctxDone, scaleClosed, fifoClosed, heapClosed>>

\* Closing a closed channel panics.
ShutdownClosesScale(s) ==
    /\ Stopper(s, "closeScale", IF scaleClosed THEN "panicked" ELSE "closeFifos")
    /\ scaleClosed' = TRUE
    /\ UNCHANGED <<state, ctxDone, fifoClosed, heapClosed>>

ShutdownClosesFifos(s) ==
    /\ Stopper(s, "closeFifos", "closeHeap")
    /\ fifoClosed' = TRUE
    /\ UNCHANGED <<state, ctxDone, scaleClosed, heapClosed>>

ShutdownClosesHeap(s) ==
    /\ Stopper(s, "closeHeap", "wait")
    /\ heapClosed' = TRUE
    /\ UNCHANGED <<state, ctxDone, scaleClosed, fifoClosed>>

BugShutdownNoCancel(s) ==
    /\ Stopper(s, "wait", "done")
    /\ Live = {}
    /\ state' = "stopped"
    /\ UNCHANGED <<ctxDone, scaleClosed, fifoClosed, heapClosed>>

\* p.wg.Wait() has returned: store stopped whatever the state is, then cancel.
\* One step for three: what is left out is that a worker spawned after the wait may
\* begin a job before the cancellation, which no property here tells apart.
ShutdownReturns(s) ==
    /\ Stopper(s, "wait", "done")
    /\ Live = {}
    /\ state' = "stopped"
    /\ ctxDone' = TRUE
    /\ UNCHANGED <<scaleClosed, fifoClosed, heapClosed>>

ShutdownGivesUp(s) ==
    /\ MayGiveUp
    /\ Stopper(s, "wait", "gaveUp")
    /\ UNCHANGED closing

Shutdown(s) ==
    \/ ShutdownStores(s)
    \/ ShutdownClosesScale(s)
    \/ ShutdownClosesFifos(s)
    \/ ShutdownClosesHeap(s)
    \/ ShutdownReturns(s)

Terminator(from, to) ==
    /\ tpc = from
    /\ tpc' = to
    /\ UNCHANGED <<scaleClosed, queues, letters, job, late, attempt, cancelled, workers,
                   startpc, toSpawn, spc, scalepc>>

\* Terminate swaps the state, cancels the context, closes the queues.
TerminateSwaps ==
    /\ MayTerminate
    /\ RacingStart \/ startpc # "spawning"
    /\ Terminator("idle", "cancel")
    /\ state' = "terminated"
    /\ UNCHANGED <<ctxDone, fifoClosed, heapClosed>>

TerminateCancels ==
    /\ Terminator("cancel", "closeFifos")
    /\ ctxDone' = TRUE
    /\ UNCHANGED <<state, fifoClosed, heapClosed>>

TerminateClosesFifos ==
    /\ Terminator("closeFifos", "closeHeap")
    /\ fifoClosed' = TRUE
    /\ UNCHANGED <<state, ctxDone, heapClosed>>

TerminateClosesHeap ==
    /\ Terminator("closeHeap", "done")
    /\ heapClosed' = TRUE
    /\ UNCHANGED <<state, ctxDone, fifoClosed>>

Terminate == TerminateCancels \/ TerminateClosesFifos \/ TerminateClosesHeap

\* ReplayDeadLetters: load the state, later take the letters out of the DLQ,
\* then push them one by one.
ReplayCalls ==
    /\ replays < MaxReplays
    /\ replaypc = "idle"
    /\ state \in Accepting
    /\ replaypc' = "take"
    /\ replays' = replays + 1
    /\ UNCHANGED <<closing, queues, dlq, replay, job, late, attempt, cancelled, workers,
                   control>>

ReplayTakes ==
    /\ replaypc = "take"
    /\ replaypc' = IF dlq = <<>> THEN "idle" ELSE "push"
    /\ replay' = dlq
    /\ dlq' = <<>>
    /\ job' = [j \in Jobs |-> IF j \in Range(dlq) THEN "replay" ELSE job[j]]
    /\ UNCHANGED <<closing, queues, replays, late, attempt, cancelled, workers, control>>

ReplayPushes ==
    /\ replaypc = "push"
    /\ replaypc' = IF Tail(replay) = <<>> THEN "idle" ELSE "push"
    /\ replay' = Tail(replay)
    /\ attempt' = [attempt EXCEPT ![Head(replay)] = 0]
    /\ IF HeapRoom
          THEN /\ heap' = heap \cup {Head(replay)}
               /\ Place(Head(replay), "heap")
               /\ Accepted(Head(replay))
               /\ UNCHANGED dlq
          ELSE /\ dlq' = Append(dlq, Head(replay))
               /\ Place(Head(replay), "dead")
               /\ UNCHANGED <<heap, late>>
    /\ UNCHANGED <<closing, basicq, fastq, spill, delayed, replays, cancelled, workers,
                   control>>

Replay == ReplayTakes \/ ReplayPushes

Purge ==
    /\ MayPurge
    /\ dlq # <<>>
    /\ dlq' = <<>>
    /\ job' = [j \in Jobs |-> IF j \in Range(dlq) THEN "purged" ELSE job[j]]
    /\ UNCHANGED <<closing, queues, replay, replays, replaypc, late, attempt, cancelled,
                   workers, control>>
-----------------------------------------------------------------------------
Next ==
    \/ \E j \in Jobs : SubmitCheck(j) \/ Submit(j) \/ Elapse(j) \/ CancelJob(j)
    \/ \E w \in Workers : Worker(w) \/ StartSpawns(w) \/ ScaleSpawns(w)
    \/ \E s \in Stoppers : ShutdownLoads(s) \/ Shutdown(s) \/ ShutdownGivesUp(s)
    \/ Start
    \/ ScaleTick
    \/ ScaleStops
    \/ Pause
    \/ Resume
    \/ TerminateSwaps
    \/ Terminate
    \/ ReplayCalls
    \/ Replay
    \/ Purge

Spec == Init /\ [][Next]_vars

\* Goroutines are scheduled, timers fire and a job's Run returns.  Nobody is
\* obliged to submit, cancel, pause, resume, replay, start or stop.  A select
\* with p.ctx.Done() among its ready cases takes it some time: Go chooses
\* between them at random, and the tokens of p.queueWake come to an end.
Autoscaler == ScaleStops \/ \E w \in Workers : ScaleSpawns(w)
Fairness ==
    /\ \A j \in Jobs : WF_vars(Submit(j)) /\ WF_vars(Elapse(j))
    /\ \A w \in Workers : WF_vars(Worker(w)) /\ SF_vars(WorkerSelect(w) /\ wpc'[w] = "leaving")
    /\ \A s \in Stoppers : WF_vars(Shutdown(s))
    /\ WF_vars(\E w \in Workers : StartSpawns(w))
    /\ WF_vars(Autoscaler)
    /\ WF_vars(Terminate)
    /\ WF_vars(Replay)

FairSpec == Spec /\ Fairness
-----------------------------------------------------------------------------
\* Every variable has its type.
TypeOK ==
    /\ state \in States
    /\ ctxDone \in BOOLEAN /\ scaleClosed \in BOOLEAN
    /\ fifoClosed \in BOOLEAN /\ heapClosed \in BOOLEAN
    /\ basicq \in Seq(Jobs) /\ fastq \in Seq(Jobs) /\ spill \in Seq(Jobs)
    /\ dlq \in Seq(Jobs) /\ replay \in Seq(Jobs)
    /\ heap \subseteq Jobs /\ delayed \subseteq Jobs
    /\ late \subseteq Jobs /\ cancelled \subseteq Jobs
    /\ replays \in 0..MaxReplays
    /\ replaypc \in {"idle", "take", "push"}
    /\ job \in [Jobs -> Places]
    /\ attempt \in [Jobs -> Nat]
    /\ wpc \in [Workers -> WorkerPCs]
    /\ wjob \in [Workers -> Jobs \cup {NoJob}]
    /\ startpc \in {"idle", "spawning", "done"}
    /\ toSpawn \in 0..MinWorkers
    /\ startpc = "spawning" <=> toSpawn > 0
    /\ spc \in [Stoppers -> StopperPCs]
    /\ tpc \in {"idle", "cancel", "closeFifos", "closeHeap", "done"}
    /\ scalepc \in {"off", "wait", "spawn"}

\* The jobs of a list are those said to be in it, each once.
Lists(q, where) == IsInjective(q) /\ Range(q) = {j \in Jobs : job[j] = where}

Listed ==
    /\ Lists(basicq, "basicq")
    /\ Lists(fastq, "fastq")
    /\ Lists(spill, "spill")
    /\ Lists(dlq, "dead")
    /\ Lists(replay, "replay")
    /\ replaypc = "push" <=> replay # <<>>
    /\ heap = {j \in Jobs : job[j] = "heap"}
    /\ delayed \subseteq heap

InHands ==
    /\ \A w \in Workers : wjob[w] # NoJob <=> wpc[w] \in Holding
    /\ \A w \in Workers : wjob[w] # NoJob => job[wjob[w]] = "worker"
    /\ \A j \in Jobs : job[j] = "worker" => \E w \in Workers : wjob[w] = j
    /\ \A v, w \in Workers : wjob[v] = wjob[w] /\ wjob[v] # NoJob => v = w

\* Every accepted job is in exactly one place until it ends: one of the
\* queues, the hands of one worker, the DLQ or a replay of it.  So no job is
\* lost, run by two workers or run again after its end, whatever queue it
\* came through and however often it was retried, spilled or replayed.
OnePlace == Listed /\ InHands

\* No job is begun more than MaxAttempts times between its submission (or its
\* last replay) and its end: whatever still waits, or is held back in a
\* worker's hands, has an attempt left.
AttemptsBounded ==
    /\ \A j \in Jobs : attempt[j] <= MaxAttempts
    /\ \A j \in Jobs : job[j] \in {"new", "pushing", "missed"} \cup Waiting
                          => attempt[j] < MaxAttempts
    /\ \A w \in Workers : wpc[w] \in Holding \ {"run"}
                          => attempt[wjob[w]] < MaxAttempts

\* The queues keep to QueueSize and the spill list to its own limit, although
\* retries, delays and replays push into the heap beside the submitters.
QueuesBounded ==
    /\ Len(basicq) <= QueueSize
    /\ Len(fastq) <= QueueSize
    /\ Cardinality(heap) <= QueueSize
    /\ Spillover /\ SpillMax > 0 => Len(spill) <= SpillMax

\* The autoscaler spawns on a number of workers read earlier, and still never
\* exceeds MaxWorkers, as nobody else spawns meanwhile.
WorkersBounded == Cardinality(Live) <= MaxWorkers

\* When Shutdown returns on a started pool, every job accepted before it stored stopping has
\* ended, the retried and delayed ones too: a worker leaves only when nothing
\* is left, and one that still holds a job comes back for it.
DrainComplete ==
    (\E s \in Stoppers : spc[s] = "done") /\ startpc = "done" /\ tpc = "idle"
        => \A j \in Jobs : job[j] \in Waiting \cup {"worker"} => j \in late
-----------------------------------------------------------------------------
\* Once the pool has begun to stop or terminate it never accepts again,
\* whatever Start, Pause, Resume and Shutdown are doing at that time.
StopIsFinal == [][state \notin Accepting => state' \notin Accepting]_state

\* A job that has ended stays as it ended, except that ReplayDeadLetters may
\* revive a dead-lettered one and PurgeDeadLetters forget it.
EndIsFinal ==
    [][\A j \in Jobs : job[j] \in Finished /\ job'[j] # job[j]
                          => job[j] = "dead" /\ job'[j] \in {"replay", "purged"}]_job

\* Shutdown returns once it has begun, if the jobs do: closing the queues and
\* storing stopping frees every worker, the paused and the requeueing ones too.
ShutdownEnds ==
    \A s \in Stoppers : spc[s] = "store" ~> spc[s] \in {"done", "gaveUp", "panicked"}

\* A stopped pool is left by all workers for good.  Start and the autoscaler, which
\* tested the state before, may spawn one after Shutdown has waited for those
\* there were; the exit check does not let such a worker go, as it asks for
\* "stopping", and only the cancelled context ends its loop.
StoppedEmpties == state = "stopped" ~> [](Live = {})

\* Nobody stays blocked in Submit after Shutdown or Terminate.
SubmitEnds ==
    \A j \in Jobs : heapClosed /\ job[j] \in {"pushing", "missed"}
                        ~> job[j] \notin {"pushing", "missed"}

\* After Terminate all workers return, if the jobs do.
TerminateEnds == tpc = "cancel" ~> Live = {}

\* On a running pool every accepted job comes to an end.
AcceptedEnds ==
    \A j \in Jobs : (job[j] \in Waiting /\ startpc = "done")
                        ~> (job[j] \in Finished \/ state # "running")
=============================================================================
