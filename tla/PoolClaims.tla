----------------------------- MODULE PoolClaims -----------------------------
(***************************************************************************)
(* What the documentation says of a pool and the code does not keep: each  *)
(* is the property of a run whose counterexample is a behaviour of pool.go.*)
(***************************************************************************)
EXTENDS MCPool

Drained == (\E s \in Stoppers : spc[s] = "done") /\ startpc = "done"

\* "Drain [...] waits for all accepted jobs to finish": a caller of Submit
\* that was told its job is accepted finds it run when Drain has returned.
DrainFinishesAccepted == Drained => \A j \in Jobs : job[j] \notin Waiting

\* "Graceful stop/drain [...] drains accepted jobs", the spilled ones too.
DrainFinishesSpilled == Drained => \A j \in Jobs : job[j] = "spill" => j \in late

\* "Graceful stop/drain [...] drains accepted jobs": a job that waits for its
\* rate or concurrency limit is run, not dead-lettered without an attempt.
DrainRunsPostponed ==
    Drained => \A j \in Jobs : job[j] = "dead" => attempt[j] > 0

\* "Graceful stop/drain [...] waits for workers": none is left, or comes, once
\* Drain has returned.
DrainWaitsForWorkers == Drained => Live = {}

\* "Idle worker reaping down to MinWorkers".
ReapingStopsAtMin ==
    startpc = "done" /\ state = "running" => Cardinality(Live) >= MinWorkers

\* "Higher priority runs first when jobs are ready at the same time": no worker
\* takes a job of normal priority (FastJobs) while one of high priority (here,
\* HeapJobs) is ready.
PriorityRunsFirst ==
    [][\A j \in FastJobs : job[j] = "fastq" /\ job'[j] = "worker"
                              => (heap \ delayed) \cap HeapJobs = {}]_vars
=============================================================================
