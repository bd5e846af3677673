----------------------------- MODULE PoolPause ------------------------------
(***************************************************************************)
(* Pool with the history that says what Pause promises: the jobs accepted  *)
(* while the pool is paused, and how many jobs each worker has begun since *)
(* it was paused.                                                          *)
(***************************************************************************)
EXTENDS Pool, TLC

VARIABLES
    quiet,      \* jobs accepted since the pool was paused
    begun       \* how many jobs each worker has begun since then

pauseVars == <<vars, quiet, begun>>

PauseInit ==
    /\ Init
    /\ quiet = {}
    /\ begun = [w \in Workers |-> 0]

StillPaused == state = "paused" /\ state' = "paused"

\* Every step of the pool, with the history carried along.
PauseNext ==
    /\ Next
    /\ quiet' = IF StillPaused
                   THEN quiet \cup {j \in Jobs : job[j] = "pushing" /\ job'[j] \in Waiting}
                   ELSE {}
    /\ begun' = [w \in Workers |->
                    CASE ~StillPaused -> 0
                      [] StillPaused /\ wpc[w] = "got" /\ wpc'[w] = "run" -> begun[w] + 1
                      [] OTHER -> begun[w]]

PauseSpec == PauseInit /\ [][PauseNext]_pauseVars

Symmetry == Permutations(Workers) \cup Permutations(BasicJobs)

\* Pause lets a worker begin at most the one job it was already reaching for
\* when the state changed: having run it, the worker meets the pause gate at
\* the head of its loop, whatever Resume and Pause did in between.
PauseBounds == \A w \in Workers : begun[w] <= 1

\* "Pause prevents workers from starting more queued jobs while still
\* accepting submissions": a job submitted to a paused pool does not run
\* before Resume.
PausedJobsWait ==
    state = "paused" => \A w \in Workers : wpc[w] = "run" => wjob[w] \notin quiet
=============================================================================
