----------------------------- MODULE Execution ------------------------------
(***************************************************************************)
(* pool.go submit, execute, deadletter and releaseJob, with inspect.go,    *)
(* future.go, batch.go and the idempotency helpers of usability.go: what   *)
(* becomes of one job besides its place in a queue.  A submission takes a  *)
(* *queuedJob from jobPool, an object that other goroutines reach through  *)
(* p.jobs and p.dlq and that releaseJob may hand to the next submission    *)
(* while they still hold the pointer.                                      *)
(*                                                                         *)
(* The queues, the workers' loops, what postpones a job and the states of  *)
(* the pool are Pool.tla's; here a queue is a set, a push may fail and a   *)
(* job may be postponed at any poll.  One action is one access to something*)
(* shared; the fields of an object count as shared from the moment another *)
(* goroutine can reach it.                                                 *)
(***************************************************************************)
EXTENDS Options, Sequences, TLC

CONSTANTS
    Jobs,           \* calls to Submit, SubmitResult, Once, Replace or Map
    Workers,
    Cancellers,     \* goroutines that cancel one job each
    None,           \* no object, no job
    Configs,        \* what New may make of a Config and its Options
    Loads,          \* the sets of calls of which one is made
    AutoID,         \* the ID that submit makes up for each job
    Raw,            \* the JobOptions of each call
    HasFuture,      \* the jobs of SubmitResult
    Replacing,      \* the jobs of Replace; those with a key otherwise of Once
    MapJobs,        \* the jobs of one call to Map, or of one Group
    DoneOnRefusal,  \* TRUE for Map; Group.Go leaves a refused job counted
    Failing,        \* the jobs whose function may return an error
    Refusable,      \* the jobs that may meet a full queue or an empty bucket
    Delayable,      \* the jobs that a pause of their queue or a limit may postpone
    CancelIDs,      \* the IDs that CancelJob is called with
    MaxReplays,     \* bound on the calls to ReplayDeadLetters
    MaxObjs         \* bound on the objects jobPool makes

\* What applyDefaults makes of each call's options.
Merged == [j \in Jobs |-> applyDefaults(Raw[j], ZeroOptions, <<>>, {})]
Applied(j) == Merged[j]
Key(j) == Applied(j).idempotencyKey
IDs    == {Raw[j].id : j \in Jobs} \cup {AutoID[j] : j \in Jobs}
Objs   == 1..MaxObjs

ASSUME ExecutionAssumption ==
    /\ None \notin Jobs /\ None \notin Objs /\ Jobs \cap Objs = {}
    /\ MaxReplays \in Nat /\ MaxObjs \in Nat
    /\ Replacing \subseteq {j \in Jobs : Key(j) # ""}
    /\ HasFuture \subseteq Jobs /\ MapJobs \subseteq Jobs \ HasFuture
    /\ IsFiniteSet(MapJobs)
    /\ Loads \subseteq SUBSET Jobs
    /\ CancelIDs \subseteq IDs
    \* normalizeConfig and SetDefaults leave no DefaultMaxAttempts below 1.
    /\ \A c \in Configs, j \in Jobs : Submitted(c, Applied(j), AutoID[j]).attempts \in Nat \ {0}

VARIABLES
    cfg,        \* p.cfg
    jpc,        \* each submission: its place in submit
    obj,        \* the object it filled
    fresh,      \* objects made so far
    pooled,     \* objects put back into jobPool
    owner,      \* whose data an object holds, None after *qj = queuedJob{}
    word,       \* qj.state
    attempt,    \* qj.attempt
    queued,     \* objects in one of the queues
    bare,       \* jobs in basicq, which are functions and not objects
    index,      \* p.jobs: ID to object
    keys,       \* p.idemp
    ctx,        \* jobs whose context is cancelled
    fut,        \* each future
    dlq, replay, replays,   \* p.dlq, the letters being replayed, the calls so far
    wpc, wobj,  \* workers and the object, or the bare job, in hand
    cpc, cobj, cid,     \* cancellers, the pointer they loaded, the ID asked for
    pending,    \* wg's counter in Map
    mpc,        \* the goroutine in Map: "submitting", "waiting" or "returned"
    ends,       \* history: the ends each job has come to
    returned,   \* history: jobs whose function has returned
    asked,      \* history: jobs whose ID or whose future was asked to cancel
    loose       \* history: keys that Replace took away from a job

submission == <<jpc, obj, fresh, pooled>>
object   == <<owner, word, attempt>>
letters  == <<dlq, replay, replays>>
workers  == <<wpc, wobj>>
cancel   == <<cpc, cobj, cid, asked>>
batch    == <<pending, mpc>>
history  == <<ends, returned, loose>>
vars == <<cfg, submission, object, queued, bare, index, keys, ctx, fut, letters,
          workers, cancel, batch, history>>

Opt(j) == Submitted(cfg, Applied(j), AutoID[j])
ID(j)  == Opt(j).id
Basic(j) == useBasicFastPath(cfg, TRUE, j \in HasFuture, Opt(j))
Tracked(j) == cfg.tracking /\ ID(j) # ""

Init ==
    /\ cfg \in Configs
    /\ \E load \in Loads :
          /\ jpc = [j \in Jobs |-> IF j \in load THEN "new" ELSE "absent"]
          /\ mpc = IF load \cap MapJobs = {} THEN "returned" ELSE "submitting"
    /\ obj = [j \in Jobs |-> None]
    /\ fresh = 0 /\ pooled = {}
    /\ owner = [o \in Objs |-> None]
    /\ word = [o \in Objs |-> "queued"]
    /\ attempt = [o \in Objs |-> 0]
    /\ queued = {} /\ bare = {}
    /\ index = [i \in IDs |-> None]
    /\ keys = {}
    /\ ctx = {}
    /\ fut = [j \in Jobs |-> IF j \in HasFuture THEN "pending" ELSE "none"]
    /\ dlq = {} /\ replay = {} /\ replays = 0
    /\ wpc = [w \in Workers |-> "idle"]
    /\ wobj = [w \in Workers |-> None]
    /\ cpc = [c \in Cancellers |-> "idle"]
    /\ cobj = [c \in Cancellers |-> None]
    /\ cid = [c \in Cancellers |-> None]
    /\ asked = {}
    /\ pending = 0
    /\ ends = [j \in Jobs |-> {}]
    /\ returned = {}
    /\ loose = {}
-----------------------------------------------------------------------------
(* What the steps below do to shared state. *)

\* futureAny.complete on the future of an object's present owner: once.
Completed(j, how) == IF j # None /\ fut[j] = "pending" THEN [fut EXCEPT ![j] = how] ELSE fut
Owner(w) == owner[wobj[w]]

\* p.jobs.Delete(qj.opts.ID).
BugUnindexed(o) == index
Unindexed(o) ==
    IF owner[o] # None /\ Tracked(owner[o]) THEN [index EXCEPT ![ID(owner[o])] = None]
                                           ELSE index

\* p.idemp.Delete(qj.opts.IdempotencyKey).
KeyFreed(o) == IF owner[o] = None THEN keys ELSE keys \ {Key(owner[o])}

\* releaseJob: an object with a future, or in the DLQ, is not recycled.
Recycled(o) == owner[o] # None => owner[o] \notin HasFuture /\ word[o] # "dead"
Released(o) ==
    IF Recycled(o)
    THEN /\ owner' = [owner EXCEPT ![o] = None]
         /\ word' = [word EXCEPT ![o] = "queued"]
         /\ attempt' = [attempt EXCEPT ![o] = 0]
         /\ pooled' = pooled \cup {o}
    ELSE UNCHANGED <<object, pooled>>

Ends(j, how) == ends' = IF j = None THEN ends ELSE [ends EXCEPT ![j] = @ \cup {how}]

At(j, where) == jpc' = [jpc EXCEPT ![j] = where]
Goto(w, where) == wpc' = [wpc EXCEPT ![w] = where] /\ UNCHANGED wobj
LetGo(w) == wpc' = [wpc EXCEPT ![w] = "idle"] /\ wobj' = [wobj EXCEPT ![w] = None]
-----------------------------------------------------------------------------
(* Submission.  Map submits its jobs one after the other. *)

Refused(j) == jpc[j] \in {"refused", "duplicate"}
Over(j) == jpc[j] \in {"accepted", "absent"} \/ Refused(j)
Turn(j) == j \in MapJobs => \A k \in MapJobs : jpc[k] = "new" \/ Over(k)

BugRefuse(j, how) == At(j, how) /\ UNCHANGED pending
Refuse(j, how) ==
    /\ At(j, how)
    /\ pending' = IF j \in MapJobs /\ DoneOnRefusal THEN pending - 1 ELSE pending

\* wg.Add(1).
BugAdd(j) == UNCHANGED pending
Add(j) == pending' = IF j \in MapJobs THEN pending + 1 ELSE pending

\* Map's wg.Add(1), then Submit as far as the choice of the path; Replace begins
\* with p.idemp.Delete(key).
Begin(j) ==
    /\ jpc[j] = "new" /\ Turn(j)
    /\ At(j, IF Basic(j) THEN "bare" ELSE IF Key(j) = "" THEN "rate" ELSE "key")
    /\ Add(j)
    /\ keys' = IF j \in Replacing THEN keys \ {Key(j)} ELSE keys
    /\ loose' = IF j \in Replacing THEN loose \cup {Key(j)} ELSE loose
    /\ UNCHANGED <<cfg, obj, fresh, pooled, object, queued, bare, index, ctx, fut, letters,
                   workers, cancel, mpc, ends, returned>>

\* pushBasic.
PushBare(j) ==
    /\ jpc[j] = "bare"
    /\ \/ At(j, "accepted") /\ bare' = bare \cup {j} /\ UNCHANGED pending
       \/ j \in Refusable /\ Refuse(j, "refused") /\ UNCHANGED bare
    /\ UNCHANGED <<cfg, obj, fresh, pooled, object, queued, index, keys, ctx, fut, letters,
                   workers, cancel, mpc, history>>

\* p.idemp.LoadOrStore.
BugTakeKey(j) ==
    /\ jpc[j] = "key"
    /\ keys' = keys \cup {Key(j)}
    /\ At(j, "rate") /\ UNCHANGED pending
    /\ UNCHANGED <<cfg, obj, fresh, pooled, object, queued, bare, index, ctx, fut, letters,
                   workers, cancel, mpc, history>>
TakeKey(j) ==
    /\ jpc[j] = "key"
    /\ keys' = keys \cup {Key(j)}
    /\ IF Key(j) \in keys THEN Refuse(j, "duplicate") ELSE At(j, "rate") /\ UNCHANGED pending
    /\ UNCHANGED <<cfg, obj, fresh, pooled, object, queued, bare, index, ctx, fut, letters,
                   workers, cancel, mpc, history>>

\* admitRate says no: the idempotency key stays where it is.
RateRefuses(j) ==
    /\ jpc[j] = "rate" /\ j \in Refusable
    /\ Refuse(j, "refused")
    /\ UNCHANGED <<cfg, obj, fresh, pooled, object, queued, bare, index, keys, ctx, fut, letters,
                   workers, cancel, mpc, history>>

\* jobPool.Get gives a recycled object or makes one; it is filled, and a
\* tracked job entered in p.jobs.
Fill(j, o) ==
    /\ jpc[j] = "rate"
    /\ o \in pooled \/ (o = fresh + 1 /\ o \in Objs)
    /\ pooled' = pooled \ {o}
    /\ fresh' = IF o \in pooled THEN fresh ELSE o
    /\ obj' = [obj EXCEPT ![j] = o]
    /\ owner' = [owner EXCEPT ![o] = j]
    /\ word' = [word EXCEPT ![o] = "queued"]
    /\ attempt' = [attempt EXCEPT ![o] = 0]
    /\ index' = IF Tracked(j) THEN [index EXCEPT ![ID(j)] = o] ELSE index
    /\ At(j, "push")
    /\ UNCHANGED <<cfg, queued, bare, keys, ctx, fut, letters, workers, cancel, batch, history>>

\* One of the pushes, or trySpill.
Push(j) ==
    /\ jpc[j] = "push"
    /\ queued' = queued \cup {obj[j]}
    /\ At(j, "accepted")
    /\ UNCHANGED <<cfg, obj, fresh, pooled, object, bare, index, keys, ctx, fut, letters,
                   workers, cancel, batch, history>>

\* ErrQueueFull: out of the index, the future fails, the object goes back.
PushFails(j) ==
    /\ jpc[j] = "push" /\ j \in Refusable
    /\ index' = Unindexed(obj[j])
    /\ Ends(j, "refused")
    /\ At(j, "failing")
    /\ UNCHANGED <<cfg, obj, fresh, pooled, object, queued, bare, keys, ctx, fut, letters,
                   workers, cancel, batch, returned, loose>>

PushFailed(j) ==
    /\ jpc[j] = "failing"
    /\ fut' = Completed(owner[obj[j]], "failed")
    /\ Released(obj[j])
    /\ Refuse(j, "refused")
    /\ UNCHANGED <<cfg, obj, fresh, queued, bare, index, keys, ctx, letters, workers, cancel,
                   mpc, history>>

Submit(j) ==
    \/ Begin(j)
    \/ PushBare(j)
    \/ TakeKey(j)
    \/ RateRefuses(j)
    \/ \E o \in Objs : Fill(j, o)
    \/ Push(j)
    \/ PushFails(j)
    \/ PushFailed(j)
-----------------------------------------------------------------------------
(* Workers. *)

TakeBare(w, j) ==
    /\ wpc[w] = "idle" /\ j \in bare
    /\ bare' = bare \ {j}
    /\ wpc' = [wpc EXCEPT ![w] = "bareRun"]
    /\ wobj' = [wobj EXCEPT ![w] = j]
    /\ UNCHANGED <<cfg, submission, object, queued, index, keys, ctx, fut, letters, cancel,
                   batch, history>>

\* wg.Done, deferred by the functions that Map and Group.Go submit.
Done(j) == pending' = IF j \in MapJobs THEN pending - 1 ELSE pending

\* executeBasic: one attempt, no future, no callback, no dead letter.
BareRuns(w) ==
    /\ wpc[w] = "bareRun"
    /\ \E how \in {"succeeded"} \cup (IF wobj[w] \in Failing THEN {"failed"} ELSE {}) :
          Ends(wobj[w], how)
    /\ returned' = returned \cup {wobj[w]}
    /\ Done(wobj[w])
    /\ LetGo(w)
    /\ UNCHANGED <<cfg, submission, object, queued, bare, index, keys, ctx, fut, letters, cancel,
                   mpc, loose>>

Take(w, o) ==
    /\ wpc[w] = "idle" /\ o \in queued
    /\ queued' = queued \ {o}
    /\ wpc' = [wpc EXCEPT ![w] = "check"]
    /\ wobj' = [wobj EXCEPT ![w] = o]
    /\ UNCHANGED <<cfg, submission, object, bare, index, keys, ctx, fut, letters, cancel,
                   batch, history>>

\* qj.ctx.Err(): a cancelled job is dropped, its key stays where it is ...
DropCancelled(w) ==
    /\ wpc[w] = "check" /\ Owner(w) \in ctx
    /\ word' = [word EXCEPT ![wobj[w]] = "cancelled"]
    /\ Ends(Owner(w), "cancelled")
    /\ Goto(w, "cancelled")
    /\ UNCHANGED <<cfg, submission, owner, attempt, queued, bare, index, keys, ctx, fut, letters,
                   cancel, batch, returned, loose>>

CancelUnindexes(w) ==
    /\ wpc[w] = "cancelled"
    /\ index' = Unindexed(wobj[w])
    /\ Goto(w, "cancelFuture")
    /\ UNCHANGED <<cfg, submission, object, queued, bare, keys, ctx, fut, letters, cancel, batch,
                   history>>

CancelCompletes(w) ==
    /\ wpc[w] = "cancelFuture"
    /\ fut' = Completed(Owner(w), "cancelled")
    /\ Goto(w, "release")
    /\ UNCHANGED <<cfg, submission, object, queued, bare, index, keys, ctx, letters, cancel, batch,
                   ends, returned, loose>>

\* ... and any other begins an attempt.
Starts(w) ==
    /\ wpc[w] = "check" /\ Owner(w) \notin ctx
    /\ word' = [word EXCEPT ![wobj[w]] = "running"]
    /\ attempt' = [attempt EXCEPT ![wobj[w]] = @ + 1]
    /\ Goto(w, "run")
    /\ UNCHANGED <<cfg, submission, owner, queued, bare, index, keys, ctx, fut, letters, cancel,
                   batch, history>>

\* The function returns.  An error, or a context that is cancelled by then,
\* makes the attempt a failure.
Runs(w) ==
    /\ wpc[w] = "run"
    /\ returned' = returned \cup {Owner(w)}
    /\ Done(Owner(w))
    /\ \/ Owner(w) \notin ctx /\ Goto(w, "succeed")
       \/ Owner(w) \in Failing \cup ctx /\ Goto(w, "fail")
    /\ UNCHANGED <<cfg, submission, object, queued, bare, index, keys, ctx, fut, letters, cancel,
                   mpc, ends, loose>>

Succeeds(w) ==
    /\ wpc[w] = "succeed"
    /\ word' = [word EXCEPT ![wobj[w]] = "succeeded"]
    /\ Ends(Owner(w), "succeeded")
    /\ Goto(w, "succeeded")
    /\ UNCHANGED <<cfg, submission, owner, attempt, queued, bare, index, keys, ctx, fut, letters,
                   cancel, batch, returned, loose>>

SuccessUnindexes(w) ==
    /\ wpc[w] = "succeeded"
    /\ index' = Unindexed(wobj[w])
    /\ Goto(w, "successFuture")
    /\ UNCHANGED <<cfg, submission, object, queued, bare, keys, ctx, fut, letters, cancel, batch,
                   history>>

SuccessCompletes(w) ==
    /\ wpc[w] = "successFuture"
    /\ fut' = Completed(Owner(w), "ok")
    /\ Goto(w, "successKey")
    /\ UNCHANGED <<cfg, submission, object, queued, bare, index, keys, ctx, letters, cancel, batch,
                   ends, returned, loose>>

SuccessFreesKey(w) ==
    /\ wpc[w] = "successKey"
    /\ keys' = KeyFreed(wobj[w])
    /\ Goto(w, "release")
    /\ UNCHANGED <<cfg, submission, object, queued, bare, index, ctx, fut, letters, cancel, batch,
                   history>>

Releases(w) ==
    /\ wpc[w] = "release"
    /\ Released(wobj[w])
    /\ LetGo(w)
    /\ UNCHANGED <<cfg, jpc, obj, fresh, queued, bare, index, keys, ctx, fut, letters, cancel,
                   batch, history>>

\* An attempt that returned an error ...
Fails(w) ==
    /\ wpc[w] = "fail"
    /\ word' = [word EXCEPT ![wobj[w]] = "failed"]
    /\ Goto(w, "failed")
    /\ UNCHANGED <<cfg, submission, owner, attempt, queued, bare, index, keys, ctx, fut, letters,
                   cancel, batch, history>>

\* ... is retried while there are attempts left, unless the error is permanent.
BugRetries(w) ==
    /\ wpc[w] = "failed"
    /\ attempt[wobj[w]] < Opt(Owner(w)).attempts
    /\ word' = [word EXCEPT ![wobj[w]] = "retrying"]
    /\ fut' = Completed(Owner(w), "failed")
    /\ Goto(w, "requeue")
    /\ UNCHANGED <<cfg, submission, owner, attempt, queued, bare, index, keys, ctx, letters,
                   cancel, batch, history>>
Retries(w) ==
    /\ wpc[w] = "failed"
    /\ attempt[wobj[w]] < Opt(Owner(w)).attempts
    /\ word' = [word EXCEPT ![wobj[w]] = "retrying"]
    /\ Goto(w, "requeue")
    /\ UNCHANGED <<cfg, submission, owner, attempt, queued, bare, index, keys, ctx, fut, letters,
                   cancel, batch, history>>

\* A job whose queue is paused, or whose rate or concurrency limit is reached,
\* goes back to its queue without an attempt.
BugPostpones(w) ==
    /\ wpc[w] = "check" /\ Owner(w) \notin ctx /\ Owner(w) \in Delayable
    /\ word' = [word EXCEPT ![wobj[w]] = "running"]
    /\ attempt' = [attempt EXCEPT ![wobj[w]] = @ + 1]
    /\ Goto(w, "requeue")
    /\ UNCHANGED <<cfg, submission, owner, queued, bare, index, keys, ctx, fut, letters,
                   cancel, batch, history>>
Postpones(w) ==
    /\ wpc[w] = "check" /\ Owner(w) \notin ctx /\ Owner(w) \in Delayable
    /\ word' = [word EXCEPT ![wobj[w]] = "queued"]
    /\ Goto(w, "requeue")
    /\ UNCHANGED <<cfg, submission, owner, attempt, queued, bare, index, keys, ctx, fut, letters,
                   cancel, batch, history>>

\* requeue: the worker holds the job until pushBlock finds room.
Requeues(w) ==
    /\ wpc[w] = "requeue"
    /\ queued' = queued \cup {wobj[w]}
    /\ LetGo(w)
    /\ UNCHANGED <<cfg, submission, object, bare, index, keys, ctx, fut, letters, cancel, batch,
                   history>>

\* No attempt left, a permanent error, or a requeue that fails: deadletter.
DeadLetter(w) ==
    /\ wpc[w] \in {"failed", "requeue"}
    /\ word' = [word EXCEPT ![wobj[w]] = "dead"]
    /\ Ends(Owner(w), "dead")
    /\ Goto(w, "dead")
    /\ UNCHANGED <<cfg, submission, owner, attempt, queued, bare, index, keys, ctx, fut, letters,
                   cancel, batch, returned, loose>>

DeathUnindexes(w) ==
    /\ wpc[w] = "dead"
    /\ index' = Unindexed(wobj[w])
    /\ Goto(w, "deadAppend")
    /\ UNCHANGED <<cfg, submission, object, queued, bare, keys, ctx, fut, letters, cancel, batch,
                   history>>

\* From here on ReplayDeadLetters can take the object, and another worker run
\* and release it, while this one goes on reading qj's fields.
DeathAppends(w) ==
    /\ wpc[w] = "deadAppend"
    /\ dlq' = dlq \cup {wobj[w]}
    /\ Goto(w, "deadFuture")
    /\ UNCHANGED <<cfg, submission, object, queued, bare, index, keys, ctx, fut, replay, replays,
                   cancel, batch, history>>

BugDeathCompletes(w) ==
    /\ wpc[w] = "deadFuture"
    /\ Goto(w, "deadKey")
    /\ UNCHANGED <<cfg, submission, object, queued, bare, index, keys, ctx, fut, letters,
                   cancel, batch, ends, returned, loose>>
DeathCompletes(w) ==
    /\ wpc[w] = "deadFuture"
    /\ fut' = Completed(Owner(w), "failed")
    /\ Goto(w, "deadKey")
    /\ UNCHANGED <<cfg, submission, object, queued, bare, index, keys, ctx, letters, cancel, batch,
                   ends, returned, loose>>

DeathFreesKey(w) ==
    /\ wpc[w] = "deadKey"
    /\ keys' = KeyFreed(wobj[w])
    /\ LetGo(w)
    /\ UNCHANGED <<cfg, submission, object, queued, bare, index, ctx, fut, letters, cancel, batch,
                   history>>

Work(w) ==
    \/ \E j \in bare : TakeBare(w, j)
    \/ \E o \in queued : Take(w, o)
    \/ BareRuns(w)
    \/ DropCancelled(w) \/ CancelUnindexes(w) \/ CancelCompletes(w)
    \/ Starts(w)
    \/ Runs(w)
    \/ Succeeds(w) \/ SuccessUnindexes(w) \/ SuccessCompletes(w) \/ SuccessFreesKey(w)
    \/ Releases(w)
    \/ Fails(w) \/ Retries(w) \/ Postpones(w) \/ Requeues(w)
    \/ DeadLetter(w) \/ DeathUnindexes(w) \/ DeathAppends(w) \/ DeathCompletes(w)
    \/ DeathFreesKey(w)
-----------------------------------------------------------------------------
(* ReplayDeadLetters takes all letters at once and pushes them one by one. *)

ReplayTakes ==
    /\ replays < MaxReplays /\ replay = {} /\ dlq # {}
    /\ replays' = replays + 1
    /\ replay' = dlq
    /\ dlq' = {}
    /\ UNCHANGED <<cfg, submission, object, queued, bare, index, keys, ctx, fut, workers, cancel,
                   batch, history>>

ReplayPushes(o) ==
    /\ o \in replay
    /\ replay' = replay \ {o}
    /\ attempt' = [attempt EXCEPT ![o] = 0]
    /\ \/ queued' = queued \cup {o} /\ UNCHANGED dlq
       \/ dlq' = dlq \cup {o} /\ UNCHANGED queued
    /\ UNCHANGED <<cfg, submission, owner, word, bare, index, keys, ctx, fut, replays, workers,
                   cancel, batch, history>>
-----------------------------------------------------------------------------
(* CancelJob loads the pointer, then writes through it; Future.Cancel has the *)
(* job's own cancel function and its own future.                              *)

Cancels(c, where) == cpc' = [cpc EXCEPT ![c] = where]

CancelLoads(c, i) ==
    /\ cpc[c] = "idle" /\ index[i] # None
    /\ cobj' = [cobj EXCEPT ![c] = index[i]]
    /\ cid' = [cid EXCEPT ![c] = i]
    /\ asked' = asked \cup {j \in Jobs : ID(j) = i}
    /\ Cancels(c, "store")
    /\ UNCHANGED <<cfg, submission, object, queued, bare, index, keys, ctx, fut, letters, workers,
                   batch, history>>

CancelStores(c) ==
    /\ cpc[c] = "store"
    /\ word' = [word EXCEPT ![cobj[c]] = "cancelled"]
    /\ Cancels(c, "cancel")
    /\ UNCHANGED <<cfg, submission, owner, attempt, queued, bare, index, keys, ctx, fut, letters,
                   workers, cobj, cid, asked, batch, history>>

\* qj.cancel() of whoever owns the object by now.
CancelContext(c) ==
    /\ cpc[c] = "cancel"
    /\ ctx' = ctx \cup ({owner[cobj[c]]} \ {None})
    /\ Cancels(c, "future")
    /\ UNCHANGED <<cfg, submission, object, queued, bare, index, keys, fut, letters, workers,
                   cobj, cid, asked, batch, history>>

CancelFuture(c) ==
    /\ cpc[c] = "future"
    /\ fut' = Completed(owner[cobj[c]], "cancelled")
    /\ Cancels(c, "delete")
    /\ UNCHANGED <<cfg, submission, object, queued, bare, index, keys, ctx, letters, workers,
                   cobj, cid, asked, batch, history>>

CancelUnindex(c) ==
    /\ cpc[c] = "delete"
    /\ index' = [index EXCEPT ![cid[c]] = None]
    /\ Cancels(c, "done")
    /\ UNCHANGED <<cfg, submission, object, queued, bare, keys, ctx, fut, letters, workers,
                   cobj, cid, asked, batch, history>>

FutureCancel(c, j) ==
    /\ cpc[c] = "idle" /\ j \in HasFuture /\ jpc[j] = "accepted"
    /\ ctx' = ctx \cup {j}
    /\ asked' = asked \cup {j}
    /\ cobj' = [cobj EXCEPT ![c] = j]
    /\ Cancels(c, "complete")
    /\ UNCHANGED <<cfg, submission, object, queued, bare, index, keys, fut, letters, workers,
                   cid, batch, history>>

FutureCancelled(c) ==
    /\ cpc[c] = "complete"
    /\ fut' = Completed(cobj[c], "cancelled")
    /\ Cancels(c, "done")
    /\ UNCHANGED <<cfg, submission, object, queued, bare, index, keys, ctx, letters, workers,
                   cobj, cid, asked, batch, history>>

Cancel(c) ==
    \/ CancelStores(c)
    \/ CancelContext(c)
    \/ CancelFuture(c)
    \/ CancelUnindex(c)
    \/ FutureCancelled(c)
-----------------------------------------------------------------------------
(* Map waits for its counter; when ctx is done first it returns without. *)

MapWaits ==
    /\ mpc = "submitting" /\ \A j \in MapJobs : Over(j)
    /\ mpc' = "waiting"
    /\ UNCHANGED <<cfg, submission, object, queued, bare, index, keys, ctx, fut, letters, workers,
                   cancel, pending, history>>
MapReturns ==
    /\ mpc = "waiting" /\ pending = 0
    /\ mpc' = "returned"
    /\ UNCHANGED <<cfg, submission, object, queued, bare, index, keys, ctx, fut, letters, workers,
                   cancel, pending, history>>

\* What a goroutine in a call, a worker among them, does next ...
Progress ==
    \/ \E j \in Jobs : Submit(j)
    \/ \E w \in Workers : Work(w)
    \/ \E o \in replay : ReplayPushes(o)
    \/ \E c \in Cancellers : Cancel(c)
    \/ MapWaits
    \/ MapReturns

\* ... and the calls that need not be made.
Next ==
    \/ Progress
    \/ ReplayTakes
    \/ \E c \in Cancellers :
          \/ \E i \in CancelIDs : CancelLoads(c, i)
          \/ \E j \in Jobs : FutureCancel(c, j)

Spec == Init /\ [][Next]_vars

\* The program does not stop while a goroutine can go on, and polls do not
\* postpone jobs for ever: a paused queue is resumed and a limit gives way.  So
\* no behaviour is infinite (attempts, replays and calls are bounded), and every
\* goroutine that can go on does: what fairness to each would give, at less cost.
FairSpec == Spec /\ WF_vars(Progress) /\ SF_vars(\E w \in Workers : Starts(w))
-----------------------------------------------------------------------------
TypeOK ==
    /\ jpc \in [Jobs -> {"absent", "new", "bare", "key", "rate", "push", "failing", "accepted",
                          "refused", "duplicate"}]
    /\ obj \in [Jobs -> Objs \cup {None}]
    /\ fresh \in 0..MaxObjs /\ pooled \subseteq 1..fresh
    /\ owner \in [Objs -> Jobs \cup {None}]
    /\ word \in [Objs -> {"queued", "running", "succeeded", "failed", "retrying", "dead",
                          "cancelled"}]
    /\ attempt \in [Objs -> Nat]
    /\ queued \subseteq Objs /\ bare \subseteq Jobs
    /\ index \in [IDs -> Objs \cup {None}]
    /\ keys \subseteq {Key(j) : j \in Jobs}
    /\ ctx \subseteq Jobs /\ asked \subseteq Jobs
    /\ fut \in [Jobs -> {"none", "pending", "ok", "failed", "cancelled"}]
    /\ dlq \subseteq Objs /\ replay \subseteq Objs /\ replays \in 0..MaxReplays
    /\ wobj \in [Workers -> Objs \cup Jobs \cup {None}]
    /\ pending \in 0..Cardinality(MapJobs)

\* p.jobs and the jobs agree.  An entry leads to an object that still holds a
\* job of that ID which has not ended, so nothing leaks and no entry outlives
\* the recycling of its object; and a job with an ID of its own that nobody
\* has asked to cancel stays to be found from before its push to its end,
\* through retries too.
AtWork == {"check", "cancelled", "run", "succeed", "succeeded", "fail", "failed", "requeue", "dead"}
IndexTrue ==
    /\ \A i \in IDs : index[i] # None =>
          LET o == index[i] IN
          /\ owner[o] # None /\ ID(owner[o]) = i
          /\ \/ o \in queued
             \/ jpc[owner[o]] = "push"
             \/ \E w \in Workers : wpc[w] \in AtWork /\ wobj[w] = o
    /\ \A j \in Jobs \ asked :
          Tracked(j) /\ obj[j] # None /\ ends[j] = {}
             /\ (\A k \in Jobs \ {j} : ID(k) # ID(j)) => index[ID(j)] = obj[j]

\* A future tells how its own job ended: a value only after a success, an
\* error only after a final failure and never after an attempt that is
\* retried, a cancellation only of a job whose context is cancelled.
FutureTrue ==
    \A j \in HasFuture :
        /\ fut[j] = "ok" => "succeeded" \in ends[j]
        /\ fut[j] = "failed" => ends[j] \cap {"dead", "refused"} # {}
        /\ fut[j] = "cancelled" => j \in ctx

\* Two jobs of one idempotency key are never under way together, as long as no
\* Replace has taken the key away and no dead letter has been replayed (which
\* runs without its key).
UnderWay(j) == jpc[j] \in {"rate", "push", "accepted"} /\ ends[j] = {}
KeyExclusive ==
    replays = 0 =>
        \A j, k \in Jobs : j # k /\ Key(j) = Key(k) /\ Key(j) \notin loose \cup {""} =>
            ~(UnderWay(j) /\ UnderWay(k))

\* What InspectJob reports of a job nobody is cancelling is what becomes of it.
\* It is "running" exactly from its start to the verdict on what its function
\* returned; it is "queued" or "retrying" exactly while it is on its way to an
\* attempt, which it still has: in submit, in a queue, polled, or in the hands
\* of a worker that puts it back.  Each of the other words is the one its worker
\* has just stored, and the end it tells of is the only one there has been.
InspectTrue ==
    \A i \in IDs : index[i] # None /\ word[index[i]] # "cancelled" =>
        LET o == index[i]
            j == owner[o]
            at == {wpc[w] : w \in {v \in Workers : wobj[v] = o /\ wpc[v] \in AtWork}}
        IN
        /\ word[o] = "running" <=> at \cap {"run", "succeed", "fail"} # {}
        /\ word[o] \in {"queued", "retrying"} <=> at \subseteq {"check", "requeue"}
        /\ word[o] \in {"queued", "retrying"} => attempt[o] < Opt(j).attempts
        /\ word[o] \in {"failed", "dead", "succeeded"} => at = {word[o]}
        /\ ends[j] = {word[o]} \cap {"dead", "succeeded"}

\* When Map returns by its counter, each item was refused or its function has
\* returned: nobody writes to the result any more.
MapComplete == mpc = "returned" => \A j \in MapJobs : jpc[j] = "absent" \/ Refused(j) \/ j \in returned

\* Every accepted job's future completes.
FutureEnds == \A j \in HasFuture : jpc[j] = "accepted" ~> fut[j] # "pending"

\* Map returns whatever becomes of its items, refused ones included.
MapEnds == mpc = "waiting" ~> mpc = "returned"
=============================================================================
