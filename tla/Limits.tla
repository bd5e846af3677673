------------------------------- MODULE Limits -------------------------------
(***************************************************************************)
(* rate_limiter.go and its callers in pool.go: one rate-limit key with its *)
(* token bucket and one concurrency key with its count, shared by the      *)
(* goroutines that submit jobs and the workers that execute them.          *)
(*                                                                         *)
(* Time is counted in ticks, Second of them to a second, and tokens in the *)
(* ticks it takes to earn them: a token costs Period ticks and one tick    *)
(* earns one, so that the float64 arithmetic of the code becomes exact.    *)
(***************************************************************************)
EXTENDS Integers, Sequences, FiniteSets

CONSTANTS
    Jobs, Workers,
    None,           \* a worker has no job in hand
    Modes,          \* the modes a limit may have: "queue", "reject", "block"
    Rates,          \* the [rate, burst] that SetRateLimit may be given
    Second,         \* ticks in a second, a multiple of every rate
    Limit,          \* MaxConcurrentPerKey of each job
    MaxAttempts,    \* JobOptions.MaxAttempts of every job
    SubmitTimeout,  \* TRUE: Config.SubmitTimeout > 0, or the pool may stop
    MaxReplays,     \* bound on the jobs that ReplayDeadLetters takes up
    MaxSets,        \* bound on the calls to SetRateLimit
    MaxTime         \* bound on the clock

ASSUME LimitsAssumption ==
    /\ IsFiniteSet(Workers)
    /\ None \notin Jobs
    /\ Modes \subseteq {"queue", "reject", "block"}
    /\ Second \in Nat \ {0}
    /\ \A r \in Rates : r.rate \in Int /\ r.burst \in Int
    /\ \A r \in Rates : r.rate > 0 => Second \div r.rate \in Nat \ {0}
    /\ Limit \in [Jobs -> Int]
    /\ MaxAttempts \in Nat \ {0}
    /\ MaxReplays \in Nat /\ MaxSets \in Nat /\ MaxTime \in Nat

VARIABLES
    now,        \* time.Now()
    buckets,    \* the buckets made for the key, the last one is p.rates[key]
    mode,       \* their RateLimitMode
    jpc,        \* where each job is
    jb,         \* the bucket its submitter has loaded
    runAt,      \* qj.runAt while the job is queued
    readyAt,    \* qj.rateReadyAt, 0 for the zero time
    tries,      \* qj.attempt
    starts,     \* history: the attempts of each job, those before a replay too
    replays,    \* the dead letters replayed so far
    wpc, wjob,  \* the workers, and the jobs in their hands
    wait,       \* the delay reserveDelay gave, or the bucket it is asked of
    active,     \* sem.active[key]
    grants      \* history: the times at which the tokens of each bucket may be used

limiter == <<buckets, mode, grants>>
jobs == <<jpc, jb, runAt, readyAt, tries, starts, replays>>
hands == <<wpc, wjob, wait>>
vars == <<now, limiter, jobs, hands, active>>

Period(b) == IF buckets[b].rate > 0 THEN Second \div buckets[b].rate ELSE 0

\* newBucket: full, and as deep as a second's worth when no burst is given.
Depth(r) == (IF r.burst <= 0 THEN r.rate ELSE r.burst)
NewBucket(r) ==
    [rate |-> r.rate, burst |-> Depth(r), last |-> now,
     tokens |-> IF r.rate > 0 THEN Depth(r) * (Second \div r.rate) ELSE 0]

Init ==
    /\ now = 1
    /\ \E r \in Rates : buckets = <<NewBucket(r)>>
    /\ mode \in Modes
    /\ jpc = [j \in Jobs |-> "new"]
    /\ jb = [j \in Jobs |-> 0]
    /\ runAt = [j \in Jobs |-> 0]
    /\ readyAt = [j \in Jobs |-> 0]
    /\ tries = [j \in Jobs |-> 0]
    /\ starts = [j \in Jobs |-> 0]
    /\ replays = 0
    /\ wpc = [w \in Workers |-> "idle"]
    /\ wjob = [w \in Workers |-> None]
    /\ wait = [w \in Workers |-> 0]
    /\ active = 0
    /\ grants = << <<>> >>

Tick ==
    /\ now < MaxTime
    /\ now' = now + 1
    /\ UNCHANGED <<limiter, jobs, hands, active>>

\* SetRateLimit, UpdateRateLimit: a new full bucket; whoever has loaded the
\* old one goes on with it.
SetRateLimit ==
    /\ Len(buckets) <= MaxSets
    /\ \E r \in Rates : buckets' = Append(buckets, NewBucket(r))
    /\ grants' = Append(grants, <<>>)
    /\ UNCHANGED <<now, mode, jobs, hands, active>>
-----------------------------------------------------------------------------
(* tokenBucket.reserveDelay, under the bucket's mutex. *)

Cap(b) == buckets[b].burst * Period(b)
BugRefilled(b) == buckets[b].tokens + (now - buckets[b].last)
Refilled(b) ==
    LET earned == buckets[b].tokens + (now - buckets[b].last)
    IN  IF earned > Cap(b) THEN Cap(b) ELSE earned

\* A disabled limiter says yes; else a whole token is there, or it is not.
Unlimited(b) == buckets[b].rate <= 0
Enough(b) == Unlimited(b) \/ Refilled(b) >= Period(b)

\* What is left in the bucket once the time since its last use is accounted for.
Leave(b, left) ==
    buckets' = IF Unlimited(b) THEN buckets
               ELSE [buckets EXCEPT ![b] = [@ EXCEPT !.tokens = left, !.last = now]]

\* Take a token, the future one with the tokens going below zero; or none.
Spend(b)  == Leave(b, Refilled(b) - Period(b))
Refill(b) == Leave(b, Refilled(b))

Delay(b) == IF Enough(b) THEN 0 ELSE Period(b) - Refilled(b)

Granted(b) == grants' = [grants EXCEPT ![b] = Append(@, now + Delay(b))]
-----------------------------------------------------------------------------
(* Pool.submit: admitRate loads the bucket, then asks it. *)

SubmitLoads(j) ==
    /\ jpc[j] = "new"
    /\ jpc' = [jpc EXCEPT ![j] = IF mode = "queue" THEN "queued" ELSE "asking"]
    /\ jb' = [jb EXCEPT ![j] = IF mode = "queue" THEN 0 ELSE Len(buckets)]
    /\ runAt' = [runAt EXCEPT ![j] = now]
    /\ UNCHANGED <<now, limiter, readyAt, tries, starts, replays, hands, active>>

Admit(j) ==
    /\ jpc[j] = "asking"
    /\ Enough(jb[j])
    /\ Spend(jb[j])
    /\ Granted(jb[j])
    /\ jpc' = [jpc EXCEPT ![j] = "queued"]
    /\ jb' = [jb EXCEPT ![j] = 0]
    /\ runAt' = [runAt EXCEPT ![j] = now]
    /\ UNCHANGED <<now, mode, readyAt, tries, starts, replays, hands, active>>

\* allow() says no: "reject" fails, "block" asks again a millisecond later.
NotAdmitted(j) ==
    /\ jpc[j] = "asking"
    /\ ~Enough(jb[j])
    /\ Refill(jb[j])
    /\ \/ mode = "block" /\ UNCHANGED <<jpc, jb>>
       \/ /\ mode = "reject" \/ SubmitTimeout
          /\ jpc' = [jpc EXCEPT ![j] = "refused"]
          /\ jb' = [jb EXCEPT ![j] = 0]
    /\ UNCHANGED <<now, mode, grants, runAt, readyAt, tries, starts, replays, hands, active>>
-----------------------------------------------------------------------------
(* Pool.execute. *)

Take(w, j) ==
    /\ wpc[w] = "idle"
    /\ jpc[j] = "queued" /\ runAt[j] <= now
    /\ jpc' = [jpc EXCEPT ![j] = "held"]
    /\ wpc' = [wpc EXCEPT ![w] = "rate"]
    /\ wjob' = [wjob EXCEPT ![w] = j]
    /\ runAt' = [runAt EXCEPT ![j] = 0]
    /\ UNCHANGED <<now, limiter, jb, readyAt, tries, starts, replays, wait, active>>

\* requeue(qj) with a new runAt; on a full or closed heap it fails, and the
\* job is dead-lettered.
Requeue(j, at) ==
    \/ jpc' = [jpc EXCEPT ![j] = "queued"] /\ runAt' = [runAt EXCEPT ![j] = at]
    \/ jpc' = [jpc EXCEPT ![j] = "dead"] /\ UNCHANGED runAt
LetGo(w) ==
    /\ wpc' = [wpc EXCEPT ![w] = "idle"]
    /\ wjob' = [wjob EXCEPT ![w] = None]
    /\ wait' = [wait EXCEPT ![w] = 0]
Goto(w, where) == wpc' = [wpc EXCEPT ![w] = where] /\ UNCHANGED wjob

\* delayForRateLimit: a reservation still to come sends the job back, ...
RateNotReady(w) ==
    /\ wpc[w] = "rate"
    /\ readyAt[wjob[w]] > now
    /\ Requeue(wjob[w], readyAt[wjob[w]])
    /\ LetGo(w)
    /\ UNCHANGED <<now, limiter, jb, readyAt, tries, starts, replays, active>>

\* ... one that has come lets it pass, ...
BugRateReady(w) ==
    /\ wpc[w] = "rate"
    /\ readyAt[wjob[w]] # 0
    /\ readyAt' = [readyAt EXCEPT ![wjob[w]] = 0]
    /\ Goto(w, "acquire")
    /\ UNCHANGED <<now, limiter, jpc, jb, runAt, tries, starts, replays, wait, active>>
RateReady(w) ==
    /\ wpc[w] = "rate"
    /\ readyAt[wjob[w]] \in 1..now
    /\ readyAt' = [readyAt EXCEPT ![wjob[w]] = 0]
    /\ Goto(w, "acquire")
    /\ UNCHANGED <<now, limiter, jpc, jb, runAt, tries, starts, replays, wait, active>>

\* ... and without one the bucket is loaded, to be asked in queue mode only.
RateLoad(w) ==
    /\ wpc[w] = "rate"
    /\ readyAt[wjob[w]] = 0
    /\ Goto(w, IF mode = "queue" THEN "reserve" ELSE "acquire")
    /\ wait' = [wait EXCEPT ![w] = IF mode = "queue" THEN Len(buckets) ELSE 0]
    /\ UNCHANGED <<now, limiter, jobs, active>>

Reserve(w) ==
    /\ wpc[w] = "reserve"
    /\ Spend(wait[w])
    /\ Granted(wait[w])
    /\ wait' = [wait EXCEPT ![w] = Delay(wait[w])]
    /\ Goto(w, IF Enough(wait[w]) THEN "acquire" ELSE "reserved")
    /\ UNCHANGED <<now, mode, jobs, active>>

\* The delay counts from a second look at the clock.
Reserved(w) ==
    /\ wpc[w] = "reserved"
    /\ Requeue(wjob[w], now + wait[w])
    /\ readyAt' = [readyAt EXCEPT ![wjob[w]] = now + wait[w]]
    /\ LetGo(w)
    /\ UNCHANGED <<now, limiter, jb, tries, starts, replays, active>>

\* keyedSemaphore.tryAcquire: a job without a limit takes no slot.
HasRoom(j) == Limit[j] <= 0 \/ active < Limit[j]

Acquire(w) ==
    /\ wpc[w] = "acquire"
    /\ HasRoom(wjob[w])
    /\ active' = IF Limit[wjob[w]] <= 0 THEN active ELSE active + 1
    /\ tries' = [tries EXCEPT ![wjob[w]] = @ + 1]
    /\ Goto(w, "run")
    /\ starts' = [starts EXCEPT ![wjob[w]] = @ + 1]
    /\ UNCHANGED <<now, limiter, jpc, jb, runAt, readyAt, replays, wait>>

\* No slot: back to the queue for 5 ms (a tick here), the token is spent.
NoSlot(w) ==
    /\ wpc[w] = "acquire"
    /\ ~HasRoom(wjob[w])
    /\ Requeue(wjob[w], now + 1)
    /\ LetGo(w)
    /\ UNCHANGED <<now, limiter, jb, readyAt, tries, starts, replays, active>>

Succeeds(w) ==
    /\ wpc[w] = "run"
    /\ jpc' = [jpc EXCEPT ![wjob[w]] = "done"]
    /\ Goto(w, "release")
    /\ UNCHANGED <<now, limiter, jb, runAt, readyAt, tries, starts, replays, wait, active>>

\* The retry is queued before the deferred release of the slot.
Fails(w) ==
    /\ wpc[w] = "run"
    /\ IF tries[wjob[w]] < MaxAttempts
          THEN Requeue(wjob[w], now)
          ELSE jpc' = [jpc EXCEPT ![wjob[w]] = "dead"] /\ UNCHANGED runAt
    /\ Goto(w, "release")
    /\ UNCHANGED <<now, limiter, jb, readyAt, tries, starts, replays, wait, active>>

\* keyedSemaphore.release, whatever the limit of the job was.
BugRelease(w) ==
    /\ wpc[w] = "release"
    /\ active' = 0
    /\ LetGo(w)
    /\ UNCHANGED <<now, limiter, jobs>>
Release(w) ==
    /\ wpc[w] = "release"
    /\ active' = IF active > 1 THEN active - 1 ELSE 0
    /\ LetGo(w)
    /\ UNCHANGED <<now, limiter, jobs>>

Execute(w) ==
    \/ \E j \in Jobs : Take(w, j)
    \/ RateNotReady(w)
    \/ RateReady(w)
    \/ RateLoad(w)
    \/ Reserve(w)
    \/ Reserved(w)
    \/ Acquire(w)
    \/ NoSlot(w)
    \/ Succeeds(w)
    \/ Fails(w)
    \/ Release(w)

\* ReplayDeadLetters: the attempts begin anew, the reservation stays.
Replay(j) ==
    /\ jpc[j] = "dead"
    /\ replays < MaxReplays
    /\ replays' = replays + 1
    /\ jpc' = [jpc EXCEPT ![j] = "queued"]
    /\ runAt' = [runAt EXCEPT ![j] = now]
    /\ tries' = [tries EXCEPT ![j] = 0]
    /\ UNCHANGED <<now, limiter, jb, readyAt, starts, hands, active>>

Next ==
    \/ Tick
    \/ SetRateLimit
    \/ \E j \in Jobs : SubmitLoads(j) \/ Admit(j) \/ NotAdmitted(j) \/ Replay(j)
    \/ \E w \in Workers : Execute(w)

Spec == Init /\ [][Next]_vars
-----------------------------------------------------------------------------
TypeOK ==
    /\ now \in Nat \ {0}
    /\ buckets \in Seq([rate : Int, burst : Int, last : Nat, tokens : Int])
    /\ grants \in Seq(Seq(Int)) /\ Len(grants) = Len(buckets)
    /\ mode \in Modes
    /\ jpc \in [Jobs -> {"new", "asking", "refused", "queued", "held", "done", "dead"}]
    /\ jb \in [Jobs -> Nat]
    /\ runAt \in [Jobs -> Int] /\ readyAt \in [Jobs -> Int]
    /\ tries \in [Jobs -> Nat] /\ starts \in [Jobs -> Nat] /\ replays \in Nat
    /\ wpc \in [Workers -> {"idle", "rate", "reserve", "reserved", "acquire", "run", "release"}]
    /\ wjob \in [Workers -> Jobs \cup {None}]
    /\ wait \in [Workers -> Int]
    /\ active \in Nat

\* No window of time sees more tokens of a bucket come due than its burst and
\* what the window earns, however the reservations of submitters and workers
\* interleave and however long the bucket lay idle.
WithinRate ==
    \A b \in DOMAIN buckets : ~Unlimited(b) =>
        \A i, k \in DOMAIN grants[b] : i <= k =>
            (k - i + 1) * Period(b) <= Cap(b) + grants[b][k] - grants[b][i]

\* What has to be paid for: each attempt in queue mode, else the admission.
Paid == UNION {{b} \X {i \in DOMAIN grants[b] : grants[b][i] <= now} : b \in DOMAIN grants}
Owed == IF mode = "queue" THEN UNION {{j} \X (1..starts[j]) : j \in Jobs}
                          ELSE {j \in Jobs : starts[j] > 0}

\* No attempt of a job with a rate limit begins before a token for it has come
\* due: postponed, retried and requeued jobs neither jump their reservation
\* nor use one twice, and a replaced bucket gives nothing away.
StartsPaid == Cardinality(Owed) <= Cardinality(Paid)

\* The workers between tryAcquire and release with a slot in their hands.
Holders == {w \in Workers : wpc[w] \in {"run", "release"} /\ Limit[wjob[w]] > 0}

\* With every job of the key limited, the count is that of the jobs in hand ...
AllLimited == \A j \in Jobs : Limit[j] > 0
SlotsCounted == AllLimited => active = Cardinality(Holders)

\* ... and a job begins only within its own limit: retries that are taken up
\* before their first attempt has released its slot, and jobs with other limits
\* on the same key, included.
WithinLimit ==
    [][AllLimited =>
          \A w \in Workers : wpc[w] = "acquire" /\ wpc'[w] = "run" =>
              Cardinality(Holders') <= Limit[wjob[w]]]_vars
=============================================================================
