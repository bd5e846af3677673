------------------------------ MODULE Options -------------------------------
(***************************************************************************)
(* config.go, job.go, usability.go and backoff.go: what a Config, the       *)
(* Options given to New and the JobOptions given to Submit are made into,  *)
(* which of the three queues the result sends a job to, and how long it    *)
(* waits for a retry.  Everything here is a function of its arguments.     *)
(*                                                                         *)
(* A string is "" when it is not set, a duration or a time 0, a Backoff or *)
(* a Callback NoValue; metadata are the set of their keys.                 *)
(***************************************************************************)
EXTENDS Integers, FiniteSets

NoValue == "nil"

\* The options of a job that sets none, and a queue policy that sets nothing.
ZeroOptions ==
    [id |-> "", queue |-> "", priority |-> 0, delay |-> 0, runAt |-> 0, timeout |-> 0,
     attempts |-> 0, backoff |-> NoValue, metadata |-> {}, idempotencyKey |-> "",
     concurrencyKey |-> "", maxPerKey |-> 0, rateLimitKey |-> "", callback |-> NoValue]
ZeroPolicy ==
    [priority |-> 0, timeout |-> 0, attempts |-> 0, backoff |-> NoValue, metadata |-> {},
     concurrencyKey |-> "", maxPerKey |-> 0, rateLimitKey |-> ""]

\* A field that is not set takes the default.
Text(v, d)   == IF v = "" THEN d ELSE v
Number(v, d) == IF v <= 0 THEN d ELSE v
Instant(v, d) == IF v = 0 THEN d ELSE v
Value(v, d)  == IF v = NoValue THEN d ELSE v
-----------------------------------------------------------------------------
(* Configurations. *)

DefaultConfig ==
    [min |-> 1, max |-> 0, size |-> 1024, backpressure |-> "block", submitTimeout |-> 0,
     idleTimeout |-> 30000, scaleInterval |-> 100, autoScale |-> TRUE, timeout |-> 0,
     attempts |-> 1, backoff |-> "exponential", tracking |-> FALSE, jobIDs |-> FALSE]

AtLeast(v, least) == IF v < least THEN least ELSE v

normalizeConfig(c) ==
    LET min == Number(c.min, DefaultConfig.min)
    IN  [c EXCEPT !.min = min,
                  !.max = AtLeast(Number(c.max, min), min),
                  !.size = Number(c.size, DefaultConfig.size),
                  !.idleTimeout = Number(c.idleTimeout, DefaultConfig.idleTimeout),
                  !.scaleInterval = Number(c.scaleInterval, DefaultConfig.scaleInterval),
                  !.attempts = Number(c.attempts, DefaultConfig.attempts),
                  !.backoff = Value(c.backoff, DefaultConfig.backoff)]

\* New: the three queues are made for the normalised size; the Options that
\* follow may change the configuration and must keep the queues in step.
NewPool(c) == [cfg |-> normalizeConfig(c), room |-> normalizeConfig(c).size]

WithWorkers(p, n) ==
    IF n > 0 THEN [p EXCEPT !.cfg.min = n, !.cfg.max = AtLeast(p.cfg.max, n)] ELSE p

WithWorkerRange(p, min, max) ==
    LET lo == IF min > 0 THEN min ELSE p.cfg.min
        hi == IF max > 0 THEN max ELSE p.cfg.max
    IN  [p EXCEPT !.cfg.min = lo, !.cfg.max = AtLeast(hi, lo)]

WithQueueSize(p, n) == IF n > 0 THEN [p EXCEPT !.cfg.size = n, !.room = n] ELSE p

\* The presets, for a machine on which runtimeWorkers returns cpus.
Sized(p, lo, hi, n) == [p EXCEPT !.cfg.min = lo, !.cfg.max = hi, !.cfg.size = n, !.room = n]

PresetLowLatency(p, cpus) ==
    [Sized(p, cpus, cpus, 8192) EXCEPT
        !.cfg.autoScale = FALSE, !.cfg.tracking = FALSE, !.cfg.jobIDs = FALSE,
        !.cfg.backpressure = "reject"]
PresetHighThroughput(p, cpus) ==
    [Sized(p, cpus * 2, cpus * 2 * 4, 262144) EXCEPT
        !.cfg.autoScale = TRUE, !.cfg.tracking = FALSE]
PresetReliable(p) ==
    [Sized(p, 4, 64, 100000) EXCEPT
        !.cfg.tracking = TRUE, !.cfg.jobIDs = TRUE, !.cfg.attempts = 3]
PresetBackgroundQueue(p) ==
    [Sized(p, 2, 32, 100000) EXCEPT !.cfg.backpressure = "block"]
PresetAPIBuffer(p) ==
    [Sized(p, 4, 128, 250000) EXCEPT
        !.cfg.tracking = TRUE, !.cfg.jobIDs = TRUE, !.cfg.backpressure = "reject"]

\* Resize, on a pool that may be running: the queues stay as they are.
Resize(p, workers) == WithWorkers(p, workers)

\* FromConfigFile: what the file sets, over the default configuration.
FromConfigFile(file) ==
    NewPool([DefaultConfig EXCEPT
        !.min = Number(file.min, @), !.max = Number(file.max, @),
        !.size = Number(file.size, @),
        !.tracking = file.tracking, !.jobIDs = file.tracking,
        !.backpressure = CASE file.backpressure = "reject" -> "reject"
                           [] file.backpressure = "drop_oldest" -> "dropOldest"
                           [] file.backpressure = "drop_newest" -> "dropNewest"
                           [] OTHER -> @])
-----------------------------------------------------------------------------
(* Job options. *)

mergeJobOptions(opt, def) ==
    [id |-> Text(opt.id, def.id),
     queue |-> Text(opt.queue, def.queue),
     priority |-> Instant(opt.priority, def.priority),
     delay |-> Number(opt.delay, def.delay),
     runAt |-> Instant(opt.runAt, def.runAt),
     timeout |-> Number(opt.timeout, def.timeout),
     attempts |-> Number(opt.attempts, def.attempts),
     backoff |-> Value(opt.backoff, def.backoff),
     metadata |-> def.metadata \cup opt.metadata,
     idempotencyKey |-> Text(opt.idempotencyKey, def.idempotencyKey),
     concurrencyKey |-> Text(opt.concurrencyKey, def.concurrencyKey),
     maxPerKey |-> Number(opt.maxPerKey, def.maxPerKey),
     rateLimitKey |-> Text(opt.rateLimitKey, def.rateLimitKey),
     callback |-> Value(opt.callback, def.callback)]

\* The policy of the job's queue, and the delay of a job for a paused queue.
ApplyPolicy(opt, qp) ==
    [opt EXCEPT !.priority = Instant(@, qp.priority),
                !.timeout = Number(@, qp.timeout),
                !.attempts = Number(@, qp.attempts),
                !.backoff = Value(@, qp.backoff),
                !.rateLimitKey = Text(@, qp.rateLimitKey),
                !.concurrencyKey = Text(@, qp.concurrencyKey),
                !.maxPerKey = Number(@, qp.maxPerKey),
                !.metadata = qp.metadata \cup @]

applyDefaults(raw, def, policies, paused) ==
    LET opt == mergeJobOptions(raw, def)
        set == IF opt.queue \in DOMAIN policies THEN ApplyPolicy(opt, policies[opt.queue])
                                                ELSE opt
    IN  IF opt.queue \in paused /\ set.delay <= 0 /\ set.runAt = 0
        THEN [set EXCEPT !.delay = 50] ELSE set

\* The head of submit: an ID where one is needed, and the pool's own defaults.
Submitted(cfg, opt, freshID) ==
    [opt EXCEPT
        !.id = IF @ = "" /\ (cfg.tracking \/ cfg.jobIDs \/ opt.idempotencyKey # "")
               THEN freshID ELSE @,
        !.attempts = Number(@, cfg.attempts),
        !.backoff = Value(@, cfg.backoff),
        !.timeout = Number(@, cfg.timeout)]

\* useBasicFastPath.  plain says that the pool has no store, middleware,
\* lifecycle bus, job hook or spill directory.  The callback is not looked at.
useBasicFastPath(cfg, plain, hasFuture, opt) ==
    /\ ~hasFuture /\ plain
    /\ ~cfg.tracking /\ ~cfg.jobIDs
    /\ opt.queue = "" /\ opt.priority = 0
    /\ opt.delay = 0 /\ opt.runAt = 0 /\ opt.timeout = 0
    /\ opt.attempts = 1 /\ opt.backoff = cfg.backoff
    /\ opt.metadata = {} /\ opt.idempotencyKey = ""
    /\ opt.concurrencyKey = "" /\ opt.rateLimitKey = ""

\* useFastQueue.
useFastQueue(opt) == opt.priority = 0 /\ opt.delay = 0 /\ opt.runAt = 0
-----------------------------------------------------------------------------
(* Backoff, for b with whole Factors and Durations of longest at most.  The  *)
(* float64 may exceed them; what its conversion is then is up to the machine. *)

Grown(b, attempt) ==
    LET initial == Number(b.initial, 10)
        factor  == IF b.factor <= 1 THEN 2 ELSE b.factor
    IN  initial * factor ^ (AtLeast(attempt, 1) - 1)

Converted(d, longest) == IF d <= longest THEN {d} ELSE (-longest - 1)..longest

Capped(d, max) == IF max > 0 /\ d > max THEN max ELSE d

Jittered(d, jitter) == IF jitter /\ d > 0 THEN (d \div 2)..(d \div 2 + d \div 2) ELSE {d}

\* ExponentialBackoff.Delay.
Delays(b, attempt, longest) ==
    UNION {Jittered(Capped(d, b.max), b.jitter) : d \in Converted(Grown(b, attempt), longest)}
-----------------------------------------------------------------------------
\* What every pool may rely on: at least one worker, no fewer at most than at
\* least, room in the queues, an attempt for every job, and queues as large as
\* Config.QueueSize says (Diagnose divides by it).
Normal(p) ==
    /\ p.cfg.min \in Nat \ {0}
    /\ p.cfg.max \in Nat /\ p.cfg.min <= p.cfg.max
    /\ p.cfg.size \in Nat \ {0}
    /\ p.cfg.attempts \in Nat \ {0}
    /\ p.room = p.cfg.size
=============================================================================
