--------------------------- MODULE OptionsProofs ----------------------------
(***************************************************************************)
(* Theorems about Options, for every configuration, every option and every *)
(* set of queue policies.                                                  *)
(***************************************************************************)
EXTENDS Options, TLAPS

\* What the theorems need to know of a Config, a pool, a configuration file,
\* job options and a queue policy: the fields they have, any number in each.
IsConfig(c) ==
    /\ {"min", "max", "size", "idleTimeout", "scaleInterval", "attempts", "backoff"}
          \subseteq DOMAIN c
    /\ c.min \in Int /\ c.max \in Int /\ c.size \in Int /\ c.attempts \in Int
IsPool(p) == {"cfg", "room"} \subseteq DOMAIN p /\ IsConfig(p.cfg)
IsFile(f) == f.min \in Int /\ f.max \in Int /\ f.size \in Int
IsOptions(o) ==
    /\ {"id", "delay", "runAt", "attempts", "backoff", "timeout", "idempotencyKey"}
          \subseteq DOMAIN o
    /\ o.priority \in Int /\ o.delay \in Int /\ o.runAt \in Int /\ o.attempts \in Int
IsPolicy(qp) == qp.priority \in Int /\ qp.attempts \in Int

\* What one Option, preset or call of Resize may make of the pool p, on a
\* machine with any number of processors.
Configured(p) ==
    UNION { {WithWorkers(p, n) : n \in Int},
            {WithWorkerRange(p, m, n) : m \in Int, n \in Int},
            {WithQueueSize(p, n) : n \in Int},
            {PresetLowLatency(p, cpus) : cpus \in Nat \ {0}},
            {PresetHighThroughput(p, cpus) : cpus \in Nat \ {0}},
            {PresetReliable(p), PresetBackgroundQueue(p), PresetAPIBuffer(p)},
            {Resize(p, n) : n \in Int} }
-----------------------------------------------------------------------------
\* The default configuration has the fields a Config has (config.go).
LEMMA DefaultIsConfig == IsConfig(DefaultConfig)
  BY DEF DefaultConfig, IsConfig

\* A number that is not set takes the default (usability.go, config.go).
LEMMA Positive == \A v \in Int, d \in Nat \ {0} : Number(v, d) \in Nat \ {0}
  BY DEF Number

\* The default values that matter here (config.go).
LEMMA DefaultNumbers ==
    /\ DefaultConfig.min = 1 /\ DefaultConfig.size = 1024 /\ DefaultConfig.attempts = 1
    /\ DefaultConfig.max = 0
  BY DEF DefaultConfig

\* normalizeConfig (config.go) makes a usable configuration of any other.
LEMMA Normalised ==
    ASSUME NEW c, IsConfig(c)
    PROVE  /\ IsConfig(normalizeConfig(c))
           /\ normalizeConfig(c).min \in Nat \ {0}
           /\ normalizeConfig(c).max \in Nat
           /\ normalizeConfig(c).min <= normalizeConfig(c).max
           /\ normalizeConfig(c).size \in Nat \ {0}
           /\ normalizeConfig(c).attempts \in Nat \ {0}
  <1> DEFINE min == Number(c.min, DefaultConfig.min)
             max == AtLeast(Number(c.max, min), min)
             size == Number(c.size, DefaultConfig.size)
             attempts == Number(c.attempts, DefaultConfig.attempts)
  <1>1. /\ DOMAIN normalizeConfig(c) = DOMAIN c
        /\ normalizeConfig(c).min = min /\ normalizeConfig(c).max = max
        /\ normalizeConfig(c).size = size /\ normalizeConfig(c).attempts = attempts
    BY DEF normalizeConfig, IsConfig
  <1>2. min \in Nat \ {0} /\ size \in Nat \ {0} /\ attempts \in Nat \ {0}
    BY DefaultNumbers DEF IsConfig, Number
  <1> HIDE DEF min, size, attempts
  <1>3. max \in Nat /\ min <= max
    BY <1>2 DEF IsConfig, AtLeast, Number
  <1> HIDE DEF max
  <1> QED
    BY <1>1, <1>2, <1>3 DEF IsConfig

\* New: whatever the Config says, the pool has workers, room and attempts
\* (config.go's normalizeConfig, pool.go's New).
THEOREM NewIsNormal ==
    ASSUME NEW c, IsConfig(c)
    PROVE  IsPool(NewPool(c)) /\ Normal(NewPool(c))
  BY Normalised DEF NewPool, IsPool, Normal

\* FromConfigFile: nor does it matter what the file says (usability.go).
THEOREM FromFileIsNormal ==
    ASSUME NEW f, IsFile(f)
    PROVE  IsPool(FromConfigFile(f)) /\ Normal(FromConfigFile(f))
  <1> DEFINE c == [DefaultConfig EXCEPT
        !.min = Number(f.min, @), !.max = Number(f.max, @),
        !.size = Number(f.size, @),
        !.tracking = f.tracking, !.jobIDs = f.tracking,
        !.backpressure = CASE f.backpressure = "reject" -> "reject"
                           [] f.backpressure = "drop_oldest" -> "dropOldest"
                           [] f.backpressure = "drop_newest" -> "dropNewest"
                           [] OTHER -> @]
  <1>1. IsConfig(c)
    <2> DEFINE min == Number(f.min, DefaultConfig.min)
               max == Number(f.max, DefaultConfig.max)
               size == Number(f.size, DefaultConfig.size)
    <2>1. /\ DOMAIN c = DOMAIN DefaultConfig
          /\ c.min = min /\ c.max = max /\ c.size = size
          /\ c.attempts = DefaultConfig.attempts
      BY DefaultIsConfig DEF IsConfig
    <2>2. min \in Int /\ max \in Int /\ size \in Int
      BY DefaultNumbers DEF IsFile, Number
    <2> HIDE DEF c, min, max, size
    <2> QED
      BY <2>1, <2>2, DefaultIsConfig DEF IsConfig
  <1>2. FromConfigFile(f) = NewPool(c)
    BY DEF FromConfigFile
  <1> HIDE DEF c
  <1> QED
    BY <1>1, <1>2, NewIsNormal

\* No Option, preset or Resize, in any order and however often, undoes that:
\* there are never more workers at least than at most, and the queues stay as
\* large as the configuration says (usability.go's With... and Preset...).
THEOREM OptionsKeepNormal ==
    ASSUME NEW p, IsPool(p), Normal(p), NEW q \in Configured(p)
    PROVE  IsPool(q) /\ Normal(q)
  <1> USE DEF IsPool, IsConfig, Normal
  <1>1. ASSUME NEW n \in Int, q = WithWorkers(p, n)
        PROVE  IsPool(q) /\ Normal(q)
    BY <1>1 DEF WithWorkers, AtLeast
  <1>2. ASSUME NEW m \in Int, NEW n \in Int, q = WithWorkerRange(p, m, n)
        PROVE  IsPool(q) /\ Normal(q)
    <2> DEFINE lo == IF m > 0 THEN m ELSE p.cfg.min
               hi == IF n > 0 THEN n ELSE p.cfg.max
               top == AtLeast(hi, lo)
    <2>1. lo \in Nat \ {0} /\ top \in Nat /\ lo <= top
      BY DEF AtLeast
    <2>2. q = [p EXCEPT !.cfg.min = lo, !.cfg.max = top]
      BY <1>2, Zenon DEF WithWorkerRange
    <2> HIDE DEF lo, top
    <2>3. DOMAIN q = DOMAIN p /\ DOMAIN q.cfg = DOMAIN p.cfg
      BY <2>2
    <2>4. q.cfg.min = lo /\ q.cfg.max = top
      BY <2>2
    <2>5. q.cfg.size = p.cfg.size /\ q.room = p.room /\ q.cfg.attempts = p.cfg.attempts
      BY <2>2
    <2> HIDE <2>2
    <2> QED
      BY <2>1, <2>3, <2>4, <2>5
  <1>3. ASSUME NEW n \in Int, q = WithQueueSize(p, n)
        PROVE  IsPool(q) /\ Normal(q)
    <2>1. CASE n > 0
      BY <1>3, <2>1, Z3 DEF WithQueueSize
    <2>2. CASE ~(n > 0)
      BY <1>3, <2>2, Zenon DEF WithQueueSize
    <2> QED
      BY <2>1, <2>2
  <1>4. ASSUME NEW lo \in Nat \ {0}, NEW hi \in Nat, lo <= hi, NEW n \in Nat \ {0}
        PROVE  IsPool(Sized(p, lo, hi, n)) /\ Normal(Sized(p, lo, hi, n))
    <2> DEFINE s == Sized(p, lo, hi, n)
    <2>1. DOMAIN s = DOMAIN p /\ DOMAIN s.cfg = DOMAIN p.cfg
      BY DEF Sized
    <2>2. s.cfg.min = lo /\ s.cfg.max = hi
      BY DEF Sized
    <2>3. s.cfg.size = n /\ s.room = n
      BY DEF Sized
    <2>4. s.cfg.attempts = p.cfg.attempts
      BY DEF Sized
    <2> HIDE DEF s
    <2>5. IsPool(s) /\ Normal(s)
      BY <1>4, <2>1, <2>2, <2>3, <2>4
    <2> QED
      BY <2>5, Zenon DEF s
  <1>5. ASSUME NEW cpus \in Nat \ {0}, q = PresetLowLatency(p, cpus)
        PROVE  IsPool(q) /\ Normal(q)
    <2> DEFINE s == Sized(p, cpus, cpus, 8192)
    <2>1. IsPool(s) /\ Normal(s)
      BY <1>4
    <2> HIDE DEF s
    <2>2. q = [s EXCEPT !.cfg.autoScale = FALSE, !.cfg.tracking = FALSE, !.cfg.jobIDs = FALSE,
                        !.cfg.backpressure = "reject"]
      BY <1>5 DEF PresetLowLatency, s
    <2> QED
      BY <2>1, <2>2
  <1>6. ASSUME NEW cpus \in Nat \ {0}, q = PresetHighThroughput(p, cpus)
        PROVE  IsPool(q) /\ Normal(q)
    <2> DEFINE s == Sized(p, cpus * 2, cpus * 2 * 4, 262144)
    <2>1. IsPool(s) /\ Normal(s)
      BY <1>4
    <2> HIDE DEF s
    <2>2. q = [s EXCEPT !.cfg.autoScale = TRUE, !.cfg.tracking = FALSE]
      BY <1>6 DEF PresetHighThroughput, s
    <2> QED
      BY <2>1, <2>2
  <1>7. CASE q = PresetReliable(p)
    <2> DEFINE s == Sized(p, 4, 64, 100000)
    <2>1. IsPool(s) /\ Normal(s)
      BY <1>4
    <2> HIDE DEF s
    <2>2. q = [s EXCEPT !.cfg.tracking = TRUE, !.cfg.jobIDs = TRUE, !.cfg.attempts = 3]
      BY <1>7 DEF PresetReliable, s
    <2>3. /\ DOMAIN q = DOMAIN s /\ DOMAIN q.cfg = DOMAIN s.cfg
          /\ q.cfg.min = s.cfg.min /\ q.cfg.max = s.cfg.max
      BY <2>1, <2>2
    <2>4. q.cfg.size = s.cfg.size /\ q.room = s.room /\ q.cfg.attempts = 3
      BY <2>1, <2>2
    <2> QED
      BY <2>1, <2>3, <2>4
  <1>8. CASE q = PresetBackgroundQueue(p)
    <2> DEFINE s == Sized(p, 2, 32, 100000)
    <2>1. IsPool(s) /\ Normal(s)
      BY <1>4
    <2> HIDE DEF s
    <2>2. q = [s EXCEPT !.cfg.backpressure = "block"]
      BY <1>8 DEF PresetBackgroundQueue, s
    <2> QED
      BY <2>1, <2>2
  <1>10. CASE q = PresetAPIBuffer(p)
    <2> DEFINE s == Sized(p, 4, 128, 250000)
    <2>1. IsPool(s) /\ Normal(s)
      BY <1>4
    <2> HIDE DEF s
    <2>2. q = [s EXCEPT !.cfg.tracking = TRUE, !.cfg.jobIDs = TRUE,
                        !.cfg.backpressure = "reject"]
      BY <1>10 DEF PresetAPIBuffer, s
    <2> QED
      BY <2>1, <2>2
  <1>9. ASSUME NEW n \in Int, q = Resize(p, n)
        PROVE  IsPool(q) /\ Normal(q)
    BY <1>9, <1>1 DEF Resize
  <1> HIDE DEF IsPool, IsConfig, Normal
  <1> QED
    BY <1>1, <1>2, <1>3, <1>4, <1>5, <1>6, <1>7, <1>8, <1>9, <1>10 DEF Configured
-----------------------------------------------------------------------------
\* The queue of a job survives merging and policies, and a job of a paused
\* queue has a time to wait for (usability.go's applyDefaults).
LEMMA DefaultsDelay ==
    ASSUME NEW raw, IsOptions(raw), NEW def, IsOptions(def),
           NEW policies, \A name \in DOMAIN policies : IsPolicy(policies[name]),
           NEW paused, Text(raw.queue, def.queue) \in paused
    PROVE  LET set == applyDefaults(raw, def, policies, paused)
           IN  /\ {"id", "delay", "runAt", "attempts", "backoff", "timeout"} \subseteq DOMAIN set
               /\ set.delay \in Int /\ set.runAt \in Int
               /\ set.delay # 0 \/ set.runAt # 0
  <1> DEFINE opt == mergeJobOptions(raw, def)
             set == IF opt.queue \in DOMAIN policies THEN ApplyPolicy(opt, policies[opt.queue])
                                                     ELSE opt
             F == {"id", "delay", "runAt", "attempts", "backoff", "timeout"}
  <1>1. /\ F \subseteq DOMAIN opt /\ opt.delay \in Int /\ opt.runAt \in Int
        /\ opt.queue = Text(raw.queue, def.queue)
    <2>1. /\ F \subseteq DOMAIN opt
          /\ opt.delay = Number(raw.delay, def.delay) /\ opt.runAt = Instant(raw.runAt, def.runAt)
          /\ opt.queue = Text(raw.queue, def.queue)
      BY DEF mergeJobOptions
    <2> HIDE DEF opt
    <2> QED
      BY <2>1 DEF IsOptions, Number, Instant
  <1> HIDE DEF opt
  <1>2. ASSUME NEW qp
        PROVE  /\ DOMAIN ApplyPolicy(opt, qp) = DOMAIN opt
               /\ ApplyPolicy(opt, qp).delay = opt.delay
               /\ ApplyPolicy(opt, qp).runAt = opt.runAt
    BY <1>1 DEF ApplyPolicy
  <1>3. F \subseteq DOMAIN set /\ set.delay \in Int /\ set.runAt \in Int
    BY <1>1, <1>2, Zenon
  <1>4. applyDefaults(raw, def, policies, paused) =
            IF opt.queue \in paused /\ set.delay <= 0 /\ set.runAt = 0
            THEN [set EXCEPT !.delay = 50] ELSE set
    BY Zenon DEF applyDefaults, opt
  <1> HIDE DEF set
  <1> QED
    BY <1>1, <1>3, <1>4

\* Pausing a queue keeps its jobs away from the two queues that know no delay:
\* a job of a paused queue never takes the fast path into basicq nor is it
\* pushed into fastq, whatever its options, the defaults of the pool and the
\* policy of the queue say (usability.go's applyDefaults, pool.go's submit).
THEOREM PausedJobsAreDelayed ==
    ASSUME NEW raw, IsOptions(raw), NEW def, IsOptions(def), NEW cfg,
           NEW policies, \A name \in DOMAIN policies : IsPolicy(policies[name]),
           NEW paused, Text(raw.queue, def.queue) \in paused,
           NEW freshID, NEW plain, NEW hasFuture
    PROVE  LET opt == Submitted(cfg, applyDefaults(raw, def, policies, paused), freshID)
           IN  ~useFastQueue(opt) /\ ~useBasicFastPath(cfg, plain, hasFuture, opt)
  <1> DEFINE set == applyDefaults(raw, def, policies, paused)
             opt == Submitted(cfg, set, freshID)
  <1>1. /\ {"id", "delay", "runAt", "attempts", "backoff", "timeout"} \subseteq DOMAIN set
        /\ set.delay # 0 \/ set.runAt # 0
    BY DefaultsDelay
  <1> HIDE DEF set
  <1>2. opt.delay = set.delay /\ opt.runAt = set.runAt
    BY <1>1 DEF Submitted
  <1> HIDE DEF opt
  <1>3. ~useFastQueue(opt) /\ ~useBasicFastPath(cfg, plain, hasFuture, opt)
    BY <1>1, <1>2 DEF useFastQueue, useBasicFastPath
  <1> QED
    BY <1>3, Zenon DEF opt, set

\* Submit to a normal pool gives every job an attempt, and a job with an
\* idempotency key an ID and a place outside basicq, where keys are not looked
\* at (pool.go's submit).
THEOREM SubmittedIsComplete ==
    ASSUME NEW p, IsPool(p), Normal(p), NEW raw, IsOptions(raw), NEW freshID, freshID # "",
           NEW plain, NEW hasFuture
    PROVE  LET opt == Submitted(p.cfg, raw, freshID)
           IN  /\ opt.attempts \in Nat \ {0}
               /\ opt.idempotencyKey # "" =>
                     opt.id # "" /\ ~useBasicFastPath(p.cfg, plain, hasFuture, opt)
  <1> DEFINE opt == Submitted(p.cfg, raw, freshID)
  <1>1. opt.attempts \in Nat \ {0}
    <2> DEFINE attempts == Number(raw.attempts, p.cfg.attempts)
    <2>1. opt.attempts = attempts
      BY DEF Submitted, IsOptions
    <2>2. attempts \in Nat \ {0}
      <3>1. raw.attempts \in Int /\ p.cfg.attempts \in Nat \ {0}
        BY DEF IsOptions, Normal
      <3> QED
        BY <3>1, Positive
    <2> QED
      BY <2>1, <2>2, Zenon
  <1>2. opt.idempotencyKey = raw.idempotencyKey /\ (raw.idempotencyKey # "" => opt.id # "")
    <2>1. opt.idempotencyKey = raw.idempotencyKey
      BY DEF Submitted, IsOptions
    <2>2. opt.id = IF raw.id = "" /\ (p.cfg.tracking \/ p.cfg.jobIDs \/ raw.idempotencyKey # "")
                   THEN freshID ELSE raw.id
      BY DEF Submitted, IsOptions
    <2> QED
      BY <2>1, <2>2, Zenon
  <1> HIDE DEF opt
  <1>3. opt.idempotencyKey # "" =>
           opt.id # "" /\ ~useBasicFastPath(p.cfg, plain, hasFuture, opt)
    BY <1>2 DEF useBasicFastPath
  <1> QED
    BY <1>1, <1>3, Zenon DEF opt
-----------------------------------------------------------------------------
\* A retry waits no longer than the Max of its ExponentialBackoff, if it has
\* one, even where the product does not fit a Duration; and where it fits, the
\* wait is not negative (backoff.go:22-46).
THEOREM BackoffIsCapped ==
    ASSUME NEW b, b.max \in Int, b.jitter \in BOOLEAN, NEW attempt, NEW longest \in Nat,
           Grown(b, attempt) \in Int, NEW v \in Delays(b, attempt, longest)
    PROVE  /\ b.max > 0 => v <= b.max
           /\ 0 <= Grown(b, attempt) /\ Grown(b, attempt) <= longest => v >= 0
  <1> DEFINE g == Grown(b, attempt)
             max == b.max
             jitter == b.jitter
  <1> HIDE DEF g
  <1>1. PICK d \in Converted(g, longest) : v \in Jittered(Capped(d, max), jitter)
    BY DEF Delays, g
  <1>2. d \in Int /\ (g <= longest => d = g)
    BY <1>1 DEF Converted, g
  <1> HIDE DEF max, jitter
  <1>3. /\ Capped(d, max) \in Int /\ (max > 0 => Capped(d, max) <= max)
        /\ (d >= 0 => Capped(d, max) >= 0)
    BY <1>2 DEF Capped, max
  <1> DEFINE c == Capped(d, max)
  <1> HIDE DEF c
  <1>4. v \in Int /\ v <= c /\ (c >= 0 => v >= 0)
    BY <1>1, <1>3 DEF Jittered, c
  <1>5. (max > 0 => v <= max) /\ (0 <= g /\ g <= longest => v >= 0)
    BY <1>2, <1>3, <1>4 DEF c, g, max
  <1> QED
    BY <1>5 DEF g, max
=============================================================================
