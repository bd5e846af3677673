---------------------------- MODULE LimitsProofs ----------------------------
(***************************************************************************)
(* Theorems about Limits for every set of jobs and workers, all limits and *)
(* rates, and however long the clock runs.                                 *)
(***************************************************************************)
EXTENDS Limits, FiniteSetTheorems, SequenceTheorems, TLAPS

Bucket == [rate : Int, burst : Int, last : Nat, tokens : Int]
-----------------------------------------------------------------------------
(* The arithmetic of one bucket: P is the price of a token, C what the     *)
(* bucket holds, T what is in it since the time L, g the grants so far.    *)

\* With what is left, the grants since any of them stay within the burst and
\* what has been earned since.
Budget(P, C, T, L, g) ==
    \A i \in 1..Len(g) : (Len(g) - i + 1) * P + T <= C + L - g[i]
Paced(P, C, g) ==
    \A i, k \in 1..Len(g) : i <= k => (k - i + 1) * P <= C + g[k] - g[i]

\* Refilling (rate_limiter.go:63) earns no more than the time that has passed.
LEMMA RefillKeepsBudget ==
    ASSUME NEW P \in Int, NEW C \in Int, NEW T \in Int, NEW L \in Int, NEW g \in Seq(Int),
           Budget(P, C, T, L, g), NEW E \in Int, NEW t \in Int, E <= T + t - L
    PROVE  Budget(P, C, E, t, g)
  <1> SUFFICES ASSUME NEW i \in 1..Len(g)
               PROVE  (Len(g) - i + 1) * P + E <= C + t - g[i]
    BY DEF Budget
  <1> DEFINE Q == (Len(g) - i + 1) * P
  <1>1. Q + T <= C + L - g[i]
    BY DEF Budget
  <1>2. Len(g) \in Nat /\ g[i] \in Int
    OBVIOUS
  <1>3. Q \in Int
    BY <1>2
  <1> HIDE DEF Q
  <1>4. Q + E <= C + t - g[i]
    BY <1>1, <1>2, <1>3
  <1> QED
    BY <1>4 DEF Q

\* A grant (rate_limiter.go:71-79): now if a token is there, else when the
\* missing part of it is earned.
LEMMA GrantKeepsBudget ==
    ASSUME NEW P \in Nat \ {0}, NEW C \in Int, P <= C, NEW g \in Seq(Int),
           NEW E \in Int, E <= C, NEW t \in Int,
           Budget(P, C, E, t, g), Paced(P, C, g),
           NEW G \in Int, G = t + (IF E >= P THEN 0 ELSE P - E)
    PROVE  Budget(P, C, E - P, t, Append(g, G)) /\ Paced(P, C, Append(g, G))
  <1> DEFINE n == Len(g)
             h == Append(g, G)
  <1>1. /\ n \in Nat /\ Len(h) = n + 1
        /\ \A i \in 1..n : h[i] = g[i] /\ g[i] \in Int
        /\ h[n + 1] = G
    BY AppendProperties
  <1> HIDE DEF h
  <1>2. ASSUME NEW i \in 1..n
        PROVE  (n + 1 - i + 1) * P + (E - P) <= C + t - h[i]
    <2>1. (n - i + 1) * P + E <= C + t - g[i]
      BY DEF Budget
    <2>2. (n + 1 - i + 1) * P = (n - i + 1) * P + P
      BY <1>1
    <2> DEFINE Q == (n - i + 1) * P
    <2>3. Q \in Int
      BY <1>1
    <2> HIDE DEF Q
    <2>4. Q + P + (E - P) <= C + t - g[i]
      BY <2>1, <2>3, <1>1 DEF Q
    <2> QED
      BY <2>2, <2>4, <1>1 DEF Q
  <1>3. (n + 1 - (n + 1) + 1) * P + (E - P) <= C + t - G
    BY <1>1
  <1>4. Budget(P, C, E - P, t, h)
    <2> SUFFICES ASSUME NEW i \in 1..n + 1
                 PROVE  (n + 1 - i + 1) * P + (E - P) <= C + t - h[i]
      BY <1>1 DEF Budget
    <2>1. CASE i \in 1..n
      BY <2>1, <1>2
    <2>2. CASE i = n + 1
      BY <2>2, <1>1, <1>3
    <2> QED
      BY <2>1, <2>2, <1>1
  <1>5. Paced(P, C, h)
    <2> SUFFICES ASSUME NEW i \in 1..n + 1, NEW k \in 1..n + 1, i <= k
                 PROVE  (k - i + 1) * P <= C + h[k] - h[i]
      BY <1>1 DEF Paced
    <2>1. CASE k \in 1..n
      <3>1. i \in 1..n
        BY <2>1, <1>1
      <3> QED
        BY <2>1, <3>1, <1>1 DEF Paced
    <2>2. CASE k = n + 1 /\ i \in 1..n
      <3> DEFINE Q == (n + 1 - i + 1) * P
      <3>1. Q + (E - P) <= C + t - h[i] /\ Q \in Int /\ h[i] \in Int
        BY <2>2, <1>1, <1>2
      <3> HIDE DEF Q
      <3>2. Q <= C + G - h[i]
        BY <3>1
      <3> QED
        BY <2>2, <3>2, <1>1 DEF Q
    <2>3. CASE k = n + 1 /\ i = n + 1
      <3>1. (k - i + 1) * P = P
        BY <2>3, <1>1
      <3> QED
        BY <2>3, <3>1, <1>1
    <2> QED
      BY <2>1, <2>2, <2>3, <1>1
  <1> QED
    BY <1>4, <1>5 DEF h
-----------------------------------------------------------------------------
(* Types. *)

\* What the types rest on: a worker that is not idle has a job in hand, and
\* whoever has loaded a bucket (pool.go's admitRate, delayForRateLimit) has
\* loaded one of those made so far.
AtHand == \A w \in Workers : wpc[w] # "idle" => wjob[w] \in Jobs
Asked ==
    /\ Len(buckets) > 0
    /\ \A j \in Jobs : jpc[j] = "asking" => jb[j] \in DOMAIN buckets
    /\ \A w \in Workers : wpc[w] = "reserve" => wait[w] \in DOMAIN buckets
\* SetRateLimit and reserveDelay keep a limited bucket's price and size sound.
Sound ==
    \A b \in DOMAIN buckets : ~Unlimited(b) =>
        Period(b) \in Nat \ {0} /\ Cap(b) \in Int /\ Period(b) <= Cap(b)
Typed == TypeOK /\ AtHand /\ Asked /\ Sound

\* A bucket as newBucket makes it (rate_limiter.go:38).
LEMMA NewBucketSound ==
    ASSUME now \in Nat, NEW r \in Rates
    PROVE  /\ NewBucket(r) \in Bucket
           /\ NewBucket(r).rate > 0 =>
                 /\ Second \div NewBucket(r).rate \in Nat \ {0}
                 /\ NewBucket(r).burst * (Second \div NewBucket(r).rate) \in Int
                 /\ Second \div NewBucket(r).rate
                       <= NewBucket(r).burst * (Second \div NewBucket(r).rate)
                 /\ NewBucket(r).tokens = NewBucket(r).burst * (Second \div NewBucket(r).rate)
                 /\ NewBucket(r).last = now
  <1> DEFINE d == Second \div r.rate
             n == Depth(r)
  <1>1. r.rate \in Int /\ r.burst \in Int /\ (r.rate > 0 => d \in Nat \ {0})
    BY LimitsAssumption DEF LimitsAssumption
  <1>2. n \in Int /\ (r.rate > 0 => n > 0)
    BY <1>1 DEF Depth
  <1> HIDE DEF d, n
  <1>3. r.rate > 0 => n * d \in Int /\ d <= n * d
    BY <1>1, <1>2
  <1>4. /\ NewBucket(r).rate = r.rate /\ NewBucket(r).burst = n /\ NewBucket(r).last = now
        /\ NewBucket(r).tokens = IF r.rate > 0 THEN n * d ELSE 0
    BY DEF NewBucket, d, n
  <1>5. NewBucket(r) = [rate |-> NewBucket(r).rate, burst |-> NewBucket(r).burst,
                        last |-> NewBucket(r).last, tokens |-> NewBucket(r).tokens]
    BY DEF NewBucket
  <1>6. (IF r.rate > 0 THEN n * d ELSE 0) \in Int
    BY <1>3
  <1> QED
    BY <1>1, <1>2, <1>3, <1>4, <1>5, <1>6 DEF Bucket, d

\* What the arithmetic of reserveDelay yields (rate_limiter.go:59-83).
LEMMA RefilledTypes ==
    ASSUME Typed, NEW b \in DOMAIN buckets
    PROVE  /\ buckets[b] \in Bucket /\ now \in Int
           /\ ~Unlimited(b) =>
                 /\ Refilled(b) \in Int /\ Refilled(b) <= Cap(b)
                 /\ Refilled(b) <= buckets[b].tokens + now - buckets[b].last
                 /\ Delay(b) = IF Refilled(b) >= Period(b) THEN 0 ELSE Period(b) - Refilled(b)
           /\ Delay(b) \in Int
  <1>1. buckets[b] \in Bucket /\ now \in Int
    <2>1. buckets \in Seq(Bucket) /\ now \in Int
      BY DEF Typed, TypeOK, Bucket
    <2> QED
      BY <2>1
  <1>2. ASSUME ~Unlimited(b)
        PROVE  /\ Refilled(b) \in Int /\ Refilled(b) <= Cap(b)
               /\ Refilled(b) <= buckets[b].tokens + now - buckets[b].last
    <2>1. Cap(b) \in Int
      BY <1>2 DEF Typed, Sound
    <2> DEFINE earned == buckets[b].tokens + (now - buckets[b].last)
    <2>2. earned \in Int /\ earned = buckets[b].tokens + now - buckets[b].last
      BY <1>1 DEF Bucket
    <2>3. Refilled(b) = IF earned > Cap(b) THEN Cap(b) ELSE earned
      BY DEF Refilled
    <2> HIDE DEF earned
    <2>4. Refilled(b) \in Int /\ Refilled(b) <= Cap(b) /\ Refilled(b) <= earned
      BY <2>1, <2>2, <2>3
    <2> QED
      BY <2>2, <2>4
  <1>3. ASSUME ~Unlimited(b)
        PROVE  /\ Delay(b) = IF Refilled(b) >= Period(b) THEN 0 ELSE Period(b) - Refilled(b)
               /\ Delay(b) \in Int
    <2>1. Period(b) \in Int
      BY <1>3 DEF Typed, Sound
    <2> QED
      BY <1>2, <1>3, <2>1 DEF Delay, Enough
  <1>4. ASSUME Unlimited(b)
        PROVE  Delay(b) \in Int
    BY <1>4 DEF Delay, Enough
  <1> QED
    BY <1>1, <1>2, <1>3, <1>4

\* A use of a bucket leaves its rate and burst, and all other buckets, alone.
LEMMA LeaveKeeps ==
    ASSUME Typed, NEW b \in DOMAIN buckets, NEW left, ~Unlimited(b) => left \in Int,
           Leave(b, left)
    PROVE  /\ buckets' \in Seq(Bucket) /\ DOMAIN buckets' = DOMAIN buckets
           /\ Len(buckets') = Len(buckets)
           /\ \A c \in DOMAIN buckets : /\ buckets'[c].rate = buckets[c].rate
                                        /\ buckets'[c].burst = buckets[c].burst
                                        /\ c # b => buckets'[c] = buckets[c]
           /\ ~Unlimited(b) => buckets'[b].tokens = left /\ buckets'[b].last = now
  <1>1. buckets \in Seq(Bucket) /\ now \in Nat
    BY DEF Typed, TypeOK, Bucket
  <1>2. CASE Unlimited(b)
    BY <1>1, <1>2 DEF Leave
  <1>3. CASE ~Unlimited(b)
    <2> DEFINE r == [buckets[b] EXCEPT !.tokens = left, !.last = now]
    <2>1. buckets[b] \in Bucket
      BY <1>1
    <2>2. /\ r \in Bucket /\ r.rate = buckets[b].rate /\ r.burst = buckets[b].burst
          /\ r.tokens = left /\ r.last = now
      BY <1>1, <1>3, <2>1 DEF Bucket
    <2>3. buckets' = [buckets EXCEPT ![b] = r]
      BY <1>3 DEF Leave
    <2> HIDE DEF r
    <2> QED
      BY <1>1, <2>2, <2>3
  <1> QED
    BY <1>2, <1>3

\* Every step leaves the buckets alone, replaces one, spends and grants a
\* token, or refills: reserveDelay is the only other writer.
LEMMA BucketSteps ==
    ASSUME Typed, [Next]_vars
    PROVE  \/ UNCHANGED <<buckets, grants>>
           \/ SetRateLimit
           \/ \E b \in DOMAIN buckets : Spend(b) /\ Granted(b)
           \/ \E b \in DOMAIN buckets : Refill(b) /\ UNCHANGED grants
  <1>1. ASSUME NEW j \in Jobs, Admit(j)
        PROVE  \E b \in DOMAIN buckets : Spend(b) /\ Granted(b)
    BY <1>1 DEF Admit, Typed, Asked
  <1>2. ASSUME NEW j \in Jobs, NotAdmitted(j)
        PROVE  \E b \in DOMAIN buckets : Refill(b) /\ UNCHANGED grants
    BY <1>2 DEF NotAdmitted, Typed, Asked
  <1>3. ASSUME NEW j \in Jobs, SubmitLoads(j) \/ Replay(j)
        PROVE  UNCHANGED <<buckets, grants>>
    BY <1>3 DEF SubmitLoads, Replay, limiter
  <1>4. ASSUME NEW w \in Workers, Reserve(w)
        PROVE  \E b \in DOMAIN buckets : Spend(b) /\ Granted(b)
    BY <1>4 DEF Reserve, Typed, Asked
  <1>5. ASSUME NEW w \in Workers, Execute(w), ~Reserve(w)
        PROVE  UNCHANGED <<buckets, grants>>
    BY <1>5 DEF Execute, Take, RateNotReady, RateReady, RateLoad, Reserved, Acquire, NoSlot,
                Succeeds, Fails, Release, limiter
  <1>6. ASSUME Tick \/ UNCHANGED vars
        PROVE  UNCHANGED <<buckets, grants>>
    BY <1>6 DEF Tick, vars, limiter
  <1> QED
    BY <1>1, <1>2, <1>3, <1>4, <1>5, <1>6 DEF Next

\* Making, using and replacing buckets keeps them sound.
LEMMA BucketsTyped ==
    ASSUME Typed, [Next]_vars
    PROVE  /\ buckets' \in Seq(Bucket) /\ Len(buckets') >= Len(buckets)
           /\ grants' \in Seq(Seq(Int)) /\ Len(grants') = Len(buckets')
           /\ Sound'
  <1>1. /\ buckets \in Seq(Bucket) /\ now \in Nat
        /\ grants \in Seq(Seq(Int)) /\ Len(grants) = Len(buckets)
        /\ DOMAIN buckets = 1..Len(buckets)
    BY DEF Typed, TypeOK, Bucket
  <1>2. CASE UNCHANGED <<buckets, grants>>
    BY <1>1, <1>2 DEF Typed, Sound, Unlimited, Period, Cap
  <1>3. CASE SetRateLimit
    <2>1. PICK r \in Rates : buckets' = Append(buckets, NewBucket(r))
      BY <1>3 DEF SetRateLimit
    <2>2. grants' = Append(grants, <<>>)
      BY <1>3 DEF SetRateLimit
    <2> DEFINE n == Len(buckets) + 1
    <2>3. /\ NewBucket(r) \in Bucket
          /\ buckets' \in Seq(Bucket) /\ Len(buckets') = n /\ buckets'[n] = NewBucket(r)
          /\ \A b \in DOMAIN buckets : buckets'[b] = buckets[b]
      BY <1>1, <2>1, NewBucketSound, AppendProperties
    <2>4. grants' \in Seq(Seq(Int)) /\ Len(grants') = n
      BY <1>1, <2>2
    <2>5. ASSUME NEW b \in DOMAIN buckets', ~Unlimited(b)'
          PROVE  (Period(b) \in Nat \ {0} /\ Cap(b) \in Int /\ Period(b) <= Cap(b))'
      <3>1. CASE b \in DOMAIN buckets
        BY <1>1, <2>3, <2>5, <3>1 DEF Typed, Sound, Unlimited, Period, Cap
      <3>2. CASE b = n
        <4> DEFINE c == NewBucket(r)
        <4>1. c \in Bucket /\ buckets'[b] = c /\ c.rate > 0
          BY <2>3, <2>5, <3>2 DEF Unlimited, Bucket
        <4> HIDE DEF c
        <4>2. Period(b)' = Second \div c.rate /\ Cap(b)' = c.burst * (Second \div c.rate)
          BY <4>1 DEF Period, Cap
        <4> QED
          BY <1>1, <4>1, <4>2, NewBucketSound DEF c
      <3> QED
        BY <1>1, <2>3, <3>1, <3>2
    <2> QED
      BY <1>1, <2>3, <2>4, <2>5 DEF Sound
  <1>4. ASSUME NEW b \in DOMAIN buckets, NEW left, ~Unlimited(b) => left \in Int,
               Leave(b, left), UNCHANGED grants \/ Granted(b)
        PROVE  /\ buckets' \in Seq(Bucket) /\ Len(buckets') >= Len(buckets)
               /\ grants' \in Seq(Seq(Int)) /\ Len(grants') = Len(buckets')
               /\ Sound'
    <2>1. /\ buckets' \in Seq(Bucket) /\ DOMAIN buckets' = DOMAIN buckets
          /\ Len(buckets') = Len(buckets)
          /\ \A c \in DOMAIN buckets : /\ buckets'[c].rate = buckets[c].rate
                                       /\ buckets'[c].burst = buckets[c].burst
      BY <1>4, LeaveKeeps
    <2>2. Sound'
      <3> SUFFICES ASSUME NEW c \in DOMAIN buckets', ~Unlimited(c)'
                   PROVE  (Period(c) \in Nat \ {0} /\ Cap(c) \in Int /\ Period(c) <= Cap(c))'
        BY DEF Sound
      <3>1. Unlimited(c)' = Unlimited(c) /\ Period(c)' = Period(c) /\ Cap(c)' = Cap(c)
        BY <2>1 DEF Unlimited, Period, Cap
      <3> QED
        BY <2>1, <3>1 DEF Typed, Sound
    <2>3. grants' \in Seq(Seq(Int)) /\ Len(grants') = Len(grants)
      <3>1. CASE UNCHANGED grants
        BY <1>1, <3>1
      <3>2. CASE Granted(b)
        <4>1. now + Delay(b) \in Int
          BY <1>1, RefilledTypes
        <4>2. Append(grants[b], now + Delay(b)) \in Seq(Int)
          BY <1>1, <1>4, <4>1
        <4> QED
          BY <1>1, <1>4, <3>2, <4>2, ExceptSeq DEF Granted
      <3> QED
        BY <1>4, <3>1, <3>2
    <2> QED
      BY <1>1, <2>1, <2>2, <2>3
  <1>5. ASSUME NEW b \in DOMAIN buckets
        PROVE  ~Unlimited(b) => Refilled(b) \in Int /\ Refilled(b) - Period(b) \in Int
    BY RefilledTypes DEF Typed, Sound
  <1> QED
    BY <1>2, <1>3, <1>4, <1>5, BucketSteps DEF Spend, Refill

\* The types of the jobs and of the workers, apart from each other.
JobPlaces == {"new", "asking", "refused", "queued", "held", "done", "dead"}
Places == {"idle", "rate", "reserve", "reserved", "acquire", "run", "release"}
JobsTyped ==
    /\ jpc \in [Jobs -> JobPlaces]
    /\ jb \in [Jobs -> Nat]
    /\ runAt \in [Jobs -> Int] /\ readyAt \in [Jobs -> Int]
    /\ tries \in [Jobs -> Nat] /\ starts \in [Jobs -> Nat] /\ replays \in Nat
    /\ \A j \in Jobs : jpc[j] = "asking" => jb[j] \in 1..Len(buckets)
HandsTyped ==
    /\ wpc \in [Workers -> Places]
    /\ wjob \in [Workers -> Jobs \cup {None}]
    /\ wait \in [Workers -> Int]
    /\ AtHand
    /\ \A w \in Workers : wpc[w] = "reserve" => wait[w] \in 1..Len(buckets)

Parts ==
    /\ JobsTyped /\ HandsTyped /\ now \in Nat \ {0} /\ mode \in Modes /\ active \in Nat
    /\ buckets \in Seq(Bucket) /\ Len(buckets) > 0
    /\ grants \in Seq(Seq(Int)) /\ Len(grants) = Len(buckets)
    /\ Sound

LEMMA TypedParts == Typed <=> Parts
  <1>1. (buckets \in Seq(Bucket) => DOMAIN buckets = 1..Len(buckets) /\ Len(buckets) \in Nat)
    OBVIOUS
  <1>2. ASSUME Typed PROVE Parts
    BY <1>1, <1>2 DEF Typed, TypeOK, Asked, JobsTyped, HandsTyped, JobPlaces, Places, Bucket, Parts
  <1>3. ASSUME Parts PROVE Typed
    <2>1. AtHand /\ Asked
      BY <1>1, <1>3 DEF Parts, JobsTyped, HandsTyped, Asked
    <2>2. TypeOK
      BY <1>3 DEF Parts, TypeOK, JobsTyped, HandsTyped, JobPlaces, Places, Bucket
    <2> QED
      BY <1>3, <2>1, <2>2 DEF Typed, Parts
  <1> QED
    BY <1>2, <1>3

\* requeue (pool.go's delay paths): the job is in the heap again, or dead.
LEMMA RequeueTypes ==
    ASSUME JobsTyped, Len(buckets') >= Len(buckets), Len(buckets) \in Nat, Len(buckets') \in Nat,
           NEW j \in Jobs, NEW at \in Int, Requeue(j, at),
           readyAt' \in [Jobs -> Int], UNCHANGED <<jb, tries, starts, replays>>
    PROVE  JobsTyped'
  <1>1. /\ jpc' \in [Jobs -> JobPlaces]
        /\ \A i \in Jobs : jpc'[i] = "asking" => jpc[i] = "asking"
    BY DEF JobsTyped, JobPlaces, Requeue
  <1>2. runAt' \in [Jobs -> Int]
    BY DEF JobsTyped, Requeue
  <1> QED
    BY <1>1, <1>2 DEF JobsTyped

LEMMA LetGoTypes ==
    ASSUME HandsTyped, Len(buckets') >= Len(buckets), Len(buckets) \in Nat, Len(buckets') \in Nat,
           NEW w \in Workers, LetGo(w)
    PROVE  HandsTyped'
  BY DEF HandsTyped, AtHand, Places, LetGo

LEMMA GotoTypes ==
    ASSUME HandsTyped, Len(buckets') >= Len(buckets), Len(buckets) \in Nat, Len(buckets') \in Nat,
           NEW w \in Workers, wpc[w] # "idle", NEW where \in Places \ {"idle"}, Goto(w, where),
           NEW d \in Int, wait' = [wait EXCEPT ![w] = d] \/ UNCHANGED wait,
           where = "reserve" => wait' = [wait EXCEPT ![w] = d] /\ d \in 1..Len(buckets)
    PROVE  HandsTyped'
  BY DEF HandsTyped, AtHand, Places, Goto

\* The types of the jobs: the steps of submitters, replays and workers.
LEMMA JobSteps ==
    ASSUME Typed, [Next]_vars
    PROVE  JobsTyped'
  <1>0. /\ JobsTyped /\ Len(buckets) \in Nat \ {0} /\ Len(buckets') \in Nat
        /\ Len(buckets') >= Len(buckets) /\ now \in Nat \ {0}
    BY TypedParts, BucketsTyped DEF Parts
  <1>1. ASSUME NEW w \in Workers, wpc[w] # "idle"
        PROVE  wjob[w] \in Jobs /\ wait[w] \in Int
    BY <1>1, TypedParts DEF Parts, HandsTyped, AtHand
  <1>2. CASE UNCHANGED jobs
    BY <1>0, <1>2 DEF JobsTyped, jobs
  <1>3. ASSUME NEW j \in Jobs, SubmitLoads(j)
        PROVE  JobsTyped'
    BY <1>0, <1>3 DEF SubmitLoads, JobsTyped, JobPlaces
  <1>4. ASSUME NEW j \in Jobs, Admit(j)
        PROVE  JobsTyped'
    BY <1>0, <1>4 DEF Admit, JobsTyped, JobPlaces
  <1>5. ASSUME NEW j \in Jobs, NotAdmitted(j)
        PROVE  JobsTyped'
    <2>1. /\ jpc' \in [Jobs -> JobPlaces] /\ jb' \in [Jobs -> Nat]
          /\ \A i \in Jobs : jpc'[i] = "asking" => jpc[i] = "asking" /\ jb'[i] = jb[i]
      <3>1. CASE UNCHANGED <<jpc, jb>>
        BY <1>0, <3>1 DEF JobsTyped
      <3>2. CASE jpc' = [jpc EXCEPT ![j] = "refused"] /\ jb' = [jb EXCEPT ![j] = 0]
        BY <1>0, <3>2 DEF JobsTyped, JobPlaces
      <3> QED
        BY <1>5, <3>1, <3>2 DEF NotAdmitted
    <2>2. UNCHANGED <<runAt, readyAt, tries, starts, replays>>
      BY <1>5 DEF NotAdmitted
    <2> QED
      BY <1>0, <2>1, <2>2 DEF JobsTyped
  <1>6. ASSUME NEW j \in Jobs, Replay(j)
        PROVE  JobsTyped'
    BY <1>0, <1>6 DEF Replay, JobsTyped, JobPlaces
  <1>7. ASSUME NEW w \in Workers, NEW j \in Jobs, Take(w, j)
        PROVE  JobsTyped'
    BY <1>0, <1>7 DEF Take, JobsTyped, JobPlaces
  <1>8. ASSUME NEW w \in Workers, RateNotReady(w)
        PROVE  JobsTyped'
    <2>1. wjob[w] \in Jobs /\ readyAt[wjob[w]] \in Int /\ UNCHANGED readyAt
      BY <1>0, <1>1, <1>8 DEF RateNotReady, JobsTyped
    <2> QED
      BY <1>0, <1>8, <2>1, RequeueTypes DEF RateNotReady, JobsTyped
  <1>9. ASSUME NEW w \in Workers, RateReady(w)
        PROVE  JobsTyped'
    BY <1>0, <1>1, <1>9 DEF RateReady, JobsTyped
  <1>10. ASSUME NEW w \in Workers, Reserved(w)
         PROVE  JobsTyped'
    <2>1. wjob[w] \in Jobs /\ now + wait[w] \in Int
      BY <1>0, <1>1, <1>10 DEF Reserved
    <2>2. readyAt' \in [Jobs -> Int]
      BY <1>0, <1>10, <2>1 DEF Reserved, JobsTyped
    <2> QED
      BY <1>0, <1>10, <2>1, <2>2, RequeueTypes DEF Reserved
  <1>11. ASSUME NEW w \in Workers, Acquire(w)
         PROVE  JobsTyped'
    BY <1>0, <1>1, <1>11 DEF Acquire, JobsTyped
  <1>12. ASSUME NEW w \in Workers, NoSlot(w)
         PROVE  JobsTyped'
    <2>1. wjob[w] \in Jobs /\ now + 1 \in Int /\ readyAt' \in [Jobs -> Int]
      BY <1>0, <1>1, <1>12 DEF NoSlot, JobsTyped
    <2> QED
      BY <1>0, <1>12, <2>1, RequeueTypes DEF NoSlot
  <1>13. ASSUME NEW w \in Workers, Succeeds(w)
         PROVE  JobsTyped'
    BY <1>0, <1>1, <1>13 DEF Succeeds, JobsTyped, JobPlaces
  <1>14. ASSUME NEW w \in Workers, Fails(w)
         PROVE  JobsTyped'
    <2>1. /\ wjob[w] \in Jobs /\ now \in Int /\ readyAt' \in [Jobs -> Int]
          /\ UNCHANGED <<jb, tries, starts, replays>>
      BY <1>0, <1>1, <1>14 DEF Fails, JobsTyped
    <2>2. Requeue(wjob[w], now)
      BY <1>14 DEF Fails, Requeue
    <2> QED
      BY <1>0, <2>1, <2>2, RequeueTypes
  <1> QED
    BY <1>2, <1>3, <1>4, <1>5, <1>6, <1>7, <1>8, <1>9, <1>10, <1>11, <1>12, <1>13, <1>14
    DEF Next, Execute, Tick, SetRateLimit, RateLoad, Reserve, Release, vars

\* The types of the workers.
LEMMA HandSteps ==
    ASSUME Typed, [Next]_vars
    PROVE  HandsTyped'
  <1>0. /\ HandsTyped /\ Len(buckets) \in Nat \ {0} /\ Len(buckets') \in Nat
        /\ Len(buckets') >= Len(buckets) /\ now \in Nat \ {0}
    BY TypedParts, BucketsTyped DEF Parts
  <1>1. CASE UNCHANGED hands
    BY <1>0, <1>1 DEF HandsTyped, AtHand, hands
  <1>2. ASSUME NEW w \in Workers, NEW j \in Jobs, Take(w, j)
        PROVE  HandsTyped'
    BY <1>0, <1>2 DEF Take, HandsTyped, AtHand, Places
  <1>3. ASSUME NEW w \in Workers, LetGo(w)
        PROVE  HandsTyped'
    BY <1>0, <1>3, LetGoTypes
  <1>4. ASSUME NEW w \in Workers, RateReady(w) \/ Acquire(w) \/ Succeeds(w) \/ Fails(w)
        PROVE  HandsTyped'
    <2>1. PICK where \in {"acquire", "run", "release"} : Goto(w, where)
      BY <1>4 DEF RateReady, Acquire, Succeeds, Fails
    <2>2. wpc[w] # "idle" /\ UNCHANGED wait
      BY <1>4 DEF RateReady, Acquire, Succeeds, Fails
    <2> QED
      BY <1>0, <2>1, <2>2, GotoTypes DEF Places
  <1>5. ASSUME NEW w \in Workers, RateLoad(w)
        PROVE  HandsTyped'
    <2> DEFINE d == IF mode = "queue" THEN Len(buckets) ELSE 0
               where == IF mode = "queue" THEN "reserve" ELSE "acquire"
    <2>1. wait' = [wait EXCEPT ![w] = d] /\ Goto(w, where) /\ wpc[w] # "idle"
      BY <1>5 DEF RateLoad
    <2>2. d \in Int /\ where \in Places \ {"idle"} /\ (where = "reserve" => d \in 1..Len(buckets))
      BY <1>0 DEF Places
    <2> HIDE DEF d, where
    <2> QED
      BY <1>0, <2>1, <2>2, GotoTypes
  <1>6. ASSUME NEW w \in Workers, Reserve(w)
        PROVE  HandsTyped'
    <2> DEFINE d == Delay(wait[w])
               where == IF Enough(wait[w]) THEN "acquire" ELSE "reserved"
    <2>1. wait' = [wait EXCEPT ![w] = d] /\ Goto(w, where) /\ wpc[w] # "idle"
      BY <1>6 DEF Reserve
    <2>2. d \in Int
      BY <1>6, RefilledTypes DEF Reserve, Typed, Asked
    <2>3. where \in Places \ {"idle"} /\ where # "reserve"
      BY DEF Places
    <2> HIDE DEF d, where
    <2> QED
      BY <1>0, <2>1, <2>2, <2>3, GotoTypes
  <1> QED
    BY <1>1, <1>2, <1>3, <1>4, <1>5, <1>6
    DEF Next, Execute, Tick, SetRateLimit, SubmitLoads, Admit, NotAdmitted, Replay, vars,
        RateNotReady, Reserved, NoSlot, Release

\* Type correctness, for every set of jobs, workers and rates.
THEOREM LimitsTypes == Spec => []Typed
  <1>1. Init => Typed
    <2> SUFFICES ASSUME Init PROVE Typed
      OBVIOUS
    <2>1. PICK r \in Rates : buckets = <<NewBucket(r)>>
      BY DEF Init
    <2>2. now = 1 /\ grants = << <<>> >> /\ mode \in Modes /\ active = 0
      BY DEF Init
    <2>3. buckets \in Seq(Bucket) /\ Len(buckets) = 1 /\ buckets[1] = NewBucket(r)
      BY <2>1, <2>2, NewBucketSound
    <2>4. Sound
      <3> DEFINE c == NewBucket(r)
      <3> SUFFICES ASSUME NEW b \in DOMAIN buckets, ~Unlimited(b)
                   PROVE  Period(b) \in Nat \ {0} /\ Cap(b) \in Int /\ Period(b) <= Cap(b)
        BY DEF Sound
      <3>1. buckets[b] = c
        BY <2>3
      <3> HIDE DEF c
      <3>2. c.rate > 0
        BY <2>2, <3>1, NewBucketSound DEF Unlimited, Bucket, c
      <3>3. Period(b) = Second \div c.rate /\ Cap(b) = c.burst * (Second \div c.rate)
        BY <3>1, <3>2 DEF Period, Cap
      <3> QED
        BY <2>2, <3>2, <3>3, NewBucketSound DEF c
    <2>5. JobsTyped
      BY DEF Init, JobsTyped, JobPlaces
    <2>6. HandsTyped
      BY DEF Init, HandsTyped, AtHand, Places
    <2>7. grants \in Seq(Seq(Int)) /\ Len(grants) = 1
      BY <2>2
    <2> QED
      BY <2>2, <2>3, <2>4, <2>5, <2>6, <2>7, TypedParts DEF Parts
  <1>2. Typed /\ [Next]_vars => Typed'
    <2> SUFFICES ASSUME Typed, [Next]_vars PROVE Typed'
      OBVIOUS
    <2>1. JobsTyped' /\ HandsTyped'
      BY JobSteps, HandSteps
    <2>2. now' \in Nat \ {0} /\ mode' \in Modes
      <3>1. now \in Nat \ {0} /\ mode \in Modes
        BY TypedParts DEF Parts
      <3>2. UNCHANGED mode /\ (UNCHANGED now \/ now' = now + 1)
        BY DEF Next, Execute, Tick, SetRateLimit, SubmitLoads, Admit, NotAdmitted, Replay, vars,
               Take, RateNotReady, RateReady, RateLoad, Reserve, Reserved, Acquire, NoSlot,
               Succeeds, Fails, Release, limiter
      <3> QED
        BY <3>1, <3>2
    <2>3. active' \in Nat
      <3>1. active \in Nat
        BY TypedParts DEF Parts
      <3>2. \/ UNCHANGED active \/ active' = active + 1
            \/ active' = IF active > 1 THEN active - 1 ELSE 0
        BY DEF Next, Execute, Tick, SetRateLimit, SubmitLoads, Admit, NotAdmitted, Replay, vars,
               Take, RateNotReady, RateReady, RateLoad, Reserve, Reserved, Acquire, NoSlot,
               Succeeds, Fails, Release
      <3> QED
        BY <3>1, <3>2
    <2>4. /\ buckets' \in Seq(Bucket) /\ Len(buckets') > 0
          /\ grants' \in Seq(Seq(Int)) /\ Len(grants') = Len(buckets') /\ Sound'
      BY BucketsTyped, TypedParts DEF Parts
    <2>5. Parts'
      BY <2>1, <2>2, <2>3, <2>4 DEF Parts
    <2> QED
      BY <2>5, TypedParts, PTL
  <1> QED
    BY <1>1, <1>2, PTL DEF Spec
-----------------------------------------------------------------------------
(* The keyed semaphore. *)

LEMMA HoldersFinite ==
    IsFiniteSet(Holders) /\ Cardinality(Holders) \in Nat
  BY FS_Subset, FS_CardinalityType, LimitsAssumption DEF LimitsAssumption, Holders

\* tryAcquire and release (rate_limiter.go:91-113) with every job limited: one
\* worker more, or one less, holds a slot and the count follows.
LEMMA SlotSteps ==
    ASSUME Typed, SlotsCounted, [Next]_vars, AllLimited
    PROVE  /\ active' = Cardinality(Holders')
           /\ \A w \in Workers : wpc[w] = "acquire" /\ wpc'[w] = "run" =>
                 Cardinality(Holders') <= Limit[wjob[w]]
  <1>0. /\ HandsTyped /\ active = Cardinality(Holders) /\ active \in Nat
        /\ \A w \in Workers : wpc[w] # "idle" => wjob[w] \in Jobs
        /\ \A j \in Jobs : Limit[j] \in Int /\ Limit[j] > 0
    BY TypedParts, LimitsAssumption
    DEF Parts, HandsTyped, AtHand, SlotsCounted, AllLimited, LimitsAssumption
  <1>1. ASSUME NEW w \in Workers, Acquire(w)
        PROVE  /\ active' = Cardinality(Holders')
               /\ \A v \in Workers : wpc[v] = "acquire" /\ wpc'[v] = "run" =>
                     Cardinality(Holders') <= Limit[wjob[v]]
    <2>1. wpc[w] = "acquire" /\ wjob[w] \in Jobs
      BY <1>0, <1>1 DEF Acquire
    <2>2. Holders' = Holders \cup {w} /\ w \notin Holders
      BY <1>0, <1>1, <2>1 DEF Acquire, Goto, Holders, HandsTyped, Places
    <2>3. Cardinality(Holders') = Cardinality(Holders) + 1
      BY <2>2, HoldersFinite, FS_AddElement
    <2>4. active < Limit[wjob[w]] /\ active' = active + 1
      BY <1>0, <1>1, <2>1 DEF Acquire, HasRoom
    <2>5. \A v \in Workers : wpc[v] = "acquire" /\ wpc'[v] = "run" => v = w
      BY <1>0, <1>1 DEF Acquire, Goto, HandsTyped
    <2> QED
      BY <1>0, <2>1, <2>3, <2>4, <2>5
  <1>2. ASSUME NEW w \in Workers, Release(w)
        PROVE  /\ active' = Cardinality(Holders')
               /\ \A v \in Workers : ~(wpc[v] = "acquire" /\ wpc'[v] = "run")
    <2>1. wpc[w] = "release" /\ wjob[w] \in Jobs
      BY <1>0, <1>2 DEF Release
    <2>2. Holders' = Holders \ {w} /\ w \in Holders
      BY <1>0, <1>2, <2>1 DEF Release, LetGo, Holders, HandsTyped, Places
    <2>3. Cardinality(Holders') = Cardinality(Holders) - 1
      BY <2>2, HoldersFinite, FS_RemoveElement
    <2>4. active > 0 /\ active' = active - 1
      <3>1. active # 0
        BY <1>0, <2>2, HoldersFinite, FS_EmptySet
      <3> QED
        BY <1>0, <1>2, <3>1 DEF Release
    <2>5. \A v \in Workers : ~(wpc[v] = "acquire" /\ wpc'[v] = "run")
      BY <1>0, <1>2 DEF Release, LetGo, HandsTyped
    <2> QED
      BY <1>0, <2>3, <2>4, <2>5
  <1>3. ASSUME Holders' = Holders, UNCHANGED active,
               \A v \in Workers : ~(wpc[v] = "acquire" /\ wpc'[v] = "run")
        PROVE  /\ active' = Cardinality(Holders')
               /\ \A v \in Workers : wpc[v] = "acquire" /\ wpc'[v] = "run" =>
                     Cardinality(Holders') <= Limit[wjob[v]]
    BY <1>0, <1>3
  <1>4. CASE UNCHANGED <<hands, active>>
    BY <1>3, <1>4 DEF hands, Holders
  <1>5. ASSUME NEW w \in Workers, NEW j \in Jobs, Take(w, j)
        PROVE  /\ Holders' = Holders /\ UNCHANGED active
               /\ \A v \in Workers : ~(wpc[v] = "acquire" /\ wpc'[v] = "run")
    BY <1>0, <1>5 DEF Take, Holders, HandsTyped
  <1>6. ASSUME NEW w \in Workers, RateNotReady(w) \/ Reserved(w) \/ NoSlot(w)
        PROVE  /\ Holders' = Holders /\ UNCHANGED active
               /\ \A v \in Workers : ~(wpc[v] = "acquire" /\ wpc'[v] = "run")
    <2>1. LetGo(w) /\ wpc[w] \in {"rate", "reserved", "acquire"} /\ UNCHANGED active
      BY <1>6 DEF RateNotReady, Reserved, NoSlot
    <2> QED
      BY <1>0, <2>1 DEF LetGo, Holders, HandsTyped
  <1>7. ASSUME NEW w \in Workers, RateReady(w) \/ RateLoad(w) \/ Reserve(w)
        PROVE  /\ Holders' = Holders /\ UNCHANGED active
               /\ \A v \in Workers : ~(wpc[v] = "acquire" /\ wpc'[v] = "run")
    <2>1. PICK where \in {"acquire", "reserve", "reserved"} : Goto(w, where)
      BY <1>7 DEF RateReady, RateLoad, Reserve
    <2>2. wpc[w] \in {"rate", "reserve"} /\ UNCHANGED active
      BY <1>7 DEF RateReady, RateLoad, Reserve
    <2> QED
      BY <1>0, <2>1, <2>2 DEF Goto, Holders, HandsTyped
  <1>8. ASSUME NEW w \in Workers, Succeeds(w) \/ Fails(w)
        PROVE  /\ Holders' = Holders /\ UNCHANGED active
               /\ \A v \in Workers : ~(wpc[v] = "acquire" /\ wpc'[v] = "run")
    <2>1. Goto(w, "release") /\ wpc[w] = "run" /\ UNCHANGED active
      BY <1>8 DEF Succeeds, Fails
    <2> QED
      BY <1>0, <2>1 DEF Goto, Holders, HandsTyped
  <1>9. CASE \E w \in Workers : Acquire(w) \/ Release(w)
    BY <1>1, <1>2, <1>9
  <1>10. CASE \/ \E w \in Workers, j \in Jobs : Take(w, j)
              \/ \E w \in Workers : RateNotReady(w) \/ Reserved(w) \/ NoSlot(w) \/ RateReady(w)
                     \/ RateLoad(w) \/ Reserve(w) \/ Succeeds(w) \/ Fails(w)
    BY <1>3, <1>5, <1>6, <1>7, <1>8, <1>10
  <1> QED
    BY <1>4, <1>9, <1>10
    DEF Next, Execute, Tick, SetRateLimit, SubmitLoads, Admit, NotAdmitted, Replay, vars

\* The count of a key is the number of workers that hold a slot of it, however
\* retries overlap with the attempts before them.
THEOREM SlotsAreCounted == Spec => []SlotsCounted
  <1>1. Init => SlotsCounted
    <2> SUFFICES ASSUME Init PROVE SlotsCounted
      OBVIOUS
    <2>1. Holders = {} /\ active = 0
      BY DEF Init, Holders
    <2> QED
      BY <2>1, FS_EmptySet DEF SlotsCounted
  <1>2. Typed /\ SlotsCounted /\ [Next]_vars => SlotsCounted'
    BY SlotSteps DEF SlotsCounted, AllLimited
  <1> QED
    BY <1>1, <1>2, LimitsTypes, PTL DEF Spec

\* No job begins beyond its own MaxConcurrentPerKey, whatever the limits of
\* the other jobs of the key are (pool.go's execute, keyedSemaphore).
THEOREM LimitIsKept == Spec => WithinLimit
  <1>1. Typed /\ SlotsCounted /\ [Next]_vars =>
            [AllLimited =>
                \A w \in Workers : wpc[w] = "acquire" /\ wpc'[w] = "run" =>
                    Cardinality(Holders') <= Limit[wjob[w]]]_vars
    BY SlotSteps
  <1> QED
    BY <1>1, LimitsTypes, SlotsAreCounted, PTL DEF Spec, WithinLimit
-----------------------------------------------------------------------------
(* The token bucket. *)

Kept(b) ==
    ~Unlimited(b) =>
        /\ Budget(Period(b), Cap(b), buckets[b].tokens, buckets[b].last, grants[b])
        /\ Paced(Period(b), Cap(b), grants[b])
RatesKept == \A b \in DOMAIN buckets : Kept(b)

\* A bucket that a step leaves alone keeps its budget.
LEMMA SameBucket ==
    ASSUME NEW b, Kept(b), buckets'[b] = buckets[b], grants'[b] = grants[b]
    PROVE  Kept(b)'
  BY DEF Kept, Unlimited, Period, Cap

\* reserveDelay refills, and may grant a token: both keep the budget.
LEMMA UseKeeps ==
    ASSUME Typed, RatesKept, NEW b \in DOMAIN buckets,
           (Spend(b) /\ Granted(b)) \/ (Refill(b) /\ UNCHANGED grants)
    PROVE  RatesKept'
  <1>0. /\ grants \in Seq(Seq(Int)) /\ Len(grants) = Len(buckets)
        /\ buckets \in Seq(Bucket) /\ now \in Nat
        /\ DOMAIN buckets = 1..Len(buckets) /\ DOMAIN grants = DOMAIN buckets
    BY TypedParts DEF Parts
  <1> DEFINE P == Period(b)
             C == Cap(b)
             E == Refilled(b)
             g == grants[b]
  <1>1. PICK left : /\ Leave(b, left)
                    /\ \/ left = E - P /\ Granted(b)
                       \/ left = E /\ UNCHANGED grants
    BY DEF Spend, Refill
  <1>2. ASSUME ~Unlimited(b)
        PROVE  /\ P \in Nat \ {0} /\ C \in Int /\ P <= C /\ E \in Int /\ E <= C
               /\ E <= buckets[b].tokens + now - buckets[b].last
               /\ Delay(b) = IF E >= P THEN 0 ELSE P - E
    BY <1>2, RefilledTypes DEF Typed, Sound
  <1>3. /\ DOMAIN buckets' = DOMAIN buckets
        /\ \A c \in DOMAIN buckets : /\ buckets'[c].rate = buckets[c].rate
                                     /\ buckets'[c].burst = buckets[c].burst
                                     /\ c # b => buckets'[c] = buckets[c]
        /\ ~Unlimited(b) => buckets'[b].tokens = left /\ buckets'[b].last = now
    BY <1>1, <1>2, LeaveKeeps
  <1>4. \A c \in DOMAIN buckets : c # b => grants'[c] = grants[c]
    BY <1>0, <1>1 DEF Granted
  <1>5. ASSUME ~Unlimited(b)
        PROVE  Budget(P, C, left, now, grants'[b]) /\ Paced(P, C, grants'[b])
    <2>1. /\ g \in Seq(Int) /\ buckets[b].tokens \in Int /\ buckets[b].last \in Int
          /\ now \in Int
      <3>1. buckets[b] \in Bucket
        BY <1>0
      <3>2. buckets[b].tokens \in Int /\ buckets[b].last \in Int
        BY <3>1 DEF Bucket
      <3>3. grants[b] \in Seq(Int)
        BY <1>0
      <3> QED
        BY <1>0, <3>2, <3>3
    <2>2. /\ Budget(P, C, buckets[b].tokens, buckets[b].last, g) /\ Paced(P, C, g)
      BY <1>5 DEF RatesKept, Kept
    <2>3. P \in Int /\ P \in Nat \ {0} /\ C \in Int /\ E \in Int
      BY <1>2, <1>5
    <2>4. E <= C /\ P <= C /\ E <= buckets[b].tokens + now - buckets[b].last
      BY <1>2, <1>5
    <2> HIDE DEF P, C, E, g
    <2>5. Budget(P, C, E, now, g)
      BY <2>1, <2>2, <2>3, <2>4, RefillKeepsBudget
    <2>6. CASE left = E /\ UNCHANGED grants
      BY <2>2, <2>5, <2>6 DEF g
    <2>7. CASE left = E - P /\ Granted(b)
      <3> DEFINE G == now + Delay(b)
      <3>1. G \in Int /\ G = now + (IF E >= P THEN 0 ELSE P - E)
        BY <1>2, <1>5, <2>1, <2>3 DEF P, E
      <3>2. grants'[b] = Append(g, G)
        BY <1>0, <2>7 DEF Granted, g
      <3> HIDE DEF G
      <3>3. Budget(P, C, E - P, now, Append(g, G)) /\ Paced(P, C, Append(g, G))
        BY <2>1, <2>2, <2>3, <2>4, <2>5, <3>1, GrantKeepsBudget
      <3> QED
        BY <2>7, <3>2, <3>3
    <2> QED
      BY <1>1, <2>6, <2>7 DEF E, P
  <1>6. Unlimited(b)' = Unlimited(b) /\ Period(b)' = P /\ Cap(b)' = C
    BY <1>3 DEF Unlimited, Period, Cap
  <1> HIDE DEF P, C, E, g
  <1>7. Kept(b)'
    BY <1>3, <1>5, <1>6 DEF Kept
  <1>8. ASSUME NEW c \in DOMAIN buckets, c # b
        PROVE  Kept(c)'
    BY <1>3, <1>4, <1>8, SameBucket DEF RatesKept
  <1> QED
    BY <1>3, <1>7, <1>8 DEF RatesKept

\* No window of time sees more tokens of a bucket fall due than its burst and
\* what it earns in the window, however many goroutines reserve, for every
\* rate and burst (rate_limiter.go's reserveDelay).
THEOREM RateIsKept == Spec => []WithinRate
  <1>1. Init => RatesKept
    <2> SUFFICES ASSUME Init, NEW b \in DOMAIN buckets PROVE Kept(b)
      BY DEF RatesKept
    <2>1. grants[b] = <<>>
      BY DEF Init
    <2> QED
      BY <2>1 DEF Kept, Budget, Paced
  <1>2. Typed /\ RatesKept /\ [Next]_vars => RatesKept'
    <2> SUFFICES ASSUME Typed, RatesKept, [Next]_vars PROVE RatesKept'
      OBVIOUS
    <2>0. /\ buckets \in Seq(Bucket) /\ grants \in Seq(Seq(Int)) /\ Len(grants) = Len(buckets)
          /\ now \in Nat
      BY TypedParts DEF Parts
    <2>1. CASE UNCHANGED <<buckets, grants>>
      BY <2>1, SameBucket DEF RatesKept
    <2>2. CASE SetRateLimit
      <3>1. PICK r \in Rates : buckets' = Append(buckets, NewBucket(r))
        BY <2>2 DEF SetRateLimit
      <3>2. grants' = Append(grants, <<>>)
        BY <2>2 DEF SetRateLimit
      <3>3. NewBucket(r) \in Bucket
        BY <2>0, NewBucketSound
      <3>4. ASSUME NEW b \in DOMAIN buckets
            PROVE  Kept(b)'
        <4>1. buckets'[b] = buckets[b] /\ grants'[b] = grants[b]
          BY <2>0, <3>1, <3>2, <3>3
        <4> QED
          BY <4>1, SameBucket DEF RatesKept
      <3>5. ASSUME NEW b, b = Len(buckets) + 1
            PROVE  Kept(b)'
        <4>1. grants'[b] = <<>>
          BY <2>0, <3>2, <3>5
        <4> QED
          BY <4>1 DEF Kept, Budget, Paced
      <3>6. DOMAIN buckets' = DOMAIN buckets \cup {Len(buckets) + 1}
        BY <2>0, <3>1, <3>3
      <3> QED
        BY <3>4, <3>5, <3>6 DEF RatesKept
    <2>3. CASE \E b \in DOMAIN buckets :
                  (Spend(b) /\ Granted(b)) \/ (Refill(b) /\ UNCHANGED grants)
      BY <2>3, UseKeeps
    <2> QED
      BY <2>1, <2>2, <2>3, BucketSteps
  <1>3. Typed /\ RatesKept => WithinRate
    <2> SUFFICES ASSUME Typed, RatesKept, NEW b \in DOMAIN buckets, ~Unlimited(b)
                 PROVE  \A i, k \in DOMAIN grants[b] : i <= k =>
                            (k - i + 1) * Period(b) <= Cap(b) + grants[b][k] - grants[b][i]
      BY DEF WithinRate
    <2>1. DOMAIN grants[b] = 1..Len(grants[b])
      BY TypedParts DEF Parts
    <2> QED
      BY <2>1 DEF RatesKept, Kept, Paced
  <1> QED
    BY <1>1, <1>2, <1>3, LimitsTypes, PTL DEF Spec
-----------------------------------------------------------------------------
(* The tokens that pay for the attempts.                                   *)

\* The workers from Take to the end of the attempt each have a job of their
\* own in hand, a reservation is used up by the worker that lets the job pass,
\* and only what was admitted is ever begun (pool.go's execute).
Working == {"rate", "reserve", "reserved", "acquire", "run"}
Admitted == {"queued", "held", "done", "dead"}
Holding ==
    /\ \A w \in Workers : wpc[w] \in Working => jpc[wjob[w]] = "held"
    /\ \A v, w \in Workers : v # w /\ wpc[v] \in Working /\ wpc[w] \in Working =>
          wjob[v] # wjob[w]
    /\ \A w \in Workers : wpc[w] \in Working \ {"rate"} => readyAt[wjob[w]] = 0
    /\ \A j \in Jobs : starts[j] > 0 => jpc[j] \in Admitted

\* The typing that the steps below rest on.
LEMMA InPlace ==
    ASSUME Typed
    PROVE  /\ JobsTyped /\ HandsTyped /\ now \in Nat \ {0}
           /\ \A w \in Workers : wpc[w] # "idle" => wjob[w] \in Jobs
           /\ grants \in Seq(Seq(Int)) /\ Len(grants) = Len(buckets)
  BY TypedParts DEF Parts, HandsTyped, AtHand

\* A worker that gives its job back, or up, leaves the others theirs.
LEMMA GivesBack ==
    ASSUME Typed, Holding, NEW w \in Workers, wpc[w] \in Working, LetGo(w),
           NEW at, Requeue(wjob[w], at), UNCHANGED starts,
           \A j \in Jobs : j # wjob[w] => readyAt'[j] = readyAt[j]
    PROVE  Holding'
  <1>0. /\ JobsTyped /\ HandsTyped
        /\ \A v \in Workers : wpc[v] # "idle" => wjob[v] \in Jobs
    BY InPlace
  <1> DEFINE i == wjob[w]
  <1>1. i \in Jobs
    BY <1>0 DEF Working
  <1>2. \A v \in Workers : wpc'[v] \in Working =>
            v # w /\ wpc'[v] = wpc[v] /\ wjob'[v] = wjob[v] /\ wjob[v] \in Jobs \ {i}
    BY <1>0 DEF LetGo, HandsTyped, Working, Holding
  <1>3. \A j \in Jobs : (j # i => jpc'[j] = jpc[j]) /\ (j = i => jpc'[j] \in Admitted)
    BY <1>0, <1>1 DEF Requeue, JobsTyped, Admitted
  <1> HIDE DEF i
  <1> QED
    BY <1>2, <1>3 DEF Holding, i

\* A worker that goes on with its job.
LEMMA GoesOn ==
    ASSUME Typed, Holding, NEW w \in Workers, wpc[w] \in Working,
           NEW where \in Working \ {"rate"}, Goto(w, where), UNCHANGED jpc,
           readyAt'[wjob[w]] = 0,
           \A j \in Jobs : j # wjob[w] => readyAt'[j] = readyAt[j] /\ starts'[j] = starts[j]
    PROVE  Holding'
  <1>0. /\ JobsTyped /\ HandsTyped
        /\ \A v \in Workers : wpc[v] # "idle" => wjob[v] \in Jobs
    BY InPlace
  <1> DEFINE i == wjob[w]
  <1>1. i \in Jobs /\ jpc[i] = "held"
    BY <1>0 DEF Working, Holding
  <1>2. \A v \in Workers : wpc'[v] \in Working =>
            /\ wpc[v] \in Working /\ wjob'[v] = wjob[v] /\ wjob[v] \in Jobs
            /\ v # w => wpc'[v] = wpc[v] /\ wjob[v] # i
    BY <1>0 DEF Goto, HandsTyped, Working, Holding
  <1> HIDE DEF i
  <1> QED
    BY <1>1, <1>2 DEF Holding, i, Admitted

LEMMA HoldingSteps ==
    ASSUME Typed, Holding, [Next]_vars
    PROVE  Holding'
  <1>0. /\ JobsTyped /\ HandsTyped /\ now \in Nat \ {0}
        /\ \A v \in Workers : wpc[v] # "idle" => wjob[v] \in Jobs
    BY InPlace
  <1>1. CASE Tick \/ SetRateLimit \/ UNCHANGED vars
    BY <1>1 DEF Tick, SetRateLimit, vars, jobs, hands, Holding
  <1>2. ASSUME NEW j \in Jobs, SubmitLoads(j) \/ Admit(j) \/ NotAdmitted(j) \/ Replay(j)
        PROVE  Holding'
    <2>1. UNCHANGED <<wpc, wjob, readyAt, starts>> /\ jpc[j] # "held"
      BY <1>2 DEF SubmitLoads, Admit, NotAdmitted, Replay, hands
    <2>2. \A i \in Jobs : i # j => jpc'[i] = jpc[i]
      BY <1>0, <1>2 DEF SubmitLoads, Admit, NotAdmitted, Replay, JobsTyped
    <2>3. jpc[j] \notin Admitted \/ jpc'[j] \in Admitted
      BY <1>0, <1>2 DEF SubmitLoads, Admit, NotAdmitted, Replay, JobsTyped, Admitted
    <2>4. \A w \in Workers : wpc[w] \in Working => wjob[w] \in Jobs \ {j}
      BY <1>0, <2>1 DEF Holding, Working
    <2> QED
      BY <1>0, <2>1, <2>2, <2>3, <2>4 DEF Holding
  <1>3. ASSUME NEW w \in Workers, NEW j \in Jobs, Take(w, j)
        PROVE  Holding'
    <2>1. /\ jpc[j] = "queued" /\ UNCHANGED <<readyAt, starts>>
          /\ \A i \in Jobs : jpc'[i] = IF i = j THEN "held" ELSE jpc[i]
      BY <1>0, <1>3 DEF Take, JobsTyped
    <2>2. \A v \in Workers : /\ wpc'[v] = (IF v = w THEN "rate" ELSE wpc[v])
                             /\ wjob'[v] = (IF v = w THEN j ELSE wjob[v])
      BY <1>0, <1>3 DEF Take, HandsTyped
    <2>3. \A v \in Workers : wpc[v] \in Working => wjob[v] \in Jobs \ {j}
      BY <1>0, <2>1 DEF Holding, Working
    <2> QED
      BY <2>1, <2>2, <2>3 DEF Holding, Admitted
  <1>4. ASSUME NEW w \in Workers, RateNotReady(w) \/ NoSlot(w)
        PROVE  Holding'
    BY <1>0, <1>4, GivesBack DEF RateNotReady, NoSlot, Working
  <1>5. ASSUME NEW w \in Workers, Reserved(w)
        PROVE  Holding'
    <2>1. \A j \in Jobs : j # wjob[w] => readyAt'[j] = readyAt[j]
      BY <1>0, <1>5 DEF Reserved, JobsTyped
    <2> QED
      BY <1>5, <2>1, GivesBack DEF Reserved, Working
  <1>6. ASSUME NEW w \in Workers, RateReady(w)
        PROVE  Holding'
    <2>1. \A j \in Jobs : readyAt'[j] = IF j = wjob[w] THEN 0 ELSE readyAt[j]
      BY <1>0, <1>6 DEF RateReady, JobsTyped
    <2>2. wjob[w] \in Jobs
      BY <1>0, <1>6 DEF RateReady
    <2> QED
      BY <1>6, <2>1, <2>2, GoesOn DEF RateReady, Working
  <1>7. ASSUME NEW w \in Workers, RateLoad(w) \/ Reserve(w)
        PROVE  Holding'
    <2>1. PICK where \in Working \ {"rate"} : Goto(w, where)
      BY <1>7 DEF RateLoad, Reserve, Working
    <2>2. /\ wpc[w] \in Working /\ readyAt[wjob[w]] = 0
          /\ UNCHANGED <<jpc, readyAt, starts>>
      BY <1>7 DEF RateLoad, Reserve, Working, Holding, jobs
    <2> QED
      BY <2>1, <2>2, GoesOn
  <1>8. ASSUME NEW w \in Workers, Acquire(w)
        PROVE  Holding'
    <2>1. \A j \in Jobs : j # wjob[w] => starts'[j] = starts[j]
      BY <1>0, <1>8 DEF Acquire, JobsTyped
    <2>2. readyAt'[wjob[w]] = 0 /\ UNCHANGED <<readyAt, jpc>>
      BY <1>8 DEF Acquire, Holding, Working
    <2> QED
      BY <1>8, <2>1, <2>2, GoesOn DEF Acquire, Working
  <1>9. ASSUME NEW w \in Workers, Succeeds(w) \/ Fails(w)
        PROVE  Holding'
    <2>1. wpc[w] = "run" /\ wjob[w] \in Jobs /\ Goto(w, "release") /\ UNCHANGED <<readyAt, starts>>
      BY <1>0, <1>9 DEF Succeeds, Fails
    <2>2. \A j \in Jobs : IF j = wjob[w] THEN jpc'[j] \in Admitted ELSE jpc'[j] = jpc[j]
      BY <1>0, <1>9, <2>1 DEF Succeeds, Fails, Requeue, Admitted, JobsTyped
    <2>3. \A v \in Workers : wpc'[v] \in Working =>
              v # w /\ wpc[v] = wpc'[v] /\ wjob'[v] = wjob[v] /\ wjob[v] \in Jobs \ {wjob[w]}
      BY <1>0, <2>1 DEF Goto, HandsTyped, Holding, Working
    <2> QED
      BY <2>1, <2>2, <2>3 DEF Holding
  <1>10. ASSUME NEW w \in Workers, Release(w)
         PROVE  Holding'
    <2>1. UNCHANGED <<jpc, readyAt, starts>>
      BY <1>10 DEF Release, jobs
    <2>2. \A v \in Workers : wpc'[v] \in Working => wpc[v] = wpc'[v] /\ wjob'[v] = wjob[v]
      BY <1>0, <1>10 DEF Release, LetGo, HandsTyped, Working
    <2> QED
      BY <2>1, <2>2 DEF Holding
  <1> QED
    BY <1>1, <1>2, <1>3, <1>4, <1>5, <1>6, <1>7, <1>8, <1>9, <1>10 DEF Next, Execute

\* The grants, and when each may be used.
Ids == {x \in Nat \X Nat : x[1] \in DOMAIN grants /\ x[2] \in DOMAIN grants[x[1]]}
Due(x) == grants[x[1]][x[2]]

\* What a grant has been made for: in queue mode each attempt begun, and the
\* next one of a job with a reservation or on its way to tryAcquire, else the
\* admission of the job.
Claimed(j) ==
    readyAt[j] # 0 \/ \E w \in Workers : wjob[w] = j /\ wpc[w] \in {"reserved", "acquire"}
Pledged(j, n) ==
    IF mode = "queue" THEN n \in 1..starts[j] \/ (n = starts[j] + 1 /\ Claimed(j))
                      ELSE n = 1 /\ jpc[j] \in Admitted
Claims == {c \in Jobs \X Nat : Pledged(c[1], c[2])}

\* A grant due at t serves: it has come due, or the job still waits for it.
Waits(j, t) ==
    /\ readyAt[j] # 0 => t <= readyAt[j]
    /\ \A w \in Workers : wjob[w] = j =>
          /\ wpc[w] = "acquire" => t <= now
          /\ wpc[w] = "reserved" => t <= now + wait[w]
Meets(j, n, t) == IF mode = "queue" /\ n = starts[j] + 1 THEN Waits(j, t) ELSE t <= now

\* Each claim has a grant of its own that serves it.
Backing ==
    \E f \in [Claims -> Ids] :
        /\ \A c \in Claims : Meets(c[1], c[2], Due(f[c]))
        /\ \A c, d \in Claims : f[c] = f[d] => c = d

\* A claim that a step leaves is one that was there, and what served it does.
Carried(j, n) ==
    Pledged(j, n)' => Pledged(j, n) /\ \A t \in Int : Meets(j, n, t) => Meets(j, n, t)'
\* No grant is taken back.
Extended == \A x \in Ids : x \in Ids' /\ Due(x)' = Due(x)

LEMMA DueTypes == ASSUME Typed PROVE \A x \in Ids : Due(x) \in Int
  BY InPlace DEF Ids, Due

LEMMA StillServed ==
    ASSUME Typed, Extended, NEW f \in [Claims -> Ids],
           \A c \in Claims : Meets(c[1], c[2], Due(f[c])),
           NEW c \in Claims', Carried(c[1], c[2])
    PROVE  /\ c \in Claims /\ f[c] \in Ids /\ f[c] \in Ids'
           /\ Meets(c[1], c[2], Due(f[c]))'
  <1>1. c[1] \in Jobs /\ c[2] \in Nat /\ c \in Jobs \X Nat /\ Pledged(c[1], c[2])'
    BY DEF Claims
  <1>2. c \in Claims
    BY <1>1 DEF Carried, Claims
  <1>3. f[c] \in Ids /\ Due(f[c]) \in Int /\ Due(f[c])' = Due(f[c]) /\ f[c] \in Ids'
    BY <1>2, DueTypes DEF Extended
  <1>4. PICK t \in Int : t = Due(f[c])
    BY <1>3
  <1>5. Meets(c[1], c[2], t)'
    BY <1>1, <1>2, <1>4 DEF Carried
  <1>6. Meets(c[1], c[2], Due(f[c]))'
    BY <1>3, <1>4, <1>5 DEF Meets, Waits
  <1> QED
    BY <1>2, <1>3, <1>6

\* A step that makes no claim, or one claim and a grant for it.
LEMMA BackingKept ==
    ASSUME Typed, Backing, Extended, \A j \in Jobs : \A n \in Nat : Carried(j, n)
    PROVE  Backing'
  <1>1. PICK f \in [Claims -> Ids] : /\ \A c \in Claims : Meets(c[1], c[2], Due(f[c]))
                                     /\ \A c, d \in Claims : f[c] = f[d] => c = d
    BY DEF Backing
  <1>2. ASSUME NEW c \in Claims'
        PROVE  c \in Claims /\ f[c] \in Ids' /\ Meets(c[1], c[2], Due(f[c]))'
    <2>1. Carried(c[1], c[2])
      BY DEF Claims
    <2> QED
      BY <1>1, <2>1, StillServed
  <1>3. PICK h \in [Claims' -> Ids'] : \A c \in Claims' : h[c] = f[c]
    <2>1. [c \in Claims' |-> f[c]] \in [Claims' -> Ids']
      BY <1>2
    <2> QED
      BY <2>1
  <1>4. \A c \in Claims' : Meets(c[1], c[2], Due(h[c]))'
    BY <1>2, <1>3 DEF Meets, Waits, Due
  <1>5. \A c, d \in Claims' : h[c] = h[d] => c = d
    BY <1>1, <1>2, <1>3
  <1> QED
    BY <1>3, <1>4, <1>5 DEF Backing

LEMMA BackingGrows ==
    ASSUME Typed, Backing, Extended, NEW i \in Jobs, NEW m \in Nat,
           \A j \in Jobs : \A n \in Nat : Carried(j, n) \/ (j = i /\ n = m),
           NEW x, x \in Ids', x \notin Ids, Meets(i, m, Due(x))'
    PROVE  Backing'
  <1>1. PICK f \in [Claims -> Ids] : /\ \A c \in Claims : Meets(c[1], c[2], Due(f[c]))
                                     /\ \A c, d \in Claims : f[c] = f[d] => c = d
    BY DEF Backing
  <1>2. ASSUME NEW c \in Claims', c # <<i, m>>
        PROVE  c \in Claims /\ f[c] \in Ids /\ f[c] \in Ids' /\ Meets(c[1], c[2], Due(f[c]))'
    <2>1. Carried(c[1], c[2])
      BY <1>2 DEF Claims
    <2> QED
      BY <1>1, <2>1, StillServed
  <1>3. PICK h \in [Claims' -> Ids'] : \A c \in Claims' : h[c] = IF c = <<i, m>> THEN x ELSE f[c]
    <2>1. [c \in Claims' |-> IF c = <<i, m>> THEN x ELSE f[c]] \in [Claims' -> Ids']
      BY <1>2
    <2> QED
      BY <2>1
  <1>4. ASSUME NEW c \in Claims'
        PROVE  Meets(c[1], c[2], Due(h[c]))'
    <2>1. CASE c = <<i, m>>
      BY <1>3, <2>1 DEF Meets, Waits, Due
    <2>2. CASE c # <<i, m>>
      BY <1>2, <1>3, <2>2 DEF Meets, Waits, Due
    <2> QED
      BY <2>1, <2>2
  <1>5. \A c, d \in Claims' : h[c] = h[d] => c = d
    BY <1>1, <1>2, <1>3
  <1> QED
    BY <1>3, <1>4, <1>5 DEF Backing

\* reserveDelay's answer is appended to the bucket's grants, a new bucket has
\* none yet.
LEMMA Grants ==
    ASSUME Typed, [Next]_vars
    PROVE  Extended
  <1>0. grants \in Seq(Seq(Int)) /\ Len(grants) = Len(buckets) /\ DOMAIN buckets = DOMAIN grants
    BY TypedParts DEF Parts
  <1>1. CASE UNCHANGED grants
    BY <1>1 DEF Extended, Ids, Due
  <1>2. CASE SetRateLimit
    <2>1. grants' = Append(grants, <<>>)
      BY <1>2 DEF SetRateLimit
    <2>2. \A b \in DOMAIN grants : b \in DOMAIN grants' /\ grants'[b] = grants[b]
      BY <1>0, <2>1, AppendProperties
    <2> QED
      BY <2>2 DEF Extended, Ids, Due
  <1>3. ASSUME NEW b \in DOMAIN buckets, Granted(b)
        PROVE  Extended
    <2> DEFINE g == Append(grants[b], now + Delay(b))
    <2>1. /\ now + Delay(b) \in Int
          /\ grants[b] \in Seq(Int)
      BY <1>0, RefilledTypes
    <2>2. DOMAIN grants[b] \subseteq DOMAIN g /\ \A n \in DOMAIN grants[b] : g[n] = grants[b][n]
      BY <2>1
    <2>3. /\ DOMAIN grants' = DOMAIN grants /\ grants'[b] = g
          /\ \A c \in DOMAIN grants : c # b => grants'[c] = grants[c]
      BY <1>0, <1>3, <2>1 DEF Granted
    <2> HIDE DEF g
    <2>4. \A c \in DOMAIN grants : \A n \in DOMAIN grants[c] :
              c \in DOMAIN grants' /\ n \in DOMAIN grants'[c] /\ grants'[c][n] = grants[c][n]
      BY <2>2, <2>3
    <2> SUFFICES ASSUME NEW x \in Ids PROVE x \in Ids' /\ Due(x)' = Due(x)
      BY DEF Extended
    <2>5. x \in Nat \X Nat /\ x[1] \in DOMAIN grants /\ x[2] \in DOMAIN grants[x[1]]
      BY DEF Ids
    <2> QED
      BY <2>4, <2>5 DEF Ids, Due
  <1> QED
    BY <1>1, <1>2, <1>3, BucketSteps

LEMMA NewGrant ==
    ASSUME Typed, NEW b \in DOMAIN buckets, Granted(b), NEW x, x = <<b, Len(grants[b]) + 1>>
    PROVE  x \in Ids' /\ x \notin Ids /\ Due(x)' = now + Delay(b)
  <1>0. grants \in Seq(Seq(Int)) /\ Len(grants) = Len(buckets) /\ DOMAIN buckets = DOMAIN grants
    BY TypedParts DEF Parts
  <1>1. now + Delay(b) \in Int /\ grants[b] \in Seq(Int) /\ b \in Nat
    BY <1>0, RefilledTypes
  <1>2. grants'[b] = Append(grants[b], now + Delay(b)) /\ DOMAIN grants' = DOMAIN grants
    BY <1>0 DEF Granted
  <1> QED
    BY <1>0, <1>1, <1>2 DEF Ids, Due

\* The steps that make no claim: a claim is carried by the job it is for.
LEMMA CarriedElsewhere ==
    ASSUME Typed, Holding, [Next]_vars, ~\E w \in Workers : Reserve(w),
           ~\E j \in Jobs : Admit(j), mode # "queue", NEW j \in Jobs, NEW n \in Nat
    PROVE  Carried(j, n)
  <1>0. /\ JobsTyped /\ now \in Nat \ {0}
        /\ \A v \in Workers : wpc[v] # "idle" => wjob[v] \in Jobs
    BY InPlace
  <1>1. UNCHANGED mode /\ now' \in Nat /\ now <= now'
    BY <1>0 DEF Next, Execute, Tick, SetRateLimit, SubmitLoads, Admit, NotAdmitted, Replay, vars,
           Take, RateNotReady, RateReady, RateLoad, Reserve, Reserved, Acquire, NoSlot,
           Succeeds, Fails, Release, limiter
  <1>2. jpc'[j] \in Admitted => jpc[j] \in Admitted
    <2>1. ASSUME NEW w \in Workers, Execute(w)
          PROVE  jpc'[j] = jpc[j] \/ jpc[j] \in Admitted \/ (wjob[w] = j /\ wpc[w] \in Working)
      BY <1>0, <2>1 DEF Execute, Take, RateNotReady, RateReady, RateLoad, Reserve, Reserved,
             Acquire, NoSlot, Succeeds, Fails, Release, Requeue, JobsTyped, Working, Admitted, jobs
    <2>2. ASSUME NEW i \in Jobs, SubmitLoads(i) \/ NotAdmitted(i) \/ Replay(i)
          PROVE  jpc'[j] = jpc[j] \/ jpc'[j] \notin Admitted \/ jpc[j] \in Admitted
      BY <1>0, <2>2 DEF SubmitLoads, NotAdmitted, Replay, JobsTyped, Admitted
    <2>3. ASSUME Tick \/ SetRateLimit \/ UNCHANGED vars
          PROVE  UNCHANGED jpc
      BY <2>3 DEF Tick, SetRateLimit, vars, jobs
    <2>4. \A w \in Workers : wpc[w] \in Working => jpc[wjob[w]] \in Admitted
      BY DEF Holding, Admitted
    <2> QED
      BY <2>1, <2>2, <2>3, <2>4 DEF Next
  <1> QED
    BY <1>0, <1>1, <1>2 DEF Carried, Pledged, Meets

\* In queue mode, the steps that leave the job's attempts, its reservation and
\* the workers that hold it alone, or that take it from a worker's hands.
LEMMA CarriedAlong ==
    ASSUME Typed, mode = "queue", UNCHANGED mode, now' \in Nat, now <= now',
           NEW j \in Jobs, NEW n \in Nat, starts'[j] = starts[j], readyAt'[j] = readyAt[j],
           \A w \in Workers : wjob'[w] = j /\ wpc'[w] \in {"reserved", "acquire"} =>
               wjob[w] = j /\ wpc[w] = wpc'[w] /\ wait[w] = wait'[w]
    PROVE  Carried(j, n)
  <1>0. starts[j] \in Nat /\ readyAt[j] \in Int /\ now \in Nat /\ wait \in [Workers -> Int]
    BY InPlace DEF JobsTyped, HandsTyped
  <1>1. Pledged(j, n)' => Pledged(j, n)
    BY DEF Pledged, Claimed
  <1>2. ASSUME NEW t \in Int, Waits(j, t)
        PROVE  Waits(j, t)'
    BY <1>0, <1>2 DEF Waits
  <1>3. ASSUME NEW t \in Int, Meets(j, n, t)
        PROVE  Meets(j, n, t)'
    BY <1>0, <1>2, <1>3 DEF Meets
  <1> QED
    BY <1>1, <1>3 DEF Carried

\* A reservation is kept with the job, is used by the worker that finds it has
\* come, and the attempt it lets pass counts as begun.
LEMMA CarriedQueue ==
    ASSUME Typed, Holding, [Next]_vars, mode = "queue", ~\E w \in Workers : Reserve(w),
           NEW j \in Jobs, NEW n \in Nat
    PROVE  Carried(j, n)
  <1>0. /\ JobsTyped /\ HandsTyped /\ now \in Nat \ {0}
        /\ \A v \in Workers : wpc[v] # "idle" => wjob[v] \in Jobs
        /\ starts[j] \in Nat /\ readyAt[j] \in Int
        /\ \A v \in Workers : wait[v] \in Int
    BY InPlace DEF JobsTyped, HandsTyped
  <1>1. ASSUME Tick \/ SetRateLimit \/ UNCHANGED vars
        PROVE  Carried(j, n)
    BY <1>0, <1>1, CarriedAlong DEF Tick, SetRateLimit, vars, jobs, hands, limiter
  <1>2. ASSUME NEW i \in Jobs, SubmitLoads(i) \/ Admit(i) \/ NotAdmitted(i) \/ Replay(i)
        PROVE  Carried(j, n)
    BY <1>0, <1>2, CarriedAlong DEF SubmitLoads, Admit, NotAdmitted, Replay, hands, limiter
  <1>3. ASSUME NEW w \in Workers, NEW i \in Jobs, Take(w, i)
        PROVE  Carried(j, n)
    <2>1. \A v \in Workers : wjob'[v] = j /\ wpc'[v] \in {"reserved", "acquire"} =>
              wjob[v] = j /\ wpc[v] = wpc'[v] /\ wait[v] = wait'[v]
      BY <1>0, <1>3 DEF Take, HandsTyped
    <2> QED
      BY <1>0, <1>3, <2>1, CarriedAlong DEF Take, limiter
  <1>4. ASSUME NEW w \in Workers, RateNotReady(w) \/ NoSlot(w) \/ Release(w)
        PROVE  Carried(j, n)
    <2>1. LetGo(w) /\ UNCHANGED <<now, mode, starts, readyAt>>
      BY <1>4 DEF RateNotReady, NoSlot, Release, limiter, jobs
    <2>2. \A v \in Workers : wjob'[v] = j /\ wpc'[v] \in {"reserved", "acquire"} =>
              wjob[v] = j /\ wpc[v] = wpc'[v] /\ wait[v] = wait'[v]
      BY <1>0, <2>1 DEF LetGo, HandsTyped
    <2> QED
      BY <1>0, <2>1, <2>2, CarriedAlong
  <1>5. ASSUME NEW w \in Workers, Succeeds(w) \/ Fails(w)
        PROVE  Carried(j, n)
    <2>1. Goto(w, "release") /\ UNCHANGED <<now, mode, starts, readyAt, wait>>
      BY <1>5 DEF Succeeds, Fails, limiter
    <2>2. \A v \in Workers : wjob'[v] = j /\ wpc'[v] \in {"reserved", "acquire"} =>
              wjob[v] = j /\ wpc[v] = wpc'[v] /\ wait[v] = wait'[v]
      BY <1>0, <2>1 DEF Goto, HandsTyped
    <2> QED
      BY <1>0, <2>1, <2>2, CarriedAlong
  <1>6. ASSUME NEW w \in Workers, RateLoad(w)
        PROVE  Carried(j, n)
    <2>1. Goto(w, "reserve") /\ UNCHANGED <<now, mode, starts, readyAt>>
      BY <1>6 DEF RateLoad, limiter, jobs
    <2>2. \A v \in Workers : v # w => wait'[v] = wait[v]
      BY <1>0, <1>6 DEF RateLoad, HandsTyped
    <2>3. \A v \in Workers : wjob'[v] = j /\ wpc'[v] \in {"reserved", "acquire"} =>
              wjob[v] = j /\ wpc[v] = wpc'[v] /\ wait[v] = wait'[v]
      BY <1>0, <2>1, <2>2 DEF Goto, HandsTyped
    <2> QED
      BY <1>0, <2>1, <2>3, CarriedAlong
  <1>7. ASSUME NEW w \in Workers, RateReady(w)
        PROVE  Carried(j, n)
    <2>1. /\ wjob[w] \in Jobs /\ wpc[w] = "rate" /\ readyAt[wjob[w]] \in 1..now
          /\ UNCHANGED <<now, mode, starts, wait>>
          /\ readyAt'[j] = IF j = wjob[w] THEN 0 ELSE readyAt[j]
      BY <1>0, <1>7 DEF RateReady, JobsTyped, limiter
    <2>2. \A v \in Workers : wjob'[v] = wjob[v] /\ wpc'[v] = IF v = w THEN "acquire" ELSE wpc[v]
      BY <1>0, <1>7 DEF RateReady, Goto, HandsTyped
    <2>3. CASE j = wjob[w]
      <3>1. readyAt[j] # 0 /\ readyAt[j] <= now /\ readyAt'[j] = 0
        BY <1>0, <2>1, <2>3
      <3>2. Pledged(j, n)' => Pledged(j, n)
        BY <2>1, <3>1 DEF Pledged, Claimed
      <3>3. ASSUME NEW t \in Int, Waits(j, t)
            PROVE  Waits(j, t)'
        BY <1>0, <2>1, <2>2, <3>1, <3>3 DEF Waits
      <3> QED
        BY <2>1, <3>2, <3>3 DEF Carried, Meets
    <2>4. CASE j # wjob[w]
      BY <1>0, <2>1, <2>2, <2>4, CarriedAlong
    <2> QED
      BY <2>3, <2>4
  <1>8. ASSUME NEW w \in Workers, Reserved(w)
        PROVE  Carried(j, n)
    <2>1. /\ wjob[w] \in Jobs /\ wpc[w] = "reserved"
          /\ UNCHANGED <<now, mode, starts>>
          /\ readyAt'[j] = IF j = wjob[w] THEN now + wait[w] ELSE readyAt[j]
      BY <1>0, <1>8 DEF Reserved, JobsTyped, limiter
    <2>2. \A v \in Workers : IF v = w THEN wpc'[v] = "idle"
                             ELSE wjob'[v] = wjob[v] /\ wpc'[v] = wpc[v] /\ wait'[v] = wait[v]
      BY <1>0, <1>8 DEF Reserved, LetGo, HandsTyped
    <2>3. CASE j = wjob[w]
      <3>1. Pledged(j, n)' => Pledged(j, n)
        BY <2>1, <2>3 DEF Pledged, Claimed
      <3>2. ASSUME NEW t \in Int, Waits(j, t)
            PROVE  Waits(j, t)'
        BY <1>0, <2>1, <2>2, <2>3, <3>2 DEF Waits
      <3> QED
        BY <2>1, <3>1, <3>2 DEF Carried, Meets
    <2>4. CASE j # wjob[w]
      BY <1>0, <2>1, <2>2, <2>4, CarriedAlong
    <2> QED
      BY <2>3, <2>4
  <1>9. ASSUME NEW w \in Workers, Acquire(w)
        PROVE  Carried(j, n)
    <2>1. /\ wjob[w] \in Jobs /\ wpc[w] = "acquire"
          /\ UNCHANGED <<now, mode, readyAt, wait>>
          /\ starts'[j] = IF j = wjob[w] THEN starts[j] + 1 ELSE starts[j]
      BY <1>0, <1>9 DEF Acquire, JobsTyped, limiter
    <2>2. \A v \in Workers : wjob'[v] = wjob[v] /\ wpc'[v] = IF v = w THEN "run" ELSE wpc[v]
      BY <1>0, <1>9 DEF Acquire, Goto, HandsTyped
    <2>3. CASE j = wjob[w]
      <3>1. ~Claimed(j)'
        BY <2>1, <2>2, <2>3 DEF Claimed, Holding, Working
      <3>2. Pledged(j, n)' => n \in 1..(starts[j] + 1)
        BY <1>0, <2>1, <2>3, <3>1 DEF Pledged
      <3>3. n \in 1..(starts[j] + 1) => Pledged(j, n)
        BY <1>0, <2>1, <2>3 DEF Pledged, Claimed
      <3>4. ASSUME NEW t \in Int, Meets(j, n, t), n \in 1..(starts[j] + 1)
            PROVE  Meets(j, n, t)'
        BY <1>0, <2>1, <2>3, <3>4 DEF Meets, Waits
      <3> QED
        BY <3>2, <3>3, <3>4 DEF Carried
    <2>4. CASE j # wjob[w]
      BY <1>0, <2>1, <2>2, <2>4, CarriedAlong
    <2> QED
      BY <2>3, <2>4
  <1> QED
    BY <1>1, <1>2, <1>3, <1>4, <1>5, <1>6, <1>7, <1>8, <1>9 DEF Next, Execute

\* submit's admission and the worker's reservation each take a token for the
\* claim they make (rate_limiter.go:59-83).
LEMMA BackingSteps ==
    ASSUME Typed, Holding, Backing, [Next]_vars
    PROVE  Backing'
  <1>0. /\ JobsTyped /\ HandsTyped /\ now \in Nat \ {0} /\ Extended
        /\ \A v \in Workers : wpc[v] # "idle" => wjob[v] \in Jobs
    BY InPlace, Grants
  <1>1. ASSUME NEW w \in Workers, Reserve(w), mode = "queue"
        PROVE  Backing'
    <2>0. PICK i, b, m, x : /\ i = wjob[w] /\ b = wait[w] /\ m = starts[i] + 1
                            /\ x = <<b, Len(grants[b]) + 1>>
      OBVIOUS
    <2>1. /\ i \in Jobs /\ m \in Nat /\ starts[i] \in Nat /\ wpc[w] = "reserve"
          /\ b \in DOMAIN buckets /\ Granted(b)
          /\ UNCHANGED <<now, mode, starts, readyAt>>
      BY <1>0, <1>1, <2>0 DEF Reserve, JobsTyped, Typed, Asked, jobs
    <2>2. x \in Ids' /\ x \notin Ids /\ Due(x)' = now + Delay(b) /\ Delay(b) \in Int
      BY <2>0, <2>1, NewGrant, RefilledTypes
    <2>3. \A v \in Workers :
             /\ wjob'[v] = wjob[v]
             /\ v # w => wpc'[v] = wpc[v] /\ wait'[v] = wait[v]
             /\ v = w => /\ wpc'[v] = IF Enough(b) THEN "acquire" ELSE "reserved"
                         /\ wait'[v] = Delay(b)
      BY <1>0, <1>1, <2>0 DEF Reserve, Goto, HandsTyped
    <2>4. Enough(b) => Delay(b) = 0
      BY DEF Delay
    <2>5. \A v \in Workers : wjob[v] = i /\ wpc[v] \in {"reserved", "acquire"} => FALSE
      BY <2>0, <2>1 DEF Holding, Working
    <2>6. Meets(i, m, Due(x))'
      <3>1. readyAt[i] = 0
        BY <2>0, <2>1 DEF Holding, Working
      <3>2. PICK t \in Int : t = now + Delay(b)
        BY <1>0, <2>2
      <3>3. ASSUME NEW v \in Workers, wjob'[v] = i
            PROVE  /\ wpc'[v] = "acquire" => t <= now'
                   /\ wpc'[v] = "reserved" => t <= now' + wait'[v]
        BY <1>0, <2>1, <2>2, <2>3, <2>4, <2>5, <3>2, <3>3
      <3>4. Waits(i, Due(x))'
        BY <2>1, <2>2, <3>1, <3>2, <3>3 DEF Waits
      <3> QED
        BY <1>1, <2>0, <2>1, <3>4 DEF Meets
    <2>7. ASSUME NEW j \in Jobs, NEW n \in Nat, ~(j = i /\ n = m)
          PROVE  Carried(j, n)
      <3>1. CASE j # i
        <4>1. \A v \in Workers : wjob'[v] = j /\ wpc'[v] \in {"reserved", "acquire"} =>
                  wjob[v] = j /\ wpc[v] = wpc'[v] /\ wait[v] = wait'[v]
          BY <2>0, <2>3, <3>1
        <4> QED
          BY <1>0, <1>1, <2>1, <4>1, CarriedAlong
      <3>2. CASE j = i
        <4>1. n # starts[j] + 1 /\ starts'[j] = starts[j] /\ mode' = "queue" /\ now' = now
          BY <1>1, <2>0, <2>1, <2>7, <3>2
        <4>2. Pledged(j, n)' => Pledged(j, n)
          BY <1>1, <4>1 DEF Pledged
        <4>3. \A t \in Int : Meets(j, n, t) => Meets(j, n, t)'
          BY <4>1 DEF Meets
        <4> QED
          BY <4>2, <4>3 DEF Carried
      <3> QED
        BY <3>1, <3>2
    <2> QED
      BY <1>0, <2>1, <2>2, <2>6, <2>7, BackingGrows
  <1>2. ASSUME NEW i \in Jobs, Admit(i), mode # "queue"
        PROVE  Backing'
    <2>0. PICK b, x : b = jb[i] /\ x = <<b, Len(grants[b]) + 1>>
      OBVIOUS
    <2>1. /\ b \in DOMAIN buckets /\ Granted(b) /\ Enough(b) /\ UNCHANGED <<now, mode, hands>>
          /\ \A j \in Jobs : j # i => jpc'[j] = jpc[j]
      BY <1>0, <1>2, <2>0 DEF Admit, JobsTyped, Typed, Asked
    <2>2. Delay(b) = 0
      BY <2>1 DEF Delay
    <2>3. x \in Ids' /\ x \notin Ids /\ Due(x)' = now + Delay(b)
      BY <2>0, <2>1, NewGrant
    <2>4. Meets(i, 1, Due(x))'
      BY <1>0, <1>2, <2>1, <2>2, <2>3 DEF Meets
    <2>5. ASSUME NEW j \in Jobs, NEW n \in Nat, ~(j = i /\ n = 1)
          PROVE  Carried(j, n)
      BY <1>2, <2>1, <2>5 DEF Carried, Pledged, Meets
    <2> QED
      BY <1>0, <2>3, <2>4, <2>5, BackingGrows
  <1>3. ASSUME mode = "queue", ~\E w \in Workers : Reserve(w)
        PROVE  Backing'
    BY <1>0, <1>3, CarriedQueue, BackingKept
  <1>4. ASSUME mode # "queue", ~\E w \in Workers : Reserve(w), ~\E j \in Jobs : Admit(j)
        PROVE  Backing'
    BY <1>0, <1>4, CarriedElsewhere, BackingKept
  <1>5. ASSUME NEW w \in Workers, Reserve(w), mode # "queue"
        PROVE  Backing'
    <2>1. ASSUME NEW j \in Jobs, NEW n \in Nat
          PROVE  Carried(j, n)
      BY <1>5 DEF Reserve, jobs, Carried, Pledged, Meets
    <2> QED
      BY <1>0, <2>1, BackingKept
  <1> QED
    BY <1>1, <1>2, <1>3, <1>4, <1>5

\* Every attempt in queue mode, and every job admitted in the other modes, has
\* a token of its own that had come due when it began, however often jobs are
\* postponed, retried, replayed or requeued, however many workers reserve, and
\* whichever buckets SetRateLimit has replaced meanwhile.
THEOREM StartsArePaid == Spec => []StartsPaid
  <1>1. Init => Holding /\ Backing
    <2> SUFFICES ASSUME Init PROVE Holding /\ Backing
      OBVIOUS
    <2>1. /\ \A w \in Workers : wpc[w] = "idle"
          /\ \A j \in Jobs : starts[j] = 0 /\ readyAt[j] = 0 /\ jpc[j] = "new"
      BY DEF Init
    <2>2. Holding
      BY <2>1 DEF Holding, Working
    <2>3. Claims = {}
      BY <2>1 DEF Claims, Pledged, Claimed, Admitted
    <2>4. Backing
      <3>1. [c \in Claims |-> 0] \in [Claims -> Ids]
        BY <2>3
      <3> QED
        BY <2>3, <3>1 DEF Backing
    <2> QED
      BY <2>2, <2>4
  <1>2. Typed /\ Holding /\ Backing => StartsPaid
    <2> SUFFICES ASSUME Typed, Holding, Backing PROVE StartsPaid
      OBVIOUS
    <2>0. /\ \A j \in Jobs : starts[j] \in Nat
          /\ grants \in Seq(Seq(Int)) /\ now \in Nat
      BY InPlace DEF JobsTyped
    <2>1. PICK f \in [Claims -> Ids] : /\ \A c \in Claims : Meets(c[1], c[2], Due(f[c]))
                                       /\ \A c, d \in Claims : f[c] = f[d] => c = d
      BY DEF Backing
    <2>2. \A x \in Ids : Due(x) <= now => x \in Paid
      BY <2>0 DEF Ids, Due, Paid
    <2>3. IsFiniteSet(Paid)
      <3> DEFINE Of(b) == {b} \X {n \in DOMAIN grants[b] : grants[b][n] <= now}
                 All == {Of(b) : b \in DOMAIN grants}
      <3>1. ASSUME NEW b \in DOMAIN grants
            PROVE  IsFiniteSet(Of(b))
        <4>1. IsFiniteSet(DOMAIN grants[b])
          BY <2>0, FS_Interval
        <4>2. IsFiniteSet({n \in DOMAIN grants[b] : grants[b][n] <= now}) /\ IsFiniteSet({b})
          BY <4>1, FS_Subset, FS_Singleton
        <4> QED
          BY <4>2, FS_Product
      <3>2. IsFiniteSet(DOMAIN grants)
        BY <2>0, FS_Interval
      <3>3. IsFiniteSet(All)
        <4>1. [b \in DOMAIN grants |-> Of(b)] \in Surjection(DOMAIN grants, All)
          BY DEF Surjection
        <4> QED
          BY <3>2, <4>1, FS_Surjection
      <3> QED
        BY <3>1, <3>3, FS_UNION DEF Paid
    <2>4. CASE mode = "queue"
      <3>1. \A c \in Owed : /\ c \in Claims /\ c[2] # starts[c[1]] + 1
        BY <2>0, <2>4 DEF Owed, Claims, Pledged
      <3>2. \A c \in Owed : f[c] \in Paid
        BY <2>1, <2>2, <2>4, <3>1 DEF Meets
      <3>3. [c \in Owed |-> f[c]] \in Injection(Owed, Paid)
        BY <2>1, <3>1, <3>2 DEF Injection, IsInjective
      <3> QED
        BY <2>3, <3>3, FS_Injection DEF StartsPaid
    <2>5. CASE mode # "queue"
      <3>1. \A j \in Owed : <<j, 1>> \in Claims
        BY <2>5 DEF Owed, Claims, Pledged, Holding
      <3>2. \A j \in Owed : f[<<j, 1>>] \in Paid
        BY <2>1, <2>2, <2>5, <3>1 DEF Meets
      <3>3. [j \in Owed |-> f[<<j, 1>>]] \in Injection(Owed, Paid)
        BY <2>1, <3>1, <3>2 DEF Injection, IsInjective
      <3> QED
        BY <2>3, <3>3, FS_Injection DEF StartsPaid
    <2> QED
      BY <2>4, <2>5
  <1> QED
    BY <1>1, <1>2, HoldingSteps, BackingSteps, LimitsTypes, PTL DEF Spec
=============================================================================
