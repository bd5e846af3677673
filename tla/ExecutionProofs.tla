--------------------------- MODULE ExecutionProofs ---------------------------
(***************************************************************************)
(* Theorems about Execution for every set of jobs, workers and cancellers, *)
(* all options, and however many objects, attempts and replays there are.  *)
(***************************************************************************)
EXTENDS Execution, FiniteSetTheorems, TLAPS

\* The workers that have an object to themselves, and those that go on reading
\* one that they have put into the DLQ (pool.go's deadletter).
Active == {"check", "cancelled", "cancelFuture", "run", "succeed", "succeeded", "successFuture",
           "successKey", "release", "fail", "failed", "requeue", "dead", "deadAppend"}
Late == {"deadFuture", "deadKey"}

\* Types.
JobPlaces == {"absent", "new", "bare", "key", "rate", "push", "failing", "accepted", "refused",
              "duplicate"}
Words == {"queued", "running", "succeeded", "failed", "retrying", "dead", "cancelled"}
Outcomes == {"succeeded", "failed", "cancelled", "refused", "dead"}
JobsTyped ==
    /\ jpc \in [Jobs -> JobPlaces]
    /\ obj \in [Jobs -> Objs \cup {None}]
    /\ fut \in [Jobs -> {"none", "pending", "ok", "failed", "cancelled"}]
    /\ ends \in [Jobs -> SUBSET Outcomes]
    /\ ctx \subseteq Jobs /\ asked \subseteq Jobs /\ bare \subseteq Jobs
    /\ returned \subseteq Jobs
    /\ keys \subseteq {Key(j) : j \in Jobs}
    /\ pending \in Int
    /\ mpc \in {"submitting", "waiting", "returned"}
ObjsTyped ==
    /\ fresh \in 0..MaxObjs /\ pooled \subseteq 1..fresh
    /\ owner \in [Objs -> Jobs \cup {None}]
    /\ word \in [Objs -> Words]
    /\ attempt \in [Objs -> Nat]
    /\ queued \subseteq Objs /\ dlq \subseteq Objs /\ replay \subseteq Objs
    /\ replays \in 0..MaxReplays
    /\ index \in [IDs -> Objs \cup {None}]
HandsTyped ==
    /\ wpc \in [Workers -> Active \cup Late \cup {"idle", "bareRun"}]
    /\ wobj \in [Workers -> Objs \cup Jobs \cup {None}]
    /\ \A w \in Workers : /\ wpc[w] \in Active \cup Late => wobj[w] \in Objs
                          /\ wpc[w] = "bareRun" => wobj[w] \in Jobs
CallsTyped ==
    /\ cpc \in [Cancellers -> {"idle", "store", "cancel", "future", "delete", "complete", "done"}]
    /\ cobj \in [Cancellers -> Objs \cup Jobs \cup {None}]
    /\ cid \in [Cancellers -> IDs \cup {None}]
    /\ \A c \in Cancellers :
          /\ cpc[c] \in {"store", "cancel", "future", "delete"} => cobj[c] \in Objs /\ cid[c] \in IDs
          /\ cpc[c] = "complete" => cobj[c] \in Jobs
\* An object that a job is being pushed with is that job's.
Filled == \A j \in Jobs : jpc[j] \in {"push", "failing"} => obj[j] \in Objs
Typed == JobsTyped /\ ObjsTyped /\ HandsTyped /\ CallsTyped /\ Filled

\* Every object that holds a job's data is in one place at a time: with the
\* submission that pushes it, in a queue, with a worker, or a dead letter; no
\* other goroutine but a canceller and a worker in Late reaches it.
Waiting == queued \cup dlq \cup replay
Lined ==
    /\ \A o \in Waiting : owner[o] # None
    /\ queued \cap dlq = {} /\ queued \cap replay = {} /\ dlq \cap replay = {}
Handed ==
    /\ \A w \in Workers : wpc[w] \in Active =>
          owner[wobj[w]] # None /\ wobj[w] \notin Waiting
    /\ \A v, w \in Workers : v # w /\ wpc[v] \in Active /\ wpc[w] \in Active =>
          wobj[v] # wobj[w]
Pushing ==
    \A j \in Jobs : jpc[j] \in {"push", "failing"} =>
        /\ owner[obj[j]] = j /\ obj[j] \notin Waiting
        /\ \A w \in Workers : wpc[w] \in Active => wobj[w] # obj[j]
Owned ==
    /\ \A o \in Objs : owner[o] # None =>
          /\ o \notin pooled /\ o <= fresh /\ obj[owner[o]] = o
          /\ jpc[owner[o]] \in {"push", "failing", "accepted", "refused"}
    /\ \A j \in Jobs : jpc[j] \in {"absent", "new", "bare", "key", "rate"} => obj[j] = None
Placed == Lined /\ Handed /\ Pushing /\ Owned
-----------------------------------------------------------------------------
LEMMA Given ==
    /\ None \notin Jobs /\ None \notin Objs /\ Jobs \cap Objs = {}
    /\ MaxReplays \in Nat /\ MaxObjs \in Nat
    /\ HasFuture \subseteq Jobs /\ MapJobs \subseteq Jobs \ HasFuture /\ IsFiniteSet(MapJobs)
    /\ Loads \subseteq SUBSET Jobs /\ CancelIDs \subseteq IDs
  BY ExecutionAssumption, Zenon DEF ExecutionAssumption

(* The options. *)

\* applyDefaults without defaults or policies, and the head of submit, give a
\* job the ID of the call or a made-up one, and leave its key alone.
LEMMA OptionsOf ==
    ASSUME NEW j \in Jobs
    PROVE  /\ ID(j) \in {Raw[j].id, AutoID[j]} /\ ID(j) \in IDs
           /\ Opt(j).idempotencyKey = Key(j)
           /\ Basic(j) => Key(j) = ""
  <1> DEFINE m == mergeJobOptions(Raw[j], ZeroOptions)
  <1>1. Applied(j) = m
    BY DEF Applied, Merged, applyDefaults
  <1>2. m.id = Text(Raw[j].id, "") /\ m.idempotencyKey = Text(Raw[j].idempotencyKey, "")
    BY DEF mergeJobOptions, ZeroOptions
  <1>3. DOMAIN m = {"id", "queue", "priority", "delay", "runAt", "timeout", "attempts", "backoff",
                    "metadata", "idempotencyKey", "concurrencyKey", "maxPerKey", "rateLimitKey",
                    "callback"}
    BY DEF mergeJobOptions
  <1> HIDE DEF m
  <1>4. /\ Opt(j).idempotencyKey = m.idempotencyKey
        /\ Opt(j).id \in {m.id, AutoID[j]}
    BY <1>1, <1>3 DEF Opt, Submitted
  <1> QED
    BY <1>1, <1>2, <1>4 DEF ID, IDs, Key, Basic, useBasicFastPath, Text
-----------------------------------------------------------------------------
(* Type correctness. *)

LEMMA UnindexedTypes ==
    ASSUME ObjsTyped, NEW o \in Objs
    PROVE  Unindexed(o) \in [IDs -> Objs \cup {None}]
  <1>1. owner[o] # None => ID(owner[o]) \in IDs
    BY OptionsOf DEF ObjsTyped
  <1> QED
    BY <1>1 DEF Unindexed, ObjsTyped

LEMMA CompletedTypes ==
    ASSUME JobsTyped, NEW j \in Jobs \cup {None}, NEW how \in {"ok", "failed", "cancelled"}
    PROVE  Completed(j, how) \in [Jobs -> {"none", "pending", "ok", "failed", "cancelled"}]
  BY DEF Completed, JobsTyped

LEMMA ReleasedTypes ==
    ASSUME ObjsTyped, NEW o \in Objs, o <= fresh, Released(o), UNCHANGED <<fresh, queued, letters>>,
           index' \in [IDs -> Objs \cup {None}]
    PROVE  ObjsTyped'
  <1>1. fresh \in Nat
    BY Given DEF ObjsTyped
  <1>2. pooled' \subseteq 1..fresh
    <2>1. pooled' = pooled \/ pooled' = pooled \cup {o}
      BY DEF Released
    <2>2. o \in 1..fresh /\ pooled \subseteq 1..fresh
      BY <1>1, Given DEF ObjsTyped, Objs
    <2> QED
      BY <2>1, <2>2
  <1>3. /\ owner' \in [Objs -> Jobs \cup {None}]
        /\ word' \in [Objs -> Words]
        /\ attempt' \in [Objs -> Nat]
    BY DEF Released, ObjsTyped, Words, object
  <1> QED
    BY <1>2, <1>3 DEF ObjsTyped, letters

LEMMA EndsTypes ==
    ASSUME JobsTyped, NEW j \in Jobs \cup {None}, NEW how \in Outcomes, Ends(j, how)
    PROVE  ends' \in [Jobs -> SUBSET Outcomes]
  BY DEF Ends, JobsTyped

LEMMA SubmitTyped ==
    ASSUME Typed, Placed, NEW j \in Jobs, Submit(j)
    PROVE  Typed'
  <1>0. /\ \A i \in Jobs : Key(i) \in {Key(k) : k \in Jobs}
        /\ pending \in Int /\ pending + 1 \in Int /\ pending - 1 \in Int
        /\ MaxObjs \in Nat
    BY Given DEF Typed, JobsTyped
  <1>1. ASSUME Begin(j) \/ TakeKey(j) \/ RateRefuses(j) \/ PushBare(j)
        PROVE  Typed'
    <2>1. UNCHANGED <<obj, fresh, pooled, object, queued, index, letters, workers, cancel,
                      fut, ctx, ends, returned, mpc>>
      BY <1>1 DEF Begin, TakeKey, RateRefuses, PushBare, history
    <2>2. ObjsTyped' /\ HandsTyped' /\ CallsTyped'
      BY <2>1 DEF Typed, ObjsTyped, HandsTyped, CallsTyped, object, letters, workers, cancel
    <2>3. jpc' \in [Jobs -> JobPlaces] /\ \A i \in Jobs : jpc'[i] \in {"push", "failing"} => jpc'[i] = jpc[i]
      BY <1>1 DEF Begin, TakeKey, RateRefuses, PushBare, At, Refuse, Typed, JobsTyped, JobPlaces
    <2>4. pending' \in Int
      BY <1>0, <1>1 DEF Begin, TakeKey, RateRefuses, PushBare, Add, Refuse
    <2>5. keys' \subseteq {Key(i) : i \in Jobs} /\ bare' \subseteq Jobs
      BY <1>0, <1>1 DEF Begin, TakeKey, RateRefuses, PushBare, Typed, JobsTyped
    <2>6. JobsTyped'
      BY <2>1, <2>3, <2>4, <2>5 DEF Typed, JobsTyped, cancel
    <2> QED
      BY <2>1, <2>2, <2>3, <2>6 DEF Typed, Filled
  <1>2. ASSUME NEW o \in Objs, Fill(j, o)
        PROVE  Typed'
    <2>1. /\ jpc' = [jpc EXCEPT ![j] = "push"] /\ obj' = [obj EXCEPT ![j] = o]
          /\ UNCHANGED <<queued, letters, workers, cancel, fut, ctx, ends, returned, mpc, keys,
                         pending, bare>>
      BY <1>2 DEF Fill, At, history, batch
    <2>2. HandsTyped' /\ CallsTyped' /\ JobsTyped' /\ Filled'
      BY <2>1 DEF Typed, JobsTyped, HandsTyped, CallsTyped, Filled, workers, cancel, JobPlaces
    <2>3. fresh' \in 0..MaxObjs /\ pooled' \subseteq 1..fresh'
      BY <1>0, <1>2 DEF Fill, Typed, ObjsTyped, Objs
    <2>4. /\ owner' \in [Objs -> Jobs \cup {None}] /\ word' \in [Objs -> Words]
          /\ attempt' \in [Objs -> Nat]
      BY <1>2 DEF Fill, Typed, ObjsTyped, Words
    <2>5. index' \in [IDs -> Objs \cup {None}]
      BY <1>2, OptionsOf DEF Fill, Typed, ObjsTyped
    <2>6. ObjsTyped'
      BY <2>1, <2>3, <2>4, <2>5 DEF Typed, ObjsTyped, letters
    <2> QED
      BY <2>2, <2>6 DEF Typed
  <1>3. ASSUME Push(j)
        PROVE  Typed'
    <2>1. /\ jpc' = [jpc EXCEPT ![j] = "accepted"] /\ obj[j] \in Objs
          /\ queued' = queued \cup {obj[j]}
          /\ UNCHANGED <<obj, fresh, pooled, object, index, letters, workers, cancel, fut, ctx, ends,
                         returned, mpc, keys, pending, bare>>
      BY <1>3 DEF Push, At, history, batch, Typed, Filled
    <2>2. HandsTyped' /\ CallsTyped' /\ JobsTyped' /\ Filled' /\ ObjsTyped'
      BY <2>1 DEF Typed, JobsTyped, HandsTyped, CallsTyped, Filled, ObjsTyped, workers, cancel,
             JobPlaces, object, letters
    <2> QED
      BY <2>2 DEF Typed
  <1>4. ASSUME PushFails(j)
        PROVE  Typed'
    <2>1. /\ jpc' = [jpc EXCEPT ![j] = "failing"] /\ jpc[j] = "push" /\ obj[j] \in Objs
          /\ index' = Unindexed(obj[j]) /\ Ends(j, "refused")
          /\ UNCHANGED <<obj, fresh, pooled, object, queued, letters, workers, cancel, fut, ctx,
                         returned, mpc, keys, pending, bare>>
      BY <1>4 DEF PushFails, At, batch, Typed, Filled
    <2>2. index' \in [IDs -> Objs \cup {None}] /\ ends' \in [Jobs -> SUBSET Outcomes]
      BY <2>1, UnindexedTypes, EndsTypes DEF Typed, Outcomes
    <2>3. HandsTyped' /\ CallsTyped' /\ JobsTyped' /\ Filled' /\ ObjsTyped'
      BY <2>1, <2>2 DEF Typed, JobsTyped, HandsTyped, CallsTyped, Filled, ObjsTyped, workers,
             cancel, JobPlaces, object, letters
    <2> QED
      BY <2>3 DEF Typed
  <1>5. ASSUME PushFailed(j)
        PROVE  Typed'
    <2>1. /\ jpc' = [jpc EXCEPT ![j] = "refused"] /\ jpc[j] = "failing" /\ obj[j] \in Objs
          /\ Released(obj[j]) /\ fut' = Completed(owner[obj[j]], "failed")
          /\ pending' \in Int
          /\ UNCHANGED <<obj, fresh, queued, letters, workers, cancel, ctx, ends, index,
                         returned, mpc, keys, bare>>
      BY <1>0, <1>5 DEF PushFailed, At, Refuse, history, Typed, Filled
    <2>2. obj[j] <= fresh /\ owner[obj[j]] \in Jobs \cup {None}
      BY <2>1, Given DEF Typed, ObjsTyped, Placed, Lined, Handed, Pushing, Owned
    <2>3. ObjsTyped'
      BY <2>1, <2>2, ReleasedTypes DEF Typed, ObjsTyped
    <2>4. fut' \in [Jobs -> {"none", "pending", "ok", "failed", "cancelled"}]
      BY <2>1, <2>2, CompletedTypes DEF Typed
    <2>5. HandsTyped' /\ CallsTyped' /\ JobsTyped' /\ Filled'
      BY <2>1, <2>4 DEF Typed, JobsTyped, HandsTyped, CallsTyped, Filled, workers, cancel, JobPlaces
    <2> QED
      BY <2>3, <2>5 DEF Typed
  <1> QED
    BY <1>1, <1>2, <1>3, <1>4, <1>5 DEF Submit

LEMMA GotoTypes ==
    ASSUME HandsTyped, NEW w \in Workers, wpc[w] \in Active \cup Late,
           NEW where \in Active \cup Late, Goto(w, where)
    PROVE  HandsTyped'
  <1>1. wobj' = wobj /\ wobj[w] \in Objs
    BY DEF HandsTyped, Goto
  <1>2. wpc' \in [Workers -> Active \cup Late \cup {"idle", "bareRun"}]
    BY DEF HandsTyped, Goto
  <1>3. \A v \in Workers : wpc'[v] = wpc[v] \/ v = w
    BY DEF HandsTyped, Goto
  <1>4. wpc'[w] # "bareRun"
    BY DEF HandsTyped, Goto, Active, Late
  <1> QED
    BY <1>1, <1>2, <1>3, <1>4 DEF HandsTyped

LEMMA LetGoTypes ==
    ASSUME HandsTyped, NEW w \in Workers, LetGo(w)
    PROVE  HandsTyped'
  BY DEF HandsTyped, LetGo, Active, Late

LEMMA SameHands ==
    ASSUME HandsTyped, UNCHANGED workers PROVE HandsTyped'
  BY DEF HandsTyped, workers

LEMMA SameCalls ==
    ASSUME CallsTyped, UNCHANGED <<cpc, cobj, cid>> PROVE CallsTyped'
  BY DEF CallsTyped

LEMMA SameObjs ==
    ASSUME ObjsTyped, UNCHANGED <<fresh, pooled, object, queued, index, letters>> PROVE ObjsTyped'
  BY DEF ObjsTyped, object, letters

LEMMA SameFilled ==
    ASSUME Filled, UNCHANGED <<jpc, obj>> PROVE Filled'
  BY DEF Filled

LEMMA WorkTyped ==
    ASSUME Typed, Placed, NEW w \in Workers, Work(w)
    PROVE  Typed'
  <1> DEFINE x == wobj[w]
  <1>0. /\ wpc[w] \in Active \cup Late => x \in Objs /\ Owner(w) \in Jobs \cup {None}
        /\ wpc[w] = "bareRun" => x \in Jobs
        /\ wpc[w] \in Active => Owner(w) \in Jobs
        /\ pending \in Int /\ pending - 1 \in Int
        /\ UNCHANGED <<cpc, cobj, cid, asked>> => CallsTyped'
        /\ UNCHANGED <<jpc, obj>> => Filled'
        /\ UNCHANGED <<fresh, pooled, object, queued, index, letters>> => ObjsTyped'
        /\ LetGo(w) => HandsTyped'
    <2>1. /\ wpc[w] \in Active \cup Late => x \in Objs /\ Owner(w) \in Jobs \cup {None}
          /\ wpc[w] = "bareRun" => x \in Jobs
          /\ wpc[w] \in Active => Owner(w) \in Jobs
      BY DEF Typed, HandsTyped, ObjsTyped, Placed, Lined, Handed, Pushing, Owned, Owner
    <2>2. pending \in Int /\ pending - 1 \in Int
      BY DEF Typed, JobsTyped
    <2>3. /\ UNCHANGED <<cpc, cobj, cid, asked>> => CallsTyped'
          /\ UNCHANGED <<jpc, obj>> => Filled'
          /\ UNCHANGED <<fresh, pooled, object, queued, index, letters>> => ObjsTyped'
          /\ LetGo(w) => HandsTyped'
      BY SameCalls, SameFilled, SameObjs, LetGoTypes DEF Typed
    <2> QED
      BY <2>1, <2>2, <2>3
  <1>1. CASE \E j \in bare : TakeBare(w, j)
    <2>1. PICK j \in bare : TakeBare(w, j)
      BY <1>1
    <2>2. JobsTyped' /\ HandsTyped'
      BY <2>1 DEF TakeBare, Typed, JobsTyped, HandsTyped, Active, Late, submission, cancel, batch, history
    <2> QED
      BY <1>0, <2>1, <2>2 DEF TakeBare, Typed, submission, cancel
  <1>2. CASE \E o \in queued : Take(w, o)
    <2>1. PICK o \in queued : Take(w, o)
      BY <1>2
    <2>2. JobsTyped' /\ HandsTyped' /\ ObjsTyped'
      BY <2>1 DEF Take, Typed, JobsTyped, HandsTyped, ObjsTyped, Active, Late, submission, object,
             letters, cancel, batch, history
    <2> QED
      BY <1>0, <2>1, <2>2 DEF Take, Typed, submission, cancel
  <1>3. CASE BareRuns(w)
    <2>1. PICK how \in {"succeeded", "failed"} : Ends(x, how)
      BY <1>3 DEF BareRuns
    <2>2. ends' \in [Jobs -> SUBSET Outcomes] /\ pending' \in Int /\ returned' \subseteq Jobs
      BY <1>0, <1>3, <2>1, EndsTypes DEF BareRuns, Done, Typed, Outcomes, JobsTyped
    <2>3. JobsTyped'
      BY <1>3, <2>2 DEF BareRuns, Typed, JobsTyped, submission, cancel
    <2> QED
      BY <1>0, <1>3, <2>3 DEF BareRuns, Typed, submission, cancel
  <1>4. ASSUME wpc[w] \in Active, NEW how \in Outcomes, Ends(Owner(w), how),
               NEW v \in Words, word' = [word EXCEPT ![x] = v], NEW where \in Active, Goto(w, where),
               UNCHANGED <<cfg, submission, owner, attempt, queued, bare, index, keys, ctx, fut,
                           letters, cancel, batch, returned, loose>>
        PROVE  Typed'
    <2>1. ends' \in [Jobs -> SUBSET Outcomes]
      BY <1>0, <1>4, EndsTypes DEF Typed
    <2>2. JobsTyped'
      BY <1>4, <2>1 DEF Typed, JobsTyped, submission, cancel, batch
    <2>3. ObjsTyped'
      BY <1>4 DEF Typed, ObjsTyped, submission, letters
    <2>4. HandsTyped'
      BY <1>4, GotoTypes DEF Typed
    <2> QED
      BY <1>0, <1>4, <2>2, <2>3, <2>4 DEF Typed, submission, cancel
  <1>5. CASE DropCancelled(w) \/ Succeeds(w) \/ DeadLetter(w)
    BY <1>4, <1>5 DEF DropCancelled, Succeeds, DeadLetter, Active, Words, Outcomes
  <1>6. CASE CancelUnindexes(w) \/ SuccessUnindexes(w) \/ DeathUnindexes(w)
    <2>1. PICK where \in Active : Goto(w, where)
      BY <1>6 DEF CancelUnindexes, SuccessUnindexes, DeathUnindexes, Active
    <2>2. /\ wpc[w] \in Active /\ index' = Unindexed(x)
          /\ UNCHANGED <<cfg, submission, object, queued, bare, keys, ctx, fut, letters,
                         cancel, batch, history>>
      BY <1>6 DEF CancelUnindexes, SuccessUnindexes, DeathUnindexes, Active
    <2>3. index' \in [IDs -> Objs \cup {None}]
      BY <1>0, <2>2, UnindexedTypes DEF Typed
    <2>4. ObjsTyped'
      BY <2>2, <2>3 DEF Typed, ObjsTyped, object, submission, letters
    <2>5. JobsTyped'
      BY <2>2 DEF Typed, JobsTyped, submission, cancel, batch, history
    <2>6. HandsTyped'
      BY <2>1, <2>2, GotoTypes DEF Typed
    <2> QED
      BY <1>0, <2>2, <2>4, <2>5, <2>6 DEF Typed, submission, cancel
  <1>7. CASE CancelCompletes(w) \/ SuccessCompletes(w) \/ DeathCompletes(w)
    <2>1. PICK where \in Active \cup Late : Goto(w, where)
      BY <1>7 DEF CancelCompletes, SuccessCompletes, DeathCompletes, Active, Late
    <2>2. PICK how \in {"ok", "failed", "cancelled"} : fut' = Completed(Owner(w), how)
      BY <1>7 DEF CancelCompletes, SuccessCompletes, DeathCompletes
    <2>3. /\ wpc[w] \in Active \cup Late
          /\ UNCHANGED <<cfg, submission, object, queued, bare, index, keys, ctx, letters, cancel,
                         batch, ends, returned, loose>>
      BY <1>7 DEF CancelCompletes, SuccessCompletes, DeathCompletes, Active, Late
    <2>4. fut' \in [Jobs -> {"none", "pending", "ok", "failed", "cancelled"}]
      BY <1>0, <2>2, <2>3, CompletedTypes DEF Typed
    <2>5. JobsTyped'
      BY <2>3, <2>4 DEF Typed, JobsTyped, submission, cancel, batch
    <2>6. HandsTyped'
      BY <2>1, <2>3, GotoTypes DEF Typed
    <2> QED
      BY <1>0, <2>3, <2>5, <2>6 DEF Typed, submission, cancel
  <1>8. CASE SuccessFreesKey(w) \/ DeathFreesKey(w)
    <2>1. /\ wpc[w] \in Active \cup Late /\ keys' = KeyFreed(x)
          /\ UNCHANGED <<cfg, submission, object, queued, bare, index, ctx, fut, letters, cancel,
                         batch, history>>
      BY <1>8 DEF SuccessFreesKey, DeathFreesKey, Active, Late
    <2>2. JobsTyped'
      BY <2>1 DEF Typed, JobsTyped, submission, cancel, batch, history, KeyFreed
    <2>3. HandsTyped'
      BY <1>8, GotoTypes, LetGoTypes DEF SuccessFreesKey, DeathFreesKey, Typed, Active
    <2> QED
      BY <1>0, <2>1, <2>2, <2>3 DEF Typed, submission, cancel
  <1>9. CASE Starts(w)
    <2>1. wpc[w] \in Active /\ "run" \in Active /\ Goto(w, "run")
      BY <1>9 DEF Starts, Active
    <2>2. JobsTyped' /\ ObjsTyped'
      BY <1>0, <1>9, <2>1 DEF Starts, Typed, JobsTyped, ObjsTyped, submission, letters, cancel, batch,
             history, Words
    <2> QED
      BY <1>0, <1>9, <2>1, <2>2, GotoTypes DEF Starts, Typed, submission, cancel
  <1>10. CASE Runs(w)
    <2>1. PICK where \in Active : Goto(w, where)
      BY <1>10 DEF Runs, Active
    <2>2. wpc[w] \in Active
      BY <1>10 DEF Runs, Active
    <2>3. JobsTyped'
      BY <1>0, <1>10, <2>2 DEF Runs, Done, Typed, JobsTyped, submission, cancel
    <2> QED
      BY <1>0, <1>10, <2>1, <2>2, <2>3, GotoTypes DEF Runs, Typed, submission, cancel
  <1>11. CASE Releases(w)
    <2>1. /\ wpc[w] \in Active /\ Released(x)
          /\ UNCHANGED <<fresh, index, queued, letters>>
      BY <1>11 DEF Releases, Active
    <2>2. x <= fresh
      BY <1>0, <2>1 DEF Placed, Lined, Handed, Pushing, Owned, Owner
    <2>3. ObjsTyped'
      BY <1>0, <2>1, <2>2, ReleasedTypes DEF Typed, ObjsTyped
    <2>4. JobsTyped'
      BY <1>11 DEF Releases, Typed, JobsTyped, cancel, batch, history
    <2> QED
      BY <1>0, <1>11, <2>3, <2>4 DEF Releases, Typed, cancel
  <1>12. CASE Fails(w) \/ Retries(w) \/ Postpones(w)
    <2>1. PICK v \in Words, where \in Active :
              /\ wpc[w] \in Active /\ word' = [word EXCEPT ![x] = v] /\ Goto(w, where)
              /\ UNCHANGED <<cfg, submission, owner, attempt, queued, bare, index, keys, ctx, fut,
                             letters, cancel, batch, history>>
      BY <1>12 DEF Fails, Retries, Postpones, Active, Words
    <2>2. JobsTyped' /\ ObjsTyped'
      BY <1>0, <2>1 DEF Typed, JobsTyped, ObjsTyped, submission, letters, cancel, batch, history
    <2> QED
      BY <1>0, <2>1, <2>2, GotoTypes DEF Typed, submission, cancel
  <1>14. CASE Requeues(w)
    <2>1. wpc[w] \in Active
      BY <1>14 DEF Requeues, Active
    <2>2. JobsTyped' /\ ObjsTyped'
      BY <1>0, <1>14, <2>1 DEF Requeues, Typed, JobsTyped, ObjsTyped, submission, object, letters,
             cancel, batch, history
    <2> QED
      BY <1>0, <1>14, <2>2 DEF Requeues, Typed, submission, cancel
  <1>13. CASE DeathAppends(w)
    <2>1. wpc[w] \in Active /\ "deadFuture" \in Active \cup Late /\ Goto(w, "deadFuture")
      BY <1>13 DEF DeathAppends, Active, Late
    <2>2. JobsTyped' /\ ObjsTyped'
      BY <1>0, <1>13, <2>1 DEF DeathAppends, Typed, JobsTyped, ObjsTyped, submission, object, cancel,
             batch, history
    <2> QED
      BY <1>0, <1>13, <2>1, <2>2, GotoTypes DEF DeathAppends, Typed, submission, cancel
  <1> QED
    BY <1>1, <1>2, <1>3, <1>5, <1>6, <1>7, <1>8, <1>9, <1>10, <1>11, <1>12, <1>13, <1>14 DEF Work

LEMMA CancelTyped ==
    ASSUME Typed, NEW c \in Cancellers,
           Cancel(c) \/ (\E i \in CancelIDs : CancelLoads(c, i)) \/ (\E j \in Jobs : FutureCancel(c, j))
    PROVE  Typed'
  <1> DEFINE x == cobj[c]
  <1>0. /\ cpc[c] \in {"store", "cancel", "future", "delete"} =>
              x \in Objs /\ cid[c] \in IDs /\ owner[x] \in Jobs \cup {None}
        /\ cpc[c] = "complete" => x \in Jobs
        /\ UNCHANGED <<fresh, pooled, object, queued, index, letters>> => ObjsTyped'
        /\ UNCHANGED workers => HandsTyped'
        /\ UNCHANGED <<jpc, obj>> => Filled'
    <2>1. /\ cpc[c] \in {"store", "cancel", "future", "delete"} =>
                x \in Objs /\ cid[c] \in IDs /\ owner[x] \in Jobs \cup {None}
          /\ cpc[c] = "complete" => x \in Jobs
      BY DEF Typed, CallsTyped, ObjsTyped
    <2> QED
      BY <2>1, SameObjs, SameHands, SameFilled DEF Typed
  <1>1. CASE \E i \in CancelIDs : CancelLoads(c, i)
    <2>1. PICK i \in CancelIDs : CancelLoads(c, i)
      BY <1>1
    <2>2. i \in IDs /\ index[i] \in Objs
      BY <2>1, Given DEF CancelLoads, Typed, ObjsTyped
    <2>3. CallsTyped'
      BY <2>1, <2>2 DEF CancelLoads, Cancels, Typed, CallsTyped
    <2>4. JobsTyped'
      BY <2>1 DEF CancelLoads, Typed, JobsTyped, submission, batch, history
    <2> QED
      BY <1>0, <2>1, <2>3, <2>4 DEF CancelLoads, Typed, submission
  <1>2. CASE \E j \in Jobs : FutureCancel(c, j)
    <2>1. PICK j \in Jobs : FutureCancel(c, j)
      BY <1>2
    <2>2. CallsTyped'
      BY <2>1 DEF FutureCancel, Cancels, Typed, CallsTyped
    <2>3. JobsTyped'
      BY <2>1 DEF FutureCancel, Typed, JobsTyped, submission, batch, history
    <2> QED
      BY <1>0, <2>1, <2>2, <2>3 DEF FutureCancel, Typed, submission
  <1>3. CASE Cancel(c)
    <2>1. CallsTyped'
      BY <1>3 DEF Cancel, CancelStores, CancelContext, CancelFuture, CancelUnindex, FutureCancelled,
             Cancels, Typed, CallsTyped
    <2>2. HandsTyped' /\ Filled'
      BY <1>0, <1>3 DEF Cancel, CancelStores, CancelContext, CancelFuture, CancelUnindex,
             FutureCancelled, submission
    <2>3. CASE CancelStores(c)
      <3>1. JobsTyped' /\ ObjsTyped'
        BY <1>0, <2>3 DEF CancelStores, Typed, JobsTyped, ObjsTyped, Words, submission, letters, batch, history
      <3> QED
        BY <2>1, <2>2, <3>1 DEF Typed
    <2>4. CASE CancelContext(c)
      <3>1. ctx' \subseteq Jobs
        BY <1>0, <2>4 DEF CancelContext, Typed, JobsTyped
      <3>2. JobsTyped'
        BY <2>4, <3>1 DEF CancelContext, Typed, JobsTyped, submission, batch, history
      <3> QED
        BY <1>0, <2>1, <2>2, <2>4, <3>2 DEF CancelContext, Typed, submission
    <2>5. CASE CancelFuture(c) \/ FutureCancelled(c)
      <3>1. fut' \in [Jobs -> {"none", "pending", "ok", "failed", "cancelled"}]
        BY <1>0, <2>5, CompletedTypes DEF CancelFuture, FutureCancelled, Typed
      <3>2. JobsTyped'
        BY <2>5, <3>1 DEF CancelFuture, FutureCancelled, Typed, JobsTyped, submission, batch, history
      <3> QED
        BY <1>0, <2>1, <2>2, <2>5, <3>2 DEF CancelFuture, FutureCancelled, Typed, submission
    <2>6. CASE CancelUnindex(c)
      <3>1. JobsTyped' /\ ObjsTyped'
        BY <1>0, <2>6 DEF CancelUnindex, Typed, JobsTyped, ObjsTyped, submission, object, letters,
               batch, history
      <3> QED
        BY <2>1, <2>2, <3>1 DEF Typed
    <2> QED
      BY <1>3, <2>3, <2>4, <2>5, <2>6 DEF Cancel
  <1> QED
    BY <1>1, <1>2, <1>3

LEMMA OtherTyped ==
    ASSUME Typed, ReplayTakes \/ (\E o \in replay : ReplayPushes(o)) \/ MapWaits \/ MapReturns
                      \/ UNCHANGED vars
    PROVE  Typed'
  <1>1. CASE ReplayTakes
    <2>1. ObjsTyped'
      BY <1>1, Given DEF ReplayTakes, Typed, ObjsTyped, object, submission
    <2> QED
      BY <1>1, <2>1 DEF ReplayTakes, Typed, JobsTyped, HandsTyped, CallsTyped, Filled, submission,
             workers, cancel, batch, history
  <1>2. CASE \E o \in replay : ReplayPushes(o)
    <2>1. PICK o \in replay : ReplayPushes(o)
      BY <1>2
    <2>2. ObjsTyped'
      BY <2>1 DEF ReplayPushes, Typed, ObjsTyped, submission
    <2> QED
      BY <2>1, <2>2 DEF ReplayPushes, Typed, JobsTyped, HandsTyped, CallsTyped, Filled, submission,
             workers, cancel, batch, history
  <1>3. CASE MapWaits \/ MapReturns
    BY <1>3 DEF MapWaits, MapReturns, Typed, JobsTyped, ObjsTyped, HandsTyped, CallsTyped, Filled,
           submission, object, letters, workers, cancel, history
  <1>4. CASE UNCHANGED vars
    BY <1>4 DEF vars, Typed, JobsTyped, ObjsTyped, HandsTyped, CallsTyped, Filled,
           submission, object, letters, workers, cancel, batch, history
  <1> QED
    BY <1>1, <1>2, <1>3, <1>4

LEMMA StepsTyped ==
    ASSUME Typed, Placed, [Next]_vars
    PROVE  Typed'
  BY SubmitTyped, WorkTyped, CancelTyped, OtherTyped DEF Next, Progress
-----------------------------------------------------------------------------
(* One place at a time. *)

\* The steps that move no object: workers only go on with theirs or let go.
LEMMA PlacedStays ==
    ASSUME Placed, UNCHANGED <<queued, dlq, replay, owner, obj, pooled, fresh, jpc>>,
           \A v \in Workers : wpc'[v] \in Active => wpc[v] \in Active /\ wobj'[v] = wobj[v]
    PROVE  Placed'
  BY DEF Placed, Lined, Handed, Pushing, Owned, Waiting

LEMMA SubmitPlaced ==
    ASSUME Typed, Placed, NEW j \in Jobs, Submit(j)
    PROVE  Placed'
  <1>0. /\ jpc \in [Jobs -> JobPlaces] /\ obj \in [Jobs -> Objs \cup {None}]
        /\ owner \in [Objs -> Jobs \cup {None}] /\ None \notin Jobs /\ None \notin Objs
        /\ fresh \in Nat /\ pooled \subseteq 1..fresh /\ Waiting \subseteq Objs /\ Objs \subseteq Nat
        /\ \A w \in Workers : wpc[w] \in Active => wobj[w] \in Objs
    BY Given DEF Typed, JobsTyped, ObjsTyped, HandsTyped, Waiting, Objs
  <1>1. ASSUME Begin(j) \/ TakeKey(j) \/ RateRefuses(j) \/ PushBare(j)
        PROVE  Placed'
    <2>1. /\ UNCHANGED <<queued, dlq, replay, owner, obj, pooled, fresh, wpc, wobj>>
          /\ jpc[j] \in {"new", "bare", "key", "rate"}
          /\ jpc'[j] \in JobPlaces \ {"push", "failing"}
          /\ \A i \in Jobs : i # j => jpc'[i] = jpc[i]
      BY <1>0, <1>1 DEF Begin, TakeKey, RateRefuses, PushBare, At, Refuse, object, letters, workers,
             JobPlaces
    <2>2. obj[j] = None
      BY <2>1 DEF Placed, Owned
    <2>3. \A o \in Objs : owner[o] # None => owner[o] \in Jobs /\ owner[o] # j
      BY <1>0, <2>2 DEF Placed, Owned
    <2> QED
      BY <2>1, <2>2, <2>3 DEF Placed, Lined, Handed, Pushing, Owned, Waiting
  <1>2. ASSUME NEW o \in Objs, Fill(j, o)
        PROVE  Placed'
    <2>1. /\ UNCHANGED <<queued, dlq, replay, wpc, wobj>>
          /\ jpc[j] = "rate" /\ obj[j] = None
          /\ o \in pooled \/ o = fresh + 1
          /\ pooled' = pooled \ {o} /\ fresh' = IF o \in pooled THEN fresh ELSE o
          /\ \A i \in Jobs : /\ jpc'[i] = IF i = j THEN "push" ELSE jpc[i]
                             /\ obj'[i] = IF i = j THEN o ELSE obj[i]
          /\ \A x \in Objs : owner'[x] = IF x = o THEN j ELSE owner[x]
      BY <1>0, <1>2 DEF Fill, At, letters, workers, Placed, Lined, Handed, Pushing, Owned
    <2>2. owner[o] = None
      BY <1>0, <2>1 DEF Placed, Lined, Handed, Pushing, Owned
    <2>3. \A x \in Objs : owner[x] # None => owner[x] \in Jobs /\ owner[x] # j /\ x # o
      BY <1>0, <2>1, <2>2 DEF Placed, Lined, Handed, Pushing, Owned
    <2>4. o \notin Waiting /\ \A w \in Workers : wpc[w] \in Active => wobj[w] # o
      BY <2>2 DEF Placed, Lined, Handed, Pushing, Owned
    <2>5. \A i \in Jobs : jpc[i] \in {"push", "failing"} => obj[i] # o /\ obj[i] \in Objs
      BY <1>0, <2>2 DEF Placed, Lined, Handed, Pushing, Owned, Typed, Filled
    <2>6. \A x \in Objs : owner'[x] # None => x \notin pooled' /\ x <= fresh'
      BY <1>0, <2>1, <2>2 DEF Placed, Lined, Handed, Pushing, Owned
    <2>7. \A x \in Waiting : owner'[x] # None
      BY <1>0, <2>1, <2>4 DEF Placed, Lined, Handed, Pushing, Owned
    <2>8. ASSUME NEW w \in Workers, wpc[w] \in Active PROVE owner'[wobj[w]] # None
      <3>1. wobj[w] \in Objs /\ wobj[w] # o /\ owner[wobj[w]] # None
        BY <1>0, <2>4, <2>8 DEF Placed, Handed, HandsTyped
      <3> QED
        BY <2>1, <3>1
    <2>9. \A x \in Objs : owner'[x] # None =>
              obj'[owner'[x]] = x /\ jpc'[owner'[x]] \in {"push", "failing", "accepted", "refused"}
      BY <1>0, <2>1, <2>3 DEF Placed, Lined, Handed, Pushing, Owned
    <2>10. \A i \in Jobs : jpc'[i] \in {"push", "failing"} =>
              /\ owner'[obj'[i]] = i /\ obj'[i] \notin Waiting
              /\ \A w \in Workers : wpc[w] \in Active => wobj[w] # obj'[i]
      <3> SUFFICES ASSUME NEW i \in Jobs, jpc'[i] \in {"push", "failing"}
                   PROVE  /\ owner'[obj'[i]] = i /\ obj'[i] \notin Waiting
                          /\ \A w \in Workers : wpc[w] \in Active => wobj[w] # obj'[i]
        OBVIOUS
      <3>1. CASE i = j
        BY <2>1, <2>4, <3>1
      <3>2. CASE i # j
        BY <2>1, <2>5, <3>2 DEF Placed, Pushing
      <3> QED
        BY <3>1, <3>2
    <2>11. \A i \in Jobs : jpc'[i] \in {"absent", "new", "bare", "key", "rate"} => obj'[i] = None
      BY <2>1 DEF Placed, Lined, Handed, Pushing, Owned
    <2> QED
      BY <2>1, <2>6, <2>7, <2>8, <2>9, <2>10, <2>11 DEF Placed, Lined, Handed, Pushing, Owned, Waiting
  <1>3. ASSUME Push(j)
        PROVE  Placed'
    <2>1. /\ queued' = queued \cup {obj[j]} /\ jpc[j] = "push" /\ obj[j] \in Objs
          /\ UNCHANGED <<dlq, replay, wpc, wobj, owner, obj, pooled, fresh>>
          /\ \A i \in Jobs : jpc'[i] = IF i = j THEN "accepted" ELSE jpc[i]
      BY <1>0, <1>3 DEF Push, At, letters, workers, object, Typed, Filled
    <2>2. /\ owner[obj[j]] = j /\ obj[j] \notin Waiting
          /\ \A w \in Workers : wpc[w] \in Active => wobj[w] # obj[j]
      BY <2>1 DEF Placed, Lined, Handed, Pushing, Owned
    <2>3. \A i \in Jobs : i # j /\ jpc[i] \in {"push", "failing"} => obj[i] # obj[j]
      BY <2>1, <2>2 DEF Placed, Lined, Handed, Pushing, Owned
    <2> QED
      BY <1>0, <2>1, <2>2, <2>3 DEF Placed, Lined, Handed, Pushing, Owned, Waiting
  <1>4. ASSUME PushFails(j)
        PROVE  Placed'
    <2>1. /\ UNCHANGED <<queued, dlq, replay, wpc, wobj, owner, obj, pooled, fresh>>
          /\ jpc[j] = "push"
          /\ \A i \in Jobs : jpc'[i] = IF i = j THEN "failing" ELSE jpc[i]
      BY <1>0, <1>4 DEF PushFails, At, letters, workers, object
    <2> QED
      BY <1>0, <2>1 DEF Placed, Lined, Handed, Pushing, Owned, Waiting
  <1>5. ASSUME PushFailed(j)
        PROVE  Placed'
    <2> DEFINE o == obj[j]
    <2>1. /\ UNCHANGED <<queued, dlq, replay, wpc, wobj, obj, fresh>> /\ Released(o)
          /\ jpc[j] = "failing" /\ o \in Objs
          /\ \A i \in Jobs : jpc'[i] = IF i = j THEN "refused" ELSE jpc[i]
      BY <1>0, <1>5 DEF PushFailed, Refuse, At, letters, workers, Typed, Filled
    <2>2. /\ owner[o] = j /\ o \notin Waiting
          /\ \A w \in Workers : wpc[w] \in Active => wobj[w] # o
          /\ \A i \in Jobs : i # j /\ jpc[i] \in {"push", "failing"} => obj[i] # o
      BY <2>1 DEF Placed, Lined, Handed, Pushing, Owned
    <2>3. \/ UNCHANGED <<owner, pooled>>
          \/ /\ pooled' = pooled \cup {o}
             /\ \A x \in Objs : owner'[x] = IF x = o THEN None ELSE owner[x]
      BY <1>0, <2>1 DEF Released, object
    <2> HIDE DEF o
    <2>4. \A x \in Objs : owner'[x] # None => owner'[x] = owner[x] /\ x \notin pooled' /\ x <= fresh
      <3>1. Owned
        BY <1>0 DEF Placed
      <3>2. ASSUME NEW x \in Objs, owner'[x] # None
            PROVE  owner'[x] = owner[x] /\ (x \in pooled' => x \in pooled)
        BY <2>3, <3>2
      <3> QED
        BY <3>1, <3>2 DEF Owned
    <2>5. \A x \in Objs : x # o => owner'[x] = owner[x]
      BY <2>3
    <2>6. \A i \in Jobs : jpc'[i] \in {"push", "failing"} => i # j /\ obj[i] \in Objs /\ obj[i] # o
      BY <2>1, <2>2 DEF Typed, Filled
    <2> QED
      <3>1. Lined' /\ Waiting' = Waiting
        BY <1>0, <2>1, <2>2, <2>5 DEF Placed, Lined, Waiting
      <3>2. Handed'
        BY <1>0, <2>1, <2>2, <2>5, <3>1 DEF Placed, Handed
      <3>3. Pushing'
        BY <2>1, <2>5, <2>6, <3>1 DEF Placed, Pushing
      <3>4. Owned'
        <4>1. \A y \in Objs : owner[y] # None /\ owner[y] # j => jpc'[owner[y]] = jpc[owner[y]]
          BY <1>0, <2>1
        <4>2. jpc'[j] = "refused"
          BY <2>1
        <4> QED
          BY <1>0, <2>1, <2>4, <4>1, <4>2 DEF Placed, Owned
      <3> QED
        BY <3>1, <3>2, <3>3, <3>4 DEF Placed
  <1> QED
    BY <1>1, <1>2, <1>3, <1>4, <1>5 DEF Submit

LEMMA WorkPlaced ==
    ASSUME Typed, Placed, NEW w \in Workers, Work(w)
    PROVE  Placed'
  <1>0. /\ HandsTyped /\ owner \in [Objs -> Jobs \cup {None}] /\ Waiting \subseteq Objs
        /\ \A v \in Workers : wpc[v] \in Active => wobj[v] \in Objs
        /\ fresh \in Nat /\ Objs \subseteq Nat /\ None \notin Jobs
    BY Given DEF Typed, ObjsTyped, HandsTyped, Waiting, Objs
  <1> DEFINE x == wobj[w]
  <1>1. CASE \E j \in bare : TakeBare(w, j)
    <2>1. \A v \in Workers : wpc'[v] \in Active => wpc[v] \in Active /\ wobj'[v] = wobj[v]
      BY <1>0, <1>1 DEF TakeBare, HandsTyped, Active
    <2> QED
      BY <1>1, <2>1, PlacedStays DEF TakeBare, submission, object, letters
  <1>2. CASE BareRuns(w) \/ SuccessFreesKey(w) \/ DeathFreesKey(w)
    <2>1. LetGo(w) \/ (Goto(w, "release") /\ wpc[w] = "successKey")
      BY <1>2 DEF BareRuns, SuccessFreesKey, DeathFreesKey
    <2>2. \A v \in Workers : wpc'[v] \in Active => wpc[v] \in Active /\ wobj'[v] = wobj[v]
      BY <1>0, <2>1 DEF LetGo, Goto, HandsTyped, Active
    <2> QED
      BY <1>2, <2>2, PlacedStays DEF BareRuns, SuccessFreesKey, DeathFreesKey, submission, object, letters
  <1>3. CASE \/ DropCancelled(w) \/ CancelUnindexes(w) \/ CancelCompletes(w) \/ Starts(w) \/ Runs(w)
             \/ Succeeds(w) \/ SuccessUnindexes(w) \/ SuccessCompletes(w) \/ Fails(w) \/ Retries(w)
             \/ Postpones(w) \/ DeadLetter(w) \/ DeathUnindexes(w) \/ DeathCompletes(w)
    <2>1. /\ \E where \in Active \cup Late : Goto(w, where) /\ (where \in Active => wpc[w] \in Active)
          /\ UNCHANGED <<queued, dlq, replay, owner, obj, pooled, fresh, jpc>>
      BY <1>3 DEF DropCancelled, CancelUnindexes, CancelCompletes, Starts, Runs, Succeeds,
             SuccessUnindexes, SuccessCompletes, Fails, Retries, Postpones, DeadLetter, DeathUnindexes,
             DeathCompletes, Active, Late, submission, object, letters
    <2>2. \A v \in Workers : wpc'[v] \in Active => wpc[v] \in Active /\ wobj'[v] = wobj[v]
      BY <1>0, <2>1 DEF Goto, HandsTyped
    <2> QED
      BY <2>1, <2>2, PlacedStays
  <1>4. CASE \E o \in queued : Take(w, o)
    <2>1. PICK o \in queued : Take(w, o)
      BY <1>4
    <2>2. /\ queued' = queued \ {o} /\ UNCHANGED <<dlq, replay, owner, obj, pooled, fresh, jpc>>
          /\ wpc[w] = "idle"
          /\ \A v \in Workers : /\ wpc'[v] = IF v = w THEN "check" ELSE wpc[v]
                                /\ wobj'[v] = IF v = w THEN o ELSE wobj[v]
      BY <1>0, <2>1 DEF Take, HandsTyped, submission, object, letters
    <2>3. o \in Waiting /\ owner[o] # None /\ o \notin dlq /\ o \notin replay
      BY DEF Waiting, Placed, Lined, Handed, Pushing, Owned
    <2> QED
      BY <2>2, <2>3 DEF Placed, Lined, Handed, Pushing, Owned, Waiting
  <1>5. CASE Releases(w)
    <2>1. /\ UNCHANGED <<queued, dlq, replay, obj, fresh, jpc>> /\ Released(x)
          /\ wpc[w] = "release" /\ x \in Objs
          /\ \A v \in Workers : wpc'[v] \in Active => v # w /\ wpc[v] \in Active /\ wobj'[v] = wobj[v]
      BY <1>0, <1>5 DEF Releases, LetGo, HandsTyped, Active, letters
    <2>2. /\ x \notin Waiting /\ wpc[w] \in Active
          /\ \A v \in Workers : wpc'[v] \in Active => wobj[v] # x /\ wobj[v] \in Objs
          /\ \A i \in Jobs : jpc[i] \in {"push", "failing"} => obj[i] # x /\ obj[i] \in Objs
      <3>1. wpc[w] \in Active
        BY <2>1 DEF Active
      <3> QED
        BY <1>0, <2>1, <3>1 DEF Placed, Lined, Handed, Pushing, Owned, Typed, Filled
    <2>3. \/ UNCHANGED <<owner, pooled>>
          \/ /\ pooled' = pooled \cup {x}
             /\ \A y \in Objs : owner'[y] = IF y = x THEN None ELSE owner[y]
      BY <1>0, <2>1 DEF Released, object
    <2> HIDE DEF x
    <2>4. \A y \in Objs : owner'[y] # None => owner'[y] = owner[y] /\ y \notin pooled' /\ y <= fresh
      BY <2>1, <2>3 DEF Placed, Owned
    <2>5. \A y \in Objs : y # x => owner'[y] = owner[y]
      BY <2>3
    <2> QED
      <3>1. Lined' /\ Waiting' = Waiting
        BY <1>0, <2>1, <2>2, <2>5 DEF Placed, Lined, Waiting
      <3>2. Handed'
        <4>1. ASSUME NEW v \in Workers, wpc'[v] \in Active
              PROVE  owner'[wobj'[v]] # None /\ wobj'[v] \notin Waiting'
          BY <2>1, <2>2, <2>5, <3>1, <4>1 DEF Placed, Handed
        <4>2. ASSUME NEW u \in Workers, NEW v \in Workers, u # v,
                     wpc'[u] \in Active, wpc'[v] \in Active
              PROVE  wobj'[u] # wobj'[v]
          BY <2>1, <4>2 DEF Placed, Handed
        <4> QED
          BY <4>1, <4>2 DEF Handed
      <3>3. Pushing'
        BY <2>1, <2>2, <2>5, <3>1 DEF Placed, Pushing
      <3>4. Owned'
        BY <2>1, <2>4 DEF Placed, Owned
      <3> QED
        BY <3>1, <3>2, <3>3, <3>4 DEF Placed
  <1>6. ASSUME wpc[w] \in Active, UNCHANGED <<replay, owner, obj, pooled, fresh, jpc>>,
               \/ queued' = queued \cup {x} /\ UNCHANGED dlq
               \/ dlq' = dlq \cup {x} /\ UNCHANGED queued,
               \A v \in Workers : wpc'[v] \in Active => v # w /\ wpc[v] \in Active /\ wobj'[v] = wobj[v]
        PROVE  Placed'
    <2>1. x \notin Waiting /\ owner[x] # None
      BY <1>6 DEF Placed, Lined, Handed, Pushing, Owned
    <2>2. /\ \A v \in Workers : wpc'[v] \in Active => wobj[v] # x
          /\ \A i \in Jobs : jpc[i] \in {"push", "failing"} => obj[i] # x
      BY <1>6 DEF Placed, Lined, Handed, Pushing, Owned
    <2> HIDE DEF x
    <2>3. Waiting' = Waiting \cup {x}
      BY <1>6 DEF Waiting
    <2> QED
      BY <1>6, <2>1, <2>2, <2>3 DEF Placed, Lined, Handed, Pushing, Owned, Waiting
  <1>7. CASE Requeues(w)
    <2>1. \A v \in Workers : wpc'[v] \in Active => v # w /\ wpc[v] \in Active /\ wobj'[v] = wobj[v]
      BY <1>0, <1>7 DEF Requeues, LetGo, HandsTyped, Active
    <2>2. wpc[w] \in Active
      BY <1>7 DEF Requeues, Active
    <2> QED
      BY <1>6, <1>7, <2>1, <2>2 DEF Requeues, submission, object, letters
  <1>8. CASE DeathAppends(w)
    <2>1. \A v \in Workers : wpc'[v] \in Active => v # w /\ wpc[v] \in Active /\ wobj'[v] = wobj[v]
      BY <1>0, <1>8 DEF DeathAppends, Goto, HandsTyped, Active
    <2>2. wpc[w] \in Active
      BY <1>8 DEF DeathAppends, Active
    <2> QED
      BY <1>6, <1>8, <2>1, <2>2 DEF DeathAppends, submission, object
  <1> QED
    BY <1>1, <1>2, <1>3, <1>4, <1>5, <1>7, <1>8 DEF Work

LEMMA StepsPlaced ==
    ASSUME Typed, Placed, [Next]_vars
    PROVE  Placed'
  <1>1. CASE ReplayTakes
    <2>1. /\ replay = {} /\ replay' = dlq /\ dlq' = {}
          /\ UNCHANGED <<queued, owner, obj, pooled, fresh, jpc, wpc, wobj>>
      BY <1>1 DEF ReplayTakes, submission, object, workers
    <2> QED
      BY <2>1 DEF Placed, Lined, Handed, Pushing, Owned, Waiting
  <1>2. CASE \E o \in replay : ReplayPushes(o)
    <2>1. PICK o \in replay : ReplayPushes(o)
      BY <1>2
    <2>2. /\ replay' = replay \ {o}
          /\ \/ queued' = queued \cup {o} /\ UNCHANGED dlq
             \/ dlq' = dlq \cup {o} /\ UNCHANGED queued
          /\ UNCHANGED <<owner, obj, pooled, fresh, jpc, wpc, wobj>>
      BY <2>1 DEF ReplayPushes, submission, workers
    <2>3. Waiting' = Waiting
      BY <2>2 DEF Waiting
    <2> QED
      BY <2>2, <2>3 DEF Placed, Lined, Handed, Pushing, Owned, Waiting
  <1>3. CASE \/ \E c \in Cancellers : Cancel(c) \/ (\E i \in CancelIDs : CancelLoads(c, i))
                                          \/ (\E j \in Jobs : FutureCancel(c, j))
             \/ MapWaits \/ MapReturns \/ UNCHANGED vars
    <2>1. UNCHANGED <<queued, dlq, replay, owner, obj, pooled, fresh, jpc, wpc, wobj>>
      BY <1>3 DEF Cancel, CancelStores, CancelContext, CancelFuture, CancelUnindex, FutureCancelled,
             CancelLoads, FutureCancel, MapWaits, MapReturns, vars, submission, object, letters, workers
    <2> QED
      BY <2>1, PlacedStays
  <1> QED
    BY <1>1, <1>2, <1>3, SubmitPlaced, WorkPlaced DEF Next, Progress

LEMMA StartsTypedPlaced ==
    ASSUME Init PROVE Typed /\ Placed
  <1>1. \A j \in Jobs : jpc[j] \in {"new", "absent"}
    BY Zenon DEF Init
  <1>2. JobsTyped
    <2>1. jpc \in [Jobs -> JobPlaces] /\ mpc \in {"submitting", "waiting", "returned"}
      BY DEF Init, JobPlaces
    <2> QED
      BY <2>1, Given DEF Init, JobsTyped
  <1>3. ObjsTyped
    BY Given DEF Init, ObjsTyped, Words
  <1>4. HandsTyped /\ CallsTyped
    BY DEF Init, HandsTyped, CallsTyped, Active, Late
  <1>5. Filled
    BY <1>1 DEF Filled
  <1>6. queued = {} /\ dlq = {} /\ replay = {} /\ Waiting = {}
    BY DEF Init, Waiting
  <1>7. /\ \A o \in Objs : owner[o] = None
        /\ \A j \in Jobs : obj[j] = None
        /\ \A w \in Workers : wpc[w] \notin Active
    BY DEF Init, Active
  <1>8. Placed
    BY <1>1, <1>6, <1>7 DEF Placed, Lined, Handed, Pushing, Owned
  <1> QED
    BY <1>2, <1>3, <1>4, <1>5, <1>8 DEF Typed

\* A recycled *queuedJob is in nobody's hands: whatever jobPool gives out, and
\* however a job is retried, dead-lettered and replayed, an object that holds a
\* job's data is held by one goroutine, or in one queue, or in the DLQ (pool.go
\* submit, execute, deadletter and releaseJob).
THEOREM ObjectsPlaced == Spec => [](Typed /\ Placed)
  <1>1. Init => Typed /\ Placed
    BY StartsTypedPlaced
  <1>2. Typed /\ Placed /\ [Next]_vars => (Typed /\ Placed)'
    BY StepsTyped, StepsPlaced
  <1> QED
    BY <1>1, <1>2, PTL DEF Spec
-----------------------------------------------------------------------------
(* p.jobs. *)

\* An entry leads to an object that is still to be run or is being run.
Held(o) ==
    \/ o \in queued
    \/ jpc[owner[o]] = "push"
    \/ \E w \in Workers : wpc[w] \in AtWork /\ wobj[w] = o
Found ==
    \A i \in IDs : index[i] # None =>
        /\ owner[index[i]] # None /\ Tracked(owner[index[i]]) /\ ID(owner[index[i]]) = i
        /\ Held(index[i])
\* Whoever takes a job out of the index has either ended it or been asked to.
Ending == \A w \in Workers : wpc[w] \in {"cancelled", "succeeded", "dead"} => ends[Owner(w)] # {}
Asking ==
    \A c \in Cancellers : cpc[c] \in {"store", "cancel", "future", "delete"} =>
        {j \in Jobs : ID(j) = cid[c]} \subseteq asked
Kept ==
    \A j \in Jobs \ asked :
        Tracked(j) /\ obj[j] # None /\ ends[j] = {} /\ (\A k \in Jobs \ {j} : ID(k) # ID(j))
            => index[ID(j)] = obj[j]
Indexed == Found /\ Ending /\ Asking /\ Kept

\* No step changes the configuration, and with it any job's options; a job that
\* has ended or was asked for stays so.
LEMMA Frame ==
    ASSUME Typed, Placed, [Next]_vars
    PROVE  /\ UNCHANGED cfg
           /\ \A j \in Jobs : ends[j] \subseteq ends'[j]
           /\ asked \subseteq asked'
  <1>1. ASSUME NEW j \in Jobs, Submit(j)
        PROVE  UNCHANGED <<cfg, asked>> /\ (UNCHANGED ends \/ \E k \in Jobs \cup {None} : Ends(k, "refused"))
    BY <1>1 DEF Submit, Begin, TakeKey, RateRefuses, PushBare, Fill, Push, PushFails, PushFailed,
           cancel, history
  <1>2. ASSUME NEW w \in Workers, Work(w)
        PROVE  /\ UNCHANGED <<cfg, asked>>
               /\ \/ UNCHANGED ends
                  \/ \E k \in Jobs \cup {None} : \E how \in Outcomes : Ends(k, how)
    <2>1. /\ wpc[w] \in Active => Owner(w) \in Jobs
          /\ wpc[w] = "bareRun" => wobj[w] \in Jobs
      BY DEF Typed, HandsTyped, ObjsTyped, Placed, Handed, Owner
    <2>2. CASE BareRuns(w) \/ DropCancelled(w) \/ Succeeds(w) \/ DeadLetter(w)
      BY <2>1, <2>2 DEF BareRuns, DropCancelled, Succeeds, DeadLetter, cancel, Outcomes, Active
    <2>3. CASE ~(BareRuns(w) \/ DropCancelled(w) \/ Succeeds(w) \/ DeadLetter(w))
      BY <1>2, <2>3 DEF Work, TakeBare, Take, CancelUnindexes, CancelCompletes, Starts, Runs,
             SuccessUnindexes, SuccessCompletes, SuccessFreesKey, Releases, Fails, Retries, Postpones, Requeues, DeathUnindexes,
             DeathAppends, DeathCompletes, DeathFreesKey, cancel, history
    <2> QED
      BY <2>2, <2>3
  <1>3. ASSUME NEW j \in Jobs \cup {None}, NEW how, Ends(j, how)
        PROVE  \A k \in Jobs : ends[k] \subseteq ends'[k]
    BY <1>3 DEF Ends, Typed, JobsTyped
  <1>4. ASSUME \/ ReplayTakes \/ (\E o \in replay : ReplayPushes(o))
               \/ \E c \in Cancellers : Cancel(c) \/ (\E i \in CancelIDs : CancelLoads(c, i))
                                          \/ (\E j \in Jobs : FutureCancel(c, j))
               \/ MapWaits \/ MapReturns \/ UNCHANGED vars
        PROVE  UNCHANGED <<cfg, ends>> /\ asked \subseteq asked'
    BY <1>4 DEF ReplayTakes, ReplayPushes, Cancel, CancelStores, CancelContext, CancelFuture,
           CancelUnindex, FutureCancelled, CancelLoads, FutureCancel, MapWaits, MapReturns, vars,
           cancel, history
  <1>5. CASE \E j \in Jobs : Submit(j)
    BY <1>1, <1>3, <1>5 DEF Outcomes
  <1>6. CASE \E w \in Workers : Work(w)
    BY <1>2, <1>3, <1>6
  <1> QED
    BY <1>4, <1>5, <1>6 DEF Next, Progress

LEMMA SameOptions ==
    ASSUME UNCHANGED cfg
    PROVE  \A j \in Jobs : ID(j)' = ID(j) /\ Tracked(j)' = Tracked(j) /\ Opt(j)' = Opt(j)
  BY DEF ID, Opt, Tracked

LEMMA UnindexedLeaves ==
    ASSUME Typed, Found, NEW o \in Objs, owner[o] # None, index' = Unindexed(o)
    PROVE  \A i \in IDs : index'[i] # None => index'[i] = index[i] /\ index[i] # o
  BY DEF Unindexed, Found, Typed, ObjsTyped

\* All but Fill: entries disappear, and those that stay lead where they did.
LEMMA FoundStays ==
    ASSUME Typed, Found, UNCHANGED cfg,
           \A i \in IDs : index'[i] # None =>
               /\ index'[i] = index[i] /\ owner'[index[i]] = owner[index[i]]
               /\ Held(index[i]) => Held(index[i])'
    PROVE  Found'
  <1> SUFFICES ASSUME NEW i \in IDs, index'[i] # None
               PROVE  /\ owner'[index'[i]] # None /\ Tracked(owner[index[i]])'
                      /\ ID(owner[index[i]])' = i /\ Held(index[i])'
                      /\ index'[i] = index[i] /\ owner'[index[i]] = owner[index[i]]
    BY DEF Found, Held, Tracked, ID, Opt
  <1>1. index[i] # None /\ index[i] \in Objs /\ owner[index[i]] \in Jobs
    BY DEF Found, Typed, ObjsTyped
  <1> QED
    BY <1>1, SameOptions DEF Found

LEMMA SubmitFound ==
    ASSUME Typed, Placed, Found, NEW j \in Jobs, Submit(j)
    PROVE  Found'
  <1>0. /\ UNCHANGED cfg /\ jpc \in [Jobs -> JobPlaces] /\ None \notin Jobs /\ None \notin Objs
        /\ owner \in [Objs -> Jobs \cup {None}] /\ index \in [IDs -> Objs \cup {None}]
    BY Given DEF Submit, Begin, TakeKey, RateRefuses, PushBare, Fill, Push, PushFails, PushFailed,
           Typed, JobsTyped, ObjsTyped
  <1>1. CASE Begin(j) \/ TakeKey(j) \/ RateRefuses(j) \/ PushBare(j)
    <2>1. /\ UNCHANGED <<index, owner, queued, wpc, wobj>>
          /\ \A k \in Jobs : jpc[k] = "push" => jpc'[k] = "push"
      BY <1>0, <1>1 DEF Begin, TakeKey, RateRefuses, PushBare, At, Refuse, object, workers
    <2>2. \A i \in IDs : index[i] # None => index[i] \in Objs /\ owner[index[i]] \in Jobs
      BY <1>0 DEF Found
    <2> QED
      BY <1>0, <2>1, <2>2, FoundStays DEF Held
  <1>2. CASE \E o \in Objs : Fill(j, o)
    <2>1. PICK o \in Objs : Fill(j, o)
      BY <1>2
    <2>2. owner[o] = None
      BY <2>1, Given DEF Fill, Placed, Owned, Typed, ObjsTyped
    <2>3. /\ UNCHANGED <<queued, wpc, wobj>> /\ jpc[j] = "rate"
          /\ \A k \in Jobs : jpc'[k] = IF k = j THEN "push" ELSE jpc[k]
          /\ \A x \in Objs : owner'[x] = IF x = o THEN j ELSE owner[x]
          /\ index' = IF Tracked(j) THEN [index EXCEPT ![ID(j)] = o] ELSE index
      BY <1>0, <2>1 DEF Fill, At, workers
    <2>4. ID(j) \in IDs
      BY OptionsOf
    <2>5. ASSUME NEW i \in IDs, NEW y \in Objs, index'[i] = y
          PROVE  owner'[y] \in Jobs /\ Tracked(owner'[y]) /\ ID(owner'[y]) = i /\ Held(y)'
      <3>1. CASE Tracked(j) /\ i = ID(j)
        <4>1. y = o /\ owner'[o] = j /\ jpc'[j] = "push"
          BY <1>0, <2>3, <2>4, <2>5, <3>1
        <4> QED
          BY <1>0, <3>1, <4>1 DEF Held
      <3>2. CASE ~(Tracked(j) /\ i = ID(j))
        <4>1. index[i] = y
          BY <1>0, <2>3, <2>5, <3>2
        <4>2. y # o /\ owner[y] \in Jobs /\ Held(y) /\ Tracked(owner[y]) /\ ID(owner[y]) = i
          BY <1>0, <2>2, <4>1 DEF Found
        <4>3. owner'[y] = owner[y]
          BY <2>3, <4>2
        <4>4. Held(y)'
          BY <2>3, <4>2, <4>3 DEF Held
        <4> QED
          BY <4>2, <4>3, <4>4
      <3> QED
        BY <3>1, <3>2
    <2>6. index' \in [IDs -> Objs \cup {None}]
      BY <1>0, <2>3
    <2>7. \A k \in Jobs : Tracked(k)' = Tracked(k) /\ ID(k)' = ID(k)
      BY <1>0, SameOptions
    <2> SUFFICES ASSUME NEW i \in IDs, NEW y \in Objs, index'[i] = y
                 PROVE  owner'[y] # None /\ Tracked(owner[y])' /\ ID(owner[y])' = i /\ Held(y)'
      BY <2>6, Zenon DEF Found
    <2>8. owner'[y] \in Jobs /\ Tracked(owner'[y]) /\ ID(owner'[y]) = i /\ Held(y)'
      BY <2>5
    <2> QED
      BY <1>0, <2>8 DEF Tracked, ID, Opt
  <1>3. CASE Push(j)
    <2>1. /\ UNCHANGED <<index, owner, wpc, wobj>> /\ queued' = queued \cup {obj[j]} /\ jpc[j] = "push"
          /\ \A k \in Jobs : k # j => jpc'[k] = jpc[k]
      BY <1>0, <1>3 DEF Push, At, object, workers
    <2>2. \A i \in IDs : index[i] # None => index[i] \in Objs /\ owner[index[i]] \in Jobs
      BY <1>0 DEF Found
    <2>3. \A i \in IDs : index[i] # None /\ owner[index[i]] = j => index[i] = obj[j]
      BY <1>0, <2>2 DEF Placed, Owned
    <2> QED
      BY <1>0, <2>1, <2>2, <2>3, FoundStays DEF Held
  <1>4. CASE PushFails(j)
    <2>1. /\ UNCHANGED <<queued, owner, wpc, wobj>> /\ index' = Unindexed(obj[j]) /\ jpc[j] = "push"
          /\ \A k \in Jobs : k # j => jpc'[k] = jpc[k]
          /\ obj[j] \in Objs /\ owner[obj[j]] = j
      BY <1>0, <1>4 DEF PushFails, At, object, workers, Typed, Filled, Placed, Pushing
    <2>2. \A i \in IDs : index'[i] # None => index'[i] = index[i] /\ index[i] # obj[j]
      BY <1>0, <2>1, UnindexedLeaves
    <2>3. \A i \in IDs : index[i] # None => index[i] \in Objs /\ owner[index[i]] \in Jobs
      BY <1>0 DEF Found
    <2>4. \A i \in IDs : index'[i] # None => owner[index[i]] # j
      BY <1>0, <2>2, <2>3 DEF Placed, Owned
    <2> QED
      BY <1>0, <2>1, <2>2, <2>3, <2>4, FoundStays DEF Held
  <1>5. CASE PushFailed(j)
    <2>1. /\ UNCHANGED <<queued, index, wpc, wobj>> /\ Released(obj[j]) /\ jpc[j] = "failing"
          /\ \A k \in Jobs : k # j => jpc'[k] = jpc[k]
          /\ obj[j] \in Objs /\ owner[obj[j]] = j /\ obj[j] \notin queued
          /\ \A w \in Workers : wpc[w] \in AtWork => wobj[w] # obj[j]
      BY <1>0, <1>5 DEF PushFailed, At, Refuse, workers, Typed, Filled, Placed, Pushing, Waiting,
             AtWork, Active
    <2>2. \A x \in Objs : x # obj[j] => owner'[x] = owner[x]
      BY <1>0, <2>1 DEF Released, object
    <2>3. \A i \in IDs : index[i] # None => index[i] \in Objs /\ owner[index[i]] \in Jobs /\ Held(index[i])
      BY <1>0 DEF Found
    <2>4. \A i \in IDs : index[i] # None => index[i] # obj[j] /\ owner[index[i]] # j
      BY <1>0, <2>1, <2>3 DEF Placed, Owned, Held
    <2> QED
      BY <1>0, <2>1, <2>2, <2>3, <2>4, FoundStays DEF Held
  <1> QED
    BY <1>1, <1>2, <1>3, <1>4, <1>5 DEF Submit

LEMMA WorkFound ==
    ASSUME Typed, Placed, Found, NEW w \in Workers, Work(w)
    PROVE  Found'
  <1> DEFINE x == wobj[w]
  <1>0. /\ UNCHANGED <<cfg, jpc>> /\ HandsTyped /\ None \notin Jobs /\ None \notin Objs
        /\ owner \in [Objs -> Jobs \cup {None}] /\ index \in [IDs -> Objs \cup {None}]
        /\ wpc[w] \in Active => x \in Objs /\ owner[x] # None
        /\ \A i \in IDs : index[i] # None => index[i] \in Objs /\ owner[index[i]] \in Jobs /\ Held(index[i])
    <2>1. UNCHANGED <<cfg, jpc>>
      BY DEF Work, TakeBare, Take, BareRuns, DropCancelled, CancelUnindexes, CancelCompletes, Starts,
             Runs, Succeeds, SuccessUnindexes, SuccessCompletes, SuccessFreesKey, Releases, Fails, Retries, Postpones, Requeues,
             DeadLetter, DeathUnindexes, DeathAppends, DeathCompletes, DeathFreesKey, submission
    <2> QED
      BY <2>1, Given DEF Typed, ObjsTyped, HandsTyped, Placed, Handed, Found
  <1>1. ASSUME UNCHANGED owner,
               \A i \in IDs : index'[i] # None => index'[i] = index[i],
               \A o \in queued : o \in queued' \/ \E v \in Workers : wpc'[v] \in AtWork /\ wobj'[v] = o,
               \A v \in Workers : wpc[v] \in AtWork =>
                   \/ wpc'[v] \in AtWork /\ wobj'[v] = wobj[v]
                   \/ wobj[v] \in queued'
                   \/ \A i \in IDs : index'[i] # wobj[v]
        PROVE  Found'
    BY <1>0, <1>1, FoundStays DEF Held
  <1>2. CASE (\E j \in bare : TakeBare(w, j)) \/ BareRuns(w) \/ SuccessFreesKey(w) \/ DeathFreesKey(w)
    <2>1. /\ wpc[w] \notin AtWork
          /\ \A v \in Workers \ {w} : wpc'[v] = wpc[v] /\ wobj'[v] = wobj[v]
          /\ UNCHANGED <<owner, index, queued>>
      BY <1>0, <1>2 DEF TakeBare, BareRuns, SuccessFreesKey, DeathFreesKey, LetGo, Goto, AtWork, object,
             HandsTyped
    <2> QED
      BY <1>1, <2>1
  <1>3. CASE \/ DropCancelled(w) \/ CancelCompletes(w) \/ Starts(w) \/ Runs(w) \/ Succeeds(w)
             \/ SuccessCompletes(w) \/ Fails(w) \/ Retries(w) \/ Postpones(w) \/ DeadLetter(w)
             \/ DeathAppends(w) \/ DeathCompletes(w)
    <2>1. /\ wpc[w] \in AtWork => wpc'[w] \in AtWork
          /\ \A v \in Workers \ {w} : wpc'[v] = wpc[v]
          /\ UNCHANGED <<owner, index, queued, wobj>>
      BY <1>0, <1>3 DEF DropCancelled, CancelCompletes, Starts, Runs, Succeeds, SuccessCompletes,
             Fails, Retries, Postpones, DeadLetter, DeathAppends, DeathCompletes, Goto, AtWork, object,
             HandsTyped
    <2> QED
      BY <1>1, <2>1
  <1>4. CASE \E o \in queued : Take(w, o)
    <2>1. PICK o \in queued : Take(w, o)
      BY <1>4
    <2>2. /\ queued' = queued \ {o} /\ wpc[w] = "idle" /\ wpc'[w] = "check" /\ wobj'[w] = o
          /\ \A v \in Workers \ {w} : wpc'[v] = wpc[v] /\ wobj'[v] = wobj[v]
          /\ UNCHANGED <<owner, index>>
      BY <1>0, <2>1 DEF Take, HandsTyped, object
    <2> QED
      BY <1>1, <2>2 DEF AtWork
  <1>5. CASE Requeues(w)
    <2>1. /\ queued' = queued \cup {x}
          /\ \A v \in Workers \ {w} : wpc'[v] = wpc[v] /\ wobj'[v] = wobj[v]
          /\ UNCHANGED <<owner, index>>
      BY <1>0, <1>5 DEF Requeues, LetGo, HandsTyped, object
    <2> QED
      BY <1>1, <2>1
  <1>6. CASE CancelUnindexes(w) \/ SuccessUnindexes(w) \/ DeathUnindexes(w)
    <2>1. /\ index' = Unindexed(x) /\ wpc[w] \in Active
          /\ \A v \in Workers \ {w} : wpc'[v] = wpc[v]
          /\ UNCHANGED <<owner, queued, wobj>>
      BY <1>0, <1>6 DEF CancelUnindexes, SuccessUnindexes, DeathUnindexes, Goto, Active, HandsTyped,
             object
    <2>2. \A i \in IDs : index'[i] # None => index'[i] = index[i] /\ index[i] # x
      BY <1>0, <2>1, UnindexedLeaves
    <2>3. \A i \in IDs : index'[i] # x
      BY <1>0, <2>1, <2>2
    <2> QED
      BY <1>1, <2>1, <2>2, <2>3
  <1>7. CASE Releases(w)
    <2>1. /\ UNCHANGED <<index, queued>> /\ Released(x) /\ wpc[w] \in Active \ AtWork
          /\ \A v \in Workers \ {w} : wpc'[v] = wpc[v] /\ wobj'[v] = wobj[v]
      BY <1>0, <1>7 DEF Releases, LetGo, HandsTyped, Active, AtWork
    <2>2. /\ x \notin queued /\ x \in Objs
          /\ \A v \in Workers : wpc[v] \in AtWork => wobj[v] # x
          /\ jpc[owner[x]] # "push"
      BY <1>0, <2>1 DEF Placed, Handed, Pushing, Owned, Waiting, AtWork, Active
    <2>3. \A i \in IDs : index[i] # x
      BY <1>0, <2>2 DEF Held
    <2>4. \A y \in Objs : y # x => owner'[y] = owner[y]
      BY <1>0, <2>1 DEF Released, object
    <2>5. \A i \in IDs : index[i] # None => Held(index[i])' /\ owner'[index[i]] = owner[index[i]]
      BY <1>0, <2>1, <2>3, <2>4 DEF Held
    <2> QED
      BY <1>0, <2>1, <2>5, FoundStays
  <1> QED
    BY <1>2, <1>3, <1>4, <1>5, <1>6, <1>7 DEF Work

LEMMA StepsFound ==
    ASSUME Typed, Placed, Found, [Next]_vars
    PROVE  Found'
  <1>1. ASSUME \/ ReplayTakes \/ (\E o \in replay : ReplayPushes(o))
               \/ \E c \in Cancellers : Cancel(c) \/ (\E i \in CancelIDs : CancelLoads(c, i))
                                          \/ (\E j \in Jobs : FutureCancel(c, j))
               \/ MapWaits \/ MapReturns \/ UNCHANGED vars
        PROVE  Found'
    <2>1. /\ UNCHANGED <<cfg, owner, jpc, wpc, wobj>> /\ queued \subseteq queued'
          /\ UNCHANGED index \/ \E i \in IDs \cup {None} : index' = [index EXCEPT ![i] = None]
      BY <1>1 DEF ReplayTakes, ReplayPushes, Cancel, CancelStores, CancelContext, CancelFuture,
             CancelUnindex, FutureCancelled, CancelLoads, FutureCancel, MapWaits, MapReturns, vars,
             submission, object, workers, Typed, CallsTyped
    <2>2. \A i \in IDs : index'[i] # None => index'[i] = index[i]
      BY <2>1 DEF Typed, ObjsTyped
    <2> QED
      BY <2>1, <2>2, FoundStays DEF Held
  <1> QED
    BY <1>1, SubmitFound, WorkFound DEF Next, Progress

LEMMA StepsEnding ==
    ASSUME Typed, Placed, Ending, [Next]_vars
    PROVE  Ending'
  <1>0. /\ HandsTyped /\ None \notin Jobs
        /\ owner \in [Objs -> Jobs \cup {None}] /\ ends \in [Jobs -> SUBSET Outcomes]
        /\ \A j \in Jobs : ends[j] \subseteq ends'[j]
        /\ \A v \in Workers : wpc[v] \in {"cancelled", "succeeded", "dead"} => wpc[v] \in Active
        /\ \A v \in Workers : wpc[v] \in Active => wobj[v] \in Objs /\ Owner(v) \in Jobs
    BY Frame, Given DEF Typed, HandsTyped, ObjsTyped, JobsTyped, Placed, Handed, Owner, Active
  \* Nobody changes the owner of an object that a worker has in hand, but itself.
  <1>1. ASSUME \A v \in Workers : wpc'[v] \in {"cancelled", "succeeded", "dead"} =>
                   wpc'[v] = wpc[v] /\ wobj'[v] = wobj[v] /\ owner'[wobj[v]] = owner[wobj[v]]
        PROVE  Ending'
    BY <1>0, <1>1 DEF Ending, Owner
  <1>2. ASSUME NEW j \in Jobs, Submit(j)
        PROVE  Ending'
    <2>1. UNCHANGED <<wpc, wobj>>
      BY <1>2 DEF Submit, Begin, TakeKey, RateRefuses, PushBare, Fill, Push, PushFails, PushFailed, workers
    <2>2. \A v \in Workers : wpc[v] \in Active => owner'[wobj[v]] = owner[wobj[v]]
      <3>1. CASE \E o \in Objs : Fill(j, o)
        <4>1. PICK o \in Objs : Fill(j, o)
          BY <3>1
        <4>2. owner[o] = None
          BY <4>1, Given DEF Fill, Placed, Owned, Typed, ObjsTyped
        <4> QED
          BY <1>0, <4>1, <4>2 DEF Fill, Owner
      <3>2. CASE PushFailed(j)
        <4>1. \A v \in Workers : wpc[v] \in Active => wobj[v] # obj[j]
          BY <3>2 DEF PushFailed, Placed, Pushing
        <4> QED
          BY <1>0, <3>2, <4>1 DEF PushFailed, Released, object
      <3> QED
        BY <1>2, <3>1, <3>2 DEF Submit, Begin, TakeKey, RateRefuses, PushBare, Push, PushFails, object
    <2> QED
      BY <1>0, <1>1, <2>1, <2>2
  <1>3. ASSUME NEW w \in Workers, Work(w)
        PROVE  Ending'
    <2>1. CASE DropCancelled(w) \/ Succeeds(w) \/ DeadLetter(w)
      <3>1. PICK where \in {"cancelled", "succeeded", "dead"}, how \in Outcomes :
                Goto(w, where) /\ Ends(Owner(w), how) /\ UNCHANGED owner /\ wpc[w] \in Active
        BY <2>1 DEF DropCancelled, Succeeds, DeadLetter, Outcomes, Active
      <3>2. how \in ends'[Owner(w)]
        BY <1>0, <3>1 DEF Ends
      <3> QED
        BY <1>0, <3>1, <3>2 DEF Ending, Owner, Goto, HandsTyped
    <2>2. CASE ~(DropCancelled(w) \/ Succeeds(w) \/ DeadLetter(w))
      <3>1. /\ \A v \in Workers \ {w} : wpc'[v] = wpc[v] /\ wobj'[v] = wobj[v]
            /\ wpc'[w] \notin {"cancelled", "succeeded", "dead"}
        BY <1>0, <1>3, <2>2 DEF Work, TakeBare, Take, BareRuns, CancelUnindexes, CancelCompletes,
               Starts, Runs, SuccessUnindexes, SuccessCompletes, SuccessFreesKey, Releases, Fails, Retries, Postpones, Requeues,
               DeathUnindexes, DeathAppends, DeathCompletes, DeathFreesKey, Goto, LetGo, HandsTyped
      <3>2. CASE Releases(w)
        <4>1. \A v \in Workers \ {w} : wpc[v] \in Active => wobj[v] # wobj[w]
          BY <3>2 DEF Releases, Placed, Handed, Active
        <4>2. \A y \in Objs : y # wobj[w] => owner'[y] = owner[y]
          BY <1>0, <3>2 DEF Releases, Released, object
        <4> QED
          BY <1>0, <1>1, <3>1, <4>1, <4>2
      <3>3. CASE ~Releases(w)
        <4>1. UNCHANGED owner
          BY <1>3, <2>2, <3>3 DEF Work, TakeBare, Take, BareRuns, CancelUnindexes, CancelCompletes,
               Starts, Runs, SuccessUnindexes, SuccessCompletes, SuccessFreesKey, Fails, Retries, Postpones, Requeues,
               DeathUnindexes, DeathAppends, DeathCompletes, DeathFreesKey, object
        <4> QED
          BY <1>1, <3>1, <4>1
      <3> QED
        BY <3>2, <3>3
    <2> QED
      BY <2>1, <2>2
  <1>4. ASSUME \/ ReplayTakes \/ (\E o \in replay : ReplayPushes(o))
               \/ \E c \in Cancellers : Cancel(c) \/ (\E i \in CancelIDs : CancelLoads(c, i))
                                          \/ (\E j \in Jobs : FutureCancel(c, j))
               \/ MapWaits \/ MapReturns \/ UNCHANGED vars
        PROVE  Ending'
    <2>1. UNCHANGED <<owner, wpc, wobj>>
      BY <1>4 DEF ReplayTakes, ReplayPushes, Cancel, CancelStores, CancelContext, CancelFuture,
             CancelUnindex, FutureCancelled, CancelLoads, FutureCancel, MapWaits, MapReturns, vars,
             object, workers
    <2> QED
      BY <1>1, <2>1
  <1> QED
    BY <1>2, <1>3, <1>4 DEF Next, Progress

LEMMA StepsAsking ==
    ASSUME Typed, Placed, Asking, [Next]_vars
    PROVE  Asking'
  <1>1. /\ asked \subseteq asked' /\ \A j \in Jobs : ID(j)' = ID(j)
    BY Frame, SameOptions
  <1>2. CASE \E c \in Cancellers, i \in CancelIDs : CancelLoads(c, i)
    <2>1. PICK c \in Cancellers, i \in CancelIDs : CancelLoads(c, i)
      BY <1>2
    <2>2. /\ cid'[c] = i /\ asked' = asked \cup {j \in Jobs : ID(j) = i}
          /\ \A d \in Cancellers \ {c} : cpc'[d] = cpc[d] /\ cid'[d] = cid[d]
      BY <2>1 DEF CancelLoads, Cancels, Typed, CallsTyped
    <2> QED
      BY <1>1, <2>2 DEF Asking
  <1>3. CASE ~\E c \in Cancellers, i \in CancelIDs : CancelLoads(c, i)
    <2>1. /\ \A d \in Cancellers : cpc'[d] \in {"store", "cancel", "future", "delete"} =>
                 cpc[d] \in {"store", "cancel", "future", "delete"}
          /\ UNCHANGED cid
      <3>1. CASE \E c \in Cancellers : Cancel(c) \/ (\E j \in Jobs : FutureCancel(c, j))
        BY <3>1 DEF Cancel, CancelStores, CancelContext, CancelFuture, CancelUnindex, FutureCancelled,
               FutureCancel, Cancels, Typed, CallsTyped
      <3>2. CASE (\E j \in Jobs : Submit(j)) \/ (\E w \in Workers : Work(w)) \/ ReplayTakes
                    \/ (\E o \in replay : ReplayPushes(o)) \/ MapWaits \/ MapReturns \/ UNCHANGED vars
        <4>1. UNCHANGED cancel
          <5>1. CASE \E j \in Jobs : Submit(j)
            BY <5>1, Zenon DEF Submit, Begin, TakeKey, RateRefuses, PushBare, Fill, Push, PushFails,
                               PushFailed
          <5>2. CASE \E w \in Workers : Work(w)
            <6>1. PICK w \in Workers : Work(w)
              BY <5>2
            <6>2. CASE \/ (\E j \in bare : TakeBare(w, j)) \/ (\E o \in queued : Take(w, o))
                       \/ BareRuns(w) \/ DropCancelled(w)
                       \/ CancelUnindexes(w) \/ CancelCompletes(w) \/ Starts(w) \/ Runs(w)
                       \/ Succeeds(w) \/ SuccessUnindexes(w) \/ SuccessCompletes(w)
              BY <6>2, Zenon DEF TakeBare, Take, BareRuns, DropCancelled, CancelUnindexes,
                                 CancelCompletes, Starts, Runs, Succeeds, SuccessUnindexes,
                                 SuccessCompletes
            <6>3. CASE ~(\/ (\E j \in bare : TakeBare(w, j)) \/ (\E o \in queued : Take(w, o))
                         \/ BareRuns(w) \/ DropCancelled(w)
                         \/ CancelUnindexes(w) \/ CancelCompletes(w) \/ Starts(w) \/ Runs(w)
                         \/ Succeeds(w) \/ SuccessUnindexes(w) \/ SuccessCompletes(w))
              <7>1. \/ SuccessFreesKey(w) \/ Releases(w) \/ Fails(w) \/ Retries(w)
                    \/ Postpones(w) \/ Requeues(w) \/ DeadLetter(w) \/ DeathUnindexes(w)
                    \/ DeathAppends(w) \/ DeathCompletes(w) \/ DeathFreesKey(w)
                BY <6>1, <6>3 DEF Work
              <7> QED
                BY <7>1, Zenon DEF SuccessFreesKey, Releases, Fails, Retries, Postpones, Requeues,
                                   DeadLetter, DeathUnindexes, DeathAppends, DeathCompletes,
                                   DeathFreesKey
            <6> QED
              BY <6>2, <6>3
          <5>3. CASE \/ ReplayTakes \/ (\E o \in replay : ReplayPushes(o))
                     \/ MapWaits \/ MapReturns \/ UNCHANGED vars
            BY <5>3, Zenon DEF ReplayTakes, ReplayPushes, MapWaits, MapReturns, vars
          <5> QED
            BY <3>2, <5>1, <5>2, <5>3
        <4> QED
          BY <4>1 DEF cancel
      <3> QED
        BY <1>3, <3>1, <3>2 DEF Next, Progress
    <2> QED
      BY <1>1, <2>1 DEF Asking
  <1> QED
    BY <1>2, <1>3

\* What may happen to an entry: it leaves when its job has ended, or when a
\* caller of CancelJob deletes the ID it was asked to.
LEMMA IndexChanges ==
    ASSUME Typed, Placed, Ending, [Next]_vars
    PROVE  \/ \E j \in Jobs, o \in Objs : Fill(j, o)
           \/ /\ UNCHANGED obj
              /\ \/ UNCHANGED index
                 \/ \E k \in Jobs : ends'[k] # {} /\ index' = [index EXCEPT ![ID(k)] = None]
                 \/ \E c \in Cancellers : cpc[c] = "delete" /\ index' = [index EXCEPT ![cid[c]] = None]
  <1>0. /\ owner \in [Objs -> Jobs \cup {None}] /\ ends \in [Jobs -> SUBSET Outcomes]
        /\ \A j \in Jobs : ends[j] \subseteq ends'[j]
    BY Frame DEF Typed, JobsTyped, ObjsTyped
  <1>1. ASSUME NEW o \in Objs, owner[o] \in Jobs, index' = Unindexed(o), ends'[owner[o]] # {}
        PROVE  UNCHANGED index \/ \E k \in Jobs : ends'[k] # {} /\ index' = [index EXCEPT ![ID(k)] = None]
    BY <1>1 DEF Unindexed
  <1>2. ASSUME NEW j \in Jobs, PushFails(j)
        PROVE  UNCHANGED obj /\ (UNCHANGED index \/ \E k \in Jobs : ends'[k] # {} /\ index' = [index EXCEPT ![ID(k)] = None])
    <2>1. obj[j] \in Objs /\ owner[obj[j]] = j /\ index' = Unindexed(obj[j]) /\ UNCHANGED obj
      BY <1>2 DEF PushFails, Typed, Filled, Placed, Pushing
    <2>2. "refused" \in ends'[j]
      BY <1>0, <1>2, Given DEF PushFails, Ends
    <2> QED
      BY <1>1, <2>1, <2>2
  <1>3. CASE \E j \in Jobs : Submit(j)
    BY <1>2, <1>3 DEF Submit, Begin, TakeKey, RateRefuses, PushBare, Push, PushFailed
  <1>4. ASSUME NEW w \in Workers, Work(w)
        PROVE  UNCHANGED obj /\ (UNCHANGED index \/ \E k \in Jobs : ends'[k] # {} /\ index' = [index EXCEPT ![ID(k)] = None])
    <2>1. CASE CancelUnindexes(w) \/ SuccessUnindexes(w) \/ DeathUnindexes(w)
      <3>1. /\ wpc[w] \in {"cancelled", "succeeded", "dead"} /\ UNCHANGED obj
            /\ index' = Unindexed(wobj[w])
        BY <2>1 DEF CancelUnindexes, SuccessUnindexes, DeathUnindexes, submission
      <3>2. wpc[w] \in Active
        BY <3>1 DEF Active
      <3>3. wobj[w] \in Objs /\ owner[wobj[w]] \in Jobs
        BY <1>0, <3>2 DEF Typed, HandsTyped, Placed, Handed
      <3>4. ends'[owner[wobj[w]]] # {}
        BY <1>0, <3>1, <3>3 DEF Ending, Owner
      <3> QED
        BY <1>1, <3>1, <3>3, <3>4
    <2>2. CASE ~(CancelUnindexes(w) \/ SuccessUnindexes(w) \/ DeathUnindexes(w))
      BY <1>4, <2>2 DEF Work, TakeBare, Take, BareRuns, DropCancelled, CancelCompletes, Starts, Runs,
             Succeeds, SuccessCompletes, SuccessFreesKey, Releases, Fails, Retries, Postpones, Requeues, DeadLetter, DeathAppends,
             DeathCompletes, DeathFreesKey, submission
    <2> QED
      BY <2>1, <2>2
  <1>5. ASSUME \/ ReplayTakes \/ (\E o \in replay : ReplayPushes(o))
               \/ \E c \in Cancellers : Cancel(c) \/ (\E i \in CancelIDs : CancelLoads(c, i))
                                          \/ (\E j \in Jobs : FutureCancel(c, j))
               \/ MapWaits \/ MapReturns \/ UNCHANGED vars
        PROVE  /\ UNCHANGED obj
               /\ \/ UNCHANGED index
                  \/ \E c \in Cancellers : cpc[c] = "delete" /\ index' = [index EXCEPT ![cid[c]] = None]
    BY <1>5 DEF ReplayTakes, ReplayPushes, Cancel, CancelStores, CancelContext, CancelFuture,
           CancelUnindex, FutureCancelled, CancelLoads, FutureCancel, MapWaits, MapReturns, vars,
           submission
  <1> QED
    BY <1>3, <1>4, <1>5 DEF Next, Progress

LEMMA StepsKept ==
    ASSUME Typed, Placed, Indexed, [Next]_vars
    PROVE  Kept'
  <1>0. /\ index \in [IDs -> Objs \cup {None}] /\ obj \in [Jobs -> Objs \cup {None}]
        /\ \A j \in Jobs : ends[j] \subseteq ends'[j] /\ ID(j) \in IDs
        /\ asked \subseteq asked'
        /\ Ending /\ Asking /\ Kept
    BY Frame, OptionsOf DEF Typed, JobsTyped, ObjsTyped, Indexed
  <1>1. \A j \in Jobs : ID(j)' = ID(j) /\ Tracked(j)' = Tracked(j)
    BY Frame, SameOptions
  <1>2. SUFFICES ASSUME NEW j \in Jobs \ asked', Tracked(j), obj'[j] # None, ends'[j] = {},
                        \A k \in Jobs \ {j} : ID(k) # ID(j)
                 PROVE  index'[ID(j)] = obj'[j]
    <2>1. Kept' <=> \A j \in Jobs \ asked' :
            Tracked(j)' /\ obj'[j] # None /\ ends'[j] = {} /\ (\A k \in Jobs \ {j} : ID(k)' # ID(j)')
                => index'[ID(j)'] = obj'[j]
      BY DEF Kept
    <2> QED
      BY <1>1, <1>2, <2>1
  <1>3. j \in Jobs \ asked /\ ends[j] = {} /\ (obj[j] # None => index[ID(j)] = obj[j])
    BY <1>0, <1>2 DEF Kept
  <1>4. CASE \E k \in Jobs, o \in Objs : Fill(k, o)
    <2>1. PICK k \in Jobs, o \in Objs : Fill(k, o)
      BY <1>4
    <2> QED
      BY <1>0, <1>2, <1>3, <2>1 DEF Fill
  <1>5. CASE UNCHANGED obj /\ UNCHANGED index
    BY <1>2, <1>3, <1>5
  <1>6. CASE UNCHANGED obj /\ \E k \in Jobs : ends'[k] # {} /\ index' = [index EXCEPT ![ID(k)] = None]
    BY <1>0, <1>2, <1>3, <1>6
  <1>7. CASE UNCHANGED obj /\ \E c \in Cancellers : cpc[c] = "delete" /\ index' = [index EXCEPT ![cid[c]] = None]
    <2>1. PICK c \in Cancellers : cpc[c] = "delete" /\ index' = [index EXCEPT ![cid[c]] = None]
      BY <1>7
    <2>2. cid[c] # ID(j)
      BY <1>0, <1>3, <2>1 DEF Asking
    <2> QED
      BY <1>0, <1>2, <1>3, <1>7, <2>1, <2>2
  <1> QED
    BY <1>0, <1>4, <1>5, <1>6, <1>7, IndexChanges

\* p.jobs and the jobs agree: an entry leads to an object that holds a job of
\* that ID which is queued, being pushed or worked on, and a job that is not
\* over and that nobody asked to cancel is found under its ID (inspect.go
\* InspectJob and CancelJob, pool.go submit, execute, deadletter).
THEOREM IndexAgrees == Spec => []IndexTrue
  <1> DEFINE Inv == Typed /\ Placed /\ Indexed
  <1>1. Init => Inv
    <2> SUFFICES ASSUME Init PROVE Typed /\ Placed /\ Indexed
      OBVIOUS
    <2>1. /\ \A i \in IDs : index[i] = None
          /\ \A j \in Jobs : obj[j] = None
          /\ \A w \in Workers : wpc[w] = "idle"
          /\ \A c \in Cancellers : cpc[c] = "idle"
      BY DEF Init
    <2>2. Indexed
      BY <2>1 DEF Indexed, Found, Ending, Asking, Kept
    <2> QED
      BY <2>2, StartsTypedPlaced
  <1>2. Inv /\ [Next]_vars => Inv'
    BY StepsTyped, StepsPlaced, StepsFound, StepsEnding, StepsAsking, StepsKept DEF Indexed
  <1>3. Inv => IndexTrue
    BY DEF Indexed, Found, Kept, Held, IndexTrue
  <1> QED
    BY <1>1, <1>2, <1>3, PTL DEF Spec
-----------------------------------------------------------------------------
(* Futures. *)

\* An object changes hands only when it is filled and when it is released; a
\* job with a future keeps its object for good.
LEMMA OwnersStay ==
    ASSUME Typed, Placed, [Next]_vars
    PROVE  /\ \A o \in Waiting : owner'[o] = owner[o]
           /\ \A v \in Workers : wpc[v] \in Active \ {"release"} => owner'[wobj[v]] = owner[wobj[v]]
           /\ \A v \in Workers : wpc[v] = "release" => owner'[wobj[v]] = owner[wobj[v]] \/ Releases(v)
           /\ \A o \in Objs : owner[o] \in HasFuture => owner'[o] = owner[o]
  <1>0. /\ owner \in [Objs -> Jobs \cup {None}] /\ None \notin Jobs /\ Waiting \subseteq Objs
        /\ HasFuture \subseteq Jobs
        /\ \A v \in Workers : wpc[v] \in Active => wobj[v] \in Objs /\ owner[wobj[v]] # None
    BY Given DEF Typed, HandsTyped, ObjsTyped, Placed, Handed, Waiting
  <1>1. CASE \E j \in Jobs, o \in Objs : Fill(j, o)
    <2>1. PICK j \in Jobs, o \in Objs : Fill(j, o)
      BY <1>1
    <2>2. owner[o] = None
      BY <2>1, Given DEF Fill, Placed, Owned, Typed, ObjsTyped
    <2>3. \A y \in Objs : y # o => owner'[y] = owner[y]
      BY <1>0, <2>1 DEF Fill
    <2>4. \A y \in Waiting : y # o
      BY <2>2 DEF Placed, Lined
    <2>5. "release" \in Active
      BY DEF Active
    <2> QED
      BY <1>0, <2>2, <2>3, <2>4, <2>5
  <1>2. CASE \E j \in Jobs : PushFailed(j)
    <2>1. PICK j \in Jobs : PushFailed(j)
      BY <1>2
    <2>2. /\ obj[j] \in Objs /\ obj[j] \notin Waiting /\ owner[obj[j]] = j
          /\ \A v \in Workers : wpc[v] \in Active => wobj[v] # obj[j]
      BY <2>1 DEF PushFailed, Typed, Filled, Placed, Pushing
    <2>3. /\ \A y \in Objs : y # obj[j] => owner'[y] = owner[y]
          /\ j \in HasFuture => owner' = owner
      BY <1>0, <2>1, <2>2 DEF PushFailed, Released, Recycled, object
    <2> QED
      BY <1>0, <2>2, <2>3 DEF Active
  <1>3. CASE \E w \in Workers : Releases(w)
    <2>1. PICK w \in Workers : Releases(w)
      BY <1>3
    <2>2. /\ wobj[w] \in Objs /\ wobj[w] \notin Waiting
          /\ \A v \in Workers : v # w /\ wpc[v] \in Active => wobj[v] # wobj[w]
      BY <1>0, <2>1 DEF Releases, Placed, Handed, Active
    <2>3. /\ \A y \in Objs : y # wobj[w] => owner'[y] = owner[y]
          /\ owner[wobj[w]] \in HasFuture => owner' = owner
          /\ wpc[w] = "release"
      BY <1>0, <2>1, <2>2 DEF Releases, Released, Recycled, object
    <2>4. "release" \in Active
      BY DEF Active
    <2> QED
      BY <1>0, <2>1, <2>2, <2>3, <2>4
  <1>4. CASE ~\/ \E j \in Jobs, o \in Objs : Fill(j, o)
              \/ \E j \in Jobs : PushFailed(j)
              \/ \E w \in Workers : Releases(w)
    <2>1. UNCHANGED owner
      <3>1. CASE \E j \in Jobs : Submit(j)
        BY <1>4, <3>1 DEF Submit, Begin, TakeKey, RateRefuses, PushBare, Push, PushFails, object
      <3>2. CASE \E w \in Workers : Work(w)
        BY <1>4, <3>2 DEF Work, TakeBare, Take, BareRuns, DropCancelled, CancelUnindexes, CancelCompletes,
               Starts, Runs, Succeeds, SuccessUnindexes, SuccessCompletes, SuccessFreesKey, Fails, Retries, Postpones, Requeues,
               DeadLetter, DeathUnindexes, DeathAppends, DeathCompletes, DeathFreesKey, object
      <3>3. CASE \/ ReplayTakes \/ (\E o \in replay : ReplayPushes(o))
                 \/ \E c \in Cancellers : Cancel(c) \/ (\E i \in CancelIDs : CancelLoads(c, i))
                                            \/ (\E j \in Jobs : FutureCancel(c, j))
                 \/ MapWaits \/ MapReturns \/ UNCHANGED vars
        BY <3>3 DEF ReplayTakes, ReplayPushes, Cancel, CancelStores, CancelContext, CancelFuture,
               CancelUnindex, FutureCancelled, CancelLoads, FutureCancel, MapWaits, MapReturns, vars,
               object
      <3> QED
        BY <3>1, <3>2, <3>3 DEF Next, Progress
    <2> QED
      BY <1>0, <2>1 DEF Active
  <1> QED
    BY <1>1, <1>2, <1>3, <1>4

\* A worker moves by its own steps only.
LEMMA WorkersMove ==
    ASSUME Typed, [Next]_vars
    PROVE  \A v \in Workers : Work(v) \/ (wpc'[v] = wpc[v] /\ wobj'[v] = wobj[v])
  <1>1. ASSUME NEW w \in Workers, Work(w)
        PROVE  \A v \in Workers \ {w} : wpc'[v] = wpc[v] /\ wobj'[v] = wobj[v]
    BY <1>1 DEF Typed, HandsTyped, Work, TakeBare, Take, BareRuns, DropCancelled, CancelUnindexes,
           CancelCompletes, Starts, Runs, Succeeds, SuccessUnindexes, SuccessCompletes, SuccessFreesKey,
           Releases, Fails, Retries, Postpones, Requeues, DeadLetter, DeathUnindexes, DeathAppends, DeathCompletes, DeathFreesKey,
           Goto, LetGo
  <1>2. CASE \E w \in Workers : Work(w)
    BY <1>1, <1>2
  <1>3. CASE ~\E w \in Workers : Work(w)
    <2>1. UNCHANGED workers
      BY <1>3 DEF Next, Progress, Submit, Begin, TakeKey, RateRefuses, PushBare, Fill, Push, PushFails,
             PushFailed, ReplayTakes, ReplayPushes, Cancel, CancelStores, CancelContext, CancelFuture,
             CancelUnindex, FutureCancelled, CancelLoads, FutureCancel, MapWaits, MapReturns, vars
    <2> QED
      BY <2>1 DEF workers
  <1> QED
    BY <1>2, <1>3

LEMMA ContextsStay ==
    ASSUME [Next]_vars
    PROVE  ctx \subseteq ctx'
  <1>1. CASE \E j \in Jobs : Submit(j)
    BY <1>1 DEF Submit, Begin, TakeKey, RateRefuses, PushBare, Fill, Push, PushFails, PushFailed
  <1>2. CASE \E w \in Workers : Work(w)
    BY <1>2 DEF Work, TakeBare, Take, BareRuns, DropCancelled, CancelUnindexes, CancelCompletes,
           Starts, Runs, Succeeds, SuccessUnindexes, SuccessCompletes, SuccessFreesKey, Releases,
           Fails, Retries, Postpones, Requeues, DeadLetter, DeathUnindexes, DeathAppends, DeathCompletes, DeathFreesKey
  <1>3. CASE ~((\E j \in Jobs : Submit(j)) \/ \E w \in Workers : Work(w))
    BY <1>3 DEF Next, Progress, ReplayTakes, ReplayPushes, Cancel, CancelStores, CancelContext,
           CancelFuture, CancelUnindex, FutureCancelled, CancelLoads, FutureCancel, MapWaits,
           MapReturns, vars
  <1> QED
    BY <1>1, <1>2, <1>3

\* Before the first replay a dead letter stays where it is.
LEMMA LettersStay ==
    ASSUME Typed, [Next]_vars, replays' = 0
    PROVE  replays = 0 /\ (replay = {} => dlq \subseteq dlq' /\ replay' = {})
  <1>1. CASE \E j \in Jobs : Submit(j)
    BY <1>1 DEF Submit, Begin, TakeKey, RateRefuses, PushBare, Fill, Push, PushFails, PushFailed, letters
  <1>2. CASE \E w \in Workers : Work(w)
    BY <1>2 DEF Work, TakeBare, Take, BareRuns, DropCancelled, CancelUnindexes, CancelCompletes,
           Starts, Runs, Succeeds, SuccessUnindexes, SuccessCompletes, SuccessFreesKey, Releases,
           Fails, Retries, Postpones, Requeues, DeadLetter, DeathUnindexes, DeathAppends, DeathCompletes, DeathFreesKey, letters
  <1>3. ~ReplayTakes
    BY Given DEF ReplayTakes, Typed, ObjsTyped
  <1>4. CASE ~((\E j \in Jobs : Submit(j)) \/ \E w \in Workers : Work(w))
    BY <1>3, <1>4 DEF Next, Progress, ReplayPushes, Cancel, CancelStores, CancelContext,
           CancelFuture, CancelUnindex, FutureCancelled, CancelLoads, FutureCancel, MapWaits,
           MapReturns, vars, letters
  <1> QED
    BY <1>1, <1>2, <1>4

\* What a worker is about to tell a job's future has already been recorded ...
Told ==
    \A w \in Workers :
        /\ wpc[w] \in {"cancelled", "cancelFuture"} => Owner(w) \in ctx
        /\ wpc[w] \in {"succeeded", "successFuture", "successKey"} => "succeeded" \in ends[Owner(w)]
        /\ wpc[w] \in {"dead", "deadAppend"} => "dead" \in ends[Owner(w)]
\* ... and so is a refusal.  Until the first replay the letter that a worker has
\* still to see to is in the DLQ, and each letter has one such worker at most.
Refusing == \A j \in Jobs : jpc[j] = "failing" => "refused" \in ends[j]
Lettered ==
    replays = 0 =>
        /\ replay = {}
        /\ \A w \in Workers : wpc[w] \in Late => wobj[w] \in dlq /\ "dead" \in ends[Owner(w)]
        /\ \A v, w \in Workers : v # w /\ wpc[v] \in Late /\ wpc[w] \in Late => wobj[v] # wobj[w]

LEMMA StepsTold ==
    ASSUME Typed, Placed, Told, [Next]_vars
    PROVE  Told'
  <1>0. /\ owner \in [Objs -> Jobs \cup {None}] /\ ends \in [Jobs -> SUBSET Outcomes] /\ HandsTyped
        /\ \A j \in Jobs : ends[j] \subseteq ends'[j]
        /\ ctx \subseteq ctx' /\ None \notin Jobs
    BY Frame, ContextsStay, Given DEF Typed, JobsTyped, ObjsTyped
  <1> SUFFICES ASSUME NEW w \in Workers
               PROVE  /\ wpc'[w] \in {"cancelled", "cancelFuture"} => Owner(w)' \in ctx'
                      /\ wpc'[w] \in {"succeeded", "successFuture", "successKey"} =>
                            "succeeded" \in ends'[Owner(w)']
                      /\ wpc'[w] \in {"dead", "deadAppend"} => "dead" \in ends'[Owner(w)']
    BY DEF Told, Owner
  <1>1. wpc[w] \in Active \ {"release"} => Owner(w) \in Jobs /\ owner'[wobj[w]] = Owner(w)
    BY <1>0, OwnersStay DEF Owner, Placed, Handed, HandsTyped
  <1>2. \A p \in {"cancelled", "cancelFuture", "succeeded", "successFuture", "successKey", "dead",
                  "deadAppend", "check", "succeed", "failed", "requeue"} : p \in Active \ {"release"}
    BY DEF Active
  <1>3. CASE wpc'[w] = wpc[w] /\ wobj'[w] = wobj[w]
    BY <1>0, <1>1, <1>2, <1>3 DEF Told, Owner
  <1>4. CASE DropCancelled(w)
    BY <1>0, <1>1, <1>2, <1>4 DEF DropCancelled, Goto, Owner, HandsTyped
  <1>5. CASE CancelUnindexes(w)
    BY <1>0, <1>1, <1>2, <1>5 DEF CancelUnindexes, Goto, Owner, Told, HandsTyped
  <1>6. CASE Succeeds(w)
    BY <1>0, <1>1, <1>2, <1>6 DEF Succeeds, Goto, Owner, Ends, HandsTyped
  <1>7. CASE SuccessUnindexes(w) \/ SuccessCompletes(w)
    BY <1>0, <1>1, <1>2, <1>7 DEF SuccessUnindexes, SuccessCompletes, Goto, Owner, Told, HandsTyped
  <1>8. CASE DeadLetter(w)
    BY <1>0, <1>1, <1>2, <1>8 DEF DeadLetter, Goto, Owner, Ends, HandsTyped
  <1>9. CASE DeathUnindexes(w)
    BY <1>0, <1>1, <1>2, <1>9 DEF DeathUnindexes, Goto, Owner, Told, HandsTyped
  <1>10. CASE \/ (\E j \in bare : TakeBare(w, j)) \/ (\E o \in queued : Take(w, o)) \/ BareRuns(w)
              \/ CancelCompletes(w) \/ Starts(w) \/ Runs(w) \/ SuccessFreesKey(w) \/ Releases(w)
              \/ Fails(w) \/ Retries(w) \/ Postpones(w) \/ Requeues(w) \/ DeathAppends(w) \/ DeathCompletes(w)
              \/ DeathFreesKey(w)
    <2>1. wpc'[w] \notin {"cancelled", "cancelFuture", "succeeded", "successFuture", "successKey", "dead",
                       "deadAppend"}
      BY <1>0, <1>10 DEF TakeBare, Take, BareRuns, CancelCompletes, Starts, Runs,
             SuccessFreesKey, Releases, Fails, Retries, Postpones, Requeues, DeathAppends, DeathCompletes, DeathFreesKey, Goto,
             LetGo, HandsTyped
    <2> QED
      BY <2>1
  <1> QED
    BY <1>3, <1>4, <1>5, <1>6, <1>7, <1>8, <1>9, <1>10, WorkersMove DEF Work

LEMMA StepsRefusing ==
    ASSUME Typed, Placed, Refusing, [Next]_vars
    PROVE  Refusing'
  <1>0. /\ jpc \in [Jobs -> JobPlaces] /\ ends \in [Jobs -> SUBSET Outcomes] /\ None \notin Jobs
        /\ \A j \in Jobs : ends[j] \subseteq ends'[j]
    BY Frame, Given DEF Typed, JobsTyped
  <1>1. CASE \E j \in Jobs : PushFails(j)
    <2>1. PICK j \in Jobs : PushFails(j)
      BY <1>1
    <2>2. Ends(j, "refused")
      <3>1. owner[obj[j]] = j
        BY <2>1 DEF PushFails, Placed, Pushing
      <3> QED
        BY <2>1, <3>1 DEF PushFails
    <2> QED
      BY <1>0, <2>1, <2>2 DEF PushFails, At, Ends, Refusing
  <1>2. CASE ~\E j \in Jobs : PushFails(j)
    <2>1. \A j \in Jobs : jpc'[j] = "failing" => jpc[j] = "failing"
      <3>1. CASE \E j \in Jobs : Submit(j)
        BY <1>0, <1>2, <3>1 DEF Submit, Begin, TakeKey, RateRefuses, PushBare, Fill, Push,
               PushFailed, At, Refuse
      <3>2. CASE \E w \in Workers : Work(w)
        BY <3>2 DEF Work, TakeBare, Take, BareRuns, DropCancelled, CancelUnindexes, CancelCompletes,
               Starts, Runs, Succeeds, SuccessUnindexes, SuccessCompletes, SuccessFreesKey, Releases,
               Fails, Retries, Postpones, Requeues, DeadLetter, DeathUnindexes, DeathAppends, DeathCompletes, DeathFreesKey, submission
      <3>3. CASE ~((\E j \in Jobs : Submit(j)) \/ \E w \in Workers : Work(w))
        BY <3>3 DEF Next, Progress, ReplayTakes, ReplayPushes, Cancel, CancelStores, CancelContext,
               CancelFuture, CancelUnindex, FutureCancelled, CancelLoads, FutureCancel, MapWaits,
               MapReturns, vars, submission
      <3> QED
        BY <3>1, <3>2, <3>3
    <2> QED
      BY <1>0, <2>1 DEF Refusing
  <1> QED
    BY <1>1, <1>2

LEMMA StepsLettered ==
    ASSUME Typed, Placed, Told, Lettered, [Next]_vars
    PROVE  Lettered'
  <1> SUFFICES ASSUME replays' = 0
               PROVE  /\ replay' = {}
                      /\ \A w \in Workers : wpc'[w] \in Late =>
                            wobj'[w] \in dlq' /\ "dead" \in ends'[Owner(w)']
                      /\ \A v, w \in Workers : v # w /\ wpc'[v] \in Late /\ wpc'[w] \in Late =>
                            wobj'[v] # wobj'[w]
    BY DEF Lettered, Owner
  <1>0. /\ owner \in [Objs -> Jobs \cup {None}] /\ ends \in [Jobs -> SUBSET Outcomes] /\ HandsTyped
        /\ \A j \in Jobs : ends[j] \subseteq ends'[j]
        /\ None \notin Jobs
    BY Frame, Given DEF Typed, JobsTyped, ObjsTyped
  <1>1. replays = 0
    BY LettersStay
  <1>2. replay = {} /\ dlq \subseteq dlq' /\ replay' = {}
    BY <1>1, LettersStay DEF Lettered
  \* One that goes on reading a letter ...
  <1>3. ASSUME NEW w \in Workers, wpc[w] \in Late, wobj'[w] = wobj[w]
        PROVE  wobj'[w] \in dlq' /\ "dead" \in ends'[Owner(w)']
    <2>1. wobj[w] \in dlq /\ "dead" \in ends[Owner(w)] /\ wobj[w] \in Waiting
      BY <1>1, <1>3 DEF Lettered, Waiting
    <2>2. owner'[wobj[w]] = owner[wobj[w]] /\ owner[wobj[w]] \in Jobs
      BY <1>0, <1>3, <2>1, OwnersStay DEF Placed, Lined, HandsTyped
    <2> QED
      BY <1>0, <1>2, <1>3, <2>1, <2>2 DEF Owner
  \* ... and one that has just appended it.
  <1>4. ASSUME NEW w \in Workers, DeathAppends(w)
        PROVE  /\ wobj'[w] = wobj[w] /\ wobj[w] \in dlq' /\ "dead" \in ends'[Owner(w)']
               /\ wobj[w] \notin dlq
    <2>1. wpc[w] = "deadAppend" /\ wpc[w] \in Active \ {"release"}
      BY <1>4 DEF DeathAppends, Active
    <2>2. owner'[wobj[w]] = owner[wobj[w]] /\ owner[wobj[w]] \in Jobs /\ wobj[w] \notin Waiting
      BY <1>0, <2>1, OwnersStay DEF Placed, Handed, HandsTyped
    <2> QED
      BY <1>0, <1>4, <2>1, <2>2 DEF DeathAppends, Goto, Told, Owner, Waiting
  <1>5. \A w \in Workers : wpc'[w] \in Late => wobj'[w] = wobj[w] /\ (wpc[w] \in Late \/ DeathAppends(w))
    <2> SUFFICES ASSUME NEW w \in Workers, wpc'[w] \in Late
                 PROVE  wobj'[w] = wobj[w] /\ (wpc[w] \in Late \/ DeathAppends(w))
      OBVIOUS
    <2>1. CASE Work(w)
      BY <1>0, <2>1 DEF Work, TakeBare, Take, BareRuns, DropCancelled, CancelUnindexes, CancelCompletes,
             Starts, Runs, Succeeds, SuccessUnindexes, SuccessCompletes, SuccessFreesKey, Releases,
             Fails, Retries, Postpones, Requeues, DeadLetter, DeathUnindexes, DeathAppends, DeathCompletes, DeathFreesKey, Goto,
             LetGo, HandsTyped, Late
    <2> QED
      BY <2>1, WorkersMove
  <1>6. ASSUME NEW v \in Workers, NEW w \in Workers, v # w, wpc'[v] \in Late, wpc'[w] \in Late
        PROVE  wobj'[v] # wobj'[w]
    <2>1. CASE wpc[v] \in Late /\ wpc[w] \in Late
      BY <1>1, <1>5, <1>6, <2>1 DEF Lettered
    <2>2. CASE DeathAppends(v) /\ wpc[w] \in Late
      BY <1>1, <1>4, <1>5, <1>6, <2>2 DEF Lettered
    <2>3. CASE DeathAppends(w) /\ wpc[v] \in Late
      BY <1>1, <1>4, <1>5, <1>6, <2>3 DEF Lettered
    <2>4. CASE DeathAppends(v) /\ DeathAppends(w)
      BY <1>5, <1>6, <2>4 DEF DeathAppends, Active, Placed, Handed
    <2> QED
      BY <1>5, <1>6, <2>1, <2>2, <2>3, <2>4
  <1> QED
    BY <1>2, <1>3, <1>4, <1>5, <1>6

\* CancelJob is called for jobs of SubmitResult only: an object with a future
\* is never recycled, so that a pointer to it stays its job's.  Of other jobs
\* the code makes no such promise (ExecutionClaims, CancelNamesJob).
CancelsFuturesOnly ==
    \A j \in Jobs : Raw[j].id \in CancelIDs \/ AutoID[j] \in CancelIDs => j \in HasFuture
Pointed ==
    \A c \in Cancellers :
        /\ cpc[c] \in {"store", "cancel", "future"} => owner[cobj[c]] \in HasFuture
        /\ cpc[c] = "future" => owner[cobj[c]] \in ctx
        /\ cpc[c] = "complete" => cobj[c] \in ctx

\* Every completion of a future, with what its caller has in hand.
LEMMA FutureChanges ==
    ASSUME Typed, Placed, [Next]_vars
    PROVE  \/ UNCHANGED fut
           \/ \E j \in Jobs : jpc[j] = "failing" /\ fut' = Completed(j, "failed")
           \/ \E w \in Workers :
                 \/ wpc[w] = "cancelFuture" /\ fut' = Completed(Owner(w), "cancelled")
                 \/ wpc[w] = "successFuture" /\ fut' = Completed(Owner(w), "ok")
                 \/ wpc[w] = "deadFuture" /\ fut' = Completed(Owner(w), "failed")
           \/ \E c \in Cancellers :
                 \/ cpc[c] = "future" /\ fut' = Completed(owner[cobj[c]], "cancelled")
                 \/ cpc[c] = "complete" /\ fut' = Completed(cobj[c], "cancelled")
  <1>1. CASE \E j \in Jobs : Submit(j)
    <2>1. PICK j \in Jobs : Submit(j)
      BY <1>1
    <2>2. CASE PushFailed(j)
      <3>1. owner[obj[j]] = j
        BY <2>2 DEF PushFailed, Placed, Pushing
      <3> QED
        BY <2>2, <3>1 DEF PushFailed
    <2> QED
      BY <2>1, <2>2 DEF Submit, Begin, TakeKey, RateRefuses, PushBare, Fill, Push, PushFails
  <1>2. CASE \E w \in Workers : Work(w)
    BY <1>2 DEF Work, TakeBare, Take, BareRuns, DropCancelled, CancelUnindexes, CancelCompletes,
           Starts, Runs, Succeeds, SuccessUnindexes, SuccessCompletes, SuccessFreesKey, Releases,
           Fails, Retries, Postpones, Requeues, DeadLetter, DeathUnindexes, DeathAppends, DeathCompletes, DeathFreesKey
  <1>3. CASE ~((\E j \in Jobs : Submit(j)) \/ \E w \in Workers : Work(w))
    BY <1>3 DEF Next, Progress, ReplayTakes, ReplayPushes, Cancel, CancelStores, CancelContext,
           CancelFuture, CancelUnindex, FutureCancelled, CancelLoads, FutureCancel, MapWaits,
           MapReturns, vars
  <1> QED
    BY <1>1, <1>2, <1>3

LEMMA StepsPointed ==
    ASSUME CancelsFuturesOnly, Typed, Placed, Found, Pointed, [Next]_vars
    PROVE  Pointed'
  <1>0. /\ CallsTyped /\ owner \in [Objs -> Jobs \cup {None}] /\ None \notin Jobs
        /\ index \in [IDs -> Objs \cup {None}] /\ CancelIDs \subseteq IDs /\ HasFuture \subseteq Jobs
        /\ ctx \subseteq ctx'
        /\ \A o \in Objs : owner[o] \in HasFuture => owner'[o] = owner[o]
    BY OwnersStay, ContextsStay, Given DEF Typed, ObjsTyped
  <1>1. ASSUME NEW c \in Cancellers, cobj'[c] = cobj[c],
               cpc'[c] = cpc[c] \/ (cpc[c] = "store" /\ cpc'[c] = "cancel")
        PROVE  /\ cpc'[c] \in {"store", "cancel", "future"} => owner'[cobj'[c]] \in HasFuture
               /\ cpc'[c] = "future" => owner'[cobj'[c]] \in ctx'
               /\ cpc'[c] = "complete" => cobj'[c] \in ctx'
    BY <1>0, <1>1 DEF Pointed, CallsTyped
  <1>2. ASSUME UNCHANGED <<cpc, cobj>>
        PROVE  Pointed'
    BY <1>1, <1>2 DEF Pointed
  <1>3. ASSUME NEW c \in Cancellers, Cancel(c) \/ (\E i \in CancelIDs : CancelLoads(c, i))
                                               \/ (\E j \in Jobs : FutureCancel(c, j))
        PROVE  Pointed'
    <2>1. \A d \in Cancellers \ {c} : cpc'[d] = cpc[d] /\ cobj'[d] = cobj[d]
      BY <1>0, <1>3 DEF Cancel, CancelStores, CancelContext, CancelFuture, CancelUnindex, FutureCancelled,
             CancelLoads, FutureCancel, Cancels, CallsTyped
    <2>2. /\ cpc'[c] \in {"store", "cancel", "future"} => owner'[cobj'[c]] \in HasFuture
          /\ cpc'[c] = "future" => owner'[cobj'[c]] \in ctx'
          /\ cpc'[c] = "complete" => cobj'[c] \in ctx'
      <3>1. CASE \E i \in CancelIDs : CancelLoads(c, i)
        <4>1. PICK i \in CancelIDs : CancelLoads(c, i)
          BY <3>1
        <4>2. index[i] \in Objs /\ owner[index[i]] \in Jobs /\ ID(owner[index[i]]) = i
          BY <1>0, <4>1 DEF CancelLoads, Found
        <4>3. owner[index[i]] \in HasFuture
          <5>1. PICK k \in Jobs : k = owner[index[i]]
            BY <4>2
          <5>2. ID(k) \in {Raw[k].id, AutoID[k]} /\ ID(k) = i
            BY <4>2, <5>1, OptionsOf
          <5> QED
            BY <5>1, <5>2, CancelsFuturesOnly DEF CancelsFuturesOnly
        <4>4. cpc'[c] = "store" /\ cobj'[c] = index[i]
          BY <1>0, <4>1 DEF CancelLoads, Cancels, CallsTyped
        <4> QED
          BY <1>0, <4>2, <4>3, <4>4
      <3>2. CASE \E j \in Jobs : FutureCancel(c, j)
        BY <1>0, <3>2 DEF FutureCancel, Cancels, CallsTyped
      <3>3. CASE CancelStores(c)
        BY <1>0, <1>1, <3>3 DEF CancelStores, Cancels, CallsTyped
      <3>4. CASE CancelContext(c)
        BY <1>0, <3>4 DEF CancelContext, Cancels, CallsTyped, Pointed
      <3>5. CASE CancelFuture(c) \/ CancelUnindex(c) \/ FutureCancelled(c)
        BY <1>0, <3>5 DEF CancelFuture, CancelUnindex, FutureCancelled, Cancels, CallsTyped
      <3> QED
        BY <1>3, <3>1, <3>2, <3>3, <3>4, <3>5 DEF Cancel
    <2> QED
      BY <1>1, <2>1, <2>2 DEF Pointed
  <1>4. CASE \E j \in Jobs : Submit(j)
    BY <1>2, <1>4 DEF Submit, Begin, TakeKey, RateRefuses, PushBare, Fill, Push, PushFails, PushFailed,
           cancel
  <1>5. CASE \E w \in Workers : Work(w)
    BY <1>2, <1>5 DEF Work, TakeBare, Take, BareRuns, DropCancelled, CancelUnindexes, CancelCompletes,
           Starts, Runs, Succeeds, SuccessUnindexes, SuccessCompletes, SuccessFreesKey, Releases,
           Fails, Retries, Postpones, Requeues, DeadLetter, DeathUnindexes, DeathAppends, DeathCompletes, DeathFreesKey, cancel
  <1>6. CASE ReplayTakes \/ (\E o \in replay : ReplayPushes(o)) \/ MapWaits \/ MapReturns \/ UNCHANGED vars
    BY <1>2, <1>6 DEF ReplayTakes, ReplayPushes, MapWaits, MapReturns, vars, cancel
  <1> QED
    BY <1>3, <1>4, <1>5, <1>6 DEF Next, Progress

LEMMA StepsFuture ==
    ASSUME Typed, Placed, Told, Refusing, Lettered, Pointed, replays = 0 => FutureTrue, [Next]_vars,
           replays' = 0
    PROVE  FutureTrue'
  <1>0. /\ fut \in [Jobs -> {"none", "pending", "ok", "failed", "cancelled"}]
        /\ ctx \subseteq ctx' /\ \A j \in Jobs : ends[j] \subseteq ends'[j]
        /\ HasFuture \subseteq Jobs /\ replays = 0
    BY Frame, ContextsStay, LettersStay, Given DEF Typed, JobsTyped
  <1> SUFFICES ASSUME NEW j \in HasFuture
               PROVE  /\ fut'[j] = "ok" => "succeeded" \in ends'[j]
                      /\ fut'[j] = "failed" => ends'[j] \cap {"dead", "refused"} # {}
                      /\ fut'[j] = "cancelled" => j \in ctx'
    BY DEF FutureTrue
  <1>1. CASE fut'[j] = fut[j]
    BY <1>0, <1>1 DEF FutureTrue
  <1>2. CASE fut'[j] # fut[j]
    <2>1. ASSUME NEW k, NEW how, fut' = Completed(k, how)
          PROVE  k = j /\ fut'[j] = how
      BY <1>0, <1>2, <2>1 DEF Completed
    <2>2. CASE \E k \in Jobs : jpc[k] = "failing" /\ fut' = Completed(k, "failed")
      BY <1>0, <2>1, <2>2 DEF Refusing
    <2>3. CASE \E w \in Workers : wpc[w] = "cancelFuture" /\ fut' = Completed(Owner(w), "cancelled")
      BY <1>0, <2>1, <2>3 DEF Told
    <2>4. CASE \E w \in Workers : wpc[w] = "successFuture" /\ fut' = Completed(Owner(w), "ok")
      BY <1>0, <2>1, <2>4 DEF Told
    <2>5. CASE \E w \in Workers : wpc[w] = "deadFuture" /\ fut' = Completed(Owner(w), "failed")
      BY <1>0, <2>1, <2>5 DEF Lettered, Late
    <2>6. CASE \E c \in Cancellers :
                 \/ cpc[c] = "future" /\ fut' = Completed(owner[cobj[c]], "cancelled")
                 \/ cpc[c] = "complete" /\ fut' = Completed(cobj[c], "cancelled")
      BY <1>0, <2>1, <2>6 DEF Pointed
    <2> QED
      BY <1>2, <2>2, <2>3, <2>4, <2>5, <2>6, FutureChanges
  <1> QED
    BY <1>1, <1>2

\* A future tells how its own job ended, however submitters, workers and
\* cancellers interleave, until the first ReplayDeadLetters and as long as
\* CancelJob is used for jobs of SubmitResult (future.go complete, pool.go
\* execute and deadletter, inspect.go CancelJob).
THEOREM FuturesTell ==
    ASSUME CancelsFuturesOnly
    PROVE  Spec => [](replays = 0 => FutureTrue)
  <1> DEFINE Inv == /\ Typed /\ Placed /\ Found
                    /\ Told /\ Refusing /\ Lettered /\ Pointed
                    /\ (replays = 0 => FutureTrue)
  <1>1. Init => Inv
    <2> SUFFICES ASSUME Init PROVE Inv
      OBVIOUS
    <2>1. Typed /\ Placed
      BY StartsTypedPlaced
    <2>2. /\ \A i \in IDs : index[i] = None
          /\ \A j \in Jobs : jpc[j] \in {"new", "absent"} /\ fut[j] \in {"pending", "none"}
          /\ \A w \in Workers : wpc[w] = "idle"
          /\ \A c \in Cancellers : cpc[c] = "idle"
          /\ replay = {}
      BY DEF Init
    <2>3. Found /\ Told /\ Refusing /\ Lettered /\ Pointed
      BY <2>2 DEF Found, Told, Refusing, Lettered, Pointed, Late
    <2>4. FutureTrue
      BY <2>2, Given DEF FutureTrue
    <2> QED
      BY <2>1, <2>3, <2>4
  <1>2. Inv /\ [Next]_vars => Inv'
    <2> SUFFICES ASSUME Inv, [Next]_vars PROVE Inv'
      OBVIOUS
    <2>1. Typed' /\ Placed' /\ Found' /\ Told' /\ Refusing' /\ Lettered'
      BY StepsTyped, StepsPlaced, StepsFound, StepsTold, StepsRefusing, StepsLettered
    <2>2. Pointed'
      BY CancelsFuturesOnly, StepsPointed
    <2>3. (replays = 0 => FutureTrue)'
      BY StepsFuture
    <2> QED
      BY <2>1, <2>2, <2>3
  <1>3. Inv => (replays = 0 => FutureTrue)
    OBVIOUS
  <1> QED
    BY <1>1, <1>2, <1>3, PTL DEF Spec
-----------------------------------------------------------------------------
(* Ends. *)

\* A job is submitted by its own steps only, and is done with submission once.
LEMMA JobsMove ==
    ASSUME Typed, [Next]_vars
    PROVE  \A j \in Jobs : /\ Submit(j) \/ (jpc'[j] = jpc[j] /\ obj'[j] = obj[j])
                           /\ Submit(j) => jpc[j] \in {"new", "bare", "key", "rate", "push", "failing"}
  <1>0. jpc \in [Jobs -> JobPlaces] /\ obj \in [Jobs -> Objs \cup {None}]
    BY DEF Typed, JobsTyped
  <1>1. ASSUME NEW j \in Jobs, Submit(j)
        PROVE  /\ \A k \in Jobs \ {j} : jpc'[k] = jpc[k] /\ obj'[k] = obj[k]
               /\ jpc[j] \in {"new", "bare", "key", "rate", "push", "failing"}
    BY <1>0, <1>1 DEF Submit, Begin, TakeKey, RateRefuses, PushBare, Fill, Push, PushFails, PushFailed, At,
           Refuse
  <1>2. CASE \E j \in Jobs : Submit(j)
    BY <1>1, <1>2
  <1>3. CASE ~\E j \in Jobs : Submit(j)
    <2>1. CASE \E w \in Workers : Work(w)
      BY <1>3, <2>1 DEF Work, TakeBare, Take, BareRuns, DropCancelled, CancelUnindexes, CancelCompletes,
             Starts, Runs, Succeeds, SuccessUnindexes, SuccessCompletes, SuccessFreesKey, Releases,
             Fails, Retries, Postpones, Requeues, DeadLetter, DeathUnindexes, DeathAppends, DeathCompletes, DeathFreesKey,
             submission
    <2>2. CASE ~\E w \in Workers : Work(w)
      BY <1>3, <2>2 DEF Next, Progress, ReplayTakes, ReplayPushes, Cancel, CancelStores, CancelContext,
             CancelFuture, CancelUnindex, FutureCancelled, CancelLoads, FutureCancel, MapWaits,
             MapReturns, vars, submission
    <2> QED
      BY <1>3, <2>1, <2>2
  <1> QED
    BY <1>2, <1>3

\* Who ends a job: its submission, or the worker that has it.
LEMMA EndsChange ==
    ASSUME Typed, Placed, [Next]_vars
    PROVE  \A j \in Jobs :
              \/ ends'[j] = ends[j]
              \/ PushFails(j)
              \/ \E w \in Workers : \/ BareRuns(w) /\ wobj[w] = j
                                    \/ /\ DropCancelled(w) \/ Succeeds(w) \/ DeadLetter(w)
                                       /\ Owner(w) = j
  <1>0. ends \in [Jobs -> SUBSET Outcomes] /\ None \notin Jobs
    BY Given DEF Typed, JobsTyped
  <1>1. ASSUME NEW k, NEW how, Ends(k, how)
        PROVE  \A j \in Jobs : j # k => ends'[j] = ends[j]
    BY <1>0, <1>1 DEF Ends
  <1>2. CASE \E k \in Jobs : Submit(k)
    <2>1. PICK k \in Jobs : Submit(k)
      BY <1>2
    <2>2. CASE PushFails(k)
      BY <1>1, <2>2 DEF PushFails
    <2>3. CASE ~PushFails(k)
      BY <2>1, <2>3 DEF Submit, Begin, TakeKey, RateRefuses, PushBare, Fill, Push, PushFailed, history
    <2> QED
      BY <2>2, <2>3
  <1>3. CASE \E w \in Workers : Work(w)
    <2>1. PICK w \in Workers : Work(w)
      BY <1>3
    <2>2. CASE BareRuns(w)
      <3>1. PICK how : Ends(wobj[w], how)
        BY <2>2 DEF BareRuns
      <3> QED
        BY <1>1, <2>2, <3>1
    <2>3. CASE DropCancelled(w) \/ Succeeds(w) \/ DeadLetter(w)
      <3>1. PICK how : Ends(Owner(w), how)
        BY <2>3 DEF DropCancelled, Succeeds, DeadLetter
      <3> QED
        BY <1>1, <2>3, <3>1
    <2>4. CASE ~(BareRuns(w) \/ DropCancelled(w) \/ Succeeds(w) \/ DeadLetter(w))
      BY <2>1, <2>4 DEF Work, TakeBare, Take, CancelUnindexes, CancelCompletes, Starts, Runs,
             SuccessUnindexes, SuccessCompletes, SuccessFreesKey, Releases, Fails, Retries, Postpones, Requeues, DeathUnindexes,
             DeathAppends, DeathCompletes, DeathFreesKey, history
    <2> QED
      BY <2>2, <2>3, <2>4
  <1>4. CASE ~((\E j \in Jobs : Submit(j)) \/ \E w \in Workers : Work(w))
    BY <1>4 DEF Next, Progress, ReplayTakes, ReplayPushes, Cancel, CancelStores, CancelContext,
           CancelFuture, CancelUnindex, FutureCancelled, CancelLoads, FutureCancel, MapWaits,
           MapReturns, vars, history
  <1> QED
    BY <1>2, <1>3, <1>4

\* What is waiting or under way has been accepted, and a job that is not yet
\* accepted or refused has not ended.
Accepted ==
    /\ \A o \in Waiting : jpc[owner[o]] = "accepted"
    /\ \A w \in Workers : wpc[w] \in Active => jpc[Owner(w)] = "accepted"
Early == {"absent", "new", "bare", "key", "rate", "push"}
Unended == \A j \in Jobs : jpc[j] \in Early => ends[j] = {}
\* A job in basicq has no object, and no key.
BareHeld ==
    /\ \A j \in Jobs : jpc[j] = "bare" => Key(j) = ""
    /\ \A j \in bare : jpc[j] = "accepted" /\ obj[j] = None
    /\ \A w \in Workers : wpc[w] = "bareRun" => jpc[wobj[w]] = "accepted" /\ obj[wobj[w]] = None
Unfinished == {"check", "run", "succeed", "fail", "failed", "requeue"}
\* Until the first replay a job that is queued, or that its worker has not
\* finished with, has not ended.
Alive ==
    replays = 0 =>
        /\ \A o \in queued : ends[owner[o]] = {}
        /\ \A w \in Workers : wpc[w] \in Unfinished => ends[Owner(w)] = {}

LEMMA StepsBare ==
    ASSUME Typed, Placed, BareHeld, [Next]_vars
    PROVE  BareHeld'
  <1>0. /\ jpc \in [Jobs -> JobPlaces] /\ obj \in [Jobs -> Objs \cup {None}] /\ HandsTyped
        /\ bare \subseteq Jobs
    BY DEF Typed, JobsTyped
  <1>1. \A j \in Jobs : jpc[j] = "accepted" => jpc'[j] = "accepted" /\ obj'[j] = obj[j]
    BY <1>0, JobsMove
  <1>2. \A j \in Jobs : jpc'[j] = "bare" => Key(j) = ""
    <2>1. ASSUME NEW j \in Jobs, Submit(j), jpc'[j] = "bare"
          PROVE  Basic(j)
      BY <1>0, <2>1 DEF Submit, Begin, TakeKey, RateRefuses, PushBare, Fill, Push, PushFails, PushFailed,
             At, Refuse
    <2> SUFFICES ASSUME NEW j \in Jobs, jpc'[j] = "bare" PROVE Key(j) = ""
      OBVIOUS
    <2>2. CASE Submit(j)
      BY <2>1, <2>2, OptionsOf
    <2>3. CASE jpc'[j] = jpc[j]
      BY <2>3 DEF BareHeld
    <2> QED
      BY <2>2, <2>3, JobsMove
  <1>3. \A j \in bare' : j \in bare \/ (PushBare(j) /\ jpc'[j] = "accepted" /\ j \in Jobs)
    <2>1. CASE \E j \in Jobs : Submit(j)
      <3>1. PICK j \in Jobs : Submit(j)
        BY <2>1
      <3>2. CASE PushBare(j)
        BY <1>0, <3>2 DEF PushBare, At, Refuse
      <3>3. CASE ~PushBare(j)
        BY <3>1, <3>3 DEF Submit, Begin, TakeKey, RateRefuses, Fill, Push, PushFails, PushFailed
      <3> QED
        BY <3>2, <3>3
    <2>2. CASE \E w \in Workers : Work(w)
      BY <2>2 DEF Work, TakeBare, Take, BareRuns, DropCancelled, CancelUnindexes, CancelCompletes,
             Starts, Runs, Succeeds, SuccessUnindexes, SuccessCompletes, SuccessFreesKey, Releases,
             Fails, Retries, Postpones, Requeues, DeadLetter, DeathUnindexes, DeathAppends, DeathCompletes, DeathFreesKey
    <2>3. CASE ~((\E j \in Jobs : Submit(j)) \/ \E w \in Workers : Work(w))
      BY <2>3 DEF Next, Progress, ReplayTakes, ReplayPushes, Cancel, CancelStores, CancelContext,
             CancelFuture, CancelUnindex, FutureCancelled, CancelLoads, FutureCancel, MapWaits,
             MapReturns, vars
    <2> QED
      BY <2>1, <2>2, <2>3
  <1>4. \A j \in bare' : jpc'[j] = "accepted" /\ obj'[j] = None
    <2>1. ASSUME NEW j \in Jobs, PushBare(j)
          PROVE  obj'[j] = None
      BY <2>1 DEF PushBare, Placed, Owned
    <2> QED
      BY <1>0, <1>1, <1>3, <2>1 DEF BareHeld
  <1>5. \A w \in Workers : wpc'[w] = "bareRun" =>
            \/ wpc[w] = "bareRun" /\ wobj'[w] = wobj[w]
            \/ wobj'[w] \in bare
    <2> SUFFICES ASSUME NEW w \in Workers, wpc'[w] = "bareRun"
                 PROVE  \/ wpc[w] = "bareRun" /\ wobj'[w] = wobj[w]
                        \/ wobj'[w] \in bare
      OBVIOUS
    <2>1. CASE Work(w)
      BY <1>0, <2>1 DEF Work, TakeBare, Take, BareRuns, DropCancelled, CancelUnindexes, CancelCompletes,
             Starts, Runs, Succeeds, SuccessUnindexes, SuccessCompletes, SuccessFreesKey, Releases,
             Fails, Retries, Postpones, Requeues, DeadLetter, DeathUnindexes, DeathAppends, DeathCompletes, DeathFreesKey, Goto,
             LetGo, HandsTyped
    <2> QED
      BY <2>1, WorkersMove
  <1>6. \A w \in Workers : wpc'[w] = "bareRun" =>
            wobj'[w] \in Jobs /\ jpc[wobj'[w]] = "accepted" /\ obj[wobj'[w]] = None
    BY <1>0, <1>5 DEF BareHeld, HandsTyped
  <1> QED
    BY <1>1, <1>2, <1>4, <1>6 DEF BareHeld

LEMMA StepsUnended ==
    ASSUME Typed, Placed, BareHeld, Accepted, Unended, [Next]_vars
    PROVE  Unended'
  <1>0. jpc \in [Jobs -> JobPlaces] /\ HandsTyped
    BY DEF Typed, JobsTyped
  <1> SUFFICES ASSUME NEW j \in Jobs, jpc'[j] \in Early
               PROVE  ends'[j] = {}
    BY DEF Unended
  <1>1. jpc[j] \in Early
    <2>1. CASE Submit(j)
      BY <1>0, <2>1 DEF Submit, Begin, TakeKey, RateRefuses, PushBare, Fill, Push, PushFails, PushFailed,
             At, Refuse, Early
    <2> QED
      BY <2>1, JobsMove
  <1>2. ~PushFails(j)
    BY <1>0 DEF PushFails, At, Early
  <1>3. ASSUME NEW w \in Workers, BareRuns(w) /\ wobj[w] = j
        PROVE  FALSE
    BY <1>1, <1>3 DEF BareRuns, BareHeld, Early
  <1>4. ASSUME NEW w \in Workers, DropCancelled(w) \/ Succeeds(w) \/ DeadLetter(w), Owner(w) = j
        PROVE  FALSE
    BY <1>1, <1>4 DEF DropCancelled, Succeeds, DeadLetter, Accepted, Active, Early
  <1> QED
    BY <1>1, <1>2, <1>3, <1>4, EndsChange DEF Unended

\* How an object comes to wait: by a push, a requeue or a death.
LEMMA WaitingGrows ==
    ASSUME Typed, Placed, [Next]_vars
    PROVE  \A o \in Waiting' :
              \/ o \in Waiting
              \/ \E j \in Jobs : Push(j) /\ o = obj[j]
              \/ \E w \in Workers : (Requeues(w) \/ DeathAppends(w)) /\ o = wobj[w]
  <1>1. CASE \E j \in Jobs : Submit(j)
    BY <1>1 DEF Submit, Begin, TakeKey, RateRefuses, PushBare, Fill, Push, PushFails, PushFailed,
           letters, Waiting
  <1>2. CASE \E w \in Workers : Work(w)
    <2>1. PICK w \in Workers : Work(w)
      BY <1>2
    <2>2. CASE Requeues(w) \/ DeathAppends(w)
      <3>1. Waiting' = Waiting \cup {wobj[w]}
        BY <2>2 DEF Requeues, DeathAppends, letters, Waiting
      <3> QED
        BY <2>2, <3>1
    <2>3. CASE ~(Requeues(w) \/ DeathAppends(w))
      <3>1. queued' \subseteq queued /\ UNCHANGED letters
        BY <2>1, <2>3 DEF Work, TakeBare, Take, BareRuns, DropCancelled, CancelUnindexes, CancelCompletes,
             Starts, Runs, Succeeds, SuccessUnindexes, SuccessCompletes, SuccessFreesKey, Releases,
             Fails, Retries, Postpones, DeadLetter, DeathUnindexes, DeathCompletes, DeathFreesKey
      <3> QED
        BY <3>1 DEF Waiting, letters
    <2> QED
      BY <2>2, <2>3
  <1>3. CASE ReplayTakes \/ \E o \in replay : ReplayPushes(o)
    BY <1>3 DEF ReplayTakes, ReplayPushes, Waiting
  <1>4. CASE \/ \E c \in Cancellers : Cancel(c) \/ (\E i \in CancelIDs : CancelLoads(c, i))
                                            \/ (\E j \in Jobs : FutureCancel(c, j))
             \/ MapWaits \/ MapReturns \/ UNCHANGED vars
    <2>1. UNCHANGED <<queued, letters>>
      BY <1>4 DEF Cancel, CancelStores, CancelContext, CancelFuture, CancelUnindex, FutureCancelled,
             CancelLoads, FutureCancel, MapWaits, MapReturns, vars
    <2> QED
      BY <2>1 DEF letters, Waiting
  <1> QED
    BY <1>1, <1>2, <1>3, <1>4 DEF Next, Progress

\* How a worker comes to have an object: by taking it from a queue.
LEMMA ActiveFrom ==
    ASSUME Typed, Placed, [Next]_vars
    PROVE  \A w \in Workers : wpc'[w] \in Active =>
              \/ wpc[w] \in Active /\ wobj'[w] = wobj[w] /\ owner'[wobj[w]] = owner[wobj[w]]
              \/ \E o \in queued : Take(w, o) /\ wobj'[w] = o /\ owner'[o] = owner[o]
  <1> SUFFICES ASSUME NEW w \in Workers, wpc'[w] \in Active
               PROVE  \/ wpc[w] \in Active /\ wobj'[w] = wobj[w] /\ owner'[wobj[w]] = owner[wobj[w]]
                      \/ \E o \in queued : Take(w, o) /\ wobj'[w] = o /\ owner'[o] = owner[o]
    OBVIOUS
  <1>0. HandsTyped
    BY DEF Typed
  <1>1. CASE \E o \in queued : Take(w, o)
    <2>1. PICK o \in queued : Take(w, o)
      BY <1>1
    <2> QED
      BY <1>0, <2>1 DEF Take, object, HandsTyped
  <1>2. CASE ~\E o \in queued : Take(w, o)
    <2>1. wpc[w] \in Active /\ wobj'[w] = wobj[w] /\ ~Releases(w)
      <3>1. CASE Work(w)
        BY <1>0, <1>2, <3>1 DEF Work, TakeBare, BareRuns, DropCancelled, CancelUnindexes, CancelCompletes,
             Starts, Runs, Succeeds, SuccessUnindexes, SuccessCompletes, SuccessFreesKey, Releases,
             Fails, Retries, Postpones, Requeues, DeadLetter, DeathUnindexes, DeathAppends, DeathCompletes, DeathFreesKey, Goto,
             LetGo, HandsTyped, Active
      <3>2. CASE wpc'[w] = wpc[w] /\ wobj'[w] = wobj[w]
        BY <1>0, <3>2 DEF Releases, LetGo, HandsTyped
      <3> QED
        BY <3>1, <3>2, WorkersMove
    <2>2. owner'[wobj[w]] = owner[wobj[w]]
      BY <2>1, OwnersStay
    <2> QED
      BY <2>1, <2>2
  <1> QED
    BY <1>1, <1>2

LEMMA StepsAccepted ==
    ASSUME Typed, Placed, Accepted, [Next]_vars
    PROVE  Accepted'
  <1>0. /\ jpc \in [Jobs -> JobPlaces] /\ owner \in [Objs -> Jobs \cup {None}] /\ None \notin Jobs
        /\ HandsTyped /\ queued \subseteq Waiting /\ Waiting \subseteq Objs
    BY Given DEF Typed, JobsTyped, ObjsTyped, Waiting
  <1>1. \A j \in Jobs : jpc[j] = "accepted" => jpc'[j] = "accepted"
    BY JobsMove
  <1>2. \A o \in Waiting : owner'[o] = owner[o] /\ owner[o] \in Jobs /\ jpc'[owner[o]] = "accepted"
    BY <1>0, <1>1, OwnersStay DEF Accepted, Placed, Lined
  <1>3. \A w \in Workers : wpc[w] \in Active =>
            owner[wobj[w]] \in Jobs /\ jpc'[owner[wobj[w]]] = "accepted"
    BY <1>0, <1>1 DEF Accepted, Placed, Handed, HandsTyped, Owner
  <1>4. ASSUME NEW o \in Waiting'
        PROVE  jpc'[owner'[o]] = "accepted"
    <2>1. CASE o \in Waiting
      BY <1>2, <2>1
    <2>2. CASE \E j \in Jobs : Push(j) /\ o = obj[j]
      <3>1. PICK j \in Jobs : Push(j) /\ o = obj[j]
        BY <2>2
      <3>2. owner[o] = j /\ UNCHANGED owner /\ jpc'[j] = "accepted"
        BY <1>0, <3>1 DEF Push, At, object, Placed, Pushing
      <3> QED
        BY <3>2
    <2>3. CASE \E w \in Workers : (Requeues(w) \/ DeathAppends(w)) /\ o = wobj[w]
      <3>1. PICK w \in Workers : (Requeues(w) \/ DeathAppends(w)) /\ o = wobj[w]
        BY <2>3
      <3>2. wpc[w] \in Active /\ UNCHANGED owner
        BY <3>1 DEF Requeues, DeathAppends, object, Active
      <3> QED
        BY <1>3, <3>1, <3>2
    <2> QED
      BY <2>1, <2>2, <2>3, WaitingGrows
  <1>5. ASSUME NEW w \in Workers, wpc'[w] \in Active
        PROVE  jpc'[owner'[wobj'[w]]] = "accepted"
    BY <1>0, <1>2, <1>3, <1>5, ActiveFrom
  <1> QED
    BY <1>4, <1>5 DEF Accepted, Owner

\* The job of an object that waits does not end, and that of one in hand only
\* by the worker that has it.
LEMMA EndsKept ==
    ASSUME Typed, Placed, BareHeld, [Next]_vars
    PROVE  /\ \A o \in Waiting : ends'[owner[o]] = ends[owner[o]]
           /\ \A w \in Workers : wpc[w] \in Active =>
                 \/ ends'[Owner(w)] = ends[Owner(w)]
                 \/ DropCancelled(w) \/ Succeeds(w) \/ DeadLetter(w)
  <1>0. /\ owner \in [Objs -> Jobs \cup {None}] /\ HandsTyped /\ Waiting \subseteq Objs
        /\ None \notin Objs
    BY Given DEF Typed, ObjsTyped, Waiting
  <1>1. ASSUME NEW o \in Objs, owner[o] # None,
               o \in Waiting \/ \E w \in Workers : wpc[w] \in Active /\ wobj[w] = o
        PROVE  \/ ends'[owner[o]] = ends[owner[o]]
               \/ \E v \in Workers : /\ DropCancelled(v) \/ Succeeds(v) \/ DeadLetter(v)
                                     /\ wobj[v] = o
    <2>1. PICK j \in Jobs : j = owner[o]
      BY <1>0, <1>1
    <2>2. obj[j] = o
      BY <1>1, <2>1 DEF Placed, Owned
    <2>3. ~PushFails(j)
      BY <1>1, <2>2 DEF PushFails, Placed, Pushing
    <2>4. \A v \in Workers : ~(BareRuns(v) /\ wobj[v] = j)
      BY <1>0, <2>2 DEF BareRuns, BareHeld
    <2>5. ASSUME NEW v \in Workers, DropCancelled(v) \/ Succeeds(v) \/ DeadLetter(v), Owner(v) = j
          PROVE  wobj[v] = o
      <3>1. wpc[v] \in Active
        BY <2>5 DEF DropCancelled, Succeeds, DeadLetter, Active
      <3>2. wobj[v] \in Objs /\ owner[wobj[v]] = j
        BY <1>0, <2>5, <3>1 DEF HandsTyped, Owner
      <3>3. owner[wobj[v]] # None
        BY <3>1 DEF Placed, Handed
      <3> QED
        BY <2>2, <3>2, <3>3 DEF Placed, Owned
    <2> QED
      BY <2>1, <2>3, <2>4, <2>5, EndsChange
  <1>2. \A v \in Workers : DropCancelled(v) \/ Succeeds(v) \/ DeadLetter(v) => wpc[v] \in Active
    BY DEF DropCancelled, Succeeds, DeadLetter, Active
  <1>3. ASSUME NEW o \in Waiting
        PROVE  ends'[owner[o]] = ends[owner[o]]
    <2>1. o \in Objs /\ owner[o] # None
      BY <1>0 DEF Placed, Lined
    <2>2. \A v \in Workers : wpc[v] \in Active => wobj[v] # o
      BY DEF Placed, Handed
    <2> QED
      BY <1>1, <1>2, <2>1, <2>2
  <1>4. ASSUME NEW w \in Workers, wpc[w] \in Active
        PROVE  ends'[Owner(w)] = ends[Owner(w)] \/ DropCancelled(w) \/ Succeeds(w) \/ DeadLetter(w)
    <2>1. wobj[w] \in Objs /\ owner[wobj[w]] # None
      BY <1>0, <1>4 DEF Placed, Handed, HandsTyped
    <2>2. \A v \in Workers : v # w /\ wpc[v] \in Active => wobj[v] # wobj[w]
      BY <1>4 DEF Placed, Handed
    <2> QED
      BY <1>1, <1>2, <1>4, <2>1, <2>2 DEF Owner
  <1> QED
    BY <1>3, <1>4

LEMMA StepsAlive ==
    ASSUME Typed, Placed, BareHeld, Lettered, Unended, Alive, [Next]_vars
    PROVE  Alive'
  <1> SUFFICES ASSUME replays' = 0
               PROVE  /\ \A o \in queued' : ends'[owner'[o]] = {}
                      /\ \A w \in Workers : wpc'[w] \in Unfinished =>
                            ends'[owner'[wobj'[w]]] = {}
    BY DEF Alive, Owner
  <1>0. /\ replays = 0 /\ replay = {} /\ queued \subseteq Waiting
        /\ \A o \in queued : ends[owner[o]] = {} /\ ends'[owner[o]] = {} /\ owner'[o] = owner[o]
    BY LettersStay, EndsKept, OwnersStay DEF Alive, Lettered, Waiting
  <1>1. ASSUME NEW o \in queued'
        PROVE  ends'[owner'[o]] = {}
    <2>1. CASE o \in queued
      BY <1>0, <2>1
    <2>2. CASE o \notin queued
      <3>1. \/ \E j \in Jobs : Push(j) /\ o = obj[j]
            \/ \E w \in Workers : Requeues(w) /\ o = wobj[w]
        <4>1. CASE \E j \in Jobs : Submit(j)
          BY <1>1, <2>2, <4>1 DEF Submit, Begin, TakeKey, RateRefuses, PushBare, Fill, Push, PushFails, PushFailed
        <4>2. CASE \E w \in Workers : Work(w)
          BY <1>1, <2>2, <4>2 DEF Work, TakeBare, Take, BareRuns, DropCancelled, CancelUnindexes, CancelCompletes,
             Starts, Runs, Succeeds, SuccessUnindexes, SuccessCompletes, SuccessFreesKey, Releases,
             Fails, Retries, Postpones, Requeues, DeadLetter, DeathUnindexes, DeathAppends, DeathCompletes, DeathFreesKey
        <4>3. CASE ~((\E j \in Jobs : Submit(j)) \/ \E w \in Workers : Work(w))
          BY <1>0, <1>1, <2>2, <4>3 DEF Next, Progress, ReplayTakes, Cancel, CancelStores, CancelContext,
                 CancelFuture, CancelUnindex, FutureCancelled, CancelLoads, FutureCancel, MapWaits,
                 MapReturns, vars
        <4> QED
          BY <4>1, <4>2, <4>3
      <3>2. CASE \E j \in Jobs : Push(j) /\ o = obj[j]
        <4>1. PICK j \in Jobs : Push(j) /\ o = obj[j]
          BY <3>2
        <4>2. owner[o] = j /\ UNCHANGED <<owner, ends>> /\ ends[j] = {}
          BY <4>1 DEF Push, object, history, Placed, Pushing, Unended, Early
        <4> QED
          BY <4>2
      <3>3. CASE \E w \in Workers : Requeues(w) /\ o = wobj[w]
        <4>1. PICK w \in Workers : Requeues(w) /\ o = wobj[w]
          BY <3>3
        <4>2. ends[owner[o]] = {} /\ UNCHANGED <<owner, ends>>
          BY <1>0, <4>1 DEF Requeues, object, history, Alive, Owner, Unfinished
        <4> QED
          BY <4>2
      <3> QED
        BY <3>1, <3>2, <3>3
    <2> QED
      BY <2>1, <2>2
  <1>2. ASSUME NEW w \in Workers, wpc'[w] \in Unfinished
        PROVE  ends'[owner'[wobj'[w]]] = {}
    <2>1. wpc'[w] \in Active
      BY <1>2 DEF Active, Unfinished
    <2>2. CASE \E o \in queued : Take(w, o) /\ wobj'[w] = o /\ owner'[o] = owner[o]
      BY <1>0, <2>2
    <2>3. CASE wpc[w] \in Active /\ wobj'[w] = wobj[w] /\ owner'[wobj[w]] = owner[wobj[w]]
      <3>1. ~(DropCancelled(w) \/ Succeeds(w) \/ DeadLetter(w))
        BY <1>2 DEF DropCancelled, Succeeds, DeadLetter, Goto, Typed, HandsTyped, Unfinished
      <3>2. wpc[w] \in Unfinished
        <4>1. CASE Work(w)
          BY <1>2, <2>3, <3>1, <4>1 DEF Work, TakeBare, Take, BareRuns, CancelUnindexes, CancelCompletes,
             Starts, Runs, SuccessUnindexes, SuccessCompletes, SuccessFreesKey, Releases,
             Fails, Retries, Postpones, Requeues, DeathUnindexes, DeathAppends, DeathCompletes, DeathFreesKey, Goto, LetGo, Typed,
             HandsTyped, Active, Unfinished
        <4> QED
          BY <1>2, <4>1, WorkersMove
      <3>3. ends'[Owner(w)] = ends[Owner(w)] /\ ends[Owner(w)] = {}
        BY <1>0, <2>3, <3>1, <3>2, EndsKept DEF Alive
      <3> QED
        BY <2>3, <3>3 DEF Owner
    <2> QED
      BY <2>1, <2>2, <2>3, ActiveFrom
  <1> QED
    BY <1>1, <1>2
-----------------------------------------------------------------------------
(* Idempotency keys. *)

\* A job has a claim to its key from the moment it has taken it until it has
\* ended and its worker, if one ended it, has given the key back.
Freeing == {"succeeded", "successFuture", "successKey", "dead", "deadAppend", "deadFuture", "deadKey"}
Closing(j) == \E w \in Workers : wpc[w] \in Freeing /\ Owner(w) = j
Claim(j) == Key(j) # "" /\ (UnderWay(j) \/ Closing(j))
\* A claimed key is in p.idemp, unless a Replace has taken it away; and one job
\* claims it.
Claimed ==
    replays = 0 =>
        /\ \A j \in Jobs : Claim(j) /\ Key(j) \notin loose => Key(j) \in keys
        /\ \A j, k \in Jobs : j # k /\ Claim(j) /\ Claim(k) /\ Key(j) = Key(k) => Key(j) \in loose

\* What the lemmas below need of a state before the first replay.
Settled == Typed /\ Placed /\ BareHeld /\ Accepted /\ Unended /\ Told /\ Lettered /\ Alive

\* A claim comes from LoadOrStore alone.
LEMMA ClaimsGrow ==
    ASSUME Settled, [Next]_vars, replays' = 0, NEW j \in Jobs, Claim(j)'
    PROVE  Claim(j) \/ (TakeKey(j) /\ Key(j) \notin keys)
  <1>0. /\ jpc \in [Jobs -> JobPlaces] /\ ends \in [Jobs -> SUBSET Outcomes] /\ HandsTyped
        /\ ends[j] \subseteq ends'[j] /\ replays = 0 /\ Key(j) # ""
        /\ owner \in [Objs -> Jobs \cup {None}]
    BY Frame, LettersStay DEF Settled, Typed, JobsTyped, ObjsTyped, Claim
  <1>1. CASE UnderWay(j)'
    <2>1. jpc'[j] \in {"rate", "push", "accepted"} /\ ends[j] = {}
      BY <1>0, <1>1 DEF UnderWay
    <2>2. CASE jpc'[j] = jpc[j]
      BY <1>0, <2>1, <2>2 DEF Claim, UnderWay
    <2>3. CASE Submit(j)
      <3>1. CASE TakeKey(j)
        BY <1>0, <2>1, <3>1 DEF TakeKey, Refuse, At
      <3>2. CASE Begin(j)
        BY <1>0, <2>1, <3>2 DEF Begin, At
      <3>3. CASE PushBare(j)
        BY <1>0, <3>3 DEF PushBare, Settled, BareHeld
      <3>4. CASE \/ RateRefuses(j) \/ (\E o \in Objs : Fill(j, o)) \/ Push(j) \/ PushFails(j)
                 \/ PushFailed(j)
        BY <1>0, <2>1, <3>4 DEF RateRefuses, Fill, Push, PushFails, PushFailed, At, Refuse, Claim, UnderWay
      <3> QED
        BY <2>3, <3>1, <3>2, <3>3, <3>4 DEF Submit
    <2> QED
      BY <2>2, <2>3, JobsMove DEF Settled
  <1>2. CASE Closing(j)'
    <2>1. PICK w \in Workers : wpc'[w] \in Freeing /\ owner'[wobj'[w]] = j
      BY <1>2 DEF Closing, Owner
    <2>2. CASE wpc'[w] = wpc[w] /\ wobj'[w] = wobj[w]
      <3>1. wpc[w] \in Active \ {"release"} \/ wpc[w] \in Late
        BY <2>1, <2>2 DEF Freeing, Active, Late
      <3>2. owner'[wobj[w]] = owner[wobj[w]]
        BY <1>0, <3>1, OwnersStay DEF Settled, Lettered, Waiting
      <3> QED
        BY <1>0, <2>1, <2>2, <3>2 DEF Claim, Closing, Owner
    <2>3. CASE Work(w)
      <3>1. \/ (Succeeds(w) \/ DeadLetter(w)) /\ UNCHANGED owner /\ wobj'[w] = wobj[w]
            \/ wpc[w] \in Freeing /\ UNCHANGED owner /\ wobj'[w] = wobj[w]
        BY <1>0, <2>1, <2>3 DEF Work, TakeBare, Take, BareRuns, DropCancelled, CancelUnindexes, CancelCompletes,
             Starts, Runs, Succeeds, SuccessUnindexes, SuccessCompletes, SuccessFreesKey, Releases,
             Fails, Retries, Postpones, Requeues, DeadLetter, DeathUnindexes, DeathAppends, DeathCompletes, DeathFreesKey, Goto, LetGo,
             HandsTyped, Freeing, object
      <3>2. CASE Succeeds(w) \/ DeadLetter(w)
        <4>1. wpc[w] \in Unfinished /\ wpc[w] \in Active /\ Owner(w) = j
          BY <2>1, <3>1, <3>2 DEF Succeeds, DeadLetter, Active, Owner, Freeing, Unfinished
        <4> QED
          BY <1>0, <4>1 DEF Settled, Accepted, Alive, Claim, UnderWay
      <3> QED
        BY <1>0, <2>1, <3>1, <3>2 DEF Claim, Closing, Owner
    <2> QED
      BY <2>2, <2>3, WorkersMove DEF Settled
  <1> QED
    BY <1>1, <1>2 DEF Claim

\* A key leaves p.idemp by Replace, or with the claim of the job that had it.
LEMMA KeysLeave ==
    ASSUME Settled, [Next]_vars, replays' = 0, NEW key \in keys \ keys'
    PROVE  /\ loose \subseteq loose'
           /\ key \in loose' \/ key = "" \/ \E k \in Jobs : Key(k) = key /\ Claim(k) /\ ~Claim(k)'
  <1>0. /\ ends \in [Jobs -> SUBSET Outcomes] /\ HandsTyped /\ replays = 0
        /\ owner \in [Objs -> Jobs \cup {None}] /\ None \notin Jobs
        /\ \A j \in Jobs : ends[j] \subseteq ends'[j]
    BY Frame, LettersStay, Given DEF Settled, Typed, JobsTyped, ObjsTyped
  <1>1. CASE \E j \in Jobs : Submit(j)
    BY <1>1 DEF Submit, Begin, TakeKey, RateRefuses, PushBare, Fill, Push, PushFails, PushFailed
  <1>2. CASE \E w \in Workers : Work(w)
    <2>1. PICK w \in Workers : Work(w)
      BY <1>2
    <2>2. /\ SuccessFreesKey(w) \/ DeathFreesKey(w)
          /\ keys' = KeyFreed(wobj[w]) /\ UNCHANGED <<loose, owner>>
          /\ wpc'[w] \in {"release", "idle"}
      BY <1>0, <2>1 DEF Work, TakeBare, Take, BareRuns, DropCancelled, CancelUnindexes, CancelCompletes,
             Starts, Runs, Succeeds, SuccessUnindexes, SuccessCompletes, SuccessFreesKey, Releases,
             Fails, Retries, Postpones, Requeues, DeadLetter, DeathUnindexes, DeathAppends, DeathCompletes, DeathFreesKey, Goto,
             LetGo, HandsTyped, object, history
    <2> DEFINE o == wobj[w]
    <2>3. wpc[w] \in Freeing /\ (wpc[w] \in Late \/ wpc[w] \in Active)
      BY <2>2 DEF SuccessFreesKey, DeathFreesKey, Freeing, Late, Active
    <2>4. o \in Objs /\ owner[o] # None
      BY <1>0, <2>3 DEF HandsTyped, Settled, Placed, Lined, Handed, Lettered, Waiting
    <2>5. PICK k \in Jobs : k = owner[o]
      BY <1>0, <2>4
    <2>6. Key(k) = key
      BY <2>2, <2>4, <2>5 DEF KeyFreed
    <2>7. key # "" => Claim(k)
      BY <2>3, <2>5, <2>6 DEF Claim, Closing, Owner
    <2>8. ~UnderWay(k)'
      <3>1. ends[k] # {}
        BY <1>0, <2>2, <2>5 DEF SuccessFreesKey, DeathFreesKey, Settled, Told, Lettered, Late, Owner
      <3> QED
        BY <1>0, <3>1 DEF UnderWay
    <2>9. ~Closing(k)'
      <3> SUFFICES ASSUME NEW v \in Workers, wpc'[v] \in Freeing, owner'[wobj'[v]] = k
                   PROVE  FALSE
        BY DEF Closing, Owner
      <3>1. v # w
        BY <2>2 DEF Freeing
      <3>2. wpc'[v] = wpc[v] /\ wobj'[v] = wobj[v]
        BY <1>0, <2>2, <3>1 DEF SuccessFreesKey, DeathFreesKey, Goto, LetGo, HandsTyped
      <3>3. wpc[v] \in Late \/ wpc[v] \in Active
        BY <3>2 DEF Freeing, Late, Active
      <3>4. wobj[v] \in Objs /\ owner[wobj[v]] = owner[o]
        BY <1>0, <2>2, <2>5, <3>2, <3>3 DEF HandsTyped
      <3>5. wobj[v] = o
        BY <2>4, <3>4 DEF Settled, Placed, Owned
      <3>6. wobj[v] # wobj[w]
        <4>1. \A u \in Workers : /\ wpc[u] \in Active => wobj[u] \notin Waiting
                                 /\ wpc[u] \in Late => wobj[u] \in Waiting
          BY <1>0 DEF Settled, Placed, Handed, Lettered, Waiting
        <4>2. wpc[v] \in Active /\ wpc[w] \in Active => wobj[v] # wobj[w]
          BY <3>1 DEF Settled, Placed, Handed
        <4>3. wpc[v] \in Late /\ wpc[w] \in Late => wobj[v] # wobj[w]
          BY <1>0, <3>1 DEF Settled, Lettered
        <4> QED
          BY <2>3, <3>3, <4>1, <4>2, <4>3
      <3> QED
        BY <3>5, <3>6
    <2> QED
      BY <2>2, <2>6, <2>7, <2>8, <2>9 DEF Claim
  <1>3. CASE ~((\E j \in Jobs : Submit(j)) \/ \E w \in Workers : Work(w))
    BY <1>3 DEF Next, Progress, ReplayTakes, ReplayPushes, Cancel, CancelStores, CancelContext,
           CancelFuture, CancelUnindex, FutureCancelled, CancelLoads, FutureCancel, MapWaits,
           MapReturns, vars
  <1> QED
    BY <1>1, <1>2, <1>3

LEMMA LooseStays ==
    ASSUME [Next]_vars
    PROVE  loose \subseteq loose'
  <1>1. CASE \E j \in Jobs : Submit(j)
    BY <1>1 DEF Submit, Begin, TakeKey, RateRefuses, PushBare, Fill, Push, PushFails, PushFailed, history
  <1>2. CASE \E w \in Workers : Work(w)
    BY <1>2 DEF Work, TakeBare, Take, BareRuns, DropCancelled, CancelUnindexes, CancelCompletes,
           Starts, Runs, Succeeds, SuccessUnindexes, SuccessCompletes, SuccessFreesKey, Releases,
           Fails, Retries, Postpones, Requeues, DeadLetter, DeathUnindexes, DeathAppends, DeathCompletes, DeathFreesKey, history
  <1>3. CASE ~((\E j \in Jobs : Submit(j)) \/ \E w \in Workers : Work(w))
    BY <1>3 DEF Next, Progress, ReplayTakes, ReplayPushes, Cancel, CancelStores, CancelContext,
           CancelFuture, CancelUnindex, FutureCancelled, CancelLoads, FutureCancel, MapWaits,
           MapReturns, vars, history
  <1> QED
    BY <1>1, <1>2, <1>3

LEMMA StepsClaimed ==
    ASSUME Settled, Claimed, [Next]_vars
    PROVE  Claimed'
  <1> SUFFICES ASSUME replays' = 0
               PROVE  /\ \A j \in Jobs : Claim(j)' /\ Key(j) \notin loose' => Key(j) \in keys'
                      /\ \A j, k \in Jobs : j # k /\ Claim(j)' /\ Claim(k)' /\ Key(j) = Key(k)
                            => Key(j) \in loose'
    BY DEF Claimed, Claim, UnderWay, Closing, Owner
  <1>0. replays = 0 /\ loose \subseteq loose' /\ jpc \in [Jobs -> JobPlaces]
    BY LettersStay, LooseStays DEF Settled, Typed, JobsTyped
  <1>1. ASSUME NEW j \in Jobs, Claim(j)', Key(j) \notin loose'
        PROVE  Key(j) \in keys'
    <2>1. CASE TakeKey(j)
      BY <2>1 DEF TakeKey
    <2>2. CASE Claim(j)
      <3>1. Key(j) \in keys /\ Key(j) # ""
        BY <1>0, <1>1, <2>2 DEF Claimed, Claim
      <3>2. ASSUME Key(j) \notin keys'
            PROVE  FALSE
        <4>1. PICK k \in Jobs : Key(k) = Key(j) /\ Claim(k) /\ ~Claim(k)'
          BY <1>1, <3>1, <3>2, KeysLeave
        <4>2. k # j
          BY <1>1, <4>1
        <4> QED
          BY <1>0, <1>1, <2>2, <4>1, <4>2 DEF Claimed
      <3> QED
        BY <3>2
    <2> QED
      BY <1>1, <2>1, <2>2, ClaimsGrow
  <1>2. ASSUME NEW j \in Jobs, NEW k \in Jobs, j # k, Claim(j)', Claim(k)', Key(j) = Key(k)
        PROVE  Key(j) \in loose'
    <2>1. CASE Claim(j) /\ Claim(k)
      BY <1>0, <1>2, <2>1 DEF Claimed
    <2>2. CASE Claim(j) /\ Key(k) \notin keys
      BY <1>0, <1>2, <2>2 DEF Claimed
    <2>3. CASE Claim(k) /\ Key(j) \notin keys
      BY <1>0, <1>2, <2>3 DEF Claimed
    <2>4. CASE TakeKey(j) /\ TakeKey(k)
      <3>1. jpc'[k] = jpc[k] /\ jpc'[k] # jpc[k]
        BY <1>0, <1>2, <2>4 DEF TakeKey, At, Refuse
      <3> QED
        BY <3>1
    <2> QED
      BY <1>2, <2>1, <2>2, <2>3, <2>4, ClaimsGrow
  <1> QED
    BY <1>1, <1>2

LEMMA StepsSettled ==
    ASSUME Settled, [Next]_vars
    PROVE  Settled'
  BY StepsTyped, StepsPlaced, StepsBare, StepsAccepted, StepsUnended, StepsTold, StepsLettered,
     StepsAlive DEF Settled

LEMMA StartsSettled ==
    ASSUME Init PROVE Settled
  <1>1. /\ \A j \in Jobs : jpc[j] \in {"new", "absent"} /\ ends[j] = {}
        /\ \A w \in Workers : wpc[w] = "idle"
        /\ queued = {} /\ dlq = {} /\ replay = {} /\ bare = {}
    BY DEF Init
  <1>2. BareHeld /\ Unended /\ Told /\ Lettered
    BY <1>1 DEF BareHeld, Unended, Told, Lettered, Late
  <1>3. Accepted /\ Alive
    BY <1>1 DEF Accepted, Alive, Active, Unfinished, Waiting
  <1> QED
    BY <1>2, <1>3, StartsTypedPlaced DEF Settled

\* Two jobs of one idempotency key are never under way together, whatever the
\* options, until a Replace takes the key away or a dead letter is replayed
\* (usability.go Once, pool.go submit's LoadOrStore and the two deletes).
THEOREM KeysExclude == Spec => []KeyExclusive
  <1> DEFINE Inv == Settled /\ Claimed
  <1>1. Init => Inv
    <2> SUFFICES ASSUME Init PROVE Inv
      OBVIOUS
    <2>1. /\ \A j \in Jobs : jpc[j] \in {"new", "absent"}
          /\ \A w \in Workers : wpc[w] = "idle"
      BY DEF Init
    <2>2. \A j \in Jobs : ~Claim(j)
      BY <2>1 DEF Claim, UnderWay, Closing, Freeing
    <2> QED
      BY <2>2, StartsSettled DEF Claimed
  <1>2. Inv /\ [Next]_vars => Inv'
    BY StepsSettled, StepsClaimed
  <1>3. Inv => KeyExclusive
    BY DEF Claimed, Claim, KeyExclusive
  <1> QED
    BY <1>1, <1>2, <1>3, PTL DEF Spec
-----------------------------------------------------------------------------
(* Inspection. *)

\* An object that p.jobs leads to.
Shown(o) == \E i \in IDs : index[i] = o
\* What qj's fields say of a job that still comes to an attempt, and of one in a
\* worker's hands, unless CancelJob has written over its state.
Hopeful(o) ==
    /\ word[o] \in {"queued", "retrying", "cancelled"}
    /\ attempt[o] < Opt(owner[o]).attempts
    /\ ends[owner[o]] = {}
Says(p, o) ==
    /\ p \in {"check", "requeue"} => Hopeful(o)
    /\ p = "cancelled" => word[o] = "cancelled"
    /\ p \in {"run", "succeed", "fail"} => word[o] \in {"running", "cancelled"} /\ ends[owner[o]] = {}
    /\ p = "failed" => word[o] \in {"failed", "cancelled"} /\ ends[owner[o]] = {}
    /\ p \in {"succeeded", "dead"} => word[o] \in {p, "cancelled"} /\ ends[owner[o]] = {p}
\* A dead letter is shown no more, so that a replay, which leaves "dead" in
\* qj.state, shows nothing false.
Worded ==
    /\ \A o \in queued : Shown(o) => Hopeful(o)
    /\ \A j \in Jobs : jpc[j] = "push" => Hopeful(obj[j])
    /\ \A w \in Workers : wpc[w] \in AtWork /\ Shown(wobj[w]) => Says(wpc[w], wobj[w])

Writes(w) ==
    \/ DropCancelled(w) \/ Starts(w) \/ Succeeds(w) \/ Releases(w)
    \/ Fails(w) \/ Retries(w) \/ Postpones(w) \/ DeadLetter(w)

\* Who writes qj.state: a canceller, or whoever has the object.
LEMMA WordsChange ==
    ASSUME Typed, Placed, [Next]_vars
    PROVE  \A o \in Objs :
              \/ word'[o] = word[o] \/ word'[o] = "cancelled"
              \/ \E j \in Jobs : Fill(j, o)
              \/ \E j \in Jobs : PushFailed(j) /\ obj[j] = o
              \/ \E w \in Workers : Writes(w) /\ wobj[w] = o
  <1>0. word \in [Objs -> Words]
    BY DEF Typed, ObjsTyped
  <1> SUFFICES ASSUME NEW o \in Objs, word'[o] # word[o]
               PROVE  \/ word'[o] = "cancelled"
                      \/ \E j \in Jobs : Fill(j, o)
                      \/ \E j \in Jobs : PushFailed(j) /\ obj[j] = o
                      \/ \E w \in Workers : Writes(w) /\ wobj[w] = o
    OBVIOUS
  <1>1. CASE \E j \in Jobs : Submit(j)
    <2>1. PICK j \in Jobs : Submit(j)
      BY <1>1
    <2>2. CASE \E x \in Objs : Fill(j, x)
      BY <1>0, <2>2 DEF Fill
    <2>3. CASE PushFailed(j)
      BY <1>0, <2>3 DEF PushFailed, Released, object
    <2> QED
      BY <2>1, <2>2, <2>3 DEF Submit, Begin, TakeKey, RateRefuses, PushBare, Push, PushFails, object
  <1>2. CASE \E w \in Workers : Work(w)
    <2>1. PICK w \in Workers : Work(w)
      BY <1>2
    <2>2. CASE \/ DropCancelled(w) \/ Starts(w) \/ Succeeds(w) \/ Fails(w) \/ Retries(w) \/ Postpones(w)
               \/ DeadLetter(w)
      BY <1>0, <2>2 DEF Writes, DropCancelled, Starts, Succeeds, Fails, Retries, Postpones, DeadLetter
    <2>3. CASE Releases(w)
      BY <1>0, <2>3 DEF Writes, Releases, Released, object
    <2> QED
      BY <2>1, <2>2, <2>3 DEF Work, TakeBare, Take, BareRuns, CancelUnindexes, CancelCompletes, Runs,
             SuccessUnindexes, SuccessCompletes, SuccessFreesKey, Requeues, DeathUnindexes, DeathAppends,
             DeathCompletes, DeathFreesKey, object
  <1>3. CASE \E c \in Cancellers : CancelStores(c)
    BY <1>0, <1>3 DEF CancelStores
  <1>4. CASE ~\/ \E j \in Jobs : Submit(j)
              \/ \E w \in Workers : Work(w)
              \/ \E c \in Cancellers : CancelStores(c)
    BY <1>4 DEF Next, Progress, ReplayTakes, ReplayPushes, Cancel, CancelContext, CancelFuture,
           CancelUnindex, FutureCancelled, CancelLoads, FutureCancel, MapWaits, MapReturns, vars, object
  <1> QED
    BY <1>1, <1>2, <1>3, <1>4

\* What is queued, being pushed, or in a worker's hands is written by nobody
\* else but cancellers.
LEMMA WordsKept ==
    ASSUME Typed, Placed, [Next]_vars
    PROVE  /\ \A o \in Waiting : word'[o] \in {word[o], "cancelled"}
           /\ \A j \in Jobs : jpc[j] = "push" => word'[obj[j]] \in {word[obj[j]], "cancelled"}
           /\ \A w \in Workers : wpc[w] \in Active =>
                 \/ word'[wobj[w]] \in {word[wobj[w]], "cancelled"}
                 \/ Writes(w)
  <1>0. Waiting \subseteq Objs /\ HandsTyped /\ Filled
    BY DEF Typed, ObjsTyped, Waiting
  <1>1. ASSUME NEW o \in Objs, NEW j \in Jobs, Fill(j, o)
        PROVE  owner[o] = None
    BY <1>1, Given DEF Fill, Placed, Owned, Typed, ObjsTyped
  <1>2. \A w \in Workers : Writes(w) => wpc[w] \in Active
    BY DEF Writes, DropCancelled, Starts, Succeeds, Releases, Fails, Retries, Postpones, DeadLetter,
           Active
  <1>3. \A o \in Waiting : word'[o] \in {word[o], "cancelled"}
    <2> SUFFICES ASSUME NEW o \in Waiting PROVE word'[o] \in {word[o], "cancelled"}
      OBVIOUS
    <2>1. /\ owner[o] # None
          /\ \A j \in Jobs : ~(PushFailed(j) /\ obj[j] = o)
          /\ \A w \in Workers : wpc[w] \in Active => wobj[w] # o
      BY DEF PushFailed, Placed, Lined, Handed, Pushing
    <2> QED
      BY <1>0, <1>1, <1>2, <2>1, WordsChange
  <1>4. \A j \in Jobs : jpc[j] = "push" => word'[obj[j]] \in {word[obj[j]], "cancelled"}
    <2> SUFFICES ASSUME NEW j \in Jobs, jpc[j] = "push" PROVE word'[obj[j]] \in {word[obj[j]], "cancelled"}
      OBVIOUS
    <2>1. PICK o \in Objs : o = obj[j]
      BY <1>0 DEF Filled
    <2>2. /\ owner[o] = j
          /\ \A w \in Workers : wpc[w] \in Active => wobj[w] # o
      BY <2>1 DEF Placed, Pushing
    <2>3. \A k \in Jobs : ~(PushFailed(k) /\ obj[k] = o)
      BY <2>2 DEF PushFailed, Placed, Pushing
    <2> QED
      BY <1>0, <1>1, <1>2, <2>1, <2>2, <2>3, WordsChange, Given
  <1>5. ASSUME NEW w \in Workers, wpc[w] \in Active
        PROVE  \/ word'[wobj[w]] \in {word[wobj[w]], "cancelled"}
               \/ Writes(w)
    <2>1. PICK o \in Objs : o = wobj[w]
      BY <1>0, <1>5 DEF HandsTyped
    <2>2. /\ owner[o] # None
          /\ \A j \in Jobs : ~(PushFailed(j) /\ obj[j] = o)
          /\ \A v \in Workers : v # w /\ wpc[v] \in Active => wobj[v] # o
      BY <1>5, <2>1 DEF PushFailed, Placed, Handed, Pushing
    <2> QED
      BY <1>1, <1>2, <2>1, <2>2, WordsChange
  <1> QED
    BY <1>3, <1>4, <1>5

\* Who writes qj.attempt: whoever has the object, ReplayDeadLetters among them.
LEMMA AttemptsChange ==
    ASSUME Typed, Placed, [Next]_vars
    PROVE  \A o \in Objs :
              \/ attempt'[o] = attempt[o]
              \/ o \in replay
              \/ \E j \in Jobs : Fill(j, o)
              \/ \E j \in Jobs : PushFailed(j) /\ obj[j] = o
              \/ \E w \in Workers : Writes(w) /\ wobj[w] = o
  <1>0. attempt \in [Objs -> Nat]
    BY DEF Typed, ObjsTyped
  <1> SUFFICES ASSUME NEW o \in Objs, attempt'[o] # attempt[o]
               PROVE  \/ o \in replay
                      \/ \E j \in Jobs : Fill(j, o)
                      \/ \E j \in Jobs : PushFailed(j) /\ obj[j] = o
                      \/ \E w \in Workers : Writes(w) /\ wobj[w] = o
    OBVIOUS
  <1>1. CASE \E j \in Jobs : Submit(j)
    <2>1. PICK j \in Jobs : Submit(j)
      BY <1>1
    <2>2. CASE \E x \in Objs : Fill(j, x)
      BY <1>0, <2>2 DEF Fill
    <2>3. CASE PushFailed(j)
      BY <1>0, <2>3 DEF PushFailed, Released, object
    <2> QED
      BY <2>1, <2>2, <2>3 DEF Submit, Begin, TakeKey, RateRefuses, PushBare, Push, PushFails, object
  <1>2. CASE \E w \in Workers : Work(w)
    <2>1. PICK w \in Workers : Work(w)
      BY <1>2
    <2>2. CASE Starts(w)
      BY <1>0, <2>2 DEF Writes, Starts
    <2>3. CASE Releases(w)
      BY <1>0, <2>3 DEF Writes, Releases, Released, object
    <2> QED
      BY <2>1, <2>2, <2>3 DEF Work, TakeBare, Take, BareRuns, DropCancelled, CancelUnindexes,
             CancelCompletes, Runs, Succeeds, SuccessUnindexes, SuccessCompletes, SuccessFreesKey,
             Fails, Retries, Postpones, Requeues, DeadLetter, DeathUnindexes, DeathAppends,
             DeathCompletes, DeathFreesKey, object
  <1>3. CASE \E x \in replay : ReplayPushes(x)
    BY <1>0, <1>3 DEF ReplayPushes
  <1>4. CASE ~\/ \E j \in Jobs : Submit(j)
              \/ \E w \in Workers : Work(w)
              \/ \E x \in replay : ReplayPushes(x)
    BY <1>4 DEF Next, Progress, ReplayTakes, Cancel, CancelStores, CancelContext, CancelFuture,
           CancelUnindex, FutureCancelled, CancelLoads, FutureCancel, MapWaits, MapReturns, vars, object
  <1> QED
    BY <1>1, <1>2, <1>3, <1>4

\* Nobody else writes to a queued object, to one being pushed, or to one in a
\* worker's hands.
LEMMA AttemptsKept ==
    ASSUME Typed, Placed, [Next]_vars
    PROVE  /\ \A o \in queued : attempt'[o] = attempt[o]
           /\ \A j \in Jobs : jpc[j] = "push" => attempt'[obj[j]] = attempt[obj[j]]
           /\ \A w \in Workers : wpc[w] \in Active => attempt'[wobj[w]] = attempt[wobj[w]] \/ Writes(w)
  <1>0. queued \subseteq Waiting /\ replay \subseteq Waiting /\ Waiting \subseteq Objs /\ HandsTyped /\ Filled
    BY DEF Typed, ObjsTyped, Waiting
  <1>1. ASSUME NEW o \in Objs, NEW j \in Jobs, Fill(j, o)
        PROVE  owner[o] = None
    BY <1>1, Given DEF Fill, Placed, Owned, Typed, ObjsTyped
  <1>2. \A w \in Workers : Writes(w) => wpc[w] \in Active
    BY DEF Writes, DropCancelled, Starts, Succeeds, Releases, Fails, Retries, Postpones, DeadLetter,
           Active
  <1>3. \A o \in queued : attempt'[o] = attempt[o]
    <2> SUFFICES ASSUME NEW o \in queued PROVE attempt'[o] = attempt[o]
      OBVIOUS
    <2>1. /\ owner[o] # None /\ o \notin replay /\ o \in Objs
          /\ \A j \in Jobs : ~(PushFailed(j) /\ obj[j] = o)
          /\ \A w \in Workers : wpc[w] \in Active => wobj[w] # o
      BY <1>0 DEF PushFailed, Placed, Lined, Handed, Pushing
    <2> QED
      BY <1>1, <1>2, <2>1, AttemptsChange
  <1>4. \A j \in Jobs : jpc[j] = "push" => attempt'[obj[j]] = attempt[obj[j]]
    <2> SUFFICES ASSUME NEW j \in Jobs, jpc[j] = "push" PROVE attempt'[obj[j]] = attempt[obj[j]]
      OBVIOUS
    <2>1. PICK o \in Objs : o = obj[j]
      BY <1>0 DEF Filled
    <2>2. /\ owner[o] = j /\ o \notin replay
          /\ \A w \in Workers : wpc[w] \in Active => wobj[w] # o
      BY <1>0, <2>1 DEF Placed, Pushing
    <2>3. \A k \in Jobs : ~(PushFailed(k) /\ obj[k] = o)
      BY <2>2 DEF PushFailed, Placed, Pushing
    <2> QED
      BY <1>1, <1>2, <2>1, <2>2, <2>3, AttemptsChange, Given
  <1>5. ASSUME NEW w \in Workers, wpc[w] \in Active
        PROVE  attempt'[wobj[w]] = attempt[wobj[w]] \/ Writes(w)
    <2>1. PICK o \in Objs : o = wobj[w]
      BY <1>0, <1>5 DEF HandsTyped
    <2>2. /\ owner[o] # None /\ o \notin replay
          /\ \A j \in Jobs : ~(PushFailed(j) /\ obj[j] = o)
          /\ \A v \in Workers : v # w /\ wpc[v] \in Active => wobj[v] # o
      BY <1>0, <1>5, <2>1 DEF PushFailed, Placed, Handed, Pushing
    <2> QED
      BY <1>1, <1>2, <2>1, <2>2, AttemptsChange
  <1> QED
    BY <1>3, <1>4, <1>5

\* An object comes to be shown by its submission alone.
LEMMA ShownFrom ==
    ASSUME Typed, Placed, Ending, [Next]_vars, NEW o \in Objs, Shown(o)', owner[o] # None
    PROVE  Shown(o)
  <1>0. index \in [IDs -> Objs \cup {None}] /\ None \notin Objs
    BY Given DEF Typed, ObjsTyped
  <1>1. ASSUME NEW j \in Jobs, NEW x \in Objs, Fill(j, x)
        PROVE  x # o /\ Shown(o)
    <2>1. owner[x] = None
      BY <1>1, Given DEF Fill, Placed, Owned, Typed, ObjsTyped
    <2> QED
      BY <1>0, <1>1, <2>1 DEF Fill, Shown
  <1>2. ASSUME NEW i \in IDs \cup {None}, index' = [index EXCEPT ![i] = None]
        PROVE  Shown(o)
    BY <1>0, <1>2 DEF Shown
  <1>3. CASE \E k \in Jobs : ends'[k] # {} /\ index' = [index EXCEPT ![ID(k)] = None]
    BY <1>2, <1>3, OptionsOf
  <1>4. CASE \E c \in Cancellers : cpc[c] = "delete" /\ index' = [index EXCEPT ![cid[c]] = None]
    BY <1>2, <1>4 DEF Typed, CallsTyped
  <1>5. CASE UNCHANGED index
    BY <1>5 DEF Shown
  <1> QED
    BY <1>1, <1>3, <1>4, <1>5, IndexChanges

\* A dead letter is not.
LEMMA LettersHidden ==
    ASSUME Typed, Placed, Found, NEW o \in dlq \cup replay
    PROVE  ~Shown(o)
  <1> SUFFICES ASSUME Shown(o) PROVE FALSE
    OBVIOUS
  <1>1. Held(o) /\ o \in Objs /\ o \in Waiting /\ owner[o] \in Jobs /\ obj[owner[o]] = o
    BY Given DEF Shown, Found, Typed, ObjsTyped, Placed, Owned, Waiting
  <1>2. o \notin queued
    BY DEF Placed, Lined
  <1>3. jpc[owner[o]] # "push"
    BY <1>1 DEF Placed, Pushing
  <1>4. \A w \in Workers : wpc[w] \in AtWork => wobj[w] # o
    BY <1>1 DEF Placed, Handed, AtWork, Active
  <1> QED
    BY <1>1, <1>2, <1>3, <1>4 DEF Held

\* What a step leaves as it is, or overwrites with "cancelled".
LEMMA Untouched ==
    ASSUME Settled, [Next]_vars, NEW o \in Objs,
           \/ o \in queued
           \/ \E w \in Workers : wpc[w] \in AtWork /\ wobj[w] = o /\ ~Writes(w)
    PROVE  /\ owner[o] # None /\ owner[o] \in Jobs /\ owner'[o] = owner[o]
           /\ word'[o] \in {word[o], "cancelled"} /\ attempt'[o] = attempt[o]
           /\ ends'[owner[o]] = ends[owner[o]]
           /\ Opt(owner[o])' = Opt(owner[o])
  <1>0. Typed /\ Placed /\ BareHeld /\ owner \in [Objs -> Jobs \cup {None}]
    BY DEF Settled, Typed, ObjsTyped
  <1>1. CASE o \in queued
    <2>1. o \in Waiting /\ owner[o] # None
      BY <1>0, <1>1 DEF Waiting, Placed, Lined
    <2> QED
      BY <1>0, <1>1, <2>1, OwnersStay, WordsKept, AttemptsKept, EndsKept, Frame DEF Opt
  <1>2. CASE \E w \in Workers : wpc[w] \in AtWork /\ wobj[w] = o /\ ~Writes(w)
    <2>1. PICK w \in Workers : wpc[w] \in AtWork /\ wobj[w] = o /\ ~Writes(w)
      BY <1>2
    <2>2. wpc[w] \in Active \ {"release"} /\ owner[o] # None
      BY <1>0, <2>1 DEF AtWork, Active, Placed, Handed
    <2>3. ~(DropCancelled(w) \/ Succeeds(w) \/ DeadLetter(w))
      BY <2>1 DEF Writes
    <2> QED
      BY <1>0, <2>1, <2>2, <2>3, OwnersStay, WordsKept, AttemptsKept, EndsKept, Frame DEF Owner, Opt
  <1> QED
    BY <1>1, <1>2

LEMMA HopefulStays ==
    ASSUME NEW o, Hopeful(o), owner'[o] = owner[o],
           word'[o] \in {word[o], "cancelled"}, attempt'[o] = attempt[o],
           ends'[owner[o]] = ends[owner[o]], Opt(owner[o])' = Opt(owner[o])
    PROVE  Hopeful(o)'
  BY DEF Hopeful, Opt

LEMMA StepsQueueWorded ==
    ASSUME Settled, Found, Ending, Worded, [Next]_vars, NEW o \in queued', Shown(o)'
    PROVE  Hopeful(o)'
  <1>0. Typed /\ Placed /\ queued \subseteq Objs /\ HandsTyped
    BY DEF Settled, Typed, ObjsTyped
  <1>1. CASE o \in queued
    <2>1. o \in Objs /\ owner[o] # None
      BY <1>0, <1>1 DEF Placed, Lined, Waiting
    <2>2. Hopeful(o)
      BY <1>0, <1>1, <2>1, ShownFrom DEF Worded
    <2> QED
      BY <1>1, <2>1, <2>2, Untouched, HopefulStays
  <1>2. CASE o \notin queued
    <2>1. \/ \E j \in Jobs : Push(j) /\ o = obj[j]
          \/ \E w \in Workers : Requeues(w) /\ o = wobj[w]
          \/ o \in replay /\ ReplayPushes(o)
      <3>1. CASE \E j \in Jobs : Submit(j)
        BY <1>2, <3>1 DEF Submit, Begin, TakeKey, RateRefuses, PushBare, Fill, Push, PushFails, PushFailed
      <3>2. CASE \E w \in Workers : Work(w)
        BY <1>2, <3>2 DEF Work, TakeBare, Take, BareRuns, DropCancelled, CancelUnindexes,
               CancelCompletes, Starts, Runs, Succeeds, SuccessUnindexes, SuccessCompletes,
               SuccessFreesKey, Releases, Fails, Retries, Postpones, Requeues, DeadLetter,
               DeathUnindexes, DeathAppends, DeathCompletes, DeathFreesKey
      <3>3. CASE ~((\E j \in Jobs : Submit(j)) \/ \E w \in Workers : Work(w))
        BY <1>2, <3>3 DEF Next, Progress, ReplayTakes, ReplayPushes, Cancel, CancelStores,
               CancelContext, CancelFuture, CancelUnindex, FutureCancelled, CancelLoads, FutureCancel,
               MapWaits, MapReturns, vars
      <3> QED
        BY <3>1, <3>2, <3>3
    <2>2. ASSUME NEW j \in Jobs, Push(j), o = obj[j]
          PROVE  Hopeful(o)'
      <3>1. Hopeful(o) /\ UNCHANGED <<owner, word, attempt, ends, cfg>>
        BY <2>2 DEF Push, Worded, object, history
      <3> QED
        BY <3>1 DEF Hopeful, Opt
    <2>3. ASSUME NEW w \in Workers, Requeues(w), o = wobj[w]
          PROVE  Hopeful(o)'
      <3>1. wpc[w] = "requeue" /\ wpc[w] \in AtWork /\ UNCHANGED <<owner, word, attempt, ends, cfg, index>>
        BY <2>3 DEF Requeues, AtWork, object, history
      <3>2. Hopeful(o)
        BY <2>3, <3>1 DEF Worded, Says, Shown
      <3> QED
        BY <3>1, <3>2 DEF Hopeful, Opt
    <2>4. ASSUME o \in replay, ReplayPushes(o)
          PROVE  FALSE
      BY <1>0, <2>4, LettersHidden DEF ReplayPushes, Shown
    <2> QED
      BY <2>1, <2>2, <2>3, <2>4
  <1> QED
    BY <1>1, <1>2

LEMMA StepsPushWorded ==
    ASSUME Settled, Worded, cfg \in Configs, [Next]_vars, NEW j \in Jobs, jpc'[j] = "push"
    PROVE  Hopeful(obj[j])'
  <1>0. /\ Typed /\ Placed /\ Filled /\ jpc \in [Jobs -> JobPlaces] /\ obj \in [Jobs -> Objs \cup {None}]
        /\ Settled' /\ UNCHANGED cfg
        /\ word \in [Objs -> Words] /\ attempt \in [Objs -> Nat]
    BY StepsSettled, Frame DEF Settled, Typed, JobsTyped, ObjsTyped
  <1>1. owner'[obj'[j]] = j /\ ends'[j] = {}
    BY <1>0 DEF Settled, Placed, Pushing, Unended, Early
  <1>2. Opt(j)' = Opt(j) /\ Opt(j).attempts \in Nat \ {0}
    BY <1>0, ExecutionAssumption, Zenon DEF Opt, ExecutionAssumption
  <1>3. CASE jpc'[j] = jpc[j] /\ obj'[j] = obj[j]
    <2>1. owner[obj[j]] = j /\ Hopeful(obj[j])
      BY <1>0, <1>3 DEF Placed, Pushing, Worded
    <2>2. word'[obj[j]] \in {word[obj[j]], "cancelled"} /\ attempt'[obj[j]] = attempt[obj[j]]
      BY <1>0, <1>3, WordsKept, AttemptsKept
    <2> QED
      BY <1>1, <1>2, <1>3, <2>1, <2>2 DEF Hopeful, Opt
  <1>4. CASE Submit(j)
    <2>1. CASE \E o \in Objs : Fill(j, o)
      <3>1. PICK o \in Objs : Fill(j, o)
        BY <2>1
      <3>2. obj'[j] = o /\ word'[o] = "queued" /\ attempt'[o] = 0
        BY <1>0, <3>1 DEF Fill
      <3> QED
        BY <1>1, <1>2, <3>2 DEF Hopeful, Opt
    <2>2. CASE ~\E o \in Objs : Fill(j, o)
      BY <1>0, <1>4, <2>2 DEF Submit, Begin, TakeKey, RateRefuses, PushBare, Push, PushFails,
             PushFailed, At, Refuse
    <2> QED
      BY <2>1, <2>2
  <1> QED
    BY <1>0, <1>3, <1>4, JobsMove

LEMMA StepsHandWorded ==
    ASSUME Settled, Ending, Worded, [Next]_vars, NEW w \in Workers,
           wpc'[w] \in AtWork, Shown(wobj[w])'
    PROVE  Says(wpc[w], wobj[w])'
  <1>0. /\ Typed /\ Placed /\ HandsTyped /\ word \in [Objs -> Words] /\ attempt \in [Objs -> Nat]
        /\ owner \in [Objs -> Jobs \cup {None}] /\ None \notin Jobs /\ ends \in [Jobs -> SUBSET Outcomes]
        /\ queued \subseteq Objs
        /\ UNCHANGED cfg
    BY Frame, Given DEF Settled, Typed, JobsTyped, ObjsTyped
  <1> DEFINE o == wobj[w]
  <1>1. ASSUME wobj'[w] = wobj[w], wpc[w] \in AtWork
        PROVE  o \in Objs /\ owner[o] # None /\ owner[o] \in Jobs /\ Shown(o) /\ Says(wpc[w], o)
    <2>1. o \in Objs /\ owner[o] # None
      BY <1>0, <1>1 DEF HandsTyped, Placed, Handed, AtWork, Active
    <2>2. Shown(o)
      BY <1>0, <1>1, <2>1, ShownFrom DEF Shown
    <2> QED
      BY <1>0, <1>1, <2>1, <2>2 DEF Worded
  <1>2. CASE wpc'[w] = wpc[w] /\ wobj'[w] = wobj[w]
    <2>1. ~Writes(w)
      BY <1>0, <1>2 DEF Writes, DropCancelled, Starts, Succeeds, Releases, Fails, Retries, Postpones,
             DeadLetter, Goto, LetGo, HandsTyped
    <2>2. /\ owner'[o] = owner[o] /\ word'[o] \in {word[o], "cancelled"} /\ attempt'[o] = attempt[o]
          /\ ends'[owner[o]] = ends[owner[o]] /\ Opt(owner[o])' = Opt(owner[o])
      BY <1>1, <1>2, <2>1, Untouched
    <2>3. Hopeful(o) => Hopeful(o)'
      BY <1>1, <1>2, <2>2, HopefulStays
    <2> QED
      BY <1>1, <1>2, <2>2, <2>3 DEF Says, Hopeful, Opt
  <1>3. CASE \E x \in queued : Take(w, x)
    <2>1. PICK x \in queued : Take(w, x)
      BY <1>3
    <2>2. /\ wpc'[w] = "check" /\ wobj'[w] = x /\ UNCHANGED <<owner, word, attempt, ends, cfg, index>>
      BY <1>0, <2>1 DEF Take, HandsTyped, object, history
    <2>3. Hopeful(x)
      BY <2>1, <2>2 DEF Worded, Shown
    <2> QED
      BY <2>2, <2>3 DEF Says, Hopeful, Opt
  <1>4. CASE DropCancelled(w)
    <2>1. wpc[w] \in AtWork /\ wobj'[w] = wobj[w] /\ wpc'[w] = "cancelled" /\ word'[o] = "cancelled"
      BY <1>0, <1>1, <1>4 DEF DropCancelled, Goto, AtWork, HandsTyped, Active
    <2> QED
      BY <2>1 DEF Says
  <1>5. CASE Starts(w) \/ Fails(w)
    <2>1. wpc[w] \in AtWork /\ wobj'[w] = wobj[w] /\ UNCHANGED <<owner, ends>>
      BY <1>5 DEF Starts, Fails, Goto, AtWork, history
    <2>2. \/ wpc[w] = "check" /\ wpc'[w] = "run" /\ word'[o] = "running"
          \/ wpc[w] = "fail" /\ wpc'[w] = "failed" /\ word'[o] = "failed"
      BY <1>0, <1>1, <1>5, <2>1 DEF Starts, Fails, Goto, HandsTyped
    <2> QED
      BY <1>1, <2>1, <2>2 DEF Says, Hopeful
  <1>6. CASE Retries(w) \/ Postpones(w)
    <2>1. /\ wpc[w] \in AtWork /\ wobj'[w] = wobj[w] /\ UNCHANGED <<cfg, owner, attempt, ends>>
          /\ \/ wpc[w] = "failed" /\ attempt[o] < Opt(owner[o]).attempts
             \/ wpc[w] = "check"
      BY <1>6 DEF Retries, Postpones, Goto, AtWork, history, Owner
    <2>2. wpc'[w] = "requeue" /\ word'[o] \in {"queued", "retrying"}
      BY <1>0, <1>1, <1>6, <2>1 DEF Retries, Postpones, Goto, HandsTyped
    <2>3. attempt[o] < Opt(owner[o]).attempts /\ ends[owner[o]] = {}
      BY <1>1, <2>1 DEF Says, Hopeful
    <2> QED
      BY <2>1, <2>2, <2>3 DEF Says, Hopeful, Opt
  <1>7. CASE Runs(w)
    <2>1. /\ wpc[w] = "run" /\ wpc[w] \in AtWork /\ wobj'[w] = wobj[w] /\ UNCHANGED <<owner, word, ends>>
          /\ wpc'[w] \in {"succeed", "fail"}
      BY <1>0, <1>7 DEF Runs, Goto, AtWork, HandsTyped, object
    <2> QED
      BY <1>1, <2>1 DEF Says
  <1>8. CASE Succeeds(w) \/ DeadLetter(w)
    <2>1. /\ wpc[w] \in {"succeed", "failed", "requeue"} /\ wpc[w] \in AtWork
          /\ wobj'[w] = wobj[w] /\ UNCHANGED owner
      BY <1>8 DEF Succeeds, DeadLetter, Goto, AtWork
    <2>2. PICK p \in {"succeeded", "dead"} :
              wpc'[w] = p /\ word'[o] = p /\ Ends(owner[o], p)
      BY <1>0, <1>1, <1>8, <2>1 DEF Succeeds, DeadLetter, Goto, Owner, HandsTyped
    <2>3. ends[owner[o]] = {} /\ owner[o] \in Jobs
      BY <1>1, <2>1 DEF Says, Hopeful
    <2>4. ends'[owner[o]] = {p}
      BY <1>0, <2>2, <2>3 DEF Ends
    <2> QED
      BY <2>1, <2>2, <2>4 DEF Says
  <1>9. CASE \/ (\E j \in bare : TakeBare(w, j)) \/ BareRuns(w) \/ CancelUnindexes(w) \/ CancelCompletes(w)
             \/ SuccessUnindexes(w) \/ SuccessCompletes(w) \/ SuccessFreesKey(w) \/ Releases(w)
             \/ Requeues(w) \/ DeathUnindexes(w) \/ DeathAppends(w) \/ DeathCompletes(w)
             \/ DeathFreesKey(w)
    <2>1. wpc'[w] \notin AtWork
      BY <1>0, <1>9 DEF TakeBare, BareRuns, CancelUnindexes, CancelCompletes, SuccessUnindexes,
             SuccessCompletes, SuccessFreesKey, Releases, Requeues, DeathUnindexes, DeathAppends,
             DeathCompletes, DeathFreesKey, Goto, LetGo, HandsTyped, AtWork
    <2> QED
      BY <2>1
  <1> QED
    BY <1>0, <1>2, <1>3, <1>4, <1>5, <1>6, <1>7, <1>8, <1>9, WorkersMove DEF Work

\* InspectJob tells the truth about a job that nobody is cancelling, through
\* retries, postponements, deaths and replays: the state it shows is the step its
\* worker is at, the end it shows is the only one the job has come to, and what
\* it shows as waiting has an attempt left (inspect.go InspectJob, pool.go
\* execute and deadletter).
THEOREM InspectTells == Spec => []InspectTrue
  <1> DEFINE Inv == Settled /\ cfg \in Configs /\ Found /\ Ending /\ Worded
  <1>1. Init => Inv
    <2> SUFFICES ASSUME Init PROVE Inv
      OBVIOUS
    <2>1. /\ \A j \in Jobs : jpc[j] \in {"new", "absent"}
          /\ \A w \in Workers : wpc[w] = "idle"
          /\ \A i \in IDs : index[i] = None
          /\ queued = {} /\ cfg \in Configs
      BY DEF Init
    <2>2. Worded /\ Found /\ Ending
      BY <2>1 DEF Worded, Found, Ending, AtWork
    <2> QED
      BY <2>1, <2>2, StartsSettled
  <1>2. Inv /\ [Next]_vars => Inv'
    <2> SUFFICES ASSUME Inv, [Next]_vars PROVE Inv'
      OBVIOUS
    <2>1. Typed /\ Placed
      BY DEF Settled
    <2>2. Settled' /\ Found' /\ Ending' /\ UNCHANGED cfg
      BY <2>1, StepsSettled, StepsFound, StepsEnding, Frame
    <2>3. Worded'
      BY StepsQueueWorded, StepsPushWorded, StepsHandWorded DEF Worded
    <2> QED
      BY <2>2, <2>3
  <1>3. Inv => InspectTrue
    <2> SUFFICES ASSUME Inv, NEW i \in IDs, NEW o, o = index[i], o # None, word[o] # "cancelled"
                 PROVE  LET j == owner[o]
                            at == {wpc[w] : w \in {v \in Workers : wobj[v] = o /\ wpc[v] \in AtWork}}
                        IN
                        /\ word[o] = "running" <=> at \cap {"run", "succeed", "fail"} # {}
                        /\ word[o] \in {"queued", "retrying"} <=> at \subseteq {"check", "requeue"}
                        /\ word[o] \in {"queued", "retrying"} => attempt[o] < Opt(j).attempts
                        /\ word[o] \in {"failed", "dead", "succeeded"} => at = {word[o]}
                        /\ ends[j] = {word[o]} \cap {"dead", "succeeded"}
      BY Zenon DEF InspectTrue
    <2> DEFINE at == {wpc[w] : w \in {v \in Workers : wobj[v] = o /\ wpc[v] \in AtWork}}
    <2>0. /\ o \in Objs /\ Held(o) /\ Shown(o) /\ owner[o] \in Jobs
          /\ owner[o] # None /\ obj[owner[o]] = o
      BY DEF Settled, Typed, ObjsTyped, Found, Placed, Owned, Shown
    <2>1. \A p \in AtWork : p \in Active
      BY DEF AtWork, Active
    <2>2. CASE o \in queued \/ jpc[owner[o]] = "push"
      <3>1. at = {}
        BY <2>0, <2>1, <2>2 DEF Settled, Placed, Handed, Pushing, Waiting
      <3>2. Hopeful(o)
        BY <2>0, <2>2 DEF Worded
      <3> QED
        BY <3>1, <3>2 DEF Hopeful
    <2>3. CASE \E w \in Workers : wpc[w] \in AtWork /\ wobj[w] = o
      <3>1. PICK w \in Workers : wpc[w] \in AtWork /\ wobj[w] = o
        BY <2>3
      <3>2. at = {wpc[w]}
        BY <2>1, <3>1 DEF Settled, Placed, Handed
      <3>3. Says(wpc[w], o)
        BY <2>0, <3>1 DEF Worded
      <3>4. CASE wpc[w] \in {"check", "requeue"}
        BY <3>2, <3>3, <3>4 DEF Says, Hopeful
      <3>5. CASE wpc[w] \in {"run", "succeed", "fail"}
        BY <3>2, <3>3, <3>5 DEF Says
      <3>6. CASE wpc[w] \in {"failed", "succeeded", "dead"}
        BY <3>2, <3>3, <3>6 DEF Says
      <3>7. wpc[w] # "cancelled"
        BY <3>3 DEF Says
      <3> QED
        BY <3>1, <3>4, <3>5, <3>6, <3>7 DEF AtWork
    <2> QED
      BY <2>0, <2>2, <2>3 DEF Held
  <1> QED
    BY <1>1, <1>2, <1>3, PTL DEF Spec
-----------------------------------------------------------------------------
(* Map. *)

\* Each item has one attempt: a retried one calls wg.Done once more than it was
\* added (ExecutionClaims, CounterNatural).
OneAttempt == \A c \in Configs, j \in MapJobs : Submitted(c, Applied(j), AutoID[j]).attempts = 1

\* A function that has returned is an accepted job's; a job in basicq is in one
\* place, and has not run.
Ran == \A j \in returned : jpc[j] = "accepted"
BareOnce ==
    /\ bare \cap returned = {}
    /\ \A w \in Workers : wpc[w] = "bareRun" => wobj[w] \notin bare \cup returned
    /\ \A v, w \in Workers : v # w /\ wpc[v] = "bareRun" /\ wpc[w] = "bareRun" => wobj[v] # wobj[w]
\* Until the first replay an item that waits or starts has not run before.
FirstRun ==
    replays = 0 =>
        /\ \A o \in queued : owner[o] \in MapJobs => owner[o] \notin returned
        /\ \A w \in Workers : wpc[w] \in {"check", "run", "requeue"} /\ Owner(w) \in MapJobs =>
                Owner(w) \notin returned
        /\ \A w \in Workers : wpc[w] \in {"run", "fail", "failed"} => attempt[wobj[w]] >= 1

\* The items that wg still counts.
In(j) ==
    \/ jpc[j] \in {"bare", "key", "rate", "push", "failing"}
    \/ jpc[j] = "accepted" /\ j \notin returned
    \/ Refused(j) /\ ~DoneOnRefusal
Counted == {j \in MapJobs : In(j)}
Counting == replays = 0 => pending = Cardinality(Counted)
Gathering ==
    /\ mpc = "waiting" => \A j \in MapJobs : Over(j)
    /\ replays = 0 => MapComplete

\* What the lemmas below need of a state.
Steady == Settled /\ cfg \in Configs /\ Ran /\ BareOnce /\ FirstRun

LEMMA ReturnsChange ==
    ASSUME [Next]_vars
    PROVE  \/ UNCHANGED returned
           \/ \E w \in Workers : BareRuns(w) /\ returned' = returned \cup {wobj[w]}
           \/ \E w \in Workers : Runs(w) /\ returned' = returned \cup {Owner(w)}
  <1>1. CASE \E j \in Jobs : Submit(j)
    BY <1>1 DEF Submit, Begin, TakeKey, RateRefuses, PushBare, Fill, Push, PushFails, PushFailed, history
  <1>2. CASE \E w \in Workers : Work(w)
    BY <1>2 DEF Work, TakeBare, Take, BareRuns, DropCancelled, CancelUnindexes, CancelCompletes,
           Starts, Runs, Succeeds, SuccessUnindexes, SuccessCompletes, SuccessFreesKey, Releases,
           Fails, Retries, Postpones, Requeues, DeadLetter, DeathUnindexes, DeathAppends, DeathCompletes, DeathFreesKey, history
  <1>3. CASE ~((\E j \in Jobs : Submit(j)) \/ \E w \in Workers : Work(w))
    BY <1>3 DEF Next, Progress, ReplayTakes, ReplayPushes, Cancel, CancelStores, CancelContext,
           CancelFuture, CancelUnindex, FutureCancelled, CancelLoads, FutureCancel, MapWaits,
           MapReturns, vars, history
  <1> QED
    BY <1>1, <1>2, <1>3

LEMMA StepsRan ==
    ASSUME Settled, Ran, [Next]_vars
    PROVE  Ran'
  <1>1. \A j \in Jobs : jpc[j] = "accepted" => jpc'[j] = "accepted"
    BY JobsMove DEF Settled
  <1>2. returned \subseteq Jobs
    BY DEF Settled, Typed, JobsTyped
  <1>3. ASSUME NEW w \in Workers, BareRuns(w)
        PROVE  wobj[w] \in Jobs /\ jpc[wobj[w]] = "accepted"
    BY <1>3 DEF BareRuns, Settled, BareHeld, Typed, HandsTyped
  <1>4. ASSUME NEW w \in Workers, Runs(w)
        PROVE  Owner(w) \in Jobs /\ jpc[Owner(w)] = "accepted"
    <2>1. wpc[w] \in Active
      BY <1>4 DEF Runs, Active
    <2> QED
      BY <2>1 DEF Settled, Accepted, Typed, HandsTyped, ObjsTyped, Placed, Handed, Owner
  <1> QED
    BY <1>1, <1>2, <1>3, <1>4, ReturnsChange DEF Ran

\* How a bare job moves: into basicq with its push, out of it to one worker.
LEMMA BareMoves ==
    ASSUME Typed, [Next]_vars
    PROVE  /\ \A j \in bare' : j \in bare \/ (j \in Jobs /\ PushBare(j))
           /\ \A w \in Workers : wpc'[w] = "bareRun" =>
                 \/ wpc[w] = "bareRun" /\ wobj'[w] = wobj[w]
                 \/ wobj'[w] \in bare /\ TakeBare(w, wobj'[w])
  <1>0. HandsTyped
    BY DEF Typed
  <1>1. \A j \in bare' : j \in bare \/ (j \in Jobs /\ PushBare(j))
    <2>1. CASE \E j \in Jobs : Submit(j)
      <3>1. PICK j \in Jobs : Submit(j)
        BY <2>1
      <3> QED
        BY <3>1 DEF Submit, Begin, TakeKey, RateRefuses, PushBare, Fill, Push, PushFails, PushFailed
    <2>2. CASE \E w \in Workers : Work(w)
      BY <2>2 DEF Work, TakeBare, Take, BareRuns, DropCancelled, CancelUnindexes, CancelCompletes,
             Starts, Runs, Succeeds, SuccessUnindexes, SuccessCompletes, SuccessFreesKey, Releases,
             Fails, Retries, Postpones, Requeues, DeadLetter, DeathUnindexes, DeathAppends, DeathCompletes, DeathFreesKey
    <2>3. CASE ~((\E j \in Jobs : Submit(j)) \/ \E w \in Workers : Work(w))
      BY <2>3 DEF Next, Progress, ReplayTakes, ReplayPushes, Cancel, CancelStores, CancelContext,
             CancelFuture, CancelUnindex, FutureCancelled, CancelLoads, FutureCancel, MapWaits,
             MapReturns, vars
    <2> QED
      BY <2>1, <2>2, <2>3
  <1>2. ASSUME NEW w \in Workers, wpc'[w] = "bareRun", Work(w)
        PROVE  wobj'[w] \in bare /\ TakeBare(w, wobj'[w])
    <2>1. PICK j \in bare : TakeBare(w, j)
      BY <1>0, <1>2 DEF Work, Take, BareRuns, DropCancelled, CancelUnindexes, CancelCompletes,
             Starts, Runs, Succeeds, SuccessUnindexes, SuccessCompletes, SuccessFreesKey, Releases,
             Fails, Retries, Postpones, Requeues, DeadLetter, DeathUnindexes, DeathAppends, DeathCompletes, DeathFreesKey, Goto,
             LetGo, HandsTyped
    <2>2. wobj'[w] = j
      BY <1>0, <2>1 DEF TakeBare, HandsTyped
    <2> QED
      BY <2>1, <2>2
  <1> QED
    BY <1>1, <1>2, WorkersMove

LEMMA StepsBareOnce ==
    ASSUME Settled, Ran, BareOnce, [Next]_vars
    PROVE  BareOnce'
  <1>0. /\ Typed /\ HandsTyped /\ BareHeld /\ bare \subseteq Jobs /\ None \notin Objs
        /\ owner \in [Objs -> Jobs \cup {None}]
    BY Given DEF Settled, Typed, JobsTyped, ObjsTyped
  \* What returns is in no other place.
  <1>1. \A j \in returned' : \/ j \in returned
                             \/ \E w \in Workers : BareRuns(w) /\ wpc[w] = "bareRun" /\ j = wobj[w]
                             \/ j \in Jobs /\ obj[j] # None
    <2>1. ASSUME NEW w \in Workers, Runs(w)
          PROVE  Owner(w) \in Jobs /\ obj[Owner(w)] # None
      <3>1. wpc[w] \in Active
        BY <2>1 DEF Runs, Active
      <3> QED
        BY <1>0, <3>1 DEF Settled, HandsTyped, Placed, Handed, Owned, Owner
    <2>2. \A w \in Workers : BareRuns(w) => wpc[w] = "bareRun"
      BY DEF BareRuns
    <2> QED
      BY <2>1, <2>2, ReturnsChange
  <1>2. \A j \in bare' : j \notin bare => j \in Jobs /\ jpc[j] = "bare"
    BY <1>0, BareMoves DEF PushBare
  <1>3. bare' \cap returned' = {}
    <2> SUFFICES ASSUME NEW j \in bare', j \in returned' PROVE FALSE
      OBVIOUS
    <2>1. CASE j \in bare
      BY <1>0, <1>1, <2>1 DEF BareOnce, BareHeld
    <2>2. CASE j \notin bare
      <3>1. jpc[j] = "bare" /\ j \in Jobs /\ obj[j] = None
        BY <1>2, <2>2 DEF Settled, Placed, Owned
      <3> QED
        BY <1>0, <1>1, <3>1 DEF Ran, BareHeld
    <2> QED
      BY <2>1, <2>2
  <1>4. ASSUME NEW w \in Workers, wpc'[w] = "bareRun"
        PROVE  wobj'[w] \notin bare' \cup returned'
    <2>1. CASE wpc[w] = "bareRun" /\ wobj'[w] = wobj[w]
      <3>1. wobj[w] \in Jobs /\ jpc[wobj[w]] = "accepted" /\ obj[wobj[w]] = None
        BY <1>0, <2>1 DEF BareHeld, HandsTyped
      <3>2. wobj[w] \notin bare'
        BY <1>2, <2>1, <3>1 DEF BareOnce
      <3>3. ~BareRuns(w)
        BY <1>0, <1>4 DEF BareRuns, LetGo, HandsTyped
      <3>4. wobj[w] \notin returned'
        BY <1>1, <2>1, <3>1, <3>3 DEF BareOnce
      <3> QED
        BY <2>1, <3>2, <3>4
    <2>2. CASE wobj'[w] \in bare /\ TakeBare(w, wobj'[w])
      BY <2>2 DEF TakeBare, history, BareOnce
    <2> QED
      BY <1>0, <1>4, <2>1, <2>2, BareMoves
  <1>5. ASSUME NEW v \in Workers, NEW w \in Workers, v # w, wpc'[v] = "bareRun", wpc'[w] = "bareRun"
        PROVE  wobj'[v] # wobj'[w]
    <2>1. ASSUME NEW u \in Workers, NEW t \in Workers, u # t, wpc'[t] = "bareRun",
                 wobj'[u] \in bare, TakeBare(u, wobj'[u])
          PROVE  wobj'[u] # wobj'[t]
      BY <1>0, <2>1 DEF TakeBare, BareOnce, HandsTyped
    <2> QED
      BY <1>0, <1>5, <2>1, BareMoves DEF BareOnce
  <1> QED
    BY <1>3, <1>4, <1>5 DEF BareOnce

\* qj.attempt counts the attempts of the job that is being run.
LEMMA AttemptsGrow ==
    ASSUME Typed, Placed, replay = {}, [Next]_vars, NEW w \in Workers, wpc[w] \in Active, ~Releases(w)
    PROVE  attempt'[wobj[w]] >= attempt[wobj[w]]
  <1>0. attempt \in [Objs -> Nat] /\ HandsTyped /\ None \notin Objs
    BY Given DEF Typed, ObjsTyped
  <1>1. PICK o \in Objs : o = wobj[w]
    BY <1>0 DEF HandsTyped
  <1>2. owner[o] # None /\ o \notin Waiting
    BY <1>1 DEF Placed, Handed
  <1>3. CASE \E j \in Jobs : Submit(j)
    <2>1. PICK j \in Jobs : Submit(j)
      BY <1>3
    <2>2. CASE \E x \in Objs : Fill(j, x)
      <3>1. PICK x \in Objs : Fill(j, x)
        BY <2>2
      <3>2. owner[x] = None
        BY <3>1, Given DEF Fill, Placed, Owned, Typed, ObjsTyped
      <3> QED
        BY <1>0, <1>1, <1>2, <3>1, <3>2 DEF Fill
    <2>3. CASE PushFailed(j)
      <3>1. obj[j] # o
        BY <1>1, <2>3 DEF PushFailed, Placed, Pushing
      <3> QED
        BY <1>0, <1>1, <2>3, <3>1 DEF PushFailed, Released, object
    <2>4. UNCHANGED attempt \/ (\E x \in Objs : Fill(j, x)) \/ PushFailed(j)
      BY <2>1 DEF Submit, Begin, TakeKey, RateRefuses, PushBare, Push, PushFails, object
    <2>5. attempt[o] \in Nat
      BY <1>0
    <2>6. CASE UNCHANGED attempt
      BY <1>1, <2>5, <2>6
    <2> QED
      BY <2>2, <2>3, <2>4, <2>6
  <1>4. CASE \E v \in Workers : Work(v)
    <2>1. PICK v \in Workers : Work(v)
      BY <1>4
    <2>2. CASE Releases(v)
      <3>1. wobj[v] # o
        <4>1. v # w /\ wpc[v] \in Active
          BY <2>2 DEF Releases, Active
        <4> QED
          BY <1>1, <4>1 DEF Placed, Handed
      <3> QED
        BY <1>0, <1>1, <2>2, <3>1 DEF Releases, Released, object
    <2>3. CASE Starts(v)
      BY <1>0, <1>1, <2>3 DEF Starts
    <2> QED
      BY <1>0, <1>1, <2>1, <2>2, <2>3 DEF Work, TakeBare, Take, BareRuns, DropCancelled, CancelUnindexes,
             CancelCompletes, Runs, Succeeds, SuccessUnindexes, SuccessCompletes, SuccessFreesKey,
             Fails, Retries, Postpones, Requeues, DeadLetter, DeathUnindexes, DeathAppends, DeathCompletes, DeathFreesKey, object
  <1>5. CASE ~((\E j \in Jobs : Submit(j)) \/ \E v \in Workers : Work(v))
    BY <1>0, <1>1, <1>5 DEF Next, Progress, ReplayTakes, ReplayPushes, Cancel, CancelStores, CancelContext,
           CancelFuture, CancelUnindex, FutureCancelled, CancelLoads, FutureCancel, MapWaits,
           MapReturns, vars, object
  <1> QED
    BY <1>3, <1>4, <1>5

\* The function of a job whose object waits does not return, and that of one in
\* hand returns to its worker.
LEMMA ReturnsKept ==
    ASSUME Settled, [Next]_vars, NEW o \in Objs, owner[o] # None, owner[o] \in returned' \ returned
    PROVE  \E w \in Workers : Runs(w) /\ wobj[w] = o
  <1>0. /\ owner \in [Objs -> Jobs \cup {None}] /\ HandsTyped /\ BareHeld /\ None \notin Objs
    BY Given DEF Settled, Typed, ObjsTyped
  <1>1. obj[owner[o]] = o
    BY DEF Settled, Placed, Owned
  <1>2. ASSUME NEW w \in Workers, BareRuns(w), wobj[w] = owner[o]
        PROVE  FALSE
    BY <1>0, <1>1, <1>2 DEF BareRuns, BareHeld
  <1>3. ASSUME NEW w \in Workers, Runs(w), Owner(w) = owner[o]
        PROVE  wobj[w] = o
    <2>1. wpc[w] \in Active
      BY <1>3 DEF Runs, Active
    <2> QED
      BY <1>0, <1>1, <1>3, <2>1 DEF Settled, HandsTyped, Placed, Handed, Owned, Owner
  <1> QED
    BY <1>2, <1>3, ReturnsChange

LEMMA StepsFirstRun ==
    ASSUME OneAttempt, Steady, [Next]_vars
    PROVE  FirstRun'
  <1> SUFFICES ASSUME replays' = 0
               PROVE  /\ \A o \in queued' : owner'[o] \in MapJobs => owner'[o] \notin returned'
                      /\ \A w \in Workers : wpc'[w] \in {"check", "run", "requeue"} /\ owner'[wobj'[w]] \in MapJobs =>
                              owner'[wobj'[w]] \notin returned'
                      /\ \A w \in Workers : wpc'[w] \in {"run", "fail", "failed"} => attempt'[wobj'[w]] >= 1
    BY DEF FirstRun, Owner
  <1>0. /\ replays = 0 /\ replay = {} /\ queued \subseteq Waiting /\ Waiting \subseteq Objs /\ Typed /\ Placed
        /\ Settled /\ HandsTyped /\ owner \in [Objs -> Jobs \cup {None}] /\ attempt \in [Objs -> Nat]
        /\ jpc \in [Jobs -> JobPlaces] /\ None \notin Jobs
        /\ FirstRun /\ Ran
    BY LettersStay, Given DEF Steady, Settled, Lettered, Waiting, Typed, JobsTyped, ObjsTyped
  <1>1. ASSUME NEW o \in queued, owner[o] \in MapJobs
        PROVE  owner'[o] = owner[o] /\ owner[o] \notin returned'
    <2>1. o \in Objs /\ owner[o] # None /\ owner'[o] = owner[o] /\ owner[o] \notin returned
      BY <1>0, <1>1, OwnersStay DEF Placed, Lined, FirstRun
    <2>2. \A w \in Workers : ~(Runs(w) /\ wobj[w] = o)
      BY <1>0 DEF Runs, Active, Placed, Handed
    <2> QED
      BY <1>0, <2>1, <2>2, ReturnsKept
  <1>2. ASSUME NEW o \in queued', owner'[o] \in MapJobs
        PROVE  owner'[o] \notin returned'
    <2>1. CASE o \in queued
      <3>1. owner'[o] = owner[o]
        BY <1>0, <2>1, OwnersStay
      <3> QED
        BY <1>1, <1>2, <2>1, <3>1
    <2>2. CASE o \notin queued
      <3>1. \/ \E j \in Jobs : Push(j) /\ o = obj[j]
            \/ \E w \in Workers : Requeues(w) /\ o = wobj[w]
        <4>1. CASE \E j \in Jobs : Submit(j)
          BY <1>2, <2>2, <4>1 DEF Submit, Begin, TakeKey, RateRefuses, PushBare, Fill, Push, PushFails, PushFailed
        <4>2. CASE \E w \in Workers : Work(w)
          BY <1>2, <2>2, <4>2 DEF Work, TakeBare, Take, BareRuns, DropCancelled, CancelUnindexes, CancelCompletes,
             Starts, Runs, Succeeds, SuccessUnindexes, SuccessCompletes, SuccessFreesKey, Releases,
             Fails, Retries, Postpones, Requeues, DeadLetter, DeathUnindexes, DeathAppends, DeathCompletes, DeathFreesKey
        <4>3. CASE ~((\E j \in Jobs : Submit(j)) \/ \E w \in Workers : Work(w))
          BY <1>0, <1>2, <2>2, <4>3 DEF Next, Progress, ReplayTakes, Cancel, CancelStores, CancelContext,
                 CancelFuture, CancelUnindex, FutureCancelled, CancelLoads, FutureCancel, MapWaits,
                 MapReturns, vars
        <4> QED
          BY <4>1, <4>2, <4>3
      <3>2. ASSUME NEW j \in Jobs, Push(j), o = obj[j]
            PROVE  owner'[o] \notin returned'
        <4>1. jpc[j] = "push" /\ owner[obj[j]] = j /\ UNCHANGED <<owner, returned>>
          BY <3>2 DEF Push, Settled, Steady, Placed, Pushing, object, history
        <4> QED
          BY <1>0, <3>2, <4>1 DEF Ran
      <3>3. ASSUME NEW w \in Workers, Requeues(w), o = wobj[w]
            PROVE  owner'[o] \notin returned'
        <4>1. wpc[w] = "requeue" /\ UNCHANGED <<owner, returned>>
          BY <3>3 DEF Requeues, object, history
        <4> QED
          BY <1>0, <1>2, <3>3, <4>1 DEF FirstRun, Owner
      <3> QED
        BY <3>1, <3>2, <3>3
    <2> QED
      BY <2>1, <2>2
  <1>3. ASSUME NEW w \in Workers, wpc'[w] \in {"check", "run", "requeue"}, owner'[wobj'[w]] \in MapJobs
        PROVE  owner'[wobj'[w]] \notin returned'
    <2>1. wpc'[w] \in Active
      BY <1>3 DEF Active
    <2>2. CASE \E o \in queued : Take(w, o) /\ wobj'[w] = o /\ owner'[o] = owner[o]
      BY <1>1, <1>3, <2>2
    <2>3. CASE wpc[w] \in Active /\ wobj'[w] = wobj[w] /\ owner'[wobj[w]] = owner[wobj[w]]
      \* An item's first attempt is its last.
      <3>0. ~Retries(w)
        <4>1. SUFFICES ASSUME Retries(w) PROVE FALSE
          OBVIOUS
        <4>2. wpc[w] = "failed" /\ wobj[w] \in Objs /\ attempt[wobj[w]] < Opt(Owner(w)).attempts
          BY <1>0, <2>3, <4>1 DEF Retries, HandsTyped
        <4>3. attempt[wobj[w]] \in Nat /\ attempt[wobj[w]] >= 1
          BY <1>0, <4>2 DEF FirstRun
        <4>4. PICK j \in MapJobs : j = Owner(w)
          BY <1>3, <2>3 DEF Owner
        <4>5. Opt(j).attempts = 1
          BY OneAttempt DEF OneAttempt, Opt, Steady
        <4> QED
          BY <4>2, <4>3, <4>4, <4>5
      <3>1. wpc[w] \in {"check", "run", "requeue"} /\ ~Runs(w)
        <4>1. CASE Work(w)
          BY <3>0, <1>0, <1>3, <2>3, <4>1 DEF Work, TakeBare, Take, BareRuns, DropCancelled, CancelUnindexes, CancelCompletes,
             Starts, Runs, Succeeds, SuccessUnindexes, SuccessCompletes, SuccessFreesKey, Releases,
             Fails, Retries, Postpones, Requeues, DeadLetter, DeathUnindexes, DeathAppends, DeathCompletes, DeathFreesKey, Goto, LetGo,
             HandsTyped, Active
        <4>2. CASE wpc'[w] = wpc[w]
          BY <1>0, <1>3, <4>2 DEF Runs, Goto, HandsTyped
        <4> QED
          BY <1>0, <4>1, <4>2, WorkersMove
      <3>2. PICK o \in Objs : o = wobj[w]
        BY <1>0, <2>3 DEF HandsTyped
      <3>3. owner[o] # None /\ owner[o] \notin returned
        BY <1>0, <1>3, <2>3, <3>1, <3>2 DEF FirstRun, Placed, Handed, Owner
      <3>4. \A v \in Workers : ~(Runs(v) /\ wobj[v] = o)
        <4>1. \A v \in Workers : Runs(v) => wpc[v] \in Active
          BY DEF Runs, Active
        <4> QED
          BY <1>0, <2>3, <3>1, <3>2, <4>1 DEF Placed, Handed
      <3> QED
        BY <1>0, <2>3, <3>2, <3>3, <3>4, ReturnsKept
    <2> QED
      BY <1>0, <2>1, <2>2, <2>3, ActiveFrom
  <1>4. ASSUME NEW w \in Workers, wpc'[w] \in {"run", "fail", "failed"}
        PROVE  attempt'[wobj'[w]] >= 1
    <2>1. CASE wpc'[w] = wpc[w] /\ wobj'[w] = wobj[w]
      <3>1. wpc[w] \in Active /\ ~Releases(w) /\ wobj[w] \in Objs
        BY <1>0, <1>4, <2>1 DEF Active, Releases, HandsTyped
      <3>2. attempt'[wobj[w]] >= attempt[wobj[w]] /\ attempt[wobj[w]] >= 1
        BY <1>0, <1>4, <2>1, <3>1, AttemptsGrow DEF FirstRun
      <3>3. attempt'[wobj[w]] \in Nat /\ attempt[wobj[w]] \in Nat
        BY <1>0, <3>1, StepsTyped DEF Typed, ObjsTyped
      <3> QED
        BY <2>1, <3>2, <3>3
    <2>2. CASE Starts(w)
      <3>1. wobj[w] \in Objs
        BY <1>0, <2>2 DEF Starts, HandsTyped, Active
      <3> QED
        BY <1>0, <2>2, <3>1 DEF Starts, Goto
    <2>3. CASE Runs(w)
      BY <1>0, <2>3 DEF Runs, Goto, FirstRun, object
    <2>5. CASE Fails(w)
      BY <1>0, <2>5 DEF Fails, Goto, FirstRun
    <2>4. CASE Work(w) /\ ~Starts(w) /\ ~Runs(w) /\ ~Fails(w)
      BY <1>0, <1>4, <2>4 DEF Work, TakeBare, Take, BareRuns, DropCancelled, CancelUnindexes, CancelCompletes,
             Succeeds, SuccessUnindexes, SuccessCompletes, SuccessFreesKey, Releases,
             Fails, Retries, Postpones, Requeues, DeadLetter, DeathUnindexes, DeathAppends, DeathCompletes, DeathFreesKey, Goto, LetGo,
             HandsTyped
    <2> QED
      BY <1>0, <2>1, <2>2, <2>3, <2>4, <2>5, WorkersMove
  <1> QED
    BY <1>2, <1>3, <1>4

\* wg's counter, item by item.
LEMMA CountStep ==
    ASSUME pending = Cardinality(Counted), NEW j \in Jobs,
           \A k \in MapJobs \ {j} : In(k)' <=> In(k),
           \/ j \notin MapJobs /\ pending' = pending
           \/ (In(j)' <=> In(j)) /\ pending' = pending
           \/ j \in MapJobs /\ In(j)' /\ ~In(j) /\ pending' = pending + 1
           \/ j \in MapJobs /\ ~In(j)' /\ In(j) /\ pending' = pending - 1
    PROVE  pending' = Cardinality(Counted')
  <1>0. IsFiniteSet(Counted) /\ Cardinality(Counted) \in Nat
    BY Given, FS_Subset, FS_CardinalityType DEF Counted
  <1>1. CASE (j \notin MapJobs \/ (In(j)' <=> In(j))) /\ pending' = pending
    <2>1. \A k \in MapJobs : In(k)' <=> In(k)
      BY <1>1
    <2>2. Counted' = Counted
      BY <2>1 DEF Counted, In, Refused
    <2> QED
      BY <1>1, <2>2
  <1>2. CASE j \in MapJobs /\ In(j)' /\ ~In(j) /\ pending' = pending + 1
    <2>1. Counted' = Counted \cup {j} /\ j \notin Counted
      BY <1>2 DEF Counted, In, Refused
    <2> QED
      BY <1>0, <1>2, <2>1, FS_AddElement
  <1>3. CASE j \in MapJobs /\ ~In(j)' /\ In(j) /\ pending' = pending - 1
    <2>1. Counted' = Counted \ {j} /\ j \in Counted
      BY <1>3 DEF Counted, In, Refused
    <2> QED
      BY <1>0, <1>3, <2>1, FS_RemoveElement
  <1> QED
    BY <1>1, <1>2, <1>3

LEMMA StepsCounting ==
    ASSUME Steady, Counting, [Next]_vars
    PROVE  Counting'
  <1> SUFFICES ASSUME replays' = 0 PROVE pending' = Cardinality(Counted')
    BY DEF Counting, Counted, In, Refused
  <1>0. /\ pending = Cardinality(Counted) /\ replays = 0 /\ jpc \in [Jobs -> JobPlaces] /\ HandsTyped
        /\ Typed /\ MapJobs \subseteq Jobs
    BY LettersStay, Given DEF Steady, Settled, Counting, Typed, JobsTyped
  <1>1. ASSUME UNCHANGED <<jpc, returned, pending>>
        PROVE  pending' = Cardinality(Counted')
    BY <1>0, <1>1 DEF Counted, In, Refused
  <1>2. ASSUME NEW j \in Jobs, Submit(j)
        PROVE  pending' = Cardinality(Counted')
    <2>1. returned' = returned /\ \A k \in Jobs \ {j} : jpc'[k] = jpc[k]
      BY <1>0, <1>2 DEF Submit, Begin, TakeKey, RateRefuses, PushBare, Fill, Push, PushFails, PushFailed,
             At, Refuse, history
    <2>2. \A k \in MapJobs \ {j} : In(k)' <=> In(k)
      BY <1>0, <2>1 DEF In, Refused
    <2>3. CASE Begin(j)
      <3>1. ~In(j) /\ In(j)' /\ Add(j)
        BY <1>0, <2>3 DEF Begin, In, Refused, At
      <3> QED
        BY <1>0, <2>2, <3>1, CountStep DEF Add
    <2>4. ASSUME jpc[j] \in {"bare", "key", "rate", "push", "failing"}, j \notin returned,
                 jpc'[j] \in {"bare", "key", "rate", "push", "failing", "accepted"}, UNCHANGED pending
          PROVE  pending' = Cardinality(Counted')
      <3>1. In(j) /\ In(j)'
        BY <2>1, <2>4 DEF In
      <3> QED
        BY <1>0, <2>2, <2>4, <3>1, CountStep
    <2>5. ASSUME jpc[j] \in {"bare", "key", "rate", "push", "failing"}, NEW how \in {"refused", "duplicate"},
                 Refuse(j, how)
          PROVE  pending' = Cardinality(Counted')
      <3>1. In(j) /\ jpc'[j] = how
        BY <1>0, <2>5 DEF In, Refuse, At
      <3>2. CASE j \in MapJobs /\ DoneOnRefusal
        <4>1. ~In(j)' /\ pending' = pending - 1
          BY <2>5, <3>1, <3>2 DEF In, Refused, Refuse
        <4> QED
          BY <1>0, <2>2, <3>1, <3>2, <4>1, CountStep
      <3>3. CASE ~(j \in MapJobs /\ DoneOnRefusal)
        <4>1. pending' = pending /\ (j \in MapJobs => In(j)')
          BY <2>5, <3>1, <3>3 DEF In, Refused, Refuse
        <4> QED
          BY <1>0, <2>2, <3>1, <4>1, CountStep
      <3> QED
        BY <3>2, <3>3
    <2>6. jpc[j] # "accepted" => j \notin returned
      BY DEF Steady, Ran
    <2>7. CASE PushBare(j) \/ TakeKey(j) \/ RateRefuses(j) \/ PushFailed(j)
      BY <1>0, <2>4, <2>5, <2>6, <2>7 DEF PushBare, TakeKey, RateRefuses, PushFailed, At
    <2>8. CASE (\E o \in Objs : Fill(j, o)) \/ Push(j) \/ PushFails(j)
      BY <1>0, <2>4, <2>6, <2>8 DEF Fill, Push, PushFails, At, batch
    <2> QED
      BY <1>2, <2>3, <2>7, <2>8 DEF Submit
  <1>3. ASSUME NEW w \in Workers, NEW j \in Jobs, BareRuns(w) \/ Runs(w), jpc[j] = "accepted",
               j = (IF BareRuns(w) THEN wobj[w] ELSE Owner(w)),
               j \in MapJobs => j \notin returned
        PROVE  pending' = Cardinality(Counted')
    <2>1. /\ jpc' = jpc /\ returned' = returned \cup {j}
          /\ pending' = IF j \in MapJobs THEN pending - 1 ELSE pending
      BY <1>3 DEF BareRuns, Runs, Done, submission
    <2>2. \A k \in MapJobs \ {j} : In(k)' <=> In(k)
      BY <2>1 DEF In, Refused
    <2>3. j \in MapJobs => In(j) /\ ~In(j)'
      BY <1>3, <2>1 DEF In, Refused
    <2> QED
      BY <1>0, <2>1, <2>2, <2>3, CountStep
  <1>4. ASSUME NEW w \in Workers, Work(w)
        PROVE  pending' = Cardinality(Counted')
    <2>1. CASE BareRuns(w)
      <3>1. wobj[w] \in Jobs /\ jpc[wobj[w]] = "accepted" /\ wobj[w] \notin returned
        BY <1>0, <2>1 DEF BareRuns, HandsTyped, Steady, Settled, BareHeld, BareOnce
      <3>2. PICK j \in Jobs : j = wobj[w]
        BY <3>1
      <3> QED
        BY <1>3, <2>1, <3>1, <3>2
    <2>2. CASE Runs(w) /\ ~BareRuns(w)
      <3>1. wpc[w] = "run" /\ wpc[w] \in Active
        BY <2>2 DEF Runs, Active
      <3>2. Owner(w) \in Jobs /\ jpc[Owner(w)] = "accepted"
        BY <1>0, <3>1 DEF HandsTyped, Steady, Settled, Accepted, Placed, Handed, Typed, ObjsTyped, Owner
      <3>3. Owner(w) \in MapJobs => Owner(w) \notin returned
        BY <1>0, <3>1 DEF Steady, FirstRun
      <3>4. PICK j \in Jobs : j = Owner(w)
        BY <3>2
      <3> QED
        BY <1>3, <2>2, <3>2, <3>3, <3>4
    <2>3. CASE ~BareRuns(w) /\ ~Runs(w)
      <3>1. UNCHANGED <<jpc, returned, pending>>
        BY <1>4, <2>3 DEF Work, TakeBare, Take, DropCancelled, CancelUnindexes, CancelCompletes,
             Starts, Succeeds, SuccessUnindexes, SuccessCompletes, SuccessFreesKey, Releases,
             Fails, Retries, Postpones, Requeues, DeadLetter, DeathUnindexes, DeathAppends, DeathCompletes, DeathFreesKey,
             submission, history, batch
      <3> QED
        BY <1>1, <3>1
    <2> QED
      BY <2>1, <2>2, <2>3
  <1>5. CASE ~((\E j \in Jobs : Submit(j)) \/ \E w \in Workers : Work(w))
    <2>1. UNCHANGED <<jpc, returned, pending>>
      BY <1>5 DEF Next, Progress, ReplayTakes, ReplayPushes, Cancel, CancelStores, CancelContext,
           CancelFuture, CancelUnindex, FutureCancelled, CancelLoads, FutureCancel, MapWaits,
           MapReturns, vars, submission, history, batch
    <2> QED
      BY <1>1, <2>1
  <1> QED
    BY <1>2, <1>4, <1>5

LEMMA StepsGathering ==
    ASSUME Steady, Counting, Gathering, [Next]_vars
    PROVE  Gathering'
  <1>0. /\ replays' = 0 => replays = 0
        /\ MapJobs \subseteq Jobs /\ IsFiniteSet(MapJobs)
        /\ returned \subseteq returned'
        /\ \A j \in Jobs : jpc[j] \in {"accepted", "absent", "refused", "duplicate"} => jpc'[j] = jpc[j]
    BY LettersStay, JobsMove, ReturnsChange, Given DEF Steady, Settled
  <1>1. UNCHANGED mpc \/ MapWaits \/ MapReturns
    <2>1. CASE \E j \in Jobs : Submit(j)
      BY <2>1 DEF Submit, Begin, TakeKey, RateRefuses, PushBare, Fill, Push, PushFails, PushFailed, batch
    <2>2. CASE \E w \in Workers : Work(w)
      BY <2>2 DEF Work, TakeBare, Take, BareRuns, DropCancelled, CancelUnindexes, CancelCompletes,
             Starts, Runs, Succeeds, SuccessUnindexes, SuccessCompletes, SuccessFreesKey, Releases,
             Fails, Retries, Postpones, Requeues, DeadLetter, DeathUnindexes, DeathAppends, DeathCompletes, DeathFreesKey, batch
    <2>3. CASE ~((\E j \in Jobs : Submit(j)) \/ \E w \in Workers : Work(w))
      BY <2>3 DEF Next, Progress, ReplayTakes, ReplayPushes, Cancel, CancelStores, CancelContext,
             CancelFuture, CancelUnindex, FutureCancelled, CancelLoads, FutureCancel, vars, batch
    <2> QED
      BY <2>1, <2>2, <2>3
  <1>2. CASE UNCHANGED mpc
    BY <1>0, <1>2 DEF Gathering, MapComplete, Over, Refused
  <1>3. CASE MapWaits
    BY <1>3 DEF MapWaits, submission, Gathering, MapComplete, Over, Refused
  <1>4. CASE MapReturns
    <2>1. mpc = "waiting" /\ pending = 0 /\ mpc' = "returned" /\ UNCHANGED <<jpc, returned>>
      BY <1>4 DEF MapReturns, submission, history
    <2>2. ASSUME replays = 0, NEW j \in MapJobs
          PROVE  jpc[j] = "absent" \/ Refused(j) \/ j \in returned
      <3>1. Cardinality(Counted) = 0 /\ IsFiniteSet(Counted)
        BY <1>0, <2>1, <2>2, FS_Subset DEF Counting, Counted
      <3>2. j \notin Counted
        BY <3>1, FS_EmptySet
      <3> QED
        BY <2>1, <2>2, <3>2 DEF Counted, In, Gathering, Over
    <2> QED
      BY <1>0, <2>1, <2>2 DEF Gathering, MapComplete, Refused
  <1> QED
    BY <1>1, <1>2, <1>3, <1>4

LEMMA StepsSteady ==
    ASSUME OneAttempt, Steady, [Next]_vars
    PROVE  Steady'
  <1>1. UNCHANGED cfg
    BY Frame DEF Steady, Settled
  <1>2. FirstRun'
    BY OneAttempt, StepsFirstRun
  <1> QED
    BY <1>1, <1>2, StepsSettled, StepsRan, StepsBareOnce DEF Steady

LEMMA StartsSteady ==
    ASSUME Init PROVE Steady /\ Counting /\ Gathering
  <1>1. /\ returned = {} /\ bare = {} /\ queued = {} /\ cfg \in Configs /\ pending = 0
        /\ \A w \in Workers : wpc[w] = "idle"
        /\ \A j \in Jobs : jpc[j] \in {"new", "absent"}
    BY DEF Init
  <1>2. Ran /\ BareOnce /\ FirstRun
    BY <1>1 DEF Ran, BareOnce, FirstRun
  <1>3. Counted = {}
    BY <1>1, Given DEF Counted, In, Refused
  <1>4. Counting
    BY <1>1, <1>3, FS_EmptySet DEF Counting
  <1>5. Gathering
    <2>1. PICK load \in Loads : /\ jpc = [j \in Jobs |-> IF j \in load THEN "new" ELSE "absent"]
                                /\ mpc = IF load \cap MapJobs = {} THEN "returned" ELSE "submitting"
      BY DEF Init
    <2> QED
      BY <2>1, Given DEF Gathering, MapComplete
  <1> QED
    BY <1>1, <1>2, <1>4, <1>5, StartsSettled DEF Steady

\* Map returns by its counter only when every item was refused or its function
\* has returned, so that nobody writes to the result any more: for items of one
\* attempt, until the first replay (batch.go Map and Group, pool.go execute).
THEOREM MapGathers ==
    ASSUME OneAttempt
    PROVE  Spec => [](replays = 0 => MapComplete)
  <1> DEFINE Inv == Steady /\ Counting /\ Gathering
  <1>1. Init => Inv
    BY StartsSteady
  <1>2. Inv /\ [Next]_vars => Inv'
    BY OneAttempt, StepsSteady, StepsCounting, StepsGathering
  <1>3. Inv => (replays = 0 => MapComplete)
    BY DEF Gathering
  <1> QED
    BY <1>1, <1>2, <1>3, PTL DEF Spec

\* Every variable keeps its type, and wg's counter is between 0 and the number
\* of items: for items of one attempt, until the first replay.
THEOREM ExecutionTypes ==
    ASSUME OneAttempt
    PROVE  Spec => [](replays = 0 => TypeOK)
  <1> DEFINE Inv == Steady /\ Counting
  <1>1. Init => Inv
    BY StartsSteady
  <1>2. Inv /\ [Next]_vars => Inv'
    BY OneAttempt, StepsSteady, StepsCounting
  <1>3. Inv => (replays = 0 => TypeOK)
    <2> SUFFICES ASSUME Inv, replays = 0 PROVE TypeOK
      OBVIOUS
    <2>1. pending \in 0..Cardinality(MapJobs)
      <3>1. Counted \subseteq MapJobs
        BY DEF Counted
      <3>2. /\ Cardinality(Counted) <= Cardinality(MapJobs)
            /\ Cardinality(Counted) \in Nat /\ Cardinality(MapJobs) \in Nat
        BY <3>1, Given, FS_Subset, FS_CardinalityType
      <3> QED
        BY <3>2 DEF Counting
    <2> QED
      BY <2>1 DEF Steady, Settled, Typed, JobsTyped, ObjsTyped, HandsTyped, JobPlaces, Words, TypeOK
  <1> QED
    BY <1>1, <1>2, <1>3, PTL DEF Spec
=============================================================================
