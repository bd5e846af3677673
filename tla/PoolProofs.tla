----------------------------- MODULE PoolProofs -----------------------------
(***************************************************************************)
(* Theorems about Pool for every set of jobs, workers and stoppers, every  *)
(* configuration and every number of replays: where a job is and how it    *)
(* ends, what bounds the attempts, the queues and the workers, and what    *)
(* holds while the pool is paused and once it has been shut down.          *)
(***************************************************************************)
EXTENDS PoolPause, FiniteSetTheorems, TLAPS
-----------------------------------------------------------------------------
(* Lists without repetitions. *)

\* Appending a new element to a list without repetitions.
LEMMA AppendToList ==
    ASSUME NEW S, NEW q \in Seq(S), NEW x \in S, IsInjective(q), x \notin Range(q)
    PROVE  /\ Append(q, x) \in Seq(S)
           /\ IsInjective(Append(q, x))
           /\ Range(Append(q, x)) = Range(q) \cup {x}
  <1> DEFINE r == Append(q, x)
  <1>1. /\ r \in Seq(S) /\ Len(r) = Len(q) + 1 /\ Len(q) \in Nat
        /\ \A i \in 1..Len(q) : r[i] = q[i]
        /\ r[Len(q) + 1] = x
        /\ DOMAIN r = 1..Len(q) + 1 /\ DOMAIN q = 1..Len(q)
    OBVIOUS
  <1> HIDE DEF r
  <1>2. \A i \in 1..Len(q) : q[i] # x
    BY <1>1 DEF Range
  <1>3. IsInjective(r)
    BY <1>1, <1>2 DEF IsInjective
  <1>4. Range(r) = Range(q) \cup {x}
    BY <1>1 DEF Range
  <1> QED
    BY <1>1, <1>3, <1>4 DEF r

\* Taking the head off a list without repetitions.
LEMMA TailOfList ==
    ASSUME NEW S, NEW q \in Seq(S), q # <<>>, IsInjective(q)
    PROVE  /\ Tail(q) \in Seq(S)
           /\ IsInjective(Tail(q))
           /\ Head(q) \in S
           /\ Head(q) \in Range(q)
           /\ Range(Tail(q)) = Range(q) \ {Head(q)}
  <1> DEFINE r == Tail(q)
  <1>1. /\ r \in Seq(S) /\ Len(r) = Len(q) - 1 /\ Len(q) \in Nat \ {0}
        /\ \A i \in 1..Len(q) - 1 : r[i] = q[i + 1]
        /\ DOMAIN r = 1..Len(q) - 1 /\ DOMAIN q = 1..Len(q)
        /\ Head(q) = q[1]
    OBVIOUS
  <1> HIDE DEF r
  <1>2. IsInjective(r)
    <2>1. ASSUME NEW a \in 1..Len(q) - 1, NEW b \in 1..Len(q) - 1, r[a] = r[b]
          PROVE  a = b
      <3>1. a + 1 \in 1..Len(q) /\ b + 1 \in 1..Len(q) /\ q[a + 1] = q[b + 1]
        BY <1>1, <2>1
      <3>2. a + 1 = b + 1
        BY <1>1, <3>1 DEF IsInjective
      <3> QED
        BY <3>2
    <2> QED
      BY <1>1, <2>1 DEF IsInjective
  <1>3. Head(q) \in S /\ Head(q) \in Range(q)
    BY <1>1 DEF Range
  <1>4. Range(r) \subseteq Range(q) \ {Head(q)}
    <2>1. ASSUME NEW i \in 1..Len(q) - 1
          PROVE  r[i] \in Range(q) /\ r[i] # Head(q)
      BY <1>1 DEF Range, IsInjective
    <2> QED
      BY <1>1, <2>1 DEF Range
  <1>5. Range(q) \ {Head(q)} \subseteq Range(r)
    <2>1. ASSUME NEW i \in 1..Len(q), q[i] # q[1]
          PROVE  q[i] \in Range(r)
      <3>1. i - 1 \in 1..Len(q) - 1 /\ r[i - 1] = q[i]
        BY <1>1, <2>1
      <3> QED
        BY <1>1, <3>1 DEF Range
    <2> QED
      BY <1>1, <2>1 DEF Range
  <1> QED
    BY <1>1, <1>2, <1>3, <1>4, <1>5 DEF r

\* The empty list.
LEMMA EmptyList ==
    ASSUME NEW S
    PROVE  <<>> \in Seq(S) /\ IsInjective(<<>>) /\ Range(<<>>) = {}
  BY DEF IsInjective, Range

-----------------------------------------------------------------------------
\* Steps that touch neither a queue nor a job nor a worker.
LEMMA PlaceIdle ==
    ASSUME OnePlace, UNCHANGED <<queues, letters, job, workers>>
    PROVE  OnePlace'
  BY DEF OnePlace, Listed, Lists, InHands, queues, letters, workers

\* Steps that move a worker in its loop, with or without a job in its hands.
LEMMA PlaceGoto ==
    ASSUME TypeOK, OnePlace, NEW w \in Workers, NEW pc,
           wpc' = [wpc EXCEPT ![w] = pc], wjob' = wjob,
           wpc[w] \in Holding <=> pc \in Holding,
           UNCHANGED <<queues, letters, job>>
    PROVE  OnePlace'
  <1>1. Listed'
    BY DEF OnePlace, Listed, Lists, queues, letters
  <1>2. InHands'
    BY DEF OnePlace, InHands, TypeOK
  <1> QED
    BY <1>1, <1>2 DEF OnePlace

\* Steps that move a job which no worker holds, before or after.
LEMMA HandsKept ==
    ASSUME TypeOK, InHands, UNCHANGED workers,
           \A j \in Jobs : job'[j] = "worker" <=> job[j] = "worker"
    PROVE  InHands'
  <1>1. \A w \in Workers : wjob[w] # NoJob => job'[wjob[w]] = "worker"
    BY DEF InHands, TypeOK
  <1> QED
    BY <1>1 DEF InHands, workers

\* Submissions keep every job in one place: a push moves a job that is in no
\* place yet to exactly one queue.
LEMMA PlaceSubmit ==
    ASSUME TypeOK, OnePlace, NEW j \in Jobs,
           SubmitCheck(j) \/ Submit(j) \/ Elapse(j) \/ CancelJob(j)
    PROVE  OnePlace'
  <1> USE DEF OnePlace
  <1>1. CASE SubmitCheck(j) \/ PushMisses(j) \/ TryAgain(j) \/ Reject(j)
    <2>1. /\ UNCHANGED <<queues, letters, workers>>
          /\ job[j] \in {"new", "pushing", "missed"}
          /\ \E to \in {"pushing", "missed", "rejected"} : Place(j, to)
      BY <1>1 DEF SubmitCheck, PushMisses, TryAgain, Reject
    <2>2. Listed'
      BY <2>1 DEF Listed, Lists, Place, TypeOK, queues, letters
    <2>3. InHands'
      BY <2>1, HandsKept DEF Place, TypeOK
    <2> QED
      BY <2>2, <2>3
  <1>2. CASE PushBasic(j)
    <2>1. j \notin Range(basicq)
      BY <1>2 DEF PushBasic, Listed, Lists
    <2>2. IsInjective(basicq') /\ Range(basicq') = Range(basicq) \cup {j}
      BY <1>2, <2>1, AppendToList DEF PushBasic, Listed, Lists, TypeOK
    <2>3. Listed'
      BY <1>2, <2>2 DEF PushBasic, Place, Listed, Lists, TypeOK, letters
    <2>4. InHands'
      BY <1>2, HandsKept DEF PushBasic, Place, TypeOK
    <2> QED
      BY <2>3, <2>4
  <1>3. CASE PushFast(j)
    <2>1. j \notin Range(fastq)
      BY <1>3 DEF PushFast, Listed, Lists
    <2>2. IsInjective(fastq') /\ Range(fastq') = Range(fastq) \cup {j}
      BY <1>3, <2>1, AppendToList DEF PushFast, Listed, Lists, TypeOK
    <2>3. Listed'
      BY <1>3, <2>2 DEF PushFast, Place, Listed, Lists, TypeOK, letters
    <2>4. InHands'
      BY <1>3, HandsKept DEF PushFast, Place, TypeOK
    <2> QED
      BY <2>3, <2>4
  <1>4. CASE SpillOver(j)
    <2>1. j \notin Range(spill)
      BY <1>4 DEF SpillOver, Listed, Lists
    <2>2. IsInjective(spill') /\ Range(spill') = Range(spill) \cup {j}
      BY <1>4, <2>1, AppendToList DEF SpillOver, Listed, Lists, TypeOK
    <2>3. Listed'
      BY <1>4, <2>2 DEF SpillOver, Place, Listed, Lists, TypeOK, letters
    <2>4. InHands'
      BY <1>4, HandsKept DEF SpillOver, Place, TypeOK
    <2> QED
      BY <2>3, <2>4
  <1>5. CASE PushHeap(j)
    <2>1. Listed'
      BY <1>5 DEF PushHeap, Place, Listed, Lists, TypeOK, letters
    <2>2. InHands'
      BY <1>5, HandsKept DEF PushHeap, Place, TypeOK
    <2> QED
      BY <2>1, <2>2
  <1>6. ASSUME NEW victim \in heap, DropFront(j, victim)
        PROVE  OnePlace'
    <2>1. victim \in Jobs /\ victim # j /\ job[victim] = "heap" /\ job[j] = "pushing"
      BY <1>6 DEF DropFront, Listed
    <2>2. Listed'
      <3>1. /\ heap' = (heap \ {victim}) \cup {j} /\ delayed' = (delayed \ {victim}) \cup {j}
            /\ UNCHANGED <<basicq, fastq, spill, dlq, replay, replaypc>>
        BY <1>6 DEF DropFront, letters
      <3>2. \A k \in Jobs : job'[k] = IF k = victim THEN "dropped" ELSE IF k = j THEN "heap" ELSE job[k]
        BY <1>6, <2>1 DEF DropFront, TypeOK
      <3>3. /\ Lists(basicq, "basicq")' /\ Lists(fastq, "fastq")' /\ Lists(spill, "spill")'
            /\ Lists(dlq, "dead")' /\ Lists(replay, "replay")'
        BY <2>1, <3>1, <3>2 DEF Listed, Lists
      <3> QED
        BY <2>1, <3>1, <3>2, <3>3 DEF Listed
    <2>3. InHands'
      BY <1>6, <2>1, HandsKept DEF DropFront, TypeOK
    <2> QED
      BY <2>2, <2>3
  <1>7. CASE Elapse(j)
    <2>1. Listed'
      BY <1>7 DEF Elapse, Listed, Lists, letters
    <2>2. InHands'
      BY <1>7, HandsKept DEF Elapse
    <2> QED
      BY <2>1, <2>2
  <1>8. CASE CancelJob(j)
    BY <1>8, PlaceIdle DEF CancelJob
  <1> QED
    BY <1>1, <1>2, <1>3, <1>4, <1>5, <1>6, <1>7, <1>8 DEF Submit

\* Polls keep every job in one place: what a worker takes has left its queue.
LEMMA PlaceTake ==
    ASSUME TypeOK, OnePlace, NEW w \in Workers,
           PollBasic(w) \/ PollFast(w) \/ PollSpill(w) \/ PollHeap(w)
    PROVE  OnePlace'
  <1> USE DEF OnePlace
  <1>1. wpc[w] \notin Holding /\ wjob[w] = NoJob
    BY DEF PollBasic, PollFast, PollSpill, PollHeap, Polling, Polls, Holding, InHands
  <1>2. ASSUME NEW j \in Jobs, Take(w, j), job[j] \in Waiting
        PROVE  InHands'
    <2>1. job[j] # "worker" /\ j # NoJob
      BY <1>2, JobsAssumption DEF Waiting, JobsAssumption
    <2>2. \A v \in Workers : wjob[v] # j
      BY <2>1 DEF InHands
    <2>3. /\ wpc' = [wpc EXCEPT ![w] = "got"]
          /\ wjob' = [wjob EXCEPT ![w] = j]
          /\ job' = [job EXCEPT ![j] = "worker"]
      BY <1>2 DEF Take, Place
    <2>4. \A v \in Workers : wjob'[v] # NoJob <=> wpc'[v] \in Holding
      BY <1>1, <2>1, <2>3 DEF InHands, TypeOK, Holding
    <2>5. \A v \in Workers : wjob'[v] # NoJob => job'[wjob'[v]] = "worker"
      BY <2>1, <2>2, <2>3 DEF InHands, TypeOK
    <2>6. \A k \in Jobs : job'[k] = "worker" => \E v \in Workers : wjob'[v] = k
      <3>1. \A k \in Jobs : k # j /\ job[k] = "worker"
                              => \E v \in Workers : v # w /\ wjob[v] = k
        BY <1>1, JobsAssumption DEF InHands, JobsAssumption
      <3> QED
        BY <2>3, <3>1 DEF TypeOK
    <2>7. \A u, v \in Workers : wjob'[u] = wjob'[v] /\ wjob'[u] # NoJob => u = v
      BY <2>2, <2>3 DEF InHands, TypeOK
    <2> QED
      BY <2>4, <2>5, <2>6, <2>7 DEF InHands
  <1>3. CASE PollBasic(w)
    <2>1. /\ Head(basicq) \in Jobs /\ Head(basicq) \in Range(basicq)
          /\ IsInjective(basicq') /\ Range(basicq') = Range(basicq) \ {Head(basicq)}
      BY <1>3, TailOfList DEF PollBasic, Listed, Lists, TypeOK
    <2>2. job[Head(basicq)] = "basicq"
      BY <2>1 DEF Listed, Lists
    <2>3. Listed'
      BY <1>3, <2>1, <2>2 DEF PollBasic, Take, Place, Listed, Lists, TypeOK, letters
    <2>4. InHands'
      BY <1>2, <1>3, <2>1, <2>2 DEF PollBasic, Waiting
    <2> QED
      BY <2>3, <2>4
  <1>4. CASE PollFast(w)
    <2>1. /\ Head(fastq) \in Jobs /\ Head(fastq) \in Range(fastq)
          /\ IsInjective(fastq') /\ Range(fastq') = Range(fastq) \ {Head(fastq)}
      BY <1>4, TailOfList DEF PollFast, Listed, Lists, TypeOK
    <2>2. job[Head(fastq)] = "fastq"
      BY <2>1 DEF Listed, Lists
    <2>3. Listed'
      BY <1>4, <2>1, <2>2 DEF PollFast, Take, Place, Listed, Lists, TypeOK, letters
    <2>4. InHands'
      BY <1>2, <1>4, <2>1, <2>2 DEF PollFast, Waiting
    <2> QED
      BY <2>3, <2>4
  <1>5. CASE PollSpill(w)
    <2>1. /\ Head(spill) \in Jobs /\ Head(spill) \in Range(spill)
          /\ IsInjective(spill') /\ Range(spill') = Range(spill) \ {Head(spill)}
      BY <1>5, TailOfList DEF PollSpill, Listed, Lists, TypeOK
    <2>2. job[Head(spill)] = "spill"
      BY <2>1 DEF Listed, Lists
    <2>3. Listed'
      BY <1>5, <2>1, <2>2 DEF PollSpill, Take, Place, Listed, Lists, TypeOK, letters
    <2>4. InHands'
      BY <1>2, <1>5, <2>1, <2>2 DEF PollSpill, Waiting
    <2> QED
      BY <2>3, <2>4
  <1>6. CASE PollHeap(w)
    <2>1. PICK j \in heap \ delayed : heap' = heap \ {j} /\ Take(w, j)
      BY <1>6 DEF PollHeap
    <2>2. j \in Jobs /\ job[j] = "heap"
      BY DEF Listed
    <2>3. Listed'
      BY <1>6, <2>1, <2>2 DEF PollHeap, Take, Place, Listed, Lists, TypeOK, letters
    <2>4. InHands'
      BY <1>2, <2>1, <2>2 DEF Waiting
    <2> QED
      BY <2>3, <2>4
  <1> QED
    BY <1>3, <1>4, <1>5, <1>6

\* The rest of a worker's loop moves no job.
LEMMA PlaceLoop ==
    ASSUME TypeOK, OnePlace, NEW w \in Workers,
           \/ WorkerTop(w) \/ WorkerGate(w) \/ WorkerPaused(w) \/ PollMisses(w)
           \/ WorkerExitCheck(w) \/ WorkerReap(w) \/ WorkerSelect(w) \/ WorkerLeaves(w)
           \/ Postpone(w) \/ Begin(w) \/ FailRetry(w)
           \/ RequeueMisses(w) \/ RequeueAgain(w)
    PROVE  OnePlace'
  <1>1. CASE WorkerTop(w)
    BY <1>1, PlaceGoto, Zenon DEF WorkerTop, Goto, Holding
  <1>2. CASE WorkerGate(w)
    BY <1>2, PlaceGoto DEF WorkerGate, Goto, Holding
  <1>3. CASE WorkerPaused(w)
    BY <1>3, PlaceGoto DEF WorkerPaused, Goto, Holding
  <1>4. CASE PollMisses(w)
    <2>1. wpc[w] \in DOMAIN Polls /\ wpc[w] \notin Holding /\ AfterMiss[wpc[w]] \notin Holding
      BY <1>4 DEF PollMisses, Polling, Polls, AfterMiss, Holding
    <2> QED
      BY <1>4, <2>1, PlaceGoto DEF PollMisses, Goto
  <1>5. CASE WorkerExitCheck(w)
    <2>1. /\ wpc[w] \notin Holding /\ AfterExitCheck[wpc[w]] \notin Holding
          /\ "reap" \notin Holding
      BY <1>5 DEF WorkerExitCheck, ExitChecks, AfterExitCheck, Holding
    <2> QED
      BY <1>5, <2>1, PlaceGoto DEF WorkerExitCheck, Goto
  <1>6. CASE WorkerReap(w)
    BY <1>6, PlaceGoto DEF WorkerReap, Goto, Holding
  <1>7. CASE WorkerSelect(w)
    BY <1>7, PlaceGoto DEF WorkerSelect, Goto, Holding
  <1>8. CASE WorkerLeaves(w)
    BY <1>8, PlaceGoto DEF WorkerLeaves, Goto, Holding
  <1>9. CASE Postpone(w)
    BY <1>9, PlaceGoto DEF Postpone, Goto, Holding
  <1>10. CASE Begin(w)
    BY <1>10, PlaceGoto DEF Begin, Goto, Holding
  <1>11. CASE FailRetry(w)
    BY <1>11, PlaceGoto DEF FailRetry, Goto, Holding
  <1>12. CASE RequeueMisses(w)
    BY <1>12, PlaceGoto DEF RequeueMisses, Goto, Holding
  <1>13. CASE RequeueAgain(w)
    BY <1>13, PlaceGoto DEF RequeueAgain, Goto, Holding
  <1> QED
    BY <1>1, <1>2, <1>3, <1>4, <1>5, <1>6, <1>7, <1>8, <1>9, <1>10, <1>11, <1>12, <1>13

\* A worker that lets go of its job leaves it to exactly one other place.
LEMMA HandsLetGo ==
    ASSUME TypeOK, InHands, NEW w \in Workers, wpc[w] \in Holding, LetGo(w),
           NEW to, to # "worker", Place(wjob[w], to)
    PROVE  InHands'
  <1>1. /\ wjob[w] \in Jobs /\ wjob[w] # NoJob
        /\ wpc' = [wpc EXCEPT ![w] = "top"] /\ wjob' = [wjob EXCEPT ![w] = NoJob]
        /\ job' = [job EXCEPT ![wjob[w]] = to]
    BY DEF InHands, TypeOK, LetGo, Place
  <1>2. \A v \in Workers : wjob'[v] # NoJob <=> wpc'[v] \in Holding
    BY <1>1 DEF InHands, TypeOK, Holding
  <1>3. \A v \in Workers : wjob'[v] # NoJob => job'[wjob'[v]] = "worker"
    BY <1>1 DEF InHands, TypeOK
  <1>4. \A k \in Jobs : job'[k] = "worker" => \E v \in Workers : wjob'[v] = k
    <2>1. \A k \in Jobs : job'[k] = "worker" => job[k] = "worker" /\ k # wjob[w]
      BY <1>1 DEF TypeOK
    <2>2. \A k \in Jobs : k # wjob[w] /\ job[k] = "worker"
                            => \E v \in Workers : v # w /\ wjob[v] = k
      BY DEF InHands
    <2> QED
      BY <1>1, <2>1, <2>2 DEF TypeOK
  <1>5. \A u, v \in Workers : wjob'[u] = wjob'[v] /\ wjob'[u] # NoJob => u = v
    BY <1>1 DEF InHands, TypeOK
  <1> QED
    BY <1>2, <1>3, <1>4, <1>5 DEF InHands

\* A worker ends its job, sends it to the DLQ, or puts it back into the heap.
LEMMA PlaceEnds ==
    ASSUME TypeOK, OnePlace, NEW w \in Workers,
           \/ DropCancelled(w) \/ Succeed(w) \/ FailBasic(w) \/ FailDead(w)
           \/ RequeueGivesUp(w) \/ Requeue(w)
    PROVE  OnePlace'
  <1> USE DEF OnePlace
  <1>1. wpc[w] \in Holding
    BY DEF DropCancelled, Succeed, FailBasic, FailDead, RequeueGivesUp, Requeue, Holding
  <1>2. wjob[w] \in Jobs /\ job[wjob[w]] = "worker"
    BY <1>1 DEF InHands, TypeOK
  <1>3. ASSUME NEW how \in Finished \ {"dead"}, Ends(w, how)
        PROVE  OnePlace'
    <2>1. Listed'
      BY <1>2, <1>3 DEF Ends, Place, Listed, Lists, TypeOK, queues, Finished
    <2>2. InHands'
      BY <1>1, <1>3, HandsLetGo DEF Ends, Finished
    <2> QED
      BY <2>1, <2>2
  <1>4. ASSUME Ends(w, "dead")
        PROVE  OnePlace'
    <2>1. wjob[w] \notin Range(dlq)
      BY <1>2 DEF Listed, Lists
    <2>2. dlq' = Append(dlq, wjob[w])
      BY <1>4 DEF Ends
    <2>3. IsInjective(dlq') /\ Range(dlq') = Range(dlq) \cup {wjob[w]}
      BY <1>2, <2>1, <2>2, AppendToList DEF Listed, Lists, TypeOK
    <2>4. Listed'
      BY <1>2, <1>4, <2>3 DEF Ends, Place, Listed, Lists, TypeOK, queues
    <2>5. InHands'
      BY <1>1, <1>4, HandsLetGo DEF Ends
    <2> QED
      BY <2>4, <2>5
  <1>5. CASE Requeue(w)
    <2>1. Listed'
      <3>1. /\ UNCHANGED <<basicq, fastq, spill, dlq, replay, replaypc>>
            /\ heap' = heap \cup {wjob[w]} /\ delayed' = delayed \cup {wjob[w]}
            /\ \A j \in Jobs : job'[j] = IF j = wjob[w] THEN "heap" ELSE job[j]
        BY <1>5 DEF Requeue, Place, TypeOK, letters
      <3>2. \A where \in {"basicq", "fastq", "spill", "dead", "replay"} :
                {j \in Jobs : job'[j] = where} = {j \in Jobs : job[j] = where}
        BY <1>2, <3>1
      <3>3. /\ Lists(basicq, "basicq")' /\ Lists(fastq, "fastq")' /\ Lists(spill, "spill")'
            /\ Lists(dlq, "dead")' /\ Lists(replay, "replay")'
        BY <3>1, <3>2 DEF Listed, Lists
      <3>4. heap' = {j \in Jobs : job'[j] = "heap"} /\ delayed' \subseteq heap'
        BY <1>2, <3>1 DEF Listed
      <3> QED
        BY <3>1, <3>3, <3>4 DEF Listed
    <2>2. InHands'
      BY <1>1, <1>5, HandsLetGo DEF Requeue
    <2> QED
      BY <2>1, <2>2
  <1> QED
    BY <1>3, <1>4, <1>5
    DEF DropCancelled, Succeed, FailBasic, FailDead, RequeueGivesUp, Finished

\* Replaying and purging the DLQ.
LEMMA PlaceLetters ==
    ASSUME TypeOK, OnePlace, ReplayCalls \/ Replay \/ Purge
    PROVE  OnePlace'
  <1> USE DEF OnePlace
  <1>0. CASE ReplayCalls
    <2>1. Listed'
      BY <1>0 DEF ReplayCalls, Listed, Lists, queues
    <2>2. InHands'
      BY <1>0, HandsKept DEF ReplayCalls
    <2> QED
      BY <2>1, <2>2
  <1>1. CASE ReplayTakes
    <2>1. Listed'
      BY <1>1, EmptyList DEF ReplayTakes, Listed, Lists, TypeOK, queues
    <2>2. InHands'
      BY <1>1, HandsKept DEF ReplayTakes, Listed, Lists
    <2> QED
      BY <2>1, <2>2
  <1>2. CASE ReplayPushes
    <2> DEFINE j == Head(replay)
    <2>0. replay # <<>> /\ (replaypc' = "push" <=> replay' # <<>>)
      BY <1>2 DEF ReplayPushes, Listed
    <2>1. /\ j \in Jobs /\ j \in Range(replay)
          /\ IsInjective(replay') /\ Range(replay') = Range(replay) \ {j}
      BY <1>2, TailOfList DEF ReplayPushes, Listed, Lists, TypeOK
    <2>2. job[j] = "replay" /\ j \notin Range(dlq)
      BY <2>1 DEF Listed, Lists
    <2>u. UNCHANGED <<basicq, fastq, spill>>
      BY <1>2 DEF ReplayPushes
    <2> HIDE DEF j
    <2>3. CASE HeapRoom
      <3>1. heap' = heap \cup {j} /\ Place(j, "heap") /\ UNCHANGED dlq
        BY <1>2, <2>3 DEF ReplayPushes, j
      <3>2. Listed'
        <4>0. \A k \in Jobs : job'[k] = IF k = j THEN "heap" ELSE job[k]
          BY <2>1, <3>1 DEF Place, TypeOK
        <4>1. Lists(replay, "replay")'
          BY <2>1, <2>2, <4>0 DEF Listed, Lists
        <4>2. Lists(dlq, "dead")'
          BY <2>2, <3>1, <4>0 DEF Listed, Lists
        <4>3. Lists(basicq, "basicq")' /\ Lists(fastq, "fastq")' /\ Lists(spill, "spill")'
          BY <2>u, <2>2, <4>0 DEF Listed, Lists
        <4>4. (heap = {k \in Jobs : job[k] = "heap"})' /\ (delayed \subseteq heap)'
          <5>1. heap = {k \in Jobs : job[k] = "heap"} /\ delayed \subseteq heap
            BY DEF Listed
          <5>2. delayed' = delayed
            BY <1>2 DEF ReplayPushes
          <5> QED
            BY <2>1, <3>1, <4>0, <5>1, <5>2
        <4> QED
          BY <2>0, <4>1, <4>2, <4>3, <4>4 DEF Listed
      <3>3. InHands'
        BY <1>2, <2>1, <2>2, <3>1, HandsKept DEF ReplayPushes, Place, TypeOK
      <3> QED
        BY <3>2, <3>3
    <2>4. CASE ~HeapRoom
      <3>1. dlq' = Append(dlq, j) /\ Place(j, "dead") /\ UNCHANGED heap
        BY <1>2, <2>4 DEF ReplayPushes, j
      <3>2. IsInjective(dlq') /\ Range(dlq') = Range(dlq) \cup {j}
        BY <2>1, <2>2, <3>1, AppendToList DEF Listed, Lists, TypeOK
      <3>3. Listed'
        <4>1. Lists(replay, "replay")' /\ Lists(dlq, "dead")'
          BY <2>1, <2>2, <3>1, <3>2 DEF Place, Listed, Lists, TypeOK
        <4>2. Lists(basicq, "basicq")' /\ Lists(fastq, "fastq")' /\ Lists(spill, "spill")'
          BY <1>2, <2>1, <2>2, <3>1, <3>2 DEF ReplayPushes, Place, Listed, Lists, TypeOK
        <4>3. (heap = {k \in Jobs : job[k] = "heap"})' /\ (delayed \subseteq heap)'
          BY <1>2, <2>1, <2>2, <3>1, <3>2 DEF ReplayPushes, Place, Listed, TypeOK
        <4> QED
          BY <2>0, <4>1, <4>2, <4>3 DEF Listed
      <3>4. InHands'
        BY <1>2, <2>1, <2>2, <3>1, HandsKept DEF ReplayPushes, Place, TypeOK
      <3> QED
        BY <3>3, <3>4
    <2> QED
      BY <2>3, <2>4
  <1>3. CASE Purge
    <2>1. Listed'
      BY <1>3, EmptyList DEF Purge, Listed, Lists, TypeOK, queues
    <2>2. InHands'
      BY <1>3, HandsKept DEF Purge, Listed, Lists
    <2> QED
      BY <2>1, <2>2
  <1> QED
    BY <1>0, <1>1, <1>2, <1>3 DEF Replay

\* The goroutines that start, scale, pause, stop and terminate the pool.
LEMMA PlaceControl ==
    ASSUME TypeOK, OnePlace,
           \/ \E w \in Workers : StartSpawns(w) \/ ScaleSpawns(w)
           \/ \E s \in Stoppers : ShutdownLoads(s) \/ Shutdown(s) \/ ShutdownGivesUp(s)
           \/ Start \/ ScaleTick \/ ScaleStops \/ Pause \/ Resume
           \/ TerminateSwaps \/ Terminate
    PROVE  OnePlace'
  <1>1. ASSUME NEW w \in Workers, StartSpawns(w) \/ ScaleSpawns(w)
        PROVE  OnePlace'
    <2>1. /\ wpc[w] = "none" /\ wpc' = [wpc EXCEPT ![w] = "top"] /\ wjob' = wjob
          /\ UNCHANGED <<queues, letters, job>>
      BY <1>1 DEF StartSpawns, ScaleSpawns, Spawn
    <2> QED
      BY <2>1, PlaceGoto DEF Holding
  <1>2. ASSUME NEW s \in Stoppers, ShutdownLoads(s) \/ Shutdown(s) \/ ShutdownGivesUp(s)
        PROVE  UNCHANGED <<queues, letters, job, workers>>
    BY <1>2 DEF ShutdownLoads, Shutdown, ShutdownStores, ShutdownClosesScale,
                ShutdownClosesFifos, ShutdownClosesHeap, ShutdownReturns,
                ShutdownGivesUp, Stopper
  <1>3. ASSUME Start \/ ScaleTick \/ ScaleStops \/ Pause \/ Resume \/ TerminateSwaps \/ Terminate
        PROVE  UNCHANGED <<queues, letters, job, workers>>
    BY <1>3 DEF Start, ScaleTick, ScaleStops, Pause, Resume, TerminateSwaps, Terminate,
                TerminateCancels, TerminateClosesFifos, TerminateClosesHeap, Terminator
  <1> QED
    BY <1>1, <1>2, <1>3, PlaceIdle

LEMMA PlaceStep == TypeOK /\ OnePlace /\ [Next]_vars => OnePlace'
  <1> SUFFICES ASSUME TypeOK, OnePlace, [Next]_vars PROVE OnePlace'
    OBVIOUS
  <1>1. CASE UNCHANGED vars
    BY <1>1, PlaceIdle DEF vars
  <1>2. ASSUME NEW w \in Workers, Worker(w)
        PROVE  OnePlace'
    BY <1>2, PlaceTake, PlaceLoop, PlaceEnds DEF Worker, Execute
  <1>3. CASE Next
    BY <1>2, <1>3, PlaceSubmit, PlaceLetters, PlaceControl DEF Next
  <1> QED
    BY <1>1, <1>3
-----------------------------------------------------------------------------
\* The places of jobs and of workers are names of places.
LEMMA PlaceNames ==
    /\ \A p \in {"new", "pushing", "missed", "rejected", "worker", "replay", "basicq",
                 "fastq", "spill", "heap", "succeeded", "failed", "dead", "cancelled",
                 "dropped", "purged"} : p \in Places
    /\ \A pc \in {"none", "top", "gate", "paused", "exit", "exitBasic", "exitFast",
                  "exitHeap", "reap", "reapAgain", "select", "leaving", "got", "run",
                  "retry", "retrySpin", "delay", "delaySpin", "basic", "idleBasic",
                  "waitBasic"} : pc \in WorkerPCs
    /\ \A pc \in DOMAIN Polls : AfterMiss[pc] \in WorkerPCs
    /\ \A pc \in DOMAIN ExitChecks : AfterExitCheck[pc] \in WorkerPCs
  <1>1. /\ DOMAIN Polls = {"basic", "fast", "spill", "heap", "idleBasic", "idleFast",
                           "waitBasic", "lastFast", "lastHeap"}
        /\ DOMAIN ExitChecks = {"exit", "exitBasic", "exitFast", "exitHeap"}
    BY DEF Polls, ExitChecks
  <1>2. \A p \in {"new", "pushing", "missed", "rejected", "worker", "replay", "basicq",
                  "fastq", "spill", "heap", "succeeded", "failed", "dead", "cancelled",
                  "dropped", "purged"} : p \in Places
    BY DEF Places, Waiting, Finished
  <1>3. \A pc \in {"none", "top", "gate", "paused", "exit", "exitBasic", "exitFast",
                   "exitHeap", "reap", "reapAgain", "select", "leaving", "got", "run",
                   "retry", "retrySpin", "delay", "delaySpin", "basic", "idleBasic",
                   "waitBasic"} : pc \in WorkerPCs
    BY <1>1 DEF WorkerPCs, Holding
  <1>4. \A pc \in DOMAIN Polls : AfterMiss[pc] \in WorkerPCs
    BY <1>1 DEF AfterMiss, WorkerPCs
  <1>5. \A pc \in DOMAIN ExitChecks : AfterExitCheck[pc] \in WorkerPCs
    BY <1>1 DEF AfterExitCheck, WorkerPCs
  <1> QED
    BY <1>2, <1>3, <1>4, <1>5

LEMMA TypeInit == Init => TypeOK
  <1> SUFFICES ASSUME Init PROVE TypeOK
    OBVIOUS
  <1> USE DEF Init
  <1>1. /\ job \in [Jobs -> Places] /\ attempt \in [Jobs -> Nat]
        /\ wpc \in [Workers -> WorkerPCs] /\ wjob \in [Workers -> Jobs \cup {NoJob}]
    BY PlaceNames
  <1>2. /\ replays \in 0..MaxReplays /\ toSpawn \in 0..MinWorkers
        /\ startpc = "spawning" <=> toSpawn > 0
    BY ConfigAssumption DEF ConfigAssumption, NormalConfig
  <1>3. /\ basicq \in Seq(Jobs) /\ fastq \in Seq(Jobs) /\ spill \in Seq(Jobs)
        /\ dlq \in Seq(Jobs) /\ replay \in Seq(Jobs)
    BY EmptyList
  <1>4. state \in States /\ spc \in [Stoppers -> StopperPCs]
    BY DEF States, StopperPCs
  <1> QED
    BY <1>1, <1>2, <1>3, <1>4 DEF TypeOK

\* Submissions keep the types.
LEMMA TypeSubmit ==
    ASSUME TypeOK, NEW j \in Jobs,
           SubmitCheck(j) \/ Submit(j) \/ Elapse(j) \/ CancelJob(j)
    PROVE  TypeOK'
  <1> USE PlaceNames DEF TypeOK, closing, queues, letters, control, workers
  <1>1. CASE SubmitCheck(j) \/ PushMisses(j) \/ TryAgain(j) \/ Reject(j)
    <2>1. /\ UNCHANGED <<closing, queues, letters, late, attempt, cancelled, workers, control>>
          /\ \E to \in {"pushing", "missed", "rejected"} : Place(j, to)
      BY <1>1 DEF SubmitCheck, PushMisses, TryAgain, Reject
    <2> QED
      BY <2>1 DEF Place
  <1>2. CASE PushBasic(j)
    BY <1>2 DEF PushBasic, Place, Accepted
  <1>3. CASE PushFast(j)
    BY <1>3 DEF PushFast, Place, Accepted
  <1>4. CASE SpillOver(j)
    BY <1>4 DEF SpillOver, Place, Accepted
  <1>5. CASE PushHeap(j)
    BY <1>5 DEF PushHeap, Place, Accepted
  <1>6. ASSUME NEW victim \in heap, DropFront(j, victim)
        PROVE  TypeOK'
    <2>1. job' \in [Jobs -> Places]
      BY <1>6 DEF DropFront
    <2>2. heap' \subseteq Jobs /\ delayed' \subseteq Jobs /\ late' \subseteq Jobs
      BY <1>6 DEF DropFront, Accepted
    <2>3. UNCHANGED <<closing, basicq, fastq, spill, letters, attempt, cancelled, workers, control>>
      BY <1>6 DEF DropFront
    <2> QED
      BY <2>1, <2>2, <2>3
  <1>7. CASE Elapse(j)
    BY <1>7 DEF Elapse
  <1>8. CASE CancelJob(j)
    BY <1>8 DEF CancelJob
  <1> QED
    BY <1>1, <1>2, <1>3, <1>4, <1>5, <1>6, <1>7, <1>8 DEF Submit

\* The loop of a worker keeps the types.
LEMMA TypeLoop ==
    ASSUME TypeOK, NEW w \in Workers,
           \/ WorkerTop(w) \/ WorkerGate(w) \/ WorkerPaused(w) \/ PollMisses(w)
           \/ WorkerExitCheck(w) \/ WorkerReap(w) \/ WorkerSelect(w) \/ WorkerLeaves(w)
           \/ Postpone(w) \/ FailRetry(w) \/ RequeueMisses(w) \/ RequeueAgain(w)
    PROVE  TypeOK'
  <1> USE PlaceNames
  <1>1. PICK pc : Goto(w, pc) /\ pc \in WorkerPCs
    <2>1. CASE WorkerTop(w)
      BY <2>1 DEF WorkerTop
    <2>2. CASE WorkerGate(w)
      BY <2>2 DEF WorkerGate
    <2>3. CASE WorkerPaused(w)
      BY <2>3 DEF WorkerPaused
    <2>4. CASE PollMisses(w)
      BY <2>4 DEF PollMisses, Polling
    <2>5. CASE WorkerExitCheck(w)
      BY <2>5 DEF WorkerExitCheck
    <2>6. CASE WorkerReap(w)
      BY <2>6 DEF WorkerReap
    <2>7. CASE WorkerSelect(w)
      BY <2>7 DEF WorkerSelect
    <2>8. CASE WorkerLeaves(w)
      BY <2>8 DEF WorkerLeaves
    <2>9. CASE Postpone(w) \/ FailRetry(w) \/ RequeueMisses(w) \/ RequeueAgain(w)
      BY <2>9 DEF Postpone, FailRetry, RequeueMisses, RequeueAgain
    <2> QED
      BY <2>1, <2>2, <2>3, <2>4, <2>5, <2>6, <2>7, <2>8, <2>9
  <1>2. UNCHANGED <<closing, queues, letters, job, late, attempt, cancelled, control>>
    BY DEF WorkerTop, WorkerGate, WorkerPaused, PollMisses, WorkerExitCheck, WorkerReap,
           WorkerSelect, WorkerLeaves, Postpone, FailRetry, RequeueMisses, RequeueAgain
  <1> QED
    BY <1>1, <1>2 DEF Goto, TypeOK, closing, queues, letters, control

\* Taking, running and letting go of jobs keep the types; a worker with a job
\* in its hands is what OnePlace says.
LEMMA TypeJob ==
    ASSUME TypeOK, OnePlace, NEW w \in Workers,
           \/ PollBasic(w) \/ PollFast(w) \/ PollSpill(w) \/ PollHeap(w) \/ Begin(w)
           \/ DropCancelled(w) \/ Succeed(w) \/ FailBasic(w) \/ FailDead(w)
           \/ RequeueGivesUp(w) \/ Requeue(w)
    PROVE  TypeOK'
  <1> USE PlaceNames DEF TypeOK, closing, queues, letters, control
  <1>1. CASE PollBasic(w)
    BY <1>1 DEF PollBasic, Take, Place
  <1>2. CASE PollFast(w)
    BY <1>2 DEF PollFast, Take, Place
  <1>3. CASE PollSpill(w)
    BY <1>3 DEF PollSpill, Take, Place
  <1>4. CASE PollHeap(w)
    BY <1>4 DEF PollHeap, Take, Place
  <1>5. wpc[w] \in Holding => wjob[w] \in Jobs
    BY DEF OnePlace, InHands
  <1>6. CASE Begin(w)
    <2>1. wpc[w] \in Holding
      BY <1>6 DEF Begin, Holding
    <2> QED
      BY <1>5, <1>6, <2>1 DEF Begin, Goto
  <1>7. ASSUME NEW how \in Finished, Ends(w, how), wpc[w] \in Holding, attempt' = attempt
        PROVE  TypeOK'
    <2>1. how \in Places
      BY DEF Places
    <2>2. dlq' \in Seq(Jobs)
      BY <1>5, <1>7 DEF Ends
    <2>3. wpc' \in [Workers -> WorkerPCs] /\ wjob' \in [Workers -> Jobs \cup {NoJob}]
      BY <1>7 DEF Ends, LetGo
    <2>4. job' \in [Jobs -> Places]
      BY <1>7, <2>1 DEF Ends, Place
    <2> QED
      BY <1>7, <2>2, <2>3, <2>4 DEF Ends
  <1>8. CASE DropCancelled(w) \/ Succeed(w) \/ FailBasic(w) \/ FailDead(w) \/ RequeueGivesUp(w)
    <2>1. wpc[w] \in Holding /\ attempt' = attempt
      BY <1>8 DEF DropCancelled, Succeed, FailBasic, FailDead, RequeueGivesUp, Holding
    <2>2. \E how \in Finished : Ends(w, how)
      BY <1>8 DEF DropCancelled, Succeed, FailBasic, FailDead, RequeueGivesUp, Finished
    <2> QED
      BY <1>7, <2>1, <2>2
  <1>9. CASE Requeue(w)
    <2>1. wjob[w] \in Jobs
      BY <1>5, <1>9 DEF Requeue, Holding
    <2>2. heap' \subseteq Jobs /\ delayed' \subseteq Jobs /\ job' \in [Jobs -> Places]
      BY <1>9, <2>1 DEF Requeue, Place
    <2>3. wpc' \in [Workers -> WorkerPCs] /\ wjob' \in [Workers -> Jobs \cup {NoJob}]
      BY <1>9 DEF Requeue, LetGo
    <2> QED
      BY <1>9, <2>2, <2>3 DEF Requeue
  <1> QED
    BY <1>1, <1>2, <1>3, <1>4, <1>6, <1>8, <1>9

\* Replays and purges keep the types.
LEMMA TypeLetters ==
    ASSUME TypeOK, OnePlace, ReplayCalls \/ Replay \/ Purge
    PROVE  TypeOK'
  <1> USE PlaceNames, EmptyList DEF TypeOK, closing, queues, control, workers
  <1>0. CASE ReplayCalls
    <2>1. replays' \in 0..MaxReplays
      BY <1>0, ConfigAssumption DEF ReplayCalls, ConfigAssumption, NormalConfig
    <2> QED
      BY <1>0, <2>1 DEF ReplayCalls
  <1>1. CASE ReplayTakes
    BY <1>1 DEF ReplayTakes
  <1>2. CASE ReplayPushes
    <2>1. Head(replay) \in Jobs /\ replay' \in Seq(Jobs)
      BY <1>2 DEF ReplayPushes, OnePlace, Listed
    <2>2. \E p \in {"heap", "dead"} : Place(Head(replay), p)
      BY <1>2 DEF ReplayPushes
    <2>3. heap' \subseteq Jobs /\ dlq' \in Seq(Jobs)
      <3>1. \/ heap' = heap \cup {Head(replay)} /\ dlq' = dlq
            \/ heap' = heap /\ dlq' = Append(dlq, Head(replay))
        BY <1>2, Zenon DEF ReplayPushes
      <3>2. heap \cup {Head(replay)} \subseteq Jobs
        BY <2>1
      <3>3. Append(dlq, Head(replay)) \in Seq(Jobs)
        BY <2>1
      <3> QED
        BY <3>1, <3>2, <3>3, Zenon
    <2>4. job' \in [Jobs -> Places] /\ attempt' \in [Jobs -> Nat]
      BY <1>2, <2>1, <2>2 DEF ReplayPushes, Place
    <2>5. late' \subseteq Jobs
      BY <1>2, <2>1 DEF ReplayPushes, Accepted
    <2> QED
      BY <1>2, <2>1, <2>3, <2>4, <2>5 DEF ReplayPushes
  <1>3. CASE Purge
    BY <1>3 DEF Purge, letters
  <1> QED
    BY <1>0, <1>1, <1>2, <1>3 DEF Replay

\* The goroutines that control the pool keep the types.
LEMMA TypeControl ==
    ASSUME TypeOK,
           \/ \E w \in Workers : StartSpawns(w) \/ ScaleSpawns(w)
           \/ \E s \in Stoppers : ShutdownLoads(s) \/ Shutdown(s) \/ ShutdownGivesUp(s)
           \/ Start \/ ScaleTick \/ ScaleStops \/ Pause \/ Resume
           \/ TerminateSwaps \/ Terminate
    PROVE  TypeOK'
  <1> USE PlaceNames DEF TypeOK, States, closing, queues, letters, workers
  <1>1. ASSUME NEW w \in Workers, StartSpawns(w)
        PROVE  TypeOK'
    BY <1>1, ConfigAssumption DEF StartSpawns, Spawn, ConfigAssumption, NormalConfig
  <1>2. ASSUME NEW w \in Workers, ScaleSpawns(w)
        PROVE  TypeOK'
    BY <1>2 DEF ScaleSpawns, Spawn
  <1>3. ASSUME NEW s \in Stoppers, NEW from, NEW to \in StopperPCs, Stopper(s, from, to),
               state' \in States, ctxDone' \in BOOLEAN, scaleClosed' \in BOOLEAN,
               fifoClosed' \in BOOLEAN, heapClosed' \in BOOLEAN
        PROVE  TypeOK'
    BY <1>3 DEF Stopper
  <1>4. ASSUME NEW s \in Stoppers, ShutdownLoads(s) \/ Shutdown(s) \/ ShutdownGivesUp(s)
        PROVE  TypeOK'
    <2>1. PICK from, to \in StopperPCs : Stopper(s, from, to)
      <3>1. CASE ShutdownLoads(s)
        BY <3>1, Zenon DEF ShutdownLoads, StopperPCs
      <3>2. CASE Shutdown(s)
        BY <3>2
        DEF Shutdown, ShutdownStores, ShutdownClosesScale, ShutdownClosesFifos,
            ShutdownClosesHeap, ShutdownReturns, StopperPCs
      <3>3. CASE ShutdownGivesUp(s)
        BY <3>3 DEF ShutdownGivesUp, StopperPCs
      <3> QED
        BY <1>4, <3>1, <3>2, <3>3
    <2> QED
      BY <1>3, <1>4, <2>1
      DEF ShutdownLoads, Shutdown, ShutdownStores, ShutdownClosesScale, ShutdownClosesFifos,
          ShutdownClosesHeap, ShutdownReturns, ShutdownGivesUp
  <1>5. CASE Start
    BY <1>5, ConfigAssumption DEF Start, ConfigAssumption, NormalConfig
  <1>6. CASE ScaleTick \/ ScaleStops
    BY <1>6 DEF ScaleTick, ScaleStops
  <1>7. CASE Pause \/ Resume
    BY <1>7 DEF Pause, Resume, control
  <1>8. ASSUME NEW from, NEW to \in {"cancel", "closeFifos", "closeHeap", "done"},
               Terminator(from, to), state' \in States, ctxDone' \in BOOLEAN,
               fifoClosed' \in BOOLEAN, heapClosed' \in BOOLEAN
        PROVE  TypeOK'
    BY <1>8 DEF Terminator
  <1>9. CASE TerminateSwaps \/ Terminate
    <2>1. CASE TerminateSwaps
      BY <1>8, <2>1 DEF TerminateSwaps
    <2>2. CASE TerminateCancels
      BY <1>8, <2>2 DEF TerminateCancels
    <2>3. CASE TerminateClosesFifos
      BY <1>8, <2>3 DEF TerminateClosesFifos
    <2>4. CASE TerminateClosesHeap
      BY <1>8, <2>4 DEF TerminateClosesHeap
    <2> QED
      BY <1>9, <2>1, <2>2, <2>3, <2>4 DEF Terminate
  <1> HIDE PlaceNames DEF TypeOK, States, closing, queues, letters, workers
  <1> QED
    BY <1>1, <1>2, <1>4, <1>5, <1>6, <1>7, <1>9, Zenon

LEMMA TypeStep == TypeOK /\ OnePlace /\ [Next]_vars => TypeOK'
  <1> SUFFICES ASSUME TypeOK, OnePlace, [Next]_vars PROVE TypeOK'
    OBVIOUS
  <1>1. CASE UNCHANGED vars
    BY <1>1 DEF TypeOK, vars, closing, queues, letters, workers, control
  <1>2. ASSUME NEW w \in Workers, Worker(w)
        PROVE  TypeOK'
    BY <1>2, TypeLoop, TypeJob DEF Worker, Execute
  <1>3. CASE Next
    BY <1>2, <1>3, TypeSubmit, TypeLetters, TypeControl DEF Next
  <1> QED
    BY <1>1, <1>3

LEMMA PlaceInit == Init => OnePlace
  <1> SUFFICES ASSUME Init PROVE OnePlace
    OBVIOUS
  <1>1. Listed
    BY EmptyList DEF Init, Listed, Lists
  <1>2. InHands
    BY DEF Init, InHands, Holding
  <1> QED
    BY <1>1, <1>2 DEF OnePlace

\* The two invariants are inductive together: that the hands of a worker hold
\* a job is what keeps the types, and the types are what keeps the places.
LEMMA PlaceAndTypes == Spec => [](TypeOK /\ OnePlace)
  <1>1. Init => TypeOK /\ OnePlace
    BY TypeInit, PlaceInit
  <1>2. TypeOK /\ OnePlace /\ [Next]_vars => (TypeOK /\ OnePlace)'
    BY TypeStep, PlaceStep
  <1> QED
    BY <1>1, <1>2, PTL DEF Spec

\* Type correctness.
THEOREM PoolTypes == Spec => []TypeOK
  BY PlaceAndTypes, PTL

\* No job is ever in two places, in the hands of two workers or lost from the
\* place it is said to be in.
THEOREM NoJobIsLost == Spec => []OnePlace
  BY PlaceAndTypes, PTL
-----------------------------------------------------------------------------
\* Whoever begins to stop or to terminate the pool does it for good: Start,
\* Pause and Resume change the state by compare-and-swap from another one, and
\* Shutdown and Terminate only store states that accept nothing.
THEOREM StoppedForGood == Spec => StopIsFinal
  <1>1. [Next]_vars => [state \notin Accepting => state' \notin Accepting]_state
    <2> SUFFICES ASSUME [Next]_vars, state' # state, state \notin Accepting
                 PROVE  state' \notin Accepting
      OBVIOUS
    <2> USE DEF closing
    <2>1. ASSUME NEW j \in Jobs, SubmitCheck(j) \/ Submit(j) \/ Elapse(j) \/ CancelJob(j)
          PROVE  FALSE
      BY <2>1 DEF SubmitCheck, Submit, PushBasic, PushFast, PushHeap, DropFront, PushMisses,
                  TryAgain, SpillOver, Reject, Elapse, CancelJob
    <2>2. ASSUME NEW w \in Workers, Worker(w) \/ StartSpawns(w) \/ ScaleSpawns(w)
          PROVE  FALSE
      BY <2>2 DEF Worker, WorkerTop, WorkerGate, WorkerPaused, PollBasic, PollFast,
                  PollSpill, PollHeap, Take, PollMisses, WorkerExitCheck, WorkerReap,
                  WorkerSelect, WorkerLeaves, Execute, DropCancelled, Postpone, Begin,
                  Succeed, FailBasic, FailRetry, FailDead, Ends, Requeue, RequeueMisses,
                  RequeueAgain, RequeueGivesUp, StartSpawns, ScaleSpawns
    <2>3. ASSUME NEW s \in Stoppers, ShutdownLoads(s) \/ Shutdown(s) \/ ShutdownGivesUp(s)
          PROVE  state' \in {"stopping", "stopped"}
      BY <2>3 DEF ShutdownLoads, Shutdown, ShutdownStores, ShutdownClosesScale,
                  ShutdownClosesFifos, ShutdownClosesHeap, ShutdownReturns, ShutdownGivesUp
    <2>4. CASE TerminateSwaps
      BY <2>4 DEF TerminateSwaps, Accepting
    <2>5. CASE Start \/ Pause \/ Resume
      BY <2>5 DEF Start, Pause, Resume, Accepting
    <2>6. CASE ScaleTick \/ ScaleStops \/ Terminate \/ ReplayCalls \/ Replay \/ Purge
      BY <2>6 DEF ScaleTick, ScaleStops, Terminate, TerminateCancels, TerminateClosesFifos,
                  TerminateClosesHeap, ReplayCalls, Replay, ReplayTakes, ReplayPushes, Purge
    <2>7. CASE UNCHANGED vars
      BY <2>7 DEF vars
    <2> QED
      BY <2>1, <2>2, <2>3, <2>4, <2>5, <2>6, <2>7 DEF Next, Accepting
  <1> QED
    BY <1>1, PTL DEF Spec, StopIsFinal
-----------------------------------------------------------------------------
\* How a step may move a job: one that ended stays where it is, but for the
\* letters of the DLQ.
Kept == \A j \in Jobs : job[j] \in Finished /\ job'[j] # job[j]
                           => job[j] = "dead" /\ job'[j] \in {"replay", "purged"}

\* Moving jobs that have not ended.
LEMMA MovingKeeps ==
    ASSUME TypeOK, NEW j \in Jobs, job[j] \notin Finished, NEW to, Place(j, to)
    PROVE  Kept
  BY DEF TypeOK, Place, Kept

LEMMA EndStep == TypeOK /\ OnePlace /\ [Next]_vars => Kept
  <1> SUFFICES ASSUME TypeOK, OnePlace, [Next]_vars PROVE Kept
    OBVIOUS
  <1>1. CASE job' = job
    BY <1>1 DEF Kept
  <1>2. ASSUME NEW j \in Jobs, SubmitCheck(j) \/ Submit(j) \/ Elapse(j) \/ CancelJob(j)
        PROVE  Kept
    <2>1. CASE \E victim \in heap : DropFront(j, victim)
      <3>1. PICK victim \in heap : DropFront(j, victim)
        BY <2>1
      <3>2. victim \in Jobs /\ job[victim] = "heap"
        BY DEF OnePlace, Listed
      <3> QED
        BY <3>1, <3>2 DEF DropFront, TypeOK, Finished, Kept
    <2>2. CASE Elapse(j) \/ CancelJob(j)
      BY <1>1, <2>2 DEF Elapse, CancelJob
    <2>3. CASE SubmitCheck(j) \/ PushBasic(j) \/ PushFast(j) \/ PushHeap(j)
                 \/ PushMisses(j) \/ TryAgain(j) \/ SpillOver(j) \/ Reject(j)
      <3>1. job[j] \notin Finished /\ \E to \in Places \cup {"pushing"} : Place(j, to)
        BY <2>3, PlaceNames
        DEF SubmitCheck, PushBasic, PushFast, PushHeap, PushMisses, TryAgain, SpillOver,
            Reject, Finished
      <3> QED
        BY <3>1, MovingKeeps
    <2> QED
      BY <1>2, <2>1, <2>2, <2>3 DEF Submit
  <1>3. ASSUME NEW w \in Workers, PollBasic(w) \/ PollFast(w) \/ PollSpill(w) \/ PollHeap(w)
        PROVE  Kept
    <2>1. PICK j \in Jobs : Take(w, j) /\ job[j] \in Waiting
      <3>1. CASE PollBasic(w)
        BY <3>1, TailOfList DEF PollBasic, OnePlace, Listed, Lists, TypeOK, Waiting
      <3>2. CASE PollFast(w)
        BY <3>2, TailOfList DEF PollFast, OnePlace, Listed, Lists, TypeOK, Waiting
      <3>3. CASE PollSpill(w)
        BY <3>3, TailOfList DEF PollSpill, OnePlace, Listed, Lists, TypeOK, Waiting
      <3>4. CASE PollHeap(w)
        BY <3>4 DEF PollHeap, OnePlace, Listed, Waiting
      <3> QED
        BY <1>3, <3>1, <3>2, <3>3, <3>4
    <2> QED
      BY <2>1, MovingKeeps DEF Take, Waiting, Finished
  <1>4. ASSUME NEW w \in Workers,
               \/ DropCancelled(w) \/ Succeed(w) \/ FailBasic(w) \/ FailDead(w)
               \/ RequeueGivesUp(w) \/ Requeue(w)
        PROVE  Kept
    <2>1. wpc[w] \in Holding /\ \E to \in Places : Place(wjob[w], to)
      BY <1>4, PlaceNames
      DEF DropCancelled, Succeed, FailBasic, FailDead, RequeueGivesUp, Requeue, Ends, Holding
    <2>2. wjob[w] \in Jobs /\ job[wjob[w]] = "worker"
      BY <2>1 DEF OnePlace, InHands, TypeOK
    <2> QED
      BY <2>1, <2>2, MovingKeeps DEF Finished
  <1>5. ASSUME NEW w \in Workers, Worker(w)
        PROVE  Kept
    BY <1>1, <1>3, <1>4, <1>5
    DEF Worker, Execute, WorkerTop, WorkerGate, WorkerPaused, PollMisses, WorkerExitCheck,
        WorkerReap, WorkerSelect, WorkerLeaves, Postpone, Begin, FailRetry, RequeueMisses,
        RequeueAgain
  <1>6. CASE ReplayTakes
    <2>1. \A j \in Jobs : job'[j] # job[j] => job[j] = "dead" /\ job'[j] = "replay"
      BY <1>6 DEF ReplayTakes, OnePlace, Listed, Lists, TypeOK
    <2> QED
      BY <2>1 DEF Kept
  <1>7. CASE Purge
    <2>1. \A j \in Jobs : job'[j] # job[j] => job[j] = "dead" /\ job'[j] = "purged"
      BY <1>7 DEF Purge, OnePlace, Listed, Lists, TypeOK
    <2> QED
      BY <2>1 DEF Kept
  <1>8. CASE ReplayPushes
    <2>1. Head(replay) \in Jobs /\ job[Head(replay)] = "replay"
      BY <1>8, TailOfList DEF ReplayPushes, OnePlace, Listed, Lists, TypeOK
    <2>2. Place(Head(replay), "heap") \/ Place(Head(replay), "dead")
      BY <1>8, Zenon DEF ReplayPushes
    <2> QED
      BY <2>1, <2>2, MovingKeeps DEF Finished
  <1>9. CASE \/ \E w \in Workers : StartSpawns(w) \/ ScaleSpawns(w)
             \/ \E s \in Stoppers : ShutdownLoads(s) \/ Shutdown(s) \/ ShutdownGivesUp(s)
             \/ Start \/ ScaleTick \/ ScaleStops \/ Pause \/ Resume
             \/ TerminateSwaps \/ Terminate \/ ReplayCalls
    BY <1>1, <1>9
    DEF StartSpawns, ScaleSpawns, ShutdownLoads, Shutdown, ShutdownStores,
        ShutdownClosesScale, ShutdownClosesFifos, ShutdownClosesHeap, ShutdownReturns,
        ShutdownGivesUp, Stopper, Start, ScaleTick, ScaleStops, Pause, Resume,
        TerminateSwaps, Terminate, TerminateCancels, TerminateClosesFifos,
        TerminateClosesHeap, Terminator, ReplayCalls
  <1>10. CASE UNCHANGED vars
    BY <1>1, <1>10 DEF vars
  <1> QED
    BY <1>2, <1>5, <1>6, <1>7, <1>8, <1>9, <1>10 DEF Next, Replay

\* A job that has ended stays as it ended, unless it is a dead letter that is
\* replayed or purged.
THEOREM EndedForGood == Spec => EndIsFinal
  <1>1. TypeOK /\ OnePlace /\ [Next]_vars
           => [\A j \in Jobs : job[j] \in Finished /\ job'[j] # job[j]
                  => job[j] = "dead" /\ job'[j] \in {"replay", "purged"}]_job
    BY EndStep DEF Kept
  <1> QED
    BY <1>1, PlaceAndTypes, PTL DEF Spec, EndIsFinal
-----------------------------------------------------------------------------
\* Steps of a worker that neither take a job nor count an attempt nor let go.
LEMMA AttemptsGoto ==
    ASSUME TypeOK, OnePlace, AttemptsBounded, NEW w \in Workers, NEW pc,
           wpc' = [wpc EXCEPT ![w] = pc], UNCHANGED <<wjob, job, attempt>>,
           pc \in Holding \ {"run"} => wpc[w] \in Holding /\ attempt[wjob[w]] < MaxAttempts
    PROVE  AttemptsBounded'
  BY DEF AttemptsBounded, TypeOK

\* Moving a job that has an attempt left, or that no longer needs one, and that
\* no worker holds afterwards.
LEMMA AttemptsMove ==
    ASSUME TypeOK, OnePlace, AttemptsBounded, NEW j \in Jobs, NEW to, Place(j, to),
           attempt[j] < MaxAttempts \/ to \in Finished \cup {"rejected", "replay"},
           attempt' = attempt,
           UNCHANGED workers \/ \E w \in Workers : LetGo(w)
    PROVE  AttemptsBounded'
  <1>1. \A v \in Workers : wpc'[v] \in Holding \ {"run"}
                             => wpc[v] \in Holding \ {"run"} /\ wjob'[v] = wjob[v]
    BY DEF LetGo, workers, Holding, TypeOK
  <1>2. \A v \in Workers : wpc'[v] \in Holding \ {"run"} => attempt'[wjob'[v]] < MaxAttempts
    BY <1>1 DEF AttemptsBounded
  <1>3. to \notin {"new", "pushing", "missed"} \cup Waiting \/ attempt[j] < MaxAttempts
    BY DEF Finished, Waiting
  <1>4. \A k \in Jobs : job'[k] \in {"new", "pushing", "missed"} \cup Waiting
                          => attempt'[k] < MaxAttempts
    BY <1>3 DEF AttemptsBounded, Place, TypeOK
  <1> QED
    BY <1>2, <1>4 DEF AttemptsBounded

LEMMA AttemptsStep == TypeOK /\ OnePlace /\ AttemptsBounded /\ [Next]_vars => AttemptsBounded'
  <1> SUFFICES ASSUME TypeOK, OnePlace, AttemptsBounded, [Next]_vars
               PROVE  AttemptsBounded'
    OBVIOUS
  <1>1. ASSUME UNCHANGED <<wpc, wjob, job, attempt>>
        PROVE  AttemptsBounded'
    BY <1>1 DEF AttemptsBounded
  <1>2. ASSUME NEW j \in Jobs, SubmitCheck(j) \/ Submit(j) \/ Elapse(j) \/ CancelJob(j)
        PROVE  AttemptsBounded'
    <2>1. CASE \E victim \in heap : DropFront(j, victim)
      <3>1. PICK victim \in heap : DropFront(j, victim)
        BY <2>1
      <3>2. attempt[j] < MaxAttempts
        BY <3>1 DEF AttemptsBounded, DropFront
      <3>3. /\ job' = [job EXCEPT ![j] = "heap", ![victim] = "dropped"]
            /\ UNCHANGED <<wpc, wjob, attempt>>
        BY <3>1 DEF DropFront, workers
      <3>4. \A k \in Jobs : job'[k] \in {"new", "pushing", "missed"} \cup Waiting
                              => k = j \/ job'[k] = job[k]
        BY <3>3 DEF TypeOK, Waiting
      <3> QED
        BY <3>2, <3>3, <3>4 DEF AttemptsBounded
    <2>2. CASE Elapse(j) \/ CancelJob(j)
      BY <1>1, <2>2 DEF Elapse, CancelJob, workers
    <2>3. CASE SubmitCheck(j) \/ PushBasic(j) \/ PushFast(j) \/ PushHeap(j)
                 \/ PushMisses(j) \/ TryAgain(j) \/ SpillOver(j) \/ Reject(j)
      <3>1. /\ job[j] \in {"new", "pushing", "missed"}
            /\ \E to \in Places : Place(j, to)
            /\ attempt' = attempt /\ UNCHANGED workers
        BY <2>3, PlaceNames
        DEF SubmitCheck, PushBasic, PushFast, PushHeap, PushMisses, TryAgain, SpillOver, Reject
      <3> QED
        BY <3>1, AttemptsMove DEF AttemptsBounded
    <2> QED
      BY <1>2, <2>1, <2>2, <2>3 DEF Submit
  <1>3. ASSUME NEW w \in Workers, PollBasic(w) \/ PollFast(w) \/ PollSpill(w) \/ PollHeap(w)
        PROVE  AttemptsBounded'
    <2>1. PICK j \in Jobs : Take(w, j) /\ job[j] \in Waiting
      <3>1. CASE PollBasic(w)
        BY <3>1, TailOfList DEF PollBasic, OnePlace, Listed, Lists, TypeOK, Waiting
      <3>2. CASE PollFast(w)
        BY <3>2, TailOfList DEF PollFast, OnePlace, Listed, Lists, TypeOK, Waiting
      <3>3. CASE PollSpill(w)
        BY <3>3, TailOfList DEF PollSpill, OnePlace, Listed, Lists, TypeOK, Waiting
      <3>4. CASE PollHeap(w)
        BY <3>4 DEF PollHeap, OnePlace, Listed, Waiting
      <3> QED
        BY <1>3, <3>1, <3>2, <3>3, <3>4
    <2>2. attempt[j] < MaxAttempts
      BY <2>1 DEF AttemptsBounded
    <2>3. /\ wpc' = [wpc EXCEPT ![w] = "got"]
          /\ wjob' = [wjob EXCEPT ![w] = j]
          /\ job' = [job EXCEPT ![j] = "worker"]
          /\ attempt' = attempt
      BY <2>1 DEF Take, Place
    <2>4. \A v \in Workers : wpc'[v] \in Holding \ {"run"} => attempt'[wjob'[v]] < MaxAttempts
      BY <2>2, <2>3 DEF AttemptsBounded, TypeOK
    <2>5. \A k \in Jobs : job'[k] \in {"new", "pushing", "missed"} \cup Waiting
                            => attempt'[k] < MaxAttempts
      BY <2>3 DEF AttemptsBounded, TypeOK, Waiting
    <2> QED
      BY <2>3, <2>4, <2>5 DEF AttemptsBounded
  <1>4. ASSUME NEW w \in Workers, Begin(w)
        PROVE  AttemptsBounded'
    <2>1. /\ wjob[w] \in Jobs /\ job[wjob[w]] = "worker"
          /\ attempt[wjob[w]] \in Nat /\ attempt[wjob[w]] < MaxAttempts
      BY <1>4 DEF Begin, OnePlace, InHands, AttemptsBounded, TypeOK, Holding
    <2>2. /\ wpc' = [wpc EXCEPT ![w] = "run"] /\ wjob' = wjob /\ job' = job
          /\ attempt' = [attempt EXCEPT ![wjob[w]] = @ + 1]
      BY <1>4 DEF Begin, Goto
    <2>3. \A k \in Jobs : attempt'[k] <= MaxAttempts
      BY <2>1, <2>2, ConfigAssumption DEF AttemptsBounded, TypeOK, ConfigAssumption, NormalConfig
    <2>4. \A k \in Jobs : job'[k] \in {"new", "pushing", "missed"} \cup Waiting
                            => attempt'[k] < MaxAttempts
      BY <2>1, <2>2 DEF AttemptsBounded, TypeOK, Waiting
    <2>5. \A v \in Workers : wpc'[v] \in Holding \ {"run"} => attempt'[wjob'[v]] < MaxAttempts
      <3>1. \A v \in Workers : wpc'[v] \in Holding \ {"run"}
                                 => wpc[v] \in Holding \ {"run"} /\ v # w
        BY <2>2 DEF TypeOK
      <3>2. \A v \in Workers : wpc[v] \in Holding /\ v # w
                                 => wjob[v] \in Jobs /\ wjob[v] # wjob[w]
        BY DEF OnePlace, InHands, TypeOK
      <3> QED
        BY <2>2, <3>1, <3>2 DEF AttemptsBounded, TypeOK
    <2> QED
      BY <2>3, <2>4, <2>5 DEF AttemptsBounded
  <1>5. ASSUME NEW w \in Workers, Requeue(w)
        PROVE  AttemptsBounded'
    <2>1. wjob[w] \in Jobs /\ attempt[wjob[w]] < MaxAttempts
      BY <1>5 DEF Requeue, OnePlace, InHands, AttemptsBounded, TypeOK, Holding
    <2> QED
      BY <1>5, <2>1, AttemptsMove DEF Requeue
  <1>6. ASSUME NEW w \in Workers,
               \/ DropCancelled(w) \/ Succeed(w) \/ FailBasic(w) \/ FailDead(w)
               \/ RequeueGivesUp(w)
        PROVE  AttemptsBounded'
    <2>1. /\ wpc[w] \in Holding /\ attempt' = attempt /\ LetGo(w)
          /\ \E to \in Finished : Place(wjob[w], to)
      BY <1>6
      DEF DropCancelled, Succeed, FailBasic, FailDead, RequeueGivesUp, Ends, Holding, Finished
    <2>2. wjob[w] \in Jobs
      BY <2>1 DEF OnePlace, InHands, TypeOK
    <2> QED
      BY <2>1, <2>2, AttemptsMove
  <1>7. ASSUME NEW w \in Workers,
               \/ WorkerTop(w) \/ WorkerGate(w) \/ WorkerPaused(w) \/ PollMisses(w)
               \/ WorkerExitCheck(w) \/ WorkerReap(w) \/ WorkerSelect(w) \/ WorkerLeaves(w)
               \/ StartSpawns(w) \/ ScaleSpawns(w)
        PROVE  AttemptsBounded'
    <2>1. PICK pc : wpc' = [wpc EXCEPT ![w] = pc] /\ pc \notin Holding
      <3> \A pc \in {"top", "gate", "leaving", "idleBasic", "waitBasic"} : pc \notin Holding
        BY DEF Holding
      <3>1. CASE WorkerTop(w)
        BY <3>1, Zenon DEF WorkerTop, Goto
      <3>2. CASE WorkerGate(w) \/ WorkerPaused(w) \/ WorkerSelect(w) \/ WorkerLeaves(w)
        BY <3>2 DEF WorkerGate, WorkerPaused, WorkerSelect, WorkerLeaves, Goto, Holding
      <3>3. CASE PollMisses(w)
        <4>1. AfterMiss[wpc[w]] \notin Holding
          BY <3>3 DEF PollMisses, Polling, Polls, AfterMiss, Holding
        <4> QED
          BY <3>3, <4>1 DEF PollMisses, Goto
      <3>4. CASE WorkerExitCheck(w)
        <4>1. AfterExitCheck[wpc[w]] \notin Holding /\ "reap" \notin Holding
          BY <3>4 DEF WorkerExitCheck, ExitChecks, AfterExitCheck, Holding
        <4> QED
          BY <3>4, <4>1 DEF WorkerExitCheck, Goto
      <3>5. CASE WorkerReap(w)
        BY <3>5, Zenon DEF WorkerReap, Goto
      <3>6. CASE StartSpawns(w) \/ ScaleSpawns(w)
        BY <3>6 DEF StartSpawns, ScaleSpawns, Spawn, Holding
      <3> QED
        BY <1>7, <3>1, <3>2, <3>3, <3>4, <3>5, <3>6
    <2>2. UNCHANGED <<wjob, job, attempt>>
      BY <1>7
      DEF WorkerTop, WorkerGate, WorkerPaused, PollMisses, WorkerExitCheck, WorkerReap,
          WorkerSelect, WorkerLeaves, StartSpawns, ScaleSpawns, Goto, Spawn
    <2> QED
      BY <2>1, <2>2, AttemptsGoto
  <1>8. ASSUME NEW w \in Workers,
               Postpone(w) \/ FailRetry(w) \/ RequeueMisses(w) \/ RequeueAgain(w)
        PROVE  AttemptsBounded'
    <2>1. PICK pc : Goto(w, pc)
      BY <1>8 DEF Postpone, FailRetry, RequeueMisses, RequeueAgain
    <2>2. wpc[w] \in Holding /\ UNCHANGED <<job, attempt>>
      BY <1>8 DEF Postpone, FailRetry, RequeueMisses, RequeueAgain, Holding
    <2>3. attempt[wjob[w]] < MaxAttempts
      BY <1>8, <2>2
      DEF Postpone, FailRetry, MayRetry, RequeueMisses, RequeueAgain, AttemptsBounded
    <2> QED
      BY <2>1, <2>2, <2>3, AttemptsGoto DEF Goto
  <1>9. ASSUME NEW w \in Workers, Worker(w) \/ StartSpawns(w) \/ ScaleSpawns(w)
        PROVE  AttemptsBounded'
    BY <1>3, <1>4, <1>5, <1>6, <1>7, <1>8, <1>9 DEF Worker, Execute
  <1>10. CASE ReplayCalls \/ ReplayTakes \/ Purge
    <2>1. \A j \in Jobs : job'[j] \in {"new", "pushing", "missed"} \cup Waiting
                            => job'[j] = job[j]
      BY <1>10 DEF ReplayCalls, ReplayTakes, Purge, Waiting
    <2>2. UNCHANGED <<workers, attempt>>
      BY <1>10 DEF ReplayCalls, ReplayTakes, Purge
    <2> QED
      BY <2>1, <2>2 DEF AttemptsBounded, workers
  <1>11. CASE ReplayPushes
    <2>1. Head(replay) \in Jobs /\ job[Head(replay)] = "replay"
      BY <1>11, TailOfList DEF ReplayPushes, OnePlace, Listed, Lists, TypeOK
    <2>2. /\ \E to \in {"heap", "dead"} : Place(Head(replay), to)
          /\ attempt' = [attempt EXCEPT ![Head(replay)] = 0]
          /\ UNCHANGED workers
      BY <1>11, Zenon DEF ReplayPushes
    <2>3. 0 < MaxAttempts /\ 0 <= MaxAttempts
      BY ConfigAssumption DEF ConfigAssumption, NormalConfig
    <2>4. \A k \in Jobs : attempt'[k] = attempt[k] \/ attempt'[k] = 0
      BY <2>2 DEF TypeOK
    <2>5. \A k \in Jobs : k # Head(replay) => job'[k] = job[k] /\ attempt'[k] = attempt[k]
      BY <2>2 DEF Place, TypeOK
    <2>6. attempt'[Head(replay)] = 0
      BY <2>1, <2>2 DEF TypeOK
    <2>7. \A v \in Workers : wpc[v] \in Holding => wjob[v] \in Jobs
      BY DEF OnePlace, InHands, TypeOK
    <2> QED
      BY <2>2, <2>3, <2>4, <2>5, <2>6, <2>7 DEF AttemptsBounded, workers
  <1>12. CASE \/ \E s \in Stoppers : ShutdownLoads(s) \/ Shutdown(s) \/ ShutdownGivesUp(s)
              \/ Start \/ ScaleTick \/ ScaleStops \/ Pause \/ Resume
              \/ TerminateSwaps \/ Terminate
    BY <1>1, <1>12
    DEF ShutdownLoads, Shutdown, ShutdownStores, ShutdownClosesScale, ShutdownClosesFifos,
        ShutdownClosesHeap, ShutdownReturns, ShutdownGivesUp, Stopper, Start, ScaleTick,
        ScaleStops, Pause, Resume, TerminateSwaps, Terminate, TerminateCancels,
        TerminateClosesFifos, TerminateClosesHeap, Terminator, workers
  <1>13. CASE UNCHANGED vars
    BY <1>1, <1>13 DEF vars, workers
  <1> QED
    BY <1>2, <1>9, <1>10, <1>11, <1>12, <1>13 DEF Next, Replay

\* However often a job is postponed, requeued and retried, it is begun at most
\* MaxAttempts times between two replays.
THEOREM AttemptsAreBounded == Spec => []AttemptsBounded
  <1>1. Init => AttemptsBounded
    BY ConfigAssumption DEF Init, AttemptsBounded, ConfigAssumption, NormalConfig, Holding
  <1> QED
    BY <1>1, AttemptsStep, PlaceAndTypes, PTL DEF Spec
-----------------------------------------------------------------------------
\* Adding one element to a finite set, and taking one out of it.
LEMMA OneMore ==
    ASSUME NEW S, IsFiniteSet(S), NEW x, NEW n \in Nat, Cardinality(S) < n
    PROVE  IsFiniteSet(S \cup {x}) /\ Cardinality(S \cup {x}) <= n
  <1>1. /\ IsFiniteSet(S \cup {x})
        /\ Cardinality(S \cup {x}) = IF x \in S THEN Cardinality(S) ELSE Cardinality(S) + 1
    BY FS_AddElement, Zenon
  <1>2. Cardinality(S) \in Nat
    BY FS_CardinalityType
  <1> QED
    BY <1>1, <1>2

LEMMA OneLess ==
    ASSUME NEW S, IsFiniteSet(S), NEW x
    PROVE  /\ IsFiniteSet(S \ {x})
           /\ Cardinality(S) \in Nat
           /\ Cardinality(S \ {x}) \in Nat
           /\ Cardinality(S \ {x}) <= Cardinality(S)
           /\ x \in S => Cardinality(S \ {x}) < Cardinality(S)
  <1>1. /\ IsFiniteSet(S \ {x})
        /\ Cardinality(S \ {x}) = IF x \in S THEN Cardinality(S) - 1 ELSE Cardinality(S)
    BY FS_RemoveElement, Zenon
  <1>2. Cardinality(S) \in Nat /\ Cardinality(S \ {x}) \in Nat
    BY <1>1, FS_CardinalityType
  <1> QED
    BY <1>1, <1>2

HeapBounded == IsFiniteSet(heap) /\ QueuesBounded

LEMMA BoundedStep == TypeOK /\ OnePlace /\ HeapBounded /\ [Next]_vars => HeapBounded'
  <1> SUFFICES ASSUME TypeOK, OnePlace, HeapBounded, [Next]_vars
               PROVE  HeapBounded'
    OBVIOUS
  <1> USE DEF HeapBounded, QueuesBounded
  <1>0. QueueSize \in Nat /\ SpillMax \in Nat
    BY ConfigAssumption DEF ConfigAssumption, NormalConfig
  <1>1. CASE UNCHANGED queues
    BY <1>1 DEF queues
  <1>2. ASSUME NEW x, HeapRoom, heap' = heap \cup {x}, UNCHANGED <<basicq, fastq, spill>>
        PROVE  HeapBounded'
    BY <1>0, <1>2, OneMore DEF HeapRoom
  <1>3. ASSUME NEW j \in Jobs, SubmitCheck(j) \/ Submit(j) \/ Elapse(j) \/ CancelJob(j)
        PROVE  HeapBounded'
    <2>1. CASE PushBasic(j)
      <3>1. Len(basicq') <= QueueSize
        BY <1>0, <2>1 DEF PushBasic, FifoRoom, TypeOK
      <3> QED
        BY <2>1, <3>1 DEF PushBasic
    <2>2. CASE PushFast(j)
      <3>1. Len(fastq') <= QueueSize
        BY <1>0, <2>2 DEF PushFast, FifoRoom, TypeOK
      <3> QED
        BY <2>2, <3>1 DEF PushFast
    <2>3. CASE SpillOver(j)
      <3>1. SpillMax > 0 => Len(spill') <= SpillMax
        BY <1>0, <2>3 DEF SpillOver, SpillRoom, TypeOK
      <3> QED
        BY <2>3, <3>1 DEF SpillOver
    <2>4. CASE PushHeap(j)
      BY <1>2, <2>4 DEF PushHeap
    <2>5. ASSUME NEW victim \in heap, DropFront(j, victim)
          PROVE  HeapBounded'
      <3>1. /\ heap' = (heap \ {victim}) \cup {j}
            /\ UNCHANGED <<basicq, fastq, spill>>
        BY <2>5 DEF DropFront
      <3>2. /\ IsFiniteSet(heap \ {victim})
            /\ Cardinality(heap \ {victim}) < QueueSize
        BY <1>0, OneLess
      <3>3. IsFiniteSet(heap') /\ Cardinality(heap') <= QueueSize
        BY <1>0, <3>1, <3>2, OneMore
      <3> QED
        BY <3>1, <3>3
    <2>6. CASE Elapse(j)
      BY <2>6 DEF Elapse
    <2>7. CASE SubmitCheck(j) \/ PushMisses(j) \/ TryAgain(j) \/ Reject(j) \/ CancelJob(j)
      BY <1>1, <2>7 DEF SubmitCheck, PushMisses, TryAgain, Reject, CancelJob
    <2> QED
      BY <1>3, <2>1, <2>2, <2>3, <2>4, <2>5, <2>6, <2>7 DEF Submit
  <1>4. ASSUME NEW w \in Workers, Worker(w)
        PROVE  HeapBounded'
    <2>1. CASE PollBasic(w)
      <3>1. Len(basicq') <= QueueSize
        BY <1>0, <2>1 DEF PollBasic, TypeOK
      <3> QED
        BY <2>1, <3>1 DEF PollBasic
    <2>2. CASE PollFast(w)
      <3>1. Len(fastq') <= QueueSize
        BY <1>0, <2>2 DEF PollFast, TypeOK
      <3> QED
        BY <2>2, <3>1 DEF PollFast
    <2>3. CASE PollSpill(w)
      <3>1. Spillover /\ SpillMax > 0 => Len(spill') <= SpillMax
        BY <1>0, <2>3 DEF PollSpill, TypeOK
      <3> QED
        BY <2>3, <3>1 DEF PollSpill
    <2>4. CASE PollHeap(w)
      <3>1. PICK j : heap' = heap \ {j} /\ UNCHANGED <<basicq, fastq, spill>>
        BY <2>4 DEF PollHeap
      <3>2. IsFiniteSet(heap') /\ Cardinality(heap') <= QueueSize
        BY <1>0, <3>1, OneLess
      <3> QED
        BY <3>1, <3>2
    <2>5. CASE Requeue(w)
      BY <1>2, <2>5 DEF Requeue
    <2>6. CASE \/ WorkerTop(w) \/ WorkerGate(w) \/ WorkerPaused(w) \/ PollMisses(w)
               \/ WorkerExitCheck(w) \/ WorkerReap(w) \/ WorkerSelect(w) \/ WorkerLeaves(w)
               \/ DropCancelled(w) \/ Postpone(w) \/ Begin(w) \/ Succeed(w) \/ FailBasic(w)
               \/ FailRetry(w) \/ FailDead(w) \/ RequeueMisses(w) \/ RequeueAgain(w)
               \/ RequeueGivesUp(w)
      BY <1>1, <2>6
      DEF WorkerTop, WorkerGate, WorkerPaused, PollMisses, WorkerExitCheck, WorkerReap,
          WorkerSelect, WorkerLeaves, DropCancelled, Postpone, Begin, Succeed, FailBasic,
          FailRetry, FailDead, RequeueMisses, RequeueAgain, RequeueGivesUp, Ends
    <2> QED
      BY <1>4, <2>1, <2>2, <2>3, <2>4, <2>5, <2>6 DEF Worker, Execute
  <1>5. CASE ReplayPushes
    <2>1. UNCHANGED <<basicq, fastq, spill>>
      BY <1>5 DEF ReplayPushes
    <2>2. (HeapRoom /\ heap' = heap \cup {Head(replay)}) \/ heap' = heap
      BY <1>5, Zenon DEF ReplayPushes
    <2> QED
      BY <1>2, <2>1, <2>2
  <1>6. CASE \/ \E w \in Workers : StartSpawns(w) \/ ScaleSpawns(w)
             \/ \E s \in Stoppers : ShutdownLoads(s) \/ Shutdown(s) \/ ShutdownGivesUp(s)
             \/ Start \/ ScaleTick \/ ScaleStops \/ Pause \/ Resume
             \/ TerminateSwaps \/ Terminate \/ ReplayCalls \/ ReplayTakes \/ Purge
    BY <1>1, <1>6
    DEF StartSpawns, ScaleSpawns, ShutdownLoads, Shutdown, ShutdownStores,
        ShutdownClosesScale, ShutdownClosesFifos, ShutdownClosesHeap, ShutdownReturns,
        ShutdownGivesUp, Stopper, Start, ScaleTick, ScaleStops, Pause, Resume,
        TerminateSwaps, Terminate, TerminateCancels, TerminateClosesFifos,
        TerminateClosesHeap, Terminator, ReplayCalls, ReplayTakes, Purge
  <1>7. CASE UNCHANGED vars
    BY <1>1, <1>7 DEF vars
  <1> QED
    BY <1>3, <1>4, <1>5, <1>6, <1>7 DEF Next, Replay

\* Submitters, retries and replays together never overfill a queue.
THEOREM QueuesAreBounded == Spec => []QueuesBounded
  <1>1. Init => HeapBounded
    <2>1. IsFiniteSet({}) /\ Cardinality({}) = 0
      BY FS_EmptySet
    <2> QED
      BY <2>1, ConfigAssumption DEF Init, HeapBounded, QueuesBounded, ConfigAssumption, NormalConfig
  <1>2. HeapBounded => QueuesBounded
    BY DEF HeapBounded
  <1> QED
    BY <1>1, <1>2, BoundedStep, PlaceAndTypes, PTL DEF Spec
-----------------------------------------------------------------------------
(* Who is spawned and who leaves.  A step of Next adds one worker to Live,  *)
(* takes one out, or leaves Live as it is.                                  *)

LEMMA LiveGoto ==
    ASSUME TypeOK, NEW w \in Workers, NEW pc, pc # "none", wpc[w] # "none",
           wpc' = [wpc EXCEPT ![w] = pc]
    PROVE  Live' = Live
  BY DEF TypeOK, Live

\* What the steps of a worker do to Live.
LEMMA LiveWorker ==
    ASSUME TypeOK, NEW w \in Workers, Worker(w)
    PROVE  /\ Live' \subseteq Live
           /\ UNCHANGED <<closing, control>>
  <1> USE DEF Holding
  <1>1. ASSUME NEW pc, pc # "none", wpc' = [wpc EXCEPT ![w] = pc]
        PROVE  wpc[w] # "none" => Live' = Live
    BY <1>1, LiveGoto
  <1>2. CASE PollBasic(w) \/ PollFast(w) \/ PollSpill(w) \/ PollHeap(w)
    <2>1. wpc[w] # "none"
      BY <1>2 DEF PollBasic, PollFast, PollSpill, PollHeap, Polling, Polls
    <2>2. wpc' = [wpc EXCEPT ![w] = "got"] /\ UNCHANGED <<closing, control>>
      BY <1>2 DEF PollBasic, PollFast, PollSpill, PollHeap, Take
    <2> QED
      BY <1>1, <2>1, <2>2
  <1>3. CASE \/ DropCancelled(w) \/ Succeed(w) \/ FailBasic(w) \/ FailDead(w)
             \/ RequeueGivesUp(w) \/ Requeue(w)
    <2>1. /\ wpc[w] # "none" /\ wpc' = [wpc EXCEPT ![w] = "top"]
          /\ UNCHANGED <<closing, control>>
      BY <1>3
      DEF DropCancelled, Succeed, FailBasic, FailDead, RequeueGivesUp, Requeue, Ends, LetGo
    <2> QED
      BY <1>1, <2>1
  <1>4. CASE Postpone(w) \/ Begin(w) \/ FailRetry(w) \/ RequeueMisses(w) \/ RequeueAgain(w)
    <2>1. /\ wpc[w] # "none"
          /\ \E pc \in Holding : wpc' = [wpc EXCEPT ![w] = pc]
          /\ UNCHANGED <<closing, control>>
      BY <1>4 DEF Postpone, Begin, FailRetry, RequeueMisses, RequeueAgain, Goto
    <2> QED
      BY <1>1, <2>1
  <1>5. CASE WorkerTop(w) \/ WorkerGate(w) \/ WorkerPaused(w) \/ WorkerSelect(w)
    <2>1. /\ wpc[w] # "none"
          /\ \E pc \in {"top", "gate", "paused", "basic", "leaving"} :
                wpc' = [wpc EXCEPT ![w] = pc]
          /\ UNCHANGED <<closing, control>>
      BY <1>5, Zenon DEF WorkerTop, WorkerGate, WorkerPaused, WorkerSelect, Goto
    <2> QED
      BY <1>1, <2>1
  <1>6. CASE PollMisses(w)
    <2>1. wpc[w] # "none" /\ AfterMiss[wpc[w]] # "none"
      BY <1>6 DEF PollMisses, Polling, Polls, AfterMiss
    <2> QED
      BY <1>1, <1>6, <2>1 DEF PollMisses, Goto
  <1>7. CASE WorkerExitCheck(w)
    <2>1. wpc[w] # "none" /\ AfterExitCheck[wpc[w]] # "none"
      BY <1>7 DEF WorkerExitCheck, ExitChecks, AfterExitCheck
    <2> QED
      BY <1>1, <1>7, <2>1 DEF WorkerExitCheck, Goto
  <1>8. CASE WorkerReap(w)
    <2>1. /\ wpc[w] # "none"
          /\ \E pc \in {"idleBasic", "waitBasic", "leaving", "top"} :
                wpc' = [wpc EXCEPT ![w] = pc]
          /\ UNCHANGED <<closing, control>>
      BY <1>8 DEF WorkerReap, Goto
    <2> QED
      BY <1>1, <2>1
  <1>9. CASE WorkerLeaves(w)
    BY <1>9 DEF WorkerLeaves, Goto, TypeOK, Live
  <1> QED
    BY <1>2, <1>3, <1>4, <1>5, <1>6, <1>7, <1>8, <1>9 DEF Worker, Execute

\* A spawned worker is one more.
LEMMA LiveSpawn ==
    ASSUME TypeOK, NEW w \in Workers, Spawn(w)
    PROVE  Live' = Live \cup {w} /\ w \notin Live
  BY DEF Spawn, TypeOK, Live

\* Steps that neither spawn nor scale nor are a worker's.
LEMMA LiveKept ==
    ASSUME [Next]_vars, ~ \E w \in Workers : Worker(w) \/ StartSpawns(w) \/ ScaleSpawns(w)
    PROVE  wpc' = wpc
  <1>1. ASSUME NEW j \in Jobs, SubmitCheck(j) \/ Submit(j) \/ Elapse(j) \/ CancelJob(j)
        PROVE  wpc' = wpc
    BY <1>1 DEF SubmitCheck, Submit, PushBasic, PushFast, PushHeap, DropFront, PushMisses,
                TryAgain, SpillOver, Reject, Elapse, CancelJob, workers
  <1>2. ASSUME NEW s \in Stoppers, ShutdownLoads(s) \/ Shutdown(s) \/ ShutdownGivesUp(s)
        PROVE  wpc' = wpc
    BY <1>2 DEF ShutdownLoads, Shutdown, ShutdownStores, ShutdownClosesScale,
                ShutdownClosesFifos, ShutdownClosesHeap, ShutdownReturns, ShutdownGivesUp,
                Stopper, workers
  <1>3. CASE \/ Start \/ ScaleTick \/ ScaleStops \/ Pause \/ Resume \/ TerminateSwaps
             \/ Terminate \/ ReplayCalls \/ Replay \/ Purge
    BY <1>3 DEF Start, ScaleTick, ScaleStops, Pause, Resume, TerminateSwaps, Terminate,
                TerminateCancels, TerminateClosesFifos, TerminateClosesHeap, Terminator,
                ReplayCalls, Replay, ReplayTakes, ReplayPushes, Purge, workers
  <1>4. CASE UNCHANGED vars
    BY <1>4 DEF vars, workers
  <1> QED
    BY <1>1, <1>2, <1>3, <1>4 DEF Next
-----------------------------------------------------------------------------
\* The number of workers at each stage of Start and of the autoscaler, which
\* acts on a number it has read one step before.
SpawnCount ==
    /\ startpc = "idle" => Live = {} /\ scalepc = "off"
    /\ startpc = "spawning" => Cardinality(Live) + toSpawn <= MinWorkers /\ scalepc = "off"
    /\ scalepc = "spawn" => Cardinality(Live) < MaxWorkers
    /\ Cardinality(Live) <= MaxWorkers

LEMMA LiveFinite == IsFiniteSet(Live) /\ Cardinality(Live) \in Nat
  <1>1. Live \subseteq Workers /\ IsFiniteSet(Workers)
    BY ConfigAssumption DEF Live, ConfigAssumption, NormalConfig
  <1>2. IsFiniteSet(Live)
    BY <1>1, FS_Subset
  <1> QED
    BY <1>2, FS_CardinalityType

LEMMA SpawnStep == TypeOK /\ SpawnCount /\ [Next]_vars => SpawnCount'
  <1> SUFFICES ASSUME TypeOK, SpawnCount, [Next]_vars
               PROVE  SpawnCount'
    OBVIOUS
  <1>0. /\ MinWorkers \in Nat /\ MaxWorkers \in Nat /\ MinWorkers <= MaxWorkers /\ 0 < MinWorkers
        /\ Cardinality(Live) \in Nat /\ toSpawn \in Nat
    BY ConfigAssumption, LiveFinite DEF ConfigAssumption, NormalConfig, TypeOK
  <1>1. CASE UNCHANGED <<startpc, toSpawn, scalepc>> /\ Live' = Live
    BY <1>1 DEF SpawnCount
  <1>2. ASSUME NEW w \in Workers, Worker(w)
        PROVE  SpawnCount'
    <2>1. Live' \subseteq Live /\ UNCHANGED <<startpc, toSpawn, scalepc>>
      BY <1>2, LiveWorker DEF control
    <2>2. Cardinality(Live') \in Nat /\ Cardinality(Live') <= Cardinality(Live)
      <3>1. IsFiniteSet(Live') /\ Cardinality(Live') <= Cardinality(Live)
        BY <2>1, LiveFinite, FS_Subset
      <3> QED
        BY <3>1, FS_CardinalityType
    <2> QED
      BY <1>0, <2>1, <2>2 DEF SpawnCount
  <1>3. ASSUME NEW w \in Workers, StartSpawns(w)
        PROVE  SpawnCount'
    <2>1. Cardinality(Live') = Cardinality(Live) + 1
      BY <1>3, LiveSpawn, LiveFinite, FS_AddElement DEF StartSpawns
    <2>2. startpc = "spawning" /\ toSpawn' = toSpawn - 1 /\ toSpawn > 0
      BY <1>3 DEF StartSpawns, TypeOK
    <2>3. CASE toSpawn > 1
      BY <1>0, <1>3, <2>1, <2>2, <2>3 DEF StartSpawns, SpawnCount
    <2>4. CASE ~(toSpawn > 1)
      <3>1. startpc' = "done" /\ scalepc' # "spawn"
        BY <1>3, <2>4 DEF StartSpawns
      <3> QED
        BY <1>0, <2>1, <2>2, <3>1 DEF SpawnCount
    <2> QED
      BY <2>3, <2>4
  <1>4. ASSUME NEW w \in Workers, ScaleSpawns(w)
        PROVE  SpawnCount'
    <2>1. Cardinality(Live') = Cardinality(Live) + 1
      BY <1>4, LiveSpawn, LiveFinite, FS_AddElement DEF ScaleSpawns
    <2> QED
      BY <1>0, <1>4, <2>1 DEF ScaleSpawns, SpawnCount
  <1>5. ASSUME ~ \E w \in Workers : Worker(w) \/ StartSpawns(w) \/ ScaleSpawns(w)
        PROVE  SpawnCount'
    <2>1. Live' = Live
      BY <1>5, LiveKept DEF Live
    <2>2. CASE Start
      <3>1. startpc = "idle" /\ startpc' = "spawning" /\ toSpawn' = MinWorkers /\ scalepc' = scalepc
        BY <2>2 DEF Start
      <3>2. Cardinality({}) = 0
        BY FS_EmptySet
      <3> QED
        BY <1>0, <2>1, <3>1, <3>2 DEF SpawnCount
    <2>3. CASE ScaleTick
      <3>1. /\ scalepc = "wait" /\ Cardinality(Live) < MaxWorkers
            /\ UNCHANGED <<startpc, toSpawn>>
        BY <2>3 DEF ScaleTick, MoreWorkers
      <3> QED
        BY <2>1, <3>1 DEF SpawnCount
    <2>4. CASE ScaleStops
      BY <2>1, <2>4 DEF ScaleStops, SpawnCount
    <2>5. ASSUME NEW j \in Jobs, SubmitCheck(j) \/ Submit(j) \/ Elapse(j) \/ CancelJob(j)
          PROVE  UNCHANGED <<startpc, toSpawn, scalepc>>
      BY <2>5 DEF SubmitCheck, Submit, PushBasic, PushFast, PushHeap, DropFront, PushMisses,
                  TryAgain, SpillOver, Reject, Elapse, CancelJob, control
    <2>6. ASSUME NEW s \in Stoppers, ShutdownLoads(s) \/ Shutdown(s) \/ ShutdownGivesUp(s)
          PROVE  UNCHANGED <<startpc, toSpawn, scalepc>>
      BY <2>6 DEF ShutdownLoads, Shutdown, ShutdownStores, ShutdownClosesScale,
                  ShutdownClosesFifos, ShutdownClosesHeap, ShutdownReturns,
                  ShutdownGivesUp, Stopper
    <2>7. ASSUME \/ Pause \/ Resume \/ TerminateSwaps \/ Terminate
                 \/ ReplayCalls \/ Replay \/ Purge
          PROVE  UNCHANGED <<startpc, toSpawn, scalepc>>
      BY <2>7 DEF Pause, Resume, TerminateSwaps, Terminate, TerminateCancels,
                  TerminateClosesFifos, TerminateClosesHeap, Terminator,
                  ReplayCalls, Replay, ReplayTakes, ReplayPushes, Purge, control
    <2>8. CASE UNCHANGED vars
      BY <1>1, <2>1, <2>8 DEF vars, control
    <2> QED
      BY <1>1, <1>5, <2>1, <2>2, <2>3, <2>4, <2>5, <2>6, <2>7, <2>8 DEF Next
  <1> QED
    BY <1>2, <1>3, <1>4, <1>5

\* However Start, the autoscaler and the leaving workers interleave, there are
\* never more workers than MaxWorkers.
THEOREM WorkersAreBounded == Spec => []WorkersBounded
  <1>1. Init => SpawnCount
    <2>1. SUFFICES ASSUME Init PROVE SpawnCount
      OBVIOUS
    <2>2. Live = {} /\ Cardinality({}) = 0
      BY <2>1, FS_EmptySet DEF Init, Live
    <2> QED
      BY <2>1, <2>2, ConfigAssumption DEF Init, SpawnCount, ConfigAssumption, NormalConfig
  <1>2. SpawnCount => WorkersBounded
    BY DEF SpawnCount, WorkersBounded
  <1> QED
    BY <1>1, <1>2, SpawnStep, PlaceAndTypes, PTL DEF Spec
-----------------------------------------------------------------------------
(* Paused and shut down. *)

\* Where a worker can be that has begun a job since the pool was paused: it
\* still has that job, or is on the way round to the pause gate, or waits
\* there.  None of these places leads to a poll without passing the gate.
Halted == {"run", "retry", "retrySpin", "top", "gate", "paused", "leaving", "none"}

\* Why a pause takes effect within one job: the count starts over with every
\* change of the state, and a worker that has begun a job is halted.
PauseInv ==
    /\ begun \in [Workers -> 0..1]
    /\ \A w \in Workers : begun[w] = 1 => state = "paused" /\ wpc[w] \in Halted

\* A worker's step moves that worker only.
LEMMA WorkerMoves ==
    ASSUME NEW w \in Workers, Worker(w)
    PROVE  \E pc : wpc' = [wpc EXCEPT ![w] = pc]
  <1> USE DEF Goto, LetGo, Ends, Take
  <1>1. CASE \/ WorkerTop(w) \/ WorkerGate(w) \/ WorkerPaused(w) \/ PollMisses(w)
             \/ WorkerExitCheck(w) \/ WorkerReap(w) \/ WorkerSelect(w) \/ WorkerLeaves(w)
    BY <1>1, Zenon DEF WorkerTop, WorkerGate, WorkerPaused, PollMisses, WorkerExitCheck,
                WorkerReap, WorkerSelect, WorkerLeaves
  <1>2. CASE PollBasic(w) \/ PollFast(w) \/ PollSpill(w) \/ PollHeap(w)
    BY <1>2, Zenon DEF PollBasic, PollFast, PollSpill, PollHeap
  <1>3. CASE Execute(w)
    BY <1>3, Zenon DEF Execute, DropCancelled, Postpone, Begin, Succeed, FailBasic, FailRetry, FailDead,
                Requeue, RequeueMisses, RequeueAgain, RequeueGivesUp
  <1> QED
    BY <1>1, <1>2, <1>3 DEF Worker

\* A worker's own step does not take it out of Halted while the pool is paused.
LEMMA HaltedWorker ==
    ASSUME TypeOK, NEW w \in Workers, Worker(w), state = "paused", wpc[w] \in Halted
    PROVE  wpc'[w] \in Halted
  <1>1. ASSUME NEW pc \in Halted, wpc' = [wpc EXCEPT ![w] = pc]
        PROVE  wpc'[w] \in Halted
    BY <1>1 DEF TypeOK
  <1>2. wpc[w] \notin DOMAIN Polls /\ wpc[w] \notin DOMAIN ExitChecks
    BY DEF Halted, Polls, ExitChecks
  <1>3. CASE WorkerTop(w) \/ WorkerGate(w) \/ WorkerPaused(w)
    BY <1>1, <1>3, Zenon DEF WorkerTop, WorkerGate, WorkerPaused, Goto, Halted
  <1>4. CASE PollBasic(w) \/ PollFast(w) \/ PollSpill(w) \/ PollHeap(w) \/ PollMisses(w)
    BY <1>2, <1>4 DEF PollBasic, PollFast, PollSpill, PollHeap, PollMisses, Polling
  <1>5. CASE WorkerExitCheck(w) \/ WorkerReap(w) \/ WorkerSelect(w)
    BY <1>2, <1>5 DEF WorkerExitCheck, WorkerReap, WorkerSelect, Halted
  <1>6. CASE WorkerLeaves(w)
    BY <1>1, <1>6 DEF WorkerLeaves, Goto, Halted
  <1>7. CASE DropCancelled(w) \/ Postpone(w) \/ Begin(w)
    BY <1>7 DEF DropCancelled, Postpone, Begin, Halted
  <1>8. CASE Succeed(w) \/ FailBasic(w) \/ FailDead(w) \/ Requeue(w) \/ RequeueGivesUp(w)
    <2>1. LetGo(w)
      BY <1>8 DEF Succeed, FailBasic, FailDead, Requeue, RequeueGivesUp, Ends
    <2> QED
      BY <1>1, <2>1 DEF LetGo, Halted
  <1>9. CASE FailRetry(w) \/ RequeueMisses(w) \/ RequeueAgain(w)
    BY <1>1, <1>9 DEF FailRetry, RequeueMisses, RequeueAgain, Goto, Halted
  <1> QED
    BY <1>3, <1>4, <1>5, <1>6, <1>7, <1>8, <1>9 DEF Worker, Execute

\* Nor does any other step.
LEMMA HaltedStep ==
    ASSUME TypeOK, [Next]_vars, state = "paused",
           NEW w \in Workers, wpc[w] \in Halted
    PROVE  wpc'[w] \in Halted
  <1>1. ASSUME NEW v \in Workers, Worker(v)
        PROVE  wpc'[w] \in Halted
    <2>1. CASE v = w
      BY <1>1, <2>1, HaltedWorker
    <2>2. CASE v # w
      <3>1. \E pc : wpc' = [wpc EXCEPT ![v] = pc]
        BY <1>1, WorkerMoves
      <3> QED
        BY <2>2, <3>1 DEF TypeOK
    <2> QED
      BY <2>1, <2>2
  <1>2. ASSUME NEW v \in Workers, StartSpawns(v) \/ ScaleSpawns(v)
        PROVE  wpc'[w] \in Halted
    BY <1>2 DEF StartSpawns, ScaleSpawns, Spawn, TypeOK, Halted
  <1>3. CASE ~ \E v \in Workers : Worker(v) \/ StartSpawns(v) \/ ScaleSpawns(v)
    BY <1>3, LiveKept
  <1> QED
    BY <1>1, <1>2, <1>3

LEMMA PauseStep ==
    ASSUME TypeOK, TypeOK', PauseInv, [PauseNext]_pauseVars
    PROVE  PauseInv'
  <1>1. CASE UNCHANGED pauseVars
    BY <1>1 DEF PauseInv, pauseVars, vars, closing, workers
  <1>2. CASE PauseNext
    <2>1. [Next]_vars
      BY <1>2 DEF PauseNext
    <2>2. ASSUME NEW w \in Workers
          PROVE  /\ begun'[w] \in 0..1
                 /\ begun'[w] = 1 => state' = "paused" /\ wpc'[w] \in Halted
      <3>1. begun'[w] = CASE ~StillPaused -> 0
                          [] StillPaused /\ wpc[w] = "got" /\ wpc'[w] = "run" -> begun[w] + 1
                          [] OTHER -> begun[w]
        BY <1>2 DEF PauseNext
      <3>2. CASE ~StillPaused
        BY <3>1, <3>2
      <3>3. CASE StillPaused /\ wpc[w] = "got" /\ wpc'[w] = "run"
        <4>1. begun[w] = 0
          BY <3>3 DEF PauseInv, Halted
        <4> QED
          BY <3>1, <3>3, <4>1 DEF StillPaused, Halted
      <3>4. CASE StillPaused /\ ~(wpc[w] = "got" /\ wpc'[w] = "run")
        <4>1. begun'[w] = begun[w]
          BY <3>1, <3>4
        <4>2. wpc[w] \in Halted => wpc'[w] \in Halted
          BY <2>1, <3>4, HaltedStep DEF StillPaused
        <4> QED
          BY <3>4, <4>1, <4>2 DEF PauseInv, StillPaused
      <3> QED
        BY <3>2, <3>3, <3>4
    <2>3. begun' \in [Workers -> 0..1]
      <3>1. begun' = [w \in Workers |-> begun'[w]]
        BY <1>2 DEF PauseNext
      <3> QED
        BY <2>2, <3>1
    <2> QED
      BY <2>2, <2>3 DEF PauseInv
  <1> QED
    BY <1>1, <1>2

\* A pause takes effect within one job per worker, however it interleaves with
\* the workers' polls, with Resume, Shutdown, Terminate and the autoscaler.
THEOREM PauseHoldsWorkers == PauseSpec => []PauseBounds
  <1>1. PauseInit => TypeOK /\ OnePlace /\ PauseInv
    <2>1. PauseInit => PauseInv
      BY DEF PauseInit, PauseInv
    <2> QED
      BY <2>1, TypeInit, PlaceInit DEF PauseInit
  <1>2. TypeOK /\ OnePlace /\ PauseInv /\ [PauseNext]_pauseVars => (TypeOK /\ OnePlace /\ PauseInv)'
    <2>1. [PauseNext]_pauseVars => [Next]_vars
      BY DEF PauseNext, pauseVars
    <2> QED
      BY <2>1, TypeStep, PlaceStep, PauseStep
  <1>3. PauseInv => PauseBounds
    BY DEF PauseInv, PauseBounds
  <1> QED
    BY <1>1, <1>2, <1>3, PTL DEF PauseSpec
-----------------------------------------------------------------------------
(* Draining a pool of a fixed number of workers that does not spill.       *)

\* startAutoscaler does nothing.
NeverScales == AutoScale => MinWorkers = MaxWorkers

\* Where a worker is that will not look at a queue again before it leaves.
Past == [basicq |-> {"exitFast", "exitHeap", "leaving", "none"},
         fastq  |-> {"exitHeap", "leaving", "none"},
         heap   |-> {"leaving", "none"}]

\* A job that was accepted in time and waits in q is watched by a worker that
\* has not yet found q empty on its way out.
Watched(q) ==
    (\E j \in Jobs \ late : job[j] = q) => \E w \in Workers : wpc[w] \notin Past[q]

\* Who stops the pool begins after Start has spawned the workers; nobody spawns
\* another; and only he who has seen them all return cancels the context.
Orderly ==
    /\ spill = <<>>
    /\ scalepc = "off"
    /\ Cardinality(Live) <= MinWorkers
    /\ startpc = "spawning" => tpc = "idle" /\ \A s \in Stoppers : spc[s] = "idle"
    /\ (\E s \in Stoppers : spc[s] = "done") => Live = {}
    /\ ctxDone /\ tpc = "idle" => \E s \in Stoppers : spc[s] = "done"
    /\ state = "terminated" => tpc # "idle"

\* Why Shutdown leaves nothing behind.  As long as the pool accepts jobs, a
\* worker is not on its way out, and that worker watches what is accepted; a
\* worker that requeues a job comes back to the head of its loop and watches it.
DrainInv ==
    /\ Orderly
    /\ startpc = "done" /\ tpc = "idle" =>
          /\ state \in Accepting => \E w \in Workers : wpc[w] \notin {"exitBasic"} \cup Past["basicq"]
          /\ \A q \in DOMAIN Past : Watched(q)

LEMMA PastQueues ==
    /\ DOMAIN Past = {"basicq", "fastq", "heap"}
    /\ "top" \notin {"exitBasic"} \cup Past["basicq"]
    /\ \A q \in DOMAIN Past : Past[q] \subseteq Past["basicq"]
  BY DEF Past

\* A worker puts a job into a queue only on its way back to the head of its loop.
LEMMA WorkerRequeues ==
    ASSUME TypeOK, OnePlace, NEW w \in Workers, Worker(w),
           NEW j \in Jobs, NEW q \in DOMAIN Past, job'[j] = q
    PROVE  job[j] = q \/ wpc'[w] = "top"
  <1>1. CASE \/ WorkerTop(w) \/ WorkerGate(w) \/ WorkerPaused(w) \/ PollMisses(w)
             \/ WorkerExitCheck(w) \/ WorkerReap(w) \/ WorkerSelect(w) \/ WorkerLeaves(w)
             \/ Postpone(w) \/ Begin(w) \/ FailRetry(w) \/ RequeueMisses(w) \/ RequeueAgain(w)
    BY <1>1, Zenon
    DEF WorkerTop, WorkerGate, WorkerPaused, PollMisses, WorkerExitCheck, WorkerReap, WorkerSelect,
        WorkerLeaves, Postpone, Begin, FailRetry, RequeueMisses, RequeueAgain
  <1>2. ASSUME NEW k, Take(w, k)
        PROVE  job[j] = q
    BY <1>2, PastQueues DEF Take, Place, TypeOK
  <1>3. CASE PollBasic(w) \/ PollFast(w) \/ PollSpill(w) \/ PollHeap(w)
    BY <1>2, <1>3 DEF PollBasic, PollFast, PollSpill, PollHeap
  <1>4. CASE LetGo(w)
    BY <1>4 DEF LetGo, TypeOK
  <1>5. CASE \/ DropCancelled(w) \/ Succeed(w) \/ FailBasic(w) \/ FailDead(w) \/ Requeue(w)
             \/ RequeueGivesUp(w)
    BY <1>4, <1>5 DEF DropCancelled, Succeed, FailBasic, FailDead, Requeue, RequeueGivesUp, Ends
  <1> QED
    BY <1>1, <1>3, <1>5 DEF Worker, Execute

\* As long as the pool is not cancelled and nobody is one worker too many, the
\* way out leads through the exit checks.
LEMMA WorkerWayOut ==
    ASSUME TypeOK, Cardinality(Live) <= MinWorkers, NEW w \in Workers, Worker(w),
           ~ctxDone, state # "terminated", ~WorkerExitCheck(w), ~WorkerLeaves(w)
    PROVE  wpc'[w] \notin {"exitBasic"} \cup Past["basicq"]
  <1>1. ASSUME NEW pc, wpc' = [wpc EXCEPT ![w] = pc], pc \notin {"exitBasic"} \cup Past["basicq"]
        PROVE  wpc'[w] \notin {"exitBasic"} \cup Past["basicq"]
    BY <1>1 DEF TypeOK
  <1>2. CASE WorkerTop(w) \/ WorkerGate(w) \/ WorkerPaused(w) \/ WorkerSelect(w)
    <2>1. \E pc \in {"gate", "paused", "basic", "top"} : wpc' = [wpc EXCEPT ![w] = pc]
      BY <1>2, Zenon DEF WorkerTop, WorkerGate, WorkerPaused, WorkerSelect, Goto
    <2> QED
      BY <1>1, <2>1 DEF Past
  <1>3. CASE PollBasic(w) \/ PollFast(w) \/ PollSpill(w) \/ PollHeap(w)
    <2>1. wpc' = [wpc EXCEPT ![w] = "got"]
      BY <1>3 DEF PollBasic, PollFast, PollSpill, PollHeap, Take
    <2> QED
      BY <1>1, <2>1 DEF Past
  <1>4. CASE PollMisses(w)
    <2>1. wpc[w] \in DOMAIN Polls
      BY <1>4 DEF PollMisses, Polling
    <2>2. AfterMiss[wpc[w]] \notin {"exitBasic"} \cup Past["basicq"]
      BY <2>1 DEF Polls, AfterMiss, Past
    <2> QED
      BY <1>1, <1>4, <2>2 DEF PollMisses, Goto
  <1>5. CASE WorkerReap(w)
    <2>1. ~TooMany
      BY ConfigAssumption, LiveFinite DEF TooMany, ConfigAssumption, NormalConfig
    <2>2. \E pc \in {"waitBasic", "top"} : wpc' = [wpc EXCEPT ![w] = pc]
      BY <1>5, <2>1, Zenon DEF WorkerReap, Goto
    <2> QED
      BY <1>1, <2>2 DEF Past
  <1>6. CASE \/ DropCancelled(w) \/ Succeed(w) \/ FailBasic(w) \/ FailDead(w) \/ Requeue(w)
             \/ RequeueGivesUp(w)
    <2>1. wpc' = [wpc EXCEPT ![w] = "top"]
      BY <1>6 DEF DropCancelled, Succeed, FailBasic, FailDead, Requeue, RequeueGivesUp, Ends, LetGo
    <2> QED
      BY <1>1, <2>1 DEF Past
  <1>7. CASE Postpone(w) \/ Begin(w) \/ FailRetry(w) \/ RequeueMisses(w) \/ RequeueAgain(w)
    <2>1. \E pc \in Holding : wpc' = [wpc EXCEPT ![w] = pc]
      BY <1>7 DEF Postpone, Begin, FailRetry, RequeueMisses, RequeueAgain, Goto, Holding
    <2> QED
      BY <1>1, <2>1 DEF Past, Holding
  <1> QED
    BY <1>2, <1>3, <1>4, <1>5, <1>6, <1>7 DEF Worker, Execute

\* Where an exit check leads.
LEMMA WorkerChecks ==
    ASSUME TypeOK, NEW w \in Workers, WorkerExitCheck(w)
    PROVE  /\ UNCHANGED job
           /\ \/ wpc'[w] = "reap"
              \/ wpc[w] = "exit" /\ wpc'[w] = "exitBasic" /\ state = "stopping"
              \/ wpc[w] = "exitBasic" /\ wpc'[w] = "exitFast" /\ basicq = <<>>
              \/ wpc[w] = "exitFast" /\ wpc'[w] = "exitHeap" /\ fastq = <<>>
              \/ wpc[w] = "exitHeap" /\ wpc'[w] = "leaving" /\ heap = {}
  <1>1. /\ job' = job
        /\ wpc[w] \in {"exit", "exitBasic", "exitFast", "exitHeap"}
        /\ wpc'[w] = IF ExitChecks[wpc[w]] THEN AfterExitCheck[wpc[w]] ELSE "reap"
    BY DEF WorkerExitCheck, ExitChecks, Goto, TypeOK
  <1>2. CASE wpc'[w] # "reap"
    <2>1. wpc'[w] = AfterExitCheck[wpc[w]] /\ ExitChecks[wpc[w]]
      BY <1>1, <1>2
    <2>2. /\ ExitChecks["exit"] => state = "stopping"
          /\ ExitChecks["exitBasic"] => basicq = <<>>
          /\ ExitChecks["exitFast"] => fastq = <<>>
          /\ ExitChecks["exitHeap"] => heap = {}
      BY Zenon DEF ExitChecks
    <2> QED
      BY <1>1, <2>1, <2>2 DEF AfterExitCheck
  <1> QED
    BY <1>1, <1>2

\* A worker stops watching a queue only when it is empty.
LEMMA WorkerWatches ==
    ASSUME TypeOK, OnePlace, Cardinality(Live) <= MinWorkers, NEW w \in Workers, Worker(w),
           ~ctxDone, state # "terminated",
           NEW q \in DOMAIN Past, wpc[w] \notin Past[q], wpc'[w] \in Past[q]
    PROVE  \A j \in Jobs : job'[j] # q
  <1>1. WorkerExitCheck(w)
    <2>1. ~WorkerLeaves(w)
      BY DEF WorkerLeaves, Past
    <2> QED
      BY <2>1, WorkerWayOut, PastQueues
  <1>2. \/ wpc[w] = "exitBasic" /\ q = "basicq" /\ basicq = <<>>
        \/ wpc[w] = "exitFast" /\ q = "fastq" /\ fastq = <<>>
        \/ wpc[w] = "exitHeap" /\ q = "heap" /\ heap = {}
    BY <1>1, WorkerChecks DEF Past
  <1>3. /\ q = "basicq" => Range(basicq) = {j \in Jobs : job[j] = q}
        /\ q = "fastq" => Range(fastq) = {j \in Jobs : job[j] = q}
        /\ q = "heap" => heap = {j \in Jobs : job[j] = q}
    BY DEF OnePlace, Listed, Lists
  <1> QED
    BY <1>1, <1>2, <1>3, WorkerChecks, EmptyList

\* While the pool accepts jobs no worker begins its way out.
LEMMA WorkerStays ==
    ASSUME TypeOK, Cardinality(Live) <= MinWorkers, NEW w \in Workers, Worker(w),
           ~ctxDone, state \in Accepting,
           wpc[w] \notin {"exitBasic"} \cup Past["basicq"]
    PROVE  wpc'[w] \notin {"exitBasic"} \cup Past["basicq"]
  <1>1. state # "terminated" /\ state # "stopping"
    BY DEF Accepting
  <1>2. CASE WorkerExitCheck(w)
    BY <1>1, <1>2, WorkerChecks DEF Past
  <1>3. CASE WorkerLeaves(w)
    BY <1>3 DEF WorkerLeaves, Past
  <1> QED
    BY <1>1, <1>2, <1>3, WorkerWayOut

\* A worker at work adds nothing to the spill list and accepts nothing.
LEMMA WorkerSpills ==
    ASSUME TypeOK, NEW w \in Workers, Worker(w)
    PROVE  wpc[w] # "none" /\ late' = late /\ (spill = <<>> => spill' = <<>>)
  <1>1. CASE \/ WorkerTop(w) \/ WorkerGate(w) \/ WorkerPaused(w) \/ WorkerExitCheck(w)
             \/ WorkerReap(w) \/ WorkerSelect(w) \/ WorkerLeaves(w)
    <2>1. wpc[w] # "none"
      BY <1>1 DEF WorkerTop, WorkerGate, WorkerPaused, WorkerExitCheck, ExitChecks, WorkerReap,
                  WorkerSelect, WorkerLeaves
    <2>2. UNCHANGED <<queues, late>>
      BY <1>1, Zenon DEF WorkerTop, WorkerGate, WorkerPaused, WorkerExitCheck, WorkerReap,
                         WorkerSelect, WorkerLeaves
    <2> QED
      BY <2>1, <2>2 DEF queues
  <1>2. CASE PollBasic(w) \/ PollFast(w) \/ PollSpill(w) \/ PollHeap(w) \/ PollMisses(w)
    BY <1>2 DEF PollBasic, PollFast, PollSpill, PollHeap, PollMisses, Polling, Polls, Take, queues
  <1>3. CASE Postpone(w) \/ Begin(w) \/ FailRetry(w) \/ RequeueMisses(w) \/ RequeueAgain(w)
    BY <1>3 DEF Postpone, Begin, FailRetry, RequeueMisses, RequeueAgain, queues
  <1>4. CASE \/ DropCancelled(w) \/ Succeed(w) \/ FailBasic(w) \/ FailDead(w) \/ Requeue(w)
             \/ RequeueGivesUp(w)
    BY <1>4 DEF DropCancelled, Succeed, FailBasic, FailDead, Requeue, RequeueGivesUp, Ends, queues
  <1> QED
    BY <1>1, <1>2, <1>3, <1>4 DEF Worker, Execute

LEMMA DrainWorker ==
    ASSUME TypeOK, OnePlace, DrainInv,
           NEW w \in Workers, Worker(w)
    PROVE  DrainInv'
  <1>1. UNCHANGED <<state, ctxDone, startpc, tpc, spc, scalepc, late>> /\ Live' \subseteq Live
    BY LiveWorker, WorkerSpills DEF closing, control
  <1>2. Orderly'
    <2>1. Cardinality(Live') <= Cardinality(Live) /\ Cardinality(Live') \in Nat
      BY <1>1, LiveFinite, FS_Subset, FS_CardinalityType
    <2>2. Cardinality(Live') <= MinWorkers
      BY <2>1, LiveFinite, ConfigAssumption DEF DrainInv, Orderly, ConfigAssumption, NormalConfig
    <2> QED
      BY <1>1, <2>2, WorkerSpills DEF DrainInv, Orderly
  <1>3. Cardinality(Live) <= MinWorkers
    BY DEF DrainInv, Orderly
  <1>4. ASSUME startpc = "done", tpc = "idle"
        PROVE  /\ state \in Accepting => \E v \in Workers : wpc'[v] \notin {"exitBasic"} \cup Past["basicq"]
               /\ \A q \in DOMAIN Past : Watched(q)'
    <2>1. ~ctxDone /\ state # "terminated"
      <3>1. w \in Live
        BY WorkerSpills DEF Live
      <3> QED
        BY <1>4, <3>1 DEF DrainInv, Orderly
    <2>2. \A v \in Workers \ {w} : wpc'[v] = wpc[v]
      BY WorkerMoves DEF TypeOK
    <2>3. ASSUME state \in Accepting
          PROVE  \E v \in Workers : wpc'[v] \notin {"exitBasic"} \cup Past["basicq"]
      <3>1. PICK v \in Workers : wpc[v] \notin {"exitBasic"} \cup Past["basicq"]
        BY <1>4, <2>3 DEF DrainInv
      <3>2. wpc'[v] \notin {"exitBasic"} \cup Past["basicq"]
        BY <2>1, <2>2, <2>3, <3>1, <1>3, WorkerStays
      <3> QED
        BY <3>2
    <2>4. ASSUME NEW q \in DOMAIN Past, NEW j \in Jobs \ late, job'[j] = q
          PROVE  \E v \in Workers : wpc'[v] \notin Past[q]
      <3>1. CASE wpc'[w] = "top"
        BY <3>1, PastQueues
      <3>2. CASE wpc'[w] # "top"
        <4>1. PICK v \in Workers : wpc[v] \notin Past[q]
          BY <1>4, <2>4, <3>2, WorkerRequeues DEF DrainInv, Watched
        <4>2. wpc'[v] \notin Past[q]
          BY <2>1, <2>2, <2>4, <4>1, <1>3, WorkerWatches
        <4> QED
          BY <4>2
      <3> QED
        BY <3>1, <3>2
    <2> QED
      BY <1>1, <2>3, <2>4 DEF Watched
  <1> QED
    BY <1>1, <1>2, <1>4 DEF DrainInv

\* Steps of nobody who starts, stops or works: what they put into a queue has
\* been accepted in time only while the pool accepts jobs.
LEMMA DrainAccepts ==
    ASSUME DrainInv, UNCHANGED <<state, ctxDone, startpc, tpc, spc, scalepc, spill, wpc>>,
           \A j \in Jobs \ late', q \in DOMAIN Past :
               job'[j] = q => (job[j] = q /\ j \notin late) \/ state \in Accepting
    PROVE  DrainInv'
  <1>1. Orderly'
    BY DEF DrainInv, Orderly, Live
  <1>2. ASSUME startpc = "done", tpc = "idle", NEW q \in DOMAIN Past, NEW j \in Jobs \ late', job'[j] = q
        PROVE  \E w \in Workers : wpc[w] \notin Past[q]
    BY <1>2, PastQueues DEF DrainInv, Watched
  <1>3. ASSUME startpc = "done", tpc = "idle", NEW q \in DOMAIN Past
        PROVE  Watched(q)'
    BY <1>2, <1>3 DEF Watched
  <1> QED
    BY <1>1, <1>3 DEF DrainInv

LEMMA DrainSubmit ==
    ASSUME ~Spillover, TypeOK, DrainInv, NEW j \in Jobs,
           SubmitCheck(j) \/ Submit(j) \/ Elapse(j) \/ CancelJob(j)
    PROVE  DrainInv'
  <1>1. UNCHANGED <<state, ctxDone, startpc, tpc, spc, scalepc, wpc>>
    BY DEF SubmitCheck, Submit, PushBasic, PushFast, PushHeap, DropFront, PushMisses, TryAgain,
           SpillOver, Reject, Elapse, CancelJob, closing, control, workers
  <1>2. ~SpillOver(j)
    BY DEF SpillOver, SpillRoom
  <1>3. spill' = spill
    BY <1>2 DEF SubmitCheck, Submit, PushBasic, PushFast, PushHeap, DropFront, PushMisses,
                TryAgain, Reject, Elapse, CancelJob, queues
  <1>4. ASSUME NEW k \in Jobs \ late', NEW q \in DOMAIN Past, job'[k] = q
        PROVE  (job[k] = q /\ k \notin late) \/ state \in Accepting
    <2>1. CASE SubmitCheck(j) \/ PushMisses(j) \/ TryAgain(j) \/ Reject(j)
      <3>1. late' = late /\ \E to \in {"pushing", "missed", "rejected"} : Place(j, to)
        BY <2>1 DEF SubmitCheck, PushMisses, TryAgain, Reject
      <3> QED
        BY <1>4, <3>1, PastQueues DEF Place, TypeOK
    <2>2. CASE PushBasic(j) \/ PushFast(j) \/ PushHeap(j)
      <3>1. Accepted(j) /\ \E to : Place(j, to)
        BY <2>2 DEF PushBasic, PushFast, PushHeap
      <3> QED
        BY <1>4, <3>1 DEF Accepted, Place, TypeOK
    <2>3. ASSUME NEW victim \in heap, DropFront(j, victim)
          PROVE  (job[k] = q /\ k \notin late) \/ state \in Accepting
      <3>1. Accepted(j) /\ job' = [job EXCEPT ![j] = "heap", ![victim] = "dropped"]
        BY <2>3 DEF DropFront
      <3> QED
        BY <1>4, <3>1, PastQueues DEF Accepted, TypeOK
    <2>4. CASE Elapse(j) \/ CancelJob(j)
      BY <1>4, <2>4 DEF Elapse, CancelJob
    <2> QED
      BY <1>2, <2>1, <2>2, <2>3, <2>4 DEF Submit
  <1> QED
    BY <1>1, <1>3, <1>4, DrainAccepts

LEMMA DrainLetters ==
    ASSUME TypeOK, OnePlace, DrainInv, ReplayCalls \/ Replay \/ Purge
    PROVE  DrainInv'
  <1>1. UNCHANGED <<state, ctxDone, startpc, tpc, spc, scalepc, spill, wpc>>
    BY DEF ReplayCalls, Replay, ReplayTakes, ReplayPushes, Purge, closing, control, workers, queues
  <1>2. ASSUME NEW k \in Jobs \ late', NEW q \in DOMAIN Past, job'[k] = q
        PROVE  (job[k] = q /\ k \notin late) \/ state \in Accepting
    <2>1. CASE ReplayCalls
      BY <1>2, <2>1 DEF ReplayCalls
    <2>2. CASE ReplayTakes \/ Purge
      BY <1>2, <2>2, PastQueues DEF ReplayTakes, Purge
    <2>3. CASE ReplayPushes
      <3>1. \/ Place(Head(replay), "heap") /\ Accepted(Head(replay))
            \/ Place(Head(replay), "dead") /\ late' = late
        BY <2>3 DEF ReplayPushes
      <3> QED
        BY <1>2, <3>1, PastQueues DEF Place, Accepted, TypeOK
    <2> QED
      BY <2>1, <2>2, <2>3 DEF Replay
  <1> QED
    BY <1>1, <1>2, DrainAccepts

LEMMA DrainShutdown ==
    ASSUME ~RacingStart, TypeOK, DrainInv, NEW s \in Stoppers,
           ShutdownLoads(s) \/ Shutdown(s) \/ ShutdownGivesUp(s)
    PROVE  DrainInv'
  <1>1. UNCHANGED <<spill, scalepc, startpc, tpc, wpc, job, late>> /\ Live' = Live
    BY DEF ShutdownLoads, Shutdown, ShutdownStores, ShutdownClosesScale, ShutdownClosesFifos,
           ShutdownClosesHeap, ShutdownReturns, ShutdownGivesUp, Stopper, queues, workers, Live
  <1>2. startpc # "spawning"
    BY DEF ShutdownLoads, Shutdown, ShutdownStores, ShutdownClosesScale, ShutdownClosesFifos,
           ShutdownClosesHeap, ShutdownReturns, ShutdownGivesUp, Stopper, DrainInv, Orderly
  <1>3. \A q \in DOMAIN Past : Watched(q) <=> Watched(q)'
    BY <1>1 DEF Watched
  <1>4. ASSUME NEW to, Stopper(s, spc[s], to), to # "done", spc[s] # "done", ctxDone' = ctxDone,
               state' = state \/ state' = "stopping"
        PROVE  DrainInv'
    <2>1. \A r \in Stoppers : spc'[r] = "done" <=> spc[r] = "done"
      BY <1>4 DEF Stopper, TypeOK
    <2> QED
      <3>1. Orderly'
        BY <1>1, <1>2, <1>4, <2>1 DEF DrainInv, Orderly
      <3>2. state' \in Accepting => state \in Accepting
        BY <1>4 DEF Accepting
      <3> QED
        BY <1>1, <1>3, <3>1, <3>2 DEF DrainInv
  <1>5. CASE ShutdownLoads(s)
    <2>1. \E to \in {"refused", "store", "wait"} : Stopper(s, "idle", to)
      BY <1>5, Zenon DEF ShutdownLoads
    <2>2. UNCHANGED closing
      BY <1>5 DEF ShutdownLoads
    <2> QED
      BY <1>4, <2>1, <2>2 DEF closing, Stopper
  <1>6. CASE \/ ShutdownStores(s) \/ ShutdownClosesScale(s) \/ ShutdownClosesFifos(s)
             \/ ShutdownClosesHeap(s) \/ ShutdownGivesUp(s)
    <2>1. \E to \in {"closeScale", "panicked", "closeFifos", "closeHeap", "wait", "gaveUp"} :
              Stopper(s, spc[s], to)
      BY <1>6 DEF ShutdownStores, ShutdownClosesScale, ShutdownClosesFifos, ShutdownClosesHeap,
                  ShutdownGivesUp, Stopper
    <2>2. /\ spc[s] # "done" /\ ctxDone' = ctxDone
          /\ state' = state \/ state' = "stopping"
      BY <1>6 DEF ShutdownStores, ShutdownClosesScale, ShutdownClosesFifos, ShutdownClosesHeap,
                  ShutdownGivesUp, Stopper, closing
    <2> QED
      BY <1>4, <2>1, <2>2
  <1>7. CASE ShutdownReturns(s)
    <2>1. Live = {} /\ state' = "stopped" /\ spc'[s] = "done"
      BY <1>7 DEF ShutdownReturns, Stopper, TypeOK
    <2> QED
      BY <1>1, <1>2, <1>3, <2>1 DEF DrainInv, Orderly, Accepting
  <1> QED
    BY <1>5, <1>6, <1>7 DEF Shutdown

LEMMA DrainStart ==
    ASSUME ~RacingStart, NeverScales, TypeOK, SpawnCount, DrainInv,
           \/ Start \/ ScaleTick \/ ScaleStops \/ Pause \/ Resume
           \/ \E w \in Workers : StartSpawns(w) \/ ScaleSpawns(w)
    PROVE  DrainInv'
  <1>1. ~ScaleTick /\ ~ScaleStops /\ \A w \in Workers : ~ScaleSpawns(w)
    BY DEF DrainInv, Orderly, ScaleTick, ScaleStops, ScaleSpawns
  <1>2. CASE Start
    BY <1>2 DEF Start, DrainInv, Orderly, queues, workers, Live
  <1>3. CASE Pause \/ Resume
    <2>1. /\ UNCHANGED <<spill, scalepc, startpc, tpc, spc, ctxDone, wpc, job, late>>
          /\ state \in Accepting /\ state' # "terminated"
      BY <1>3 DEF Pause, Resume, queues, workers, control, Accepting
    <2> QED
      BY <2>1 DEF DrainInv, Orderly, Live, Watched
  <1>4. ASSUME NEW w \in Workers, StartSpawns(w)
        PROVE  DrainInv'
    <2>1. /\ UNCHANGED <<spill, tpc, spc, ctxDone, state>>
          /\ startpc = "spawning" /\ scalepc' = "off" /\ wpc'[w] = "top"
      BY <1>4, ConfigAssumption
      DEF StartSpawns, Spawn, closing, queues, TypeOK, DrainInv, Orderly, NeverScales,
          ConfigAssumption, NormalConfig
    <2>2. Cardinality(Live') <= MinWorkers
      <3>1. Live' = Live \cup {w} /\ w \notin Live
        BY <1>4, LiveSpawn DEF StartSpawns
      <3>2. Cardinality(Live') = Cardinality(Live) + 1
        BY <3>1, LiveFinite, FS_AddElement
      <3> QED
        BY <2>1, <3>2, LiveFinite, ConfigAssumption
        DEF SpawnCount, TypeOK, ConfigAssumption, NormalConfig
    <2> QED
      BY <2>1, <2>2, PastQueues DEF DrainInv, Orderly, Watched
  <1> QED
    BY <1>1, <1>2, <1>3, <1>4

LEMMA DrainTerminate ==
    ASSUME ~RacingStart, TypeOK, DrainInv, TerminateSwaps \/ Terminate
    PROVE  DrainInv'
  <1>1. UNCHANGED <<spill, scalepc, startpc, spc, wpc>> /\ tpc' # "idle" /\ startpc # "spawning"
    BY DEF TerminateSwaps, Terminate, TerminateCancels, TerminateClosesFifos, TerminateClosesHeap,
           Terminator, queues, workers, DrainInv, Orderly
  <1> QED
    BY <1>1 DEF DrainInv, Orderly, Live

LEMMA DrainStep ==
    ASSUME ~RacingStart, ~Spillover, NeverScales,
           TypeOK, OnePlace, SpawnCount, DrainInv, [Next]_vars
    PROVE  DrainInv'
  <1>1. CASE UNCHANGED vars
    BY <1>1, Zenon DEF DrainInv, Orderly, Watched, Live, vars, closing, queues, letters, workers, control
  <1> QED
    BY <1>1, DrainSubmit, DrainWorker, DrainShutdown, DrainStart, DrainTerminate, DrainLetters DEF Next

\* Shutdown leaves no job behind that was accepted before it began, however the
\* workers' exit checks interleave with submissions, retries and replays that
\* are still under way.  Each of the three hypotheses is needed: PoolClaims
\* shows the counterexamples.
THEOREM DrainLeavesNothing ==
    ASSUME ~RacingStart, ~Spillover, NeverScales
    PROVE  Spec => []DrainComplete
  <1>1. Init => DrainInv /\ SpawnCount
    <2> SUFFICES ASSUME Init
                 PROVE  DrainInv /\ SpawnCount
      OBVIOUS
    <2>1. Live = {} /\ Cardinality(Live) = 0
      BY FS_EmptySet DEF Init, Live
    <2>2. DrainInv
      BY <2>1, ConfigAssumption DEF Init, DrainInv, Orderly, ConfigAssumption, NormalConfig
    <2> QED
      BY <2>1, <2>2, ConfigAssumption DEF Init, SpawnCount, ConfigAssumption, NormalConfig
  <1>2. TypeOK /\ OnePlace /\ DrainInv /\ SpawnCount /\ [Next]_vars => (DrainInv /\ SpawnCount)'
    BY SpawnStep, DrainStep
  <1>3. TypeOK /\ OnePlace /\ DrainInv => DrainComplete
    <2> SUFFICES ASSUME TypeOK, OnePlace, DrainInv, NEW s \in Stoppers, spc[s] = "done",
                        startpc = "done", tpc = "idle",
                        NEW j \in Jobs, job[j] \in Waiting \cup {"worker"}
                 PROVE  j \in late
      BY DEF DrainComplete
    <2>1. \A w \in Workers : wpc[w] = "none"
      BY DEF DrainInv, Orderly, Live
    <2>2. job[j] # "worker"
      BY <2>1, JobsAssumption DEF OnePlace, InHands, Holding, JobsAssumption
    <2>3. job[j] # "spill"
      BY EmptyList DEF DrainInv, Orderly, OnePlace, Listed, Lists
    <2>4. job[j] \in DOMAIN Past
      BY <2>2, <2>3, PastQueues DEF Waiting
    <2> QED
      BY <2>1, <2>4 DEF DrainInv, Watched, Past
  <1> QED
    BY <1>1, <1>2, <1>3, PlaceAndTypes, PTL DEF Spec
=============================================================================
