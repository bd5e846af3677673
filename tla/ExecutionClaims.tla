-------------------------- MODULE ExecutionClaims ---------------------------
(***************************************************************************)
(* What a caller of inspect.go, batch.go, scheduler.go or usability.go     *)
(* would expect and the code does not keep: each is the property of a run  *)
(* whose counterexample is a behaviour of the code.                        *)
(***************************************************************************)
EXTENDS MCExecution

\* "CancelJob cancels a queued or running job by ID": no other job's context is
\* ever cancelled.  CancelJob's pointer may lead to an object that releaseJob
\* has recycled and submit has filled for another job.
CancelNamesJob == ctx \subseteq asked

\* Map's counter never goes below zero, at which wg.Done panics.  A retried
\* item calls Done once per attempt.
CounterNatural == pending >= 0

\* A key is held only while a job that has it is on its way or under way: a
\* refused or a cancelled job leaves its key in p.idemp for good.
KeyHeldByJob ==
    \A k \in keys : \E j \in Jobs :
        /\ Key(j) = k
        /\ \/ jpc[j] \in {"rate", "push", "failing"}
           \/ jpc[j] = "accepted" /\ ends[j] = {}
           \/ obj[j] # None /\ \E w \in Workers : wobj[w] = obj[j]

\* Replace and a running job of the same key are never under way together:
\* Replace deletes the key and leaves the job.
KeyExclusiveAlways ==
    \A j, k \in Jobs : j # k /\ Key(j) = Key(k) /\ Key(j) # "" =>
        ~(UnderWay(j) /\ UnderWay(k))
=============================================================================
