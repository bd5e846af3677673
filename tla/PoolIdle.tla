------------------------------ MODULE PoolIdle ------------------------------
(***************************************************************************)
(* Pool and a goroutine that calls WaitIdle (control.go).  It reads the    *)
(* four queue lengths and the busy counter one after the other, and starts *)
(* again a millisecond later when any of them was not zero.                *)
(***************************************************************************)
EXTENDS Pool

VARIABLES
    idlepc,     \* the caller of WaitIdle: what it reads next
    asked       \* the accepted jobs that had not ended when it called

idleVars == <<vars, idlepc, asked>>

Unended == {j \in Jobs : job[j] \in Waiting \cup {"worker"}}

IdleInit ==
    /\ Init
    /\ idlepc = "out"
    /\ asked = {}

WaitIdleCalls ==
    /\ idlepc = "out"
    /\ startpc = "done"
    /\ idlepc' = "heap"
    /\ asked' = Unended
    /\ UNCHANGED vars

\* p.QueueDepth() reads p.q, fastq, basicq and the spill list, then comes
\* p.c.busy.  The first number that is not zero decides the round.
Reads == [heap |-> heap = {}, fast |-> fastq = <<>>, basic |-> basicq = <<>>,
          spill |-> spill = <<>>, busy |-> Busy = {}]
AfterRead == [heap |-> "fast", fast |-> "basic", basic |-> "spill",
              spill |-> "busy", busy |-> "returned"]
WaitIdleReads ==
    /\ idlepc \in DOMAIN Reads
    /\ idlepc' = IF Reads[idlepc] THEN AfterRead[idlepc] ELSE "heap"
    /\ UNCHANGED <<vars, asked>>

IdleNext ==
    \/ Next /\ UNCHANGED <<idlepc, asked>>
    \/ WaitIdleCalls
    \/ WaitIdleReads

IdleSpec == IdleInit /\ [][IdleNext]_idleVars
IdleFairSpec == IdleSpec /\ Fairness /\ WF_idleVars(WaitIdleReads)

\* WaitIdle returns on a pool whose jobs end: no retry, postponed job or
\* cancellation leaves a queue length or the busy counter above zero.
WaitIdleReturns == idlepc = "heap" ~> idlepc = "returned"

\* "WaitIdle waits until the queue is empty and no worker is executing a
\* job": the jobs accepted before the call have ended when it returns.
IdleMeansDone == idlepc = "returned" => asked \cap Unended = {}
=============================================================================
