----------------------------- MODULE MCExecution -----------------------------
(***************************************************************************)
(* Execution with pairs of calls: SubmitResult of a job with an ID and two *)
(* attempts (a) and of one without (b), of one idempotency key; Replace of *)
(* that key (r); the two items of a call to Map (m1, m2).  On a pool made  *)
(* with PresetAPIBuffer, which tracks its jobs, and on one made with       *)
(* PresetLowLatency, which does not.                                       *)
(***************************************************************************)
EXTENDS Execution

CONSTANTS a, b, r, m1, m2

LowLatency == PresetLowLatency(NewPool(DefaultConfig), 1).cfg
APIBuffer  == PresetAPIBuffer(NewPool(DefaultConfig)).cfg
TwoConfigs == {LowLatency, APIBuffer}
Tracking   == {APIBuffer}
Pairs == {{a, b}, {b, r}, {b, m1}, {m1, m2}}
Map == {{m1, m2}}
Autos == a :> "auto-a" @@ b :> "auto-b" @@ r :> "auto-r" @@ m1 :> "auto-m1" @@ m2 :> "auto-m2"
Calls ==
    a :> [ZeroOptions EXCEPT !.id = "x", !.idempotencyKey = "k", !.attempts = 2] @@
    b :> [ZeroOptions EXCEPT !.idempotencyKey = "k"] @@
    r :> [ZeroOptions EXCEPT !.idempotencyKey = "k"] @@
    m1 :> ZeroOptions @@ m2 :> ZeroOptions
RetriedCalls == [Calls EXCEPT ![m1].attempts = 2]
=============================================================================
