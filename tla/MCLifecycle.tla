---------------------------- MODULE MCLifecycle -----------------------------
(***************************************************************************)
(* Lifecycle with a handler of every event, one of the first type that     *)
(* takes itself off, and one of both types; events of the first type.      *)
(***************************************************************************)
EXTENDS Lifecycle, TLC

CONSTANTS h1, h2, h3, t1, t2

Wanted == h1 :> {} @@ h2 :> {t1} @@ h3 :> {t1, t2}
Emitted == [e \in Emitters |-> t1]
=============================================================================
