------------------------------ MODULE MCLimits ------------------------------
(***************************************************************************)
(* Limits with two jobs of different limits, run twice each.               *)
(***************************************************************************)
EXTENDS Limits, TLC

CONSTANTS j1, j2

TwoLimits == j1 :> 1 @@ j2 :> 2
MixedLimits == j1 :> 1 @@ j2 :> 0

\* A token every two ticks, the burst of which defaults to the rate; a token
\* every tick and a burst of two.
SomeRates == {[rate |-> 1, burst |-> 0], [rate |-> 2, burst |-> 2]}

Symmetry == Permutations(Workers)
=============================================================================
