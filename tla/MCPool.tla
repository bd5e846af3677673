------------------------------- MODULE MCPool -------------------------------
(***************************************************************************)
(* Pool with interchangeable workers and jobs: the safety runs.            *)
(***************************************************************************)
EXTENDS Pool, TLC

Alike(S) == Permutations(S \ (Delayable \cup Cancellable))
Symmetry ==
    Permutations(Workers) \cup Alike(BasicJobs) \cup Alike(FastJobs) \cup Alike(HeapJobs)
=============================================================================
