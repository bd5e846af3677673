------------------------------- MODULE MCRing -------------------------------
(***************************************************************************)
(* Ring with interchangeable goroutines and elements.                      *)
(***************************************************************************)
EXTENDS Ring, TLC

Symmetry == Permutations(Threads) \cup Permutations(Values)
=============================================================================
