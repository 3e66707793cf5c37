---------------------------- MODULE MCFederation ----------------------------
(* A small instance of Federation for TLC. *)
EXTENDS Federation, TLC

Symmetry == Permutations(Ids) \cup Permutations(Syncs)
=============================================================================
