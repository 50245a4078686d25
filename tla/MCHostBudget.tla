---------------------------- MODULE MCHostBudget ----------------------------
(* Two sessions and two pinned blocks compete for a cap of four bytes.      *)
EXTENDS HostBudget, TLC

MCBytes == 0..5

Symmetry == Permutations(Owners) \cup Permutations(Blocks)
=============================================================================
