---------------------------- MODULE MCHostLedger ----------------------------
(* Two sessions used by two threads compete with one pinned block.         *)
EXTENDS HostLedger, TLC

CONSTANTS s1, s2, t1, t2, l1, l2, b1

MCOwners == {s1, s2}
MCThreads == {t1, t2}
MCLeases == {l1, l2}
MCBlocks == {b1}
MCBytes == 0..Cap

Symmetry == Permutations(MCOwners) \cup Permutations(MCThreads)
                \cup Permutations(MCLeases)
=============================================================================
