-------------------------- MODULE MCPairTransaction --------------------------
(* Two calls: the second may find what a crash of the first left.          *)
EXTENDS PairTransaction
==============================================================================
