---------------------------- MODULE MCBufferPool ----------------------------
(* A small instance of BufferPool with a buffer of each of three sizes: the *)
(* first two fit the cache's bytes together but not its one size bucket, so *)
(* that one evicts the other, and the third is never admitted.             *)
EXTENDS BufferPool, TLC

CONSTANTS t1, t2, small, large, huge

MCThreads == {t1, t2}
MCBuffers == {small, large, huge}
MCSize == (small :> 1) @@ (large :> 2) @@ (huge :> 4)
=============================================================================
