--------------------------- MODULE MCPinnedStaging ---------------------------
(* Three blocks, a cache that holds two bytes in at most two blocks, and    *)
(* one external owner competing for a cap of four bytes.                    *)
EXTENDS PinnedStaging, TLC

CONSTANTS b1, b2, b3

MCBlocks == {b1, b2, b3}
MCBytes == 0..3

Symmetry == Permutations(MCBlocks)
=============================================================================
