---------------------------- MODULE MCRegionBatch ----------------------------
(* Batches of up to three tiles that may or may not run directly, on up to  *)
(* three workers with memory for two.                                       *)
EXTENDS RegionBatch

CONSTANT k

MCKeys == {k}
=============================================================================
