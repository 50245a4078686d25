--------------------------- MODULE MCStagedBatch ---------------------------
(* Batches that reach every stage with a fault: groups of different shape, *)
(* images of one and of two tiles in one window, more images than a window *)
(* holds.                                                                  *)
EXTENDS StagedBatch

In(shape, planned, tiles, at, tile, block) ==
    [shape |-> shape, planned |-> planned, tiles |-> tiles,
     fault |-> [at |-> at, tile |-> tile, block |-> block]]

Good(tiles) == In("a", "yes", tiles, "none", 0, 0)
Bad(at, tile, block) == In("a", "yes", 2, at, tile, block)

MCBatches ==
    { <<Good(1)>>,
      <<Good(2), In("b", "no", 1, "none", 0, 0), In("c", "yes", 1, "parse", 0, 0),
        Bad("block", 1, 2)>>,
      <<Bad("block", 2, 1), Good(1), Good(2)>>,
      <<Bad("begin", 0, 0), Bad("prepare", 2, 0), Bad("finish", 1, 0)>>,
      <<In("b", "no", 1, "decode", 0, 0), Bad("begin", 0, 0), Bad("block", 2, 2),
        Bad("store", 0, 0)>> }
=============================================================================
