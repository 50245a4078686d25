------------------------- MODULE MCJpegBatchSession -------------------------
(* Sequences of calls on one session, with tiles of two sizes and of each  *)
(* way to fail: all calls of up to two tiles, those of three that put them *)
(* on two workers in uneven chunks, and one whose plans alone are too many *)
(* for the metadata allowance.                                             *)
EXTENDS JpegBatchSession

Tile(nature, bytes) == [nature |-> nature, bytes |-> bytes]
Small == {Tile("good", 1), Tile("bad_header", 1), Tile("bad_data", 1)}
Large == {Tile("good", 2)}

MCCalls ==
    UNION {[1..n -> Small \cup Large] : n \in 1..2}
        \cup {<<t, u, v>> : t \in Small, u \in Small, v \in Large}
        \cup {[i \in 1..(BatchMetadataCap + 1) |-> Tile("good", 1)]}
=============================================================================
