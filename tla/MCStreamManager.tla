--------------------------- MODULE MCStreamManager ---------------------------
(***************************************************************************)
(* Instances of StreamManager for TLC: the largest of three values does    *)
(* not fit in what the handlers take, and comes out as the smallest, as an *)
(* int64_t of 2^32 does from an int.                                       *)
(***************************************************************************)
EXTENDS StreamManager

MCNarrow == [v \in 0 .. 2 |-> v % 2]
=============================================================================
