-------------------------- MODULE MCQueueDelivery --------------------------
(***************************************************************************)
(* Instance for TLC: one writer that appends twice, so that the order of   *)
(* its values and a cell left over from an earlier period matter, and one  *)
(* that appends once.  Three values for two cells overflow the buffer.     *)
(***************************************************************************)
EXTENDS QueueDelivery, TLC

CONSTANTS w1, w2

MCMaxCalls == w1 :> 2 @@ w2 :> 1
=============================================================================
