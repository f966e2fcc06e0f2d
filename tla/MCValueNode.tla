----------------------------- MODULE MCValueNode -----------------------------
(***************************************************************************)
(* Instances of ValueNode for TLC.                                         *)
(***************************************************************************)
EXTENDS ValueNode, TLC

\* One argument below the minimum and one above the maximum.
OuterArgs == {Minimum - 1, Maximum + 1}
ThreadSymmetry == Permutations(Thread)
=============================================================================
