-------------------------------- MODULE MCTree --------------------------------
(***************************************************************************)
(* Instances of Tree for TLC: a branch of three nodes below the root, and  *)
(* a sibling in the middle of it, so that maps below the base change.      *)
(***************************************************************************)
EXTENDS Tree, TLC

MCNode == {"root", "a", "ax", "ay", "axz"}
MCPath == [n \in MCNode |->
    CASE n = "root" -> <<>> [] n = "a" -> <<"a">> [] n \in {"ax", "ay"} -> <<"a", n>>
      [] n = "axz" -> <<"a", "ax", "axz">>]
\* The maps are ordered by name.
MCRank == [n \in MCNode |-> IF n = "ay" THEN 1 ELSE 0]
MCWhere == [v \in {"v"} |-> "axz"]
ThreadSymmetry == Permutations(Thread)

\* Once all calls have returned nothing happens any more: any other state without a step
\* would be a deadlock.
Over == calls = MaxCalls /\ (\A t \in Thread : pc[t] = "idle") /\ UNCHANGED vars
MCSpec == Init /\ [][Next \/ Over]_vars
=============================================================================
