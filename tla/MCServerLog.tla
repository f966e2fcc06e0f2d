----------------------------- MODULE MCServerLog -----------------------------
(***************************************************************************)
(* Instances of ServerLog for TLC: two types, in place of the source's     *)
(* four copies of the same code, and a machine with a small unsigned int.  *)
(***************************************************************************)
EXTENDS ServerLog

MCTypes == <<"Bool", "Int">>
MCNames == {"a", "b"}
=============================================================================
