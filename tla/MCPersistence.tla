---------------------------- MODULE MCPersistence ----------------------------
(***************************************************************************)
(* Instances of Persistence for TLC: a root with three values and a child  *)
(* with one.                                                               *)
(***************************************************************************)
EXTENDS Persistence

MCNodes == <<"root", "child">>
MCValue == {"x", "y", "z", "f"}
MCWhere == [v \in MCValue |-> IF v = "z" THEN "child" ELSE "root"]
MCTypeOf ==
    [v \in MCValue |->
        CASE v = "x" -> "Int" [] v = "y" -> "Bool" [] v = "f" -> "Float" [] OTHER -> "Str"]
MCDefault ==
    [v \in MCValue |->
        CASE v = "x" -> "0" [] v = "y" -> "false" [] v = "f" -> "zero" [] OTHER -> "word"]

\* A float under the 15th decimal is written like zero.
MCFixed == [x \in {"zero", "tiny"} |-> "0.000000000000000"]
MCDouble == [text \in {"0", "1", "0.000000000000000"} |-> IF text = "1" THEN "one" ELSE "zero"]
MCNumerals == {"0", "1", "0x1F"}
MCDecimals == DOMAIN MCDouble

\* The strings of the child never look like a number, or may look like one.
Words == [v \in MCValue |->
    CASE v = "x" -> {"0", "1"} [] v = "y" -> Booleans [] v = "f" -> {"zero", "tiny"}
      [] OTHER -> {"word", "other"}]
AnyText == [Words EXCEPT !["z"] = {"word", "1", "0x1F"}]
=============================================================================
