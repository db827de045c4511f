------------------------- MODULE MCFunctionObjects -------------------------
(* Values of the constants of FunctionObjects for TLC. *)
EXTENDS FunctionObjects

MCBase     == [p \in {"a", "b"} |-> IF p = "a" THEN 5 ELSE 11]
MCPlaces   == {-3, 2, 4}
MCCaptures == <<"value", "mut", "ref", "mut">>
=============================================================================
