----------------------------- MODULE MCSubscripts -----------------------------
(* Instances of Subscripts for the model checker. *)
EXTENDS Subscripts

AllContents == [0 .. (Bits - 1) -> {0, 1}]
\* A single one shows where each element goes.
SingleOnes == OneHot(Bits)
===============================================================================
