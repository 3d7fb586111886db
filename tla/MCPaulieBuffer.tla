---------------------------- MODULE MCPaulieBuffer ----------------------------
(* Instances of PaulieBuffer for the model checker: bytes of two bits. *)
EXTENDS PaulieBuffer, TLC

Symmetry == Permutations(Objects)
===============================================================================
