---------------------------- MODULE MCPauliString -----------------------------
(* Small instances of PauliString for the questions that its code answers      *)
(* otherwise than documented; MCBits checks what it does right.                *)
EXTENDS PauliString

\* Up to three bytes, full and not, with whole operators among the pad bits; odd
\* lengths, which leave half an operator.
MCStringLengths == {0, 2, 4, 5, 6, 8, 10}
===============================================================================
