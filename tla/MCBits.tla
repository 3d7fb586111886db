-------------------------------- MODULE MCBits --------------------------------
(***************************************************************************)
(* Instances for the model checker of the modules about single calls: the  *)
(* sizes that resize() chooses, a call of copy_n(), and the operations on  *)
(* Pauli strings, applied to two arrays.  They have nothing to do with     *)
(* each other; a behaviour begins with one of them and leaves the others   *)
(* as they are.                                                            *)
(***************************************************************************)
EXTENDS Growth, CopyBits, PauliString

VARIABLE part

\* Of arrays that copy_n() copies from and to: empty, a byte, and several that are
\* full or not.
MCLengths == {0, 4, 11, 20}

\* Of Pauli strings: up to three bytes, full and not, with whole operators among
\* the pad bits; odd lengths, which leave half an operator.
MCStringLengths == {0, 2, 4, 5, 6, 8, 10}

-------------------------------------------------------------------------------
\* What the other parts are while one is at work.  (An idle call covers all cells,
\* so that none is looked at.)
IdleCall ==
  [a |-> 0, b |-> 0, n |-> ByteBits * MaxBytes, same |-> TRUE, nbits |-> 0, endian |-> 0,
   nbits2 |-> 0, endian2 |-> 0, address |-> 0]

CopyIdle == call = IdleCall /\ pc = "idle" /\ mem = <<>> /\ units = <<>> /\ saved = <<>>

EmptyString == [endian |-> BIG, nbits |-> 0, mem |-> <<>>]
StringsIdle == a = EmptyString /\ b = EmptyString

MCInit ==
  /\ Init
  /\ \/ part = "growth" /\ CopyIdle /\ StringsIdle
     \/ part = "copy" /\ CInit /\ StringsIdle
     \/ part = "strings" /\ CopyIdle /\ StringInit

GrowthNext  == part = "growth" /\ Next /\ UNCHANGED <<part, copyvars, stringvars>>
CopyNext    == part = "copy" /\ CNext /\ UNCHANGED <<part, vars, stringvars>>
StringsNext == part = "strings" /\ StringNext /\ UNCHANGED <<part, vars, copyvars>>

MCNext == GrowthNext \/ CopyNext \/ StringsNext

MCSpec == MCInit /\ [][MCNext]_<<part, vars, copyvars, stringvars>>
===============================================================================
