------------------------------- MODULE VarLength -------------------------------
(***************************************************************************)
(* vl_encode() and vl_decode().  The highest bit of each byte tells        *)
(* whether another byte follows.  The first byte holds, below it, the      *)
(* number of bits at the end that are padding.  All other bits are the     *)
(* elements of the array, the first element highest.                       *)
(***************************************************************************)
EXTENDS Integers, FiniteSetsExt, SequencesExt, TLC

CONSTANTS
  Width,        \* bits of a byte: 8
  LenPad,       \* LEN_PAD_BITS: 3
  AllocBits     \* ALLOC_BITS

\* Bits of data in the first byte, and in each other one.
HeadData == Width - 1 - LenPad
ByteData == Width - 1

VarLengthConstants ==
  /\ LenPad \in Nat /\ 2 ^ LenPad >= Width /\ HeadData >= 1
  /\ AllocBits >= ByteData

Lead == 2 ^ (Width - 1)

\* n bits from a sequence, those that are not there zero, as a number.
Chunk(bits, from, n) ==
  MapThenSumSet(LAMBDA k : (IF from + k <= Len(bits) THEN bits[from + k] ELSE 0) * 2 ^ (n - k),
                1 .. n)

\* vl_encode_lock_held()
vl_encode(bits) ==
  LET n       == (Len(bits) + LenPad + ByteData - 1) \div ByteData
      padding == ByteData * n - LenPad - Len(bits)
      LeadBit(j) == IF j < n THEN Lead ELSE 0
  IN  [j \in 1 .. n |->
         LeadBit(j) +
         IF j = 1 THEN padding * 2 ^ HeadData + Chunk(bits, 0, HeadData)
         ELSE Chunk(bits, HeadData + ByteData * (j - 2), ByteData)]

-------------------------------------------------------------------------------
(* The decoder: the array that is made (as a function on its indices, which *)
(* a write elsewhere would extend), how much of it has been set, and        *)
(* what the first byte said.                                               *)

VlFailed(s) == [dec |-> [kind |-> "error"], stream |-> s]

\* (A slip: the decoder asks the iterator again.)
AskAgain(d, s) == [dec |-> d, stream |-> s]

\* next_char() finds the iterator exhausted.
EndOfStream(d, s) == VlFailed(s)

\* An element of an array of which nothing has been set.
Garbage == 2

\* The n lowest bits of byte c, written from index i on.
SetBits(mem, i, n, c) == [k \in i .. (i + n - 1) |-> (c \div 2 ^ (n - 1 - (k - i))) % 2] @@ mem

\* What follows a byte: the next one, or the end.
Then(d, c, s) ==
  IF c >= Lead THEN [dec |-> d, stream |-> s]
  ELSE [dec    |-> [kind  |-> "array", nbits |-> d.i - d.padding,
                    array |-> [bits |-> [i \in 1 .. (d.i - d.padding) |-> d.mem[i - 1]]]],
        stream |-> s]

HeadAllowed(c, padding) ==
  padding # ByteData /\ (c < Lead => padding <= HeadData)

vl_decode_head(s) ==
  IF s = <<>> THEN VlFailed(s)
  ELSE LET c       == Head(s) % 2 ^ Width
           padding == (c \div 2 ^ HeadData) % 2 ^ LenPad
       IN  IF ~HeadAllowed(c, padding) THEN VlFailed(Tail(s))
           ELSE Then([kind |-> "vl", padding |-> padding, i |-> HeadData, allocated |-> AllocBits,
                      mem |-> SetBits([k \in 0 .. (AllocBits - 1) |-> Garbage], 0, HeadData, c)],
                     c, Tail(s))

\* Room for the bits of another byte.
Enlarged(d) == IF d.allocated < d.i + ByteData THEN d.allocated + AllocBits ELSE d.allocated

vl_decode_byte(d, s) ==
  IF s = <<>> THEN EndOfStream(d, s)
  ELSE LET c     == Head(s) % 2 ^ Width
           cells == 0 .. (Enlarged(d) - 1)
       IN  Then([d EXCEPT !.i = @ + ByteData, !.allocated = Enlarged(d),
                          !.mem = SetBits(@ @@ [k \in cells |-> Garbage], d.i, ByteData, c)],
                c, Tail(s))
===============================================================================
