------------------------------ MODULE Allocation ------------------------------
(***************************************************************************)
(* The size arithmetic of a pauliebits object: how many bytes a number of  *)
(* bits needs, how many bits of the last byte are padding, and the growth  *)
(* policy new_allocation() by which resize() chooses the allocated size.   *)
(*                                                                         *)
(* ByteBits is 8 in the program.  Making it a parameter lets the model     *)
(* checker work with bytes of two bits; nothing here depends on its value. *)
(***************************************************************************)
EXTENDS Integers

CONSTANT ByteBits       \* number of bits in a byte

ASSUME ByteBitsAssumption == ByteBits \in Nat \ {0}

\* Number of bytes necessary to store the given number of bits.
BYTES(bits) == (bits + (ByteBits - 1)) \div ByteBits

\* Number of unused bits in the last byte of an array of nbits bits.
PADBITS(nbits) == (ByteBits - (nbits % ByteBits)) % ByteBits

\* Round down to a multiple of 4.
Mask4(n) == n - (n % 4)

\* (A slip: an allocation that does not grow with the size.)
ConstantOverallocation(newsize) == Mask4(newsize + 7)

\* Overallocation for a buffer that grows moderately.
Overallocated(newsize) ==
  Mask4(newsize + (newsize \div 16) + (IF newsize < 8 THEN 3 ELSE 7))

\* (A slip: memory is never given back before the array is empty.)
NeverShrink(size, allocated, newsize) ==
  IF allocated >= newsize THEN allocated ELSE Overallocated(newsize)

\* Allocated size for a buffer which is to hold newsize bytes, given its
\* present size and allocation.
NewAllocation(size, allocated, newsize) ==
  IF allocated >= newsize
  THEN IF newsize >= allocated \div 2 THEN allocated ELSE newsize
  ELSE IF size # 0 /\ newsize \div 2 <= allocated
       THEN Overallocated(newsize)
       ELSE newsize
===============================================================================
