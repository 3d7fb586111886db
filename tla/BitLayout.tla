------------------------------- MODULE BitLayout ------------------------------
(***************************************************************************)
(* How the bits of an array lie in its buffer, and the bit operations of   *)
(* pauliebits.h.                                                           *)
(*                                                                         *)
(* A buffer is a function from cells to bit values.  Cell c is the bit of  *)
(* significance c % ByteBits in byte c \div ByteBits, so that byte-wise    *)
(* operations (buffer export, frombytes, bytereverse) act on cells and     *)
(* element-wise ones go through Pos.  Memory that nobody has written holds *)
(* Undef.                                                                  *)
(***************************************************************************)
EXTENDS Allocation

CONSTANTS
  MaxBytes,     \* bound on the size of a buffer
  Undef         \* content of uninitialized memory

ASSUME MaxBytesAssumption == MaxBytes \in Nat \ {0}

Bit == {0, 1}

ASSUME UndefAssumption == Undef \notin Bit

LITTLE == 0
BIG    == 1

Cells == 0 .. (ByteBits * MaxBytes - 1)
Block == [Cells -> Bit \union {Undef}]
Blank == [c \in Cells |-> Undef]

\* Cell of element i; as a map on indices it is its own inverse.
Pos(endian, i) ==
  IF endian = LITTLE
  THEN i
  ELSE (i \div ByteBits) * ByteBits + (ByteBits - 1) - (i % ByteBits)

GetBit(h, m, i) == m[Pos(h.endian, i)]

SetBit(h, m, i, v) == [m EXCEPT ![Pos(h.endian, i)] = v]

Flip(v) == IF v = Undef THEN Undef ELSE 1 - v

\* The elements of the array with header h and buffer m.
Elements(h, m) == [i \in 0 .. (h.nbits - 1) |-> GetBit(h, m, i)]

\* Set elements a .. a + n - 1 to the values of f.
SetSpan(h, m, a, n, f) ==
  [c \in Cells |-> LET i == Pos(h.endian, c)
                   IN  IF i \in a .. (a + n - 1) THEN f[i - a] ELSE m[c]]

\* Copy n elements of (h2, m2), from b on, onto (h, m) at a.
CopyN(h, m, a, h2, m2, b, n) ==
  SetSpan(h, m, a, n, [i \in 0 .. (n - 1) |-> GetBit(h2, m2, b + i)])

PadCells(h) == {Pos(h.endian, i) : i \in h.nbits .. (ByteBits * h.size - 1)}

\* The bitwise operators, on a pair of bits.
Operators == {"&", "|", "^"}

Combined(oper, u, v) ==
  CASE oper = "&" -> u * v
    [] oper = "|" -> u + v - u * v
    [] oper = "^" -> (u + v) % 2

\* Zero out the pad bits, unless the buffer is read-only.
SetPadbits(h, m) ==
  IF h.readonly THEN m
  ELSE [c \in Cells |-> IF c \in PadCells(h) THEN 0 ELSE m[c]]

\* Reverse the bits within each of the bytes a .. b - 1.
ByteReverse(m, a, b) ==
  [c \in Cells |-> IF c \div ByteBits \in a .. (b - 1) THEN m[Pos(BIG, c)]
                                                        ELSE m[c]]
===============================================================================
