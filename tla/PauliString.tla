----------------------------- MODULE PauliString ------------------------------
(***************************************************************************)
(* The operations on Pauli strings.  Operator i of a string is stored in   *)
(* the elements 2i (even) and 2i + 1 (odd) of an array: I is 00, X is 10,  *)
(* Y is 11 and Z is 01.  Most operations read elements; encode_ixyz() and  *)
(* commutes_with() work on the bytes.                                      *)
(*                                                                         *)
(* a and b are two arrays of the program, as any sequence of operations    *)
(* may have left them: their pad bits hold anything.                       *)
(***************************************************************************)
EXTENDS BitLayout, FiniteSetsExt

CONSTANTS
  FastBytes,    \* number of bytes commutes_with() processes at a time
  Endians,      \* the bit-endiannesses of the arrays
  StringLengths,  \* the lengths of arrays given at the start
  MaxOnes,      \* bound on the number of ones in these, pad bits included
  MaxLength     \* bound on the length of strings that are encoded

ASSUME StringAssumption ==
  /\ ByteBits % 2 = 0
  /\ FastBytes \in Nat \ {0}
  /\ Endians \subseteq {LITTLE, BIG}
  /\ StringLengths \subseteq 0 .. (ByteBits * MaxBytes) /\ MaxOnes \in Nat
  /\ MaxLength \in Nat /\ 2 * MaxLength <= ByteBits * MaxBytes

VARIABLES a, b

stringvars == <<a, b>>

\* Arrays of n bits with at most MaxOnes ones in their bytes.
Given(n) ==
  {[endian |-> e, nbits |-> n, mem |-> [c \in Cells |-> IF c \in ones THEN 1 ELSE 0]] :
     e \in Endians,
     ones \in UNION {kSubset(k, 0 .. (ByteBits * BYTES(n) - 1)) : k \in 0 .. MaxOnes}}

GET_BIT(x, i) == GetBit(x, x.mem, i)
Even(x, i) == GET_BIT(x, 2 * i)
\* (A slip: the endianness of the array is ignored.)
OddBig(x, i) == x.mem[Pos(BIG, 2 * i + 1)]

Odd(x, i)  == GET_BIT(x, 2 * i + 1)
Pairs(x)   == 0 .. (x.nbits \div 2 - 1)

Characters == {"I", "X", "Y", "Z", "other"}

-------------------------------------------------------------------------------
\* The two bits of a character, as a number.
Value(ch) == CASE ch = "Z" -> 1 [] ch = "X" -> 2 [] ch = "Y" -> 3 [] OTHER -> 0

PerByte == ByteBits \div 2

\* (A slip: the first character is not shifted.)
ShiftedLow(i) == ByteBits * (i \div PerByte) + 2 * (i % PerByte)

\* Cell of the low bit of character i: the first of a byte is shifted highest.
Shifted(i) == ByteBits * (i \div PerByte) + (ByteBits - 2 - 2 * (i % PerByte))

\* a.encode_ixyz(s), for a string of length len.
EncodeIxyz(s, len) ==
  [endian |-> BIG,
   nbits  |-> 2 * len,
   mem    |-> [c \in Cells |->
      IF \E i \in 0 .. (len - 1) :
           \/ c = Shifted(i)     /\ Value(s[i]) % 2 = 1
           \/ c = Shifted(i) + 1 /\ Value(s[i]) \div 2 = 1
      THEN 1 ELSE 0]]

DECODE_MAP == [v \in 0 .. 3 |->
  CASE v = 0 -> "I" [] v = 1 -> "X" [] v = 2 -> "Z" [] v = 3 -> "Y"]

DecodeIxyz(x) == [i \in Pairs(x) |-> DECODE_MAP[2 * Odd(x, i) + Even(x, i)]]

CountNonTrivially(x) ==
  Cardinality({i \in Pairs(x) : Even(x, i) = 1 \/ Odd(x, i) = 1})

ComplexConjugate(x) ==
  Cardinality({i \in Pairs(x) : Even(x, i) = 1 /\ Odd(x, i) = 1})

\* The mask is built in a fresh big-endian array.
NotIdentityMask(x) ==
  LET n == x.nbits \div 2
      set == {Pos(BIG, i) : i \in {j \in Pairs(x) : Even(x, j) = 1 \/ Odd(x, j) = 1}}
  IN  [endian |-> BIG, nbits |-> n, mem |-> [c \in Cells |-> IF c \in set THEN 1 ELSE 0]]

\* Number(base, s)[k] is the number with the digits s[0] .. s[k - 1], the most
\* significant first; in base 1 it is their sum.
Number(base, s) ==
  LET value[k \in Nat] == IF k = 0 THEN 0 ELSE base * value[k - 1] + s[k - 1]
  IN  value

\* The odd bits as a number, most significant first, whatever the endianness is.
DiagonalIndex(x) ==
  IF \E i \in Pairs(x) : Even(x, i) = 1
  THEN -1
  ELSE Number(2, [i \in Pairs(x) |-> Odd(x, i)])[x.nbits \div 2]

\* util.ba2int() of an array of n > 0 elements s: its bytes, filled up with zeros,
\* as an integer whose byte order is the bit-endianness.
ba2int(endian, s, n) ==
  Number(2, [i \in 0 .. (n - 1) |-> IF endian = BIG THEN s[i] ELSE s[n - 1 - i]])[n]

\* x.phase(y), for arrays of one length.
Phase(x, y) ==
  LET sum_1 == Cardinality({i \in Pairs(x) : Even(x, i) = 1 /\ Odd(y, i) = 1})
      sum_2 == Cardinality({i \in Pairs(x) : Odd(x, i) = 1 /\ Even(x, i) = 1})
      sum_3 == Cardinality({i \in Pairs(x) : Odd(y, i) = 1 /\ Even(y, i) = 1})
      sum_4 == Cardinality({i \in Pairs(x) : /\ Even(x, i) # Even(y, i)
                                             /\ Odd(x, i) # Odd(y, i)})
  IN  2 * sum_1 + sum_2 + sum_3 - sum_4

MinBits(x, y) == IF x.nbits < y.nbits THEN x.nbits ELSE y.nbits

\* (A slip: the tail is not masked.)
AllCells(min_bits) == 0 .. (ByteBits * BYTES(min_bits) - 1)

\* The cells commutes_with() looks at, if min_bits elements are compared: whole
\* words as they are; of the bytes after them the last without its low bits, if
\* it is not full.
ComparedCells(min_bits) ==
  LET nbytes     == BYTES(min_bits)
      fast_bytes == nbytes - (nbytes % FastBytes)
      last       == nbytes - 1
      tail       == IF min_bits % ByteBits # 0 THEN ByteBits - (min_bits % ByteBits) ELSE 0
  IN  {c \in 0 .. (ByteBits * nbytes - 1) :
         c \div ByteBits = last /\ last >= fast_bytes => c % ByteBits >= tail}

\* Parity of the bits set in (x & 0101...) & (y >> 1).
Crossed(x, y, cells) ==
  Cardinality({c \in cells : c % 2 = 0 /\ x.mem[c] = 1
                             /\ c + 1 \in cells /\ y.mem[c + 1] = 1}) % 2

\* x.commutes_with(y)
CommutesWith(x, y) ==
  LET cells == ComparedCells(MinBits(x, y))
  IN  Crossed(x, y, cells) = Crossed(y, x, cells)

-------------------------------------------------------------------------------
StringInit == \E n, k \in StringLengths : a \in Given(n) /\ b \in Given(k)

Encode(s, len) == a' = EncodeIxyz(s, len) /\ UNCHANGED b

Mask == b' = NotIdentityMask(a) /\ UNCHANGED a

StringNext ==
  \/ \E len \in 0 .. MaxLength : \E s \in [0 .. (len - 1) -> Characters] : Encode(s, len)
  \/ Mask

StringSpec == StringInit /\ [][StringNext]_stringvars

-------------------------------------------------------------------------------
(***************************************************************************)
(* The algebra of Pauli operators.                                         *)
(***************************************************************************)
\* The operators of a string, by the table of the documentation.
Operator(x, i) ==
  CASE <<GET_BIT(x, 2 * i), GET_BIT(x, 2 * i + 1)>> = <<0, 0>> -> "I"
    [] <<GET_BIT(x, 2 * i), GET_BIT(x, 2 * i + 1)>> = <<1, 0>> -> "X"
    [] <<GET_BIT(x, 2 * i), GET_BIT(x, 2 * i + 1)>> = <<1, 1>> -> "Y"
    [] <<GET_BIT(x, 2 * i), GET_BIT(x, 2 * i + 1)>> = <<0, 1>> -> "Z"

Anticommute(P, Q) == P # "I" /\ Q # "I" /\ P # Q

\* P Q = i^f R, where XY = iZ, YZ = iX and ZX = iY.
ProductPhase(P, Q) ==
  CASE <<P, Q>> \in {<<"X", "Y">>, <<"Y", "Z">>, <<"Z", "X">>} -> 1
    [] <<Q, P>> \in {<<"X", "Y">>, <<"Y", "Z">>, <<"Z", "X">>} -> 3
    [] OTHER -> 0

\* Two strings commute if and only if they anticommute at an even number of
\* positions.
Commute(x, y) ==
  LET n == MinBits(x, y) \div 2
  IN  Cardinality({i \in 0 .. (n - 1) : Anticommute(Operator(x, i), Operator(y, i))}) % 2 = 0

\* commutes_with() decides commutativity of big-endian strings, even those that
\* do not fill their last byte, as long as this byte is not part of a whole
\* word; of full bytes also for little-endian strings.
CommutesMasked ==
  LET n == MinBits(a, b)
  IN  /\ a.endian = b.endian
      /\ \/ n % ByteBits = 0
         \/ a.endian = BIG /\ BYTES(n) % FastBytes # 0
      => CommutesWith(a, b) = Commute(a, b)

\* commutes_with() is a "check for commutativity" (README.rst).
CommutesCorrect ==
  /\ a.endian = b.endian /\ a.nbits % 2 = 0 /\ b.nbits % 2 = 0
  => CommutesWith(a, b) = Commute(a, b)

\* phase() gives "the exponent f in phase = i^f" of the product of the other
\* string with this one, whatever the endiannesses are.
PhaseCorrect ==
  a.nbits = b.nbits =>
    LET phases == [i \in Pairs(a) |-> ProductPhase(Operator(b, i), Operator(a, i))]
    IN  Phase(a, b) % 4 = Number(1, phases)[a.nbits \div 2] % 4

\* Power[k] is 2^k.
Power[k \in Nat] == IF k = 0 THEN 1 ELSE 2 * Power[k - 1]

\* Encoding the text that decode_ixyz() made of an array gives an array with the
\* same elements, although the bytes are assembled without regard to the
\* endianness of the one decoded.  diagonal_index() tells diagonal strings from
\* others; the binary digits that it gives for a big-endian one say where this has
\* a Z.  not_identity_mask() has a bit set for each operator that is not I;
\* count_non_trivially() is their number, and complex_conjugate() that of the
\* operators that change their sign.
StringsAgree ==
  LET n     == a.nbits \div 2
      d     == DiagonalIndex(a)
      x     == EncodeIxyz(DecodeIxyz(a), n)
      mask  == NotIdentityMask(a)
      Op(i) == Operator(a, i)
  IN  /\ a.nbits % 2 = 0 => Elements(x, x.mem) = Elements(a, a.mem)
      /\ IF \E i \in Pairs(a) : Op(i) \in {"X", "Y"} THEN d = -1
         ELSE a.endian = BIG =>
              /\ d \in 0 .. (Power[n] - 1)
              /\ \A i \in Pairs(a) : (d \div Power[n - 1 - i]) % 2 = 1 <=> Op(i) = "Z"
      /\ Elements(mask, mask.mem) = [i \in Pairs(a) |-> IF Op(i) = "I" THEN 0 ELSE 1]
      /\ CountNonTrivially(a) = Cardinality({i \in 0 .. (mask.nbits - 1) : GET_BIT(mask, i) = 1})
      /\ ComplexConjugate(a) = Cardinality({i \in Pairs(a) : Op(i) = "Y"})

\* diagonal_index() is "ba2int(bits_odd) if ba2int(bits_even) == 0 else -1"
\* (README.rst), where ba2int() respects the endianness of the array, which slices
\* of it share.
DiagonalDocumented ==
  LET n    == a.nbits \div 2
      even == [i \in Pairs(a) |-> Even(a, i)]
      odd  == [i \in Pairs(a) |-> Odd(a, i)]
  IN  a.nbits % 2 = 0 /\ n > 0 =>
        DiagonalIndex(a) =
          IF ba2int(a.endian, even, n) = 0 THEN ba2int(a.endian, odd, n) ELSE -1
===============================================================================
