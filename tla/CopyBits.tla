------------------------------- MODULE CopyBits -------------------------------
(***************************************************************************)
(* copy_n() and shift_r8(), byte by byte and word by word: one call, from  *)
(* the memmove() that brings whole bytes roughly into place, over the      *)
(* shift within the bytes from the highest address down, to the bits at    *)
(* both ends.  BitLayout!CopyN says what the call promises.                *)
(*                                                                         *)
(* The content of a cell is symbolic: it tells which cell of which array   *)
(* the bit came from.  One run over all calls stands for all contents.     *)
(* Modelled is the build that shifts words in both bit orders, on a        *)
(* little-endian machine.                                                  *)
(***************************************************************************)
EXTENDS BitLayout, Sequences, SequencesExt

CONSTANTS
  WordBytes,    \* bytes per word
  Alignment,    \* what the address of a word has to be a multiple of
  Lengths       \* the lengths of arrays

ASSUME WordAssumption ==
  /\ Alignment \in Nat \ {0} /\ WordBytes \in Nat
  /\ WordBytes % Alignment = 0 /\ WordBytes > 0
  /\ Lengths \subseteq 0 .. (ByteBits * MaxBytes)

VARIABLES
  call,     \* the arguments
  pc,       \* the next part of copy_n()
  mem,      \* the buffer of self
  units,    \* what shift_r8() still has to do
  saved     \* the bytes that copy_n() keeps in t1, t2 and t3

copyvars == <<call, pc, mem, units, saved>>

Zero  == <<"zero", 0>>
Clash == <<"clash", 0>>
From(array, c) == <<array, c>>

Or(x, y) == IF x = Zero THEN y ELSE IF y = Zero THEN x ELSE Clash

SelfMem == [c \in Cells |-> From("self", c)]

\* other may be self; distinct arrays do not share memory.
OtherMem(m) == IF call.same THEN m ELSE [c \in Cells |-> From("other", c)]

Calls ==
  {r \in [a : Cells, b : Cells, n : Lengths \union Cells, same : BOOLEAN,
          nbits : Lengths, endian : {LITTLE, BIG},
          nbits2 : Lengths, endian2 : {LITTLE, BIG}, address : 0 .. (Alignment - 1)] :
     /\ r.a + r.n <= r.nbits /\ r.b + r.n <= r.nbits2
     /\ r.same => r.nbits2 = r.nbits /\ r.endian2 = r.endian}

InByte(c, i) == c \div ByteBits = i
Byte(m, i) == [s \in 0 .. (ByteBits - 1) |-> m[i * ByteBits + s]]

-------------------------------------------------------------------------------
(* shift_r8() *)

\* Cell d of a block of w bytes has this rank in the word which the shift
\* operator sees, after builtin_bswap64() if the array is big-endian.
Rank(endian, w, d) ==
  IF endian = LITTLE THEN d
  ELSE (w - 1 - d \div ByteBits) * ByteBits + (d % ByteBits)

\* Where the shift operator takes the bit of rank r from; k - ByteBits bits
\* stand for the shift by 8 - k in the other direction.
Origin(endian, r, k) == IF endian = LITTLE THEN r - k ELSE r + k

\* Shift the w bytes at byte i by k bits, as one integer.
ShiftBlock(m, endian, i, w, k) ==
  [c \in Cells |->
     IF c \div ByteBits \notin i .. (i + w - 1) THEN m[c]
     ELSE LET q == Origin(endian, Rank(endian, w, c - i * ByteBits), k)
          IN  IF q \in 0 .. (w * ByteBits - 1)
              THEN m[i * ByteBits + Rank(endian, w, q)]
              ELSE Zero]

\* buff[i] |= buff[i - 1] >> (8 - k), or << in big-endian arrays
AddCarry(m, endian, i, k) ==
  [c \in Cells |->
     LET q == Origin(endian, c % ByteBits, k - ByteBits)
     IN  IF InByte(c, i) /\ q \in 0 .. (ByteBits - 1)
         THEN Or(m[c], m[(i - 1) * ByteBits + q])
         ELSE m[c]]

\* A slip: the bits from the byte below are added before the shift.
CarryFirst(m, endian, u, k) ==
  ShiftBlock(IF u.carry THEN AddCarry(m, endian, u.at, k) ELSE m,
             endian, u.at, u.width, k)

ShiftUnit(m, endian, u, k) ==
  LET shifted == ShiftBlock(m, endian, u.at, u.width, k)
  IN  IF u.carry THEN AddCarry(shifted, endian, u.at, k) ELSE shifted

Unit(at, width, carry) == [at |-> at, width |-> width, carry |-> carry]

\* shift_r8le() and shift_r8be() on n bytes from byte i on: first the bytes
\* that do not fill a word, then words, both downwards.
BlockUnits(i, n) ==
  LET w == n \div WordBytes
      r == n % WordBytes
  IN  [j \in 1 .. r |-> Unit(i + n - j, 1, n - j > 0)]
      \o [j \in 1 .. w |-> Unit(i + WordBytes * (w - j), WordBytes, j < w)]

\* Distance to the next aligned address.
ToAligned(p) == (Alignment - (p % Alignment)) % Alignment

\* shift_r8() on the bytes a .. b - 1: the part from the first aligned address
\* on, the bits that enter it from the part before, and that part.
PartUnits(address, a, b) ==
  LET s == IF b - a >= WordBytes THEN ToAligned(address + a) ELSE 0
  IN  BlockUnits(a + s, b - a - s)
      \o (IF s = 0 THEN <<>> ELSE <<Unit(a + s, 0, TRUE)>> \o BlockUnits(a, s))

\* A slip: words are shifted where they happen to lie.
UnalignedUnits(address, a, b, k) ==
  IF k = 0 \/ b <= a THEN <<>> ELSE BlockUnits(a, b - a)

ShiftUnits(address, a, b, k) ==
  IF k = 0 \/ b <= a THEN <<>> ELSE PartUnits(address, a, b)

-------------------------------------------------------------------------------
(* copy_n() *)

sa == call.a % ByteBits

\* Bits of other before its first whole byte are copied last, through t3.
Early == sa < call.b % ByteBits
sb == (IF Early THEN ByteBits ELSE 0) - (call.b % ByteBits)

p1 == call.a \div ByteBits
p2 == (call.a + call.n - 1) \div ByteBits
p3 == call.b \div ByteBits + (IF Early THEN 1 ELSE 0)
m  == BYTES(call.n - sb)

\* ones_table: the bits of a byte that hold its first r elements.
Ones(endian, r) ==
  IF endian = LITTLE THEN 0 .. (r - 1) ELSE (ByteBits - r) .. (ByteBits - 1)

Start ==
  /\ pc = "start"
  /\ IF call.n = 0 \/ (call.same /\ call.a = call.b)
     THEN pc' = "done" /\ UNCHANGED saved
     ELSE /\ pc' = IF call.n > sb THEN "move" ELSE "ends"
          /\ saved' = IF Early
                      THEN [saved EXCEPT !.t3 = Byte(OtherMem(mem), p3 - 1)]
                      ELSE saved
  /\ UNCHANGED <<call, mem, units>>

\* Save the bytes at both ends, move whole bytes, adapt their bit order.
Move ==
  /\ pc = "move"
  /\ saved' = [saved EXCEPT !.t1 = Byte(mem, p1), !.t2 = Byte(mem, p2)]
  /\ LET moved == [c \in Cells |->
                     IF c \div ByteBits \in p1 .. (p1 + m - 1)
                     THEN OtherMem(mem)[c + (p3 - p1) * ByteBits]
                     ELSE mem[c]]
     IN  mem' = IF call.endian # call.endian2
                THEN ByteReverse(moved, p1, p1 + m) ELSE moved
  /\ units' = ShiftUnits(call.address, p1, p2 + 1, sa + sb)
  /\ pc' = "shift"
  /\ UNCHANGED call

Shift ==
  /\ pc = "shift" /\ units # <<>>
  /\ mem' = ShiftUnit(mem, call.endian, Head(units), sa + sb)
  /\ units' = Tail(units)
  /\ UNCHANGED <<call, pc, saved>>

\* Put back the elements before a in byte p1 and those behind in byte p2.
Restore ==
  /\ pc = "shift" /\ units = <<>>
  /\ LET keep1 == Ones(call.endian, sa)
         r     == (call.a + call.n) % ByteBits
         keep2 == IF r = 0 THEN {} ELSE (0 .. (ByteBits - 1)) \ Ones(call.endian, r)
         first == [c \in Cells |-> IF InByte(c, p1) /\ c % ByteBits \in keep1
                                   THEN saved.t1[c % ByteBits] ELSE mem[c]]
     IN  mem' = [c \in Cells |-> IF InByte(c, p2) /\ c % ByteBits \in keep2
                                 THEN saved.t2[c % ByteBits] ELSE first[c]]
  /\ pc' = "ends"
  /\ UNCHANGED <<call, units, saved>>

\* Copy the first sb elements, from the byte read at the start.
Ends ==
  /\ pc = "ends"
  /\ LET h == [endian |-> call.endian]
         count == IF sb < call.n THEN sb ELSE call.n
     IN  mem' = SetSpan(h, mem, call.a, count,
                  [i \in 0 .. (count - 1) |->
                     saved.t3[Pos(call.endian2, call.b + i) % ByteBits]])
  /\ pc' = "done"
  /\ UNCHANGED <<call, units, saved>>

NoByte == [s \in 0 .. (ByteBits - 1) |-> Zero]

CInit ==
  /\ call \in Calls
  /\ pc = "start"
  /\ mem = SelfMem
  /\ units = <<>>
  /\ saved = [t1 |-> NoByte, t2 |-> NoByte, t3 |-> NoByte]

Done == pc = "done" /\ UNCHANGED copyvars

CNext == Start \/ Move \/ Shift \/ Restore \/ Ends \/ Done

CSpec == CInit /\ [][CNext]_copyvars

-------------------------------------------------------------------------------
\* copy_n() copies n elements and leaves all other bits of the buffer as they
\* were, whatever the offsets, bit orders and alignment, also from one part of an
\* array to an overlapping one.
CopyCorrect ==
  pc = "done" =>
    mem = CopyN([endian |-> call.endian], SelfMem, call.a,
                [endian |-> call.endian2], OtherMem(SelfMem), call.b, call.n)

\* The assertions in copy_n() and shift_r8(): memmove() stays within both
\* buffers, and a shift within self; words lie on aligned addresses; there is a
\* byte to carry from.  Whatever is in flight, bytes without a copied element are never
\* touched: an array that shares the memory and reads elsewhere sees nothing.
AccessesInBounds ==
  /\ pc = "move" => /\ p1 + m <= BYTES(call.nbits) /\ p3 + m <= BYTES(call.nbits2)
                    /\ p2 < BYTES(call.nbits)
  /\ \A u \in Range(units) :
       /\ u.at + u.width <= BYTES(call.nbits)
       /\ u.width = WordBytes /\ WordBytes > 1 => (call.address + u.at) % Alignment = 0
       /\ u.carry => u.at > 0
  /\ \A c \in Cells :
       c \div ByteBits \notin (call.a \div ByteBits) .. ((call.a + call.n - 1) \div ByteBits)
         => mem[c] = SelfMem[c]
===============================================================================
