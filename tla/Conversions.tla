------------------------------ MODULE Conversions ------------------------------
(***************************************************************************)
(* The conversions: serialize() and deserialize(), pickling, the text of   *)
(* base 2^m digits, which is made and read by bytes if a byte holds two    *)
(* digits and bit by bit otherwise, and byteswap().                        *)
(*                                                                         *)
(* A text is a sequence of digits, white space and other characters.  t    *)
(* is an array with any pad bits, which all of these are applied to.       *)
(***************************************************************************)
EXTENDS BitLayout, Sequences, SequencesExt, FiniteSetsExt

CONSTANTS
  DigitBits,    \* the m that are used
  TextLengths,  \* lengths of arrays given at the start
  MaxText,      \* bound on the length of texts given
  Space, Other  \* white space, and a character that is no digit

VARIABLE t

\* A hexadecimal digit is half a byte.
Nibble == ByteBits \div 2

Fresh(nbits, endian, mem) ==
  [endian |-> endian, nbits |-> nbits, size |-> BYTES(nbits), readonly |-> FALSE, mem |-> mem]

Zeros == [c \in Cells |-> 0]

Init ==
  t \in UNION {{Fresh(n, e, m) : e \in {LITTLE, BIG},
                m \in {m \in [Cells -> Bit] : \A c \in Cells : c \div ByteBits >= BYTES(n) => m[c] = 0}} :
               n \in TextLengths}

Error == [kind |-> "error"]

-------------------------------------------------------------------------------
(* serialize() and deserialize()                                           *)

\* The value of the n bits from cell c on.
Number(mem, c, n) == MapThenSumSet(LAMBDA k : mem[c + k] * 2 ^ k, 0 .. (n - 1))

ToBytes(mem, n) == [i \in 1 .. n |-> Number(mem, ByteBits * (i - 1), ByteBits)]

\* The memory that n bits from cell c on with value v are written to.
FromBytes(s) ==
  [c \in Cells |-> IF c \div ByteBits < Len(s) THEN (s[c \div ByteBits + 1] \div 2 ^ (c % ByteBits)) % 2
                   ELSE 0]

Padding(x) == ByteBits * x.size - x.nbits

\* (A slip: the pad bits are left as they are.)
serialize_raw(x) == <<2 * ByteBits * x.endian + Padding(x)>> \o ToBytes(x.mem, x.size)

serialize(x) == <<2 * ByteBits * x.endian + Padding(x)>> \o ToBytes(SetPadbits(x, x.mem), x.size)

\* Head bytes have a bit for the bit-endianness and the number of pad bits.
HeadValid(s) ==
  /\ s[1] \div ByteBits \in {0, 2}
  /\ Len(s) = 1 => s[1] % (2 * ByteBits) = 0

deserialize(s) ==
  IF s = <<>> \/ (s # <<>> /\ ~HeadValid(s)) THEN Error
  ELSE Fresh(ByteBits * (Len(s) - 1) - (s[1] % ByteBits), s[1] \div (2 * ByteBits), FromBytes(Tail(s)))

-------------------------------------------------------------------------------
(* Pickling: what __reduce__() hands to _pauliebits_reconstructor().       *)

reduce(x) ==
  [bytes |-> ToBytes(SetPadbits(x, x.mem), x.size), endian |-> x.endian,
   padbits |-> Padding(x), readonly |-> x.readonly]

\* set_padbits() would skip memory that is already read-only.
reconstructor(r) ==
  LET x == Fresh(ByteBits * Len(r.bytes) - r.padbits, r.endian, FromBytes(r.bytes))
  IN  IF r.padbits \notin 0 .. (ByteBits - 1) \/ (r.bytes = <<>> /\ r.padbits # 0) THEN Error
      ELSE IF r.readonly THEN [x EXCEPT !.mem = SetPadbits(x, @), !.readonly = TRUE]
      ELSE x

-------------------------------------------------------------------------------
(* Text.                                                                   *)

\* With group > 0, a separator between groups of digits; the size of the
\* string is computed before.
Grouped(digits, group, Sep) ==
  FlattenSeq([i \in DOMAIN digits |->
    IF group > 0 /\ i > 1 /\ (i - 1) % group = 0 THEN <<Sep, digits[i]>> ELSE <<digits[i]>>])

StringSize(ndigits, group) ==
  ndigits + (IF group > 0 /\ ndigits > 0 THEN (ndigits - 1) \div group ELSE 0)

\* ba2hex_lock_held(): the half of byte i / 2 where digit i is.
ba2hex(x, group) ==
  Grouped([i \in 1 .. (x.nbits \div Nibble) |->
             LET c == ByteBits * ((i - 1) \div 2)
             IN  Number(x.mem, IF (i - 1 + x.endian) % 2 = 1 THEN c + Nibble ELSE c, Nibble)],
          group, Space)

\* The bit of a digit of m bits that is element k of it.
DigitBit(endian, m, k) == IF endian = LITTLE THEN k ELSE m - k - 1

ba2base(x, m, group) ==
  Grouped([i \in 1 .. (x.nbits \div m) |->
             MapThenSumSet(LAMBDA k : GetBit(x, x.mem, (i - 1) * m + k) * 2 ^ DigitBit(x.endian, m, k),
                           0 .. (m - 1))],
          group, Space)

\* Digits without the white space, or Error.
Digits(text, m) == SelectSeq(text, LAMBDA ch : ch # Space)
TextValid(text, m) == \A i \in DOMAIN text : text[i] \in {Space} \union 0 .. (2 ^ m - 1)

\* Digit i is in the higher half of its byte.
NibbleHigh(i, endian) == (i + endian) % 2 = 1

\* hex2ba_lock_held()
hex2ba(text, endian) ==
  LET d == Digits(text, Nibble)
      Half(i, c) == IF NibbleHigh(i, endian) THEN c % ByteBits >= Nibble ELSE c % ByteBits < Nibble
  IN  IF ~TextValid(text, Nibble) THEN Error
      ELSE Fresh(Nibble * Len(d), endian,
             [c \in Cells |->
                IF \E i \in 0 .. (Len(d) - 1) :
                     /\ c \div ByteBits = i \div 2 /\ Half(i, c)
                     /\ (d[i + 1] \div 2 ^ (c % Nibble)) % 2 = 1
                THEN 1 ELSE 0])

\* base2ba_lock_held()
base2ba(text, m, endian) ==
  LET d == Digits(text, m)
      n == m * Len(d)
  IN  IF ~TextValid(text, m) THEN Error
      ELSE Fresh(n, endian,
             SetSpan([endian |-> endian], Zeros, 0, n,
               [i \in 0 .. (n - 1) |-> (d[i \div m + 1] \div 2 ^ DigitBit(endian, m, i % m)) % 2]))

-------------------------------------------------------------------------------
\* byteswap(a, n), for a buffer of size bytes.
byteswap(mem, size, n) ==
  LET g == IF n = 0 THEN (IF size > 0 THEN size ELSE 1) ELSE n
      Source(i) == g * (i \div g) + (g - 1 - (i % g))
  IN  IF size % g # 0 THEN mem
      ELSE [c \in Cells |-> IF c \div ByteBits < size
                            THEN mem[ByteBits * Source(c \div ByteBits) + (c % ByteBits)] ELSE mem[c]]

ByteSwap == \E n \in 0 .. t.size : t' = [t EXCEPT !.mem = byteswap(@, t.size, n)]

Texts == BoundedSeq({Space, Other, 0, 1, 2, 3}, MaxText)

\* The arrays that text makes; they take the place of an empty one.
FromText ==
  /\ t.nbits = 0
  /\ \E text \in Texts, m \in DigitBits, endian \in {LITTLE, BIG} :
       LET x == IF m = Nibble THEN hex2ba(text, endian) ELSE base2ba(text, m, endian)
       IN  x # Error /\ x.nbits <= ByteBits * MaxBytes /\ t' = x

FromSerialized ==
  /\ t.nbits = 0
  /\ \E s \in BoundedSeq(0 .. (4 * ByteBits), 2) :
       deserialize(s) # Error /\ deserialize(s).size <= MaxBytes /\ t' = deserialize(s)

\* serialize() clears the pad bits of the array it is given.
Serialize == t' = [t EXCEPT !.mem = SetPadbits(t, @)]

Next == FromText \/ FromSerialized \/ Serialize \/ ByteSwap

-------------------------------------------------------------------------------
Same(x, y) == x.endian = y.endian /\ x.nbits = y.nbits /\ Elements(x, x.mem) = Elements(y, y.mem)

\* Each conversion undoes the other.  What serialize() gives is told by the elements alone,
\* and is accepted by deserialize(), whose arrays have the size that the buffer
\* has; so does the reconstructor of pickled arrays, which keeps read-only memory
\* read-only and with zero pad bits, whatever the bytes are.  Text in groups is as long as it was computed to be and is read as
\* text without; bytes by halves and digits bit by bit are the same
\* text, also for an odd number of digits.  Bytes that are swapped and reversed are the
\* elements in reverse.
ConversionsInverse ==
  LET e == t.endian
  IN  /\ Same(deserialize(serialize(t)), t)
      /\ serialize(t) = serialize([t EXCEPT !.mem = SetPadbits(t, t.mem)])
      /\ \A s \in {Append(serialize(t), v) : v \in 0 .. 1} \union {Front(serialize(t))} :
           deserialize(s) # Error =>
             deserialize(s).nbits >= 0 /\ deserialize(s).size = Len(s) - 1
      /\ \A ro \in BOOLEAN :
           LET r == reconstructor([reduce(t) EXCEPT !.readonly = ro])
           IN  Same(r, t) /\ r.readonly = ro /\ (ro => \A c \in PadCells(r) : r.mem[c] = 0)
      /\ \A p \in 0 .. ByteBits, n \in 0 .. t.size :
           LET r == reconstructor([bytes |-> SubSeq(ToBytes(t.mem, t.size), 1, n), endian |-> e,
                                   padbits |-> p, readonly |-> TRUE])
           IN  r # Error => /\ r.nbits >= 0 /\ r.size = n
                            /\ \A c \in PadCells(r) : r.mem[c] = 0
      /\ \A m \in DigitBits, group \in 0 .. 2 :
           t.nbits % m = 0 =>
             LET text == ba2base(t, m, group)
             IN  /\ Len(text) = StringSize(t.nbits \div m, group)
                 /\ Same(base2ba(text, m, e), t)
                 /\ m = Nibble => ba2hex(t, group) = text
      /\ t.nbits % Nibble = 0 =>
           \A f \in {LITTLE, BIG} :
             Same(hex2ba(ba2hex(t, 1), f), base2ba(ba2hex(t, 1), Nibble, f))
      /\ t.nbits % ByteBits = 0 =>
           Elements(t, byteswap(ByteReverse(t.mem, 0, t.size), t.size, 0))
             = [i \in 0 .. (t.nbits - 1) |-> Elements(t, t.mem)[t.nbits - 1 - i]]
===============================================================================
