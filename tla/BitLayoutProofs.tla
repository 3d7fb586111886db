--------------------------- MODULE BitLayoutProofs ----------------------------
(***************************************************************************)
(* The size arithmetic, and what the bit operations of pauliebits.h do to  *)
(* the elements of an array, for buffers of any size and bytes of any      *)
(* width.                                                                  *)
(***************************************************************************)
EXTENDS BitLayout, TLAPS

\* Division with remainder.
LEMMA DivMod ==
  ASSUME NEW n \in Nat
  PROVE  /\ n \div ByteBits \in Nat
         /\ n % ByteBits \in 0 .. (ByteBits - 1)
         /\ n = ByteBits * (n \div ByteBits) + (n % ByteBits)
BY ByteBitsAssumption

\* A quotient is determined by any representation with a proper remainder.
LEMMA DivUnique ==
  ASSUME NEW q \in Nat, NEW r \in 0 .. (ByteBits - 1)
  PROVE  /\ (ByteBits * q + r) \div ByteBits = q
         /\ (ByteBits * q + r) % ByteBits = r
<1> DEFINE n == ByteBits * q + r
           d == n \div ByteBits
<1>1. n \in Nat
  BY ByteBitsAssumption
<1>2. /\ d \in Nat
      /\ n % ByteBits \in 0 .. (ByteBits - 1)
      /\ n = ByteBits * d + (n % ByteBits)
  BY <1>1, DivMod
<1> HIDE DEF n, d
<1>3. ByteBits * q + r < ByteBits * d + ByteBits
  BY <1>2, ByteBitsAssumption DEF n
<1>4. ByteBits * d < ByteBits * q + ByteBits
  BY <1>2, ByteBitsAssumption DEF n
<1>5. q < d + 1
  <2>1. SUFFICES ASSUME q >= d + 1 PROVE FALSE
    BY <1>2
  <2>2. ByteBits * q >= ByteBits * (d + 1)
    BY <2>1, <1>2, ByteBitsAssumption
  <2>3. QED
    BY <2>2, <1>2, <1>3, ByteBitsAssumption
<1>6. d < q + 1
  <2>1. SUFFICES ASSUME d >= q + 1 PROVE FALSE
    BY <1>2
  <2>2. ByteBits * d >= ByteBits * (q + 1)
    BY <2>1, <1>2, ByteBitsAssumption
  <2>3. QED
    BY <2>2, <1>2, <1>4, ByteBitsAssumption
<1>7. d = q
  BY <1>2, <1>5, <1>6
<1>8. n % ByteBits = r
  BY <1>2, <1>7, ByteBitsAssumption DEF n
<1>9. QED
  BY <1>7, <1>8 DEF d, n

\* Whole bytes need no padding.
LEMMA BytesOfWhole ==
  ASSUME NEW k \in Nat
  PROVE  BYTES(ByteBits * k) = k /\ PADBITS(ByteBits * k) = 0
<1>1. BYTES(ByteBits * k) = k
  BY DivUnique, ByteBitsAssumption DEF BYTES
<1>2. (ByteBits * k) % ByteBits = 0
  <2>1. (ByteBits * k + 0) % ByteBits = 0
    BY DivUnique, ByteBitsAssumption
  <2>2. QED
    BY <2>1, ByteBitsAssumption
<1>3. (ByteBits * 1 + 0) % ByteBits = 0
  BY DivUnique, ByteBitsAssumption
<1>4. ByteBits % ByteBits = 0
  BY <1>3, ByteBitsAssumption
<1>5. PADBITS(ByteBits * k) = (ByteBits - 0) % ByteBits
  BY <1>2 DEF PADBITS
<1>6. QED
  BY <1>1, <1>4, <1>5, ByteBitsAssumption

\* No bits, no bytes; otherwise some.
LEMMA BytesNat ==
  ASSUME NEW n \in Nat
  PROVE  BYTES(n) \in Nat /\ BYTES(0) = 0
<1>1. BYTES(n) \in Nat
  BY DivMod, ByteBitsAssumption DEF BYTES
<1>2. BYTES(0) = 0
  BY BytesOfWhole, ByteBitsAssumption
<1>3. QED
  BY <1>1, <1>2

\* The elements and the pad bits fill the bytes exactly: n bits and their
\* padding make BYTES(n) bytes.
LEMMA PadFills ==
  ASSUME NEW n \in Nat
  PROVE  /\ PADBITS(n) \in 0 .. (ByteBits - 1)
         /\ n + PADBITS(n) = ByteBits * BYTES(n)
<1> DEFINE q == n \div ByteBits
           r == n % ByteBits
<1>1. q \in Nat /\ r \in 0 .. (ByteBits - 1) /\ n = ByteBits * q + r
  BY DivMod
<1> HIDE DEF q
<1>2. CASE r = 0
  <2>1. n = ByteBits * q
    BY <1>1, <1>2, ByteBitsAssumption
  <2>2. BYTES(n) = q /\ PADBITS(n) = 0
    BY <2>1, <1>1, BytesOfWhole
  <2>3. QED
    BY <2>1, <2>2, ByteBitsAssumption
<1>3. CASE r # 0
  <2>1. PADBITS(n) = (ByteBits * 0 + (ByteBits - r)) % ByteBits
    BY <1>1, ByteBitsAssumption DEF PADBITS
  <2>2. ByteBits - r \in 0 .. (ByteBits - 1)
    BY <1>1, <1>3, ByteBitsAssumption
  <2> HIDE DEF r
  <2>3. PADBITS(n) = ByteBits - r
    BY <2>1, <2>2, DivUnique
  <2>4. n + (ByteBits - 1) = ByteBits * (q + 1) + (r - 1)
    BY <1>1, ByteBitsAssumption
  <2>5. BYTES(n) = q + 1
    <3>1. r - 1 \in 0 .. (ByteBits - 1) /\ q + 1 \in Nat
      BY <1>1, <1>3, ByteBitsAssumption
    <3>2. (ByteBits * (q + 1) + (r - 1)) \div ByteBits = q + 1
      BY <3>1, DivUnique
    <3>3. QED
      BY <3>2, <2>4 DEF BYTES
  <2>6. QED
    BY <2>2, <2>3, <2>5, <1>1, ByteBitsAssumption
<1>4. QED
  BY <1>2, <1>3

\* fill() may count the pad bits as elements without touching the buffer.
LEMMA BytesOfFilled ==
  ASSUME NEW n \in Nat
  PROVE  /\ n + PADBITS(n) \in Nat
         /\ n + PADBITS(n) = ByteBits * BYTES(n)
         /\ BYTES(n + PADBITS(n)) = BYTES(n)
BY PadFills, BytesNat, BytesOfWhole, ByteBitsAssumption

\* The allocation chosen is large enough for the new size.
LEMMA NewAllocationCovers ==
  ASSUME NEW size \in Nat, NEW allocated \in Nat, NEW newsize \in Nat
  PROVE  /\ NewAllocation(size, allocated, newsize) \in Nat
         /\ NewAllocation(size, allocated, newsize) >= newsize
<1>1. newsize \div 16 \in Nat /\ newsize \div 2 \in Nat
  OBVIOUS
<1>2. \A n \in Nat : n % 4 \in 0 .. 3
  OBVIOUS
<1>3. Overallocated(newsize) \in Nat /\ Overallocated(newsize) >= newsize
  BY <1>1, <1>2 DEF Overallocated, Mask4
<1>4. QED
  BY <1>3 DEF NewAllocation

\* The allocation is at most about twice what is needed.  (The three bytes that
\* small buffers get in advance are not too many, because overallocation starts
\* with the second byte.)
LEMMA NewAllocationProportionate ==
  ASSUME NEW size \in Nat, NEW allocated \in Nat, allocated >= size,
         NEW newsize \in Nat \ {0}
  PROVE  NewAllocation(size, allocated, newsize) <= 2 * newsize + 1
<1>1. \A n \in Nat : n % 4 \in 0 .. 3
  OBVIOUS
<1>2. newsize \div 16 \in Nat /\ 16 * (newsize \div 16) <= newsize
  OBVIOUS
<1>3. allocated <= 2 * (allocated \div 2) + 1 /\ allocated \div 2 \in Nat
  OBVIOUS
<1>4. ASSUME newsize >= 2 PROVE Overallocated(newsize) <= 2 * newsize + 1
  <2>1. Overallocated(newsize)
          <= newsize + (newsize \div 16) + (IF newsize < 8 THEN 3 ELSE 7)
    BY <1>1, <1>2 DEF Overallocated, Mask4
  <2>2. Overallocated(newsize) \in Int
    BY <1>2 DEF Overallocated, Mask4
  <2>3. QED
    BY <1>2, <1>4, <2>1, <2>2
<1>5. CASE allocated >= newsize
  BY <1>3, <1>5 DEF NewAllocation
<1>6. CASE allocated < newsize /\ size # 0 /\ newsize \div 2 <= allocated
  BY <1>4, <1>6 DEF NewAllocation
<1>7. CASE allocated < newsize /\ ~(size # 0 /\ newsize \div 2 <= allocated)
  BY <1>7 DEF NewAllocation
<1>8. QED
  BY <1>5, <1>6, <1>7

Endian == {LITTLE, BIG}

\* The number of cells of a buffer of n bytes.
Room(n) == ByteBits * n

\* A buffer grows with its bytes.
LEMMA RoomFacts ==
  ASSUME NEW n \in Nat
  PROVE  /\ Room(n) \in Nat
         /\ Room(n + 1) = Room(n) + ByteBits
         /\ Room(0) = 0
BY ByteBitsAssumption DEF Room

\* More bytes, more room.
LEMMA RoomMonotonic ==
  ASSUME NEW n \in Nat, NEW k \in Nat, n <= k
  PROVE  Room(n) <= Room(k)
<1>1. PICK d \in Nat : k = n + d
  <2>1. k - n \in Nat /\ k = n + (k - n)
    OBVIOUS
  <2>2. QED
    BY <2>1
<1>2. ByteBits * (n + d) = ByteBits * n + ByteBits * d
  BY ByteBitsAssumption
<1>3. ByteBits * d \in Nat /\ ByteBits * n \in Nat
  BY ByteBitsAssumption
<1>4. QED
  BY <1>1, <1>2, <1>3 DEF Room

\* The room of two buffers.
LEMMA RoomAdds ==
  ASSUME NEW n \in Nat, NEW k \in Nat
  PROVE  Room(n + k) = Room(n) + Room(k)
BY ByteBitsAssumption DEF Room

\* Bytes that hold a number of bits, and no more than the largest buffer.
LEMMA BytesFit ==
  ASSUME NEW n \in Nat
  PROVE  /\ BYTES(n) \in Nat
         /\ n <= Room(BYTES(n))
         /\ Room(BYTES(n)) <= n + ByteBits - 1
         /\ \A k \in Nat : n <= Room(k) => BYTES(n) <= k
<1>1. /\ PADBITS(n) \in 0 .. (ByteBits - 1)
      /\ n + PADBITS(n) = Room(BYTES(n))
      /\ BYTES(n) \in Nat
  BY PadFills, BytesNat DEF Room
<1>2. ASSUME NEW k \in Nat, n <= Room(k), ~ (BYTES(n) <= k)
      PROVE  FALSE
  <2>1. Room(k + 1) <= Room(BYTES(n))
    BY <1>1, <1>2, RoomMonotonic
  <2>2. Room(k + 1) = Room(k) + ByteBits /\ Room(k) \in Nat
    BY RoomFacts
  <2>3. QED
    BY <1>1, <1>2, <2>1, <2>2, ByteBitsAssumption
<1>3. QED
  BY <1>1, <1>2, ByteBitsAssumption

-------------------------------------------------------------------------------
(***************************************************************************)
(* Where the elements are.                                                 *)
(***************************************************************************)
\* The byte and the place in the byte of an index.
LEMMA PosBig ==
  ASSUME NEW q \in Nat, NEW r \in 0 .. (ByteBits - 1)
  PROVE  Pos(BIG, ByteBits * q + r) = ByteBits * q + (ByteBits - 1 - r)
<1> DEFINE i == ByteBits * q + r
<1>1. i \div ByteBits = q /\ i % ByteBits = r
  BY DivUnique
<1>2. Pos(BIG, i) = (i \div ByteBits) * ByteBits + (ByteBits - 1) - (i % ByteBits)
  BY DEF Pos, BIG, LITTLE
<1>3. q * ByteBits = ByteBits * q /\ ByteBits * q \in Nat
  BY ByteBitsAssumption
<1> HIDE DEF i
<1>4. QED
  BY <1>1, <1>2, <1>3, ByteBitsAssumption DEF i

\* Elements stay within their byte, and Pos is its own inverse.
LEMMA PosInvolution ==
  ASSUME NEW e \in Endian, NEW i \in Nat
  PROVE  /\ Pos(e, i) \in Nat
         /\ Pos(e, i) \div ByteBits = i \div ByteBits
         /\ Pos(e, Pos(e, i)) = i
<1>1. CASE e = LITTLE
  BY <1>1 DEF Pos
<1>2. CASE e = BIG
  <2> DEFINE q == i \div ByteBits
             r == i % ByteBits
  <2>1. q \in Nat /\ r \in 0 .. (ByteBits - 1) /\ i = ByteBits * q + r
    BY DivMod
  <2> HIDE DEF q, r
  <2>2. ByteBits - 1 - r \in 0 .. (ByteBits - 1)
    BY <2>1, ByteBitsAssumption
  <2>3. Pos(BIG, i) = ByteBits * q + (ByteBits - 1 - r)
    BY <2>1, PosBig
  <2>4. Pos(BIG, Pos(BIG, i)) = ByteBits * q + (ByteBits - 1 - (ByteBits - 1 - r))
    BY <2>1, <2>2, <2>3, PosBig
  <2>5. ByteBits - 1 - (ByteBits - 1 - r) = r
    BY <2>1, ByteBitsAssumption
  <2>6. Pos(BIG, i) \div ByteBits = q /\ i \div ByteBits = q
    BY <2>1, <2>2, <2>3, DivUnique
  <2>7. Pos(BIG, i) \in Nat
    BY <2>1, <2>2, <2>3, ByteBitsAssumption
  <2>8. QED
    BY <1>2, <2>1, <2>4, <2>5, <2>6, <2>7
<1>3. QED
  BY <1>1, <1>2 DEF Endian

\* The first n bytes hold the first n * ByteBits elements.
LEMMA PosRange ==
  ASSUME NEW e \in Endian, NEW n \in Nat, NEW i \in Nat
  PROVE  Pos(e, i) < Room(n) <=> i < Room(n)
<1>1. ASSUME NEW c \in Nat
      PROVE  c < Room(n) <=> c \div ByteBits < n
  <2> DEFINE q == c \div ByteBits
             r == c % ByteBits
  <2>1. q \in Nat /\ r \in 0 .. (ByteBits - 1) /\ c = Room(q) + r
    BY DivMod DEF Room
  <2> HIDE DEF q, r
  <2>2. CASE q < n
    <3>1. Room(q + 1) <= Room(n) /\ Room(q + 1) = Room(q) + ByteBits
      BY <2>1, <2>2, RoomMonotonic, RoomFacts
    <3>2. Room(q) \in Nat /\ Room(n) \in Nat
      BY <2>1, RoomFacts
    <3>3. QED
      BY <2>1, <2>2, <3>1, <3>2, ByteBitsAssumption DEF q
  <2>3. CASE ~ (q < n)
    <3>1. Room(n) <= Room(q)
      BY <2>1, <2>3, RoomMonotonic
    <3>2. Room(q) \in Nat /\ Room(n) \in Nat
      BY <2>1, RoomFacts
    <3>3. QED
      BY <2>1, <2>3, <3>1, <3>2 DEF q
  <2>4. QED
    BY <2>2, <2>3
<1>2. Pos(e, i) \in Nat /\ Pos(e, i) \div ByteBits = i \div ByteBits
  BY PosInvolution
<1>3. QED
  BY <1>1, <1>2

\* The cells are those of the largest buffer.
LEMMA CellsFacts ==
  /\ Room(MaxBytes) \in Nat
  /\ \A c : c \in Cells <=> c \in Nat /\ c < Room(MaxBytes)
  /\ \A e \in Endian, i \in Nat :
       i < Room(MaxBytes) => /\ Pos(e, i) \in Cells
                             /\ Pos(e, Pos(e, i)) = i
<1>1. Room(MaxBytes) \in Nat
  BY RoomFacts, MaxBytesAssumption
<1>2. ASSUME NEW c PROVE c \in Cells <=> c \in Nat /\ c < Room(MaxBytes)
  BY <1>1 DEF Cells, Room
<1>3. ASSUME NEW e \in Endian, NEW i \in Nat, i < Room(MaxBytes)
      PROVE  Pos(e, i) \in Cells /\ Pos(e, Pos(e, i)) = i
  BY <1>2, <1>3, PosRange, PosInvolution, MaxBytesAssumption
<1>4. QED
  BY <1>1, <1>2, <1>3
-------------------------------------------------------------------------------
(***************************************************************************)
(* Reading and writing elements.  At(e, m, i) is element i of a buffer m   *)
(* of endianness e.                                                        *)
(***************************************************************************)
Limit == Room(MaxBytes)

Indices == 0 .. (Limit - 1)

At(e, m, i) == m[Pos(e, i)]

\* The indices of the elements are the cells, in another order.
LEMMA IndicesFacts ==
  /\ Limit \in Nat
  /\ Indices = Cells
  /\ \A i : i \in Indices <=> i \in Nat /\ i < Limit
  /\ \A e \in Endian, i \in Indices : Pos(e, i) \in Indices /\ Pos(e, Pos(e, i)) = i
BY CellsFacts DEF Limit, Indices, Cells, Room

\* Every element is a bit or unset.
LEMMA AtType ==
  ASSUME NEW e \in Endian, NEW m \in Block, NEW i \in Indices
  PROVE  At(e, m, i) \in Bit \union {Undef}
BY IndicesFacts DEF At, Block

\* Two buffers with the same elements are the same.
LEMMA AtCells ==
  ASSUME NEW e \in Endian, NEW m, NEW c \in Cells
  PROVE  Pos(e, c) \in Indices /\ At(e, m, Pos(e, c)) = m[c]
BY IndicesFacts DEF At

\* Setting one element.
LEMMA SetBitAt ==
  ASSUME NEW h, h.endian \in Endian, NEW m \in Block, NEW j \in Indices, NEW v
  PROVE  /\ v \in Bit \union {Undef} => SetBit(h, m, j, v) \in Block
         /\ \A i \in Indices :
              At(h.endian, SetBit(h, m, j, v), i) = IF i = j THEN v ELSE At(h.endian, m, i)
<1> DEFINE e == h.endian
           c == Pos(e, j)
           x == SetBit(h, m, j, v)
<1>1. c \in Cells
  BY IndicesFacts
<1>2. x = [m EXCEPT ![c] = v]
  BY DEF SetBit
<1>3. v \in Bit \union {Undef} => x \in Block
  BY <1>1, <1>2 DEF Block
<1>4. ASSUME NEW i \in Indices
      PROVE  At(e, x, i) = IF i = j THEN v ELSE At(e, m, i)
  <2>1. Pos(e, i) \in Cells /\ (Pos(e, i) = c => i = j)
    BY IndicesFacts
  <2>2. m \in [Cells -> Bit \union {Undef}]
    BY DEF Block
  <2>3. x[Pos(e, i)] = IF Pos(e, i) = c THEN v ELSE m[Pos(e, i)]
    <3> HIDE DEF x, c
    <3>1. QED
      BY <1>1, <1>2, <2>1, <2>2
  <2>4. QED
    BY <2>1, <2>3 DEF At
<1>5. QED
  BY <1>3, <1>4

\* What is at index i once n values of f are stored from a on, over v.
Over(a, n, f, i, v) == IF i \in a .. (a + n - 1) THEN f[i - a] ELSE v

\* Setting n elements from a on.
LEMMA SetSpanAt ==
  ASSUME NEW h, h.endian \in Endian, NEW m \in Block, NEW a \in Nat, NEW n \in Nat,
         NEW f, NEW i \in Indices
  PROVE  At(h.endian, SetSpan(h, m, a, n, f), i) = Over(a, n, f, i, At(h.endian, m, i))
<1> DEFINE e == h.endian
<1>1. Pos(e, i) \in Cells /\ Pos(e, Pos(e, i)) = i
  BY IndicesFacts
<1>2. SetSpan(h, m, a, n, f)[Pos(e, i)] =
        IF Pos(e, Pos(e, i)) \in a .. (a + n - 1)
        THEN f[Pos(e, Pos(e, i)) - a] ELSE m[Pos(e, i)]
  BY <1>1 DEF SetSpan
<1>3. QED
  BY <1>1, <1>2 DEF At, Over

\* A buffer stays a buffer when elements are set,
LEMMA SetSpanBlock ==
  ASSUME NEW h, h.endian \in Endian, NEW m \in Block, NEW a \in Nat, NEW n \in Nat, NEW f,
         \A i \in 0 .. (n - 1) : f[i] \in Bit \union {Undef}
  PROVE  SetSpan(h, m, a, n, f) \in Block
<1>1. ASSUME NEW c \in Cells
      PROVE  (IF Pos(h.endian, c) \in a .. (a + n - 1) THEN f[Pos(h.endian, c) - a] ELSE m[c])
               \in Bit \union {Undef}
  <2> DEFINE i == Pos(h.endian, c)
  <2>1. i \in Nat /\ m[c] \in Bit \union {Undef}
    BY IndicesFacts DEF Block
  <2>2. i \in a .. (a + n - 1) => i - a \in 0 .. (n - 1)
    <3> HIDE DEF i
    <3>1. QED
      BY <2>1
  <2>3. QED
    BY <2>1, <2>2
<1>2. QED
  BY <1>1 DEF SetSpan, Block

\* Copying n elements of another buffer, or of the same one.
LEMMA CopyNAt ==
  ASSUME NEW h, h.endian \in Endian, NEW m \in Block, NEW a \in Nat, NEW n \in Nat,
         NEW h2, NEW m2, NEW b \in Nat, NEW i \in Indices
  PROVE  At(h.endian, CopyN(h, m, a, h2, m2, b, n), i) =
           Over(a, n, [j \in 0 .. (n - 1) |-> At(h2.endian, m2, b + j)], i,
                At(h.endian, m, i))
<1> DEFINE f == [j \in 0 .. (n - 1) |-> At(h2.endian, m2, b + j)]
<1>1. CopyN(h, m, a, h2, m2, b, n) = SetSpan(h, m, a, n, f)
  BY DEF CopyN, GetBit, At
<1> HIDE DEF f
<1>2. At(h.endian, SetSpan(h, m, a, n, f), i) = Over(a, n, f, i, At(h.endian, m, i))
  BY SetSpanAt
<1>3. QED
  BY <1>1, <1>2 DEF f

\* The elements copied, and the others.
LEMMA CopyNElements ==
  ASSUME NEW h, h.endian \in Endian, NEW m \in Block, NEW a \in Nat, NEW n \in Nat,
         NEW h2, NEW m2, NEW b \in Nat, NEW i \in Nat, i < Limit
  PROVE  /\ a <= i /\ i < a + n =>
              At(h.endian, CopyN(h, m, a, h2, m2, b, n), i) = At(h2.endian, m2, b + (i - a))
         /\ i < a \/ a + n <= i =>
              At(h.endian, CopyN(h, m, a, h2, m2, b, n), i) = At(h.endian, m, i)
<1> DEFINE f == [j \in 0 .. (n - 1) |-> At(h2.endian, m2, b + j)]
<1>1. At(h.endian, CopyN(h, m, a, h2, m2, b, n), i) = Over(a, n, f, i, At(h.endian, m, i))
  <2>1. i \in Indices
    BY IndicesFacts
  <2>2. QED
    BY <2>1, CopyNAt
<1>2. a <= i /\ i < a + n => f[i - a] = At(h2.endian, m2, b + (i - a))
  OBVIOUS
<1> HIDE DEF f
<1>3. QED
  BY <1>1, <1>2 DEF Over

\* The elements set, and the others.
LEMMA SetSpanElements ==
  ASSUME NEW h, h.endian \in Endian, NEW m \in Block, NEW a \in Nat, NEW n \in Nat,
         NEW f, NEW i \in Nat, i < Limit
  PROVE  /\ a <= i /\ i < a + n => At(h.endian, SetSpan(h, m, a, n, f), i) = f[i - a]
         /\ i < a \/ a + n <= i =>
              At(h.endian, SetSpan(h, m, a, n, f), i) = At(h.endian, m, i)
<1>1. At(h.endian, SetSpan(h, m, a, n, f), i) = Over(a, n, f, i, At(h.endian, m, i))
  BY SetSpanAt, IndicesFacts
<1>2. QED
  BY <1>1 DEF Over

\* and when elements are copied.
LEMMA CopyNBlock ==
  ASSUME NEW h, h.endian \in Endian, NEW m \in Block, NEW a \in Nat, NEW n \in Nat,
         NEW h2, h2.endian \in Endian, NEW m2 \in Block, NEW b \in Nat, b + n <= Limit
  PROVE  CopyN(h, m, a, h2, m2, b, n) \in Block
<1> DEFINE f == [i \in 0 .. (n - 1) |-> GetBit(h2, m2, b + i)]
<1>1. CopyN(h, m, a, h2, m2, b, n) = SetSpan(h, m, a, n, f)
  BY DEF CopyN
<1>2. ASSUME NEW i \in 0 .. (n - 1) PROVE f[i] \in Bit \union {Undef}
  <2>1. b + i \in Indices
    BY IndicesFacts
  <2>2. QED
    BY <2>1, AtType DEF GetBit, At
<1> HIDE DEF f
<1>3. QED
  BY <1>1, <1>2, SetSpanBlock

\* set_padbits() clears what is behind the elements, and only that.
LEMMA SetPadbitsAt ==
  ASSUME NEW h, h.endian \in Endian, NEW m \in Block, h.nbits \in Nat, h.size \in Nat,
         Room(h.size) <= Limit
  PROVE  /\ SetPadbits(h, m) \in Block
         /\ \A i \in Indices :
              At(h.endian, SetPadbits(h, m), i) =
                IF ~h.readonly /\ i \in h.nbits .. (Room(h.size) - 1)
                THEN 0 ELSE At(h.endian, m, i)
<1> DEFINE e == h.endian
           p == PadCells(h)
<1>1. p = {Pos(e, i) : i \in h.nbits .. (Room(h.size) - 1)}
  BY DEF PadCells, Room
<1>2. Room(h.size) \in Nat
  BY RoomFacts
<1>3. ASSUME NEW i \in Indices
      PROVE  Pos(e, i) \in p <=> i \in h.nbits .. (Room(h.size) - 1)
  <2>1. ASSUME NEW j \in h.nbits .. (Room(h.size) - 1), Pos(e, i) = Pos(e, j)
        PROVE  i = j
    <3>1. j \in Indices
      BY <1>2, IndicesFacts
    <3>2. QED
      BY <2>1, <3>1, IndicesFacts
  <2> HIDE DEF p
  <2>2. QED
    BY <1>1, <2>1
<1>4. SetPadbits(h, m) = IF h.readonly THEN m
                         ELSE [c \in Cells |-> IF c \in p THEN 0 ELSE m[c]]
  BY DEF SetPadbits
<1> HIDE DEF p
<1>5. SetPadbits(h, m) \in Block
  <2>1. \A c \in Cells : (IF c \in p THEN 0 ELSE m[c]) \in Bit \union {Undef}
    BY DEF Block, Bit
  <2>2. QED
    BY <1>4, <2>1 DEF Block
<1>6. ASSUME NEW i \in Indices
      PROVE  At(e, SetPadbits(h, m), i) =
               IF ~h.readonly /\ i \in h.nbits .. (Room(h.size) - 1) THEN 0 ELSE At(e, m, i)
  <2>1. Pos(e, i) \in Cells
    BY IndicesFacts
  <2>2. CASE h.readonly
    BY <1>4, <2>2 DEF At
  <2>3. CASE ~h.readonly
    <3>1. SetPadbits(h, m)[Pos(e, i)] = IF Pos(e, i) \in p THEN 0 ELSE m[Pos(e, i)]
      BY <1>4, <2>1, <2>3
    <3>2. QED
      BY <1>3, <2>3, <3>1 DEF At
  <2>4. QED
    BY <2>2, <2>3
<1>7. QED
  BY <1>5, <1>6

\* Every bit of the first n bytes has been written.
Full(m, n) == \A c \in Cells : c < Room(n) => m[c] \in Bit

\* Whichever endianness one reads them with.
LEMMA FullAt ==
  ASSUME NEW e \in Endian, NEW m, NEW n \in Nat
  PROVE  Full(m, n) <=> \A i \in Indices : i < Room(n) => At(e, m, i) \in Bit
<1>1. ASSUME Full(m, n), NEW i \in Indices, i < Room(n) PROVE At(e, m, i) \in Bit
  <2>1. Pos(e, i) \in Cells /\ Pos(e, i) < Room(n)
    BY <1>1, IndicesFacts, PosRange
  <2>2. QED
    BY <1>1, <2>1 DEF Full, At
<1>2. ASSUME \A i \in Indices : i < Room(n) => At(e, m, i) \in Bit,
             NEW c \in Cells, c < Room(n)
      PROVE  m[c] \in Bit
  <2>1. Pos(e, c) \in Indices /\ Pos(e, c) < Room(n)
    BY <1>2, IndicesFacts, PosRange
  <2>2. QED
    BY <1>2, <2>1, AtCells
<1>3. QED
  BY <1>1, <1>2 DEF Full

\* bytereverse() moves bits within their bytes.
LEMMA ByteReverseFull ==
  ASSUME NEW m \in Block, NEW n \in Nat, Full(m, n), NEW a, NEW b
  PROVE  ByteReverse(m, a, b) \in Block /\ Full(ByteReverse(m, a, b), n)
<1>1. ASSUME NEW c \in Cells
      PROVE  /\ Pos(BIG, c) \in Cells
             /\ m[Pos(BIG, c)] \in Bit \union {Undef}
             /\ m[c] \in Bit \union {Undef}
             /\ c < Room(n) => m[Pos(BIG, c)] \in Bit /\ m[c] \in Bit
  <2>1. Pos(BIG, c) \in Cells
    BY IndicesFacts DEF Endian
  <2>2. c < Room(n) => Pos(BIG, c) < Room(n)
    BY PosRange, CellsFacts DEF Endian
  <2>3. QED
    BY <2>1, <2>2 DEF Block, Full
<1>2. QED
  BY <1>1 DEF ByteReverse, Full, Block
===============================================================================
