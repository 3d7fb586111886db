------------------------------ MODULE BitsProofs ------------------------------
(***************************************************************************)
(* Two components at the bottom of the program: the waste bound and the    *)
(* amortized cost of resize(), for arrays of every size, and copy_n(),     *)
(* which copies what it has to and touches nothing else.                   *)
(***************************************************************************)
EXTENDS Growth, CopyBits, BitLayoutProofs, InductionLemmas, SequenceTheorems

-------------------------------------------------------------------------------
(***************************************************************************)
(* The size of allocations.                                                *)
(***************************************************************************)
\* Division by the numbers new_allocation() divides by.
LEMMA Quotients ==
  ASSUME NEW n \in Nat
  PROVE  /\ n \div 2 \in Nat /\ 2 * (n \div 2) <= n /\ n <= 2 * (n \div 2) + 1
         /\ n \div 16 \in Nat /\ 16 * (n \div 16) <= n /\ n <= 16 * (n \div 16) + 15
         /\ Mask4(n) \in Nat /\ Mask4(n) <= n /\ n <= Mask4(n) + 3
BY DEF Mask4

\* Small arrays are allocated 4 or 8 bytes.
LEMMA SmallOverallocation ==
  ASSUME NEW n \in 2 .. 7
  PROVE  Overallocated(n) = IF n <= 4 THEN 4 ELSE 8
BY DEF Overallocated, Mask4

\* Larger ones get at least 4 and at most 7 bytes more than a sixteenth.
LEMMA LargeOverallocation ==
  ASSUME NEW n \in Nat, n >= 8
  PROVE  /\ Overallocated(n) \in Nat
         /\ n + (n \div 16) + 4 <= Overallocated(n)
         /\ Overallocated(n) <= n + (n \div 16) + 7
<1>1. n \div 16 \in Nat
  BY Quotients
<1>2. n + (n \div 16) + 7 \in Nat
  BY <1>1
<1>3. Overallocated(n) = Mask4(n + (n \div 16) + 7)
  BY DEF Overallocated
<1>4. QED
  BY <1>1, <1>2, <1>3, Quotients

\* The cases in which resize() leaves an allocation, with what it copies.
LEMMA ResizeCases ==
  ASSUME GrowthInv, NEW n \in 0 .. MaxSize, Resize(n)
  PROVE  \/ n = 0 /\ allocated' = 0 /\ Copied(allocated') = 0
         \/ /\ n # 0 /\ allocated' = allocated /\ Copied(allocated') = 0
            /\ allocated \div 2 <= n /\ n <= allocated
         \/ /\ n # 0 /\ allocated' = n /\ Copied(allocated') <= n
            /\ Copied(allocated') \in Nat
            /\ n < allocated \div 2
         \/ /\ n >= 2 /\ allocated < n /\ size # 0
            /\ n \div 2 <= allocated
            /\ allocated' = Overallocated(n)
            /\ Copied(allocated') <= allocated /\ Copied(allocated') \in Nat
         \/ /\ n # 0 /\ allocated' = n /\ Copied(allocated') <= allocated
            /\ Copied(allocated') \in Nat
            /\ (size = 0 \/ n \div 2 > allocated) /\ allocated < n
<1> USE GrowthAssumption DEF GrowthInv, WasteBounded
<1>1. /\ size \in Nat /\ allocated \in Nat /\ n \in Nat
      /\ allocated' = AllocationFor(n)
  BY DEF Resize
<1>2. /\ allocated \div 2 \in Nat /\ 2 * (allocated \div 2) <= allocated
      /\ allocated <= 2 * (allocated \div 2) + 1
      /\ n \div 2 \in Nat
  BY <1>1, Quotients
<1>3. ASSUME NEW k \in Nat PROVE Copied(k) \in Nat /\ Copied(k) <= k /\ Copied(k) <= allocated
  BY <1>1 DEF Copied, Smaller
<1>4. CASE n = 0
  <2>1. allocated' = 0
    BY <1>1, <1>4 DEF AllocationFor
  <2>2. QED
    BY <1>3, <1>4, <2>1
<1>5. CASE n = size /\ n # 0
  <2>1. allocated' = allocated
    BY <1>1, <1>5 DEF AllocationFor
  <2>2. Copied(allocated') = 0
    BY <2>1 DEF Copied
  <2>3. QED
    BY <1>1, <1>2, <1>5, <2>1, <2>2
<1>6. CASE n # size /\ n # 0
  <2>1. allocated' = NewAllocation(size, allocated, n)
    BY <1>1, <1>6 DEF AllocationFor
  <2>2. CASE allocated >= n /\ n >= allocated \div 2
    <3>1. allocated' = allocated
      BY <2>1, <2>2 DEF NewAllocation
    <3>2. Copied(allocated') = 0
      BY <3>1 DEF Copied
    <3>3. QED
      BY <1>1, <1>2, <1>6, <2>2, <3>1, <3>2
  <2>3. CASE allocated >= n /\ ~(n >= allocated \div 2)
    <3>1. allocated' = n
      BY <2>1, <2>3 DEF NewAllocation
    <3>2. QED
      BY <1>1, <1>2, <1>3, <1>6, <2>3, <3>1
  <2>4. CASE ~(allocated >= n) /\ size # 0 /\ n \div 2 <= allocated
    <3>1. allocated' = Overallocated(n)
      BY <2>1, <2>4 DEF NewAllocation
    <3>2. n >= 2 /\ allocated < n
      BY <1>1, <2>4
    <3>3. allocated' \in Nat
      <4>1. CASE n \in 2 .. 7
        BY <3>1, <4>1, SmallOverallocation
      <4>2. CASE n >= 8
        BY <3>1, <4>2, <1>1, LargeOverallocation
      <4>3. QED
        BY <1>1, <3>2, <4>1, <4>2
    <3>4. QED
      BY <1>3, <2>4, <3>1, <3>2, <3>3
  <2>5. CASE ~(allocated >= n) /\ ~(size # 0 /\ n \div 2 <= allocated)
    <3>1. allocated' = n
      BY <2>1, <2>5 DEF NewAllocation
    <3>2. QED
      BY <1>1, <1>2, <1>3, <1>6, <2>5, <3>1
  <2>6. QED
    BY <2>2, <2>3, <2>4, <2>5
<1>7. QED
  BY <1>4, <1>5, <1>6

\* One resize preserves the invariant.
LEMMA ResizePreserves ==
  ASSUME GrowthInv, NEW n \in 0 .. MaxSize, Resize(n)
  PROVE  GrowthInv'
<1> DEFINE cost == Copied(allocated')
           raw  == credit + 17 * Distance(size, n) - cost
           alloc == allocated'
<1>1. /\ size \in Nat /\ size <= MaxSize /\ allocated \in Nat /\ credit \in Int
      /\ n \in Nat /\ n <= MaxSize
      /\ size = 0 => allocated = 0
      /\ size <= allocated /\ allocated <= 2 * size + 1
      /\ credit >= 0
      /\ credit + 17 * (allocated - size) >= allocated
      /\ credit + 17 * (size - (allocated \div 2)) >= allocated
  BY GrowthAssumption DEF GrowthInv, WasteBounded, CopyingAmortized, Saved, Rate
<1>2. size' = n /\ credit' = Smaller(MaxCredit, raw)
  BY DEF Resize, Rate
<1>3. /\ Distance(size, n) \in Nat
      /\ Distance(size, n) >= n - size /\ Distance(size, n) >= size - n
  BY <1>1 DEF Distance
<1>4. /\ allocated \div 2 \in Nat /\ 2 * (allocated \div 2) <= allocated
      /\ allocated <= 2 * (allocated \div 2) + 1
      /\ n \div 2 \in Nat /\ 2 * (n \div 2) <= n /\ n <= 2 * (n \div 2) + 1
  BY <1>1, Quotients
<1> HIDE DEF cost, raw
<1>5. /\ alloc \in Nat /\ cost \in Nat
      /\ n = 0 => alloc = 0
      /\ n <= alloc /\ alloc <= 2 * n + 1
      /\ credit + 17 * Distance(size, n) - cost >= 0
      /\ credit + 17 * Distance(size, n) - cost + 17 * (alloc - n) >= alloc
      /\ credit + 17 * Distance(size, n) - cost + 17 * (n - (alloc \div 2)) >= alloc
  <2>1. CASE n = 0 /\ alloc = 0 /\ cost = 0
    <3>1. alloc \div 2 = 0
      BY <2>1
    <3>2. QED
      BY <1>1, <1>3, <2>1, <3>1
  <2>2. CASE /\ n # 0 /\ alloc = allocated /\ cost = 0
             /\ allocated \div 2 <= n /\ n <= allocated
    BY <1>1, <1>3, <1>4, <2>2
  <2>3. CASE n # 0 /\ alloc = n /\ cost <= n /\ cost \in Nat /\ n < allocated \div 2
    BY <1>1, <1>3, <1>4, <2>3
  <2>4. CASE /\ n >= 2 /\ allocated < n /\ size # 0
             /\ n \div 2 <= allocated
             /\ alloc = Overallocated(n)
             /\ cost <= allocated /\ cost \in Nat
    <3>1. credit + 17 * Distance(size, n) - cost >= 17 * (n - allocated)
      BY <1>1, <1>3, <2>4
    <3>2. CASE n < 8
      <4>1. alloc = IF n <= 4 THEN 4 ELSE 8
        BY <1>1, <2>4, <3>2, SmallOverallocation
      <4>2. alloc \div 2 = IF n <= 4 THEN 2 ELSE 4
        BY <4>1
      <4>3. QED
        BY <1>1, <1>3, <2>4, <3>1, <3>2, <4>1, <4>2
    <3>3. CASE n >= 8
      <4>1. /\ alloc \in Nat
            /\ n + (n \div 16) + 4 <= alloc /\ alloc <= n + (n \div 16) + 7
        BY <1>1, <2>4, <3>3, LargeOverallocation
      <4>2. n \div 16 \in Nat /\ 16 * (n \div 16) <= n /\ n <= 16 * (n \div 16) + 15
        BY <1>1, Quotients
      <4>3. alloc \div 2 \in Nat /\ 2 * (alloc \div 2) <= alloc
        BY <4>1, Quotients
      <4>4. QED
        BY <1>1, <1>3, <2>4, <3>1, <3>3, <4>1, <4>2, <4>3
    <3>4. QED
      BY <1>1, <3>2, <3>3
  <2>5. CASE /\ n # 0 /\ alloc = n /\ cost <= allocated /\ cost \in Nat
             /\ (size = 0 \/ n \div 2 > allocated) /\ allocated < n
    BY <1>1, <1>3, <1>4, <2>5
  <2>6. QED
    BY <2>1, <2>2, <2>3, <2>4, <2>5, ResizeCases DEF cost
<1> HIDE DEF alloc
<1>6. alloc <= MaxCredit /\ alloc \div 2 <= n /\ alloc \div 2 \in Nat
  <2>1. alloc \div 2 \in Nat /\ 2 * (alloc \div 2) <= alloc
    BY <1>5, Quotients
  <2>2. alloc \in Nat /\ alloc <= 2 * n + 1 /\ n \in Nat /\ n <= MaxSize
    BY <1>1, <1>5
  <2>3. QED
    BY <2>1, <2>2, GrowthAssumption
<1>7. /\ raw \in Int /\ raw >= 0
      /\ raw + 17 * (alloc - n) >= alloc
      /\ raw + 17 * (n - (alloc \div 2)) >= alloc
  BY <1>1, <1>3, <1>5 DEF raw
<1>8. /\ credit' \in Int /\ credit' >= 0
      /\ credit' + 17 * (alloc - n) >= alloc
      /\ credit' + 17 * (n - (alloc \div 2)) >= alloc
  <2>1. credit' = raw \/ credit' = MaxCredit
    BY <1>2 DEF Smaller
  <2>2. CASE credit' = raw
    BY <1>7, <2>2
  <2>3. CASE credit' = MaxCredit
    <3>1. alloc \in Nat /\ n \in Nat /\ n <= alloc /\ alloc \div 2 \in Nat
      BY <1>1, <1>5, <1>6
    <3>2. 17 * (alloc - n) >= 0 /\ 17 * (n - (alloc \div 2)) >= 0
      BY <3>1, <1>6
    <3>3. QED
      BY <3>1, <3>2, <1>6, <2>3, GrowthAssumption
  <2>4. QED
    BY <2>1, <2>2, <2>3
<1>9. QED
  BY <1>1, <1>2, <1>5, <1>8 DEF alloc, GrowthInv, WasteBounded, CopyingAmortized, Saved, Rate

\* The inductive invariant holds of every sequence of resizes.
THEOREM GrowthInvariance == Spec => []GrowthInv
<1>1. Init => GrowthInv
  <2>1. 0 \div 2 = 0
    OBVIOUS
  <2>2. QED
    BY <2>1, GrowthAssumption
       DEF Init, GrowthInv, WasteBounded, CopyingAmortized, Saved, Rate
<1>2. GrowthInv /\ [Next]_vars => GrowthInv'
  <2>1. SUFFICES ASSUME GrowthInv, [Next]_vars PROVE GrowthInv'
    OBVIOUS
  <2>2. CASE Next
    BY <2>1, <2>2, ResizePreserves DEF Next
  <2>3. CASE UNCHANGED vars
    BY <2>1, <2>3 DEF vars, GrowthInv, WasteBounded, CopyingAmortized, Saved
  <2>4. QED
    BY <2>1, <2>2, <2>3
<1>3. QED
  BY <1>1, <1>2, PTL DEF Spec

\* resize() never allocates less than the array needs, nor more than twice as
\* much and a byte, whatever sequence of growing and shrinking came before.
THEOREM BoundedWaste == Spec => []WasteBounded
<1>1. GrowthInv => WasteBounded
  BY DEF GrowthInv
<1>2. QED
  BY <1>1, GrowthInvariance, PTL

\* The bytes that all reallocations of an array have copied are at most 17 for
\* each byte that its methods have added or removed: a sequence of appends,
\* also one mixed with deletions, takes linear time.
THEOREM AmortizedCopying == Spec => []CopyingAmortized
<1>1. GrowthInv => CopyingAmortized
  BY DEF GrowthInv
<1>2. QED
  BY <1>1, GrowthInvariance, PTL

-------------------------------------------------------------------------------
(***************************************************************************)
(* Bytes and places.                                                       *)
(***************************************************************************)
\* The bytes before byte n are those of the first elements.
LEMMA ByteBelow ==
  ASSUME NEW x \in Nat, NEW n \in Nat
  PROVE  x \div ByteBits < n <=> x < Room(n)
<1> DEFINE q == x \div ByteBits
           r == x % ByteBits
<1>1. q \in Nat /\ r \in 0 .. (ByteBits - 1) /\ x = Room(q) + r
  BY DivMod DEF Room
<1>2. Room(q) \in Nat /\ Room(n) \in Nat /\ Room(q + 1) = Room(q) + ByteBits
  BY <1>1, RoomFacts
<1> HIDE DEF q, r
<1>3. CASE q < n
  <2>1. Room(q + 1) <= Room(n)
    BY <1>1, <1>3, RoomMonotonic
  <2>2. QED
    BY <1>1, <1>2, <1>3, <2>1, ByteBitsAssumption DEF q
<1>4. CASE ~ (q < n)
  <2>1. Room(n) <= Room(q)
    BY <1>1, <1>4, RoomMonotonic
  <2>2. QED
    BY <1>1, <1>2, <1>4, <2>1 DEF q
<1>5. QED
  BY <1>3, <1>4

\* The elements of the bytes from i to j - 1.
LEMMA BytesBetween ==
  ASSUME NEW x \in Nat, NEW i \in Nat, NEW j \in Nat
  PROVE  x \div ByteBits \in i .. (j - 1) <=> Room(i) <= x /\ x < Room(j)
<1>1. x \div ByteBits \in Nat /\ Room(i) \in Nat /\ Room(j) \in Nat
  BY DivMod, RoomFacts
<1>2. /\ x \div ByteBits < i <=> x < Room(i)
      /\ x \div ByteBits < j <=> x < Room(j)
  BY ByteBelow
<1> DEFINE q == x \div ByteBits
<1> HIDE DEF q
<1>3. q \in Nat /\ (q < i <=> x < Room(i)) /\ (q < j <=> x < Room(j))
  BY <1>1, <1>2 DEF q
<1>4. q \in i .. (j - 1) <=> Room(i) <= x /\ x < Room(j)
  BY <1>1, <1>3
<1>5. QED
  BY <1>4 DEF q

\* The elements of one byte.
LEMMA ByteIs ==
  ASSUME NEW x \in Nat, NEW i \in Nat
  PROVE  x \div ByteBits = i <=> Room(i) <= x /\ x < Room(i) + ByteBits
<1>1. Room(i + 1) = Room(i) + ByteBits
  BY RoomFacts
<1>2. x \div ByteBits \in i .. ((i + 1) - 1) <=> Room(i) <= x /\ x < Room(i + 1)
  BY BytesBetween
<1>3. x \div ByteBits \in Nat
  BY DivMod
<1>4. x \div ByteBits \in i .. ((i + 1) - 1) <=> x \div ByteBits = i
  BY <1>3
<1>5. QED
  BY <1>1, <1>2, <1>4

\* An element some bytes further lies as many bytes further.
LEMMA PosOffset ==
  ASSUME NEW e \in Endian, NEW i \in Nat, NEW z \in Nat
  PROVE  Pos(e, Room(i) + z) = Room(i) + Pos(e, z)
<1>1. CASE e = LITTLE
  BY <1>1 DEF Pos
<1>2. CASE e = BIG
  <2> DEFINE q == z \div ByteBits
             r == z % ByteBits
  <2>1. q \in Nat /\ r \in 0 .. (ByteBits - 1) /\ z = Room(q) + r
    BY DivMod DEF Room
  <2> HIDE DEF q, r
  <2>2. Room(i + q) = Room(i) + Room(q) /\ i + q \in Nat /\ Room(i) \in Nat /\ Room(q) \in Nat
    <3>1. q \in Nat
      BY <2>1
    <3>2. Room(i + q) = Room(i) + Room(q)
      BY <3>1, RoomAdds
    <3>3. QED
      BY <3>1, <3>2, RoomFacts
  <2>3. Pos(BIG, Room(i + q) + r) = Room(i + q) + (ByteBits - 1 - r)
    BY <2>1, <2>2, PosBig DEF Room
  <2>4. Pos(BIG, Room(q) + r) = Room(q) + (ByteBits - 1 - r)
    BY <2>1, <2>2, PosBig DEF Room
  <2>5. Room(i) + z = Room(i + q) + r
    BY <2>1, <2>2
  <2>6. QED
    BY <1>2, <2>1, <2>2, <2>3, <2>4, <2>5, ByteBitsAssumption
<1>3. QED
  BY <1>1, <1>2 DEF Endian

\* The place of an element in its byte.
LEMMA PosPlace ==
  ASSUME NEW e \in Endian, NEW x \in Nat
  PROVE  /\ e = LITTLE => Pos(e, x) % ByteBits = x % ByteBits
         /\ e = BIG => Pos(e, x) % ByteBits = ByteBits - 1 - (x % ByteBits)
         /\ Pos(e, x) % ByteBits \in 0 .. (ByteBits - 1)
         /\ x % ByteBits \in 0 .. (ByteBits - 1)
<1> DEFINE q == x \div ByteBits
           r == x % ByteBits
<1>1. q \in Nat /\ r \in 0 .. (ByteBits - 1) /\ x = ByteBits * q + r
  BY DivMod
<1>2. e = LITTLE => Pos(e, x) % ByteBits = r
  BY DEF Pos
<1> HIDE DEF q, r
<1>3. ByteBits - 1 - r \in 0 .. (ByteBits - 1)
  BY <1>1, ByteBitsAssumption
<1>4. Pos(BIG, x) = ByteBits * q + (ByteBits - 1 - r)
  BY <1>1, PosBig
<1>5. e = BIG => Pos(e, x) % ByteBits = ByteBits - 1 - r
  BY <1>1, <1>3, <1>4, DivUnique
<1>6. Pos(e, x) % ByteBits \in 0 .. (ByteBits - 1)
  BY <1>1, <1>2, <1>3, <1>5 DEF Endian
<1>7. QED
  BY <1>1, <1>2, <1>5, <1>6 DEF r

\* A product with the number of bits is the room of as many bytes.
LEMMA RoomProduct ==
  ASSUME NEW n \in Nat
  PROVE  n * ByteBits = Room(n)
BY ByteBitsAssumption DEF Room

-------------------------------------------------------------------------------
(***************************************************************************)
(* What shift_r8() does to elements.                                       *)
(***************************************************************************)
\* The rank of a cell in the integer that is shifted.  In big-endian arrays it
\* counts from the last element down.
LEMMA RankFacts ==
  ASSUME NEW w \in Nat, NEW z \in Nat, z < Room(w)
  PROVE  /\ Rank(LITTLE, w, z) = z
         /\ Rank(BIG, w, Pos(BIG, z)) = Room(w) - 1 - z
         /\ Rank(BIG, w, Room(w) - 1 - z) = Pos(BIG, z)
<1>1. Rank(LITTLE, w, z) = z
  BY DEF Rank
<1> DEFINE q == z \div ByteBits
           r == z % ByteBits
           t == w - 1 - q
           s == ByteBits - 1 - r
<1>2. q \in Nat /\ r \in 0 .. (ByteBits - 1) /\ z = Room(q) + r
  BY DivMod DEF Room
<1>3. q < w
  BY ByteBelow
<1> HIDE DEF q, r
<1>4. t \in Nat /\ w = t + (q + 1) /\ s \in 0 .. (ByteBits - 1)
  BY <1>2, <1>3, ByteBitsAssumption
<1>5. w - 1 - t = q
  BY <1>2
<1>6. w - 1 - q = t
  OBVIOUS
<1> HIDE DEF t
<1>7. Room(w) = Room(t) + Room(q) + ByteBits /\ Room(t) \in Nat /\ Room(q) \in Nat
  <2>1. t \in Nat /\ q \in Nat /\ q + 1 \in Nat
    BY <1>2, <1>4
  <2>2. Room(t + (q + 1)) = Room(t) + Room(q + 1)
    BY <2>1, RoomAdds
  <2>3. Room(q + 1) = Room(q) + ByteBits /\ Room(t) \in Nat /\ Room(q) \in Nat
    BY <2>1, RoomFacts
  <2>4. QED
    BY <1>4, <2>2, <2>3, ByteBitsAssumption
<1>8. Pos(BIG, z) = Room(q) + s
  BY <1>2, PosBig DEF Room
<1>9. Room(w) - 1 - z = Room(t) + s
  BY <1>2, <1>7, ByteBitsAssumption
<1> HIDE DEF s
<1>10. /\ (Room(q) + s) \div ByteBits = q /\ (Room(q) + s) % ByteBits = s
       /\ (Room(t) + s) \div ByteBits = t /\ (Room(t) + s) % ByteBits = s
  BY <1>2, <1>4, DivUnique DEF Room
<1>11. t * ByteBits = Room(t) /\ q * ByteBits = Room(q)
  BY <1>2, <1>4, RoomProduct
<1>12. ASSUME NEW d PROVE Rank(BIG, w, d) = (w - 1 - d \div ByteBits) * ByteBits + (d % ByteBits)
  BY DEF Rank, LITTLE, BIG
<1>13. Rank(BIG, w, Room(q) + s) = Room(t) + s
  BY <1>6, <1>10, <1>11, <1>12
<1>14. Rank(BIG, w, Room(t) + s) = Room(q) + s
  BY <1>5, <1>10, <1>11, <1>12
<1>15. QED
  BY <1>1, <1>8, <1>9, <1>13, <1>14

\* A block shifted as one integer: its elements move k places up.
LEMMA ShiftBlockAt ==
  ASSUME NEW M, NEW e \in Endian, NEW i \in Nat, NEW w \in Nat, NEW k \in Nat,
         Room(i + w) <= Limit, NEW x \in Indices
  PROVE  At(e, ShiftBlock(M, e, i, w, k), x) =
           IF x < Room(i) \/ Room(i + w) <= x THEN At(e, M, x)
           ELSE IF x - k >= Room(i) THEN At(e, M, x - k) ELSE Zero
<1> DEFINE c == Pos(e, x)
           d == c - i * ByteBits
           q == Origin(e, Rank(e, w, d), k)
<1>1. x \in Nat /\ x < Limit /\ c \in Cells /\ c \in Nat /\ Limit \in Nat
  BY IndicesFacts, PosInvolution
<1>2. c \div ByteBits = x \div ByteBits
  BY <1>1, PosInvolution
<1>3. /\ Room(i) \in Nat /\ Room(w) \in Nat /\ i * ByteBits = Room(i) /\ w * ByteBits = Room(w)
      /\ Room(i + w) = Room(i) + Room(w)
  BY RoomFacts, RoomAdds, RoomProduct
<1>4. x \div ByteBits \in i .. (i + w - 1) <=> Room(i) <= x /\ x < Room(i + w)
  BY <1>1, BytesBetween
<1>5. At(e, ShiftBlock(M, e, i, w, k), x) =
        IF x \div ByteBits \notin i .. (i + w - 1) THEN M[c]
        ELSE IF q \in 0 .. (w * ByteBits - 1) THEN M[i * ByteBits + Rank(e, w, q)] ELSE Zero
  BY <1>1, <1>2 DEF At, ShiftBlock
<1>6. CASE ~ (Room(i) <= x /\ x < Room(i + w))
  <2>1. At(e, ShiftBlock(M, e, i, w, k), x) = M[c]
    BY <1>4, <1>5, <1>6
  <2>2. x < Room(i) \/ Room(i + w) <= x
    BY <1>1, <1>3, <1>6
  <2>3. QED
    BY <2>1, <2>2 DEF At
<1>7. CASE Room(i) <= x /\ x < Room(i + w)
  <2> DEFINE z == x - Room(i)
  <2>1. z \in Nat /\ z < Room(w) /\ x = Room(i) + z
    BY <1>1, <1>3, <1>7
  <2> HIDE DEF z
  <2>2. c = Room(i) + Pos(e, z) /\ Pos(e, z) \in Nat
    BY <2>1, PosOffset, PosInvolution
  <2>3. d = Pos(e, z)
    BY <1>3, <2>2
  <2>4. At(e, ShiftBlock(M, e, i, w, k), x) =
          IF q \in 0 .. (Room(w) - 1) THEN M[Room(i) + Rank(e, w, q)] ELSE Zero
    BY <1>3, <1>4, <1>5, <1>7
  <2>5. ASSUME z - k >= 0
        PROVE  /\ z - k \in Nat /\ z - k < Room(w)
               /\ Pos(e, x - k) = Room(i) + Pos(e, z - k)
    <3>1. z - k \in Nat /\ z - k < Room(w) /\ x - k = Room(i) + (z - k)
      BY <1>3, <2>1, <2>5
    <3> DEFINE y == z - k
    <3> HIDE DEF y
    <3>2. y \in Nat => Pos(e, Room(i) + y) = Room(i) + Pos(e, y)
      BY PosOffset
    <3>3. QED
      BY <3>1, <3>2 DEF y
  <2>6. /\ q \in 0 .. (Room(w) - 1) <=> z - k >= 0
        /\ z - k >= 0 => Rank(e, w, q) = Pos(e, z - k)
    <3>1. CASE e = LITTLE
      <4>1. Pos(e, z) = z
        BY <3>1 DEF Pos
      <4>2. Rank(e, w, d) = z
        BY <2>1, <2>3, <3>1, <4>1, RankFacts
      <4>3. q = z - k
        BY <3>1, <4>2 DEF Origin
      <4>4. z - k >= 0 => Rank(e, w, z - k) = z - k /\ Pos(e, z - k) = z - k
        BY <2>5, <3>1, RankFacts DEF Pos
      <4> HIDE DEF q
      <4>5. QED
        BY <1>3, <2>1, <4>3, <4>4
    <3>2. CASE e = BIG
      <4>1. Rank(e, w, d) = Room(w) - 1 - z
        BY <2>1, <2>3, <3>2, RankFacts
      <4>2. q = Room(w) - 1 - z + k
        BY <3>2, <4>1 DEF Origin, LITTLE, BIG
      <4> HIDE DEF q
      <4>3. q = Room(w) - 1 - (z - k)
        BY <1>3, <2>1, <4>2
      <4>4. q \in 0 .. (Room(w) - 1) <=> z - k >= 0
        BY <1>3, <2>1, <4>3
      <4>5. z - k >= 0 => Rank(e, w, Room(w) - 1 - (z - k)) = Pos(e, z - k)
        <5> DEFINE y == z - k
        <5> HIDE DEF y
        <5>1. y \in Nat /\ y < Room(w) => Rank(BIG, w, Room(w) - 1 - y) = Pos(BIG, y)
          BY RankFacts
        <5>2. QED
          BY <2>5, <3>2, <5>1 DEF y
      <4>6. QED
        BY <4>3, <4>4, <4>5
    <3>3. QED
      BY <3>1, <3>2 DEF Endian
  <2> HIDE DEF q
  <2>7. z - k >= 0 <=> x - k >= Room(i)
    BY <1>3, <2>1
  <2>8. QED
    BY <1>1, <1>3, <1>7, <2>4, <2>5, <2>6, <2>7 DEF At
<1>8. QED
  BY <1>6, <1>7

\* Bits that enter a byte from the one below.
LEMMA AddCarryAt ==
  ASSUME NEW M, NEW e \in Endian, NEW i \in Nat \ {0}, NEW k \in 0 .. (ByteBits - 1),
         NEW x \in Indices
  PROVE  At(e, AddCarry(M, e, i, k), x) =
           IF Room(i) <= x /\ x < Room(i) + k THEN Or(At(e, M, x), At(e, M, x - k))
           ELSE At(e, M, x)
<1> DEFINE c == Pos(e, x)
           q == Origin(e, c % ByteBits, k - ByteBits)
           r == x % ByteBits
<1>1. x \in Nat /\ x < Limit /\ c \in Cells /\ c \in Nat /\ Limit \in Nat
  BY IndicesFacts, PosInvolution
<1>2. c \div ByteBits = x \div ByteBits
  BY <1>1, PosInvolution
<1>3. /\ Room(i) \in Nat /\ Room(i - 1) \in Nat /\ Room(i) = Room(i - 1) + ByteBits
      /\ (i - 1) * ByteBits = Room(i - 1)
  <2> DEFINE j == i - 1
  <2>1. j \in Nat /\ i = j + 1
    OBVIOUS
  <2> HIDE DEF j
  <2>2. Room(j + 1) = Room(j) + ByteBits /\ Room(j) \in Nat /\ j * ByteBits = Room(j)
    BY <2>1, RoomFacts, RoomProduct
  <2>3. QED
    BY <2>1, <2>2, RoomFacts DEF j
<1>4. x \div ByteBits = i <=> Room(i) <= x /\ x < Room(i) + ByteBits
  BY <1>1, ByteIs
<1>5. At(e, AddCarry(M, e, i, k), x) =
        IF x \div ByteBits = i /\ q \in 0 .. (ByteBits - 1)
        THEN Or(M[c], M[(i - 1) * ByteBits + q]) ELSE M[c]
  BY <1>1, <1>2 DEF At, AddCarry, InByte
<1>6. CASE ~ (Room(i) <= x /\ x < Room(i) + ByteBits)
  <2>1. ~ (Room(i) <= x /\ x < Room(i) + k)
    BY <1>1, <1>3, <1>6, ByteBitsAssumption
  <2>2. QED
    BY <1>4, <1>5, <1>6, <2>1 DEF At
<1>7. CASE Room(i) <= x /\ x < Room(i) + ByteBits
  <2>1. r \in 0 .. (ByteBits - 1) /\ x = Room(i) + r
    <3>1. r \in 0 .. (ByteBits - 1) /\ x = ByteBits * (x \div ByteBits) + r
      BY <1>1, DivMod
    <3>2. x \div ByteBits = i
      BY <1>4, <1>7
    <3>3. QED
      BY <3>1, <3>2 DEF Room
  <2> DEFINE s == ByteBits + r - k
  <2>2. q = IF e = LITTLE THEN s ELSE ByteBits - 1 - s
    <3>1. CASE e = LITTLE
      <4>1. c % ByteBits = r
        BY <1>1, <3>1, PosPlace
      <4>2. q = r - (k - ByteBits)
        BY <3>1, <4>1 DEF Origin
      <4> HIDE DEF r, q
      <4>3. QED
        BY <2>1, <3>1, <4>2, ByteBitsAssumption
    <3>2. CASE e = BIG
      <4>1. c % ByteBits = ByteBits - 1 - r
        BY <1>1, <3>2, PosPlace
      <4>2. q = (ByteBits - 1 - r) + (k - ByteBits)
        BY <3>2, <4>1 DEF Origin, LITTLE, BIG
      <4> HIDE DEF r, q
      <4>3. QED
        BY <2>1, <3>2, <4>2, ByteBitsAssumption DEF LITTLE, BIG
    <3>3. QED
      BY <3>1, <3>2 DEF Endian
  <2> HIDE DEF r, q
  <2>3. q \in 0 .. (ByteBits - 1) <=> x < Room(i) + k
    <3>1. s \in 0 .. (ByteBits - 1) <=> r < k
      BY <2>1, ByteBitsAssumption
    <3>2. s \in Int
      BY <2>1, ByteBitsAssumption
    <3> HIDE DEF s
    <3>3. q \in 0 .. (ByteBits - 1) <=> s \in 0 .. (ByteBits - 1)
      BY <2>2, <3>2, ByteBitsAssumption
    <3>4. r < k <=> x < Room(i) + k
      BY <1>3, <2>1
    <3>5. QED
      BY <3>1, <3>3, <3>4
  <2>4. ASSUME x < Room(i) + k
        PROVE  Pos(e, x - k) = (i - 1) * ByteBits + q
    <3>1. s \in 0 .. (ByteBits - 1) /\ x - k = Room(i - 1) + s
      BY <1>3, <2>1, <2>4, ByteBitsAssumption
    <3> HIDE DEF s
    <3>2. Pos(BIG, Room(i - 1) + s) = Room(i - 1) + (ByteBits - 1 - s)
      <4> DEFINE j == i - 1
      <4>1. j \in Nat
        OBVIOUS
      <4> HIDE DEF j
      <4>2. Pos(BIG, ByteBits * j + s) = ByteBits * j + (ByteBits - 1 - s)
        BY <3>1, <4>1, PosBig
      <4>3. QED
        BY <4>2 DEF Room, j
    <3>3. Pos(LITTLE, Room(i - 1) + s) = Room(i - 1) + s
      BY DEF Pos
    <3>4. QED
      BY <1>3, <2>2, <3>1, <3>2, <3>3 DEF Endian, LITTLE, BIG
  <2>5. QED
    BY <1>4, <1>5, <1>7, <2>3, <2>4 DEF At
<1>8. QED
  BY <1>6, <1>7

-------------------------------------------------------------------------------
(***************************************************************************)
(* The order of the shifts.                                                *)
(***************************************************************************)
AnyUnit == [at : Nat, width : Nat, carry : BOOLEAN]

\* A unit continues where the shift has come down to byte top; pending says that
\* the bits from the byte below are still to be added to byte top.
Starts(u, top, pending) ==
  IF u.width = 0 THEN u.at = top /\ u.carry /\ pending
  ELSE u.at + u.width = top /\ ~pending

\* The units lead from there down to byte lo, to which nothing is added.
Chain(us, lo, top, pending) ==
  /\ us \in Seq(AnyUnit)
  /\ us = <<>> => top = lo /\ pending
  /\ us # <<>> => /\ Starts(us[1], top, pending)
                  /\ us[Len(us)].at = lo /\ ~us[Len(us)].carry
  /\ \A j \in 1 .. (Len(us) - 1) : Starts(us[j + 1], us[j].at, ~us[j].carry)

\* One unit on.
LEMMA ChainTail ==
  ASSUME NEW us, NEW lo, NEW top, NEW pending, Chain(us, lo, top, pending), us # <<>>
  PROVE  /\ us[1] \in AnyUnit
         /\ Starts(us[1], top, pending)
         /\ Chain(Tail(us), lo, us[1].at, ~us[1].carry)
<1>1. us \in Seq(AnyUnit) /\ Len(us) \in Nat \ {0}
  BY EmptySeq DEF Chain
<1>2. us[1] \in AnyUnit
  BY <1>1
<1>3. Starts(us[1], top, pending)
  BY DEF Chain
<1> DEFINE ts == Tail(us)
<1>4. /\ ts \in Seq(AnyUnit) /\ Len(ts) = Len(us) - 1
      /\ \A j \in 1 .. (Len(us) - 1) : ts[j] = us[j + 1]
  BY <1>1
<1>5. us[Len(us)].at = lo /\ ~us[Len(us)].carry
  BY DEF Chain
<1> HIDE DEF ts
<1>6. CASE Len(us) = 1
  <2>1. ts = <<>>
    BY <1>4, <1>6, EmptySeq
  <2>2. us[1].at = lo /\ ~us[1].carry
    BY <1>5, <1>6
  <2>3. Len(ts) = 0
    BY <1>4, <1>6
  <2>4. Chain(ts, lo, us[1].at, ~us[1].carry)
    BY <1>4, <2>1, <2>2, <2>3 DEF Chain
  <2>5. QED
    BY <1>2, <1>3, <2>4 DEF ts
<1>7. CASE Len(us) # 1
  <2>1. Len(ts) \in Nat \ {0}
    BY <1>1, <1>4, <1>7
  <2>2. ts # <<>>
    BY <2>1, EmptySeq
  <2>3. 1 \in 1 .. (Len(us) - 1) /\ Len(us) - 1 \in 1 .. (Len(us) - 1)
    <3> DEFINE k == Len(us)
    <3>1. k \in Nat \ {0} /\ k # 1
      BY <1>1, <1>7
    <3> HIDE DEF k
    <3>2. 1 \in 1 .. (k - 1) /\ k - 1 \in 1 .. (k - 1)
      BY <3>1
    <3>3. QED
      BY <3>2 DEF k
  <2>4. ts[1] = us[2] /\ ts[Len(ts)] = us[Len(us)]
    BY <1>1, <1>4, <2>3
  <2>5. \A j \in 1 .. (Len(us) - 1) : Starts(us[j + 1], us[j].at, ~us[j].carry)
    BY DEF Chain
  <2>6. Starts(us[1 + 1], us[1].at, ~us[1].carry)
    BY <2>3, <2>5
  <2>7. ASSUME NEW j \in 1 .. (Len(ts) - 1)
        PROVE  Starts(ts[j + 1], ts[j].at, ~ts[j].carry)
    <3>1. j \in 1 .. (Len(us) - 1) /\ j + 1 \in 1 .. (Len(us) - 1)
      BY <1>1, <1>4
    <3>2. ts[j] = us[j + 1] /\ ts[j + 1] = us[(j + 1) + 1]
      BY <1>4, <3>1
    <3>3. Starts(us[(j + 1) + 1], us[j + 1].at, ~us[j + 1].carry)
      BY <2>5, <3>1
    <3>4. QED
      BY <3>2, <3>3
  <2>8. Starts(ts[1], us[1].at, ~us[1].carry)
    BY <2>4, <2>6
  <2>9. ts[Len(ts)].at = lo /\ ~ts[Len(ts)].carry
    BY <1>5, <2>4
  <2>10. Chain(ts, lo, us[1].at, ~us[1].carry)
    BY <1>4, <2>2, <2>7, <2>8, <2>9 DEF Chain
  <2>11. QED
    BY <1>2, <1>3, <2>10 DEF ts
<1>8. QED
  BY <1>6, <1>7

\* Two chains, one after the other.
LEMMA ChainAppend ==
  ASSUME NEW us, NEW vs, NEW lo, NEW mid, NEW top, NEW pending,
         Chain(us, mid, top, pending), us # <<>>, Chain(vs, lo, mid, TRUE), vs # <<>>
  PROVE  Chain(us \o vs, lo, top, pending)
<1> DEFINE ws == us \o vs
<1>1. /\ us \in Seq(AnyUnit) /\ Len(us) \in Nat \ {0}
      /\ vs \in Seq(AnyUnit) /\ Len(vs) \in Nat \ {0}
  BY DEF Chain
<1>2. /\ ws \in Seq(AnyUnit) /\ Len(ws) = Len(us) + Len(vs)
      /\ \A j \in 1 .. Len(us) : ws[j] = us[j]
      /\ \A j \in 1 .. Len(vs) : ws[Len(us) + j] = vs[j]
  BY <1>1
<1>3. ws # <<>> /\ ws[1] = us[1] /\ ws[Len(ws)] = vs[Len(vs)]
  BY <1>1, <1>2
<1>4. /\ Starts(us[1], top, pending)
      /\ us[Len(us)].at = mid /\ ~us[Len(us)].carry
      /\ Starts(vs[1], mid, TRUE)
      /\ vs[Len(vs)].at = lo /\ ~vs[Len(vs)].carry
  BY DEF Chain
<1>5. ASSUME NEW j \in 1 .. (Len(ws) - 1)
      PROVE  Starts(ws[j + 1], ws[j].at, ~ws[j].carry)
  <2>1. CASE j < Len(us)
    <3>1. j \in 1 .. (Len(us) - 1) /\ j \in 1 .. Len(us) /\ j + 1 \in 1 .. Len(us)
      BY <1>1, <2>1
    <3>2. ws[j] = us[j] /\ ws[j + 1] = us[j + 1]
      BY <1>2, <3>1
    <3>3. Starts(us[j + 1], us[j].at, ~us[j].carry)
      BY <3>1 DEF Chain
    <3>4. QED
      BY <3>2, <3>3
  <2>2. CASE j = Len(us)
    <3>1. ws[j] = us[Len(us)] /\ ws[j + 1] = vs[1]
      BY <1>1, <1>2, <2>2
    <3>2. (~us[Len(us)].carry) = TRUE
      BY <1>4
    <3>3. QED
      BY <1>4, <3>1, <3>2
  <2>3. CASE j > Len(us)
    <3> DEFINE i == j - Len(us)
    <3>1. i \in 1 .. (Len(vs) - 1) /\ i \in 1 .. Len(vs) /\ i + 1 \in 1 .. Len(vs)
          /\ j = Len(us) + i /\ j + 1 = Len(us) + (i + 1)
      BY <1>1, <1>2, <2>3
    <3> HIDE DEF i
    <3>2. ws[j] = vs[i] /\ ws[j + 1] = vs[i + 1]
      BY <1>2, <3>1
    <3>3. Starts(vs[i + 1], vs[i].at, ~vs[i].carry)
      BY <3>1 DEF Chain
    <3>4. QED
      BY <3>2, <3>3
  <2>4. QED
    BY <1>1, <2>1, <2>2, <2>3
<1> HIDE DEF ws
<1>6. QED
  BY <1>2, <1>3, <1>4, <1>5 DEF Chain, ws

\* The bytes of a number of words.
WordRoom(j) == WordBytes * j

\* Words are added up.
LEMMA WordRoomFacts ==
  ASSUME NEW j \in Nat
  PROVE  /\ WordRoom(j) \in Nat
         /\ WordRoom(j + 1) = WordRoom(j) + WordBytes
         /\ WordRoom(0) = 0
         /\ \A i \in Nat : i <= j => WordRoom(i) <= WordRoom(j)
<1>1. /\ WordRoom(j) \in Nat
      /\ WordRoom(j + 1) = WordRoom(j) + WordBytes
      /\ WordRoom(0) = 0
  BY WordAssumption DEF WordRoom
<1>2. ASSUME NEW i \in Nat, i <= j PROVE WordRoom(i) <= WordRoom(j)
  BY <1>2, Monotonic, WordAssumption DEF WordRoom
<1>3. QED
  BY <1>1, <1>2

\* What a unit may be: within bytes lo .. hi - 1, with a byte below to carry from,
\* and aligned if it is a word.
Fits(u, address, lo, hi) ==
  /\ lo <= u.at /\ u.at < hi /\ u.at + u.width <= hi
  /\ u.carry => lo < u.at
  /\ u.width = WordBytes /\ WordBytes > 1 => (address + u.at) % Alignment = 0

\* The words of n bytes, and the bytes that do not fill a word.
FullWords(n) == n \div WordBytes
Rest(n) == n % WordBytes

\* What shift_r8le() and shift_r8be() do, one unit at a time: bytes, then words.
LEMMA BlockUnitsParts ==
  ASSUME NEW i \in Nat, NEW n \in Nat
  PROVE  /\ Rest(n) \in Nat /\ FullWords(n) \in Nat /\ Rest(n) < WordBytes
         /\ n = WordRoom(FullWords(n)) + Rest(n)
         /\ BlockUnits(i, n) \in Seq(AnyUnit)
         /\ Len(BlockUnits(i, n)) = Rest(n) + FullWords(n)
         /\ \A j \in 1 .. Rest(n) :
              /\ BlockUnits(i, n)[j].at = i + n - j
              /\ BlockUnits(i, n)[j].width = 1
              /\ BlockUnits(i, n)[j].carry <=> j < n
         /\ \A j \in 1 .. FullWords(n) :
              /\ BlockUnits(i, n)[Rest(n) + j].at = i + WordRoom(FullWords(n) - j)
              /\ BlockUnits(i, n)[Rest(n) + j].width = WordBytes
              /\ BlockUnits(i, n)[Rest(n) + j].carry <=> j < FullWords(n)
<1> DEFINE w == FullWords(n)
           r == Rest(n)
           f == [j \in 1 .. r |-> Unit(i + n - j, 1, n - j > 0)]
           g == [j \in 1 .. w |-> Unit(i + WordBytes * (w - j), WordBytes, j < w)]
<1>1. w \in Nat /\ r \in Nat /\ r < WordBytes /\ n = WordRoom(w) + r
  BY WordAssumption DEF WordRoom, FullWords, Rest
<1>2. BlockUnits(i, n) = f \o g
  BY DEF BlockUnits, FullWords, Rest
<1> HIDE DEF w, r
<1>3. ASSUME NEW j \in 1 .. r PROVE Unit(i + n - j, 1, n - j > 0) \in AnyUnit
  <2>1. r <= n
    BY <1>1, WordRoomFacts
  <2>2. i + n - j \in Nat /\ (n - j > 0) \in BOOLEAN
    BY <1>1, <2>1
  <2>3. QED
    BY <2>2 DEF Unit, AnyUnit
<1>4. ASSUME NEW j \in 1 .. w PROVE Unit(i + WordBytes * (w - j), WordBytes, j < w) \in AnyUnit
  <2>1. w - j \in Nat
    BY <1>1
  <2>2. i + WordBytes * (w - j) \in Nat /\ (j < w) \in BOOLEAN
    BY <2>1, WordAssumption
  <2>3. QED
    BY <2>2, WordAssumption DEF Unit, AnyUnit
<1>5. f \in Seq(AnyUnit) /\ g \in Seq(AnyUnit) /\ Len(f) = r /\ Len(g) = w
  BY <1>1, <1>3, <1>4
<1>6. \A j \in 1 .. r : f[j].at = i + n - j /\ f[j].width = 1 /\ (f[j].carry <=> n - j > 0)
  BY DEF Unit
<1>7. \A j \in 1 .. w : /\ g[j].at = i + WordRoom(w - j) /\ g[j].width = WordBytes
                        /\ g[j].carry <=> j < w
  BY DEF WordRoom, Unit
<1> HIDE DEF f, g
<1>8. /\ f \o g \in Seq(AnyUnit)
      /\ Len(f \o g) = r + w
      /\ \A j \in 1 .. r : (f \o g)[j] = f[j]
      /\ \A j \in 1 .. w : (f \o g)[r + j] = g[j]
  BY <1>1, <1>5
<1>9. ASSUME NEW j \in 1 .. r
      PROVE  /\ (f \o g)[j].at = i + n - j
             /\ (f \o g)[j].width = 1
             /\ (f \o g)[j].carry <=> j < n
  <2>1. n - j > 0 <=> j < n
    BY <1>1
  <2>2. QED
    BY <1>6, <1>8, <2>1
<1>10. ASSUME NEW j \in 1 .. w
       PROVE  /\ (f \o g)[r + j].at = i + WordRoom(w - j)
              /\ (f \o g)[r + j].width = WordBytes
              /\ (f \o g)[r + j].carry <=> j < w
  BY <1>7, <1>8
<1>11. QED
  BY <1>1, <1>2, <1>8, <1>9, <1>10 DEF w, r

\* They cover the block from the top down.
LEMMA BlockUnitsChain ==
  ASSUME NEW i \in Nat, NEW n \in Nat \ {0}
  PROVE  /\ Chain(BlockUnits(i, n), i, i + n, FALSE)
         /\ BlockUnits(i, n) # <<>>
<1> DEFINE w == FullWords(n)
           r == Rest(n)
           us == BlockUnits(i, n)
<1>1. w \in Nat /\ r \in Nat /\ r < WordBytes /\ n = WordRoom(w) + r /\ Len(us) = r + w
  BY BlockUnitsParts
<1>2. us \in Seq(AnyUnit)
  BY BlockUnitsParts
<1>7. ASSUME NEW j \in 1 .. r
      PROVE  us[j].at = i + n - j /\ us[j].width = 1 /\ (us[j].carry <=> j < n)
  <2>1. n \in Nat
    OBVIOUS
  <2>2. \A k \in 1 .. Rest(n) :
          /\ BlockUnits(i, n)[k].at = i + n - k
          /\ BlockUnits(i, n)[k].width = 1
          /\ BlockUnits(i, n)[k].carry <=> k < n
    BY <2>1, BlockUnitsParts
  <2>3. QED
    BY <2>2
<1>8. ASSUME NEW j \in 1 .. w
      PROVE  /\ us[r + j].at = i + WordRoom(w - j) /\ us[r + j].width = WordBytes
             /\ us[r + j].carry <=> j < w
  <2>1. n \in Nat
    OBVIOUS
  <2>2. \A k \in 1 .. FullWords(n) :
          /\ BlockUnits(i, n)[Rest(n) + k].at = i + WordRoom(FullWords(n) - k)
          /\ BlockUnits(i, n)[Rest(n) + k].width = WordBytes
          /\ BlockUnits(i, n)[Rest(n) + k].carry <=> k < FullWords(n)
    BY <2>1, BlockUnitsParts
  <2>3. QED
    BY <2>2
<1> HIDE DEF w, r, us
<1>3. WordBytes \in Nat \ {0}
  BY WordAssumption
<1>4. \A j \in Nat : WordRoom(j) \in Nat /\ WordRoom(j + 1) = WordRoom(j) + WordBytes
  BY WordRoomFacts
<1>5. WordRoom(0) = 0
  BY WordRoomFacts
<1>6. Len(us) >= 1
  BY <1>1, <1>5
<1>9. Starts(us[1], i + n, FALSE)
  <2>1. CASE r > 0
    BY <1>1, <1>7, <2>1 DEF Starts
  <2>2. CASE r = 0
    <3>1. w \in Nat \ {0}
      BY <1>1, <1>5, <2>2
    <3>2. us[1].at = i + WordRoom(w - 1) /\ us[1].width = WordBytes
      BY <1>8, <2>2, <3>1
    <3>3. WordRoom((w - 1) + 1) = WordRoom(w - 1) + WordBytes /\ (w - 1) + 1 = w
          /\ WordRoom(w - 1) \in Nat
      <4>1. w - 1 \in Nat /\ (w - 1) + 1 = w
        BY <3>1
      <4>2. QED
        BY <1>4, <4>1
    <3>4. QED
      BY <1>1, <1>3, <2>2, <3>2, <3>3 DEF Starts
  <2>3. r > 0 \/ r = 0
    BY <1>1
  <2>4. QED
    BY <2>1, <2>2, <2>3
<1>10. us[Len(us)].at = i /\ ~us[Len(us)].carry
  <2>1. CASE w > 0
    <3>1. w \in 1 .. w /\ Len(us) = r + w /\ w - w = 0
      BY <1>1, <2>1
    <3>2. us[r + w].at = i + WordRoom(w - w) /\ (us[r + w].carry <=> w < w)
      BY <1>8, <3>1
    <3>3. QED
      BY <1>1, <1>5, <3>1, <3>2
  <2>2. CASE w = 0
    <3>1. r = n /\ Len(us) = n
      BY <1>1, <1>5, <2>2
    <3>2. us[n].at = i + n - n /\ (us[n].carry <=> n < n)
      BY <1>7, <3>1
    <3>3. QED
      BY <3>1, <3>2
  <2>3. QED
    BY <1>1, <2>1, <2>2
<1>11. ASSUME NEW j \in 1 .. (Len(us) - 1)
       PROVE  Starts(us[j + 1], us[j].at, ~us[j].carry)
  <2>1. CASE j < r
    <3>1. j \in 1 .. r /\ j + 1 \in 1 .. r
      BY <1>1, <2>1
    <3>2. /\ us[j].at = i + n - j /\ (us[j].carry <=> j < n)
          /\ us[j + 1].at = i + n - (j + 1) /\ us[j + 1].width = 1
      BY <1>7, <3>1
    <3>3. j < n
      <4>1. WordRoom(w) \in Nat
        BY <1>1, <1>4
      <4>2. QED
        BY <1>1, <2>1, <4>1
    <3>4. QED
      BY <3>2, <3>3 DEF Starts
  <2>2. CASE j = r
    <3>1. j \in 1 .. r /\ 1 \in 1 .. w /\ w \in Nat \ {0}
      BY <1>1, <2>2
    <3>2. /\ us[j].at = i + n - j /\ (us[j].carry <=> j < n)
          /\ us[j + 1].at = i + WordRoom(w - 1) /\ us[j + 1].width = WordBytes
      BY <1>7, <1>8, <2>2, <3>1
    <3>3. WordRoom((w - 1) + 1) = WordRoom(w - 1) + WordBytes /\ (w - 1) + 1 = w
          /\ WordRoom(w - 1) \in Nat
      <4>1. w - 1 \in Nat /\ (w - 1) + 1 = w
        BY <3>1
      <4>2. QED
        BY <1>4, <4>1
    <3> DEFINE v == WordRoom(w - 1)
               t == WordRoom(w)
    <3>4. t = v + WordBytes /\ v \in Nat /\ n = t + j
      BY <1>1, <1>4, <2>2, <3>3
    <3> HIDE DEF v, t
    <3>5. i + v + WordBytes = i + n - j /\ j < n
      BY <1>1, <1>3, <2>2, <3>4
    <3>6. us[j + 1].at + us[j + 1].width = us[j].at
      BY <3>2, <3>5 DEF v
    <3>7. us[j].carry /\ us[j + 1].width # 0
      BY <1>3, <3>2, <3>5
    <3>8. QED
      BY <3>6, <3>7 DEF Starts
  <2>3. CASE j > r
    <3> DEFINE t == j - r
    <3>1. t \in 1 .. w /\ t + 1 \in 1 .. w /\ j = r + t /\ j + 1 = r + (t + 1) /\ t < w
      BY <1>1, <2>3
    <3> HIDE DEF t
    <3>2. /\ us[j].at = i + WordRoom(w - t) /\ (us[j].carry <=> t < w)
          /\ us[j + 1].at = i + WordRoom(w - (t + 1)) /\ us[j + 1].width = WordBytes
      BY <1>8, <3>1
    <3> DEFINE s == w - (t + 1)
    <3>3. s \in Nat /\ w - t = s + 1
      BY <1>1, <3>1
    <3> HIDE DEF s
    <3>4. WordRoom(s + 1) = WordRoom(s) + WordBytes /\ WordRoom(s) \in Nat
      BY <1>4, <3>3
    <3>5. us[j].at = i + (WordRoom(s) + WordBytes) /\ us[j].carry /\ us[j + 1].at = i + WordRoom(s)
      BY <3>1, <3>2, <3>3, <3>4 DEF s
    <3>6. QED
      BY <1>3, <3>2, <3>4, <3>5 DEF Starts
  <2>4. QED
    BY <1>1, <2>1, <2>2, <2>3
<1>12. us # <<>>
  BY <1>6
<1>13. Chain(us, i, i + n, FALSE)
  BY <1>2, <1>9, <1>10, <1>11, <1>12 DEF Chain
<1>14. QED
  BY <1>12, <1>13 DEF us

\* Words that follow an aligned address are aligned.
LEMMA WordAligned ==
  ASSUME NEW x \in Nat, x % Alignment = 0, NEW j \in Nat
  PROVE  (x + WordRoom(j)) % Alignment = 0
<1> DEFINE q == x \div Alignment
           t == WordBytes \div Alignment
           s == t * j
<1>1. Alignment \in Nat \ {0} /\ WordBytes \in Nat /\ WordBytes % Alignment = 0
  BY WordAssumption
<1>2. q \in Nat /\ x = Alignment * q
  BY <1>1
<1>3. t \in Nat /\ WordBytes = Alignment * t
  BY <1>1
<1> HIDE DEF q, t
<1>4. (Alignment * t) * j = Alignment * (t * j) /\ t * j \in Nat
  BY <1>1, <1>3
<1>5. WordRoom(j) = Alignment * s /\ s \in Nat
  BY <1>3, <1>4 DEF WordRoom
<1> HIDE DEF s
<1>6. Alignment * q + Alignment * s = Alignment * (q + s)
  BY <1>1, <1>2, <1>5
<1>7. q + s \in Int /\ 0 \in 0 .. (Alignment - 1)
  BY <1>1, <1>2, <1>5
<1>8. (Alignment * (q + s) + 0) % Alignment = 0
  <2> DEFINE u == q + s
  <2>1. u \in Int
    BY <1>7
  <2> HIDE DEF u
  <2>2. (Alignment * u + 0) % Alignment = 0
    BY <1>1, <1>7, <2>1, Division
  <2>3. QED
    BY <2>2 DEF u
<1>9. Alignment * (q + s) + 0 = x + WordRoom(j)
  BY <1>1, <1>2, <1>5, <1>6
<1>10. QED
  BY <1>8, <1>9

\* to_aligned() leads to an aligned address.
LEMMA Aligning ==
  ASSUME NEW p \in Nat
  PROVE  ToAligned(p) \in 0 .. (Alignment - 1) /\ (p + ToAligned(p)) % Alignment = 0
<1> DEFINE q == p \div Alignment
           r == p % Alignment
<1>1. Alignment \in Nat \ {0}
  BY WordAssumption
<1>2. q \in Nat /\ r \in 0 .. (Alignment - 1) /\ p = Alignment * q + r
  BY <1>1
<1>3. ToAligned(p) = (Alignment - r) % Alignment
  BY DEF ToAligned
<1> HIDE DEF q
<1>4. 0 \in 0 .. (Alignment - 1) /\ 1 \in Int /\ 0 \in Int
  BY <1>1
<1>5. CASE r = 0
  <2>1. (Alignment * 1 + 0) % Alignment = 0
    BY <1>1, <1>4, Division
  <2>2. ToAligned(p) = 0
    BY <1>1, <1>3, <1>5, <2>1
  <2>3. p + 0 = p /\ p % Alignment = 0
    BY <1>5
  <2>4. QED
    BY <1>4, <2>2, <2>3
<1>6. CASE r # 0
  <2> HIDE DEF r
  <2> DEFINE s == Alignment - r
  <2>1. s \in 0 .. (Alignment - 1)
    BY <1>1, <1>2, <1>6
  <2> HIDE DEF s
  <2>2. (Alignment * 0 + s) % Alignment = s
    BY <1>1, <1>4, <2>1, Division
  <2>3. Alignment * 0 + s = s
    BY <1>1, <2>1
  <2>4. ToAligned(p) = s
    BY <1>3, <2>2, <2>3 DEF s
  <2> DEFINE t == q + 1
  <2>5. t \in Int
    BY <1>2
  <2>6. p + s = Alignment * t + 0
    BY <1>1, <1>2, <2>1 DEF s
  <2> HIDE DEF t
  <2>7. (Alignment * t + 0) % Alignment = 0
    BY <1>1, <1>4, <2>5, Division
  <2>8. QED
    BY <2>1, <2>4, <2>6, <2>7
<1>7. QED
  BY <1>5, <1>6

\* A unit that fits one part of the bytes fits all of them.
LEMMA FitsWider ==
  ASSUME NEW u \in AnyUnit, NEW address, NEW a \in Nat, NEW b \in Nat, NEW lo \in Nat, NEW hi \in Nat,
         lo <= a, b <= hi, Fits(u, address, a, b)
  PROVE  Fits(u, address, lo, hi)
<1>1. u.at \in Nat /\ u.width \in Nat
  BY DEF AnyUnit
<1>2. QED
  BY <1>1 DEF Fits

\* The units of a block stay in it, and there are words only in aligned ones.
LEMMA BlockUnitsFit ==
  ASSUME NEW i \in Nat, NEW n \in Nat, NEW address \in Nat,
         n < WordBytes \/ (address + i) % Alignment = 0,
         NEW j \in 1 .. Len(BlockUnits(i, n))
  PROVE  Fits(BlockUnits(i, n)[j], address, i, i + n)
<1> DEFINE w == FullWords(n)
           r == Rest(n)
           us == BlockUnits(i, n)
<1>1. /\ w \in Nat /\ r \in Nat /\ r < WordBytes /\ n = WordRoom(w) + r
      /\ Len(us) = r + w
  BY BlockUnitsParts
<1>2. \A k \in 1 .. r : /\ us[k].at = i + n - k
                        /\ us[k].width = 1
                        /\ us[k].carry <=> k < n
  BY BlockUnitsParts
<1>3. \A k \in 1 .. w : /\ us[r + k].at = i + WordRoom(w - k)
                        /\ us[r + k].width = WordBytes
                        /\ us[r + k].carry <=> k < w
  BY BlockUnitsParts
<1> HIDE DEF w, r, us
<1>4. WordBytes \in Nat \ {0}
  BY WordAssumption
<1>5. WordRoom(w) \in Nat
  BY <1>1, WordRoomFacts
<1>6. CASE j <= r
  <2>1. j \in 1 .. r
    BY <1>1, <1>6 DEF us
  <2>2. us[j].at = i + n - j /\ us[j].width = 1 /\ (us[j].carry <=> j < n)
    BY <1>2, <2>1
  <2>3. j <= n
    BY <1>1, <1>5, <2>1
  <2>4. i <= us[j].at /\ us[j].at < i + n /\ us[j].at + us[j].width <= i + n
    BY <2>1, <2>2, <2>3
  <2>5. us[j].carry => i < us[j].at
    BY <2>1, <2>2
  <2>6. ~ (us[j].width = WordBytes /\ WordBytes > 1)
    BY <1>4, <2>2
  <2>7. QED
    BY <2>4, <2>5, <2>6 DEF Fits, us
<1>7. CASE j > r
  <2> DEFINE k == j - r
             s == w - k
  <2>1. k \in 1 .. w /\ j = r + k
    BY <1>1, <1>7 DEF us
  <2>2. s \in Nat /\ w = s + k
    BY <1>1, <2>1
  <2> HIDE DEF k
  <2>3. us[j].at = i + WordRoom(s) /\ us[j].width = WordBytes /\ (us[j].carry <=> k < w)
    BY <1>3, <2>1
  <2> HIDE DEF s
  <2>4. WordRoom(s) \in Nat /\ WordRoom(s + 1) = WordRoom(s) + WordBytes
    BY <2>2, WordRoomFacts
  <2>5. WordRoom(s + 1) <= WordRoom(w)
    <3>1. s + 1 \in Nat /\ s + 1 <= w
      BY <1>1, <2>1, <2>2
    <3>2. QED
      BY <1>1, <3>1, WordRoomFacts
  <2>6. i <= us[j].at /\ us[j].at < i + n /\ us[j].at + us[j].width <= i + n
    BY <1>1, <1>4, <1>5, <2>3, <2>4, <2>5
  <2>7. us[j].carry => i < us[j].at
    <3>1. SUFFICES ASSUME us[j].carry PROVE i < us[j].at
      OBVIOUS
    <3>2. 1 <= s
      BY <1>1, <2>1, <2>2, <2>3, <3>1
    <3>3. WordRoom(1) <= WordRoom(s) /\ WordRoom(0 + 1) = WordRoom(0) + WordBytes /\ WordRoom(0) = 0
      BY <2>2, <3>2, WordRoomFacts
    <3>4. WordRoom(1) = WordBytes
      BY <1>4, <3>3
    <3>5. QED
      BY <1>4, <2>3, <2>4, <3>3, <3>4
  <2>8. (address + us[j].at) % Alignment = 0
    <3>1. WordBytes <= WordRoom(s + 1)
      BY <1>4, <2>4
    <3>2. ~ (n < WordBytes)
      BY <1>1, <1>4, <1>5, <2>4, <2>5, <3>1
    <3>3. (address + i) % Alignment = 0 /\ address + i \in Nat
      BY <3>2
    <3> DEFINE x == address + i
    <3> HIDE DEF x
    <3>4. (x + WordRoom(s)) % Alignment = 0
      BY <2>2, <3>3, WordAligned DEF x
    <3>5. x + WordRoom(s) = address + us[j].at
      BY <2>3, <2>4 DEF x
    <3>6. QED
      BY <3>4, <3>5
  <2>9. QED
    BY <2>6, <2>7, <2>8 DEF Fits, us
<1>8. QED
  BY <1>1, <1>6, <1>7 DEF us

\* shift_r8() as a whole covers its bytes from the top down, with aligned words.
LEMMA PartUnitsFacts ==
  ASSUME NEW address \in Nat, NEW a \in Nat, NEW b \in Nat, a < b
  PROVE  /\ Chain(PartUnits(address, a, b), a, b, FALSE)
         /\ \A j \in 1 .. Len(PartUnits(address, a, b)) : Fits(PartUnits(address, a, b)[j], address, a, b)
<1> DEFINE s == IF b - a >= WordBytes THEN ToAligned(address + a) ELSE 0
           us == BlockUnits(a + s, b - a - s)
           lone == <<Unit(a + s, 0, TRUE)>>
           vs == BlockUnits(a, s)
<1>1. Alignment \in Nat \ {0} /\ WordBytes \in Nat \ {0} /\ Alignment <= WordBytes
  <2>1. Alignment \in Nat \ {0} /\ WordBytes \in Nat \ {0} /\ WordBytes % Alignment = 0
    BY WordAssumption
  <2>2. ~ (WordBytes < Alignment)
    <3>1. SUFFICES ASSUME WordBytes < Alignment PROVE FALSE
      OBVIOUS
    <3>2. WordBytes \in 0 .. (Alignment - 1) /\ 0 \in Int
      BY <2>1, <3>1
    <3>3. (Alignment * 0 + WordBytes) % Alignment = WordBytes
      BY <2>1, <3>2, Division
    <3>4. Alignment * 0 + WordBytes = WordBytes
      BY <2>1
    <3>5. QED
      BY <2>1, <3>3, <3>4
  <2>3. QED
    BY <2>1, <2>2
<1>2. PartUnits(address, a, b) = us \o (IF s = 0 THEN <<>> ELSE lone \o vs)
  BY DEF PartUnits
<1>3. address + a \in Nat
  OBVIOUS
<1>4. ToAligned(address + a) \in 0 .. (Alignment - 1) /\ (address + a + ToAligned(address + a)) % Alignment = 0
  BY <1>3, Aligning
<1>5. s \in Nat /\ s < b - a /\ s < WordBytes
  BY <1>1, <1>4
<1>6. b - a - s < WordBytes \/ (address + (a + s)) % Alignment = 0
  <2>1. CASE b - a >= WordBytes
    <3>1. s = ToAligned(address + a)
      BY <2>1
    <3> HIDE DEF s
    <3>2. address + a + s = address + (a + s)
      BY <1>5
    <3>3. QED
      BY <1>4, <3>1, <3>2
  <2>2. CASE ~ (b - a >= WordBytes)
    BY <1>1, <2>2
  <2>3. QED
    BY <2>1, <2>2
<1> HIDE DEF s
<1>7. Chain(us, a + s, b, FALSE) /\ us # <<>>
  <2> DEFINE i == a + s
             n == b - a - s
  <2>1. i \in Nat /\ n \in Nat \ {0} /\ i + n = b
    BY <1>5
  <2> HIDE DEF i, n
  <2>2. Chain(BlockUnits(i, n), i, i + n, FALSE) /\ BlockUnits(i, n) # <<>>
    BY <2>1, BlockUnitsChain
  <2>3. QED
    BY <2>1, <2>2 DEF i, n
<1>8. ASSUME NEW j \in 1 .. Len(us) PROVE Fits(us[j], address, a, b)
  <2> DEFINE i == a + s
             n == b - a - s
  <2>1. i \in Nat /\ n \in Nat /\ i + n = b /\ a <= i
    BY <1>5
  <2>2. n < WordBytes \/ (address + i) % Alignment = 0
    BY <1>6
  <2>3. us = BlockUnits(i, n)
    OBVIOUS
  <2> HIDE DEF i, n, us
  <2>4. Fits(us[j], address, i, i + n)
    BY <2>1, <2>2, <2>3, BlockUnitsFit
  <2>5. us[j] \in AnyUnit
    BY <1>7 DEF Chain
  <2>6. b <= b
    OBVIOUS
  <2>7. QED
    BY <2>1, <2>4, <2>5, <2>6, FitsWider
<1> HIDE DEF us
<1>9. us \in Seq(AnyUnit) /\ Len(us) \in Nat
  BY <1>7 DEF Chain
<1>10. CASE s = 0
  <2>1. PartUnits(address, a, b) = us \o <<>>
    BY <1>2, <1>10
  <2>2. us \o <<>> = us
    BY <1>9
  <2>3. a + s = a
    BY <1>10
  <2>4. QED
    BY <1>7, <1>8, <2>1, <2>2, <2>3
<1>11. CASE s # 0
  <2>1. PartUnits(address, a, b) = us \o (lone \o vs)
    BY <1>2, <1>11
  <2>2. Chain(vs, a, a + s, FALSE) /\ vs # <<>>
    <3>1. s \in Nat \ {0}
      BY <1>5, <1>11
    <3>2. QED
      BY <3>1, BlockUnitsChain
  <2>3. ASSUME NEW j \in 1 .. Len(vs) PROVE Fits(vs[j], address, a, b)
    <3>1. Fits(vs[j], address, a, a + s)
      BY <1>5, BlockUnitsFit
    <3>2. vs[j] \in AnyUnit
      BY <2>2 DEF Chain
    <3>3. a + s \in Nat /\ a + s <= b /\ a <= a
      BY <1>5
    <3>4. QED
      BY <3>1, <3>2, <3>3, FitsWider
  <2> HIDE DEF vs
  <2>4. /\ lone \in Seq(AnyUnit) /\ Len(lone) = 1 /\ lone # <<>>
        /\ lone[1].at = a + s /\ lone[1].width = 0 /\ lone[1].carry
    BY <1>5 DEF Unit, AnyUnit
  <2>5. Fits(lone[1], address, a, b)
    <3>1. a <= a + s /\ a + s < b /\ (a + s) + 0 <= b /\ a < a + s /\ 0 # WordBytes
      BY <1>1, <1>5, <1>11
    <3>2. QED
      BY <2>4, <3>1 DEF Fits
  <2> HIDE DEF lone
  <2> DEFINE ws == lone \o vs
  <2>6. vs \in Seq(AnyUnit) /\ Len(vs) \in Nat \ {0}
    BY <2>2, EmptySeq DEF Chain
  <2>7. /\ ws \in Seq(AnyUnit) /\ Len(ws) = 1 + Len(vs) /\ ws[1] = lone[1]
        /\ \A j \in 1 .. Len(vs) : ws[1 + j] = vs[j]
    <3>0. lone \in Seq(AnyUnit) /\ vs \in Seq(AnyUnit)
      BY <2>4, <2>6
    <3>1. ws \in Seq(AnyUnit) /\ Len(ws) = Len(lone) + Len(vs)
      BY <3>0
    <3>2. /\ \A j \in 1 .. Len(lone) : ws[j] = lone[j]
          /\ \A j \in 1 .. Len(vs) : ws[Len(lone) + j] = vs[j]
      BY <3>0
    <3> HIDE DEF ws
    <3>3. QED
      BY <2>4, <3>1, <3>2
  <2> HIDE DEF ws
  <2>8. ws # <<>>
    BY <2>6, <2>7, EmptySeq
  <2>9. Chain(ws, a, a + s, TRUE)
    <3>1. Starts(ws[1], a + s, TRUE)
      BY <2>4, <2>7 DEF Starts
    <3>2. ws[Len(ws)] = vs[Len(vs)]
      BY <2>6, <2>7
    <3>3. vs[Len(vs)].at = a /\ ~vs[Len(vs)].carry /\ Starts(vs[1], a + s, FALSE)
      BY <2>2 DEF Chain
    <3>4. ASSUME NEW j \in 1 .. (Len(ws) - 1)
          PROVE  Starts(ws[j + 1], ws[j].at, ~ws[j].carry)
      <4>1. CASE j = 1
        <5>1. ws[j + 1] = vs[1]
          BY <2>6, <2>7, <4>1
        <5>2. ws[j].at = a + s /\ (~ws[j].carry) = FALSE
          BY <2>4, <2>7, <4>1
        <5>3. QED
          BY <3>3, <5>1, <5>2
      <4>2. CASE j # 1
        <5> DEFINE k == j - 1
        <5>1. k \in 1 .. (Len(vs) - 1) /\ k \in 1 .. Len(vs) /\ k + 1 \in 1 .. Len(vs)
              /\ j = 1 + k /\ j + 1 = 1 + (k + 1)
          BY <2>6, <2>7, <4>2
        <5> HIDE DEF k
        <5>2. ws[j] = vs[k] /\ ws[j + 1] = vs[k + 1]
          BY <2>7, <5>1
        <5>3. Starts(vs[k + 1], vs[k].at, ~vs[k].carry)
          BY <2>2, <5>1 DEF Chain
        <5>4. QED
          BY <5>2, <5>3
      <4>3. QED
        BY <4>1, <4>2
    <3>5. QED
      BY <2>7, <2>8, <3>1, <3>2, <3>3, <3>4 DEF Chain
  <2>10. Chain(us \o ws, a, b, FALSE)
    BY <1>7, <2>8, <2>9, ChainAppend
  <2>11. ASSUME NEW j \in 1 .. Len(ws) PROVE Fits(ws[j], address, a, b)
    <3>1. CASE j = 1
      BY <2>5, <2>7, <3>1
    <3>2. CASE j # 1
      <4> DEFINE k == j - 1
      <4>1. k \in 1 .. Len(vs) /\ j = 1 + k
        BY <2>6, <2>7, <3>2
      <4> HIDE DEF k
      <4>2. ws[j] = vs[k]
        BY <2>7, <4>1
      <4>3. QED
        BY <2>3, <4>1, <4>2
    <3>3. QED
      BY <3>1, <3>2
  <2>12. ASSUME NEW j \in 1 .. Len(us \o ws) PROVE Fits((us \o ws)[j], address, a, b)
    <3>1. Len(us \o ws) = Len(us) + Len(ws) /\ Len(ws) \in Nat
      <4>1. Len(ws) \in Nat
        BY <2>6, <2>7
      <4>2. us \in Seq(AnyUnit) /\ ws \in Seq(AnyUnit)
        BY <1>9, <2>7
      <4>3. QED
        BY <4>1, <4>2
    <3>2. CASE j <= Len(us)
      <4>1. j \in 1 .. Len(us)
        BY <1>9, <3>1, <3>2
      <4>2. (us \o ws)[j] = us[j]
        BY <1>9, <2>7, <4>1
      <4>3. QED
        BY <1>8, <4>1, <4>2
    <3>3. CASE j > Len(us)
      <4> DEFINE k == j - Len(us)
      <4>1. k \in 1 .. Len(ws) /\ j = Len(us) + k
        BY <1>9, <3>1, <3>3
      <4> HIDE DEF k
      <4>2. (us \o ws)[Len(us) + k] = ws[k]
        BY <1>9, <2>7, <4>1
      <4>3. QED
        BY <2>11, <4>1, <4>2
    <3>4. QED
      BY <1>9, <3>1, <3>2, <3>3
  <2>13. QED
    BY <2>1, <2>10, <2>12 DEF ws
<1>12. QED
  BY <1>10, <1>11

\* What a unit does to an element: it moves those of the block k places up, and
\* those that leave the byte below into byte at.
LEMMA ShiftUnitAt ==
  ASSUME NEW M, NEW e \in Endian, NEW u \in AnyUnit, NEW k \in 0 .. (ByteBits - 1),
         Room(u.at + u.width) <= Limit, u.carry => u.at > 0, NEW x \in Indices
  PROVE  At(e, ShiftUnit(M, e, u, k), x) =
           IF u.carry /\ Room(u.at) <= x /\ x < Room(u.at) + k
           THEN IF u.width = 0 THEN Or(At(e, M, x), At(e, M, x - k)) ELSE At(e, M, x - k)
           ELSE IF Room(u.at) <= x /\ x < Room(u.at + u.width)
           THEN IF x - k >= Room(u.at) THEN At(e, M, x - k) ELSE Zero
           ELSE At(e, M, x)
<1> DEFINE i == u.at
           w == u.width
           S == ShiftBlock(M, e, i, w, k)
<1>1. i \in Nat /\ w \in Nat /\ u.carry \in BOOLEAN
  BY DEF AnyUnit
<1>2. k \in Nat /\ k < ByteBits
  BY ByteBitsAssumption
<1>3. x \in Nat /\ x < Limit /\ Limit \in Nat
  BY IndicesFacts
<1>4. ASSUME NEW y \in Indices
      PROVE  At(e, S, y) = IF y < Room(i) \/ Room(i + w) <= y THEN At(e, M, y)
                           ELSE IF y - k >= Room(i) THEN At(e, M, y - k) ELSE Zero
  <2>1. Room(i + w) <= Limit
    OBVIOUS
  <2> HIDE DEF i, w, S
  <2>2. QED
    BY <1>1, <1>2, <2>1, ShiftBlockAt DEF S
<1>5. ShiftUnit(M, e, u, k) = IF u.carry THEN AddCarry(S, e, i, k) ELSE S
  BY DEF ShiftUnit
<1>6. Room(i) \in Nat /\ Room(w) \in Nat /\ Room(i + w) = Room(i) + Room(w)
  BY <1>1, RoomFacts, RoomAdds
<1>7. u.carry => i > 0
  OBVIOUS
<1> HIDE DEF i, w, S
<1>8. CASE ~u.carry
  <2>1. At(e, ShiftUnit(M, e, u, k), x) = At(e, S, x)
    BY <1>5, <1>8
  <2>2. x < Room(i) \/ Room(i + w) <= x <=> ~ (Room(i) <= x /\ x < Room(i + w))
    BY <1>3, <1>6
  <2>3. QED
    BY <1>4, <1>8, <2>1, <2>2 DEF i, w
<1>9. CASE u.carry
  <2>1. i \in Nat \ {0}
    BY <1>1, <1>7, <1>9
  <2>2. At(e, AddCarry(S, e, i, k), x) =
          IF Room(i) <= x /\ x < Room(i) + k THEN Or(At(e, S, x), At(e, S, x - k)) ELSE At(e, S, x)
    BY <2>1, AddCarryAt
  <2>3. At(e, ShiftUnit(M, e, u, k), x) =
          IF Room(i) <= x /\ x < Room(i) + k THEN Or(At(e, S, x), At(e, S, x - k)) ELSE At(e, S, x)
    BY <1>5, <1>9, <2>2
  <2>4. CASE Room(i) <= x /\ x < Room(i) + k
    <3>1. ByteBits <= Room(i)
      <4>1. Room(1) <= Room(i)
        BY <2>1, RoomMonotonic
      <4>2. Room(0 + 1) = Room(0) + ByteBits /\ Room(0) = 0
        BY RoomFacts
      <4>3. QED
        BY <4>1, <4>2, ByteBitsAssumption
    <3>2. x - k \in Indices /\ x - k < Room(i) /\ ~ (x - k >= Room(i))
      <4>1. x - k \in Nat /\ x - k < Limit /\ x - k < Room(i)
        BY <1>2, <1>3, <1>6, <2>4, <3>1, ByteBitsAssumption
      <4>2. QED
        BY <1>6, <4>1, IndicesFacts
    <3>3. At(e, S, x - k) = At(e, M, x - k)
      <4> DEFINE y == x - k
      <4>1. y \in Indices /\ y < Room(i)
        BY <3>2
      <4> HIDE DEF y
      <4>2. At(e, S, y) = At(e, M, y)
        BY <1>4, <4>1
      <4>3. QED
        BY <4>2 DEF y
    <3>4. CASE w = 0
      <4>1. Room(0) = 0
        BY RoomFacts
      <4>2. Room(i + w) <= x
        BY <1>6, <2>4, <3>4, <4>1
      <4>3. At(e, S, x) = At(e, M, x)
        BY <1>4, <4>2
      <4>4. QED
        BY <1>9, <2>3, <2>4, <3>3, <3>4, <4>3 DEF i, w
    <3>5. CASE w # 0
      <4>1. Room(1) <= Room(w)
        BY <1>1, <3>5, RoomMonotonic
      <4>2. Room(0 + 1) = Room(0) + ByteBits /\ Room(0) = 0
        BY RoomFacts
      <4>3. ~ (x < Room(i) \/ Room(i + w) <= x)
        BY <1>2, <1>3, <1>6, <2>4, <4>1, <4>2, ByteBitsAssumption
      <4>4. At(e, S, x) = Zero
        BY <1>4, <3>2, <4>3
      <4>5. Or(At(e, S, x), At(e, S, x - k)) = At(e, M, x - k)
        BY <3>3, <4>4 DEF Or
      <4>6. QED
        BY <1>9, <2>3, <2>4, <3>5, <4>5 DEF i, w
    <3>6. QED
      BY <3>4, <3>5
  <2>5. CASE ~ (Room(i) <= x /\ x < Room(i) + k)
    <3>1. At(e, ShiftUnit(M, e, u, k), x) = At(e, S, x)
      BY <2>3, <2>5
    <3>2. x < Room(i) \/ Room(i + w) <= x <=> ~ (Room(i) <= x /\ x < Room(i + w))
      BY <1>3, <1>6
    <3>3. QED
      BY <1>4, <2>5, <3>1, <3>2 DEF i, w
  <2>6. QED
    BY <2>4, <2>5
<1>10. QED
  BY <1>8, <1>9

\* While the bytes before hi are being shifted by k, with V what was there before:
\* above byte top it is done, but for what is pending.
ShiftedTo(M, e, V, top, pending, hi, k) ==
  \A x \in Indices :
    At(e, M, x) = IF x < Room(top) \/ Room(hi) <= x THEN V[x]
                  ELSE IF pending /\ x < Room(top) + k THEN Zero ELSE V[x - k]

\* One unit brings it from top down to its own byte.
LEMMA ShiftStep ==
  ASSUME NEW M, NEW e \in Endian, NEW V, NEW u \in AnyUnit, NEW k \in 0 .. (ByteBits - 1),
         NEW top \in Nat, NEW pending \in BOOLEAN, NEW hi \in Nat,
         top <= hi, Room(hi) <= Limit, Starts(u, top, pending),
         u.at < hi, u.carry => u.at > 0,
         ShiftedTo(M, e, V, top, pending, hi, k)
  PROVE  ShiftedTo(ShiftUnit(M, e, u, k), e, V, u.at, ~u.carry, hi, k)
<1> DEFINE i == u.at
           w == u.width
           N == ShiftUnit(M, e, u, k)
<1>1. i \in Nat /\ w \in Nat /\ u.carry \in BOOLEAN /\ i < hi
  BY DEF AnyUnit
<1>2. k \in Nat /\ k < ByteBits
  BY ByteBitsAssumption
<1>3. Room(i) \in Nat /\ Room(top) \in Nat /\ Room(hi) \in Nat /\ Room(top) <= Room(hi)
  BY <1>1, RoomFacts, RoomMonotonic
<1>4. i + w = top
  <2>1. CASE w = 0
    BY <1>1, <2>1 DEF Starts
  <2>2. CASE w # 0
    BY <2>2 DEF Starts
  <2>3. QED
    BY <2>1, <2>2
<1>5. Room(i) + ByteBits <= Room(hi) /\ Room(i) <= Room(top)
  <2>1. Room(i + 1) <= Room(hi) /\ Room(i + 1) = Room(i) + ByteBits
    <3>1. i + 1 \in Nat /\ i + 1 <= hi
      BY <1>1
    <3> HIDE DEF i
    <3>2. QED
      BY <1>1, <3>1, RoomMonotonic, RoomFacts
  <2>2. Room(i) <= Room(top)
    BY <1>1, <1>4, RoomMonotonic
  <2>3. QED
    BY <2>1, <2>2
<1>6. u.carry => ByteBits <= Room(i)
  <2>1. SUFFICES ASSUME u.carry PROVE ByteBits <= Room(i)
    OBVIOUS
  <2>2. Room(1) <= Room(i)
    BY <1>1, <2>1, RoomMonotonic
  <2>3. Room(0 + 1) = Room(0) + ByteBits /\ Room(0) = 0
    BY RoomFacts
  <2>4. QED
    BY <2>2, <2>3, ByteBitsAssumption
<1>7. ASSUME NEW x \in Indices
      PROVE  At(e, N, x) =
               IF u.carry /\ Room(i) <= x /\ x < Room(i) + k
               THEN IF w = 0 THEN Or(At(e, M, x), At(e, M, x - k)) ELSE At(e, M, x - k)
               ELSE IF Room(i) <= x /\ x < Room(top)
               THEN IF x - k >= Room(i) THEN At(e, M, x - k) ELSE Zero
               ELSE At(e, M, x)
  <2>1. Room(u.at + u.width) <= Limit
    BY <1>3, <1>4, IndicesFacts
  <2>2. At(e, N, x) =
           IF u.carry /\ Room(u.at) <= x /\ x < Room(u.at) + k
           THEN IF u.width = 0 THEN Or(At(e, M, x), At(e, M, x - k)) ELSE At(e, M, x - k)
           ELSE IF Room(u.at) <= x /\ x < Room(u.at + u.width)
           THEN IF x - k >= Room(u.at) THEN At(e, M, x - k) ELSE Zero
           ELSE At(e, M, x)
    BY <2>1, ShiftUnitAt
  <2> HIDE DEF N
  <2>3. QED
    BY <1>4, <2>2
<1>8. ASSUME NEW x \in Indices
      PROVE  At(e, M, x) = IF x < Room(top) \/ Room(hi) <= x THEN V[x]
                           ELSE IF pending /\ x < Room(top) + k THEN Zero ELSE V[x - k]
  BY DEF ShiftedTo
<1>9. \A x \in Indices : x \in Nat /\ x < Limit
  BY IndicesFacts
<1>10. Limit \in Nat
  BY IndicesFacts
<1>11. w = 0 => i = top /\ u.carry /\ pending
  BY DEF Starts
<1>12. w # 0 => ~pending /\ Room(i) + ByteBits <= Room(top)
  <2>1. SUFFICES ASSUME w # 0 PROVE ~pending /\ Room(i) + ByteBits <= Room(top)
    OBVIOUS
  <2>2. ~pending
    BY <2>1 DEF Starts
  <2>3. i + 1 <= top /\ i + 1 \in Nat
    BY <1>1, <1>4, <2>1
  <2>4. Room(i + 1) <= Room(top) /\ Room(i + 1) = Room(i) + ByteBits
    BY <1>1, <2>3, RoomMonotonic, RoomFacts
  <2>5. QED
    BY <2>2, <2>4
<1> HIDE DEF i, w, N
<1>13. ASSUME NEW x \in Indices, Room(i) <= x, x < Room(i) + k, u.carry
       PROVE  At(e, M, x - k) = V[x - k]
  <2> DEFINE y == x - k
  <2>1. y \in Nat /\ y < Limit /\ y < Room(top)
    BY <1>2, <1>3, <1>5, <1>6, <1>9, <1>10, <1>13, ByteBitsAssumption
  <2> HIDE DEF y
  <2>2. y \in Indices
    BY <2>1, IndicesFacts
  <2>3. At(e, M, y) = V[y]
    BY <1>8, <2>1, <2>2
  <2>4. QED
    BY <2>3 DEF y
<1>14. ASSUME NEW x \in Indices, Room(i) + k <= x, x < Room(top)
       PROVE  At(e, M, x - k) = V[x - k]
  <2> DEFINE y == x - k
  <2>1. y \in Nat /\ y < Limit /\ y < Room(top)
    BY <1>2, <1>3, <1>9, <1>10, <1>14
  <2> HIDE DEF y
  <2>2. y \in Indices
    BY <2>1, IndicesFacts
  <2>3. At(e, M, y) = V[y]
    BY <1>8, <2>1, <2>2
  <2>4. QED
    BY <2>3 DEF y
<1>15. ASSUME NEW x \in Indices
       PROVE  At(e, N, x) = IF x < Room(i) \/ Room(hi) <= x THEN V[x]
                            ELSE IF ~u.carry /\ x < Room(i) + k THEN Zero ELSE V[x - k]
  <2>1. x \in Nat
    BY <1>9
  <2>2. CASE x < Room(i)
    <3>1. At(e, N, x) = At(e, M, x)
      BY <1>3, <1>7, <2>1, <2>2
    <3>2. At(e, M, x) = V[x]
      BY <1>3, <1>5, <1>8, <2>1, <2>2
    <3>3. QED
      BY <2>2, <3>1, <3>2
  <2>3. CASE Room(hi) <= x
    <3>1. ~ (x < Room(i) + k) /\ ~ (x < Room(top))
      BY <1>2, <1>3, <1>5, <2>1, <2>3, ByteBitsAssumption
    <3>2. At(e, N, x) = At(e, M, x)
      BY <1>7, <3>1
    <3>3. At(e, M, x) = V[x]
      BY <1>8, <2>3
    <3>4. QED
      BY <2>3, <3>2, <3>3
  <2>4. CASE Room(i) <= x /\ x < Room(i) + k /\ x < Room(hi)
    <3>1. ~ (x < Room(i) \/ Room(hi) <= x)
      BY <1>3, <2>1, <2>4
    <3>2. CASE u.carry
      <4>1. At(e, M, x - k) = V[x - k]
        BY <1>13, <2>4, <3>2
      <4>2. CASE w = 0
        <5>1. At(e, M, x) = Zero
          BY <1>8, <1>11, <2>4, <3>1, <4>2
        <5>2. At(e, N, x) = Or(At(e, M, x), At(e, M, x - k))
          BY <1>7, <2>4, <3>2, <4>2
        <5>3. QED
          BY <3>1, <3>2, <4>1, <5>1, <5>2 DEF Or
      <4>3. CASE w # 0
        <5>1. At(e, N, x) = At(e, M, x - k)
          BY <1>7, <2>4, <3>2, <4>3
        <5>2. QED
          BY <3>1, <3>2, <4>1, <5>1
      <4>4. QED
        BY <4>2, <4>3
    <3>3. CASE ~u.carry
      <4>1. w # 0
        BY <1>11, <3>3
      <4>2. x < Room(top) /\ ~ (x - k >= Room(i))
        BY <1>2, <1>3, <1>12, <2>1, <2>4, <4>1, ByteBitsAssumption
      <4>3. At(e, N, x) = Zero
        BY <1>7, <2>4, <3>3, <4>2
      <4>4. QED
        BY <2>4, <3>1, <3>3, <4>3
    <3>4. QED
      BY <3>2, <3>3
  <2>5. CASE Room(i) + k <= x /\ x < Room(hi)
    <3>1. /\ Room(i) <= x /\ ~ (x < Room(i) + k) /\ x - k >= Room(i)
          /\ ~ (x < Room(i) \/ Room(hi) <= x)
      BY <1>2, <1>3, <2>1, <2>5
    <3>2. CASE x < Room(top)
      <4>1. At(e, N, x) = At(e, M, x - k)
        BY <1>7, <3>1, <3>2
      <4>2. At(e, M, x - k) = V[x - k]
        BY <1>14, <2>5, <3>2
      <4>3. QED
        BY <3>1, <4>1, <4>2
    <3>3. CASE ~ (x < Room(top))
      <4>1. At(e, N, x) = At(e, M, x)
        BY <1>7, <3>1, <3>3
      <4>2. ~ (pending /\ x < Room(top) + k)
        BY <1>11, <1>12, <3>1
      <4>3. At(e, M, x) = V[x - k]
        BY <1>8, <3>1, <3>3, <4>2
      <4>4. QED
        BY <3>1, <4>1, <4>3
    <3>4. QED
      BY <3>2, <3>3
  <2>6. QED
    BY <1>2, <1>3, <2>1, <2>2, <2>3, <2>4, <2>5
<1>16. QED
  BY <1>15 DEF ShiftedTo, i, N

-------------------------------------------------------------------------------
(***************************************************************************)
(* The arguments of copy_n().                                              *)
(***************************************************************************)
\* A call, for short.
LEMMA CallFacts ==
  ASSUME call \in Calls
  PROVE  /\ call.a \in Nat /\ call.b \in Nat /\ call.n \in Nat /\ call.address \in Nat
         /\ call.nbits \in Nat /\ call.nbits2 \in Nat
         /\ call.nbits <= Limit /\ call.nbits2 <= Limit
         /\ call.a + call.n <= call.nbits /\ call.b + call.n <= call.nbits2
         /\ call.endian \in Endian /\ call.endian2 \in Endian /\ call.same \in BOOLEAN
         /\ call.same => call.endian2 = call.endian
<1>1. /\ call.a \in Cells /\ call.b \in Cells /\ call.n \in Lengths \union Cells
      /\ call.nbits \in Lengths /\ call.nbits2 \in Lengths
      /\ call.address \in 0 .. (Alignment - 1)
      /\ call.endian \in {LITTLE, BIG} /\ call.endian2 \in {LITTLE, BIG}
      /\ call.same \in BOOLEAN
      /\ call.a + call.n <= call.nbits /\ call.b + call.n <= call.nbits2
      /\ call.same => call.endian2 = call.endian
  BY DEF Calls
<1>2. Limit \in Nat /\ Lengths \subseteq 0 .. Limit
  BY WordAssumption, IndicesFacts DEF Limit, Room
<1>3. Cells \subseteq Nat
  BY IndicesFacts
<1>4. /\ call.nbits \in Nat /\ call.nbits2 \in Nat
      /\ call.nbits <= Limit /\ call.nbits2 <= Limit
  <2>1. ASSUME NEW length \in Lengths PROVE length \in Nat /\ length <= Limit
    BY <1>2
  <2>2. call.nbits \in Lengths /\ call.nbits2 \in Lengths
    BY <1>1
  <2>3. QED
    BY <2>1, <2>2
<1>5. call.a \in Nat /\ call.b \in Nat
  BY <1>1, <1>3
<1>6. call.n \in Nat
  <2>1. CASE call.n \in Lengths
    <3>1. call.n \in 0 .. Limit
      BY <1>2, <2>1
    <3>2. QED
      BY <1>2, <3>1
  <2>2. CASE call.n \in Cells
    BY <1>3, <2>2
  <2>3. QED
    BY <1>1, <2>1, <2>2
<1>7. call.address \in Nat
  BY <1>1, WordAssumption
<1>8. QED
  BY <1>1, <1>4, <1>5, <1>6, <1>7 DEF Endian

\* Where the copied elements lie: those of self begin sa places into byte p1, and
\* b + sb is the beginning of byte p3 of other.
LEMMA Geometry ==
  ASSUME call \in Calls, call.n > 0
  PROVE  /\ p1 \in Nat /\ p2 \in Nat /\ p3 \in Nat /\ p1 <= p2
         /\ sa \in 0 .. (ByteBits - 1) /\ sb \in Int /\ sb < ByteBits + 1
         /\ sa + sb \in 0 .. (ByteBits - 1)
         /\ call.a = Room(p1) + sa
         /\ Room(p2) < call.a + call.n /\ call.a + call.n <= Room(p2 + 1)
         /\ call.b + sb = Room(p3)
         /\ p2 + 1 <= BYTES(call.nbits) /\ BYTES(call.nbits) <= MaxBytes
         /\ BYTES(call.nbits) \in Nat
         /\ Room(p2 + 1) <= Limit
         /\ Early => p3 - 1 = call.b \div ByteBits /\ call.b >= Room(p3 - 1) /\ p3 >= 1
         /\ ~Early => sb <= 0
<1> DEFINE bb == call.b % ByteBits
           qb == call.b \div ByteBits
<1>1. /\ call.a \in Nat /\ call.b \in Nat /\ call.n \in Nat
      /\ call.nbits \in Nat /\ call.nbits <= Limit /\ call.a + call.n <= call.nbits
  BY CallFacts
<1>2. p1 \in Nat /\ sa \in 0 .. (ByteBits - 1) /\ call.a = Room(p1) + sa
  BY <1>1, DivMod DEF p1, sa, Room
<1>3. qb \in Nat /\ bb \in 0 .. (ByteBits - 1) /\ call.b = Room(qb) + bb
  BY <1>1, DivMod DEF Room
<1>4. Early <=> sa < bb
  BY DEF Early
<1>5. sb = (IF Early THEN ByteBits ELSE 0) - bb
  BY DEF sb
<1>6. p3 = qb + (IF Early THEN 1 ELSE 0)
  BY DEF p3
<1> DEFINE last == call.a + call.n - 1
<1>7. last \in Nat /\ last + 1 = call.a + call.n /\ call.a <= last
  BY <1>1
<1>8. p2 = last \div ByteBits
  BY DEF p2
<1> HIDE DEF bb, qb, last
<1>9. p2 \in Nat
  BY <1>7, <1>8, DivMod
<1>10. Room(p2) <= last /\ last < Room(p2) + ByteBits /\ Room(p2 + 1) = Room(p2) + ByteBits
       /\ Room(p2) \in Nat
  BY <1>7, <1>8, <1>9, ByteIs, RoomFacts
<1>11. Room(p2) < call.a + call.n /\ call.a + call.n <= Room(p2 + 1)
  BY <1>7, <1>10, ByteBitsAssumption
<1>12. p1 <= p2
  <2>1. ~ (p2 < p1)
    <3>1. SUFFICES ASSUME p2 < p1 PROVE FALSE
      OBVIOUS
    <3>2. last < Room(p1)
      BY <1>2, <1>7, <1>8, <3>1, ByteBelow
    <3>3. Room(p1) \in Nat
      BY <1>2, RoomFacts
    <3>4. QED
      BY <1>1, <1>2, <1>7, <3>2, <3>3, ByteBitsAssumption
  <2>2. QED
    BY <1>2, <1>9, <2>1
<1>13. sb \in Int /\ sb < ByteBits + 1 /\ sa + sb \in 0 .. (ByteBits - 1) /\ (~Early => sb <= 0)
  <2>1. CASE Early
    BY <1>2, <1>3, <1>4, <1>5, <2>1, ByteBitsAssumption
  <2>2. CASE ~Early
    BY <1>2, <1>3, <1>4, <1>5, <2>2, ByteBitsAssumption
  <2>3. QED
    BY <2>1, <2>2
<1>14. p3 \in Nat /\ call.b + sb = Room(p3)
  <2>1. CASE Early
    <3>1. p3 = qb + 1 /\ sb = ByteBits - bb
      BY <1>5, <1>6, <2>1
    <3>2. Room(qb + 1) = Room(qb) + ByteBits /\ Room(qb) \in Nat
      BY <1>3, RoomFacts
    <3>3. QED
      BY <1>3, <3>1, <3>2, ByteBitsAssumption
  <2>2. CASE ~Early
    <3>1. p3 = qb /\ sb = 0 - bb
      BY <1>3, <1>5, <1>6, <2>2
    <3>2. Room(qb) \in Nat
      BY <1>3, RoomFacts
    <3>3. QED
      BY <1>3, <3>1, <3>2, ByteBitsAssumption
  <2>3. QED
    BY <2>1, <2>2
<1>15. Early => p3 - 1 = qb /\ call.b >= Room(p3 - 1) /\ p3 >= 1
  <2>1. SUFFICES ASSUME Early PROVE p3 - 1 = qb /\ call.b >= Room(p3 - 1) /\ p3 >= 1
    OBVIOUS
  <2>2. p3 - 1 = qb /\ p3 >= 1
    BY <1>3, <1>6, <2>1
  <2>3. call.b >= Room(qb)
    <3>1. Room(qb) \in Nat
      BY <1>3, RoomFacts
    <3>2. QED
      BY <1>3, <3>1, ByteBitsAssumption
  <2>4. QED
    BY <2>2, <2>3
<1> DEFINE size1 == BYTES(call.nbits)
<1>16. size1 \in Nat /\ call.nbits <= Room(size1) /\ (\A k \in Nat : call.nbits <= Room(k) => size1 <= k)
  BY <1>1, BytesFit
<1>17. size1 <= MaxBytes
  BY <1>1, <1>16, MaxBytesAssumption DEF Limit
<1> HIDE DEF size1
<1>18. p2 + 1 <= size1
  <2>1. last < Room(size1)
    <3>1. Room(size1) \in Nat
      BY <1>16, RoomFacts
    <3>2. QED
      BY <1>1, <1>7, <1>16, <3>1
  <2>2. p2 < size1
    BY <1>7, <1>8, <1>16, <2>1, ByteBelow
  <2>3. QED
    BY <1>9, <1>16, <2>2
<1>19. Room(p2 + 1) <= Limit
  <2>1. p2 + 1 <= MaxBytes /\ p2 + 1 \in Nat
    BY <1>9, <1>16, <1>17, <1>18, MaxBytesAssumption
  <2>2. QED
    BY <2>1, RoomMonotonic, MaxBytesAssumption DEF Limit
<1>20. QED
  BY <1>2, <1>9, <1>11, <1>12, <1>13, <1>14, <1>15, <1>16, <1>17, <1>18, <1>19 DEF size1, qb

\* The bytes moved.
LEMMA MovedBytes ==
  ASSUME call \in Calls, call.n > 0, call.n > sb
  PROVE  /\ m \in Nat
         /\ call.n - sb <= Room(m)
         /\ p1 + m <= p2 + 1
         /\ p3 + m <= BYTES(call.nbits2)
         /\ Room(p3 + m) <= Limit
<1>1. /\ call.a \in Nat /\ call.b \in Nat /\ call.n \in Nat
      /\ call.nbits2 \in Nat /\ call.nbits2 <= Limit /\ call.b + call.n <= call.nbits2
  BY CallFacts
<1>2. /\ p1 \in Nat /\ p2 \in Nat /\ p3 \in Nat /\ p1 <= p2
      /\ sa \in 0 .. (ByteBits - 1) /\ sb \in Int
      /\ sa + sb \in 0 .. (ByteBits - 1)
      /\ call.a = Room(p1) + sa
      /\ call.a + call.n <= Room(p2 + 1)
      /\ call.b + sb = Room(p3)
  BY Geometry
<1> DEFINE k == call.n - sb
<1>3. k \in Nat /\ k > 0
  BY <1>1, <1>2
<1>4. m = BYTES(k)
  BY DEF m
<1> HIDE DEF k
<1>5. m \in Nat /\ k <= Room(m) /\ (\A j \in Nat : k <= Room(j) => m <= j)
  BY <1>3, <1>4, BytesFit
<1>6. p1 + m <= p2 + 1
  <2> DEFINE j == p2 + 1 - p1
  <2>1. j \in Nat /\ p2 + 1 = p1 + j
    BY <1>2
  <2> HIDE DEF j
  <2>2. Room(p1 + j) = Room(p1) + Room(j) /\ Room(p1) \in Nat /\ Room(j) \in Nat
    BY <1>2, <2>1, RoomAdds, RoomFacts
  <2>3. k <= Room(j)
    BY <1>1, <1>2, <2>1, <2>2, ByteBitsAssumption DEF k
  <2>4. m <= j
    BY <1>5, <2>1, <2>3
  <2>5. QED
    BY <1>2, <1>5, <2>1, <2>4
<1> DEFINE size2 == BYTES(call.nbits2)
<1>7. size2 \in Nat /\ call.nbits2 <= Room(size2) /\ (\A j \in Nat : call.nbits2 <= Room(j) => size2 <= j)
  BY <1>1, BytesFit
<1>8. size2 <= MaxBytes
  BY <1>1, <1>7, MaxBytesAssumption DEF Limit
<1> HIDE DEF size2
<1>9. Room(size2) \in Nat /\ Room(p3) \in Nat
  BY <1>2, <1>7, RoomFacts
<1>10. p3 < size2
  <2>1. SUFFICES ASSUME size2 <= p3 PROVE FALSE
    BY <1>2, <1>7
  <2>2. Room(size2) <= Room(p3)
    BY <1>2, <1>7, <2>1, RoomMonotonic
  <2>3. QED
    BY <1>1, <1>2, <1>3, <1>7, <1>9, <2>2 DEF k
<1>11. p3 + m <= size2
  <2> DEFINE j == size2 - p3
  <2>1. j \in Nat /\ size2 = p3 + j
    BY <1>2, <1>7, <1>10
  <2> HIDE DEF j
  <2>2. Room(p3 + j) = Room(p3) + Room(j) /\ Room(j) \in Nat
    BY <1>2, <2>1, RoomAdds, RoomFacts
  <2>3. k <= Room(j)
    BY <1>1, <1>2, <1>7, <1>9, <2>1, <2>2 DEF k
  <2>4. m <= j
    BY <1>5, <2>1, <2>3
  <2>5. QED
    BY <1>2, <1>5, <2>1, <2>4
<1>12. Room(p3 + m) <= Limit
  <2>1. p3 + m \in Nat /\ p3 + m <= MaxBytes
    BY <1>2, <1>5, <1>7, <1>8, <1>11, MaxBytesAssumption
  <2>2. QED
    BY <2>1, RoomMonotonic, MaxBytesAssumption DEF Limit
<1>13. QED
  BY <1>5, <1>6, <1>11, <1>12 DEF k, size2

-------------------------------------------------------------------------------
(***************************************************************************)
(* What the parts of copy_n() do to elements.                              *)
(***************************************************************************)
IsMemory(M) == M = [c \in Cells |-> M[c]]

\* Memory is what its elements are.
LEMMA SameMemory ==
  ASSUME NEW M, NEW N, IsMemory(M), IsMemory(N), NEW e \in Endian,
         \A x \in Indices : At(e, M, x) = At(e, N, x)
  PROVE  M = N
<1>1. ASSUME NEW c \in Cells PROVE M[c] = N[c]
  <2>1. Pos(e, c) \in Indices /\ At(e, M, Pos(e, c)) = M[c] /\ At(e, N, Pos(e, c)) = N[c]
    BY AtCells
  <2>2. QED
    BY <2>1
<1>2. [c \in Cells |-> M[c]] = [c \in Cells |-> N[c]]
  BY <1>1
<1>3. QED
  BY <1>2 DEF IsMemory

\* Elements set in memory that holds anything.
LEMMA SpanAt ==
  ASSUME NEW h, h.endian \in Endian, NEW M, NEW a, NEW n, NEW f, NEW x \in Indices
  PROVE  At(h.endian, SetSpan(h, M, a, n, f), x) = Over(a, n, f, x, At(h.endian, M, x))
<1> DEFINE e == h.endian
<1>1. Pos(e, x) \in Cells /\ Pos(e, Pos(e, x)) = x
  BY IndicesFacts
<1>2. SetSpan(h, M, a, n, f)[Pos(e, x)] =
        IF Pos(e, Pos(e, x)) \in a .. (a + n - 1)
        THEN f[Pos(e, Pos(e, x)) - a] ELSE M[Pos(e, x)]
  BY <1>1 DEF SetSpan
<1>3. QED
  BY <1>1, <1>2 DEF At, Over

\* One cell of bytes that are reversed.
LEMMA ByteReverseCell ==
  ASSUME NEW M, NEW lo, NEW hi, NEW c \in Cells
  PROVE  ByteReverse(M, lo, hi)[c] =
           IF c \div ByteBits \in lo .. (hi - 1) THEN M[Pos(BIG, c)] ELSE M[c]
BY DEF ByteReverse

\* The elements after whole bytes have been moved into place.
MovedTo ==
  [x \in Indices |->
     IF Room(p1) <= x /\ x < Room(p1 + m)
     THEN At(call.endian2, OtherMem(SelfMem), x + Room(p3) - Room(p1))
     ELSE At(call.endian, SelfMem, x)]

\* memmove() and the reversal of bytes that adapts their bit order.
LEMMA MoveAt ==
  ASSUME call \in Calls, call.n > 0, call.n > sb, pc = "move", mem = SelfMem, Move
  PROVE  /\ IsMemory(mem')
         /\ \A x \in Indices : At(call.endian, mem', x) = MovedTo[x]
<1> DEFINE O == OtherMem(SelfMem)
           moved == [c \in Cells |->
                       IF c \div ByteBits \in p1 .. (p1 + m - 1)
                       THEN O[c + (p3 - p1) * ByteBits] ELSE SelfMem[c]]
           e == call.endian
           f == call.endian2
<1>1. mem' = IF e # f THEN ByteReverse(moved, p1, p1 + m) ELSE moved
  BY DEF Move
<1>2. IsMemory(mem')
  BY <1>1 DEF IsMemory, ByteReverse
<1>3. e \in Endian /\ f \in Endian
  BY CallFacts
<1>4. p1 \in Nat /\ p3 \in Nat /\ m \in Nat
  BY Geometry, MovedBytes
<1>5. (p3 - p1) * ByteBits = Room(p3) - Room(p1)
  BY <1>4, ByteBitsAssumption DEF Room
<1>6. /\ Room(p1) \in Nat /\ Room(p3) \in Nat /\ Room(m) \in Nat
      /\ Room(p1 + m) = Room(p1) + Room(m) /\ p1 + m \in Nat
  <2>1. Room(p1) \in Nat /\ Room(p3) \in Nat /\ Room(m) \in Nat
    BY <1>4, RoomFacts
  <2>2. Room(p1 + m) = Room(p1) + Room(m)
    BY <1>4, RoomAdds
  <2>3. QED
    BY <1>4, <2>1, <2>2
<1>7. ASSUME NEW x \in Indices, NEW g \in Endian
      PROVE  /\ Pos(g, x) \in Cells
             /\ Pos(g, x) \div ByteBits \in p1 .. (p1 + m - 1) <=>
                  Room(p1) <= x /\ x < Room(p1 + m)
  <2>1. x \in Nat /\ Pos(g, x) \in Cells
    BY IndicesFacts
  <2>2. Pos(g, x) \div ByteBits = x \div ByteBits
    BY <2>1, PosInvolution
  <2>3. x \div ByteBits \in p1 .. (p1 + m - 1) <=> Room(p1) <= x /\ x < Room(p1 + m)
    BY <1>4, <1>6, <2>1, BytesBetween
  <2>4. QED
    BY <2>1, <2>2, <2>3
<1>8. ASSUME NEW x \in Indices, Room(p1) <= x, x < Room(p1 + m)
      PROVE  moved[Pos(f, x)] = MovedTo[x]
  <2> DEFINE z == x - Room(p1)
  <2>1. z \in Nat /\ x = Room(p1) + z
    <3>1. x \in Nat
      BY IndicesFacts
    <3>2. QED
      BY <1>6, <1>8, <3>1
  <2>2. x + Room(p3) - Room(p1) = Room(p3) + z
    BY <1>6, <2>1
  <2> HIDE DEF z
  <2>3. Pos(f, Room(p1) + z) = Room(p1) + Pos(f, z)
    BY <1>3, <1>4, <2>1, PosOffset
  <2>4. Pos(f, Room(p3) + z) = Room(p3) + Pos(f, z) /\ Pos(f, z) \in Nat
    BY <1>3, <1>4, <2>1, PosOffset, PosInvolution
  <2>5. Pos(f, x) + (p3 - p1) * ByteBits = Pos(f, x + Room(p3) - Room(p1))
    BY <1>5, <1>6, <2>1, <2>2, <2>3, <2>4
  <2>6. moved[Pos(f, x)] = O[Pos(f, x) + (p3 - p1) * ByteBits]
    BY <1>3, <1>7, <1>8
  <2>7. MovedTo[x] = At(f, O, x + Room(p3) - Room(p1))
    BY <1>8 DEF MovedTo
  <2> HIDE DEF moved, O, e, f
  <2>8. QED
    BY <2>5, <2>6, <2>7 DEF At
<1>9. ASSUME NEW x \in Indices, ~ (Room(p1) <= x /\ x < Room(p1 + m)), NEW g \in Endian
      PROVE  moved[Pos(g, x)] = SelfMem[Pos(g, x)]
  BY <1>7, <1>9
<1>10. ASSUME NEW x \in Indices, ~ (Room(p1) <= x /\ x < Room(p1 + m))
       PROVE  MovedTo[x] = SelfMem[Pos(e, x)]
  BY <1>10 DEF MovedTo, At
<1> HIDE DEF moved, O
<1>11. ASSUME NEW x \in Indices PROVE At(e, mem', x) = MovedTo[x]
  <2>1. CASE e = f
    <3>1. At(e, mem', x) = moved[Pos(f, x)]
      BY <1>1, <2>1 DEF At
    <3>2. QED
      BY <1>3, <1>8, <1>9, <1>10, <2>1, <3>1
  <2>2. CASE e # f
    <3>1. mem' = ByteReverse(moved, p1, p1 + m)
      BY <1>1, <2>2
    <3>2. Pos(e, x) \in Cells
      BY <1>3, <1>7
    <3>3. At(e, mem', x) = IF Pos(e, x) \div ByteBits \in p1 .. (p1 + m - 1)
                           THEN moved[Pos(BIG, Pos(e, x))] ELSE moved[Pos(e, x)]
      <4> DEFINE d == Pos(e, x)
                 hi == p1 + m
      <4>1. d \in Cells
        BY <3>2
      <4>2. p1 .. (hi - 1) = p1 .. (p1 + m - 1)
        BY <1>4
      <4> HIDE DEF d, hi
      <4>3. ByteReverse(moved, p1, hi)[d] =
              IF d \div ByteBits \in p1 .. (hi - 1) THEN moved[Pos(BIG, d)] ELSE moved[d]
        BY <4>1, ByteReverseCell
      <4>4. mem' = ByteReverse(moved, p1, hi)
        BY <3>1 DEF hi
      <4>5. QED
        BY <4>2, <4>3, <4>4 DEF d, At
    <3>4. Pos(BIG, Pos(e, x)) = Pos(f, x)
      <4>1. x \in Nat
        BY IndicesFacts
      <4>2. CASE e = LITTLE
        BY <1>3, <2>2, <4>2 DEF Pos, Endian
      <4>3. CASE e = BIG
        <5>1. f = LITTLE
          BY <1>3, <2>2, <4>3 DEF Endian
        <5>2. Pos(BIG, Pos(BIG, x)) = x /\ Pos(LITTLE, x) = x
          BY <4>1, PosInvolution DEF Endian, Pos
        <5>3. QED
          BY <4>3, <5>1, <5>2
      <4>4. QED
        BY <1>3, <4>2, <4>3 DEF Endian
    <3>5. CASE Room(p1) <= x /\ x < Room(p1 + m)
      BY <1>3, <1>7, <1>8, <3>3, <3>4, <3>5
    <3>6. CASE ~ (Room(p1) <= x /\ x < Room(p1 + m))
      BY <1>3, <1>7, <1>9, <1>10, <3>3, <3>6
    <3>7. QED
      BY <3>5, <3>6
  <2>3. QED
    BY <2>1, <2>2
<1>12. QED
  BY <1>2, <1>11

\* ones_table holds the first elements of a byte.
LEMMA OnesAt ==
  ASSUME NEW e \in Endian, NEW r \in 0 .. ByteBits, NEW x \in Nat
  PROVE  Pos(e, x) % ByteBits \in Ones(e, r) <=> x % ByteBits < r
<1> DEFINE t == x % ByteBits
           c == Pos(e, x) % ByteBits
<1>1. /\ e = LITTLE => c = t
      /\ e = BIG => c = ByteBits - 1 - t
      /\ t \in 0 .. (ByteBits - 1)
  BY PosPlace
<1> HIDE DEF t, c
<1>2. CASE e = LITTLE
  <2>1. Ones(e, r) = 0 .. (r - 1)
    BY <1>2 DEF Ones
  <2>2. c \in 0 .. (r - 1) <=> t < r
    BY <1>1, <1>2, ByteBitsAssumption
  <2>3. QED
    BY <2>1, <2>2 DEF c, t
<1>3. CASE e = BIG
  <2>1. Ones(e, r) = (ByteBits - r) .. (ByteBits - 1)
    BY <1>3 DEF Ones, LITTLE, BIG
  <2>2. c \in (ByteBits - r) .. (ByteBits - 1) <=> t < r
    BY <1>1, <1>3, ByteBitsAssumption
  <2>3. QED
    BY <2>1, <2>2 DEF c, t
<1>4. QED
  BY <1>2, <1>3 DEF Endian

\* A byte that was saved.
LEMMA ByteAt ==
  ASSUME NEW M, NEW c \in Nat
  PROVE  Byte(M, c \div ByteBits)[c % ByteBits] = M[c]
<1> DEFINE q == c \div ByteBits
           r == c % ByteBits
<1>1. q \in Nat /\ r \in 0 .. (ByteBits - 1) /\ c = ByteBits * q + r
  BY DivMod
<1> HIDE DEF q, r
<1>2. q * ByteBits = ByteBits * q
  BY <1>1, ByteBitsAssumption
<1>3. Byte(M, q)[r] = M[q * ByteBits + r]
  BY <1>1 DEF Byte
<1>4. QED
  BY <1>1, <1>2, <1>3 DEF q, r

-------------------------------------------------------------------------------
(***************************************************************************)
(* The invariant of a call.                                                *)
(***************************************************************************)
\* What copy_n() promises.
RightCopy ==
  CopyN([endian |-> call.endian], SelfMem, call.a,
        [endian |-> call.endian2], OtherMem(SelfMem), call.b, call.n)

\* The units that remain lead from what has been shifted down to byte p1.
ShiftedSoFar(us, M) ==
  \E top \in p1 .. (p2 + 1), pending \in BOOLEAN :
    /\ Chain(us, p1, top, pending)
    /\ ShiftedTo(M, call.endian, MovedTo, top, pending, p2 + 1, sa + sb)

UnitsFit(us) == \A j \in 1 .. Len(us) : Fits(us[j], call.address, p1, p2 + 1)

\* All is in place but for the first sb elements.
EndsLeft(M) ==
  \A x \in Indices :
    /\ x < call.a \/ call.a + call.n <= x =>
         At(call.endian, M, x) = At(call.endian, SelfMem, x)
    /\ call.a <= x /\ call.a + sb <= x /\ x < call.a + call.n =>
         At(call.endian, M, x) = At(call.endian2, OtherMem(SelfMem), call.b + (x - call.a))

ByteSaved(t) == Early => t = Byte(OtherMem(SelfMem), p3 - 1)

CopyInv ==
  /\ call \in Calls
  /\ pc \in {"start", "move", "shift", "ends", "done"}
  /\ IsMemory(mem)
  /\ saved = [t1 |-> saved.t1, t2 |-> saved.t2, t3 |-> saved.t3]
  /\ pc # "shift" => units = <<>>
  /\ pc \in {"start", "move"} => mem = SelfMem
  /\ pc \in {"move", "shift", "ends"} => call.n > 0 /\ ByteSaved(saved.t3)
  /\ pc \in {"move", "shift"} => call.n > sb
  /\ pc = "shift" => /\ saved.t1 = Byte(SelfMem, p1) /\ saved.t2 = Byte(SelfMem, p2)
                     /\ ShiftedSoFar(units, mem) /\ UnitsFit(units)
  /\ pc = "ends" => EndsLeft(mem)
  /\ pc = "done" => mem = RightCopy

\* What depends on the arguments only does not change.
LEMMA SameCall ==
  ASSUME call' = call
  PROVE  /\ p1' = p1 /\ p2' = p2 /\ p3' = p3 /\ sa' = sa /\ sb' = sb
         /\ Early' <=> Early
         /\ OtherMem(SelfMem)' = OtherMem(SelfMem)
         /\ RightCopy' = RightCopy
         /\ ShiftedSoFar(units, mem)' <=> ShiftedSoFar(units', mem')
         /\ UnitsFit(units)' <=> UnitsFit(units')
         /\ EndsLeft(mem)' <=> EndsLeft(mem')
<1>1. /\ sa' = sa /\ (Early' <=> Early) /\ p1' = p1 /\ p2' = p2
  BY DEF sa, Early, p1, p2
<1>2. sb' = sb /\ p3' = p3
  BY <1>1 DEF sb, p3
<1>3. m' = m
  BY <1>2 DEF m
<1>4. OtherMem(SelfMem)' = OtherMem(SelfMem)
  BY DEF OtherMem
<1>5. RightCopy' = RightCopy
  BY <1>4 DEF RightCopy
<1>6. MovedTo' = MovedTo
  BY <1>1, <1>2, <1>3, <1>4 DEF MovedTo
<1>7. ShiftedSoFar(units, mem)' <=> ShiftedSoFar(units', mem')
  BY <1>1, <1>2, <1>6 DEF ShiftedSoFar
<1>8. UnitsFit(units)' <=> UnitsFit(units')
  BY <1>1 DEF UnitsFit
<1>9. EndsLeft(mem)' <=> EndsLeft(mem')
  BY <1>2, <1>4 DEF EndsLeft
<1>10. QED
  BY <1>1, <1>2, <1>4, <1>5, <1>7, <1>8, <1>9

\* The elements of the copy.
LEMMA RightCopyAt ==
  ASSUME call \in Calls, NEW x \in Indices
  PROVE  At(call.endian, RightCopy, x) =
           IF call.a <= x /\ x < call.a + call.n
           THEN At(call.endian2, OtherMem(SelfMem), call.b + (x - call.a))
           ELSE At(call.endian, SelfMem, x)
<1> DEFINE h  == [endian |-> call.endian]
           h2 == [endian |-> call.endian2]
           O  == OtherMem(SelfMem)
           f  == [i \in 0 .. (call.n - 1) |-> GetBit(h2, O, call.b + i)]
<1>1. call.a \in Nat /\ call.n \in Nat /\ call.endian \in Endian
  BY CallFacts
<1>2. x \in Nat
  BY IndicesFacts
<1>3. RightCopy = SetSpan(h, SelfMem, call.a, call.n, f)
  BY DEF RightCopy, CopyN
<1>4. h.endian = call.endian /\ h2.endian = call.endian2
  OBVIOUS
<1>5. ASSUME call.a <= x, x < call.a + call.n
      PROVE  f[x - call.a] = At(call.endian2, O, call.b + (x - call.a))
  <2> DEFINE i == x - call.a
  <2>1. i \in 0 .. (call.n - 1)
    BY <1>1, <1>2, <1>5
  <2> HIDE DEF i, O
  <2>2. f[i] = GetBit(h2, O, call.b + i)
    BY <2>1
  <2>3. QED
    BY <2>2 DEF GetBit, At, i
<1> HIDE DEF h, f
<1>6. At(h.endian, SetSpan(h, SelfMem, call.a, call.n, f), x)
        = Over(call.a, call.n, f, x, At(h.endian, SelfMem, x))
  BY <1>1, <1>4, SpanAt
<1>7. x \in call.a .. (call.a + call.n - 1) <=> call.a <= x /\ x < call.a + call.n
  BY <1>1, <1>2
<1>8. QED
  BY <1>3, <1>4, <1>5, <1>6, <1>7 DEF Over

\* It is memory, and is untouched if there is nothing to copy.
LEMMA NothingToCopy ==
  ASSUME call \in Calls
  PROVE  /\ IsMemory(RightCopy) /\ IsMemory(SelfMem)
         /\ call.n = 0 \/ (call.same /\ call.a = call.b) => RightCopy = SelfMem
<1>1. IsMemory(RightCopy) /\ IsMemory(SelfMem)
  BY DEF IsMemory, RightCopy, CopyN, SetSpan, SelfMem
<1>2. ASSUME call.n = 0 \/ (call.same /\ call.a = call.b) PROVE RightCopy = SelfMem
  <2>1. /\ call.a \in Nat /\ call.n \in Nat /\ call.endian \in Endian
        /\ call.same => call.endian2 = call.endian
    BY CallFacts
  <2>2. ASSUME NEW x \in Indices
        PROVE  At(call.endian, RightCopy, x) = At(call.endian, SelfMem, x)
    <3>1. x \in Nat
      BY IndicesFacts
    <3>2. CASE call.n = 0
      <4>1. ~ (call.a <= x /\ x < call.a + call.n)
        BY <2>1, <3>1, <3>2
      <4>2. QED
        BY <4>1, RightCopyAt
    <3>3. CASE call.same /\ call.a = call.b
      <4>1. OtherMem(SelfMem) = SelfMem
        BY <3>3 DEF OtherMem
      <4>2. call.b + (x - call.a) = x
        BY <2>1, <3>1, <3>3
      <4>3. QED
        BY <2>1, <3>3, <4>1, <4>2, RightCopyAt
    <3>4. QED
      BY <1>2, <3>2, <3>3
  <2>3. QED
    BY <1>1, <2>1, <2>2, SameMemory
<1>3. QED
  BY <1>1, <1>2

\* The elements that are put back: those of byte p1 before a, and those of byte p2
\* from a + n on.
LEMMA KeptPlaces ==
  ASSUME call \in Calls, call.n > 0, NEW x \in Indices
  PROVE  LET c == Pos(call.endian, x)
             r == (call.a + call.n) % ByteBits
             keep2 == IF r = 0 THEN {} ELSE (0 .. (ByteBits - 1)) \ Ones(call.endian, r)
         IN  /\ InByte(c, p1) /\ c % ByteBits \in Ones(call.endian, sa) <=>
                  Room(p1) <= x /\ x < call.a
             /\ InByte(c, p2) /\ c % ByteBits \in keep2 <=>
                  call.a + call.n <= x /\ x < Room(p2 + 1)
<1> DEFINE e == call.endian
           c == Pos(e, x)
           end == call.a + call.n
           r == end % ByteBits
           keep2 == IF r = 0 THEN {} ELSE (0 .. (ByteBits - 1)) \ Ones(e, r)
           s == x % ByteBits
<1>1. e \in Endian /\ call.a \in Nat /\ call.n \in Nat
  BY CallFacts
<1>2. /\ p1 \in Nat /\ p2 \in Nat /\ sa \in 0 .. (ByteBits - 1)
      /\ call.a = Room(p1) + sa
      /\ Room(p2) < end /\ end <= Room(p2 + 1)
  BY Geometry
<1>3. x \in Nat
  BY IndicesFacts
<1>4. Room(p1) \in Nat /\ Room(p2) \in Nat /\ Room(p2 + 1) = Room(p2) + ByteBits
  BY <1>2, RoomFacts
<1>5. c \div ByteBits = x \div ByteBits /\ c % ByteBits \in 0 .. (ByteBits - 1)
  BY <1>1, <1>3, PosInvolution, PosPlace
<1>6. /\ x \div ByteBits = p1 <=> Room(p1) <= x /\ x < Room(p1) + ByteBits
      /\ x \div ByteBits = p2 <=> Room(p2) <= x /\ x < Room(p2) + ByteBits
  BY <1>2, <1>3, ByteIs
<1>7. ASSUME NEW t \in 0 .. ByteBits
      PROVE  c % ByteBits \in Ones(e, t) <=> s < t
  BY <1>1, <1>3, OnesAt
<1>8. s \in 0 .. (ByteBits - 1) /\ x = Room(x \div ByteBits) + s
  BY <1>3, DivMod DEF Room
<1>9. InByte(c, p1) /\ c % ByteBits \in Ones(e, sa) <=> Room(p1) <= x /\ x < call.a
  <2>1. sa \in 0 .. ByteBits
    BY <1>2, ByteBitsAssumption
  <2>2. c % ByteBits \in Ones(e, sa) <=> s < sa
    BY <1>7, <2>1
  <2>3. InByte(c, p1) <=> x \div ByteBits = p1
    BY <1>5 DEF InByte
  <2> HIDE DEF c, s, e
  <2>4. ASSUME x \div ByteBits = p1 PROVE s < sa <=> x < call.a
    <3>1. x = Room(p1) + s
      BY <1>8, <2>4
    <3>2. QED
      BY <1>2, <1>4, <1>8, <3>1, ByteBitsAssumption
  <2>5. Room(p1) <= x /\ x < call.a => x \div ByteBits = p1
    BY <1>2, <1>3, <1>4, <1>6, ByteBitsAssumption
  <2>6. x \div ByteBits = p1 => Room(p1) <= x
    BY <1>6
  <2>7. QED
    BY <2>2, <2>3, <2>4, <2>5, <2>6
<1>10. InByte(c, p2) /\ c % ByteBits \in keep2 <=> end <= x /\ x < Room(p2 + 1)
  <2>1. InByte(c, p2) <=> x \div ByteBits = p2
    BY <1>5 DEF InByte
  <2>2. CASE end = Room(p2 + 1)
    <3>1. r = 0
      <4>1. p2 + 1 \in Nat /\ 0 \in 0 .. (ByteBits - 1)
        BY <1>2, ByteBitsAssumption
      <4>2. (ByteBits * (p2 + 1) + 0) % ByteBits = 0
        BY <4>1, DivUnique
      <4>3. ByteBits * (p2 + 1) + 0 = end
        BY <1>1, <2>2 DEF Room
      <4>4. QED
        BY <4>2, <4>3
    <3>2. keep2 = {}
      BY <3>1
    <3>3. ~ (end <= x /\ x < Room(p2 + 1))
      BY <1>1, <1>3, <2>2
    <3>4. QED
      BY <3>2, <3>3
  <2>3. CASE end # Room(p2 + 1)
    <3> DEFINE t == end - Room(p2)
    <3>1. t \in 0 .. (ByteBits - 1) /\ t > 0 /\ end = Room(p2) + t
      BY <1>1, <1>2, <1>4, <2>3, ByteBitsAssumption
    <3> HIDE DEF t
    <3>2. (Room(p2) + t) % ByteBits = t
      BY <1>2, <3>1, DivUnique DEF Room
    <3>3. r = t
      BY <3>1, <3>2
    <3>4. t \in 0 .. ByteBits /\ t # 0
      BY <3>1, ByteBitsAssumption
    <3>5. c % ByteBits \in Ones(e, t) <=> s < t
      BY <1>7, <3>4
    <3>6. keep2 = (0 .. (ByteBits - 1)) \ Ones(e, t)
      BY <3>3, <3>4
    <3>7. c % ByteBits \in keep2 <=> ~ (s < t)
      BY <1>5, <3>5, <3>6
    <3> HIDE DEF keep2, c, s, e, r, end
    <3>8. ASSUME x \div ByteBits = p2 PROVE ~ (s < t) <=> end <= x
      <4>1. x = Room(p2) + s
        BY <1>8, <3>8
      <4>2. QED
        BY <1>4, <1>8, <3>1, <4>1, ByteBitsAssumption
    <3>9. end <= x /\ x < Room(p2 + 1) => x \div ByteBits = p2
      BY <1>3, <1>4, <1>6, <3>1, ByteBitsAssumption
    <3>10. x \div ByteBits = p2 => x < Room(p2 + 1)
      BY <1>4, <1>6
    <3>11. QED
      BY <2>1, <3>7, <3>8, <3>9, <3>10
  <2>4. QED
    BY <2>2, <2>3
<1>11. QED
  BY <1>9, <1>10

\* Putting back what is saved leaves the first elements only.
LEMMA RestoreAt ==
  ASSUME call \in Calls, call.n > 0, call.n > sb,
         saved.t1 = Byte(SelfMem, p1), saved.t2 = Byte(SelfMem, p2),
         ShiftedTo(mem, call.endian, MovedTo, p1, TRUE, p2 + 1, sa + sb),
         Restore
  PROVE  IsMemory(mem') /\ EndsLeft(mem')
<1> DEFINE e     == call.endian
           r     == (call.a + call.n) % ByteBits
           keep1 == Ones(e, sa)
           keep2 == IF r = 0 THEN {} ELSE (0 .. (ByteBits - 1)) \ Ones(e, r)
           first == [c \in Cells |-> IF InByte(c, p1) /\ c % ByteBits \in keep1
                                     THEN saved.t1[c % ByteBits] ELSE mem[c]]
           end   == call.a + call.n
           k     == sa + sb
<1>1. mem' = [c \in Cells |-> IF InByte(c, p2) /\ c % ByteBits \in keep2
                              THEN saved.t2[c % ByteBits] ELSE first[c]]
  BY DEF Restore
<1>2. IsMemory(mem')
  BY <1>1 DEF IsMemory
<1>3. /\ e \in Endian /\ call.endian2 \in Endian
      /\ call.a \in Nat /\ call.b \in Nat /\ call.n \in Nat
  BY CallFacts
<1>4. /\ p1 \in Nat /\ p2 \in Nat /\ p3 \in Nat /\ p1 <= p2
      /\ sa \in 0 .. (ByteBits - 1) /\ sb \in Int
      /\ k \in 0 .. (ByteBits - 1)
      /\ call.a = Room(p1) + sa
      /\ end <= Room(p2 + 1)
      /\ call.b + sb = Room(p3)
  BY Geometry
<1>5. m \in Nat /\ call.n - sb <= Room(m)
  BY MovedBytes
<1>6. /\ Room(p1) \in Nat /\ Room(p3) \in Nat /\ Room(m) \in Nat /\ Room(p2 + 1) \in Nat
      /\ Room(p1 + m) = Room(p1) + Room(m)
  <2>1. Room(p1) \in Nat /\ Room(p3) \in Nat /\ Room(m) \in Nat /\ Room(p2 + 1) \in Nat
    BY <1>4, <1>5, RoomFacts
  <2>2. Room(p1 + m) = Room(p1) + Room(m)
    BY <1>4, <1>5, RoomAdds
  <2>3. QED
    BY <2>1, <2>2
\* What is in each place.
<1>7. ASSUME NEW x \in Indices
      PROVE  At(e, mem', x) =
               IF end <= x /\ x < Room(p2 + 1) THEN At(e, SelfMem, x)
               ELSE IF Room(p1) <= x /\ x < call.a THEN At(e, SelfMem, x)
               ELSE At(e, mem, x)
  <2> DEFINE c == Pos(e, x)
  <2>1. c \in Cells /\ c \in Nat
    BY <1>3, IndicesFacts
  <2>2. /\ InByte(c, p1) /\ c % ByteBits \in keep1 <=> Room(p1) <= x /\ x < call.a
        /\ InByte(c, p2) /\ c % ByteBits \in keep2 <=> end <= x /\ x < Room(p2 + 1)
    BY KeptPlaces
  <2> HIDE DEF c, keep1, keep2, end
  <2>3. InByte(c, p1) => saved.t1[c % ByteBits] = SelfMem[c]
    BY <2>1, ByteAt DEF InByte
  <2>4. InByte(c, p2) => saved.t2[c % ByteBits] = SelfMem[c]
    BY <2>1, ByteAt DEF InByte
  <2>5. first[c] = IF InByte(c, p1) /\ c % ByteBits \in keep1 THEN saved.t1[c % ByteBits] ELSE mem[c]
    BY <2>1
  <2>6. mem'[c] = IF InByte(c, p2) /\ c % ByteBits \in keep2 THEN saved.t2[c % ByteBits] ELSE first[c]
    BY <1>1, <2>1
  <2> HIDE DEF first, e
  <2>7. QED
    BY <2>2, <2>3, <2>4, <2>5, <2>6 DEF At, c
<1> HIDE DEF k, end
<1>8. ASSUME NEW x \in Indices
      PROVE  At(e, mem, x) = IF x < Room(p1) \/ Room(p2 + 1) <= x THEN MovedTo[x]
                             ELSE IF x < Room(p1) + k THEN Zero ELSE MovedTo[x - k]
  BY DEF ShiftedTo, k
<1>9. ASSUME NEW x \in Indices, x < call.a \/ end <= x
      PROVE  At(e, mem', x) = At(e, SelfMem, x)
  <2>1. x \in Nat
    BY IndicesFacts
  <2>2. CASE x < Room(p1) \/ Room(p2 + 1) <= x
    <3>1. At(e, mem', x) = MovedTo[x]
      <4>1. ~ (end <= x /\ x < Room(p2 + 1)) \/ At(e, SelfMem, x) = MovedTo[x]
        <5>1. CASE x < Room(p1)
          BY <5>1, <2>1, <1>6 DEF MovedTo
        <5>2. CASE Room(p2 + 1) <= x
          BY <5>2, <2>1, <1>6
        <5>3. QED
          BY <2>2, <5>1, <5>2
      <4>2. ~ (Room(p1) <= x /\ x < call.a) \/ At(e, SelfMem, x) = MovedTo[x]
        <5>1. CASE x < Room(p1)
          BY <5>1, <2>1, <1>6
        <5>2. CASE Room(p2 + 1) <= x
          BY <5>2, <2>1, <1>3, <1>4, <1>6 DEF end
        <5>3. QED
          BY <2>2, <5>1, <5>2
      <4>3. At(e, mem, x) = MovedTo[x]
        BY <1>8, <2>2
      <4>4. QED
        BY <1>7, <4>1, <4>2, <4>3
    <3>2. ~ (Room(p1) <= x /\ x < Room(p1 + m))
      <4>1. CASE x < Room(p1)
        BY <4>1, <2>1, <1>6
      <4>2. CASE Room(p2 + 1) <= x
        <5>1. Room(p1 + m) <= Room(p2 + 1)
          BY <1>4, <1>5, MovedBytes, RoomMonotonic
        <5>2. QED
          BY <4>2, <5>1, <2>1, <1>6
      <4>3. QED
        BY <2>2, <4>1, <4>2
    <3>3. QED
      BY <3>1, <3>2 DEF MovedTo
  <2>3. CASE ~ (x < Room(p1) \/ Room(p2 + 1) <= x)
    <3>1. CASE x < call.a
      BY <1>3, <1>6, <1>7, <2>1, <2>3, <3>1
    <3>2. CASE end <= x
      BY <1>6, <1>7, <2>1, <2>3, <3>2
    <3>3. QED
      BY <1>9, <3>1, <3>2
  <2>4. QED
    BY <2>2, <2>3
<1>10. ASSUME NEW x \in Indices, call.a <= x, call.a + sb <= x, x < end
       PROVE  At(e, mem', x) = At(call.endian2, OtherMem(SelfMem), call.b + (x - call.a))
  <2> DEFINE y == x - k
  <2>1. x \in Nat /\ x < Limit /\ Limit \in Nat
    BY IndicesFacts
  <2>2. /\ k \in Nat /\ k = sa + sb /\ end = call.a + call.n /\ sa \in Nat
    BY <1>4 DEF k, end
  <2>3. /\ ~ (end <= x /\ x < Room(p2 + 1)) /\ ~ (Room(p1) <= x /\ x < call.a)
        /\ ~ (x < Room(p1) \/ Room(p2 + 1) <= x) /\ ~ (x < Room(p1) + k)
    BY <1>3, <1>4, <1>6, <1>10, <2>1, <2>2
  <2>4. At(e, mem', x) = MovedTo[y]
    BY <1>7, <1>8, <2>3
  <2>5. /\ y \in Nat /\ y < Limit /\ Room(p1) <= y /\ y < Room(p1 + m)
        /\ y + Room(p3) - Room(p1) = call.b + (x - call.a)
    BY <1>3, <1>4, <1>5, <1>6, <1>10, <2>1, <2>2
  <2> HIDE DEF y
  <2>6. y \in Indices
    BY <2>5, IndicesFacts
  <2>7. MovedTo[y] = At(call.endian2, OtherMem(SelfMem), y + Room(p3) - Room(p1))
    BY <2>5, <2>6 DEF MovedTo
  <2>8. QED
    BY <2>4, <2>5, <2>7
<1>11. EndsLeft(mem')
  BY <1>9, <1>10 DEF EndsLeft, end
<1>12. QED
  BY <1>2, <1>11

\* The first elements come from the byte that is saved.
LEMMA EndsFill ==
  ASSUME call \in Calls, call.n > 0, IsMemory(mem), EndsLeft(mem), ByteSaved(saved.t3), Ends
  PROVE  mem' = RightCopy
<1> DEFINE h == [endian |-> call.endian]
           e == call.endian
           f == call.endian2
           O == OtherMem(SelfMem)
           count == IF sb < call.n THEN sb ELSE call.n
           g == [i \in 0 .. (count - 1) |-> saved.t3[Pos(f, call.b + i) % ByteBits]]
<1>1. mem' = SetSpan(h, mem, call.a, count, g)
  BY DEF Ends
<1>2. IsMemory(mem')
  BY <1>1 DEF IsMemory, SetSpan
<1>3. /\ e \in Endian /\ f \in Endian /\ h.endian = e
      /\ call.a \in Nat /\ call.b \in Nat /\ call.n \in Nat
  BY CallFacts
<1>4. /\ sb \in Int /\ p3 \in Nat /\ call.b + sb = Room(p3)
      /\ Early => call.b >= Room(p3 - 1) /\ p3 >= 1
      /\ ~Early => sb <= 0
  BY Geometry
<1>5. count \in Int /\ count <= call.n /\ count <= sb /\ (count = sb \/ count = call.n)
  BY <1>3, <1>4
<1>6. ASSUME NEW i \in 0 .. (count - 1)
      PROVE  g[i] = At(f, O, call.b + i)
  <2> DEFINE y == call.b + i
             c == Pos(f, y)
  <2>1. i \in Nat /\ i < sb /\ y \in Nat
    BY <1>3, <1>4, <1>5
  <2>2. Early
    BY <1>4, <2>1
  <2>3. g[i] = saved.t3[c % ByteBits]
    OBVIOUS
  <2>4. saved.t3 = Byte(O, p3 - 1)
    BY <2>2 DEF ByteSaved
  <2> HIDE DEF c, y, g, O
  <2>5. c \in Nat /\ c \div ByteBits = y \div ByteBits
    BY <1>3, <2>1, PosInvolution DEF c
  <2>6. y \div ByteBits = p3 - 1
    <3> DEFINE q == p3 - 1
    <3>1. q \in Nat /\ q + 1 = p3
      BY <1>4, <2>2
    <3> HIDE DEF q
    <3>2. Room(q) \in Nat /\ Room(q + 1) = Room(q) + ByteBits
      BY <3>1, RoomFacts
    <3>3. Room(q) <= y /\ y < Room(q) + ByteBits
      <4>1. call.b >= Room(q)
        BY <1>4, <2>2 DEF q
      <4>2. y < Room(p3)
        BY <1>3, <1>4, <2>1 DEF y
      <4>3. QED
        BY <1>3, <2>1, <3>1, <3>2, <4>1, <4>2, ByteBitsAssumption DEF y
    <3>4. y \div ByteBits = q
      BY <2>1, <3>1, <3>3, ByteIs
    <3>5. QED
      BY <3>4 DEF q
  <2>7. Byte(O, c \div ByteBits)[c % ByteBits] = O[c]
    BY <2>5, ByteAt
  <2>8. QED
    BY <2>3, <2>4, <2>5, <2>6, <2>7 DEF At, c, y
<1>7. ASSUME NEW x \in Indices
      PROVE  At(e, mem', x) = At(e, RightCopy, x)
  <2>1. x \in Nat
    BY IndicesFacts
  <2> HIDE DEF g, O, count, h
  <2>2. At(h.endian, SetSpan(h, mem, call.a, count, g), x)
          = Over(call.a, count, g, x, At(h.endian, mem, x))
    BY <1>3, SpanAt
  <2>3. At(e, mem', x) = IF x \in call.a .. (call.a + count - 1) THEN g[x - call.a] ELSE At(e, mem, x)
    BY <1>1, <1>3, <2>2 DEF Over
  <2>4. At(e, RightCopy, x) = IF call.a <= x /\ x < call.a + call.n
                              THEN At(f, O, call.b + (x - call.a)) ELSE At(e, SelfMem, x)
    BY RightCopyAt DEF O
  <2>5. CASE x \in call.a .. (call.a + count - 1)
    <3> DEFINE i == x - call.a
    <3>1. i \in 0 .. (count - 1) /\ call.a <= x /\ x < call.a + call.n
      BY <1>3, <1>5, <2>1, <2>5
    <3> HIDE DEF i
    <3>2. g[i] = At(f, O, call.b + i)
      BY <1>6, <3>1
    <3>3. QED
      BY <2>3, <2>4, <2>5, <3>1, <3>2 DEF i
  <2>6. CASE x \notin call.a .. (call.a + count - 1)
    <3>1. At(e, mem', x) = At(e, mem, x)
      BY <2>3, <2>6
    <3>2. CASE x < call.a \/ call.a + call.n <= x
      <4>1. At(e, mem, x) = At(e, SelfMem, x)
        BY <3>2 DEF EndsLeft
      <4>2. QED
        BY <1>3, <2>1, <2>4, <3>1, <3>2, <4>1
    <3>3. CASE ~ (x < call.a \/ call.a + call.n <= x)
      <4>1. call.a <= x /\ call.a + sb <= x /\ x < call.a + call.n
        BY <1>3, <1>4, <1>5, <2>1, <2>6, <3>3
      <4>2. At(e, mem, x) = At(f, O, call.b + (x - call.a))
        BY <4>1 DEF EndsLeft, O
      <4>3. QED
        BY <2>4, <3>1, <4>1, <4>2
    <3>4. QED
      BY <3>2, <3>3
  <2>7. QED
    BY <2>5, <2>6
<1>8. QED
  BY <1>2, <1>3, <1>7, NothingToCopy, SameMemory

-------------------------------------------------------------------------------
(***************************************************************************)
(* The steps of a call.                                                    *)
(***************************************************************************)
\* The bytes of self as they were, if other is self, or those of other.
LEMMA OtherFromSelf ==
  ASSUME mem = SelfMem
  PROVE  OtherMem(mem) = OtherMem(SelfMem)
BY DEF OtherMem

\* Start: nothing to do, or t3 is saved.
LEMMA StartKeeps ==
  ASSUME CopyInv, Start
  PROVE  CopyInv'
<1>1. /\ call \in Calls /\ pc = "start" /\ IsMemory(mem) /\ mem = SelfMem
      /\ saved = [t1 |-> saved.t1, t2 |-> saved.t2, t3 |-> saved.t3] /\ units = <<>>
  BY DEF CopyInv, Start
<1>2. call' = call /\ mem' = mem /\ units' = units
  BY DEF Start
<1>3. /\ Early' <=> Early
      /\ p3' = p3 /\ sb' = sb /\ OtherMem(SelfMem)' = OtherMem(SelfMem) /\ RightCopy' = RightCopy
      /\ EndsLeft(mem)' <=> EndsLeft(mem')
  BY <1>2, SameCall
<1>4. SelfMem' = SelfMem
  BY DEF SelfMem
<1>5. CASE call.n = 0 \/ (call.same /\ call.a = call.b)
  <2>1. pc' = "done" /\ saved' = saved
    BY <1>5 DEF Start
  <2>2. RightCopy = SelfMem
    BY <1>1, <1>5, NothingToCopy
  <2>3. QED
    BY <1>1, <1>2, <1>3, <2>1, <2>2 DEF CopyInv, IsMemory
<1>6. CASE ~ (call.n = 0 \/ (call.same /\ call.a = call.b))
  <2>1. /\ pc' = (IF call.n > sb THEN "move" ELSE "ends")
        /\ saved' = IF Early THEN [saved EXCEPT !.t3 = Byte(OtherMem(mem), p3 - 1)] ELSE saved
    BY <1>6 DEF Start
  <2>2. /\ saved' = [t1 |-> saved'.t1, t2 |-> saved'.t2, t3 |-> saved'.t3]
        /\ Early => saved'.t3 = Byte(OtherMem(mem), p3 - 1)
    BY <1>1, <2>1
  <2>3. call.n \in Nat /\ call.a \in Nat /\ call.n > 0
    BY <1>1, <1>6, CallFacts
  <2>4. OtherMem(mem) = OtherMem(SelfMem)
    BY <1>1, OtherFromSelf
  <2>5. ByteSaved(saved.t3)'
    BY <1>3, <2>2, <2>4 DEF ByteSaved
  <2>6. call.n > sb \/ ~ (call.n > sb)
    OBVIOUS
  <2>7. CASE ~ (call.n > sb)
    <3>1. sb \in Int
      BY <1>1, <2>3, Geometry
    <3>2. EndsLeft(mem')
      <4>1. ASSUME NEW x \in Indices
            PROVE  /\ At(call.endian, mem', x) = At(call.endian, SelfMem, x)
                   /\ ~ (call.a <= x /\ call.a + sb <= x /\ x < call.a + call.n)
        <5>1. x \in Nat
          BY IndicesFacts
        <5>2. QED
          BY <1>1, <1>2, <2>3, <2>7, <3>1, <5>1
      <4>2. QED
        BY <4>1 DEF EndsLeft
    <3>3. pc' = "ends"
      BY <2>1, <2>7
    <3>4. QED
      BY <1>1, <1>2, <1>3, <2>2, <2>3, <2>5, <3>2, <3>3 DEF CopyInv, IsMemory
  <2>8. CASE call.n > sb
    <3>1. pc' = "move"
      BY <2>1, <2>8
    <3>2. QED
      BY <1>1, <1>2, <1>3, <1>4, <2>2, <2>3, <2>5, <2>8, <3>1 DEF CopyInv, IsMemory
  <2>9. QED
    BY <2>7, <2>8
<1>7. QED
  BY <1>5, <1>6

\* Move: whole bytes are near their place, and all of the shift is left to do.
LEMMA MoveKeeps ==
  ASSUME CopyInv, Move
  PROVE  CopyInv'
<1>1. /\ call \in Calls /\ pc = "move" /\ mem = SelfMem /\ call.n > 0 /\ call.n > sb
      /\ saved = [t1 |-> saved.t1, t2 |-> saved.t2, t3 |-> saved.t3]
      /\ ByteSaved(saved.t3)
  BY DEF CopyInv, Move
<1>2. /\ call' = call /\ pc' = "shift"
      /\ units' = ShiftUnits(call.address, p1, p2 + 1, sa + sb)
      /\ saved' = [saved EXCEPT !.t1 = Byte(mem, p1), !.t2 = Byte(mem, p2)]
  BY DEF Move
<1>3. /\ Early' <=> Early
      /\ p1' = p1 /\ p2' = p2 /\ p3' = p3 /\ sb' = sb
      /\ OtherMem(SelfMem)' = OtherMem(SelfMem)
      /\ ShiftedSoFar(units, mem)' <=> ShiftedSoFar(units', mem')
      /\ UnitsFit(units)' <=> UnitsFit(units')
  BY <1>2, SameCall
<1>4. SelfMem' = SelfMem
  BY DEF SelfMem
<1>5. /\ saved' = [t1 |-> saved'.t1, t2 |-> saved'.t2, t3 |-> saved'.t3]
      /\ saved'.t1 = Byte(SelfMem, p1) /\ saved'.t2 = Byte(SelfMem, p2)
      /\ saved'.t3 = saved.t3
  BY <1>1, <1>2
<1>6. ByteSaved(saved.t3)'
  BY <1>1, <1>3, <1>5 DEF ByteSaved
<1>7. IsMemory(mem') /\ \A x \in Indices : At(call.endian, mem', x) = MovedTo[x]
  BY <1>1, MoveAt
<1>8. /\ p1 \in Nat /\ p2 \in Nat /\ p1 <= p2 /\ sa + sb \in 0 .. (ByteBits - 1)
  BY <1>1, Geometry
<1>9. call.address \in Nat
  BY <1>1, CallFacts
<1> DEFINE hi == p2 + 1
           k  == sa + sb
<1>10. hi \in Nat /\ p1 < hi /\ p1 \in p1 .. hi /\ hi \in p1 .. hi /\ k \in 0 .. (ByteBits - 1)
  BY <1>8
<1>11. Room(p1) \in Nat /\ Room(hi) \in Nat
  BY <1>8, <1>10, RoomFacts
<1> HIDE DEF hi, k
<1>12. units' = IF k = 0 THEN <<>> ELSE PartUnits(call.address, p1, hi)
  BY <1>2, <1>8, <1>10 DEF ShiftUnits, hi, k
<1>13. CASE k = 0
  <2>1. units' = <<>>
    BY <1>12, <1>13
  <2>2. Chain(units', p1, p1, TRUE)
    BY <2>1, EmptySeq DEF Chain
  <2>3. ShiftedTo(mem', call.endian, MovedTo, p1, TRUE, hi, k)
    <3>1. ASSUME NEW x \in Indices, ~ (x < Room(p1) \/ Room(hi) <= x)
          PROVE  ~ (x < Room(p1) + k) /\ x - k = x
      <4>1. x \in Nat
        BY IndicesFacts
      <4>2. QED
        BY <1>11, <1>13, <3>1, <4>1
    <3>2. QED
      BY <1>7, <3>1 DEF ShiftedTo
  <2>4. ShiftedSoFar(units', mem')
    BY <1>10, <2>2, <2>3 DEF ShiftedSoFar, hi, k
  <2>5. UnitsFit(units')
    BY <2>1, EmptySeq DEF UnitsFit
  <2>6. QED
    BY <1>1, <1>2, <1>3, <1>4, <1>5, <1>6, <1>7, <2>4, <2>5 DEF CopyInv
<1>14. CASE k # 0
  <2>1. units' = PartUnits(call.address, p1, hi)
    BY <1>12, <1>14
  <2>2. /\ Chain(units', p1, hi, FALSE)
        /\ \A j \in 1 .. Len(units') : Fits(units'[j], call.address, p1, hi)
    BY <1>8, <1>9, <1>10, <2>1, PartUnitsFacts
  <2>3. ShiftedTo(mem', call.endian, MovedTo, hi, FALSE, hi, k)
    <3>1. ASSUME NEW x \in Indices
          PROVE  x < Room(hi) \/ Room(hi) <= x
      <4>1. x \in Nat
        BY IndicesFacts
      <4>2. QED
        BY <1>11, <4>1
    <3>2. QED
      BY <1>7, <3>1 DEF ShiftedTo
  <2>4. ShiftedSoFar(units', mem')
    BY <1>10, <2>2, <2>3 DEF ShiftedSoFar, hi, k
  <2>5. UnitsFit(units')
    BY <2>2 DEF UnitsFit, hi
  <2>6. QED
    BY <1>1, <1>2, <1>3, <1>4, <1>5, <1>6, <1>7, <2>4, <2>5 DEF CopyInv
<1>15. QED
  BY <1>13, <1>14

\* Shift: one unit further down.
LEMMA ShiftKeeps ==
  ASSUME CopyInv, Shift
  PROVE  CopyInv'
<1>1. /\ call \in Calls /\ pc = "shift" /\ units # <<>> /\ call.n > 0 /\ call.n > sb
      /\ saved = [t1 |-> saved.t1, t2 |-> saved.t2, t3 |-> saved.t3]
      /\ saved.t1 = Byte(SelfMem, p1) /\ saved.t2 = Byte(SelfMem, p2)
      /\ ByteSaved(saved.t3)
      /\ IsMemory(mem) /\ ShiftedSoFar(units, mem) /\ UnitsFit(units)
  BY DEF CopyInv, Shift
<1>2. /\ call' = call /\ pc' = pc /\ saved' = saved /\ units' = Tail(units)
      /\ mem' = ShiftUnit(mem, call.endian, Head(units), sa + sb)
  BY DEF Shift
<1>3. /\ Early' <=> Early
      /\ p1' = p1 /\ p2' = p2 /\ p3' = p3 /\ sb' = sb
      /\ OtherMem(SelfMem)' = OtherMem(SelfMem)
      /\ ShiftedSoFar(units, mem)' <=> ShiftedSoFar(units', mem')
      /\ UnitsFit(units)' <=> UnitsFit(units')
  BY <1>2, SameCall
<1>4. SelfMem' = SelfMem
  BY DEF SelfMem
<1>5. PICK top \in p1 .. (p2 + 1), pending \in BOOLEAN :
        /\ Chain(units, p1, top, pending)
        /\ ShiftedTo(mem, call.endian, MovedTo, top, pending, p2 + 1, sa + sb)
  BY <1>1 DEF ShiftedSoFar
<1> DEFINE u == units[1]
           hi == p2 + 1
           k == sa + sb
<1>6. /\ p1 \in Nat /\ p2 \in Nat /\ p1 <= p2 /\ k \in 0 .. (ByteBits - 1)
      /\ Room(hi) <= Limit /\ hi \in Nat
  BY <1>1, Geometry
<1>7. call.endian \in Endian
  BY <1>1, CallFacts
<1>8. units \in Seq(AnyUnit)
  BY <1>5 DEF Chain
<1>9. u \in AnyUnit /\ 1 \in 1 .. Len(units) /\ Head(units) = u
  BY <1>1, <1>8
<1>10. /\ u \in AnyUnit /\ Starts(u, top, pending)
       /\ Chain(Tail(units), p1, u.at, ~u.carry)
  BY <1>1, <1>5, ChainTail
<1>11. Fits(u, call.address, p1, hi)
  BY <1>1, <1>9 DEF UnitsFit
<1> HIDE DEF u, hi, k
<1>12. u.at \in Nat /\ u.carry \in BOOLEAN /\ top \in Nat /\ top <= hi
  <2>1. u.at \in Nat /\ u.carry \in BOOLEAN
    BY <1>10 DEF AnyUnit
  <2>2. top \in Nat /\ top <= hi
    BY <1>5, <1>6 DEF hi
  <2>3. QED
    BY <2>1, <2>2
<1>13. p1 <= u.at /\ u.at < hi /\ (u.carry => u.at > 0)
  BY <1>6, <1>11, <1>12 DEF Fits
<1>14. ShiftedTo(mem, call.endian, MovedTo, top, pending, hi, k)
  BY <1>5 DEF hi, k
<1>15. ShiftedTo(ShiftUnit(mem, call.endian, u, k), call.endian, MovedTo, u.at, ~u.carry, hi, k)
  BY <1>6, <1>7, <1>10, <1>12, <1>13, <1>14, ShiftStep
<1>16. mem' = ShiftUnit(mem, call.endian, u, k)
  BY <1>2, <1>9 DEF k
<1>17. IsMemory(mem')
  <2> DEFINE S == ShiftBlock(mem, call.endian, u.at, u.width, k)
  <2>1. mem' = IF u.carry THEN AddCarry(S, call.endian, u.at, k) ELSE S
    BY <1>16 DEF ShiftUnit
  <2>2. IsMemory(S)
    BY DEF IsMemory, ShiftBlock
  <2> HIDE DEF S
  <2>3. IsMemory(AddCarry(S, call.endian, u.at, k))
    BY DEF IsMemory, AddCarry
  <2>4. CASE u.carry
    BY <2>1, <2>3, <2>4
  <2>5. CASE ~u.carry
    BY <2>1, <2>2, <2>5
  <2>6. QED
    BY <2>4, <2>5
<1>18. ShiftedSoFar(units', mem')
  <2>1. u.at \in p1 .. (p2 + 1) /\ (~u.carry) \in BOOLEAN
    BY <1>6, <1>12, <1>13 DEF hi
  <2>2. Chain(units', p1, u.at, ~u.carry)
    BY <1>2, <1>10
  <2>3. ShiftedTo(mem', call.endian, MovedTo, u.at, ~u.carry, p2 + 1, sa + sb)
    BY <1>15, <1>16 DEF hi, k
  <2>4. QED
    BY <2>1, <2>2, <2>3 DEF ShiftedSoFar
<1>19. UnitsFit(units')
  <2>1. Len(Tail(units)) = Len(units) - 1 /\ Len(units) \in Nat
    BY <1>1, <1>8
  <2>2. ASSUME NEW j \in 1 .. Len(Tail(units))
        PROVE  Fits(Tail(units)[j], call.address, p1, p2 + 1)
    <3>1. Tail(units)[j] = units[j + 1] /\ j + 1 \in 1 .. Len(units)
      BY <1>1, <1>8, <2>1
    <3>2. QED
      BY <1>1, <3>1 DEF UnitsFit
  <2>3. QED
    BY <1>2, <2>2 DEF UnitsFit
<1>20. ByteSaved(saved.t3)'
  BY <1>1, <1>2, <1>3 DEF ByteSaved
<1>21. QED
  BY <1>1, <1>2, <1>3, <1>4, <1>17, <1>18, <1>19, <1>20 DEF CopyInv

\* Restore: when no unit is left, the shift has come down to byte p1.
LEMMA RestoreKeeps ==
  ASSUME CopyInv, Restore
  PROVE  CopyInv'
<1>1. /\ call \in Calls /\ pc = "shift" /\ units = <<>> /\ call.n > 0 /\ call.n > sb
      /\ saved = [t1 |-> saved.t1, t2 |-> saved.t2, t3 |-> saved.t3]
      /\ saved.t1 = Byte(SelfMem, p1) /\ saved.t2 = Byte(SelfMem, p2)
      /\ ByteSaved(saved.t3) /\ ShiftedSoFar(units, mem)
  BY DEF CopyInv, Restore
<1>2. call' = call /\ pc' = "ends" /\ saved' = saved /\ units' = units
  BY DEF Restore
<1>3. /\ Early' <=> Early
      /\ p3' = p3 /\ OtherMem(SelfMem)' = OtherMem(SelfMem)
      /\ EndsLeft(mem)' <=> EndsLeft(mem')
  BY <1>2, SameCall
<1>4. ShiftedTo(mem, call.endian, MovedTo, p1, TRUE, p2 + 1, sa + sb)
  <2>1. PICK top \in p1 .. (p2 + 1), pending \in BOOLEAN :
          /\ Chain(units, p1, top, pending)
          /\ ShiftedTo(mem, call.endian, MovedTo, top, pending, p2 + 1, sa + sb)
    BY <1>1 DEF ShiftedSoFar
  <2>2. top = p1 /\ pending
    BY <1>1, <2>1 DEF Chain
  <2>3. QED
    BY <2>1, <2>2 DEF ShiftedTo
<1>5. IsMemory(mem') /\ EndsLeft(mem')
  BY <1>1, <1>4, RestoreAt
<1>6. ByteSaved(saved.t3)'
  BY <1>1, <1>2, <1>3 DEF ByteSaved
<1>7. QED
  BY <1>1, <1>2, <1>3, <1>5, <1>6 DEF CopyInv

\* Ends: the copy is complete.
LEMMA EndsKeeps ==
  ASSUME CopyInv, Ends
  PROVE  CopyInv'
<1>1. /\ call \in Calls /\ pc = "ends" /\ units = <<>> /\ call.n > 0 /\ IsMemory(mem)
      /\ saved = [t1 |-> saved.t1, t2 |-> saved.t2, t3 |-> saved.t3]
      /\ ByteSaved(saved.t3) /\ EndsLeft(mem)
  BY DEF CopyInv, Ends
<1>2. call' = call /\ pc' = "done" /\ saved' = saved /\ units' = units
  BY DEF Ends
<1>3. RightCopy' = RightCopy
  BY <1>2, SameCall
<1>4. mem' = RightCopy
  BY <1>1, EndsFill
<1>5. IsMemory(mem')
  BY <1>1, <1>4, NothingToCopy
<1>6. QED
  BY <1>1, <1>2, <1>3, <1>4, <1>5 DEF CopyInv

\* Nothing happens.
LEMMA StutterKeeps ==
  ASSUME CopyInv, UNCHANGED copyvars
  PROVE  CopyInv'
<1>1. call' = call /\ pc' = pc /\ mem' = mem /\ units' = units /\ saved' = saved
  BY DEF copyvars
<1>2. /\ p1' = p1 /\ p2' = p2 /\ p3' = p3 /\ sb' = sb
      /\ Early' <=> Early
      /\ OtherMem(SelfMem)' = OtherMem(SelfMem) /\ RightCopy' = RightCopy
      /\ ShiftedSoFar(units, mem)' <=> ShiftedSoFar(units', mem')
      /\ UnitsFit(units)' <=> UnitsFit(units')
      /\ EndsLeft(mem)' <=> EndsLeft(mem')
  BY <1>1, SameCall
<1>3. SelfMem' = SelfMem
  BY DEF SelfMem
<1>4. ByteSaved(saved.t3)' <=> ByteSaved(saved.t3)
  BY <1>1, <1>2 DEF ByteSaved
<1>5. /\ ShiftedSoFar(units', mem') <=> ShiftedSoFar(units, mem)
      /\ UnitsFit(units') <=> UnitsFit(units)
      /\ EndsLeft(mem') <=> EndsLeft(mem)
      /\ IsMemory(mem') <=> IsMemory(mem)
  BY <1>1
<1>6. QED
  BY <1>1, <1>2, <1>3, <1>4, <1>5 DEF CopyInv

-------------------------------------------------------------------------------
(***************************************************************************)
(* Every call, for every width of bytes and words, alignment and length.   *)
(***************************************************************************)
\* At the start nothing has been done.
LEMMA CopyInvInit ==
  CInit => CopyInv
<1>1. SUFFICES ASSUME CInit PROVE CopyInv
  OBVIOUS
<1>2. /\ call \in Calls /\ pc = "start" /\ mem = SelfMem /\ units = <<>>
      /\ saved = [t1 |-> NoByte, t2 |-> NoByte, t3 |-> NoByte]
  BY <1>1 DEF CInit
<1>3. IsMemory(mem)
  BY <1>2, NothingToCopy
<1>4. saved = [t1 |-> saved.t1, t2 |-> saved.t2, t3 |-> saved.t3]
  BY <1>2
<1>5. QED
  BY <1>2, <1>3, <1>4 DEF CopyInv

\* Every part of copy_n() and shift_r8() keeps the invariant.
LEMMA CopyInvNext ==
  CopyInv /\ [CNext]_copyvars => CopyInv'
<1>1. SUFFICES ASSUME CopyInv, [CNext]_copyvars PROVE CopyInv'
  OBVIOUS
<1>2. CASE Start
  BY <1>1, <1>2, StartKeeps
<1>3. CASE Move
  BY <1>1, <1>3, MoveKeeps
<1>4. CASE Shift
  BY <1>1, <1>4, ShiftKeeps
<1>5. CASE Restore
  BY <1>1, <1>5, RestoreKeeps
<1>6. CASE Ends
  BY <1>1, <1>6, EndsKeeps
<1>7. CASE Done
  BY <1>1, <1>7, StutterKeeps DEF Done
<1>8. CASE UNCHANGED copyvars
  BY <1>1, <1>8, StutterKeeps
<1>9. QED
  BY <1>1, <1>2, <1>3, <1>4, <1>5, <1>6, <1>7, <1>8 DEF CNext

\* Outside of the bytes p1 .. p2 the invariant leaves nothing open.
LEMMA OutsideUntouched ==
  ASSUME CopyInv, NEW x \in Indices, x < Room(p1) \/ Room(p2 + 1) <= x, call.n > 0
  PROVE  At(call.endian, mem, x) = At(call.endian, SelfMem, x)
<1> DEFINE e == call.endian
<1>1. call \in Calls /\ pc \in {"start", "move", "shift", "ends", "done"}
  BY DEF CopyInv
<1>2. /\ p1 \in Nat /\ p2 \in Nat /\ p1 <= p2 /\ sa \in 0 .. (ByteBits - 1)
      /\ call.a = Room(p1) + sa /\ call.a + call.n <= Room(p2 + 1)
  BY <1>1, Geometry
<1>3. call.a \in Nat /\ call.n \in Nat /\ x \in Nat /\ e \in Endian
  BY <1>1, CallFacts, IndicesFacts
<1>4. Room(p1) \in Nat /\ Room(p2 + 1) \in Nat /\ p2 + 1 \in Nat /\ sa \in Nat
  BY <1>2, RoomFacts
<1>5. x < call.a \/ call.a + call.n <= x
  BY <1>2, <1>3, <1>4
<1>6. CASE pc \in {"start", "move"}
  BY <1>6 DEF CopyInv
<1>7. CASE pc = "shift"
  <2>1. PICK top \in p1 .. (p2 + 1), pending \in BOOLEAN :
          ShiftedTo(mem, e, MovedTo, top, pending, p2 + 1, sa + sb)
    BY <1>7 DEF CopyInv, ShiftedSoFar
  <2>2. top \in Nat /\ p1 <= top /\ top <= p2 + 1
    BY <1>2, <2>1
  <2>3. Room(p1) <= Room(top) /\ Room(top) \in Nat
    BY <1>2, <2>2, RoomMonotonic, RoomFacts
  <2>4. x < Room(top) \/ Room(p2 + 1) <= x
    BY <1>3, <1>4, <2>3
  <2>5. At(e, mem, x) = MovedTo[x]
    BY <2>1, <2>4 DEF ShiftedTo
  <2>6. m \in Nat /\ p1 + m <= p2 + 1
    BY <1>1, <1>7, MovedBytes DEF CopyInv
  <2>7. ~ (Room(p1) <= x /\ x < Room(p1 + m))
    <3> DEFINE j == p1 + m
    <3>1. j \in Nat /\ j <= p2 + 1
      BY <1>2, <2>6
    <3> HIDE DEF j
    <3>2. Room(j) \in Nat /\ Room(j) <= Room(p2 + 1)
      BY <1>4, <3>1, RoomFacts, RoomMonotonic
    <3>3. ~ (Room(p1) <= x /\ x < Room(j))
      BY <1>3, <1>4, <3>2
    <3>4. QED
      BY <3>3 DEF j
  <2>8. QED
    BY <2>5, <2>7 DEF MovedTo
<1>8. CASE pc = "ends"
  BY <1>5, <1>8 DEF CopyInv, EndsLeft
<1>9. CASE pc = "done"
  <2>1. mem = RightCopy
    BY <1>9 DEF CopyInv
  <2>2. ~ (call.a <= x /\ x < call.a + call.n)
    BY <1>3, <1>5
  <2>3. QED
    BY <1>1, <2>1, <2>2, RightCopyAt
<1>10. QED
  BY <1>1, <1>6, <1>7, <1>8, <1>9

\* The assertions of copy_n() and shift_r8() follow from the invariant.
LEMMA AccessesFollow ==
  CopyInv => AccessesInBounds
<1>1. SUFFICES ASSUME CopyInv PROVE AccessesInBounds
  OBVIOUS
<1>2. call \in Calls
  BY <1>1 DEF CopyInv
<1>3. pc = "move" => /\ p1 + m <= BYTES(call.nbits) /\ p3 + m <= BYTES(call.nbits2)
                     /\ p2 < BYTES(call.nbits)
  <2>1. SUFFICES ASSUME pc = "move"
                 PROVE  /\ p1 + m <= BYTES(call.nbits) /\ p3 + m <= BYTES(call.nbits2)
                        /\ p2 < BYTES(call.nbits)
    OBVIOUS
  <2>2. call.n > 0 /\ call.n > sb
    BY <1>1, <2>1 DEF CopyInv
  <2>3. m \in Nat /\ p1 + m <= p2 + 1 /\ p3 + m <= BYTES(call.nbits2)
    BY <1>2, <2>2, MovedBytes
  <2>4. p1 \in Nat /\ p2 \in Nat /\ p2 + 1 <= BYTES(call.nbits) /\ BYTES(call.nbits) \in Nat
    BY <1>2, <2>2, Geometry
  <2>5. QED
    BY <2>3, <2>4
<1>4. ASSUME NEW u \in Range(units)
      PROVE  /\ u.at + u.width <= BYTES(call.nbits)
             /\ u.width = WordBytes /\ WordBytes > 1 => (call.address + u.at) % Alignment = 0
             /\ u.carry => u.at > 0
  <2>1. units # <<>>
    <3>1. SUFFICES ASSUME units = <<>> PROVE FALSE
      OBVIOUS
    <3>2. QED
      BY <1>4, <3>1, EmptySeq DEF Range
  <2>2. pc = "shift" /\ call.n > 0 /\ ShiftedSoFar(units, mem) /\ UnitsFit(units)
    BY <1>1, <2>1 DEF CopyInv
  <2>3. units \in Seq(AnyUnit)
    BY <2>2 DEF ShiftedSoFar, Chain
  <2>4. PICK j \in 1 .. Len(units) : u = units[j]
    BY <1>4, <2>3 DEF Range
  <2>5. u \in AnyUnit
    BY <2>3, <2>4
  <2>6. Fits(u, call.address, p1, p2 + 1)
    BY <2>2, <2>4 DEF UnitsFit
  <2>7. u.at \in Nat /\ u.width \in Nat /\ u.carry \in BOOLEAN
    BY <2>5 DEF AnyUnit
  <2>8. p1 \in Nat /\ p2 \in Nat /\ p2 + 1 <= BYTES(call.nbits) /\ BYTES(call.nbits) \in Nat
    BY <1>2, <2>2, Geometry
  <2>9. /\ p1 <= u.at /\ u.at + u.width <= p2 + 1
        /\ u.carry => p1 < u.at
        /\ u.width = WordBytes /\ WordBytes > 1 => (call.address + u.at) % Alignment = 0
    BY <2>6 DEF Fits
  <2>10. u.at + u.width <= BYTES(call.nbits)
    BY <2>7, <2>8, <2>9
  <2>11. u.carry => u.at > 0
    BY <2>7, <2>8, <2>9
  <2>12. QED
    BY <2>9, <2>10, <2>11
<1>5. ASSUME NEW c \in Cells,
             c \div ByteBits \notin (call.a \div ByteBits) .. ((call.a + call.n - 1) \div ByteBits)
      PROVE  mem[c] = SelfMem[c]
  <2> DEFINE e == call.endian
             x == Pos(e, c)
  <2>1. e \in Endian /\ call.n \in Nat
    BY <1>2, CallFacts
  <2>2. c \in Nat
    BY IndicesFacts
  <2>3. x \in Indices /\ At(e, mem, x) = mem[c] /\ At(e, SelfMem, x) = SelfMem[c]
    BY <2>1, AtCells
  <2>4. x \in Nat /\ x \div ByteBits = c \div ByteBits
    BY <2>1, <2>2, PosInvolution
  <2> HIDE DEF x
  <2>5. CASE call.n > 0
    <3>1. p1 \in Nat /\ p2 \in Nat /\ p1 <= p2
      BY <1>2, <2>5, Geometry
    <3> DEFINE j == p2 + 1
    <3>2. j \in Nat /\ p1 .. (j - 1) = p1 .. p2
      BY <3>1
    <3>3. c \div ByteBits \notin p1 .. p2
      BY <1>5 DEF p1, p2
    <3> HIDE DEF j
    <3>4. ~ (Room(p1) <= x /\ x < Room(j))
      BY <2>4, <3>1, <3>2, <3>3, BytesBetween
    <3>5. Room(p1) \in Nat /\ Room(j) \in Nat
      BY <3>1, <3>2, RoomFacts
    <3>6. x < Room(p1) \/ Room(j) <= x
      BY <2>4, <3>4, <3>5
    <3>7. At(e, mem, x) = At(e, SelfMem, x)
      BY <1>1, <2>3, <2>5, <3>6, OutsideUntouched DEF j
    <3>8. QED
      BY <2>3, <3>7
  <2>6. CASE call.n = 0
    <3>1. RightCopy = SelfMem
      BY <1>2, <2>6, NothingToCopy
    <3>2. pc \in {"start", "move", "shift", "ends", "done"} /\ ~ (call.n > 0)
      BY <1>1, <2>6 DEF CopyInv
    <3>3. mem = SelfMem
      BY <1>1, <3>1, <3>2 DEF CopyInv
    <3>4. QED
      BY <3>3
  <2>7. QED
    BY <2>1, <2>5, <2>6
<1>6. QED
  BY <1>3, <1>4, <1>5 DEF AccessesInBounds

\* The invariant holds throughout every call.
THEOREM CopyInvariant ==
  CSpec => []CopyInv
<1>1. CInit => CopyInv
  BY CopyInvInit
<1>2. CopyInv /\ [CNext]_copyvars => CopyInv'
  BY CopyInvNext
<1>3. QED
  BY <1>1, <1>2, PTL DEF CSpec

\* copy_n() copies the n elements and nothing else: for all offsets, lengths, bit
\* orders, addresses and widths of words, between arrays and within one, whichever
\* way the two parts overlap.
THEOREM CopiesExactly ==
  CSpec => []CopyCorrect
<1>1. CopyInv => CopyCorrect
  BY DEF CopyInv, CopyCorrect, RightCopy
<1>2. QED
  BY <1>1, CopyInvariant, PTL

\* memmove() and every shift stay within the bytes that hold the copied elements,
\* words are shifted at aligned addresses only, and there is a byte below whenever
\* bits are carried from it.
THEOREM CopyStaysInBounds ==
  CSpec => []AccessesInBounds
BY AccessesFollow, CopyInvariant, PTL

===============================================================================
