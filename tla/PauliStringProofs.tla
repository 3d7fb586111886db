--------------------------- MODULE PauliStringProofs --------------------------
(***************************************************************************)
(* The operations on Pauli strings agree with the algebra of Pauli         *)
(* operators, for strings of any length, with any pad bits, in either      *)
(* bit-endianness, and for bytes and words of any width that holds whole   *)
(* operators.                                                              *)
(***************************************************************************)
EXTENDS PauliString, BitLayoutProofs, InductionLemmas, FiniteSetTheorems

\* The arrays of the program, as these operations see them.
Array == [endian : Endian, nbits : 0 .. (ByteBits * MaxBytes), mem : [Cells -> Bit]]

-------------------------------------------------------------------------------
(***************************************************************************)
(* Recursive functions and counting.                                       *)
(***************************************************************************)
\* h solves the recurrence of Number up to n.
Solves(h, n, z, base, s) ==
  h = [k \in 0 .. n |-> IF k = 0 THEN z ELSE base * h[k - 1] + s[k - 1]]

\* g solves it for all numbers.
Recurs(g, z, base, s) ==
  g = [k \in Nat |-> IF k = 0 THEN z ELSE base * g[k - 1] + s[k - 1]]

\* Two solutions agree as far as both go.
LEMMA SolutionsAgree ==
  ASSUME NEW z, NEW base, NEW s, NEW n \in Nat, NEW m \in Nat,
         NEW g, Solves(g, n, z, base, s), NEW h, Solves(h, m, z, base, s)
  PROVE  \A k \in Nat : (k <= n /\ k <= m) => g[k] = h[k]
<1> DEFINE S == {k \in Nat : (k <= n /\ k <= m) => g[k] = h[k]}
<1>1. 0 \in S
  BY DEF Solves
<1>2. ASSUME NEW k \in Nat, k \in S PROVE k + 1 \in S
  <2>1. SUFFICES ASSUME k + 1 <= n, k + 1 <= m PROVE g[k + 1] = h[k + 1]
    BY <1>2
  <2>2. g[k] = h[k]
    BY <1>2, <2>1
  <2>3. k + 1 \in 0 .. n /\ k + 1 \in 0 .. m /\ k + 1 # 0 /\ (k + 1) - 1 = k
    BY <2>1
  <2>4. g[k + 1] = base * g[k] + s[k] /\ h[k + 1] = base * h[k] + s[k]
    BY <2>3 DEF Solves
  <2>5. QED
    BY <2>2, <2>4
<1> HIDE DEF S
<1>3. Nat \subseteq S
  BY <1>1, <1>2, SetInduction
<1>4. QED
  BY <1>3 DEF S

\* There are solutions of any length.
LEMMA SolutionsExist ==
  ASSUME NEW z, NEW base, NEW s
  PROVE  \A n \in Nat : \E h : Solves(h, n, z, base, s)
<1> DEFINE S == {n \in Nat : \E h : Solves(h, n, z, base, s)}
<1>1. 0 \in S
  <2> DEFINE h == [k \in 0 .. 0 |-> z]
  <2>1. h = [k \in 0 .. 0 |-> IF k = 0 THEN z ELSE base * h[k - 1] + s[k - 1]]
    OBVIOUS
  <2>2. Solves(h, 0, z, base, s)
    BY <2>1 DEF Solves
  <2>3. QED
    BY <2>2
<1>2. ASSUME NEW n \in Nat, n \in S PROVE n + 1 \in S
  <2>1. PICK g : Solves(g, n, z, base, s)
    BY <1>2
  <2> DEFINE h == [k \in 0 .. (n + 1) |-> IF k = n + 1 THEN base * g[n] + s[n] ELSE g[k]]
  <2>2. ASSUME NEW k \in 0 .. (n + 1)
        PROVE  h[k] = IF k = 0 THEN z ELSE base * h[k - 1] + s[k - 1]
    <3>1. CASE k = n + 1
      <4>1. k # 0 /\ k - 1 = n /\ n \in 0 .. (n + 1) /\ n # n + 1
        BY <3>1
      <4>2. QED
        BY <3>1, <4>1
    <3>2. CASE k # n + 1
      <4>1. k \in 0 .. n /\ (k # 0 => k - 1 \in 0 .. (n + 1) /\ k - 1 # n + 1)
        BY <3>2
      <4>2. h[k] = g[k] /\ (k # 0 => h[k - 1] = g[k - 1])
        BY <3>2, <4>1
      <4>3. g[k] = IF k = 0 THEN z ELSE base * g[k - 1] + s[k - 1]
        BY <2>1, <4>1 DEF Solves
      <4>4. QED
        BY <4>2, <4>3
    <3>3. QED
      BY <3>1, <3>2
  <2>3. h = [k \in 0 .. (n + 1) |-> h[k]]
    OBVIOUS
  <2> HIDE DEF h
  <2>4. h = [k \in 0 .. (n + 1) |-> IF k = 0 THEN z ELSE base * h[k - 1] + s[k - 1]]
    BY <2>2, <2>3
  <2>5. Solves(h, n + 1, z, base, s)
    BY <2>4 DEF Solves
  <2>6. QED
    BY <2>5
<1> HIDE DEF S
<1>3. Nat \subseteq S
  BY <1>1, <1>2, SetInduction
<1>4. QED
  BY <1>3 DEF S

\* What the recurrence of Number defines exists.
LEMMA Recurrence ==
  ASSUME NEW z, NEW base, NEW s
  PROVE  \E g : Recurs(g, z, base, s)
<1> DEFINE H(n) == CHOOSE h : Solves(h, n, z, base, s)
           g    == [k \in Nat |-> H(k)[k]]
<1>1. ASSUME NEW n \in Nat PROVE Solves(H(n), n, z, base, s)
  BY SolutionsExist
<1> HIDE DEF H
<1>2. ASSUME NEW k \in Nat
      PROVE  g[k] = IF k = 0 THEN z ELSE base * g[k - 1] + s[k - 1]
  <2>1. H(k)[k] = IF k = 0 THEN z ELSE base * H(k)[k - 1] + s[k - 1]
    <3>1. k \in 0 .. k
      OBVIOUS
    <3>2. QED
      BY <1>1, <3>1 DEF Solves
  <2>2. CASE k = 0
    BY <2>1, <2>2
  <2>3. CASE k # 0
    <3>1. k - 1 \in Nat /\ k - 1 <= k /\ k - 1 <= k - 1
      BY <2>3
    <3>2. Solves(H(k), k, z, base, s) /\ Solves(H(k - 1), k - 1, z, base, s)
      BY <1>1, <3>1
    <3>3. H(k)[k - 1] = H(k - 1)[k - 1]
      BY <3>1, <3>2, SolutionsAgree
    <3>4. g[k - 1] = H(k - 1)[k - 1] /\ g[k] = H(k)[k]
      BY <3>1
    <3>5. QED
      BY <2>1, <2>3, <3>3, <3>4
  <2>4. QED
    BY <2>2, <2>3
<1>3. g = [k \in Nat |-> g[k]]
  OBVIOUS
<1> HIDE DEF g
<1>4. Recurs(g, z, base, s)
  BY <1>2, <1>3 DEF Recurs
<1>5. QED
  BY <1>4

\* The numbers of digits.
LEMMA NumberDef ==
  ASSUME NEW base, NEW s
  PROVE  \A k \in Nat :
           Number(base, s)[k] = IF k = 0 THEN 0 ELSE base * Number(base, s)[k - 1] + s[k - 1]
<1> DEFINE P(h) == Recurs(h, 0, base, s)
<1>1. Number(base, s) = CHOOSE h : P(h)
  BY DEF Number, Recurs
<1>2. \E h : P(h)
  BY Recurrence
<1>3. P(CHOOSE h : P(h))
  <2> HIDE DEF P
  <2> QED
    BY <1>2
<1>4. P(Number(base, s))
  BY <1>1, <1>3
<1>5. QED
  BY <1>4 DEF Recurs

\* The powers of two.
LEMMA PowerDef ==
  \A k \in Nat : /\ Power[k] \in Nat \ {0}
                 /\ Power[k] = IF k = 0 THEN 1 ELSE 2 * Power[k - 1]
<1> DEFINE s    == [k \in Nat |-> 0]
           P(h) == h = [k \in Nat |-> IF k = 0 THEN 1 ELSE 2 * h[k - 1]]
<1>1. PICK g : g = [k \in Nat |-> IF k = 0 THEN 1 ELSE 2 * g[k - 1] + s[k - 1]]
  <2> HIDE DEF s
  <2>1. PICK g : Recurs(g, 1, 2, s)
    BY Recurrence
  <2>2. QED
    BY <2>1 DEF Recurs
<1>2. \A k \in Nat : g[k] = IF k = 0 THEN 1 ELSE 2 * g[k - 1] + 0
  <2>1. \A k \in Nat : k # 0 => s[k - 1] = 0
    OBVIOUS
  <2>2. QED
    BY <1>1, <2>1
<1> DEFINE T == {k \in Nat : g[k] \in Nat \ {0}}
<1>3. 0 \in T
  BY <1>2
<1>4. ASSUME NEW k \in Nat, k \in T PROVE k + 1 \in T
  <2>1. k + 1 # 0 /\ (k + 1) - 1 = k /\ k + 1 \in Nat
    OBVIOUS
  <2>2. g[k + 1] = 2 * g[k] + 0
    BY <1>2, <2>1
  <2>3. QED
    BY <1>4, <2>2
<1> HIDE DEF T
<1>5. Nat \subseteq T
  BY <1>3, <1>4, SetInduction
<1>6. \A k \in Nat : g[k] \in Nat \ {0}
  BY <1>5 DEF T
<1>7. ASSUME NEW k \in Nat PROVE g[k] = IF k = 0 THEN 1 ELSE 2 * g[k - 1]
  <2>1. CASE k = 0
    BY <1>2, <2>1
  <2>2. CASE k # 0
    <3>1. g[k - 1] \in Nat /\ g[k] = 2 * g[k - 1] + 0
      BY <1>2, <1>6, <2>2
    <3>2. QED
      BY <2>2, <3>1
  <2>3. QED
    BY <2>1, <2>2
<1>8. g = [k \in Nat |-> g[k]]
  BY <1>1
<1>9. P(g)
  BY <1>7, <1>8
<1>10. P(Power)
  <2>1. Power = CHOOSE h : P(h)
    BY DEF Power
  <2> HIDE DEF P
  <2>2. QED
    BY <1>9, <2>1
<1> DEFINE U == {k \in Nat : Power[k] = g[k]}
<1>11. 0 \in U
  BY <1>7, <1>10
<1>12. ASSUME NEW k \in Nat, k \in U PROVE k + 1 \in U
  <2>1. k + 1 # 0 /\ (k + 1) - 1 = k /\ k + 1 \in Nat
    OBVIOUS
  <2>2. g[k + 1] = 2 * g[k]
    BY <1>7, <2>1
  <2>3. Power[k + 1] = 2 * Power[k]
    BY <1>10, <2>1
  <2>4. QED
    BY <1>12, <2>2, <2>3
<1> HIDE DEF U
<1>13. Nat \subseteq U
  BY <1>11, <1>12, SetInduction
<1>14. QED
  BY <1>6, <1>10, <1>13 DEF U

\* Numbers of digits are numbers, and those of n bits less than 2^n.
LEMMA NumberRange ==
  ASSUME NEW base \in Nat, NEW n \in Nat, NEW s, \A i \in Nat : i < n => s[i] \in Nat
  PROVE  \A k \in Nat : k <= n => Number(base, s)[k] \in Nat
<1> DEFINE T == {k \in Nat : k <= n => Number(base, s)[k] \in Nat}
<1>1. 0 \in T
  BY NumberDef
<1>2. ASSUME NEW k \in Nat, k \in T PROVE k + 1 \in T
  <2>1. SUFFICES ASSUME k + 1 <= n PROVE Number(base, s)[k + 1] \in Nat
    OBVIOUS
  <2>2. Number(base, s)[k] \in Nat /\ s[k] \in Nat
    BY <1>2, <2>1
  <2>3. Number(base, s)[k + 1] = base * Number(base, s)[k] + s[k]
    <3>1. k + 1 # 0 /\ (k + 1) - 1 = k /\ k + 1 \in Nat
      OBVIOUS
    <3>2. QED
      BY <3>1, NumberDef
  <2> HIDE DEF T
  <2>4. QED
    BY <2>2, <2>3
<1> HIDE DEF T
<1>3. Nat \subseteq T
  BY <1>1, <1>2, SetInduction
<1>4. QED
  BY <1>3 DEF T

\* Quotient and remainder.
LEMMA Quotient ==
  ASSUME NEW B \in Nat \ {0}, NEW n \in Nat
  PROVE  n \div B \in Nat /\ n % B \in 0 .. (B - 1) /\ n = B * (n \div B) + (n % B)
OBVIOUS

\* The digits of a binary number.
LEMMA BinaryDigits ==
  ASSUME NEW n \in Nat, NEW s, \A i \in Nat : i < n => s[i] \in Bit
  PROVE  \A k \in Nat : k <= n =>
           /\ Number(2, s)[k] \in 0 .. (Power[k] - 1)
           /\ \A i \in 0 .. (k - 1) : (Number(2, s)[k] \div Power[k - 1 - i]) % 2 = s[i]
<1> DEFINE d == Number(2, s)
           Good(k) == /\ d[k] \in 0 .. (Power[k] - 1)
                      /\ \A i \in 0 .. (k - 1) : (d[k] \div Power[k - 1 - i]) % 2 = s[i]
           T == {k \in Nat : k <= n => Good(k)}
<1>1. 0 \in T
  BY NumberDef, PowerDef
<1>2. ASSUME NEW k \in Nat, k \in T PROVE k + 1 \in T
  <2>1. SUFFICES ASSUME k + 1 <= n PROVE Good(k + 1)
    OBVIOUS
  <2>2. Good(k) /\ s[k] \in Bit
    BY <1>2, <2>1
  <2>3. k + 1 # 0 /\ (k + 1) - 1 = k /\ k + 1 \in Nat
    OBVIOUS
  <2>4. d[k + 1] = 2 * d[k] + s[k]
    BY <2>3, NumberDef
  <2>5. Power[k + 1] = 2 * Power[k] /\ Power[k] \in Nat \ {0}
    BY <2>3, PowerDef
  <2> HIDE DEF d
  <2>6. d[k + 1] \in 0 .. (Power[k + 1] - 1)
    BY <2>2, <2>4, <2>5 DEF Bit
  <2>7. ASSUME NEW i \in 0 .. k
        PROVE  (d[k + 1] \div Power[k - i]) % 2 = s[i]
    <3>1. CASE i = k
      <4>1. Power[k - i] = 1
        BY <3>1, PowerDef
      <4>2. d[k + 1] \div 1 = d[k + 1]
        BY <2>6
      <4>3. (2 * d[k] + s[k]) % 2 = s[k]
        BY <2>2 DEF Bit
      <4>4. QED
        BY <2>4, <3>1, <4>1, <4>2, <4>3
    <3>2. CASE i # k
      <4> DEFINE p == Power[k - 1 - i]
      <4>1. k - 1 - i \in Nat /\ k - i \in Nat /\ k - i # 0 /\ (k - i) - 1 = k - 1 - i
        BY <3>2
      <4>2. Power[k - i] = 2 * p /\ p \in Nat \ {0}
        BY <4>1, PowerDef
      <4>3. (d[k] \div p) % 2 = s[i]
        BY <2>2, <3>2
      <4> HIDE DEF p
      <4> DEFINE q == d[k] \div p
                 r == d[k] % p
      <4>4. q \in Int /\ r \in 0 .. (p - 1) /\ d[k] = p * q + r
        <5>1. d[k] \in Nat
          BY <2>2, <2>5
        <5>2. p \in Nat \ {0}
          BY <4>2
        <5>3. QED
          BY <5>1, <5>2, Quotient
      <4> HIDE DEF q, r
      <4>5. 2 * r + s[k] \in 0 .. (2 * p - 1)
        BY <2>2, <4>2, <4>4 DEF Bit
      <4>6. 2 * d[k] + s[k] = (2 * p) * q + (2 * r + s[k])
        <5> DEFINE t == p * q
        <5>1. t \in Int /\ (2 * p) * q = 2 * t
          BY <4>2, <4>4
        <5>2. d[k] = t + r
          BY <4>4
        <5> HIDE DEF t
        <5>3. QED
          BY <2>2, <4>4, <5>1, <5>2 DEF Bit
      <4>7. 2 * p \in Nat \ {0}
        BY <4>2
      <4>8. ((2 * p) * q + (2 * r + s[k])) \div (2 * p) = q
        <5> DEFINE B == 2 * p
                   u == 2 * r + s[k]
        <5>1. B \in Nat \ {0} /\ u \in 0 .. (B - 1)
          BY <4>5, <4>7
        <5> HIDE DEF B, u
        <5>2. (B * q + u) \div B = q
          BY <4>4, <5>1, Division
        <5>3. QED
          BY <5>2 DEF B, u
      <4>9. d[k + 1] \div Power[k - i] = q
        BY <2>4, <4>2, <4>6, <4>8
      <4>10. QED
        BY <4>3, <4>9 DEF q
    <3>3. QED
      BY <3>1, <3>2
  <2>8. QED
    BY <2>6, <2>7 DEF d
<1> HIDE DEF T
<1>3. Nat \subseteq T
  BY <1>1, <1>2, SetInduction
<1>4. QED
  BY <1>3 DEF T

\* How many of the numbers below k are in S.
Tally(S, k) == Cardinality(S \cap (0 .. (k - 1)))

\* Counting one number after the other.
LEMMA TallyStep ==
  ASSUME NEW S
  PROVE  /\ Tally(S, 0) = 0
         /\ \A k \in Nat : /\ Tally(S, k) \in Nat
                           /\ Tally(S, k + 1) = Tally(S, k) + (IF k \in S THEN 1 ELSE 0)
<1>1. Tally(S, 0) = 0
  <2>1. S \cap (0 .. (0 - 1)) = {}
    OBVIOUS
  <2>2. QED
    BY <2>1, FS_EmptySet DEF Tally
<1>2. ASSUME NEW k \in Nat
      PROVE  /\ Tally(S, k) \in Nat
             /\ Tally(S, k + 1) = Tally(S, k) + (IF k \in S THEN 1 ELSE 0)
  <2> DEFINE T == S \cap (0 .. (k - 1))
             U == S \cap (0 .. ((k + 1) - 1))
  <2>1. IsFiniteSet(T)
    <3>1. IsFiniteSet(0 .. (k - 1))
      BY FS_Interval
    <3>2. T \in SUBSET (0 .. (k - 1))
      OBVIOUS
    <3> HIDE DEF T
    <3>3. QED
      BY <3>1, <3>2, FS_Subset
  <2>2. k \notin T
    OBVIOUS
  <2>3. CASE k \in S
    <3>1. U = T \cup {k}
      BY <2>3
    <3> HIDE DEF T, U
    <3>2. Cardinality(U) = Cardinality(T) + 1 /\ Cardinality(T) \in Nat
      BY <2>1, <2>2, <3>1, FS_AddElement, FS_CardinalityType
    <3>3. QED
      BY <2>3, <3>2 DEF Tally, T, U
  <2>4. CASE k \notin S
    <3>1. U = T
      BY <2>4
    <3> HIDE DEF T, U
    <3>2. Cardinality(U) = Cardinality(T) /\ Cardinality(T) \in Nat
      BY <2>1, <3>1, FS_CardinalityType
    <3>3. QED
      BY <2>4, <3>2 DEF Tally, T, U
  <2>5. QED
    BY <2>3, <2>4
<1>3. QED
  BY <1>1, <1>2

\* The size of a set of numbers below n.
LEMMA TallyAll ==
  ASSUME NEW n \in Nat, NEW S \in SUBSET (0 .. (n - 1))
  PROVE  IsFiniteSet(S) /\ Cardinality(S) = Tally(S, n)
<1>1. IsFiniteSet(S)
  <2>1. IsFiniteSet(0 .. (n - 1))
    BY FS_Interval
  <2>2. QED
    BY <2>1, FS_Subset
<1>2. S \cap (0 .. (n - 1)) = S
  OBVIOUS
<1>3. QED
  BY <1>1, <1>2 DEF Tally

-------------------------------------------------------------------------------
(***************************************************************************)
(* The arrays.                                                             *)
(***************************************************************************)
\* The lengths and the width of bytes are numbers, and the width is even.
LEMMA Widths ==
  /\ ByteBits \in Nat \ {0} /\ MaxBytes \in Nat /\ ByteBits * MaxBytes \in Nat
  /\ PerByte \in Nat \ {0} /\ ByteBits = 2 * PerByte
<1>1. ByteBits \in Nat \ {0} /\ MaxBytes \in Nat
  BY ByteBitsAssumption, MaxBytesAssumption
<1>2. ByteBits * MaxBytes \in Nat
  BY <1>1
<1>3. ByteBits % 2 = 0
  BY StringAssumption
<1>4. PerByte \in Nat \ {0} /\ ByteBits = 2 * PerByte
  BY <1>1, <1>3 DEF PerByte
<1>5. QED
  BY <1>1, <1>2, <1>4

\* The arrays given at the start.
LEMMA GivenArrays ==
  ASSUME NEW n \in StringLengths, NEW x \in Given(n)
  PROVE  x \in Array
<1>1. PICK e \in Endians, ones \in UNION {kSubset(k, 0 .. (ByteBits * BYTES(n) - 1)) : k \in 0 .. MaxOnes} :
        x = [endian |-> e, nbits |-> n, mem |-> [c \in Cells |-> IF c \in ones THEN 1 ELSE 0]]
  BY DEF Given
<1>2. [c \in Cells |-> IF c \in ones THEN 1 ELSE 0] \in [Cells -> Bit]
  BY DEF Bit
<1>3. e \in Endian /\ n \in 0 .. (ByteBits * MaxBytes)
  BY StringAssumption DEF Endian
<1>4. QED
  BY <1>1, <1>2, <1>3 DEF Array

\* What encode_ixyz() makes.
LEMMA EncodedArrays ==
  ASSUME NEW len \in Nat, 2 * len <= ByteBits * MaxBytes, NEW s
  PROVE  EncodeIxyz(s, len) \in Array
<1> DEFINE m == EncodeIxyz(s, len).mem
<1>1. EncodeIxyz(s, len) = [endian |-> BIG, nbits |-> 2 * len, mem |-> m]
  BY DEF EncodeIxyz
<1>2. m \in [Cells -> Bit]
  BY DEF EncodeIxyz, Bit
<1>3. 2 * len \in 0 .. (ByteBits * MaxBytes)
  BY Widths
<1> HIDE DEF m
<1>4. QED
  BY <1>1, <1>2, <1>3 DEF Array, Endian

\* What not_identity_mask() makes.
LEMMA MaskArrays ==
  ASSUME NEW x \in Array
  PROVE  NotIdentityMask(x) \in Array
<1> DEFINE m == NotIdentityMask(x).mem
<1>1. NotIdentityMask(x) = [endian |-> BIG, nbits |-> x.nbits \div 2, mem |-> m]
  BY DEF NotIdentityMask
<1>2. m \in [Cells -> Bit]
  BY DEF NotIdentityMask, Bit
<1>3. x.nbits \div 2 \in 0 .. (ByteBits * MaxBytes)
  BY Widths DEF Array
<1> HIDE DEF m
<1>4. QED
  BY <1>1, <1>2, <1>3 DEF Array, Endian

\* Both arrays have a length, an endianness and bits, whatever is done to them.
StringsTyped == a \in Array /\ b \in Array

\* The arrays keep their type.
LEMMA ArraysTyped == StringSpec => []StringsTyped
<1>1. StringInit => StringsTyped
  BY GivenArrays DEF StringInit, StringsTyped
<1>2. StringsTyped /\ [StringNext]_stringvars => StringsTyped'
  <2>1. SUFFICES ASSUME StringsTyped, [StringNext]_stringvars PROVE StringsTyped'
    OBVIOUS
  <2>2. CASE \E len \in 0 .. MaxLength : \E s \in [0 .. (len - 1) -> Characters] : Encode(s, len)
    <3>1. PICK len \in 0 .. MaxLength : \E s \in [0 .. (len - 1) -> Characters] : Encode(s, len)
      BY <2>2
    <3>2. PICK s : Encode(s, len)
      BY <3>1
    <3>3. len \in Nat /\ 2 * len <= ByteBits * MaxBytes
      BY Widths, StringAssumption
    <3>4. EncodeIxyz(s, len) \in Array
      BY <3>3, EncodedArrays
    <3>5. QED
      BY <2>1, <3>4, <3>2 DEF Encode, StringsTyped
  <2>3. CASE Mask
    BY <2>1, <2>3, MaskArrays DEF Mask, StringsTyped
  <2>4. CASE UNCHANGED stringvars
    BY <2>1, <2>4 DEF stringvars, StringsTyped
  <2>5. QED
    BY <2>1, <2>2, <2>3, <2>4 DEF StringNext
<1>3. QED
  BY <1>1, <1>2, PTL DEF StringSpec

\* Elements are bits.
LEMMA BitsGot ==
  ASSUME NEW x \in Array
  PROVE  /\ x.nbits \in Nat /\ x.nbits <= ByteBits * MaxBytes
         /\ x.nbits \div 2 \in Nat
         /\ \A i \in Nat : i < x.nbits => GET_BIT(x, i) \in Bit
         /\ \A i \in Pairs(x) : Even(x, i) \in Bit /\ Odd(x, i) \in Bit
<1>1. x.nbits \in Nat /\ x.nbits <= ByteBits * MaxBytes /\ x.endian \in Endian /\ x.mem \in [Cells -> Bit]
  BY Widths DEF Array
<1>2. ASSUME NEW i \in Nat, i < x.nbits PROVE GET_BIT(x, i) \in Bit
  <2>1. i < Room(MaxBytes)
    BY <1>1, <1>2, Widths DEF Room
  <2>2. Pos(x.endian, i) \in Cells
    BY <1>1, <2>1, CellsFacts
  <2>3. QED
    BY <1>1, <2>2 DEF GET_BIT, GetBit
<1>3. ASSUME NEW i \in Pairs(x) PROVE Even(x, i) \in Bit /\ Odd(x, i) \in Bit
  <2>1. 2 * i \in Nat /\ 2 * i + 1 \in Nat /\ 2 * i + 1 < x.nbits /\ 2 * i < x.nbits
    BY <1>1 DEF Pairs
  <2>2. QED
    BY <1>2, <2>1 DEF Even, Odd
<1>4. QED
  BY <1>1, <1>2, <1>3

\* The operator that two bits stand for.
LEMMA OperatorBits ==
  ASSUME NEW x, NEW i, Even(x, i) \in Bit, Odd(x, i) \in Bit
  PROVE  /\ Operator(x, i) = "I" <=> (Even(x, i) = 0 /\ Odd(x, i) = 0)
         /\ Operator(x, i) = "X" <=> (Even(x, i) = 1 /\ Odd(x, i) = 0)
         /\ Operator(x, i) = "Y" <=> (Even(x, i) = 1 /\ Odd(x, i) = 1)
         /\ Operator(x, i) = "Z" <=> (Even(x, i) = 0 /\ Odd(x, i) = 1)
<1> DEFINE e == GET_BIT(x, 2 * i)
           o == GET_BIT(x, 2 * i + 1)
<1>1. e = Even(x, i) /\ o = Odd(x, i)
  BY DEF Even, Odd
<1>2. Operator(x, i) = CASE <<e, o>> = <<0, 0>> -> "I"
                         [] <<e, o>> = <<1, 0>> -> "X"
                         [] <<e, o>> = <<1, 1>> -> "Y"
                         [] <<e, o>> = <<0, 1>> -> "Z"
  BY DEF Operator
<1>3. e \in {0, 1} /\ o \in {0, 1}
  BY <1>1 DEF Bit
<1> HIDE DEF e, o
<1>4. CASE e = 0 /\ o = 0
  BY <1>1, <1>2, <1>4
<1>5. CASE e = 1 /\ o = 0
  BY <1>1, <1>2, <1>5
<1>6. CASE e = 1 /\ o = 1
  BY <1>1, <1>2, <1>6
<1>7. CASE e = 0 /\ o = 1
  BY <1>1, <1>2, <1>7
<1>8. QED
  BY <1>3, <1>4, <1>5, <1>6, <1>7

-------------------------------------------------------------------------------
(***************************************************************************)
(* The phase of a product.                                                 *)
(***************************************************************************)
\* What one position adds to the sums of phase().
Summand(x, y, i) ==
  2 * (IF Even(x, i) = 1 /\ Odd(y, i) = 1 THEN 1 ELSE 0)
    + (IF Odd(x, i) = 1 /\ Even(x, i) = 1 THEN 1 ELSE 0)
    + (IF Odd(y, i) = 1 /\ Even(y, i) = 1 THEN 1 ELSE 0)
    - (IF Even(x, i) # Even(y, i) /\ Odd(x, i) # Odd(y, i) THEN 1 ELSE 0)

\* The phase of a product of two operators, from their bits.
LEMMA ProductBits ==
  ASSUME NEW x, NEW y, NEW i, Even(x, i) \in Bit, Odd(x, i) \in Bit,
         Even(y, i) \in Bit, Odd(y, i) \in Bit
  PROVE  /\ ProductPhase(Operator(y, i), Operator(x, i)) \in {0, 1, 3}
         /\ Summand(x, y, i) - ProductPhase(Operator(y, i), Operator(x, i)) \in {-4, 0, 4}
<1> DEFINE P == Operator(y, i)
           Q == Operator(x, i)
           f == ProductPhase(P, Q)
<1>1. /\ Even(x, i) = (IF Q \in {"X", "Y"} THEN 1 ELSE 0)
      /\ Odd(x, i) = (IF Q \in {"Z", "Y"} THEN 1 ELSE 0)
      /\ Q \in {"I", "X", "Y", "Z"}
  BY OperatorBits DEF Bit
<1>2. /\ Even(y, i) = (IF P \in {"X", "Y"} THEN 1 ELSE 0)
      /\ Odd(y, i) = (IF P \in {"Z", "Y"} THEN 1 ELSE 0)
      /\ P \in {"I", "X", "Y", "Z"}
  BY OperatorBits DEF Bit
<1> HIDE DEF P, Q
<1>3. f = IF (P = "X" /\ Q = "Y") \/ (P = "Y" /\ Q = "Z") \/ (P = "Z" /\ Q = "X") THEN 1
          ELSE IF (Q = "X" /\ P = "Y") \/ (Q = "Y" /\ P = "Z") \/ (Q = "Z" /\ P = "X") THEN 3
          ELSE 0
  BY DEF ProductPhase
<1>4. f \in {0, 1, 3}
  BY <1>3
<1>5. Summand(x, y, i) - f \in {-4, 0, 4}
  <2>1. CASE Q = "I"
    BY <1>1, <1>2, <1>3, <2>1 DEF Summand
  <2>2. CASE Q = "X"
    BY <1>1, <1>2, <1>3, <2>2 DEF Summand
  <2>3. CASE Q = "Y"
    BY <1>1, <1>2, <1>3, <2>3 DEF Summand
  <2>4. CASE Q = "Z"
    BY <1>1, <1>2, <1>3, <2>4 DEF Summand
  <2>5. QED
    BY <1>1, <2>1, <2>2, <2>3, <2>4
<1>6. QED
  BY <1>4, <1>5 DEF P, Q

\* phase() gives the exponent of the product, modulo 4.
LEMMA PhaseLemma ==
  ASSUME StringsTyped
  PROVE  PhaseCorrect
<1> DEFINE n == a.nbits \div 2
           phases == [i \in Pairs(a) |-> ProductPhase(Operator(b, i), Operator(a, i))]
<1>1. SUFFICES ASSUME a.nbits = b.nbits PROVE Phase(a, b) % 4 = Number(1, phases)[n] % 4
  BY DEF PhaseCorrect
<1>2. n \in Nat /\ Pairs(a) = 0 .. (n - 1) /\ Pairs(b) = Pairs(a)
  BY <1>1, BitsGot DEF Pairs, StringsTyped
<1>3. ASSUME NEW i \in Pairs(a)
      PROVE  Even(a, i) \in Bit /\ Odd(a, i) \in Bit /\ Even(b, i) \in Bit /\ Odd(b, i) \in Bit
  BY <1>2, BitsGot DEF StringsTyped
<1> DEFINE S1 == {i \in Pairs(a) : Even(a, i) = 1 /\ Odd(b, i) = 1}
           S2 == {i \in Pairs(a) : Odd(a, i) = 1 /\ Even(a, i) = 1}
           S3 == {i \in Pairs(a) : Odd(b, i) = 1 /\ Even(b, i) = 1}
           S4 == {i \in Pairs(a) : Even(a, i) # Even(b, i) /\ Odd(a, i) # Odd(b, i)}
           L(k) == 2 * Tally(S1, k) + Tally(S2, k) + Tally(S3, k) - Tally(S4, k)
<1>4. ASSUME NEW i \in Pairs(a)
      PROVE  /\ phases[i] \in {0, 1, 3}
             /\ Summand(a, b, i) - phases[i] \in {-4, 0, 4}
             /\ Summand(a, b, i) = 2 * (IF i \in S1 THEN 1 ELSE 0) + (IF i \in S2 THEN 1 ELSE 0)
                                     + (IF i \in S3 THEN 1 ELSE 0) - (IF i \in S4 THEN 1 ELSE 0)
  <2>1. phases[i] = ProductPhase(Operator(b, i), Operator(a, i))
    OBVIOUS
  <2> HIDE DEF phases
  <2>2. QED
    BY <1>3, <2>1, ProductBits DEF Summand
<1>5. Phase(a, b) = L(n)
  <2>1. S1 \in SUBSET (0 .. (n - 1)) /\ S2 \in SUBSET (0 .. (n - 1))
        /\ S3 \in SUBSET (0 .. (n - 1)) /\ S4 \in SUBSET (0 .. (n - 1))
    BY <1>2
  <2>2. Phase(a, b) = 2 * Cardinality(S1) + Cardinality(S2) + Cardinality(S3) - Cardinality(S4)
    BY <1>2 DEF Phase
  <2> HIDE DEF S1, S2, S3, S4, n
  <2>3. QED
    BY <1>2, <2>1, <2>2, TallyAll
<1> HIDE DEF phases, S1, S2, S3, S4, n
<1> DEFINE N(k) == Number(1, phases)[k]
           T == {k \in Nat : k <= n => N(k) \in Nat /\ (L(k) - N(k)) % 4 = 0}
<1>6. 0 \in T
  <2>1. Tally(S1, 0) = 0 /\ Tally(S2, 0) = 0 /\ Tally(S3, 0) = 0 /\ Tally(S4, 0) = 0
    BY TallyStep
  <2>2. L(0) = 0
    BY <2>1
  <2>3. N(0) = 0
    BY NumberDef
  <2> HIDE DEF L, N
  <2>4. QED
    BY <2>2, <2>3
<1>7. ASSUME NEW k \in Nat, k \in T PROVE k + 1 \in T
  <2>1. SUFFICES ASSUME k + 1 <= n PROVE N(k + 1) \in Nat /\ (L(k + 1) - N(k + 1)) % 4 = 0
    OBVIOUS
  <2>2. k \in Pairs(a) /\ N(k) \in Nat /\ (L(k) - N(k)) % 4 = 0
    BY <1>2, <1>7, <2>1
  <2>3. N(k + 1) = N(k) + phases[k]
    <3>1. k + 1 # 0 /\ (k + 1) - 1 = k /\ k + 1 \in Nat
      OBVIOUS
    <3>2. N(k + 1) = 1 * N(k) + phases[k]
      BY <3>1, NumberDef
    <3> HIDE DEF N
    <3>3. phases[k] \in Nat
      BY <1>4, <2>2
    <3>4. QED
      BY <2>2, <3>2, <3>3
  <2>4. L(k) \in Int /\ L(k + 1) = L(k) + Summand(a, b, k)
    <3> DEFINE One(S) == IF k \in S THEN 1 ELSE 0
    <3>1. /\ Tally(S1, k) \in Nat /\ Tally(S1, k + 1) = Tally(S1, k) + One(S1)
          /\ Tally(S2, k) \in Nat /\ Tally(S2, k + 1) = Tally(S2, k) + One(S2)
          /\ Tally(S3, k) \in Nat /\ Tally(S3, k + 1) = Tally(S3, k) + One(S3)
          /\ Tally(S4, k) \in Nat /\ Tally(S4, k + 1) = Tally(S4, k) + One(S4)
      BY TallyStep
    <3>2. Summand(a, b, k) = 2 * One(S1) + One(S2) + One(S3) - One(S4)
      BY <1>4, <2>2
    <3>3. One(S1) \in Nat /\ One(S2) \in Nat /\ One(S3) \in Nat /\ One(S4) \in Nat
      OBVIOUS
    <3> HIDE DEF One
    <3>4. QED
      BY <3>1, <3>2, <3>3
  <2> HIDE DEF T, L, N
  <2>5. Summand(a, b, k) - phases[k] \in {-4, 0, 4} /\ phases[k] \in {0, 1, 3}
    BY <1>4, <2>2
  <2> DEFINE u == L(k) - N(k)
             v == Summand(a, b, k) - phases[k]
  <2>6. u \in Int /\ u % 4 = 0 /\ v \in {-4, 0, 4}
    BY <2>2, <2>4, <2>5
  <2>7. L(k + 1) - N(k + 1) = u + v
    <3>1. Summand(a, b, k) \in Int
      BY DEF Summand
    <3>2. QED
      BY <2>2, <2>3, <2>4, <2>5, <3>1
  <2> HIDE DEF u, v
  <2>8. (u + v) % 4 = 0
    BY <2>6
  <2>9. N(k + 1) \in Nat
    BY <2>2, <2>3, <2>5
  <2>10. QED
    BY <2>7, <2>8, <2>9
<1> HIDE DEF T
<1>8. Nat \subseteq T
  BY <1>6, <1>7, SetInduction
<1>9. N(n) \in Nat /\ (L(n) - N(n)) % 4 = 0
  BY <1>2, <1>8 DEF T
<1>10. L(n) \in Int
  <2>1. /\ Tally(S1, n) \in Nat /\ Tally(S2, n) \in Nat
        /\ Tally(S3, n) \in Nat /\ Tally(S4, n) \in Nat
    BY <1>2, TallyStep
  <2>2. QED
    BY <2>1
<1>11. L(n) % 4 = N(n) % 4
  <2> HIDE DEF L, N
  <2>1. QED
    BY <1>9, <1>10
<1>12. QED
  BY <1>5, <1>11

-------------------------------------------------------------------------------
(***************************************************************************)
(* Commutativity.                                                          *)
(***************************************************************************)
\* The cells of operator i: that of the lower, and that of the higher bit.
Low(e, i)  == IF e = LITTLE THEN 2 * i ELSE Pos(BIG, 2 * i + 1)
High(e, i) == IF e = LITTLE THEN 2 * i + 1 ELSE Pos(BIG, 2 * i)

\* The cells of the first n elements.
FirstCells(e, n) == {c \in Nat : Pos(e, c) < n}

\* The cells of an operator of a big-endian string.
LEMMA BigCells ==
  ASSUME NEW i \in Nat
  PROVE  /\ Pos(BIG, 2 * i + 1) = Shifted(i)
         /\ Pos(BIG, 2 * i) = Shifted(i) + 1
         /\ Shifted(i) \in Nat
         /\ Shifted(i) % 2 = 0
<1> DEFINE q == i \div PerByte
           r == i % PerByte
<1>1. q \in Nat /\ r \in 0 .. (PerByte - 1) /\ i = PerByte * q + r
  BY Widths, Quotient
<1>2. Shifted(i) = ByteBits * q + (ByteBits - 2 - 2 * r)
  BY DEF Shifted
<1> HIDE DEF q, r
<1> DEFINE t == PerByte * q
<1>3. t \in Nat /\ ByteBits * q = 2 * t
  BY <1>1, Widths
<1>4. i = t + r
  BY <1>1
<1> HIDE DEF t
<1>5. 2 * i = ByteBits * q + 2 * r /\ 2 * i + 1 = ByteBits * q + (2 * r + 1)
  BY <1>1, <1>3, <1>4
<1>6. 2 * r \in 0 .. (ByteBits - 1) /\ 2 * r + 1 \in 0 .. (ByteBits - 1)
  BY <1>1, Widths
<1>7. /\ Pos(BIG, 2 * i) = ByteBits * q + (ByteBits - 1 - 2 * r)
      /\ Pos(BIG, 2 * i + 1) = ByteBits * q + (ByteBits - 1 - (2 * r + 1))
  BY <1>1, <1>5, <1>6, PosBig
<1>8. Shifted(i) = 2 * (t + PerByte - 1 - r) /\ t + PerByte - 1 - r \in Nat
  BY <1>1, <1>2, <1>3, Widths
<1>9. Shifted(i) \in Nat /\ Shifted(i) % 2 = 0
  <2> DEFINE u == t + PerByte - 1 - r
  <2>1. u \in Nat /\ Shifted(i) = 2 * u
    BY <1>8
  <2> HIDE DEF u
  <2>2. QED
    BY <2>1
<1>10. QED
  BY <1>1, <1>2, <1>3, <1>7, <1>9, Widths

\* Even cells hold odd elements of big-endian arrays.
LEMMA EvenCells ==
  ASSUME NEW c \in Nat, c % 2 = 0
  PROVE  \E i \in Nat : Pos(BIG, c) = 2 * i + 1
<1> DEFINE q == c \div ByteBits
           r == c % ByteBits
<1>1. q \in Nat /\ r \in 0 .. (ByteBits - 1) /\ c = ByteBits * q + r
  BY DivMod
<1> HIDE DEF q, r
<1>2. Pos(BIG, c) = ByteBits * q + (ByteBits - 1 - r)
  BY <1>1, PosBig
<1> DEFINE t == PerByte * q
<1>3. t \in Nat /\ ByteBits * q = 2 * t
  BY <1>1, Widths
<1> HIDE DEF t
<1>4. r % 2 = 0
  BY <1>1, <1>3
<1>5. PICK u \in Nat : r = 2 * u
  BY <1>1, <1>4
<1>6. t + PerByte - 1 - u \in Nat
  BY <1>1, <1>3, <1>5, Widths
<1>7. Pos(BIG, c) = 2 * (t + PerByte - 1 - u) + 1
  BY <1>1, <1>2, <1>3, <1>5, Widths
<1>8. QED
  BY <1>6, <1>7

\* The cells of the operators among the first n elements are the pairs of an
\* even cell and the next one.
LEMMA PairCells ==
  ASSUME NEW e \in Endian, NEW n \in Nat
  PROVE  /\ \A i \in 0 .. (n \div 2 - 1) :
              /\ Low(e, i) \in FirstCells(e, n) /\ Low(e, i) % 2 = 0
              /\ Low(e, i) + 1 = High(e, i) /\ High(e, i) \in FirstCells(e, n)
         /\ \A c \in FirstCells(e, n) : (c % 2 = 0 /\ c + 1 \in FirstCells(e, n)) =>
              \E i \in 0 .. (n \div 2 - 1) : c = Low(e, i)
         /\ \A i, j \in Nat : Low(e, i) = Low(e, j) => i = j
<1>1. CASE e = LITTLE
  <2>1. FirstCells(e, n) = {c \in Nat : c < n}
    BY <1>1 DEF FirstCells, Pos
  <2>2. \A i : Low(e, i) = 2 * i /\ High(e, i) = 2 * i + 1
    BY <1>1 DEF Low, High
  <2>3. ASSUME NEW i \in 0 .. (n \div 2 - 1)
        PROVE  /\ 2 * i \in Nat /\ 2 * i < n /\ (2 * i) % 2 = 0
               /\ 2 * i + 1 \in Nat /\ 2 * i + 1 < n
    OBVIOUS
  <2>4. ASSUME NEW c \in Nat, c % 2 = 0, c + 1 < n
        PROVE  \E i \in 0 .. (n \div 2 - 1) : c = 2 * i
    <3>1. c \div 2 \in 0 .. (n \div 2 - 1) /\ c = 2 * (c \div 2)
      BY <2>4
    <3>2. QED
      BY <3>1
  <2>5. ASSUME NEW i \in 0 .. (n \div 2 - 1)
        PROVE  /\ Low(e, i) \in FirstCells(e, n) /\ Low(e, i) % 2 = 0
               /\ Low(e, i) + 1 = High(e, i) /\ High(e, i) \in FirstCells(e, n)
    BY <2>1, <2>2, <2>3
  <2>6. ASSUME NEW c \in FirstCells(e, n), c % 2 = 0, c + 1 \in FirstCells(e, n)
        PROVE  \E i \in 0 .. (n \div 2 - 1) : c = Low(e, i)
    BY <2>1, <2>2, <2>4, <2>6
  <2>7. ASSUME NEW i \in Nat, NEW j \in Nat, Low(e, i) = Low(e, j) PROVE i = j
    BY <2>2, <2>7
  <2>8. QED
    BY <2>5, <2>6, <2>7
<1>2. CASE e = BIG
  <2>1. \A i : Low(e, i) = Pos(BIG, 2 * i + 1) /\ High(e, i) = Pos(BIG, 2 * i)
    BY <1>2 DEF Low, High, LITTLE, BIG
  <2>2. ASSUME NEW i \in Nat
        PROVE  /\ Pos(BIG, 2 * i + 1) \in Nat /\ Pos(BIG, 2 * i) \in Nat
               /\ Pos(BIG, Pos(BIG, 2 * i + 1)) = 2 * i + 1
               /\ Pos(BIG, Pos(BIG, 2 * i)) = 2 * i
    <3>1. 2 * i \in Nat /\ 2 * i + 1 \in Nat
      OBVIOUS
    <3>2. QED
      BY <1>2, <3>1, PosInvolution
  <2>3. ASSUME NEW i \in 0 .. (n \div 2 - 1)
        PROVE  /\ Low(e, i) \in FirstCells(e, n) /\ Low(e, i) % 2 = 0
               /\ Low(e, i) + 1 = High(e, i) /\ High(e, i) \in FirstCells(e, n)
    <3>1. i \in Nat /\ 2 * i < n /\ 2 * i + 1 < n
      OBVIOUS
    <3>2. /\ Low(e, i) = Pos(BIG, 2 * i + 1) /\ High(e, i) = Pos(BIG, 2 * i)
          /\ Pos(BIG, 2 * i + 1) = Shifted(i) /\ Pos(BIG, 2 * i) = Shifted(i) + 1
          /\ Shifted(i) % 2 = 0
      BY <2>1, <3>1, BigCells
    <3>3. Low(e, i) \in FirstCells(e, n) /\ High(e, i) \in FirstCells(e, n)
      BY <1>2, <2>1, <2>2, <3>1 DEF FirstCells
    <3>4. QED
      BY <3>2, <3>3
  <2>4. ASSUME NEW c \in FirstCells(e, n), c % 2 = 0
        PROVE  \E i \in 0 .. (n \div 2 - 1) : c = Low(e, i)
    <3>1. c \in Nat /\ Pos(BIG, c) < n
      BY <1>2 DEF FirstCells
    <3>2. PICK i \in Nat : Pos(BIG, c) = 2 * i + 1
      BY <2>4, <3>1, EvenCells
    <3>3. i \in 0 .. (n \div 2 - 1)
      BY <3>1, <3>2
    <3>4. c = Low(e, i)
      BY <1>2, <2>1, <3>1, <3>2, PosInvolution
    <3>5. QED
      BY <3>3, <3>4
  <2>5. ASSUME NEW i \in Nat, NEW j \in Nat, Low(e, i) = Low(e, j) PROVE i = j
    <3>1. 2 * i + 1 = 2 * j + 1
      BY <2>1, <2>2, <2>5
    <3>2. QED
      BY <3>1
  <2>6. QED
    BY <2>3, <2>4, <2>5
<1>3. QED
  BY <1>1, <1>2 DEF Endian

\* The cells that commutes_with() looks at are those of the elements compared,
\* unless pad bits come into it.
LEMMA Compared ==
  ASSUME NEW e \in Endian, NEW n \in Nat,
         (n % ByteBits = 0) \/ (e = BIG /\ BYTES(n) % FastBytes # 0)
  PROVE  ComparedCells(n) = FirstCells(e, n)
<1> DEFINE q == n \div ByteBits
           r == n % ByteBits
<1>1. q \in Nat /\ r \in 0 .. (ByteBits - 1) /\ n = ByteBits * q + r
  BY DivMod
<1>2. CASE r = 0
  <2>1. n = ByteBits * q
    BY <1>1, <1>2, Widths
  <2>2. BYTES(n) = q
    BY <1>1, <2>1, BytesOfWhole
  <2>3. n % ByteBits = 0
    BY <1>2
  <2> HIDE DEF q, r
  <2>4. \A c \in Nat : 0 <= c % ByteBits
    BY DivMod
  <2>5. ComparedCells(n) = {c \in 0 .. (ByteBits * BYTES(n) - 1) :
          (c \div ByteBits = BYTES(n) - 1
             /\ BYTES(n) - 1 >= BYTES(n) - (BYTES(n) % FastBytes)) => c % ByteBits >= 0}
    BY <2>3 DEF ComparedCells
  <2>6. ComparedCells(n) = 0 .. (n - 1)
    <3>1. \A c \in 0 .. (n - 1) : c % ByteBits >= 0
      BY <2>4, DivMod
    <3>2. ByteBits * BYTES(n) = n
      BY <2>1, <2>2
    <3>3. QED
      BY <2>5, <3>1, <3>2
  <2>7. ASSUME NEW c \in Nat PROVE Pos(e, c) < n <=> c < n
    BY <1>1, <2>1, PosRange DEF Room
  <2>8. FirstCells(e, n) = {c \in Nat : c < n}
    BY <2>7 DEF FirstCells
  <2>9. QED
    BY <2>6, <2>8
<1>3. CASE r # 0
  <2>1. e = BIG /\ BYTES(n) % FastBytes # 0
    BY <1>3
  <2>2. n % ByteBits = r
    OBVIOUS
  <2> HIDE DEF q, r
  <2>3. BYTES(n) = q + 1
    <3>1. n + (ByteBits - 1) = ByteBits * (q + 1) + (r - 1)
      BY <1>1, Widths
    <3>2. r - 1 \in 0 .. (ByteBits - 1) /\ q + 1 \in Nat
      BY <1>1, <1>3, Widths
    <3>3. QED
      BY <3>1, <3>2, DivUnique DEF BYTES
  <2>4. q >= (q + 1) - ((q + 1) % FastBytes)
    <3>1. q + 1 \in Nat /\ FastBytes \in Nat \ {0}
      BY <1>1, StringAssumption
    <3>2. (q + 1) % FastBytes \in 0 .. (FastBytes - 1)
      BY <3>1, Quotient
    <3>3. (q + 1) % FastBytes # 0
      BY <2>1, <2>3
    <3>4. QED
      BY <1>1, <3>1, <3>2, <3>3
  <2>5. ComparedCells(n) = {c \in 0 .. (ByteBits * (q + 1) - 1) :
                              c \div ByteBits = q => c % ByteBits >= ByteBits - r}
    <3>1. (q + 1) - 1 = q
      BY <1>1
    <3>2. QED
      BY <1>3, <2>2, <2>3, <2>4, <3>1 DEF ComparedCells
  <2>6. ASSUME NEW c \in Nat
        PROVE  (/\ c < ByteBits * (q + 1)
                /\ (c \div ByteBits = q => c % ByteBits >= ByteBits - r)) <=> Pos(BIG, c) < n
    <3> DEFINE p == c \div ByteBits
               t == c % ByteBits
    <3>1. p \in Nat /\ t \in 0 .. (ByteBits - 1) /\ c = ByteBits * p + t
      BY DivMod
    <3>2. p = c \div ByteBits /\ t = c % ByteBits
      OBVIOUS
    <3> HIDE DEF p, t
    <3>3. Pos(BIG, c) = ByteBits * p + (ByteBits - 1 - t)
      BY <3>1, PosBig
    <3> DEFINE X == ByteBits * q
               Y == ByteBits * p
    <3>4. ByteBits * (q + 1) = X + ByteBits /\ X \in Nat /\ Y \in Nat
      BY <1>1, <3>1, Widths
    <3>5. c = Y + t /\ Pos(BIG, c) = Y + (ByteBits - 1 - t) /\ n = X + r
      BY <1>1, <3>1, <3>3
    <3>6. /\ p < q => Y + ByteBits <= X
          /\ q < p => X + ByteBits <= Y
          /\ p = q => X = Y
      <4>1. ASSUME NEW u \in Nat, NEW v \in Nat, u < v
            PROVE  ByteBits * u + ByteBits <= ByteBits * v
        <5>1. ByteBits * (u + 1) <= ByteBits * v
          BY <4>1, Widths, Monotonic
        <5>2. ByteBits * (u + 1) = ByteBits * u + ByteBits
          BY Widths
        <5>3. QED
          BY <5>1, <5>2
      <4>2. QED
        BY <1>1, <3>1, <4>1
    <3> HIDE DEF X, Y
    <3>7. (c < X + ByteBits /\ (p = q => t >= ByteBits - r)) <=> Y + (ByteBits - 1 - t) < n
      BY <1>1, <3>1, <3>4, <3>5, <3>6, Widths
    <3>8. QED
      BY <3>2, <3>4, <3>5, <3>7
  <2>7. \A c : c \in 0 .. (ByteBits * (q + 1) - 1) <=> (c \in Nat /\ c < ByteBits * (q + 1))
    <3> DEFINE k == ByteBits * (q + 1)
    <3>1. k \in Nat
      BY <1>1, Widths
    <3> HIDE DEF k
    <3>2. \A c : c \in 0 .. (k - 1) <=> (c \in Nat /\ c < k)
      BY <3>1
    <3>3. QED
      BY <3>2 DEF k
  <2>8. \A c : c \in ComparedCells(n) <=> c \in FirstCells(e, n)
    BY <2>1, <2>5, <2>6, <2>7 DEF FirstCells
  <2>9. ComparedCells(n) \subseteq Nat /\ FirstCells(e, n) \subseteq Nat
    BY <2>5 DEF FirstCells
  <2>10. QED
    BY <2>8
<1>4. QED
  BY <1>2, <1>3

\* Where two strings cross: an even bit of x meets an odd one of y.
Crossing(x, y, n) == {i \in 0 .. (n \div 2 - 1) : Even(x, i) = 1 /\ Odd(y, i) = 1}

\* The cells at which commutes_with() finds bits set are as many as the pairs of
\* bits that cross.
LEMMA CrossedPairs ==
  ASSUME NEW e \in Endian, NEW n \in Nat, NEW x \in Array, NEW y \in Array,
         x.endian = e, y.endian = e, n <= x.nbits, n <= y.nbits
  PROVE  Crossed(x, y, FirstCells(e, n)) =
           Cardinality(IF e = LITTLE THEN Crossing(x, y, n) ELSE Crossing(y, x, n)) % 2
<1> DEFINE m == n \div 2
           C == FirstCells(e, n)
           S == IF e = LITTLE THEN Crossing(x, y, n) ELSE Crossing(y, x, n)
           X == {c \in C : c % 2 = 0 /\ x.mem[c] = 1 /\ c + 1 \in C /\ y.mem[c + 1] = 1}
           f == [i \in S |-> Low(e, i)]
<1>1. Crossed(x, y, C) = Cardinality(X) % 2
  BY DEF Crossed
<1>2. \A i : i \in S <=> (i \in 0 .. (m - 1) /\ x.mem[Low(e, i)] = 1 /\ y.mem[High(e, i)] = 1)
  <2>1. CASE e = LITTLE
    BY <2>1 DEF Crossing, Even, Odd, GET_BIT, GetBit, Low, High, Pos
  <2>2. CASE e = BIG
    <3>1. e # LITTLE
      BY <2>2 DEF LITTLE, BIG
    <3>2. \A i : /\ x.mem[Low(e, i)] = Odd(x, i)
                 /\ y.mem[High(e, i)] = Even(y, i)
      BY <2>2, <3>1 DEF Even, Odd, GET_BIT, GetBit, Low, High
    <3>3. QED
      BY <3>1, <3>2 DEF Crossing
  <2>3. QED
    BY <2>1, <2>2 DEF Endian
<1>3. S \in SUBSET (0 .. (m - 1)) /\ S \subseteq Nat
  BY DEF Crossing
<1>4. IsFiniteSet(S)
  <2>1. m \in Nat
    OBVIOUS
  <2> HIDE DEF m, S
  <2>2. QED
    BY <1>3, <2>1, TallyAll
<1>5. \A c : c \in X <=> (c \in C /\ c % 2 = 0 /\ x.mem[c] = 1 /\ c + 1 \in C /\ y.mem[c + 1] = 1)
  OBVIOUS
<1>6. /\ \A i \in 0 .. (m - 1) : /\ Low(e, i) \in C /\ Low(e, i) % 2 = 0
                                 /\ Low(e, i) + 1 = High(e, i) /\ High(e, i) \in C
      /\ \A c \in C : (c % 2 = 0 /\ c + 1 \in C) => \E i \in 0 .. (m - 1) : c = Low(e, i)
      /\ \A i, j \in Nat : Low(e, i) = Low(e, j) => i = j
  BY PairCells
<1> HIDE DEF S, X, C, m
<1>7. \A i \in S : f[i] = Low(e, i) /\ f[i] \in X
  BY <1>2, <1>5, <1>6
<1>8. \A c \in X : \E i \in S : f[i] = c
  <2>1. SUFFICES ASSUME NEW c \in X PROVE \E i \in S : f[i] = c
    OBVIOUS
  <2>2. PICK i \in 0 .. (m - 1) : c = Low(e, i)
    BY <1>5, <1>6
  <2>3. x.mem[Low(e, i)] = 1 /\ y.mem[High(e, i)] = 1
    BY <1>5, <1>6, <2>2
  <2>4. i \in S
    BY <1>2, <2>3
  <2>5. QED
    BY <1>7, <2>2, <2>4
<1>9. f \in [S -> X]
  BY <1>7
<1>10. \A i, j \in S : f[i] = f[j] => i = j
  BY <1>3, <1>6, <1>7
<1> HIDE DEF f
<1>11. f \in Bijection(S, X)
  BY <1>8, <1>9, <1>10 DEF Bijection, Injection, Surjection, IsInjective
<1>12. Cardinality(X) = Cardinality(S)
  BY <1>4, <1>11, FS_Bijection DEF ExistsBijection
<1>13. QED
  BY <1>1, <1>12 DEF S, C

\* Two operators anticommute if exactly one of the two crossings is there.
LEMMA AnticommuteBits ==
  ASSUME NEW x, NEW y, NEW i, Even(x, i) \in Bit, Odd(x, i) \in Bit,
         Even(y, i) \in Bit, Odd(y, i) \in Bit
  PROVE  Anticommute(Operator(x, i), Operator(y, i)) <=>
           ~ ((Even(x, i) = 1 /\ Odd(y, i) = 1) <=> (Even(y, i) = 1 /\ Odd(x, i) = 1))
<1> DEFINE P == Operator(x, i)
           Q == Operator(y, i)
<1>1. /\ Even(x, i) = 1 <=> (P = "X" \/ P = "Y")
      /\ Odd(x, i) = 1 <=> (P = "Z" \/ P = "Y")
      /\ P = "I" \/ P = "X" \/ P = "Y" \/ P = "Z"
  BY OperatorBits DEF Bit
<1>2. /\ Even(y, i) = 1 <=> (Q = "X" \/ Q = "Y")
      /\ Odd(y, i) = 1 <=> (Q = "Z" \/ Q = "Y")
      /\ Q = "I" \/ Q = "X" \/ Q = "Y" \/ Q = "Z"
  BY OperatorBits DEF Bit
<1> HIDE DEF P, Q
<1>3. "I" # "X" /\ "I" # "Y" /\ "I" # "Z" /\ "X" # "Y" /\ "X" # "Z" /\ "Y" # "Z"
  OBVIOUS
<1>4. Anticommute(P, Q) <=>
        ~ ((Even(x, i) = 1 /\ Odd(y, i) = 1) <=> (Even(y, i) = 1 /\ Odd(x, i) = 1))
  BY <1>1, <1>2, <1>3 DEF Anticommute
<1>5. QED
  BY <1>4 DEF P, Q

\* The parities of two sets are equal if and only if their difference is even.
LEMMA EqualParity ==
  ASSUME NEW S, NEW T, IsFiniteSet(S), IsFiniteSet(T)
  PROVE  (Cardinality(S) % 2 = Cardinality(T) % 2) <=>
           (Cardinality((S \ T) \cup (T \ S)) % 2 = 0)
<1>1. /\ IsFiniteSet(S \ T) /\ Cardinality(S \ T) = Cardinality(S) - Cardinality(S \cap T)
      /\ IsFiniteSet(T \ S) /\ Cardinality(T \ S) = Cardinality(T) - Cardinality(T \cap S)
  BY FS_Difference
<1>2. T \cap S = S \cap T /\ (S \ T) \cap (T \ S) = {}
  OBVIOUS
<1>3. Cardinality((S \ T) \cup (T \ S)) =
        Cardinality(S \ T) + Cardinality(T \ S) - Cardinality((S \ T) \cap (T \ S))
  BY <1>1, FS_Union
<1>4. Cardinality({}) = 0
  BY FS_EmptySet
<1>5. IsFiniteSet(S \cap T)
  BY FS_Intersection
<1>6. Cardinality(S) \in Nat /\ Cardinality(T) \in Nat /\ Cardinality(S \cap T) \in Nat
  BY <1>5, FS_CardinalityType
<1> DEFINE s == Cardinality(S)
           t == Cardinality(T)
           u == Cardinality(S \cap T)
<1>7. Cardinality((S \ T) \cup (T \ S)) = s + t - 2 * u
  <2>1. Cardinality((S \ T) \cup (T \ S)) = (s - u) + (t - u) - 0
    BY <1>1, <1>2, <1>3, <1>4
  <2>2. s \in Nat /\ t \in Nat /\ u \in Nat
    BY <1>6
  <2> HIDE DEF s, t, u
  <2>3. QED
    BY <2>1, <2>2
<1>8. s \in Nat /\ t \in Nat /\ u \in Nat
  BY <1>6
<1> HIDE DEF s, t, u
<1>9. (s % 2 = t % 2) <=> ((s + t - 2 * u) % 2 = 0)
  BY <1>8
<1>10. QED
  BY <1>7, <1>9 DEF s, t

\* commutes_with() decides commutativity where no pad bits come into it.
LEMMA CommutesLemma ==
  ASSUME StringsTyped
  PROVE  CommutesMasked
<1> DEFINE n == MinBits(a, b)
           e == a.endian
<1>1. SUFFICES ASSUME a.endian = b.endian,
                      (n % ByteBits = 0) \/ (a.endian = BIG /\ BYTES(n) % FastBytes # 0)
               PROVE  CommutesWith(a, b) = Commute(a, b)
  BY DEF CommutesMasked
<1>2. n \in Nat /\ n <= a.nbits /\ n <= b.nbits /\ e \in Endian /\ b.endian = e
  BY <1>1, BitsGot DEF StringsTyped, MinBits, Array
<1>3. ComparedCells(n) = FirstCells(e, n)
  <2> HIDE DEF n
  <2>1. QED
    BY <1>1, <1>2, Compared
<1> DEFINE S == Crossing(a, b, n)
           T == Crossing(b, a, n)
<1>4. CommutesWith(a, b) = (Crossed(a, b, FirstCells(e, n)) = Crossed(b, a, FirstCells(e, n)))
  BY <1>3 DEF CommutesWith
<1>5. CommutesWith(a, b) <=> (Cardinality(S) % 2 = Cardinality(T) % 2)
  <2>1. a \in Array /\ b \in Array
    BY DEF StringsTyped
  <2>2. Crossed(a, b, FirstCells(e, n)) = Cardinality(IF e = LITTLE THEN S ELSE T) % 2
    <3> HIDE DEF n
    <3>1. QED
      BY <1>2, <2>1, CrossedPairs
  <2>3. Crossed(b, a, FirstCells(e, n)) = Cardinality(IF e = LITTLE THEN T ELSE S) % 2
    <3> HIDE DEF n
    <3>1. QED
      BY <1>2, <2>1, CrossedPairs
  <2> HIDE DEF S, T, n
  <2>4. QED
    BY <1>4, <2>2, <2>3
<1>6. IsFiniteSet(S) /\ IsFiniteSet(T)
  <2> DEFINE m == n \div 2
  <2>1. m \in Nat /\ S \in SUBSET (0 .. (m - 1)) /\ T \in SUBSET (0 .. (m - 1))
    BY <1>2 DEF Crossing
  <2> HIDE DEF S, T, m
  <2>2. QED
    BY <2>1, TallyAll
<1>7. {i \in 0 .. (n \div 2 - 1) : Anticommute(Operator(a, i), Operator(b, i))} =
        (S \ T) \cup (T \ S)
  <2>1. ASSUME NEW i \in 0 .. (n \div 2 - 1)
        PROVE  Anticommute(Operator(a, i), Operator(b, i)) <=> ~ ((i \in S) <=> (i \in T))
    <3>1. i \in Pairs(a) /\ i \in Pairs(b)
      <4>1. a.nbits \in Nat /\ b.nbits \in Nat
        BY BitsGot DEF StringsTyped
      <4> HIDE DEF n
      <4>2. QED
        BY <1>2, <4>1 DEF Pairs
    <3>2. /\ Even(a, i) \in Bit /\ Odd(a, i) \in Bit
          /\ Even(b, i) \in Bit /\ Odd(b, i) \in Bit
      BY <3>1, BitsGot DEF StringsTyped
    <3>3. /\ i \in S <=> (Even(a, i) = 1 /\ Odd(b, i) = 1)
          /\ i \in T <=> (Even(b, i) = 1 /\ Odd(a, i) = 1)
      BY DEF Crossing
    <3> HIDE DEF S, T, n
    <3>4. Anticommute(Operator(a, i), Operator(b, i)) <=>
            ~ ((Even(a, i) = 1 /\ Odd(b, i) = 1) <=> (Even(b, i) = 1 /\ Odd(a, i) = 1))
      BY <3>2, AnticommuteBits
    <3>5. QED
      BY <3>3, <3>4
  <2>2. S \subseteq 0 .. (n \div 2 - 1) /\ T \subseteq 0 .. (n \div 2 - 1)
    BY DEF Crossing
  <2> HIDE DEF S, T, n
  <2>3. QED
    BY <2>1, <2>2
<1>8. Commute(a, b) <=> (Cardinality((S \ T) \cup (T \ S)) % 2 = 0)
  BY <1>7 DEF Commute
<1>9. CommutesWith(a, b) \in BOOLEAN /\ Commute(a, b) \in BOOLEAN
  BY DEF CommutesWith, Commute
<1> HIDE DEF S, T
<1>10. QED
  BY <1>5, <1>6, <1>8, <1>9, EqualParity

-------------------------------------------------------------------------------
(***************************************************************************)
(* Texts, masks and indices.                                               *)
(***************************************************************************)
\* The number that stands for a decoded operator consists of its two bits.
LEMMA DecodedValue ==
  ASSUME NEW x \in Array, NEW i \in Pairs(x)
  PROVE  /\ Value(DecodeIxyz(x)[i]) % 2 = Odd(x, i)
         /\ Value(DecodeIxyz(x)[i]) \div 2 = Even(x, i)
<1> DEFINE e == Even(x, i)
           o == Odd(x, i)
<1>1. (e = 0 \/ e = 1) /\ (o = 0 \/ o = 1)
  BY BitsGot DEF Bit
<1>2. DecodeIxyz(x)[i] = DECODE_MAP[2 * o + e]
  BY DEF DecodeIxyz
<1> HIDE DEF e, o
<1>3. /\ DECODE_MAP[0] = "I" /\ DECODE_MAP[1] = "X"
      /\ DECODE_MAP[2] = "Z" /\ DECODE_MAP[3] = "Y"
  BY DEF DECODE_MAP
<1>4. Value("I") = 0 /\ Value("Z") = 1 /\ Value("X") = 2 /\ Value("Y") = 3
  BY DEF Value
<1>5. CASE e = 0 /\ o = 0
  BY <1>2, <1>3, <1>4, <1>5 DEF e, o
<1>6. CASE e = 1 /\ o = 0
  BY <1>2, <1>3, <1>4, <1>6 DEF e, o
<1>7. CASE e = 0 /\ o = 1
  BY <1>2, <1>3, <1>4, <1>7 DEF e, o
<1>8. CASE e = 1 /\ o = 1
  BY <1>2, <1>3, <1>4, <1>8 DEF e, o
<1>9. QED
  BY <1>1, <1>5, <1>6, <1>7, <1>8

\* The elements of an encoded text are the bits of its characters.
LEMMA EncodedBits ==
  ASSUME NEW n \in Nat, 2 * n <= ByteBits * MaxBytes, NEW s, NEW i \in 0 .. (n - 1),
         Value(s[i]) % 2 \in Bit, Value(s[i]) \div 2 \in Bit
  PROVE  /\ GET_BIT(EncodeIxyz(s, n), 2 * i) = Value(s[i]) \div 2
         /\ GET_BIT(EncodeIxyz(s, n), 2 * i + 1) = Value(s[i]) % 2
<1> DEFINE x == EncodeIxyz(s, n)
           Set(c) == \E k \in 0 .. (n - 1) :
                       \/ (c = Shifted(k) /\ Value(s[k]) % 2 = 1)
                       \/ (c = Shifted(k) + 1 /\ Value(s[k]) \div 2 = 1)
<1>1. x.endian = BIG /\ \A c \in Cells : x.mem[c] = IF Set(c) THEN 1 ELSE 0
  BY DEF EncodeIxyz
<1>2. /\ GET_BIT(x, 2 * i) = x.mem[Pos(BIG, 2 * i)]
      /\ GET_BIT(x, 2 * i + 1) = x.mem[Pos(BIG, 2 * i + 1)]
  BY <1>1 DEF GET_BIT, GetBit
<1>3. /\ Pos(BIG, 2 * i + 1) = Shifted(i) /\ Pos(BIG, 2 * i) = Shifted(i) + 1
      /\ Shifted(i) \in Nat
  BY BigCells
<1>4. Shifted(i) \in Cells /\ Shifted(i) + 1 \in Cells
  <2>1. 2 * i \in Nat /\ 2 * i + 1 \in Nat /\ 2 * i < Room(MaxBytes) /\ 2 * i + 1 < Room(MaxBytes)
    BY Widths DEF Room
  <2>2. BIG \in Endian
    BY DEF Endian
  <2>3. Pos(BIG, 2 * i) \in Cells /\ Pos(BIG, 2 * i + 1) \in Cells
    BY <2>1, <2>2, CellsFacts
  <2>4. QED
    BY <1>3, <2>3
<1>5. ASSUME NEW k \in Nat
      PROVE  /\ Shifted(k) = Shifted(i) => k = i
             /\ Shifted(k) # Shifted(i) + 1 /\ Shifted(k) + 1 # Shifted(i)
             /\ Shifted(k) + 1 = Shifted(i) + 1 => k = i
  <2>0. i \in Nat
    OBVIOUS
  <2>1. Shifted(k) \in Nat /\ Shifted(k) % 2 = 0 /\ Shifted(i) \in Nat /\ Shifted(i) % 2 = 0
    BY <2>0, BigCells
  <2>2. Shifted(k) = Low(BIG, k) /\ Shifted(i) = Low(BIG, i)
    BY <2>0, BigCells DEF Low, LITTLE, BIG
  <2>3. Shifted(k) = Shifted(i) => k = i
    <3>1. BIG \in Endian /\ 0 \in Nat
      BY DEF Endian
    <3>2. Low(BIG, k) = Low(BIG, i) => k = i
      BY <2>0, <3>1, PairCells
    <3>3. QED
      BY <2>2, <3>2
  <2>4. QED
    BY <2>1, <2>3
<1>6. /\ Set(Shifted(i)) <=> Value(s[i]) % 2 = 1
      /\ Set(Shifted(i) + 1) <=> Value(s[i]) \div 2 = 1
  BY <1>5
<1> HIDE DEF x, Set
<1>7. QED
  BY <1>1, <1>2, <1>3, <1>4, <1>6 DEF x, Bit

\* Encoding what has been decoded.
LEMMA TextsAgree ==
  ASSUME NEW x \in Array, x.nbits % 2 = 0
  PROVE  LET y == EncodeIxyz(DecodeIxyz(x), x.nbits \div 2)
         IN  Elements(y, y.mem) = Elements(x, x.mem)
<1> DEFINE n == x.nbits \div 2
           s == DecodeIxyz(x)
           y == EncodeIxyz(s, n)
<1>1. n \in Nat /\ x.nbits \in Nat /\ 2 * n = x.nbits /\ 2 * n <= ByteBits * MaxBytes
  BY BitsGot
<1>2. y.nbits = x.nbits
  BY <1>1 DEF EncodeIxyz
<1>3. ASSUME NEW j \in 0 .. (x.nbits - 1) PROVE GET_BIT(y, j) = GET_BIT(x, j)
  <2>1. PICK i \in 0 .. (n - 1) : j = 2 * i \/ j = 2 * i + 1
    <3>1. j \div 2 \in 0 .. (n - 1) /\ (j = 2 * (j \div 2) \/ j = 2 * (j \div 2) + 1)
      BY <1>1
    <3>2. QED
      BY <3>1
  <2>2. i \in Pairs(x)
    BY DEF Pairs
  <2>3. /\ Value(s[i]) % 2 = Odd(x, i) /\ Value(s[i]) \div 2 = Even(x, i)
        /\ Odd(x, i) \in Bit /\ Even(x, i) \in Bit
    BY <2>2, DecodedValue, BitsGot
  <2> HIDE DEF s, n
  <2>4. GET_BIT(y, 2 * i) = Even(x, i) /\ GET_BIT(y, 2 * i + 1) = Odd(x, i)
    BY <1>1, <2>3, EncodedBits
  <2>5. QED
    BY <2>1, <2>4 DEF Even, Odd
<1> HIDE DEF y
<1>4. QED
  BY <1>2, <1>3 DEF Elements, GET_BIT, y

\* The elements of the mask.
LEMMA MaskBits ==
  ASSUME NEW x \in Array
  PROVE  /\ NotIdentityMask(x).nbits = x.nbits \div 2
         /\ \A i \in Pairs(x) : GET_BIT(NotIdentityMask(x), i) =
                                  IF Even(x, i) = 1 \/ Odd(x, i) = 1 THEN 1 ELSE 0
<1> DEFINE y == NotIdentityMask(x)
           set == {Pos(BIG, i) : i \in {j \in Pairs(x) : Even(x, j) = 1 \/ Odd(x, j) = 1}}
<1>1. /\ y.nbits = x.nbits \div 2 /\ y.endian = BIG
      /\ \A c \in Cells : y.mem[c] = IF c \in set THEN 1 ELSE 0
  BY DEF NotIdentityMask
<1>2. ASSUME NEW i \in Pairs(x)
      PROVE  GET_BIT(y, i) = IF Even(x, i) = 1 \/ Odd(x, i) = 1 THEN 1 ELSE 0
  <2>1. x.nbits \in Nat /\ x.nbits <= ByteBits * MaxBytes
    BY BitsGot
  <2>2. ASSUME NEW j \in Pairs(x)
        PROVE  j \in Nat /\ Pos(BIG, j) \in Cells /\ Pos(BIG, Pos(BIG, j)) = j
    <3>1. j \in Nat /\ j < Room(MaxBytes)
      BY <2>1, Widths DEF Pairs, Room
    <3>2. QED
      BY <3>1, CellsFacts DEF Endian
  <2>3. Pos(BIG, i) \in set <=> (Even(x, i) = 1 \/ Odd(x, i) = 1)
    <3>1. ASSUME NEW j \in Pairs(x), Pos(BIG, j) = Pos(BIG, i) PROVE j = i
      <4>1. Pos(BIG, Pos(BIG, j)) = j /\ Pos(BIG, Pos(BIG, i)) = i
        BY <2>2
      <4>2. QED
        BY <3>1, <4>1
    <3>2. QED
      BY <3>1
  <2>4. GET_BIT(y, i) = y.mem[Pos(BIG, i)]
    BY <1>1 DEF GET_BIT, GetBit
  <2> HIDE DEF y, set
  <2>5. QED
    BY <1>1, <2>2, <2>3, <2>4
<1>3. QED
  BY <1>1, <1>2

\* The index of a diagonal string.
LEMMA DiagonalDigits ==
  ASSUME NEW x \in Array, NEW n, n = x.nbits \div 2
  PROVE  IF \E i \in Pairs(x) : Even(x, i) = 1 THEN DiagonalIndex(x) = -1
         ELSE /\ DiagonalIndex(x) \in 0 .. (Power[n] - 1)
              /\ \A i \in Pairs(x) : (DiagonalIndex(x) \div Power[n - 1 - i]) % 2 = Odd(x, i)
<1>1. CASE \E i \in Pairs(x) : Even(x, i) = 1
  BY <1>1 DEF DiagonalIndex
<1>2. CASE ~ \E i \in Pairs(x) : Even(x, i) = 1
  <2> DEFINE s == [i \in Pairs(x) |-> Odd(x, i)]
  <2>1. n \in Nat /\ Pairs(x) = 0 .. (n - 1)
    BY BitsGot DEF Pairs
  <2>2. \A i \in Pairs(x) : s[i] = Odd(x, i)
    OBVIOUS
  <2>3. DiagonalIndex(x) = Number(2, s)[n]
    BY <1>2 DEF DiagonalIndex
  <2> HIDE DEF s
  <2>4. \A i \in Nat : i < n => s[i] \in Bit
    BY <2>1, <2>2, BitsGot
  <2>5. \A k \in Nat : k <= n =>
           /\ Number(2, s)[k] \in 0 .. (Power[k] - 1)
           /\ \A i \in 0 .. (k - 1) : (Number(2, s)[k] \div Power[k - 1 - i]) % 2 = s[i]
    BY <2>1, <2>4, BinaryDigits
  <2>6. /\ Number(2, s)[n] \in 0 .. (Power[n] - 1)
        /\ \A i \in 0 .. (n - 1) : (Number(2, s)[n] \div Power[n - 1 - i]) % 2 = s[i]
    BY <2>1, <2>5
  <2>7. QED
    BY <1>2, <2>1, <2>2, <2>3, <2>6
<1>3. QED
  BY <1>1, <1>2

\* Texts, masks, indices and counts agree with the operators.
LEMMA StringsLemma ==
  ASSUME StringsTyped
  PROVE  StringsAgree
<1> DEFINE n    == a.nbits \div 2
           d    == DiagonalIndex(a)
           x    == EncodeIxyz(DecodeIxyz(a), n)
           mask == NotIdentityMask(a)
<1>1. a \in Array
  BY DEF StringsTyped
<1>2. ASSUME NEW i \in Pairs(a)
      PROVE  /\ Operator(a, i) \in {"X", "Y"} <=> Even(a, i) = 1
             /\ Operator(a, i) = "I" <=> ~ (Even(a, i) = 1 \/ Odd(a, i) = 1)
             /\ Operator(a, i) = "Y" <=> (Even(a, i) = 1 /\ Odd(a, i) = 1)
             /\ Even(a, i) # 1 => (Operator(a, i) = "Z" <=> Odd(a, i) = 1)
  <2>1. Even(a, i) \in Bit /\ Odd(a, i) \in Bit
    BY <1>1, BitsGot
  <2>2. QED
    BY <2>1, OperatorBits DEF Bit
<1>3. a.nbits % 2 = 0 => Elements(x, x.mem) = Elements(a, a.mem)
  BY <1>1, TextsAgree
<1>4. IF \E i \in Pairs(a) : Operator(a, i) \in {"X", "Y"} THEN d = -1
      ELSE a.endian = BIG =>
           /\ d \in 0 .. (Power[n] - 1)
           /\ \A i \in Pairs(a) : (d \div Power[n - 1 - i]) % 2 = 1 <=> Operator(a, i) = "Z"
  <2>1. IF \E i \in Pairs(a) : Even(a, i) = 1 THEN d = -1
        ELSE /\ d \in 0 .. (Power[n] - 1)
             /\ \A i \in Pairs(a) : (d \div Power[n - 1 - i]) % 2 = Odd(a, i)
    BY <1>1, DiagonalDigits
  <2>2. (\E i \in Pairs(a) : Operator(a, i) \in {"X", "Y"}) <=> \E i \in Pairs(a) : Even(a, i) = 1
    BY <1>2
  <2> HIDE DEF d, n
  <2>3. CASE \E i \in Pairs(a) : Even(a, i) = 1
    BY <2>1, <2>2, <2>3
  <2>4. CASE ~ \E i \in Pairs(a) : Even(a, i) = 1
    BY <1>2, <2>1, <2>2, <2>4
  <2>5. QED
    BY <2>3, <2>4
<1>5. /\ mask.nbits = n
      /\ \A i \in Pairs(a) : GET_BIT(mask, i) = IF Operator(a, i) = "I" THEN 0 ELSE 1
  BY <1>1, <1>2, MaskBits
<1>6. Pairs(a) = 0 .. (mask.nbits - 1)
  BY <1>5 DEF Pairs
<1>7. Elements(mask, mask.mem) = [i \in Pairs(a) |-> IF Operator(a, i) = "I" THEN 0 ELSE 1]
  <2> HIDE DEF mask
  <2>1. Elements(mask, mask.mem) = [i \in Pairs(a) |-> GET_BIT(mask, i)]
    BY <1>6 DEF Elements, GET_BIT
  <2>2. QED
    BY <1>5, <2>1
<1>8. CountNonTrivially(a) = Cardinality({i \in 0 .. (mask.nbits - 1) : GET_BIT(mask, i) = 1})
  <2> HIDE DEF mask
  <2>1. {i \in Pairs(a) : Even(a, i) = 1 \/ Odd(a, i) = 1} =
          {i \in 0 .. (mask.nbits - 1) : GET_BIT(mask, i) = 1}
    BY <1>2, <1>5, <1>6
  <2>2. QED
    BY <2>1 DEF CountNonTrivially
<1>9. ComplexConjugate(a) = Cardinality({i \in Pairs(a) : Operator(a, i) = "Y"})
  <2>1. {i \in Pairs(a) : Even(a, i) = 1 /\ Odd(a, i) = 1} =
          {i \in Pairs(a) : Operator(a, i) = "Y"}
    BY <1>2
  <2>2. QED
    BY <2>1 DEF ComplexConjugate
<1>10. QED
  BY <1>3, <1>4, <1>7, <1>8, <1>9 DEF StringsAgree

-------------------------------------------------------------------------------
(***************************************************************************)
(* The theorems.                                                           *)
(***************************************************************************)
\* phase() gives the exponent of the product of two strings, modulo 4, whatever
\* their pad bits and endiannesses are.
THEOREM PhasesRight == StringSpec => []PhaseCorrect
<1>1. StringsTyped => PhaseCorrect
  BY PhaseLemma
<1>2. QED
  BY <1>1, ArraysTyped, PTL

\* commutes_with() is right for big-endian strings whose last byte is not part
\* of a whole word, and for full bytes.
THEOREM CommutationRight == StringSpec => []CommutesMasked
<1>1. StringsTyped => CommutesMasked
  BY CommutesLemma
<1>2. QED
  BY <1>1, ArraysTyped, PTL

\* decode_ixyz(), encode_ixyz(), diagonal_index(), not_identity_mask(),
\* count_non_trivially() and complex_conjugate() agree about the operators.
THEOREM OperatorsRight == StringSpec => []StringsAgree
<1>1. StringsTyped => StringsAgree
  BY StringsLemma
<1>2. QED
  BY <1>1, ArraysTyped, PTL
===============================================================================
