----------------------------- MODULE InductionLemmas --------------------------
(***************************************************************************)
(* Induction over the natural numbers for sets in place of predicates, and *)
(* what follows from it for bounded sets of integers and for division.     *)
(***************************************************************************)
EXTENDS Integers, FiniteSetsExt, WellFoundedInduction, TLAPS

LT == {ss \in Nat \X Nat : ss[1] < ss[2]}

\* The natural numbers are well ordered.
LEMMA LTWellFounded == IsWellFoundedOn(LT, Nat)
BY NatLessThanWellFounded DEF LT, OpToRel

\* A set of natural numbers that is not empty has a least element.
LEMMA LeastNatural ==
  ASSUME NEW S \in SUBSET Nat, S # {}
  PROVE  \E x \in S : \A y \in S : x <= y
<1>1. PICK x \in S : \A y \in S : ~ (<<y, x>> \in LT)
  BY LTWellFounded, WFMin
<1>2. ASSUME NEW y \in S PROVE x <= y
  <2>1. x \in Nat /\ y \in Nat
    OBVIOUS
  <2>2. ~ (<<y, x>> \in LT)
    BY <1>1
  <2>3. ~ (y < x)
    BY <2>1, <2>2 DEF LT
  <2>4. QED
    BY <2>1, <2>3
<1>3. QED
  BY <1>2

\* Induction.
LEMMA SetInduction ==
  ASSUME NEW S, 0 \in S, \A n \in Nat : n \in S => n + 1 \in S
  PROVE  Nat \subseteq S
<1>1. SUFFICES ASSUME ~ (Nat \subseteq S) PROVE FALSE
  OBVIOUS
<1> DEFINE T == {n \in Nat : n \notin S}
<1>2. T # {} /\ T \in SUBSET Nat
  BY <1>1
<1>3. PICK x \in T : \A y \in T : x <= y
  <2> HIDE DEF T
  <2> QED
    BY <1>2, LeastNatural
<1>4. x # 0 /\ x \in Nat /\ x \notin S
  OBVIOUS
<1>5. x - 1 \in Nat /\ x - 1 \notin T
  BY <1>3, <1>4
<1>6. QED
  BY <1>4, <1>5

\* The same between two bounds.
LEMMA RangeInduction ==
  ASSUME NEW a \in Int, NEW b \in Int, NEW S,
         a <= b => a \in S, \A i \in a .. (b - 1) : i \in S => i + 1 \in S
  PROVE  a .. b \subseteq S
<1> DEFINE T == {n \in Nat : a + n <= b => a + n \in S}
<1>1. 0 \in T
  OBVIOUS
<1>2. ASSUME NEW n \in Nat, n \in T PROVE n + 1 \in T
  <2>1. SUFFICES ASSUME a + (n + 1) <= b PROVE a + (n + 1) \in S
    OBVIOUS
  <2>2. a + n \in a .. (b - 1)
    BY <2>1
  <2>3. a + n \in S
    BY <1>2, <2>2
  <2>4. (a + n) + 1 \in S
    BY <2>2, <2>3
  <2>5. QED
    BY <2>4
<1> HIDE DEF T
<1>3. Nat \subseteq T
  BY <1>1, <1>2, SetInduction
<1>4. ASSUME NEW i \in a .. b PROVE i \in S
  <2>1. i - a \in T
    BY <1>3
  <2>2. a + (i - a) = i
    OBVIOUS
  <2>3. QED
    BY <2>1, <2>2 DEF T
<1>5. QED
  BY <1>4

\* What n turns of a loop leave: from a, step by step.
Turns(F, n, a, step) ==
  F[0] = a /\ \A i \in 1 .. n : F[i] = step[<<i, F[i - 1]>>]

\* There is such a thing.
LEMMA LoopExists ==
  ASSUME NEW n \in Nat, NEW V, NEW a \in V, NEW step \in [(1 .. n) \X V -> V]
  PROVE  \E F \in [0 .. n -> V] : Turns(F, n, a, step)
<1> DEFINE S == {k \in 0 .. n : \E F \in [0 .. k -> V] : Turns(F, k, a, step)}
<1>1. 0 \in S
  <2> DEFINE F == [i \in 0 .. 0 |-> a]
  <2>1. F \in [0 .. 0 -> V] /\ F[0] = a /\ 1 .. 0 = {}
    OBVIOUS
  <2> HIDE DEF F
  <2>2. Turns(F, 0, a, step)
    BY <2>1 DEF Turns
  <2>3. QED
    BY <2>1, <2>2
<1>2. ASSUME NEW k \in 0 .. (n - 1), k \in S PROVE k + 1 \in S
  <2>1. PICK F \in [0 .. k -> V] : Turns(F, k, a, step)
    BY <1>2
  <2> DEFINE v == step[<<k + 1, F[k]>>]
             G == [i \in 0 .. (k + 1) |-> IF i = k + 1 THEN v ELSE F[i]]
  <2>2. k + 1 \in 1 .. n /\ F[k] \in V
    OBVIOUS
  <2>3. v \in V
    BY <2>2
  <2>4. \A i \in 0 .. k : i \in 0 .. (k + 1) /\ i # k + 1
    OBVIOUS
  <2>5. G \in [0 .. (k + 1) -> V] /\ G[k + 1] = v /\ \A i \in 0 .. k : G[i] = F[i]
    <3>1. \A i \in 0 .. (k + 1) : i # k + 1 => i \in 0 .. k
      OBVIOUS
    <3> HIDE DEF v
    <3>2. QED
      BY <2>3, <2>4, <3>1
  <2> HIDE DEF G
  <2>6. Turns(G, k + 1, a, step)
    <3>1. G[0] = a
      BY <2>1, <2>5 DEF Turns
    <3>2. ASSUME NEW i \in 1 .. (k + 1) PROVE G[i] = step[<<i, G[i - 1]>>]
      <4>1. i - 1 \in 0 .. k
        OBVIOUS
      <4>2. CASE i = k + 1
        <5>1. G[i] = v /\ G[i - 1] = F[k]
          BY <2>5, <4>1, <4>2
        <5>2. QED
          BY <4>2, <5>1
      <4>3. CASE i # k + 1
        <5>1. i \in 1 .. k /\ i \in 0 .. k
          BY <4>3
        <5>2. QED
          BY <2>1, <2>5, <4>1, <5>1 DEF Turns
      <4>4. QED
        BY <4>2, <4>3
    <3>3. QED
      BY <3>1, <3>2 DEF Turns
  <2>7. QED
    BY <2>5, <2>6
<1> HIDE DEF S
<1>3. 0 .. n \subseteq S
  BY <1>1, <1>2, RangeInduction
<1>4. n \in S
  BY <1>3
<1>5. QED
  BY <1>4 DEF S

\* The least and the greatest element of a set of integers between two bounds.
LEMMA Minimum ==
  ASSUME NEW a \in Int, NEW b \in Int, NEW S \in SUBSET (a .. b), S # {}
  PROVE  Min(S) \in S /\ \A x \in S : Min(S) <= x
<1> DEFINE T == {x - a : x \in S}
<1>1. T \in SUBSET Nat /\ T # {}
  <2>1. \A x \in S : x - a \in Nat
    OBVIOUS
  <2>2. QED
    BY <2>1
<1>2. PICK m \in T : \A x \in T : m <= x
  <2> HIDE DEF T
  <2> QED
    BY <1>1, LeastNatural
<1>3. PICK x \in S : m = x - a
  OBVIOUS
<1>4. ASSUME NEW y \in S PROVE x <= y
  <2>1. y - a \in T
    OBVIOUS
  <2>2. m <= y - a
    BY <1>2, <2>1
  <2>3. QED
    BY <1>3, <2>2
<1>5. \E z \in S : \A y \in S : z =< y
  BY <1>4
<1>6. QED
  BY <1>5 DEF Min

\* A bounded set of integers that is not empty has a greatest element.
LEMMA Maximum ==
  ASSUME NEW a \in Int, NEW b \in Int, NEW S \in SUBSET (a .. b), S # {}
  PROVE  Max(S) \in S /\ \A x \in S : x <= Max(S)
<1> DEFINE T == {b - x : x \in S}
<1>1. T \in SUBSET Nat /\ T # {}
  <2>1. \A x \in S : b - x \in Nat
    OBVIOUS
  <2>2. QED
    BY <2>1
<1>2. PICK m \in T : \A x \in T : m <= x
  <2> HIDE DEF T
  <2> QED
    BY <1>1, LeastNatural
<1>3. PICK x \in S : m = b - x
  OBVIOUS
<1>4. ASSUME NEW y \in S PROVE y <= x
  <2>1. b - y \in T
    OBVIOUS
  <2>2. m <= b - y
    BY <1>2, <2>1
  <2>3. QED
    BY <1>3, <2>2
<1>5. \E z \in S : \A y \in S : z >= y
  BY <1>4
<1>6. Max(S) \in S /\ \A y \in S : Max(S) >= y
  BY <1>5 DEF Max
<1>7. QED
  BY <1>6

\* A product is monotonic in a factor.
LEMMA Monotonic ==
  ASSUME NEW B \in Nat, NEW p \in Int, NEW q \in Int, p <= q
  PROVE  B * p <= B * q
<1>1. B * (q - p) >= 0
  BY SMT
<1>2. B * (q - p) = B * q - B * p
  BY SMT
<1>3. B * p \in Int /\ B * q \in Int
  OBVIOUS
<1>4. QED
  BY <1>1, <1>2, <1>3

\* Quotient and remainder are determined by any representation with a proper
\* remainder.
LEMMA Division ==
  ASSUME NEW B \in Nat \ {0}, NEW q \in Int, NEW r \in 0 .. (B - 1)
  PROVE  (B * q + r) \div B = q /\ (B * q + r) % B = r
<1> DEFINE n == B * q + r
           d == n \div B
           e == n % B
<1>1. n \in Int
  OBVIOUS
<1>2. d \in Int /\ e \in 0 .. (B - 1) /\ n = B * d + e
  BY <1>1
<1> HIDE DEF d, e
<1>3. ~ (d <= q - 1)
  <2>1. SUFFICES ASSUME d <= q - 1 PROVE FALSE
    OBVIOUS
  <2>2. B * d <= B * (q - 1)
    BY <1>2, <2>1, Monotonic
  <2>3. B * (q - 1) = B * q - B
    OBVIOUS
  <2>4. B * d \in Int /\ B * q \in Int
    BY <1>2
  <2>5. QED
    BY <1>2, <2>2, <2>3, <2>4
<1>4. ~ (q + 1 <= d)
  <2>1. SUFFICES ASSUME q + 1 <= d PROVE FALSE
    OBVIOUS
  <2>2. B * (q + 1) <= B * d
    BY <1>2, <2>1, Monotonic
  <2>3. B * (q + 1) = B * q + B
    OBVIOUS
  <2>4. B * d \in Int /\ B * q \in Int
    BY <1>2
  <2>5. QED
    BY <1>2, <2>2, <2>3, <2>4
<1>5. d = q
  BY <1>2, <1>3, <1>4
<1>6. e = r
  BY <1>2, <1>5
<1>7. QED
  BY <1>5, <1>6 DEF d, e
===============================================================================
