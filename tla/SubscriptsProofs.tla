--------------------------- MODULE SubscriptsProofs ---------------------------
(***************************************************************************)
(* Slices, masks and sequences of indices select, assign and delete the    *)
(* elements that they should, for arrays of any length and any contents    *)
(* which share memory in any way.                                          *)
(***************************************************************************)
EXTENDS Subscripts, InductionLemmas, FiniteSetTheorems, SequenceTheorems

Bit    == {0, 1}
Memory == [0 .. (Bits - 1) -> Bit]

\* An array in the exported buffer.
Inside(v) ==
  /\ v = Shared(v.off, v.nbits, v.pinned)
  /\ v.off \in Nat /\ v.nbits \in Nat /\ v.pinned \in BOOLEAN /\ Within(v)

\* An array elsewhere.
Apart(v) ==
  /\ v = Own(v.own, v.nbits)
  /\ v.nbits \in Nat /\ v.own \in [0 .. (v.nbits - 1) -> Bit]

View(v) == Inside(v) \/ Apart(v)

IInv == Inside(self) /\ mem \in Memory /\ calls \in Nat

\* The build does not overflow: the indices of an array and a step beyond its end
\* are integers.
NoOverflow == Bits + MaxStep <= MaxInt

-------------------------------------------------------------------------------
(***************************************************************************)
(* The arithmetic of slices.                                               *)
(***************************************************************************)
\* A number lies between two multiples.
LEMMA Quotient ==
  ASSUME NEW d \in Nat, NEW B \in Nat \ {0}
  PROVE  /\ d \div B \in Nat
         /\ B * (d \div B) <= d /\ d < B * (d \div B) + B
OBVIOUS

\* A slice whose bounds lie in an array of n elements, and which has as many
\* elements as lie between these.
Regular(s, n) ==
  /\ s = Slice(s.start, s.stop, s.step, s.length)
  /\ s.start \in Int /\ s.stop \in Int /\ s.step \in Int /\ s.length \in Nat
  /\ s.step # 0
  /\ s.step > 0 =>
       /\ s.start \in 0 .. n /\ s.stop \in 0 .. n
       /\ s.length = 0 => s.stop <= s.start
       /\ s.length > 0 => /\ s.start + s.step * (s.length - 1) < s.stop
                          /\ s.stop <= s.start + s.step * s.length
  /\ s.step < 0 =>
       /\ s.start \in (-1) .. (n - 1) /\ s.stop \in (-1) .. (n - 1)
       /\ s.length = 0 => s.start <= s.stop
       /\ s.length > 0 => /\ s.start + s.step * (s.length - 1) > s.stop
                          /\ s.stop >= s.start + s.step * s.length

\* Clipping brings a bound into the array.
LEMMA ClippedRange ==
  ASSUME NEW n \in Nat, NEW v \in Int, NEW step \in Int
  PROVE  Clipped(v, n, step) \in IF step < 0 THEN (-1) .. (n - 1) ELSE 0 .. n
<1> DEFINE u == IF v < 0 THEN v + n ELSE v
<1>1. u \in Int
  OBVIOUS
<1> HIDE DEF u
<1>2. Clipped(v, n, step) =
        IF step < 0
        THEN CASE u < 0 -> -1 [] u >= n -> n - 1 [] u \in 0 .. (n - 1) -> u
        ELSE CASE u < 0 -> 0 [] u >= n -> n [] u \in 0 .. (n - 1) -> u
  BY DEF Clipped, u
<1>3. CASE u < 0
  BY <1>1, <1>2, <1>3
<1>4. CASE u >= n
  BY <1>1, <1>2, <1>4
<1>5. CASE u \in 0 .. (n - 1)
  BY <1>1, <1>2, <1>5
<1>6. QED
  BY <1>1, <1>3, <1>4, <1>5

\* PySlice_AdjustIndices()
LEMMA AdjustedRegular ==
  ASSUME NEW n \in Nat, NEW start \in Int, NEW stop \in Int, NEW step \in Int, step # 0
  PROVE  Regular(AdjustIndices(n, start, stop, step), n)
<1> DEFINE a == Clipped(start, n, step)
           b == Clipped(stop, n, step)
           len == CASE step < 0 /\ b < a -> (a - b - 1) \div (-step) + 1
                    [] step > 0 /\ a < b -> (b - a - 1) \div step + 1
                    [] OTHER -> 0
           s == Slice(a, b, step, len)
<1>1. AdjustIndices(n, start, stop, step) = s
  BY DEF AdjustIndices
<1>2. /\ a \in IF step < 0 THEN (-1) .. (n - 1) ELSE 0 .. n
      /\ b \in IF step < 0 THEN (-1) .. (n - 1) ELSE 0 .. n
  BY ClippedRange
<1> HIDE DEF a, b
<1>3. a \in Int /\ b \in Int
  BY <1>2
<1>4. s.start = a /\ s.stop = b /\ s.step = step /\ s.length = len
      /\ s = Slice(s.start, s.stop, s.step, s.length)
  BY DEF Slice
<1>5. CASE step > 0 /\ a < b
  <2> DEFINE d == b - a - 1
             q == d \div step
  <2>1. d \in Nat /\ step \in Nat \ {0}
    BY <1>3, <1>5
  <2>2. len = q + 1
    BY <1>3, <1>5
  <2> HIDE DEF d, len
  <2>3. q \in Nat /\ step * q <= d /\ d < step * q + step
    BY <2>1, Quotient
  <2> HIDE DEF q, s
  <2>4. step * (len - 1) = step * q /\ step * len = step * q + step /\ step * q \in Int
    BY <2>2, <2>3
  <2> DEFINE x == step * q
  <2> HIDE DEF x
  <2>5. /\ len \in Nat /\ len > 0 /\ a + step * (len - 1) < b /\ b <= a + step * len
    <3>1. x \in Int /\ x <= d /\ d < x + step /\ step * (len - 1) = x /\ step * len = x + step
      BY <2>3, <2>4 DEF x
    <3>2. a + x < b /\ b <= a + (x + step)
      BY <3>1, <2>1, <1>3 DEF d
    <3>3. QED
      BY <3>1, <3>2, <2>2, <2>3
  <2>6. QED
    BY <1>1, <1>2, <1>3, <1>4, <1>5, <2>5 DEF Regular
<1>6. CASE step < 0 /\ b < a
  <2> DEFINE d == a - b - 1
             B == -step
             q == d \div B
  <2>1. d \in Nat /\ B \in Nat \ {0} /\ step = -B
    BY <1>3, <1>6
  <2>2. len = q + 1
    BY <1>3, <1>6
  <2> HIDE DEF d, len, B
  <2>3. q \in Nat /\ B * q <= d /\ d < B * q + B
    BY <2>1, Quotient
  <2> HIDE DEF q, s
  <2>4. step * (len - 1) = - (B * q) /\ step * len = - (B * q + B) /\ B * q \in Int
    BY <2>1, <2>2, <2>3
  <2> DEFINE x == B * q
  <2> HIDE DEF x
  <2>5. /\ len \in Nat /\ len > 0 /\ a + step * (len - 1) > b /\ b >= a + step * len
    <3>1. x \in Int /\ x <= d /\ d < x + B /\ step * (len - 1) = -x /\ step * len = -(x + B)
      BY <2>3, <2>4 DEF x
    <3>2. a + (-x) > b /\ b >= a + (-(x + B))
      BY <3>1, <2>1, <1>3 DEF d
    <3>3. QED
      BY <3>1, <3>2, <2>2, <2>3
  <2>6. QED
    BY <1>1, <1>2, <1>3, <1>4, <1>6, <2>5 DEF Regular
<1>7. CASE ~(step > 0 /\ a < b) /\ ~(step < 0 /\ b < a)
  <2>1. len = 0
    BY <1>7
  <2> HIDE DEF len, s
  <2>2. QED
    BY <1>1, <1>2, <1>3, <1>4, <1>7, <2>1 DEF Regular
<1>8. QED
  BY <1>5, <1>6, <1>7

\* Integers of the width of Py_ssize_t are not changed by Wrap.
LEMMA WrapFits ==
  ASSUME NEW v \in (-(MaxInt + 1)) .. MaxInt
  PROVE  Wrap(v) = v
<1> DEFINE B == 2 * (MaxInt + 1)
           r == v + MaxInt + 1
<1>1. MaxInt \in Nat \ {0} /\ v \in Int /\ B \in Nat \ {0}
  BY MaxIntAssumption
<1>2. r \in 0 .. (B - 1) /\ r - (MaxInt + 1) = v
  BY <1>1
<1> HIDE DEF B, r
<1>3. (B * 0 + r) % B = r
  BY <1>1, <1>2, Division
<1>4. r % B = r
  BY <1>1, <1>2, <1>3
<1>5. Wrap(v) = (r % B) - (MaxInt + 1)
  BY DEF Wrap, r, B
<1>6. QED
  BY <1>2, <1>4, <1>5

\* The slice runs upwards, and ends with its last element at the latest a step before
\* stop.
Upwards(t, n) ==
  /\ t = Slice(t.start, t.stop, t.step, t.length)
  /\ t.start \in 0 .. (n + MaxStep) /\ t.stop \in 0 .. n
  /\ t.step \in 1 .. MaxStep /\ t.length \in Nat
  /\ t.length = 0 => t.stop <= t.start
  /\ t.length > 0 => /\ t.start + t.step * (t.length - 1) < t.stop
                     /\ t.stop <= t.start + t.step * t.length

\* A product and one of its factors.
LEMMA Products ==
  ASSUME NEW B \in Nat \ {0}, NEW j \in Nat
  PROVE  B * j \in Nat /\ j <= B * j /\ B * (j + 1) = B * j + B
<1>1. 1 * j <= B * j
  <2>1. j * 1 <= j * B
    BY Monotonic
  <2>2. QED
    BY <2>1
<1>2. QED
  BY <1>1

\* adjust_step_positive() leaves a slice that runs upwards as it is, and describes the
\* elements of one that runs downwards in the opposite order.
LEMMA TurnedRound ==
  ASSUME NoOverflow, NEW n \in 0 .. Bits, NEW s, Regular(s, n), s.step \in (-MaxStep) .. MaxStep,
         ~(s.step > 0)
  PROVE  \E B \in 1 .. MaxStep, y \in Int :
           /\ s.step = -B /\ s.step * (s.length - 1) = -y /\ B * (s.length - 1) = y
           /\ s.length = 0 => y = -B
           /\ s.length > 0 => /\ 0 <= y /\ s.start - y > s.stop /\ s.stop >= s.start - y - B
                              /\ B * s.length = y + B
           /\ AdjustStepPositive(s) = Slice(s.start - y, s.start + 1, B, s.length)
<1> DEFINE B == -s.step
           len == s.length
           y == B * (len - 1)
<1>1. /\ MaxInt \in Nat \ {0} /\ MaxStep \in Nat /\ MaxStep <= MaxInt /\ Bits < MaxInt
      /\ Bits \in Nat /\ n \in Nat /\ n + MaxStep <= MaxInt
  BY MaxIntAssumption, SubscriptsAssumption DEF NoOverflow
<1>2. s.step < 0 /\ B \in 1 .. MaxStep /\ len \in Nat /\ s.start \in (-1) .. (n - 1)
      /\ s.stop \in (-1) .. (n - 1) /\ s.step = -B
  BY <1>1 DEF Regular
<1>3. s.step * (len - 1) = -y /\ y \in Int
  BY <1>2
<1>4. /\ len = 0 => y = -B
      /\ len > 0 => 0 <= y /\ s.start - y > s.stop /\ s.stop >= s.start - y - B
                    /\ B * len = y + B
  <2>1. CASE len = 0
    BY <1>2, <2>1
  <2>2. CASE len > 0
    <3>1. y \in Nat
      BY <1>2, <2>2, Products
    <3>2. B * len = y + B
      <4>1. B * ((len - 1) + 1) = B * (len - 1) + B
        BY <1>2, <2>2, Products
      <4>2. QED
        BY <1>2, <4>1
    <3>3. s.step * len = -(B * len)
      BY <1>2
    <3>4. s.start + s.step * (len - 1) > s.stop /\ s.stop >= s.start + s.step * len
      BY <1>2, <2>2 DEF Regular
    <3> HIDE DEF y
    <3>5. QED
      BY <1>2, <1>3, <2>2, <3>1, <3>2, <3>3, <3>4
  <2>3. QED
    BY <1>2, <2>1, <2>2
<1>5. B * (len - 1) = y
  OBVIOUS
<1> HIDE DEF y
<1>6. Wrap(s.start + 1) = s.start + 1
  <2> DEFINE v == s.start + 1
  <2>1. v \in (-(MaxInt + 1)) .. MaxInt
    BY <1>1, <1>2
  <2> HIDE DEF v
  <2>2. Wrap(v) = v
    BY <2>1, WrapFits
  <2>3. QED
    BY <2>2 DEF v
<1>7. Wrap(s.step * (len - 1)) = -y
  <2> DEFINE v == -y
  <2>1. v \in (-(MaxInt + 1)) .. MaxInt
    BY <1>1, <1>2, <1>3, <1>4
  <2> HIDE DEF v
  <2>2. Wrap(v) = v
    BY <2>1, WrapFits
  <2>3. QED
    BY <1>3, <2>2 DEF v
<1>8. Wrap((s.start + 1) + (-y)) = (s.start + 1) + (-y)
  <2> DEFINE v == (s.start + 1) + (-y)
  <2>1. v \in (-(MaxInt + 1)) .. MaxInt
    BY <1>1, <1>2, <1>3, <1>4
  <2> HIDE DEF v
  <2>2. Wrap(v) = v
    BY <2>1, WrapFits
  <2>3. QED
    BY <2>2 DEF v
<1>9. Wrap(((s.start + 1) + (-y)) - 1) = s.start - y
  <2> DEFINE v == ((s.start + 1) + (-y)) - 1
  <2>1. v \in (-(MaxInt + 1)) .. MaxInt /\ v = s.start - y
    BY <1>1, <1>2, <1>3, <1>4
  <2> HIDE DEF v
  <2>2. Wrap(v) = v
    BY <2>1, WrapFits
  <2>3. QED
    BY <2>1, <2>2 DEF v
<1>10. AdjustStepPositive(s) = Slice(s.start - y, s.start + 1, B, len)
  <2>1. AdjustStepPositive(s) =
          Slice(Wrap(Wrap(Wrap(s.start + 1) + Wrap(s.step * (len - 1))) - 1),
                Wrap(s.start + 1), B, len)
    BY DEF AdjustStepPositive
  <2>2. QED
    BY <2>1, <1>6, <1>7, <1>8, <1>9
<1> HIDE DEF B
<1>11. QED
  BY <1>2, <1>3, <1>4, <1>5, <1>10

\* The slice then runs upwards.
LEMMA PositiveStep ==
  ASSUME NoOverflow, NEW n \in 0 .. Bits, NEW s, Regular(s, n), s.step \in (-MaxStep) .. MaxStep
  PROVE  Upwards(AdjustStepPositive(s), n)
<1>1. /\ MaxInt \in Nat \ {0} /\ MaxStep \in Nat /\ MaxStep <= MaxInt /\ Bits < MaxInt
      /\ Bits \in Nat /\ n \in Nat /\ n + MaxStep <= MaxInt
  BY MaxIntAssumption, SubscriptsAssumption DEF NoOverflow
<1>2. CASE s.step > 0
  <2>1. AdjustStepPositive(s) = s
    BY <1>2 DEF AdjustStepPositive
  <2>2. Upwards(s, n)
    BY <1>1, <1>2 DEF Regular, Upwards
  <2>3. QED
    BY <2>1, <2>2
<1>3. CASE ~(s.step > 0)
  <2>1. PICK B \in 1 .. MaxStep, y \in Int :
          /\ s.length = 0 => y = -B
          /\ B * (s.length - 1) = y
          /\ s.length > 0 => /\ 0 <= y /\ s.start - y > s.stop /\ s.stop >= s.start - y - B
                             /\ B * s.length = y + B
          /\ AdjustStepPositive(s) = Slice(s.start - y, s.start + 1, B, s.length)
    BY <1>3, TurnedRound
  <2> DEFINE t == AdjustStepPositive(s)
  <2>2. t.start = s.start - y /\ t.stop = s.start + 1 /\ t.step = B /\ t.length = s.length
        /\ t = Slice(t.start, t.stop, t.step, t.length)
    BY <2>1 DEF Slice
  <2> HIDE DEF t
  <2>3. s.length \in Nat /\ s.start \in (-1) .. (n - 1) /\ s.stop \in (-1) .. (n - 1)
        /\ (s.length = 0 => s.start <= s.stop)
    BY <1>1, <1>3 DEF Regular
  <2>4. t.start \in 0 .. (n + MaxStep) /\ t.stop \in 0 .. n
    BY <1>1, <2>1, <2>2, <2>3
  <2>5. t.length = 0 => t.stop <= t.start
    BY <1>1, <2>1, <2>2, <2>3
  <2>6. t.length > 0 => /\ t.start + t.step * (t.length - 1) < t.stop
                        /\ t.stop <= t.start + t.step * t.length
    <3>1. ASSUME t.length > 0
          PROVE  t.start + y < t.stop /\ t.stop <= t.start + (y + B)
      BY <3>1, <1>1, <2>1, <2>2, <2>3
    <3>2. t.length > 0 => t.step * (t.length - 1) = y /\ t.step * t.length = y + B
      BY <2>1, <2>2
    <3>3. QED
      BY <3>1, <3>2
  <2>7. t.step \in 1 .. MaxStep /\ t.length \in Nat
    BY <2>1, <2>2, <2>3
  <2>8. Upwards(t, n)
    BY <2>2, <2>4, <2>5, <2>6, <2>7 DEF Upwards
  <2>9. QED
    BY <2>8 DEF t
<1>4. QED
  BY <1>2, <1>3

\* It has the same elements.
LEMMA SameElements ==
  ASSUME NoOverflow, NEW n \in 0 .. Bits, NEW s, Regular(s, n), s.step \in (-MaxStep) .. MaxStep
  PROVE  /\ AdjustStepPositive(s).length = s.length
         /\ SliceElements(AdjustStepPositive(s)) = SliceElements(s)
<1>1. CASE s.step > 0
  BY <1>1 DEF AdjustStepPositive
<1>2. CASE ~(s.step > 0)
  <2>1. PICK B \in 1 .. MaxStep, y \in Int :
          /\ s.step = -B /\ B * (s.length - 1) = y
          /\ AdjustStepPositive(s) = Slice(s.start - y, s.start + 1, B, s.length)
    BY <1>2, TurnedRound
  <2> DEFINE t == AdjustStepPositive(s)
             len == s.length
  <2>2. t.start = s.start - y /\ t.step = B /\ t.length = len
    BY <2>1 DEF Slice
  <2> HIDE DEF t
  <2>3. s.length \in Nat /\ s.start \in Int /\ B \in Int
    BY <2>1, SubscriptsAssumption DEF Regular
  <2>4. ASSUME NEW j \in 0 .. (len - 1)
        PROVE  SliceElement(t, len - 1 - j) = SliceElement(s, j)
               /\ len - 1 - j \in 0 .. (len - 1)
    <3>1. (len - 1 - j) * B = B * (len - 1) - j * B
      BY <2>3
    <3>2. j * s.step = - (j * B)
      BY <2>1, <2>3
    <3> DEFINE x == j * B
    <3>3. x \in Int
      BY <2>3
    <3>4. SliceElement(t, len - 1 - j) = s.start - y + (y - x)
      BY <2>1, <2>2, <3>1 DEF SliceElement
    <3>5. SliceElement(s, j) = s.start + (-x)
      BY <3>2 DEF SliceElement
    <3> HIDE DEF x
    <3>6. QED
      BY <2>3, <2>1, <3>3, <3>4, <3>5
  <2>5. SliceElements(s) \subseteq SliceElements(t)
    BY <2>2, <2>4 DEF SliceElements
  <2>6. ASSUME NEW j \in 0 .. (len - 1)
        PROVE  SliceElement(t, j) = SliceElement(s, len - 1 - j)
               /\ len - 1 - j \in 0 .. (len - 1)
    <3> DEFINE i == len - 1 - j
    <3>1. i \in 0 .. (len - 1) /\ len - 1 - i = j
      BY <2>3
    <3> HIDE DEF i
    <3>2. SliceElement(t, len - 1 - i) = SliceElement(s, i)
      BY <2>4, <3>1
    <3>3. QED
      BY <3>1, <3>2 DEF i
  <2>7. SliceElements(t) \subseteq SliceElements(s)
    BY <2>2, <2>6 DEF SliceElements
  <2>8. QED
    BY <2>2, <2>5, <2>7 DEF t
<1>3. QED
  BY <1>1, <1>2
\* A product with a number other than zero determines the other factor.
LEMMA Injective ==
  ASSUME NEW j \in Int, NEW k \in Int, NEW d \in Int, d # 0, j * d = k * d
  PROVE  j = k
<1>1. ASSUME NEW B \in Nat \ {0}, NEW p \in Int, NEW q \in Int, p < q
      PROVE  B * p < B * q
  <2>1. B * (p + 1) <= B * q
    BY <1>1, Monotonic
  <2>2. B * (p + 1) = B * p + B /\ B * p \in Int /\ B * q \in Int
    OBVIOUS
  <2>3. QED
    BY <2>1, <2>2
<1>2. ASSUME NEW B \in Nat \ {0}, B * j = B * k
      PROVE  j = k
  <2>1. B * j \in Int /\ B * k \in Int
    OBVIOUS
  <2>2. ~ (j < k)
    BY <1>1, <1>2, <2>1
  <2>3. ~ (k < j)
    BY <1>1, <1>2, <2>1
  <2>4. QED
    BY <2>2, <2>3
<1>3. CASE d > 0
  <2>1. d * j = d * k
    OBVIOUS
  <2>2. QED
    BY <1>2, <1>3, <2>1
<1>4. CASE d < 0
  <2> DEFINE B == -d
  <2>1. B \in Nat \ {0} /\ B * j = B * k
    BY <1>4
  <2> HIDE DEF B
  <2>2. QED
    BY <1>2, <2>1
<1>5. QED
  BY <1>3, <1>4

\* Where the elements of a slice that runs upwards lie.
LEMMA Positions ==
  ASSUME NEW n \in Nat, NEW t, Upwards(t, n)
  PROVE  /\ \A j \in 0 .. (t.length - 1) : SliceElement(t, j) \in t.start .. (t.stop - 1)
         /\ t.length > 0 => SliceElement(t, t.length) - t.step < t.stop
         /\ SliceElement(t, t.length) >= t.stop
         /\ SliceElement(t, 0) = t.start
         /\ \A j \in Nat : /\ SliceElement(t, j) \in Int
                           /\ SliceElement(t, j + 1) = SliceElement(t, j) + t.step
                           /\ t.start + j <= SliceElement(t, j)
         /\ t.length <= n
<1> DEFINE B == t.step
           len == t.length
<1>1. /\ t.start \in Int /\ t.stop \in Int /\ B \in Nat \ {0} /\ len \in Nat
      /\ t.start >= 0 /\ t.stop <= n
  BY SubscriptsAssumption DEF Upwards
<1>2. ASSUME NEW j \in Nat
      PROVE  /\ SliceElement(t, j) = t.start + B * j /\ B * j \in Nat /\ j <= B * j
             /\ B * (j + 1) = B * j + B /\ SliceElement(t, j + 1) = t.start + B * (j + 1)
  <2>1. j * B = B * j /\ (j + 1) * B = B * (j + 1)
    BY <1>1
  <2>2. QED
    BY <1>1, <2>1, Products DEF SliceElement
<1>3. /\ len = 0 => t.stop <= t.start
      /\ len > 0 => t.start + B * (len - 1) < t.stop /\ t.stop <= t.start + B * len
  BY DEF Upwards
<1> HIDE DEF B, len
<1>4. ASSUME NEW j \in 0 .. (len - 1)
      PROVE  SliceElement(t, j) \in t.start .. (t.stop - 1)
  <2>1. len > 0 /\ j \in Nat /\ len - 1 \in Nat /\ j <= len - 1
    BY <1>1
  <2> DEFINE x == B * j
             z == B * (len - 1)
  <2>2. x <= z
    BY <1>1, <2>1, Monotonic
  <2>3. x \in Nat /\ z \in Nat
    BY <1>1, <2>1
  <2>4. SliceElement(t, j) = t.start + x /\ t.start + z < t.stop
    BY <1>2, <1>3, <2>1
  <2> HIDE DEF x, z
  <2>5. QED
    BY <1>1, <2>2, <2>3, <2>4
<1>5. /\ len > 0 => SliceElement(t, len) - B < t.stop
      /\ SliceElement(t, len) >= t.stop
  <2>1. CASE len = 0
    <3>1. B * len = 0
      BY <1>1, <2>1
    <3>2. QED
      BY <1>1, <1>2, <1>3, <2>1, <3>1
  <2>2. CASE len > 0
    <3>1. B * ((len - 1) + 1) = B * (len - 1) + B /\ B * (len - 1) \in Nat
      BY <1>1, <1>2, <2>2
    <3>2. B * len = B * (len - 1) + B
      BY <1>1, <3>1
    <3>3. QED
      BY <1>1, <1>2, <1>3, <2>2, <3>1, <3>2
  <2>3. QED
    BY <1>1, <2>1, <2>2
<1>6. SliceElement(t, 0) = t.start
  <2>1. B * 0 = 0
    BY <1>1
  <2>2. QED
    BY <1>1, <1>2, <2>1
<1>7. ASSUME NEW j \in Nat
      PROVE  /\ SliceElement(t, j) \in Int
             /\ SliceElement(t, j + 1) = SliceElement(t, j) + B
             /\ t.start + j <= SliceElement(t, j)
  <2> DEFINE x == B * j
  <2>1. /\ SliceElement(t, j) = t.start + x /\ x \in Nat /\ j <= x
        /\ SliceElement(t, j + 1) = t.start + (x + B)
    BY <1>2
  <2> HIDE DEF x
  <2>2. QED
    BY <1>1, <2>1
<1>8. len <= n
  <2>1. CASE len = 0
    BY <2>1
  <2>2. CASE len > 0
    <3> DEFINE k == len - 1
    <3>1. k \in 0 .. (len - 1) /\ k \in Nat /\ len = k + 1
      BY <1>1, <2>2
    <3> HIDE DEF k
    <3>2. SliceElement(t, k) \in t.start .. (t.stop - 1) /\ t.start + k <= SliceElement(t, k)
      BY <3>1, <1>4, <1>7
    <3>3. QED
      BY <1>1, <3>1, <3>2
  <2>3. QED
    BY <1>1, <2>1, <2>2
<1>9. QED
  BY <1>4, <1>5, <1>6, <1>7, <1>8 DEF B, len

\* The elements of a slice that runs upwards are those at multiples of the step.
LEMMA UpElements ==
  ASSUME NEW n \in Nat, NEW t, Upwards(t, n)
  PROVE  /\ SliceElements(t) = {i \in t.start .. (t.stop - 1) : (i - t.start) % t.step = 0}
         /\ SliceElements(t) \subseteq 0 .. (n - 1)
<1>1. /\ t.start \in Int /\ t.stop \in Int /\ t.step \in Nat \ {0} /\ t.length \in Nat
      /\ t.start >= 0 /\ t.stop <= n
  BY SubscriptsAssumption DEF Upwards
<1>2. SliceElements(t) = {SliceElement(t, j) : j \in 0 .. (t.length - 1)}
  BY DEF SliceElements
<1>3. ASSUME NEW j \in 0 .. (t.length - 1)
      PROVE  /\ SliceElement(t, j) \in t.start .. (t.stop - 1)
             /\ (SliceElement(t, j) - t.start) % t.step = 0
  <2>1. SliceElement(t, j) \in t.start .. (t.stop - 1)
    BY Positions
  <2> DEFINE x == t.step * j
  <2>2. SliceElement(t, j) = t.start + x /\ x \in Int
    BY <1>1 DEF SliceElement
  <2>3. (x + 0) % t.step = 0
    <3>1. 0 \in 0 .. (t.step - 1) /\ j \in Int
      BY <1>1
    <3>2. QED
      BY <1>1, <3>1, Division
  <2> HIDE DEF x
  <2>4. SliceElement(t, j) - t.start = x + 0
    BY <1>1, <2>2
  <2>5. QED
    BY <2>1, <2>3, <2>4
<1>4. ASSUME NEW i \in t.start .. (t.stop - 1), (i - t.start) % t.step = 0
      PROVE  \E j \in 0 .. (t.length - 1) : i = SliceElement(t, j)
  <2> DEFINE d == i - t.start
             q == d \div t.step
             x == t.step * q
  <2>1. d \in Nat
    BY <1>1
  <2>2. q \in Nat /\ d = x + (d % t.step) /\ x \in Int
    <3> HIDE DEF d
    <3> DEFINE B == t.step
    <3>1. B \in Nat \ {0}
      BY <1>1
    <3> HIDE DEF B
    <3>2. d \div B \in Nat /\ d = B * (d \div B) + (d % B)
      BY <2>1, <3>1
    <3>3. QED
      BY <1>1, <3>2 DEF B
  <2>3. d = x
    BY <1>4, <2>1, <2>2
  <2>4. SliceElement(t, q) = t.start + x
    <3>1. q * t.step = t.step * q
      BY <1>1, <2>2
    <3>2. QED
      BY <3>1 DEF SliceElement
  <2> HIDE DEF x, q
  <2>5. i = SliceElement(t, q)
    BY <1>1, <2>2, <2>3, <2>4 DEF d
  <2>6. q < t.length
    <3>1. SUFFICES ASSUME q >= t.length PROVE FALSE
      BY <1>1, <2>2
    <3>2. t.step * t.length <= t.step * q
      BY <1>1, <2>2, <3>1, Monotonic
    <3>3. SliceElement(t, t.length) = t.start + t.step * t.length
      <4>1. t.length * t.step = t.step * t.length
        BY <1>1
      <4>2. QED
        BY <4>1 DEF SliceElement
    <3>4. SliceElement(t, t.length) >= t.stop
      BY Positions
    <3>5. t.step * t.length \in Int /\ t.step * q \in Int
      BY <1>1, <2>2
    <3>6. QED
      BY <1>1, <2>4, <2>5, <3>2, <3>3, <3>4, <3>5, <2>2 DEF x
  <2>7. QED
    BY <1>1, <2>2, <2>5, <2>6
<1>5. QED
  BY <1>1, <1>2, <1>3, <1>4
\* The elements of a slice are distinct, so that there are as many as its length.
LEMMA ElementsBijection ==
  ASSUME NEW s, s.start \in Int, s.step \in Int, s.step # 0, s.length \in Nat,
         NEW A \in SUBSET (0 .. (s.length - 1))
  PROVE  /\ IsFiniteSet({SliceElement(s, j) : j \in A})
         /\ Cardinality({SliceElement(s, j) : j \in A}) = Cardinality(A)
<1> DEFINE T == {SliceElement(s, j) : j \in A}
           F == [j \in A |-> SliceElement(s, j)]
<1>1. IsFiniteSet(A)
  <2>1. 0 \in Int /\ s.length - 1 \in Int
    OBVIOUS
  <2>2. IsFiniteSet(0 .. (s.length - 1))
    BY <2>1, FS_Interval
  <2>3. QED
    BY <2>2, FS_Subset
<1>2. ASSUME NEW j \in A, NEW k \in A, F[j] = F[k]
      PROVE  j = k
  <2>1. j \in Int /\ k \in Int /\ j * s.step \in Int /\ k * s.step \in Int
    OBVIOUS
  <2>2. j * s.step = k * s.step
    <3> DEFINE x == j * s.step
               y == k * s.step
    <3>1. x \in Int /\ y \in Int /\ s.start + x = s.start + y
      BY <1>2, <2>1 DEF SliceElement
    <3> HIDE DEF x, y
    <3>2. x = y
      BY <3>1
    <3>3. QED
      BY <3>2 DEF x, y
  <2>3. QED
    BY <2>1, <2>2, Injective
<1>3. F \in Bijection(A, T)
  BY <1>2 DEF Bijection, Injection, Surjection, IsInjective
<1>4. QED
  BY <1>1, <1>3, FS_Bijection DEF ExistsBijection

\* What the loops over slices visit.
LEMMA VisitedElements ==
  ASSUME NoOverflow, self.nbits \in 0 .. Bits, NEW t, Upwards(t, self.nbits)
  PROVE  Visited(t) = SliceElements(t)
<1> DEFINE n == self.nbits
           Turn == {k \in 0 .. n : \A j \in 0 .. k : Wrap(t.start + j * t.step) < t.stop}
<1>1. /\ MaxInt \in Nat \ {0} /\ MaxStep \in Nat /\ Bits \in Nat /\ n \in Nat
      /\ n + MaxStep <= MaxInt
      /\ t.start \in Nat /\ t.start <= n + MaxStep
      /\ t.stop \in Nat /\ t.stop <= n /\ t.step \in 1 .. MaxStep /\ t.length \in Nat
      /\ (t.length = 0 => t.stop <= t.start)
  BY MaxIntAssumption, SubscriptsAssumption DEF NoOverflow, Upwards
<1>2. ASSUME NEW j \in 0 .. t.length
      PROVE  Wrap(t.start + j * t.step) = SliceElement(t, j)
  <2> DEFINE v == t.start + j * t.step
  <2>1. v = SliceElement(t, j)
    BY DEF SliceElement
  <2>2. SliceElement(t, j) \in 0 .. (n + MaxStep)
    <3>1. CASE j \in 0 .. (t.length - 1)
      <4>1. SliceElement(t, j) \in t.start .. (t.stop - 1)
        BY <1>1, <3>1, Positions
      <4>2. QED
        BY <1>1, <4>1
    <3>2. CASE j = t.length /\ t.length > 0
      <4>1. /\ SliceElement(t, j) - t.step < t.stop /\ SliceElement(t, j) >= t.stop
            /\ SliceElement(t, j) \in Int
        BY <1>1, <3>2, Positions
      <4>2. QED
        BY <1>1, <4>1
    <3>3. CASE j = 0 /\ t.length = 0
      <4>1. SliceElement(t, 0) = t.start
        BY <1>1, Positions
      <4>2. QED
        BY <1>1, <3>3, <4>1
    <3>4. QED
      BY <1>1, <3>1, <3>2, <3>3
  <2>3. v \in (-(MaxInt + 1)) .. MaxInt
    BY <1>1, <2>1, <2>2
  <2> HIDE DEF v
  <2>4. Wrap(v) = v
    BY <2>3, WrapFits
  <2>5. QED
    BY <2>1, <2>4 DEF v
<1>3. \A j \in 0 .. (t.length - 1) : SliceElement(t, j) \in t.start .. (t.stop - 1)
  BY <1>1, Positions
<1>4. SliceElement(t, t.length) >= t.stop /\ t.length <= n
  BY <1>1, Positions
<1>5. Turn = 0 .. (t.length - 1)
  <2>1. ASSUME NEW k \in 0 .. (t.length - 1)
        PROVE  k \in Turn
    <3>1. ASSUME NEW j \in 0 .. k
          PROVE  Wrap(t.start + j * t.step) < t.stop
      <4>1. j \in 0 .. (t.length - 1) /\ j \in 0 .. t.length
        BY <1>1
      <4>2. QED
        BY <1>1, <1>2, <1>3, <4>1
    <3>2. QED
      BY <1>1, <1>4, <3>1
  <2>2. ASSUME NEW k \in Turn
        PROVE  k \in 0 .. (t.length - 1)
    <3>1. SUFFICES ASSUME k >= t.length PROVE FALSE
      BY <1>1
    <3>2. t.length \in 0 .. k /\ t.length \in 0 .. t.length
      BY <1>1, <3>1
    <3>3. Wrap(t.start + t.length * t.step) < t.stop
      BY <3>2
    <3>4. SliceElement(t, t.length) < t.stop
      BY <1>2, <3>2, <3>3
    <3>5. SliceElement(t, t.length) \in Int
      BY <1>1, Positions
    <3>6. QED
      BY <1>1, <1>4, <3>4, <3>5
  <2> HIDE DEF Turn
  <2>3. QED
    BY <2>1, <2>2
<1>6. Visited(t) = {Wrap(t.start + k * t.step) : k \in Turn}
  BY DEF Visited
<1> HIDE DEF Turn
<1>7. \A k \in 0 .. (t.length - 1) : Wrap(t.start + k * t.step) = SliceElement(t, k)
  BY <1>1, <1>2
<1>8. QED
  BY <1>5, <1>6, <1>7 DEF SliceElements
-------------------------------------------------------------------------------
(***************************************************************************)
(* The elements of arrays.                                                 *)
(***************************************************************************)
\* An array in the buffer lies in it, element by element.
LEMMA InsideCells ==
  ASSUME NEW v, Inside(v)
  PROVE  /\ v.off \in Nat /\ v.nbits \in Nat /\ v.nbits <= Bits /\ Bits \in Nat
         /\ \A i \in 0 .. (v.nbits - 1) : v.off + i \in 0 .. (Bits - 1)
         /\ v.shared = TRUE
         /\ \A m, i : getbit(v, m, i) = IF i >= v.nbits THEN 0 ELSE m[v.off + i]
<1>1. v.off \in Nat /\ v.nbits \in Nat /\ v.off + v.nbits <= Bits /\ Bits \in Nat
  BY SubscriptsAssumption DEF Inside, Within
<1>2. v.shared = TRUE
  BY DEF Inside, Shared
<1>3. QED
  BY <1>1, <1>2 DEF getbit

\* What getbit() returns is a bit.
LEMMA GetbitType ==
  ASSUME NEW v, View(v), NEW m \in Memory, NEW i \in Nat
  PROVE  getbit(v, m, i) \in Bit
<1>1. CASE i >= v.nbits
  BY <1>1 DEF getbit, Bit
<1>2. CASE ~(i >= v.nbits) /\ Inside(v)
  <2>1. v.nbits \in Nat /\ i \in 0 .. (v.nbits - 1)
    <3>1. v.nbits \in Nat
      BY <1>2, InsideCells
    <3>2. QED
      BY <1>2, <3>1
  <2>2. v.off + i \in 0 .. (Bits - 1) /\ getbit(v, m, i) = m[v.off + i]
    BY <1>2, <2>1, InsideCells
  <2>3. QED
    BY <2>2 DEF Memory
<1>3. CASE ~(i >= v.nbits) /\ Apart(v)
  <2>1. v.nbits \in Nat /\ v.own \in [0 .. (v.nbits - 1) -> Bit] /\ v.shared = FALSE
    BY <1>3 DEF Apart, Own
  <2>2. i \in 0 .. (v.nbits - 1)
    BY <1>3, <2>1
  <2>3. QED
    BY <1>3, <2>1, <2>2 DEF getbit
<1>4. QED
  BY <1>1, <1>2, <1>3 DEF View

\* The slices of self.
LEMMA SlicesRegular ==
  ASSUME self.nbits \in Nat, NEW s \in Slices
  PROVE  /\ Regular(s, self.nbits) /\ s.step \in (-MaxStep) .. MaxStep
         /\ s.start \in Int /\ s.step \in Int /\ s.step # 0 /\ s.length \in Nat
         /\ s.step > 0 <=> ~(s.step < 0)
<1>1. PICK start \in (-1) .. (self.nbits + 1), stop \in (-1) .. (self.nbits + 1),
           step \in (-MaxStep .. MaxStep) \ {0} : s = Adjusted(start, stop, step)
  BY DEF Slices
<1>2. start \in Int /\ stop \in Int /\ step \in Int /\ step # 0
  BY <1>1, SubscriptsAssumption
<1>3. Regular(s, self.nbits)
  BY <1>1, <1>2, AdjustedRegular DEF Adjusted
<1>4. s.step = step
  BY <1>1 DEF Adjusted, AdjustIndices, Slice
<1>5. QED
  BY <1>1, <1>2, <1>3, <1>4 DEF Regular

\* The loops over a slice visit its elements; these lie in the array.
LEMMA SliceVisited ==
  ASSUME NoOverflow, self.nbits \in 0 .. Bits, NEW s \in Slices
  PROVE  /\ Visited(AdjustStepPositive(s)) = SliceElements(s)
         /\ SliceElements(s) \subseteq 0 .. (self.nbits - 1)
         /\ Upwards(AdjustStepPositive(s), self.nbits)
         /\ AdjustStepPositive(s).length = s.length
         /\ SliceElements(AdjustStepPositive(s)) = SliceElements(s)
<1>1. self.nbits \in Nat
  BY SubscriptsAssumption
<1>2. Regular(s, self.nbits) /\ s.step \in (-MaxStep) .. MaxStep
  BY <1>1, SlicesRegular
<1> DEFINE t == AdjustStepPositive(s)
<1>3. Upwards(t, self.nbits)
  BY <1>2, PositiveStep
<1>4. t.length = s.length /\ SliceElements(t) = SliceElements(s)
  BY <1>2, SameElements
<1> HIDE DEF t
<1>5. Visited(t) = SliceElements(t)
  BY <1>3, VisitedElements
<1>6. SliceElements(t) \subseteq 0 .. (self.nbits - 1)
  BY <1>1, <1>3, UpElements
<1>7. QED
  BY <1>3, <1>4, <1>5, <1>6 DEF t

\* Methods visit the elements of slices, and count them.
LEMMA VisitsAndCounts ==
  ASSUME NoOverflow, IInv
  PROVE  SlicesVisited
<1>1. self.nbits \in Nat /\ self.nbits \in 0 .. Bits
  <2>1. Inside(self)
    BY DEF IInv
  <2>2. self.nbits \in Nat /\ self.nbits <= Bits /\ Bits \in Nat
    BY <2>1, InsideCells
  <2>3. QED
    BY <2>2
<1>2. SUFFICES ASSUME NEW s \in Slices
               PROVE  /\ Visited(AdjustStepPositive(s)) = SliceElements(s)
                      /\ \A vi \in {0, 1} :
                           CountSlice(s, vi) =
                             Cardinality({j \in DOMAIN GetSlice(s) : GetSlice(s)[j] = vi})
  BY DEF SlicesVisited
<1>3. /\ Visited(AdjustStepPositive(s)) = SliceElements(s)
      /\ SliceElements(s) \subseteq 0 .. (self.nbits - 1)
  BY <1>1, SliceVisited
<1>4. s.start \in Int /\ s.step \in Int /\ s.step # 0 /\ s.length \in Nat
  BY <1>1, SlicesRegular
<1> DEFINE J == 0 .. (s.length - 1)
           A(vi) == {j \in J : getbit(self, mem, SliceElement(s, j)) = vi}
<1>5. \A vi \in {0, 1} : {j \in DOMAIN GetSlice(s) : GetSlice(s)[j] = vi} = A(vi)
  BY DEF GetSlice
<1>6. \A j \in J : SliceElement(s, j) \in 0 .. (self.nbits - 1)
  BY <1>3 DEF SliceElements
<1>7. \A j \in J : getbit(self, mem, SliceElement(s, j)) \in {0, 1}
  BY <1>1, <1>6, GetbitType DEF IInv, View, Bit
<1>8. {i \in SliceElements(s) : getbit(self, mem, i) = 1} = {SliceElement(s, j) : j \in A(1)}
  BY DEF SliceElements
<1>9. Cardinality({i \in SliceElements(s) : getbit(self, mem, i) = 1}) = Cardinality(A(1))
  <2> DEFINE A1 == A(1)
  <2>1. A1 \in SUBSET (0 .. (s.length - 1))
    OBVIOUS
  <2> HIDE DEF A1
  <2>2. Cardinality({SliceElement(s, j) : j \in A1}) = Cardinality(A1)
    BY <1>4, <2>1, ElementsBijection
  <2>3. QED
    BY <1>8, <2>2 DEF A1
<1>10. s.length - Cardinality(A(1)) = Cardinality(A(0))
  <2> DEFINE A0 == A(0)
             A1 == A(1)
  <2>1. IsFiniteSet(J) /\ Cardinality(J) = s.length
    <3>1. 0 \in Int /\ s.length - 1 \in Int
      BY <1>4
    <3>2. IsFiniteSet(J) /\ Cardinality(J) = IF 0 > s.length - 1 THEN 0 ELSE s.length - 1 - 0 + 1
      BY <3>1, FS_Interval
    <3>3. QED
      BY <1>4, <3>2
  <2>2. A0 \subseteq J /\ A1 \subseteq J /\ A0 \union A1 = J /\ A0 \intersect A1 = {}
    BY <1>7
  <2> HIDE DEF A0, A1, J
  <2>3. IsFiniteSet(A0) /\ IsFiniteSet(A1)
    BY <2>1, <2>2, FS_Subset
  <2>4. Cardinality(J) = Cardinality(A0) + Cardinality(A1) - Cardinality(A0 \intersect A1)
    BY <2>2, <2>3, FS_Union
  <2>5. Cardinality(A0 \intersect A1) = 0
    BY <2>2, FS_EmptySet
  <2>6. Cardinality(A0) \in Nat /\ Cardinality(A1) \in Nat
    BY <2>3, FS_CardinalityType
  <2>7. Cardinality(A0) = s.length - Cardinality(A1)
    BY <1>4, <2>1, <2>4, <2>5, <2>6
  <2>8. QED
    BY <2>7 DEF A0, A1
<1>11. ASSUME NEW vi \in {0, 1}
       PROVE  CountSlice(s, vi) = Cardinality(A(vi))
  <2>1. CountSlice(s, vi) =
          IF vi = 1 THEN Cardinality({i \in SliceElements(s) : getbit(self, mem, i) = 1})
          ELSE s.length - Cardinality({i \in SliceElements(s) : getbit(self, mem, i) = 1})
    BY <1>3 DEF CountSlice
  <2>2. CASE vi = 1
    BY <2>1, <2>2, <1>9
  <2>3. CASE vi = 0
    BY <2>1, <2>3, <1>9, <1>10
  <2>4. QED
    BY <2>2, <2>3
<1>12. QED
  BY <1>3, <1>5, <1>11
-------------------------------------------------------------------------------
(***************************************************************************)
(* How many elements of a set lie below a number.  The code counts them,   *)
(* one loop turn at a time; Ascending() is defined by them.                *)
(***************************************************************************)
Below(K, i) == {x \in K : x < i}
Rank(K, i)  == Cardinality(Below(K, i))

\* A set of indices is finite.
LEMMA IndicesFinite ==
  ASSUME NEW n \in Nat, NEW K \in SUBSET (0 .. (n - 1))
  PROVE  /\ IsFiniteSet(K) /\ Cardinality(K) \in Nat
         /\ \A i : IsFiniteSet(Below(K, i)) /\ Rank(K, i) \in Nat
<1>1. IsFiniteSet(0 .. (n - 1))
  <2>1. 0 \in Int /\ n - 1 \in Int
    OBVIOUS
  <2>2. QED
    BY <2>1, FS_Interval
<1>2. IsFiniteSet(K)
  BY <1>1, FS_Subset
<1>3. ASSUME NEW i PROVE IsFiniteSet(Below(K, i))
  <2>1. Below(K, i) \in SUBSET K
    BY DEF Below
  <2>2. QED
    BY <1>2, <2>1, FS_Subset
<1>4. QED
  BY <1>2, <1>3, FS_CardinalityType DEF Rank

\* Counting goes one by one.
LEMMA RankStep ==
  ASSUME NEW n \in Nat, NEW K \in SUBSET (0 .. (n - 1))
  PROVE  /\ Rank(K, 0) = 0
         /\ \A i \in Nat : Rank(K, i + 1) = IF i \in K THEN Rank(K, i) + 1 ELSE Rank(K, i)
         /\ Rank(K, n) = Cardinality(K)
<1>0. \A x \in K : x \in Nat /\ x < n
  OBVIOUS
<1>1. Below(K, 0) = {} /\ Below(K, n) = K
  <2>1. \A x \in K : ~ (x < 0)
    BY <1>0
  <2>2. Below(K, 0) = {}
    BY <2>1 DEF Below
  <2>3. Below(K, n) = K
    BY <1>0 DEF Below
  <2>4. QED
    BY <2>2, <2>3
<1>2. Rank(K, 0) = 0 /\ Rank(K, n) = Cardinality(K)
  BY <1>1, FS_EmptySet DEF Rank
<1>3. ASSUME NEW i \in Nat
      PROVE  Rank(K, i + 1) = IF i \in K THEN Rank(K, i) + 1 ELSE Rank(K, i)
  <2>1. CASE i \in K
    <3>1. Below(K, i + 1) = Below(K, i) \union {i} /\ i \notin Below(K, i)
      <4>1. \A x \in K : x < i + 1 <=> x < i \/ x = i
        BY <1>0
      <4>2. ~ (i < i)
        OBVIOUS
      <4>3. QED
        BY <2>1, <4>1, <4>2 DEF Below
    <3>2. IsFiniteSet(Below(K, i))
      BY IndicesFinite
    <3>3. QED
      BY <2>1, <3>1, <3>2, FS_AddElement DEF Rank
  <2>2. CASE i \notin K
    <3>1. Below(K, i + 1) = Below(K, i)
      <4>1. \A x \in K : x < i + 1 <=> x < i
        BY <1>0, <2>2
      <4>2. QED
        BY <4>1 DEF Below
    <3>2. QED
      BY <2>2, <3>1 DEF Rank
  <2>3. QED
    BY <2>1, <2>2
<1>4. QED
  BY <1>2, <1>3

\* Ranks grow, and not faster than the numbers.
LEMMA RankGrows ==
  ASSUME NEW n \in Nat, NEW K \in SUBSET (0 .. (n - 1)), NEW a \in Nat, NEW b \in Nat, a <= b
  PROVE  /\ Rank(K, a) \in Nat /\ Rank(K, b) \in Nat /\ Rank(K, a) <= Rank(K, b)
         /\ Rank(K, b) - Rank(K, a) <= b - a
         /\ Rank(K, a) <= a
         /\ a < b /\ a \in K => Rank(K, a) < Rank(K, b)
<1>1. \A i : Rank(K, i) \in Nat
  BY IndicesFinite
<1>2. \A i \in Nat : Rank(K, i + 1) = IF i \in K THEN Rank(K, i) + 1 ELSE Rank(K, i)
  BY RankStep
<1>3. ASSUME NEW c \in Nat
      PROVE  \A i \in Nat : c <= i => Rank(K, c) <= Rank(K, i) /\ Rank(K, i) - Rank(K, c) <= i - c
  <2> DEFINE S == {i \in Nat : c <= i => Rank(K, c) <= Rank(K, i)
                                         /\ Rank(K, i) - Rank(K, c) <= i - c}
  <2>1. 0 \in S
    BY <1>1
  <2>2. ASSUME NEW i \in Nat, i \in S PROVE i + 1 \in S
    <3>1. CASE c <= i
      <4>1. Rank(K, c) <= Rank(K, i) /\ Rank(K, i) - Rank(K, c) <= i - c
        BY <2>2, <3>1
      <4>2. Rank(K, i + 1) = Rank(K, i) + 1 \/ Rank(K, i + 1) = Rank(K, i)
        BY <1>2
      <4>3. QED
        BY <1>1, <4>1, <4>2
    <3>2. CASE c = i + 1
      BY <1>1, <3>2
    <3>3. CASE c > i + 1
      BY <3>3
    <3>4. QED
      BY <3>1, <3>2, <3>3
  <2> HIDE DEF S
  <2>3. Nat \subseteq S
    BY <2>1, <2>2, SetInduction
  <2>4. QED
    BY <2>3 DEF S
<1>4. Rank(K, a) <= a
  <2>1. Rank(K, 0) = 0
    BY RankStep
  <2>2. Rank(K, a) - Rank(K, 0) <= a - 0
    BY <1>3
  <2>3. QED
    BY <1>1, <2>1, <2>2
<1>5. a < b /\ a \in K => Rank(K, a) < Rank(K, b)
  <2>1. SUFFICES ASSUME a < b, a \in K PROVE Rank(K, a) < Rank(K, b)
    OBVIOUS
  <2>2. Rank(K, a + 1) = Rank(K, a) + 1
    BY <1>2, <2>1
  <2>3. Rank(K, a + 1) <= Rank(K, b)
    BY <1>3, <2>1
  <2>4. QED
    BY <1>1, <2>2, <2>3
<1>6. QED
  BY <1>1, <1>3, <1>4, <1>5

\* Elements are told apart by their ranks.
LEMMA RankInjective ==
  ASSUME NEW n \in Nat, NEW K \in SUBSET (0 .. (n - 1)), NEW x \in K, NEW y \in K,
         Rank(K, x) = Rank(K, y)
  PROVE  x = y
<1>1. x \in Nat /\ y \in Nat
  OBVIOUS
<1>2. CASE x < y
  <2>1. x <= y
    BY <1>1, <1>2
  <2>2. Rank(K, x) \in Nat /\ Rank(K, x) < Rank(K, y)
    BY <1>1, <1>2, <2>1, RankGrows
  <2>3. QED
    BY <2>2
<1>3. CASE y < x
  <2>1. y <= x
    BY <1>1, <1>3
  <2>2. Rank(K, x) \in Nat /\ Rank(K, y) < Rank(K, x)
    BY <1>1, <1>3, <2>1, RankGrows
  <2>3. QED
    BY <2>2
<1>4. QED
  BY <1>1, <1>2, <1>3

\* Every rank is that of an element.
LEMMA RankOnto ==
  ASSUME NEW n \in Nat, NEW K \in SUBSET (0 .. (n - 1))
  PROVE  /\ \A x \in K : Rank(K, x) \in 0 .. (Cardinality(K) - 1)
         /\ \A q \in 0 .. (Cardinality(K) - 1) : \E x \in K : Rank(K, x) = q
<1>1. /\ Rank(K, 0) = 0 /\ Rank(K, n) = Cardinality(K)
      /\ \A i \in Nat : Rank(K, i + 1) = IF i \in K THEN Rank(K, i) + 1 ELSE Rank(K, i)
  BY RankStep
<1>2. \A i : Rank(K, i) \in Nat
  BY IndicesFinite
<1>3. ASSUME NEW x \in K PROVE Rank(K, x) \in 0 .. (Cardinality(K) - 1)
  <2>1. x \in Nat /\ x < n /\ x <= n
    OBVIOUS
  <2>2. Rank(K, x) < Rank(K, n)
    BY <2>1, RankGrows
  <2>3. QED
    BY <1>1, <1>2, <2>2
<1>4. ASSUME NEW q \in 0 .. (Cardinality(K) - 1) PROVE \E x \in K : Rank(K, x) = q
  <2> DEFINE S == {i \in Nat : Rank(K, i) > q}
  <2>1. n \in S
    BY <1>1, <1>2
  <2>2. PICK i \in S : \A j \in S : i <= j
    <3>1. S \in SUBSET Nat /\ S # {}
      BY <2>1
    <3> HIDE DEF S
    <3>2. QED
      BY <3>1, LeastNatural
  <2>3. i # 0 /\ i \in Nat /\ Rank(K, i) > q
    BY <1>1, <2>2
  <2> DEFINE x == i - 1
  <2>4. x \in Nat /\ i = x + 1
    BY <2>3
  <2>5. x \notin S
    BY <2>2, <2>4
  <2> HIDE DEF x
  <2>6. Rank(K, x) <= q
    BY <1>2, <2>4, <2>5
  <2>7. Rank(K, x + 1) = IF x \in K THEN Rank(K, x) + 1 ELSE Rank(K, x)
    BY <1>1, <2>4
  <2>8. x \in K /\ Rank(K, x) = q
    BY <1>2, <2>3, <2>4, <2>6, <2>7
  <2>9. QED
    BY <2>8
<1>5. QED
  BY <1>3, <1>4

\* What Ascending() lists.
LEMMA AscendingRank ==
  ASSUME NEW n \in Nat, NEW K \in SUBSET (0 .. (n - 1))
  PROVE  /\ Ascending(K) \in Seq(K) /\ Len(Ascending(K)) = Cardinality(K)
         /\ DOMAIN Ascending(K) = 1 .. Cardinality(K)
         /\ \A k \in 1 .. Cardinality(K) : Ascending(K)[k] \in K /\ Rank(K, Ascending(K)[k]) = k - 1
         /\ \A x \in K : Rank(K, x) + 1 \in 1 .. Cardinality(K) /\ Ascending(K)[Rank(K, x) + 1] = x
<1> DEFINE A == Ascending(K)
           c == Cardinality(K)
<1>1. c \in Nat
  BY IndicesFinite
<1>2. A = [k \in 1 .. c |-> CHOOSE i \in K : Rank(K, i) = k - 1]
  BY DEF Ascending, Rank, Below
<1>3. ASSUME NEW k \in 1 .. c PROVE A[k] \in K /\ Rank(K, A[k]) = k - 1
  <2>1. k - 1 \in 0 .. (c - 1)
    BY <1>1
  <2>2. \E i \in K : Rank(K, i) = k - 1
    BY <2>1, RankOnto
  <2>3. A[k] = CHOOSE i \in K : Rank(K, i) = k - 1
    BY <1>2
  <2> HIDE DEF A
  <2>4. QED
    BY <2>2, <2>3
<1>4. A \in Seq(K) /\ Len(A) = c /\ DOMAIN A = 1 .. c
  <2>1. A \in [1 .. c -> K] /\ DOMAIN A = 1 .. c
    BY <1>2, <1>3
  <2> HIDE DEF A, c
  <2>2. A \in Seq(K)
    BY <1>1, <2>1
  <2>3. Len(A) = c
    BY <1>1, <2>1, <2>2, LenProperties
  <2>4. QED
    BY <2>1, <2>2, <2>3
<1>5. ASSUME NEW x \in K PROVE Rank(K, x) + 1 \in 1 .. c /\ A[Rank(K, x) + 1] = x
  <2> DEFINE k == Rank(K, x) + 1
  <2>1. k \in 1 .. c /\ Rank(K, x) = k - 1
    <3>1. Rank(K, x) \in 0 .. (c - 1)
      BY RankOnto
    <3>2. QED
      BY <1>1, <3>1
  <2> HIDE DEF k, A
  <2>2. A[k] \in K /\ Rank(K, A[k]) = Rank(K, x)
    BY <1>3, <2>1
  <2>3. A[k] = x
    BY <2>2, RankInjective
  <2>4. QED
    BY <2>1, <2>3 DEF k
<1> HIDE DEF A, c
<1>6. QED
  BY <1>3, <1>4, <1>5 DEF A, c
-------------------------------------------------------------------------------
(***************************************************************************)
(* Deletion: the elements that are kept, those with an index in K, move    *)
(* down in order.                                                          *)
(***************************************************************************)
\* The memory m, when the elements below i have been dealt with.
Moved(m, K, i) ==
  /\ m \in Memory
  /\ \A q \in K : q < i => m[self.off + Rank(K, q)] = mem[self.off + q]
  /\ \A c \in 0 .. (self.nbits - 1) : c >= Rank(K, i) => m[self.off + c] = mem[self.off + c]
  /\ \A c \in 0 .. (Bits - 1) :
       c \notin self.off .. (self.off + self.nbits - 1) => m[c] = mem[c]

Indexes(K) == K \in SUBSET (0 .. (self.nbits - 1))

\* What writing an element does.
LEMMA SetbitCells ==
  ASSUME NEW v, Inside(v), NEW m \in Memory, NEW i \in 0 .. (v.nbits - 1), NEW b \in Bit
  PROVE  /\ setbit(v, m, i, b) \in Memory
         /\ setbit(v, m, i, b)[v.off + i] = b
         /\ \A c \in 0 .. (Bits - 1) : c # v.off + i => setbit(v, m, i, b)[c] = m[c]
<1>1. v.off + i \in 0 .. (Bits - 1)
  BY InsideCells
<1>2. setbit(v, m, i, b) = [m EXCEPT ![v.off + i] = b]
  BY DEF setbit
<1> DEFINE p == v.off + i
<1> HIDE DEF p
<1>3. p \in 0 .. (Bits - 1) /\ setbit(v, m, i, b) = [m EXCEPT ![p] = b]
  BY <1>1, <1>2 DEF p
<1>4. /\ setbit(v, m, i, b) \in Memory /\ setbit(v, m, i, b)[p] = b
      /\ \A c \in 0 .. (Bits - 1) : c # p => setbit(v, m, i, b)[c] = m[c]
  BY <1>3 DEF Memory
<1>5. QED
  BY <1>4 DEF p

\* Elements of an array lie in different cells.
LEMMA DistinctCells ==
  ASSUME NEW v, Inside(v), NEW i \in Int, NEW j \in Int
  PROVE  v.off + i = v.off + j <=> i = j
BY DEF Inside

\* An element that goes.
LEMMA SkipMoved ==
  ASSUME Inside(self), NEW K, Indexes(K), NEW i \in Nat, i \notin K, NEW m, Moved(m, K, i)
  PROVE  Moved(m, K, i + 1) /\ Rank(K, i + 1) = Rank(K, i)
<1>1. self.nbits \in Nat
  BY InsideCells
<1>2. Rank(K, i + 1) = Rank(K, i)
  BY <1>1, RankStep DEF Indexes
<1>3. \A q \in K : q < i + 1 => q < i
  <2>1. \A q \in K : q \in Int /\ q # i
    BY <1>1 DEF Indexes
  <2>2. QED
    BY <2>1
<1>4. QED
  BY <1>2, <1>3 DEF Moved

\* An element that stays.
LEMMA KeepMoved ==
  ASSUME Inside(self), mem \in Memory, NEW K, Indexes(K), NEW i \in K, NEW m, Moved(m, K, i)
  PROVE  /\ Moved(setbit(self, m, Rank(K, i), getbit(self, m, i)), K, i + 1)
         /\ Rank(K, i + 1) = Rank(K, i) + 1
         /\ Rank(K, i) \in Nat
         /\ getbit(self, m, i) = getbit(self, mem, i)
<1> DEFINE n == self.nbits
           k == Rank(K, i)
           b == getbit(self, m, i)
           r == setbit(self, m, k, b)
<1>0. /\ n \in Nat /\ self.off \in Nat
      /\ \A c \in 0 .. (n - 1) : self.off + c \in 0 .. (Bits - 1)
      /\ \A f, c : getbit(self, f, c) = IF c >= n THEN 0 ELSE f[self.off + c]
  BY InsideCells
<1>1. n \in Nat /\ self.off \in Nat /\ i \in Nat /\ i < n /\ K \in SUBSET (0 .. (n - 1))
  BY <1>0 DEF Indexes
<1>2. k \in Nat /\ k <= i /\ Rank(K, i + 1) = k + 1
  <2>1. Rank(K, i) \in Nat /\ Rank(K, i) <= i
    <3>1. i <= i
      BY <1>1
    <3>2. QED
      BY <1>1, <3>1, RankGrows
  <2>2. Rank(K, i + 1) = Rank(K, i) + 1
    BY <1>1, RankStep
  <2>3. QED
    BY <2>1, <2>2
<1>3. b = mem[self.off + i] /\ getbit(self, mem, i) = mem[self.off + i]
  <2>1. b = m[self.off + i] /\ getbit(self, mem, i) = mem[self.off + i]
    <3>1. ~ (i >= n)
      BY <1>1
    <3>2. QED
      BY <1>0, <3>1
  <2>2. m[self.off + i] = mem[self.off + i]
    BY <1>1, <1>2 DEF Moved
  <2>3. QED
    BY <2>1, <2>2
<1>4. b \in Bit
  BY <1>1, GetbitType DEF Moved, View
<1>5. k \in 0 .. (n - 1) /\ self.off + k \in 0 .. (Bits - 1)
  <2>1. k \in 0 .. (n - 1)
    BY <1>1, <1>2
  <2>2. QED
    BY <2>1, InsideCells
<1> HIDE DEF b, k
<1>6. /\ r \in Memory /\ r[self.off + k] = b
      /\ \A c \in 0 .. (Bits - 1) : c # self.off + k => r[c] = m[c]
  BY <1>4, <1>5, SetbitCells DEF Moved
<1> HIDE DEF r
<1>7. ASSUME NEW q \in K, q < i + 1
      PROVE  r[self.off + Rank(K, q)] = mem[self.off + q]
  <2>1. q \in Nat /\ q <= i
    BY <1>1, <1>7
  <2>2. CASE q = i
    BY <1>3, <1>6, <2>2 DEF k
  <2>3. CASE q # i
    <3>1. q < i /\ q <= i
      BY <1>1, <2>1, <2>3
    <3>2. Rank(K, q) \in Nat /\ Rank(K, q) < k
      BY <1>1, <2>1, <3>1, RankGrows DEF k
    <3>3. Rank(K, q) \in 0 .. (n - 1) /\ Rank(K, q) # k
      BY <1>1, <1>2, <3>2
    <3>4. self.off + Rank(K, q) \in 0 .. (Bits - 1) /\ self.off + Rank(K, q) # self.off + k
      <4>1. self.off + Rank(K, q) \in 0 .. (Bits - 1)
        BY <1>0, <3>3
      <4>2. self.off + Rank(K, q) # self.off + k
        BY <1>1, <1>2, <3>2, <3>3
      <4>3. QED
        BY <4>1, <4>2
    <3>5. m[self.off + Rank(K, q)] = mem[self.off + q]
      BY <3>1 DEF Moved
    <3>6. QED
      BY <1>6, <3>4, <3>5
  <2>4. QED
    BY <2>2, <2>3
<1>8. ASSUME NEW c \in 0 .. (n - 1), c >= Rank(K, i + 1)
      PROVE  r[self.off + c] = mem[self.off + c]
  <2>1. c >= k /\ c # k
    BY <1>1, <1>2, <1>8
  <2>2. self.off + c \in 0 .. (Bits - 1) /\ self.off + c # self.off + k
    <3>1. self.off + c \in 0 .. (Bits - 1)
      BY <1>0
    <3>2. self.off + c # self.off + k
      BY <1>1, <1>2, <2>1
    <3>3. QED
      BY <3>1, <3>2
  <2>3. m[self.off + c] = mem[self.off + c]
    BY <2>1 DEF Moved, k
  <2>4. QED
    BY <1>6, <2>2, <2>3
<1>9. ASSUME NEW c \in 0 .. (Bits - 1), c \notin self.off .. (self.off + n - 1)
      PROVE  r[c] = mem[c]
  <2>1. c # self.off + k
    BY <1>1, <1>5, <1>9
  <2>2. QED
    BY <1>6, <1>9, <2>1 DEF Moved
<1>10. Moved(r, K, i + 1)
  BY <1>6, <1>7, <1>8, <1>9 DEF Moved
<1>11. QED
  BY <1>2, <1>3, <1>10 DEF r, b, k
\* Ranks within a run of elements that stay.
LEMMA RankRun ==
  ASSUME NEW n \in Nat, NEW K \in SUBSET (0 .. (n - 1)), NEW i \in Nat, NEW L \in Nat,
         i .. (i + L - 1) \subseteq K
  PROVE  \A q \in 0 .. L : Rank(K, i + q) = Rank(K, i) + q
<1> DEFINE S == {q \in 0 .. L : Rank(K, i + q) = Rank(K, i) + q}
<1>1. Rank(K, i) \in Nat
  BY IndicesFinite
<1>2. 0 \in S
  BY <1>1
<1>3. ASSUME NEW q \in 0 .. (L - 1), q \in S PROVE q + 1 \in S
  <2>1. i + q \in Nat /\ i + q \in K /\ i + (q + 1) = (i + q) + 1
    OBVIOUS
  <2>2. Rank(K, (i + q) + 1) = Rank(K, i + q) + 1
    <3> DEFINE p == i + q
    <3>1. p \in Nat /\ p \in K
      BY <2>1
    <3> HIDE DEF p
    <3>2. Rank(K, p + 1) = Rank(K, p) + 1
      BY <3>1, RankStep
    <3>3. QED
      BY <3>2 DEF p
  <2>3. QED
    BY <1>1, <1>3, <2>1, <2>2
<1> HIDE DEF S
<1>4. 0 .. L \subseteq S
  BY <1>2, <1>3, RangeInduction
<1>5. QED
  BY <1>4 DEF S

\* A run of elements that stay.
LEMMA RunMoved ==
  ASSUME Inside(self), mem \in Memory, NEW K, Indexes(K), NEW i \in Nat, NEW L \in Nat,
         i + L <= self.nbits, i .. (i + L - 1) \subseteq K, NEW m, Moved(m, K, i)
  PROVE  /\ Moved(CopyN(self, m, Rank(K, i), i, L), K, i + L)
         /\ Rank(K, i + L) = Rank(K, i) + L
<1> DEFINE n == self.nbits
           k == Rank(K, i)
           r == CopyN(self, m, k, i, L)
<1>1. /\ n \in Nat /\ self.off \in Nat /\ Bits \in Nat
      /\ \A c \in 0 .. (n - 1) : self.off + c \in 0 .. (Bits - 1)
  BY InsideCells
<1>2. K \in SUBSET (0 .. (n - 1)) /\ k \in Nat /\ k <= i
  <2>1. K \in SUBSET (0 .. (n - 1))
    BY DEF Indexes
  <2>2. i <= i
    OBVIOUS
  <2>3. Rank(K, i) \in Nat /\ Rank(K, i) <= i
    BY <1>1, <2>1, <2>2, RankGrows
  <2>4. QED
    BY <2>1, <2>3
<1>3. \A q \in 0 .. L : Rank(K, i + q) = k + q
  <2>1. \A q \in 0 .. L : Rank(K, i + q) = Rank(K, i) + q
    <3> HIDE DEF n, k, r
    <3>1. n \in Nat /\ K \in SUBSET (0 .. (n - 1)) /\ i .. (i + L - 1) \subseteq K
      BY <1>1, <1>2
    <3>2. QED
      BY <3>1, Zenon, RankRun
  <2>2. QED
    BY <2>1
<1>4. m \in Memory /\ \A q \in 0 .. (L - 1) : m[self.off + (i + q)] = mem[self.off + (i + q)]
  <2>1. ASSUME NEW q \in 0 .. (L - 1)
        PROVE  i + q \in 0 .. (n - 1) /\ i + q >= Rank(K, i)
    BY <1>1, <1>2
  <2>2. QED
    BY <2>1 DEF Moved
<1> HIDE DEF k
<1>5. \A c \in 0 .. (Bits - 1) :
        r[c] = IF c - self.off \in k .. (k + L - 1) THEN m[c - k + i] ELSE m[c]
  BY DEF CopyN
<1>6. ASSUME NEW q \in 0 .. (L - 1)
      PROVE  /\ self.off + (k + q) \in 0 .. (Bits - 1)
             /\ r[self.off + (k + q)] = mem[self.off + (i + q)]
  <2>1. k + q \in 0 .. (n - 1)
    BY <1>1, <1>2
  <2>2. self.off + (k + q) \in 0 .. (Bits - 1)
    BY <1>1, <2>1
  <2>3. (self.off + (k + q)) - self.off \in k .. (k + L - 1)
    BY <1>1, <1>2
  <2>4. (self.off + (k + q)) - k + i = self.off + (i + q)
    BY <1>1, <1>2
  <2>5. r[self.off + (k + q)] = m[(self.off + (k + q)) - k + i]
    BY <1>5, <2>2, <2>3
  <2>6. QED
    BY <1>4, <2>2, <2>4, <2>5
<1>7. ASSUME NEW c \in 0 .. (Bits - 1), c - self.off \notin k .. (k + L - 1)
      PROVE  r[c] = m[c]
  BY <1>5, <1>7
<1>8. r \in Memory
  <2>1. ASSUME NEW c \in 0 .. (Bits - 1), c - self.off \in k .. (k + L - 1)
        PROVE  r[c] \in Bit
    <3> DEFINE q == c - self.off - k
    <3>1. q \in 0 .. (L - 1) /\ c = self.off + (k + q) /\ i + q \in 0 .. (n - 1)
      BY <1>1, <1>2, <2>1
    <3> HIDE DEF q
    <3>2. r[c] = mem[self.off + (i + q)] /\ self.off + (i + q) \in 0 .. (Bits - 1)
      BY <1>1, <1>6, <3>1
    <3>3. QED
      BY <3>2 DEF Memory
  <2>2. \A c \in 0 .. (Bits - 1) : r[c] \in Bit
    BY <1>4, <1>7, <2>1 DEF Memory
  <2>3. r = [c \in 0 .. (Bits - 1) |-> r[c]]
    BY DEF CopyN
  <2> HIDE DEF r
  <2>4. QED
    BY <2>2, <2>3 DEF Memory
<1> HIDE DEF r
<1>9. Rank(K, i + L) = k + L
  BY <1>3
<1>10. ASSUME NEW q \in K, q < i + L
       PROVE  r[self.off + Rank(K, q)] = mem[self.off + q]
  <2>1. q \in Nat /\ q < n
    BY <1>1, <1>2
  <2>2. CASE q < i
    <3>1. q <= i
      BY <2>1, <2>2
    <3>2. Rank(K, q) \in Nat /\ Rank(K, q) < k
      BY <1>1, <1>2, <2>1, <2>2, <3>1, RankGrows DEF k
    <3>3. Rank(K, q) \in 0 .. (n - 1)
      <4>1. q <= q
        BY <2>1
      <4>2. Rank(K, q) <= q
        BY <1>1, <1>2, <2>1, <4>1, RankGrows
      <4>3. QED
        BY <1>1, <2>1, <3>2, <4>2
    <3>4. self.off + Rank(K, q) \in 0 .. (Bits - 1)
      BY <1>1, <3>3
    <3>5. (self.off + Rank(K, q)) - self.off \notin k .. (k + L - 1)
      BY <1>1, <1>2, <3>2
    <3>6. m[self.off + Rank(K, q)] = mem[self.off + q]
      BY <2>2 DEF Moved
    <3>7. QED
      BY <1>7, <3>4, <3>5, <3>6
  <2>3. CASE q >= i
    <3> DEFINE p == q - i
    <3>1. p \in 0 .. (L - 1) /\ p \in 0 .. L /\ q = i + p
      BY <1>10, <2>1, <2>3
    <3> HIDE DEF p
    <3>2. Rank(K, q) = k + p
      BY <1>3, <3>1
    <3>3. QED
      BY <1>6, <3>1, <3>2
  <2>4. QED
    BY <2>1, <2>2, <2>3
<1>11. ASSUME NEW c \in 0 .. (n - 1), c >= k + L
       PROVE  r[self.off + c] = mem[self.off + c]
  <2>1. self.off + c \in 0 .. (Bits - 1)
    BY <1>1
  <2>2. (self.off + c) - self.off \notin k .. (k + L - 1)
    BY <1>1, <1>2, <1>11
  <2>3. c >= Rank(K, i)
    BY <1>2, <1>11 DEF k
  <2>4. QED
    BY <1>7, <2>1, <2>2, <2>3 DEF Moved
<1>12. ASSUME NEW c \in 0 .. (Bits - 1), c \notin self.off .. (self.off + n - 1)
       PROVE  r[c] = mem[c]
  <2>1. c - self.off \notin k .. (k + L - 1)
    BY <1>1, <1>2, <1>12
  <2>2. QED
    BY <1>7, <1>12, <2>1 DEF Moved
<1>13. Moved(r, K, i + L)
  BY <1>8, <1>9, <1>10, <1>11, <1>12 DEF Moved
<1>14. QED
  BY <1>9, <1>13 DEF r, k

\* Before anything moves: a run of elements that stay, and after it some that go.
LEMMA FirstMoved ==
  ASSUME Inside(self), mem \in Memory, NEW K, Indexes(K), NEW a \in Nat, NEW i \in Nat,
         a <= i, 0 .. (a - 1) \subseteq K, \A q \in K : q < i => q < a
  PROVE  Moved(mem, K, i) /\ Rank(K, i) = a
<1>1. self.nbits \in Nat /\ K \in SUBSET (0 .. (self.nbits - 1)) /\ 0 \in Nat
  BY InsideCells DEF Indexes
<1>2. \A q \in 0 .. a : Rank(K, q) = q
  <2>1. 0 .. (0 + a - 1) \subseteq K
    OBVIOUS
  <2>2. \A q \in 0 .. a : Rank(K, 0 + q) = Rank(K, 0) + q
    BY <1>1, <2>1, RankRun
  <2>3. Rank(K, 0) = 0
    BY <1>1, RankStep
  <2>4. ASSUME NEW q \in 0 .. a PROVE Rank(K, q) = q
    <3>1. 0 + q = q
      OBVIOUS
    <3>2. QED
      BY <2>2, <2>3, <3>1
  <2>5. QED
    BY <2>4
<1>3. Rank(K, i) = a
  <2>1. Below(K, i) = Below(K, a)
    <3>1. \A q \in K : q < i <=> q < a
      BY <1>1
    <3>2. QED
      BY <3>1 DEF Below
  <2>2. a \in 0 .. a
    OBVIOUS
  <2>3. Rank(K, a) = a
    BY <1>2, <2>2
  <2>4. QED
    BY <2>1, <2>3 DEF Rank
<1>4. \A q \in K : q < i => Rank(K, q) = q
  <2>1. \A q \in K : q < i => q \in 0 .. a
    BY <1>1
  <2>2. QED
    BY <1>2, <2>1
<1>5. QED
  BY <1>3, <1>4 DEF Moved
\* The fields of an array in the buffer.
LEMMA SharedFields ==
  /\ \A p, q, b : /\ Shared(p, q, b).off = p /\ Shared(p, q, b).nbits = q
                  /\ Shared(p, q, b).pinned = b /\ Shared(p, q, b).shared = TRUE
  /\ \A p, q, b, c : [Shared(p, q, b) EXCEPT !.nbits = c] = Shared(p, c, b)
<1>1. ASSUME NEW p, NEW q, NEW b, NEW c
      PROVE  [Shared(p, q, b) EXCEPT !.nbits = c] = Shared(p, c, b)
  <2> DEFINE o == <<>>
             t == TRUE
  <2>1. Shared(p, q, b) = [own |-> o, off |-> p, nbits |-> q, shared |-> t, pinned |-> b]
    BY DEF Shared
  <2>2. Shared(p, c, b) = [own |-> o, off |-> p, nbits |-> c, shared |-> t, pinned |-> b]
    BY DEF Shared
  <2> HIDE DEF o, t
  <2>3. QED
    BY <2>1, <2>2
<1>2. \A p, q, b : /\ Shared(p, q, b).off = p /\ Shared(p, q, b).nbits = q
                  /\ Shared(p, q, b).pinned = b /\ Shared(p, q, b).shared = TRUE
  BY DEF Shared
<1>3. QED
  BY <1>1, <1>2

\* Elements that have moved down, with the array shortened to their number.
LEMMA ShortenedMoved ==
  ASSUME Inside(self), NEW S, NEW K, Indexes(K), K = (0 .. (self.nbits - 1)) \ S,
         NEW m, Moved(m, K, self.nbits), NEW r, r = Resize(self, m, Cardinality(K))
  PROVE  /\ self.pinned \/ Removed(S, r)
         /\ Inside(r.v) /\ r.mem = m /\ m \in Memory
<1> DEFINE n == self.nbits
           c == Cardinality(K)
           A == Ascending(K)
<1>1. /\ n \in Nat /\ self.off \in Nat /\ Bits \in Nat
      /\ \A f, i : getbit(self, f, i) = IF i >= n THEN 0 ELSE f[self.off + i]
  BY InsideCells
<1>2. K \in SUBSET (0 .. (n - 1)) /\ c \in Nat
  <2>1. K \in SUBSET (0 .. (n - 1))
    BY DEF Indexes
  <2>2. QED
    BY <1>1, <2>1, IndicesFinite
<1>3. c <= n
  <2>1. n <= n
    BY <1>1
  <2>2. Rank(K, n) <= n
    BY <1>1, <1>2, <2>1, RankGrows
  <2>3. Rank(K, n) = c
    BY <1>1, <1>2, RankStep
  <2>4. QED
    BY <2>2, <2>3
<1>4. m \in Memory
  BY DEF Moved
<1>5. self = Shared(self.off, n, self.pinned) /\ self.pinned \in BOOLEAN /\ self.off + n <= Bits
  BY DEF Inside, Within
<1>6. r.mem = m /\ r.v = IF self.pinned THEN self ELSE [self EXCEPT !.nbits = c]
  BY DEF Resize, Outcome
<1>7. [self EXCEPT !.nbits = c] = Shared(self.off, c, self.pinned)
  <2> DEFINE p == self.off
             b == self.pinned
  <2> HIDE DEF n, p, b, c
  <2>1. self = Shared(p, n, b)
    BY <1>5 DEF p, b
  <2>2. [self EXCEPT !.nbits = c] = Shared(p, c, b)
    BY <2>1, SharedFields
  <2>3. QED
    BY <2>2 DEF p, b
<1>8. Inside(r.v)
  <2> DEFINE w == Shared(self.off, c, self.pinned)
  <2>1. w.off = self.off /\ w.nbits = c /\ w.pinned = self.pinned
    BY DEF Shared
  <2>2. self.off + c <= Bits
    BY <1>1, <1>2, <1>3, <1>5
  <2>3. Inside(w)
    BY <1>1, <1>2, <1>5, <2>1, <2>2 DEF Inside, Within
  <2>4. QED
    BY <1>6, <1>7, <2>3
<1>9. ASSUME ~ self.pinned PROVE Removed(S, r)
  <2>1. r.v = Shared(self.off, c, self.pinned)
    BY <1>6, <1>7, <1>9
  <2>2. r.v.nbits = c /\ r.v.off = self.off /\ r.v.shared = TRUE
    BY <2>1, SharedFields
  <2>3. Len(A) = c /\ \A k \in 1 .. c : A[k] \in K /\ Rank(K, A[k]) = k - 1
    BY <1>1, <1>2, AscendingRank
  <2> HIDE DEF A, c
  <2>4. ASSUME NEW k \in 1 .. Len(A)
        PROVE  getbit(r.v, r.mem, k - 1) = getbit(self, mem, A[k])
    <3>1. k \in 1 .. c /\ ~ (k - 1 >= c)
      BY <1>2, <2>3
    <3>2. A[k] \in K /\ Rank(K, A[k]) = k - 1
      BY <2>3, <3>1
    <3>3. getbit(r.v, r.mem, k - 1) = m[self.off + (k - 1)]
      BY <1>6, <2>2, <3>1 DEF getbit
    <3>4. A[k] < n /\ ~ (A[k] >= n)
      BY <1>1, <1>2, <3>2
    <3>5. m[self.off + Rank(K, A[k])] = mem[self.off + A[k]]
      BY <3>2, <3>4 DEF Moved
    <3>6. getbit(self, mem, A[k]) = mem[self.off + A[k]]
      BY <1>1, <3>4
    <3>7. QED
      BY <3>2, <3>3, <3>5, <3>6
  <2>5. QED
    BY <2>2, <2>3, <2>4 DEF Removed, A
<1>10. QED
  BY <1>4, <1>6, <1>8, <1>9

\* There is one such memory.
LEMMA MovedUnique ==
  ASSUME Inside(self), NEW K, Indexes(K), NEW f, Moved(f, K, self.nbits),
         NEW g, Moved(g, K, self.nbits)
  PROVE  f = g
<1> DEFINE n == self.nbits
<1>1. n \in Nat /\ self.off \in Nat /\ Bits \in Nat /\ K \in SUBSET (0 .. (n - 1))
  BY InsideCells DEF Indexes
<1>2. ASSUME NEW c \in 0 .. (Bits - 1) PROVE f[c] = g[c]
  <2>1. CASE c \notin self.off .. (self.off + n - 1)
    BY <2>1 DEF Moved
  <2>2. CASE c \in self.off .. (self.off + n - 1)
    <3> DEFINE k == c - self.off
    <3>1. k \in 0 .. (n - 1) /\ c = self.off + k
      BY <1>1, <2>2
    <3> HIDE DEF k
    <3>2. Rank(K, n) = Cardinality(K) /\ Cardinality(K) \in Nat
      BY <1>1, RankStep, IndicesFinite
    <3>3. CASE k >= Rank(K, n)
      BY <3>1, <3>3 DEF Moved
    <3>4. CASE ~ (k >= Rank(K, n))
      <4>1. k \in 0 .. (Cardinality(K) - 1)
        BY <3>1, <3>2, <3>4
      <4>2. PICK x \in K : Rank(K, x) = k
        BY <1>1, <4>1, RankOnto
      <4>3. x < n
        BY <1>1
      <4>4. QED
        BY <3>1, <4>2, <4>3 DEF Moved
    <3>5. QED
      BY <3>3, <3>4
  <2>3. QED
    BY <2>1, <2>2
<1>3. f \in Memory /\ g \in Memory
  BY DEF Moved
<1>4. /\ f = [c \in 0 .. (Bits - 1) |-> f[c]]
      /\ g = [c \in 0 .. (Bits - 1) |-> g[c]]
  BY <1>3 DEF Memory
<1>5. [c \in 0 .. (Bits - 1) |-> f[c]] = [c \in 0 .. (Bits - 1) |-> g[c]]
  BY <1>2
<1>6. QED
  BY <1>4, <1>5

\* The tail of the array closes the gap.
LEMMA DeletedN ==
  ASSUME Inside(self), mem \in Memory, NEW K, Indexes(K), NEW i \in 0 .. self.nbits,
         i .. (self.nbits - 1) \subseteq K, NEW m, Moved(m, K, i), NEW d \in Nat,
         Rank(K, i) = i - d
  PROVE  \E f : /\ Moved(f, K, self.nbits)
                /\ DeleteN(self, m, i - d, d) = Resize(self, f, Cardinality(K))
<1> DEFINE n == self.nbits
           L == n - i
           k == i - d
           f == CopyN(self, m, k, i, L)
<1>1. n \in Nat /\ K \in SUBSET (0 .. (n - 1))
  BY InsideCells DEF Indexes
<1>2. i \in Nat /\ L \in Nat /\ i + L = n /\ i .. (i + L - 1) = i .. (n - 1)
  BY <1>1
<1>3. k + d = i /\ n - k - d = L /\ n - d = k + L
  BY <1>1
<1>4. DeleteN(self, m, k, d) = Resize(self, f, n - d)
  BY <1>3 DEF DeleteN
<1> HIDE DEF L, k
<1>5. Rank(K, i) = k
  BY DEF k
<1>6. Moved(CopyN(self, m, Rank(K, i), i, L), K, i + L) /\ Rank(K, i + L) = Rank(K, i) + L
  <2>1. i + L <= self.nbits /\ i .. (i + L - 1) \subseteq K
    BY <1>1, <1>2
  <2>2. QED
    BY <1>2, <2>1, RunMoved
<1>7. Rank(K, n) = Cardinality(K)
  BY <1>1, RankStep
<1>8. Moved(f, K, n) /\ n - d = Cardinality(K)
  BY <1>2, <1>3, <1>5, <1>6, <1>7
<1>9. QED
  BY <1>4, <1>8 DEF k
\* The elements that are still to come are where they were.
LEMMA UnmovedAhead ==
  ASSUME Inside(self), NEW K, Indexes(K), NEW i \in Nat, i < self.nbits, NEW m, Moved(m, K, i)
  PROVE  getbit(self, m, i) = getbit(self, mem, i)
<1>1. /\ self.nbits \in Nat
      /\ \A f, c : getbit(self, f, c) = IF c >= self.nbits THEN 0 ELSE f[self.off + c]
  BY InsideCells
<1>2. i >= Rank(K, i)
  <2>1. K \in SUBSET (0 .. (self.nbits - 1)) /\ i <= i
    BY DEF Indexes
  <2>2. Rank(K, i) <= i /\ Rank(K, i) \in Nat
    BY <1>1, <2>1, RankGrows
  <2>3. QED
    BY <2>2
<1>3. i \in 0 .. (self.nbits - 1)
  BY <1>1
<1>4. m[self.off + i] = mem[self.off + i]
  BY <1>2, <1>3 DEF Moved
<1>5. ~ (i >= self.nbits)
  BY <1>1
<1>6. QED
  BY <1>1, <1>4, <1>5

\* Masks: self, or an array of the same length elsewhere.
IsMask(mask) == mask = self \/ (Apart(mask) /\ mask.nbits = self.nbits)

\* The indices that a mask selects.
LEMMA MaskOnes ==
  ASSUME IInv, NEW mask, IsMask(mask)
  PROVE  /\ mask.nbits = self.nbits /\ View(mask) /\ self.nbits \in Nat
         /\ Indexes(Ones(mask)) /\ Indexes((0 .. (self.nbits - 1)) \ Ones(mask))
         /\ Ones(mask) \in SUBSET (0 .. (self.nbits - 1))
         /\ \A i \in 0 .. (self.nbits - 1) :
              /\ getbit(mask, mem, i) \in {0, 1}
              /\ getbit(mask, mem, i) = 1 <=> i \in Ones(mask)
<1>1. Inside(self) /\ mem \in Memory
  BY DEF IInv
<1>2. mask.nbits = self.nbits /\ View(mask) /\ self.nbits \in Nat
  BY <1>1, InsideCells DEF IsMask, View
<1>3. Ones(mask) = {i \in 0 .. (self.nbits - 1) : getbit(mask, mem, i) = 1}
  BY <1>2 DEF Ones
<1>4. \A i \in 0 .. (self.nbits - 1) : getbit(mask, mem, i) \in {0, 1}
  BY <1>1, <1>2, GetbitType DEF Bit
<1>5. QED
  BY <1>2, <1>3, <1>4 DEF Indexes

\* A mask reads the same during a deletion.
LEMMA MaskReads ==
  ASSUME IInv, NEW mask, IsMask(mask), NEW K, Indexes(K), NEW i \in 0 .. (self.nbits - 1),
         NEW m, Moved(m, K, i)
  PROVE  getbit(mask, m, i) = getbit(mask, mem, i)
<1>1. CASE mask = self
  <2>1. Inside(self) /\ self.nbits \in Nat
    BY InsideCells DEF IInv
  <2>2. i \in Nat /\ i < self.nbits
    BY <2>1
  <2>3. QED
    BY <1>1, <2>1, <2>2, UnmovedAhead
<1>2. CASE Apart(mask)
  <2>1. mask.shared = FALSE
    BY <1>2 DEF Apart, Own
  <2>2. QED
    BY <2>1 DEF getbit
<1>3. QED
  BY <1>1, <1>2 DEF IsMask

\* The loop of delmask_lock_held().
DelLoop(f, mask) ==
  [i \in 0 .. self.nbits |->
     IF i = 0 THEN [m |-> mem, n |-> 0]
     ELSE IF getbit(mask, f[i - 1].m, i - 1) # 0 THEN f[i - 1]
     ELSE [m |-> setbit(self, f[i - 1].m, f[i - 1].n, getbit(self, f[i - 1].m, i - 1)),
           n |-> f[i - 1].n + 1]]

\* Writing keeps the memory a memory, wherever it goes.
LEMMA SetbitType ==
  ASSUME NEW v, NEW m \in Memory, NEW i, NEW b \in Bit
  PROVE  setbit(v, m, i, b) \in Memory
<1> DEFINE p == v.off + i
<1>1. setbit(v, m, i, b) = [m EXCEPT ![p] = b]
  BY DEF setbit
<1> HIDE DEF p
<1>2. QED
  BY <1>1 DEF Memory

\* The loop of delmask_lock_held() leaves something.
LEMMA DelLoopExists ==
  ASSUME IInv, NEW mask, IsMask(mask)
  PROVE  \E f : f = DelLoop(f, mask)
<1> DEFINE n == self.nbits
           V == [m : Memory, n : Nat]
           a == [m |-> mem, n |-> 0]
           Turn(i, p) ==
             IF getbit(mask, p.m, i - 1) # 0 THEN p
             ELSE [m |-> setbit(self, p.m, p.n, getbit(self, p.m, i - 1)), n |-> p.n + 1]
           step == [z \in (1 .. n) \X V |-> Turn(z[1], z[2])]
<1>1. n \in Nat /\ View(self)
  BY InsideCells DEF IInv, View
<1>2. a \in V
  BY DEF IInv
<1>3. ASSUME NEW i \in 1 .. n, NEW p \in V PROVE Turn(i, p) \in V
  <2>1. p.m \in Memory /\ p.n \in Nat /\ i - 1 \in Nat
    BY <1>1
  <2>2. getbit(self, p.m, i - 1) \in Bit
    BY <1>1, <2>1, GetbitType
  <2>3. setbit(self, p.m, p.n, getbit(self, p.m, i - 1)) \in Memory
    BY <2>1, <2>2, SetbitType
  <2>4. QED
    BY <2>1, <2>3
<1> HIDE DEF V, a, Turn
<1>4. step \in [(1 .. n) \X V -> V]
  BY <1>3
<1>5. \A i \in 1 .. n, p \in V : step[<<i, p>>] = Turn(i, p)
  OBVIOUS
<1> HIDE DEF step
<1>6. PICK f \in [0 .. n -> V] : Turns(f, n, a, step)
  BY <1>1, <1>2, <1>4, LoopExists
<1>7. ASSUME NEW i \in 0 .. n PROVE f[i] = DelLoop(f, mask)[i]
  <2>1. CASE i = 0
    BY <1>6, <2>1 DEF Turns, DelLoop, a
  <2>2. CASE i # 0
    <3>1. i \in 1 .. n /\ i - 1 \in 0 .. n
      BY <1>1, <2>2
    <3>2. f[i] = Turn(i, f[i - 1])
      BY <1>5, <1>6, <3>1 DEF Turns
    <3>3. QED
      BY <2>2, <3>2 DEF DelLoop, Turn
  <2>3. QED
    BY <2>1, <2>2
<1>8. DelLoop(f, mask) = [i \in 0 .. n |-> DelLoop(f, mask)[i]] /\ f = [i \in 0 .. n |-> f[i]]
  BY <1>6 DEF DelLoop
<1>9. [i \in 0 .. n |-> DelLoop(f, mask)[i]] = [i \in 0 .. n |-> f[i]]
  BY <1>7
<1>10. QED
  BY <1>8, <1>9

\* It moves the elements that are kept.
LEMMA DelLoopMoves ==
  ASSUME IInv, NEW mask, IsMask(mask), NEW f, f = DelLoop(f, mask),
         NEW K, K = (0 .. (self.nbits - 1)) \ Ones(mask)
  PROVE  Moved(f[self.nbits].m, K, self.nbits) /\ f[self.nbits].n = Cardinality(K)
<1> DEFINE n == self.nbits
           S == {i \in 0 .. n : Moved(f[i].m, K, i) /\ f[i].n = Rank(K, i)}
<1>1. n \in Nat /\ Inside(self) /\ mem \in Memory /\ Indexes(K)
  BY MaskOnes DEF IInv
<1>2. K \in SUBSET (0 .. (n - 1))
  BY <1>1 DEF Indexes
<1>3. 0 \in S
  <2>1. f[0] = [m |-> mem, n |-> 0]
    <3>1. 0 \in 0 .. n
      BY <1>1
    <3>2. QED
      BY <3>1 DEF DelLoop
  <2>2. Rank(K, 0) = 0
    BY <1>1, <1>2, RankStep
  <2>3. Moved(mem, K, 0)
    <3>1. 0 \in Nat /\ 0 <= 0 /\ 0 .. (0 - 1) \subseteq K /\ \A q \in K : q < 0 => q < 0
      OBVIOUS
    <3>2. QED
      BY <1>1, <3>1, FirstMoved
  <2>4. QED
    BY <1>1, <2>1, <2>2, <2>3
<1>4. ASSUME NEW i \in 0 .. (n - 1), i \in S PROVE i + 1 \in S
  <2> DEFINE p == f[i]
  <2>1. i \in Nat /\ i < n /\ i + 1 \in 0 .. n /\ (i + 1) - 1 = i /\ i + 1 # 0
    BY <1>1
  <2>2. f[i + 1] = IF getbit(mask, p.m, i) # 0 THEN p
                   ELSE [m |-> setbit(self, p.m, p.n, getbit(self, p.m, i)), n |-> p.n + 1]
    <3> DEFINE k == i + 1
    <3>1. k \in 0 .. n /\ k - 1 = i /\ k # 0
      BY <2>1
    <3> HIDE DEF k
    <3>2. f[k] = DelLoop(f, mask)[k]
      OBVIOUS
    <3>3. f[k] = IF getbit(mask, f[k - 1].m, k - 1) # 0 THEN f[k - 1]
                 ELSE [m |-> setbit(self, f[k - 1].m, f[k - 1].n, getbit(self, f[k - 1].m, k - 1)),
                       n |-> f[k - 1].n + 1]
      BY <3>1, <3>2 DEF DelLoop
    <3>4. QED
      BY <3>1, <3>3 DEF k
  <2>3. Moved(p.m, K, i) /\ p.n = Rank(K, i)
    BY <1>4
  <2> HIDE DEF p, S
  <2>4. getbit(mask, p.m, i) = getbit(mask, mem, i)
    BY <1>1, <2>3, MaskReads
  <2>5. getbit(mask, mem, i) \in {0, 1} /\ (getbit(mask, mem, i) = 1 <=> i \in Ones(mask))
    BY MaskOnes
  <2>6. CASE i \in Ones(mask)
    <3>1. f[i + 1] = p
      BY <2>2, <2>4, <2>5, <2>6
    <3>2. i \notin K
      BY <2>6
    <3>3. Moved(p.m, K, i + 1) /\ Rank(K, i + 1) = Rank(K, i)
      BY <1>1, <2>1, <2>3, <3>2, SkipMoved
    <3>4. QED
      BY <2>1, <2>3, <3>1, <3>3 DEF S
  <2>7. CASE i \notin Ones(mask)
    <3>1. f[i + 1] = [m |-> setbit(self, p.m, p.n, getbit(self, p.m, i)), n |-> p.n + 1]
      BY <2>2, <2>4, <2>5, <2>7
    <3>2. i \in K
      BY <2>7
    <3>3. /\ Moved(setbit(self, p.m, Rank(K, i), getbit(self, p.m, i)), K, i + 1)
          /\ Rank(K, i + 1) = Rank(K, i) + 1
      BY <1>1, <2>3, <3>2, KeepMoved
    <3>4. /\ f[i + 1].m = setbit(self, p.m, Rank(K, i), getbit(self, p.m, i))
          /\ f[i + 1].n = Rank(K, i) + 1
      BY <2>3, <3>1
    <3>5. Moved(f[i + 1].m, K, i + 1) /\ f[i + 1].n = Rank(K, i + 1)
      BY <3>3, <3>4
    <3>6. QED
      BY <2>1, <3>5 DEF S
  <2>8. QED
    BY <2>6, <2>7
<1> HIDE DEF S
<1>5. 0 .. n \subseteq S
  <2> HIDE DEF n
  <2>1. 0 \in Int /\ n \in Int
    BY <1>1
  <2>2. QED
    BY <2>1, <1>3, <1>4, RangeInduction
<1>6. n \in S
  BY <1>1, <1>5
<1>7. Rank(K, n) = Cardinality(K)
  BY <1>1, <1>2, RankStep
<1>8. QED
  BY <1>6, <1>7 DEF S
\* delmask_lock_held() moves the elements that are kept, in each of its four cases.
LEMMA DelMaskMoves ==
  ASSUME IInv, NEW mask, IsMask(mask), NEW K, K = (0 .. (self.nbits - 1)) \ Ones(mask)
  PROVE  \E f : /\ Moved(f, K, self.nbits)
                /\ DelMaskLocked(mask) = Resize(self, f, Cardinality(K))
<1> DEFINE n == self.nbits
           cnt == Cardinality(Ones(mask))
           done == CHOOSE f : f = DelLoop(f, mask)
           q == Min(Ones(mask))
<1>1. /\ n \in Nat /\ Inside(self) /\ mem \in Memory
      /\ Ones(mask) \in SUBSET (0 .. (n - 1)) /\ Indexes(K) /\ K \in SUBSET (0 .. (n - 1))
  BY MaskOnes DEF IInv, Indexes
<1>2. cnt \in Nat /\ IsFiniteSet(Ones(mask))
  BY <1>1, IndicesFinite
<1>3. Rank(K, n) = Cardinality(K)
  BY <1>1, RankStep
<1>4. DelMaskLocked(mask) =
        CASE cnt = 0 -> Resize(self, mem, n)
          [] cnt # 0 /\ cnt = n -> Resize(self, mem, 0)
          [] cnt = 1 /\ cnt # n -> DeleteN(self, mem, q, 1)
          [] cnt > 1 /\ cnt # n -> Resize(self, done[n].m, done[n].n)
  BY DEF DelMaskLocked, DelLoop
<1>5. done = DelLoop(done, mask)
  <2>1. \E f : f = DelLoop(f, mask)
    BY DelLoopExists
  <2>2. QED
    BY <2>1
<1> HIDE DEF done, q, cnt
<1>6. CASE cnt = 0
  <2>1. DelMaskLocked(mask) = Resize(self, mem, n)
    BY <1>4, <1>6
  <2>2. Ones(mask) = {}
    BY <1>2, <1>6, FS_EmptySet DEF cnt
  <2>3. 0 .. (n - 1) \subseteq K /\ n <= n /\ \A i \in K : i < n => i < n
    BY <1>1, <2>2
  <2>4. Moved(mem, K, n) /\ Rank(K, n) = n
    BY <1>1, <2>3, FirstMoved
  <2>5. QED
    BY <1>3, <2>1, <2>4
<1>7. CASE cnt # 0 /\ cnt = n
  <2>1. DelMaskLocked(mask) = Resize(self, mem, 0)
    BY <1>4, <1>7
  <2>2. Ones(mask) = 0 .. (n - 1)
    <3>1. 0 \in Int /\ n - 1 \in Int
      BY <1>1
    <3>2. IsFiniteSet(0 .. (n - 1)) /\ Cardinality(0 .. (n - 1)) = n
      <4>1. Cardinality(0 .. (n - 1)) = IF 0 > n - 1 THEN 0 ELSE n - 1 - 0 + 1
        BY <3>1, FS_Interval
      <4>2. IsFiniteSet(0 .. (n - 1))
        BY <3>1, FS_Interval
      <4>3. QED
        BY <1>1, <4>1, <4>2
    <3>3. QED
      BY <1>1, <1>7, <3>2, FS_Subset DEF cnt
  <2>3. K = {} /\ 0 \in Nat /\ 0 <= n /\ 0 .. (0 - 1) \subseteq K
    BY <1>1, <2>2
  <2>4. Moved(mem, K, n) /\ Rank(K, n) = 0
    <3>1. \A i \in K : i < n => i < 0
      BY <2>3
    <3>2. QED
      BY <1>1, <2>3, <3>1, FirstMoved
  <2>5. QED
    BY <1>3, <2>1, <2>4
<1>8. CASE cnt = 1 /\ cnt # n
  <2>1. DelMaskLocked(mask) = DeleteN(self, mem, q, 1)
    BY <1>4, <1>8
  <2>2. PICK x : Ones(mask) = {x}
    BY <1>2, <1>8, FS_Singleton DEF cnt
  <2>3. q = x /\ x \in 0 .. (n - 1)
    <3>1. 0 \in Int /\ n - 1 \in Int /\ Ones(mask) # {}
      BY <1>1, <2>2
    <3>2. Min(Ones(mask)) \in Ones(mask)
      BY <1>1, <3>1, Minimum
    <3>3. QED
      BY <1>1, <2>2, <3>2 DEF q
  <2> DEFINE i == x + 1
  <2>4. i \in 0 .. n /\ i \in Nat /\ x \in Nat /\ x <= i /\ i - 1 = x /\ 1 \in Nat
    BY <1>1, <2>3
  <2>5. 0 .. (x - 1) \subseteq K /\ i .. (n - 1) \subseteq K
    BY <1>1, <2>2, <2>3
  <2>6. \A y \in K : y < i => y < x
    <3>1. \A y \in K : y \in Nat /\ y # x
      BY <1>1, <2>2
    <3>2. QED
      BY <2>3, <3>1
  <2> HIDE DEF i
  <2>7. Moved(mem, K, i) /\ Rank(K, i) = x
    BY <1>1, <2>4, <2>5, <2>6, FirstMoved
  <2>8. Rank(K, i) = i - 1
    BY <2>4, <2>7
  <2>9. PICK f : Moved(f, K, n) /\ DeleteN(self, mem, i - 1, 1) = Resize(self, f, Cardinality(K))
    BY <1>1, <2>4, <2>5, <2>7, <2>8, DeletedN
  <2>10. DeleteN(self, mem, i - 1, 1) = DelMaskLocked(mask)
    BY <2>1, <2>3, <2>4
  <2>11. QED
    BY <2>9, <2>10
<1>9. CASE cnt > 1 /\ cnt # n
  <2>1. DelMaskLocked(mask) = Resize(self, done[n].m, done[n].n)
    BY <1>2, <1>4, <1>9
  <2>2. Moved(done[n].m, K, n) /\ done[n].n = Cardinality(K)
    BY <1>5, DelLoopMoves
  <2>3. QED
    BY <2>1, <2>2
<1>10. cnt = 0 \/ (cnt # 0 /\ cnt = n) \/ (cnt = 1 /\ cnt # n) \/ (cnt > 1 /\ cnt # n)
  BY <1>2
<1>11. QED
  BY <1>6, <1>7, <1>8, <1>9, <1>10

\* del a[mask]
LEMMA MaskDeleted ==
  ASSUME IInv, NEW mask, IsMask(mask)
  PROVE  /\ self.pinned \/ Removed(Ones(mask), DelMaskLocked(mask))
         /\ Inside(DelMaskLocked(mask).v) /\ DelMaskLocked(mask).mem \in Memory
<1> DEFINE K == (0 .. (self.nbits - 1)) \ Ones(mask)
           r == DelMaskLocked(mask)
<1>1. Indexes(K) /\ Inside(self)
  BY MaskOnes DEF IInv
<1> HIDE DEF K
<1>2. K = (0 .. (self.nbits - 1)) \ Ones(mask)
  BY DEF K
<1>3. PICK f : Moved(f, K, self.nbits) /\ r = Resize(self, f, Cardinality(K))
  BY <1>2, DelMaskMoves
<1> DEFINE S == Ones(mask)
<1>4. K = (0 .. (self.nbits - 1)) \ S
  BY <1>2
<1> HIDE DEF r, S
<1>5. (self.pinned \/ Removed(S, r)) /\ Inside(r.v) /\ r.mem = f /\ f \in Memory
  <2>1. Moved(f, K, self.nbits)
    BY <1>3
  <2>2. r = Resize(self, f, Cardinality(K))
    BY <1>3
  <2>3. self.pinned \/ Removed(S, r)
    BY <1>1, <2>1, <2>2, <1>4, ShortenedMoved
  <2>4. Inside(r.v)
    BY <1>1, <2>1, <2>2, <1>4, ShortenedMoved
  <2>5. r.mem = f /\ f \in Memory
    BY <2>1, <2>2 DEF Moved, Resize, Outcome
  <2>6. QED
    BY <2>3, <2>4, <2>5
<1>6. QED
  BY <1>5 DEF r, S

\* Masks with the same ones delete the same.
LEMMA MasksAgree ==
  ASSUME IInv, NEW mask, IsMask(mask), NEW other, IsMask(other), Ones(mask) = Ones(other)
  PROVE  DelMaskLocked(mask) = DelMaskLocked(other)
<1> DEFINE K == (0 .. (self.nbits - 1)) \ Ones(mask)
<1>1. Indexes(K) /\ Inside(self)
  BY MaskOnes DEF IInv
<1>2. K = (0 .. (self.nbits - 1)) \ Ones(mask) /\ K = (0 .. (self.nbits - 1)) \ Ones(other)
  OBVIOUS
<1> HIDE DEF K
<1>3. PICK f : Moved(f, K, self.nbits) /\ DelMaskLocked(mask) = Resize(self, f, Cardinality(K))
  BY <1>2, DelMaskMoves
<1>4. PICK g : Moved(g, K, self.nbits) /\ DelMaskLocked(other) = Resize(self, g, Cardinality(K))
  BY <1>2, DelMaskMoves
<1>5. f = g
  BY <1>1, <1>3, <1>4, MovedUnique
<1>6. QED
  BY <1>3, <1>4, <1>5
-------------------------------------------------------------------------------
(***************************************************************************)
(* del a[s].                                                               *)
(***************************************************************************)
\* The elements that are kept.
Rest(t) == (0 .. (self.nbits - 1)) \ SliceElements(t)

\* Up to the end of the slice, its length is what is missing.
LEMMA RestRank ==
  ASSUME Inside(self), NEW t, Upwards(t, self.nbits)
  PROVE  /\ t.start \in Nat /\ t.stop \in Nat /\ t.stop <= self.nbits /\ self.nbits \in Nat
         /\ t.step \in Nat \ {0} /\ t.length \in Nat
         /\ SliceElements(t) = {i \in t.start .. (t.stop - 1) : (i - t.start) % t.step = 0}
         /\ Indexes(Rest(t)) /\ Rest(t) \in SUBSET (0 .. (self.nbits - 1))
         /\ t.stop .. (self.nbits - 1) \subseteq Rest(t)
         /\ Rank(Rest(t), t.stop) = t.stop - t.length
<1> DEFINE n == self.nbits
           K == Rest(t)
           S == SliceElements(t)
           J == 0 .. (t.stop - 1)
<1>1. /\ t.start \in Nat /\ t.stop \in Nat /\ t.stop <= n /\ n \in Nat
      /\ t.step \in Nat \ {0} /\ t.length \in Nat
  <2>1. n \in Nat
    BY InsideCells
  <2>2. QED
    BY <2>1, SubscriptsAssumption DEF Upwards
<1>2. S = {i \in t.start .. (t.stop - 1) : (i - t.start) % t.step = 0}
  BY <1>1, UpElements
<1>3. Indexes(K) /\ K \in SUBSET (0 .. (n - 1)) /\ t.stop .. (n - 1) \subseteq K
  <2>1. K = (0 .. (n - 1)) \ S
    BY DEF Rest
  <2>2. \A i \in S : i < t.stop
    BY <1>1, <1>2
  <2> HIDE DEF K, S
  <2>3. K \in SUBSET (0 .. (n - 1))
    BY <2>1
  <2>4. t.stop .. (n - 1) \subseteq K
    BY <1>1, <2>1, <2>2
  <2>5. QED
    BY <2>3, <2>4 DEF Indexes
<1>4. Cardinality(S) = t.length
  <2> DEFINE A == 0 .. (t.length - 1)
  <2>1. A \in SUBSET (0 .. (t.length - 1)) /\ S = {SliceElement(t, j) : j \in A}
    BY DEF SliceElements
  <2>2. t.start \in Int /\ t.step \in Int /\ t.step # 0
    BY <1>1
  <2>3. 0 \in Int /\ t.length - 1 \in Int
    BY <1>1
  <2>4. Cardinality(A) = t.length
    <3>1. Cardinality(A) = IF 0 > t.length - 1 THEN 0 ELSE t.length - 1 - 0 + 1
      BY <2>3, FS_Interval
    <3>2. QED
      BY <1>1, <3>1
  <2> HIDE DEF A
  <2>5. Cardinality({SliceElement(t, j) : j \in A}) = Cardinality(A)
    BY <1>1, <2>1, <2>2, ElementsBijection
  <2>6. QED
    BY <2>1, <2>4, <2>5
<1>5. Below(K, t.stop) = J \ S
  <2>1. \A i \in 0 .. (n - 1) : i < t.stop <=> i \in J
    BY <1>1
  <2>2. J \subseteq 0 .. (n - 1)
    BY <1>1
  <2>3. QED
    BY <2>1, <2>2 DEF Below, Rest
<1>6. S \subseteq J
  BY <1>1, <1>2
<1>7. Cardinality(J \ S) = t.stop - t.length
  <2>1. 0 \in Int /\ t.stop - 1 \in Int
    BY <1>1
  <2>2. IsFiniteSet(J)
    BY <2>1, FS_Interval
  <2>3. Cardinality(J) = t.stop
    <3>1. Cardinality(J) = IF 0 > t.stop - 1 THEN 0 ELSE t.stop - 1 - 0 + 1
      BY <2>1, FS_Interval
    <3>2. QED
      BY <1>1, <3>1
  <2> DEFINE R == J \ S
  <2>4. R \subseteq J /\ R \union S = J /\ R \intersect S = {}
    BY <1>6
  <2> HIDE DEF R, S, J
  <2>5. IsFiniteSet(R) /\ IsFiniteSet(S)
    BY <1>6, <2>2, <2>4, FS_Subset
  <2>6. Cardinality(J) = Cardinality(R) + Cardinality(S) - Cardinality(R \intersect S)
    BY <2>4, <2>5, FS_Union
  <2>7. Cardinality(R \intersect S) = 0
    BY <2>4, FS_EmptySet
  <2>8. Cardinality(R) \in Nat
    BY <2>5, FS_CardinalityType
  <2>9. Cardinality(R) = t.stop - t.length
    BY <1>1, <1>4, <2>3, <2>6, <2>7, <2>8
  <2>10. QED
    BY <2>9 DEF R
<1>8. QED
  BY <1>1, <1>2, <1>3, <1>5, <1>7 DEF Rank

\* Slices with step 1, or at most one element at their start, need no loop.
LEMMA NothingMoves ==
  ASSUME Inside(self), mem \in Memory, NEW t, Upwards(t, self.nbits),
         t.step = 1 \/ t.stop <= t.start + 1
  PROVE  Moved(mem, Rest(t), t.stop)
<1> DEFINE n == self.nbits
           K == Rest(t)
           a == IF t.start <= t.stop THEN t.start ELSE t.stop
<1>1. /\ t.start \in Nat /\ t.stop \in Nat /\ t.stop <= n /\ n \in Nat
      /\ t.step \in Nat \ {0} /\ Indexes(K)
      /\ SliceElements(t) = {i \in t.start .. (t.stop - 1) : (i - t.start) % t.step = 0}
  BY RestRank
<1>2. K = (0 .. (n - 1)) \ SliceElements(t)
  BY DEF Rest
<1>3. a \in Nat /\ a <= t.stop /\ a <= t.start
  BY <1>1
<1>4. 0 .. (a - 1) \subseteq K
  <2>1. \A i \in 0 .. (a - 1) : i \in 0 .. (n - 1) /\ i \notin SliceElements(t)
    BY <1>1, <1>3
  <2>2. QED
    BY <1>2, <2>1
<1>5. ASSUME NEW q \in K, q < t.stop PROVE q < a
  <2>1. SUFFICES ASSUME ~ (q < a) PROVE FALSE
    OBVIOUS
  <2>2. q \in Nat /\ q \notin SliceElements(t)
    BY <1>1, <1>2
  <2>3. q \in t.start .. (t.stop - 1)
    BY <1>1, <1>5, <2>1, <2>2
  <2>4. (q - t.start) % t.step = 0
    <3>1. CASE t.step = 1
      <4>1. \A x \in Nat : x % 1 = 0
        OBVIOUS
      <4>2. q - t.start \in Nat
        BY <1>1, <2>3
      <4>3. QED
        BY <3>1, <4>1, <4>2
    <3>2. CASE t.stop <= t.start + 1
      <4>1. q - t.start = 0
        BY <1>1, <2>3, <3>2
      <4>2. 0 % t.step = 0
        <5>1. (t.step * 0 + 0) % t.step = 0
          <6>1. 0 \in 0 .. (t.step - 1) /\ 0 \in Int
            BY <1>1
          <6>2. QED
            BY <1>1, <6>1, Division
        <5>2. t.step * 0 + 0 = 0
          BY <1>1
        <5>3. QED
          BY <5>1, <5>2
      <4>3. QED
        BY <4>1, <4>2
    <3>3. QED
      BY <3>1, <3>2
  <2>5. QED
    BY <1>1, <2>2, <2>3, <2>4
<1> HIDE DEF a, K
<1>6. Moved(mem, K, t.stop)
  BY <1>1, <1>3, <1>4, <1>5, FirstMoved
<1>7. QED
  BY <1>6 DEF K
\* The loop for steps 2 and 3.
ElementLoop(f, t) ==
  [i \in (t.start + 1) .. t.stop |->
     IF i = t.start + 1 THEN [m |-> mem, j |-> t.start]
     ELSE IF (i - 1 - t.start) % t.step = 0 THEN f[i - 1]
     ELSE [m |-> setbit(self, f[i - 1].m, f[i - 1].j, getbit(self, f[i - 1].m, i - 1)),
           j |-> f[i - 1].j + 1]]

\* It leaves something.
LEMMA ElementLoopExists ==
  ASSUME IInv, NEW t, Upwards(t, self.nbits), t.stop > t.start + 1
  PROVE  \E f : f = ElementLoop(f, t)
<1> DEFINE b == t.start + 1
           n == t.stop - b
           V == [m : Memory, j : Nat]
           a == [m |-> mem, j |-> t.start]
           Gone(i) == (i - 1 - t.start) % t.step = 0
           Turn(i, p) ==
             IF Gone(i) THEN p
             ELSE [m |-> setbit(self, p.m, p.j, getbit(self, p.m, i - 1)), j |-> p.j + 1]
           step == [z \in (1 .. n) \X V |-> Turn(z[1] + b, z[2])]
<1>1. View(self) /\ mem \in Memory /\ Inside(self)
  BY DEF IInv, View
<1>2. t.start \in Nat /\ t.stop \in Nat
  BY <1>1, RestRank
<1>3. b \in Nat /\ n \in Nat /\ t.stop = b + n /\ b = t.start + 1
  BY <1>2
<1>4. a \in V
  BY <1>1, <1>2
<1>5. ASSUME NEW i \in Nat \ {0}, NEW p \in V PROVE Turn(i, p) \in V
  <2>1. p.m \in Memory /\ p.j \in Nat /\ i - 1 \in Nat
    OBVIOUS
  <2>2. getbit(self, p.m, i - 1) \in Bit
    BY <1>1, <2>1, GetbitType
  <2>3. setbit(self, p.m, p.j, getbit(self, p.m, i - 1)) \in Memory
    BY <2>1, <2>2, SetbitType
  <2> HIDE DEF Gone
  <2>4. QED
    BY <2>1, <2>3
<1> HIDE DEF V, a, Turn, b, n
<1>6. step \in [(1 .. n) \X V -> V]
  <2>1. \A k \in 1 .. n : k + b \in Nat \ {0}
    BY <1>3
  <2>2. QED
    BY <1>5, <2>1
<1>7. \A k \in 1 .. n, p \in V : step[<<k, p>>] = Turn(k + b, p)
  OBVIOUS
<1> HIDE DEF step
<1>8. PICK F \in [0 .. n -> V] : Turns(F, n, a, step)
  BY <1>3, <1>4, <1>6, LoopExists
<1> DEFINE f == [i \in b .. t.stop |-> F[i - b]]
<1>9. ASSUME NEW i \in b .. t.stop PROVE f[i] = ElementLoop(f, t)[i]
  <2>1. CASE i = b
    <3>1. f[i] = F[0]
      BY <1>3, <2>1
    <3> HIDE DEF f
    <3>2. QED
      BY <1>3, <1>8, <2>1, <3>1 DEF Turns, ElementLoop, a
  <2>2. CASE i # b
    <3> DEFINE k == i - b
    <3>1. k \in 1 .. n /\ k - 1 \in 0 .. n /\ i = k + b /\ i - 1 \in b .. t.stop
          /\ (i - 1) - b = k - 1
      BY <1>3, <2>2
    <3>2. f[i] = F[k] /\ f[i - 1] = F[k - 1]
      BY <3>1
    <3> HIDE DEF f, k
    <3>3. F[k] = step[<<k, F[k - 1]>>] /\ F[k - 1] \in V
      BY <1>8, <3>1 DEF Turns
    <3>4. f[i] = Turn(i, f[i - 1])
      BY <1>7, <3>1, <3>2, <3>3
    <3>5. QED
      BY <1>3, <2>2, <3>4 DEF ElementLoop, Turn
  <2>3. QED
    BY <2>1, <2>2
<1>10. /\ ElementLoop(f, t) = [i \in b .. t.stop |-> ElementLoop(f, t)[i]]
       /\ f = [i \in b .. t.stop |-> f[i]]
  <2>1. ElementLoop(f, t) = [i \in b .. t.stop |-> ElementLoop(f, t)[i]]
    BY <1>3 DEF ElementLoop
  <2>2. f = [i \in b .. t.stop |-> f[i]]
    OBVIOUS
  <2>3. QED
    BY <2>1, <2>2
<1> HIDE DEF f
<1>11. [i \in b .. t.stop |-> ElementLoop(f, t)[i]] = [i \in b .. t.stop |-> f[i]]
  BY <1>9
<1>12. QED
  BY <1>10, <1>11

\* It moves the elements that are kept.
LEMMA ElementsMove ==
  ASSUME IInv, NEW t, Upwards(t, self.nbits)
  PROVE  Moved(MoveElements(t), Rest(t), t.stop)
<1> DEFINE n == self.nbits
           K == Rest(t)
           b == t.start + 1
           f == CHOOSE f : f = ElementLoop(f, t)
           S == {i \in b .. t.stop : Moved(f[i].m, K, i) /\ f[i].j = Rank(K, i)}
<1>1. /\ t.start \in Nat /\ t.stop \in Nat /\ t.stop <= n /\ n \in Nat
      /\ t.step \in Nat \ {0} /\ Indexes(K) /\ K \in SUBSET (0 .. (n - 1))
      /\ SliceElements(t) = {i \in t.start .. (t.stop - 1) : (i - t.start) % t.step = 0}
      /\ Inside(self) /\ mem \in Memory
  BY RestRank DEF IInv
<1>2. MoveElements(t) = IF t.stop <= t.start + 1 THEN mem ELSE f[t.stop].m
  BY DEF MoveElements, ElementLoop
<1>3. CASE t.stop <= t.start + 1
  BY <1>1, <1>2, <1>3, NothingMoves
<1>4. CASE t.stop > t.start + 1
  <2>1. f = ElementLoop(f, t)
    <3>1. \E g : g = ElementLoop(g, t)
      BY <1>4, ElementLoopExists
    <3>2. QED
      BY <3>1
  <2> HIDE DEF f
  <2>2. b \in S
    <3>1. b \in b .. t.stop
      BY <1>1, <1>4
    <3>2. f[b] = [m |-> mem, j |-> t.start]
      BY <2>1, <3>1 DEF ElementLoop
    <3>3. 0 .. (t.start - 1) \subseteq K
      <4>1. \A i \in 0 .. (t.start - 1) : i \in 0 .. (n - 1) /\ i \notin SliceElements(t)
        BY <1>1, <1>4
      <4>2. QED
        BY <4>1 DEF Rest
    <3>4. t.start \in SliceElements(t)
      <4>1. t.start \in t.start .. (t.stop - 1) /\ t.start - t.start = 0
        BY <1>1, <1>4
      <4>2. 0 % t.step = 0
        <5>1. (t.step * 0 + 0) % t.step = 0
          <6>1. 0 \in 0 .. (t.step - 1) /\ 0 \in Int
            BY <1>1
          <6>2. QED
            BY <1>1, <6>1, Division
        <5>2. t.step * 0 + 0 = 0
          BY <1>1
        <5>3. QED
          BY <5>1, <5>2
      <4>3. QED
        BY <1>1, <4>1, <4>2
    <3>5. \A q \in K : q < b => q < t.start
      <4>1. \A q \in K : q \in Nat /\ q # t.start
        BY <1>1, <3>4 DEF Rest
      <4>2. QED
        BY <1>1, <4>1
    <3>6. Moved(mem, K, b) /\ Rank(K, b) = t.start
      <4>1. b \in Nat /\ t.start <= b
        BY <1>1
      <4> HIDE DEF b, K
      <4>2. QED
        BY <1>1, <3>3, <3>5, <4>1, FirstMoved
    <3>7. QED
      BY <3>1, <3>2, <3>6
  <2>3. ASSUME NEW i \in b .. (t.stop - 1), i \in S PROVE i + 1 \in S
    <3> DEFINE p == f[i]
    <3>1. i \in Nat /\ i < n /\ i + 1 \in b .. t.stop /\ i + 1 # b /\ (i + 1) - 1 = i
          /\ i \in 0 .. (n - 1) /\ i \in t.start .. (t.stop - 1)
      BY <1>1
    <3>2. f[i + 1] = IF (i - t.start) % t.step = 0 THEN p
                     ELSE [m |-> setbit(self, p.m, p.j, getbit(self, p.m, i)), j |-> p.j + 1]
      <4> DEFINE k == i + 1
      <4>1. k \in b .. t.stop /\ k - 1 = i /\ k # b
        BY <3>1
      <4> HIDE DEF k
      <4>2. f[k] = ElementLoop(f, t)[k]
        BY <2>1
      <4>3. f[k] = IF (k - 1 - t.start) % t.step = 0 THEN f[k - 1]
                   ELSE [m |-> setbit(self, f[k - 1].m, f[k - 1].j, getbit(self, f[k - 1].m, k - 1)),
                         j |-> f[k - 1].j + 1]
        BY <4>1, <4>2 DEF ElementLoop
      <4>4. QED
        BY <4>1, <4>3 DEF k
    <3>3. Moved(p.m, K, i) /\ p.j = Rank(K, i)
      BY <2>3
    <3>4. i \in K <=> ~ ((i - t.start) % t.step = 0)
      BY <1>1, <3>1 DEF Rest
    <3> HIDE DEF p, S, K
    <3>5. CASE (i - t.start) % t.step = 0
      <4>1. f[i + 1] = p /\ i \notin K
        BY <3>2, <3>4, <3>5
      <4>2. Moved(p.m, K, i + 1) /\ Rank(K, i + 1) = Rank(K, i)
        BY <1>1, <3>1, <3>3, <4>1, SkipMoved
      <4>3. QED
        BY <3>1, <3>3, <4>1, <4>2 DEF S
    <3>6. CASE ~ ((i - t.start) % t.step = 0)
      <4>1. /\ f[i + 1] = [m |-> setbit(self, p.m, p.j, getbit(self, p.m, i)), j |-> p.j + 1]
            /\ i \in K
        BY <3>2, <3>4, <3>6
      <4>2. /\ Moved(setbit(self, p.m, Rank(K, i), getbit(self, p.m, i)), K, i + 1)
            /\ Rank(K, i + 1) = Rank(K, i) + 1
        BY <1>1, <3>3, <4>1, KeepMoved
      <4>3. /\ f[i + 1].m = setbit(self, p.m, Rank(K, i), getbit(self, p.m, i))
            /\ f[i + 1].j = Rank(K, i) + 1
        BY <3>3, <4>1
      <4>4. Moved(f[i + 1].m, K, i + 1) /\ f[i + 1].j = Rank(K, i + 1)
        BY <4>2, <4>3
      <4>5. QED
        BY <3>1, <4>4 DEF S
    <3>7. QED
      BY <3>5, <3>6
  <2> HIDE DEF S
  <2>4. b .. t.stop \subseteq S
    <3>1. b \in Int /\ t.stop \in Int
      BY <1>1
    <3> HIDE DEF b
    <3>2. QED
      BY <3>1, <2>2, <2>3, RangeInduction
  <2>5. t.stop \in S
    BY <1>1, <1>4, <2>4
  <2>6. MoveElements(t) = f[t.stop].m
    BY <1>1, <1>2, <1>4
  <2>7. QED
    BY <2>5, <2>6 DEF S
<1>5. QED
  BY <1>1, <1>3, <1>4
\* The runs between the elements that go, for steps of at least 4.
Runs(t)         == (t.stop - t.start - 1 + t.step - 1) \div t.step
Begin(t, r)     == t.start + 1 + (r - 1) * t.step
RunLength(t, r) == Min({t.step - 1, t.stop - Begin(t, r)})

\* Where these runs lie.
LEMMA RunBounds ==
  ASSUME NEW n \in Nat, NEW t, Upwards(t, n), t.stop > t.start + 1
  PROVE  /\ Runs(t) \in Nat /\ Begin(t, Runs(t) + 1) >= t.stop /\ Begin(t, 1) = t.start + 1
         /\ \A r \in 1 .. Runs(t) :
              /\ Begin(t, r) \in Nat /\ Begin(t, r) < t.stop
              /\ RunLength(t, r) \in Nat /\ RunLength(t, r) < t.step
              /\ Begin(t, r) + RunLength(t, r) <= t.stop
              /\ RunLength(t, r) # t.step - 1 => Begin(t, r) + RunLength(t, r) = t.stop
              /\ Begin(t, r + 1) = Begin(t, r) + t.step
<1> DEFINE B == t.step
           d == t.stop - t.start - 1
           runs == Runs(t)
<1>1. /\ t.start \in Nat /\ t.stop \in Nat /\ t.stop <= n /\ B \in Nat \ {0}
  <2>1. t.start \in 0 .. n /\ t.stop \in 0 .. n
    BY DEF Upwards
  <2>2. B \in 1 .. MaxStep
    BY DEF Upwards
  <2>3. MaxStep \in Int
    BY MaxIntAssumption, SubscriptsAssumption
  <2>4. QED
    BY <2>1, <2>2, <2>3
<1>2. d \in Nat \ {0}
  BY <1>1
<1>3. runs = (d + B - 1) \div B
  BY DEF Runs
<1> HIDE DEF d, runs, B
<1>4. runs \in Nat /\ B * runs <= d + B - 1 /\ d + B - 1 < B * runs + B
  <2> DEFINE x == d + B - 1
  <2>1. x \in Nat
    BY <1>1, <1>2
  <2> HIDE DEF x
  <2>2. x \div B \in Nat /\ B * (x \div B) <= x /\ x < B * (x \div B) + B
    BY <1>1, <2>1, Quotient
  <2>3. runs = x \div B
    BY <1>3 DEF x
  <2>4. QED
    BY <2>2, <2>3 DEF x
<1>5. ASSUME NEW r \in Nat
      PROVE  /\ Begin(t, r + 1) = t.start + 1 + B * r /\ B * r \in Nat
             /\ Begin(t, r + 2) = Begin(t, r + 1) + B
  <2>1. ((r + 1) - 1) * B = B * r /\ B * r \in Nat
    BY <1>1
  <2>2. ((r + 2) - 1) * B = B * (r + 1) /\ B * (r + 1) = B * r + B
    BY <1>1
  <2>3. Begin(t, r + 1) = t.start + 1 + B * r
    BY <2>1 DEF Begin, B
  <2>4. Begin(t, r + 2) = t.start + 1 + (B * r + B)
    BY <2>2 DEF Begin, B
  <2>5. QED
    BY <1>1, <2>1, <2>3, <2>4
<1>6. Begin(t, runs + 1) >= t.stop
  <2> DEFINE x == B * runs
  <2>1. x \in Nat /\ Begin(t, runs + 1) = t.start + 1 + x /\ d + B - 1 < x + B
    BY <1>4, <1>5
  <2> HIDE DEF x
  <2>2. d <= x
    BY <1>1, <1>2, <2>1
  <2>3. QED
    BY <1>1, <1>2, <2>1, <2>2 DEF d
<1>7. Begin(t, 1) = t.start + 1
  <2>1. (1 - 1) * t.step = 0
    BY <1>1 DEF B
  <2>2. QED
    BY <1>1, <2>1 DEF Begin
<1>8. ASSUME NEW r \in 1 .. runs
      PROVE  /\ Begin(t, r) \in Nat /\ Begin(t, r) < t.stop
             /\ RunLength(t, r) \in Nat /\ RunLength(t, r) < B
             /\ Begin(t, r) + RunLength(t, r) <= t.stop
             /\ RunLength(t, r) # B - 1 => Begin(t, r) + RunLength(t, r) = t.stop
             /\ Begin(t, r + 1) = Begin(t, r) + B
  <2> DEFINE k == r - 1
             x == B * k
             z == B * runs
             b == Begin(t, r)
             L == RunLength(t, r)
             rest == t.stop - b
  <2>1. k \in Nat /\ r = k + 1 /\ r + 1 = k + 2 /\ k + 1 <= runs
    BY <1>4
  <2>2. b = t.start + 1 + x /\ x \in Nat /\ Begin(t, r + 1) = b + B
    BY <2>1, <1>5
  <2>3. x + B <= z
    <3>1. B * (k + 1) <= B * runs
      BY <1>1, <1>4, <2>1, Monotonic
    <3>2. B * (k + 1) = B * k + B
      BY <1>1, <2>1
    <3>3. QED
      BY <3>1, <3>2
  <2>4. z \in Nat /\ z <= d + B - 1
    BY <1>1, <1>4
  <2> HIDE DEF x, z, k
  <2>5. x < d
    BY <1>1, <1>2, <2>2, <2>3, <2>4
  <2>6. b \in Nat /\ b < t.stop
    BY <1>1, <2>2, <2>5 DEF d
  <2> HIDE DEF b
  <2>7. rest \in Nat \ {0}
    BY <1>1, <2>6
  <2>8. L = Min({B - 1, rest})
    BY DEF RunLength, B, b
  <2> HIDE DEF rest, L
  <2>9. L \in {B - 1, rest} /\ L <= B - 1 /\ L <= rest
    <3> DEFINE T == {B - 1, rest}
    <3>1. 0 \in Int /\ B + rest \in Int /\ T \in SUBSET (0 .. (B + rest)) /\ T # {}
      BY <1>1, <2>7
    <3>2. B - 1 \in T /\ rest \in T
      OBVIOUS
    <3> HIDE DEF T
    <3>3. Min(T) \in T /\ \A x1 \in T : Min(T) <= x1
      BY <3>1, Minimum
    <3>4. QED
      BY <2>8, <3>2, <3>3 DEF T
  <2>10. L \in Nat /\ L < B /\ b + L <= t.stop /\ (L # B - 1 => b + L = t.stop)
    BY <1>1, <2>6, <2>7, <2>9 DEF rest
  <2>11. QED
    BY <2>2, <2>6, <2>10 DEF b, L
<1>9. QED
  BY <1>4, <1>6, <1>7, <1>8 DEF runs, B
\* The element before a run goes, those in the run stay.
LEMMA RunElements ==
  ASSUME Inside(self), NEW t, Upwards(t, self.nbits), NEW r \in Nat \ {0}
  PROVE  /\ Begin(t, r) \in Nat
         /\ Begin(t, r) - 1 < t.stop => Begin(t, r) - 1 \notin Rest(t)
         /\ \A q \in 0 .. (t.step - 2) : Begin(t, r) + q < t.stop => Begin(t, r) + q \in Rest(t)
<1> DEFINE B == t.step
           k == r - 1
           x == B * k
           n == self.nbits
<1>1. /\ t.start \in Nat /\ t.stop \in Nat /\ t.stop <= n /\ n \in Nat
      /\ B \in Nat \ {0}
      /\ SliceElements(t) = {i \in t.start .. (t.stop - 1) : (i - t.start) % B = 0}
  BY RestRank
<1> HIDE DEF B
<1>2. k \in Nat /\ x \in Nat /\ Begin(t, r) = t.start + 1 + x
  <2>1. k * B = B * k /\ B * k \in Nat /\ k \in Nat
    BY <1>1
  <2>2. QED
    BY <2>1 DEF Begin, B
<1>3. ASSUME NEW e \in 0 .. (B - 1) PROVE (x + e) % B = e
  <2>1. k \in Int
    BY <1>2
  <2> HIDE DEF k
  <2>2. QED
    BY <1>1, <2>1, Division
<1> HIDE DEF x, k
<1>4. ASSUME Begin(t, r) - 1 < t.stop PROVE Begin(t, r) - 1 \notin Rest(t)
  <2> DEFINE i == Begin(t, r) - 1
  <2>1. i \in t.start .. (t.stop - 1) /\ i - t.start = x + 0
    BY <1>1, <1>2, <1>4
  <2>2. (x + 0) % B = 0
    BY <1>1, <1>3
  <2> HIDE DEF i
  <2>3. i \in SliceElements(t)
    BY <1>1, <2>1, <2>2
  <2>4. QED
    BY <2>3 DEF Rest, i
<1>5. ASSUME NEW q \in 0 .. (B - 2), Begin(t, r) + q < t.stop
      PROVE  Begin(t, r) + q \in Rest(t)
  <2> DEFINE i == Begin(t, r) + q
             e == q + 1
  <2>1. i \in 0 .. (n - 1) /\ i - t.start = x + e /\ e \in 0 .. (B - 1) /\ e # 0
    BY <1>1, <1>2, <1>5
  <2> HIDE DEF i, e
  <2>2. (x + e) % B = e
    BY <1>3, <2>1
  <2>3. i \notin SliceElements(t)
    BY <1>1, <2>1, <2>2
  <2>4. QED
    BY <2>1, <2>3 DEF Rest, i
<1>6. Begin(t, r) \in Nat
  BY <1>1, <1>2
<1>7. QED
  BY <1>4, <1>5, <1>6 DEF B

\* The loop for steps of at least 4.
RunLoop(f, t) ==
  [r \in 0 .. Runs(t) |->
     IF r = 0 THEN [m |-> mem, j |-> t.start]
     ELSE [m |-> CopyN(self, f[r - 1].m, f[r - 1].j, Begin(t, r), RunLength(t, r)),
           j |-> f[r - 1].j + RunLength(t, r)]]

\* Copying within an array keeps the memory a memory.
LEMMA CopyNType ==
  ASSUME Inside(self), NEW m \in Memory, NEW a \in Nat, NEW b \in Nat, NEW L \in Nat,
         b + L <= self.nbits
  PROVE  CopyN(self, m, a, b, L) \in Memory
<1>1. /\ self.off \in Nat /\ self.nbits \in Nat /\ Bits \in Nat
      /\ \A i \in 0 .. (self.nbits - 1) : self.off + i \in 0 .. (Bits - 1)
  BY InsideCells
<1>2. ASSUME NEW c \in 0 .. (Bits - 1), c - self.off \in a .. (a + L - 1)
      PROVE  m[c - a + b] \in Bit
  <2> DEFINE i == (c - self.off - a) + b
  <2>1. i \in 0 .. (self.nbits - 1) /\ c - a + b = self.off + i
    BY <1>1, <1>2
  <2> HIDE DEF i
  <2>2. self.off + i \in 0 .. (Bits - 1)
    BY <1>1, <2>1
  <2>3. QED
    BY <2>1, <2>2 DEF Memory
<1>3. \A c \in 0 .. (Bits - 1) : m[c] \in Bit
  BY DEF Memory
<1>4. QED
  BY <1>2, <1>3 DEF CopyN, Memory

\* The loop leaves something.
LEMMA RunLoopExists ==
  ASSUME IInv, NEW t, Upwards(t, self.nbits), t.stop > t.start + 1
  PROVE  \E f : f = RunLoop(f, t)
<1> DEFINE n == Runs(t)
           V == [m : Memory, j : Nat]
           a == [m |-> mem, j |-> t.start]
           Turn(r, p) ==
             [m |-> CopyN(self, p.m, p.j, Begin(t, r), RunLength(t, r)),
              j |-> p.j + RunLength(t, r)]
           step == [z \in (1 .. n) \X V |-> Turn(z[1], z[2])]
<1>1. Inside(self) /\ mem \in Memory /\ self.nbits \in Nat /\ t.start \in Nat
      /\ t.stop <= self.nbits /\ t.stop \in Nat
  BY RestRank DEF IInv
<1>2. /\ n \in Nat
      /\ \A r \in 1 .. n : /\ Begin(t, r) \in Nat /\ RunLength(t, r) \in Nat
                           /\ Begin(t, r) + RunLength(t, r) <= t.stop
  BY <1>1, RunBounds
<1>3. a \in V
  BY <1>1
<1> HIDE DEF n
<1>4. ASSUME NEW r \in 1 .. n, NEW p \in V PROVE Turn(r, p) \in V
  <2> DEFINE b == Begin(t, r)
             L == RunLength(t, r)
  <2>1. p.m \in Memory /\ p.j \in Nat
    OBVIOUS
  <2>2. b \in Nat /\ L \in Nat /\ b + L <= self.nbits
    BY <1>1, <1>2
  <2> HIDE DEF b, L
  <2>3. CopyN(self, p.m, p.j, b, L) \in Memory
    BY <1>1, <2>1, <2>2, CopyNType
  <2>4. [m |-> CopyN(self, p.m, p.j, b, L), j |-> p.j + L] \in V
    BY <2>1, <2>2, <2>3
  <2>5. QED
    BY <2>4 DEF b, L
<1> HIDE DEF V, a, Turn
<1>5. step \in [(1 .. n) \X V -> V]
  BY <1>4
<1>6. \A r \in 1 .. n, p \in V : step[<<r, p>>] = Turn(r, p)
  OBVIOUS
<1> HIDE DEF step
<1>7. PICK f \in [0 .. n -> V] : Turns(f, n, a, step)
  BY <1>2, <1>3, <1>5, LoopExists
<1>8. ASSUME NEW r \in 0 .. n PROVE f[r] = RunLoop(f, t)[r]
  <2>1. CASE r = 0
    BY <1>7, <2>1 DEF Turns, RunLoop, a, n
  <2>2. CASE r # 0
    <3>1. r \in 1 .. n /\ r - 1 \in 0 .. n
      BY <1>2, <2>2
    <3>2. f[r] = Turn(r, f[r - 1])
      BY <1>6, <1>7, <3>1 DEF Turns
    <3>3. QED
      BY <2>2, <3>2 DEF RunLoop, Turn, n
  <2>3. QED
    BY <2>1, <2>2
<1>9. RunLoop(f, t) = [r \in 0 .. n |-> RunLoop(f, t)[r]] /\ f = [r \in 0 .. n |-> f[r]]
  BY <1>7 DEF RunLoop, n
<1>10. [r \in 0 .. n |-> RunLoop(f, t)[r]] = [r \in 0 .. n |-> f[r]]
  BY <1>8
<1>11. QED
  BY <1>9, <1>10
\* How far the loop has come after r turns.
Reached(t, r) == IF Begin(t, r + 1) - 1 <= t.stop THEN Begin(t, r + 1) - 1 ELSE t.stop

\* It moves the elements that are kept.
LEMMA RunsMove ==
  ASSUME IInv, NEW t, Upwards(t, self.nbits)
  PROVE  Moved(MoveRuns(t), Rest(t), t.stop)
<1> DEFINE n == self.nbits
           K == Rest(t)
           f == CHOOSE f : f = RunLoop(f, t)
           Good(i, p) == Moved(p.m, K, i) /\ p.j = Rank(K, i)
           S == {r \in 0 .. Runs(t) : Good(Reached(t, r), f[r])}
<1>1. /\ t.start \in Nat /\ t.stop \in Nat /\ t.stop <= n /\ n \in Nat
      /\ t.step \in Nat \ {0} /\ Indexes(K) /\ K \in SUBSET (0 .. (n - 1))
      /\ SliceElements(t) = {i \in t.start .. (t.stop - 1) : (i - t.start) % t.step = 0}
      /\ Inside(self) /\ mem \in Memory
  BY RestRank DEF IInv
<1>2. MoveRuns(t) = IF t.stop <= t.start + 1 THEN mem ELSE f[Runs(t)].m
  BY DEF MoveRuns, RunLoop, Runs, RunLength, Begin
<1>3. CASE t.stop <= t.start + 1
  BY <1>1, <1>2, <1>3, NothingMoves
<1>4. CASE t.stop > t.start + 1
  <2>1. f = RunLoop(f, t)
    <3>1. \E g : g = RunLoop(g, t)
      BY <1>4, RunLoopExists
    <3>2. QED
      BY <3>1
  <2> HIDE DEF f, K, Good
  <2>2. /\ Runs(t) \in Nat /\ Begin(t, Runs(t) + 1) >= t.stop /\ Begin(t, 1) = t.start + 1
        /\ \A r \in 1 .. Runs(t) :
             /\ Begin(t, r) \in Nat /\ Begin(t, r) < t.stop
             /\ RunLength(t, r) \in Nat /\ RunLength(t, r) < t.step
             /\ Begin(t, r) + RunLength(t, r) <= t.stop
             /\ RunLength(t, r) # t.step - 1 => Begin(t, r) + RunLength(t, r) = t.stop
             /\ Begin(t, r + 1) = Begin(t, r) + t.step
    BY <1>1, <1>4, RunBounds
  <2>3. 0 \in S
    <3>1. 0 \in 0 .. Runs(t)
      BY <2>2
    <3>2. f[0] = [m |-> mem, j |-> t.start]
      BY <2>1, <3>1 DEF RunLoop
    <3>3. Reached(t, 0) = t.start
      BY <1>1, <1>4, <2>2 DEF Reached
    <3>4. Moved(mem, K, t.start) /\ Rank(K, t.start) = t.start
      <4>1. 0 .. (t.start - 1) \subseteq K
        <5>1. \A i \in 0 .. (t.start - 1) : i \in 0 .. (n - 1) /\ i \notin SliceElements(t)
          BY <1>1, <1>4
        <5>2. QED
          BY <5>1 DEF Rest, K
      <4>2. t.start <= t.start /\ \A q \in K : q < t.start => q < t.start
        BY <1>1
      <4>3. QED
        BY <1>1, <4>1, <4>2, FirstMoved
    <3>5. QED
      BY <3>1, <3>2, <3>3, <3>4 DEF Good
  <2>4. ASSUME NEW r \in 0 .. (Runs(t) - 1), r \in S PROVE r + 1 \in S
    <3> DEFINE p == f[r]
               b == Begin(t, r + 1)
               i == b - 1
               L == RunLength(t, r + 1)
    <3>1. r + 1 \in 1 .. Runs(t) /\ r + 1 \in 0 .. Runs(t) /\ r + 1 # 0 /\ (r + 1) - 1 = r
          /\ r + 1 \in Nat \ {0} /\ (r + 1) + 1 = r + 2
      BY <2>2
    <3>2. f[r + 1] = [m |-> CopyN(self, p.m, p.j, b, L), j |-> p.j + L]
      <4> DEFINE k == r + 1
      <4>1. k \in 0 .. Runs(t) /\ k - 1 = r /\ k # 0
        BY <3>1
      <4> HIDE DEF k
      <4>2. f[k] = RunLoop(f, t)[k]
        BY <2>1
      <4>3. f[k] = [m |-> CopyN(self, f[k - 1].m, f[k - 1].j, Begin(t, k), RunLength(t, k)),
                    j |-> f[k - 1].j + RunLength(t, k)]
        BY <4>1, <4>2 DEF RunLoop
      <4>4. QED
        BY <4>1, <4>3 DEF k
    <3>3. /\ b \in Nat /\ b < t.stop /\ L \in Nat /\ L < t.step /\ b + L <= t.stop
          /\ L # t.step - 1 => b + L = t.stop
          /\ Begin(t, (r + 1) + 1) = b + t.step
      BY <2>2, <3>1
    <3>4. Reached(t, r) = i /\ Reached(t, r + 1) = b + L
      <4>1. Reached(t, r) = i
        BY <1>1, <3>3 DEF Reached
      <4>2. Reached(t, r + 1) = IF b + t.step - 1 <= t.stop THEN b + t.step - 1 ELSE t.stop
        <5> DEFINE e == Begin(t, (r + 1) + 1)
        <5>1. Reached(t, r + 1) = IF e - 1 <= t.stop THEN e - 1 ELSE t.stop
          BY DEF Reached
        <5>2. e = b + t.step
          BY <3>3
        <5> HIDE DEF e, b
        <5>3. QED
          BY <1>1, <3>3, <5>1, <5>2
      <4> HIDE DEF b, L
      <4>3. Reached(t, r + 1) = b + L
        BY <1>1, <3>3, <4>2
      <4>4. QED
        BY <4>1, <4>3
    <3>5. Moved(p.m, K, i) /\ p.j = Rank(K, i)
      BY <2>4, <3>4 DEF Good
    <3>6. i \notin K
      <4>1. b - 1 < t.stop
        BY <1>1, <3>3
      <4>2. b - 1 \notin Rest(t)
        BY <1>1, <3>1, <4>1, RunElements
      <4>3. QED
        BY <4>2 DEF K
    <3>7. \A q \in 0 .. (t.step - 2) : b + q < t.stop => b + q \in K
      BY <1>1, <3>1, RunElements DEF K
    <3>8. i \in Nat /\ i + 1 = b
      <4>1. b # 0
        <5>1. CASE r = 0
          BY <1>1, <2>2, <5>1
        <5>2. CASE r # 0
          <6>1. r \in 1 .. Runs(t)
            BY <2>2, <5>2
          <6>2. Begin(t, r + 1) = Begin(t, r) + t.step /\ Begin(t, r) \in Nat
            BY <2>2, <6>1
          <6>3. QED
            BY <1>1, <6>2
        <5>3. QED
          BY <5>1, <5>2
      <4>2. QED
        BY <3>3, <4>1
    <3> HIDE DEF p, b, i, L, S
    <3>9. Moved(p.m, K, b) /\ Rank(K, b) = p.j
      <4>1. Moved(p.m, K, i + 1) /\ Rank(K, i + 1) = Rank(K, i)
        BY <1>1, <3>5, <3>6, <3>8, SkipMoved
      <4>2. QED
        BY <3>5, <3>8, <4>1
    <3>10. b .. (b + L - 1) \subseteq K /\ b + L <= n
      <4>1. ASSUME NEW c \in b .. (b + L - 1) PROVE c \in K
        <5> DEFINE q == c - b
        <5>1. q \in 0 .. (t.step - 2) /\ c = b + q /\ b + q < t.stop
          BY <1>1, <3>3, <4>1
        <5> HIDE DEF q
        <5>2. QED
          BY <3>7, <5>1
      <4>2. QED
        BY <1>1, <3>3, <4>1
    <3>11. /\ Moved(CopyN(self, p.m, Rank(K, b), b, L), K, b + L)
           /\ Rank(K, b + L) = Rank(K, b) + L
      BY <1>1, <3>3, <3>9, <3>10, RunMoved
    <3>12. f[r + 1].m = CopyN(self, p.m, Rank(K, b), b, L) /\ f[r + 1].j = Rank(K, b) + L
      BY <3>2, <3>9
    <3>13. Good(Reached(t, r + 1), f[r + 1])
      BY <3>4, <3>11, <3>12 DEF Good
    <3>14. QED
      BY <3>1, <3>13 DEF S
  <2> HIDE DEF S
  <2>5. 0 .. Runs(t) \subseteq S
    <3> DEFINE runs == Runs(t)
    <3>1. 0 \in Int /\ runs \in Int
      BY <2>2
    <3> HIDE DEF runs
    <3>2. QED
      BY <3>1, <2>3, <2>4, RangeInduction DEF runs
  <2> DEFINE m == f[Runs(t)].m
             x == Reached(t, Runs(t))
  <2>6. Moved(m, K, x)
    <3>1. Runs(t) \in S
      BY <2>2, <2>5
    <3>2. QED
      BY <3>1 DEF S, Good
  <2>7. CASE x = t.stop
    BY <1>1, <1>2, <1>4, <2>6, <2>7 DEF K
  <2>8. CASE x # t.stop
    <3> DEFINE b == Begin(t, Runs(t) + 1)
    <3>0. Runs(t) + 1 \in Nat \ {0}
      BY <2>2
    <3>1. b \in Nat
      BY <1>1, <3>0, RunElements
    <3>2. x = b - 1 /\ x < t.stop /\ b >= t.stop
      <4>1. x = IF b - 1 <= t.stop THEN b - 1 ELSE t.stop
        BY DEF Reached
      <4>2. b >= t.stop
        BY <2>2
      <4> HIDE DEF x, b
      <4>3. QED
        BY <1>1, <2>8, <3>1, <4>1, <4>2
    <3>3. x \in Nat /\ x + 1 = t.stop
      <4> HIDE DEF x, b
      <4>1. QED
        BY <1>1, <1>4, <3>1, <3>2
    <3>4. x \notin K
      BY <1>1, <3>0, <3>2, RunElements DEF K
    <3> HIDE DEF x, m
    <3>5. Moved(m, K, x + 1)
      BY <1>1, <2>6, <3>3, <3>4, SkipMoved
    <3>6. MoveRuns(t) = m
      BY <1>1, <1>2, <1>4 DEF m
    <3>7. QED
      BY <3>3, <3>5, <3>6 DEF K
  <2>9. QED
    BY <2>7, <2>8
<1>5. QED
  BY <1>1, <1>3, <1>4

\* del a[s] removes the elements of the slice.
LEMMA SliceDeleted ==
  ASSUME NoOverflow, IInv, NEW s \in Slices
  PROVE  /\ self.pinned \/ Removed(SliceElements(s), DelSlice(s))
         /\ Inside(DelSlice(s).v) /\ DelSlice(s).mem \in Memory
<1> DEFINE t == AdjustStepPositive(s)
           n == self.nbits
           K == Rest(t)
           m == CASE t.step = 1 -> mem [] t.step \in 2 .. 3 -> MoveElements(t)
                  [] t.step >= 4 -> MoveRuns(t)
           r == DelSlice(s)
           S == SliceElements(s)
<1>1. Inside(self) /\ mem \in Memory /\ n \in 0 .. Bits
  <2>1. Inside(self) /\ mem \in Memory
    BY DEF IInv
  <2>2. n \in Nat /\ n <= Bits /\ Bits \in Nat
    BY <2>1, InsideCells
  <2>3. QED
    BY <2>1, <2>2
<1>2. Upwards(t, n) /\ SliceElements(t) = S
  BY <1>1, SliceVisited
<1>3. r = DeleteN(self, m, t.stop - t.length, t.length)
  BY DEF DelSlice
<1>4. K = (0 .. (n - 1)) \ S
  BY <1>2 DEF Rest
<1> HIDE DEF t, K, r, S
<1>5. /\ t.stop \in Nat /\ t.stop <= n /\ n \in Nat /\ t.step \in Nat \ {0} /\ t.length \in Nat
      /\ Indexes(K) /\ t.stop .. (n - 1) \subseteq K /\ Rank(K, t.stop) = t.stop - t.length
  BY <1>1, <1>2, RestRank DEF K
<1>6. Moved(m, K, t.stop)
  <2>1. CASE t.step = 1
    <3>1. m = mem
      BY <2>1
    <3>2. Moved(mem, Rest(t), t.stop)
      BY <1>1, <1>2, <2>1, NothingMoves
    <3>3. QED
      BY <3>1, <3>2 DEF K
  <2>2. CASE t.step \in 2 .. 3
    <3>1. m = MoveElements(t)
      BY <2>2
    <3>2. Moved(MoveElements(t), Rest(t), t.stop)
      BY <1>2, ElementsMove
    <3>3. QED
      BY <3>1, <3>2 DEF K
  <2>3. CASE t.step >= 4
    <3>1. m = MoveRuns(t)
      BY <1>5, <2>3
    <3>2. Moved(MoveRuns(t), Rest(t), t.stop)
      BY <1>2, RunsMove
    <3>3. QED
      BY <3>1, <3>2 DEF K
  <2>4. QED
    BY <1>5, <2>1, <2>2, <2>3
<1> HIDE DEF m
<1>7. PICK f : /\ Moved(f, K, n)
               /\ DeleteN(self, m, t.stop - t.length, t.length) = Resize(self, f, Cardinality(K))
  <2> DEFINE i == t.stop
             d == t.length
  <2>1. i \in 0 .. n /\ i .. (n - 1) \subseteq K /\ Moved(m, K, i) /\ d \in Nat
        /\ Rank(K, i) = i - d
    BY <1>5, <1>6
  <2> HIDE DEF i, d
  <2>2. \E f : /\ Moved(f, K, n)
               /\ DeleteN(self, m, i - d, d) = Resize(self, f, Cardinality(K))
    BY <1>1, <1>5, <2>1, DeletedN
  <2>3. QED
    BY <2>2 DEF i, d
<1>8. r = Resize(self, f, Cardinality(K))
  BY <1>3, <1>7
<1>9. self.pinned \/ Removed(S, r)
  BY <1>1, <1>4, <1>5, <1>7, <1>8, ShortenedMoved
<1>10. Inside(r.v)
  BY <1>1, <1>4, <1>5, <1>7, <1>8, ShortenedMoved
<1>11. r.mem \in Memory
  BY <1>7, <1>8 DEF Moved, Resize, Outcome
<1>12. QED
  BY <1>9, <1>10, <1>11 DEF r, S
-------------------------------------------------------------------------------
(***************************************************************************)
(* a[mask] and a[seq].                                                     *)
(***************************************************************************)
\* The loop of a[mask].
GetLoop(f, mask) ==
  [i \in 0 .. mask.nbits |->
     IF i = 0 THEN [f |-> <<>>, j |-> 0]
     ELSE IF getbit(mask, mem, i - 1) = 0 THEN f[i - 1]
     ELSE [f |-> Append(f[i - 1].f, getbit(self, mem, i - 1)), j |-> f[i - 1].j + 1]]

\* It leaves something.
LEMMA GetLoopExists ==
  ASSUME IInv, NEW mask, IsMask(mask)
  PROVE  \E f : f = GetLoop(f, mask)
<1> DEFINE n == self.nbits
           V == [f : Seq(Bit), j : Nat]
           a == [f |-> <<>>, j |-> 0]
           Turn(i, p) ==
             IF getbit(mask, mem, i - 1) = 0 THEN p
             ELSE [f |-> Append(p.f, getbit(self, mem, i - 1)), j |-> p.j + 1]
           step == [z \in (1 .. n) \X V |-> Turn(z[1], z[2])]
<1>1. n \in Nat /\ View(self) /\ mem \in Memory
  BY InsideCells DEF IInv, View
<1>2. mask.nbits = n
  BY MaskOnes
<1>3. a \in V
  BY <1>1
<1>4. ASSUME NEW i \in 1 .. n, NEW p \in V PROVE Turn(i, p) \in V
  <2>1. p.f \in Seq(Bit) /\ p.j \in Nat /\ i - 1 \in Nat
    BY <1>1
  <2>2. getbit(self, mem, i - 1) \in Bit
    BY <1>1, <2>1, GetbitType
  <2>3. Append(p.f, getbit(self, mem, i - 1)) \in Seq(Bit)
    BY <2>1, <2>2, AppendProperties
  <2>4. QED
    BY <2>1, <2>3
<1> HIDE DEF V, a, Turn
<1>5. step \in [(1 .. n) \X V -> V]
  BY <1>4
<1>6. \A i \in 1 .. n, p \in V : step[<<i, p>>] = Turn(i, p)
  OBVIOUS
<1> HIDE DEF step
<1>7. PICK f \in [0 .. n -> V] : Turns(f, n, a, step)
  BY <1>1, <1>3, <1>5, LoopExists
<1>8. ASSUME NEW i \in 0 .. n PROVE f[i] = GetLoop(f, mask)[i]
  <2>1. CASE i = 0
    BY <1>2, <1>7, <2>1 DEF Turns, GetLoop, a
  <2>2. CASE i # 0
    <3>1. i \in 1 .. n /\ i - 1 \in 0 .. n
      BY <1>1, <2>2
    <3>2. f[i] = Turn(i, f[i - 1])
      BY <1>6, <1>7, <3>1 DEF Turns
    <3>3. QED
      BY <1>2, <2>2, <3>2 DEF GetLoop, Turn
  <2>3. QED
    BY <2>1, <2>2
<1>9. GetLoop(f, mask) = [i \in 0 .. n |-> GetLoop(f, mask)[i]] /\ f = [i \in 0 .. n |-> f[i]]
  BY <1>2, <1>7 DEF GetLoop
<1>10. [i \in 0 .. n |-> GetLoop(f, mask)[i]] = [i \in 0 .. n |-> f[i]]
  BY <1>8
<1>11. QED
  BY <1>9, <1>10

\* The elements below i with an index in K, in order.
Taken(f, K, i) ==
  /\ f \in Seq(Bit) /\ Len(f) = Rank(K, i)
  /\ \A q \in K : q < i => f[Rank(K, q) + 1] = getbit(self, mem, q)

\* One more is taken.
LEMMA TakeOne ==
  ASSUME IInv, NEW K, Indexes(K), NEW i \in K, NEW f, Taken(f, K, i)
  PROVE  Taken(Append(f, getbit(self, mem, i)), K, i + 1)
<1> DEFINE b == getbit(self, mem, i)
           g == Append(f, b)
           n == self.nbits
<1>1. n \in Nat /\ K \in SUBSET (0 .. (n - 1)) /\ Inside(self) /\ mem \in Memory /\ i \in Nat
  <2>1. n \in Nat /\ Inside(self) /\ mem \in Memory
    BY InsideCells DEF IInv
  <2>2. K \in SUBSET (0 .. (n - 1))
    BY DEF Indexes
  <2>3. QED
    BY <2>1, <2>2
<1>2. b \in Bit
  BY <1>1, GetbitType DEF View
<1>3. f \in Seq(Bit) /\ Len(f) = Rank(K, i)
  BY DEF Taken
<1> HIDE DEF b
<1>4. /\ g \in Seq(Bit) /\ Len(g) = Len(f) + 1 /\ g[Len(f) + 1] = b
      /\ \A k \in 1 .. Len(f) : g[k] = f[k]
  BY <1>2, <1>3, AppendProperties
<1>5. Rank(K, i + 1) = Rank(K, i) + 1
  BY <1>1, RankStep
<1> HIDE DEF g
<1>6. ASSUME NEW q \in K, q < i + 1
      PROVE  g[Rank(K, q) + 1] = getbit(self, mem, q)
  <2>1. q \in Nat
    BY <1>1
  <2>2. CASE q = i
    BY <1>3, <1>4, <2>2 DEF b
  <2>3. CASE q # i
    <3>1. q < i /\ q <= i
      BY <1>1, <1>6, <2>1, <2>3
    <3>2. Rank(K, q) \in Nat /\ Rank(K, i) \in Nat /\ Rank(K, q) < Rank(K, i)
      BY <1>1, <2>1, <3>1, RankGrows
    <3>3. Rank(K, q) + 1 \in 1 .. Len(f)
      BY <1>3, <3>2
    <3>4. f[Rank(K, q) + 1] = getbit(self, mem, q)
      BY <3>1 DEF Taken
    <3>5. QED
      BY <1>4, <3>3, <3>4
  <2>4. QED
    BY <2>2, <2>3
<1>7. Taken(g, K, i + 1)
  BY <1>3, <1>4, <1>5, <1>6 DEF Taken
<1>8. QED
  BY <1>7 DEF g, b

\* a[mask] takes the elements that the mask selects.
LEMMA MaskTakes ==
  ASSUME IInv, NEW mask, IsMask(mask)
  PROVE  Taken(GetMask(mask), Ones(mask), self.nbits)
<1> DEFINE n == self.nbits
           K == Ones(mask)
           f == CHOOSE f : f = GetLoop(f, mask)
           S == {i \in 0 .. n : Taken(f[i].f, K, i)}
<1>1. /\ n \in Nat /\ K \in SUBSET (0 .. (n - 1)) /\ Indexes(K) /\ mask.nbits = n
      /\ \A i \in 0 .. (n - 1) : /\ getbit(mask, mem, i) \in {0, 1}
                                 /\ getbit(mask, mem, i) = 1 <=> i \in K
  BY MaskOnes
<1>2. GetMask(mask) = f[n].f
  BY <1>1 DEF GetMask, GetLoop
<1>3. f = GetLoop(f, mask)
  <2>1. \E g : g = GetLoop(g, mask)
    BY GetLoopExists
  <2>2. QED
    BY <2>1
<1> HIDE DEF f, K
<1>4. 0 \in S
  <2>1. 0 \in 0 .. n
    BY <1>1
  <2>2. f[0] = [f |-> <<>>, j |-> 0]
    BY <1>1, <1>3, <2>1 DEF GetLoop
  <2>3. Rank(K, 0) = 0
    BY <1>1, RankStep
  <2>4. \A q \in K : ~ (q < 0)
    BY <1>1
  <2>5. Taken(<<>>, K, 0)
    BY <2>3, <2>4 DEF Taken
  <2>6. QED
    BY <2>1, <2>2, <2>5
<1>5. ASSUME NEW i \in 0 .. (n - 1), i \in S PROVE i + 1 \in S
  <2> DEFINE p == f[i]
  <2>1. i \in Nat /\ i + 1 \in 0 .. n
    BY <1>1
  <2>2. f[i + 1] = IF getbit(mask, mem, i) = 0 THEN p
                   ELSE [f |-> Append(p.f, getbit(self, mem, i)), j |-> p.j + 1]
    <3> DEFINE k == i + 1
    <3>1. k \in 0 .. n /\ k - 1 = i /\ k # 0
      BY <2>1
    <3> HIDE DEF k
    <3>2. f[k] = GetLoop(f, mask)[k]
      BY <1>3
    <3>3. f[k] = IF getbit(mask, mem, k - 1) = 0 THEN f[k - 1]
                 ELSE [f |-> Append(f[k - 1].f, getbit(self, mem, k - 1)), j |-> f[k - 1].j + 1]
      BY <1>1, <3>1, <3>2 DEF GetLoop
    <3>4. QED
      BY <3>1, <3>3 DEF k
  <2>3. Taken(p.f, K, i)
    BY <1>5
  <2> HIDE DEF p, S
  <2>4. CASE i \in K
    <3>1. f[i + 1] = [f |-> Append(p.f, getbit(self, mem, i)), j |-> p.j + 1]
      BY <1>1, <2>2, <2>4
    <3>2. Taken(Append(p.f, getbit(self, mem, i)), K, i + 1)
      BY <1>1, <2>3, <2>4, TakeOne
    <3>3. f[i + 1].f = Append(p.f, getbit(self, mem, i))
      BY <3>1
    <3>4. QED
      BY <2>1, <3>2, <3>3 DEF S
  <2>5. CASE i \notin K
    <3>1. f[i + 1] = p
      BY <1>1, <2>2, <2>5
    <3>2. Rank(K, i + 1) = Rank(K, i)
      BY <1>1, <2>1, <2>5, RankStep
    <3>3. \A q \in K : q < i + 1 => q < i
      <4>1. \A q \in K : q \in Nat /\ q # i
        BY <1>1, <2>5
      <4>2. QED
        BY <2>1, <4>1
    <3>4. Taken(p.f, K, i + 1)
      BY <2>3, <3>2, <3>3 DEF Taken
    <3>5. QED
      BY <2>1, <3>1, <3>4 DEF S
  <2>6. QED
    BY <2>4, <2>5
<1> HIDE DEF S
<1>6. 0 .. n \subseteq S
  <2> HIDE DEF n
  <2>1. 0 \in Int /\ n \in Int
    BY <1>1
  <2>2. QED
    BY <2>1, <1>4, <1>5, RangeInduction
<1>7. n \in S
  BY <1>1, <1>6
<1>8. QED
  BY <1>2, <1>7 DEF S, K

\* a[mask] is what a[list(mask.search(1))] is.
LEMMA MaskGets ==
  ASSUME IInv, NEW mask, IsMask(mask), NEW at, at = Ascending(Ones(mask))
  PROVE  /\ GetMask(mask) = [j \in 1 .. Len(at) |-> getbit(self, mem, at[j])]
         /\ GetSeq(at) = GetMask(mask)
         /\ at \in Seq(Ones(mask)) /\ InRange(at)
         /\ \A j \in DOMAIN at : Normalized(at[j]) = at[j]
         /\ Ones(mask) = {at[j] : j \in DOMAIN at}
<1> DEFINE n == self.nbits
           K == Ones(mask)
           c == Cardinality(K)
           g == GetMask(mask)
           h == [j \in 1 .. Len(at) |-> getbit(self, mem, at[j])]
<1>1. n \in Nat /\ K \in SUBSET (0 .. (n - 1))
  BY MaskOnes
<1>2. c \in Nat
  BY <1>1, IndicesFinite
<1>3. /\ at \in Seq(K) /\ Len(at) = c /\ DOMAIN at = 1 .. c
      /\ \A k \in 1 .. c : at[k] \in K /\ Rank(K, at[k]) = k - 1
      /\ \A x \in K : Rank(K, x) + 1 \in 1 .. c /\ at[Rank(K, x) + 1] = x
  BY <1>1, AscendingRank
<1>4. g \in Seq(Bit) /\ Len(g) = c /\ \A q \in K : g[Rank(K, q) + 1] = getbit(self, mem, q)
  <2>1. Taken(g, K, n)
    BY MaskTakes
  <2>2. Rank(K, n) = c
    BY <1>1, RankStep
  <2>3. \A q \in K : q < n
    BY <1>1
  <2>4. QED
    BY <2>1, <2>2, <2>3 DEF Taken
<1> HIDE DEF g, K, c
<1>5. ASSUME NEW j \in 1 .. c PROVE g[j] = getbit(self, mem, at[j])
  <2>1. at[j] \in K /\ Rank(K, at[j]) + 1 = j
    BY <1>2, <1>3
  <2>2. QED
    BY <1>4, <2>1
<1>6. g = [j \in 1 .. c |-> getbit(self, mem, at[j])]
  <2>1. g \in [1 .. c -> Bit]
    BY <1>4, LenProperties
  <2>2. g = [j \in 1 .. c |-> g[j]]
    BY <2>1
  <2>3. QED
    BY <1>5, <2>2
<1>7. ASSUME NEW j \in DOMAIN at
      PROVE  Normalized(at[j]) = at[j] /\ at[j] \in 0 .. (n - 1)
  <2>1. at[j] \in K
    BY <1>3
  <2>2. at[j] \in 0 .. (n - 1)
    BY <1>1, <2>1
  <2>3. QED
    BY <2>2 DEF Normalized
<1>8. InRange(at)
  BY <1>7 DEF InRange
<1>9. GetSeq(at) = [j \in 1 .. c |-> getbit(self, mem, at[j])]
  <2>1. \A j \in 1 .. c : Normalized(at[j]) = at[j]
    BY <1>3, <1>7
  <2>2. GetSeq(at) = [j \in 1 .. c |-> getbit(self, mem, Normalized(at[j]))]
    BY <1>3 DEF GetSeq
  <2>3. QED
    BY <2>1, <2>2
<1>10. K = {at[j] : j \in DOMAIN at}
  BY <1>3
<1>11. GetMask(mask) = h
  BY <1>3, <1>6 DEF g
<1>12. GetSeq(at) = GetMask(mask)
  BY <1>6, <1>9 DEF g
<1>13. QED
  BY <1>3, <1>7, <1>8, <1>10, <1>11, <1>12 DEF K
\* An array elsewhere.
LEMMA OwnApart ==
  ASSUME NEW n \in Nat, NEW f \in [0 .. (n - 1) -> Bit]
  PROVE  /\ Apart(Own(f, n)) /\ Own(f, n).nbits = n /\ Own(f, n).own = f
         /\ Own(f, n).shared = FALSE
         /\ \A m, i : getbit(Own(f, n), m, i) = IF i >= n THEN 0 ELSE f[i]
<1> DEFINE w == Own(f, n)
<1>1. w.nbits = n /\ w.own = f /\ w.shared = FALSE
  BY DEF Own
<1> HIDE DEF w
<1>2. w = Own(w.own, w.nbits)
  BY <1>1 DEF w
<1>3. Apart(w)
  BY <1>1, <1>2 DEF Apart
<1>4. \A m, i : getbit(w, m, i) = IF i >= n THEN 0 ELSE f[i]
  BY <1>1 DEF getbit
<1>5. QED
  BY <1>1, <1>3, <1>4 DEF w

\* The masks of the specification.
LEMMA MaskKinds ==
  ASSUME IInv, NEW mask \in OwnMasks \union {self}
  PROVE  IsMask(mask)
<1>1. CASE mask = self
  BY <1>1 DEF IsMask
<1>2. CASE mask \in OwnMasks
  <2>1. PICK f \in [0 .. (self.nbits - 1) -> {0, 1}] : mask = Own(f, self.nbits)
    BY <1>2 DEF OwnMasks
  <2>2. self.nbits \in Nat
    BY InsideCells DEF IInv
  <2>3. f \in [0 .. (self.nbits - 1) -> Bit]
    BY DEF Bit
  <2>4. Apart(Own(f, self.nbits)) /\ Own(f, self.nbits).nbits = self.nbits
    BY <2>2, <2>3, OwnApart
  <2>5. QED
    BY <2>1, <2>4 DEF IsMask
<1>3. QED
  BY <1>1, <1>2

\* The mask that del a[seq] builds.
SeqMask(seq) ==
  Own([i \in 0 .. (self.nbits - 1) |->
         IF \E j \in DOMAIN seq : Normalized(seq[j]) = i THEN 1 ELSE 0], self.nbits)

\* It selects what the indices name.
LEMMA SeqMaskOnes ==
  ASSUME IInv, NEW seq
  PROVE  /\ IsMask(SeqMask(seq))
         /\ Ones(SeqMask(seq)) =
              {i \in 0 .. (self.nbits - 1) : \E j \in DOMAIN seq : Normalized(seq[j]) = i}
         /\ InRange(seq) => DelSeq(seq) = DelMaskLocked(SeqMask(seq))
<1> DEFINE n == self.nbits
           f == [i \in 0 .. (n - 1) |->
                   IF \E j \in DOMAIN seq : Normalized(seq[j]) = i THEN 1 ELSE 0]
           w == SeqMask(seq)
<1>1. n \in Nat
  BY InsideCells DEF IInv
<1>2. f \in [0 .. (n - 1) -> Bit] /\ w = Own(f, n)
  BY DEF SeqMask, Bit
<1>3. InRange(seq) => DelSeq(seq) = DelMaskLocked(w)
  BY DEF DelSeq, SeqMask
<1>4. \A i \in 0 .. (n - 1) : f[i] = 1 <=> \E j \in DOMAIN seq : Normalized(seq[j]) = i
  OBVIOUS
<1> HIDE DEF f, w
<1>5. /\ Apart(w) /\ w.nbits = n
      /\ \A m, i : getbit(w, m, i) = IF i >= n THEN 0 ELSE f[i]
  <2> HIDE DEF n
  <2>1. /\ Apart(Own(f, n)) /\ Own(f, n).nbits = n
        /\ \A m, i : getbit(Own(f, n), m, i) = IF i >= n THEN 0 ELSE f[i]
    <3>1. Apart(Own(f, n)) /\ Own(f, n).nbits = n
      BY <1>1, <1>2, OwnApart
    <3>2. \A m, i : getbit(Own(f, n), m, i) = IF i >= n THEN 0 ELSE f[i]
      BY DEF Own, getbit
    <3>3. QED
      BY <3>1, <3>2
  <2>2. QED
    BY <1>2, <2>1
<1>6. \A i \in 0 .. (n - 1) : getbit(w, mem, i) = f[i]
  <2>1. \A i \in 0 .. (n - 1) : ~ (i >= n)
    BY <1>1
  <2>2. QED
    BY <1>5, <2>1
<1>7. Ones(w) = {i \in 0 .. (n - 1) : \E j \in DOMAIN seq : Normalized(seq[j]) = i}
  BY <1>4, <1>5, <1>6 DEF Ones
<1>8. IsMask(w)
  BY <1>5 DEF IsMask
<1>9. QED
  BY <1>3, <1>7, <1>8 DEF w

\* An index selects the same elements in a[key] and in del a[key].
LEMMA DeletesSelected ==
  ASSUME NoOverflow, IInv
  PROVE  DeletesWhatItGets
<1>1. \A s \in Slices : self.pinned \/ Removed(SliceElements(s), DelSlice(s))
  BY SliceDeleted
<1>2. ASSUME NEW mask \in OwnMasks \union {self}
      PROVE  LET at == Ascending(Ones(mask))
             IN  /\ GetMask(mask) = [j \in 1 .. Len(at) |-> getbit(self, mem, at[j])]
                 /\ GetSeq(at) = GetMask(mask)
                 /\ mask.nbits = self.nbits /\ ~self.pinned =>
                      /\ Removed(Ones(mask), DelMask(mask))
                      /\ Len(at) <= MaxIndices => DelSeq(at) = DelMask(mask)
  <2> DEFINE at == Ascending(Ones(mask))
  <2>1. IsMask(mask)
    BY MaskKinds
  <2>2. mask.nbits = self.nbits /\ Ones(mask) \in SUBSET (0 .. (self.nbits - 1))
    BY <2>1, MaskOnes
  <2>3. at = Ascending(Ones(mask))
    OBVIOUS
  <2> HIDE DEF at
  <2>4. /\ GetMask(mask) = [j \in 1 .. Len(at) |-> getbit(self, mem, at[j])]
        /\ GetSeq(at) = GetMask(mask)
        /\ InRange(at)
        /\ \A j \in DOMAIN at : Normalized(at[j]) = at[j]
        /\ Ones(mask) = {at[j] : j \in DOMAIN at}
    BY <2>1, <2>3, MaskGets
  <2>5. DelMask(mask) = DelMaskLocked(mask)
    BY <2>2 DEF DelMask
  <2>6. ~self.pinned => Removed(Ones(mask), DelMask(mask))
    BY <2>1, <2>5, MaskDeleted
  <2>7. DelSeq(at) = DelMask(mask)
    <3>1. /\ IsMask(SeqMask(at))
          /\ Ones(SeqMask(at)) =
               {i \in 0 .. (self.nbits - 1) : \E j \in DOMAIN at : Normalized(at[j]) = i}
          /\ DelSeq(at) = DelMaskLocked(SeqMask(at))
      BY <2>4, SeqMaskOnes
    <3>2. Ones(SeqMask(at)) = Ones(mask)
      BY <2>2, <2>4, <3>1
    <3>3. DelMaskLocked(SeqMask(at)) = DelMaskLocked(mask)
      BY <2>1, <3>1, <3>2, MasksAgree
    <3>4. QED
      BY <2>5, <3>1, <3>3
  <2>8. QED
    BY <2>4, <2>6, <2>7 DEF at
<1>3. QED
  BY <1>1, <1>2 DEF DeletesWhatItGets
-------------------------------------------------------------------------------
(***************************************************************************)
(* a[s] = other and a[seq] = other.                                        *)
(***************************************************************************)
\* The loop that writes bit j of src to element at[j + 1].
IndexLoop(f, at, n, src) ==
  [j \in 0 .. n |->
     IF j = 0 THEN mem
     ELSE setbit(self, f[j - 1], at[j], getbit(src, f[j - 1], j - 1))]

\* It leaves something.
LEMMA IndexLoopExists ==
  ASSUME IInv, NEW n \in Nat, NEW at, NEW src, View(src)
  PROVE  \E f : f = IndexLoop(f, at, n, src)
<1> DEFINE Turn(j, m) == setbit(self, m, at[j], getbit(src, m, j - 1))
           step == [z \in (1 .. n) \X Memory |-> Turn(z[1], z[2])]
<1>1. mem \in Memory
  BY DEF IInv
<1>2. ASSUME NEW j \in 1 .. n, NEW m \in Memory PROVE Turn(j, m) \in Memory
  <2>1. j - 1 \in Nat
    OBVIOUS
  <2>2. getbit(src, m, j - 1) \in Bit
    BY <2>1, GetbitType
  <2>3. QED
    BY <2>2, SetbitType
<1> HIDE DEF Turn
<1>3. step \in [(1 .. n) \X Memory -> Memory]
  BY <1>2
<1>4. \A j \in 1 .. n, m \in Memory : step[<<j, m>>] = Turn(j, m)
  OBVIOUS
<1> HIDE DEF step
<1>5. PICK f \in [0 .. n -> Memory] : Turns(f, n, mem, step)
  BY <1>1, <1>3, LoopExists
<1>6. ASSUME NEW j \in 0 .. n PROVE f[j] = IndexLoop(f, at, n, src)[j]
  <2>1. CASE j = 0
    BY <1>5, <2>1 DEF Turns, IndexLoop
  <2>2. CASE j # 0
    <3>1. j \in 1 .. n /\ j - 1 \in 0 .. n
      BY <2>2
    <3>2. f[j] = Turn(j, f[j - 1])
      BY <1>4, <1>5, <3>1 DEF Turns
    <3>3. QED
      BY <2>2, <3>2 DEF IndexLoop, Turn
  <2>3. QED
    BY <2>1, <2>2
<1>7. /\ IndexLoop(f, at, n, src) = [j \in 0 .. n |-> IndexLoop(f, at, n, src)[j]]
      /\ f = [j \in 0 .. n |-> f[j]]
  BY <1>5 DEF IndexLoop
<1>8. [j \in 0 .. n |-> IndexLoop(f, at, n, src)[j]] = [j \in 0 .. n |-> f[j]]
  BY <1>6
<1>9. QED
  BY <1>7, <1>8

\* Writing to self does not change what is read from src.
Untouched(m) ==
  \A c \in 0 .. (Bits - 1) : c \notin self.off .. (self.off + self.nbits - 1) => m[c] = mem[c]
Steady(src, n) ==
  \A m \in Memory : Untouched(m) => \A i \in 0 .. (n - 1) : getbit(src, m, i) = getbit(src, mem, i)

\* The turns before the k-th that write element i, and what is then there.
Named(at, k, i) == {j \in 1 .. k : at[j] = i}
Value(at, k, src, i) ==
  IF Named(at, k, i) # {} THEN getbit(src, mem, Max(Named(at, k, i)) - 1)
                          ELSE getbit(self, mem, i)

\* What one more turn changes.
LEMMA ValueStep ==
  ASSUME NEW k \in Nat, NEW at, NEW src, NEW i
  PROVE  Value(at, k + 1, src, i) =
           IF at[k + 1] = i THEN getbit(src, mem, k) ELSE Value(at, k, src, i)
<1>1. CASE at[k + 1] = i
  <2> DEFINE N == Named(at, k + 1, i)
  <2>1. N \in SUBSET (1 .. (k + 1)) /\ k + 1 \in N /\ 1 \in Int /\ k + 1 \in Int /\ N # {}
    BY <1>1 DEF Named
  <2> HIDE DEF N
  <2> DEFINE b == k + 1
             M == Max(N)
  <2>2. b \in Int /\ N \in SUBSET (1 .. b) /\ b \in N
    BY <2>1
  <2>3. M = b
    <3> HIDE DEF b
    <3>1. M \in N /\ \A x \in N : x <= M
      BY <2>1, <2>2, Maximum
    <3> HIDE DEF M
    <3>2. M \in 1 .. b /\ b <= M
      BY <2>2, <3>1
    <3>3. QED
      BY <2>2, <3>2
  <2>4. Max(N) - 1 = k
    BY <2>3 DEF M, b
  <2>5. QED
    BY <1>1, <2>1, <2>4 DEF Value, N
<1>2. CASE at[k + 1] # i
  <2>1. Named(at, k + 1, i) = Named(at, k, i)
    <3>1. \A j : j \in 1 .. (k + 1) <=> j \in 1 .. k \/ j = k + 1
      OBVIOUS
    <3>2. QED
      BY <1>2, <3>1 DEF Named
  <2>2. QED
    BY <1>2, <2>1 DEF Value
<1>3. QED
  BY <1>1, <1>2

\* The last index that names an element decides what is there.
LEMMA IndexLoopWrites ==
  ASSUME IInv, NEW n \in Nat, NEW at, \A j \in 1 .. n : at[j] \in 0 .. (self.nbits - 1),
         NEW src, View(src), Steady(src, n), NEW f, f = IndexLoop(f, at, n, src)
  PROVE  /\ f[n] \in Memory /\ Untouched(f[n])
         /\ \A i \in 0 .. (self.nbits - 1) : getbit(self, f[n], i) = Value(at, n, src, i)
<1> DEFINE Good(k) == /\ f[k] \in Memory /\ Untouched(f[k])
                      /\ \A i \in 0 .. (self.nbits - 1) :
                           getbit(self, f[k], i) = Value(at, k, src, i)
           S == {k \in 0 .. n : Good(k)}
<1>1. /\ Inside(self) /\ mem \in Memory /\ self.nbits \in Nat /\ self.off \in Nat
      /\ \A i \in 0 .. (self.nbits - 1) : self.off + i \in 0 .. (Bits - 1)
      /\ \A m, i : getbit(self, m, i) = IF i >= self.nbits THEN 0 ELSE m[self.off + i]
  BY InsideCells DEF IInv
<1>2. \A i \in 0 .. (self.nbits - 1) : \A m : getbit(self, m, i) = m[self.off + i]
  <2>1. \A i \in 0 .. (self.nbits - 1) : ~ (i >= self.nbits)
    BY <1>1
  <2>2. QED
    BY <1>1, <2>1
<1>3. Good(0)
  <2>1. 0 \in 0 .. n
    OBVIOUS
  <2>2. f[0] = mem
    BY <2>1 DEF IndexLoop
  <2>3. ASSUME NEW i PROVE Value(at, 0, src, i) = getbit(self, mem, i)
    <3>1. Named(at, 0, i) = {}
      BY DEF Named
    <3>2. QED
      BY <3>1 DEF Value
  <2>4. QED
    BY <1>1, <2>2, <2>3 DEF Untouched
<1>4. ASSUME NEW k \in 0 .. (n - 1), Good(k) PROVE Good(k + 1)
  <2> DEFINE p == at[k + 1]
             b == getbit(src, mem, k)
             m == f[k]
             r == f[k + 1]
  <2>1. k \in Nat /\ k + 1 \in 1 .. n
    OBVIOUS
  <2>2. p \in 0 .. (self.nbits - 1)
    BY <2>1
  <2>3. m \in Memory /\ Untouched(m)
    BY <1>4
  <2>4. r = setbit(self, m, p, getbit(src, m, k))
    <3> DEFINE j == k + 1
    <3>1. j \in 0 .. n /\ j # 0 /\ j - 1 = k
      BY <2>1
    <3> HIDE DEF j
    <3>2. f[j] = IndexLoop(f, at, n, src)[j]
      OBVIOUS
    <3>3. f[j] = setbit(self, f[j - 1], at[j], getbit(src, f[j - 1], j - 1))
      BY <3>1, <3>2 DEF IndexLoop
    <3>4. QED
      BY <3>1, <3>3 DEF j
  <2>5. getbit(src, m, k) = b
    BY <2>3 DEF Steady
  <2>6. b \in Bit
    BY <1>1, <2>1, GetbitType
  <2> HIDE DEF p, b, m, r
  <2>7. /\ r \in Memory /\ r[self.off + p] = b
        /\ \A c \in 0 .. (Bits - 1) : c # self.off + p => r[c] = m[c]
    BY <1>1, <2>2, <2>3, <2>4, <2>5, <2>6, SetbitCells
  <2>8. Untouched(r)
    <3>1. \A c \in 0 .. (Bits - 1) :
            c \notin self.off .. (self.off + self.nbits - 1) => c # self.off + p
      BY <1>1, <2>2
    <3>2. QED
      BY <2>3, <2>7, <3>1 DEF Untouched
  <2>9. ASSUME NEW i \in 0 .. (self.nbits - 1)
        PROVE  getbit(self, r, i) = Value(at, k + 1, src, i)
    <3>1. Value(at, k + 1, src, i) = IF p = i THEN b ELSE Value(at, k, src, i)
      BY <2>1, ValueStep DEF p, b
    <3>2. getbit(self, r, i) = r[self.off + i] /\ getbit(self, m, i) = m[self.off + i]
      BY <1>2
    <3>3. getbit(self, m, i) = Value(at, k, src, i)
      BY <1>4 DEF m
    <3>4. CASE p = i
      BY <2>7, <3>1, <3>2, <3>4
    <3>5. CASE p # i
      <4>1. self.off + i # self.off + p /\ self.off + i \in 0 .. (Bits - 1)
        BY <1>1, <2>2, <3>5
      <4>2. QED
        BY <2>7, <3>1, <3>2, <3>3, <3>5, <4>1
    <3>6. QED
      BY <3>4, <3>5
  <2>10. QED
    BY <2>7, <2>8, <2>9 DEF r
<1>5. 0 \in S
  BY <1>3
<1>6. ASSUME NEW k \in 0 .. (n - 1), k \in S PROVE k + 1 \in S
  <2>1. Good(k) /\ k + 1 \in 0 .. n
    BY <1>6
  <2>2. Good(k + 1)
    BY <1>4, <2>1
  <2> HIDE DEF Good
  <2>3. QED
    BY <2>1, <2>2
<1> HIDE DEF S
<1>7. 0 .. n \subseteq S
  <2>1. 0 \in Int /\ n \in Int
    OBVIOUS
  <2>2. QED
    BY <2>1, <1>5, <1>6, RangeInduction
<1>8. n \in S
  BY <1>7
<1>9. QED
  BY <1>8 DEF S

-------------------------------------------------------------------------------
(***************************************************************************)
(* What is read does not change: a copy, or an array that shares no memory *)
(* with self.                                                              *)
(***************************************************************************)
\* The bytes of an array hold its elements.
LEMMA BytesHold ==
  ASSUME NEW v, v.nbits \in Nat
  PROVE  /\ Bytes(v) \in Nat /\ ByteBits * Bytes(v) \in Nat /\ v.nbits <= ByteBits * Bytes(v)
         /\ v.nbits > 0 => Bytes(v) > 0
<1> DEFINE n == v.nbits
           d == n + ByteBits - 1
           q == d \div ByteBits
<1>1. ByteBits \in Nat \ {0}
  BY SubscriptsAssumption
<1>2. n \in Nat /\ d \in Nat /\ d = n + ByteBits - 1
  BY <1>1
<1>3. Bytes(v) = q
  BY DEF Bytes
<1> HIDE DEF d, n
<1>4. q \in Nat /\ ByteBits * q <= d /\ d < ByteBits * q + ByteBits
  BY <1>1, <1>2, Quotient
<1> HIDE DEF q
<1>5. ByteBits * q \in Nat
  BY <1>1, <1>4
<1> DEFINE y == ByteBits * q
<1>6. y \in Nat /\ d < y + ByteBits
  BY <1>4, <1>5
<1>7. q = 0 => y = 0
  BY <1>1
<1> HIDE DEF y
<1>8. n <= y
  BY <1>1, <1>2, <1>6
<1>9. n > 0 => q > 0
  BY <1>2, <1>4, <1>7, <1>8
<1>10. QED
  BY <1>3, <1>4, <1>5, <1>8, <1>9 DEF n, y

\* Arrays that do not overlap have no cell in common.
LEMMA DisjointCells ==
  ASSUME NEW v, Inside(v), NEW w, Inside(w), ~ Overlap(v, w),
         NEW i \in 0 .. (v.nbits - 1), NEW j \in 0 .. (w.nbits - 1)
  PROVE  v.off + i # w.off + j
<1> DEFINE x == ByteBits * Bytes(v)
           y == ByteBits * Bytes(w)
           a == v.off
           b == w.off
           n == v.nbits
           k == w.nbits
<1>1. /\ a \in Nat /\ b \in Nat /\ n \in Nat /\ k \in Nat
      /\ v.shared = TRUE /\ w.shared = TRUE
  BY InsideCells
<1>2. /\ x \in Nat /\ n <= x /\ y \in Nat /\ k <= y
      /\ Bytes(v) > 0 /\ Bytes(w) > 0
  BY <1>1, BytesHold
<1>3. b \notin a .. (a + x - 1) /\ a \notin b .. (b + y - 1)
  BY <1>1, <1>2 DEF Overlap
<1>4. i \in 0 .. (n - 1) /\ j \in 0 .. (k - 1)
  OBVIOUS
<1> HIDE DEF a, b, n, k, x, y
<1>5. a + i # b + j
  BY <1>1, <1>2, <1>3, <1>4
<1>6. QED
  BY <1>5 DEF a, b

\* A copy is an array elsewhere.
LEMMA CopyApart ==
  ASSUME NEW v, View(v), NEW m \in Memory
  PROVE  /\ Apart(Copy(v, m)) /\ Copy(v, m).nbits = v.nbits
         /\ \A g : \A i \in 0 .. (v.nbits - 1) : getbit(Copy(v, m), g, i) = getbit(v, m, i)
<1> DEFINE n == v.nbits
           f == List(v, m)
<1>1. n \in Nat
  BY DEF View, Inside, Apart
<1>2. f \in [0 .. (n - 1) -> Bit]
  BY <1>1, GetbitType DEF List
<1>3. \A i \in 0 .. (n - 1) : f[i] = getbit(v, m, i) /\ ~ (i >= n)
  BY <1>1 DEF List
<1>4. Copy(v, m) = Own(f, n)
  BY DEF Copy
<1> HIDE DEF f, n
<1>5. /\ Apart(Own(f, n)) /\ Own(f, n).nbits = n
      /\ \A g, i : getbit(Own(f, n), g, i) = IF i >= n THEN 0 ELSE f[i]
  <2>1. Apart(Own(f, n)) /\ Own(f, n).nbits = n
    BY <1>1, <1>2, OwnApart
  <2>2. \A g, i : getbit(Own(f, n), g, i) = IF i >= n THEN 0 ELSE f[i]
    BY DEF Own, getbit
  <2>3. QED
    BY <2>1, <2>2
<1>6. QED
  BY <1>3, <1>4, <1>5 DEF n

\* What is read from an array elsewhere does not depend on the memory.
LEMMA ApartReads ==
  ASSUME NEW v, Apart(v)
  PROVE  \A g, h, i : getbit(v, g, i) = getbit(v, h, i)
<1> DEFINE n == v.nbits
           f == v.own
<1>1. v = Own(f, n)
  BY DEF Apart
<1>2. v.shared = FALSE
  <2> HIDE DEF n, f
  <2>1. Own(f, n).shared = FALSE
    BY DEF Own
  <2>2. QED
    BY <1>1, <2>1
<1>3. QED
  BY <1>2 DEF getbit

\* The source of an assignment holds what other held, and goes on to do so.
LEMMA SourceSteady ==
  ASSUME IInv, NEW other, View(other), NEW src, src = Source(self, other, mem)
  PROVE  /\ View(src) /\ src.nbits = other.nbits
         /\ \A n \in Nat : n <= other.nbits => Steady(src, n)
         /\ \A i \in 0 .. (other.nbits - 1) : getbit(src, mem, i) = getbit(other, mem, i)
<1>1. other.nbits \in Nat /\ mem \in Memory /\ Inside(self)
  BY DEF IInv, View, Inside, Apart
<1>2. CASE Overlap(self, other)
  <2>1. src = Copy(other, mem)
    BY <1>2 DEF Source
  <2>2. /\ Apart(src) /\ src.nbits = other.nbits
        /\ \A i \in 0 .. (other.nbits - 1) : getbit(src, mem, i) = getbit(other, mem, i)
    BY <1>1, <2>1, CopyApart
  <2>3. \A g, h, i : getbit(src, g, i) = getbit(src, h, i)
    BY <2>2, ApartReads
  <2>4. QED
    BY <2>2, <2>3 DEF View, Steady
<1>3. CASE ~ Overlap(self, other) /\ Apart(other)
  <2>1. src = other
    BY <1>3 DEF Source
  <2>2. \A g, h, i : getbit(src, g, i) = getbit(src, h, i)
    BY <1>3, <2>1, ApartReads
  <2>3. QED
    BY <2>1, <2>2 DEF Steady
<1>4. CASE ~ Overlap(self, other) /\ Inside(other)
  <2>1. src = other
    BY <1>4 DEF Source
  <2>2. /\ \A i \in 0 .. (other.nbits - 1) : other.off + i \in 0 .. (Bits - 1)
        /\ \A m, i : getbit(other, m, i) = IF i >= other.nbits THEN 0 ELSE m[other.off + i]
        /\ self.off \in Nat /\ self.nbits \in Nat /\ other.off \in Nat
    BY <1>1, <1>4, InsideCells
  <2>3. ASSUME NEW n \in Nat, n <= other.nbits, NEW m \in Memory, Untouched(m),
               NEW i \in 0 .. (n - 1)
        PROVE  getbit(other, m, i) = getbit(other, mem, i)
    <3>1. i \in 0 .. (other.nbits - 1)
      BY <1>1, <2>3
    <3> DEFINE c == other.off + i
    <3>2. c \in 0 .. (Bits - 1)
      BY <2>2, <3>1
    <3>3. c \notin self.off .. (self.off + self.nbits - 1)
      <4>1. SUFFICES ASSUME c \in self.off .. (self.off + self.nbits - 1) PROVE FALSE
        OBVIOUS
      <4> DEFINE j == c - self.off
      <4>2. c \in Int /\ j \in 0 .. (self.nbits - 1) /\ self.off + j = c
        BY <2>2, <4>1
      <4> HIDE DEF j
      <4>3. QED
        BY <1>1, <1>4, <3>1, <4>2, DisjointCells
    <3>4. m[c] = mem[c]
      <4> HIDE DEF c
      <4>1. QED
        BY <2>3, <3>2, <3>3 DEF Untouched
    <3>5. QED
      BY <2>2, <3>4
  <2>4. QED
    BY <2>1, <2>3 DEF Steady
<1>5. QED
  BY <1>2, <1>3, <1>4 DEF View

\* The arrays that the calls are given.
LEMMA OthersViews ==
  ASSUME IInv, NEW n \in Nat, NEW other \in Others(n)
  PROVE  View(other) /\ other.nbits = n
<1>1. CASE other \in Sharing /\ other.nbits = n /\ Within(other)
  <2>1. CASE other = self
    BY <1>1, <2>1 DEF IInv, View
  <2>2. CASE other \in Importers
    <3>1. PICK p \in 0 .. (Bits \div ByteBits - 1), k \in 0 .. (Bits \div ByteBits) :
            other = Shared(ByteBits * p, ByteBits * k, TRUE)
      BY <2>2 DEF Importers, Shared
    <3>2. ByteBits \in Nat /\ p \in Nat /\ k \in Nat
      BY SubscriptsAssumption
    <3> DEFINE a == ByteBits * p
               b == ByteBits * k
    <3>3. a \in Nat /\ b \in Nat /\ other = Shared(a, b, TRUE)
      BY <3>1, <3>2
    <3> HIDE DEF a, b
    <3>4. other.off = a /\ other.nbits = b /\ other.pinned = TRUE
      BY <3>3 DEF Shared
    <3>5. QED
      BY <1>1, <3>3, <3>4 DEF View, Inside
  <2>3. QED
    BY <1>1, <2>1, <2>2 DEF Sharing
<1>2. CASE \E f \in OneHot(n) : other = Own(f, n)
  <2>1. PICK f \in OneHot(n) : other = Own(f, n)
    BY <1>2
  <2>2. f \in [0 .. (n - 1) -> Bit]
    BY DEF OneHot, Bit
  <2>3. QED
    BY <2>1, <2>2, OwnApart DEF View
<1>3. QED
  BY <1>1, <1>2 DEF Others

-------------------------------------------------------------------------------
\* Assigning element by element, from a source that holds what other held.
LEMMA IndexAssigned ==
  ASSUME IInv, NEW other, View(other), NEW n \in Nat, other.nbits = n,
         NEW at, DOMAIN at = 1 .. n, \A j \in 1 .. n : at[j] \in 0 .. (self.nbits - 1),
         NEW f, f = IndexLoop(f, at, n, Source(self, other, mem))
  PROVE  /\ Assigned(at, other, Outcome(None, self, f[n]))
         /\ f[n] \in Memory /\ Untouched(f[n])
<1> DEFINE src == Source(self, other, mem)
<1>1. /\ View(src) /\ src.nbits = n /\ Steady(src, n)
      /\ \A i \in 0 .. (n - 1) : getbit(src, mem, i) = getbit(other, mem, i)
  BY SourceSteady
<1> HIDE DEF src
<1>2. f = IndexLoop(f, at, n, src)
  BY DEF src
<1>3. /\ f[n] \in Memory /\ Untouched(f[n])
      /\ \A i \in 0 .. (self.nbits - 1) : getbit(self, f[n], i) = Value(at, n, src, i)
  BY <1>1, <1>2, IndexLoopWrites
<1>4. ASSUME NEW i \in 0 .. (self.nbits - 1)
      PROVE  getbit(self, f[n], i) =
               IF \E j \in DOMAIN at : at[j] = i
               THEN getbit(other, mem, Max({j \in DOMAIN at : at[j] = i}) - 1)
               ELSE getbit(self, mem, i)
  <2> DEFINE N == Named(at, n, i)
  <2>1. /\ N = {j \in DOMAIN at : at[j] = i} /\ N \in SUBSET (1 .. n)
        /\ N # {} <=> \E j \in DOMAIN at : at[j] = i
    BY DEF Named
  <2>2. Value(at, n, src, i) = IF N # {} THEN getbit(src, mem, Max(N) - 1)
                                         ELSE getbit(self, mem, i)
    BY DEF Value
  <2> HIDE DEF N
  <2>3. CASE N = {}
    BY <1>3, <2>1, <2>2, <2>3
  <2>4. CASE N # {}
    <3> DEFINE M == Max(N)
    <3>1. 1 \in Int /\ n \in Int
      OBVIOUS
    <3>2. M \in N
      BY <2>1, <2>4, <3>1, Maximum
    <3>3. Value(at, n, src, i) = getbit(src, mem, M - 1)
      BY <2>2, <2>4
    <3>4. M = Max({j \in DOMAIN at : at[j] = i})
      BY <2>1
    <3> HIDE DEF M
    <3>5. M - 1 \in 0 .. (n - 1)
      BY <2>1, <3>2
    <3>6. getbit(src, mem, M - 1) = getbit(other, mem, M - 1)
      BY <1>1, <3>5
    <3>7. getbit(self, f[n], i) = getbit(other, mem, M - 1)
      BY <1>3, <3>3, <3>6
    <3>8. QED
      BY <2>1, <2>4, <3>4, <3>7
  <2>5. QED
    BY <2>3, <2>4
<1>5. Outcome(None, self, f[n]).mem = f[n]
  BY DEF Outcome
<1>6. QED
  BY <1>3, <1>4, <1>5 DEF Assigned

\* a[s] = other
LEMMA SliceAssigned ==
  ASSUME NoOverflow, IInv, NEW s \in Slices, NEW other, View(other)
  PROVE  /\ other.nbits = s.length =>
              Assigned([j \in 1 .. s.length |-> SliceElement(s, j - 1)], other, SetSlice(s, other))
         /\ SetSlice(s, other).v = self /\ SetSlice(s, other).mem \in Memory
<1> DEFINE n == s.length
           src == Source(self, other, mem)
           at == [j \in 1 .. n |-> SliceElement(s, j - 1)]
           SliceLoop(g) ==
             [j \in 0 .. n |->
                IF j = 0 THEN mem
                ELSE setbit(self, g[j - 1], SliceElement(s, j - 1), getbit(src, g[j - 1], j - 1))]
           f == CHOOSE g : g = SliceLoop(g)
<1>1. SetSlice(s, other) = IF src.nbits # n THEN Refused("ValueError")
                                            ELSE Outcome(None, self, f[n])
  BY DEF SetSlice
<1>2. Inside(self) /\ mem \in Memory /\ self.nbits \in 0 .. Bits /\ self.nbits \in Nat
  <2>1. Inside(self) /\ mem \in Memory
    BY DEF IInv
  <2>2. self.nbits \in Nat /\ self.nbits <= Bits /\ Bits \in Nat
    BY <2>1, InsideCells
  <2>3. QED
    BY <2>1, <2>2
<1>3. n \in Nat /\ SliceElements(s) \subseteq 0 .. (self.nbits - 1)
  BY <1>2, SliceVisited, SlicesRegular
<1>4. DOMAIN at = 1 .. n /\ \A j \in 1 .. n : at[j] \in 0 .. (self.nbits - 1)
  <2>1. ASSUME NEW j \in 1 .. n PROVE SliceElement(s, j - 1) \in 0 .. (self.nbits - 1)
    <3>1. j - 1 \in 0 .. (n - 1)
      BY <1>3
    <3>2. SliceElement(s, j - 1) \in SliceElements(s)
      BY <3>1 DEF SliceElements
    <3>3. QED
      BY <1>3, <3>2
  <2>2. QED
    BY <2>1
<1>5. ASSUME NEW g PROVE SliceLoop(g) = IndexLoop(g, at, n, src)
  BY DEF IndexLoop
<1>6. View(src) /\ src.nbits = other.nbits
  BY SourceSteady
<1>7. Refused("ValueError").v = self /\ Refused("ValueError").mem = mem
  BY DEF Refused, Outcome
<1> HIDE DEF n, src, at, SliceLoop
<1>8. \E g : g = SliceLoop(g)
  <2>1. PICK g : g = IndexLoop(g, at, n, src)
    BY <1>3, <1>6, IndexLoopExists
  <2>2. QED
    BY <1>5, <2>1
<1>9. f = SliceLoop(f)
  BY <1>8
<1> HIDE DEF f
<1>10. CASE other.nbits # n
  BY <1>1, <1>2, <1>6, <1>7, <1>10 DEF n
<1>11. CASE other.nbits = n
  <2>1. f = IndexLoop(f, at, n, Source(self, other, mem))
    BY <1>5, <1>9 DEF src
  <2>2. Assigned(at, other, Outcome(None, self, f[n])) /\ f[n] \in Memory
    BY <1>3, <1>4, <1>11, <2>1, IndexAssigned
  <2>3. SetSlice(s, other) = Outcome(None, self, f[n])
    BY <1>1, <1>6, <1>11
  <2>4. Outcome(None, self, f[n]).v = self /\ Outcome(None, self, f[n]).mem = f[n]
    BY DEF Outcome
  <2>5. QED
    BY <2>2, <2>3, <2>4 DEF at, n
<1>12. QED
  BY <1>10, <1>11

\* a[seq] = other
LEMMA SeqAssigned ==
  ASSUME IInv, NEW k \in Nat, NEW seq \in [1 .. k -> Int], NEW other, View(other)
  PROVE  /\ (InRange(seq) /\ other.nbits = Len(seq)) =>
              /\ Assigned([j \in DOMAIN seq |-> Normalized(seq[j])], other, SetSeq(seq, other))
              /\ Untouched(SetSeq(seq, other).mem)
              /\ SetSeq(seq, other) = Outcome(None, self, SetSeq(seq, other).mem)
         /\ SetSeq(seq, other).v = self /\ SetSeq(seq, other).mem \in Memory
<1> DEFINE n == Len(seq)
           src == Source(self, other, mem)
           at == [j \in DOMAIN seq |-> Normalized(seq[j])]
           SeqLoop(g) ==
             [j \in 0 .. n |->
                IF j = 0 THEN mem
                ELSE setbit(self, g[j - 1], Normalized(seq[j]), getbit(src, g[j - 1], j - 1))]
           f == CHOOSE g : g = SeqLoop(g)
<1>1. SetSeq(seq, other) =
        CASE ~InRange(seq) -> Refused("IndexError")
          [] InRange(seq) /\ other.nbits # n -> Refused("ValueError")
          [] InRange(seq) /\ other.nbits = n -> Outcome(None, self, f[n])
  BY DEF SetSeq
<1>2. n = k /\ DOMAIN seq = 1 .. n /\ n \in Nat /\ mem \in Memory
  BY LenProperties DEF IInv
<1>3. \A e : Refused(e).v = self /\ Refused(e).mem = mem
  BY DEF Refused, Outcome
<1>4. ASSUME NEW g PROVE SeqLoop(g) = IndexLoop(g, at, n, src)
  <2>1. \A j \in 0 .. n : j # 0 => at[j] = Normalized(seq[j])
    BY <1>2
  <2> HIDE DEF at
  <2>2. QED
    BY <2>1 DEF IndexLoop
<1>5. View(src)
  BY SourceSteady
<1>6. DOMAIN at = 1 .. n /\ (InRange(seq) => \A j \in 1 .. n : at[j] \in 0 .. (self.nbits - 1))
  BY <1>2 DEF InRange
<1> HIDE DEF n, src, at, SeqLoop
<1>7. \E g : g = SeqLoop(g)
  <2>1. PICK g : g = IndexLoop(g, at, n, src)
    BY <1>2, <1>5, IndexLoopExists
  <2>2. QED
    BY <1>4, <2>1
<1>8. f = SeqLoop(f)
  BY <1>7
<1> HIDE DEF f
<1>9. CASE ~InRange(seq)
  BY <1>1, <1>2, <1>3, <1>9
<1>10. CASE InRange(seq) /\ other.nbits # n
  BY <1>1, <1>2, <1>3, <1>10 DEF n
<1>11. CASE InRange(seq) /\ other.nbits = n
  <2>1. f = IndexLoop(f, at, n, Source(self, other, mem))
    BY <1>4, <1>8 DEF src
  <2>2. Assigned(at, other, Outcome(None, self, f[n])) /\ f[n] \in Memory /\ Untouched(f[n])
    BY <1>2, <1>6, <1>11, <2>1, IndexAssigned
  <2>3. SetSeq(seq, other) = Outcome(None, self, f[n])
    BY <1>1, <1>11
  <2>4. Outcome(None, self, f[n]).v = self /\ Outcome(None, self, f[n]).mem = f[n]
    BY DEF Outcome
  <2>5. QED
    BY <2>2, <2>3, <2>4 DEF at
<1>12. QED
  BY <1>9, <1>10, <1>11

\* Two memories with the same elements, the rest of which is untouched, are the
\* same.
LEMMA SameMemory ==
  ASSUME IInv, NEW f \in Memory, Untouched(f), NEW g \in Memory, Untouched(g),
         \A i \in 0 .. (self.nbits - 1) : getbit(self, f, i) = getbit(self, g, i)
  PROVE  f = g
<1>1. /\ Inside(self) /\ self.off \in Nat /\ self.nbits \in Nat
      /\ \A m, i : getbit(self, m, i) = IF i >= self.nbits THEN 0 ELSE m[self.off + i]
  <2>1. Inside(self)
    BY DEF IInv
  <2>2. QED
    BY <2>1, InsideCells
<1>2. ASSUME NEW c \in 0 .. (Bits - 1) PROVE f[c] = g[c]
  <2>1. CASE c \in self.off .. (self.off + self.nbits - 1)
    <3> DEFINE i == c - self.off
    <3>1. i \in 0 .. (self.nbits - 1) /\ ~ (i >= self.nbits) /\ self.off + i = c
      BY <1>1, <2>1
    <3> HIDE DEF i
    <3>2. getbit(self, f, i) = f[c] /\ getbit(self, g, i) = g[c]
      BY <1>1, <3>1
    <3>3. QED
      BY <3>1, <3>2
  <2>2. CASE c \notin self.off .. (self.off + self.nbits - 1)
    BY <2>2 DEF Untouched
  <2>3. QED
    BY <2>1, <2>2
<1>3. f = [c \in 0 .. (Bits - 1) |-> f[c]] /\ g = [c \in 0 .. (Bits - 1) |-> g[c]]
  BY DEF Memory
<1>4. QED
  BY <1>2, <1>3

\* What SetSeqBool() leaves: the bit where an index points, the rest as it was.
Filled(P, vi) == [c \in 0 .. (Bits - 1) |-> IF c - self.off \in P THEN vi ELSE mem[c]]

\* It is a memory, in which nothing outside self has changed.
LEMMA FilledCells ==
  ASSUME IInv, NEW P \in SUBSET (0 .. (self.nbits - 1)), NEW vi \in Bit
  PROVE  /\ Filled(P, vi) \in Memory /\ Untouched(Filled(P, vi))
         /\ \A i \in 0 .. (self.nbits - 1) :
              getbit(self, Filled(P, vi), i) = IF i \in P THEN vi ELSE getbit(self, mem, i)
<1> DEFINE g == Filled(P, vi)
<1>1. /\ Inside(self) /\ mem \in Memory
      /\ self.off \in Nat /\ self.nbits \in Nat
      /\ \A i \in 0 .. (self.nbits - 1) : self.off + i \in 0 .. (Bits - 1)
      /\ \A m, i : getbit(self, m, i) = IF i >= self.nbits THEN 0 ELSE m[self.off + i]
  <2>1. Inside(self) /\ mem \in Memory
    BY DEF IInv
  <2>2. QED
    BY <2>1, InsideCells
<1>2. \A c \in 0 .. (Bits - 1) : g[c] = IF c - self.off \in P THEN vi ELSE mem[c]
  BY DEF Filled
<1>3. g \in Memory
  BY <1>1 DEF Filled, Memory
<1> HIDE DEF g
<1>4. Untouched(g)
  <2>1. ASSUME NEW c \in 0 .. (Bits - 1), c \notin self.off .. (self.off + self.nbits - 1)
        PROVE  g[c] = mem[c]
    <3>1. c - self.off \notin 0 .. (self.nbits - 1)
      BY <1>1, <2>1
    <3>2. QED
      BY <1>2, <3>1
  <2>2. QED
    BY <2>1 DEF Untouched
<1>5. ASSUME NEW i \in 0 .. (self.nbits - 1)
      PROVE  getbit(self, g, i) = IF i \in P THEN vi ELSE getbit(self, mem, i)
  <2> DEFINE c == self.off + i
  <2>1. c \in 0 .. (Bits - 1) /\ c - self.off = i /\ ~ (i >= self.nbits)
    BY <1>1
  <2> HIDE DEF c
  <2>2. g[c] = IF i \in P THEN vi ELSE mem[c]
    BY <1>2, <2>1
  <2>3. getbit(self, g, i) = g[c] /\ getbit(self, mem, i) = mem[c]
    BY <1>1, <2>1 DEF c
  <2>4. QED
    BY <2>2, <2>3
<1>6. QED
  BY <1>3, <1>4, <1>5 DEF g

\* a[seq] = vi is a[seq] = b for an array b that holds vi throughout.
LEMMA SeqBitAssigned ==
  ASSUME IInv, NEW k \in Nat, NEW seq \in [1 .. k -> Int], InRange(seq), NEW vi \in Bit
  PROVE  SetSeqBool(seq, vi) = SetSeq(seq, Own([j \in 0 .. (Len(seq) - 1) |-> vi], Len(seq)))
<1> DEFINE n == Len(seq)
           h == [j \in 0 .. (n - 1) |-> vi]
           other == Own(h, n)
           at == [j \in DOMAIN seq |-> Normalized(seq[j])]
           P == {Normalized(seq[j]) : j \in DOMAIN seq}
           r == SetSeq(seq, other)
<1>1. n = k /\ DOMAIN seq = 1 .. n /\ n \in Nat
  BY LenProperties
<1>2. /\ DOMAIN at = 1 .. n /\ P \in SUBSET (0 .. (self.nbits - 1))
      /\ \A i : i \in P <=> \E j \in DOMAIN at : at[j] = i
  BY <1>1 DEF InRange
<1>3. h \in [0 .. (n - 1) -> Bit] /\ \A i \in 0 .. (n - 1) : h[i] = vi
  OBVIOUS
<1>4. SetSeqBool(seq, vi) = Outcome(None, self, Filled(P, vi))
  BY DEF SetSeqBool, Filled
<1> HIDE DEF n, h, at, P
<1>5. Apart(other) /\ other.nbits = n /\ \A m, i : getbit(other, m, i) = IF i >= n THEN 0 ELSE h[i]
  <2>1. n \in Nat /\ h \in [0 .. (n - 1) -> Bit]
    BY <1>1, <1>3
  <2>2. Apart(Own(h, n)) /\ Own(h, n).nbits = n
    BY <2>1, OwnApart
  <2>3. \A m, i : getbit(Own(h, n), m, i) = IF i >= n THEN 0 ELSE h[i]
    BY DEF Own, getbit
  <2>4. QED
    BY <2>2, <2>3
<1> HIDE DEF other
<1>6. View(other)
  BY <1>5 DEF View
<1>7. /\ Assigned(at, other, r) /\ Untouched(r.mem) /\ r = Outcome(None, self, r.mem)
      /\ r.mem \in Memory
  <2>1. InRange(seq) /\ other.nbits = Len(seq)
    BY <1>5 DEF n
  <2>2. QED
    BY <1>6, <2>1, SeqAssigned DEF at
<1> HIDE DEF r
<1>8. /\ Filled(P, vi) \in Memory /\ Untouched(Filled(P, vi))
      /\ \A i \in 0 .. (self.nbits - 1) :
           getbit(self, Filled(P, vi), i) = IF i \in P THEN vi ELSE getbit(self, mem, i)
  BY <1>2, FilledCells
<1>9. ASSUME NEW i \in 0 .. (self.nbits - 1)
      PROVE  getbit(self, r.mem, i) = getbit(self, Filled(P, vi), i)
  <2> DEFINE N == {j \in DOMAIN at : at[j] = i}
             M == Max(N)
  <2>1. getbit(self, r.mem, i) =
          IF \E j \in DOMAIN at : at[j] = i THEN getbit(other, mem, M - 1)
                                            ELSE getbit(self, mem, i)
    BY <1>7 DEF Assigned
  <2>2. CASE i \notin P
    BY <1>2, <1>8, <2>1, <2>2
  <2>3. CASE i \in P
    <3>1. N # {} /\ N \in SUBSET (1 .. n) /\ 1 \in Int /\ n \in Int
      BY <1>1, <1>2, <2>3
    <3> HIDE DEF N
    <3>2. M \in N
      BY <3>1, Maximum
    <3> HIDE DEF M
    <3>3. M - 1 \in 0 .. (n - 1) /\ ~ (M - 1 >= n)
      BY <1>1, <3>1, <3>2
    <3>4. getbit(other, mem, M - 1) = vi
      BY <1>3, <1>5, <3>3
    <3>5. QED
      BY <1>2, <1>8, <2>1, <2>3, <3>4
  <2>4. QED
    BY <2>2, <2>3
<1>10. r.mem = Filled(P, vi)
  <2> DEFINE f == r.mem
             g == Filled(P, vi)
  <2>1. /\ f \in Memory /\ Untouched(f) /\ g \in Memory /\ Untouched(g)
        /\ \A i \in 0 .. (self.nbits - 1) : getbit(self, f, i) = getbit(self, g, i)
    BY <1>7, <1>8, <1>9
  <2> HIDE DEF f, g
  <2>2. f = g
    BY <2>1, SameMemory
  <2>3. QED
    BY <2>2 DEF f, g
<1>11. SetSeqBool(seq, vi) = r
  BY <1>4, <1>7, <1>10
<1>12. QED
  BY <1>11 DEF r, other, h, n

\* The sequences of indices that the calls are given.
LEMMA SequencesTyped ==
  ASSUME self.nbits \in Nat, NEW seq \in Sequences
  PROVE  \E k \in Nat : seq \in [1 .. k -> Int] /\ Len(seq) = k
<1>1. PICK k \in 0 .. MaxIndices : seq \in [1 .. k -> Indices]
  BY DEF Sequences
<1>2. Indices \subseteq Int
  BY DEF Indices
<1>3. seq \in [1 .. k -> Int] /\ k \in Nat
  <2>1. k \in Nat
    BY SubscriptsAssumption
  <2> DEFINE D == 1 .. k
  <2>2. seq \in [D -> Indices]
    BY <1>1
  <2> HIDE DEF D
  <2>3. seq \in [D -> Int]
    BY <1>2, <2>2
  <2>4. QED
    BY <2>1, <2>3 DEF D
<1>4. Len(seq) = k
  BY <1>3, LenProperties
<1>5. QED
  BY <1>3, <1>4

\* a[s] = b and a[seq] = b read b as it was before.
LEMMA SourcesRead ==
  ASSUME NoOverflow, IInv
  PROVE  SourcesReadFirst
<1>1. self.nbits \in Nat
  BY DEF IInv, Inside
<1>2. ASSUME NEW s \in Slices, NEW other \in Others(s.length)
      PROVE  Assigned([j \in 1 .. s.length |-> SliceElement(s, j - 1)], other, SetSlice(s, other))
  <2>1. s.length \in Nat
    BY <1>1, SlicesRegular
  <2>2. View(other) /\ other.nbits = s.length
    BY <2>1, OthersViews
  <2>3. QED
    BY <2>2, SliceAssigned
<1>3. ASSUME NEW seq \in Sequences, InRange(seq)
      PROVE  /\ \A other \in Others(Len(seq)) :
                  Assigned([j \in DOMAIN seq |-> Normalized(seq[j])], other, SetSeq(seq, other))
             /\ \A vi \in {0, 1} :
                  SetSeqBool(seq, vi) =
                    SetSeq(seq, Own([j \in 0 .. (Len(seq) - 1) |-> vi], Len(seq)))
  <2>1. PICK k \in Nat : seq \in [1 .. k -> Int] /\ Len(seq) = k
    BY <1>1, SequencesTyped
  <2>2. ASSUME NEW other \in Others(Len(seq))
        PROVE  Assigned([j \in DOMAIN seq |-> Normalized(seq[j])], other, SetSeq(seq, other))
    <3>1. View(other) /\ other.nbits = Len(seq)
      BY <2>1, OthersViews
    <3>2. QED
      BY <1>3, <2>1, <3>1, SeqAssigned
  <2>3. ASSUME NEW vi \in {0, 1}
        PROVE  SetSeqBool(seq, vi) =
                 SetSeq(seq, Own([j \in 0 .. (Len(seq) - 1) |-> vi], Len(seq)))
    <3>1. vi \in Bit
      BY DEF Bit
    <3>2. QED
      BY <1>3, <2>1, <3>1, SeqBitAssigned
  <2>4. QED
    BY <2>2, <2>3
<1>4. QED
  BY <1>2, <1>3 DEF SourcesReadFirst

-------------------------------------------------------------------------------
(***************************************************************************)
(* a[mask] = other.                                                        *)
(***************************************************************************)
\* The loop of setmask_pauliebits_lock_held().
SetLoop(f, mask, src) ==
  [i \in 0 .. mask.nbits |->
     IF i = 0 THEN [m |-> mem, j |-> 0]
     ELSE IF getbit(mask, f[i - 1].m, i - 1) = 0 THEN f[i - 1]
     ELSE [m |-> setbit(self, f[i - 1].m, i - 1, getbit(src, f[i - 1].m, f[i - 1].j)),
           j |-> f[i - 1].j + 1]]

\* It leaves something: a memory, and a number of bits read.
LEMMA SetLoopExists ==
  ASSUME IInv, NEW mask, mask.nbits \in Nat, NEW src, View(src)
  PROVE  \E f \in [0 .. mask.nbits -> [m : Memory, j : Nat]] : f = SetLoop(f, mask, src)
<1> DEFINE n == mask.nbits
           V == [m : Memory, j : Nat]
           a == [m |-> mem, j |-> 0]
           Turn(i, p) ==
             IF getbit(mask, p.m, i - 1) = 0 THEN p
             ELSE [m |-> setbit(self, p.m, i - 1, getbit(src, p.m, p.j)), j |-> p.j + 1]
           step == [z \in (1 .. n) \X V |-> Turn(z[1], z[2])]
<1>1. n \in Nat
  OBVIOUS
<1>2. a \in V
  BY DEF IInv
<1>3. ASSUME NEW i \in 1 .. n, NEW p \in V PROVE Turn(i, p) \in V
  <2>1. p.m \in Memory /\ p.j \in Nat
    OBVIOUS
  <2>2. getbit(src, p.m, p.j) \in Bit
    BY <2>1, GetbitType
  <2>3. setbit(self, p.m, i - 1, getbit(src, p.m, p.j)) \in Memory
    BY <2>1, <2>2, SetbitType
  <2>4. QED
    BY <2>1, <2>3
<1> HIDE DEF V, a, Turn
<1>4. step \in [(1 .. n) \X V -> V]
  BY <1>3
<1>5. \A i \in 1 .. n, p \in V : step[<<i, p>>] = Turn(i, p)
  OBVIOUS
<1> HIDE DEF step
<1>6. PICK f \in [0 .. n -> V] : Turns(f, n, a, step)
  BY <1>1, <1>2, <1>4, LoopExists
<1>7. ASSUME NEW i \in 0 .. n PROVE f[i] = SetLoop(f, mask, src)[i]
  <2>1. CASE i = 0
    BY <1>6, <2>1 DEF Turns, SetLoop, a
  <2>2. CASE i # 0
    <3>1. i \in 1 .. n /\ i - 1 \in 0 .. n
      BY <1>1, <2>2
    <3>2. f[i] = Turn(i, f[i - 1])
      BY <1>5, <1>6, <3>1 DEF Turns
    <3>3. QED
      BY <2>2, <3>2 DEF SetLoop, Turn
  <2>3. QED
    BY <2>1, <2>2
<1>8. /\ SetLoop(f, mask, src) = [i \in 0 .. n |-> SetLoop(f, mask, src)[i]]
      /\ f = [i \in 0 .. n |-> f[i]]
  BY <1>6 DEF SetLoop
<1>9. [i \in 0 .. n |-> SetLoop(f, mask, src)[i]] = [i \in 0 .. n |-> f[i]]
  BY <1>7
<1>10. f = SetLoop(f, mask, src)
  BY <1>8, <1>9
<1>11. QED
  BY <1>10 DEF V

\* Which loop that is does not matter.
LEMMA SetLoopUnique ==
  ASSUME NEW mask, mask.nbits \in Nat, NEW src,
         NEW f, f = SetLoop(f, mask, src), NEW g, g = SetLoop(g, mask, src)
  PROVE  f = g
<1> DEFINE n == mask.nbits
           S == {i \in 0 .. n : f[i] = g[i]}
<1>1. /\ f = [i \in 0 .. n |-> f[i]] /\ g = [i \in 0 .. n |-> g[i]]
      /\ \A i \in 0 .. n :
           /\ f[i] = IF i = 0 THEN [m |-> mem, j |-> 0]
                     ELSE IF getbit(mask, f[i - 1].m, i - 1) = 0 THEN f[i - 1]
                     ELSE [m |-> setbit(self, f[i - 1].m, i - 1,
                                        getbit(src, f[i - 1].m, f[i - 1].j)),
                           j |-> f[i - 1].j + 1]
           /\ g[i] = IF i = 0 THEN [m |-> mem, j |-> 0]
                     ELSE IF getbit(mask, g[i - 1].m, i - 1) = 0 THEN g[i - 1]
                     ELSE [m |-> setbit(self, g[i - 1].m, i - 1,
                                        getbit(src, g[i - 1].m, g[i - 1].j)),
                           j |-> g[i - 1].j + 1]
  BY DEF SetLoop
<1>2. n \in Nat
  OBVIOUS
<1> HIDE DEF n
<1>3. 0 \in S
  <2>1. 0 \in 0 .. n
    BY <1>2
  <2>2. f[0] = [m |-> mem, j |-> 0] /\ g[0] = [m |-> mem, j |-> 0]
    BY <1>1, <2>1
  <2>3. QED
    BY <2>1, <2>2
<1>4. ASSUME NEW i \in 0 .. (n - 1), i \in S PROVE i + 1 \in S
  <2> DEFINE k == i + 1
  <2>1. k \in 0 .. n /\ k # 0 /\ k - 1 = i
    BY <1>2
  <2>2. f[i] = g[i]
    BY <1>4
  <2> HIDE DEF k
  <2>3. f[k] = g[k]
    BY <1>1, <2>1, <2>2
  <2>4. QED
    BY <2>1, <2>3 DEF k
<1> HIDE DEF S
<1>5. 0 .. n \subseteq S
  <2>1. 0 \in Int /\ n \in Int
    BY <1>2
  <2>2. QED
    BY <2>1, <1>3, <1>4, RangeInduction
<1>6. \A i \in 0 .. n : f[i] = g[i]
  BY <1>5 DEF S
<1>7. QED
  BY <1>1, <1>6

\* So it leaves a memory.
LEMMA MaskLoopType ==
  ASSUME IInv, NEW mask, mask.nbits \in Nat, NEW src, View(src)
  PROVE  /\ MaskLoop(mask, src).m \in Memory
         /\ \E f : f = SetLoop(f, mask, src) /\ MaskLoop(mask, src) = f[mask.nbits]
<1> DEFINE f == CHOOSE g : g = SetLoop(g, mask, src)
           n == mask.nbits
<1>1. MaskLoop(mask, src) = f[n]
  BY DEF MaskLoop, SetLoop
<1>2. PICK g \in [0 .. mask.nbits -> [m : Memory, j : Nat]] : g = SetLoop(g, mask, src)
  BY SetLoopExists
<1>3. f = SetLoop(f, mask, src)
  BY <1>2
<1> HIDE DEF f
<1>4. f = g
  BY <1>2, <1>3, SetLoopUnique
<1>5. g[n].m \in Memory
  <2>1. n \in 0 .. n /\ g \in [0 .. n -> [m : Memory, j : Nat]]
    BY <1>2
  <2> HIDE DEF n
  <2>2. g[n] \in [m : Memory, j : Nat]
    BY <2>1
  <2>3. QED
    BY <2>2
<1>6. QED
  BY <1>1, <1>3, <1>4, <1>5 DEF n

\* What the elements hold after i turns, if what is read does not change.
Masked(m, K, src, i) ==
  \A q \in 0 .. (self.nbits - 1) :
    m[self.off + q] = IF q < i /\ q \in K THEN getbit(src, mem, Rank(K, q)) ELSE mem[self.off + q]

\* The loop writes each element that is selected, from the next bit of the source.
LEMMA SetLoopWrites ==
  ASSUME IInv, NEW mask, IsMask(mask), NEW src, Apart(src),
         NEW f, f = SetLoop(f, mask, src), NEW K, K = Ones(mask)
  PROVE  f[self.nbits].m \in Memory /\ Masked(f[self.nbits].m, K, src, self.nbits)
<1> DEFINE n == self.nbits
           S == {i \in 0 .. n : /\ f[i].m \in Memory /\ f[i].j = Rank(K, i)
                                /\ Masked(f[i].m, K, src, i)}
<1>1. n \in Nat /\ Inside(self) /\ mem \in Memory /\ mask.nbits = n
  BY MaskOnes DEF IInv
<1>2. K \in SUBSET (0 .. (n - 1))
  BY MaskOnes
<1>3. \A g, h, i : getbit(src, g, i) = getbit(src, h, i)
  BY ApartReads
<1>4. 0 \in S
  <2>1. f[0] = [m |-> mem, j |-> 0]
    <3>1. 0 \in 0 .. mask.nbits
      BY <1>1
    <3>2. QED
      BY <3>1 DEF SetLoop
  <2>2. Rank(K, 0) = 0
    BY <1>1, <1>2, RankStep
  <2>3. Masked(mem, K, src, 0)
    BY <1>1 DEF Masked
  <2>4. QED
    BY <1>1, <2>1, <2>2, <2>3
<1>5. ASSUME NEW i \in 0 .. (n - 1), i \in S PROVE i + 1 \in S
  <2> DEFINE p == f[i]
             m == p.m
  <2>1. i \in Nat /\ i < n /\ i + 1 \in 0 .. n
    BY <1>1
  <2>2. f[i + 1] = IF getbit(mask, m, i) = 0 THEN p
                   ELSE [m |-> setbit(self, m, i, getbit(src, m, p.j)), j |-> p.j + 1]
    <3> DEFINE k == i + 1
    <3>1. k \in 0 .. mask.nbits /\ k - 1 = i /\ k # 0
      BY <1>1, <2>1
    <3> HIDE DEF k
    <3>2. f[k] = SetLoop(f, mask, src)[k]
      OBVIOUS
    <3>3. f[k] = IF getbit(mask, f[k - 1].m, k - 1) = 0 THEN f[k - 1]
                 ELSE [m |-> setbit(self, f[k - 1].m, k - 1, getbit(src, f[k - 1].m, f[k - 1].j)),
                       j |-> f[k - 1].j + 1]
      BY <3>1, <3>2 DEF SetLoop
    <3>4. QED
      BY <3>1, <3>3 DEF k
  <2>3. m \in Memory /\ p.j = Rank(K, i) /\ Masked(m, K, src, i)
    BY <1>5
  <2> HIDE DEF m, p, S
  <2>4. getbit(mask, m, i) = getbit(mask, mem, i)
    <3>1. CASE Apart(mask)
      BY <3>1, ApartReads
    <3>2. CASE mask = self
      <4>1. /\ \A g, h : getbit(self, g, h) = IF h >= self.nbits THEN 0 ELSE g[self.off + h]
            /\ ~ (i >= self.nbits) /\ ~ (i < i)
        <5>1. \A g, h : getbit(self, g, h) = IF h >= self.nbits THEN 0 ELSE g[self.off + h]
          BY <1>1, InsideCells
        <5>2. ~ (i >= self.nbits) /\ ~ (i < i)
          BY <1>1, <2>1
        <5>3. QED
          BY <5>1, <5>2
      <4>2. m[self.off + i] = mem[self.off + i]
        BY <2>3, <4>1 DEF Masked
      <4>3. QED
        BY <3>2, <4>1, <4>2
    <3>3. QED
      BY <3>1, <3>2 DEF IsMask
  <2>5. getbit(mask, mem, i) \in {0, 1} /\ (getbit(mask, mem, i) = 1 <=> i \in K)
    BY MaskOnes
  <2>6. Rank(K, i + 1) = IF i \in K THEN Rank(K, i) + 1 ELSE Rank(K, i)
    <3>1. \A a \in Nat : Rank(K, a + 1) = IF a \in K THEN Rank(K, a) + 1 ELSE Rank(K, a)
      BY <1>1, <1>2, RankStep
    <3>2. QED
      BY <2>1, <3>1
  <2>7. Rank(K, i) \in Nat
    BY <1>1, <1>2, IndicesFinite
  <2>8. CASE i \notin K
    <3>1. f[i + 1] = p
      BY <2>2, <2>4, <2>5, <2>8
    <3>2. Masked(m, K, src, i + 1)
      <4>1. \A q \in 0 .. (self.nbits - 1) : (q < i + 1 /\ q \in K) <=> (q < i /\ q \in K)
        <5>1. \A q \in 0 .. (self.nbits - 1) : q < i + 1 <=> (q < i \/ q = i)
          BY <1>1, <2>1
        <5>2. ~ (i < i)
          BY <2>1
        <5>3. QED
          BY <2>8, <5>1, <5>2
      <4>2. QED
        BY <2>3, <4>1 DEF Masked
    <3>3. f[i + 1].m = m
      BY <3>1 DEF m
    <3>4. QED
      BY <2>1, <2>3, <2>6, <2>8, <3>1, <3>2, <3>3 DEF S
  <2>9. CASE i \in K
    <3> DEFINE b == getbit(src, m, p.j)
               g == setbit(self, m, i, b)
    <3>1. f[i + 1] = [m |-> g, j |-> p.j + 1]
      BY <2>2, <2>4, <2>5, <2>9
    <3>2. b = getbit(src, mem, Rank(K, i))
      BY <1>3, <2>3
    <3>3. b \in Bit
      BY <2>3, <2>7, GetbitType DEF View
    <3> HIDE DEF b
    <3>4. i \in 0 .. (self.nbits - 1)
      BY <1>1
    <3>5. /\ g \in Memory /\ g[self.off + i] = b
          /\ \A c \in 0 .. (Bits - 1) : c # self.off + i => g[c] = m[c]
      BY <1>1, <2>3, <3>3, <3>4, SetbitCells
    <3>6. f[i + 1].m = g /\ f[i + 1].j = Rank(K, i + 1)
      BY <2>3, <2>6, <2>9, <3>1
    <3> HIDE DEF g
    <3>7. Masked(g, K, src, i + 1)
      <4>1. SUFFICES ASSUME NEW q \in 0 .. (self.nbits - 1)
                     PROVE  g[self.off + q] =
                              IF q < i + 1 /\ q \in K THEN getbit(src, mem, Rank(K, q))
                                                      ELSE mem[self.off + q]
        BY DEF Masked
      <4>2. q < i + 1 <=> (q < i \/ q = i)
        BY <1>1, <2>1
      <4>3. CASE q = i
        BY <2>9, <3>2, <3>5, <4>2, <4>3
      <4>4. CASE q # i
        <5>1. self.off + q # self.off + i /\ self.off + q \in 0 .. (Bits - 1)
          <6>1. self.off + q \in 0 .. (Bits - 1)
            BY <1>1, InsideCells
          <6>2. q \in Int /\ i \in Int
            BY <1>1
          <6>3. QED
            BY <1>1, <4>4, <6>1, <6>2, DistinctCells
        <5>2. g[self.off + q] = m[self.off + q]
          BY <3>5, <5>1
        <5>3. m[self.off + q] = IF q < i /\ q \in K THEN getbit(src, mem, Rank(K, q))
                                                    ELSE mem[self.off + q]
          BY <2>3 DEF Masked
        <5>4. QED
          BY <4>2, <4>4, <5>2, <5>3
      <4>5. QED
        BY <4>3, <4>4
    <3>8. QED
      BY <2>1, <3>5, <3>6, <3>7 DEF S
  <2>10. QED
    BY <2>8, <2>9
<1> HIDE DEF S
<1>6. 0 .. n \subseteq S
  <2> HIDE DEF n
  <2>1. 0 \in Int /\ n \in Int
    BY <1>1
  <2>2. QED
    BY <2>1, <1>4, <1>5, RangeInduction
<1>7. n \in S
  BY <1>1, <1>6
<1>8. QED
  BY <1>7 DEF S

\* Element i of self is what bit Rank(K, i) of other was.
LEMMA MaskedAssigned ==
  ASSUME IInv, NEW mask, IsMask(mask), NEW K, K = Ones(mask),
         NEW other, View(other), other.nbits = Cardinality(K), NEW src,
         \A i \in 0 .. (other.nbits - 1) : getbit(src, mem, i) = getbit(other, mem, i),
         NEW m, Masked(m, K, src, self.nbits), NEW r, r.mem = m
  PROVE  Assigned(Ascending(K), other, r)
<1> DEFINE n == self.nbits
           at == Ascending(K)
<1>1. n \in Nat /\ Inside(self) /\ K \in SUBSET (0 .. (n - 1)) /\ Cardinality(K) \in Nat
  <2>1. n \in Nat /\ K \in SUBSET (0 .. (n - 1))
    BY MaskOnes
  <2>2. QED
    BY <2>1, IndicesFinite DEF IInv
<1>2. /\ DOMAIN at = 1 .. Cardinality(K)
      /\ \A k \in 1 .. Cardinality(K) : at[k] \in K /\ Rank(K, at[k]) = k - 1
      /\ \A x \in K : Rank(K, x) + 1 \in 1 .. Cardinality(K) /\ at[Rank(K, x) + 1] = x
  BY <1>1, AscendingRank
<1> HIDE DEF at
<1>3. ASSUME NEW i \in 0 .. (n - 1)
      PROVE  getbit(self, m, i) =
               IF \E j \in DOMAIN at : at[j] = i
               THEN getbit(other, mem, Max({j \in DOMAIN at : at[j] = i}) - 1)
               ELSE getbit(self, mem, i)
  <2> DEFINE N == {j \in DOMAIN at : at[j] = i}
             M == Max(N)
  <2>1. getbit(self, m, i) = m[self.off + i] /\ getbit(self, mem, i) = mem[self.off + i] /\ i < n
    <3>1. ~ (i >= self.nbits) /\ i < n
      BY <1>1
    <3>2. QED
      BY <1>1, <3>1, InsideCells
  <2>2. m[self.off + i] = IF i \in K THEN getbit(src, mem, Rank(K, i)) ELSE mem[self.off + i]
    BY <2>1 DEF Masked
  <2>3. CASE i \notin K
    <3>1. ~ \E j \in DOMAIN at : at[j] = i
      BY <1>2, <2>3
    <3>2. QED
      BY <2>1, <2>2, <2>3, <3>1
  <2>4. CASE i \in K
    <3> DEFINE k == Rank(K, i)
    <3>1. k + 1 \in N /\ N # {} /\ k \in 0 .. (Cardinality(K) - 1)
      BY <1>1, <1>2, <2>4, RankOnto
    <3>2. N \in SUBSET (1 .. Cardinality(K)) /\ 1 \in Int /\ Cardinality(K) \in Int
      BY <1>1, <1>2
    <3>3. \A j \in N : j - 1 = k
      BY <1>2
    <3> HIDE DEF N
    <3>4. M \in N
      BY <3>1, <3>2, Maximum
    <3>5. M - 1 = k
      BY <3>3, <3>4
    <3> HIDE DEF M, k
    <3>6. getbit(src, mem, k) = getbit(other, mem, k)
      BY <3>1
    <3>7. \E j \in DOMAIN at : at[j] = i
      BY <3>1 DEF N
    <3>8. Max({j \in DOMAIN at : at[j] = i}) - 1 = k
      BY <3>5 DEF M, N
    <3>9. getbit(self, m, i) = getbit(other, mem, k)
      BY <2>1, <2>2, <2>4, <3>6 DEF k
    <3>10. QED
      BY <3>7, <3>8, <3>9
  <2>5. QED
    BY <2>3, <2>4
<1>4. QED
  BY <1>3 DEF Assigned, at

\* What a[mask] = other reads from is an array.
LEMMA MaskSourceView ==
  ASSUME IInv, NEW other, View(other)
  PROVE  /\ View(MaskSource(other)) /\ MaskSource(other).nbits = other.nbits
         /\ GilDisabled =>
              /\ Apart(MaskSource(other))
              /\ \A i \in 0 .. (other.nbits - 1) :
                   getbit(MaskSource(other), mem, i) = getbit(other, mem, i)
<1>1. /\ Apart(Copy(other, mem)) /\ Copy(other, mem).nbits = other.nbits
      /\ \A i \in 0 .. (other.nbits - 1) : getbit(Copy(other, mem), mem, i) = getbit(other, mem, i)
  <2>1. mem \in Memory
    BY DEF IInv
  <2>2. QED
    BY <2>1, CopyApart
<1>2. CASE GilDisabled
  <2>1. MaskSource(other) = Copy(other, mem)
    BY <1>2 DEF MaskSource
  <2>2. QED
    BY <1>1, <2>1 DEF View
<1>3. CASE ~ GilDisabled
  <2>1. MaskSource(other) = other
    BY <1>3 DEF MaskSource
  <2>2. QED
    BY <1>3, <2>1
<1>4. QED
  BY <1>2, <1>3

\* SetMask() keeps the memory a memory.
LEMMA SetMaskType ==
  ASSUME IInv, NEW mask, IsMask(mask), NEW other, View(other)
  PROVE  SetMask(mask, other).v = self /\ SetMask(mask, other).mem \in Memory
<1> DEFINE src == MaskSource(other)
           q == mask.nbits # self.nbits \/ Cardinality(Ones(mask)) # src.nbits
           m == MaskLoop(mask, src).m
<1>1. View(src) /\ mask.nbits \in Nat /\ mem \in Memory
  BY MaskSourceView, MaskOnes DEF IInv
<1>2. SetMask(mask, other) = IF q THEN Refused("IndexError") ELSE Outcome(None, self, m)
  BY DEF SetMask
<1> HIDE DEF src, q
<1>3. m \in Memory
  BY <1>1, MaskLoopType
<1> HIDE DEF m
<1>4. /\ Refused("IndexError").v = self /\ Refused("IndexError").mem = mem
      /\ Outcome(None, self, m).v = self /\ Outcome(None, self, m).mem = m
  BY DEF Refused, Outcome
<1>5. QED
  BY <1>1, <1>2, <1>3, <1>4

\* a[mask] = b does what a[list(mask.search(1))] = b does, in the build that copies.
LEMMA MasksAssign ==
  ASSUME GilDisabled, IInv
  PROVE  MaskLikeSequence
<1>1. ASSUME NEW mask \in OwnMasks \union {self}, NEW other \in Others(Cardinality(Ones(mask)))
      PROVE  Assigned(Ascending(Ones(mask)), other, SetMask(mask, other))
  <2> DEFINE src == MaskSource(other)
             K == Ones(mask)
             r == SetMask(mask, other)
  <2>1. IsMask(mask)
    BY MaskKinds
  <2>2. /\ mask.nbits = self.nbits /\ self.nbits \in Nat
        /\ K \in SUBSET (0 .. (self.nbits - 1))
    BY <2>1, MaskOnes
  <2>3. Cardinality(K) \in Nat
    BY <2>2, IndicesFinite
  <2>4. View(other) /\ other.nbits = Cardinality(K)
    BY <2>3, OthersViews
  <2>5. /\ View(src) /\ src.nbits = Cardinality(K) /\ Apart(src)
        /\ \A i \in 0 .. (other.nbits - 1) : getbit(src, mem, i) = getbit(other, mem, i)
    BY <2>4, MaskSourceView
  <2>6. r = Outcome(None, self, MaskLoop(mask, src).m)
    BY <2>2, <2>5 DEF SetMask
  <2> HIDE DEF src, K, r
  <2>7. PICK f : f = SetLoop(f, mask, src) /\ MaskLoop(mask, src) = f[mask.nbits]
    BY <2>2, <2>5, MaskLoopType
  <2>8. Masked(f[self.nbits].m, K, src, self.nbits)
    BY <2>1, <2>5, <2>7, SetLoopWrites DEF K
  <2> DEFINE m == f[self.nbits].m
  <2>9. r.mem = m
    BY <2>2, <2>6, <2>7 DEF Outcome
  <2> HIDE DEF m
  <2>10. Assigned(Ascending(K), other, r)
    BY <2>1, <2>4, <2>5, <2>8, <2>9, MaskedAssigned DEF K, m
  <2>11. QED
    BY <2>10 DEF K, r
<1>2. QED
  BY <1>1 DEF MaskLikeSequence

-------------------------------------------------------------------------------
(***************************************************************************)
(* The invariant: self is an array in the exported buffer.                 *)
(***************************************************************************)
\* An array that is imported lies in the buffer.
LEMMA ImportersInside ==
  ASSUME NEW v \in Importers, Within(v)
  PROVE  Inside(v)
<1>1. PICK p \in 0 .. (Bits \div ByteBits - 1), k \in 0 .. (Bits \div ByteBits) :
        v = Shared(ByteBits * p, ByteBits * k, TRUE)
  BY DEF Importers, Shared
<1>2. ByteBits \in Nat /\ p \in Nat /\ k \in Nat
  BY SubscriptsAssumption
<1> DEFINE a == ByteBits * p
           b == ByteBits * k
<1>3. a \in Nat /\ b \in Nat /\ v = Shared(a, b, TRUE)
  BY <1>1, <1>2
<1> HIDE DEF a, b
<1>4. v.off = a /\ v.nbits = b /\ v.pinned = TRUE
  BY <1>3 DEF Shared
<1>5. QED
  BY <1>3, <1>4 DEF Inside

\* It holds at the start.
LEMMA InitInvariant ==
  ASSUME Init
  PROVE  IInv
<1>1. Bits \in Nat /\ mem \in Memory /\ calls \in Nat
  BY SubscriptsAssumption DEF Init, Memory, Bit
<1>2. ASSUME NEW n \in 0 .. Bits, NEW b \in BOOLEAN, self = Shared(0, n, b) PROVE Inside(self)
  <2>1. self.off = 0 /\ self.nbits = n /\ self.pinned = b
    BY <1>2 DEF Shared
  <2>2. self = Shared(self.off, self.nbits, self.pinned)
    BY <1>2, <2>1
  <2>3. self.off \in Nat /\ self.nbits \in Nat /\ self.pinned \in BOOLEAN
    BY <1>1, <2>1
  <2>4. Within(self)
    BY <1>1, <2>1 DEF Within
  <2>5. QED
    BY <2>2, <2>3, <2>4 DEF Inside
<1>3. \/ \E n \in 0 .. Bits : self = Shared(0, n, FALSE)
      \/ \E n \in {n \in 0 .. Bits : n > Bits - ByteBits} : self = Shared(0, n, TRUE)
      \/ self \in Importers /\ Within(self)
  BY DEF Init, Shared
<1>4. CASE \E n \in 0 .. Bits : self = Shared(0, n, FALSE)
  BY <1>1, <1>2, <1>4 DEF IInv
<1>5. CASE \E n \in {n \in 0 .. Bits : n > Bits - ByteBits} : self = Shared(0, n, TRUE)
  BY <1>1, <1>2, <1>5 DEF IInv
<1>6. CASE self \in Importers /\ Within(self)
  BY <1>1, <1>6, ImportersInside DEF IInv
<1>7. QED
  BY <1>3, <1>4, <1>5, <1>6

\* A call that leaves an array in the buffer, and a memory, keeps it.
LEMMA ReturnInvariant ==
  ASSUME IInv, NEW r, Return(r), Inside(r.v), r.mem \in Memory
  PROVE  IInv'
<1>1. self' = r.v /\ mem' = r.mem /\ calls' \in Nat
  BY DEF Return, IInv
<1>2. Inside(self')
  BY <1>1
<1>3. QED
  BY <1>1, <1>2 DEF IInv, Inside, Shared, Within, Memory, Bit

\* What is refused changes nothing.
LEMMA RefusedSame ==
  ASSUME IInv, NEW e
  PROVE  Refused(e).v = self /\ Refused(e).mem = mem /\ Inside(Refused(e).v) /\ Refused(e).mem \in Memory
<1>1. Refused(e).v = self /\ Refused(e).mem = mem
  BY DEF Refused, Outcome
<1>2. QED
  BY <1>1 DEF IInv

\* Assigning a bit.
LEMMA AssignBitInvariant ==
  ASSUME NoOverflow, IInv, AssignBit
  PROVE  IInv'
<1>1. Inside(self) /\ mem \in Memory /\ self.nbits \in Nat
  BY DEF IInv, Inside
<1>2. self.nbits \in 0 .. Bits
  <2>1. self.nbits \in Nat /\ self.nbits <= Bits /\ Bits \in Nat
    BY <1>1, InsideCells
  <2>2. QED
    BY <2>1
<1>3. ASSUME NEW vi \in {0, 1}, NEW s \in Slices, Return(SetSliceBool(s, vi)) PROVE IInv'
  <2> DEFINE P == Visited(AdjustStepPositive(s))
             r == SetSliceBool(s, vi)
  <2>1. P \in SUBSET (0 .. (self.nbits - 1))
    BY <1>2, SliceVisited
  <2>2. r = Outcome(None, self, Filled(P, vi))
    BY DEF SetSliceBool, Filled
  <2> HIDE DEF P
  <2>3. Filled(P, vi) \in Memory
    BY <2>1, FilledCells DEF Bit
  <2>4. r.v = self /\ r.mem = Filled(P, vi)
    BY <2>2 DEF Outcome
  <2> HIDE DEF r
  <2>5. Return(r)
    BY <1>3 DEF r
  <2>6. QED
    BY <1>1, <2>3, <2>4, <2>5, ReturnInvariant
<1>4. ASSUME NEW vi \in {0, 1}, NEW seq \in Sequences, Return(SetSeqBool(seq, vi)) PROVE IInv'
  <2> DEFINE P == {Normalized(seq[j]) : j \in DOMAIN seq}
             r == SetSeqBool(seq, vi)
  <2>1. r = IF ~InRange(seq) THEN Refused("IndexError") ELSE Outcome(None, self, Filled(P, vi))
    BY DEF SetSeqBool, Filled
  <2>2. InRange(seq) => P \in SUBSET (0 .. (self.nbits - 1))
    BY DEF InRange
  <2> HIDE DEF P
  <2>3. InRange(seq) => Filled(P, vi) \in Memory
    BY <2>2, FilledCells DEF Bit
  <2>4. /\ Outcome(None, self, Filled(P, vi)).v = self
        /\ Outcome(None, self, Filled(P, vi)).mem = Filled(P, vi)
    BY DEF Outcome
  <2> HIDE DEF r
  <2>5. Return(r)
    BY <1>4 DEF r
  <2>6. r.v = self /\ r.mem \in Memory
    BY <1>1, <2>1, <2>3, <2>4, RefusedSame
  <2>7. QED
    BY <1>1, <2>5, <2>6, ReturnInvariant
<1>5. QED
  BY <1>3, <1>4 DEF AssignBit

\* Inverting a slice.
LEMMA InvertInvariant ==
  ASSUME NoOverflow, IInv, Invert
  PROVE  IInv'
<1>1. PICK s \in Slices : Return(InvertSlice(s))
  BY DEF Invert
<1> DEFINE P == Visited(AdjustStepPositive(s))
           g == [c \in 0 .. (Bits - 1) |-> IF c - self.off \in P THEN 1 - mem[c] ELSE mem[c]]
           r == InvertSlice(s)
<1>2. r = Outcome(None, self, g)
  BY DEF InvertSlice
<1> HIDE DEF P
<1>3. g \in Memory
  <2>1. \A c \in 0 .. (Bits - 1) : mem[c] \in Bit /\ 1 - mem[c] \in Bit
    BY DEF IInv, Memory, Bit
  <2>2. QED
    BY <2>1 DEF Memory
<1> HIDE DEF g
<1>4. r.v = self /\ r.mem = g
  BY <1>2 DEF Outcome
<1> HIDE DEF r
<1>5. Return(r) /\ Inside(self)
  BY <1>1 DEF r, IInv
<1>6. QED
  BY <1>3, <1>4, <1>5, ReturnInvariant

\* Assigning an array to a slice, to a mask, to what indices name.
LEMMA AssignInvariant ==
  ASSUME NoOverflow, IInv, AssignSlice \/ AssignMask \/ AssignSeq
  PROVE  IInv'
<1>1. Inside(self) /\ self.nbits \in Nat
  BY DEF IInv, Inside
<1>2. ASSUME NEW s \in Slices, NEW n \in {s.length, s.length + 1}, NEW other \in Others(n),
             Return(SetSlice(s, other))
      PROVE  IInv'
  <2>1. s.length \in Nat
    BY <1>1, SlicesRegular
  <2>2. n \in Nat
    BY <2>1
  <2>3. View(other)
    BY <2>2, OthersViews
  <2>4. SetSlice(s, other).v = self /\ SetSlice(s, other).mem \in Memory
    BY <2>3, SliceAssigned
  <2>5. QED
    BY <1>1, <1>2, <2>4, ReturnInvariant
<1>3. ASSUME NEW mask \in OwnMasks \union {self},
             NEW n \in {Cardinality(Ones(mask)), Cardinality(Ones(mask)) + 1},
             NEW other \in Others(n), Return(SetMask(mask, other))
      PROVE  IInv'
  <2>1. IsMask(mask)
    BY MaskKinds
  <2>2. Ones(mask) \in SUBSET (0 .. (self.nbits - 1))
    BY <2>1, MaskOnes
  <2>3. Cardinality(Ones(mask)) \in Nat
    BY <1>1, <2>2, IndicesFinite
  <2>4. n \in Nat
    BY <2>3
  <2>5. View(other)
    BY <2>4, OthersViews
  <2>6. SetMask(mask, other).v = self /\ SetMask(mask, other).mem \in Memory
    BY <2>1, <2>5, SetMaskType
  <2>7. QED
    BY <1>1, <1>3, <2>6, ReturnInvariant
<1>4. ASSUME NEW seq \in Sequences, NEW n \in 0 .. MaxIndices, NEW other \in Others(n),
             Return(SetSeq(seq, other))
      PROVE  IInv'
  <2>1. n \in Nat
    BY SubscriptsAssumption
  <2>2. View(other)
    BY <2>1, OthersViews
  <2>3. PICK k \in Nat : seq \in [1 .. k -> Int]
    BY <1>1, SequencesTyped
  <2>4. SetSeq(seq, other).v = self /\ SetSeq(seq, other).mem \in Memory
    BY <2>2, <2>3, SeqAssigned
  <2>5. QED
    BY <1>1, <1>4, <2>4, ReturnInvariant
<1>5. CASE AssignSlice
  BY <1>2, <1>5 DEF AssignSlice
<1>6. CASE AssignMask
  BY <1>3, <1>6 DEF AssignMask
<1>7. CASE AssignSeq
  BY <1>4, <1>7 DEF AssignSeq
<1>8. QED
  BY <1>5, <1>6, <1>7

\* Deleting.
LEMMA DeleteInvariant ==
  ASSUME NoOverflow, IInv, DeleteSlice \/ DeleteMask \/ DeleteSeq
  PROVE  IInv'
<1>1. ASSUME NEW s \in Slices, Return(DelSlice(s)) PROVE IInv'
  BY <1>1, SliceDeleted, ReturnInvariant
<1>2. ASSUME NEW mask \in OwnMasks \union {self}, Return(DelMask(mask)) PROVE IInv'
  <2>1. IsMask(mask)
    BY MaskKinds
  <2>2. mask.nbits = self.nbits
    BY <2>1, MaskOnes
  <2>3. DelMask(mask) = DelMaskLocked(mask)
    BY <2>2 DEF DelMask
  <2>4. Inside(DelMask(mask).v) /\ DelMask(mask).mem \in Memory
    BY <2>1, <2>3, MaskDeleted
  <2>5. QED
    BY <1>2, <2>4, ReturnInvariant
<1>3. ASSUME NEW seq \in Sequences, Return(DelSeq(seq)) PROVE IInv'
  <2>1. CASE InRange(seq)
    <3>1. IsMask(SeqMask(seq)) /\ DelSeq(seq) = DelMaskLocked(SeqMask(seq))
      BY <2>1, SeqMaskOnes
    <3>2. Inside(DelSeq(seq).v) /\ DelSeq(seq).mem \in Memory
      BY <3>1, MaskDeleted
    <3>3. QED
      BY <1>3, <3>2, ReturnInvariant
  <2>2. CASE ~InRange(seq)
    <3>1. DelSeq(seq) = Refused("IndexError")
      BY <2>2 DEF DelSeq
    <3>2. Inside(DelSeq(seq).v) /\ DelSeq(seq).mem \in Memory
      BY <3>1, RefusedSame
    <3>3. QED
      BY <1>3, <3>2, ReturnInvariant
  <2>3. QED
    BY <2>1, <2>2
<1>4. QED
  BY <1>1, <1>2, <1>3 DEF DeleteSlice, DeleteMask, DeleteSeq

\* Each step keeps the invariant.
LEMMA NextInvariant ==
  ASSUME NoOverflow, IInv, [Next]_vars
  PROVE  IInv'
<1>1. CASE Next
  BY <1>1, AssignBitInvariant, InvertInvariant, AssignInvariant, DeleteInvariant DEF Next
<1>2. CASE UNCHANGED vars
  BY <1>2 DEF vars, IInv, Inside, Shared, Within, Memory, Bit
<1>3. QED
  BY <1>1, <1>2

\* In every state self lies in the exported buffer, whose elements are bits,
\* unless the arithmetic of slices overflows.
THEOREM SubscriptsInvariant ==
  ASSUME NoOverflow
  PROVE  Spec => []IInv
<1>1. Init => IInv
  BY InitInvariant
<1>2. IInv /\ [Next]_vars => IInv'
  BY NextInvariant
<1>3. QED
  BY <1>1, <1>2, PTL DEF Spec

\* The methods that run over a slice visit its elements and no other:
\* adjust_step_positive() describes the same elements, set_range(),
\* invert_range() and count_range() find each of them.
THEOREM SlicesAreVisited ==
  ASSUME NoOverflow
  PROVE  Spec => []SlicesVisited
<1>1. IInv => SlicesVisited
  BY VisitsAndCounts
<1>2. Spec => []IInv
  BY SubscriptsInvariant
<1>3. QED
  BY <1>1, <1>2, PTL

\* setslice_pauliebits() and setseq_pauliebits() read all of their source as it
\* was before, whether or not it shares memory with the array they write.
THEOREM SourcesAreReadFirst ==
  ASSUME NoOverflow
  PROVE  Spec => []SourcesReadFirst
<1>1. IInv => SourcesReadFirst
  BY SourcesRead
<1>2. Spec => []IInv
  BY SubscriptsInvariant
<1>3. QED
  BY <1>1, <1>2, PTL

\* delslice(), delmask_lock_held() and delsequence() remove the elements that the
\* same key selects, and keep the others in order, by each of their algorithms.
THEOREM DeletedIsWhatIsGot ==
  ASSUME NoOverflow
  PROVE  Spec => []DeletesWhatItGets
<1>1. IInv => DeletesWhatItGets
  BY DeletesSelected
<1>2. Spec => []IInv
  BY SubscriptsInvariant
<1>3. QED
  BY <1>1, <1>2, PTL

\* setmask_pauliebits_lock_held() assigns to the elements that the mask selects, in
\* the free-threaded build, which copies its source.
THEOREM MasksAreLikeSequences ==
  ASSUME NoOverflow, GilDisabled
  PROVE  Spec => []MaskLikeSequence
<1>1. IInv => MaskLikeSequence
  BY MasksAssign
<1>2. Spec => []IInv
  BY SubscriptsInvariant
<1>3. QED
  BY <1>1, <1>2, PTL

\* The assertions of getbit() and setbit() in these loops hold, as long as the
\* arithmetic does not overflow, which is what the program does not look at.
THEOREM IndicesInBounds ==
  ASSUME NoOverflow
  PROVE  Spec => []IndexAsserted
<1>1. IInv => IndexAsserted
  <2>1. SUFFICES ASSUME IInv, NEW s \in Slices
                 PROVE  Visited(AdjustStepPositive(s)) \subseteq 0 .. (self.nbits - 1)
    BY DEF IndexAsserted
  <2>2. Inside(self)
    BY <2>1 DEF IInv
  <2>3. self.nbits \in Nat /\ self.nbits <= Bits /\ Bits \in Nat
    BY <2>2, InsideCells
  <2>4. self.nbits \in 0 .. Bits
    BY <2>3
  <2>5. QED
    BY <2>4, SliceVisited
<1>2. Spec => []IInv
  BY SubscriptsInvariant
<1>3. QED
  BY <1>1, <1>2, PTL
===============================================================================
