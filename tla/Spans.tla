--------------------------------- MODULE Spans --------------------------------
(***************************************************************************)
(* The functions on contiguous bits: invert_span(), set_span(),            *)
(* count_span(), find_bit() and what is built on them.  Each handles the   *)
(* middle of its range by words or bytes and calls itself for the ends.    *)
(* They are translated with these recursions and compared with what they   *)
(* have to do bit by bit.                                                  *)
(*                                                                         *)
(* x is one array of the program: header, content, pad bits and the        *)
(* address of its buffer, which need not be aligned if it is imported.     *)
(***************************************************************************)
EXTENDS BitLayout, Sequences, FiniteSetsExt

CONSTANTS
  WordBytes,    \* bytes per word
  BlockWords,   \* words that count_n() counts at a time
  Alignment,    \* what popcnt_words() wants an address to be a multiple of
  MaxBits,      \* bound on the length of arrays
  MaxSub        \* bound on the length of what is searched for

\* Assumed by the modules that use this one.
SpanConstants ==
  /\ WordBytes \in Nat /\ WordBytes > 1 /\ BlockWords \in Nat \ {0}
  /\ Alignment \in Nat \ {0} /\ WordBytes % Alignment = 0
  /\ MaxBits \in 0 .. (ByteBits * MaxBytes) /\ MaxSub \in Nat

VARIABLE x

WordBits == ByteBits * WordBytes

\* Round an index up or down to a multiple of u.
Up(i, u)   == ((i + u - 1) \div u) * u
Down(i, u) == (i \div u) * u

getbit(r, i) == GetBit(r, r.mem, i)

\* Element-wise and cell-wise assignments; a whole byte has the same cells in
\* either bit order.
Put(r, a, b, f(_)) ==
  [r EXCEPT !.mem = SetSpan(r, r.mem, a, b - a, [i \in 0 .. (b - a - 1) |-> f(a + i)])]
PutCells(r, a, b, f(_)) ==
  [r EXCEPT !.mem = [c \in Cells |-> IF c \in a .. (b - 1) THEN f(c) ELSE r.mem[c]]]

-------------------------------------------------------------------------------
\* What a function handles at a time in a range of n bits.
UnitOf(n) == CASE n >= WordBits -> WordBits
               [] n >= ByteBits /\ n < WordBits -> ByteBits
               [] n < ByteBits -> 1

RECURSIVE invert_span(_, _, _)
invert_span(r, a, b) ==
  LET u == UnitOf(b - a)
      lo == Up(a, u)
      hi == Down(b, u)
      whole(s) == PutCells(s, lo, hi, LAMBDA c : 1 - s.mem[c])
  IN  IF u = 1 THEN Put(r, a, b, LAMBDA i : 1 - getbit(r, i))
      ELSE invert_span(whole(invert_span(r, a, lo)), hi, b)

RECURSIVE set_span(_, _, _, _)
set_span(r, a, b, vi) ==
  LET lo == Up(a, ByteBits)
      hi == Down(b, ByteBits)
  IN  IF b < a + ByteBits THEN Put(r, a, b, LAMBDA i : vi)
      ELSE set_span(PutCells(set_span(r, a, lo, vi), lo, hi, LAMBDA c : vi), hi, b, vi)

ToAligned(p) == (Alignment - (p % Alignment)) % Alignment

\* (A slip: the last word is left out.)
PopCountShort(r, a, b) == Cardinality({c \in a .. (b - WordBits - 1) : r.mem[c] = 1})

PopCount(r, a, b) == Cardinality({c \in a .. (b - 1) : r.mem[c] = 1})

\* The word-range of count_span(), in bytes: it begins at an aligned address.
FirstByte(r, a) ==
  BYTES(a) + ToAligned(r.address + BYTES(a))
WordsIn(r, a, b) ==
  (b \div ByteBits - FirstByte(r, a)) \div WordBytes

RECURSIVE count_span(_, _, _)
count_span(r, a, b) ==
  LET u  == UnitOf(b - a)
      lo == IF u = WordBits THEN ByteBits * FirstByte(r, a) ELSE Up(a, u)
      hi == IF u = WordBits THEN lo + WordBits * WordsIn(r, a, b) ELSE Down(b, u)
  IN  IF u = 1 THEN Cardinality({i \in a .. (b - 1) : getbit(r, i) = 1})
      ELSE count_span(r, a, lo) + PopCount(r, lo, hi) + count_span(r, hi, b)

\* The units of u bits in lo .. hi - 1 that hold vi.
UnitsWith(r, vi, lo, hi, u) ==
  {i \in lo .. (hi - 1) : i % u = 0 /\ \E c \in i .. (i + u - 1) : r.mem[c] = vi}

\* find_bit() skips words in ranges longer than a word, and bytes likewise:
\* in a range of one word it would call itself with the same range.
SearchUnit(n) == IF n > WordBits THEN WordBits ELSE IF n > ByteBits THEN ByteBits ELSE 1

\* find_bit_words() and find_bit_bytes() are parts of it.
RECURSIVE find_bit(_, _, _, _, _)
find_bit(r, vi, a, b, right) ==
  LET u     == SearchUnit(b - a)
      lo    == Up(a, u)
      hi    == Down(b, u)
      units == UnitsWith(r, vi, lo, hi, u)
      near  == IF right THEN find_bit(r, vi, hi, b, right)
                        ELSE find_bit(r, vi, a, lo, right)
      bits  == {i \in a .. (b - 1) : getbit(r, i) = vi}
      Nearest(S) == IF right THEN Max(S) ELSE Min(S)
  IN  CASE u = 1 /\ bits = {} -> -1
        [] u = 1 /\ bits # {} -> Nearest(bits)
        [] u > 1 /\ near >= 0 -> near
        [] u > 1 /\ near < 0 /\ units # {} ->
             find_bit(r, vi, Nearest(units), Nearest(units) + u, right)
        [] u > 1 /\ near < 0 /\ units = {} ->
             IF right THEN find_bit(r, vi, a, lo, right)
                      ELSE find_bit(r, vi, hi, b, right)

\* sub is a sequence of bits.
Occurs(r, sub, i) == \A k \in 1 .. Len(sub) : getbit(r, i + k - 1) = sub[k]

find_sub(r, sub, start, stop, right) ==
  LET at == {i \in start .. (stop - Len(sub)) : Occurs(r, sub, i)}
  IN  IF at = {} THEN -1 ELSE IF right THEN Max(at) ELSE Min(at)

RECURSIVE count_sub(_, _, _, _)
count_sub(r, sub, start, stop) ==
  LET pos == find_sub(r, sub, start, stop, FALSE)
  IN  IF Len(sub) = 0 THEN IF start <= stop THEN stop - start + 1 ELSE 0
      ELSE IF pos < 0 THEN 0
      ELSE 1 + count_sub(r, sub, pos + Len(sub), stop)

sort_lock_held(r, reverse) ==
  LET cnt1 == count_span(r, 0, r.nbits)
      cnt0 == r.nbits - cnt1
  IN  IF reverse THEN set_span(set_span(r, 0, cnt1, 1), cnt1, r.nbits, 0)
                 ELSE set_span(set_span(r, 0, cnt0, 0), cnt0, r.nbits, 1)

\* Occurrences of vi in u bits from i on, by population count.
UnitCount(r, vi, i, u) == LET p == PopCount(r, i, i + u) IN IF vi = 1 THEN p ELSE u - p

\* (A slip: a unit that completes the count is skipped.)
RECURSIVE SkipFullUnits(_, _, _, _, _)
SkipFullUnits(r, vi, n, u, p) ==
  LET k == UnitCount(r, vi, p.i, u)
  IN  IF p.i + u < r.nbits /\ p.t + k <= n
      THEN SkipFullUnits(r, vi, n, u, [i |-> p.i + u, t |-> p.t + k])
      ELSE p

\* Skip units as long as the count up to them stays below n.
RECURSIVE SkipUnits(_, _, _, _, _)
SkipUnits(r, vi, n, u, p) ==
  LET k == UnitCount(r, vi, p.i, u)
  IN  IF p.i + u < r.nbits /\ p.t + k < n
      THEN SkipUnits(r, vi, n, u, [i |-> p.i + u, t |-> p.t + k])
      ELSE p

RECURSIVE CountBits(_, _, _, _)
CountBits(r, vi, n, p) ==
  IF p.i < r.nbits /\ p.t < n
  THEN CountBits(r, vi, n, [i |-> p.i + 1,
                            t |-> p.t + (IF getbit(r, p.i) = vi THEN 1 ELSE 0)])
  ELSE p

\* util.count_n(): by blocks, words, and bits.
count_n(r, n, vi) ==
  LET blocks == SkipUnits(r, vi, n, BlockWords * WordBits, [i |-> 0, t |-> 0])
      words  == SkipUnits(r, vi, n, WordBits, blocks)
      p      == CountBits(r, vi, n, words)
  IN  IF p.t < n THEN -(p.t + 1) ELSE p.i

-------------------------------------------------------------------------------
\* Any array at any address, with any pad bits; memory behind it shows as zero.
Arrays ==
  UNION {{[endian |-> e, nbits |-> n, size |-> BYTES(n), readonly |-> FALSE,
           address |-> p, mem |-> [c \in Cells |->
             IF c \in PadCells([endian |-> e, nbits |-> n, size |-> BYTES(n)])
             THEN v ELSE 0]] :
            e \in {LITTLE, BIG}, p \in 0 .. (Alignment - 1), v \in Bit} :
          n \in 0 .. MaxBits}

Init == x \in Arrays

Indices == 0 .. x.nbits

Invert == \E a, b \in Indices : a < b /\ x' = invert_span(x, a, b)
SetAll == \E vi \in Bit : x' = set_span(x, 0, x.nbits, vi)
Sort   == \E reverse \in BOOLEAN : x' = sort_lock_held(x, reverse)

Next == Invert \/ SetAll \/ Sort

Spec == Init /\ [][Next]_x

-------------------------------------------------------------------------------
Subs == UNION {[1 .. n -> Bit] : n \in 0 .. MaxSub}

Ones(a, b) == Cardinality({i \in a .. (b - 1) : getbit(x, i) = 1})

\* Setting and inverting a range changes the elements in it as told and nothing
\* else, neither other elements nor pad bits.  Counting by words and bytes, wherever
\* they are aligned, gives the number of ones among the elements; as count_span() asserts,
\* the ends are shorter than a word, and no negative number of words is in between.
SpansExact ==
  \A a, b \in Indices :
    /\ invert_span(x, a, b) = Put(x, a, b, LAMBDA i : 1 - getbit(x, i))
    /\ \A vi \in Bit : set_span(x, a, b, vi) = Put(x, a, b, LAMBDA i : vi)
    /\ count_span(x, a, b) = Ones(a, b)
    /\ b - a >= WordBits =>
         LET p == FirstByte(x, a)
             w == WordsIn(x, a, b)
         IN  ByteBits * p - a < WordBits /\ b - ByteBits * (p + WordBytes * w) < WordBits /\ w >= 0

\* find_bit() returns the first (or last) index of a bit in a range, or -1, although
\* it skips words and bytes; count_n() the lowest i such that n of the first i elements are
\* vi.  count() of a sub-array returns the size of the largest set of occurrences that
\* do not overlap: taking the first each time is optimal.
SearchesExact ==
  /\ \A a, b \in Indices, vi \in Bit :
       LET at == {i \in a .. (b - 1) : getbit(x, i) = vi}
       IN  /\ find_bit(x, vi, a, b, FALSE) = IF at = {} THEN -1 ELSE Min(at)
           /\ find_bit(x, vi, a, b, TRUE)  = IF at = {} THEN -1 ELSE Max(at)
  /\ \A n \in Indices, vi \in Bit :
       LET Count(i) == IF vi = 1 THEN Ones(0, i) ELSE i - Ones(0, i)
           at == {i \in Indices : Count(i) = n}
       IN  count_n(x, n, vi) = IF at = {} THEN -(Count(x.nbits) + 1) ELSE Min(at)
  /\ \A sub \in Subs :
       LET at == {i \in 0 .. (x.nbits - Len(sub)) : Occurs(x, sub, i)}
           Apart(S) == \A i, j \in S : i < j => j >= i + Len(sub)
       IN  count_sub(x, sub, 0, x.nbits) =
             Max({Cardinality(S) : S \in {T \in SUBSET at : Apart(T)}})
===============================================================================
