-------------------------------- MODULE WordOps --------------------------------
(***************************************************************************)
(* What is done to whole arrays by words: the bitwise operators and shifts *)
(* of _pauliebits.c, and the functions of the util module that count       *)
(* what two arrays have in common.  w is a piece of memory with two arrays *)
(* of the same length and bit-endianness, which may overlap.               *)
(***************************************************************************)
EXTENDS BitLayout, Sequences, SequencesExt, FiniteSetsExt, Bitwise

CONSTANTS
  WordBytes,    \* bytes per word
  WordLengths   \* lengths of the arrays

VARIABLE w

WordBits == ByteBits * WordBytes

\* nbits, endian and size are those of both arrays; a and b are where they begin.
Init ==
  w \in UNION {[endian : {LITTLE, BIG}, nbits : {n}, size : {BYTES(n)}, readonly : {FALSE},
                a : 0 .. (MaxBytes - BYTES(n)), b : 0 .. (MaxBytes - BYTES(n)),
                mem : [Cells -> Bit]] : n \in WordLengths}

\* The content of the array at byte p, and the memory with another content there.
Content(p) == [c \in Cells |-> IF c + ByteBits * p \in Cells THEN w.mem[c + ByteBits * p] ELSE 0]
Stored(p, m) ==
  [c \in Cells |-> IF c \div ByteBits \in p .. (p + w.size - 1) THEN m[c - ByteBits * p] ELSE w.mem[c]]

Elems(p) == Elements(w, Content(p))

-------------------------------------------------------------------------------
(* Operators.                                                              *)

\* The bytes that are combined at a time: words, then the bytes that remain.
Units(nbytes) ==
  LET cwords == nbytes \div WordBytes
  IN  [i \in 1 .. cwords |-> ((i - 1) * WordBytes) .. (i * WordBytes - 1)]
        \o [i \in 1 .. (nbytes - WordBytes * cwords) |-> {WordBytes * cwords + i - 1}]

\* bitwise(): the memory after self, at byte p, has been combined with the array at q.
bitwise(p, q, oper) ==
  FoldLeft(LAMBDA m, unit :
             [c \in Cells |-> IF c \div ByteBits - p \in unit
                              THEN Combined(oper, m[c], m[c + ByteBits * (q - p)])
                              ELSE m[c]],
           w.mem, Units(w.size))

\* shift(), by n positions at most as many as there are.
shift(p, n, right) ==
  LET m == Content(p)
      k == IF n > w.nbits THEN w.nbits ELSE n
      zeros == [i \in 0 .. (k - 1) |-> 0]
  IN  Stored(p, IF right THEN SetSpan(w, CopyN(w, m, k, w, m, 0, w.nbits - k), 0, k, zeros)
                ELSE SetSpan(w, CopyN(w, m, 0, w, m, k, w.nbits - k), w.nbits - k, k, zeros))

InPlace == \E oper \in Operators : w' = [w EXCEPT !.mem = bitwise(w.a, w.b, oper)]
Shift   == \E n \in 0 .. (w.nbits + 1), right \in BOOLEAN :
             w' = [w EXCEPT !.mem = shift(w.a, n, right)]

Next == InPlace \/ Shift

-------------------------------------------------------------------------------
(* Counting.  A word is the set of its bits that are set.                  *)

cwords == w.nbits \div WordBits
rbits  == w.nbits % WordBits

Word(p, i) == {k \in 0 .. (WordBits - 1) : Content(p)[WordBits * i + k] = 1}

\* (A slip: the last word with whatever its pad bits are.)
zlw_raw(p) == {k \in 0 .. (WordBits - 1) :
                 WordBits * cwords + k < ByteBits * w.size /\ Content(p)[WordBits * cwords + k] = 1}

\* The last, incomplete word, zero where there is no element.
zlw(p) == {k \in 0 .. (WordBits - 1) :
             \E i \in (WordBits * cwords) .. (w.nbits - 1) :
               Pos(w.endian, i) = WordBits * cwords + k /\ Content(p)[WordBits * cwords + k] = 1}

\* The words of both arrays, the last one incomplete.
WordPairs ==
  [i \in 1 .. cwords |-> <<Word(w.a, i - 1), Word(w.b, i - 1)>>]
    \o (IF rbits > 0 THEN <<<<zlw(w.a), zlw(w.b)>>>> ELSE <<>>)

\* An operation on a pair of words.
Joint(oper, u, v) ==
  CASE oper = "a & b"   -> u \intersect v
    [] oper = "a | b"   -> u \union v
    [] oper = "a ^ b"   -> SymDiff(u, v)
    [] oper = "a & ~b"  -> u \ v
    [] oper = "~a & b"  -> v \ u
    [] oper = "~a & ~b" -> (0 .. (WordBits - 1)) \ (u \union v)

\* count_and(), count_or(), count_xor(), and the sums of correspond_all()
binary_count(oper) ==
  MapThenSumSet(LAMBDA i : Cardinality(Joint(oper, WordPairs[i][1], WordPairs[i][2])), DOMAIN WordPairs)

any_and == \E i \in DOMAIN WordPairs : WordPairs[i][1] \intersect WordPairs[i][2] # {}

subset == \A i \in DOMAIN WordPairs : WordPairs[i][1] \intersect WordPairs[i][2] = WordPairs[i][1]

\* nff (without the unused bits of the last word), nft, ntf, ntt
correspond_all ==
  <<binary_count("~a & ~b") - (IF rbits > 0 THEN WordBits - rbits ELSE 0),
    binary_count("~a & b"), binary_count("a & ~b"), binary_count("a & b")>>

parity ==
  Cardinality(FoldLeft(SymDiff, zlw(w.a), [i \in 1 .. cwords |-> Word(w.a, i - 1)])) % 2

\* count_from_word()
count_from_word(i) ==
  IF WordBits * i >= w.nbits THEN 0
  ELSE MapThenSumSet(LAMBDA j : Cardinality(Word(w.a, j)), i .. (cwords - 1))
       + (IF rbits > 0 THEN Cardinality(zlw(w.a)) ELSE 0)

-------------------------------------------------------------------------------
(* Comparison of arrays [endian, nbits, mem] of any length and endianness. *)

Comparisons == {"==", "!=", "<", "<=", ">", ">="}

\* Py_RETURN_RICHCOMPARE()
Compared(m, n, op) ==
  CASE op = "==" -> m = n
    [] op = "!=" -> m # n
    [] op = "<"  -> m < n
    [] op = "<=" -> m <= n
    [] op = ">"  -> m > n
    [] op = ">=" -> m >= n

\* Byte i of two arrays holds the same elements.
SameByte(v, u, i) ==
  \A k \in 0 .. (ByteBits - 1) :
    v.mem[ByteBits * i + k] =
      u.mem[ByteBits * i + (IF v.endian = u.endian THEN k ELSE ByteBits - 1 - k)]

\* The last byte, zero where there is no element.
zlc(v) == {c \in Cells : /\ v.mem[c] = 1
                         /\ \E i \in 0 .. (v.nbits - 1) :
                              i \div ByteBits = v.nbits \div ByteBits /\ Pos(v.endian, i) = c}

\* The first index, from the first byte that differs on, where elements differ, or the
\* smaller length.
FirstDifference(v, u) ==
  LET n     == Min({v.nbits, u.nbits})
      i     == Min({n \div ByteBits} \union
                   {j \in 0 .. (n \div ByteBits - 1) : ~SameByte(v, u, j)})
  IN  Min({n} \union {j \in (ByteBits * i) .. (n - 1) : GetBit(v, v.mem, j) # GetBit(u, u.mem, j)})

richcompare(v, u, op) ==
  LET i == FirstDifference(v, u)
  IN  IF op \in {"==", "!="} /\ v.nbits # u.nbits THEN op = "!="
      ELSE IF op \in {"==", "!="} /\ v.endian = u.endian
      THEN (op = "!=") # (/\ \A j \in 0 .. (v.nbits \div ByteBits - 1) : SameByte(v, u, j)
                          /\ zlc(v) = zlc(u))
      ELSE IF i < Min({v.nbits, u.nbits})
      THEN Compared(GetBit(v, v.mem, i), GetBit(u, u.mem, i), op)
      ELSE Compared(v.nbits, u.nbits, op)

-------------------------------------------------------------------------------
(* Sums of indices, by tables that are indexed with a byte.                *)

\* The indices, within a byte, of the elements that are set; pad bits are cleared.
Active(i) == {j \in 0 .. (ByteBits - 1) :
                SetPadbits(w, Content(w.a))[ByteBits * i + Pos(w.endian, j)] = 1}

ssqi(mode) ==
  MapThenSumSet(
    LAMBDA i : LET k  == Cardinality(Active(i))
                   z1 == MapThenSumSet(LAMBDA j : j, Active(i))
                   z2 == MapThenSumSet(LAMBDA j : j * j, Active(i))
               IN  IF mode = 1 THEN k * ByteBits * i + z1
                   ELSE (k * ByteBits * ByteBits * i + 2 * ByteBits * z1) * i + z2,
    0 .. (w.size - 1))

xor_indices ==
  FoldLeft(LAMBDA res, i :
             LET c == Active(i)
                 high == IF Cardinality(c) % 2 = 1 THEN ByteBits * i ELSE 0
             IN  (res ^^ high) ^^ FoldSet(LAMBDA j, r : r ^^ j, 0, c),
           0, [i \in 1 .. w.size |-> i - 1])

-------------------------------------------------------------------------------
Ones(f) == {i \in DOMAIN f : f[i] = 1}

\* Operators and shifts change each element to what it should be and no byte but
\* those of the array; whole words may be combined as long as the operand does not begin
\* below the array in the same memory (it would be read after it has been written).
\* Counts, comparisons and sums of indices are those of the elements, whatever
\* the pad bits and, in comparisons, the endiannesses and lengths are.
WordsExact ==
  LET x == Elems(w.a)
      y == Elems(w.b)
      A == Ones(x)
      B == Ones(y)
      After(m) == [i \in 0 .. (w.nbits - 1) |-> m[ByteBits * w.a + Pos(w.endian, i)]]
      Elsewhere(m) == \A c \in Cells : m[c] # w.mem[c] => c \div ByteBits - w.a \in 0 .. (w.size - 1)
  IN  /\ \A oper \in Operators :
           LET m == bitwise(w.a, w.b, oper)
           IN  /\ Elsewhere(m)
               /\ (w.b >= w.a \/ w.b + w.size <= w.a) =>
                    After(m) = [i \in DOMAIN x |-> Combined(oper, x[i], y[i])]
      /\ \A n \in 0 .. (w.nbits + 1) :
           /\ Elsewhere(shift(w.a, n, TRUE)) /\ Elsewhere(shift(w.a, n, FALSE))
           /\ Ones(After(shift(w.a, n, TRUE))) = {i + n : i \in A} \intersect DOMAIN x
           /\ Ones(After(shift(w.a, n, FALSE))) = {i \in DOMAIN x : i + n \in A}
      /\ \A oper \in {"a & b", "a | b", "a ^ b"} :
           binary_count(oper) = Cardinality(Joint(oper, A, B))
      /\ \A n \in 0 .. w.nbits, e \in {LITTLE, BIG} :
           LET v    == [endian |-> w.endian, nbits |-> w.nbits, mem |-> Content(w.a)]
               u    == [endian |-> e, nbits |-> n, mem |-> Content(w.b)]
               z    == Elements(u, u.mem)
               k    == Min({n} \union {j \in 0 .. (n - 1) : x[j] # z[j]})
               less == k < n /\ x[k] < z[k]
           IN  {op \in Comparisons : richcompare(v, u, op)} =
                 CASE x = z          -> {"==", "<=", ">="}
                   [] x # z /\ less  -> {"!=", "<", "<="}
                   [] x # z /\ ~less -> {"!=", ">", ">="}
      /\ any_and = (A \intersect B # {}) /\ subset = (A \subseteq B)
      /\ correspond_all = <<w.nbits - Cardinality(A \union B), Cardinality(B \ A),
                            Cardinality(A \ B), Cardinality(A \intersect B)>>
      /\ parity = Cardinality(A) % 2
      /\ \A i \in 0 .. (cwords + 1) : count_from_word(i) = Cardinality({j \in A : j >= WordBits * i})
      /\ ssqi(1) = MapThenSumSet(LAMBDA i : i, A) /\ ssqi(2) = MapThenSumSet(LAMBDA i : i * i, A)
      /\ xor_indices = FoldSet(LAMBDA i, r : r ^^ i, 0, A)
===============================================================================
