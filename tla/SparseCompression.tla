-------------------------- MODULE SparseCompression ---------------------------
(***************************************************************************)
(* sc_encode() and sc_decode().  The encoder writes a header and then      *)
(* blocks: raw bytes, or the indices of the ones, n bytes each, of a block *)
(* of type n.  The decoder reads an iterator of bytes.  Both are records   *)
(* here, and operators give what they are after the next block.            *)
(*                                                                         *)
(* An array is its bit-endianness and the sequence of its elements.  A     *)
(* byte of data has ByteBits bits; the heads of blocks are numbered as in  *)
(* the program, for which the bytes of a small instance are too short.     *)
(***************************************************************************)
EXTENDS Integers, FiniteSetsExt, SequencesExt, TLC

CONSTANTS
  ByteBits,     \* bits of a byte, a power of 2: 8
  RawSegs,      \* segments in a raw block: 128
  MaxType,      \* types of sparse blocks: 4
  SizeBytes,    \* sizeof(Py_ssize_t): 8
  AllocSize,    \* ALLOC_SIZE
  MaxMemory     \* no array is longer than this

LITTLE == 0
BIG    == 1

\* Bytes that n bytes of index can address: BSI(n); a segment is BSI(1).
BSI(n)  == 2 ^ (ByteBits * n) \div ByteBits
SEGSIZE == BSI(1)

SparseConstants ==
  /\ ByteBits \in Nat \ {0} /\ 2 ^ ByteBits % ByteBits = 0
  /\ MaxType \in 1 .. (SizeBytes - 1)
  \* no block is longer than the longest raw block, which fits what is allocated
  /\ 2 + MaxType * (2 ^ ByteBits - 1) <= 1 + RawSegs * SEGSIZE
  /\ 1 + RawSegs * SEGSIZE + 1 <= AllocSize /\ 1 + SizeBytes + 1 <= AllocSize

-------------------------------------------------------------------------------
(* Arrays, and numbers as bytes.                                           *)

nbits(a) == Len(a.bits)
Size(a)  == (nbits(a) + ByteBits - 1) \div ByteBits
NSEG(a)  == (Size(a) + SEGSIZE - 1) \div SEGSIZE

\* The weight in its byte of the element at index i.
Weight(endian, i) ==
  2 ^ (IF endian = BIG THEN ByteBits - 1 - (i % ByteBits) ELSE i % ByteBits)

\* A byte of the buffer, the pad bits cleared.
ByteAt(a, i) ==
  MapThenSumSet(LAMBDA j : a.bits[j + 1] * Weight(a.endian, j),
                (ByteBits * i) .. (Min({ByteBits * (i + 1), nbits(a)}) - 1))

write_n(n, i) == [j \in 1 .. n |-> (i \div 2 ^ (ByteBits * (j - 1))) % 2 ^ ByteBits]

\* read_n() of the n bytes that are there.
read_n(s, n) ==
  MapThenSumSet(LAMBDA j : (s[j] % 2 ^ ByteBits) * 2 ^ (ByteBits * (j - 1)), 1 .. n)

byte_length(i) == CHOOSE n \in 0 .. SizeBytes :
                    i < 2 ^ (ByteBits * n) /\ (n > 0 => i >= 2 ^ (ByteBits * (n - 1)))

Drop(s, n) == SubSeq(s, n + 1, Len(s))

-------------------------------------------------------------------------------
(* The encoder.                                                            *)

\* Running totals: the ones in the first m segments.
sc_rts(a) ==
  [m \in 0 .. NSEG(a) |->
     Cardinality({i \in 1 .. Min({m * SEGSIZE * ByteBits, nbits(a)}) : a.bits[i] = 1})]

\* The ones in a block of type n at offset.
sc_count(e, offset, n) ==
  LET i == offset \div SEGSIZE
      j == Min({i + BSI(n) \div SEGSIZE, NSEG(e.a)})
  IN  e.rts[j] - e.rts[i]

Remaining(e) == Size(e.a) - e.offset

\* How many bytes a raw block takes: the rest, or segments that are all dense.
RawLength(e) ==
  IF Remaining(e) < SEGSIZE THEN Remaining(e)
  ELSE SEGSIZE * Max({m \in 1 .. RawSegs :
         /\ m * SEGSIZE <= Remaining(e)
         /\ \A t \in 1 .. (m - 1) : sc_count(e, e.offset + t * SEGSIZE, 1) >= SEGSIZE})

sc_write_raw(e) ==
  LET k == RawLength(e)
  IN  <<IF k <= SEGSIZE THEN k ELSE k \div SEGSIZE + SEGSIZE - 1>>
        \o [i \in 1 .. k |-> ByteAt(e.a, e.offset + i - 1)]

\* (A slip: as many indices as there are in the rest of the array.)
sc_write_all_indices(e, n, k) ==
  LET first == ByteBits * e.offset
      ones  == SelectSeq([i \in 1 .. (nbits(e.a) - first) |-> i - 1],
                         LAMBDA i : e.a.bits[first + i + 1] = 1)
  IN  FlattenSeq([j \in DOMAIN ones |-> write_n(n, ones[j])])

\* The first k ones from the offset on.
sc_write_indices(e, n, k) ==
  LET first == ByteBits * e.offset
      ones  == SelectSeq([i \in 1 .. (nbits(e.a) - first) |-> i - 1],
                         LAMBDA i : e.a.bits[first + i + 1] = 1)
  IN  FlattenSeq([j \in 1 .. k |-> write_n(n, ones[j])])

sc_write_sparse(e, n, k) ==
  (IF n = 1 THEN <<SEGSIZE + RawSegs + k>> ELSE <<2 * SEGSIZE + RawSegs + n, k>>)
    \o sc_write_indices(e, n, k)

\* A block of type n + 1 costs less than the blocks of type n that it stands for.
NextTypeBetter(e, n) ==
  LET next_count == sc_count(e, e.offset, n + 1)
      nblocks    == Min({2 ^ ByteBits, (Remaining(e) - 1) \div BSI(n) + 1})
      cost_a     == (IF n = 1 THEN 1 ELSE 2) * nblocks
  IN  next_count < 2 ^ ByteBits /\ 2 + next_count < cost_a

BlockType(e) == Min({n \in 1 .. MaxType : n = MaxType \/ ~NextTypeBetter(e, n)})

\* sc_encode_block(): the block, and the bytes of the array that it stands for.
sc_encode_block(e) ==
  IF sc_count(e, e.offset, 1) >= Min({SEGSIZE, Remaining(e)})
  THEN [bytes |-> sc_write_raw(e), increase |-> RawLength(e)]
  ELSE LET n == BlockType(e)
       IN  [bytes    |-> sc_write_sparse(e, n, sc_count(e, e.offset, n)),
            increase |-> BSI(n)]

sc_encode_header(a) ==
  LET len == byte_length(nbits(a))
  IN  <<16 * a.endian + len>> \o write_n(len, nbits(a))

StartEncoding(a) ==
  [kind |-> "sc", a |-> a, rts |-> sc_rts(a), out |-> sc_encode_header(a),
   allocated |-> AllocSize, offset |-> 0]

BlocksLeft(e) ==
  e.offset < Size(e.a) /\ e.rts[e.offset \div SEGSIZE] # e.rts[NSEG(e.a)]

\* (A slip: the stop byte is forgotten.)
AllocatedShort(e) ==
  IF e.allocated < Len(e.out) + 1 + RawSegs * SEGSIZE
  THEN e.allocated + AllocSize ELSE e.allocated

\* Room for the largest block and the stop byte.
Allocated(e) ==
  IF e.allocated < Len(e.out) + 1 + RawSegs * SEGSIZE + 1
  THEN e.allocated + AllocSize ELSE e.allocated

EncodeBlock(e) ==
  LET block == sc_encode_block(e)
  IN  [e EXCEPT !.allocated = Allocated(e),
                !.out = @ \o block.bytes, !.offset = @ + block.increase]

Encoded(e) == Append(e.out, 0)

-------------------------------------------------------------------------------
(* The decoder: what is left of the stream, and its record after a read.   *)

Failed(s)       == [dec |-> [kind |-> "error"], stream |-> s]
Decoded(a, s)   == [dec |-> [kind |-> "array", nbits |-> nbits(a), array |-> a], stream |-> s]
Decoding(d, s)  == [dec |-> d, stream |-> s]

\* sc_decode_header(), and the array of zeros.
sc_decode_header(s) ==
  IF s = <<>> THEN Failed(s)
  ELSE LET len  == Head(s) % 16
           rest == Drop(s, 1)
           n    == read_n(rest, len)
       IN  IF Head(s) >= 32 \/ len > SizeBytes THEN Failed(rest)
           ELSE IF Len(rest) < len THEN Failed(<<>>)
           ELSE IF n >= 2 ^ (ByteBits * SizeBytes - 1) \/ n > MaxMemory
           THEN Failed(Drop(rest, len))
           ELSE Decoding([kind |-> "sc", endian |-> IF Head(s) >= 16 THEN BIG ELSE LITTLE,
                          nbits |-> n, offset |-> 0,
                          size |-> (n + ByteBits - 1) \div ByteBits,
                          mem |-> [i \in 0 .. (((n + ByteBits - 1) \div ByteBits) * ByteBits - 1) |-> 0]],
                         Drop(rest, len))

\* The element at i is that of a byte copied into the buffer.
BitOf(d, c, i) == (c \div Weight(d.endian, i)) % 2

sc_read_raw(d, s, k) ==
  IF d.offset + k > d.size THEN Failed(s)
  ELSE IF Len(s) < k THEN Failed(<<>>)
  ELSE LET cells == (ByteBits * d.offset) .. (ByteBits * (d.offset + k) - 1)
       IN  Decoding([d EXCEPT !.offset = @ + k,
                              !.mem = [i \in cells |->
                                         BitOf(d, s[i \div ByteBits - d.offset + 1], i)] @@ @],
                    Drop(s, k))

\* (A slip: an index may be one too large.)
IndexAllowedEnd(d, i) == i <= d.nbits

IndexAllowed(d, i) == i < d.nbits

sc_read_sparse(d, s, n, k) ==
  LET Index(j) == ByteBits * d.offset + read_n(Drop(s, n * (j - 1)), n)
      bad      == {j \in 1 .. k : n * j > Len(s) \/ ~IndexAllowed(d, Index(j))}
  IN  IF bad # {} THEN Failed(Drop(s, n * Min(bad)))
      ELSE Decoding([d EXCEPT !.offset = @ + BSI(n),
                              !.mem = [i \in {Index(j) : j \in 1 .. k} |-> 1] @@ @],
                    Drop(s, n * k))

Result(d) == [endian |-> d.endian, bits |-> [i \in 1 .. d.nbits |-> d.mem[i - 1]]]

\* sc_decode_block()
sc_decode_block(d, s) ==
  IF s = <<>> THEN Failed(s)
  ELSE LET head == Head(s)
           rest == Drop(s, 1)
           type == head - (2 * SEGSIZE + RawSegs)
       IN  IF head = 0 THEN Decoded(Result(d), rest)
           ELSE IF head < SEGSIZE + RawSegs
           THEN sc_read_raw(d, rest, IF head <= SEGSIZE THEN head ELSE SEGSIZE * (head - SEGSIZE + 1))
           ELSE IF type < 0
           THEN sc_read_sparse(d, rest, 1, head - (SEGSIZE + RawSegs))
           ELSE IF type \in 2 .. MaxType /\ rest # <<>>
           THEN sc_read_sparse(d, Drop(rest, 1), type, Head(rest) % 2 ^ ByteBits)
           ELSE Failed(rest)
===============================================================================
