----------------------------- MODULE PaulieBuffer -----------------------------
(***************************************************************************)
(* The life of pauliebits objects: creation, the buffer protocol in both   *)
(* directions, freezing, and the methods that resize or overwrite.         *)
(*                                                                         *)
(* Methods run one at a time, as they do under the GIL or inside one       *)
(* critical section of the free-threaded build.  obj[o] is the C struct,   *)
(* mem[o] the memory that o allocated, which importers of o's buffer also  *)
(* use, and views[o] counts the writable (w) and read-only (r)             *)
(* memoryviews of o held outside.                                          *)
(***************************************************************************)
EXTENDS PaulieObject, FiniteSets

CONSTANTS
  MaxViews,       \* bound on the memoryviews of one object
  Endians,        \* the bit-endiannesses callers ask for
  MaxItems,       \* bound on the bits taken from one sequence or string
  ReadonlyViews,  \* whether callers import through memoryview.toreadonly()
  Pickling        \* whether callers make arrays from pickled ones

ASSUME CallersAssumption ==
  /\ MaxViews \in Nat /\ MaxItems \in Nat
  /\ Endians \subseteq {LITTLE, BIG}
  /\ ReadonlyViews \in BOOLEAN /\ Pickling \in BOOLEAN

VARIABLES obj, mem, views

vars == <<obj, mem, views>>

MaxBits == ByteBits * MaxBytes

Live(o)   == obj[o].state = "live"
Unborn(o) == obj[o].state = "free"

\* The allocator of the memory o reads and writes.
Home(o) == IF obj[o].item = NoObject THEN o ELSE obj[o].item
Mem(o)  == mem[Home(o)]
Bits(o) == Elements(obj[o], Mem(o))

\* (A slip: only the class is checked.)
NotFrozen(o) == Live(o) /\ ~obj[o].frozen

\* A method that modifies its array gets past the overrides of the class
\* frozenpauliebits and past RAISE_IF_READONLY.
Writable(o) == Live(o) /\ ~obj[o].frozen /\ ~obj[o].readonly

\* What memory holding uninitialized bits may show to a first reader.
Exposed(h, m) ==
  LET unset == {c \in Cells : m[c] = Undef /\ c < ByteBits * h.size}
  IN  {[c \in Cells |-> IF c \in unset THEN f[c] ELSE m[c]] : f \in [unset -> Bit]}

\* The method running on o ends with outcome r.
Commit(o, r) ==
  /\ obj' = [obj EXCEPT ![o] = r.h]
  /\ mem' = [mem EXCEPT ![Home(o)] = r.m]

\* The method ends with some outcome of the set.
Ends(o, outcomes) == (\E r \in outcomes : Commit(o, r)) /\ UNCHANGED views

\* The method only writes to the buffer.
Writes(o, m) == Ends(o, {Outcome(None, obj[o], m)})

-------------------------------------------------------------------------------
(***************************************************************************)
(* Creation and destruction.                                               *)
(***************************************************************************)
\* A frozenpauliebits is not usable before its __init__ has run.
Begun(h) == IF h.frozen THEN [h EXCEPT !.state = "new"] ELSE h

\* pauliebits(n) or pauliebits(n, endian, ...): zeros, or whatever is there.
NewFromIndex(o, frozen, endian, n, m) ==
  /\ Unborn(o)
  /\ LET h == NewObject(o, frozen, endian, n)
     IN  /\ m \in [Cells -> Bit]
         /\ obj' = [obj EXCEPT ![o] = Begun(h)]
         /\ mem' = [mem EXCEPT ![o] = Keep(m, h.size)]
  /\ UNCHANGED views

\* pauliebits(p, endian): an empty array, extended by the elements of p.
NewFromPauliebits(o, frozen, endian, p) ==
  /\ Unborn(o) /\ Live(p)
  /\ LET h == NewObject(o, frozen, endian, 0)
     IN  \E r \in Resize(o, h, Blank, obj[p].nbits) :
           /\ r.err = None
           /\ obj' = [obj EXCEPT ![o] = Begun(r.h)]
           /\ mem' = [mem EXCEPT ![o] =
                        CopyN(r.h, r.m, 0, obj[p], Mem(p), 0, obj[p].nbits)]
  /\ UNCHANGED views

\* pauliebits(buffer=p), where p may be passed as a read-only memoryview.
NewFromBuffer(o, frozen, endian, p, readonly) ==
  /\ Unborn(o) /\ Live(p)
  /\ readonly => ReadonlyViews \/ obj[p].readonly
  /\ obj[p].readonly => readonly
  /\ obj' = [obj EXCEPT
               ![o] = Begun(NewImporter(frozen, endian, p, obj[p], readonly)),
               ![p].exports = @ + 1]
  /\ \E g \in Exposed(obj[p], Mem(p)) : mem' = [mem EXCEPT ![Home(p)] = g]
  /\ UNCHANGED views

\* (A slip: the exporter is not told.)
ReleasedSilently(o) == [obj EXCEPT ![o] = Unused]

\* frozenpauliebits.__init__() calls _freeze(); when that raises, nobody has
\* got hold of the object, and it is deallocated.
Released(o) ==
  LET p == obj[o].buffer
  IN  IF p = NoObject
      THEN [obj EXCEPT ![o] = Unused]
      ELSE [obj EXCEPT ![o] = Unused, ![p].exports = @ - 1]

Freeze(o) ==
  /\ obj[o].state = "new"
  /\ IF obj[o].buffer # NoObject /\ ~obj[o].readonly
     THEN obj' = Released(o) /\ UNCHANGED mem
     ELSE Commit(o, Outcome(None,
                            [obj[o] EXCEPT !.readonly = TRUE, !.state = "live"],
                            SetPadbits(obj[o], Mem(o))))
  /\ UNCHANGED views

\* Nothing refers to o: a view of its buffer would keep it alive.
Dealloc(o) ==
  /\ Live(o)
  /\ views[o].w = 0 /\ views[o].r = 0
  /\ \A p \in Objects : obj[p].buffer # o
  /\ obj' = Released(o)
  /\ mem' = [mem EXCEPT ![o] = Blank]
  /\ UNCHANGED views

\* a.copy(), which keeps the type.
Copy(o, p) ==
  /\ Unborn(o) /\ Live(p)
  /\ LET r == FreezeIfFrozen(NewObject(o, obj[p].frozen, obj[p].endian,
                                       obj[p].nbits), Mem(p))
     IN  obj' = [obj EXCEPT ![o] = r.h] /\ mem' = [mem EXCEPT ![o] = r.m]
  /\ UNCHANGED views

\* a.not_identity_mask(): one bit for each pair of bits of a, big-endian, and
\* of a's type; the new object is not frozen.
NotIdentityMask(o, p) ==
  LET n == obj[p].nbits \div 2
      h == [NewObject(o, obj[p].frozen, BIG, n) EXCEPT !.state = "live"]
      bits == Bits(p)
      pair(i) == IF bits[2 * i] = 1 \/ bits[2 * i + 1] = 1 THEN 1 ELSE 0
      zero == [c \in Cells |-> IF c < ByteBits * h.size THEN 0 ELSE Undef]
  IN  /\ Unborn(o) /\ Live(p)
      /\ obj' = [obj EXCEPT ![o] = h]
      /\ mem' = [mem EXCEPT ![o] =
                   SetSpan(h, zero, 0, n, [i \in 0 .. (n - 1) |-> pair(i)])]
      /\ UNCHANGED views

\* _pauliebits_reconstructor(), which makes an array of what __reduce__() of
\* some array gave; __init__() does not run.
Reconstruct(o, frozen, readonly, endian, n, m) ==
  LET h == NewObject(o, frozen, endian, n)
  IN  /\ Unborn(o) /\ Pickling
      /\ m \in [Cells -> Bit]
      /\ obj' = [obj EXCEPT ![o] = [h EXCEPT !.readonly = readonly]]
      /\ mem' = [mem EXCEPT ![o] = Keep(IF readonly THEN SetPadbits(h, m) ELSE m, h.size)]
      /\ UNCHANGED views

-------------------------------------------------------------------------------
(***************************************************************************)
(* Buffer exports to memoryviews.                                          *)
(***************************************************************************)
GetBuffer(o) ==
  /\ Live(o)
  /\ views[o].w + views[o].r < MaxViews
  /\ obj' = [obj EXCEPT ![o].exports = @ + 1]
  /\ \E g \in Exposed(obj[o], Mem(o)) : mem' = [mem EXCEPT ![Home(o)] = g]
  /\ views' = IF obj[o].readonly THEN [views EXCEPT ![o].r = @ + 1]
                                 ELSE [views EXCEPT ![o].w = @ + 1]

ReleaseBuffer(o) ==
  /\ views[o].w + views[o].r > 0
  /\ obj' = [obj EXCEPT ![o].exports = @ - 1]
  /\ \/ views[o].w > 0 /\ views' = [views EXCEPT ![o].w = @ - 1]
     \/ views[o].r > 0 /\ views' = [views EXCEPT ![o].r = @ - 1]
  /\ UNCHANGED mem

\* The holder of a writable memoryview of o writes.
ViewWrite(o, c, v) ==
  /\ views[o].w > 0
  /\ c < ByteBits * obj[o].size
  /\ mem' = [mem EXCEPT ![Home(o)][c] = v]
  /\ UNCHANGED <<obj, views>>

-------------------------------------------------------------------------------
(***************************************************************************)
(* Methods that resize.  Each comes as the set of its outcomes and as the  *)
(* action that ends with one of them.                                      *)
(***************************************************************************)
\* (A slip: the buffer is resized in spite of its exports.)
ResizedAnyway(o, nbits) == Resize(o, [obj[o] EXCEPT !.exports = 0], Mem(o), nbits)

Resized(o, nbits) == Resize(o, obj[o], Mem(o), nbits)

Appended(o, v) ==
  LET n == obj[o].nbits
  IN  Then(Resized(o, n + 1), LAMBDA r : {Outcome(None, r.h, SetBit(r.h, r.m, n, v))})

Inserted(o, i, v) ==
  Then(InsertN(o, obj[o], Mem(o), i, 1),
       LAMBDA r : {Outcome(None, r.h, SetBit(r.h, r.m, i, v))})

\* a.pop(i), a.remove(v) once it has found v at i, and del a[i].
Popped(o, i) == DeleteN(o, obj[o], Mem(o), i, 1)

\* a.extend(p) for an array p, which may be a itself.
Extended(o, p) ==
  LET n == obj[o].nbits
      k == obj[p].nbits
  IN  Then(Resized(o, n + k),
           LAMBDA r : {Outcome(None, r.h,
             IF p = o THEN CopyN(r.h, r.m, n, r.h, r.m, 0, k)
                      ELSE CopyN(r.h, r.m, n, obj[p], Mem(p), 0, k))})

\* The stored items of a sequence of length k.
Items(k) == [0 .. (k - 1) -> Bit]

\* a.extend(s) for a string or a sequence of k items: one resize for all items,
\* another when characters were ignored and only those of f are stored.
ExtendedBySequence(o, f, k) ==
  LET n == obj[o].nbits
      used == Cardinality(DOMAIN f)
  IN  Then(Resized(o, n + k),
           LAMBDA r : Resize(o, r.h, SetSpan(r.h, r.m, n, used, f), n + used))

\* An item is not a bit: a ValueError, after the array got its length back.
Failed(outcomes) == {Outcome("ValueError", r.h, r.m) : r \in outcomes}

\* (A slip: no rollback.)
FailedHalfway(o, f, k) ==
  LET n == obj[o].nbits
      used == Cardinality(DOMAIN f)
  IN  Failed(Then(Resized(o, n + k),
                  LAMBDA r : {Outcome(None, r.h, SetSpan(r.h, r.m, n, used, f))}))

\* a.extend(s) for a string or a sequence of k items, of which the one behind those
\* of f is not a bit: these have been stored.
FailedSequence(o, f, k) ==
  LET n == obj[o].nbits
      used == Cardinality(DOMAIN f)
  IN  Then(Resized(o, n + k),
           LAMBDA r : Failed(Resize(o, r.h, SetSpan(r.h, r.m, n, used, f), n)))

\* a.extend(iterator) which fails on its first item, because the item is not a
\* bit or because there is no room for it; extend_iter() rolls back in both
\* cases.
FailedIter(o) ==
  Failed(UNION {Resize(o, r.h, r.m, obj[o].nbits) :
                  r \in Resized(o, obj[o].nbits + 1)})

\* a.frombytes(p): a holds an export of p while it resizes, even when p is a;
\* g is what p's buffer shows.
ExtendedByBytes(o, p, g) ==
  LET n    == obj[o].size
      pad  == PADBITS(obj[o].nbits)
      held == IF p = o THEN [obj[o] EXCEPT !.exports = @ + 1] ELSE obj[o]
      tail(r) == [c \in Cells |->
        IF c \in ByteBits * n .. (ByteBits * (n + obj[p].size) - 1)
        THEN g[c - ByteBits * n] ELSE r.m[c]]
  IN  {Outcome(r.err, [r.h EXCEPT !.exports = obj[o].exports], r.m) :
         r \in Then(Resize(o, held, Mem(o), ByteBits * (n + obj[p].size)),
                    LAMBDA r : DeleteN(o, r.h, tail(r), ByteBits * n - pad, pad))}

\* a.pack(p): one bit for each byte of p, which is not 0 if any of its bits is 1;
\* a holds an export of p meanwhile.
Packed(o, p, g) ==
  LET n    == obj[o].nbits
      k    == obj[p].size
      held == IF p = o THEN [obj[o] EXCEPT !.exports = @ + 1] ELSE obj[o]
      byte(i) == ByteBits * i .. (ByteBits * i + ByteBits - 1)
      bits == [i \in 0 .. (k - 1) |-> IF \E c \in byte(i) : g[c] = 1 THEN 1 ELSE 0]
  IN  {Outcome(r.err, [r.h EXCEPT !.exports = obj[o].exports], r.m) :
         r \in Then(Resize(o, held, Mem(o), n + k),
                    LAMBDA r : {Outcome(None, r.h, SetSpan(r.h, r.m, n, k, bits))})}

\* a *= k
Repeated(o, k) ==
  LET n == obj[o].nbits
  IN  IF n = 0 \/ k = 1
      THEN {Outcome(None, obj[o], Mem(o))}
      ELSE Then(Resized(o, n * k), LAMBDA r : {Outcome(None, r.h,
             SetSpan(r.h, r.m, 0, n * k,
                     [i \in 0 .. (n * k - 1) |-> GetBit(r.h, r.m, i % n)]))})

\* a.encode_ixyz(s): two bits for each of len characters replace the elements
\* and the endianness; f is the encoding, padded with zeros.
EncodedIxyz(o, f, len) ==
  Then(Resized(o, 2 * len),
       LAMBDA r : LET h == [r.h EXCEPT !.endian = BIG]
                  IN  {Outcome(None, h, SetPadbits(h,
                         SetSpan(h, r.m, 0, 2 * len, f)))})

\* a[start:stop] = p; a copy of p is taken if the buffers overlap.
SliceAssigned(o, p, start, stop) ==
  LET len      == stop - start
      k        == obj[p].nbits
      increase == k - len
      copied   == BuffersOverlap(obj[o], obj[p])
      source(r) == IF Home(p) = Home(o) /\ ~copied THEN r.m ELSE Mem(p)
      room     == CASE increase > 0 ->
                         InsertN(o, obj[o], Mem(o), start + len, increase)
                    [] increase < 0 ->
                         DeleteN(o, obj[o], Mem(o), start + k, -increase)
                    [] OTHER -> {Outcome(None, obj[o], Mem(o))}
  IN  Then(room, LAMBDA r :
        {Outcome(None, r.h, CopyN(r.h, r.m, start, obj[p], source(r), 0, k))})

Fits(n) == n <= MaxBits

Append(o, v) ==
  Writable(o) /\ Fits(obj[o].nbits + 1) /\ Ends(o, Appended(o, v))

Insert(o, i, v) ==
  /\ Writable(o) /\ i <= obj[o].nbits /\ Fits(obj[o].nbits + 1)
  /\ Ends(o, Inserted(o, i, v))

Pop(o, i) == Writable(o) /\ i < obj[o].nbits /\ Ends(o, Popped(o, i))

Clear(o) == Writable(o) /\ Ends(o, Resized(o, 0))

CanExtend(o, p) ==
  Writable(o) /\ Live(p) /\ Fits(obj[o].nbits + obj[p].nbits)

Extend(o, p) == CanExtend(o, p) /\ Ends(o, Extended(o, p))

CanTake(o, k) == Writable(o) /\ Fits(obj[o].nbits + k)

ExtendSequence(o, f, k) == CanTake(o, k) /\ Ends(o, ExtendedBySequence(o, f, k))

ExtendSequenceError(o, f, k) == CanTake(o, k) /\ Ends(o, FailedSequence(o, f, k))

ExtendIterError(o) == CanTake(o, 1) /\ Ends(o, FailedIter(o))

FromBytes(o, p) ==
  /\ Writable(o) /\ Live(p) /\ Fits(ByteBits * (obj[o].size + obj[p].size))
  /\ \E g \in Exposed(obj[p], Mem(p)) : Ends(o, ExtendedByBytes(o, p, g))

Pack(o, p) ==
  /\ Writable(o) /\ Live(p) /\ Fits(obj[o].nbits + obj[p].size)
  /\ \E g \in Exposed(obj[p], Mem(p)) : Ends(o, Packed(o, p, g))

Repeat(o, k) ==
  Writable(o) /\ Fits(obj[o].nbits * k) /\ Ends(o, Repeated(o, k))

EncodeIxyz(o, f, len) ==
  Writable(o) /\ Fits(2 * len) /\ Ends(o, EncodedIxyz(o, f, len))

CanSetSlice(o, p, start, stop) ==
  /\ Writable(o) /\ Live(p)
  /\ start <= stop /\ stop <= obj[o].nbits
  /\ Fits(obj[o].nbits + obj[p].nbits - (stop - start))

SetSlice(o, p, start, stop) ==
  CanSetSlice(o, p, start, stop) /\ Ends(o, SliceAssigned(o, p, start, stop))

-------------------------------------------------------------------------------
(***************************************************************************)
(* Methods that write in place, which imported and exported buffers allow. *)
(***************************************************************************)
SetItem(o, i, v) ==
  Writable(o) /\ i < obj[o].nbits /\ Writes(o, SetBit(obj[o], Mem(o), i, v))

Invert(o) ==
  /\ Writable(o)
  /\ Writes(o, SetSpan(obj[o], Mem(o), 0, obj[o].nbits,
                       [i \in DOMAIN Bits(o) |-> Flip(Bits(o)[i])]))

\* a.setall(v) does not spare the pad bits.
SetAll(o, v) ==
  /\ Writable(o)
  /\ Writes(o, [c \in Cells |-> IF c < ByteBits * obj[o].size THEN v
                                                             ELSE Mem(o)[c]])

\* (A slip: the pad bits are not cleared.)
FilledRaw(o) ==
  {Outcome(None, [obj[o] EXCEPT !.nbits = @ + PADBITS(@)], Mem(o))}

\* a.fill() turns the pad bits into elements without calling resize().
Filled(o) ==
  {Outcome(None, [obj[o] EXCEPT !.nbits = @ + PADBITS(@)],
           SetPadbits(obj[o], Mem(o)))}

Fill(o) == Writable(o) /\ Ends(o, Filled(o))

\* a.reverse(): the whole buffer is reversed, then the pad bits, now leading,
\* are moved out of the way.
Reversed(o) ==
  LET pad   == PADBITS(obj[o].nbits)
      whole == [obj[o] EXCEPT !.nbits = @ + pad]
      m     == SetSpan(whole, Mem(o), 0, whole.nbits,
                 [i \in 0 .. (whole.nbits - 1) |->
                    GetBit(whole, Mem(o), whole.nbits - 1 - i)])
  IN  CopyN(whole, m, 0, whole, m, pad, obj[o].nbits)

Reverse(o) == Writable(o) /\ Writes(o, Reversed(o))

\* a.bytereverse(start, stop) works on the machine representation: it swaps pad
\* bits with elements.
Bytereverse(o, start, stop) ==
  /\ Writable(o)
  /\ start < stop /\ stop <= obj[o].size
  /\ \E g \in Exposed(obj[o], Mem(o)) : Writes(o, ByteReverse(g, start, stop))

\* a &= p, a |= p and a ^= p, byte by byte, pad bits included.
Bitwise(o, p, oper) ==
  /\ Writable(o) /\ Live(p)
  /\ obj[p].nbits = obj[o].nbits /\ obj[p].endian = obj[o].endian
  /\ \E g \in Exposed(obj[o], Mem(o)), k \in Exposed(obj[p], Mem(p)) :
       /\ Home(p) = Home(o) => k = g
       /\ Writes(o, [c \in Cells |->
            IF c < ByteBits * obj[o].size THEN Combined(oper, g[c], k[c]) ELSE Mem(o)[c]])

\* a >>= n, or a <<= n
Shift(o, n, right) ==
  LET h     == obj[o]
      zeros == [i \in 0 .. (n - 1) |-> 0]
  IN  /\ Writable(o) /\ n <= h.nbits
      /\ Writes(o, IF right
           THEN SetSpan(h, CopyN(h, Mem(o), n, h, Mem(o), 0, h.nbits - n), 0, n, zeros)
           ELSE SetSpan(h, CopyN(h, Mem(o), 0, h, Mem(o), n, h.nbits - n), h.nbits - n, n, zeros))

\* a.rotate(k), whichever part it saves
Rotate(o, k) ==
  /\ Writable(o) /\ 0 < k /\ k < obj[o].nbits
  /\ Writes(o, SetSpan(obj[o], Mem(o), 0, obj[o].nbits,
                       [i \in DOMAIN Bits(o) |-> Bits(o)[(i - k + obj[o].nbits) % obj[o].nbits]]))

\* a.sort(reverse)
Sort(o, reverse) ==
  /\ Writable(o)
  /\ \E g \in Exposed(obj[o], Mem(o)) :
       LET x    == Elements(obj[o], g)
           cnt1 == Cardinality({i \in DOMAIN x : x[i] = 1})
           one(i) == IF reverse THEN i < cnt1 ELSE i >= obj[o].nbits - cnt1
       IN  Writes(o, SetSpan(obj[o], g, 0, obj[o].nbits,
                             [i \in DOMAIN x |-> IF one(i) THEN 1 ELSE 0]))

\* a.tobytes(), bytes(a) and a.__reduce__(), for any array: zero pad bits, unless
\* read-only.
ToBytes(o) == Live(o) /\ Writes(o, SetPadbits(obj[o], Mem(o)))

-------------------------------------------------------------------------------
Init ==
  /\ obj   = [o \in Objects |-> Unused]
  /\ mem   = [o \in Objects |-> Blank]
  /\ views = [o \in Objects |-> [w |-> 0, r |-> 0]]

Creation(o) ==
  \/ \E fz \in BOOLEAN, e \in Endians, n \in 0 .. MaxBits :
       \E m \in [Cells -> Bit] :
         \/ NewFromIndex(o, fz, e, n, m)
         \/ \E ro \in BOOLEAN : Reconstruct(o, fz, ro, e, n, m)
  \/ \E fz \in BOOLEAN, e \in Endians, p \in Objects :
       \/ NewFromPauliebits(o, fz, e, p)
       \/ \E ro \in BOOLEAN : NewFromBuffer(o, fz, e, p, ro)
  \/ \E p \in Objects : Copy(o, p) \/ NotIdentityMask(o, p)
  \/ Freeze(o)
  \/ Dealloc(o)

Exporting(o) ==
  \/ GetBuffer(o)
  \/ ReleaseBuffer(o)
  \/ \E c \in Cells, v \in Bit : ViewWrite(o, c, v)

Resizing(o) ==
  \/ \E v \in Bit : Append(o, v)
  \/ \E v \in Bit, i \in 0 .. MaxBits : Insert(o, i, v)
  \/ \E i \in 0 .. (MaxBits - 1) : Pop(o, i)
  \/ Clear(o)
  \/ \E k \in 1 .. MaxItems, u \in 0 .. MaxItems : \E f \in Items(u) :
       u <= k /\ ExtendSequence(o, f, k)
  \/ \E k \in 1 .. (MaxItems + 1), u \in 0 .. MaxItems : \E f \in Items(u) :
       u < k /\ ExtendSequenceError(o, f, k)
  \/ ExtendIterError(o)
  \/ \E p \in Objects : Extend(o, p) \/ FromBytes(o, p) \/ Pack(o, p)
  \/ \E k \in 0 .. (MaxItems + 1) : Repeat(o, k)
  \/ \E k \in 0 .. MaxItems : \E f \in Items(2 * k) : EncodeIxyz(o, f, k)
  \/ \E p \in Objects, i, j \in 0 .. MaxBits : SetSlice(o, p, i, j)

InPlace(o) ==
  \/ \E v \in Bit, i \in 0 .. (MaxBits - 1) : SetItem(o, i, v)
  \/ \E v \in Bit : SetAll(o, v)
  \/ Invert(o)
  \/ Fill(o)
  \/ Reverse(o)
  \/ \E p \in Objects, oper \in Operators : Bitwise(o, p, oper)
  \/ \E n \in 0 .. MaxBits, b \in BOOLEAN : Shift(o, n, b)
  \/ \E k \in 1 .. MaxBits : Rotate(o, k)
  \/ \E b \in BOOLEAN : Sort(o, b)
  \/ \E i, j \in 0 .. MaxBytes : Bytereverse(o, i, j)
  \/ ToBytes(o)

Next == \E o \in Objects : Creation(o) \/ Exporting(o) \/ Resizing(o) \/ InPlace(o)

Spec == Init /\ [][Next]_vars

-------------------------------------------------------------------------------
(***************************************************************************)
(* Invariants.                                                             *)
(***************************************************************************)
\* The types of the variables.
HeadersOK == obj \in [Objects -> Header] /\ views \in [Objects -> [w : Nat, r : Nat]]

TypeOK == HeadersOK /\ mem \in [Objects -> Block]

\* What the test suite's check_obj() expects of the header of every array,
\* whatever methods ran before: the buffer has exactly the bytes its bits need,
\* an imported buffer has no allocation and no pad bits, an own one has at
\* least the bytes in use, and a null pointer goes with no memory.  (The last
\* thing it expects, that a plain array that owns its buffer is writable, is
\* not so after the pickling of a read-only one, which test_readonly() expects.)
HeaderOK(h) ==
  /\ h.size = BYTES(h.nbits)
  /\ h.buffer # NoObject => h.allocated = 0 /\ h.nbits = ByteBits * h.size
  /\ h.buffer = NoObject => h.allocated >= h.size
  /\ h.item = NoObject => h.size = 0 /\ h.allocated = 0

CheckObj == \A o \in Objects : HeaderOK(obj[o])

\* An imported buffer is the exporter's buffer as it is now: the exporter is
\* alive and has neither moved nor resized it since, and whoever imports
\* read-only memory got it read-only.  Memory in use belongs to an array that
\* is alive.  (Dangling pointers otherwise.)
ImportsValid ==
  /\ \A o, p \in Objects :
       obj[o].buffer = p =>
         /\ Live(p)
         /\ obj[o].item = obj[p].item
         /\ obj[o].size = obj[p].size
         /\ obj[p].readonly => obj[o].readonly
  /\ \A o, p \in Objects :
       obj[o].item = p =>
         /\ ~Unborn(p)
         /\ obj[p].item = p
         /\ obj[p].buffer = NoObject
  /\ \A o \in Objects : views[o].w > 0 => ~obj[o].readonly

Importers(o) == {p \in Objects : obj[p].buffer = o}

\* ob_exports, which alone stands between a resize and the users of a buffer,
\* counts them exactly; no release is lost when freezing a new importer fails.
ExportsCounted ==
  \A o \in Objects :
    obj[o].exports = Cardinality(Importers(o)) + views[o].w + views[o].r

\* The pad bits of a frozen array are zero (check_obj(), and __hash__ and
\* bytes() of frozen arrays rely on it), whatever they were before freezing.
FrozenPadsZero ==
  \A o \in Objects :
    Live(o) /\ obj[o].frozen /\ obj[o].readonly =>
      \A c \in PadCells(obj[o]) : Mem(o)[c] = 0

\* No method lets uninitialized memory become elements of an array: not the
\* bytes resize() adds, nor pad bits that a later method turns into elements.
\* (Only what works on the machine representation sees them: the buffer
\* protocol, frombytes() and bytereverse().)
NoGarbage ==
  \A o \in Objects : \A i \in DOMAIN Bits(o) : Bits(o)[i] \in Bit

\* What copy_n() asserts of its callers: two distinct arrays never get there with
\* overlapping buffers.  An extend() of one by the other has raised before,
\* because the buffer is pinned, and a slice assignment has taken a copy.
CopiesDisjoint ==
  \A o, p \in Objects : p # o /\ Home(p) = Home(o) /\ obj[o].size > 0 =>
    /\ CanExtend(o, p) => \A r \in Extended(o, p) : r.err # None
    /\ \A i, j \in 0 .. obj[o].nbits : CanSetSlice(o, p, i, j) =>
         \/ BuffersOverlap(obj[o], obj[p])
         \/ \A r \in SliceAssigned(o, p, i, j) : r.err # None

\* Every frozenpauliebits has read-only memory, as check_obj() asserts.
FrozenIsReadonly ==
  \A o \in Objects : Live(o) /\ obj[o].frozen => obj[o].readonly

-------------------------------------------------------------------------------
(***************************************************************************)
(* Action properties.                                                      *)
(***************************************************************************)
Stays(o) == Live(o) /\ Live(o)'

\* As long as a buffer is exported or imported it stays where it is and keeps
\* its size, through failing methods too; fill() may use up its pad bits.
SharedBufferPinned ==
  [][\A o \in Objects : Stays(o) /\ Pinned(obj[o]) =>
       /\ obj'[o].item = obj[o].item
       /\ obj'[o].size = obj[o].size
       /\ obj'[o].nbits \in {obj[o].nbits, ByteBits * obj[o].size}]_vars

\* g has the elements of f; one that nobody has set may show any value.
StillThere(f, g) ==
  DOMAIN g = DOMAIN f /\ \A i \in DOMAIN f : f[i] # Undef => g[i] = f[i]

\* The elements of a read-only array never change, neither through methods of
\* its own nor through anyone who shares its memory.
ReadonlyImmutable ==
  [][\A o \in Objects : Stays(o) /\ obj[o].readonly => StillThere(Bits(o), Bits(o)')]_vars

-------------------------------------------------------------------------------
(***************************************************************************)
(* What the methods do to the elements, stated of all outcomes that a      *)
(* method would have in the present state.                                 *)
(***************************************************************************)
\* f followed by g; f with positions start .. stop - 1 replaced by g.
Joined(f, m, g, n) ==
  [i \in 0 .. (m + n - 1) |-> IF i < m THEN f[i] ELSE g[i - m]]
Spliced(f, m, start, stop, g, n) ==
  [i \in 0 .. (m - (stop - start) + n - 1) |->
     IF i < start THEN f[i]
     ELSE IF i < start + n THEN g[i - start] ELSE f[i - n + (stop - start)]]

\* Every outcome either raises or leaves these elements.
Yields(outcomes, elements) ==
  \A r \in outcomes : r.err = None => Elements(r.h, r.m) = elements

\* Seen from outside the arrays are lists: extend(), insert(), pop(), slice
\* assignment and reverse() do what they do to lists, whatever the pad bits, the
\* endiannesses and the allocation are, and also when both arguments are the
\* same array or share their memory.
ListSemantics ==
  \A o \in Objects : Writable(o) =>
    LET n == obj[o].nbits
    IN  /\ \A p \in Objects : CanExtend(o, p) =>
             Yields(Extended(o, p), Joined(Bits(o), n, Bits(p), obj[p].nbits))
        /\ \A i \in 0 .. n, v \in Bit : Fits(n + 1) =>
             Yields(Inserted(o, i, v), Spliced(Bits(o), n, i, i, [x \in {0} |-> v], 1))
        /\ \A i \in 0 .. (n - 1) :
             Yields(Popped(o, i), Spliced(Bits(o), n, i, i + 1, << >>, 0))
        /\ \A p \in Objects, i, j \in 0 .. n : CanSetSlice(o, p, i, j) =>
             Yields(SliceAssigned(o, p, i, j),
                    Spliced(Bits(o), n, i, j, Bits(p), obj[p].nbits))
        /\ Elements(obj[o], Reversed(o)) = [i \in 0 .. (n - 1) |-> Bits(o)[n - 1 - i]]

\* An extend() that fails because an item is not a bit, or because the buffer is
\* shared, leaves the elements alone, although it may have resized the array
\* and stored any number of items before the bad one.
FailedExtendRestores ==
  \A o \in Objects : Writable(o) =>
    /\ CanTake(o, 1) =>
         \A r \in FailedIter(o) : Elements(r.h, r.m) = Bits(o)
    /\ \A k \in 1 .. MaxBits, u \in 0 .. (MaxBits - 1) :
         u < k /\ CanTake(o, k) =>
           \A f \in Items(u) : \A r \in FailedSequence(o, f, k) :
             Elements(r.h, r.m) = Bits(o)
===============================================================================
