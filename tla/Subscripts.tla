------------------------------ MODULE Subscripts ------------------------------
(***************************************************************************)
(* a[key], a[key] = value and del a[key], where key is an extended slice,  *)
(* a mask or a sequence of indices, and where the arrays involved may      *)
(* share memory: one exports its buffer, others import it or a part of it. *)
(*                                                                         *)
(* mem is the exported buffer, as a row of elements (the arrays have the   *)
(* same bit order), and self an array in it.  The loops of the code are    *)
(* functions from the number of turns to what these turns have done, so    *)
(* that reads see the writes before them.                                  *)
(***************************************************************************)
EXTENDS SliceIndices, Sequences, SequencesExt

CONSTANTS
  ByteBits,     \* bits per byte: buffers are imported from a byte on
  Bits,         \* number of bits of the exported buffer
  Contents,     \* its contents at the start
  MaxStep,      \* bound on the size of steps
  MaxIndices,   \* bound on the length of sequences of indices
  MaxMask,      \* bound on the length of masks
  MaxCalls,     \* bound on the number of calls
  GilDisabled   \* the free-threaded build

ASSUME SubscriptsAssumption ==
  /\ ByteBits \in Nat \ {0} /\ Bits \in Nat /\ Bits % ByteBits = 0
  /\ Contents \subseteq [0 .. (Bits - 1) -> {0, 1}]
  /\ MaxStep \in 0 .. MaxInt /\ Bits < MaxInt
  /\ MaxIndices \in Nat /\ MaxMask \in Nat /\ MaxCalls \in Nat
  /\ GilDisabled \in BOOLEAN

VARIABLES self, mem, calls

vars == <<self, mem, calls>>

None == "None"

\* An array in the exported buffer.  If it is pinned, another array shares its
\* memory, so that it cannot be resized.
Shared(off, nbits, pinned) ==
  [own |-> <<>>, off |-> off, nbits |-> nbits, shared |-> TRUE, pinned |-> pinned]

\* An array with a buffer of its own that holds the bits f.
Own(f, nbits) ==
  [own |-> f, off |-> 0, nbits |-> nbits, shared |-> FALSE, pinned |-> FALSE]

Importers ==
  {Shared(ByteBits * p, ByteBits * k, TRUE) :
     p \in 0 .. (Bits \div ByteBits - 1), k \in 0 .. (Bits \div ByteBits)}

Within(v) == v.off + v.nbits <= Bits

\* Beyond the end of an array, memory holds anything, for instance zeros.
getbit(v, m, i) == IF i >= v.nbits THEN 0 ELSE IF v.shared THEN m[v.off + i] ELSE v.own[i]
setbit(v, m, i, b) == [m EXCEPT ![v.off + i] = b]

List(v, m) == [i \in 0 .. (v.nbits - 1) |-> getbit(v, m, i)]

\* pauliebits_cp()
Copy(v, m) == Own(List(v, m), v.nbits)

Bytes(v) == (v.nbits + ByteBits - 1) \div ByteBits

\* (A slip: only arrays that begin at the same address overlap.)
SameStart(v, w) == v.shared /\ w.shared /\ v.off = w.off /\ v.nbits > 0

\* buffers_overlap()
Overlap(v, w) ==
  /\ v.shared /\ w.shared /\ Bytes(v) > 0 /\ Bytes(w) > 0
  /\ \/ w.off \in v.off .. (v.off + ByteBits * Bytes(v) - 1)
     \/ v.off \in w.off .. (w.off + ByteBits * Bytes(w) - 1)

Source(v, w, m) == IF Overlap(v, w) THEN Copy(w, m) ELSE w

\* copy_n() within one array, which copes with overlapping ranges
CopyN(v, m, a, b, n) ==
  [c \in 0 .. (Bits - 1) |->
     IF c - v.off \in a .. (a + n - 1) THEN m[c - a + b] ELSE m[c]]

Outcome(err, v, m) == [err |-> err, v |-> v, mem |-> m]
Refused(err) == Outcome(err, self, mem)

\* resize() to a smaller size, or the same
Resize(v, m, nbits) ==
  IF v.pinned THEN Outcome("BufferError", v, m)
              ELSE Outcome(None, [v EXCEPT !.nbits = nbits], m)

\* (A slip: one element too many goes.)
DeleteOneMore(v, m, start, n) ==
  Resize(v, CopyN(v, m, start, start + n, v.nbits - start - n), v.nbits - n - 1)

DeleteN(v, m, start, n) ==
  Resize(v, CopyN(v, m, start, start + n, v.nbits - start - n), v.nbits - n)

-------------------------------------------------------------------------------
(* Slices *)

Adjusted(start, stop, step) == AdjustIndices(self.nbits, start, stop, step)

\* a[s]
GetSlice(s) == [j \in 0 .. (s.length - 1) |-> getbit(self, mem, SliceElement(s, j))]

\* a[s] = other, for a step other than 1
SetSlice(s, other) ==
  LET src == Source(self, other, mem)
      done[j \in 0 .. s.length] ==
        IF j = 0 THEN mem
        ELSE setbit(self, done[j - 1], SliceElement(s, j - 1),
                    getbit(src, done[j - 1], j - 1))
  IN  IF src.nbits # s.length THEN Refused("ValueError")
      ELSE Outcome(None, self, done[s.length])

\* (A slip: the last element is left out.)
VisitedBefore(t) == {i \in t.start .. (t.stop - 2) : (i - t.start) % t.step = 0}

\* The elements that set_range(), invert_range() and count_range() visit:
\*    for (i = start; i < stop; i += step)
\* One turn more than there are elements shows a loop that does not end in time.
Visited(t) ==
  LET Index(k) == Wrap(t.start + k * t.step)
  IN  {Index(k) : k \in {k \in 0 .. self.nbits : \A j \in 0 .. k : Index(j) < t.stop}}

\* a[s] = vi
SetSliceBool(s, vi) ==
  LET at == Visited(AdjustStepPositive(s))
  IN  Outcome(None, self, [c \in 0 .. (Bits - 1) |->
                             IF c - self.off \in at THEN vi ELSE mem[c]])

\* a.invert(s)
InvertSlice(s) ==
  LET at == Visited(AdjustStepPositive(s))
  IN  Outcome(None, self, [c \in 0 .. (Bits - 1) |->
                             IF c - self.off \in at THEN 1 - mem[c] ELSE mem[c]])

\* a.count(vi, s)
CountSlice(s, vi) ==
  LET cnt == Cardinality({i \in Visited(AdjustStepPositive(s)) : getbit(self, mem, i) = 1})
  IN  IF vi = 1 THEN cnt ELSE s.length - cnt

\* What del a[s] does before it shortens the array, if the step is at least 4:
\* the runs of elements between those that are deleted move down.
MoveRuns(t) ==
  LET runs == (t.stop - t.start - 1 + t.step - 1) \div t.step
      Length(r) == Min({t.step - 1, t.stop - (t.start + 1 + (r - 1) * t.step)})
      done[r \in 0 .. runs] ==
        IF r = 0 THEN [m |-> mem, j |-> t.start]
        ELSE [m |-> CopyN(self, done[r - 1].m, done[r - 1].j,
                          t.start + 1 + (r - 1) * t.step, Length(r)),
              j |-> done[r - 1].j + Length(r)]
  IN  IF t.stop <= t.start + 1 THEN mem ELSE done[runs].m

\* The same for steps 2 and 3, element by element.
MoveElements(t) ==
  LET done[i \in (t.start + 1) .. t.stop] ==
        IF i = t.start + 1 THEN [m |-> mem, j |-> t.start]
        ELSE LET p == done[i - 1]
             IN  IF (i - 1 - t.start) % t.step = 0 THEN p
                 ELSE [m |-> setbit(self, p.m, p.j, getbit(self, p.m, i - 1)),
                       j |-> p.j + 1]
  IN  IF t.stop <= t.start + 1 THEN mem ELSE done[t.stop].m

\* del a[s]
DelSlice(s) ==
  LET t == AdjustStepPositive(s)
      m == CASE t.step = 1 -> mem [] t.step \in 2 .. 3 -> MoveElements(t)
             [] t.step >= 4 -> MoveRuns(t)
  IN  DeleteN(self, m, t.stop - t.length, t.length)

-------------------------------------------------------------------------------
(* Masks *)

Ones(v) == {i \in 0 .. (v.nbits - 1) : getbit(v, mem, i) = 1}

\* a[mask]
GetMask(mask) ==
  LET n == Cardinality(Ones(mask))
      done[i \in 0 .. mask.nbits] ==
        IF i = 0 THEN [f |-> <<>>, j |-> 0]
        ELSE IF getbit(mask, mem, i - 1) = 0 THEN done[i - 1]
        ELSE [f |-> Append(done[i - 1].f, getbit(self, mem, i - 1)),
              j |-> done[i - 1].j + 1]
  IN  done[mask.nbits].f

\* (A slip: the free-threaded build does not copy either.)
NeverCopied(other) == other

\* What a[mask] = other reads from.
MaskSource(other) == IF GilDisabled THEN Copy(other, mem) ELSE other

\* The loop of a[mask] = src: the memory, and how many bits were read from src.
MaskLoop(mask, src) ==
  LET done[i \in 0 .. mask.nbits] ==
        IF i = 0 THEN [m |-> mem, j |-> 0]
        ELSE LET p == done[i - 1]
             IN  IF getbit(mask, p.m, i - 1) = 0 THEN p
                 ELSE [m |-> setbit(self, p.m, i - 1, getbit(src, p.m, p.j)),
                       j |-> p.j + 1]
  IN  done[mask.nbits]

\* a[mask] = other
SetMask(mask, other) ==
  LET src == MaskSource(other)
  IN  IF mask.nbits # self.nbits \/ Cardinality(Ones(mask)) # src.nbits
      THEN Refused("IndexError")
      ELSE Outcome(None, self, MaskLoop(mask, src).m)

\* delmask_lock_held(), with a mask of the same length
DelMaskLocked(mask) ==
  LET n   == self.nbits
      cnt == Cardinality(Ones(mask))
      done[i \in 0 .. n] ==
        IF i = 0 THEN [m |-> mem, n |-> 0]
        ELSE LET p == done[i - 1]
             IN  IF getbit(mask, p.m, i - 1) # 0 THEN p
                 ELSE [m |-> setbit(self, p.m, p.n, getbit(self, p.m, i - 1)),
                       n |-> p.n + 1]
  IN  CASE cnt = 0 -> Resize(self, mem, n)
        [] cnt # 0 /\ cnt = n -> Resize(self, mem, 0)
        [] cnt = 1 /\ cnt # n -> DeleteN(self, mem, Min(Ones(mask)), 1)
        [] cnt > 1 /\ cnt # n -> Resize(self, done[n].m, done[n].n)

\* del a[mask]
DelMask(mask) ==
  IF mask.nbits # self.nbits THEN Refused("IndexError") ELSE DelMaskLocked(mask)

-------------------------------------------------------------------------------
(* Sequences of indices, each of which may be out of range *)

Normalized(k) == IF k < 0 THEN k + self.nbits ELSE k
InRange(seq) == \A j \in DOMAIN seq : Normalized(seq[j]) \in 0 .. (self.nbits - 1)

\* a[seq]
GetSeq(seq) == [j \in 1 .. Len(seq) |-> getbit(self, mem, Normalized(seq[j]))]

\* a[seq] = other
SetSeq(seq, other) ==
  LET src == Source(self, other, mem)
      done[j \in 0 .. Len(seq)] ==
        IF j = 0 THEN mem
        ELSE setbit(self, done[j - 1], Normalized(seq[j]), getbit(src, done[j - 1], j - 1))
  IN  CASE ~InRange(seq) -> Refused("IndexError")
        [] InRange(seq) /\ other.nbits # Len(seq) -> Refused("ValueError")
        [] InRange(seq) /\ other.nbits = Len(seq) ->
             Outcome(None, self, done[Len(seq)])

\* a[seq] = vi
SetSeqBool(seq, vi) ==
  LET at == {Normalized(seq[j]) : j \in DOMAIN seq}
  IN  IF ~InRange(seq) THEN Refused("IndexError")
      ELSE Outcome(None, self, [c \in 0 .. (Bits - 1) |-> IF c - self.off \in at THEN vi ELSE mem[c]])

\* del a[seq], through a mask
DelSeq(seq) ==
  LET mask == [i \in 0 .. (self.nbits - 1) |->
                 IF \E j \in DOMAIN seq : Normalized(seq[j]) = i THEN 1 ELSE 0]
  IN  IF ~InRange(seq) THEN Refused("IndexError")
      ELSE DelMaskLocked(Own(mask, self.nbits))

-------------------------------------------------------------------------------
\* Arrays of n bits that may be given beside self: self, arrays that share
\* memory with it, and others, of which those with a single one are enough.
OneHot(n) == {[i \in 0 .. (n - 1) |-> IF i = k THEN 1 ELSE 0] : k \in 0 .. n}
Sharing == {self} \union (IF self.pinned THEN Importers ELSE {})
Others(n) ==
  {v \in Sharing : v.nbits = n /\ Within(v)} \union {Own(f, n) : f \in OneHot(n)}

OwnMasks ==
  IF self.nbits > MaxMask THEN {}
  ELSE {Own(f, self.nbits) : f \in [0 .. (self.nbits - 1) -> {0, 1}]}

Slices ==
  {Adjusted(start, stop, step) : start, stop \in (-1) .. (self.nbits + 1),
                                 step \in (-MaxStep .. MaxStep) \ {0}}

Indices == (-(self.nbits + 1)) .. self.nbits
Sequences == UNION {[1 .. k -> Indices] : k \in 0 .. MaxIndices}

Init ==
  /\ self \in {Shared(0, n, FALSE) : n \in 0 .. Bits}
              \union {Shared(0, n, TRUE) : n \in {n \in 0 .. Bits : n > Bits - ByteBits}}
              \union {v \in Importers : Within(v)}
  /\ mem \in Contents
  /\ calls = 0

Return(r) ==
  /\ calls < MaxCalls /\ calls' = calls + 1
  /\ self' = r.v /\ mem' = r.mem

AssignBit   == \E vi \in {0, 1} : \/ \E s \in Slices : Return(SetSliceBool(s, vi))
                                  \/ \E seq \in Sequences : Return(SetSeqBool(seq, vi))
Invert      == \E s \in Slices : Return(InvertSlice(s))
AssignSlice == \E s \in Slices : \E n \in {s.length, s.length + 1} :
                 \E other \in Others(n) : s.step # 1 /\ Return(SetSlice(s, other))
AssignMask  == \E mask \in OwnMasks \union {self} :
                 \E n \in {Cardinality(Ones(mask)), Cardinality(Ones(mask)) + 1} :
                   \E other \in Others(n) : Return(SetMask(mask, other))
AssignSeq   == \E seq \in Sequences, n \in 0 .. MaxIndices : \E other \in Others(n) :
                 Return(SetSeq(seq, other))
DeleteSlice == \E s \in Slices : Return(DelSlice(s))
DeleteMask  == \E mask \in OwnMasks \union {self} : Return(DelMask(mask))
DeleteSeq   == \E seq \in Sequences : Return(DelSeq(seq))

Next ==
  \/ DeleteMask \/ DeleteSeq \/ DeleteSlice
  \/ AssignMask \/ AssignSlice \/ AssignSeq \/ AssignBit \/ Invert

Spec == Init /\ [][Next]_vars

\* The properties below are about the next call, if there is one.
Calling == calls < MaxCalls

-------------------------------------------------------------------------------
\* The indices in S, in order.
Ascending(S) ==
  [k \in 1 .. Cardinality(S) |-> CHOOSE i \in S : Cardinality({x \in S : x < i}) = k - 1]

\* After r, self has the elements that were not in S, in order.
Removed(S, r) ==
  LET rest == Ascending((0 .. (self.nbits - 1)) \ S)
  IN  /\ r.v.nbits = Len(rest)
      /\ \A k \in 1 .. Len(rest) : getbit(r.v, r.mem, k - 1) = getbit(self, mem, rest[k])

\* After r, element at[j] of self is what element j of other was; the rest is
\* as before.
Assigned(at, other, r) ==
  \A i \in 0 .. (self.nbits - 1) :
    getbit(self, r.mem, i) =
      IF \E j \in DOMAIN at : at[j] = i
      THEN getbit(other, mem, Max({j \in DOMAIN at : at[j] = i}) - 1)
      ELSE getbit(self, mem, i)

\* The methods that run over a slice upwards, whichever way it is given, visit
\* each of its elements and no other: they count what a[start:stop:step] holds.
SlicesVisited ==
  Calling => \A s \in Slices :
    /\ Visited(AdjustStepPositive(s)) = SliceElements(s)
    /\ \A vi \in {0, 1} :
         CountSlice(s, vi) = Cardinality({j \in DOMAIN GetSlice(s) : GetSlice(s)[j] = vi})

\* The assertions of getbit(): these methods touch elements of the array only.
IndexAsserted ==
  Calling => \A s \in Slices :
    Visited(AdjustStepPositive(s)) \subseteq 0 .. (self.nbits - 1)

\* a[start:stop:step] = b and a[seq] = b read b as it was before, also if b
\* shares memory with a; of indices that name the same element the last wins.
\* Assigning a bit is assigning an array that holds nothing else.
SourcesReadFirst ==
  Calling =>
    /\ \A s \in Slices : \A other \in Others(s.length) :
         s.step # 1 =>
           Assigned([j \in 1 .. s.length |-> SliceElement(s, j - 1)], other, SetSlice(s, other))
    /\ \A seq \in Sequences : InRange(seq) =>
         /\ \A other \in Others(Len(seq)) :
              Assigned([j \in DOMAIN seq |-> Normalized(seq[j])], other, SetSeq(seq, other))
         /\ \A vi \in {0, 1} :
              SetSeqBool(seq, vi) = SetSeq(seq, Own([j \in 0 .. (Len(seq) - 1) |-> vi], Len(seq)))

\* An index selects the same elements in a[key] and in del a[key]: masks, index
\* sequences, and slices, whichever way they run and by whichever of three algorithms.
DeletesWhatItGets ==
  Calling =>
    /\ \A s \in Slices : self.pinned \/ Removed(SliceElements(s), DelSlice(s))
    /\ \A mask \in OwnMasks \union {self} :
         LET at == Ascending(Ones(mask))
         IN  /\ GetMask(mask) = [j \in 1 .. Len(at) |-> getbit(self, mem, at[j])]
             /\ GetSeq(at) = GetMask(mask)
             /\ mask.nbits = self.nbits /\ ~self.pinned =>
                  /\ Removed(Ones(mask), DelMask(mask))
                  /\ Len(at) <= MaxIndices => DelSeq(at) = DelMask(mask)

\* a[mask] = b does what a[list(mask.search(1))] = b does.
MaskLikeSequence ==
  Calling => \A mask \in OwnMasks \union {self} :
    \A other \in Others(Cardinality(Ones(mask))) :
      Assigned(Ascending(Ones(mask)), other, SetMask(mask, other))

\* The assertion at the end of setmask_pauliebits_lock_held(): as many bits were
\* read as the mask has ones.
MaskAsserted ==
  Calling => \A mask \in {v \in Sharing : v.nbits = self.nbits /\ Within(v)} :
    \A other \in Others(Cardinality(Ones(mask))) :
      MaskLoop(mask, MaskSource(other)).j = Cardinality(Ones(mask))
===============================================================================
