-------------------------- MODULE PaulieBufferProofs --------------------------
(***************************************************************************)
(* The headers of all arrays stay consistent: for any number of arrays,    *)
(* any width of a byte and any bounds.                                     *)
(*                                                                         *)
(* Whatever a method does to the header of its array is an evolution       *)
(* (Evolves), which an exported or imported buffer survives.  IInv adds to *)
(* the invariants what the steps need to know of each other: an identity   *)
(* not in use is blank and unreferenced, an array that is not yet usable   *)
(* has no users, and whoever uses memory of another array does so through  *)
(* a chain of imports, each of which counts as an export.                  *)
(***************************************************************************)
EXTENDS PaulieBuffer, BitLayoutProofs, FiniteSetTheorems

\* The allocation of an array is in proportion to the bytes in use, also after
\* the array has shrunk (Growth's WasteBounded, here of an array among others).
Proportionate(h) == h.allocated <= 2 * h.size + 1

Consistent(h) == HeaderOK(h) /\ Proportionate(h)

AllConsistent == \A o \in Objects : Consistent(obj[o])

\* A header as the methods may leave it.
GoodHeader(h) == h \in Header /\ Consistent(h)

\* A header of a new array o that uses no memory of others.
Fresh(o, h) ==
  /\ GoodHeader(h)
  /\ h.state # "free"
  /\ h.state = "new" => h.frozen
  /\ h.exports = 0
  /\ h.buffer = NoObject
  /\ h.item \in {NoObject, o}

\* What a method of array o may do to its header.
Evolves(o, h, h2) ==
  /\ GoodHeader(h2)
  /\ h2.state = h.state
  /\ h2.frozen = h.frozen
  /\ h2.exports = h.exports
  /\ h2.buffer = h.buffer
  /\ h2.readonly = h.readonly
  /\ h2.item \in {NoObject, o, h.item}
  /\ Pinned(h) => /\ h2.item = h.item
                  /\ h2.size = h.size
                  /\ h2.nbits \in {h.nbits, ByteBits * h.size}

\* An unused identity is blank, and nobody views it.
UnusedBlank ==
  \A o \in Objects : Unborn(o) => obj[o] = Unused /\ views[o] = [w |-> 0, r |-> 0]

\* An array whose initializer has not run is frozen and has no users.
NewUnshared ==
  \A o \in Objects : obj[o].state = "new" => obj[o].frozen /\ obj[o].exports = 0

\* anc gives the arrays from which an array imports, directly or through
\* others: each of them has an importer among these or the array itself, and the
\* allocator of the memory is one of them.
Ancestry(anc) ==
  \A o, p \in Objects :
    /\ p \in anc[o] => \E q \in anc[o] \union {o} : obj[q].buffer = p
    /\ obj[o].buffer = p => p # o /\ p \in anc[o] /\ anc[p] \subseteq anc[o]
    /\ obj[o].item = p /\ p # o => p \in anc[o]

ImportChains == \E anc \in [Objects -> SUBSET Objects] : Ancestry(anc)

ImportersFinite == \A o \in Objects : IsFiniteSet(Importers(o))

IInv ==
  /\ HeadersOK
  /\ AllConsistent
  /\ ImportsValid
  /\ ExportsCounted
  /\ UnusedBlank
  /\ NewUnshared
  /\ ImportChains
  /\ ImportersFinite

-------------------------------------------------------------------------------
(***************************************************************************)
(* The primitives.                                                         *)
(***************************************************************************)
\* The null pointer is no array.
LEMMA NoObjectIsNone ==
  ASSUME NEW o \in Objects
  PROVE  o # NoObject
BY ObjectsAssumption

\* newpauliebitsobject() makes a fresh array.
LEMMA NewObjectFresh ==
  ASSUME NEW o \in Objects, NEW frozen \in BOOLEAN,
         NEW endian \in {LITTLE, BIG}, NEW nbits \in Nat
  PROVE  /\ Fresh(o, NewObject(o, frozen, endian, nbits))
         /\ NewObject(o, frozen, endian, nbits).state = "live"
         /\ NewObject(o, frozen, endian, nbits).readonly = FALSE
         /\ NewObject(o, frozen, endian, nbits).frozen = frozen
         /\ NewObject(o, frozen, endian, nbits).nbits = nbits
<1>1. BYTES(nbits) \in Nat
  BY BytesNat
<1>2. QED
  BY <1>1, NoObjectIsNone
     DEF NewObject, Fresh, GoodHeader, Header, Consistent, HeaderOK,
         Proportionate

\* The header of an unused identity is consistent.
LEMMA UnusedGood == GoodHeader(Unused) /\ Unused.state = "free"
                      /\ Unused.exports = 0 /\ Unused.buffer = NoObject
                      /\ Unused.item = NoObject
<1>1. BYTES(0) = 0
  BY BytesNat
<1> DEFINE blank(state) ==
      [state |-> state, frozen |-> FALSE, endian |-> BIG, nbits |-> 0,
       size |-> 0, allocated |-> 0, exports |-> 0, buffer |-> NoObject,
       item |-> NoObject, readonly |-> FALSE]
<1>2. NewObject(NoObject, FALSE, BIG, 0) = blank("live")
  BY <1>1 DEF NewObject
<1>3. Unused = blank("free")
  <2>1. Unused = [blank("live") EXCEPT !.state = "free"]
    BY <1>2, Zenon DEF Unused
  <2>2. QED
    BY <2>1
<1>4. blank("free") \in Header
  BY DEF Header
<1>5. Consistent(blank("free"))
  BY <1>1 DEF Consistent, HeaderOK, Proportionate
<1>6. QED
  BY <1>3, <1>4, <1>5 DEF GoodHeader

\* Doing nothing is an evolution, and evolutions compose.
LEMMA EvolvesReflexive ==
  ASSUME NEW o, NEW h, GoodHeader(h)
  PROVE  Evolves(o, h, h)
BY DEF Evolves

\* Two evolutions after each other, as when a method resizes twice, are one.
LEMMA EvolvesTransitive ==
  ASSUME NEW o, NEW h1, NEW h2, NEW h3,
         Evolves(o, h1, h2), Evolves(o, h2, h3)
  PROVE  Evolves(o, h1, h3)
BY DEF Evolves, Pinned

\* A header of a fresh array that evolves is still one of a fresh array.
LEMMA EvolvesFresh ==
  ASSUME NEW o \in Objects, NEW h, NEW h2, Fresh(o, h), Evolves(o, h, h2)
  PROVE  Fresh(o, h2)
BY DEF Evolves, Fresh

\* resize(), in each of its outcomes: nothing moves while the buffer is exported
\* or imported, and without an exception the array has the new length.
LEMMA ResizeEvolves ==
  ASSUME NEW o \in Objects, NEW h, GoodHeader(h), NEW m, NEW nbits \in Nat,
         NEW r \in Resize(o, h, m, nbits)
  PROVE  /\ Evolves(o, h, r.h)
         /\ r.err = None => r.h.nbits = nbits
<1> DEFINE newsize == BYTES(nbits)
           alloc == NewAllocation(h.size, h.allocated, newsize)
<1>1. /\ h \in Header
      /\ Consistent(h)
      /\ h.size \in Nat /\ h.allocated \in Nat /\ h.nbits \in Nat
  BY DEF GoodHeader, Header
<1>2. newsize \in Nat
  BY BytesNat
<1>3. alloc \in Nat /\ alloc >= newsize
  BY <1>1, <1>2, NewAllocationCovers
<1>4. BYTES(0) = 0
  BY BytesNat
<1>5. CASE Pinned(h)
  <2>1. r = Outcome("BufferError", h, m)
    BY <1>5 DEF Resize
  <2>2. QED
    BY <2>1, EvolvesReflexive DEF Outcome, None
<1>6. CASE ~Pinned(h) /\ newsize = h.size
  <2>1. r = Outcome(None, [h EXCEPT !.nbits = nbits], m)
    BY <1>6 DEF Resize
  <2>2. QED
    BY <2>1, <1>1, <1>6
       DEF Outcome, Evolves, GoodHeader, Header, Consistent, HeaderOK,
           Proportionate, Pinned
<1>7. Emptied(h) \in Header /\ Consistent(Emptied(h))
  <2>1. Emptied(h) \in Header
    BY <1>1 DEF Emptied, Header
  <2>2. Consistent(Emptied(h))
    BY <1>1, <1>4, ByteBitsAssumption
       DEF Emptied, Header, Consistent, HeaderOK, Proportionate
  <2>3. QED
    BY <2>1, <2>2
<1>8. ~Pinned(h) => Evolves(o, h, Emptied(h))
  BY <1>1, <1>7 DEF Emptied, Evolves, GoodHeader, Header
<1>9. CASE ~Pinned(h) /\ newsize # h.size /\ newsize = 0
  <2>1. r = Outcome(None, Emptied(h), Blank)
    BY <1>9 DEF Resize
  <2>2. nbits = 0
    BY <1>9, PadFills, ByteBitsAssumption
  <2>3. QED
    BY <2>1, <2>2, <1>1, <1>8, <1>9 DEF Outcome, Emptied, Header
<1>10. CASE ~Pinned(h) /\ newsize # h.size /\ newsize # 0
  <2> DEFINE h2 == [h EXCEPT !.nbits = nbits, !.size = newsize,
                             !.allocated = alloc, !.item = o]
             kept == Keep(m, IF newsize < h.size THEN newsize ELSE h.size)
  <2>1. h2 \in Header /\ Consistent(h2)
    <3>1. h2 \in Header /\ HeaderOK(h2)
      BY <1>1, <1>2, <1>3, <1>10, NoObjectIsNone
         DEF Header, Consistent, HeaderOK, Pinned
    <3>2. h.allocated >= h.size
      BY <1>1, <1>10 DEF Consistent, HeaderOK, Pinned
    <3>3. alloc <= 2 * newsize + 1
      BY <1>1, <1>2, <1>10, <3>2, NewAllocationProportionate
    <3>4. h2.allocated = alloc /\ h2.size = newsize
      BY <1>1 DEF Header
    <3>5. Proportionate(h2)
      BY <3>3, <3>4 DEF Proportionate
    <3>6. QED
      BY <3>1, <3>5 DEF Consistent
  <2>2. Evolves(o, h, h2)
    BY <2>1, <1>1, <1>10 DEF Evolves, GoodHeader, Header
  <2>3. r \in {Outcome(None, h2, kept), Outcome("MemoryError", Emptied(h), Blank)}
    BY <1>10 DEF Resize
  <2>4. h2.nbits = nbits
    BY <1>1 DEF Header
  <2> HIDE DEF h2
  <2>5. QED
    BY <2>2, <2>3, <2>4, <1>8, <1>10 DEF Outcome, None
<1>11. QED
  BY <1>5, <1>6, <1>9, <1>10

-------------------------------------------------------------------------------
(***************************************************************************)
(* How the steps change the headers.                                       *)
(***************************************************************************)
\* What IInv says of one array.
LEMMA IInvFacts ==
  ASSUME IInv, NEW o \in Objects
  PROVE  /\ GoodHeader(obj[o])
         /\ obj[o].exports \in Nat
         /\ views[o].w \in Nat /\ views[o].r \in Nat
         /\ Cardinality(Importers(o)) \in Nat
         /\ Importers(o) # {} => obj[o].exports > 0
         /\ obj[o].exports = 0 => Importers(o) = {} /\ views[o] = [w |-> 0, r |-> 0]
<1>1. obj[o] \in Header /\ views[o] \in [w : Nat, r : Nat]
  BY DEF IInv, HeadersOK
<1>2. Consistent(obj[o])
  BY DEF IInv, AllConsistent
<1>3. IsFiniteSet(Importers(o))
  BY DEF IInv, ImportersFinite
<1>4. Cardinality(Importers(o)) \in Nat
  BY <1>3, FS_CardinalityType
<1>5. Cardinality(Importers(o)) = 0 <=> Importers(o) = {}
  BY <1>3, FS_EmptySet
<1>6. obj[o].exports = Cardinality(Importers(o)) + views[o].w + views[o].r
  BY DEF IInv, ExportsCounted
<1>7. obj[o].exports \in Nat
  BY <1>1 DEF Header
<1>8. views[o].w \in Nat /\ views[o].r \in Nat
  BY <1>1
<1>9. views[o].w = 0 /\ views[o].r = 0 => views[o] = [w |-> 0, r |-> 0]
  BY <1>1
<1>10. Importers(o) # {} => obj[o].exports > 0
  BY <1>4, <1>5, <1>6, <1>8
<1>11. obj[o].exports = 0 =>
         Importers(o) = {} /\ views[o].w = 0 /\ views[o].r = 0
  BY <1>4, <1>5, <1>6, <1>8
<1>12. GoodHeader(obj[o])
  BY <1>1, <1>2 DEF GoodHeader
<1>13. QED
  BY <1>4, <1>7, <1>8, <1>9, <1>10, <1>11, <1>12

\* An array that uses memory allocated by o makes o an exporter.
LEMMA ForeignItem ==
  ASSUME IInv, NEW o \in Objects, NEW q \in Objects, q # o, obj[q].item = o
  PROVE  obj[o].exports > 0
<1>1. PICK anc \in [Objects -> SUBSET Objects] : Ancestry(anc)
  BY DEF IInv, ImportChains
<1>2. o \in anc[q]
  BY <1>1 DEF Ancestry
<1>3. PICK p \in anc[q] \union {q} : obj[p].buffer = o
  BY <1>1, <1>2 DEF Ancestry
<1>4. p \in Importers(o)
  BY <1>3 DEF Importers
<1>5. QED
  BY <1>4, IInvFacts

\* A method of an array in use preserves the invariant.
LEMMA EvolutionPreserves ==
  ASSUME IInv, NEW o \in Objects, Live(o), NEW h, Evolves(o, obj[o], h),
         obj' = [obj EXCEPT ![o] = h], views' = views
  PROVE  IInv'
<1>1. obj \in [Objects -> Header] /\ views \in [Objects -> [w : Nat, r : Nat]]
  BY DEF IInv, HeadersOK
<1>2. /\ h \in Header /\ Consistent(h)
      /\ h.state = "live"
      /\ h.frozen = obj[o].frozen /\ h.exports = obj[o].exports
      /\ h.buffer = obj[o].buffer /\ h.readonly = obj[o].readonly
      /\ h.item \in {NoObject, o, obj[o].item}
      /\ Pinned(obj[o]) => h.item = obj[o].item /\ h.size = obj[o].size
  BY DEF Evolves, GoodHeader, Live
<1>3. HeadersOK'
  BY <1>1, <1>2 DEF HeadersOK
<1>4. AllConsistent'
  BY <1>1, <1>2 DEF IInv, AllConsistent
<1>5. \A q \in Objects : /\ obj'[q].state = obj[q].state
                         /\ obj'[q].frozen = obj[q].frozen
                         /\ obj'[q].exports = obj[q].exports
                         /\ obj'[q].buffer = obj[q].buffer
                         /\ obj'[q].readonly = obj[q].readonly
  BY <1>1, <1>2 DEF Live
<1>6. \A q \in Objects : Importers(q)' = Importers(q)
  BY <1>1, <1>5 DEF Importers
<1>7. ImportsValid'
  <2>1. ASSUME NEW q \in Objects, NEW p \in Objects, obj'[q].buffer = p
        PROVE  /\ Live(p)'
               /\ obj'[q].item = obj'[p].item
               /\ obj'[q].size = obj'[p].size
               /\ obj'[p].readonly => obj'[q].readonly
    <3>1. obj[q].buffer = p
      BY <1>1, <2>1, <1>5
    <3>2. /\ Live(p) /\ obj[q].item = obj[p].item /\ obj[q].size = obj[p].size
          /\ obj[p].readonly => obj[q].readonly
      BY <3>1 DEF IInv, ImportsValid
    <3>3. Pinned(obj[q])
      BY <3>1, ObjectsAssumption DEF Pinned
    <3>4. Pinned(obj[p])
      BY <3>1, IInvFacts DEF Pinned, Importers
    <3>5. /\ obj'[q].item = obj[q].item /\ obj'[q].size = obj[q].size
          /\ obj'[p].item = obj[p].item /\ obj'[p].size = obj[p].size
      BY <3>3, <3>4, <1>1, <1>2
    <3>6. QED
      BY <1>1, <3>2, <3>5, <1>5 DEF Live
  <2>2. ASSUME NEW q \in Objects, NEW p \in Objects, obj'[q].item = p
        PROVE  /\ ~Unborn(p)'
               /\ obj'[p].item = p
               /\ obj'[p].buffer = NoObject
    <3>1. p # NoObject
      BY NoObjectIsNone
    <3>2. CASE obj[q].item = p
      <4>1. ~Unborn(p) /\ obj[p].item = p /\ obj[p].buffer = NoObject
        BY <3>2 DEF IInv, ImportsValid
      <4>2. CASE p # o
        BY <1>1, <4>1, <4>2, <1>5 DEF Unborn
      <4>3. CASE p = o /\ q # o
        BY <4>1, <4>3, <3>2, <1>1, <1>2, <1>5, ForeignItem, IInvFacts DEF Unborn, Pinned
      <4>4. CASE p = o /\ q = o
        BY <1>1, <4>1, <4>4, <2>2, <1>5 DEF Unborn
      <4>5. QED
        BY <4>2, <4>3, <4>4
    <3>3. CASE obj[q].item # p
      <4>1. q = o /\ p = o
        BY <3>1, <3>3, <2>2, <1>1, <1>2, <1>5
      <4>2. obj[o].buffer = NoObject
        BY <4>1, <3>3, <2>2, <1>1, <1>2 DEF Pinned
      <4>3. QED
        BY <1>1, <4>1, <4>2, <2>2, <1>5 DEF Unborn, Live
    <3>4. QED
      BY <3>2, <3>3
  <2>3. ASSUME NEW q \in Objects, views'[q].w > 0
        PROVE  ~obj'[q].readonly
    BY <1>1, <2>3, <1>5 DEF IInv, ImportsValid
  <2>4. QED
    BY <2>1, <2>2, <2>3 DEF ImportsValid
<1>8. ExportsCounted'
  BY <1>1, <1>5, <1>6 DEF IInv, ExportsCounted
<1>9. UnusedBlank'
  BY <1>1, <1>5 DEF IInv, UnusedBlank, Unborn, Live
<1>10. NewUnshared'
  BY <1>1, <1>5 DEF IInv, NewUnshared
<1>11. ImportChains'
  <2>1. PICK anc \in [Objects -> SUBSET Objects] : Ancestry(anc)
    BY DEF IInv, ImportChains
  <2>2. \A q, p \in Objects : obj'[q].item = p /\ p # q => obj[q].item = p
    BY <1>1, <1>2, <1>5, ObjectsAssumption
  <2>3. Ancestry(anc)'
    BY <1>1, <2>1, <2>2, <1>5 DEF Ancestry
  <2>4. QED
    BY <2>3 DEF ImportChains
<1>12. ImportersFinite'
  BY <1>1, <1>6 DEF IInv, ImportersFinite
<1>13. QED
  BY <1>3, <1>4, <1>7, <1>8, <1>9, <1>10, <1>11, <1>12 DEF IInv

\* A fresh array takes an unused identity.
LEMMA CreationPreserves ==
  ASSUME IInv, NEW o \in Objects, Unborn(o), NEW h, Fresh(o, h),
         obj' = [obj EXCEPT ![o] = h], views' = views
  PROVE  IInv'
<1>1. obj \in [Objects -> Header] /\ views \in [Objects -> [w : Nat, r : Nat]]
  BY DEF IInv, HeadersOK
<1>2. /\ h \in Header /\ Consistent(h) /\ h.state # "free"
      /\ h.state = "new" => h.frozen
      /\ h.exports = 0 /\ h.buffer = NoObject /\ h.item \in {NoObject, o}
  BY DEF Fresh, GoodHeader
<1>3. /\ obj[o] = Unused /\ views[o] = [w |-> 0, r |-> 0]
  BY DEF IInv, UnusedBlank
<1>4. obj[o].exports = 0 /\ obj[o].buffer = NoObject /\ obj[o].item = NoObject
  BY <1>3, UnusedGood
<1>5. Importers(o) = {}
  BY <1>4, IInvFacts
<1>6. obj'[o] = h
  BY <1>1
<1>7. \A q \in Objects : q # o => obj'[q] = obj[q]
  BY <1>1
<1>8. \A q \in Objects : obj'[q].exports = obj[q].exports
                          /\ obj'[q].buffer = obj[q].buffer
  BY <1>2, <1>4, <1>6, <1>7
<1>9. \A q \in Objects : obj[q].buffer # o
  BY <1>5 DEF Importers
<1>10. \A q \in Objects : q # o => obj[q].item # o
  BY <1>4, ForeignItem
<1>11. HeadersOK'
  BY <1>1, <1>2 DEF HeadersOK
<1>12. AllConsistent'
  BY <1>2, <1>6, <1>7 DEF IInv, AllConsistent
<1>13. ImportsValid'
  <2>1. ASSUME NEW q \in Objects, NEW p \in Objects, obj'[q].buffer = p
        PROVE  /\ Live(p)'
               /\ obj'[q].item = obj'[p].item
               /\ obj'[q].size = obj'[p].size
               /\ obj'[p].readonly => obj'[q].readonly
    <3>1. q # o /\ p # o
      BY <2>1, <1>2, <1>6, <1>8, <1>9, NoObjectIsNone
    <3>2. obj'[q] = obj[q] /\ obj'[p] = obj[p]
      BY <3>1, <1>7
    <3>3. obj[q].buffer = p
      BY <2>1, <3>2
    <3>4. /\ Live(p) /\ obj[q].item = obj[p].item /\ obj[q].size = obj[p].size
          /\ obj[p].readonly => obj[q].readonly
      BY <3>3 DEF IInv, ImportsValid
    <3>5. QED
      BY <3>2, <3>4 DEF Live
  <2>2. ASSUME NEW q \in Objects, NEW p \in Objects, obj'[q].item = p
        PROVE  /\ ~Unborn(p)'
               /\ obj'[p].item = p
               /\ obj'[p].buffer = NoObject
    <3>1. CASE q = o
      BY <3>1, <2>2, <1>2, <1>6, NoObjectIsNone DEF Unborn
    <3>2. CASE q # o
      <4>1. obj[q].item = p /\ p # o
        BY <3>2, <2>2, <1>7, <1>10
      <4>2. ~Unborn(p) /\ obj[p].item = p /\ obj[p].buffer = NoObject
        BY <4>1 DEF IInv, ImportsValid
      <4>3. obj'[p] = obj[p]
        BY <4>1, <1>7
      <4>4. QED
        BY <4>2, <4>3 DEF Unborn
    <3>3. QED
      BY <3>1, <3>2
  <2>3. ASSUME NEW q \in Objects, views'[q].w > 0
        PROVE  ~obj'[q].readonly
    <3>1. q # o
      BY <2>3, <1>3
    <3>2. obj'[q] = obj[q]
      BY <3>1, <1>7
    <3>3. QED
      BY <2>3, <3>2 DEF IInv, ImportsValid
  <2>4. QED
    BY <2>1, <2>2, <2>3 DEF ImportsValid
<1>14. \A q \in Objects : Importers(q)' = Importers(q)
  BY <1>8 DEF Importers
<1>15. ExportsCounted'
  BY <1>8, <1>14 DEF IInv, ExportsCounted
<1>16. UnusedBlank'
  BY <1>2, <1>6, <1>7 DEF IInv, UnusedBlank, Unborn
<1>17. NewUnshared'
  BY <1>2, <1>6, <1>7 DEF IInv, NewUnshared
<1>18. ImportChains'
  <2>1. PICK anc \in [Objects -> SUBSET Objects] : Ancestry(anc)
    BY DEF IInv, ImportChains
  <2>2. \A q, p \in Objects : obj'[q].item = p /\ p # q => obj[q].item = p
    BY <1>2, <1>6, <1>7, NoObjectIsNone
  <2>3. Ancestry(anc)'
    BY <2>1, <2>2, <1>8 DEF Ancestry
  <2>4. QED
    BY <2>3 DEF ImportChains
<1>19. ImportersFinite'
  BY <1>14 DEF IInv, ImportersFinite
<1>20. QED
  BY <1>11, <1>12, <1>13, <1>15, <1>16, <1>17, <1>18, <1>19 DEF IInv

\* The header of an array that imports from p.
ImportsFrom(p, h) ==
  /\ GoodHeader(h)
  /\ h.state # "free"
  /\ h.state = "new" => h.frozen
  /\ h.exports = 0
  /\ h.buffer = p
  /\ h.item = obj[p].item
  /\ h.size = obj[p].size
  /\ obj[p].readonly => h.readonly

\* A new importer takes an unused identity and is counted by its exporter.
LEMMA ImportPreserves ==
  ASSUME IInv, NEW o \in Objects, NEW p \in Objects, Unborn(o), Live(p),
         NEW h, ImportsFrom(p, h),
         obj' = [obj EXCEPT ![o] = h, ![p].exports = @ + 1], views' = views
  PROVE  IInv'
<1>1. obj \in [Objects -> Header] /\ views \in [Objects -> [w : Nat, r : Nat]]
  BY DEF IInv, HeadersOK
<1>2. /\ h \in Header /\ Consistent(h) /\ h.state # "free"
      /\ h.state = "new" => h.frozen
      /\ h.exports = 0 /\ h.buffer = p
      /\ h.item = obj[p].item /\ h.size = obj[p].size
      /\ obj[p].readonly => h.readonly
  BY DEF ImportsFrom, GoodHeader
<1>3. /\ obj[o] = Unused /\ views[o] = [w |-> 0, r |-> 0]
  BY DEF IInv, UnusedBlank
<1>4. obj[o].exports = 0 /\ obj[o].buffer = NoObject /\ obj[o].item = NoObject
  BY <1>3, UnusedGood
<1>5. Importers(o) = {}
  BY <1>4, IInvFacts
<1>6. o # p
  BY DEF Live, Unborn
<1>7. obj'[o] = h
  BY <1>1, <1>6
<1>8. obj'[p] = [obj[p] EXCEPT !.exports = @ + 1]
  BY <1>1, <1>6
<1>9. \A q \in Objects : q # o /\ q # p => obj'[q] = obj[q]
  BY <1>1
<1>10. obj[p] \in Header /\ Consistent(obj[p]) /\ obj[p].exports \in Nat
  BY <1>1, IInvFacts DEF GoodHeader
<1>11. /\ obj'[p] \in Header
       /\ obj'[p].exports = obj[p].exports + 1
       /\ Consistent(obj'[p])
  <2>1. /\ [obj[p] EXCEPT !.exports = @ + 1] \in Header
        /\ [obj[p] EXCEPT !.exports = @ + 1].exports = obj[p].exports + 1
    BY <1>10 DEF Header
  <2>2. Consistent([obj[p] EXCEPT !.exports = @ + 1])
    BY <1>10 DEF Consistent, HeaderOK, Proportionate, Header
  <2>3. QED
    BY <2>1, <2>2, <1>8
<1>12. /\ obj'[p].state = obj[p].state
       /\ obj'[p].frozen = obj[p].frozen
       /\ obj'[p].buffer = obj[p].buffer
       /\ obj'[p].item = obj[p].item
       /\ obj'[p].size = obj[p].size
       /\ obj'[p].readonly = obj[p].readonly
  BY <1>8, <1>10 DEF Header
<1>13. \A q \in Objects : q # o => /\ obj'[q].state = obj[q].state
                                   /\ obj'[q].frozen = obj[q].frozen
                                   /\ obj'[q].buffer = obj[q].buffer
                                   /\ obj'[q].item = obj[q].item
                                   /\ obj'[q].size = obj[q].size
                                   /\ obj'[q].readonly = obj[q].readonly
  <2>1. TAKE q \in Objects
  <2>2. HAVE q # o
  <2>3. CASE q = p
    BY <2>3, <1>12
  <2>4. CASE q # p
    BY <2>2, <2>4, <1>9
  <2>5. QED
    BY <2>3, <2>4
<1>14. \A q \in Objects : obj[q].buffer # o
  BY <1>5 DEF Importers
<1>15. \A q \in Objects : q # o => obj[q].item # o
  BY <1>4, ForeignItem
<1>16. HeadersOK'
  <2>1. \A q \in Objects : obj'[q] \in Header
    BY <1>1, <1>2, <1>7, <1>9, <1>11
  <2>2. obj' \in [Objects -> Header]
    BY <2>1, <1>1
  <2>3. QED
    BY <2>2, <1>1 DEF HeadersOK
<1>17. AllConsistent'
  <2>1. ASSUME NEW q \in Objects PROVE Consistent(obj'[q])
    BY <1>2, <1>7, <1>9, <1>11 DEF IInv, AllConsistent
  <2>2. QED
    BY <2>1 DEF AllConsistent
<1>18. ImportsValid'
  <2>1. ASSUME NEW q \in Objects, NEW x \in Objects, obj'[q].buffer = x
        PROVE  /\ Live(x)'
               /\ obj'[q].item = obj'[x].item
               /\ obj'[q].size = obj'[x].size
               /\ obj'[x].readonly => obj'[q].readonly
    <3>1. CASE q = o
      BY <3>1, <2>1, <1>2, <1>7, <1>12 DEF Live
    <3>2. CASE q # o
      <4>1. obj[q].buffer = x
        BY <3>2, <2>1, <1>13
      <4>2. x # o
        BY <4>1, <1>14
      <4>3. /\ Live(x) /\ obj[q].item = obj[x].item /\ obj[q].size = obj[x].size
            /\ obj[x].readonly => obj[q].readonly
        BY <4>1 DEF IInv, ImportsValid
      <4>4. QED
        BY <3>2, <4>2, <4>3, <1>13 DEF Live
    <3>3. QED
      BY <3>1, <3>2
  <2>2. ASSUME NEW q \in Objects, NEW x \in Objects, obj'[q].item = x
        PROVE  /\ ~Unborn(x)'
               /\ obj'[x].item = x
               /\ obj'[x].buffer = NoObject
    <3>1. x # o /\ \E y \in Objects : obj[y].item = x
      <4>1. CASE q = o
        BY <4>1, <2>2, <1>2, <1>6, <1>7, <1>15
      <4>2. CASE q # o
        BY <4>2, <2>2, <1>13, <1>15
      <4>3. QED
        BY <4>1, <4>2
    <3>2. ~Unborn(x) /\ obj[x].item = x /\ obj[x].buffer = NoObject
      BY <3>1 DEF IInv, ImportsValid
    <3>3. QED
      BY <3>1, <3>2, <1>13 DEF Unborn
  <2>3. ASSUME NEW q \in Objects, views'[q].w > 0
        PROVE  ~obj'[q].readonly
    <3>1. q # o
      BY <2>3, <1>3
    <3>2. QED
      BY <2>3, <3>1, <1>13 DEF IInv, ImportsValid
  <2>4. QED
    BY <2>1, <2>2, <2>3 DEF ImportsValid
<1>19. Importers(p)' = Importers(p) \union {o}
  BY <1>2, <1>7, <1>13 DEF Importers
<1>20. o \notin Importers(p)
  BY <1>4, NoObjectIsNone DEF Importers
<1>21. \A q \in Objects : q # p => Importers(q)' = Importers(q)
  <2>1. ASSUME NEW q \in Objects, q # p
        PROVE  \A x \in Objects : obj'[x].buffer = q <=> obj[x].buffer = q
    <3>1. obj'[o].buffer # q /\ obj[o].buffer # q
      BY <2>1, <1>2, <1>4, <1>7, NoObjectIsNone
    <3>2. \A x \in Objects : x # o => obj'[x].buffer = obj[x].buffer
      BY <1>13
    <3>3. QED
      BY <3>1, <3>2
  <2>2. QED
    BY <2>1 DEF Importers
<1>22. IsFiniteSet(Importers(p))
  BY DEF IInv, ImportersFinite
<1>23. /\ IsFiniteSet(Importers(p)')
       /\ Cardinality(Importers(p)') = Cardinality(Importers(p)) + 1
  BY <1>19, <1>20, <1>22, FS_AddElement
<1>24. ExportsCounted'
  <2>1. ASSUME NEW q \in Objects
        PROVE  obj'[q].exports = Cardinality(Importers(q)') + views[q].w + views[q].r
    <3>1. obj[q].exports = Cardinality(Importers(q)) + views[q].w + views[q].r
      BY DEF IInv, ExportsCounted
    <3>2. CASE q = p
      BY <3>1, <3>2, <1>11, <1>23, IInvFacts
    <3>3. CASE q = o
      BY <3>1, <3>3, <1>2, <1>4, <1>6, <1>7, <1>21
    <3>4. CASE q # o /\ q # p
      BY <3>1, <3>4, <1>9, <1>21
    <3>5. QED
      BY <3>2, <3>3, <3>4
  <2>2. QED
    BY <2>1 DEF ExportsCounted
<1>25. UnusedBlank'
  <2>1. ASSUME NEW q \in Objects, Unborn(q)'
        PROVE  obj'[q] = Unused /\ views[q] = [w |-> 0, r |-> 0]
    <3>1. q # o
      BY <2>1, <1>2, <1>7 DEF Unborn
    <3>2. Unborn(q)
      BY <2>1, <3>1, <1>13 DEF Unborn
    <3>3. q # p
      BY <3>2 DEF Live, Unborn
    <3>4. QED
      BY <3>1, <3>2, <3>3, <1>9 DEF IInv, UnusedBlank
  <2>2. QED
    BY <2>1 DEF UnusedBlank
<1>26. NewUnshared'
  <2>1. ASSUME NEW q \in Objects, obj'[q].state = "new"
        PROVE  obj'[q].frozen /\ obj'[q].exports = 0
    <3>1. q # p
      BY <2>1, <1>12 DEF Live
    <3>2. CASE q = o
      BY <3>2, <2>1, <1>2, <1>7
    <3>3. CASE q # o
      BY <3>1, <3>3, <2>1, <1>9 DEF IInv, NewUnshared
    <3>4. QED
      BY <3>2, <3>3
  <2>2. QED
    BY <2>1 DEF NewUnshared
<1>27. ImportChains'
  <2>1. PICK anc \in [Objects -> SUBSET Objects] : Ancestry(anc)
    BY DEF IInv, ImportChains
  <2> DEFINE anc2 == [anc EXCEPT ![o] = anc[p] \union {p}]
  <2>2. anc2 \in [Objects -> SUBSET Objects]
    BY <2>1
  <2>3. /\ anc2[o] = anc[p] \union {p}
        /\ \A q \in Objects : q # o => anc2[q] = anc[q]
    BY <2>1
  <2> HIDE DEF anc2
  <2>4. \A q \in Objects : o \notin anc[q]
    BY <2>1, <1>14 DEF Ancestry
  <2>5. ASSUME NEW q \in Objects, NEW x \in anc2[q]
        PROVE  \E y \in anc2[q] \union {q} : obj'[y].buffer = x
    <3>1. CASE q # o
      <4>1. PICK y \in anc[q] \union {q} : obj[y].buffer = x
        BY <2>1, <2>3, <2>5, <3>1 DEF Ancestry
      <4>2. y # o /\ y \in Objects
        BY <2>1, <2>4, <3>1, <4>1
      <4>3. QED
        BY <2>3, <3>1, <4>1, <4>2, <1>13
    <3>2. CASE q = o /\ x = p
      BY <3>2, <1>2, <1>7
    <3>3. CASE q = o /\ x # p
      <4>1. x \in anc[p]
        BY <2>3, <2>5, <3>3
      <4>2. PICK y \in anc[p] \union {p} : obj[y].buffer = x
        BY <2>1, <4>1 DEF Ancestry
      <4>3. y # o /\ y \in Objects
        BY <2>1, <2>4, <4>2, <1>6
      <4>4. QED
        BY <2>3, <3>3, <4>2, <4>3, <1>13
    <3>4. QED
      BY <3>1, <3>2, <3>3
  <2>6. ASSUME NEW q \in Objects, NEW x \in Objects, obj'[q].buffer = x
        PROVE  x # q /\ x \in anc2[q] /\ anc2[x] \subseteq anc2[q]
    <3>1. CASE q = o
      <4>1. x = p
        BY <2>6, <3>1, <1>2, <1>7
      <4>2. QED
        BY <4>1, <3>1, <2>3, <1>6
    <3>2. CASE q # o
      <4>1. obj[q].buffer = x
        BY <2>6, <3>2, <1>13
      <4>2. x # o
        BY <4>1, <1>14
      <4>3. QED
        BY <4>1, <4>2, <3>2, <2>1, <2>3 DEF Ancestry
    <3>3. QED
      BY <3>1, <3>2
  <2>7. ASSUME NEW q \in Objects, NEW x \in Objects, obj'[q].item = x, x # q
        PROVE  x \in anc2[q]
    <3>1. CASE q = o
      <4>1. obj[p].item = x
        BY <2>7, <3>1, <1>2, <1>7
      <4>2. x = p \/ x \in anc[p]
        BY <4>1, <2>1 DEF Ancestry
      <4>3. QED
        BY <4>2, <3>1, <2>3
    <3>2. CASE q # o
      BY <2>7, <3>2, <1>13, <2>1, <2>3 DEF Ancestry
    <3>3. QED
      BY <3>1, <3>2
  <2>8. Ancestry(anc2)'
    BY <2>5, <2>6, <2>7 DEF Ancestry
  <2>9. QED
    BY <2>2, <2>8 DEF ImportChains
<1>28. ImportersFinite'
  <2>1. ASSUME NEW q \in Objects PROVE IsFiniteSet(Importers(q)')
    BY <1>21, <1>23 DEF IInv, ImportersFinite
  <2>2. QED
    BY <2>1 DEF ImportersFinite
<1>29. QED
  BY <1>16, <1>17, <1>18, <1>24, <1>25, <1>26, <1>27, <1>28 DEF IInv

\* An array without users gives up its identity, and its export if it imports.
LEMMA ReleasePreserves ==
  ASSUME IInv, NEW o \in Objects, ~Unborn(o), obj[o].exports = 0,
         obj' = Released(o), views' = views
  PROVE  IInv'
<1>0. PICK p : p = obj[o].buffer
  OBVIOUS
<1>1. obj \in [Objects -> Header] /\ views \in [Objects -> [w : Nat, r : Nat]]
  BY DEF IInv, HeadersOK
<1>2. /\ Importers(o) = {} /\ views[o] = [w |-> 0, r |-> 0]
  BY IInvFacts
<1>3. \A q \in Objects : obj[q].buffer # o
  BY <1>2 DEF Importers
<1>4. \A q \in Objects : q # o => obj[q].item # o
  BY ForeignItem
<1>5. p \in Objects \union {NoObject} /\ p # o
  BY <1>0, <1>1, <1>3 DEF Header
<1>6. /\ Unused \in Header /\ Consistent(Unused) /\ Unused.state = "free"
      /\ Unused.exports = 0 /\ Unused.buffer = NoObject /\ Unused.item = NoObject
  BY UnusedGood DEF GoodHeader
<1>7. /\ obj'[o] = Unused
      /\ \A q \in Objects : q # o /\ q # p => obj'[q] = obj[q]
      /\ p # NoObject => obj'[p] = [obj[p] EXCEPT !.exports = @ - 1]
      /\ DOMAIN obj' = Objects
      /\ obj' = [q \in Objects |-> obj'[q]]
  <2>1. CASE p = NoObject
    <3>1. obj' = [obj EXCEPT ![o] = Unused]
      BY <1>0, <2>1 DEF Released
    <3>2. QED
      BY <2>1, <3>1, <1>1
  <2>2. CASE p # NoObject
    <3>1. obj' = [obj EXCEPT ![o] = Unused, ![p].exports = @ - 1]
      BY <1>0, <2>2 DEF Released
    <3>2. QED
      BY <2>2, <3>1, <1>1, <1>5
  <2>3. QED
    BY <2>1, <2>2
<1>8. p # NoObject =>
        /\ obj[p] \in Header /\ Consistent(obj[p])
        /\ obj[p].exports \in Nat /\ obj[p].exports > 0
        /\ Live(p)
  <2>1. p # NoObject => p \in Objects /\ o \in Importers(p)
    BY <1>0, <1>5 DEF Importers
  <2>2. p # NoObject => Live(p)
    BY <1>0, <1>5 DEF IInv, ImportsValid
  <2>3. QED
    BY <2>1, <2>2, IInvFacts DEF GoodHeader
<1>9. p # NoObject =>
        /\ obj'[p] \in Header
        /\ Consistent(obj'[p])
        /\ obj'[p].exports = obj[p].exports - 1
        /\ obj'[p].state = obj[p].state
        /\ obj'[p].frozen = obj[p].frozen
        /\ obj'[p].buffer = obj[p].buffer
        /\ obj'[p].item = obj[p].item
        /\ obj'[p].size = obj[p].size
        /\ obj'[p].readonly = obj[p].readonly
  <2>1. SUFFICES ASSUME p # NoObject
                 PROVE  LET h == [obj[p] EXCEPT !.exports = @ - 1]
                        IN  /\ h \in Header
                            /\ Consistent(h)
                            /\ h.exports = obj[p].exports - 1
                            /\ h.state = obj[p].state
                            /\ h.frozen = obj[p].frozen
                            /\ h.buffer = obj[p].buffer
                            /\ h.item = obj[p].item
                            /\ h.size = obj[p].size
                            /\ h.readonly = obj[p].readonly
    BY <1>7
  <2>2. QED
    BY <2>1, <1>8 DEF Header, Consistent, HeaderOK, Proportionate
<1>10. \A q \in Objects : q # o => /\ obj'[q].state = obj[q].state
                                   /\ obj'[q].frozen = obj[q].frozen
                                   /\ obj'[q].buffer = obj[q].buffer
                                   /\ obj'[q].item = obj[q].item
                                   /\ obj'[q].size = obj[q].size
                                   /\ obj'[q].readonly = obj[q].readonly
  <2>1. TAKE q \in Objects
  <2>2. HAVE q # o
  <2>3. CASE q = p
    BY <2>3, <1>9, NoObjectIsNone
  <2>4. CASE q # p
    BY <2>2, <2>4, <1>7
  <2>5. QED
    BY <2>3, <2>4
<1>11. \A q \in Objects : obj'[q] \in Header /\ Consistent(obj'[q])
  <2>1. TAKE q \in Objects
  <2>2. CASE q = o
    BY <2>2, <1>6, <1>7
  <2>3. CASE q = p
    BY <2>3, <1>9, NoObjectIsNone
  <2>4. CASE q # o /\ q # p
    BY <2>4, <1>1, <1>7 DEF IInv, AllConsistent
  <2>5. QED
    BY <2>2, <2>3, <2>4
<1>12. HeadersOK'
  <2>1. obj' \in [Objects -> Header]
    BY <1>7, <1>11
  <2>2. QED
    BY <2>1, <1>1 DEF HeadersOK
<1>13. AllConsistent'
  BY <1>11 DEF AllConsistent
<1>14. ImportsValid'
  <2>1. ASSUME NEW q \in Objects, NEW x \in Objects, obj'[q].buffer = x
        PROVE  /\ Live(x)'
               /\ obj'[q].item = obj'[x].item
               /\ obj'[q].size = obj'[x].size
               /\ obj'[x].readonly => obj'[q].readonly
    <3>1. q # o
      BY <2>1, <1>6, <1>7, NoObjectIsNone
    <3>2. obj[q].buffer = x /\ x # o
      BY <2>1, <3>1, <1>3, <1>10
    <3>3. /\ Live(x) /\ obj[q].item = obj[x].item /\ obj[q].size = obj[x].size
          /\ obj[x].readonly => obj[q].readonly
      BY <3>2 DEF IInv, ImportsValid
    <3>4. QED
      BY <3>1, <3>2, <3>3, <1>10 DEF Live
  <2>2. ASSUME NEW q \in Objects, NEW x \in Objects, obj'[q].item = x
        PROVE  /\ ~Unborn(x)'
               /\ obj'[x].item = x
               /\ obj'[x].buffer = NoObject
    <3>1. q # o
      BY <2>2, <1>6, <1>7, NoObjectIsNone
    <3>2. obj[q].item = x /\ x # o
      BY <2>2, <3>1, <1>4, <1>10
    <3>3. ~Unborn(x) /\ obj[x].item = x /\ obj[x].buffer = NoObject
      BY <3>2 DEF IInv, ImportsValid
    <3>4. QED
      BY <3>2, <3>3, <1>10 DEF Unborn
  <2>3. ASSUME NEW q \in Objects, views'[q].w > 0
        PROVE  ~obj'[q].readonly
    <3>1. q # o
      BY <2>3, <1>2
    <3>2. QED
      BY <2>3, <3>1, <1>10 DEF IInv, ImportsValid
  <2>4. QED
    BY <2>1, <2>2, <2>3 DEF ImportsValid
<1>15. \A q \in Objects : q # p => Importers(q)' = Importers(q)
  <2>1. ASSUME NEW q \in Objects, q # p
        PROVE  \A x \in Objects : obj'[x].buffer = q <=> obj[x].buffer = q
    <3>1. obj'[o].buffer # q /\ obj[o].buffer # q
      BY <1>0, <2>1, <1>6, <1>7, NoObjectIsNone
    <3>2. \A x \in Objects : x # o => obj'[x].buffer = obj[x].buffer
      BY <1>10
    <3>3. QED
      BY <3>1, <3>2
  <2>2. QED
    BY <2>1 DEF Importers
<1>16. p # NoObject =>
         /\ IsFiniteSet(Importers(p)')
         /\ Cardinality(Importers(p)') = Cardinality(Importers(p)) - 1
  <2>1. SUFFICES ASSUME p # NoObject
                 PROVE  /\ IsFiniteSet(Importers(p)')
                        /\ Cardinality(Importers(p)') = Cardinality(Importers(p)) - 1
    OBVIOUS
  <2>2. p \in Objects
    BY <2>1, <1>5
  <2>3. o \in Importers(p)
    BY <1>0 DEF Importers
  <2>4. obj'[o].buffer # p
    BY <2>1, <1>6, <1>7
  <2>5. \A x \in Objects : x # o => obj'[x].buffer = obj[x].buffer
    BY <1>10
  <2>6. Importers(p)' = Importers(p) \ {o}
    BY <2>4, <2>5 DEF Importers
  <2>7. IsFiniteSet(Importers(p))
    BY <2>2 DEF IInv, ImportersFinite
  <2>8. QED
    BY <2>3, <2>6, <2>7, FS_RemoveElement
<1>17. ExportsCounted'
  <2>1. ASSUME NEW q \in Objects
        PROVE  obj'[q].exports = Cardinality(Importers(q)') + views[q].w + views[q].r
    <3>1. obj[q].exports = Cardinality(Importers(q)) + views[q].w + views[q].r
      BY DEF IInv, ExportsCounted
    <3>2. CASE q = p
      <4>1. /\ Cardinality(Importers(q)) \in Nat
            /\ views[q].w \in Nat /\ views[q].r \in Nat
        BY IInvFacts
      <4>2. p # NoObject
        BY <3>2, NoObjectIsNone
      <4>3. QED
        BY <3>1, <3>2, <4>1, <4>2, <1>9, <1>16
    <3>3. CASE q = o
      BY <3>1, <3>3, <1>5, <1>6, <1>7, <1>15
    <3>4. CASE q # o /\ q # p
      BY <3>1, <3>4, <1>7, <1>15
    <3>5. QED
      BY <3>2, <3>3, <3>4
  <2>2. QED
    BY <2>1 DEF ExportsCounted
<1>18. UnusedBlank'
  <2>1. ASSUME NEW q \in Objects, Unborn(q)'
        PROVE  obj'[q] = Unused /\ views[q] = [w |-> 0, r |-> 0]
    <3>1. CASE q = o
      BY <3>1, <1>2, <1>7
    <3>2. CASE q # o
      <4>1. Unborn(q)
        BY <2>1, <3>2, <1>10 DEF Unborn
      <4>2. q # p
        BY <4>1, <1>8, NoObjectIsNone DEF Live, Unborn
      <4>3. QED
        BY <3>2, <4>1, <4>2, <1>7 DEF IInv, UnusedBlank
    <3>3. QED
      BY <3>1, <3>2
  <2>2. QED
    BY <2>1 DEF UnusedBlank
<1>19. NewUnshared'
  <2>1. ASSUME NEW q \in Objects, obj'[q].state = "new"
        PROVE  obj'[q].frozen /\ obj'[q].exports = 0
    <3>1. q # o
      BY <2>1, <1>6, <1>7
    <3>2. q # p
      BY <2>1, <1>8, <1>9, NoObjectIsNone DEF Live
    <3>3. QED
      BY <2>1, <3>1, <3>2, <1>7 DEF IInv, NewUnshared
  <2>2. QED
    BY <2>1 DEF NewUnshared
<1>20. ImportChains'
  <2>1. PICK anc \in [Objects -> SUBSET Objects] : Ancestry(anc)
    BY DEF IInv, ImportChains
  <2> DEFINE anc2 == [anc EXCEPT ![o] = {}]
  <2>2. anc2 \in [Objects -> SUBSET Objects]
    BY <2>1
  <2>3. anc2[o] = {} /\ \A q \in Objects : q # o => anc2[q] = anc[q]
    BY <2>1
  <2> HIDE DEF anc2
  <2>4. \A q \in Objects : o \notin anc[q]
    BY <2>1, <1>3 DEF Ancestry
  <2>5. ASSUME NEW q \in Objects, NEW x \in anc2[q]
        PROVE  \E y \in anc2[q] \union {q} : obj'[y].buffer = x
    <3>1. q # o
      BY <2>3, <2>5
    <3>2. PICK y \in anc[q] \union {q} : obj[y].buffer = x
      BY <2>1, <2>3, <2>5, <3>1 DEF Ancestry
    <3>3. y # o /\ y \in Objects
      BY <2>1, <2>4, <3>1, <3>2
    <3>4. QED
      BY <2>3, <3>1, <3>2, <3>3, <1>10
  <2>6. ASSUME NEW q \in Objects, NEW x \in Objects, obj'[q].buffer = x
        PROVE  x # q /\ x \in anc2[q] /\ anc2[x] \subseteq anc2[q]
    <3>1. q # o
      BY <2>6, <1>6, <1>7, NoObjectIsNone
    <3>2. obj[q].buffer = x /\ x # o
      BY <2>6, <3>1, <1>3, <1>10
    <3>3. QED
      BY <3>1, <3>2, <2>1, <2>3 DEF Ancestry
  <2>7. ASSUME NEW q \in Objects, NEW x \in Objects, obj'[q].item = x, x # q
        PROVE  x \in anc2[q]
    <3>1. q # o
      BY <2>7, <1>6, <1>7, NoObjectIsNone
    <3>2. obj[q].item = x
      BY <2>7, <3>1, <1>10
    <3>3. QED
      BY <2>7, <3>1, <3>2, <2>1, <2>3 DEF Ancestry
  <2>8. Ancestry(anc2)'
    BY <2>5, <2>6, <2>7 DEF Ancestry
  <2>9. QED
    BY <2>2, <2>8 DEF ImportChains
<1>21. ImportersFinite'
  <2>1. ASSUME NEW q \in Objects PROVE IsFiniteSet(Importers(q)')
    BY <1>15, <1>16, NoObjectIsNone DEF IInv, ImportersFinite
  <2>2. QED
    BY <2>1 DEF ImportersFinite
<1>22. QED
  BY <1>12, <1>13, <1>14, <1>17, <1>18, <1>19, <1>20, <1>21 DEF IInv

\* A memoryview comes or goes, and its export with it.
LEMMA ViewsPreserve ==
  ASSUME IInv, NEW o \in Objects, Live(o), NEW h, NEW v \in [w : Nat, r : Nat],
         h.exports \in Nat,
         h.exports - v.w - v.r = obj[o].exports - views[o].w - views[o].r,
         v.w > 0 => views[o].w > 0 \/ ~obj[o].readonly,
         h = [obj[o] EXCEPT !.exports = h.exports],
         obj' = [obj EXCEPT ![o] = h], views' = [views EXCEPT ![o] = v]
  PROVE  IInv'
<1>1. obj \in [Objects -> Header] /\ views \in [Objects -> [w : Nat, r : Nat]]
  BY DEF IInv, HeadersOK
<1>2. obj[o] \in Header /\ Consistent(obj[o])
  BY IInvFacts DEF GoodHeader
<1> DEFINE e == h.exports
<1>3. /\ h \in Header
      /\ h.state = obj[o].state /\ h.frozen = obj[o].frozen
      /\ h.buffer = obj[o].buffer /\ h.item = obj[o].item
      /\ h.size = obj[o].size /\ h.readonly = obj[o].readonly
  <2>1. h = [obj[o] EXCEPT !.exports = e]
    OBVIOUS
  <2>2. e \in Nat
    OBVIOUS
  <2> HIDE DEF e
  <2>3. QED
    BY <2>1, <2>2, <1>2 DEF Header
<1>4. Consistent(h)
  <2>1. h = [obj[o] EXCEPT !.exports = e]
    OBVIOUS
  <2> HIDE DEF e
  <2>2. QED
    BY <2>1, <1>2 DEF Consistent, HeaderOK, Proportionate, Header
<1>5. \A q \in Objects : /\ obj'[q].state = obj[q].state
                         /\ obj'[q].frozen = obj[q].frozen
                         /\ obj'[q].buffer = obj[q].buffer
                         /\ obj'[q].item = obj[q].item
                         /\ obj'[q].size = obj[q].size
                         /\ obj'[q].readonly = obj[q].readonly
  BY <1>1, <1>3
<1>6. /\ obj'[o] = h /\ views'[o] = v
      /\ \A q \in Objects : q # o => obj'[q] = obj[q] /\ views'[q] = views[q]
  BY <1>1
<1>7. \A q \in Objects : Importers(q)' = Importers(q)
  BY <1>5 DEF Importers
<1>8. HeadersOK'
  BY <1>1, <1>3 DEF HeadersOK
<1>9. AllConsistent'
  BY <1>4, <1>6 DEF IInv, AllConsistent
<1>10. ImportsValid'
  <2>1. ASSUME NEW q \in Objects, views'[q].w > 0
        PROVE  ~obj'[q].readonly
    <3>1. CASE q = o
      BY <3>1, <2>1, <1>5, <1>6 DEF IInv, ImportsValid
    <3>2. CASE q # o
      BY <3>2, <2>1, <1>6 DEF IInv, ImportsValid
    <3>3. QED
      BY <3>1, <3>2
  <2>2. QED
    BY <2>1, <1>5 DEF IInv, ImportsValid, Live, Unborn
<1>11. ExportsCounted'
  <2>1. ASSUME NEW q \in Objects
        PROVE  obj'[q].exports = Cardinality(Importers(q)') + views'[q].w + views'[q].r
    <3>1. obj[q].exports = Cardinality(Importers(q)) + views[q].w + views[q].r
      BY DEF IInv, ExportsCounted
    <3>2. CASE q = o
      <4>1. /\ Cardinality(Importers(o)) \in Nat
            /\ views[o].w \in Nat /\ views[o].r \in Nat
            /\ v.w \in Nat /\ v.r \in Nat
            /\ obj[o].exports \in Nat
        BY IInvFacts
      <4>2. h.exports = Cardinality(Importers(o)) + v.w + v.r
        BY <3>1, <3>2, <4>1
      <4>3. QED
        BY <3>2, <4>2, <1>6, <1>7
    <3>3. CASE q # o
      BY <3>1, <3>3, <1>6, <1>7
    <3>4. QED
      BY <3>2, <3>3
  <2>2. QED
    BY <2>1 DEF ExportsCounted
<1>12. UnusedBlank'
  <2>1. ASSUME NEW q \in Objects, Unborn(q)'
        PROVE  obj'[q] = Unused /\ views'[q] = [w |-> 0, r |-> 0]
    <3>1. Unborn(q)
      BY <2>1, <1>5 DEF Unborn
    <3>2. q # o
      BY <3>1 DEF Live, Unborn
    <3>3. QED
      BY <3>1, <3>2, <1>6 DEF IInv, UnusedBlank
  <2>2. QED
    BY <2>1 DEF UnusedBlank
<1>13. NewUnshared'
  <2>1. ASSUME NEW q \in Objects, obj'[q].state = "new"
        PROVE  obj'[q].frozen /\ obj'[q].exports = 0
    <3>1. q # o
      BY <2>1, <1>5 DEF Live
    <3>2. QED
      BY <2>1, <3>1, <1>6 DEF IInv, NewUnshared
  <2>2. QED
    BY <2>1 DEF NewUnshared
<1>14. ImportChains'
  BY <1>5 DEF IInv, ImportChains, Ancestry
<1>15. ImportersFinite'
  BY <1>7 DEF IInv, ImportersFinite
<1>16. QED
  BY <1>8, <1>9, <1>10, <1>11, <1>12, <1>13, <1>14, <1>15 DEF IInv

\* A frozen array becomes usable, and read-only.
LEMMA FreezingPreserves ==
  ASSUME IInv, NEW o \in Objects, obj[o].state = "new",
         obj[o].buffer = NoObject \/ obj[o].readonly,
         NEW h, h = [obj[o] EXCEPT !.readonly = TRUE, !.state = "live"],
         obj' = [obj EXCEPT ![o] = h], views' = views
  PROVE  IInv'
<1>1. obj \in [Objects -> Header] /\ views \in [Objects -> [w : Nat, r : Nat]]
  BY DEF IInv, HeadersOK
<1>2. obj[o] \in Header /\ Consistent(obj[o])
  BY IInvFacts DEF GoodHeader
<1>3. obj[o].frozen /\ obj[o].exports = 0
  BY DEF IInv, NewUnshared
<1>4. Importers(o) = {} /\ views[o].w = 0
  BY <1>3, IInvFacts
<1>5. /\ h \in Header
      /\ h.state = "live" /\ h.frozen = obj[o].frozen
      /\ h.buffer = obj[o].buffer /\ h.item = obj[o].item
      /\ h.size = obj[o].size /\ h.readonly = TRUE /\ h.exports = obj[o].exports
  BY <1>2 DEF Header
<1>6. Consistent(h)
  BY <1>2, <1>3 DEF Consistent, HeaderOK, Proportionate, Header
<1>7. /\ obj'[o] = h
      /\ \A q \in Objects : q # o => obj'[q] = obj[q]
  BY <1>1
<1>8. \A q \in Objects : /\ obj'[q].frozen = obj[q].frozen
                         /\ obj'[q].buffer = obj[q].buffer
                         /\ obj'[q].item = obj[q].item
                         /\ obj'[q].size = obj[q].size
                         /\ obj'[q].exports = obj[q].exports
                         /\ obj[q].readonly => obj'[q].readonly
                         /\ Live(q) => obj'[q].state = "live"
                         /\ obj'[q].state = "free" <=> Unborn(q)
  BY <1>5, <1>7 DEF Live, Unborn
<1>9. \A q \in Objects : Importers(q)' = Importers(q)
  BY <1>8 DEF Importers
<1>10. HeadersOK'
  BY <1>1, <1>5 DEF HeadersOK
<1>11. AllConsistent'
  BY <1>6, <1>7 DEF IInv, AllConsistent
<1>12. ImportsValid'
  <2>1. ASSUME NEW q \in Objects, NEW x \in Objects, obj'[q].buffer = x
        PROVE  /\ Live(x)'
               /\ obj'[q].item = obj'[x].item
               /\ obj'[q].size = obj'[x].size
               /\ obj'[x].readonly => obj'[q].readonly
    <3>1. obj[q].buffer = x
      BY <2>1, <1>8
    <3>2. x # o
      BY <3>1, <1>4 DEF Importers
    <3>3. /\ Live(x) /\ obj[q].item = obj[x].item /\ obj[q].size = obj[x].size
          /\ obj[x].readonly => obj[q].readonly
      BY <3>1 DEF IInv, ImportsValid
    <3>4. obj'[x] = obj[x]
      BY <3>2, <1>7
    <3>5. QED
      BY <3>3, <3>4, <1>8 DEF Live
  <2>2. ASSUME NEW q \in Objects, views'[q].w > 0
        PROVE  ~obj'[q].readonly
    <3>1. q # o
      BY <2>2, <1>4
    <3>2. QED
      BY <2>2, <3>1, <1>7 DEF IInv, ImportsValid
  <2>3. \A q, x \in Objects :
          obj'[q].item = x =>
            ~Unborn(x)' /\ obj'[x].item = x /\ obj'[x].buffer = NoObject
    BY <1>8 DEF IInv, ImportsValid, Unborn
  <2>4. QED
    BY <2>1, <2>2, <2>3 DEF ImportsValid
<1>13. ExportsCounted'
  BY <1>8, <1>9 DEF IInv, ExportsCounted
<1>14. UnusedBlank'
  <2>1. ASSUME NEW q \in Objects, Unborn(q)'
        PROVE  obj'[q] = Unused /\ views'[q] = [w |-> 0, r |-> 0]
    <3>1. Unborn(q)
      BY <2>1, <1>8 DEF Unborn
    <3>2. q # o
      BY <3>1 DEF Unborn
    <3>3. QED
      BY <3>1, <3>2, <1>7 DEF IInv, UnusedBlank
  <2>2. QED
    BY <2>1 DEF UnusedBlank
<1>15. NewUnshared'
  <2>1. ASSUME NEW q \in Objects, obj'[q].state = "new"
        PROVE  obj'[q].frozen /\ obj'[q].exports = 0
    <3>1. q # o
      BY <2>1, <1>5, <1>7
    <3>2. QED
      BY <2>1, <3>1, <1>7 DEF IInv, NewUnshared
  <2>2. QED
    BY <2>1 DEF NewUnshared
<1>16. ImportChains'
  BY <1>8 DEF IInv, ImportChains, Ancestry
<1>17. ImportersFinite'
  BY <1>9 DEF IInv, ImportersFinite
<1>18. QED
  BY <1>10, <1>11, <1>12, <1>13, <1>14, <1>15, <1>16, <1>17 DEF IInv

-------------------------------------------------------------------------------
(***************************************************************************)
(* Every outcome of every method that resizes is an evolution.             *)
(***************************************************************************)
LEMMA ResizedEvolves ==
  ASSUME IInv, NEW o \in Objects, NEW nbits \in Nat, NEW r \in Resized(o, nbits)
  PROVE  /\ Evolves(o, obj[o], r.h)
         /\ r.err = None => r.h.nbits = nbits
BY IInvFacts, ResizeEvolves DEF Resized

\* The sizes of an array are numbers that fit each other.
LEMMA NbitsNat ==
  ASSUME IInv, NEW o \in Objects
  PROVE  obj[o].nbits \in Nat /\ obj[o].size \in Nat /\ obj[o].size = BYTES(obj[o].nbits)
BY IInvFacts DEF GoodHeader, Header, Consistent, HeaderOK, Proportionate

\* insert_n() resizes once and moves elements.
LEMMA InsertNEvolves ==
  ASSUME NEW o \in Objects, NEW h, GoodHeader(h), NEW m, NEW start \in Nat,
         NEW n \in Nat, NEW r \in InsertN(o, h, m, start, n)
  PROVE  Evolves(o, h, r.h)
<1>1. h.nbits + n \in Nat
  BY DEF GoodHeader, Header
<1>2. PICK q \in Resize(o, h, m, h.nbits + n) : r.h = q.h
  BY DEF InsertN, Then, Outcome
<1>3. QED
  BY <1>1, <1>2, ResizeEvolves

\* delete_n() moves elements and resizes once.
LEMMA DeleteNEvolves ==
  ASSUME NEW o \in Objects, NEW h, GoodHeader(h), NEW m, NEW start \in Nat,
         NEW n \in Nat, n <= h.nbits, NEW r \in DeleteN(o, h, m, start, n)
  PROVE  Evolves(o, h, r.h)
<1>1. h.nbits - n \in Nat
  BY DEF GoodHeader, Header
<1>2. QED
  BY <1>1, ResizeEvolves DEF DeleteN

\* a.append(v)
LEMMA AppendedEvolves ==
  ASSUME IInv, NEW o \in Objects, NEW v, NEW r \in Appended(o, v)
  PROVE  Evolves(o, obj[o], r.h)
<1>1. PICK q \in Resized(o, obj[o].nbits + 1) : r.h = q.h
  BY DEF Appended, Then, Outcome
<1>2. QED
  BY <1>1, NbitsNat, ResizedEvolves

\* a.insert(i, v)
LEMMA InsertedEvolves ==
  ASSUME IInv, NEW o \in Objects, NEW i \in Nat, NEW v, NEW r \in Inserted(o, i, v)
  PROVE  Evolves(o, obj[o], r.h)
<1>1. PICK q \in InsertN(o, obj[o], Mem(o), i, 1) : r.h = q.h
  BY DEF Inserted, Then, Outcome
<1>2. QED
  BY <1>1, InsertNEvolves, IInvFacts

\* a.pop(i)
LEMMA PoppedEvolves ==
  ASSUME IInv, NEW o \in Objects, NEW i \in Nat, i < obj[o].nbits,
         NEW r \in Popped(o, i)
  PROVE  Evolves(o, obj[o], r.h)
BY DeleteNEvolves, IInvFacts, NbitsNat DEF Popped

\* a.extend(p), also for p = a.
LEMMA ExtendedEvolves ==
  ASSUME IInv, NEW o \in Objects, NEW p \in Objects, NEW r \in Extended(o, p)
  PROVE  Evolves(o, obj[o], r.h)
<1>1. PICK q \in Resized(o, obj[o].nbits + obj[p].nbits) : r.h = q.h
  BY DEF Extended, Then, Outcome
<1>2. QED
  BY <1>1, NbitsNat, ResizedEvolves

\* Storing items takes two resizes, of which the second may fail too.
LEMMA TwiceResizedEvolves ==
  ASSUME IInv, NEW o \in Objects, NEW n1 \in Nat, NEW n2 \in Nat,
         NEW r1 \in Resized(o, n1), NEW m, NEW r2 \in Resize(o, r1.h, m, n2)
  PROVE  Evolves(o, obj[o], r2.h)
<1>1. Evolves(o, obj[o], r1.h)
  BY ResizedEvolves
<1>2. GoodHeader(r1.h)
  BY <1>1 DEF Evolves
<1>3. Evolves(o, r1.h, r2.h)
  BY <1>2, ResizeEvolves
<1>4. QED
  BY <1>1, <1>3, EvolvesTransitive

\* a.extend(s) for a string or a sequence, with its second resize.
LEMMA ExtendedBySequenceEvolves ==
  ASSUME IInv, NEW o \in Objects, NEW k \in Nat, NEW u \in Nat,
         NEW f \in Items(u), NEW r \in ExtendedBySequence(o, f, k)
  PROVE  Evolves(o, obj[o], r.h)
<1> DEFINE n == obj[o].nbits
           used == Cardinality(DOMAIN f)
<1>1. used \in Nat
  <2>1. DOMAIN f = 0 .. (u - 1)
    BY DEF Items
  <2>2. IsFiniteSet(0 .. (u - 1))
    BY FS_Interval
  <2>3. QED
    BY <2>1, <2>2, FS_CardinalityType
<1>2. n + k \in Nat /\ n + used \in Nat
  BY <1>1, NbitsNat
<1>3. PICK q \in Resized(o, n + k) :
        \/ r = q
        \/ r \in Resize(o, q.h, SetSpan(q.h, q.m, n, used, f), n + used)
  BY DEF ExtendedBySequence, Then
<1>4. QED
  BY <1>2, <1>3, ResizedEvolves, TwiceResizedEvolves

\* a.extend(s) that fails on an item, including its rollback.
LEMMA FailedSequenceEvolves ==
  ASSUME IInv, NEW o \in Objects, NEW k \in Nat, NEW f,
         NEW r \in FailedSequence(o, f, k)
  PROVE  Evolves(o, obj[o], r.h)
<1> DEFINE n == obj[o].nbits
           used == Cardinality(DOMAIN f)
<1>1. n \in Nat /\ n + k \in Nat
  BY NbitsNat
<1>2. PICK q \in Resized(o, n + k) :
        \/ r = q
        \/ r \in Failed(Resize(o, q.h, SetSpan(q.h, q.m, n, used, f), n))
  BY DEF FailedSequence, Then
<1>3. CASE r = q
  BY <1>1, <1>3, ResizedEvolves
<1>4. CASE r \in Failed(Resize(o, q.h, SetSpan(q.h, q.m, n, used, f), n))
  <2>1. PICK x \in Resize(o, q.h, SetSpan(q.h, q.m, n, used, f), n) : r.h = x.h
    BY <1>4 DEF Failed, Outcome
  <2>2. QED
    BY <2>1, <1>1, TwiceResizedEvolves
<1>5. QED
  BY <1>2, <1>3, <1>4

\* a.extend(iterator) that fails, even when the rollback itself fails.
LEMMA FailedIterEvolves ==
  ASSUME IInv, NEW o \in Objects, NEW r \in FailedIter(o)
  PROVE  Evolves(o, obj[o], r.h)
<1>1. PICK q \in Resized(o, obj[o].nbits + 1) :
        \E x \in Resize(o, q.h, q.m, obj[o].nbits) : r.h = x.h
  BY DEF FailedIter, Failed, Outcome
<1>2. obj[o].nbits \in Nat /\ obj[o].nbits + 1 \in Nat
  BY NbitsNat
<1>3. QED
  BY <1>1, <1>2, TwiceResizedEvolves

\* a *= k
LEMMA RepeatedEvolves ==
  ASSUME IInv, NEW o \in Objects, NEW k \in Nat, NEW r \in Repeated(o, k)
  PROVE  Evolves(o, obj[o], r.h)
<1> DEFINE n == obj[o].nbits
           repeat(q) == SetSpan(q.h, q.m, 0, n * k,
                          [i \in 0 .. (n * k - 1) |-> GetBit(q.h, q.m, i % n)])
<1>1. Repeated(o, k) =
        IF n = 0 \/ k = 1
        THEN {Outcome(None, obj[o], Mem(o))}
        ELSE UNION {IF q.err = None THEN {Outcome(None, q.h, repeat(q))} ELSE {q} :
                      q \in Resized(o, n * k)}
  BY DEF Repeated, Then
<1> HIDE DEF repeat
<1>2. CASE n = 0 \/ k = 1
  <2>1. r.h = obj[o]
    BY <1>1, <1>2 DEF Outcome
  <2>2. QED
    BY <2>1, IInvFacts, EvolvesReflexive
<1>3. CASE ~(n = 0 \/ k = 1)
  <2>1. PICK q \in Resized(o, n * k) : r.h = q.h
    BY <1>1, <1>3 DEF Outcome
  <2>2. n * k \in Nat
    BY NbitsNat
  <2>3. QED
    BY <2>1, <2>2, ResizedEvolves
<1>4. QED
  BY <1>2, <1>3

\* a.encode_ixyz(s), which also sets the endianness.
LEMMA EncodedIxyzEvolves ==
  ASSUME IInv, NEW o \in Objects, NEW len \in Nat, NEW f,
         NEW r \in EncodedIxyz(o, f, len)
  PROVE  Evolves(o, obj[o], r.h)
<1> DEFINE big(q) == [q.h EXCEPT !.endian = BIG]
           encoded(q) == SetPadbits(big(q), SetSpan(big(q), q.m, 0, 2 * len, f))
<1>0. EncodedIxyz(o, f, len) =
        UNION {IF q.err = None THEN {Outcome(None, big(q), encoded(q))} ELSE {q} :
                 q \in Resized(o, 2 * len)}
  BY DEF EncodedIxyz, Then
<1> HIDE DEF encoded
<1>1. PICK q \in Resized(o, 2 * len) : r.h = q.h \/ r.h = big(q)
  <2>1. PICK q \in Resized(o, 2 * len) :
          r \in IF q.err = None THEN {Outcome(None, big(q), encoded(q))} ELSE {q}
    BY <1>0
  <2>2. CASE r = q
    BY <2>2
  <2>3. CASE r = Outcome(None, big(q), encoded(q))
    <3> HIDE DEF big
    <3>1. r.h = big(q)
      BY <2>3 DEF Outcome
    <3>2. QED
      BY <3>1
  <2>4. QED
    BY <2>1, <2>2, <2>3
<1>2. Evolves(o, obj[o], q.h)
  BY <1>1, ResizedEvolves
<1>3. CASE r.h = q.h
  BY <1>2, <1>3
<1>4. CASE r.h = [q.h EXCEPT !.endian = BIG]
  <2>1. q.h \in Header /\ Consistent(q.h)
    BY <1>2 DEF Evolves, GoodHeader
  <2>2. r.h \in Header /\ Consistent(r.h)
    BY <1>4, <2>1 DEF Header, Consistent, HeaderOK, Proportionate
  <2>3. /\ r.h.state = q.h.state /\ r.h.frozen = q.h.frozen
        /\ r.h.exports = q.h.exports /\ r.h.buffer = q.h.buffer
        /\ r.h.readonly = q.h.readonly /\ r.h.item = q.h.item
        /\ r.h.size = q.h.size /\ r.h.nbits = q.h.nbits
    BY <1>4, <2>1 DEF Header
  <2>4. QED
    BY <1>2, <2>2, <2>3 DEF Evolves, GoodHeader
<1>5. QED
  BY <1>1, <1>3, <1>4

\* a.fill(), which changes the length without asking resize().
LEMMA FilledEvolves ==
  ASSUME IInv, NEW o \in Objects, NEW r \in Filled(o)
  PROVE  Evolves(o, obj[o], r.h)
<1> DEFINE n == obj[o].nbits + PADBITS(obj[o].nbits)
<1>1. obj[o] \in Header /\ Consistent(obj[o])
  BY IInvFacts DEF GoodHeader
<1>2. /\ n \in Nat
      /\ n = ByteBits * obj[o].size
      /\ BYTES(n) = obj[o].size
  BY BytesOfFilled, NbitsNat
<1>3. r.h = [obj[o] EXCEPT !.nbits = n]
  BY <1>1 DEF Filled, Outcome, Header
<1> HIDE DEF n
<1>4. r.h \in Header
  BY <1>1, <1>2, <1>3 DEF Header
<1>5. Consistent(r.h)
  BY <1>1, <1>2, <1>3 DEF Consistent, HeaderOK, Proportionate, Header
<1>6. QED
  BY <1>1, <1>2, <1>3, <1>4, <1>5 DEF Evolves, GoodHeader, Header

\* a[start:stop] = p, whether the slice grows, shrinks or stays.
LEMMA SliceAssignedEvolves ==
  ASSUME IInv, NEW o \in Objects, NEW p \in Objects,
         NEW start \in Nat, NEW stop \in Nat,
         start <= stop, stop <= obj[o].nbits,
         NEW r \in SliceAssigned(o, p, start, stop)
  PROVE  Evolves(o, obj[o], r.h)
<1> DEFINE k == obj[p].nbits
           increase == k - (stop - start)
           room == CASE increase > 0 ->
                          InsertN(o, obj[o], Mem(o), start + (stop - start), increase)
                     [] increase < 0 ->
                          DeleteN(o, obj[o], Mem(o), start + k, -increase)
                     [] OTHER -> {Outcome(None, obj[o], Mem(o))}
<1>1. PICK q \in room : r.h = q.h
  BY DEF SliceAssigned, Then, Outcome
<1>2. k \in Nat /\ obj[o].nbits \in Nat /\ increase \in Int
  BY NbitsNat
<1>3. GoodHeader(obj[o])
  BY IInvFacts
<1>4. CASE increase > 0
  <2>1. q \in InsertN(o, obj[o], Mem(o), start + (stop - start), increase)
    BY <1>1, <1>2, <1>4
  <2>2. increase \in Nat /\ start + (stop - start) \in Nat
    BY <1>2, <1>4
  <2> HIDE DEF increase
  <2>3. QED
    BY <2>1, <2>2, <1>1, <1>3, InsertNEvolves
<1>5. CASE increase < 0
  <2>1. q \in DeleteN(o, obj[o], Mem(o), start + k, -increase)
    BY <1>1, <1>2, <1>5
  <2>2. /\ -increase \in Nat /\ start + k \in Nat
        /\ -increase <= obj[o].nbits
    BY <1>2, <1>5
  <2> HIDE DEF increase, k
  <2>3. QED
    BY <2>1, <2>2, <1>1, <1>3, DeleteNEvolves
<1>6. CASE increase = 0
  <2>1. q = Outcome(None, obj[o], Mem(o))
    BY <1>1, <1>6
  <2>2. QED
    BY <2>1, <1>1, <1>3, EvolvesReflexive DEF Outcome
<1>7. QED
  BY <1>2, <1>4, <1>5, <1>6

\* Holding one more export changes nothing but the exports.
LEMMA HeldEvolves ==
  ASSUME NEW o \in Objects, NEW h, GoodHeader(h), NEW e \in Nat, e >= h.exports,
         NEW h2, Evolves(o, [h EXCEPT !.exports = e], h2)
  PROVE  Evolves(o, h, [h2 EXCEPT !.exports = h.exports])
<1> DEFINE held == [h EXCEPT !.exports = e]
           back == [h2 EXCEPT !.exports = h.exports]
<1>1. h \in Header /\ Consistent(h)
  BY DEF GoodHeader
<1>2. /\ held.state = h.state /\ held.frozen = h.frozen /\ held.exports = e
      /\ held.buffer = h.buffer /\ held.readonly = h.readonly
      /\ held.item = h.item /\ held.size = h.size /\ held.nbits = h.nbits
  BY <1>1 DEF Header
<1>3. h2 \in Header /\ Consistent(h2)
  BY DEF Evolves, GoodHeader
<1>4. /\ back.state = h2.state /\ back.frozen = h2.frozen
      /\ back.exports = h.exports
      /\ back.buffer = h2.buffer /\ back.readonly = h2.readonly
      /\ back.item = h2.item /\ back.size = h2.size /\ back.nbits = h2.nbits
      /\ back.allocated = h2.allocated
  BY <1>3 DEF Header
<1>5. h.exports \in Nat
  BY <1>1 DEF Header
<1>6. back \in Header
  BY <1>3, <1>5 DEF Header
<1>7. Consistent(back)
  BY <1>3, <1>4 DEF Consistent, HeaderOK, Proportionate
<1>8. Evolves(o, held, h2)
  OBVIOUS
<1>9. Pinned(h) => Pinned(held)
  BY <1>2, <1>5 DEF Pinned
<1> HIDE DEF held, back
<1>10. Evolves(o, h, back)
  BY <1>2, <1>4, <1>6, <1>7, <1>8, <1>9 DEF Evolves, GoodHeader
<1>11. QED
  BY <1>10 DEF back

\* a.frombytes(p): the export held meanwhile is gone at the end.
LEMMA ExtendedByBytesEvolves ==
  ASSUME IInv, NEW o \in Objects, NEW p \in Objects, NEW g,
         NEW r \in ExtendedByBytes(o, p, g)
  PROVE  Evolves(o, obj[o], r.h)
<1> DEFINE n == obj[o].size
           pad == PADBITS(obj[o].nbits)
           more == ByteBits * (n + obj[p].size)
           e == IF p = o THEN obj[o].exports + 1 ELSE obj[o].exports
           held == [obj[o] EXCEPT !.exports = e]
<1>1. GoodHeader(obj[o]) /\ obj[o].exports \in Nat
  BY IInvFacts
<1>2. GoodHeader(held)
  <2>1. e \in Nat
    BY <1>1
  <2> HIDE DEF e
  <2>2. held \in Header /\ Consistent(held)
    BY <2>1, <1>1 DEF GoodHeader, Header, Consistent, HeaderOK, Proportionate
  <2>3. QED
    BY <2>2 DEF GoodHeader
<1>3. held = IF p = o THEN [obj[o] EXCEPT !.exports = @ + 1] ELSE obj[o]
  BY <1>1 DEF GoodHeader, Header
<1>4. PICK x \in Resize(o, held, Mem(o), more) :
        \/ x.err # None /\ r.h = [x.h EXCEPT !.exports = obj[o].exports]
        \/ /\ x.err = None
           /\ \E m : \E y \in DeleteN(o, x.h, m, ByteBits * n - pad, pad) :
                r.h = [y.h EXCEPT !.exports = obj[o].exports]
  <2> DEFINE tail(q) == [c \in Cells |->
               IF c \in ByteBits * n .. (ByteBits * (n + obj[p].size) - 1)
               THEN g[c - ByteBits * n] ELSE q.m[c]]
             cut(q) == DeleteN(o, q.h, tail(q), ByteBits * n - pad, pad)
             ends == UNION {IF q.err = None THEN cut(q) ELSE {q} :
                              q \in Resize(o, held, Mem(o), more)}
  <2>1. ExtendedByBytes(o, p, g) =
          {Outcome(y.err, [y.h EXCEPT !.exports = obj[o].exports], y.m) : y \in ends}
    BY <1>3 DEF ExtendedByBytes, Then
  <2> HIDE DEF tail, held, n, pad, more
  <2>2. PICK y \in ends : r.h = [y.h EXCEPT !.exports = obj[o].exports]
    <3> DEFINE back(y) == [y.h EXCEPT !.exports = obj[o].exports]
    <3> HIDE DEF ends, back
    <3>1. PICK y \in ends : r = Outcome(y.err, back(y), y.m)
      BY <2>1 DEF back
    <3>2. r.h = back(y)
      BY <3>1 DEF Outcome
    <3>3. QED
      BY <3>1, <3>2 DEF back
  <2>3. PICK q \in Resize(o, held, Mem(o), more) :
          y \in IF q.err = None THEN cut(q) ELSE {q}
    OBVIOUS
  <2>4. QED
    BY <2>2, <2>3
<1>5. /\ n \in Nat /\ obj[p].size \in Nat /\ obj[o].nbits \in Nat
      /\ n = BYTES(obj[o].nbits)
  BY NbitsNat
<1>6. pad \in Nat /\ obj[o].nbits + pad = ByteBits * n
  BY <1>5, PadFills, ByteBitsAssumption
<1>7. more \in Nat /\ ByteBits * n \in Nat /\ ByteBits * n <= more
  <2>1. more = ByteBits * n + ByteBits * obj[p].size
    BY <1>5, ByteBitsAssumption
  <2>2. ByteBits * n \in Nat /\ ByteBits * obj[p].size \in Nat
    BY <1>5, ByteBitsAssumption
  <2> HIDE DEF more
  <2>3. QED
    BY <2>1, <2>2
<1> HIDE DEF n, pad, more
<1>8. Evolves(o, held, x.h) /\ (x.err = None => x.h.nbits = more)
  BY <1>2, <1>4, <1>7, ResizeEvolves
<1>9. e \in Nat /\ e >= obj[o].exports
  BY <1>1
<1> HIDE DEF e
<1>10. CASE x.err # None
  BY <1>1, <1>4, <1>8, <1>9, <1>10, HeldEvolves
<1>11. CASE x.err = None
  <2>1. PICK m : \E y \in DeleteN(o, x.h, m, ByteBits * n - pad, pad) :
                    r.h = [y.h EXCEPT !.exports = obj[o].exports]
    BY <1>4, <1>11
  <2>2. PICK y \in DeleteN(o, x.h, m, ByteBits * n - pad, pad) :
          r.h = [y.h EXCEPT !.exports = obj[o].exports]
    BY <2>1
  <2>3. /\ ByteBits * n - pad \in Nat
        /\ pad <= x.h.nbits
    BY <1>5, <1>6, <1>7, <1>8, <1>11
  <2>4. Evolves(o, x.h, y.h)
    BY <2>3, <1>6, <1>8, DeleteNEvolves DEF Evolves
  <2>5. Evolves(o, held, y.h)
    BY <2>4, <1>8, EvolvesTransitive
  <2>6. QED
    BY <2>2, <2>5, <1>1, <1>9, HeldEvolves
<1>12. QED
  BY <1>10, <1>11

\* a.pack(p), which holds an export in the same way.
LEMMA PackedEvolves ==
  ASSUME IInv, NEW o \in Objects, NEW p \in Objects, NEW g,
         NEW r \in Packed(o, p, g)
  PROVE  Evolves(o, obj[o], r.h)
<1> DEFINE n == obj[o].nbits
           k == obj[p].size
           e == IF p = o THEN obj[o].exports + 1 ELSE obj[o].exports
           held == [obj[o] EXCEPT !.exports = e]
<1>1. GoodHeader(obj[o]) /\ obj[o].exports \in Nat
  BY IInvFacts
<1>2. GoodHeader(held)
  <2>1. e \in Nat
    BY <1>1
  <2> HIDE DEF e
  <2>2. held \in Header /\ Consistent(held)
    BY <2>1, <1>1 DEF GoodHeader, Header, Consistent, HeaderOK, Proportionate
  <2>3. QED
    BY <2>2 DEF GoodHeader
<1>3. held = IF p = o THEN [obj[o] EXCEPT !.exports = @ + 1] ELSE obj[o]
  BY <1>1 DEF GoodHeader, Header
<1>4. PICK x \in Resize(o, held, Mem(o), n + k) :
        r.h = [x.h EXCEPT !.exports = obj[o].exports]
  <2> DEFINE byte(i) == ByteBits * i .. (ByteBits * i + ByteBits - 1)
             bits == [i \in 0 .. (k - 1) |-> IF \E c \in byte(i) : g[c] = 1 THEN 1 ELSE 0]
             stored(q) == {Outcome(None, q.h, SetSpan(q.h, q.m, n, k, bits))}
             ends == UNION {IF q.err = None THEN stored(q) ELSE {q} :
                              q \in Resize(o, held, Mem(o), n + k)}
             back(y) == [y.h EXCEPT !.exports = obj[o].exports]
  <2>1. Packed(o, p, g) = {Outcome(y.err, back(y), y.m) : y \in ends}
    BY <1>3 DEF Packed, Then
  <2>2. \A q : \A y \in stored(q) : y.h = q.h
    BY DEF Outcome
  <2> HIDE DEF bits, held, n, k, stored
  <2>3. PICK y \in ends : r.h = back(y)
    <3> HIDE DEF ends, back
    <3>1. PICK y \in ends : r = Outcome(y.err, back(y), y.m)
      BY <2>1
    <3>2. QED
      BY <3>1 DEF Outcome
  <2>4. PICK q \in Resize(o, held, Mem(o), n + k) :
          y \in IF q.err = None THEN stored(q) ELSE {q}
    OBVIOUS
  <2>5. y.h = q.h
    BY <2>2, <2>4
  <2>6. QED
    BY <2>3, <2>4, <2>5
<1>5. n + k \in Nat
  BY NbitsNat
<1> HIDE DEF n, k
<1>6. Evolves(o, held, x.h)
  BY <1>2, <1>5, ResizeEvolves
<1>7. e \in Nat /\ e >= obj[o].exports
  BY <1>1
<1> HIDE DEF e
<1>8. QED
  BY <1>1, <1>4, <1>6, <1>7, HeldEvolves

-------------------------------------------------------------------------------
(***************************************************************************)
(* The steps of the specification.                                         *)
(***************************************************************************)
\* A method that ends in evolutions only preserves the invariant, and the step
\* changes at most the header of its array.
LEMMA EndsPreserves ==
  ASSUME IInv, NEW o \in Objects, Live(o), NEW outcomes,
         \A r \in outcomes : Evolves(o, obj[o], r.h), Ends(o, outcomes)
  PROVE  /\ IInv'
         /\ \E h : Evolves(o, obj[o], h) /\ obj' = [obj EXCEPT ![o] = h]
<1>1. PICK r \in outcomes : obj' = [obj EXCEPT ![o] = r.h]
  BY DEF Ends, Commit
<1>2. Evolves(o, obj[o], r.h)
  OBVIOUS
<1>3. views' = views
  BY DEF Ends
<1>4. IInv'
  BY <1>1, <1>2, <1>3, EvolutionPreserves
<1>5. QED
  BY <1>1, <1>2, <1>4

\* A write to the buffer leaves the header alone.
LEMMA WritesPreserve ==
  ASSUME IInv, NEW o \in Objects, Live(o), NEW m, Writes(o, m)
  PROVE  /\ IInv'
         /\ \E h : Evolves(o, obj[o], h) /\ obj' = [obj EXCEPT ![o] = h]
<1> DEFINE outcomes == {Outcome(None, obj[o], m)}
<1>1. Ends(o, outcomes)
  BY DEF Writes
<1>2. \A r \in outcomes : Evolves(o, obj[o], r.h)
  BY IInvFacts, EvolvesReflexive DEF Outcome
<1> HIDE DEF outcomes
<1>3. QED
  BY <1>1, <1>2, EndsPreserves

\* How a step of a method of array o changes the headers.
MethodStep(o) ==
  /\ Live(o)
  /\ \E h : Evolves(o, obj[o], h) /\ obj' = [obj EXCEPT ![o] = h]

\* The steps that resize.
LEMMA ResizingStep ==
  ASSUME IInv, NEW o \in Objects, Resizing(o)
  PROVE  IInv' /\ MethodStep(o)
<1>1. /\ MaxItems \in Nat
      /\ \A i \in 0 .. MaxBits : i \in Nat
  BY CallersAssumption
<1>2. ASSUME NEW v, Append(o, v) PROVE IInv' /\ MethodStep(o)
  <2>1. Live(o) /\ Ends(o, Appended(o, v))
    BY <1>2 DEF Append, Writable
  <2>2. QED
    BY <2>1, AppendedEvolves, EndsPreserves DEF MethodStep
<1>3. ASSUME NEW v, NEW i \in Nat, Insert(o, i, v) PROVE IInv' /\ MethodStep(o)
  <2>1. Live(o) /\ Ends(o, Inserted(o, i, v))
    BY <1>3 DEF Insert, Writable
  <2>2. QED
    BY <2>1, InsertedEvolves, EndsPreserves DEF MethodStep
<1>4. ASSUME NEW i \in Nat, Pop(o, i) PROVE IInv' /\ MethodStep(o)
  <2>1. Live(o) /\ i < obj[o].nbits /\ Ends(o, Popped(o, i))
    BY <1>4 DEF Pop, Writable
  <2>2. QED
    BY <2>1, PoppedEvolves, EndsPreserves DEF MethodStep
<1>5. CASE Clear(o)
  <2>1. Live(o) /\ Ends(o, Resized(o, 0))
    BY <1>5 DEF Clear, Writable
  <2>2. QED
    BY <2>1, ResizedEvolves, EndsPreserves DEF MethodStep
<1>6. ASSUME NEW k \in Nat, NEW u \in Nat, NEW f \in Items(u),
             ExtendSequence(o, f, k)
      PROVE  IInv' /\ MethodStep(o)
  <2>1. Live(o) /\ Ends(o, ExtendedBySequence(o, f, k))
    BY <1>6 DEF ExtendSequence, CanTake, Writable
  <2>2. QED
    BY <2>1, ExtendedBySequenceEvolves, EndsPreserves DEF MethodStep
<1>7. ASSUME NEW k \in Nat, NEW f, ExtendSequenceError(o, f, k)
      PROVE  IInv' /\ MethodStep(o)
  <2>1. Live(o) /\ Ends(o, FailedSequence(o, f, k))
    BY <1>7 DEF ExtendSequenceError, CanTake, Writable
  <2>2. QED
    BY <2>1, FailedSequenceEvolves, EndsPreserves DEF MethodStep
<1>8. CASE ExtendIterError(o)
  <2>1. Live(o) /\ Ends(o, FailedIter(o))
    BY <1>8 DEF ExtendIterError, CanTake, Writable
  <2>2. QED
    BY <2>1, FailedIterEvolves, EndsPreserves DEF MethodStep
<1>9. ASSUME NEW p \in Objects, Extend(o, p) PROVE IInv' /\ MethodStep(o)
  <2>1. Live(o) /\ Ends(o, Extended(o, p))
    BY <1>9 DEF Extend, CanExtend, Writable
  <2>2. QED
    BY <2>1, ExtendedEvolves, EndsPreserves DEF MethodStep
<1>10. ASSUME NEW p \in Objects, FromBytes(o, p) PROVE IInv' /\ MethodStep(o)
  <2>1. PICK g : Live(o) /\ Ends(o, ExtendedByBytes(o, p, g))
    BY <1>10 DEF FromBytes, Writable
  <2>2. QED
    BY <2>1, ExtendedByBytesEvolves, EndsPreserves DEF MethodStep
<1>11. ASSUME NEW k \in Nat, Repeat(o, k) PROVE IInv' /\ MethodStep(o)
  <2>1. Live(o) /\ Ends(o, Repeated(o, k))
    BY <1>11 DEF Repeat, Writable
  <2>2. QED
    BY <2>1, RepeatedEvolves, EndsPreserves DEF MethodStep
<1>12. ASSUME NEW k \in Nat, NEW f, EncodeIxyz(o, f, k) PROVE IInv' /\ MethodStep(o)
  <2>1. Live(o) /\ Ends(o, EncodedIxyz(o, f, k))
    BY <1>12 DEF EncodeIxyz, Writable
  <2>2. QED
    BY <2>1, EncodedIxyzEvolves, EndsPreserves DEF MethodStep
<1>13. ASSUME NEW p \in Objects, NEW i \in Nat, NEW j \in Nat, SetSlice(o, p, i, j)
       PROVE  IInv' /\ MethodStep(o)
  <2>1. /\ Live(o) /\ i <= j /\ j <= obj[o].nbits
        /\ Ends(o, SliceAssigned(o, p, i, j))
    BY <1>13 DEF SetSlice, CanSetSlice, Writable
  <2>2. QED
    BY <2>1, SliceAssignedEvolves, EndsPreserves DEF MethodStep
<1>14. ASSUME NEW p \in Objects, Pack(o, p) PROVE IInv' /\ MethodStep(o)
  <2>1. PICK g : Live(o) /\ Ends(o, Packed(o, p, g))
    BY <1>14 DEF Pack, Writable
  <2>2. QED
    BY <2>1, PackedEvolves, EndsPreserves DEF MethodStep
<1>15. QED
  BY <1>1, <1>2, <1>3, <1>4, <1>5, <1>6, <1>7, <1>8, <1>9, <1>10, <1>11, <1>12, <1>13,
     <1>14 DEF Resizing

\* The steps that only write.
LEMMA InPlaceStep ==
  ASSUME IInv, NEW o \in Objects, InPlace(o)
  PROVE  IInv' /\ MethodStep(o)
<1>1. CASE Fill(o)
  <2>1. Live(o) /\ Ends(o, Filled(o))
    BY <1>1 DEF Fill, Writable
  <2>2. QED
    BY <2>1, FilledEvolves, EndsPreserves DEF MethodStep
<1>2. CASE ~Fill(o)
  <2>1. ASSUME NEW b, Sort(o, b) PROVE Live(o) /\ \E m : Writes(o, m)
    BY <2>1, Zenon DEF Sort, Writable
  <2>2. ASSUME NEW n, NEW b, Shift(o, n, b) PROVE Live(o) /\ \E m : Writes(o, m)
    BY <2>2, Zenon DEF Shift, Writable
  <2>3. ASSUME NEW p, NEW oper, Bitwise(o, p, oper) PROVE Live(o) /\ \E m : Writes(o, m)
    BY <2>3, Zenon DEF Bitwise, Writable
  <2>4. ASSUME NEW k, Rotate(o, k) PROVE Live(o) /\ \E m : Writes(o, m)
    BY <2>4, Zenon DEF Rotate, Writable
  <2>5. Live(o) /\ \E m : Writes(o, m)
    BY <1>2, <2>1, <2>2, <2>3, <2>4
       DEF InPlace, SetItem, SetAll, Invert, Reverse, Bytereverse, ToBytes, Writable
  <2>6. QED
    BY <2>5, WritesPreserve DEF MethodStep
<1>3. QED
  BY <1>1, <1>2

\* What a step that runs no method leaves alone.
Placed(q) == /\ obj'[q].item = obj[q].item
             /\ obj'[q].size = obj[q].size
             /\ obj'[q].nbits = obj[q].nbits

OthersPlaced == \A q \in Objects : Stays(q) => Placed(q)

\* Counting an export does not touch the other fields.
LEMMA CountedPlaced ==
  ASSUME IInv, NEW p \in Objects, NEW e, obj'[p] = [obj[p] EXCEPT !.exports = e]
  PROVE  Placed(p)
BY IInvFacts DEF GoodHeader, Header, Placed

\* A new object does not move the others.
LEMMA CreationPlaced ==
  ASSUME IInv, NEW o \in Objects, ~Live(o), NEW h, obj' = [obj EXCEPT ![o] = h]
  PROVE  OthersPlaced
<1>1. obj \in [Objects -> Header]
  BY DEF IInv, HeadersOK
<1>2. \A q \in Objects : q # o => obj'[q] = obj[q]
  BY <1>1
<1>3. QED
  BY <1>2 DEF OthersPlaced, Placed, Stays

\* Neither does one that goes away, although it may release an exporter.
LEMMA ReleasePlaced ==
  ASSUME IInv, NEW o \in Objects, obj' = Released(o)
  PROVE  OthersPlaced
<1>1. obj \in [Objects -> Header]
  BY DEF IInv, HeadersOK
<1>2. PICK p : p = obj[o].buffer
  OBVIOUS
<1>3. p \in Objects \union {NoObject} /\ p # o
  <2>1. p # o
    BY <1>2 DEF IInv, ImportChains, Ancestry
  <2>2. QED
    BY <1>1, <1>2, <2>1 DEF Header
<1>4. obj'[o] = Unused
  BY <1>1, <1>2, <1>3 DEF Released
<1>5. \A q \in Objects : q # o /\ q # p => obj'[q] = obj[q]
  BY <1>1, <1>2, <1>3 DEF Released
<1>6. p # NoObject => obj'[p] = [obj[p] EXCEPT !.exports = @ - 1]
  BY <1>1, <1>2, <1>3 DEF Released
<1>7. p # NoObject => Placed(p)
  BY <1>3, <1>6, CountedPlaced
<1>8. ~Stays(o)
  BY <1>4, UnusedGood DEF Stays, Live
<1>9. QED
  BY <1>5, <1>7, <1>8, NoObjectIsNone DEF OthersPlaced, Placed

\* An initializer still to run leaves a fresh header fresh.
LEMMA BegunFresh ==
  ASSUME NEW o \in Objects, NEW h, Fresh(o, h)
  PROVE  Fresh(o, Begun(h))
<1>1. h \in Header /\ Consistent(h)
  BY DEF Fresh, GoodHeader
<1>2. CASE ~h.frozen
  BY <1>2 DEF Begun
<1>3. CASE h.frozen
  <2> DEFINE h2 == [h EXCEPT !.state = "new"]
  <2>1. h2 \in Header /\ Consistent(h2)
    BY <1>1 DEF Header, Consistent, HeaderOK, Proportionate
  <2>2. /\ h2.state = "new" /\ h2.frozen = h.frozen /\ h2.exports = h.exports
        /\ h2.buffer = h.buffer /\ h2.item = h.item
    BY <1>1 DEF Header
  <2>3. Begun(h) = h2
    BY <1>3 DEF Begun
  <2> HIDE DEF h2
  <2>4. QED
    BY <2>1, <2>2, <2>3, <1>3 DEF Fresh, GoodHeader
<1>4. QED
  BY <1>2, <1>3

\* pauliebits(p, endian)
LEMMA NewFromPauliebitsStep ==
  ASSUME IInv, NEW o \in Objects, NEW fz \in BOOLEAN, NEW e \in {LITTLE, BIG},
         NEW p \in Objects, NewFromPauliebits(o, fz, e, p)
  PROVE  IInv' /\ OthersPlaced
<1> DEFINE h == NewObject(o, fz, e, 0)
<1>1. Fresh(o, h)
  BY NewObjectFresh
<1> HIDE DEF h
<1>2. PICK r \in Resize(o, h, Blank, obj[p].nbits) :
        obj' = [obj EXCEPT ![o] = Begun(r.h)]
  BY DEF NewFromPauliebits, h
<1>3. Evolves(o, h, r.h)
  BY <1>1, NbitsNat, ResizeEvolves DEF Fresh
<1>4. Fresh(o, Begun(r.h))
  BY <1>1, <1>3, EvolvesFresh, BegunFresh
<1>5. Unborn(o) /\ views' = views
  BY DEF NewFromPauliebits
<1>6. QED
  BY <1>2, <1>4, <1>5, CreationPreserves, CreationPlaced DEF Unborn, Live

\* pauliebits(buffer=p): one export more, and a chain of imports one longer.
LEMMA NewFromBufferStep ==
  ASSUME IInv, NEW o \in Objects, NEW fz \in BOOLEAN, NEW e \in {LITTLE, BIG},
         NEW p \in Objects, NEW ro \in BOOLEAN, NewFromBuffer(o, fz, e, p, ro)
  PROVE  IInv' /\ OthersPlaced
<1> DEFINE i == NewImporter(fz, e, p, obj[p], ro)
           h == Begun(i)
<1>1. /\ Unborn(o) /\ Live(p) /\ views' = views
      /\ obj[p].readonly => ro
      /\ obj' = [obj EXCEPT ![o] = h, ![p].exports = @ + 1]
  BY DEF NewFromBuffer
<1>2. obj[p] \in Header /\ Consistent(obj[p])
  BY IInvFacts DEF GoodHeader
<1>3. i = [state |-> "live", frozen |-> fz, endian |-> e,
           nbits |-> ByteBits * obj[p].size, size |-> obj[p].size, allocated |-> 0,
           exports |-> 0, buffer |-> p, item |-> obj[p].item, readonly |-> ro]
  BY DEF NewImporter
<1>4. obj[p].size \in Nat /\ ByteBits * obj[p].size \in Nat
      /\ BYTES(ByteBits * obj[p].size) = obj[p].size
  BY NbitsNat, BytesOfWhole, ByteBitsAssumption
<1> HIDE DEF i
<1>5. i \in Header
  BY <1>2, <1>3, <1>4 DEF Header
<1>6. Consistent(i)
  BY <1>2, <1>3, <1>4, NoObjectIsNone DEF Consistent, HeaderOK, Proportionate
<1>7. /\ h \in Header /\ Consistent(h) /\ h.state # "free"
      /\ h.state = "new" => h.frozen
      /\ h.exports = 0 /\ h.buffer = p /\ h.item = obj[p].item
      /\ h.size = obj[p].size /\ h.readonly = ro
  <2>1. CASE ~fz
    <3>1. h = i
      BY <1>3, <2>1 DEF Begun
    <3>2. QED
      BY <3>1, <1>3, <1>5, <1>6
  <2>2. CASE fz
    <3>1. h = [i EXCEPT !.state = "new"]
      BY <1>3, <2>2 DEF Begun
    <3>2. i.frozen
      BY <1>3, <2>2
    <3>3. h \in Header
      BY <3>1, <1>5 DEF Header
    <3>4. Consistent(h)
      BY <3>1, <1>5, <1>6 DEF Consistent, HeaderOK, Proportionate, Header
    <3>5. /\ h.state = "new" /\ h.frozen = i.frozen
          /\ h.exports = i.exports /\ h.buffer = i.buffer /\ h.item = i.item
          /\ h.size = i.size /\ h.readonly = i.readonly
      BY <3>1, <1>5 DEF Header
    <3>6. QED
      BY <3>2, <3>3, <3>4, <3>5, <1>3
  <2>3. QED
    BY <2>1, <2>2
<1> HIDE DEF h
<1>8. ImportsFrom(p, h)
  BY <1>1, <1>7 DEF ImportsFrom, GoodHeader
<1>9. IInv'
  BY <1>1, <1>8, ImportPreserves
<1>10. OthersPlaced
  <2>1. obj \in [Objects -> Header]
    BY DEF IInv, HeadersOK
  <2>2. o # p
    BY <1>1 DEF Live, Unborn
  <2>3. \A q \in Objects : q # o /\ q # p => obj'[q] = obj[q]
    BY <2>1, <1>1
  <2>4. obj'[p] = [obj[p] EXCEPT !.exports = @ + 1]
    BY <2>1, <2>2, <1>1
  <2>5. Placed(p)
    BY <2>4, CountedPlaced
  <2>6. ~Stays(o)
    BY <1>1 DEF Stays, Live, Unborn
  <2>7. QED
    BY <2>3, <2>5, <2>6 DEF OthersPlaced, Placed
<1>11. QED
  BY <1>9, <1>10

\* Freezing, which deallocates the object if it cannot be frozen.
LEMMA FreezeStep ==
  ASSUME IInv, NEW o \in Objects, Freeze(o)
  PROVE  IInv' /\ OthersPlaced
<1>1. obj[o].state = "new" /\ views' = views
  BY DEF Freeze
<1>2. CASE obj[o].buffer # NoObject /\ ~obj[o].readonly
  <2>1. obj' = Released(o)
    BY <1>2 DEF Freeze
  <2>2. obj[o].exports = 0 /\ ~Unborn(o)
    BY <1>1 DEF IInv, NewUnshared, Unborn
  <2>3. QED
    BY <1>1, <2>1, <2>2, ReleasePreserves, ReleasePlaced
<1>3. CASE ~(obj[o].buffer # NoObject /\ ~obj[o].readonly)
  <2> DEFINE h == [obj[o] EXCEPT !.readonly = TRUE, !.state = "live"]
  <2>1. obj' = [obj EXCEPT ![o] = h]
    BY <1>3 DEF Freeze, Commit, Outcome
  <2>2. obj[o].buffer = NoObject \/ obj[o].readonly
    BY <1>3
  <2>3. h = [obj[o] EXCEPT !.readonly = TRUE, !.state = "live"]
    OBVIOUS
  <2> HIDE DEF h
  <2>4. IInv'
    BY <1>1, <2>1, <2>2, <2>3, FreezingPreserves
  <2>5. QED
    BY <1>1, <2>1, <2>4, CreationPlaced DEF Live
<1>4. QED
  BY <1>2, <1>3

\* pauliebits(n)
LEMMA NewFromIndexStep ==
  ASSUME IInv, NEW o \in Objects, NEW fz \in BOOLEAN, NEW e \in {LITTLE, BIG},
         NEW n \in Nat, NEW m, NewFromIndex(o, fz, e, n, m)
  PROVE  IInv' /\ OthersPlaced
<1> DEFINE h == NewObject(o, fz, e, n)
<1>1. Fresh(o, h)
  BY NewObjectFresh
<1> HIDE DEF h
<1>2. Unborn(o) /\ views' = views /\ obj' = [obj EXCEPT ![o] = Begun(h)]
  BY DEF NewFromIndex, h
<1>3. Fresh(o, Begun(h))
  BY <1>1, BegunFresh
<1>4. QED
  BY <1>2, <1>3, CreationPreserves, CreationPlaced DEF Unborn, Live

\* a.copy()
LEMMA CopyStep ==
  ASSUME IInv, NEW o \in Objects, NEW p \in Objects, Copy(o, p)
  PROVE  IInv' /\ OthersPlaced
<1> DEFINE h == NewObject(o, obj[p].frozen, obj[p].endian, obj[p].nbits)
           r == FreezeIfFrozen(h, Mem(p))
<1>1. obj[p].frozen \in BOOLEAN /\ obj[p].endian \in {LITTLE, BIG}
      /\ obj[p].nbits \in Nat
  BY IInvFacts DEF GoodHeader, Header
<1>2. Fresh(o, h) /\ h.state = "live"
  <2>1. ASSUME NEW fz \in BOOLEAN, NEW e \in {LITTLE, BIG}, NEW n \in Nat
        PROVE  Fresh(o, NewObject(o, fz, e, n)) /\ NewObject(o, fz, e, n).state = "live"
    BY NewObjectFresh, ZenonT(60)
  <2>2. QED
    BY <1>1, <2>1, Zenon
<1> HIDE DEF h
<1>3. Unborn(o) /\ views' = views /\ obj' = [obj EXCEPT ![o] = r.h]
  BY DEF Copy, h
<1>4. Fresh(o, r.h)
  <2>1. CASE ~h.frozen
    BY <2>1, <1>2 DEF FreezeIfFrozen, Outcome
  <2>2. CASE h.frozen
    <3> DEFINE h2 == [h EXCEPT !.readonly = TRUE]
    <3>1. h \in Header /\ Consistent(h)
      BY <1>2 DEF Fresh, GoodHeader
    <3>2. h2 \in Header /\ Consistent(h2)
      BY <2>2, <3>1 DEF Header, Consistent, HeaderOK, Proportionate
    <3>3. /\ h2.state = h.state /\ h2.frozen = h.frozen /\ h2.exports = h.exports
          /\ h2.buffer = h.buffer /\ h2.item = h.item
      BY <3>1 DEF Header
    <3>4. r.h = h2
      BY <2>2 DEF FreezeIfFrozen, Outcome
    <3> HIDE DEF h2
    <3>5. QED
      BY <3>2, <3>3, <3>4, <1>2 DEF Fresh, GoodHeader
  <2>3. QED
    BY <2>1, <2>2
<1> HIDE DEF r
<1>5. QED
  BY <1>3, <1>4, CreationPreserves, CreationPlaced DEF Unborn, Live

\* a.not_identity_mask()
LEMMA NotIdentityMaskStep ==
  ASSUME IInv, NEW o \in Objects, NEW p \in Objects, NotIdentityMask(o, p)
  PROVE  IInv' /\ OthersPlaced
<1> DEFINE n == obj[p].nbits \div 2
           new == NewObject(o, obj[p].frozen, BIG, n)
           h == [new EXCEPT !.state = "live"]
<1>1. obj[p].frozen \in BOOLEAN /\ n \in Nat /\ BIG \in {LITTLE, BIG}
  <2>1. obj[p].nbits \in Nat /\ obj[p].frozen \in BOOLEAN
    BY IInvFacts DEF GoodHeader, Header
  <2>2. QED
    BY <2>1
<1> HIDE DEF n
<1>2. Fresh(o, new) /\ new.state = "live"
  BY <1>1, NewObjectFresh, ZenonT(60)
<1> HIDE DEF new
<1>3. h = new
  BY <1>2 DEF Fresh, GoodHeader, Header
<1>4. Unborn(o) /\ views' = views /\ obj' = [obj EXCEPT ![o] = h]
  BY DEF NotIdentityMask, n, new
<1>5. QED
  BY <1>2, <1>3, <1>4, CreationPreserves, CreationPlaced DEF Unborn, Live

\* _pauliebits_reconstructor()
LEMMA ReconstructStep ==
  ASSUME IInv, NEW o \in Objects, NEW fz \in BOOLEAN, NEW ro \in BOOLEAN,
         NEW e \in {LITTLE, BIG}, NEW n \in Nat, NEW m, Reconstruct(o, fz, ro, e, n, m)
  PROVE  IInv' /\ OthersPlaced
<1> DEFINE new == NewObject(o, fz, e, n)
           h == [new EXCEPT !.readonly = ro]
<1>1. Fresh(o, new)
  BY NewObjectFresh
<1>2. Unborn(o) /\ views' = views /\ obj' = [obj EXCEPT ![o] = h]
  BY DEF Reconstruct
<1> HIDE DEF new
<1>3. new \in Header /\ Consistent(new)
  BY <1>1 DEF Fresh, GoodHeader
<1>4. h \in Header /\ Consistent(h)
  BY <1>3 DEF Header, Consistent, HeaderOK, Proportionate
<1>5. /\ h.state = new.state /\ h.frozen = new.frozen /\ h.exports = new.exports
      /\ h.buffer = new.buffer /\ h.item = new.item
  BY <1>3 DEF Header
<1> HIDE DEF h
<1>6. Fresh(o, h)
  BY <1>1, <1>4, <1>5 DEF Fresh, GoodHeader
<1>7. QED
  BY <1>2, <1>6, CreationPreserves, CreationPlaced DEF Unborn, Live

\* Deallocation of an array that nobody views or imports.
LEMMA DeallocStep ==
  ASSUME IInv, NEW o \in Objects, Dealloc(o)
  PROVE  IInv' /\ OthersPlaced
<1>1. /\ obj' = Released(o) /\ views' = views
      /\ ~Unborn(o) /\ views[o].w = 0 /\ views[o].r = 0
      /\ Importers(o) = {}
  BY DEF Dealloc, Live, Unborn, Importers
<1>2. obj[o].exports = 0
  <2>1. obj[o].exports = Cardinality(Importers(o)) + 0 + 0
    BY <1>1 DEF IInv, ExportsCounted
  <2>2. Cardinality(Importers(o)) = 0
    BY <1>1, FS_EmptySet
  <2>3. QED
    BY <2>1, <2>2
<1>3. QED
  BY <1>1, <1>2, ReleasePreserves, ReleasePlaced

\* The steps that create or destroy an array.
LEMMA CreationStep ==
  ASSUME IInv, NEW o \in Objects, Creation(o)
  PROVE  IInv' /\ OthersPlaced
<1>1. \A e \in Endians : e \in {LITTLE, BIG}
  BY CallersAssumption
<1>2. MaxBits \in Nat /\ \A n \in 0 .. MaxBits : n \in Nat
  BY ByteBitsAssumption, MaxBytesAssumption DEF MaxBits
<1>3. QED
  BY <1>1, <1>2, NewFromIndexStep, NewFromPauliebitsStep, NewFromBufferStep,
     FreezeStep, CopyStep, NotIdentityMaskStep, ReconstructStep, DeallocStep
     DEF Creation

\* A memoryview is taken: one export more.
LEMMA GetBufferStep ==
  ASSUME IInv, NEW o \in Objects, GetBuffer(o)
  PROVE  IInv' /\ OthersPlaced
<1> DEFINE v == IF obj[o].readonly THEN [views[o] EXCEPT !.r = @ + 1]
                                   ELSE [views[o] EXCEPT !.w = @ + 1]
           h == [obj[o] EXCEPT !.exports = @ + 1]
<1>1. obj \in [Objects -> Header] /\ views \in [Objects -> [w : Nat, r : Nat]]
  BY DEF IInv, HeadersOK
<1>2. obj[o].exports \in Nat /\ obj[o] \in Header /\ views[o].w \in Nat /\ views[o].r \in Nat
  BY <1>1, IInvFacts
<1>3. obj' = [obj EXCEPT ![o] = h]
  BY <1>1 DEF GetBuffer
<1>4. views' = [views EXCEPT ![o] = v]
  BY <1>1 DEF GetBuffer
<1>5. /\ h.exports = obj[o].exports + 1
      /\ h = [obj[o] EXCEPT !.exports = h.exports]
  BY <1>2 DEF Header
<1>6. /\ v \in [w : Nat, r : Nat]
      /\ v.w + v.r = views[o].w + views[o].r + 1
      /\ v.w > 0 => views[o].w > 0 \/ ~obj[o].readonly
  BY <1>1, <1>2
<1>7. Live(o)
  BY DEF GetBuffer
<1> HIDE DEF h, v
<1>8. h.exports - v.w - v.r = obj[o].exports - views[o].w - views[o].r
  BY <1>2, <1>5, <1>6
<1>9. IInv'
  <2>1. h.exports \in Nat
    BY <1>2, <1>5
  <2>2. h = [obj[o] EXCEPT !.exports = h.exports]
    BY <1>5
  <2>3. v \in [w : Nat, r : Nat] /\ (v.w > 0 => views[o].w > 0 \/ ~obj[o].readonly)
    BY <1>6
  <2>4. QED
    BY <2>1, <2>2, <2>3, <1>3, <1>4, <1>7, <1>8, ViewsPreserve
<1>10. Placed(o)
  BY <1>1, <1>3, <1>5, CountedPlaced
<1>11. QED
  BY <1>1, <1>3, <1>9, <1>10 DEF OthersPlaced, Placed

\* A memoryview is released: one export less.
LEMMA ReleaseBufferStep ==
  ASSUME IInv, NEW o \in Objects, ReleaseBuffer(o)
  PROVE  IInv' /\ OthersPlaced
<1> DEFINE h == [obj[o] EXCEPT !.exports = @ - 1]
<1>1. obj \in [Objects -> Header] /\ views \in [Objects -> [w : Nat, r : Nat]]
  BY DEF IInv, HeadersOK
<1>2. obj[o].exports \in Nat /\ obj[o] \in Header /\ views[o].w \in Nat /\ views[o].r \in Nat
  BY <1>1, IInvFacts
<1>3. obj' = [obj EXCEPT ![o] = h]
  BY <1>1 DEF ReleaseBuffer
<1>4. PICK v \in [w : Nat, r : Nat] :
        /\ views' = [views EXCEPT ![o] = v]
        /\ v.w + v.r = views[o].w + views[o].r - 1
        /\ v.w > 0 => views[o].w > 0
  <2>1. CASE views[o].w > 0 /\ views' = [views EXCEPT ![o].w = @ - 1]
    <3> DEFINE v == [views[o] EXCEPT !.w = @ - 1]
    <3>1. views' = [views EXCEPT ![o] = v]
      BY <2>1, <1>1
    <3>2. /\ v \in [w : Nat, r : Nat]
          /\ v.w + v.r = views[o].w + views[o].r - 1
      BY <2>1, <1>1, <1>2
    <3>3. QED
      BY <2>1, <3>1, <3>2
  <2>2. CASE views[o].r > 0 /\ views' = [views EXCEPT ![o].r = @ - 1]
    <3> DEFINE v == [views[o] EXCEPT !.r = @ - 1]
    <3>1. views' = [views EXCEPT ![o] = v]
      BY <2>2, <1>1
    <3>2. /\ v \in [w : Nat, r : Nat]
          /\ v.w + v.r = views[o].w + views[o].r - 1
          /\ v.w = views[o].w
      BY <2>2, <1>1, <1>2
    <3>3. QED
      BY <3>1, <3>2
  <2>3. QED
    BY <2>1, <2>2 DEF ReleaseBuffer
<1>5. views[o] # [w |-> 0, r |-> 0]
  BY <1>2 DEF ReleaseBuffer
<1>6. obj[o].exports > 0
  BY <1>2, <1>5, IInvFacts
<1>7. Live(o)
  BY <1>1, <1>5, <1>6 DEF IInv, UnusedBlank, NewUnshared, Live, Unborn, Header
<1>8. /\ h.exports = obj[o].exports - 1
      /\ h = [obj[o] EXCEPT !.exports = h.exports]
  BY <1>2 DEF Header
<1> HIDE DEF h
<1>9. h.exports \in Nat
  BY <1>2, <1>6, <1>8
<1>10. h.exports - v.w - v.r = obj[o].exports - views[o].w - views[o].r
  BY <1>2, <1>4, <1>8
<1>11. IInv'
  <2>1. views' = [views EXCEPT ![o] = v] /\ (v.w > 0 => views[o].w > 0)
    BY <1>4
  <2>2. h = [obj[o] EXCEPT !.exports = h.exports]
    BY <1>8
  <2>3. v.w > 0 => views[o].w > 0 \/ ~obj[o].readonly
    BY <2>1
  <2>4. v \in [w : Nat, r : Nat]
    BY <1>4
  <2>5. QED
    BY <2>1, <2>2, <2>3, <2>4, <1>3, <1>7, <1>9, <1>10, ViewsPreserve
<1>12. Placed(o)
  BY <1>1, <1>3, <1>8, CountedPlaced
<1>13. QED
  BY <1>1, <1>3, <1>11, <1>12 DEF OthersPlaced, Placed

\* The header variables decide whether the invariant holds.
LEMMA UnchangedPreserves ==
  ASSUME IInv, UNCHANGED <<obj, views>>
  PROVE  IInv' /\ OthersPlaced
BY
   DEF IInv, HeadersOK, AllConsistent, ImportsValid, ExportsCounted, UnusedBlank,
       NewUnshared, ImportChains, ImportersFinite, Ancestry, Importers, Live,
       Unborn, OthersPlaced, Placed

\* The steps of memoryviews.
LEMMA ExportingStep ==
  ASSUME IInv, NEW o \in Objects, Exporting(o)
  PROVE  IInv' /\ OthersPlaced
<1>1. ASSUME NEW c, NEW v, ViewWrite(o, c, v) PROVE IInv' /\ OthersPlaced
  BY <1>1, UnchangedPreserves DEF ViewWrite
<1>2. QED
  BY <1>1, GetBufferStep, ReleaseBufferStep DEF Exporting

-------------------------------------------------------------------------------
(***************************************************************************)
(* The theorems.                                                           *)
(***************************************************************************)
LEMMA InitInvariant == Init => IInv
<1>1. SUFFICES ASSUME Init PROVE IInv
  OBVIOUS
<1>2. /\ obj = [o \in Objects |-> Unused]
      /\ views = [o \in Objects |-> [w |-> 0, r |-> 0]]
  BY <1>1 DEF Init
<1>3. /\ Unused \in Header /\ Consistent(Unused) /\ Unused.state = "free"
      /\ Unused.exports = 0 /\ Unused.buffer = NoObject /\ Unused.item = NoObject
  BY UnusedGood DEF GoodHeader
<1>4. HeadersOK
  BY <1>2, <1>3 DEF HeadersOK
<1>5. AllConsistent
  BY <1>2, <1>3 DEF AllConsistent
<1>6. \A o \in Objects : obj[o].buffer = NoObject /\ obj[o].item = NoObject
  BY <1>2, <1>3
<1>7. ImportsValid
  BY <1>2, <1>6, NoObjectIsNone DEF ImportsValid
<1>8. \A o \in Objects : Importers(o) = {}
  BY <1>6, NoObjectIsNone DEF Importers
<1>9. \A o \in Objects : IsFiniteSet(Importers(o)) /\ Cardinality(Importers(o)) = 0
  BY <1>8, FS_EmptySet
<1>10. ExportsCounted
  BY <1>2, <1>3, <1>9 DEF ExportsCounted
<1>11. UnusedBlank /\ NewUnshared
  BY <1>2, <1>3 DEF UnusedBlank, NewUnshared
<1>12. ImportChains
  <2> DEFINE anc == [o \in Objects |-> {}]
  <2>1. Ancestry(anc)
    BY <1>6, NoObjectIsNone DEF Ancestry
  <2>2. anc \in [Objects -> SUBSET Objects]
    OBVIOUS
  <2>3. QED
    BY <2>1, <2>2 DEF ImportChains
<1>13. ImportersFinite
  BY <1>9 DEF ImportersFinite
<1>14. QED
  BY <1>4, <1>5, <1>7, <1>10, <1>11, <1>12, <1>13 DEF IInv

\* Every step preserves the inductive invariant.
LEMMA NextInvariant == IInv /\ [Next]_vars => IInv'
<1>1. SUFFICES ASSUME IInv, [Next]_vars PROVE IInv'
  OBVIOUS
<1>2. CASE Next
  BY <1>1, <1>2, CreationStep, ExportingStep, ResizingStep, InPlaceStep DEF Next
<1>3. CASE UNCHANGED vars
  BY <1>1, <1>3, UnchangedPreserves DEF vars
<1>4. QED
  BY <1>1, <1>2, <1>3

\* The inductive invariant holds in every state of the program.
THEOREM Invariance == Spec => []IInv
BY InitInvariant, NextInvariant, PTL DEF Spec

\* Whatever the methods do, and however they fail, every array keeps a header
\* that check_obj() accepts.
THEOREM HeadersConsistent == Spec => [](HeadersOK /\ CheckObj)
<1>1. IInv => HeadersOK /\ CheckObj
  BY DEF IInv, AllConsistent, Consistent, CheckObj
<1>2. QED
  BY <1>1, Invariance, PTL

\* The memory of an array is in proportion to its elements, whatever made it grow
\* or shrink: a failed method that rolled back, one that resized twice or one that
\* ran while its own buffer was exported.  An importer has no memory of its own.
THEOREM MemoryProportionate ==
  Spec => [](\A o \in Objects :
               obj[o].allocated <= 2 * BYTES(obj[o].nbits) + 1)
<1>1. IInv => \A o \in Objects : obj[o].allocated <= 2 * BYTES(obj[o].nbits) + 1
  BY DEF IInv, AllConsistent, Consistent, HeaderOK, Proportionate
<1>2. QED
  BY <1>1, Invariance, PTL

\* No array points to memory that was moved, resized or freed, nor may it write
\* to memory that it was given read-only.
THEOREM NoDanglingBuffers == Spec => []ImportsValid
<1>1. IInv => ImportsValid
  BY DEF IInv
<1>2. QED
  BY <1>1, Invariance, PTL

\* ob_exports counts the users of a buffer exactly.
THEOREM ExportsExact == Spec => []ExportsCounted
<1>1. IInv => ExportsCounted
  BY DEF IInv
<1>2. QED
  BY <1>1, Invariance, PTL

\* A buffer does not move or change its size while it is exported or imported.
THEOREM BuffersPinned == Spec => SharedBufferPinned
<1> DEFINE Kept(o) == Stays(o) /\ Pinned(obj[o]) =>
                        /\ obj'[o].item = obj[o].item
                        /\ obj'[o].size = obj[o].size
                        /\ obj'[o].nbits \in {obj[o].nbits, ByteBits * obj[o].size}
<1>1. IInv /\ [Next]_vars => [\A o \in Objects : Kept(o)]_vars
  <2>1. SUFFICES ASSUME IInv, Next, NEW o \in Objects PROVE Kept(o)
    OBVIOUS
  <2>2. PICK a \in Objects : Creation(a) \/ Exporting(a) \/ Resizing(a) \/ InPlace(a)
    BY <2>1 DEF Next
  <2>3. CASE Creation(a) \/ Exporting(a)
    <3>1. OthersPlaced
      BY <2>1, <2>3, CreationStep, ExportingStep
    <3>2. QED
      BY <3>1 DEF OthersPlaced, Placed
  <2>4. CASE Resizing(a) \/ InPlace(a)
    <3>1. MethodStep(a)
      BY <2>1, <2>4, ResizingStep, InPlaceStep
    <3>2. PICK h : Evolves(a, obj[a], h) /\ obj' = [obj EXCEPT ![a] = h]
      BY <3>1 DEF MethodStep
    <3>3. obj \in [Objects -> Header]
      BY <2>1 DEF IInv, HeadersOK
    <3>4. QED
      BY <3>2, <3>3 DEF Evolves
  <2>5. QED
    BY <2>2, <2>3, <2>4
<1>2. Spec => [][\A o \in Objects : Kept(o)]_vars
  BY <1>1, Invariance, PTL DEF Spec
<1>3. QED
  BY <1>2 DEF SharedBufferPinned

-------------------------------------------------------------------------------
(***************************************************************************)
(* What the arrays contain, for any number of arrays, any width of a byte  *)
(* and any bounds.                                                         *)
(***************************************************************************)
\* A header and a buffer as the methods find and leave them.
Stored(h, m) == GoodHeader(h) /\ m \in Block /\ h.nbits <= Limit

\* No element is garbage.
Clean(h, m) == \A i \in Nat : i < h.nbits => At(h.endian, m, i) \in Bit

\* Nor, in a buffer with other users, is anything else.
Ready(h, m) == Clean(h, m) /\ (Pinned(h) => Full(m, h.size))

\* The fields of such a header, and the room its bytes give.
LEMMA StoredFacts ==
  ASSUME NEW h, NEW m, Stored(h, m)
  PROVE  /\ h \in Header
         /\ m \in Block
         /\ h.endian \in Endian
         /\ h.nbits \in Nat /\ h.size \in Nat
         /\ h.nbits <= Room(h.size)
         /\ Room(h.size) \in Nat
         /\ Room(h.size) <= Limit
         /\ Limit \in Nat
<1>1. /\ h \in Header /\ m \in Block
      /\ h.endian \in Endian
      /\ h.nbits \in Nat /\ h.size \in Nat
      /\ h.size = BYTES(h.nbits)
      /\ h.nbits <= Limit
  BY DEF Stored, GoodHeader, Header, Consistent, HeaderOK, Proportionate, Endian
<1>2. h.nbits <= Room(h.size)
  BY <1>1, BytesFit
<1>3. h.size <= MaxBytes
  BY <1>1, BytesFit, MaxBytesAssumption DEF Limit
<1>4. Room(h.size) <= Limit
  BY <1>1, <1>3, RoomMonotonic, MaxBytesAssumption DEF Limit
<1>5. Room(h.size) \in Nat
  BY <1>1, RoomFacts
<1>6. QED
  BY <1>1, <1>2, <1>4, <1>5, IndicesFacts

\* A clean array, in terms of the model's operators.
LEMMA CleanElements ==
  ASSUME NEW h, NEW m, h.nbits \in Nat
  PROVE  /\ Clean(h, m) <=> \A i \in DOMAIN Elements(h, m) : Elements(h, m)[i] \in Bit
         /\ \A i \in 0 .. (h.nbits - 1) : Elements(h, m)[i] = At(h.endian, m, i)
<1>1. /\ DOMAIN Elements(h, m) = 0 .. (h.nbits - 1)
      /\ \A i \in 0 .. (h.nbits - 1) : Elements(h, m)[i] = At(h.endian, m, i)
  BY DEF Elements, GetBit, At
<1>2. \A i : i \in 0 .. (h.nbits - 1) <=> i \in Nat /\ i < h.nbits
  OBVIOUS
<1>3. QED
  BY <1>1, <1>2 DEF Clean

\* Memory nobody has written.
LEMMA BlankBlock == Blank \in Block
BY DEF Blank, Block

\* The leading bytes survive a reallocation.
LEMMA KeepAt ==
  ASSUME NEW e \in Endian, NEW m \in Block, NEW n \in Nat
  PROVE  /\ Keep(m, n) \in Block
         /\ \A i \in Nat : i < Room(n) /\ i < Limit => At(e, Keep(m, n), i) = At(e, m, i)
<1>1. \A c \in Cells : Keep(m, n)[c] = IF c < Room(n) THEN m[c] ELSE Undef
  BY DEF Keep, Room
<1>2. Keep(m, n) \in Block
  <2>1. \A c \in Cells : (IF c < Room(n) THEN m[c] ELSE Undef) \in Bit \union {Undef}
    BY DEF Block
  <2>2. QED
    BY <2>1 DEF Keep, Room, Block
<1>3. ASSUME NEW i \in Nat, i < Room(n), i < Limit
      PROVE  At(e, Keep(m, n), i) = At(e, m, i)
  <2>1. Pos(e, i) \in Cells /\ Pos(e, i) < Room(n)
    BY <1>3, PosRange, IndicesFacts
  <2>2. QED
    BY <1>1, <2>1 DEF At
<1>4. QED
  BY <1>2, <1>3

-------------------------------------------------------------------------------
(***************************************************************************)
(* The primitives.                                                         *)
(***************************************************************************)
\* resize(): the elements that still fit stay, unless memory runs out; nothing
\* at all happens to a pinned array.
LEMMA ResizeContent ==
  ASSUME NEW o \in Objects, NEW h, NEW m, Stored(h, m), NEW n \in Nat, n <= Limit,
         NEW r \in Resize(o, h, m, n)
  PROVE  /\ Stored(r.h, r.m)
         /\ r.h.endian = h.endian
         /\ Pinned(r.h) <=> Pinned(h)
         /\ r.err \in {None, "BufferError", "MemoryError"}
         /\ r.err = "BufferError" <=> Pinned(h)
         /\ Pinned(h) => r.h = h /\ r.m = m
         /\ r.err = "MemoryError" => AllocFails /\ r.h.nbits = 0
         /\ r.err = None => /\ r.h.nbits = n
                            /\ \A i \in Nat : i < n /\ i < h.nbits =>
                                 At(h.endian, r.m, i) = At(h.endian, m, i)
<1> DEFINE newsize == BYTES(n)
           alloc == NewAllocation(h.size, h.allocated, newsize)
           ksize == IF newsize < h.size THEN newsize ELSE h.size
           h1 == [h EXCEPT !.nbits = n]
           h2 == [h EXCEPT !.nbits = n, !.size = newsize, !.allocated = alloc, !.item = o]
<1>1. /\ h \in Header /\ m \in Block /\ h.endian \in Endian
      /\ h.nbits \in Nat /\ h.size \in Nat /\ h.nbits <= Room(h.size)
      /\ h.nbits <= Limit /\ Limit \in Nat /\ Room(h.size) \in Nat
      /\ GoodHeader(h)
  BY StoredFacts DEF Stored
<1>2. Evolves(o, h, r.h) /\ (r.err = None => r.h.nbits = n)
  BY <1>1, ResizeEvolves
<1>3. GoodHeader(r.h) /\ (Pinned(r.h) <=> Pinned(h))
  BY <1>2 DEF Evolves, Pinned
<1>4. newsize \in Nat /\ n <= Room(newsize) /\ Room(newsize) \in Nat
  BY BytesFit, RoomFacts
<1>5. CASE Pinned(h)
  <2>1. r = Outcome("BufferError", h, m)
    BY <1>5 DEF Resize
  <2>2. r.err = "BufferError" /\ r.h = h /\ r.m = m
    BY <2>1 DEF Outcome
  <2>3. QED
    BY <1>1, <1>5, <2>2 DEF None, Stored
<1>6. CASE ~Pinned(h) /\ newsize = h.size
  <2>1. r = Outcome(None, h1, m)
    BY <1>6 DEF Resize
  <2>2. r.err = None /\ r.h = h1 /\ r.m = m
    BY <2>1 DEF Outcome
  <2>3. h1.endian = h.endian /\ h1.nbits = n
    BY <1>1 DEF Header
  <2> HIDE DEF h1
  <2>4. Stored(r.h, r.m)
    BY <1>1, <1>3, <2>2, <2>3 DEF Stored
  <2>5. QED
    BY <1>2, <1>3, <1>6, <2>2, <2>3, <2>4 DEF None
<1>7. Emptied(h).nbits = 0 /\ Emptied(h).endian = h.endian
  BY <1>1 DEF Emptied, Header
<1>8. CASE ~Pinned(h) /\ newsize # h.size /\ newsize = 0
  <2>1. r = Outcome(None, Emptied(h), Blank)
    BY <1>8 DEF Resize
  <2>2. r.err = None /\ r.h = Emptied(h) /\ r.m = Blank
    BY <2>1 DEF Outcome
  <2>3. Stored(r.h, r.m)
    BY <1>1, <1>3, <1>7, <2>2, BlankBlock DEF Stored
  <2>4. n = 0
    BY <1>2, <1>7, <2>2
  <2>5. QED
    BY <1>2, <1>3, <1>7, <1>8, <2>2, <2>3, <2>4 DEF None
<1>9. CASE ~Pinned(h) /\ newsize # h.size /\ newsize # 0
  <2>1. \/ r = Outcome(None, h2, Keep(m, ksize))
        \/ AllocFails /\ r = Outcome("MemoryError", Emptied(h), Blank)
    <3>1. r \in {Outcome(None, h2, Keep(m, ksize))} \union
                (IF AllocFails /\ alloc # h.allocated
                 THEN {Outcome("MemoryError", Emptied(h), Blank)} ELSE {})
      BY <1>9 DEF Resize
    <3> HIDE DEF h2, ksize, alloc
    <3>2. QED
      BY <3>1
  <2>2. CASE r = Outcome(None, h2, Keep(m, ksize))
    <3>1. r.err = None /\ r.h = h2 /\ r.m = Keep(m, ksize)
      BY <2>2 DEF Outcome
    <3>2. h2.endian = h.endian /\ h2.nbits = n
      BY <1>1 DEF Header
    <3>3. ksize \in Nat /\ \A i \in Nat : i < n /\ i < h.nbits => i < Room(ksize)
      BY <1>1, <1>4
    <3> HIDE DEF h2, ksize
    <3>4. Keep(m, ksize) \in Block
      BY <1>1, <3>3, KeepAt
    <3>5. Stored(r.h, r.m)
      BY <1>1, <1>3, <3>1, <3>2, <3>4 DEF Stored
    <3>6. ASSUME NEW i \in Nat, i < n, i < h.nbits
          PROVE  At(h.endian, r.m, i) = At(h.endian, m, i)
      <4>1. i < Room(ksize) /\ i < Limit
        BY <1>1, <3>3, <3>6
      <4>2. QED
        BY <1>1, <3>1, <3>3, <4>1, KeepAt
    <3>7. QED
      BY <1>2, <1>3, <1>9, <3>1, <3>2, <3>5, <3>6 DEF None
  <2>3. CASE AllocFails /\ r = Outcome("MemoryError", Emptied(h), Blank)
    <3>1. r.err = "MemoryError" /\ r.h = Emptied(h) /\ r.m = Blank
      BY <2>3 DEF Outcome
    <3>2. Stored(r.h, r.m)
      BY <1>1, <1>3, <1>7, <3>1, BlankBlock DEF Stored
    <3>3. QED
      BY <1>3, <1>7, <1>9, <2>3, <3>1, <3>2 DEF None
  <2>4. QED
    BY <2>1, <2>2, <2>3
<1>10. QED
  BY <1>5, <1>6, <1>8, <1>9

\* What the outcome r of a method that sets the length to n has in common with
\* all others: a pinned array stays what it is, and without memory nothing is left.
Result(h, r, n) ==
  /\ Stored(r.h, r.m)
  /\ r.h.endian = h.endian
  /\ Pinned(r.h) <=> Pinned(h)
  /\ r.err \in {None, "BufferError", "MemoryError"}
  /\ r.err = "BufferError" => Pinned(h) /\ r.h = h
  /\ r.err = "MemoryError" => AllocFails /\ ~Pinned(h) /\ r.h.nbits = 0
  /\ r.err = None => r.h.nbits = n

\* Nothing happens to a pinned array.
Refused(h, m, r) == Pinned(h) => r.err = "BufferError" /\ r.h = h /\ r.m = m

\* The first k elements are the same.
Prefix(h, m, r, k) == \A i \in Nat : i < k => At(h.endian, r.m, i) = At(h.endian, m, i)

\* resize(), in these terms.
LEMMA ResizeResult ==
  ASSUME NEW o \in Objects, NEW h, NEW m, Stored(h, m), NEW n \in Nat, n <= Limit,
         NEW r \in Resize(o, h, m, n)
  PROVE  /\ Result(h, r, n)
         /\ Refused(h, m, r)
         /\ \A k \in Nat : r.err = None /\ k <= n /\ k <= h.nbits => Prefix(h, m, r, k)
<1>1. Result(h, r, n) /\ Refused(h, m, r)
  BY ResizeContent DEF Result, Refused, None
<1>2. ASSUME NEW k \in Nat, r.err = None, k <= n, k <= h.nbits
      PROVE  Prefix(h, m, r, k)
  <2>1. h.nbits \in Nat
    BY StoredFacts
  <2>2. \A i \in Nat : i < k => i < n /\ i < h.nbits
    BY <1>2, <2>1
  <2>4. \A i \in Nat : i < n /\ i < h.nbits => At(h.endian, r.m, i) = At(h.endian, m, i)
    BY <1>2, ResizeContent
  <2>5. QED
    BY <2>2, <2>4 DEF Prefix
<1>3. QED
  BY <1>1, <1>2

\* A method that goes on after a resize, writing x.
LEMMA ResultWritten ==
  ASSUME NEW h, NEW q, NEW n, Result(h, q, n), q.err = None, NEW x \in Block,
         NEW r, r = Outcome(None, q.h, x)
  PROVE  Result(h, r, n)
<1>1. r.err = None /\ r.h = q.h /\ r.m = x
  BY DEF Outcome
<1>2. Stored(q.h, x)
  BY DEF Result, Stored
<1>3. QED
  BY <1>1, <1>2 DEF Result, None

\* A buffer without garbage has no elements that are garbage.
LEMMA FullClean ==
  ASSUME NEW h, NEW m, Stored(h, m), Full(m, h.size)
  PROVE  Clean(h, m)
<1>1. /\ h.endian \in Endian /\ h.nbits \in Nat /\ h.size \in Nat
      /\ h.nbits <= Room(h.size) /\ Room(h.size) \in Nat /\ Room(h.size) <= Limit
      /\ Limit \in Nat
  BY StoredFacts
<1>2. ASSUME NEW i \in Nat, i < h.nbits PROVE At(h.endian, m, i) \in Bit
  <2>1. i < Room(h.size) /\ i \in Indices
    BY <1>1, <1>2, IndicesFacts
  <2>2. QED
    BY <1>1, <2>1, FullAt
<1>3. QED
  BY <1>2 DEF Clean

\* A method leaves an array ready if no garbage becomes an element and, in a
\* shared buffer, none appears.
LEMMA ResultReady ==
  ASSUME NEW h, NEW m, NEW r, NEW n, Result(h, r, n), ~AllocFails, Ready(h, m),
         Pinned(h) /\ Full(m, h.size) => Full(r.m, r.h.size),
         ~Pinned(h) /\ r.err = None => Clean(r.h, r.m)
  PROVE  Ready(r.h, r.m)
<1>1. CASE Pinned(h)
  BY <1>1, FullClean DEF Result, Ready
<1>2. CASE ~Pinned(h)
  BY <1>2 DEF Result, Ready
<1>3. QED
  BY <1>1, <1>2

\* A method that resizes and is refused on a pinned array.
LEMMA RefusedReady ==
  ASSUME NEW h, NEW m, NEW r, NEW n, Result(h, r, n), ~AllocFails, Ready(h, m),
         Refused(h, m, r), r.err = None => Clean(r.h, r.m)
  PROVE  Ready(r.h, r.m)
BY ResultReady DEF Refused

\* insert_n() moves the elements from start on by n.
LEMMA InsertNContent ==
  ASSUME NEW o \in Objects, NEW h, NEW m, Stored(h, m), NEW start \in Nat,
         start <= h.nbits, NEW n \in Nat, h.nbits + n <= Limit,
         NEW r \in InsertN(o, h, m, start, n)
  PROVE  /\ Result(h, r, h.nbits + n)
         /\ Refused(h, m, r)
         /\ r.err = None =>
              /\ Prefix(h, m, r, start)
              /\ \A i \in Nat : start <= i /\ i < h.nbits =>
                   At(h.endian, r.m, i + n) = At(h.endian, m, i)
<1> DEFINE N == h.nbits
<1>1. /\ N \in Nat /\ Limit \in Nat /\ h.endian \in Endian /\ m \in Block
      /\ N + n \in Nat
  BY StoredFacts
<1>2. PICK q \in Resize(o, h, m, N + n) :
        \/ q.err # None /\ r = q
        \/ /\ q.err = None
           /\ r = Outcome(None, q.h, CopyN(q.h, q.m, start + n, q.h, q.m, start, N - start))
  BY DEF InsertN, Then
<1>3. /\ Result(h, q, N + n) /\ Refused(h, m, q)
      /\ q.err = None => Prefix(h, m, q, N)
  BY <1>1, <1>2, ResizeResult
<1>4. CASE q.err # None /\ r = q
  BY <1>3, <1>4
<1>5. CASE /\ q.err = None
           /\ r = Outcome(None, q.h, CopyN(q.h, q.m, start + n, q.h, q.m, start, N - start))
  <2> DEFINE x == CopyN(q.h, q.m, start + n, q.h, q.m, start, N - start)
             e == h.endian
  <2>1. q.h.endian = e /\ q.m \in Block /\ e \in Endian
    BY <1>1, <1>3 DEF Result, Stored
  <2>2. start + n \in Nat /\ N - start \in Nat /\ start + (N - start) <= Limit
    BY <1>1
  <2>3. x \in Block
    BY <2>1, <2>2, CopyNBlock
  <2>4. ASSUME NEW i \in Nat, i < Limit
        PROVE  /\ start + n <= i /\ i < (start + n) + (N - start) =>
                    At(e, x, i) = At(e, q.m, start + (i - (start + n)))
               /\ i < start + n => At(e, x, i) = At(e, q.m, i)
    BY <2>1, <2>2, <2>4, CopyNElements
  <2>5. r.err = None /\ r.h = q.h /\ r.m = x
    BY <1>5 DEF Outcome
  <2> HIDE DEF x, N, e
  <2>6. Result(h, r, N + n)
    BY <1>3, <1>5, <2>3, ResultWritten DEF x
  <2>7. ASSUME NEW i \in Nat, i < start PROVE At(e, x, i) = At(e, m, i)
    <3>1. i < N /\ i < Limit /\ i < start + n
      BY <1>1, <2>2, <2>7 DEF N
    <3>2. At(e, q.m, i) = At(e, m, i)
      BY <1>3, <1>5, <2>1, <3>1 DEF Prefix, e
    <3>3. QED
      BY <2>4, <3>1, <3>2
  <2>8. ASSUME NEW i \in Nat, start <= i, i < N PROVE At(e, x, i + n) = At(e, m, i)
    <3>1. /\ i + n \in Nat /\ i + n < Limit
          /\ start + n <= i + n /\ i + n < (start + n) + (N - start)
          /\ start + ((i + n) - (start + n)) = i
      BY <1>1, <2>2, <2>8 DEF N
    <3>2. At(e, q.m, i) = At(e, m, i)
      BY <1>3, <1>5, <2>1, <2>8 DEF Prefix, e
    <3>3. QED
      BY <2>4, <3>1, <3>2
  <2>9. Prefix(h, m, r, start)
    BY <2>5, <2>7 DEF Prefix, e
  <2>10. Refused(h, m, r)
    BY <1>3, <1>5 DEF Refused, None
  <2>11. QED
    BY <2>5, <2>6, <2>8, <2>9, <2>10 DEF N, e
<1>6. QED
  BY <1>2, <1>4, <1>5

\* delete_n() moves the elements behind the deleted ones, and then cuts off;
\* when it is refused to, they have moved.
LEMMA DeleteNContent ==
  ASSUME NEW o \in Objects, NEW h, NEW m, Stored(h, m), NEW start \in Nat,
         NEW n \in Nat, start + n <= h.nbits, NEW r \in DeleteN(o, h, m, start, n)
  PROVE  /\ Result(h, r, h.nbits - n)
         /\ Pinned(h) => r.err = "BufferError" /\ (Full(m, h.size) => Full(r.m, r.h.size))
         /\ r.err = None =>
              /\ Prefix(h, m, r, start)
              /\ \A i \in Nat : start <= i /\ i < h.nbits - n =>
                   At(h.endian, r.m, i) = At(h.endian, m, i + n)
<1> DEFINE N == h.nbits
           k == N - start - n
           e == h.endian
           x == CopyN(h, m, start, h, m, start + n, k)
<1>1. /\ N \in Nat /\ Limit \in Nat /\ e \in Endian /\ m \in Block
      /\ N <= Limit /\ N <= Room(h.size) /\ Room(h.size) <= Limit
      /\ h.size \in Nat /\ Room(h.size) \in Nat
  BY StoredFacts
<1>2. /\ k \in Nat /\ start + n \in Nat /\ (start + n) + k <= Limit /\ N - n \in Nat
      /\ N - n <= N /\ N - n = start + k
  BY <1>1
<1>3. x \in Block
  BY <1>1, <1>2, CopyNBlock
<1>4. ASSUME NEW i \in Nat, i < Limit
      PROVE  /\ start <= i /\ i < start + k =>
                  At(e, x, i) = At(e, m, (start + n) + (i - start))
             /\ i < start \/ start + k <= i => At(e, x, i) = At(e, m, i)
  BY <1>1, <1>2, <1>4, CopyNElements
<1>5. Stored(h, x)
  BY <1>3 DEF Stored
<1>6. r \in Resize(o, h, x, N - n)
  BY DEF DeleteN
<1> HIDE DEF N, k, e, x
<1>7. /\ Result(h, r, N - n) /\ Refused(h, x, r)
      /\ r.err = None => Prefix(h, x, r, N - n)
  BY <1>1, <1>2, <1>5, <1>6, ResizeResult DEF N
<1>8. ASSUME Full(m, h.size) PROVE Full(x, h.size)
  <2>1. \A i \in Indices : i < Room(h.size) => At(e, m, i) \in Bit
    BY <1>1, <1>8, FullAt
  <2>2. ASSUME NEW i \in Indices, i < Room(h.size) PROVE At(e, x, i) \in Bit
    <3>1. i \in Nat /\ i < Limit
      BY IndicesFacts
    <3>2. CASE start <= i /\ i < start + k
      <4>1. (start + n) + (i - start) \in Nat /\ (start + n) + (i - start) < N
        BY <1>1, <1>2, <3>1, <3>2
      <4>2. (start + n) + (i - start) \in Indices /\ (start + n) + (i - start) < Room(h.size)
        BY <1>1, <4>1, IndicesFacts
      <4>3. QED
        BY <1>4, <2>1, <3>1, <3>2, <4>2
    <3>3. CASE ~ (start <= i /\ i < start + k)
      BY <1>2, <1>4, <2>1, <2>2, <3>1, <3>3
    <3>4. QED
      BY <3>2, <3>3
  <2>3. QED
    BY <1>1, <2>2, FullAt
<1>9. ASSUME r.err = None, NEW i \in Nat, i < start PROVE At(e, r.m, i) = At(e, m, i)
  <2>1. i < N - n /\ i < Limit
    BY <1>1, <1>2, <1>9
  <2>2. QED
    BY <1>4, <1>7, <1>9, <2>1 DEF Prefix, e
<1>10. ASSUME r.err = None, NEW i \in Nat, start <= i, i < N - n
       PROVE  At(e, r.m, i) = At(e, m, i + n)
  <2>1. i < start + k /\ i < Limit /\ (start + n) + (i - start) = i + n
    BY <1>1, <1>2, <1>10
  <2>2. QED
    BY <1>4, <1>7, <1>10, <2>1 DEF Prefix, e
<1>11. QED
  BY <1>7, <1>8, <1>9, <1>10 DEF N, e, Prefix, Refused

\* A method that writes x after a resize, which gives q.
LEMMA WrittenAfter ==
  ASSUME NEW o \in Objects, NEW h, NEW m, Stored(h, m), NEW n \in Nat, n <= Limit,
         NEW q \in Resize(o, h, m, n), NEW x, q.err = None => x \in Block, NEW r,
         (q.err # None /\ r = q) \/ (q.err = None /\ r = Outcome(None, q.h, x))
  PROVE  /\ Result(h, r, n)
         /\ Refused(h, m, r)
         /\ r.err = None =>
              /\ r.h = q.h /\ r.m = x
              /\ q.h.endian = h.endian /\ q.h.nbits = n /\ q.m \in Block
              /\ Stored(q.h, q.m)
              /\ \A i \in Nat : i < n /\ i < h.nbits => At(h.endian, q.m, i) = At(h.endian, m, i)
<1>1. /\ Result(h, q, n) /\ Refused(h, m, q)
      /\ q.err = None => \A i \in Nat : i < n /\ i < h.nbits =>
                           At(h.endian, q.m, i) = At(h.endian, m, i)
  BY ResizeResult, ResizeContent
<1>2. CASE q.err # None /\ r = q
  BY <1>1, <1>2
<1>3. CASE q.err = None /\ r = Outcome(None, q.h, x)
  <2>1. r.err = None /\ r.h = q.h /\ r.m = x
    BY <1>3 DEF Outcome
  <2>2. Result(h, r, n)
    BY <1>1, <1>3, ResultWritten
  <2>3. Refused(h, m, r)
    BY <1>1, <1>3 DEF Refused, None
  <2>4. q.h.endian = h.endian /\ q.h.nbits = n /\ q.m \in Block /\ Stored(q.h, q.m)
    BY <1>1, <1>3 DEF Result, Stored
  <2>5. QED
    BY <1>1, <1>3, <2>1, <2>2, <2>3, <2>4
<1>4. QED
  BY <1>2, <1>3

-------------------------------------------------------------------------------
(***************************************************************************)
(* The methods that resize.                                                *)
(***************************************************************************)
\* Array o, as the methods find it.
Holds(o) == Stored(obj[o], Mem(o))

\* The bound on the lengths is that of the buffers.
LEMMA MaxBitsLimit == MaxBits = Limit /\ \A n : Fits(n) <=> n <= Limit
BY DEF MaxBits, Limit, Room, Fits

\* a.append(v)
LEMMA AppendedContent ==
  ASSUME NEW o \in Objects, Holds(o), NEW v \in Bit, Fits(obj[o].nbits + 1),
         NEW r \in Appended(o, v)
  PROVE  /\ Stored(r.h, r.m)
         /\ ~AllocFails /\ Ready(obj[o], Mem(o)) => Ready(r.h, r.m)
<1> DEFINE h == obj[o]
           m == Mem(o)
           n == h.nbits
<1>1. Stored(h, m) /\ n \in Nat /\ h.endian \in Endian /\ n + 1 <= Limit /\ Limit \in Nat
  BY StoredFacts, MaxBitsLimit DEF Holds
<1>2. PICK q \in Resize(o, h, m, n + 1) :
        \/ q.err # None /\ r = q
        \/ q.err = None /\ r = Outcome(None, q.h, SetBit(q.h, q.m, n, v))
  BY DEF Appended, Resized, Then
<1> DEFINE x == SetBit(q.h, q.m, n, v)
<1> HIDE DEF h, m, n
<1>3. n + 1 \in Nat /\ n \in Indices /\ v \in Bit \union {Undef}
  BY <1>1, IndicesFacts
<1>4. q.err = None => q.h.endian = h.endian /\ q.m \in Block
  BY <1>1, <1>3, ResizeContent DEF Stored
<1>5. q.err = None => /\ x \in Block
                      /\ \A i \in Indices : At(h.endian, x, i) =
                           IF i = n THEN v ELSE At(h.endian, q.m, i)
  <2>1. SUFFICES ASSUME q.err = None PROVE
          /\ x \in Block
          /\ \A i \in Indices : At(q.h.endian, x, i) =
               IF i = n THEN v ELSE At(q.h.endian, q.m, i)
    BY <1>4
  <2>2. q.h.endian \in Endian /\ q.m \in Block
    BY <1>1, <1>4, <2>1
  <2>3. QED
    BY <1>3, <2>2, SetBitAt
<1> HIDE DEF x
<1>6. (q.err # None /\ r = q) \/ (q.err = None /\ r = Outcome(None, q.h, x))
  BY <1>2 DEF x
<1>7. /\ Result(h, r, n + 1) /\ Refused(h, m, r)
      /\ r.err = None =>
           /\ r.h = q.h /\ r.m = x /\ q.h.endian = h.endian /\ q.h.nbits = n + 1
           /\ \A i \in Nat : i < n + 1 /\ i < n => At(h.endian, q.m, i) = At(h.endian, m, i)
  BY <1>1, <1>3, <1>5, <1>6, WrittenAfter DEF n
<1>8. ASSUME r.err = None, Clean(h, m) PROVE Clean(r.h, r.m)
  <2>1. \A i \in Nat : i < n => At(h.endian, m, i) \in Bit
    BY <1>8 DEF Clean, n
  <2>2. ASSUME NEW i \in Nat, i < n + 1 PROVE At(h.endian, x, i) \in Bit
    <3>1. i \in Indices
      BY <1>1, <2>2, IndicesFacts
    <3>2. q.err = None
      BY <1>6, <1>8
    <3>3. QED
      BY <1>1, <1>5, <1>7, <1>8, <2>1, <2>2, <3>1, <3>2
  <2>3. QED
    BY <1>7, <1>8, <2>2 DEF Clean
<1>9. Stored(r.h, r.m)
  BY <1>7 DEF Result
<1>10. ~AllocFails /\ Ready(h, m) => Ready(r.h, r.m)
  BY <1>7, <1>8, RefusedReady DEF Ready
<1>11. QED
  BY <1>9, <1>10 DEF h, m

\* a.insert(i, v)
LEMMA InsertedContent ==
  ASSUME NEW o \in Objects, Holds(o), NEW j \in Nat, j <= obj[o].nbits, NEW v \in Bit,
         Fits(obj[o].nbits + 1), NEW r \in Inserted(o, j, v)
  PROVE  /\ Result(obj[o], r, obj[o].nbits + 1)
         /\ ~AllocFails /\ Ready(obj[o], Mem(o)) => Ready(r.h, r.m)
         /\ r.err = None =>
              /\ Prefix(obj[o], Mem(o), r, j)
              /\ At(obj[o].endian, r.m, j) = v
              /\ \A i \in Nat : j <= i /\ i < obj[o].nbits =>
                   At(obj[o].endian, r.m, i + 1) = At(obj[o].endian, Mem(o), i)
<1> DEFINE h == obj[o]
           m == Mem(o)
           n == h.nbits
           e == h.endian
<1>1. Stored(h, m) /\ n \in Nat /\ e \in Endian /\ n + 1 <= Limit /\ Limit \in Nat
  BY StoredFacts, MaxBitsLimit DEF Holds
<1>2. PICK q \in InsertN(o, h, m, j, 1) :
        \/ q.err # None /\ r = q
        \/ q.err = None /\ r = Outcome(None, q.h, SetBit(q.h, q.m, j, v))
  BY DEF Inserted, Then
<1> DEFINE x == SetBit(q.h, q.m, j, v)
<1>3. j <= n
  OBVIOUS
<1> HIDE DEF h, m, n, e
<1>4. /\ Result(h, q, n + 1) /\ Refused(h, m, q)
      /\ q.err = None =>
           /\ Prefix(h, m, q, j)
           /\ \A i \in Nat : j <= i /\ i < n => At(e, q.m, i + 1) = At(e, m, i)
  BY <1>1, <1>3, InsertNContent DEF n, e
<1>5. n + 1 \in Nat /\ j \in Indices /\ v \in Bit \union {Undef}
  BY <1>1, <1>3, IndicesFacts
<1>6. CASE q.err # None /\ r = q
  BY <1>4, <1>6, RefusedReady DEF h, m, n, e
<1>7. CASE q.err = None /\ r = Outcome(None, q.h, SetBit(q.h, q.m, j, v))
  <2>1. q.h.endian = e /\ q.m \in Block
    BY <1>4 DEF Result, Stored, e
  <2>2. /\ x \in Block
        /\ \A i \in Indices : At(q.h.endian, x, i) = IF i = j THEN v ELSE At(q.h.endian, q.m, i)
    BY <1>1, <1>5, <2>1, SetBitAt
  <2> HIDE DEF x
  <2>3. r.err = None /\ r.h = q.h /\ r.m = x
    BY <1>7 DEF Outcome, x
  <2>4. Result(h, r, n + 1) /\ Refused(h, m, r)
    <3>1. Result(h, r, n + 1)
      BY <1>4, <1>7, <2>2, ResultWritten DEF x
    <3>2. QED
      BY <1>4, <1>7, <3>1 DEF Refused, None
  <2>5. ASSUME NEW i \in Nat, i <= n
        PROVE  At(e, x, i) = IF i = j THEN v ELSE At(e, q.m, i)
    BY <1>1, <2>1, <2>2, <2>5, IndicesFacts
  <2>6. ASSUME NEW i \in Nat, i < j PROVE At(e, x, i) = At(e, m, i)
    BY <1>1, <1>3, <1>4, <1>7, <2>5, <2>6 DEF Prefix, e
  <2>7. At(e, x, j) = v
    BY <1>3, <2>5
  <2>8. ASSUME NEW i \in Nat, j <= i, i < n PROVE At(e, x, i + 1) = At(e, m, i)
    <3>1. i + 1 \in Nat /\ i + 1 <= n /\ i + 1 # j
      BY <1>1, <2>8
    <3>2. QED
      BY <1>4, <1>7, <2>5, <2>8, <3>1
  <2>9. ASSUME Clean(h, m) PROVE Clean(r.h, r.m)
    <3>1. ASSUME NEW i \in Nat, i < n + 1 PROVE At(e, x, i) \in Bit
      <4>1. CASE i <= j
        BY <1>1, <1>3, <2>6, <2>7, <2>9, <4>1 DEF Clean, n, e
      <4>2. CASE j < i
        <5>1. i - 1 \in Nat /\ j <= i - 1 /\ i - 1 < n /\ (i - 1) + 1 = i
          BY <1>1, <3>1, <4>2
        <5>2. At(e, m, i - 1) \in Bit
          BY <2>9, <5>1 DEF Clean, n, e
        <5>3. QED
          BY <2>8, <5>1, <5>2
      <4>3. QED
        BY <4>1, <4>2
    <3>2. q.h.nbits = n + 1
      BY <1>4, <1>7 DEF Result
    <3>3. QED
      BY <2>1, <2>3, <3>1, <3>2 DEF Clean
  <2>10. ~AllocFails /\ Ready(h, m) => Ready(r.h, r.m)
    BY <2>4, <2>9, RefusedReady DEF Ready
  <2>11. QED
    BY <2>3, <2>4, <2>6, <2>7, <2>8, <2>10 DEF Prefix, h, m, n, e
<1>8. QED
  BY <1>2, <1>6, <1>7

\* a.pop(j)
LEMMA PoppedContent ==
  ASSUME NEW o \in Objects, Holds(o), NEW j \in Nat, j < obj[o].nbits,
         NEW r \in Popped(o, j)
  PROVE  /\ Result(obj[o], r, obj[o].nbits - 1)
         /\ ~AllocFails /\ Ready(obj[o], Mem(o)) => Ready(r.h, r.m)
         /\ r.err = None =>
              /\ Prefix(obj[o], Mem(o), r, j)
              /\ \A i \in Nat : j <= i /\ i < obj[o].nbits - 1 =>
                   At(obj[o].endian, r.m, i) = At(obj[o].endian, Mem(o), i + 1)
<1> DEFINE h == obj[o]
           m == Mem(o)
           n == h.nbits
           e == h.endian
<1>1. Stored(h, m) /\ n \in Nat
  BY StoredFacts DEF Holds
<1>2. r \in DeleteN(o, h, m, j, 1) /\ j + 1 <= n
  BY <1>1 DEF Popped
<1> HIDE DEF h, m, n, e
<1>3. /\ Result(h, r, n - 1)
      /\ Pinned(h) => r.err = "BufferError" /\ (Full(m, h.size) => Full(r.m, r.h.size))
      /\ r.err = None =>
           /\ Prefix(h, m, r, j)
           /\ \A i \in Nat : j <= i /\ i < n - 1 => At(e, r.m, i) = At(e, m, i + 1)
  BY <1>1, <1>2, DeleteNContent DEF n, e
<1>4. ASSUME r.err = None, Clean(h, m) PROVE Clean(r.h, r.m)
  <2>1. ASSUME NEW i \in Nat, i < n - 1 PROVE At(e, r.m, i) \in Bit
    <3>1. i < n /\ i + 1 \in Nat /\ i + 1 < n
      BY <1>1, <2>1
    <3>2. At(e, m, i) \in Bit /\ At(e, m, i + 1) \in Bit
      BY <1>4, <3>1 DEF Clean, n, e
    <3>3. QED
      BY <1>3, <1>4, <2>1, <3>2 DEF Prefix, e
  <2>2. QED
    BY <1>3, <1>4, <2>1 DEF Clean, Result, e
<1>5. ~AllocFails /\ Ready(h, m) => Ready(r.h, r.m)
  BY <1>3, <1>4, ResultReady DEF Ready, None
<1>6. QED
  BY <1>3, <1>5 DEF h, m, n, e

\* a.extend(p), for an array p that may be a or share its memory
LEMMA ExtendedContent ==
  ASSUME NEW o \in Objects, NEW p \in Objects, Holds(o), Holds(p),
         Fits(obj[o].nbits + obj[p].nbits), NEW r \in Extended(o, p)
  PROVE  /\ Result(obj[o], r, obj[o].nbits + obj[p].nbits)
         /\ Refused(obj[o], Mem(o), r)
         /\ ~AllocFails /\ Ready(obj[o], Mem(o)) /\ Clean(obj[p], Mem(p)) => Ready(r.h, r.m)
         /\ r.err = None =>
              /\ Prefix(obj[o], Mem(o), r, obj[o].nbits)
              /\ \A i \in Nat : i < obj[p].nbits =>
                   At(obj[o].endian, r.m, obj[o].nbits + i) = At(obj[p].endian, Mem(p), i)
<1> DEFINE h  == obj[o]
           m  == Mem(o)
           n  == h.nbits
           e  == h.endian
           hp == obj[p]
           mp == Mem(p)
           k  == hp.nbits
           ep == hp.endian
<1>1. /\ Stored(h, m) /\ n \in Nat /\ e \in Endian /\ m \in Block
      /\ Stored(hp, mp) /\ k \in Nat /\ ep \in Endian /\ mp \in Block
      /\ k <= Limit /\ n + k <= Limit /\ Limit \in Nat
  BY StoredFacts, MaxBitsLimit DEF Holds, Stored
<1>2. PICK q \in Resize(o, h, m, n + k) :
        \/ q.err # None /\ r = q
        \/ /\ q.err = None
           /\ r = Outcome(None, q.h, IF p = o THEN CopyN(q.h, q.m, n, q.h, q.m, 0, k)
                                              ELSE CopyN(q.h, q.m, n, hp, mp, 0, k))
  BY DEF Extended, Resized, Then
<1> DEFINE h2 == IF p = o THEN q.h ELSE hp
           m2 == IF p = o THEN q.m ELSE mp
           x  == CopyN(q.h, q.m, n, h2, m2, 0, k)
<1>3. p = o => h = hp /\ m = mp
  OBVIOUS
<1>4. (q.err # None /\ r = q) \/ (q.err = None /\ r = Outcome(None, q.h, x))
  BY <1>2
<1> HIDE DEF h, m, n, e, hp, mp, k, ep
<1>5. n + k \in Nat
  BY <1>1
<1>6. q.err = None =>
        /\ q.h.endian = e /\ q.m \in Block
        /\ \A i \in Nat : i < n => At(e, q.m, i) = At(e, m, i)
  <2>1. Stored(q.h, q.m) /\ q.h.endian = e
    BY <1>1, <1>2, <1>5, ResizeContent DEF e
  <2>2. q.err = None => \A i \in Nat : i < n + k /\ i < n => At(e, q.m, i) = At(e, m, i)
    BY <1>1, <1>2, <1>5, ResizeContent DEF e, n
  <2>3. \A i \in Nat : i < n => i < n + k
    BY <1>1
  <2>4. QED
    BY <2>1, <2>2, <2>3 DEF Stored
<1>7. q.err = None =>
        /\ h2.endian \in Endian /\ m2 \in Block
        /\ \A i \in Nat : i < k => At(h2.endian, m2, i) = At(ep, mp, i)
  <2>1. CASE p = o
    <3>1. h2 = q.h /\ m2 = q.m /\ e = ep /\ m = mp /\ n = k
      BY <1>3, <2>1 DEF n, e, k, ep
    <3>2. QED
      BY <1>1, <1>6, <3>1
  <2>2. CASE p # o
    BY <1>1, <2>2 DEF ep
  <2>3. QED
    BY <2>1, <2>2
<1> HIDE DEF h2, m2
<1>8. q.err = None => x \in Block
  <2>1. SUFFICES ASSUME q.err = None PROVE x \in Block
    OBVIOUS
  <2>2. /\ q.h.endian \in Endian /\ q.m \in Block /\ h2.endian \in Endian /\ m2 \in Block
        /\ 0 + k <= Limit
    BY <1>1, <1>6, <1>7, <2>1
  <2>3. QED
    BY <1>1, <2>2, CopyNBlock
<1>9. ASSUME q.err = None, NEW i \in Nat, i < n + k
      PROVE  /\ i < n => At(e, x, i) = At(e, m, i)
             /\ n <= i => At(e, x, i) = At(ep, mp, i - n)
  <2>1. i < Limit
    BY <1>1, <1>9
  <2>2. /\ n <= i /\ i < n + k => At(q.h.endian, x, i) = At(h2.endian, m2, 0 + (i - n))
        /\ i < n \/ n + k <= i => At(q.h.endian, x, i) = At(q.h.endian, q.m, i)
    BY <1>1, <1>6, <1>9, <2>1, CopyNElements
  <2>3. n <= i => i - n \in Nat /\ i - n < k /\ 0 + (i - n) = i - n
    BY <1>1, <1>9
  <2> HIDE DEF x
  <2>4. QED
    BY <1>6, <1>7, <1>9, <2>2, <2>3
<1> HIDE DEF x
<1>10. /\ Result(h, r, n + k) /\ Refused(h, m, r)
       /\ r.err = None => r.h = q.h /\ r.m = x /\ q.h.endian = e /\ q.h.nbits = n + k
  BY <1>1, <1>4, <1>5, <1>8, WrittenAfter DEF e
<1>11. r.err = None => q.err = None
  BY <1>4
<1>12. r.err = None => Prefix(h, m, r, n)
  <2>1. \A i \in Nat : i < n => i < n + k
    BY <1>1
  <2>2. QED
    BY <1>9, <1>10, <1>11, <2>1 DEF Prefix, e
<1>13. ASSUME r.err = None, NEW i \in Nat, i < k
       PROVE  At(e, r.m, n + i) = At(ep, mp, i)
  <2>1. n + i \in Nat /\ n + i < n + k /\ n <= n + i /\ (n + i) - n = i
    BY <1>1, <1>13
  <2>2. QED
    BY <1>9, <1>10, <1>11, <1>13, <2>1
<1>14. ASSUME r.err = None, Clean(h, m), Clean(hp, mp) PROVE Clean(r.h, r.m)
  <2>1. ASSUME NEW i \in Nat, i < n + k PROVE At(e, r.m, i) \in Bit
    <3>1. CASE i < n
      BY <1>9, <1>10, <1>11, <1>14, <2>1, <3>1 DEF Clean, n, e
    <3>2. CASE n <= i
      <4>1. i - n \in Nat /\ i - n < k
        BY <1>1, <2>1, <3>2
      <4>2. QED
        BY <1>9, <1>10, <1>11, <1>14, <2>1, <3>2, <4>1 DEF Clean, k, ep
    <3>3. QED
      BY <1>1, <3>1, <3>2
  <2>2. QED
    BY <1>10, <1>14, <2>1 DEF Clean
<1>15. ~AllocFails /\ Ready(h, m) /\ Clean(hp, mp) => Ready(r.h, r.m)
  BY <1>10, <1>14, RefusedReady DEF Ready
<1>16. QED
  BY <1>10, <1>12, <1>13, <1>15 DEF h, m, n, e, hp, mp, k, ep

\* Storing the n values of f behind the elements.
LEMMA StoredItems ==
  ASSUME NEW h, NEW m, Stored(h, m), NEW n \in Nat, NEW u \in Nat, n + u <= Limit, NEW f,
         \A i \in 0 .. (u - 1) : f[i] \in Bit
  PROVE  /\ SetSpan(h, m, n, u, f) \in Block
         /\ Stored(h, SetSpan(h, m, n, u, f))
         /\ \A i \in Nat : i < n => At(h.endian, SetSpan(h, m, n, u, f), i) = At(h.endian, m, i)
         /\ \A i \in Nat : n <= i /\ i < n + u => At(h.endian, SetSpan(h, m, n, u, f), i) \in Bit
<1> DEFINE x == SetSpan(h, m, n, u, f)
<1>1. h.endian \in Endian /\ m \in Block /\ Limit \in Nat
  BY StoredFacts
<1>2. x \in Block
  BY <1>1, SetSpanBlock
<1>3. ASSUME NEW i \in Nat, i < Limit
      PROVE  /\ n <= i /\ i < n + u => At(h.endian, x, i) = f[i - n]
             /\ i < n => At(h.endian, x, i) = At(h.endian, m, i)
  BY <1>1, <1>3, SetSpanElements
<1> HIDE DEF x
<1>4. ASSUME NEW i \in Nat, n <= i, i < n + u PROVE At(h.endian, x, i) \in Bit
  <2>1. i < Limit /\ i - n \in 0 .. (u - 1)
    BY <1>1, <1>4
  <2>2. QED
    BY <1>3, <1>4, <2>1
<1>5. ASSUME NEW i \in Nat, i < n PROVE At(h.endian, x, i) = At(h.endian, m, i)
  <2>1. i < Limit
    BY <1>1, <1>5
  <2>2. QED
    BY <1>3, <1>5, <2>1
<1>6. QED
  BY <1>2, <1>4, <1>5 DEF x, Stored

\* A second resize, after something was written.
LEMMA TwiceContent ==
  ASSUME NEW o \in Objects, NEW h, NEW m, Stored(h, m), NEW n1 \in Nat, n1 <= Limit,
         NEW q \in Resize(o, h, m, n1), q.err = None, NEW x, Stored(q.h, x),
         NEW n2 \in Nat, n2 <= Limit, NEW r \in Resize(o, q.h, x, n2)
  PROVE  /\ Result(h, r, n2)
         /\ ~Pinned(h)
         /\ r.err = None => \A i \in Nat : i < n2 /\ i < n1 =>
                              At(h.endian, r.m, i) = At(h.endian, x, i)
<1>1. Result(h, q, n1) /\ Refused(h, m, q)
  BY ResizeResult
<1>2. ~Pinned(h) /\ ~Pinned(q.h) /\ q.h.nbits = n1 /\ q.h.endian = h.endian
  BY <1>1 DEF Result, Refused, None
<1>3. Result(q.h, r, n2)
  BY ResizeResult
<1>4. r.err = None => \A i \in Nat : i < n2 /\ i < q.h.nbits =>
                        At(q.h.endian, r.m, i) = At(q.h.endian, x, i)
  BY ResizeContent
<1>5. Result(h, r, n2)
  BY <1>2, <1>3 DEF Result
<1>6. QED
  BY <1>2, <1>4, <1>5

\* a.extend(s), for a string or a sequence of k items, u of which are stored
LEMMA ExtendedBySequenceContent ==
  ASSUME NEW o \in Objects, Holds(o), NEW k \in Nat, NEW u \in Nat, u <= k,
         NEW f \in Items(u), Fits(obj[o].nbits + k), NEW r \in ExtendedBySequence(o, f, k)
  PROVE  /\ Stored(r.h, r.m)
         /\ ~AllocFails /\ Ready(obj[o], Mem(o)) => Ready(r.h, r.m)
<1> DEFINE h == obj[o]
           m == Mem(o)
           n == h.nbits
           e == h.endian
           x(q) == SetSpan(q.h, q.m, n, u, f)
<1>1. /\ Stored(h, m) /\ n \in Nat /\ e \in Endian /\ n + k <= Limit /\ Limit \in Nat
      /\ n + k \in Nat /\ n + u \in Nat /\ n + u <= Limit /\ n + u <= n + k
  BY StoredFacts, MaxBitsLimit DEF Holds
<1>2. DOMAIN f = 0 .. (u - 1) /\ \A i \in 0 .. (u - 1) : f[i] \in Bit
  BY DEF Items
<1>3. Cardinality(DOMAIN f) = u
  <2>1. Cardinality(0 .. (u - 1)) = u
    BY FS_Interval
  <2>2. QED
    BY <1>2, <2>1
<1>4. PICK q \in Resize(o, h, m, n + k) :
        \/ q.err # None /\ r = q
        \/ q.err = None /\ r \in Resize(o, q.h, x(q), n + u)
  BY <1>3 DEF ExtendedBySequence, Resized, Then
<1> DEFINE y == x(q)
<1>5. y = SetSpan(q.h, q.m, n, u, f)
  OBVIOUS
<1> HIDE DEF h, m, n, e, x
<1>6. /\ Result(h, q, n + k) /\ Refused(h, m, q)
      /\ q.err = None => \A i \in Nat : i < n + k /\ i < n => At(e, q.m, i) = At(e, m, i)
  BY <1>1, ResizeResult, ResizeContent DEF e, n
<1>7. CASE q.err # None /\ r = q
  BY <1>6, <1>7, RefusedReady DEF h, m, Result
<1>8. CASE q.err = None /\ r \in Resize(o, q.h, x(q), n + u)
  <2>1. Stored(q.h, q.m) /\ q.h.endian = e
    BY <1>6 DEF Result, e
  <2>2. /\ Stored(q.h, y)
        /\ \A i \in Nat : i < n => At(q.h.endian, y, i) = At(q.h.endian, q.m, i)
        /\ \A i \in Nat : n <= i /\ i < n + u => At(q.h.endian, y, i) \in Bit
    <3>1. \A i \in 0 .. (u - 1) : f[i] \in Bit
      BY <1>2
    <3> DEFINE z == SetSpan(q.h, q.m, n, u, f)
    <3>2. /\ Stored(q.h, z)
          /\ \A i \in Nat : i < n => At(q.h.endian, z, i) = At(q.h.endian, q.m, i)
          /\ \A i \in Nat : n <= i /\ i < n + u => At(q.h.endian, z, i) \in Bit
      BY <1>1, <2>1, <3>1, StoredItems
    <3> HIDE DEF z, y
    <3>3. y = z
      BY <1>5 DEF z
    <3>4. QED
      BY <3>2, <3>3
  <2>3. r \in Resize(o, q.h, y, n + u)
    BY <1>8
  <2> HIDE DEF y
  <2>4. /\ Result(h, r, n + u)
        /\ ~Pinned(h)
        /\ r.err = None => \A i \in Nat : i < n + u /\ i < n + k =>
                             At(e, r.m, i) = At(e, y, i)
    BY <1>1, <1>8, <2>2, <2>3, TwiceContent DEF e
  <2>5. ASSUME r.err = None, Clean(h, m) PROVE Clean(r.h, r.m)
    <3>1. ASSUME NEW i \in Nat, i < n + u PROVE At(e, r.m, i) \in Bit
      <4>1. At(e, r.m, i) = At(e, y, i) /\ i < n + k
        BY <1>1, <2>4, <2>5, <3>1
      <4>2. CASE i < n
        <5>1. At(e, y, i) = At(e, m, i)
          BY <1>6, <1>8, <2>1, <2>2, <4>1, <4>2
        <5>2. QED
          BY <2>5, <4>1, <4>2, <5>1 DEF Clean, n, e
      <4>3. CASE n <= i
        BY <2>1, <2>2, <3>1, <4>1, <4>3
      <4>4. QED
        BY <1>1, <4>2, <4>3
    <3>2. QED
      BY <2>4, <2>5, <3>1 DEF Clean, Result, e
  <2>6. ~AllocFails /\ Ready(h, m) => Ready(r.h, r.m)
    BY <2>4, <2>5, ResultReady DEF Ready
  <2>7. QED
    BY <2>4, <2>6 DEF Result, h, m
<1>9. QED
  BY <1>4, <1>7, <1>8

\* What a failed extend() leaves: all elements, unless there was no memory.
Restored(h, m, r) ==
  /\ Stored(r.h, r.m)
  /\ Pinned(r.h) <=> Pinned(h)
  /\ Pinned(h) => r.h = h /\ r.m = m
  /\ ~AllocFails => r.h.nbits = h.nbits /\ r.h.endian = h.endian /\ Prefix(h, m, r, h.nbits)

\* An array that is restored has no garbage either.
LEMMA RestoredReady ==
  ASSUME NEW h, NEW m, NEW r, Restored(h, m, r), ~AllocFails, Ready(h, m)
  PROVE  Ready(r.h, r.m)
<1>1. CASE Pinned(h)
  BY <1>1 DEF Restored
<1>2. CASE ~Pinned(h)
  <2>1. Clean(r.h, r.m)
    BY DEF Restored, Ready, Clean, Prefix
  <2>2. QED
    BY <1>2, <2>1 DEF Restored, Ready
<1>3. QED
  BY <1>1, <1>2

\* a.extend(s) for a sequence which fails on an item behind its first u
LEMMA FailedSequenceContent ==
  ASSUME NEW o \in Objects, Holds(o), NEW k \in Nat, NEW u \in Nat, u <= k,
         NEW f \in Items(u), Fits(obj[o].nbits + k), NEW r \in FailedSequence(o, f, k)
  PROVE  Restored(obj[o], Mem(o), r)
<1> DEFINE h == obj[o]
           m == Mem(o)
           n == h.nbits
           e == h.endian
           x(q) == SetSpan(q.h, q.m, n, u, f)
<1>1. /\ Stored(h, m) /\ n \in Nat /\ e \in Endian /\ n + k <= Limit /\ Limit \in Nat
      /\ n + k \in Nat /\ n + u \in Nat /\ n + u <= Limit /\ n + u <= n + k /\ n <= Limit
  BY StoredFacts, MaxBitsLimit DEF Holds
<1>2. /\ \A i \in 0 .. (u - 1) : f[i] \in Bit
      /\ Cardinality(DOMAIN f) = u
  <2>1. DOMAIN f = 0 .. (u - 1) /\ \A i \in 0 .. (u - 1) : f[i] \in Bit
    BY DEF Items
  <2>2. Cardinality(0 .. (u - 1)) = u
    BY FS_Interval
  <2>3. QED
    BY <2>1, <2>2
<1>3. PICK q \in Resize(o, h, m, n + k) :
        \/ q.err # None /\ r = q
        \/ q.err = None /\ r \in Failed(Resize(o, q.h, x(q), n))
  BY <1>2 DEF FailedSequence, Resized, Then
<1> DEFINE y == x(q)
<1>4. y = SetSpan(q.h, q.m, n, u, f)
  OBVIOUS
<1> HIDE DEF h, m, n, e, x
<1>5. /\ Result(h, q, n + k) /\ Refused(h, m, q)
      /\ q.err = None => \A i \in Nat : i < n + k /\ i < n => At(e, q.m, i) = At(e, m, i)
  BY <1>1, ResizeResult, ResizeContent DEF e, n
<1>6. CASE q.err # None /\ r = q
  <2>1. Pinned(h) => r.h = h /\ r.m = m
    BY <1>5, <1>6 DEF Refused
  <2>2. ~AllocFails => Pinned(h)
    BY <1>5, <1>6 DEF Result
  <2>3. QED
    BY <1>5, <1>6, <2>1, <2>2 DEF Result, Restored, Prefix, h, m
<1>7. CASE q.err = None /\ r \in Failed(Resize(o, q.h, x(q), n))
  <2>1. Stored(q.h, q.m) /\ q.h.endian = e
    BY <1>5 DEF Result, e
  <2>2. /\ Stored(q.h, y)
        /\ \A i \in Nat : i < n => At(q.h.endian, y, i) = At(q.h.endian, q.m, i)
    BY <1>1, <1>2, <1>4, <2>1, StoredItems
  <2>3. PICK t \in Resize(o, q.h, y, n) : r = Outcome("ValueError", t.h, t.m)
    BY <1>7 DEF Failed
  <2>4. r.h = t.h /\ r.m = t.m
    BY <2>3 DEF Outcome
  <2> HIDE DEF y
  <2>5. /\ Result(h, t, n)
        /\ ~Pinned(h)
        /\ t.err = None => \A i \in Nat : i < n /\ i < n + k => At(e, t.m, i) = At(e, y, i)
    BY <1>1, <1>7, <2>2, <2>3, TwiceContent DEF e
  <2>6. ~AllocFails => t.err = None
    BY <2>5 DEF Result
  <2>7. ASSUME t.err = None, NEW i \in Nat, i < n PROVE At(e, r.m, i) = At(e, m, i)
    <3>1. i < n + k
      BY <1>1, <2>7
    <3>2. QED
      BY <1>5, <1>7, <2>1, <2>2, <2>4, <2>5, <2>7, <3>1
  <2>8. QED
    BY <2>4, <2>5, <2>6, <2>7 DEF Result, Restored, Prefix, h, m, n, e
<1>8. QED
  BY <1>3, <1>6, <1>7

\* a.extend(iterator) which fails on its first item; the rollback is tried even
\* when there was no room for the item.
LEMMA FailedIterContent ==
  ASSUME NEW o \in Objects, Holds(o), Fits(obj[o].nbits + 1), NEW r \in FailedIter(o)
  PROVE  Restored(obj[o], Mem(o), r)
<1> DEFINE h == obj[o]
           m == Mem(o)
           n == h.nbits
           e == h.endian
<1>1. /\ Stored(h, m) /\ n \in Nat /\ e \in Endian /\ n + 1 <= Limit /\ Limit \in Nat
      /\ n + 1 \in Nat /\ n <= Limit
  BY StoredFacts, MaxBitsLimit DEF Holds
<1>2. PICK q \in Resize(o, h, m, n + 1) :
        \E t \in Resize(o, q.h, q.m, n) : r = Outcome("ValueError", t.h, t.m)
  BY DEF FailedIter, Failed, Resized
<1>3. PICK t \in Resize(o, q.h, q.m, n) : r.h = t.h /\ r.m = t.m
  BY <1>2 DEF Outcome
<1> HIDE DEF h, m, n, e
<1>4. /\ Result(h, q, n + 1) /\ Refused(h, m, q)
      /\ q.err = None => \A i \in Nat : i < n + 1 /\ i < n => At(e, q.m, i) = At(e, m, i)
  BY <1>1, ResizeResult, ResizeContent DEF e, n
<1>5. Stored(q.h, q.m)
  BY <1>4 DEF Result
<1>6. Result(q.h, t, n) /\ Refused(q.h, q.m, t)
  BY <1>1, <1>5, ResizeResult
<1>7. Pinned(h) => r.h = h /\ r.m = m
  BY <1>3, <1>4, <1>6 DEF Refused
<1>8. Stored(r.h, r.m) /\ (Pinned(r.h) <=> Pinned(h))
  BY <1>3, <1>4, <1>6 DEF Result
<1>9. ASSUME ~AllocFails, ~Pinned(h)
      PROVE  r.h.nbits = n /\ r.h.endian = e /\ Prefix(h, m, r, n)
  <2>1. q.err = None
    BY <1>4, <1>9 DEF Result
  <2>2. /\ Result(h, t, n)
        /\ t.err = None => \A i \in Nat : i < n /\ i < n + 1 => At(e, t.m, i) = At(e, q.m, i)
    BY <1>1, <1>5, <2>1, TwiceContent DEF e
  <2>3. t.err = None
    BY <1>9, <2>2 DEF Result
  <2>4. ASSUME NEW i \in Nat, i < n PROVE At(e, r.m, i) = At(e, m, i)
    <3>1. i < n + 1
      BY <1>1, <2>4
    <3>2. QED
      BY <1>3, <1>4, <2>1, <2>2, <2>3, <2>4, <3>1
  <2>5. QED
    BY <1>3, <2>2, <2>3, <2>4 DEF Result, Prefix, e
<1>10. Pinned(h) => r.h.nbits = n /\ r.h.endian = e /\ Prefix(h, m, r, n)
  BY <1>7 DEF n, e, Prefix
<1>11. QED
  BY <1>7, <1>8, <1>9, <1>10 DEF Restored, h, m, n, e

\* a *= k
LEMMA RepeatedContent ==
  ASSUME NEW o \in Objects, Holds(o), NEW k \in Nat, Fits(obj[o].nbits * k),
         NEW r \in Repeated(o, k)
  PROVE  /\ Stored(r.h, r.m)
         /\ ~AllocFails /\ Ready(obj[o], Mem(o)) => Ready(r.h, r.m)
<1> DEFINE h == obj[o]
           m == Mem(o)
           n == h.nbits
           e == h.endian
           N == n * k
           f(q) == [i \in 0 .. (N - 1) |-> GetBit(q.h, q.m, i % n)]
<1>1. /\ Stored(h, m) /\ n \in Nat /\ e \in Endian /\ n <= Limit /\ Limit \in Nat
      /\ N <= Limit /\ N \in Nat
  BY StoredFacts, MaxBitsLimit DEF Holds
<1>2. CASE n = 0 \/ k = 1
  <2>1. r = Outcome(None, h, m)
    BY <1>2 DEF Repeated
  <2>2. r.h = h /\ r.m = m
    BY <2>1 DEF Outcome
  <2>3. QED
    BY <1>1, <2>2
<1>3. CASE ~ (n = 0 \/ k = 1)
  <2>1. PICK q \in Resize(o, h, m, N) :
          \/ q.err # None /\ r = q
          \/ q.err = None /\ r = Outcome(None, q.h, SetSpan(q.h, q.m, 0, N, f(q)))
    BY <1>3 DEF Repeated, Resized, Then
  <2> DEFINE g == f(q)
             x == SetSpan(q.h, q.m, 0, N, g)
  <2>2. \A i \in 0 .. (N - 1) : i % n \in Nat /\ i % n < n /\ i % n < N
    <3>1. TAKE i \in 0 .. (N - 1)
    <3>2. i % n \in 0 .. (n - 1)
      BY <1>1, <1>3
    <3>3. k # 0
      BY <1>1, <3>1
    <3>4. n <= N
      BY <1>1, <3>3
    <3>5. QED
      BY <1>1, <3>2, <3>4
  <2>3. DOMAIN g = 0 .. (N - 1) /\ \A i \in 0 .. (N - 1) : g[i] = At(q.h.endian, q.m, i % n)
    BY DEF GetBit, At
  <2>4. (q.err # None /\ r = q) \/ (q.err = None /\ r = Outcome(None, q.h, x))
    BY <2>1
  <2> HIDE DEF g, f, N, h, m, n, e
  <2>5. /\ Stored(q.h, q.m) /\ q.h.endian = e /\ q.m \in Block
        /\ q.err = None => \A i \in Nat : i < N /\ i < n => At(e, q.m, i) = At(e, m, i)
    <3>1. /\ Stored(q.h, q.m) /\ q.h.endian = e
          /\ q.err = None => \A i \in Nat : i < N /\ i < n => At(e, q.m, i) = At(e, m, i)
      BY <1>1, <2>1, ResizeContent DEF e, n
    <3>2. QED
      BY <3>1 DEF Stored
  <2>6. x \in Block
    <3>1. \A i \in 0 .. (N - 1) : g[i] \in Bit \union {Undef}
      <4>1. TAKE i \in 0 .. (N - 1)
      <4>2. i % n \in Indices
        BY <1>1, <2>2, IndicesFacts
      <4>3. At(e, q.m, i % n) \in Bit \union {Undef}
        BY <1>1, <2>5, <4>2, AtType
      <4>4. QED
        BY <2>3, <2>5, <4>3
    <3>2. QED
      BY <1>1, <2>5, <3>1, SetSpanBlock
  <2>7. ASSUME NEW i \in Nat, i < N PROVE At(e, x, i) = g[i]
    <3>1. i < Limit /\ 0 <= i /\ i < 0 + N /\ i - 0 = i
      BY <1>1, <2>7
    <3>2. At(q.h.endian, x, i) = g[i - 0]
      BY <1>1, <2>5, <3>1, SetSpanElements
    <3>3. QED
      BY <2>5, <3>1, <3>2
  <2> HIDE DEF x
  <2>8. /\ Result(h, r, N) /\ Refused(h, m, r)
        /\ r.err = None => r.h = q.h /\ r.m = x /\ q.h.nbits = N
    BY <1>1, <2>1, <2>4, <2>6, WrittenAfter
  <2>9. ASSUME r.err = None, Clean(h, m) PROVE Clean(r.h, r.m)
    <3>1. q.err = None
      BY <2>4, <2>9
    <3>2. ASSUME NEW i \in Nat, i < N PROVE At(e, x, i) \in Bit
      <4>1. i \in 0 .. (N - 1)
        BY <1>1, <3>2
      <4> DEFINE j == i % n
      <4>2. j \in Nat /\ j < n /\ j < N /\ g[i] = At(e, q.m, j)
        BY <2>2, <2>3, <2>5, <4>1
      <4> HIDE DEF j
      <4>3. At(e, m, j) \in Bit
        BY <2>9, <4>2 DEF Clean, n, e
      <4>4. QED
        BY <2>5, <2>7, <3>1, <3>2, <4>2, <4>3
    <3>3. QED
      BY <2>5, <2>8, <2>9, <3>2 DEF Clean
  <2>10. ~AllocFails /\ Ready(h, m) => Ready(r.h, r.m)
    BY <2>8, <2>9, RefusedReady DEF Ready
  <2>11. QED
    BY <2>8, <2>10 DEF Result, h, m
<1>4. QED
  BY <1>2, <1>3

\* a.encode_ixyz(s), of two bits for each of len characters
LEMMA EncodedIxyzContent ==
  ASSUME IInv, NEW o \in Objects, Holds(o), NEW len \in Nat, NEW f \in Items(2 * len),
         Fits(2 * len), NEW r \in EncodedIxyz(o, f, len)
  PROVE  /\ Stored(r.h, r.m)
         /\ ~AllocFails /\ Ready(obj[o], Mem(o)) => Ready(r.h, r.m)
<1> DEFINE h == obj[o]
           m == Mem(o)
           N == 2 * len
           big(q) == [q.h EXCEPT !.endian = BIG]
           x(q) == SetSpan(big(q), q.m, 0, N, f)
<1>1. /\ Stored(h, m) /\ N \in Nat /\ N <= Limit /\ Limit \in Nat
  BY StoredFacts, MaxBitsLimit DEF Holds
<1>2. \A i \in 0 .. (N - 1) : f[i] \in Bit
  BY DEF Items
<1>3. PICK q \in Resize(o, h, m, N) :
        \/ q.err # None /\ r = q
        \/ q.err = None /\ r = Outcome(None, big(q), SetPadbits(big(q), x(q)))
  BY DEF EncodedIxyz, Resized, Then
<1>4. Evolves(o, obj[o], r.h)
  BY EncodedIxyzEvolves
<1> DEFINE b == big(q)
           y == x(q)
<1> HIDE DEF h, m, N
<1>5. Result(h, q, N) /\ Refused(h, m, q)
  BY <1>1, <1>3, ResizeResult
<1>6. CASE q.err # None /\ r = q
  BY <1>5, <1>6, RefusedReady DEF h, m, Result
<1>7. CASE q.err = None /\ r = Outcome(None, big(q), SetPadbits(big(q), x(q)))
  <2>1. q.h \in Header /\ q.m \in Block /\ q.h.nbits = N /\ ~Pinned(q.h)
    BY <1>5, <1>7, StoredFacts DEF Result, Refused, None
  <2>2. b.endian = BIG /\ b.nbits = N /\ b.size = q.h.size /\ b.readonly = q.h.readonly
        /\ ~Pinned(b)
    BY <2>1 DEF Header, Pinned
  <2>3. r.h = b /\ r.m = SetPadbits(b, y)
    BY <1>7 DEF Outcome
  <2>4. y = SetSpan(b, q.m, 0, N, f)
    OBVIOUS
  <2> HIDE DEF b, y, big, x
  <2>5. b.endian \in Endian /\ b.nbits \in Nat /\ b.size \in Nat /\ Room(b.size) <= Limit
    BY <1>1, <1>5, <2>2, StoredFacts DEF Endian, Result
  <2>6. y \in Block
    BY <1>1, <1>2, <2>1, <2>4, <2>5, SetSpanBlock
  <2>7. /\ SetPadbits(b, y) \in Block
        /\ \A i \in Indices :
             At(b.endian, SetPadbits(b, y), i) =
               IF ~b.readonly /\ i \in b.nbits .. (Room(b.size) - 1) THEN 0 ELSE At(b.endian, y, i)
    BY <2>5, <2>6, SetPadbitsAt
  <2>8. Stored(r.h, r.m)
    BY <1>1, <1>4, <2>2, <2>3, <2>7 DEF Stored, Evolves
  <2>9. ASSUME NEW i \in Nat, i < N PROVE At(b.endian, r.m, i) \in Bit
    <3>1. i \in Indices /\ i < Limit /\ ~ (i \in b.nbits .. (Room(b.size) - 1))
      BY <1>1, <2>2, <2>9, IndicesFacts
    <3>2. At(b.endian, r.m, i) = At(b.endian, y, i)
      BY <2>3, <2>7, <3>1
    <3>3. 0 <= i /\ i < 0 + N /\ i - 0 = i /\ i \in 0 .. (N - 1)
      BY <1>1, <2>9
    <3>4. At(b.endian, SetSpan(b, q.m, 0, N, f), i) = f[i - 0]
      BY <1>1, <2>1, <2>5, <3>1, <3>3, SetSpanElements
    <3>5. QED
      BY <1>2, <2>4, <3>2, <3>3, <3>4
  <2>10. Ready(r.h, r.m)
    BY <2>2, <2>3, <2>9 DEF Ready, Clean
  <2>11. QED
    BY <2>8, <2>10
<1>8. QED
  BY <1>3, <1>6, <1>7

\* An export that is held, and given back.
LEMMA HeldBack ==
  ASSUME NEW h \in Header
  PROVE  /\ [[h EXCEPT !.exports = @ + 1] EXCEPT !.exports = h.exports] = h
         /\ Pinned([h EXCEPT !.exports = @ + 1])
         /\ \A q \in Header : q.exports = h.exports => [q EXCEPT !.exports = h.exports] = q
<1> DEFINE g == [h EXCEPT !.exports = @ + 1]
<1>1. h.exports \in Nat
  BY DEF Header
<1>2. g = [h EXCEPT !.exports = h.exports + 1]
  BY DEF Header
<1>3. [g EXCEPT !.exports = h.exports] = h
  BY <1>1 DEF Header
<1>4. g.exports = h.exports + 1
  BY <1>2 DEF Header
<1>5. Pinned(g)
  BY <1>1, <1>4 DEF Pinned
<1>6. \A q \in Header : q.exports = h.exports => [q EXCEPT !.exports = h.exports] = q
  BY DEF Header
<1>7. QED
  BY <1>3, <1>5, <1>6

\* a.pack(p), when p's buffer shows g
LEMMA PackedContent ==
  ASSUME NEW o \in Objects, NEW p \in Objects, Holds(o), Holds(p),
         Fits(obj[o].nbits + obj[p].size), NEW g, NEW r \in Packed(o, p, g)
  PROVE  /\ Stored(r.h, r.m)
         /\ ~AllocFails /\ Ready(obj[o], Mem(o)) => Ready(r.h, r.m)
<1> DEFINE h == obj[o]
           m == Mem(o)
           n == h.nbits
           k == obj[p].size
           e == h.endian
           held == IF p = o THEN [h EXCEPT !.exports = @ + 1] ELSE h
           byte(i) == ByteBits * i .. (ByteBits * i + ByteBits - 1)
           f == [i \in 0 .. (k - 1) |-> IF \E c \in byte(i) : g[c] = 1 THEN 1 ELSE 0]
           x(q) == SetSpan(q.h, q.m, n, k, f)
           back(q) == [q.h EXCEPT !.exports = h.exports]
           ends == UNION {IF q.err = None THEN {Outcome(None, q.h, x(q))} ELSE {q} :
                            q \in Resize(o, held, m, n + k)}
<1>1. /\ Stored(h, m) /\ h \in Header /\ n \in Nat /\ e \in Endian /\ k \in Nat
      /\ n + k <= Limit /\ Limit \in Nat /\ n + k \in Nat
  BY StoredFacts, MaxBitsLimit DEF Holds
<1>2. \A i \in 0 .. (k - 1) : f[i] \in Bit
  BY DEF Bit
<1>3. Packed(o, p, g) = {Outcome(y.err, back(y), y.m) : y \in ends}
  BY DEF Packed, Then
<1> HIDE DEF h, m, n, k, e, f, held, back, x
<1>4. PICK y \in ends : r = Outcome(y.err, back(y), y.m)
  <2> HIDE DEF ends
  <2>1. QED
    BY <1>3
<1>5. PICK q \in Resize(o, held, m, n + k) :
        (q.err # None /\ y = q) \/ (q.err = None /\ y = Outcome(None, q.h, x(q)))
  <2>1. PICK q \in Resize(o, held, m, n + k) :
          y \in IF q.err = None THEN {Outcome(None, q.h, x(q))} ELSE {q}
    BY <1>4
  <2>2. QED
    BY <2>1
<1>6. r.err = y.err /\ r.h = back(y) /\ r.m = y.m
  BY <1>4 DEF Outcome
<1>7. CASE p = o
  <2>1. held = [h EXCEPT !.exports = @ + 1]
    BY <1>7 DEF held
  <2>2. Pinned(held) /\ [held EXCEPT !.exports = h.exports] = h
    BY <1>1, <2>1, HeldBack
  <2>3. Resize(o, held, m, n + k) = {Outcome("BufferError", held, m)}
    BY <2>2 DEF Resize
  <2>4. q.err = "BufferError" /\ q.h = held /\ q.m = m
    BY <1>5, <2>3 DEF Outcome
  <2>5. y = q
    BY <1>5, <2>4 DEF None
  <2>6. r.h = h /\ r.m = m
    BY <1>6, <2>2, <2>4, <2>5 DEF back
  <2>7. QED
    BY <1>1, <2>6 DEF h, m
<1>8. CASE p # o
  <2>1. held = h
    BY <1>8 DEF held
  <2>2. q \in Resize(o, h, m, n + k)
    BY <1>5, <2>1
  <2>3. Evolves(o, h, q.h)
    BY <1>1, <2>2, ResizeEvolves DEF Stored
  <2>4. /\ Result(h, q, n + k)
        /\ q.err = None => \A i \in Nat : i < n + k /\ i < n => At(e, q.m, i) = At(e, m, i)
    BY <1>1, <2>2, ResizeResult, ResizeContent DEF e, n
  <2>5. Stored(q.h, q.m) /\ q.h.endian = e /\ q.h \in Header /\ q.h.exports = h.exports
    BY <2>3, <2>4 DEF Result, Evolves, GoodHeader, e
  <2>6. y.h = q.h
    BY <1>5 DEF Outcome
  <2>7. back(y) = q.h
    BY <1>1, <2>5, <2>6, HeldBack DEF back
  <2> DEFINE z == x(q)
  <2>8. /\ z \in Block
        /\ \A i \in Nat : i < n => At(e, z, i) = At(e, q.m, i)
        /\ \A i \in Nat : n <= i /\ i < n + k => At(e, z, i) \in Bit
    <3> DEFINE w == SetSpan(q.h, q.m, n, k, f)
    <3>1. /\ w \in Block
          /\ \A i \in Nat : i < n => At(q.h.endian, w, i) = At(q.h.endian, q.m, i)
          /\ \A i \in Nat : n <= i /\ i < n + k => At(q.h.endian, w, i) \in Bit
      BY <1>1, <1>2, <2>5, StoredItems
    <3>2. z = w
      BY DEF x
    <3> HIDE DEF z, w
    <3>3. QED
      BY <2>5, <3>1, <3>2
  <2>9. (q.err # None /\ y = q) \/ (q.err = None /\ y = Outcome(None, q.h, z))
    BY <1>5
  <2> HIDE DEF z
  <2>10. /\ Result(h, y, n + k) /\ Refused(h, m, y)
         /\ y.err = None => y.h = q.h /\ y.m = z /\ q.h.nbits = n + k
    BY <1>1, <2>2, <2>8, <2>9, WrittenAfter
  <2>11. ASSUME y.err = None, Clean(h, m) PROVE Clean(y.h, y.m)
    <3>1. q.err = None
      BY <2>9, <2>11
    <3>2. ASSUME NEW i \in Nat, i < n + k PROVE At(e, z, i) \in Bit
      <4>1. CASE i < n
        BY <2>4, <2>8, <2>11, <3>1, <3>2, <4>1 DEF Clean, n, e
      <4>2. CASE n <= i
        BY <2>8, <3>2, <4>2
      <4>3. QED
        BY <1>1, <4>1, <4>2
    <3>3. QED
      BY <2>5, <2>10, <2>11, <3>2 DEF Clean
  <2>12. ~AllocFails /\ Ready(h, m) => Ready(y.h, y.m)
    BY <2>10, <2>11, RefusedReady DEF Ready
  <2>13. Stored(y.h, y.m) /\ r.h = y.h /\ r.m = y.m
    BY <1>6, <2>6, <2>7, <2>10 DEF Result
  <2>14. QED
    BY <2>12, <2>13 DEF h, m
<1>9. QED
  BY <1>7, <1>8

\* What memory may show: bits, which are those that have been written.
LEMMA ExposedFacts ==
  ASSUME NEW h, NEW m, Stored(h, m), NEW g \in Exposed(h, m)
  PROVE  /\ g \in Block
         /\ Full(g, h.size)
         /\ \A c \in Cells : m[c] # Undef \/ Room(h.size) <= c => g[c] = m[c]
<1> DEFINE unset == {c \in Cells : m[c] = Undef /\ c < ByteBits * h.size}
<1>1. m \in Block /\ h.size \in Nat /\ Room(h.size) \in Nat
  BY StoredFacts
<1>2. PICK f \in [unset -> Bit] : g = [c \in Cells |-> IF c \in unset THEN f[c] ELSE m[c]]
  BY DEF Exposed
<1>3. \A c \in Cells : /\ c \in unset <=> (m[c] = Undef /\ c < Room(h.size))
                       /\ m[c] \in Bit \union {Undef}
                       /\ c \in unset => f[c] \in Bit
  BY <1>1, <1>2 DEF Room, Block
<1> HIDE DEF unset
<1>4. \A c \in Cells : (IF c \in unset THEN f[c] ELSE m[c]) \in Bit \union {Undef}
  BY <1>3
<1>5. g \in Block
  BY <1>2, <1>4 DEF Block
<1>6. ASSUME NEW c \in Cells, c < Room(h.size) PROVE g[c] \in Bit
  BY <1>2, <1>3, <1>6
<1>7. ASSUME NEW c \in Cells, m[c] # Undef \/ Room(h.size) <= c PROVE g[c] = m[c]
  <2>1. c \in Nat
    BY CellsFacts
  <2>2. ~ (c \in unset)
    BY <1>1, <1>3, <1>7, <2>1
  <2>3. QED
    BY <1>2, <2>2
<1>8. QED
  BY <1>5, <1>6, <1>7 DEF Full

\* The k bytes of g put behind the first n bytes of m.
WithTail(n, k, g, m) ==
  [c \in Cells |-> IF c \in Room(n) .. (Room(n + k) - 1) THEN g[c - Room(n)] ELSE m[c]]

\* The elements of memory to which bytes were appended.
LEMMA TailAt ==
  ASSUME NEW e \in Endian, NEW m \in Block, NEW g \in Block, NEW n \in Nat, NEW k \in Nat,
         Room(n + k) <= Limit, Full(g, k)
  PROVE  /\ WithTail(n, k, g, m) \in Block
         /\ \A i \in Nat : i < Room(n) /\ i < Limit =>
              At(e, WithTail(n, k, g, m), i) = At(e, m, i)
         /\ \A i \in Nat : Room(n) <= i /\ i < Room(n + k) =>
              At(e, WithTail(n, k, g, m), i) \in Bit
<1> DEFINE tail == WithTail(n, k, g, m)
<1>1. /\ Room(n) \in Nat /\ Room(k) \in Nat /\ Room(n + k) = Room(n) + Room(k)
      /\ Limit \in Nat
  BY RoomFacts, RoomAdds, IndicesFacts
<1>2. ASSUME NEW c \in Cells, Room(n) <= c, c < Room(n + k)
      PROVE  c - Room(n) \in Cells /\ g[c - Room(n)] \in Bit
  <2>1. c - Room(n) \in Nat /\ c - Room(n) < Room(k) /\ c - Room(n) < Limit
    BY <1>1, <1>2, CellsFacts
  <2>2. c - Room(n) \in Cells
    BY <2>1, IndicesFacts
  <2>3. QED
    BY <2>1, <2>2 DEF Full
<1>3. \A c \in Cells : /\ c \in Nat
                       /\ m[c] \in Bit \union {Undef}
                       /\ tail[c] = IF c \in Room(n) .. (Room(n + k) - 1)
                                    THEN g[c - Room(n)] ELSE m[c]
  BY CellsFacts DEF Block, WithTail
<1>4. tail \in Block
  <2>1. \A c \in Cells : (IF c \in Room(n) .. (Room(n + k) - 1)
                          THEN g[c - Room(n)] ELSE m[c]) \in Bit \union {Undef}
    <3>1. TAKE c \in Cells
    <3>2. CASE c \in Room(n) .. (Room(n + k) - 1)
      <4>1. Room(n) <= c /\ c < Room(n + k)
        BY <1>1, <3>2
      <4>2. QED
        BY <1>2, <3>2, <4>1
    <3>3. CASE c \notin Room(n) .. (Room(n + k) - 1)
      BY <1>3, <3>3
    <3>4. QED
      BY <3>2, <3>3
  <2>2. QED
    BY <2>1 DEF Block, WithTail
<1> HIDE DEF tail
<1>5. ASSUME NEW i \in Nat, i < Limit
      PROVE  /\ Pos(e, i) \in Cells
             /\ Pos(e, i) \in Room(n) .. (Room(n + k) - 1) <=> (Room(n) <= i /\ i < Room(n + k))
  <2>1. Pos(e, i) \in Cells
    BY <1>5, IndicesFacts
  <2>2. Pos(e, i) < Room(n) <=> i < Room(n)
    BY PosRange
  <2>3. Pos(e, i) < Room(n + k) <=> i < Room(n + k)
    BY PosRange
  <2>4. Pos(e, i) \in Nat
    BY <1>3, <2>1
  <2> DEFINE c == Pos(e, i)
  <2> HIDE DEF c
  <2>5. QED
    BY <1>1, <2>1, <2>2, <2>3, <2>4 DEF c
<1>6. ASSUME NEW i \in Nat, i < Room(n), i < Limit PROVE At(e, tail, i) = At(e, m, i)
  <2>1. Pos(e, i) \in Cells /\ ~ (Pos(e, i) \in Room(n) .. (Room(n + k) - 1))
    BY <1>1, <1>5, <1>6
  <2>2. tail[Pos(e, i)] = m[Pos(e, i)]
    BY <1>3, <2>1
  <2>3. QED
    BY <2>2 DEF At
<1>7. ASSUME NEW i \in Nat, Room(n) <= i, i < Room(n + k) PROVE At(e, tail, i) \in Bit
  <2>1. i < Limit
    BY <1>1, <1>7
  <2>2. Pos(e, i) \in Cells /\ Pos(e, i) \in Room(n) .. (Room(n + k) - 1)
    BY <1>5, <1>7, <2>1
  <2>3. tail[Pos(e, i)] = g[Pos(e, i) - Room(n)]
    BY <1>3, <2>2
  <2>4. Room(n) <= Pos(e, i) /\ Pos(e, i) < Room(n + k)
    BY <1>1, <2>2
  <2>5. QED
    BY <1>2, <2>2, <2>3, <2>4 DEF At
<1>8. QED
  BY <1>4, <1>6, <1>7 DEF tail

\* a.frombytes(p), when p's buffer shows g
LEMMA ExtendedByBytesContent ==
  ASSUME NEW o \in Objects, NEW p \in Objects, Holds(o), Holds(p),
         Fits(ByteBits * (obj[o].size + obj[p].size)),
         NEW g \in Exposed(obj[p], Mem(p)), NEW r \in ExtendedByBytes(o, p, g)
  PROVE  /\ Stored(r.h, r.m)
         /\ ~AllocFails /\ Ready(obj[o], Mem(o)) => Ready(r.h, r.m)
<1> DEFINE h == obj[o]
           m == Mem(o)
           nb == h.nbits
           n == h.size
           k == obj[p].size
           e == h.endian
           pad == PADBITS(nb)
           more == Room(n + k)
           held == IF p = o THEN [h EXCEPT !.exports = @ + 1] ELSE h
           tail(q) == [c \in Cells |-> IF c \in Room(n) .. (Room(n + k) - 1)
                                       THEN g[c - Room(n)] ELSE q.m[c]]
           cut(q) == DeleteN(o, q.h, tail(q), Room(n) - pad, pad)
           back(q) == [q.h EXCEPT !.exports = h.exports]
           ends == UNION {IF q.err = None THEN cut(q) ELSE {q} :
                            q \in Resize(o, held, m, more)}
<1>1. /\ Stored(h, m) /\ h \in Header /\ nb \in Nat /\ e \in Endian /\ n \in Nat /\ k \in Nat
      /\ Limit \in Nat /\ more \in Nat /\ Room(n) \in Nat
      /\ n = BYTES(nb)
  BY StoredFacts, RoomFacts
     DEF Holds, Stored, GoodHeader, Consistent, HeaderOK, Proportionate
<1>2. more <= Limit
  BY MaxBitsLimit DEF Room
<1>3. g \in Block /\ Full(g, k)
  BY ExposedFacts DEF Holds
<1>4. pad \in Nat /\ nb + pad = Room(n) /\ Room(n) - pad = nb /\ Room(n) <= more
  <2>1. pad \in 0 .. (ByteBits - 1) /\ nb + pad = Room(n)
    BY <1>1, PadFills DEF Room
  <2>2. Room(n) <= more
    BY <1>1, RoomMonotonic
  <2> HIDE DEF pad, more
  <2>3. QED
    BY <1>1, <2>1, <2>2, ByteBitsAssumption
<1>5. ExtendedByBytes(o, p, g) = {Outcome(y.err, back(y), y.m) : y \in ends}
  BY DEF ExtendedByBytes, Then, Room
<1> HIDE DEF h, m, nb, n, k, e, pad, more, held, tail, back
<1>6. PICK y \in ends : r = Outcome(y.err, back(y), y.m)
  <2> HIDE DEF ends
  <2>1. QED
    BY <1>5
<1>7. PICK q \in Resize(o, held, m, more) :
        (q.err # None /\ y = q) \/ (q.err = None /\ y \in cut(q))
  <2>1. PICK q \in Resize(o, held, m, more) : y \in IF q.err = None THEN cut(q) ELSE {q}
    BY <1>6
  <2>2. QED
    BY <2>1
<1>8. r.err = y.err /\ r.h = back(y) /\ r.m = y.m
  BY <1>6 DEF Outcome
<1>9. CASE p = o
  <2>1. held = [h EXCEPT !.exports = @ + 1]
    BY <1>9 DEF held
  <2>2. Pinned(held) /\ [held EXCEPT !.exports = h.exports] = h
    BY <1>1, <2>1, HeldBack
  <2>3. Resize(o, held, m, more) = {Outcome("BufferError", held, m)}
    BY <2>2 DEF Resize
  <2>4. q.err = "BufferError" /\ q.h = held /\ q.m = m
    BY <1>7, <2>3 DEF Outcome
  <2>5. y = q
    BY <1>7, <2>4 DEF None
  <2>6. r.h = h /\ r.m = m
    BY <1>8, <2>2, <2>4, <2>5 DEF back
  <2>7. QED
    BY <1>1, <2>6 DEF h, m
<1>10. CASE p # o
  <2>1. held = h
    BY <1>10 DEF held
  <2>2. q \in Resize(o, h, m, more)
    BY <1>7, <2>1
  <2>3. Evolves(o, h, q.h)
    BY <1>1, <2>2, ResizeEvolves DEF Stored
  <2>4. /\ Result(h, q, more) /\ Refused(h, m, q)
        /\ q.err = None => \A i \in Nat : i < more /\ i < nb => At(e, q.m, i) = At(e, m, i)
    BY <1>1, <1>2, <2>2, ResizeResult, ResizeContent DEF e, nb
  <2>5. Stored(q.h, q.m) /\ q.h.endian = e /\ q.h \in Header /\ q.h.exports = h.exports
        /\ q.m \in Block
    BY <2>3, <2>4 DEF Result, Evolves, GoodHeader, Stored, e
  <2>6. CASE q.err # None /\ y = q
    <3>1. r.h = q.h /\ r.m = q.m
      BY <1>1, <1>8, <2>5, <2>6, HeldBack DEF back
    <3>2. ~AllocFails /\ Ready(h, m) => Ready(q.h, q.m)
      BY <2>4, <2>6, RefusedReady
    <3>3. QED
      BY <2>5, <3>1, <3>2 DEF h, m
  <2>7. CASE q.err = None /\ y \in cut(q)
    <3> DEFINE t == tail(q)
    <3>1. t = WithTail(n, k, g, q.m)
      BY DEF tail, WithTail
    <3>2. y \in DeleteN(o, q.h, t, nb, pad)
      BY <1>4, <2>7
    <3> HIDE DEF t, cut
    <3>3. /\ t \in Block
          /\ \A i \in Nat : i < Room(n) /\ i < Limit => At(e, t, i) = At(e, q.m, i)
          /\ \A i \in Nat : Room(n) <= i /\ i < Room(n + k) => At(e, t, i) \in Bit
      BY <1>1, <1>2, <1>3, <2>5, <3>1, TailAt DEF more
    <3>4. Stored(q.h, t) /\ q.h.nbits = more /\ ~Pinned(q.h) /\ ~Pinned(h)
      BY <2>4, <2>5, <2>7, <3>3 DEF Stored, Result, Refused, None
    <3>5. nb + pad <= q.h.nbits
      BY <1>4, <3>4
    <3>6. Evolves(o, q.h, y.h)
      BY <1>1, <1>4, <3>2, <3>4, <3>5, DeleteNEvolves DEF Stored
    <3>7. /\ Result(q.h, y, more - pad)
          /\ y.err = None =>
               /\ Prefix(q.h, t, y, nb)
               /\ \A i \in Nat : nb <= i /\ i < more - pad => At(e, y.m, i) = At(e, t, i + pad)
      BY <1>1, <1>4, <2>5, <3>2, <3>4, <3>5, DeleteNContent
    <3>8. r.h = y.h /\ r.m = y.m
      <4>1. y.h \in Header /\ y.h.exports = h.exports
        BY <2>5, <3>6 DEF Evolves, GoodHeader
      <4>2. QED
        BY <1>1, <1>8, <4>1, HeldBack DEF back
    <3>9. ASSUME y.err = None, Clean(h, m) PROVE Clean(y.h, y.m)
      <4>1. ASSUME NEW i \in Nat, i < more - pad PROVE At(e, y.m, i) \in Bit
        <5>1. CASE i < nb
          <6>1. i < more /\ i < Room(n) /\ i < Limit
            BY <1>1, <1>2, <1>4, <5>1
          <6>2. At(e, y.m, i) = At(e, t, i)
            BY <2>5, <3>7, <3>9, <5>1 DEF Prefix
          <6>3. At(e, q.m, i) = At(e, m, i)
            BY <2>4, <2>7, <5>1, <6>1
          <6>4. At(e, m, i) \in Bit
            BY <3>9, <5>1 DEF Clean, nb, e
          <6>5. QED
            BY <3>3, <6>1, <6>2, <6>3, <6>4
        <5>2. CASE nb <= i
          <6>1. i + pad \in Nat /\ Room(n) <= i + pad /\ i + pad < more
            BY <1>1, <1>4, <4>1, <5>2
          <6>2. At(e, t, i + pad) \in Bit
            BY <3>3, <6>1 DEF more
          <6>3. QED
            BY <3>7, <3>9, <4>1, <5>2, <6>2
        <5>3. QED
          BY <1>1, <5>1, <5>2
      <4>2. y.h.nbits = more - pad /\ y.h.endian = e
        BY <2>5, <3>7, <3>9 DEF Result
      <4>3. QED
        BY <4>1, <4>2 DEF Clean
    <3>10. ASSUME ~AllocFails, Ready(h, m) PROVE Ready(y.h, y.m)
      <4>1. ~Pinned(y.h) /\ y.err = None
        BY <3>4, <3>7, <3>10 DEF Result
      <4>2. QED
        BY <3>9, <3>10, <4>1 DEF Ready
    <3>11. QED
      BY <3>7, <3>8, <3>10 DEF Result, h, m
  <2>8. QED
    BY <1>7, <2>6, <2>7
<1>11. QED
  BY <1>9, <1>10

-------------------------------------------------------------------------------
(***************************************************************************)
(* Arrays that share memory.                                               *)
(***************************************************************************)
\* An array that does not import uses memory of its own, if any; one that does
\* has the size of the array which owns the memory, and is read-only when that
\* is, or only then if nobody imports read-only views of writable arrays.
OwnItem(o) == obj[o].buffer = NoObject => obj[o].item \in {NoObject, o}

Inherited(o) ==
  \A p \in Objects : obj[o].item = p =>
    /\ obj[o].size = obj[p].size
    /\ obj[p].readonly => obj[o].readonly
    /\ ~ReadonlyViews => (obj[o].readonly => obj[p].readonly)

\* Nothing but the initializer makes a new array read-only, unless it imports.
NewWritable(o) == obj[o].state = "new" /\ obj[o].buffer = NoObject => ~obj[o].readonly

Sharing == \A o \in Objects : OwnItem(o) /\ Inherited(o) /\ NewWritable(o)

\* Two arrays with the same memory: both are pinned, and agree on its size and
\* mostly on whether it may be written.
LEMMA SharedMemory ==
  ASSUME IInv, Sharing, NEW o \in Objects, NEW q \in Objects, q # o, Home(q) = Home(o)
  PROVE  /\ obj[q].item = obj[o].item
         /\ obj[q].size = obj[o].size
         /\ Pinned(obj[o]) /\ Pinned(obj[q])
         /\ ~ReadonlyViews => (obj[q].readonly <=> obj[o].readonly)
<1>1. /\ obj[o].item \in Objects \union {NoObject}
      /\ obj[q].item \in Objects \union {NoObject}
      /\ o # NoObject /\ q # NoObject
  BY NoObjectIsNone DEF IInv, HeadersOK, Header
<1>2. \A x, y \in Objects : obj[x].item = y => obj[y].item = y
  BY DEF IInv, ImportsValid
<1>3. obj[o].item # NoObject /\ obj[q].item = obj[o].item
  BY <1>1, <1>2 DEF Home
<1> DEFINE w == obj[o].item
<1>4. w \in Objects
  BY <1>1, <1>3
<1>5. \A x \in Objects : obj[x].item = w => Pinned(obj[x]) \/ x = w
  BY <1>3 DEF Sharing, OwnItem, Pinned
<1>6. \A x \in Objects : x # w /\ obj[x].item = w => Pinned(obj[w])
  BY <1>4, ForeignItem DEF Pinned
<1>7. /\ obj[o].size = obj[w].size /\ obj[q].size = obj[w].size
      /\ obj[w].readonly => obj[o].readonly /\ obj[q].readonly
      /\ ~ReadonlyViews => (obj[o].readonly => obj[w].readonly)
                           /\ (obj[q].readonly => obj[w].readonly)
  BY <1>3, <1>4 DEF Sharing, Inherited
<1>8. QED
  BY <1>3, <1>5, <1>6, <1>7

-------------------------------------------------------------------------------
\* Making or taking away room for the slice that is assigned to start .. stop.
SliceRoom(o, k, start, stop) ==
  LET increase == k - (stop - start)
  IN  CASE increase > 0 -> InsertN(o, obj[o], Mem(o), start + (stop - start), increase)
        [] increase < 0 -> DeleteN(o, obj[o], Mem(o), start + k, -increase)
        [] OTHER -> {Outcome(None, obj[o], Mem(o))}

\* Making room for a slice, or closing the gap, shifts the elements behind it.
LEMMA SliceRoomContent ==
  ASSUME NEW o \in Objects, Holds(o), NEW k \in Nat, NEW start \in Nat, NEW stop \in Nat,
         start <= stop, stop <= obj[o].nbits, Fits(obj[o].nbits + k - (stop - start)),
         NEW q \in SliceRoom(o, k, start, stop)
  PROVE  /\ Result(obj[o], q, obj[o].nbits + k - (stop - start))
         /\ Pinned(obj[o]) /\ Full(Mem(o), obj[o].size) => Full(q.m, q.h.size)
         /\ Pinned(obj[o]) /\ q.err = None => q.h.size = obj[o].size
         /\ q.err = None =>
              /\ Prefix(obj[o], Mem(o), q, start)
              /\ \A i \in Nat : stop <= i /\ i < obj[o].nbits =>
                   At(obj[o].endian, q.m, i + k - (stop - start)) = At(obj[o].endian, Mem(o), i)
<1> DEFINE h == obj[o]
           m == Mem(o)
           n == h.nbits
           e == h.endian
           d == k - (stop - start)
           N == n + k - (stop - start)
<1>1. /\ Stored(h, m) /\ n \in Nat /\ e \in Endian /\ n <= Limit /\ Limit \in Nat
      /\ N <= Limit
  BY StoredFacts, MaxBitsLimit DEF Holds
<1>2. d \in Int /\ stop \in Nat /\ start + (stop - start) = stop /\ N = n + d
      /\ start <= stop /\ stop <= n /\ N \in Nat
      /\ \A i \in Nat : i + k - (stop - start) = i + d
  BY <1>1
<1>3. CASE d > 0
  <2>1. q \in InsertN(o, h, m, stop, d)
    BY <1>2, <1>3 DEF SliceRoom
  <2>2. d \in Nat
    BY <1>2, <1>3
  <2> HIDE DEF h, m, n, e, d, N
  <2>3. /\ Result(h, q, n + d) /\ Refused(h, m, q)
        /\ q.err = None =>
             /\ Prefix(h, m, q, stop)
             /\ \A i \in Nat : stop <= i /\ i < n => At(e, q.m, i + d) = At(e, m, i)
    BY <1>1, <1>2, <2>1, <2>2, InsertNContent DEF n, e
  <2>4. Prefix(h, m, q, stop) => Prefix(h, m, q, start)
    BY <1>2 DEF Prefix
  <2>5. Pinned(h) /\ Full(m, h.size) => Full(q.m, q.h.size)
    BY <2>3 DEF Refused
  <2>6. ~ (Pinned(h) /\ q.err = None)
    BY <2>3 DEF Refused, None
  <2>7. QED
    BY <1>2, <2>3, <2>4, <2>5, <2>6 DEF h, m, n, e, N
<1>4. CASE d < 0
  <2> DEFINE c == -d
  <2>1. q \in DeleteN(o, h, m, start + k, c)
    BY <1>2, <1>4 DEF SliceRoom
  <2>2. c \in Nat /\ start + k \in Nat /\ (start + k) + c = stop /\ n - c = N
        /\ \A i \in Int : i + d = i - c
    BY <1>1, <1>2, <1>4
  <2>3. (start + k) + c <= n
    BY <1>2, <2>2
  <2> HIDE DEF h, m, n, e, d, N, c
  <2>4. /\ Result(h, q, n - c)
        /\ Pinned(h) => q.err = "BufferError" /\ (Full(m, h.size) => Full(q.m, q.h.size))
        /\ q.err = None =>
             /\ Prefix(h, m, q, start + k)
             /\ \A i \in Nat : start + k <= i /\ i < n - c =>
                  At(e, q.m, i) = At(e, m, i + c)
    BY <1>1, <2>1, <2>2, <2>3, DeleteNContent DEF n, e
  <2>5. Prefix(h, m, q, start + k) => Prefix(h, m, q, start)
    BY <2>2 DEF Prefix
  <2>6. ASSUME q.err = None, NEW i \in Nat, stop <= i, i < n
        PROVE  At(e, q.m, i + d) = At(e, m, i)
    <3>1. i - c \in Nat /\ start + k <= i - c /\ i - c < n - c /\ (i - c) + c = i
          /\ i + d = i - c
      BY <1>1, <1>2, <2>2, <2>6
    <3>2. QED
      BY <2>4, <2>6, <3>1
  <2>7. QED
    BY <1>2, <2>2, <2>4, <2>5, <2>6 DEF h, m, n, e, N, None
<1>5. CASE d = 0
  <2>1. q = Outcome(None, h, m)
    BY <1>2, <1>5 DEF SliceRoom
  <2>2. q.err = None /\ q.h = h /\ q.m = m
    BY <2>1 DEF Outcome
  <2>3. N = n /\ \A i \in Nat : i + k - (stop - start) = i
    BY <1>1, <1>2, <1>5
  <2> HIDE DEF h, m, e, d, N
  <2>4. Result(h, q, N)
    BY <1>1, <2>2, <2>3 DEF Result, None
  <2> HIDE DEF n
  <2>5. QED
    BY <2>2, <2>3, <2>4 DEF h, m, n, e, N, Prefix
<1>6. QED
  BY <1>2, <1>3, <1>4, <1>5


\* a[start:stop] = p, for any other array and for a itself.
LEMMA SliceAssignedContent ==
  ASSUME IInv, Sharing, NEW o \in Objects, NEW p \in Objects, Holds(o), Holds(p),
         NEW start \in Nat, NEW stop \in Nat, start <= stop, stop <= obj[o].nbits,
         Fits(obj[o].nbits + obj[p].nbits - (stop - start)),
         NEW r \in SliceAssigned(o, p, start, stop)
  PROVE  /\ Result(obj[o], r, obj[o].nbits + obj[p].nbits - (stop - start))
         /\ ~AllocFails /\ Ready(obj[o], Mem(o)) /\ Clean(obj[p], Mem(p)) => Ready(r.h, r.m)
         /\ r.err = None =>
              /\ Prefix(obj[o], Mem(o), r, start)
              /\ \A i \in Nat : i < obj[p].nbits =>
                   At(obj[o].endian, r.m, start + i) = At(obj[p].endian, Mem(p), i)
              /\ \A i \in Nat : stop <= i /\ i < obj[o].nbits =>
                   At(obj[o].endian, r.m, i + obj[p].nbits - (stop - start))
                     = At(obj[o].endian, Mem(o), i)
<1> DEFINE h == obj[o]
           m == Mem(o)
           n == h.nbits
           e == h.endian
           h2 == obj[p]
           m2 == Mem(p)
           k == h2.nbits
           e2 == h2.endian
           N == n + k - (stop - start)
           source(q) == IF Home(p) = Home(o) /\ ~BuffersOverlap(h, h2) THEN q.m ELSE m2
           x(q) == CopyN(q.h, q.m, start, h2, source(q), 0, k)
<1>1. /\ Stored(h, m) /\ n \in Nat /\ e \in Endian /\ n <= Limit /\ Limit \in Nat
      /\ Stored(h2, m2) /\ k \in Nat /\ e2 \in Endian /\ k <= Limit /\ m2 \in Block
      /\ k <= Room(h2.size) /\ N <= Limit /\ h2.size \in Nat /\ h.size \in Nat
  BY StoredFacts, MaxBitsLimit DEF Holds, Stored
<1>2. /\ N \in Nat /\ start + k \in Nat /\ start + k <= N
      /\ \A i \in Nat : i + k - (stop - start) \in Int
  BY <1>1
<1>3. CASE Home(p) = Home(o) /\ ~BuffersOverlap(h, h2) /\ k # 0
  <2>1. h.item = h2.item /\ h.size = h2.size
    BY <1>3, SharedMemory
  <2>2. h2.size # 0
    BY <1>1, <1>3, RoomFacts
  <2>3. QED
    BY <1>3, <2>1, <2>2 DEF BuffersOverlap
<1>4. CASE (Home(p) = Home(o) /\ ~BuffersOverlap(h, h2)) => k = 0
  <2>1. SliceAssigned(o, p, start, stop) =
          UNION {IF q.err = None THEN {Outcome(None, q.h, x(q))} ELSE {q} :
                   q \in SliceRoom(o, k, start, stop)}
    BY DEF SliceAssigned, SliceRoom, Then
  <2> HIDE DEF x
  <2>2. PICK q \in SliceRoom(o, k, start, stop) :
          (q.err # None /\ r = q) \/ (q.err = None /\ r = Outcome(None, q.h, x(q)))
    <3>1. PICK q \in SliceRoom(o, k, start, stop) :
            r \in IF q.err = None THEN {Outcome(None, q.h, x(q))} ELSE {q}
      BY <2>1
    <3>2. QED
      BY <3>1
  <2>3. /\ Result(h, q, N)
        /\ Pinned(h) /\ Full(m, h.size) => Full(q.m, q.h.size)
        /\ q.err = None =>
             /\ Prefix(h, m, q, start)
             /\ \A i \in Nat : stop <= i /\ i < n =>
                  At(e, q.m, i + k - (stop - start)) = At(e, m, i)
    BY <1>1, <2>2, SliceRoomContent DEF Holds
  <2>4. CASE q.err # None /\ r = q
    <3> HIDE DEF h, m, h2, m2, N
    <3>1. ~AllocFails /\ Ready(h, m) => Ready(r.h, r.m)
      BY <2>3, <2>4, ResultReady
    <3>2. QED
      BY <2>3, <2>4, <3>1 DEF h, m, h2, m2, N
  <2>5. CASE q.err = None /\ r = Outcome(None, q.h, x(q))
    <3> DEFINE y == x(q)
               s == source(q)
    <3>1. /\ q.h.endian = e /\ q.m \in Block /\ Stored(q.h, q.m) /\ q.h.size \in Nat
          /\ q.h.nbits = N /\ Room(q.h.size) <= Limit /\ Room(q.h.size) \in Nat
          /\ (Pinned(q.h) <=> Pinned(h))
      <4>1. Stored(q.h, q.m) /\ q.h.endian = e /\ q.h.nbits = N /\ (Pinned(q.h) <=> Pinned(h))
        BY <2>3, <2>5 DEF Result
      <4> HIDE DEF h, e, N
      <4>2. QED
        BY <4>1, StoredFacts
    <3>2. s \in Block /\ (k # 0 => s = m2)
      BY <1>1, <1>4, <3>1
    <3>3. y = CopyN(q.h, q.m, start, h2, s, 0, k)
      BY DEF x
    <3>4. r.err = None /\ r.h = q.h /\ r.m = y
      BY <2>5 DEF Outcome
    <3> HIDE DEF h, m, n, e, h2, m2, k, e2, N, source, y, s
    <3>5. y \in Block
      <4>1. 0 + k <= Limit
        BY <1>1
      <4>2. QED
        BY <1>1, <3>1, <3>2, <3>3, <4>1, CopyNBlock DEF e2
    <3>6. ASSUME NEW i \in Nat, i < Limit
          PROVE  /\ start <= i /\ i < start + k => At(e, y, i) = At(e2, s, 0 + (i - start))
                 /\ i < start \/ start + k <= i => At(e, y, i) = At(e, q.m, i)
      BY <1>1, <3>1, <3>3, <3>6, CopyNElements DEF e2
    <3>7. Result(h, r, N)
      <4>1. Result(h, q, N) /\ q.err = None /\ r = Outcome(None, q.h, y)
        BY <2>3, <2>5 DEF y
      <4>2. QED
        BY <3>5, <4>1, ResultWritten
    <3>8. ASSUME NEW i \in Nat, i < start PROVE At(e, y, i) = At(e, m, i)
      <4>1. i < Limit
        BY <1>1, <1>2, <3>8
      <4>2. At(e, q.m, i) = At(e, m, i)
        BY <2>3, <2>5, <3>8 DEF Prefix, e
      <4>3. QED
        BY <3>6, <3>8, <4>1, <4>2
    <3>9. ASSUME NEW i \in Nat, i < k PROVE At(e, y, start + i) = At(e2, m2, i)
      <4>1. /\ start + i \in Nat /\ start + i < Limit /\ start <= start + i
            /\ start + i < start + k /\ 0 + ((start + i) - start) = i /\ k # 0
        BY <1>1, <1>2, <3>9
      <4>2. QED
        BY <3>2, <3>6, <4>1
    <3>10. ASSUME NEW i \in Nat, stop <= i, i < n
           PROVE  At(e, y, i + k - (stop - start)) = At(e, m, i)
      <4>1. /\ i + k - (stop - start) \in Nat /\ i + k - (stop - start) < Limit
            /\ start + k <= i + k - (stop - start)
        BY <1>1, <1>2, <3>10 DEF N
      <4>2. At(e, q.m, i + k - (stop - start)) = At(e, m, i)
        BY <2>3, <2>5, <3>10
      <4>3. QED
        BY <3>6, <4>1, <4>2
    <3>11. ASSUME Clean(h2, m2), NEW i \in Nat, start <= i, i < start + k
           PROVE  At(e, y, i) \in Bit
      <4>1. i - start \in Nat /\ i - start < k /\ start + (i - start) = i
        BY <1>1, <3>11
      <4>2. At(e2, m2, i - start) \in Bit
        BY <3>11, <4>1 DEF Clean, e2, k
      <4>3. QED
        BY <3>9, <4>1, <4>2
    <3>12. ASSUME Clean(h2, m2), Full(q.m, q.h.size) PROVE Full(y, q.h.size)
      <4>1. \A i \in Indices : i < Room(q.h.size) => At(e, q.m, i) \in Bit
        BY <1>1, <3>1, <3>12, FullAt
      <4>2. ASSUME NEW i \in Indices, i < Room(q.h.size) PROVE At(e, y, i) \in Bit
        <5>1. i \in Nat /\ i < Limit
          BY IndicesFacts
        <5>2. CASE start <= i /\ i < start + k
          BY <3>11, <3>12, <5>1, <5>2
        <5>3. CASE ~ (start <= i /\ i < start + k)
          <6>1. i < start \/ start + k <= i
            BY <1>2, <5>1, <5>3
          <6>2. At(e, y, i) = At(e, q.m, i)
            BY <3>6, <5>1, <6>1
          <6>3. QED
            BY <4>1, <4>2, <6>2
        <5>4. QED
          BY <5>2, <5>3
      <4>3. QED
        BY <1>1, <3>1, <4>2, FullAt
    <3>13. ASSUME Clean(h2, m2), Clean(h, m) PROVE Clean(r.h, r.m)
      <4>1. ASSUME NEW i \in Nat, i < N PROVE At(e, y, i) \in Bit
        <5>1. CASE i < start
          <6>1. i < n
            BY <1>1, <5>1 DEF n, h
          <6>2. At(e, m, i) \in Bit
            BY <3>13, <6>1 DEF Clean, n, e
          <6>3. QED
            BY <3>8, <5>1, <6>2
        <5>2. CASE start <= i /\ i < start + k
          BY <3>11, <3>13, <5>2
        <5>3. CASE start + k <= i
          <6> DEFINE j == i - k + (stop - start)
          <6>1. j \in Nat /\ stop <= j /\ j < n /\ j + k - (stop - start) = i
            BY <1>1, <1>2, <4>1, <5>3 DEF N
          <6> HIDE DEF j
          <6>2. At(e, m, j) \in Bit
            BY <3>13, <6>1 DEF Clean, n, e
          <6>3. QED
            BY <3>10, <6>1, <6>2
        <5>4. QED
          BY <1>2, <5>1, <5>2, <5>3
      <4>2. QED
        BY <3>1, <3>4, <4>1 DEF Clean
    <3>14. ASSUME ~AllocFails, Ready(h, m), Clean(h2, m2) PROVE Ready(r.h, r.m)
      <4>1. Clean(h, m)
        BY <3>14 DEF Ready
      <4>2. Pinned(h) /\ Full(m, h.size) => Full(r.m, r.h.size)
        BY <2>3, <3>4, <3>12, <3>14
      <4>3. QED
        BY <3>7, <3>13, <3>14, <4>1, <4>2, ResultReady
    <3>15. Prefix(h, m, r, start)
      BY <3>4, <3>8 DEF Prefix, e
    <3>16. QED
      BY <3>4, <3>7, <3>9, <3>10, <3>14, <3>15 DEF h, m, n, e, h2, m2, k, e2, N
  <2>6. QED
    BY <2>2, <2>4, <2>5
<1>5. QED
  BY <1>3, <1>4

-------------------------------------------------------------------------------
(***************************************************************************)
(* Methods that write in place.                                            *)
(***************************************************************************)
\* Writing x over m turns no element into garbage and exposes none.
Spared(h, m, x) ==
  /\ x \in Block
  /\ Clean(h, m) => Clean(h, x)
  /\ Full(m, h.size) => Full(x, h.size)

\* What a method that spares the elements leaves.
LEMMA SparedReady ==
  ASSUME NEW h, NEW m, NEW x, Stored(h, m), Spared(h, m, x)
  PROVE  /\ Stored(h, x)
         /\ Ready(h, m) => Ready(h, x)
BY DEF Stored, Spared, Ready

\* One write after the other.
LEMMA SparedTransitive ==
  ASSUME NEW h, NEW m, NEW x, NEW y, Spared(h, m, x), Spared(h, x, y)
  PROVE  Spared(h, m, y)
BY DEF Spared

\* Memory that is all bits.
LEMMA FullSpared ==
  ASSUME NEW h, NEW m, NEW x \in Block, Stored(h, m), Full(x, h.size)
  PROVE  Spared(h, m, x)
<1>1. Stored(h, x)
  BY DEF Stored
<1>2. QED
  BY <1>1, FullClean DEF Spared

\* Reading uninitialized memory makes bits of it.
LEMMA ExposedSpared ==
  ASSUME NEW h, NEW m, Stored(h, m), NEW g \in Exposed(h, m)
  PROVE  Spared(h, m, g) /\ Stored(h, g) /\ Full(g, h.size) /\ Clean(h, g)
<1>1. g \in Block /\ Full(g, h.size)
  BY ExposedFacts
<1>2. Spared(h, m, g)
  BY <1>1, FullSpared
<1>3. QED
  BY <1>1, <1>2, SparedReady, FullClean

\* Elements that are replaced by values which are bits when the elements are.
LEMMA SpanSpared ==
  ASSUME NEW h, NEW m, Stored(h, m), NEW a \in Nat, NEW n \in Nat, a + n <= h.nbits, NEW f,
         \A i \in 0 .. (n - 1) : f[i] \in Bit \union {Undef},
         Clean(h, m) => \A i \in 0 .. (n - 1) : f[i] \in Bit
  PROVE  Spared(h, m, SetSpan(h, m, a, n, f))
<1> DEFINE x == SetSpan(h, m, a, n, f)
           e == h.endian
<1>1. /\ e \in Endian /\ m \in Block /\ h.nbits \in Nat /\ h.size \in Nat
      /\ Room(h.size) \in Nat /\ Room(h.size) <= Limit /\ h.nbits <= Room(h.size)
      /\ Limit \in Nat
  BY StoredFacts
<1>2. x \in Block
  BY <1>1, SetSpanBlock
<1>3. ASSUME NEW i \in Nat, i < Limit
      PROVE  /\ a <= i /\ i < a + n => At(e, x, i) = f[i - a]
             /\ i < a \/ a + n <= i => At(e, x, i) = At(e, m, i)
  BY <1>1, <1>3, SetSpanElements
<1> HIDE DEF x, e
<1>4. ASSUME Clean(h, m), NEW i \in Nat, i < Limit, At(e, m, i) \in Bit
      PROVE  At(e, x, i) \in Bit
  <2>1. CASE a <= i /\ i < a + n
    <3>1. i - a \in 0 .. (n - 1)
      BY <2>1
    <3>2. QED
      BY <1>3, <1>4, <2>1, <3>1
  <2>2. CASE i < a \/ a + n <= i
    BY <1>3, <1>4, <2>2
  <2>3. QED
    BY <2>1, <2>2
<1>5. ASSUME Clean(h, m) PROVE Clean(h, x)
  <2>1. ASSUME NEW i \in Nat, i < h.nbits PROVE At(e, x, i) \in Bit
    <3>1. i < Limit /\ At(e, m, i) \in Bit
      BY <1>1, <1>5, <2>1 DEF Clean, e
    <3>2. QED
      BY <1>4, <1>5, <3>1
  <2>2. QED
    BY <2>1 DEF Clean, e
<1>6. ASSUME Full(m, h.size) PROVE Full(x, h.size)
  <2>1. Clean(h, m)
    BY <1>6, FullClean
  <2>2. \A i \in Indices : i < Room(h.size) => At(e, m, i) \in Bit
    BY <1>1, <1>6, FullAt
  <2>3. \A i \in Indices : i < Room(h.size) => At(e, x, i) \in Bit
    BY <1>4, <2>1, <2>2, IndicesFacts
  <2>4. QED
    BY <1>1, <2>3, FullAt
<1>7. QED
  BY <1>2, <1>5, <1>6 DEF Spared, x

\* Elements that are moved about.
LEMMA MoveSpared ==
  ASSUME NEW h, NEW m, Stored(h, m), NEW a \in Nat, NEW b \in Nat, NEW n \in Nat,
         a + n <= h.nbits, b + n <= h.nbits
  PROVE  Spared(h, m, CopyN(h, m, a, h, m, b, n))
<1> DEFINE f == [i \in 0 .. (n - 1) |-> GetBit(h, m, b + i)]
           e == h.endian
<1>1. /\ e \in Endian /\ m \in Block /\ h.nbits \in Nat /\ h.nbits <= Limit
      /\ Limit \in Nat
  BY StoredFacts DEF Stored
<1>2. CopyN(h, m, a, h, m, b, n) = SetSpan(h, m, a, n, f)
  BY DEF CopyN
<1>3. ASSUME NEW i \in 0 .. (n - 1)
      PROVE  /\ f[i] \in Bit \union {Undef}
             /\ Clean(h, m) => f[i] \in Bit
  <2>1. f[i] = At(e, m, b + i)
    BY DEF GetBit, At
  <2>2. b + i \in Nat /\ b + i < h.nbits /\ b + i < Limit
    BY <1>1
  <2>3. b + i \in Indices
    BY <2>2, IndicesFacts
  <2>4. At(e, m, b + i) \in Bit \union {Undef}
    BY <1>1, <2>3, AtType
  <2>5. Clean(h, m) => At(e, m, b + i) \in Bit
    BY <2>2 DEF Clean
  <2>6. QED
    BY <2>1, <2>4, <2>5
<1> HIDE DEF f
<1>4. QED
  BY <1>2, <1>3, SpanSpared

\* a[i] = v
LEMMA SetItemContent ==
  ASSUME NEW h, NEW m, Stored(h, m), NEW i \in Nat, i < h.nbits, NEW v \in Bit
  PROVE  Spared(h, m, SetBit(h, m, i, v))
<1> DEFINE x == SetBit(h, m, i, v)
           e == h.endian
<1>1. /\ e \in Endian /\ m \in Block /\ h.nbits \in Nat /\ h.nbits <= Limit
      /\ h.size \in Nat /\ Limit \in Nat
  BY StoredFacts DEF Stored
<1>2. i \in Indices
  BY <1>1, IndicesFacts
<1>3. x \in Block /\ \A j \in Indices : At(e, x, j) = IF j = i THEN v ELSE At(e, m, j)
  BY <1>1, <1>2, SetBitAt
<1> HIDE DEF x, e
<1>4. ASSUME Clean(h, m) PROVE Clean(h, x)
  <2>1. \A j \in Nat : j < h.nbits => j \in Indices /\ At(e, m, j) \in Bit
    BY <1>1, <1>4, IndicesFacts DEF Clean, e
  <2>2. \A j \in Nat : j < h.nbits => At(e, x, j) \in Bit
    BY <1>3, <2>1
  <2>3. QED
    BY <2>2 DEF Clean, e
<1>5. ASSUME Full(m, h.size) PROVE Full(x, h.size)
  <2>1. \A j \in Indices : j < Room(h.size) => At(e, m, j) \in Bit
    BY <1>1, <1>5, FullAt
  <2>2. \A j \in Indices : j < Room(h.size) => At(e, x, j) \in Bit
    BY <1>3, <2>1
  <2>3. QED
    BY <1>1, <2>2, FullAt
<1>6. QED
  BY <1>3, <1>4, <1>5 DEF Spared, x

\* Pad bits that are set to zero.
LEMMA PadbitsSpared ==
  ASSUME NEW h, NEW m, Stored(h, m)
  PROVE  Spared(h, m, SetPadbits(h, m))
<1> DEFINE x == SetPadbits(h, m)
           e == h.endian
           set(i) == ~h.readonly /\ i \in h.nbits .. (Room(h.size) - 1)
<1>1. /\ e \in Endian /\ m \in Block /\ h.nbits \in Nat /\ h.nbits <= Limit
      /\ h.size \in Nat /\ Limit \in Nat /\ Room(h.size) <= Limit
  BY StoredFacts DEF Stored
<1>2. x \in Block /\ \A i \in Indices : At(e, x, i) = IF set(i) THEN 0 ELSE At(e, m, i)
  BY <1>1, SetPadbitsAt
<1> HIDE DEF x, e, set
<1>3. 0 \in Bit
  BY DEF Bit
<1>4. ASSUME Clean(h, m) PROVE Clean(h, x)
  <2>1. \A j \in Nat : j < h.nbits => j \in Indices /\ At(e, m, j) \in Bit
    BY <1>1, <1>4, IndicesFacts DEF Clean, e
  <2>2. \A j \in Nat : j < h.nbits => At(e, x, j) \in Bit
    BY <1>2, <1>3, <2>1
  <2>3. QED
    BY <2>2 DEF Clean, e
<1>5. ASSUME Full(m, h.size) PROVE Full(x, h.size)
  <2>1. \A j \in Indices : j < Room(h.size) => At(e, m, j) \in Bit
    BY <1>1, <1>5, FullAt
  <2>2. \A j \in Indices : j < Room(h.size) => At(e, x, j) \in Bit
    BY <1>2, <1>3, <2>1
  <2>3. QED
    BY <1>1, <2>2, FullAt
<1>6. QED
  BY <1>2, <1>4, <1>5 DEF Spared, x

-------------------------------------------------------------------------------
\* The elements, as the model writes them.
LEMMA BitsAt ==
  ASSUME NEW o \in Objects, Holds(o)
  PROVE  /\ DOMAIN Bits(o) = 0 .. (obj[o].nbits - 1)
         /\ \A i \in 0 .. (obj[o].nbits - 1) :
              /\ Bits(o)[i] = At(obj[o].endian, Mem(o), i)
              /\ Bits(o)[i] \in Bit \union {Undef}
              /\ Clean(obj[o], Mem(o)) => Bits(o)[i] \in Bit
<1> DEFINE h == obj[o]
           m == Mem(o)
           n == h.nbits
<1>1. /\ Stored(h, m) /\ n \in Nat /\ n <= Limit /\ Limit \in Nat
      /\ h.endian \in Endian /\ m \in Block
  BY StoredFacts DEF Holds, Stored
<1>2. DOMAIN Bits(o) = 0 .. (n - 1)
  BY DEF Bits, Elements
<1>3. \A i \in 0 .. (n - 1) : Bits(o)[i] = At(h.endian, m, i)
  BY DEF Bits, Elements, GetBit, At
<1>4. \A i \in 0 .. (n - 1) : i \in Nat /\ i < n /\ i \in Indices
  BY <1>1, IndicesFacts
<1> HIDE DEF h, m, n
<1>5. \A i \in 0 .. (n - 1) : At(h.endian, m, i) \in Bit \union {Undef}
  BY <1>1, <1>4, AtType
<1>6. \A i \in 0 .. (n - 1) : Clean(h, m) => At(h.endian, m, i) \in Bit
  BY <1>4 DEF Clean, n
<1>7. QED
  BY <1>2, <1>3, <1>5, <1>6 DEF h, m, n

\* a.invert()
LEMMA InvertSpared ==
  ASSUME NEW o \in Objects, Holds(o)
  PROVE  Spared(obj[o], Mem(o),
                SetSpan(obj[o], Mem(o), 0, obj[o].nbits,
                        [i \in DOMAIN Bits(o) |-> Flip(Bits(o)[i])]))
<1> DEFINE n == obj[o].nbits
           f == [i \in DOMAIN Bits(o) |-> Flip(Bits(o)[i])]
<1>1. Stored(obj[o], Mem(o)) /\ n \in Nat /\ 0 + n <= n
  BY StoredFacts DEF Holds
<1>2. ASSUME NEW i \in 0 .. (n - 1)
      PROVE  /\ f[i] \in Bit \union {Undef}
             /\ Clean(obj[o], Mem(o)) => f[i] \in Bit
  <2>1. /\ f[i] = Flip(Bits(o)[i])
        /\ Bits(o)[i] \in Bit \union {Undef}
        /\ Clean(obj[o], Mem(o)) => Bits(o)[i] \in Bit
    BY BitsAt
  <2>2. \A v \in Bit : Flip(v) \in Bit
    BY UndefAssumption DEF Flip, Bit
  <2>3. Flip(Undef) = Undef
    BY DEF Flip
  <2> HIDE DEF f, n
  <2>4. QED
    BY <2>1, <2>2, <2>3
<1> HIDE DEF f
<1>3. QED
  BY <1>1, <1>2, SpanSpared DEF f

\* a.setall(v)
LEMMA SetAllSpared ==
  ASSUME NEW o \in Objects, Holds(o), NEW v \in Bit
  PROVE  Spared(obj[o], Mem(o),
                [c \in Cells |-> IF c < ByteBits * obj[o].size THEN v ELSE Mem(o)[c]])
<1> DEFINE x == [c \in Cells |-> IF c < Room(obj[o].size) THEN v ELSE Mem(o)[c]]
<1>1. Stored(obj[o], Mem(o)) /\ \A c \in Cells : Mem(o)[c] \in Bit \union {Undef}
  BY DEF Holds, Stored, Block
<1>2. x \in Block
  <2>1. \A c \in Cells : (IF c < Room(obj[o].size) THEN v ELSE Mem(o)[c]) \in Bit \union {Undef}
    BY <1>1
  <2>2. QED
    BY <2>1 DEF Block
<1>3. Full(x, obj[o].size)
  BY DEF Full
<1>4. Spared(obj[o], Mem(o), x)
  BY <1>1, <1>2, <1>3, FullSpared
<1>5. QED
  BY <1>4 DEF Room

\* A bit for each pair of bits.
LEMMA CombinedBit ==
  ASSUME NEW oper \in Operators, NEW u \in Bit, NEW v \in Bit
  PROVE  Combined(oper, u, v) \in Bit
<1>1. CASE oper = "&"
  BY <1>1 DEF Combined, Bit
<1>2. CASE oper = "|"
  BY <1>2 DEF Combined, Bit
<1>3. CASE oper = "^"
  BY <1>3 DEF Combined, Bit
<1>4. QED
  BY <1>1, <1>2, <1>3 DEF Operators

\* a &= p, a |= p and a ^= p
LEMMA BitwiseSpared ==
  ASSUME NEW o \in Objects, NEW p \in Objects, Holds(o), Holds(p), NEW oper \in Operators,
         obj[p].nbits = obj[o].nbits, NEW g \in Exposed(obj[o], Mem(o)),
         NEW k \in Exposed(obj[p], Mem(p))
  PROVE  Spared(obj[o], Mem(o),
                [c \in Cells |-> IF c < ByteBits * obj[o].size
                                 THEN Combined(oper, g[c], k[c]) ELSE Mem(o)[c]])
<1> DEFINE w == Room(obj[o].size)
           x == [c \in Cells |-> IF c < w THEN Combined(oper, g[c], k[c]) ELSE Mem(o)[c]]
<1>1. Stored(obj[o], Mem(o)) /\ \A c \in Cells : Mem(o)[c] \in Bit \union {Undef}
  BY DEF Holds, Stored, Block
<1>2. obj[p].size = obj[o].size
  BY DEF Holds, Stored, GoodHeader, Consistent, HeaderOK, Proportionate
<1>3. Full(g, obj[o].size) /\ Full(k, obj[p].size)
  BY ExposedFacts DEF Holds
<1>4. \A c \in Cells : c < w => g[c] \in Bit /\ k[c] \in Bit
  BY <1>2, <1>3 DEF Full
<1>5. \A c \in Cells : c < w => Combined(oper, g[c], k[c]) \in Bit
  BY <1>4, CombinedBit
<1> HIDE DEF w
<1>6. x \in Block
  <2>1. \A c \in Cells : (IF c < w THEN Combined(oper, g[c], k[c]) ELSE Mem(o)[c])
                           \in Bit \union {Undef}
    BY <1>1, <1>5
  <2>2. QED
    BY <2>1 DEF Block
<1>7. Full(x, obj[o].size)
  BY <1>5 DEF Full, w
<1>8. Spared(obj[o], Mem(o), x)
  BY <1>1, <1>6, <1>7, FullSpared
<1>9. QED
  BY <1>8 DEF w, Room

\* a >>= n and a <<= n
LEMMA ShiftSpared ==
  ASSUME NEW h, NEW m, Stored(h, m), NEW n \in Nat, n <= h.nbits
  PROVE  LET zeros == [i \in 0 .. (n - 1) |-> 0]
         IN  /\ Spared(h, m, SetSpan(h, CopyN(h, m, n, h, m, 0, h.nbits - n), 0, n, zeros))
             /\ Spared(h, m, SetSpan(h, CopyN(h, m, 0, h, m, n, h.nbits - n),
                                     h.nbits - n, n, zeros))
<1> DEFINE zeros == [i \in 0 .. (n - 1) |-> 0]
           k == h.nbits - n
           right == CopyN(h, m, n, h, m, 0, k)
           left == CopyN(h, m, 0, h, m, n, k)
<1>1. h.nbits \in Nat
  BY StoredFacts
<1>2. k \in Nat /\ n + k <= h.nbits /\ 0 + k <= h.nbits /\ k + n <= h.nbits /\ 0 + n <= h.nbits
  BY <1>1
<1>3. \A i \in 0 .. (n - 1) : zeros[i] \in Bit
  BY DEF Bit
<1> HIDE DEF zeros, k
<1>4. Spared(h, m, right) /\ Spared(h, m, left)
  BY <1>1, <1>2, MoveSpared
<1> HIDE DEF right, left
<1>5. Stored(h, right) /\ Stored(h, left)
  BY <1>4, SparedReady
<1>6. Spared(h, right, SetSpan(h, right, 0, n, zeros))
  BY <1>2, <1>3, <1>5, SpanSpared
<1>7. Spared(h, left, SetSpan(h, left, k, n, zeros))
  BY <1>2, <1>3, <1>5, SpanSpared
<1>8. /\ Spared(h, m, SetSpan(h, right, 0, n, zeros))
      /\ Spared(h, m, SetSpan(h, left, k, n, zeros))
  BY <1>4, <1>6, <1>7, SparedTransitive
<1>9. QED
  BY <1>8 DEF zeros, k, right, left

\* a.rotate(k)
LEMMA RotateSpared ==
  ASSUME NEW o \in Objects, Holds(o), NEW k \in Nat, k < obj[o].nbits
  PROVE  Spared(obj[o], Mem(o),
                SetSpan(obj[o], Mem(o), 0, obj[o].nbits,
                        [i \in DOMAIN Bits(o) |->
                           Bits(o)[(i - k + obj[o].nbits) % obj[o].nbits]]))
<1> DEFINE n == obj[o].nbits
           f == [i \in DOMAIN Bits(o) |-> Bits(o)[(i - k + n) % n]]
<1>1. Stored(obj[o], Mem(o)) /\ n \in Nat /\ 0 + n <= n /\ n > 0
  BY StoredFacts DEF Holds
<1>2. ASSUME NEW i \in 0 .. (n - 1)
      PROVE  /\ f[i] \in Bit \union {Undef}
             /\ Clean(obj[o], Mem(o)) => f[i] \in Bit
  <2>1. f[i] = Bits(o)[(i - k + n) % n]
    BY BitsAt
  <2>2. (i - k + n) % n \in 0 .. (n - 1)
    <3> HIDE DEF n
    <3>1. i - k + n \in Int
      BY <1>1
    <3>2. QED
      BY <1>1, <3>1
  <2> HIDE DEF f
  <2>3. QED
    BY <2>1, <2>2, BitsAt
<1> HIDE DEF f
<1>3. QED
  BY <1>1, <1>2, SpanSpared DEF f

\* a.sort(), on the memory g
LEMMA SortSpared ==
  ASSUME NEW h, NEW m, Stored(h, m), NEW g \in Exposed(h, m), NEW f,
         \A i \in 0 .. (h.nbits - 1) : f[i] \in Bit
  PROVE  Spared(h, m, SetSpan(h, g, 0, h.nbits, f))
<1>1. h.nbits \in Nat /\ 0 + h.nbits <= h.nbits
  BY StoredFacts
<1>2. Spared(h, m, g) /\ Stored(h, g)
  BY ExposedSpared
<1>3. Spared(h, g, SetSpan(h, g, 0, h.nbits, f))
  BY <1>1, <1>2, SpanSpared
<1>4. QED
  BY <1>2, <1>3, SparedTransitive

\* a.bytereverse(i, j), on the memory g
LEMMA BytereverseSpared ==
  ASSUME NEW h, NEW m, Stored(h, m), NEW g \in Exposed(h, m), NEW i, NEW j
  PROVE  Spared(h, m, ByteReverse(g, i, j))
<1>1. Spared(h, m, g) /\ Stored(h, g) /\ Full(g, h.size) /\ g \in Block /\ h.size \in Nat
  BY ExposedSpared, StoredFacts DEF Stored
<1>2. ByteReverse(g, i, j) \in Block /\ Full(ByteReverse(g, i, j), h.size)
  BY <1>1, ByteReverseFull
<1>3. QED
  BY <1>2, FullSpared

\* a.reverse(): also when the pad bits come first on the way.
LEMMA ReversedContent ==
  ASSUME NEW o \in Objects, Holds(o)
  PROVE  /\ Spared(obj[o], Mem(o), Reversed(o))
         /\ \A i \in Nat : i < obj[o].nbits =>
              At(obj[o].endian, Reversed(o), i)
                = At(obj[o].endian, Mem(o), obj[o].nbits - 1 - i)
<1> DEFINE h == obj[o]
           m == Mem(o)
           n == h.nbits
           e == h.endian
           pad == PADBITS(n)
           whole == [h EXCEPT !.nbits = @ + pad]
           W == Room(h.size)
           f == [i \in 0 .. (whole.nbits - 1) |-> GetBit(whole, m, whole.nbits - 1 - i)]
           x == SetSpan(whole, m, 0, whole.nbits, f)
           y == CopyN(whole, x, 0, whole, x, pad, n)
<1>1. /\ Stored(h, m) /\ h \in Header /\ n \in Nat /\ e \in Endian /\ m \in Block
      /\ h.size \in Nat /\ W \in Nat /\ W <= Limit /\ Limit \in Nat /\ n <= W
      /\ h.size = BYTES(n)
  BY StoredFacts
     DEF Holds, Stored, GoodHeader, Consistent, HeaderOK, Proportionate
<1>2. pad \in Nat /\ n + pad = W
  <2>1. pad \in 0 .. (ByteBits - 1) /\ n + pad = W
    BY <1>1, PadFills DEF Room
  <2> HIDE DEF pad
  <2>2. QED
    BY <2>1, ByteBitsAssumption
<1>3. whole.endian = e /\ whole.nbits = W
  BY <1>1, <1>2 DEF Header
<1>4. Reversed(o) = y
  BY DEF Reversed
<1> HIDE DEF h, m, n, e, pad, whole, W
<1>5. \A i \in 0 .. (W - 1) : f[i] = At(e, m, W - 1 - i)
  BY <1>3 DEF GetBit, At
<1>6. \A i \in 0 .. (W - 1) : W - 1 - i \in Indices
  BY <1>1, IndicesFacts
<1>7. \A i \in 0 .. (W - 1) : f[i] \in Bit \union {Undef}
  BY <1>1, <1>5, <1>6, AtType
<1> HIDE DEF f
<1>8. x \in Block
  BY <1>1, <1>3, <1>7, SetSpanBlock
<1>9. ASSUME NEW i \in Nat, i < W PROVE At(e, x, i) = At(e, m, W - 1 - i)
  <2>1. i < Limit /\ 0 <= i /\ i < 0 + W /\ i - 0 = i /\ i \in 0 .. (W - 1)
    BY <1>1, <1>9
  <2>2. At(e, x, i) = f[i - 0]
    BY <1>1, <1>3, <2>1, SetSpanElements
  <2>3. QED
    BY <1>5, <2>1, <2>2
<1>10. ASSUME NEW i \in Nat, i < Limit
       PROVE  /\ 0 <= i /\ i < 0 + n => At(e, y, i) = At(e, x, pad + (i - 0))
              /\ i < 0 \/ 0 + n <= i => At(e, y, i) = At(e, x, i)
  <2> HIDE DEF x
  <2>1. QED
    BY <1>1, <1>2, <1>3, <1>8, <1>10, CopyNElements
<1>11. y \in Block
  <2> HIDE DEF x
  <2>1. pad + n <= Limit
    BY <1>1, <1>2
  <2>2. QED
    BY <1>1, <1>2, <1>3, <1>8, <2>1, CopyNBlock
<1> HIDE DEF x, y
<1>12. ASSUME NEW i \in Nat, i < n PROVE At(e, y, i) = At(e, m, n - 1 - i)
  <2>1. /\ 0 <= i /\ i < 0 + n /\ pad + (i - 0) \in Nat /\ pad + (i - 0) < W
        /\ W - 1 - (pad + (i - 0)) = n - 1 - i /\ i < Limit
    BY <1>1, <1>2, <1>12
  <2>2. QED
    BY <1>9, <1>10, <2>1
<1>13. ASSUME Clean(h, m) PROVE Clean(h, y)
  <2>1. ASSUME NEW i \in Nat, i < n PROVE At(e, y, i) \in Bit
    <3>1. n - 1 - i \in Nat /\ n - 1 - i < n
      BY <1>1, <2>1
    <3>2. At(e, m, n - 1 - i) \in Bit
      BY <1>13, <3>1 DEF Clean, n, e
    <3>3. QED
      BY <1>12, <2>1, <3>2
  <2>2. QED
    BY <2>1 DEF Clean, n, e
<1>14. ASSUME Full(m, h.size) PROVE Full(y, h.size)
  <2>1. \A i \in Indices : i < W => At(e, m, i) \in Bit
    BY <1>1, <1>14, FullAt DEF W
  <2>2. ASSUME NEW i \in Indices, i < W PROVE At(e, y, i) \in Bit
    <3>1. i \in Nat /\ i < Limit
      BY IndicesFacts
    <3>2. CASE i < n
      <4>1. n - 1 - i \in Nat /\ n - 1 - i < W
        BY <1>1, <3>1, <3>2
      <4>2. n - 1 - i \in Indices
        BY <1>1, <4>1, IndicesFacts
      <4>3. QED
        BY <1>12, <2>1, <3>1, <3>2, <4>1, <4>2
    <3>3. CASE n <= i
      <4>1. W - 1 - i \in Nat /\ W - 1 - i < W /\ 0 + n <= i
        BY <1>1, <2>2, <3>1, <3>3
      <4>2. W - 1 - i \in Indices
        BY <1>1, <4>1, IndicesFacts
      <4>3. At(e, y, i) = At(e, m, W - 1 - i)
        BY <1>9, <1>10, <2>2, <3>1, <4>1
      <4>4. QED
        BY <2>1, <4>1, <4>2, <4>3
    <3>4. QED
      BY <1>1, <3>1, <3>2, <3>3
  <2>3. QED
    BY <1>1, <2>2, FullAt DEF W
<1>15. QED
  BY <1>4, <1>11, <1>12, <1>13, <1>14 DEF Spared, h, m, n, e

\* a.fill(): the elements it adds are zeros.
LEMMA FilledContent ==
  ASSUME IInv, NEW o \in Objects, Holds(o), ~obj[o].readonly, NEW r \in Filled(o)
  PROVE  /\ Stored(r.h, r.m)
         /\ Ready(obj[o], Mem(o)) => Ready(r.h, r.m)
<1> DEFINE h == obj[o]
           m == Mem(o)
           n == h.nbits
           e == h.endian
           W == Room(h.size)
           x == SetPadbits(h, m)
           h2 == [h EXCEPT !.nbits = @ + PADBITS(@)]
<1>1. /\ Stored(h, m) /\ h \in Header /\ n \in Nat /\ e \in Endian /\ m \in Block
      /\ h.size \in Nat /\ W \in Nat /\ W <= Limit /\ Limit \in Nat
      /\ h.size = BYTES(n)
  BY StoredFacts
     DEF Holds, Stored, GoodHeader, Consistent, HeaderOK, Proportionate
<1>2. n + PADBITS(n) = W
  BY <1>1, PadFills DEF Room
<1>3. r = Outcome(None, h2, x)
  BY DEF Filled
<1>4. r.h = h2 /\ r.m = x
  BY <1>3 DEF Outcome
<1>5. Evolves(o, h, r.h)
  BY FilledEvolves
<1>6. /\ h2.nbits = W /\ h2.endian = e /\ h2.size = h.size
      /\ h2.exports = h.exports /\ h2.buffer = h.buffer
  BY <1>1, <1>2 DEF Header
<1> HIDE DEF h2
<1>7. /\ x \in Block
      /\ \A i \in Indices : At(e, x, i) = IF i \in n .. (W - 1) THEN 0 ELSE At(e, m, i)
  BY <1>1, SetPadbitsAt
<1>8. Spared(h, m, x)
  BY <1>1, PadbitsSpared
<1> HIDE DEF x
<1>9. Stored(r.h, r.m)
  BY <1>1, <1>4, <1>5, <1>6, <1>7 DEF Stored, Evolves
<1>10. ASSUME Ready(h, m) PROVE Ready(r.h, r.m)
  <2>1. Clean(h, m) /\ (Pinned(h) => Full(m, h.size))
    BY <1>10 DEF Ready
  <2>2. Pinned(h2) <=> Pinned(h)
    BY <1>6 DEF Pinned
  <2>3. Pinned(r.h) => Full(r.m, r.h.size)
    BY <1>4, <1>6, <1>8, <2>1, <2>2 DEF Spared
  <2>4. ASSUME NEW i \in Nat, i < W PROVE At(e, x, i) \in Bit
    <3>1. i \in Indices
      BY <1>1, <2>4, IndicesFacts
    <3>2. CASE i < n
      <4>1. ~ (i \in n .. (W - 1)) /\ At(e, m, i) \in Bit
        BY <1>1, <2>1, <3>2 DEF Clean
      <4>2. QED
        BY <1>7, <3>1, <4>1
    <3>3. CASE n <= i
      <4>1. i \in n .. (W - 1)
        BY <1>1, <2>4, <3>3
      <4>2. QED
        BY <1>7, <3>1, <4>1 DEF Bit
    <3>4. QED
      BY <1>1, <3>2, <3>3
  <2>5. QED
    BY <1>4, <1>6, <2>3, <2>4 DEF Ready, Clean
<1>11. QED
  BY <1>9, <1>10

-------------------------------------------------------------------------------
(***************************************************************************)
(* The invariant: what each array finds in the memory it uses.             *)
(***************************************************************************)
PadsZero(h, m) ==
  h.state = "live" /\ h.frozen /\ h.readonly => \A c \in PadCells(h) : m[c] = 0

\* Without memory errors nothing is garbage that could be seen.
Sound(h, m) == Stored(h, m) /\ PadsZero(h, m) /\ (~AllocFails => Ready(h, m))

CInv ==
  /\ Sharing
  /\ mem \in [Objects -> Block]
  /\ \A o \in Objects : Sound(obj[o], Mem(o))

\* What ReadonlyImmutable says of a step.
Unwritten ==
  \A q \in Objects : Stays(q) /\ obj[q].readonly => StillThere(Bits(q), Bits(q)')

\* The methods find the arrays as they expect them.
LEMMA CInvHolds ==
  ASSUME CInv, NEW o \in Objects
  PROVE  Holds(o)
BY DEF CInv, Sound, Holds

\* The allocator of an array's memory is an array.
LEMMA HomeObject ==
  ASSUME IInv, NEW o \in Objects
  PROVE  Home(o) \in Objects
BY DEF IInv, HeadersOK, Header, Home

\* An array whose buffer has no pad bits.
LEMMA NoPads ==
  ASSUME NEW h, NEW m, NEW m2, Stored(h, m), h.buffer # NoObject
  PROVE  PadsZero(h, m2)
<1>1. h.nbits = ByteBits * h.size /\ h.nbits \in Nat
  BY StoredFacts DEF Stored, GoodHeader, Consistent, HeaderOK, Proportionate
<1>2. PadCells(h) = {}
  BY <1>1 DEF PadCells
<1>3. QED
  BY <1>2 DEF PadsZero

\* A method keeps who shares memory with whom.
LEMMA MethodSharing ==
  ASSUME IInv, Sharing, NEW o \in Objects, NEW h2, Evolves(o, obj[o], h2),
         obj' = [obj EXCEPT ![o] = h2]
  PROVE  /\ Sharing'
         /\ \A q \in Objects : Home(q)' = Home(q)
         /\ obj'[o] = h2 /\ \A q \in Objects : q # o => obj'[q] = obj[q]
<1>1. obj \in [Objects -> Header] /\ o # NoObject
  BY NoObjectIsNone DEF IInv, HeadersOK
<1>2. obj'[o] = h2 /\ \A q \in Objects : q # o => obj'[q] = obj[q]
  BY <1>1
<1>3. /\ h2.state = obj[o].state /\ h2.buffer = obj[o].buffer /\ h2.readonly = obj[o].readonly
      /\ h2.item \in {NoObject, o, obj[o].item}
      /\ Pinned(obj[o]) => h2.item = obj[o].item /\ h2.size = obj[o].size
  BY DEF Evolves
<1>4. obj[o].item \notin {NoObject, o} => Pinned(obj[o])
  BY DEF Sharing, OwnItem, Pinned
<1>5. ASSUME NEW x \in Objects PROVE OwnItem(x)'
  BY <1>2, <1>3 DEF Sharing, OwnItem
<1>6. ASSUME NEW x \in Objects PROVE NewWritable(x)'
  BY <1>2, <1>3 DEF Sharing, NewWritable
<1>7. ASSUME NEW x \in Objects, NEW p \in Objects, obj'[x].item = p
      PROVE  /\ obj'[x].size = obj'[p].size
             /\ obj'[p].readonly => obj'[x].readonly
             /\ ~ReadonlyViews => (obj'[x].readonly => obj'[p].readonly)
  <2>1. p # NoObject
    BY NoObjectIsNone
  <2>2. ASSUME obj[x].item = p
        PROVE  /\ obj[x].size = obj[p].size
               /\ obj[p].readonly => obj[x].readonly
               /\ ~ReadonlyViews => (obj[x].readonly => obj[p].readonly)
    BY <2>2 DEF Sharing, Inherited
  <2>3. CASE x = p
    BY <2>3
  <2>4. CASE x = o /\ p # o
    <3>1. obj[o].item = p
      BY <1>2, <1>3, <1>7, <2>1, <2>4
    <3>2. Pinned(obj[o])
      BY <1>4, <2>1, <2>4, <3>1
    <3>3. QED
      BY <1>2, <1>3, <2>2, <2>4, <3>1, <3>2
  <2>5. CASE x # o /\ p = o
    <3>1. obj[x].item = o
      BY <1>2, <1>7, <2>5
    <3>2. Pinned(obj[o])
      BY <2>5, <3>1, ForeignItem DEF Pinned
    <3>3. QED
      BY <1>2, <1>3, <2>2, <2>5, <3>1, <3>2
  <2>6. CASE x # o /\ p # o
    BY <1>2, <1>7, <2>2, <2>6
  <2>7. QED
    BY <2>3, <2>4, <2>5, <2>6
<1>8. Sharing'
  BY <1>5, <1>6, <1>7 DEF Sharing, Inherited
<1>9. ASSUME NEW q \in Objects PROVE Home(q)' = Home(q)
  <2>1. CASE q # o
    BY <1>2, <2>1 DEF Home
  <2>2. CASE q = o
    BY <1>1, <1>2, <1>3, <1>4, <2>2 DEF Home
  <2>3. QED
    BY <2>1, <2>2
<1>10. QED
  BY <1>2, <1>8, <1>9

\* A method that leaves its own array sound leaves all of them sound: whoever
\* shares the memory is pinned as well and sees a buffer of the same size.
LEMMA MethodContent ==
  ASSUME IInv, CInv, NEW o \in Objects, NEW h2, NEW m2, Evolves(o, obj[o], h2),
         Stored(h2, m2), ~AllocFails /\ Ready(obj[o], Mem(o)) => Ready(h2, m2),
         obj[o].readonly => h2 = obj[o] /\ m2 = Mem(o),
         obj' = [obj EXCEPT ![o] = h2], mem' = [mem EXCEPT ![Home(o)] = m2]
  PROVE  CInv' /\ (~ReadonlyViews => Unwritten)
<1>1. /\ Sharing'
      /\ \A q \in Objects : Home(q)' = Home(q)
      /\ obj'[o] = h2 /\ \A q \in Objects : q # o => obj'[q] = obj[q]
  BY MethodSharing DEF CInv
<1>2. Home(o) \in Objects /\ m2 \in Block /\ mem \in [Objects -> Block]
  BY HomeObject DEF Stored, CInv
<1>3. mem' \in [Objects -> Block]
  BY <1>2
<1>4. \A q \in Objects : Mem(q)' = IF Home(q) = Home(o) THEN m2 ELSE Mem(q)
  <2>1. ASSUME NEW q \in Objects PROVE Mem(q)' = IF Home(q) = Home(o) THEN m2 ELSE Mem(q)
    <3>1. Home(q) \in Objects /\ Home(q)' = Home(q)
      BY <1>1, HomeObject
    <3>2. mem'[Home(q)] = IF Home(q) = Home(o) THEN m2 ELSE mem[Home(q)]
      BY <1>2, <3>1
    <3>3. QED
      BY <3>1, <3>2 DEF Mem
  <2>2. QED
    BY <2>1
<1>5. \A q \in Objects : Sound(obj[q], Mem(q))
  BY DEF CInv
<1>6. ASSUME NEW q \in Objects, q # o, Home(q) = Home(o)
      PROVE  /\ obj[q].item = obj[o].item
             /\ obj[q].size = obj[o].size
             /\ Pinned(obj[o]) /\ Pinned(obj[q])
             /\ ~ReadonlyViews => (obj[q].readonly <=> obj[o].readonly)
  BY <1>6, SharedMemory DEF CInv
<1>7. ASSUME NEW q \in Objects PROVE Sound(obj[q], Mem(q))'
  <2>1. CASE q = o
    <3>1. PadsZero(h2, m2)
      BY <1>5 DEF Sound, PadsZero, Evolves
    <3>2. Sound(h2, m2)
      BY <1>5, <3>1 DEF Sound
    <3>3. obj'[q] = h2 /\ Mem(q)' = m2
      BY <1>1, <1>4, <2>1
    <3>4. QED
      BY <3>2, <3>3
  <2>2. CASE q # o /\ Home(q) # Home(o)
    <3>1. obj'[q] = obj[q] /\ Mem(q)' = Mem(q)
      BY <1>1, <1>4, <2>2
    <3>2. QED
      BY <1>5, <3>1
  <2>3. CASE q # o /\ Home(q) = Home(o)
    <3>1. obj'[q] = obj[q] /\ Mem(q)' = m2 /\ Home(q) = Home(o)
      BY <1>1, <1>4, <2>3
    <3>2. Stored(obj[q], m2)
      BY <1>2, <1>5 DEF Sound, Stored
    <3>3. h2.size = obj[q].size /\ Pinned(h2)
      BY <1>6, <2>3 DEF Evolves, Pinned
    <3>4. ~AllocFails => Ready(obj[q], m2)
      <4>1. SUFFICES ASSUME ~AllocFails PROVE Ready(obj[q], m2)
        OBVIOUS
      <4>2. Ready(h2, m2)
        BY <1>5, <4>1 DEF Sound
      <4>3. Full(m2, obj[q].size)
        BY <3>3, <4>2 DEF Ready
      <4>4. QED
        BY <3>2, <4>3, FullClean DEF Ready
    <3>5. PadsZero(obj[q], m2)
      <4>1. CASE obj[o].readonly
        <5>1. m2 = Mem(q)
          BY <2>3, <4>1 DEF Mem
        <5>2. QED
          BY <1>5, <5>1 DEF Sound
      <4>2. CASE obj[q].buffer # NoObject
        BY <3>2, <4>2, NoPads
      <4>3. CASE ~obj[o].readonly /\ obj[q].buffer = NoObject
        <5>1. obj[o].item = q
          BY <1>6, <2>3, <4>3 DEF CInv, Sharing, OwnItem, Home
        <5>2. ~obj[q].readonly
          BY <4>3, <5>1 DEF CInv, Sharing, Inherited
        <5>3. QED
          BY <5>2 DEF PadsZero
      <4>4. QED
        BY <4>1, <4>2, <4>3
    <3>6. Sound(obj[q], m2)
      BY <3>2, <3>4, <3>5 DEF Sound
    <3>7. QED
      BY <3>1, <3>6
  <2>4. QED
    BY <2>1, <2>2, <2>3
<1>8. CInv'
  BY <1>1, <1>3, <1>7 DEF CInv
<1>9. ASSUME ~ReadonlyViews, NEW q \in Objects, obj[q].readonly PROVE Bits(q)' = Bits(q)
  <2>1. obj[o].readonly => h2 = obj[o] /\ m2 = Mem(o)
    OBVIOUS
  <2>2. CASE q = o
    <3>1. obj'[q] = obj[q] /\ Mem(q)' = Mem(q)
      BY <1>1, <1>4, <1>9, <2>1, <2>2
    <3>2. QED
      BY <3>1 DEF Bits
  <2>3. CASE q # o /\ Home(q) # Home(o)
    <3>1. obj'[q] = obj[q] /\ Mem(q)' = Mem(q)
      BY <1>1, <1>4, <2>3
    <3>2. QED
      BY <3>1 DEF Bits
  <2>4. CASE q # o /\ Home(q) = Home(o)
    <3>1. obj[o].readonly
      BY <1>6, <1>9, <2>4
    <3>2. m2 = Mem(q)
      BY <2>1, <2>4, <3>1 DEF Mem
    <3>3. obj'[q] = obj[q] /\ Mem(q)' = Mem(q)
      BY <1>1, <1>4, <2>4, <3>2
    <3>4. QED
      BY <3>3 DEF Bits
  <2>5. QED
    BY <2>2, <2>3, <2>4
<1>10. QED
  BY <1>8, <1>9 DEF Unwritten, StillThere

-------------------------------------------------------------------------------
(***************************************************************************)
(* The steps of the methods.                                               *)
(***************************************************************************)
\* What a step does: only a read-only view of a writable array lets the elements
\* of a read-only array change.
ContentStep == CInv' /\ (~ReadonlyViews => Unwritten)

\* What the outcome r of a method of o is.
Leaves(o, r) ==
  /\ Evolves(o, obj[o], r.h)
  /\ Stored(r.h, r.m)
  /\ ~AllocFails /\ Ready(obj[o], Mem(o)) => Ready(r.h, r.m)

\* A method that ends with such an outcome.
LEMMA EndsContent ==
  ASSUME IInv, CInv, NEW o \in Objects, Writable(o), NEW outcomes, Ends(o, outcomes),
         \A r \in outcomes : Leaves(o, r)
  PROVE  ContentStep
<1>1. PICK r \in outcomes : Commit(o, r)
  BY DEF Ends
<1>2. obj' = [obj EXCEPT ![o] = r.h] /\ mem' = [mem EXCEPT ![Home(o)] = r.m]
  BY <1>1 DEF Commit
<1>3. Leaves(o, r)
  BY <1>1
<1> DEFINE h2 == r.h
           m2 == r.m
<1>4. /\ Evolves(o, obj[o], h2) /\ Stored(h2, m2)
      /\ ~AllocFails /\ Ready(obj[o], Mem(o)) => Ready(h2, m2)
      /\ obj' = [obj EXCEPT ![o] = h2] /\ mem' = [mem EXCEPT ![Home(o)] = m2]
      /\ obj[o].readonly => h2 = obj[o] /\ m2 = Mem(o)
  BY <1>2, <1>3 DEF Leaves, Writable
<1> HIDE DEF h2, m2
<1>5. QED
  BY <1>4, MethodContent DEF ContentStep

\* A method that only writes to the buffer.
LEMMA WritesContent ==
  ASSUME IInv, CInv, NEW o \in Objects, NEW m, Writes(o, m), Spared(obj[o], Mem(o), m),
         obj[o].readonly => m = Mem(o)
  PROVE  ContentStep
<1>1. PICK r \in {Outcome(None, obj[o], m)} : Commit(o, r)
  BY DEF Writes, Ends
<1>2. obj' = [obj EXCEPT ![o] = r.h] /\ mem' = [mem EXCEPT ![Home(o)] = r.m]
  BY <1>1 DEF Commit
<1>3. r.h = obj[o] /\ r.m = m
  BY DEF Outcome
<1>4. Stored(obj[o], Mem(o)) /\ Evolves(o, obj[o], obj[o])
  BY CInvHolds, IInvFacts, EvolvesReflexive DEF Holds
<1>5. Stored(obj[o], m) /\ (Ready(obj[o], Mem(o)) => Ready(obj[o], m))
  BY <1>4, SparedReady
<1> DEFINE h2 == obj[o]
<1>6. /\ Evolves(o, obj[o], h2) /\ Stored(h2, m)
      /\ ~AllocFails /\ Ready(obj[o], Mem(o)) => Ready(h2, m)
      /\ obj' = [obj EXCEPT ![o] = h2] /\ mem' = [mem EXCEPT ![Home(o)] = m]
      /\ obj[o].readonly => h2 = obj[o] /\ m = Mem(o)
  BY <1>2, <1>3, <1>4, <1>5
<1> HIDE DEF h2
<1>7. QED
  BY <1>6, MethodContent DEF ContentStep

\* Methods that resize.
LEMMA ResizingContent ==
  ASSUME IInv, CInv, NEW o \in Objects, Resizing(o)
  PROVE  ContentStep
<1>1. /\ MaxItems \in Nat
      /\ \A i \in 0 .. MaxBits : i \in Nat
      /\ \A i \in 0 .. (MaxBits - 1) : i \in Nat
  BY CallersAssumption
<1>2. \A q \in Objects : Holds(q) /\ (~AllocFails => Clean(obj[q], Mem(q)))
  BY CInvHolds DEF CInv, Sound, Ready
<1>3. ASSUME NEW v \in Bit, Append(o, v) PROVE ContentStep
  <2>1. Writable(o) /\ Fits(obj[o].nbits + 1) /\ Ends(o, Appended(o, v))
    BY <1>3 DEF Append
  <2>2. \A r \in Appended(o, v) : Leaves(o, r)
    BY <1>2, <2>1, AppendedEvolves, AppendedContent DEF Leaves
  <2>3. QED
    BY <2>1, <2>2, EndsContent
<1>4. ASSUME NEW v \in Bit, NEW i \in Nat, Insert(o, i, v) PROVE ContentStep
  <2>1. /\ Writable(o) /\ i <= obj[o].nbits /\ Fits(obj[o].nbits + 1)
        /\ Ends(o, Inserted(o, i, v))
    BY <1>4 DEF Insert
  <2>2. \A r \in Inserted(o, i, v) : Leaves(o, r)
    BY <1>2, <2>1, InsertedEvolves, InsertedContent DEF Leaves, Result
  <2>3. QED
    BY <2>1, <2>2, EndsContent
<1>5. ASSUME NEW i \in Nat, Pop(o, i) PROVE ContentStep
  <2>1. Writable(o) /\ i < obj[o].nbits /\ Ends(o, Popped(o, i))
    BY <1>5 DEF Pop
  <2>2. \A r \in Popped(o, i) : Leaves(o, r)
    BY <1>2, <2>1, PoppedEvolves, PoppedContent DEF Leaves, Result
  <2>3. QED
    BY <2>1, <2>2, EndsContent
<1>6. ASSUME Clear(o) PROVE ContentStep
  <2>1. Writable(o) /\ Ends(o, Resized(o, 0))
    BY <1>6 DEF Clear
  <2>2. ASSUME NEW r \in Resized(o, 0) PROVE Leaves(o, r)
    <3>1. r \in Resize(o, obj[o], Mem(o), 0) /\ Stored(obj[o], Mem(o)) /\ 0 <= Limit
      BY <1>2, <2>2, IndicesFacts DEF Resized, Holds
    <3>2. Result(obj[o], r, 0) /\ Refused(obj[o], Mem(o), r)
      BY <3>1, ResizeResult
    <3>3. r.err = None => Clean(r.h, r.m)
      BY <3>2 DEF Result, Clean
    <3>4. ~AllocFails /\ Ready(obj[o], Mem(o)) => Ready(r.h, r.m)
      BY <3>2, <3>3, RefusedReady
    <3>5. Evolves(o, obj[o], r.h)
      BY <2>2, ResizedEvolves
    <3>6. QED
      BY <3>2, <3>4, <3>5 DEF Leaves, Result
  <2>3. QED
    BY <2>1, <2>2, EndsContent
<1>7. ASSUME NEW k \in Nat, NEW u \in Nat, NEW f \in Items(u), u <= k,
             ExtendSequence(o, f, k)
      PROVE  ContentStep
  <2>1. /\ Writable(o) /\ Fits(obj[o].nbits + k)
        /\ Ends(o, ExtendedBySequence(o, f, k))
    BY <1>7 DEF ExtendSequence, CanTake
  <2>2. \A r \in ExtendedBySequence(o, f, k) : Leaves(o, r)
    BY <1>2, <1>7, <2>1, ExtendedBySequenceEvolves, ExtendedBySequenceContent DEF Leaves
  <2>3. QED
    BY <2>1, <2>2, EndsContent
<1>8. ASSUME NEW k \in Nat, NEW u \in Nat, NEW f \in Items(u), u <= k,
             ExtendSequenceError(o, f, k)
      PROVE  ContentStep
  <2>1. Writable(o) /\ Fits(obj[o].nbits + k) /\ Ends(o, FailedSequence(o, f, k))
    BY <1>8 DEF ExtendSequenceError, CanTake
  <2>2. ASSUME NEW r \in FailedSequence(o, f, k) PROVE Leaves(o, r)
    <3>1. Restored(obj[o], Mem(o), r)
      BY <1>2, <1>8, <2>1, <2>2, FailedSequenceContent
    <3>2. ~AllocFails /\ Ready(obj[o], Mem(o)) => Ready(r.h, r.m)
      BY <3>1, RestoredReady
    <3>3. Evolves(o, obj[o], r.h)
      BY <2>2, FailedSequenceEvolves
    <3>4. QED
      BY <3>1, <3>2, <3>3 DEF Leaves, Restored
  <2>3. QED
    BY <2>1, <2>2, EndsContent
<1>9. ASSUME ExtendIterError(o) PROVE ContentStep
  <2>1. Writable(o) /\ Fits(obj[o].nbits + 1) /\ Ends(o, FailedIter(o))
    BY <1>9 DEF ExtendIterError, CanTake
  <2>2. ASSUME NEW r \in FailedIter(o) PROVE Leaves(o, r)
    <3>1. Restored(obj[o], Mem(o), r)
      BY <1>2, <2>1, <2>2, FailedIterContent
    <3>2. ~AllocFails /\ Ready(obj[o], Mem(o)) => Ready(r.h, r.m)
      BY <3>1, RestoredReady
    <3>3. Evolves(o, obj[o], r.h)
      BY <2>2, FailedIterEvolves
    <3>4. QED
      BY <3>1, <3>2, <3>3 DEF Leaves, Restored
  <2>3. QED
    BY <2>1, <2>2, EndsContent
<1>10. ASSUME NEW p \in Objects, Extend(o, p) PROVE ContentStep
  <2>1. /\ Writable(o) /\ Fits(obj[o].nbits + obj[p].nbits)
        /\ Ends(o, Extended(o, p))
    BY <1>10 DEF Extend, CanExtend
  <2>2. \A r \in Extended(o, p) : Leaves(o, r)
    BY <1>2, <2>1, ExtendedEvolves, ExtendedContent DEF Leaves, Result
  <2>3. QED
    BY <2>1, <2>2, EndsContent
<1>11. ASSUME NEW p \in Objects, FromBytes(o, p) PROVE ContentStep
  <2>1. /\ Writable(o) /\ Fits(ByteBits * (obj[o].size + obj[p].size))
        /\ \E g \in Exposed(obj[p], Mem(p)) : Ends(o, ExtendedByBytes(o, p, g))
    BY <1>11 DEF FromBytes
  <2>2. PICK g \in Exposed(obj[p], Mem(p)) : Ends(o, ExtendedByBytes(o, p, g))
    BY <2>1
  <2>3. \A r \in ExtendedByBytes(o, p, g) : Leaves(o, r)
    BY <1>2, <2>1, ExtendedByBytesEvolves, ExtendedByBytesContent DEF Leaves
  <2>4. QED
    BY <2>1, <2>2, <2>3, EndsContent
<1>12. ASSUME NEW p \in Objects, Pack(o, p) PROVE ContentStep
  <2>1. /\ Writable(o) /\ Fits(obj[o].nbits + obj[p].size)
        /\ \E g \in Exposed(obj[p], Mem(p)) : Ends(o, Packed(o, p, g))
    BY <1>12 DEF Pack
  <2>2. PICK g \in Exposed(obj[p], Mem(p)) : Ends(o, Packed(o, p, g))
    BY <2>1
  <2>3. \A r \in Packed(o, p, g) : Leaves(o, r)
    BY <1>2, <2>1, PackedEvolves, PackedContent DEF Leaves
  <2>4. QED
    BY <2>1, <2>2, <2>3, EndsContent
<1>13. ASSUME NEW k \in Nat, Repeat(o, k) PROVE ContentStep
  <2>1. Writable(o) /\ Fits(obj[o].nbits * k) /\ Ends(o, Repeated(o, k))
    BY <1>13 DEF Repeat
  <2>2. ASSUME NEW r \in Repeated(o, k) PROVE Leaves(o, r)
    <3>1. /\ Stored(r.h, r.m)
          /\ ~AllocFails /\ Ready(obj[o], Mem(o)) => Ready(r.h, r.m)
      BY <1>2, <2>1, <2>2, RepeatedContent
    <3>2. Evolves(o, obj[o], r.h)
      BY <2>2, RepeatedEvolves
    <3>3. QED
      BY <3>1, <3>2 DEF Leaves
  <2>3. QED
    BY <2>1, <2>2, EndsContent
<1>14. ASSUME NEW k \in Nat, NEW f \in Items(2 * k), EncodeIxyz(o, f, k) PROVE ContentStep
  <2>1. Writable(o) /\ Fits(2 * k) /\ Ends(o, EncodedIxyz(o, f, k))
    BY <1>14 DEF EncodeIxyz
  <2>2. \A r \in EncodedIxyz(o, f, k) : Leaves(o, r)
    BY <1>2, <2>1, EncodedIxyzEvolves, EncodedIxyzContent DEF Leaves
  <2>3. QED
    BY <2>1, <2>2, EndsContent
<1>15. ASSUME NEW p \in Objects, NEW i \in Nat, NEW j \in Nat, SetSlice(o, p, i, j)
       PROVE  ContentStep
  <2>1. /\ Writable(o) /\ i <= j /\ j <= obj[o].nbits
        /\ Fits(obj[o].nbits + obj[p].nbits - (j - i))
        /\ Ends(o, SliceAssigned(o, p, i, j))
    BY <1>15 DEF SetSlice, CanSetSlice
  <2>2. \A r \in SliceAssigned(o, p, i, j) : Leaves(o, r)
    <3>1. Sharing
      BY DEF CInv
    <3>2. QED
      BY <1>2, <2>1, <3>1, SliceAssignedEvolves, SliceAssignedContent DEF Leaves, Result
  <2>3. QED
    BY <2>1, <2>2, EndsContent
<1>16. QED
  <2>1. /\ \A k \in 1 .. MaxItems : k \in Nat
        /\ \A k \in 0 .. MaxItems : k \in Nat
        /\ \A k \in 0 .. (MaxItems + 1) : k \in Nat
        /\ \A k \in 1 .. (MaxItems + 1), u \in 0 .. MaxItems :
             k \in Nat /\ u \in Nat /\ (u < k => u <= k)
    BY <1>1
  <2>2. QED
    BY <1>1, <1>3, <1>4, <1>5, <1>6, <1>7, <1>8, <1>9, <1>10, <1>11, <1>12, <1>13,
       <1>14, <1>15, <2>1 DEF Resizing

\* Methods that write in place.
LEMMA InPlaceContent ==
  ASSUME IInv, CInv, NEW o \in Objects, InPlace(o)
  PROVE  ContentStep
<1> DEFINE h == obj[o]
           m == Mem(o)
<1>1. \A q \in Objects : Holds(q)
  BY CInvHolds
<1>2. Stored(h, m) /\ h.nbits \in Nat
  BY <1>1, StoredFacts DEF Holds
<1>3. ASSUME NEW v \in Bit, NEW i \in 0 .. (MaxBits - 1), SetItem(o, i, v) PROVE ContentStep
  <2>1. Writable(o) /\ i < h.nbits /\ Writes(o, SetBit(h, m, i, v)) /\ i \in Nat
    BY <1>3 DEF SetItem
  <2>2. QED
    BY <1>2, <2>1, SetItemContent, WritesContent DEF Writable
<1>4. ASSUME NEW v \in Bit, SetAll(o, v) PROVE ContentStep
  <2> DEFINE x == [c \in Cells |-> IF c < ByteBits * obj[o].size THEN v ELSE Mem(o)[c]]
  <2>1. Writable(o) /\ Writes(o, x)
    BY <1>4 DEF SetAll
  <2>2. Spared(obj[o], Mem(o), x)
    BY <1>1, SetAllSpared, Zenon
  <2> HIDE DEF x
  <2>3. QED
    BY <2>1, <2>2, WritesContent DEF Writable
<1>5. ASSUME Invert(o) PROVE ContentStep
  BY <1>1, <1>5, InvertSpared, WritesContent DEF Invert, Writable
<1>6. ASSUME Fill(o) PROVE ContentStep
  <2>1. Writable(o) /\ Ends(o, Filled(o)) /\ ~obj[o].readonly
    BY <1>6 DEF Fill, Writable
  <2>2. \A r \in Filled(o) : Leaves(o, r)
    BY <1>1, <2>1, FilledEvolves, FilledContent DEF Leaves
  <2>3. QED
    BY <2>1, <2>2, EndsContent
<1>7. ASSUME Reverse(o) PROVE ContentStep
  BY <1>1, <1>7, ReversedContent, WritesContent DEF Reverse, Writable
<1>8. ASSUME NEW p \in Objects, NEW oper \in Operators, Bitwise(o, p, oper) PROVE ContentStep
  <2>1. Writable(o) /\ obj[p].nbits = obj[o].nbits
    BY <1>8 DEF Bitwise
  <2> DEFINE x(g, k) == [c \in Cells |-> IF c < ByteBits * obj[o].size
                                         THEN Combined(oper, g[c], k[c]) ELSE Mem(o)[c]]
  <2>2. \E g \in Exposed(obj[o], Mem(o)), k \in Exposed(obj[p], Mem(p)) : Writes(o, x(g, k))
    BY <1>8, Zenon DEF Bitwise
  <2>3. \A g \in Exposed(obj[o], Mem(o)), k \in Exposed(obj[p], Mem(p)) :
          Spared(obj[o], Mem(o), x(g, k))
    BY <1>1, <2>1, BitwiseSpared, Zenon
  <2> HIDE DEF x
  <2>4. PICK g \in Exposed(obj[o], Mem(o)), k \in Exposed(obj[p], Mem(p)) : Writes(o, x(g, k))
    BY <2>2
  <2>5. QED
    BY <2>1, <2>3, <2>4, WritesContent DEF Writable
<1>9. ASSUME NEW n \in Nat, NEW b, Shift(o, n, b) PROVE ContentStep
  <2> DEFINE zeros == [i \in 0 .. (n - 1) |-> 0]
             x == SetSpan(h, CopyN(h, m, n, h, m, 0, h.nbits - n), 0, n, zeros)
             y == SetSpan(h, CopyN(h, m, 0, h, m, n, h.nbits - n), h.nbits - n, n, zeros)
  <2>1. /\ Writable(o) /\ n <= h.nbits
        /\ Writes(o, IF b THEN x ELSE y)
    BY <1>9 DEF Shift
  <2>2. Spared(h, m, x) /\ Spared(h, m, y)
    BY <1>2, <2>1, ShiftSpared
  <2> HIDE DEF x, y
  <2>3. Spared(h, m, IF b THEN x ELSE y)
    BY <2>2
  <2>4. QED
    BY <2>1, <2>3, WritesContent DEF Writable
<1>10. ASSUME NEW k \in Nat, Rotate(o, k) PROVE ContentStep
  <2>1. Writable(o) /\ k < obj[o].nbits
    BY <1>10 DEF Rotate
  <2>2. Writes(o, SetSpan(obj[o], Mem(o), 0, obj[o].nbits,
                          [i \in DOMAIN Bits(o) |->
                             Bits(o)[(i - k + obj[o].nbits) % obj[o].nbits]]))
    BY <1>10 DEF Rotate
  <2>3. QED
    BY <1>1, <2>1, <2>2, RotateSpared, WritesContent DEF Writable
<1>11. ASSUME NEW b, Sort(o, b) PROVE ContentStep
  <2>1. Writable(o)
    BY <1>11 DEF Sort
  <2> DEFINE cnt1(g) == Cardinality({i \in DOMAIN Elements(h, g) : Elements(h, g)[i] = 1})
             one(g, i) == IF b THEN i < cnt1(g) ELSE i >= h.nbits - cnt1(g)
             f(g) == [i \in DOMAIN Elements(h, g) |-> IF one(g, i) THEN 1 ELSE 0]
  <2>2. PICK g \in Exposed(h, m) : Writes(o, SetSpan(h, g, 0, h.nbits, f(g)))
    BY <1>11 DEF Sort
  <2>3. \A i \in 0 .. (h.nbits - 1) : f(g)[i] \in Bit
    <3>1. DOMAIN Elements(h, g) = 0 .. (h.nbits - 1)
      BY DEF Elements
    <3> HIDE DEF one
    <3>2. QED
      BY <3>1 DEF Bit
  <2> HIDE DEF f
  <2>4. QED
    BY <1>2, <2>1, <2>2, <2>3, SortSpared, WritesContent DEF Writable
<1>12. ASSUME NEW i, NEW j, Bytereverse(o, i, j) PROVE ContentStep
  <2>1. /\ Writable(o)
        /\ \E g \in Exposed(h, m) : Writes(o, ByteReverse(g, i, j))
    BY <1>12 DEF Bytereverse
  <2>2. PICK g \in Exposed(h, m) : Writes(o, ByteReverse(g, i, j))
    BY <2>1
  <2>3. QED
    BY <1>2, <2>1, <2>2, BytereverseSpared, WritesContent DEF Writable
<1>13. ASSUME ToBytes(o) PROVE ContentStep
  BY <1>2, <1>13, PadbitsSpared, WritesContent DEF ToBytes, SetPadbits
<1>14. QED
  <2>1. /\ \A k \in 0 .. MaxBits : k \in Nat
        /\ \A k \in 1 .. MaxBits : k \in Nat
    OBVIOUS
  <2>2. QED
    BY <1>3, <1>4, <1>5, <1>6, <1>7, <1>8, <1>9, <1>10, <1>11, <1>12, <1>13, <2>1
       DEF InPlace

-------------------------------------------------------------------------------
(***************************************************************************)
(* The steps that create and destroy arrays.                               *)
(***************************************************************************)
\* A new array does not disturb the others.
LEMMA CreatedContent ==
  ASSUME IInv, CInv, NEW o \in Objects, Unborn(o), NEW h, Fresh(o, h), NEW m, Stored(h, m),
         ~AllocFails => Clean(h, m), PadsZero(h, m), h.state = "new" => ~h.readonly,
         obj' = [obj EXCEPT ![o] = h], mem' = [mem EXCEPT ![o] = m]
  PROVE  ContentStep
<1>1. /\ obj \in [Objects -> Header] /\ o # NoObject
      /\ mem \in [Objects -> Block] /\ m \in Block
  BY NoObjectIsNone DEF IInv, HeadersOK, CInv, Stored
<1>2. /\ obj'[o] = h /\ \A q \in Objects : q # o => obj'[q] = obj[q]
      /\ mem'[o] = m /\ \A q \in Objects : q # o => mem'[q] = mem[q]
      /\ mem' \in [Objects -> Block]
  BY <1>1
<1>3. /\ h.exports = 0 /\ h.buffer = NoObject /\ h.item \in {NoObject, o}
      /\ GoodHeader(h)
  BY DEF Fresh
<1>4. \A q \in Objects : obj[q].item # o
  BY DEF IInv, ImportsValid
<1>5. \A q \in Objects : q # o => /\ Home(q) # o
                                  /\ Home(q)' = Home(q)
                                  /\ Mem(q)' = Mem(q)
  <2>1. ASSUME NEW q \in Objects, q # o PROVE Home(q) # o /\ Home(q)' = Home(q)
    BY <1>2, <1>4, <2>1 DEF Home
  <2>2. ASSUME NEW q \in Objects, q # o PROVE Mem(q)' = Mem(q)
    BY <1>2, <2>1, <2>2, HomeObject DEF Mem
  <2>3. QED
    BY <2>1, <2>2
<1>6. Home(o)' = o /\ Mem(o)' = m
  BY <1>2, <1>3 DEF Home, Mem
<1>7. ASSUME NEW x \in Objects PROVE OwnItem(x)' /\ NewWritable(x)'
  BY <1>2, <1>3 DEF CInv, Sharing, OwnItem, NewWritable
<1>8. ASSUME NEW x \in Objects PROVE Inherited(x)'
  <2>1. ASSUME NEW p \in Objects, obj'[x].item = p
        PROVE  /\ obj'[x].size = obj'[p].size
               /\ obj'[p].readonly => obj'[x].readonly
               /\ ~ReadonlyViews => (obj'[x].readonly => obj'[p].readonly)
    <3>1. p # NoObject
      BY NoObjectIsNone
    <3>2. CASE x = o
      BY <1>2, <1>3, <2>1, <3>1, <3>2
    <3>3. CASE x # o
      <4>1. obj[x].item = p /\ p # o
        BY <1>2, <1>4, <2>1, <3>3
      <4>2. Inherited(x)
        BY DEF CInv, Sharing
      <4>3. QED
        BY <1>2, <3>3, <4>1, <4>2 DEF Inherited
    <3>4. QED
      BY <3>2, <3>3
  <2>2. QED
    BY <2>1 DEF Inherited
<1>9. Sharing'
  BY <1>7, <1>8 DEF Sharing
<1>10. ASSUME NEW q \in Objects PROVE Sound(obj[q], Mem(q))'
  <2>1. CASE q # o
    <3>1. Sound(obj[q], Mem(q))
      BY DEF CInv
    <3>2. obj'[q] = obj[q] /\ Mem(q)' = Mem(q)
      BY <1>2, <1>5, <2>1
    <3>3. QED
      BY <3>1, <3>2
  <2>2. CASE q = o
    <3>1. ~Pinned(h)
      BY <1>3 DEF Pinned
    <3>2. Sound(h, m)
      BY <3>1 DEF Sound, Ready
    <3>3. obj'[q] = h /\ Mem(q)' = m
      BY <1>2, <1>6, <2>2
    <3>4. QED
      BY <3>2, <3>3
  <2>3. QED
    BY <2>1, <2>2
<1>11. ASSUME NEW q \in Objects, Stays(q) PROVE Bits(q)' = Bits(q)
  <2>1. q # o
    BY <1>11 DEF Stays, Live, Unborn
  <2>2. obj'[q] = obj[q] /\ Mem(q)' = Mem(q)
    BY <1>2, <1>5, <2>1
  <2>3. QED
    BY <2>2 DEF Bits
<1>12. QED
  BY <1>2, <1>9, <1>10, <1>11 DEF ContentStep, CInv, Unwritten, StillThere

\* A new object of n bits, whose memory holds m.
LEMMA NewStored ==
  ASSUME NEW o \in Objects, NEW fz \in BOOLEAN, NEW e \in Endian, NEW n \in Nat, n <= Limit,
         NEW m \in Block
  PROVE  /\ Stored(NewObject(o, fz, e, n), m)
         /\ Fresh(o, NewObject(o, fz, e, n))
         /\ NewObject(o, fz, e, n).endian = e
         /\ NewObject(o, fz, e, n).nbits = n
         /\ NewObject(o, fz, e, n).size = BYTES(n)
         /\ NewObject(o, fz, e, n).frozen = fz
         /\ NewObject(o, fz, e, n).state = "live"
         /\ ~NewObject(o, fz, e, n).readonly
<1>1. Fresh(o, NewObject(o, fz, e, n))
  BY NewObjectFresh DEF Endian
<1>2. /\ NewObject(o, fz, e, n).endian = e
      /\ NewObject(o, fz, e, n).nbits = n
      /\ NewObject(o, fz, e, n).size = BYTES(n)
      /\ NewObject(o, fz, e, n).frozen = fz
      /\ NewObject(o, fz, e, n).state = "live"
      /\ ~NewObject(o, fz, e, n).readonly
  BY DEF NewObject
<1>3. QED
  BY <1>1, <1>2 DEF Fresh, Stored

\* An object whose __init__ has not run differs in its state only.
LEMMA BegunStored ==
  ASSUME NEW o \in Objects, NEW h, Fresh(o, h), NEW m, Stored(h, m), ~h.readonly
  PROVE  /\ Fresh(o, Begun(h)) /\ Stored(Begun(h), m)
         /\ ~Begun(h).readonly
         /\ Begun(h).endian = h.endian
         /\ Begun(h).nbits = h.nbits
         /\ PadsZero(Begun(h), m)
<1>1. Fresh(o, Begun(h))
  BY BegunFresh
<1>2. h \in Header
  BY DEF Stored, GoodHeader
<1>3. ~Begun(h).readonly /\ Begun(h).endian = h.endian /\ Begun(h).nbits = h.nbits
  BY <1>2 DEF Begun, Header
<1>4. QED
  BY <1>1, <1>3 DEF Fresh, Stored, PadsZero

\* Memory full of bits, cut off behind n bytes.
LEMMA KeptClean ==
  ASSUME NEW h, NEW m \in [Cells -> Bit], Stored(h, m)
  PROVE  Stored(h, Keep(m, h.size)) /\ Clean(h, Keep(m, h.size))
<1>1. /\ h.endian \in Endian /\ h.nbits \in Nat /\ h.size \in Nat /\ m \in Block
      /\ h.nbits <= Room(h.size) /\ Room(h.size) <= Limit /\ Limit \in Nat
      /\ Room(h.size) \in Nat
  BY StoredFacts
<1>2. /\ Keep(m, h.size) \in Block
      /\ \A i \in Nat : i < Room(h.size) /\ i < Limit =>
           At(h.endian, Keep(m, h.size), i) = At(h.endian, m, i)
  BY <1>1, KeepAt
<1>3. ASSUME NEW i \in Nat, i < h.nbits PROVE At(h.endian, Keep(m, h.size), i) \in Bit
  <2>1. i < Room(h.size) /\ i < Limit /\ i \in Indices
    BY <1>1, <1>3, IndicesFacts
  <2>2. Pos(h.endian, i) \in Cells
    BY <1>1, <2>1, IndicesFacts
  <2>3. At(h.endian, m, i) \in Bit
    BY <2>2 DEF At
  <2>4. QED
    BY <1>2, <2>1, <2>3
<1>4. QED
  BY <1>2, <1>3 DEF Stored, Clean

\* Memory of bits.
LEMMA BitsBlock == ASSUME NEW m \in [Cells -> Bit] PROVE m \in Block
BY DEF Block

\* pauliebits(n)
LEMMA NewFromIndexContent ==
  ASSUME IInv, CInv, NEW o \in Objects, NEW fz \in BOOLEAN, NEW e \in Endian, NEW n \in Nat,
         n <= Limit, NEW m, NewFromIndex(o, fz, e, n, m)
  PROVE  ContentStep
<1> DEFINE h == NewObject(o, fz, e, n)
           x == Keep(m, h.size)
<1>1. /\ Unborn(o) /\ m \in [Cells -> Bit]
      /\ obj' = [obj EXCEPT ![o] = Begun(h)]
      /\ mem' = [mem EXCEPT ![o] = x]
  BY DEF NewFromIndex
<1>2. Stored(h, m) /\ Fresh(o, h) /\ ~h.readonly
  BY <1>1, NewStored, BitsBlock
<1> HIDE DEF h
<1>3. Stored(h, x) /\ Clean(h, x)
  BY <1>1, <1>2, KeptClean
<1> HIDE DEF x
<1>4. /\ Fresh(o, Begun(h)) /\ Stored(Begun(h), x) /\ ~Begun(h).readonly
      /\ PadsZero(Begun(h), x)
      /\ Begun(h).endian = h.endian /\ Begun(h).nbits = h.nbits
  BY <1>2, <1>3, BegunStored
<1>5. Clean(Begun(h), x)
  BY <1>3, <1>4 DEF Clean
<1>6. QED
  BY <1>1, <1>4, <1>5, CreatedContent

\* pauliebits(p)
LEMMA NewFromPauliebitsContent ==
  ASSUME IInv, CInv, NEW o \in Objects, NEW fz \in BOOLEAN, NEW e \in Endian,
         NEW p \in Objects, NewFromPauliebits(o, fz, e, p)
  PROVE  ContentStep
<1> DEFINE h == NewObject(o, fz, e, 0)
           h2 == obj[p]
           m2 == Mem(p)
           k == h2.nbits
           x(r) == CopyN(r.h, r.m, 0, h2, m2, 0, k)
<1>1. Stored(h2, m2) /\ (~AllocFails => Clean(h2, m2))
  BY DEF CInv, Sound, Ready
<1>2. /\ k \in Nat /\ k <= Limit /\ Limit \in Nat /\ h2.endian \in Endian /\ m2 \in Block
      /\ 0 <= Limit
  BY <1>1, StoredFacts DEF Stored
<1>3. Stored(h, Blank) /\ Fresh(o, h) /\ ~h.readonly /\ h.endian = e
  BY <1>2, NewStored, BlankBlock
<1>4. /\ Unborn(o)
      /\ \E r \in Resize(o, h, Blank, k) :
           /\ r.err = None
           /\ obj' = [obj EXCEPT ![o] = Begun(r.h)]
           /\ mem' = [mem EXCEPT ![o] = x(r)]
  BY DEF NewFromPauliebits
<1> HIDE DEF h, h2, m2, k, x
<1>5. PICK r \in Resize(o, h, Blank, k) :
           /\ r.err = None
           /\ obj' = [obj EXCEPT ![o] = Begun(r.h)]
           /\ mem' = [mem EXCEPT ![o] = x(r)]
  BY <1>4
<1>6. /\ Stored(r.h, r.m) /\ r.h.endian = e /\ r.h.nbits = k /\ r.m \in Block
      /\ e \in Endian
  BY <1>2, <1>3, <1>5, ResizeResult DEF Result, Stored
<1>7. Evolves(o, h, r.h)
  BY <1>2, <1>3, <1>5, ResizeEvolves DEF Stored
<1>8. Fresh(o, r.h) /\ ~r.h.readonly
  BY <1>3, <1>7, EvolvesFresh DEF Evolves
<1> DEFINE y == x(r)
<1>9. y \in Block
  <2>1. 0 + k <= Limit
    BY <1>2
  <2>2. QED
    BY <1>2, <1>6, <2>1, CopyNBlock DEF x
<1>10. ASSUME NEW i \in Nat, i < k PROVE At(e, y, i) = At(h2.endian, m2, i)
  <2>1. i < Limit /\ 0 <= i /\ i < 0 + k /\ 0 + (i - 0) = i
    BY <1>2, <1>10
  <2>2. At(e, y, i) = At(h2.endian, m2, 0 + (i - 0))
    BY <1>2, <1>6, <2>1, CopyNElements DEF x
  <2>3. QED
    BY <2>1, <2>2
<1>11. obj' = [obj EXCEPT ![o] = Begun(r.h)] /\ mem' = [mem EXCEPT ![o] = y]
  BY <1>5
<1> HIDE DEF y
<1>12. Stored(r.h, y)
  BY <1>6, <1>9 DEF Stored
<1>13. /\ Fresh(o, Begun(r.h)) /\ Stored(Begun(r.h), y) /\ ~Begun(r.h).readonly
       /\ PadsZero(Begun(r.h), y)
       /\ Begun(r.h).endian = e /\ Begun(r.h).nbits = k
  BY <1>6, <1>8, <1>12, BegunStored
<1>14. ~AllocFails => Clean(Begun(r.h), y)
  BY <1>1, <1>10, <1>13 DEF Clean, k
<1>15. QED
  BY <1>4, <1>11, <1>13, <1>14, CreatedContent

\* Setting the pad bits of writable memory.
LEMMA PadbitsZero ==
  ASSUME NEW h, NEW m, Stored(h, m), ~h.readonly
  PROVE  /\ \A c \in PadCells(h) : c \in Cells /\ c < Room(h.size)
         /\ \A c \in PadCells(h) : SetPadbits(h, m)[c] = 0
<1>1. /\ h.endian \in Endian /\ h.nbits \in Nat /\ h.size \in Nat
      /\ Room(h.size) <= Limit /\ Room(h.size) \in Nat /\ Limit \in Nat
  BY StoredFacts
<1>2. ASSUME NEW c \in PadCells(h) PROVE c \in Cells /\ c < Room(h.size)
  <2>1. PICK i \in h.nbits .. (Room(h.size) - 1) : c = Pos(h.endian, i)
    BY DEF PadCells, Room
  <2>2. i \in Nat /\ i < Room(h.size) /\ i < Limit
    BY <1>1, <2>1
  <2>3. i \in Indices
    BY <2>2, IndicesFacts
  <2>4. Pos(h.endian, i) \in Cells
    BY <1>1, <2>3, IndicesFacts
  <2>5. Pos(h.endian, i) < Room(h.size)
    BY <1>1, <2>2, PosRange
  <2>6. QED
    BY <2>1, <2>4, <2>5
<1>3. QED
  BY <1>2 DEF SetPadbits

\* a.copy()
LEMMA CopyContent ==
  ASSUME IInv, CInv, NEW o \in Objects, NEW p \in Objects, Copy(o, p)
  PROVE  ContentStep
<1> DEFINE h == NewObject(o, obj[p].frozen, obj[p].endian, obj[p].nbits)
           m == Mem(p)
           h2 == [h EXCEPT !.readonly = TRUE]
           x == SetPadbits(h, m)
           r == FreezeIfFrozen(h, m)
<1>1. Stored(obj[p], m) /\ (~AllocFails => Clean(obj[p], m))
  BY DEF CInv, Sound, Ready
<1>2. /\ obj[p].nbits \in Nat /\ obj[p].nbits <= Limit /\ obj[p].endian \in Endian
      /\ m \in Block /\ obj[p].frozen \in BOOLEAN
  BY <1>1, StoredFacts DEF Stored, Header
<1>3. /\ Stored(h, m) /\ Fresh(o, h) /\ ~h.readonly /\ h.endian = obj[p].endian
      /\ h.nbits = obj[p].nbits /\ h.state = "live"
  <2> DEFINE fz == obj[p].frozen
             e == obj[p].endian
             n == obj[p].nbits
  <2>1. h = NewObject(o, fz, e, n) /\ fz \in BOOLEAN /\ e \in Endian /\ n \in Nat /\ n <= Limit
    BY <1>2
  <2> HIDE DEF h, m, fz, e, n
  <2>2. /\ Stored(h, m) /\ Fresh(o, h) /\ ~h.readonly /\ h.endian = e
        /\ h.nbits = n /\ h.state = "live"
    BY <1>2, <2>1, NewStored
  <2>3. QED
    BY <2>2 DEF e, n
<1>4. /\ Unborn(o) /\ obj' = [obj EXCEPT ![o] = r.h] /\ mem' = [mem EXCEPT ![o] = r.m]
  BY DEF Copy
<1> HIDE DEF h, m
<1>5. Clean(obj[p], m) => Clean(h, m)
  BY <1>3 DEF Clean
<1>6. CASE ~h.frozen
  <2>1. r.h = h /\ r.m = m
    BY <1>6 DEF FreezeIfFrozen, Outcome
  <2>2. PadsZero(h, m)
    BY <1>3 DEF PadsZero
  <2> HIDE DEF r
  <2>3. obj' = [obj EXCEPT ![o] = h] /\ mem' = [mem EXCEPT ![o] = m]
    BY <1>4, <2>1
  <2>4. QED
    BY <1>1, <1>3, <1>4, <1>5, <2>2, <2>3, CreatedContent
<1>7. CASE h.frozen
  <2>1. r.h = h2 /\ r.m = x
    BY <1>7 DEF FreezeIfFrozen, Outcome
  <2> HIDE DEF r
  <2>2. h \in Header /\ Consistent(h)
    BY <1>3 DEF Stored, GoodHeader
  <2>3. h2 \in Header /\ Consistent(h2)
    BY <2>2 DEF Header, Consistent, HeaderOK, Proportionate
  <2>4. /\ h2.state = "live" /\ h2.frozen = h.frozen /\ h2.exports = h.exports
        /\ h2.buffer = h.buffer /\ h2.item = h.item /\ h2.nbits = h.nbits
        /\ h2.endian = h.endian /\ h2.size = h.size
    BY <1>3, <2>2 DEF Header
  <2>5. Spared(h, m, x) /\ \A c \in PadCells(h) : x[c] = 0
    BY <1>3, PadbitsSpared, PadbitsZero
  <2> HIDE DEF h2, x
  <2>6. Fresh(o, h2)
    BY <1>3, <2>3, <2>4 DEF Fresh, GoodHeader
  <2>7. Stored(h2, x)
    BY <1>3, <2>3, <2>4, <2>5 DEF Stored, GoodHeader, Spared
  <2>8. PadsZero(h2, x)
    <3>1. PadCells(h2) = PadCells(h)
      BY <2>4 DEF PadCells
    <3>2. QED
      BY <2>5, <3>1 DEF PadsZero
  <2>9. ~AllocFails => Clean(h2, x)
    BY <1>1, <1>5, <2>4, <2>5 DEF Spared, Clean
  <2>10. obj' = [obj EXCEPT ![o] = h2] /\ mem' = [mem EXCEPT ![o] = x]
    BY <1>4, <2>1
  <2>11. h2.state # "new"
    BY <2>4
  <2>12. QED
    BY <1>4, <2>6, <2>7, <2>8, <2>9, <2>10, <2>11, CreatedContent
<1>8. QED
  BY <1>6, <1>7

\* a.not_identity_mask()
LEMMA NotIdentityMaskContent ==
  ASSUME IInv, CInv, NEW o \in Objects, NEW p \in Objects, NotIdentityMask(o, p)
  PROVE  ContentStep
<1> DEFINE n == obj[p].nbits \div 2
           new == NewObject(o, obj[p].frozen, BIG, n)
           h == [new EXCEPT !.state = "live"]
           pair(i) == IF Bits(p)[2 * i] = 1 \/ Bits(p)[2 * i + 1] = 1 THEN 1 ELSE 0
           zero == [c \in Cells |-> IF c < ByteBits * h.size THEN 0 ELSE Undef]
           f == [i \in 0 .. (n - 1) |-> pair(i)]
           x == SetSpan(h, zero, 0, n, f)
<1>1. /\ obj[p].frozen \in BOOLEAN /\ n \in Nat /\ n <= Limit /\ BIG \in Endian
      /\ Limit \in Nat
  <2>1. /\ obj[p].nbits \in Nat /\ obj[p].nbits <= Limit /\ obj[p].frozen \in BOOLEAN
        /\ Limit \in Nat
    BY CInvHolds, StoredFacts DEF Holds, Stored, Header
  <2>2. QED
    BY <2>1 DEF Endian
<1>2. zero \in Block
  BY DEF Block, Bit
<1>3. Unborn(o) /\ obj' = [obj EXCEPT ![o] = h] /\ mem' = [mem EXCEPT ![o] = x]
  BY DEF NotIdentityMask
<1>4. \A i \in 0 .. (n - 1) : f[i] \in Bit
  BY DEF Bit
<1> HIDE DEF n, zero, f
<1>5. /\ Stored(new, zero) /\ Fresh(o, new) /\ ~new.readonly /\ new.endian = BIG
      /\ new.nbits = n /\ new.state = "live"
  BY <1>1, <1>2, NewStored
<1> HIDE DEF new
<1>6. h = new
  BY <1>5 DEF Stored, GoodHeader, Header
<1> HIDE DEF h
<1>7. h.nbits = n /\ 0 + n <= h.nbits /\ Stored(h, zero) /\ Fresh(o, h) /\ ~h.readonly
      /\ h.state = "live"
  BY <1>1, <1>5, <1>6
<1>8. x \in Block
  <2>1. Spared(h, zero, x)
    BY <1>1, <1>4, <1>7, SpanSpared
  <2>2. QED
    BY <2>1 DEF Spared
<1>9. Clean(h, x)
  <2>1. ASSUME NEW i \in Nat, i < n PROVE At(h.endian, x, i) \in Bit
    <3>1. i < Limit /\ 0 <= i /\ i < 0 + n /\ i - 0 = i /\ i \in 0 .. (n - 1)
      BY <1>1, <2>1
    <3>2. At(h.endian, x, i) = f[i - 0]
      BY <1>1, <1>2, <1>5, <1>6, <3>1, SetSpanElements
    <3>3. QED
      BY <1>4, <3>1, <3>2
  <2>2. QED
    BY <1>7, <2>1 DEF Clean
<1> HIDE DEF x
<1>10. Stored(h, x) /\ PadsZero(h, x)
  BY <1>7, <1>8 DEF Stored, PadsZero
<1>11. h.state # "new"
  BY <1>7
<1>12. QED
  BY <1>3, <1>7, <1>9, <1>10, <1>11, CreatedContent

\* _pauliebits_reconstructor()
LEMMA ReconstructContent ==
  ASSUME IInv, CInv, NEW o \in Objects, NEW fz \in BOOLEAN, NEW ro \in BOOLEAN,
         NEW e \in Endian, NEW n \in Nat, n <= Limit, NEW m, Reconstruct(o, fz, ro, e, n, m)
  PROVE  ContentStep
<1> DEFINE new == NewObject(o, fz, e, n)
           h == [new EXCEPT !.readonly = ro]
           set == SetPadbits(new, m)
           y == IF ro THEN set ELSE m
           x == Keep(y, new.size)
<1>1. /\ Unborn(o) /\ m \in [Cells -> Bit]
      /\ obj' = [obj EXCEPT ![o] = h] /\ mem' = [mem EXCEPT ![o] = x]
  BY DEF Reconstruct
<1>2. /\ Stored(new, m) /\ Fresh(o, new) /\ ~new.readonly /\ new.state = "live"
      /\ new.size \in Nat
  BY <1>1, NewStored, BitsBlock, StoredFacts
<1> HIDE DEF new
<1>3. new \in Header /\ Consistent(new)
  BY <1>2 DEF Fresh, GoodHeader
<1>4. h \in Header /\ Consistent(h)
  BY <1>3 DEF Header, Consistent, HeaderOK, Proportionate
<1>5. /\ h.state = new.state /\ h.frozen = new.frozen /\ h.exports = new.exports
      /\ h.buffer = new.buffer /\ h.item = new.item /\ h.nbits = new.nbits
      /\ h.endian = new.endian /\ h.size = new.size /\ h.readonly = ro
  BY <1>3 DEF Header
<1> HIDE DEF h
<1>6. Fresh(o, h)
  BY <1>2, <1>4, <1>5 DEF Fresh, GoodHeader
<1>7. \A c \in PadCells(new) : /\ c \in Cells /\ c < Room(new.size)
                               /\ set[c] = 0
  BY <1>2, PadbitsZero
<1>8. set \in [Cells -> Bit]
  <2>1. set = [c \in Cells |-> IF c \in PadCells(new) THEN 0 ELSE m[c]]
    BY <1>2 DEF SetPadbits
  <2>2. QED
    BY <1>1, <2>1 DEF Bit
<1> HIDE DEF set
<1>9. y \in [Cells -> Bit]
  BY <1>1, <1>8
<1>10. Stored(new, y)
  BY <1>2, <1>9, BitsBlock DEF Stored
<1>11. Stored(new, x) /\ Clean(new, x)
  BY <1>9, <1>10, KeptClean
<1>12. \A c \in Cells : c < Room(new.size) => x[c] = y[c]
  BY DEF Keep, Room
<1> HIDE DEF x, y
<1>13. Stored(h, x) /\ Clean(h, x)
  BY <1>4, <1>5, <1>11 DEF Stored, Clean, GoodHeader
<1>14. PadsZero(h, x)
  <2>1. PadCells(h) = PadCells(new)
    BY <1>5 DEF PadCells
  <2>2. ro => y = set
    BY DEF y
  <2>3. ASSUME ro, NEW c \in PadCells(h) PROVE x[c] = 0
    BY <1>7, <1>12, <2>1, <2>2, <2>3
  <2>4. QED
    BY <1>5, <2>3 DEF PadsZero
<1>15. h.state # "new"
  BY <1>2, <1>5
<1>16. QED
  BY <1>1, <1>6, <1>13, <1>14, <1>15, CreatedContent

-------------------------------------------------------------------------------
\* An array that loses its last user, or never had one, goes.
LEMMA ReleasedContent ==
  ASSUME IInv, CInv, NEW o \in Objects, ~Unborn(o), obj[o].exports = 0, obj' = Released(o),
         mem' = mem \/ mem' = [mem EXCEPT ![o] = Blank], views' = views
  PROVE  ContentStep
<1> DEFINE b == obj[o].buffer
<1>1. /\ obj \in [Objects -> Header] /\ o # NoObject /\ mem \in [Objects -> Block]
      /\ Blank \in Block
  BY NoObjectIsNone, BlankBlock DEF IInv, HeadersOK, CInv
<1>2. b = NoObject \/ (b \in Objects /\ b # o)
  <2>1. b \in Objects \union {NoObject}
    BY <1>1 DEF Header
  <2>2. b \in Objects => b # o
    BY DEF IInv, ImportChains, Ancestry
  <2>3. QED
    BY <2>1, <2>2
<1>3. /\ obj'[o] = Unused
      /\ \A q \in Objects : q # o /\ q # b => obj'[q] = obj[q]
      /\ b # NoObject => obj'[b] = [obj[b] EXCEPT !.exports = @ - 1]
  BY <1>1, <1>2 DEF Released
<1>4. mem' \in [Objects -> Block] /\ \A q \in Objects : q # o => mem'[q] = mem[q]
  BY <1>1
<1>5. \A q \in Objects : q # o => obj[q].item # o
  BY ForeignItem
<1>6. ASSUME NEW q \in Objects, q # o
      PROVE  /\ obj'[q].item = obj[q].item /\ obj'[q].size = obj[q].size
             /\ obj'[q].readonly = obj[q].readonly /\ obj'[q].buffer = obj[q].buffer
             /\ obj'[q].state = obj[q].state /\ obj'[q].nbits = obj[q].nbits
             /\ obj'[q].endian = obj[q].endian /\ obj'[q].frozen = obj[q].frozen
             /\ Pinned(obj'[q]) => Pinned(obj[q])
  <2>1. CASE q # b
    BY <1>3, <1>6, <2>1
  <2>2. CASE q = b
    <3>1. obj'[q] = [obj[q] EXCEPT !.exports = @ - 1] /\ obj[q] \in Header
      BY <1>1, <1>2, <1>3, <2>2, NoObjectIsNone
    <3>2. obj[q].exports > 0
      <4>1. o \in Importers(q)
        BY <2>2 DEF Importers
      <4>2. QED
        BY <4>1, IInvFacts
    <3> DEFINE g == [obj[q] EXCEPT !.exports = @ - 1]
    <3>3. /\ g.item = obj[q].item /\ g.size = obj[q].size
          /\ g.readonly = obj[q].readonly /\ g.buffer = obj[q].buffer
          /\ g.state = obj[q].state /\ g.nbits = obj[q].nbits
          /\ g.endian = obj[q].endian /\ g.frozen = obj[q].frozen
      BY <3>1 DEF Header
    <3> HIDE DEF g
    <3>4. Pinned(obj[q])
      BY <3>2 DEF Pinned
    <3>5. QED
      BY <3>1, <3>3, <3>4 DEF g
  <2>3. QED
    BY <2>1, <2>2
<1>7. ASSUME NEW q \in Objects, q # o PROVE Home(q)' = Home(q) /\ Mem(q)' = Mem(q)
  <2>1. Home(q)' = Home(q)
    BY <1>6, <1>7 DEF Home
  <2>2. Home(q) \in Objects /\ Home(q) # o
    BY <1>5, <1>7, HomeObject DEF Home
  <2>3. QED
    BY <1>4, <2>1, <2>2 DEF Mem
<1>8. /\ Unused.state = "free" /\ Unused.item = NoObject /\ Unused.buffer = NoObject
      /\ Unused.nbits = 0 /\ GoodHeader(Unused) /\ Unused.exports = 0
  BY UnusedGood DEF Unused, NewObject
<1>9. ASSUME NEW x \in Objects PROVE OwnItem(x)' /\ NewWritable(x)'
  <2>1. CASE x = o
    BY <1>3, <1>8, <2>1 DEF OwnItem, NewWritable
  <2>2. CASE x # o
    <3>1. OwnItem(x) /\ NewWritable(x)
      BY DEF CInv, Sharing
    <3>2. QED
      BY <1>6, <2>2, <3>1 DEF OwnItem, NewWritable
  <2>3. QED
    BY <2>1, <2>2
<1>10. ASSUME NEW x \in Objects PROVE Inherited(x)'
  <2>1. ASSUME NEW p \in Objects, obj'[x].item = p
        PROVE  /\ obj'[x].size = obj'[p].size
               /\ obj'[p].readonly => obj'[x].readonly
               /\ ~ReadonlyViews => (obj'[x].readonly => obj'[p].readonly)
    <3>1. p # NoObject
      BY NoObjectIsNone
    <3>2. x # o
      BY <1>3, <1>8, <2>1, <3>1
    <3>3. obj[x].item = p /\ p # o
      BY <1>5, <1>6, <2>1, <3>2
    <3>4. Inherited(x)
      BY DEF CInv, Sharing
    <3>5. QED
      BY <1>6, <3>2, <3>3, <3>4 DEF Inherited
  <2>2. QED
    BY <2>1 DEF Inherited
<1>11. \A q \in Objects : GoodHeader(obj'[q])
  <2>1. IInv'
    BY ReleasePreserves
  <2>2. QED
    BY <2>1 DEF IInv, HeadersOK, AllConsistent, GoodHeader
<1>12. ASSUME NEW q \in Objects PROVE Sound(obj[q], Mem(q))'
  <2>1. CASE q = o
    <3> DEFINE m == Mem(q)'
    <3>1. m \in Block
      <4>1. Home(q)' \in Objects
        BY <1>3, <1>8, <2>1 DEF Home
      <4>2. QED
        BY <1>4, <4>1 DEF Mem
    <3> HIDE DEF m
    <3>2. ~Pinned(Unused)
      BY <1>8 DEF Pinned
    <3>3. Stored(Unused, m) /\ Clean(Unused, m) /\ PadsZero(Unused, m)
      BY <1>8, <3>1, IndicesFacts DEF Stored, Clean, PadsZero
    <3>4. Sound(Unused, m)
      BY <3>2, <3>3 DEF Sound, Ready
    <3>5. QED
      BY <1>3, <2>1, <3>4 DEF m
  <2>2. CASE q # o
    <3> DEFINE h == obj[q]
               h2 == obj'[q]
               m == Mem(q)
    <3>1. Sound(h, m)
      BY DEF CInv
    <3>2. /\ h2.nbits = h.nbits /\ h2.endian = h.endian /\ h2.size = h.size
          /\ h2.state = h.state /\ h2.frozen = h.frozen /\ h2.readonly = h.readonly
          /\ Pinned(h2) => Pinned(h)
          /\ GoodHeader(h2)
      BY <1>6, <1>11, <2>2
    <3> HIDE DEF h, h2, m
    <3>3. Stored(h2, m)
      BY <3>1, <3>2 DEF Sound, Stored
    <3>4. PadsZero(h2, m)
      BY <3>1, <3>2 DEF Sound, PadsZero, PadCells
    <3>5. ~AllocFails => Ready(h2, m)
      BY <3>1, <3>2 DEF Sound, Ready, Clean
    <3>6. Sound(h2, m)
      BY <3>3, <3>4, <3>5 DEF Sound
    <3>7. Mem(q)' = m
      BY <1>7, <2>2 DEF m
    <3>8. QED
      BY <3>6, <3>7 DEF h2
  <2>3. QED
    BY <2>1, <2>2
<1>13. ASSUME NEW q \in Objects, Stays(q) PROVE Bits(q)' = Bits(q)
  <2>1. q # o
    BY <1>3, <1>8, <1>13 DEF Stays, Live
  <2>2. obj'[q].nbits = obj[q].nbits /\ obj'[q].endian = obj[q].endian /\ Mem(q)' = Mem(q)
    BY <1>6, <1>7, <2>1
  <2>3. QED
    BY <2>2 DEF Bits, Elements, GetBit
<1>14. Sharing'
  BY <1>9, <1>10 DEF Sharing
<1>15. QED
  BY <1>4, <1>12, <1>13, <1>14 DEF ContentStep, CInv, Unwritten, StillThere

\* a.__init__() of a frozenpauliebits, which ends in _freeze().
LEMMA FreezeContent ==
  ASSUME IInv, CInv, NEW o \in Objects, Freeze(o)
  PROVE  ContentStep
<1> DEFINE h == obj[o]
           m == Mem(o)
           h2 == [h EXCEPT !.readonly = TRUE, !.state = "live"]
           x == SetPadbits(h, m)
<1>1. h.state = "new" /\ h.exports = 0 /\ views' = views
  BY DEF Freeze, IInv, NewUnshared
<1>2. CASE h.buffer # NoObject /\ ~h.readonly
  <2>1. obj' = Released(o) /\ mem' = mem
    BY <1>2 DEF Freeze
  <2>2. ~Unborn(o)
    BY <1>1 DEF Unborn
  <2>3. QED
    BY <1>1, <2>1, <2>2, ReleasedContent
<1>3. CASE h.buffer = NoObject \/ h.readonly
  <2>1. /\ obj \in [Objects -> Header] /\ mem \in [Objects -> Block] /\ o # NoObject
        /\ Home(o) \in Objects
    BY NoObjectIsNone, HomeObject DEF IInv, HeadersOK, CInv
  <2>2. obj' = [obj EXCEPT ![o] = h2] /\ mem' = [mem EXCEPT ![Home(o)] = x]
    BY <1>3 DEF Freeze, Commit, Outcome
  <2>3. Stored(h, m) /\ (~AllocFails => Ready(h, m)) /\ PadsZero(h, m)
    BY DEF CInv, Sound
  <2>4. h \in Header /\ Consistent(h)
    BY <2>3 DEF Stored, GoodHeader
  <2>5. /\ h2.readonly /\ h2.state = "live" /\ h2.nbits = h.nbits /\ h2.endian = h.endian
        /\ h2.size = h.size /\ h2.exports = h.exports /\ h2.buffer = h.buffer
        /\ h2.item = h.item /\ h2.frozen = h.frozen
        /\ h2 \in Header /\ Consistent(h2)
    BY <2>4 DEF Header, Consistent, HeaderOK, Proportionate
  <2>6. Spared(h, m, x)
    BY <2>3, PadbitsSpared
  <2>7. h.readonly => x = m
    BY DEF SetPadbits
  <2>8. h.buffer = NoObject => ~h.readonly /\ h.item \in {NoObject, o}
    BY <1>1 DEF CInv, Sharing, OwnItem, NewWritable
  <2>9. ~h.readonly => \A c \in PadCells(h) : x[c] = 0
    BY <2>3, PadbitsZero
  <2> HIDE DEF h2, x
  <2>10. x \in Block
    BY <2>6 DEF Spared
  <2>11. /\ mem' \in [Objects -> Block]
         /\ obj'[o] = h2 /\ \A q \in Objects : q # o => obj'[q] = obj[q]
         /\ \A q \in Objects : mem'[q] = IF q = Home(o) THEN x ELSE mem[q]
    BY <2>1, <2>2, <2>10
  <2>12. \A q \in Objects : q # o => obj[q].item # o
    BY <1>1, ForeignItem
  <2>13. \A q \in Objects : Home(q)' = Home(q)
    BY <2>5, <2>11 DEF Home
  <2>14. ASSUME NEW q \in Objects, q # o PROVE Mem(q)' = Mem(q)
    <3>1. Mem(q)' = mem'[Home(q)] /\ Home(q) \in Objects
      BY <2>13, HomeObject DEF Mem
    <3>2. CASE h.buffer = NoObject
      <4>1. Home(o) = o
        BY <2>8, <3>2 DEF Home
      <4>2. Home(q) # o
        BY <2>12, <2>14 DEF Home
      <4>3. QED
        BY <2>11, <3>1, <4>1, <4>2 DEF Mem
    <3>3. CASE h.readonly
      <4>1. x = mem[Home(o)]
        BY <2>7, <3>3 DEF Mem
      <4>2. QED
        BY <2>11, <3>1, <4>1 DEF Mem
    <3>4. QED
      BY <1>3, <3>2, <3>3
  <2>15. Mem(o)' = x
    BY <2>1, <2>11, <2>13 DEF Mem
  <2>16. Sound(h2, x)
    <3>1. Stored(h2, x)
      BY <2>3, <2>5, <2>10 DEF Stored, GoodHeader
    <3>2. ~AllocFails => Ready(h2, x)
      BY <2>3, <2>5, <2>6 DEF Ready, Spared, Clean, Pinned
    <3>3. PadsZero(h2, x)
      <4>1. CASE h.buffer = NoObject
        <5>1. PadCells(h2) = PadCells(h)
          BY <2>5 DEF PadCells
        <5>2. QED
          BY <2>8, <2>9, <4>1, <5>1 DEF PadsZero
      <4>2. CASE h.buffer # NoObject
        BY <2>5, <3>1, <4>2, NoPads
      <4>3. QED
        BY <4>1, <4>2
    <3>4. QED
      BY <3>1, <3>2, <3>3 DEF Sound
  <2>17. ASSUME NEW q \in Objects PROVE Sound(obj[q], Mem(q))'
    <3>1. CASE q = o
      BY <2>11, <2>15, <2>16, <3>1
    <3>2. CASE q # o
      <4>1. obj'[q] = obj[q] /\ Mem(q)' = Mem(q) /\ Sound(obj[q], Mem(q))
        BY <2>11, <2>14, <3>2 DEF CInv
      <4>2. QED
        BY <4>1
    <3>3. QED
      BY <3>1, <3>2
  <2>18. ASSUME NEW q \in Objects PROVE OwnItem(q)' /\ NewWritable(q)'
    BY <2>5, <2>11 DEF CInv, Sharing, OwnItem, NewWritable
  <2>19. ASSUME NEW q \in Objects PROVE Inherited(q)'
    <3>1. ASSUME NEW p \in Objects, obj'[q].item = p
          PROVE  /\ obj'[q].size = obj'[p].size
                 /\ obj'[p].readonly => obj'[q].readonly
                 /\ ~ReadonlyViews => (obj'[q].readonly => obj'[p].readonly)
      <4>1. obj[q].item = p
        BY <2>5, <2>11, <3>1
      <4>2. /\ obj[q].size = obj[p].size
            /\ obj[p].readonly => obj[q].readonly
            /\ ~ReadonlyViews => (obj[q].readonly => obj[p].readonly)
        BY <4>1 DEF CInv, Sharing, Inherited
      <4>3. CASE q = p
        BY <4>3
      <4>4. CASE q # p /\ q # o
        <5>1. p # o
          BY <2>12, <4>1, <4>4
        <5>2. QED
          BY <2>11, <4>2, <4>4, <5>1
      <4>5. CASE q # p /\ q = o
        <5>1. p # NoObject
          BY NoObjectIsNone
        <5>2. h.readonly
          BY <1>3, <2>8, <4>1, <4>5, <5>1
        <5>3. QED
          BY <2>5, <2>11, <4>2, <4>5, <5>2
      <4>6. QED
        BY <4>3, <4>4, <4>5
    <3>2. QED
      BY <3>1 DEF Inherited
  <2>20. Sharing'
    BY <2>18, <2>19 DEF Sharing
  <2>21. ASSUME NEW q \in Objects, Stays(q) PROVE Bits(q)' = Bits(q)
    <3>1. q # o
      BY <1>1, <2>21 DEF Stays, Live
    <3>2. obj'[q] = obj[q] /\ Mem(q)' = Mem(q)
      BY <2>11, <2>14, <3>1
    <3>3. QED
      BY <3>2 DEF Bits
  <2>22. QED
    BY <2>11, <2>17, <2>20, <2>21 DEF ContentStep, CInv, Unwritten, StillThere
<1>4. QED
  BY <1>2, <1>3

\* The last reference to an array is dropped.
LEMMA DeallocContent ==
  ASSUME IInv, CInv, NEW o \in Objects, Dealloc(o)
  PROVE  ContentStep
<1>1. /\ obj' = Released(o) /\ views' = views /\ mem' = [mem EXCEPT ![o] = Blank]
      /\ ~Unborn(o) /\ views[o].w = 0 /\ views[o].r = 0
      /\ Importers(o) = {}
  BY DEF Dealloc, Live, Unborn, Importers
<1>2. obj[o].exports = 0
  <2>1. obj[o].exports = Cardinality(Importers(o)) + 0 + 0
    BY <1>1 DEF IInv, ExportsCounted
  <2>2. Cardinality(Importers(o)) = 0
    BY <1>1, FS_EmptySet
  <2>3. QED
    BY <2>1, <2>2
<1>3. QED
  BY <1>1, <1>2, ReleasedContent

-------------------------------------------------------------------------------
(***************************************************************************)
(* The buffer protocol.                                                    *)
(***************************************************************************)
\* Headers that differ in the number of exports only.
Similar(h, h2) ==
  /\ h2.state = h.state /\ h2.frozen = h.frozen /\ h2.endian = h.endian
  /\ h2.nbits = h.nbits /\ h2.size = h.size /\ h2.buffer = h.buffer
  /\ h2.item = h.item /\ h2.readonly = h.readonly

\* A header that imports the buffer of p.
Importing(p, h2) ==
  /\ h2.buffer = p
  /\ h2.item = obj[p].item /\ h2.size = obj[p].size
  /\ h2.nbits = ByteBits * h2.size
  /\ obj[p].readonly => h2.readonly
  /\ ~ReadonlyViews => (h2.readonly => obj[p].readonly)

\* Memory g that shows what m holds and bits where m holds nothing.
LEMMA ExposedSound ==
  ASSUME NEW h, NEW h2, NEW m, NEW g \in Block, Sound(h, m), Similar(h, h2), GoodHeader(h2),
         Full(g, h.size), \A c \in Cells : m[c] # Undef => g[c] = m[c]
  PROVE  /\ Sound(h2, g)
         /\ StillThere(Elements(h, m), Elements(h2, g))
<1>1. /\ h2.nbits = h.nbits /\ h2.endian = h.endian /\ h2.size = h.size
      /\ h2.state = h.state /\ h2.frozen = h.frozen /\ h2.readonly = h.readonly
  BY DEF Similar
<1>2. /\ Stored(h, m) /\ h.nbits \in Nat /\ h.endian \in Endian /\ h.nbits <= Limit
      /\ Limit \in Nat /\ h.size \in Nat /\ Room(h.size) <= Limit /\ Room(h.size) \in Nat
  BY StoredFacts DEF Sound, Stored
<1>3. Stored(h2, g)
  BY <1>1, <1>2 DEF Stored
<1>4. PadsZero(h2, g)
  <2>1. PadCells(h2) = PadCells(h)
    BY <1>1 DEF PadCells
  <2>2. PadsZero(h, m)
    BY DEF Sound
  <2>3. \A c \in PadCells(h) : c \in Cells
    <3>1. TAKE c \in PadCells(h)
    <3>2. PICK i \in h.nbits .. (Room(h.size) - 1) : c = Pos(h.endian, i)
      BY DEF PadCells, Room
    <3>3. i \in Nat /\ i < Limit
      BY <1>2, <3>2
    <3>4. QED
      BY <1>2, <3>2, <3>3, IndicesFacts
  <2>4. 0 # Undef
    BY UndefAssumption DEF Bit
  <2>5. ASSUME h2.state = "live", h2.frozen, h2.readonly, NEW c \in PadCells(h)
        PROVE  g[c] = 0
    BY <1>1, <2>2, <2>3, <2>4, <2>5 DEF PadsZero
  <2>6. QED
    BY <2>1, <2>5 DEF PadsZero
<1>5. Ready(h2, g)
  BY <1>1, <1>3, FullClean DEF Ready
<1>6. StillThere(Elements(h, m), Elements(h2, g))
  <2> DEFINE f == Elements(h, m)
             f2 == Elements(h2, g)
             D == 0 .. (h.nbits - 1)
  <2>1. /\ DOMAIN f = D /\ DOMAIN f2 = D
        /\ \A i \in D : f[i] = m[Pos(h.endian, i)] /\ f2[i] = g[Pos(h.endian, i)]
    BY <1>1 DEF Elements, GetBit
  <2>2. ASSUME NEW i \in D PROVE Pos(h.endian, i) \in Cells
    <3>1. i \in Nat /\ i < Limit
      BY <1>2
    <3>2. QED
      BY <1>2, <3>1, IndicesFacts
  <2> HIDE DEF f, f2, D
  <2>3. ASSUME NEW i \in D, f[i] # Undef PROVE f2[i] = f[i]
    BY <2>1, <2>2, <2>3
  <2>4. StillThere(f, f2)
    BY <2>1, <2>3 DEF StillThere
  <2>5. QED
    BY <2>4 DEF f, f2
<1>7. QED
  BY <1>3, <1>4, <1>5, <1>6 DEF Sound

\* The buffer of p is exported, to a memoryview or to a new importer.
LEMMA ExportContent ==
  ASSUME IInv, CInv, IInv', NEW p \in Objects, Live(p),
         NEW g \in Exposed(obj[p], Mem(p)), mem' = [mem EXCEPT ![Home(p)] = g],
         \A q \in Objects : \/ Similar(obj[q], obj'[q]) /\ (q # p => obj'[q] = obj[q])
                            \/ Unborn(q) /\ Importing(p, obj'[q])
  PROVE  ContentStep
<1> DEFINE hp == obj[p]
           mp == Mem(p)
           H == Home(p)
<1>1. /\ mem \in [Objects -> Block] /\ H \in Objects /\ p # NoObject
      /\ \A q \in Objects : GoodHeader(obj'[q])
  BY NoObjectIsNone, HomeObject
     DEF IInv, HeadersOK, AllConsistent, GoodHeader, CInv
<1>2. Stored(hp, mp)
  BY DEF CInv, Sound
<1>3. /\ g \in Block /\ Full(g, hp.size)
      /\ \A c \in Cells : mp[c] # Undef => g[c] = mp[c]
  BY <1>2, ExposedFacts
<1>4. /\ mem' \in [Objects -> Block]
      /\ \A q \in Objects : mem'[q] = IF q = H THEN g ELSE mem[q]
  BY <1>1, <1>3
<1>5. \A q \in Objects : ~Unborn(q) => Similar(obj[q], obj'[q])
  OBVIOUS
<1>6. \A x, w \in Objects : obj[x].item = w => ~Unborn(w)
  BY DEF IInv, ImportsValid
<1>7. ASSUME NEW x \in Objects PROVE OwnItem(x)' /\ NewWritable(x)'
  <2>1. OwnItem(x) /\ NewWritable(x)
    BY DEF CInv, Sharing
  <2>2. CASE Similar(obj[x], obj'[x])
    BY <2>1, <2>2 DEF OwnItem, NewWritable, Similar
  <2>3. CASE Importing(p, obj'[x])
    BY <1>1, <2>3 DEF OwnItem, NewWritable, Importing
  <2>4. QED
    BY <2>2, <2>3
<1>8. ASSUME NEW x \in Objects PROVE Inherited(x)'
  <2>1. ASSUME NEW w \in Objects, obj'[x].item = w
        PROVE  /\ obj'[x].size = obj'[w].size
               /\ obj'[w].readonly => obj'[x].readonly
               /\ ~ReadonlyViews => (obj'[x].readonly => obj'[w].readonly)
    <3>1. CASE Similar(obj[x], obj'[x])
      <4>1. obj[x].item = w /\ Inherited(x)
        BY <2>1, <3>1 DEF Similar, CInv, Sharing
      <4>2. Similar(obj[w], obj'[w])
        BY <1>5, <1>6, <4>1
      <4>3. QED
        BY <3>1, <4>1, <4>2 DEF Similar, Inherited
    <3>2. CASE Importing(p, obj'[x])
      <4>1. obj[p].item = w /\ Inherited(p)
        BY <2>1, <3>2 DEF Importing, CInv, Sharing
      <4>2. Similar(obj[w], obj'[w])
        BY <1>5, <1>6, <4>1
      <4>3. QED
        BY <3>2, <4>1, <4>2 DEF Importing, Similar, Inherited
    <3>3. QED
      BY <3>1, <3>2
  <2>2. QED
    BY <2>1 DEF Inherited
<1>9. Sharing'
  BY <1>7, <1>8 DEF Sharing
<1>10. ASSUME NEW q \in Objects, Similar(obj[q], obj'[q]), q # p => obj'[q] = obj[q]
       PROVE  /\ Sound(obj[q], Mem(q))'
              /\ StillThere(Bits(q), Bits(q)')
  <2> DEFINE h == obj[q]
             h2 == obj'[q]
             m == Mem(q)
             x == Mem(q)'
  <2>1. Home(q)' = Home(q) /\ Home(q) \in Objects
    BY <1>10, HomeObject DEF Similar, Home
  <2>2. x = IF Home(q) = H THEN g ELSE m
    BY <1>4, <2>1 DEF Mem
  <2>3. Sound(h, m) /\ GoodHeader(h2) /\ Similar(h, h2)
    BY <1>1, <1>10 DEF CInv
  <2>4. Sound(h2, x) /\ StillThere(Elements(h, m), Elements(h2, x))
    <3>1. CASE Home(q) = H
      <4>1. m = mp /\ h.size = hp.size
        BY <3>1, SharedMemory DEF Mem, CInv
      <4>2. x = g
        BY <2>2, <3>1
      <4> HIDE DEF h, h2, m, x, mp, hp
      <4>3. QED
        BY <1>3, <2>3, <4>1, <4>2, ExposedSound
    <3>2. CASE Home(q) # H
      <4>1. x = m
        BY <2>2, <3>2
      <4> HIDE DEF x, m, h, h2
      <4>2. /\ h2.nbits = h.nbits /\ h2.endian = h.endian /\ h2.size = h.size
            /\ h2.state = h.state /\ h2.frozen = h.frozen /\ h2.readonly = h.readonly
        BY <2>3 DEF Similar
      <4>3. Stored(h2, m) /\ PadsZero(h2, m)
        BY <2>3, <4>2 DEF Sound, Stored, PadsZero, PadCells
      <4>4. Elements(h2, m) = Elements(h, m)
        BY <4>2 DEF Elements, GetBit
      <4>5. ~AllocFails => Ready(h2, m)
        <5>1. Pinned(h2) => Pinned(h)
          <6>1. h2 = h
            BY <1>10, <3>2 DEF h, h2
          <6>2. QED
            BY <6>1
        <5>2. QED
          BY <2>3, <4>2, <5>1 DEF Sound, Ready, Clean
      <4>6. QED
        BY <4>1, <4>3, <4>4, <4>5 DEF Sound, StillThere
    <3>3. QED
      BY <3>1, <3>2
  <2>5. QED
    BY <2>4 DEF Bits
<1>11. ASSUME NEW q \in Objects, Unborn(q), Importing(p, obj'[q])
       PROVE  Sound(obj[q], Mem(q))'
  <2> DEFINE h2 == obj'[q]
             x == Mem(q)'
  <2>1. /\ h2.buffer = p /\ h2.item = hp.item /\ h2.size = hp.size
        /\ h2.nbits = Room(hp.size) /\ GoodHeader(h2) /\ Consistent(h2)
    BY <1>1, <1>11 DEF Importing, Room, GoodHeader
  <2>2. /\ Home(q)' \in Objects /\ (hp.item # NoObject => Home(q)' = H)
    BY <1>1, <2>1 DEF Home
  <2>3. x \in Block /\ (hp.item # NoObject => x = g)
    BY <1>4, <2>2 DEF Mem
  <2>4. hp.item = NoObject => hp.size = 0
    BY <2>1 DEF Consistent, HeaderOK, Proportionate
  <2>5. Room(hp.size) <= Limit /\ Room(0) = 0
    BY <1>2, StoredFacts, RoomFacts
  <2> HIDE DEF h2, x, hp, mp
  <2>6. Stored(h2, x)
    BY <2>1, <2>3, <2>5 DEF Stored
  <2>7. Full(x, hp.size)
    <3>1. CASE hp.item # NoObject
      BY <1>3, <2>3, <3>1
    <3>2. CASE hp.item = NoObject
      <4>1. \A c \in Cells : ~ (c < Room(hp.size))
        BY <2>4, <2>5, <3>2, CellsFacts
      <4>2. QED
        BY <4>1 DEF Full
    <3>3. QED
      BY <3>1, <3>2
  <2>8. Ready(h2, x) /\ PadsZero(h2, x)
    BY <1>1, <2>1, <2>6, <2>7, FullClean, NoPads DEF Ready
  <2>9. Sound(h2, x)
    BY <2>6, <2>8 DEF Sound
  <2>10. QED
    BY <2>9 DEF h2, x
<1>12. \A q \in Objects : Sound(obj[q], Mem(q))'
  BY <1>10, <1>11
<1>13. ASSUME NEW q \in Objects, Stays(q) PROVE StillThere(Bits(q), Bits(q)')
  <2>1. ~Unborn(q)
    BY <1>13 DEF Stays, Live, Unborn
  <2>2. Similar(obj[q], obj'[q]) /\ (q # p => obj'[q] = obj[q])
    BY <2>1
  <2>3. QED
    BY <1>10, <2>2
<1>14. QED
  BY <1>4, <1>9, <1>12, <1>13 DEF ContentStep, CInv, Unwritten

\* A header of which only the exports change.
LEMMA CountedSimilar ==
  ASSUME NEW h \in Header, NEW e
  PROVE  Similar(h, [h EXCEPT !.exports = e])
BY DEF Similar, Header

\* memoryview(a)
LEMMA GetBufferContent ==
  ASSUME IInv, CInv, NEW o \in Objects, GetBuffer(o)
  PROVE  ContentStep
<1>1. /\ Live(o) /\ obj' = [obj EXCEPT ![o].exports = @ + 1]
      /\ \E g \in Exposed(obj[o], Mem(o)) : mem' = [mem EXCEPT ![Home(o)] = g]
  BY DEF GetBuffer
<1>2. PICK g \in Exposed(obj[o], Mem(o)) : mem' = [mem EXCEPT ![Home(o)] = g]
  BY <1>1
<1>3. obj \in [Objects -> Header]
  BY DEF IInv, HeadersOK
<1>4. IInv'
  BY GetBufferStep
<1> DEFINE h == [obj[o] EXCEPT !.exports = @ + 1]
<1>5. h = [obj[o] EXCEPT !.exports = obj[o].exports + 1]
  BY <1>3 DEF Header
<1>6. obj' = [obj EXCEPT ![o] = h]
  BY <1>1
<1> HIDE DEF h
<1>7. Similar(obj[o], h)
  BY <1>3, <1>5, CountedSimilar
<1>8. ASSUME NEW q \in Objects
      PROVE  Similar(obj[q], obj'[q]) /\ (q # o => obj'[q] = obj[q])
  <2>1. CASE q = o
    BY <1>3, <1>6, <1>7, <2>1
  <2>2. CASE q # o
    BY <1>3, <1>6, <2>2 DEF Similar
  <2>3. QED
    BY <2>1, <2>2
<1>9. QED
  BY <1>1, <1>2, <1>4, <1>8, ExportContent

\* pauliebits(buffer=p)
LEMMA NewFromBufferContent ==
  ASSUME IInv, CInv, NEW o \in Objects, NEW fz \in BOOLEAN, NEW e \in Endian,
         NEW p \in Objects, NEW ro \in BOOLEAN, NewFromBuffer(o, fz, e, p, ro)
  PROVE  ContentStep
<1> DEFINE new == NewImporter(fz, e, p, obj[p], ro)
           h == Begun(new)
           hp == [obj[p] EXCEPT !.exports = @ + 1]
<1>1. /\ Unborn(o) /\ Live(p)
      /\ ro => ReadonlyViews \/ obj[p].readonly
      /\ obj[p].readonly => ro
      /\ \E g \in Exposed(obj[p], Mem(p)) : mem' = [mem EXCEPT ![Home(p)] = g]
      /\ obj' = [obj EXCEPT ![o] = h, ![p].exports = @ + 1]
  BY DEF NewFromBuffer
<1>2. PICK g \in Exposed(obj[p], Mem(p)) : mem' = [mem EXCEPT ![Home(p)] = g]
  BY <1>1
<1>3. obj \in [Objects -> Header] /\ o # p
  BY <1>1 DEF IInv, HeadersOK, Live, Unborn
<1>4. IInv'
  BY NewFromBufferStep DEF Endian
<1>5. obj'[o] = h /\ obj'[p] = hp /\ \A q \in Objects : q # o /\ q # p => obj'[q] = obj[q]
  <2> HIDE DEF h
  <2>1. QED
    BY <1>1, <1>3
<1>6. hp = [obj[p] EXCEPT !.exports = obj[p].exports + 1]
  BY <1>3 DEF Header
<1> HIDE DEF hp
<1>7. Similar(obj[p], hp)
  BY <1>3, <1>6, CountedSimilar
<1>8. Importing(p, h)
  <2>1. /\ new.buffer = p /\ new.item = obj[p].item /\ new.size = obj[p].size
        /\ new.nbits = ByteBits * new.size /\ new.readonly = ro
    BY DEF NewImporter
  <2>2. /\ h.buffer = new.buffer /\ h.item = new.item /\ h.size = new.size
        /\ h.nbits = new.nbits /\ h.readonly = new.readonly
    BY DEF Begun, NewImporter
  <2> HIDE DEF new, h
  <2>3. QED
    BY <1>1, <2>1, <2>2 DEF Importing
<1> HIDE DEF h
<1>9. ASSUME NEW q \in Objects
      PROVE  \/ Similar(obj[q], obj'[q]) /\ (q # p => obj'[q] = obj[q])
             \/ Unborn(q) /\ Importing(p, obj'[q])
  <2>1. CASE q = o
    BY <1>1, <1>5, <1>8, <2>1
  <2>2. CASE q = p
    BY <1>5, <1>7, <2>2
  <2>3. CASE q # o /\ q # p
    BY <1>5, <2>3 DEF Similar
  <2>4. QED
    BY <2>1, <2>2, <2>3
<1>10. QED
  BY <1>1, <1>2, <1>4, <1>9, ExportContent

\* A memoryview is released.
LEMMA ReleaseBufferContent ==
  ASSUME IInv, CInv, NEW o \in Objects, ReleaseBuffer(o)
  PROVE  ContentStep
<1>1. /\ views[o].w + views[o].r > 0
      /\ obj' = [obj EXCEPT ![o].exports = @ - 1] /\ mem' = mem
  BY DEF ReleaseBuffer
<1>2. obj \in [Objects -> Header] /\ mem \in [Objects -> Block]
  BY DEF IInv, HeadersOK, CInv
<1>3. IInv'
  BY ReleaseBufferStep
<1>4. \A q \in Objects : GoodHeader(obj'[q])
  BY <1>3 DEF IInv, HeadersOK, AllConsistent, GoodHeader
<1> DEFINE h == [obj[o] EXCEPT !.exports = @ - 1]
<1>5. h = [obj[o] EXCEPT !.exports = obj[o].exports - 1]
  BY <1>2 DEF Header
<1>6. Similar(obj[o], h)
  BY <1>2, <1>5, CountedSimilar
<1>7. Pinned(obj[o])
  <2>1. /\ obj[o].exports = Cardinality(Importers(o)) + views[o].w + views[o].r
        /\ Cardinality(Importers(o)) \in Nat /\ views[o].w \in Nat /\ views[o].r \in Nat
    BY IInvFacts DEF IInv, ExportsCounted
  <2>2. obj[o].exports > 0
    BY <1>1, <2>1
  <2>3. QED
    BY <2>2 DEF Pinned
<1>8. obj'[o] = h /\ \A q \in Objects : q # o => obj'[q] = obj[q]
  BY <1>1, <1>2
<1> HIDE DEF h
<1>9. \A q \in Objects : Similar(obj[q], obj'[q]) /\ (Pinned(obj'[q]) => Pinned(obj[q]))
  <2>1. ASSUME NEW q \in Objects, q # o PROVE Similar(obj[q], obj'[q])
    BY <1>8, <2>1 DEF Similar
  <2>2. QED
    BY <1>6, <1>7, <1>8, <2>1
<1>10. ASSUME NEW x \in Objects PROVE OwnItem(x)' /\ NewWritable(x)'
  BY <1>9 DEF CInv, Sharing, OwnItem, NewWritable, Similar
<1>11. ASSUME NEW x \in Objects PROVE Inherited(x)'
  <2>1. Inherited(x)
    BY DEF CInv, Sharing
  <2>2. QED
    BY <1>9, <2>1 DEF Inherited, Similar
<1>12. Sharing'
  BY <1>10, <1>11 DEF Sharing
<1>13. \A q \in Objects : Mem(q)' = Mem(q)
  BY <1>1, <1>9 DEF Mem, Home, Similar
<1>14. ASSUME NEW q \in Objects
       PROVE  Sound(obj[q], Mem(q))' /\ Bits(q)' = Bits(q)
  <2> DEFINE g == obj[q]
             g2 == obj'[q]
             m == Mem(q)
  <2>1. /\ Sound(g, m) /\ GoodHeader(g2) /\ Similar(g, g2) /\ (Pinned(g2) => Pinned(g))
        /\ Mem(q)' = m
    BY <1>4, <1>9, <1>13 DEF CInv
  <2> HIDE DEF g, g2, m
  <2>2. /\ g2.nbits = g.nbits /\ g2.endian = g.endian /\ g2.size = g.size
        /\ g2.state = g.state /\ g2.frozen = g.frozen /\ g2.readonly = g.readonly
    BY <2>1 DEF Similar
  <2>3. Stored(g2, m) /\ PadsZero(g2, m)
    BY <2>1, <2>2 DEF Sound, Stored, PadsZero, PadCells
  <2>4. Elements(g2, m) = Elements(g, m)
    BY <2>2 DEF Elements, GetBit
  <2>5. ~AllocFails => Ready(g2, m)
    BY <2>1, <2>2 DEF Sound, Ready, Clean
  <2>6. Sound(g2, m)
    BY <2>3, <2>5 DEF Sound
  <2>7. QED
    BY <2>1, <2>4, <2>6 DEF Bits, g, g2, m
<1>15. QED
  BY <1>1, <1>2, <1>12, <1>14 DEF ContentStep, CInv, Unwritten, StillThere

\* Writing through a memoryview, which exists only of writable memory.
LEMMA ViewWriteContent ==
  ASSUME IInv, CInv, NEW o \in Objects, NEW c \in Cells, NEW v \in Bit, ViewWrite(o, c, v)
  PROVE  ContentStep
<1> DEFINE h == obj[o]
           m == Mem(o)
           x == [m EXCEPT ![c] = v]
<1>1. /\ views[o].w > 0 /\ obj' = obj
      /\ mem' = [mem EXCEPT ![Home(o)][c] = v]
  BY DEF ViewWrite
<1>2. ~h.readonly
  BY <1>1 DEF IInv, ImportsValid
<1>3. Stored(h, m) /\ (~AllocFails => Ready(h, m))
  BY DEF CInv, Sound
<1>4. obj \in [Objects -> Header] /\ mem \in [Objects -> Block] /\ m \in Block
  BY <1>3 DEF IInv, HeadersOK, CInv, Stored
<1>5. x \in Block /\ x[c] = v /\ \A d \in Cells : d # c => x[d] = m[d]
  BY <1>4 DEF Block
<1>6. mem' = [mem EXCEPT ![Home(o)] = x] /\ obj' = [obj EXCEPT ![o] = h]
  <2>1. mem' = [mem EXCEPT ![Home(o)] = [mem[Home(o)] EXCEPT ![c] = v]]
    BY <1>1
  <2>2. QED
    BY <1>1, <1>4, <2>1 DEF Mem
<1> HIDE DEF x
<1>7. Spared(h, m, x)
  <2>1. /\ h.endian \in Endian /\ h.nbits \in Nat /\ h.nbits <= Limit /\ Limit \in Nat
    BY <1>3, StoredFacts DEF Stored
  <2>2. ASSUME Clean(h, m), NEW i \in Nat, i < h.nbits PROVE At(h.endian, x, i) \in Bit
    <3>1. Pos(h.endian, i) \in Cells
      BY <2>1, <2>2, IndicesFacts
    <3>2. m[Pos(h.endian, i)] \in Bit
      BY <2>2 DEF Clean, At
    <3>3. QED
      BY <1>5, <3>1, <3>2 DEF At
  <2>3. Full(m, h.size) => Full(x, h.size)
    BY <1>5 DEF Full
  <2>4. QED
    BY <1>5, <2>2, <2>3 DEF Spared, Clean
<1>8. Stored(h, x) /\ (Ready(h, m) => Ready(h, x))
  BY <1>3, <1>7, SparedReady
<1>9. Evolves(o, obj[o], h)
  BY IInvFacts, EvolvesReflexive
<1> DEFINE h2 == h
<1>10. /\ Evolves(o, obj[o], h2) /\ Stored(h2, x)
       /\ ~AllocFails /\ Ready(obj[o], Mem(o)) => Ready(h2, x)
       /\ obj' = [obj EXCEPT ![o] = h2]
  BY <1>6, <1>8, <1>9
<1>11. obj[o].readonly => h2 = obj[o] /\ x = Mem(o)
  BY <1>2
<1> HIDE DEF h2, h
<1>12. QED
  BY <1>6, <1>10, <1>11, MethodContent DEF ContentStep

\* Nothing happens.
LEMMA UnchangedContent ==
  ASSUME CInv, UNCHANGED vars
  PROVE  ContentStep
<1>1. obj' = obj /\ mem' = mem
  BY DEF vars
<1>2. \A q \in Objects : Home(q)' = Home(q)
  BY <1>1 DEF Home
<1>3. \A q \in Objects : Mem(q)' = Mem(q)
  BY <1>1, <1>2 DEF Mem
<1>4. Sharing'
  BY <1>1 DEF CInv, Sharing, OwnItem, Inherited, NewWritable
<1>5. \A q \in Objects : Sound(obj[q], Mem(q))'
  BY <1>1, <1>3 DEF CInv
<1>6. \A q \in Objects : Bits(q)' = Bits(q)
  BY <1>1, <1>3 DEF Bits
<1>7. QED
  BY <1>1, <1>4, <1>5, <1>6 DEF ContentStep, CInv, Unwritten, StillThere

-------------------------------------------------------------------------------
\* Steps that create or destroy an array.
LEMMA CreationContent ==
  ASSUME IInv, CInv, NEW o \in Objects, Creation(o)
  PROVE  ContentStep
<1>1. /\ \A e \in Endians : e \in Endian
      /\ \A n \in 0 .. MaxBits : n \in Nat /\ n <= Limit
  BY CallersAssumption, MaxBitsLimit, IndicesFacts DEF Endian
<1>2. ASSUME NEW fz \in BOOLEAN, NEW e \in Endians, NEW n \in 0 .. MaxBits, NEW m,
             NewFromIndex(o, fz, e, n, m)
      PROVE  ContentStep
  BY <1>1, <1>2, NewFromIndexContent
<1>3. ASSUME NEW fz \in BOOLEAN, NEW e \in Endians, NEW n \in 0 .. MaxBits, NEW m,
             NEW ro \in BOOLEAN, Reconstruct(o, fz, ro, e, n, m)
      PROVE  ContentStep
  BY <1>1, <1>3, ReconstructContent
<1>4. ASSUME NEW fz \in BOOLEAN, NEW e \in Endians, NEW p \in Objects,
             NewFromPauliebits(o, fz, e, p)
      PROVE  ContentStep
  BY <1>1, <1>4, NewFromPauliebitsContent
<1>5. ASSUME NEW fz \in BOOLEAN, NEW e \in Endians, NEW p \in Objects, NEW ro \in BOOLEAN,
             NewFromBuffer(o, fz, e, p, ro)
      PROVE  ContentStep
  BY <1>1, <1>5, NewFromBufferContent
<1>6. QED
  BY <1>2, <1>3, <1>4, <1>5, CopyContent, NotIdentityMaskContent, FreezeContent,
     DeallocContent DEF Creation

\* Every step.
LEMMA NextContent ==
  ASSUME IInv, CInv, [Next]_vars
  PROVE  ContentStep
<1>1. ASSUME NEW o \in Objects, Creation(o) PROVE ContentStep
  BY <1>1, CreationContent
<1>2. ASSUME NEW o \in Objects, Exporting(o) PROVE ContentStep
  BY <1>2, GetBufferContent, ReleaseBufferContent, ViewWriteContent DEF Exporting
<1>3. ASSUME NEW o \in Objects, Resizing(o) PROVE ContentStep
  BY <1>3, ResizingContent
<1>4. ASSUME NEW o \in Objects, InPlace(o) PROVE ContentStep
  BY <1>4, InPlaceContent
<1>5. CASE UNCHANGED vars
  BY <1>5, UnchangedContent
<1>6. CASE Next
  BY <1>1, <1>2, <1>3, <1>4, <1>6 DEF Next
<1>7. QED
  BY <1>5, <1>6

\* The initial state.
LEMMA InitContent == Init => CInv
<1> SUFFICES ASSUME Init PROVE CInv
  OBVIOUS
<1>1. obj = [o \in Objects |-> Unused] /\ mem = [o \in Objects |-> Blank]
  BY DEF Init
<1>2. /\ Unused.state = "free" /\ Unused.item = NoObject /\ Unused.buffer = NoObject
      /\ Unused.nbits = 0 /\ GoodHeader(Unused) /\ Unused.exports = 0
  BY UnusedGood DEF Unused, NewObject
<1>3. \A o \in Objects : obj[o] = Unused /\ Home(o) = o /\ Mem(o) = Blank
  BY <1>1, <1>2 DEF Home, Mem
<1>4. mem \in [Objects -> Block]
  BY <1>1, BlankBlock
<1>5. Sound(Unused, Blank)
  BY <1>2, BlankBlock, IndicesFacts DEF Sound, Stored, PadsZero, Ready, Clean, Pinned
<1>6. \A o \in Objects : Sound(obj[o], Mem(o))
  BY <1>3, <1>5
<1>7. Sharing
  BY <1>2, <1>3, NoObjectIsNone DEF Sharing, OwnItem, Inherited, NewWritable
<1>8. QED
  BY <1>4, <1>6, <1>7 DEF CInv

\* The invariant of the memory.
THEOREM ContentInvariance == Spec => [](IInv /\ CInv)
<1>1. Init => IInv /\ CInv
  BY InitInvariant, InitContent
<1>2. IInv /\ CInv /\ [Next]_vars => (IInv /\ CInv)'
  BY NextInvariant, NextContent DEF ContentStep
<1>3. QED
  BY <1>1, <1>2, PTL DEF Spec

-------------------------------------------------------------------------------
(***************************************************************************)
(* What the invariant says.                                                *)
(***************************************************************************)
\* The variables keep their types, the memory included.
THEOREM TypeCorrect == Spec => []TypeOK
<1>1. IInv /\ CInv => TypeOK
  BY DEF IInv, CInv, TypeOK
<1>2. QED
  BY <1>1, ContentInvariance, PTL

\* The pad bits of frozen arrays are zero.
THEOREM FrozenPads == Spec => []FrozenPadsZero
<1>1. CInv => FrozenPadsZero
  BY DEF CInv, Sound, PadsZero, FrozenPadsZero, Live
<1>2. QED
  BY <1>1, ContentInvariance, PTL

\* Unless memory runs out, nobody sees uninitialized memory as elements.
THEOREM ElementsClean ==
  ASSUME ~AllocFails
  PROVE  Spec => []NoGarbage
<1>1. CInv => NoGarbage
  <2> SUFFICES ASSUME CInv, NEW o \in Objects, NEW i \in DOMAIN Bits(o)
               PROVE  Bits(o)[i] \in Bit
    BY DEF NoGarbage
  <2>1. Clean(obj[o], Mem(o))
    BY DEF CInv, Sound, Ready
  <2>2. QED
    BY <2>1, BitsAt, CInvHolds
<1>2. QED
  BY <1>1, ContentInvariance, PTL

\* copy_n() gets two distinct arrays only if their buffers do not overlap.
THEOREM CopiesApart == Spec => []CopiesDisjoint
<1>1. IInv /\ CInv => CopiesDisjoint
  <2> SUFFICES ASSUME IInv, CInv, NEW o \in Objects, NEW p \in Objects,
                      p # o, Home(p) = Home(o), obj[o].size > 0
               PROVE  /\ CanExtend(o, p) => \A r \in Extended(o, p) : r.err # None
                      /\ BuffersOverlap(obj[o], obj[p])
    BY DEF CopiesDisjoint
  <2>1. /\ obj[p].item = obj[o].item /\ obj[p].size = obj[o].size
        /\ Pinned(obj[o])
    BY SharedMemory DEF CInv
  <2>2. BuffersOverlap(obj[o], obj[p])
    BY <2>1 DEF BuffersOverlap
  <2>3. ASSUME CanExtend(o, p), NEW r \in Extended(o, p) PROVE r.err # None
    <3>1. Fits(obj[o].nbits + obj[p].nbits)
      BY <2>3 DEF CanExtend
    <3>2. Refused(obj[o], Mem(o), r)
      BY <2>3, <3>1, ExtendedContent, CInvHolds
    <3>3. QED
      BY <2>1, <3>2 DEF Refused, None
  <2>4. QED
    BY <2>2, <2>3
<1>2. QED
  BY <1>1, ContentInvariance, PTL

\* Nothing but a read-only view of a writable array lets the elements of a
\* read-only array change.
THEOREM ReadonlyStays ==
  ASSUME ~ReadonlyViews
  PROVE  Spec => ReadonlyImmutable
<1>1. IInv /\ CInv /\ [Next]_vars
        => [\A o \in Objects : Stays(o) /\ obj[o].readonly
              => StillThere(Bits(o), Bits(o)')]_vars
  BY NextContent DEF ContentStep, Unwritten
<1>2. QED
  BY <1>1, ContentInvariance, PTL DEF Spec, ReadonlyImmutable

-------------------------------------------------------------------------------
(***************************************************************************)
(* Arrays are lists.                                                       *)
(***************************************************************************)
\* A list of n elements.
IsList(s, n) == s = [i \in 0 .. (n - 1) |-> s[i]]

\* The elements of an array, as a list.
LEMMA ElementsAre ==
  ASSUME NEW h, NEW m, NEW g, h.nbits \in Nat,
         IsList(g, h.nbits),
         \A i \in Nat : i < h.nbits => At(h.endian, m, i) = g[i]
  PROVE  Elements(h, m) = g
<1>1. ASSUME NEW i \in 0 .. (h.nbits - 1) PROVE GetBit(h, m, i) = g[i]
  <2>1. i \in Nat /\ i < h.nbits
    OBVIOUS
  <2>2. At(h.endian, m, i) = g[i]
    BY <2>1
  <2>3. QED
    BY <2>2 DEF GetBit, At
<1>2. [i \in 0 .. (h.nbits - 1) |-> GetBit(h, m, i)] = [i \in 0 .. (h.nbits - 1) |-> g[i]]
  BY <1>1
<1>3. QED
  BY <1>2 DEF Elements, IsList

\* s is f, of length m, followed by g, of length n.
IsJoined(s, f, m, g, n) ==
  /\ IsList(s, m + n)
  /\ \A i \in Nat : i < m => s[i] = f[i]
  /\ \A i \in Nat : i < n => s[m + i] = g[i]

\* That is what Joined yields.
LEMMA JoinedIs ==
  ASSUME NEW f, NEW m \in Nat, NEW g, NEW n \in Nat
  PROVE  IsJoined(Joined(f, m, g, n), f, m, g, n)
<1> DEFINE s == Joined(f, m, g, n)
           D == 0 .. (m + n - 1)
           F(i) == IF i < m THEN f[i] ELSE g[i - m]
<1>1. s = [i \in D |-> F(i)]
  BY DEF Joined
<1> HIDE DEF s
<1>2. (\A i \in D : s[i] = F(i)) /\ s = [i \in D |-> s[i]]
  <2> HIDE DEF F, D
  <2>1. QED
    BY <1>1
<1>3. ASSUME NEW i \in Nat, i < m PROVE s[i] = f[i]
  <2>1. i \in D
    BY <1>3
  <2>2. QED
    BY <1>2, <1>3, <2>1
<1>4. ASSUME NEW i \in Nat, i < n PROVE s[m + i] = g[i]
  <2>1. m + i \in D /\ ~(m + i < m) /\ m + i - m = i
    BY <1>4
  <2>2. QED
    BY <1>2, <2>1
<1>5. IsList(s, m + n)
  BY <1>2 DEF IsList
<1>6. IsJoined(s, f, m, g, n)
  BY <1>3, <1>4, <1>5 DEF IsJoined
<1>7. QED
  BY <1>6 DEF s

\* s is f, of length m, with the positions from a up to b replaced by g, of length n.
IsSpliced(s, f, m, a, b, g, n) ==
  /\ IsList(s, m - (b - a) + n)
  /\ \A i \in Nat : i < a => s[i] = f[i]
  /\ \A i \in Nat : i < n => s[a + i] = g[i]
  /\ \A i \in Nat : b <= i /\ i < m => s[i + n - (b - a)] = f[i]

\* That is what Spliced yields.
LEMMA SplicedIs ==
  ASSUME NEW f, NEW m \in Nat, NEW a \in Nat, NEW b \in Nat, NEW g, NEW n \in Nat,
         a <= b, b <= m
  PROVE  IsSpliced(Spliced(f, m, a, b, g, n), f, m, a, b, g, n)
<1> DEFINE s == Spliced(f, m, a, b, g, n)
           D == 0 .. (m - (b - a) + n - 1)
           F(i) == IF i < a THEN f[i]
                   ELSE IF i < a + n THEN g[i - a] ELSE f[i - n + (b - a)]
<1>1. s = [i \in D |-> F(i)]
  BY DEF Spliced
<1> HIDE DEF s
<1>2. (\A i \in D : s[i] = F(i)) /\ s = [i \in D |-> s[i]]
  <2> HIDE DEF F, D
  <2>1. QED
    BY <1>1
<1>3. ASSUME NEW i \in Nat, i < a PROVE s[i] = f[i]
  <2>1. i \in D
    BY <1>3
  <2>2. QED
    BY <1>2, <1>3, <2>1
<1>4. ASSUME NEW i \in Nat, i < n PROVE s[a + i] = g[i]
  <2>1. a + i \in D /\ ~(a + i < a) /\ a + i < a + n /\ a + i - a = i
    BY <1>4
  <2>2. QED
    BY <1>2, <2>1
<1>5. ASSUME NEW i \in Nat, b <= i, i < m PROVE s[i + n - (b - a)] = f[i]
  <2> DEFINE j == i + n - (b - a)
  <2>1. j \in D /\ ~(j < a) /\ ~(j < a + n) /\ j - n + (b - a) = i
    BY <1>5
  <2> HIDE DEF j, D
  <2>2. s[j] = f[i]
    BY <1>2, <2>1
  <2>3. QED
    BY <2>2 DEF j
<1>6. IsList(s, m - (b - a) + n)
  BY <1>2 DEF IsList
<1>7. IsSpliced(s, f, m, a, b, g, n)
  BY <1>3, <1>4, <1>5, <1>6 DEF IsSpliced
<1>8. QED
  BY <1>7 DEF s

\* The arrays do what lists do.
LEMMA ExtendedIsJoined ==
  ASSUME IInv, CInv, NEW o \in Objects, NEW p \in Objects, CanExtend(o, p),
         NEW r \in Extended(o, p), r.err = None
  PROVE  Elements(r.h, r.m) = Joined(Bits(o), obj[o].nbits, Bits(p), obj[p].nbits)
<1> DEFINE n == obj[o].nbits
           k == obj[p].nbits
           e == obj[o].endian
           ep == obj[p].endian
           m == Mem(o)
           mp == Mem(p)
           f == Bits(o)
           f2 == Bits(p)
           g == Joined(f, n, f2, k)
           h == r.h
           x == r.m
<1>1. Holds(o) /\ Holds(p) /\ n \in Nat /\ k \in Nat
  BY CInvHolds, StoredFacts DEF Holds
<1>2. Fits(n + k)
  BY DEF CanExtend
<1>3. /\ Result(obj[o], r, n + k)
      /\ Prefix(obj[o], m, r, n)
      /\ \A i \in Nat : i < k => At(e, x, n + i) = At(ep, mp, i)
  BY <1>1, <1>2, ExtendedContent
<1>4. h.nbits = n + k /\ h.endian = e /\ \A i \in Nat : i < n => At(e, x, i) = At(e, m, i)
  BY <1>3 DEF Result, Prefix
<1>5. /\ \A i \in 0 .. (n - 1) : f[i] = At(e, m, i)
      /\ \A i \in 0 .. (k - 1) : f2[i] = At(ep, mp, i)
  BY <1>1, BitsAt
<1>6. IsJoined(g, f, n, f2, k)
  BY <1>1, JoinedIs
<1> HIDE DEF n, k, e, ep, m, mp, f, f2, h, x, g
<1>7. /\ IsList(g, n + k)
      /\ \A i \in Nat : i < n => g[i] = f[i]
      /\ \A i \in Nat : i < k => g[n + i] = f2[i]
  BY <1>6 DEF IsJoined
<1>8. ASSUME NEW i \in Nat, i < h.nbits PROVE At(h.endian, x, i) = g[i]
  <2>1. CASE i < n
    <3>1. i \in 0 .. (n - 1)
      BY <1>1, <2>1
    <3>2. QED
      BY <1>4, <1>5, <1>7, <2>1, <3>1
  <2>2. CASE ~(i < n)
    <3>1. PICK j \in Nat : i = n + j /\ j < k
      <4>1. i - n \in Nat /\ i = n + (i - n) /\ i - n < k
        BY <1>1, <1>4, <1>8, <2>2
      <4>2. QED
        BY <1>1, <1>4, <1>8, <2>2, <4>1
    <3>2. j \in 0 .. (k - 1)
      BY <1>1, <3>1
    <3>3. g[i] = f2[j]
      BY <1>7, <3>1
    <3>4. At(e, x, i) = At(ep, mp, j)
      BY <1>3, <3>1 DEF e, ep, mp, x, n, k
    <3>5. QED
      BY <1>4, <1>5, <3>2, <3>3, <3>4
  <2>3. QED
    BY <2>1, <2>2
<1>9. h.nbits \in Nat /\ IsList(g, h.nbits)
  BY <1>1, <1>4, <1>7
<1>10. Elements(h, x) = g
  BY <1>8, <1>9, ElementsAre
<1>11. QED
  BY <1>10 DEF n, k, f, f2, g, h, x

\* The method has replaced the elements from a up to b by the n2 elements of f2.
Replaced(h, m, r, a, b, f2, n2) ==
  /\ a \in Nat /\ b \in Nat /\ n2 \in Nat /\ a <= b /\ b <= h.nbits
  /\ r.h.nbits = h.nbits - (b - a) + n2
  /\ r.h.endian = h.endian
  /\ Prefix(h, m, r, a)
  /\ \A i \in Nat : i < n2 => At(h.endian, r.m, a + i) = f2[i]
  /\ \A i \in Nat : b <= i /\ i < h.nbits =>
       At(h.endian, r.m, i + n2 - (b - a)) = At(h.endian, m, i)

\* So does Spliced.
LEMMA SplicedElements ==
  ASSUME IInv, CInv, NEW o \in Objects, NEW r, NEW f2, NEW n2, NEW a, NEW b,
         Replaced(obj[o], Mem(o), r, a, b, f2, n2)
  PROVE  Elements(r.h, r.m) = Spliced(Bits(o), obj[o].nbits, a, b, f2, n2)
<1> DEFINE n == obj[o].nbits
           e == obj[o].endian
           m == Mem(o)
           f == Bits(o)
           g == Spliced(f, n, a, b, f2, n2)
           h == r.h
           x == r.m
<1>1. Holds(o) /\ n \in Nat
  BY CInvHolds, StoredFacts DEF Holds
<1>2. /\ h.nbits = n - (b - a) + n2 /\ h.endian = e
      /\ \A i \in Nat : i < a => At(e, x, i) = At(e, m, i)
  BY DEF Replaced, Prefix
<1>3. \A i \in 0 .. (n - 1) : f[i] = At(e, m, i)
  BY <1>1, BitsAt
<1>4. a \in Nat /\ b \in Nat /\ n2 \in Nat /\ a <= b /\ b <= n
  BY DEF Replaced
<1>5. \A i \in Nat : i < n2 => At(e, x, a + i) = f2[i]
  BY DEF Replaced
<1>6. \A i \in Nat : b <= i /\ i < n => At(e, x, i + n2 - (b - a)) = At(e, m, i)
  BY DEF Replaced
<1>7. IsSpliced(g, f, n, a, b, f2, n2)
  BY <1>1, <1>4, SplicedIs
<1> HIDE DEF n, e, m, f, h, x, g
<1>8. /\ IsList(g, n - (b - a) + n2)
      /\ \A i \in Nat : i < a => g[i] = f[i]
      /\ \A i \in Nat : i < n2 => g[a + i] = f2[i]
      /\ \A i \in Nat : b <= i /\ i < n => g[i + n2 - (b - a)] = f[i]
  BY <1>7 DEF IsSpliced
<1>9. ASSUME NEW i \in Nat, i < h.nbits PROVE At(h.endian, x, i) = g[i]
  <2>1. CASE i < a
    <3>1. i \in 0 .. (n - 1)
      BY <1>1, <1>4, <2>1
    <3>2. QED
      BY <1>2, <1>3, <1>8, <2>1, <3>1
  <2>2. CASE a <= i /\ i < a + n2
    <3>1. PICK j \in Nat : i = a + j /\ j < n2
      <4>1. i - a \in Nat /\ i = a + (i - a) /\ i - a < n2
        BY <1>4, <2>2
      <4>2. QED
        BY <4>1
    <3>2. QED
      BY <1>2, <1>5, <1>8, <3>1
  <2>3. CASE a + n2 <= i
    <3>1. PICK j \in Nat : i = j + n2 - (b - a) /\ b <= j /\ j < n
      <4> DEFINE j == i - n2 + (b - a)
      <4>1. j \in Nat /\ i = j + n2 - (b - a) /\ b <= j /\ j < n
        BY <1>1, <1>2, <1>4, <1>9, <2>3
      <4> HIDE DEF j
      <4>2. QED
        BY <4>1
    <3>2. j \in 0 .. (n - 1)
      BY <1>1, <3>1
    <3>3. At(e, x, i) = At(e, m, j)
      BY <1>6, <3>1
    <3>4. g[i] = f[j]
      BY <1>8, <3>1
    <3>5. QED
      BY <1>2, <1>3, <3>2, <3>3, <3>4
  <2>4. QED
    BY <1>4, <2>1, <2>2, <2>3
<1>10. h.nbits \in Nat
  BY <1>1, <1>2, <1>4
<1>11. IsList(g, h.nbits)
  BY <1>2, <1>8
<1>12. Elements(h, x) = g
  BY <1>9, <1>10, <1>11, ElementsAre
<1>13. QED
  BY <1>12 DEF n, f, g, h, x

\* insert()
LEMMA InsertedIsSpliced ==
  ASSUME IInv, CInv, NEW o \in Objects, NEW i \in Nat, i <= obj[o].nbits,
         NEW v \in Bit, Fits(obj[o].nbits + 1), NEW r \in Inserted(o, i, v), r.err = None,
         NEW f2, f2[0] = v
  PROVE  Elements(r.h, r.m) = Spliced(Bits(o), obj[o].nbits, i, i, f2, 1)
<1> DEFINE n == obj[o].nbits
<1>1. Holds(o) /\ n \in Nat
  BY CInvHolds, StoredFacts DEF Holds
<1>2. i <= n
  OBVIOUS
<1>3. /\ Result(obj[o], r, n + 1)
      /\ Prefix(obj[o], Mem(o), r, i)
      /\ At(obj[o].endian, r.m, i) = v
      /\ \A j \in Nat : i <= j /\ j < n =>
           At(obj[o].endian, r.m, j + 1) = At(obj[o].endian, Mem(o), j)
  BY <1>1, <1>2, InsertedContent
<1>4. r.h.nbits = n - (i - i) + 1 /\ r.h.endian = obj[o].endian
  <2>1. r.h.nbits = n + 1 /\ r.h.endian = obj[o].endian
    BY <1>3 DEF Result
  <2> HIDE DEF n
  <2>2. QED
    BY <1>1, <1>2, <2>1
<1>5. ASSUME NEW j \in Nat, j < 1 PROVE At(obj[o].endian, r.m, i + j) = f2[j]
  <2>1. j = 0 /\ i + j = i
    BY <1>2, <1>5
  <2>2. QED
    BY <1>3, <2>1
<1>6. ASSUME NEW j \in Nat, i <= j, j < n
      PROVE  At(obj[o].endian, r.m, j + 1 - (i - i)) = At(obj[o].endian, Mem(o), j)
  <2>1. j + 1 - (i - i) = j + 1
    BY <1>2
  <2>2. QED
    BY <1>3, <1>6, <2>1
<1>7. Replaced(obj[o], Mem(o), r, i, i, f2, 1)
  BY <1>2, <1>3, <1>4, <1>5, <1>6 DEF Replaced
<1>8. QED
  BY <1>7, SplicedElements

\* pop()
LEMMA PoppedIsSpliced ==
  ASSUME IInv, CInv, NEW o \in Objects, NEW i \in Nat, i < obj[o].nbits,
         NEW r \in Popped(o, i), r.err = None
  PROVE  Elements(r.h, r.m) = Spliced(Bits(o), obj[o].nbits, i, i + 1, << >>, 0)
<1> DEFINE n == obj[o].nbits
           b == i + 1
<1>1. Holds(o) /\ n \in Nat
  BY CInvHolds, StoredFacts DEF Holds
<1>2. i < n /\ b \in Nat /\ i <= b /\ b <= n /\ b - i = 1
  BY <1>1
<1>3. /\ Result(obj[o], r, n - 1)
      /\ Prefix(obj[o], Mem(o), r, i)
      /\ \A j \in Nat : i <= j /\ j < n - 1 =>
           At(obj[o].endian, r.m, j) = At(obj[o].endian, Mem(o), j + 1)
  BY <1>1, <1>2, PoppedContent
<1>4. r.h.nbits = n - (b - i) + 0 /\ r.h.endian = obj[o].endian
  <2>1. r.h.nbits = n - 1 /\ r.h.endian = obj[o].endian
    BY <1>3 DEF Result
  <2> HIDE DEF n, b
  <2>2. QED
    BY <1>1, <1>2, <2>1
<1>5. ASSUME NEW j \in Nat, b <= j, j < n
      PROVE  At(obj[o].endian, r.m, j + 0 - (b - i)) = At(obj[o].endian, Mem(o), j)
  <2>1. PICK k \in Nat : k + 1 = j /\ i <= k /\ k < n - 1
    <3>1. j - 1 \in Nat /\ j - 1 + 1 = j /\ i <= j - 1 /\ j - 1 < n - 1
      BY <1>1, <1>2, <1>5
    <3>2. QED
      BY <3>1
  <2>2. At(obj[o].endian, r.m, k) = At(obj[o].endian, Mem(o), j)
    BY <1>3, <2>1
  <2>3. j + 0 - (b - i) = k
    BY <1>2, <2>1
  <2>4. QED
    BY <2>2, <2>3
<1> HIDE DEF b
<1> DEFINE f2 == << >>
<1> HIDE DEF f2
<1>6. Replaced(obj[o], Mem(o), r, i, b, f2, 0)
  BY <1>2, <1>3, <1>4, <1>5 DEF Replaced
<1>7. Elements(r.h, r.m) = Spliced(Bits(o), n, i, b, f2, 0)
  BY <1>6, SplicedElements
<1>8. QED
  BY <1>7 DEF b, f2

\* a[i:j] = b
LEMMA AssignedIsSpliced ==
  ASSUME IInv, CInv, NEW o \in Objects, NEW p \in Objects,
         NEW i \in Nat, NEW j \in Nat, CanSetSlice(o, p, i, j),
         NEW r \in SliceAssigned(o, p, i, j), r.err = None
  PROVE  Elements(r.h, r.m)
           = Spliced(Bits(o), obj[o].nbits, i, j, Bits(p), obj[p].nbits)
<1> DEFINE n == obj[o].nbits
           k == obj[p].nbits
           f2 == Bits(p)
<1>1. Holds(o) /\ Holds(p) /\ n \in Nat /\ k \in Nat
  BY CInvHolds, StoredFacts DEF Holds
<1>2. i <= j /\ j <= n /\ Fits(n + k - (j - i))
  BY DEF CanSetSlice
<1>3. /\ Result(obj[o], r, n + k - (j - i))
      /\ Prefix(obj[o], Mem(o), r, i)
      /\ \A x \in Nat : x < k =>
           At(obj[o].endian, r.m, i + x) = At(obj[p].endian, Mem(p), x)
      /\ \A x \in Nat : j <= x /\ x < n =>
           At(obj[o].endian, r.m, x + k - (j - i)) = At(obj[o].endian, Mem(o), x)
  BY <1>1, <1>2, SliceAssignedContent DEF CInv
<1>4. r.h.nbits = n - (j - i) + k /\ r.h.endian = obj[o].endian
  <2>1. r.h.nbits = n + k - (j - i) /\ r.h.endian = obj[o].endian
    BY <1>3 DEF Result
  <2> HIDE DEF n, k
  <2>2. QED
    BY <1>1, <1>2, <2>1
<1>5. ASSUME NEW x \in Nat, x < k PROVE At(obj[o].endian, r.m, i + x) = f2[x]
  <2>1. x \in 0 .. (k - 1)
    BY <1>1, <1>5
  <2>2. f2[x] = At(obj[p].endian, Mem(p), x)
    BY <1>1, <2>1, BitsAt
  <2>3. QED
    BY <1>3, <1>5, <2>2
<1> HIDE DEF f2
<1>6. Replaced(obj[o], Mem(o), r, i, j, f2, k)
  BY <1>1, <1>2, <1>3, <1>4, <1>5 DEF Replaced
<1>7. Elements(r.h, r.m) = Spliced(Bits(o), n, i, j, f2, k)
  BY <1>6, SplicedElements
<1>8. QED
  BY <1>7 DEF f2

\* reverse()
LEMMA ReversedIs ==
  ASSUME IInv, CInv, NEW o \in Objects
  PROVE  Elements(obj[o], Reversed(o))
           = [i \in 0 .. (obj[o].nbits - 1) |-> Bits(o)[obj[o].nbits - 1 - i]]
<1> DEFINE n == obj[o].nbits
           e == obj[o].endian
           f == Bits(o)
           x == Reversed(o)
<1>1. Holds(o) /\ n \in Nat
  BY CInvHolds, StoredFacts DEF Holds
<1>2. \A i \in Nat : i < n => At(e, x, i) = At(e, Mem(o), n - 1 - i)
  BY <1>1, ReversedContent
<1>3. \A i \in 0 .. (n - 1) : f[i] = At(e, Mem(o), i)
  BY <1>1, BitsAt
<1> HIDE DEF f, x
<1>4. ASSUME NEW i \in 0 .. (n - 1) PROVE GetBit(obj[o], x, i) = f[n - 1 - i]
  <2> HIDE DEF n
  <2>1. i \in Nat /\ i < n /\ n - 1 - i \in 0 .. (n - 1)
    BY <1>1
  <2>2. At(e, x, i) = f[n - 1 - i]
    BY <1>2, <1>3, <2>1
  <2>3. QED
    BY <2>2 DEF GetBit, At
<1>5. [i \in 0 .. (n - 1) |-> GetBit(obj[o], x, i)] = [i \in 0 .. (n - 1) |-> f[n - 1 - i]]
  <2> HIDE DEF n
  <2>1. QED
    BY <1>4
<1>6. QED
  BY <1>5 DEF Elements, f, x

\* extend(), insert(), pop(), slice assignment and reverse() do to an array what
\* they do to a list.
THEOREM ArraysAreLists == Spec => []ListSemantics
<1>1. IInv /\ CInv => ListSemantics
  <2> SUFFICES ASSUME IInv, CInv, NEW o \in Objects, Writable(o)
               PROVE  LET n == obj[o].nbits
                      IN  /\ \A p \in Objects : CanExtend(o, p) =>
                               Yields(Extended(o, p),
                                      Joined(Bits(o), n, Bits(p), obj[p].nbits))
                          /\ \A i \in 0 .. n, v \in Bit : Fits(n + 1) =>
                               Yields(Inserted(o, i, v),
                                      Spliced(Bits(o), n, i, i, [x \in {0} |-> v], 1))
                          /\ \A i \in 0 .. (n - 1) :
                               Yields(Popped(o, i),
                                      Spliced(Bits(o), n, i, i + 1, << >>, 0))
                          /\ \A p \in Objects, i, j \in 0 .. n : CanSetSlice(o, p, i, j) =>
                               Yields(SliceAssigned(o, p, i, j),
                                      Spliced(Bits(o), n, i, j, Bits(p), obj[p].nbits))
                          /\ Elements(obj[o], Reversed(o))
                               = [i \in 0 .. (n - 1) |-> Bits(o)[n - 1 - i]]
    BY DEF ListSemantics
  <2>1. obj[o].nbits \in Nat
    BY CInvHolds, StoredFacts DEF Holds
  <2>2. ASSUME NEW p \in Objects, CanExtend(o, p)
        PROVE  Yields(Extended(o, p), Joined(Bits(o), obj[o].nbits, Bits(p), obj[p].nbits))
    BY <2>2, ExtendedIsJoined DEF Yields
  <2>3. ASSUME NEW i \in 0 .. obj[o].nbits, NEW v \in Bit, Fits(obj[o].nbits + 1)
        PROVE  Yields(Inserted(o, i, v),
                      Spliced(Bits(o), obj[o].nbits, i, i, [x \in {0} |-> v], 1))
    <3> DEFINE f2 == [x \in {0} |-> v]
    <3>1. f2[0] = v
      OBVIOUS
    <3>2. i \in Nat /\ i <= obj[o].nbits
      BY <2>1
    <3> HIDE DEF f2
    <3>3. Yields(Inserted(o, i, v), Spliced(Bits(o), obj[o].nbits, i, i, f2, 1))
      BY <2>3, <3>1, <3>2, InsertedIsSpliced DEF Yields
    <3>4. QED
      BY <3>3 DEF f2
  <2>4. ASSUME NEW i \in 0 .. (obj[o].nbits - 1)
        PROVE  Yields(Popped(o, i), Spliced(Bits(o), obj[o].nbits, i, i + 1, << >>, 0))
    BY <2>1, PoppedIsSpliced DEF Yields
  <2>5. ASSUME NEW p \in Objects, NEW i \in 0 .. obj[o].nbits, NEW j \in 0 .. obj[o].nbits,
               CanSetSlice(o, p, i, j)
        PROVE  Yields(SliceAssigned(o, p, i, j),
                      Spliced(Bits(o), obj[o].nbits, i, j, Bits(p), obj[p].nbits))
    BY <2>5, <2>1, AssignedIsSpliced DEF Yields
  <2>6. QED
    BY <2>2, <2>3, <2>4, <2>5, ReversedIs
<1>2. QED
  BY <1>1, ContentInvariance, PTL

\* The elements of an array that is restored are the old ones.
LEMMA RestoredElements ==
  ASSUME NEW o \in Objects, Holds(o), ~AllocFails, NEW r, Restored(obj[o], Mem(o), r)
  PROVE  Elements(r.h, r.m) = Bits(o)
<1>1. /\ r.h.nbits = obj[o].nbits /\ r.h.endian = obj[o].endian
      /\ Prefix(obj[o], Mem(o), r, obj[o].nbits)
  BY DEF Restored
<1>2. /\ obj[o].nbits \in Nat
      /\ DOMAIN Bits(o) = 0 .. (obj[o].nbits - 1)
      /\ \A i \in 0 .. (obj[o].nbits - 1) : Bits(o)[i] = At(obj[o].endian, Mem(o), i)
  BY BitsAt, StoredFacts DEF Holds
<1> DEFINE n == obj[o].nbits
           g == Bits(o)
           e == obj[o].endian
           h == r.h
           x == r.m
<1>3. ASSUME NEW i \in Nat, i < n PROVE At(e, x, i) = g[i]
  <2>1. i \in 0 .. (n - 1)
    BY <1>2, <1>3
  <2>2. QED
    BY <1>1, <1>2, <1>3, <2>1 DEF Prefix
<1>4. IsList(g, n)
  <2>1. g = [i \in 0 .. (n - 1) |-> GetBit(obj[o], Mem(o), i)]
    BY DEF Bits, Elements
  <2> HIDE DEF g
  <2>2. QED
    BY <2>1 DEF IsList
<1>5. h.nbits = n /\ h.endian = e
  BY <1>1
<1>6. n \in Nat
  BY <1>2
<1> HIDE DEF n, g, e, h, x
<1>7. Elements(h, x) = g
  BY <1>3, <1>4, <1>5, <1>6, ElementsAre
<1>8. QED
  BY <1>7 DEF g, h, x

\* Unless memory runs out, an extend() that fails leaves the elements alone, however
\* many items it has stored.
THEOREM FailuresRestore ==
  ASSUME ~AllocFails
  PROVE  Spec => []FailedExtendRestores
<1>1. IInv /\ CInv => FailedExtendRestores
  <2> SUFFICES ASSUME IInv, CInv, NEW o \in Objects
               PROVE  /\ CanTake(o, 1) =>
                           \A r \in FailedIter(o) : Elements(r.h, r.m) = Bits(o)
                      /\ \A k \in 1 .. MaxBits, u \in 0 .. (MaxBits - 1) :
                           u < k /\ CanTake(o, k) =>
                             \A f \in Items(u) : \A r \in FailedSequence(o, f, k) :
                               Elements(r.h, r.m) = Bits(o)
    BY DEF FailedExtendRestores
  <2>1. Holds(o)
    BY CInvHolds
  <2>2. ASSUME CanTake(o, 1), NEW r \in FailedIter(o)
        PROVE  Elements(r.h, r.m) = Bits(o)
    <3>1. Restored(obj[o], Mem(o), r)
      BY <2>1, <2>2, FailedIterContent DEF CanTake
    <3>2. QED
      BY <2>1, <3>1, RestoredElements
  <2>3. ASSUME NEW k \in 1 .. MaxBits, NEW u \in 0 .. (MaxBits - 1), u < k, CanTake(o, k),
               NEW f \in Items(u), NEW r \in FailedSequence(o, f, k)
        PROVE  Elements(r.h, r.m) = Bits(o)
    <3>1. MaxBits \in Nat
      BY CallersAssumption, ByteBitsAssumption, MaxBytesAssumption DEF MaxBits
    <3>2. k \in Nat /\ u \in Nat /\ u <= k
      BY <2>3, <3>1
    <3>3. Restored(obj[o], Mem(o), r)
      BY <2>1, <2>3, <3>2, FailedSequenceContent DEF CanTake
    <3>4. QED
      BY <2>1, <3>3, RestoredElements
  <2>4. QED
    BY <2>2, <2>3
<1>2. QED
  BY <1>1, ContentInvariance, PTL
===============================================================================
