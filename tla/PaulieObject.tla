----------------------------- MODULE PaulieObject -----------------------------
(***************************************************************************)
(* The pauliebits object and the primitives every method is built from:    *)
(* creation, copying, resize(), insert_n(), delete_n() and freezing.       *)
(*                                                                         *)
(* A primitive that may fail is an operator that returns the set of its    *)
(* possible outcomes, records [err, h, m] of the exception raised (or      *)
(* None), the object's header and the content of its buffer.               *)
(***************************************************************************)
EXTENDS BitLayout

CONSTANTS
  Objects,      \* identities of objects; a buffer is named by its allocator
  NoObject,     \* the null pointer
  AllocFails    \* whether reallocation may run out of memory

ASSUME ObjectsAssumption == NoObject \notin Objects /\ AllocFails \in BOOLEAN

None == "none"

\* The C struct.  state tells an unused identity ("free") from an object whose
\* Python-level initializer has not run yet ("new") and one in use ("live");
\* frozen is the object's type, buffer the exporter of an imported buffer, and
\* item (ob_item) the allocator of the memory pointed to.
Header ==
  [state     : {"free", "new", "live"},
   frozen    : BOOLEAN,
   endian    : {LITTLE, BIG},
   nbits     : Nat,
   size      : Nat,
   allocated : Nat,
   exports   : Nat,
   buffer    : Objects \union {NoObject},
   item      : Objects \union {NoObject},
   readonly  : BOOLEAN]

\* newpauliebitsobject(): exact allocation; o is the identity of the new object.
NewObject(o, frozen, endian, nbits) ==
  [state     |-> "live",
   frozen    |-> frozen,
   endian    |-> endian,
   nbits     |-> nbits,
   size      |-> BYTES(nbits),
   allocated |-> BYTES(nbits),
   exports   |-> 0,
   buffer    |-> NoObject,
   item      |-> IF BYTES(nbits) = 0 THEN NoObject ELSE o,
   readonly  |-> FALSE]

Unused == [NewObject(NoObject, FALSE, BIG, 0) EXCEPT !.state = "free"]

\* The header of an object that imports the buffer of an object with header h.
NewImporter(frozen, endian, exporter, h, readonly) ==
  [state     |-> "live",
   frozen    |-> frozen,
   endian    |-> endian,
   nbits     |-> ByteBits * h.size,
   size      |-> h.size,
   allocated |-> 0,
   exports   |-> 0,
   buffer    |-> exporter,
   item      |-> h.item,
   readonly  |-> readonly]

Outcome(err, h, m) == [err |-> err, h |-> h, m |-> m]

\* Continue with F after the outcomes in which nothing was raised.
Then(outcomes, F(_)) == UNION {IF r.err = None THEN F(r) ELSE {r} : r \in outcomes}

\* Reallocation keeps the leading bytes; memory beyond them is not initialized.
Keep(m, nbytes) == [c \in Cells |-> IF c < ByteBits * nbytes THEN m[c] ELSE Undef]

\* (A slip: the allocated size is not reset with the rest.)
EmptiedPartly(h) == [h EXCEPT !.nbits = 0, !.size = 0, !.item = NoObject]

Emptied(h) == [h EXCEPT !.nbits = 0, !.size = 0, !.allocated = 0, !.item = NoObject]

\* (A slip: exports are not looked at.)
PinnedByImport(h) == h.buffer # NoObject

\* Whether resize() raises BufferError.
Pinned(h) == h.exports > 0 \/ h.buffer # NoObject

(***************************************************************************)
(* resize(): set the number of bits of object o to nbits.                  *)
(***************************************************************************)
Resize(o, h, m, nbits) ==
  LET newsize == BYTES(nbits)
      kept    == Keep(m, IF newsize < h.size THEN newsize ELSE h.size)
      alloc   == NewAllocation(h.size, h.allocated, newsize)
      resized == [h EXCEPT !.nbits = nbits, !.size = newsize,
                           !.allocated = alloc, !.item = o]
  IN  CASE Pinned(h) -> {Outcome("BufferError", h, m)}
        [] ~Pinned(h) /\ newsize = h.size ->
             {Outcome(None, [h EXCEPT !.nbits = nbits], m)}
        [] ~Pinned(h) /\ newsize # h.size /\ newsize = 0 ->
             {Outcome(None, Emptied(h), Blank)}
        [] OTHER ->
             {Outcome(None, resized, kept)} \union
             (IF AllocFails /\ alloc # h.allocated
              THEN {Outcome("MemoryError", Emptied(h), Blank)} ELSE {})

\* insert_n(): make room for n uninitialized elements at start.
InsertN(o, h, m, start, n) ==
  Then(Resize(o, h, m, h.nbits + n),
       LAMBDA r : {Outcome(None, r.h,
         CopyN(r.h, r.m, start + n, r.h, r.m, start, h.nbits - start))})

\* (Slips: one element too many goes; the buffer shrinks before the move.)
DeleteOneMore(o, h, m, start, n) ==
  Resize(o, h, CopyN(h, m, start, h, m, start + n, h.nbits - start - n),
         h.nbits - n - 1)

DeleteLate(o, h, m, start, n) ==
  Then(Resize(o, h, m, h.nbits - n),
       LAMBDA r : {Outcome(None, r.h,
         CopyN(r.h, r.m, start, r.h, r.m, start + n, h.nbits - start - n))})

\* delete_n(): the elements behind the deleted ones move before the resize.
DeleteN(o, h, m, start, n) ==
  Resize(o, h, CopyN(h, m, start, h, m, start + n, h.nbits - start - n),
         h.nbits - n)

\* (A slip: the pad bits are left as they are.)
FreezeOnly(h, m) ==
  Outcome(None, IF h.frozen THEN [h EXCEPT !.readonly = TRUE] ELSE h, m)

\* freeze_if_frozen(), which ends every method that returns a new array.
FreezeIfFrozen(h, m) ==
  IF h.frozen THEN Outcome(None, [h EXCEPT !.readonly = TRUE], SetPadbits(h, m))
              ELSE Outcome(None, h, m)

\* (A slip: only the same object counts as overlapping, and is never given.)
NeverOverlap(h1, h2) == FALSE

\* Two arrays share memory.
BuffersOverlap(h1, h2) == h1.size # 0 /\ h2.size # 0 /\ h1.item = h2.item
===============================================================================
