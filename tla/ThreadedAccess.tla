----------------------------- MODULE ThreadedAccess ---------------------------
(***************************************************************************)
(* Threads that call methods of one array.  A critical section (or, in a   *)
(* build with the GIL, what runs without calling Python code) is one step. *)
(* Modelled are the methods that take more than one: those that read the   *)
(* length, let go of the array to allocate memory or to convert arguments, *)
(* and come back; tofile(), which lets go for each block; extend(), which  *)
(* runs the iterator and the conversions of its items; and the search      *)
(* iterator, which threads may share.  append() and pop() stand for those  *)
(* of one step.                                                            *)
(***************************************************************************)
EXTENDS Integers, Sequences, SequencesExt, FiniteSetsExt

CONSTANTS
  Threads,
  Ops,          \* the calls that threads make
  Contents,     \* what the array may hold at first
  Searches,     \* what the iterator may look for, and from which end
  BlockSize,    \* BLOCKSIZE
  MaxCalls,     \* bound on the number of calls
  GilDisabled,  \* the build: extend() uses a temporary array
  Undef         \* an element that was never written

Bit == {0, 1}

\* The calls and their arguments.  An iterator that does not raise has come to its
\* end; a sequence never raises.
WellFormed(o) ==
  \/ o \in [name : {"tolist", "tofile", "search", "pop"}]
  \/ o \in [name : {"append"}, value : Bit]
  \/ o \in [name : {"getseq", "delseq"}, seq : Seq(Int)]
  \/ o \in [name : {"setseq"}, seq : Seq(Int), values : Seq(Bit)]
  \/ o \in [name : {"rotate"}, k : Int]
  \/ /\ o \in [name : {"extend"}, sequence : BOOLEAN, items : Seq(Int), raises : BOOLEAN]
     /\ o.sequence => ~o.raises

ASSUME ArgumentsAssumption ==
  /\ \A o \in Ops : WellFormed(o)
  /\ \A s \in Contents : s \in Seq(Bit)
  /\ \A s \in Searches : s \in [sub : Seq(Bit), right : BOOLEAN]
  /\ BlockSize \in Nat \ {0} /\ MaxCalls \in Nat
  /\ GilDisabled \in BOOLEAN /\ Undef \notin Bit

VARIABLES
  arr,          \* the elements of the array
  call,         \* the local state of each thread's call
  seen,         \* the contents of arr since each thread's call began
  out,          \* what each thread got from its last call
  it,           \* the search iterator
  calls

vars == <<arr, call, seen, out, it, calls>>

Pending == [exc |-> "pending", value |-> <<>>]

\* nbits: the length read at first; at: where to store or read on;
\* k: items taken; tmp: a temporary array, or what a file has got;
\* start, stop, pos: local variables of searchiter_next().
NoCall ==
  [op |-> [name |-> "idle"], pc |-> "idle", nbits |-> 0, at |-> 0, k |-> 0,
   tmp |-> <<>>, exc |-> "none", start |-> 0, stop |-> 0, pos |-> 0]

FirstStep(o) ==
  CASE o.name = "tofile" -> "write"
    [] o.name = "extend" -> IF o.sequence THEN "size" ELSE "next"
    [] o.name = "search" -> "search"
    [] OTHER -> "lock"

\* nbits is read in a critical section of its own.  extend() reads the length of
\* the array that takes the items.
Begin(t) ==
  /\ call[t].pc = "idle" /\ calls < MaxCalls
  /\ \E o \in Ops :
       call' = [call EXCEPT ![t] =
         [NoCall EXCEPT !.op = o, !.pc = FirstStep(o),
            !.nbits = IF o.name = "extend" /\ GilDisabled THEN 0 ELSE Len(arr)]]
  /\ seen' = [seen EXCEPT ![t] = {arr}]
  /\ out' = [out EXCEPT ![t] = Pending]
  /\ calls' = calls + 1
  /\ UNCHANGED <<arr, it>>

At(t, pc, names) == call[t].pc = pc /\ call[t].op.name \in names

Return(t, exc, value) ==
  /\ call' = [call EXCEPT ![t] = NoCall]
  /\ out' = [out EXCEPT ![t] = [exc |-> exc, value |-> value]]
  /\ UNCHANGED calls

\* Calls in progress see s from now on.
Becomes(s) ==
  /\ arr' = s
  /\ seen' = [u \in Threads |-> IF call'[u].pc = "idle" THEN {} ELSE seen[u] \union {s}]
  /\ it' = [it EXCEPT !.intact = @ /\ s = arr]

Unmodified == Becomes(arr)

\* getbit() and setbit() at any place: what is beyond the end is undefined.
getbit(s, i)    == IF i \in 0 .. (Len(s) - 1) THEN s[i + 1] ELSE Undef
setbit(s, i, v) == IF i \in 0 .. (Len(s) - 1) THEN [s EXCEPT ![i + 1] = v] ELSE s

resize(s, n) ==
  IF n <= Len(s) THEN SubSeq(s, 1, n) ELSE s \o [i \in 1 .. (n - Len(s)) |-> Undef]

-------------------------------------------------------------------------------
(* Methods that come back: the length has to be what it was.               *)

TwoPhase == {"tolist", "getseq", "setseq", "delseq", "rotate"}
Indexing == {"getseq", "setseq", "delseq"}

\* index_from_seq(), with the length read at first.
Normalized(t, i) == IF i < 0 THEN i + call[t].nbits ELSE i
IndexAt(t, j)    == Normalized(t, call[t].op.seq[j])
Converted(t)     == At(t, "lock", Indexing) =>
                      \A j \in DOMAIN call[t].op.seq : IndexAt(t, j) \in 0 .. (call[t].nbits - 1)

RightSize(t) == At(t, "lock", {"setseq"}) => Len(call[t].op.seq) = Len(call[t].op.values)

\* (Slips: the length does not matter, or a longer array will do, too.)
LengthAny(t) == TRUE
LengthEnough(t) == Len(arr) >= call[t].nbits
LengthKept(t) == Len(arr) = call[t].nbits

BadIndex(t) ==
  /\ At(t, "lock", Indexing) /\ ~Converted(t)
  /\ Return(t, "IndexError", <<>>) /\ Unmodified

WrongSize(t) ==
  /\ At(t, "lock", {"setseq"}) /\ Converted(t) /\ ~RightSize(t)
  /\ Return(t, "ValueError", <<>>) /\ Unmodified

\* rotate() returns early if there is nothing to do.
NoRotation(t) == LET c == call[t]
                 IN  At(t, "lock", {"rotate"}) /\ (c.nbits >= 2 => (c.op.k % c.nbits) = 0)

RotateNothing(t) == NoRotation(t) /\ Return(t, "none", <<>>) /\ Unmodified

Ready(t, name) ==
  At(t, "lock", {name}) /\ Converted(t) /\ RightSize(t) /\ ~NoRotation(t) /\ LengthKept(t)

ChangedSize(t) ==
  /\ \/ At(t, "lock", TwoPhase) /\ Converted(t) /\ RightSize(t) /\ ~NoRotation(t)
     \/ At(t, "write", {"tofile"}) /\ call[t].at < call[t].nbits
  /\ ~LengthKept(t)
  /\ Return(t, "RuntimeError", <<>>) /\ Unmodified

ToList(t) ==
  /\ Ready(t, "tolist")
  /\ Return(t, "none", [i \in 1 .. call[t].nbits |-> getbit(arr, i - 1)])
  /\ Unmodified

GetSequence(t) ==
  /\ Ready(t, "getseq")
  /\ Return(t, "none", [j \in DOMAIN call[t].op.seq |-> getbit(arr, IndexAt(t, j))])
  /\ Unmodified

\* The loop of setseq_pauliebits() over j; later assignments win.
Stored(t) ==
  LET seq == call[t].op.seq
      after[j \in 0 .. Len(seq)] ==
        IF j = 0 THEN arr
        ELSE setbit(after[j - 1], IndexAt(t, j), call[t].op.values[j])
  IN  after[Len(seq)]

SetSequence(t) ==
  /\ Ready(t, "setseq")
  /\ Return(t, "none", <<>>)
  /\ Becomes(Stored(t))

\* delmask_lock_held() with the mask of the indices: what is kept moves down.
Kept(t) ==
  LET mask == {IndexAt(t, j) : j \in DOMAIN call[t].op.seq}
      below[i \in 0 .. call[t].nbits] ==
        IF i = 0 THEN <<>>
        ELSE IF i - 1 \in mask THEN below[i - 1] ELSE Append(below[i - 1], getbit(arr, i - 1))
  IN  below[call[t].nbits]

DelSequence(t) ==
  /\ Ready(t, "delseq")
  /\ Return(t, "none", <<>>)
  /\ Becomes(Kept(t))

\* rotate_lock_held(): the shorter end is saved, the rest moves, and what was
\* saved is put back at the other end.
Rotate(t) ==
  LET n == call[t].nbits
      k == call[t].op.k % n
  IN  /\ Ready(t, "rotate")
      /\ Return(t, "none", <<>>)
      /\ Becomes(SubSeq(arr, n - k + 1, n) \o SubSeq(arr, 1, n - k))

-------------------------------------------------------------------------------
(* tofile(): a block at a time.                                            *)

BlockEnd(t) == Min({call[t].at + BlockSize, call[t].nbits})

WriteBlock(t) ==
  /\ At(t, "write", {"tofile"}) /\ call[t].at < call[t].nbits /\ LengthKept(t)
  /\ call' = [call EXCEPT
       ![t].tmp = @ \o [i \in 1 .. (BlockEnd(t) - call[t].at) |-> getbit(arr, call[t].at + i - 1)],
       ![t].at = BlockEnd(t)]
  /\ Unmodified /\ UNCHANGED <<out, calls>>

FileWritten(t) ==
  /\ At(t, "write", {"tofile"}) /\ call[t].at >= call[t].nbits
  /\ Return(t, "none", call[t].tmp) /\ Unmodified

-------------------------------------------------------------------------------
(* extend(): the iterator, and the conversion of each item, run Python     *)
(* code.  Without the GIL items go to a temporary array at first.          *)

Target(t) == IF GilDisabled THEN call[t].tmp ELSE arr

\* The target becomes s, and the call c.
Put(t, s, c) ==
  /\ UNCHANGED <<out, calls>>
  /\ IF GilDisabled
     THEN call' = [call EXCEPT ![t] = [c EXCEPT !.tmp = s]] /\ Unmodified
     ELSE call' = [call EXCEPT ![t] = c] /\ Becomes(s)

Items(t) == call[t].op.items

\* extend_sequence() makes room for all items ...
MakeRoom(t) ==
  LET c == call[t]
  IN  /\ At(t, "size", {"extend"})
      /\ Put(t, resize(Target(t), c.nbits + Len(Items(t))),
             [c EXCEPT !.pc = IF Items(t) = <<>> THEN "finish" ELSE "store", !.at = c.nbits])

\* ... and extend_iter() for each, behind the last.
NextItem(t) ==
  LET c == call[t]
  IN  /\ At(t, "next", {"extend"}) /\ c.k < Len(Items(t))
      /\ Put(t, resize(Target(t), Len(Target(t)) + 1),
             [c EXCEPT !.pc = "store", !.at = Len(Target(t))])

IteratorEnds(t) ==
  /\ At(t, "next", {"extend"}) /\ call[t].k = Len(Items(t))
  /\ call' = [call EXCEPT ![t].pc = "finish",
                          ![t].exc = IF call[t].op.raises THEN "iterator" ELSE "none"]
  /\ Unmodified /\ UNCHANGED <<out, calls>>

\* set_item(): the place was computed before the conversion.
StoreItem(t) ==
  LET c == call[t]
      last == c.k + 1 = Len(Items(t))
  IN  /\ At(t, "store", {"extend"}) /\ Items(t)[c.k + 1] \in Bit
      /\ Put(t, setbit(Target(t), c.at, Items(t)[c.k + 1]),
             [c EXCEPT !.k = @ + 1,
                !.at = @ + 1,
                !.pc = IF ~c.op.sequence THEN "next" ELSE IF last THEN "finish" ELSE "store"])

\* An item that is no bit: back to the length at the beginning.
BadItem(t) ==
  LET c == call[t]
  IN  /\ At(t, "store", {"extend"}) /\ Items(t)[c.k + 1] \notin Bit
      /\ Put(t, resize(Target(t), c.nbits), [c EXCEPT !.pc = "finish", !.exc = "ValueError"])

\* What was taken is appended to the array, also after a failure.
FinishExtend(t) ==
  /\ At(t, "finish", {"extend"})
  /\ Return(t, call[t].exc, <<>>)
  /\ IF GilDisabled THEN Becomes(arr \o call[t].tmp) ELSE Unmodified

-------------------------------------------------------------------------------
(* Methods of a single step.                                               *)

AppendItem(t) ==
  /\ At(t, "lock", {"append"})
  /\ Return(t, "none", <<>>)
  /\ Becomes(setbit(resize(arr, Len(arr) + 1), Len(arr), call[t].op.value))

Pop(t) ==
  /\ At(t, "lock", {"pop"})
  /\ IF arr = <<>> THEN Return(t, "IndexError", <<>>) /\ Unmodified
     ELSE Return(t, "none", <<getbit(arr, Len(arr) - 1)>>) /\ Becomes(resize(arr, Len(arr) - 1))

-------------------------------------------------------------------------------
(* A thread that loops over the search iterator, which others may do, too. *)

Occurs(s, sub, i) == \A k \in 1 .. Len(sub) : getbit(s, i + k - 1) = sub[k]
Occurrences(s, sub, start, stop) == {i \in start .. (stop - Len(sub)) : Occurs(s, sub, i)}

SearchRead(t) ==
  /\ At(t, "search", {"search"})
  /\ call' = [call EXCEPT ![t].pc = "find", ![t].start = it.start, ![t].stop = it.stop]
  /\ Unmodified /\ UNCHANGED <<out, calls>>

InBounds(t) ==
  LET c == call[t] IN c.start <= Len(arr) /\ c.stop >= 0 /\ c.stop <= Len(arr)

\* The occurrences from which the next position is chosen.
Ahead(t) == IF InBounds(t) THEN Occurrences(arr, it.sub, call[t].start, call[t].stop) ELSE {}

SearchFind(t) ==
  LET pos == IF it.right THEN Max(Ahead(t)) ELSE Min(Ahead(t))
  IN  /\ At(t, "find", {"search"}) /\ Ahead(t) # {}
      /\ call' = [call EXCEPT ![t].pc = "advance", ![t].pos = pos]
      /\ it' = [it EXCEPT !.found = @ \union {pos}]
      /\ UNCHANGED <<arr, seen, out, calls>>

StopIteration(t) ==
  /\ At(t, "find", {"search"}) /\ Ahead(t) = {}
  /\ Return(t, "StopIteration", <<>>) /\ Unmodified

\* (Slips: the iterator stays where it is, or goes on behind the occurrence.)
Again(i, pos)  == IF i.right THEN [i EXCEPT !.stop = pos + Len(i.sub)]
                             ELSE [i EXCEPT !.start = pos]
Behind(i, pos) == IF i.right THEN [i EXCEPT !.stop = pos]
                             ELSE [i EXCEPT !.start = pos + Len(i.sub)]
Advanced(i, pos) ==
  IF i.right THEN [i EXCEPT !.stop = pos + Len(i.sub) - 1]
             ELSE [i EXCEPT !.start = pos + 1]

SearchAdvance(t) ==
  /\ At(t, "advance", {"search"})
  /\ it' = Advanced(it, call[t].pos)
  /\ call' = [call EXCEPT ![t].pc = "search"]
  /\ UNCHANGED <<arr, seen, out, calls>>

-------------------------------------------------------------------------------
\* found and intact are for the properties: the positions found so far, and
\* whether arr is as it was when the iterator was created.
Init ==
  /\ arr \in Contents
  /\ call = [t \in Threads |-> NoCall]
  /\ seen = [t \in Threads |-> {}]
  /\ out = [t \in Threads |-> Pending]
  /\ \E s \in Searches :
       it = [start |-> 0, stop |-> Len(arr), sub |-> s.sub, right |-> s.right,
             found |-> {}, intact |-> TRUE]
  /\ calls = 0

Step(t) ==
  \/ BadIndex(t) \/ WrongSize(t) \/ RotateNothing(t) \/ ChangedSize(t)
  \/ ToList(t) \/ GetSequence(t) \/ SetSequence(t) \/ DelSequence(t) \/ Rotate(t)
  \/ WriteBlock(t) \/ FileWritten(t)
  \/ MakeRoom(t) \/ NextItem(t) \/ IteratorEnds(t) \/ StoreItem(t) \/ BadItem(t)
  \/ FinishExtend(t)
  \/ AppendItem(t) \/ Pop(t)
  \/ SearchRead(t) \/ SearchFind(t) \/ StopIteration(t) \/ SearchAdvance(t)

Next == \E t \in Threads : Begin(t) \/ Step(t)

\* The system schedules each thread, and critical sections are short.
Spec == Init /\ [][Next]_vars /\ \A t \in Threads : WF_vars(Step(t))

-------------------------------------------------------------------------------
\* The indices with which a thread in its next step calls getbit() and setbit().
Accessed(t) ==
  LET c == call[t]
  IN  UNION {
        IF Ready(t, "tolist") \/ Ready(t, "delseq") \/ Ready(t, "rotate")
          THEN 0 .. (c.nbits - 1) ELSE {},
        IF Ready(t, "getseq") \/ Ready(t, "setseq")
          THEN {IndexAt(t, j) : j \in DOMAIN c.op.seq} ELSE {},
        IF At(t, "write", {"tofile"}) /\ LengthKept(t) THEN c.at .. (BlockEnd(t) - 1) ELSE {},
        IF At(t, "find", {"search"}) /\ InBounds(t) THEN c.start .. (c.stop - 1) ELSE {}}

\* The assertions of getbit() and setbit(): whatever other threads do to the array
\* between the steps of a method, it does not use an index beyond the end.  Without
\* the GIL, no thread ever sees an element that nobody has set.
AccessesValid ==
  /\ \A t \in Threads :
       /\ Accessed(t) \subseteq 0 .. (Len(arr) - 1)
       /\ At(t, "store", {"extend"}) => call[t].at < Len(Target(t))
  /\ GilDisabled => Undef \notin Range(arr)

Atomic == INSTANCE AtomicCalls WITH op <- [t \in Threads |-> call[t].op]

\* Without the GIL, each call is atomic in the sense of AtomicCalls: results belong
\* to one content, effects are complete, and a RuntimeError has its reason.
CallsAtomic == Atomic!Spec

\* Threads that share an iterator find all occurrences, if nobody changes the
\* array: though its steps interleave and may set it back, none is skipped when
\* a thread comes to the end.
SearchComplete ==
  it.intact =>
    \A t \in Threads :
      out[t].exc = "StopIteration" => it.found = Occurrences(arr, it.sub, 0, Len(arr))

\* Every call returns, and every loop over the shared iterator ends, although
\* threads that were slow set the iterator back and others change the array.
CallsReturn == \A t \in Threads : call[t].pc # "idle" ~> call[t].pc = "idle"
===============================================================================
