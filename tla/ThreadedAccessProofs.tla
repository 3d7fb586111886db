------------------------- MODULE ThreadedAccessProofs -------------------------
(***************************************************************************)
(* Threads that share an array, whatever their number, the calls they make *)
(* and the bound on the number of calls, in the build without the GIL.     *)
(***************************************************************************)
EXTENDS ThreadedAccess, InductionLemmas, SequenceTheorems, FiniteSetTheorems, TLAPS

-------------------------------------------------------------------------------
(* The inductive invariant.                                                *)

Pcs == {"idle", "lock", "write", "size", "next", "store", "finish", "search", "find",
        "advance"}

Local ==
  [op : Ops \union {NoCall.op}, pc : Pcs, nbits : Nat, at : Nat, k : Nat,
   tmp : Seq(Bit \union {Undef}), exc : {"none", "iterator", "ValueError"},
   start : Nat, stop : Int, pos : Nat]

Iterator ==
  [start : Nat, stop : Int, sub : Seq(Bit), right : BOOLEAN, found : SUBSET Nat,
   intact : BOOLEAN]

Exceptions ==
  {"pending", "none", "IndexError", "ValueError", "RuntimeError", "iterator", "StopIteration"}

Types ==
  /\ arr \in Seq(Bit)
  /\ call \in [Threads -> Local]
  /\ seen \in [Threads -> SUBSET Seq(Bit)]
  /\ out \in [Threads -> [exc : Exceptions, value : Seq(Bit)]]
  /\ it \in Iterator
  /\ calls \in Nat

\* Where a call can be.
Places(o) ==
  CASE o.name = "idle"   -> {"idle"}
    [] o.name = "tofile" -> {"write"}
    [] o.name = "search" -> {"search", "find", "advance"}
    [] o.name = "extend" -> {IF o.sequence THEN "size" ELSE "next", "store", "finish"}
    [] OTHER             -> {"lock"}

Busy(t) == call[t].pc # "idle"

\* The contents seen that have the length read at first.
Read(t) == {s \in seen[t] : Len(s) = call[t].nbits}

Control(t) ==
  /\ call[t].pc \in Places(call[t].op)
  /\ ~Busy(t) => call[t] = NoCall /\ seen[t] = {}
  /\ Busy(t) => arr \in seen[t]
  /\ call[t].pc \in {"lock", "write"} => Read(t) # {}

\* What tofile() has written: whole blocks, each from one content.
Written(c, contents) ==
  /\ c.at <= c.nbits /\ Len(c.tmp) = c.at /\ c.tmp \in Seq(Bit)
  /\ c.at = c.nbits \/ \E m \in Nat : c.at = BlockSize * m
  /\ \A b \in 1 .. Atomic!Blocks(c.nbits) : \E s \in contents :
       \A i \in 1 .. c.at : Atomic!Blocks(i) = b => c.tmp[i] = s[i]

Writing(t) == call[t].pc = "write" => Written(call[t], Read(t))

\* The temporary array of extend() begins with the items taken, which are bits;
\* there is a place for the item that comes next.
Taken(c) ==
  /\ c.k <= Len(c.op.items) /\ c.k <= Len(c.tmp)
  /\ \A j \in 1 .. c.k : c.op.items[j] \in Bit /\ c.tmp[j] = c.op.items[j]

Complete(c) ==
  IF c.exc = "ValueError" THEN c.tmp = <<>> /\ ~Atomic!AllBits(c.op.items)
  ELSE /\ c.tmp = c.op.items /\ Atomic!AllBits(c.op.items)
       /\ c.exc = IF c.op.raises THEN "iterator" ELSE "none"

Extended(c) ==
  c.op.name = "extend" =>
    /\ c.nbits = 0
    /\ c.pc # "finish" => c.exc = "none" /\ Taken(c)
    /\ c.pc = "size" => c.k = 0 /\ Len(c.tmp) = 0
    /\ c.pc = "next" => Len(c.tmp) = c.k
    /\ c.pc = "store" =>
         /\ c.k < Len(c.op.items) /\ c.at = c.k
         /\ Len(c.tmp) = IF c.op.sequence THEN Len(c.op.items) ELSE c.k + 1
    /\ c.pc = "finish" => Complete(c)

ThreadInv(t) == Control(t) /\ Writing(t) /\ Extended(call[t])

\* The search: as long as the array is as it was, what has not been found yet is
\* ahead of the iterator, and ahead of every thread that has read it.
All == Occurrences(arr, it.sub, 0, Len(arr))

Passed(start, stop) ==
  \A i \in All : i \in it.found \/ IF it.right THEN i + Len(it.sub) <= stop ELSE start <= i

Fixed(start, stop) == IF it.right THEN start = 0 ELSE stop = Len(arr)

SearchInv ==
  it.intact =>
    /\ it.found \subseteq All
    /\ Passed(it.start, it.stop) /\ Fixed(it.start, it.stop) /\ it.stop <= Len(arr)
    /\ \A t \in Threads :
         /\ call[t].pc = "find" => /\ Passed(call[t].start, call[t].stop)
                                   /\ Fixed(call[t].start, call[t].stop)
                                   /\ call[t].stop <= Len(arr)
         /\ call[t].pc = "advance" =>
              /\ call[t].pos \in All
              /\ LET i == Advanced(it, call[t].pos) IN Passed(i.start, i.stop)

IInv == Types /\ (\A t \in Threads : ThreadInv(t)) /\ SearchInv /\ SearchComplete

-------------------------------------------------------------------------------
(* Sequences of bits.                                                      *)

\* A sequence of bits, and getbit() at its places.
LEMMA BitSeq ==
  ASSUME NEW s \in Seq(Bit)
  PROVE  /\ Len(s) \in Nat /\ DOMAIN s = 1 .. Len(s)
         /\ \A i \in 1 .. Len(s) : s[i] \in Bit
         /\ \A i \in 0 .. (Len(s) - 1) : getbit(s, i) = s[i + 1] /\ getbit(s, i) \in Bit
BY LenProperties, ElementOfSeq DEF getbit

\* setbit() and resize(), with elements of any set.
LEMMA SetBitSeq ==
  ASSUME NEW S, NEW s \in Seq(S), NEW i \in Int, NEW v \in S
  PROVE  /\ setbit(s, i, v) \in Seq(S) /\ Len(setbit(s, i, v)) = Len(s)
         /\ \A j \in 1 .. Len(s) : setbit(s, i, v)[j] = IF j = i + 1 THEN v ELSE s[j]
<1>1. Len(s) \in Nat
  BY LenProperties
<1>2. CASE i \in 0 .. (Len(s) - 1)
  <2>1. i + 1 \in 1 .. Len(s)
    BY <1>1, <1>2
  <2>2. setbit(s, i, v) = [s EXCEPT ![i + 1] = v]
    BY <1>2 DEF setbit
  <2>3. QED
    BY <2>1, <2>2, ExceptSeq
<1>3. CASE i \notin 0 .. (Len(s) - 1)
  <2>1. setbit(s, i, v) = s
    BY <1>3 DEF setbit
  <2>2. \A j \in 1 .. Len(s) : j # i + 1
    BY <1>1, <1>3
  <2>3. QED
    BY <2>1, <2>2
<1>4. QED
  BY <1>2, <1>3

\* resize() keeps what it can, and gives the length asked for.
LEMMA ResizeSeq ==
  ASSUME NEW S, Undef \in S, NEW s \in Seq(S), NEW n \in Nat
  PROVE  /\ resize(s, n) \in Seq(S) /\ Len(resize(s, n)) = n
         /\ \A j \in 1 .. n : j <= Len(s) => resize(s, n)[j] = s[j]
<1>1. Len(s) \in Nat /\ \A j \in 1 .. Len(s) : s[j] \in S
  BY LenProperties, ElementOfSeq
<1>2. CASE n <= Len(s)
  <2>1. resize(s, n) = SubSeq(s, 1, n)
    BY <1>2 DEF resize
  <2>2. \A j \in 1 .. n : s[j] \in S
    BY <1>1, <1>2
  <2>3. /\ SubSeq(s, 1, n) \in Seq(S)
        /\ Len(SubSeq(s, 1, n)) = IF 1 <= n THEN n - 1 + 1 ELSE 0
        /\ \A j \in 1 .. (n - 1 + 1) : SubSeq(s, 1, n)[j] = s[1 + j - 1]
    BY <2>2, SubSeqProperties
  <2>4. QED
    BY <2>1, <2>3
<1>3. CASE n > Len(s)
  <2> DEFINE r == [j \in 1 .. (n - Len(s)) |-> Undef]
  <2>1. resize(s, n) = s \o r
    BY <1>1, <1>3 DEF resize
  <2>2. n - Len(s) \in Nat
    BY <1>1, <1>3
  <2>3. r \in Seq(S)
    BY <2>2, IsASeq
  <2>4. Len(r) = n - Len(s)
    BY <2>2, <2>3
  <2> HIDE DEF r
  <2>5. /\ s \o r \in Seq(S) /\ Len(s \o r) = Len(s) + Len(r)
        /\ \A j \in 1 .. (Len(s) + Len(r)) :
             (s \o r)[j] = IF j <= Len(s) THEN s[j] ELSE r[j - Len(s)]
    BY <2>3, ConcatProperties
  <2>6. Len(s) + Len(r) = n
    BY <1>1, <2>4
  <2>7. QED
    BY <1>1, <2>1, <2>5, <2>6
<1>4. QED
  BY <1>1, <1>2, <1>3

-------------------------------------------------------------------------------
(* Steps of one thread.                                                    *)

\* A thread without a call has local variables of the right types.
LEMMA NoCallLocal == NoCall \in Local
<1>1. <<>> \in Seq(Bit \union {Undef})
  BY EmptySeq
<1>2. QED
  BY <1>1 DEF NoCall, Local, Pcs

\* The content of the array and the calls after a step of t.
LEMMA Moved ==
  ASSUME Types, NEW t \in Threads, NEW c \in Local, NEW s \in Seq(Bit),
         call' = [call EXCEPT ![t] = c], Becomes(s)
  PROVE  /\ arr' \in Seq(Bit) /\ arr' = s
         /\ call' \in [Threads -> Local] /\ call'[t] = c
         /\ \A u \in Threads : u # t => call'[u] = call[u]
         /\ seen' \in [Threads -> SUBSET Seq(Bit)]
         /\ \A u \in Threads :
              seen'[u] = IF call'[u].pc = "idle" THEN {} ELSE seen[u] \union {arr'}
         /\ it' = [it EXCEPT !.intact = it'.intact]
         /\ it'.intact = (it.intact /\ s = arr)
         /\ it' \in Iterator
<1> USE DEF Types, Becomes
<1>1. /\ call' \in [Threads -> Local] /\ call'[t] = c
      /\ \A u \in Threads : u # t => call'[u] = call[u]
  OBVIOUS
<1>2. it' \in Iterator /\ it'.intact = (it.intact /\ s = arr)
      /\ it' = [it EXCEPT !.intact = it'.intact]
  BY DEF Iterator
<1>3. QED
  BY <1>1, <1>2

\* What holds of the other threads is not disturbed.
LEMMA Others ==
  ASSUME Types, NEW u \in Threads, ThreadInv(u), call'[u] = call[u],
         seen'[u] = IF call'[u].pc = "idle" THEN {} ELSE seen[u] \union {arr'}
  PROVE  ThreadInv(u)'
<1>1. CASE call[u].pc = "idle"
  BY <1>1 DEF ThreadInv, Control, Writing, Extended, Busy, NoCall
<1>2. CASE call[u].pc # "idle"
  <2>1. seen'[u] = seen[u] \union {arr'}
    BY <1>2
  <2>2. Read(u) \subseteq Read(u)'
    BY <2>1 DEF Read
  <2>3. Control(u)'
    BY <1>2, <2>1, <2>2 DEF ThreadInv, Control, Busy
  <2>4. Writing(u)'
    <3>1. SUFFICES ASSUME call[u].pc = "write" PROVE Written(call[u], Read(u)')
      BY DEF Writing
    <3>2. Written(call[u], Read(u))
      BY <3>1 DEF ThreadInv, Writing
    <3>3. QED
      BY <2>2, <3>2 DEF Written
  <2>5. QED
    BY <2>3, <2>4 DEF ThreadInv
<1>3. QED
  BY <1>1, <1>2

\* Nor is the search, unless somebody changes the array.
LEMMA SearchKept ==
  ASSUME IInv, NEW t \in Threads, NEW c \in Local, NEW s \in Seq(Bit),
         call' = [call EXCEPT ![t] = c], Becomes(s),
         c.pc \notin {"find", "advance"},
         \A u \in Threads : out'[u].exc = "StopIteration" => out[u].exc = "StopIteration"
  PROVE  SearchInv' /\ SearchComplete'
<1>1. Types
  BY DEF IInv
<1>2. CASE it'.intact
  <2>1. s = arr /\ it.intact /\ it' = it /\ arr' = arr
    <3>1. /\ it'.intact = (it.intact /\ s = arr) /\ arr' = s
          /\ it' = [it EXCEPT !.intact = it'.intact] /\ it \in Iterator
      BY <1>1, Moved DEF Types
    <3>2. QED
      BY <1>2, <3>1 DEF Iterator
  <2>2. \A u \in Threads : call'[u].pc \in {"find", "advance"} => call'[u] = call[u]
    BY <1>1, Moved
  <2>3. SearchInv'
    <3>1. SearchInv
      BY DEF IInv
    <3>2. All' = All
      BY <2>1 DEF All, Occurrences, Occurs
    <3>3. \A start, stop : /\ Passed(start, stop)' <=> Passed(start, stop)
                           /\ Fixed(start, stop)' <=> Fixed(start, stop)
      BY <2>1, <3>2 DEF Passed, Fixed
    <3>4. QED
      BY <1>2, <2>1, <2>2, <3>1, <3>2, <3>3 DEF SearchInv
  <2>4. SearchComplete'
    BY <2>1 DEF IInv, SearchComplete, Occurrences, Occurs
  <2>5. QED
    BY <2>3, <2>4
<1>3. CASE ~it'.intact
  BY <1>3 DEF SearchInv, SearchComplete
<1>4. QED
  BY <1>2, <1>3

\* A call that returns.
LEMMA Returned ==
  ASSUME IInv, NEW t \in Threads, NEW s \in Seq(Bit),
         NEW exc \in Exceptions, exc # "StopIteration", NEW value \in Seq(Bit),
         Return(t, exc, value), Becomes(s)
  PROVE  IInv'
<1>1. call' = [call EXCEPT ![t] = NoCall] /\ Types
  BY DEF Return, IInv
<1>2. NoCall \in Local
  BY NoCallLocal
<1>3. /\ arr' \in Seq(Bit) /\ call' \in [Threads -> Local] /\ call'[t] = NoCall
      /\ \A u \in Threads : u # t => call'[u] = call[u]
      /\ seen' \in [Threads -> SUBSET Seq(Bit)] /\ it' \in Iterator
      /\ \A u \in Threads :
           seen'[u] = IF call'[u].pc = "idle" THEN {} ELSE seen[u] \union {arr'}
  BY <1>1, <1>2, Moved
<1>4. out' \in [Threads -> [exc : Exceptions, value : Seq(Bit)]] /\ calls' \in Nat
      /\ \A u \in Threads : out'[u].exc = "StopIteration" => out[u].exc = "StopIteration"
  BY <1>1 DEF Return, Types
<1>5. Types'
  BY <1>3, <1>4 DEF Types
<1>6. \A u \in Threads : ThreadInv(u)'
  <2>1. TAKE u \in Threads
  <2>2. CASE u = t
    <3>1. call'[u] = NoCall /\ NoCall.pc = "idle"
      BY <1>3, <2>2 DEF NoCall
    <3>2. seen'[u] = {}
      BY <1>3, <3>1
    <3>3. QED
      BY <3>1, <3>2 DEF ThreadInv, Control, Writing, Extended, Busy, NoCall, Places
  <2>3. CASE u # t
    BY <1>1, <1>3, <2>3, Others DEF IInv
  <2>4. QED
    BY <2>2, <2>3
<1>7. SearchInv' /\ SearchComplete'
  BY <1>1, <1>2, <1>4, SearchKept DEF NoCall
<1>8. QED
  BY <1>5, <1>6, <1>7 DEF IInv

\* A call that goes on, and leaves the array alone.
LEMMA WentOn ==
  ASSUME IInv, NEW t \in Threads, NEW c \in Local, Busy(t),
         call' = [call EXCEPT ![t] = c], Unmodified, UNCHANGED <<out, calls>>,
         c.op = call[t].op, c.pc # "idle", c.pc \in Places(c.op),
         c.pc = "write" => call[t].pc = "write" /\ c.nbits = call[t].nbits, c.pc # "lock"
  PROVE  /\ Types' /\ UNCHANGED <<arr, seen, it, out>>
         /\ call'[t] = c /\ Control(t)'
         /\ \A u \in Threads : u # t => call'[u] = call[u] /\ ThreadInv(u)'
<1>1. Types /\ arr \in Seq(Bit) /\ Becomes(arr)
  BY DEF IInv, Types, Unmodified
<1>2. /\ arr' \in Seq(Bit) /\ call' \in [Threads -> Local] /\ call'[t] = c /\ arr' = arr
      /\ \A u \in Threads : u # t => call'[u] = call[u]
      /\ seen' \in [Threads -> SUBSET Seq(Bit)] /\ it' \in Iterator
      /\ it' = [it EXCEPT !.intact = it'.intact] /\ it'.intact = (it.intact /\ arr = arr)
      /\ \A u \in Threads :
           seen'[u] = IF call'[u].pc = "idle" THEN {} ELSE seen[u] \union {arr'}
  BY <1>1, Moved
<1>3. it' = it
  BY <1>1, <1>2 DEF Types, Iterator
<1>4. \A u \in Threads : seen'[u] = seen[u]
  <2>1. TAKE u \in Threads
  <2>2. CASE call[u].pc = "idle"
    <3>1. seen[u] = {} /\ u # t
      BY <2>2 DEF IInv, ThreadInv, Control, Busy
    <3>2. QED
      BY <1>2, <2>2, <3>1
  <2>3. CASE call[u].pc # "idle"
    <3>1. arr \in seen[u] /\ call'[u].pc # "idle"
      BY <1>2, <2>3 DEF IInv, ThreadInv, Control, Busy
    <3>2. seen'[u] = seen[u] \union {arr}
      BY <1>2, <3>1
    <3>3. seen[u] \union {arr} = seen[u]
      BY <3>1
    <3>4. QED
      BY <3>2, <3>3
  <2>4. QED
    BY <2>2, <2>3
<1>5. seen' = seen
  BY <1>1, <1>2, <1>4 DEF Types
<1>6. Types'
  BY <1>1, <1>2 DEF Types
<1>7. Control(t)'
  BY <1>2, <1>5 DEF IInv, ThreadInv, Control, Busy, Read
<1>8. \A u \in Threads : u # t => ThreadInv(u)'
  BY <1>1, <1>2, Others DEF IInv
<1>9. QED
  BY <1>2, <1>3, <1>5, <1>6, <1>7, <1>8

-------------------------------------------------------------------------------
(* Calls and their arguments.                                              *)

\* A thread in a call has the arguments of a call.
LEMMA Arguments ==
  ASSUME Types, NEW t \in Threads, ThreadInv(t), Busy(t)
  PROVE  call[t] \in Local /\ call[t].op \in Ops /\ WellFormed(call[t].op)
<1>1. call[t] \in Local /\ call[t].op \in Ops \union {NoCall.op}
  BY DEF Types, Local
<1>2. call[t].op # NoCall.op
  <2>1. SUFFICES ASSUME call[t].op = NoCall.op PROVE FALSE
    OBVIOUS
  <2>2. call[t].op.name = "idle"
    BY <2>1 DEF NoCall
  <2>3. Places(call[t].op) = {"idle"}
    BY <2>2 DEF Places
  <2>4. QED
    BY <2>3 DEF ThreadInv, Control, Busy
<1>3. QED
  BY <1>1, <1>2, ArgumentsAssumption

\* The types of the arguments of each call.
LEMMA ArgumentTypes ==
  ASSUME NEW o, WellFormed(o)
  PROVE  /\ o.name = "append" => o.value \in Bit
         /\ o.name \in {"getseq", "setseq", "delseq"} => o.seq \in Seq(Int)
         /\ o.name = "setseq" => o.values \in Seq(Bit)
         /\ o.name = "rotate" => o.k \in Int
         /\ o.name = "extend" => /\ o.sequence \in BOOLEAN /\ o.raises \in BOOLEAN
                                 /\ o.items \in Seq(Int)
                                 /\ o.sequence => ~o.raises
         /\ o.name \in {"tolist", "tofile", "search", "pop", "append", "getseq", "setseq",
                        "delseq", "rotate", "extend"}
BY DEF WellFormed

\* What it means that a thread has come back to the array.
LEMMA ReadyFacts ==
  ASSUME Types, NEW t \in Threads, ThreadInv(t), NEW name, Ready(t, name)
  PROVE  /\ Busy(t) /\ call[t].op.name = name /\ WellFormed(call[t].op)
         /\ call[t].nbits = Len(arr)
         /\ name \in Indexing => \A j \in DOMAIN call[t].op.seq :
                                   IndexAt(t, j) \in 0 .. (Len(arr) - 1)
         /\ name \in Indexing => \A j \in DOMAIN call[t].op.seq :
                                   IndexAt(t, j) = Atomic!Index(call[t].op.seq[j], arr)
         /\ name = "setseq" => Len(call[t].op.seq) = Len(call[t].op.values)
<1>1. Busy(t) /\ call[t].op.name = name /\ call[t].pc = "lock"
  BY DEF Ready, At, Busy
<1>2. call[t].nbits = Len(arr)
  BY DEF Ready, LengthKept
<1>3. name \in Indexing => \A j \in DOMAIN call[t].op.seq :
                             IndexAt(t, j) \in 0 .. (Len(arr) - 1)
  BY <1>1, <1>2 DEF Ready, Converted, At
<1>4. \A j : IndexAt(t, j) = Atomic!Index(call[t].op.seq[j], arr)
  BY <1>2 DEF IndexAt, Normalized, Atomic!Index
<1>5. name = "setseq" => Len(call[t].op.seq) = Len(call[t].op.values)
  BY <1>1 DEF Ready, RightSize, At
<1>6. QED
  BY <1>1, <1>2, <1>3, <1>4, <1>5, Arguments

-------------------------------------------------------------------------------
(* What the loops compute.                                                 *)

\* The same operators of the library.
LEMMA SameMax == \A S : Atomic!Max(S) = Max(S)
BY DEF Atomic!Max, Max

\* The operators of the library are the same in AtomicCalls.
LEMMA SameCardinality == \A S : Atomic!Cardinality(S) = Cardinality(S)
BY DEF Atomic!Cardinality, Cardinality

\* The greatest of some of the first places.
LEMMA MaximumUpTo ==
  ASSUME NEW j \in Nat, NEW S \in SUBSET (1 .. j), S # {}
  PROVE  Max(S) \in S /\ \A k \in S : k <= Max(S)
<1>1. 1 \in Int /\ j \in Int
  OBVIOUS
<1>2. QED
  BY <1>1, Maximum

\* After j assignments, element i is the last value assigned to it.
LEMMA StoredAssigned ==
  ASSUME Types, NEW t \in Threads, ThreadInv(t), Ready(t, "setseq")
  PROVE  /\ Stored(t) = Atomic!Assigned(call[t].op.seq, call[t].op.values, arr)
         /\ Stored(t) \in Seq(Bit)
<1> DEFINE seq    == call[t].op.seq
           values == call[t].op.values
           n      == Len(seq)
           Place(k) == IndexAt(t, k)
           Before(j, i) == {k \in 1 .. j : Place(k) = i - 1}
           Element(j, i) == IF Before(j, i) = {} THEN arr[i] ELSE values[Max(Before(j, i))]
           g == [j \in 0 .. n |-> [i \in 1 .. Len(arr) |-> Element(j, i)]]
<1>1. /\ seq \in Seq(Int) /\ values \in Seq(Bit) /\ Len(values) = n
      /\ \A k \in 1 .. n : Place(k) \in 0 .. (Len(arr) - 1)
      /\ \A k \in 1 .. n : Place(k) = Atomic!Index(seq[k], arr)
  <2>1. seq \in Seq(Int) /\ values \in Seq(Bit) /\ Len(values) = n
    BY ReadyFacts, ArgumentTypes DEF Indexing
  <2>2. DOMAIN seq = 1 .. n
    BY <2>1, LenProperties
  <2>3. QED
    BY <2>1, <2>2, ReadyFacts DEF Indexing
<1>2. /\ n \in Nat /\ \A k \in 1 .. n : values[k] \in Bit
      /\ Len(arr) \in Nat /\ \A i \in 1 .. Len(arr) : arr[i] \in Bit
      /\ DOMAIN seq = 1 .. n
  BY <1>1, LenProperties, BitSeq DEF Types
<1> HIDE DEF seq, values, n, Place
<1>3. \A j \in 0 .. n, i \in 1 .. Len(arr) :
        Before(j, i) # {} => Max(Before(j, i)) \in 1 .. j
  <2>1. TAKE j \in 0 .. n, i \in 1 .. Len(arr)
  <2> DEFINE B == Before(j, i)
  <2>2. B \in SUBSET (1 .. j) /\ j \in Nat
    BY <1>2
  <2>3. HAVE Before(j, i) # {}
  <2>4. Max(B) \in B
    <3>1. B # {}
      BY <2>3
    <3> HIDE DEF B
    <3>2. QED
      BY <2>2, <3>1, MaximumUpTo
  <2>5. QED
    BY <2>2, <2>4
<1>4. \A j \in 0 .. n, i \in 1 .. Len(arr) : Element(j, i) \in Bit
  <2>1. TAKE j \in 0 .. n, i \in 1 .. Len(arr)
  <2>2. Before(j, i) # {} => Max(Before(j, i)) \in 1 .. j
    BY <1>3
  <2> HIDE DEF Before
  <2>3. Before(j, i) # {} => values[Max(Before(j, i))] \in Bit
    BY <1>2, <2>2
  <2>4. QED
    BY <1>2, <2>3
<1>5. \A j \in 1 .. n, i \in 1 .. Len(arr) :
        Element(j, i) = IF i = Place(j) + 1 THEN values[j] ELSE Element(j - 1, i)
  <2>1. TAKE j \in 1 .. n, i \in 1 .. Len(arr)
  <2>2. j \in Nat /\ j - 1 \in Nat /\ Place(j) \in Int
    BY <1>1, <1>2
  <2>3. CASE i = Place(j) + 1
    <3> DEFINE B == Before(j, i)
    <3>1. j \in B
      <4>1. j \in 1 .. j /\ Place(j) = i - 1
        BY <1>2, <2>2, <2>3
      <4>2. QED
        BY <4>1
    <3>2. B \in SUBSET (1 .. j)
      OBVIOUS
    <3>3. Max(B) \in 1 .. j /\ j <= Max(B)
      <4> HIDE DEF B
      <4>1. Max(B) \in B /\ \A k \in B : k <= Max(B)
        BY <2>2, <3>1, <3>2, MaximumUpTo
      <4>2. QED
        BY <3>1, <3>2, <4>1
    <3>4. Max(Before(j, i)) = j
      BY <2>2, <3>3
    <3>5. QED
      BY <2>3, <3>1, <3>4
  <2>4. CASE i # Place(j) + 1
    <3>1. Before(j, i) = Before(j - 1, i)
      <4>1. ASSUME NEW k PROVE k \in Before(j, i) <=> k \in Before(j - 1, i)
        <5>1. k = j => Place(k) # i - 1
          BY <2>2, <2>4
        <5>2. QED
          BY <2>2, <5>1
      <4>2. QED
        BY <4>1
    <3>2. QED
      BY <2>4, <3>1
  <2>5. QED
    BY <2>3, <2>4
<1>6. \A j \in 0 .. n : g[j] \in Seq(Bit) /\ Len(g[j]) = Len(arr)
  <2>1. TAKE j \in 0 .. n
  <2>2. g[j] = [i \in 1 .. Len(arr) |-> Element(j, i)] /\ g[j] \in [1 .. Len(arr) -> Bit]
    BY <1>4
  <2>3. QED
    BY <1>2, <2>2, SeqDef
<1>7. g[0] = arr
  <2>1. \A i \in 1 .. Len(arr) : Element(0, i) = arr[i]
    OBVIOUS
  <2>2. arr = [i \in 1 .. Len(arr) |-> arr[i]]
    BY LenProperties DEF Types
  <2>3. QED
    BY <1>2, <2>1, <2>2
<1>8. \A j \in 1 .. n : g[j] = setbit(g[j - 1], Place(j), values[j])
  <2>1. TAKE j \in 1 .. n
  <2>2. /\ j - 1 \in 0 .. n /\ g[j - 1] \in Seq(Bit) /\ Len(g[j - 1]) = Len(arr)
        /\ j \in 0 .. n /\ g[j] \in Seq(Bit) /\ Len(g[j]) = Len(arr)
    <3> HIDE DEF g
    <3> QED
      BY <1>2, <1>6
  <2>3. /\ \A i \in 1 .. Len(arr) : g[j][i] = Element(j, i)
        /\ \A i \in 1 .. Len(arr) : g[j - 1][i] = Element(j - 1, i)
    BY <2>2
  <2> HIDE DEF g, Element
  <2>4. Place(j) \in Int /\ values[j] \in Bit
    BY <1>1, <1>2
  <2> DEFINE r == setbit(g[j - 1], Place(j), values[j])
  <2>5. /\ r \in Seq(Bit) /\ Len(r) = Len(arr)
        /\ \A i \in 1 .. Len(arr) :
             r[i] = IF i = Place(j) + 1 THEN values[j] ELSE g[j - 1][i]
    <3> DEFINE f == g[j - 1]
               p == Place(j)
               v == values[j]
    <3>1. f \in Seq(Bit) /\ Len(f) = Len(arr) /\ p \in Int /\ v \in Bit
      BY <2>2, <2>4
    <3> HIDE DEF f, p, v
    <3>2. /\ setbit(f, p, v) \in Seq(Bit) /\ Len(setbit(f, p, v)) = Len(f)
          /\ \A i \in 1 .. Len(f) : setbit(f, p, v)[i] = IF i = p + 1 THEN v ELSE f[i]
      BY <3>1, SetBitSeq
    <3>3. QED
      BY <3>1, <3>2 DEF f, p, v
  <2> HIDE DEF r
  <2>6. \A i \in 1 .. Len(arr) : g[j][i] = r[i]
    BY <1>5, <2>3, <2>5
  <2>7. g[j] = r
    BY <2>2, <2>5, <2>6, SeqEqual
  <2>8. QED
    BY <2>7 DEF r
<1> DEFINE Loop(f) == [j \in 0 .. n |->
                         IF j = 0 THEN arr ELSE setbit(f[j - 1], Place(j), values[j])]
           after == CHOOSE f : f = Loop(f)
<1>9. g = Loop(g)
  <2>1. \A j \in 0 .. n : g[j] = Loop(g)[j]
    <3>1. TAKE j \in 0 .. n
    <3>2. j = 0 \/ j \in 1 .. n
      OBVIOUS
    <3> HIDE DEF g
    <3>3. QED
      BY <1>7, <1>8, <3>2
  <2>2. QED
    BY <2>1
<1> HIDE DEF g
<1>10. after = Loop(after)
  <2> HIDE DEF Loop
  <2> QED
    BY <1>9
<1>11. \A j \in 0 .. n : after[j] = IF j = 0 THEN arr
                                    ELSE setbit(after[j - 1], Place(j), values[j])
  <2> HIDE DEF after
  <2> QED
    BY <1>10
<1>12. Stored(t) = after[n]
  BY DEF Stored, seq, values, n, Place
<1> HIDE DEF after
<1>13. \A j \in 0 .. n : after[j] = g[j]
  <2> DEFINE S == {j \in Nat : j <= n => after[j] = g[j]}
  <2>1. 0 \in S
    BY <1>2, <1>7, <1>11
  <2>2. ASSUME NEW j \in Nat, j \in S PROVE j + 1 \in S
    <3>1. SUFFICES ASSUME j + 1 <= n PROVE after[j + 1] = g[j + 1]
      OBVIOUS
    <3>2. j + 1 \in 1 .. n /\ j + 1 \in 0 .. n /\ (j + 1) - 1 = j /\ after[j] = g[j]
      BY <1>2, <2>2, <3>1
    <3>3. QED
      BY <1>8, <1>11, <3>2
  <2>3. Nat \subseteq S
    <3> HIDE DEF S
    <3> QED
      BY <2>1, <2>2, SetInduction
  <2>4. QED
    BY <1>2, <2>3
<1>14. Stored(t) = [i \in 1 .. Len(arr) |-> Element(n, i)]
  <2>1. n \in 0 .. n
    BY <1>2
  <2>2. g[n] = [i \in 1 .. Len(arr) |-> Element(n, i)]
    <3> HIDE DEF Element, n
    <3> QED
      BY <2>1 DEF g
  <2> HIDE DEF Element, n
  <2>3. QED
    BY <1>12, <1>13, <2>1, <2>2
<1>15. \A i \in 1 .. Len(arr) :
         Element(n, i) = IF i - 1 \in Atomic!Chosen(seq, arr)
                         THEN values[Max({k \in DOMAIN seq : Atomic!Index(seq[k], arr) = i - 1})]
                         ELSE arr[i]
  <2>1. TAKE i \in 1 .. Len(arr)
  <2>2. Before(n, i) = {k \in DOMAIN seq : Atomic!Index(seq[k], arr) = i - 1}
    BY <1>1, <1>2
  <2>3. Before(n, i) # {} <=> i - 1 \in Atomic!Chosen(seq, arr)
    BY <2>2 DEF Atomic!Chosen
  <2> HIDE DEF Before
  <2>4. QED
    BY <2>2, <2>3
<1>16. Stored(t) = Atomic!Assigned(seq, values, arr)
  <2> HIDE DEF Element
  <2> QED
    BY <1>14, <1>15, SameMax DEF Atomic!Assigned
<1>17. Stored(t) \in Seq(Bit)
  BY <1>2, <1>6, <1>12, <1>13
<1>18. QED
  BY <1>16, <1>17 DEF seq, values

\* A loop over the indices below n which appends what is not in a mask.
IsKeepingLoop(f, s, n, mask) ==
  f = [i \in 0 .. n |->
         IF i = 0 THEN <<>>
         ELSE IF i - 1 \in mask THEN f[i - 1]
         ELSE Append(f[i - 1], getbit(s, i - 1))]

\* There is such a loop, namely that over the elements kept.
LEMMA KeepingLoop ==
  ASSUME NEW s \in Seq(Bit), NEW n \in Nat, n <= Len(s), NEW mask
  PROVE  \E f : IsKeepingLoop(f, s, n, mask)
<1> DEFINE Item(i) == getbit(s, i)
           Next2(i, x) == IF i \in mask THEN x ELSE Append(x, Item(i))
           Runs(f, k) == /\ f \in [0 .. k -> Seq(Bit)]
                         /\ f[0] = <<>>
                         /\ \A i \in 0 .. (k - 1) : f[i + 1] = Next2(i, f[i])
           S == {k \in Nat : k <= n => \E f : Runs(f, k)}
<1>1. 0 \in S
  <2>1. <<>> \in Seq(Bit)
    BY EmptySeq
  <2>2. Runs([i \in 0 .. 0 |-> <<>>], 0)
    BY <2>1
  <2> HIDE DEF Runs
  <2>3. QED
    BY <2>2
<1> HIDE DEF Runs
<1>2. ASSUME NEW k \in Nat, k \in S PROVE k + 1 \in S
  <2>1. SUFFICES ASSUME k + 1 <= n PROVE \E f : Runs(f, k + 1)
    OBVIOUS
  <2>2. PICK f : Runs(f, k)
    BY <1>2, <2>1
  <2>3. Item(k) \in Bit
    BY <2>1, BitSeq
  <2> HIDE DEF Item
  <2>4. f[k] \in Seq(Bit) /\ Next2(k, f[k]) \in Seq(Bit)
    <3>1. f[k] \in Seq(Bit)
      BY <2>2 DEF Runs
    <3>2. QED
      BY <2>3, <3>1, AppendProperties
  <2> HIDE DEF Next2
  <2> DEFINE g == [i \in 0 .. (k + 1) |-> IF i = k + 1 THEN Next2(k, f[k]) ELSE f[i]]
  <2>5. \A i \in 0 .. (k + 1) : g[i] = IF i = k + 1 THEN Next2(k, f[k]) ELSE f[i]
    OBVIOUS
  <2>6. \A i \in 0 .. k : i \in 0 .. (k + 1) /\ i # k + 1
    OBVIOUS
  <2>7. \A i \in 0 .. (k + 1) : i = k + 1 \/ i \in 0 .. k
    OBVIOUS
  <2>8. g \in [0 .. (k + 1) -> Seq(Bit)]
    BY <2>2, <2>4, <2>7 DEF Runs
  <2> HIDE DEF g
  <2>9. g[0] = <<>>
    BY <2>2, <2>5 DEF Runs
  <2>10. ASSUME NEW i \in 0 .. k PROVE g[i + 1] = Next2(i, g[i])
    <3>1. g[i] = f[i]
      BY <2>5, <2>6
    <3>2. CASE i = k
      BY <2>5, <3>1, <3>2
    <3>3. CASE i # k
      <4>1. i \in 0 .. (k - 1) /\ i + 1 \in 0 .. k
        BY <3>3
      <4>2. g[i + 1] = f[i + 1]
        BY <2>5, <2>6, <4>1
      <4>3. QED
        BY <2>2, <3>1, <4>1, <4>2 DEF Runs
    <3>4. QED
      BY <3>2, <3>3
  <2>11. Runs(g, k + 1)
    BY <2>8, <2>9, <2>10 DEF Runs
  <2>12. QED
    BY <2>11
<1>3. n \in S
  <2> HIDE DEF S
  <2> QED
    BY <1>1, <1>2, SetInduction
<1>4. PICK f : Runs(f, n)
  BY <1>3
<1> HIDE DEF Item
<1> DEFINE Loop(h) == [i \in 0 .. n |->
                         IF i = 0 THEN <<>>
                         ELSE IF i - 1 \in mask THEN h[i - 1]
                         ELSE Append(h[i - 1], Item(i - 1))]
<1>5. \A i \in 0 .. n : f[i] = Loop(f)[i]
  <2>1. TAKE i \in 0 .. n
  <2>2. CASE i = 0
    BY <1>4, <2>2 DEF Runs
  <2>3. CASE i # 0
    <3>1. i - 1 \in 0 .. (n - 1) /\ (i - 1) + 1 = i
      BY <2>3
    <3>2. f[i] = Next2(i - 1, f[i - 1])
      BY <1>4, <3>1 DEF Runs
    <3>3. QED
      BY <2>3, <3>2
  <2>4. QED
    BY <2>2, <2>3
<1>6. f = Loop(f)
  <2>1. f = [i \in 0 .. n |-> f[i]]
    BY <1>4 DEF Runs
  <2>2. QED
    BY <1>5, <2>1
<1>7. QED
  BY <1>6 DEF IsKeepingLoop, Item

\* What is kept is the elements at the other indices, in order.  The loop has, when it
\* comes to i, C(i) elements, one for each index kept so far.
LEMMA KeptAt ==
  ASSUME Types, NEW t \in Threads, ThreadInv(t), Ready(t, "delseq")
  PROVE  /\ Kept(t) = Atomic!At(arr, (0 .. (Len(arr) - 1)) \ Atomic!Chosen(call[t].op.seq, arr))
         /\ Kept(t) \in Seq(Bit)
<1> DEFINE seq  == call[t].op.seq
           n    == call[t].nbits
           mask == {IndexAt(t, j) : j \in DOMAIN seq}
           K    == (0 .. (n - 1)) \ mask
           Below(i) == {k \in K : k < i}
           C(i) == Cardinality(Below(i))
           Loop(f) == [i \in 0 .. n |->
                         IF i = 0 THEN <<>>
                         ELSE IF i - 1 \in mask THEN f[i - 1]
                         ELSE Append(f[i - 1], getbit(arr, i - 1))]
           below == CHOOSE f : f = Loop(f)
<1>1. n = Len(arr) /\ n \in Nat /\ arr \in Seq(Bit)
  BY ReadyFacts, LenProperties DEF Types
<1>2. mask = Atomic!Chosen(seq, arr)
  BY ReadyFacts DEF Atomic!Chosen, Indexing
<1>3. Kept(t) = below[n]
  BY DEF Kept
<1> HIDE DEF n, mask
<1>4. \E f : f = Loop(f)
  <2>1. n <= Len(arr)
    BY <1>1
  <2>2. \E f : IsKeepingLoop(f, arr, n, mask)
    BY <1>1, <2>1, KeepingLoop
  <2>3. QED
    BY <2>2 DEF IsKeepingLoop
<1>5. below = Loop(below)
  <2> HIDE DEF Loop
  <2> QED
    BY <1>4
<1> HIDE DEF below
<1>6. /\ below[0] = <<>>
      /\ \A i \in 0 .. (n - 1) : below[i + 1] =
           IF i \in mask THEN below[i] ELSE Append(below[i], arr[i + 1])
  <2>1. ASSUME NEW i \in 0 .. n
        PROVE  below[i] = IF i = 0 THEN <<>>
                          ELSE IF i - 1 \in mask THEN below[i - 1]
                          ELSE Append(below[i - 1], getbit(arr, i - 1))
    BY <1>5
  <2>2. ASSUME NEW i \in 0 .. (n - 1)
        PROVE  i + 1 \in 0 .. n /\ i + 1 # 0 /\ (i + 1) - 1 = i /\ getbit(arr, i) = arr[i + 1]
    BY <1>1, BitSeq
  <2>3. QED
    BY <1>1, <2>1, <2>2
<1>7. ASSUME NEW i \in Nat PROVE IsFiniteSet(Below(i)) /\ C(i) \in Nat
  <2>1. \A k \in Below(i) : k <= i
    BY <1>1
  <2>2. Below(i) \in SUBSET Nat
    BY <1>1
  <2> HIDE DEF Below
  <2>3. IsFiniteSet(Below(i))
    BY <2>1, <2>2, FS_BoundedSetOfNaturals
  <2>4. QED
    BY <2>3, FS_CardinalityType
<1>8. C(0) = 0
  <2>1. Below(0) = {}
    BY <1>1
  <2>2. QED
    BY <2>1, FS_EmptySet
<1>9. ASSUME NEW i \in 0 .. (n - 1)
      PROVE  C(i + 1) = IF i \in mask THEN C(i) ELSE C(i) + 1
  <2>1. CASE i \in mask
    <3>1. Below(i + 1) = Below(i)
      BY <1>1, <2>1
    <3>2. QED
      BY <2>1, <3>1
  <2>2. CASE i \notin mask
    <3> DEFINE X == Below(i)
    <3>1. Below(i + 1) = X \union {i} /\ i \notin X
      BY <1>1, <2>2
    <3>2. IsFiniteSet(X)
      BY <1>7
    <3> HIDE DEF X
    <3>3. Cardinality(X \union {i}) = Cardinality(X) + 1
      BY <3>1, <3>2, FS_AddElement
    <3>4. QED
      BY <2>2, <3>1, <3>3 DEF X
  <2>3. QED
    BY <2>1, <2>2
<1> HIDE DEF C, Below
<1> DEFINE Holds(i) == /\ below[i] \in Seq(Bit) /\ Len(below[i]) = C(i)
                       /\ \A k \in K : k < i =>
                            C(k + 1) \in 1 .. C(i) /\ below[i][C(k + 1)] = arr[k + 1]
                       /\ \A m \in 1 .. C(i) : \E k \in K : k < i /\ C(k + 1) = m
           S == {i \in Nat : i <= n => Holds(i)}
<1>10. Holds(0)
  <2>1. <<>> \in Seq(Bit) /\ Len(<<>>) = 0
    BY EmptySeq
  <2>2. QED
    BY <1>1, <1>6, <1>8, <2>1
<1>11. ASSUME NEW i \in Nat, i + 1 <= n, Holds(i) PROVE Holds(i + 1)
  <2>2. i \in 0 .. (n - 1) /\ Holds(i) /\ C(i) \in Nat
    <3>1. i \in 0 .. (n - 1)
      BY <1>1, <1>11
    <3>2. QED
      BY <1>7, <1>11, <3>1
  <2>3. CASE i \in mask
    <3>1. below[i + 1] = below[i] /\ C(i + 1) = C(i)
      BY <1>6, <1>9, <2>2, <2>3
    <3>2. \A k \in K : k < i + 1 <=> k < i
      BY <1>1, <2>2, <2>3
    <3>3. QED
      BY <2>2, <3>1, <3>2
  <2>4. CASE i \notin mask
    <3>1. below[i + 1] = Append(below[i], arr[i + 1]) /\ C(i + 1) = C(i) + 1
      BY <1>6, <1>9, <2>2, <2>4
    <3>2. i \in K /\ \A k \in K : k < i + 1 <=> k < i \/ k = i
      BY <1>1, <2>2, <2>4
    <3>3. arr[i + 1] \in Bit
      BY <1>1, <2>2, BitSeq
    <3>4. /\ below[i + 1] \in Seq(Bit) /\ Len(below[i + 1]) = C(i + 1)
          /\ \A m \in 1 .. C(i) : below[i + 1][m] = below[i][m]
          /\ below[i + 1][C(i + 1)] = arr[i + 1]
      BY <2>2, <3>1, <3>3, AppendProperties
    <3>5. \A k \in K : k < i + 1 =>
            C(k + 1) \in 1 .. C(i + 1) /\ below[i + 1][C(k + 1)] = arr[k + 1]
      BY <2>2, <3>1, <3>2, <3>4
    <3>6. \A m \in 1 .. C(i + 1) : \E k \in K : k < i + 1 /\ C(k + 1) = m
      <4>1. TAKE m \in 1 .. C(i + 1)
      <4>2. CASE m = C(i + 1)
        BY <3>2, <4>2
      <4>3. CASE m # C(i + 1)
        <5>1. m \in 1 .. C(i)
          BY <2>2, <3>1, <4>3
        <5>2. PICK k \in K : k < i /\ C(k + 1) = m
          BY <2>2, <5>1
        <5>3. QED
          BY <3>2, <5>2
      <4>4. QED
        BY <4>2, <4>3
    <3>7. QED
      BY <3>4, <3>5, <3>6
  <2>5. QED
    BY <2>3, <2>4
<1>12. Holds(n)
  <2> HIDE DEF Holds
  <2>1. 0 \in S
    BY <1>10
  <2>2. \A i \in Nat : i \in S => i + 1 \in S
    BY <1>1, <1>11
  <2>3. Nat \subseteq S
    <3> HIDE DEF S
    <3> QED
      BY <2>1, <2>2, SetInduction
  <2>4. QED
    BY <1>1, <2>3
<1>13. \A k \in K : k < n /\ Atomic!Rank(k, K) = C(k + 1)
  <2>1. TAKE k \in K
  <2>2. k \in Int /\ k < n
    BY <1>1
  <2>3. {j \in K : j <= k} = Below(k + 1)
    BY <1>1, <2>2 DEF Below
  <2>4. QED
    BY <2>2, <2>3, SameCardinality DEF Atomic!Rank, C
<1>14. Atomic!Cardinality(K) = C(n) /\ C(n) \in Nat
  <2>1. Below(n) = K
    BY <1>1 DEF Below
  <2>2. QED
    BY <1>1, <1>7, <2>1, SameCardinality DEF C
<1> HIDE DEF K
<1>15. \A m \in 1 .. C(n) : below[n][m] = arr[(CHOOSE k \in K : Atomic!Rank(k, K) = m) + 1]
  <2>1. TAKE m \in 1 .. C(n)
  <2> DEFINE c == CHOOSE k \in K : Atomic!Rank(k, K) = m
  <2>2. \E k \in K : Atomic!Rank(k, K) = m
    BY <1>12, <1>13
  <2>3. c \in K /\ Atomic!Rank(c, K) = m
    BY <2>2
  <2> HIDE DEF c
  <2>4. below[n][m] = arr[c + 1]
    BY <1>12, <1>13, <2>3
  <2>5. QED
    BY <2>4 DEF c
<1>16. below[n] = [m \in 1 .. C(n) |-> below[n][m]]
  BY <1>12, LenProperties
<1>17. below[n] = Atomic!At(arr, K)
  BY <1>14, <1>15, <1>16 DEF Atomic!At
<1>18. K = (0 .. (Len(arr) - 1)) \ Atomic!Chosen(seq, arr)
  BY <1>1, <1>2 DEF K
<1>19. QED
  BY <1>3, <1>12, <1>17, <1>18

\* The element that rotate() moves to the place of element i.
LEMMA RotatedFrom ==
  ASSUME NEW n \in Nat \ {0}, NEW K \in Int, NEW i \in 1 .. n
  PROVE  /\ K % n \in 0 .. (n - 1)
         /\ (i - 1 - K) % n = IF i <= K % n THEN n + i - 1 - (K % n) ELSE i - 1 - (K % n)
<1> DEFINE q == K \div n
           k == K % n
           P == n * q
           down == n * (-q - 1)
           back == n * (-q)
<1>1. q \in Int /\ k \in 0 .. (n - 1) /\ K = P + k
  OBVIOUS
<1> HIDE DEF q, k
<1>2. P \in Int /\ down = -P - n /\ back = -P /\ -q \in Int /\ -q - 1 \in Int
  BY <1>1
<1>3. \A r \in 0 .. (n - 1) : (down + r) % n = r /\ (back + r) % n = r
  BY <1>2, Division
<1> HIDE DEF P, down, back
<1>4. CASE i <= k
  <2>1. n + i - 1 - k \in 0 .. (n - 1) /\ down + (n + i - 1 - k) = i - 1 - K
    BY <1>1, <1>2, <1>4
  <2>2. (i - 1 - K) % n = n + i - 1 - k
    BY <1>3, <2>1
  <2>3. QED
    BY <1>1, <1>4, <2>2 DEF k
<1>5. CASE ~ (i <= k)
  <2>1. i - 1 - k \in 0 .. (n - 1) /\ back + (i - 1 - k) = i - 1 - K
    BY <1>1, <1>2, <1>5
  <2>2. (i - 1 - K) % n = i - 1 - k
    BY <1>3, <2>1
  <2>3. QED
    BY <1>1, <1>5, <2>2 DEF k
<1>6. QED
  BY <1>4, <1>5

Turned(s, n, k) == SubSeq(s, n - k + 1, n) \o SubSeq(s, 1, n - k)

IsOffset(k, K, n) ==
  \A i \in 1 .. n : (i - 1 - K) % n = IF i <= k THEN n + i - 1 - k ELSE i - 1 - k

\* Both parts of rotate() together are the rotated list.
LEMMA RotatedBy ==
  ASSUME NEW s \in Seq(Bit), NEW K \in Int, NEW n \in Nat \ {0}, n = Len(s),
         NEW k \in 0 .. (n - 1),
         IsOffset(k, K, n)
  PROVE  /\ Atomic!Rotated(K, s) = Turned(s, n, k)
         /\ Atomic!Rotated(K, s) \in Seq(Bit)
         /\ k = 0 => Atomic!Rotated(K, s) = s
<1>1. n \in Nat \ {0} /\ \A i \in 1 .. n : s[i] \in Bit
  BY BitSeq
<1> DEFINE From(i) == IF i <= k THEN n + i - k ELSE i - k
<1>2. \A i \in 1 .. n : ((i - 1 - K) % n) + 1 = From(i) /\ From(i) \in 1 .. n
  <2>1. TAKE i \in 1 .. n
  <2>2. i \in Int /\ k \in Int /\ n \in Int /\ From(i) \in 1 .. n
    BY <1>1
  <2> DEFINE x == (i - 1 - K) % n
  <2>3. x = IF i <= k THEN n + i - 1 - k ELSE i - 1 - k
    BY DEF IsOffset
  <2> HIDE DEF x
  <2>4. x + 1 = From(i)
    BY <2>2, <2>3
  <2>5. QED
    BY <2>2, <2>4 DEF x
<1>3. k \in Nat /\ k <= n - 1
  BY <1>1
<1> HIDE DEF From
<1>4. Atomic!Rotated(K, s) = [i \in 1 .. n |-> s[From(i)]]
  BY <1>2 DEF Atomic!Rotated
<1> DEFINE r == [i \in 1 .. n |-> s[From(i)]]
           a == SubSeq(s, n - k + 1, n)
           b == SubSeq(s, 1, n - k)
<1>5. r \in Seq(Bit) /\ Len(r) = n
  <2>1. r \in [1 .. n -> Bit]
    BY <1>1, <1>2
  <2>2. QED
    BY <1>1, <2>1, SeqDef
<1>6. /\ a \in Seq(Bit) /\ Len(a) = k
      /\ \A i \in 1 .. k : a[i] = s[n - k + i]
  <2>1. n - k + 1 \in Int /\ n \in Int /\ \A i \in (n - k + 1) .. n : s[i] \in Bit
    BY <1>1, <1>3
  <2>2. /\ a \in Seq(Bit)
        /\ Len(a) = IF n - k + 1 <= n THEN n - (n - k + 1) + 1 ELSE 0
        /\ \A i \in 1 .. (n - (n - k + 1) + 1) : a[i] = s[(n - k + 1) + i - 1]
    BY <2>1, SubSeqProperties
  <2> HIDE DEF a
  <2>3. \A i \in 1 .. k : i \in 1 .. (n - (n - k + 1) + 1) /\ (n - k + 1) + i - 1 = n - k + i
    BY <1>1, <1>3
  <2>4. Len(a) = k
    BY <1>1, <1>3, <2>2
  <2>5. QED
    BY <2>2, <2>3, <2>4
<1>7. /\ b \in Seq(Bit) /\ Len(b) = n - k
      /\ \A i \in 1 .. (n - k) : b[i] = s[i]
  <2>1. n - k \in Int /\ 1 \in Int /\ \A i \in 1 .. (n - k) : s[i] \in Bit
    BY <1>1, <1>3
  <2>2. /\ b \in Seq(Bit)
        /\ Len(b) = IF 1 <= n - k THEN n - k - 1 + 1 ELSE 0
        /\ \A i \in 1 .. (n - k - 1 + 1) : b[i] = s[1 + i - 1]
    BY <2>1, SubSeqProperties
  <2> HIDE DEF b
  <2>3. \A i \in 1 .. (n - k) : i \in 1 .. (n - k - 1 + 1) /\ 1 + i - 1 = i
    BY <1>1, <1>3
  <2>4. Len(b) = n - k
    BY <1>1, <1>3, <2>2
  <2>5. QED
    BY <2>2, <2>3, <2>4
<1> HIDE DEF a, b
<1>8. /\ a \o b \in Seq(Bit) /\ Len(a \o b) = n
      /\ \A i \in 1 .. n : (a \o b)[i] = IF i <= k THEN a[i] ELSE b[i - k]
  <2>1. /\ a \o b \in Seq(Bit) /\ Len(a \o b) = Len(a) + Len(b)
        /\ \A i \in 1 .. (Len(a) + Len(b)) :
             (a \o b)[i] = IF i <= Len(a) THEN a[i] ELSE b[i - Len(a)]
    BY <1>6, <1>7, ConcatProperties
  <2>2. Len(a) = k /\ Len(a) + Len(b) = n
    BY <1>1, <1>3, <1>6, <1>7
  <2>3. QED
    BY <2>1, <2>2
<1>9. \A i \in 1 .. n : r[i] = (a \o b)[i]
  <2>1. TAKE i \in 1 .. n
  <2>2. r[i] = s[From(i)]
    OBVIOUS
  <2> HIDE DEF r
  <2>3. CASE i <= k
    <3>1. i \in 1 .. k /\ From(i) = n - k + i
      BY <1>1, <1>3, <2>3 DEF From
    <3>2. QED
      BY <1>6, <1>8, <2>2, <2>3, <3>1
  <2>4. CASE ~ (i <= k)
    <3>1. i - k \in 1 .. (n - k) /\ From(i) = i - k
      BY <1>1, <1>3, <2>4 DEF From
    <3>2. QED
      BY <1>7, <1>8, <2>2, <2>4, <3>1
  <2>5. QED
    BY <2>3, <2>4
<1> HIDE DEF r
<1>10. r = a \o b
  BY <1>5, <1>8, <1>9, SeqEqual
<1>11. k = 0 => r = s
  <2>1. SUFFICES ASSUME k = 0 PROVE r = s
    OBVIOUS
  <2>2. \A i \in 1 .. n : r[i] = s[i]
    BY <1>1, <2>1 DEF r, From
  <2>3. QED
    BY <1>5, <2>2, SeqEqual
<1>12. QED
  BY <1>4, <1>5, <1>10, <1>11 DEF r, a, b, Turned

\* The blocks of a file.
LEMMA BlockOf ==
  ASSUME NEW i \in Nat \ {0}, NEW n \in Nat, i <= n
  PROVE  /\ Atomic!Blocks(i) \in 1 .. Atomic!Blocks(n)
         /\ \A m \in Nat : /\ i <= BlockSize * m => Atomic!Blocks(i) # m + 1
                           /\ i \in (BlockSize * m + 1) .. (BlockSize * m + BlockSize) =>
                                Atomic!Blocks(i) = m + 1
<1> DEFINE B == BlockSize
           d == (i + B - 1) \div B
           r == (i + B - 1) % B
           e == (n + B - 1) \div B
           f == (n + B - 1) % B
<1>1. B \in Nat \ {0}
  BY ArgumentsAssumption
<1>2. /\ d \in Int /\ r \in 0 .. (B - 1) /\ i + B - 1 = B * d + r
      /\ e \in Int /\ f \in 0 .. (B - 1) /\ n + B - 1 = B * e + f
  <2>1. i + B - 1 \in Int /\ n + B - 1 \in Int
    BY <1>1
  <2>2. QED
    BY <1>1, <2>1
<1>3. Atomic!Blocks(i) = d /\ Atomic!Blocks(n) = e
  BY DEF Atomic!Blocks
<1> HIDE DEF d, e, r, f, B
<1>4. B * d \in Int /\ B * e \in Int /\ B * 0 = 0
  BY <1>1, <1>2
<1>5. d >= 1
  <2>1. SUFFICES ASSUME d <= 0 PROVE FALSE
    BY <1>2
  <2>2. B * d <= B * 0
    BY <1>1, <1>2, <2>1, Monotonic
  <2>3. QED
    BY <1>1, <1>2, <1>4, <2>2
<1>6. d <= e
  <2>1. SUFFICES ASSUME e + 1 <= d PROVE FALSE
    BY <1>2
  <2>2. B * (e + 1) <= B * d
    BY <1>1, <1>2, <2>1, Monotonic
  <2>3. B * (e + 1) = B * e + B
    BY <1>1, <1>2
  <2>4. QED
    BY <1>1, <1>2, <1>4, <2>2, <2>3
<1>7. ASSUME NEW m \in Nat
      PROVE  /\ i <= B * m => d # m + 1
             /\ i \in (B * m + 1) .. (B * m + B) => d = m + 1
  <2>1. B * m \in Int /\ B * (m + 1) = B * m + B
    BY <1>1
  <2>2. i <= B * m => d # m + 1
    <3>1. SUFFICES ASSUME i <= B * m, d = m + 1 PROVE FALSE
      OBVIOUS
    <3>2. QED
      BY <1>1, <1>2, <2>1, <3>1
  <2>3. i \in (B * m + 1) .. (B * m + B) => d = m + 1
    <3>1. SUFFICES ASSUME i \in (B * m + 1) .. (B * m + B) PROVE d = m + 1
      OBVIOUS
    <3>2. i - 1 - B * m \in 0 .. (B - 1)
      BY <1>1, <2>1, <3>1
    <3>3. (B * (m + 1) + (i - 1 - B * m)) \div B = m + 1
      BY <1>1, <3>2, Division
    <3>4. B * (m + 1) + (i - 1 - B * m) = i + B - 1
      BY <1>1, <2>1, <3>1
    <3>5. QED
      BY <3>3, <3>4 DEF d
  <2>4. QED
    BY <2>2, <2>3
<1>8. QED
  BY <1>2, <1>3, <1>5, <1>6, <1>7 DEF B

-------------------------------------------------------------------------------
(* The invariant holds at first and is preserved by every action.          *)

\* The empty list.
LEMMA NoSequence == <<>> \in Seq(Bit) /\ <<>> \in Seq(Bit \union {Undef}) /\ Len(<<>>) = 0
BY EmptySeq

\* A call that is not finished has no result.
LEMMA PendingResult ==
  Pending \in [exc : Exceptions, value : Seq(Bit)] /\ Pending.exc = "pending"
BY NoSequence DEF Pending, Exceptions

\* The invariant holds at first.
LEMMA InitIInv == Init => IInv
<1> SUFFICES ASSUME Init PROVE IInv
  OBVIOUS
<1>1. /\ call = [t \in Threads |-> NoCall] /\ NoCall \in Local /\ NoCall.pc = "idle"
      /\ seen = [t \in Threads |-> {}] /\ arr \in Seq(Bit)
  BY NoCallLocal, ArgumentsAssumption DEF Init, NoCall
<1>2. PICK s \in Searches :
        it = [start |-> 0, stop |-> Len(arr), sub |-> s.sub, right |-> s.right,
              found |-> {}, intact |-> TRUE]
  BY DEF Init
<1>3. s.sub \in Seq(Bit) /\ s.right \in BOOLEAN /\ Len(arr) \in Nat /\ Len(s.sub) \in Nat
  BY <1>1, ArgumentsAssumption, LenProperties
<1>4. it \in Iterator
  BY <1>2, <1>3 DEF Iterator
<1>5. Pending \in [exc : Exceptions, value : Seq(Bit)] /\ Pending.exc = "pending"
  BY PendingResult
<1>6. Types
  BY <1>1, <1>4, <1>5 DEF Init, Types
<1>7. \A t \in Threads : ThreadInv(t)
  BY <1>1 DEF ThreadInv, Control, Writing, Extended, Busy, NoCall, Places
<1>8. SearchInv
  <2>1. \A i \in All : i \in Int /\ 0 <= i /\ i + Len(it.sub) <= Len(arr)
    BY <1>2, <1>3 DEF All, Occurrences
  <2>2. Passed(it.start, it.stop) /\ Fixed(it.start, it.stop)
    BY <1>2, <2>1 DEF Passed, Fixed
  <2>3. \A t \in Threads : call[t].pc \notin {"find", "advance"}
    BY <1>1
  <2>4. QED
    BY <1>2, <1>3, <2>2, <2>3 DEF SearchInv
<1>9. SearchComplete
  BY <1>5 DEF Init, SearchComplete
<1>10. QED
  BY <1>6, <1>7, <1>8, <1>9 DEF IInv

\* Where each call begins.
LEMMA FirstPlaces ==
  ASSUME NEW o, WellFormed(o)
  PROVE  /\ FirstStep(o) \in Places(o)
         /\ FirstStep(o) \in {"write", "size", "next", "search", "lock"}
         /\ FirstStep(o) = "write" => o.name = "tofile"
         /\ FirstStep(o) = "size" => o.name = "extend"
         /\ FirstStep(o) = "lock" => o.name # "extend"
         /\ o.name = "extend" => FirstStep(o) \in {"size", "next"}
<1> USE ArgumentTypes DEF FirstStep, Places
<1>1. CASE o.name = "tofile"
  BY <1>1
<1>2. CASE o.name = "search"
  BY <1>2
<1>3. CASE o.name = "extend"
  BY <1>3
<1>4. CASE o.name \notin {"tofile", "search", "extend"}
  BY <1>4
<1>5. QED
  BY <1>1, <1>2, <1>3, <1>4

\* A call begins with the content, and the length, of that moment.
LEMMA BeginIInv ==
  ASSUME GilDisabled, IInv, NEW t \in Threads, Begin(t)
  PROVE  IInv'
<1>1. PICK o \in Ops :
        call' = [call EXCEPT ![t] =
          [NoCall EXCEPT !.op = o, !.pc = FirstStep(o),
             !.nbits = IF o.name = "extend" THEN 0 ELSE Len(arr)]]
  BY DEF Begin
<1> DEFINE c == [NoCall EXCEPT !.op = o, !.pc = FirstStep(o),
                   !.nbits = IF o.name = "extend" THEN 0 ELSE Len(arr)]
<1>2. /\ Types /\ WellFormed(o) /\ arr \in Seq(Bit) /\ Len(arr) \in Nat
      /\ seen' = [seen EXCEPT ![t] = {arr}]
      /\ out' = [out EXCEPT ![t] = Pending] /\ UNCHANGED <<arr, it>> /\ calls' \in Nat
  BY ArgumentsAssumption, LenProperties DEF Begin, IInv, Types
<1>3. /\ c.op = o /\ c.pc = FirstStep(o) /\ c.at = 0 /\ c.k = 0 /\ c.tmp = <<>> /\ c.exc = "none"
      /\ c.nbits = IF o.name = "extend" THEN 0 ELSE Len(arr)
  BY DEF NoCall
<1>4. c \in Local
  <2>1. FirstStep(o) \in Pcs
    BY <1>2, FirstPlaces DEF Pcs
  <2> DEFINE n == IF o.name = "extend" THEN 0 ELSE Len(arr)
             p == FirstStep(o)
  <2>2. c = [op |-> o, pc |-> p, nbits |-> n, at |-> 0, k |-> 0, tmp |-> <<>>,
             exc |-> "none", start |-> 0, stop |-> 0, pos |-> 0]
    <3>1. c = [NoCall EXCEPT !.op = o, !.pc = p, !.nbits = n]
      OBVIOUS
    <3> HIDE DEF n, p, c
    <3>2. QED
      BY <3>1 DEF NoCall
  <2>3. n \in Nat /\ o \in Ops /\ p \in Pcs
    BY <1>2, <2>1
  <2> HIDE DEF n, p, c
  <2>4. QED
    BY <2>2, <2>3, NoSequence DEF Local
<1> HIDE DEF c
<1>5. /\ call' \in [Threads -> Local] /\ call'[t] = c
      /\ \A u \in Threads : u # t => call'[u] = call[u]
  BY <1>1, <1>2, <1>4 DEF Types, c
<1>6. Pending \in [exc : Exceptions, value : Seq(Bit)] /\ Pending.exc = "pending"
  BY PendingResult
<1>7. Types'
  BY <1>2, <1>5, <1>6 DEF Types
<1>8. /\ seen'[t] = {arr'}
      /\ \A u \in Threads : u # t =>
           seen'[u] = IF call'[u].pc = "idle" THEN {} ELSE seen[u] \union {arr'}
  <2>1. seen'[t] = {arr'}
    BY <1>2 DEF Types
  <2>2. ASSUME NEW u \in Threads, u # t
        PROVE  seen'[u] = IF call'[u].pc = "idle" THEN {} ELSE seen[u] \union {arr'}
    <3>1. seen'[u] = seen[u] /\ arr' = arr /\ call'[u] = call[u]
      BY <1>2, <1>5, <2>2 DEF Types
    <3>2. /\ call[u].pc = "idle" => seen[u] = {}
          /\ call[u].pc # "idle" => arr \in seen[u]
      BY DEF IInv, ThreadInv, Control, Busy
    <3>3. call[u].pc # "idle" => seen[u] \union {arr} = seen[u]
      BY <3>2
    <3>4. QED
      BY <3>1, <3>2, <3>3
  <2>3. QED
    BY <2>1, <2>2
<1>9. ThreadInv(t)'
  <2>1. Control(t)'
    <3>1. c.pc # "idle" /\ c.pc \in Places(c.op)
      BY <1>2, <1>3, FirstPlaces
    <3>2. c.pc \in {"lock", "write"} => Len(arr) = c.nbits
      BY <1>2, <1>3, FirstPlaces
    <3>3. QED
      BY <1>2, <1>5, <1>8, <3>1, <3>2 DEF Control, Busy, Read
  <2>2. Writing(t)'
    <3>1. SUFFICES ASSUME c.pc = "write" PROVE Written(c, Read(t)')
      BY <1>5 DEF Writing
    <3>2. o.name # "extend"
      BY <1>2, <1>3, <3>1, FirstPlaces
    <3>3. arr \in Read(t)'
      BY <1>2, <1>3, <1>5, <1>8, <3>2 DEF Read
    <3>4. c.at <= c.nbits /\ Len(c.tmp) = c.at /\ c.tmp \in Seq(Bit)
      BY <1>2, <1>3, <3>2, NoSequence
    <3>5. c.at = BlockSize * 0
      BY <1>3, ArgumentsAssumption
    <3>6. 1 .. c.at = {}
      BY <1>3
    <3>7. QED
      BY <3>3, <3>4, <3>5, <3>6 DEF Written
  <2>3. Extended(c)
    BY <1>2, <1>3, FirstPlaces, ArgumentTypes, LenProperties, NoSequence DEF Extended, Taken
  <2>4. QED
    BY <1>5, <2>1, <2>2, <2>3 DEF ThreadInv
<1>10. \A u \in Threads : ThreadInv(u)'
  BY <1>2, <1>5, <1>8, <1>9, Others DEF IInv
<1>11. SearchInv'
  <2>1. c.pc \notin {"find", "advance"}
    BY <1>2, <1>3, FirstPlaces
  <2>2. \A u \in Threads : call'[u].pc \in {"find", "advance"} => call'[u] = call[u]
    BY <1>5, <2>1
  <2>3. it' = it /\ arr' = arr
    BY <1>2
  <2>4. SearchInv
    BY DEF IInv
  <2>5. All' = All
    BY <2>3 DEF All, Occurrences, Occurs
  <2>6. \A start, stop : /\ Passed(start, stop)' <=> Passed(start, stop)
                         /\ Fixed(start, stop)' <=> Fixed(start, stop)
    BY <2>3, <2>5 DEF Passed, Fixed
  <2>7. QED
    BY <2>2, <2>3, <2>4, <2>5, <2>6 DEF SearchInv
<1>12. SearchComplete'
  <2>1. \A u \in Threads : out'[u].exc = "StopIteration" => out[u].exc = "StopIteration"
    BY <1>2, <1>6 DEF Types
  <2>2. QED
    BY <1>2, <2>1 DEF IInv, SearchComplete, Occurrences, Occurs
<1>13. QED
  BY <1>7, <1>10, <1>11, <1>12 DEF IInv

\* Calls that raise, and change nothing.
LEMMA RaisingIInv ==
  ASSUME IInv, NEW t \in Threads,
         BadIndex(t) \/ WrongSize(t) \/ RotateNothing(t) \/ ChangedSize(t)
  PROVE  IInv'
<1>1. arr \in Seq(Bit) /\ <<>> \in Seq(Bit)
  BY NoSequence DEF IInv, Types
<1>2. \E exc \in Exceptions \ {"StopIteration"} : Return(t, exc, <<>>) /\ Becomes(arr)
  BY DEF BadIndex, WrongSize, RotateNothing, ChangedSize, Unmodified, Exceptions
<1>3. QED
  BY <1>1, <1>2, Returned

\* Calls that only read.
LEMMA ReadingValues ==
  ASSUME Types, NEW t \in Threads, ThreadInv(t)
  PROVE  /\ Ready(t, "tolist") =>
              [i \in 1 .. call[t].nbits |-> getbit(arr, i - 1)] = arr
         /\ Ready(t, "getseq") =>
              LET seq == call[t].op.seq
                  value == [j \in DOMAIN seq |-> getbit(arr, IndexAt(t, j))]
              IN  /\ value = [j \in DOMAIN seq |-> arr[Atomic!Index(seq[j], arr) + 1]]
                  /\ value \in Seq(Bit)
<1>1. arr \in Seq(Bit)
  BY DEF Types
<1>2. ASSUME Ready(t, "tolist")
      PROVE  [i \in 1 .. call[t].nbits |-> getbit(arr, i - 1)] = arr
  <2>1. call[t].nbits = Len(arr) /\ Len(arr) \in Nat
    BY <1>1, <1>2, ReadyFacts, BitSeq
  <2>2. \A i \in 1 .. Len(arr) : getbit(arr, i - 1) = arr[i]
    <3>1. TAKE i \in 1 .. Len(arr)
    <3>2. i - 1 \in 0 .. (Len(arr) - 1) /\ (i - 1) + 1 = i
      BY <2>1
    <3>3. QED
      BY <1>1, <3>2, BitSeq
  <2>3. arr = [i \in 1 .. Len(arr) |-> arr[i]]
    BY <1>1, LenProperties
  <2>4. QED
    BY <2>1, <2>2, <2>3
<1>3. ASSUME Ready(t, "getseq")
      PROVE  LET seq == call[t].op.seq
                 value == [j \in DOMAIN seq |-> getbit(arr, IndexAt(t, j))]
             IN  /\ value = [j \in DOMAIN seq |-> arr[Atomic!Index(seq[j], arr) + 1]]
                 /\ value \in Seq(Bit)
  <2> DEFINE seq == call[t].op.seq
             value == [j \in DOMAIN seq |-> getbit(arr, IndexAt(t, j))]
  <2>1. seq \in Seq(Int) /\ DOMAIN seq = 1 .. Len(seq) /\ Len(seq) \in Nat
    <3>1. seq \in Seq(Int)
      BY <1>3, ReadyFacts, ArgumentTypes
    <3>2. QED
      BY <3>1, LenProperties
  <2>2. \A j \in DOMAIN seq : /\ getbit(arr, IndexAt(t, j)) = arr[Atomic!Index(seq[j], arr) + 1]
                              /\ getbit(arr, IndexAt(t, j)) \in Bit
    <3>1. TAKE j \in DOMAIN seq
    <3>2. IndexAt(t, j) \in 0 .. (Len(arr) - 1) /\ IndexAt(t, j) = Atomic!Index(seq[j], arr)
      BY <1>3, ReadyFacts DEF Indexing
    <3>3. QED
      BY <1>1, <3>2, BitSeq
  <2> HIDE DEF seq
  <2>3. value = [j \in DOMAIN seq |-> arr[Atomic!Index(seq[j], arr) + 1]]
    BY <2>2
  <2>4. value \in [1 .. Len(seq) -> Bit]
    BY <2>1, <2>2
  <2>5. value \in Seq(Bit)
    <3> HIDE DEF value
    <3> QED
      BY <2>1, <2>4, SeqDef
  <2>6. QED
    BY <2>3, <2>5 DEF seq
<1>4. QED
  BY <1>2, <1>3

\* tolist() and a[seq].
LEMMA ReadingIInv ==
  ASSUME IInv, NEW t \in Threads, ToList(t) \/ GetSequence(t)
  PROVE  IInv'
<1>1. arr \in Seq(Bit) /\ "none" \in Exceptions /\ "none" # "StopIteration" /\ Types /\ ThreadInv(t)
  BY DEF IInv, Types, Exceptions
<1>2. \E value \in Seq(Bit) : Return(t, "none", value) /\ Becomes(arr)
  <2>1. CASE ToList(t)
    BY <1>1, <2>1, ReadingValues DEF ToList, Unmodified
  <2>2. CASE GetSequence(t)
    BY <1>1, <2>2, ReadingValues DEF GetSequence, Unmodified
  <2>3. QED
    BY <2>1, <2>2
<1>3. QED
  BY <1>1, <1>2, Returned

\* What rotate() leaves.
LEMMA RotatedValue ==
  ASSUME Types, NEW t \in Threads, ThreadInv(t), Ready(t, "rotate")
  PROVE  LET n == call[t].nbits
             k == call[t].op.k % n
             r == SubSeq(arr, n - k + 1, n) \o SubSeq(arr, 1, n - k)
         IN  r = Atomic!Rotated(call[t].op.k, arr) /\ r \in Seq(Bit)
<1> DEFINE n == call[t].nbits
           K == call[t].op.k
           k == K % n
<1>1. arr \in Seq(Bit) /\ n = Len(arr) /\ K \in Int /\ Len(arr) \in Nat
  BY ReadyFacts, ArgumentTypes, BitSeq DEF Types
<1>2. n >= 2
  <2>1. call[t].pc = "lock" /\ call[t].op.name = "rotate"
    BY DEF Ready, At
  <2>2. ~ (n >= 2 => (K % n) = 0)
    BY <2>1 DEF Ready, NoRotation, At
  <2>3. QED
    BY <2>2
<1> HIDE DEF n, K
<1>3. n \in Nat \ {0} /\ n >= 1
  BY <1>1, <1>2
<1>4. k \in 0 .. (n - 1) /\ IsOffset(k, K, n)
  <2>1. 1 \in 1 .. n
    BY <1>3
  <2>2. QED
    BY <1>1, <1>3, <2>1, RotatedFrom DEF IsOffset
<1> HIDE DEF k
<1>5. Atomic!Rotated(K, arr) = Turned(arr, n, k) /\ Atomic!Rotated(K, arr) \in Seq(Bit)
  BY <1>1, <1>3, <1>4, RotatedBy
<1>6. QED
  BY <1>5 DEF n, k, K, Turned

\* Calls that change several elements.
LEMMA ChangingIInv ==
  ASSUME IInv, NEW t \in Threads, SetSequence(t) \/ DelSequence(t) \/ Rotate(t)
  PROVE  IInv'
<1>1. /\ "none" \in Exceptions /\ "none" # "StopIteration" /\ <<>> \in Seq(Bit)
      /\ Types /\ ThreadInv(t)
  BY NoSequence DEF IInv, Exceptions
<1>2. \E s \in Seq(Bit) : Return(t, "none", <<>>) /\ Becomes(s)
  <2>1. CASE SetSequence(t)
    BY <1>1, <2>1, StoredAssigned DEF SetSequence
  <2>2. CASE DelSequence(t)
    BY <1>1, <2>2, KeptAt DEF DelSequence
  <2>3. CASE Rotate(t)
    BY <1>1, <2>3, RotatedValue DEF Rotate
  <2>4. QED
    BY <2>1, <2>2, <2>3
<1>3. QED
  BY <1>1, <1>2, Returned

\* append() and pop().
LEMMA AppendedValue ==
  ASSUME arr \in Seq(Bit), NEW v \in Bit
  PROVE  /\ setbit(resize(arr, Len(arr) + 1), Len(arr), v) = Append(arr, v)
         /\ Append(arr, v) \in Seq(Bit)
<1> DEFINE S == Bit \union {Undef}
           r == resize(arr, Len(arr) + 1)
           b == setbit(r, Len(arr), v)
<1>1. arr \in Seq(S) /\ Len(arr) \in Nat /\ v \in S /\ Undef \in S
  BY SeqMonotonic, BitSeq
<1> HIDE DEF S
<1>2. /\ r \in Seq(S) /\ Len(r) = Len(arr) + 1
      /\ \A j \in 1 .. (Len(arr) + 1) : j <= Len(arr) => r[j] = arr[j]
  <2>1. Len(arr) + 1 \in Nat
    BY <1>1
  <2>2. QED
    BY <1>1, <2>1, ResizeSeq
<1> HIDE DEF r
<1>3. /\ b \in Seq(S) /\ Len(b) = Len(r)
      /\ \A j \in 1 .. Len(r) : b[j] = IF j = Len(arr) + 1 THEN v ELSE r[j]
  BY <1>1, <1>2, SetBitSeq
<1> HIDE DEF b
<1>4. /\ Append(arr, v) \in Seq(Bit) /\ Append(arr, v) \in Seq(S)
      /\ Len(Append(arr, v)) = Len(arr) + 1
      /\ \A j \in 1 .. Len(arr) : Append(arr, v)[j] = arr[j]
      /\ Append(arr, v)[Len(arr) + 1] = v
  BY <1>1, AppendProperties
<1>5. \A j \in 1 .. (Len(arr) + 1) : b[j] = Append(arr, v)[j]
  <2>1. TAKE j \in 1 .. (Len(arr) + 1)
  <2>2. j = Len(arr) + 1 \/ (j \in 1 .. Len(arr) /\ j <= Len(arr) /\ j # Len(arr) + 1)
    BY <1>1
  <2>3. QED
    BY <1>2, <1>3, <1>4, <2>2
<1>6. b = Append(arr, v)
  BY <1>2, <1>3, <1>4, <1>5, SeqEqual
<1>7. QED
  BY <1>4, <1>6 DEF b, r

\* pop() as a list does it.
LEMMA PoppedValue ==
  ASSUME arr \in Seq(Bit), arr # <<>>
  PROVE  /\ resize(arr, Len(arr) - 1) = SubSeq(arr, 1, Len(arr) - 1)
         /\ resize(arr, Len(arr) - 1) \in Seq(Bit)
         /\ getbit(arr, Len(arr) - 1) = arr[Len(arr)]
         /\ <<getbit(arr, Len(arr) - 1)>> \in Seq(Bit)
<1>1. Len(arr) \in Nat \ {0}
  BY EmptySeq
<1>2. /\ Len(arr) - 1 \in 0 .. (Len(arr) - 1)
      /\ (Len(arr) - 1) + 1 = Len(arr)
      /\ Len(arr) - 1 <= Len(arr)
  BY <1>1
<1>3. resize(arr, Len(arr) - 1) = SubSeq(arr, 1, Len(arr) - 1)
  BY <1>2 DEF resize
<1>4. SubSeq(arr, 1, Len(arr) - 1) \in Seq(Bit)
  <2>1. \A i \in 1 .. (Len(arr) - 1) : arr[i] \in Bit
    BY <1>1, BitSeq
  <2>2. 1 \in Int /\ Len(arr) - 1 \in Int
    BY <1>1
  <2>3. QED
    BY <2>1, <2>2, SubSeqProperties
<1>5. getbit(arr, Len(arr) - 1) = arr[Len(arr)] /\ getbit(arr, Len(arr) - 1) \in Bit
  BY <1>2, BitSeq
<1>6. QED
  BY <1>3, <1>4, <1>5

\* append() and pop().
LEMMA SingleIInv ==
  ASSUME IInv, NEW t \in Threads, AppendItem(t) \/ Pop(t)
  PROVE  IInv'
<1>1. /\ {"none", "IndexError"} \subseteq Exceptions \ {"StopIteration"} /\ <<>> \in Seq(Bit)
      /\ Types /\ ThreadInv(t) /\ arr \in Seq(Bit)
  BY NoSequence DEF IInv, Exceptions, Types
<1>2. \E s \in Seq(Bit), exc \in Exceptions \ {"StopIteration"}, value \in Seq(Bit) :
        Return(t, exc, value) /\ Becomes(s)
  <2>1. CASE AppendItem(t)
    <3>1. Busy(t) /\ call[t].op.name = "append"
      BY <2>1 DEF AppendItem, At, Busy
    <3>2. call[t].op.value \in Bit
      BY <1>1, <3>1, Arguments, ArgumentTypes
    <3>3. QED
      BY <1>1, <2>1, <3>2, AppendedValue DEF AppendItem
  <2>2. CASE Pop(t) /\ arr = <<>>
    BY <1>1, <2>2 DEF Pop, Unmodified
  <2>3. CASE Pop(t) /\ arr # <<>>
    BY <1>1, <2>3, PoppedValue DEF Pop
  <2>4. QED
    BY <2>1, <2>2, <2>3
<1>3. QED
  BY <1>2, Returned

\* tofile().
LEMMA MinPair ==
  ASSUME NEW a \in Int, NEW b \in Int
  PROVE  Min({a, b}) = IF a <= b THEN a ELSE b
<1> DEFINE lo == IF a <= b THEN a ELSE b
           hi == IF a <= b THEN b ELSE a
           S == {a, b}
<1>1. S \in SUBSET (lo .. hi) /\ S # {} /\ lo \in Int /\ hi \in Int
  OBVIOUS
<1>2. Min(S) \in S /\ \A x \in S : Min(S) <= x
  <2> HIDE DEF S, lo, hi
  <2> QED
    BY <1>1, Minimum
<1>3. QED
  BY <1>2

\* Where the next block of tofile() ends.
LEMMA BlockEnds ==
  ASSUME Types, NEW t \in Threads
  PROVE  BlockEnd(t) = IF call[t].at + BlockSize <= call[t].nbits
                       THEN call[t].at + BlockSize ELSE call[t].nbits
<1>1. call[t].at + BlockSize \in Int /\ call[t].nbits \in Int
  BY ArgumentsAssumption DEF Types, Local
<1>2. QED
  BY <1>1, MinPair DEF BlockEnd

\* What is written, and the next block behind it.
LEMMA Concatenated ==
  ASSUME NEW w \in Seq(Bit), NEW b \in Seq(Bit), NEW at \in Nat, NEW e \in Nat,
         Len(w) = at, Len(b) = e - at
  PROVE  /\ w \o b \in Seq(Bit) /\ Len(w \o b) = e
         /\ \A i \in 1 .. e : (w \o b)[i] = IF i <= at THEN w[i] ELSE b[i - at]
<1>1. /\ w \o b \in Seq(Bit) /\ Len(w \o b) = Len(w) + Len(b)
      /\ \A i \in 1 .. (Len(w) + Len(b)) :
           (w \o b)[i] = IF i <= Len(w) THEN w[i] ELSE b[i - Len(w)]
  BY ConcatProperties
<1>2. Len(w) + Len(b) = e
  OBVIOUS
<1>3. QED
  BY <1>1, <1>2

\* The elements of a block.
IsBlock(b, s, at, e) == b = [i \in 1 .. (e - at) |-> getbit(s, at + i - 1)]

\* A block that is read from the array.
LEMMA BlockRead ==
  ASSUME NEW s \in Seq(Bit), NEW at \in Nat, NEW e \in Nat, at <= e, e <= Len(s),
         NEW b, IsBlock(b, s, at, e)
  PROVE  /\ b \in Seq(Bit) /\ Len(b) = e - at
         /\ \A i \in 1 .. (e - at) : b[i] = s[at + i]
<1>1. \A i \in 1 .. (e - at) : /\ getbit(s, at + i - 1) = s[at + i]
                              /\ getbit(s, at + i - 1) \in Bit
  <2>1. TAKE i \in 1 .. (e - at)
  <2>2. at + i - 1 \in 0 .. (Len(s) - 1) /\ (at + i - 1) + 1 = at + i
    BY BitSeq
  <2>3. QED
    BY <2>2, BitSeq
<1>2. e - at \in Nat
  OBVIOUS
<1>3. b \in [1 .. (e - at) -> Bit] /\ \A i \in 1 .. (e - at) : b[i] = s[at + i]
  BY <1>1 DEF IsBlock
<1>4. b \in Seq(Bit)
  BY <1>2, <1>3, SeqDef
<1>5. DOMAIN b = 1 .. (e - at)
  BY <1>3
<1>6. Len(b) = e - at
  BY <1>2, <1>4, <1>5, LenProperties
<1>7. QED
  BY <1>3, <1>4, <1>6

\* A block behind what was written: together they are a longer start of s.
LEMMA StartExtended ==
  ASSUME NEW w \in Seq(Bit), NEW b \in Seq(Bit), NEW s, NEW at \in Nat, NEW e \in Nat,
         at < e, Len(w) = at, Len(b) = e - at,
         \A i \in 1 .. (e - at) : b[i] = s[at + i]
  PROVE  /\ w \o b \in Seq(Bit) /\ Len(w \o b) = e
         /\ \A i \in 1 .. e : (w \o b)[i] = IF i <= at THEN w[i] ELSE s[i]
<1>1. /\ w \o b \in Seq(Bit) /\ Len(w \o b) = e
      /\ \A i \in 1 .. e : (w \o b)[i] = IF i <= at THEN w[i] ELSE b[i - at]
  BY Concatenated
<1>2. ASSUME NEW i \in 1 .. e, ~ (i <= at) PROVE b[i - at] = s[i]
  <2>1. i - at \in 1 .. (e - at) /\ at + (i - at) = i
    BY <1>2
  <2>2. QED
    BY <2>1
<1>3. QED
  BY <1>1, <1>2

\* A block more: it is the one after those that were written.
LEMMA BlockWritten ==
  ASSUME NEW c, NEW d, NEW contents, NEW s \in contents, NEW b, Written(c, contents),
         c.at \in Nat, c.nbits \in Nat, c.at < c.nbits, s \in Seq(Bit), Len(s) = c.nbits,
         d.nbits = c.nbits, d.tmp = c.tmp \o b,
         d.at = IF c.at + BlockSize <= c.nbits THEN c.at + BlockSize ELSE c.nbits,
         IsBlock(b, s, c.at, d.at)
  PROVE  Written(d, contents)
<1> DEFINE B  == BlockSize
           at == c.at
           n  == c.nbits
           e  == d.at
           w  == c.tmp
           x  == d.tmp
<1>1. PICK m \in Nat : at = B * m
  BY DEF Written
<1>2. /\ B \in Nat \ {0} /\ at \in Nat /\ n \in Nat /\ e \in Nat /\ at < e /\ e <= n
      /\ e = n \/ e = at + B
      /\ e <= at + B
  BY ArgumentsAssumption
<1>3. w \in Seq(Bit) /\ Len(w) = at
  BY DEF Written
<1>4. /\ b \in Seq(Bit) /\ Len(b) = e - at
      /\ \A i \in 1 .. (e - at) : b[i] = s[at + i]
  <2>1. e <= Len(s) /\ at <= e /\ IsBlock(b, s, at, e)
    BY <1>2
  <2> HIDE DEF B, at, n, e, w, x
  <2>2. QED
    BY <1>2, <2>1, BlockRead
<1> HIDE DEF B, at, n, e, w, x
<1>5. /\ x \in Seq(Bit) /\ Len(x) = e
      /\ \A i \in 1 .. e : x[i] = IF i <= at THEN w[i] ELSE s[i]
  <2>1. x = w \o b
    BY DEF x, w
  <2>2. /\ w \o b \in Seq(Bit) /\ Len(w \o b) = e
        /\ \A i \in 1 .. e : (w \o b)[i] = IF i <= at THEN w[i] ELSE s[i]
    BY <1>2, <1>3, <1>4, StartExtended, SMTT(20)
  <2>3. QED
    BY <2>1, <2>2
<1>6. e = n \/ \E k \in Nat : e = B * k
  <2>1. CASE e = at + B
    <3>1. B * (m + 1) = B * m + B /\ m + 1 \in Nat
      BY <1>2
    <3>2. QED
      BY <1>1, <2>1, <3>1
  <2>2. QED
    BY <1>2, <2>1
<1>7. ASSUME NEW k \in 1 .. Atomic!Blocks(n)
      PROVE  \E r \in contents : \A i \in 1 .. e : Atomic!Blocks(i) = k => x[i] = r[i]
  <2>1. \A i \in 1 .. e : i \in Nat \ {0} /\ i <= n
    BY <1>2
  <2>2. \A i \in 1 .. e : IF i <= at THEN Atomic!Blocks(i) # m + 1
                         ELSE Atomic!Blocks(i) = m + 1
    <3>1. TAKE i \in 1 .. e
    <3>2. CASE i <= at
      <4>1. i <= BlockSize * m
        BY <1>1, <3>2 DEF B
      <4>2. QED
        BY <1>2, <2>1, <3>2, <4>1, BlockOf
    <3>3. CASE ~ (i <= at)
      <4>1. i \in (BlockSize * m + 1) .. (BlockSize * m + BlockSize)
        BY <1>1, <1>2, <3>3 DEF B
      <4>2. QED
        BY <1>2, <2>1, <3>3, <4>1, BlockOf
    <3>4. QED
      BY <3>2, <3>3
  <2>3. CASE k = m + 1
    BY <1>5, <2>2, <2>3
  <2>4. CASE k # m + 1
    <3>1. PICK r \in contents : \A i \in 1 .. at : Atomic!Blocks(i) = k => w[i] = r[i]
      BY DEF Written, n, at, w
    <3>2. \A i \in 1 .. e : Atomic!Blocks(i) = k => i \in 1 .. at /\ i <= at
      BY <1>2, <2>2, <2>4
    <3>3. \A i \in 1 .. e : Atomic!Blocks(i) = k => x[i] = r[i]
      <4>1. TAKE i \in 1 .. e
      <4>2. HAVE Atomic!Blocks(i) = k
      <4>3. i \in 1 .. at /\ i <= at
        BY <3>2, <4>2
      <4>4. x[i] = w[i] /\ w[i] = r[i]
        BY <1>5, <3>1, <4>2, <4>3
      <4>5. QED
        BY <4>4
    <3>4. QED
      BY <3>3
  <2>5. QED
    BY <2>3, <2>4
<1>8. d.nbits = n
  BY DEF n
<1>9. QED
  <2>1. d.at <= d.nbits /\ Len(d.tmp) = d.at /\ d.tmp \in Seq(Bit)
    BY <1>2, <1>5, <1>8 DEF e, x
  <2>2. d.at = d.nbits \/ \E k \in Nat : d.at = BlockSize * k
    BY <1>6, <1>8 DEF e, B
  <2>3. \A k \in 1 .. Atomic!Blocks(d.nbits) : \E r \in contents :
          \A i \in 1 .. d.at : Atomic!Blocks(i) = k => d.tmp[i] = r[i]
    BY <1>7, <1>8 DEF e, x
  <2>4. QED
    BY <2>1, <2>2, <2>3 DEF Written

\* tofile() writes one more block, if the length is what it was ...
LEMMA WriteIInv ==
  ASSUME IInv, NEW t \in Threads, WriteBlock(t)
  PROVE  IInv'
<1> DEFINE c == call[t]
           b == [i \in 1 .. (BlockEnd(t) - c.at) |-> getbit(arr, c.at + i - 1)]
           d == [c EXCEPT !.tmp = c.tmp \o b, !.at = BlockEnd(t)]
<1>1. /\ Types /\ ThreadInv(t) /\ c \in Local /\ arr \in Seq(Bit)
      /\ c.pc = "write" /\ c.op.name = "tofile" /\ c.at < c.nbits /\ Len(arr) = c.nbits
  BY DEF IInv, Types, WriteBlock, At, LengthKept
<1>2. call' = [call EXCEPT ![t] = d]
  BY <1>1 DEF WriteBlock, Types, Local
<1>3. /\ d.tmp = c.tmp \o b /\ d.at = BlockEnd(t) /\ d.nbits = c.nbits /\ d.pc = c.pc
      /\ d.op = c.op
  BY <1>1 DEF Local
<1>4. c.at \in Nat /\ c.nbits \in Nat
  BY <1>1 DEF Local
<1>5. /\ BlockEnd(t) = IF c.at + BlockSize <= c.nbits THEN c.at + BlockSize ELSE c.nbits
      /\ BlockEnd(t) \in Nat
  BY <1>1, <1>4, BlockEnds, ArgumentsAssumption
<1>6. arr \in Read(t) /\ Written(c, Read(t))
  BY <1>1 DEF ThreadInv, Control, Writing, Busy, Read
<1> HIDE DEF d
<1>7. Written(d, Read(t))
  <2> DEFINE contents == Read(t)
             e == BlockEnd(t)
  <2> HIDE DEF contents, c, e
  <2>1. /\ arr \in contents /\ Written(c, contents) /\ c.at \in Nat /\ c.nbits \in Nat
        /\ c.at < c.nbits /\ arr \in Seq(Bit) /\ Len(arr) = c.nbits
        /\ d.nbits = c.nbits /\ d.tmp = c.tmp \o b
        /\ d.at = IF c.at + BlockSize <= c.nbits THEN c.at + BlockSize ELSE c.nbits
        /\ d.at = e
    BY <1>1, <1>3, <1>4, <1>5, <1>6 DEF contents, e
  <2>2. IsBlock(b, arr, c.at, d.at)
    BY <2>1 DEF e, IsBlock
  <2> HIDE DEF b
  <2>3. QED
    BY <2>1, <2>2, BlockWritten DEF contents
<1>8. d \in Local
  <2>1. d.tmp \in Seq(Bit \union {Undef})
    <3>1. d.tmp \in Seq(Bit)
      BY <1>7 DEF Written
    <3>2. QED
      BY <3>1, SeqMonotonic
  <2>2. QED
    BY <1>1, <1>3, <1>5, <2>1 DEF d, Local
<1>9. /\ Types' /\ UNCHANGED <<arr, seen, it, out>>
      /\ call'[t] = d /\ Control(t)'
      /\ \A u \in Threads : u # t => call'[u] = call[u] /\ ThreadInv(u)'
  <2>1. d.pc = "write" /\ d.pc \in Places(d.op)
    BY <1>1, <1>3 DEF ThreadInv, Control
  <2>2. Busy(t) /\ Unmodified /\ UNCHANGED <<out, calls>>
    BY <1>1 DEF Busy, WriteBlock
  <2>3. QED
    BY <1>1, <1>2, <1>3, <1>8, <2>1, <2>2, WentOn
<1>10. Read(t)' = Read(t)
  BY <1>3, <1>9 DEF Read
<1>11. ThreadInv(t)'
  <2>1. Writing(t)'
    BY <1>7, <1>9, <1>10 DEF Writing
  <2>2. Extended(d)
    BY <1>1, <1>3 DEF Extended
  <2>3. QED
    BY <1>9, <2>1, <2>2 DEF ThreadInv
<1>12. SearchInv' /\ SearchComplete'
  <2>1. Becomes(arr) /\ d.pc \notin {"find", "advance"} /\ out' = out
    BY <1>1, <1>3, <1>9 DEF WriteBlock, Unmodified
  <2>2. QED
    BY <1>1, <1>2, <1>8, <2>1, SearchKept
<1>13. QED
  BY <1>9, <1>11, <1>12 DEF IInv

\* ... and returns after the last.
LEMMA WrittenIInv ==
  ASSUME IInv, NEW t \in Threads, FileWritten(t)
  PROVE  IInv'
<1>1. call[t].tmp \in Seq(Bit)
  BY DEF FileWritten, At, IInv, ThreadInv, Writing, Written
<1>2. /\ "none" \in Exceptions /\ "none" # "StopIteration" /\ arr \in Seq(Bit)
      /\ Return(t, "none", call[t].tmp) /\ Becomes(arr)
  BY DEF Exceptions, FileWritten, Unmodified, IInv, Types
<1>3. QED
  BY <1>1, <1>2, Returned

\* extend().  The items are the elements of a temporary array.
LEMMA ExtendStep ==
  ASSUME IInv, NEW t \in Threads, NEW c \in Local, call[t].op.name = "extend",
         call' = [call EXCEPT ![t] = c], Unmodified, UNCHANGED <<out, calls>>,
         c.op = call[t].op, c.pc \in Places(c.op), c.pc \in {"next", "store", "finish"},
         Extended(c)
  PROVE  IInv'
<1>1. Types /\ ThreadInv(t) /\ Busy(t)
  <2>1. Types /\ ThreadInv(t)
    BY DEF IInv
  <2>2. call[t] # NoCall
    BY DEF NoCall
  <2>3. QED
    BY <2>1, <2>2 DEF ThreadInv, Control
<1>2. /\ Types' /\ UNCHANGED <<arr, seen, it, out>> /\ call'[t] = c /\ Control(t)'
      /\ \A u \in Threads : u # t => call'[u] = call[u] /\ ThreadInv(u)'
  <2>1. c.pc # "idle" /\ c.pc # "write" /\ c.pc # "lock"
    OBVIOUS
  <2>2. QED
    BY <1>1, <2>1, WentOn
<1>3. ThreadInv(t)'
  BY <1>2 DEF ThreadInv, Writing
<1>4. SearchInv' /\ SearchComplete'
  <2>1. Becomes(arr) /\ arr \in Seq(Bit) /\ c.pc \notin {"find", "advance"} /\ out' = out
    BY <1>1 DEF Unmodified, Types
  <2>2. QED
    BY <2>1, SearchKept
<1>5. QED
  BY <1>2, <1>3, <1>4 DEF IInv

\* The call of extend() and its items.
LEMMA ExtendFacts ==
  ASSUME GilDisabled, IInv, NEW t \in Threads, Busy(t), call[t].op.name = "extend"
  PROVE  LET c == call[t]
             items == c.op.items
         IN  /\ c \in Local /\ Extended(c) /\ c.pc \in Places(c.op)
             /\ c.nbits = 0 /\ c.k \in Nat /\ c.tmp \in Seq(Bit \union {Undef})
             /\ Len(c.tmp) \in Nat
             /\ items \in Seq(Int) /\ Len(items) \in Nat /\ Items(t) = items
             /\ c.op.sequence \in BOOLEAN /\ c.op.raises \in BOOLEAN
             /\ c.op.sequence => ~c.op.raises
             /\ Target(t) = c.tmp
             /\ \A s, d : Put(t, s, d) <=> /\ UNCHANGED <<out, calls>> /\ Unmodified
                                           /\ call' = [call EXCEPT ![t] = [d EXCEPT !.tmp = s]]
<1>1. Types /\ ThreadInv(t) /\ call[t] \in Local
  BY DEF IInv, Types
<1>2. WellFormed(call[t].op)
  BY <1>1, Arguments
<1>3. /\ call[t].op.items \in Seq(Int)
      /\ call[t].op.sequence \in BOOLEAN /\ call[t].op.raises \in BOOLEAN
      /\ call[t].op.sequence => ~call[t].op.raises
  BY <1>2, ArgumentTypes
<1>4. call[t].k \in Nat /\ call[t].tmp \in Seq(Bit \union {Undef})
  BY <1>1 DEF Local
<1>5. Extended(call[t]) /\ call[t].pc \in Places(call[t].op)
  BY <1>1 DEF ThreadInv, Control
<1>6. call[t].nbits = 0
  BY <1>5 DEF Extended
<1>7. Len(call[t].op.items) \in Nat /\ Len(call[t].tmp) \in Nat
  BY <1>3, <1>4, LenProperties
<1>8. \A s, d : Put(t, s, d) <=> /\ UNCHANGED <<out, calls>> /\ Unmodified
                                 /\ call' = [call EXCEPT ![t] = [d EXCEPT !.tmp = s]]
  BY DEF Put
<1>9. QED
  BY <1>1, <1>3, <1>4, <1>5, <1>6, <1>7, <1>8 DEF Items, Target

\* A call that has taken all its items, all of them bits.
LEMMA AllTaken ==
  ASSUME NEW c, Taken(c), c.op.items \in Seq(Int), c.k \in Nat, c.k = Len(c.op.items),
         c.tmp \in Seq(Bit \union {Undef}), Len(c.tmp) = c.k
  PROVE  c.tmp = c.op.items /\ Atomic!AllBits(c.op.items)
<1>1. Atomic!AllBits(c.op.items)
  BY LenProperties DEF Taken, Atomic!AllBits, Bit
<1>2. /\ c.tmp \in Seq(Bit \union {Undef} \union Int)
      /\ c.op.items \in Seq(Bit \union {Undef} \union Int)
  BY SeqMonotonic
<1>3. \A j \in 1 .. Len(c.tmp) : c.tmp[j] = c.op.items[j]
  BY DEF Taken
<1>4. c.tmp = c.op.items
  <2> DEFINE p == c.tmp
             q == c.op.items
             S == Bit \union {Undef} \union Int
  <2>1. /\ p \in Seq(S) /\ q \in Seq(S) /\ Len(p) = Len(q)
        /\ \A j \in 1 .. Len(p) : p[j] = q[j]
    BY <1>2, <1>3
  <2> HIDE DEF p, q, S
  <2>2. p = q
    BY <2>1, SeqEqual
  <2>3. QED
    BY <2>2 DEF p, q
<1>5. QED
  BY <1>1, <1>4

\* Room for more elements does not disturb those there are.
LEMMA Resized ==
  ASSUME NEW s \in Seq(Bit \union {Undef}), NEW n \in Nat
  PROVE  /\ resize(s, n) \in Seq(Bit \union {Undef}) /\ Len(resize(s, n)) = n
         /\ \A j \in 1 .. n : j <= Len(s) => resize(s, n)[j] = s[j]
         /\ n = 0 => resize(s, n) = <<>>
<1>1. Undef \in Bit \union {Undef}
  OBVIOUS
<1>2. /\ resize(s, n) \in Seq(Bit \union {Undef}) /\ Len(resize(s, n)) = n
      /\ \A j \in 1 .. n : j <= Len(s) => resize(s, n)[j] = s[j]
  BY <1>1, ResizeSeq
<1>3. n = 0 => resize(s, n) = <<>>
  BY <1>2, EmptySeq
<1>4. QED
  BY <1>2, <1>3

\* extend() makes room, for all items or for the next ...
LEMMA RoomIInv ==
  ASSUME GilDisabled, IInv, NEW t \in Threads, MakeRoom(t) \/ NextItem(t)
  PROVE  IInv'
<1> DEFINE c == call[t]
           n == IF MakeRoom(t) THEN Len(c.op.items) ELSE c.k + 1
           s == resize(c.tmp, n)
           pc == IF MakeRoom(t) /\ c.op.items = <<>> THEN "finish" ELSE "store"
           d == [c EXCEPT !.pc = pc, !.at = c.k, !.tmp = s]
<1>1. Busy(t) /\ c.op.name = "extend"
  BY DEF MakeRoom, NextItem, At, Busy
<1>2. /\ c \in Local /\ Extended(c) /\ c.pc \in Places(c.op)
      /\ c.nbits = 0 /\ c.k \in Nat /\ c.tmp \in Seq(Bit \union {Undef})
      /\ c.op.items \in Seq(Int) /\ Len(c.op.items) \in Nat /\ Items(t) = c.op.items
      /\ c.op.sequence \in BOOLEAN /\ c.op.raises \in BOOLEAN
      /\ c.op.sequence => ~c.op.raises
      /\ Target(t) = c.tmp
  BY <1>1, ExtendFacts
<1>3. \A x, y : Put(t, x, y) <=> /\ UNCHANGED <<out, calls>> /\ Unmodified
                                 /\ call' = [call EXCEPT ![t] = [y EXCEPT !.tmp = x]]
  BY <1>1, ExtendFacts
<1>4. MakeRoom(t) => c.pc = "size" /\ c.k = 0 /\ Len(c.tmp) = 0 /\ c.op.sequence
  BY <1>1, <1>2 DEF MakeRoom, At, Extended, Places
<1>5. ~MakeRoom(t) => /\ NextItem(t) /\ c.pc = "next" /\ Len(c.tmp) = c.k /\ ~c.op.sequence
                      /\ c.k < Len(c.op.items)
  BY <1>1, <1>2 DEF NextItem, At, Extended, Places
<1>6. Len(c.tmp) = c.k /\ Taken(c) /\ c.exc = "none"
  BY <1>1, <1>2, <1>4, <1>5 DEF Extended
<1>7. /\ n \in Nat /\ c.k <= n
      /\ s \in Seq(Bit \union {Undef}) /\ Len(s) = n
      /\ \A j \in 1 .. n : j <= Len(c.tmp) => s[j] = c.tmp[j]
      /\ n = 0 => s = <<>>
  <2>1. n \in Nat /\ c.k <= n
    BY <1>2, <1>4
  <2> HIDE DEF n, c
  <2>2. QED
    BY <1>2, <2>1, Resized
<1>8. UNCHANGED <<out, calls>> /\ Unmodified /\ call' = [call EXCEPT ![t] = d]
  <2>1. CASE MakeRoom(t)
    <3>1. Put(t, resize(c.tmp, 0 + Len(c.op.items)), [c EXCEPT !.pc = pc, !.at = 0])
      BY <1>2, <2>1 DEF MakeRoom
    <3>2. 0 + Len(c.op.items) = n
      BY <1>2, <2>1
    <3>3. Put(t, s, [c EXCEPT !.pc = pc, !.at = c.k])
      BY <1>4, <2>1, <3>1, <3>2
    <3>4. QED
      BY <1>3, <3>3
  <2>2. CASE ~MakeRoom(t)
    <3>1. NextItem(t)
      BY <1>5, <2>2
    <3>2. Put(t, resize(c.tmp, c.k + 1), [c EXCEPT !.pc = "store", !.at = c.k])
      BY <1>2, <1>6, <3>1 DEF NextItem
    <3>3. Put(t, s, [c EXCEPT !.pc = pc, !.at = c.k])
      BY <2>2, <3>2
    <3>4. QED
      BY <1>3, <3>3
  <2>3. QED
    BY <2>1, <2>2
<1>9. /\ d.pc = pc /\ d.at = c.k /\ d.tmp = s /\ d.op = c.op /\ d.k = c.k /\ d.exc = "none"
      /\ d.nbits = 0
  BY <1>2, <1>6 DEF Local
<1>10. d \in Local
  BY <1>2, <1>7 DEF Local, Pcs
<1> HIDE DEF d, s
<1>11. Taken(d)
  <2>1. d.k <= Len(d.op.items) /\ d.k <= Len(d.tmp)
    BY <1>2, <1>4, <1>5, <1>7, <1>9
  <2>2. \A j \in 1 .. d.k : d.op.items[j] \in Bit /\ d.tmp[j] = d.op.items[j]
    <3>1. TAKE j \in 1 .. d.k
    <3>2. j \in 1 .. c.k /\ j \in 1 .. n /\ j <= Len(c.tmp)
      BY <1>2, <1>6, <1>7, <1>9
    <3>3. c.op.items[j] \in Bit /\ c.tmp[j] = c.op.items[j]
      BY <1>6, <3>2 DEF Taken
    <3>4. QED
      BY <1>7, <1>9, <3>2, <3>3
  <2>3. QED
    BY <2>1, <2>2 DEF Taken
<1>12. Extended(d)
  <2>1. CASE pc = "store"
    <3>1. /\ d.k < Len(d.op.items) /\ d.at = d.k
          /\ Len(d.tmp) = IF d.op.sequence THEN Len(d.op.items) ELSE d.k + 1
      <4>1. CASE MakeRoom(t)
        <5>1. c.op.items # <<>>
          BY <2>1, <4>1
        <5>2. Len(c.op.items) # 0
          BY <1>2, <5>1, EmptySeq
        <5>3. QED
          BY <1>2, <1>4, <1>7, <1>9, <4>1, <5>2
      <4>2. CASE ~MakeRoom(t)
        BY <1>5, <1>7, <1>9, <4>2
      <4>3. QED
        BY <4>1, <4>2
    <3>2. QED
      BY <1>9, <1>11, <2>1, <3>1 DEF Extended
  <2>2. CASE pc = "finish"
    <3>1. MakeRoom(t) /\ c.op.items = <<>>
      BY <2>2
    <3>2. Len(c.op.items) = 0
      BY <3>1, EmptySeq
    <3>3. d.tmp = <<>> /\ ~c.op.raises
      BY <1>2, <1>4, <1>7, <1>9, <3>1, <3>2
    <3>4. Atomic!AllBits(<<>>)
      BY DEF Atomic!AllBits
    <3>5. Complete(d)
      BY <1>9, <3>1, <3>3, <3>4 DEF Complete
    <3>6. QED
      BY <1>9, <2>2, <3>5 DEF Extended
  <2>3. QED
    BY <2>1, <2>2
<1>13. d.pc \in Places(d.op) /\ d.pc \in {"next", "store", "finish"}
  BY <1>1, <1>9 DEF Places
<1>14. QED
  BY <1>1, <1>8, <1>9, <1>10, <1>12, <1>13, ExtendStep

\* ... comes to the end of the iterator ...
LEMMA IteratorIInv ==
  ASSUME GilDisabled, IInv, NEW t \in Threads, IteratorEnds(t)
  PROVE  IInv'
<1> DEFINE c == call[t]
           exc == IF c.op.raises THEN "iterator" ELSE "none"
           d == [c EXCEPT !.pc = "finish", !.exc = exc]
<1>1. Busy(t) /\ c.op.name = "extend" /\ c.pc = "next"
  BY DEF IteratorEnds, At, Busy
<1>2. /\ c \in Local /\ Extended(c) /\ c.nbits = 0 /\ c.k \in Nat
      /\ c.tmp \in Seq(Bit \union {Undef}) /\ c.op.items \in Seq(Int) /\ Items(t) = c.op.items
      /\ c.op.raises \in BOOLEAN
  BY <1>1, ExtendFacts
<1>3. Taken(c) /\ Len(c.tmp) = c.k /\ c.k = Len(c.op.items)
  BY <1>1, <1>2 DEF Extended, IteratorEnds
<1>4. c.tmp = c.op.items /\ Atomic!AllBits(c.op.items)
  BY <1>2, <1>3, AllTaken
<1>5. /\ d.pc = "finish" /\ d.tmp = c.tmp /\ d.op = c.op /\ d.exc = exc /\ d.nbits = 0
      /\ d \in Local
  BY <1>2 DEF Local, Pcs
<1>6. call' = [call EXCEPT ![t] = d] /\ UNCHANGED <<out, calls>> /\ Unmodified
  BY DEF IteratorEnds
<1> HIDE DEF d
<1>7. exc # "ValueError" /\ Extended(d)
  BY <1>1, <1>4, <1>5 DEF Extended, Complete
<1>8. d.pc \in Places(d.op)
  BY <1>1, <1>5 DEF Places
<1>9. QED
  BY <1>1, <1>5, <1>6, <1>7, <1>8, ExtendStep

\* ... stores an item at the place it has made for it ...
LEMMA StoreIInv ==
  ASSUME GilDisabled, IInv, NEW t \in Threads, StoreItem(t)
  PROVE  IInv'
<1> DEFINE c == call[t]
           v == c.op.items[c.k + 1]
           s == setbit(c.tmp, c.k, v)
           last == c.k + 1 = Len(c.op.items)
           pc == IF ~c.op.sequence THEN "next" ELSE IF last THEN "finish" ELSE "store"
           d == [c EXCEPT !.k = c.k + 1, !.at = c.k + 1, !.pc = pc, !.tmp = s]
<1>1. Busy(t) /\ c.op.name = "extend" /\ c.pc = "store"
  BY DEF StoreItem, At, Busy
<1>2. /\ c \in Local /\ Extended(c) /\ c.pc \in Places(c.op)
      /\ c.nbits = 0 /\ c.k \in Nat /\ c.tmp \in Seq(Bit \union {Undef})
      /\ c.op.items \in Seq(Int) /\ Len(c.op.items) \in Nat /\ Items(t) = c.op.items
      /\ c.op.sequence \in BOOLEAN /\ c.op.raises \in BOOLEAN
      /\ c.op.sequence => ~c.op.raises
      /\ Target(t) = c.tmp
  BY <1>1, ExtendFacts
<1>3. \A x, y : Put(t, x, y) <=> /\ UNCHANGED <<out, calls>> /\ Unmodified
                                 /\ call' = [call EXCEPT ![t] = [y EXCEPT !.tmp = x]]
  BY <1>1, ExtendFacts
<1>4. /\ Taken(c) /\ c.exc = "none" /\ c.k < Len(c.op.items) /\ c.at = c.k
      /\ Len(c.tmp) = IF c.op.sequence THEN Len(c.op.items) ELSE c.k + 1
      /\ v \in Bit
  BY <1>1, <1>2 DEF Extended, StoreItem
<1>5. /\ s \in Seq(Bit \union {Undef}) /\ Len(s) = Len(c.tmp)
      /\ \A j \in 1 .. Len(c.tmp) : s[j] = IF j = c.k + 1 THEN v ELSE c.tmp[j]
  <2>1. c.k \in Int /\ v \in Bit \union {Undef}
    BY <1>2, <1>4
  <2> HIDE DEF v, c
  <2>2. QED
    BY <1>2, <2>1, SetBitSeq
<1>6. UNCHANGED <<out, calls>> /\ Unmodified /\ call' = [call EXCEPT ![t] = d]
  <2>1. Put(t, s, [c EXCEPT !.k = c.k + 1, !.at = c.k + 1, !.pc = pc])
    BY <1>2, <1>4 DEF StoreItem
  <2>2. QED
    BY <1>3, <2>1
<1>7. /\ d.pc = pc /\ d.at = c.k + 1 /\ d.tmp = s /\ d.op = c.op /\ d.k = c.k + 1
      /\ d.exc = "none" /\ d.nbits = 0
  BY <1>2, <1>4 DEF Local
<1>8. d \in Local
  <2>1. pc \in Pcs /\ c.k + 1 \in Nat
    BY <1>2 DEF Pcs
  <2> HIDE DEF pc, s, c
  <2>2. QED
    BY <1>2, <1>5, <2>1 DEF Local
<1> HIDE DEF d, s
<1>9. Taken(d)
  <2>1. d.k <= Len(d.op.items) /\ d.k <= Len(d.tmp)
    BY <1>2, <1>4, <1>5, <1>7
  <2>2. \A j \in 1 .. d.k : d.op.items[j] \in Bit /\ d.tmp[j] = d.op.items[j]
    <3>1. TAKE j \in 1 .. d.k
    <3>2. j \in 1 .. Len(c.tmp)
      <4>1. /\ d.k = c.k + 1 /\ c.k \in Nat /\ Len(c.op.items) \in Nat /\ c.k < Len(c.op.items)
            /\ Len(c.tmp) = Len(c.op.items) \/ Len(c.tmp) = c.k + 1
        BY <1>2, <1>4, <1>7
      <4> HIDE DEF c
      <4>2. QED
        BY <4>1
    <3>3. CASE j = c.k + 1
      BY <1>4, <1>5, <1>7, <3>2, <3>3
    <3>4. CASE j # c.k + 1
      <4>1. j \in 1 .. c.k
        BY <1>2, <1>7, <3>4
      <4>2. c.op.items[j] \in Bit /\ c.tmp[j] = c.op.items[j]
        BY <1>4, <4>1 DEF Taken
      <4>3. QED
        BY <1>5, <1>7, <3>2, <3>4, <4>2
    <3>5. QED
      BY <3>3, <3>4
  <2>3. QED
    BY <2>1, <2>2 DEF Taken
<1>10. Extended(d)
  <2>1. CASE ~c.op.sequence
    BY <1>2, <1>4, <1>5, <1>7, <1>9, <2>1 DEF Extended
  <2>2. CASE c.op.sequence /\ last
    <3>1. d.k \in Nat /\ d.k = Len(d.op.items) /\ Len(d.tmp) = d.k
      BY <1>2, <1>4, <1>5, <1>7, <2>2
    <3>2. d.tmp = d.op.items /\ Atomic!AllBits(d.op.items)
      BY <1>2, <1>5, <1>7, <1>9, <3>1, AllTaken
    <3>3. Complete(d)
      BY <1>2, <1>7, <2>2, <3>2 DEF Complete
    <3>4. QED
      BY <1>7, <2>2, <3>3 DEF Extended
  <2>3. CASE c.op.sequence /\ ~last
    <3>1. d.k < Len(d.op.items) /\ d.at = d.k /\ Len(d.tmp) = Len(d.op.items)
      BY <1>2, <1>4, <1>5, <1>7, <2>3
    <3>2. QED
      BY <1>7, <1>9, <2>3, <3>1 DEF Extended
  <2>4. QED
    BY <2>1, <2>2, <2>3
<1>11. d.pc \in Places(d.op) /\ d.pc \in {"next", "store", "finish"}
  BY <1>1, <1>7 DEF Places
<1>12. QED
  BY <1>1, <1>6, <1>7, <1>8, <1>10, <1>11, ExtendStep

\* ... or drops all of them when one is no bit ...
LEMMA BadItemIInv ==
  ASSUME GilDisabled, IInv, NEW t \in Threads, BadItem(t)
  PROVE  IInv'
<1> DEFINE c == call[t]
           s == resize(c.tmp, 0)
           d == [c EXCEPT !.pc = "finish", !.exc = "ValueError", !.tmp = s]
<1>1. Busy(t) /\ c.op.name = "extend" /\ c.pc = "store"
  BY DEF BadItem, At, Busy
<1>2. /\ c \in Local /\ Extended(c) /\ c.nbits = 0 /\ c.k \in Nat
      /\ c.tmp \in Seq(Bit \union {Undef}) /\ c.op.items \in Seq(Int)
      /\ Len(c.op.items) \in Nat /\ Items(t) = c.op.items /\ Target(t) = c.tmp
  BY <1>1, ExtendFacts
<1>3. \A x, y : Put(t, x, y) <=> /\ UNCHANGED <<out, calls>> /\ Unmodified
                                 /\ call' = [call EXCEPT ![t] = [y EXCEPT !.tmp = x]]
  BY <1>1, ExtendFacts
<1>4. c.k < Len(c.op.items) /\ c.op.items[c.k + 1] \notin Bit
  BY <1>1, <1>2 DEF Extended, BadItem
<1>5. ~Atomic!AllBits(c.op.items)
  <2>1. c.k + 1 \in DOMAIN c.op.items
    BY <1>2, <1>4, LenProperties
  <2>2. QED
    BY <1>4, <2>1 DEF Atomic!AllBits, Bit
<1>6. s = <<>> /\ s \in Seq(Bit \union {Undef})
  <2>1. 0 \in Nat
    OBVIOUS
  <2> HIDE DEF c
  <2>2. QED
    BY <1>2, <2>1, Resized
<1>7. UNCHANGED <<out, calls>> /\ Unmodified /\ call' = [call EXCEPT ![t] = d]
  <2>1. Put(t, s, [c EXCEPT !.pc = "finish", !.exc = "ValueError"])
    BY <1>2 DEF BadItem
  <2>2. QED
    BY <1>3, <2>1
<1> HIDE DEF s
<1>8. /\ d.pc = "finish" /\ d.tmp = <<>> /\ d.op = c.op /\ d.exc = "ValueError" /\ d.nbits = 0
      /\ d \in Local
  BY <1>2, <1>6 DEF Local, Pcs
<1> HIDE DEF d
<1>9. Extended(d)
  BY <1>5, <1>8 DEF Extended, Complete
<1>10. d.pc \in Places(d.op)
  BY <1>1, <1>8 DEF Places
<1>11. QED
  BY <1>1, <1>7, <1>8, <1>9, <1>10, ExtendStep

\* What extend() appends at last.
LEMMA FinishedItems ==
  ASSUME GilDisabled, IInv, NEW t \in Threads, FinishExtend(t)
  PROVE  LET c == call[t]
         IN  /\ Busy(t) /\ c.op.name = "extend" /\ Complete(c) /\ c.tmp \in Seq(Bit)
             /\ c.exc \in {"none", "iterator", "ValueError"}
<1>1. Busy(t) /\ call[t].op.name = "extend" /\ call[t].pc = "finish"
  BY DEF FinishExtend, At, Busy
<1>2. /\ call[t] \in Local /\ Extended(call[t]) /\ call[t].op.items \in Seq(Int)
      /\ Len(call[t].op.items) \in Nat
  BY <1>1, ExtendFacts
<1>3. Complete(call[t])
  BY <1>1, <1>2 DEF Extended
<1>4. call[t].tmp \in Seq(Bit)
  <2>1. CASE call[t].tmp = <<>>
    BY <2>1, NoSequence
  <2>2. CASE call[t].tmp = call[t].op.items /\ Atomic!AllBits(call[t].op.items)
    <3> DEFINE items == call[t].op.items
    <3>1. \A j \in 1 .. Len(items) : items[j] \in Bit
      BY <1>2, <2>2, LenProperties DEF Atomic!AllBits, Bit
    <3>2. items \in [1 .. Len(items) -> Bit]
      BY <1>2, <3>1, LenProperties
    <3>3. QED
      BY <1>2, <2>2, <3>2, SeqDef
  <2>3. QED
    BY <1>3, <2>1, <2>2 DEF Complete
<1>5. call[t].exc \in {"none", "iterator", "ValueError"}
  BY <1>2 DEF Local
<1>6. QED
  BY <1>1, <1>3, <1>4, <1>5

\* ... and appends to the array what it has taken.
LEMMA FinishIInv ==
  ASSUME GilDisabled, IInv, NEW t \in Threads, FinishExtend(t)
  PROVE  IInv'
<1>1. /\ call[t].tmp \in Seq(Bit)
      /\ call[t].exc \in Exceptions /\ call[t].exc # "StopIteration"
  BY FinishedItems DEF Exceptions
<1>2. arr \o call[t].tmp \in Seq(Bit) /\ <<>> \in Seq(Bit)
  BY <1>1, ConcatProperties, NoSequence DEF IInv, Types
<1>3. Return(t, call[t].exc, <<>>) /\ Becomes(arr \o call[t].tmp)
  BY DEF FinishExtend
<1>4. QED
  BY <1>1, <1>2, <1>3, Returned


\* Steps of the search leave the array alone.
LEMMA SearchThreads ==
  ASSUME IInv, NEW t \in Threads, NEW c \in Local,
         call[t].op.name = "search", Busy(t), UNCHANGED <<arr, seen>>,
         c.op = call[t].op, c.pc \in {"search", "find", "advance"},
         call'[t] = c, \A u \in Threads : u # t => call'[u] = call[u]
  PROVE  \A u \in Threads : ThreadInv(u)'
<1>1. ASSUME NEW u \in Threads, u # t PROVE ThreadInv(u)'
  <2>1. call'[u] = call[u] /\ seen'[u] = seen[u] /\ arr' = arr /\ ThreadInv(u)
    BY <1>1 DEF IInv
  <2>2. QED
    BY <2>1 DEF ThreadInv, Control, Busy, Read, Writing, Written, Extended
<1>2. ThreadInv(t)'
  <2>1. ThreadInv(t)
    BY DEF IInv
  <2>2. QED
    BY <2>1 DEF ThreadInv, Control, Busy, Read, Writing, Extended, Places
<1>3. QED
  BY <1>1, <1>2

-------------------------------------------------------------------------------
\* The search.  A thread reads where the iterator is ...
LEMMA SearchReadIInv ==
  ASSUME IInv, NEW t \in Threads, SearchRead(t)
  PROVE  IInv'
<1> DEFINE c == [call[t] EXCEPT !.pc = "find", !.start = it.start, !.stop = it.stop]
<1>1. /\ Types /\ Busy(t) /\ call[t] \in Local /\ it \in Iterator /\ arr \in Seq(Bit)
      /\ call[t].pc = "search" /\ call[t].op.name = "search"
  BY DEF IInv, Types, SearchRead, At, Busy
<1>2. /\ c \in Local /\ c.op = call[t].op /\ c.pc = "find" /\ c.start = it.start
      /\ c.stop = it.stop
  BY <1>1 DEF Local, Iterator, Pcs
<1>3. call' = [call EXCEPT ![t] = c] /\ Unmodified /\ UNCHANGED <<out, calls>>
  BY DEF SearchRead
<1> HIDE DEF c
<1>4. c.pc # "idle" /\ c.pc \in Places(c.op) /\ c.pc # "write" /\ c.pc # "lock"
  BY <1>1, <1>2 DEF Places
<1>5. /\ Types' /\ UNCHANGED <<arr, seen, it, out>> /\ call'[t] = c /\ Control(t)'
      /\ \A u \in Threads : u # t => call'[u] = call[u] /\ ThreadInv(u)'
  BY <1>1, <1>2, <1>3, <1>4, WentOn
<1>6. ThreadInv(t)'
  BY <1>1, <1>2, <1>5 DEF ThreadInv, Writing, Extended
<1>7. SearchInv'
  <2>1. ASSUME it.intact, NEW u \in Threads
        PROVE  /\ call'[u].pc = "find" => /\ Passed(call'[u].start, call'[u].stop)
                                          /\ Fixed(call'[u].start, call'[u].stop)
                                          /\ call'[u].stop <= Len(arr)
               /\ call'[u].pc = "advance" =>
                    /\ call'[u].pos \in All
                    /\ LET i == Advanced(it, call'[u].pos) IN Passed(i.start, i.stop)
    <3>1. CASE u = t
      BY <1>2, <1>5, <2>1, <3>1 DEF IInv, SearchInv
    <3>2. CASE u # t
      <4>1. call'[u] = call[u]
        BY <1>5, <3>2
      <4>2. QED
        BY <2>1, <4>1 DEF IInv, SearchInv
    <3>3. QED
      BY <3>1, <3>2
  <2>2. QED
    BY <1>5, <2>1 DEF IInv, SearchInv, All, Passed, Fixed, Occurrences, Occurs, Advanced
<1>8. SearchComplete'
  BY <1>5 DEF IInv, SearchComplete, Occurrences, Occurs
<1>9. QED
  BY <1>5, <1>6, <1>7, <1>8 DEF IInv

\* ... finds the next occurrence, which is one of those not found yet ...
LEMMA Nearest ==
  ASSUME IInv, NEW t \in Threads, Ahead(t) # {}
  PROVE  LET pos == IF it.right THEN Max(Ahead(t)) ELSE Min(Ahead(t))
         IN  /\ pos \in Ahead(t) /\ pos \in Nat
             /\ \A i \in Ahead(t) : IF it.right THEN i <= pos ELSE pos <= i
<1>1. call[t].start \in Nat /\ call[t].stop \in Int /\ Len(it.sub) \in Nat
  BY LenProperties DEF IInv, Types, Local, Iterator
<1>2. Ahead(t) \in SUBSET (call[t].start .. (call[t].stop - Len(it.sub)))
  BY DEF Ahead, Occurrences
<1>3. call[t].stop - Len(it.sub) \in Int /\ call[t].start \in Int
  BY <1>1
<1>4. Max(Ahead(t)) \in Ahead(t) /\ \A i \in Ahead(t) : i <= Max(Ahead(t))
  BY <1>2, <1>3, Maximum
<1>5. Min(Ahead(t)) \in Ahead(t) /\ \A i \in Ahead(t) : Min(Ahead(t)) <= i
  BY <1>2, <1>3, Minimum
<1>6. \A i \in Ahead(t) : i \in Nat
  BY <1>1, <1>2
<1>7. QED
  BY <1>4, <1>5, <1>6

\* What a thread sees ahead, if nobody changed the array.
LEMMA AheadOf ==
  ASSUME IInv, it.intact, NEW t \in Threads, call[t].pc = "find"
  PROVE  /\ Ahead(t) \subseteq All
         /\ \A i \in All : i \in it.found \/ i \in Ahead(t)
         /\ \A i \in All : i \in Int /\ 0 <= i /\ i + Len(it.sub) <= Len(arr)
<1> DEFINE c == call[t]
<1>1. /\ c.start \in Nat /\ c.stop \in Int /\ Len(it.sub) \in Nat /\ Len(arr) \in Nat
      /\ it.found \subseteq All
      /\ Passed(c.start, c.stop) /\ Fixed(c.start, c.stop) /\ c.stop <= Len(arr)
  BY LenProperties DEF IInv, Types, Local, Iterator, SearchInv
<1> HIDE DEF c
<1>2. \A i \in All : i \in Int /\ 0 <= i /\ i + Len(it.sub) <= Len(arr) /\ Occurs(arr, it.sub, i)
  BY <1>1 DEF All, Occurrences
<1>3. Ahead(t) \subseteq All
  BY <1>1 DEF Ahead, All, Occurrences, c
<1>4. ASSUME NEW i \in All, i \notin it.found PROVE i \in Ahead(t)
  <2>1. IF it.right THEN i + Len(it.sub) <= c.stop /\ c.start = 0
                    ELSE c.start <= i /\ c.stop = Len(arr)
    BY <1>1, <1>4 DEF Passed, Fixed
  <2>2. c.start <= i /\ i + Len(it.sub) <= c.stop
    BY <1>2, <2>1
  <2>3. InBounds(t)
    BY <1>1, <1>2, <2>2 DEF InBounds, c
  <2>4. i \in Occurrences(arr, it.sub, c.start, c.stop)
    BY <1>1, <1>2, <2>2 DEF Occurrences
  <2>5. QED
    BY <2>3, <2>4 DEF Ahead, c
<1>5. QED
  BY <1>2, <1>3, <1>4

\* Whoever finds the nearest occurrence has all others behind it, or still ahead.
LEMMA SearchFindIInv ==
  ASSUME IInv, NEW t \in Threads, SearchFind(t)
  PROVE  IInv'
<1> DEFINE pos == IF it.right THEN Max(Ahead(t)) ELSE Min(Ahead(t))
           c == [call[t] EXCEPT !.pc = "advance", !.pos = pos]
           j == [it EXCEPT !.found = it.found \union {pos}]
<1>1. /\ Types /\ Busy(t) /\ call[t] \in Local /\ it \in Iterator /\ arr \in Seq(Bit)
      /\ call[t].pc = "find" /\ call[t].op.name = "search" /\ Ahead(t) # {}
      /\ UNCHANGED <<arr, seen, out, calls>>
  BY DEF IInv, Types, SearchFind, At, Busy
<1>2. /\ pos \in Ahead(t) /\ pos \in Nat
      /\ \A i \in Ahead(t) : IF it.right THEN i <= pos ELSE pos <= i
  BY <1>1, Nearest
<1>3. call' = [call EXCEPT ![t] = c] /\ it' = j
  BY DEF SearchFind
<1> HIDE DEF pos
<1>4. c \in Local /\ c.op = call[t].op /\ c.pc = "advance" /\ c.pos = pos
  BY <1>1, <1>2 DEF Local, Pcs
<1>5. /\ j \in Iterator /\ j.found = it.found \union {pos} /\ j.start = it.start
      /\ j.stop = it.stop /\ j.sub = it.sub /\ j.right = it.right /\ j.intact = it.intact
  BY <1>1, <1>2 DEF Iterator
<1> HIDE DEF c, j
<1>6. /\ call' \in [Threads -> Local] /\ call'[t] = c
      /\ \A u \in Threads : u # t => call'[u] = call[u]
  BY <1>1, <1>3, <1>4 DEF Types
<1>7. Types'
  BY <1>1, <1>3, <1>5, <1>6 DEF Types
<1>8. \A u \in Threads : ThreadInv(u)'
  BY <1>1, <1>4, <1>6, SearchThreads
<1>9. ASSUME it'.intact
      PROVE  it.intact /\ All' = All /\ pos \in All
  <2>1. it.intact /\ All' = All
    BY <1>1, <1>3, <1>5, <1>9 DEF All, Occurrences, Occurs
  <2>2. pos \in All
    BY <1>1, <1>2, <2>1, AheadOf
  <2>3. QED
    BY <2>1, <2>2
<1>10. ASSUME it'.intact, NEW i \in All
       PROVE  \/ i \in it'.found
              \/ IF it.right THEN i + Len(it.sub) <= pos + Len(it.sub) - 1 ELSE pos + 1 <= i
  <2>1. /\ \A k \in All : k \in it.found \/ k \in Ahead(t)
        /\ \A k \in All : k \in Int /\ 0 <= k /\ k + Len(it.sub) <= Len(arr)
    BY <1>1, <1>9, <1>10, AheadOf
  <2>2. Len(it.sub) \in Nat
    BY <1>1, LenProperties DEF Iterator
  <2>3. CASE i \in it.found \/ i = pos
    BY <1>3, <1>5, <2>3
  <2>4. CASE i \notin it.found /\ i # pos
    <3>1. i \in Int /\ (IF it.right THEN i <= pos ELSE pos <= i)
      BY <1>2, <1>10, <2>1, <2>4
    <3>2. QED
      BY <1>2, <2>2, <2>4, <3>1
  <2>5. QED
    BY <2>3, <2>4
<1>11. SearchInv'
  <2>1. SUFFICES ASSUME it'.intact
                 PROVE  SearchInv'
    BY DEF SearchInv
  <2>2. /\ it.intact /\ All' = All /\ pos \in All /\ arr' = arr
        /\ it'.found = it.found \union {pos} /\ it'.start = it.start /\ it'.stop = it.stop
        /\ it'.sub = it.sub /\ it'.right = it.right
    BY <1>1, <1>3, <1>5, <1>9, <2>1
  <2>3. it'.found \subseteq All'
    BY <2>2 DEF IInv, SearchInv
  <2>4. (Passed(it.start, it.stop) /\ Fixed(it.start, it.stop) /\ it.stop <= Len(arr))'
    BY <2>2 DEF IInv, SearchInv, Passed, Fixed
  <2>5. \A p : /\ it.right => /\ Advanced(it, p).stop = p + Len(it.sub) - 1
                              /\ Advanced(it', p).stop = p + Len(it.sub) - 1
               /\ ~it.right => Advanced(it, p).start = p + 1 /\ Advanced(it', p).start = p + 1
    BY <1>1, <1>3, <1>5 DEF Advanced, Iterator
  <2>6. ASSUME NEW u \in Threads, u # t
        PROVE  ( /\ call[u].pc = "find" => /\ Passed(call[u].start, call[u].stop)
                                           /\ Fixed(call[u].start, call[u].stop)
                                           /\ call[u].stop <= Len(arr)
                 /\ call[u].pc = "advance" =>
                      /\ call[u].pos \in All
                      /\ LET i == Advanced(it, call[u].pos) IN Passed(i.start, i.stop) )'
    <3>1. call'[u] = call[u]
      BY <1>6, <2>6
    <3>2. (call[u].pc = "find" => /\ Passed(call[u].start, call[u].stop)
                                  /\ Fixed(call[u].start, call[u].stop)
                                  /\ call[u].stop <= Len(arr))'
      BY <2>2, <3>1 DEF IInv, SearchInv, Passed, Fixed
    <3>3. ASSUME call[u].pc = "advance"
          PROVE  ( /\ call[u].pos \in All
                   /\ LET i == Advanced(it, call[u].pos) IN Passed(i.start, i.stop) )'
      <4> DEFINE p == call[u].pos
      <4>1. p \in All /\ Passed(Advanced(it, p).start, Advanced(it, p).stop)
        BY <2>2, <3>3 DEF IInv, SearchInv
      <4> HIDE DEF p
      <4>2. \A i \in All : \/ i \in it'.found
                           \/ IF it'.right THEN i + Len(it'.sub) <= Advanced(it', p).stop
                                           ELSE Advanced(it', p).start <= i
        BY <2>2, <2>5, <4>1 DEF Passed
      <4>3. QED
        BY <2>2, <3>1, <4>1, <4>2 DEF p, Passed
    <3>4. QED
      BY <3>1, <3>2, <3>3
  <2>7. /\ call'[t].pc = "advance" /\ call'[t].pos \in All'
        /\ (LET i == Advanced(it, call[t].pos) IN Passed(i.start, i.stop))'
    <3>1. call'[t].pc = "advance" /\ call'[t].pos = pos
      BY <1>4, <1>6
    <3>2. \A i \in All : \/ i \in it'.found
                         \/ IF it'.right THEN i + Len(it'.sub) <= Advanced(it', pos).stop
                                         ELSE Advanced(it', pos).start <= i
      BY <1>10, <2>1, <2>2, <2>5
    <3>3. QED
      BY <2>2, <3>1, <3>2 DEF Passed
  <2>8. QED
    BY <2>3, <2>4, <2>6, <2>7 DEF SearchInv
<1>12. SearchComplete'
  <2>1. SUFFICES ASSUME it'.intact, NEW u \in Threads, out'[u].exc = "StopIteration"
                 PROVE  it'.found = All'
    BY DEF SearchComplete, All
  <2>2. it.found = All
    BY <1>1, <1>9, <2>1 DEF IInv, SearchComplete, All
  <2>3. QED
    BY <1>3, <1>5, <1>9, <2>1, <2>2
<1>13. QED
  BY <1>7, <1>8, <1>11, <1>12 DEF IInv

\* ... or comes to the end: all occurrences have been found ...
LEMMA StopIterationIInv ==
  ASSUME IInv, NEW t \in Threads, StopIteration(t)
  PROVE  IInv'
<1> DEFINE r == [exc |-> "StopIteration", value |-> <<>>]
<1>1. /\ Types /\ call' = [call EXCEPT ![t] = NoCall] /\ out' = [out EXCEPT ![t] = r]
      /\ UNCHANGED calls /\ Becomes(arr) /\ arr \in Seq(Bit) /\ NoCall \in Local
      /\ call[t].pc = "find" /\ Ahead(t) = {} /\ Busy(t)
  BY NoCallLocal DEF IInv, Types, StopIteration, Return, Unmodified, At, Busy
<1>2. /\ arr' \in Seq(Bit) /\ arr' = arr /\ call' \in [Threads -> Local] /\ call'[t] = NoCall
      /\ \A u \in Threads : u # t => call'[u] = call[u]
      /\ seen' \in [Threads -> SUBSET Seq(Bit)] /\ it' \in Iterator
      /\ \A u \in Threads :
           seen'[u] = IF call'[u].pc = "idle" THEN {} ELSE seen[u] \union {arr'}
      /\ it' = [it EXCEPT !.intact = it'.intact] /\ it'.intact = (it.intact /\ arr = arr)
  BY <1>1, Moved
<1>3. it' = it
  BY <1>1, <1>2 DEF Types, Iterator
<1>4. Types'
  <2>1. r \in [exc : Exceptions, value : Seq(Bit)]
    BY NoSequence DEF Exceptions
  <2> HIDE DEF r
  <2>2. QED
    BY <1>1, <1>2, <2>1 DEF Types
<1>5. \A u \in Threads : ThreadInv(u)'
  <2>1. TAKE u \in Threads
  <2>2. CASE u = t
    <3>1. call'[u] = NoCall /\ NoCall.pc = "idle"
      BY <1>2, <2>2 DEF NoCall
    <3>2. seen'[u] = {}
      BY <1>2, <3>1
    <3>3. QED
      BY <3>1, <3>2 DEF ThreadInv, Control, Writing, Extended, Busy, NoCall, Places
  <2>3. CASE u # t
    BY <1>1, <1>2, <2>3, Others DEF IInv
  <2>4. QED
    BY <2>2, <2>3
<1>6. SearchInv'
  <2>1. \A u \in Threads : call'[u].pc \in {"find", "advance"} => call'[u] = call[u]
    BY <1>2 DEF NoCall
  <2>2. arr' = arr /\ it' = it
    BY <1>2, <1>3
  <2>3. QED
    BY <2>1, <2>2 DEF IInv, SearchInv, All, Passed, Fixed, Occurrences, Occurs, Advanced
<1>7. SearchComplete'
  <2>1. SUFFICES ASSUME it.intact PROVE it.found = All
    BY <1>2, <1>3 DEF SearchComplete, All, Occurrences, Occurs
  <2>2. \A i \in All : i \in it.found \/ i \in Ahead(t)
    BY <1>1, <2>1, AheadOf
  <2>3. it.found \subseteq All
    BY <2>1 DEF IInv, SearchInv
  <2>4. QED
    BY <1>1, <2>2, <2>3
<1>8. QED
  BY <1>4, <1>5, <1>6, <1>7 DEF IInv

\* ... and sets the iterator, perhaps back, but not beyond what is left.
LEMMA SearchAdvanceIInv ==
  ASSUME IInv, NEW t \in Threads, SearchAdvance(t)
  PROVE  IInv'
<1> DEFINE c == [call[t] EXCEPT !.pc = "search"]
           pos == call[t].pos
<1>1. /\ Types /\ Busy(t) /\ call[t] \in Local /\ it \in Iterator /\ arr \in Seq(Bit)
      /\ call[t].pc = "advance" /\ call[t].op.name = "search" /\ pos \in Nat
      /\ UNCHANGED <<arr, seen, out, calls>> /\ Len(it.sub) \in Nat /\ Len(arr) \in Nat
  BY LenProperties DEF IInv, Types, Local, Iterator, SearchAdvance, At, Busy
<1>2. c \in Local /\ c.op = call[t].op /\ c.pc = "search"
  BY <1>1 DEF Local, Pcs
<1>3. call' = [call EXCEPT ![t] = c] /\ it' = Advanced(it, pos)
  BY DEF SearchAdvance
<1> HIDE DEF c, pos
<1>4. /\ it' \in Iterator /\ it'.found = it.found /\ it'.sub = it.sub /\ it'.right = it.right
      /\ it'.intact = it.intact
      /\ it.right => it'.start = it.start /\ it'.stop = pos + Len(it.sub) - 1
      /\ ~it.right => it'.start = pos + 1 /\ it'.stop = it.stop
  <2>1. CASE it.right
    <3> DEFINE e == pos + Len(it.sub) - 1
    <3>1. it' = [it EXCEPT !.stop = e] /\ e \in Int
      BY <1>1, <1>3, <2>1 DEF Advanced
    <3> HIDE DEF e
    <3>2. it' \in Iterator /\ it'.stop = e /\ it'.start = it.start /\ it'.found = it.found
          /\ it'.sub = it.sub /\ it'.right = it.right /\ it'.intact = it.intact
      BY <1>1, <3>1 DEF Iterator
    <3>3. QED
      BY <2>1, <3>2 DEF e
  <2>2. CASE ~it.right
    <3>1. it' = [it EXCEPT !.start = pos + 1]
      BY <1>3, <2>2 DEF Advanced
    <3>2. QED
      BY <1>1, <2>2, <3>1 DEF Iterator
  <2>3. QED
    BY <2>1, <2>2
<1>5. /\ call' \in [Threads -> Local] /\ call'[t] = c
      /\ \A u \in Threads : u # t => call'[u] = call[u]
  BY <1>1, <1>2, <1>3 DEF Types
<1>6. Types'
  BY <1>1, <1>4, <1>5 DEF Types
<1>7. \A u \in Threads : ThreadInv(u)'
  BY <1>1, <1>2, <1>5, SearchThreads
<1>8. All' = All
  BY <1>1, <1>4 DEF All, Occurrences, Occurs
<1>9. SearchInv'
  <2>1. SUFFICES ASSUME it.intact PROVE SearchInv'
    BY <1>4 DEF SearchInv
  <2>2. /\ it.found \subseteq All /\ Fixed(it.start, it.stop) /\ it.stop <= Len(arr)
        /\ pos \in All
        /\ LET i == Advanced(it, pos) IN Passed(i.start, i.stop)
    BY <1>1, <2>1 DEF IInv, SearchInv, pos
  <2>3. (Passed(it.start, it.stop))'
    BY <1>3, <1>4, <1>8, <2>2 DEF Passed
  <2>4. (Fixed(it.start, it.stop))'
    BY <1>1, <1>4, <2>2 DEF Fixed
  <2>5. it'.stop <= Len(arr')
    <3>1. pos + Len(it.sub) <= Len(arr)
      BY <1>1, <2>2 DEF All, Occurrences
    <3>2. QED
      BY <1>1, <1>4, <2>2, <3>1 DEF Iterator
  <2>6. \A p : /\ it.right => /\ Advanced(it, p).stop = p + Len(it.sub) - 1
                              /\ Advanced(it', p).stop = p + Len(it.sub) - 1
               /\ ~it.right => Advanced(it, p).start = p + 1 /\ Advanced(it', p).start = p + 1
    BY <1>1, <1>4 DEF Advanced, Iterator
  <2>7. ASSUME NEW u \in Threads, u # t
        PROVE  ( /\ call[u].pc = "find" => /\ Passed(call[u].start, call[u].stop)
                                           /\ Fixed(call[u].start, call[u].stop)
                                           /\ call[u].stop <= Len(arr)
                 /\ call[u].pc = "advance" =>
                      /\ call[u].pos \in All
                      /\ LET i == Advanced(it, call[u].pos) IN Passed(i.start, i.stop) )'
    <3>1. call'[u] = call[u] /\ arr' = arr
      BY <1>1, <1>5, <2>7
    <3>2. (call[u].pc = "find" => /\ Passed(call[u].start, call[u].stop)
                                  /\ Fixed(call[u].start, call[u].stop)
                                  /\ call[u].stop <= Len(arr))'
      BY <1>4, <1>8, <2>1, <3>1 DEF IInv, SearchInv, Passed, Fixed
    <3>3. ASSUME call[u].pc = "advance"
          PROVE  ( /\ call[u].pos \in All
                   /\ LET i == Advanced(it, call[u].pos) IN Passed(i.start, i.stop) )'
      <4> DEFINE p == call[u].pos
      <4>1. p \in All /\ Passed(Advanced(it, p).start, Advanced(it, p).stop)
        BY <2>1, <3>3 DEF IInv, SearchInv
      <4> HIDE DEF p
      <4>2. \A i \in All : \/ i \in it'.found
                           \/ IF it'.right THEN i + Len(it'.sub) <= Advanced(it', p).stop
                                           ELSE Advanced(it', p).start <= i
        BY <1>4, <2>6, <4>1 DEF Passed
      <4>3. QED
        BY <1>8, <3>1, <4>1, <4>2 DEF p, Passed
    <3>4. QED
      BY <3>1, <3>2, <3>3
  <2>8. call'[t].pc = "search"
    BY <1>2, <1>5
  <2>9. QED
    BY <1>4, <1>8, <2>2, <2>3, <2>4, <2>5, <2>7, <2>8 DEF SearchInv
<1>10. SearchComplete'
  BY <1>1, <1>4, <1>8 DEF IInv, SearchComplete, All
<1>11. QED
  BY <1>6, <1>7, <1>9, <1>10 DEF IInv

-------------------------------------------------------------------------------
\* A step of a thread preserves the invariant.
LEMMA StepIInv ==
  ASSUME GilDisabled, IInv, NEW t \in Threads, Begin(t) \/ Step(t)
  PROVE  IInv'
<1>1. CASE Begin(t)
  BY <1>1, BeginIInv
<1>2. CASE BadIndex(t) \/ WrongSize(t) \/ RotateNothing(t) \/ ChangedSize(t)
  BY <1>2, RaisingIInv
<1>3. CASE ToList(t) \/ GetSequence(t)
  BY <1>3, ReadingIInv
<1>4. CASE SetSequence(t) \/ DelSequence(t) \/ Rotate(t)
  BY <1>4, ChangingIInv
<1>5. CASE WriteBlock(t)
  BY <1>5, WriteIInv
<1>6. CASE FileWritten(t)
  BY <1>6, WrittenIInv
<1>7. CASE MakeRoom(t) \/ NextItem(t)
  BY <1>7, RoomIInv
<1>8. CASE IteratorEnds(t)
  BY <1>8, IteratorIInv
<1>9. CASE StoreItem(t)
  BY <1>9, StoreIInv
<1>10. CASE BadItem(t)
  BY <1>10, BadItemIInv
<1>11. CASE FinishExtend(t)
  BY <1>11, FinishIInv
<1>12. CASE AppendItem(t) \/ Pop(t)
  BY <1>12, SingleIInv
<1>13. CASE SearchRead(t)
  BY <1>13, SearchReadIInv
<1>14. CASE SearchFind(t)
  BY <1>14, SearchFindIInv
<1>15. CASE StopIteration(t)
  BY <1>15, StopIterationIInv
<1>16. CASE SearchAdvance(t)
  BY <1>16, SearchAdvanceIInv
<1>17. QED
  BY <1>1, <1>2, <1>3, <1>4, <1>5, <1>6, <1>7, <1>8, <1>9, <1>10, <1>11, <1>12, <1>13, <1>14,
     <1>15, <1>16 DEF Step

\* So does every step of the specification.
LEMMA NextIInv == GilDisabled /\ IInv /\ [Next]_vars => IInv'
<1>1. ASSUME GilDisabled, IInv, Next PROVE IInv'
  BY <1>1, StepIInv DEF Next
<1>2. ASSUME IInv, UNCHANGED vars PROVE IInv'
  <2>1. Types'
    BY <1>2 DEF vars, IInv, Types
  <2>2. \A t \in Threads : ThreadInv(t)'
    BY <1>2 DEF vars, IInv, ThreadInv, Control, Busy, Read, Writing, Written, Extended
  <2>3. SearchInv'
    BY <1>2 DEF vars, IInv, SearchInv, All, Passed, Fixed, Occurrences, Occurs, Advanced
  <2>4. SearchComplete'
    BY <1>2 DEF vars, IInv, SearchComplete, Occurrences, Occurs
  <2>5. QED
    BY <2>1, <2>2, <2>3, <2>4 DEF IInv
<1>3. QED
  BY <1>1, <1>2

\* Without the GIL, the invariant holds for any threads, calls and arguments: each
\* call is where its method can be, tofile() has written whole blocks, each from
\* one content of the array, and what extend() has taken are bits.
THEOREM InvariantHolds ==
  ASSUME GilDisabled
  PROVE  Spec => []IInv
<1>1. Init => IInv
  BY InitIInv
<1>2. IInv /\ [Next]_vars => IInv'
  BY NextIInv
<1>3. QED
  BY <1>1, <1>2, PTL DEF Spec

\* However threads interleave that share a search iterator, none is told that
\* there are no more occurrences before all have been found (SearchComplete).
THEOREM SearchSafe ==
  ASSUME GilDisabled
  PROVE  Spec => []SearchComplete
<1>1. IInv => SearchComplete
  BY DEF IInv
<1>2. QED
  BY <1>1, InvariantHolds, PTL

\* The indices that the step of a thread uses.
LEMMA AccessedInside ==
  ASSUME IInv, NEW t \in Threads
  PROVE  Accessed(t) \subseteq 0 .. (Len(arr) - 1)
<1> DEFINE c == call[t]
           places == 0 .. (Len(arr) - 1)
<1>1. Types /\ ThreadInv(t) /\ c \in Local /\ arr \in Seq(Bit) /\ Len(arr) \in Nat
  BY LenProperties DEF IInv, Types
<1>2. ASSUME Ready(t, "tolist") \/ Ready(t, "delseq") \/ Ready(t, "rotate")
      PROVE  0 .. (c.nbits - 1) \subseteq places
  BY <1>1, <1>2, ReadyFacts
<1>3. ASSUME Ready(t, "getseq") \/ Ready(t, "setseq")
      PROVE  {IndexAt(t, j) : j \in DOMAIN c.op.seq} \subseteq places
  BY <1>1, <1>3, ReadyFacts DEF Indexing
<1>4. ASSUME LengthKept(t)
      PROVE  c.at .. (BlockEnd(t) - 1) \subseteq places
  <2>1. BlockEnd(t) <= c.nbits /\ BlockEnd(t) \in Int
    BY <1>1, BlockEnds, ArgumentsAssumption DEF Local
  <2>2. c.nbits = Len(arr) /\ c.at \in Nat
    BY <1>1, <1>4 DEF LengthKept, Local
  <2>3. QED
    BY <1>1, <2>1, <2>2
<1>5. ASSUME InBounds(t)
      PROVE  c.start .. (c.stop - 1) \subseteq places
  BY <1>1, <1>5 DEF InBounds, Local
<1>6. ASSUME NEW i \in Accessed(t) PROVE i \in places
  <2>1. \/ /\ Ready(t, "tolist") \/ Ready(t, "delseq") \/ Ready(t, "rotate")
           /\ i \in 0 .. (c.nbits - 1)
        \/ /\ Ready(t, "getseq") \/ Ready(t, "setseq")
           /\ i \in {IndexAt(t, j) : j \in DOMAIN c.op.seq}
        \/ LengthKept(t) /\ i \in c.at .. (BlockEnd(t) - 1)
        \/ InBounds(t) /\ i \in c.start .. (c.stop - 1)
    BY <1>6 DEF Accessed
  <2>2. QED
    BY <1>2, <1>3, <1>4, <1>5, <2>1
<1>7. QED
  BY <1>6

\* Whatever other threads do to the array between the steps of a method, the
\* method uses no index beyond the end, and no thread ever sees an element that
\* nobody has set (AccessesValid).
THEOREM AccessesSafe ==
  ASSUME GilDisabled
  PROVE  Spec => []AccessesValid
<1>1. IInv => AccessesValid
  <2>1. SUFFICES ASSUME IInv PROVE AccessesValid
    OBVIOUS
  <2>2. ASSUME NEW t \in Threads, At(t, "store", {"extend"})
        PROVE  call[t].at < Len(Target(t))
    <3>1. Busy(t) /\ call[t].op.name = "extend" /\ call[t].pc = "store"
      BY <2>2 DEF At, Busy
    <3>2. /\ Extended(call[t]) /\ Target(t) = call[t].tmp /\ call[t].k \in Nat
          /\ Len(call[t].op.items) \in Nat
      BY <2>1, <3>1, ExtendFacts
    <3>3. QED
      BY <3>1, <3>2 DEF Extended
  <2>3. Undef \notin Range(arr)
    <3>1. arr \in Seq(Bit)
      BY <2>1 DEF IInv, Types
    <3>2. QED
      BY <3>1, BitSeq, ArgumentsAssumption DEF Range
  <2>4. QED
    BY <2>1, <2>2, <2>3, AccessedInside DEF AccessesValid
<1>2. QED
  BY <1>1, InvariantHolds, PTL

-------------------------------------------------------------------------------
(* Each call takes effect at one moment (AtomicCalls).                     *)

\* A thread that is in no call.
LEMMA IdleOp ==
  ASSUME NEW c, c.pc \in Places(c.op), c.pc = "idle" => c = NoCall
  PROVE  /\ c.pc = "idle" <=> c.op = Atomic!Idle
         /\ c.pc = "idle" <=> c.op.name = "idle"
<1>1. Atomic!Idle.name = "idle" /\ NoCall.op = Atomic!Idle /\ NoCall.pc = "idle"
  BY DEF Atomic!Idle, NoCall
<1>2. c.op.name = "idle" => c.pc = "idle"
  BY DEF Places
<1>3. QED
  BY <1>1, <1>2

\* What a call knows that has begun.
LEMMA Called ==
  ASSUME IInv, NEW t \in Threads, Busy(t)
  PROVE  /\ Types /\ ThreadInv(t) /\ WellFormed(call[t].op)
         /\ call[t].op # Atomic!Idle /\ call[t].op.name # "idle" /\ arr \in seen[t]
         /\ arr \in Seq(Bit) /\ seen[t] \subseteq Seq(Bit)
         /\ call[t].nbits \in Nat
<1>1. Types /\ ThreadInv(t) /\ Control(t)
  BY DEF IInv, ThreadInv
<1>2. WellFormed(call[t].op)
  BY <1>1, Arguments
<1>3. call[t].op # Atomic!Idle /\ call[t].op.name # "idle"
  BY <1>1, IdleOp DEF Control, Busy
<1>4. QED
  BY <1>1, <1>2, <1>3 DEF Control, Types, Local

\* A call that returns.
LEMMA Ended ==
  ASSUME IInv, IInv', NEW t \in Threads, NEW exc, NEW value, NEW s,
         Return(t, exc, value), Becomes(s)
  PROVE  Atomic!End(t, [exc |-> exc, value |-> value]) /\ arr' = s
<1> DEFINE op == [u \in Threads |-> call[u].op]
<1>1. /\ call' = [call EXCEPT ![t] = NoCall]
      /\ out' = [out EXCEPT ![t] = [exc |-> exc, value |-> value]]
      /\ arr' = s /\ call \in [Threads -> Local] /\ NoCall.op = Atomic!Idle
      /\ seen' = [u \in Threads |-> IF call'[u].pc = "idle" THEN {} ELSE seen[u] \union {s}]
  BY DEF Return, Becomes, IInv, Types, NoCall, Atomic!Idle
<1>2. op' = [op EXCEPT ![t] = Atomic!Idle]
  BY <1>1
<1>3. \A u \in Threads : call'[u].pc = "idle" <=> op'[u] = Atomic!Idle
  <2>1. TAKE u \in Threads
  <2>2. Control(u)'
    BY DEF IInv, ThreadInv
  <2>3. call'[u].pc \in Places(call'[u].op) /\ (call'[u].pc = "idle" => call'[u] = NoCall)
    BY <2>2 DEF Control, Busy, Places
  <2>4. QED
    BY <2>3, IdleOp
<1>4. seen' = [u \in Threads |-> IF op'[u] = Atomic!Idle THEN {} ELSE seen[u] \union {arr'}]
  BY <1>1, <1>3
<1>5. QED
  BY <1>1, <1>2, <1>4 DEF Atomic!End

\* A call that returns and takes effect now ...
LEMMA TookEffect ==
  ASSUME IInv, IInv', NEW t \in Threads, NEW exc, NEW value, NEW s,
         Return(t, exc, value), Becomes(s), Busy(t), call[t].op.name # "tofile",
         Atomic!Outcome(call[t].op, arr) = [arr |-> s, out |-> [exc |-> exc, value |-> value]]
  PROVE  Atomic!Next
<1>1. Atomic!End(t, [exc |-> exc, value |-> value]) /\ arr' = s /\ call[t].op.name # "idle"
  BY Ended, Called
<1> DEFINE o == [u \in Threads |-> call[u].op]
           r == Atomic!Outcome(o[t], arr)
<1>2. o[t] = call[t].op
  OBVIOUS
<1>3. r = [arr |-> s, out |-> [exc |-> exc, value |-> value]]
  BY <1>2
<1>4. r.arr = s /\ r.out = [exc |-> exc, value |-> value]
  BY <1>3
<1>5. Atomic!End(t, r.out) /\ arr' = r.arr /\ o[t].name \notin {"idle", "tofile"}
  BY <1>1, <1>2, <1>4 DEF Atomic!End
<1>6. Atomic!TakeEffect(t)
  BY <1>5 DEF Atomic!TakeEffect, Atomic!End
<1>7. QED
  BY <1>6 DEF Atomic!Next

\* ... and one that only answers, from a content it has seen.
LEMMA Answered ==
  ASSUME IInv, IInv', NEW t \in Threads, NEW exc, NEW value, NEW s \in seen[t],
         Return(t, exc, value), Unmodified, Busy(t), call[t].op.name # "tofile",
         Atomic!Outcome(call[t].op, s) = [arr |-> s, out |-> [exc |-> exc, value |-> value]]
  PROVE  Atomic!Next
<1>1. Atomic!End(t, [exc |-> exc, value |-> value]) /\ arr' = arr /\ call[t].op.name # "idle"
  BY Ended, Called DEF Unmodified
<1> DEFINE o == [u \in Threads |-> call[u].op]
           r == Atomic!Outcome(o[t], s)
<1>2. o[t] = call[t].op
  OBVIOUS
<1>3. r = [arr |-> s, out |-> [exc |-> exc, value |-> value]]
  BY <1>2
<1>4. r.arr = s /\ r.out = [exc |-> exc, value |-> value]
  BY <1>3
<1>5. Atomic!End(t, r.out) /\ r.arr = s /\ o[t].name \notin {"idle", "tofile"}
  BY <1>1, <1>2, <1>4 DEF Atomic!End
<1>6. Atomic!Answer(t)
  BY <1>1, <1>5 DEF Atomic!Answer, Atomic!End
<1>7. QED
  BY <1>6 DEF Atomic!Next

\* A content with the length read at first.
LEMMA ReadContent ==
  ASSUME IInv, NEW t \in Threads, call[t].pc \in {"lock", "write"}
  PROVE  \E s \in seen[t] : s \in Seq(Bit) /\ Len(s) = call[t].nbits
<1>1. Busy(t)
  BY DEF Busy
<1>2. Read(t) # {} /\ seen[t] \subseteq Seq(Bit)
  BY <1>1, Called DEF ThreadInv, Control
<1>3. QED
  BY <1>2 DEF Read

\* Indices are converted as they would be in such a content.
LEMMA ConvertedIn ==
  ASSUME IInv, NEW t \in Threads, At(t, "lock", Indexing), NEW s, Len(s) = call[t].nbits
  PROVE  Atomic!HasIndices(call[t].op.seq, s) <=> Converted(t)
BY DEF Atomic!HasIndices, Atomic!Index, Converted, IndexAt, Normalized

\* An index that is beyond the length read at first was so in a content seen.
LEMMA BadIndexAtomic ==
  ASSUME IInv, IInv', NEW t \in Threads, BadIndex(t)
  PROVE  Atomic!Next
<1>1. PICK s \in seen[t] : Len(s) = call[t].nbits
  BY ReadContent DEF BadIndex, At
<1>2. ~Atomic!HasIndices(call[t].op.seq, s)
  BY <1>1, ConvertedIn DEF BadIndex
<1>3. Atomic!Outcome(call[t].op, s) =
        [arr |-> s, out |-> [exc |-> "IndexError", value |-> <<>>]]
  BY <1>2 DEF BadIndex, At, Indexing, Atomic!Outcome, Atomic!Raise
<1>4. Busy(t) /\ call[t].op.name # "tofile"
  BY DEF BadIndex, At, Indexing, Busy
<1>5. QED
  BY <1>3, <1>4, Answered DEF BadIndex

\* So it is with indices and values of different number.
LEMMA WrongSizeAtomic ==
  ASSUME IInv, IInv', NEW t \in Threads, WrongSize(t)
  PROVE  Atomic!Next
<1>1. PICK s \in seen[t] : Len(s) = call[t].nbits
  BY ReadContent DEF WrongSize, At
<1>2. At(t, "lock", Indexing)
  BY DEF WrongSize, At, Indexing
<1>3. Atomic!HasIndices(call[t].op.seq, s)
  BY <1>1, <1>2, ConvertedIn DEF WrongSize
<1>4. call[t].op.name = "setseq" /\ Len(call[t].op.seq) # Len(call[t].op.values)
  BY DEF WrongSize, At, RightSize
<1>5. Atomic!Outcome(call[t].op, s) =
        [arr |-> s, out |-> [exc |-> "ValueError", value |-> <<>>]]
  BY <1>3, <1>4 DEF Atomic!Outcome, Atomic!Raise
<1>6. Busy(t) /\ call[t].op.name # "tofile"
  BY <1>4 DEF WrongSize, At, Busy
<1>7. QED
  BY <1>5, <1>6, Answered DEF WrongSize

\* rotate() that returns early would have changed nothing.
LEMMA RotateNothingAtomic ==
  ASSUME IInv, IInv', NEW t \in Threads, RotateNothing(t)
  PROVE  Atomic!Next
<1> DEFINE n == call[t].nbits
           K == call[t].op.k
<1>1. /\ call[t].pc = "lock" /\ call[t].op.name = "rotate" /\ Busy(t)
      /\ n >= 2 => (K % n) = 0
  BY DEF RotateNothing, NoRotation, At, Busy
<1>2. PICK s \in seen[t] : s \in Seq(Bit) /\ Len(s) = n
  BY <1>1, ReadContent
<1>3. n \in Nat /\ K \in Int
  BY <1>1, Called, ArgumentTypes
<1> HIDE DEF n, K
<1>4. Atomic!Rotated(K, s) = s
  <2>1. CASE n = 0
    <3>1. s = <<>> /\ 1 .. Len(s) = {}
      BY <1>2, <2>1, EmptySeq
    <3>2. QED
      BY <3>1 DEF Atomic!Rotated
  <2>2. CASE n # 0
    <3>1. n \in Nat \ {0} /\ 1 \in 1 .. n
      BY <1>3, <2>2
    <3>2. K % n \in 0 .. (n - 1)
      BY <1>3, <3>1, RotatedFrom
    <3>3. K % n = 0
      BY <1>1, <1>3, <3>1, <3>2 DEF n, K
    <3>4. IsOffset(0, K, n) /\ 0 \in 0 .. (n - 1)
      <4>1. ASSUME NEW i \in 1 .. n
            PROVE  (i - 1 - K) % n = IF i <= 0 THEN n + i - 1 - 0 ELSE i - 1 - 0
        <5>1. (i - 1 - K) % n = IF i <= K % n THEN n + i - 1 - (K % n) ELSE i - 1 - (K % n)
          BY <1>3, <3>1, RotatedFrom
        <5>2. QED
          BY <3>3, <5>1
      <4>2. QED
        BY <3>1, <4>1 DEF IsOffset
    <3>5. QED
      BY <1>2, <1>3, <3>1, <3>4, RotatedBy
  <2>3. QED
    BY <2>1, <2>2
<1>5. Atomic!Outcome(call[t].op, s) = [arr |-> s, out |-> [exc |-> "none", value |-> <<>>]]
  BY <1>1, <1>4 DEF Atomic!Outcome, Atomic!Return, K
<1>6. QED
  BY <1>1, <1>5, Answered DEF RotateNothing

\* A call gives up only if the array has another length than it had before.
LEMMA ChangedSizeAtomic ==
  ASSUME IInv, IInv', NEW t \in Threads, ChangedSize(t)
  PROVE  Atomic!Next
<1>1. Busy(t) /\ call[t].pc \in {"lock", "write"} /\ Len(arr) # call[t].nbits
  BY DEF ChangedSize, At, Busy, LengthKept
<1>2. PICK s \in seen[t] : Len(s) = call[t].nbits
  BY <1>1, ReadContent
<1>3. arr \in seen[t] /\ call[t].op # Atomic!Idle
  BY <1>1, Called
<1>4. Atomic!End(t, [exc |-> "RuntimeError", value |-> <<>>]) /\ arr' = arr
  BY Ended DEF ChangedSize, Unmodified
<1>5. [u \in Threads |-> call[u].op][t] = call[t].op
  OBVIOUS
<1>6. Atomic!GiveUp(t)
  BY <1>1, <1>2, <1>3, <1>4, <1>5 DEF Atomic!GiveUp
<1>7. QED
  BY <1>6 DEF Atomic!Next

\* tolist() and a[seq] return what the array holds at that moment.
LEMMA ReadingAtomic ==
  ASSUME IInv, IInv', NEW t \in Threads, ToList(t) \/ GetSequence(t)
  PROVE  Atomic!Next
<1>1. Types /\ ThreadInv(t)
  BY DEF IInv
<1>2. CASE ToList(t)
  <2>1. Ready(t, "tolist") /\ Busy(t) /\ call[t].op.name = "tolist"
    BY <1>1, <1>2, ReadyFacts DEF ToList
  <2>2. Return(t, "none", arr) /\ Unmodified
    BY <1>1, <1>2, <2>1, ReadingValues DEF ToList
  <2>3. Atomic!Outcome(call[t].op, arr) = [arr |-> arr, out |-> [exc |-> "none", value |-> arr]]
    BY <2>1 DEF Atomic!Outcome, Atomic!Return
  <2>4. QED
    BY <2>1, <2>2, <2>3, TookEffect DEF Unmodified
<1>3. CASE GetSequence(t)
  <2> DEFINE seq == call[t].op.seq
             value == [j \in DOMAIN seq |-> getbit(arr, IndexAt(t, j))]
  <2>1. Ready(t, "getseq") /\ Busy(t) /\ call[t].op.name = "getseq"
    BY <1>1, <1>3, ReadyFacts DEF GetSequence
  <2>2. Return(t, "none", value) /\ Unmodified
    BY <1>3 DEF GetSequence
  <2>3. value = [j \in DOMAIN seq |-> arr[Atomic!Index(seq[j], arr) + 1]]
    BY <1>1, <2>1, ReadingValues
  <2>4. Atomic!HasIndices(seq, arr)
    BY <1>1, <2>1, ReadyFacts DEF Indexing, Atomic!HasIndices
  <2>5. Atomic!Outcome(call[t].op, arr) = [arr |-> arr, out |-> [exc |-> "none", value |-> value]]
    BY <2>1, <2>3, <2>4 DEF Atomic!Outcome, Atomic!Return
  <2> HIDE DEF value
  <2>6. QED
    BY <2>1, <2>2, <2>5, TookEffect DEF Unmodified
<1>4. QED
  BY <1>2, <1>3

\* a[seq] = values, del a[seq] and rotate() do to the array what they do to a list.
LEMMA ChangingAtomic ==
  ASSUME IInv, IInv', NEW t \in Threads, SetSequence(t) \/ DelSequence(t) \/ Rotate(t)
  PROVE  Atomic!Next
<1>1. Types /\ ThreadInv(t)
  BY DEF IInv
<1>2. CASE SetSequence(t)
  <2>1. /\ Ready(t, "setseq") /\ Busy(t) /\ call[t].op.name = "setseq"
        /\ Len(call[t].op.seq) = Len(call[t].op.values)
    BY <1>1, <1>2, ReadyFacts DEF SetSequence
  <2>2. Return(t, "none", <<>>) /\ Becomes(Stored(t))
    BY <1>2 DEF SetSequence
  <2>3. Atomic!HasIndices(call[t].op.seq, arr)
    BY <1>1, <2>1, ReadyFacts DEF Indexing, Atomic!HasIndices
  <2>4. Stored(t) = Atomic!Assigned(call[t].op.seq, call[t].op.values, arr)
    BY <1>1, <2>1, StoredAssigned
  <2>5. Atomic!Outcome(call[t].op, arr) =
          [arr |-> Stored(t), out |-> [exc |-> "none", value |-> <<>>]]
    BY <2>1, <2>3, <2>4 DEF Atomic!Outcome, Atomic!Return
  <2>6. QED
    BY <2>1, <2>2, <2>5, TookEffect
<1>3. CASE DelSequence(t)
  <2>1. Ready(t, "delseq") /\ Busy(t) /\ call[t].op.name = "delseq"
    BY <1>1, <1>3, ReadyFacts DEF DelSequence
  <2>2. Return(t, "none", <<>>) /\ Becomes(Kept(t))
    BY <1>3 DEF DelSequence
  <2>3. Atomic!HasIndices(call[t].op.seq, arr)
    BY <1>1, <2>1, ReadyFacts DEF Indexing, Atomic!HasIndices
  <2>4. Kept(t) = Atomic!At(arr, (0 .. (Len(arr) - 1)) \ Atomic!Chosen(call[t].op.seq, arr))
    BY <1>1, <2>1, KeptAt
  <2>5. Atomic!Outcome(call[t].op, arr) =
          [arr |-> Kept(t), out |-> [exc |-> "none", value |-> <<>>]]
    BY <2>1, <2>3, <2>4 DEF Atomic!Outcome, Atomic!Return
  <2>6. QED
    BY <2>1, <2>2, <2>5, TookEffect
<1>4. CASE Rotate(t)
  <2> DEFINE n == call[t].nbits
             k == call[t].op.k % n
             r == SubSeq(arr, n - k + 1, n) \o SubSeq(arr, 1, n - k)
  <2>1. Ready(t, "rotate") /\ Return(t, "none", <<>>) /\ Becomes(r)
    BY <1>4 DEF Rotate
  <2>2. Busy(t) /\ call[t].op.name = "rotate"
    BY <1>1, <2>1, ReadyFacts
  <2>3. r = Atomic!Rotated(call[t].op.k, arr)
    BY <1>1, <2>1, RotatedValue
  <2> HIDE DEF r
  <2>4. Atomic!Outcome(call[t].op, arr) = [arr |-> r, out |-> [exc |-> "none", value |-> <<>>]]
    BY <2>2, <2>3 DEF Atomic!Outcome, Atomic!Return
  <2>5. QED
    BY <2>1, <2>2, <2>4, TookEffect
<1>5. QED
  BY <1>2, <1>3, <1>4

\* The file: the blocks come from contents of the length read at first.
LEMMA FileWrittenAtomic ==
  ASSUME IInv, IInv', NEW t \in Threads, FileWritten(t)
  PROVE  Atomic!Next
<1> DEFINE c == call[t]
           n == c.nbits
           blocks == Atomic!Blocks(n)
           same == {s \in seen[t] : Len(s) = n}
<1>1. /\ c.pc = "write" /\ c.op.name = "tofile" /\ c.at >= n /\ Busy(t)
      /\ Return(t, "none", c.tmp) /\ Unmodified
  BY DEF FileWritten, At, Busy
<1>2. /\ ThreadInv(t) /\ n \in Nat /\ c \in Local
  BY <1>1, Called DEF Types
<1>3. Written(c, same) /\ same = Read(t)
  BY <1>1, <1>2 DEF ThreadInv, Writing, Read
<1>4. c.at = n /\ c.tmp \in Seq(Bit) /\ Len(c.tmp) = n
  BY <1>1, <1>2, <1>3 DEF Written, Local
<1> DEFINE Fits(b, s) == \A i \in 1 .. n : Atomic!Blocks(i) = b => c.tmp[i] = s[i]
           from == [b \in 1 .. blocks |-> CHOOSE s \in same : Fits(b, s)]
           value == [i \in 1 .. n |-> from[Atomic!Blocks(i)][i]]
<1>5. \A b \in 1 .. blocks : \E s \in same : Fits(b, s)
  BY <1>3, <1>4 DEF Written
<1>6. \A b \in 1 .. blocks : from[b] \in same /\ Fits(b, from[b])
  <2>1. TAKE b \in 1 .. blocks
  <2>2. \E s \in same : Fits(b, s)
    BY <1>5
  <2>3. from[b] = CHOOSE s \in same : Fits(b, s)
    OBVIOUS
  <2> HIDE DEF from, same, Fits
  <2>4. QED
    BY <2>2, <2>3
<1>7. from \in [1 .. blocks -> same]
  BY <1>6
<1>8. \A i \in 1 .. n : c.tmp[i] = from[Atomic!Blocks(i)][i]
  <2>1. TAKE i \in 1 .. n
  <2>2. Atomic!Blocks(i) \in 1 .. blocks
    <3>1. i \in Nat \ {0} /\ n \in Nat /\ i <= n
      BY <1>2
    <3>2. QED
      BY <3>1, BlockOf
  <2>3. Fits(Atomic!Blocks(i), from[Atomic!Blocks(i)])
    BY <1>6, <2>2
  <2> HIDE DEF from
  <2>4. QED
    BY <2>3
<1>9. c.tmp = value
  <2>1. c.tmp = [i \in 1 .. n |-> c.tmp[i]]
    BY <1>4, LenProperties
  <2> HIDE DEF from
  <2>2. QED
    BY <1>8, <2>1
<1>10. n \in {Len(s) : s \in seen[t]}
  <2>1. PICK s \in seen[t] : Len(s) = n
    BY <1>1, ReadContent
  <2>2. QED
    BY <2>1
<1>11. Atomic!End(t, [exc |-> "none", value |-> value]) /\ arr' = arr
  <2>1. Atomic!End(t, [exc |-> "none", value |-> c.tmp]) /\ arr' = arr
    <3>1. PICK w : w = c.tmp /\ Return(t, "none", w) /\ Becomes(arr)
      BY <1>1 DEF Unmodified
    <3> HIDE DEF value, from, same, Fits, blocks, c, n
    <3>2. Atomic!End(t, [exc |-> "none", value |-> w]) /\ arr' = arr
      BY <3>1, Ended
    <3>3. QED
      BY <3>1, <3>2 DEF Atomic!End
  <2> HIDE DEF value
  <2>2. QED
    BY <1>9, <2>1 DEF Atomic!End
<1> HIDE DEF from
<1>12. Atomic!WriteFile(t)
  <2>1. [u \in Threads |-> call[u].op][t].name = "tofile"
    BY <1>1
  <2>2. QED
    BY <1>7, <1>10, <1>11, <2>1 DEF Atomic!WriteFile, Atomic!End
<1>13. QED
  BY <1>12 DEF Atomic!Next

\* extend() appends all it has taken, or nothing, when it ends.
LEMMA FinishExtendAtomic ==
  ASSUME GilDisabled, IInv, IInv', NEW t \in Threads, FinishExtend(t)
  PROVE  Atomic!Next
<1> DEFINE c == call[t]
<1>1. /\ Busy(t) /\ c.op.name = "extend" /\ Complete(c) /\ c.tmp \in Seq(Bit)
      /\ c.exc \in {"none", "iterator", "ValueError"}
  BY FinishedItems
<1>2. Return(t, c.exc, <<>>) /\ Becomes(arr \o c.tmp)
  BY DEF FinishExtend
<1>3. arr \in Seq(Bit)
  BY DEF IInv, Types
<1>4. Atomic!Outcome(c.op, arr) =
        [arr |-> arr \o c.tmp, out |-> [exc |-> c.exc, value |-> <<>>]]
  <2>1. CASE c.exc = "ValueError"
    <3>1. arr \o c.tmp = arr /\ ~Atomic!AllBits(c.op.items)
      BY <1>1, <1>3, <2>1, ConcatEmptySeq DEF Complete
    <3>2. QED
      BY <1>1, <2>1, <3>1 DEF Atomic!Outcome, Atomic!Raise
  <2>2. CASE c.exc # "ValueError"
    <3>1. /\ c.tmp = c.op.items /\ Atomic!AllBits(c.op.items)
          /\ c.exc = IF c.op.raises THEN "iterator" ELSE "none"
      BY <1>1, <2>2 DEF Complete
    <3>2. QED
      BY <1>1, <3>1 DEF Atomic!Outcome, Atomic!Raise, Atomic!Return
  <2>3. QED
    BY <2>1, <2>2
<1> HIDE DEF c
<1>5. QED
  BY <1>1, <1>2, <1>4, TookEffect DEF c

\* append(), pop() and the end of a search take effect in their only, or last, step.
LEMMA SingleAtomic ==
  ASSUME IInv, IInv', NEW t \in Threads, AppendItem(t) \/ Pop(t) \/ StopIteration(t)
  PROVE  Atomic!Next
<1>1. arr \in Seq(Bit) /\ Busy(t)
  BY DEF IInv, Types, AppendItem, Pop, StopIteration, At, Busy
<1>2. CASE AppendItem(t)
  <2>1. call[t].op.name = "append" /\ call[t].op.value \in Bit
    BY <1>1, <1>2, Called, ArgumentTypes DEF AppendItem, At
  <2>2. Return(t, "none", <<>>) /\ Becomes(Append(arr, call[t].op.value))
    BY <1>1, <1>2, <2>1, AppendedValue DEF AppendItem
  <2>3. Atomic!Outcome(call[t].op, arr) =
          [arr |-> Append(arr, call[t].op.value), out |-> [exc |-> "none", value |-> <<>>]]
    BY <2>1 DEF Atomic!Outcome, Atomic!Return
  <2>4. QED
    BY <1>1, <2>1, <2>2, <2>3, TookEffect
<1>3. CASE Pop(t) /\ arr = <<>>
  <2>1. call[t].op.name = "pop" /\ Return(t, "IndexError", <<>>) /\ Becomes(arr)
    BY <1>3 DEF Pop, At, Unmodified
  <2>2. Atomic!Outcome(call[t].op, arr) =
          [arr |-> arr, out |-> [exc |-> "IndexError", value |-> <<>>]]
    BY <1>3, <2>1 DEF Atomic!Outcome, Atomic!Raise
  <2>3. QED
    BY <1>1, <2>1, <2>2, TookEffect
<1>4. CASE Pop(t) /\ arr # <<>>
  <2>1. /\ resize(arr, Len(arr) - 1) = Atomic!Front(arr)
        /\ <<getbit(arr, Len(arr) - 1)>> = <<Atomic!Last(arr)>>
    BY <1>1, <1>4, PoppedValue DEF Atomic!Front, Atomic!Last
  <2>2. /\ call[t].op.name = "pop" /\ Return(t, "none", <<Atomic!Last(arr)>>)
        /\ Becomes(Atomic!Front(arr))
    BY <1>4, <2>1 DEF Pop, At
  <2>3. Atomic!Outcome(call[t].op, arr) =
          [arr |-> Atomic!Front(arr), out |-> [exc |-> "none", value |-> <<Atomic!Last(arr)>>]]
    BY <1>4, <2>2 DEF Atomic!Outcome, Atomic!Return
  <2>4. QED
    BY <1>1, <2>2, <2>3, TookEffect
<1>5. CASE StopIteration(t)
  <2>1. call[t].op.name = "search" /\ Return(t, "StopIteration", <<>>) /\ Becomes(arr)
    BY <1>5 DEF StopIteration, At, Unmodified
  <2>2. Atomic!Outcome(call[t].op, arr) =
          [arr |-> arr, out |-> [exc |-> "StopIteration", value |-> <<>>]]
    BY <2>1 DEF Atomic!Outcome, Atomic!Raise
  <2>3. QED
    BY <1>1, <2>1, <2>2, TookEffect
<1>6. QED
  BY <1>2, <1>3, <1>4, <1>5

\* A call that begins has seen the content of that moment.
LEMMA BeginAtomic ==
  ASSUME IInv, IInv', NEW t \in Threads, Begin(t)
  PROVE  Atomic!Next
<1> DEFINE op == [u \in Threads |-> call[u].op]
<1>1. call \in [Threads -> Local] /\ call[t] = NoCall /\ NoCall.op = Atomic!Idle
  BY DEF IInv, Types, ThreadInv, Control, Busy, Begin, NoCall, Atomic!Idle
<1>2. PICK o \in Ops :
        call' = [call EXCEPT ![t] =
          [NoCall EXCEPT !.op = o, !.pc = FirstStep(o),
             !.nbits = IF o.name = "extend" /\ GilDisabled THEN 0 ELSE Len(arr)]]
  BY DEF Begin
<1>3. op' = [op EXCEPT ![t] = o]
  <2> DEFINE n == IF o.name = "extend" /\ GilDisabled THEN 0 ELSE Len(arr)
             p == FirstStep(o)
             c == [NoCall EXCEPT !.op = o, !.pc = p, !.nbits = n]
  <2>1. call' = [call EXCEPT ![t] = c]
    BY <1>2
  <2>2. c.op = o
    BY DEF NoCall
  <2> HIDE DEF c
  <2>3. QED
    BY <1>1, <2>1, <2>2
<1>4. op[t] = Atomic!Idle
  BY <1>1
<1>5. /\ seen' = [seen EXCEPT ![t] = {arr}] /\ out' = [out EXCEPT ![t] = Atomic!Pending]
      /\ UNCHANGED arr
  BY DEF Begin, Pending, Atomic!Pending
<1>6. Atomic!Begin(t)
  BY <1>3, <1>4, <1>5 DEF Atomic!Begin
<1>7. QED
  BY <1>6 DEF Atomic!Next

\* A step inside a call changes nothing that others see.
LEMMA Inside ==
  ASSUME IInv, IInv', NEW t \in Threads, NEW c, call' = [call EXCEPT ![t] = c], c.op = call[t].op,
         \/ Unmodified /\ Busy(t) /\ Busy(t)' /\ UNCHANGED out
         \/ UNCHANGED <<arr, seen, out>>
  PROVE  UNCHANGED Atomic!vars
<1> DEFINE op == [u \in Threads |-> call[u].op]
<1>1. Types /\ call \in [Threads -> Local]
  BY DEF IInv, Types
<1>2. op' = op
  BY <1>1
<1>3. arr' = arr /\ out' = out /\ seen' = seen
  <2>1. CASE UNCHANGED <<arr, seen, out>>
    BY <2>1
  <2>2. CASE Unmodified /\ Busy(t) /\ Busy(t)' /\ UNCHANGED out
    <3>1. ASSUME NEW u \in Threads PROVE seen'[u] = seen[u] /\ u \in DOMAIN seen
      <4>1. /\ call[u].pc = "idle" => seen[u] = {}
            /\ call[u].pc # "idle" => arr \in seen[u]
        BY DEF IInv, ThreadInv, Control, Busy
      <4>2. call'[u].pc = "idle" <=> call[u].pc = "idle"
        BY <1>1, <2>2 DEF Busy
      <4>3. call[u].pc # "idle" => seen[u] \union {arr} = seen[u]
        BY <4>1
      <4>4. seen'[u] = IF call'[u].pc = "idle" THEN {} ELSE seen[u] \union {arr}
        BY <2>2 DEF Unmodified, Becomes
      <4>5. QED
        BY <1>1, <4>1, <4>2, <4>3, <4>4 DEF Types
    <3>2. seen' \in [Threads -> SUBSET Seq(Bit)] /\ seen \in [Threads -> SUBSET Seq(Bit)]
      BY DEF IInv, Types
    <3>3. QED
      BY <2>2, <3>1, <3>2 DEF Unmodified, Becomes
  <2>3. QED
    BY <2>1, <2>2
<1>4. QED
  BY <1>2, <1>3 DEF Atomic!vars

\* A step of extend() that stores in the temporary array.
LEMMA PutAtomic ==
  ASSUME GilDisabled, IInv, IInv', NEW t \in Threads, NEW s, NEW d, Put(t, s, d),
         Busy(t), d.op = call[t].op, d.pc # "idle", {"op", "pc"} \subseteq DOMAIN d
  PROVE  UNCHANGED Atomic!vars
<1> DEFINE c == [d EXCEPT !.tmp = s]
<1>1. UNCHANGED <<out, calls>> /\ Unmodified /\ call' = [call EXCEPT ![t] = c]
  BY DEF Put
<1>2. c.op = call[t].op /\ c.pc # "idle"
  OBVIOUS
<1> HIDE DEF c
<1>3. Busy(t)'
  BY <1>1, <1>2 DEF Busy, IInv, Types
<1>4. QED
  BY <1>1, <1>2, <1>3, Inside

\* Steps that others cannot see.
LEMMA InsideAtomic ==
  ASSUME GilDisabled, IInv, IInv', NEW t \in Threads,
         \/ WriteBlock(t) \/ MakeRoom(t) \/ NextItem(t) \/ IteratorEnds(t) \/ StoreItem(t)
         \/ BadItem(t) \/ SearchRead(t) \/ SearchFind(t) \/ SearchAdvance(t)
  PROVE  UNCHANGED Atomic!vars
<1>1. /\ call \in [Threads -> Local] /\ call' \in [Threads -> Local] /\ Busy(t)
  BY DEF IInv, Types, WriteBlock, MakeRoom, NextItem, IteratorEnds, StoreItem, BadItem,
         SearchRead, SearchFind, SearchAdvance, At, Busy
<1>2. \A c : call' = [call EXCEPT ![t] = c] => call'[t] = c
  BY <1>1
<1>3. CASE SearchFind(t) \/ SearchAdvance(t)
  <2>1. \E c : call' = [call EXCEPT ![t] = c] /\ c.op = call[t].op
    <3>1. CASE SearchFind(t)
      <4> DEFINE pos == IF it.right THEN Max(Ahead(t)) ELSE Min(Ahead(t))
                 c == [call[t] EXCEPT !.pc = "advance", !.pos = pos]
      <4>1. call' = [call EXCEPT ![t] = c]
        BY <3>1 DEF SearchFind
      <4>2. c.op = call[t].op
        BY <1>1 DEF Local
      <4>3. QED
        BY <4>1, <4>2
    <3>2. CASE SearchAdvance(t)
      <4> DEFINE c == [call[t] EXCEPT !.pc = "search"]
      <4>1. call' = [call EXCEPT ![t] = c]
        BY <3>2 DEF SearchAdvance
      <4>2. c.op = call[t].op
        BY <1>1 DEF Local
      <4>3. QED
        BY <4>1, <4>2
    <3>3. QED
      BY <1>3, <3>1, <3>2
  <2>2. UNCHANGED <<arr, seen, out>>
    BY <1>3 DEF SearchFind, SearchAdvance
  <2>3. QED
    BY <2>1, <2>2, Inside
<1>4. CASE WriteBlock(t) \/ IteratorEnds(t) \/ SearchRead(t)
  <2>1. /\ Unmodified /\ UNCHANGED out
        /\ \E c : call' = [call EXCEPT ![t] = c] /\ c.op = call[t].op /\ c.pc # "idle"
    <3>1. CASE WriteBlock(t)
      <4> DEFINE b == [i \in 1 .. (BlockEnd(t) - call[t].at) |-> getbit(arr, call[t].at + i - 1)]
                 e == BlockEnd(t)
                 w == call[t].tmp \o b
                 c == [call[t] EXCEPT !.tmp = w, !.at = e]
      <4>1. call' = [call EXCEPT ![t] = c] /\ Unmodified /\ UNCHANGED out /\ call[t].pc = "write"
        BY <1>1, <3>1 DEF WriteBlock, At
      <4> HIDE DEF b, e, w
      <4>2. c.op = call[t].op /\ c.pc = call[t].pc
        BY <1>1 DEF Local
      <4>3. QED
        BY <4>1, <4>2
    <3>2. CASE IteratorEnds(t)
      <4> DEFINE x == IF call[t].op.raises THEN "iterator" ELSE "none"
                 c == [call[t] EXCEPT !.pc = "finish", !.exc = x]
      <4>1. call' = [call EXCEPT ![t] = c] /\ Unmodified /\ UNCHANGED out
        BY <1>1, <3>2 DEF IteratorEnds
      <4> HIDE DEF x
      <4>2. c.op = call[t].op /\ c.pc = "finish"
        BY <1>1 DEF Local
      <4>3. QED
        BY <4>1, <4>2
    <3>3. CASE SearchRead(t)
      <4> DEFINE c == [call[t] EXCEPT !.pc = "find", !.start = it.start, !.stop = it.stop]
      <4>1. call' = [call EXCEPT ![t] = c] /\ Unmodified /\ UNCHANGED out
        BY <1>1, <3>3 DEF SearchRead
      <4>2. c.op = call[t].op /\ c.pc = "find"
        BY <1>1 DEF Local
      <4>3. QED
        BY <4>1, <4>2
    <3>4. QED
      BY <1>4, <3>1, <3>2, <3>3
  <2>2. PICK c : call' = [call EXCEPT ![t] = c] /\ c.op = call[t].op /\ c.pc # "idle"
    BY <2>1
  <2>3. Busy(t)'
    BY <1>2, <2>2 DEF Busy
  <2>4. QED
    BY <1>1, <2>1, <2>2, <2>3, Inside
<1>5. CASE MakeRoom(t)
  <2> DEFINE c == call[t]
             pc == IF Items(t) = <<>> THEN "finish" ELSE "store"
             s == resize(Target(t), c.nbits + Len(Items(t)))
             d == [c EXCEPT !.pc = pc, !.at = c.nbits]
  <2>1. Put(t, s, d)
    BY <1>5 DEF MakeRoom
  <2>2. d.op = c.op /\ d.pc # "idle" /\ {"op", "pc"} \subseteq DOMAIN d
    BY <1>1 DEF Local
  <2> HIDE DEF d, s
  <2>3. QED
    BY <1>1, <2>1, <2>2, PutAtomic
<1>6. CASE NextItem(t)
  <2> DEFINE c == call[t]
             s == resize(Target(t), Len(Target(t)) + 1)
             d == [c EXCEPT !.pc = "store", !.at = Len(Target(t))]
  <2>1. Put(t, s, d)
    BY <1>6 DEF NextItem
  <2>2. d.op = c.op /\ d.pc # "idle" /\ {"op", "pc"} \subseteq DOMAIN d
    BY <1>1 DEF Local
  <2> HIDE DEF d, s
  <2>3. QED
    BY <1>1, <2>1, <2>2, PutAtomic
<1>7. CASE StoreItem(t)
  <2> DEFINE c == call[t]
             last == c.k + 1 = Len(Items(t))
             s == setbit(Target(t), c.at, Items(t)[c.k + 1])
             d == [c EXCEPT !.k = @ + 1, !.at = @ + 1,
                     !.pc = IF ~c.op.sequence THEN "next" ELSE IF last THEN "finish" ELSE "store"]
  <2>1. Put(t, s, d)
    BY <1>7 DEF StoreItem
  <2>2. d.op = c.op /\ d.pc # "idle" /\ {"op", "pc"} \subseteq DOMAIN d
    BY <1>1 DEF Local
  <2> HIDE DEF d, s
  <2>3. QED
    BY <1>1, <2>1, <2>2, PutAtomic
<1>8. CASE BadItem(t)
  <2> DEFINE c == call[t]
             s == resize(Target(t), c.nbits)
             d == [c EXCEPT !.pc = "finish", !.exc = "ValueError"]
  <2>1. Put(t, s, d)
    BY <1>8 DEF BadItem
  <2>2. d.op = c.op /\ d.pc # "idle" /\ {"op", "pc"} \subseteq DOMAIN d
    BY <1>1 DEF Local
  <2> HIDE DEF d, s
  <2>3. QED
    BY <1>1, <2>1, <2>2, PutAtomic
<1>9. QED
  BY <1>3, <1>4, <1>5, <1>6, <1>7, <1>8

\* Without the GIL, every call is atomic in the sense of AtomicCalls (CallsAtomic):
\* it changes the array at one moment or not at all, what it returns belongs to one
\* content that the array had meanwhile, and it gives up only if the length changed.
THEOREM CallsAreAtomic ==
  ASSUME GilDisabled
  PROVE  Spec => CallsAtomic
<1>1. Init => Atomic!Init
  <2>1. NoCall.op = Atomic!Idle /\ Pending = Atomic!Pending
    BY DEF NoCall, Atomic!Idle, Pending, Atomic!Pending
  <2>2. QED
    BY <2>1 DEF Init, Atomic!Init
<1>2. ASSUME IInv, [Next]_vars
      PROVE  [Atomic!Next]_(Atomic!vars)
  <2>1. IInv'
    BY <1>2, NextIInv
  <2>2. CASE UNCHANGED vars
    BY <2>2 DEF vars, Atomic!vars
  <2>3. ASSUME NEW t \in Threads, Begin(t) \/ Step(t)
        PROVE  Atomic!Next \/ UNCHANGED Atomic!vars
    <3>1. CASE Begin(t)
      BY <1>2, <2>1, <3>1, BeginAtomic
    <3>2. CASE BadIndex(t)
      BY <1>2, <2>1, <3>2, BadIndexAtomic
    <3>3. CASE WrongSize(t)
      BY <1>2, <2>1, <3>3, WrongSizeAtomic
    <3>4. CASE RotateNothing(t)
      BY <1>2, <2>1, <3>4, RotateNothingAtomic
    <3>5. CASE ChangedSize(t)
      BY <1>2, <2>1, <3>5, ChangedSizeAtomic
    <3>6. CASE ToList(t) \/ GetSequence(t)
      BY <1>2, <2>1, <3>6, ReadingAtomic
    <3>7. CASE SetSequence(t) \/ DelSequence(t) \/ Rotate(t)
      BY <1>2, <2>1, <3>7, ChangingAtomic
    <3>8. CASE FileWritten(t)
      BY <1>2, <2>1, <3>8, FileWrittenAtomic
    <3>9. CASE FinishExtend(t)
      BY <1>2, <2>1, <3>9, FinishExtendAtomic
    <3>10. CASE AppendItem(t) \/ Pop(t) \/ StopIteration(t)
      BY <1>2, <2>1, <3>10, SingleAtomic
    <3>11. CASE \/ WriteBlock(t) \/ MakeRoom(t) \/ NextItem(t) \/ IteratorEnds(t)
                \/ StoreItem(t) \/ BadItem(t) \/ SearchRead(t) \/ SearchFind(t)
                \/ SearchAdvance(t)
      BY <1>2, <2>1, <3>11, InsideAtomic
    <3>12. QED
      BY <2>3, <3>1, <3>2, <3>3, <3>4, <3>5, <3>6, <3>7, <3>8, <3>9, <3>10, <3>11 DEF Step
  <2>4. QED
    BY <1>2, <2>2, <2>3 DEF Next
<1>3. QED
  BY <1>1, <1>2, InvariantHolds, PTL DEF Spec, CallsAtomic, Atomic!Spec
===============================================================================
