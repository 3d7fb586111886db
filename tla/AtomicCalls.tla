------------------------------ MODULE AtomicCalls -----------------------------
(***************************************************************************)
(* What the methods of one array promise to threads that share it: each    *)
(* call behaves as if it happened at a single moment between its start and *)
(* its return.  It changes the array at that moment or not at all; what it *)
(* returns belongs to one content that the array had during the call.  It  *)
(* may give up with a RuntimeError, but only if the array changed its      *)
(* length meanwhile.                                                       *)
(***************************************************************************)
EXTENDS Integers, Sequences, SequencesExt, FiniteSetsExt

CONSTANTS
  Threads,
  Ops,        \* the calls: records of a name and arguments
  Contents,   \* what the array may hold at first
  BlockSize   \* tofile() writes that many elements at a time

VARIABLES
  arr,        \* the elements, a sequence
  op,         \* what each thread is calling
  seen,       \* the contents of arr since that call began
  out         \* what each thread got from its last call

vars == <<arr, op, seen, out>>

Idle    == [name |-> "idle"]
Pending == [exc |-> "pending", value |-> <<>>]

Return(s, value)   == [arr |-> s, out |-> [exc |-> "none", value |-> value]]
Raise(s, exc)      == [arr |-> s, out |-> [exc |-> exc, value |-> <<>>]]

-------------------------------------------------------------------------------
(* Lists.  Indices count from 0, or from the end if they are negative.     *)

Index(i, s)        == IF i < 0 THEN i + Len(s) ELSE i
HasIndices(seq, s) == \A j \in DOMAIN seq : Index(seq[j], s) \in 0 .. (Len(s) - 1)
Chosen(seq, s)     == {Index(seq[j], s) : j \in DOMAIN seq}

\* The elements at a set of indices, in order: the n-th is at the index of the
\* set that n of its elements do not exceed.
Rank(i, S) == Cardinality({j \in S : j <= i})
At(s, S)   == [n \in 1 .. Cardinality(S) |-> s[(CHOOSE i \in S : Rank(i, S) = n) + 1]]

\* The last value counts if an index occurs twice.
Assigned(seq, values, s) ==
  [i \in 1 .. Len(s) |->
     IF i - 1 \in Chosen(seq, s)
     THEN values[Max({j \in DOMAIN seq : Index(seq[j], s) = i - 1})]
     ELSE s[i]]

\* Element i moves to i + k, around the end.
Rotated(k, s) == [i \in 1 .. Len(s) |-> s[((i - 1 - k) % Len(s)) + 1]]

\* What extend() takes from its argument: everything up to the first item that
\* is not a bit, and then nothing; or all an iterator gives before it raises.
AllBits(items) == \A j \in DOMAIN items : items[j] \in {0, 1}

\* What a call does to content s and what it returns.
Outcome(o, s) ==
  CASE o.name = "tolist" -> Return(s, s)
    [] o.name \in {"getseq", "setseq", "delseq"} /\ ~HasIndices(o.seq, s) ->
         Raise(s, "IndexError")
    [] o.name = "getseq" /\ HasIndices(o.seq, s) ->
         Return(s, [j \in DOMAIN o.seq |-> s[Index(o.seq[j], s) + 1]])
    [] o.name = "setseq" /\ HasIndices(o.seq, s) ->
         IF Len(o.seq) # Len(o.values) THEN Raise(s, "ValueError")
         ELSE Return(Assigned(o.seq, o.values, s), <<>>)
    [] o.name = "delseq" /\ HasIndices(o.seq, s) ->
         Return(At(s, 0 .. (Len(s) - 1) \ Chosen(o.seq, s)), <<>>)
    [] o.name = "rotate" -> Return(Rotated(o.k, s), <<>>)
    [] o.name = "extend" ->
         IF ~AllBits(o.items) THEN Raise(s, "ValueError")
         ELSE IF o.raises THEN Raise(s \o o.items, "iterator")
         ELSE Return(s \o o.items, <<>>)
    [] o.name = "append" -> Return(Append(s, o.value), <<>>)
    [] o.name = "pop" -> IF s = <<>> THEN Raise(s, "IndexError")
                         ELSE Return(Front(s), <<Last(s)>>)
    [] o.name = "search" -> Raise(s, "StopIteration")

-------------------------------------------------------------------------------
Begin(t) ==
  /\ op[t] = Idle
  /\ \E o \in Ops : op' = [op EXCEPT ![t] = o]
  /\ seen' = [seen EXCEPT ![t] = {arr}]
  /\ out' = [out EXCEPT ![t] = Pending]
  /\ UNCHANGED arr

End(t, o) ==
  /\ op' = [op EXCEPT ![t] = Idle]
  /\ out' = [out EXCEPT ![t] = o]
  /\ seen' = [u \in Threads |-> IF op'[u] = Idle THEN {} ELSE seen[u] \union {arr'}]

\* Now is the moment of the call.
TakeEffect(t) ==
  LET r == Outcome(op[t], arr)
  IN  /\ op[t].name \notin {"idle", "tofile"}
      /\ arr' = r.arr
      /\ End(t, r.out)

\* It was before, and the call changed nothing.
Answer(t) ==
  /\ op[t].name \notin {"idle", "tofile"}
  /\ UNCHANGED arr
  /\ \E s \in seen[t] : Outcome(op[t], s).arr = s /\ End(t, Outcome(op[t], s).out)

\* Each block of a file is from one content; all have the same length.
Blocks(n) == (n + BlockSize - 1) \div BlockSize
WriteFile(t) ==
  /\ op[t].name = "tofile"
  /\ UNCHANGED arr
  /\ \E n \in {Len(s) : s \in seen[t]} :
     \E from \in [1 .. Blocks(n) -> {s \in seen[t] : Len(s) = n}] :
       End(t, [exc |-> "none",
               value |-> [i \in 1 .. n |-> from[Blocks(i)][i]]])

GiveUp(t) ==
  /\ op[t] # Idle
  /\ \E s1, s2 \in seen[t] : Len(s1) # Len(s2)
  /\ UNCHANGED arr
  /\ End(t, [exc |-> "RuntimeError", value |-> <<>>])

Init ==
  /\ arr \in Contents
  /\ op = [t \in Threads |-> Idle]
  /\ seen = [t \in Threads |-> {}]
  /\ out = [t \in Threads |-> Pending]

Next == \E t \in Threads :
  Begin(t) \/ TakeEffect(t) \/ Answer(t) \/ WriteFile(t) \/ GiveUp(t)

Spec == Init /\ [][Next]_vars
===============================================================================
