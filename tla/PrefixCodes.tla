----------------------------- MODULE PrefixCodes ------------------------------
(***************************************************************************)
(* Prefix codes: a dict of code words, arrays that may change at any time, *)
(* from which a decodetree object or a decode iterator makes a tree; an    *)
(* array that encode() extends by code words; and an iterator that decodes *)
(* it, meanwhile, symbol by symbol.                                        *)
(*                                                                         *)
(* A call of encode() is a sequence of Encode steps, one for each symbol   *)
(* that its iterable yields, and making a tree has one step per item of    *)
(* the dict: the free-threaded build lets other threads in between.        *)
(***************************************************************************)
EXTENDS BinaryTree

CONSTANTS
  CodeDicts,    \* the dicts given at the start
  Words,        \* the bits a code word may be changed to, <<>> among them
  Overwrites,   \* what the array may be overwritten with
  MaxBits,      \* bound on the length of the array
  MaxChanges    \* bound on the number of changes of code words

ASSUME CodesAssumption ==
  /\ \A code \in CodeDicts :
       /\ IsFiniteSet(DOMAIN code)
       /\ \A s \in DOMAIN code : s # Inner /\ code[s] \in Seq(Bit)
  /\ MaxBits \in Nat /\ MaxChanges \in Nat
  /\ Words \subseteq Seq(Bit)
  /\ \A b \in Overwrites : b \in Seq(Bit) /\ Len(b) <= MaxBits

VARIABLES
  codedict,     \* the code words, by symbol
  changes,      \* how often one has been changed
  making,       \* the tree that is being made, and for what
  trees,        \* the trees in memory, with the code each was made of
  held, refs,   \* whether the program holds the decodetree object, its reference count
  bits,         \* the array
  written,      \* the code words it consists of, or Garbled
  it            \* the decode iterator

vars == <<codedict, changes, making, trees, held, refs, bits, written, it>>

NotMaking == [for |-> "nothing"]
NoIter    == [tree |-> "none"]
Garbled   == <<<<"garbled", <<>>>>>>

Init ==
  /\ codedict \in CodeDicts
  /\ changes = 0 /\ making = NotMaking
  /\ trees = <<>> /\ held = FALSE /\ refs = 0
  /\ bits = <<>> /\ written = <<>> /\ it = NoIter

-------------------------------------------------------------------------------
(* The dict and the array, in the hands of the program.                    *)

ChangeWord(s, w) ==
  /\ changes < MaxChanges
  /\ changes' = changes + 1
  /\ codedict' = [codedict EXCEPT ![s] = w]
  /\ UNCHANGED <<making, trees, held, refs, bits, written, it>>

DeleteWord(s) ==
  /\ changes < MaxChanges
  /\ changes' = changes + 1
  /\ codedict' = [t \in DOMAIN codedict \ {s} |-> codedict[t]]
  /\ making' = IF making = NotMaking THEN making ELSE [making EXCEPT !.todo = @ \ {s}]
  /\ UNCHANGED <<trees, held, refs, bits, written, it>>

\* Any other method of the array; faithful iterators are those of an array to
\* which code words are appended only.
Overwrite(b) ==
  /\ b # bits /\ bits' = b
  /\ written' = IF b = <<>> THEN <<>> ELSE Garbled
  /\ it' = IF it = NoIter THEN it ELSE [it EXCEPT !.faithful = FALSE]
  /\ UNCHANGED <<codedict, changes, making, trees, held, refs>>

\* A step of encode(): symbols without a code word, or with an empty one, raise
\* ValueError and append nothing.
Encode(s) ==
  /\ codedict[s] # <<>>
  /\ Len(bits) + Len(codedict[s]) <= MaxBits
  /\ bits' = bits \o codedict[s]
  /\ written' = IF written = Garbled THEN Garbled ELSE Append(written, <<s, codedict[s]>>)
  /\ UNCHANGED <<codedict, changes, making, trees, held, refs, it>>

-------------------------------------------------------------------------------
(* Trees, and who owns them.                                               *)

MakeTree(for) ==
  /\ making = NotMaking /\ DOMAIN codedict # {}
  /\ IF for = "decodetree" THEN refs = 0 ELSE it = NoIter
  /\ making' = [for |-> for, todo |-> DOMAIN codedict, tree |-> Root, code |-> <<>>]
  /\ UNCHANGED <<codedict, changes, trees, held, refs, bits, written, it>>

Refused(s) == codedict[s] = <<>> \/ Ambiguous(making.tree, codedict[s])

Insert(s) ==
  /\ making # NotMaking /\ s \in making.todo
  /\ making' =
       IF Refused(s) THEN NotMaking
       ELSE [making EXCEPT !.todo = @ \ {s}, !.tree = InsertSymbol(@, codedict[s], s),
                           !.code = Extended(@, s, codedict[s])]
  /\ UNCHANGED <<codedict, changes, trees, held, refs, bits, written, it>>

\* binode_new(), or the allocation of the object, failed.
NoMemory ==
  /\ making # NotMaking
  /\ making' = NotMaking
  /\ UNCHANGED <<codedict, changes, trees, held, refs, bits, written, it>>

Iterator(tree) == [tree |-> tree, index |-> 0, faithful |-> written # Garbled]

Made ==
  /\ making # NotMaking /\ making.todo = {}
  /\ making' = NotMaking
  /\ trees' = Extended(trees, making.for, [tree |-> making.tree, code |-> making.code])
  /\ IF making.for = "decodetree"
     THEN held' = TRUE /\ refs' = 1 /\ UNCHANGED it
     ELSE it' = Iterator("iterator") /\ UNCHANGED <<held, refs>>
  /\ UNCHANGED <<codedict, changes, bits, written>>

\* decode(tree): the iterator uses the tree of the object.
DecodeTree ==
  /\ held /\ it = NoIter /\ making.for # "iterator"
  /\ it' = Iterator("decodetree") /\ refs' = refs + 1
  /\ UNCHANGED <<codedict, changes, making, trees, held, bits, written>>

Without(tree) == [t \in DOMAIN trees \ {tree} |-> trees[t]]

\* One reference to the decodetree object less; decodetree_dealloc() follows the last.
DecRef ==
  /\ refs' = refs - 1
  /\ trees' = IF refs = 1 THEN Without("decodetree") ELSE trees

DropTree ==
  /\ held /\ held' = FALSE
  /\ DecRef
  /\ UNCHANGED <<codedict, changes, making, bits, written, it>>

\* (A slip: the iterator deletes the tree it decodes with, whoever owns it.)
ReleaseAny(tree) == trees' = Without(tree) /\ UNCHANGED refs

\* What decodeiter_dealloc() does about the tree.
Release(tree) ==
  IF tree = "decodetree" THEN DecRef ELSE trees' = Without(tree) /\ UNCHANGED refs

DropIterator ==
  /\ it # NoIter /\ it' = NoIter
  /\ Release(it.tree)
  /\ UNCHANGED <<codedict, changes, making, held, bits, written>>

-------------------------------------------------------------------------------
(* Decoding.                                                               *)

Found == Traverse(trees[it.tree].tree, bits, it.index)

\* next(): a symbol, StopIteration, or ValueError; all move the index.
NextSymbol ==
  /\ it # NoIter
  /\ it' = [it EXCEPT !.index = Found.index]
  /\ UNCHANGED <<codedict, changes, making, trees, held, refs, bits, written>>

\* (A slip: no look at what is left of the array.)
SkipBitsUnchecked(n) ==
  /\ it # NoIter
  /\ it' = [it EXCEPT !.index = @ + n, !.faithful = FALSE]
  /\ UNCHANGED <<codedict, changes, making, trees, held, refs, bits, written>>

SkipBits(n) ==
  /\ it # NoIter /\ n <= Len(bits) - it.index
  /\ it' = [it EXCEPT !.index = @ + n, !.faithful = FALSE]
  /\ UNCHANGED <<codedict, changes, making, trees, held, refs, bits, written>>

Next ==
  \/ \E s \in DOMAIN codedict, w \in Words : ChangeWord(s, w)
  \/ \E s \in DOMAIN codedict : DeleteWord(s)
  \/ \E for \in {"decodetree", "iterator"} : MakeTree(for)
  \/ \E s \in DOMAIN codedict : Insert(s)
  \/ NoMemory
  \/ Made
  \/ DecodeTree
  \/ DropTree
  \/ DropIterator
  \/ \E s \in DOMAIN codedict : Encode(s)
  \/ NextSymbol
  \/ \E n \in 1 .. MaxBits : SkipBits(n)
  \/ \E b \in Overwrites : Overwrite(b)

Spec == Init /\ [][Next]_vars

-------------------------------------------------------------------------------
Holders == {"decodetree", "iterator"}

\* The variables are of the right type, and the tree of an iterator is there.
TypeOK ==
  /\ (\A s \in DOMAIN codedict : codedict[s] \in Seq(Bit)) /\ changes \in 0 .. MaxChanges
  /\ making = NotMaking \/ (making.for \in Holders /\ making.todo \subseteq DOMAIN codedict)
  /\ DOMAIN trees \subseteq Holders /\ held \in BOOLEAN /\ refs \in 0 .. 2
  /\ bits \in Seq(Bit) /\ Len(bits) <= MaxBits
  /\ it = NoIter \/ (it.tree \in DOMAIN trees /\ it.index \in 0 .. MaxBits)

\* A tree is in memory as long as the decodetree object or an iterator uses it and
\* no longer, whichever of the two goes first: decodetree_dealloc() and
\* decodeiter_dealloc() delete it once.
TreesOwned ==
  LET users == (IF held THEN {"program"} ELSE {}) \union
               (IF it.tree = "decodetree" THEN {"iterator"} ELSE {})
  IN  /\ refs = Cardinality(users)
      /\ DOMAIN trees = (IF users # {} THEN {"decodetree"} ELSE {}) \union
                        (IF it.tree = "iterator" THEN {"iterator"} ELSE {})

\* A tree, also one that is still being made, says what the code words said when
\* they were read: todict() gives them back, none is a prefix of another,
\* complete() tells whether there is room for a further one, the assertions of nodes()
\* hold (but for the tree of a dict that others emptied after it was
\* checked), and the next word is refused exactly if the code were ambiguous with it.
TreeMatchesCode ==
  LET Matches(tree, code) ==
        LET n == IF DOMAIN code = {} THEN 1 ELSE MaxLen(code)
        IN  /\ ToDict(tree) = code /\ PrefixFree(code)
            /\ Complete(tree) <=>
                 \A w \in [1 .. n -> Bit] : \E s \in DOMAIN code : IsPrefix(code[s], w)
            /\ DOMAIN code # {} => NodesAsserted(tree)
  IN  /\ \A t \in DOMAIN trees : Matches(trees[t].tree, trees[t].code)
      /\ making # NotMaking =>
           /\ Matches(making.tree, making.code)
           /\ \A s \in making.todo :
                codedict[s] # <<>> =>
                  (Ambiguous(making.tree, codedict[s])
                     <=> ~PrefixFree(Extended(making.code, s, codedict[s])))

\* Where each of some code words ends, if one follows the other.
Ends(words) ==
  LET end[k \in 0 .. Len(words)] == IF k = 0 THEN 0 ELSE end[k - 1] + Len(words[k][2])
  IN  end

\* decode() undoes encode(), also while encode() goes on and whatever happens to the
\* dict: an iterator over an array of code words that its tree knows is between two of
\* them, and yields the next one, or nothing at the end.
DecodesWhatWasEncoded ==
  (it # NoIter /\ it.faithful /\ written # Garbled) =>
    LET code == trees[it.tree].code
        end  == Ends(written)
    IN  (\A k \in DOMAIN written : written[k][1] \in DOMAIN code
                                   /\ code[written[k][1]] = written[k][2])
        => \E k \in 0 .. Len(written) :
             /\ it.index = end[k]
             /\ Found = IF k = Len(written) THEN [kind |-> "stop", index |-> it.index]
                        ELSE [kind |-> "symbol", symbol |-> written[k + 1][1], index |-> end[k + 1]]
===============================================================================
