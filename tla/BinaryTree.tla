------------------------------ MODULE BinaryTree ------------------------------
(***************************************************************************)
(* The binary tree of a prefix code.  A tree maps the path to each of its  *)
(* nodes, a sequence of bits, to the symbol of the node, or to Inner if it *)
(* has none.                                                               *)
(***************************************************************************)
EXTENDS Naturals, FiniteSetsExt, SequencesExt, TLC

CONSTANT Inner      \* what a node without a symbol holds

Bit == {0, 1}

Root == [p \in {<<>>} |-> Inner]

\* The paths to the nodes above the one at path p, the root excluded.
Above(p) == {SubSeq(p, 1, i) : i \in 1 .. (Len(p) - 1)}

Children(tree, p) == {Append(p, k) : k \in Bit} \intersect DOMAIN tree

HasSymbol(tree, p) == p \in DOMAIN tree /\ tree[p] # Inner

\* (A slip: a symbol above is not noticed.)
AmbiguousBelow(tree, p) == HasSymbol(tree, p) \/ Children(tree, p) # {}

\* binode_insert_symbol() refuses path p: there is a symbol on the way, or the
\* node at its end has one or has children.
Ambiguous(tree, p) ==
  (\E q \in Above(p) \union {p} : HasSymbol(tree, q)) \/ Children(tree, p) # {}

InsertSymbol(tree, p, symbol) ==
  [q \in DOMAIN tree \union Above(p) \union {p} |->
     IF q = p THEN symbol ELSE IF q \in DOMAIN tree THEN tree[q] ELSE Inner]

\* How many of the bits from index on the walk down the tree can follow.
Followed(tree, bits, index) ==
  LET Path(n) == SubSeq(bits, index + 1, index + n)
  IN  Max({n \in 0 .. (Len(bits) - index) :
             Path(n) \in DOMAIN tree /\ \A q \in Above(Path(n)) : ~HasSymbol(tree, q)})

\* (A slip: whether a node has a symbol is asked when the next bit is read.)
TraverseLate(tree, bits, index) ==
  IF index >= Len(bits) THEN [kind |-> "stop", index |-> index]
  ELSE LET n    == Followed(tree, bits, index)
           path == SubSeq(bits, index + 1, index + n)
       IN  IF index + n < Len(bits) /\ HasSymbol(tree, path)
           THEN [kind |-> "symbol", symbol |-> tree[path], index |-> index + n]
           ELSE [kind |-> "incomplete", index |-> index + n]

\* binode_traverse(): what it finds among the bits from index on, and the index it
\* leaves behind.
Traverse(tree, bits, index) ==
  IF index >= Len(bits) THEN [kind |-> "stop", index |-> index]
  ELSE LET n    == Followed(tree, bits, index)
           path == SubSeq(bits, index + 1, index + n)
       IN  IF HasSymbol(tree, path)
           THEN [kind |-> "symbol", symbol |-> tree[path], index |-> index + n]
           ELSE [kind |-> IF index + n < Len(bits) THEN "unrecognized" ELSE "incomplete",
                 index |-> index + n]

\* binode_to_dict(): the code the tree was made of.
ToDict(tree) ==
  LET leaves == {p \in DOMAIN tree : tree[p] # Inner}
  IN  [s \in {tree[p] : p \in leaves} |-> CHOOSE p \in leaves : tree[p] = s]

\* binode_complete()
Complete(tree) == \A p \in DOMAIN tree : HasSymbol(tree, p) \/ Cardinality(Children(tree, p)) = 2

\* What binode_nodes() asserts of each node.
NodesAsserted(tree) == \A p \in DOMAIN tree : HasSymbol(tree, p) # (Children(tree, p) # {})

-------------------------------------------------------------------------------
PrefixFree(code) ==
  \A s, t \in DOMAIN code : s # t => ~IsPrefix(code[s], code[t])

\* f, with the value v at x.
Extended(f, x, v) == [y \in DOMAIN f \union {x} |-> IF y = x THEN v ELSE f[y]]

\* 2^n times the sum of 2^-length over the code words, none longer than n.
Kraft(code, n) == MapThenSumSet(LAMBDA s : 2 ^ (n - Len(code[s])), DOMAIN code)

MaxLen(code) == Max({Len(code[s]) : s \in DOMAIN code})
===============================================================================
