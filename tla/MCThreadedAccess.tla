--------------------------- MODULE MCThreadedAccess ---------------------------
(* Instances of ThreadedAccess for the model checker. *)
EXTENDS ThreadedAccess

Iter(items, raises) ==
  [name |-> "extend", sequence |-> FALSE, items |-> items, raises |-> raises]
Sequence(items) ==
  [name |-> "extend", sequence |-> TRUE, items |-> items, raises |-> FALSE]

\* An item of 2 is no bit.
MCOps ==
  {[name |-> "tolist"], [name |-> "tofile"], [name |-> "search"], [name |-> "pop"],
   [name |-> "append", value |-> 1],
   [name |-> "getseq", seq |-> <<-1, 0>>],
   [name |-> "setseq", seq |-> <<-1, 0>>, values |-> <<0, 1>>],
   [name |-> "setseq", seq |-> <<0>>, values |-> <<0, 1>>],
   [name |-> "delseq", seq |-> <<-2>>],
   [name |-> "rotate", k |-> 2],
   Iter(<<1>>, TRUE), Iter(<<1, 2>>, FALSE),
   Sequence(<<0, 1>>), Sequence(<<1, 2>>)}

MCContents == {<<>>, <<0, 1>>, <<0, 1, 1, 1>>}

MCSearches == {[sub |-> <<1, 1>>, right |-> FALSE], [sub |-> <<1>>, right |-> TRUE]}
===============================================================================
