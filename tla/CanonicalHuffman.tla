--------------------------- MODULE CanonicalHuffman ---------------------------
(***************************************************************************)
(* Huffman codes: the tree that huffman_code() and canonical_huffman()     *)
(* build of a frequency map, one parent at a time, the canonical code of   *)
(* it, and the iterator canonical_decode(), which decodes an array by two  *)
(* tables and no tree.  The tables may also come from elsewhere, and the   *)
(* array may change between two symbols.                                   *)
(***************************************************************************)
EXTENDS BinaryTree, Integers

CONSTANTS
  Frequencies,  \* frequency maps, of symbols that are numbers; <<>> for none
  CodeBits,     \* MAXBITS, the longest code word that can be decoded
  ArrayBits,    \* bound on the length of the array
  ArrayLengths  \* the lengths that it may have

VARIABLES
  freq,         \* the frequency map
  forest,       \* the nodes on the heap, with the paths to the leaves below them
  tables,       \* what canonical_huffman() has returned
  decoder,      \* the iterator
  bits          \* the array it decodes

hvars == <<freq, forest, tables, decoder, bits>>

Leaf(s) == [symbols |-> {s}, freq |-> freq[s], code |-> (s :> <<>>)]

NoTables  == [symbol |-> <<>>]
NoDecoder == [index |-> 0]

Init ==
  /\ freq \in Frequencies
  /\ forest = {Leaf(s) : s \in DOMAIN freq}
  /\ tables = NoTables /\ decoder = NoDecoder /\ bits = <<>>

-------------------------------------------------------------------------------
(* The tree.                                                               *)

Parent(x, y) ==
  [symbols |-> x.symbols \union y.symbols,
   freq    |-> x.freq + y.freq,
   code    |-> [s \in x.symbols \union y.symbols |->
                  IF s \in x.symbols THEN <<0>> \o x.code[s] ELSE <<1>> \o y.code[s]]]

\* (A slip: the second node is any.)
PoppedAny(x, y) == x # y /\ \A z \in forest : x.freq <= z.freq

\* heappop() gives x and then y; nodes of the same frequency are in no certain order.
Popped(x, y) == /\ x # y /\ \A z \in forest : x.freq <= z.freq
                /\ \A z \in forest \ {x} : y.freq <= z.freq

Merge(x, y) ==
  /\ Popped(x, y)
  /\ forest' = (forest \ {x, y}) \union {Parent(x, y)}
  /\ UNCHANGED <<freq, tables, decoder, bits>>

\* huffman_code(): the path to each leaf; a single symbol gets one bit.
HuffmanCode ==
  LET root == CHOOSE x \in forest : TRUE
  IN  IF Cardinality(root.symbols) = 1 THEN [s \in root.symbols |-> <<0>>] ELSE root.code

-------------------------------------------------------------------------------
(* The canonical code.                                                     *)

\* What traverse() comes to first in the tree.
Before(code, s, t) ==
  \E i \in 1 .. Min({Len(code[s]), Len(code[t])}) :
    /\ SubSeq(code[s], 1, i - 1) = SubSeq(code[t], 1, i - 1)
    /\ code[s][i] < code[t][i]

\* sorted(code_length.items(), key=length): symbols of one length stay in order.
SortedByLength(code) ==
  LET Precedes(s, t) == \/ Len(code[s]) < Len(code[t])
                        \/ Len(code[s]) = Len(code[t]) /\ Before(code, s, t)
  IN  [i \in 1 .. Cardinality(DOMAIN code) |->
         CHOOSE s \in DOMAIN code :
           Cardinality({t \in DOMAIN code : Precedes(t, s)}) = i - 1]

\* int2ba(v, n, 'big')
BigEndian(v, n) == [i \in 1 .. n |-> (v \div 2 ^ (n - i)) % 2]

\* The code words, as numbers, of a table whose symbols have these lengths.
CanonicalValues(len) ==
  LET v[i \in 1 .. Len(len)] ==
        IF i = 1 THEN 0 ELSE (v[i - 1] + 1) * 2 ^ (len[i] - len[i - 1])
  IN  v

Lengths(code, table) == [i \in DOMAIN table |-> Len(code[table[i]])]

Canonical ==
  /\ Cardinality(forest) = 1 /\ tables = NoTables
  /\ tables' = LET code  == HuffmanCode
                   table == SortedByLength(code)
                   len   == Lengths(code, table)
                   value == CanonicalValues(len)
               IN  [symbol   |-> table,
                    count    |-> [n \in 1 .. Last(len) |-> Cardinality({i \in DOMAIN len : len[i] = n})],
                    codedict |-> [s \in DOMAIN freq |->
                                    LET i == CHOOSE i \in DOMAIN table : table[i] = s
                                    IN  BigEndian(value[i], len[i])]]
  /\ UNCHANGED <<freq, forest, decoder, bits>>

-------------------------------------------------------------------------------
(* canonical_decode()                                                      *)

\* The count that becomes an int as wide as the longest code word and its sign.
ToInt(c) == IF c < 2 ^ CodeBits THEN c ELSE c - 2 ^ (CodeBits + 1)

\* set_count(): the counts of the lengths from 1 on.
CountAccepted(count) ==
  /\ Len(count) <= CodeBits
  /\ \A i \in DOMAIN count : count[i] \in 0 .. 2 ^ i

SetCount(count) ==
  [i \in 1 .. CodeBits |-> IF i <= Len(count) THEN ToInt(count[i]) ELSE 0]

\* canonical_decode(bits, count, symbol)
StartDecoding(count, symbol) ==
  /\ decoder = NoDecoder
  /\ CountAccepted(count) /\ FoldLeft(+, 0, count) = Len(symbol)
  /\ decoder' = [count |-> SetCount(count), symbol |-> symbol, index |-> 0]
  /\ UNCHANGED <<freq, forest, tables, bits>>

\* (A slip: the first code of the next length is not shifted.)
RegistersUnshifted(count, at) ==
  LET r[n \in 1 .. CodeBits] ==
        IF n = 1 THEN [code |-> bits[at + 1], first |-> 0, index |-> 0]
        ELSE [code  |-> 2 * r[n - 1].code + bits[at + n],
              first |-> r[n - 1].first + count[n - 1],
              index |-> r[n - 1].index + count[n - 1]]
  IN  r

\* The variables of the loop when n bits of the code have been read.
Registers(count, at) ==
  LET r[n \in 1 .. CodeBits] ==
        IF n = 1 THEN [code |-> bits[at + 1], first |-> 0, index |-> 0]
        ELSE [code  |-> 2 * r[n - 1].code + bits[at + n],
              first |-> 2 * (r[n - 1].first + count[n - 1]),
              index |-> r[n - 1].index + count[n - 1]]
  IN  r

\* chdi_next_lock_held(): what it finds, the length it reached, and the index after it.
chdi_next(count, at) ==
  IF at >= Len(bits) THEN [kind |-> "stop", index |-> at]
  ELSE LET r    == Registers(count, at)
           n    == Min({CodeBits, Len(bits) - at})
           hits == {k \in 1 .. n : r[k].code - r[k].first < count[k]}
           len  == IF hits = {} THEN n ELSE Min(hits)
       IN  [kind    |-> IF hits # {} THEN "symbol" ELSE IF n < CodeBits THEN "end" ELSE "no code",
            symbol  |-> r[len].index + r[len].code - r[len].first,
            allowed |-> \A k \in 1 .. len : r[k].code - r[k].first >= 0,
            index   |-> at + len]

NextSymbol ==
  /\ decoder # NoDecoder
  /\ decoder' = [decoder EXCEPT !.index = chdi_next(decoder.count, @).index]
  /\ UNCHANGED <<freq, forest, tables, bits>>

ChangeArray(b) ==
  /\ decoder # NoDecoder /\ bits # b /\ bits' = b
  /\ UNCHANGED <<freq, forest, tables, decoder>>

\* All counts, for programs that have no frequency map.
Counts == UNION {[1 .. n -> 0 .. (2 ^ n)] : n \in 1 .. CodeBits}

Next ==
  \/ \E x, y \in forest : Merge(x, y)
  \/ Canonical
  \/ tables # NoTables /\ StartDecoding(tables.count, tables.symbol)
  \/ /\ forest = {} /\ decoder = NoDecoder
     /\ \E count \in Counts :
          StartDecoding(count, [i \in 1 .. FoldLeft(+, 0, count) |-> i])
  \/ NextSymbol
  \/ \E n \in ArrayLengths : \E b \in [1 .. n -> Bit] : ChangeArray(b)

HSpec == Init /\ [][Next]_hvars

-------------------------------------------------------------------------------
\* The iterator's counts and its index are of the right type.
TypeOK ==
  decoder # NoDecoder =>
    /\ decoder.count \in [1 .. CodeBits -> Int]
    /\ decoder.index \in 0 .. ArrayBits

\* The sum of the frequencies times the lengths of the code words.
Weight(len) == MapThenSumSet(LAMBDA s : freq[s] * len[s], DOMAIN freq)

\* The code that huffman_code() gives is a prefix code without room for a further
\* word, unless there is one symbol only, and no prefix code makes the text
\* shorter; the canonical code has the same lengths and is a prefix code too.
HuffmanOptimal ==
  (Cardinality(forest) = 1 /\ decoder = NoDecoder) =>
    LET code == HuffmanCode
        n    == Cardinality(DOMAIN freq)
        room(len) == MapThenSumSet(LAMBDA s : 2 ^ (n - len[s]), DOMAIN freq)
        len  == [s \in DOMAIN freq |-> Len(code[s])]
    IN  /\ DOMAIN code = DOMAIN freq /\ PrefixFree(code)
        /\ n > 1 => Kraft(code, n) = 2 ^ n
        /\ \A other \in [DOMAIN freq -> 1 .. Max({1, n - 1})] :
             room(other) <= 2 ^ n => Weight(len) <= Weight(other)
        /\ tables # NoTables =>
             /\ PrefixFree(tables.codedict)
             /\ \A s \in DOMAIN freq : Len(tables.codedict[s]) = len[s]

\* The tree of the code words that the counts leave room for, with the places of their
\* symbols in the table.
TableTree(count) ==
  LET len   == FlattenSeq([n \in 1 .. CodeBits |-> [i \in 1 .. count[n] |-> n]])
      value == CanonicalValues(len)
      place == {i \in DOMAIN len : value[i] < 2 ^ len[i]}
      word  == [i \in place |-> BigEndian(value[i], len[i])]
      paths == {<<>>} \union UNION {{SubSeq(word[i], 1, n) : n \in 1 .. len[i]} : i \in place}
  IN  [p \in paths |-> IF \E i \in place : word[i] = p
                       THEN CHOOSE i \in place : word[i] = p ELSE Inner]

\* The decoder that has no tree finds what a walk down the tree of the canonical code
\* would: the same symbol, and the same index after it, the end where the array
\* ends or got shorter, an error otherwise.  It never leaves the table of symbols, nor
\* fails its assertion, whatever the counts; those of canonical_huffman()
\* stand for its own code.  (Only 2^31 symbols of 31 bits are too many for an int.)
CanonicalAgrees ==
  (decoder # NoDecoder /\ \A n \in 1 .. CodeBits : decoder.count[n] >= 0) =>
    LET tree  == TableTree(decoder.count)
        found == chdi_next(decoder.count, decoder.index)
        step  == Traverse(tree, bits, decoder.index)
    IN  /\ found.kind = "symbol" <=> step.kind = "symbol"
        /\ found.kind = "stop" <=> step.kind = "stop"
        /\ found.kind \in {"symbol", "stop"} => found.index = step.index
        /\ found.kind = "symbol" => /\ found.symbol + 1 = step.symbol
                                   /\ step.symbol \in DOMAIN decoder.symbol
        /\ found.kind # "stop" => found.allowed /\ found.index <= Len(bits)
        /\ (tables # NoTables /\ decoder.symbol = tables.symbol /\ decoder.count = SetCount(tables.count)) =>
             [p \in {p \in DOMAIN tree : tree[p] # Inner} |-> decoder.symbol[tree[p]]]
               = [p \in Range(tables.codedict) |-> CHOOSE s \in DOMAIN freq : tables.codedict[s] = p]
===============================================================================
