--------------------------- MODULE PrefixCodesProofs ---------------------------
(***************************************************************************)
(* The trees of prefix codes: who owns them, what they say, and that       *)
(* decoding undoes encoding, for any codes, words and arrays.              *)
(***************************************************************************)
EXTENDS PrefixCodes, InductionLemmas, FiniteSetTheorems, SequenceTheorems

-------------------------------------------------------------------------------
(***************************************************************************)
(* Prefixes.                                                               *)
(***************************************************************************)
\* The beginning of a word.
LEMMA Beginning ==
  ASSUME NEW w \in Seq(Bit), NEW i \in 0 .. Len(w)
  PROVE  /\ SubSeq(w, 1, i) \in Seq(Bit)
         /\ Len(SubSeq(w, 1, i)) = i
         /\ \A j \in 1 .. i : SubSeq(w, 1, i)[j] = w[j]
OBVIOUS

\* A prefix agrees with the word as far as it goes.
LEMMA PrefixElements ==
  ASSUME NEW p \in Seq(Bit), NEW w \in Seq(Bit)
  PROVE  IsPrefix(p, w) <=> /\ Len(p) <= Len(w)
                            /\ \A j \in 1 .. Len(p) : p[j] = w[j]
<1>1. Len(p) \in Nat /\ Len(w) \in Nat
  BY LenProperties
<1>2. SubSeq(p, 1, Len(p)) = p
  BY SubSeqFull
<1>3. ASSUME Len(p) <= Len(w)
      PROVE  p = SubSeq(w, 1, Len(p)) <=> \A j \in 1 .. Len(p) : p[j] = w[j]
  <2>1. Len(p) \in 0 .. Len(w)
    BY <1>1, <1>3
  <2>2. /\ SubSeq(w, 1, Len(p)) \in Seq(Bit) /\ Len(SubSeq(w, 1, Len(p))) = Len(p)
        /\ \A j \in 1 .. Len(p) : SubSeq(w, 1, Len(p))[j] = w[j]
    BY <2>1, Beginning
  <2>3. ASSUME \A j \in 1 .. Len(p) : p[j] = w[j] PROVE p = SubSeq(w, 1, Len(p))
    <3> DEFINE b == SubSeq(w, 1, Len(p))
    <3>1. b \in Seq(Bit) /\ Len(p) = Len(b) /\ \A j \in 1 .. Len(p) : p[j] = b[j]
      BY <2>2, <2>3
    <3> HIDE DEF b
    <3>2. p = b
      BY <3>1, SeqEqual
    <3>3. QED
      BY <3>2 DEF b
  <2>4. QED
    BY <2>2, <2>3
<1>4. QED
  BY <1>2, <1>3 DEF IsPrefix

\* Being a prefix is a partial order, in which the prefixes of a word are
\* comparable.
LEMMA PrefixOrder ==
  ASSUME NEW p \in Seq(Bit), NEW q \in Seq(Bit), NEW w \in Seq(Bit)
  PROVE  /\ IsPrefix(p, p) /\ IsPrefix(<<>>, p)
         /\ IsPrefix(p, q) => Len(p) <= Len(q)
         /\ (IsPrefix(p, q) /\ Len(p) = Len(q)) => p = q
         /\ (IsPrefix(p, q) /\ IsPrefix(q, w)) => IsPrefix(p, w)
         /\ (IsPrefix(p, w) /\ IsPrefix(q, w) /\ Len(p) <= Len(q)) => IsPrefix(p, q)
         /\ Len(p) \in Nat /\ (p = <<>> <=> Len(p) = 0)
<1>1. /\ Len(p) \in Nat /\ Len(q) \in Nat /\ Len(w) \in Nat
      /\ <<>> \in Seq(Bit) /\ Len(<<>>) = 0 /\ (p # <<>> => Len(p) # 0)
  BY LenProperties, EmptySeq
<1>2. (IsPrefix(p, q) /\ Len(p) = Len(q)) => p = q
  BY PrefixElements, SeqEqual
<1>3. IsPrefix(p, p) /\ IsPrefix(<<>>, p)
  <2>1. Len(p) <= Len(p) /\ Len(<<>>) <= Len(p) /\ 1 .. Len(<<>>) = {}
    BY <1>1
  <2>2. IsPrefix(p, p)
    BY <2>1, PrefixElements
  <2>3. \A j \in 1 .. Len(<<>>) : <<>>[j] = p[j]
    BY <2>1
  <2>4. IsPrefix(<<>>, p)
    BY <1>1, <2>1, <2>3, PrefixElements
  <2>5. QED
    BY <2>2, <2>4
<1>4. (IsPrefix(p, q) /\ IsPrefix(q, w)) => IsPrefix(p, w)
  <2>1. SUFFICES ASSUME IsPrefix(p, q), IsPrefix(q, w) PROVE IsPrefix(p, w)
    OBVIOUS
  <2>2. Len(p) <= Len(q) /\ Len(q) <= Len(w)
    BY <2>1, PrefixElements
  <2>3. ASSUME NEW j \in 1 .. Len(p) PROVE p[j] = w[j]
    <3>1. j \in 1 .. Len(q)
      BY <1>1, <2>2
    <3>2. QED
      BY <2>1, <3>1, PrefixElements
  <2>4. QED
    BY <1>1, <2>2, <2>3, PrefixElements
<1>5. (IsPrefix(p, w) /\ IsPrefix(q, w) /\ Len(p) <= Len(q)) => IsPrefix(p, q)
  <2>1. SUFFICES ASSUME IsPrefix(p, w), IsPrefix(q, w), Len(p) <= Len(q) PROVE IsPrefix(p, q)
    OBVIOUS
  <2>2. ASSUME NEW j \in 1 .. Len(p) PROVE p[j] = q[j]
    <3>1. j \in 1 .. Len(q)
      BY <1>1, <2>1
    <3>2. p[j] = w[j] /\ q[j] = w[j]
      BY <2>1, <3>1, PrefixElements
    <3>3. QED
      BY <3>2
  <2>3. QED
    BY <2>1, <2>2, PrefixElements
<1>6. QED
  BY <1>1, <1>2, <1>3, <1>4, <1>5, PrefixElements

\* Going on by one bit.
LEMMA PrefixAppend ==
  ASSUME NEW p \in Seq(Bit), NEW k \in Bit
  PROVE  /\ Append(p, k) \in Seq(Bit) /\ Append(p, k) # <<>>
         /\ Len(Append(p, k)) = Len(p) + 1
         /\ IsPrefix(p, Append(p, k)) /\ p # Append(p, k)
<1>1. /\ Append(p, k) \in Seq(Bit) /\ Append(p, k) # <<>>
      /\ Len(Append(p, k)) = Len(p) + 1 /\ Len(p) \in Nat
      /\ \A j \in 1 .. Len(p) : Append(p, k)[j] = p[j]
  BY AppendProperties, LenProperties
<1> DEFINE a == Append(p, k)
<1>2. a \in Seq(Bit) /\ Len(p) <= Len(a) /\ \A j \in 1 .. Len(p) : p[j] = a[j]
  BY <1>1
<1> HIDE DEF a
<1>3. IsPrefix(p, a)
  BY <1>2, PrefixElements
<1>4. Len(p) # Len(Append(p, k))
  BY <1>1
<1>5. QED
  BY <1>1, <1>3, <1>4 DEF a

\* A word of which p is a proper prefix goes on somehow.
LEMMA PrefixNext ==
  ASSUME NEW p \in Seq(Bit), NEW w \in Seq(Bit), IsPrefix(p, w), p # w
  PROVE  /\ Len(p) < Len(w)
         /\ w[Len(p) + 1] \in Bit /\ IsPrefix(Append(p, w[Len(p) + 1]), w)
<1>1. Len(p) \in Nat /\ Len(w) \in Nat /\ Len(p) < Len(w)
  <2>1. Len(p) \in Nat /\ Len(w) \in Nat
    BY LenProperties
  <2>2. Len(p) <= Len(w) /\ Len(p) # Len(w)
    BY PrefixOrder
  <2>3. QED
    BY <2>1, <2>2
<1> DEFINE k == w[Len(p) + 1]
<1>2. k \in Bit
  <2>1. Len(p) + 1 \in 1 .. Len(w)
    BY <1>1
  <2>2. QED
    BY <2>1, ElementOfSeq
<1> HIDE DEF k
<1>3. /\ Append(p, k) \in Seq(Bit) /\ Len(Append(p, k)) = Len(p) + 1
      /\ \A j \in 1 .. Len(p) : Append(p, k)[j] = p[j]
      /\ Append(p, k)[Len(p) + 1] = k
  BY <1>2, AppendProperties
<1>4. ASSUME NEW j \in 1 .. (Len(p) + 1) PROVE Append(p, k)[j] = w[j]
  <2>1. CASE j = Len(p) + 1
    BY <1>3, <2>1 DEF k
  <2>2. CASE j # Len(p) + 1
    <3>1. j \in 1 .. Len(p)
      BY <1>1, <2>2
    <3>2. QED
      BY <1>3, <3>1, PrefixElements
  <2>3. QED
    BY <2>1, <2>2
<1>5. IsPrefix(Append(p, k), w)
  <2> DEFINE a == Append(p, k)
  <2>1. a \in Seq(Bit) /\ Len(a) <= Len(w) /\ \A j \in 1 .. Len(a) : a[j] = w[j]
    BY <1>1, <1>3, <1>4
  <2> HIDE DEF a
  <2>2. IsPrefix(a, w)
    BY <2>1, PrefixElements
  <2>3. QED
    BY <2>2 DEF a
<1>6. QED
  BY <1>1, <1>2, <1>5 DEF k

\* What p and one more bit begin goes on from p.
LEMMA PrefixBefore ==
  ASSUME NEW p \in Seq(Bit), NEW k \in Bit, NEW w \in Seq(Bit), IsPrefix(Append(p, k), w)
  PROVE  IsPrefix(p, w) /\ p # w
<1>1. /\ Append(p, k) \in Seq(Bit) /\ Len(Append(p, k)) = Len(p) + 1
      /\ IsPrefix(p, Append(p, k)) /\ Len(p) \in Nat
  BY PrefixAppend, LenProperties
<1>2. IsPrefix(p, w)
  BY <1>1, PrefixOrder
<1>3. Len(p) + 1 <= Len(w) /\ Len(w) \in Nat
  BY <1>1, PrefixElements, LenProperties
<1>4. QED
  BY <1>1, <1>2, <1>3

\* The nodes above a path are its proper prefixes but for the root.
LEMMA AbovePrefixes ==
  ASSUME NEW p \in Seq(Bit)
  PROVE  \A q : q \in Above(p)
                  <=> q \in Seq(Bit) /\ q # <<>> /\ q # p /\ IsPrefix(q, p)
<1>1. Len(p) \in Nat
  BY LenProperties
<1>2. ASSUME NEW q \in Above(p)
      PROVE  q \in Seq(Bit) /\ q # <<>> /\ q # p /\ IsPrefix(q, p)
  <2>1. PICK i \in 1 .. (Len(p) - 1) : q = SubSeq(p, 1, i)
    BY DEF Above
  <2>2. i \in 0 .. Len(p)
    BY <1>1
  <2>3. q \in Seq(Bit) /\ Len(q) = i /\ \A j \in 1 .. i : q[j] = p[j]
    BY <2>1, <2>2, Beginning
  <2>4. IsPrefix(q, p)
    BY <1>1, <2>2, <2>3, PrefixElements
  <2>5. QED
    BY <1>1, <2>3, <2>4, EmptySeq
<1>3. ASSUME NEW q \in Seq(Bit), q # <<>>, q # p, IsPrefix(q, p)
      PROVE  q \in Above(p)
  <2>1. Len(q) \in Nat /\ Len(q) # 0 /\ Len(q) <= Len(p) /\ Len(q) # Len(p)
    BY <1>3, PrefixOrder
  <2>2. Len(q) \in 1 .. (Len(p) - 1)
    BY <1>1, <2>1
  <2>3. q = SubSeq(p, 1, Len(q))
    BY <1>3, SubSeqFull DEF IsPrefix
  <2>4. QED
    BY <2>2, <2>3 DEF Above
<1>4. QED
  BY <1>2, <1>3

-------------------------------------------------------------------------------
(***************************************************************************)
(* Trees.                                                                  *)
(***************************************************************************)
\* The tree is that of the code.
CodeOK(code) ==
  /\ IsFiniteSet(DOMAIN code) /\ code = [s \in DOMAIN code |-> code[s]]
  /\ \A s \in DOMAIN code : s # Inner /\ code[s] \in Seq(Bit) /\ code[s] # <<>>
  /\ PrefixFree(code)

OnPath(code, p) ==
  \/ p = <<>>
  \/ p \in Seq(Bit) /\ p # <<>> /\ \E s \in DOMAIN code : IsPrefix(p, code[s])

TreeOf(tree, code) ==
  /\ CodeOK(code)
  /\ \A p : p \in DOMAIN tree <=> OnPath(code, p)
  /\ \A p \in DOMAIN tree :
       tree[p] = Inner \/ (tree[p] \in DOMAIN code /\ code[tree[p]] = p)
  /\ \A s \in DOMAIN code : tree[code[s]] = s

\* The tree without symbols.
LEMMA RootTree == TreeOf(Root, <<>>)
<1>1. DOMAIN <<>> = {} /\ <<>> = [s \in DOMAIN <<>> |-> <<>>[s]]
  OBVIOUS
<1>2. IsFiniteSet({})
  BY FS_EmptySet
<1>3. DOMAIN Root = {<<>>} /\ Root[<<>>] = Inner
  BY DEF Root
<1>4. QED
  BY <1>1, <1>2, <1>3 DEF TreeOf, CodeOK, OnPath, PrefixFree

\* Nodes are at paths of bits.
LEMMA NodesOnPaths ==
  ASSUME NEW tree, NEW code, TreeOf(tree, code), NEW p \in DOMAIN tree
  PROVE  OnPath(code, p) /\ p \in Seq(Bit) /\ Len(p) \in Nat
<1>1. OnPath(code, p)
  BY DEF TreeOf
<1>2. p \in Seq(Bit)
  BY <1>1, EmptySeq DEF OnPath
<1>3. QED
  BY <1>1, <1>2, LenProperties

\* Words of a code begin one another only if they are the same.
LEMMA WordsApart ==
  ASSUME NEW code, CodeOK(code), NEW s \in DOMAIN code, NEW t \in DOMAIN code,
         IsPrefix(code[s], code[t])
  PROVE  s = t
BY DEF CodeOK, PrefixFree

\* The nodes with symbols are at the ends of code words.
LEMMA SymbolsAtWords ==
  ASSUME NEW tree, NEW code, TreeOf(tree, code), NEW p
  PROVE  /\ HasSymbol(tree, p) <=> \E s \in DOMAIN code : code[s] = p
         /\ \A s \in DOMAIN code : code[s] = p => tree[p] = s
         /\ HasSymbol(tree, p) => tree[p] \in DOMAIN code /\ code[tree[p]] = p
<1>1. \A s \in DOMAIN code : code[s] \in DOMAIN tree /\ tree[code[s]] = s /\ s # Inner
  <2>1. ASSUME NEW s \in DOMAIN code PROVE OnPath(code, code[s])
    <3>1. code[s] \in Seq(Bit) /\ code[s] # <<>>
      BY DEF TreeOf, CodeOK
    <3>2. IsPrefix(code[s], code[s])
      BY <3>1, PrefixOrder
    <3>3. QED
      BY <3>1, <3>2 DEF OnPath
  <2>2. QED
    BY <2>1 DEF TreeOf, CodeOK
<1>2. QED
  BY <1>1 DEF TreeOf, HasSymbol

\* A node has children if and only if it is inside a code word.
LEMMA ChildrenInside ==
  ASSUME NEW tree, NEW code, TreeOf(tree, code), NEW p \in Seq(Bit)
  PROVE  /\ Children(tree, p) # {} <=> \E s \in DOMAIN code : IsPrefix(p, code[s]) /\ p # code[s]
         /\ \A k \in Bit : Append(p, k) \in Children(tree, p)
                             <=> \E s \in DOMAIN code : IsPrefix(Append(p, k), code[s])
<1>1. \A s \in DOMAIN code : code[s] \in Seq(Bit)
  BY DEF TreeOf, CodeOK
<1>2. ASSUME NEW k \in Bit
      PROVE  Append(p, k) \in Children(tree, p)
                <=> \E s \in DOMAIN code : IsPrefix(Append(p, k), code[s])
  <2>1. Append(p, k) \in Seq(Bit) /\ Append(p, k) # <<>>
    BY PrefixAppend
  <2>2. Append(p, k) \in DOMAIN tree <=> \E s \in DOMAIN code : IsPrefix(Append(p, k), code[s])
    BY <2>1 DEF TreeOf, OnPath
  <2>3. QED
    BY <2>2 DEF Children
<1>3. ASSUME NEW q \in Children(tree, p)
      PROVE  \E s \in DOMAIN code : IsPrefix(p, code[s]) /\ p # code[s]
  <2>1. PICK k \in Bit : q = Append(p, k)
    BY DEF Children
  <2>2. PICK s \in DOMAIN code : IsPrefix(Append(p, k), code[s])
    BY <1>2, <2>1
  <2>3. QED
    BY <1>1, <2>2, PrefixBefore
<1>4. ASSUME NEW s \in DOMAIN code, IsPrefix(p, code[s]), p # code[s]
      PROVE  Children(tree, p) # {}
  <2>1. code[s][Len(p) + 1] \in Bit /\ IsPrefix(Append(p, code[s][Len(p) + 1]), code[s])
    BY <1>1, <1>4, PrefixNext
  <2>2. Append(p, code[s][Len(p) + 1]) \in Children(tree, p)
    BY <1>2, <2>1
  <2>3. QED
    BY <2>2
<1>5. QED
  BY <1>2, <1>3, <1>4

\* binode_insert_symbol() refuses what begins a code word or is begun by one.
LEMMA AmbiguousWords ==
  ASSUME NEW tree, NEW code, TreeOf(tree, code), NEW p \in Seq(Bit), p # <<>>
  PROVE  Ambiguous(tree, p)
           <=> \E s \in DOMAIN code : IsPrefix(code[s], p) \/ IsPrefix(p, code[s])
<1>1. \A s \in DOMAIN code : code[s] \in Seq(Bit) /\ code[s] # <<>>
  BY DEF TreeOf, CodeOK
<1>2. ASSUME NEW q \in Above(p) \union {p}, HasSymbol(tree, q)
      PROVE  \E s \in DOMAIN code : IsPrefix(code[s], p)
  <2>1. PICK s \in DOMAIN code : code[s] = q
    BY <1>2, SymbolsAtWords
  <2>2. IsPrefix(q, p)
    BY AbovePrefixes, PrefixOrder
  <2>3. QED
    BY <2>1, <2>2
<1>3. ASSUME Children(tree, p) # {} PROVE \E s \in DOMAIN code : IsPrefix(p, code[s])
  BY <1>3, ChildrenInside
<1>4. ASSUME NEW s \in DOMAIN code, IsPrefix(code[s], p) PROVE Ambiguous(tree, p)
  <2>1. code[s] \in Above(p) \union {p}
    BY <1>1, <1>4, AbovePrefixes
  <2>2. HasSymbol(tree, code[s])
    BY SymbolsAtWords
  <2>3. QED
    BY <2>1, <2>2 DEF Ambiguous
<1>5. ASSUME NEW s \in DOMAIN code, IsPrefix(p, code[s]) PROVE Ambiguous(tree, p)
  <2>1. CASE p = code[s]
    BY <1>1, <1>4, <2>1, PrefixOrder
  <2>2. CASE p # code[s]
    BY <1>5, <2>2, ChildrenInside DEF Ambiguous
  <2>3. QED
    BY <2>1, <2>2
<1>6. QED
  BY <1>2, <1>3, <1>4, <1>5 DEF Ambiguous

\* That is, what would make the code ambiguous.
LEMMA AmbiguousRight ==
  ASSUME NEW tree, NEW code, TreeOf(tree, code), NEW p \in Seq(Bit), p # <<>>,
         NEW s, s \notin DOMAIN code
  PROVE  Ambiguous(tree, p) <=> ~PrefixFree(Extended(code, s, p))
<1> DEFINE new == Extended(code, s, p)
<1>1. /\ DOMAIN new = DOMAIN code \union {s} /\ new[s] = p
      /\ \A t \in DOMAIN code : t # s /\ new[t] = code[t]
  BY DEF Extended
<1>2. PrefixFree(code)
  BY DEF TreeOf, CodeOK
<1> HIDE DEF new
<1>3. PrefixFree(new)
        <=> \A t \in DOMAIN code : ~IsPrefix(code[t], p) /\ ~IsPrefix(p, code[t])
  BY <1>1, <1>2 DEF PrefixFree
<1>4. QED
  BY <1>3, AmbiguousWords DEF new

\* Inserting a code word.
LEMMA InsertedTree ==
  ASSUME NEW tree, NEW code, TreeOf(tree, code), NEW p \in Seq(Bit), p # <<>>,
         NEW s, s \notin DOMAIN code, s # Inner, ~Ambiguous(tree, p)
  PROVE  TreeOf(InsertSymbol(tree, p, s), Extended(code, s, p))
<1> DEFINE new == Extended(code, s, p)
           grown == InsertSymbol(tree, p, s)
<1>1. /\ DOMAIN new = DOMAIN code \union {s} /\ new[s] = p
      /\ \A t \in DOMAIN code : t # s /\ new[t] = code[t]
      /\ new = [t \in DOMAIN new |-> new[t]]
  BY DEF Extended
<1>2. /\ DOMAIN grown = DOMAIN tree \union Above(p) \union {p} /\ grown[p] = s
      /\ \A q \in DOMAIN grown : q # p =>
           grown[q] = IF q \in DOMAIN tree THEN tree[q] ELSE Inner
  BY DEF InsertSymbol
<1> HIDE DEF new, grown
<1>3. \A t \in DOMAIN code : ~IsPrefix(code[t], p) /\ ~IsPrefix(p, code[t])
  BY AmbiguousWords
<1>4. /\ CodeOK(code) /\ IsFiniteSet(DOMAIN code)
      /\ \A t \in DOMAIN code : t # Inner /\ code[t] \in Seq(Bit) /\ code[t] # <<>>
  BY DEF TreeOf, CodeOK
<1>5. CodeOK(new)
  <2>1. IsFiniteSet(DOMAIN new)
    BY <1>1, <1>4, FS_AddElement
  <2>2. PrefixFree(new)
    BY AmbiguousRight DEF new
  <2>3. QED
    BY <1>1, <1>4, <2>1, <2>2 DEF CodeOK
<1>6. ASSUME NEW q PROVE q \in DOMAIN grown <=> OnPath(new, q)
  <2>1. q \in DOMAIN tree <=> OnPath(code, q)
    BY DEF TreeOf
  <2>2. OnPath(new, q) <=> OnPath(code, q) \/ (q \in Seq(Bit) /\ q # <<>> /\ IsPrefix(q, p))
    BY <1>1 DEF OnPath
  <2>3. q \in Above(p) \union {p} <=> q \in Seq(Bit) /\ q # <<>> /\ IsPrefix(q, p)
    BY AbovePrefixes, PrefixOrder
  <2>4. QED
    BY <1>2, <2>1, <2>2, <2>3
<1>7. \A t \in DOMAIN code : code[t] # p
  BY <1>3, <1>4, PrefixOrder
<1>8. \A t \in DOMAIN code : code[t] \in DOMAIN tree /\ tree[code[t]] = t
  BY SymbolsAtWords DEF HasSymbol
<1>9. ASSUME NEW q \in DOMAIN grown
      PROVE  grown[q] = Inner \/ (grown[q] \in DOMAIN new /\ new[grown[q]] = q)
  <2>1. CASE q = p
    BY <1>1, <1>2, <2>1
  <2>2. CASE q # p /\ q \in DOMAIN tree
    <3>1. grown[q] = tree[q]
      BY <1>2, <2>2
    <3>2. tree[q] = Inner \/ (tree[q] \in DOMAIN code /\ code[tree[q]] = q)
      BY <2>2 DEF TreeOf
    <3>3. QED
      BY <1>1, <3>1, <3>2
  <2>3. CASE q # p /\ q \notin DOMAIN tree
    BY <1>2, <2>3
  <2>4. QED
    BY <2>1, <2>2, <2>3
<1>10. ASSUME NEW t \in DOMAIN new PROVE grown[new[t]] = t
  <2>1. CASE t = s
    BY <1>1, <1>2, <2>1
  <2>2. CASE t # s
    <3>1. t \in DOMAIN code /\ new[t] = code[t]
      BY <1>1, <2>2
    <3>2. code[t] # p /\ code[t] \in DOMAIN tree /\ tree[code[t]] = t
      BY <1>7, <1>8, <3>1
    <3>3. QED
      BY <1>2, <3>1, <3>2
  <2>3. QED
    BY <2>1, <2>2
<1>11. TreeOf(grown, new)
  BY <1>5, <1>6, <1>9, <1>10 DEF TreeOf
<1>12. QED
  BY <1>11 DEF new, grown

-------------------------------------------------------------------------------
(***************************************************************************)
(* What a tree says of its code.                                           *)
(***************************************************************************)
\* The words of a code have a greatest length.
LEMMA LongestWord ==
  ASSUME NEW code, CodeOK(code), DOMAIN code # {}
  PROVE  /\ MaxLen(code) \in Nat \ {0}
         /\ \A s \in DOMAIN code : Len(code[s]) <= MaxLen(code)
<1> DEFINE D == DOMAIN code
           T == {n \in Nat : \A C \in SUBSET D : Cardinality(C) = n =>
                   \E b \in Nat : \A x \in C : Len(code[x]) <= b}
<1>1. IsFiniteSet(D) /\ \A x \in D : Len(code[x]) \in Nat /\ Len(code[x]) # 0
  BY LenProperties, EmptySeq DEF CodeOK
<1>2. 0 \in T
  <2>1. ASSUME NEW C \in SUBSET D, Cardinality(C) = 0 PROVE C = {}
    <3>1. IsFiniteSet(C)
      BY <1>1, FS_Subset
    <3>2. QED
      BY <2>1, <3>1, FS_EmptySet
  <2>2. QED
    BY <2>1
<1>3. ASSUME NEW n \in Nat, n \in T PROVE n + 1 \in T
  <2>1. SUFFICES ASSUME NEW C \in SUBSET D, Cardinality(C) = n + 1
                 PROVE  \E b \in Nat : \A x \in C : Len(code[x]) <= b
    BY <1>3
  <2>2. IsFiniteSet(C) /\ C # {}
    <3>1. IsFiniteSet(C)
      BY <1>1, FS_Subset
    <3>2. Cardinality(C) # 0
      BY <2>1
    <3>3. QED
      BY <3>1, <3>2, FS_EmptySet
  <2>3. PICK y \in C : TRUE
    BY <2>2
  <2>4. Cardinality(C \ {y}) = n
    BY <2>1, <2>2, FS_RemoveElement
  <2>5. PICK b \in Nat : \A x \in C \ {y} : Len(code[x]) <= b
    BY <1>3, <2>4
  <2>6. Len(code[y]) \in Nat /\ \A x \in C : Len(code[x]) \in Nat
    BY <1>1
  <2> DEFINE c == IF b <= Len(code[y]) THEN Len(code[y]) ELSE b
  <2>7. c \in Nat /\ \A x \in C : Len(code[x]) <= c
    BY <2>5, <2>6
  <2>8. QED
    BY <2>7
<1>4. Nat \subseteq T
  <2> HIDE DEF T
  <2>1. QED
    BY <1>2, <1>3, SetInduction
<1>5. PICK b \in Nat : \A x \in D : Len(code[x]) <= b
  <2>1. Cardinality(D) \in Nat
    BY <1>1, FS_CardinalityType
  <2>2. QED
    BY <1>4, <2>1
<1> DEFINE L == {Len(code[s]) : s \in DOMAIN code}
<1>6. L \in SUBSET (0 .. b) /\ L # {}
  <2>1. \A s \in DOMAIN code : Len(code[s]) \in 0 .. b
    BY <1>1, <1>5
  <2>2. QED
    BY <2>1
<1>7. \A s \in D : Len(code[s]) \in L
  OBVIOUS
<1>8. \A l \in L : l # 0
  BY <1>1
<1> HIDE DEF L
<1>9. Max(L) \in L /\ \A l \in L : l <= Max(L)
  <2>1. 0 \in Int /\ b \in Int
    OBVIOUS
  <2>2. QED
    BY <1>6, <2>1, Maximum
<1>10. Max(L) \in 0 .. b /\ Max(L) # 0
  BY <1>6, <1>8, <1>9
<1>11. MaxLen(code) = Max(L)
  BY DEF MaxLen, L
<1>12. QED
  BY <1>7, <1>9, <1>10, <1>11

\* A node has two children when it has both.
LEMMA BothChildren ==
  ASSUME NEW tree, NEW p \in Seq(Bit)
  PROVE  Cardinality(Children(tree, p)) = 2 <=> \A k \in Bit : Append(p, k) \in DOMAIN tree
<1> DEFINE a == Append(p, 0)
           b == Append(p, 1)
<1>1. a # b
  <2>1. a[Len(p) + 1] = 0 /\ b[Len(p) + 1] = 1
    BY AppendProperties DEF Bit
  <2>2. QED
    BY <2>1
<1>2. Children(tree, p) = {a, b} \intersect DOMAIN tree
  BY DEF Children, Bit
<1>3. (\A k \in Bit : Append(p, k) \in DOMAIN tree) <=> (a \in DOMAIN tree /\ b \in DOMAIN tree)
  BY DEF Bit
<1> HIDE DEF a, b
<1>4. /\ Cardinality({}) = 0 /\ Cardinality({a}) = 1 /\ Cardinality({b}) = 1
      /\ IsFiniteSet({a})
  BY FS_EmptySet, FS_Singleton
<1>5. Cardinality({a} \union {b}) = 2
  <2> DEFINE A == {a}
  <2>1. b \notin A /\ IsFiniteSet(A) /\ Cardinality(A) = 1
    BY <1>1, <1>4
  <2> HIDE DEF A
  <2>2. Cardinality(A \union {b}) = Cardinality(A) + 1
    BY <2>1, FS_AddElement, ZenonT(30)
  <2> DEFINE C == Cardinality(A \union {b})
  <2>3. C = Cardinality(A) + 1
    BY <2>2
  <2> HIDE DEF C
  <2>4. C = 2
    BY <2>1, <2>3
  <2>5. QED
    BY <2>4 DEF A, C
<1>6. Cardinality({a, b}) = 2
  <2>1. {a, b} = {a} \union {b}
    OBVIOUS
  <2>2. QED
    BY <1>5, <2>1
<1>7. CASE a \in DOMAIN tree /\ b \in DOMAIN tree
  <2>1. Children(tree, p) = {a, b}
    BY <1>2, <1>7
  <2>2. QED
    BY <1>3, <1>6, <1>7, <2>1
<1>8. CASE ~(a \in DOMAIN tree /\ b \in DOMAIN tree)
  <2>1. Children(tree, p) = {} \/ Children(tree, p) = {a} \/ Children(tree, p) = {b}
    BY <1>2, <1>8
  <2>2. Cardinality(Children(tree, p)) \in {0, 1}
    BY <1>4, <2>1
  <2>3. QED
    BY <1>3, <1>8, <2>2
<1>9. QED
  BY <1>7, <1>8

\* The word that begins like p, with zeros up to length n.
LEMMA LongWord ==
  ASSUME NEW p \in Seq(Bit), NEW n \in Nat, Len(p) <= n
  PROVE  \E w \in [1 .. n -> Bit] : w \in Seq(Bit) /\ Len(w) = n /\ IsPrefix(p, w)
<1> DEFINE w == [i \in 1 .. n |-> IF i <= Len(p) THEN p[i] ELSE 0]
<1>1. Len(p) \in Nat /\ \A i \in 1 .. Len(p) : p[i] \in Bit
  BY LenProperties, ElementOfSeq
<1>2. ASSUME NEW i \in 1 .. n PROVE w[i] \in Bit
  <2>1. CASE i <= Len(p)
    <3>1. i \in 1 .. Len(p)
      BY <1>1, <2>1
    <3>2. QED
      BY <1>1, <2>1, <3>1
  <2>2. CASE ~ (i <= Len(p))
    BY <2>2 DEF Bit
  <2>3. QED
    BY <2>1, <2>2
<1>3. w = [i \in 1 .. n |-> w[i]]
  OBVIOUS
<1>4. \A j \in 1 .. Len(p) : p[j] = w[j]
  BY <1>1
<1> HIDE DEF w
<1>5. w \in [1 .. n -> Bit]
  BY <1>2, <1>3
<1>6. w \in Seq(Bit) /\ Len(w) = n
  BY <1>5, SeqDef
<1>7. IsPrefix(p, w)
  BY <1>4, <1>6, PrefixElements
<1>8. QED
  BY <1>5, <1>6, <1>7

\* A walk down a complete tree ends at a symbol.
LEMMA CompleteWalk ==
  ASSUME NEW tree, NEW code, TreeOf(tree, code), Complete(tree),
         NEW n \in Nat, \A s \in DOMAIN code : Len(code[s]) <= n,
         NEW w \in Seq(Bit), Len(w) = n
  PROVE  \E s \in DOMAIN code : IsPrefix(code[s], w)
<1> DEFINE S == {i \in 0 .. n : SubSeq(w, 1, i) \in DOMAIN tree}
<1>1. S \in SUBSET (0 .. n) /\ 0 \in S
  <2>1. SubSeq(w, 1, 0) = <<>>
    BY SubSeqEmpty
  <2>2. <<>> \in DOMAIN tree
    BY DEF TreeOf, OnPath
  <2>3. 0 \in 0 .. n
    OBVIOUS
  <2>4. QED
    BY <2>1, <2>2, <2>3
<1> DEFINE m == Max(S)
           p == SubSeq(w, 1, m)
<1>2. m \in S /\ \A i \in S : i <= m
  <2>1. 0 \in Int /\ n \in Int /\ S # {}
    BY <1>1
  <2> HIDE DEF S
  <2>2. QED
    BY <1>1, <2>1, Maximum
<1>3. m \in 0 .. n /\ p \in DOMAIN tree /\ m + 1 \notin S
  <2>1. m \in 0 .. n /\ p \in DOMAIN tree
    BY <1>2
  <2>2. ~(m + 1 <= m)
    BY <2>1
  <2> HIDE DEF S, m
  <2>3. QED
    BY <1>2, <2>1, <2>2
<1> HIDE DEF m
<1>4. p \in Seq(Bit) /\ Len(p) = m /\ \A j \in 1 .. m : p[j] = w[j]
  BY <1>3, Beginning
<1> HIDE DEF p
<1>5. IsPrefix(p, w)
  BY <1>3, <1>4, PrefixElements
<1>6. CASE HasSymbol(tree, p)
  BY <1>5, <1>6, SymbolsAtWords
<1>7. CASE ~HasSymbol(tree, p)
  <2>1. \A k \in Bit : Append(p, k) \in DOMAIN tree
    BY <1>3, <1>4, <1>7, BothChildren DEF Complete
  <2>2. CASE p = w
    <3>1. 0 \in Bit
      BY DEF Bit
    <3>2. Append(p, 0) \in Children(tree, p)
      BY <2>1, <3>1 DEF Children
    <3>3. PICK s \in DOMAIN code : IsPrefix(p, code[s]) /\ p # code[s]
      BY <1>4, <3>2, ChildrenInside
    <3>4. code[s] \in Seq(Bit)
      BY DEF TreeOf, CodeOK
    <3>5. Len(p) < Len(code[s]) /\ Len(code[s]) <= n /\ Len(code[s]) \in Nat
      BY <1>4, <3>3, <3>4, PrefixNext, LenProperties
    <3>6. QED
      BY <2>2, <3>5
  <2>3. CASE p # w
    <3>1. /\ m < n /\ w[m + 1] \in Bit
          /\ IsPrefix(Append(p, w[m + 1]), w)
      BY <1>4, <1>5, <2>3, PrefixNext
    <3>2. Append(p, w[m + 1]) \in Seq(Bit) /\ Len(Append(p, w[m + 1])) = m + 1
      BY <1>4, <3>1, PrefixAppend
    <3>3. Append(p, w[m + 1]) = SubSeq(w, 1, m + 1)
      BY <3>1, <3>2, SubSeqFull DEF IsPrefix
    <3>4. m + 1 \in S
      <4>1. m + 1 \in 0 .. n
        BY <1>3, <3>1
      <4>2. Append(p, w[m + 1]) \in DOMAIN tree
        BY <2>1, <3>1
      <4>3. SubSeq(w, 1, m + 1) \in DOMAIN tree
        BY <3>3, <4>2
      <4>4. QED
        BY <4>1, <4>3
    <3>5. QED
      BY <1>3, <3>4
  <2>4. QED
    BY <2>2, <2>3
<1>8. QED
  BY <1>6, <1>7

\* complete(): no further code word has room.
LEMMA CompleteRight ==
  ASSUME NEW tree, NEW code, TreeOf(tree, code),
         NEW n \in Nat \ {0}, \A s \in DOMAIN code : Len(code[s]) <= n
  PROVE  Complete(tree) <=> \A w \in [1 .. n -> Bit] : \E s \in DOMAIN code : IsPrefix(code[s], w)
<1>1. \A s \in DOMAIN code : code[s] \in Seq(Bit) /\ code[s] # <<>>
  BY DEF TreeOf, CodeOK
<1>2. ASSUME Complete(tree), NEW w \in [1 .. n -> Bit]
      PROVE  \E s \in DOMAIN code : IsPrefix(code[s], w)
  <2>1. w \in Seq(Bit) /\ Len(w) = n
    BY SeqDef
  <2>2. QED
    BY <1>2, <2>1, CompleteWalk
<1>3. ASSUME \A w \in [1 .. n -> Bit] : \E s \in DOMAIN code : IsPrefix(code[s], w),
             NEW p \in DOMAIN tree, ~HasSymbol(tree, p), NEW k \in Bit
      PROVE  p \in Seq(Bit) /\ Append(p, k) \in DOMAIN tree
  <2>1. p \in Seq(Bit) /\ Len(p) \in Nat /\ OnPath(code, p)
    BY NodesOnPaths
  <2>2. \A t \in DOMAIN code : IsPrefix(p, code[t]) => p # code[t] /\ Len(p) < Len(code[t])
    BY <1>1, <1>3, <2>1, SymbolsAtWords, PrefixNext
  <2>3. Len(p) < n
    <3>1. CASE p = <<>>
      BY <3>1, EmptySeq
    <3>2. CASE p # <<>>
      <4>1. PICK t \in DOMAIN code : IsPrefix(p, code[t])
        BY <2>1, <3>2 DEF OnPath
      <4>2. Len(p) < Len(code[t]) /\ Len(code[t]) <= n /\ Len(code[t]) \in Nat
        BY <1>1, <2>2, <4>1, LenProperties
      <4>3. QED
        BY <2>1, <4>2
    <3>3. QED
      BY <3>1, <3>2
  <2> DEFINE q == Append(p, k)
  <2>4. q \in Seq(Bit) /\ q # <<>> /\ Len(q) = Len(p) + 1 /\ IsPrefix(p, q)
    BY <2>1, PrefixAppend
  <2> HIDE DEF q
  <2>5. Len(q) <= n
    BY <2>1, <2>3, <2>4
  <2>6. PICK w \in [1 .. n -> Bit] : w \in Seq(Bit) /\ IsPrefix(q, w)
    BY <2>4, <2>5, LongWord
  <2>7. PICK s \in DOMAIN code : IsPrefix(code[s], w)
    BY <1>3
  <2>8. code[s] \in Seq(Bit) /\ Len(code[s]) \in Nat /\ Len(code[s]) # 0 /\ IsPrefix(p, w)
    BY <1>1, <2>1, <2>4, <2>6, PrefixOrder
  <2>9. ~ (Len(code[s]) <= Len(p))
    <3>1. SUFFICES ASSUME Len(code[s]) <= Len(p) PROVE FALSE
      OBVIOUS
    <3>2. IsPrefix(code[s], p)
      BY <2>1, <2>6, <2>7, <2>8, <3>1, PrefixOrder
    <3>3. p # <<>>
      BY <2>1, <2>8, <3>1, EmptySeq
    <3>4. PICK t \in DOMAIN code : IsPrefix(p, code[t])
      BY <2>1, <3>3 DEF OnPath
    <3>5. IsPrefix(code[s], code[t])
      BY <1>1, <2>1, <3>2, <3>4, PrefixOrder
    <3>6. s = t
      BY <3>5, WordsApart DEF TreeOf
    <3>7. QED
      BY <2>1, <2>2, <2>8, <3>1, <3>4, <3>6
  <2>10. Len(q) <= Len(code[s])
    BY <2>1, <2>4, <2>8, <2>9
  <2>11. IsPrefix(q, code[s])
    BY <2>4, <2>6, <2>7, <2>8, <2>10, PrefixOrder
  <2>12. q \in DOMAIN tree
    BY <2>4, <2>11 DEF TreeOf, OnPath
  <2>13. QED
    BY <2>1, <2>12 DEF q
<1>4. ASSUME \A w \in [1 .. n -> Bit] : \E s \in DOMAIN code : IsPrefix(code[s], w),
             NEW p \in DOMAIN tree, ~HasSymbol(tree, p)
      PROVE  Cardinality(Children(tree, p)) = 2
  <2>1. \A k \in Bit : p \in Seq(Bit) /\ Append(p, k) \in DOMAIN tree
    BY <1>3, <1>4
  <2>2. p \in Seq(Bit)
    BY <2>1 DEF Bit
  <2>3. QED
    BY <2>1, <2>2, BothChildren
<1>5. QED
  BY <1>2, <1>4 DEF Complete

\* todict() gives the code back.
LEMMA ToDictRight ==
  ASSUME NEW tree, NEW code, TreeOf(tree, code)
  PROVE  ToDict(tree) = code
<1> DEFINE leaves == {p \in DOMAIN tree : tree[p] # Inner}
<1>1. \A p \in leaves : tree[p] \in DOMAIN code /\ code[tree[p]] = p
  BY DEF TreeOf
<1>2. \A s \in DOMAIN code : code[s] \in leaves /\ tree[code[s]] = s
  BY SymbolsAtWords DEF HasSymbol
<1> HIDE DEF leaves
<1>3. {tree[p] : p \in leaves} = DOMAIN code
  BY <1>1, <1>2
<1>4. ASSUME NEW s \in DOMAIN code
      PROVE  (CHOOSE p \in leaves : tree[p] = s) = code[s]
  BY <1>1, <1>2
<1>5. ToDict(tree) = [s \in DOMAIN code |-> CHOOSE p \in leaves : tree[p] = s]
  BY <1>3 DEF ToDict, leaves
<1>6. code = [s \in DOMAIN code |-> code[s]]
  BY DEF TreeOf, CodeOK
<1>7. QED
  BY <1>4, <1>5, <1>6

\* What nodes() asserts.
LEMMA NodesRight ==
  ASSUME NEW tree, NEW code, TreeOf(tree, code), DOMAIN code # {}
  PROVE  NodesAsserted(tree)
<1>1. \A s \in DOMAIN code : code[s] \in Seq(Bit) /\ code[s] # <<>>
  BY DEF TreeOf, CodeOK
<1> SUFFICES ASSUME NEW p \in DOMAIN tree
             PROVE  HasSymbol(tree, p) <=> ~ (Children(tree, p) # {})
  BY DEF NodesAsserted
<1>2. p \in Seq(Bit) /\ OnPath(code, p)
  BY NodesOnPaths
<1>3. ASSUME HasSymbol(tree, p), Children(tree, p) # {} PROVE FALSE
  <2>1. PICK s \in DOMAIN code : code[s] = p
    BY <1>3, SymbolsAtWords
  <2>2. PICK t \in DOMAIN code : IsPrefix(p, code[t]) /\ p # code[t]
    BY <1>2, <1>3, ChildrenInside
  <2>3. QED
    BY <2>1, <2>2, WordsApart DEF TreeOf
<1>4. ASSUME ~HasSymbol(tree, p) PROVE Children(tree, p) # {}
  <2>1. PICK t \in DOMAIN code : IsPrefix(p, code[t])
    <3>1. CASE p = <<>>
      BY <1>1, <3>1, PrefixOrder
    <3>2. CASE p # <<>>
      BY <1>2, <3>2 DEF OnPath
    <3>3. QED
      BY <3>1, <3>2
  <2>2. p # code[t]
    BY <1>4, SymbolsAtWords
  <2>3. QED
    BY <1>2, <2>1, <2>2, ChildrenInside
<1>5. QED
  BY <1>3, <1>4

-------------------------------------------------------------------------------
(***************************************************************************)
(* Decoding.                                                               *)
(***************************************************************************)
\* A piece of an array.
LEMMA Piece ==
  ASSUME NEW b \in Seq(Bit), NEW i \in Nat, NEW n \in Nat, i + n <= Len(b)
  PROVE  /\ SubSeq(b, i + 1, i + n) \in Seq(Bit)
         /\ Len(SubSeq(b, i + 1, i + n)) = n
         /\ \A j \in 1 .. n : SubSeq(b, i + 1, i + n)[j] = b[i + j]
OBVIOUS

\* How far the walk could go.
Ways(tree, b, i) ==
  {n \in 0 .. (Len(b) - i) :
     /\ SubSeq(b, i + 1, i + n) \in DOMAIN tree
     /\ \A q \in Above(SubSeq(b, i + 1, i + n)) : ~HasSymbol(tree, q)}

\* The walk ends within the array.
LEMMA WalkEnds ==
  ASSUME NEW tree, NEW code, TreeOf(tree, code),
         NEW b \in Seq(Bit), NEW i \in Nat, i <= Len(b)
  PROVE  /\ Followed(tree, b, i) \in 0 .. (Len(b) - i)
         /\ Followed(tree, b, i) \in Ways(tree, b, i)
         /\ \A n \in Ways(tree, b, i) : n <= Followed(tree, b, i)
<1>1. Len(b) \in Nat
  BY LenProperties
<1>2. Followed(tree, b, i) = Max(Ways(tree, b, i))
  BY DEF Followed, Ways
<1>3. 0 \in Ways(tree, b, i)
  <2>1. SubSeq(b, i + 1, i + 0) = <<>>
    BY SubSeqEmpty
  <2>2. <<>> \in DOMAIN tree
    BY DEF TreeOf, OnPath
  <2>3. Above(<<>>) = {}
    <3>1. <<>> \in Seq(Bit) /\ Len(<<>>) = 0
      BY EmptySeq
    <3>2. 1 .. (Len(<<>>) - 1) = {}
      BY <3>1
    <3>3. QED
      BY <3>2 DEF Above
  <2>4. 0 \in 0 .. (Len(b) - i)
    BY <1>1
  <2>5. QED
    BY <2>1, <2>2, <2>3, <2>4 DEF Ways
<1>4. Ways(tree, b, i) \in SUBSET (0 .. (Len(b) - i))
  BY DEF Ways
<1>5. 0 \in Int /\ Len(b) - i \in Int
  BY <1>1
<1>6. QED
  BY <1>2, <1>3, <1>4, <1>5, Maximum

\* Word w goes from index i of b to e.
Occupies(w, b, i, e) == e = i + Len(w) /\ e <= Len(b) /\ SubSeq(b, i + 1, e) = w

\* Where a code word is, the decoder finds it.
LEMMA WordFound ==
  ASSUME NEW tree, NEW code, TreeOf(tree, code),
         NEW b \in Seq(Bit), NEW i \in Nat, NEW s \in DOMAIN code,
         NEW e \in Nat, Occupies(code[s], b, i, e)
  PROVE  Traverse(tree, b, i) = [kind |-> "symbol", symbol |-> s, index |-> e]
<1> DEFINE m == Len(code[s])
<1>1. e = i + m /\ i + m <= Len(b) /\ SubSeq(b, i + 1, i + m) = code[s]
  BY DEF Occupies
<1>2. /\ code[s] \in Seq(Bit) /\ code[s] # <<>> /\ m \in Nat /\ m # 0 /\ Len(b) \in Nat
  BY EmptySeq, LenProperties DEF TreeOf, CodeOK
<1>3. HasSymbol(tree, code[s]) /\ tree[code[s]] = s /\ code[s] \in DOMAIN tree
  BY SymbolsAtWords DEF HasSymbol
<1>4. m \in Ways(tree, b, i)
  <2>1. m \in 0 .. (Len(b) - i)
    BY <1>1, <1>2
  <2>2. ASSUME NEW q \in Above(code[s]) PROVE ~HasSymbol(tree, q)
    <3>1. q # code[s] /\ IsPrefix(q, code[s])
      BY <1>2, AbovePrefixes
    <3>2. SUFFICES ASSUME HasSymbol(tree, q) PROVE FALSE
      OBVIOUS
    <3>3. PICK t \in DOMAIN code : code[t] = q
      BY <3>2, SymbolsAtWords
    <3>4. QED
      BY <3>1, <3>3, WordsApart DEF TreeOf
  <2>3. QED
    BY <1>1, <1>3, <2>1, <2>2 DEF Ways
<1>5. ASSUME NEW n \in Ways(tree, b, i) PROVE n <= m
  <2>1. SUFFICES ASSUME ~ (n <= m) PROVE FALSE
    OBVIOUS
  <2>2. /\ n \in Nat /\ i + n <= Len(b) /\ m < n
        /\ \A q \in Above(SubSeq(b, i + 1, i + n)) : ~HasSymbol(tree, q)
    BY <1>2, <2>1 DEF Ways
  <2> DEFINE p == SubSeq(b, i + 1, i + n)
  <2>3. p \in Seq(Bit) /\ Len(p) = n /\ \A j \in 1 .. n : p[j] = b[i + j]
    BY <2>2, Piece
  <2>4. \A j \in 1 .. m : code[s][j] = b[i + j]
    <3>1. \A j \in 1 .. m : SubSeq(b, i + 1, i + m)[j] = b[i + j]
      BY <1>1, <1>2, Piece
    <3>2. QED
      BY <1>1, <3>1
  <2> HIDE DEF p
  <2>5. IsPrefix(code[s], p)
    <3>1. m <= n /\ \A j \in 1 .. m : j \in 1 .. n
      BY <1>2, <2>2
    <3>2. \A j \in 1 .. m : code[s][j] = p[j]
      BY <2>3, <2>4, <3>1
    <3>3. QED
      BY <1>2, <2>3, <3>1, <3>2, PrefixElements
  <2>6. code[s] # p
    BY <1>2, <2>2, <2>3
  <2>7. code[s] \in Above(p)
    BY <1>2, <2>3, <2>5, <2>6, AbovePrefixes
  <2>8. QED
    BY <1>3, <2>2, <2>7 DEF p
<1>6. i <= Len(b) /\ ~ (i >= Len(b))
  BY <1>1, <1>2
<1>7. Followed(tree, b, i) = m
  <2>1. /\ Followed(tree, b, i) \in 0 .. (Len(b) - i)
        /\ Followed(tree, b, i) \in Ways(tree, b, i)
        /\ \A n \in Ways(tree, b, i) : n <= Followed(tree, b, i)
    BY <1>6, WalkEnds
  <2>2. Followed(tree, b, i) <= m /\ m <= Followed(tree, b, i)
    BY <1>4, <1>5, <2>1
  <2>3. QED
    BY <1>2, <2>1, <2>2
<1>8. QED
  BY <1>1, <1>3, <1>6, <1>7 DEF Traverse

\* The symbols of all dicts, and what encode() has written for one.
Symbols == UNION {DOMAIN code : code \in CodeDicts}
Item    == Symbols \X (Seq(Bit) \ {<<>>})

\* The array b consists of the words, which end where E says.
Marks(E, words, b) ==
  /\ E \in [0 .. Len(words) -> 0 .. Len(b)]
  /\ E[0] = 0 /\ E[Len(words)] = Len(b)
  /\ \A k \in 1 .. Len(words) :
       /\ E[k] = E[k - 1] + Len(words[k][2])
       /\ SubSeq(b, E[k - 1] + 1, E[k]) = words[k][2]

\* Nothing is encoded.
LEMMA NothingMarked == \E E : Marks(E, <<>>, <<>>)
<1>1. Len(<<>>) = 0
  BY EmptySeq
<1> DEFINE E == [k \in 0 .. 0 |-> 0]
<1>2. E \in [0 .. 0 -> 0 .. 0] /\ E[0] = 0 /\ 1 .. 0 = {}
  OBVIOUS
<1>3. Marks(E, <<>>, <<>>)
  BY <1>1, <1>2 DEF Marks
<1>4. QED
  BY <1>3

\* One word more is encoded.
LEMMA MarkedAppend ==
  ASSUME NEW words \in Seq(Item), NEW b \in Seq(Bit), NEW E, Marks(E, words, b),
         NEW item \in Item
  PROVE  \E F : /\ Marks(F, Append(words, item), b \o item[2])
                /\ \A k \in 0 .. Len(words) : F[k] = E[k]
<1> DEFINE n == Len(words)
           w == item[2]
           new == Append(words, item)
           c == b \o w
<1>1. n \in Nat /\ Len(b) \in Nat /\ w \in Seq(Bit) /\ Len(w) \in Nat /\ Len(w) # 0
  BY LenProperties, EmptySeq DEF Item
<1>2. /\ Len(new) = n + 1 /\ new[n + 1] = item /\ \A k \in 1 .. n : new[k] = words[k]
  BY AppendProperties
<1>3. c \in Seq(Bit) /\ Len(c) = Len(b) + Len(w)
  BY <1>1, ConcatProperties
<1> DEFINE F == [k \in 0 .. (n + 1) |-> IF k = n + 1 THEN Len(c) ELSE E[k]]
<1>4. /\ F[n + 1] = Len(c) /\ \A k \in 0 .. n : F[k] = E[k]
      /\ F = [k \in 0 .. (n + 1) |-> F[k]]
  BY <1>1
<1>5. \A k \in 0 .. n : E[k] \in 0 .. Len(b)
  BY DEF Marks
<1> HIDE DEF F
<1>6. F \in [0 .. (n + 1) -> 0 .. Len(c)]
  <2>1. ASSUME NEW k \in 0 .. (n + 1) PROVE F[k] \in 0 .. Len(c)
    <3>1. CASE k = n + 1
      BY <1>1, <1>3, <1>4, <3>1
    <3>2. CASE k # n + 1
      <4>1. k \in 0 .. n
        BY <1>1, <3>2
      <4>2. F[k] = E[k] /\ E[k] \in 0 .. Len(b)
        BY <1>4, <1>5, <4>1
      <4>3. QED
        BY <1>1, <1>3, <4>2
    <3>3. QED
      BY <3>1, <3>2
  <2>2. QED
    BY <1>4, <2>1
<1>7. F[0] = 0
  <2>1. 0 \in 0 .. n
    BY <1>1
  <2>2. QED
    BY <1>4, <2>1 DEF Marks
<1>8. ASSUME NEW k \in 1 .. (n + 1)
      PROVE  F[k] = F[k - 1] + Len(new[k][2]) /\ SubSeq(c, F[k - 1] + 1, F[k]) = new[k][2]
  <2>1. CASE k = n + 1
    <3>1. k - 1 = n /\ n \in 0 .. n
      BY <1>1, <2>1
    <3>2. F[k - 1] = Len(b) /\ F[k] = Len(b) + Len(w) /\ new[k][2] = w
      BY <1>2, <1>3, <1>4, <2>1, <3>1 DEF Marks
    <3>3. SubSeq(c, Len(b) + 1, Len(b) + Len(w)) = w
      <4>1. /\ Len(b) + 1 \in Len(b) + 1 .. Len(b) + Len(w)
            /\ Len(b) + Len(w) \in Len(b) + 1 .. Len(b) + Len(w)
            /\ (Len(b) + 1) - Len(b) = 1 /\ (Len(b) + Len(w)) - Len(b) = Len(w)
        BY <1>1
      <4>2. SubSeq(c, Len(b) + 1, Len(b) + Len(w)) = SubSeq(w, 1, Len(w))
        BY <1>1, <4>1, SubSeqOfConcat2
      <4>3. QED
        BY <1>1, <4>2, SubSeqFull
    <3>4. QED
      BY <3>2, <3>3
  <2>2. CASE k # n + 1
    <3>1. k \in 1 .. n /\ k \in 0 .. n /\ k - 1 \in 0 .. n
      BY <1>1, <2>2
    <3>2. F[k] = E[k] /\ F[k - 1] = E[k - 1] /\ new[k] = words[k]
      BY <1>2, <1>4, <3>1
    <3>3. /\ E[k] = E[k - 1] + Len(words[k][2])
          /\ SubSeq(b, E[k - 1] + 1, E[k]) = words[k][2]
      BY <3>1 DEF Marks
    <3>4. Len(words[k][2]) \in Nat /\ Len(words[k][2]) # 0
      <4>1. words[k] \in Item
        BY <3>1, ElementOfSeq
      <4>2. words[k][2] \in Seq(Bit) /\ words[k][2] # <<>>
        BY <4>1 DEF Item
      <4>3. QED
        BY <4>2, EmptySeq
    <3>5. E[k] \in 0 .. Len(b) /\ E[k - 1] \in 0 .. Len(b)
      BY <1>5, <3>1
    <3>6. E[k - 1] + 1 \in 1 .. Len(b) /\ E[k] \in 1 .. Len(b)
      <4> DEFINE x == E[k - 1]
                 y == E[k]
                 l == Len(words[k][2])
      <4>1. /\ x \in 0 .. Len(b) /\ y \in 0 .. Len(b) /\ l \in Nat /\ l # 0
            /\ y = x + l /\ Len(b) \in Nat
        BY <1>1, <3>3, <3>4, <3>5
      <4> HIDE DEF x, y, l
      <4>2. x + 1 \in 1 .. Len(b) /\ y \in 1 .. Len(b)
        BY <4>1
      <4>3. QED
        BY <4>2 DEF x, y
    <3>7. SubSeq(c, E[k - 1] + 1, E[k]) = SubSeq(b, E[k - 1] + 1, E[k])
      BY <1>1, <3>6, SubSeqOfConcat1
    <3>8. QED
      BY <3>2, <3>3, <3>7
  <2>3. QED
    BY <2>1, <2>2
<1>9. Marks(F, new, c)
  <2> HIDE DEF new, c
  <2>1. QED
    BY <1>2, <1>4, <1>6, <1>7, <1>8 DEF Marks
<1>10. QED
  BY <1>4, <1>9

\* Ends() are the marks.
LEMMA EndsMarked ==
  ASSUME NEW words \in Seq(Item), NEW b \in Seq(Bit), NEW E, Marks(E, words, b)
  PROVE  \A k \in 0 .. Len(words) : Ends(words)[k] = E[k]
<1> DEFINE P(h) == h = [k \in 0 .. Len(words) |->
                          IF k = 0 THEN 0 ELSE h[k - 1] + Len(words[k][2])]
<1>1. Ends(words) = CHOOSE h : P(h)
  BY DEF Ends
<1>2. Len(words) \in Nat
  BY LenProperties
<1>3. P(E)
  <2>1. E = [k \in 0 .. Len(words) |-> E[k]]
    BY DEF Marks
  <2>2. ASSUME NEW k \in 0 .. Len(words)
        PROVE  E[k] = IF k = 0 THEN 0 ELSE E[k - 1] + Len(words[k][2])
    <3>1. k # 0 => k \in 1 .. Len(words)
      BY <1>2
    <3>2. QED
      BY <3>1 DEF Marks
  <2>3. QED
    BY <2>1, <2>2
<1>4. P(CHOOSE h : P(h))
  <2> HIDE DEF P
  <2> QED
    BY <1>3
<1>5. P(Ends(words))
  BY <1>1, <1>4
<1> DEFINE e == Ends(words)
           S == {k \in Nat : k <= Len(words) => e[k] = E[k]}
<1>6. \A k \in 0 .. Len(words) : e[k] = IF k = 0 THEN 0 ELSE e[k - 1] + Len(words[k][2])
  BY <1>5
<1> HIDE DEF e, P
<1>7. 0 \in S
  <2>1. 0 \in 0 .. Len(words)
    BY <1>2
  <2>2. e[0] = 0 /\ E[0] = 0
    BY <1>6, <2>1 DEF Marks
  <2>3. QED
    BY <2>2
<1>8. ASSUME NEW k \in Nat, k \in S PROVE k + 1 \in S
  <2>1. SUFFICES ASSUME k + 1 <= Len(words) PROVE e[k + 1] = E[k + 1]
    BY <1>8
  <2>2. k + 1 \in 0 .. Len(words) /\ k + 1 \in 1 .. Len(words) /\ k + 1 # 0 /\ (k + 1) - 1 = k
    BY <1>2, <2>1
  <2>3. e[k] = E[k]
    BY <1>2, <1>8, <2>1
  <2>4. e[k + 1] = e[k] + Len(words[k + 1][2])
    BY <1>6, <2>2
  <2>5. E[k + 1] = E[k] + Len(words[k + 1][2])
    BY <2>2 DEF Marks
  <2>6. QED
    BY <2>3, <2>4, <2>5
<1> HIDE DEF S
<1>9. Nat \subseteq S
  BY <1>7, <1>8, SetInduction
<1>10. QED
  BY <1>2, <1>9 DEF S, e

-------------------------------------------------------------------------------
(***************************************************************************)
(* The invariant.                                                          *)
(***************************************************************************)
Types ==
  /\ DOMAIN codedict \subseteq Symbols /\ \A s \in DOMAIN codedict : codedict[s] \in Seq(Bit)
  /\ changes \in 0 .. MaxChanges /\ held \in BOOLEAN
  /\ bits \in Seq(Bit) /\ Len(bits) <= MaxBits
  /\ it = NoIter \/ it \in [tree : Holders, index : 0 .. MaxBits, faithful : BOOLEAN]

\* A tree that is being made is that of the items read so far; nobody has the
\* tree that it will become.
InTheMaking ==
  /\ making = [for |-> making.for, todo |-> making.todo, tree |-> making.tree, code |-> making.code]
  /\ making.for \in Holders /\ making.todo \subseteq DOMAIN codedict
  /\ making.todo \intersect DOMAIN making.code = {}
  /\ TreeOf(making.tree, making.code)
  /\ making.for = "decodetree" => refs = 0
  /\ making.for = "iterator" => it = NoIter

Making == making = NotMaking \/ InTheMaking

TreesRight == \A t \in DOMAIN trees : TreeOf(trees[t].tree, trees[t].code)

Uses == it.tree = "decodetree"

Owned ==
  /\ refs = (IF held THEN 1 ELSE 0) + (IF Uses THEN 1 ELSE 0)
  /\ DOMAIN trees = (IF held \/ Uses THEN {"decodetree"} ELSE {}) \union
                    (IF it.tree = "iterator" THEN {"iterator"} ELSE {})

Marked == written = Garbled \/ (written \in Seq(Item) /\ \E E : Marks(E, written, bits))

\* The tree of the iterator knows the words of the array.
Knows(code) ==
  \A k \in DOMAIN written : written[k][1] \in DOMAIN code /\ code[written[k][1]] = written[k][2]

\* The iterator is between two words.
Between ==
  (it # NoIter /\ it.faithful /\ written # Garbled /\ Knows(trees[it.tree].code))
    => \E E : Marks(E, written, bits) /\ \E k \in 0 .. Len(written) : it.index = E[k]

IInv == Types /\ Making /\ TreesRight /\ Owned /\ Marked /\ Between

\* The iterator has a tree.
LEMMA IteratorTree ==
  ASSUME IInv, it # NoIter
  PROVE  /\ it \in [tree : Holders, index : 0 .. MaxBits, faithful : BOOLEAN]
         /\ it.tree \in DOMAIN trees /\ TreeOf(trees[it.tree].tree, trees[it.tree].code)
BY DEF IInv, Types, TreesRight, Owned, Uses, Holders

\* No iterator, no tree of it; nothing is made as long as nothing is.
LEMMA NoneOfThem ==
  /\ NoIter.tree = "none" /\ NotMaking.for = "nothing"
  /\ InTheMaking => making # NotMaking
BY DEF NoIter, NotMaking, InTheMaking, Holders

\* The decoder's answer between two words.
LEMMA NextWord ==
  ASSUME IInv, it # NoIter, it.faithful, written # Garbled, Knows(trees[it.tree].code)
  PROVE  \E E : /\ Marks(E, written, bits)
                /\ \E k \in 0 .. Len(written) :
                     /\ it.index = E[k]
                     /\ Found = IF k = Len(written) THEN [kind |-> "stop", index |-> it.index]
                                ELSE [kind |-> "symbol", symbol |-> written[k + 1][1],
                                      index |-> E[k + 1]]
<1> DEFINE tree == trees[it.tree].tree
           code == trees[it.tree].code
<1>1. TreeOf(tree, code)
  BY IteratorTree
<1>2. written \in Seq(Item) /\ Len(written) \in Nat /\ DOMAIN written = 1 .. Len(written)
  BY LenProperties DEF IInv, Marked
<1>3. bits \in Seq(Bit) /\ Len(bits) \in Nat
  BY LenProperties DEF IInv, Types
<1>4. Knows(code)
  OBVIOUS
<1>5. PICK E : Marks(E, written, bits) /\ \E k \in 0 .. Len(written) : it.index = E[k]
  BY DEF IInv, Between
<1>6. PICK k \in 0 .. Len(written) : it.index = E[k]
  BY <1>5
<1> HIDE DEF tree, code
<1>7. E[k] \in 0 .. Len(bits)
  BY <1>5 DEF Marks
<1>8. Found = Traverse(tree, bits, it.index)
  BY DEF Found, tree
<1>9. CASE k = Len(written)
  <2>1. it.index = Len(bits) /\ it.index >= Len(bits)
    BY <1>3, <1>5, <1>6, <1>9 DEF Marks
  <2>2. Found = [kind |-> "stop", index |-> it.index]
    BY <1>8, <2>1 DEF Traverse
  <2>3. QED
    BY <1>5, <1>6, <1>9, <2>2
<1>10. CASE k # Len(written)
  <2>1. k + 1 \in 1 .. Len(written) /\ k + 1 \in 0 .. Len(written) /\ (k + 1) - 1 = k
    <3> DEFINE n == Len(written)
    <3>1. n \in Nat /\ k \in 0 .. n /\ k # n
      BY <1>2, <1>6, <1>10
    <3> HIDE DEF n
    <3>2. k + 1 \in 1 .. n /\ k + 1 \in 0 .. n /\ (k + 1) - 1 = k
      BY <3>1
    <3>3. QED
      BY <3>2 DEF n
  <2> DEFINE s == written[k + 1][1]
             w == written[k + 1][2]
  <2>2. s \in DOMAIN code /\ code[s] = w
    BY <1>2, <1>4, <2>1 DEF Knows
  <2>3. E[k + 1] = E[k] + Len(w) /\ SubSeq(bits, E[k] + 1, E[k + 1]) = w
    BY <1>5, <2>1 DEF Marks
  <2>4. E[k + 1] \in 0 .. Len(bits)
    BY <1>5, <2>1 DEF Marks
  <2> HIDE DEF s, w
  <2>5. E[k] + Len(w) <= Len(bits) /\ E[k] \in Nat
    BY <1>3, <1>7, <2>3, <2>4
  <2>6. Traverse(tree, bits, E[k]) = [kind |-> "symbol", symbol |-> s, index |-> E[k + 1]]
    <3> DEFINE i == E[k]
               e == E[k + 1]
    <3>1. i \in Nat /\ e \in Nat /\ Occupies(code[s], bits, i, e)
      BY <1>3, <2>2, <2>3, <2>4, <2>5 DEF Occupies
    <3> HIDE DEF i, e
    <3>2. Traverse(tree, bits, i) = [kind |-> "symbol", symbol |-> s, index |-> e]
      BY <1>1, <1>3, <2>2, <3>1, WordFound
    <3>3. QED
      BY <3>2 DEF i, e
  <2>7. Found = [kind |-> "symbol", symbol |-> written[k + 1][1], index |-> E[k + 1]]
    BY <1>6, <1>8, <2>6 DEF s
  <2>8. QED
    BY <1>5, <1>6, <1>10, <2>7
<1>11. QED
  BY <1>9, <1>10

\* The index that the decoder leaves is one of the array.
LEMMA FoundIndex ==
  ASSUME IInv, it # NoIter
  PROVE  Found.index \in 0 .. MaxBits
<1> DEFINE tree == trees[it.tree].tree
           code == trees[it.tree].code
           i    == it.index
<1>1. TreeOf(tree, code) /\ i \in 0 .. MaxBits
  BY IteratorTree
<1>2. bits \in Seq(Bit) /\ Len(bits) \in Nat /\ Len(bits) <= MaxBits /\ MaxBits \in Nat
  BY LenProperties, CodesAssumption DEF IInv, Types
<1> HIDE DEF tree, code, i
<1>3. Found = Traverse(tree, bits, i)
  BY DEF Found, tree, i
<1>4. CASE i >= Len(bits)
  BY <1>1, <1>3, <1>4 DEF Traverse
<1>5. CASE ~(i >= Len(bits))
  <2> DEFINE n == Followed(tree, bits, i)
  <2>1. n \in 0 .. (Len(bits) - i)
    BY <1>1, <1>2, <1>5, WalkEnds
  <2>2. Found.index = i + n
    BY <1>3, <1>5 DEF Traverse
  <2> HIDE DEF n
  <2>3. QED
    BY <1>1, <1>2, <2>1, <2>2
<1>6. QED
  BY <1>4, <1>5

\* The invariant holds at first.
LEMMA InitIInv == Init => IInv
<1> SUFFICES ASSUME Init PROVE IInv
  OBVIOUS
<1>1. <<>> \in Seq(Bit) /\ <<>> \in Seq(Item) /\ Len(<<>>) = 0 /\ DOMAIN <<>> = {}
  BY EmptySeq
<1>2. Types
  <2>1. DOMAIN codedict \subseteq Symbols /\ \A s \in DOMAIN codedict : codedict[s] \in Seq(Bit)
    BY CodesAssumption DEF Init, Symbols
  <2>2. /\ changes \in 0 .. MaxChanges /\ held \in BOOLEAN /\ it = NoIter
        /\ bits \in Seq(Bit) /\ Len(bits) <= MaxBits
    <3>1. 0 \in 0 .. MaxChanges /\ 0 <= MaxBits
      BY CodesAssumption
    <3>2. QED
      BY <1>1, <3>1 DEF Init
  <2>3. QED
    BY <2>1, <2>2 DEF Types
<1>3. Making /\ TreesRight
  BY <1>1 DEF Init, Making, TreesRight
<1>4. Owned
  BY <1>1, NoneOfThem DEF Init, Owned, Uses
<1>5. Marked
  BY <1>1, NothingMarked DEF Init, Marked
<1>6. Between
  BY DEF Init, Between
<1>7. QED
  BY <1>2, <1>3, <1>4, <1>5, <1>6 DEF IInv

\* Changing or deleting a code word changes no tree and no word written.
LEMMA ChangesIInv ==
  ASSUME IInv, NEW s \in DOMAIN codedict,
         (\E w \in Words : ChangeWord(s, w)) \/ DeleteWord(s)
  PROVE  IInv'
<1>1. changes' \in 0 .. MaxChanges
  BY CodesAssumption DEF ChangeWord, DeleteWord, IInv, Types
<1>2. UNCHANGED <<trees, held, refs, bits, written, it>>
  BY DEF ChangeWord, DeleteWord
<1>3. /\ DOMAIN codedict' \subseteq DOMAIN codedict
      /\ \A t \in DOMAIN codedict' : codedict'[t] \in Seq(Bit)
  BY CodesAssumption DEF ChangeWord, DeleteWord, IInv, Types
<1>4. Making'
  <2>1. CASE \E w \in Words : ChangeWord(s, w)
    <3>1. DOMAIN codedict' = DOMAIN codedict /\ UNCHANGED <<making, refs, it>>
      BY <2>1 DEF ChangeWord
    <3>2. QED
      BY <3>1 DEF IInv, Making, InTheMaking
  <2>2. CASE DeleteWord(s)
    <3>1. /\ DOMAIN codedict' = DOMAIN codedict \ {s}
          /\ making' = IF making = NotMaking THEN making ELSE [making EXCEPT !.todo = @ \ {s}]
      BY <2>2 DEF DeleteWord
    <3>2. CASE making = NotMaking
      BY <3>1, <3>2 DEF Making
    <3>3. CASE making # NotMaking
      <4>1. InTheMaking
        BY <3>3 DEF IInv, Making
      <4>2. making' = [for |-> making.for, todo |-> making.todo \ {s}, tree |-> making.tree,
                       code |-> making.code]
        BY <3>1, <3>3, <4>1 DEF InTheMaking
      <4>3. InTheMaking'
        BY <1>2, <3>1, <4>1, <4>2 DEF InTheMaking
      <4>4. QED
        BY <4>3 DEF Making
    <3>4. QED
      BY <3>2, <3>3
  <2>3. QED
    BY <2>1, <2>2
<1>5. Types'
  BY <1>1, <1>2, <1>3 DEF IInv, Types
<1>6. QED
  BY <1>2, <1>4, <1>5 DEF IInv, TreesRight, Owned, Uses, Marked, Between, Knows

\* The array becomes something else.
LEMMA OverwriteIInv ==
  ASSUME IInv, NEW b \in Overwrites, Overwrite(b)
  PROVE  IInv'
<1>1. /\ bits' = b /\ written' = (IF b = <<>> THEN <<>> ELSE Garbled)
      /\ it' = IF it = NoIter THEN it ELSE [it EXCEPT !.faithful = FALSE]
      /\ UNCHANGED <<codedict, changes, making, trees, held, refs>>
  BY DEF Overwrite
<1>2. it = NoIter \/ it \in [tree : Holders, index : 0 .. MaxBits, faithful : BOOLEAN]
  BY DEF IInv, Types
<1>3. /\ it'.tree = it.tree /\ (it' = NoIter <=> it = NoIter)
      /\ it' # NoIter => /\ ~it'.faithful
                         /\ it' \in [tree : Holders, index : 0 .. MaxBits, faithful : BOOLEAN]
  BY <1>1, <1>2 DEF NoIter, Holders
<1>4. Types'
  BY <1>1, <1>3, CodesAssumption DEF IInv, Types
<1>5. Making' /\ TreesRight' /\ Owned'
  BY <1>1, <1>3 DEF IInv, Making, InTheMaking, TreesRight, Owned, Uses
<1>6. Marked'
  <2>1. <<>> \in Seq(Item)
    BY EmptySeq
  <2>2. QED
    BY <1>1, <2>1, NothingMarked DEF Marked
<1>7. Between'
  BY <1>3 DEF Between
<1>8. QED
  BY <1>4, <1>5, <1>6, <1>7 DEF IInv

\* The array becomes longer by a code word.
LEMMA EncodeIInv ==
  ASSUME IInv, NEW s \in DOMAIN codedict, Encode(s)
  PROVE  IInv'
<1> DEFINE w == codedict[s]
           item == <<s, w>>
<1>1. /\ w # <<>> /\ Len(bits) + Len(w) <= MaxBits /\ bits' = bits \o w
      /\ written' = IF written = Garbled THEN Garbled ELSE Append(written, item)
      /\ UNCHANGED <<codedict, changes, making, trees, held, refs, it>>
  BY DEF Encode
<1>2. w \in Seq(Bit) /\ item \in Item /\ bits \in Seq(Bit) /\ item[2] = w
  BY <1>1 DEF IInv, Types, Item
<1>3. bits' \in Seq(Bit) /\ Len(bits') <= MaxBits
  BY <1>1, <1>2, ConcatProperties
<1>4. Types' /\ Making' /\ TreesRight' /\ Owned'
  BY <1>1, <1>3 DEF IInv, Types, Making, InTheMaking, TreesRight, Owned, Uses
<1> HIDE DEF w, item
<1>5. CASE written = Garbled
  BY <1>1, <1>4, <1>5 DEF IInv, Marked, Between
<1>6. CASE written # Garbled
  <2>1. written \in Seq(Item) /\ Len(written) \in Nat /\ DOMAIN written = 1 .. Len(written)
    BY <1>6, LenProperties DEF IInv, Marked
  <2>2. written' = Append(written, item) /\ bits' = bits \o item[2]
    BY <1>1, <1>2, <1>6
  <2>3. /\ written' \in Seq(Item) /\ Len(written') = Len(written) + 1
        /\ DOMAIN written' = 1 .. (Len(written) + 1)
        /\ \A k \in 1 .. Len(written) : written'[k] = written[k]
    BY <1>2, <2>1, <2>2, AppendProperties, LenProperties
  <2>4. Marked'
    <3>1. PICK E : Marks(E, written, bits)
      BY <1>6 DEF IInv, Marked
    <3>2. \E F : Marks(F, Append(written, item), bits \o item[2])
      BY <1>2, <2>1, <3>1, MarkedAppend
    <3>3. \E F : Marks(F, written', bits')
      BY <2>2, <3>2
    <3>4. QED
      BY <2>3, <3>3 DEF Marked
  <2>5. Between'
    <3>1. SUFFICES ASSUME it' # NoIter, it'.faithful, written' # Garbled,
                          Knows(trees[it.tree].code)'
                   PROVE  \E F : /\ Marks(F, written', bits')
                                 /\ \E k \in 0 .. Len(written') : it'.index = F[k]
      BY <1>1 DEF Between
    <3>2. Knows(trees[it.tree].code)
      BY <1>1, <2>1, <2>3, <3>1 DEF Knows
    <3>3. PICK E : Marks(E, written, bits) /\ \E k \in 0 .. Len(written) : it.index = E[k]
      BY <1>1, <1>6, <3>1, <3>2 DEF IInv, Between
    <3>4. PICK k \in 0 .. Len(written) : it.index = E[k]
      BY <3>3
    <3>5. PICK F : /\ Marks(F, Append(written, item), bits \o item[2])
                   /\ \A j \in 0 .. Len(written) : F[j] = E[j]
      BY <1>2, <2>1, <3>3, MarkedAppend
    <3>6. k \in 0 .. Len(written') /\ F[k] = E[k]
      BY <2>1, <2>3, <3>4, <3>5
    <3>7. QED
      BY <1>1, <2>2, <3>4, <3>5, <3>6
  <2>6. QED
    BY <1>4, <2>4, <2>5 DEF IInv
<1>7. QED
  BY <1>5, <1>6

\* Steps in which nothing but the tree in the making changes.
LEMMA OnlyMaking ==
  ASSUME IInv, Making', UNCHANGED <<codedict, changes, trees, held, refs, bits, written, it>>
  PROVE  IInv'
BY DEF IInv, Types, TreesRight, Owned, Uses, Marked, Between, Knows

\* A tree is begun.
LEMMA MakeTreeIInv ==
  ASSUME IInv, NEW for \in {"decodetree", "iterator"}, MakeTree(for)
  PROVE  IInv'
<1>1. /\ IF for = "decodetree" THEN refs = 0 ELSE it = NoIter
      /\ making' = [for |-> for, todo |-> DOMAIN codedict, tree |-> Root, code |-> <<>>]
      /\ UNCHANGED <<codedict, changes, trees, held, refs, bits, written, it>>
  BY DEF MakeTree
<1>2. DOMAIN <<>> = {}
  OBVIOUS
<1>3. InTheMaking'
  BY <1>1, <1>2, RootTree DEF InTheMaking, Holders
<1>4. QED
  BY <1>1, <1>3, OnlyMaking DEF Making

\* It gets a code word, or is given up.
LEMMA InsertIInv ==
  ASSUME IInv, NEW s \in DOMAIN codedict, Insert(s)
  PROVE  IInv'
<1>1. /\ making # NotMaking /\ s \in making.todo
      /\ UNCHANGED <<codedict, changes, trees, held, refs, bits, written, it>>
  BY DEF Insert
<1>2. CASE Refused(s)
  BY <1>1, <1>2, OnlyMaking DEF Insert, Making
<1>3. CASE ~Refused(s)
  <2> DEFINE w    == codedict[s]
             tree == making.tree
             code == making.code
  <2>1. InTheMaking
    BY <1>1 DEF IInv, Making
  <2>2. /\ w \in Seq(Bit) /\ w # <<>> /\ ~Ambiguous(tree, w)
        /\ TreeOf(tree, code) /\ s \notin DOMAIN code
    BY <1>1, <1>3, <2>1 DEF IInv, Types, Refused, InTheMaking
  <2>3. s # Inner
    BY CodesAssumption DEF IInv, Types, Symbols
  <2>4. making' = [for |-> making.for, todo |-> making.todo \ {s},
                   tree |-> InsertSymbol(tree, w, s), code |-> Extended(code, s, w)]
    BY <1>1, <1>3, <2>1 DEF Insert, InTheMaking
  <2>5. TreeOf(InsertSymbol(tree, w, s), Extended(code, s, w))
    BY <2>2, <2>3, InsertedTree
  <2>6. DOMAIN Extended(code, s, w) = DOMAIN code \union {s}
    BY DEF Extended
  <2>7. /\ making.for \in Holders /\ making.todo \subseteq DOMAIN codedict
        /\ making.todo \intersect DOMAIN code = {}
        /\ making.for = "decodetree" => refs = 0
        /\ making.for = "iterator" => it = NoIter
    BY <2>1 DEF InTheMaking
  <2> HIDE DEF w, tree, code
  <2>8. InTheMaking'
    BY <1>1, <2>4, <2>5, <2>6, <2>7 DEF InTheMaking
  <2>9. QED
    BY <1>1, <2>8, OnlyMaking DEF Making
<1>4. QED
  BY <1>2, <1>3

\* Memory runs out.
LEMMA NoMemoryIInv ==
  ASSUME IInv, NoMemory
  PROVE  IInv'
BY OnlyMaking DEF NoMemory, Making

\* A new iterator is before the first word.
LEMMA IteratorStarts ==
  ASSUME IInv, NEW tree \in Holders
  PROVE  /\ Iterator(tree) \in [tree : Holders, index : 0 .. MaxBits, faithful : BOOLEAN]
         /\ Iterator(tree).tree = tree /\ Iterator(tree).index = 0
         /\ Iterator(tree) # NoIter
         /\ Iterator(tree).faithful =>
              \E E : Marks(E, written, bits) /\ \E k \in 0 .. Len(written) : 0 = E[k]
<1>1. 0 \in 0 .. MaxBits
  BY CodesAssumption
<1>2. Iterator(tree).faithful => written # Garbled
  BY DEF Iterator
<1>3. ASSUME written # Garbled
      PROVE  \E E : Marks(E, written, bits) /\ \E k \in 0 .. Len(written) : 0 = E[k]
  <2>1. written \in Seq(Item) /\ \E E : Marks(E, written, bits)
    BY <1>3 DEF IInv, Marked
  <2>2. Len(written) \in Nat
    BY <2>1, LenProperties
  <2>3. 0 \in 0 .. Len(written)
    BY <2>2
  <2>4. QED
    BY <2>1, <2>3 DEF Marks
<1>4. QED
  BY <1>1, <1>2, <1>3 DEF Iterator, NoIter, Holders

\* A tree is complete.
LEMMA MadeIInv ==
  ASSUME IInv, Made
  PROVE  IInv'
<1> DEFINE for  == making.for
           made == [tree |-> making.tree, code |-> making.code]
<1>1. /\ making # NotMaking /\ making' = NotMaking /\ trees' = Extended(trees, for, made)
      /\ IF for = "decodetree" THEN held' = TRUE /\ refs' = 1 /\ UNCHANGED it
         ELSE it' = Iterator("iterator") /\ UNCHANGED <<held, refs>>
      /\ UNCHANGED <<codedict, changes, bits, written>>
  BY DEF Made
<1>2. InTheMaking
  BY <1>1 DEF IInv, Making
<1>3. /\ for \in Holders /\ TreeOf(made.tree, made.code)
      /\ for = "decodetree" => refs = 0
      /\ for = "iterator" => it = NoIter
  BY <1>2 DEF InTheMaking
<1>4. /\ DOMAIN trees' = DOMAIN trees \union {for} /\ trees'[for] = made
      /\ \A t \in DOMAIN trees : t # for => trees'[t] = trees[t]
  BY <1>1 DEF Extended
<1> HIDE DEF for, made
<1>5. TreesRight'
  BY <1>3, <1>4 DEF IInv, TreesRight
<1>6. Making' /\ Marked'
  BY <1>1 DEF IInv, Making, Marked
<1>7. CASE for = "decodetree"
  <2>1. held' = TRUE /\ refs' = 1 /\ it' = it /\ ~held /\ ~Uses /\ held \in BOOLEAN
    BY <1>1, <1>3, <1>7 DEF IInv, Owned, Types
  <2>2. Types' /\ Owned'
    BY <1>1, <1>4, <1>7, <2>1 DEF IInv, Types, Owned, Uses
  <2>3. it # NoIter => trees'[it.tree] = trees[it.tree]
    BY <1>4, <1>7, <2>1, IteratorTree DEF Uses
  <2>4. Between'
    BY <1>1, <2>1, <2>3 DEF IInv, Between, Knows
  <2>5. QED
    BY <1>5, <1>6, <2>2, <2>4 DEF IInv
<1>8. CASE for # "decodetree"
  <2>1. for = "iterator" /\ it = NoIter /\ it' = Iterator("iterator") /\ UNCHANGED <<held, refs>>
    BY <1>1, <1>3, <1>8 DEF Holders
  <2>2. "iterator" \in Holders
    BY DEF Holders
  <2>3. /\ it' \in [tree : Holders, index : 0 .. MaxBits, faithful : BOOLEAN]
        /\ it'.tree = "iterator" /\ it'.index = 0
        /\ it'.faithful =>
             \E E : Marks(E, written, bits) /\ \E k \in 0 .. Len(written) : 0 = E[k]
    BY <2>1, <2>2, IteratorStarts
  <2>4. ~Uses /\ it.tree # "iterator"
    BY <2>1, NoneOfThem DEF Uses
  <2>5. Types' /\ Owned'
    BY <1>1, <1>4, <2>1, <2>3, <2>4 DEF IInv, Types, Owned, Uses
  <2>6. Between'
    BY <1>1, <2>3 DEF Between
  <2>7. QED
    BY <1>5, <1>6, <2>5, <2>6 DEF IInv
<1>9. QED
  BY <1>7, <1>8

\* The iterator uses the tree of the object.
LEMMA DecodeTreeIInv ==
  ASSUME IInv, DecodeTree
  PROVE  IInv'
<1>1. /\ held /\ it = NoIter /\ making.for # "iterator"
      /\ it' = Iterator("decodetree") /\ refs' = refs + 1
      /\ UNCHANGED <<codedict, changes, making, trees, held, bits, written>>
  BY DEF DecodeTree
<1>2. "decodetree" \in Holders
  BY DEF Holders
<1>3. /\ it' \in [tree : Holders, index : 0 .. MaxBits, faithful : BOOLEAN]
      /\ it'.tree = "decodetree" /\ it'.index = 0
      /\ it'.faithful =>
           \E E : Marks(E, written, bits) /\ \E k \in 0 .. Len(written) : 0 = E[k]
  BY <1>1, <1>2, IteratorStarts
<1>4. ~Uses /\ it.tree # "iterator"
  BY <1>1, NoneOfThem DEF Uses
<1>5. refs = 1
  BY <1>1, <1>4 DEF IInv, Owned
<1>6. making = NotMaking
  BY <1>1, <1>5 DEF IInv, Making, InTheMaking, Holders
<1>7. Types' /\ Making' /\ TreesRight' /\ Marked'
  BY <1>1, <1>3, <1>6 DEF IInv, Types, Making, TreesRight, Marked
<1>8. Owned'
  BY <1>1, <1>3, <1>4, <1>5 DEF IInv, Owned, Uses
<1>9. Between'
  BY <1>1, <1>3 DEF Between
<1>10. QED
  BY <1>7, <1>8, <1>9 DEF IInv

\* The program gives the object up.
LEMMA DropTreeIInv ==
  ASSUME IInv, DropTree
  PROVE  IInv'
<1>1. /\ held /\ ~held' /\ held' \in BOOLEAN /\ refs' = refs - 1
      /\ trees' = IF refs = 1 THEN Without("decodetree") ELSE trees
      /\ UNCHANGED <<codedict, changes, making, bits, written, it>>
  BY DEF DropTree, DecRef
<1>2. refs = 1 + (IF Uses THEN 1 ELSE 0)
  BY <1>1 DEF IInv, Owned
<1>3. Types' /\ Marked'
  BY <1>1 DEF IInv, Types, Marked
<1>4. Making'
  BY <1>1, <1>2 DEF IInv, Making, InTheMaking
<1>5. CASE Uses
  <2>1. trees' = trees /\ refs' = 1
    BY <1>1, <1>2, <1>5
  <2>2. TreesRight' /\ Owned'
    BY <1>1, <1>5, <2>1 DEF IInv, TreesRight, Owned, Uses
  <2>3. Between'
    BY <1>1, <2>1 DEF IInv, Between, Knows
  <2>4. QED
    BY <1>3, <1>4, <2>2, <2>3 DEF IInv
<1>6. CASE ~Uses
  <2>1. trees' = Without("decodetree") /\ refs' = 0
    BY <1>1, <1>2, <1>6
  <2>2. /\ DOMAIN trees' = DOMAIN trees \ {"decodetree"}
        /\ \A t \in DOMAIN trees' : trees'[t] = trees[t]
    BY <2>1 DEF Without
  <2>3. TreesRight' /\ Owned'
    BY <1>1, <1>6, <2>1, <2>2 DEF IInv, TreesRight, Owned, Uses
  <2>4. it # NoIter => trees'[it.tree] = trees[it.tree]
    BY <1>6, <2>2, IteratorTree DEF Uses
  <2>5. Between'
    BY <1>1, <2>4 DEF IInv, Between, Knows
  <2>6. QED
    BY <1>3, <1>4, <2>3, <2>5 DEF IInv
<1>7. QED
  BY <1>5, <1>6

\* The iterator goes.
LEMMA DropIteratorIInv ==
  ASSUME IInv, DropIterator
  PROVE  IInv'
<1>1. /\ it # NoIter /\ it' = NoIter /\ Release(it.tree)
      /\ UNCHANGED <<codedict, changes, making, held, bits, written>>
  BY DEF DropIterator
<1>2. it.tree \in Holders /\ it'.tree = "none"
  BY <1>1, IteratorTree, NoneOfThem
<1>3. Types' /\ Marked' /\ Between'
  BY <1>1 DEF IInv, Types, Marked, Between
<1>4. /\ DOMAIN Without(it.tree) = DOMAIN trees \ {it.tree}
      /\ \A t \in DOMAIN trees \ {it.tree} : Without(it.tree)[t] = trees[t]
  BY DEF Without
<1>5. CASE it.tree = "decodetree"
  <2>1. refs = (IF held THEN 1 ELSE 0) + 1
    BY <1>5 DEF IInv, Owned, Uses
  <2>2. refs' = refs - 1 /\ trees' = IF refs = 1 THEN Without(it.tree) ELSE trees
    BY <1>1, <1>5 DEF Release, DecRef
  <2>3. Making'
    BY <1>1, <2>1, <2>2 DEF IInv, Making, InTheMaking
  <2>4. TreesRight'
    BY <1>4, <2>2 DEF IInv, TreesRight
  <2>5. DOMAIN trees = {"decodetree"}
    BY <1>5 DEF IInv, Owned, Uses
  <2>6. Owned'
    <3>1. CASE held
      BY <1>1, <1>2, <2>1, <2>2, <2>5, <3>1 DEF Owned, Uses
    <3>2. CASE ~held
      BY <1>1, <1>2, <1>4, <1>5, <2>1, <2>2, <2>5, <3>2 DEF Owned, Uses
    <3>3. QED
      BY <3>1, <3>2
  <2>7. QED
    BY <1>3, <2>3, <2>4, <2>6 DEF IInv
<1>6. CASE it.tree # "decodetree"
  <2>1. it.tree = "iterator" /\ trees' = Without(it.tree) /\ refs' = refs /\ ~Uses
    BY <1>1, <1>2, <1>6 DEF Release, Holders, Uses
  <2>2. Making'
    BY <1>1, <2>1 DEF IInv, Making, InTheMaking
  <2>3. TreesRight' /\ Owned'
    BY <1>1, <1>2, <1>4, <2>1 DEF IInv, TreesRight, Owned, Uses
  <2>4. QED
    BY <1>3, <2>2, <2>3 DEF IInv
<1>7. QED
  BY <1>5, <1>6

\* The iterator moves on.
LEMMA MovesIInv ==
  ASSUME IInv, NextSymbol \/ \E n \in 1 .. MaxBits : SkipBits(n)
  PROVE  IInv'
<1>1. /\ it # NoIter
      /\ UNCHANGED <<codedict, changes, making, trees, held, refs, bits, written>>
  BY DEF NextSymbol, SkipBits
<1>2. it \in [tree : Holders, index : 0 .. MaxBits, faithful : BOOLEAN]
  BY <1>1, IteratorTree
<1>3. \E i \in 0 .. MaxBits, f \in BOOLEAN :
        /\ it' = [it EXCEPT !.index = i, !.faithful = f]
        /\ f => it.faithful /\ i = Found.index
  <2>1. CASE NextSymbol
    <3>1. it' = [it EXCEPT !.index = Found.index]
      BY <2>1 DEF NextSymbol
    <3>2. it' = [it EXCEPT !.index = Found.index, !.faithful = it.faithful]
      BY <1>2, <3>1
    <3>3. QED
      BY <1>1, <1>2, <3>2, FoundIndex
  <2>2. CASE \E n \in 1 .. MaxBits : SkipBits(n)
    <3>1. PICK n \in 1 .. MaxBits : SkipBits(n)
      BY <2>2
    <3>2. n <= Len(bits) - it.index /\ it' = [it EXCEPT !.index = @ + n, !.faithful = FALSE]
      BY <3>1 DEF SkipBits
    <3>3. Len(bits) \in Nat /\ Len(bits) <= MaxBits /\ MaxBits \in Nat
      BY CodesAssumption, LenProperties DEF IInv, Types
    <3>4. it.index + n \in 0 .. MaxBits
      BY <1>2, <3>2, <3>3
    <3>5. QED
      BY <3>2, <3>4
  <2>3. QED
    BY <2>1, <2>2
<1>4. PICK i \in 0 .. MaxBits, f \in BOOLEAN :
        /\ it' = [it EXCEPT !.index = i, !.faithful = f]
        /\ f => it.faithful /\ i = Found.index
  BY <1>3
<1>5. /\ it' \in [tree : Holders, index : 0 .. MaxBits, faithful : BOOLEAN]
      /\ it'.tree = it.tree /\ it'.index = i /\ it'.faithful = f
  BY <1>2, <1>4
<1>6. Types' /\ TreesRight' /\ Owned' /\ Marked'
  BY <1>1, <1>5 DEF IInv, Types, TreesRight, Owned, Uses, Marked
<1>7. Making'
  BY <1>1 DEF IInv, Making, InTheMaking
<1>8. Between'
  <2>1. SUFFICES ASSUME it'.faithful, written # Garbled, Knows(trees[it.tree].code)
                 PROVE  \E E : Marks(E, written, bits)
                               /\ \E k \in 0 .. Len(written) : it'.index = E[k]
    BY <1>1, <1>5 DEF Between, Knows
  <2>2. it.faithful /\ it'.index = Found.index
    BY <1>4, <1>5, <2>1
  <2>3. PICK E : /\ Marks(E, written, bits)
                 /\ \E k \in 0 .. Len(written) :
                      /\ it.index = E[k]
                      /\ Found = IF k = Len(written) THEN [kind |-> "stop", index |-> it.index]
                                 ELSE [kind |-> "symbol", symbol |-> written[k + 1][1],
                                       index |-> E[k + 1]]
    BY <1>1, <2>1, <2>2, NextWord
  <2>4. PICK k \in 0 .. Len(written) :
          /\ it.index = E[k]
          /\ Found = IF k = Len(written) THEN [kind |-> "stop", index |-> it.index]
                     ELSE [kind |-> "symbol", symbol |-> written[k + 1][1], index |-> E[k + 1]]
    BY <2>3
  <2>5. Len(written) \in Nat
    BY <2>1, LenProperties DEF IInv, Marked
  <2>6. CASE k = Len(written)
    BY <2>2, <2>3, <2>4, <2>6
  <2>7. CASE k # Len(written)
    <3>1. k + 1 \in 0 .. Len(written)
      BY <2>5, <2>7
    <3>2. it'.index = E[k + 1]
      BY <2>2, <2>4, <2>7
    <3>3. QED
      BY <2>3, <3>1, <3>2
  <2>8. QED
    BY <2>6, <2>7
<1>9. QED
  BY <1>6, <1>7, <1>8 DEF IInv

\* Every step preserves the invariant.
LEMMA NextIInv == IInv /\ [Next]_vars => IInv'
<1> SUFFICES ASSUME IInv, [Next]_vars PROVE IInv'
  OBVIOUS
<1>1. CASE \E s \in DOMAIN codedict : (\E w \in Words : ChangeWord(s, w)) \/ DeleteWord(s)
  BY <1>1, ChangesIInv
<1>2. CASE \E for \in {"decodetree", "iterator"} : MakeTree(for)
  BY <1>2, MakeTreeIInv
<1>3. CASE \E s \in DOMAIN codedict : Insert(s)
  BY <1>3, InsertIInv
<1>4. CASE NoMemory
  BY <1>4, NoMemoryIInv
<1>5. CASE Made
  BY <1>5, MadeIInv
<1>6. CASE DecodeTree
  BY <1>6, DecodeTreeIInv
<1>7. CASE DropTree
  BY <1>7, DropTreeIInv
<1>8. CASE DropIterator
  BY <1>8, DropIteratorIInv
<1>9. CASE \E s \in DOMAIN codedict : Encode(s)
  BY <1>9, EncodeIInv
<1>10. CASE NextSymbol \/ \E n \in 1 .. MaxBits : SkipBits(n)
  BY <1>10, MovesIInv
<1>11. CASE \E b \in Overwrites : Overwrite(b)
  BY <1>11, OverwriteIInv
<1>12. CASE UNCHANGED vars
  BY <1>12, OnlyMaking DEF vars, IInv, Making, InTheMaking
<1>13. QED
  BY <1>1, <1>2, <1>3, <1>4, <1>5, <1>6, <1>7, <1>8, <1>9, <1>10, <1>11, <1>12 DEF Next

\* The invariant holds for every code, word and array.
THEOREM CodesInvariance == Spec => []IInv
BY InitIInv, NextIInv, PTL DEF Spec

-------------------------------------------------------------------------------
(***************************************************************************)
(* What follows.                                                           *)
(***************************************************************************)
\* How many use the object.
LEMMA UsersCounted ==
  ASSUME IInv
  PROVE  TreesOwned
<1> DEFINE users == (IF held THEN {"program"} ELSE {}) \union
                    (IF it.tree = "decodetree" THEN {"iterator"} ELSE {})
<1>1. /\ Cardinality({}) = 0 /\ Cardinality({"program"}) = 1 /\ Cardinality({"iterator"}) = 1
      /\ IsFiniteSet({"program"})
  BY FS_EmptySet, FS_Singleton
<1>2. Cardinality({"program"} \union {"iterator"}) = 2
  <2>1. "iterator" \notin {"program"}
    OBVIOUS
  <2>2. Cardinality({"program"} \union {"iterator"}) = Cardinality({"program"}) + 1
    BY <1>1, <2>1, FS_AddElement
  <2>3. QED
    BY <1>1, <2>2
<1>3. refs = Cardinality(users) /\ (users # {} <=> held \/ Uses)
  <2>1. CASE held /\ Uses
    <3>1. users = {"program"} \union {"iterator"}
      BY <2>1 DEF Uses
    <3>2. refs = 2
      BY <2>1 DEF IInv, Owned
    <3>3. QED
      BY <1>2, <2>1, <3>1, <3>2
  <2>2. CASE held /\ ~Uses
    <3>1. users = {"program"}
      BY <2>2 DEF Uses
    <3>2. refs = 1
      BY <2>2 DEF IInv, Owned
    <3>3. QED
      BY <1>1, <2>2, <3>1, <3>2
  <2>3. CASE ~held /\ Uses
    <3>1. users = {"iterator"}
      BY <2>3 DEF Uses
    <3>2. refs = 1
      BY <2>3 DEF IInv, Owned
    <3>3. QED
      BY <1>1, <2>3, <3>1, <3>2
  <2>4. CASE ~held /\ ~Uses
    <3>1. users = {}
      BY <2>4 DEF Uses
    <3>2. refs = 0
      BY <2>4 DEF IInv, Owned
    <3>3. QED
      BY <1>1, <2>4, <3>1, <3>2
  <2>5. QED
    BY <2>1, <2>2, <2>3, <2>4
<1>4. DOMAIN trees = (IF users # {} THEN {"decodetree"} ELSE {}) \union
                     (IF it.tree = "iterator" THEN {"iterator"} ELSE {})
  BY <1>3 DEF IInv, Owned
<1>5. QED
  BY <1>3, <1>4 DEF TreesOwned

\* A tree says what its code says.
LEMMA TreeSays ==
  ASSUME NEW tree, NEW code, TreeOf(tree, code)
  PROVE  LET n == IF DOMAIN code = {} THEN 1 ELSE MaxLen(code)
         IN  /\ ToDict(tree) = code /\ PrefixFree(code)
             /\ Complete(tree) <=>
                  \A w \in [1 .. n -> Bit] : \E s \in DOMAIN code : IsPrefix(code[s], w)
             /\ DOMAIN code # {} => NodesAsserted(tree)
<1> DEFINE n == IF DOMAIN code = {} THEN 1 ELSE MaxLen(code)
<1>1. CodeOK(code) /\ PrefixFree(code)
  BY DEF TreeOf, CodeOK
<1>2. n \in Nat \ {0} /\ \A s \in DOMAIN code : Len(code[s]) <= n
  <2>1. CASE DOMAIN code = {}
    <3>1. n = 1
      BY <2>1
    <3>2. QED
      BY <2>1, <3>1
  <2>2. CASE DOMAIN code # {}
    <3>1. n = MaxLen(code)
      BY <2>2
    <3>2. QED
      BY <1>1, <2>2, <3>1, LongestWord
  <2>3. QED
    BY <2>1, <2>2
<1> HIDE DEF n
<1>3. Complete(tree) <=>
        \A w \in [1 .. n -> Bit] : \E s \in DOMAIN code : IsPrefix(code[s], w)
  BY <1>2, CompleteRight
<1>4. QED
  BY <1>1, <1>3, ToDictRight, NodesRight DEF n

\* The next word of a tree in the making is refused if it has to be.
LEMMA NextRefused ==
  ASSUME IInv, making # NotMaking, NEW s \in making.todo, codedict[s] # <<>>
  PROVE  Ambiguous(making.tree, codedict[s])
           <=> ~PrefixFree(Extended(making.code, s, codedict[s]))
<1>1. InTheMaking
  BY DEF IInv, Making
<1>2. /\ TreeOf(making.tree, making.code) /\ s \notin DOMAIN making.code
      /\ codedict[s] \in Seq(Bit)
  BY <1>1 DEF IInv, InTheMaking, Types
<1>3. QED
  BY <1>2, AmbiguousRight

\* Decoding finds what was encoded.
LEMMA DecodedAsEncoded ==
  ASSUME IInv
  PROVE  DecodesWhatWasEncoded
<1> DEFINE code == trees[it.tree].code
           end  == Ends(written)
<1>1. SUFFICES ASSUME it # NoIter, it.faithful, written # Garbled,
                      \A k \in DOMAIN written :
                        written[k][1] \in DOMAIN code /\ code[written[k][1]] = written[k][2]
               PROVE  \E k \in 0 .. Len(written) :
                        /\ it.index = end[k]
                        /\ Found = IF k = Len(written) THEN [kind |-> "stop", index |-> it.index]
                                   ELSE [kind |-> "symbol", symbol |-> written[k + 1][1],
                                         index |-> end[k + 1]]
  BY DEF DecodesWhatWasEncoded
<1>2. Knows(code)
  BY <1>1 DEF Knows
<1>3. PICK E : /\ Marks(E, written, bits)
               /\ \E k \in 0 .. Len(written) :
                    /\ it.index = E[k]
                    /\ Found = IF k = Len(written) THEN [kind |-> "stop", index |-> it.index]
                               ELSE [kind |-> "symbol", symbol |-> written[k + 1][1],
                                     index |-> E[k + 1]]
  BY <1>1, <1>2, NextWord
<1>4. PICK k \in 0 .. Len(written) :
        /\ it.index = E[k]
        /\ Found = IF k = Len(written) THEN [kind |-> "stop", index |-> it.index]
                   ELSE [kind |-> "symbol", symbol |-> written[k + 1][1], index |-> E[k + 1]]
  BY <1>3
<1>5. written \in Seq(Item) /\ Len(written) \in Nat /\ bits \in Seq(Bit)
  BY <1>1, LenProperties DEF IInv, Marked, Types
<1>6. \A j \in 0 .. Len(written) : end[j] = E[j]
  BY <1>3, <1>5, EndsMarked
<1> HIDE DEF end
<1>7. it.index = end[k]
  BY <1>4, <1>6
<1>8. CASE k = Len(written)
  BY <1>4, <1>7, <1>8
<1>9. CASE k # Len(written)
  <2>1. k + 1 \in 0 .. Len(written)
    BY <1>5, <1>9
  <2>2. end[k + 1] = E[k + 1]
    BY <1>6, <2>1
  <2>3. QED
    BY <1>4, <1>7, <1>9, <2>2
<1>10. QED
  BY <1>8, <1>9

\* The variables keep their types, and the iterator its tree.
THEOREM CodesTyped == Spec => []TypeOK
<1>1. IInv => TypeOK
  <2>1. SUFFICES ASSUME IInv PROVE TypeOK
    OBVIOUS
  <2>2. refs \in 0 .. 2 /\ DOMAIN trees \subseteq Holders /\ (it # NoIter => it.tree \in DOMAIN trees)
    BY <2>1, IteratorTree DEF IInv, Owned, Holders
  <2>3. making = NotMaking \/ (making.for \in Holders /\ making.todo \subseteq DOMAIN codedict)
    BY <2>1 DEF IInv, Making, InTheMaking
  <2>4. QED
    BY <2>1, <2>2, <2>3 DEF IInv, Types, TypeOK
<1>2. QED
  BY <1>1, CodesInvariance, PTL

\* A tree is deleted when its last user goes, once, whichever goes first.
THEOREM TreesDeletedOnce == Spec => []TreesOwned
<1>1. IInv => TreesOwned
  BY UsersCounted
<1>2. QED
  BY <1>1, CodesInvariance, PTL

\* Trees say what the code words said when they were read, and refuse exactly
\* what would make the code ambiguous.
THEOREM TreesFaithful == Spec => []TreeMatchesCode
<1>1. IInv => TreeMatchesCode
  <2>1. SUFFICES ASSUME IInv PROVE TreeMatchesCode
    OBVIOUS
  <2>2. \A t \in DOMAIN trees : TreeOf(trees[t].tree, trees[t].code)
    BY <2>1 DEF IInv, TreesRight
  <2>3. making # NotMaking => TreeOf(making.tree, making.code)
    BY <2>1 DEF IInv, Making, InTheMaking
  <2>4. making # NotMaking =>
          \A s \in making.todo : codedict[s] # <<>> =>
            (Ambiguous(making.tree, codedict[s])
               <=> ~PrefixFree(Extended(making.code, s, codedict[s])))
    BY <2>1, NextRefused
  <2>5. QED
    BY <2>2, <2>3, <2>4, TreeSays DEF TreeMatchesCode
<1>2. QED
  BY <1>1, CodesInvariance, PTL

\* decode() undoes encode(), symbol by symbol, while encode() goes on and the
\* dict changes.
THEOREM DecodingUndoesEncoding == Spec => []DecodesWhatWasEncoded
<1>1. IInv => DecodesWhatWasEncoded
  BY DecodedAsEncoded
<1>2. QED
  BY <1>1, CodesInvariance, PTL
===============================================================================
