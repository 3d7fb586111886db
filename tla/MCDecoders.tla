------------------------------ MODULE MCDecoders ------------------------------
(***************************************************************************)
(* Instances for the model checker of the modules about whole arrays and   *)
(* what they are turned into: prefix codes and their trees, Huffman codes, *)
(* streams of compressed arrays, operations by words, and conversions to   *)
(* bytes and text.  A behaviour begins with one of them and leaves the     *)
(* others as they are.                                                     *)
(***************************************************************************)
EXTENDS PrefixCodes, ArrayStreams

CONSTANTS
  Frequencies, CodeBits, ArrayBits, ArrayLengths,
  Undef, WordBytes, WordLengths,                \* of WordOps
  WordMaxBytes, TextMaxBytes, TextByteBits,     \* sizes of buffers and bytes
  DigitBits, TextLengths, MaxText, Space, Other

VARIABLES
  part,
  freq, forest, tables, decoder, array,     \* of CanonicalHuffman
  w,                                        \* of WordOps
  t                                         \* of Conversions

H == INSTANCE CanonicalHuffman WITH bits <- array
W == INSTANCE WordOps WITH MaxBytes <- WordMaxBytes
T == INSTANCE Conversions WITH ByteBits <- TextByteBits, MaxBytes <- TextMaxBytes

-------------------------------------------------------------------------------
MCWords == {<<>>, <<0>>, <<1, 0>>, <<1, 1>>}

\* The second one is ambiguous, until a word of it is changed or deleted.
MCCodes == {("a" :> <<0>>) @@ ("b" :> <<1, 0>>) @@ ("c" :> <<1, 1, 0>>),
            ("a" :> <<1, 1>>) @@ ("b" :> <<0>>) @@ ("c" :> <<1>>)}

MCOverwrites == {<<>>, <<0>>, <<1>>, <<1, 1, 0>>, <<1, 1, 1>>, <<0, 1, 1, 1>>}

MCFrequencies ==
  {<<>>, <<2>>, <<2, 5>>, <<1, 1, 2, 3>>, <<1, 0, 2, 3, 6>>, <<1, 1, 1, 1, 1>>}

Arr(E, B)  == {[endian |-> e, bits |-> b] : e \in E, b \in B}
Ones(n, I) == [i \in 1 .. n |-> IF i \in I THEN 1 ELSE 0]

\* Arrays of all contents in few bytes; with one or two ones far apart, for sparse
\* blocks of each type; with dense segments and gaps between them; and one of
\* which a full raw block begins just where the allocation is used up but for it.
Short   == BoundedSeq(Bit, 6)
Sparse  == {Ones(n, {i, j}) : n \in {17, 34, 68}, i \in 1 .. 20,
                              j \in {1, 16, 17, 33, 40, 64, 65, 68}}
Dense   == {Ones(n, (1 .. 25) \ gap) : n \in {21, 25},
                              gap \in {{}, 1 .. 4, 9 .. 12, 5 .. 7, 21 .. 23}}
Filling == Ones(40, {5, 9, 13, 17} \union 21 .. 40)

MCArrays == Arr({0, 1}, Short \union Dense) \union Arr({0}, Sparse \union {Filling})
MCSmall  == Arr({0}, BoundedSeq(Bit, 2)) \union Arr({1}, {<<1, 0, 0, 0, 0>>, <<1, 0, 1, 0, 1, 0>>})

-------------------------------------------------------------------------------
CodesIdle ==
  /\ codedict = <<>> /\ changes = 0 /\ making = NotMaking
  /\ trees = <<>> /\ held = FALSE /\ refs = 0
  /\ bits = <<>> /\ written = <<>> /\ it = NoIter

HuffmanIdle ==
  /\ freq = <<>> /\ forest = {} /\ array = <<>>
  /\ tables = H!NoTables /\ decoder = H!NoDecoder

ArraysIdle == w = <<>> /\ t = <<>>

MCInit ==
  /\ SInit
  /\ \/ part = "codes" /\ Init /\ HuffmanIdle /\ ArraysIdle
     \/ part = "huffman" /\ H!Init /\ CodesIdle /\ ArraysIdle
     \/ part = "streams" /\ CodesIdle /\ HuffmanIdle /\ ArraysIdle
     \/ part = "words" /\ CodesIdle /\ HuffmanIdle /\ W!Init /\ t = <<>>
     \/ part = "texts" /\ CodesIdle /\ HuffmanIdle /\ w = <<>> /\ T!Init

hvars == <<freq, forest, tables, decoder, array>>

CodesNext   == part = "codes" /\ Next /\ UNCHANGED <<part, hvars, svars, w, t>>
HuffmanNext == part = "huffman" /\ H!Next /\ UNCHANGED <<part, vars, svars, w, t>>
StreamsNext == part = "streams" /\ SNext /\ UNCHANGED <<part, vars, hvars, w, t>>
WordsNext   == part = "words" /\ W!Next /\ UNCHANGED <<part, vars, svars, hvars, t>>
TextsNext   == part = "texts" /\ T!Next /\ UNCHANGED <<part, vars, svars, hvars, w>>

MCNext == CodesNext \/ HuffmanNext \/ StreamsNext \/ WordsNext \/ TextsNext

MCSpec == /\ MCInit /\ [][MCNext]_<<part, svars, vars, hvars, w, t>>
          /\ WF_svars(part = "streams" /\ Step /\ UNCHANGED <<part, vars, hvars, w, t>>)

-------------------------------------------------------------------------------
\* The states of the three modules are of the right type.
TypesOK == TypeOK /\ STypeOK /\ H!TypeOK

\* huffman_code() is a complete prefix code and as short as any, and
\* canonical_huffman() has its lengths.
HuffmanOptimal == part = "huffman" => H!HuffmanOptimal

\* canonical_decode() finds by its tables what a walk down a tree would, whatever the
\* counts it was given, and never leaves its table of symbols.
CanonicalAgrees == part = "huffman" => H!CanonicalAgrees
\* Operators, shifts and counts by words are those of the elements.
WordsExact == part = "words" => W!WordsExact

\* Each conversion to bytes or text undoes its opposite.
ConversionsInverse == part = "texts" => T!ConversionsInverse
===============================================================================
