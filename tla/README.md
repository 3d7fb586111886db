# pauliebits: TLA+ models and proofs

pauliebits is a C extension for Python: arrays of bits that behave like lists,
share memory through the buffer protocol, come in two bit-endiannesses, and
encode strings of Pauli operators with two bits each.  This directory holds
TLA+ modules that model it, TLC configurations that check them on small
instances, and proofs, checked by TLAPS, that arrays which share memory stay
valid and behave like lists, that growing takes linear time, that subscripts select,
assign and delete the elements they should, that calls of threads are
atomic, that Pauli strings follow their algebra, and that decoding undoes encoding.

## The system

| Component | Source | State | Operations | Model |
|---|---|---|---|---|
| Size arithmetic, growth policy | `pauliebits.h` 64-68, `_pauliebits.c` 28-124 | `size`, `allocated` | `new_allocation`, `resize` | `Allocation`, `Growth` |
| Bit layout | `pauliebits.h` 52-162, `_pauliebits.c` 209-760, `_util.c` 166-250 | the bytes | `getbit`, `setbit`, `set_padbits`, `copy_n`, spans, byte reversal, counting, searching | `BitLayout` (what they do), `CopyBits`, `Spans` (how) |
| The object | `_pauliebits.c` 57-206, 1099-1143, 2224-2238, 5060-5223, 5391-5424; `__init__.py` | the C struct: length, size, allocation, endianness, exports, imported buffer, read-only flag | creation, buffer import and export, freezing, copying, pickling, destruction | `PaulieObject`, `PaulieBuffer` |
| Methods that resize or overwrite | `_pauliebits.c` 772-2500, 2763-3260 | the same | `append`, `insert`, `pop`, `extend`, `frombytes`, `pack`, `*=`, slices, `fill`, `reverse`, `rotate`, `sort`, bitwise operators and shifts, ... | `PaulieBuffer` |
| Subscripts | `pauliebits.h` 255-310, `_pauliebits.c` 481-560, 2500-3220 | the same | slices, masks and index sequences: reading, assigning, deleting, counting | `SliceIndices`, `Subscripts` |
| Pauli strings | `_pauliebits.c` 3581-4166 | none of its own | `encode_ixyz`, `decode_ixyz`, `commutes_with`, `phase`, `diagonal_index`, `not_identity_mask`, ... | `PauliString` |
| Free-threaded access | `Py_BEGIN_CRITICAL_SECTION` throughout | locks of objects, lengths read before | two-phase methods, `tofile`, `extend` | `AtomicCalls`, `ThreadedAccess` |
| Search | `_pauliebits.c` 619-760, 4765-4870 | iterator position | `find`, `search` | `Spans`, `ThreadedAccess` |
| Prefix codes | `_pauliebits.c` 3488-3580, 4165-4760 | dict of code words, binary tree and its owners, decoder position | `encode`, `decode`, `decodetree`, iterator | `BinaryTree`, `PrefixCodes` |
| Canonical Huffman codes | `_util.c` 2070-2255, `util.py` | heap of nodes, code tables, decoder position | `huffman_code`, `canonical_huffman`, `canonical_decode` | `BinaryTree`, `CanonicalHuffman` |
| Compressed formats | `_util.c` 1192-2068 | stream position, the array being made | `sc_encode`, `sc_decode`, `vl_encode`, `vl_decode` | `SparseCompression`, `VarLength`, `ArrayStreams`, `ArrayChannel` |
| Conversions | `_util.c` 560-1190, `_pauliebits.c`, `__init__.py` | none of its own | `serialize`, `deserialize`, pickling, hex, base 2^m, `byteswap` | `Conversions` |
| Operators, comparison, counts | `_pauliebits.c` 3260-3488, 5227-5300, `_util.c` 166-560 | none of its own | `&`, `\|`, `^`, `<<`, `>>`, `==`, `<`, `count_and`, `subset`, `parity`, `xor_indices`, ... | `WordOps`, `Spans` |

The components meet in one struct.  Methods call `resize()`, `insert_n()`,
`delete_n()` and `copy_n()`; importers hold a pointer into the exporter's
memory and are known to it by the number `ob_exports` alone; `readonly` is a
flag that each method has to look at for itself.  What is hard about this code
is not one method but their combination: a resize while others use the buffer,
a failure after the first half of a method, pad bits that hold anything and
become elements, two arrays over the same memory, and operations that work on
bytes where the elements lie in two possible orders.

What makes each component correct:

* growth: enough memory, not too much of it, and linear-time appends;
* object: consistent headers, no dangling pointers, exact export counts, shared
  buffers that stay, read-only memory that does not change, zero pad bits of
  frozen arrays;
* methods: list semantics, also for `a[i:j] = a` and over shared memory;
  failures that restore; no uninitialized elements;
* Pauli strings: the algebra of Pauli operators, whatever the pad bits and, where
  the documentation does not say otherwise, the endianness;
* bits: whatever the offsets, bit orders and alignment, word-wise code does what
  bit-wise code would, and stays within its buffers;
* subscripts: a slice, a mask and a list of indices that name the same elements
  select the same, and sources are read as they were, also over shared memory;
* free-threaded access: no index beyond the array, calls that are atomic, a
  search that is complete and ends although threads share its iterator;
* prefix codes: a tree says what the dict said when it was read, lives as long
  as somebody uses it, and yields the symbols that were encoded, wherever the
  decoder is interrupted and whatever happens to the array meanwhile;
* Huffman codes: as short as any prefix code; the table-driven decoder agrees
  with a walk down a tree for every table it accepts;
* formats: what one end writes the other reads, each decoder leaves the rest of
  the stream alone, and a malformed stream is an exception, never an access
  beyond what was allocated, nor a loop that does not end;
* conversions and operators: whole words and bytes do what elements would,
  whatever the pad bits; each conversion undoes its opposite.

## The modules

* `Allocation`: `BYTES`, `PADBITS` and `new_allocation()`.  The width of a byte
  is the parameter `ByteBits` everywhere, 8 in the program.
* `Growth`: `resize()` as a state machine over `size` and `allocated`, with an
  account (`credit`) into which callers pay 17 for each byte by which they
  change the size, and from which the bytes copied by `PyMem_Realloc()` are
  taken.
* `BitLayout`: a buffer is a function from cells to 0, 1 or `Undef` (memory
  that nobody has written).  Cell `c` is the bit of significance
  `c % ByteBits` of byte `c \div ByteBits`; `Pos` maps elements to cells in
  either endianness.  `copy_n()`, spans and byte reversal are given by what
  they do.
* `CopyBits`: how `copy_n()` does it, a state machine of one call: the moves of
  whole bytes, each word or byte of `shift_r8()`, the bits at both ends.  The
  content of a cell is symbolic (which cell of which array it came from), so
  that one behaviour stands for all contents.
* `Spans`: `invert_span()`, `set_span()`, `count_span()`, `find_bit()`, which
  call themselves for the ends of their ranges, and `find_sub()`,
  `count_sub()`, `sort()` and `count_n()` built on them, as recursive
  operators; one array to which they are applied.
* `PaulieObject`: the struct as a record (`Header`), and the primitives.  One
  that may fail is an operator that returns the set of its outcomes: the
  exception, the header and the buffer.  `Then` continues after success.
* `PaulieBuffer`: many objects.  `obj[o]` is the struct, `mem[o]` the memory
  that `o` allocated and that importers of `o` use too, `views[o]` counts
  memoryviews held outside.  One action per method, grouped as `Creation`,
  `Exporting`, `Resizing` and `InPlace`; each resizing method comes as the set
  of its outcomes (`Appended`, `Extended`, `SliceAssigned`, ...) and as the
  action (`Append`, `Extend`, `SetSlice`, ...) that takes one of them, so that
  properties can also speak of what a method would do.  Freezing has a step of
  its own, since `frozenpauliebits.__init__()` runs after `__new__()` and may
  fail.
* `SliceIndices`: the integer arithmetic of slices, with the width of
  `Py_ssize_t` (`adjust_step_positive()`, the loops of `invert_range()` and
  `set_range()`).
* `Subscripts`: an array and another that may lie over its memory at some
  offset, and one call of `a[key]`, `a[key] = b`, `del a[key]`, `invert(key)` or
  `count(v, slice)` at a time, in both builds (`GilDisabled`).
* `AtomicCalls`: what calls promise to threads that share an array: each happens
  at a single moment between its start and its return; what it returns belongs
  to one content the array had meanwhile; it raises `RuntimeError` only if the
  length changed.
* `ThreadedAccess`: how methods do it in critical sections, a step for each;
  `call[t]` holds what a thread carries from one to the next.  `CallsAtomic`
  states that `ThreadedAccess` implements `AtomicCalls` (without the GIL);
  `seen`, the contents since each call began, is part of both, so that the
  moment of a call can be chosen afterwards.  The search iterator, which
  threads share, is the variable `it`.
* `PauliString`: two arrays with any pad bits, the operations on Pauli strings,
  and the algebra they are compared with.  `commutes_with()` is modelled byte
  and word-wise: which cells it looks at, and the two parities.
* `WordOps`: the operators and shifts that work in words, the comparison of
  arrays (whole bytes first, if the bit-endianness is the same), and the counting
  functions of the util module, on two arrays that may overlap in memory.
* `Conversions`: `serialize()`, the reduced form of pickled arrays, texts of
  base 2^m digits with white space, and `byteswap()`, each with its opposite.
* `BinaryTree`: a tree as a function from paths to symbols: insertion, which
  refuses a code word that is ambiguous, and the walk of the decoder.
* `PrefixCodes`: a dict whose code words (arrays) may change, the tree made of it
  one item at a time, the `decodetree` object and the iterator which share a
  tree by reference counts, `encode()` with one step for each symbol, and the
  decoder, interrupted after each symbol.
* `CanonicalHuffman`: the heap of `huffman_code()` as a set of nodes from which
  the two least frequent are taken (any two, if several are), the tables of
  `canonical_huffman()`, and the iterator `canonical_decode()`, which gets
  these tables or any others that it accepts.
* `SparseCompression`, `VarLength`: an encoder and a decoder each, as
  operators that give what they are after the next block or byte.
* `ArrayStreams`: a program that writes arrays to a stream in both formats and
  reads them back; the stream may lose its end, one of its bytes may become
  another, or an array be read in the wrong format.
* `ArrayChannel`: what such a stream promises, a queue of arrays.  `ChannelSpec`
  states that `ArrayStreams` implements it: `queue` are the arrays `sent`,
  and the encoder's and decoder's steps between are stutters.
* `BitsProofs` (about `Growth` and `CopyBits`), `PaulieBufferProofs`,
  `SubscriptsProofs`, `ThreadedAccessProofs`, `PauliStringProofs`,
  `PrefixCodesProofs`: the theorems; `BitLayoutProofs` and `InductionLemmas`:
  lemmas that they rest on.
* `MC*`: the instances for TLC.  `MCBits` holds the modules about single calls
  (`Growth`, `CopyBits`, `PauliString`), `MCRanges` those about parts of an array
  (`Subscripts`, `Spans`) and `MCDecoders` those about whole arrays and
  what they are turned into (`PrefixCodes`, `CanonicalHuffman`, `ArrayStreams`,
  `WordOps`, `Conversions`).  These do not interact: the variable `part` says which one a
  behaviour is about, and the variables of the others do not change.

Definitions introduced as "a slip" are deliberately wrong variants of the
definition that follows.  They are not used in any specification: putting one
in the place of the right one must break the property named beside it in
`PROJECT.json`, which shows that the property can fail.

### Abstractions

* Except in `ThreadedAccess` and `PrefixCodes` (below), and for the iterators of
  `CanonicalHuffman` and `ArrayStreams`, methods are atomic.  Under the GIL this
  is what the program does, except where a method calls back into Python (items with
  `__index__`, iterators); in the free-threaded build it is what one critical
  section does.  `ThreadedAccess` has these steps and sees arrays as lists; that
  another thread runs between two steps of a method covers Python code that the
  method calls and that uses the same array.
* `ThreadedAccess` has one method for each way of going back to an array:
  `tolist()` for `to01()`, `unpack()`, `repr()` and `serialize()`; `append()`
  and `pop()` for methods of one section.  The pad bits that `tofile()` writes,
  and failing allocations, are left out there.
* Addresses are names: memory is named after the object that allocated it.
  That a reallocation may move a block is covered by `ImportsValid`, which
  demands that nobody uses a block that could have moved.
* Memory that `realloc` adds is `Undef`; where bytes are read as such (buffer
  protocol, `frombytes`, `bytereverse`) an `Undef` becomes any bit (`Exposed`),
  and that value stays.
* Exceptions are strings; only `None` is told from the others.
* `NewFromIndex` covers creation from an integer and from bytes and strings: any
  content, zeros among them.  `Reconstruct` loads a pickle of any content, since
  a pickle may be kept and loaded at any time.
* `fromfile()` is `frombytes()` for one block after the other.
* In `PrefixCodes`, one step of `encode()` is one symbol and one step of
  making a tree is one item of the dict: this is where other threads (in the
  free-threaded build) or the iterable of symbols may interfere.
* In `ArrayStreams`, an item that is not a byte, and an iterator that raises, are
  an end of the stream: the decoder stops with an exception in the same
  place.  Allocations do not fail there.  The width of a byte is a parameter,
  but the heads of sparse blocks are numbered as in the program; where the
  program has sizes of its own (the allocation of the encoder, the number of
  segments of a raw block), `StreamAssumption` states what it relies on.
* In `Conversions` a text consists of digits, white space and other characters;
  which character stands for which digit is left out.
* `FailedSequence` is a sequence with any number of items before the bad one.
  `FailedIter` is an iterator whose first item is bad; one whose later item is
  bad has appended the items before in the same way and takes them back with
  the same `resize(self, nbits)`.

## The runs

| Run | Bounds | Shows |
|---|---|---|
| `buffers` | 3 objects, bytes of 2 bits, 1 byte each, 1 memoryview per object, reallocation may fail | `TypeOK`, `CheckObj`, `ImportsValid`, `ExportsCounted`, `FrozenPadsZero`, `SharedBufferPinned`, `ReadonlyImmutable` |
| `lists` | 2 objects, 2 bytes of 2 bits each, both endiannesses, read-only views too | `ListSemantics`, `CopiesDisjoint`, `FailedExtendRestores`, `NoGarbage` |
| `bits` | growth: sizes up to 200 bytes, credit up to 401; `copy_n()`: 5 bytes of 4 bits, words of 2 bytes, any address; Pauli strings: two arrays of 0 to 10 bits in bytes of 4, words of 2 bytes, at most 2 bits set, pad bits included, all endiannesses | memory in proportion, linear copying (`WasteBounded`, `CopyingAmortized`); bits copied within bounds (`CopyCorrect`, `AccessesInBounds`); the operations on Pauli strings agree with the algebra (`CommutesMasked`, `PhaseCorrect`, `StringsAgree`) |
| `subscripts` | 8 bits in bytes of 2, steps up to 4, 2 indices, masks of up to 5 bits, free-threaded build; spans: up to 9 bits in bytes of 2, words of 2 bytes, blocks of 2 words | slices, masks and sequences select the same; sources are read as they were (`SlicesVisited`, `SourcesReadFirst`, `DeletesWhatItGets`, `MaskLikeSequence`); words do what elements would (`SpansExact`, `SearchesExact`) |
| `threads` | 2 threads, 3 calls, arrays of 0, 2 and 4 elements at first, blocks of 2 | `AccessesValid`, `CallsAtomic` (implements `AtomicCalls`), `SearchComplete`, `CallsReturn` |
| `decoders` | codes of 3 symbols, words of up to 3 bits, an array of up to 4, 1 change of a word; Huffman: 6 frequency maps of up to 5 symbols, decoded words of up to 3 bits; sparse format: bytes of 2 bits, 5 raw segments, 3 types of blocks, arrays of up to 68 bits; variable length: bytes of 4 bits; 2 arrays in the stream; operators: two arrays of 3 to 5 bits in 4 bytes of 2, words of 2 bytes; conversions: 2 bytes of 4 bits, digits of 1 to 3 bits, texts of up to 3 characters | `TypesOK`; trees deleted once and faithful to the dict (`TreesOwned`, `TreeMatchesCode`); `DecodesWhatWasEncoded`; `HuffmanOptimal`, `CanonicalAgrees`; no access beyond what is allocated (`EncodeFits`, `DecodedFits`); `ChannelSpec` (implements `ArrayChannel`); every call ends (`CallsEnd`); words do what elements would (`WordsExact`); conversions and their opposites (`ConversionsInverse`) |
| `mask_writable`, `commutes_tail`, `diagonal_little`, `slice_overflow`, `mask_moves`, `extend_interrupted` | at most those of the run that checks the same module, integers aside | disagreements of the code with its documentation and assertions, below |

Why the bounds are enough.  Three objects make a chain of imports (an array
that imports from one that imports) together with one that fails to be frozen.
Bytes of two bits have pad bits, both bit orders and a byte boundary; with two
bytes the tail of a slice crosses it.  Of the allocation policy only the first
steps occur in so small buffers, which is why `Growth` is checked by itself (in `bits`), up
to a size at which an overallocation that is not proportional fails.

In `bits`, five bytes hold a part before the first aligned address, two words
and a rest; four bits per byte tell a shift to one side from one to the other.
Pauli strings of three bytes and words of two make one word
with a rest, as twelve bytes do in the program; bytes of four bits are left
half full by a single operator.  All operations are sums or products over
pairs of positions, so that two set bits in each array show how any two
positions act together.  In
`subscripts`, eight bits leave room for slices of any step with more than two
elements, and runs of three elements to be moved (`delslice()` has another loop
for steps from 4 on).  For the spans, nine bits in bytes of two hold a block of two
words and a rest for `count_n()`, and any part of `count_span()` and `find_bit()`
may be empty or not.  In `threads`, two calls that change the array may run
within one of the other thread, so that its length may change and change back;
four elements make two blocks.

In `decoders`, three symbols make a tree with inner nodes on two levels and
with a free place, a code that is ambiguous until it is changed, and arrays that
end in the middle of a code word.  One change of a code word separates a tree
from the dict it was made of.  Of the frequency maps, one holds a zero and
gives code words longer than `CodeBits`, one gives code words of exactly that
length, one has equal frequencies only, and the others have no, one or two
symbols.  The tables that `canonical_decode()` is given besides are all that it
accepts.  A byte of two bits makes segments of two bytes, so that arrays of up to 68 bits have every type of block, raw and
sparse, after one another; the array `Filling` begins a full raw block where
the allocation leaves room for no more than it.  A stream of two arrays shows
whether a decoder stops at the right byte.  For `WordsExact`, three to five bits are one word, or a word with a rest, and four bytes hold two arrays
with every overlap.

`MaxItems`, `MaxViews`, `MaxLength`, `MaxSize`, `MaxCredit`, `MaxIndices`,
`MaxMask`, `MaxStep`, `MaxSub`, `MaxOnes`, `MaxCalls`, `MaxChanges`, `MaxQueue`,
`MaxText`, `MaxBits` and `ArrayBits`, and the sets of lengths and contents, bound
the callers, not the code; `MaxMemory` is the longest array that the memory of
the decoding machine has room for; `Fits` keeps arrays within `MaxBytes`.
`Pickling` is `FALSE` in `lists`, where pickles would only be more initial contents.

`CHECK_DEADLOCK FALSE` is for states with no object of any use left, or after
the last call, when a code has a word too long to be decoded, or an array cannot
be extended within the bounds; methods are calls of a library, and nobody has to
call.

Fairness is assumed in two modules.  In `ThreadedAccess`: weak fairness of the
steps of each thread that has begun a call, as the operating system schedules
every thread and critical sections are short and never wait for one another.
Nobody has to begin a call.  `CallsReturn` is then a claim about the search
iterator above all: a slow thread sets it back to a position already passed, and a
loop that others keep setting back must end nevertheless.  In `ArrayStreams`: weak
fairness of the next step of an encoder or decoder that has been called, a loop
of C code that waits for nobody.  `CallsEnd` is a claim about damaged streams: a
block of no length, or a first byte that announces too much, must not keep a
decoder going.  The other modules assume no fairness and claim no liveness.

### Disagreements found

* `not_identity_mask()` of a `frozenpauliebits` returns one with writable
  memory (run `mask_writable`); the test suite's `check_obj()` asserts that
  there are none.
* `commutes_with()` counts pad bits if the last byte completes a word (run
  `commutes_tail`).  It also masks the wrong end of the last byte of
  little-endian arrays.  `CommutesMasked` shows that the result is right in all
  other cases, for arrays of the same endianness.
* `diagonal_index()` of a little-endian array takes the first odd bit as the most
  significant one, as in a big-endian array (run `diagonal_little`).  `README.rst`
  gives it as `ba2int(bits_odd)`, and `ba2int()` respects the bit-endianness: for
  the little-endian array `0100`, "ZI", the method returns 2, and `ba2int(bits_odd)` is
  1.  Of little-endian arrays `StringsAgree` therefore says only that the index is -1
  if the string is not diagonal.  (For an empty array the method returns 0, where
  `ba2int()` raises; neither property is about this.)
* With steps near the ends of the integer range, slices make the index of a loop
  overflow, so that it leaves the array (run `slice_overflow`).
* `a[mask] = b` in the build with the GIL reads a mask that it overwrites, if the
  mask shares memory with `a` at another offset; the assertion at the end of the
  loop fails (run `mask_moves`).  Nor does that build copy a `b` that shares
  memory, as the free-threaded build does; `MaskLikeSequence` is therefore
  checked for the latter.
* In the build with the GIL, `extend()` stores an item at an index computed
  before the item was converted; if the conversion runs Python code that takes
  elements from the array, the index is beyond its end (run
  `extend_interrupted`).

Known limits that no run shows:

* `encode_ixyz()` sets the endianness of an existing array, which
  `doc/endianness.rst` says cannot be changed (`TypeOK` of `PaulieBuffer` allows
  it).
* A `frozenpauliebits` that imports a read-only view of a writable array changes
  when that array does, which is why `buffers` has no read-only views of writable
  memory (`ReadonlyViews = FALSE`): `ReadonlyImmutable` shows that this is the only
  way.
* A plain array that is loaded from the pickle of a read-only one is read-only,
  although it imports nothing (`test_readonly()` expects it); `check_obj()` says
  of such an array that it is writable.  `HeaderOK` follows the former.
* In the free-threaded build a dict that is emptied after `check_codedict()` and
  before the tree is made gives a tree without symbols, which `TreeMatchesCode`
  excepts.
* `canonical_huffman()` may return code words longer than 31 bits, which
  `canonical_decode()` refuses, although its documentation says that the
  tables may be used as input.  A `count[31]` of 2^31 is taken for a negative number
  (`CanonicalAgrees` excludes it).
* `a &= b` with a `b` over the same memory at a lower address reads bytes that have
  already been combined (`WordsExact` excludes it).
* A decoder of a stream that raises has consumed the bytes up to there.
* `deserialize()` takes the head and the data in two critical sections, and
  `serialize()` raises if the array has changed its size between its own;
  neither is modelled with other threads.

## The proofs

All are checked by TLAPS, for every value of the constants allowed by the named
assumptions of the modules: `ByteBitsAssumption`, `MaxBytesAssumption`,
`UndefAssumption`, `ObjectsAssumption`, `CallersAssumption`, `GrowthAssumption`,
`WordAssumption`, `StringAssumption`, `ArgumentsAssumption`, `CodesAssumption`,
`MaxIntAssumption` and `SubscriptsAssumption`.  TLC evaluates them for its instances, as
it does for `RangesAssumption` (of `MCRanges`, about the words of `Spans`) and
`StreamAssumption` of modules without proofs.  They say that a byte has at
least one bit (an even number for Pauli strings, which have two bits for each
operator), that words are whole bytes and a multiple of their alignment, that lengths, counts and items are what their types say (dicts are
finite, code words consist of bits), that bounds
on what callers do leave room for it, and that
names which stand for nothing (`Undef`, `NoObject`, `Inner`) are none of the things.
Some theorems have a hypothesis besides, each with a reason in the code:

* `ElementsClean` and `FailuresRestore` assume that allocations succeed
  (`~AllocFails`).  After a `MemoryError` in the middle of `extend_iter()` the
  array is set back with `resize(self, nbits)`, whose own failure is ignored
  (`_pauliebits.c:800`): then elements remain that nobody has written.
* `ReadonlyStays` assumes that no read-only memoryview of a writable array is
  passed on (`~ReadonlyViews`): its owner may change what the importer sees.
* The theorems about threads assume the build without the GIL (`GilDisabled`), and so does
  `MasksAreLikeSequences`: the other build does not copy what `a[mask] = b` reads.
* The theorems about subscripts assume that the end of an array plus a step is still an
  integer (`NoOverflow`).  Otherwise they are false: run `slice_overflow`.

### Single functions

`BitLayoutProofs`: the arithmetic of bytes, pad bits and `new_allocation()`; `Pos` maps the elements of an array one to one to cells, in
both endiannesses (`PosInvolution`, `PosRange`), and pad cells are the other cells
of its bytes; from this, what `copy_n()`, spans and byte reversal leave in every element.

`InductionLemmas`: `SetInduction`, induction over the natural numbers for a *set*
of numbers, as library theorems that take an operator are of no use to the
installed provers.  It follows from the well-foundedness of the order of the
natural numbers.  With it what loops compute is proved after all, as long as
they are recursive functions and not recursive operators.

### Growth

`BitsProofs`: `BoundedWaste` and `AmortizedCopying`.  The inductive invariant is
`GrowthInv`; its conjunct `Saved`
says that the account can pay for copying the whole allocation by the time the
size has left the range `allocated \div 2 .. allocated` through either end.

### Copying bits

`BitsProofs`: `CopiesExactly` and `CopyStaysInBounds`, for bytes and words of any
width, any alignment, and every call of `copy_n()`, within one array or between
two.  The inductive invariant is `CopyInv` (`CopyInvariant`).  `CopyCorrect` speaks of
the end only; what is needed is what memory holds while the shift is under way:

* All is said of elements, not of cells: `Pos` turns both bit orders into one, in
  which `shift_r8le()` and `shift_r8be()` are the same shift upwards (`RankFacts`,
  `ShiftBlockAt`, `AddCarryAt`, `ShiftUnitAt`), and reversing bytes in `memmove()`ed
  memory makes elements of one bit order those of the other (`MoveAt`).
* `MovedTo` is what the elements are after `memmove()`.  `ShiftedTo` says that all
  above some byte `top` has been shifted, nothing below it, and whether
  byte `top` still lacks the bits from the byte below.  The units that are left
  to do are a `Chain`: each begins where the last has ended, and the last ends at
  byte `p1`.  `ShiftStep` brings `ShiftedTo` down by one unit;
  `PartUnitsFacts` proves that what `shift_r8()` does, split at the first aligned
  address, is such a chain within `p1 .. p2`, of aligned words.  That a carry comes
  after the shift of its byte, and that the byte below has not been shifted by
  then, is what makes it right.
* When no unit is left, the elements from `a + sb` on are in place, and those around
  them are put back from `t1` and `t2` (`RestoreAt`); the first `sb` come
  from `t3`, which was read before anything moved (`EndsFill`), so that it does not
  matter how the parts overlap.

`OutsideUntouched` reads the last part of `AccessesInBounds` off the invariant.

### Arrays that share memory

`PaulieBufferProofs`: `HeadersConsistent`, `MemoryProportionate` (what `Growth` says
of the waste, for every array among others), `NoDanglingBuffers`, `ExportsExact`,
`BuffersPinned`.  The argument: every method changes the header of one array,
and only by an evolution (`Evolves`), which keeps the header consistent and, if
the buffer is pinned by an export or import, keeps its place and size.  The
lemmas `...Evolves` show this of the outcomes of each method, failed ones
included; a method that works in place (`InPlaceStep`: operators, shifts,
sorting, ...) changes no header at all; `EndsPreserves` then shows once that evolutions preserve the
inductive invariant `IInv`.  The steps that create, freeze, release and destroy
have a lemma each.  `IInv` adds to the properties proved: an unused identity is
blank and unreferenced (otherwise a new object could find importers), an object
not yet initialized is frozen and unshared (otherwise its failure would leave
users behind), the importers of an array are finitely many (so that counting
them makes sense), and imports form chains without cycles that end at the
allocator (otherwise destroying an array could leave somebody with its memory
whose import is not a direct one).

`TypeCorrect`, `FrozenPads`, `ElementsClean`, `CopiesApart`, `ReadonlyStays`,
`ArraysAreLists`, `FailuresRestore` (in the same module) are about what is in the
buffers.  The invariant is `IInv /\ CInv`, and `CInv` consists of

* `Sharing`: an importer has the memory of the array it imports from, is read-only
  if that is, and nothing but the initializer makes a new array read-only.
  It is needed since `FrozenPadsZero` is about an array whose memory others
  may write: `SharedMemory` concludes that two arrays with the same memory are both
  pinned and of one size, so that what one does to the memory is known to the other.
* `Sound`: every array finds in its memory a bit or `Undef` in each cell of its
  size, zeros in the pad bits if it is frozen, and, if allocations
  succeed, a bit in each element (`Ready`).

Methods that may resize have a lemma `...Content` that says which elements each
outcome has and that it leaves the array `Sound`; those that work in place have
`...Spared`, by which they turn no element into garbage.
`...IsSpliced` and `...IsJoined` compare the former with the lists of `ListSemantics`.  That `copy_n()` is called for disjoint buffers only (`CopiesApart`) is
because `extend()` and slice assignment refuse to resize an array that shares its memory.

### Subscripts

`SubscriptsProofs`: `SlicesAreVisited`, `SourcesAreReadFirst`, `DeletedIsWhatIsGot`,
`MasksAreLikeSequences`, for arrays of any length, any contents, and arrays given
beside them that lie over the same memory anywhere; and `IndicesInBounds`: what run
`slice_overflow` refutes holds as long as nothing overflows.  The invariant `IInv` is short
(the array lies in the exported buffer, whose elements are bits); the work is in the
loops:

* An adjusted slice has as many elements as lie between its bounds (`Regular`),
  `adjust_step_positive()` turns it round without leaving the integers
  (`TurnedRound`), and the upward loops meet its elements and stop (`VisitedElements`);
  the elements are as many as the length says (`ElementsBijection`), so that counting the
  zeros by subtraction is right.
* Deleting: before turn `i` of each of the loops the elements below `i` that stay have
  moved down to their ranks among those that stay, and nothing above has changed
  (`Moved`).  Element by element, in runs of `step - 1`, or with a mask: each
  algorithm keeps this (`ElementsMove`, `RunsMove`, `DelLoopMoves`), and `DeletedN`
  moves what is behind the last one.  `MovedUnique` then says that they leave the same
  memory.
* Assigning: a source that does not overlap, or a copy, is `Steady`: whatever the loop
  writes, it reads what was there before (`SourceSteady`, from the bytes that
  `buffers_overlap()` compares).  By induction element `i` holds the
  bit of the last index that names it (`IndexLoopWrites`).
* Masks: `a[mask] = b` reads bit `Rank(Ones(mask), i)` of `b` for element `i`, and a
  mask that is `a` itself reads only cells that have not been written (`SetLoopWrites`).

That each loop, a recursive function, exists at all is `LoopExists` of `InductionLemmas`.

### Threads

`ThreadedAccessProofs`: `SearchSafe`, `AccessesSafe` and `CallsAreAtomic`, the
refinement: `ThreadedAccess` implements `AtomicCalls` for any number of
threads, any arguments and contents.  The invariant `IInv` has a part for each
thread: `Control` (what a call carries is what its step expects: a length or an
index that it has read, blocks already copied), `Writing` (what it has written and will
write) and `Extended` (the elements of its own that an `extend()` has
appended), and `SearchInv` for the iterator: as long as nobody has changed the array,
every occurrence not found yet is ahead of the iterator, and ahead of every
thread that has read it, however often the others set it back.
For the refinement each step is mapped to a
step of `AtomicCalls` or to none.  `seen` carries the contents that the
array had since a call began, so that a call that returns can be shown to have a
moment at which it took place; the contents `seen` never decrease within
a call, and a result that has been read in one section belongs to the content of
that moment.  What is proved is the implication of the safety parts.

### Pauli strings

`PauliStringProofs`: `PhasesRight`, `CommutationRight`, `OperatorsRight`.  The
arrays do not change, so that the invariant is their type (`ArraysTyped`), and the
work is in the algorithms:

* `phase()` counts products position by position and takes the difference modulo
  4; each position contributes what the product of its two operators does,
  and `Tally` sums both sides at once.
* `commutes_with()` looks at cells of whole bytes and words; the cells that it
  compares are in bijection with the pairs of elements (`BigCells`, `EvenCells`,
  `PairCells`), the pad bits apart, which the guard of the property excludes; the
  parity of a sum of two bits is the parity of a symmetric difference.
* Encoding undoes decoding, element by element.  Indices are numbers of a
  base: the recursive function `Number` exists and is unique (`Recurrence`, from
  `SetInduction`), lies below the power of the base, and its digits are what was
  put in (`BinaryDigits`): where a big-endian diagonal string has its Z.

### Prefix codes

`PrefixCodesProofs`: `TreesDeletedOnce`, `TreesFaithful`, `DecodingUndoesEncoding`, for
any dicts, arrays and sequences of calls.  `CodesInvariance` is the inductive
invariant `IInv`; besides the types it has

* `TreesRight`, and in `InTheMaking` the same for a tree that is not ready:
  `TreeOf`, the nodes are exactly the prefixes of the code words, and each
  symbol is where its code word ends.  From this follows what `Ambiguous`,
  `ToDict`, `Complete` and `NodesAsserted` give (`TreeSays`), and that the
  walk ends at the end of a code word (`TreeMatchesCode` alone is not inductive: it
  does not say that the inner nodes are the prefixes of code words, on which
  the next insertion depends).
* `Owned`: `refs` is one for the `decodetree` object and one for the iterator,
  and a tree exists exactly if it has a user; `InTheMaking`: who waits for a tree
  has none, so that finishing it cannot replace a tree in use.
* `Marked`: the array consists of the code words written, whose ends are the
  partial sums of their lengths, unless it was overwritten; `Between`: an
  iterator whose tree knows these words stands at one of these ends.  The sums
  that the property computes, a recursive function, are the marks by
  `SetInduction`.

Words that `encode()` appends may be unknown to an older tree, and words may
leave the dict: then nothing is claimed of that iterator, in the proof as in the
run.

### Only model-checked

Huffman codes, the compressed formats with the implementation of
`ArrayChannel`; how spans, word operations and conversions do what `BitLayout` says
(runs `subscripts` and `decoders`).  Out of reach of the prover: liveness (`CallsReturn`,
`CallsEnd`), and modules with recursive operators (`Spans`, `WordOps`, and what
uses them).

## Plan

In this order; what is listed first matters most.

1. *Done*: `Allocation`, `Growth`, `BitLayout`, `PaulieObject`, `PaulieBuffer`,
   `PauliString`, and the proofs above.
2. *Done*: `CopyBits`, `Spans`: the byte- and word-wise algorithms against
   `BitLayout`.
3. *Done*: `SliceIndices`, `Subscripts`: extended slices, masks and index
   sequences, with sources that share memory, in both builds.
4. *Done*: `ThreadedAccess`, and `AtomicCalls`, which it implements.
5. *Done*: `BinaryTree`, `PrefixCodes`, `CanonicalHuffman`: the trees, the
   decoders and their iterators, which stop in the middle and go on later.
6. *Done*: `VarLength`, `SparseCompression`, `ArrayStreams` and `ArrayChannel`;
   `Conversions`, `WordOps`: round trips and malformed streams.
7. *Done*: bitwise operators, shifts in place, sorting, rotation and `pack()` as
   actions of `PaulieBuffer`.
8. *Done*: the proofs above: buffers and their contents, threads and their
   refinement, subscripts, Pauli strings, prefix codes, growth, `copy_n()`.
9. To come: proofs about the compressed formats (the arithmetic of `EncodeFits`, and
   that `ArrayStreams` implements `ArrayChannel`); `PaulieBuffer` implements `Growth`
   array by array.

## Not modelled

* `pythoncapi_compat.h` is third-party code.
* Random arrays, primes and pretty printing (`util.py`): no state, and nothing a
  small model would tell.
* Argument parsing, type tables, module initialization, attributes that only
  read, documentation and examples.
* `ba2int()` and `int2ba()` as such, which are Python's own integers between
  conversions of bytes; modelled are the canonical code words that `int2ba()` makes,
  and the value of `ba2int()` with which `diagonal_index()` is compared.  And
  `sum_indices()`, which adds results of `ssqi()` in Python.
* Operations on Pauli strings under concurrency: they take no critical section,
  and what a race leaves is undefined.
* `a[mask] = bit`, which raises `NotImplementedError`, and other exceptions about
  the type or number of arguments, which change nothing.
