------------------------------- MODULE MCRanges -------------------------------
(***************************************************************************)
(* Instances for the model checker of the modules about parts of an array: *)
(* Subscripts, the elements that a slice, a mask or indices select, and    *)
(* Spans, those between two indices.  A behaviour begins with one of them  *)
(* and leaves the other as it is.                                          *)
(***************************************************************************)
EXTENDS MCSubscripts

CONSTANTS MaxBytes, Undef, WordBytes, BlockWords, Alignment, MaxBits, MaxSub  \* of Spans

VARIABLES part, x

S == INSTANCE Spans

ASSUME RangesAssumption == S!SpanConstants

-------------------------------------------------------------------------------
NoArray == [nbits |-> 0]

\* All calls have been made.
NoCall == self = Shared(0, 0, FALSE) /\ mem = (CHOOSE m \in Contents : TRUE) /\ calls = MaxCalls

MCInit ==
  \/ part = "subscripts" /\ Init /\ x = NoArray
  \/ part = "spans" /\ NoCall /\ S!Init

SubscriptsNext == part = "subscripts" /\ Next /\ UNCHANGED <<part, x>>
SpansNext      == part = "spans" /\ S!Next /\ UNCHANGED <<part, vars>>

MCNext == SubscriptsNext \/ SpansNext

MCSpec == MCInit /\ [][MCNext]_<<part, vars, x>>

-------------------------------------------------------------------------------
\* Setting, inverting and counting a range are about its elements and nothing else.
SpansExact == part = "spans" => S!SpansExact

\* find_bit(), count_n() and count() find what there is, although they skip words.
SearchesExact == part = "spans" => S!SearchesExact
===============================================================================
