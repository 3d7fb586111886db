----------------------------- MODULE ArrayChannel ------------------------------
(***************************************************************************)
(* What a stream of compressed arrays promises: a reader gets the arrays   *)
(* that have been written, each once, in order, and whole, as long as      *)
(* nobody tampers with the stream and it is read in the format in which    *)
(* it has been written.                                                    *)
(***************************************************************************)
EXTENDS SequencesExt

CONSTANTS Formats, Contents

VARIABLES
  queue,        \* arrays written and not yet read, with their formats
  got,          \* what the last call of a decoder gave
  broken        \* whether there is no promise any more

Error == [kind |-> "error"]
Array(a) == [kind |-> "array", array |-> a]

Init == queue = <<>> /\ got = Error /\ broken = FALSE

Write ==
  /\ queue' # <<>> /\ Front(queue') = queue
  /\ Last(queue') \in [format : Formats, array : Contents]
  /\ UNCHANGED <<got, broken>>

Read ==
  /\ queue # <<>> /\ queue' = Tail(queue) /\ got' = Array(Head(queue).array)
  /\ UNCHANGED broken

\* The end of the stream.
ReadNothing == queue = <<>> /\ got' = Error /\ UNCHANGED <<queue, broken>>

Forget == got' = Error /\ UNCHANGED <<queue, broken>>

Break == broken' = TRUE

Next == \/ ~broken /\ (Write \/ Read \/ ReadNothing \/ Forget)
        \/ Break

Spec == Init /\ [][Next]_<<queue, got, broken>>
===============================================================================
