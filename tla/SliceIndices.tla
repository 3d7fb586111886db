----------------------------- MODULE SliceIndices -----------------------------
(***************************************************************************)
(* The arithmetic of slices, on integers of the width of Py_ssize_t:       *)
(* PySlice_AdjustIndices() of the interpreter, and adjust_step_positive()  *)
(* of pauliebits.h.                                                        *)
(***************************************************************************)
EXTENDS Integers

CONSTANT MaxInt         \* PY_SSIZE_T_MAX

ASSUME MaxIntAssumption == MaxInt \in Nat \ {0}

\* The sum of two signed integers, as a build with -fwrapv computes it.
Wrap(v) == ((v + MaxInt + 1) % (2 * (MaxInt + 1))) - (MaxInt + 1)

\* A slice that has been adjusted to the length of an array, and how many
\* elements it has.
Slice(start, stop, step, length) ==
  [start |-> start, stop |-> stop, step |-> step, length |-> length]

\* A bound of a slice, counted from the end if negative, and clipped.
Clipped(v, nbits, step) ==
  LET u == IF v < 0 THEN v + nbits ELSE v
  IN  IF step < 0
      THEN CASE u < 0 -> -1 [] u >= nbits -> nbits - 1 [] u \in 0 .. (nbits - 1) -> u
      ELSE CASE u < 0 -> 0 [] u >= nbits -> nbits [] u \in 0 .. (nbits - 1) -> u

AdjustIndices(nbits, start, stop, step) ==
  LET a == Clipped(start, nbits, step)
      b == Clipped(stop, nbits, step)
  IN  Slice(a, b, step,
            CASE step < 0 /\ b < a -> (a - b - 1) \div (-step) + 1
              [] step > 0 /\ a < b -> (b - a - 1) \div step + 1
              [] OTHER -> 0)

\* The elements of an adjusted slice, in its order.
SliceElement(s, j) == s.start + j * s.step
SliceElements(s) == {SliceElement(s, j) : j \in 0 .. (s.length - 1)}

\* Describe the same elements by a positive step.
AdjustStepPositive(s) ==
  LET stop == Wrap(s.start + 1)
  IN  IF s.step > 0 THEN s
      ELSE Slice(Wrap(Wrap(stop + Wrap(s.step * (s.length - 1))) - 1),
                 stop, -s.step, s.length)
===============================================================================
