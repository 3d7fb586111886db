-------------------------------- MODULE Growth --------------------------------
(***************************************************************************)
(* The cost of resize(): how much memory it wastes and how many bytes it   *)
(* copies, whatever sequence of methods grows and shrinks one array.       *)
(*                                                                         *)
(* size and allocated are the fields of the struct.  credit is an account  *)
(* that no program keeps: a resize pays Rate for each byte by which its    *)
(* caller changes the size and is charged for the bytes that               *)
(* PyMem_Realloc() copies, at worst the smaller of the two blocks.  That   *)
(* the account is never overdrawn means that the bytes copied in all are   *)
(* at most Rate for each byte added or removed: appending is linear.  What *)
(* exceeds MaxCredit is lost, which keeps the model finite and makes the   *)
(* claim stronger.                                                         *)
(***************************************************************************)
EXTENDS Allocation

CONSTANTS
  MaxSize,      \* bound on the size
  MaxCredit     \* bound on the credit

ASSUME GrowthAssumption ==
  /\ MaxSize \in Nat
  /\ MaxCredit \in Nat /\ MaxCredit >= 2 * MaxSize + 1

\* Bytes copied per byte added or removed, at most: overallocation adds about a
\* sixteenth, so that one reallocation pays for the next.
Rate == 17

VARIABLES size, allocated, credit

vars == <<size, allocated, credit>>

Smaller(m, n) == IF m < n THEN m ELSE n
Distance(m, n) == IF m < n THEN n - m ELSE m - n

\* The allocation that resize() leaves for a new size.
AllocationFor(newsize) ==
  CASE newsize = size -> allocated
    [] newsize # size /\ newsize = 0 -> 0
    [] newsize # size /\ newsize # 0 -> NewAllocation(size, allocated, newsize)

\* The bytes it copies.
Copied(alloc) == IF alloc = allocated THEN 0 ELSE Smaller(allocated, alloc)

Init == size = 0 /\ allocated = 0 /\ credit = 0

\* A method calls resize(), on an array that neither exports nor imports its
\* buffer.
Resize(newsize) ==
  /\ size' = newsize
  /\ allocated' = AllocationFor(newsize)
  /\ credit' = Smaller(MaxCredit, credit + Rate * Distance(size, newsize)
                                         - Copied(AllocationFor(newsize)))

Next == \E newsize \in 0 .. MaxSize : Resize(newsize)

Spec == Init /\ [][Next]_vars

-------------------------------------------------------------------------------
\* The buffer fits its allocation, and at most about half of this is unused,
\* also after an array has shrunk.
WasteBounded == size <= allocated /\ allocated <= 2 * size + 1

\* No sequence of appends, deletions and jumps makes resize() copy more than
\* Rate bytes for each byte added or removed.  (With no overallocation, or one
\* that is not proportional to the size, appends would take quadratic time.)
CopyingAmortized == credit >= 0

\* What makes this inductive: the account can always pay for a reallocation by
\* the time the size has left the range that the allocation serves, whether it
\* leaves through the top or through the bottom.
Saved ==
  /\ credit + Rate * (allocated - size) >= allocated
  /\ credit + Rate * (size - (allocated \div 2)) >= allocated

GrowthInv ==
  /\ size \in 0 .. MaxSize /\ allocated \in Nat /\ credit \in Int
  /\ size = 0 => allocated = 0
  /\ WasteBounded
  /\ CopyingAmortized
  /\ Saved
===============================================================================
