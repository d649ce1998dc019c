------------------------ MODULE BalArrayProperties ------------------------
(***************************************************************************)
(* What must be true of the arrays of BalArray, and the abstract array     *)
(* they implement.                                                         *)
(***************************************************************************)
EXTENDS BalArray

Written == {i \in DOMAIN cells : cells[i] \notin {Cleared, Garbage}}

\* The fields of DynamicBalArray, the block and the last call.  The capacity of
\* an array is never 0, for set_element divides by it (bal_array.rs:98).
TypeOK ==
  /\ length \in Nat /\ capacity \in Nat /\ asked \in I64
  /\ phase = "live" => capacity > 0
  /\ phase \in {"none", "live", "wild", "new_panicked", "store_panicked", "load_panicked"}
  /\ DOMAIN cells \subseteq Nat
  /\ cells \in [DOMAIN cells -> Value \cup {Cleared, Garbage}]
  /\ answer \in Value \cup {NoAnswer}

\* "amount of memory actually allocated for" (bal_array.rs:32): after any run
\* of stores the block has an element for each index below the capacity, in
\* spite of the products in get_layout and set_element that may wrap.
CapacityIsAllocated ==
  phase = "live" => DOMAIN cells = 0 .. capacity - 1 /\ length <= capacity

\* No load or store touches memory outside the block.  The bounds check does
\* not promise it (the slice's length counts bytes), the growth has to.
StaysInBlock == phase # "wild"

\* "largest index of an element stored in the array + 1" (bal_array.rs:31),
\* which the range check of get_element relies on.
LengthIsLargestStored ==
  phase = "live" =>
    /\ length > 0 => length - 1 \in Written
    /\ \A i \in Written : i < length

\* The array implements the abstract one, except that an element nobody
\* stored reads as anything.
Abstract == INSTANCE ArraySpec WITH
  Index <- I64, GapValues <- Value,
  status <- phase, content <- [i \in Written |-> cells[i]]

RefinesArraySpec == Abstract!Spec

\* test/array/load_store_int_array_print_empty_value.bal stores element 100,
\* loads element 50 and says "CHECK: Result=0": an element nobody stored is 0.
GapsReadZero ==
  phase = "live" /\ answer # NoAnswer /\ asked \notin Written => answer = Zero

-----------------------------------------------------------------------------
\* The inductive invariant: the block is as large as the capacity says, and
\* small enough for the next growth's arithmetic.
IInv ==
  /\ TypeOK /\ CapacityIsAllocated /\ StaysInBlock /\ LengthIsLargestStored
  /\ phase = "none" => length = 0 /\ cells = <<>>
  /\ phase = "live" => HeaderSize + capacity * ElemSize <= MaxBytes
=============================================================================
