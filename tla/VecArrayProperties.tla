------------------------ MODULE VecArrayProperties ------------------------
(***************************************************************************)
(* What must be true of the arrays of VecArray, and the abstract array     *)
(* they implement.                                                         *)
(***************************************************************************)
EXTENDS VecArray

Stored == {i \in DOMAIN elems : elems[i] # Filler}

\* The Vec, and the last call.
TypeOK ==
  /\ len \in 0 .. MaxLen
  /\ elems \in [0 .. len - 1 -> Value \cup {Filler}]
  /\ phase \in {"none", "live", "new_panicked", "store_panicked",
                "load_panicked", "print_panicked"}
  /\ asked \in I64 /\ answer \in Value \cup {Zero, NoAnswer}

\* The last element of a Vec is one that was stored: resize never runs ahead
\* of the store it was made for, so "arr.len() > index_n" (lib.rs:196, :223)
\* is the range check of Ballerina.
LastIsStored == len > 0 => len - 1 \in Stored

\* The array implements the abstract one, and reads Zero where nothing was
\* stored.
Abstract == INSTANCE ArraySpec WITH
  Index <- I64, GapValues <- {Zero},
  status <- IF phase = "print_panicked" THEN "live" ELSE phase,
  content <- [i \in Stored |-> elems[i]]

RefinesArraySpec == Abstract!Spec

-----------------------------------------------------------------------------
(* What a test and a comment say of the arrays, and the code does not do.   *)

\* test/array/load_store_string_array_print_empty_value.bal stores element 100
\* of a string array and prints element 50: an element nobody stored is a
\* string that can be printed.
GapsCanBePrinted == phase # "print_panicked"

-----------------------------------------------------------------------------
\* The inductive invariant behind the refinement.
IInv ==
  /\ TypeOK /\ LastIsStored
  /\ phase \in {"none", "new_panicked"} => len = 0
=============================================================================
