----------------------------- MODULE ArraySpec -----------------------------
(***************************************************************************)
(* What a Ballerina array promises to the code that the compiler emits: a  *)
(* sequence that grows to the index stored, whose elements keep their last *)
(* stored value.  A load below the length never fails; one past it, and a  *)
(* store at a negative index, end the program.  GapValues are the answers  *)
(* a load may give for an element that lies below the length and was never *)
(* stored: runtimes differ in it.                                          *)
(***************************************************************************)
EXTENDS Integers

CONSTANTS Index, Value, GapValues, NoAnswer

VARIABLES
  status,   \* "none", "live", or the call that panicked
  content,  \* the stored elements: a function from their indices
  asked,    \* the index of the last call
  answer    \* what the last call returned

vars == <<status, content, asked, answer>>

Above(i) == \A j \in DOMAIN content : j < i
Stored(i, v) ==
  [j \in DOMAIN content \cup {i} |-> IF j = i THEN v ELSE content[j]]

Init == status = "none" /\ content = <<>> /\ asked = 0 /\ answer = NoAnswer

New ==
  /\ status = "none" /\ status' = "live"
  /\ UNCHANGED <<content, asked, answer>>

Store(i, v) ==
  /\ status = "live" /\ i >= 0
  /\ content' = Stored(i, v) /\ asked' = i /\ answer' = NoAnswer
  /\ UNCHANGED status

Load(i) ==
  /\ status = "live" /\ i >= 0 /\ ~Above(i)
  /\ answer' \in IF i \in DOMAIN content THEN {content[i]} ELSE GapValues
  /\ asked' = i
  /\ UNCHANGED <<status, content>>

\* A creation panics when it gets no memory, a store when it gets none to grow
\* with or its index is negative, a load only out of range.
NewPanics ==
  /\ status = "none" /\ status' = "new_panicked"
  /\ UNCHANGED <<content, asked, answer>>

StorePanics(i) ==
  /\ status = "live" /\ (i < 0 \/ Above(i))
  /\ status' = "store_panicked" /\ asked' = i
  /\ UNCHANGED <<content, answer>>

LoadPanics(i) ==
  /\ status = "live" /\ (i < 0 \/ Above(i))
  /\ status' = "load_panicked" /\ asked' = i
  /\ UNCHANGED <<content, answer>>

Next ==
  \/ New \/ NewPanics
  \/ \E i \in Index :
       \/ Load(i) \/ StorePanics(i) \/ LoadPanics(i)
       \/ \E v \in Value : Store(i, v)

Spec == Init /\ [][Next]_vars
=============================================================================
