----------------------------- MODULE VecArray -----------------------------
(***************************************************************************)
(* The float, boolean, string and anydata arrays of the Rust runtime       *)
(* (runtime/rust_rt/src/lib.rs): a Vec that is resized to the index that   *)
(* is stored.  The compiler passes every index as an i64                   *)
(* (CodeGenUtils.cpp:151-155, :171-175), array_load_anydata and            *)
(* array_store_anydata take an i32.                                        *)
(***************************************************************************)
EXTENDS Integers

CONSTANTS
  Value, Zero,   \* what the program stores, and what resize fills with
  Filler,        \* a Zero that resize wrote: kept apart from a stored one
  Unprintable,   \* the elements print_string refuses: null strings
  NoAnswer,
  Half,          \* i64 is -Half .. Half - 1, usize 0 .. 2 * Half - 1
  IndexHalf,     \* the same for the index parameter: i64, or i32 for anydata
  MaxLen         \* the longest Vec the allocator can hold

I64 == -Half .. Half - 1

ASSUME ValueAssumption ==
  /\ Filler \notin Value \cup {Zero} /\ NoAnswer \notin Value \cup {Zero}
  /\ Unprintable \subseteq Value \cup {Zero}
ASSUME WordAssumption ==
  /\ IndexHalf \in Nat \ {0} /\ Half \in Nat \ {0} /\ IndexHalf <= Half
  /\ MaxLen \in Nat /\ MaxLen < Half

VARIABLES
  len, elems,     \* the Vec
  phase,          \* none, live, or the call that panicked
  asked, answer   \* the last call: its index, and what a load returned

vars == <<len, elems, phase, asked, answer>>

-----------------------------------------------------------------------------
(* Pure helpers.                                                           *)

\* What arrives of an i64 in the index parameter, and index as usize.
Received(i) == ((i + IndexHalf) % (2 * IndexHalf)) - IndexHalf
AsUsize(i) == Received(i) % (2 * Half)

\* index_n + 1, which wraps in a release build: -1 asks for a length of 0.
LengthTooLong(i) == (AsUsize(i) + 2) % (2 * Half)
LengthFor(i) == (AsUsize(i) + 1) % (2 * Half)

\* if arr.len() < len { arr.resize(len, fill) }
LengthAlways(n) == n
LengthAfter(n) == IF len < n THEN n ELSE len
Resized(n) ==
  [i \in 0 .. LengthAfter(n) - 1 |-> IF i < len THEN elems[i] ELSE Filler]

ReadUnfilled(x) == x
ReadOf(x) == IF x = Filler THEN Zero ELSE x

-----------------------------------------------------------------------------
Init ==
  /\ len = 0 /\ elems = <<>> /\ phase = "none"
  /\ asked = 0 /\ answer = NoAnswer

\* with_capacity leaves the Vec empty, whatever the size.
New ==
  /\ phase = "none" /\ phase' = "live"
  /\ UNCHANGED <<len, elems, asked, answer>>

Store(i, v) ==
  LET n == AsUsize(i)
      l == LengthFor(i) IN
  /\ phase = "live" /\ l <= MaxLen
  /\ n < LengthAfter(l)
  /\ len' = LengthAfter(l)
  /\ elems' = [Resized(l) EXCEPT ![n] = v]
  /\ asked' = i /\ answer' = NoAnswer
  /\ UNCHANGED phase

\* assert!(arr.len() > index_n)
InBounds(n) == len > n

Load(i) ==
  /\ phase = "live" /\ InBounds(AsUsize(i))
  /\ asked' = i /\ answer' = ReadOf(elems[AsUsize(i)])
  /\ UNCHANGED <<len, elems, phase>>

\* A panic, or an allocation that fails, ends the process.
NewPanics ==
  /\ phase = "none" /\ phase' = "new_panicked"
  /\ UNCHANGED <<len, elems, asked, answer>>

StorePanics(i) ==
  /\ phase = "live"
  /\ LengthFor(i) > len \/ AsUsize(i) >= LengthAfter(LengthFor(i))
  /\ phase' = "store_panicked" /\ asked' = i
  /\ UNCHANGED <<len, elems, answer>>

LoadPanics(i) ==
  /\ phase = "live" /\ ~InBounds(AsUsize(i))
  /\ phase' = "load_panicked" /\ asked' = i
  /\ UNCHANGED <<len, elems, answer>>

\* print_string of what was loaded: assert!(!ptr.is_null())
PrintPanics ==
  /\ phase = "live" /\ answer \in Unprintable
  /\ phase' = "print_panicked"
  /\ UNCHANGED <<len, elems, asked, answer>>

Next ==
  \/ New \/ NewPanics \/ PrintPanics
  \/ \E i \in I64 :
       \/ Load(i) \/ StorePanics(i) \/ LoadPanics(i)
       \/ \E v \in Value : Store(i, v)

Spec == Init /\ [][Next]_vars
=============================================================================
