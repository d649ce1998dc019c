----------------------------- MODULE BalArray -----------------------------
(***************************************************************************)
(* The int and byte arrays of the Rust runtime                             *)
(* (runtime/rust_rt/src/bal_array.rs), a block that array_init allocates   *)
(* and array_store reallocates, with the i64 and usize arithmetic of a     *)
(* release build and the undefined reads of memory realloc did not clear.  *)
(***************************************************************************)
EXTENDS Integers

CONSTANTS
  Value, Zero,   \* elements, and the element whose bytes are 0
  Cleared,       \* an element's bytes as alloc_zeroed leaves them
  Garbage,       \* an element's bytes as realloc leaves them past the old block
  NoAnswer,
  Half,          \* i64 is -Half .. Half - 1, usize 0 .. 2 * Half - 1
  ElemSize,      \* size_of::<T>(), 1 or 8
  HeaderSize,    \* Layout::new::<i64>().size()
  MaxBytes,      \* the largest block the allocator can return
  DefaultSize,   \* the 8 of DynamicBalArray::new
  Sizes          \* the sizes array_init is called with

I64 == -Half .. Half - 1

ASSUME ValueAssumption ==
  /\ Zero \in Value /\ NoAnswer \notin Value
  /\ Cleared \notin Value /\ Garbage \notin Value /\ Cleared # Garbage

\* A block cannot take up a noticeable part of the address space: 2^47 of its
\* 2^64 bytes on x86-64.
ASSUME MemoryAssumption ==
  /\ Half \in Nat \ {0} /\ ElemSize \in Nat \ {0} /\ HeaderSize \in Nat
  /\ MaxBytes \in Nat /\ DefaultSize \in Nat \ {0}
  /\ 2 * MaxBytes < Half
  /\ (ElemSize + 2) * MaxBytes < 2 * Half

\* The compiler reads an array's size from 32 bits (ConstantPool.cpp:349).
ASSUME SizesAssumption ==
  /\ Sizes \subseteq I64
  /\ \A s \in Sizes \cup {DefaultSize} : HeaderSize + s * ElemSize < 2 * Half

VARIABLES
  length, capacity,  \* of DynamicBalArray
  cells,             \* the elements of its block
  phase,             \* none, live, wild (outside of its block), or the call
                     \* that panicked
  asked, answer      \* the last call: its index, and what a load returned

vars == <<length, capacity, cells, phase, asked, answer>>

-----------------------------------------------------------------------------
(* Pure helpers.                                                           *)

\* i64 arithmetic of a release build, and the usize product of get_layout.
ToI64(x) == ((x + Half) % (2 * Half)) - Half
Bytes(c) == (c * ElemSize) % (2 * Half)

\* get_layout(c).size(); usize::try_from(c).unwrap() panics on a negative c.
BlockBytes(c) == HeaderSize + Bytes(c)
Allocatable(c) == c >= 0 /\ BlockBytes(c) <= MaxBytes
CellsOf(c) == Bytes(c) \div ElemSize

\* usize::try_from(index), and the bounds check of the slice "values", which
\* was made with the block's size in bytes for its length.
PassesChecks(i, c) == i >= 0 /\ i < BlockBytes(c)

\* GROWTH_FACTOR = 2
RepeatTooSmall(i, c) == ((i - 1) \div ToI64(c * 2)) + 1
Repeat(i, c) == (i \div ToI64(c * 2)) + 1
NewCapacity(i, c) == ToI64(ToI64(c * 2) * Repeat(i, c))

FitsLate(i, c) == i <= c
Fits(i, c) == i < c

LengthFromIndex(i, l) == IF l <= i THEN i ELSE l
LengthOfLast(i, l) == i + 1
LengthCounted(i, l) == l + 1
LengthWith(i, l) == IF l <= i THEN i + 1 ELSE l

\* realloc keeps the bytes of the old block that fit and clears none.
Cleaned(c) == [i \in 0 .. CellsOf(c) - 1 |-> Cleared]
Reallocated(c) ==
  [i \in 0 .. CellsOf(c) - 1 |-> IF i \in DOMAIN cells THEN cells[i] ELSE Garbage]

\* What reading an element may give; Garbage is read as any value.
ReadOf(x) == IF x = Cleared THEN {Zero} ELSE IF x = Garbage THEN Value ELSE {x}

-----------------------------------------------------------------------------
Init ==
  /\ length = 0 /\ capacity = 0 /\ cells = <<>> /\ phase = "none"
  /\ asked = 0 /\ answer = NoAnswer

SizeOrZero(s) == IF s >= 0 THEN s ELSE DefaultSize
SizeOrDefault(s) == IF s > 0 THEN s ELSE DefaultSize

New(s) ==
  LET c == SizeOrDefault(s) IN
  /\ phase = "none" /\ Allocatable(c)
  /\ phase' = "live" /\ length' = 0 /\ capacity' = c
  /\ cells' = Cleaned(c)
  /\ UNCHANGED <<asked, answer>>

\* values[i] = v in a block of capacity c.
Write(block, c, i, v) ==
  /\ PassesChecks(i, c)
  /\ IF i \in DOMAIN block
       THEN cells' = [block EXCEPT ![i] = v] /\ UNCHANGED phase
       ELSE cells' = block /\ phase' = "wild"
  /\ capacity' = c /\ length' = LengthWith(i, length)
  /\ asked' = i /\ answer' = NoAnswer

StoreInPlace(i, v) ==
  /\ phase = "live" /\ Fits(i, capacity)
  /\ Write(cells, capacity, i, v)

StoreGrowing(i, v) ==
  LET c == NewCapacity(i, capacity) IN
  /\ phase = "live" /\ ~Fits(i, capacity) /\ Allocatable(c)
  /\ Write(Reallocated(c), c, i, v)

Load(i) ==
  /\ phase = "live" /\ length > i /\ PassesChecks(i, capacity)
  /\ IF i \in DOMAIN cells
       THEN answer' \in ReadOf(cells[i]) /\ UNCHANGED phase
       ELSE answer' \in Value /\ phase' = "wild"
  /\ asked' = i
  /\ UNCHANGED <<length, capacity, cells>>

\* A panic in these extern "C" functions ends the process.
NewPanics == phase = "none" /\ phase' = "new_panicked" /\ UNCHANGED asked
StorePanics(i) ==
  /\ phase = "live" /\ (~Fits(i, capacity) \/ ~PassesChecks(i, capacity))
  /\ phase' = "store_panicked" /\ asked' = i
LoadPanics(i) ==
  /\ phase = "live" /\ (length <= i \/ ~PassesChecks(i, capacity))
  /\ phase' = "load_panicked" /\ asked' = i
Panics ==
  /\ NewPanics \/ \E i \in I64 : StorePanics(i) \/ LoadPanics(i)
  /\ UNCHANGED <<length, capacity, cells, answer>>

Next ==
  \/ \E s \in Sizes : New(s)
  \/ \E i \in I64 : Load(i) \/ \E v \in Value : StoreInPlace(i, v) \/ StoreGrowing(i, v)
  \/ Panics

Spec == Init /\ [][Next]_vars
=============================================================================
