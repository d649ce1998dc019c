--------------------------- MODULE BalArrayProof ---------------------------
(***************************************************************************)
(* The safety properties of the arrays of BalArray for every word size,    *)
(* element size and sequence of calls: IInv of BalArrayProperties is       *)
(* inductive.  The argument is in GrowthFits: where a product of the growth *)
(* wraps, a later check of the same call panics.                           *)
(***************************************************************************)
EXTENDS BalArrayProperties, TLAPS

-----------------------------------------------------------------------------
(* Arithmetic.                                                              *)

LEMMA SmallMod == \A x \in Nat, m \in Nat \ {0} : x < m => x % m = x
  BY SMT

LEMMA OnceAroundMod ==
  \A x \in Nat, m \in Nat \ {0} : m <= x /\ x < 2 * m => x % m = x - m
  BY SMT

LEMMA ModType == \A x \in Nat, m \in Nat \ {0} : x % m \in Nat /\ x % m < m /\ x % m <= x
  BY SMT

LEMMA DivBounds ==
  \A x \in Nat, m \in Nat \ {0} :
    x \div m \in Nat /\ m * (x \div m) <= x /\ x < m * ((x \div m) + 1)
  BY SMT

LEMMA ExactDiv == \A x \in Nat, m \in Nat \ {0} : (x * m) \div m = x
  BY SMT

LEMMA MulType == \A x \in Nat, y \in Nat : x * y \in Nat
  BY SMT

\* Multiplication is monotonic.
LEMMA MulMono == \A x \in Nat, y \in Nat, z \in Nat : x <= y => x * z <= y * z
  BY SMT

\* A sum that is an i64 is kept; one that is at most one word too large comes
\* out negative.
LEMMA ToI64Facts ==
  ASSUME NEW x \in Nat, x < 2 * Half
  PROVE  /\ x < Half => ToI64(x) = x
         /\ Half <= x => ToI64(x) \in Int /\ ToI64(x) < 0
<1>1. Half \in Nat \ {0} /\ 2 * Half \in Nat \ {0} /\ x + Half \in Nat
  BY MemoryAssumption
<1>2. CASE x < Half
  <2>1. (x + Half) % (2 * Half) = x + Half
    BY <1>1, <1>2, SmallMod
  <2> QED
    BY <1>1, <1>2, <2>1 DEF ToI64
<1>3. CASE Half <= x
  <2>1. 2 * Half <= x + Half /\ x + Half < 2 * (2 * Half)
    BY <1>1, <1>3
  <2>2. (x + Half) % (2 * Half) = (x + Half) - (2 * Half)
    <3> DEFINE y == x + Half
               m == 2 * Half
    <3>1. y \in Nat /\ m \in Nat \ {0} /\ m <= y /\ y < 2 * m
      BY <1>1, <2>1
    <3> HIDE DEF y, m
    <3>2. y % m = y - m
      BY <3>1, OnceAroundMod
    <3> QED
      BY <3>2 DEF y, m
  <2> QED
    BY <1>1, <1>3, <2>2 DEF ToI64
<1> QED
  BY <1>1, <1>2, <1>3

\* A capacity whose block fits in memory keeps its size in the usize product.
LEMMA SmallBlock ==
  ASSUME NEW c \in Nat, HeaderSize + c * ElemSize < 2 * Half
  PROVE  Bytes(c) = c * ElemSize /\ CellsOf(c) = c
<1>1. c * ElemSize \in Nat /\ 2 * Half \in Nat \ {0} /\ ElemSize \in Nat \ {0} /\ HeaderSize \in Nat
  BY MemoryAssumption, MulType
<1>2. c * ElemSize < 2 * Half
  BY <1>1
<1>3. Bytes(c) = c * ElemSize
  BY <1>1, <1>2, SmallMod DEF Bytes
<1> QED
  BY <1>1, <1>3, ExactDiv DEF CellsOf

\* The capacity of a live array.
LEMMA LiveCapacity ==
  ASSUME IInv, phase = "live"
  PROVE  /\ capacity \in Nat \ {0} /\ capacity * ElemSize \in Nat
         /\ capacity <= capacity * ElemSize
         /\ capacity <= MaxBytes /\ HeaderSize + capacity * ElemSize <= MaxBytes
         /\ MaxBytes \in Nat /\ HeaderSize \in Nat /\ ElemSize \in Nat \ {0}
         /\ Half \in Nat \ {0} /\ 2 * MaxBytes < Half
<1>1. capacity \in Nat \ {0} /\ HeaderSize + capacity * ElemSize <= MaxBytes
  BY DEF IInv, TypeOK
<1>2. capacity * ElemSize \in Nat /\ capacity <= capacity * ElemSize
  BY <1>1, MemoryAssumption, MulType
<1> QED
  BY <1>1, <1>2, MemoryAssumption

\* A store beyond the capacity that is not stopped by a panic has grown the
\* block to the new capacity and past the index.  When the i64 product wraps,
\* the new capacity is negative; when the usize product wraps, the index is
\* beyond the slice.
LEMMA GrowthFits ==
  ASSUME IInv, phase = "live", NEW i \in I64, i >= capacity,
         Allocatable(NewCapacity(i, capacity)),
         PassesChecks(i, NewCapacity(i, capacity))
  PROVE  LET c == NewCapacity(i, capacity) IN
           /\ c \in Nat /\ i < c
           /\ Bytes(c) = c * ElemSize /\ CellsOf(c) = c
           /\ HeaderSize + c * ElemSize <= MaxBytes
<1> DEFINE c == NewCapacity(i, capacity)
           d == 2 * capacity
           q == i \div d
           p == d * (q + 1)
<1>1. /\ capacity \in Nat \ {0} /\ capacity * ElemSize \in Nat
      /\ capacity <= MaxBytes /\ HeaderSize + capacity * ElemSize <= MaxBytes
      /\ MaxBytes \in Nat /\ HeaderSize \in Nat /\ ElemSize \in Nat \ {0}
      /\ Half \in Nat \ {0} /\ 2 * MaxBytes < Half
  BY LiveCapacity
<1>2. i \in Nat /\ i < Half
  BY <1>1 DEF I64
<1>3. d \in Nat \ {0} /\ d < Half /\ ToI64(capacity * 2) = d
  <2>1. capacity * 2 \in Nat /\ capacity * 2 = d /\ d < Half /\ d \in Nat \ {0}
    BY <1>1
  <2> QED
    BY <1>1, <2>1, ToI64Facts
<1>4. q \in Nat /\ d * q <= i /\ i < p /\ p \in Nat
  <2>1. q \in Nat /\ d * q <= i /\ i < p
    BY <1>2, <1>3, DivBounds
  <2>2. q + 1 \in Nat /\ d \in Nat
    BY <1>3, <2>1
  <2> HIDE DEF q, d
  <2>3. p \in Nat
    BY <2>2, MulType
  <2> QED
    BY <2>1, <2>3
<1>5. p <= i + d /\ p < 2 * Half
  <2> HIDE DEF q, d
  <2>1. p = d * q + d
    BY <1>3, <1>4
  <2>2. d * q \in Nat
    BY <1>3, <1>4, MulType
  <2> QED
    BY <1>1, <1>2, <1>3, <1>4, <2>1, <2>2
<1>6. c = ToI64(p)
  BY <1>3 DEF NewCapacity, Repeat
<1>7. c = p /\ p < Half
  <2> HIDE DEF c, p
  <2>1. c >= 0
    BY DEF Allocatable, c
  <2> QED
    BY <1>1, <1>4, <1>5, <1>6, <2>1, ToI64Facts
<1>8. HeaderSize + c * ElemSize < 2 * Half /\ HeaderSize + Bytes(c) <= MaxBytes /\ i <= MaxBytes
  <2>1. Bytes(c) \in Nat /\ HeaderSize + Bytes(c) <= MaxBytes /\ i < HeaderSize + Bytes(c)
    <3>1. HeaderSize + Bytes(c) <= MaxBytes /\ i < HeaderSize + Bytes(c)
      BY DEF Allocatable, PassesChecks, BlockBytes
    <3>2. c * ElemSize \in Nat /\ 2 * Half \in Nat \ {0}
      BY <1>1, <1>4, <1>7, MulType
    <3>3. Bytes(c) \in Nat
      BY <3>2, ModType DEF Bytes
    <3> QED
      BY <3>1, <3>3
  <2>2. c \in Nat /\ c <= MaxBytes + d
    <3> HIDE DEF c, p, d
    <3> QED
      BY <1>1, <1>2, <1>3, <1>4, <1>5, <1>7, <2>1
  <2>3. c * ElemSize <= MaxBytes * ElemSize + 2 * (capacity * ElemSize)
    <3>1. c * ElemSize <= (MaxBytes + d) * ElemSize
      <4> HIDE DEF c, d
      <4>1. MaxBytes + d \in Nat
        BY <1>1, <1>3
      <4> QED
        BY <1>1, <2>2, <4>1, MulMono
    <3>2. (MaxBytes + d) * ElemSize = MaxBytes * ElemSize + 2 * (capacity * ElemSize)
      BY <1>1
    <3> QED
      BY <3>1, <3>2
  <2>4. MaxBytes * ElemSize + 2 * MaxBytes < 2 * Half /\ MaxBytes * ElemSize \in Nat
    BY <1>1, MemoryAssumption, MulType
  <2>5. c * ElemSize \in Nat
    BY <1>1, <2>2, MulType
  <2>6. i \in Nat /\ i <= MaxBytes
    <3> HIDE DEF c
    <3> QED
      BY <1>1, <1>2, <2>1
  <2>7. HeaderSize + c * ElemSize < 2 * Half
    <3> DEFINE ce == c * ElemSize
               ke == capacity * ElemSize
               me == MaxBytes * ElemSize
    <3>1. /\ ce \in Nat /\ ke \in Nat /\ me \in Nat
          /\ ce <= me + 2 * ke /\ me + 2 * MaxBytes < 2 * Half
          /\ HeaderSize + ke <= MaxBytes
      BY <1>1, <2>3, <2>4, <2>5
    <3> HIDE DEF ce, ke, me
    <3>2. HeaderSize + ce < 2 * Half
      BY <1>1, <3>1
    <3> QED
      BY <3>2 DEF ce
  <2> QED
    BY <2>1, <2>6, <2>7
<1>9. c \in Nat /\ i < c
  BY <1>4, <1>7
<1>10. Bytes(c) = c * ElemSize /\ CellsOf(c) = c
  <2> HIDE DEF c
  <2> QED
    BY <1>8, <1>9, SmallBlock
<1> QED
  BY <1>8, <1>9, <1>10

-----------------------------------------------------------------------------
(* IInv is inductive.                                                       *)

LEMMA IInvInit == Init => IInv
  BY ValueAssumption, MemoryAssumption DEF Init, I64, IInv, TypeOK, CapacityIsAllocated, StaysInBlock,
     LengthIsLargestStored, Written

\* A new block has an element for each index below its capacity, all cleared.
LEMMA NewInv == ASSUME IInv, NEW s \in Sizes, New(s) PROVE IInv'
<1> DEFINE c == SizeOrDefault(s)
<1>1. c \in Nat \ {0} /\ HeaderSize + c * ElemSize < 2 * Half
  BY SizesAssumption, MemoryAssumption DEF SizeOrDefault, I64
<1>2. Bytes(c) = c * ElemSize /\ CellsOf(c) = c
  <2> HIDE DEF c
  <2> QED
    BY <1>1, SmallBlock
<1>3. /\ phase' = "live" /\ length' = 0 /\ capacity' = c /\ phase = "none"
      /\ cells' = Cleaned(c) /\ BlockBytes(c) <= MaxBytes
      /\ asked' = asked /\ answer' = answer
  BY DEF New, Allocatable
<1> HIDE DEF c
<1>4. cells' = [i \in 0 .. c - 1 |-> Cleared]
  BY <1>2, <1>3 DEF Cleaned
<1>5. TypeOK'
  BY <1>1, <1>3, <1>4 DEF IInv, TypeOK
<1>6. CapacityIsAllocated'
  BY <1>1, <1>3, <1>4 DEF CapacityIsAllocated
<1>7. LengthIsLargestStored'
  BY <1>3, <1>4 DEF LengthIsLargestStored, Written
<1>8. HeaderSize + capacity' * ElemSize <= MaxBytes
  BY <1>2, <1>3 DEF BlockBytes
<1> QED
  BY <1>1, <1>3, <1>5, <1>6, <1>7, <1>8 DEF IInv, StaysInBlock

\* A write below the capacity changes the element it is for, and no other that
\* was stored.
LEMMA WriteFacts ==
  ASSUME IInv, phase = "live", NEW i \in I64, NEW v \in Value, NEW c \in Nat,
         NEW block, DOMAIN block = 0 .. c - 1, capacity <= c, i < c,
         block \in [0 .. c - 1 -> Value \cup {Cleared, Garbage}],
         \A j \in 0 .. capacity - 1 : block[j] = cells[j],
         \A j \in capacity .. c - 1 : block[j] = Garbage,
         Write(block, c, i, v)
  PROVE  /\ i >= 0 /\ phase' = "live" /\ asked' = i /\ answer' = NoAnswer
         /\ Written' = Written \cup {i} /\ cells'[i] = v
         /\ \A j \in Written : j # i => cells'[j] = cells[j]
<1>1. /\ i \in 0 .. c - 1 /\ cells' = [block EXCEPT ![i] = v] /\ phase' = "live"
      /\ asked' = i /\ answer' = NoAnswer /\ i >= 0
  BY DEF Write, PassesChecks, I64
<1>2. capacity \in Nat \ {0} /\ DOMAIN cells = 0 .. capacity - 1
  BY DEF IInv, TypeOK, CapacityIsAllocated
<1>3. /\ DOMAIN cells' = 0 .. c - 1
      /\ \A j \in 0 .. c - 1 : cells'[j] = IF j = i THEN v ELSE block[j]
  BY <1>1
<1>4. v \notin {Cleared, Garbage}
  BY ValueAssumption
<1>5. ASSUME NEW j PROVE /\ j \in Written' <=> j \in Written \cup {i}
                         /\ j \in Written /\ j # i => cells'[j] = cells[j]
  <2>1. CASE j = i
    BY <1>1, <1>3, <1>4, <2>1 DEF Written
  <2>2. CASE j # i /\ j \in 0 .. capacity - 1
    BY <1>2, <1>3, <2>2 DEF Written
  <2>3. CASE j # i /\ j \notin 0 .. capacity - 1
    BY <1>2, <1>3, <2>3 DEF Written
  <2> QED
    BY <2>1, <2>2, <2>3
<1> QED BY <1>1, <1>3, <1>5

\* Writing an element below the capacity of a block that is as large as its
\* capacity, and the length that goes with it.
LEMMA WriteInv ==
  ASSUME IInv, phase = "live", NEW i \in I64, NEW v \in Value, NEW c \in Nat,
         NEW block, DOMAIN block = 0 .. c - 1, capacity <= c, i < c,
         block \in [0 .. c - 1 -> Value \cup {Cleared, Garbage}],
         \A j \in 0 .. capacity - 1 : block[j] = cells[j],
         \A j \in capacity .. c - 1 : block[j] = Garbage,
         HeaderSize + c * ElemSize <= MaxBytes,
         Write(block, c, i, v)
  PROVE  IInv'
<1>1. /\ i \in 0 .. c - 1 /\ cells' = [block EXCEPT ![i] = v] /\ phase' = "live"
      /\ capacity' = c /\ length' = LengthWith(i, length)
      /\ asked' = i /\ answer' = NoAnswer
  BY DEF Write, PassesChecks, I64
<1>2. /\ length \in Nat /\ capacity \in Nat \ {0} /\ length <= capacity
      /\ DOMAIN cells = 0 .. capacity - 1
      /\ length > 0 => length - 1 \in Written
      /\ \A j \in Written : j < length
  BY DEF IInv, TypeOK, CapacityIsAllocated, LengthIsLargestStored
<1>3. length' \in Nat /\ i < length' /\ length <= length' /\ length' <= c
      /\ (length' = i + 1 \/ length' = length)
  BY <1>1, <1>2 DEF LengthWith
<1>4. /\ DOMAIN cells' = 0 .. c - 1
      /\ \A j \in 0 .. c - 1 : cells'[j] = IF j = i THEN v ELSE block[j]
      /\ cells' \in [0 .. c - 1 -> Value \cup {Cleared, Garbage}]
  BY <1>1
<1>5. Written' = Written \cup {i}
  BY WriteFacts
<1>6. TypeOK'
  BY <1>1, <1>3, <1>4, ValueAssumption DEF TypeOK
<1>7. CapacityIsAllocated'
  BY <1>1, <1>3, <1>4 DEF CapacityIsAllocated
<1>8. LengthIsLargestStored'
  <2>1. length' - 1 \in Written'
    BY <1>1, <1>2, <1>3, <1>5
  <2>2. \A j \in Written' : j < length'
    <3> SUFFICES ASSUME NEW j \in Written' PROVE j < length'
      OBVIOUS
    <3>1. j \in Nat
      BY <1>1, <1>2, <1>5 DEF Written
    <3> QED
      BY <1>2, <1>3, <1>5, <3>1
  <2> QED
    BY <2>1, <2>2 DEF LengthIsLargestStored
<1> QED
  BY <1>1, <1>2, <1>6, <1>7, <1>8 DEF IInv, StaysInBlock

\* What a store writes to: the block itself, or one that realloc made larger.
LEMMA StoreBlock ==
  ASSUME IInv, NEW i \in I64, NEW v \in Value, StoreInPlace(i, v) \/ StoreGrowing(i, v)
  PROVE  /\ phase = "live"
         /\ \E c \in Nat : \E block \in [0 .. c - 1 -> Value \cup {Cleared, Garbage}] :
              /\ capacity <= c /\ i < c
              /\ \A j \in 0 .. capacity - 1 : block[j] = cells[j]
              /\ \A j \in capacity .. c - 1 : block[j] = Garbage
              /\ HeaderSize + c * ElemSize <= MaxBytes
              /\ Write(block, c, i, v)
<1>0. phase = "live"
  BY DEF StoreInPlace, StoreGrowing
<1>1. /\ capacity \in Nat \ {0} /\ DOMAIN cells = 0 .. capacity - 1
      /\ cells \in [0 .. capacity - 1 -> Value \cup {Cleared, Garbage}]
      /\ HeaderSize + capacity * ElemSize <= MaxBytes /\ i \in Int
  BY <1>0 DEF IInv, TypeOK, CapacityIsAllocated, I64
<1>2. CASE StoreInPlace(i, v)
  <2>1. i < capacity /\ Write(cells, capacity, i, v)
    BY <1>2 DEF StoreInPlace, Fits
  <2>2. \A j \in capacity .. capacity - 1 : cells[j] = Garbage
    BY <1>1
  <2>3. capacity \in Nat /\ capacity <= capacity
    BY <1>1
  <2> QED
    BY <1>0, <1>1, <2>1, <2>2, <2>3
<1>3. CASE StoreGrowing(i, v)
  <2> DEFINE c == NewCapacity(i, capacity)
  <2>1. /\ ~(i < capacity) /\ Allocatable(c)
        /\ Write(Reallocated(c), c, i, v) /\ PassesChecks(i, c)
    BY <1>3 DEF StoreGrowing, Fits, Write
  <2>2. /\ c \in Nat /\ i < c /\ CellsOf(c) = c
        /\ HeaderSize + c * ElemSize <= MaxBytes
    BY <1>0, <1>1, <2>1, GrowthFits
  <2> HIDE DEF c
  <2>3. capacity <= c
    BY <1>1, <2>1, <2>2
  <2>4. Reallocated(c) = [j \in 0 .. c - 1 |-> IF j \in DOMAIN cells THEN cells[j] ELSE Garbage]
    BY <2>2 DEF Reallocated
  <2>5. /\ Reallocated(c) \in [0 .. c - 1 -> Value \cup {Cleared, Garbage}]
        /\ \A j \in 0 .. capacity - 1 : Reallocated(c)[j] = cells[j]
        /\ \A j \in capacity .. c - 1 : Reallocated(c)[j] = Garbage
    BY <1>1, <2>2, <2>3, <2>4
  <2> QED
    BY <1>0, <2>1, <2>2, <2>3, <2>5
<1> QED
  BY <1>2, <1>3

LEMMA StoreInv ==
  ASSUME IInv, NEW i \in I64, NEW v \in Value, StoreInPlace(i, v) \/ StoreGrowing(i, v)
  PROVE  IInv'
  BY StoreBlock, WriteInv

\* The range check keeps a load below the length, hence in the block.
LEMMA LoadInv == ASSUME IInv, NEW i \in I64, Load(i) PROVE IInv'
<1>1. /\ phase = "live" /\ i < length /\ i >= 0 /\ asked' = i
      /\ length' = length /\ capacity' = capacity /\ cells' = cells
  BY DEF Load, PassesChecks, IInv, TypeOK, I64
<1>2. i \in DOMAIN cells /\ i \in Nat
  BY <1>1 DEF IInv, TypeOK, CapacityIsAllocated, I64
<1>3. phase' = phase /\ answer' \in ReadOf(cells[i])
  BY <1>2 DEF Load
<1>4. answer' \in Value
  BY <1>2, <1>3, ValueAssumption DEF ReadOf, IInv, TypeOK
<1>5. Written' = Written
  BY <1>1 DEF Written
<1> QED
  BY <1>1, <1>2, <1>3, <1>4, <1>5 DEF IInv, TypeOK, CapacityIsAllocated,
     StaysInBlock, LengthIsLargestStored

LEMMA PanicsInv == ASSUME IInv, Panics PROVE IInv'
<1>1. /\ phase' \in {"new_panicked", "store_panicked", "load_panicked"}
      /\ asked' \in I64
  BY DEF IInv, TypeOK, Panics, NewPanics, StorePanics, LoadPanics
<1>2. UNCHANGED <<length, capacity, cells, answer>>
  BY DEF Panics
<1> QED
  BY <1>1, <1>2 DEF IInv, TypeOK, CapacityIsAllocated, StaysInBlock, LengthIsLargestStored

LEMMA StutterInv == ASSUME IInv, UNCHANGED vars PROVE IInv'
  BY DEF vars, IInv, TypeOK, CapacityIsAllocated, StaysInBlock,
     LengthIsLargestStored, Written

LEMMA IInvNext == IInv /\ [Next]_vars => IInv'
<1> SUFFICES ASSUME IInv, [Next]_vars PROVE IInv'
  OBVIOUS
<1>1. ASSUME NEW s \in Sizes, New(s) PROVE IInv'
  BY <1>1, NewInv
<1>2. ASSUME NEW i \in I64, Load(i) PROVE IInv'
  BY <1>2, LoadInv
<1>3. ASSUME NEW i \in I64, NEW v \in Value, StoreInPlace(i, v) \/ StoreGrowing(i, v)
      PROVE  IInv'
  BY <1>3, StoreInv
<1>4. CASE Panics
  BY <1>4, PanicsInv
<1>5. CASE UNCHANGED vars
  BY <1>5, StutterInv
<1> QED
  BY <1>1, <1>2, <1>3, <1>4, <1>5 DEF Next

-----------------------------------------------------------------------------
(* The theorems.                                                            *)

\* Every reachable state satisfies the inductive invariant, for every word
\* size, element size and allocator limit that meet the assumptions.
THEOREM ArrayInvariance == Spec => []IInv
  BY IInvInit, IInvNext, PTL DEF Spec

\* The fields keep their types: no arithmetic of the growth leaves a negative
\* capacity or length behind.
THEOREM ArrayTypes == Spec => []TypeOK
<1>1. IInv => TypeOK
  BY DEF IInv
<1> QED
  BY <1>1, ArrayInvariance, PTL

\* The capacity field is what the block was allocated for, however large the
\* index of a store.
THEOREM CapacityIsTrue == Spec => []CapacityIsAllocated
<1>1. IInv => CapacityIsAllocated
  BY DEF IInv
<1> QED
  BY <1>1, ArrayInvariance, PTL

\* No call reads or writes outside the block, though the bounds check of the
\* slice is too generous.
THEOREM NoWildAccess == Spec => []StaysInBlock
<1>1. IInv => StaysInBlock
  BY DEF IInv
<1> QED
  BY <1>1, ArrayInvariance, PTL

\* The range check of a load compares with the largest index stored.
THEOREM LengthIsExact == Spec => []LengthIsLargestStored
<1>1. IInv => LengthIsLargestStored
  BY DEF IInv
<1> QED
  BY <1>1, ArrayInvariance, PTL
-----------------------------------------------------------------------------
(* The refinement.                                                          *)

\* The range check against the length is the one of the abstract array.
LEMMA AboveIsPastTheEnd ==
  ASSUME IInv, phase = "live", NEW i \in Nat
  PROVE  Abstract!Above(i) <=> length <= i
<1>1. /\ length \in Nat /\ Written \subseteq Nat
      /\ length > 0 => length - 1 \in Written
      /\ \A j \in Written : j < length
  BY DEF IInv, TypeOK, LengthIsLargestStored, Written
<1>2. DOMAIN [k \in Written |-> cells[k]] = Written
  OBVIOUS
<1>3. CASE length <= i
  <2>1. \A j \in Written : j < i
    BY <1>1, <1>3
  <2> QED
    BY <1>2, <1>3, <2>1 DEF Abstract!Above
<1>4. CASE ~(length <= i)
  <2>1. length - 1 \in Written /\ ~(length - 1 < i)
    BY <1>1, <1>4
  <2> QED
    BY <1>2, <1>4, <2>1 DEF Abstract!Above
<1> QED
  BY <1>3, <1>4

\* What the slice's bounds check refuses is negative or past the capacity.
LEMMA RefusedIndex ==
  ASSUME IInv, phase = "live", NEW i \in I64, i >= 0, ~PassesChecks(i, capacity)
  PROVE  capacity <= i
<1>1. /\ capacity \in Nat \ {0} /\ capacity * ElemSize \in Nat
      /\ capacity <= capacity * ElemSize
      /\ HeaderSize + capacity * ElemSize <= MaxBytes /\ HeaderSize \in Nat
      /\ Half \in Nat \ {0} /\ 2 * MaxBytes < Half /\ MaxBytes \in Nat
  BY LiveCapacity
<1>2. HeaderSize + capacity * ElemSize < 2 * Half
  BY <1>1
<1>3. Bytes(capacity) = capacity * ElemSize
  BY <1>1, <1>2, SmallBlock
<1>4. ~(i < HeaderSize + capacity * ElemSize) /\ i \in Int
  BY <1>1, <1>3 DEF PassesChecks, BlockBytes, I64
<1> QED
  BY <1>1, <1>4

\* A call that panics had a negative index, or one past the largest stored, or
\* found no memory for one.
LEMMA PanicIndex ==
  ASSUME IInv, phase = "live", NEW i \in I64,
         ~Fits(i, capacity) \/ ~PassesChecks(i, capacity) \/ length <= i
  PROVE  i < 0 \/ Abstract!Above(i)
<1> SUFFICES ASSUME ~(i < 0) PROVE Abstract!Above(i)
  OBVIOUS
<1>1. /\ i \in Nat /\ capacity \in Nat /\ length \in Nat /\ length <= capacity
  BY MemoryAssumption DEF IInv, TypeOK, CapacityIsAllocated, I64
<1>2. capacity <= i \/ length <= i
  BY <1>1, RefusedIndex DEF Fits
<1> QED
  BY <1>1, <1>2, AboveIsPastTheEnd

LEMMA InitRefines == Init => Abstract!Init
<1> SUFFICES ASSUME Init PROVE Abstract!Init
  OBVIOUS
<1>1. Written = {}
  BY DEF Init, Written
<1>2. [k \in Written |-> cells[k]] = <<>>
  BY <1>1
<1> QED
  BY <1>2 DEF Init, Abstract!Init

\* A block that is made holds nothing that was stored.
LEMMA NewRefines ==
  ASSUME IInv, NEW s \in Sizes, New(s)
  PROVE  Abstract!New
<1>1. phase = "none" /\ phase' = "live" /\ UNCHANGED <<asked, answer>>
      /\ cells' = Cleaned(SizeOrDefault(s)) /\ cells = <<>>
  BY DEF New, IInv
<1>2. Written = {} /\ Written' = {}
  BY <1>1 DEF Written, Cleaned
<1>3. [k \in Written |-> cells[k]]' = [k \in Written |-> cells[k]]
  BY <1>2
<1> QED
  BY <1>1, <1>3 DEF Abstract!New

LEMMA StoreRefines ==
  ASSUME IInv, NEW i \in I64, NEW v \in Value, StoreInPlace(i, v) \/ StoreGrowing(i, v)
  PROVE  Abstract!Store(i, v)
<1>1. /\ phase = "live" /\ i >= 0 /\ phase' = "live" /\ asked' = i /\ answer' = NoAnswer
      /\ Written' = Written \cup {i} /\ cells'[i] = v
      /\ \A j \in Written : j # i => cells'[j] = cells[j]
  BY StoreBlock, WriteFacts
<1>2. [k \in Written |-> cells[k]]'
        = [j \in Written \cup {i} |-> IF j = i THEN v ELSE [k \in Written |-> cells[k]][j]]
  BY <1>1
<1> QED
  BY <1>1, <1>2 DEF Abstract!Store, Abstract!Stored

\* An element that was stored reads as it was; another is below the length too.
LEMMA LoadRefines ==
  ASSUME IInv, NEW i \in I64, Load(i)
  PROVE  Abstract!Load(i)
<1>1. /\ phase = "live" /\ i < length /\ i >= 0 /\ asked' = i
      /\ length \in Nat /\ cells' = cells /\ i \in Nat
  BY DEF Load, PassesChecks, IInv, TypeOK, I64
<1>2. i \in DOMAIN cells /\ cells[i] \in Value \cup {Cleared, Garbage}
  BY <1>1 DEF IInv, TypeOK, CapacityIsAllocated
<1>3. phase' = phase /\ answer' \in ReadOf(cells[i])
  BY <1>2 DEF Load
<1>4. Written' = Written
  BY <1>1 DEF Written
<1>5. ~Abstract!Above(i)
  BY <1>1, AboveIsPastTheEnd
<1>6. CASE i \in Written
  <2>1. answer' = cells[i]
    BY <1>3, <1>6 DEF Written, ReadOf
  <2> QED
    BY <1>1, <1>3, <1>4, <1>5, <1>6, <2>1 DEF Abstract!Load
<1>7. CASE i \notin Written
  <2>1. answer' \in Value
    BY <1>2, <1>3, ValueAssumption DEF ReadOf
  <2> QED
    BY <1>1, <1>3, <1>4, <1>5, <1>7, <2>1 DEF Abstract!Load
<1> QED
  BY <1>6, <1>7

LEMMA PanicsRefine == ASSUME IInv, Panics PROVE Abstract!Next
<1>1. UNCHANGED <<cells, answer>> /\ Written' = Written
  BY DEF Panics, Written
<1>2. CASE NewPanics
  BY <1>1, <1>2 DEF NewPanics, Abstract!NewPanics, Abstract!Next
<1>3. ASSUME NEW i \in I64, StorePanics(i) PROVE Abstract!Next
  <2>1. Abstract!StorePanics(i)
    BY <1>1, <1>3, PanicIndex DEF StorePanics, Abstract!StorePanics
  <2> QED
    BY <2>1 DEF Abstract!Next
<1>4. ASSUME NEW i \in I64, LoadPanics(i) PROVE Abstract!Next
  <2>1. Abstract!LoadPanics(i)
    BY <1>1, <1>4, PanicIndex DEF LoadPanics, Abstract!LoadPanics
  <2> QED
    BY <2>1 DEF Abstract!Next
<1> QED
  BY <1>2, <1>3, <1>4 DEF Panics

LEMMA StepRefines == IInv /\ [Next]_vars => [Abstract!Next]_(Abstract!vars)
<1> SUFFICES ASSUME IInv, [Next]_vars PROVE [Abstract!Next]_(Abstract!vars)
  OBVIOUS
<1>1. ASSUME NEW s \in Sizes, New(s) PROVE Abstract!Next
  BY <1>1, NewRefines DEF Abstract!Next
<1>2. ASSUME NEW i \in I64, Load(i) PROVE Abstract!Next
  BY <1>2, LoadRefines DEF Abstract!Next
<1>3. ASSUME NEW i \in I64, NEW v \in Value, StoreInPlace(i, v) \/ StoreGrowing(i, v)
      PROVE  Abstract!Next
  BY <1>3, StoreRefines DEF Abstract!Next
<1>4. CASE Panics
  BY <1>4, PanicsRefine
<1>5. CASE UNCHANGED vars
  BY <1>5 DEF vars, Abstract!vars, Written
<1> QED
  BY <1>1, <1>2, <1>3, <1>4, <1>5 DEF Next

\* The int and byte arrays implement the abstract array: whatever the block
\* was moved to and however the arithmetic of its growth wrapped, a load gives
\* what was stored last, and a call panics only out of range or out of memory.
THEOREM BlockImplementsArray == Spec => RefinesArraySpec
<1>1. IInv /\ [Next]_vars => [Abstract!Next]_(Abstract!vars)
  BY StepRefines
<1> QED
  BY <1>1, InitRefines, ArrayInvariance, PTL DEF Spec, RefinesArraySpec, Abstract!Spec
=============================================================================
