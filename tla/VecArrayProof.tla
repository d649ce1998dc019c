--------------------------- MODULE VecArrayProof ---------------------------
(***************************************************************************)
(* The arrays of VecArray for every word size and every length: IInv is    *)
(* inductive, and the arrays that take their index as an i64 implement the *)
(* abstract array of ArraySpec.                                            *)
(***************************************************************************)
EXTENDS VecArrayProperties, TLAPS

-----------------------------------------------------------------------------
(* Conversions.                                                             *)

LEMMA SmallMod == \A x \in Nat, m \in Nat \ {0} : x < m => x % m = x
  BY SMT

LEMMA ModOfSum ==
  \A x \in Int, m \in Nat \ {0} : x < 0 /\ 0 <= x + m => x % m = x + m
  BY SMT

LEMMA ModType == \A x \in Int, m \in Nat \ {0} : x % m \in Nat /\ x % m < m
  BY SMT

LEMMA InInterval == \A x \in Nat : \A k \in 0 .. x - 1 : k \in Nat /\ k < x
  BY SMT

LEMMA LongerInterval ==
  \A x \in Nat, y \in Nat :
    x <= y => \A k \in 0 .. x - 1 : k \in 0 .. y - 1 /\ k < x
  BY SMT

LEMMA BeyondInterval ==
  \A x \in Nat, y \in Nat :
    \A k \in 0 .. y - 1 : k \notin 0 .. x - 1 => ~(k < x)
  BY SMT

\* A length that is kept or becomes k + 1, and its last element.
LEMMA LastOfLength ==
  \A x \in Nat, y \in Nat, k \in Nat :
    k < y /\ (y = x \/ y = k + 1) =>
      /\ y - 1 \in 0 .. y - 1
      /\ y - 1 = k \/ (y = x /\ y - 1 = x - 1 /\ y - 1 < x /\ x > 0)
  BY SMT

\* index as usize, and index_n + 1: the sum wraps for the last usize only.
LEMMA UsizeFacts ==
  ASSUME NEW i \in I64
  PROVE  /\ AsUsize(i) \in Nat /\ LengthFor(i) \in Nat
         /\ \/ LengthFor(i) = AsUsize(i) + 1
            \/ LengthFor(i) = 0 /\ AsUsize(i) = 2 * Half - 1
<1> DEFINE n == AsUsize(i)
           w == 2 * Half
<1>1. w \in Nat \ {0} /\ 2 * IndexHalf \in Nat \ {0}
  BY WordAssumption
<1>2. Received(i) \in Int
  <2>1. (i + IndexHalf) % (2 * IndexHalf) \in Nat
    BY <1>1, ModType, WordAssumption DEF I64
  <2> QED
    BY <2>1, WordAssumption DEF Received
<1>3. n \in Nat /\ n < w
  BY <1>1, <1>2, ModType DEF AsUsize
<1>4. LengthFor(i) = (n + 1) % w
  BY DEF LengthFor
<1>5. CASE n + 1 < w
  BY <1>1, <1>3, <1>4, <1>5, SmallMod
<1>6. CASE ~(n + 1 < w)
  <2>1. n + 1 = w
    BY <1>1, <1>3, <1>6
  <2>2. w % w = 0
    <3> HIDE DEF w
    <3> QED
      BY <1>1, SMT
  <2> QED
    BY <1>1, <1>3, <1>4, <2>1, <2>2
<1> QED
  BY <1>5, <1>6

\* An index that is passed in its own width arrives as it is; a negative one
\* becomes a usize no Vec can reach.
LEMMA WholeIndex ==
  ASSUME IndexHalf = Half, NEW i \in I64
  PROVE  /\ 0 <= i => AsUsize(i) = i
         /\ i < 0 => AsUsize(i) >= Half
<1> DEFINE w == 2 * Half
<1>1. w \in Nat \ {0} /\ i + Half \in Nat /\ i + Half < w
  BY WordAssumption DEF I64
<1>2. Received(i) = i
  <2>1. (i + Half) % w = i + Half
    BY <1>1, SmallMod
  <2> QED
    BY <2>1, WordAssumption DEF Received, I64
<1>3. CASE 0 <= i
  <2>1. i \in Nat /\ i < w
    BY <1>3, WordAssumption DEF I64
  <2> QED
    BY <1>1, <1>2, <1>3, <2>1, SmallMod DEF AsUsize
<1>4. CASE i < 0
  <2>1. i \in Int /\ i < 0 /\ 0 <= i + w /\ i + w >= Half
    BY <1>4, WordAssumption DEF I64
  <2>2. i % w = i + w
    BY <1>1, <2>1, ModOfSum
  <2> QED
    BY <1>2, <1>4, <2>1, <2>2 DEF AsUsize
<1> QED
  BY <1>3, <1>4 DEF I64

-----------------------------------------------------------------------------
(* The invariant.                                                           *)

LEMMA IInvInit == Init => IInv
  BY WordAssumption, ValueAssumption
     DEF Init, IInv, TypeOK, LastIsStored, Stored, I64

\* What a store does to the Vec: the element stored is the only one of which
\* the new length is made, or the length stays.
LEMMA StoreFacts ==
  ASSUME IInv, NEW i \in I64, NEW v \in Value, Store(i, v)
  PROVE  /\ AsUsize(i) \in 0 .. len' - 1 /\ len' \in 0 .. MaxLen
         /\ len' = len \/ (len' > len /\ len' = AsUsize(i) + 1)
         /\ DOMAIN elems' = 0 .. len' - 1
         /\ elems'[AsUsize(i)] = v
         /\ \A j \in 0 .. len' - 1 :
              j # AsUsize(i) =>
                elems'[j] = IF j < len THEN elems[j] ELSE Filler
<1> DEFINE n == AsUsize(i)
           l == LengthFor(i)
<1>1. n \in Nat /\ l \in Nat /\ (l = n + 1 \/ (l = 0 /\ n = 2 * Half - 1))
  BY UsizeFacts
<1>2. len \in 0 .. MaxLen /\ elems \in [0 .. len - 1 -> Value \cup {Filler}]
  BY DEF IInv, TypeOK
<1>3. /\ l <= MaxLen /\ n < LengthAfter(l) /\ len' = LengthAfter(l)
      /\ elems' = [Resized(l) EXCEPT ![n] = v]
  BY DEF Store
<1> HIDE DEF n, l
<1>4. /\ len' \in 0 .. MaxLen /\ n \in 0 .. len' - 1
      /\ len' = len \/ (len' > len /\ len' = n + 1)
  BY <1>1, <1>2, <1>3, WordAssumption DEF LengthAfter
<1>5. Resized(l) = [j \in 0 .. len' - 1 |-> IF j < len THEN elems[j] ELSE Filler]
  BY <1>3 DEF Resized
<1>6. /\ DOMAIN elems' = 0 .. len' - 1 /\ elems'[n] = v
      /\ \A j \in 0 .. len' - 1 :
           j # n => elems'[j] = IF j < len THEN elems[j] ELSE Filler
  BY <1>3, <1>4, <1>5
<1> QED
  BY <1>4, <1>6 DEF n

LEMMA StoreInv ==
  ASSUME IInv, NEW i \in I64, NEW v \in Value, Store(i, v)
  PROVE  IInv'
<1> DEFINE n == AsUsize(i)
           last == len' - 1
<1>1. /\ n \in 0 .. len' - 1 /\ len' \in 0 .. MaxLen
      /\ len' = len \/ (len' > len /\ len' = n + 1)
  BY StoreFacts
<1>2. /\ DOMAIN elems' = 0 .. len' - 1 /\ elems'[n] = v
      /\ \A j \in 0 .. len' - 1 :
           j # n => elems'[j] = IF j < len THEN elems[j] ELSE Filler
  BY StoreFacts
<1>3. elems' = [j \in 0 .. len' - 1 |-> elems'[j]]
  BY <1>2 DEF Store, Resized
<1> HIDE DEF n
<1>4. /\ len \in Nat /\ len' \in Nat /\ n \in Nat /\ n < len'
      /\ len' = len \/ (len' > len /\ len' = n + 1)
  <2>1. len \in 0 .. MaxLen /\ MaxLen \in Nat
    BY WordAssumption DEF IInv, TypeOK
  <2>2. len \in Nat /\ len' \in Nat
    BY <1>1, <2>1
  <2>3. n \in Nat /\ n < len'
    BY <1>1, <2>2, InInterval
  <2> QED
    BY <1>1, <2>2, <2>3
<1>5. elems \in [0 .. len - 1 -> Value \cup {Filler}]
  BY DEF IInv, TypeOK
<1>6. elems' \in [0 .. len' - 1 -> Value \cup {Filler}]
  <2>1. ASSUME NEW j \in 0 .. len' - 1 PROVE elems'[j] \in Value \cup {Filler}
    <3>1. CASE j = n
      BY <1>2, <3>1
    <3>2. CASE j # n /\ j < len
      <4>1. j \in 0 .. len - 1
        BY <1>4, <3>2
      <4>2. elems'[j] = elems[j]
        BY <1>2, <3>2
      <4> QED
        BY <1>5, <4>1, <4>2
    <3>3. CASE j # n /\ ~(j < len)
      BY <1>2, <3>3
    <3> QED
      BY <3>1, <3>2, <3>3
  <2> QED
    BY <1>3, <2>1
<1>7. TypeOK'
  BY <1>1, <1>6 DEF Store, IInv, TypeOK
<1>8. last \in 0 .. len' - 1 /\ (last = n \/ (last = len - 1 /\ last < len /\ len > 0))
  <2>1. len' = len \/ len' = n + 1
    BY <1>4
  <2>2. \A y \in Nat :
          n < y /\ (y = len \/ y = n + 1) =>
            /\ y - 1 \in 0 .. y - 1
            /\ y - 1 = n \/ (y - 1 = len - 1 /\ y - 1 < len /\ len > 0)
    BY <1>4, LastOfLength
  <2> QED
    BY <1>4, <2>1, <2>2, Zenon
<1> HIDE DEF last
<1>9. elems'[last] # Filler
  <2>1. CASE last = n
    BY <1>2, <2>1, ValueAssumption
  <2>2. CASE last # n
    <3>1. elems'[last] = elems[last]
      BY <1>2, <1>8, <2>2
    <3>2. elems[len - 1] # Filler
      BY <1>8, <2>2 DEF IInv, LastIsStored, Stored
    <3> QED
      BY <1>8, <2>2, <3>1, <3>2
  <2> QED
    BY <2>1, <2>2
<1>10. LastIsStored'
  BY <1>2, <1>8, <1>9 DEF LastIsStored, Stored, last
<1> QED
  BY <1>4, <1>7, <1>10 DEF IInv, Store

LEMMA LoadInv ==
  ASSUME IInv, NEW i \in I64, Load(i)
  PROVE  IInv'
<1>1. AsUsize(i) \in 0 .. len - 1
  BY UsizeFacts DEF Load, InBounds, IInv, TypeOK
<1>2. elems[AsUsize(i)] \in Value \cup {Filler}
  BY <1>1 DEF IInv, TypeOK
<1>3. answer' \in Value \cup {Zero, NoAnswer}
  BY <1>2 DEF Load, ReadOf
<1> QED
  BY <1>3 DEF Load, IInv, TypeOK, LastIsStored, Stored

LEMMA IInvNext == IInv /\ [Next]_vars => IInv'
<1> SUFFICES ASSUME IInv, [Next]_vars PROVE IInv'
  OBVIOUS
<1>1. CASE New
  BY <1>1 DEF New, IInv, TypeOK, LastIsStored, Stored
<1>2. CASE NewPanics
  BY <1>2 DEF NewPanics, IInv, TypeOK, LastIsStored, Stored
<1>3. CASE PrintPanics
  BY <1>3 DEF PrintPanics, IInv, TypeOK, LastIsStored, Stored
<1>4. ASSUME NEW i \in I64, Load(i) PROVE IInv'
  BY <1>4, LoadInv
<1>5. ASSUME NEW i \in I64, StorePanics(i) PROVE IInv'
  BY <1>5 DEF StorePanics, IInv, TypeOK, LastIsStored, Stored
<1>6. ASSUME NEW i \in I64, LoadPanics(i) PROVE IInv'
  BY <1>6 DEF LoadPanics, IInv, TypeOK, LastIsStored, Stored
<1>7. ASSUME NEW i \in I64, NEW v \in Value, Store(i, v) PROVE IInv'
  BY <1>7, StoreInv
<1>8. CASE UNCHANGED vars
  BY <1>8 DEF vars, IInv, TypeOK, LastIsStored, Stored
<1> QED
  BY <1>1, <1>2, <1>3, <1>4, <1>5, <1>6, <1>7, <1>8 DEF Next

-----------------------------------------------------------------------------
(* The theorems.                                                            *)

\* Every reachable state of an array satisfies the inductive invariant, in
\* whatever width its index arrives.
THEOREM VecInvariance == Spec => []IInv
  BY IInvInit, IInvNext, PTL DEF Spec

\* The variables keep their types: the elements are indexed by exactly the
\* positions below the length, which stays below the limit of the allocator
\* through every resize (lib.rs:194-226).
THEOREM VecTypes == Spec => []TypeOK
<1>1. IInv => TypeOK
  BY DEF IInv
<1> QED
  BY <1>1, VecInvariance, PTL

\* resize makes a Vec exactly as long as the store needs, so comparing with
\* its length is comparing with the largest index stored (lib.rs:196, :223).
THEOREM VecEndsAtAStore == Spec => []LastIsStored
<1>1. IInv => LastIsStored
  BY DEF IInv
<1> QED
  BY <1>1, VecInvariance, PTL
-----------------------------------------------------------------------------
(* The refinement.                                                          *)

\* The range check against the length is the one of the abstract array.
LEMMA AboveIsPastTheEnd ==
  ASSUME IInv, NEW i \in Nat
  PROVE  Abstract!Above(i) <=> len <= i
<1>0. len \in Nat /\ DOMAIN elems = 0 .. len - 1 /\ Stored \subseteq DOMAIN elems
  <2>1. len \in 0 .. MaxLen /\ MaxLen \in Nat
    BY WordAssumption DEF IInv, TypeOK
  <2> QED
    BY <2>1 DEF IInv, TypeOK, Stored
<1>1. DOMAIN [k \in Stored |-> elems[k]] = Stored
  OBVIOUS
<1>2. CASE len <= i
  <2>1. \A j \in Stored : j < i
    BY <1>0, <1>2
  <2> QED
    BY <1>1, <1>2, <2>1 DEF Abstract!Above
<1>3. CASE ~(len <= i)
  <2>1. len > 0 /\ len - 1 \in Stored /\ ~(len - 1 < i)
    BY <1>0, <1>3 DEF IInv, LastIsStored
  <2> QED
    BY <1>1, <1>3, <2>1 DEF Abstract!Above
<1> QED
  BY <1>2, <1>3

LEMMA InitRefines == Init => Abstract!Init
<1> SUFFICES ASSUME Init PROVE Abstract!Init
  OBVIOUS
<1>1. Stored = {}
  BY DEF Init, Stored
<1>2. [k \in Stored |-> elems[k]] = <<>>
  BY <1>1
<1> QED
  BY <1>2 DEF Init, Abstract!Init

LEMMA StoreRefines ==
  ASSUME IInv, IndexHalf = Half, NEW i \in I64, NEW v \in Value, Store(i, v)
  PROVE  Abstract!Store(i, v)
<1>1. /\ AsUsize(i) \in 0 .. len' - 1 /\ len' \in 0 .. MaxLen
      /\ len' = len \/ (len' > len /\ len' = AsUsize(i) + 1)
      /\ DOMAIN elems' = 0 .. len' - 1
      /\ elems'[AsUsize(i)] = v
      /\ \A j \in 0 .. len' - 1 :
           j # AsUsize(i) =>
             elems'[j] = IF j < len THEN elems[j] ELSE Filler
  BY StoreFacts
<1>2. len \in Nat /\ len' \in Nat /\ len' < Half /\ DOMAIN elems = 0 .. len - 1
  <2>1. len \in 0 .. MaxLen /\ MaxLen \in Nat /\ MaxLen < Half /\ Half \in Nat
    BY WordAssumption DEF IInv, TypeOK
  <2> QED
    BY <1>1, <2>1 DEF IInv, TypeOK
<1>3. i >= 0 /\ AsUsize(i) = i
  <2>1. i \in Int /\ Half \in Nat /\ AsUsize(i) \in Nat /\ AsUsize(i) < len'
    BY <1>1, <1>2, InInterval, WordAssumption DEF I64
  <2>2. ~(AsUsize(i) >= Half)
    BY <1>2, <2>1
  <2> QED
    BY <2>1, <2>2, WholeIndex
<1>4. v # Filler /\ i \in 0 .. len' - 1
  BY <1>1, <1>3, ValueAssumption
<1>5. ASSUME NEW j, j # i
      PROVE  /\ j \in Stored' <=> j \in Stored
             /\ j \in Stored => elems'[j] = elems[j]
  <2>1. CASE j \in 0 .. len - 1
    <3>1. j \in 0 .. len' - 1 /\ j < len
      <4>1. len <= len'
        BY <1>1, <1>2
      <4> QED
        BY <1>2, <2>1, <4>1, LongerInterval, Zenon
    <3>2. elems'[j] = elems[j]
      BY <1>1, <1>3, <1>5, <3>1
    <3> QED
      BY <1>1, <1>2, <2>1, <3>1, <3>2 DEF Stored
  <2>2. CASE j \notin 0 .. len - 1
    <3>1. j \notin Stored
      BY <1>2, <2>2 DEF Stored
    <3>2. ASSUME j \in 0 .. len' - 1 PROVE elems'[j] = Filler
      <4>1. ~(j < len)
        BY <1>2, <2>2, <3>2, BeyondInterval, Zenon
      <4> QED
        BY <1>1, <1>3, <1>5, <3>2, <4>1
    <3> QED
      BY <1>1, <3>1, <3>2 DEF Stored
  <2> QED
    BY <2>1, <2>2
<1>6. i \in Stored' /\ elems'[i] = v
  BY <1>1, <1>3, <1>4 DEF Stored
<1>7. Stored' = Stored \cup {i}
  BY <1>5, <1>6
<1>8. [k \in Stored |-> elems[k]]'
        = [j \in Stored \cup {i} |-> IF j = i THEN v ELSE [k \in Stored |-> elems[k]][j]]
  BY <1>5, <1>6, <1>7
<1> QED
  BY <1>3, <1>8 DEF Abstract!Store, Abstract!Stored, Store

LEMMA LoadRefines ==
  ASSUME IInv, IndexHalf = Half, NEW i \in I64, Load(i)
  PROVE  Abstract!Load(i)
<1>1. /\ len \in Nat /\ len < Half /\ Half \in Nat /\ i \in Int
      /\ DOMAIN elems = 0 .. len - 1 /\ len > AsUsize(i) /\ AsUsize(i) \in Nat
  BY UsizeFacts, WordAssumption DEF IInv, TypeOK, Load, InBounds, I64
<1>2. i >= 0 /\ AsUsize(i) = i
  <2>1. ~(AsUsize(i) >= Half)
    BY <1>1
  <2> QED
    BY <1>1, <2>1, WholeIndex
<1>3. ~Abstract!Above(i)
  BY <1>1, <1>2, AboveIsPastTheEnd
<1>4. i \in DOMAIN elems /\ answer' = ReadOf(elems[i])
  BY <1>1, <1>2 DEF Load
<1>5. answer' \in IF i \in DOMAIN [k \in Stored |-> elems[k]]
                    THEN {[k \in Stored |-> elems[k]][i]} ELSE {Zero}
  BY <1>4 DEF Stored, ReadOf
<1> QED
  BY <1>2, <1>3, <1>5 DEF Abstract!Load, Load, Stored

\* A call that panics had a negative index, or one past the largest stored.
LEMMA PanicIndex ==
  ASSUME IInv, IndexHalf = Half, NEW i \in I64,
         \/ LengthFor(i) > len
         \/ AsUsize(i) >= LengthAfter(LengthFor(i))
         \/ ~InBounds(AsUsize(i))
  PROVE  i < 0 \/ Abstract!Above(i)
<1> SUFFICES ASSUME ~(i < 0) PROVE Abstract!Above(i)
  OBVIOUS
<1>1. len \in Nat /\ Half \in Nat \ {0} /\ i \in Nat /\ i < Half
  BY WordAssumption DEF IInv, TypeOK, I64
<1>2. AsUsize(i) = i
  BY <1>1, WholeIndex
<1>3. LengthFor(i) = i + 1
  BY <1>1, <1>2, UsizeFacts
<1>4. len <= i
  BY <1>1, <1>2, <1>3 DEF LengthAfter, InBounds
<1> QED
  BY <1>1, <1>4, AboveIsPastTheEnd

LEMMA StepRefines ==
  IndexHalf = Half /\ IInv /\ [Next]_vars => [Abstract!Next]_(Abstract!vars)
<1> SUFFICES ASSUME IndexHalf = Half, IInv, [Next]_vars
             PROVE  [Abstract!Next]_(Abstract!vars)
  OBVIOUS
<1>1. CASE New
  BY <1>1 DEF New, Abstract!New, Abstract!Next, Stored
<1>2. CASE NewPanics
  BY <1>2 DEF NewPanics, Abstract!NewPanics, Abstract!Next, Stored
<1>3. CASE PrintPanics
  BY <1>3 DEF PrintPanics, Abstract!vars, Stored
<1>4. ASSUME NEW i \in I64, Load(i) PROVE Abstract!Next
  BY <1>4, LoadRefines DEF Abstract!Next
<1>5. ASSUME NEW i \in I64, StorePanics(i) PROVE Abstract!Next
  <2>1. i < 0 \/ Abstract!Above(i)
    BY <1>5, PanicIndex DEF StorePanics
  <2>2. Abstract!StorePanics(i)
    BY <1>5, <2>1 DEF StorePanics, Abstract!StorePanics, Stored
  <2> QED
    BY <2>2 DEF Abstract!Next
<1>6. ASSUME NEW i \in I64, LoadPanics(i) PROVE Abstract!Next
  <2>1. i < 0 \/ Abstract!Above(i)
    BY <1>6, PanicIndex DEF LoadPanics
  <2>2. Abstract!LoadPanics(i)
    BY <1>6, <2>1 DEF LoadPanics, Abstract!LoadPanics, Stored
  <2> QED
    BY <2>2 DEF Abstract!Next
<1>7. ASSUME NEW i \in I64, NEW v \in Value, Store(i, v) PROVE Abstract!Next
  BY <1>7, StoreRefines DEF Abstract!Next
<1>8. CASE UNCHANGED vars
  BY <1>8 DEF vars, Abstract!vars, Stored
<1> QED
  BY <1>1, <1>2, <1>3, <1>4, <1>5, <1>6, <1>7, <1>8 DEF Next

\* Passed their index as an i64, as the float, boolean and string arrays are,
\* the Vec arrays implement the abstract array: every store and load has the
\* effect and the answer it promises, and a call panics only out of range or
\* out of memory.
THEOREM VecImplementsArray ==
  ASSUME IndexHalf = Half
  PROVE  Spec => RefinesArraySpec
<1>1. IInv /\ [Next]_vars => [Abstract!Next]_(Abstract!vars)
  BY StepRefines
<1> QED
  BY <1>1, InitRefines, VecInvariance, PTL DEF Spec, RefinesArraySpec, Abstract!Spec
=============================================================================
