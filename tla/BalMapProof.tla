---------------------------- MODULE BalMapProof ----------------------------
(***************************************************************************)
(* The safety properties of the hash table, for every set of maps and      *)
(* keys, every hash function and every size: IInv of BalMapProperties is   *)
(* inductive, and implies each of them.                                    *)
(***************************************************************************)
EXTENDS BalMapProperties, FiniteSetTheorems, WellFoundedInduction, TLAPS

\* The remainder that picks a slot is a slot.
LEMMA ModBound == \A x \in Nat, m \in Nat \ {0} : x % m \in 0 .. m - 1
  BY SMT

\* The load factor leaves a table at least one slot more than its capacity.
LEMMA CapBound ==
  \A m \in Nat : Cap(m) \in Nat /\ Cap(m) <= m /\ (m > 0 => Cap(m) < m)
  BY SMT DEF Cap

\* A key's home is a slot of the table.
LEMMA HomeInRange ==
  ASSUME TypeOK, NEW t \in Tables, Created(t), NEW k \in Key
  PROVE  Home(k, t) \in 0 .. n_entries[t] - 1
<1>1. Hash[k] \in Nat /\ n_entries[t] \in Nat \ {0}
  BY KeyAssumption DEF TypeOK, TableTypeOK, Created
<1> QED
  BY <1>1, ModBound DEF Home

\* The slots in use are finitely many.
LEMMA OccupiedFinite ==
  ASSUME TypeOK, NEW t \in Tables
  PROVE  /\ IsFiniteSet(Occupied(t)) /\ Cardinality(Occupied(t)) \in Nat
         /\ Cardinality(Occupied(t)) <= n_entries[t]
         /\ Cardinality(Occupied(t)) = n_entries[t] =>
              Occupied(t) = 0 .. n_entries[t] - 1
<1> DEFINE S == 0 .. n_entries[t] - 1
<1>0. n_entries[t] \in Nat
  BY DEF TypeOK, TableTypeOK
<1>1. IsFiniteSet(S) /\ Cardinality(S) = n_entries[t]
  <2> DEFINE last == n_entries[t] - 1
  <2>1. last \in Int /\ last + 1 = n_entries[t] /\ (0 > last => n_entries[t] = 0)
    BY <1>0
  <2> HIDE DEF last
  <2>2. IsFiniteSet(0 .. last) /\ Cardinality(0 .. last) = IF 0 > last THEN 0 ELSE last - 0 + 1
    BY <2>1, FS_Interval
  <2>3. Cardinality(0 .. last) = n_entries[t]
    BY <2>1, <2>2
  <2> QED
    BY <2>2, <2>3 DEF last
<1>2. Occupied(t) \in SUBSET S
  BY DEF Occupied
<1> QED
  BY <1>1, <1>2, FS_Subset, FS_CardinalityType

\* One step down the probe adds one slot to those passed.
LEMMA ProbeStep ==
  ASSUME TypeOK, NEW t \in Tables, NEW h \in 0 .. n_entries[t] - 1,
         NEW s \in 0 .. n_entries[t] - 1, NEW j \in 0 .. n_entries[t] - 1,
         Dist(t, h, j) < Dist(t, h, Prev(t, s))
  PROVE  Dist(t, h, j) < Dist(t, h, s) \/ j = s
<1>1. n_entries[t] \in Nat
  BY DEF TypeOK, TableTypeOK
<1> QED
  BY <1>1 DEF Dist, Prev

\* Distances along a probe are natural numbers, zero at its start only.
LEMMA DistType ==
  ASSUME TypeOK, NEW t \in Tables, NEW h \in 0 .. n_entries[t] - 1,
         NEW i \in 0 .. n_entries[t] - 1
  PROVE  Dist(t, h, i) \in Nat /\ Dist(t, h, h) = 0
<1>1. n_entries[t] \in Nat
  BY DEF TypeOK, TableTypeOK
<1> QED
  BY <1>1 DEF Dist

LEMMA InitIInv ==
  ASSUME Init PROVE IInv
<1> USE KeyAssumption, ValueAssumption, LocalAssumption, SizeAssumption DEF Init
<1>1. TypeOK
  BY DEF TypeOK, TableTypeOK, CounterTypeOK, Tables, Entry, ZeroTable, PCs, Ops
<1>2. \A t \in Tables : Occupied(t) = {} /\ ~Created(t)
  BY DEF Occupied, ZeroTable, Created
<1>3. UsedCountsEntries
  BY <1>2, FS_EmptySet DEF UsedCountsEntries
<1>4. UsedBelowCapacity /\ KeysReachable
  BY <1>2 DEF UsedBelowCapacity, KeysReachable
<1>5. NoNestedGrowth /\ InsertNeverShrinks /\ CallInv /\ ProbeInv /\ GrowInv
  BY DEF NoNestedGrowth, InsertNeverShrinks, CallInv, ProbeInv, GrowInv
<1>6. SizeInv
  BY <1>2 DEF SizeInv, SizesArePowersOf2, OverflowOnlyWhenNothingFits
<1> QED
  BY <1>1, <1>3, <1>4, <1>5, <1>6 DEF IInv


\* The entries the loops look at, and their keys' homes.
LEMMA LoopTypes ==
  ASSUME IInv
  PROVE  /\ pc \in {"probe", "find"} =>
              /\ slot \in 0 .. n_entries[cur] - 1 /\ entries[cur][slot] \in Entry
              /\ key \in Key /\ Home(key, cur) \in 0 .. n_entries[cur] - 1
         /\ pc = "rehash" /\ gi < n_entries[tgt] =>
              /\ gi \in 0 .. n_entries[tgt] - 1 /\ entries[tgt][gi] \in Entry
         /\ pc = "spread" /\ si < srcUsed =>
              /\ si \in 0 .. n_entries[src] - 1 /\ entries[src][si] \in Entry
<1>1. TypeOK /\ TableTypeOK /\ CounterTypeOK /\ CallInv /\ ProbeInv /\ GrowInv
  BY DEF IInv, TypeOK
<1>2. ASSUME NEW t \in Tables, NEW i \in Nat, i < n_entries[t]
      PROVE  i \in 0 .. n_entries[t] - 1 /\ entries[t][i] \in Entry
  BY <1>1, <1>2 DEF TableTypeOK
<1>3. ASSUME pc \in {"probe", "find"}
      PROVE  /\ slot \in 0 .. n_entries[cur] - 1 /\ entries[cur][slot] \in Entry
             /\ key \in Key /\ Home(key, cur) \in 0 .. n_entries[cur] - 1
  <2>1. key \in Key /\ Created(cur) /\ slot < n_entries[cur]
    BY <1>1, <1>3 DEF ProbeInv
  <2> QED
    BY <1>1, <1>2, <2>1, HomeInRange DEF TypeOK, CounterTypeOK
<1>4. ASSUME pc = "rehash", gi < n_entries[tgt]
      PROVE  gi \in 0 .. n_entries[tgt] - 1 /\ entries[tgt][gi] \in Entry
  BY <1>1, <1>2, <1>4 DEF TypeOK, CounterTypeOK
<1>5. ASSUME pc = "spread", si < srcUsed
      PROVE  si \in 0 .. n_entries[src] - 1 /\ entries[src][si] \in Entry
  <2>1. srcUsed <= n_entries[src]
    BY <1>1, <1>5 DEF CallInv
  <2>2. si < n_entries[src]
    BY <1>1, <1>5, <2>1 DEF TypeOK, CounterTypeOK, TableTypeOK
  <2> QED
    BY <1>1, <1>2, <2>2 DEF TypeOK, CounterTypeOK
<1> QED
  BY <1>3, <1>4, <1>5

\* Where a call is, every step of it types its variables.
LEMMA TypeStep ==
  ASSUME IInv, [Next]_vars
  PROVE  TypeOK'
<1> USE DEF vars, table, callVars, spreadVars, growVars, insVars
<1>0. TypeOK /\ TableTypeOK /\ CounterTypeOK
  BY DEF IInv, TypeOK
<1>1. \A m \in Nat : ZeroTable(m) \in [0 .. m - 1 -> Entry]
  BY ValueAssumption DEF ZeroTable, Entry, EmptyEntry
<1>2. ASSUME UNCHANGED table PROVE TableTypeOK'
  BY <1>0, <1>2 DEF TableTypeOK
<1>3. ASSUME NEW t \in Tables, NEW k \in Key, NEW v \in Value, Created(t), StartInsert(t, k, v),
             UNCHANGED <<table, callVars, minCap, n, src, srcUsed, out>>, gi' \in Nat, si' \in Nat
      PROVE  TypeOK'
  <2>1. Home(k, t) \in Nat
    BY <1>0, <1>3, HomeInRange DEF TableTypeOK
  <2>2. TableTypeOK' /\ CounterTypeOK'
    BY <1>0, <1>2, <1>3, <2>1 DEF StartInsert, CounterTypeOK
  <2> QED
    BY <1>0, <1>3, <2>2 DEF StartInsert, TypeOK, PCs
<1>4. ASSUME NEW m \in Map, Create(m) PROVE TypeOK'
  <2>1. TableTypeOK' /\ CounterTypeOK'
    BY <1>0, <1>2, <1>4, SizeAssumption DEF Create, CounterTypeOK
  <2> QED
    BY <1>0, <1>4, <2>1 DEF Create, TypeOK, PCs, Ops, Tables
<1>5. CASE DoubleSize
  <2>1. (2 * n) % SizeMod \in Nat
    BY <1>0, ModBound, SizeAssumption DEF CounterTypeOK
  <2>2. TableTypeOK' /\ CounterTypeOK'
    BY <1>0, <1>2, <1>5, <2>1 DEF DoubleSize, Doubled, CounterTypeOK
  <2> QED
    BY <1>0, <1>5, <2>2 DEF DoubleSize, TypeOK, PCs, Aborted
<1>6. CASE AllocTable
  <2> DEFINE t == IF op = "create" THEN tgt ELSE Local
  <2>1. Cap(n) \in Nat
    BY <1>0, CapBound DEF CounterTypeOK
  <2>2. /\ used' \in [Tables -> Nat] /\ capacity' \in [Tables -> Nat]
        /\ n_entries' \in [Tables -> Nat]
    BY <1>0, <1>6, <2>1 DEF AllocTable, TableTypeOK, CounterTypeOK
  <2>3. /\ DOMAIN entries' = Tables
        /\ \A u \in Tables : entries'[u] \in [0 .. n_entries'[u] - 1 -> Entry]
    BY <1>0, <1>1, <1>6 DEF AllocTable, TableTypeOK, CounterTypeOK
  <2>4. CounterTypeOK'
    BY <1>0, <1>6 DEF AllocTable, CounterTypeOK
  <2> QED
    BY <1>0, <1>6, <2>2, <2>3, <2>4 DEF AllocTable, TypeOK, TableTypeOK, PCs
<1>7. CASE AllocFails
  BY <1>0, <1>2, <1>7 DEF AllocFails, TypeOK, CounterTypeOK, PCs, Aborted
<1>8. ASSUME NEW m \in Map, NEW k \in Key, NEW v \in Value, Insert(m, k, v)
      PROVE  TypeOK'
  <2>1. Created(m) /\ m \in Tables
    BY <1>8 DEF Insert, Created, Tables
  <2>2. Home(k, m) \in Nat
    BY <1>0, <2>1, HomeInRange DEF TableTypeOK
  <2>3. TableTypeOK' /\ CounterTypeOK'
    BY <1>0, <1>2, <1>8, <2>2 DEF Insert, StartInsert, CounterTypeOK
  <2> QED
    BY <1>0, <1>8, <2>1, <2>3 DEF Insert, StartInsert, TypeOK, PCs, Ops
<1>9. CASE ProbeNext \/ FindNext
  <2>1. slot \in 0 .. n_entries[cur] - 1 /\ n_entries[cur] \in Nat
    BY <1>0, <1>9, LoopTypes DEF ProbeNext, FindNext, TableTypeOK, TypeOK
  <2>2. Prev(cur, slot) \in Nat
    BY <2>1 DEF Prev
  <2>3. TableTypeOK' /\ CounterTypeOK'
    BY <1>0, <1>2, <1>9, <2>2 DEF ProbeNext, FindNext, CounterTypeOK
  <2> QED
    BY <1>0, <1>9, <2>3 DEF ProbeNext, FindNext, TypeOK
<1>10. CASE ProbeOverwrite
  <2>1. entries[cur] \in [0 .. n_entries[cur] - 1 -> Entry] /\ val \in Value /\ cur \in Tables
    BY <1>0 DEF TypeOK, TableTypeOK
  <2>2. slot \in 0 .. n_entries[cur] - 1 /\ entries[cur][slot] \in Entry
    BY <1>10, LoopTypes DEF ProbeOverwrite
  <2> DEFINE new == [entries[cur] EXCEPT ![slot] = [entries[cur][slot] EXCEPT !.value = val]]
  <2>3. [entries[cur][slot] EXCEPT !.value = val] \in Entry
    BY <2>1, <2>2 DEF Entry
  <2>4. new \in [0 .. n_entries[cur] - 1 -> Entry]
    BY <2>1, <2>2, <2>3
  <2>5. entries' = [entries EXCEPT ![cur] = new]
    BY <1>10 DEF ProbeOverwrite
  <2> HIDE DEF new
  <2>6. DOMAIN entries' = Tables /\ \A t \in Tables : entries'[t] \in [0 .. n_entries[t] - 1 -> Entry]
    BY <1>0, <2>4, <2>5 DEF TableTypeOK
  <2>7. TableTypeOK' /\ CounterTypeOK'
    BY <1>0, <1>10, <2>6 DEF ProbeOverwrite, TableTypeOK, CounterTypeOK
  <2> QED
    BY <1>0, <1>10, <2>7 DEF ProbeOverwrite, AfterInsert, TypeOK, PCs
<1>11. CASE ProbePlace
  <2>1. entries[cur] \in [0 .. n_entries[cur] - 1 -> Entry] /\ val \in Value /\ cur \in Tables
    BY <1>0 DEF TypeOK, TableTypeOK
  <2>2. slot \in 0 .. n_entries[cur] - 1 /\ [key |-> key, value |-> val] \in Entry
    BY <1>0, <1>11, LoopTypes DEF ProbePlace, Entry, TypeOK
  <2> DEFINE new == [entries[cur] EXCEPT ![slot] = [key |-> key, value |-> val]]
  <2>3. new \in [0 .. n_entries[cur] - 1 -> Entry]
    BY <2>1, <2>2
  <2>4. entries' = [entries EXCEPT ![cur] = new]
    BY <1>11 DEF ProbePlace
  <2> HIDE DEF new
  <2>5. DOMAIN entries' = Tables /\ \A t \in Tables : entries'[t] \in [0 .. n_entries[t] - 1 -> Entry]
    BY <1>0, <2>3, <2>4 DEF TableTypeOK
  <2>6. used' \in [Tables -> Nat] /\ minCap' \in Nat /\ n' \in Nat
    <3> DEFINE u == used[cur] + 1
    <3>1. u \in Nat /\ used \in [Tables -> Nat] /\ used' = [used EXCEPT ![cur] = u]
      BY <1>0, <1>11, <2>1 DEF ProbePlace, TypeOK, TableTypeOK
    <3>2. \/ minCap' = u + 1 /\ n' = MinSize
          \/ minCap' = minCap /\ n' = n
      BY <1>11 DEF ProbePlace, StartGrow, GrownSize
    <3> HIDE DEF u
    <3>3. used' \in [Tables -> Nat]
      BY <3>1
    <3>4. minCap \in Nat /\ n \in Nat
      BY <1>0 DEF TypeOK, CounterTypeOK
    <3> QED
      BY <3>1, <3>2, <3>3, <3>4, SizeAssumption
  <2>7. TableTypeOK' /\ CounterTypeOK'
    BY <1>0, <1>11, <2>5, <2>6 DEF ProbePlace, TableTypeOK, CounterTypeOK
  <2>8. pc' \in PCs
    BY <1>11 DEF ProbePlace, StartGrow, AfterInsert, PCs, Aborted
  <2> QED
    BY <1>0, <1>11, <2>7, <2>8 DEF ProbePlace, TypeOK
<1>12. CASE RehashSkip
  <2>1. TableTypeOK' /\ CounterTypeOK'
    BY <1>0, <1>2, <1>12 DEF RehashSkip, CounterTypeOK
  <2> QED
    BY <1>0, <1>12, <2>1 DEF RehashSkip, TypeOK
<1>13. CASE RehashEntry
  <2>1. entries[tgt][gi] \in Entry /\ Created(Local) /\ Local \in Tables
    BY <1>13, LoopTypes DEF RehashEntry, IInv, GrowInv, Tables
  <2>2. entries[tgt][gi].key \in Key /\ entries[tgt][gi].value \in Value
    BY <1>13, <2>1 DEF RehashEntry, Entry
  <2>3. gi' \in Nat /\ si' \in Nat
    BY <1>0, <1>13 DEF RehashEntry, CounterTypeOK
  <2> QED
    BY <1>3, <1>13, <2>1, <2>2, <2>3 DEF RehashEntry
<1>14. CASE RehashDone
  <2>1. /\ used' \in [Tables -> Nat] /\ capacity' \in [Tables -> Nat]
        /\ n_entries' \in [Tables -> Nat]
    BY <1>0, <1>14 DEF RehashDone, Adopt, TableTypeOK, Tables
  <2>2. /\ DOMAIN entries' = Tables
        /\ \A t \in Tables : entries'[t] \in [0 .. n_entries'[t] - 1 -> Entry]
    BY <1>0, <1>1, <1>14 DEF RehashDone, Adopt, TableTypeOK, Tables
  <2>3. TableTypeOK' /\ CounterTypeOK'
    BY <1>0, <1>14, <2>1, <2>2 DEF RehashDone, TableTypeOK, CounterTypeOK
  <2> QED
    BY <1>0, <1>14, <2>3 DEF RehashDone, TypeOK, PCs
<1>15. ASSUME NEW m \in Map, NEW k \in Key, Lookup(m, k) PROVE TypeOK'
  <2>1. Created(m) /\ m \in Tables
    BY <1>15 DEF Lookup, Created, Tables
  <2>2. Home(k, m) \in Nat
    BY <1>0, <2>1, HomeInRange DEF TableTypeOK
  <2>3. TableTypeOK' /\ CounterTypeOK'
    BY <1>0, <1>2, <1>15, <2>2 DEF Lookup, CounterTypeOK
  <2> QED
    BY <1>0, <1>15, <2>1, <2>3 DEF Lookup, TypeOK, PCs, Ops
<1>16. CASE FindEnd
  <2>1. entries[cur][slot].value \in Value
    BY <1>16, LoopTypes DEF FindEnd, Entry
  <2> QED
    BY <1>0, <1>2, <1>16, <2>1 DEF FindEnd, TypeOK, CounterTypeOK, PCs
<1>17. ASSUME NEW t \in Map, NEW s \in Map, Spread(t, s) PROVE TypeOK'
  BY <1>0, <1>2, <1>17 DEF Spread, TypeOK, CounterTypeOK, PCs, Ops, Tables
<1>18. CASE SpreadGrow
  <2>1. used[src] \in Nat /\ used[tgt] \in Nat
    BY <1>0 DEF TypeOK, TableTypeOK
  <2>2. TableTypeOK' /\ CounterTypeOK'
    BY <1>0, <1>2, <1>18, <2>1, SizeAssumption DEF SpreadGrow, StartGrow, SpreadSize, CounterTypeOK
  <2>3. pc' \in PCs
    BY <1>18 DEF SpreadGrow, StartGrow, PCs, Aborted
  <2> QED
    BY <1>0, <1>18, <2>2, <2>3 DEF SpreadGrow, TypeOK
<1>19. CASE SpreadSkip
  <2>1. TableTypeOK' /\ CounterTypeOK'
    BY <1>0, <1>2, <1>19 DEF SpreadSkip, CounterTypeOK
  <2> QED
    BY <1>0, <1>19, <2>1 DEF SpreadSkip, TypeOK
<1>20. CASE SpreadInsert
  <2>1. entries[src][si] \in Entry /\ Created(tgt) /\ tgt \in Tables
    BY <1>0, <1>20, LoopTypes DEF SpreadInsert, IInv, CallInv, TypeOK
  <2>2. entries[src][si].key \in Key /\ entries[src][si].value \in Value
    BY <1>20, <2>1 DEF SpreadInsert, Entry
  <2>3. gi' \in Nat /\ si' \in Nat
    BY <1>0, <1>20 DEF SpreadInsert, CounterTypeOK
  <2> QED
    BY <1>3, <1>20, <2>1, <2>2, <2>3 DEF SpreadInsert
<1>21. CASE SpreadDone
  BY <1>0, <1>2, <1>21 DEF SpreadDone, TypeOK, CounterTypeOK, PCs
<1>22. CASE Return
  BY <1>0, <1>2, <1>22, SizeAssumption, ValueAssumption
  DEF Return, TypeOK, CounterTypeOK, PCs, Ops, Tables
<1>23. CASE UNCHANGED vars
  BY <1>0, <1>2, <1>23 DEF TypeOK, CounterTypeOK
<1> QED
  BY <1>4, <1>5, <1>6, <1>7, <1>8, <1>9, <1>10, <1>11, <1>12, <1>13, <1>14,
     <1>15, <1>16, <1>17, <1>18, <1>19, <1>20, <1>21, <1>22, <1>23
  DEF Next, Invoke, Step, Halted

-----------------------------------------------------------------------------
(* What the steps that write a table do to it.                              *)

\* Four steps write a table.
LEMMA TableSteps ==
  ASSUME [Next]_vars
  PROVE  UNCHANGED table \/ AllocTable \/ ProbeOverwrite \/ ProbePlace \/ RehashDone
<1>1. CASE Invoke
  BY <1>1 DEF Invoke, Create, Lookup, Insert, Spread
<1>2. CASE Step
  BY <1>2 DEF Step, DoubleSize, AllocFails, ProbeNext, RehashSkip, RehashEntry,
     FindNext, FindEnd, SpreadGrow, SpreadSkip, SpreadInsert, SpreadDone, Return
<1> QED
  BY <1>1, <1>2 DEF Next, Halted, vars, table

\* An overwrite changes no key.
LEMMA OverwriteFacts ==
  ASSUME IInv, ProbeOverwrite
  PROVE  /\ UNCHANGED <<used, capacity, n_entries>>
         /\ \A t \in Tables : \A i \in 0 .. n_entries[t] - 1 : entries'[t][i].key = entries[t][i].key
         /\ \A t \in Tables : Occupied(t)' = Occupied(t)
<1>1. UNCHANGED <<used, capacity, n_entries>>
  BY DEF ProbeOverwrite
<1>2. TableTypeOK /\ cur \in Tables
  BY DEF IInv, TypeOK
<1>3. slot \in 0 .. n_entries[cur] - 1 /\ entries[cur][slot] \in Entry
  BY LoopTypes DEF ProbeOverwrite
<1>4. \A t \in Tables : \A i \in 0 .. n_entries[t] - 1 : entries'[t][i].key = entries[t][i].key
  BY <1>2, <1>3 DEF ProbeOverwrite, TableTypeOK, Entry
<1> QED
  BY <1>1, <1>4 DEF Occupied

\* A new key takes one empty slot of one table.
LEMMA PlaceFacts ==
  ASSUME IInv, ProbePlace
  PROVE  /\ UNCHANGED <<capacity, n_entries, cur, slot>> /\ key \in Key /\ cur \in Tables
         /\ slot \in 0 .. n_entries[cur] - 1 /\ slot \notin Occupied(cur)
         /\ entries'[cur][slot].key = key
         /\ \A t \in Tables : \A i \in 0 .. n_entries[t] - 1 :
              (t # cur \/ i # slot) => entries'[t][i].key = entries[t][i].key
         /\ Occupied(cur)' = Occupied(cur) \cup {slot}
         /\ \A t \in Tables \ {cur} : Occupied(t)' = Occupied(t) /\ used'[t] = used[t]
         /\ used'[cur] = used[cur] + 1
<1>1. UNCHANGED <<capacity, n_entries, cur, slot>>
  BY DEF ProbePlace, insVars
<1>2. TableTypeOK /\ cur \in Tables
  BY DEF IInv, TypeOK
<1>3. slot \in 0 .. n_entries[cur] - 1 /\ key \in Key
  BY LoopTypes DEF ProbePlace
<1>4. slot \notin Occupied(cur)
  BY DEF Occupied, ProbePlace
<1>5. entries'[cur][slot].key = key
  BY <1>2, <1>3 DEF ProbePlace, TableTypeOK
<1>6. \A t \in Tables : \A i \in 0 .. n_entries[t] - 1 :
        (t # cur \/ i # slot) => entries'[t][i].key = entries[t][i].key
  BY <1>2, <1>3 DEF ProbePlace, TableTypeOK
<1>7. Occupied(cur)' = Occupied(cur) \cup {slot}
  <2>1. n_entries[cur]' = n_entries[cur]
    BY <1>1
  <2>2. \A i \in 0 .. n_entries[cur] - 1 :
          i \in Occupied(cur)' <=> i \in Occupied(cur) \cup {slot}
    BY <1>1, <1>2, <1>3, <1>5, <1>6, KeyAssumption DEF Occupied
  <2> QED
    BY <1>3, <2>1, <2>2 DEF Occupied
<1>8. \A t \in Tables \ {cur} : Occupied(t)' = Occupied(t)
  BY <1>1, <1>6 DEF Occupied
<1>9. used'[cur] = used[cur] + 1 /\ \A t \in Tables \ {cur} : used'[t] = used[t]
  BY <1>2 DEF ProbePlace, TableTypeOK
<1> QED
  BY <1>1, <1>2, <1>3, <1>4, <1>5, <1>6, <1>7, <1>8, <1>9

\* A new table is empty, the others stay.
LEMMA AllocFacts ==
  ASSUME IInv, AllocTable, NEW t,
         t = IF op = "create" THEN tgt ELSE Local
  PROVE  /\ t \in Tables /\ n \in Nat \ {0}
         /\ used'[t] = 0 /\ capacity'[t] = Cap(n) /\ n_entries'[t] = n
         /\ Cap(n) \in Nat /\ Cap(n) >= minCap /\ Occupied(t)' = {}
         /\ \A u \in Tables \ {t} :
              /\ used'[u] = used[u] /\ capacity'[u] = capacity[u]
              /\ n_entries'[u] = n_entries[u] /\ entries'[u] = entries[u]
<1>1. TableTypeOK /\ t \in Tables /\ n \in Nat \ {0} /\ minCap \in Nat
  BY DEF IInv, TypeOK, AllocTable, CounterTypeOK, Tables, GrowInv
<1>2. Cap(n) \in Nat /\ Cap(n) >= minCap
  BY <1>1, CapBound DEF AllocTable, TooSmall
<1>3. /\ used'[t] = 0 /\ capacity'[t] = Cap(n) /\ n_entries'[t] = n
      /\ entries'[t] = ZeroTable(n)
      /\ \A u \in Tables \ {t} :
           /\ used'[u] = used[u] /\ capacity'[u] = capacity[u]
           /\ n_entries'[u] = n_entries[u] /\ entries'[u] = entries[u]
  BY <1>1 DEF AllocTable, TableTypeOK
<1>4. Occupied(t)' = {}
  BY <1>3 DEF Occupied, ZeroTable, EmptyEntry
<1> QED
  BY <1>1, <1>2, <1>3, <1>4

\* The growth ends: the map takes over nMap, which goes.
LEMMA AdoptFacts ==
  ASSUME IInv, RehashDone
  PROVE  /\ tgt \in Map /\ tgt \in Tables /\ Local \in Tables /\ tgt # Local
         /\ used'[tgt] = used[Local] /\ capacity'[tgt] = capacity[Local]
         /\ n_entries'[tgt] = n_entries[Local] /\ entries'[tgt] = entries[Local]
         /\ used'[Local] = 0 /\ n_entries'[Local] = 0 /\ Occupied(Local)' = {}
         /\ \A u \in Tables \ {tgt, Local} :
              /\ used'[u] = used[u] /\ capacity'[u] = capacity[u]
              /\ n_entries'[u] = n_entries[u] /\ entries'[u] = entries[u]
<1>1. TableTypeOK /\ tgt \in Map /\ tgt \in Tables /\ Local \in Tables /\ tgt # Local
  BY LocalAssumption DEF IInv, TypeOK, CallInv, RehashDone, Tables
<1>2. /\ used'[tgt] = used[Local] /\ capacity'[tgt] = capacity[Local]
      /\ n_entries'[tgt] = n_entries[Local] /\ entries'[tgt] = entries[Local]
      /\ used'[Local] = 0 /\ n_entries'[Local] = 0
      /\ \A u \in Tables \ {tgt, Local} :
           /\ used'[u] = used[u] /\ capacity'[u] = capacity[u]
           /\ n_entries'[u] = n_entries[u] /\ entries'[u] = entries[u]
  BY <1>1 DEF RehashDone, Adopt, TableTypeOK
<1>3. Occupied(Local)' = {}
  BY <1>2 DEF Occupied
<1> QED
  BY <1>1, <1>2, <1>3

-----------------------------------------------------------------------------
(* used counts the slots in use.                                            *)

LEMMA UsedStep ==
  ASSUME IInv, [Next]_vars
  PROVE  UsedCountsEntries'
<1>0. UsedCountsEntries /\ TypeOK
  BY DEF IInv
<1>1. CASE UNCHANGED table
  BY <1>0, <1>1 DEF UsedCountsEntries, Occupied, table
<1>2. CASE AllocTable
  <2>0. PICK t : t = IF op = "create" THEN tgt ELSE Local
    OBVIOUS
  <2>1. /\ used'[t] = 0 /\ Occupied(t)' = {}
        /\ \A u \in Tables \ {t} : used'[u] = used[u] /\ n_entries'[u] = n_entries[u] /\ entries'[u] = entries[u]
    BY <1>2, <2>0, AllocFacts
  <2>2. \A u \in Tables \ {t} : Occupied(u)' = Occupied(u)
    BY <2>1 DEF Occupied
  <2>3. \A u \in Tables : used'[u] = Cardinality(Occupied(u)')
    BY <1>0, <2>1, <2>2, FS_EmptySet DEF UsedCountsEntries
  <2> QED
    BY <2>3 DEF UsedCountsEntries
<1>3. CASE ProbeOverwrite
  BY <1>0, <1>3, OverwriteFacts DEF UsedCountsEntries
<1>4. CASE ProbePlace
  <2>1. Cardinality(Occupied(cur) \cup {slot}) = Cardinality(Occupied(cur)) + 1
    BY <1>0, <1>4, PlaceFacts, OccupiedFinite, FS_AddElement
  <2>2. PICK t \in Tables : t = cur
    BY <1>4, PlaceFacts
  <2>3. used'[t] = Cardinality(Occupied(t)')
    BY <1>0, <1>4, <2>1, <2>2, PlaceFacts DEF UsedCountsEntries
  <2>4. \A u \in Tables \ {cur} : used'[u] = Cardinality(Occupied(u)')
    BY <1>0, <1>4, PlaceFacts DEF UsedCountsEntries
  <2> QED
    BY <2>2, <2>3, <2>4 DEF UsedCountsEntries
<1>5. CASE RehashDone
  <2>1. n_entries'[tgt] = n_entries[Local] /\ entries'[tgt] = entries[Local]
    BY <1>5, AdoptFacts
  <2>2. tgt' = tgt
    BY <1>5 DEF RehashDone, callVars
  <2>3. Occupied(tgt)' = Occupied(Local)
    BY <2>1, <2>2 DEF Occupied
  <2>4. used'[tgt] = Cardinality(Occupied(tgt)')
    BY <1>0, <1>5, <2>3, AdoptFacts DEF UsedCountsEntries
  <2>5. used'[Local] = Cardinality(Occupied(Local)')
    BY <1>5, AdoptFacts, FS_EmptySet
  <2>6. \A u \in Tables \ {tgt, Local} : Occupied(u)' = Occupied(u)
    BY <1>5, AdoptFacts DEF Occupied
  <2>7. \A u \in Tables \ {tgt, Local} : used'[u] = Cardinality(Occupied(u)')
    BY <1>0, <1>5, <2>6, AdoptFacts DEF UsedCountsEntries
  <2> QED
    BY <2>2, <2>4, <2>5, <2>7 DEF UsedCountsEntries
<1> QED
  BY <1>1, <1>2, <1>3, <1>4, <1>5, TableSteps

-----------------------------------------------------------------------------
(* Every key stays reachable from its home.                                 *)

\* KeysReachable speaks of the keys of one table at a time.
Reachable(t) ==
  \A i \in Occupied(t) :
    LET h == Home(entries[t][i].key, t) IN
    \A j \in 0 .. n_entries[t] - 1 : Dist(t, h, j) < Dist(t, h, i) =>
      entries[t][j].key \notin {NullKey, entries[t][i].key}

\* A table with the slots and the keys of a reachable one is reachable.
LEMMA SameKeysReachable ==
  ASSUME NEW t \in Tables, NEW u \in Tables, Reachable(u),
         n_entries'[t] = n_entries[u],
         \A i \in 0 .. n_entries[u] - 1 : entries'[t][i].key = entries[u][i].key
  PROVE  Reachable(t)'
<1>1. Occupied(t)' = Occupied(u)
  BY DEF Occupied
<1>2. \A i \in Occupied(u) : Home(entries[t][i].key, t)' = Home(entries[u][i].key, u)
  BY DEF Home, Occupied
<1>3. \A h, i : Dist(t, h, i)' = Dist(u, h, i)
  BY DEF Dist
<1> QED
  BY <1>1, <1>2, <1>3 DEF Reachable, Occupied

LEMMA PlaceReachable ==
  ASSUME IInv, ProbePlace
  PROVE  Reachable(cur)'
<1>0. KeysReachable /\ TypeOK
  BY DEF IInv
<1>1. PICK t \in Tables : t = cur
  BY PlaceFacts
<1>2. n_entries'[t] = n_entries[t] /\ n_entries[t] \in Nat /\ cur' = t
  BY <1>0, <1>1, PlaceFacts DEF TypeOK, TableTypeOK
<1>3. \A k : Home(k, t)' = Home(k, t)
  BY <1>2 DEF Home
<1>4. \A h, i : Dist(t, h, i)' = Dist(t, h, i)
  BY <1>2 DEF Dist
<1> DEFINE Slots == 0 .. n_entries[t] - 1
           Key1(i) == entries'[t][i].key
<1>5. \A i \in Slots : Key1(i) = IF i = slot THEN key ELSE entries[t][i].key
  BY <1>1, PlaceFacts
<1>6. /\ slot \in Slots /\ entries[t][slot].key = NullKey /\ key \in Key
      /\ Home(key, t) \in Slots
  BY <1>1, LoopTypes DEF ProbePlace
<1>7. \A j \in Slots : Dist(t, Home(key, t), j) < Dist(t, Home(key, t), slot) =>
        entries[t][j].key \notin {NullKey, key}
  BY <1>1 DEF IInv, ProbeInv, ProbePlace
<1>8. ASSUME NEW i \in Slots, Key1(i) # NullKey, NEW j \in Slots,
             Dist(t, Home(Key1(i), t), j) < Dist(t, Home(Key1(i), t), i)
      PROVE  Key1(j) \notin {NullKey, Key1(i)}
  <2>1. CASE i = slot
    <3>1. Key1(i) = key
      BY <1>5, <2>1
    <3>2. j # slot
      BY <1>2, <1>6, <1>8, <2>1, <3>1 DEF Dist
    <3>3. Key1(j) = entries[t][j].key
      BY <1>5, <3>2
    <3> QED
      BY <1>7, <1>8, <2>1, <3>1, <3>3
  <2>2. CASE i # slot
    <3>1. Key1(i) = entries[t][i].key /\ i \in Occupied(t)
      BY <1>5, <1>8, <2>2 DEF Occupied
    <3>2. entries[t][j].key \notin {NullKey, Key1(i)}
      BY <1>0, <1>8, <3>1 DEF KeysReachable
    <3>3. j # slot
      BY <1>6, <3>2
    <3> QED
      BY <1>5, <3>2, <3>3
  <2> QED
    BY <2>1, <2>2
<1>9. Reachable(t)'
  BY <1>2, <1>3, <1>4, <1>8 DEF Reachable, Occupied
<1> QED
  BY <1>2, <1>9 DEF Reachable, Occupied, Home, Dist

LEMMA ReachStep ==
  ASSUME IInv, [Next]_vars
  PROVE  KeysReachable'
<1>0. \A t \in Tables : Reachable(t)
  BY DEF IInv, KeysReachable, Reachable
<1>1. CASE UNCHANGED table
  BY <1>0, <1>1, SameKeysReachable DEF table, KeysReachable, Reachable
<1>2. CASE AllocTable
  <2>1. PICK t : t = IF op = "create" THEN tgt ELSE Local
    OBVIOUS
  <2>2. Occupied(t)' = {}
    BY <1>2, <2>1, AllocFacts
  <2>3. Reachable(t)'
    BY <2>2 DEF Reachable
  <2>4. \A u \in Tables \ {t} : Reachable(u)'
    BY <1>0, <1>2, <2>1, AllocFacts, SameKeysReachable
  <2> QED
    BY <2>3, <2>4 DEF Reachable, KeysReachable
<1>3. CASE ProbeOverwrite
  <2>1. \A t \in Tables : Reachable(t)'
    BY <1>0, <1>3, OverwriteFacts, SameKeysReachable
  <2> QED
    BY <2>1 DEF Reachable, KeysReachable
<1>4. CASE ProbePlace
  <2>1. PICK t \in Tables : t = cur /\ cur' = t
    BY <1>4, PlaceFacts
  <2>2. Reachable(t)'
    BY <1>4, <2>1, PlaceReachable DEF Reachable, Occupied, Home, Dist
  <2>3. \A u \in Tables \ {t} : Reachable(u)'
    BY <1>0, <1>4, <2>1, PlaceFacts, SameKeysReachable
  <2> QED
    BY <2>2, <2>3 DEF Reachable, KeysReachable
<1>5. CASE RehashDone
  <2>1. PICK t \in Tables : t = tgt
    BY <1>5, AdoptFacts
  <2>2. Reachable(t)'
    BY <1>0, <1>5, <2>1, AdoptFacts, SameKeysReachable
  <2>3. Reachable(Local)'
    BY <1>5, AdoptFacts DEF Reachable
  <2>4. \A u \in Tables \ {t, Local} : Reachable(u)'
    BY <1>0, <1>5, <2>1, AdoptFacts, SameKeysReachable
  <2> QED
    BY <2>2, <2>3, <2>4 DEF Reachable, KeysReachable
<1> QED
  BY <1>1, <1>2, <1>3, <1>4, <1>5, TableSteps

-----------------------------------------------------------------------------
(* A map is full only while it grows, and nMap never is.                    *)

\* The old slots handed to nMap are some of the map's slots.
LEMMA HandedOverFinite ==
  ASSUME IInv, tgt \in Tables
  PROVE  /\ IsFiniteSet(HandedOver) /\ Cardinality(HandedOver) \in Nat
         /\ Cardinality(HandedOver) <= used[tgt]
<1>1. IsFiniteSet(Occupied(tgt)) /\ Cardinality(Occupied(tgt)) = used[tgt]
  BY OccupiedFinite DEF IInv, UsedCountsEntries
<1>2. HandedOver \in SUBSET Occupied(tgt)
  BY DEF HandedOver
<1> QED
  BY <1>1, <1>2, FS_Subset, FS_CardinalityType

\* The key on its way into nMap is one more of them.
LEMMA HandedOverNext ==
  ASSUME IInv, pc = "probe", cur = Local, NEW H,
         H = {i \in Occupied(tgt) : i < gi}
  PROVE  /\ used[Local] + 1 <= Cardinality(H) /\ Cardinality(H) \in Nat
         /\ Cardinality(H) <= used[tgt]
<1>0. TypeOK /\ TableTypeOK /\ CounterTypeOK /\ tgt \in Tables
  BY DEF IInv, TypeOK
<1>1. gi > 0 /\ gi - 1 \in Occupied(tgt) /\ used[Local] <= Cardinality(HandedOver)
  BY DEF IInv, GrowInv
<1>2. H = HandedOver \cup {gi - 1} /\ gi - 1 \notin HandedOver
  BY <1>0, <1>1 DEF HandedOver, Occupied, CounterTypeOK
<1>3. Cardinality(H) = Cardinality(HandedOver) + 1
  BY <1>0, <1>2, HandedOverFinite, FS_AddElement
<1>4. IsFiniteSet(Occupied(tgt)) /\ Cardinality(Occupied(tgt)) = used[tgt]
  BY <1>0, OccupiedFinite DEF IInv, UsedCountsEntries
<1>5. H \in SUBSET Occupied(tgt)
  OBVIOUS
<1>6. Cardinality(H) <= used[tgt]
  BY <1>4, <1>5, FS_Subset
<1> QED
  BY <1>0, <1>1, <1>3, <1>6, HandedOverFinite DEF TableTypeOK, Tables

\* nMap is never full: it has room for more than the map holds.
LEMMA LocalNotFull ==
  ASSUME IInv, pc = "probe", cur = Local
  PROVE  used[Local] + 1 < capacity[Local]
<1>1. capacity[Local] >= minCap /\ minCap > used[tgt]
  BY DEF IInv, GrowInv
<1>2. used[Local] + 1 <= used[tgt]
  <2>1. PICK H : H = {i \in Occupied(tgt) : i < gi}
    OBVIOUS
  <2>2. /\ used[Local] + 1 <= Cardinality(H) /\ Cardinality(H) \in Nat
        /\ Cardinality(H) <= used[tgt]
    BY <2>1, HandedOverNext
  <2> QED
    BY <2>2 DEF IInv, TypeOK, TableTypeOK, Tables
<1> QED
  BY <1>1, <1>2 DEF IInv, TypeOK, TableTypeOK, CounterTypeOK, Tables

\* A map that is growing goes on growing until nMap takes its place.
LEMMA StillGrowing ==
  ASSUME IInv, [Next]_vars, NEW t \in Tables, Growing(t), ~ProbePlace, ~RehashDone,
         AllocTable => op # "create"
  PROVE  Growing(t)'
<1>1. t = tgt /\ (pc \in {"size", "rehash"} \cup Aborted \/ (pc = "probe" /\ cur = Local))
  BY DEF Growing, Aborted
<1>2. CASE pc \in Aborted
  BY <1>1, <1>2 DEF Next, Invoke, Step, Halted, vars, Aborted, Create, DoubleSize, AllocTable,
     AllocFails, Insert, ProbeNext, ProbeOverwrite, RehashSkip, RehashEntry, Lookup, FindNext,
     FindEnd, Spread, SpreadGrow, SpreadSkip, SpreadInsert, SpreadDone, Return, Growing,
     callVars, insVars
<1>3. CASE pc = "size"
  BY <1>1, <1>3 DEF Next, Invoke, Step, Halted, vars, Aborted, Create, DoubleSize, AllocTable,
     AllocFails, Insert, ProbeNext, ProbeOverwrite, RehashSkip, RehashEntry, Lookup, FindNext,
     FindEnd, Spread, SpreadGrow, SpreadSkip, SpreadInsert, SpreadDone, Return, Growing,
     callVars, insVars
<1>4. CASE pc = "rehash"
  BY <1>1, <1>4 DEF Next, Invoke, Step, Halted, vars, Aborted, Create, DoubleSize, AllocTable,
     AllocFails, Insert, ProbeNext, ProbeOverwrite, RehashSkip, RehashEntry, Lookup, FindNext,
     FindEnd, Spread, SpreadGrow, SpreadSkip, SpreadInsert, SpreadDone, Return, Growing,
     StartInsert, callVars, insVars
<1>5. CASE pc = "probe" /\ cur = Local
  BY <1>1, <1>5 DEF Next, Invoke, Step, Halted, vars, Aborted, Create, DoubleSize, AllocTable,
     AllocFails, Insert, ProbeNext, ProbeOverwrite, RehashSkip, RehashEntry, Lookup, FindNext,
     FindEnd, Spread, SpreadGrow, SpreadSkip, SpreadInsert, SpreadDone, Return, Growing,
     AfterInsert, callVars, insVars
<1> QED
  BY <1>1, <1>2, <1>3, <1>4, <1>5

LEMMA BoundStep ==
  ASSUME IInv, [Next]_vars
  PROVE  UsedBelowCapacity'
<1>0. UsedBelowCapacity /\ TypeOK /\ TableTypeOK /\ CounterTypeOK /\ GrowInv
  BY DEF IInv, TypeOK
<1>1. CASE UNCHANGED table /\ ~AllocTable /\ ~ProbePlace /\ ~RehashDone
  BY <1>0, <1>1, StillGrowing DEF UsedBelowCapacity, Created, table
<1>2. CASE AllocTable
  <2>1. PICK t : t = IF op = "create" THEN tgt ELSE Local
    OBVIOUS
  <2>2. used'[t] < capacity'[t] /\ capacity'[t] = Cap(n_entries'[t])
    BY <1>0, <1>2, <2>1, AllocFacts DEF AllocTable, GrowInv, CounterTypeOK
  <2>3. used'[t] \in Nat /\ capacity'[t] \in Nat
    BY <1>2, <2>1, AllocFacts
  <2>4. ASSUME NEW u \in Tables \ {t}, Growing(u) PROVE Growing(u)'
    <3>1. op # "create"
      BY <2>1, <2>4 DEF Growing
    <3> QED
      BY <1>2, <2>4, <3>1, StillGrowing DEF AllocTable, ProbePlace, RehashDone
  <2>5. \A u \in Tables \ {t} :
          /\ used'[u] = used[u] /\ capacity'[u] = capacity[u] /\ n_entries'[u] = n_entries[u]
    BY <1>2, <2>1, AllocFacts
  <2> QED
    BY <1>0, <2>2, <2>3, <2>4, <2>5 DEF UsedBelowCapacity, Created
<1>3. CASE ProbeOverwrite
  <2>1. ~ProbePlace /\ ~RehashDone /\ ~AllocTable
    BY <1>3, LoopTypes, KeyAssumption DEF ProbeOverwrite, ProbePlace, RehashDone, AllocTable
  <2>2. \A t \in Tables : Growing(t) => Growing(t)'
    BY <2>1, StillGrowing
  <2> QED
    BY <1>0, <1>3, <2>2, OverwriteFacts DEF UsedBelowCapacity, Created
<1>4. CASE ProbePlace
  <2>1. PICK t \in Tables : t = cur /\ n_entries[t] > 0
    BY <1>4, PlaceFacts DEF IInv, ProbeInv, Created, ProbePlace
  <2>2. capacity' = capacity /\ n_entries' = n_entries /\ used'[t] = used[t] + 1
    BY <1>4, <2>1, PlaceFacts
  <2>3. /\ capacity[t] = Cap(n_entries[t]) /\ used[t] \in Nat /\ capacity[t] \in Nat
        /\ used[t] <= capacity[t] /\ (used[t] = capacity[t] => Growing(t))
    BY <1>0, <2>1 DEF UsedBelowCapacity, Created, TableTypeOK
  <2>4. ASSUME NEW u \in Tables \ {t}, Growing(u) PROVE Growing(u)'
    <3>1. cur = Local /\ u = tgt /\ tgt' = tgt
      BY <1>4, <2>4 DEF Growing, ProbePlace, Aborted, callVars
    <3>2. pc' = "rehash"
      BY <1>4, <3>1, LocalNotFull DEF ProbePlace, IsFull, AfterInsert, IInv, TypeOK, TableTypeOK, Tables
    <3> QED
      BY <3>1, <3>2 DEF Growing
  <2>5. CASE t = Local
    <3>1. used'[t] < capacity'[t]
      BY <1>4, <2>1, <2>2, <2>5, LocalNotFull DEF ProbePlace
    <3> QED
      BY <1>0, <1>4, <2>1, <2>2, <2>3, <2>4, <3>1, PlaceFacts
      DEF UsedBelowCapacity, Created
  <2>6. CASE t # Local
    <3>1. used[t] < capacity[t]
      BY <1>4, <2>1, <2>3, <2>6 DEF Growing, ProbePlace, Aborted
    <3>2. t = tgt /\ tgt' = tgt
      BY <1>4, <2>1, <2>6 DEF IInv, ProbeInv, ProbePlace, callVars
    <3>3. ASSUME used[t] + 1 >= capacity[t] PROVE pc' = "size"
      BY <1>4, <2>1, <2>3, <2>6, <3>3 DEF ProbePlace, IsFull, StartGrow, GrownSize
    <3>4. used'[t] = capacity[t] => Growing(t)'
      BY <2>2, <2>3, <3>2, <3>3 DEF Growing
    <3>5. used'[t] <= capacity[t]
      BY <2>2, <2>3, <3>1
    <3> QED
      BY <1>0, <1>4, <2>1, <2>2, <2>3, <2>4, <3>4, <3>5, PlaceFacts
      DEF UsedBelowCapacity, Created
  <2> QED
    BY <2>5, <2>6
<1>5. CASE RehashDone
  <2>1. PICK t \in Tables : t = tgt
    BY <1>5, AdoptFacts
  <2>2. /\ Created(Local) /\ capacity[Local] >= minCap /\ minCap > used[tgt]
        /\ used[Local] <= Cardinality(HandedOver)
    BY <1>0, <1>5 DEF GrowInv, RehashDone
  <2>3. used[Local] < capacity[Local]
    BY <1>0, <1>5, <2>1, <2>2, AdoptFacts, HandedOverFinite DEF TableTypeOK, CounterTypeOK
  <2>4. capacity[Local] = Cap(n_entries[Local])
    BY <1>0, <1>5, <2>2, AdoptFacts DEF UsedBelowCapacity
  <2>5. /\ used'[t] < capacity'[t] /\ used'[t] \in Nat /\ capacity'[t] \in Nat
        /\ capacity'[t] = Cap(n_entries'[t])
    BY <1>0, <1>5, <2>1, <2>3, <2>4, AdoptFacts DEF TableTypeOK
  <2>6. \A u \in Tables \ {t, Local} : ~Growing(u)
    BY <2>1 DEF Growing
  <2>7. ~Created(Local)'
    BY <1>5, AdoptFacts DEF Created
  <2>8. \A u \in Tables \ {t, Local} :
          /\ used'[u] = used[u] /\ capacity'[u] = capacity[u] /\ n_entries'[u] = n_entries[u]
    BY <1>5, <2>1, AdoptFacts
  <2> QED
    BY <1>0, <2>5, <2>6, <2>7, <2>8 DEF UsedBelowCapacity, Created
<1> QED
  BY <1>1, <1>2, <1>3, <1>4, <1>5, TableSteps

-----------------------------------------------------------------------------
(* The loops keep what they rely on.                                        *)

\* An insert starts at the home of its key, where no slot has been passed.
LEMMA StartProbe ==
  ASSUME IInv, NEW t \in Tables, Created(t), NEW k \in Key, NEW v,
         StartInsert(t, k, v), UNCHANGED table, t \in {tgt', Local}
  PROVE  ProbeInv'
<1>0. TypeOK /\ TableTypeOK
  BY DEF IInv, TypeOK
<1>1. Home(k, t) \in 0 .. n_entries[t] - 1
  BY <1>0, HomeInRange
<1>2. \A j \in 0 .. n_entries[t] - 1 : ~(Dist(t, Home(k, t), j) < Dist(t, Home(k, t), Home(k, t)))
  <2> TAKE j \in 0 .. n_entries[t] - 1
  <2> QED
    BY <1>0, <1>1, DistType
<1>3. /\ cur' = t /\ key' = k /\ slot' = Home(k, t) /\ n_entries' = n_entries
      /\ entries' = entries
  BY DEF StartInsert, table
<1>4. Created(cur)' /\ slot' < n_entries'[cur']
  BY <1>0, <1>1, <1>3 DEF Created, TableTypeOK
<1>5. \A j \in 0 .. n_entries'[t] - 1 :
        ~(Dist(t, Home(k, t), j)' < Dist(t, Home(k, t), slot)')
  BY <1>2, <1>3 DEF Dist, Home
<1> QED
  BY <1>3, <1>4, <1>5 DEF ProbeInv, Dist, Home

LEMMA ProbeStepInv ==
  ASSUME IInv, [Next]_vars
  PROVE  ProbeInv'
<1>0. TypeOK /\ TableTypeOK /\ ProbeInv /\ GrowInv /\ CallInv
  BY DEF IInv, TypeOK
<1>1. ASSUME NEW m \in Map, NEW k \in Key, NEW v \in Value, Insert(m, k, v)
      PROVE  ProbeInv'
  BY <1>1, StartProbe DEF Insert, Tables, Created
<1>2. CASE RehashEntry
  <2>1. entries[tgt][gi] \in Entry /\ Created(Local) /\ Local \in Tables
    BY <1>2, LoopTypes DEF RehashEntry, IInv, GrowInv, Tables
  <2>2. entries[tgt][gi].key \in Key
    BY <1>2, <2>1 DEF RehashEntry, Entry
  <2> QED
    BY <1>2, <2>1, <2>2, StartProbe DEF RehashEntry
<1>3. CASE SpreadInsert
  <2>1. entries[src][si] \in Entry /\ Created(tgt) /\ tgt \in Tables /\ tgt' = tgt
    BY <1>0, <1>3, LoopTypes DEF SpreadInsert, CallInv, TypeOK, callVars
  <2>2. entries[src][si].key \in Key
    BY <1>3, <2>1 DEF SpreadInsert, Entry
  <2> QED
    BY <1>3, <2>1, <2>2, StartProbe DEF SpreadInsert
<1>4. ASSUME NEW m \in Map, NEW k \in Key, Lookup(m, k)
      PROVE  ProbeInv'
  <2> DEFINE h == Home(k, m)
  <2>1. m \in Tables /\ Created(m)
    BY <1>4 DEF Lookup, Created, Tables
  <2>2. h \in 0 .. n_entries[m] - 1
    BY <1>0, <2>1, HomeInRange
  <2>3. \A j \in 0 .. n_entries[m] - 1 : ~(Dist(m, h, j) < Dist(m, h, h))
    <3> TAKE j \in 0 .. n_entries[m] - 1
    <3> QED
      BY <1>0, <2>1, <2>2, DistType
  <2>4. /\ cur' = m /\ key' = k /\ slot' = h /\ n_entries' = n_entries /\ entries' = entries
        /\ pc' = "find"
    BY <1>4 DEF Lookup, table
  <2>5. \A j \in 0 .. n_entries'[m] - 1 : ~(Dist(m, Home(k, m), j)' < Dist(m, Home(k, m), slot)')
    BY <2>3, <2>4 DEF Dist, Home
  <2>6. Created(cur)' /\ slot' < n_entries'[cur']
    BY <1>0, <2>1, <2>2, <2>4 DEF Created, TableTypeOK
  <2> QED
    BY <2>4, <2>5, <2>6 DEF ProbeInv, Dist, Home
<1>5. CASE ProbeNext \/ FindNext
  <2>1. PICK t \in Tables, k \in Key : t = cur /\ k = key
    BY <1>0, <1>5, LoopTypes DEF TypeOK, ProbeNext, FindNext
  <2>2. /\ slot \in 0 .. n_entries[t] - 1 /\ Home(k, t) \in 0 .. n_entries[t] - 1
        /\ entries[t][slot].key \notin {NullKey, k} /\ n_entries[t] \in Nat
    BY <1>0, <1>5, <2>1, LoopTypes DEF ProbeNext, FindNext, TableTypeOK
  <2>3. /\ cur' = t /\ key' = k /\ slot' = Prev(t, slot) /\ pc' = pc /\ tgt' = tgt
        /\ n_entries' = n_entries /\ entries' = entries
    BY <1>5, <2>1 DEF ProbeNext, FindNext, table, callVars
  <2>4. Prev(t, slot) \in 0 .. n_entries[t] - 1
    BY <2>2 DEF Prev
  <2>5. ASSUME NEW j \in 0 .. n_entries[t] - 1,
               Dist(t, Home(k, t), j) < Dist(t, Home(k, t), Prev(t, slot))
        PROVE  entries[t][j].key \notin {NullKey, k}
    <3>1. Dist(t, Home(k, t), j) < Dist(t, Home(k, t), slot) \/ j = slot
      BY <1>0, <2>2, <2>5, ProbeStep
    <3> QED
      BY <1>0, <1>5, <2>1, <2>2, <3>1 DEF ProbeInv, ProbeNext, FindNext
  <2>6. Created(t) /\ (pc = "probe" => t \in {tgt, Local})
    BY <1>0, <1>5, <2>1 DEF ProbeInv, ProbeNext, FindNext
  <2>7. \A j \in 0 .. n_entries'[t] - 1 :
          Dist(t, Home(k, t), j)' < Dist(t, Home(k, t), slot)' => entries'[t][j].key \notin {NullKey, k}
    BY <2>3, <2>5 DEF Dist, Home
  <2> QED
    BY <2>2, <2>3, <2>4, <2>6, <2>7 DEF ProbeInv, Dist, Home, Created
<1>6. CASE UNCHANGED vars
  BY <1>0, <1>6 DEF ProbeInv, vars, table, insVars, callVars, Created, Dist, Home
<1>7. CASE pc' \notin {"probe", "find"}
  BY <1>7 DEF ProbeInv
<1> QED
  BY <1>1, <1>2, <1>3, <1>4, <1>5, <1>6, <1>7
  DEF Next, Invoke, Step, Halted, Create, DoubleSize, AllocTable, AllocFails, ProbeOverwrite,
      ProbePlace, RehashSkip, RehashDone, FindEnd, Spread, SpreadGrow, SpreadSkip, SpreadDone,
      Return, StartGrow, AfterInsert

LEMMA CallStep ==
  ASSUME IInv, [Next]_vars
  PROVE  CallInv'
<1>0. TypeOK /\ TableTypeOK /\ CounterTypeOK /\ CallInv
  BY DEF IInv, TypeOK
<1>1. \A t \in Tables : Created(t) => used[t] <= n_entries[t]
  BY CapBound DEF IInv, UsedBelowCapacity, TableTypeOK, TypeOK, Created
<1>2. CASE SpreadGrow
  <2>1. op = "spread" /\ src \in Map \ {tgt} /\ Created(src) /\ tgt \in Map /\ Created(tgt)
    BY <1>0, <1>2 DEF CallInv, SpreadGrow
  <2>2. used[src] <= n_entries[src] /\ used[src] \in Nat
    BY <1>0, <1>1, <2>1 DEF Tables, TableTypeOK
  <2> QED
    BY <1>2, <2>1, <2>2 DEF SpreadGrow, StartGrow, CallInv, Created, table, callVars
<1>3. CASE SpreadSkip \/ SpreadInsert
  <2>1. si < srcUsed /\ si' = si + 1 /\ si' <= srcUsed
    BY <1>0, <1>3 DEF SpreadSkip, SpreadInsert, CounterTypeOK
  <2> QED
    BY <1>0, <1>3, <2>1
    DEF SpreadSkip, SpreadInsert, StartInsert, CallInv, Created, table, callVars, growVars
<1>4. CASE Invoke
  BY <1>0, <1>4
  DEF Invoke, Create, Insert, StartInsert, Lookup, Spread, CallInv, Created, table, callVars,
      spreadVars
<1>5. CASE DoubleSize \/ AllocFails \/ ProbeNext \/ RehashSkip \/ RehashEntry \/ FindNext
           \/ FindEnd \/ SpreadDone \/ Return \/ UNCHANGED vars
  BY <1>0, <1>5
  DEF DoubleSize, AllocFails, ProbeNext, RehashSkip, RehashEntry, StartInsert, FindNext, FindEnd,
      SpreadDone, Return, CallInv, Created, table, callVars, spreadVars, insVars, vars
<1>6. CASE ProbeOverwrite \/ ProbePlace
  BY <1>0, <1>6
  DEF ProbeOverwrite, ProbePlace, StartGrow, AfterInsert, CallInv, Created, callVars, spreadVars,
      insVars
<1>7. CASE AllocTable
  <2>1. PICK t : t = IF op = "create" THEN tgt ELSE Local
    OBVIOUS
  <2>2. \A u \in Tables : u # t => n_entries'[u] = n_entries[u]
    BY <1>7, <2>1, AllocFacts
  <2>3. op # "create" => t \notin Map
    BY <2>1, LocalAssumption
  <2>4. UNCHANGED <<op, tgt, src, srcUsed, si>> /\ pc' \in {"done", "rehash"}
    BY <1>7 DEF AllocTable, callVars, spreadVars
  <2>5. pc' = "rehash" => op \in {"insert", "spread"}
    BY <1>0, <1>7 DEF AllocTable, CallInv
  <2> QED
    BY <1>0, <1>7, <2>2, <2>3, <2>4, <2>5 DEF AllocTable, CallInv, Created, Tables
<1>8. CASE RehashDone
  <2>1. n_entries'[tgt] = n_entries[Local] /\ n_entries[Local] > 0
    BY <1>8, AdoptFacts DEF IInv, GrowInv, RehashDone, Created
  <2>2. op = "spread" => n_entries'[src] = n_entries[src]
    BY <1>0, <1>8, AdoptFacts, LocalAssumption DEF CallInv, Tables
  <2>3. UNCHANGED <<op, tgt, src, srcUsed, si>> /\ pc' = IF op = "spread" THEN "spread" ELSE "done"
    BY <1>8 DEF RehashDone, callVars, spreadVars
  <2> QED
    BY <1>0, <1>8, <2>1, <2>2, <2>3 DEF RehashDone, CallInv, Created
<1> QED
  BY <1>2, <1>3, <1>4, <1>5, <1>6, <1>7, <1>8 DEF Next, Step, Halted

\* Where the growth of a map is, nMap holds what was handed over.
LEMMA GrowStep ==
  ASSUME IInv, [Next]_vars
  PROVE  GrowInv'
<1>0. TypeOK /\ TableTypeOK /\ CounterTypeOK /\ CallInv /\ GrowInv /\ tgt \in Tables
  BY DEF IInv, TypeOK
<1>1. ASSUME NEW m \in Map, Create(m) PROVE GrowInv'
  BY <1>1, SizeAssumption DEF Create, GrowInv
<1>2. CASE DoubleSize
  <2>1. (2 * n) % SizeMod \in Nat
    BY <1>0, ModBound, SizeAssumption DEF CounterTypeOK
  <2> QED
    BY <1>0, <1>2, <2>1 DEF DoubleSize, Doubled, GrowInv, table, callVars
<1>3. CASE AllocTable
  <2>1. CASE op = "create"
    BY <1>3, <2>1 DEF AllocTable, GrowInv
  <2>2. CASE op # "create"
    <3>1. tgt \in Map /\ tgt # Local /\ Local \in Tables
      BY <1>0, <1>3, <2>2, LocalAssumption DEF CallInv, AllocTable, Tables
    <3>2. /\ n_entries'[Local] > 0 /\ capacity'[Local] >= minCap /\ used'[Local] = 0
          /\ used'[tgt] = used[tgt]
      <4>1. PICK t : t = IF op = "create" THEN tgt ELSE Local
        OBVIOUS
      <4>2. t = Local /\ t # tgt
        BY <2>2, <3>1, <4>1
      <4>3. /\ used'[t] = 0 /\ capacity'[t] = Cap(n) /\ n_entries'[t] = n /\ n \in Nat \ {0}
            /\ Cap(n) >= minCap /\ \A u \in Tables \ {t} : used'[u] = used[u]
        BY <1>3, <4>1, AllocFacts
      <4> QED
        BY <1>0, <4>2, <4>3
    <3>3. gi' = 0 /\ minCap' = minCap /\ tgt' = tgt /\ pc' = "rehash"
      BY <1>3, <2>2 DEF AllocTable, callVars
    <3>4. HandedOver' = {}
      BY <3>3 DEF HandedOver, Occupied
    <3>5. 0 <= n_entries'[tgt]
      BY TypeStep, <1>0, <3>3 DEF TypeOK, TableTypeOK
    <3> QED
      BY <1>0, <1>3, <2>2, <3>2, <3>3, <3>4, <3>5, FS_EmptySet DEF GrowInv, AllocTable, Created
  <2> QED
    BY <2>1, <2>2
<1>4. CASE ProbeNext \/ (ProbeOverwrite /\ cur # Local)
  BY <1>0, <1>4 DEF ProbeNext, ProbeOverwrite, AfterInsert, GrowInv, HandedOver, Occupied,
     Created, table, callVars, growVars
<1>5. CASE ProbeOverwrite /\ cur = Local
  <2>1. tgt' = tgt /\ gi' = gi /\ minCap' = minCap /\ pc' = "rehash"
    BY <1>5 DEF ProbeOverwrite, AfterInsert, callVars, growVars
  <2>2. HandedOver' = {i \in Occupied(tgt) : i < gi} /\ UNCHANGED <<used, capacity, n_entries>>
    BY <1>0, <1>5, <2>1, OverwriteFacts DEF HandedOver
  <2>3. used[Local] + 1 <= Cardinality(HandedOver') /\ Cardinality(HandedOver') \in Nat
    BY <1>5, <2>2, HandedOverNext DEF ProbeOverwrite
  <2> QED
    BY <1>0, <1>5, <2>1, <2>2, <2>3
    DEF GrowInv, ProbeOverwrite, Created, TableTypeOK, Tables, Occupied
<1>6. CASE ProbePlace /\ cur = Local
  <2>1. tgt \in Map /\ tgt # Local /\ Local \in Tables
    BY <1>0, <1>6, LocalAssumption DEF CallInv, ProbePlace, Tables
  <2>2. pc' = "rehash"
    BY <1>0, <1>6, <2>1, LocalNotFull DEF ProbePlace, IsFull, AfterInsert, TableTypeOK
  <2>3. tgt' = tgt /\ gi' = gi /\ minCap' = minCap
    BY <1>0, <1>6, <2>1, LocalNotFull
    DEF ProbePlace, IsFull, callVars, TableTypeOK
  <2>4. /\ Occupied(tgt)' = Occupied(tgt) /\ used'[Local] = used[Local] + 1
        /\ used'[tgt] = used[tgt] /\ UNCHANGED <<capacity, n_entries>>
    <3>1. PICK t \in Tables : t = tgt
      BY <2>1 DEF Tables
    <3>2. Occupied(t)' = Occupied(t)
      BY <1>6, <2>1, <3>1, PlaceFacts
    <3> QED
      BY <1>6, <2>1, <2>3, <3>1, <3>2, PlaceFacts DEF Occupied
  <2>5. HandedOver' = {i \in Occupied(tgt) : i < gi}
    BY <2>2, <2>3, <2>4 DEF HandedOver
  <2>6. used[Local] + 1 <= Cardinality(HandedOver')
    BY <1>6, <2>5, HandedOverNext DEF ProbePlace
  <2> QED
    BY <1>0, <1>6, <2>1, <2>2, <2>3, <2>4, <2>6
    DEF GrowInv, ProbePlace, Created, TableTypeOK, CounterTypeOK, Occupied
<1>7. CASE ProbePlace /\ cur # Local
  <2>1. cur = tgt
    BY <1>0, <1>7 DEF IInv, ProbeInv, ProbePlace
  <2>2. used'[tgt] = used[tgt] + 1 /\ used[tgt] \in Nat
    BY <1>0, <1>7, <2>1, PlaceFacts DEF TableTypeOK
  <2>3. pc' # "rehash" /\ cur' = cur /\ tgt' = tgt /\ pc' # "probe"
    BY <1>7 DEF ProbePlace, StartGrow, AfterInsert, callVars, insVars
  <2>4. pc' = "size" => n' = MinSize /\ minCap' = used[tgt] + 2
    BY <1>7, <2>1, <2>2 DEF ProbePlace, StartGrow, GrownSize, AfterInsert
  <2> QED
    BY <2>2, <2>3, <2>4, SizeAssumption DEF GrowInv
<1>8. CASE RehashSkip
  <2>1. gi' = gi + 1 /\ pc' = "rehash" /\ tgt' = tgt /\ minCap' = minCap /\ UNCHANGED table
    BY <1>8 DEF RehashSkip, callVars
  <2>2. gi + 1 <= n_entries[tgt] /\ gi \notin Occupied(tgt)
    BY <1>0, <1>8 DEF RehashSkip, TableTypeOK, CounterTypeOK, Occupied
  <2>3. HandedOver' = HandedOver
    BY <1>0, <1>8, <2>1, <2>2 DEF HandedOver, Occupied, table, CounterTypeOK, RehashSkip
  <2> QED
    BY <1>0, <1>8, <2>1, <2>2, <2>3 DEF GrowInv, RehashSkip, Created, table
<1>9. CASE RehashEntry
  <2>1. /\ gi' = gi + 1 /\ pc' = "probe" /\ cur' = Local /\ tgt' = tgt /\ minCap' = minCap
        /\ UNCHANGED table
    BY <1>9 DEF RehashEntry, StartInsert, callVars
  <2>2. gi + 1 <= n_entries[tgt] /\ gi \in Occupied(tgt) /\ gi' - 1 = gi
    BY <1>0, <1>9, <2>1 DEF RehashEntry, TableTypeOK, CounterTypeOK, Occupied
  <2>3. HandedOver' = HandedOver /\ Occupied(tgt)' = Occupied(tgt)
    BY <1>9, <2>1, <2>2 DEF HandedOver, Occupied, table, RehashEntry
  <2> QED
    BY <1>0, <1>9, <2>1, <2>2, <2>3 DEF GrowInv, RehashEntry, Created, table, CounterTypeOK
<1>10. CASE SpreadGrow
  <2>1. used[tgt] \in Nat /\ used[src] \in Nat
    BY <1>0 DEF TypeOK, TableTypeOK
  <2> QED
    BY <1>10, <2>1, SizeAssumption
    DEF SpreadGrow, StartGrow, SpreadSize, GrowInv, table, callVars
<1>11. ASSUME NEW m \in Map, NEW k \in Key, NEW v \in Value, Insert(m, k, v)
       PROVE  GrowInv'
  BY <1>11, LocalAssumption DEF Insert, StartInsert, GrowInv
<1>12. CASE SpreadInsert
  <2>1. tgt # Local
    BY <1>0, <1>12, LocalAssumption DEF SpreadInsert, CallInv
  <2> QED
    BY <1>12, <2>1 DEF SpreadInsert, StartInsert, GrowInv
<1>13. CASE UNCHANGED vars
  BY <1>0, <1>13 DEF vars, table, callVars, growVars, insVars, GrowInv, HandedOver, Occupied, Created
<1>14. CASE pc' \notin {"size", "rehash", "probe"}
  BY <1>14 DEF GrowInv
<1> QED
  BY <1>1, <1>2, <1>3, <1>4, <1>5, <1>6, <1>7, <1>8, <1>9, <1>10, <1>11, <1>12, <1>13, <1>14
  DEF Next, Invoke, Step, Halted, AllocFails, RehashDone, Lookup, FindNext, FindEnd, Spread,
      SpreadSkip, SpreadDone, Return

LEMMA ExitStep ==
  ASSUME IInv, [Next]_vars
  PROVE  NoNestedGrowth' /\ InsertNeverShrinks'
<1>0. NoNestedGrowth /\ InsertNeverShrinks /\ CallInv /\ TypeOK /\ TableTypeOK
  BY DEF IInv, TypeOK
<1>1. CASE ProbePlace /\ cur = Local
  <2>1. pc' = "rehash"
    BY <1>0, <1>1, LocalNotFull
    DEF ProbePlace, IsFull, AfterInsert, TableTypeOK, Tables
  <2> QED
    BY <2>1 DEF NoNestedGrowth, InsertNeverShrinks
<1>2. CASE ProbePlace /\ cur # Local
  <2>1. used[cur] \in Nat
    BY <1>0 DEF TypeOK, TableTypeOK
  <2>2. pc' \in {"size", "spread", "done"}
    BY <1>2, <2>1 DEF ProbePlace, IsFull, StartGrow, GrownSize, AfterInsert
  <2> QED
    BY <2>2 DEF NoNestedGrowth, InsertNeverShrinks
<1>3. CASE SpreadGrow
  BY <1>0, <1>3 DEF SpreadGrow, StartGrow, CallInv, NoNestedGrowth, InsertNeverShrinks, callVars
<1>4. CASE UNCHANGED vars
  BY <1>0, <1>4 DEF vars, callVars, NoNestedGrowth, InsertNeverShrinks
<1>5. CASE pc' \notin {"nested", "shrink"}
  BY <1>5 DEF NoNestedGrowth, InsertNeverShrinks
<1> QED
  BY <1>1, <1>2, <1>3, <1>4, <1>5
  DEF Next, Invoke, Step, Halted, Create, DoubleSize, AllocTable, AllocFails, Insert, ProbeNext,
      ProbeOverwrite, RehashSkip, RehashEntry, RehashDone, Lookup, FindNext, FindEnd, Spread,
      SpreadSkip, SpreadInsert, SpreadDone, Return, StartInsert, AfterInsert, NoNestedGrowth,
      InsertNeverShrinks, callVars

-----------------------------------------------------------------------------
(* The sizes of a table.                                                    *)

\* A set of numbers that is not empty has a least one.
LEMMA LeastElement ==
  ASSUME NEW S \in SUBSET Nat, S # {}
  PROVE  \E x \in S : \A y \in S : x <= y
<1> DEFINE R == OpToRel(<, Nat)
<1>1. IsWellFoundedOn(R, Nat)
  BY NatLessThanWellFounded
<1>2. \A a, b \in Nat : <<a, b>> \in R <=> a < b
  BY DEF OpToRel
<1> HIDE DEF R
<1>3. PICK x \in S : \A y \in S : ~ (<<y, x>> \in R)
  BY <1>1, WFMin
<1>4. \A y \in S : y \in Nat /\ x \in Nat /\ ~(y < x)
  <2> TAKE y \in S
  <2>1. y \in Nat /\ x \in Nat
    OBVIOUS
  <2>2. <<y, x>> \in R <=> y < x
    BY <1>2, <2>1
  <2> QED BY <1>3, <2>1, <2>2
<1> QED
  BY <1>4

\* What has a factor has it as a divisor.
LEMMA Multiple == \A d \in Nat \ {0}, r \in Nat : (d * r) % d = 0
  BY SMT

\* n <<= 1 keeps a power of 2 one (balmap.c:31).
LEMMA Doubling ==
  ASSUME NEW m, PowerOf2(m)
  PROVE  PowerOf2(2 * m)
<1>1. m \in Nat \ {0}
  BY DEF PowerOf2
<1> SUFFICES ASSUME NEW d \in 1 .. 2 * m, (2 * m) % d = 0, d % 2 = 1 PROVE d = 1
  BY <1>1 DEF PowerOf2
<1> DEFINE q == (2 * m) \div d
           a == d \div 2
           r == m - a * q
<1>2. d \in Nat \ {0} /\ q \in Nat /\ 2 * m = d * q
  BY <1>1
<1>3. a \in Nat /\ d = 2 * a + 1
  OBVIOUS
<1>4. q = 2 * r /\ r \in Int
  BY <1>1, <1>2, <1>3
<1>5. m = d * r /\ r \in Nat
  BY <1>1, <1>2, <1>4
<1>6. m % d = 0
  BY <1>2, <1>5, Multiple
<1>7. d <= m
  BY <1>1, <1>2, <1>5
<1> QED BY <1>1, <1>6, <1>7 DEF PowerOf2

LEMMA Halving ==
  ASSUME NEW m, PowerOf2(m), m # 1
  PROVE  /\ 2 * (m \div 2) = m /\ PowerOf2(m \div 2)
<1> DEFINE h == m \div 2
<1>1. m \in Nat \ {0}
  BY DEF PowerOf2
<1>2. m % m = 0 /\ m \in 1 .. m
  BY <1>1
<1>3. m % 2 # 1
  BY <1>2 DEF PowerOf2
<1>4. m = 2 * h /\ h \in Nat \ {0} /\ h <= m
  BY <1>1, <1>3
<1> HIDE DEF h
<1>5. ASSUME NEW d \in 1 .. h, h % d = 0, d % 2 = 1 PROVE d = 1
  <2> DEFINE q == h \div d
  <2>1. d \in Nat \ {0} /\ q \in Nat /\ h = d * q
    BY <1>4, <1>5
  <2>2. m = d * (2 * q) /\ 2 * q \in Nat
    BY <1>4, <2>1
  <2>3. m % d = 0
    BY <2>1, <2>2, Multiple
  <2> QED BY <1>4, <1>5, <2>3 DEF PowerOf2
<1>6. PowerOf2(h)
  BY <1>4, <1>5 DEF PowerOf2
<1> QED BY <1>4, <1>6 DEF h

\* No power of 2 lies between one and the next.
LEMMA NextPower ==
  ASSUME NEW m, PowerOf2(m), NEW s, PowerOf2(s), s < 2 * m
  PROVE  s <= m
<1> DEFINE Bad == {x \in Nat : PowerOf2(x) /\ \E y \in Nat : PowerOf2(y) /\ x < y /\ y < 2 * x}
<1> SUFFICES ASSUME ~(s <= m) PROVE FALSE
  OBVIOUS
<1>0. m \in Bad
  <2>1. m \in Nat /\ s \in Nat /\ m < s
    BY DEF PowerOf2
  <2> QED BY <2>1
<1>1. PICK x \in Bad : \A z \in Bad : x <= z
  BY <1>0, LeastElement
<1>2. PICK y \in Nat : PowerOf2(y) /\ x < y /\ y < 2 * x
  BY <1>1
<1>3. x \in Nat \ {0} /\ PowerOf2(x) /\ x # 1 /\ y # 1
  BY <1>1, <1>2 DEF PowerOf2
<1> DEFINE g == x \div 2
           h == y \div 2
<1>4. 2 * g = x /\ PowerOf2(g) /\ 2 * h = y /\ PowerOf2(h)
  BY <1>2, <1>3, Halving
<1>5. g \in Nat /\ h \in Nat /\ g < h /\ h < 2 * g /\ g < x
  BY <1>2, <1>3, <1>4
<1>6. g \in Bad
  BY <1>4, <1>5
<1> QED BY <1>1, <1>3, <1>5, <1>6

\* The capacity grows with the table.
LEMMA CapGrows ==
  ASSUME NEW m \in Nat, NEW s \in Nat, s <= m
  PROVE  Cap(s) <= Cap(m) /\ Cap(s) \in Nat /\ Cap(m) \in Nat
  BY SMT DEF Cap

\* The next size is a power of 2, or too large for a size_t.
LEMMA NextSize ==
  ASSUME NEW m, PowerOf2(m), m < SizeMod
  PROVE  /\ 2 * m < SizeMod => Doubled(m) = 2 * m /\ PowerOf2(2 * m)
         /\ ~(2 * m < SizeMod) => 2 * m = SizeMod /\ Doubled(m) = 0
<1>1. m \in Nat \ {0} /\ SizeMod \in Nat \ {0}
  BY SizeAssumption DEF PowerOf2
<1>2. CASE 2 * m < SizeMod
  <2>1. (2 * m) % SizeMod = 2 * m
    BY <1>1, <1>2
  <2> QED BY <1>2, <2>1, Doubling DEF Doubled
<1>3. CASE ~(2 * m < SizeMod)
  <2>1. ~(SizeMod < 2 * m)
    BY <1>1, PowerAssumption, NextPower
  <2>2. 2 * m = SizeMod
    BY <1>1, <1>3, <2>1
  <2>3. SizeMod % SizeMod = 0 /\ ~(2 * m < SizeMod)
    BY <1>1, <1>3
  <2>4. (2 * m) % SizeMod = 0
    BY <2>2, <2>3
  <2> QED BY <2>2, <2>3, <2>4 DEF Doubled
<1> QED BY <1>2, <1>3

\* No size_t is a table large enough: the loop of bal_map_init_hashtable has
\* tried the last one that is not.
LEMMA DoubleSizeInv ==
  ASSUME IInv, DoubleSize
  PROVE  SizeInv'
<1>1. PowerOf2(n) /\ n < SizeMod /\ n \in Nat /\ minCap \in Nat
  BY DEF IInv, SizeInv, DoubleSize, TypeOK, CounterTypeOK
<1>2. UNCHANGED <<n_entries, used, src, minCap, op>> /\ n' = Doubled(n)
      /\ pc' = (IF n' = 0 THEN "overflow" ELSE "size") /\ Cap(n) < minCap
  BY DEF DoubleSize, table, callVars, spreadVars, TooSmall
<1>3. SizesArePowersOf2'
  BY <1>2 DEF IInv, SizeInv, SizesArePowersOf2, Created
<1>4. CASE 2 * n < SizeMod
  <2>1. n' = 2 * n /\ PowerOf2(2 * n)
    BY <1>1, <1>2, <1>4, NextSize
  <2>2. n' # 0
    BY <2>1 DEF PowerOf2
  <2>3. pc' = "size"
    BY <1>2, <2>2
  <2> QED BY <1>3, <1>4, <2>1, <2>3 DEF SizeInv, OverflowOnlyWhenNothingFits
<1>5. CASE ~(2 * n < SizeMod)
  <2>1. 2 * n = SizeMod /\ pc' = "overflow"
    BY <1>1, <1>2, <1>5, NextSize
  <2>2. ASSUME NEW s \in TableSizes PROVE Cap(s) < minCap
    <3>1. PowerOf2(s) /\ s \in Nat /\ s < 2 * n
      BY <1>1, <2>1 DEF TableSizes
    <3>2. s <= n
      BY <1>1, <3>1, NextPower
    <3> QED BY <1>1, <1>2, <3>1, <3>2, CapGrows
  <2> QED BY <1>2, <1>3, <2>1, <2>2 DEF SizeInv, OverflowOnlyWhenNothingFits
<1> QED BY <1>4, <1>5

\* A spread that has more keys to hold than a size_t counts.
LEMMA SpreadGrowSizeInv ==
  ASSUME IInv, SpreadGrow
  PROVE  SizeInv'
<1>1. used[src] \in Nat /\ used[tgt] \in Nat /\ op = "spread" /\ SizeMod \in Nat
  BY SizeAssumption DEF IInv, TypeOK, TableTypeOK, CallInv, SpreadGrow
<1>2. UNCHANGED <<n_entries, used, src, tgt, op>>
  BY DEF SpreadGrow, table, callVars
<1>3. SizesArePowersOf2'
  BY <1>2 DEF IInv, SizeInv, SizesArePowersOf2, Created
<1>4. CASE used[src] > SizeMod - 1 - used[tgt]
  <2>1. pc' = "overflow"
    BY <1>4 DEF SpreadGrow
  <2>2. ASSUME NEW s \in TableSizes PROVE Cap(s) < used[src] + used[tgt]
    <3>1. s \in Nat /\ s < SizeMod
      BY <1>1 DEF TableSizes
    <3>2. Cap(s) \in Nat /\ Cap(s) <= s
      BY <3>1, CapBound
    <3> QED BY <1>1, <1>4, <3>1, <3>2
  <2> QED BY <1>1, <1>2, <1>3, <2>1, <2>2 DEF SizeInv, OverflowOnlyWhenNothingFits
<1>5. CASE ~(used[src] > SizeMod - 1 - used[tgt])
  BY <1>3, <1>5, PowerAssumption
  DEF SpreadGrow, StartGrow, SizeInv, OverflowOnlyWhenNothingFits
<1> QED BY <1>4, <1>5

LEMMA SizeStep ==
  ASSUME IInv, [Next]_vars
  PROVE  SizeInv'
<1>0. SizesArePowersOf2 /\ OverflowOnlyWhenNothingFits
      /\ (pc = "size" => PowerOf2(n) /\ n < SizeMod)
  BY DEF IInv, SizeInv
<1>1. CASE DoubleSize
  BY <1>1, DoubleSizeInv
<1>2. CASE SpreadGrow
  BY <1>2, SpreadGrowSizeInv
<1>3. CASE AllocTable
  <2> DEFINE t == IF op = "create" THEN tgt ELSE Local
  <2>1. n_entries' = [n_entries EXCEPT ![t] = n] /\ pc' \in {"done", "rehash"} /\ PowerOf2(n)
    BY <1>0, <1>3 DEF AllocTable
  <2>2. DOMAIN n_entries = Tables
    BY DEF IInv, TypeOK, TableTypeOK
  <2>3. SizesArePowersOf2'
    BY <1>0, <2>1, <2>2 DEF SizesArePowersOf2, Created
  <2> QED BY <2>1, <2>3 DEF SizeInv, OverflowOnlyWhenNothingFits
<1>4. CASE RehashDone
  <2>1. n_entries' = [n_entries EXCEPT ![tgt] = n_entries[Local], ![Local] = 0]
        /\ pc' \in {"done", "spread"}
    BY <1>4 DEF RehashDone, Adopt
  <2>2. DOMAIN n_entries = Tables /\ Local \in Tables
    BY DEF IInv, TypeOK, TableTypeOK, Tables
  <2>3. SizesArePowersOf2'
    BY <1>0, <2>1, <2>2 DEF SizesArePowersOf2, Created
  <2> QED BY <2>1, <2>3 DEF SizeInv, OverflowOnlyWhenNothingFits
<1>5. CASE /\ n_entries' = n_entries
           /\ pc' \notin {"size", "overflow"}
  BY <1>0, <1>5 DEF SizeInv, SizesArePowersOf2, OverflowOnlyWhenNothingFits, Created
<1>6. CASE /\ n_entries' = n_entries
           /\ pc' = "size" /\ n' = MinSize
  BY <1>0, <1>6, PowerAssumption
  DEF SizeInv, SizesArePowersOf2, OverflowOnlyWhenNothingFits, Created
<1>7. CASE UNCHANGED vars
  BY <1>0, <1>7
  DEF vars, table, callVars, spreadVars, growVars, SizeInv, SizesArePowersOf2,
      OverflowOnlyWhenNothingFits, Created
<1>8. CASE ProbePlace
  BY <1>5, <1>6, <1>8 DEF ProbePlace, StartGrow, AfterInsert
<1> QED
  BY <1>1, <1>2, <1>3, <1>4, <1>5, <1>6, <1>7, <1>8
  DEF Next, Invoke, Step, Halted, Create, AllocFails, Insert, ProbeNext,
      ProbeOverwrite, RehashSkip, RehashEntry, Lookup, FindNext, FindEnd, Spread,
      SpreadSkip, SpreadInsert, SpreadDone, Return, StartInsert, AfterInsert, table

-----------------------------------------------------------------------------
(* What is left of a call.                                                  *)

\* A table that is not full to its slots has an empty one.
LEMMA EmptySlot ==
  ASSUME IInv
  PROVE  ProbeHasEmptySlot
<1>1. ASSUME pc \in {"probe", "find"}
      PROVE  \E i \in 0 .. n_entries[cur] - 1 : entries[cur][i].key = NullKey
  <2>1. TypeOK /\ TableTypeOK /\ cur \in Tables /\ Created(cur) /\ n_entries[cur] \in Nat \ {0}
    BY <1>1 DEF IInv, TypeOK, TableTypeOK, ProbeInv, Created
  <2>2. used[cur] <= Cap(n_entries[cur]) /\ Cap(n_entries[cur]) < n_entries[cur]
    BY <1>1, <2>1, CapBound DEF IInv, UsedBelowCapacity
  <2>3. Cardinality(Occupied(cur)) # n_entries[cur]
    BY <1>1, <2>1, <2>2, CapBound DEF IInv, UsedCountsEntries, TableTypeOK
  <2>4. Occupied(cur) # 0 .. n_entries[cur] - 1
    <3>1. ASSUME Occupied(cur) = 0 .. n_entries[cur] - 1 PROVE FALSE
      <4> DEFINE last == n_entries[cur] - 1
      <4>1. last \in Int /\ last + 1 = n_entries[cur] /\ ~(0 > last)
        BY <2>1
      <4> HIDE DEF last
      <4>2. Cardinality(0 .. last) = IF 0 > last THEN 0 ELSE last - 0 + 1
        BY <4>1, FS_Interval
      <4>3. Cardinality(0 .. last) = n_entries[cur]
        BY <4>1, <4>2
      <4> QED
        BY <2>3, <3>1, <4>3 DEF last
    <3> QED
      BY <3>1
  <2> QED
    BY <2>4 DEF Occupied
<1> QED
  BY <1>1 DEF ProbeHasEmptySlot

\* Lower on measures of five numbers, spelled out.
LEMMA LowerBy ==
  ASSUME NEW a, NEW b, NEW c, NEW d, NEW e, NEW u, NEW v, NEW w, NEW x, NEW y,
         \/ u < a
         \/ u = a /\ v < b
         \/ u = a /\ v = b /\ w < c
         \/ u = a /\ v = b /\ w = c /\ x < d
         \/ u = a /\ v = b /\ w = c /\ x = d /\ y < e
  PROVE  Lower(<<u, v, w, x, y>>, <<a, b, c, d, e>>)
<1> DEFINE r == <<u, v, w, x, y>>
           q == <<a, b, c, d, e>>
<1>1. DOMAIN q = 1 .. 5
  OBVIOUS
<1>2. /\ r[1] = u /\ r[2] = v /\ r[3] = w /\ r[4] = x /\ r[5] = y
      /\ q[1] = a /\ q[2] = b /\ q[3] = c /\ q[4] = d /\ q[5] = e
  OBVIOUS
<1>3. /\ \A j \in 1 .. 1 - 1 : FALSE
      /\ \A j \in 1 .. 2 - 1 : j = 1
      /\ \A j \in 1 .. 3 - 1 : j = 1 \/ j = 2
      /\ \A j \in 1 .. 4 - 1 : j = 1 \/ j = 2 \/ j = 3
      /\ \A j \in 1 .. 5 - 1 : j = 1 \/ j = 2 \/ j = 3 \/ j = 4
  OBVIOUS
<1>4. 1 \in DOMAIN q /\ 2 \in DOMAIN q /\ 3 \in DOMAIN q /\ 4 \in DOMAIN q /\ 5 \in DOMAIN q
  BY <1>1
<1> HIDE DEF r, q
<1>5. ASSUME u < a PROVE Lower(r, q)
  BY <1>2, <1>3, <1>4, <1>5 DEF Lower
<1>6. ASSUME u = a /\ v < b PROVE Lower(r, q)
  BY <1>2, <1>3, <1>4, <1>6 DEF Lower
<1>7. ASSUME u = a /\ v = b /\ w < c PROVE Lower(r, q)
  BY <1>2, <1>3, <1>4, <1>7 DEF Lower
<1>8. ASSUME u = a /\ v = b /\ w = c /\ x < d PROVE Lower(r, q)
  BY <1>2, <1>3, <1>4, <1>8, Zenon DEF Lower
<1>9. ASSUME u = a /\ v = b /\ w = c /\ x = d /\ y < e PROVE Lower(r, q)
  BY <1>2, <1>3, <1>4, <1>9 DEF Lower
<1>10. Lower(r, q)
  BY <1>5, <1>6, <1>7, <1>8, <1>9
<1> QED BY <1>10 DEF r, q

\* One more round of a loop leaves less of it.
LEMMA LeftLess ==
  ASSUME NEW m \in Nat, NEW i \in Nat, NEW k \in Nat, i < m, i < k
  PROVE  Left(m, k) < Left(m, i) /\ Left(m, i) > 0
  BY DEF Left

LEMMA LeftNat ==
  ASSUME NEW m \in Nat, NEW i \in Nat
  PROVE  Left(m, i) \in Nat
  BY DEF Left

\* The stage and the phase of each place of the code, in a state and in the next.
LEMMA StageNow ==
  /\ pc = "grow" => Stage = 3
  /\ pc \in {"size", "rehash", "probe", "find", "spread"} => Stage = 2
  /\ pc = "done" => Stage = 1
  /\ pc \in {"idle", "nested"} \cup Aborted => Stage = 0
  BY DEF Stage, Aborted

LEMMA StageNext ==
  /\ pc' = "grow" => Stage' = 3
  /\ pc' \in {"size", "rehash", "probe", "find", "spread"} => Stage' = 2
  /\ pc' = "done" => Stage' = 1
  /\ pc' \in {"idle", "nested"} \cup Aborted => Stage' = 0
  BY DEF Stage, Aborted

LEMMA PhaseNow ==
  /\ pc = "find" \/ (pc = "probe" /\ cur # Local) => Phase = 4
  /\ pc = "size" => Phase = 3
  /\ pc = "rehash" \/ (pc = "probe" /\ cur = Local) => Phase = 2
  /\ pc = "spread" => Phase = 1
  BY DEF Phase

LEMMA PhaseNext ==
  /\ pc' = "find" \/ (pc' = "probe" /\ cur' # Local) => Phase' = 4
  /\ pc' = "size" => Phase' = 3
  /\ pc' = "rehash" \/ (pc' = "probe" /\ cur' = Local) => Phase' = 2
  /\ pc' = "spread" => Phase' = 1
  BY DEF Phase

LEMMA MeasureBy ==
  ASSUME \/ Stage' < Stage
         \/ Stage' = Stage /\ ToSpread' < ToSpread
         \/ Stage' = Stage /\ ToSpread' = ToSpread /\ Phase' < Phase
         \/ Stage' = Stage /\ ToSpread' = ToSpread /\ Phase' = Phase /\ ToGrow' < ToGrow
         \/ /\ Stage' = Stage /\ ToSpread' = ToSpread /\ Phase' = Phase /\ ToGrow' = ToGrow
            /\ ToProbe' < ToProbe
  PROVE  Lower(CallMeasure', CallMeasure)
<1>1. /\ CallMeasure = <<Stage, ToSpread, Phase, ToGrow, ToProbe>>
      /\ CallMeasure' = <<Stage', ToSpread', Phase', ToGrow', ToProbe'>>
  BY DEF CallMeasure
<1> QED BY <1>1, LowerBy

LEMMA SameToSpread ==
  ASSUME Stage' = Stage, op' = op, srcUsed' = srcUsed, si' = si
  PROVE  ToSpread' = ToSpread
  BY DEF ToSpread

LEMMA SameToGrow ==
  ASSUME Phase' = Phase, n' = n, n_entries' = n_entries, tgt' = tgt, gi' = gi
  PROVE  ToGrow' = ToGrow
  BY DEF ToGrow

\* A probe that has met neither its key nor an empty slot has one ahead.
LEMMA ProbeShortens ==
  ASSUME IInv, ProbeNext \/ FindNext
  PROVE  Lower(CallMeasure', CallMeasure)
<1>1. TypeOK /\ TableTypeOK /\ ProbeInv /\ ProbeHasEmptySlot
  BY EmptySlot DEF IInv, TypeOK
<1>2. PICK t \in Tables, h \in 0 .. n_entries[cur] - 1 : t = cur /\ h = Home(key, cur)
  BY <1>1, LoopTypes DEF TypeOK, ProbeNext, FindNext
<1>3. /\ pc \in {"probe", "find"} /\ slot \in 0 .. n_entries[t] - 1 /\ n_entries[t] \in Nat
      /\ entries[t][slot].key # NullKey
  BY <1>1, <1>2, LoopTypes DEF ProbeNext, FindNext, TableTypeOK
<1>4. /\ cur' = cur /\ key' = key /\ slot' = Prev(t, slot) /\ pc' = pc /\ tgt' = tgt
      /\ n_entries' = n_entries /\ op' = op /\ srcUsed' = srcUsed /\ si' = si /\ n' = n /\ gi' = gi
  BY <1>2 DEF ProbeNext, FindNext, table, callVars, spreadVars, growVars
<1>5. PICK i \in 0 .. n_entries[t] - 1 : entries[t][i].key = NullKey
  BY <1>1, <1>2, <1>3 DEF ProbeHasEmptySlot
<1>6. ~(Dist(t, h, i) < Dist(t, h, slot)) /\ i # slot
  BY <1>1, <1>2, <1>3, <1>5 DEF ProbeInv
<1>7. /\ Dist(t, h, slot) \in Nat /\ Dist(t, h, Prev(t, slot)) \in Nat
      /\ Dist(t, h, slot) < n_entries[t]
      /\ Dist(t, h, slot) < Dist(t, h, Prev(t, slot))
  BY <1>2, <1>3, <1>5, <1>6 DEF Dist, Prev
<1>8. Left(n_entries[t], Dist(t, h, Prev(t, slot))) < Left(n_entries[t], Dist(t, h, slot))
  BY <1>3, <1>7, LeftLess
<1>9. /\ ToProbe = Left(n_entries[t], Dist(t, h, slot))
      /\ ToProbe' = Left(n_entries[t], Dist(t, h, Prev(t, slot)))
  BY <1>2, <1>3, <1>4 DEF ToProbe, Dist, Home
<1>10. Stage' = Stage /\ Phase' = Phase
  BY <1>4 DEF Stage, Phase
<1>11. ToSpread' = ToSpread /\ ToGrow' = ToGrow
  BY <1>4, <1>10, SameToSpread, SameToGrow
<1> QED BY <1>8, <1>9, <1>10, <1>11, MeasureBy

\* A probe that ends goes on to what comes after it.
LEMMA ProbeEndShortens ==
  ASSUME IInv, ProbeOverwrite \/ ProbePlace
  PROVE  Lower(CallMeasure', CallMeasure)
<1>1. TypeOK /\ TableTypeOK
  BY DEF IInv, TypeOK
<1>2. pc = "probe" /\ Stage = 2
  BY StageNow DEF ProbeOverwrite, ProbePlace
<1>3. /\ pc' = AfterInsert \/ pc' = "nested" \/ (cur # Local /\ pc' \in {"shrink", "size"})
      /\ op' = op /\ srcUsed' = srcUsed /\ si' = si /\ cur' = cur /\ gi' = gi /\ tgt' = tgt
      /\ n_entries' = n_entries
  BY DEF ProbeOverwrite, ProbePlace, StartGrow, callVars, spreadVars, growVars, insVars
<1>4. CASE pc' = "rehash" /\ cur = Local
  <2>1. Stage' = Stage /\ Phase' = 2 /\ Phase = 2
    BY <1>2, <1>4, StageNext, PhaseNow, PhaseNext
  <2>2. ToSpread' = ToSpread
    BY <1>3, <2>1, SameToSpread
  <2>3. ToGrow' = ToGrow
    BY <1>3, <2>1 DEF ToGrow
  <2>4. ToProbe' = 0
    BY <1>4 DEF ToProbe
  <2>5. ToProbe > 0
    <3>1. PICK t \in Tables, h \in 0 .. n_entries[cur] - 1 : t = cur /\ h = Home(key, cur)
      BY <1>1, <1>2, LoopTypes DEF TypeOK
    <3>2. slot \in 0 .. n_entries[t] - 1 /\ n_entries[t] \in Nat
      BY <1>1, <1>2, <3>1, LoopTypes DEF TableTypeOK
    <3>3. Dist(t, h, slot) \in Nat /\ Dist(t, h, slot) < n_entries[t]
      BY <3>1, <3>2 DEF Dist
    <3>4. Left(n_entries[t], Dist(t, h, slot)) > 0
      BY <3>2, <3>3 DEF Left
    <3> QED BY <1>2, <3>1, <3>4 DEF ToProbe
  <2> QED BY <2>1, <2>2, <2>3, <2>4, <2>5, MeasureBy
<1>5. CASE pc' \in {"shrink", "nested", "done"}
  <2>1. Stage' < Stage
    BY <1>2, <1>5, StageNext DEF Aborted
  <2> QED BY <2>1, MeasureBy
<1>6. CASE pc' \in {"size", "spread"} /\ cur # Local
  <2>1. Stage' = Stage /\ Phase' < Phase
    BY <1>2, <1>6, StageNext, PhaseNow, PhaseNext
  <2>2. ToSpread' = ToSpread
    BY <1>3, <2>1, SameToSpread
  <2> QED BY <2>1, <2>2, MeasureBy
<1> QED
  BY <1>3, <1>4, <1>5, <1>6 DEF AfterInsert

\* The sizes tried grow until one is large enough or no size_t.
LEMMA SizeShortens ==
  ASSUME IInv, DoubleSize \/ AllocTable \/ AllocFails
  PROVE  Lower(CallMeasure', CallMeasure)
<1>1. pc = "size" /\ Stage = 2 /\ Phase = 3
  BY StageNow, PhaseNow DEF DoubleSize, AllocTable, AllocFails
<1>2. op' = op /\ srcUsed' = srcUsed /\ si' = si
  BY DEF DoubleSize, AllocTable, AllocFails, callVars, spreadVars
<1>3. CASE pc' \in {"overflow", "nomem", "done"}
  <2>1. Stage' < Stage
    BY <1>1, <1>3, StageNext DEF Aborted
  <2> QED BY <2>1, MeasureBy
<1>4. CASE pc' = "rehash"
  <2>1. Stage' = Stage /\ Phase' < Phase
    BY <1>1, <1>4, StageNext, PhaseNext
  <2>2. ToSpread' = ToSpread
    BY <1>2, <2>1, SameToSpread
  <2> QED BY <2>1, <2>2, MeasureBy
<1>5. CASE DoubleSize /\ pc' = "size"
  <2>1. PowerOf2(n) /\ n < SizeMod /\ n \in Nat \ {0} /\ SizeMod \in Nat
    BY <1>1, SizeAssumption DEF IInv, SizeInv, PowerOf2
  <2>2. n' = Doubled(n) /\ n' # 0
    BY <1>5 DEF DoubleSize
  <2>3. n' = 2 * n
    BY <2>1, <2>2, NextSize
  <2>4. Left(SizeMod, n') < Left(SizeMod, n)
    <3>1. n' \in Nat /\ n < n'
      BY <2>1, <2>3
    <3> QED BY <2>1, <3>1, LeftLess
  <2>5. Stage' = Stage /\ Phase' = Phase /\ Phase = 3
    BY <1>1, <1>5, StageNext, PhaseNext
  <2>6. ToGrow = Left(SizeMod, n) /\ ToGrow' = Left(SizeMod, n')
    BY <2>5 DEF ToGrow
  <2>7. ToSpread' = ToSpread
    BY <1>2, <2>5, SameToSpread
  <2> QED BY <2>4, <2>5, <2>6, <2>7, MeasureBy
<1> QED
  BY <1>3, <1>4, <1>5 DEF DoubleSize, AllocTable, AllocFails

\* The loop over the old slots.
LEMMA RehashShortens ==
  ASSUME IInv, RehashSkip \/ RehashEntry \/ RehashDone
  PROVE  Lower(CallMeasure', CallMeasure)
<1>1. TypeOK /\ TableTypeOK /\ CounterTypeOK /\ n_entries[tgt] \in Nat /\ gi \in Nat
  BY DEF IInv, TypeOK, TableTypeOK, CounterTypeOK
<1>2. pc = "rehash" /\ Stage = 2 /\ Phase = 2
  BY StageNow, PhaseNow DEF RehashSkip, RehashEntry, RehashDone
<1>3. op' = op /\ srcUsed' = srcUsed /\ si' = si
  BY DEF RehashSkip, RehashEntry, RehashDone, callVars, spreadVars
<1>4. CASE RehashDone
  <2>1. Stage' < Stage \/ (Stage' = Stage /\ Phase' < Phase)
    BY <1>2, <1>4, StageNext, PhaseNext DEF RehashDone
  <2>2. Stage' = Stage => ToSpread' = ToSpread
    BY <1>3, SameToSpread
  <2> QED BY <2>1, <2>2, MeasureBy
<1>5. CASE RehashSkip \/ RehashEntry
  <2>1. /\ gi < n_entries[tgt] /\ gi' = gi + 1 /\ tgt' = tgt /\ n_entries' = n_entries
        /\ pc' = "rehash" \/ (pc' = "probe" /\ cur' = Local)
    BY <1>5 DEF RehashSkip, RehashEntry, StartInsert, callVars, table
  <2>2. Stage' = Stage /\ Phase' = Phase
    BY <1>2, <2>1, StageNext, PhaseNext
  <2>3. ToSpread' = ToSpread
    BY <1>3, <2>2, SameToSpread
  <2>4. Left(n_entries[tgt], gi') < Left(n_entries[tgt], gi)
    <3>1. gi' \in Nat /\ gi < gi'
      BY <1>1, <2>1
    <3> QED BY <1>1, <2>1, <3>1, LeftLess
  <2>5. ToGrow = Left(n_entries[tgt], gi) /\ ToGrow' = Left(n_entries[tgt], gi')
    BY <1>2, <2>1, <2>2 DEF ToGrow
  <2> QED BY <2>2, <2>3, <2>4, <2>5, MeasureBy
<1> QED BY <1>4, <1>5

\* The loop of a spread over the source's slots.
LEMMA SpreadShortens ==
  ASSUME IInv, SpreadGrow \/ SpreadSkip \/ SpreadInsert \/ SpreadDone
  PROVE  Lower(CallMeasure', CallMeasure)
<1>1. TypeOK /\ CounterTypeOK /\ CallInv
  BY DEF IInv, TypeOK
<1>2. CASE SpreadGrow \/ SpreadDone
  <2>1. Stage' < Stage
    BY <1>2, StageNow, StageNext DEF SpreadGrow, SpreadDone, StartGrow, Aborted
  <2> QED BY <2>1, MeasureBy
<1>3. CASE SpreadSkip \/ SpreadInsert
  <2>1. /\ pc = "spread" /\ si < srcUsed /\ si' = si + 1 /\ srcUsed' = srcUsed /\ op' = op
        /\ pc' \in {"spread", "probe"}
    BY <1>3 DEF SpreadSkip, SpreadInsert, StartInsert, callVars
  <2>2. Stage = 2 /\ Stage' = 2 /\ op = "spread"
    BY <1>1, <2>1, StageNow, StageNext DEF CallInv
  <2>3. ToSpread = Left(srcUsed, si) /\ ToSpread' = Left(srcUsed, si')
    BY <2>1, <2>2 DEF ToSpread
  <2>4. Left(srcUsed, si') < Left(srcUsed, si)
    <3>1. si \in Nat /\ srcUsed \in Nat /\ si' \in Nat /\ si < si'
      BY <1>1, <2>1 DEF CounterTypeOK
    <3> QED BY <2>1, <3>1, LeftLess
  <2> QED BY <2>2, <2>3, <2>4, MeasureBy
<1> QED BY <1>2, <1>3

LEMMA StepShortens ==
  ASSUME IInv, [Next]_vars
  PROVE  [pc # "idle" => Lower(CallMeasure', CallMeasure)]_vars
<1>1. ASSUME FindEnd \/ Return PROVE Lower(CallMeasure', CallMeasure)
  <2>1. Stage' < Stage
    BY <1>1, StageNow, StageNext DEF FindEnd, Return
  <2> QED BY <2>1, MeasureBy
<1>2. ASSUME Step PROVE Lower(CallMeasure', CallMeasure)
  BY <1>1, <1>2, ProbeShortens, ProbeEndShortens, SizeShortens, RehashShortens, SpreadShortens
  DEF Step
<1>3. Invoke => pc = "idle"
  BY DEF Invoke, Create, Lookup, Insert, Spread
<1>4. Halted => UNCHANGED vars
  BY DEF Halted
<1> QED
  BY <1>2, <1>3, <1>4 DEF Next

-----------------------------------------------------------------------------
(* The theorems.                                                            *)

LEMMA IInvStep ==
  ASSUME IInv, [Next]_vars
  PROVE  IInv'
  BY TypeStep, BoundStep, UsedStep, ReachStep, ExitStep, CallStep, ProbeStepInv, GrowStep,
     SizeStep
  DEF IInv

\* The inductive invariant holds throughout: every loop of balmap.c relies
\* only on what the steps before it leave.
THEOREM Invariance == Spec => []IInv
<1>1. IInv /\ [Next]_vars => IInv'
  BY IInvStep
<1> QED
  BY <1>1, InitIInv, PTL DEF Spec

\* Every struct and every local has its type in every reachable state.
THEOREM TypeCorrect == Spec => []TypeOK
<1>1. IInv => TypeOK
  BY DEF IInv
<1> QED
  BY <1>1, Invariance, PTL

\* Only a map that is growing is full to its capacity (balmap.h:35), for every
\* hash function and every sequence of calls.
THEOREM NeverOverfull == Spec => []UsedBelowCapacity
<1>1. IInv => UsedBelowCapacity
  BY DEF IInv
<1> QED
  BY <1>1, Invariance, PTL

\* used is the number of slots in use, so the check that grows a table is right.
THEOREM UsedIsExact == Spec => []UsedCountsEntries
<1>1. IInv => UsedCountsEntries
  BY DEF IInv
<1> QED
  BY <1>1, Invariance, PTL

\* No key is ever stored where a lookup would stop before it, nor twice: what
\* bal_map_lookup relies on, through growth and spread, for every hash function.
THEOREM LookupsFindKeys == Spec => []KeysReachable
<1>1. IInv => KeysReachable
  BY DEF IInv
<1> QED
  BY <1>1, Invariance, PTL

\* Every probe has an empty slot to stop at: the safety half of the
\* termination of the for (;;) loops.
THEOREM ProbesCanStop == Spec => []ProbeHasEmptySlot
<1>1. IInv => ProbeHasEmptySlot
  BY EmptySlot
<1> QED
  BY <1>1, Invariance, PTL

\* The table that a growth fills never grows itself (balmap.c:61).
THEOREM GrowthDoesNotNest == Spec => []NoNestedGrowth
<1>1. IInv => NoNestedGrowth
  BY DEF IInv
<1> QED
  BY <1>1, Invariance, PTL

\* "Map shrinking is not supported!" is never the end of a create or an insert.
THEOREM InsertsGrow == Spec => []InsertNeverShrinks
<1>1. IInv => InsertNeverShrinks
  BY DEF IInv
<1> QED
  BY <1>1, Invariance, PTL

\* Every table is as large as a power of 2, so the masks of balmap.c:71 and :106
\* hash onto all of it.
THEOREM MasksAreRemainders == Spec => []SizesArePowersOf2
<1>1. IInv => SizesArePowersOf2
  BY DEF IInv, SizeInv
<1> QED
  BY <1>1, Invariance, PTL

\* "Capacity overflow!" is said only when no table that a size_t can count
\* holds what is asked for (balmap.c:32-35, :137-140).
THEOREM OverflowIsTrue == Spec => []OverflowOnlyWhenNothingFits
<1>1. IInv => OverflowOnlyWhenNothingFits
  BY DEF IInv, SizeInv
<1> QED
  BY <1>1, Invariance, PTL

\* Each step of a call leaves less of it: no probe, growth or spread loop of
\* balmap.c (:30, :59, :78, :113, :145) can come back to where it was.
THEOREM CallsGetShorter == Spec => CallsShorten
<1>1. IInv /\ [Next]_vars => [pc # "idle" => Lower(CallMeasure', CallMeasure)]_vars
  BY StepShortens
<1> QED
  BY <1>1, Invariance, PTL DEF Spec, CallsShorten

\* What is left of a call is told by five natural numbers.
THEOREM CallsAreMeasured == Spec => [](CallMeasure \in [1 .. 5 -> Nat])
<1>1. ASSUME IInv PROVE CallMeasure \in [1 .. 5 -> Nat]
  <2>1. TypeOK /\ TableTypeOK /\ CounterTypeOK /\ n_entries[tgt] \in Nat /\ SizeMod \in Nat
    BY <1>1, SizeAssumption DEF IInv, TypeOK, TableTypeOK
  <2>2. Stage \in Nat /\ Phase \in Nat
    BY DEF Stage, Phase
  <2>3. ToSpread \in Nat /\ ToGrow \in Nat
    BY <2>1, LeftNat DEF ToSpread, ToGrow, CounterTypeOK
  <2>4. ToProbe \in Nat
    <3>1. ASSUME pc \in {"probe", "find"}
          PROVE  Left(n_entries[cur], Dist(cur, Home(key, cur), slot)) \in Nat
      <4>1. n_entries[cur] \in Nat
        BY <2>1 DEF TypeOK, TableTypeOK
      <4>2. Dist(cur, Home(key, cur), slot) \in Nat
        BY <1>1, <2>1, <3>1, LoopTypes, DistType DEF TypeOK
      <4> QED BY <4>1, <4>2, LeftNat
    <3> QED BY <3>1 DEF ToProbe
  <2> QED BY <2>2, <2>3, <2>4 DEF CallMeasure
<1> QED
  BY <1>1, Invariance, PTL

\* Measures cannot fall for ever: with the two theorems above, no call has
\* infinitely many steps.
THEOREM NoEndlessDescent ==
  ASSUME NEW d \in Nat, NEW f \in [Nat -> [1 .. d -> Nat]]
  PROVE  \E i \in Nat : ~Lower(f[i + 1], f[i])
<1> SUFFICES ASSUME \A i \in Nat : Lower(f[i + 1], f[i]) PROVE FALSE
  OBVIOUS
<1> DEFINE R == OpToRel(<, Nat)
           T == LexProductOrdering(R, Nat, d)
<1>1. \A x, y \in Nat : <<x, y>> \in R <=> x < y
  BY DEF OpToRel
<1> HIDE DEF R
<1>2. IsWellFoundedOn(T, [1 .. d -> Nat])
  <2>1. IsWellFoundedOn(R, Nat)
    BY NatLessThanWellFounded DEF R
  <2> QED BY <2>1, WFLexProductOrdering
<1>3. ASSUME NEW r \in [1 .. d -> Nat], NEW q \in [1 .. d -> Nat], Lower(r, q)
      PROVE  <<r, q>> \in T
  <2>1. PICK j \in 1 .. d : r[j] < q[j] /\ \A i \in 1 .. j - 1 : r[i] = q[i]
    BY <1>3 DEF Lower
  <2>2. <<r[j], q[j]>> \in R
    BY <1>1, <2>1
  <2> QED BY <2>1, <2>2 DEF LexProductOrdering
<1> HIDE DEF T
<1>4. ASSUME NEW i \in Nat PROVE <<f[i + 1], f[i]>> \in T
  <2>1. i + 1 \in Nat
    OBVIOUS
  <2> QED BY <1>3, <2>1
<1> QED BY <1>2, <1>4 DEF IsWellFoundedOn
=============================================================================
