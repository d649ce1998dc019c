------------------------- MODULE BalMapRefinement -------------------------
(***************************************************************************)
(* The hash table implements the abstract mapping of MapSpec, for every    *)
(* set of maps and keys, every hash function and every size: no call loses *)
(* or changes a field but the one it names, through growth and abort.      *)
(***************************************************************************)
EXTENDS BalMapProof

-----------------------------------------------------------------------------
(* The fields of a table, as a function of its slots.                       *)

FieldIn(S, tab, k) ==
  IF k \in {tab[i].key : i \in S}
    THEN tab[CHOOSE i \in S : tab[i].key = k].value
    ELSE Missing

Once(S, tab) == \A i, j \in S : tab[i].key = tab[j].key => i = j

LEMMA FieldOfSlots == \A t, k : FieldOf(t, k) = FieldIn(Occupied(t), entries[t], k)
  BY DEF FieldOf, FieldIn, KeysOf

LEMMA FieldOfSlotsNext ==
  ASSUME NEW t, NEW k
  PROVE  FieldOf(t, k)' = FieldIn(Occupied(t)', entries'[t], k)
  BY DEF FieldOf, FieldIn, KeysOf

\* The field of a key that is in one slot only is the value there.
LEMMA FieldInSlot ==
  ASSUME NEW S, NEW tab, Once(S, tab), NEW i \in S
  PROVE  FieldIn(S, tab, tab[i].key) = tab[i].value
<1> DEFINE k == tab[i].key
           j == CHOOSE x \in S : tab[x].key = k
<1>1. j \in S /\ tab[j].key = k
  OBVIOUS
<1>2. j = i
  BY <1>1 DEF Once
<1>3. FieldIn(S, tab, k) = tab[j].value
  BY DEF FieldIn
<1> QED BY <1>2, <1>3

LEMMA FieldInNone ==
  ASSUME NEW S, NEW tab, NEW k, \A i \in S : tab[i].key # k
  PROVE  FieldIn(S, tab, k) = Missing
  BY DEF FieldIn

\* Writing one slot sets the field of its key and no other.
LEMMA FieldInPut ==
  ASSUME NEW S, NEW tab, NEW R, NEW tab2, NEW s, NEW v, NEW k,
         Once(S, tab), Once(R, tab2), R = S \cup {s},
         tab2[s].key = k, tab2[s].value = v, s \in S => tab[s].key = k,
         \A i \in S \ {s} : tab2[i] = tab[i]
  PROVE  \A x : FieldIn(R, tab2, x) = IF x = k THEN v ELSE FieldIn(S, tab, x)
<1>1. FieldIn(R, tab2, k) = v
  BY FieldInSlot
<1>2. ASSUME NEW x, x # k PROVE FieldIn(R, tab2, x) = FieldIn(S, tab, x)
  <2>1. CASE \E i \in S : tab[i].key = x
    <3>1. PICK i \in S : tab[i].key = x
      BY <2>1
    <3>2. i # s /\ i \in R /\ tab2[i] = tab[i]
      BY <1>2, <3>1
    <3>3. FieldIn(S, tab, x) = tab[i].value
      BY <3>1, FieldInSlot
    <3>4. FieldIn(R, tab2, x) = tab2[i].value
      BY <3>1, <3>2, FieldInSlot
    <3> QED BY <3>2, <3>3, <3>4
  <2>2. CASE \A i \in S : tab[i].key # x
    <3>1. \A i \in R : tab2[i].key # x
      BY <1>2, <2>2
    <3> QED BY <2>2, <3>1, FieldInNone
  <2> QED BY <2>1, <2>2
<1> QED BY <1>1, <1>2

-----------------------------------------------------------------------------
(* A key is in one slot of a table.                                         *)

KeysAreOnce == \A t \in Tables : Once(Occupied(t), entries[t])

LEMMA IInvKeysOnce == IInv => KeysAreOnce
<1> SUFFICES ASSUME IInv, NEW t \in Tables, NEW i \in Occupied(t), NEW j \in Occupied(t),
                    entries[t][i].key = entries[t][j].key, i # j
             PROVE  FALSE
  BY DEF KeysAreOnce, Once
<1> DEFINE h == Home(entries[t][i].key, t)
<1>1. TypeOK /\ n_entries[t] \in Nat /\ i \in 0 .. n_entries[t] - 1 /\ j \in 0 .. n_entries[t] - 1
  BY DEF IInv, TypeOK, TableTypeOK, Occupied
<1>2. entries[t][i].key \in Key
  BY <1>1 DEF TypeOK, TableTypeOK, Entry, Occupied
<1>3. h \in 0 .. n_entries[t] - 1
  BY <1>1, <1>2, HomeInRange DEF Created
<1>4. ~(Dist(t, h, j) < Dist(t, h, i)) /\ ~(Dist(t, h, i) < Dist(t, h, j))
  BY <1>1 DEF IInv, KeysReachable
<1>5. Dist(t, h, j) # Dist(t, h, i)
  BY <1>1, <1>3 DEF Dist
<1>6. Dist(t, h, j) \in Nat /\ Dist(t, h, i) \in Nat
  BY <1>1, <1>3, DistType
<1> QED BY <1>4, <1>5, <1>6

LEMMA IInvKeysOnceNext == IInv' => KeysAreOnce'
  BY IInvKeysOnce, PTL

-----------------------------------------------------------------------------
(* What the steps do to the fields.                                         *)

\* A table with the slots of another has its fields.
LEMMA SameFields ==
  ASSUME NEW t \in Tables, NEW u \in Tables, n_entries'[t] = n_entries[u], entries'[t] = entries[u]
  PROVE  \A k : FieldOf(t, k)' = FieldOf(u, k)
<1>1. Occupied(t)' = Occupied(u)
  BY DEF Occupied
<1> QED BY <1>1, FieldOfSlots, FieldOfSlotsNext

LEMMA NoTableStep ==
  ASSUME UNCHANGED table
  PROVE  \A t \in Tables : \A k : FieldOf(t, k)' = FieldOf(t, k)
  BY SameFields DEF table

\* A table with no slot in use has no field.
LEMMA EmptyHasNoFields ==
  ASSUME NEW t, Occupied(t)' = {}
  PROVE  \A k : FieldOf(t, k)' = Missing
  BY FieldOfSlotsNext, FieldInNone

\* The end of bal_map_insert_with_hash: the key has the value, and the other
\* fields of every table are what they were.
LEMMA PutFields ==
  ASSUME IInv, [Next]_vars, ProbeOverwrite \/ ProbePlace
  PROVE  /\ cur \in Tables /\ key \in Key /\ val \in Value
         /\ \A k : FieldOf(cur, k)' = IF k = key THEN val ELSE FieldOf(cur, k)
         /\ \A u \in Tables \ {cur} : \A k : FieldOf(u, k)' = FieldOf(u, k)
<1>0. /\ TableTypeOK /\ cur \in Tables /\ key \in Key /\ val \in Value /\ pc = "probe"
      /\ slot \in 0 .. n_entries[cur] - 1 /\ entries[cur][slot] \in Entry
      /\ UNCHANGED <<n_entries, cur>>
  BY LoopTypes DEF IInv, TypeOK, ProbeOverwrite, ProbePlace, insVars
<1>1. PICK t \in Tables : t = cur
  BY <1>0
<1>2. KeysAreOnce /\ KeysAreOnce'
  BY IInvStep, IInvKeysOnce, IInvKeysOnceNext
<1>3. Once(Occupied(t), entries[t]) /\ Once(Occupied(t)', entries'[t])
  BY <1>2 DEF KeysAreOnce
<1>4. /\ entries'[t][slot].key = key /\ entries'[t][slot].value = val
      /\ \A i \in Occupied(t) \ {slot} : entries'[t][i] = entries[t][i]
      /\ \A u \in Tables \ {t} : entries'[u] = entries[u]
  <2>1. CASE ProbeOverwrite
    BY <1>0, <1>1, <2>1 DEF ProbeOverwrite, TableTypeOK, Entry, Occupied
  <2>2. CASE ProbePlace
    BY <1>0, <1>1, <2>2 DEF ProbePlace, TableTypeOK, Occupied
  <2> QED BY <2>1, <2>2
<1>5. Occupied(t)' = Occupied(t) \cup {slot} /\ (slot \in Occupied(t) => entries[t][slot].key = key)
  <2>1. CASE ProbeOverwrite
    <3>1. slot \in Occupied(t) /\ entries[t][slot].key = key
      BY <1>0, <1>1, <2>1, KeyAssumption DEF ProbeOverwrite, Occupied
    <3> QED BY <2>1, <3>1, OverwriteFacts
  <2>2. CASE ProbePlace
    <3>1. slot \notin Occupied(cur) /\ Occupied(cur)' = Occupied(cur) \cup {slot}
      BY <2>2, PlaceFacts
    <3>2. Occupied(t)' = Occupied(cur)'
      BY <1>0, <1>1 DEF Occupied
    <3> QED BY <1>1, <3>1, <3>2
  <2> QED BY <2>1, <2>2
<1>6. \A k : FieldIn(Occupied(t)', entries'[t], k)
               = IF k = key THEN val ELSE FieldIn(Occupied(t), entries[t], k)
  <2> DEFINE S == Occupied(t)
             R == Occupied(t)'
             tab == entries[t]
             tab2 == entries'[t]
  <2>1. /\ Once(S, tab) /\ Once(R, tab2) /\ R = S \cup {slot}
        /\ tab2[slot].key = key /\ tab2[slot].value = val
        /\ slot \in S => tab[slot].key = key
        /\ \A i \in S \ {slot} : tab2[i] = tab[i]
    BY <1>3, <1>4, <1>5
  <2> HIDE DEF S, R, tab, tab2
  <2>2. \A k : FieldIn(R, tab2, k) = IF k = key THEN val ELSE FieldIn(S, tab, k)
    BY <2>1, FieldInPut
  <2> QED BY <2>2 DEF S, R, tab, tab2
<1>7. \A k : FieldOf(t, k)' = IF k = key THEN val ELSE FieldOf(t, k)
  BY <1>6, FieldOfSlots, FieldOfSlotsNext
<1>8. \A k : FieldOf(cur, k)' = FieldOf(t, k)' /\ FieldOf(cur, k) = FieldOf(t, k)
  <2>1. cur' = t
    BY <1>0, <1>1
  <2> QED BY <1>1, <2>1 DEF FieldOf, KeysOf, Occupied
<1>9. \A u \in Tables \ {cur} : \A k : FieldOf(u, k)' = FieldOf(u, k)
  BY <1>0, <1>1, <1>4, SameFields
<1> QED BY <1>0, <1>7, <1>8, <1>9

-----------------------------------------------------------------------------
(* The growth copies every field.                                           *)

Copying == pc = "rehash" \/ (pc = "probe" /\ cur = Local)

Handed(k) == \E i \in HandedOver : entries[tgt][i].key = k

\* The entry that a growth hands over next is in the map.
LEMMA EntryHandedOver ==
  ASSUME IInv, LocalsInv, pc = "probe", cur = Local
  PROVE  FieldOf(tgt, key) = val
<1>1. tgt \in Tables /\ gi - 1 \in Occupied(tgt)
  BY DEF IInv, TypeOK, GrowInv
<1>2. key = entries[tgt][gi - 1].key /\ val = entries[tgt][gi - 1].value
  BY DEF LocalsInv
<1>3. Once(Occupied(tgt), entries[tgt])
  BY <1>1, IInvKeysOnce DEF KeysAreOnce
<1>4. FieldIn(Occupied(tgt), entries[tgt], key) = val
  BY <1>1, <1>2, <1>3, FieldInSlot
<1> QED BY <1>4, FieldOfSlots

\* Nothing is handed over before the first entry is.
LEMMA CopyStarts ==
  ASSUME IInv, AllocTable, op # "create"
  PROVE  GrowthCopiesFields'
<1>1. Occupied(Local)' = {} /\ gi' = 0 /\ pc' = "rehash"
  BY AllocFacts DEF AllocTable
<1>2. \A k : FieldOf(Local, k)' = Missing
  BY <1>1, EmptyHasNoFields
<1>3. \A i \in Occupied(tgt)' : ~(i < gi')
  BY <1>1 DEF Occupied
<1>4. HandedOver' = {}
  BY <1>1, <1>3 DEF HandedOver
<1> QED BY <1>2, <1>4 DEF GrowthCopiesFields

\* What is handed over stays so while the tables stay.
LEMMA CopyStays ==
  ASSUME IInv, GrowthCopiesFields, Copying, UNCHANGED <<table, tgt>>, HandedOver' = HandedOver
  PROVE  GrowthCopiesFields'
<1>1. /\ Local \in Tables /\ tgt \in Tables /\ tgt' = tgt /\ entries' = entries
      /\ HandedOver' = HandedOver
  BY DEF IInv, TypeOK, Tables, table
<1>2. PICK t \in Tables : t = tgt
  BY <1>1
<1>3. \A k : FieldOf(Local, k)' = FieldOf(Local, k) /\ FieldOf(t, k)' = FieldOf(t, k)
  BY <1>1, <1>2, NoTableStep
<1>4. \A k : FieldOf(tgt, k)' = FieldOf(t, k)' /\ FieldOf(tgt, k) = FieldOf(t, k)
  BY <1>1, <1>2 DEF FieldOf, KeysOf, Occupied
<1>5. \A k \in Key : FieldOf(Local, k)' =
          IF \E i \in HandedOver' : entries'[tgt'][i].key = k THEN FieldOf(tgt, k)' ELSE Missing
  BY <1>1, <1>3, <1>4 DEF GrowthCopiesFields, Copying
<1> QED BY <1>5 DEF GrowthCopiesFields

\* The copy of one entry.
LEMMA CopyOne ==
  ASSUME IInv, GrowthCopiesFields, LocalsInv, [Next]_vars, ProbeOverwrite \/ ProbePlace,
         cur = Local
  PROVE  GrowthCopiesFields'
<1>1. /\ pc = "probe" /\ pc' # "probe" /\ tgt' = tgt /\ gi' = gi
      /\ tgt \in Map /\ tgt # Local /\ Local \in Tables /\ tgt \in Tables
      /\ gi \in Nat
  <2>1. pc = "probe" /\ tgt' = tgt /\ gi' = gi /\ pc' # "probe"
    BY DEF ProbeOverwrite, ProbePlace, callVars, growVars, StartGrow, AfterInsert
  <2> QED
    BY <2>1, LocalAssumption DEF IInv, CallInv, TypeOK, CounterTypeOK, Tables
<1>2. PICK t \in Tables : t = tgt
  BY <1>1
<1>3. /\ \A k : FieldOf(cur, k)' = IF k = key THEN val ELSE FieldOf(cur, k)
      /\ \A k : FieldOf(t, k)' = FieldOf(t, k)
  BY <1>1, <1>2, PutFields
<1>4. \A k : FieldOf(tgt, k)' = FieldOf(t, k)' /\ FieldOf(tgt, k) = FieldOf(t, k)
  BY <1>1, <1>2 DEF FieldOf, KeysOf, Occupied
<1>5. \A k : FieldOf(cur, k)' = FieldOf(Local, k)' /\ FieldOf(cur, k) = FieldOf(Local, k)
  <2>1. cur' = Local
    BY DEF ProbeOverwrite, ProbePlace, insVars
  <2> QED BY <2>1 DEF FieldOf, KeysOf, Occupied
<1>6. /\ n_entries'[tgt] = n_entries[tgt] /\ entries'[tgt] = entries[tgt]
      /\ Occupied(tgt)' = Occupied(tgt)
  <2>1. n_entries'[tgt] = n_entries[tgt] /\ entries'[tgt] = entries[tgt]
    BY <1>1 DEF ProbeOverwrite, ProbePlace, IInv, TypeOK, TableTypeOK
  <2> QED BY <1>1, <2>1 DEF Occupied
<1>7. /\ gi - 1 \in Occupied(tgt) /\ key = entries[tgt][gi - 1].key /\ gi - 1 \in Int
      /\ FieldOf(tgt, key) = val
  BY <1>1, EntryHandedOver DEF IInv, GrowInv, LocalsInv
<1>8. HandedOver' = HandedOver \cup {gi - 1}
  <2>1. HandedOver = {i \in Occupied(tgt) : i < gi - 1}
    BY <1>1 DEF HandedOver
  <2>2. HandedOver' = {i \in Occupied(tgt) : i < gi}
    BY <1>1, <1>6 DEF HandedOver
  <2>3. \A i \in Occupied(tgt) : i \in Int
    BY DEF Occupied
  <2>4. \A i \in Occupied(tgt) : i < gi <=> i < gi - 1 \/ i = gi - 1
    BY <1>1, <2>3
  <2> QED BY <1>7, <2>1, <2>2, <2>4
<1>9. ASSUME NEW k \in Key
      PROVE  FieldOf(Local, k)' =
               IF \E i \in HandedOver' : entries'[tgt'][i].key = k
               THEN FieldOf(tgt, k)' ELSE Missing
  <2>1. FieldOf(Local, k)' = IF k = key THEN val ELSE FieldOf(Local, k)
    BY <1>3, <1>5
  <2>2. FieldOf(tgt, k)' = FieldOf(tgt, k)
    BY <1>3, <1>4
  <2>3. (\E i \in HandedOver' : entries'[tgt'][i].key = k)
          <=> (\E i \in HandedOver : entries[tgt][i].key = k) \/ k = key
    BY <1>1, <1>6, <1>7, <1>8
  <2>4. FieldOf(Local, k) = IF \E i \in HandedOver : entries[tgt][i].key = k
                            THEN FieldOf(tgt, k) ELSE Missing
    BY <1>1 DEF GrowthCopiesFields
  <2> QED BY <1>7, <2>1, <2>2, <2>3, <2>4
<1> QED BY <1>9 DEF GrowthCopiesFields

LEMMA CopyStep ==
  ASSUME IInv, GrowthCopiesFields, LocalsInv, [Next]_vars
  PROVE  GrowthCopiesFields'
<1>0. tgt # Local \/ ~Copying
  BY LocalAssumption DEF IInv, CallInv, Copying
<1>1. CASE ~Copying'
  BY <1>1 DEF GrowthCopiesFields, Copying
<1>2. CASE AllocTable
  BY <1>1, <1>2, CopyStarts DEF AllocTable, Copying
<1>3. CASE ProbeOverwrite \/ ProbePlace
  <2>1. cur = Local => GrowthCopiesFields'
    BY <1>3, CopyOne
  <2>2. cur # Local => ~Copying'
    BY <1>3 DEF ProbeOverwrite, ProbePlace, insVars, AfterInsert, StartGrow, Copying
  <2> QED BY <1>1, <2>1, <2>2
<1>4. CASE RehashSkip
  <2>1. /\ UNCHANGED <<table, tgt>> /\ pc = "rehash" /\ pc' = "rehash" /\ gi' = gi + 1
        /\ gi \in Nat /\ gi \notin Occupied(tgt)
    BY <1>4 DEF RehashSkip, callVars, Occupied, IInv, TypeOK, CounterTypeOK
  <2>2. Occupied(tgt)' = Occupied(tgt)
    BY <2>1 DEF Occupied, table
  <2>3. \A i \in Occupied(tgt) : i < gi + 1 <=> i < gi
    BY <2>1 DEF Occupied
  <2>4. HandedOver' = HandedOver
    BY <2>1, <2>2, <2>3 DEF HandedOver
  <2> QED BY <2>1, <2>4, CopyStays DEF Copying
<1>5. CASE RehashEntry
  <2>1. /\ UNCHANGED <<table, tgt>> /\ pc = "rehash" /\ pc' = "probe" /\ gi' = gi + 1
        /\ gi \in Nat
    BY <1>5 DEF RehashEntry, StartInsert, callVars, IInv, TypeOK, CounterTypeOK
  <2>2. Occupied(tgt)' = Occupied(tgt)
    BY <2>1 DEF Occupied, table
  <2>3. (gi + 1) - 1 = gi
    BY <2>1
  <2>4. HandedOver' = HandedOver
    BY <2>1, <2>2, <2>3 DEF HandedOver
  <2> QED BY <2>1, <2>4, CopyStays DEF Copying
<1>6. CASE ProbeNext \/ UNCHANGED vars
  <2>1. UNCHANGED <<table, tgt, pc, cur, gi>>
    BY <1>6 DEF ProbeNext, vars, callVars, growVars, insVars
  <2>2. Copying' <=> Copying
    BY <2>1 DEF Copying
  <2>3. HandedOver' = HandedOver
    BY <2>1 DEF HandedOver, Occupied, table
  <2> QED BY <1>1, <2>1, <2>2, <2>3, CopyStays
<1>7. ASSUME NEW m \in Map, NEW k \in Key, NEW v \in Value, Insert(m, k, v)
      PROVE  ~Copying'
  BY <1>7, LocalAssumption DEF Insert, StartInsert, Copying
<1>8. CASE SpreadInsert
  <2>1. tgt \in Map /\ pc' = "probe" /\ cur' = tgt
    BY <1>8 DEF SpreadInsert, StartInsert, IInv, CallInv
  <2> QED BY <1>1, <2>1, LocalAssumption DEF Copying
<1> QED
  BY <1>1, <1>2, <1>3, <1>4, <1>5, <1>6, <1>7, <1>8
  DEF Next, Invoke, Step, Halted, Create, DoubleSize, AllocFails, RehashDone, Lookup,
      FindNext, FindEnd, Spread, SpreadGrow, StartGrow, SpreadSkip, SpreadDone, Return, Copying

-----------------------------------------------------------------------------
(* The locals of the calls.                                                 *)

\* A probe that a loop starts carries the entry the loop is at.
LEMMA StartLocals ==
  ASSUME IInv, LocalsInv, RehashEntry \/ SpreadInsert
  PROVE  LocalsInv'
<1>1. CASE RehashEntry
  <2>1. /\ UNCHANGED <<entries, tgt, out, op>> /\ pc = "rehash" /\ pc' = "probe" /\ cur' = Local
        /\ gi' - 1 = gi /\ key' = entries[tgt][gi].key /\ val' = entries[tgt][gi].value
    BY <1>1 DEF RehashEntry, StartInsert, callVars, table, IInv, TypeOK, CounterTypeOK
  <2>2. tgt # Local
    BY <2>1, LocalAssumption DEF IInv, CallInv
  <2> QED BY <2>1, <2>2 DEF LocalsInv
<1>2. CASE SpreadInsert
  <2>1. /\ UNCHANGED <<table, tgt, src, out, op>> /\ pc = "spread" /\ pc' = "probe" /\ cur' = tgt
        /\ op = "spread" /\ tgt \in Map
        /\ key' = entries[src][si].key /\ val' = entries[src][si].value
        /\ key' # NullKey /\ si \in 0 .. n_entries[src] - 1 /\ si' > 0 /\ si' - 1 = si
    BY <1>2, LoopTypes DEF SpreadInsert, StartInsert, callVars, IInv, CallInv
  <2>2. src \in Tables /\ si \in Occupied(src)
    BY <2>1 DEF Occupied, IInv, TypeOK
  <2>3. FieldIn(Occupied(src), entries[src], key') = val'
    BY <2>1, <2>2, IInvKeysOnce, FieldInSlot DEF KeysAreOnce
  <2>4. FieldOf(src, key') = val'
    BY <2>3, FieldOfSlots
  <2>5. FieldOf(src, key)' = FieldOf(src, key')
    BY <2>1 DEF FieldOf, KeysOf, Occupied, table
  <2> QED BY <2>1, <2>4, <2>5, LocalAssumption DEF LocalsInv, table
<1> QED BY <1>1, <1>2

LEMMA LocalsStep ==
  ASSUME IInv, LocalsInv, [Next]_vars
  PROVE  LocalsInv'
<1>1. CASE RehashEntry \/ SpreadInsert
  BY <1>1, StartLocals
<1>2. CASE ProbeNext \/ UNCHANGED vars
  <2>1. UNCHANGED <<table, tgt, src, out, op, pc, cur, key, val, gi, si>>
    BY <1>2 DEF ProbeNext, vars, callVars, growVars, insVars, spreadVars
  <2>2. FieldOf(src, key)' = FieldOf(src, key)
    BY <2>1 DEF FieldOf, KeysOf, Occupied, table
  <2>3. Created(tgt)' = Created(tgt)
    BY <2>1 DEF Created, table
  <2> QED BY <2>1, <2>2, <2>3 DEF LocalsInv, table
<1>3. ASSUME NEW m \in Map, NEW k \in Key, NEW v \in Value, Insert(m, k, v)
      PROVE  LocalsInv'
  BY <1>3, LocalAssumption DEF Insert, StartInsert, LocalsInv
<1>4. ASSUME NEW m \in Map, Create(m) PROVE LocalsInv'
  BY <1>4 DEF Create, LocalsInv, Created, table
<1>5. CASE DoubleSize
  BY <1>5 DEF DoubleSize, LocalsInv, Created, table, callVars
<1>6. CASE ProbeOverwrite \/ ProbePlace
  <2>1. pc' # "probe" /\ out' = out /\ op' = op /\ pc = "probe"
    BY <1>6 DEF ProbeOverwrite, ProbePlace, callVars, AfterInsert, StartGrow
  <2>2. op # "create"
    BY <2>1 DEF IInv, CallInv
  <2> QED BY <2>1, <2>2 DEF LocalsInv
<1>7. CASE FindEnd
  BY <1>7 DEF FindEnd, IInv, CallInv, LocalsInv, callVars
<1>8. CASE SpreadGrow
  BY <1>8 DEF SpreadGrow, StartGrow, IInv, CallInv, LocalsInv, callVars
<1>9. CASE RehashSkip
  BY <1>9 DEF RehashSkip, LocalsInv
<1>10. ASSUME pc' \notin {"probe", "size"}, out' = out, pc # "done" PROVE LocalsInv'
  BY <1>10 DEF LocalsInv
<1>11. CASE AllocTable \/ AllocFails \/ RehashDone \/ FindNext \/ SpreadSkip \/ SpreadDone
  <2>1. pc' \notin {"probe", "size"} /\ out' = out /\ pc # "done"
    BY <1>11 DEF AllocTable, AllocFails, RehashDone, FindNext, SpreadSkip, SpreadDone
  <2> QED BY <1>10, <2>1
<1>12. CASE Return
  BY <1>12 DEF Return, LocalsInv
<1>13. ASSUME NEW m \in Map, (\E k \in Key : Lookup(m, k)) \/ (\E s \in Map : Spread(m, s))
       PROVE  LocalsInv'
  BY <1>10, <1>13 DEF Lookup, Spread
<1> QED
  BY <1>1, <1>2, <1>3, <1>4, <1>5, <1>6, <1>7, <1>8, <1>9, <1>11, <1>12, <1>13
  DEF Next, Invoke, Step, Halted

-----------------------------------------------------------------------------
LEMMA InitRefInv == Init => RefInv
<1> SUFFICES ASSUME Init PROVE RefInv
  OBVIOUS
<1> QED BY InitIInv DEF Init, RefInv, GrowthCopiesFields, LocalsInv

LEMMA RefInvStep == RefInv /\ [Next]_vars => RefInv'
  BY IInvStep, CopyStep, LocalsStep DEF RefInv

\* The invariant of the refinement holds throughout.
THEOREM RefInvariance == Spec => []RefInv
  BY InitRefInv, RefInvStep, PTL DEF Spec

\* A growth drops and changes no field, at any step of it.
THEOREM GrowthLosesNothing == Spec => []GrowthCopiesFields
<1>1. RefInv => GrowthCopiesFields
  BY DEF RefInv
<1> QED BY <1>1, RefInvariance, PTL

-----------------------------------------------------------------------------
(* The refinement, step by step.                                            *)

CreatedMaps == {m \in Map : Created(m)}

LEMMA MapsAreTables == Map \subseteq Tables /\ Local \in Tables
  BY DEF Tables

LEMMA SameStore ==
  ASSUME \A m \in Map, k \in Key : FieldOf(m, k)' = FieldOf(m, k)
  PROVE  AbstractStore' = AbstractStore
  BY DEF AbstractStore

LEMMA SameCreated ==
  ASSUME \A m \in Map : n_entries'[m] > 0 <=> n_entries[m] > 0
  PROVE  CreatedMaps' = CreatedMaps
  BY DEF CreatedMaps, Created

LEMMA TablesStay ==
  ASSUME UNCHANGED table
  PROVE  AbstractStore' = AbstractStore /\ CreatedMaps' = CreatedMaps
<1>1. AbstractStore' = AbstractStore
  BY NoTableStep, SameStore, MapsAreTables
<1>2. CreatedMaps' = CreatedMaps
  BY SameCreated DEF table
<1> QED BY <1>1, <1>2

LEMMA InitRefines == Init => Abstract!Init
<1> SUFFICES ASSUME Init PROVE Abstract!Init
  OBVIOUS
<1>1. \A t \in Tables : Occupied(t) = {} /\ ~Created(t)
  BY DEF Init, Occupied, ZeroTable, Created
<1>2. \A m \in Map, k \in Key : FieldOf(m, k) = Missing
  BY <1>1, MapsAreTables DEF FieldOf, KeysOf
<1>3. AbstractStore = [m \in Map |-> [k \in Key |-> Missing]]
  BY <1>2 DEF AbstractStore
<1>4. {m \in Map : Created(m)} = {}
  BY <1>1, MapsAreTables
<1>5. AbstractCall = [op |-> "idle"]
  BY DEF Init, AbstractCall
<1> QED BY <1>3, <1>4, <1>5 DEF Abstract!Init, Abstract!Idle

\* A call is made in a state in which the abstract one may be made.
LEMMA InvokeRefines == ASSUME RefInv, Invoke PROVE Abstract!Invoke
<1> DEFINE created == {m \in Map : Created(m)}
<1>1. UNCHANGED table /\ pc = "idle" /\ AbstractCall = [op |-> "idle"] /\ Local \notin Map
  BY LocalAssumption DEF Invoke, Create, Lookup, Insert, Spread, AbstractCall
<1>2. AbstractStore' = AbstractStore /\ created' = created
  BY <1>1, TablesStay DEF CreatedMaps
<1>3. \A m \in Map : n_entries[m] \in Nat
  BY MapsAreTables DEF RefInv, IInv, TypeOK, TableTypeOK
<1>4. ASSUME NEW m \in Map, Create(m) PROVE AbstractCall' \in Abstract!Calls
  <2>1. AbstractCall' = [op |-> "create", map |-> m] /\ n_entries[m] = 0
    BY <1>4 DEF Create, AbstractCall, Answered, Aborted
  <2>2. m \in Map \ created
    BY <2>1 DEF Created
  <2> QED BY <2>1, <2>2 DEF Abstract!Calls
<1>5. ASSUME NEW m \in Map, NEW k \in Key, NEW v \in Value, Insert(m, k, v)
      PROVE  AbstractCall' \in Abstract!Calls
  <2>1. AbstractCall' = [op |-> "insert", map |-> m, key |-> k, value |-> v]
    BY <1>5 DEF Insert, StartInsert, AbstractCall, Answered, Aborted
  <2>2. m \in created
    BY <1>5 DEF Insert, Created
  <2> QED BY <2>1, <2>2 DEF Abstract!Calls
<1>6. ASSUME NEW m \in Map, NEW k \in Key, Lookup(m, k) PROVE AbstractCall' \in Abstract!Calls
  <2>1. AbstractCall' = [op |-> "lookup", map |-> m, key |-> k]
    BY <1>6 DEF Lookup, AbstractCall, Answered, Aborted
  <2>2. m \in created
    BY <1>6 DEF Lookup, Created
  <2> QED BY <2>1, <2>2 DEF Abstract!Calls
<1>7. ASSUME NEW m \in Map, NEW s \in Map \ {m}, Spread(m, s) PROVE AbstractCall' \in Abstract!Calls
  <2>1. AbstractCall' = [op |-> "spread", map |-> m, source |-> s]
    BY <1>7 DEF Spread, AbstractCall, Answered, Aborted
  <2>2. m \in created /\ s \in created /\ m # s
    BY <1>7 DEF Spread, Created
  <2>3. [op |-> "spread", map |-> m, source |-> s] \in [op : {"spread"}, map : created, source : created]
    BY <2>2
  <2> QED BY <2>1, <2>2, <2>3 DEF Abstract!Calls
<1>8. AbstractCall' \in Abstract!Calls
  BY <1>4, <1>5, <1>6, <1>7 DEF Invoke
<1> QED BY <1>1, <1>2, <1>8 DEF Abstract!Invoke, Abstract!Idle

\* An abort is a crash; no lookup aborts.
LEMMA AbortRefines ==
  ASSUME RefInv, DoubleSize \/ AllocFails \/ SpreadGrow, pc' \in Aborted
  PROVE  Abstract!Crash
<1>1. UNCHANGED table /\ AbstractCall' = [op |-> "crashed"]
  BY DEF DoubleSize, AllocFails, SpreadGrow, AbstractCall, Aborted
<1>2. pc \in {"size", "grow"} /\ op \in {"create", "insert", "spread"}
  BY DEF DoubleSize, AllocFails, SpreadGrow, RefInv, IInv, CallInv
<1>3. AbstractCall.op \in {"create", "insert", "spread", "return"}
  BY <1>2 DEF AbstractCall, Aborted, Answered
<1>4. AbstractStore' = AbstractStore /\ CreatedMaps' = CreatedMaps
  BY <1>1, TablesStay
<1> QED BY <1>1, <1>3, <1>4 DEF Abstract!Crash, Abstract!Crashed, CreatedMaps

\* The steps of a call that are not its effect.
LEMMA StutterRefines ==
  ASSUME RefInv,
         \/ ProbeNext \/ FindNext \/ RehashSkip \/ RehashEntry \/ SpreadSkip \/ SpreadInsert
         \/ (DoubleSize \/ SpreadGrow) /\ pc' \notin Aborted
         \/ UNCHANGED vars
  PROVE  UNCHANGED <<AbstractStore, CreatedMaps, AbstractCall>>
<1>1. UNCHANGED table
  BY DEF ProbeNext, FindNext, RehashSkip, RehashEntry, SpreadSkip, SpreadInsert, DoubleSize,
         SpreadGrow, vars
<1>2. UNCHANGED <<AbstractStore, CreatedMaps>>
  BY <1>1, TablesStay
<1>3. CASE ProbeNext \/ FindNext \/ UNCHANGED vars
  BY <1>2, <1>3 DEF ProbeNext, FindNext, vars, callVars, spreadVars, insVars, AbstractCall, Answered
<1>4. CASE RehashSkip
  BY <1>2, <1>4 DEF RehashSkip, callVars, spreadVars, insVars, AbstractCall, Answered
<1>5. CASE SpreadSkip
  BY <1>2, <1>5 DEF SpreadSkip, callVars, insVars, AbstractCall, Answered
<1>6. CASE RehashEntry
  <2>1. /\ UNCHANGED <<op, tgt, src, out>> /\ pc = "rehash" /\ pc' = "probe" /\ cur' = Local
        /\ op \in {"insert", "spread"} /\ tgt \in Map
    BY <1>6 DEF RehashEntry, StartInsert, callVars, spreadVars, RefInv, IInv, CallInv
  <2> QED BY <2>1, <1>2, LocalAssumption DEF AbstractCall, Answered, Aborted
<1>7. CASE SpreadInsert
  <2>1. UNCHANGED <<op, tgt, src, out>> /\ pc = "spread" /\ pc' = "probe" /\ op = "spread"
    BY <1>7 DEF SpreadInsert, StartInsert, callVars, RefInv, IInv, CallInv
  <2> QED BY <2>1, <1>2 DEF AbstractCall, Answered, Aborted
<1>8. CASE DoubleSize /\ pc' \notin Aborted
  <2>1. UNCHANGED <<op, tgt, src, out, key, val>> /\ pc = "size" /\ pc' = "size"
    BY <1>8 DEF DoubleSize, callVars, spreadVars, insVars, Aborted
  <2> QED BY <2>1, <1>2 DEF AbstractCall, Answered, Aborted
<1>9. CASE SpreadGrow /\ pc' \notin Aborted
  <2>1. UNCHANGED <<op, tgt, src, out>> /\ pc = "grow" /\ pc' = "size" /\ op = "spread"
    BY <1>9 DEF SpreadGrow, StartGrow, callVars, Aborted, RefInv, IInv, CallInv
  <2> QED BY <2>1, <1>2 DEF AbstractCall, Answered, Aborted
<1> QED BY <1>2, <1>3, <1>4, <1>5, <1>6, <1>7, <1>8, <1>9

\* bal_map_create has made the table.
LEMMA CreateRefines ==
  ASSUME RefInv, AllocTable, op = "create"
  PROVE  Abstract!Create
<1>1. /\ tgt \in Map /\ ~Created(tgt) /\ pc = "size" /\ pc' = "done" /\ out = Missing
      /\ out' = out /\ n_entries[tgt] \in Nat /\ tgt \in Tables
  BY DEF AllocTable, RefInv, IInv, CallInv, LocalsInv, TypeOK, TableTypeOK, Tables
<1>2. PICK m \in Map : m = tgt
  BY <1>1
<1>3. /\ n_entries'[m] > 0 /\ Occupied(m)' = {}
      /\ \A u \in Tables \ {m} : n_entries'[u] = n_entries[u] /\ entries'[u] = entries[u]
  BY <1>2, AllocFacts DEF RefInv
<1>4. AbstractCall = [op |-> "create", map |-> m] /\ AbstractCall' = [op |-> "return", value |-> Missing]
  BY <1>1, <1>2 DEF AbstractCall, Answered, Aborted
<1>5. CreatedMaps' = CreatedMaps \cup {m}
  <2>1. \A u \in Map \ {m} : n_entries'[u] = n_entries[u]
    BY <1>3, MapsAreTables
  <2> QED BY <1>3, <2>1 DEF CreatedMaps, Created
<1>6. AbstractStore' = AbstractStore
  <2>1. \A k : FieldOf(m, k)' = Missing
    BY <1>3, EmptyHasNoFields
  <2>2. Occupied(m) = {}
    BY <1>1, <1>2 DEF Created, Occupied
  <2>3. \A k : FieldOf(m, k) = Missing
    BY <2>2 DEF FieldOf, KeysOf
  <2>4. \A u \in Tables \ {m} : \A k : FieldOf(u, k)' = FieldOf(u, k)
    BY <1>3, SameFields
  <2> QED BY <2>1, <2>3, <2>4, SameStore, MapsAreTables
<1> QED BY <1>4, <1>5, <1>6 DEF Abstract!Create, Abstract!Returning, CreatedMaps

\* The table of a growth is no map yet.
LEMMA AllocRefines ==
  ASSUME RefInv, AllocTable, op # "create"
  PROVE  UNCHANGED <<AbstractStore, CreatedMaps, AbstractCall>>
<1>1. \A u \in Tables \ {Local} : n_entries'[u] = n_entries[u] /\ entries'[u] = entries[u]
  BY AllocFacts DEF RefInv
<1>2. UNCHANGED <<op, tgt, src, out>> /\ pc = "size" /\ pc' = "rehash" /\ op \in {"insert", "spread"}
  BY DEF AllocTable, callVars, spreadVars, RefInv, IInv, CallInv
<1>3. AbstractCall' = AbstractCall
  BY <1>2 DEF AbstractCall, Answered, Aborted
<1>4. \A m \in Map : m \in Tables \ {Local}
  BY LocalAssumption, MapsAreTables
<1>5. AbstractStore' = AbstractStore
  BY <1>1, <1>4, SameFields, SameStore
<1>6. CreatedMaps' = CreatedMaps
  BY <1>1, <1>4, SameCreated
<1> QED BY <1>3, <1>5, <1>6

\* The map that takes over nMap has the same fields.
LEMMA AdoptRefines ==
  ASSUME RefInv, RehashDone
  PROVE  UNCHANGED <<AbstractStore, CreatedMaps, AbstractCall>>
<1>1. /\ tgt \in Map /\ pc = "rehash" /\ op \in {"insert", "spread"} /\ Created(tgt) /\ Created(Local)
      /\ gi = n_entries[tgt] /\ UNCHANGED <<op, tgt, src, out>>
      /\ pc' = IF op = "spread" THEN "spread" ELSE "done"
  BY DEF RehashDone, callVars, spreadVars, RefInv, IInv, CallInv, GrowInv
<1>2. AbstractCall' = AbstractCall
  BY <1>1 DEF AbstractCall, Answered, Aborted
<1>3. PICK m \in Map : m = tgt
  BY <1>1
<1>4. /\ n_entries'[m] = n_entries[Local] /\ entries'[m] = entries[Local]
      /\ \A u \in Tables \ {m, Local} : n_entries'[u] = n_entries[u] /\ entries'[u] = entries[u]
  BY <1>3, AdoptFacts DEF RefInv
<1>5. \A u \in Map \ {m} : u \in Tables \ {m, Local}
  BY LocalAssumption, MapsAreTables
<1>6. HandedOver = Occupied(tgt)
  BY <1>1 DEF HandedOver, Occupied, RefInv, IInv, TypeOK, CounterTypeOK
<1>7. \A k \in Key : FieldOf(Local, k) = FieldOf(tgt, k)
  <2>1. \A k \in Key : FieldOf(Local, k) = IF \E i \in Occupied(tgt) : entries[tgt][i].key = k
                                           THEN FieldOf(tgt, k) ELSE Missing
    BY <1>1, <1>6 DEF RefInv, GrowthCopiesFields
  <2>2. \A k : ~(\E i \in Occupied(tgt) : entries[tgt][i].key = k) => FieldOf(tgt, k) = Missing
    BY DEF FieldOf, KeysOf
  <2> QED BY <2>1, <2>2
<1>8. \A k \in Key : FieldOf(m, k)' = FieldOf(m, k)
  <2>1. \A k : FieldOf(m, k)' = FieldOf(Local, k)
    BY <1>4, SameFields, MapsAreTables
  <2>2. \A k : FieldOf(m, k) = FieldOf(tgt, k)
    BY <1>3
  <2> QED BY <1>7, <2>1, <2>2
<1>9. AbstractStore' = AbstractStore
  BY <1>4, <1>5, <1>8, SameFields, SameStore, MapsAreTables
<1>10. CreatedMaps' = CreatedMaps
  BY <1>1, <1>3, <1>4, <1>5, SameCreated DEF Created
<1> QED BY <1>2, <1>9, <1>10

\* The end of an insert of an entry: into nMap it is no effect; into the map it
\* is the effect of the insert, or one field of the spread.
LEMMA PutRefines ==
  ASSUME RefInv, [Next]_vars, ProbeOverwrite \/ ProbePlace
  PROVE  [Abstract!Next]_(Abstract!vars)
<1>1. /\ pc = "probe" /\ UNCHANGED <<op, tgt, src, out, n_entries>> /\ tgt \in Map
      /\ op \in {"insert", "spread"} /\ cur \in {tgt, Local} /\ out = Missing
  BY DEF ProbeOverwrite, ProbePlace, callVars, spreadVars, RefInv, IInv, CallInv, ProbeInv, LocalsInv
<1>2. /\ cur \in Tables /\ key \in Key /\ val \in Value
      /\ \A k : FieldOf(cur, k)' = IF k = key THEN val ELSE FieldOf(cur, k)
      /\ \A u \in Tables \ {cur} : \A k : FieldOf(u, k)' = FieldOf(u, k)
  BY PutFields DEF RefInv
<1>3. CreatedMaps' = CreatedMaps
  BY <1>1, SameCreated
<1>4. pc' \in {"rehash", "spread", "done", "size", "shrink"} /\ (pc' = "shrink" => op = "spread")
  <2>1. pc' # "nested" /\ (pc' = "shrink" => op = "spread")
    BY <1>1, ExitStep DEF RefInv, NoNestedGrowth, InsertNeverShrinks
  <2> QED BY <2>1 DEF ProbeOverwrite, ProbePlace, AfterInsert, StartGrow
<1>5. CASE cur = Local
  <2>1. \A m \in Map : m \in Tables \ {cur}
    BY <1>5, LocalAssumption, MapsAreTables
  <2>2. AbstractStore' = AbstractStore
    BY <1>2, <2>1, SameStore
  <2>3. pc' = "rehash"
    <3>1. ~IsFull(used[cur] + 1, cur)
      BY <1>1, <1>5, LocalNotFull DEF IsFull, RefInv, IInv, TypeOK, TableTypeOK, Tables
    <3> QED BY <1>5, <3>1 DEF ProbeOverwrite, ProbePlace, AfterInsert
  <2>4. AbstractCall' = AbstractCall
    BY <1>1, <1>5, <2>3, LocalAssumption DEF AbstractCall, Answered, Aborted
  <2> QED BY <1>3, <2>2, <2>4 DEF Abstract!vars, CreatedMaps
<1>6. CASE cur = tgt
  <2>0. PICK m \in Map : m = tgt
    BY <1>1
  <2>1. AbstractStore' = [AbstractStore EXCEPT ![m][key] = val]
    <3>1. \A x \in Map, k \in Key :
            FieldOf(x, k)' = IF x = m /\ k = key THEN val ELSE FieldOf(x, k)
      <4>1. \A k : FieldOf(m, k)' = IF k = key THEN val ELSE FieldOf(m, k)
        <5>1. \A k : FieldOf(cur, k)' = FieldOf(m, k)' /\ FieldOf(cur, k) = FieldOf(m, k)
          <6>1. cur' = m /\ cur = m
            BY <1>6, <2>0 DEF ProbeOverwrite, ProbePlace, insVars
          <6> QED BY <6>1 DEF FieldOf, KeysOf, Occupied
        <5> QED BY <1>2, <5>1
      <4> QED BY <1>2, <1>6, <2>0, <4>1, MapsAreTables
    <3> QED BY <1>2, <3>1 DEF AbstractStore
  <2>2. CASE op = "insert"
    <3>1. AbstractCall = [op |-> "insert", map |-> m, key |-> key, value |-> val]
      BY <1>1, <1>6, <2>0, <2>2 DEF AbstractCall, Answered, Aborted
    <3>2. AbstractCall' = [op |-> "return", value |-> Missing]
      BY <1>1, <1>4, <2>2 DEF AbstractCall, Answered, Aborted
    <3>3. Abstract!Put
      BY <1>3, <2>1, <3>1, <3>2 DEF Abstract!Put, Abstract!Returning, CreatedMaps
    <3> QED BY <3>3 DEF Abstract!Next
  <2>3. CASE op = "spread"
    <3>1. AbstractCall = [op |-> "spread", map |-> m, source |-> src]
      BY <1>1, <2>0, <2>3 DEF AbstractCall, Answered, Aborted
    <3>2. src \in Map /\ FieldOf(src, key) = val
      BY <1>1, <1>6, <2>3 DEF RefInv, IInv, CallInv, LocalsInv
    <3>3. AbstractStore[src][key] = val /\ val # Missing
      BY <1>2, <3>2, ValueAssumption DEF AbstractStore
    <3>4. pc' # "shrink"
      <4>1. cur # Local /\ used[cur] \in Nat
        BY <1>1, <1>2, <1>6, LocalAssumption DEF RefInv, IInv, TypeOK, TableTypeOK
      <4>2. ~(used[cur] + 1 + 1 <= used[cur] + 1)
        BY <4>1
      <4> QED BY <4>1, <4>2 DEF ProbeOverwrite, ProbePlace, AfterInsert, StartGrow, GrownSize
    <3>5. AbstractCall' = AbstractCall
      <4>1. pc' \in {"rehash", "spread", "size"}
        BY <1>1, <1>4, <2>3, <3>4 DEF ProbeOverwrite, ProbePlace, AfterInsert, StartGrow
      <4> QED BY <1>1, <2>3, <4>1 DEF AbstractCall, Answered, Aborted
    <3>6. Abstract!CopyField(key)
      BY <1>3, <2>1, <3>1, <3>3, <3>5 DEF Abstract!CopyField, CreatedMaps
    <3> QED BY <1>2, <3>6 DEF Abstract!Next
  <2> QED BY <1>1, <2>2, <2>3
<1> QED BY <1>1, <1>5, <1>6

\* A lookup that meets the key answers its value; one that meets an empty slot
\* has passed every slot the key could be in.
LEMMA FindRefines == ASSUME RefInv, FindEnd PROVE Abstract!Get
<1>1. /\ IInv /\ pc = "find" /\ op = "lookup" /\ cur = tgt /\ tgt \in Map /\ UNCHANGED table
      /\ pc' = "done" /\ tgt \in Tables
  BY MapsAreTables DEF FindEnd, RefInv, IInv, CallInv
<1>2. /\ slot \in 0 .. n_entries[tgt] - 1 /\ key \in Key /\ entries[tgt][slot].key \in {NullKey, key}
      /\ Home(key, tgt) \in 0 .. n_entries[tgt] - 1
  BY <1>1, LoopTypes DEF FindEnd
<1>3. out' = FieldOf(tgt, key)
  <2>1. CASE entries[tgt][slot].key = key
    <3>1. slot \in Occupied(tgt)
      BY <1>2, <2>1, KeyAssumption DEF Occupied
    <3>2. FieldIn(Occupied(tgt), entries[tgt], key) = entries[tgt][slot].value
      BY <1>1, <2>1, <3>1, IInvKeysOnce, FieldInSlot DEF KeysAreOnce
    <3>3. out' = entries[tgt][slot].value
      BY <1>1, <2>1 DEF FindEnd
    <3> QED BY <3>2, <3>3, FieldOfSlots
  <2>2. CASE entries[tgt][slot].key # key
    <3> DEFINE h == Home(key, tgt)
    <3>1. out' = Missing /\ entries[tgt][slot].key = NullKey
      BY <1>1, <1>2, <2>2 DEF FindEnd
    <3>2. ASSUME NEW i \in Occupied(tgt), entries[tgt][i].key = key PROVE FALSE
      <4>1. i \in 0 .. n_entries[tgt] - 1 /\ i # slot /\ n_entries[tgt] \in Nat
        BY <1>1, <2>2, <3>2 DEF Occupied, IInv, TypeOK, TableTypeOK
      <4>2. ~(Dist(tgt, h, slot) < Dist(tgt, h, i))
        BY <1>1, <1>2, <3>1, <3>2 DEF IInv, KeysReachable
      <4>3. ~(Dist(tgt, h, i) < Dist(tgt, h, slot))
        BY <1>1, <3>2, <4>1 DEF IInv, ProbeInv
      <4>4. Dist(tgt, h, i) # Dist(tgt, h, slot)
        BY <1>2, <4>1 DEF Dist
      <4>5. Dist(tgt, h, i) \in Nat /\ Dist(tgt, h, slot) \in Nat
        BY <1>1, <1>2, <4>1, DistType DEF IInv
      <4> QED BY <4>2, <4>3, <4>4, <4>5
    <3> QED BY <3>1, <3>2 DEF FieldOf, KeysOf
  <2> QED BY <2>1, <2>2
<1>4. AbstractCall = [op |-> "lookup", map |-> tgt, key |-> key]
      /\ AbstractCall' = [op |-> "return", value |-> FieldOf(tgt, key)]
  BY <1>1, <1>3 DEF AbstractCall, Answered, Aborted
<1>5. AbstractStore[tgt][key] = FieldOf(tgt, key)
  BY <1>1, <1>2 DEF AbstractStore
<1>6. UNCHANGED <<AbstractStore, CreatedMaps>>
  BY <1>1, TablesStay
<1> QED BY <1>4, <1>5, <1>6 DEF Abstract!Get, Abstract!Returning, CreatedMaps

LEMMA EndRefines ==
  ASSUME RefInv, SpreadDone \/ Return
  PROVE  Abstract!SpreadEnd \/ Abstract!Return
<1>1. UNCHANGED <<AbstractStore, CreatedMaps>>
  <2>1. UNCHANGED table
    BY DEF SpreadDone, Return
  <2> QED BY <2>1, TablesStay
<1>2. CASE SpreadDone
  <2>1. pc = "spread" /\ pc' = "done" /\ op = "spread" /\ out' = out /\ out = Missing
    BY <1>2 DEF SpreadDone, RefInv, IInv, CallInv, LocalsInv
  <2>2. AbstractCall.op = "spread" /\ AbstractCall' = [op |-> "return", value |-> Missing]
    BY <2>1 DEF AbstractCall, Answered, Aborted
  <2> QED BY <1>1, <2>2 DEF Abstract!SpreadEnd, Abstract!Returning, CreatedMaps
<1>3. CASE Return
  <2>1. AbstractCall.op = "return" /\ AbstractCall' = [op |-> "idle"]
    BY <1>3 DEF Return, AbstractCall, Answered, Aborted
  <2> QED BY <1>1, <2>1 DEF Abstract!Return, Abstract!Idle, CreatedMaps
<1> QED BY <1>2, <1>3

LEMMA StepRefines == RefInv /\ [Next]_vars => [Abstract!Next]_(Abstract!vars)
<1> SUFFICES ASSUME RefInv, [Next]_vars PROVE [Abstract!Next]_(Abstract!vars)
  OBVIOUS
<1>1. CASE Invoke
  BY <1>1, InvokeRefines DEF Abstract!Next
<1>2. CASE (DoubleSize \/ AllocFails \/ SpreadGrow) /\ pc' \in Aborted
  BY <1>2, AbortRefines DEF Abstract!Next
<1>3. ASSUME \/ ProbeNext \/ FindNext \/ RehashSkip \/ RehashEntry \/ SpreadSkip \/ SpreadInsert
             \/ (DoubleSize \/ SpreadGrow) /\ pc' \notin Aborted
             \/ UNCHANGED vars
      PROVE  UNCHANGED Abstract!vars
  BY <1>3, StutterRefines DEF Abstract!vars, CreatedMaps
<1>4. CASE AllocTable /\ op = "create"
  BY <1>4, CreateRefines DEF Abstract!Next
<1>5. CASE (AllocTable /\ op # "create") \/ RehashDone
  <2>1. UNCHANGED <<AbstractStore, CreatedMaps, AbstractCall>>
    BY <1>5, AllocRefines, AdoptRefines
  <2> QED BY <2>1 DEF Abstract!vars, CreatedMaps
<1>6. CASE ProbeOverwrite \/ ProbePlace
  BY <1>6, PutRefines
<1>7. CASE FindEnd
  BY <1>7, FindRefines DEF Abstract!Next
<1>8. CASE SpreadDone \/ Return
  BY <1>8, EndRefines DEF Abstract!Next
<1>9. AllocFails => pc' \in Aborted
  BY DEF AllocFails, Aborted
<1> QED
  BY <1>1, <1>2, <1>3, <1>4, <1>5, <1>6, <1>7, <1>8, <1>9 DEF Next, Step, Halted

-----------------------------------------------------------------------------
(* What a spread copies.                                                    *)

\* A step that leaves the fields of the maps and the source's slots leaves what
\* is copied, as long as it visits no slot.
LEMMA CopiedStays ==
  ASSUME RefInv, SpreadCopiesVisitedSlots, op = "spread", pc # "grow",
         UNCHANGED <<op, tgt, src>>, AbstractStore' = AbstractStore,
         n_entries'[src] = n_entries[src], entries'[src] = entries[src],
         VisitedSlots' \subseteq VisitedSlots
  PROVE  SpreadCopiesVisitedSlots'
<1>1. tgt \in Map /\ src \in Map /\ src \in Tables
  BY MapsAreTables DEF RefInv, IInv, CallInv
<1>2. PICK t \in Map, s \in Map : t = tgt /\ s = src
  BY <1>1
<1>3. \A m \in Map, k \in Key : FieldOf(m, k)' = FieldOf(m, k)
  <2>1. \A m \in Map, k \in Key :
          AbstractStore[m][k] = FieldOf(m, k) /\ AbstractStore'[m][k] = FieldOf(m, k)'
    BY DEF AbstractStore
  <2> QED BY <2>1
<1>4. ASSUME NEW i \in VisitedSlots PROVE entries[s][i].key \in Key
  BY <1>1, <1>2 DEF VisitedSlots, Occupied, RefInv, IInv, TypeOK, TableTypeOK, Entry
<1>5. \A i \in VisitedSlots' :
        FieldOf(t, entries[s][i].key)' = FieldOf(s, entries[s][i].key)'
  <2>1. ASSUME NEW i \in VisitedSlots'
        PROVE  FieldOf(t, entries[s][i].key)' = FieldOf(s, entries[s][i].key)'
    <3>1. PICK k \in Key : k = entries[s][i].key
      BY <1>4
    <3>2. entries'[s][i].key = k
      BY <1>2, <3>1
    <3>3. FieldOf(t, k) = FieldOf(s, k)
      BY <1>2, <3>1 DEF SpreadCopiesVisitedSlots
    <3>4. FieldOf(t, k)' = FieldOf(s, k)'
      BY <1>3, <3>3
    <3> QED BY <3>2, <3>4 DEF FieldOf, KeysOf, Occupied
  <2> QED BY <2>1
<1>6. tgt' = t /\ src' = s
  BY <1>2
<1>7. Occupied(tgt)' = Occupied(t)' /\ Occupied(src)' = Occupied(s)'
  BY <1>6 DEF Occupied
<1>8. ASSUME NEW i \in VisitedSlots'
      PROVE  FieldOf(tgt, entries[src][i].key)' = FieldOf(src, entries[src][i].key)'
  <2>1. /\ FieldOf(tgt, entries[src][i].key)'
             = FieldIn(Occupied(tgt)', entries'[tgt'], entries'[src'][i].key)
        /\ FieldOf(src, entries[src][i].key)'
             = FieldIn(Occupied(src)', entries'[src'], entries'[src'][i].key)
    BY DEF FieldOf, FieldIn, KeysOf
  <2>2. /\ FieldOf(t, entries[s][i].key)'
             = FieldIn(Occupied(t)', entries'[t], entries'[s][i].key)
        /\ FieldOf(s, entries[s][i].key)'
             = FieldIn(Occupied(s)', entries'[s], entries'[s][i].key)
    BY DEF FieldOf, FieldIn, KeysOf
  <2>3. FieldOf(t, entries[s][i].key)' = FieldOf(s, entries[s][i].key)'
    BY <1>5
  <2> QED BY <1>6, <1>7, <2>1, <2>2, <2>3
<1> QED BY <1>8 DEF SpreadCopiesVisitedSlots

\* The entry whose insert ends is copied, and the others stay so.
LEMMA CopiedGrows ==
  ASSUME RefInv, SpreadCopiesVisitedSlots, op = "spread", [Next]_vars,
         ProbeOverwrite \/ ProbePlace
  PROVE  SpreadCopiesVisitedSlots'
<1>1. /\ tgt \in Map /\ src \in Map \ {tgt} /\ pc = "probe" /\ cur \in {tgt, Local}
      /\ pc' # "probe" /\ TypeOK /\ TableTypeOK /\ IInv
  BY DEF RefInv, IInv, TypeOK, CallInv, ProbeInv, ProbeOverwrite, ProbePlace, AfterInsert, StartGrow
<1>2. PICK t \in Map, s \in Map : t = tgt /\ s = src /\ s # t
  BY <1>1
<1>3. UNCHANGED <<op, tgt, src, si, cur, n_entries>> /\ si \in Nat
  BY <1>1 DEF ProbeOverwrite, ProbePlace, callVars, spreadVars, insVars, TypeOK, CounterTypeOK
<1>4. /\ cur \in Tables /\ key \in Key /\ val \in Value
      /\ \A k : FieldOf(cur, k)' = IF k = key THEN val ELSE FieldOf(cur, k)
      /\ \A u \in Tables \ {cur} : \A k : FieldOf(u, k)' = FieldOf(u, k)
  BY PutFields DEF RefInv
<1>5. s \in Tables \ {cur} /\ t \in Tables /\ entries'[s] = entries[s] /\ Local \notin Map
  BY <1>1, <1>2, LocalAssumption, MapsAreTables DEF ProbeOverwrite, ProbePlace, TableTypeOK
<1>6. Occupied(src)' = Occupied(src) /\ \A i \in Occupied(src) : i \in Int
  BY <1>2, <1>3, <1>5 DEF Occupied
<1>7. CASE cur = Local
  <2>1. VisitedSlots' = VisitedSlots
    BY <1>1, <1>2, <1>3, <1>5, <1>6, <1>7 DEF VisitedSlots
  <2>2. \A m \in Map, k \in Key : FieldOf(m, k)' = FieldOf(m, k)
    BY <1>4, <1>5, <1>7, MapsAreTables
  <2>3. AbstractStore' = AbstractStore
    BY <2>2, SameStore
  <2> QED BY <1>1, <1>2, <1>3, <1>5, <2>1, <2>3, CopiedStays
<1>8. CASE cur = tgt
  <2>1. si > 0 /\ key = entries[s][si - 1].key /\ FieldOf(s, key) = val
    BY <1>1, <1>2, <1>8 DEF RefInv, LocalsInv
  <2>2. \A i \in VisitedSlots' : i \in VisitedSlots \/ i = si - 1
    <3>1. VisitedSlots' = {i \in Occupied(src) : i < si}
      BY <1>1, <1>3, <1>6 DEF VisitedSlots
    <3>2. VisitedSlots = {i \in Occupied(src) : i < si - 1}
      BY <1>1, <1>8 DEF VisitedSlots
    <3> QED BY <1>3, <1>6, <3>1, <3>2
  <2>3. /\ \A k : FieldOf(t, k)' = IF k = key THEN val ELSE FieldOf(t, k)
        /\ \A k : FieldOf(s, k)' = FieldOf(s, k)
    <3>1. \A k : FieldOf(cur, k)' = FieldOf(t, k)' /\ FieldOf(cur, k) = FieldOf(t, k)
      <4>1. cur' = t /\ cur = t
        BY <1>2, <1>3, <1>8
      <4> QED BY <4>1 DEF FieldOf, KeysOf, Occupied
    <3> QED BY <1>4, <1>5, <3>1
  <2>4. ASSUME NEW i \in VisitedSlots'
        PROVE  FieldOf(t, entries[s][i].key)' = FieldOf(s, entries[s][i].key)'
    <3>1. PICK k : k = entries[s][i].key
      OBVIOUS
    <3>2. entries'[s][i].key = k
      BY <1>5, <3>1
    <3>3. k = key \/ FieldOf(t, k) = FieldOf(s, k)
      <4>1. CASE i \in VisitedSlots
        BY <1>1, <1>2, <3>1, <4>1 DEF SpreadCopiesVisitedSlots
      <4>2. CASE i = si - 1
        BY <2>1, <3>1, <4>2
      <4> QED BY <2>2, <4>1, <4>2
    <3>4. FieldOf(t, k)' = FieldOf(s, k)'
      BY <2>1, <2>3, <3>3
    <3> QED BY <3>2, <3>4 DEF FieldOf, KeysOf, Occupied
  <2>5. tgt' = t /\ src' = s
    BY <1>2, <1>3
  <2> QED BY <2>4, <2>5 DEF SpreadCopiesVisitedSlots, FieldOf, KeysOf, Occupied
<1> QED BY <1>1, <1>7, <1>8

LEMMA CopiedStep ==
  ASSUME RefInv, SpreadCopiesVisitedSlots, [Next]_vars
  PROVE  SpreadCopiesVisitedSlots'
<1>0. IInv /\ TypeOK /\ CounterTypeOK /\ CallInv
  BY DEF RefInv, IInv, TypeOK
<1>1. CASE op' # "spread" \/ pc' = "grow"
  BY <1>1 DEF SpreadCopiesVisitedSlots
<1>2. CASE ProbeOverwrite \/ ProbePlace
  <2>1. op' = op
    BY <1>2 DEF ProbeOverwrite, ProbePlace, callVars
  <2> QED BY <1>1, <1>2, <2>1, CopiedGrows
<1>3. CASE SpreadGrow
  <2>1. si' = 0 /\ pc' # "probe"
    BY <1>3 DEF SpreadGrow, StartGrow
  <2>2. VisitedSlots' = {}
    BY <2>1 DEF VisitedSlots, Occupied
  <2> QED BY <2>2 DEF SpreadCopiesVisitedSlots
<1>4. ASSUME op = "spread", pc # "grow",
             \/ DoubleSize \/ AllocFails \/ ProbeNext \/ RehashSkip \/ RehashEntry
             \/ SpreadSkip \/ SpreadInsert \/ SpreadDone \/ UNCHANGED vars
      PROVE  SpreadCopiesVisitedSlots'
  <2>1. UNCHANGED table /\ UNCHANGED <<op, tgt, src>>
    BY <1>4 DEF DoubleSize, AllocFails, ProbeNext, RehashSkip, RehashEntry, SpreadSkip, SpreadInsert,
         SpreadDone, vars, callVars, spreadVars
  <2>2. /\ AbstractStore' = AbstractStore /\ n_entries'[src] = n_entries[src]
        /\ entries'[src] = entries[src]
    BY <2>1, TablesStay DEF table
  <2>3. Occupied(src)' = Occupied(src) /\ \A i \in Occupied(src) : i \in Int
    BY <2>1 DEF Occupied, table
  <2>4. si \in Nat /\ tgt # Local
    BY <1>0, <1>4, LocalAssumption DEF CounterTypeOK, CallInv
  <2>5. VisitedSlots' \subseteq VisitedSlots
    <3>1. CASE DoubleSize \/ AllocFails \/ RehashSkip \/ RehashEntry \/ SpreadDone
      <4>1. si' = si /\ pc # "probe" /\ (pc' # "probe" \/ cur' # tgt')
        BY <2>1, <2>4, <3>1 DEF DoubleSize, AllocFails, RehashSkip, RehashEntry, SpreadDone, StartInsert,
           spreadVars
      <4> QED BY <2>3, <4>1 DEF VisitedSlots
    <3>2. CASE ProbeNext \/ UNCHANGED vars
      <4>1. si' = si /\ pc' = pc /\ cur' = cur /\ tgt' = tgt
        BY <2>1, <3>2 DEF ProbeNext, vars, spreadVars, insVars
      <4> QED BY <2>3, <4>1 DEF VisitedSlots
    <3>3. CASE SpreadSkip
      <4>1. si' = si + 1 /\ pc # "probe" /\ pc' # "probe" /\ si \notin Occupied(src)
        BY <3>3 DEF SpreadSkip, Occupied
      <4>2. \A i \in Occupied(src) : i < si + 1 => i < si
        BY <2>3, <2>4, <4>1
      <4> QED BY <2>3, <4>1, <4>2 DEF VisitedSlots
    <3>4. CASE SpreadInsert
      <4>1. si' - 1 = si /\ pc # "probe" /\ pc' = "probe" /\ cur' = tgt'
        BY <2>1, <2>4, <3>4 DEF SpreadInsert, StartInsert
      <4> QED BY <2>3, <4>1 DEF VisitedSlots
    <3> QED BY <1>4, <3>1, <3>2, <3>3, <3>4
  <2> QED BY <1>4, <2>1, <2>2, <2>5, CopiedStays
<1>5. ASSUME op = "spread", AllocTable \/ RehashDone
      PROVE  SpreadCopiesVisitedSlots'
  <2>1. AbstractStore' = AbstractStore
    BY <1>5, AllocRefines, AdoptRefines
  <2>2. /\ UNCHANGED <<op, tgt, src, si>> /\ pc \notin {"probe", "grow"} /\ pc' # "probe"
        /\ src \in Map \ {tgt} /\ src # Local /\ src \in Tables /\ op # "create"
    BY <1>0, <1>5, LocalAssumption, MapsAreTables
    DEF AllocTable, RehashDone, callVars, spreadVars, CallInv
  <2>3. n_entries'[src] = n_entries[src] /\ entries'[src] = entries[src]
    BY <1>0, <1>5, <2>2, AllocFacts, AdoptFacts
  <2>4. VisitedSlots' = VisitedSlots
    BY <2>2, <2>3 DEF VisitedSlots, Occupied
  <2> QED BY <1>5, <2>1, <2>2, <2>3, <2>4, CopiedStays
<1>6. CASE FindNext \/ FindEnd
  BY <1>0, <1>1, <1>6 DEF FindNext, FindEnd, CallInv, callVars
<1>7. CASE Invoke \/ Return
  BY <1>1, <1>7 DEF Invoke, Create, Lookup, Insert, Spread, Return
<1>8. op' = op \/ Invoke \/ Return
  BY DEF Next, Step, Halted, DoubleSize, AllocTable, AllocFails, ProbeNext, ProbeOverwrite, ProbePlace,
         RehashSkip, RehashEntry, RehashDone, FindNext, FindEnd, SpreadGrow, SpreadSkip, SpreadInsert,
         SpreadDone, vars, callVars
<1>9. pc = "grow" => SpreadGrow \/ UNCHANGED vars
  BY DEF Next, Invoke, Create, Lookup, Insert, Spread, Step, Halted, Aborted, DoubleSize, AllocTable,
         AllocFails, ProbeNext, ProbeOverwrite, ProbePlace, RehashSkip, RehashEntry, RehashDone, FindNext,
         FindEnd, SpreadSkip, SpreadInsert, SpreadDone, Return
<1>10. pc = "grow" /\ UNCHANGED vars => pc' = "grow"
  BY DEF vars
<1> QED
  BY <1>1, <1>2, <1>3, <1>4, <1>5, <1>6, <1>7, <1>8, <1>9, <1>10 DEF Next, Step, Halted

\* A spread gives its target the field of every slot it visits, with the source's
\* value, through every growth on the way: what init_map_spread_field misses is in
\* the slots the loop does not reach, never in what it does with the others.
THEOREM SpreadCopiesWhatItVisits == Spec => []SpreadCopiesVisitedSlots
<1>1. Init => SpreadCopiesVisitedSlots
  BY DEF Init, SpreadCopiesVisitedSlots
<1>2. RefInv /\ SpreadCopiesVisitedSlots /\ [Next]_vars => SpreadCopiesVisitedSlots'
  BY CopiedStep
<1> QED BY <1>1, <1>2, RefInvariance, PTL DEF Spec

-----------------------------------------------------------------------------
\* The hash table of balmap.c implements the abstract mapping: whatever the hash
\* function, the sizes and the moment a table grows, a lookup gives what the last
\* insert or spread stored, and a call crashes only for want of memory or by the
\* aborts a spread and an overflow have.
THEOREM TableImplementsMapping == Spec => RefinesMapSpec
  BY InitRefines, StepRefines, RefInvariance, PTL DEF Spec, RefinesMapSpec, Abstract!Spec
=============================================================================
