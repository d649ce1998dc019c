------------------------------- MODULE BalMap -------------------------------
(***************************************************************************)
(* The mapping of the C runtime (runtime/c_rt/src/balmap.c): an open       *)
(* addressing hash table that probes downwards, grows by building a second *)
(* table on the stack, and never deletes.  One action per step of a loop:  *)
(* a call can be watched half-way, and a loop that never ends is a         *)
(* behaviour that never returns.  The runtime is single-threaded: at most  *)
(* one call of the emitted code is in progress.                            *)
(***************************************************************************)
EXTENDS Integers, FiniteSets

CONSTANTS
  Map,          \* the mappings the program can create
  Key,          \* strings, up to bal_string_equals
  NullKey,      \* the null BalStringPtr of an empty slot
  Value, Zero,  \* BalValues, and the one zalloc leaves in a slot
  Missing,      \* "bal_map_lookup returned false"
  Local,        \* nMap, the table bal_map_grow_hashtable keeps on its stack
  Hash,         \* bal_string_hash
  InitialSize,  \* INITIAL_SIZE
  MinSize,      \* HASH_TABLE_MIN_SIZE
  SizeMod,      \* SIZE_MAX + 1
  MaxEntries    \* the largest table calloc can return

ASSUME KeyAssumption == NullKey \notin Key /\ Hash \in [Key -> Nat]
ASSUME ValueAssumption == Zero \in Value /\ Missing \notin Value
ASSUME LocalAssumption == Local \notin Map
ASSUME SizeAssumption ==
  /\ InitialSize \in Nat \ {0} /\ MinSize \in Nat \ {0}
  /\ SizeMod \in Nat \ {0} /\ MaxEntries \in Nat

Tables == Map \cup {Local}
Entry == [key : Key \cup {NullKey}, value : Value]
EmptyEntry == [key |-> NullKey, value |-> Zero]

VARIABLES
  used, capacity, n_entries, entries,  \* BalMap: one struct per table
  pc,                                  \* the loop or exit the code is at
  op, tgt, src, srcUsed, si,           \* the call, and the spread's loop
  minCap, n, gi,                       \* bal_map_grow_hashtable's locals
  cur, key, val, slot,                 \* bal_map_insert's and lookup's locals
  out                                  \* what bal_map_lookup answers

table == <<used, capacity, n_entries, entries>>
spreadVars == <<src, srcUsed, si>>
callVars == <<op, tgt>>
growVars == <<minCap, n, gi>>
insVars == <<cur, key, val, slot>>
vars == <<table, pc, callVars, spreadVars, growVars, insVars, out>>

Ops == {"none", "create", "insert", "lookup", "spread"}
Aborted == {"shrink", "overflow", "nomem"}
PCs == {"idle", "size", "rehash", "probe", "find", "grow", "spread", "done",
        "nested"}
         \cup Aborted

-----------------------------------------------------------------------------
(* Pure helpers.                                                           *)

\* (size_t)(n * LOAD_FACTOR): the float 0.6f is 5033165 / 2^23 exactly, and
\* its product with a power of two is exact.
Cap(m) == (m * 5033165) \div 8388608

\* hash & (n_entries - 1), for a power of two
HomeInOldTable(k, t) == Hash[k] % n_entries[IF t = Local THEN tgt ELSE t]
Home(k, t) == Hash[k] % n_entries[t]

\* Towards lower slots, wrapping at 0.
PrevUnchecked(t, i) == i - 1
PrevNoWrap(t, i) == IF i > 0 THEN i - 1 ELSE 0
Prev(t, i) == IF i > 0 THEN i - 1 ELSE n_entries[t] - 1

\* calloc'ed entries
ZeroTable(m) == [i \in 0 .. m - 1 |-> EmptyEntry]

\* The condition on which bal_map_init_hashtable doubles n.
TooSmallByEntries(m) == m < minCap
TooSmall(m) == Cap(m) < minCap

\* The condition on which an insert grows the table, used counting the new key.
IsFullLate(u, t) == u > capacity[t]
IsFullAtTheEnd(u, t) == u > n_entries[t]
IsFull(u, t) == u >= capacity[t]

\* n <<= 1 on a size_t
Enlarged(m) == (m + MinSize) % SizeMod
DoubledInHalfWord(m) == (2 * m) % (SizeMod \div 2)
Doubled(m) == (2 * m) % SizeMod

\* The size an insert asks for when it grows, and the one a spread asks for.
GrownSizeSame(u) == u
GrownSize(u) == u + 1
SpreadSize(t, s) == used[s] + used[t]

Init ==
  /\ used = [t \in Tables |-> 0]
  /\ capacity = [t \in Tables |-> 0]
  /\ n_entries = [t \in Tables |-> 0]
  /\ entries = [t \in Tables |-> ZeroTable(0)]
  /\ pc = "idle" /\ op = "none"
  /\ tgt = Local /\ src = Local /\ srcUsed = 0 /\ si = 0
  /\ minCap = 0 /\ n = MinSize /\ gi = 0
  /\ cur = Local /\ key = NullKey /\ val = Zero /\ slot = 0
  /\ out = Missing

-----------------------------------------------------------------------------
(* Building a table.                                                       *)

\* bal_map_grow_hashtable up to its call of bal_map_init_hashtable, on a table
\* that counts u keys.
StartGrow(u, newSize) ==
  /\ pc' = IF newSize <= u THEN "shrink" ELSE "size"
  /\ minCap' = newSize
  /\ n' = MinSize

Create(m) ==
  /\ pc = "idle" /\ n_entries[m] = 0
  /\ pc' = "size" /\ op' = "create" /\ tgt' = m
  /\ minCap' = InitialSize /\ n' = MinSize
  /\ UNCHANGED <<table, spreadVars, gi, insVars, out>>

DoubleSize ==
  /\ pc = "size" /\ TooSmall(n)
  /\ n' = Doubled(n)
  /\ pc' = IF n' = 0 THEN "overflow" ELSE "size"
  /\ UNCHANGED <<table, callVars, spreadVars, minCap, gi, insVars, out>>

AllocTable ==
  LET t == IF op = "create" THEN tgt ELSE Local IN
  /\ pc = "size" /\ ~TooSmall(n) /\ n <= MaxEntries
  /\ used' = [used EXCEPT ![t] = 0]
  /\ capacity' = [capacity EXCEPT ![t] = Cap(n)]
  /\ n_entries' = [n_entries EXCEPT ![t] = n]
  /\ entries' = [entries EXCEPT ![t] = ZeroTable(n)]
  /\ pc' = IF op = "create" THEN "done" ELSE "rehash"
  /\ gi' = 0
  /\ UNCHANGED <<callVars, spreadVars, minCap, n, insVars, out>>

\* alloc_value and zalloc abort when the allocator has no memory left.
AllocFails ==
  /\ pc = "size" /\ ~TooSmall(n)
  /\ pc' = "nomem"
  /\ UNCHANGED <<table, callVars, spreadVars, growVars, insVars, out>>

-----------------------------------------------------------------------------
(* Inserting a key into table t: the map itself, or nMap while it grows.    *)

StartInsert(t, k, v) ==
  /\ pc' = "probe"
  /\ cur' = t /\ key' = k /\ val' = v /\ slot' = Home(k, t)

AfterInsert == IF cur = Local THEN "rehash" ELSE IF op = "spread" THEN "spread" ELSE "done"

Insert(m, k, v) ==
  /\ pc = "idle" /\ n_entries[m] > 0
  /\ StartInsert(m, k, v)
  /\ op' = "insert" /\ tgt' = m
  /\ UNCHANGED <<table, spreadVars, growVars, out>>

ProbeNext ==
  /\ pc = "probe" /\ entries[cur][slot].key \notin {NullKey, key}
  /\ slot' = Prev(cur, slot)
  /\ UNCHANGED <<table, pc, callVars, spreadVars, growVars, cur, key, val, out>>

ProbeCountAndOverwrite ==
  /\ pc = "probe" /\ entries[cur][slot].key = key
  /\ entries' = [entries EXCEPT ![cur][slot].value = val]
  /\ used' = [used EXCEPT ![cur] = @ + 1]
  /\ pc' = AfterInsert
  /\ UNCHANGED <<capacity, n_entries, callVars, spreadVars, growVars, insVars, out>>
ProbeOverwrite ==
  /\ pc = "probe" /\ entries[cur][slot].key = key
  /\ entries' = [entries EXCEPT ![cur][slot].value = val]
  /\ pc' = AfterInsert
  /\ UNCHANGED <<used, capacity, n_entries, callVars, spreadVars, growVars, insVars, out>>

\* The end of bal_map_insert_with_hash.  nMap growing while it is being filled
\* would be a second bal_map_grow_hashtable on the stack: "nested" marks it.
ProbePlace ==
  LET u == used[cur] + 1 IN
  /\ pc = "probe" /\ entries[cur][slot].key = NullKey
  /\ entries' = [entries EXCEPT ![cur][slot] = [key |-> key, value |-> val]]
  /\ used' = [used EXCEPT ![cur] = u]
  /\ IF IsFull(u, cur) /\ cur # Local
       THEN StartGrow(u, GrownSize(u))
       ELSE /\ pc' = IF IsFull(u, cur) THEN "nested" ELSE AfterInsert
            /\ UNCHANGED <<minCap, n>>
  /\ UNCHANGED <<capacity, n_entries, callVars, spreadVars, gi, insVars, out>>

-----------------------------------------------------------------------------
(* The loop of bal_map_grow_hashtable over the old entries.                 *)

RehashSkipNullValue ==
  /\ pc = "rehash" /\ gi < n_entries[tgt] /\ entries[tgt][gi].value = Zero
  /\ gi' = gi + 1
  /\ UNCHANGED <<table, pc, callVars, spreadVars, minCap, n, insVars, out>>
RehashSkip ==
  /\ pc = "rehash" /\ gi < n_entries[tgt] /\ entries[tgt][gi].key = NullKey
  /\ gi' = gi + 1
  /\ UNCHANGED <<table, pc, callVars, spreadVars, minCap, n, insVars, out>>

RehashEntry ==
  /\ pc = "rehash" /\ gi < n_entries[tgt] /\ entries[tgt][gi].key # NullKey
  /\ StartInsert(Local, entries[tgt][gi].key, entries[tgt][gi].value)
  /\ gi' = gi + 1
  /\ UNCHANGED <<table, callVars, spreadVars, minCap, n, out>>

\* The struct nMap is copied into the map, and goes out of scope.
Adopt(f, empty) == [f EXCEPT ![tgt] = f[Local], ![Local] = empty]

RehashDone ==
  /\ pc = "rehash" /\ gi = n_entries[tgt]
  /\ used' = Adopt(used, 0)
  /\ capacity' = Adopt(capacity, 0)
  /\ n_entries' = Adopt(n_entries, 0)
  /\ entries' = Adopt(entries, ZeroTable(0))
  /\ pc' = IF op = "spread" THEN "spread" ELSE "done"
  /\ UNCHANGED <<callVars, spreadVars, growVars, insVars, out>>

-----------------------------------------------------------------------------
Lookup(m, k) ==
  /\ pc = "idle" /\ n_entries[m] > 0
  /\ pc' = "find" /\ op' = "lookup" /\ tgt' = m
  /\ cur' = m /\ key' = k /\ slot' = Home(k, m)
  /\ UNCHANGED <<table, spreadVars, growVars, val, out>>

FindNext ==
  /\ pc = "find" /\ entries[cur][slot].key \notin {NullKey, key}
  /\ slot' = Prev(cur, slot)
  /\ UNCHANGED <<table, pc, callVars, spreadVars, growVars, cur, key, val, out>>

FindEnd ==
  /\ pc = "find" /\ entries[cur][slot].key \in {NullKey, key}
  /\ out' = IF entries[cur][slot].key = key THEN entries[cur][slot].value ELSE Missing
  /\ pc' = "done"
  /\ UNCHANGED <<table, callVars, spreadVars, growVars, insVars>>

-----------------------------------------------------------------------------
(* map_spread_field_init.                                                   *)

\* The target is the map a constructor is building, the source another one
\* (StructureInsnCodeGen.cpp:42-64).
Spread(t, s) ==
  /\ pc = "idle" /\ n_entries[t] > 0 /\ n_entries[s] > 0
  /\ pc' = "grow" /\ op' = "spread" /\ tgt' = t /\ src' = s
  /\ UNCHANGED <<table, srcUsed, si, growVars, insVars, out>>

SpreadGrow ==
  /\ pc = "grow"
  /\ srcUsed' = used[src] /\ si' = 0
  /\ IF used[src] > SizeMod - 1 - used[tgt]
       THEN pc' = "overflow" /\ UNCHANGED <<minCap, n>>
       ELSE StartGrow(used[tgt], SpreadSize(tgt, src))
  /\ UNCHANGED <<table, callVars, src, gi, insVars, out>>

SpreadSkip ==
  /\ pc = "spread" /\ si < srcUsed /\ entries[src][si].key = NullKey
  /\ si' = si + 1
  /\ UNCHANGED <<table, pc, callVars, src, srcUsed, growVars, insVars, out>>

SpreadInsert ==
  /\ pc = "spread" /\ si < srcUsed /\ entries[src][si].key # NullKey
  /\ StartInsert(tgt, entries[src][si].key, entries[src][si].value)
  /\ si' = si + 1
  /\ UNCHANGED <<table, callVars, src, srcUsed, growVars, out>>

SpreadDone ==
  /\ pc = "spread" /\ si = srcUsed
  /\ pc' = "done"
  /\ UNCHANGED <<table, callVars, spreadVars, growVars, insVars, out>>

-----------------------------------------------------------------------------
\* Every local goes out of scope.
Return ==
  /\ pc = "done"
  /\ pc' = "idle" /\ op' = "none" /\ tgt' = Local
  /\ src' = Local /\ srcUsed' = 0 /\ si' = 0
  /\ minCap' = 0 /\ n' = MinSize /\ gi' = 0
  /\ cur' = Local /\ key' = NullKey /\ val' = Zero /\ slot' = 0
  /\ out' = Missing
  /\ UNCHANGED table

\* abort() ended the process.
Halted == pc \in Aborted /\ UNCHANGED vars

Invoke ==
  \E m \in Map :
    \/ Create(m)
    \/ \E k \in Key : Lookup(m, k) \/ \E v \in Value : Insert(m, k, v)
    \/ \E s \in Map \ {m} : Spread(m, s)

Step ==
  \/ DoubleSize \/ AllocTable \/ AllocFails
  \/ ProbeNext \/ ProbeOverwrite \/ ProbePlace
  \/ RehashSkip \/ RehashEntry \/ RehashDone
  \/ FindNext \/ FindEnd
  \/ SpreadGrow \/ SpreadSkip \/ SpreadInsert \/ SpreadDone
  \/ Return

Next == Invoke \/ Step \/ Halted

Spec == Init /\ [][Next]_vars

\* The thread that made a call keeps running; whether the program makes
\* another call is its own affair.
FairSpec == Spec /\ WF_vars(Step)
=============================================================================
