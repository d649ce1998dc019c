------------------------- MODULE BalMapProperties -------------------------
(***************************************************************************)
(* What must be true of the hash table of BalMap: its invariants, what its *)
(* calls promise, and the abstract mapping (MapSpec) it implements.        *)
(***************************************************************************)
EXTENDS BalMap, Measure

Created(m) == n_entries[m] > 0
Occupied(t) == {i \in 0 .. n_entries[t] - 1 : entries[t][i].key # NullKey}
KeysOf(t) == {entries[t][i].key : i \in Occupied(t)}

\* A power of 2 has no odd divisor but 1.
PowerOf2(m) == m \in Nat \ {0} /\ \A d \in 1 .. m : m % d = 0 /\ d % 2 = 1 => d = 1

\* HASH_TABLE_MIN_SIZE is 8 (balmap.c:25), a size_t has a number of bits.
ASSUME PowerAssumption == PowerOf2(MinSize) /\ PowerOf2(SizeMod) /\ MinSize < SizeMod

\* The powers of 2 that are a size_t.
TableSizes == {s \in 1 .. SizeMod - 1 : PowerOf2(s)}

\* How many steps of the probe lead down from slot h to slot i.
Dist(t, h, i) == IF i <= h THEN h - i ELSE h + n_entries[t] - i

\* Between an insert that fills a map and the new table taking its place.
Growing(t) ==
  /\ t = tgt
  /\ \/ pc \in {"size", "rehash"} \cup Aborted
     \/ pc = "probe" /\ cur = Local

\* The types of the structs of balmap.h, of the locals of balmap.c that hold
\* numbers, and of the others.
TableTypeOK ==
  /\ used \in [Tables -> Nat] /\ capacity \in [Tables -> Nat]
  /\ n_entries \in [Tables -> Nat]
  /\ DOMAIN entries = Tables
  /\ \A t \in Tables : entries[t] \in [0 .. n_entries[t] - 1 -> Entry]

CounterTypeOK ==
  /\ srcUsed \in Nat /\ si \in Nat /\ minCap \in Nat /\ n \in Nat
  /\ gi \in Nat /\ slot \in Nat

TypeOK ==
  /\ TableTypeOK /\ CounterTypeOK
  /\ pc \in PCs /\ op \in Ops
  /\ tgt \in Tables /\ src \in Tables /\ cur \in Tables
  /\ key \in Key \cup {NullKey} /\ val \in Value
  /\ out \in Value \cup {Missing}

\* "used must be < capacity, capacity = LOAD_FACTOR * n_entries" (balmap.h:35):
\* through every growth and every spread, and at each step of them, only a map
\* whose own growth is in progress may be full to its capacity.
UsedBelowCapacity ==
  \A t \in Tables : Created(t) =>
    /\ capacity[t] = Cap(n_entries[t])
    /\ used[t] <= capacity[t]
    /\ used[t] = capacity[t] => Growing(t)

\* n_entries is "always a power of 2" (balmap.h:38): the masks of balmap.c:71
\* and :106 hash onto the whole table for no other size.
SizesArePowersOf2 == \A t \in Tables : Created(t) => PowerOf2(n_entries[t])

\* used (balmap.h:33) counts the slots in use, so the check that grows the
\* table can be trusted: overwrites do not count twice and a rehash loses
\* nothing.
UsedCountsEntries == \A t \in Tables : used[t] = Cardinality(Occupied(t))

\* Each key is found: no empty slot lies between the slot its hash leads to
\* and the slot it is in, nor the same key, so bal_map_lookup, which stops at
\* the first of those, returns the one value that was stored last.
KeysReachable ==
  \A t \in Tables : \A i \in Occupied(t) :
    LET h == Home(entries[t][i].key, t) IN
    \A j \in 0 .. n_entries[t] - 1 : Dist(t, h, j) < Dist(t, h, i) =>
      entries[t][j].key \notin {NullKey, entries[t][i].key}

\* A probe always has an empty slot ahead of it, in the stack table of a
\* growth too: the for (;;) of balmap.c:78 and :113 has no other way out for a
\* key that is absent.
ProbeHasEmptySlot ==
  pc \in {"probe", "find"} =>
    \E i \in 0 .. n_entries[cur] - 1 : entries[cur][i].key = NullKey

\* bal_map_insert(&nMap, ...) never fills nMap up to its own growth
\* (balmap.c:61, :95): that would recurse while the outer loop still copies.
NoNestedGrowth == pc # "nested"

\* An insert that grows a table asks for more than it holds: the abort of
\* balmap.c:51-54 is never the end of bal_map_create or bal_map_insert.
InsertNeverShrinks == pc = "shrink" => op = "spread"

\* "Capacity overflow!" (balmap.c:32-35) is said only when no table whose size
\* is a size_t holds what is asked for, a spread's sum (balmap.c:137-141) included.
OverflowOnlyWhenNothingFits ==
  pc = "overflow" =>
    \A s \in TableSizes :
      Cap(s) < minCap \/ (op = "spread" /\ Cap(s) < used[src] + used[tgt])

\* A call neither loses nor changes a field but the one it names, growth and
\* abort included: the table implements the abstract mapping.
FieldOf(m, k) ==
  IF k \in KeysOf(m)
    THEN entries[m][CHOOSE i \in Occupied(m) : entries[m][i].key = k].value
    ELSE Missing

AbstractStore == [m \in Map |-> [k \in Key |-> FieldOf(m, k)]]

\* An insert has taken effect once its key is in the map: what is left of the
\* call is the growth.
Answered == pc = "done" \/ (op = "insert" /\ ~(pc = "probe" /\ cur = tgt))

AbstractCall ==
  IF pc = "idle" THEN [op |-> "idle"]
  ELSE IF pc \in Aborted \cup {"nested"} THEN [op |-> "crashed"]
  ELSE IF Answered THEN [op |-> "return", value |-> out]
  ELSE IF op = "create" THEN [op |-> op, map |-> tgt]
  ELSE IF op = "lookup" THEN [op |-> op, map |-> tgt, key |-> key]
  ELSE IF op = "spread" THEN [op |-> op, map |-> tgt, source |-> src]
  ELSE [op |-> op, map |-> tgt, key |-> key, value |-> val]

Abstract == INSTANCE MapSpec WITH
  store <- AbstractStore, created <- {m \in Map : Created(m)}, call <- AbstractCall

\* The hash table implements the abstract mapping: lookups answer what the
\* last insert or spread stored, also when the table grew in between.
RefinesMapSpec == Abstract!Spec

\* Every call of the four functions returns or aborts: no probe, growth or
\* spread loop runs for ever (balmap.c:30, :59, :78, :113, :145).
CallsEnd == (pc \notin {"idle"} \cup Aborted) ~> (pc \in {"idle"} \cup Aborted)

\* What is left of a call.  A spread is at first before its growth; every call
\* is then in its loops, returns, and has ended.
Stage == CASE pc = "grow" -> 3
           [] pc \in {"size", "rehash", "probe", "find", "spread"} -> 2
           [] pc = "done" -> 1
           [] OTHER -> 0

\* The slots map_spread_field_init has still to visit.
ToSpread == IF op = "spread" /\ Stage = 2 THEN Left(srcUsed, si) ELSE 0

\* One insert or lookup probes, then finds the size of a table, then fills it.
Phase == CASE pc = "find" \/ (pc = "probe" /\ cur # Local) -> 4
           [] pc = "size" -> 3
           [] pc = "rehash" \/ (pc = "probe" /\ cur = Local) -> 2
           [] pc = "spread" -> 1
           [] OTHER -> 0

\* The sizes that fit a size_t, or the old slots, a growth has not tried yet.
ToGrow == IF Phase = 3 THEN Left(SizeMod, n)
          ELSE IF Phase = 2 THEN Left(n_entries[tgt], gi) ELSE 0

\* The slots a probe has not looked at, the one it is at included.
ToProbe == IF pc \in {"probe", "find"}
             THEN Left(n_entries[cur], Dist(cur, Home(key, cur), slot)) ELSE 0

CallMeasure == <<Stage, ToSpread, Phase, ToGrow, ToProbe>>

\* No loop of a call (balmap.c:30, :59, :78, :113, :145) goes back to where it
\* was: every step of a call, whatever the hash, the tables and the sizes, makes
\* less of what is left of it.
CallsShorten == [][pc # "idle" => Lower(CallMeasure', CallMeasure)]_vars

\* The slots of the source that the loop of map_spread_field_init is done with.
VisitedSlots ==
  {i \in Occupied(src) : i < IF pc = "probe" /\ cur = tgt THEN si - 1 ELSE si}

\* What a spread does give its target: the field of every slot it has visited,
\* with the source's value, whatever the target held before and however often
\* it grows on the way (balmap.c:137-151).
SpreadCopiesVisitedSlots ==
  op = "spread" /\ pc # "grow" =>
    \A i \in VisitedSlots :
      FieldOf(tgt, entries[src][i].key) = FieldOf(src, entries[src][i].key)

-----------------------------------------------------------------------------
(* What the tests and comments say of a spread, and the code does not do.   *)

\* test/map/init_map_spread_field.bal: `map<int> allMarks = {...boys};` gives
\* allMarks the fields of boys.
SpreadCopiesEveryField ==
  pc = "spread" /\ si = srcUsed => KeysOf(src) \subseteq KeysOf(tgt)

\* balmap.c:139 `abort(); // abort if size_t overflows` is the one abort a
\* spread announces beside those of the allocator: a spread never ends in
\* "Map shrinking is not supported!".
SpreadAbortsOnOverflowOnly == pc # "shrink"

-----------------------------------------------------------------------------
(* The inductive invariant behind the safety properties.                    *)

\* The part of a map's old slots that the growth has handed to nMap already.
HandedOver == {i \in Occupied(tgt) : i < IF pc = "probe" THEN gi - 1 ELSE gi}

\* Which maps a call names, and where its loops may be.
CallInv ==
  /\ op = "create" => tgt \in Map
  /\ op \in {"insert", "lookup", "spread"} => tgt \in Map /\ Created(tgt)
  /\ op = "spread" => src \in Map \ {tgt} /\ Created(src)
  /\ pc \in {"grow", "spread"} => op = "spread"
  /\ pc = "find" => op = "lookup" /\ cur = tgt
  /\ pc = "size" => op \in {"create", "insert", "spread"}
  /\ pc \in {"probe", "rehash"} => op \in {"insert", "spread"}
  /\ op = "spread" /\ pc \in {"size", "rehash", "probe", "spread"} =>
       si <= srcUsed /\ srcUsed <= n_entries[src]

\* The probe has met neither the key nor an empty slot on its way.
ProbeInv ==
  pc \in {"probe", "find"} =>
    /\ key \in Key /\ Created(cur) /\ slot < n_entries[cur]
    /\ pc = "probe" => cur \in {tgt, Local}
    /\ \A j \in 0 .. n_entries[cur] - 1 :
         Dist(cur, Home(key, cur), j) < Dist(cur, Home(key, cur), slot) =>
           entries[cur][j].key \notin {NullKey, key}

\* nMap is made for more keys than the map holds, and receives each once.
GrowInv ==
  /\ pc = "size" => n > 0 /\ minCap > 0
  /\ pc = "size" /\ op # "create" => minCap > used[tgt]
  /\ pc = "rehash" \/ (pc = "probe" /\ cur = Local) =>
       /\ Created(Local) /\ capacity[Local] >= minCap /\ minCap > used[tgt]
       /\ gi <= n_entries[tgt]
       /\ used[Local] <= Cardinality(HandedOver)
  /\ pc = "probe" /\ cur = Local => gi > 0 /\ gi - 1 \in Occupied(tgt)

\* The sizes the next table is tried with are powers of 2 that fit a size_t.
SizeInv ==
  /\ SizesArePowersOf2 /\ OverflowOnlyWhenNothingFits
  /\ pc = "size" => PowerOf2(n) /\ n < SizeMod

IInv ==
  /\ TypeOK /\ UsedBelowCapacity /\ UsedCountsEntries /\ KeysReachable
  /\ NoNestedGrowth /\ InsertNeverShrinks
  /\ CallInv /\ ProbeInv /\ GrowInv /\ SizeInv

-----------------------------------------------------------------------------
(* What the refinement needs beside it.                                     *)

\* At each step of a growth nMap has the fields of the slots handed to it so
\* far, each with its value in the map, and no other: whatever order the hash
\* puts them in, bal_map_insert(&nMap, ...) (balmap.c:59-63) drops none.
GrowthCopiesFields ==
  pc = "rehash" \/ (pc = "probe" /\ cur = Local) =>
    \A k \in Key :
      FieldOf(Local, k) = IF \E i \in HandedOver : entries[tgt][i].key = k
                          THEN FieldOf(tgt, k) ELSE Missing

\* What the calls in progress have in their locals: the entry a loop is at, and
\* an answer only for a lookup.
LocalsInv ==
  /\ out # Missing => pc = "done" /\ op = "lookup"
  /\ op = "create" /\ pc = "size" => ~Created(tgt)
  /\ pc = "probe" /\ cur = Local =>
       key = entries[tgt][gi - 1].key /\ val = entries[tgt][gi - 1].value
  /\ pc = "probe" /\ op = "spread" /\ cur = tgt =>
       si > 0 /\ key = entries[src][si - 1].key /\ FieldOf(src, key) = val

RefInv == IInv /\ GrowthCopiesFields /\ LocalsInv
=============================================================================
