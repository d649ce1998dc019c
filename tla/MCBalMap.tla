------------------------------ MODULE MCBalMap ------------------------------
(* Small instances of BalMap.  With INITIAL_SIZE = HASH_TABLE_MIN_SIZE = 2    *)
(* a new map has 4 slots and holds 1 key; it grows to 8 slots, then to 16.    *)
EXTENDS BalMapProperties, TLC

CONSTANTS a, b, c, d, e

\* One home in a 4-slot table for a, b and c; c moves in an 8-slot table; d and
\* e share slot 0 until there are 16, where their probe wraps.
HashOf == (a :> 1) @@ (b :> 1) @@ (c :> 5) @@ (d :> 0) @@ (e :> 8)
MCHash == [k \in Key |-> HashOf[k]]

\* The low bits of bal_string_hash of "Jake" and "Steve", the fields of
\* test/map/init_map_spread_field.bal, for keys a and b.
TestHashOf == (a :> 608) @@ (b :> 812)
TestHash == [k \in Key |-> TestHashOf[k]]
=============================================================================
