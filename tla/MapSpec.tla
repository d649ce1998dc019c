------------------------------ MODULE MapSpec ------------------------------
(***************************************************************************)
(* What a Ballerina mapping promises to the code that the compiler emits:  *)
(* the four entry points of balmap.h on plain functions from keys to       *)
(* values, with no table, slot or size in sight.  A call is invoked, takes *)
(* effect (a spread: one field at a time) and returns; a call that cannot  *)
(* get the memory it needs may crash the program, and nothing else may.    *)
(***************************************************************************)

CONSTANTS Map, Key, Value, Missing

VARIABLES
  store,     \* store[m][k]: the value of field k of mapping m, or Missing
  created,   \* the mappings bal_map_create has returned
  call       \* the call in progress, or Idle or Crashed

vars == <<store, created, call>>

Idle == [op |-> "idle"]
Crashed == [op |-> "crashed"]
Returning(v) == [op |-> "return", value |-> v]

Calls ==
  [op : {"create"}, map : Map \ created]
    \cup [op : {"insert"}, map : created, key : Key, value : Value]
    \cup [op : {"lookup"}, map : created, key : Key]
    \cup {c \in [op : {"spread"}, map : created, source : created] : c.map # c.source}

Init ==
  /\ store = [m \in Map |-> [k \in Key |-> Missing]]
  /\ created = {}
  /\ call = Idle

Invoke ==
  /\ call = Idle
  /\ call' \in Calls
  /\ UNCHANGED <<store, created>>

Create ==
  /\ call.op = "create"
  /\ created' = created \cup {call.map}
  /\ call' = Returning(Missing)
  /\ UNCHANGED store

Put ==
  /\ call.op = "insert"
  /\ store' = [store EXCEPT ![call.map][call.key] = call.value]
  /\ call' = Returning(Missing)
  /\ UNCHANGED created

Get ==
  /\ call.op = "lookup"
  /\ call' = Returning(store[call.map][call.key])
  /\ UNCHANGED <<store, created>>

CopyField(k) ==
  /\ call.op = "spread"
  /\ store[call.source][k] # Missing
  /\ store' = [store EXCEPT ![call.map][k] = store[call.source][k]]
  /\ UNCHANGED <<created, call>>

SpreadEnd ==
  /\ call.op = "spread"
  /\ call' = Returning(Missing)
  /\ UNCHANGED <<store, created>>

Return ==
  /\ call.op = "return"
  /\ call' = Idle
  /\ UNCHANGED <<store, created>>

\* A lookup allocates nothing: it is the one call that cannot crash.  An
\* insert may crash after its effect, while the table grows.
Crash ==
  /\ call.op \in {"create", "insert", "spread", "return"}
  /\ call' = Crashed
  /\ UNCHANGED <<store, created>>

Next ==
  \/ Invoke \/ Create \/ Put \/ Get \/ SpreadEnd \/ Return \/ Crash
  \/ \E k \in Key : CopyField(k)

Spec == Init /\ [][Next]_vars
=============================================================================
