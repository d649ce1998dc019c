----------------------------- MODULE PoolLookup -----------------------------
(***************************************************************************)
(* A constant pool that was read, and the look-ups the readers make in it  *)
(* (ConstantPoolSet, compiler/reader/ConstantPool.cpp).  An entry has a    *)
(* tag and the fields that its read method kept, each the sequence of the  *)
(* values read for it.  The assertions of the getters are not compiled in: *)
(* an entry of another kind, a field that was not read and an index past   *)
(* the end give Garbage.                                                   *)
(***************************************************************************)
EXTENDS Integers, Sequences

CONSTANT Garbage

NothingKept == [f \in {} |-> <<>>]
NoEntry == [tag |-> Garbage, kept |-> NothingKept]

getEntryFromOne(cp, index) == IF index \in 1 .. Len(cp) THEN cp[index] ELSE NoEntry
getEntry(cp, index) == IF index \in 0 .. Len(cp) - 1 THEN cp[index + 1] ELSE NoEntry
Field(e, f) == IF f \in DOMAIN e.kept THEN e.kept[f][1] ELSE Garbage
FieldAt(cp, index, tag, f) ==
  IF getEntry(cp, index).tag = tag THEN Field(getEntry(cp, index), f) ELSE Garbage

getStringCp(cp, index) == FieldAt(cp, index, "STRING", "value")
getIntCp(cp, index) == FieldAt(cp, index, "INTEGER", "value")
getByteCp(cp, index) == FieldAt(cp, index, "BYTE", "value")
getFloatCp(cp, index) == FieldAt(cp, index, "FLOAT", "value")
getBooleanCp(cp, index) == FieldAt(cp, index, "BOOLEAN", "value")
getTypeTag(cp, index) == FieldAt(cp, index, "SHAPE", "typeTag")

\* A type: its tag and name, its members' tag if it has members, its size and
\* state if it is an array.
Type(tag, name, member, extent) ==
  [tag |-> tag, name |-> name, member |-> member, extent |-> extent]

\* An anonymous type gets a random name.
NameOf(s) == IF s = "" THEN "anon" ELSE s

getTypeCp(cp, index) ==
  LET shape(f) == FieldAt(cp, index, "SHAPE", f)
      tag == shape("typeTag")
      name == NameOf(getStringCp(cp, shape("nameIndex")))
  IN  CASE tag = "MAP" ->
             Type(tag, name, getTypeTag(cp, shape("constraintTypeCpIndex")), <<>>)
        [] tag = "ARRAY" ->
             Type(tag, name, getTypeTag(cp, shape("elementTypeCpIndex")),
                  <<shape("size"), shape("state")>>)
        [] OTHER -> Type(tag, name, "none", <<>>)

\* paramCount is a field of its own; params is the list it announced.
getInvocableType(cp, index) ==
  LET e == getEntry(cp, index)
      shape(f) == FieldAt(cp, index, "SHAPE", f)
      params == IF "params" \in DOMAIN e.kept THEN e.kept["params"] ELSE <<>>
  IN  IF shape("paramCount") # Len(params) THEN Garbage
      ELSE [params |-> [i \in 1 .. Len(params) |-> getTypeCp(cp, params[i])],
            ret |-> getTypeCp(cp, shape("returnTypeIndex")),
            rest |-> IF shape("hasRestType") = 0 THEN <<>>
                     ELSE <<getTypeCp(cp, shape("restTypeIndex"))>>]
=============================================================================
