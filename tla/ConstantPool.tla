---------------------------- MODULE ConstantPool ----------------------------
(***************************************************************************)
(* How the constant pool at the head of a BIR file is read                 *)
(* (ConstantPoolSet::read and the read methods of its entries).  A file is *)
(* a sequence of words, each with its width in bytes, its value and, for   *)
(* the properties, the name of the field it is.  The reader knows none of  *)
(* the widths: it reads what its methods say, and is lost as soon as they  *)
(* differ from what was written.  What a method has yet to read is a       *)
(* sequence of steps; a step that reads a count or a flag puts what        *)
(* depends on it in front of the rest.                                     *)
(***************************************************************************)
EXTENDS PoolLookup

CONSTANT Files  \* the inputs: each has words, and a module (BirReader) behind them

VARIABLES
  file,     \* the one that is compiled
  phase,    \* what the compiler is at: pool, module, code, done; or aborted, lost
  pos,      \* the words that were read
  ahead,    \* the bytes read of the entry since its length, if it has one
  left,     \* the entries still to be read
  entry,    \* the entry that is being read, or NoEntry
  todo,     \* the steps it has still to take
  pool      \* poolEntries

poolVars == <<pos, ahead, left, entry, todo, pool>>

-----------------------------------------------------------------------------
(* Steps.                                                                  *)

Step(op, w, f, body) == [op |-> op, w |-> w, field |-> f, body |-> body]
Keep(w, f) == Step("read", w, f, <<>>)
Skip(w) == Keep(w, "")
Index == Skip(4)                              \* of an entry nobody looks up
Each(f, body) == Step("each", 4, f, body)     \* a count, and a loop
IfSet(f, body) == Step("if", 1, f, body)      \* a flag that is not 0
IfClear(f, body) == Step("unless", 1, f, body)
Chars(f) == Step("chars", 4, "", <<Keep(0, f)>>)   \* a length, that many bytes

-----------------------------------------------------------------------------
(* The read methods.                                                       *)

TypeIdSet == <<Index, Index, Skip(1)>>
TypeId == <<Each("", TypeIdSet), Each("", TypeIdSet)>>
Markdown == <<Each("", <<Skip(4)>>)>>
ObjectField == <<Index, Skip(8)>> \o Markdown \o <<Index>>
ObjectAttachedFunction == <<Index, Skip(8), Index>>
TableFieldNameList == <<Each("", <<Index>>)>>
RecordField == <<Index, Skip(8)>> \o Markdown \o <<Index>>

InvokableShape ==
  <<IfClear("isAnyFunction",
      <<Each("paramCount", <<Keep(4, "params")>>),
        IfSet("hasRestType", <<Keep(4, "restTypeIndex")>>),
        Keep(4, "returnTypeIndex")>>)>>
ErrorShape == <<Index, Index, Index>> \o TypeId
StreamShape == <<Keep(4, "constraintTypeCpIndex"), IfSet("", <<Index>>)>>
ParameterizedShape == <<Index, Index>>
ObjectShape ==
  <<Skip(1), Index, Index, Skip(1), Skip(1), Each("", ObjectField),
    IfSet("", ObjectAttachedFunction), IfSet("", ObjectAttachedFunction),
    Each("", ObjectAttachedFunction), Each("", <<Index>>)>> \o TypeId
UnionShapeWithoutEnum ==
  <<Skip(1), IfSet("", <<Index, Index>>), Each("", <<Index>>), Each("", <<Index>>), Skip(1)>>
UnionShape ==
  <<Skip(1), IfSet("", <<Index, Index>>), Each("", <<Index>>), Each("", <<Index>>),
    IfSet("", <<Index, Index, Each("", <<Index>>)>>)>>
TupleShape == <<Each("", <<Index>>), IfSet("hasRestType", <<Index>>)>>
IntersectionShape == <<Each("", <<Index>>), Index>>
ConstraintShape == <<Keep(4, "constraintTypeCpIndex")>>
TableShape ==
  ConstraintShape \o <<IfSet("", TableFieldNameList), IfSet("", <<Index>>)>>
RecordShape ==
  <<Index, Index, Skip(1), Index, Each("", RecordField),
    IfSet("", ObjectAttachedFunction), Each("", <<Index>>)>>
FiniteShape == <<Index, Skip(8), Each("", <<Index, Chars("")>>)>>
ArrayShapeSwapped ==
  <<Keep(1, "state"), Keep(4, "elementTypeCpIndex"), Keep(4, "size")>>
ArrayShape == <<Keep(1, "state"), Keep(4, "size"), Keep(4, "elementTypeCpIndex")>>

PlainTags ==
  {"NIL", "INT", "BYTE", "FLOAT", "DECIMAL", "STRING", "BOOLEAN", "JSON", "ANYDATA", "ANY",
   "ENDPOINT", "PACKAGE", "NONE", "VOID", "XMLNS", "ANNOTATION", "SEMANTIC_ERROR", "ITERATOR",
   "SERVICE", "BYTE_ARRAY", "FUNCTION_POINTER", "HANDLE", "READONLY", "SIGNED32_INT",
   "SIGNED16_INT", "SIGNED8_INT", "UNSIGNED32_INT", "UNSIGNED16_INT", "UNSIGNED8_INT",
   "CHAR_STRING", "XML_ELEMENT", "XML_PI", "XML_COMMENT", "XML_TEXT", "NEVER", "NULL_SET"}

\* switch (typeTag); any other tag aborts the compiler.
BodyOf(t) ==
  CASE t = "INVOKABLE" -> InvokableShape
    [] t \in {"MAP", "TYPEDESC", "FUTURE", "XML"} -> ConstraintShape
    [] t = "ERROR" -> ErrorShape
    [] t = "STREAM" -> StreamShape
    [] t = "PARAMETERIZED_TYPE" -> ParameterizedShape
    [] t = "OBJECT" -> ObjectShape
    [] t = "UNION" -> UnionShape
    [] t = "TUPLE" -> TupleShape
    [] t = "INTERSECTION" -> IntersectionShape
    [] t = "TABLE" -> TableShape
    [] t = "RECORD" -> RecordShape
    [] t = "FINITE" -> FiniteShape
    [] t = "ARRAY" -> ArrayShape
    [] t \in PlainTags -> <<>>
    [] OTHER -> <<Step("abort", 0, "", <<>>)>>

ShapeHeader == <<Step("length", 4, "shapeLength", <<>>), Step("switch", 1, "typeTag", <<>>)>>
AfterTypeTag(t) == <<Keep(4, "nameIndex"), Skip(8), Skip(4)>> \o BodyOf(t)

EntryOf(tag) ==
  CASE tag = "INTEGER" -> <<Keep(8, "value")>>
    [] tag = "FLOAT" -> <<Keep(8, "value")>>
    [] tag = "BOOLEAN" -> <<Keep(1, "value")>>
    [] tag = "STRING" -> <<Chars("value")>>
    [] tag = "PACKAGE" -> <<Keep(4, "orgIndex"), Keep(4, "nameIndex"), Keep(4, "versionIndex")>>
    [] tag = "BYTE" -> <<Keep(4, "value")>>
    [] OTHER -> ShapeHeader

KnownTags == {"INTEGER", "FLOAT", "BOOLEAN", "STRING", "PACKAGE", "BYTE", "SHAPE"}

-----------------------------------------------------------------------------
(* Reading.                                                                *)

Words == file.words
Word == Words[pos + 1]
CanRead(w) == pos < Len(Words) /\ Word.w = w

\* The steps that step s, which read v, puts in front of the others.
After(s, v) ==
  CASE s.op = "each" -> [k \in 1 .. v * Len(s.body) |-> s.body[((k - 1) % Len(s.body)) + 1]]
    [] s.op = "if" -> IF v # 0 THEN s.body ELSE <<>>
    [] s.op = "unless" -> IF v = 0 THEN s.body ELSE <<>>
    [] s.op = "chars" -> <<Keep(v, s.body[1].field)>>
    [] s.op = "switch" -> AfterTypeTag(v)
    [] OTHER -> <<>>

KeptAs(kept, f, v) ==
  [g \in DOMAIN kept \cup {f} |->
     IF g # f THEN kept[g] ELSE IF f \in DOMAIN kept THEN Append(kept[f], v) ELSE <<v>>]

InitPool ==
  /\ file \in Files /\ phase = "pool"
  /\ pos = 0 /\ ahead = 0 /\ left = 0
  /\ entry = NoEntry /\ todo = <<>> /\ pool = <<>>

\* constantPoolEntries
ReadEntryCount ==
  /\ phase = "pool" /\ pos = 0
  /\ left' = Word.v /\ pos' = 1
  /\ UNCHANGED <<file, phase, ahead, entry, todo, pool>>

Between == phase = "pool" /\ pos > 0 /\ todo = <<>>

\* Of an entry with an unknown tag the byte of the tag is skipped, no more.
ReadTag ==
  /\ Between /\ entry = NoEntry /\ left > 0
  /\ IF CanRead(1)
     THEN /\ pos' = pos + 1 /\ left' = left - 1
          /\ IF Word.v \in KnownTags
             THEN entry' = [tag |-> Word.v, kept |-> NothingKept] /\ todo' = EntryOf(Word.v)
             ELSE UNCHANGED <<entry, todo>>
          /\ UNCHANGED <<file, phase, ahead, pool>>
     ELSE phase' = "lost" /\ UNCHANGED <<file, poolVars>>

\* One read of an entry's read method.
ReadField ==
  /\ phase = "pool" /\ todo # <<>>
  /\ LET s == todo[1]
     IN  IF s.op # "abort" /\ CanRead(s.w)
         THEN /\ pos' = pos + 1
              /\ ahead' = IF s.op = "length" THEN 0 ELSE ahead + s.w
              /\ todo' = After(s, Word.v) \o Tail(todo)
              /\ entry' = IF s.field = "" THEN entry
                          ELSE [entry EXCEPT !.kept = KeptAs(entry.kept, s.field, Word.v)]
              /\ UNCHANGED <<file, phase, left, pool>>
         ELSE /\ phase' = IF s.op = "abort" THEN "aborted" ELSE "lost"
              /\ UNCHANGED <<file, poolVars>>

PushBack ==
  /\ Between /\ entry # NoEntry
  /\ pool' = Append(pool, entry) /\ entry' = NoEntry
  /\ UNCHANGED <<file, phase, pos, ahead, left, todo>>

EndPool ==
  /\ Between /\ entry = NoEntry /\ left = 0
  /\ phase' = "module"
  /\ UNCHANGED <<file, poolVars>>

PoolNext == ReadEntryCount \/ ReadTag \/ ReadField \/ PushBack \/ EndPool
=============================================================================
