----------------------------- MODULE BirReader -----------------------------
(***************************************************************************)
(* How the module behind the constant pool becomes the package the code    *)
(* generator visits (BIRReadPackage, BIRReadFunction, BIRReadBasicBlock,   *)
(* BIRReadInsn).  Module says what stands there: names, types and          *)
(* literals as indexes of the pool, what the reader skips left out.  The   *)
(* functions and their blocks lie in vectors; a block points to its        *)
(* function, an instruction to its block.                                  *)
(***************************************************************************)
EXTENDS ConstantPool, Vector

CONSTANT SpecialNames   \* those that begin with .<init>, .<start>, .<stop>, or a dot and one of these

IsSeq(s) == s \in Seq({s[i] : i \in DOMAIN s})

\* A function as the front end writes it: of lists, with no more defaults than
\* there are names.
IsText(t) ==
  /\ IsSeq(t.required) /\ IsSeq(t.defaults) /\ Len(t.defaults) <= Len(t.required)
  /\ IsSeq(t.locals) /\ IsSeq(t.defaultBlocks) /\ IsSeq(t.blocks) /\ t.flags \in Int
  /\ \A b \in DOMAIN t.blocks :
       /\ IsSeq(t.blocks[b].insns)
       /\ \A i \in DOMAIN t.blocks[b].insns : IsSeq(t.blocks[b].insns[i].to)
  /\ \A b \in DOMAIN t.defaultBlocks : IsSeq(t.defaultBlocks[b].insns)
ASSUME FilesAssumption ==
  \A x \in Files :
    LET m == x.module
    IN  /\ Len(x.words) \in Nat /\ IsSeq(m.globals) /\ IsSeq(m.attached) /\ IsSeq(m.functions)
        /\ \A i \in DOMAIN m.attached : IsText(m.attached[i])
        /\ \A i \in DOMAIN m.functions : IsText(m.functions[i])

VARIABLES
  at,         \* where the reader, later the code generator, is
  n, k, j,    \* the functions, the items and the instructions it has done there
  fresh,      \* the buffers that were allocated
  queue,      \* functionParams
  package,    \* org, name, version, and the source file set last
  globals,    \* globalVars
  functions   \* functions

readerVars == <<fresh, queue, package, globals, functions>>
counters == <<n, k, j>>

NativeFlag == 2
Terminators == {"goto", "return", "cond_br", "call"}
Operators == {"add", "sub", "mul", "div", "mod", "eq", "ne", "gt", "ge", "lt", "le", "xor",
              "neg", "not"}
Supported ==
  Terminators \cup Operators \cup
  {"new_typedesc", "new_structure", "const_load", "move", "type_cast", "type_test",
   "new_array", "array_store", "array_load", "map_store", "map_load"}

Module == file.module
Attached == Len(Module.attached)
Texts == Attached + Len(Module.functions)
TextOf(i) == IF i <= Attached THEN Module.attached[i] ELSE Module.functions[i - Attached]
Text == TextOf(n)
String(index) == getStringCp(pool, index)
TypeOfIndex(index) == getTypeCp(pool, index)
Named(v) == [name |-> String(v.name), type |-> TypeOfIndex(v.type), kind |-> v.kind]

NewFunction(t) ==
  [name |-> String(t.name), worker |-> String(t.worker), flags |-> t.flags,
   returnVar |-> <<>>, params |-> <<>>, locals |-> <<>>, blocks |-> EmptyVector]
NewBlock(b) ==
  [id |-> String(b.name), parent |-> Address(functions, functions.len),
   insns |-> <<>>, terminator |-> <<>>]

Function == Back(functions)
Block == Back(Function.blocks)
WithBlocks(bs) == WithBack(functions, [Function EXCEPT !.blocks = bs])

InitModule ==
  /\ at = "package" /\ n = 0 /\ k = 0 /\ j = 0 /\ fresh = 0
  /\ queue = <<>> /\ globals = <<>> /\ functions = EmptyVector
  /\ package = [org |-> "", name |-> "", version |-> "", file |-> ""]

Reading(place) == phase = "module" /\ at = place
Goto(place) == at' = place /\ k' = 0
Unread == UNCHANGED <<file, phase, poolVars>>

-----------------------------------------------------------------------------
(* The package.                                                            *)

ReadPackageId ==
  /\ Reading("package") /\ Goto("globals")
  /\ LET id == getEntry(pool, Module.id)
     IN  package' = IF id.tag # "PACKAGE" THEN package
                    ELSE [package EXCEPT !.org = String(Field(id, "orgIndex")),
                                         !.name = String(Field(id, "nameIndex")),
                                         !.version = String(Field(id, "versionIndex"))]
  /\ UNCHANGED <<n, j, fresh, queue, globals, functions>> /\ Unread

ReadGlobalVar ==
  /\ Reading("globals") /\ k < Len(Module.globals)
  /\ globals' = Append(globals, Named(Module.globals[k + 1]))
  /\ k' = k + 1
  /\ UNCHANGED <<at, n, j, fresh, queue, package, functions>> /\ Unread

ReserveNoFunctions ==
  /\ Reading("attached") /\ n = Attached /\ Goto("functions")
  /\ UNCHANGED <<n, j, readerVars>> /\ Unread

\* The functions of the types are read before the reserve, each for itself.
ReserveFunctions ==
  /\ Reading("attached") /\ n = Attached /\ Goto("functions")
  /\ functions' = Reserve(functions, Len(Module.functions), fresh + 1)
  /\ fresh' = fresh + 1
  /\ UNCHANGED <<n, j, queue, package, globals>> /\ Unread

EndModule ==
  /\ Reading("functions") /\ n = Texts
  /\ phase' = "code" /\ Goto("globals") /\ n' = 0
  /\ UNCHANGED <<j, readerVars, file, poolVars>>

-----------------------------------------------------------------------------
(* readFunction.                                                           *)

StartFunction ==
  /\ \/ Reading("attached") /\ n < Attached
     \/ Reading("functions") /\ n < Texts
  /\ LET t == TextOf(n + 1)
     IN  IF getInvocableType(pool, t.type) = Garbage
         THEN phase' = "crashed" /\ UNCHANGED <<file, poolVars, at, counters, readerVars>>
         ELSE /\ functions' = EmplaceBack(functions, NewFunction(t), fresh + 1)
              /\ package' = [package EXCEPT !.file = String(t.file)]
              /\ n' = n + 1 /\ fresh' = fresh + 1 /\ queue' = <<>> /\ Goto("params")
              /\ UNCHANGED <<j, globals>> /\ Unread

ReadParam ==
  /\ Reading("params") /\ k < Len(Text.required)
  /\ queue' = Append(queue, String(Text.required[k + 1]))
  /\ k' = k + 1
  /\ UNCHANGED <<at, n, j, fresh, package, globals, functions>> /\ Unread

ReadReturnVar ==
  /\ Reading("return") /\ Goto("defaults")
  /\ functions' = IF Text.returnVar = <<>> THEN functions
                  ELSE WithBack(functions,
                         [Function EXCEPT !.returnVar = <<Named(Text.returnVar[1])>>])
  /\ UNCHANGED <<n, j, fresh, queue, package, globals>> /\ Unread

Front(q) == IF q = <<>> THEN Garbage ELSE Head(q)
PoppedAtTheBack(q) == IF q = <<>> THEN q ELSE SubSeq(q, 1, Len(q) - 1)
Popped(q) == IF q = <<>> THEN q ELSE Tail(q)
ReadDefault ==
  /\ Reading("defaults") /\ k < Len(Text.defaults)
  /\ LET p == [name |-> Front(queue), type |-> TypeOfIndex(Text.defaults[k + 1])]
     IN  functions' = WithBack(functions, [Function EXCEPT !.params = Append(@, p)])
  /\ queue' = Popped(queue) /\ k' = k + 1
  /\ UNCHANGED <<at, n, j, fresh, package, globals>> /\ Unread

ReadLocalVar ==
  /\ Reading("locals") /\ k < Len(Text.locals)
  /\ functions' = WithBack(functions,
                    [Function EXCEPT !.locals = Append(@, Named(Text.locals[k + 1]))])
  /\ k' = k + 1
  /\ UNCHANGED <<at, n, j, fresh, queue, package, globals>> /\ Unread

\* The loops of readModule and readFunction that end without more ado.
Items == CASE at = "globals" -> Module.globals
           [] at = "params" -> Text.required
           [] at = "defaults" -> Text.defaults
           [] OTHER -> Text.locals
Following == [globals |-> "attached", params |-> "return",
              defaults |-> "locals", locals |-> "default blocks"]
EndLoop ==
  /\ phase = "module" /\ at \in DOMAIN Following /\ k = Len(Items)
  /\ Goto(Following[at])
  /\ UNCHANGED <<n, j, readerVars>> /\ Unread

ReserveBlocks ==
  /\ Reading("default blocks") /\ k = Len(Text.defaultBlocks) /\ Goto("blocks")
  /\ functions' = WithBlocks(Reserve(Function.blocks, Len(Text.blocks), fresh + 1))
  /\ fresh' = fresh + 1
  /\ UNCHANGED <<n, j, queue, package, globals>> /\ Unread

IgnoredByName == Function.name \in SpecialNames
\* A function of a type is not kept, nor one with a special name.
Ignored == n <= Attached \/ Function.name \in SpecialNames
EndFunction ==
  /\ Reading("blocks") /\ k = Len(Text.blocks)
  /\ functions' = IF Ignored THEN PopBack(functions) ELSE functions
  /\ Goto(IF n <= Attached THEN "attached" ELSE "functions")
  /\ UNCHANGED <<n, j, fresh, queue, package, globals>> /\ Unread

-----------------------------------------------------------------------------
(* readBasicBlock.  The blocks of default values are not kept.             *)

BlockTexts == IF at \in {"default blocks", "default insns"} THEN Text.defaultBlocks
              ELSE Text.blocks
BlockText == BlockTexts[k + 1]

StartBlock ==
  /\ Reading("default blocks") \/ Reading("blocks")
  /\ k < Len(BlockTexts)
  /\ functions' = WithBlocks(EmplaceBack(Function.blocks, NewBlock(BlockText), fresh + 1))
  /\ at' = IF at = "blocks" THEN "insns" ELSE "default insns"
  /\ j' = 0 /\ fresh' = fresh + 1
  /\ UNCHANGED <<n, k, queue, package, globals>> /\ Unread

\* What a loop until the vector has as many blocks as the file would do.
EndBlockUncounted ==
  /\ Reading("default insns") \/ Reading("insns")
  /\ j = Len(BlockText.insns)
  /\ functions' = IF at = "insns" THEN functions ELSE WithBlocks(PopBack(Function.blocks))
  /\ at' = IF at = "insns" THEN "blocks" ELSE "default blocks"
  /\ k' = IF at = "insns" THEN k + 1 ELSE k
  /\ UNCHANGED <<n, j, fresh, queue, package, globals>> /\ Unread

EndBlock ==
  /\ Reading("default insns") \/ Reading("insns")
  /\ j = Len(BlockText.insns)
  /\ functions' = IF at = "insns" THEN functions ELSE WithBlocks(PopBack(Function.blocks))
  /\ at' = IF at = "insns" THEN "blocks" ELSE "default blocks"
  /\ k' = k + 1
  /\ UNCHANGED <<n, j, fresh, queue, package, globals>> /\ Unread

-----------------------------------------------------------------------------
(* readInsn.  An operand that is not there has no name and no kind.        *)

NoOperand == [name |-> "", kind |-> "NONE"]
OperandOf(o) == [name |-> String(o.name), kind |-> o.kind]
Operands(os) == [i \in DOMAIN os |-> OperandOf(os[i])]

IntTags == {"INT", "UNSIGNED8_INT", "UNSIGNED16_INT", "UNSIGNED32_INT", "SIGNED8_INT",
            "SIGNED16_INT", "SIGNED32_INT", "DECIMAL"}
ConstTags == IntTags \cup {"BYTE", "BOOLEAN", "FLOAT", "CHAR_STRING", "STRING", "NIL"}
\* The tag the instruction is built with, and the value.
Literal(tag, v) ==
  CASE tag \in IntTags -> <<"INT", getIntCp(pool, v)>>
    [] tag = "BYTE" -> <<"BYTE", getByteCp(pool, v)>>
    [] tag = "BOOLEAN" -> <<"BOOLEAN", v # 0>>
    [] tag = "FLOAT" -> <<"FLOAT", getFloatCp(pool, v)>>
    [] tag \in {"CHAR_STRING", "STRING"} -> <<"STRING", String(v)>>
    [] OTHER -> <<"NIL">>

\* The right-hand sides the instruction is built with: of a type test none,
\* of a new array the size but not the initial values.
Built(i) == CASE i.kind = "type_test" -> <<>>
              [] i.kind = "new_array" -> SubSeq(i.rhs, 1, 1)
              [] OTHER -> i.rhs
InsnOf(i) ==
  [kind |-> i.kind, bb |-> Address(Function.blocks, Function.blocks.len),
   lhs |-> IF i.lhs = <<>> THEN NoOperand ELSE OperandOf(i.lhs[1]),
   rhs |-> Operands(Built(i)),
   literal |-> IF i.kind = "const_load" THEN Literal(getTypeTag(pool, i.type), i.value) ELSE "none",
   to |-> [b \in DOMAIN i.to |-> String(i.to[b])],
   callee |-> IF i.kind = "call" THEN String(i.value) ELSE ""]

Unsupported(i) ==
  \/ i.kind \notin Supported
  \/ i.kind = "const_load" /\ getTypeTag(pool, i.type) \notin ConstTags
WithInsn(i) ==
  CASE i.kind = "new_typedesc" -> Block
    [] i.kind \in Terminators -> [Block EXCEPT !.terminator = <<InsnOf(i)>>]
    [] OTHER -> [Block EXCEPT !.insns = Append(@, InsnOf(i))]

ReadInsn ==
  /\ Reading("default insns") \/ Reading("insns")
  /\ j < Len(BlockText.insns)
  /\ LET i == BlockText.insns[j + 1]
     IN  IF Unsupported(i)
         THEN phase' = "aborted" /\ UNCHANGED <<file, poolVars, at, counters, readerVars>>
         ELSE /\ functions' = WithBlocks(WithBack(Function.blocks, WithInsn(i)))
              /\ j' = j + 1
              /\ UNCHANGED <<at, n, k, fresh, queue, package, globals>> /\ Unread

ReaderNext ==
  \/ ReadPackageId \/ ReadGlobalVar \/ EndLoop \/ ReserveFunctions \/ EndModule
  \/ StartFunction \/ ReadParam \/ ReadReturnVar \/ ReadDefault \/ ReadLocalVar
  \/ StartBlock \/ ReadInsn \/ EndBlock \/ ReserveBlocks \/ EndFunction
=============================================================================
