------------------------------ MODULE CodeGen ------------------------------
(***************************************************************************)
(* The LLVM module that is made of a package (PackageCodeGen,              *)
(* FunctionCodeGen, BasicBlockCodeGen, TerminatorInsnCodeGen): its globals *)
(* and functions, of each function the allocas, the stores of its          *)
(* arguments and the basic blocks with their code.  What the code of an    *)
(* instruction does is EmittedCode's matter; here it is one item with the  *)
(* variables it uses.  A null pointer that is used crashes the compiler;   *)
(* where the code says llvm_unreachable, or looks into an optional or a    *)
(* vector that does not hold what it looks for, nothing is known any more. *)
(***************************************************************************)
EXTENDS BirReader

VARIABLES
  llvmGlobals,    \* the module's variables
  llvmFunctions,  \* its functions
  current         \* llvmFunction, an index of llvmFunctions

codeVars == <<llvmGlobals, llvmFunctions, current>>
Null == <<>>

\* getLLVMTypeOfType
HasLLVMType(tag) ==
  tag \in {"INT", "FLOAT", "BOOLEAN", "BYTE", "CHAR_STRING", "STRING", "MAP", "NIL", "ANY",
           "ANYDATA", "UNION", "ARRAY", "TYPEDESC"}
LLVMType(tag) ==
  CASE tag \in {"INT", "TYPEDESC"} -> "i64"
    [] tag = "FLOAT" -> "double"
    [] tag = "BOOLEAN" -> "i1"
    [] tag = "BYTE" -> "i8"
    [] tag \in {"CHAR_STRING", "STRING"} -> "string*"
    [] tag \in {"MAP", "NIL", "ANY", "ANYDATA", "UNION"} -> "i8*"
    [] tag = "ARRAY" -> "array*"

isMainFunction(f) == f.name = "main"
isExternalFunction(f) == (f.flags \div NativeFlag) % 2 = 1
getRetValType(f) == IF isMainFunction(f) THEN "void"
                    ELSE LLVMType(f.returnVar[1].type.tag)
Declarable(f) ==
  /\ \A i \in DOMAIN f.params : HasLLVMType(f.params[i].type.tag)
  /\ isMainFunction(f) \/ (f.returnVar # <<>> /\ HasLLVMType(f.returnVar[1].type.tag))
Declared(f) ==
  [name |-> f.name, params |-> [i \in DOMAIN f.params |-> LLVMType(f.params[i].type.tag)],
   ret |-> getRetValType(f), allocas |-> <<>>, stored |-> <<>>, first |-> Null,
   blocks |-> <<>>]

\* The first or, in a map that is written again, the last of a name.
First(P) == CHOOSE i \in P : \A h \in P : i <= h
Last(P) == CHOOSE i \in P : \A h \in P : i >= h

FunctionsNamed(name) == {i \in DOMAIN llvmFunctions : llvmFunctions[i].name = name}
F == functions.items[n]
B == F.blocks.items[k + 1]
L == llvmFunctions[current]
WithL(l) == [llvmFunctions EXCEPT ![current] = l]

\* getBasicBlock
BlocksNamed(id) == {i \in DOMAIN L.blocks : L.blocks[i].id = id}
getBasicBlock(id) == IF BlocksNamed(id) = {} THEN Null ELSE <<Last(BlocksNamed(id))>>

getLocalVal(name) == IF \E i \in DOMAIN L.allocas : L.allocas[i].name = name
                     THEN <<"local", name>> ELSE Null
getValOfLocal(o) == getLocalVal(o.name)
getLocalOrGlobalVal(o) ==
  IF o.kind # "GLOBAL" THEN getLocalVal(o.name)
  ELSE IF \E i \in DOMAIN llvmGlobals : llvmGlobals[i].name = o.name
       THEN <<"global", o.name>> ELSE Null
Vals(os) == [i \in DOMAIN os |-> getLocalOrGlobalVal(os[i])]

\* getFunctionRef: from the instruction to its block to the function, if the
\* two pointers lead to objects that are still there.
BlocksAt(a) == UNION {{functions.items[f].blocks.items[b] : b \in
                          {c \in 1 .. functions.items[f].blocks.len :
                              Address(functions.items[f].blocks, c) = a}} :
                       f \in 1 .. functions.len}
FunctionsOf(i) ==
  {functions.items[f] : f \in {g \in 1 .. functions.len :
      \E b \in BlocksAt(i.bb) : Address(functions, g) = b.parent}}
getFunctionRef(i) == CHOOSE f \in FunctionsOf(i) : TRUE
VariableNamed(vs, name) == vs[First({v \in DOMAIN vs : vs[v].name = name})]
getLocalOrGlobalVariable(f, o) ==
  VariableNamed(IF o.kind = "GLOBAL" THEN globals ELSE f.locals, o.name)

InitCode == llvmGlobals = <<>> /\ llvmFunctions = <<>> /\ current = 0

Emitting(place) == phase = "code" /\ at = place
Input == <<file, poolVars, readerVars>>
Fail(how) == phase' = how /\ UNCHANGED <<at, counters, codeVars, Input>>

-----------------------------------------------------------------------------
(* PackageCodeGen::visit.                                                  *)

DefineGlobal ==
  /\ Emitting("globals") /\ k < Len(globals)
  /\ LET v == globals[k + 1]
     IN  IF ~HasLLVMType(v.type.tag) THEN Fail("undefined")
         ELSE /\ llvmGlobals' =
                   Append(llvmGlobals, [name |-> v.name, type |-> LLVMType(v.type.tag)])
              /\ k' = k + 1
              /\ UNCHANGED <<at, n, j, phase, llvmFunctions, current, Input>>

EndGlobals ==
  /\ Emitting("globals") /\ k = Len(globals) /\ Goto("declare")
  /\ UNCHANGED <<n, j, phase, codeVars, Input>>

DeclareFunction ==
  /\ Emitting("declare") /\ k < functions.len
  /\ IF ~Declarable(functions.items[k + 1]) THEN Fail("undefined")
     ELSE /\ llvmFunctions' = Append(llvmFunctions, Declared(functions.items[k + 1]))
          /\ k' = k + 1
          /\ UNCHANGED <<at, n, j, phase, llvmGlobals, current, Input>>

EndDeclarations ==
  /\ Emitting("declare") /\ k = functions.len /\ Goto("bodies")
  /\ UNCHANGED <<n, j, phase, codeVars, Input>>

StartBodyInPlace ==
  /\ Emitting("bodies") /\ n < functions.len
  /\ IF isExternalFunction(functions.items[n + 1])
     THEN UNCHANGED <<at, n, k, current>>
     ELSE n' = n + 1 /\ current' = First(FunctionsNamed(functions.items[n + 1].name))
          /\ Goto("allocas")
  /\ UNCHANGED <<j, phase, llvmGlobals, llvmFunctions, Input>>

\* The body of an external function is not translated.
StartBody ==
  /\ Emitting("bodies") /\ n < functions.len
  /\ n' = n + 1
  /\ IF isExternalFunction(functions.items[n + 1])
     THEN UNCHANGED <<at, k, current>>
     ELSE current' = First(FunctionsNamed(functions.items[n + 1].name)) /\ Goto("allocas")
  /\ UNCHANGED <<j, phase, llvmGlobals, llvmFunctions, Input>>

EndCode ==
  /\ Emitting("bodies") /\ n = functions.len
  /\ phase' = "done"
  /\ UNCHANGED <<at, counters, codeVars, Input>>

-----------------------------------------------------------------------------
(* FunctionCodeGen::visit.                                                 *)

\* A local variable of kind ARG gets the next argument.
AllocateLocal ==
  /\ Emitting("allocas") /\ k < Len(F.locals)
  /\ LET v == F.locals[k + 1]
         l == [L EXCEPT !.allocas = Append(@, [name |-> v.name, type |-> LLVMType(v.type.tag)])]
     IN  IF ~HasLLVMType(v.type.tag) \/ (v.kind = "ARG" /\ Len(L.stored) = Len(F.params))
         THEN Fail("undefined")
         ELSE /\ llvmFunctions' =
                   WithL(IF v.kind = "ARG" THEN [l EXCEPT !.stored = Append(@, v.name)] ELSE l)
              /\ k' = k + 1
              /\ UNCHANGED <<at, n, j, phase, llvmGlobals, current, Input>>

EndAllocas ==
  /\ Emitting("allocas") /\ k = Len(F.locals) /\ Goto("create")
  /\ UNCHANGED <<n, j, phase, codeVars, Input>>

CreateBlock ==
  /\ Emitting("create") /\ k < F.blocks.len
  /\ llvmFunctions' = WithL([L EXCEPT !.blocks =
                        Append(@, [id |-> B.id, code |-> <<>>, ends |-> <<>>])])
  /\ k' = k + 1
  /\ UNCHANGED <<at, n, j, phase, llvmGlobals, current, Input>>

BranchToFirst ==
  /\ Emitting("create") /\ k = F.blocks.len /\ Goto("visit") /\ j' = 0
  /\ llvmFunctions' = IF F.blocks.len = 0 THEN llvmFunctions
                      ELSE WithL([L EXCEPT !.first = getBasicBlock(F.blocks.items[1].id)])
  /\ UNCHANGED <<n, phase, llvmGlobals, current, Input>>

EndBody ==
  /\ Emitting("visit") /\ k = F.blocks.len /\ Goto("bodies")
  /\ UNCHANGED <<n, j, phase, codeVars, Input>>

-----------------------------------------------------------------------------
(* BasicBlockCodeGen::visit: the instructions, then the terminator.        *)

WithCode(b, items, ends) ==
  WithL([L EXCEPT !.blocks[b] = [id |-> @.id, code |-> @.code \o items, ends |-> @.ends \o ends]])
Here == Last(BlocksNamed(B.id))
Item(i) == [op |-> i.kind, lhs |-> getLocalOrGlobalVal(i.lhs), rhs |-> Vals(i.rhs),
            with |-> IF i.kind = "call" THEN i.callee ELSE i.literal]
End(op, val, blocks) == [op |-> op, val |-> val, to |-> blocks]
Targets(i) == [b \in DOMAIN i.to |-> getBasicBlock(i.to[b])]

\* What a visitor can make code of: the visit methods' switches over the types
\* of their operands, with getNameOfType, checkMapSupport and createBalValue.
\* NonTerminatorInsnCodeGen has no visit method for a type test.
NamedTags == {"INT", "FLOAT", "BYTE", "STRING", "BOOLEAN", "ANY", "UNION", "ANYDATA"}
BalValues == {"ANY", "UNION", "ANYDATA"}
HasCode(kind, lhs, rhs) ==
  /\ kind # "type_test"
  /\ kind = "new_structure" => lhs.tag = "MAP" /\ lhs.member = "INT"
  /\ kind = "map_store" => lhs.member = "INT"
  /\ kind = "map_load" => rhs[2].member = "INT"
  /\ kind = "new_array" => lhs.member \in NamedTags
  /\ kind = "array_load" => lhs.tag \in NamedTags
  /\ kind = "array_store" => rhs[2].tag \in NamedTags
  /\ kind = "type_cast" /\ rhs[1].tag \in BalValues =>
       lhs.tag \in BalValues \cup {"BOOLEAN", "INT"}
  /\ kind \in {"add", "sub", "mul", "div", "mod", "gt", "ge", "lt", "le", "ne"} =>
       rhs[1].tag \in {"INT", "FLOAT"}
  /\ kind = "eq" => rhs[1].tag \in {"INT", "FLOAT", "NIL"}

\* A nil for the variable that main returns is left out: main returns nothing.
LoadsNil(i) == i.kind = "const_load" /\ i.literal[1] = "NIL"
LoadsMainsNil(i) ==
  LoadsNil(i) /\ \E f \in FunctionsOf(i) :
    isMainFunction(f) /\ f.returnVar # <<>> /\ f.returnVar[1].name = i.lhs.name
IsVisited(i) == i.kind # "type_test"
IsSupported(i) ==
  LET f == getFunctionRef(i)
      type(o) == getLocalOrGlobalVariable(f, o).type
  IN  /\ HasCode(i.kind, type(i.lhs), [r \in DOMAIN i.rhs |-> type(i.rhs[r])])
      /\ LoadsNil(i) /\ isMainFunction(f) => f.returnVar # <<>>
Code(i) == IF LoadsMainsNil(i) THEN <<>> ELSE <<Item(i)>>

UsesNull(i) == \/ getLocalOrGlobalVal(i.lhs) = Null
               \/ \E r \in DOMAIN i.rhs : getLocalOrGlobalVal(i.rhs[r]) = Null
AsksItsFunction(i) == /\ i.kind \notin {"goto", "cond_br", "call", "move", "not", "neg"}
                      /\ i.kind = "const_load" => LoadsNil(i)
HitsNull(i) ==
  /\ i.kind # "type_test"
  /\ \/ i.kind \notin {"goto", "return"} /\ ~LoadsMainsNil(i) /\ UsesNull(i)
     \/ i.kind \in {"goto", "cond_br"} /\ \E b \in DOMAIN i.to : getBasicBlock(i.to[b]) = Null
     \/ i.kind = "call" /\ FunctionsNamed(i.callee) = {}
     \/ AsksItsFunction(i) /\ FunctionsOf(i) = {}

EmitInsn ==
  /\ Emitting("visit") /\ k < F.blocks.len /\ j < Len(B.insns)
  /\ LET i == B.insns[j + 1]
     IN  IF HitsNull(i) THEN Fail("crashed")
         ELSE IF ~IsSupported(i) THEN Fail("undefined")
         ELSE /\ llvmFunctions' = WithCode(Here, Code(i), <<>>)
              /\ j' = j + 1
              /\ UNCHANGED <<at, n, k, phase, llvmGlobals, current, Input>>

\* main returns nothing, any other function what its return variable holds.
ReturnVal(i) ==
  LET f == getFunctionRef(i)
  IN  IF isMainFunction(f) THEN <<"void">> ELSE getLocalVal(f.returnVar[1].name)
Emitted(i) ==
  CASE i.kind = "return" -> WithCode(Here, <<>>, <<End("ret", ReturnVal(i), <<>>)>>)
    [] i.kind = "goto" -> WithCode(Here, <<>>, <<End("br", Null, Targets(i))>>)
    [] i.kind = "cond_br" ->
         WithCode(Here, <<>>, <<End("br", getLocalOrGlobalVal(i.lhs), Targets(i))>>)
    [] OTHER -> WithCode(Here, <<Item(i)>>, IF Targets(i)[1] = Null THEN <<>>
                                            ELSE <<End("br", Null, Targets(i))>>)

EmitTerminator ==
  /\ Emitting("visit") /\ k < F.blocks.len /\ j = Len(B.insns)
  /\ IF B.terminator # <<>> /\ \/ HitsNull(B.terminator[1])
                               \/ B.terminator[1].kind = "return" /\ ReturnVal(B.terminator[1]) = Null
     THEN Fail("crashed")
     ELSE /\ llvmFunctions' = IF B.terminator = <<>> THEN llvmFunctions
                              ELSE Emitted(B.terminator[1])
          /\ k' = k + 1 /\ j' = 0
          /\ UNCHANGED <<at, n, phase, llvmGlobals, current, Input>>

GenNext ==
  \/ DefineGlobal \/ EndGlobals \/ DeclareFunction \/ EndDeclarations \/ StartBody \/ EndCode
  \/ AllocateLocal \/ EndAllocas \/ CreateBlock \/ BranchToFirst \/ EndBody
  \/ EmitInsn \/ EmitTerminator
=============================================================================
