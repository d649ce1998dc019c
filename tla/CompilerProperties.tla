------------------------- MODULE CompilerProperties -------------------------
(* What must hold of the compiler.                                         *)
EXTENDS Compiler, FiniteSets, Measure

\* ConstantPoolSet::read: when entry i of the pool has been read, it is entry i
\* of the file, and each field it keeps has the values written for that field.
PoolIsAsWritten ==
  pool # <<>> =>
    LET i == Len(pool)
        e == file.entries[i]
        written(f) == SelectSeq(e.words, LAMBDA x : x.f = f)
    IN  /\ pool[i].tag = e.tag
        /\ \A f \in DOMAIN pool[i].kept :
             pool[i].kept[f] = [h \in DOMAIN written(f) |-> written(f)[h].v]

\* ShapeCpInfo::read: shapeLength goes unused; the bytes that are read without
\* it, count by count and flag by flag, are as many as it says, for every type.
EveryShapeEndsWhereItsLengthSays ==
  /\ phase # "lost"
  /\ (entry.tag = "SHAPE" /\ todo = <<>>) => ahead = Field(entry, "shapeLength")

\* readFunction, readBasicBlock: the block an instruction refers to and the
\* function a block points to are the ones that hold it; no vector has moved
\* them since, whatever was read and dropped in between.
PointersAreLive ==
  \A f \in 1 .. functions.len : \A b \in 1 .. functions.items[f].blocks.len :
    LET bs == functions.items[f].blocks
        Refers(i) == i.bb = Address(bs, b)
    IN  /\ bs.items[b].parent = Address(functions, f)
        /\ \A i \in DOMAIN bs.items[b].insns : Refers(bs.items[b].insns[i])
        /\ \A i \in DOMAIN bs.items[b].terminator : Refers(bs.items[b].terminator[i])

\* readFunction: the names wait in a queue for their types; the i-th parameter
\* has the i-th name and the i-th type.
ParamsKeepTheirOrder ==
  (phase = "module" /\ n > 0 /\ at \notin {"attached", "functions"}) =>
    \A i \in DOMAIN Function.params :
      Function.params[i] = [name |-> String(Text.required[i]),
                            type |-> TypeOfIndex(Text.defaults[i])]

-----------------------------------------------------------------------------
(* The LLVM module as a function of what stands in the file.               *)

\* The items of s at the places P, in their order.
Rank(P, i) == Cardinality({h \in P : h <= i})
NthOf(P, r) == CHOOSE i \in P : Rank(P, i) = r
Selected(s, P) == [r \in 1 .. Cardinality(P) |-> s[NthOf(P, r)]]

\* The functions that are translated: not those of types, nor the special ones.
KeptAt == {i \in DOMAIN Module.functions : String(Module.functions[i].name) \notin SpecialNames}
Kept == Selected(Module.functions, KeptAt)

TypeAt(index) == LLVMType(TypeOfIndex(index).tag)
ValOf(o) == <<IF o.kind = "GLOBAL" THEN "global" ELSE "local", String(o.name)>>
BlockOf(t, index) ==
  CHOOSE b \in DOMAIN t.blocks : String(t.blocks[b].name) = String(index)
ItemOf(i) ==
  [op |-> i.kind, lhs |-> ValOf(i.lhs[1]),
   rhs |-> [r \in DOMAIN Built(i) |-> ValOf(Built(i)[r])],
   with |-> CASE i.kind = "call" -> String(i.value)
              [] i.kind = "const_load" -> Literal(getTypeTag(pool, i.type), i.value)
              [] OTHER -> "none"]
EndOf(t, i) ==
  IF i.kind = "return"
  THEN End("ret", IF String(t.name) = "main" THEN <<"void">>
                  ELSE <<"local", String(t.returnVar[1].name)>>, <<>>)
  ELSE End("br", IF i.kind = "cond_br" THEN ValOf(i.lhs[1]) ELSE Null,
           [b \in DOMAIN i.to |-> <<BlockOf(t, i.to[b])>>])

\* The instructions that the reader keeps, a call among them, though it ends its
\* block; and those of them that become code: no type test does, nor a nil for
\* the variable that main returns.
KeptInsns(b) ==
  {i \in DOMAIN b.insns : b.insns[i].kind \notin {"new_typedesc", "goto", "return", "cond_br"}}
IsNil(i) == i.kind = "const_load" /\ Literal(getTypeTag(pool, i.type), i.value)[1] = "NIL"
IsMainsNil(t, i) == /\ IsNil(i) /\ String(t.name) = "main" /\ t.returnVar # <<>>
                    /\ String(t.returnVar[1].name) = String(i.lhs[1].name)
CodeAt(t, s) == {r \in DOMAIN s : s[r].kind # "type_test" /\ ~IsMainsNil(t, s[r])}
BlockCode(t, b) ==
  LET kept == Selected(b.insns, KeptInsns(b))
      code == Selected(kept, CodeAt(t, kept))
  IN  [id |-> String(b.name), code |-> [r \in DOMAIN code |-> ItemOf(code[r])],
       ends |-> <<EndOf(t, b.insns[Len(b.insns)])>>]

IsNative(t) == t.flags % 4 \in {2, 3}
ArgsAt(t) == {i \in DOMAIN t.locals : t.locals[i].kind = "ARG"}
Allocas(t) == [i \in DOMAIN t.locals |-> [name |-> String(t.locals[i].name),
                                         type |-> TypeAt(t.locals[i].type)]]
Stored(t, P) == LET args == Selected(t.locals, P)
                IN  [r \in DOMAIN args |-> String(args[r].name)]

\* A function with what stands in its body.
With(t, allocas, stored, first, blocks) ==
  [name |-> String(t.name), params |-> [i \in DOMAIN t.defaults |-> TypeAt(t.defaults[i])],
   ret |-> IF String(t.name) = "main" THEN "void" ELSE TypeAt(t.returnVar[1].type),
   allocas |-> allocas, stored |-> stored, first |-> first, blocks |-> blocks]
Translated(t) ==
  IF IsNative(t) THEN With(t, <<>>, <<>>, Null, <<>>)
  ELSE With(t, Allocas(t), Stored(t, ArgsAt(t)), <<1>>,
            [b \in DOMAIN t.blocks |-> BlockCode(t, t.blocks[b])])

\* The LLVM module has the functions of the file's module in their order, but
\* for those of types and the special ones; each native one is declared only,
\* each other one has all its blocks, every instruction in its place, and ends
\* each block once, in the blocks the file names.
CodeIsTheProgram ==
  phase = "done" => llvmFunctions = [r \in DOMAIN Kept |-> Translated(Kept[r])]

\* What the code generator has a type and a visit method for.
HasType(index) == HasLLVMType(TypeOfIndex(index).tag)
TypeOfOperand(t, o) ==
  LET vs == IF o.kind = "GLOBAL" THEN Module.globals ELSE t.locals
  IN  TypeOfIndex(vs[First({v \in DOMAIN vs : String(vs[v].name) = String(o.name)})].type)
InsnIsTranslatable(t, i) ==
  /\ HasCode(i.kind, TypeOfOperand(t, i.lhs[1]),
             [r \in DOMAIN Built(i) |-> TypeOfOperand(t, Built(i)[r])])
  /\ IsNil(i) /\ String(t.name) = "main" => t.returnVar # <<>>
BodyIsTranslatable(t) ==
  /\ \A v \in DOMAIN t.locals : HasType(t.locals[v].type)
  /\ \A b \in DOMAIN t.blocks : \A i \in DOMAIN t.blocks[b].insns :
       InsnIsTranslatable(t, t.blocks[b].insns[i])
IsTranslatable ==
  /\ \A g \in DOMAIN Module.globals : HasType(Module.globals[g].type)
  /\ \A r \in DOMAIN Kept :
       /\ \A p \in DOMAIN Kept[r].defaults : HasType(Kept[r].defaults[p])
       /\ \/ String(Kept[r].name) = "main"
          \/ (Kept[r].returnVar # <<>> /\ HasType(Kept[r].returnVar[1].type))
       /\ IsNative(Kept[r]) \/ BodyIsTranslatable(Kept[r])

\* createTempVal, getBasicBlock, Module::getFunction, getFunctionRef: whatever
\* the code generator looks up is there, also when it is declared further on;
\* and accept, the visit methods, getLLVMTypeOfType: it runs into what has no
\* code only in a file that has something of that kind in what it keeps.
NothingIsMissing == phase # "crashed" /\ (phase = "undefined" => ~IsTranslatable)

-----------------------------------------------------------------------------
(* What the front end sees to before it writes a file, of what the code    *)
(* generator supports nothing: that is IsTranslatable.                     *)

Knows(t, o) ==
  IF o.kind = "GLOBAL"
  THEN \E g \in DOMAIN Module.globals : String(Module.globals[g].name) = String(o.name)
  ELSE \E v \in DOMAIN t.locals : String(t.locals[v].name) = String(o.name)
InsnIsWellFormed(t, i) ==
  /\ i.kind \notin {"new_typedesc", "goto", "return"} =>
       i.lhs # <<>> /\ Knows(t, i.lhs[1]) /\ \A r \in DOMAIN Built(i) : Knows(t, Built(i)[r])
  /\ i.kind \in {"goto", "cond_br", "call"} =>
       /\ i.to # <<>>
       /\ \A d \in DOMAIN i.to :
            \E b \in DOMAIN t.blocks : String(t.blocks[b].name) = String(i.to[d])
  /\ i.kind = "call" => \E r \in DOMAIN Kept : String(Kept[r].name) = String(i.value)
  /\ i.kind = "return" /\ String(t.name) # "main" =>
       \E v \in DOMAIN t.locals : String(t.locals[v].name) = String(t.returnVar[1].name)
BlockIsWellFormed(t, b) ==
  /\ b.insns # <<>>
  /\ \A i \in DOMAIN b.insns :
       (b.insns[i].kind \in Terminators <=> i = Len(b.insns)) /\ InsnIsWellFormed(t, b.insns[i])
BodyIsWellFormed(t) ==
  /\ t.blocks # <<>> /\ Cardinality(ArgsAt(t)) <= Len(t.defaults)
  /\ \A b, c \in DOMAIN t.blocks : String(t.blocks[b].name) = String(t.blocks[c].name) => b = c
  /\ \A b \in DOMAIN t.blocks : BlockIsWellFormed(t, t.blocks[b])

\* BIRReadFunction, TerminatorInsnCodeGen: a function has the type of a function
\* and a name of its own; what is used is declared, somewhere; a block ends with
\* a terminator and has no other; only main returns nothing.
ProgramIsWellFormed ==
  phase \in {"module", "code"} =>
    /\ \A i \in 1 .. Texts : getInvocableType(pool, TextOf(i).type) # Garbage
    /\ \A r, s \in DOMAIN Kept : String(Kept[r].name) = String(Kept[s].name) => r = s
    /\ \A r \in DOMAIN Kept :
         /\ String(Kept[r].name) # "main" => Kept[r].returnVar # <<>>
         /\ IsNative(Kept[r]) \/ BodyIsWellFormed(Kept[r])

-----------------------------------------------------------------------------
(* What is left of the compilation, from the pass down to the instruction. *)

Compiling == phase \in {"pool", "module", "code"}
StageOf(p) == CASE p = "pool" -> 3 [] p = "module" -> 2 [] OTHER -> 1
Rounds == CASE phase = "pool" -> Left(Len(Words) + 1, pos)
            [] phase = "module" -> Left(Texts, n)
            [] OTHER -> Left(functions.len, n)
PlaceOf(p) == CASE p = "package" -> 9
                [] p = "globals" -> 8
                [] p \in {"params", "declare"} -> 7
                [] p = "return" -> 6
                [] p = "defaults" -> 5
                [] p = "locals" -> 4
                [] p \in {"default blocks", "default insns", "allocas"} -> 3
                [] p \in {"blocks", "insns", "create"} -> 2
                [] p \in {"attached", "visit"} -> 1
                [] OTHER -> 0
Place == IF phase # "pool" THEN PlaceOf(at) ELSE IF entry = NoEntry THEN 0 ELSE 1
ItemsAt == CASE at = "globals" -> Len(Module.globals)
             [] at = "declare" -> functions.len
             [] at = "params" -> Len(Text.required)
             [] at = "defaults" -> Len(Text.defaults)
             [] at = "locals" -> Len(Text.locals)
             [] at \in {"default blocks", "default insns", "blocks", "insns"} -> Len(BlockTexts)
             [] at = "allocas" -> Len(F.locals)
             [] at \in {"create", "visit"} -> F.blocks.len
             [] OTHER -> 0
Entering == IF at \in {"default blocks", "blocks"} THEN 1 ELSE 0
InsnsAt == CASE at \in {"default insns", "insns"} -> Len(BlockText.insns)
             [] at = "visit" /\ k < F.blocks.len -> Len(B.insns)
             [] OTHER -> 0
CompilerMeasure ==
  IF Compiling THEN <<StageOf(phase), Rounds, Place, Left(ItemsAt, k), Entering, Left(InsnsAt, j)>>
  ELSE <<0, 0, 0, 0, 0, 0>>

\* ConstantPoolSet::read, readModule, readFunction, readBasicBlock and the visit
\* methods: each of their loops counts towards a bound that no step inside it
\* moves, so no step is the same or an earlier one again.
CompilationShortens == [][Lower(CompilerMeasure', CompilerMeasure)]_vars

\* Every loop over a count of the file ends: the compiler aborts at what it
\* cannot read, or ends with a module exactly if there is code for everything it
\* keeps; in no other case is it known what it does.
CompilationEnds ==
  <>\/ phase = "aborted"
    \/ phase = "done" /\ IsTranslatable
    \/ phase = "undefined" /\ ~IsTranslatable
=============================================================================
