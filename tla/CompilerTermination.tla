------------------------ MODULE CompilerTermination ------------------------
(***************************************************************************)
(* The compiler has only so many steps to make, for every file, also of a  *)
(* program that is not well-formed: each step makes CompilerMeasure lower, *)
(* and it is six natural numbers.                                          *)
(***************************************************************************)
EXTENDS CodeProof

USE DEF BeforeFunctions, BeforeBlocks, InFunction, Reading, Goto, Unread, poolVars, readerVars,
        counters, Emitting, Input, codeVars

-----------------------------------------------------------------------------
(* The counters.                                                           *)

\* What the counters count.
Counting ==
  /\ pos \in Nat /\ n \in Nat /\ k \in Nat /\ j \in Nat
  /\ at = "default insns" => k < Len(Text.defaultBlocks)
  /\ phase = "code" => at \in {"globals", "declare", "bodies"} \cup InBody
  /\ phase = "code" /\ at \in InBody => n \in 1 .. functions.len

LEMMA OneMore == \A x \in Nat : x + 1 \in Nat
OBVIOUS

LEMMA CountingFacts ==
  ASSUME Counting
  PROVE  /\ pos \in Nat /\ n \in Nat /\ k \in Nat /\ j \in Nat
         /\ pos + 1 \in Nat /\ n + 1 \in Nat /\ k + 1 \in Nat /\ j + 1 \in Nat
<1>1. pos \in Nat /\ n \in Nat /\ k \in Nat /\ j \in Nat
  BY DEF Counting
<1> QED BY <1>1, OneMore

LEMMA InitCounting == Init => Counting
<1> SUFFICES ASSUME Init PROVE Counting
  OBVIOUS
<1>1. pos = 0 /\ n = 0 /\ k = 0 /\ j = 0 /\ at = "package" /\ phase = "pool"
  BY DEF Init, InitPool, InitModule
<1>2. 0 \in Nat
  OBVIOUS
<1> QED BY <1>1, <1>2, Zenon DEF Counting

LEMMA EndLoopPlaces ==
  ASSUME EndLoop
  PROVE  /\ phase = "module" /\ UNCHANGED <<phase, n, j, file, functions>>
         /\ \/ at = "globals" /\ at' = "attached"
            \/ at = "params" /\ at' = "return"
            \/ at = "defaults" /\ at' = "locals"
            \/ at = "locals" /\ at' = "default blocks"
<1>1. /\ phase = "module" /\ UNCHANGED <<phase, n, j, file, functions>>
      /\ at \in {"globals", "params", "defaults", "locals"} /\ at' = Following[at]
  BY DEF EndLoop, Following
<1>2. /\ Following["globals"] = "attached" /\ Following["params"] = "return"
      /\ Following["defaults"] = "locals" /\ Following["locals"] = "default blocks"
  BY DEF Following
<1> QED BY <1>1, <1>2

LEMMA CountingPool ==
  Counting /\ PoolNext /\ UNCHANGED <<at, counters, readerVars, codeVars>> => Counting'
<1> SUFFICES ASSUME Counting, PoolNext, UNCHANGED <<at, n, k, j, functions>>
             PROVE  Counting'
  BY DEF counters, readerVars
<1>0. pos \in Nat /\ pos + 1 \in Nat /\ 1 \in Nat
  BY CountingFacts
<1>1. file' = file /\ pos' \in Nat /\ phase' # "code"
  <2>1. CASE ReadEntryCount
    BY <1>0, <2>1 DEF ReadEntryCount
  <2>2. CASE ReadTag
    BY <1>0, <2>2 DEF ReadTag, Between
  <2>3. CASE ReadField
    BY <1>0, <2>3, Zenon DEF ReadField
  <2>4. CASE PushBack \/ EndPool
    BY <1>0, <2>4 DEF PushBack, EndPool, Between
  <2> QED BY <2>1, <2>2, <2>3, <2>4 DEF PoolNext
<1>2. Text' = Text
  BY <1>1 DEF Text, TextOf, Attached, Module
<1> QED BY <1>1, <1>2 DEF Counting

LEMMA CountingReader == IInv /\ Counting /\ ReaderNext => Counting'
<1> SUFFICES ASSUME IInv, Counting, ReaderNext PROVE Counting'
  OBVIOUS
<1>0. /\ pos \in Nat /\ n \in Nat /\ k \in Nat /\ j \in Nat /\ k + 1 \in Nat /\ j + 1 \in Nat
      /\ n + 1 \in Nat
      /\ at = "default insns" => k < Len(Text.defaultBlocks)
      /\ 0 \in Nat
  <2>1. at = "default insns" => k < Len(Text.defaultBlocks)
    BY DEF Counting
  <2> QED BY <2>1, CountingFacts
<1>1. file' = file /\ pos' = pos
  BY DEF ReaderNext, ReadPackageId, ReadGlobalVar, EndLoop, ReserveFunctions, EndModule,
         StartFunction, ReadParam, ReadReturnVar, ReadDefault, ReadLocalVar, StartBlock,
         ReadInsn, EndBlock, ReserveBlocks, EndFunction
<1>2. n' = n => Text' = Text
  BY <1>1 DEF Text, TextOf, Attached, Module
<1>3. n' \in Nat /\ k' \in Nat /\ j' \in Nat
  BY <1>0, Zenon DEF ReaderNext, ReadPackageId, ReadGlobalVar, EndLoop, ReserveFunctions, EndModule,
         StartFunction, ReadParam, ReadReturnVar, ReadDefault, ReadLocalVar, StartBlock,
         ReadInsn, EndBlock, ReserveBlocks, EndFunction
<1>4. at' = "default insns" => k' < Len(Text'.defaultBlocks)
  <2>1. CASE StartBlock
    BY <1>2, <2>1 DEF StartBlock, BlockTexts
  <2>2. CASE ReadInsn
    BY <1>0, <1>2, <2>2 DEF ReadInsn
  <2>3. CASE EndLoop
    BY <2>3, EndLoopPlaces
  <2>4. CASE ~(StartBlock \/ ReadInsn \/ EndLoop)
    BY <1>0, <1>2, <2>4
       DEF ReaderNext, ReadPackageId, ReadGlobalVar, ReserveFunctions, EndModule,
         StartFunction, ReadParam, ReadReturnVar, ReadDefault, ReadLocalVar, EndBlock,
         ReserveBlocks, EndFunction
  <2> QED BY <2>1, <2>2, <2>3, <2>4
<1>5. phase' = "code" => at' = "globals"
  BY DEF ReaderNext, ReadPackageId, ReadGlobalVar, EndLoop, ReserveFunctions, EndModule,
         StartFunction, ReadParam, ReadReturnVar, ReadDefault, ReadLocalVar, StartBlock,
         ReadInsn, EndBlock, ReserveBlocks, EndFunction
<1> QED BY <1>0, <1>1, <1>3, <1>4, <1>5 DEF Counting, InBody

LEMMA CountingGen == IInv /\ Counting /\ GenNext => Counting'
<1> SUFFICES ASSUME IInv, Counting, GenNext PROVE Counting'
  OBVIOUS
<1>0. /\ pos \in Nat /\ n \in Nat /\ k \in Nat /\ j \in Nat /\ k + 1 \in Nat /\ j + 1 \in Nat
      /\ n + 1 \in Nat /\ functions.len \in Nat
      /\ at \in {"globals", "declare", "bodies"} \cup InBody
      /\ at \in InBody => n \in 1 .. functions.len
  <2>1. phase = "code" /\ functions.len \in Nat
    BY GenLeavesInput DEF IInv, GoodFunctions
  <2>2. /\ at \in {"globals", "declare", "bodies"} \cup InBody
        /\ at \in InBody => n \in 1 .. functions.len
    BY <2>1, Zenon DEF Counting
  <2> QED BY <2>1, <2>2, CountingFacts
<1>1. pos' = pos /\ functions' = functions
  BY GenLeavesInput DEF GenNext, DefineGlobal, EndGlobals, DeclareFunction, EndDeclarations, StartBody, EndCode,
         AllocateLocal, EndAllocas, CreateBlock, BranchToFirst, EndBody, EmitInsn, EmitTerminator, Fail
<1>2. n' \in Nat /\ k' \in Nat /\ j' \in Nat
  BY <1>0 DEF GenNext, DefineGlobal, EndGlobals, DeclareFunction, EndDeclarations, StartBody,
         EndCode, AllocateLocal, EndAllocas, CreateBlock, BranchToFirst, EndBody, EmitInsn,
         EmitTerminator, Fail
<1>3. /\ at' \in {"globals", "declare", "bodies"} \cup InBody
      /\ at' \in InBody => n' \in 1 .. functions.len
  <2>1. CASE StartBody
    <3>1. n < functions.len => n + 1 \in 1 .. functions.len
      BY <1>0
    <3> QED BY <1>0, <2>1, <3>1 DEF StartBody, InBody
  <2>2. CASE ~StartBody
    <3>1. n' = n \/ at' \notin InBody
      BY <2>2 DEF GenNext, DefineGlobal, EndGlobals, DeclareFunction, EndDeclarations, EndCode,
         AllocateLocal, EndAllocas, CreateBlock, BranchToFirst, EndBody, EmitInsn,
         EmitTerminator, Fail
    <3>2. /\ at' \in {"globals", "declare", "bodies"} \cup InBody
          /\ at' \in InBody => at \in InBody
      BY <1>0, <2>2 DEF GenNext, DefineGlobal, EndGlobals, DeclareFunction, EndDeclarations, EndCode,
         AllocateLocal, EndAllocas, CreateBlock, BranchToFirst, EndBody, EmitInsn,
         EmitTerminator, Fail, InBody
    <3> QED BY <1>0, <3>1, <3>2
  <2> QED BY <2>1, <2>2
<1>4. at' # "default insns"
  BY <1>3 DEF InBody
<1> QED BY <1>0, <1>1, <1>2, <1>3, <1>4 DEF Counting

LEMMA StepCounting == IInv /\ Counting /\ [Next]_vars => Counting'
<1> SUFFICES ASSUME IInv, Counting, [Next]_vars PROVE Counting'
  OBVIOUS
<1>1. CASE UNCHANGED vars
  <2>1. UNCHANGED <<file, phase, pos, at, n, k, j, functions>>
    BY <1>1 DEF vars
  <2>2. Text' = Text
    BY <2>1 DEF Text, TextOf, Attached, Module
  <2> QED BY <2>1, <2>2 DEF Counting
<1> QED BY <1>1, CountingPool, CountingReader, CountingGen DEF Next

-----------------------------------------------------------------------------
(* The measure.                                                            *)

\* Lower on measures of six numbers, spelled out.
LEMMA LowerBy ==
  ASSUME NEW a, NEW b, NEW c, NEW d, NEW e, NEW f,
         NEW u, NEW v, NEW w, NEW x, NEW y, NEW z,
         \/ u < a
         \/ u = a /\ v < b
         \/ u = a /\ v = b /\ w < c
         \/ u = a /\ v = b /\ w = c /\ x < d
         \/ u = a /\ v = b /\ w = c /\ x = d /\ y < e
         \/ u = a /\ v = b /\ w = c /\ x = d /\ y = e /\ z < f
  PROVE  Lower(<<u, v, w, x, y, z>>, <<a, b, c, d, e, f>>)
<1> DEFINE r == <<u, v, w, x, y, z>>
           q == <<a, b, c, d, e, f>>
<1>1. DOMAIN q = 1 .. 6
  OBVIOUS
<1>2. /\ r[1] = u /\ r[2] = v /\ r[3] = w /\ r[4] = x /\ r[5] = y /\ r[6] = z
      /\ q[1] = a /\ q[2] = b /\ q[3] = c /\ q[4] = d /\ q[5] = e /\ q[6] = f
  OBVIOUS
<1>3. /\ \A i \in 1 .. 1 - 1 : FALSE
      /\ \A i \in 1 .. 2 - 1 : i = 1
      /\ \A i \in 1 .. 3 - 1 : i = 1 \/ i = 2
      /\ \A i \in 1 .. 4 - 1 : i = 1 \/ i = 2 \/ i = 3
      /\ \A i \in 1 .. 5 - 1 : i = 1 \/ i = 2 \/ i = 3 \/ i = 4
      /\ \A i \in 1 .. 6 - 1 : i = 1 \/ i = 2 \/ i = 3 \/ i = 4 \/ i = 5
  OBVIOUS
<1>4. /\ 1 \in DOMAIN q /\ 2 \in DOMAIN q /\ 3 \in DOMAIN q
      /\ 4 \in DOMAIN q /\ 5 \in DOMAIN q /\ 6 \in DOMAIN q
  BY <1>1
<1> HIDE DEF r, q
<1>5. ASSUME u < a PROVE Lower(r, q)
  BY <1>2, <1>3, <1>4, <1>5 DEF Lower
<1>6. ASSUME u = a /\ v < b PROVE Lower(r, q)
  BY <1>2, <1>3, <1>4, <1>6 DEF Lower
<1>7. ASSUME u = a /\ v = b /\ w < c PROVE Lower(r, q)
  BY <1>2, <1>3, <1>4, <1>7 DEF Lower
<1>8. ASSUME u = a /\ v = b /\ w = c /\ x < d PROVE Lower(r, q)
  BY <1>2, <1>3, <1>4, <1>8, Zenon DEF Lower
<1>9. ASSUME u = a /\ v = b /\ w = c /\ x = d /\ y < e PROVE Lower(r, q)
  BY <1>2, <1>3, <1>4, <1>9, Zenon DEF Lower
<1>10. ASSUME u = a /\ v = b /\ w = c /\ x = d /\ y = e /\ z < f PROVE Lower(r, q)
  BY <1>2, <1>3, <1>4, <1>10, Zenon DEF Lower
<1>11. Lower(r, q)
  BY <1>5, <1>6, <1>7, <1>8, <1>9, <1>10
<1> QED BY <1>11 DEF r, q

\* One more round of a loop leaves less of it.
LEMMA LeftLess ==
  ASSUME NEW m \in Nat, NEW i \in Nat, i < m
  PROVE  Left(m, i + 1) < Left(m, i)
BY DEF Left

LEMMA LeftNat ==
  ASSUME NEW m \in Nat, NEW i \in Nat
  PROVE  Left(m, i) \in Nat
BY DEF Left

LEMMA StagesFall ==
  /\ StageOf("pool") = 3 /\ StageOf("module") = 2 /\ StageOf("code") = 1
  /\ 3 > 2 /\ 2 > 1 /\ 1 > 0
BY DEF StageOf

LEMMA PlacesFall ==
  /\ PlaceOf("package") = 9 /\ PlaceOf("globals") = 8
  /\ PlaceOf("params") = 7 /\ PlaceOf("declare") = 7
  /\ PlaceOf("return") = 6 /\ PlaceOf("defaults") = 5 /\ PlaceOf("locals") = 4
  /\ PlaceOf("default blocks") = 3 /\ PlaceOf("default insns") = 3 /\ PlaceOf("allocas") = 3
  /\ PlaceOf("blocks") = 2 /\ PlaceOf("insns") = 2 /\ PlaceOf("create") = 2
  /\ PlaceOf("attached") = 1 /\ PlaceOf("visit") = 1
  /\ PlaceOf("functions") = 0 /\ PlaceOf("bodies") = 0
BY DEF PlaceOf

LEMMA PlacesInOrder ==
  /\ PlaceOf("globals") < PlaceOf("package") /\ PlaceOf("attached") < PlaceOf("globals")
  /\ PlaceOf("functions") < PlaceOf("attached") /\ PlaceOf("return") < PlaceOf("params")
  /\ PlaceOf("defaults") < PlaceOf("return") /\ PlaceOf("locals") < PlaceOf("defaults")
  /\ PlaceOf("default blocks") < PlaceOf("locals")
  /\ PlaceOf("blocks") < PlaceOf("default blocks") /\ PlaceOf("attached") < PlaceOf("blocks")
  /\ PlaceOf("functions") < PlaceOf("blocks") /\ PlaceOf("declare") < PlaceOf("globals")
  /\ PlaceOf("bodies") < PlaceOf("declare") /\ PlaceOf("create") < PlaceOf("allocas")
  /\ PlaceOf("visit") < PlaceOf("create") /\ PlaceOf("bodies") < PlaceOf("visit")
BY DEF PlaceOf

LEMMA MeasureBy ==
  ASSUME Compiling, Compiling',
         \/ StageOf(phase') < StageOf(phase)
         \/ /\ phase' = phase
            /\ \/ Rounds' < Rounds
               \/ Rounds' = Rounds /\ Place' < Place
               \/ Rounds' = Rounds /\ Place' = Place /\ Left(ItemsAt', k') < Left(ItemsAt, k)
               \/ /\ Rounds' = Rounds /\ Place' = Place
                  /\ Left(ItemsAt', k') = Left(ItemsAt, k) /\ Entering' < Entering
               \/ /\ Rounds' = Rounds /\ Place' = Place
                  /\ Left(ItemsAt', k') = Left(ItemsAt, k) /\ Entering' = Entering
                  /\ Left(InsnsAt', j') < Left(InsnsAt, j)
  PROVE  Lower(CompilerMeasure', CompilerMeasure)
<1>1. CompilerMeasure =
        <<StageOf(phase), Rounds, Place, Left(ItemsAt, k), Entering, Left(InsnsAt, j)>>
  BY DEF CompilerMeasure
<1>2. CompilerMeasure' =
        <<StageOf(phase'), Rounds', Place', Left(ItemsAt', k'), Entering', Left(InsnsAt', j')>>
  BY DEF CompilerMeasure
<1>3. phase' = phase => StageOf(phase') = StageOf(phase)
  OBVIOUS
<1>4. Lower(<<StageOf(phase'), Rounds', Place', Left(ItemsAt', k'), Entering', Left(InsnsAt', j')>>,
            <<StageOf(phase), Rounds, Place, Left(ItemsAt, k), Entering, Left(InsnsAt, j)>>)
  BY <1>3, LowerBy
<1> QED BY <1>1, <1>2, <1>4

\* Whatever ends the compiler leaves nothing.
LEMMA Ending ==
  ASSUME Compiling, ~Compiling'
  PROVE  Lower(CompilerMeasure', CompilerMeasure)
<1>1. CompilerMeasure =
        <<StageOf(phase), Rounds, Place, Left(ItemsAt, k), Entering, Left(InsnsAt, j)>>
  BY DEF CompilerMeasure
<1>2. CompilerMeasure' = <<0, 0, 0, 0, 0, 0>>
  BY DEF CompilerMeasure
<1>3. 0 < StageOf(phase)
  BY StagesFall DEF Compiling
<1> QED BY <1>1, <1>2, <1>3, LowerBy
\* The loops' bounds at each place, in a state and in the next.
LEMMA ItemsNow ==
  /\ at = "globals" => ItemsAt = Len(Module.globals)
  /\ at = "declare" => ItemsAt = functions.len
  /\ at = "params" => ItemsAt = Len(Text.required)
  /\ at = "defaults" => ItemsAt = Len(Text.defaults)
  /\ at = "locals" => ItemsAt = Len(Text.locals)
  /\ at \in {"default blocks", "default insns"} => ItemsAt = Len(Text.defaultBlocks)
  /\ at \in {"blocks", "insns"} => ItemsAt = Len(Text.blocks)
  /\ at = "allocas" => ItemsAt = Len(F.locals)
  /\ at \in {"create", "visit"} => ItemsAt = F.blocks.len
  /\ at \in {"package", "attached", "return", "functions", "bodies"} => ItemsAt = 0
BY DEF ItemsAt, BlockTexts

LEMMA ItemsNext ==
  /\ at' = "globals" => ItemsAt' = Len(Module'.globals)
  /\ at' = "declare" => ItemsAt' = functions'.len
  /\ at' = "params" => ItemsAt' = Len(Text'.required)
  /\ at' = "defaults" => ItemsAt' = Len(Text'.defaults)
  /\ at' = "locals" => ItemsAt' = Len(Text'.locals)
  /\ at' \in {"default blocks", "default insns"} => ItemsAt' = Len(Text'.defaultBlocks)
  /\ at' \in {"blocks", "insns"} => ItemsAt' = Len(Text'.blocks)
  /\ at' = "allocas" => ItemsAt' = Len(F'.locals)
  /\ at' \in {"create", "visit"} => ItemsAt' = F'.blocks.len
  /\ at' \in {"package", "attached", "return", "functions", "bodies"} => ItemsAt' = 0
BY DEF ItemsAt, BlockTexts

LEMMA InsnsNow ==
  /\ at = "default insns" => InsnsAt = Len(Text.defaultBlocks[k + 1].insns)
  /\ at = "insns" => InsnsAt = Len(Text.blocks[k + 1].insns)
  /\ at = "visit" /\ k < F.blocks.len => InsnsAt = Len(B.insns)
  /\ at \notin {"default insns", "insns"} /\ ~(at = "visit" /\ k < F.blocks.len) => InsnsAt = 0
BY DEF InsnsAt, BlockText, BlockTexts

LEMMA InsnsNext ==
  /\ at' = "default insns" => InsnsAt' = Len(Text'.defaultBlocks[k' + 1].insns)
  /\ at' = "insns" => InsnsAt' = Len(Text'.blocks[k' + 1].insns)
  /\ at' = "visit" /\ k' < F'.blocks.len => InsnsAt' = Len(B'.insns)
  /\ at' \notin {"default insns", "insns"} /\ ~(at' = "visit" /\ k' < F'.blocks.len) => InsnsAt' = 0
BY DEF InsnsAt, BlockText, BlockTexts

\* The lists of a function are lists.
LEMMA TextLists ==
  ASSUME IInv, phase = "module", at \in InFunction
  PROVE  /\ Len(Text.required) \in Nat /\ Len(Text.defaults) \in Nat /\ Len(Text.locals) \in Nat
         /\ Len(Text.defaultBlocks) \in Nat /\ Len(Text.blocks) \in Nat
         /\ \A b \in 1 .. Len(Text.defaultBlocks) : Len(Text.defaultBlocks[b].insns) \in Nat
         /\ \A b \in 1 .. Len(Text.blocks) : Len(Text.blocks[b].insns) \in Nat
<1>1. IsText(Text)
  <2>1. n \in 1 .. Texts /\ file \in Files
    BY InFunctionFacts DEF IInv
  <2> QED BY <2>1, ModuleFacts DEF Text
<1>2. /\ IsSeq(Text.required) /\ IsSeq(Text.defaults) /\ IsSeq(Text.locals)
      /\ IsSeq(Text.defaultBlocks) /\ IsSeq(Text.blocks)
      /\ \A b \in DOMAIN Text.defaultBlocks : IsSeq(Text.defaultBlocks[b].insns)
      /\ \A b \in DOMAIN Text.blocks : IsSeq(Text.blocks[b].insns)
  BY <1>1 DEF IsText
<1> QED BY <1>2, SeqFacts

\* So are those of a function that is translated.
LEMMA BodyLists ==
  ASSUME IInv, PackageInv, Counting, phase = "code", at \in InBody
  PROVE  /\ Len(F.locals) \in Nat /\ F.blocks.len \in Nat
         /\ k < F.blocks.len => Len(B.insns) \in Nat
<1>1. n \in 1 .. functions.len
  BY DEF Counting
<1>2. GoodBlocks(F.blocks, Address(functions, n))
  BY <1>1 DEF IInv, GoodFunctions, GoodFunction, F
<1>3. F.blocks.len \in Nat
  BY <1>2 DEF GoodBlocks
<1>4. Len(F.locals) \in Nat
  <2>1. n \in 1 .. Len(Kept) /\ IsText(Kept[n]) /\ FunctionRead(F, Kept[n])
    BY <1>1, KeptFacts DEF F
  <2>2. F.locals = AllNamed(Kept[n].locals) /\ IsSeq(Kept[n].locals)
    BY <2>1, TextFacts DEF FunctionRead
  <2> QED BY <2>2, AllNamedFacts
<1>5. ASSUME k < F.blocks.len PROVE Len(B.insns) \in Nat
  <2>1. k + 1 \in 1 .. F.blocks.len
    <3>1. k \in Nat
      BY CountingFacts
    <3> QED BY <1>3, <1>5, <3>1
  <2>2. IsSeq(B.insns)
    BY <1>2, <2>1 DEF GoodBlocks, GoodBlock, B
  <2> QED BY <2>2, SeqFacts
<1> QED BY <1>3, <1>4, <1>5

\* The reader and the code generator are where they can be.
LEMMA PlacesNow ==
  ASSUME IInv, Counting, Compiling
  PROVE  /\ phase = "pool" => at = "package"
         /\ phase = "module" => at \in {"package", "globals", "attached", "functions"} \cup InFunction
         /\ phase = "code" => at \in {"globals", "declare", "bodies"} \cup InBody
BY DEF IInv, FunctionsFit, Counting, Compiling

LEMMA SizesAreNumbers ==
  ASSUME IInv, PackageInv, Counting, Compiling
  PROVE  /\ Len(Words) \in Nat /\ Texts \in Nat /\ Attached \in Nat /\ functions.len \in Nat
         /\ Attached <= Texts
         /\ ItemsAt \in Nat /\ InsnsAt \in Nat
<1>1. /\ Len(Words) \in Nat /\ Texts \in Nat /\ Attached \in Nat /\ functions.len \in Nat
      /\ Attached <= Texts
  <2>1. file \in Files /\ functions.len \in Nat
    BY DEF IInv, GoodFunctions
  <2>2. Len(Words) \in Nat
    BY <2>1, FilesAssumption DEF Words
  <2> QED BY <2>1, <2>2, ModuleFacts
<1>2. Len(Module.globals) \in Nat
  <2>1. file \in Files
    BY DEF IInv
  <2>2. IsSeq(Module.globals)
    BY <2>1, FilesAssumption DEF Module
  <2> QED BY <2>2, SeqFacts
<1>3. k \in Nat
  BY CountingFacts
<1>4. CASE at \in {"package", "globals", "attached", "functions", "declare", "bodies", "return"}
  <2>1. ItemsAt \in Nat
    <3>1. CASE at = "globals"
      BY <1>2, <3>1, ItemsNow
    <3>2. CASE at = "declare"
      BY <1>1, <3>2, ItemsNow
    <3>3. CASE at \in {"package", "attached", "return", "functions", "bodies"}
      <4>1. ItemsAt = 0
        BY <3>3, ItemsNow
      <4> QED BY <4>1
    <3> QED BY <1>4, <3>1, <3>2, <3>3
  <2>2. InsnsAt = 0
    BY <1>4, InsnsNow
  <2> QED BY <1>1, <2>1, <2>2
<1>5. CASE phase = "module" /\ at \in InFunction
  <2>1. ItemsAt \in Nat
    <3>1. /\ Len(Text.required) \in Nat /\ Len(Text.defaults) \in Nat /\ Len(Text.locals) \in Nat
          /\ Len(Text.defaultBlocks) \in Nat /\ Len(Text.blocks) \in Nat /\ 0 \in Nat
      BY <1>5, TextLists
    <3>2. \/ at = "return" /\ ItemsAt = 0
          \/ at = "params" /\ ItemsAt = Len(Text.required)
          \/ at = "defaults" /\ ItemsAt = Len(Text.defaults)
          \/ at = "locals" /\ ItemsAt = Len(Text.locals)
          \/ ItemsAt = Len(Text.defaultBlocks)
          \/ ItemsAt = Len(Text.blocks)
      BY <1>5, ItemsNow, Zenon
    <3> QED BY <3>1, <3>2
  <2>2. CASE at = "default insns"
    <3>1. k + 1 \in 1 .. Len(Text.defaultBlocks)
      <4>1. k < Len(Text.defaultBlocks) /\ Len(Text.defaultBlocks) \in Nat
        BY <1>5, <2>2, TextLists DEF Counting
      <4> QED BY <1>3, <4>1
    <3> QED BY <1>1, <1>5, <2>1, <2>2, <3>1, TextLists, InsnsNow
  <2>3. CASE at = "insns"
    <3>1. k + 1 \in 1 .. Len(Text.blocks)
      <4>1. k < Len(Text.blocks) /\ Len(Text.blocks) \in Nat
        BY <1>5, <2>3, TextLists, InFunctionFacts DEF BlocksFit
      <4> QED BY <1>3, <4>1
    <3> QED BY <1>1, <1>5, <2>1, <2>3, <3>1, TextLists, InsnsNow
  <2>4. CASE at \notin {"default insns", "insns"}
    <3>1. InsnsAt = 0
      BY <1>5, <2>4, InsnsNow
    <3> QED BY <1>1, <2>1, <3>1
  <2> QED BY <2>2, <2>3, <2>4
<1>6. CASE phase = "code" /\ at \in InBody
  <2>1. ItemsAt \in Nat
    BY <1>6, BodyLists, ItemsNow DEF InBody
  <2>2. InsnsAt \in Nat
    <3>1. CASE at = "visit" /\ k < F.blocks.len
      BY <1>6, <3>1, BodyLists, InsnsNow
    <3>2. CASE ~(at = "visit" /\ k < F.blocks.len)
      <4>1. at \notin {"default insns", "insns"}
        BY <1>6 DEF InBody
      <4>2. InsnsAt = 0
        BY <3>2, <4>1, InsnsNow
      <4> QED BY <4>2
    <3> QED BY <3>1, <3>2
  <2> QED BY <1>1, <2>1, <2>2
<1> QED BY <1>4, <1>5, <1>6, PlacesNow DEF Compiling
LEMMA SameRounds ==
  ASSUME Compiling, phase # "pool", UNCHANGED <<phase, file, n>>,
         phase = "code" => functions' = functions
  PROVE  Rounds' = Rounds
<1>1. phase = "module" \/ phase = "code"
  BY DEF Compiling
<1>2. CASE phase = "module"
  <2>1. Rounds = Left(Texts, n) /\ Rounds' = Left(Texts', n')
    BY <1>2 DEF Rounds
  <2>2. Texts' = Texts
    BY DEF Texts, Attached, Module
  <2> QED BY <2>1, <2>2
<1>3. CASE phase = "code"
  <2>1. Rounds = Left(functions.len, n) /\ Rounds' = Left(functions'.len, n')
    BY <1>3 DEF Rounds
  <2> QED BY <1>3, <2>1
<1> QED BY <1>1, <1>2, <1>3

\* Another function.
LEMMA NextRound ==
  ASSUME IInv, PackageInv, Counting, Compiling, phase # "pool", UNCHANGED <<phase, file>>, n' = n + 1,
         phase = "module" => n < Texts,
         phase = "code" => n < functions.len /\ functions' = functions
  PROVE  Lower(CompilerMeasure', CompilerMeasure)
<1>0. Compiling'
  BY DEF Compiling
<1>1. phase = "module" \/ phase = "code"
  BY DEF Compiling
<1>2. n \in Nat /\ Texts \in Nat /\ functions.len \in Nat
  BY SizesAreNumbers, CountingFacts
<1>3. CASE phase = "module"
  <2>1. Rounds = Left(Texts, n) /\ Rounds' = Left(Texts', n')
    BY <1>3 DEF Rounds
  <2>2. Texts' = Texts
    BY DEF Texts, Attached, Module
  <2>3. Rounds' < Rounds
    BY <1>2, <1>3, <2>1, <2>2, LeftLess
  <2> QED BY <1>0, <2>3, MeasureBy
<1>4. CASE phase = "code"
  <2>1. Rounds = Left(functions.len, n) /\ Rounds' = Left(functions'.len, n')
    BY <1>4 DEF Rounds
  <2>2. Rounds' < Rounds
    BY <1>2, <1>4, <2>1, LeftLess
  <2> QED BY <1>0, <2>2, MeasureBy
<1> QED BY <1>1, <1>3, <1>4

\* The next loop.
LEMMA NextPlace ==
  ASSUME Compiling, phase # "pool", UNCHANGED <<phase, file, n>>,
         phase = "code" => functions' = functions,
         PlaceOf(at') < PlaceOf(at)
  PROVE  Lower(CompilerMeasure', CompilerMeasure)
<1>1. Compiling' /\ Rounds' = Rounds
  BY SameRounds DEF Compiling
<1>2. Place = PlaceOf(at) /\ Place' = PlaceOf(at')
  BY DEF Place
<1> QED BY <1>1, <1>2, MeasureBy

\* Another item of the same loop.
LEMMA NextItem ==
  ASSUME IInv, PackageInv, Counting, Compiling, phase # "pool", UNCHANGED <<phase, file, n>>,
         phase = "code" => functions' = functions,
         PlaceOf(at') = PlaceOf(at), ItemsAt' = ItemsAt, k < ItemsAt, k' = k + 1
  PROVE  Lower(CompilerMeasure', CompilerMeasure)
<1>1. Compiling' /\ Rounds' = Rounds
  BY SameRounds DEF Compiling
<1>2. Place' = Place
  <2>1. Place = PlaceOf(at) /\ Place' = PlaceOf(at')
    BY DEF Place
  <2> QED BY <2>1
<1>3. Left(ItemsAt', k') < Left(ItemsAt, k)
  BY SizesAreNumbers, CountingFacts, LeftLess
<1> QED BY <1>1, <1>2, <1>3, MeasureBy

\* Another instruction of the same block.
LEMMA NextInsn ==
  ASSUME IInv, PackageInv, Counting, Compiling, phase # "pool", UNCHANGED <<phase, file, n, at, k>>,
         phase = "code" => functions' = functions,
         ItemsAt' = ItemsAt, InsnsAt' = InsnsAt, j < InsnsAt, j' = j + 1
  PROVE  Lower(CompilerMeasure', CompilerMeasure)
<1>1. Compiling' /\ Rounds' = Rounds
  BY SameRounds DEF Compiling
<1>2. Place' = Place /\ Entering' = Entering
  <2>1. Place = PlaceOf(at) /\ Place' = PlaceOf(at')
    BY DEF Place
  <2>2. Entering' = Entering
    BY DEF Entering
  <2> QED BY <2>1, <2>2
<1>3. Left(InsnsAt', j') < Left(InsnsAt, j)
  BY SizesAreNumbers, CountingFacts, LeftLess
<1>4. Left(ItemsAt', k') = Left(ItemsAt, k)
  OBVIOUS
<1> QED BY <1>1, <1>2, <1>3, <1>4, MeasureBy

-----------------------------------------------------------------------------
(* The steps.                                                              *)

\* A word of the pool is read, an entry ends, or the pool does.
LEMMA PoolShortens ==
  ASSUME IInv, PackageInv, Counting, PoolNext, UNCHANGED <<at, counters, readerVars, codeVars>>
  PROVE  Lower(CompilerMeasure', CompilerMeasure)
<1>1. phase = "pool" /\ Compiling /\ file' = file
  BY DEF PoolNext, ReadEntryCount, ReadTag, ReadField, PushBack, EndPool, Between, Compiling
<1>2. pos \in Nat /\ Len(Words) \in Nat
  BY <1>1, SizesAreNumbers, CountingFacts
<1>3. ASSUME phase' = "pool", pos' = pos + 1, pos < Len(Words) + 1
      PROVE  Lower(CompilerMeasure', CompilerMeasure)
  <2>1. Rounds = Left(Len(Words) + 1, pos) /\ Rounds' = Left(Len(Words) + 1, pos + 1)
    <3>1. Rounds = Left(Len(Words) + 1, pos) /\ Rounds' = Left(Len(Words') + 1, pos')
      BY <1>1, <1>3 DEF Rounds
    <3>2. Words' = Words
      BY <1>1 DEF Words
    <3> QED BY <1>3, <3>1, <3>2
  <2>2. Len(Words) + 1 \in Nat
    BY <1>2
  <2>3. Rounds' < Rounds
    BY <1>2, <1>3, <2>1, <2>2, LeftLess
  <2>4. Compiling'
    BY <1>3 DEF Compiling
  <2> QED BY <1>1, <1>3, <2>3, <2>4, MeasureBy
<1>4. ASSUME phase' \notin {"pool", "module", "code"}
      PROVE  Lower(CompilerMeasure', CompilerMeasure)
  <2>1. ~Compiling'
    BY <1>4 DEF Compiling
  <2> QED BY <1>1, <2>1, Ending
<1>6. CASE ReadEntryCount
  <2>1. phase' = "pool" /\ pos = 0 /\ pos' = 1
    BY <1>1, <1>6 DEF ReadEntryCount
  <2>2. pos' = pos + 1 /\ pos < Len(Words) + 1
    BY <1>2, <2>1
  <2> QED BY <1>3, <2>1, <2>2
<1>7. CASE ReadTag
  <2>1. \/ CanRead(1) /\ pos' = pos + 1 /\ phase' = phase
        \/ phase' = "lost"
    BY <1>7 DEF ReadTag
  <2>2. CanRead(1) => pos < Len(Words) + 1
    BY <1>2 DEF CanRead
  <2> QED BY <1>1, <1>3, <1>4, <2>1, <2>2
<1>8. CASE ReadField
  <2>1. \/ pos < Len(Words) /\ pos' = pos + 1 /\ phase' = phase
        \/ phase' \in {"aborted", "lost"}
    BY <1>8 DEF ReadField, CanRead
  <2>2. pos < Len(Words) => pos < Len(Words) + 1
    BY <1>2
  <2> QED BY <1>1, <1>3, <1>4, <2>1, <2>2
<1>9. CASE PushBack
  <2>1. phase' = phase /\ UNCHANGED <<pos, file>> /\ entry # NoEntry /\ entry' = NoEntry
    BY <1>9 DEF PushBack
  <2>2. Rounds' = Rounds
    BY <1>1, <2>1 DEF Rounds, Words
  <2>3. Place = 1 /\ Place' = 0
    BY <1>1, <2>1 DEF Place
  <2>4. Compiling' /\ Place' < Place
    BY <1>1, <2>1, <2>3 DEF Compiling
  <2> QED BY <1>1, <2>1, <2>2, <2>4, MeasureBy
<1>10. CASE EndPool
  <2>1. phase' = "module"
    BY <1>10 DEF EndPool
  <2>2. Compiling' /\ StageOf(phase') < StageOf(phase)
    BY <1>1, <2>1, StagesFall DEF Compiling
  <2> QED BY <1>1, <2>2, MeasureBy
<1> QED BY <1>6, <1>7, <1>8, <1>9, <1>10 DEF PoolNext
LEMMA TextStays == UNCHANGED <<n, file>> => Text' = Text
BY DEF Text, TextOf, Attached, Module

\* An item of a list, in readModule and readFunction.
LEMMA ListShortens ==
  ASSUME IInv, PackageInv, Counting, ReadGlobalVar \/ ReadParam \/ ReadDefault \/ ReadLocalVar
  PROVE  Lower(CompilerMeasure', CompilerMeasure)
<1>1. phase = "module" /\ UNCHANGED <<phase, file, n, at>> /\ k' = k + 1 /\ Compiling
  BY DEF ReadGlobalVar, ReadParam, ReadDefault, ReadLocalVar, Compiling
<1>2. Text' = Text /\ Module' = Module
  BY <1>1, TextStays DEF Module
<1>3. \/ at = "globals" /\ k < Len(Module.globals)
      \/ at = "params" /\ k < Len(Text.required)
      \/ at = "defaults" /\ k < Len(Text.defaults)
      \/ at = "locals" /\ k < Len(Text.locals)
  BY DEF ReadGlobalVar, ReadParam, ReadDefault, ReadLocalVar
<1>4. ItemsAt' = ItemsAt /\ k < ItemsAt
  BY <1>1, <1>2, <1>3, ItemsNow, ItemsNext, Zenon
<1>5. PlaceOf(at') = PlaceOf(at) /\ phase # "pool" /\ phase # "code"
  BY <1>1
<1> QED BY <1>1, <1>4, <1>5, NextItem

\* The next thing of the package or of a function.
LEMMA PlaceShortens ==
  ASSUME IInv, PackageInv, Counting,
         \/ ReadPackageId \/ ReserveFunctions \/ EndLoop \/ ReadReturnVar
         \/ ReserveBlocks \/ EndFunction
  PROVE  Lower(CompilerMeasure', CompilerMeasure)
<1>1. phase = "module" /\ UNCHANGED <<phase, file, n>> /\ Compiling
  BY DEF ReadPackageId, ReserveFunctions, EndLoop, ReadReturnVar, ReserveBlocks, EndFunction, Compiling
<1>2. \/ at = "package" /\ at' = "globals"
      \/ at = "attached" /\ at' = "functions"
      \/ at = "return" /\ at' = "defaults"
      \/ at = "default blocks" /\ at' = "blocks"
      \/ at = "blocks" /\ at' \in {"attached", "functions"}
      \/ at = "globals" /\ at' = "attached"
      \/ at = "params" /\ at' = "return"
      \/ at = "defaults" /\ at' = "locals"
      \/ at = "locals" /\ at' = "default blocks"
  <2>1. CASE EndLoop
    BY <2>1, EndLoopPlaces
  <2>2. CASE EndFunction
    BY <2>2 DEF EndFunction
  <2>3. CASE ReadPackageId \/ ReserveFunctions \/ ReadReturnVar \/ ReserveBlocks
    BY <2>3 DEF ReadPackageId, ReserveFunctions, ReadReturnVar, ReserveBlocks
  <2> QED BY <2>1, <2>2, <2>3
<1>3. PlaceOf(at') < PlaceOf(at)
  <2>1. at' \in {"attached", "functions"} => at' = "attached" \/ at' = "functions"
    OBVIOUS
  <2> QED BY <1>2, <2>1, PlacesInOrder, Zenon
<1>4. phase # "pool" /\ phase # "code"
  BY <1>1
<1> QED BY <1>1, <1>3, <1>4, NextPlace

LEMMA StartFunctionShortens ==
  ASSUME IInv, PackageInv, Counting, StartFunction
  PROVE  Lower(CompilerMeasure', CompilerMeasure)
<1>1. phase = "module" /\ Compiling
  BY DEF StartFunction, Compiling
<1>2. n \in Nat /\ Attached \in Nat /\ Texts \in Nat /\ Attached <= Texts
  BY <1>1, SizesAreNumbers, CountingFacts
<1>3. n < Texts
  BY <1>2 DEF StartFunction
<1>4. CASE phase' = "crashed"
  <2>1. ~Compiling'
    BY <1>4 DEF Compiling
  <2> QED BY <1>1, <2>1, Ending
<1>5. CASE phase' # "crashed"
  <2>1. UNCHANGED <<phase, file>> /\ n' = n + 1
    BY <1>5 DEF StartFunction
  <2> QED BY <1>1, <1>3, <2>1, NextRound
<1> QED BY <1>4, <1>5

\* readBasicBlock: a block is entered, read instruction by instruction, and counted.
LEMMA BlockShortens ==
  ASSUME IInv, PackageInv, Counting, StartBlock \/ ReadInsn \/ EndBlock
  PROVE  Lower(CompilerMeasure', CompilerMeasure)
<1>1. phase = "module" /\ Compiling /\ phase # "pool" /\ phase # "code"
  BY DEF StartBlock, ReadInsn, EndBlock, Compiling
<1>2. UNCHANGED <<file, n>>
  BY DEF StartBlock, ReadInsn, EndBlock
<1>3. Text' = Text
  BY <1>2, TextStays
<1>4. CASE StartBlock
  <2>1. /\ phase' = phase /\ k' = k
        /\ \/ at = "default blocks" /\ at' = "default insns"
           \/ at = "blocks" /\ at' = "insns"
    BY <1>4 DEF StartBlock
  <2>2. Compiling' /\ Rounds' = Rounds
    BY <1>1, <1>2, <2>1, SameRounds DEF Compiling
  <2>3. Place' = Place
    <3>1. Place = PlaceOf(at) /\ Place' = PlaceOf(at')
      BY <1>1, <2>1 DEF Place
    <3> QED BY <2>1, <3>1, PlacesFall
  <2>4. ItemsAt' = ItemsAt
    BY <1>3, <2>1, ItemsNow, ItemsNext, Zenon
  <2>5. Entering' < Entering
    <3>1. Entering = 1 /\ Entering' = 0
      BY <2>1 DEF Entering
    <3> QED BY <3>1
  <2>6. Left(ItemsAt', k') = Left(ItemsAt, k)
    BY <2>1, <2>4
  <2> QED BY <1>1, <2>1, <2>2, <2>3, <2>5, <2>6, MeasureBy
<1>5. CASE ReadInsn
  <2>1. CASE phase' = "aborted"
    <3>1. ~Compiling'
      BY <2>1 DEF Compiling
    <3> QED BY <1>1, <3>1, Ending
  <2>2. CASE phase' # "aborted"
    <3>1. UNCHANGED <<phase, at, k>> /\ j' = j + 1
      BY <1>5, <2>2 DEF ReadInsn
    <3>2. at \in {"default insns", "insns"} /\ j < Len(BlockText.insns)
      BY <1>5 DEF ReadInsn
    <3>3. ItemsAt' = ItemsAt
      BY <1>3, <3>1, <3>2, ItemsNow, ItemsNext, Zenon
    <3>4. BlockText' = BlockText
      BY <1>3, <3>1 DEF BlockText, BlockTexts
    <3>5. InsnsAt' = InsnsAt /\ j < InsnsAt
      <4>1. InsnsAt = Len(BlockText.insns)
        BY <3>2 DEF InsnsAt
      <4>2. InsnsAt' = Len(BlockText'.insns)
        BY <3>1, <3>2 DEF InsnsAt
      <4> QED BY <3>2, <3>4, <4>1, <4>2
    <3> QED BY <1>1, <1>2, <3>1, <3>3, <3>5, NextInsn
  <2> QED BY <2>1, <2>2
<1>6. CASE EndBlock
  <2>1. /\ phase' = phase /\ k' = k + 1
        /\ \/ at = "default insns" /\ at' = "default blocks"
           \/ at = "insns" /\ at' = "blocks"
    BY <1>6 DEF EndBlock
  <2>2. ItemsAt' = ItemsAt /\ PlaceOf(at') = PlaceOf(at)
    BY <1>3, <2>1, ItemsNow, ItemsNext, PlacesFall, Zenon
  <2>3. k < ItemsAt
    <3>1. CASE at = "default insns"
      BY <3>1, ItemsNow DEF Counting
    <3>2. CASE at = "insns"
      BY <1>1, <3>2, InFunctionFacts, ItemsNow DEF BlocksFit
    <3> QED BY <2>1, <3>1, <3>2
  <2> QED BY <1>1, <1>2, <2>1, <2>2, <2>3, NextItem
<1> QED BY <1>4, <1>5, <1>6

LEMMA ReaderShortens ==
  ASSUME IInv, PackageInv, Counting, ReaderNext
  PROVE  Lower(CompilerMeasure', CompilerMeasure)
<1>1. CASE EndModule
  <2>1. phase = "module" /\ phase' = "code"
    BY <1>1 DEF EndModule
  <2>2. Compiling /\ Compiling' /\ StageOf(phase') < StageOf(phase)
    BY <2>1, StagesFall DEF Compiling
  <2> QED BY <2>2, MeasureBy
<1> QED BY <1>1, ListShortens, PlaceShortens, StartFunctionShortens, BlockShortens DEF ReaderNext

\* What a step of the code generator does not change.
LEMMA SameBody ==
  ASSUME GenNext, UNCHANGED <<n>>
  PROVE  /\ F' = F /\ functions' = functions /\ file' = file /\ Module' = Module
         /\ UNCHANGED k => B' = B
BY GenLeavesInput DEF F, B, Module

LEMMA GenShortens ==
  ASSUME IInv, PackageInv, Counting, GenNext
  PROVE  Lower(CompilerMeasure', CompilerMeasure)
<1>1. phase = "code" /\ Compiling /\ phase # "pool" /\ phase # "module" /\ UNCHANGED <<file, functions>>
  BY GenLeavesInput DEF Compiling
<1>2. CASE Compiling' /\ (DefineGlobal \/ DeclareFunction \/ CreateBlock)
  <2>1. UNCHANGED <<phase, n, at>> /\ k' = k + 1
    BY <1>2 DEF DefineGlobal, DeclareFunction, CreateBlock, Fail, Compiling
  <2>2. \/ at = "globals" /\ k < Len(globals)
        \/ at = "declare" /\ k < functions.len
        \/ at = "create" /\ k < F.blocks.len
    BY <1>2 DEF DefineGlobal, DeclareFunction, CreateBlock
  <2>3. Len(globals) = Len(Module.globals)
    BY <1>1, KeptFacts, AllNamedFacts
  <2>4. F' = F /\ Module' = Module
    BY <2>1, SameBody
  <2>5. ItemsAt' = ItemsAt /\ k < ItemsAt
    BY <1>1, <2>1, <2>2, <2>3, <2>4, ItemsNow, ItemsNext, Zenon
  <2>6. PlaceOf(at') = PlaceOf(at)
    BY <2>1
  <2> QED BY <1>1, <2>1, <2>5, <2>6, NextItem
<1>3. CASE EndGlobals \/ EndAllocas \/ BranchToFirst \/ EndBody
  <2>1. UNCHANGED <<phase, n>>
    BY <1>3 DEF EndGlobals, EndAllocas, BranchToFirst, EndBody
  <2>2. \/ at = "globals" /\ at' = "declare"
        \/ at = "allocas" /\ at' = "create"
        \/ at = "create" /\ at' = "visit"
        \/ at = "visit" /\ at' = "bodies"
    BY <1>3 DEF EndGlobals, EndAllocas, BranchToFirst, EndBody
  <2>3. PlaceOf(at') < PlaceOf(at)
    BY <2>2, PlacesInOrder, Zenon
  <2> QED BY <1>1, <2>1, <2>3, NextPlace
<1>4. CASE EndDeclarations
  <2>1. UNCHANGED <<phase, n>> /\ at = "declare" /\ at' = "bodies"
    BY <1>4 DEF EndDeclarations
  <2>2. PlaceOf(at') < PlaceOf(at)
    BY <2>1, PlacesInOrder, Zenon
  <2> QED BY <1>1, <2>1, <2>2, NextPlace
<1>5. CASE StartBody
  <2>1. phase' = phase /\ n' = n + 1 /\ n < functions.len
    BY <1>5 DEF StartBody
  <2> QED BY <1>1, <2>1, NextRound
<1>6. CASE EndCode
  <2>1. ~Compiling'
    BY <1>6 DEF EndCode, Compiling
  <2> QED BY <1>1, <2>1, Ending
<1>7. CASE AllocateLocal
  <2>1. CASE ~Compiling'
    BY <1>1, <2>1, Ending
  <2>2. CASE Compiling'
    <3>1. UNCHANGED <<phase, n, at>> /\ k' = k + 1 /\ at = "allocas" /\ k < Len(F.locals)
      BY <1>7, <2>2 DEF AllocateLocal, Fail, Compiling
    <3>2. ItemsAt' = ItemsAt /\ k < ItemsAt
      BY <3>1, SameBody, ItemsNow, ItemsNext, Zenon
    <3>3. PlaceOf(at') = PlaceOf(at)
      BY <3>1
    <3> QED BY <1>1, <3>1, <3>2, <3>3, NextItem
  <2> QED BY <2>1, <2>2
<1>8. CASE EmitInsn
  <2>1. CASE ~Compiling'
    BY <1>1, <2>1, Ending
  <2>2. CASE Compiling'
    <3>1. /\ UNCHANGED <<phase, n, at, k>> /\ j' = j + 1 /\ at = "visit"
          /\ k < F.blocks.len /\ j < Len(B.insns)
      BY <1>8, <2>2 DEF EmitInsn, Fail, Compiling
    <3>2. F' = F /\ B' = B
      BY <3>1, SameBody
    <3>3. ItemsAt' = ItemsAt
      BY <3>1, <3>2, ItemsNow, ItemsNext, Zenon
    <3>4. InsnsAt' = InsnsAt /\ j < InsnsAt
      BY <3>1, <3>2, InsnsNow, InsnsNext, Zenon
    <3> QED BY <1>1, <3>1, <3>3, <3>4, NextInsn
  <2> QED BY <2>1, <2>2
<1>9. CASE EmitTerminator
  <2>1. CASE ~Compiling'
    BY <1>1, <2>1, Ending
  <2>2. CASE Compiling'
    <3>1. UNCHANGED <<phase, n, at>> /\ k' = k + 1 /\ at = "visit" /\ k < F.blocks.len
      BY <1>9, <2>2 DEF EmitTerminator, Fail, Compiling
    <3>2. ItemsAt' = ItemsAt /\ k < ItemsAt
      BY <3>1, SameBody, ItemsNow, ItemsNext, Zenon
    <3>3. PlaceOf(at') = PlaceOf(at)
      BY <3>1
    <3> QED BY <1>1, <3>1, <3>2, <3>3, NextItem
  <2> QED BY <2>1, <2>2
<1>10. CASE ~Compiling'
  BY <1>1, <1>10, Ending
<1> QED BY <1>2, <1>3, <1>4, <1>5, <1>6, <1>7, <1>8, <1>9, <1>10 DEF GenNext

LEMMA StepShortens ==
  IInv /\ PackageInv /\ Counting /\ [Next]_vars => [Lower(CompilerMeasure', CompilerMeasure)]_vars
BY PoolShortens, ReaderShortens, GenShortens DEF Next

\* No step of the compiler is an earlier one again: whatever stands in the file,
\* each leaves less to read or to translate (the loops of ConstantPoolSet::read,
\* readModule, readFunction, readBasicBlock and of the visit methods).
THEOREM CompilationGetsShorter == Spec => CompilationShortens
<1>1. Init => Counting
  BY InitCounting
<1>2. IInv /\ Counting /\ [Next]_vars => Counting'
  BY StepCounting
<1>3. Spec => []Counting
  BY <1>1, <1>2, CompilerInvariance, PTL DEF Spec
<1> QED
  BY <1>3, CompilerInvariance, PackageIsTheModule, StepShortens, PTL DEF Spec, CompilationShortens

\* The measure is always six natural numbers, so it can get smaller only so often.
THEOREM CompilationIsMeasured == Spec => [](CompilerMeasure \in [1 .. 6 -> Nat])
<1>1. IInv /\ PackageInv /\ Counting => CompilerMeasure \in [1 .. 6 -> Nat]
  <2> SUFFICES ASSUME IInv, PackageInv, Counting PROVE CompilerMeasure \in [1 .. 6 -> Nat]
    OBVIOUS
  <2>0. \A a, b, c, d, e, f \in Nat : <<a, b, c, d, e, f>> \in [1 .. 6 -> Nat]
    OBVIOUS
  <2>1. CASE Compiling
    <3>1. /\ k \in Nat /\ j \in Nat /\ n \in Nat /\ pos \in Nat
          /\ ItemsAt \in Nat /\ InsnsAt \in Nat /\ Len(Words) \in Nat /\ Texts \in Nat
          /\ functions.len \in Nat
      BY <2>1, SizesAreNumbers, CountingFacts
    <3>2. Left(ItemsAt, k) \in Nat /\ Left(InsnsAt, j) \in Nat
      BY <3>1, LeftNat
    <3>3. Rounds \in Nat
      <4>1. Len(Words) + 1 \in Nat
        BY <3>1
      <4>2. /\ Left(Len(Words) + 1, pos) \in Nat /\ Left(Texts, n) \in Nat
            /\ Left(functions.len, n) \in Nat
        BY <3>1, <4>1, LeftNat
      <4>3. \/ Rounds = Left(Len(Words) + 1, pos) \/ Rounds = Left(Texts, n)
            \/ Rounds = Left(functions.len, n)
        BY Zenon DEF Rounds
      <4> QED BY <4>2, <4>3
    <3>4. StageOf(phase) \in Nat /\ Entering \in Nat
      BY DEF StageOf, Entering
    <3>5. Place \in Nat
      BY DEF Place, PlaceOf
    <3>6. CompilerMeasure =
            <<StageOf(phase), Rounds, Place, Left(ItemsAt, k), Entering, Left(InsnsAt, j)>>
      BY <2>1 DEF CompilerMeasure
    <3> QED BY <2>0, <3>2, <3>3, <3>4, <3>5, <3>6
  <2>2. CASE ~Compiling
    <3>1. CompilerMeasure = <<0, 0, 0, 0, 0, 0>>
      BY <2>2 DEF CompilerMeasure
    <3> QED BY <2>0, <3>1
  <2> QED BY <2>1, <2>2
<1>2. Init => Counting
  BY InitCounting
<1>3. IInv /\ Counting /\ [Next]_vars => Counting'
  BY StepCounting
<1>4. Spec => []Counting
  BY <1>2, <1>3, CompilerInvariance, PTL DEF Spec
<1> QED
  BY <1>1, <1>4, CompilerInvariance, PackageIsTheModule, PTL
=============================================================================
