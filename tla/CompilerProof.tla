---------------------------- MODULE CompilerProof ----------------------------
(***************************************************************************)
(* The pointers of the package stay live and the parameters keep their     *)
(* order, for every file.  The invariant says how far the vectors are      *)
(* filled and how large they are at each place of the reader: no vector    *)
(* that something points into grows beyond what was reserved for it.       *)
(***************************************************************************)
EXTENDS CompilerProperties, SequenceTheorems, TLAPS

\* A block of the function at fa, which lies at ba.
GoodBlock(b, fa, ba) ==
  /\ DOMAIN b = {"id", "parent", "insns", "terminator"}
  /\ IsSeq(b.insns)
  /\ b.parent = fa
  /\ \A i \in DOMAIN b.insns : b.insns[i].bb = ba
  /\ \A i \in DOMAIN b.terminator : b.terminator[i].bb = ba
GoodBlocks(bs, fa) ==
  /\ bs.len \in Nat /\ bs.cap \in Nat
  /\ \A b \in 1 .. bs.len : GoodBlock(bs.items[b], fa, Address(bs, b))
GoodFunction(f, fa) ==
  /\ DOMAIN f = {"name", "worker", "flags", "returnVar", "params", "locals", "blocks"}
  /\ IsSeq(f.params)
  /\ GoodBlocks(f.blocks, fa)
GoodFunctions(fs) ==
  /\ fs.len \in Nat /\ fs.cap \in Nat
  /\ \A f \in 1 .. fs.len : GoodFunction(fs.items[f], Address(fs, f))

BeforeFunctions == {"package", "globals", "attached"}
BeforeBlocks == {"params", "return", "defaults", "locals", "default blocks"}
InFunction == BeforeBlocks \cup {"default insns", "blocks", "insns"}

\* How many functions are kept, and that the vector holds those to come.
FunctionsFit ==
  /\ n \in 0 .. Texts /\ k \in Nat
  /\ at \in BeforeFunctions \cup InFunction \cup {"functions"}
  /\ at \in {"package", "globals"} => n = 0
  /\ at \in BeforeFunctions => functions.len = 0 /\ n <= Attached
  /\ at \notin BeforeFunctions /\ (n > Attached \/ at = "functions") =>
       functions.len <= n - Attached /\ functions.cap >= Texts - Attached
  /\ at \in InFunction => n > 0 /\ functions.len > 0
  /\ at \in InFunction /\ n <= Attached => functions.len = 1

BlocksFit ==
  /\ at \in BeforeBlocks => Function.blocks.len = 0
  /\ at = "default insns" => Function.blocks.len = 1
  /\ at \in {"blocks", "insns"} => Function.blocks.cap >= Len(Text.blocks)
  /\ at = "blocks" => k = Function.blocks.len /\ k <= Len(Text.blocks)
  /\ at = "insns" => k + 1 = Function.blocks.len /\ k < Len(Text.blocks)

\* What the queue holds, and how many parameters were taken from it.
QueueFits ==
  /\ at \in {"params", "return", "defaults"} => IsSeq(queue)
  /\ at = "params" => k <= Len(Text.required) /\ Len(queue) = k
  /\ at = "return" => Len(queue) = Len(Text.required)
  /\ at = "defaults" => /\ k <= Len(Text.defaults) /\ Len(queue) = Len(Text.required) - k
                        /\ Len(Function.params) = k
                        /\ \A i \in 1 .. Len(queue) : queue[i] = String(Text.required[k + i])
  /\ at \in {"params", "return"} =>
       /\ Function.params = <<>>
       /\ \A i \in 1 .. Len(queue) : queue[i] = String(Text.required[i])

IInv ==
  /\ file \in Files
  /\ GoodFunctions(functions)
  /\ phase = "pool" => at = "package"
  /\ phase \in {"pool", "module"} => FunctionsFit /\ BlocksFit /\ QueueFits
  /\ ParamsKeepTheirOrder

-----------------------------------------------------------------------------
(* Facts about the data.                                                   *)

LEMMA Sums ==
  ASSUME NEW a \in Nat, NEW b \in Nat
  PROVE  /\ a + b \in Nat /\ a <= a + b /\ (a + b) - a = b
         /\ \A i \in 1 .. a + b : ~(i <= a) => i - a \in 1 .. b
OBVIOUS

LEMMA Positive ==
  ASSUME NEW a, NEW b \in Nat, a \in 0 .. b, a > 0
  PROVE  a \in 1 .. b
OBVIOUS

LEMMA SeqIsSeq ==
  ASSUME NEW S, NEW s \in Seq(S)
  PROVE  IsSeq(s)
BY DEF IsSeq

LEMMA SeqFacts ==
  ASSUME NEW s, IsSeq(s)
  PROVE  Len(s) \in Nat /\ DOMAIN s = 1 .. Len(s)
BY DEF IsSeq

\* What stands in a file, of the functions of its types and of its own.
LEMMA ModuleFacts ==
  ASSUME file \in Files
  PROVE  /\ Attached \in Nat /\ Texts \in Nat /\ Attached <= Texts
         /\ Texts - Attached = Len(Module.functions)
         /\ \A i \in 1 .. Texts :
              /\ IsText(TextOf(i))
              /\ Len(TextOf(i).blocks) \in Nat /\ Len(TextOf(i).required) \in Nat
              /\ Len(TextOf(i).defaults) \in 0 .. Len(TextOf(i).required)
<1> DEFINE m == file.module
<1>1. IsSeq(m.attached) /\ IsSeq(m.functions)
  BY FilesAssumption
<1>2. /\ Len(m.attached) \in Nat /\ DOMAIN m.attached = 1 .. Len(m.attached)
      /\ Len(m.functions) \in Nat /\ DOMAIN m.functions = 1 .. Len(m.functions)
  BY <1>1, SeqFacts
<1>3. ASSUME NEW i \in 1 .. Len(m.attached) + Len(m.functions)
      PROVE  IsText(TextOf(i))
  <2>1. CASE i <= Len(m.attached)
    <3>1. i \in DOMAIN m.attached /\ TextOf(i) = m.attached[i]
      BY <1>2, <2>1 DEF TextOf, Attached, Module
    <3> QED BY <3>1, FilesAssumption
  <2>2. CASE ~(i <= Len(m.attached))
    <3>1. i - Len(m.attached) \in 1 .. Len(m.functions)
      BY <1>2, <2>2, Sums, Zenon
    <3>2. TextOf(i) = m.functions[i - Len(m.attached)]
      BY <2>2 DEF TextOf, Attached, Module
    <3> QED BY <1>2, <3>1, <3>2, FilesAssumption
  <2> QED BY <2>1, <2>2
<1>4. ASSUME NEW t, IsText(t)
      PROVE  /\ Len(t.blocks) \in Nat /\ Len(t.required) \in Nat
             /\ Len(t.defaults) \in 0 .. Len(t.required)
  BY <1>4, SeqFacts DEF IsText
<1>5. Attached = Len(m.attached) /\ Texts = Len(m.attached) + Len(m.functions)
  BY DEF Attached, Texts, Module
<1>6. /\ Attached \in Nat /\ Texts \in Nat /\ Attached <= Texts
      /\ Texts - Attached = Len(m.functions)
  BY <1>2, <1>5, Sums, Zenon
<1>7. \A i \in 1 .. Texts : IsText(TextOf(i))
  BY <1>3, <1>5
<1> QED BY <1>4, <1>6, <1>7 DEF Module

LEMMA AppendFacts ==
  ASSUME NEW s, IsSeq(s), NEW e
  PROVE  /\ IsSeq(Append(s, e)) /\ Len(Append(s, e)) = Len(s) + 1
         /\ \A i \in 1 .. Len(s) : Append(s, e)[i] = s[i]
         /\ Append(s, e)[Len(s) + 1] = e
<1> DEFINE S == {s[i] : i \in DOMAIN s} \cup {e}
<1>1. s \in Seq(S)
  BY DEF IsSeq
<1>2. /\ Append(s, e) \in Seq(S) /\ Len(Append(s, e)) = Len(s) + 1
      /\ \A i \in 1 .. Len(s) : Append(s, e)[i] = s[i]
      /\ Append(s, e)[Len(s) + 1] = e
  BY <1>1
<1>3. IsSeq(Append(s, e))
  BY <1>2, SeqIsSeq
<1> QED BY <1>2, <1>3

LEMMA TailFacts ==
  ASSUME NEW s, IsSeq(s), Len(s) > 0
  PROVE  /\ s # <<>> /\ Head(s) = s[1]
         /\ IsSeq(Tail(s)) /\ Len(Tail(s)) = Len(s) - 1
         /\ \A i \in 1 .. Len(s) - 1 : Tail(s)[i] = s[i + 1]
<1> DEFINE S == {s[i] : i \in DOMAIN s}
<1>1. s \in Seq(S) /\ s # <<>>
  BY DEF IsSeq
<1>2. /\ Tail(s) \in Seq(S) /\ Len(Tail(s)) = Len(s) - 1 /\ Head(s) = s[1]
      /\ \A i \in 1 .. Len(s) - 1 : Tail(s)[i] = s[i + 1]
  BY <1>1
<1>3. IsSeq(Tail(s))
  BY <1>2, SeqIsSeq
<1> QED BY <1>1, <1>2, <1>3

LEMMA EmptyFacts == IsSeq(<<>>) /\ Len(<<>>) = 0
BY DEF IsSeq

LEMMA SameText ==
  ASSUME file' = file, pool' = pool
  PROVE  /\ Attached' = Attached /\ Texts' = Texts
         /\ \A i : TextOf(i)' = TextOf(i)
         /\ n' = n => Text' = Text
         /\ \A x : String(x)' = String(x)
         /\ \A x : TypeOfIndex(x)' = TypeOfIndex(x)
BY DEF Attached, Texts, Module, TextOf, Text, String, TypeOfIndex

-----------------------------------------------------------------------------
(* The vectors.                                                            *)

LEMMA GoodIsLive == GoodFunctions(functions) => PointersAreLive
BY DEF PointersAreLive, GoodFunctions, GoodFunction, GoodBlocks, GoodBlock

LEMMA ReplaceFunction ==
  ASSUME NEW fs, GoodFunctions(fs), fs.len > 0,
         NEW g, GoodFunction(g, Address(fs, fs.len))
  PROVE  /\ GoodFunctions(WithBack(fs, g))
         /\ WithBack(fs, g).len = fs.len /\ WithBack(fs, g).cap = fs.cap
         /\ Back(WithBack(fs, g)) = g
BY DEF WithBack, Back, GoodFunctions, Address

\* The vector is empty, or has room.
LEMMA PushFunction ==
  ASSUME NEW fs, GoodFunctions(fs), fs.len = 0 \/ fs.len < fs.cap, NEW b,
         NEW g, \A a : GoodFunction(g, a)
  PROVE  /\ GoodFunctions(EmplaceBack(fs, g, b))
         /\ EmplaceBack(fs, g, b).len = fs.len + 1
         /\ fs.len < fs.cap => EmplaceBack(fs, g, b).cap = fs.cap
         /\ Back(EmplaceBack(fs, g, b)) = g
<1> DEFINE v == EmplaceBack(fs, g, b)
<1>1. fs.len \in Nat /\ fs.cap \in Nat
  BY DEF GoodFunctions
<1>2. v.len = fs.len + 1 /\ v.cap \in Nat /\ (fs.len < fs.cap => v.cap = fs.cap /\ v.buf = fs.buf)
  BY <1>1 DEF EmplaceBack
<1>3. \A k1 \in 1 .. fs.len + 1 :
        v.items[k1] = IF k1 = fs.len + 1 THEN g ELSE fs.items[k1]
  BY DEF EmplaceBack
<1> HIDE DEF v
<1>4. ASSUME NEW f \in 1 .. v.len
      PROVE  GoodFunction(v.items[f], Address(v, f))
  <2>1. CASE f = fs.len + 1
    BY <1>2, <1>3, <2>1
  <2>2. CASE f # fs.len + 1
    <3>1. f \in 1 .. fs.len /\ fs.len # 0
      BY <1>1, <1>2, <2>2
    <3>2. v.items[f] = fs.items[f] /\ Address(v, f) = Address(fs, f)
      BY <1>1, <1>2, <1>3, <2>2, <3>1 DEF Address
    <3> QED BY <3>1, <3>2 DEF GoodFunctions
  <2> QED BY <2>1, <2>2
<1>5. GoodFunctions(v)
  BY <1>1, <1>2, <1>4 DEF GoodFunctions
<1>6. Back(v) = g
  BY <1>1, <1>2, <1>3 DEF Back
<1> QED BY <1>2, <1>5, <1>6 DEF v

LEMMA PopFunction ==
  ASSUME NEW fs, GoodFunctions(fs), fs.len > 0
  PROVE  /\ GoodFunctions(PopBack(fs))
         /\ PopBack(fs).len = fs.len - 1 /\ PopBack(fs).cap = fs.cap
BY DEF PopBack, GoodFunctions, Address

LEMMA ReserveEmpty ==
  ASSUME NEW fs, GoodFunctions(fs), fs.len = 0, NEW c \in Nat, NEW b
  PROVE  /\ GoodFunctions(Reserve(fs, c, b))
         /\ Reserve(fs, c, b).len = 0 /\ Reserve(fs, c, b).cap >= c
BY DEF Reserve, GoodFunctions

LEMMA ReplaceBlock ==
  ASSUME NEW bs, NEW fa, GoodBlocks(bs, fa), bs.len > 0,
         NEW g, GoodBlock(g, fa, Address(bs, bs.len))
  PROVE  /\ GoodBlocks(WithBack(bs, g), fa)
         /\ WithBack(bs, g).len = bs.len /\ WithBack(bs, g).cap = bs.cap
BY DEF WithBack, GoodBlocks, Address

LEMMA PushBlock ==
  ASSUME NEW bs, NEW fa, GoodBlocks(bs, fa), bs.len = 0 \/ bs.len < bs.cap, NEW b,
         NEW g, \A a : GoodBlock(g, fa, a)
  PROVE  /\ GoodBlocks(EmplaceBack(bs, g, b), fa)
         /\ EmplaceBack(bs, g, b).len = bs.len + 1
         /\ bs.len < bs.cap => EmplaceBack(bs, g, b).cap = bs.cap
<1> DEFINE v == EmplaceBack(bs, g, b)
<1>1. bs.len \in Nat /\ bs.cap \in Nat
  BY DEF GoodBlocks
<1>2. v.len = bs.len + 1 /\ v.cap \in Nat /\ (bs.len < bs.cap => v.cap = bs.cap /\ v.buf = bs.buf)
  BY <1>1 DEF EmplaceBack
<1>3. \A k1 \in 1 .. bs.len + 1 :
        v.items[k1] = IF k1 = bs.len + 1 THEN g ELSE bs.items[k1]
  BY DEF EmplaceBack
<1> HIDE DEF v
<1>4. ASSUME NEW f \in 1 .. v.len
      PROVE  GoodBlock(v.items[f], fa, Address(v, f))
  <2>1. CASE f = bs.len + 1
    BY <1>2, <1>3, <2>1
  <2>2. CASE f # bs.len + 1
    <3>1. f \in 1 .. bs.len /\ bs.len # 0
      BY <1>1, <1>2, <2>2
    <3>2. v.items[f] = bs.items[f] /\ Address(v, f) = Address(bs, f)
      BY <1>1, <1>2, <1>3, <2>2, <3>1 DEF Address
    <3> QED BY <3>1, <3>2 DEF GoodBlocks
  <2> QED BY <2>1, <2>2
<1>5. GoodBlocks(v, fa)
  BY <1>1, <1>2, <1>4 DEF GoodBlocks
<1> QED BY <1>2, <1>5 DEF v

LEMMA PopBlock ==
  ASSUME NEW bs, NEW fa, GoodBlocks(bs, fa), bs.len > 0
  PROVE  /\ GoodBlocks(PopBack(bs), fa)
         /\ PopBack(bs).len = bs.len - 1
BY DEF PopBack, GoodBlocks, Address

LEMMA ReserveNoBlocks ==
  ASSUME NEW bs, NEW fa, GoodBlocks(bs, fa), bs.len = 0, NEW c \in Nat, NEW b
  PROVE  /\ GoodBlocks(Reserve(bs, c, b), fa)
         /\ Reserve(bs, c, b).len = 0 /\ Reserve(bs, c, b).cap >= c
BY DEF Reserve, GoodBlocks

LEMMA CurrentFunction ==
  ASSUME GoodFunctions(functions), functions.len > 0
  PROVE  GoodFunction(Function, Address(functions, functions.len))
BY DEF GoodFunctions, Function, Back

LEMMA ReplaceBlocks ==
  ASSUME GoodFunctions(functions), functions.len > 0,
         NEW bs, GoodBlocks(bs, Address(functions, functions.len)),
         functions' = WithBlocks(bs)
  PROVE  /\ GoodFunctions(functions)'
         /\ functions'.len = functions.len /\ functions'.cap = functions.cap
         /\ Function'.blocks = bs /\ Function'.params = Function.params
<1> DEFINE g == [Function EXCEPT !.blocks = bs]
<1>1. GoodFunction(g, Address(functions, functions.len))
      /\ g.blocks = bs /\ g.params = Function.params
  BY CurrentFunction DEF GoodFunction
<1> HIDE DEF g
<1>2. functions' = WithBack(functions, g)
  BY DEF WithBlocks, g
<1> QED BY <1>1, <1>2, ReplaceFunction DEF Function

\* The parameters of a function that is being read.
LEMMA SameParams ==
  ASSUME IInv, phase = "module", at \in InFunction,
         n' = n, file' = file, pool' = pool, Function'.params = Function.params
  PROVE  ParamsKeepTheirOrder'
<1>1. n > 0 /\ at \notin {"attached", "functions"}
  BY DEF IInv, FunctionsFit, InFunction, BeforeBlocks
<1>2. \A i \in DOMAIN Function.params :
        Function.params[i] = [name |-> String(Text.required[i]),
                              type |-> TypeOfIndex(Text.defaults[i])]
  BY <1>1 DEF IInv, ParamsKeepTheirOrder
<1>3. Text' = Text /\ \A x : String(x)' = String(x) /\ TypeOfIndex(x)' = TypeOfIndex(x)
  BY SameText
<1>4. (\A i \in DOMAIN Function.params :
        Function.params[i] = [name |-> String(Text.required[i]),
                              type |-> TypeOfIndex(Text.defaults[i])])'
  BY <1>2, <1>3
<1> QED BY <1>4 DEF ParamsKeepTheirOrder

-----------------------------------------------------------------------------
(* The steps of the reader.                                                *)

USE DEF BeforeFunctions, BeforeBlocks, InFunction, Reading, Goto, Unread, poolVars, readerVars,
        counters

LEMMA StepReadPackageId == IInv /\ ReadPackageId => IInv'
<1> SUFFICES ASSUME IInv, ReadPackageId PROVE IInv'
  OBVIOUS
<1> USE DEF ReadPackageId
<1>1. FunctionsFit' /\ BlocksFit' /\ QueueFits'
  BY SameText DEF IInv, FunctionsFit, BlocksFit, QueueFits
<1>2. ParamsKeepTheirOrder'
  BY DEF ParamsKeepTheirOrder, IInv, FunctionsFit
<1> QED BY <1>1, <1>2 DEF IInv

LEMMA StepReadGlobalVar == IInv /\ ReadGlobalVar => IInv'
<1> SUFFICES ASSUME IInv, ReadGlobalVar PROVE IInv'
  OBVIOUS
<1> USE DEF ReadGlobalVar
<1>1. FunctionsFit' /\ BlocksFit' /\ QueueFits'
  BY SameText DEF IInv, FunctionsFit, BlocksFit, QueueFits
<1>2. ParamsKeepTheirOrder'
  BY DEF ParamsKeepTheirOrder, IInv, FunctionsFit
<1> QED BY <1>1, <1>2 DEF IInv

LEMMA StepReserveFunctions == IInv /\ ReserveFunctions => IInv'
<1> SUFFICES ASSUME IInv, ReserveFunctions PROVE IInv'
  OBVIOUS
<1> USE DEF ReserveFunctions
<1>1. /\ file \in Files /\ GoodFunctions(functions) /\ functions.len = 0
      /\ FunctionsFit
  BY DEF IInv, FunctionsFit
<1>2. Attached \in Nat /\ Texts \in Nat /\ Texts - Attached = Len(Module.functions)
      /\ Texts - Attached \in Nat /\ Attached <= Texts
  BY <1>1, ModuleFacts
<1>3. /\ GoodFunctions(functions') /\ functions'.len = 0
      /\ functions'.cap >= Texts - Attached
  BY <1>1, <1>2, ReserveEmpty
<1>4. FunctionsFit'
  BY <1>1, <1>2, <1>3, SameText DEF FunctionsFit
<1>5. BlocksFit' /\ QueueFits' /\ ParamsKeepTheirOrder'
  BY DEF BlocksFit, QueueFits, ParamsKeepTheirOrder
<1> QED BY <1>1, <1>3, <1>4, <1>5 DEF IInv

LEMMA StepEndModule == IInv /\ EndModule => IInv'
BY DEF EndModule, IInv, ParamsKeepTheirOrder

LEMMA StepEndLoop == IInv /\ EndLoop => IInv'
<1> SUFFICES ASSUME IInv, EndLoop PROVE IInv'
  OBVIOUS
<1>0. /\ \/ at = "globals" /\ at' = "attached"
         \/ at = "params" /\ at' = "return" /\ k = Len(Text.required)
         \/ at = "defaults" /\ at' = "locals"
         \/ at = "locals" /\ at' = "default blocks"
      /\ phase = "module" /\ k' = 0
      /\ UNCHANGED <<n, j, readerVars, file, phase, pool>>
  <2>1. /\ at \in {"globals", "params", "defaults", "locals"} /\ k = Len(Items)
        /\ at' = Following[at]
    BY DEF EndLoop, Following
  <2>2. CASE at = "globals"
    BY <2>1, <2>2 DEF EndLoop, Following
  <2>3. CASE at = "params"
    BY <2>1, <2>3 DEF EndLoop, Following, Items
  <2>4. CASE at = "defaults"
    BY <2>1, <2>4 DEF EndLoop, Following
  <2>5. CASE at = "locals"
    BY <2>1, <2>5 DEF EndLoop, Following
  <2> QED BY <2>1, <2>2, <2>3, <2>4, <2>5
<1>1. FunctionsFit'
  BY <1>0, SameText DEF IInv, FunctionsFit
<1>2. BlocksFit' /\ Text' = Text /\ Function' = Function
  BY <1>0, SameText DEF IInv, BlocksFit, Function
<1>3. CASE at = "globals"
  BY <1>0, <1>1, <1>2, <1>3 DEF IInv, QueueFits, ParamsKeepTheirOrder
<1>4. CASE at = "params"
  <2>1. QueueFits'
    BY <1>0, <1>2, <1>4, SameText DEF IInv, QueueFits
  <2> QED BY <1>0, <1>1, <1>2, <1>4, <2>1, SameParams DEF IInv
<1>5. CASE at \in {"defaults", "locals"}
  <2>1. QueueFits'
    BY <1>0, <1>2, <1>5 DEF IInv, QueueFits
  <2> QED BY <1>0, <1>1, <1>2, <1>5, <2>1, SameParams DEF IInv
<1> QED BY <1>0, <1>3, <1>4, <1>5

\* What is known inside a function.
LEMMA InFunctionFacts ==
  ASSUME IInv, phase = "module", at \in InFunction
  PROVE  /\ FunctionsFit /\ BlocksFit /\ QueueFits
         /\ GoodFunctions(functions) /\ functions.len > 0
         /\ GoodFunction(Function, Address(functions, functions.len))
         /\ n \in 1 .. Texts /\ Attached \in Nat /\ Texts \in Nat
         /\ Len(Text.blocks) \in Nat /\ Len(Text.required) \in Nat
         /\ Len(Text.defaults) \in 0 .. Len(Text.required)
<1>1. /\ FunctionsFit /\ BlocksFit /\ QueueFits /\ file \in Files
      /\ GoodFunctions(functions) /\ functions.len > 0
  BY DEF IInv, FunctionsFit
<1>2. n \in 1 .. Texts /\ Attached \in Nat /\ Texts \in Nat
  <2>1. n \in 0 .. Texts /\ n > 0
    BY <1>1 DEF FunctionsFit
  <2>2. Attached \in Nat /\ Texts \in Nat
    BY <1>1, ModuleFacts
  <2> QED BY <2>1, <2>2, Positive, Zenon
<1>3. /\ Len(Text.blocks) \in Nat /\ Len(Text.required) \in Nat
      /\ Len(Text.defaults) \in 0 .. Len(Text.required)
  BY <1>1, <1>2, ModuleFacts DEF Text
<1> QED BY <1>1, <1>2, <1>3, CurrentFunction

\* A step that keeps the vectors' sizes, the counters and the place.
LEMMA SameSizes ==
  ASSUME FunctionsFit, BlocksFit, UNCHANGED <<at, n, file, pool>>, k' \in Nat,
         at \in {"params", "return", "defaults", "locals"},
         functions'.len = functions.len, functions'.cap = functions.cap,
         Function'.blocks = Function.blocks
  PROVE  FunctionsFit' /\ BlocksFit'
BY SameText DEF FunctionsFit, BlocksFit

LEMMA StepReadParam == IInv /\ ReadParam => IInv'
<1> SUFFICES ASSUME IInv, ReadParam PROVE IInv'
  OBVIOUS
<1> USE DEF ReadParam
<1>1. FunctionsFit' /\ BlocksFit' /\ Text' = Text /\ Function' = Function
  BY SameText DEF IInv, FunctionsFit, BlocksFit, Function
<1>2. /\ k \in Nat /\ IsSeq(queue) /\ Len(queue) = k /\ Function.params = <<>>
      /\ \A i \in 1 .. Len(queue) : queue[i] = String(Text.required[i])
  BY DEF IInv, FunctionsFit, QueueFits
<1>3. Len(Text.required) \in Nat
  <2>1. n \in 1 .. Texts
    BY ModuleFacts DEF IInv, FunctionsFit
  <2> QED BY <2>1, ModuleFacts DEF IInv, Text
<1>4. /\ IsSeq(queue') /\ Len(queue') = k + 1
      /\ \A i \in 1 .. k + 1 : queue'[i] = String(Text.required[i])
  BY <1>2, AppendFacts
<1>5. QueueFits'
  BY <1>1, <1>2, <1>3, <1>4, SameText DEF QueueFits
<1> QED BY <1>1, <1>5, SameParams DEF IInv

LEMMA StepReadReturnVar == IInv /\ ReadReturnVar => IInv'
<1> SUFFICES ASSUME IInv, ReadReturnVar PROVE IInv'
  OBVIOUS
<1> USE DEF ReadReturnVar
<1>1. /\ GoodFunctions(functions) /\ functions.len > 0 /\ FunctionsFit /\ QueueFits
      /\ BlocksFit
  BY DEF IInv, FunctionsFit
<1>2. GoodFunction(Function, Address(functions, functions.len))
  BY <1>1, CurrentFunction
<1>3. /\ GoodFunctions(functions')
      /\ functions'.len = functions.len /\ functions'.cap = functions.cap
      /\ Function'.blocks = Function.blocks /\ Function'.params = Function.params
  <2>1. CASE Text.returnVar = <<>>
    BY <1>1, <2>1 DEF Function
  <2>2. CASE Text.returnVar # <<>>
    <3> DEFINE g == [Function EXCEPT !.returnVar = <<Named(Text.returnVar[1])>>]
    <3>1. GoodFunction(g, Address(functions, functions.len))
          /\ g.blocks = Function.blocks /\ g.params = Function.params
      BY <1>2 DEF GoodFunction
    <3>2. functions' = WithBack(functions, g)
      BY <2>2
    <3> HIDE DEF g
    <3> QED BY <1>1, <3>1, <3>2, ReplaceFunction DEF Function
  <2> QED BY <2>1, <2>2
<1>4. FunctionsFit' /\ BlocksFit'
  BY <1>1, <1>3, SameText DEF FunctionsFit, BlocksFit
<1>5. QueueFits'
  <2>1. n \in 1 .. Texts /\ file \in Files
    BY <1>1, ModuleFacts DEF IInv, FunctionsFit
  <2>2. Len(Text.required) \in Nat /\ Len(Text.defaults) \in Nat
    BY <2>1, ModuleFacts DEF Text
  <2> QED BY <1>1, <1>3, <2>2, SameText, EmptyFacts DEF QueueFits
<1>6. ParamsKeepTheirOrder'
  BY <1>3, SameParams
<1> QED BY <1>3, <1>4, <1>5, <1>6 DEF IInv

LEMMA StepReadDefault == IInv /\ ReadDefault => IInv'
<1> SUFFICES ASSUME IInv, ReadDefault PROVE IInv'
  OBVIOUS
<1> DEFINE p == [name |-> Front(queue), type |-> TypeOfIndex(Text.defaults[k + 1])]
           g == [Function EXCEPT !.params = Append(@, p)]
<1>0. /\ phase = "module" /\ at = "defaults" /\ k < Len(Text.defaults)
      /\ functions' = WithBack(functions, g)
      /\ queue' = Popped(queue) /\ k' = k + 1
      /\ UNCHANGED <<at, n, phase, file, pool>>
  BY DEF ReadDefault
<1>1. /\ FunctionsFit /\ BlocksFit
      /\ GoodFunctions(functions) /\ functions.len > 0
      /\ GoodFunction(Function, Address(functions, functions.len))
      /\ n > 0 /\ k \in Nat
      /\ Len(Text.required) \in Nat /\ Len(Text.defaults) \in 0 .. Len(Text.required)
      /\ IsSeq(Function.params)
  BY <1>0, InFunctionFacts DEF FunctionsFit, GoodFunction
<1>2. /\ IsSeq(queue) /\ Len(queue) = Len(Text.required) - k /\ Len(Function.params) = k
      /\ \A i \in 1 .. Len(queue) : queue[i] = String(Text.required[k + i])
  BY <1>0, InFunctionFacts DEF QueueFits
<1>3. Len(queue) > 0 /\ Front(queue) = String(Text.required[k + 1])
  <2>1. Len(queue) \in Nat /\ Len(queue) > 0
    BY <1>0, <1>1, <1>2
  <2>2. queue[1] = String(Text.required[k + 1])
    BY <1>2, <2>1
  <2>3. Front(queue) = queue[1]
    BY <1>2, <2>1, TailFacts DEF Front
  <2> QED BY <2>1, <2>2, <2>3
<1>4. /\ IsSeq(queue') /\ Len(queue') = Len(Text.required) - (k + 1)
      /\ \A i \in 1 .. Len(queue') : queue'[i] = String(Text.required[(k + 1) + i])
  <2>1. queue' = Tail(queue)
    BY <1>0, <1>2, <1>3, TailFacts DEF Popped
  <2>2. /\ IsSeq(queue') /\ Len(queue') = Len(queue) - 1
        /\ \A i \in 1 .. Len(queue) - 1 : queue'[i] = queue[i + 1]
    BY <2>1, <1>2, <1>3, TailFacts
  <2>3. ASSUME NEW i \in 1 .. Len(queue) - 1
        PROVE  queue'[i] = String(Text.required[(k + 1) + i])
    <3>1. i + 1 \in 1 .. Len(queue) /\ k + (i + 1) = (k + 1) + i
      BY <1>1, <1>2
    <3> QED BY <1>2, <2>2, <3>1
  <2> QED BY <1>1, <1>2, <2>2, <2>3
<1>5. /\ IsSeq(Append(Function.params, p)) /\ Len(Append(Function.params, p)) = k + 1
      /\ \A i \in 1 .. k : Append(Function.params, p)[i] = Function.params[i]
      /\ Append(Function.params, p)[k + 1] = p
  BY <1>1, <1>2, AppendFacts
<1>6. /\ GoodFunction(g, Address(functions, functions.len))
      /\ g.params = Append(Function.params, p) /\ g.blocks = Function.blocks
  BY <1>1, <1>5 DEF GoodFunction
<1> HIDE DEF g
<1>7. /\ GoodFunctions(functions') /\ Function' = g
      /\ functions'.len = functions.len /\ functions'.cap = functions.cap
  BY <1>0, <1>1, <1>6, ReplaceFunction DEF Function
<1>8. FunctionsFit' /\ BlocksFit'
  BY <1>0, <1>1, <1>6, <1>7, SameSizes
<1>9. Text' = Text /\ \A x : String(x)' = String(x) /\ TypeOfIndex(x)' = TypeOfIndex(x)
  BY <1>0, SameText
<1>10. QueueFits'
  BY <1>0, <1>1, <1>4, <1>5, <1>6, <1>7, <1>9 DEF QueueFits
<1>11. ASSUME NEW i \in 1 .. k + 1
       PROVE  g.params[i] = [name |-> String(Text.required[i]),
                             type |-> TypeOfIndex(Text.defaults[i])]
  <2>1. CASE i = k + 1
    BY <1>3, <1>5, <1>6, <2>1
  <2>2. CASE i # k + 1
    <3>1. i \in 1 .. k /\ i \in DOMAIN Function.params
      BY <1>1, <1>2, <2>2, SeqFacts
    <3>2. Function.params[i] = [name |-> String(Text.required[i]),
                                type |-> TypeOfIndex(Text.defaults[i])]
      BY <1>0, <1>1, <3>1 DEF IInv, ParamsKeepTheirOrder
    <3> QED BY <1>5, <1>6, <3>1, <3>2
  <2> QED BY <2>1, <2>2
<1>12. DOMAIN g.params = 1 .. k + 1
  BY <1>5, <1>6, SeqFacts
<1>13. ParamsKeepTheirOrder'
  BY <1>7, <1>9, <1>11, <1>12 DEF ParamsKeepTheirOrder
<1> QED BY <1>0, <1>7, <1>8, <1>10, <1>13 DEF IInv

LEMMA StepReadLocalVar == IInv /\ ReadLocalVar => IInv'
<1> SUFFICES ASSUME IInv, ReadLocalVar PROVE IInv'
  OBVIOUS
<1> DEFINE g == [Function EXCEPT !.locals = Append(@, Named(Text.locals[k + 1]))]
<1>0. /\ phase = "module" /\ at = "locals" /\ functions' = WithBack(functions, g)
      /\ k' = k + 1 /\ UNCHANGED <<at, n, phase, file, pool>>
  BY DEF ReadLocalVar
<1>1. /\ FunctionsFit /\ BlocksFit
      /\ GoodFunctions(functions) /\ functions.len > 0
      /\ GoodFunction(Function, Address(functions, functions.len)) /\ k \in Nat
  BY <1>0, InFunctionFacts DEF FunctionsFit
<1>2. /\ GoodFunction(g, Address(functions, functions.len))
      /\ g.params = Function.params /\ g.blocks = Function.blocks
  BY <1>1 DEF GoodFunction
<1> HIDE DEF g
<1>3. /\ GoodFunctions(functions') /\ Function' = g
      /\ functions'.len = functions.len /\ functions'.cap = functions.cap
  BY <1>0, <1>1, <1>2, ReplaceFunction DEF Function
<1>4. FunctionsFit' /\ BlocksFit'
  BY <1>0, <1>1, <1>2, <1>3, SameSizes
<1>5. QueueFits'
  BY <1>0 DEF QueueFits
<1>6. ParamsKeepTheirOrder'
  BY <1>0, <1>2, <1>3, SameParams
<1> QED BY <1>0, <1>3, <1>4, <1>5, <1>6 DEF IInv

\* A step after the parameters that changes the current function's blocks alone.
LEMMA BlocksStep ==
  ASSUME IInv, phase = "module", at \in InFunction, phase' = phase,
         UNCHANGED <<n, file, pool>>,
         NEW bs, GoodBlocks(bs, Address(functions, functions.len)),
         functions' = WithBlocks(bs),
         k' \in Nat, at' \in {"default blocks", "default insns", "blocks", "insns"},
         at' = "default blocks" => bs.len = 0,
         at' = "default insns" => bs.len = 1,
         at' \in {"blocks", "insns"} => bs.cap >= Len(Text.blocks),
         at' = "blocks" => k' = bs.len /\ k' <= Len(Text.blocks),
         at' = "insns" => k' + 1 = bs.len /\ k' < Len(Text.blocks)
  PROVE  IInv'
<1>1. FunctionsFit /\ GoodFunctions(functions) /\ functions.len > 0
  BY InFunctionFacts
<1>2. /\ GoodFunctions(functions)'
      /\ functions'.len = functions.len /\ functions'.cap = functions.cap
      /\ Function'.blocks = bs /\ Function'.params = Function.params
  BY <1>1, ReplaceBlocks
<1>3. FunctionsFit'
  BY <1>1, <1>2, SameText DEF FunctionsFit
<1>4. BlocksFit' /\ QueueFits'
  BY <1>2, SameText DEF BlocksFit, QueueFits
<1>5. ParamsKeepTheirOrder'
  BY <1>2, SameParams
<1> QED BY <1>2, <1>3, <1>4, <1>5 DEF IInv

LEMMA StepReserveBlocks == IInv /\ ReserveBlocks => IInv'
<1> SUFFICES ASSUME IInv, ReserveBlocks PROVE IInv'
  OBVIOUS
<1> DEFINE bs == Reserve(Function.blocks, Len(Text.blocks), fresh + 1)
<1>0. /\ phase = "module" /\ at = "default blocks" /\ at' = "blocks" /\ k' = 0
      /\ functions' = WithBlocks(bs) /\ UNCHANGED <<n, phase, file, pool>>
  BY DEF ReserveBlocks
<1>1. /\ GoodFunction(Function, Address(functions, functions.len))
      /\ Function.blocks.len = 0 /\ Len(Text.blocks) \in Nat
  BY <1>0, InFunctionFacts DEF BlocksFit
<1>2. /\ GoodBlocks(bs, Address(functions, functions.len))
      /\ bs.len = 0 /\ bs.cap >= Len(Text.blocks)
  BY <1>1, ReserveNoBlocks DEF GoodFunction
<1> HIDE DEF bs
<1>3. /\ at \in InFunction /\ at' \in {"default blocks", "default insns", "blocks", "insns"}
      /\ at' # "default blocks" /\ at' # "default insns" /\ at' # "insns"
  BY <1>0
<1>4. k' \in Nat /\ k' = bs.len /\ k' <= Len(Text.blocks)
  <2>1. \A a \in Nat : 0 \in Nat /\ 0 <= a
    OBVIOUS
  <2> QED BY <1>0, <1>1, <1>2, <2>1, Zenon
<1>5. phase' = phase /\ UNCHANGED <<n, file, pool>>
  BY <1>0
<1> QED BY <1>0, <1>2, <1>3, <1>4, <1>5, BlocksStep, Zenon

LEMMA NewBlockIsGood ==
  \A b, a : GoodBlock(NewBlock(b), Address(functions, functions.len), a)
BY EmptyFacts DEF GoodBlock, NewBlock

LEMMA StepStartBlock == IInv /\ StartBlock => IInv'
<1> SUFFICES ASSUME IInv, StartBlock PROVE IInv'
  OBVIOUS
<1> DEFINE g == NewBlock(BlockText)
           bs == EmplaceBack(Function.blocks, g, fresh + 1)
           fa == Address(functions, functions.len)
<1>0. /\ phase = "module" /\ at \in {"default blocks", "blocks"} /\ k < Len(BlockTexts)
      /\ at' = IF at = "blocks" THEN "insns" ELSE "default insns"
      /\ functions' = WithBlocks(bs) /\ UNCHANGED <<n, k, phase, file, pool>>
  BY DEF StartBlock
<1>1. /\ GoodBlocks(Function.blocks, fa) /\ BlocksFit /\ k \in Nat
      /\ Len(Text.blocks) \in Nat
  BY <1>0, InFunctionFacts DEF GoodFunction, FunctionsFit
<1>2. \A a : GoodBlock(g, fa, a)
  BY NewBlockIsGood
<1> HIDE DEF g
<1>3. CASE at = "blocks"
  <2>1. k < Len(Text.blocks)
    BY <1>0, <1>3 DEF BlockTexts
  <2>2. /\ Function.blocks.len = k /\ Function.blocks.cap >= Len(Text.blocks)
        /\ Function.blocks.len < Function.blocks.cap
    BY <1>1, <1>3, <2>1 DEF BlocksFit, GoodBlocks
  <2>3. GoodBlocks(bs, fa) /\ bs.len = k + 1 /\ bs.cap = Function.blocks.cap
    BY <1>1, <1>2, <2>2, PushBlock
  <2> HIDE DEF bs
  <2> QED BY <1>0, <1>1, <1>3, <2>1, <2>2, <2>3, BlocksStep
<1>4. CASE at = "default blocks"
  <2>1. Function.blocks.len = 0
    BY <1>1, <1>4 DEF BlocksFit
  <2>2. GoodBlocks(bs, fa) /\ bs.len = 1
    BY <1>1, <1>2, <2>1, PushBlock
  <2> HIDE DEF bs
  <2> QED BY <1>0, <1>1, <1>4, <2>2, BlocksStep
<1> QED BY <1>0, <1>3, <1>4

LEMMA CurrentBlock ==
  ASSUME GoodBlocks(Function.blocks, Address(functions, functions.len)), Function.blocks.len > 0
  PROVE  GoodBlock(Block, Address(functions, functions.len),
                   Address(Function.blocks, Function.blocks.len))
BY DEF GoodBlocks, Block, Back

LEMMA StepEndBlock == IInv /\ EndBlock => IInv'
<1> SUFFICES ASSUME IInv, EndBlock PROVE IInv'
  OBVIOUS
<1> DEFINE fa == Address(functions, functions.len)
<1>0. /\ phase = "module" /\ at \in {"default insns", "insns"}
      /\ functions' = IF at = "insns" THEN functions ELSE WithBlocks(PopBack(Function.blocks))
      /\ at' = IF at = "insns" THEN "blocks" ELSE "default blocks"
      /\ k' = k + 1 /\ UNCHANGED <<n, phase, file, pool>>
  BY DEF EndBlock
<1>1. /\ GoodBlocks(Function.blocks, fa) /\ BlocksFit /\ FunctionsFit /\ k \in Nat
      /\ Len(Text.blocks) \in Nat /\ GoodFunctions(functions)
  BY <1>0, InFunctionFacts DEF GoodFunction, FunctionsFit
<1>2. CASE at = "insns"
  <2>1. /\ Function' = Function /\ functions' = functions /\ GoodFunctions(functions')
        /\ at' = "blocks"
    BY <1>0, <1>1, <1>2 DEF Function
  <2>2. FunctionsFit'
    BY <1>0, <1>1, <1>2, <2>1, SameText DEF FunctionsFit
  <2>3. BlocksFit' /\ QueueFits'
    BY <1>0, <1>1, <1>2, <2>1, SameText DEF BlocksFit, QueueFits
  <2>4. ParamsKeepTheirOrder'
    BY <1>0, <2>1, SameParams
  <2> QED BY <1>0, <2>1, <2>2, <2>3, <2>4 DEF IInv
<1>3. CASE at = "default insns"
  <2> DEFINE bs == PopBack(Function.blocks)
  <2>1. Function.blocks.len = 1
    BY <1>1, <1>3 DEF BlocksFit
  <2>2. Function.blocks.len > 0 /\ Function.blocks.len - 1 = 0
    BY <2>1
  <2>3. GoodBlocks(bs, fa) /\ bs.len = 0
    BY <1>1, <2>2, PopBlock, Zenon
  <2> HIDE DEF bs
  <2>4. functions' = WithBlocks(bs) /\ at' = "default blocks"
    BY <1>0, <1>3 DEF bs
  <2>5. /\ at \in InFunction
        /\ at' \in {"default blocks", "default insns", "blocks", "insns"}
        /\ at' # "default insns" /\ at' # "blocks" /\ at' # "insns"
    BY <1>3, <2>4
  <2>6. k' \in Nat
    <3>1. k' = k + 1 /\ k \in Nat
      BY <1>0, <1>1, Zenon
    <3> QED BY <3>1
  <2>7. phase = "module" /\ phase' = phase /\ UNCHANGED <<n, file, pool>>
    BY <1>0
  <2> QED BY <2>3, <2>4, <2>5, <2>6, <2>7, BlocksStep, Zenon
<1> QED BY <1>0, <1>2, <1>3

\* The instruction refers to the block that is read.
LEMMA WithInsnIsGood ==
  ASSUME GoodBlock(Block, Address(functions, functions.len),
                   Address(Function.blocks, Function.blocks.len)),
         NEW i
  PROVE  GoodBlock(WithInsn(i), Address(functions, functions.len),
                   Address(Function.blocks, Function.blocks.len))
<1> DEFINE x == InsnOf(i)
           ba == Address(Function.blocks, Function.blocks.len)
           is == Append(Block.insns, x)
<1>1. x.bb = ba
  BY DEF InsnOf
<1>2. /\ IsSeq(is) /\ Len(is) = Len(Block.insns) + 1
      /\ \A h \in 1 .. Len(Block.insns) : is[h] = Block.insns[h]
      /\ is[Len(Block.insns) + 1] = x
  BY AppendFacts DEF GoodBlock
<1>3. /\ Len(Block.insns) \in Nat /\ DOMAIN Block.insns = 1 .. Len(Block.insns)
      /\ DOMAIN is = 1 .. Len(is)
  BY <1>2, SeqFacts DEF GoodBlock
<1>4. \A h \in DOMAIN Block.insns : Block.insns[h].bb = ba
  BY DEF GoodBlock
<1> HIDE DEF x, is
<1>5. \A h \in DOMAIN is : is[h].bb = ba
  BY <1>1, <1>2, <1>3, <1>4
<1>6. CASE i.kind = "new_typedesc"
  <2>1. WithInsn(i) = Block
    BY <1>6 DEF WithInsn, Terminators
  <2> QED BY <2>1
<1>7. CASE i.kind # "new_typedesc" /\ i.kind \in Terminators
  <2>1. WithInsn(i) = [Block EXCEPT !.terminator = <<x>>]
    BY <1>7, Zenon DEF WithInsn, x
  <2> QED BY <1>1, <2>1 DEF GoodBlock
<1>8. CASE i.kind # "new_typedesc" /\ i.kind \notin Terminators
  <2>1. WithInsn(i) = [Block EXCEPT !.insns = is]
    BY <1>8, Zenon DEF WithInsn, x, is
  <2> QED BY <1>2, <1>5, <2>1 DEF GoodBlock
<1> QED BY <1>6, <1>7, <1>8

LEMMA StepReadInsn == IInv /\ ReadInsn => IInv'
<1> SUFFICES ASSUME IInv, ReadInsn PROVE IInv'
  OBVIOUS
<1> DEFINE i == BlockText.insns[j + 1]
           g == WithInsn(i)
           bs == WithBack(Function.blocks, g)
           fa == Address(functions, functions.len)
<1>0. phase = "module" /\ at \in {"default insns", "insns"}
  BY DEF ReadInsn
<1>1. CASE Unsupported(i)
  <2>1. phase' = "aborted" /\ UNCHANGED <<file, functions>>
    BY <1>1 DEF ReadInsn
  <2> QED BY <2>1 DEF IInv, ParamsKeepTheirOrder
<1>2. CASE ~Unsupported(i)
  <2>1. functions' = WithBlocks(bs) /\ UNCHANGED <<at, n, k, phase, file, pool>>
    BY <1>2 DEF ReadInsn
  <2>2. /\ GoodBlocks(Function.blocks, fa) /\ BlocksFit /\ k \in Nat
        /\ Function.blocks.len \in Nat
    BY <1>0, InFunctionFacts DEF GoodFunction, GoodBlocks, FunctionsFit
  <2>3. Function.blocks.len > 0
    <3>1. Function.blocks.len = 1 \/ Function.blocks.len = k + 1
      BY <1>0, <2>2 DEF BlocksFit
    <3> QED BY <2>2, <3>1
  <2>4. GoodBlock(g, fa, Address(Function.blocks, Function.blocks.len))
    BY <2>2, <2>3, CurrentBlock, WithInsnIsGood
  <2> HIDE DEF g
  <2>5. /\ GoodBlocks(bs, fa)
        /\ bs.len = Function.blocks.len /\ bs.cap = Function.blocks.cap
    BY <2>2, <2>3, <2>4, ReplaceBlock
  <2> HIDE DEF bs
  <2> QED BY <1>0, <2>1, <2>2, <2>5, BlocksStep DEF BlocksFit
<1> QED BY <1>1, <1>2

LEMMA StepEndFunction == IInv /\ EndFunction => IInv'
<1> SUFFICES ASSUME IInv, EndFunction PROVE IInv'
  OBVIOUS
<1>0. /\ phase = "module" /\ at = "blocks" /\ k' = 0
      /\ functions' = IF Ignored THEN PopBack(functions) ELSE functions
      /\ at' = IF n <= Attached THEN "attached" ELSE "functions"
      /\ UNCHANGED <<n, phase, file, pool>>
  BY DEF EndFunction
<1>1. /\ FunctionsFit /\ GoodFunctions(functions) /\ functions.len > 0
      /\ n \in 1 .. Texts /\ Attached \in Nat /\ Texts \in Nat
      /\ functions.len \in Nat
  BY <1>0, InFunctionFacts DEF GoodFunctions
<1>2. /\ GoodFunctions(functions') /\ functions'.cap = functions.cap
      /\ functions'.len = IF Ignored THEN functions.len - 1 ELSE functions.len
  BY <1>0, <1>1, PopFunction
<1>3. FunctionsFit'
  <2>1. CASE n <= Attached
    <3>1. functions.len = 1 /\ Ignored /\ at' = "attached"
      BY <1>0, <1>1, <2>1 DEF FunctionsFit, Ignored
    <3>2. functions'.len = 0
      BY <1>2, <3>1
    <3> QED BY <1>0, <1>1, <2>1, <3>1, <3>2, SameText DEF FunctionsFit
  <2>2. CASE ~(n <= Attached)
    <3>1. at' = "functions" /\ n > Attached
      BY <1>0, <1>1, <2>2
    <3>2. functions.len <= n - Attached /\ functions.cap >= Texts - Attached
      BY <1>0, <1>1, <3>1 DEF FunctionsFit
    <3>3. functions'.len <= n - Attached
      BY <1>1, <1>2, <3>2
    <3> QED BY <1>0, <1>1, <1>2, <3>1, <3>2, <3>3, SameText DEF FunctionsFit
  <2> QED BY <2>1, <2>2
<1>4. BlocksFit' /\ QueueFits' /\ ParamsKeepTheirOrder'
  BY <1>0 DEF BlocksFit, QueueFits, ParamsKeepTheirOrder
<1> QED BY <1>0, <1>2, <1>3, <1>4 DEF IInv

\* What is announced fits: a function of a type when no other is there, one of
\* the module when the vector has the room reserved for all of them.
LEMMA NewFunctionFits ==
  ASSUME IInv, phase = "module",
         (at = "attached" /\ n < Attached) \/ (at = "functions" /\ n < Texts)
  PROVE  /\ FunctionsFit /\ GoodFunctions(functions)
         /\ n \in Nat /\ Attached \in Nat /\ Texts \in Nat /\ n < Texts
         /\ functions.len \in Nat /\ functions.cap \in Nat
         /\ functions.len = 0 \/ functions.len < functions.cap
         /\ n < Attached => functions.len = 0
         /\ at = "functions" => n >= Attached
<1>1. /\ FunctionsFit /\ GoodFunctions(functions) /\ functions.len \in Nat
      /\ functions.cap \in Nat
  BY DEF IInv, GoodFunctions
<1>2. Attached \in Nat /\ Texts \in Nat /\ Attached <= Texts
  BY ModuleFacts DEF IInv
<1>3. n \in Nat
  <2>1. n \in 0 .. Texts
    BY <1>1 DEF FunctionsFit
  <2> QED BY <1>2, <2>1
<1>4. CASE at = "attached" /\ n < Attached
  <2>1. functions.len = 0 /\ n < Texts
    BY <1>1, <1>2, <1>3, <1>4 DEF FunctionsFit
  <2> QED BY <1>1, <1>2, <1>3, <1>4, <2>1
<1>5. CASE at = "functions" /\ n < Texts
  <2>1. functions.len <= n - Attached /\ functions.cap >= Texts - Attached
    BY <1>1, <1>5 DEF FunctionsFit
  <2>2. n >= Attached /\ functions.len < functions.cap
    BY <1>1, <1>2, <1>3, <1>5, <2>1
  <2> QED BY <1>1, <1>2, <1>3, <1>5, <2>2
<1> QED BY <1>4, <1>5

LEMMA NewFunctionIsGood == \A t, a : GoodFunction(NewFunction(t), a) /\ NewFunction(t).params = <<>>
                                     /\ NewFunction(t).blocks.len = 0
BY EmptyFacts DEF GoodFunction, NewFunction, EmptyVector, GoodBlocks

LEMMA StepStartFunction == IInv /\ StartFunction => IInv'
<1> SUFFICES ASSUME IInv, StartFunction PROVE IInv'
  OBVIOUS
<1> DEFINE t == TextOf(n + 1)
           g == NewFunction(t)
           fs == EmplaceBack(functions, g, fresh + 1)
<1>0. /\ phase = "module"
      /\ (at = "attached" /\ n < Attached) \/ (at = "functions" /\ n < Texts)
  BY DEF StartFunction
<1>1. CASE getInvocableType(pool, t.type) = Garbage
  <2>1. phase' = "crashed" /\ UNCHANGED <<file, functions>>
    BY <1>1 DEF StartFunction
  <2> QED BY <2>1 DEF IInv, ParamsKeepTheirOrder
<1>2. CASE getInvocableType(pool, t.type) # Garbage
  <2>1. /\ functions' = fs /\ n' = n + 1 /\ queue' = <<>> /\ at' = "params" /\ k' = 0
        /\ UNCHANGED <<phase, file, pool>>
    BY <1>2 DEF StartFunction
  <2>2. /\ FunctionsFit /\ GoodFunctions(functions)
        /\ n \in Nat /\ Attached \in Nat /\ Texts \in Nat /\ n < Texts
        /\ functions.len \in Nat /\ functions.cap \in Nat
        /\ functions.len = 0 \/ functions.len < functions.cap
        /\ n < Attached => functions.len = 0
        /\ at = "functions" => n >= Attached
    BY <1>0, NewFunctionFits
  <2>3. (\A a : GoodFunction(g, a)) /\ g.params = <<>> /\ g.blocks.len = 0
    BY NewFunctionIsGood
  <2> HIDE DEF g
  <2>4. /\ GoodFunctions(fs) /\ fs.len = functions.len + 1 /\ Back(fs) = g
        /\ functions.len < functions.cap => fs.cap = functions.cap
    BY <2>2, <2>3, PushFunction
  <2> HIDE DEF fs
  <2>5. FunctionsFit'
    <3>1. n' \in 0 .. Texts /\ n' > 0 /\ functions'.len > 0 /\ k' \in Nat
      BY <2>1, <2>2, <2>4
    <3>2. n' <= Attached => functions'.len = 1
      BY <2>1, <2>2, <2>4
    <3>3. ASSUME n' > Attached
          PROVE  functions'.len <= n' - Attached /\ functions'.cap >= Texts - Attached
      <4>1. at = "functions"
        BY <1>0, <2>1, <2>2, <3>3
      <4>2. functions.len <= n - Attached /\ functions.cap >= Texts - Attached
        BY <2>2, <4>1 DEF FunctionsFit
      <4>3. functions.len < functions.cap
        BY <1>0, <2>2, <4>1, <4>2
      <4> QED BY <2>1, <2>2, <2>4, <4>2, <4>3
    <3>4. Attached' = Attached /\ Texts' = Texts
      BY <2>1, SameText
    <3> QED BY <2>1, <3>1, <3>2, <3>3, <3>4 DEF FunctionsFit
  <2>6. Function' = g
    BY <2>1, <2>4 DEF Function
  <2>7. BlocksFit'
    BY <2>1, <2>3, <2>6 DEF BlocksFit
  <2>8. QueueFits'
    <3>1. Len(Text.required)' \in Nat
      <4>1. n + 1 \in 1 .. Texts
        BY <2>2
      <4>2. Len(TextOf(n + 1).required) \in Nat
        BY <4>1, ModuleFacts DEF IInv
      <4>3. Text' = TextOf(n + 1)
        BY <2>1, SameText DEF Text, TextOf, Attached, Module
      <4> QED BY <4>2, <4>3
    <3>2. IsSeq(queue') /\ Len(queue') = 0
      BY <2>1, EmptyFacts
    <3> QED BY <2>1, <2>3, <2>6, <3>1, <3>2 DEF QueueFits
  <2>9. ParamsKeepTheirOrder'
    BY <2>3, <2>6 DEF ParamsKeepTheirOrder
  <2>10. GoodFunctions(functions') /\ file' \in Files /\ phase' # "pool"
    BY <1>0, <2>1, <2>4 DEF IInv
  <2> QED BY <2>5, <2>7, <2>8, <2>9, <2>10, Zenon DEF IInv
<1> QED BY <1>1, <1>2

-----------------------------------------------------------------------------
(* The other steps, and the theorems.                                      *)

LEMMA InitIInv == Init => IInv
<1> SUFFICES ASSUME Init PROVE IInv
  OBVIOUS
<1>1. /\ file \in Files /\ phase = "pool" /\ at = "package" /\ n = 0 /\ k = 0
      /\ functions = EmptyVector
  BY DEF Init, InitPool, InitModule
<1>2. Attached \in Nat /\ Texts \in Nat
  BY <1>1, ModuleFacts
<1>3. GoodFunctions(functions) /\ functions.len = 0
  BY <1>1 DEF GoodFunctions, EmptyVector
<1>4. FunctionsFit
  BY <1>1, <1>2, <1>3 DEF FunctionsFit
<1>5. BlocksFit /\ QueueFits /\ ParamsKeepTheirOrder
  BY <1>1 DEF BlocksFit, QueueFits, ParamsKeepTheirOrder
<1> QED BY <1>1, <1>3, <1>4, <1>5 DEF IInv

LEMMA StepPool == IInv /\ PoolNext /\ UNCHANGED <<at, counters, readerVars, codeVars>> => IInv'
<1> SUFFICES ASSUME IInv, PoolNext, UNCHANGED <<at, counters, readerVars>> PROVE IInv'
  OBVIOUS
<1>1. /\ phase = "pool" /\ file' = file
      /\ phase' \in {"pool", "module", "lost", "aborted"}
  BY DEF PoolNext, ReadEntryCount, ReadTag, ReadField, PushBack, EndPool, Between
<1>2. /\ at = "package" /\ n = 0 /\ functions.len = 0 /\ file \in Files
      /\ FunctionsFit /\ GoodFunctions(functions)
  BY <1>1 DEF IInv, FunctionsFit
<1>3. FunctionsFit'
  BY <1>1, <1>2 DEF FunctionsFit, Attached, Texts, Module
<1>4. BlocksFit' /\ QueueFits' /\ ParamsKeepTheirOrder'
  BY <1>2 DEF BlocksFit, QueueFits, ParamsKeepTheirOrder
<1> QED BY <1>1, <1>2, <1>3, <1>4 DEF IInv

LEMMA StepGen == IInv /\ GenNext => IInv'
<1> SUFFICES ASSUME IInv, GenNext PROVE IInv'
  OBVIOUS
<1>1. /\ phase = "code" /\ phase' \in {"code", "done", "crashed", "undefined"}
      /\ UNCHANGED <<file, functions>>
  BY DEF GenNext, DefineGlobal, EndGlobals, DeclareFunction, EndDeclarations, StartBody, EndCode,
         AllocateLocal, EndAllocas, CreateBlock, BranchToFirst, EndBody, EmitInsn, EmitTerminator,
         Emitting, Fail, Input
<1> QED BY <1>1 DEF IInv, ParamsKeepTheirOrder

LEMMA Stutter == IInv /\ UNCHANGED vars => IInv'
<1> SUFFICES ASSUME IInv, UNCHANGED vars PROVE IInv'
  OBVIOUS
<1>1. UNCHANGED <<file, phase, at, n, k, j, queue, functions, pool>>
  BY DEF vars
<1>2. FunctionsFit' = FunctionsFit /\ BlocksFit' = BlocksFit
  BY <1>1 DEF FunctionsFit, BlocksFit, Attached, Texts, Module, Function, Text, TextOf
<1>3. QueueFits' = QueueFits /\ ParamsKeepTheirOrder' = ParamsKeepTheirOrder
  BY <1>1 DEF QueueFits, ParamsKeepTheirOrder, Function, Text, TextOf, Attached, Module, String,
              TypeOfIndex
<1> QED BY <1>1, <1>2, <1>3 DEF IInv

LEMMA StepIInv == IInv /\ [Next]_vars => IInv'
<1> SUFFICES ASSUME IInv, [Next]_vars PROVE IInv'
  OBVIOUS
<1>1. CASE PoolNext /\ UNCHANGED <<at, counters, readerVars, codeVars>>
  BY <1>1, StepPool
<1>2. CASE ReaderNext
  BY <1>2, StepReadPackageId, StepReadGlobalVar, StepEndLoop, StepReserveFunctions,
     StepEndModule, StepStartFunction, StepReadParam, StepReadReturnVar, StepReadDefault,
     StepReadLocalVar, StepStartBlock, StepReadInsn, StepEndBlock, StepReserveBlocks,
     StepEndFunction, Zenon DEF ReaderNext
<1>3. CASE GenNext
  BY <1>3, StepGen
<1>4. CASE UNCHANGED vars
  BY <1>4, Stutter
<1> QED BY <1>1, <1>2, <1>3, <1>4 DEF Next

\* What holds of the vectors, the counters and the queue wherever the compiler is.
THEOREM CompilerInvariance == Spec => []IInv
<1> QED BY InitIInv, StepIInv, PTL DEF Spec

\* readFunction, readBasicBlock, getFunctionRef: for every file, the pointers
\* from instructions to blocks and from blocks to functions stay live.
THEOREM PointersLive == Spec => []PointersAreLive
<1>1. IInv => PointersAreLive
  BY GoodIsLive DEF IInv
<1> QED BY <1>1, CompilerInvariance, PTL

\* readFunction: for every file, the i-th parameter has the i-th name and type.
THEOREM ParamsInOrder == Spec => []ParamsKeepTheirOrder
<1>1. IInv => ParamsKeepTheirOrder
  BY DEF IInv
<1> QED BY <1>1, CompilerInvariance, PTL
=============================================================================
