---------------------------- MODULE EmittedCode ----------------------------
(***************************************************************************)
(* The program nBallerina emits (compiler/codegen): what the LLVM code of  *)
(* each visitor does, instruction by instruction, to the globals, to the   *)
(* stack cells (alloca) of the calls under way and to the boxes on the     *)
(* heap.  A value of type any is a pointer-sized word: an odd word is an   *)
(* int shifted left by one, a multiple of 4 the address of a box, 14 and 6 *)
(* are true and false.  Which instruction comes next is left open, as in   *)
(* BirSpec.                                                                *)
(***************************************************************************)
EXTENDS BirProgram

CONSTANTS
  ArgLocals,  \* the variables of kind ARG in the order of localVars
  Addr,       \* the blocks malloc can hand out
  Byte,       \* 2^8, the values of an i8
  Undef       \* what a load of a cell nothing was stored in gives

\* readLocalVar (BIRReadFunction.cpp) meets the parameters in their order.
ASSUME ArgAssumption == ArgLocals = Params

\* malloc aligns a block to more than 4 bytes and never returns null for one.
ASSUME WordAssumption ==
  /\ Byte \in Nat \ {0} /\ Byte % 16 = 0
  /\ (2 * Half) % Byte = 0
  /\ Addr \subseteq 1 .. 2 * Half - 1
  /\ \A a \in Addr : a % 4 = 0
  /\ Undef \notin -Half .. 2 * Half - 1

VARIABLES
  insn,      \* the instruction whose code runs next
  cells,     \* the word, int or bit in every cell
  heap,      \* the int in each box that was allocated
  assigned,  \* the cells the BIR has assigned to
  depth, dest,
  status     \* running, done; aborted: abort was called; crashed: a null
             \* or wild pointer was used, or the processor trapped

vars == <<insn, cells, heap, assigned, depth, dest, status>>
frame == <<depth, dest>>

Word == 0 .. 2 * Half - 1
Contents(t) == CASE t = "int" -> I64 [] t = "boolean" -> {0, 1} [] OTHER -> Word

-----------------------------------------------------------------------------
(* Words.                                                                  *)

Unsigned(n) == n % (2 * Half)
Signed(w) == IF w < Half THEN w ELSE w - 2 * Half

\* int_to_any: (n << 1) | 1
Shifted(n) == Unsigned(2 * n)
Widened(n) == 2 * n + 1
Tagged(n) == Unsigned(2 * n) + 1

\* any_to_int: an arithmetic shift
IsTagged(w) == w % 2 # 0
LogicallyShifted(w) == w \div 2
Untagged(w) == Signed(w) \div 2
IsPointer(w) == w % 4 = 0

\* bool_to_any, and any_to_bool, which looks at the low byte
BoolToAny(b) == IF b = 1 THEN 14 ELSE 6
AnyToBool(w) == IF w % Byte = 14 THEN 1 ELSE 0

\* UDiv and URem; the other operators are the signed ones.
SwappedDifference(m, n) == ToI64(n - m)
Difference(m, n) == ToI64(m - n)
Divided(m, n) == ToI64(Unsigned(m) \div Unsigned(n))
Remainder(m, n) == ToI64(Unsigned(m) % Unsigned(n))
Computed(op, m, n) ==
  CASE op = "add" -> ToI64(m + n)
    [] op = "sub" -> Difference(m, n)
    [] op = "mul" -> ToI64(m * n)
    [] op = "div" -> Divided(m, n)
    [] op = "mod" -> Remainder(m, n)
    [] op = "gt" -> AsBit(m > n)
    [] op = "ge" -> AsBit(m >= n)
    [] op = "lt" -> AsBit(m < n)
    [] op = "le" -> AsBit(m <= n)
    [] op = "eq" -> AsBit(m = n)
    [] OTHER -> AsBit(m # n)

-----------------------------------------------------------------------------
(* Loads and stores.                                                       *)

At(x) == cells[CellOf(depth, x)]
Operand(k) == At(insn.rhs[k])
Loads(k) == IF Operand(k) = Undef THEN Contents(TypeOf[insn.rhs[k]]) ELSE {Operand(k)}

Marked == assigned' = assigned \cup {CellOf(depth, insn.lhs)}
Store(w) == cells' = [cells EXCEPT ![CellOf(depth, insn.lhs)] = w] /\ Marked
Stop(s) == status' = s /\ UNCHANGED <<cells, heap, assigned, frame>>

Init == /\ insn = NoInsn
        /\ cells = [c \in Cell |-> IF c[1] = 0 THEN 0 ELSE Undef]
        /\ heap = [a \in {} |-> 0]
        /\ assigned = {}
        /\ depth = 1 /\ dest = [d \in 2 .. MaxDepth |-> NoVar]
        /\ status = "running"

\* Any instruction can come next that reads only what was assigned.
Fetch == /\ insn' \in Instructions[depth]
         /\ \A k \in DOMAIN insn'.rhs : CellOf(depth, insn'.rhs[k]) \in assigned
         /\ UNCHANGED <<cells, heap, assigned, frame, status>>

-----------------------------------------------------------------------------
(* One action per visitor.                                                 *)

\* The nil main returns has no cell to go to.
ConstantLoad ==
  /\ insn.kind = "const_load"
  /\ IF depth = 1 /\ insn.lhs = MainReturnVar THEN UNCHANGED <<cells, assigned>>
     ELSE Store(insn.lit)
  /\ UNCHANGED <<heap, frame, status>>

Move == insn.kind = "move" /\ Store(Operand(1)) /\ UNCHANGED <<heap, frame, status>>

Not ==
  /\ insn.kind = "not"
  /\ \E b \in Loads(1) : Store(1 - b)
  /\ UNCHANGED <<heap, frame, status>>

Neg ==
  /\ insn.kind = "neg"
  /\ \E n \in Loads(1) : Store(ToI64(-n))
  /\ UNCHANGED <<heap, frame, status>>

\* A division by 0 traps.
Traps(n) == insn.kind \in {"div", "mod"} /\ n = 0

Binary ==
  /\ insn.kind \in BinaryOp
  /\ \E m \in Loads(1), n \in Loads(2) : ~Traps(n) /\ Store(Computed(insn.kind, m, n))
  /\ UNCHANGED <<heap, frame, status>>

BinaryTraps == insn.kind \in BinaryOp /\ (\E n \in Loads(2) : Traps(n)) /\ Stop("crashed")

IsCast(from, to) ==
  insn.kind = "type_cast" /\ TypeOf[insn.rhs[1]] = from /\ TypeOf[insn.lhs] = to

CopyAny == IsCast("any", "any") /\ Store(Operand(1)) /\ UNCHANGED <<heap, frame, status>>

CastToInt ==
  /\ IsCast("any", "int")
  /\ \E w \in Loads(1) :
       \/ IsTagged(w) /\ Store(Untagged(w))
       \/ ~IsTagged(w) /\ IsPointer(w) /\ w \in DOMAIN heap /\ Store(heap[w])
  /\ UNCHANGED <<heap, frame, status>>

\* any_to_int takes a word without a tag for the address of a box.  At an
\* address that is none, there is nothing to load or whatever is there.
CastToIntGoesWild ==
  /\ IsCast("any", "int")
  /\ \E w \in Loads(1) : ~IsTagged(w) /\ IsPointer(w) /\ w \notin DOMAIN heap
  /\ \/ Stop("crashed")
     \/ (\E n \in I64 : Store(n)) /\ UNCHANGED <<heap, frame, status>>

CastToIntAborts ==
  /\ IsCast("any", "int")
  /\ \E w \in Loads(1) : ~IsTagged(w) /\ ~IsPointer(w)
  /\ Stop("aborted")

CastToBoolean ==
  /\ IsCast("any", "boolean")
  /\ \E w \in Loads(1) : Store(AnyToBool(w))
  /\ UNCHANGED <<heap, frame, status>>

BooleanUnhandled ==
  /\ IsCast("boolean", "any")
  /\ Marked
  /\ UNCHANGED <<cells, heap, frame, status>>

CastBoolean ==
  /\ IsCast("boolean", "any")
  /\ \E b \in Loads(1) : Store(BoolToAny(b))
  /\ UNCHANGED <<heap, frame, status>>

CastInt ==
  /\ IsCast("int", "any")
  /\ \E n \in Loads(1) : IsSmall(n) /\ Store(Tagged(n))
  /\ UNCHANGED <<heap, frame, status>>

BoxInt ==
  /\ IsCast("int", "any")
  /\ \E n \in Loads(1), a \in Addr \ DOMAIN heap :
       /\ ~IsSmall(n)
       /\ heap' = [b \in DOMAIN heap \cup {a} |-> IF b = a THEN n ELSE heap[b]]
       /\ Store(a)
  /\ UNCHANGED <<frame, status>>

\* What malloc returns is not compared with null before it is stored through.
BoxIntFails ==
  /\ IsCast("int", "any")
  /\ \E n \in Loads(1) : ~IsSmall(n)
  /\ Addr \subseteq DOMAIN heap
  /\ Stop("crashed")

\* A cast of nil becomes a bitcast, and stores nothing.
BitCast ==
  /\ IsCast("nil", "any")
  /\ Marked
  /\ UNCHANGED <<cells, heap, frame, status>>

TypeCast ==
  \/ CopyAny \/ CastToInt \/ CastToIntGoesWild \/ CastToIntAborts \/ CastToBoolean
  \/ CastBoolean \/ CastInt \/ BoxInt \/ BoxIntFails \/ BitCast

\* The callee allocates its cells and stores argument i in the cell of the
\* i-th variable of kind ARG.
FirstArgument(x) == Operand(1)
Argument(x) == Operand(Position(ArgLocals, x))

Call ==
  /\ insn.kind = "call"
  /\ cells' = [c \in Cell |->
                 IF c[1] # depth + 1 THEN cells[c]
                 ELSE IF c[2] \in Names(ArgLocals) THEN Argument(c[2]) ELSE Undef]
  /\ assigned' = assigned \cup {c \in Cell : c[1] = depth + 1 /\ c[2] \in Names(ArgLocals)}
  /\ depth' = depth + 1
  /\ dest' = [dest EXCEPT ![depth + 1] = insn.lhs]
  /\ UNCHANGED <<heap, status>>

\* The callee's cells die, the caller stores the result.
OwnReturnVar == CellOf(depth - 1, ReturnVar)
Target == CellOf(depth - 1, dest[depth])

Return ==
  /\ insn.kind = "return" /\ depth > 1
  /\ cells' = [c \in Cell |-> IF c = Target THEN Operand(1)
                              ELSE IF c[1] = depth THEN Undef ELSE cells[c]]
  /\ assigned' = {c \in assigned : c[1] # depth} \cup {Target}
  /\ depth' = depth - 1
  /\ dest' = [dest EXCEPT ![depth] = NoVar]
  /\ UNCHANGED <<heap, status>>

\* main is void
MainReturns == insn.kind = "return" /\ depth = 1 /\ Stop("done")

Execute ==
  /\ insn # NoInsn /\ insn' = NoInsn
  /\ \/ ConstantLoad \/ Move \/ Not \/ Neg \/ Binary \/ BinaryTraps \/ TypeCast
     \/ Call \/ Return \/ MainReturns

Next == status = "running" /\ ((insn = NoInsn /\ Fetch) \/ Execute)

Spec == Init /\ [][Next]_vars
=============================================================================
