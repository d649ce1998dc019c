------------------------------ MODULE BirSpec ------------------------------
(***************************************************************************)
(* What the instructions of a BIR program do to its variables: the promise *)
(* the emitted code has to keep.  Variables hold typed values; there are   *)
(* no words, tags, stack slots or boxes.  Control flow decides which       *)
(* instruction comes next; here, any that is well typed and reads          *)
(* variables that were assigned, as the front end makes sure.              *)
(***************************************************************************)
EXTENDS BirProgram

VARIABLES
  insn,     \* the instruction to execute
  env,      \* the value of every cell
  depth,    \* the number of calls under way
  dest,     \* for each call, the caller's variable for the result
  status    \* running, done or failed

vars == <<insn, env, depth, dest, status>>

Unset == [type |-> "unset", val |-> 0]

Init == /\ insn = NoInsn
        /\ env = [c \in Cell |-> Unset]
        /\ depth = 1 /\ dest = [d \in 2 .. MaxDepth |-> NoVar]
        /\ status = "running"

Of(x) == env[CellOf(depth, x)]
Assign(v) == /\ env' = [env EXCEPT ![CellOf(depth, insn.lhs)] = v]
             /\ UNCHANGED <<depth, dest, status>>
Fail == status' = "failed" /\ UNCHANGED <<env, depth, dest>>

Fetch == /\ insn' \in Instructions[depth]
         /\ \A k \in DOMAIN insn'.rhs : Of(insn'.rhs[k]) # Unset
         /\ UNCHANGED <<env, depth, dest, status>>

-----------------------------------------------------------------------------
Operand(k) == Of(insn.rhs[k])
LhsType == TypeOf[insn.lhs]

\* Division rounds towards 0; only that of two non-negative ints is promised.
Results(op, m, n) ==
  CASE op = "add" -> {ToI64(m + n)}
    [] op = "sub" -> {ToI64(m - n)}
    [] op = "mul" -> {ToI64(m * n)}
    [] op = "div" -> IF m >= 0 /\ n > 0 THEN {m \div n} ELSE I64
    [] op = "mod" -> IF m >= 0 /\ n > 0 THEN {m % n} ELSE I64
    [] op = "gt" -> {AsBit(m > n)}
    [] op = "ge" -> {AsBit(m >= n)}
    [] op = "lt" -> {AsBit(m < n)}
    [] op = "le" -> {AsBit(m <= n)}
    [] op = "eq" -> {AsBit(m = n)}
    [] OTHER -> {AsBit(m # n)}

\* The nil that main returns is no value.
ConstantLoad ==
  /\ insn.kind = "const_load"
  /\ IF depth = 1 /\ insn.lhs = MainReturnVar THEN UNCHANGED <<env, depth, dest, status>>
     ELSE Assign([type |-> LhsType, val |-> insn.lit])

Move == insn.kind = "move" /\ Assign(Operand(1))
Not == insn.kind = "not" /\ Assign(BoolValue(1 - Operand(1).val))
Neg == insn.kind = "neg" /\ Assign(IntValue(ToI64(-Operand(1).val)))

DividesByZero == insn.kind \in {"div", "mod"} /\ Operand(2).val = 0
Binary ==
  /\ insn.kind \in BinaryOp
  /\ \/ /\ ~DividesByZero
        /\ \E r \in Results(insn.kind, Operand(1).val, Operand(2).val) :
             Assign([type |-> LhsType, val |-> r])
     \/ DividesByZero /\ Fail

\* To any the value stays what it is, but a large int may find no memory.  To
\* int only an int can be cast.  To boolean every value can; all but true
\* become false.
CastSucceeds ==
  \/ LhsType = "any" /\ Assign(Operand(1))
  \/ LhsType = "int" /\ Operand(1).type = "int" /\ Assign(Operand(1))
  \/ LhsType = "boolean" /\ Assign(BoolValue(AsBit(Operand(1) = BoolValue(1))))
CastFails ==
  /\ \/ LhsType = "int" /\ Operand(1).type # "int"
     \/ LhsType = "any" /\ TypeOf[insn.rhs[1]] = "int" /\ ~IsSmall(Operand(1).val)
  /\ Fail

TypeCast == insn.kind = "type_cast" /\ (CastSucceeds \/ CastFails)

\* The callee's parameters get the arguments, its other variables are new.
Call ==
  /\ insn.kind = "call"
  /\ env' = [c \in Cell |->
               IF c[1] = depth + 1 /\ c[2] \in Names(Params)
               THEN Operand(Position(Params, c[2])) ELSE env[c]]
  /\ depth' = depth + 1
  /\ dest' = [dest EXCEPT ![depth + 1] = insn.lhs]
  /\ UNCHANGED status

Return ==
  /\ insn.kind = "return" /\ depth > 1
  /\ env' = [c \in Cell |-> IF c = CellOf(depth - 1, dest[depth]) THEN Operand(1)
                            ELSE IF c[1] = depth THEN Unset ELSE env[c]]
  /\ depth' = depth - 1
  /\ dest' = [dest EXCEPT ![depth] = NoVar]
  /\ UNCHANGED status

MainReturns ==
  insn.kind = "return" /\ depth = 1 /\ status' = "done" /\ UNCHANGED <<env, depth, dest>>

Execute ==
  /\ insn # NoInsn /\ insn' = NoInsn
  /\ ConstantLoad \/ Move \/ Not \/ Neg \/ Binary \/ TypeCast \/ Call \/ Return \/ MainReturns

Next == status = "running" /\ ((insn = NoInsn /\ Fetch) \/ Execute)

Spec == Init /\ [][Next]_vars
=============================================================================
