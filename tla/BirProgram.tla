---------------------------- MODULE BirProgram ----------------------------
(***************************************************************************)
(* What the BIR says of a program before it runs (compiler/bir): the       *)
(* variables of its package, of main and of one more function, which may   *)
(* call itself, with their types; the values they can have.  A cell is the *)
(* place of a variable: one for each global, one for each local of each    *)
(* call under way (main runs at depth 1).                                  *)
(***************************************************************************)
EXTENDS Integers

CONSTANTS
  Global, MainLocal, Local,   \* names of variables
  TypeOf,                     \* the type of each variable
  Params,                     \* the parameters of the function, in order
  ReturnVar, MainReturnVar,
  Casts,                      \* the casts <<from, to>> in its instructions
  BinaryOps, IntConst,        \* the operators and int literals in them
  Half,                       \* an int is -Half .. Half - 1
  MaxDepth,                   \* the calls that fit the stack
  NoVar                       \* no variable

Type == {"int", "boolean", "nil", "any"}
BinaryOp == {"add", "sub", "mul", "div", "mod", "gt", "ge", "lt", "le", "eq", "ne"}
Comparison == {"gt", "ge", "lt", "le", "eq", "ne"}

ASSUME NamesAssumption ==
  /\ Global \cap (MainLocal \cup Local) = {}
  /\ TypeOf \in [Global \cup MainLocal \cup Local -> Type]
  /\ MainReturnVar \in MainLocal /\ TypeOf[MainReturnVar] = "nil"
  /\ ReturnVar \in Local
  /\ NoVar \notin Global \cup MainLocal \cup Local

ASSUME ParamsAssumption ==
  /\ Params \in [DOMAIN Params -> Local \ {ReturnVar}]
  /\ \A i, j \in DOMAIN Params : Params[i] = Params[j] => i = j

\* The compiler stops at a cast of any to nil.
ASSUME InstructionsAssumption ==
  /\ Casts \subseteq (Type \X {"any"}) \cup ({"any"} \X {"any", "int", "boolean"})
  /\ BinaryOps \subseteq BinaryOp
  /\ IntConst \subseteq -Half .. Half - 1

ASSUME SizesAssumption ==
  /\ Half \in Nat \ {0} /\ Half % 2 = 0
  /\ MaxDepth \in Nat \ {0}

-----------------------------------------------------------------------------
Visible(d) == Global \cup (IF d = 1 THEN MainLocal ELSE Local)
Cell == ({0} \X Global) \cup ({1} \X MainLocal) \cup ((2 .. MaxDepth) \X Local)
CellOf(d, x) == IF x \in Global THEN <<0, x>> ELSE <<d, x>>
TypeAt(c) == TypeOf[c[2]]
Names(s) == {s[i] : i \in DOMAIN s}
Position(s, x) == CHOOSE i \in DOMAIN s : s[i] = x

\* 64-bit signed integers
I64 == -Half .. Half - 1
ToI64(n) == ((n + Half) % (2 * Half)) - Half

\* A value carries its type; the booleans are the i1 values 0 and 1.
IntValue(n) == [type |-> "int", val |-> n]
BoolValue(b) == [type |-> "boolean", val |-> b]
NilValue == [type |-> "nil", val |-> 0]
Value == {IntValue(n) : n \in I64} \cup {BoolValue(b) : b \in {0, 1}} \cup {NilValue}

\* The literals a ConstantLoad of a variable of type t can have.
Literals(t) == CASE t = "int"     -> IntConst
                 [] t = "boolean" -> {0, 1}
                 [] t = "nil"     -> {0}
                 [] OTHER         -> {}

\* The ints int_to_any keeps in the pointer itself.
IsSmall(n) == -(Half \div 2) <= n /\ n <= (Half \div 2) - 1

AsBit(p) == IF p THEN 1 ELSE 0

\* The type of an operator's result; the code generator accepts == of two nils.
ResultType(op) == IF op \in Comparison THEN "boolean" ELSE "int"
Accepts(op, t) == t = "int" \/ (op = "eq" /\ t = "nil")

-----------------------------------------------------------------------------
(* The well-typed instructions at depth d: the variable an instruction     *)
(* assigns to, the variables it reads, the literal of a constant load.     *)

Insn(kind, x, ys, n) == [kind |-> kind, lhs |-> x, rhs |-> ys, lit |-> n]
NoInsn == Insn("none", NoVar, <<>>, 0)

UnaryTyped(kind, x, y) ==
  CASE kind = "move" -> TypeOf[x] = TypeOf[y]
    [] kind = "not" -> TypeOf[x] = "boolean" /\ TypeOf[y] = "boolean"
    [] kind = "neg" -> TypeOf[x] = "int" /\ TypeOf[y] = "int"
    [] OTHER -> <<TypeOf[y], TypeOf[x]>> \in Casts

BinaryTyped(op, x, y, z) ==
  TypeOf[x] = ResultType(op) /\ TypeOf[y] = TypeOf[z] /\ Accepts(op, TypeOf[y])

CallTyped(x, args) ==
  /\ TypeOf[x] = TypeOf[ReturnVar]
  /\ \A i \in DOMAIN Params : TypeOf[args[i]] = TypeOf[Params[i]]

ConstantLoads(V) == {Insn("const_load", x, <<>>, n) : x \in V, n \in IntConst \cup {0, 1}}
Unaries(V) ==
  {Insn(k, x, <<y>>, 0) : k \in {"move", "not", "neg", "type_cast"}, x \in V, y \in V}
Binaries(V) == {Insn(op, x, <<y, z>>, 0) : op \in BinaryOps, x \in V, y \in V, z \in V}
Calls(V) == {Insn("call", x, args, 0) : x \in V, args \in [DOMAIN Params -> V]}

Instructions == [d \in 1 .. MaxDepth |->
  LET V == Visible(d)
  IN  {i \in ConstantLoads(V) : i.lit \in Literals(TypeOf[i.lhs])}
      \cup {i \in Unaries(V) : UnaryTyped(i.kind, i.lhs, i.rhs[1])}
      \cup {i \in Binaries(V) : BinaryTyped(i.kind, i.lhs, i.rhs[1], i.rhs[2])}
      \cup (IF d < MaxDepth THEN {i \in Calls(V) : CallTyped(i.lhs, i.rhs)} ELSE {})
      \cup {Insn("return", NoVar, IF d = 1 THEN <<>> ELSE <<ReturnVar>>, 0)}]
=============================================================================
