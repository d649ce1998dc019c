------------------------- MODULE EmittedCodeProof -------------------------
(***************************************************************************)
(* The invariants of the emitted code, for every word size, set of         *)
(* variables and depth of calls.  TypeInv is inductive for every program,  *)
(* IInv for those that cast no nil; of these every step of the emitted     *)
(* code is one of the BIR, or a stutter.                                   *)
(***************************************************************************)
EXTENDS EmittedCodeProperties, TLAPS

-----------------------------------------------------------------------------
(* Arithmetic.                                                             *)

LEMMA ModRange == \A x \in Int, m \in Nat \ {0} : x % m \in 0 .. m - 1
  BY SMT

LEMMA ModOfSmall == \A x \in Int, m \in Nat \ {0} : 0 <= x /\ x < m => x % m = x
  BY SMT

LEMMA ModOnceBelow == \A x \in Int, m \in Nat \ {0} : -m <= x /\ x < 0 => x % m = x + m
  BY SMT

LEMMA HalfFacts == Half \in Nat \ {0} /\ 2 * Half \in Nat \ {0} /\ 2 * (Half \div 2) = Half
  BY SizesAssumption

LEMMA ToI64Range == \A n \in Int : ToI64(n) \in I64
<1> TAKE n \in Int
<1>1. (n + Half) % (2 * Half) \in 0 .. 2 * Half - 1
  BY HalfFacts, ModRange
<1> QED
  BY <1>1, HalfFacts DEF ToI64, I64

LEMMA UnsignedRange == \A n \in Int : Unsigned(n) \in Word
  BY HalfFacts, ModRange DEF Unsigned, Word

LEMMA TaggedNonNegative ==
  \A n \in Int : IsSmall(n) /\ n >= 0 => Tagged(n) = 2 * n + 1 /\ Tagged(n) < Half
<1> TAKE n \in Int
<1>1. SUFFICES ASSUME IsSmall(n), n >= 0 PROVE Tagged(n) = 2 * n + 1 /\ Tagged(n) < Half
  OBVIOUS
<1>2. 0 <= 2 * n /\ 2 * n <= Half - 2
  BY <1>1, HalfFacts DEF IsSmall
<1>3. (2 * n) % (2 * Half) = 2 * n
  BY <1>2, HalfFacts, ModOfSmall
<1> QED
  BY <1>2, <1>3, HalfFacts DEF Tagged, Unsigned

LEMMA TaggedNegative ==
  \A n \in Int : IsSmall(n) /\ n < 0 =>
    Tagged(n) = 2 * n + 2 * Half + 1 /\ Half < Tagged(n) /\ Tagged(n) < 2 * Half
<1> TAKE n \in Int
<1>1. SUFFICES ASSUME IsSmall(n), n < 0
               PROVE Tagged(n) = 2 * n + 2 * Half + 1 /\ Half < Tagged(n) /\ Tagged(n) < 2 * Half
  OBVIOUS
<1>2. -Half <= 2 * n /\ 2 * n <= -2
  BY <1>1, HalfFacts DEF IsSmall
<1>3. (2 * n) % (2 * Half) = 2 * n + 2 * Half
  BY <1>2, HalfFacts, ModOnceBelow
<1> QED
  BY <1>2, <1>3, HalfFacts DEF Tagged, Unsigned

\* A small int survives the shifts of int_to_any and any_to_int, and what is
\* between them is an odd word.
THEOREM SmallRoundTrip ==
  \A n \in I64 : IsSmall(n) =>
    Tagged(n) \in Word /\ IsTagged(Tagged(n)) /\ Untagged(Tagged(n)) = n
<1> TAKE n \in I64
<1>1. SUFFICES ASSUME IsSmall(n)
               PROVE Tagged(n) \in Word /\ IsTagged(Tagged(n)) /\ Untagged(Tagged(n)) = n
  OBVIOUS
<1>2. n \in Int
  BY HalfFacts DEF I64
<1>3. CASE n >= 0
  BY <1>1, <1>2, <1>3, TaggedNonNegative, HalfFacts DEF Word, IsTagged, Untagged, Signed
<1>4. CASE n < 0
  BY <1>1, <1>2, <1>4, TaggedNegative, HalfFacts DEF Word, IsTagged, Untagged, Signed
<1> QED
  BY <1>2, <1>3, <1>4

\* No address looks like an int or like true.
LEMMA AddressFacts ==
  \A a \in Addr : a \in Word /\ a # 0 /\ ~IsTagged(a) /\ AnyToBool(a) = 0 /\ ~IsBool(a)
<1> TAKE a \in Addr
<1>1. a \in Int /\ a % 4 = 0 /\ 0 < a /\ a <= 2 * Half - 1
  BY WordAssumption, HalfFacts
<1>2. PICK k \in Int : a = 4 * k
  BY <1>1
<1>3. PICK b \in Nat \ {0} : Byte = 16 * b
  BY WordAssumption
<1>4. PICK r \in Int : a % Byte = r /\ r = a - Byte * (a \div Byte)
  BY <1>1, WordAssumption
<1>5. a % Byte # 14
  <2> DEFINE q == a \div Byte
             z == b * q
  <2>1. q \in Int
    BY <1>1, WordAssumption
  <2>2. z \in Int /\ Byte * q = 16 * z
    BY <2>1, <1>3
  <2>3. a % Byte = 4 * k - 16 * z
    BY <1>2, <1>4, <2>2
  <2> HIDE DEF z
  <2> QED
    BY <2>2, <2>3
<1> QED
  BY <1>1, <1>2, <1>5, HalfFacts DEF Word, IsTagged, AnyToBool, IsBool

\* A boolean survives bool_to_any and any_to_bool, and is no int and no box.
THEOREM BooleanRoundTrip ==
  \A b \in {0, 1} :
    /\ BoolToAny(b) \in Word /\ ~IsTagged(BoolToAny(b)) /\ ~IsPointer(BoolToAny(b))
    /\ IsBool(BoolToAny(b)) /\ AnyToBool(BoolToAny(b)) = b
<1> TAKE b \in {0, 1}
<1>1. Byte \in Nat \ {0} /\ 16 <= Byte /\ Byte <= 2 * Half
  BY WordAssumption, HalfFacts
<1>2. 14 % Byte = 14 /\ 6 % Byte = 6
  BY <1>1, ModOfSmall
<1> QED
  BY <1>1, <1>2, HalfFacts DEF BoolToAny, Word, IsTagged, IsPointer, IsBool, AnyToBool

-----------------------------------------------------------------------------
(* Cells and instructions.                                                 *)

LEMMA CellOfVisible ==
  ASSUME NEW d \in 1 .. MaxDepth, NEW x \in Visible(d)
  PROVE  /\ CellOf(d, x) \in Cell /\ TypeAt(CellOf(d, x)) = TypeOf[x]
         /\ x \in Global \cup MainLocal \cup Local
<1>1. MaxDepth \in Nat
  BY SizesAssumption
<1> QED
  BY <1>1 DEF Visible, CellOf, Cell, TypeAt

LEMMA InsnCases ==
  ASSUME NEW d \in 1 .. MaxDepth, NEW i \in Instructions[d]
  PROVE  \/ /\ i.kind = "const_load" /\ i.lhs \in Visible(d) /\ i.lit \in Literals(TypeOf[i.lhs])
            /\ i.rhs = <<>>
         \/ /\ i.kind \in {"move", "not", "neg", "type_cast"} /\ i.lhs \in Visible(d)
            /\ \E y \in Visible(d) : i.rhs = <<y>> /\ UnaryTyped(i.kind, i.lhs, y)
         \/ /\ i.kind \in BinaryOps /\ i.lhs \in Visible(d)
            /\ \E y, z \in Visible(d) : i.rhs = <<y, z>> /\ BinaryTyped(i.kind, i.lhs, y, z)
         \/ /\ i.kind = "call" /\ d < MaxDepth /\ i.lhs \in Visible(d)
            /\ i.rhs \in [DOMAIN Params -> Visible(d)] /\ CallTyped(i.lhs, i.rhs)
         \/ /\ i.kind = "return" /\ i.rhs = IF d = 1 THEN <<>> ELSE <<ReturnVar>>
<1> DEFINE V == Visible(d)
<1>1. \/ i \in {j \in ConstantLoads(V) : j.lit \in Literals(TypeOf[j.lhs])}
      \/ i \in {j \in Unaries(V) : UnaryTyped(j.kind, j.lhs, j.rhs[1])}
      \/ i \in {j \in Binaries(V) : BinaryTyped(j.kind, j.lhs, j.rhs[1], j.rhs[2])}
      \/ d < MaxDepth /\ i \in {j \in Calls(V) : CallTyped(j.lhs, j.rhs)}
      \/ i = Insn("return", NoVar, IF d = 1 THEN <<>> ELSE <<ReturnVar>>, 0)
  BY DEF Instructions
<1>2. CASE i \in {j \in ConstantLoads(V) : j.lit \in Literals(TypeOf[j.lhs])}
  BY <1>2 DEF ConstantLoads, Insn
<1>3. CASE i \in {j \in Unaries(V) : UnaryTyped(j.kind, j.lhs, j.rhs[1])}
  BY <1>3 DEF Unaries, Insn
<1>4. CASE i \in {j \in Binaries(V) : BinaryTyped(j.kind, j.lhs, j.rhs[1], j.rhs[2])}
  BY <1>4 DEF Binaries, Insn
<1>5. CASE d < MaxDepth /\ i \in {j \in Calls(V) : CallTyped(j.lhs, j.rhs)}
  BY <1>5 DEF Calls, Insn
<1>6. CASE i = Insn("return", NoVar, IF d = 1 THEN <<>> ELSE <<ReturnVar>>, 0)
  BY <1>6 DEF Insn
<1> QED
  BY <1>1, <1>2, <1>3, <1>4, <1>5, <1>6

-----------------------------------------------------------------------------
(* What instructions compute has the type of the variable it goes to.      *)

LEMMA ContentsFacts ==
  /\ \A t : Contents(t) \subseteq I64 \cup Word
  /\ Contents("int") = I64 /\ Contents("boolean") = {0, 1}
  /\ Contents("any") = Word /\ Contents("nil") = Word
  /\ \A t : Contents(t) \subseteq Int
BY HalfFacts DEF Contents, I64, Word

LEMMA UntaggedRange == \A w \in Word : Untagged(w) \in I64
  BY HalfFacts DEF Word, Untagged, Signed, I64

LEMMA UnsignedOfNonzero == \A n \in I64 : n # 0 => Unsigned(n) \in Nat \ {0}
<1> TAKE n \in I64
<1>1. n \in Int /\ -Half <= n /\ n < Half
  BY HalfFacts DEF I64
<1>2. CASE n >= 0
  BY <1>1, <1>2, HalfFacts, ModOfSmall DEF Unsigned
<1>3. CASE n < 0
  <2>1. n % (2 * Half) = n + 2 * Half
    BY <1>1, <1>3, HalfFacts, ModOnceBelow
  <2> QED
    BY <1>1, <2>1, HalfFacts DEF Unsigned
<1> QED
  BY <1>1, <1>2, <1>3

LEMMA MulInt == \A x, y \in Int : x * y \in Int
  BY SMT

LEMMA ComputedRange ==
  ASSUME NEW op \in BinaryOp, NEW m \in Int, NEW n \in Int,
         op \notin Comparison => m \in I64 /\ n \in I64,
         op \in {"div", "mod"} => n # 0
  PROVE  Computed(op, m, n) \in Contents(ResultType(op))
<1>1. CASE op \in Comparison
  BY <1>1, ContentsFacts DEF Computed, Comparison, ResultType, AsBit
<1>2. CASE op \in {"add", "sub", "mul"}
  <2>1. m + n \in Int /\ m - n \in Int /\ m * n \in Int
    BY MulInt
  <2> QED
    BY <1>2, <2>1, ToI64Range, ContentsFacts DEF Computed, Difference, ResultType, Comparison
<1>3. CASE op \in {"div", "mod"}
  <2>1. Unsigned(m) \in Nat /\ Unsigned(n) \in Nat \ {0}
    BY <1>3, UnsignedRange, UnsignedOfNonzero, HalfFacts DEF Comparison, Word
  <2>2. \A x \in Nat, y \in Nat \ {0} : x \div y \in Int /\ x % y \in Int
    BY SMT
  <2>3. Unsigned(m) \div Unsigned(n) \in Int /\ Unsigned(m) % Unsigned(n) \in Int
    BY <2>1, <2>2, Zenon
  <2> QED
    BY <1>3, <2>3, ToI64Range, ContentsFacts
    DEF Computed, Divided, Remainder, ResultType, Comparison
<1> QED
  BY <1>1, <1>2, <1>3 DEF BinaryOp, Comparison

LEMMA LoadsTyped ==
  ASSUME TypeOK, NEW k \in DOMAIN insn.rhs, insn.rhs[k] \in Visible(depth)
  PROVE  /\ Loads(k) \subseteq Contents(TypeOf[insn.rhs[k]])
         /\ Operand(k) \in Contents(TypeOf[insn.rhs[k]]) \cup {Undef}
<1> DEFINE c == CellOf(depth, insn.rhs[k])
<1>1. c \in Cell /\ TypeAt(c) = TypeOf[insn.rhs[k]]
  BY CellOfVisible DEF TypeOK
<1>2. cells[c] \in Contents(TypeAt(c)) \cup {Undef}
  BY <1>1 DEF TypeOK
<1> QED
  BY <1>1, <1>2 DEF Loads, Operand, At

-----------------------------------------------------------------------------
(* TypeInv is inductive.                                                   *)

Statuses == {"running", "done", "aborted", "crashed"}

LEMMA StoreKeepsTypes ==
  ASSUME TypeInv, insn.lhs \in Visible(depth),
         NEW w \in Contents(TypeOf[insn.lhs]) \cup {Undef}, Store(w),
         UNCHANGED frame, status' \in Statuses, insn' = NoInsn,
         DOMAIN heap' \subseteq Addr, heap' \in [DOMAIN heap' -> I64]
  PROVE  TypeInv'
<1> DEFINE c == CellOf(depth, insn.lhs)
<1>1. c \in Cell /\ TypeAt(c) = TypeOf[insn.lhs]
  BY CellOfVisible DEF TypeInv, TypeOK
<1>2. cells' = [cells EXCEPT ![c] = w] /\ assigned' = assigned \cup {c}
  BY DEF Store, Marked
<1>3. w \in I64 \cup Word \cup {Undef}
  BY ContentsFacts
<1>4. cells' \in [Cell -> I64 \cup Word \cup {Undef}] /\ assigned' \subseteq Cell
  BY <1>1, <1>2, <1>3 DEF TypeInv, TypeOK
<1>5. \A e \in Cell : cells'[e] \in Contents(TypeAt(e)) \cup {Undef}
  BY <1>1, <1>2 DEF TypeInv, TypeOK
<1> QED
  BY <1>4, <1>5 DEF TypeInv, TypeOK, ResultsFit, frame, Statuses

LEMMA StopKeepsTypes ==
  ASSUME TypeInv, NEW s \in Statuses, Stop(s), insn' = NoInsn
  PROVE  TypeInv'
BY DEF TypeInv, TypeOK, ResultsFit, Stop, frame, Statuses

LEMMA InitTyped == Init => TypeInv
<1> SUFFICES ASSUME Init PROVE TypeInv
  OBVIOUS
<1>1. 0 \in Word /\ 0 \in I64
  BY HalfFacts DEF Word, I64
<1>2. \A t : 0 \in Contents(t)
  BY <1>1 DEF Contents
<1>3. cells \in [Cell -> I64 \cup Word \cup {Undef}]
  BY <1>1 DEF Init
<1>4. \A c \in Cell : cells[c] \in Contents(TypeAt(c)) \cup {Undef}
  BY <1>2 DEF Init
<1>5. DOMAIN heap = {} /\ heap \in [DOMAIN heap -> I64]
  BY DEF Init
<1>6. depth \in 1 .. MaxDepth /\ 2 .. depth = {}
  BY SizesAssumption DEF Init
<1>7. dest \in [2 .. MaxDepth -> Global \cup MainLocal \cup Local \cup {NoVar}]
  BY DEF Init
<1> QED
  BY <1>3, <1>4, <1>5, <1>6, <1>7 DEF Init, TypeInv, TypeOK, ResultsFit

LEMMA FetchTyped == TypeInv /\ Fetch => TypeInv'
  BY DEF TypeInv, TypeOK, ResultsFit, Fetch, frame

\* The operands of an instruction of one and of two operands.
LEMMA UnaryOperand ==
  ASSUME TypeInv, insn # NoInsn, insn.kind \in {"move", "not", "neg", "type_cast"}
  PROVE  /\ insn.lhs \in Visible(depth) /\ 1 \in DOMAIN insn.rhs
         /\ insn.rhs[1] \in Visible(depth) /\ UnaryTyped(insn.kind, insn.lhs, insn.rhs[1])
<1>1. depth \in 1 .. MaxDepth /\ insn \in Instructions[depth]
  BY DEF TypeInv, TypeOK
<1>2. PICK y \in Visible(depth) : insn.rhs = <<y>> /\ UnaryTyped(insn.kind, insn.lhs, y)
  BY <1>1, InsnCases, InstructionsAssumption DEF BinaryOp
<1>3. insn.lhs \in Visible(depth)
  BY <1>1, InsnCases, InstructionsAssumption DEF BinaryOp
<1> QED
  BY <1>2, <1>3

LEMMA BinaryOperands ==
  ASSUME TypeInv, insn # NoInsn, insn.kind \in BinaryOp
  PROVE  /\ insn.lhs \in Visible(depth) /\ 1 \in DOMAIN insn.rhs /\ 2 \in DOMAIN insn.rhs
         /\ insn.rhs[1] \in Visible(depth) /\ insn.rhs[2] \in Visible(depth)
         /\ BinaryTyped(insn.kind, insn.lhs, insn.rhs[1], insn.rhs[2])
<1>1. depth \in 1 .. MaxDepth /\ insn \in Instructions[depth]
  BY DEF TypeInv, TypeOK
<1>2. PICK y, z \in Visible(depth) :
        insn.rhs = <<y, z>> /\ BinaryTyped(insn.kind, insn.lhs, y, z)
  BY <1>1, InsnCases DEF BinaryOp
<1>3. insn.lhs \in Visible(depth)
  BY <1>1, InsnCases DEF BinaryOp
<1> QED
  BY <1>2, <1>3

LEMMA ConstantLoadTyped ==
  TypeInv /\ insn # NoInsn /\ insn' = NoInsn /\ ConstantLoad => TypeInv'
<1> SUFFICES ASSUME TypeInv, insn # NoInsn, insn' = NoInsn, ConstantLoad PROVE TypeInv'
  OBVIOUS
<1>1. UNCHANGED <<heap, frame, status>>
  BY DEF ConstantLoad
<1>2. CASE UNCHANGED <<cells, assigned>>
  BY <1>1, <1>2 DEF TypeInv, TypeOK, ResultsFit, frame
<1>3. CASE Store(insn.lit)
  <2>1. depth \in 1 .. MaxDepth /\ insn \in Instructions[depth]
    BY DEF TypeInv, TypeOK
  <2>2. insn.lhs \in Visible(depth) /\ insn.lit \in Literals(TypeOf[insn.lhs])
    BY <2>1, InsnCases, InstructionsAssumption DEF ConstantLoad, BinaryOp
  <2>3. 0 \in Word /\ IntConst \subseteq I64
    BY InstructionsAssumption, HalfFacts DEF Word, I64
  <2>4. \A t : Literals(t) \subseteq Contents(t)
    BY <2>3 DEF Literals, Contents
  <2>5. insn.lit \in Contents(TypeOf[insn.lhs])
    BY <2>2, <2>4
  <2> QED
    BY <1>1, <1>3, <2>2, <2>5, StoreKeepsTypes DEF TypeInv, TypeOK, Statuses
<1> QED
  BY <1>2, <1>3 DEF ConstantLoad

LEMMA MoveTyped == TypeInv /\ insn # NoInsn /\ insn' = NoInsn /\ Move => TypeInv'
<1> SUFFICES ASSUME TypeInv, insn # NoInsn, insn' = NoInsn, Move PROVE TypeInv'
  OBVIOUS
<1>1. /\ insn.lhs \in Visible(depth) /\ 1 \in DOMAIN insn.rhs
      /\ insn.rhs[1] \in Visible(depth) /\ TypeOf[insn.lhs] = TypeOf[insn.rhs[1]]
  BY UnaryOperand DEF Move, UnaryTyped
<1>2. Operand(1) \in Contents(TypeOf[insn.lhs]) \cup {Undef}
  BY <1>1, LoadsTyped DEF TypeInv
<1> QED
  BY <1>1, <1>2, StoreKeepsTypes DEF Move, TypeInv, TypeOK, Statuses

LEMMA NotTyped == TypeInv /\ insn # NoInsn /\ insn' = NoInsn /\ Not => TypeInv'
<1> SUFFICES ASSUME TypeInv, insn # NoInsn, insn' = NoInsn, Not PROVE TypeInv'
  OBVIOUS
<1>1. /\ insn.lhs \in Visible(depth) /\ 1 \in DOMAIN insn.rhs
      /\ insn.rhs[1] \in Visible(depth)
      /\ TypeOf[insn.lhs] = "boolean" /\ TypeOf[insn.rhs[1]] = "boolean"
  BY UnaryOperand DEF Not, UnaryTyped
<1>2. PICK b \in Loads(1) : Store(1 - b)
  BY DEF Not
<1>3. b \in {0, 1}
  BY <1>1, LoadsTyped, ContentsFacts DEF TypeInv
<1>4. 1 - b \in Contents(TypeOf[insn.lhs])
  BY <1>1, <1>3, ContentsFacts
<1> QED
  BY <1>1, <1>2, <1>4, StoreKeepsTypes DEF Not, TypeInv, TypeOK, Statuses

LEMMA NegTyped == TypeInv /\ insn # NoInsn /\ insn' = NoInsn /\ Neg => TypeInv'
<1> SUFFICES ASSUME TypeInv, insn # NoInsn, insn' = NoInsn, Neg PROVE TypeInv'
  OBVIOUS
<1>1. /\ insn.lhs \in Visible(depth) /\ 1 \in DOMAIN insn.rhs
      /\ insn.rhs[1] \in Visible(depth)
      /\ TypeOf[insn.lhs] = "int" /\ TypeOf[insn.rhs[1]] = "int"
  BY UnaryOperand DEF Neg, UnaryTyped
<1>2. PICK n \in Loads(1) : Store(ToI64(-n))
  BY DEF Neg
<1>3. n \in Int
  BY <1>1, LoadsTyped, ContentsFacts DEF TypeInv
<1>4. ToI64(-n) \in Contents(TypeOf[insn.lhs])
  BY <1>1, <1>3, ToI64Range, ContentsFacts
<1> QED
  BY <1>1, <1>2, <1>4, StoreKeepsTypes DEF Neg, TypeInv, TypeOK, Statuses

LEMMA BinaryIsTyped == TypeInv /\ insn # NoInsn /\ insn' = NoInsn /\ Binary => TypeInv'
<1> SUFFICES ASSUME TypeInv, insn # NoInsn, insn' = NoInsn, Binary PROVE TypeInv'
  OBVIOUS
<1>1. /\ insn.lhs \in Visible(depth) /\ 1 \in DOMAIN insn.rhs /\ 2 \in DOMAIN insn.rhs
      /\ insn.rhs[1] \in Visible(depth) /\ insn.rhs[2] \in Visible(depth)
      /\ BinaryTyped(insn.kind, insn.lhs, insn.rhs[1], insn.rhs[2])
  BY BinaryOperands DEF Binary
<1>2. PICK m \in Loads(1), n \in Loads(2) : ~Traps(n) /\ Store(Computed(insn.kind, m, n))
  BY DEF Binary
<1>3. m \in Contents(TypeOf[insn.rhs[1]]) /\ n \in Contents(TypeOf[insn.rhs[2]])
  BY <1>1, LoadsTyped DEF TypeInv
<1>4. m \in Int /\ n \in Int
  BY <1>3, ContentsFacts
<1>5. insn.kind \notin Comparison => m \in I64 /\ n \in I64
  BY <1>1, <1>3, ContentsFacts DEF BinaryTyped, Accepts, Comparison
<1>6. Computed(insn.kind, m, n) \in Contents(TypeOf[insn.lhs])
  BY <1>1, <1>2, <1>4, <1>5, ComputedRange DEF Binary, BinaryTyped, Traps
<1> QED
  BY <1>1, <1>2, <1>6, StoreKeepsTypes DEF Binary, TypeInv, TypeOK, Statuses

\* The variables and the operand of a cast.
LEMMA CastOperand ==
  ASSUME TypeInv, insn # NoInsn, NEW from, NEW to, IsCast(from, to)
  PROVE  /\ insn.lhs \in Visible(depth) /\ TypeOf[insn.lhs] = to
         /\ Loads(1) \subseteq Contents(from)
         /\ Operand(1) \in Contents(from) \cup {Undef}
<1>1. /\ insn.lhs \in Visible(depth) /\ 1 \in DOMAIN insn.rhs
      /\ insn.rhs[1] \in Visible(depth)
  BY UnaryOperand DEF IsCast
<1> QED
  BY <1>1, LoadsTyped DEF IsCast, TypeInv

LEMMA TypeCastTyped == TypeInv /\ insn # NoInsn /\ insn' = NoInsn /\ TypeCast => TypeInv'
<1> SUFFICES ASSUME TypeInv, insn # NoInsn, insn' = NoInsn, TypeCast PROVE TypeInv'
  OBVIOUS
<1>1. /\ status \in Statuses /\ DOMAIN heap \subseteq Addr /\ heap \in [DOMAIN heap -> I64]
  BY DEF TypeInv, TypeOK, Statuses
<1>2. CASE CopyAny
  <2>1. /\ insn.lhs \in Visible(depth)
        /\ Operand(1) \in Contents(TypeOf[insn.lhs]) \cup {Undef}
    BY <1>2, CastOperand DEF CopyAny
  <2> QED
    BY <1>1, <1>2, <2>1, StoreKeepsTypes DEF CopyAny
<1>3. CASE CastToInt
  <2>1. insn.lhs \in Visible(depth) /\ TypeOf[insn.lhs] = "int" /\ Loads(1) \subseteq Word
    BY <1>3, CastOperand, ContentsFacts DEF CastToInt
  <2>2. PICK n \in I64 : Store(n)
    BY <1>1, <1>3, <2>1, UntaggedRange DEF CastToInt
  <2>3. n \in Contents(TypeOf[insn.lhs])
    BY <2>1, ContentsFacts
  <2> QED
    BY <1>1, <1>3, <2>1, <2>2, <2>3, StoreKeepsTypes DEF CastToInt
<1>4. CASE CastToIntGoesWild
  <2>1. insn.lhs \in Visible(depth) /\ Contents(TypeOf[insn.lhs]) = I64
    BY <1>4, CastOperand, ContentsFacts DEF CastToIntGoesWild
  <2>2. CASE Stop("crashed")
    BY <2>2, StopKeepsTypes DEF Statuses
  <2>3. CASE (\E n \in I64 : Store(n)) /\ UNCHANGED <<heap, frame, status>>
    BY <1>1, <2>1, <2>3, StoreKeepsTypes
  <2> QED
    BY <1>4, <2>2, <2>3 DEF CastToIntGoesWild
<1>5. CASE CastToIntAborts
  BY <1>5, StopKeepsTypes DEF CastToIntAborts, Statuses
<1>6. CASE CastToBoolean
  <2>1. insn.lhs \in Visible(depth) /\ Contents(TypeOf[insn.lhs]) = {0, 1}
    BY <1>6, CastOperand, ContentsFacts DEF CastToBoolean
  <2>2. PICK w \in Loads(1) : Store(AnyToBool(w))
    BY <1>6 DEF CastToBoolean
  <2>3. AnyToBool(w) \in {0, 1}
    BY DEF AnyToBool
  <2> QED
    BY <1>1, <1>6, <2>1, <2>2, <2>3, StoreKeepsTypes DEF CastToBoolean
<1>7. CASE CastBoolean
  <2>1. /\ insn.lhs \in Visible(depth) /\ Contents(TypeOf[insn.lhs]) = Word
        /\ Loads(1) \subseteq {0, 1}
    BY <1>7, CastOperand, ContentsFacts DEF CastBoolean
  <2>2. PICK b \in {0, 1} : Store(BoolToAny(b))
    BY <1>7, <2>1 DEF CastBoolean
  <2>3. BoolToAny(b) \in Word
    BY BooleanRoundTrip
  <2> QED
    BY <1>1, <1>7, <2>1, <2>2, <2>3, StoreKeepsTypes DEF CastBoolean
<1>8. CASE CastInt
  <2>1. /\ insn.lhs \in Visible(depth) /\ Contents(TypeOf[insn.lhs]) = Word
        /\ Loads(1) \subseteq I64
    BY <1>8, CastOperand, ContentsFacts DEF CastInt
  <2>2. PICK n \in I64 : IsSmall(n) /\ Store(Tagged(n))
    BY <1>8, <2>1 DEF CastInt
  <2>3. Tagged(n) \in Word
    BY <2>2, SmallRoundTrip
  <2> QED
    BY <1>1, <1>8, <2>1, <2>2, <2>3, StoreKeepsTypes DEF CastInt
<1>9. CASE BoxInt
  <2>1. /\ insn.lhs \in Visible(depth) /\ Contents(TypeOf[insn.lhs]) = Word
        /\ Loads(1) \subseteq I64
    BY <1>9, CastOperand, ContentsFacts DEF BoxInt
  <2>2. PICK n \in I64, a \in Addr \ DOMAIN heap :
          /\ heap' = [b \in DOMAIN heap \cup {a} |-> IF b = a THEN n ELSE heap[b]]
          /\ Store(a)
    BY <1>9, <2>1 DEF BoxInt
  <2>3. a \in Word
    BY AddressFacts
  <2>4. DOMAIN heap' \subseteq Addr /\ heap' \in [DOMAIN heap' -> I64]
    BY <1>1, <2>2
  <2> QED
    BY <1>1, <1>9, <2>1, <2>2, <2>3, <2>4, StoreKeepsTypes DEF BoxInt
<1>10. CASE BoxIntFails
  BY <1>10, StopKeepsTypes DEF BoxIntFails, Statuses
<1>11. CASE BitCast
  <2>1. insn.lhs \in Visible(depth)
    BY <1>11, CastOperand DEF BitCast
  <2>2. CellOf(depth, insn.lhs) \in Cell
    BY <2>1, CellOfVisible DEF TypeInv, TypeOK
  <2> QED
    BY <1>11, <2>2 DEF BitCast, Marked, TypeInv, TypeOK, ResultsFit, frame
<1> QED
  BY <1>2, <1>3, <1>4, <1>5, <1>6, <1>7, <1>8, <1>9, <1>10, <1>11 DEF TypeCast

\* What a call passes to a parameter.
LEMMA CallArguments ==
  ASSUME TypeInv, insn # NoInsn, insn.kind = "call"
  PROVE  /\ depth < MaxDepth /\ insn.lhs \in Visible(depth)
         /\ TypeOf[insn.lhs] = TypeOf[ReturnVar]
         /\ \A x \in Names(ArgLocals) :
              LET k == Position(ArgLocals, x)
              IN  /\ k \in DOMAIN insn.rhs /\ insn.rhs[k] \in Visible(depth)
                  /\ ArgLocals[k] = x /\ TypeOf[insn.rhs[k]] = TypeOf[x]
<1>1. depth \in 1 .. MaxDepth /\ insn \in Instructions[depth]
  BY DEF TypeInv, TypeOK
<1>2. /\ depth < MaxDepth /\ insn.lhs \in Visible(depth)
      /\ insn.rhs \in [DOMAIN Params -> Visible(depth)] /\ CallTyped(insn.lhs, insn.rhs)
  BY <1>1, InsnCases, InstructionsAssumption DEF BinaryOp
<1>3. ASSUME NEW x \in Names(ArgLocals)
      PROVE  LET k == Position(ArgLocals, x)
             IN  /\ k \in DOMAIN insn.rhs /\ insn.rhs[k] \in Visible(depth)
                 /\ ArgLocals[k] = x /\ TypeOf[insn.rhs[k]] = TypeOf[x]
  <2> DEFINE k == Position(ArgLocals, x)
  <2>1. k \in DOMAIN Params /\ Params[k] = x
    BY ArgAssumption DEF Names, Position
  <2> QED
    BY <1>2, <2>1, ArgAssumption DEF CallTyped
<1> QED
  BY <1>2, <1>3 DEF CallTyped

LEMMA CallIsTyped == TypeInv /\ insn # NoInsn /\ insn' = NoInsn /\ Call => TypeInv'
<1> SUFFICES ASSUME TypeInv, insn # NoInsn, insn' = NoInsn, Call PROVE TypeInv'
  OBVIOUS
<1>1. depth \in 1 .. MaxDepth /\ MaxDepth \in Nat
  BY SizesAssumption DEF TypeInv, TypeOK
<1>2. depth < MaxDepth /\ insn.lhs \in Visible(depth) /\ TypeOf[insn.lhs] = TypeOf[ReturnVar]
  BY CallArguments DEF Call
<1>3. \A x \in Names(ArgLocals) : Argument(x) \in Contents(TypeOf[x]) \cup {Undef}
  BY CallArguments, LoadsTyped DEF Call, Argument, TypeInv
<1>4. \A c \in Cell : cells'[c] \in Contents(TypeAt(c)) \cup {Undef}
  BY <1>3 DEF Call, TypeAt, TypeInv, TypeOK
<1>5. cells' \in [Cell -> I64 \cup Word \cup {Undef}]
  <2>1. cells' = [c \in Cell |-> cells'[c]]
    BY DEF Call
  <2>2. \A c \in Cell : cells'[c] \in I64 \cup Word \cup {Undef}
    BY <1>4, ContentsFacts
  <2> QED
    BY <2>1, <2>2
<1>6. assigned' \subseteq Cell /\ depth' \in 1 .. MaxDepth
  BY <1>1, <1>2 DEF Call, TypeInv, TypeOK
<1>7. insn.lhs \in Global \cup MainLocal \cup Local
  BY <1>2 DEF Visible
<1>8. dest' \in [2 .. MaxDepth -> Global \cup MainLocal \cup Local \cup {NoVar}]
  BY <1>7 DEF Call, TypeInv, TypeOK
<1>9. ResultsFit'
  <2> SUFFICES ASSUME NEW d \in 2 .. depth'
               PROVE  dest'[d] \in Visible(d - 1) /\ TypeOf[dest'[d]] = TypeOf[ReturnVar]
    BY DEF ResultsFit
  <2>1. depth' = depth + 1 /\ dest' = [dest EXCEPT ![depth + 1] = insn.lhs]
    BY DEF Call
  <2>2. dest \in [2 .. MaxDepth -> Global \cup MainLocal \cup Local \cup {NoVar}]
    BY DEF TypeInv, TypeOK
  <2>3. CASE d = depth + 1
    BY <1>1, <1>2, <2>1, <2>2, <2>3
  <2>4. CASE d # depth + 1
    BY <1>1, <1>2, <2>1, <2>2, <2>4 DEF TypeInv, ResultsFit
  <2> QED
    BY <2>3, <2>4
<1> QED
  BY <1>4, <1>5, <1>6, <1>8, <1>9 DEF Call, TypeInv, TypeOK

LEMMA ReturnFacts ==
  ASSUME TypeInv, insn # NoInsn, insn.kind = "return", depth > 1
  PROVE  /\ insn.rhs = <<ReturnVar>> /\ Operand(1) \in Contents(TypeOf[ReturnVar]) \cup {Undef}
         /\ Target \in Cell /\ TypeAt(Target) = TypeOf[ReturnVar]
<1>1. depth \in 1 .. MaxDepth /\ insn \in Instructions[depth] /\ MaxDepth \in Nat
  BY SizesAssumption DEF TypeInv, TypeOK
<1>2. insn.rhs = <<ReturnVar>>
  BY <1>1, InsnCases, InstructionsAssumption DEF BinaryOp
<1>3. 1 \in DOMAIN insn.rhs /\ insn.rhs[1] = ReturnVar /\ ReturnVar \in Visible(depth)
  BY <1>1, <1>2, NamesAssumption DEF Visible
<1>4. depth \in 2 .. depth /\ depth - 1 \in 1 .. MaxDepth
  BY <1>1
<1>5. dest[depth] \in Visible(depth - 1) /\ TypeOf[dest[depth]] = TypeOf[ReturnVar]
  BY <1>4 DEF TypeInv, ResultsFit
<1> QED
  BY <1>2, <1>3, <1>4, <1>5, LoadsTyped, CellOfVisible DEF Target, TypeInv

LEMMA ReturnTyped == TypeInv /\ insn # NoInsn /\ insn' = NoInsn /\ Return => TypeInv'
<1> SUFFICES ASSUME TypeInv, insn # NoInsn, insn' = NoInsn, Return PROVE TypeInv'
  OBVIOUS
<1>1. depth \in 1 .. MaxDepth /\ MaxDepth \in Nat /\ depth > 1
  BY SizesAssumption DEF TypeInv, TypeOK, Return
<1>2. /\ Operand(1) \in Contents(TypeOf[ReturnVar]) \cup {Undef}
      /\ Target \in Cell /\ TypeAt(Target) = TypeOf[ReturnVar]
  BY ReturnFacts DEF Return
<1>3. \A c \in Cell : cells'[c] \in Contents(TypeAt(c)) \cup {Undef}
  BY <1>2 DEF Return, TypeInv, TypeOK
<1>4. cells' \in [Cell -> I64 \cup Word \cup {Undef}]
  <2>1. cells' = [c \in Cell |-> cells'[c]]
    BY DEF Return
  <2>2. \A c \in Cell : cells'[c] \in I64 \cup Word \cup {Undef}
    BY <1>3, ContentsFacts
  <2> QED
    BY <2>1, <2>2
<1>5. assigned' \subseteq Cell /\ depth' \in 1 .. MaxDepth
  BY <1>1, <1>2 DEF Return, TypeInv, TypeOK
<1>6. dest' \in [2 .. MaxDepth -> Global \cup MainLocal \cup Local \cup {NoVar}]
  BY DEF Return, TypeInv, TypeOK
<1>7. ResultsFit'
  <2> SUFFICES ASSUME NEW d \in 2 .. depth'
               PROVE  dest'[d] \in Visible(d - 1) /\ TypeOf[dest'[d]] = TypeOf[ReturnVar]
    BY DEF ResultsFit
  <2>1. d \in 2 .. depth /\ d # depth /\ d \in 2 .. MaxDepth
    BY <1>1 DEF Return
  <2>2. dest'[d] = dest[d]
    BY <2>1 DEF Return, TypeInv, TypeOK
  <2> QED
    BY <2>1, <2>2 DEF TypeInv, ResultsFit
<1> QED
  BY <1>3, <1>4, <1>5, <1>6, <1>7 DEF Return, TypeInv, TypeOK

LEMMA StepTyped == TypeInv /\ [Next]_vars => TypeInv'
<1> SUFFICES ASSUME TypeInv, [Next]_vars PROVE TypeInv'
  OBVIOUS
<1>1. CASE UNCHANGED vars
  BY <1>1 DEF vars, TypeInv, TypeOK, ResultsFit
<1>2. CASE Fetch
  BY <1>2, FetchTyped
<1>3. CASE Execute
  <2>1. insn # NoInsn /\ insn' = NoInsn
    BY <1>3 DEF Execute
  <2>2. BinaryTraps \/ MainReturns => TypeInv'
    BY <2>1, StopKeepsTypes DEF BinaryTraps, MainReturns, Statuses
  <2> QED
    BY <1>3, <2>1, <2>2, ConstantLoadTyped, MoveTyped, NotTyped, NegTyped, BinaryIsTyped,
       TypeCastTyped, CallIsTyped, ReturnTyped DEF Execute
<1> QED
  BY <1>1, <1>2, <1>3 DEF Next

\* Whatever the program, every cell holds a word of its type, a box holds an
\* int and the result of a call has the type of the variable it goes to.
THEOREM TypeCorrect == Spec => []TypeOK
<1>1. TypeInv => TypeOK
  BY DEF TypeInv
<1> QED
  BY <1>1, InitTyped, StepTyped, PTL DEF Spec

-----------------------------------------------------------------------------
(* A call leaves its callers alone.                                        *)

\* An instruction that is no call and no return stores in a cell of the
\* running call or in a global.
LEMMA StoresStayInFrame ==
  ASSUME TypeInv, insn # NoInsn, Execute, ~Call, ~Return
  PROVE  cells' = cells \/ \E w : cells' = [cells EXCEPT ![CellOf(depth, insn.lhs)] = w]
<1>1. CASE ConstantLoad
  BY <1>1 DEF ConstantLoad, Store
<1>2. CASE Move
  BY <1>2 DEF Move, Store
<1>3. CASE Not
  BY <1>3 DEF Not, Store
<1>4. CASE Neg
  BY <1>4 DEF Neg, Store
<1>5. CASE Binary
  BY <1>5 DEF Binary, Store
<1>6. CASE BinaryTraps \/ MainReturns
  BY <1>6 DEF BinaryTraps, MainReturns, Stop
<1>7. CASE CopyAny \/ CastToInt \/ CastToBoolean \/ CastBoolean \/ CastInt \/ BoxInt
  BY <1>7 DEF CopyAny, CastToInt, CastToBoolean, CastBoolean, CastInt, BoxInt, Store
<1>8. CASE CastToIntGoesWild \/ CastToIntAborts \/ BoxIntFails
  BY <1>8 DEF CastToIntGoesWild, CastToIntAborts, BoxIntFails, Stop, Store
<1>9. CASE BitCast
  BY <1>9 DEF BitCast
<1> QED
  BY <1>1, <1>2, <1>3, <1>4, <1>5, <1>6, <1>7, <1>8, <1>9 DEF Execute, TypeCast

LEMMA StepSparesCallers ==
  ASSUME TypeInv, Next,
         NEW c \in Cell, c[1] \in 1 .. depth - 1, cells'[c] # cells[c]
  PROVE  depth' = depth - 1 /\ c = <<depth - 1, dest[depth]>>
<1>1. depth \in 1 .. MaxDepth /\ MaxDepth \in Nat /\ depth > 1
  BY SizesAssumption DEF TypeInv, TypeOK
<1>2. CASE Fetch
  BY <1>2 DEF Fetch
<1>3. CASE Execute /\ ~Call /\ ~Return
  <2>1. CellOf(depth, insn.lhs)[1] \in {0, depth}
    BY DEF CellOf
  <2>2. c # CellOf(depth, insn.lhs)
    BY <1>1, <2>1
  <2>3. cells'[c] = cells[c]
    BY <1>3, <2>2, StoresStayInFrame DEF Execute, TypeInv, TypeOK
  <2> QED
    BY <2>3
<1>4. CASE Call
  BY <1>1, <1>4 DEF Call
<1>5. CASE Return
  <2>1. c = Target
    BY <1>1, <1>5 DEF Return
  <2>2. c[1] # 0
    BY <1>1
  <2> QED
    BY <1>1, <1>5, <2>1, <2>2 DEF Return, Target, CellOf
<1> QED
  BY <1>2, <1>3, <1>4, <1>5 DEF Next

\* Recursion or not, whatever is cast to what in the meantime, a call changes
\* nothing of its callers but the variable its result goes to.
THEOREM CallersSafe == Spec => CallersAreUntouched
<1>1. TypeInv /\ [Next]_vars =>
        [\A c \in Cell : c[1] \in 1 .. depth - 1 /\ cells'[c] # cells[c] =>
           depth' = depth - 1 /\ c = <<depth - 1, dest[depth]>>]_vars
  BY StepSparesCallers
<1> QED
  BY <1>1, InitTyped, StepTyped, PTL DEF Spec, CallersAreUntouched

-----------------------------------------------------------------------------
(* Without a cast of nil, IInv is inductive.                               *)

WellTagged(h, w) == IsTagged(w) \/ w \in DOMAIN h \/ IsBool(w)

LEMMA BoxFacts ==
  ASSUME TypeOK, BoxesAreLarge
  PROVE  \A w : IsBox(w) => ~IsSmall(heap[w]) /\ ~IsTagged(w) /\ AnyToBool(w) = 0 /\ ~IsBool(w)
BY AddressFacts DEF TypeOK, BoxesAreLarge, IsBox

LEMMA EveryAnyFacts ==
  ASSUME TypeOK, BoxesAreLarge,
         \A c \in assigned : TypeAt(c) = "any" /\ cells[c] # Undef => WellTagged(heap, cells[c])
  PROVE  EveryAnyIsTagged
BY BoxFacts DEF EveryAnyIsTagged, WellTagged, IsBox

\* What an instruction loads was stored, and is what the cell holds.
LEMMA LoadsStored ==
  ASSUME IInv, NEW k \in DOMAIN insn.rhs, insn.rhs[k] \in Visible(depth)
  PROVE  /\ CellOf(depth, insn.rhs[k]) \in assigned
         /\ Operand(k) # Undef /\ Loads(k) = {Operand(k)}
         /\ Operand(k) \in Contents(TypeOf[insn.rhs[k]])
         /\ TypeOf[insn.rhs[k]] = "any" => WellTagged(heap, Operand(k))
<1> DEFINE c == CellOf(depth, insn.rhs[k])
<1>1. c \in assigned /\ TypeAt(c) = TypeOf[insn.rhs[k]]
  BY CellOfVisible DEF IInv, OperandsAreAssigned, TypeInv, TypeOK
<1>2. cells[c] # Undef
  BY <1>1 DEF IInv, AssignedCellsAreStored
<1>3. TypeAt(c) = "any" => WellTagged(heap, cells[c])
  BY <1>1, <1>2 DEF IInv, EveryAnyIsTagged, WellTagged, IsBox
<1> QED
  BY <1>1, <1>2, <1>3, LoadsTyped DEF Operand, At, Loads, IInv, TypeInv

\* Boxes stay what they are when one is added.
HeapGrows == \A a \in DOMAIN heap : a \in DOMAIN heap' /\ heap'[a] = heap[a]

LEMMA StoreKeepsIInv ==
  ASSUME IInv, TypeInv', insn.lhs \in Visible(depth), NEW w, Store(w), w # Undef,
         UNCHANGED frame, insn' = NoInsn, HeapGrows, BoxesAreLarge',
         TypeOf[insn.lhs] = "any" => WellTagged(heap', w)
  PROVE  IInv'
<1> DEFINE c == CellOf(depth, insn.lhs)
<1>1. c \in Cell /\ TypeAt(c) = TypeOf[insn.lhs] /\ c[1] <= depth
  BY CellOfVisible DEF IInv, TypeInv, TypeOK, CellOf
<1>2. cells' = [cells EXCEPT ![c] = w] /\ assigned' = assigned \cup {c}
  BY DEF Store, Marked
<1>3. \A e \in Cell : cells'[e] = IF e = c THEN w ELSE cells[e]
  BY <1>2 DEF IInv, TypeInv, TypeOK
<1>4. assigned \subseteq Cell /\ assigned' \subseteq Cell
  BY DEF IInv, TypeInv, TypeOK
<1>5. AssignedCellsAreStored'
  BY <1>2, <1>3, <1>4 DEF IInv, AssignedCellsAreStored
<1>6. ASSUME NEW e \in assigned', TypeAt(e) = "any", cells'[e] # Undef
      PROVE  WellTagged(heap', cells'[e])
  <2>1. CASE e = c
    BY <1>1, <1>3, <1>6, <2>1
  <2>2. CASE e # c
    <3>1. e \in assigned /\ cells'[e] = cells[e]
      BY <1>2, <1>3, <1>4, <2>2
    <3>2. WellTagged(heap, cells[e])
      BY <1>6, <3>1 DEF IInv, EveryAnyIsTagged, WellTagged, IsBox
    <3> QED
      BY <3>1, <3>2 DEF WellTagged, HeapGrows
  <2> QED
    BY <2>1, <2>2
<1>7. EveryAnyIsTagged'
  <2>1. TypeOK'
    BY DEF TypeInv
  <2>2. \A e \in assigned' : TypeAt(e) = "any" /\ cells'[e] # Undef => WellTagged(heap', cells'[e])
    BY <1>6
  <2>3. \A e \in DOMAIN heap' : ~IsSmall(heap'[e]) /\ ~IsTagged(e) /\ AnyToBool(e) = 0
    BY <2>1, AddressFacts DEF TypeOK, BoxesAreLarge, IsBox
  <2> QED
    BY <2>2, <2>3 DEF EveryAnyIsTagged, WellTagged, IsBox
<1>8. OperandsAreAssigned'
  BY DEF OperandsAreAssigned, NoInsn, Insn
<1>9. DeadAreUnassigned'
  BY <1>1, <1>2 DEF IInv, DeadAreUnassigned, frame
<1> QED
  BY <1>5, <1>7, <1>8, <1>9 DEF IInv

LEMMA UndefIsNoContents == \A t : Undef \notin Contents(t)
  BY WordAssumption, HalfFacts DEF Contents, I64, Word

\* The usual case: the heap stays as it is.
LEMMA PlainStoreKeepsIInv ==
  ASSUME IInv, TypeInv', insn.lhs \in Visible(depth), NEW w, Store(w), w # Undef,
         UNCHANGED frame, insn' = NoInsn, heap' = heap,
         TypeOf[insn.lhs] = "any" => WellTagged(heap, w)
  PROVE  IInv'
<1>1. HeapGrows /\ BoxesAreLarge'
  BY DEF HeapGrows, BoxesAreLarge, IInv
<1> QED
  BY <1>1, StoreKeepsIInv

LEMMA StopKeepsIInv ==
  ASSUME IInv, TypeInv', NEW s, Stop(s), insn' = NoInsn
  PROVE  IInv'
BY DEF IInv, Stop, frame, AssignedCellsAreStored, EveryAnyIsTagged, IsBox,
       OperandsAreAssigned, NoInsn, Insn, BoxesAreLarge, DeadAreUnassigned

LEMMA InitStored == Init => IInv
<1> SUFFICES ASSUME Init PROVE IInv
  OBVIOUS
<1>1. DOMAIN heap = {} /\ DOMAIN insn.rhs = {} /\ assigned = {}
  BY DEF Init, NoInsn, Insn
<1> QED
  BY <1>1, InitTyped DEF IInv, AssignedCellsAreStored, EveryAnyIsTagged,
     OperandsAreAssigned, BoxesAreLarge, DeadAreUnassigned

LEMMA FetchStored == IInv /\ Fetch /\ TypeInv' => IInv'
  BY DEF IInv, Fetch, frame, AssignedCellsAreStored, EveryAnyIsTagged, IsBox,
         OperandsAreAssigned, BoxesAreLarge, DeadAreUnassigned

LEMMA ConstantLoadStored ==
  IInv /\ insn # NoInsn /\ insn' = NoInsn /\ ConstantLoad /\ TypeInv' => IInv'
<1> SUFFICES ASSUME IInv, insn # NoInsn, insn' = NoInsn, ConstantLoad, TypeInv' PROVE IInv'
  OBVIOUS
<1>1. UNCHANGED <<heap, frame, status>>
  BY DEF ConstantLoad
<1>2. CASE UNCHANGED <<cells, assigned>>
  BY <1>1, <1>2 DEF IInv, frame, AssignedCellsAreStored, EveryAnyIsTagged, IsBox,
       OperandsAreAssigned, NoInsn, Insn, BoxesAreLarge, DeadAreUnassigned
<1>3. CASE Store(insn.lit)
  <2>1. depth \in 1 .. MaxDepth /\ insn \in Instructions[depth]
    BY DEF IInv, TypeInv, TypeOK
  <2>2. insn.lhs \in Visible(depth) /\ insn.lit \in Literals(TypeOf[insn.lhs])
    BY <2>1, InsnCases, InstructionsAssumption DEF ConstantLoad, BinaryOp
  <2>3. TypeOf[insn.lhs] # "any"
    BY <2>2 DEF Literals
  <2>4. insn.lit # Undef
    BY <2>2, InstructionsAssumption, WordAssumption, HalfFacts DEF Literals
  <2> QED
    BY <1>1, <1>3, <2>2, <2>3, <2>4, PlainStoreKeepsIInv
<1> QED
  BY <1>2, <1>3 DEF ConstantLoad

LEMMA MoveStored == IInv /\ insn # NoInsn /\ insn' = NoInsn /\ Move /\ TypeInv' => IInv'
<1> SUFFICES ASSUME IInv, insn # NoInsn, insn' = NoInsn, Move, TypeInv' PROVE IInv'
  OBVIOUS
<1>1. /\ insn.lhs \in Visible(depth) /\ 1 \in DOMAIN insn.rhs
      /\ insn.rhs[1] \in Visible(depth) /\ TypeOf[insn.lhs] = TypeOf[insn.rhs[1]]
  BY UnaryOperand DEF Move, UnaryTyped, IInv
<1> QED
  BY <1>1, LoadsStored, PlainStoreKeepsIInv DEF Move

LEMMA OperatorsStored ==
  IInv /\ insn # NoInsn /\ insn' = NoInsn /\ (Not \/ Neg \/ Binary) /\ TypeInv' => IInv'
<1> SUFFICES ASSUME IInv, insn # NoInsn, insn' = NoInsn, Not \/ Neg \/ Binary, TypeInv' PROVE IInv'
  OBVIOUS
<1>1. insn.lhs \in Visible(depth) /\ TypeOf[insn.lhs] # "any"
  <2>1. CASE Not \/ Neg
    BY <2>1, UnaryOperand DEF Not, Neg, UnaryTyped, IInv
  <2>2. CASE Binary
    BY <2>2, BinaryOperands DEF Binary, BinaryTyped, ResultType, IInv
  <2> QED
    BY <2>1, <2>2
<1>2. PICK w : Store(w)
  BY DEF Not, Neg, Binary
<1>3. UNCHANGED <<heap, frame, status>>
  BY DEF Not, Neg, Binary
<1>4. w # Undef
  <2> DEFINE c == CellOf(depth, insn.lhs)
  <2>1. c \in Cell /\ TypeAt(c) = TypeOf[insn.lhs] /\ cells'[c] = w
    BY <1>1, <1>2, CellOfVisible DEF IInv, TypeInv, TypeOK, Store
  <2>2. CASE Not
    <3>1. PICK b \in Loads(1) : Store(1 - b)
      BY <2>2 DEF Not
    <3>2. b \in {0, 1}
      BY <2>2, UnaryOperand, LoadsTyped, ContentsFacts DEF Not, UnaryTyped, IInv, TypeInv
    <3>3. cells'[c] = 1 - b
      BY <2>1, <3>1 DEF Store, IInv, TypeInv, TypeOK
    <3> QED
      BY <2>1, <3>2, <3>3, UndefIsNoContents, ContentsFacts
  <2>3. CASE Neg
    <3>1. PICK n \in Loads(1) : Store(ToI64(-n))
      BY <2>3 DEF Neg
    <3>2. n \in Int
      BY <2>3, UnaryOperand, LoadsTyped, ContentsFacts DEF Neg, UnaryTyped, IInv, TypeInv
    <3>3. cells'[c] = ToI64(-n) /\ ToI64(-n) \in I64
      BY <2>1, <3>1, <3>2, ToI64Range DEF Store, IInv, TypeInv, TypeOK
    <3> QED
      BY <2>1, <3>3, UndefIsNoContents, ContentsFacts
  <2>4. CASE Binary
    <3>1. /\ 1 \in DOMAIN insn.rhs /\ 2 \in DOMAIN insn.rhs
          /\ insn.rhs[1] \in Visible(depth) /\ insn.rhs[2] \in Visible(depth)
          /\ BinaryTyped(insn.kind, insn.lhs, insn.rhs[1], insn.rhs[2])
      BY <2>4, BinaryOperands DEF Binary, IInv
    <3>2. PICK m \in Loads(1), n \in Loads(2) :
            ~Traps(n) /\ Store(Computed(insn.kind, m, n))
      BY <2>4 DEF Binary
    <3>3. m \in Contents(TypeOf[insn.rhs[1]]) /\ n \in Contents(TypeOf[insn.rhs[2]])
      BY <3>1, LoadsTyped DEF IInv, TypeInv
    <3>4. insn.kind \notin Comparison => m \in I64 /\ n \in I64
      BY <3>1, <3>3, ContentsFacts DEF BinaryTyped, Accepts, Comparison
    <3>5. Computed(insn.kind, m, n) \in Contents(ResultType(insn.kind))
      BY <2>4, <3>2, <3>3, <3>4, ContentsFacts, ComputedRange DEF Binary, Traps
    <3>6. cells'[c] = Computed(insn.kind, m, n)
      BY <2>1, <3>2 DEF Store, IInv, TypeInv, TypeOK
    <3> QED
      BY <2>1, <3>5, <3>6, UndefIsNoContents
  <2> QED
    BY <2>2, <2>3, <2>4
<1> QED
  BY <1>1, <1>2, <1>3, <1>4, PlainStoreKeepsIInv

LEMMA CastStored ==
  ASSUME IInv, insn # NoInsn, NEW from, NEW to, IsCast(from, to)
  PROVE  /\ insn.lhs \in Visible(depth) /\ TypeOf[insn.lhs] = to
         /\ Loads(1) = {Operand(1)} /\ Operand(1) \in Contents(from) /\ Operand(1) # Undef
         /\ from = "any" => WellTagged(heap, Operand(1))
         /\ 1 \in DOMAIN insn.rhs /\ insn.rhs[1] \in Visible(depth)
         /\ TypeOf[insn.rhs[1]] = from
<1>1. /\ insn.lhs \in Visible(depth) /\ 1 \in DOMAIN insn.rhs
      /\ insn.rhs[1] \in Visible(depth)
  BY UnaryOperand DEF IsCast, IInv
<1> QED
  BY <1>1, LoadsStored DEF IsCast

\* A program without casts of nil has no BitCast.
LEMMA NoBitCast == TypeInv /\ insn # NoInsn /\ NoNilCasts => ~BitCast
  BY UnaryOperand DEF BitCast, IsCast, UnaryTyped, NoNilCasts

LEMMA TypeCastStored ==
  IInv /\ NoNilCasts /\ insn # NoInsn /\ insn' = NoInsn /\ TypeCast /\ TypeInv' => IInv'
<1> SUFFICES ASSUME IInv, NoNilCasts, insn # NoInsn, insn' = NoInsn, TypeCast, TypeInv'
             PROVE  IInv'
  OBVIOUS
<1>1. heap \in [DOMAIN heap -> I64]
  BY DEF IInv, TypeInv, TypeOK
<1>2. CASE CopyAny
  BY <1>2, CastStored, PlainStoreKeepsIInv DEF CopyAny
<1>3. CASE CastToInt
  <2>1. insn.lhs \in Visible(depth) /\ TypeOf[insn.lhs] = "int" /\ Loads(1) \subseteq Word
    BY <1>3, CastStored, ContentsFacts DEF CastToInt
  <2>2. PICK n \in I64 : Store(n)
    BY <1>1, <1>3, <2>1, UntaggedRange DEF CastToInt
  <2>3. n # Undef
    BY UndefIsNoContents, ContentsFacts
  <2> QED
    BY <1>3, <2>1, <2>2, <2>3, PlainStoreKeepsIInv DEF CastToInt
<1>4. CASE CastToIntGoesWild
  <2>1. insn.lhs \in Visible(depth) /\ TypeOf[insn.lhs] = "int"
    BY <1>4, CastStored DEF CastToIntGoesWild
  <2>2. CASE Stop("crashed")
    BY <2>2, StopKeepsIInv
  <2>3. CASE (\E n \in I64 : Store(n)) /\ UNCHANGED <<heap, frame, status>>
    BY <2>1, <2>3, UndefIsNoContents, ContentsFacts, PlainStoreKeepsIInv
  <2> QED
    BY <1>4, <2>2, <2>3 DEF CastToIntGoesWild
<1>5. CASE CastToIntAborts
  BY <1>5, StopKeepsIInv DEF CastToIntAborts
<1>6. CASE CastToBoolean
  <2>1. insn.lhs \in Visible(depth) /\ TypeOf[insn.lhs] = "boolean"
    BY <1>6, CastStored DEF CastToBoolean
  <2>2. PICK w \in Loads(1) : Store(AnyToBool(w))
    BY <1>6 DEF CastToBoolean
  <2>3. AnyToBool(w) # Undef
    BY UndefIsNoContents, ContentsFacts DEF AnyToBool
  <2> QED
    BY <1>6, <2>1, <2>2, <2>3, PlainStoreKeepsIInv DEF CastToBoolean
<1>7. CASE CastBoolean
  <2>1. insn.lhs \in Visible(depth) /\ Loads(1) \subseteq {0, 1}
    BY <1>7, CastStored, ContentsFacts DEF CastBoolean
  <2>2. PICK b \in {0, 1} : Store(BoolToAny(b))
    BY <1>7, <2>1 DEF CastBoolean
  <2>3. BoolToAny(b) # Undef /\ WellTagged(heap, BoolToAny(b))
    BY BooleanRoundTrip, UndefIsNoContents, ContentsFacts DEF WellTagged
  <2> QED
    BY <1>7, <2>1, <2>2, <2>3, PlainStoreKeepsIInv DEF CastBoolean
<1>8. CASE CastInt
  <2>1. insn.lhs \in Visible(depth) /\ Loads(1) \subseteq I64
    BY <1>8, CastStored, ContentsFacts DEF CastInt
  <2>2. PICK n \in I64 : IsSmall(n) /\ Store(Tagged(n))
    BY <1>8, <2>1 DEF CastInt
  <2>3. Tagged(n) # Undef /\ WellTagged(heap, Tagged(n))
    BY <2>2, SmallRoundTrip, UndefIsNoContents, ContentsFacts DEF WellTagged
  <2> QED
    BY <1>8, <2>1, <2>2, <2>3, PlainStoreKeepsIInv DEF CastInt
<1>9. CASE BoxInt
  <2>1. insn.lhs \in Visible(depth) /\ Loads(1) \subseteq I64
    BY <1>9, CastStored, ContentsFacts DEF BoxInt
  <2>2. PICK n \in I64, a \in Addr \ DOMAIN heap :
          /\ ~IsSmall(n)
          /\ heap' = [b \in DOMAIN heap \cup {a} |-> IF b = a THEN n ELSE heap[b]]
          /\ Store(a)
    BY <1>9, <2>1 DEF BoxInt
  <2>3. a # Undef /\ WellTagged(heap', a)
    BY <2>2, AddressFacts, UndefIsNoContents, ContentsFacts DEF WellTagged
  <2>4. HeapGrows /\ BoxesAreLarge'
    BY <2>2 DEF HeapGrows, BoxesAreLarge, IInv
  <2> QED
    BY <1>9, <2>1, <2>2, <2>3, <2>4, StoreKeepsIInv DEF BoxInt
<1>10. CASE BoxIntFails
  BY <1>10, StopKeepsIInv DEF BoxIntFails
<1>11. ~BitCast
  BY NoBitCast DEF IInv
<1> QED
  BY <1>2, <1>3, <1>4, <1>5, <1>6, <1>7, <1>8, <1>9, <1>10, <1>11 DEF TypeCast

\* What a call passes to a parameter was stored.
LEMMA ArgumentStored ==
  ASSUME IInv, insn # NoInsn, insn.kind = "call", NEW x \in Names(ArgLocals)
  PROVE  /\ Argument(x) # Undef
         /\ TypeOf[x] = "any" => WellTagged(heap, Argument(x))
<1>1. LET k == Position(ArgLocals, x)
      IN  k \in DOMAIN insn.rhs /\ insn.rhs[k] \in Visible(depth) /\ TypeOf[insn.rhs[k]] = TypeOf[x]
  BY CallArguments DEF IInv
<1> QED
  BY <1>1, LoadsStored DEF Argument

LEMMA CallStored == IInv /\ insn # NoInsn /\ insn' = NoInsn /\ Call /\ TypeInv' => IInv'
<1> SUFFICES ASSUME IInv, insn # NoInsn, insn' = NoInsn, Call, TypeInv' PROVE IInv'
  OBVIOUS
<1> DEFINE new == {c \in Cell : c[1] = depth + 1 /\ c[2] \in Names(ArgLocals)}
<1>1. depth \in Nat /\ depth' = depth + 1 /\ heap' = heap /\ assigned' = assigned \cup new
  BY SizesAssumption DEF Call, IInv, TypeInv, TypeOK
<1>2. assigned \subseteq Cell /\ \A c \in assigned : c[1] <= depth
  BY DEF IInv, TypeInv, TypeOK, DeadAreUnassigned
<1>3. \A c \in assigned : cells'[c] = cells[c]
  BY <1>1, <1>2 DEF Call
<1>4. \A c \in new : cells'[c] = Argument(c[2])
  BY DEF Call
<1>args. \A c \in new : /\ Argument(c[2]) # Undef
                        /\ TypeAt(c) = "any" => WellTagged(heap, Argument(c[2]))
  <2>1. \A x \in Names(ArgLocals) :
          Argument(x) # Undef /\ (TypeOf[x] = "any" => WellTagged(heap, Argument(x)))
    <3>1. insn.kind = "call"
      BY DEF Call
    <3> TAKE x \in Names(ArgLocals)
    <3> QED
      BY <3>1, ArgumentStored
  <2> QED
    BY <2>1 DEF TypeAt
<1>5. AssignedCellsAreStored'
  <2>1. \A c \in assigned : cells[c] # Undef
    BY DEF IInv, AssignedCellsAreStored
  <2>2. \A c \in assigned' : cells'[c] # Undef
    BY <1>1, <1>3, <1>4, <1>args, <2>1
  <2> QED
    BY <2>2 DEF AssignedCellsAreStored
<1>6. \A c \in assigned' : TypeAt(c) = "any" /\ cells'[c] # Undef => WellTagged(heap', cells'[c])
  <2>1. \A c \in assigned : TypeAt(c) = "any" /\ cells[c] # Undef => WellTagged(heap, cells[c])
    BY DEF IInv, EveryAnyIsTagged, WellTagged, IsBox
  <2> QED
    BY <1>1, <1>3, <1>4, <1>args, <2>1
<1>7. EveryAnyIsTagged'
  <2>1. \A e \in DOMAIN heap' : ~IsSmall(heap'[e]) /\ ~IsTagged(e) /\ AnyToBool(e) = 0
    BY <1>1, AddressFacts DEF IInv, TypeInv, TypeOK, BoxesAreLarge
  <2> QED
    BY <1>6, <2>1 DEF EveryAnyIsTagged, WellTagged, IsBox
<1>8. OperandsAreAssigned' /\ BoxesAreLarge'
  BY <1>1 DEF IInv, OperandsAreAssigned, NoInsn, Insn, BoxesAreLarge
<1>9. DeadAreUnassigned'
  <2>1. \A c \in assigned : c[1] \in Int /\ c[1] <= depth
    BY <1>2, SizesAssumption DEF Cell
  <2>2. \A c \in assigned' : c[1] <= depth + 1
    BY <1>1, <2>1
  <2> QED
    BY <1>1, <2>2 DEF DeadAreUnassigned
<1> QED
  BY <1>5, <1>7, <1>8, <1>9 DEF IInv

LEMMA ReturnedStored ==
  ASSUME IInv, insn # NoInsn, insn.kind = "return", depth > 1
  PROVE  /\ Operand(1) # Undef /\ Operand(1) \in Contents(TypeOf[ReturnVar])
         /\ TypeOf[ReturnVar] = "any" => WellTagged(heap, Operand(1))
<1>1. insn.rhs = <<ReturnVar>>
  BY ReturnFacts DEF IInv
<1>2. depth \in 1 .. MaxDepth
  BY DEF IInv, TypeInv, TypeOK
<1>3. 1 \in DOMAIN insn.rhs /\ insn.rhs[1] = ReturnVar /\ ReturnVar \in Visible(depth)
  BY <1>1, <1>2, NamesAssumption DEF Visible
<1> QED
  BY <1>3, LoadsStored

LEMMA ReturnStored == IInv /\ insn # NoInsn /\ insn' = NoInsn /\ Return /\ TypeInv' => IInv'
<1> SUFFICES ASSUME IInv, insn # NoInsn, insn' = NoInsn, Return, TypeInv' PROVE IInv'
  OBVIOUS
<1>1. /\ depth \in Nat /\ depth > 1 /\ depth' = depth - 1 /\ heap' = heap
      /\ assigned' = {c \in assigned : c[1] # depth} \cup {Target}
  BY SizesAssumption DEF Return, IInv, TypeInv, TypeOK
<1>2. Target \in Cell /\ TypeAt(Target) = TypeOf[ReturnVar] /\ Target[1] \in {0, depth - 1}
  BY ReturnFacts DEF Return, IInv, Target, CellOf
<1>3. assigned \subseteq Cell /\ \A c \in assigned : c[1] \in Int /\ c[1] <= depth
  BY SizesAssumption DEF IInv, TypeInv, TypeOK, DeadAreUnassigned, Cell
<1>4. \A c \in assigned : c[1] # depth /\ c # Target => cells'[c] = cells[c]
  BY <1>3 DEF Return
<1>5. cells'[Target] = Operand(1)
  BY <1>2 DEF Return
<1>6. AssignedCellsAreStored'
  BY <1>1, <1>4, <1>5, ReturnedStored DEF IInv, AssignedCellsAreStored, Return
<1>7. \A c \in assigned' : TypeAt(c) = "any" /\ cells'[c] # Undef => WellTagged(heap', cells'[c])
  <2>1. \A c \in assigned : TypeAt(c) = "any" /\ cells[c] # Undef => WellTagged(heap, cells[c])
    BY DEF IInv, EveryAnyIsTagged, WellTagged, IsBox
  <2>2. TypeAt(Target) = "any" => WellTagged(heap, Operand(1))
    BY <1>2, ReturnedStored DEF Return
  <2> QED
    BY <1>1, <1>4, <1>5, <2>1, <2>2
<1>8. EveryAnyIsTagged'
  <2>1. \A e \in DOMAIN heap' : ~IsSmall(heap'[e]) /\ ~IsTagged(e) /\ AnyToBool(e) = 0
    BY <1>1, AddressFacts DEF IInv, TypeInv, TypeOK, BoxesAreLarge
  <2> QED
    BY <1>7, <2>1 DEF EveryAnyIsTagged, WellTagged, IsBox
<1>9. DeadAreUnassigned'
  BY <1>1, <1>2, <1>3 DEF DeadAreUnassigned
<1>10. OperandsAreAssigned' /\ BoxesAreLarge'
  BY <1>1 DEF IInv, OperandsAreAssigned, NoInsn, Insn, BoxesAreLarge
<1> QED
  BY <1>6, <1>8, <1>9, <1>10 DEF IInv

LEMMA StepStored == NoNilCasts /\ IInv /\ [Next]_vars => IInv'
<1> SUFFICES ASSUME NoNilCasts, IInv, [Next]_vars PROVE IInv'
  OBVIOUS
<1>1. TypeInv'
  BY StepTyped DEF IInv
<1>2. CASE UNCHANGED vars
  BY <1>1, <1>2 DEF vars, IInv, AssignedCellsAreStored, EveryAnyIsTagged, IsBox,
     OperandsAreAssigned, BoxesAreLarge, DeadAreUnassigned
<1>3. CASE Fetch
  BY <1>1, <1>3, FetchStored
<1>4. CASE Execute
  <2>1. insn # NoInsn /\ insn' = NoInsn
    BY <1>4 DEF Execute
  <2>2. BinaryTraps \/ MainReturns => IInv'
    BY <1>1, <2>1, StopKeepsIInv DEF BinaryTraps, MainReturns
  <2> QED
    BY <1>1, <1>4, <2>1, <2>2, ConstantLoadStored, MoveStored, OperatorsStored,
       TypeCastStored, CallStored, ReturnStored DEF Execute
<1> QED
  BY <1>2, <1>3, <1>4 DEF Next

\* IInv holds: what was assigned was stored, and every word of type any has a
\* tag that says what it is.
THEOREM StoredInvariance == NoNilCasts => (Spec => []IInv)
<1> SUFFICES ASSUME NoNilCasts PROVE Spec => []IInv
  OBVIOUS
<1>1. IInv /\ [Next]_vars => IInv'
  BY StepStored
<1> QED
  BY <1>1, InitStored, PTL DEF Spec

\* In a program that casts no nil, every variable the BIR has assigned to has
\* had something stored in it.
THEOREM CellsStored ==
  ASSUME NoNilCasts
  PROVE  Spec => []AssignedCellsAreStored
<1>1. IInv => AssignedCellsAreStored
  BY DEF IInv
<1> QED
  BY <1>1, StoredInvariance, PTL

\* A program that casts no nil can tell the words of its any variables apart:
\* ints in the word, boxed ints and booleans.
THEOREM TagsDistinct ==
  ASSUME NoNilCasts
  PROVE  Spec => []EveryAnyIsTagged
<1>1. IInv => EveryAnyIsTagged
  BY DEF IInv
<1> QED
  BY <1>1, StoredInvariance, PTL

-----------------------------------------------------------------------------
(* The program is the same on both sides.                                  *)

LEMMA SameProgram ==
  /\ Bir!Cell = Cell
  /\ \A d, x : Bir!CellOf(d, x) = CellOf(d, x)
  /\ Bir!I64 = I64
  /\ \A n : Bir!ToI64(n) = ToI64(n)
  /\ \A n : Bir!IntValue(n) = IntValue(n)
  /\ \A b : Bir!BoolValue(b) = BoolValue(b)
  /\ \A n : Bir!IsSmall(n) <=> IsSmall(n)
  /\ \A s : Bir!Names(s) = Names(s)
  /\ Bir!NoInsn = NoInsn
  /\ Bir!BinaryOp = BinaryOp
BY DEF Bir!Cell, Cell, Bir!CellOf, CellOf, Bir!I64, I64, Bir!ToI64, ToI64,
       Bir!IntValue, IntValue, Bir!BoolValue, BoolValue, Bir!IsSmall, IsSmall,
       Bir!Names, Names, Bir!NoInsn, NoInsn, Bir!Insn, Insn, Bir!BinaryOp, BinaryOp

LEMMA SamePosition == \A s, x : Bir!Position(s, x) = Position(s, x)
BY DEF Bir!Position, Position

LEMMA SameInstructions == Bir!Instructions = Instructions
BY DEF Bir!Instructions, Instructions, Bir!Visible, Visible, Bir!ConstantLoads, ConstantLoads,
   Bir!Unaries, Unaries, Bir!Binaries, Binaries, Bir!Calls, Calls, Bir!Insn, Insn,
   Bir!Literals, Literals, Bir!UnaryTyped, UnaryTyped, Bir!BinaryTyped, BinaryTyped,
   Bir!ResultType, ResultType, Bir!Accepts, Accepts, Bir!CallTyped, CallTyped,
   Bir!Comparison, Comparison

-----------------------------------------------------------------------------
(* Words and what they mean.                                               *)

LEMMA MeaningOfTagged == \A w : IsTagged(w) => MeaningOfAny(w) = IntValue(Untagged(w))
  BY DEF MeaningOfAny

LEMMA MeaningOfBox ==
  ASSUME TypeInv, NEW w \in DOMAIN heap
  PROVE  MeaningOfAny(w) = IntValue(heap[w])
BY AddressFacts DEF MeaningOfAny, IsBox, TypeInv, TypeOK

LEMMA MeaningOfBool ==
  ASSUME TypeInv, NEW w, IsBool(w)
  PROVE  MeaningOfAny(w) = BoolValue(AnyToBool(w)) /\ ~IsTagged(w) /\ ~IsPointer(w)
<1>1. w \notin DOMAIN heap
  BY AddressFacts DEF TypeInv, TypeOK
<1>2. ~IsTagged(w) /\ ~IsPointer(w)
  BY DEF IsBool, IsTagged, IsPointer
<1> QED
  BY <1>1, <1>2 DEF MeaningOfAny, IsBox

LEMMA ModIsRest ==
  \A x \in Int, m \in Nat \ {0} : x \div m \in Int /\ x % m = x - m * (x \div m)
  BY SMT

\* An odd word is not taken for true.
LEMMA TaggedIsNotTrue == \A w \in Word : IsTagged(w) => AnyToBool(w) = 0
<1> TAKE w \in Word
<1>1. w \in Int /\ w % 2 \in {0, 1}
  BY HalfFacts DEF Word
<1>2. PICK b \in Nat \ {0} : Byte = 16 * b
  BY WordAssumption
<1>3. w \div Byte \in Int /\ w % Byte = w - Byte * (w \div Byte)
  BY <1>1, WordAssumption, ModIsRest, Zenon
<1>4. w % Byte = 14 => w % 2 = 0
  <2> DEFINE q == w \div Byte
             z == b * q
  <2>1. q \in Int
    BY <1>3
  <2>2. z \in Int /\ Byte * q = 16 * z
    BY <2>1, <1>2
  <2>3. w % Byte = w - 16 * z
    BY <1>3, <2>2
  <2> HIDE DEF z
  <2> QED
    BY <1>1, <2>2, <2>3
<1> QED
  BY <1>4 DEF IsTagged, AnyToBool

\* any_to_bool answers true for the word that means true, and for no other.
LEMMA TrueIsTrue ==
  ASSUME TypeInv, NEW w \in Word, WellTagged(heap, w)
  PROVE  AnyToBool(w) = AsBit(MeaningOfAny(w) = BoolValue(1))
<1>1. CASE IsTagged(w)
  BY <1>1, MeaningOfTagged, TaggedIsNotTrue DEF IntValue, BoolValue, AsBit
<1>2. CASE w \in DOMAIN heap
  <2>1. AnyToBool(w) = 0
    BY <1>2, AddressFacts DEF TypeInv, TypeOK
  <2> QED
    BY <1>2, <2>1, MeaningOfBox DEF IntValue, BoolValue, AsBit
<1>3. CASE IsBool(w)
  <2>1. MeaningOfAny(w) = BoolValue(AnyToBool(w))
    BY <1>3, MeaningOfBool
  <2>2. AnyToBool(w) \in {0, 1}
    BY DEF AnyToBool
  <2> QED
    BY <2>1, <2>2 DEF BoolValue, AsBit
<1> QED
  BY <1>1, <1>2, <1>3 DEF WellTagged

\* The value of a word in a variable of type t.
ValueIn(t, w) == IF t = "any" THEN MeaningOfAny(w) ELSE [type |-> t, val |-> w]

LEMMA OperandMeaning ==
  ASSUME IInv, NEW k \in DOMAIN insn.rhs, insn.rhs[k] \in Visible(depth)
  PROVE  Bir!Operand(k) = ValueIn(TypeOf[insn.rhs[k]], Operand(k))
<1> DEFINE c == CellOf(depth, insn.rhs[k])
<1>1. c \in Cell /\ TypeAt(c) = TypeOf[insn.rhs[k]]
  BY CellOfVisible DEF IInv, TypeInv, TypeOK
<1>2. c \in assigned /\ Operand(k) # Undef /\ Operand(k) = cells[c]
  BY LoadsStored DEF Operand, At
<1>3. Bir!Operand(k) = Meaning(c)
  BY <1>1, SameProgram DEF Bir!Operand, Bir!Of, BirEnv
<1> QED
  BY <1>1, <1>2, <1>3 DEF Meaning, ValueIn

-----------------------------------------------------------------------------
(* A store of the emitted code is an assignment of the BIR.                *)

LEMMA WellTaggedStays ==
  ASSUME TypeInv, TypeInv', HeapGrows, NEW w, WellTagged(heap, w)
  PROVE  MeaningOfAny(w)' = MeaningOfAny(w)
<1>1. CASE IsTagged(w)
  BY <1>1 DEF MeaningOfAny
<1>2. CASE w \in DOMAIN heap
  BY <1>2, AddressFacts DEF MeaningOfAny, IsBox, HeapGrows, TypeInv, TypeOK
<1>3. CASE IsBool(w)
  BY <1>3, AddressFacts DEF MeaningOfAny, IsBox, HeapGrows, TypeInv, TypeOK
<1> QED
  BY <1>1, <1>2, <1>3 DEF WellTagged

\* Cells that nothing is stored in keep their meaning.
LEMMA MeaningStays ==
  ASSUME IInv, TypeInv', HeapGrows, NEW c \in Cell,
         cells'[c] = cells[c], c \in assigned' <=> c \in assigned
  PROVE  Meaning(c)' = Meaning(c)
<1>1. CASE c \notin assigned
  BY <1>1 DEF Meaning
<1>2. CASE c \in assigned /\ TypeAt(c) # "any"
  BY <1>2 DEF Meaning
<1>3. CASE c \in assigned /\ TypeAt(c) = "any"
  <2> DEFINE w == cells[c]
  <2>1. w # Undef
    BY <1>3 DEF IInv, AssignedCellsAreStored
  <2>2. WellTagged(heap, w)
    BY <1>3, <2>1 DEF IInv, EveryAnyIsTagged, WellTagged, IsBox
  <2>3. ASSUME NEW u, WellTagged(heap, u) PROVE MeaningOfAny(u)' = MeaningOfAny(u)
    BY <2>3, WellTaggedStays DEF IInv
  <2>4. Meaning(c) = MeaningOfAny(w)
    BY <1>3, <2>1 DEF Meaning
  <2>5. PICK u : u = w
    OBVIOUS
  <2>6. Meaning(c)' = MeaningOfAny(u)'
    BY <1>3, <2>1, <2>5 DEF Meaning, MeaningOfAny, IsBox
  <2> QED
    BY <2>2, <2>3, <2>4, <2>5, <2>6
<1> QED
  BY <1>1, <1>2, <1>3

LEMMA StoreIsAssign ==
  ASSUME IInv, TypeInv', insn.lhs \in Visible(depth),
         NEW w \in Contents(TypeOf[insn.lhs]), Store(w),
         UNCHANGED <<frame, status>>, HeapGrows,
         NEW v, v = IF TypeOf[insn.lhs] = "any" THEN MeaningOfAny(w)'
                    ELSE [type |-> TypeOf[insn.lhs], val |-> w]
  PROVE  Bir!Assign(v)
<1> PICK t : t = CellOf(depth, insn.lhs)
  OBVIOUS
<1>1. t \in Cell /\ TypeAt(t) = TypeOf[insn.lhs]
  BY CellOfVisible DEF IInv, TypeInv, TypeOK
<1>2. cells' = [cells EXCEPT ![t] = w] /\ assigned' = assigned \cup {t}
  BY DEF Store, Marked
<1>3. \A c \in Cell : cells'[c] = IF c = t THEN w ELSE cells[c]
  BY <1>2 DEF IInv, TypeInv, TypeOK
<1>4. ASSUME NEW c \in Cell, c # t PROVE Meaning(c)' = Meaning(c)
  BY <1>2, <1>3, <1>4, MeaningStays
<1>5. Meaning(t)' = v
  <2>1. t \in assigned' /\ cells'[t] = w /\ w # Undef
    BY <1>1, <1>2, <1>3, UndefIsNoContents
  <2> QED
    BY <1>1, <2>1 DEF Meaning, MeaningOfAny, IsBox
<1>6. BirEnv' = [c \in Cell |-> IF c = t THEN v ELSE Meaning(c)]
  <2>1. BirEnv' = [c \in Cell |-> Meaning(c)']
    BY DEF BirEnv
  <2>2. ASSUME NEW c \in Cell PROVE Meaning(c)' = IF c = t THEN v ELSE Meaning(c)
    BY <1>4, <1>5
  <2> QED
    BY <2>1, <2>2
<1>7. BirEnv' = [BirEnv EXCEPT ![t] = v]
  BY <1>6 DEF BirEnv
<1> QED
  BY <1>7, SameProgram DEF Bir!Assign, BirStatus, frame

\* The usual case: the heap stays as it is.
LEMMA PlainStoreIsAssign ==
  ASSUME IInv, TypeInv', insn.lhs \in Visible(depth),
         NEW w \in Contents(TypeOf[insn.lhs]), Store(w),
         UNCHANGED <<heap, frame, status>>
  PROVE  Bir!Assign(ValueIn(TypeOf[insn.lhs], w))
<1>1. HeapGrows
  BY DEF HeapGrows
<1>2. MeaningOfAny(w)' = MeaningOfAny(w)
  BY DEF MeaningOfAny, IsBox
<1> QED
  BY <1>1, <1>2, StoreIsAssign DEF ValueIn

LEMMA StopIsFail ==
  ASSUME NEW s \in {"aborted", "crashed"}, Stop(s)
  PROVE  Bir!Fail
BY DEF Stop, Bir!Fail, BirStatus, BirEnv, Meaning, MeaningOfAny, IsBox, frame

-----------------------------------------------------------------------------
(* The instructions, one by one.                                           *)

Executing == IInv /\ TypeInv' /\ insn # NoInsn /\ insn' = NoInsn

LEMMA ConstantLoadRefines == Executing /\ ConstantLoad => Bir!ConstantLoad
<1> SUFFICES ASSUME Executing, ConstantLoad PROVE Bir!ConstantLoad
  OBVIOUS
<1>1. UNCHANGED <<heap, frame, status>> /\ insn.kind = "const_load"
  BY DEF ConstantLoad
<1>2. CASE depth = 1 /\ insn.lhs = MainReturnVar
  <2>1. UNCHANGED <<cells, assigned>>
    BY <1>2 DEF ConstantLoad
  <2> QED
    BY <1>1, <1>2, <2>1 DEF Bir!ConstantLoad, BirStatus, BirEnv, Meaning, MeaningOfAny, IsBox, frame
<1>3. CASE ~(depth = 1 /\ insn.lhs = MainReturnVar)
  <2>1. Store(insn.lit)
    BY <1>3 DEF ConstantLoad
  <2>2. insn.lhs \in Visible(depth) /\ insn.lit \in Literals(TypeOf[insn.lhs])
    BY <1>1, InsnCases, InstructionsAssumption DEF BinaryOp, Executing, IInv, TypeInv, TypeOK
  <2>3. 0 \in Word /\ IntConst \subseteq I64
    BY InstructionsAssumption, HalfFacts DEF Word, I64
  <2>4. insn.lit \in Contents(TypeOf[insn.lhs]) /\ TypeOf[insn.lhs] # "any"
    BY <2>2, <2>3 DEF Literals, Contents
  <2>5. Bir!Assign(ValueIn(TypeOf[insn.lhs], insn.lit))
    BY <1>1, <2>1, <2>2, <2>4, PlainStoreIsAssign DEF Executing
  <2> QED
    BY <1>1, <1>3, <2>4, <2>5 DEF Bir!ConstantLoad, Bir!LhsType, ValueIn
<1> QED
  BY <1>2, <1>3

\* The operand of an instruction that has one, on both sides.
LEMMA UnaryMeaning ==
  ASSUME Executing, insn.kind \in {"move", "not", "neg", "type_cast"}
  PROVE  /\ insn.lhs \in Visible(depth) /\ insn.rhs[1] \in Visible(depth)
         /\ UnaryTyped(insn.kind, insn.lhs, insn.rhs[1])
         /\ Loads(1) = {Operand(1)} /\ Operand(1) \in Contents(TypeOf[insn.rhs[1]])
         /\ TypeOf[insn.rhs[1]] = "any" => WellTagged(heap, Operand(1))
         /\ Bir!Operand(1) = ValueIn(TypeOf[insn.rhs[1]], Operand(1))
<1>1. /\ insn.lhs \in Visible(depth) /\ insn.rhs[1] \in Visible(depth) /\ 1 \in DOMAIN insn.rhs
      /\ UnaryTyped(insn.kind, insn.lhs, insn.rhs[1])
  BY UnaryOperand DEF Executing, IInv
<1> QED
  BY <1>1, LoadsStored, OperandMeaning DEF Executing

LEMMA MoveRefines == Executing /\ Move => Bir!Move
<1> SUFFICES ASSUME Executing, Move PROVE Bir!Move
  OBVIOUS
<1>1. insn.kind = "move" /\ Store(Operand(1)) /\ UNCHANGED <<heap, frame, status>>
  BY DEF Move
<1>2. insn.lhs \in Visible(depth) /\ Operand(1) \in Contents(TypeOf[insn.lhs])
  BY <1>1, UnaryMeaning DEF UnaryTyped
<1>3. Bir!Assign(ValueIn(TypeOf[insn.lhs], Operand(1)))
  BY <1>1, <1>2, PlainStoreIsAssign DEF Executing
<1>4. Bir!Operand(1) = ValueIn(TypeOf[insn.lhs], Operand(1))
  BY <1>1, UnaryMeaning DEF UnaryTyped
<1> QED
  BY <1>1, <1>3, <1>4 DEF Bir!Move

LEMMA NotRefines == Executing /\ Not => Bir!Not
<1> SUFFICES ASSUME Executing, Not PROVE Bir!Not
  OBVIOUS
<1>1. insn.kind = "not" /\ UNCHANGED <<heap, frame, status>>
  BY DEF Not
<1>2. /\ insn.lhs \in Visible(depth) /\ TypeOf[insn.lhs] = "boolean"
      /\ TypeOf[insn.rhs[1]] = "boolean" /\ Operand(1) \in {0, 1} /\ Loads(1) = {Operand(1)}
      /\ Bir!Operand(1) = ValueIn("boolean", Operand(1))
  BY <1>1, UnaryMeaning, ContentsFacts DEF UnaryTyped
<1>3. Store(1 - Operand(1))
  BY <1>2 DEF Not
<1>4. 1 - Operand(1) \in Contents(TypeOf[insn.lhs])
  BY <1>2, ContentsFacts
<1>5. Bir!Assign(ValueIn("boolean", 1 - Operand(1)))
  BY <1>1, <1>2, <1>3, <1>4, PlainStoreIsAssign DEF Executing
<1> QED
  BY <1>1, <1>2, <1>5, SameProgram DEF Bir!Not, ValueIn, BoolValue

LEMMA NegRefines == Executing /\ Neg => Bir!Neg
<1> SUFFICES ASSUME Executing, Neg PROVE Bir!Neg
  OBVIOUS
<1>1. insn.kind = "neg" /\ UNCHANGED <<heap, frame, status>>
  BY DEF Neg
<1>2. /\ insn.lhs \in Visible(depth) /\ TypeOf[insn.lhs] = "int"
      /\ TypeOf[insn.rhs[1]] = "int" /\ Operand(1) \in Int /\ Loads(1) = {Operand(1)}
      /\ Bir!Operand(1) = ValueIn("int", Operand(1))
  BY <1>1, UnaryMeaning, ContentsFacts DEF UnaryTyped
<1>3. Store(ToI64(-Operand(1)))
  BY <1>2 DEF Neg
<1>4. ToI64(-Operand(1)) \in Contents(TypeOf[insn.lhs])
  BY <1>2, ContentsFacts, ToI64Range
<1>5. Bir!Assign(ValueIn("int", ToI64(-Operand(1))))
  BY <1>1, <1>2, <1>3, <1>4, PlainStoreIsAssign DEF Executing
<1> QED
  BY <1>1, <1>2, <1>5, SameProgram DEF Bir!Neg, ValueIn, IntValue

-----------------------------------------------------------------------------
(* Operators.                                                              *)

LEMMA BinaryMeaning ==
  ASSUME Executing, insn.kind \in BinaryOp
  PROVE  /\ insn.lhs \in Visible(depth) /\ TypeOf[insn.lhs] = ResultType(insn.kind)
         /\ Accepts(insn.kind, TypeOf[insn.rhs[1]])
         /\ \A k \in {1, 2} :
              /\ Loads(k) = {Operand(k)} /\ Operand(k) \in Contents(TypeOf[insn.rhs[1]])
              /\ Bir!Operand(k).val = Operand(k)
<1>1. /\ insn.lhs \in Visible(depth) /\ 1 \in DOMAIN insn.rhs /\ 2 \in DOMAIN insn.rhs
      /\ insn.rhs[1] \in Visible(depth) /\ insn.rhs[2] \in Visible(depth)
      /\ BinaryTyped(insn.kind, insn.lhs, insn.rhs[1], insn.rhs[2])
  BY BinaryOperands DEF Executing, IInv
<1>2. ASSUME NEW k \in {1, 2}
      PROVE  /\ Loads(k) = {Operand(k)} /\ Operand(k) \in Contents(TypeOf[insn.rhs[1]])
             /\ Bir!Operand(k).val = Operand(k)
  <2>1. /\ k \in DOMAIN insn.rhs /\ insn.rhs[k] \in Visible(depth)
        /\ TypeOf[insn.rhs[k]] = TypeOf[insn.rhs[1]] /\ TypeOf[insn.rhs[k]] # "any"
    BY <1>1 DEF BinaryTyped, Accepts
  <2>2. Bir!Operand(k) = ValueIn(TypeOf[insn.rhs[k]], Operand(k))
    BY <2>1, OperandMeaning DEF Executing
  <2> QED
    BY <2>1, <2>2, LoadsStored DEF Executing, ValueIn
<1> QED
  BY <1>1, <1>2 DEF BinaryTyped

\* The unsigned operators are the signed ones where nothing is negative.
LEMMA DivisionOfNats ==
  ASSUME NEW m \in I64, NEW n \in I64, m >= 0, n > 0
  PROVE  Divided(m, n) = m \div n /\ Remainder(m, n) = m % n
<1>1. m \in Nat /\ n \in Nat \ {0} /\ m < Half /\ n < Half
  BY HalfFacts DEF I64
<1>2. \A x \in Nat, y \in Nat \ {0} : x \div y \in 0 .. x /\ x % y \in 0 .. x
  BY SMT
<1>3. m \div n \in 0 .. m /\ m % n \in 0 .. m
  BY <1>1, <1>2, Zenon
<1>4. Unsigned(m) = m /\ Unsigned(n) = n
  BY <1>1, HalfFacts, ModOfSmall DEF Unsigned
<1>5. \A x \in 0 .. m : ToI64(x) = x
  <2> TAKE x \in 0 .. m
  <2>1. x \in Int /\ 0 <= x + Half /\ x + Half < 2 * Half
    BY <1>1, HalfFacts
  <2>2. (x + Half) % (2 * Half) = x + Half
    BY <2>1, HalfFacts, ModOfSmall
  <2> QED
    BY <2>1, <2>2, HalfFacts DEF ToI64
<1> QED
  BY <1>3, <1>4, <1>5, Zenon DEF Divided, Remainder

LEMMA ComputedIsResult ==
  ASSUME NEW op \in BinaryOp, NEW m \in Int, NEW n \in Int,
         op \notin Comparison => m \in I64 /\ n \in I64,
         op \in {"div", "mod"} => n # 0
  PROVE  Computed(op, m, n) \in Bir!Results(op, m, n)
<1>1. CASE op \in Comparison
  BY <1>1 DEF Comparison, Computed, Bir!Results, Bir!AsBit, AsBit
<1>2. CASE op \in {"add", "sub", "mul"}
  BY <1>2, SameProgram DEF Computed, Difference, Bir!Results
<1>3. CASE op \in {"div", "mod"}
  <2>1. Computed(op, m, n) \in I64
    BY <1>3, ComputedRange, ContentsFacts DEF ResultType, Comparison
  <2>2. m \in I64 /\ n \in I64 /\ n # 0
    BY <1>3 DEF Comparison
  <2>3. CASE m >= 0 /\ n > 0
    BY <1>3, <2>2, <2>3, DivisionOfNats DEF Computed, Bir!Results
  <2>4. CASE ~(m >= 0 /\ n > 0)
    BY <1>3, <2>1, <2>4, SameProgram DEF Bir!Results
  <2> QED
    BY <2>3, <2>4
<1> QED
  BY <1>1, <1>2, <1>3 DEF BinaryOp, Comparison

LEMMA BinaryRefines == Executing /\ Binary => Bir!Binary
<1> SUFFICES ASSUME Executing, Binary PROVE Bir!Binary
  OBVIOUS
<1>1. insn.kind \in BinaryOp /\ UNCHANGED <<heap, frame, status>>
  BY DEF Binary
<1> DEFINE m == Operand(1)
           n == Operand(2)
           w == Computed(insn.kind, m, n)
<1>2. /\ Loads(1) = {m} /\ Loads(2) = {n}
      /\ Bir!Operand(1).val = m /\ Bir!Operand(2).val = n
      /\ m \in Contents(TypeOf[insn.rhs[1]]) /\ n \in Contents(TypeOf[insn.rhs[1]])
      /\ insn.lhs \in Visible(depth) /\ TypeOf[insn.lhs] = ResultType(insn.kind)
      /\ Accepts(insn.kind, TypeOf[insn.rhs[1]])
  BY <1>1, BinaryMeaning
<1>3. ~Traps(n) /\ Store(w)
  BY <1>2 DEF Binary
<1>4. /\ m \in Int /\ n \in Int
      /\ insn.kind \notin Comparison => m \in I64 /\ n \in I64
      /\ insn.kind \in {"div", "mod"} => n # 0
  BY <1>2, <1>3, ContentsFacts DEF Accepts, Comparison, Traps
<1>5. w \in Contents(TypeOf[insn.lhs]) /\ w \in Bir!Results(insn.kind, m, n)
  BY <1>1, <1>2, <1>4, ComputedRange, ComputedIsResult
<1>6. Bir!Assign([type |-> TypeOf[insn.lhs], val |-> w])
  <2>1. TypeOf[insn.lhs] # "any"
    BY <1>2 DEF ResultType
  <2>2. Bir!Assign(ValueIn(TypeOf[insn.lhs], w))
    BY <1>1, <1>2, <1>3, <1>5, PlainStoreIsAssign DEF Executing
  <2> QED
    BY <2>1, <2>2 DEF ValueIn
<1>7. ~Bir!DividesByZero
  BY <1>2, <1>3 DEF Bir!DividesByZero, Traps
<1> QED
  BY <1>1, <1>2, <1>5, <1>6, <1>7, SameProgram DEF Bir!Binary, Bir!LhsType

LEMMA BinaryTrapsRefines == Executing /\ BinaryTraps => Bir!Binary
<1> SUFFICES ASSUME Executing, BinaryTraps PROVE Bir!Binary
  OBVIOUS
<1>1. insn.kind \in BinaryOp /\ Stop("crashed")
  BY DEF BinaryTraps
<1>2. Loads(2) = {Operand(2)} /\ Bir!Operand(2).val = Operand(2)
  BY <1>1, BinaryMeaning
<1>3. Bir!DividesByZero
  BY <1>2 DEF BinaryTraps, Traps, Bir!DividesByZero
<1>4. Bir!Fail
  BY <1>1, StopIsFail
<1> QED
  BY <1>1, <1>3, <1>4, SameProgram DEF Bir!Binary

-----------------------------------------------------------------------------
(* Casts.                                                                  *)

LEMMA CastMeaning ==
  ASSUME Executing, NEW from, NEW to, IsCast(from, to)
  PROVE  /\ insn.kind = "type_cast" /\ insn.lhs \in Visible(depth)
         /\ TypeOf[insn.lhs] = to /\ TypeOf[insn.rhs[1]] = from
         /\ Loads(1) = {Operand(1)} /\ Operand(1) \in Contents(from)
         /\ from = "any" => WellTagged(heap, Operand(1))
         /\ Bir!Operand(1) = ValueIn(from, Operand(1))
BY UnaryMeaning DEF IsCast

LEMMA CastOfAnyRefines == Executing /\ CopyAny => Bir!CastSucceeds
<1> SUFFICES ASSUME Executing, CopyAny PROVE Bir!CastSucceeds
  OBVIOUS
<1>1. IsCast("any", "any") /\ Store(Operand(1)) /\ UNCHANGED <<heap, frame, status>>
  BY DEF CopyAny
<1>2. /\ insn.lhs \in Visible(depth) /\ TypeOf[insn.lhs] = "any"
      /\ Operand(1) \in Contents("any") /\ Bir!Operand(1) = ValueIn("any", Operand(1))
  BY <1>1, CastMeaning
<1>3. Bir!Assign(ValueIn("any", Operand(1)))
  BY <1>1, <1>2, PlainStoreIsAssign DEF Executing
<1> QED
  BY <1>2, <1>3 DEF Bir!CastSucceeds, Bir!LhsType

LEMMA CastToIntRefines == Executing /\ CastToInt => Bir!CastSucceeds
<1> SUFFICES ASSUME Executing, CastToInt PROVE Bir!CastSucceeds
  OBVIOUS
<1>1. IsCast("any", "int") /\ UNCHANGED <<heap, frame, status>>
  BY DEF CastToInt
<1> DEFINE w == Operand(1)
<1>2. /\ insn.lhs \in Visible(depth) /\ TypeOf[insn.lhs] = "int"
      /\ Loads(1) = {w} /\ w \in Word /\ Bir!Operand(1) = MeaningOfAny(w)
  BY <1>1, CastMeaning, ContentsFacts DEF ValueIn
<1>3. PICK n \in I64 : Store(n) /\ MeaningOfAny(w) = IntValue(n)
  <2>1. CASE IsTagged(w) /\ Store(Untagged(w))
    BY <1>2, <2>1, UntaggedRange, MeaningOfTagged
  <2>2. CASE w \in DOMAIN heap /\ Store(heap[w])
    BY <2>2, MeaningOfBox DEF Executing, IInv, TypeInv, TypeOK
  <2> QED
    BY <1>2, <2>1, <2>2 DEF CastToInt
<1>4. Bir!Assign(ValueIn("int", n))
  BY <1>1, <1>2, <1>3, ContentsFacts, PlainStoreIsAssign DEF Executing
<1> QED
  BY <1>2, <1>3, <1>4 DEF Bir!CastSucceeds, Bir!LhsType, ValueIn, IntValue

\* A word without a tag that is no box is a boolean.
LEMMA CastToIntIsSafe == Executing => ~CastToIntGoesWild
<1> SUFFICES ASSUME Executing, CastToIntGoesWild PROVE FALSE
  OBVIOUS
<1> DEFINE w == Operand(1)
<1>1. IsCast("any", "int")
  BY DEF CastToIntGoesWild
<1>2. Loads(1) = {w} /\ WellTagged(heap, w)
  BY <1>1, CastMeaning
<1>3. ~IsTagged(w) /\ IsPointer(w) /\ w \notin DOMAIN heap
  BY <1>2 DEF CastToIntGoesWild
<1> QED
  BY <1>2, <1>3, MeaningOfBool DEF WellTagged, Executing, IInv

LEMMA CastToIntAbortsRefines == Executing /\ CastToIntAborts => Bir!CastFails
<1> SUFFICES ASSUME Executing, CastToIntAborts PROVE Bir!CastFails
  OBVIOUS
<1> DEFINE w == Operand(1)
<1>1. IsCast("any", "int") /\ Stop("aborted")
  BY DEF CastToIntAborts
<1>2. /\ TypeOf[insn.lhs] = "int" /\ Loads(1) = {w} /\ WellTagged(heap, w)
      /\ Bir!Operand(1) = MeaningOfAny(w)
  BY <1>1, CastMeaning DEF ValueIn
<1>3. ~IsTagged(w) /\ ~IsPointer(w)
  BY <1>2 DEF CastToIntAborts
<1>4. w \notin DOMAIN heap
  BY <1>3, WordAssumption DEF IsPointer, Executing, IInv, TypeInv, TypeOK
<1>5. MeaningOfAny(w) = BoolValue(AnyToBool(w))
  BY <1>2, <1>3, <1>4, MeaningOfBool DEF WellTagged, Executing, IInv
<1>6. Bir!Operand(1).type # "int"
  BY <1>2, <1>5 DEF BoolValue
<1> QED
  BY <1>1, <1>2, <1>6, StopIsFail DEF Bir!CastFails, Bir!LhsType

LEMMA CastToBooleanRefines == Executing /\ CastToBoolean => Bir!CastSucceeds
<1> SUFFICES ASSUME Executing, CastToBoolean PROVE Bir!CastSucceeds
  OBVIOUS
<1> DEFINE w == Operand(1)
<1>1. IsCast("any", "boolean") /\ UNCHANGED <<heap, frame, status>>
  BY DEF CastToBoolean
<1>2. /\ insn.lhs \in Visible(depth) /\ TypeOf[insn.lhs] = "boolean"
      /\ Loads(1) = {w} /\ w \in Word /\ WellTagged(heap, w) /\ Bir!Operand(1) = MeaningOfAny(w)
  BY <1>1, CastMeaning, ContentsFacts DEF ValueIn
<1>3. Store(AnyToBool(w)) /\ AnyToBool(w) \in Contents(TypeOf[insn.lhs])
  BY <1>2, ContentsFacts DEF CastToBoolean, AnyToBool
<1>4. Bir!Assign(BoolValue(AnyToBool(w)))
  <2>1. Bir!Assign(ValueIn("boolean", AnyToBool(w)))
    BY <1>1, <1>2, <1>3, PlainStoreIsAssign DEF Executing
  <2> QED
    BY <2>1 DEF ValueIn, BoolValue
<1>5. AnyToBool(w) = Bir!AsBit(Bir!Operand(1) = BoolValue(1))
  BY <1>2, TrueIsTrue DEF Executing, IInv, Bir!AsBit, AsBit
<1> QED
  BY <1>2, <1>4, <1>5, SameProgram DEF Bir!CastSucceeds, Bir!LhsType

LEMMA CastBooleanRefines == Executing /\ CastBoolean => Bir!CastSucceeds
<1> SUFFICES ASSUME Executing, CastBoolean PROVE Bir!CastSucceeds
  OBVIOUS
<1> DEFINE b == Operand(1)
<1>1. IsCast("boolean", "any") /\ UNCHANGED <<heap, frame, status>>
  BY DEF CastBoolean
<1>2. /\ insn.lhs \in Visible(depth) /\ TypeOf[insn.lhs] = "any" /\ Loads(1) = {b}
      /\ b \in {0, 1} /\ Bir!Operand(1) = BoolValue(b)
  BY <1>1, CastMeaning, ContentsFacts DEF ValueIn, BoolValue
<1>3. Store(BoolToAny(b)) /\ BoolToAny(b) \in Contents(TypeOf[insn.lhs])
  BY <1>2, ContentsFacts, BooleanRoundTrip DEF CastBoolean
<1>4. MeaningOfAny(BoolToAny(b)) = BoolValue(b)
  BY <1>2, BooleanRoundTrip, MeaningOfBool DEF Executing, IInv
<1>5. Bir!Assign(BoolValue(b))
  <2>1. Bir!Assign(ValueIn("any", BoolToAny(b)))
    BY <1>1, <1>2, <1>3, PlainStoreIsAssign DEF Executing
  <2> QED
    BY <1>4, <2>1 DEF ValueIn
<1> QED
  BY <1>2, <1>5 DEF Bir!CastSucceeds, Bir!LhsType

LEMMA CastIntRefines == Executing /\ CastInt => Bir!CastSucceeds
<1> SUFFICES ASSUME Executing, CastInt PROVE Bir!CastSucceeds
  OBVIOUS
<1> DEFINE n == Operand(1)
<1>1. IsCast("int", "any") /\ UNCHANGED <<heap, frame, status>>
  BY DEF CastInt
<1>2. /\ insn.lhs \in Visible(depth) /\ TypeOf[insn.lhs] = "any" /\ Loads(1) = {n}
      /\ n \in I64 /\ Bir!Operand(1) = IntValue(n)
  BY <1>1, CastMeaning, ContentsFacts DEF ValueIn, IntValue
<1>3. IsSmall(n) /\ Store(Tagged(n)) /\ Tagged(n) \in Contents(TypeOf[insn.lhs])
  BY <1>2, ContentsFacts, SmallRoundTrip DEF CastInt
<1>4. MeaningOfAny(Tagged(n)) = IntValue(n)
  BY <1>2, <1>3, SmallRoundTrip, MeaningOfTagged
<1>5. Bir!Assign(IntValue(n))
  <2>1. Bir!Assign(ValueIn("any", Tagged(n)))
    BY <1>1, <1>2, <1>3, PlainStoreIsAssign DEF Executing
  <2> QED
    BY <1>4, <2>1 DEF ValueIn
<1> QED
  BY <1>2, <1>5 DEF Bir!CastSucceeds, Bir!LhsType

LEMMA BoxIntRefines == Executing /\ BoxInt => Bir!CastSucceeds
<1> SUFFICES ASSUME Executing, BoxInt PROVE Bir!CastSucceeds
  OBVIOUS
<1>1. IsCast("int", "any") /\ UNCHANGED <<frame, status>>
  BY DEF BoxInt
<1>2. PICK n \in Loads(1), a \in Addr \ DOMAIN heap :
        /\ ~IsSmall(n)
        /\ heap' = [b \in DOMAIN heap \cup {a} |-> IF b = a THEN n ELSE heap[b]]
        /\ Store(a)
  BY DEF BoxInt
<1>3. /\ insn.lhs \in Visible(depth) /\ TypeOf[insn.lhs] = "any"
      /\ n \in I64 /\ Bir!Operand(1) = IntValue(n)
  BY <1>1, <1>2, CastMeaning, ContentsFacts DEF ValueIn, IntValue
<1>4. a \in Contents(TypeOf[insn.lhs]) /\ HeapGrows
  BY <1>2, <1>3, AddressFacts, ContentsFacts DEF HeapGrows
<1>5. MeaningOfAny(a)' = IntValue(n)
  <2>1. a \in DOMAIN heap' /\ heap'[a] = n /\ ~IsTagged(a)
    BY <1>2, AddressFacts
  <2> QED
    BY <2>1 DEF MeaningOfAny, IsBox
<1>6. Bir!Assign(IntValue(n))
  BY <1>1, <1>2, <1>3, <1>4, <1>5, StoreIsAssign DEF Executing
<1> QED
  BY <1>3, <1>6 DEF Bir!CastSucceeds, Bir!LhsType

LEMMA BoxIntFailsRefines == Executing /\ BoxIntFails => Bir!CastFails
<1> SUFFICES ASSUME Executing, BoxIntFails PROVE Bir!CastFails
  OBVIOUS
<1>1. IsCast("int", "any") /\ Stop("crashed") /\ \E n \in Loads(1) : ~IsSmall(n)
  BY DEF BoxIntFails
<1>2. /\ TypeOf[insn.lhs] = "any" /\ TypeOf[insn.rhs[1]] = "int"
      /\ Bir!Operand(1).val = Operand(1) /\ ~IsSmall(Operand(1))
  BY <1>1, CastMeaning DEF ValueIn
<1> QED
  BY <1>1, <1>2, StopIsFail, SameProgram DEF Bir!CastFails, Bir!LhsType

LEMMA TypeCastRefines == NoNilCasts /\ Executing /\ TypeCast => Bir!TypeCast
<1> SUFFICES ASSUME NoNilCasts, Executing, TypeCast PROVE Bir!TypeCast
  OBVIOUS
<1>1. ~BitCast
  BY NoBitCast DEF Executing, IInv
<1>2. insn.kind = "type_cast"
  BY <1>1 DEF TypeCast, CopyAny, CastToInt, CastToIntGoesWild, CastToIntAborts, CastToBoolean,
     CastBoolean, CastInt, BoxInt, BoxIntFails, IsCast
<1>3. Bir!CastSucceeds \/ Bir!CastFails
  BY <1>1, CastOfAnyRefines, CastToIntRefines, CastToIntIsSafe, CastToIntAbortsRefines,
     CastToBooleanRefines, CastBooleanRefines, CastIntRefines, BoxIntRefines,
     BoxIntFailsRefines DEF TypeCast
<1> QED
  BY <1>2, <1>3 DEF Bir!TypeCast

-----------------------------------------------------------------------------
(* Calls and returns.                                                      *)

LEMMA ArgumentMeaning ==
  ASSUME Executing, insn.kind = "call", NEW x \in Names(ArgLocals)
  PROVE  /\ Argument(x) # Undef
         /\ Bir!Operand(Position(ArgLocals, x)) = ValueIn(TypeOf[x], Argument(x))
<1>1. LET k == Position(ArgLocals, x)
      IN  k \in DOMAIN insn.rhs /\ insn.rhs[k] \in Visible(depth) /\ TypeOf[insn.rhs[k]] = TypeOf[x]
  BY CallArguments DEF Executing, IInv
<1> QED
  BY <1>1, LoadsStored, OperandMeaning DEF Argument, Executing

LEMMA CallRefines == Executing /\ Call => Bir!Call
<1> SUFFICES ASSUME Executing, Call PROVE Bir!Call
  OBVIOUS
<1>1. /\ insn.kind = "call" /\ depth \in Nat /\ depth' = depth + 1
      /\ UNCHANGED <<heap, status>> /\ dest' = [dest EXCEPT ![depth + 1] = insn.lhs]
  BY SizesAssumption DEF Call, Executing, IInv, TypeInv, TypeOK
<1> PICK d, pars, k0 : d = depth /\ pars = Names(ArgLocals) /\ k0 = insn
  OBVIOUS
<1>2. assigned' = assigned \cup {c \in Cell : c[1] = d + 1 /\ c[2] \in pars}
  BY DEF Call
<1>3. \A c \in Cell : c[1] # d + 1 => cells'[c] = cells[c]
  BY DEF Call
<1>4. ASSUME NEW c \in Cell, c[1] # d + 1 PROVE Meaning(c)' = Meaning(c)
  <2>1. HeapGrows
    BY <1>1 DEF HeapGrows
  <2> QED
    BY <1>2, <1>3, <1>4, <2>1, MeaningStays DEF Executing
<1>5. \A c \in assigned : c[1] # d + 1
  <2>1. \A c \in assigned : c[1] \in Int /\ c[1] <= d
    BY SizesAssumption DEF Executing, IInv, TypeInv, TypeOK, DeadAreUnassigned, Cell
  <2> QED
    BY <1>1, <2>1
<1>6. ASSUME NEW c \in Cell, c[1] = d + 1, c[2] \notin pars PROVE Meaning(c)' = Meaning(c)
  <2>1. c \notin assigned /\ c \notin assigned'
    BY <1>2, <1>5, <1>6
  <2> QED
    BY <2>1 DEF Meaning
<1>7. ASSUME NEW c \in Cell, c[1] = d + 1, c[2] \in pars,
             NEW v, v = Bir!Operand(Position(Params, c[2]))
      PROVE  Meaning(c)' = v
  <2> PICK a : a = Argument(c[2])
    OBVIOUS
  <2>1. a # Undef /\ v = ValueIn(TypeAt(c), a)
    BY <1>1, <1>7, ArgumentMeaning, ArgAssumption DEF TypeAt
  <2>2. c \in assigned' /\ cells'[c] = a
    BY <1>2, <1>7 DEF Call
  <2> QED
    BY <1>1, <2>1, <2>2 DEF Meaning, ValueIn, MeaningOfAny, IsBox
<1>8. BirEnv' = [c \in Cell |-> IF c[1] = depth + 1 /\ c[2] \in Names(Params)
                                THEN Bir!Operand(Position(Params, c[2])) ELSE BirEnv[c]]
  <2>1. BirEnv' = [c \in Cell |-> Meaning(c)']
    BY DEF BirEnv
  <2>2. ASSUME NEW c \in Cell, NEW v, v = Bir!Operand(Position(Params, c[2])), NEW u, u = BirEnv[c]
        PROVE  Meaning(c)' = IF c[1] = d + 1 /\ c[2] \in pars THEN v ELSE u
    BY <1>4, <1>6, <1>7, <2>2 DEF BirEnv
  <2> QED
    BY <2>1, <2>2, ArgAssumption
<1> QED
  BY <1>1, <1>8, SameProgram, SamePosition DEF Bir!Call, BirStatus

LEMMA ReturnRefines == Executing /\ Return => Bir!Return
<1> SUFFICES ASSUME Executing, Return PROVE Bir!Return
  OBVIOUS
<1>1. /\ insn.kind = "return" /\ depth \in Nat /\ depth > 1 /\ depth' = depth - 1
      /\ UNCHANGED <<heap, status>> /\ dest' = [dest EXCEPT ![depth] = NoVar]
  BY SizesAssumption DEF Return, Executing, IInv, TypeInv, TypeOK
<1> PICK d, t, w, v : d = depth /\ t = Target /\ w = Operand(1) /\ v = Bir!Operand(1)
  OBVIOUS
<1>2. t \in Cell /\ TypeAt(t) = TypeOf[ReturnVar] /\ t[1] # d
  BY <1>1, ReturnFacts DEF Executing, IInv, Target, CellOf
<1>3. assigned' = {c \in assigned : c[1] # d} \cup {t}
  BY DEF Return
<1>4. \A c \in Cell : cells'[c] = IF c = t THEN w ELSE IF c[1] = d THEN Undef ELSE cells[c]
  BY DEF Return
<1>5. ASSUME NEW c \in Cell, c # t, c[1] # d PROVE Meaning(c)' = Meaning(c)
  <2>1. HeapGrows
    BY <1>1 DEF HeapGrows
  <2> QED
    BY <1>3, <1>4, <1>5, <2>1, MeaningStays DEF Executing
<1>6. ASSUME NEW c \in Cell, c # t, c[1] = d
      PROVE  Meaning(c)' = [type |-> "unset", val |-> 0]
  BY <1>3, <1>6 DEF Meaning
<1>7. Meaning(t)' = v
  <2>1. insn.rhs = <<ReturnVar>>
    BY <1>1, ReturnFacts DEF Executing, IInv
  <2>2. 1 \in DOMAIN insn.rhs /\ insn.rhs[1] = ReturnVar /\ ReturnVar \in Visible(depth)
    BY <1>1, <2>1, NamesAssumption DEF Visible
  <2>3. v = ValueIn(TypeOf[ReturnVar], w) /\ w # Undef
    BY <2>2, OperandMeaning, LoadsStored DEF Executing
  <2>4. t \in assigned' /\ cells'[t] = w
    BY <1>2, <1>3, <1>4
  <2> QED
    BY <1>1, <1>2, <2>3, <2>4 DEF Meaning, ValueIn, MeaningOfAny, IsBox
<1>8. BirEnv' = [c \in Cell |-> IF c = t THEN v
                                ELSE IF c[1] = d THEN [type |-> "unset", val |-> 0] ELSE BirEnv[c]]
  <2>1. BirEnv' = [c \in Cell |-> Meaning(c)']
    BY DEF BirEnv
  <2>2. ASSUME NEW c \in Cell, NEW u, u = BirEnv[c]
        PROVE  Meaning(c)' = IF c = t THEN v
                             ELSE IF c[1] = d THEN [type |-> "unset", val |-> 0] ELSE u
    BY <1>5, <1>6, <1>7, <2>2 DEF BirEnv
  <2> QED
    BY <2>1, <2>2
<1>9. t = Bir!CellOf(depth - 1, dest[depth]) /\ v = Bir!Operand(1)
  BY SameProgram DEF Target
<1> QED
  BY <1>1, <1>8, <1>9, SameProgram DEF Bir!Return, Bir!Unset, BirStatus

LEMMA MainReturnsRefines == Executing /\ MainReturns => Bir!MainReturns
  BY DEF MainReturns, Stop, Bir!MainReturns, BirStatus, BirEnv, Meaning, MeaningOfAny, IsBox, frame

-----------------------------------------------------------------------------
(* The theorem.                                                            *)

LEMMA InitRefines == Init => Bir!Init
<1> SUFFICES ASSUME Init PROVE Bir!Init
  OBVIOUS
<1>1. BirEnv = [c \in Cell |-> [type |-> "unset", val |-> 0]]
  BY DEF Init, BirEnv, Meaning
<1> QED
  BY <1>1, SameProgram DEF Init, Bir!Init, Bir!Unset, BirStatus

LEMMA FetchRefines == IInv /\ TypeInv' /\ Fetch => Bir!Fetch
<1> SUFFICES ASSUME IInv, TypeInv', Fetch PROVE Bir!Fetch
  OBVIOUS
<1>1. UNCHANGED <<cells, heap, assigned, depth, dest, status>>
  BY DEF Fetch, frame
<1>2. BirEnv' = BirEnv /\ BirStatus' = BirStatus
  BY <1>1 DEF BirEnv, Meaning, MeaningOfAny, IsBox, BirStatus
<1>3. ASSUME NEW c \in assigned PROVE Meaning(c).type # "unset" /\ c \in Cell
  <2>1. c \in Cell /\ TypeAt(c) \in Type
    BY NamesAssumption DEF IInv, TypeInv, TypeOK, Cell, TypeAt
  <2>2. MeaningOfAny(cells[c]).type # "unset"
    BY DEF MeaningOfAny, IntValue, BoolValue, Lost
  <2>3. TypeAt(c) # "unset"
    BY <2>1 DEF Type
  <2> QED
    BY <2>1, <2>2, <2>3 DEF Meaning, Lost
<1>4. \A k \in DOMAIN insn'.rhs : Bir!Of(insn'.rhs[k]) # Bir!Unset
  <2> SUFFICES ASSUME NEW k \in DOMAIN insn'.rhs
               PROVE  Bir!Of(insn'.rhs[k]) # Bir!Unset
    OBVIOUS
  <2>1. CellOf(depth, insn'.rhs[k]) \in assigned
    BY DEF Fetch
  <2>2. Bir!Of(insn'.rhs[k]) = Meaning(CellOf(depth, insn'.rhs[k]))
    BY <1>3, <2>1, SameProgram DEF Bir!Of, BirEnv
  <2> QED
    BY <1>3, <2>1, <2>2 DEF Bir!Unset
<1>5. insn' \in Bir!Instructions[depth]
  BY SameInstructions DEF Fetch
<1> QED
  BY <1>1, <1>2, <1>4, <1>5 DEF Bir!Fetch

LEMMA ExecuteRefines == NoNilCasts /\ IInv /\ TypeInv' /\ Execute => Bir!Execute
<1> SUFFICES ASSUME NoNilCasts, IInv, TypeInv', Execute PROVE Bir!Execute
  OBVIOUS
<1>1. Executing
  BY DEF Execute, Executing
<1> QED
  BY <1>1, ConstantLoadRefines, MoveRefines, NotRefines, NegRefines, BinaryRefines,
     BinaryTrapsRefines, TypeCastRefines, CallRefines, ReturnRefines, MainReturnsRefines,
     SameProgram DEF Execute, Bir!Execute

LEMMA StepRefines ==
  NoNilCasts /\ IInv /\ TypeInv' /\ [Next]_vars => [Bir!Next]_(Bir!vars)
<1> SUFFICES ASSUME NoNilCasts, IInv, TypeInv', [Next]_vars PROVE [Bir!Next]_(Bir!vars)
  OBVIOUS
<1>1. CASE UNCHANGED vars
  BY <1>1 DEF vars, Bir!vars, BirEnv, Meaning, MeaningOfAny, IsBox, BirStatus
<1>2. CASE status = "running" /\ insn = NoInsn /\ Fetch
  BY <1>2, FetchRefines, SameProgram DEF Bir!Next, BirStatus
<1>3. CASE status = "running" /\ Execute
  BY <1>3, ExecuteRefines DEF Bir!Next, BirStatus
<1> QED
  BY <1>1, <1>2, <1>3 DEF Next

\* The emitted code does what the BIR says, at every word size, for every set
\* of variables, sequence of instructions and depth of calls: as long as no
\* nil is cast, every step of the LLVM code is one of the BIR and it stops
\* only where the BIR fails.
THEOREM EmittedCodeImplementsBir ==
  ASSUME NoNilCasts
  PROVE  Spec => RefinesBirSpec
<1>1. IInv /\ IInv' /\ [Next]_vars => [Bir!Next]_(Bir!vars)
  BY StepRefines DEF IInv
<1> QED
  BY <1>1, InitRefines, StoredInvariance, PTL DEF Spec, RefinesBirSpec, Bir!Spec
=============================================================================
