----------------------- MODULE EmittedCodeProperties -----------------------
(***************************************************************************)
(* What the emitted code has to keep: the values the BIR gives its         *)
(* variables, in words that can be told apart.                             *)
(***************************************************************************)
EXTENDS EmittedCode

\* Every cell holds a word of its type, boxes hold ints (the types the
\* allocas of FunctionCodeGen::visit and the globals of PackageCodeGen have).
TypeOK ==
  /\ cells \in [Cell -> I64 \cup Word \cup {Undef}]
  /\ \A c \in Cell : cells[c] \in Contents(TypeAt(c)) \cup {Undef}
  /\ DOMAIN heap \subseteq Addr /\ heap \in [DOMAIN heap -> I64]
  /\ assigned \subseteq Cell
  /\ depth \in 1 .. MaxDepth
  /\ insn \in Instructions[depth] \cup {NoInsn}
  /\ dest \in [2 .. MaxDepth -> Global \cup MainLocal \cup Local \cup {NoVar}]
  /\ status \in {"running", "done", "aborted", "crashed"}

\* A word says what it is: it is an odd word, the address of a box that was
\* allocated and holds an int too large for an odd word, or one of the two
\* booleans.  Nothing else gets into a variable of type any, and no address
\* can be taken for a boolean (CodeGenUtils.cpp, the four conversions).
IsBox(w) == w \in DOMAIN heap
IsBool(w) == w \in {6, 14}
EveryAnyIsTagged ==
  \A c \in assigned :
    TypeAt(c) = "any" /\ cells[c] # Undef =>
      /\ IsTagged(cells[c]) \/ IsBox(cells[c]) \/ IsBool(cells[c])
      /\ IsBox(cells[c]) => ~IsSmall(heap[cells[c]]) /\ ~IsTagged(cells[c]) /\ AnyToBool(cells[c]) = 0

\* A call changes nothing of its callers but the variable its result goes
\* to, and that when it returns, whatever is cast to what in the meantime
\* (the allocas of FunctionCodeGen::visit, and the store of the result in
\* TerminatorInsnCodeGen::visit(FunctionCallInsn)).
CallersAreUntouched ==
  [][\A c \in Cell : c[1] \in 1 .. depth - 1 /\ cells'[c] # cells[c] =>
       depth' = depth - 1 /\ c = <<depth - 1, dest[depth]>>]_vars

\* A variable the BIR has assigned to has had something stored in it,
\* whatever instruction assigned it (the stores of the visitors).  It holds
\* for programs without a cast of nil: TypeCastInsn's visitor stores nothing
\* for one (TypeCastInsnCodeGen.cpp:76).
AssignedCellsAreStored == \A c \in assigned : cells[c] # Undef

-----------------------------------------------------------------------------
(* The inductive invariants: one for every program, one for those without  *)
(* a cast of nil.                                                          *)

ResultsFit ==
  \A d \in 2 .. depth : dest[d] \in Visible(d - 1) /\ TypeOf[dest[d]] = TypeOf[ReturnVar]

TypeInv == TypeOK /\ ResultsFit

NoNilCasts == <<"nil", "any">> \notin Casts
OperandsAreAssigned == \A k \in DOMAIN insn.rhs : CellOf(depth, insn.rhs[k]) \in assigned
BoxesAreLarge == \A a \in DOMAIN heap : ~IsSmall(heap[a])
DeadAreUnassigned == \A c \in assigned : c[1] <= depth

IInv == /\ TypeInv
        /\ AssignedCellsAreStored /\ EveryAnyIsTagged
        /\ OperandsAreAssigned /\ BoxesAreLarge /\ DeadAreUnassigned

-----------------------------------------------------------------------------
(* The refinement.  A word of type any stands for the int or boolean its   *)
(* tag says; a cell nothing was stored in stands for no value.             *)

Lost == [type |-> "lost", val |-> 0]

MeaningOfAny(w) ==
  CASE IsTagged(w) -> IntValue(Untagged(w))
    [] ~IsTagged(w) /\ IsBox(w) -> IntValue(heap[w])
    [] ~IsTagged(w) /\ ~IsBox(w) /\ IsBool(w) -> BoolValue(AnyToBool(w))
    [] OTHER -> Lost

Meaning(c) ==
  IF c \notin assigned THEN [type |-> "unset", val |-> 0]
  ELSE IF cells[c] = Undef THEN Lost
  ELSE IF TypeAt(c) = "any" THEN MeaningOfAny(cells[c])
  ELSE [type |-> TypeAt(c), val |-> cells[c]]

BirEnv == [c \in Cell |-> Meaning(c)]
BirStatus == IF status \in {"aborted", "crashed"} THEN "failed" ELSE status

Bir == INSTANCE BirSpec WITH env <- BirEnv, status <- BirStatus

\* What the emitted code does to its words is what the BIR does to values:
\* ints survive the cast to any and back at every width, arguments reach
\* the parameter they are meant for, results their variable, and it stops
\* only where the BIR fails.
RefinesBirSpec == Bir!Spec
=============================================================================
