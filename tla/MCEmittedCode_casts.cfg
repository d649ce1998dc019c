SPECIFICATION Spec
CONSTANTS
  Global = {"g"}
  MainLocal = {"i", "b", "a", "ret"}
  Local = {"p", "s", "r"}
  TypeOf <- MCType
  Params <- TwoParams
  ArgLocals <- TwoParams
  ReturnVar = "r"
  MainReturnVar = "ret"
  Casts <- ValueCasts
  BinaryOps <- CastOps
  IntConst <- FirstBoxed
  Half = 8
  Byte = 16
  MaxDepth = 2
  Addr = {4}
  Undef = Undef
  NoVar = NoVar
INVARIANTS EveryAnyIsTagged AssignedCellsAreStored
PROPERTIES RefinesBirSpec
CHECK_DEADLOCK FALSE
