SPECIFICATION Spec
CONSTANTS
  Global = {"g"}
  MainLocal = {"i", "n", "ret"}
  Local = {"p", "s", "r"}
  TypeOf <- MCType
  Params <- TwoParams
  ArgLocals <- TwoParams
  ReturnVar = "r"
  MainReturnVar = "ret"
  Casts <- AllCasts
  BinaryOps <- FewOps
  IntConst <- OneOfEach
  Half = 8
  Byte = 16
  MaxDepth = 3
  Addr = {4}
  Undef = Undef
  NoVar = NoVar
INVARIANTS TypeOK
PROPERTIES CallersAreUntouched
CHECK_DEADLOCK FALSE
