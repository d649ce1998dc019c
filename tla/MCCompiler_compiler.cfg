SPECIFICATION FairSpec
CONSTANTS
  Garbage = Garbage
  SpecialNames = {".<init>2"}
  Files <- AllFiles
INVARIANTS
  PoolIsAsWritten
  EveryShapeEndsWhereItsLengthSays
  PointersAreLive
  ParamsKeepTheirOrder
  NothingIsMissing
  ProgramIsWellFormed
  CodeIsTheProgram
PROPERTIES
  CompilationShortens
  CompilationEnds
CHECK_DEADLOCK FALSE
