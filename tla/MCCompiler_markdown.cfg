SPECIFICATION Spec
CONSTANTS
  Garbage = Garbage
  SpecialNames = {".<init>2"}
  Files <- DocumentedFiles
INVARIANT
  EveryShapeEndsWhereItsLengthSays
CHECK_DEADLOCK FALSE
