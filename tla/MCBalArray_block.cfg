SPECIFICATION Spec
CONSTANTS
  Value = {0, 1}
  Zero = 0
  Cleared = cleared
  Garbage = garbage
  NoAnswer = none
  Half = 64
  ElemSize = 4
  HeaderSize = 4
  MaxBytes = 20
  DefaultSize = 2
  Sizes <- MCSizes
INVARIANTS
  TypeOK
  CapacityIsAllocated
  StaysInBlock
  LengthIsLargestStored
  IInv
PROPERTIES
  RefinesArraySpec
CHECK_DEADLOCK FALSE
