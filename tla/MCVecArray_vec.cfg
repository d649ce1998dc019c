SPECIFICATION Spec
CONSTANTS
  Value = {0, 1}
  Zero = 0
  Filler = filler
  Unprintable = {0}
  NoAnswer = none
  Half = 16
  IndexHalf = 16
  MaxLen = 4
INVARIANTS
  TypeOK
  LastIsStored
PROPERTIES
  RefinesArraySpec
CHECK_DEADLOCK FALSE
