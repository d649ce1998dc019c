SPECIFICATION Spec
CONSTANTS
  Value = {1}
  Zero = 0
  Filler = filler
  Unprintable = {0}
  NoAnswer = none
  Half = 16
  IndexHalf = 16
  MaxLen = 4
INVARIANT
  GapsCanBePrinted
CHECK_DEADLOCK FALSE
