SPECIFICATION FairSpec
CONSTANTS
  Map = {m1, m2}
  a = a
  b = b
  c = c
  d = d
  e = e
  Key = {a, b, c, d}
  NullKey = null
  Zero = 0
  Value = {0}
  Missing = missing
  Local = nMap
  Hash <- MCHash
  InitialSize = 2
  MinSize = 2
  SizeMod = 16
  MaxEntries = 8
INVARIANTS
  SpreadCopiesVisitedSlots
  RefInv
  OverflowOnlyWhenNothingFits
PROPERTIES
  RefinesMapSpec
  CallsEnd
