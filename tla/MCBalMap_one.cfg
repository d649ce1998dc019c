SPECIFICATION FairSpec
CONSTANTS
  Map = {m1}
  a = a
  b = b
  c = c
  d = d
  e = e
  Key = {a, b, c, d, e}
  NullKey = null
  Zero = 0
  Value = {0, 1}
  Missing = missing
  Local = nMap
  Hash <- MCHash
  InitialSize = 2
  MinSize = 2
  SizeMod = 64
  MaxEntries = 16
INVARIANTS
  TypeOK
  UsedBelowCapacity
  SizesArePowersOf2
  UsedCountsEntries
  KeysReachable
  ProbeHasEmptySlot
  NoNestedGrowth
  IInv
  InsertNeverShrinks
  GrowthCopiesFields
PROPERTIES
  RefinesMapSpec
  CallsShorten
