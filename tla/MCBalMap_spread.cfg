SPECIFICATION FairSpec
CONSTANTS
  a = a
  b = b
  c = c
  d = d
  e = e
  Map = {m1, m2}
  Key = {a, b}
  NullKey = null
  Zero = 0
  Value = {0, 80}
  Missing = missing
  Local = nMap
  Hash <- TestHash
  InitialSize = 8
  MinSize = 8
  SizeMod = 1024
  MaxEntries = 16
INVARIANT
  SpreadCopiesEveryField
