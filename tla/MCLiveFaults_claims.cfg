SPECIFICATION SpecAll
CONSTANTS
  Threads = {t1, t2}
  Ptrs = {p1, p2, p3}
  Null = Null
  Starts <- MCStarts
  Lens <- MCLens
  Addrs <- MCAddrs
  MaxOverlap = 1
  Values = {v1, v2}
  Files = {f1}
  FileLens <- MCFileLens
  Offsets <- MCOffsets
  OptionLens <- MCOptionLens
  PageSize = 2
  Pages <- MCPages
SYMMETRY MCSymmetry
INVARIANTS
  NoDanglingScan
  ClaimsExactlyLive
PROPERTIES
  ImplementsRegionSet
  ImplementsLifecycle
