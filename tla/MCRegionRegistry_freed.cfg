SPECIFICATION Spec
CONSTANTS
  Threads = {t1, t2}
  Ptrs = {p1, p2, p3}
  Null = Null
  Starts <- MCOneStart
  Lens <- MCLens
  Addrs <- MCOneAddr
  MaxOverlap = 2
SYMMETRY MCSymmetry
INVARIANTS
  NoDanglingScan
