SPECIFICATION Spec
CONSTANTS
  Threads = {t1, t2, t3}
  Ptrs = {p1, p2, p3, p4}
  Null = Null
  Starts <- MCOneStart
  Lens <- MCLens
  Addrs <- MCOneAddr
  MaxOverlap = 3
SYMMETRY MCSymmetry
INVARIANTS
  TypeOK
  OwnedOnce
  GarbageBounded
  FreedAfterTwoBegun
