SPECIFICATION Spec
CONSTANTS
  Threads = {t1, t2}
  Maps = {m1, m2}
  Foreign = Foreign
  Null = Null
  MaxDepth = 2
  ForeignKeyZero = TRUE
SYMMETRY MCSymmetry
\* the process may really end
CHECK_DEADLOCK FALSE
INVARIANTS
  TypeOK
  NoWildJump
  ErrReportsOwnFault
  LeafFaultCaught
  MisreadOnlyBeforeFirstCall
PROPERTIES
  FaultKeepsFrames
