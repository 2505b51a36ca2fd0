SPECIFICATION Spec
CONSTANTS
  Values = {v1, v2}
  Files = {f1, f2}
  FileLens <- MCFileLens
  Offsets <- MCOffsets
  Lens <- MCLens
  PageSize = 2
  Pages <- MCPages
  None = None
SYMMETRY MCSymmetry
INVARIANTS
  TypeOK
  LiveIsCovered
  CoveredIsLive
  LockGuardsMapping
