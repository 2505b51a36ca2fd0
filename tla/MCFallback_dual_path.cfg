SPECIFICATION Spec
CONSTANTS
  MaxLen = 3
  Data = {z, d}
  Zero = z
  UsizeMod = 8
  None = None
INVARIANTS
  TypeOK
  OkMeansAll
  NetworkNeverSigbus
PROPERTIES
  EofOnlyIfShrunk
  ReadReturns
