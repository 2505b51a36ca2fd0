SPECIFICATION Spec
CONSTANTS
  PageSize = 4
  Offset = 4
  Len = 10
  StorageAnswers = TRUE
\* the call is over once it has returned and the mapping is gone
CHECK_DEADLOCK FALSE
INVARIANTS
  TypeOK
  OkMeansAllTouched
  WorkerTouchesMapped
  TimeoutIsReal
PROPERTIES
  CallReturns
