SPECIFICATION Spec
CONSTANTS
  PageSize = 2
  MapLen = 3
  UsizeMod = 8
  FileLens <- MCFileLens
INVARIANTS
  TypeOK
  CallsCoverRange
  ProbeMissesOnlyLast
  WritesKept
  FlushPersists
  PinnedNeverFaults
PROPERTIES
  InvertedRefused
