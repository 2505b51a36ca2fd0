SPECIFICATION Spec
CONSTANTS
  Threads = {t1, t2}
  Limits <- MCLimits
  CountMod = 8
  MaxResets = 1
  MaxPanics = 1
  MaxDepth = 1
  None = None
SYMMETRY MCSymmetry
INVARIANTS
  TypeOK
  
  PoisonedIffExhausted
  AnnouncedExactly
  ExhaustedMeansPoisoned
