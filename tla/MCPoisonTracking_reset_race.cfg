SPECIFICATION Spec
CONSTANTS
  Threads = {t1, t2}
  Limits <- MCOneLimit
  CountMod = 8
  MaxResets = 1
  MaxPanics = 0
  MaxDepth = 1
  None = None
SYMMETRY MCSymmetry
INVARIANTS
  PoisonedMeansExhausted
