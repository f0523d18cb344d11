SPECIFICATION Spec
CONSTANTS
  Runtimes = {r1, r2}
  Cycles = {c1, c2}
  None = None
SYMMETRY ReloadSymmetry
INVARIANTS
  NoCodePathResends
