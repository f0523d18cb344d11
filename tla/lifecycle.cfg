SPECIFICATION Spec
CONSTANTS
  Runtimes = {r1, r2, r3}
  Cycles = {c1, c2}
  None = None
SYMMETRY ReloadSymmetry
INVARIANTS
  TypeOK
  OneLoopAtATime
  OrderlyReloadsNeverResend
