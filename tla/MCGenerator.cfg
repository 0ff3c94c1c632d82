SPECIFICATION Spec
CONSTANTS
  Gen = {g1}
  NIter = 2
  PMin = 2
  PMax = 3
  Power = {1, 3, 4}
  KMu = 1
  CG = 1
  BG = 0
  Mu0 = 2
  Deception <- MCDeception
INVARIANTS TypeOK SuppliedInLimits RepliesInOrder RepliedIsKept GradientFitsPower
CHECK_DEADLOCK FALSE
