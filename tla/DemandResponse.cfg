SPECIFICATION Spec
CONSTANTS
  Dr = {d1}
  NIter = 2
  PMin = 2
  PMax = 3
  Power = {1, 3, 4}
  Energy = {1}
  KMu = 1
  KE = 0
  CD = 1
  BD = 0
  Mu0 = 2
INVARIANTS RawAmountIsTransient RepliedIsKept
CHECK_DEADLOCK FALSE
