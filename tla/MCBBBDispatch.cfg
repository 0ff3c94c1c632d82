SPECIFICATION DispatchSpec
CONSTANTS
  bat = bat
  bakA = bakA
  bakB = bakB
  low = low
  high = high
  Battery = {bat}
  Bakery = {bakA, bakB}
  Bucket = {low, high}
  eMin <- cEMin
  eMax <- cEMax
  pMin <- cPMin
  pMax <- cPMax
  tEnd <- cTEnd
  tRun <- cTRun
  unitNumber <- cUnitNumber
  N = 4
  Dispatch = {0, 3, 5}
INVARIANTS
  EnergyInLimits
PROPERTIES
  BucketsAbsorb
  BucketsInOrder
  UrgentFirst
CHECK_DEADLOCK FALSE
