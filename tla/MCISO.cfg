SPECIFICATION MCSpec
CONSTANTS
  NGen = 2
  Dr = {}
  Client = {0, 1}
  NIter = 3
  Silence = 1
  Power = {1}
  Shipped = {0, 1}
INVARIANTS TypeOK CountedOnce GradientsAdvance
PROPERTIES RemovedOnlyIfSilent LoadIsKept MatricesFitMarket
CHECK_DEADLOCK FALSE
