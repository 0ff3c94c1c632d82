SPECIFICATION FairSpec
CONSTANTS
  NGen = 1
  Dr = {d1}
  Client = {0, d1}
  NIter = 2
  Silence = 0
  Power = {1}
  Shipped = {}
PROPERTIES LoopEnds
CHECK_DEADLOCK FALSE
