SPECIFICATION Spec
CONSTANTS
  ClientNum = 2
  Hosts = 2
  Rounds = 4
  Last = 3
  MaxTimeouts = 2
INVARIANTS
  OwnRoundIsAveraged
  AveragesDrift
PROPERTIES
  LeftServerStops
  FaultFreeRunEnds
  SurvivesKill
CHECK_DEADLOCK FALSE
