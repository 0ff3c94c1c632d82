SPECIFICATION Spec
CONSTANTS
  Keeper = {k1}
  Once = {o1}
  Batch = 2
  MaxRound = 2
  Receivers = 2
  PipeSize = 1
  MaxStops = 2
  k1 = k1
  o1 = o1
INVARIANTS
  OneFileAfterStop
  RecordedOnce
PROPERTIES
  StopRecords
  StopRecvEnds
CHECK_DEADLOCK FALSE
