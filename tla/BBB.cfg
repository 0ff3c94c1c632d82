SPECIFICATION Spec
CONSTANTS
  Client = {c1, c2}
INVARIANTS
  ListedGetNoSentinel
  ServerThreadsSurvive
PROPERTIES
  ServerEnds
  ListedClientEnds
CHECK_DEADLOCK FALSE
