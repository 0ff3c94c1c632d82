SPECIFICATION Spec
CONSTANTS
  Intf = {eth0}
  Odd = {odd}
  Extra = {web}
  Filters = {web}
  MaxPackets = 2
  MaxHandle = 8
  eth0 = eth0
  odd = odd
  web = web
INVARIANTS
  RemovesDefaults
CHECK_DEADLOCK FALSE
