SPECIFICATION Spec
CONSTANTS
  Users = {u1}
  Requests = {r1}
  Serial = TRUE
  Ttl = 2
  MaxTime = 1
  MaxRows = 4
PROPERTIES
  ReplayRefused
CHECK_DEADLOCK FALSE
