SPECIFICATION Spec
CONSTANTS
  Users = {u1, u2}
  Requests = {r1}
  Serial = TRUE
  Ttl = 2
  MaxTime = 3
  MaxRows = 5
SYMMETRY Symmetry
INVARIANTS
  TypeOK
PROPERTIES
  ImplementsContract
CHECK_DEADLOCK FALSE
