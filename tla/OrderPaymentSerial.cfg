SPECIFICATION Spec
CONSTANTS
  Orders = {o1, o2}
  Requests = {r1}
  Crons = {c1}
  Serial = TRUE
SYMMETRY Symmetry
INVARIANTS
  SettledTogether
PROPERTIES
  OneOutcomePerSession
  ImplementsContract
CHECK_DEADLOCK FALSE
