SPECIFICATION Spec
CONSTANTS
  Orders = {o1}
  Requests = {r1}
  Crons = {c1}
  Serial = FALSE
PROPERTIES
  OneOutcomePerSession
CHECK_DEADLOCK FALSE
