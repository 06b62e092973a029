SPECIFICATION FairSpec
CONSTANTS
  Orders = {o1}
  Requests = {r1, r2}
  Crons = {c1}
  Serial = FALSE
INVARIANTS
  TypeOK
  PendingTogether
  PaidBeforeServed
  TrailComplete
PROPERTIES
  SessionsResolve
CHECK_DEADLOCK FALSE
