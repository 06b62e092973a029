SPECIFICATION Spec
CONSTANTS
  Phones = {p1}
  Links = {l1, l2, l3}
  Requests = {r1}
  Emails = {e1}
  Serial = TRUE
  MaxAttempts = 2
SYMMETRY Symmetry
INVARIANTS
  TypeOK
  RateLimitHolds
  SingleUse
  UsedUpForSomething
  NamelessHaveNoRole
CHECK_DEADLOCK FALSE
