SPECIFICATION Spec
CONSTANTS
  ana = ana
  bia = bia
  cut = cut
  wash = wash
  Orders = {o1, o2}
  Requests = {r1}
  Serial = TRUE
  Staff = {ana, bia}
  Services = {cut, wash}
  Duration <- MCDuration
  Qualified <- MCQualified
  AutoIncludes <- MCAutoIncludes
  Blocks <- MCBlocks
  DayLength <- MCDayLength
  Grid = 2
  Offset <- MCOffset
  Starts = {0, 1}
  Carts <- AllCarts
  Nobody = Nobody
  AnyFree = AnyFree
CHECK_DEADLOCK FALSE
PROPERTIES
  SwapNeverClashes
