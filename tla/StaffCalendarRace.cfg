SPECIFICATION Spec
CONSTANTS
  ana = ana
  bia = bia
  cut = cut
  wash = wash
  Orders = {o1}
  Requests = {r1, r2}
  Serial = FALSE
  Staff = {ana, bia, cai}
  Services = {cut, wash}
  Duration <- MCDuration
  Qualified <- MCQualified
  AutoIncludes <- MCAutoIncludes
  Blocks <- MCBlocks
  DayLength <- MCDayLength
  Grid = 2
  Offset <- MCOffset
  Starts = {1, 4}
  Carts <- AllCarts
  Nobody = Nobody
  AnyFree = AnyFree
CHECK_DEADLOCK FALSE
SYMMETRY Symmetry
INVARIANTS
  MirrorFollowsFirst
  DependenciesFollow
  OnlyQualified
  FreeIsListed
  ListedIsBookable
  ListingsAgree
  BusyIsShown
