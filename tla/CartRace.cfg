SPECIFICATION Spec
CONSTANTS
  shampoo = shampoo
  cut = cut
  wash = wash
  massage = massage
  deal = deal
  hair = hair
  Categories = {hair}
  Products = {shampoo}
  Services = {cut, wash, massage}
  Combos = {deal}
  Requests = {r1, r2}
  Prices = {10, 25}
  Durations = {1, 2}
  Discounts = {3330, 5000}
  Lists <- MCLists
  Stocks <- MCStocks
  None = None
  MaxClock = 2
  Orders = {o1}
  Qualified = {cut}
  Customers = {r1}
  Carts <- MCCarts
CHECK_DEADLOCK FALSE
INVARIANTS
  TypeOK
  NeverBare
  ListsMixOnlyOnOverlap
  TotalExplained
  SlotsFillVisit
  IncludedOnce
PROPERTIES
  DeletedUnused
  QuotedIsCharged
