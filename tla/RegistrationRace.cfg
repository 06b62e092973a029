SPECIFICATION FairSpec
CONSTANTS
  Names = {n1}
  Sessions = {s1, s2}
  Requests = {h1, h2}
  Retries = 3
  None = None
INVARIANTS
  TypeOK
  OneShopPerPurchase
  SeededAsAnswered
PROPERTIES
  PaidGetsShop
  ShopSettles
