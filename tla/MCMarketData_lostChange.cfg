SPECIFICATION Spec
CONSTANTS
  w1 = w1
  c1 = c1
  nothing = nothing
  Nothing <- nothing
  Levels = 2
  MaxBooks = 1
  MaxRecs = 2
  BuyLists <- ShortBids
  SellLists <- Offers
  Writers <- OneWriter
  Clients <- OneClient
  Garbage <- AnyLevel
INVARIANTS
  PicturesAreCurrent
