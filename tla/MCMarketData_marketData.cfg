SPECIFICATION FairSpec
CONSTANTS
  w1 = w1
  c1 = c1
  nothing = nothing
  Nothing <- nothing
  Levels = 2
  MaxBooks = 2
  MaxRecs = 2
  BuyLists <- Bids
  SellLists <- NoOffers
  Writers <- OneWriter
  Clients <- OneClient
  Garbage <- AnyLevel
INVARIANTS
  TypeOK
  DepthIsTopLevels
  
PROPERTIES
  ChangesArePublished
