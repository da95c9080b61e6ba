SPECIFICATION Spec
CONSTANTS
  absent = absent
  Absent <- absent
  NewMessages <- News
  ReplaceMessages <- Replaces
  CancelMessages <- Cancels
  Prices <- TradePrices
  MaxReplaces = 2
  MaxUnanswered = 2
CHECK_DEADLOCK FALSE
INVARIANTS
  TypeOK
  OpenAsWanted
  WholeOrderShows
  AverageIsEarned

  
