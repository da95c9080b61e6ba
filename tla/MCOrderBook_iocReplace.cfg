SPECIFICATION Spec
CONSTANTS
  s1 = s1
  s2 = s2
  console = console
  o1 = o1
  o2 = o2
  o3 = o3
  o4 = o4
  free = free
  none = none
  Ids <- TwoIds
  Sessions <- OneSession
  Consoles <- NoConsole
  Free <- free
  None <- none
  NewOrders <- StopLimitBuy
  ReplaceOrders <- IocStopLimit
  CancelOrders <- Nothing
CHECK_DEADLOCK FALSE
PROPERTIES
  NotFoundMeansGone
