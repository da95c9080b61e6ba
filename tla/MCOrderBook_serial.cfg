SPECIFICATION Spec
CONSTANTS
  s1 = s1
  s2 = s2
  console = console
  o1 = o1
  o2 = o2
  o3 = o3
  o4 = o4
  free = free
  none = none
  Ids <- ThreeIds
  Sessions <- OneSession
  Consoles <- OneSession
  Free <- free
  None <- none
  NewOrders <- PlainOrders
  ReplaceOrders <- Replacements
  CancelOrders <- Cancels
SYMMETRY Symmetry3
INVARIANTS
  NotCrossed
  BookIsCurrent
  OneHome
  NothingOverfilled
  TradesBalance
  WorkingOrdersRest
  IocNeverRests
  ClosedBookIsEmpty
PROPERTIES
  LimitRespected
  OverIsOver
