SPECIFICATION Spec
CONSTANTS
  s1 = s1
  s2 = s2
  console = console
  o1 = o1
  o2 = o2
  o3 = o3
  o4 = o4
  free = free
  none = none
  Ids <- FourIds
  Sessions <- OneSession
  Consoles <- NoConsole
  Free <- free
  None <- none
  NewOrders <- StopOrders
  ReplaceOrders <- StopChanges
  CancelOrders <- StopCancels
SYMMETRY Symmetry4
CHECK_DEADLOCK FALSE
INVARIANTS
  TypeOK
  NotCrossed
  StopsAreArmed
  WorkingOrdersRest
  BookIsCurrent
PROPERTIES
  PriceTimePriority
  RefusedMeansGone
