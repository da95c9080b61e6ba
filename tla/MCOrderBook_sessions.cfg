SPECIFICATION FairSpec
CONSTANTS
  s1 = s1
  s2 = s2
  console = console
  o1 = o1
  o2 = o2
  o3 = o3
  o4 = o4
  free = free
  none = none
  Ids <- ThreeIds
  Sessions <- TwoSessions
  Consoles <- NoConsole
  Free <- free
  None <- none
  NewOrders <- RaceOrders
  ReplaceOrders <- RaceChanges
  CancelOrders <- RaceCancels
INVARIANTS
  OneBuyLoop
  OneHome
  
PROPERTIES
  EveryCallEnds
  
