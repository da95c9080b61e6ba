SPECIFICATION FairSpec
CONSTANTS
  s1 = s1
  s2 = s2
  ibm = ibm
  dell = dell
  abc = abc
  b1 = b1
  b2 = b2
  b3 = b3
  o1 = o1
  o2 = o2
  o3 = o3
  free = free
  none = none
  Free <- free
  None <- none
  Securities <- AllSecurities
  Numeric <- Numbers
  Books <- ThreeBooks
  Ids <- TwoIds
  Sessions <- TwoSessions
INVARIANTS
  TypeOK
  BooksAreShared
  EveryBookIsShown

  
CHECK_DEADLOCK FALSE
