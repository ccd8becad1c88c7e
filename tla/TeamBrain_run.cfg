SPECIFICATION Spec
CHECK_DEADLOCK FALSE
CONSTANTS
  s1 = s1
  r1 = r1
  r2 = r2
  d1 = d1
  p1 = p1
  u = u
  a = a
  b = b
  Sources <- MCSources
  Reviews <- MCReviews
  Directs <- MCDirects
  Pages <- MCPages
  OwnerOf <- MCOwnerOf
  Leaving <- MCLeaving
  None = None
  MaxOpen = 2
  MaxRounds = 1
  MaxCards = 2
  MaxUpsets = 1
INVARIANTS
  WritersSeeHead
  SourceFollowsVault
PROPERTIES
  NothingOverwritten
  IsAFifoLock
  ClaimsSettle
