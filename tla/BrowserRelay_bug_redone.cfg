SPECIFICATION RelaySpec
CHECK_DEADLOCK FALSE
CONSTANTS
  o1 = o1
  o2 = o2
  a = a
  b = b
  Requests <- MCRequests
  Secrets <- MCSecrets
  Pages <- OnePage
  HandledMax = 1
  CoalesceMax = 2
  MaxCuts = 1
INVARIANT NotRedone
