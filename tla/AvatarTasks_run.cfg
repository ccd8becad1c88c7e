SPECIFICATION Spec
CHECK_DEADLOCK FALSE
CONSTANTS
  t1 = t1
  t2 = t2
  c1 = c1
  u = u
  Free = Free
  Chat = Chat
  Tasks <- MCTasks
  OwnerOf <- MCOwnerOf
  ThreadOf <- MCThreadOf
  Minting <- MCMinting
  MaxPending = 2
  MaxScan = 2
  MaxRuns = 2
  MaxTries = 1
  MaxUpsets = 2
INVARIANTS
  OneTaskInHand
  PendingHasThread
  GivesUp
  CancelledWasAsked
PROPERTIES
  IsATask
  TasksSettle
