SPECIFICATION Spec
CONSTANTS
  ann = ann
  bob = bob
  a1 = a1
  a2 = a2
  b1 = b1
  Owners = {ann, bob}
  Jobs = {a1, a2, b1}
  OwnerOf <- OwnedBy
  WithRepo = {a1}
  Chatted = {b1}
  ByHand = {a1}
  Plans <- PlannedBy
  Never = Never
  MaxRuns = 2
  MaxPerOwner = 1
  MaxTime = 2
INVARIANTS
  SlotsMatchFirings
PROPERTIES
  LimitsHold
  DueUntilRun
  DueJobsRun
