SPECIFICATION Spec
CHECK_DEADLOCK FALSE
CONSTANTS
  o1 = o1
  o2 = o2
  t1 = t1
  n1 = n1
  n2 = n2
  Ops <- MCOps
  Tabs <- MCTabs
  Nodes <- MCNodes
  None = None
  RefMapMax = 1
  MaxDocs = 3
  MaxEpoch = 2
  MaxUids = 3
SYMMETRY Alike
INVARIANTS
  AcceptedUidsNameTheirElement
  UidNamesOneElement
