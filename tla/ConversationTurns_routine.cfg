SPECIFICATION Spec
CONSTANTS
  None = None
  Sends = {s1, s2}
  Edits = {e1}
  Regenerates = {}
  Tasks = {}
  Routines = {r1}
  MaxSteers = 1
  MaxDeletes = 1
  MaxFirings = 2
  MaxRequeues = 1
  KeepRows = 4
INVARIANTS
  RewindRunUndisturbed
PROPERTIES
  RewindCutsWhatItPlanned
CHECK_DEADLOCK FALSE
