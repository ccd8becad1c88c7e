SPECIFICATION Spec
CONSTANTS
  None = None
  Sends = {s1}
  Edits = {e1}
  Regenerates = {g1}
  Tasks = {k1}
  Routines = {}
  MaxSteers = 1
  MaxDeletes = 1
  MaxFirings = 1
  MaxRequeues = 1
  KeepRows = 4
INVARIANTS
  OneLiveRun
  OrdinaryRowHeadsItsAnswers
  AnswersKeepTheirQuestion
PROPERTIES
  RegenerateCutsOwnOrQueued
  ThreadIsGivenBack
CHECK_DEADLOCK FALSE
