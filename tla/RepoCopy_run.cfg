SPECIFICATION Spec
CONSTANTS
  c1 = c1
  c2 = c2
  chat1 = chat1
  chat2 = chat2
  routine = routine
  NoOne = NoOne
  Conversations = {c1, c2}
  Runs = {chat1, chat2, routine}
  Routines = {routine}
  ConvOf <- SeatOf
  MaxAtOnce = 2
SYMMETRY Symmetry
CONSTRAINT OverlapBound
INVARIANTS
  ExclusiveWork
  LockIsGivenBack
  HolderOwnsTheEdits
PROPERTIES
  UncommittedWorkStays
