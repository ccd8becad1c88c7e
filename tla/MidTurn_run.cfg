SPECIFICATION Spec
CONSTANTS
  Typed = {t1, t2}
  Slashed = {t2}
  Jobs = {j1}
  Opening = Opening
  NoSession = NoSession
  MaxUndelivered = 2
  MaxRounds = 2
INVARIANTS
  SessionCoversRows
  NothingReadTwice
  AnswersReadTheirRows
  AcceptedAreAnswered
  JobsAreAwaited
  EffectsOnce
PROPERTIES
  EveryRunEnds
CHECK_DEADLOCK FALSE
