SPECIFICATION FairSpec
CONSTANTS
  Worker = {w1, w2}
  Name = {a, b}
  Operation <- AllOperations
  BatchSize = 1
  MaxCalls = 2
  MaxEvents = 1
INVARIANTS
  TypeOK
  AnswersAreOwn
  ListIsComplete
  OnlyNamedTouched
  VerdictTellsChange
PROPERTIES
  RequestReturns
CHECK_DEADLOCK FALSE
