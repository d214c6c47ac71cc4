SPECIFICATION FairSpec
CONSTANTS
  m1 = m1
  m2 = m2
  w1 = w1
  w2 = w2
  DefaultVersion = "1.0.0"
  NoMessage = NoMessage
  BitSize = 8
  HashCount = 2
  HashOne <- ApartHashOne
  HashTwo <- ApartHashTwo
  Tasks <- MCTasks
  Known <- MCKnown
  Valued <- MCValued
  Retries <- MCRetries
  Unbuildable = {}
  Oversized = {}
  MaxContext = 3
  Masters = {m1}
  Workers = {w1, w2}
  Graphs <- Alone
  ContinueOnFailure <- Neither
  TimesOut = {1}
  MaxDispatches = 2
  MaxFaults = 0
INVARIANTS
  TypeOK
  AtMostOneCopy
  NothingIsLost
  DispatchedAfterDeps
  ContextIsComplete
  ReturnsEveryTask
  CancelledIsNotExecuted
PROPERTY SubmitReturns
CHECK_DEADLOCK FALSE
