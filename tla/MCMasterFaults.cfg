SPECIFICATION FairSpec
CONSTANTS
  m1 = m1
  m2 = m2
  w1 = w1
  w2 = w2
  DefaultVersion = "1.0.0"
  NoMessage = NoMessage
  BitSize = 8
  HashCount = 2
  HashOne <- MCHashOne
  HashTwo <- MCHashTwo
  Tasks <- MCTasks
  Known <- MCKnown
  Valued <- MCValued
  Retries <- NoRetries
  Unbuildable <- MCUnbuildable
  Oversized <- MCOversized
  MaxContext = 0
  Masters = {m1, m2}
  Workers = {w1}
  Graphs <- Shared
  ContinueOnFailure <- OnlyM1
  TimesOut = {1, 2}
  MaxDispatches = 2
  MaxFaults = 1
INVARIANTS
  ResultsAreGenuine
PROPERTIES
  SubmitReturns
  StopEndsWorker
CHECK_DEADLOCK FALSE
