SPECIFICATION FairSpec
CONSTANTS
  BitSize = 8
  HashCount = 2
  HashOne <- MCHashOne
  HashTwo <- MCHashTwo
  Tasks <- MCTasks
  Graphs <- MCGraphs
  MaxRetries <- MCMaxRetries
  MaxConcurrent = 2
  a = a
  b = b
  c = c
  d = d
  e = e
  Registered = {a, b, c, e}
  Faulty <- MCFaulty
  MaxRuns = 3
INVARIANTS
  SemaphoreConserved
  RunsOnlyAfterDeps
  LevelBarrier
  SuccessIsNeverRepeated
  SkipHasReason
  FailsAfterAllAttempts
  ExceptionStopsRun
  CompleteUnlessCancelled
PROPERTIES
  NoStartAfterCancel
  AbortStartsNoTask
  RunEnds
  ImplementsDag
CHECK_DEADLOCK FALSE
