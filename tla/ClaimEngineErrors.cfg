SPECIFICATION Spec
CONSTANTS
  BitSize = 8
  HashCount = 2
  HashOne <- MCHashOne
  HashTwo <- MCHashTwo
  Tasks <- MCTasks
  Graphs <- MCGraphs
  MaxRetries <- MCMaxRetries
  MaxConcurrent = 2
  a = a
  b = b
  c = c
  d = d
  e = e
  Registered = {a, b, c, d, e}
  Faulty = {}
  MaxRuns = 1
INVARIANT ErrorsPropagate
CHECK_DEADLOCK FALSE
