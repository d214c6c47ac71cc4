SPECIFICATION FairSpec
CONSTANTS
  k1 = k1
  k2 = k2
  NoCall = NoCall
  Conns = {k1, k2}
  QueueNames = {"tasks", "results"}
  Payloads = {"t1", "t2", "result"}
  Values = {"v1", "v2"}
  QueueOf <- MCQueueOf
  Name = "tasks"
  Oversized = {"result"}
  Offered <- MCOffered
  MayCancel = TRUE
  MayHalt = TRUE
  MaxCalls = 3
INVARIANTS
  TypeOK
  ExactlyOnce
  AnswersOwnRequest
PROPERTIES
  ImplementsQueue
  CallsReturn
CHECK_DEADLOCK FALSE
