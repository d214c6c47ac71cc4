SPECIFICATION FairSpec
CONSTANTS
  BrokerCli = BrokerCli
  Workers = {w1, w2}
  c1 = c1
  c2 = c2
  copy = copy
  bad = bad
  Classes = {c1, c2, copy, bad}
  Invalid = {bad}
  IdentifierOf <- MCIdentifierOf
  Programs <- MCPrograms
INVARIANTS
  TypeOK
  NoWorkerOutlivesDemo
  ServesEveryNode
PROPERTY LauncherEnds
CHECK_DEADLOCK FALSE
