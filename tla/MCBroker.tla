------------------------------- MODULE MCBroker -------------------------------
EXTENDS BrokerService

CONSTANTS k1, k2

MCQueueOf == [p \in Payloads |-> IF p = "result" THEN "results" ELSE "tasks"]

\* Both may take what k1 produces.
MCOffered ==
  [k \in Conns |->
     IF k = k1 THEN {Enqueue("t1"), Enqueue("t2"), Dequeue("tasks"), SetKey("v1"), SetKey("v2")}
     ELSE {Dequeue("tasks"), Enqueue("result"), Clear("tasks"), GetKey, Query, CloseIt}]
=============================================================================
