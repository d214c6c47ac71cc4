-------------------------------- MODULE Queues --------------------------------
(***************************************************************************)
(* What the master and the workers see of the broker                       *)
(* (infrastructure/message_queue.py): the two FIFO queues "tasks" and      *)
(* "results" they share, and the JSON forms of domain/entities.py that     *)
(* travel through them.                                                    *)
(*                                                                         *)
(* The broker answers a blocking dequeue in a coroutine of its own.  When  *)
(* the client goes away, that coroutine still waits, and takes a message   *)
(* nobody will read: an abandoned getter.  When the broker goes away, the   *)
(* queues are gone.  Module Broker has the connections and coroutines       *)
(* behind this.                                                            *)
(***************************************************************************)
EXTENDS Integers, Sequences, FiniteSets

CONSTANTS
  Tasks,          \* the task identifiers: [name, version]
  DefaultVersion, \* "1.0.0"
  MaxFaults       \* bounds the crashes and the calls of stop() and shutdown()

\* A TaskId has these two fields.
ASSUME TasksAreIds == \A t \in Tasks : t = [name |-> t.name, version |-> t.version]

VARIABLES
  brokerUp,    \* the broker's process is there
  taskQueue,   \* the payloads in "tasks"
  resultQueue, \* the payloads in "results"
  abandoned,   \* the abandoned getters of either queue
  faults       \* their number so far

queueVars == <<brokerUp, taskQueue, resultQueue, abandoned>>

\* Something happens that nobody asked for.
Fault == faults < MaxFaults /\ faults' = faults + 1

Names == {t.name : t \in Tasks}

Dispatches == Nat

\* DistributedTaskPayload.to_dict; the context is the set of its keys.
TaskMessages == [task : Tasks, context : SUBSET Names, dispatch : Dispatches]

\* TaskResultPayload.to_dict.  The version of the task is not part of it.
ResultMessages ==
  [name : Names, status : {"success", "failed"}, value : BOOLEAN, dispatch : Dispatches]

ResultDict(task, status, value, dispatch) ==
  [name |-> task.name, status |-> status, value |-> value, dispatch |-> dispatch]

\* The identifier the master builds from a result: task_version is missing.
ReadBack(result) == [name |-> result.name, version |-> DefaultVersion]

QueuesInit ==
  /\ brokerUp = TRUE
  /\ taskQueue = << >>
  /\ resultQueue = << >>
  /\ abandoned = [tasks |-> 0, results |-> 0]
  /\ faults = 0

\* Mutant: whether there is a getter or not.
GetterEndsUnchecked(q) ==
  /\ abandoned' = [abandoned EXCEPT ![q] = @ - 1]
  /\ UNCHANGED <<brokerUp, faults>>

\* A getter of queue q ends.
GetterEnds(q) ==
  /\ abandoned[q] > 0
  /\ abandoned' = [abandoned EXCEPT ![q] = @ - 1]
  /\ UNCHANGED <<brokerUp, faults>>

\* It takes the next message, which is lost ...
LoseTask ==
  /\ taskQueue # << >> /\ GetterEnds("tasks")
  /\ taskQueue' = Tail(taskQueue)
  /\ UNCHANGED resultQueue

LoseResult ==
  /\ resultQueue # << >> /\ GetterEnds("results")
  /\ resultQueue' = Tail(resultQueue)
  /\ UNCHANGED taskQueue

\* ... unless its timeout comes first.
GetterTimeout ==
  /\ \E q \in {"tasks", "results"} : GetterEnds(q)
  /\ UNCHANGED <<taskQueue, resultQueue>>

\* The broker's process ends, and the queues with it: nothing is persistent.
QueuesEnd ==
  /\ brokerUp /\ Fault
  /\ brokerUp' = FALSE
  /\ taskQueue' = << >>
  /\ resultQueue' = << >>
  /\ abandoned' = [tasks |-> 0, results |-> 0]

\* A new process at the same address.
QueuesStart ==
  /\ ~ brokerUp
  /\ brokerUp' = TRUE
  /\ UNCHANGED <<taskQueue, resultQueue, abandoned, faults>>

QueuesTypeOK ==
  /\ brokerUp \in BOOLEAN
  /\ taskQueue \in Seq(TaskMessages)
  /\ resultQueue \in Seq(ResultMessages)
  /\ abandoned \in [{"tasks", "results"} -> Nat]
  /\ faults \in Nat
=============================================================================
