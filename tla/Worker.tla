-------------------------------- MODULE Worker --------------------------------
(***************************************************************************)
(* application/distributed.py: class Worker.  Each worker polls "tasks",   *)
(* executes what it gets, with retries, and puts the result into           *)
(* "results".  Nothing is acknowledged: from the dequeue to the enqueue of *)
(* the result, the task exists in this worker only.  A connection that is   *)
(* lost is not opened again.                                               *)
(***************************************************************************)
EXTENDS Queues

CONSTANTS
  Workers,
  Known,      \* the tasks registered in the workers' processes
  Valued,     \* the tasks whose execute returns something else than None
  Retries,    \* task -> max_retries of its node
  Unbuildable,\* the tasks whose node class cannot be instantiated
  Oversized,  \* the tasks whose result is longer than the broker's limit
  NoMessage

ASSUME WorkerAssumption ==
  /\ Known \subseteq Tasks
  /\ Retries \in [Tasks -> Nat]
  /\ Unbuildable \subseteq Known /\ Oversized \subseteq Known
  /\ MaxFaults \in Nat
  /\ NoMessage \notin TaskMessages

VARIABLES
  wpc,        \* where the loop of start() is
  running,    \* _running
  connected,  \* the connection of _queue is open at both ends
  held,       \* the message being executed or reported
  attempt,    \* the attempts at it that failed
  outcomes    \* history: [task, dispatch, status] of every result produced

workerVars == <<wpc, running, connected, held, attempt, outcomes>>

Reporting == {"success", "failed"}  \* about to enqueue a result of that status

WorkerStates == {"polling", "executing", "backoff", "down", "spinning"} \cup Reporting

WorkerInit ==
  /\ wpc = [w \in Workers |-> "polling"]
  /\ running = [w \in Workers |-> TRUE]
  /\ connected = [w \in Workers |-> TRUE]
  /\ held = [w \in Workers |-> NoMessage]
  /\ attempt = [w \in Workers |-> 0]
  /\ outcomes = {}

Busy(w) == held[w] # NoMessage

\* A result for the message w holds is ready to be sent.
Conclude(w, status) ==
  /\ wpc' = [wpc EXCEPT ![w] = status]
  /\ attempt' = [attempt EXCEPT ![w] = 0]
  /\ outcomes' = outcomes \cup
       {[task |-> held[w].task, dispatch |-> held[w].dispatch, status |-> status]}

-----------------------------------------------------------------------------
(* start() and execute_task *)

\* dequeue returns a message: even to a worker being stopped, whose dequeue
\* was under way.
Take(w) ==
  /\ wpc[w] = "polling" /\ connected[w]
  /\ taskQueue # << >>
  /\ taskQueue' = Tail(taskQueue)
  /\ held' = [held EXCEPT ![w] = Head(taskQueue)]
  /\ wpc' = [wpc EXCEPT ![w] = "executing"]
  /\ UNCHANGED <<brokerUp, resultQueue, abandoned, faults, running, connected, attempt, outcomes>>

\* No registered node.
Reject(w) ==
  /\ wpc[w] = "executing"
  /\ held[w].task \notin Known
  /\ Conclude(w, "failed")
  /\ UNCHANGED <<queueVars, faults, running, connected, held>>

\* What can be executed.
Built(w) == wpc[w] = "executing" /\ held[w].task \in Known \ Unbuildable

Succeed(w) ==
  /\ Built(w)
  /\ Conclude(w, "success")
  /\ UNCHANGED <<queueVars, faults, running, connected, held>>

RetriesLeft(w) == attempt[w] < Retries[held[w].task]

\* An attempt raises or exceeds 30 s ...
FailAttempt(w) ==
  /\ Built(w)
  /\ RetriesLeft(w)
  /\ attempt' = [attempt EXCEPT ![w] = @ + 1]
  /\ wpc' = [wpc EXCEPT ![w] = "backoff"]
  /\ UNCHANGED <<queueVars, faults, running, connected, held, outcomes>>

BackoffOver(w) ==
  /\ wpc[w] = "backoff"
  /\ wpc' = [wpc EXCEPT ![w] = "executing"]
  /\ UNCHANGED <<queueVars, faults, running, connected, held, attempt, outcomes>>

\* ... and so does the last one.
FailTask(w) ==
  /\ Built(w)
  /\ ~ RetriesLeft(w)
  /\ Conclude(w, "failed")
  /\ UNCHANGED <<queueVars, faults, running, connected, held>>

\* Mutant: the result is enqueued twice.
ResultTwice(w) ==
  LET r == ResultDict(held[w].task, wpc[w],
                      wpc[w] = "success" /\ held[w].task \in Valued, held[w].dispatch)
  IN  << r, r >>

\* What w appends to "results".
Result(w) ==
  << ResultDict(held[w].task, wpc[w],
                wpc[w] = "success" /\ held[w].task \in Valued, held[w].dispatch) >>

\* The message is done with; the loop ends once stop() was called.
NextMessage(w) ==
  /\ held' = [held EXCEPT ![w] = NoMessage]
  /\ wpc' = [wpc EXCEPT ![w] = IF running[w] THEN "polling" ELSE "down"]

\* The constructor raises out of execute_task: the exception is logged, and
\* nothing reported.
Forget(w) ==
  /\ wpc[w] = "executing"
  /\ held[w].task \in Unbuildable
  /\ NextMessage(w)
  /\ UNCHANGED <<queueVars, faults, running, connected, attempt, outcomes>>

\* A result beyond the limit makes the broker close the connection.
Arrives(w) == connected[w] /\ ~ (wpc[w] = "success" /\ held[w].task \in Oversized)

\* The result is enqueued; when that raises, the exception is logged and the
\* result forgotten.
Report(w) ==
  /\ wpc[w] \in Reporting
  /\ resultQueue' = IF Arrives(w) THEN resultQueue \o Result(w) ELSE resultQueue
  /\ connected' = [connected EXCEPT ![w] = Arrives(w)]
  /\ NextMessage(w)
  /\ UNCHANGED <<brokerUp, taskQueue, abandoned, faults, running, attempt, outcomes>>

\* The dequeue of a stopping worker times out and its loop ends.
Leave(w) ==
  /\ wpc[w] = "polling" /\ ~ running[w]
  /\ wpc' = [wpc EXCEPT ![w] = "down"]
  /\ UNCHANGED <<queueVars, faults, running, connected, held, attempt, outcomes>>

\* Mutant: the loop does not look at _running.
SpinStopped(w) ==
  /\ wpc[w] = "polling" /\ ~ connected[w]
  /\ wpc' = [wpc EXCEPT ![w] = "spinning"]
  /\ UNCHANGED <<queueVars, faults, running, connected, held, attempt, outcomes>>

\* Without a connection dequeue raises at once, and start() logs that and calls it
\* again.  No await in this loop suspends: nothing else runs in the process.
Spin(w) ==
  /\ wpc[w] = "polling" /\ ~ connected[w] /\ running[w]
  /\ wpc' = [wpc EXCEPT ![w] = "spinning"]
  /\ UNCHANGED <<queueVars, faults, running, connected, held, attempt, outcomes>>

-----------------------------------------------------------------------------
(* stop(), the end of the process, and a new one *)

Stop(w) ==
  /\ running[w] /\ wpc[w] # "spinning"
  /\ Fault
  /\ running' = [running EXCEPT ![w] = FALSE]
  /\ UNCHANGED <<queueVars, wpc, connected, held, attempt, outcomes>>

\* disconnect(), called by stop(), waits for the lock of a dequeue under way,
\* but not for the task that is being executed.
Disconnect(w) ==
  /\ ~ running[w] /\ connected[w]
  /\ wpc[w] # "polling"
  /\ connected' = [connected EXCEPT ![w] = FALSE]
  /\ UNCHANGED <<queueVars, faults, wpc, running, held, attempt, outcomes>>

\* The process dies, or the task of start() is cancelled.
Crash(w) ==
  /\ wpc[w] # "down"
  /\ Fault
  /\ wpc' = [wpc EXCEPT ![w] = "down"]
  /\ running' = [running EXCEPT ![w] = FALSE]
  /\ connected' = [connected EXCEPT ![w] = FALSE]
  /\ held' = [held EXCEPT ![w] = NoMessage]
  /\ attempt' = [attempt EXCEPT ![w] = 0]
  /\ abandoned' = IF wpc[w] = "polling" /\ connected[w]
                  THEN [abandoned EXCEPT !.tasks = @ + 1] ELSE abandoned
  /\ UNCHANGED <<brokerUp, taskQueue, resultQueue, outcomes>>

\* connect() raises when there is no broker.
Start(w) ==
  /\ wpc[w] = "down" /\ ~ connected[w] /\ brokerUp
  /\ wpc' = [wpc EXCEPT ![w] = "polling"]
  /\ running' = [running EXCEPT ![w] = TRUE]
  /\ connected' = [connected EXCEPT ![w] = TRUE]
  /\ UNCHANGED <<queueVars, faults, held, attempt, outcomes>>

-----------------------------------------------------------------------------

\* What a worker does by itself.
WorkerStep(w) ==
  \/ Take(w) \/ Reject(w) \/ Forget(w) \/ Succeed(w) \/ FailAttempt(w) \/ BackoffOver(w)
  \/ FailTask(w) \/ Report(w) \/ Leave(w) \/ Spin(w) \/ Disconnect(w)

\* What happens to it.
WorkerFault(w) == Stop(w) \/ Crash(w) \/ Start(w)

WorkerTypeOK ==
  /\ wpc \in [Workers -> WorkerStates]
  /\ running \in [Workers -> BOOLEAN]
  /\ connected \in [Workers -> BOOLEAN]
  /\ held \in [Workers -> TaskMessages \cup {NoMessage}]
  /\ attempt \in [Workers -> Nat]
  /\ outcomes \in SUBSET [task : Tasks, dispatch : Dispatches, status : {"success", "failed"}]
=============================================================================
