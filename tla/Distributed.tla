----------------------------- MODULE Distributed -----------------------------
(***************************************************************************)
(* Masters and workers around the broker's two queues (README.md: "True    *)
(* distributed execution via TCP sockets").                                *)
(***************************************************************************)
EXTENDS Master, Worker

vars == <<queueVars, faults, masterVars, workerVars>>

Init == QueuesInit /\ MasterInit /\ WorkerInit

\* The broker's process ends, and every connection with it.
BrokerEnds ==
  /\ QueuesEnd
  /\ connected' = [w \in Workers |-> FALSE]
  /\ linked' = [m \in Masters |-> FALSE]
  /\ UNCHANGED <<wpc, running, held, attempt, outcomes, mpc, submission>>

Next ==
  \/ \E m \in Masters : (MasterStep(m) \/ MasterCall(m)) /\ UNCHANGED workerVars
  \/ \E w \in Workers : (WorkerStep(w) \/ WorkerFault(w)) /\ UNCHANGED masterVars
  \/ (LoseTask \/ LoseResult \/ GetterTimeout \/ QueuesStart)
       /\ UNCHANGED <<masterVars, workerVars>>
  \/ BrokerEnds

Spec == Init /\ [][Next]_vars

\* Masters and workers go on while they can: a dequeue returns within its
\* timeout, an attempt within 30 s.  Nobody has to submit, stop, crash or start.
FairSpec ==
  /\ Spec
  /\ \A m \in Masters : WF_vars(MasterStep(m) /\ UNCHANGED workerVars)
  /\ \A w \in Workers : WF_vars(WorkerStep(w) /\ UNCHANGED masterVars)

-----------------------------------------------------------------------------
(* Properties *)

TypeOK == QueuesTypeOK /\ MasterTypeOK /\ WorkerTypeOK

\* The payloads of m's dispatch on their way to a result.
InFlight(m) ==
  {msg \in {taskQueue[i] : i \in DOMAIN taskQueue} \cup {held[w] : w \in {v \in Workers : Busy(v)}} :
     msg.dispatch = dispatch[m]}

Reported(m, t) == t \in DOMAIN results[m] /\ results[m][t] \in {"success", "failed"}

\* No other version of t is in the graph.
SoleVersion(m, t) == \A u \in Nodes(m) : u.name = t.name => u = t

\* In how many places t of m's dispatch is: queued, held by a worker, queued as
\* a result, or reported.
Copies(m, t) ==
  Cardinality({i \in DOMAIN taskQueue :
                 taskQueue[i].task = t /\ taskQueue[i].dispatch = dispatch[m]})
  + Cardinality({w \in Workers :
                 Busy(w) /\ held[w].task = t /\ held[w].dispatch = dispatch[m]})
  + Cardinality({i \in DOMAIN resultQueue :
                 resultQueue[i].name = t.name /\ resultQueue[i].dispatch = dispatch[m]})
  + (IF Reported(m, t) THEN 1 ELSE 0)

\* However many workers compete for the queue, a task of a dispatch is in the
\* hands of one of them at most, and yields one result at most.  Results bear no
\* version, so this cannot be said of a task that is in the graph in two versions.
AtMostOneCopy ==
  \A m \in Masters : \A t \in Nodes(m) : SoleVersion(m, t) => Copies(m, t) <= 1

\* With one master, and as long as nothing is stopped or dies, a task that is
\* awaited is somewhere, if it can be built, its result be sent, and its version
\* is the default one: the result of any other is not recognised.
NothingIsLost ==
  faults = 0 /\ Cardinality(Masters) = 1 =>
    \A m \in Masters : \A t \in expected[m] \ (Unbuildable \cup Oversized) :
      t.version = DefaultVersion => Copies(m, t) >= 1

\* A result is credited to the dispatch whose execution produced it, and to the
\* name of the task that was executed there: late results of an earlier dispatch of
\* the same task, and results of another master's, are not taken for it.  That it
\* is credited to the right version of the name is not true: see
\* CollectsResultsOfTasks in DistributedClaims.
ResultsAreGenuine ==
  \A m \in Masters : \A t \in DOMAIN results[m] : Reported(m, t) =>
    \E u \in Nodes(m) :
      /\ u.name = t.name
      /\ [task |-> u, dispatch |-> dispatch[m], status |-> results[m][t]] \in outcomes

\* A payload is sent out only after each of its dependencies has succeeded, was
\* skipped, or has failed where that is tolerated; but for those of its
\* dependencies that were late.
DispatchedAfterDeps ==
  \A m \in Masters : \A msg \in InFlight(m) : \A d \in graph[m].deps[msg.task] \ late[m] :
    /\ d \in DOMAIN results[m]
    /\ results[m][d] \in {"success", "skipped"} \/ ContinueOnFailure[m]

\* The context a worker gets holds the result of every dependency that has one.
\* The context has names for keys, so this is not said of a dependency that is in
\* the graph in two versions.
ContextIsComplete ==
  \A m \in Masters : \A msg \in InFlight(m) : \A d \in graph[m].deps[msg.task] :
    (d \in Valued /\ d \in DOMAIN results[m] /\ results[m][d] = "success"
       /\ SoleVersion(m, d))
    => d.name \in msg.context

\* What submit_graph returns has a status for every task of the graph that was not
\* late, also after a level that timed out, and for no other task.
ReturnsEveryTask ==
  \A m \in Masters : mpc[m] = "returned" =>
    /\ Nodes(m) \ late[m] \subseteq DOMAIN results[m]
    /\ DOMAIN results[m] \subseteq Nodes(m)

\* A task reported CANCELLED was not executed and will not be, unless it was late.
\* That exception is real: a late task is reported CANCELLED after a failure,
\* though its payload may be queued or executing.
CancelledIsNotExecuted ==
  \A m \in Masters : \A t \in DOMAIN results[m] \ late[m] :
    results[m][t] = "cancelled" =>
      /\ \A o \in outcomes : ~ (o.task = t /\ o.dispatch = dispatch[m])
      /\ \A msg \in InFlight(m) : msg.task # t

\* submit_graph comes to an end, whatever is lost: a message, the connection, the
\* broker, the workers.
SubmitReturns ==
  \A m \in Masters : mpc[m] \notin Outside ~> mpc[m] \in Outside

\* A worker that stop() has reached leaves its loop, also when its connection is
\* lost at that moment.
StopEndsWorker == \A w \in Workers : ~ running[w] ~> wpc[w] = "down"
=============================================================================
