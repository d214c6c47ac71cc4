----------------------------- MODULE DagExecution -----------------------------
(***************************************************************************)
(* What the local engine promises to who calls run() (application/engine.py: *)
(* "Execute the entire task graph with concurrency control"), without      *)
(* levels, children, semaphore, retries, filter and cancellation.          *)
(*                                                                         *)
(* A task begins once all it depends on is done, once in a run, never      *)
(* after it has succeeded, and with fewer than MaxConcurrent others.  What  *)
(* became of a task does not change any more within the run.               *)
(***************************************************************************)
EXTENDS Integers, FiniteSets

CONSTANTS Tasks, Graphs, MaxConcurrent

VARIABLES
  graph,   \* the graph that is executed: [deps, level, acyclic]
  status,  \* task -> status, "absent" when it is not in the graph
  active,  \* the tasks that have begun and not ended
  done     \* the tasks that have succeeded, in this or an earlier run

vars == <<graph, status, active, done>>

Nodes == DOMAIN graph.deps

Init ==
  /\ graph = [deps |-> << >>, level |-> << >>, acyclic |-> TRUE]
  /\ status = [t \in Tasks |-> "absent"]
  /\ active = {}
  /\ done = {}

Run(g) ==
  /\ active = {}
  /\ graph' = g
  /\ status' = [t \in Tasks |-> IF t \in DOMAIN g.deps THEN "pending" ELSE "absent"]
  /\ UNCHANGED <<active, done>>

Begin(t) ==
  /\ t \in Nodes \ (active \cup done)
  /\ status[t] = "pending"
  /\ \A d \in graph.deps[t] : status[d] \in {"success", "skipped"}
  /\ Cardinality(active) < MaxConcurrent
  /\ status' = [status EXCEPT ![t] = "running"]
  /\ active' = active \cup {t}
  /\ UNCHANGED <<graph, done>>

Succeed(t) ==
  /\ t \in active
  /\ status' = [status EXCEPT ![t] = "success"]
  /\ active' = active \ {t}
  /\ done' = done \cup {t}
  /\ UNCHANGED graph

\* A task ends in another way; one that is interrupted keeps its status.
Fail(t) ==
  /\ t \in active
  /\ \E s \in {"failed", "cancelled", "running"} : status' = [status EXCEPT ![t] = s]
  /\ active' = active \ {t}
  /\ UNCHANGED <<graph, done>>

\* Some tasks are settled without being executed.
Settle ==
  /\ status' \in [Tasks -> {"absent", "pending", "running", "success", "failed",
                            "skipped", "cancelled"}]
  /\ \A t \in Tasks :
       status'[t] # status[t] =>
         status[t] = "pending" /\ status'[t] \in {"failed", "skipped", "cancelled"}
  /\ UNCHANGED <<graph, active, done>>

Next ==
  \/ \E g \in Graphs : Run(g)
  \/ \E t \in Tasks : Begin(t) \/ Succeed(t) \/ Fail(t)
  \/ Settle

Spec == Init /\ [][Next]_vars
=============================================================================
