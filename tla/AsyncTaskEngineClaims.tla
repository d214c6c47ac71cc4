------------------------ MODULE AsyncTaskEngineClaims ------------------------
(* What the documentation and the tests say of the engine, and the code does *)
(* not do: each definition is refuted by a run.                              *)
EXTENDS MCAsyncTaskEngine

\* run() returns a "Dict mapping task identifiers to their final states"
\* (engine.py:134); test_cancellation asserts that each is SUCCESS, CANCELLED
\* or FAILED (test_engine.py:130).  After a cancellation only one level is
\* marked: the levels behind it are returned PENDING.
ReturnedStatesAreFinal ==
  rpc = "returned" => \A t \in Nodes : status[t] \in Final

\* The engine "provides ... error propagation" (engine.py:102): what needs a
\* failed task is not executed.  The check looks at direct dependencies only
\* and accepts SKIPPED ones, so the tasks two steps away run.
RECURSIVE Needs(_, _)
Needs(t, f) == f \in graph.deps[t] \/ \E u \in graph.deps[t] : Needs(u, f)

ErrorsPropagate ==
  \A t \in InPhase(Holding) : \A f \in Nodes : Needs(t, f) => status[f] # "failed"
=============================================================================
