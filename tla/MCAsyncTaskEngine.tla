-------------------------- MODULE MCAsyncTaskEngine --------------------------
EXTENDS AsyncTaskEngine, TLC

CONSTANTS a, b, c, d, e

MCTasks == {a, b, c, d, e}

\* a and b, then c that needs both, then d that needs c.
Diamond ==
  [deps    |-> (a :> {} @@ b :> {} @@ c :> {a, b} @@ d :> {c}),
   level   |-> (a :> 0 @@ b :> 0 @@ c :> 1 @@ d :> 2),
   acyclic |-> TRUE]

\* b, then c; a task the first graph may have executed.
Pair ==
  [deps    |-> (b :> {} @@ c :> {b}),
   level   |-> (b :> 0 @@ c :> 1),
   acyclic |-> TRUE]

Cyclic ==
  [deps    |-> (a :> {b} @@ b :> {a}),
   level   |-> (a :> 0 @@ b :> 0),
   acyclic |-> FALSE]

\* e, which cannot be instantiated, next to b; then c that needs both.
Broken ==
  [deps    |-> (e :> {} @@ b :> {} @@ c :> {b, e}),
   level   |-> (e :> 0 @@ b :> 0 @@ c :> 1),
   acyclic |-> TRUE]

MCGraphs == {Diamond, Pair, Broken, Cyclic}

\* Positions {0,1}, {1,2}, {2,3}, {4,5}; d's, {0,2}, are covered by a's and b's.
MCHashOne == (a :> 0 @@ b :> 1 @@ c :> 2 @@ d :> 0 @@ e :> 4)
MCHashTwo == (a :> 1 @@ b :> 1 @@ c :> 1 @@ d :> 2 @@ e :> 1)

MCMaxRetries == (a :> 2 @@ b :> 0 @@ c :> 1 @@ d :> 0 @@ e :> 0)

MCFaulty == {e}
=============================================================================
