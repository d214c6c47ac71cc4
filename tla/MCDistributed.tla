---------------------------- MODULE MCDistributed ----------------------------
EXTENDS Distributed, TLC

CONSTANTS m1, m2, w1, w2

V1 == "1.0.0"

a == [name |-> "a", version |-> V1]
b == [name |-> "b", version |-> V1]
c == [name |-> "c", version |-> V1]
newA == [name |-> "a", version |-> "2.0.0"]

MCTasks == {a, b, c, newA}

\* a and b, then c that needs a.
Fork ==
  [deps    |-> (a :> {} @@ b :> {} @@ c :> {a}),
   level   |-> (a :> 0 @@ b :> 0 @@ c :> 1),
   acyclic |-> TRUE]

\* a, then c that needs it.
Chain ==
  [deps    |-> (a :> {} @@ c :> {a}),
   level   |-> (a :> 0 @@ c :> 1),
   acyclic |-> TRUE]

\* Two versions of a.
Versions ==
  [deps    |-> (a :> {} @@ newA :> {}),
   level   |-> (a :> 0 @@ newA :> 0),
   acyclic |-> TRUE]

\* a alone.
Single == [deps |-> (a :> {}), level |-> (a :> 0), acyclic |-> TRUE]

\* b alone, whose result is too long.
Long == [deps |-> (b :> {}), level |-> (b :> 0), acyclic |-> TRUE]

Empty == [deps |-> << >>, level |-> << >>, acyclic |-> TRUE]

Cyclic ==
  [deps    |-> (a :> {c} @@ c :> {a}),
   level   |-> (a :> 0 @@ c :> 0),
   acyclic |-> FALSE]

Alone == [m \in Masters |-> {Fork, Empty, Cyclic}]

\* m2 shares a with m1, and the queues.
Shared ==
  [m \in Masters |-> IF m = m1 THEN {Chain, Versions, Long} ELSE {Single}]

\* Every master has both versions of a.
TwoVersions == [m \in Masters |-> {Versions}]

\* Which masters continue on failure.
Neither == [m \in Masters |-> FALSE]
OnlyM1 == [m \in Masters |-> m = m1]

\* The only position of newA, 0, is also one of a: {0, 1}.
MCHashOne == (a :> 0 @@ b :> 2 @@ c :> 4 @@ newA :> 0)
MCHashTwo == (a :> 1 @@ b :> 1 @@ c :> 1 @@ newA :> 0)

\* No two tasks share a position.
ApartHashOne == (a :> 0 @@ b :> 2 @@ c :> 4 @@ newA :> 6)
ApartHashTwo == (a :> 1 @@ b :> 1 @@ c :> 1 @@ newA :> 1)

MCKnown == {a, b, c}
AllKnown == MCTasks
MCValued == {a, c, newA}
NoRetries == [t \in MCTasks |-> 0]
MCUnbuildable == {c}
MCOversized == {b}
MCRetries == (a :> 1 @@ b :> 0 @@ c :> 0 @@ newA :> 0)
=============================================================================
