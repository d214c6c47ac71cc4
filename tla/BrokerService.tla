----------------------------- MODULE BrokerService -----------------------------
(* The broker and its connections as one queue: what they do about the queue   *)
(* Name is what QueueService promises, whatever is lost, cancelled or delivered *)
(* late, and whatever the other requests are.                                  *)
EXTENDS Broker

CONSTANT Name  \* one of the queues

ASSUME NameAssumption == Name \in QueueNames

Messages == {p \in Payloads : QueueOf[p] = Name}

\* Where a sequence of answers carries messages of the queue.
Carriers(answers) == {i \in DOMAIN answers : \E p \in Messages : answers[i].msg = <<p>>}

\* f goes through I in ascending order.
Ascends(f, I) ==
  /\ \A i \in I : \E n \in DOMAIN f : f[n] = i
  /\ \A m, n \in DOMAIN f : m < n => f[m] < f[n]

InOrder(I) == CHOOSE f \in [1 .. Cardinality(I) -> I] : Ascends(f, I)

\* The messages that the answers carry, oldest first.
Carried(answers) ==
  LET f == InOrder(Carriers(answers)) IN [n \in DOMAIN f |-> answers[f[n]].msg[1]]

\* The clients that are gone while a DEQUEUE of theirs is there.
Ghosts ==
  {k \in Conns : /\ link[k] \in {"closed", "dropped"}
                 /\ handler[k] \in {"reading", "getting"}
                 /\ \E i \in DOMAIN requests[k] : requests[k][i] = Dequeue(Name)}

Service == INSTANCE QueueService WITH
  Clients <- Conns,
  content <- queues[Name],
  carried <- [k \in Conns |-> Carried(responses[k])],
  ghosts <- Ghosts

\* A message is handed to one client, in order.  It is lost only with the client it
\* was handed to, or to one that went away while it waited.
ImplementsQueue == Service!Spec
=============================================================================
