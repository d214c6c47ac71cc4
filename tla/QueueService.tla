---------------------------- MODULE QueueService ----------------------------
(***************************************************************************)
(* What one queue of the broker promises, without connections, requests    *)
(* and responses (infrastructure/message_queue.py: "Multiple named FIFO    *)
(* queues", "Blocking dequeue with configurable timeout").  Module Queues  *)
(* makes the same assumptions for the master and the workers.              *)
(*                                                                         *)
(* A message is handed to one client, in order.  It is lost only with the  *)
(* client it was handed to, or to one that went away while it waited.      *)
(***************************************************************************)
EXTENDS Sequences, FiniteSets

CONSTANTS Clients, Messages

VARIABLES
  content,  \* the messages that wait, oldest first
  carried,  \* client -> the messages on their way to it
  ghosts    \* the clients that went away while they waited

vars == <<content, carried, ghosts>>

Init ==
  /\ content = << >>
  /\ carried = [c \in Clients |-> << >>]
  /\ ghosts = {}

Put(m) ==
  /\ content' = Append(content, m)
  /\ UNCHANGED <<carried, ghosts>>

Hand(c) ==
  /\ content # << >>
  /\ content' = Tail(content)
  /\ carried' = [carried EXCEPT ![c] = Append(@, Head(content))]
  /\ UNCHANGED ghosts

Arrive(c) ==
  /\ carried[c] # << >>
  /\ carried' = [carried EXCEPT ![c] = Tail(@)]
  /\ UNCHANGED <<content, ghosts>>

Leave(c) ==
  /\ carried' = [carried EXCEPT ![c] = << >>]
  /\ ghosts' \in {ghosts, ghosts \cup {c}}
  /\ UNCHANGED content

\* The next message goes to a client that is no longer there, which may have
\* left several requests behind ...
Lose(c) ==
  /\ c \in ghosts
  /\ content # << >>
  /\ content' = Tail(content)
  /\ ghosts' \in {ghosts, ghosts \ {c}}
  /\ UNCHANGED carried

\* ... unless its timeout comes first.
GhostEnds(c) ==
  /\ c \in ghosts
  /\ ghosts' = ghosts \ {c}
  /\ UNCHANGED <<content, carried>>

\* CLEAR, or the end of the broker.
Empty ==
  /\ content' = << >>
  /\ ghosts' \in SUBSET ghosts
  /\ UNCHANGED carried

Next ==
  \/ \E m \in Messages : Put(m)
  \/ \E c \in Clients : Hand(c) \/ Arrive(c) \/ Leave(c) \/ Lose(c) \/ GhostEnds(c)
  \/ Empty

Spec == Init /\ [][Next]_vars
=============================================================================
