-------------------------------- MODULE Broker --------------------------------
(***************************************************************************)
(* infrastructure/message_queue.py: TCPBrokerServer and, at the other end  *)
(* of each connection, TCPMessageQueue.                                    *)
(*                                                                         *)
(* A client writes a request and reads one line in answer, under a lock.   *)
(* The server has a coroutine for each connection, which reads a request,  *)
(* does it and writes the answer; only a DEQUEUE waits in between.         *)
(* Requests and answers are not numbered: what ties them together is that  *)
(* each end does one at a time.                                            *)
(*                                                                         *)
(* A client that connects anew is another connection.  A payload stands    *)
(* for one message: it is enqueued once.                                   *)
(***************************************************************************)
EXTENDS Integers, SequencesExt

CONSTANTS
  Conns,      \* the connections
  QueueNames,
  Payloads,
  Values,     \* of the one key clients use
  QueueOf,    \* payload -> the queue it is meant for
  Oversized,  \* payloads whose request is longer than the limit of readline
  Offered,    \* connection -> the requests its client may make
  NoCall,
  MayCancel,  \* a task may be cancelled while it awaits an answer
  MayHalt,    \* the broker may be stopped, and its process may end
  MaxCalls    \* bounds the requests

Enqueue(p)    == [cmd |-> "ENQUEUE", queue |-> QueueOf[p], payload |-> <<p>>]
Dequeue(q)    == [cmd |-> "DEQUEUE", queue |-> q, payload |-> << >>]
Clear(q)      == [cmd |-> "CLEAR", queue |-> q, payload |-> << >>]

SetKey(v)     == [cmd |-> "SET", queue |-> "", payload |-> <<v>>]
GetKey        == [cmd |-> "GET", queue |-> "", payload |-> << >>]

\* SIZE, PING: no effect.
Query   == [cmd |-> "QUERY", queue |-> "", payload |-> << >>]
CloseIt == [cmd |-> "CLOSE", queue |-> "", payload |-> << >>]

Requests ==
  {Enqueue(p) : p \in Payloads}
  \cup {Dequeue(q) : q \in QueueNames} \cup {Clear(q) : q \in QueueNames}
  \cup {SetKey(v) : v \in Values} \cup {GetKey, Query, CloseIt}

\* An answer, with the message or the value it carries, if any.  The request it belongs to is
\* not in the answer: `to` is history.
Answers == [to : Requests, msg : {<< >>} \cup {<<p>> : p \in Payloads \cup Values}]

ASSUME BrokerAssumption ==
  /\ Payloads \cap Values = {}
  /\ Oversized \subseteq Payloads
  /\ QueueOf \in [Payloads -> QueueNames]
  /\ Offered \in [Conns -> SUBSET Requests]
  /\ NoCall \notin Requests
  /\ MayCancel \in BOOLEAN /\ MayHalt \in BOOLEAN
  /\ MaxCalls \in Nat

VARIABLES
  server,    \* whether _server accepts connections, and its process is there
  queues,    \* _queues
  stored,    \* the value in _kv_store, if any
  link,      \* the client's end of a connection
  handler,   \* where _handle_client is
  requests,  \* the requests written and not answered, the one in work first
  responses, \* the answers written and not read
  call,      \* the request whose answer the holder of _lock awaits
  calls,     \* how many requests were made
  skewed,    \* history: the connections on which a call was cancelled
  accepted,  \* history: the payloads that entered a queue, in order
  received,  \* history: the payloads that dequeue returned, in order
  cleared,   \* history: payloads removed by CLEAR
  assigned,  \* history: the values that were stored, in order
  since      \* history: how many of them there were when a GET was sent

serverVars  == <<server, queues, stored, handler>>
clientVars  == <<link, call, calls, skewed, received, since>>
history     == <<accepted, cleared, assigned>>
vars == <<serverVars, clientVars, requests, responses, history>>

Init ==
  /\ server = "listening"
  /\ queues = [q \in QueueNames |-> << >>]
  /\ stored = << >>
  /\ link = [k \in Conns |-> "new"]
  /\ handler = [k \in Conns |-> "none"]
  /\ requests = [k \in Conns |-> << >>]
  /\ responses = [k \in Conns |-> << >>]
  /\ call = [k \in Conns |-> NoCall]
  /\ calls = 0
  /\ skewed = {}
  /\ accepted = << >>
  /\ received = [k \in Conns |-> << >>]
  /\ cleared = {}
  /\ assigned = << >>
  /\ since = [k \in Conns |-> 0]

Open(k) == link[k] = "open"

-----------------------------------------------------------------------------
(* TCPMessageQueue *)

\* connect(), and the server's accept.
Connect(k) ==
  /\ link[k] = "new" /\ server = "listening"
  /\ link' = [link EXCEPT ![k] = "open"]
  /\ handler' = [handler EXCEPT ![k] = "reading"]
  /\ UNCHANGED <<server, queues, stored, call, calls, skewed, received, since,
                 requests, responses, history>>

\* Nobody has sent p yet.
Unsent(p) == \A k \in Conns : \A i \in DOMAIN requests[k] : requests[k][i].payload # <<p>>

Fresh(r) ==
  r.cmd = "ENQUEUE" =>
    \A i \in DOMAIN r.payload :
      Unsent(r.payload[i]) /\ r.payload[i] \notin ToSet(accepted)

\* Mutant: the lock is not taken.
LockFreeAlways(k) == TRUE

LockFree(k) == call[k] = NoCall

\* _send: a request is written, under the lock.
Send(k, r) ==
  /\ Open(k) /\ LockFree(k)
  /\ calls < MaxCalls /\ Fresh(r)
  /\ call' = [call EXCEPT ![k] = r]
  /\ calls' = calls + 1
  /\ requests' = [requests EXCEPT ![k] = Append(@, r)]
  /\ since' = IF r = GetKey THEN [since EXCEPT ![k] = Len(assigned)] ELSE since
  /\ UNCHANGED <<serverVars, link, skewed, received, responses, history>>

\* The client's end is closed, and what was on its way to it lost.
Leave(k, how) ==
  /\ link' = [link EXCEPT ![k] = how]
  /\ responses' = [responses EXCEPT ![k] = << >>]

\* What dequeue() returns; the answer to another call makes it raise KeyError.
Message(answer) == IF \E p \in Payloads : answer.msg = <<p>> THEN answer.msg ELSE << >>

\* The next answer is read.  A call that is not dequeue() has no use for a
\* message; disconnect() closes the connection after the answer to CLOSE.
Receive(k) ==
  /\ call[k] # NoCall /\ responses[k] # << >>
  /\ call' = [call EXCEPT ![k] = NoCall]
  /\ received' = IF call[k].cmd = "DEQUEUE"
                 THEN [received EXCEPT ![k] = @ \o Message(Head(responses[k]))] ELSE received
  /\ IF call[k].cmd = "CLOSE"
     THEN Leave(k, "closed")
     ELSE responses' = [responses EXCEPT ![k] = Tail(@)] /\ UNCHANGED link
  /\ UNCHANGED <<serverVars, calls, skewed, since, requests, history>>

\* End of file: ConnectionError, which disconnect() ignores.
CallFails(k) ==
  /\ call[k] # NoCall /\ responses[k] = << >> /\ handler[k] = "ended"
  /\ link' = IF call[k].cmd = "CLOSE" THEN [link EXCEPT ![k] = "closed"] ELSE link
  /\ call' = [call EXCEPT ![k] = NoCall]
  /\ UNCHANGED <<serverVars, calls, skewed, received, since, requests,
                 responses, history>>

\* The task in _send is cancelled at readline: the lock is released, the answer
\* will come.
CancelCall(k) ==
  /\ MayCancel /\ call[k] # NoCall
  /\ call' = [call EXCEPT ![k] = NoCall]
  /\ skewed' = skewed \cup {k}
  /\ UNCHANGED <<serverVars, link, calls, received, since, requests, responses, history>>

\* The client's process ends, or drops the connection.
Drop(k) ==
  /\ Open(k)
  /\ Leave(k, "dropped")
  /\ call' = [call EXCEPT ![k] = NoCall]
  /\ UNCHANGED <<serverVars, calls, skewed, received, since, requests, history>>

-----------------------------------------------------------------------------
(* TCPBrokerServer: _handle_client and what _dispatch calls *)

Reads(k, cmd) ==
  handler[k] = "reading" /\ requests[k] # << >> /\ Head(requests[k]).cmd = cmd

Asked(k) == Head(requests[k])

TooLong(r) == r.cmd = "ENQUEUE" /\ r.payload[1] \in Oversized

\* Mutant: no answer is written.
AnswerNot(k, msg) ==
  /\ requests' = [requests EXCEPT ![k] = Tail(@)]
  /\ UNCHANGED responses

\* The answer is written and the next request is read.
Answer(k, msg) ==
  /\ requests' = [requests EXCEPT ![k] = Tail(@)]
  /\ responses' = [responses EXCEPT ![k] =
       IF Open(k) THEN Append(@, [to |-> Asked(k), msg |-> msg]) ELSE @]

\* readline raises ValueError, which _handle_client does not catch: it closes
\* the connection.
HandleTooLong(k) ==
  /\ Reads(k, "ENQUEUE") /\ TooLong(Asked(k))
  /\ handler' = [handler EXCEPT ![k] = "ended"]
  /\ UNCHANGED <<server, queues, stored, clientVars, requests, responses, history>>

\* Mutants: the queue's name is stored; the newest comes first.
StoredName(s, r) == Append(s, r.queue)
StoredFirst(s, r) == r.payload \o s

Stored(s, r) == s \o r.payload

HandleEnqueue(k) ==
  /\ Reads(k, "ENQUEUE") /\ ~ TooLong(Asked(k))
  /\ queues' = [queues EXCEPT ![Asked(k).queue] = Stored(@, Asked(k))]
  /\ accepted' = accepted \o Asked(k).payload
  /\ Answer(k, << >>)
  /\ UNCHANGED <<server, stored, handler, clientVars, cleared, assigned>>

\* The coroutine waits in q.get() until there is a message, or the timeout.
HandleDequeue(k) ==
  /\ Reads(k, "DEQUEUE")
  /\ handler' = [handler EXCEPT ![k] = "getting"]
  /\ UNCHANGED <<server, queues, stored, clientVars, requests, responses, history>>

\* Which of several waiting coroutines gets a message is left open.
Deliver(k) ==
  LET q == Asked(k).queue IN
  /\ handler[k] = "getting" /\ queues[q] # << >>
  /\ queues' = [queues EXCEPT ![q] = Tail(@)]
  /\ handler' = [handler EXCEPT ![k] = "reading"]
  /\ Answer(k, <<Head(queues[q])>>)
  /\ UNCHANGED <<server, stored, clientVars, history>>

\* Mutant: the cancelled get() has taken a message.
GetTimeoutTakes(k) ==
  LET q == Asked(k).queue IN
  /\ handler[k] = "getting"
  /\ handler' = [handler EXCEPT ![k] = "reading"]
  /\ Answer(k, << >>)
  /\ queues' = [queues EXCEPT ![q] = IF @ = << >> THEN @ ELSE Tail(@)]
  /\ UNCHANGED <<server, stored, clientVars, history>>

\* wait_for cancels get(); a timeout of 0 does so before it looks at the queue.
GetTimeout(k) ==
  /\ handler[k] = "getting"
  /\ handler' = [handler EXCEPT ![k] = "reading"]
  /\ Answer(k, << >>)
  /\ UNCHANGED <<server, queues, stored, clientVars, history>>

HandleClear(k) ==
  LET q == Asked(k).queue IN
  /\ Reads(k, "CLEAR")
  /\ queues' = [queues EXCEPT ![q] = << >>]
  /\ cleared' = cleared \cup ToSet(queues[q])
  /\ Answer(k, << >>)
  /\ UNCHANGED <<server, stored, handler, clientVars, accepted, assigned>>

\* What a SET leaves.
NewValue(r) == r.payload

HandleSet(k) ==
  /\ Reads(k, "SET")
  /\ stored' = NewValue(Asked(k))
  /\ assigned' = assigned \o Asked(k).payload
  /\ Answer(k, << >>)
  /\ UNCHANGED <<server, queues, handler, clientVars, accepted, cleared>>

HandleGet(k) ==
  /\ Reads(k, "GET")
  /\ Answer(k, stored)
  /\ UNCHANGED <<serverVars, clientVars, history>>

HandleOther(k) ==
  /\ Reads(k, "QUERY") \/ Reads(k, "CLOSE")
  /\ Answer(k, << >>)
  /\ UNCHANGED <<serverVars, clientVars, history>>

\* End of file or ConnectionResetError: what was not read yet may be lost.
HandlerEnds(k) ==
  /\ handler[k] = "reading" /\ link[k] \in {"closed", "dropped"}
  /\ handler' = [handler EXCEPT ![k] = "ended"]
  /\ UNCHANGED <<server, queues, stored, clientVars, requests, responses, history>>

\* stop(): no more connections.  Those that are open stay until the process ends.
Stop ==
  /\ MayHalt /\ server = "listening"
  /\ server' = "closed"
  /\ UNCHANGED <<queues, stored, handler, clientVars, requests, responses, history>>

\* The broker's process ends; nothing is persistent.
Halt ==
  /\ MayHalt /\ server # "gone"
  /\ server' = "gone"
  /\ handler' = [k \in Conns |-> IF handler[k] = "none" THEN "none" ELSE "ended"]
  /\ queues' = [q \in QueueNames |-> << >>]
  /\ stored' = << >>
  /\ UNCHANGED <<clientVars, requests, responses, history>>

-----------------------------------------------------------------------------

ClientStep(k) == Receive(k) \/ CallFails(k)

ServerStep(k) ==
  \/ HandleTooLong(k) \/ HandleEnqueue(k) \/ HandleDequeue(k) \/ HandleClear(k)
  \/ HandleSet(k) \/ HandleGet(k) \/ HandleOther(k) \/ Deliver(k) \/ GetTimeout(k) \/ HandlerEnds(k)

Next ==
  \/ \E k \in Conns :
       \/ Connect(k) \/ \E r \in Offered[k] : Send(k, r)
       \/ CancelCall(k) \/ Drop(k)
       \/ ClientStep(k) \/ ServerStep(k)
  \/ Stop \/ Halt

Spec == Init /\ [][Next]_vars

\* The event loops at both ends go on, and a get() ends by its timeout.  Nobody
\* has to connect or to ask for anything.
FairSpec ==
  /\ Spec
  /\ \A k \in Conns : WF_vars(ClientStep(k)) /\ WF_vars(ServerStep(k))

-----------------------------------------------------------------------------
(* Properties *)

TypeOK ==
  /\ server \in {"listening", "closed", "gone"}
  /\ queues \in [QueueNames -> Seq(Payloads)]
  /\ stored \in {<< >>} \cup {<<v>> : v \in Values}
  /\ link \in [Conns -> {"new", "open", "closed", "dropped"}]
  /\ handler \in [Conns -> {"none", "reading", "getting", "ended"}]
  /\ requests \in [Conns -> Seq(Requests)]
  /\ responses \in [Conns -> Seq(Answers)]
  /\ call \in [Conns -> Requests \cup {NoCall}]
  /\ calls \in Nat
  /\ skewed \in SUBSET Conns
  /\ accepted \in Seq(Payloads)
  /\ received \in [Conns -> Seq(Payloads)]
  /\ cleared \in SUBSET Payloads
  /\ assigned \in Seq(Values) /\ since \in [Conns -> Nat]

\* The positions of p in s.
At(s, p) == {i \in DOMAIN s : s[i] = p}

\* The answers to k that carry p.
AnswersWith(k, p) == {i \in DOMAIN responses[k] : responses[k][i].msg = <<p>>}

\* Where p is: in a queue, in an answer on its way, in the hands of the client
\* that dequeued it, or removed by CLEAR.
Places(p) ==
  (UNION {{"queue"} \X {q} \X At(queues[q], p) : q \in QueueNames})
  \cup (UNION {{"answer"} \X {k} \X AnswersWith(k, p) : k \in Conns})
  \cup (UNION {{"received"} \X {k} \X At(received[k], p) : k \in Conns})
  \cup {w \in {"cleared"} : p \in cleared}

Faultless ==
  server # "gone" /\ skewed = {} /\ \A k \in Conns : link[k] # "dropped"

\* However many clients compete and whatever times out, a message that entered a
\* queue is never in two places; and it is in one, until a client drops its
\* connection or cancels a call, or the broker's process ends.
ExactlyOnce ==
  \A p \in Payloads :
    /\ Cardinality(Places(p)) <= IF p \in ToSet(accepted) THEN 1 ELSE 0
    /\ p \in ToSet(accepted) /\ Faultless => Places(p) # {}

\* The only request that can be under way is the one whose caller waits, and the
\* only answer is the answer to it, unless a call was cancelled on the connection.
AnswersOwnRequest ==
  \A k \in Conns \ skewed : Open(k) =>
    /\ handler[k] # "ended" => Len(requests[k]) + Len(responses[k]) <= 1
    /\ \A i \in DOMAIN responses[k] : responses[k][i].to = call[k]

\* (Proved only: module BrokerProofs.)
\* get_key returns the value of the last set_key that took effect before it was
\* called, or of one that took effect since.
ReadsAreCurrent ==
  \A k \in Conns \ skewed : \A i \in DOMAIN responses[k] :
    responses[k][i].to = GetKey =>
      \E j \in since[k] .. Len(assigned) :
        responses[k][i].msg = IF j = 0 THEN << >> ELSE <<assigned[j]>>

\* Every call comes to an end: with an answer, a timeout or an exception.
CallsReturn == \A k \in Conns : call[k] # NoCall ~> call[k] = NoCall
=============================================================================
