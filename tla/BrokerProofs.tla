------------------------------ MODULE BrokerProofs ------------------------------
(* Safety of the broker and its clients, for every number of connections,      *)
(* whatever requests they make, and whatever is cancelled, dropped or ends.    *)
(*                                                                             *)
(* A connection on which no call was cancelled is in lockstep: the call that    *)
(* waits is the one request, or has the one answer.  So an answer is always read *)
(* by the call it belongs to, and the messages only move from the queues to     *)
(* the answers, and from there to the clients.                                 *)
EXTENDS Broker, FiniteSetTheorems, TLAPS

-----------------------------------------------------------------------------
(* The invariant *)

\* The two ends of a connection and what lies between them.
ConnShape ==
  \A k \in Conns :
    /\ link[k] = "new" => handler[k] = "none"
    /\ handler[k] = "none" => link[k] = "new" /\ requests[k] = << >>
    /\ server = "gone" => handler[k] \in {"none", "ended"}
    /\ handler[k] = "getting" => requests[k] # << >> /\ Asked(k).cmd = "DEQUEUE"
    /\ call[k] # NoCall => Open(k)
    /\ ~ Open(k) => responses[k] = << >>

\* As long as no call is cancelled, each end does one thing at a time.
Lockstep ==
  \A k \in Conns \ skewed :
    /\ Open(k) =>
         /\ \A i \in DOMAIN responses[k] : responses[k][i].to = call[k]
         /\ Len(responses[k]) <= 1
    /\ Open(k) /\ handler[k] # "ended" =>
         /\ \A i \in DOMAIN requests[k] : requests[k][i] = call[k]
         /\ Len(requests[k]) + Len(responses[k]) <= 1
    /\ link[k] = "closed" /\ handler[k] # "ended" => requests[k] = << >>

\* Only the answer to a DEQUEUE carries a message.
MessagesAnswerDequeues ==
  \A k \in Conns : \A i \in DOMAIN responses[k] :
    (\E p \in Payloads : responses[k][i].msg = <<p>>) => responses[k][i].to.cmd = "DEQUEUE"

\* The broker has the value stored last, and a GET was sent at some time before.
StoredIsLast ==
  /\ server # "gone" =>
       stored = IF assigned = << >> THEN << >> ELSE <<assigned[Len(assigned)]>>
  /\ \A k \in Conns : since[k] <= Len(assigned)

\* What a client may still enqueue is nowhere yet.
PendingAreNew ==
  \A k \in Conns : \A i \in DOMAIN requests[k] : \A p \in Payloads :
    requests[k][i] = Enqueue(p) =>
      /\ p \notin ToSet(accepted)
      /\ \A l \in Conns : \A j \in DOMAIN requests[l] :
           requests[l][j] = Enqueue(p) => l = k /\ j = i

\* What the sequences of f hold, and that they hold it once.
Members(f, S) == {p \in S : \E k \in DOMAIN f : \E i \in DOMAIN f[k] : f[k][i] = p}

Once(f) == \A k, l \in DOMAIN f : \A i \in DOMAIN f[k], j \in DOMAIN f[l] :
             f[k][i] = f[l][j] => k = l /\ i = j

Carries(k, i, p) == responses[k][i].msg = <<p>>

\* The messages in the queues, in answers, and in the hands of clients.
Queued     == Members(queues, Payloads)
Travelling == {p \in Payloads : \E k \in Conns : \E i \in DOMAIN responses[k] : Carries(k, i, p)}
Had        == Members(received, Payloads)

\* A message has one place in each of them at most, ...
OneAnswer ==
  \A k, l \in Conns : \A i \in DOMAIN responses[k], j \in DOMAIN responses[l] : \A p \in Payloads :
    Carries(k, i, p) /\ Carries(l, j, p) => k = l /\ i = j

Positions == Once(queues) /\ OneAnswer /\ Once(received)

\* ... is in one of them at most, ...
Apart ==
  /\ Queued \cap (Travelling \cup Had \cup cleared) = {}
  /\ Travelling \cap (Had \cup cleared) = {}
  /\ Had \cap cleared = {}

\* ... and is there because a queue accepted it.
Conserved ==
  /\ Queued \cup Travelling \cup Had \cup cleared \subseteq ToSet(accepted)
  /\ Faultless => ToSet(accepted) \subseteq Queued \cup Travelling \cup Had \cup cleared

Inductive ==
  /\ TypeOK /\ ConnShape /\ Lockstep /\ MessagesAnswerDequeues
  /\ StoredIsLast /\ ReadsAreCurrent /\ PendingAreNew
  /\ Positions /\ Apart /\ Conserved

-----------------------------------------------------------------------------
(* Requests *)

LEMMA RequestKinds ==
  ASSUME NEW r \in Requests
  PROVE  /\ r.cmd = "ENQUEUE" => \E p \in Payloads : r = Enqueue(p)
         /\ r.cmd = "DEQUEUE" => \E q \in QueueNames : r = Dequeue(q)
         /\ r.cmd = "CLEAR" => \E q \in QueueNames : r = Clear(q)
         /\ r.cmd = "SET" => \E v \in Values : r = SetKey(v)
         /\ r.cmd = "GET" => r = GetKey
<1>1. CASE r \in {Enqueue(p) : p \in Payloads}
  <2>1. r.cmd = "ENQUEUE"
    BY <1>1 DEF Enqueue
  <2> QED
    BY <1>1, <2>1
<1>2. CASE r \in {Dequeue(q) : q \in QueueNames}
  <2>1. r.cmd = "DEQUEUE"
    BY <1>2 DEF Dequeue
  <2> QED
    BY <1>2, <2>1
<1>3. CASE r \in {Clear(q) : q \in QueueNames}
  <2>1. r.cmd = "CLEAR"
    BY <1>3 DEF Clear
  <2> QED
    BY <1>3, <2>1
<1>4. CASE r \in {SetKey(v) : v \in Values}
  <2>1. PICK v \in Values : r = SetKey(v)
    BY <1>4
  <2>2. r.cmd = "SET"
    BY <2>1 DEF SetKey
  <2> QED
    BY <2>1, <2>2
<1>5. CASE r = GetKey
  <2>1. r.cmd = "GET"
    BY <1>5 DEF GetKey
  <2> QED
    BY <1>5, <2>1
<1>6. CASE r = Query
  <2>1. r.cmd = "QUERY"
    BY <1>6 DEF Query
  <2> QED
    BY <2>1
<1>7. CASE r = CloseIt
  <2>1. r.cmd = "CLOSE"
    BY <1>7 DEF CloseIt
  <2> QED
    BY <2>1
<1> QED
  BY <1>1, <1>2, <1>3, <1>4, <1>5, <1>6, <1>7 DEF Requests

LEMMA RequestFields ==
  /\ \A p \in Payloads : /\ Enqueue(p) \in Requests /\ Enqueue(p).cmd = "ENQUEUE"
                         /\ Enqueue(p).queue = QueueOf[p] /\ Enqueue(p).queue \in QueueNames
                         /\ Enqueue(p).payload = <<p>>
  /\ \A q \in QueueNames : Dequeue(q).cmd = "DEQUEUE" /\ Dequeue(q).queue = q
  /\ \A q \in QueueNames : Clear(q).cmd = "CLEAR" /\ Clear(q).queue = q
  /\ \A v \in Values : SetKey(v).cmd = "SET" /\ SetKey(v).payload = <<v>>
  /\ GetKey.cmd = "GET"
<1>1. \A p \in Payloads : Enqueue(p) \in Requests /\ QueueOf[p] \in QueueNames
  BY BrokerAssumption DEF Requests
<1>2. \A p \in Payloads : /\ Enqueue(p).cmd = "ENQUEUE" /\ Enqueue(p).queue = QueueOf[p]
                         /\ Enqueue(p).payload = <<p>>
  BY DEF Enqueue
<1> QED
  BY <1>1, <1>2 DEF Dequeue, Clear, SetKey, GetKey

LEMMA AskedTyped ==
  ASSUME TypeOK, NEW k \in Conns, requests[k] # << >>
  PROVE  /\ Asked(k) \in Requests /\ Asked(k) = requests[k][1]
         /\ Tail(requests[k]) \in Seq(Requests)
         /\ DOMAIN Tail(requests[k]) = 1 .. Len(requests[k]) - 1
         /\ Len(Tail(requests[k])) = Len(requests[k]) - 1 /\ Len(requests[k]) \in Nat
         /\ \A i \in DOMAIN Tail(requests[k]) :
              i + 1 \in DOMAIN requests[k] /\ Tail(requests[k])[i] = requests[k][i + 1]
BY DEF Asked, TypeOK

\* A message at the end of a sequence.
LEMMA Extended ==
  ASSUME NEW S, NEW s \in Seq(S), NEW x \in S
  PROVE  /\ s \o <<x>> = Append(s, x) /\ Append(s, x) \in Seq(S)
         /\ Len(Append(s, x)) = Len(s) + 1
         /\ \A i \in DOMAIN s : i \in DOMAIN Append(s, x) /\ Append(s, x)[i] = s[i]
         /\ Len(s) + 1 \in DOMAIN Append(s, x) /\ Append(s, x)[Len(s) + 1] = x
         /\ \A i \in DOMAIN Append(s, x) : i \in DOMAIN s \/ i = Len(s) + 1
<1>1. <<x>> \in Seq(S) /\ Len(<<x>>) = 1 /\ <<x>>[1] = x
  OBVIOUS
<1>2. s \o <<x>> = Append(s, x)
  BY <1>1
<1> QED
  BY <1>2

LEMMA Emptiness ==
  ASSUME NEW S, NEW s \in Seq(S)
  PROVE  /\ Len(s) \in Nat /\ DOMAIN s = 1 .. Len(s)
         /\ Len(s) = 0 => s = << >>
         /\ DOMAIN s = {} => Len(s) = 0
         /\ s # << >> => 1 \in DOMAIN s
<1>1. Len(s) \in Nat /\ DOMAIN s = 1 .. Len(s)
  OBVIOUS
<1>2. Len(s) = 0 => s = << >>
  OBVIOUS
<1>3. DOMAIN s = {} => Len(s) = 0
  <2>1. Len(s) > 0 => 1 \in 1 .. Len(s)
    BY <1>1
  <2> QED
    BY <1>1, <2>1
<1> QED
  BY <1>1, <1>2, <1>3

\* What the server does with the request of k: it writes the answer.
Answering(k, msg) ==
  /\ handler[k] \in {"reading", "getting"} /\ requests[k] # << >>
  /\ Answer(k, msg)
  /\ handler' = [handler EXCEPT ![k] = "reading"]
  /\ UNCHANGED <<server, clientVars>>

\* The steps of the server, by what they do to the answers.
LEMMA Handled ==
  ASSUME TypeOK, ConnShape, NEW k \in Conns
  PROVE  /\ HandleEnqueue(k) => Answering(k, << >>) /\ Asked(k).cmd = "ENQUEUE"
         /\ Deliver(k) => /\ Answering(k, <<Head(queues[Asked(k).queue])>>)
                          /\ Asked(k).cmd = "DEQUEUE"
         /\ GetTimeout(k) => Answering(k, << >>) /\ Asked(k).cmd = "DEQUEUE"
         /\ HandleClear(k) => Answering(k, << >>) /\ Asked(k).cmd = "CLEAR"
         /\ HandleSet(k) => Answering(k, << >>) /\ Asked(k).cmd = "SET"
         /\ HandleGet(k) => Answering(k, stored) /\ Asked(k).cmd = "GET"
         /\ HandleOther(k) => Answering(k, << >>) /\ Asked(k).cmd \in {"QUERY", "CLOSE"}
<1>1. \A cmd : Reads(k, cmd) => /\ handler[k] = "reading" /\ requests[k] # << >>
                                /\ Asked(k).cmd = cmd
                                /\ handler = [handler EXCEPT ![k] = "reading"]
  BY DEF Reads, Asked, TypeOK
<1> QED
  BY <1>1 DEF HandleEnqueue, Deliver, GetTimeout, HandleClear, HandleSet, HandleGet, HandleOther,
     Answering, ConnShape, serverVars

-----------------------------------------------------------------------------
(* Types *)

LEMMA InitInductive == Init => Inductive
<1> SUFFICES ASSUME Init PROVE Inductive
  OBVIOUS
<1> USE DEF Init
<1>1. TypeOK
  BY DEF TypeOK
<1>2. /\ \A q \in QueueNames : DOMAIN queues[q] = {}
      /\ \A k \in Conns : /\ DOMAIN requests[k] = {} /\ DOMAIN responses[k] = {}
                          /\ DOMAIN received[k] = {}
      /\ ToSet(accepted) = {} /\ cleared = {} /\ Len(assigned) = 0
  BY DEF ToSet
<1>3. ConnShape /\ Lockstep
  BY <1>2 DEF ConnShape, Lockstep, Open
<1>4. MessagesAnswerDequeues /\ StoredIsLast /\ ReadsAreCurrent /\ PendingAreNew
  BY <1>2 DEF MessagesAnswerDequeues, StoredIsLast, ReadsAreCurrent, PendingAreNew
<1>5. Queued = {} /\ Travelling = {} /\ Had = {}
  BY <1>1, <1>2 DEF Queued, Travelling, Had, Members
<1>6. Positions
  BY <1>1, <1>2 DEF Positions, Once, OneAnswer
<1>7. Apart /\ Conserved
  BY <1>2, <1>5 DEF Apart, Conserved
<1> QED
  BY <1>1, <1>3, <1>4, <1>6, <1>7 DEF Inductive

LEMMA AnsweringTyped ==
  ASSUME TypeOK, NEW k \in Conns, NEW msg \in {<< >>} \cup {<<p>> : p \in Payloads \cup Values},
         Answering(k, msg)
  PROVE  /\ requests' \in [Conns -> Seq(Requests)] /\ responses' \in [Conns -> Seq(Answers)]
         /\ handler' \in [Conns -> {"none", "reading", "getting", "ended"}]
         /\ UNCHANGED <<server, clientVars>>
<1>1. [to |-> Asked(k), msg |-> msg] \in Answers
  BY AskedTyped DEF Answering, Answers
<1>2. Append(responses[k], [to |-> Asked(k), msg |-> msg]) \in Seq(Answers)
  BY <1>1 DEF TypeOK
<1> QED
  BY <1>2, AskedTyped DEF Answering, Answer, TypeOK

LEMMA ServerTyped ==
  ASSUME TypeOK, ConnShape, NEW k \in Conns, ServerStep(k)
  PROVE  TypeOK'
<1> USE DEF clientVars, history
<1>1. CASE HandleTooLong(k) \/ HandleDequeue(k) \/ HandlerEnds(k)
  BY <1>1 DEF HandleTooLong, HandleDequeue, HandlerEnds, TypeOK
<1>2. CASE HandleEnqueue(k)
  <2>1. PICK p \in Payloads : Asked(k) = Enqueue(p)
    BY <1>2, Handled, AskedTyped, RequestKinds DEF Answering
  <2>2. Asked(k).payload = <<p>> /\ Asked(k).queue \in QueueNames
    BY <2>1, RequestFields
  <2>3. accepted' \in Seq(Payloads)
    BY <1>2, <2>2, Extended DEF HandleEnqueue, TypeOK
  <2>4. queues[Asked(k).queue] \o <<p>> \in Seq(Payloads)
    BY <2>2, Extended DEF TypeOK
  <2>5. queues' \in [QueueNames -> Seq(Payloads)]
    BY <1>2, <2>2, <2>4 DEF HandleEnqueue, Stored, TypeOK
  <2> QED
    BY <1>2, <2>3, <2>5, Handled, AnsweringTyped DEF HandleEnqueue, TypeOK
<1>3. CASE Deliver(k)
  <2>0. Asked(k) \in Requests /\ Asked(k).cmd = "DEQUEUE"
    BY <1>3, Handled, AskedTyped DEF Answering
  <2>1. PICK q \in QueueNames : Asked(k).queue = q
    BY <2>0, RequestKinds, RequestFields
  <2>2. queues[q] # << >> /\ Head(queues[q]) \in Payloads /\ Tail(queues[q]) \in Seq(Payloads)
    BY <1>3, <2>1 DEF Deliver, TypeOK
  <2>3. queues' \in [QueueNames -> Seq(Payloads)]
    BY <1>3, <2>1, <2>2 DEF Deliver, TypeOK
  <2>4. Answering(k, <<Head(queues[q])>>)
    BY <1>3, <2>1, Handled
  <2>5. <<Head(queues[q])>> \in {<< >>} \cup {<<p>> : p \in Payloads \cup Values}
    BY <2>2
  <2> QED
    BY <1>3, <2>3, <2>4, <2>5, AnsweringTyped DEF Deliver, TypeOK
<1>4. CASE GetTimeout(k) \/ HandleOther(k)
  BY <1>4, Handled, AnsweringTyped DEF GetTimeout, HandleOther, serverVars, TypeOK
<1>5. CASE HandleClear(k)
  <2>0. Asked(k) \in Requests /\ Asked(k).cmd = "CLEAR"
    BY <1>5, Handled, AskedTyped DEF Answering
  <2>1. PICK q \in QueueNames : Asked(k).queue = q
    BY <2>0, RequestKinds, RequestFields
  <2>2. cleared' \in SUBSET Payloads
    BY <1>5, <2>1 DEF HandleClear, ToSet, TypeOK
  <2>3. queues' \in [QueueNames -> Seq(Payloads)]
    BY <1>5, <2>1 DEF HandleClear, TypeOK
  <2> QED
    BY <1>5, <2>2, <2>3, Handled, AnsweringTyped DEF HandleClear, TypeOK
<1>6. CASE HandleSet(k)
  <2>1. PICK v \in Values : Asked(k) = SetKey(v)
    BY <1>6, Handled, AskedTyped, RequestKinds DEF Answering
  <2>2. stored' = <<v>> /\ assigned' = assigned \o <<v>>
    BY <1>6, <2>1, RequestFields DEF HandleSet, NewValue
  <2>3. assigned' \in Seq(Values)
    BY <2>2, Extended DEF TypeOK
  <2> QED
    BY <1>6, <2>2, <2>3, Handled, AnsweringTyped DEF HandleSet, TypeOK
<1>7. CASE HandleGet(k)
  <2>1. stored \in {<< >>} \cup {<<p>> : p \in Payloads \cup Values}
    BY DEF TypeOK
  <2> QED
    BY <1>7, <2>1, Handled, AnsweringTyped DEF HandleGet, serverVars, TypeOK
<1> QED
  BY <1>1, <1>2, <1>3, <1>4, <1>5, <1>6, <1>7 DEF ServerStep

LEMMA ReceivedTyped ==
  ASSUME TypeOK, NEW k \in Conns, responses[k] # << >>
  PROVE  /\ Head(responses[k]) \in Answers /\ Head(responses[k]) = responses[k][1]
         /\ Tail(responses[k]) \in Seq(Answers)
         /\ DOMAIN Tail(responses[k]) = 1 .. Len(responses[k]) - 1
         /\ Len(Tail(responses[k])) = Len(responses[k]) - 1 /\ Len(responses[k]) \in Nat
         /\ \A i \in DOMAIN Tail(responses[k]) :
              i + 1 \in DOMAIN responses[k] /\ Tail(responses[k])[i] = responses[k][i + 1]
         /\ \/ Message(Head(responses[k])) = << >>
               /\ \A p \in Payloads : Head(responses[k]).msg # <<p>>
            \/ \E p \in Payloads : Head(responses[k]).msg = <<p>> /\ Message(Head(responses[k])) = <<p>>
BY DEF Message, TypeOK

LEMMA ClientTyped ==
  ASSUME TypeOK, NEW k \in Conns,
         \/ Connect(k) \/ \E r \in Offered[k] : Send(k, r)
         \/ CancelCall(k) \/ Drop(k) \/ ClientStep(k)
  PROVE  TypeOK'
<1> USE DEF serverVars, history
<1>1. CASE Connect(k) \/ CancelCall(k)
  BY <1>1 DEF Connect, CancelCall, TypeOK
<1>4. CASE Drop(k)
  BY <1>4 DEF Drop, Leave, TypeOK
<1>5. CASE CallFails(k)
  BY <1>5 DEF CallFails, TypeOK
<1>2. ASSUME NEW r \in Offered[k], Send(k, r) PROVE TypeOK'
  <2>1. r \in Requests
    BY BrokerAssumption
  <2>2. since' \in [Conns -> Nat]
    BY <1>2 DEF Send, TypeOK
  <2> QED
    BY <1>2, <2>1, <2>2 DEF Send, TypeOK
<1>3. CASE Receive(k)
  <2>1. responses[k] # << >>
    BY <1>3 DEF Receive
  <2>2. received[k] \o Message(Head(responses[k])) \in Seq(Payloads)
    <3>1. Message(Head(responses[k])) \in Seq(Payloads)
      <4>1. << >> \in Seq(Payloads) /\ \A p \in Payloads : <<p>> \in Seq(Payloads)
        OBVIOUS
      <4>2. CASE Message(Head(responses[k])) = << >>
        BY <4>1, <4>2
      <4>3. CASE \E p \in Payloads : Message(Head(responses[k])) = <<p>>
        BY <4>1, <4>3
      <4> QED
        BY <2>1, <4>2, <4>3, ReceivedTyped
    <3> QED
      BY <3>1 DEF TypeOK
  <2>3. received' \in [Conns -> Seq(Payloads)]
    BY <1>3, <2>2 DEF Receive, TypeOK
  <2>4. /\ responses' \in [Conns -> Seq(Answers)]
        /\ link' \in [Conns -> {"new", "open", "closed", "dropped"}]
    <3>1. Tail(responses[k]) \in Seq(Answers)
      BY <2>1, ReceivedTyped
    <3>2. CASE call[k].cmd = "CLOSE"
      <4>1. Leave(k, "closed")
        BY <1>3, <3>2 DEF Receive
      <4>2. << >> \in Seq(Answers)
        OBVIOUS
      <4> QED
        BY <4>1, <4>2 DEF Leave, TypeOK
    <3>3. CASE call[k].cmd # "CLOSE"
      BY <1>3, <3>1, <3>3 DEF Receive, TypeOK
    <3> QED
      BY <3>2, <3>3
  <2> QED
    BY <1>3, <2>3, <2>4 DEF Receive, TypeOK
<1> QED
  BY <1>1, <1>2, <1>3, <1>4, <1>5 DEF ClientStep

LEMMA StepTyped == TypeOK /\ ConnShape /\ [Next]_vars => TypeOK'
<1> SUFFICES ASSUME TypeOK, ConnShape, [Next]_vars PROVE TypeOK'
  OBVIOUS
<1>1. CASE Stop
  BY <1>1 DEF Stop, clientVars, history, TypeOK
<1>3. CASE Halt
  BY <1>3 DEF Halt, clientVars, history, TypeOK
<1>2. CASE UNCHANGED vars
  BY <1>2 DEF vars, serverVars, clientVars, history, TypeOK
<1> QED
  BY <1>1, <1>2, <1>3, ServerTyped, ClientTyped DEF Next

-----------------------------------------------------------------------------
(* Connections *)

\* What an answer changes, connection by connection.
LEMMA AnsweringEffect ==
  ASSUME TypeOK, NEW k \in Conns, NEW msg, Answering(k, msg)
  PROVE  /\ \A l \in Conns \ {k} : /\ requests'[l] = requests[l] /\ responses'[l] = responses[l]
                                   /\ handler'[l] = handler[l]
         /\ handler'[k] = "reading" /\ handler[k] \in {"reading", "getting"}
         /\ requests[k] # << >> /\ requests'[k] = Tail(requests[k])
         /\ responses'[k] = IF Open(k) THEN Append(responses[k], [to |-> Asked(k), msg |-> msg])
                                       ELSE responses[k]
         /\ UNCHANGED <<server, clientVars>>
BY DEF Answering, Answer, TypeOK

LEMMA ServerKinds ==
  ASSUME TypeOK, ConnShape, NEW k \in Conns, ServerStep(k)
  PROVE  \/ \E msg : Answering(k, msg)
         \/ HandleTooLong(k) \/ HandleDequeue(k) \/ HandlerEnds(k)
BY Handled DEF ServerStep

LEMMA ConnShapeNext == TypeOK /\ ConnShape /\ [Next]_vars => ConnShape'
<1> SUFFICES ASSUME TypeOK, ConnShape, [Next]_vars, NEW l \in Conns
             PROVE  /\ link'[l] = "new" => handler'[l] = "none"
                    /\ handler'[l] = "none" => link'[l] = "new" /\ requests'[l] = << >>
                    /\ server' = "gone" => handler'[l] \in {"none", "ended"}
                    /\ handler'[l] = "getting" => requests'[l] # << >> /\ Asked(l)'.cmd = "DEQUEUE"
                    /\ call'[l] # NoCall => Open(l)'
                    /\ ~ Open(l)' => responses'[l] = << >>
  BY DEF ConnShape
<1> DEFINE Goal == /\ link'[l] = "new" => handler'[l] = "none"
                   /\ handler'[l] = "none" => link'[l] = "new" /\ requests'[l] = << >>
                   /\ server' = "gone" => handler'[l] \in {"none", "ended"}
                   /\ handler'[l] = "getting" => requests'[l] # << >> /\ Asked(l)'.cmd = "DEQUEUE"
                   /\ call'[l] # NoCall => Open(l)'
                   /\ ~ Open(l)' => responses'[l] = << >>
<1>0. /\ link[l] = "new" => handler[l] = "none"
      /\ handler[l] = "none" => link[l] = "new" /\ requests[l] = << >>
      /\ server = "gone" => handler[l] \in {"none", "ended"}
      /\ handler[l] = "getting" => requests[l] # << >> /\ Asked(l).cmd = "DEQUEUE"
      /\ call[l] # NoCall => Open(l)
      /\ ~ Open(l) => responses[l] = << >>
  BY DEF ConnShape
<1> USE DEF TypeOK, Open, Asked
<1>1. ASSUME NEW k \in Conns, Connect(k) PROVE Goal
  BY <1>0, <1>1 DEF Connect
<1>2. ASSUME NEW k \in Conns, NEW r \in Offered[k], Send(k, r) PROVE Goal
  <2>1. UNCHANGED <<link, handler, server, responses>>
    BY <1>2 DEF Send, serverVars
  <2>2. CASE l = k
    <3>1. requests'[l] = Append(requests[l], r) /\ link[l] = "open"
      BY <1>2, <2>2 DEF Send
    <3>2. requests[l] # << >> => Head(requests'[l]) = Head(requests[l]) /\ requests'[l] # << >>
      <4>1. r \in Requests
        BY BrokerAssumption
      <4>2. Append(requests[l], r) \in Seq(Requests)
        BY <4>1
      <4>3. requests[l] # << >> => 1 \in DOMAIN requests[l] /\ Append(requests[l], r)[1] = requests[l][1]
        BY <4>1, Extended, Emptiness DEF TypeOK
      <4>4. Append(requests[l], r) # << >>
        <5>1. Len(requests[l]) + 1 \in DOMAIN Append(requests[l], r)
          BY <4>1, Extended
        <5> QED
          BY <5>1
      <4> QED
        BY <3>1, <4>2, <4>3, <4>4
    <3> QED
      BY <1>0, <2>1, <3>1, <3>2
  <2>3. CASE l # k
    <3>1. requests'[l] = requests[l] /\ call'[l] = call[l]
      BY <1>2, <2>3 DEF Send
    <3> QED
      BY <1>0, <2>1, <3>1
  <2> QED
    BY <2>2, <2>3
<1>3. ASSUME NEW k \in Conns, CancelCall(k) PROVE Goal
  BY <1>0, <1>3 DEF CancelCall, serverVars
<1>4. ASSUME NEW k \in Conns, Drop(k) PROVE Goal
  BY <1>0, <1>4 DEF Drop, Leave, serverVars
<1>5. ASSUME NEW k \in Conns, Receive(k) PROVE Goal
  <2>1. UNCHANGED <<server, handler, requests>>
    BY <1>5 DEF Receive, serverVars
  <2>2. CASE l = k
    <3>1. link[l] = "open" /\ call'[l] = NoCall
      BY <1>0, <1>5, <2>2 DEF Receive
    <3>2. link'[l] = "open" \/ (link'[l] = "closed" /\ responses'[l] = << >>)
      BY <1>5, <2>2, <3>1 DEF Receive, Leave
    <3> QED
      BY <1>0, <2>1, <3>1, <3>2
  <2>3. CASE l # k
    <3>1. call'[l] = call[l] /\ link'[l] = link[l] /\ responses'[l] = responses[l]
      BY <1>5, <2>3 DEF Receive, Leave
    <3> QED
      BY <1>0, <2>1, <3>1
  <2> QED
    BY <2>2, <2>3
<1>6. ASSUME NEW k \in Conns, CallFails(k) PROVE Goal
  <2>1. UNCHANGED <<server, handler, requests, responses>>
    BY <1>6 DEF CallFails, serverVars
  <2>2. CASE l = k
    <3>1. /\ link[l] = "open" /\ call'[l] = NoCall /\ responses[l] = << >>
          /\ link'[l] \in {"open", "closed"} /\ handler[l] = "ended"
      BY <1>0, <1>6, <2>2 DEF CallFails
    <3> QED
      BY <1>0, <2>1, <3>1
  <2>3. CASE l # k
    <3>1. call'[l] = call[l] /\ link'[l] = link[l]
      BY <1>6, <2>3 DEF CallFails
    <3> QED
      BY <1>0, <2>1, <3>1
  <2> QED
    BY <2>2, <2>3
<1>7. ASSUME NEW k \in Conns, NEW msg, Answering(k, msg) PROVE Goal
  <2>1. UNCHANGED <<server, link, call>>
    BY <1>7 DEF Answering, clientVars
  <2>2. CASE l = k
    BY <1>0, <1>7, <2>1, <2>2, AnsweringEffect
  <2>3. CASE l # k
    BY <1>0, <1>7, <2>1, <2>3, AnsweringEffect
  <2> QED
    BY <2>2, <2>3
<1>8. ASSUME NEW k \in Conns, HandleTooLong(k) \/ HandlerEnds(k) PROVE Goal
  BY <1>0, <1>8 DEF HandleTooLong, HandlerEnds, clientVars, Reads
<1>9. ASSUME NEW k \in Conns, HandleDequeue(k) PROVE Goal
  BY <1>0, <1>9 DEF HandleDequeue, clientVars, Reads
<1>10. CASE Stop
  BY <1>0, <1>10 DEF Stop, clientVars
<1>11. CASE Halt
  BY <1>0, <1>11 DEF Halt, clientVars
<1>12. CASE UNCHANGED vars
  BY <1>0, <1>12 DEF vars, serverVars, clientVars
<1> QED
  BY <1>1, <1>2, <1>3, <1>4, <1>5, <1>6, <1>7, <1>8, <1>9, <1>10, <1>11, <1>12, ServerKinds
     DEF Next, ClientStep

LEMMA LockstepNext == TypeOK /\ ConnShape /\ Lockstep /\ [Next]_vars => Lockstep'
<1> SUFFICES ASSUME TypeOK, ConnShape, Lockstep, [Next]_vars, NEW l \in Conns, l \notin skewed'
             PROVE  /\ Open(l)' =>
                         /\ \A i \in DOMAIN responses'[l] : responses'[l][i].to = call'[l]
                         /\ Len(responses'[l]) <= 1
                    /\ Open(l)' /\ handler'[l] # "ended" =>
                         /\ \A i \in DOMAIN requests'[l] : requests'[l][i] = call'[l]
                         /\ Len(requests'[l]) + Len(responses'[l]) <= 1
                    /\ link'[l] = "closed" /\ handler'[l] # "ended" => requests'[l] = << >>
  BY DEF Lockstep
<1> DEFINE Goal == /\ Open(l)' =>
                        /\ \A i \in DOMAIN responses'[l] : responses'[l][i].to = call'[l]
                        /\ Len(responses'[l]) <= 1
                   /\ Open(l)' /\ handler'[l] # "ended" =>
                        /\ \A i \in DOMAIN requests'[l] : requests'[l][i] = call'[l]
                        /\ Len(requests'[l]) + Len(responses'[l]) <= 1
                   /\ link'[l] = "closed" /\ handler'[l] # "ended" => requests'[l] = << >>
<1>0. l \notin skewed =>
      /\ Open(l) => /\ \A i \in DOMAIN responses[l] : responses[l][i].to = call[l]
                    /\ Len(responses[l]) <= 1
      /\ Open(l) /\ handler[l] # "ended" =>
           /\ \A i \in DOMAIN requests[l] : requests[l][i] = call[l]
           /\ Len(requests[l]) + Len(responses[l]) <= 1
      /\ link[l] = "closed" /\ handler[l] # "ended" => requests[l] = << >>
  BY DEF Lockstep
<1>a. /\ Len(requests[l]) \in Nat /\ Len(responses[l]) \in Nat
      /\ DOMAIN requests[l] = 1 .. Len(requests[l]) /\ DOMAIN responses[l] = 1 .. Len(responses[l])
      /\ requests[l] \in Seq(Requests) /\ responses[l] \in Seq(Answers)
      /\ \A i \in DOMAIN requests[l] : requests[l][i] # NoCall
      /\ \A i \in DOMAIN responses[l] : responses[l][i].to # NoCall
  <2>1. requests[l] \in Seq(Requests) /\ responses[l] \in Seq(Answers)
    BY DEF TypeOK
  <2>2. \A i \in DOMAIN requests[l] : requests[l][i] \in Requests
    BY <2>1
  <2>3. \A i \in DOMAIN responses[l] : responses[l][i] \in Answers
    BY <2>1
  <2>4. \A a \in Answers : a.to \in Requests
    BY DEF Answers
  <2> QED
    BY <2>1, <2>2, <2>3, <2>4, BrokerAssumption
<1>b. ASSUME link'[l] = link[l], handler'[l] = handler[l], requests'[l] = requests[l],
             responses'[l] = responses[l], call'[l] = call[l], skewed' = skewed
      PROVE  Goal
  BY <1>0, <1>b DEF Open
<1> USE DEF TypeOK, Open
<1>1. ASSUME NEW k \in Conns, Connect(k) PROVE Goal
  <2>1. CASE l = k
    <3>1. requests'[l] = << >> /\ responses'[l] = << >> /\ link'[l] = "open"
      BY <1>1, <2>1 DEF Connect, ConnShape
    <3> QED
      BY <3>1
  <2>2. CASE l # k
    BY <1>1, <1>b, <2>2 DEF Connect
  <2> QED
    BY <2>1, <2>2
<1>2. ASSUME NEW k \in Conns, NEW r \in Offered[k], Send(k, r) PROVE Goal
  <2>1. r \in Requests
    BY BrokerAssumption
  <2>2. UNCHANGED <<link, handler, responses, skewed>>
    BY <1>2 DEF Send, serverVars
  <2>3. CASE l = k
    <3>1. requests'[l] = Append(requests[l], r) /\ call'[l] = r /\ call[l] = NoCall /\ link[l] = "open"
      BY <1>2, <2>3 DEF Send, LockFree
    <3>2. Len(responses[l]) = 0
      <4>1. DOMAIN responses[l] = {}
        BY <1>0, <1>a, <2>2, <3>1
      <4> QED
        BY <1>a, <4>1, Emptiness
    <3>3. handler[l] # "ended" => requests[l] = << >>
      <4>1. handler[l] # "ended" => DOMAIN requests[l] = {}
        BY <1>0, <1>a, <2>2, <3>1
      <4> QED
        BY <1>a, <4>1, Emptiness
    <3>4. requests[l] = << >> => requests'[l] = <<r>>
      BY <3>1
    <3> QED
      BY <1>a, <2>2, <3>1, <3>2, <3>3, <3>4
  <2>4. CASE l # k
    BY <1>2, <1>b, <2>2, <2>4 DEF Send
  <2> QED
    BY <2>3, <2>4
<1>3. ASSUME NEW k \in Conns, CancelCall(k) PROVE Goal
  <2>1. l # k /\ l \notin skewed
    BY <1>3 DEF CancelCall
  <2>2. /\ link'[l] = link[l] /\ handler'[l] = handler[l] /\ requests'[l] = requests[l]
        /\ responses'[l] = responses[l] /\ call'[l] = call[l]
    BY <1>3, <2>1 DEF CancelCall, serverVars
  <2> QED
    BY <1>0, <2>1, <2>2
<1>4. ASSUME NEW k \in Conns, Drop(k) PROVE Goal
  <2>1. CASE l = k
    <3>1. link'[l] = "dropped"
      BY <1>4, <2>1 DEF Drop, Leave
    <3> QED
      BY <3>1
  <2>2. CASE l # k
    BY <1>4, <1>b, <2>2 DEF Drop, Leave, serverVars
  <2> QED
    BY <2>1, <2>2
<1>5. ASSUME NEW k \in Conns, Receive(k) PROVE Goal
  <2>1. UNCHANGED <<handler, requests, skewed>>
    BY <1>5 DEF Receive, serverVars
  <2>2. CASE l = k
    <3>1. link[l] = "open" /\ call'[l] = NoCall /\ responses[l] # << >>
      BY <1>5, <2>2 DEF Receive, ConnShape
    <3>2. Len(responses[l]) = 1 /\ (handler[l] # "ended" => Len(requests[l]) = 0)
      BY <1>0, <1>a, <2>1, <3>1
    <3>3. responses'[l] = << >>
      <4>1. responses'[l] \in {<< >>, Tail(responses[l])}
        BY <1>5, <2>2 DEF Receive, Leave
      <4>2. Tail(responses[l]) = << >>
        <5>1. Tail(responses[l]) \in Seq(Answers) /\ Len(Tail(responses[l])) = 0
          BY <3>1, <3>2, ReceivedTyped
        <5> QED
          BY <5>1, Emptiness
      <4> QED
        BY <4>1, <4>2
    <3> QED
      BY <1>a, <2>1, <3>1, <3>2, <3>3
  <2>3. CASE l # k
    <3>1. call'[l] = call[l] /\ link'[l] = link[l] /\ responses'[l] = responses[l]
      BY <1>5, <2>3 DEF Receive, Leave
    <3> QED
      BY <1>b, <2>1, <3>1
  <2> QED
    BY <2>2, <2>3
<1>6. ASSUME NEW k \in Conns, CallFails(k) PROVE Goal
  <2>1. UNCHANGED <<handler, requests, responses, skewed>>
    BY <1>6 DEF CallFails, serverVars
  <2>2. CASE l = k
    BY <1>6, <2>1, <2>2 DEF CallFails
  <2>3. CASE l # k
    <3>1. call'[l] = call[l] /\ link'[l] = link[l]
      BY <1>6, <2>3 DEF CallFails
    <3> QED
      BY <1>b, <2>1, <3>1
  <2> QED
    BY <2>2, <2>3
<1>7. ASSUME NEW k \in Conns, NEW msg, Answering(k, msg) PROVE Goal
  <2>1. UNCHANGED <<link, call, skewed>>
    BY <1>7 DEF Answering, clientVars
  <2>2. CASE l = k
    <3> DEFINE a == [to |-> Asked(k), msg |-> msg]
    <3>1. /\ handler[l] # "ended" /\ requests[l] # << >> /\ requests'[l] = Tail(requests[l])
          /\ responses'[l] = IF Open(l) THEN Append(responses[l], a) ELSE responses[l]
      BY <1>7, <2>2, AnsweringEffect
    <3>2. link[l] # "closed"
      BY <1>0, <2>1, <3>1
    <3>3. a.to = requests[l][1]
      BY <2>2, <3>1, AskedTyped
    <3> HIDE DEF a
    <3>4. ASSUME Open(l) PROVE Goal
      <4>1. Len(requests[l]) = 1 /\ Len(responses[l]) = 0 /\ requests[l][1] = call[l]
        BY <1>0, <1>a, <2>1, <3>1, <3>4
      <4>2. requests'[l] = << >>
        <5>1. Tail(requests[l]) \in Seq(Requests) /\ Len(Tail(requests[l])) = 0
          BY <3>1, <4>1, AskedTyped
        <5> QED
          BY <3>1, <5>1, Emptiness
      <4>3. responses'[l] = <<a>>
        <5>1. responses[l] = << >>
          BY <1>a, <4>1
        <5> QED
          BY <3>1, <3>4, <5>1
      <4> QED
        BY <2>1, <3>2, <3>3, <4>1, <4>2, <4>3
    <3> QED
      BY <2>1, <3>2, <3>4
  <2>3. CASE l # k
    <3>1. requests'[l] = requests[l] /\ responses'[l] = responses[l] /\ handler'[l] = handler[l]
      BY <1>7, <2>3, AnsweringEffect
    <3> QED
      BY <1>b, <2>1, <3>1
  <2> QED
    BY <2>2, <2>3
<1>8. ASSUME NEW k \in Conns, HandleTooLong(k) \/ HandlerEnds(k) PROVE Goal
  BY <1>0, <1>b, <1>8 DEF HandleTooLong, HandlerEnds, clientVars
<1>9. ASSUME NEW k \in Conns, HandleDequeue(k) PROVE Goal
  BY <1>0, <1>9 DEF HandleDequeue, clientVars, Reads
<1>10. CASE Stop \/ UNCHANGED vars
  BY <1>b, <1>10 DEF Stop, vars, serverVars, clientVars
<1>11. CASE Halt
  BY <1>0, <1>11 DEF Halt, clientVars, ConnShape
<1> QED
  BY <1>1, <1>2, <1>3, <1>4, <1>5, <1>6, <1>7, <1>8, <1>9, <1>10, <1>11, ServerKinds
     DEF Next, ClientStep

-----------------------------------------------------------------------------
(* Answers *)

\* An answer that has just been written.
Written(l, a) ==
  /\ Open(l) /\ requests[l] # << >>
  /\ \/ a = [to |-> Asked(l), msg |-> << >>] /\ Asked(l).cmd # "GET"
     \/ /\ Deliver(l) /\ Asked(l).cmd = "DEQUEUE"
        /\ a = [to |-> Asked(l), msg |-> <<Head(queues[Asked(l).queue])>>]
     \/ HandleGet(l) /\ a = [to |-> Asked(l), msg |-> stored]

LEMMA AnswersNext ==
  ASSUME TypeOK, ConnShape, [Next]_vars, NEW l \in Conns, NEW i \in DOMAIN responses'[l]
  PROVE  \/ \E j \in DOMAIN responses[l] : responses'[l][i] = responses[l][j]
         \/ Written(l, responses'[l][i])
<1> DEFINE Goal == \/ \E j \in DOMAIN responses[l] : responses'[l][i] = responses[l][j]
                   \/ Written(l, responses'[l][i])
<1>1. ASSUME responses'[l] = responses[l] PROVE Goal
  BY <1>1
<1>2. ASSUME NEW k \in Conns, Receive(k) \/ Drop(k) PROVE Goal
  <2>1. CASE l # k
    BY <1>1, <1>2, <2>1 DEF Receive, Drop, Leave, TypeOK
  <2>2. CASE responses'[l] = << >>
    BY <2>2
  <2>3. CASE responses[l] # << >> /\ responses'[l] = Tail(responses[l])
    BY <2>3, ReceivedTyped
  <2>4. responses'[l] = << >> \/ (responses[l] # << >> /\ responses'[l] = Tail(responses[l])) \/ l # k
    BY <1>2 DEF Receive, Drop, Leave, TypeOK
  <2> QED
    BY <2>1, <2>2, <2>3, <2>4
<1>3. ASSUME NEW k \in Conns, NEW msg, Answering(k, msg),
             Written(k, [to |-> Asked(k), msg |-> msg]) \/ ~ Open(k)
      PROVE  Goal
  <2>1. CASE l # k \/ ~ Open(k)
    BY <1>1, <1>3, <2>1, AnsweringEffect
  <2>2. CASE l = k /\ Open(k)
    <3> DEFINE a == [to |-> Asked(l), msg |-> msg]
    <3>1. responses'[l] = Append(responses[l], a) /\ Written(l, a)
      BY <1>3, <2>2, AnsweringEffect
    <3> HIDE DEF a
    <3>2. responses[l] \in Seq(Answers \cup {a})
      BY DEF TypeOK
    <3>3. i \in DOMAIN responses[l] \/ i = Len(responses[l]) + 1
      BY <3>1, <3>2, Extended
    <3>4. CASE i \in DOMAIN responses[l]
      BY <3>1, <3>2, <3>4, Extended
    <3>5. CASE i = Len(responses[l]) + 1
      BY <3>1, <3>2, <3>5, Extended
    <3> QED
      BY <3>3, <3>4, <3>5
  <2> QED
    BY <2>1, <2>2
<1>4. ASSUME NEW k \in Conns, ServerStep(k) PROVE Goal
  <2>1. CASE HandleEnqueue(k) \/ GetTimeout(k) \/ HandleClear(k) \/ HandleSet(k) \/ HandleOther(k)
    <3>1. Answering(k, << >>) /\ Asked(k).cmd # "GET"
      BY <2>1, Handled
    <3>2. requests[k] # << >>
      BY <3>1 DEF Answering
    <3> QED
      BY <1>3, <3>1, <3>2 DEF Written
  <2>2. CASE Deliver(k)
    <3>1. Answering(k, <<Head(queues[Asked(k).queue])>>) /\ Asked(k).cmd = "DEQUEUE"
      BY <2>2, Handled
    <3>2. requests[k] # << >>
      BY <3>1 DEF Answering
    <3> QED
      BY <1>3, <2>2, <3>1, <3>2 DEF Written
  <2>3. CASE HandleGet(k)
    <3>1. Answering(k, stored)
      BY <2>3, Handled
    <3>2. requests[k] # << >>
      BY <3>1 DEF Answering
    <3> QED
      BY <1>3, <2>3, <3>1, <3>2 DEF Written
  <2>4. CASE HandleTooLong(k) \/ HandleDequeue(k) \/ HandlerEnds(k)
    BY <1>1, <2>4 DEF HandleTooLong, HandleDequeue, HandlerEnds
  <2> QED
    BY <1>4, <2>1, <2>2, <2>3, <2>4 DEF ServerStep
<1>5. ASSUME NEW k \in Conns, \/ Connect(k) \/ \E r \in Offered[k] : Send(k, r)
                              \/ CancelCall(k) \/ CallFails(k)
      PROVE  Goal
  BY <1>1, <1>5 DEF Connect, Send, CancelCall, CallFails
<1>6. CASE Stop \/ Halt \/ UNCHANGED vars
  BY <1>1, <1>6 DEF Stop, Halt, vars
<1> QED
  BY <1>2, <1>4, <1>5, <1>6 DEF Next, ClientStep

LEMMA MessagesAnswerDequeuesNext ==
  TypeOK /\ ConnShape /\ MessagesAnswerDequeues /\ [Next]_vars => MessagesAnswerDequeues'
<1> SUFFICES ASSUME TypeOK, ConnShape, MessagesAnswerDequeues, [Next]_vars,
                    NEW l \in Conns, NEW i \in DOMAIN responses'[l],
                    NEW p \in Payloads, responses'[l][i].msg = <<p>>
             PROVE  responses'[l][i].to.cmd = "DEQUEUE"
  BY DEF MessagesAnswerDequeues
<1>1. ASSUME NEW j \in DOMAIN responses[l], responses'[l][i] = responses[l][j]
      PROVE  responses'[l][i].to.cmd = "DEQUEUE"
  BY <1>1 DEF MessagesAnswerDequeues
<1>2. CASE Written(l, responses'[l][i])
  <2>1. stored # <<p>>
    <3>1. CASE stored = << >>
      BY <3>1
    <3>2. ASSUME NEW v \in Values, stored = <<v>> PROVE stored # <<p>>
      <4>1. v # p
        BY BrokerAssumption
      <4>2. <<v>>[1] = v /\ <<p>>[1] = p
        OBVIOUS
      <4> QED
        BY <3>2, <4>1, <4>2
    <3> QED
      BY <3>1, <3>2 DEF TypeOK
  <2>2. << >> # <<p>>
    OBVIOUS
  <2> QED
    BY <1>2, <2>1, <2>2 DEF Written
<1> QED
  BY <1>1, <1>2, AnswersNext

\* What happens to the stored value.
LEMMA StoredNext ==
  ASSUME TypeOK, ConnShape, [Next]_vars
  PROVE  \/ /\ assigned' = assigned
            /\ stored' = stored \/ server' = "gone"
            /\ server' # "gone" => server # "gone"
         \/ /\ server # "gone" /\ server' = server
            /\ \E v \in Values : stored' = <<v>> /\ assigned' = Append(assigned, v)
<1> DEFINE Kept == /\ assigned' = assigned
                   /\ stored' = stored \/ server' = "gone"
                   /\ server' # "gone" => server # "gone"
<1>1. ASSUME NEW k \in Conns, HandleSet(k)
      PROVE  /\ server # "gone" /\ server' = server
             /\ \E v \in Values : stored' = <<v>> /\ assigned' = Append(assigned, v)
  <2>1. Asked(k) \in Requests /\ Asked(k).cmd = "SET"
    BY <1>1, Handled, AskedTyped DEF Answering
  <2>2. PICK v \in Values : Asked(k) = SetKey(v)
    BY <2>1, RequestKinds
  <2>3. stored' = <<v>> /\ assigned' = assigned \o <<v>>
    BY <1>1, <2>2, RequestFields DEF HandleSet, NewValue
  <2>4. assigned' = Append(assigned, v)
    BY <2>3, Extended DEF TypeOK
  <2>5. server # "gone" /\ server' = server
    BY <1>1 DEF HandleSet, Reads, ConnShape
  <2> QED
    BY <2>3, <2>4, <2>5
<1>2. ASSUME NEW k \in Conns, ServerStep(k), ~ HandleSet(k) PROVE Kept
  BY <1>2 DEF ServerStep, HandleTooLong, HandleEnqueue, HandleDequeue, HandleClear, HandleGet,
     HandleOther, Deliver, GetTimeout, HandlerEnds, serverVars, history
<1>3. ASSUME NEW k \in Conns, \/ Connect(k) \/ \E r \in Offered[k] : Send(k, r)
                              \/ CancelCall(k) \/ Drop(k) \/ ClientStep(k)
      PROVE  Kept
  BY <1>3 DEF Connect, Send, CancelCall, Drop, ClientStep, Receive, CallFails, serverVars, history
<1>4. CASE Stop \/ Halt
  BY <1>4 DEF Stop, Halt, history
<1>5. CASE UNCHANGED vars
  BY <1>5 DEF vars, serverVars, history
<1> QED
  BY <1>1, <1>2, <1>3, <1>4, <1>5 DEF Next

\* When a GET is sent, nothing is left that an answer could be taken for.
LEMMA SinceNext ==
  ASSUME TypeOK, ConnShape, Lockstep, [Next]_vars, NEW l \in Conns
  PROVE  \/ since'[l] = since[l]
         \/ /\ since'[l] = Len(assigned) /\ UNCHANGED <<responses, assigned>>
            /\ l \notin skewed => DOMAIN responses[l] = {}
<1>1. ASSUME NEW r \in Offered[l], Send(l, r), since'[l] # since[l]
      PROVE  /\ since'[l] = Len(assigned) /\ UNCHANGED <<responses, assigned>>
             /\ l \notin skewed => DOMAIN responses[l] = {}
  <2>1. /\ since'[l] = Len(assigned) /\ UNCHANGED <<responses, assigned>>
        /\ call[l] = NoCall /\ Open(l)
    BY <1>1 DEF Send, LockFree, history, TypeOK
  <2>2. \A i \in DOMAIN responses[l] : responses[l][i].to \in Requests
    <3>1. \A i \in DOMAIN responses[l] : responses[l][i] \in Answers
      BY DEF TypeOK
    <3> QED
      BY <3>1 DEF Answers
  <2> QED
    BY <2>1, <2>2, BrokerAssumption DEF Lockstep
<1>2. ASSUME NEW k \in Conns \ {l}, NEW r \in Offered[k], Send(k, r) PROVE since'[l] = since[l]
  BY <1>2 DEF Send, TypeOK
<1>3. ASSUME NEW k \in Conns, Connect(k) \/ CancelCall(k) \/ Drop(k) \/ ClientStep(k)
      PROVE  since' = since
  BY <1>3 DEF Connect, CancelCall, Drop, ClientStep, Receive, CallFails
<1>4. ASSUME NEW k \in Conns, ServerStep(k) PROVE since' = since
  BY <1>4 DEF ServerStep, HandleTooLong, HandleEnqueue, HandleDequeue, HandleClear, HandleSet,
     HandleGet, HandleOther, Deliver, GetTimeout, HandlerEnds, clientVars
<1>5. CASE Stop \/ Halt \/ UNCHANGED vars
  BY <1>5 DEF Stop, Halt, vars, clientVars
<1> QED
  BY <1>1, <1>2, <1>3, <1>4, <1>5 DEF Next

LEMMA StoredIsLastNext ==
  TypeOK /\ ConnShape /\ Lockstep /\ StoredIsLast /\ [Next]_vars => StoredIsLast'
<1> SUFFICES ASSUME TypeOK, ConnShape, Lockstep, StoredIsLast, [Next]_vars PROVE StoredIsLast'
  OBVIOUS
<1>1. server' # "gone" =>
        stored' = IF assigned' = << >> THEN << >> ELSE <<assigned'[Len(assigned')]>>
  <2>1. ASSUME server # "gone", NEW v \in Values, stored' = <<v>>, assigned' = Append(assigned, v)
        PROVE  stored' = IF assigned' = << >> THEN << >> ELSE <<assigned'[Len(assigned')]>>
    <3>1. Len(assigned') = Len(assigned) + 1 /\ assigned'[Len(assigned')] = v
      BY <2>1, Extended DEF TypeOK
    <3>2. assigned' # << >>
      <4>1. Len(assigned) + 1 \in DOMAIN assigned'
        BY <2>1, Extended DEF TypeOK
      <4> QED
        BY <4>1
    <3> QED
      BY <2>1, <3>1, <3>2
  <2> QED
    BY <2>1, StoredNext DEF StoredIsLast
<1>2. Len(assigned) \in Nat /\ Len(assigned') >= Len(assigned)
  <2>1. Len(assigned) \in Nat
    BY DEF TypeOK
  <2>2. ASSUME NEW v \in Values, assigned' = Append(assigned, v)
        PROVE  Len(assigned') = Len(assigned) + 1
    BY <2>2, Extended DEF TypeOK
  <2>3. assigned' = assigned \/ Len(assigned') = Len(assigned) + 1
    BY <2>2, StoredNext
  <2> QED
    BY <2>1, <2>3
<1>3. Len(assigned') \in Nat
  BY StepTyped DEF TypeOK
<1>4. ASSUME NEW k \in Conns PROVE since'[k] <= Len(assigned')
  <2>1. since[k] \in Nat /\ since[k] <= Len(assigned)
    BY DEF TypeOK, StoredIsLast
  <2> QED
    BY <1>2, <1>3, <2>1, SinceNext
<1> QED
  BY <1>1, <1>4 DEF StoredIsLast

LEMMA ReadsAreCurrentNext ==
  TypeOK /\ ConnShape /\ Lockstep /\ StoredIsLast /\ ReadsAreCurrent /\ [Next]_vars
  => ReadsAreCurrent'
<1> SUFFICES ASSUME TypeOK, ConnShape, Lockstep, StoredIsLast, ReadsAreCurrent, [Next]_vars,
                    NEW l \in Conns, l \notin skewed', NEW i \in DOMAIN responses'[l],
                    responses'[l][i].to = GetKey
             PROVE  \E j \in since'[l] .. Len(assigned') :
                      responses'[l][i].msg = IF j = 0 THEN << >> ELSE <<assigned'[j]>>
  BY DEF ReadsAreCurrent
<1>1. l \notin skewed
  BY DEF Next, Connect, Send, CancelCall, Drop, ClientStep, Receive, CallFails, ServerStep,
     HandleTooLong, HandleEnqueue, HandleDequeue, HandleClear, HandleSet, HandleGet, HandleOther,
     Deliver, GetTimeout, HandlerEnds, Stop, Halt, vars, clientVars
<1>2. /\ Len(assigned) \in Nat /\ since[l] \in Nat /\ since[l] <= Len(assigned)
      /\ Len(assigned') \in Nat /\ Len(assigned') >= Len(assigned)
      /\ \A j \in DOMAIN assigned : assigned'[j] = assigned[j]
      /\ DOMAIN assigned = 1 .. Len(assigned)
  <2>1. Len(assigned) \in Nat /\ since[l] \in Nat /\ DOMAIN assigned = 1 .. Len(assigned)
    BY DEF TypeOK
  <2>2. since[l] <= Len(assigned)
    BY DEF StoredIsLast
  <2>3. ASSUME NEW v \in Values, assigned' = Append(assigned, v)
        PROVE  /\ Len(assigned') = Len(assigned) + 1
               /\ \A j \in DOMAIN assigned : assigned'[j] = assigned[j]
    BY <2>3, Extended DEF TypeOK
  <2>4. assigned' = assigned \/ (/\ Len(assigned') = Len(assigned) + 1
                                /\ \A j \in DOMAIN assigned : assigned'[j] = assigned[j])
    BY <2>3, StoredNext
  <2> QED
    BY <2>1, <2>2, <2>4
<1>3. ASSUME NEW j \in DOMAIN responses[l], responses'[l][i] = responses[l][j]
      PROVE  \E n \in since'[l] .. Len(assigned') :
               responses'[l][i].msg = IF n = 0 THEN << >> ELSE <<assigned'[n]>>
  <2>1. PICK n \in since[l] .. Len(assigned) :
          responses[l][j].msg = IF n = 0 THEN << >> ELSE <<assigned[n]>>
    BY <1>1, <1>3 DEF ReadsAreCurrent
  <2>2. since'[l] = since[l]
    BY <1>1, <1>3, SinceNext
  <2>3. n \in since'[l] .. Len(assigned')
    BY <1>2, <2>1, <2>2
  <2>4. n # 0 => assigned'[n] = assigned[n]
    BY <1>2, <2>1
  <2> QED
    BY <1>3, <2>1, <2>3, <2>4
<1>4. CASE Written(l, responses'[l][i])
  <2> DEFINE a == responses'[l][i]
  <2>1. a.to = Asked(l) /\ Asked(l).cmd = "GET"
    BY <1>4, RequestFields DEF Written
  <2>2. HandleGet(l) /\ a.msg = stored
    BY <1>4, <2>1 DEF Written
  <2>3. server # "gone" /\ assigned' = assigned /\ since' = since
    BY <2>2 DEF HandleGet, Reads, ConnShape, history, clientVars
  <2>4. stored = IF Len(assigned) = 0 THEN << >> ELSE <<assigned[Len(assigned)]>>
    <3>1. assigned = << >> <=> Len(assigned) = 0
      BY Emptiness DEF TypeOK
    <3> QED
      BY <2>3, <3>1 DEF StoredIsLast
  <2>5. Len(assigned) \in since'[l] .. Len(assigned')
    BY <1>2, <2>3
  <2> QED
    BY <2>2, <2>3, <2>4, <2>5
<1> QED
  BY <1>3, <1>4, AnswersNext

-----------------------------------------------------------------------------
(* Requests that are under way *)

LEMMA GrownSet ==
  ASSUME NEW S, NEW s \in Seq(S), NEW x \in S
  PROVE  ToSet(Append(s, x)) = ToSet(s) \cup {x}
<1>1. \A i \in DOMAIN Append(s, x) : Append(s, x)[i] \in ToSet(s) \cup {x}
  BY Extended DEF ToSet
<1>2. x \in ToSet(Append(s, x)) /\ \A i \in DOMAIN s : s[i] \in ToSet(Append(s, x))
  BY Extended DEF ToSet
<1> QED
  BY <1>1, <1>2 DEF ToSet

\* What an ENQUEUE does.
LEMMA EnqueueEffect ==
  ASSUME TypeOK, ConnShape, NEW k \in Conns, HandleEnqueue(k)
  PROVE  \E p \in Payloads :
           /\ requests[k] # << >> /\ requests[k][1] = Enqueue(p)
           /\ ToSet(accepted') = ToSet(accepted) \cup {p}
           /\ queues' = [queues EXCEPT ![QueueOf[p]] = Append(@, p)] /\ QueueOf[p] \in QueueNames
           /\ UNCHANGED <<cleared, received>>
<1>1. /\ Asked(k) \in Requests /\ Asked(k).cmd = "ENQUEUE" /\ requests[k] # << >>
      /\ Asked(k) = requests[k][1]
  BY Handled, AskedTyped DEF Answering
<1>2. PICK p \in Payloads : Asked(k) = Enqueue(p)
  BY <1>1, RequestKinds
<1>3. Asked(k).payload = <<p>> /\ Asked(k).queue = QueueOf[p] /\ QueueOf[p] \in QueueNames
  BY <1>2, RequestFields
<1>4. accepted' = Append(accepted, p)
  BY <1>3, Extended DEF HandleEnqueue, TypeOK
<1>5. queues[QueueOf[p]] \o <<p>> = Append(queues[QueueOf[p]], p)
  BY <1>3, Extended DEF TypeOK
<1>6. queues' = [queues EXCEPT ![QueueOf[p]] = Append(@, p)]
  BY <1>3, <1>5 DEF HandleEnqueue, Stored, TypeOK
<1>7. UNCHANGED <<cleared, received>>
  BY DEF HandleEnqueue, clientVars
<1>8. ToSet(accepted') = ToSet(accepted) \cup {p}
  BY <1>4, GrownSet DEF TypeOK
<1> QED
  BY <1>1, <1>2, <1>3, <1>6, <1>7, <1>8

LEMMA RequestsNext ==
  ASSUME TypeOK, ConnShape, [Next]_vars
  PROVE  \/ UNCHANGED <<requests, accepted>>
         \/ accepted' = accepted /\ \E k \in Conns : \E r \in Offered[k] : Send(k, r)
         \/ \E k \in Conns : /\ \E msg : Answering(k, msg)
                             /\ accepted' = accepted \/ HandleEnqueue(k)
<1> DEFINE Goal == \/ UNCHANGED <<requests, accepted>>
                   \/ accepted' = accepted /\ \E k \in Conns : \E r \in Offered[k] : Send(k, r)
                   \/ \E k \in Conns : /\ \E msg : Answering(k, msg)
                                       /\ accepted' = accepted \/ HandleEnqueue(k)
<1>1. ASSUME NEW k \in Conns, ServerStep(k), ~ HandleEnqueue(k) PROVE accepted' = accepted
  BY <1>1 DEF ServerStep, HandleTooLong, HandleDequeue, HandleClear, HandleSet, HandleGet,
     HandleOther, Deliver, GetTimeout, HandlerEnds, history
<1>2. ASSUME NEW k \in Conns, ServerStep(k) PROVE Goal
  <2>1. CASE HandleTooLong(k) \/ HandleDequeue(k) \/ HandlerEnds(k)
    BY <2>1 DEF HandleTooLong, HandleDequeue, HandlerEnds, history
  <2> QED
    BY <1>1, <1>2, <2>1, ServerKinds
<1>3. ASSUME NEW k \in Conns, NEW r \in Offered[k], Send(k, r) PROVE Goal
  BY <1>3 DEF Send, history
<1>4. ASSUME NEW k \in Conns, Connect(k) \/ CancelCall(k) \/ Drop(k) \/ ClientStep(k) PROVE Goal
  BY <1>4 DEF Connect, CancelCall, Drop, ClientStep, Receive, CallFails, history
<1>5. CASE Stop \/ Halt \/ UNCHANGED vars
  BY <1>5 DEF Stop, Halt, vars, history
<1> QED
  BY <1>2, <1>3, <1>4, <1>5 DEF Next

LEMMA PendingAreNewNext == TypeOK /\ ConnShape /\ PendingAreNew /\ [Next]_vars => PendingAreNew'
<1> SUFFICES ASSUME TypeOK, ConnShape, PendingAreNew, [Next]_vars,
                    NEW k \in Conns, NEW i \in DOMAIN requests'[k], NEW p \in Payloads,
                    requests'[k][i] = Enqueue(p)
             PROVE  /\ p \notin ToSet(accepted')
                    /\ \A l \in Conns : \A j \in DOMAIN requests'[l] :
                         requests'[l][j] = Enqueue(p) => l = k /\ j = i
  BY DEF PendingAreNew
<1> DEFINE Goal == /\ p \notin ToSet(accepted')
                   /\ \A l \in Conns : \A j \in DOMAIN requests'[l] :
                        requests'[l][j] = Enqueue(p) => l = k /\ j = i
<1>1. CASE UNCHANGED <<requests, accepted>>
  BY <1>1 DEF PendingAreNew
<1>2. ASSUME NEW n \in Conns, NEW r \in Offered[n], Send(n, r), accepted' = accepted PROVE Goal
  <2>1. r \in Requests /\ requests[n] \in Seq(Requests) /\ Len(requests[n]) \in Nat
    BY BrokerAssumption DEF TypeOK
  <2>2. /\ requests'[n] = Append(requests[n], r)
        /\ \A l \in Conns \ {n} : requests'[l] = requests[l]
    BY <1>2 DEF Send, TypeOK
  <2>3. \A l \in Conns : \A j \in DOMAIN requests'[l] :
          \/ j \in DOMAIN requests[l] /\ requests'[l][j] = requests[l][j]
          \/ l = n /\ j = Len(requests[n]) + 1 /\ requests'[l][j] = r
    BY <2>1, <2>2, Extended
  <2>4. CASE r = Enqueue(p)
    <3>1. p \notin ToSet(accepted) /\ Unsent(p)
      <4>1. r.cmd = "ENQUEUE" /\ r.payload = <<p>> /\ 1 \in DOMAIN r.payload /\ r.payload[1] = p
        BY <2>4, RequestFields
      <4> QED
        BY <1>2, <4>1 DEF Send, Fresh
    <3>2. \A l \in Conns : \A j \in DOMAIN requests[l] : requests[l][j] # Enqueue(p)
      BY <3>1, RequestFields DEF Unsent
    <3> QED
      BY <1>2, <2>3, <3>1, <3>2
  <2>5. CASE r # Enqueue(p)
    BY <1>2, <2>3, <2>5 DEF PendingAreNew
  <2> QED
    BY <2>4, <2>5
<1>3. ASSUME NEW n \in Conns, NEW msg, Answering(n, msg), accepted' = accepted \/ HandleEnqueue(n)
      PROVE  Goal
  <2> DEFINE old(l, j) == IF l = n THEN j + 1 ELSE j
  <2>1. /\ requests[n] # << >> /\ requests'[n] = Tail(requests[n])
        /\ \A l \in Conns \ {n} : requests'[l] = requests[l]
    BY <1>3, AnsweringEffect
  <2>2. \A l \in Conns : \A j \in DOMAIN requests'[l] :
          old(l, j) \in DOMAIN requests[l] /\ requests'[l][j] = requests[l][old(l, j)]
    <3>1. \A j \in DOMAIN requests'[n] :
            j + 1 \in DOMAIN requests[n] /\ requests'[n][j] = requests[n][j + 1]
      BY <2>1, AskedTyped
    <3> QED
      BY <2>1, <3>1
  <2>3. \A j \in DOMAIN requests'[n] : j \in Nat /\ j >= 1
    BY <2>1, AskedTyped
  <2>4. p \notin ToSet(accepted)
    BY <2>2 DEF PendingAreNew
  <2>5. \A l \in Conns : \A j \in DOMAIN requests'[l] :
          requests'[l][j] = Enqueue(p) => l = k /\ j = i
    <3> SUFFICES ASSUME NEW l \in Conns, NEW j \in DOMAIN requests'[l], requests'[l][j] = Enqueue(p)
                 PROVE  l = k /\ j = i
      OBVIOUS
    <3>1. l = k /\ old(l, j) = old(k, i)
      BY <2>2 DEF PendingAreNew
    <3> QED
      BY <2>3, <3>1
  <2>6. CASE HandleEnqueue(n)
    <3>1. PICK x \in Payloads : requests[n][1] = Enqueue(x) /\ ToSet(accepted') = ToSet(accepted) \cup {x}
      BY <2>6, EnqueueEffect
    <3>2. 1 \in DOMAIN requests[n]
      BY <2>1, Emptiness DEF TypeOK
    <3>3. x # p
      <4>1. requests[k][old(k, i)] = Enqueue(p) /\ old(k, i) \in DOMAIN requests[k]
        BY <2>2
      <4>2. ~ (n = k /\ 1 = old(k, i))
        BY <2>3
      <4> HIDE DEF old
      <4> QED
        BY <3>1, <3>2, <4>1, <4>2 DEF PendingAreNew
    <3> QED
      BY <2>4, <2>5, <3>1, <3>3
  <2> QED
    BY <1>3, <2>4, <2>5, <2>6
<1> QED
  BY <1>1, <1>2, <1>3, RequestsNext

-----------------------------------------------------------------------------
(* Where the messages are *)

\* Some sequences, and others that differ from them in one.
Sequences(f, K, S) == f \in [K -> Seq(S)]
Grown(g, f, k, x)  == g = [f EXCEPT ![k] = Append(@, x)]
Shrunk(g, f, k)    == g = [f EXCEPT ![k] = Tail(@)]
Emptied(g, f, k)   == g = [f EXCEPT ![k] = << >>]

\* A message at the end of one of the sequences ...
LEMMA MembersGrown ==
  ASSUME NEW K, NEW S, NEW f, Sequences(f, K, S), NEW k \in K, NEW x \in S,
         NEW g, Grown(g, f, k, x)
  PROVE  /\ Members(g, S) = Members(f, S) \cup {x}
         /\ Once(f) /\ x \notin Members(f, S) => Once(g)
<1>1. /\ DOMAIN f = K /\ DOMAIN g = K /\ g[k] = Append(f[k], x) /\ \A l \in K \ {k} : g[l] = f[l]
      /\ \A l \in K : f[l] \in Seq(S)
  BY DEF Sequences, Grown
<1>2. /\ \A i \in DOMAIN f[k] : i \in DOMAIN g[k] /\ g[k][i] = f[k][i]
      /\ \E i \in DOMAIN g[k] : g[k][i] = x
      /\ \A i \in DOMAIN g[k] : i \in DOMAIN f[k] \/ (i = Len(f[k]) + 1 /\ g[k][i] = x)
  BY <1>1, Extended
<1>3. \A l \in K : \A i \in DOMAIN g[l] :
        \/ i \in DOMAIN f[l] /\ g[l][i] = f[l][i]
        \/ l = k /\ i = Len(f[k]) + 1 /\ g[l][i] = x
  BY <1>1, <1>2
<1>4. Members(g, S) \subseteq Members(f, S) \cup {x}
  BY <1>1, <1>3 DEF Members
<1>5. ASSUME NEW p \in Members(f, S) PROVE p \in Members(g, S)
  <2>1. PICK l \in K : \E i \in DOMAIN f[l] : f[l][i] = p /\ p \in S
    BY <1>1 DEF Members
  <2>2. \E i \in DOMAIN g[l] : g[l][i] = p
    BY <1>1, <1>2, <2>1
  <2> QED
    BY <1>1, <2>1, <2>2 DEF Members
<1>6. x \in Members(g, S)
  BY <1>1, <1>2 DEF Members
<1>7. ASSUME Once(f), x \notin Members(f, S) PROVE Once(g)
  <2>1. \A l \in K : \A i \in DOMAIN f[l] : f[l][i] # x
    BY <1>1, <1>7 DEF Members
  <2> QED
    BY <1>1, <1>3, <1>7, <2>1 DEF Once
<1> QED
  BY <1>4, <1>5, <1>6, <1>7

\* ... and one taken from the beginning.
LEMMA MembersShrunk ==
  ASSUME NEW K, NEW S, NEW f, Sequences(f, K, S), NEW k \in K, f[k] # << >>, Once(f),
         NEW g, Shrunk(g, f, k)
  PROVE  /\ Once(g) /\ Head(f[k]) \in Members(f, S)
         /\ Members(g, S) = Members(f, S) \ {Head(f[k])}
<1>1. /\ DOMAIN f = K /\ DOMAIN g = K /\ g[k] = Tail(f[k]) /\ \A l \in K \ {k} : g[l] = f[l]
      /\ \A l \in K : f[l] \in Seq(S)
  BY DEF Sequences, Shrunk
<1>2. /\ \A i \in DOMAIN g[k] : i \in Nat /\ i >= 1 /\ i + 1 \in DOMAIN f[k] /\ g[k][i] = f[k][i + 1]
      /\ \A i \in DOMAIN f[k] : i \in Nat /\ (i # 1 => i - 1 \in DOMAIN g[k] /\ g[k][i - 1] = f[k][i])
      /\ 1 \in DOMAIN f[k] /\ Head(f[k]) = f[k][1] /\ f[k][1] \in S
  <2>1. f[k] \in Seq(S) /\ Len(f[k]) \in Nat /\ DOMAIN f[k] = 1 .. Len(f[k]) /\ 1 \in DOMAIN f[k]
    BY <1>1, Emptiness
  <2>2. /\ DOMAIN g[k] = 1 .. Len(f[k]) - 1
        /\ \A i \in 1 .. Len(f[k]) - 1 : g[k][i] = f[k][i + 1]
    BY <1>1, <2>1
  <2> QED
    BY <1>1, <2>1, <2>2
<1>3. ASSUME NEW p \in Members(g, S) PROVE p \in Members(f, S) /\ p # f[k][1]
  <2>0. PICK l \in K : \E i \in DOMAIN g[l] : g[l][i] = p /\ p \in S
    BY <1>1 DEF Members
  <2>1. PICK i \in DOMAIN g[l] : g[l][i] = p /\ p \in S
    BY <2>0
  <2>2. CASE l = k
    <3>1. i + 1 \in DOMAIN f[k] /\ f[k][i + 1] = p /\ i + 1 # 1
      BY <1>2, <2>1, <2>2
    <3> QED
      BY <1>1, <1>2, <2>1, <3>1 DEF Members, Once
  <2>3. CASE l # k
    BY <1>1, <1>2, <2>1, <2>3 DEF Members, Once
  <2> QED
    BY <2>2, <2>3
<1>4. ASSUME NEW p \in Members(f, S), p # f[k][1] PROVE p \in Members(g, S)
  <2>0. PICK l \in K : \E i \in DOMAIN f[l] : f[l][i] = p /\ p \in S
    BY <1>1 DEF Members
  <2>1. PICK i \in DOMAIN f[l] : f[l][i] = p /\ p \in S
    BY <2>0
  <2>2. CASE l = k
    <3>1. i - 1 \in DOMAIN g[k] /\ g[k][i - 1] = p
      BY <1>2, <1>4, <2>1, <2>2
    <3> QED
      BY <1>1, <2>1, <3>1 DEF Members
  <2>3. CASE l # k
    BY <1>1, <2>1, <2>3 DEF Members
  <2> QED
    BY <2>2, <2>3
<1>5. Once(g)
  <2> DEFINE old(l, i) == IF l = k THEN i + 1 ELSE i
  <2>1. \A l \in K : \A i \in DOMAIN g[l] : old(l, i) \in DOMAIN f[l] /\ g[l][i] = f[l][old(l, i)]
    BY <1>1, <1>2
  <2> SUFFICES ASSUME NEW l \in K, NEW n \in K, NEW i \in DOMAIN g[l], NEW j \in DOMAIN g[n],
                      g[l][i] = g[n][j]
               PROVE  l = n /\ i = j
    BY <1>1 DEF Once
  <2>2. l = n /\ old(l, i) = old(n, j)
    BY <1>1, <2>1 DEF Once
  <2> QED
    BY <1>2, <2>2
<1>6. f[k][1] \in Members(f, S)
  BY <1>1, <1>2 DEF Members
<1> QED
  BY <1>2, <1>3, <1>4, <1>5, <1>6

\* A sequence is emptied.
LEMMA MembersEmptied ==
  ASSUME NEW K, NEW S, NEW f, Sequences(f, K, S), NEW k \in K, Once(f),
         NEW g, Emptied(g, f, k)
  PROVE  /\ Once(g) /\ ToSet(f[k]) \subseteq Members(f, S)
         /\ Members(g, S) = Members(f, S) \ ToSet(f[k])
<1>1. /\ DOMAIN f = K /\ DOMAIN g = K /\ DOMAIN g[k] = {} /\ \A l \in K \ {k} : g[l] = f[l]
      /\ \A i \in DOMAIN f[k] : f[k][i] \in S
  BY DEF Sequences, Emptied
<1>2. Once(g)
  BY <1>1 DEF Once
<1>3. ToSet(f[k]) \subseteq Members(f, S)
  BY <1>1 DEF Members, ToSet
<1>4. ASSUME NEW p \in Members(g, S) PROVE p \in Members(f, S) \ ToSet(f[k])
  <2>0. PICK l \in K \ {k} : \E i \in DOMAIN f[l] : f[l][i] = p /\ p \in S
    BY <1>1 DEF Members
  <2>1. PICK i \in DOMAIN f[l] : f[l][i] = p /\ p \in S
    BY <2>0
  <2> QED
    BY <1>1, <2>1 DEF Members, ToSet, Once
<1>5. ASSUME NEW p \in Members(f, S) \ ToSet(f[k]) PROVE p \in Members(g, S)
  BY <1>1 DEF Members, ToSet
<1> QED
  BY <1>2, <1>3, <1>4, <1>5

\* The answer to anything but a DEQUEUE carries no message.
LEMMA NoMessageIn ==
  ASSUME TypeOK, NEW msg \in {<< >>, stored}, NEW p \in Payloads
  PROVE  msg # <<p>>
<1>1. << >> # <<p>>
  OBVIOUS
<1>2. ASSUME NEW v \in Values PROVE <<v>> # <<p>>
  <2>1. v # p
    BY BrokerAssumption
  <2>2. <<v>>[1] = v /\ <<p>>[1] = p
    OBVIOUS
  <2> QED
    BY <2>1, <2>2
<1>3. stored = << >> \/ \E v \in Values : stored = <<v>>
  BY DEF TypeOK
<1> QED
  BY <1>1, <1>2, <1>3

LEMMA TravellingAnswered ==
  ASSUME TypeOK, OneAnswer, NEW k \in Conns, NEW msg, Answering(k, msg)
  PROVE  /\ (\A p \in Payloads : msg # <<p>>) \/ ~ Open(k) => Travelling' = Travelling /\ OneAnswer'
         /\ \A p \in Payloads \ Travelling : msg = <<p>> /\ Open(k) =>
              Travelling' = Travelling \cup {p} /\ OneAnswer'
<1> DEFINE a == [to |-> Asked(k), msg |-> msg]
<1>1. /\ \A l \in Conns \ {k} : responses'[l] = responses[l]
      /\ responses'[k] = IF Open(k) THEN Append(responses[k], a) ELSE responses[k]
  BY AnsweringEffect
<1>2. a.msg = msg
  OBVIOUS
<1> HIDE DEF a
<1>3. CASE ~ Open(k)
  <2>1. \A l \in Conns : responses'[l] = responses[l]
    BY <1>1, <1>3
  <2> QED
    BY <1>3, <2>1 DEF Travelling, OneAnswer, Carries
<1>4. CASE Open(k)
  <2>1. responses[k] \in Seq(Answers \cup {a})
    BY DEF TypeOK
  <2>2. /\ \A i \in DOMAIN responses[k] : i \in DOMAIN responses'[k] /\ responses'[k][i] = responses[k][i]
        /\ \E i \in DOMAIN responses'[k] : responses'[k][i] = a
        /\ \A i \in DOMAIN responses'[k] :
             \/ i \in DOMAIN responses[k]
             \/ i = Len(responses[k]) + 1 /\ responses'[k][i] = a
    BY <1>1, <1>4, <2>1, Extended
  <2>3. \A l \in Conns : \A i \in DOMAIN responses'[l] :
          \/ i \in DOMAIN responses[l] /\ responses'[l][i] = responses[l][i]
          \/ l = k /\ i = Len(responses[k]) + 1 /\ responses'[l][i] = a
    BY <1>1, <2>2
  <2>4. \A l \in Conns : \A i \in DOMAIN responses[l] :
          i \in DOMAIN responses'[l] /\ responses'[l][i] = responses[l][i]
    BY <1>1, <2>2
  <2>5. Travelling \subseteq Travelling'
    BY <2>4 DEF Travelling, Carries
  <2>8. \A l \in Conns : \A i \in DOMAIN responses'[l] : \A p \in Payloads : Carries(l, i, p)' =>
          \/ i \in DOMAIN responses[l] /\ Carries(l, i, p)
          \/ l = k /\ i = Len(responses[k]) + 1 /\ msg = <<p>>
    BY <1>2, <2>3 DEF Carries
  <2>6. ASSUME \A p \in Payloads : msg # <<p>> PROVE Travelling' = Travelling /\ OneAnswer'
    <3>1. Travelling' \subseteq Travelling
      BY <2>6, <2>8 DEF Travelling
    <3>2. OneAnswer'
      BY <2>6, <2>8 DEF OneAnswer
    <3> QED
      BY <2>5, <3>1, <3>2
  <2>7. ASSUME NEW p \in Payloads \ Travelling, msg = <<p>>
        PROVE  Travelling' = Travelling \cup {p} /\ OneAnswer'
    <3>1. \A x \in Payloads : msg = <<x>> => x = p
      <4>1. \A x \in Payloads : <<x>>[1] = x
        OBVIOUS
      <4> QED
        BY <2>7, <4>1
    <3>2. Travelling' \subseteq Travelling \cup {p}
      BY <2>8, <3>1 DEF Travelling
    <3>3. p \in Travelling'
      BY <1>2, <2>2, <2>7 DEF Travelling, Carries
    <3>4. \A l \in Conns : \A i \in DOMAIN responses[l] : ~ Carries(l, i, p)
      BY <2>7 DEF Travelling
    <3>5. OneAnswer'
      BY <2>8, <3>1, <3>4 DEF OneAnswer
    <3> QED
      BY <2>5, <3>2, <3>3, <3>5
  <2> QED
    BY <1>4, <2>6, <2>7
<1> QED
  BY <1>3, <1>4

\* The answers on the way to k are gone.
LEMMA TravellingLeft ==
  ASSUME TypeOK, OneAnswer, NEW k \in Conns, NEW how, Leave(k, how)
  PROVE  /\ Travelling' \subseteq Travelling /\ OneAnswer'
         /\ (\A i \in DOMAIN responses[k] : \A p \in Payloads : responses[k][i].msg # <<p>>)
              => Travelling' = Travelling
<1>1. DOMAIN responses'[k] = {} /\ \A l \in Conns \ {k} : responses'[l] = responses[l]
  BY DEF Leave, TypeOK
<1>2. Travelling' \subseteq Travelling /\ OneAnswer'
  BY <1>1 DEF Travelling, OneAnswer, Carries
<1>3. ASSUME \A i \in DOMAIN responses[k] : \A p \in Payloads : responses[k][i].msg # <<p>>
      PROVE  Travelling \subseteq Travelling'
  BY <1>1, <1>3 DEF Travelling, Carries
<1> QED
  BY <1>2, <1>3

\* The first answer is read.
LEMMA TravellingRead ==
  ASSUME TypeOK, OneAnswer, NEW k \in Conns, responses[k] # << >>,
         responses' = [responses EXCEPT ![k] = Tail(@)]
  PROVE  /\ OneAnswer'
         /\ Travelling' = {p \in Travelling : Head(responses[k]).msg # <<p>>}
         /\ \A p \in Payloads : Head(responses[k]).msg = <<p>> => p \in Travelling
<1> DEFINE old(l, i) == IF l = k THEN i + 1 ELSE i
<1>1. /\ responses'[k] = Tail(responses[k]) /\ \A l \in Conns \ {k} : responses'[l] = responses[l]
      /\ Head(responses[k]) = responses[k][1] /\ 1 \in DOMAIN responses[k]
  BY Emptiness DEF TypeOK
<1>2. \A i \in DOMAIN responses'[k] :
        i \in Nat /\ i >= 1 /\ i + 1 \in DOMAIN responses[k] /\ responses'[k][i] = responses[k][i + 1]
  <2>1. \A i \in DOMAIN responses'[k] :
          i + 1 \in DOMAIN responses[k] /\ responses'[k][i] = responses[k][i + 1]
    BY <1>1, ReceivedTyped
  <2>2. DOMAIN responses'[k] = 1 .. Len(responses[k]) - 1 /\ Len(responses[k]) \in Nat
    BY <1>1, ReceivedTyped
  <2>3. \A i \in DOMAIN responses'[k] : i \in Nat /\ i >= 1
    BY <2>2
  <2> QED
    BY <2>1, <2>3
<1>3. \A i \in DOMAIN responses[k] :
        i = 1 \/ (i - 1 \in DOMAIN responses'[k] /\ responses'[k][i - 1] = responses[k][i])
  <2>1. /\ DOMAIN responses[k] = 1 .. Len(responses[k]) /\ Len(responses[k]) \in Nat
        /\ DOMAIN responses'[k] = 1 .. Len(responses[k]) - 1
    BY <1>1, ReceivedTyped DEF TypeOK
  <2>2. ASSUME NEW i \in DOMAIN responses[k], i # 1
        PROVE  i - 1 \in DOMAIN responses'[k] /\ responses'[k][i - 1] = responses[k][i]
    <3>1. i - 1 \in DOMAIN responses'[k] /\ (i - 1) + 1 = i
      BY <2>1, <2>2
    <3>2. responses'[k][i - 1] = responses[k][(i - 1) + 1]
      BY <1>2, <3>1
    <3> QED
      BY <3>1, <3>2
  <2> QED
    BY <2>2
<1>4. \A l \in Conns : \A i \in DOMAIN responses'[l] :
        old(l, i) \in DOMAIN responses[l] /\ \A p : Carries(l, i, p)' <=> Carries(l, old(l, i), p)
  BY <1>1, <1>2 DEF Carries
<1>5. OneAnswer'
  <2> SUFFICES ASSUME NEW l \in Conns, NEW n \in Conns, NEW i \in DOMAIN responses'[l],
                      NEW j \in DOMAIN responses'[n], NEW p \in Payloads,
                      Carries(l, i, p)', Carries(n, j, p)'
               PROVE  l = n /\ i = j
    BY DEF OneAnswer
  <2>1. l = n /\ old(l, i) = old(n, j)
    BY <1>4 DEF OneAnswer
  <2> QED
    BY <1>2, <2>1
<1>6. ASSUME NEW p \in Travelling' PROVE p \in Travelling /\ Head(responses[k]).msg # <<p>>
  <2>0. PICK l \in Conns : \E i \in DOMAIN responses'[l] : p \in Payloads /\ Carries(l, i, p)'
    BY DEF Travelling
  <2>1. PICK i \in DOMAIN responses'[l] : p \in Payloads /\ Carries(l, i, p)'
    BY <2>0
  <2>2. old(l, i) \in DOMAIN responses[l] /\ Carries(l, old(l, i), p)
    BY <1>4, <2>1
  <2>3. ~ (l = k /\ old(l, i) = 1)
    BY <1>2, <2>1
  <2> HIDE DEF old
  <2> QED
    <3>1. p \in Travelling
      BY <2>1, <2>2 DEF Travelling
    <3>2. ~ Carries(k, 1, p)
      BY <1>1, <2>1, <2>2, <2>3 DEF OneAnswer
    <3> QED
      BY <1>1, <3>1, <3>2 DEF Carries
<1>7. ASSUME NEW p \in Travelling, Head(responses[k]).msg # <<p>> PROVE p \in Travelling'
  <2>0. PICK l \in Conns : \E i \in DOMAIN responses[l] : p \in Payloads /\ Carries(l, i, p)
    BY DEF Travelling
  <2>1. PICK i \in DOMAIN responses[l] : p \in Payloads /\ Carries(l, i, p)
    BY <2>0
  <2>2. CASE l = k
    <3>1. i - 1 \in DOMAIN responses'[k] /\ responses'[k][i - 1] = responses[k][i]
      BY <1>1, <1>3, <1>7, <2>1, <2>2 DEF Carries
    <3> QED
      BY <2>1, <2>2, <3>1 DEF Travelling, Carries
  <2>3. CASE l # k
    BY <1>1, <2>1, <2>3 DEF Travelling, Carries
  <2> QED
    BY <2>2, <2>3
<1>8. \A p \in Payloads : Head(responses[k]).msg = <<p>> => p \in Travelling
  BY <1>1 DEF Travelling, Carries
<1> QED
  BY <1>5, <1>6, <1>7, <1>8

\* What can happen to the messages, with what is needed to lose none.
Unmoved == /\ Queued' = Queued /\ Had' = Had /\ cleared' = cleared
           /\ ToSet(accepted') = ToSet(accepted)
           /\ Travelling' \subseteq Travelling /\ (Faultless' => Travelling' = Travelling)

Enters(p) == /\ p \notin ToSet(accepted) /\ ToSet(accepted') = ToSet(accepted) \cup {p}
             /\ Queued' = Queued \cup {p}
             /\ Travelling' = Travelling /\ Had' = Had /\ cleared' = cleared

Departs(p) == /\ p \in Queued /\ Queued' = Queued \ {p}
              /\ Travelling' \in {Travelling, Travelling \cup {p}}
              /\ Faultless' => Travelling' = Travelling \cup {p}
              /\ Had' = Had /\ cleared' = cleared /\ ToSet(accepted') = ToSet(accepted)

Arrives(p) == /\ p \in Travelling /\ Travelling' = Travelling \ {p} /\ Had' = Had \cup {p}
              /\ Queued' = Queued /\ cleared' = cleared /\ ToSet(accepted') = ToSet(accepted)

Removed(S) == /\ S \subseteq Queued /\ Queued' = Queued \ S /\ cleared' = cleared \cup S
              /\ Travelling' = Travelling /\ Had' = Had /\ ToSet(accepted') = ToSet(accepted)

Perished == /\ Queued' = {} /\ ~ Faultless'
            /\ Travelling' = Travelling /\ Had' = Had /\ cleared' = cleared
            /\ ToSet(accepted') = ToSet(accepted)

Movement == \/ Unmoved \/ Perished
            \/ \E p \in Payloads : Enters(p) \/ Departs(p) \/ Arrives(p)
            \/ \E S : Removed(S)

\* What is lost is lost by a fault, and faults are not undone.
LEMMA FaultsStay ==
  ASSUME TypeOK, ConnShape, [Next]_vars, Faultless'
  PROVE  /\ Faultless /\ ~ Halt /\ \A k \in Conns : ~ Drop(k) /\ ~ CancelCall(k)
<1>1. ~ Halt
  BY DEF Halt, Faultless
<1>2. ASSUME NEW k \in Conns PROVE ~ Drop(k) /\ ~ CancelCall(k)
  <2>1. ~ Drop(k)
    BY DEF Drop, Leave, Faultless, TypeOK
  <2>2. ~ CancelCall(k)
    BY DEF CancelCall, Faultless
  <2> QED
    BY <2>1, <2>2
<1>3. server # "gone"
  BY <1>1 DEF Faultless, Next, Connect, Send, CancelCall, Drop, ClientStep, Receive, CallFails, ServerStep,
     HandleTooLong, HandleEnqueue, HandleDequeue, HandleClear, HandleSet, HandleGet, HandleOther,
     Deliver, GetTimeout, HandlerEnds, Stop, vars, serverVars
<1>4. skewed = {}
  BY DEF Faultless, Next, Connect, Send, CancelCall, Drop, ClientStep, Receive, CallFails, ServerStep,
     HandleTooLong, HandleEnqueue, HandleDequeue, HandleClear, HandleSet, HandleGet, HandleOther,
     Deliver, GetTimeout, HandlerEnds, Stop, Halt, vars, clientVars
<1>5. ASSUME NEW l \in Conns PROVE link[l] # "dropped"
  <2>1. link'[l] # "dropped"
    BY DEF Faultless
  <2>2. CASE link'[l] = link[l]
    BY <2>1, <2>2
  <2>3. ASSUME NEW k \in Conns, Connect(k) PROVE link[l] # "dropped"
    BY <2>1, <2>3 DEF Connect, TypeOK
  <2>4. ASSUME NEW k \in Conns, ClientStep(k) PROVE link[l] # "dropped"
    <3>1. link[k] = "open"
      BY <2>4 DEF ClientStep, Receive, CallFails, ConnShape, Open
    <3> QED
      BY <2>1, <2>4, <3>1 DEF ClientStep, Receive, Leave, CallFails, TypeOK
  <2>5. ASSUME NEW k \in Conns, ServerStep(k) PROVE link' = link
    BY <2>5 DEF ServerStep, HandleTooLong, HandleEnqueue, HandleDequeue, HandleClear, HandleSet,
       HandleGet, HandleOther, Deliver, GetTimeout, HandlerEnds, clientVars
  <2>6. ASSUME NEW k \in Conns, NEW r \in Offered[k], Send(k, r) PROVE link' = link
    BY <2>6 DEF Send
  <2>7. CASE Stop \/ UNCHANGED vars
    BY <2>2, <2>7 DEF Stop, vars, clientVars
  <2> QED
    BY <1>1, <1>2, <2>2, <2>3, <2>4, <2>5, <2>6, <2>7 DEF Next
<1> QED
  BY <1>1, <1>2, <1>3, <1>4, <1>5 DEF Faultless

\* The client reads the message that was meant for it.
LEMMA ReceiveMoves ==
  ASSUME TypeOK, ConnShape, Lockstep, MessagesAnswerDequeues, Positions, Apart, [Next]_vars,
         NEW k \in Conns, Receive(k)
  PROVE  Positions' /\ Movement
<1> DEFINE a == Head(responses[k])
<1>1. /\ responses[k] # << >> /\ call[k] # NoCall /\ Open(k)
      /\ UNCHANGED <<queues, cleared, accepted>>
  BY DEF Receive, ConnShape, serverVars, history
<1>2. a = responses[k][1] /\ 1 \in DOMAIN responses[k]
  BY <1>1, Emptiness, ReceivedTyped DEF TypeOK
<1>3. Queued' = Queued /\ (Once(queues) => Once(queues)')
  BY <1>1 DEF Queued, Members, Once
<1>4. CASE \A p \in Payloads : a.msg # <<p>>
  <2>1. received' = received
    <3>1. Message(a) = << >>
      BY <1>4 DEF Message
    <3>2. received[k] \o << >> = received[k]
      BY DEF TypeOK
    <3> QED
      BY <3>1, <3>2 DEF Receive, TypeOK
  <2>2. Had' = Had /\ (Once(received) => Once(received)')
    BY <2>1 DEF Had, Members, Once
  <2>3. CASE call[k].cmd = "CLOSE"
    <3>1. Leave(k, "closed")
      BY <2>3 DEF Receive
    <3>2. Travelling' \subseteq Travelling /\ OneAnswer'
      BY <3>1, TravellingLeft DEF Positions
    <3>3. ASSUME Faultless' PROVE Travelling' = Travelling
      <4>1. Len(responses[k]) <= 1
        BY <1>1, <3>3, FaultsStay DEF Lockstep, Faultless
      <4>2. Len(responses[k]) \in Nat /\ DOMAIN responses[k] = 1 .. Len(responses[k])
        BY DEF TypeOK
      <4>3. \A i \in DOMAIN responses[k] : i = 1
        BY <4>1, <4>2
      <4>4. \A i \in DOMAIN responses[k] : \A p \in Payloads : responses[k][i].msg # <<p>>
        BY <1>2, <1>4, <4>3
      <4> QED
        BY <3>1, <4>4, TravellingLeft DEF Positions
    <3> QED
      BY <1>1, <1>3, <2>2, <3>2, <3>3 DEF Positions, Movement, Unmoved
  <2>4. CASE call[k].cmd # "CLOSE"
    <3>1. responses' = [responses EXCEPT ![k] = Tail(@)]
      BY <2>4 DEF Receive
    <3>2. OneAnswer' /\ Travelling' = {p \in Travelling : a.msg # <<p>>}
      BY <1>1, <3>1, TravellingRead DEF Positions
    <3>3. Travelling' = Travelling
      BY <1>4, <3>2 DEF Travelling
    <3> QED
      BY <1>1, <1>3, <2>2, <3>2, <3>3 DEF Positions, Movement, Unmoved
  <2> QED
    BY <2>3, <2>4
<1>5. ASSUME NEW p \in Payloads, a.msg = <<p>> PROVE Positions' /\ Movement
  <2>1. Message(a) = <<p>>
    BY <1>5 DEF Message
  <2>2. \A x \in Payloads : a.msg = <<x>> <=> x = p
    <3>1. \A x \in Payloads : <<x>>[1] = x
      OBVIOUS
    <3> QED
      BY <1>5, <3>1
  <2>3. p \in Travelling
    BY <1>2, <1>5 DEF Travelling, Carries
  <2>4. CASE call[k].cmd = "DEQUEUE"
    <3>1. responses' = [responses EXCEPT ![k] = Tail(@)]
      BY <2>4 DEF Receive
    <3>2. OneAnswer' /\ Travelling' = {x \in Travelling : a.msg # <<x>>}
      BY <1>1, <3>1, TravellingRead DEF Positions
    <3>3. Travelling' = Travelling \ {p}
      BY <2>2, <3>2 DEF Travelling
    <3>4. received' = [received EXCEPT ![k] = Append(@, p)]
      <4>1. received[k] \o <<p>> = Append(received[k], p)
        BY Extended DEF TypeOK
      <4> QED
        BY <2>1, <2>4, <4>1 DEF Receive, TypeOK
    <3>5. Had' = Had \cup {p} /\ Once(received)'
      <4>1. p \notin Members(received, Payloads) /\ Once(received)
        BY <2>3 DEF Apart, Had, Positions
      <4>2. received \in [Conns -> Seq(Payloads)]
        BY DEF TypeOK
      <4>3. /\ Members(received', Payloads) = Members(received, Payloads) \cup {p}
            /\ Once(received')
        <5>1. Sequences(received, Conns, Payloads) /\ Grown(received', received, k, p)
          BY <3>4, <4>2 DEF Sequences, Grown
        <5> QED
          BY <4>1, <5>1, MembersGrown
      <4> QED
        BY <4>3 DEF Had
    <3> QED
      BY <1>1, <1>3, <2>3, <3>2, <3>3, <3>5 DEF Positions, Movement, Arrives
  <2>5. CASE call[k].cmd # "DEQUEUE"
    <3>1. k \in skewed /\ ~ Faultless'
      <4>1. responses[k][1].to.cmd = "DEQUEUE"
        BY <1>2, <1>5 DEF MessagesAnswerDequeues
      <4>2. k \in skewed
        BY <1>1, <1>2, <2>5, <4>1 DEF Lockstep
      <4> QED
        BY <4>2, FaultsStay DEF Faultless
    <3>2. received' = received
      BY <2>5 DEF Receive
    <3>3. Had' = Had /\ (Once(received) => Once(received)')
      BY <3>2 DEF Had, Members, Once
    <3>4. CASE call[k].cmd = "CLOSE"
      <4>1. Leave(k, "closed")
        BY <3>4 DEF Receive
      <4>2. Travelling' \subseteq Travelling /\ OneAnswer'
        BY <4>1, TravellingLeft DEF Positions
      <4> QED
        BY <1>1, <1>3, <3>1, <3>3, <4>2 DEF Positions, Movement, Unmoved
    <3>5. CASE call[k].cmd # "CLOSE"
      <4>1. responses' = [responses EXCEPT ![k] = Tail(@)]
        BY <3>5 DEF Receive
      <4>2. OneAnswer' /\ Travelling' \subseteq Travelling
        BY <1>1, <4>1, TravellingRead DEF Positions
      <4> QED
        BY <1>1, <1>3, <3>1, <3>3, <4>2 DEF Positions, Movement, Unmoved
    <3> QED
      BY <3>4, <3>5
  <2> QED
    BY <2>4, <2>5
<1> QED
  BY <1>4, <1>5

LEMMA ServerMoves ==
  ASSUME TypeOK, ConnShape, Lockstep, PendingAreNew, Positions, Apart, Conserved, [Next]_vars,
         NEW k \in Conns, ServerStep(k)
  PROVE  Positions' /\ Movement
<1>1. received' = received
  BY DEF ServerStep, HandleTooLong, HandleEnqueue, HandleDequeue, HandleClear, HandleSet,
     HandleGet, HandleOther, Deliver, GetTimeout, HandlerEnds, clientVars
<1>2. Had' = Had /\ Once(received)'
  BY <1>1 DEF Had, Members, Once, Positions
<1>3. ASSUME UNCHANGED <<queues, accepted, cleared>>, Travelling' = Travelling, OneAnswer'
      PROVE  Positions' /\ Movement
  <2>1. Queued' = Queued /\ Once(queues)'
    BY <1>3 DEF Queued, Members, Once, Positions
  <2> QED
    BY <1>2, <1>3, <2>1 DEF Positions, Movement, Unmoved
<1>4. CASE HandleTooLong(k) \/ HandleDequeue(k) \/ HandlerEnds(k)
  <2>1. UNCHANGED <<queues, accepted, cleared, responses>>
    BY <1>4 DEF HandleTooLong, HandleDequeue, HandlerEnds, history
  <2>2. Travelling' = Travelling /\ OneAnswer'
    BY <2>1 DEF Travelling, OneAnswer, Carries, Positions
  <2> QED
    BY <1>3, <2>1, <2>2
<1>5. CASE HandleSet(k) \/ HandleGet(k) \/ HandleOther(k) \/ GetTimeout(k)
  <2>1. UNCHANGED <<queues, accepted, cleared>>
    BY <1>5 DEF HandleSet, HandleGet, HandleOther, GetTimeout, serverVars, history
  <2>2. PICK msg \in {<< >>, stored} : Answering(k, msg)
    BY <1>5, Handled
  <2>3. Travelling' = Travelling /\ OneAnswer'
    BY <2>2, NoMessageIn, TravellingAnswered DEF Positions
  <2> QED
    BY <1>3, <2>1, <2>3
<1>6. CASE HandleEnqueue(k)
  <2>1. PICK p \in Payloads :
          /\ requests[k] # << >> /\ requests[k][1] = Enqueue(p)
          /\ ToSet(accepted') = ToSet(accepted) \cup {p}
          /\ queues' = [queues EXCEPT ![QueueOf[p]] = Append(@, p)] /\ QueueOf[p] \in QueueNames
          /\ UNCHANGED <<cleared, received>>
    BY <1>6, EnqueueEffect
  <2>2. p \notin ToSet(accepted)
    <3>1. 1 \in DOMAIN requests[k]
      BY <2>1, Emptiness DEF TypeOK
    <3> QED
      BY <2>1, <3>1 DEF PendingAreNew
  <2>3. Travelling' = Travelling /\ OneAnswer'
    BY <1>6, Handled, NoMessageIn, TravellingAnswered DEF Positions
  <2>4. Queued' = Queued \cup {p} /\ Once(queues)'
    <3>1. p \notin Members(queues, Payloads) /\ Once(queues)
      BY <2>2 DEF Conserved, Queued, Positions
    <3>2. queues \in [QueueNames -> Seq(Payloads)]
      BY DEF TypeOK
    <3>3. /\ Members(queues', Payloads) = Members(queues, Payloads) \cup {p}
          /\ Once(queues')
      <4>1. Sequences(queues, QueueNames, Payloads) /\ Grown(queues', queues, QueueOf[p], p)
        BY <2>1, <3>2 DEF Sequences, Grown
      <4> QED
        BY <2>1, <3>1, <4>1, MembersGrown
    <3> QED
      BY <3>3 DEF Queued
  <2> QED
    BY <1>2, <2>1, <2>2, <2>3, <2>4 DEF Positions, Movement, Enters
<1>7. CASE Deliver(k)
  <2>1. PICK q \in QueueNames : Asked(k) = Dequeue(q)
    BY <1>7, Handled, AskedTyped, RequestKinds DEF Answering
  <2>2. Asked(k).queue = q
    BY <2>1, RequestFields
  <2> DEFINE p == Head(queues[q])
  <2>3. /\ queues[q] # << >> /\ queues' = [queues EXCEPT ![q] = Tail(@)]
        /\ UNCHANGED <<cleared, accepted>> /\ Answering(k, <<p>>)
    BY <1>7, <2>2, Handled DEF Deliver, history
  <2>4. /\ Once(queues)' /\ p \in Queued /\ Queued' = Queued \ {p}
    <3>1. /\ Sequences(queues, QueueNames, Payloads) /\ Once(queues)
          /\ Shrunk(queues', queues, q) /\ queues[q] # << >>
      BY <2>3 DEF TypeOK, Positions, Sequences, Shrunk
    <3>2. /\ Once(queues') /\ p \in Members(queues, Payloads)
          /\ Members(queues', Payloads) = Members(queues, Payloads) \ {p}
      BY <3>1, MembersShrunk
    <3> QED
      BY <3>2 DEF Queued
  <2>5. p \in Payloads \ Travelling
    BY <2>4 DEF Apart, Queued, Members
  <2> HIDE DEF p
  <2>6. OneAnswer' /\ Travelling' = IF Open(k) THEN Travelling \cup {p} ELSE Travelling
    BY <2>3, <2>5, TravellingAnswered DEF Positions
  <2>7. Faultless' => Open(k)
    <3>1. /\ handler[k] \in {"reading", "getting"} /\ requests[k] # << >>
          /\ link[k] \in {"new", "open", "closed", "dropped"}
      BY <2>3 DEF Answering, TypeOK
    <3>2. link[k] # "new" /\ handler[k] # "ended"
      BY <3>1 DEF ConnShape
    <3> QED
      BY <3>1, <3>2, FaultsStay DEF Faultless, Lockstep, Open
  <2> QED
    BY <1>2, <2>3, <2>4, <2>5, <2>6, <2>7 DEF Positions, Movement, Departs
<1>8. CASE HandleClear(k)
  <2>1. PICK q \in QueueNames : Asked(k) = Clear(q)
    BY <1>8, Handled, AskedTyped, RequestKinds DEF Answering
  <2>2. Asked(k).queue = q
    BY <2>1, RequestFields
  <2>3. /\ queues' = [queues EXCEPT ![q] = << >>] /\ cleared' = cleared \cup ToSet(queues[q])
        /\ UNCHANGED accepted /\ Answering(k, << >>)
    BY <1>8, <2>2, Handled DEF HandleClear
  <2>4. /\ Once(queues)' /\ ToSet(queues[q]) \subseteq Queued /\ Queued' = Queued \ ToSet(queues[q])
    <3>1. /\ Sequences(queues, QueueNames, Payloads) /\ Once(queues)
          /\ Emptied(queues', queues, q)
      BY <2>3 DEF TypeOK, Positions, Sequences, Emptied
    <3>2. /\ Once(queues') /\ ToSet(queues[q]) \subseteq Members(queues, Payloads)
          /\ Members(queues', Payloads) = Members(queues, Payloads) \ ToSet(queues[q])
      BY <3>1, MembersEmptied
    <3> QED
      BY <3>2 DEF Queued
  <2>5. Travelling' = Travelling /\ OneAnswer'
    BY <2>3, NoMessageIn, TravellingAnswered DEF Positions
  <2> QED
    BY <1>2, <2>3, <2>4, <2>5 DEF Positions, Movement, Removed
<1> QED
  BY <1>4, <1>5, <1>6, <1>7, <1>8 DEF ServerStep

LEMMA Moves ==
  ASSUME TypeOK, ConnShape, Lockstep, MessagesAnswerDequeues, PendingAreNew,
         Positions, Apart, Conserved, [Next]_vars
  PROVE  Positions' /\ Movement
<1>1. ASSUME UNCHANGED <<queues, received, accepted, cleared>>,
             Travelling' \subseteq Travelling, Faultless' => Travelling' = Travelling, OneAnswer'
      PROVE  Positions' /\ Movement
  <2>1. /\ Queued' = Queued /\ Once(queues)'
        /\ Had' = Had /\ Once(received)'
    BY <1>1 DEF Queued, Had, Members, Once, Positions
  <2> QED
    BY <1>1, <2>1 DEF Positions, Movement, Unmoved
<1>2. ASSUME UNCHANGED <<queues, received, accepted, cleared, responses>>
      PROVE  Positions' /\ Movement
  <2>1. Travelling' = Travelling /\ OneAnswer'
    BY <1>2 DEF Travelling, OneAnswer, Carries, Positions
  <2> QED
    BY <1>1, <1>2, <2>1
<1>3. ASSUME NEW k \in Conns, \/ Connect(k) \/ \E r \in Offered[k] : Send(k, r)
                              \/ CancelCall(k) \/ CallFails(k)
      PROVE  Positions' /\ Movement
  BY <1>2, <1>3 DEF Connect, Send, CancelCall, CallFails, serverVars, history
<1>4. ASSUME NEW k \in Conns, Drop(k) PROVE Positions' /\ Movement
  <2>1. UNCHANGED <<queues, received, accepted, cleared>> /\ Leave(k, "dropped")
    BY <1>4 DEF Drop, serverVars, history
  <2>2. ~ Faultless'
    BY <1>4, FaultsStay
  <2> QED
    BY <1>1, <2>1, <2>2, TravellingLeft DEF Positions
<1>5. CASE Stop \/ UNCHANGED vars
  BY <1>2, <1>5 DEF Stop, vars, serverVars, clientVars, history
<1>6. CASE Halt
  <2>1. UNCHANGED <<received, accepted, cleared, responses>>
    BY <1>6 DEF Halt, clientVars, history
  <2>2. Travelling' = Travelling /\ OneAnswer' /\ Had' = Had /\ Once(received)'
    BY <2>1 DEF Travelling, OneAnswer, Carries, Had, Members, Once, Positions
  <2>3. \A q \in DOMAIN queues' : DOMAIN queues'[q] = {}
    BY <1>6 DEF Halt
  <2>4. Queued' = {} /\ Once(queues)'
    BY <2>3 DEF Queued, Members, Once
  <2>5. ~ Faultless'
    BY <1>6, FaultsStay
  <2> QED
    BY <2>1, <2>2, <2>4, <2>5 DEF Positions, Movement, Perished
<1> QED
  BY <1>3, <1>4, <1>5, <1>6, ServerMoves, ReceiveMoves DEF Next, ClientStep

LEMMA ConservedNext ==
  /\ TypeOK /\ ConnShape /\ Lockstep /\ MessagesAnswerDequeues /\ PendingAreNew
  /\ Positions /\ Apart /\ Conserved /\ [Next]_vars
  => Positions' /\ Apart' /\ Conserved'
<1> SUFFICES ASSUME TypeOK, ConnShape, Lockstep, MessagesAnswerDequeues, PendingAreNew,
                    Positions, Apart, Conserved, [Next]_vars
             PROVE  Positions' /\ Apart' /\ Conserved'
  OBVIOUS
<1>1. Positions' /\ Movement
  BY Moves
<1>2. Faultless' => Faultless
  BY FaultsStay
<1>3. CASE Unmoved
  <2>1. Apart'
    BY <1>3 DEF Unmoved, Apart
  <2>2. Queued' \cup Travelling' \cup Had' \cup cleared' \subseteq ToSet(accepted')
    BY <1>3 DEF Unmoved, Conserved
  <2>3. ASSUME Faultless' PROVE ToSet(accepted') \subseteq Queued' \cup Travelling' \cup Had' \cup cleared'
    BY <1>2, <1>3, <2>3 DEF Unmoved, Conserved
  <2> QED
    BY <1>1, <2>1, <2>2, <2>3 DEF Conserved
<1>4. CASE Perished
  <2>1. Apart'
    BY <1>4 DEF Perished, Apart
  <2>2. Queued' \cup Travelling' \cup Had' \cup cleared' \subseteq ToSet(accepted')
    BY <1>4 DEF Perished, Conserved
  <2> QED
    BY <1>1, <1>4, <2>1, <2>2 DEF Perished, Conserved
<1>5. ASSUME NEW p \in Payloads, Enters(p) PROVE Apart' /\ Conserved'
  BY <1>2, <1>5 DEF Enters, Apart, Conserved
<1>6. ASSUME NEW p \in Payloads, Departs(p) PROVE Apart' /\ Conserved'
  BY <1>2, <1>6 DEF Departs, Apart, Conserved
<1>7. ASSUME NEW p \in Payloads, Arrives(p) PROVE Apart' /\ Conserved'
  BY <1>2, <1>7 DEF Arrives, Apart, Conserved
<1>8. ASSUME NEW S, Removed(S) PROVE Apart' /\ Conserved'
  BY <1>2, <1>8 DEF Removed, Apart, Conserved
<1> QED
  BY <1>1, <1>3, <1>4, <1>5, <1>6, <1>7, <1>8 DEF Movement

-----------------------------------------------------------------------------
(* The theorems *)

LEMMA StepInductive == Inductive /\ [Next]_vars => Inductive'
BY StepTyped, ConnShapeNext, LockstepNext, MessagesAnswerDequeuesNext, StoredIsLastNext,
   ReadsAreCurrentNext, PendingAreNewNext, ConservedNext
   DEF Inductive

LEMMA InductiveHolds == Spec => []Inductive
<1>1. Init => Inductive
  BY InitInductive
<1>2. Inductive /\ [Next]_vars => Inductive'
  BY StepInductive
<1> QED
  BY <1>1, <1>2, PTL DEF Spec

\* The size of a set that cannot have two elements.
LEMMA AtMostOne ==
  ASSUME NEW S, \A x, y \in S : x = y
  PROVE  Cardinality(S) = (IF S = {} THEN 0 ELSE 1)
<1>1. CASE S = {}
  BY <1>1, FS_EmptySet
<1>2. CASE S # {}
  <2>1. PICK x : S = {x}
    BY <1>2
  <2> QED
    BY <1>2, <2>1, FS_Singleton
<1> QED
  BY <1>1, <1>2

LEMMA PlacesCounted == Inductive => ExactlyOnce
<1> SUFFICES ASSUME Inductive, NEW p \in Payloads
             PROVE  /\ Cardinality(Places(p)) <= IF p \in ToSet(accepted) THEN 1 ELSE 0
                    /\ p \in ToSet(accepted) /\ Faultless => Places(p) # {}
  BY DEF ExactlyOnce
<1> DEFINE Q == UNION {{"queue"} \X {q} \X At(queues[q], p) : q \in QueueNames}
           A == UNION {{"answer"} \X {k} \X AnswersWith(k, p) : k \in Conns}
           R == UNION {{"received"} \X {k} \X At(received[k], p) : k \in Conns}
           C == {w \in {"cleared"} : p \in cleared}
<1>1. Places(p) = Q \cup A \cup R \cup C
  BY DEF Places
<1>2. /\ \A x \in Q : \E q \in QueueNames : \E i \in DOMAIN queues[q] :
           queues[q][i] = p /\ x = <<"queue", q, i>>
      /\ \A x \in A : \E k \in Conns : \E i \in DOMAIN responses[k] :
           Carries(k, i, p) /\ x = <<"answer", k, i>>
      /\ \A x \in R : \E k \in Conns : \E i \in DOMAIN received[k] :
           received[k][i] = p /\ x = <<"received", k, i>>
      /\ \A x \in C : x = "cleared"
  BY DEF At, AnswersWith, Carries
<1>3. /\ DOMAIN queues = QueueNames /\ DOMAIN received = Conns
  BY DEF Inductive, TypeOK
<1>4. /\ Q # {} <=> p \in Queued
      /\ A # {} <=> p \in Travelling
      /\ R # {} <=> p \in Had
      /\ C # {} <=> p \in cleared
  <2>1. ASSUME p \in Queued PROVE Q # {}
    <3>1. PICK q \in QueueNames : \E i \in DOMAIN queues[q] : queues[q][i] = p
      BY <1>3, <2>1 DEF Queued, Members
    <3>2. PICK i \in DOMAIN queues[q] : queues[q][i] = p
      BY <3>1
    <3>3. <<"queue", q, i>> \in {"queue"} \X {q} \X At(queues[q], p)
      BY <3>2 DEF At
    <3> QED
      BY <3>3
  <2>2. ASSUME p \in Travelling PROVE A # {}
    <3>1. PICK k \in Conns : \E i \in DOMAIN responses[k] : Carries(k, i, p)
      BY <2>2 DEF Travelling
    <3>2. PICK i \in DOMAIN responses[k] : Carries(k, i, p)
      BY <3>1
    <3>3. <<"answer", k, i>> \in {"answer"} \X {k} \X AnswersWith(k, p)
      BY <3>2 DEF AnswersWith, Carries
    <3> QED
      BY <3>3
  <2>3. ASSUME p \in Had PROVE R # {}
    <3>1. PICK k \in Conns : \E i \in DOMAIN received[k] : received[k][i] = p
      BY <1>3, <2>3 DEF Had, Members
    <3>2. PICK i \in DOMAIN received[k] : received[k][i] = p
      BY <3>1
    <3>3. <<"received", k, i>> \in {"received"} \X {k} \X At(received[k], p)
      BY <3>2 DEF At
    <3> QED
      BY <3>3
  <2>4. Q # {} => p \in Queued
    BY <1>2, <1>3 DEF Queued, Members
  <2>5. A # {} => p \in Travelling
    BY <1>2 DEF Travelling
  <2>6. R # {} => p \in Had
    BY <1>2, <1>3 DEF Had, Members
  <2>7. C # {} <=> p \in cleared
    OBVIOUS
  <2> QED
    BY <2>1, <2>2, <2>3, <2>4, <2>5, <2>6, <2>7
<1>5. \A x, y \in Q : x = y
  BY <1>2, <1>3 DEF Inductive, Positions, Once
<1>6. \A x, y \in A : x = y
  BY <1>2 DEF Inductive, Positions, OneAnswer
<1>7. \A x, y \in R : x = y
  BY <1>2, <1>3 DEF Inductive, Positions, Once
<1>8. \A x, y \in C : x = y
  BY <1>2
<1> HIDE DEF Q, A, R, C
<1>9. \A x, y \in Places(p) : x = y
  BY <1>1, <1>4, <1>5, <1>6, <1>7, <1>8 DEF Inductive, Apart
<1>10. Places(p) # {} <=> p \in Queued \cup Travelling \cup Had \cup cleared
  BY <1>1, <1>4
<1>11. Cardinality(Places(p)) = (IF Places(p) = {} THEN 0 ELSE 1)
  BY <1>9, AtMostOne
<1> QED
  BY <1>10, <1>11 DEF Inductive, Conserved

\* The server's fields, what lies on the connections, and the clients' calls have
\* the shapes the code gives them.
THEOREM TypeCorrect == Spec => []TypeOK
<1>1. Inductive => TypeOK
  BY DEF Inductive
<1> QED
  BY <1>1, InductiveHolds, PTL

\* A message that a queue accepted is in one place only, and in one as long as no
\* client drops its connection or cancels a call and the broker stays.
THEOREM EachMessageOnce == Spec => []ExactlyOnce
<1>1. Inductive => ExactlyOnce
  BY PlacesCounted
<1> QED
  BY <1>1, InductiveHolds, PTL

\* On a connection without a cancelled call, an answer is read by the call whose
\* request it answers, though neither has a number.
THEOREM OwnAnswers == Spec => []AnswersOwnRequest
<1>1. Inductive => AnswersOwnRequest
  BY DEF Inductive, Lockstep, AnswersOwnRequest
<1> QED
  BY <1>1, InductiveHolds, PTL

\* get_key returns a value that was current at some time between its request and its
\* answer.
THEOREM CurrentReads == Spec => []ReadsAreCurrent
<1>1. Inductive => ReadsAreCurrent
  BY DEF Inductive
<1> QED
  BY <1>1, InductiveHolds, PTL
=============================================================================
