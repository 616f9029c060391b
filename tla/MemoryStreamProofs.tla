------------------------- MODULE MemoryStreamProofs -------------------------
(***************************************************************************)
(* The in-memory stream calls a handler maxRetries + 1 times at most per    *)
(* message, keeps its queues within their sizes, and loses, doubles and     *)
(* overtakes nothing, for any number of messages, groups and workers and    *)
(* queues of any size.                                                      *)
(***************************************************************************)
EXTENDS MemoryStream, FiniteSetTheorems, TLAPS

-----------------------------------------------------------------------------
(* Sequences *)

\* What Len, Append, Head and Tail return.
LEMMA LenProperties ==
    ASSUME NEW S, NEW s \in Seq(S)
    PROVE  Len(s) \in Nat /\ s \in [1..Len(s) -> S] /\ DOMAIN s = 1..Len(s)
  OBVIOUS

LEMMA EmptySeq ==
    ASSUME NEW S
    PROVE  <<>> \in Seq(S) /\ Len(<<>>) = 0 /\ \A s \in Seq(S) : s # <<>> => Len(s) \in Nat \ {0}
  OBVIOUS

LEMMA AppendProperties ==
    ASSUME NEW S, NEW s \in Seq(S), NEW e \in S
    PROVE  /\ Append(s, e) \in Seq(S) /\ Append(s, e) # <<>> /\ Len(Append(s, e)) = Len(s) + 1
           /\ Append(s, e)[Len(s) + 1] = e /\ \A i \in 1..Len(s) : Append(s, e)[i] = s[i]
  OBVIOUS

LEMMA HeadTailProperties ==
    ASSUME NEW S, NEW s \in Seq(S), s # <<>>
    PROVE  /\ Head(s) \in S /\ Tail(s) \in Seq(S) /\ Len(Tail(s)) = Len(s) - 1
           /\ \A i \in 1..Len(Tail(s)) : Tail(s)[i] = s[i + 1]
  OBVIOUS

-----------------------------------------------------------------------------
(* Types *)

\* The variables as functions.
Types ==
    /\ sent \in SUBSET Messages
    /\ queues \in [Groups -> Seq(Messages) \cup {None}]
    /\ state \in [Groups -> {"new", "started", "canceled", "closed"}]
    /\ reader \in [Groups -> Messages \cup {"off", "on", "done"}]
    /\ messageQueue \in [Groups -> Seq(memoryMessage)]
    /\ worker \in [Groups -> [Workers -> Worker]]
    /\ requeue \in [Groups -> SUBSET memoryMessage]
    /\ accepted \in [Groups -> Seq(Messages)]
    /\ started \in [Groups -> Seq(Messages)]
    /\ attempts \in [Groups -> [Messages -> Nat]]
    /\ outcome \in [Groups -> [Messages -> {"none", "ok", "failed"}]]

\* The bounds of the queues; a group whose reader has not run has no queue, any other
\* has one; a busy worker has a message.
Bounds ==
    \A g \in Groups :
        /\ Len(messageQueue[g]) <= queueCapacity
        /\ reader[g] = "off" => queues[g] = None
        /\ reader[g] # "off" => queues[g] \in Seq(Messages) /\ Len(queues[g]) <= queueSize
        /\ \A w \in Workers : Busy(g, w) => worker[g][w].m \in memoryMessage

LEMMA InitTypes == Init => Types /\ Bounds
<1> SUFFICES ASSUME Init PROVE Types /\ Bounds
  BY Zenon
<1>1. At("off") \in Worker
  BY Zenon DEF At, Worker
<1>2. /\ sent = {} /\ queues = [g \in Groups |-> None] /\ reader = [g \in Groups |-> "off"]
      /\ messageQueue = [g \in Groups |-> <<>>]
      /\ worker = [g \in Groups |-> [w \in Workers |-> At("off")]]
  BY Zenon DEF Init
<1>3. \A g \in Groups, w \in Workers : worker[g][w].pc = "off"
  BY <1>2, Zenon DEF At
<1>4. Types
  BY <1>1 DEF Init, Types
<1>5. Bounds
  BY <1>2, <1>3, StreamAssumption DEF Bounds, Busy
<1> QED BY <1>4, <1>5, Zenon

\* What a step does to the variables of one group.
OfGroup(g) ==
    <<queues[g], state[g], reader[g], messageQueue[g], worker[g], requeue[g], accepted[g],
      started[g], attempts[g], outcome[g]>>

\* A step of one consumer leaves the others alone.
StepOf(g) ==
    \/ Start(g) \/ ReaderStep(g) \/ Requeue(g) \/ ShutdownStep(g)
    \/ \E w \in Workers : WorkerStep(g, w) \/ retryPostTimeout(g, w)

LEMMA OthersUnchanged ==
    ASSUME Types, NEW g \in Groups, StepOf(g), NEW h \in Groups, h # g
    PROVE  UNCHANGED OfGroup(h) /\ sent' = sent
<1> USE DEF Types, OfGroup, broker, history
<1>1. CASE Start(g)
  BY <1>1, Zenon DEF Start
<1>2. CASE ReaderStep(g)
  BY <1>2, Zenon DEF ReaderStep, messages, readerTakes, readerPuts
<1>3. CASE Requeue(g)
  BY <1>3, Zenon DEF Requeue, requeueMessage
<1>4. CASE ShutdownStep(g)
  BY <1>4, Zenon DEF ShutdownStep, Cancel, readerDone, Close, workerDone
<1>5. ASSUME NEW w \in Workers, WorkerStep(g, w) PROVE UNCHANGED OfGroup(h) /\ sent' = sent
  BY <1>5 DEF WorkerStep, consume, processMessage
<1>6. ASSUME NEW w \in Workers, retryPostTimeout(g, w) PROVE UNCHANGED OfGroup(h) /\ sent' = sent
  BY <1>6, Zenon DEF retryPostTimeout
<1> QED BY <1>1, <1>2, <1>3, <1>4, <1>5, <1>6, Zenon DEF StepOf

LEMMA SendTypes ==
    ASSUME Types, Bounds, NEW m \in Messages, Send(m)
    PROVE  Types' /\ Bounds'
<1>1. /\ sent' = sent \cup {m}
      /\ queues' = [g \in Groups |-> IF HasRoom(g) THEN Append(queues[g], m) ELSE queues[g]]
      /\ accepted' = [g \in Groups |-> IF HasRoom(g) THEN Append(accepted[g], m) ELSE accepted[g]]
      /\ UNCHANGED <<state, reader, messageQueue, worker, requeue, started, attempts, outcome>>
  BY Zenon DEF Send, enqueue, history
<1>2. \A g \in Groups : HasRoom(g) => /\ queues[g] \in Seq(Messages) /\ reader[g] # "off"
                                      /\ Len(queues[g]) < queueSize
  BY Zenon DEF HasRoom, Types, Bounds
<1>3. \A g \in Groups : HasRoom(g) =>
         /\ Append(queues[g], m) \in Seq(Messages)
         /\ Len(Append(queues[g], m)) <= queueSize
  BY <1>2, AppendProperties, StreamAssumption
<1>4. \A g \in Groups : Append(accepted[g], m) \in Seq(Messages)
  BY AppendProperties, Zenon DEF Types
<1>5. Types'
  BY <1>1, <1>3, <1>4, Zenon DEF Types
<1>6. Bounds'
  BY <1>1, <1>2, <1>3, Zenon DEF Bounds, Busy
<1> QED BY <1>5, <1>6, Zenon

LEMMA ReaderTypes ==
    ASSUME Types, Bounds, NEW g \in Groups, ReaderStep(g)
    PROVE  Types' /\ Bounds'
<1>1. CASE messages(g)
  <2>1. <<>> \in Seq(Messages) /\ Len(<<>>) = 0
    OBVIOUS
  <2> QED BY <1>1, <2>1, StreamAssumption DEF messages, Types, Bounds, Busy, history
<1>2. CASE readerTakes(g)
  <2>1. queues[g] \in Seq(Messages) /\ queues[g] # <<>> /\ Len(queues[g]) \in Nat
    BY <1>2 DEF readerTakes, Bounds
  <2>2. /\ Head(queues[g]) \in Messages /\ Tail(queues[g]) \in Seq(Messages)
        /\ Len(Tail(queues[g])) <= Len(queues[g])
    BY <2>1, HeadTailProperties
  <2>3. Len(Tail(queues[g])) <= queueSize
    BY <1>2, <2>1, <2>2, HeadTailProperties, StreamAssumption DEF readerTakes, Bounds
  <2> QED BY <1>2, <2>1, <2>2, <2>3, StreamAssumption, Zenon DEF readerTakes, Types, Bounds, Busy, history
<1>3. CASE readerPuts(g)
  <2>1. [id |-> reader[g], retries |-> 0] \in memoryMessage
    BY <1>3, Zenon DEF readerPuts, memoryMessage
  <2> PICK q : q = Append(messageQueue[g], [id |-> reader[g], retries |-> 0])
    BY Zenon
  <2>2. q \in Seq(memoryMessage) /\ Len(q) = Len(messageQueue[g]) + 1
    BY <2>1, AppendProperties DEF Types
  <2>3. Len(q) <= queueCapacity
    BY <1>3, <2>2, StreamAssumption, LenProperties DEF readerPuts, Types
  <2>4. messageQueue' = [messageQueue EXCEPT ![g] = q] /\ reader[g] # "off"
    BY <1>3, StreamAssumption, Zenon DEF readerPuts
  <2> QED BY <1>3, <2>2, <2>3, <2>4 DEF readerPuts, Types, Bounds, Busy, history, broker
<1> QED BY <1>1, <1>2, <1>3, Zenon DEF ReaderStep

LEMMA WorkerTypes ==
    ASSUME Types, Bounds, NEW g \in Groups, NEW w \in Workers, WorkerStep(g, w)
    PROVE  Types' /\ Bounds'
<1>1. CASE consume(g, w)
  <2> PICK q \in Seq(memoryMessage) : q = messageQueue[g]
    BY Zenon DEF Types
  <2> PICK m : m = Head(q)
    BY Zenon
  <2>1. q # <<>> /\ Len(q) \in Nat /\ Len(q) <= queueCapacity
    BY <1>1 DEF consume, Bounds
  <2>2. m \in memoryMessage /\ Tail(q) \in Seq(memoryMessage) /\ Len(Tail(q)) = Len(q) - 1
    BY <2>1, HeadTailProperties, Zenon
  <2>3. m.id \in Messages /\ m.retries \in Nat
    BY <2>2, Zenon DEF memoryMessage
  <2>4. Len(Tail(q)) <= queueCapacity
    BY <2>1, <2>2, StreamAssumption
  <2>5. [pc |-> "busy", m |-> m, timer |-> TRUE] \in Worker
    BY <2>2, Zenon DEF Worker
  <2>6. /\ worker' = [worker EXCEPT ![g][w] = [pc |-> "busy", m |-> m, timer |-> TRUE]]
        /\ attempts' = [attempts EXCEPT ![g][m.id] = @ + 1]
        /\ started' = [started EXCEPT ![g] = IF m.retries = 0 THEN Append(@, m.id) ELSE @]
        /\ messageQueue' = [messageQueue EXCEPT ![g] = Tail(q)]
        /\ UNCHANGED <<sent, queues, accepted, state, reader, requeue, outcome>>
    BY <1>1, Zenon DEF consume, broker
  <2>7. Append(started[g], m.id) \in Seq(Messages)
    BY <2>3, AppendProperties, Zenon DEF Types
  <2>8. worker' \in [Groups -> [Workers -> Worker]]
    BY <2>5, <2>6, Zenon DEF Types
  <2>9. attempts' \in [Groups -> [Messages -> Nat]] /\ started' \in [Groups -> Seq(Messages)]
    <3>1. attempts \in [Groups -> [Messages -> Nat]] /\ started \in [Groups -> Seq(Messages)]
      BY Zenon DEF Types
    <3> QED BY ONLY <2>3, <2>6, <2>7, <3>1, g \in Groups
  <2>10. Types'
    BY <2>2, <2>6, <2>8, <2>9, Zenon DEF Types
  <2>11. \A h \in Groups, v \in Workers : Busy(h, v)' => worker'[h][v].m \in memoryMessage
    BY <2>2, <2>6, Zenon DEF Bounds, Busy, Types
  <2>12. Bounds'
    BY <2>4, <2>6, <2>11, Zenon DEF Bounds, Types
  <2> QED BY <2>10, <2>12, Zenon
<1>2. ASSUME NEW result \in {"ok", "failed"}, processMessage(g, w, result) PROVE Types' /\ Bounds'
  <2>1. worker[g][w].m.id \in Messages
    BY <1>2, Zenon DEF processMessage, Bounds, memoryMessage
  <2>2. At("idle") \in Worker /\ At("idle").pc = "idle"
    BY Zenon DEF At, Worker
  <2>3. outcome' \in [Groups -> [Messages -> {"none", "ok", "failed"}]]
    BY <1>2, <2>1, Zenon DEF processMessage, Types
  <2>4. worker' = [worker EXCEPT ![g][w] = At("idle")]
    BY <1>2, Zenon DEF processMessage
  <2>5. worker' \in [Groups -> [Workers -> Worker]]
    BY <2>2, <2>4, Zenon DEF Types
  <2>6. \A h \in Groups, v \in Workers : Busy(h, v)' => worker'[h][v].m \in memoryMessage
    BY <2>2, <2>4, Zenon DEF Bounds, Busy, Types
  <2>7. UNCHANGED <<sent, queues, accepted, state, reader, messageQueue, requeue, started, attempts>>
    BY <1>2, Zenon DEF processMessage, broker
  <2> QED BY <2>3, <2>5, <2>6, <2>7, Zenon DEF Types, Bounds
<1> QED BY <1>1, <1>2, Zenon DEF WorkerStep

LEMMA RetryTypes ==
    ASSUME NEW m \in memoryMessage
    PROVE  retryMessage(m) \subseteq memoryMessage
  BY StreamAssumption DEF retryMessage, memoryMessage

LEMMA RetryOrder ==
    ASSUME NEW x \in memoryMessage, NEW y \in retryMessage(x)
    PROVE  /\ y.id = x.id /\ y.retries = x.retries + 1 /\ y.retries # 0
           /\ x.retries < maxRetries /\ y \in memoryMessage
  BY StreamAssumption DEF retryMessage, memoryMessage

LEMMA OtherTypes ==
    ASSUME Types, Bounds, NEW g \in Groups,
           \/ Start(g) \/ Requeue(g) \/ ShutdownStep(g)
           \/ \E w \in Workers : retryPostTimeout(g, w)
    PROVE  Types' /\ Bounds'
<1>0. \A pc \in {"off", "idle", "busy", "done"} : At(pc) \in Worker /\ At(pc).pc = pc
  BY Zenon DEF At, Worker
<1>1. CASE Start(g)
  <2>1. worker' = [worker EXCEPT ![g] = [w \in Workers |-> At("idle")]]
    BY <1>1, Zenon DEF Start
  <2>2. worker' \in [Groups -> [Workers -> Worker]]
    BY <1>0, <2>1, Zenon DEF Types
  <2>3. \A h \in Groups, v \in Workers : Busy(h, v)' => worker'[h][v].m \in memoryMessage
    BY <1>0, <2>1, Zenon DEF Bounds, Busy, Types
  <2> QED BY <1>1, <2>2, <2>3, Zenon DEF Start, Types, Bounds, broker, history
<1>2. CASE Requeue(g)
  <2> PICK m \in requeue[g] : requeueMessage(g, m)
    BY <1>2, Zenon DEF Requeue
  <2> PICK q : q = Append(messageQueue[g], m)
    BY Zenon
  <2>1. m \in memoryMessage
    BY Zenon DEF Types
  <2>2. q \in Seq(memoryMessage) /\ Len(q) = Len(messageQueue[g]) + 1
    BY <2>1, AppendProperties DEF Types
  <2>3. Len(q) <= queueCapacity
    BY <2>2, StreamAssumption, LenProperties DEF requeueMessage, Types
  <2>4. messageQueue' = [messageQueue EXCEPT ![g] = q]
    BY Zenon DEF requeueMessage
  <2> QED BY <2>2, <2>3, <2>4 DEF requeueMessage, Types, Bounds, Busy, history, broker
<1>3. CASE Cancel(g) \/ Close(g)
  BY <1>3, Zenon DEF Cancel, Close, Types, Bounds, Busy, history, broker
<1>4. CASE readerDone(g)
  BY <1>4, StreamAssumption, Zenon DEF readerDone, Types, Bounds, Busy, history, broker
<1>5. ASSUME NEW w \in Workers, workerDone(g, w) PROVE Types' /\ Bounds'
  <2>1. worker' = [worker EXCEPT ![g][w] = At("done")]
    BY <1>5, Zenon DEF workerDone
  <2>2. worker' \in [Groups -> [Workers -> Worker]]
    BY <1>0, <2>1, Zenon DEF Types
  <2>3. \A h \in Groups, v \in Workers : Busy(h, v)' => worker'[h][v].m \in memoryMessage
    BY <1>0, <2>1, Zenon DEF Bounds, Busy, Types
  <2> QED BY <1>5, <2>2, <2>3, Zenon DEF workerDone, Types, Bounds, broker, history
<1>6. ASSUME NEW w \in Workers, retryPostTimeout(g, w) PROVE Types' /\ Bounds'
  <2>1. worker' = [worker EXCEPT ![g][w].timer = FALSE]
    BY <1>6, Zenon DEF retryPostTimeout
  <2>2. worker' \in [Groups -> [Workers -> Worker]]
    <3> PICK x : x = [worker[g][w] EXCEPT !.timer = FALSE]
      BY Zenon
    <3>1. worker[g][w] \in Worker
      BY Zenon DEF Types
    <3>2. x \in Worker
      BY <3>1, Zenon DEF Worker
    <3>3. worker' = [worker EXCEPT ![g] = [worker[g] EXCEPT ![w] = x]]
      BY <2>1, Zenon
    <3> QED BY <3>2, <3>3, Zenon DEF Types
  <2>3. \A h \in Groups, v \in Workers : Busy(h, v)' => worker'[h][v].m \in memoryMessage
    BY <2>1 DEF Bounds, Busy, Types, Worker
  <2>4. retryMessage(worker[g][w].m) \subseteq memoryMessage
    BY <1>6, RetryTypes, Zenon DEF retryPostTimeout, Bounds
  <2>5. requeue' \in [Groups -> SUBSET memoryMessage]
    BY <1>6, <2>4, Zenon DEF retryPostTimeout, Types
  <2> QED BY <1>6, <2>2, <2>3, <2>5, Zenon DEF retryPostTimeout, Types, Bounds, broker, history
<1> QED BY <1>1, <1>2, <1>3, <1>4, <1>5, <1>6, Zenon DEF ShutdownStep

LEMMA StepTypes == Types /\ Bounds /\ [Next]_vars => Types' /\ Bounds'
<1> SUFFICES ASSUME Types, Bounds, [Next]_vars PROVE Types' /\ Bounds'
  BY Zenon
<1>1. ASSUME NEW m \in Messages, Send(m) PROVE Types' /\ Bounds'
  BY <1>1, SendTypes, Zenon
<1>2. ASSUME NEW g \in Groups, StepOf(g) PROVE Types' /\ Bounds'
  BY <1>2, ReaderTypes, WorkerTypes, OtherTypes, Zenon DEF StepOf
<1>3. CASE UNCHANGED vars
  BY <1>3, Zenon DEF vars, Types, Bounds, Busy
<1> QED BY <1>1, <1>2, <1>3, Zenon DEF Next, StepOf

\* All variables keep their types, and the queues never hold more than their capacity.
THEOREM StreamTypes == Spec => []TypeOK
<1>1. Types /\ Bounds => TypeOK
  BY Zenon DEF Types, Bounds, TypeOK
<1> QED BY <1>1, InitTypes, StepTypes, PTL DEF Spec

-----------------------------------------------------------------------------
(* The number of attempts *)

\* The retry timer of the message of the worker runs.
Timed(g, w) == Busy(g, w) /\ worker[g][w].timer

\* A message is in one place at a time, at most once: the places of a group hold no two
\* messages with the same ID. A worker whose timer is over does not count.
Distinct(g) ==
    /\ reader[g] # "off" =>
          \A i, j \in 1..Len(queues[g]) : queues[g][i] = queues[g][j] => i = j
    /\ \A i, j \in 1..Len(messageQueue[g]) : messageQueue[g][i].id = messageQueue[g][j].id => i = j
    /\ \A x, y \in requeue[g] : x.id = y.id => x = y
    /\ \A v, w \in Workers : 
          Timed(g, v) /\ Timed(g, w) /\ worker[g][v].m.id = worker[g][w].m.id => v = w

Places == {"unsent", "broker", "reader", "inner", "requeue", "worker"}

\* p is the only place of m.
OnlyPlace(g, m, p) ==
    /\ m \notin sent => p = "unsent"
    /\ reader[g] # "off" => \A i \in 1..Len(queues[g]) : queues[g][i] = m => p = "broker"
    /\ reader[g] = m => p = "reader"
    /\ \A i \in 1..Len(messageQueue[g]) : messageQueue[g][i].id = m => p = "inner"
    /\ \A x \in requeue[g] : x.id = m => p = "requeue"
    /\ \A w \in Workers : Timed(g, w) /\ worker[g][w].m.id = m => p = "worker"

\* The retries of a message are the calls of its handler so far.
Counted(g, m) ==
    /\ m \notin sent => attempts[g][m] = 0
    /\ reader[g] # "off" => \A i \in 1..Len(queues[g]) : queues[g][i] = m => attempts[g][m] = 0
    /\ reader[g] = m => attempts[g][m] = 0
    /\ \A i \in 1..Len(messageQueue[g]) : messageQueue[g][i].id = m =>
          attempts[g][m] = messageQueue[g][i].retries /\ attempts[g][m] <= maxRetries
    /\ \A x \in requeue[g] : x.id = m => attempts[g][m] = x.retries /\ attempts[g][m] <= maxRetries
    /\ \A w \in Workers : Timed(g, w) /\ worker[g][w].m.id = m =>
          attempts[g][m] = worker[g][w].m.retries + 1
    /\ attempts[g][m] <= maxRetries + 1

Tokens(g) ==
    /\ Distinct(g)
    /\ \A m \in Messages : Counted(g, m) /\ \E p \in Places : OnlyPlace(g, m, p)

AllTokens == \A g \in Groups : Tokens(g)

LEMMA InitTokens == Init => AllTokens
<1> SUFFICES ASSUME Init, NEW g \in Groups PROVE Tokens(g)
  BY Zenon DEF AllTokens
<1>1. /\ sent = {} /\ reader[g] = "off" /\ messageQueue[g] = <<>> /\ requeue[g] = {}
      /\ attempts[g] = [m \in Messages |-> 0]
  BY Zenon DEF Init
<1>2. \A w \in Workers : ~Timed(g, w)
  BY Zenon DEF Init, Timed, Busy, At
<1>3. Len(messageQueue[g]) = 0
  BY <1>1
<1>4. Distinct(g)
  BY <1>1, <1>2, <1>3 DEF Distinct
<1>5. ASSUME NEW m \in Messages PROVE Counted(g, m) /\ OnlyPlace(g, m, "unsent")
  BY <1>1, <1>2, <1>3, StreamAssumption DEF Counted, OnlyPlace
<1> QED BY <1>4, <1>5, Zenon DEF Tokens, Places

\* A step that puts no message anywhere.
LEMMA TokensShrink ==
    ASSUME NEW g, Tokens(g), sent' = sent, attempts'[g] = attempts[g],
           messageQueue'[g] = messageQueue[g], requeue'[g] = requeue[g],
           \/ reader'[g] = reader[g] /\ queues'[g] = queues[g]
           \/ reader[g] = "on" /\ reader'[g] = "done" /\ queues'[g] = queues[g]
           \/ reader[g] = "off" /\ reader'[g] = "on" /\ queues'[g] = <<>>,
           \A w \in Workers : Timed(g, w)' => Timed(g, w) /\ worker'[g][w].m = worker[g][w].m
    PROVE  Tokens(g)'
<1>0. \/ reader'[g] = reader[g] /\ queues'[g] = queues[g]
      \/ reader[g] = "on" /\ reader'[g] = "done" /\ queues'[g] = queues[g]
      \/ reader[g] = "off" /\ reader'[g] = "on" /\ queues'[g] = <<>>
  BY Zenon
<1>1. \/ reader[g] # "off" /\ queues'[g] = queues[g]
      \/ reader'[g] = "off"
      \/ Len(queues'[g]) = 0
  BY ONLY <1>0
<1>2. reader'[g] \in Messages => reader'[g] = reader[g]
  <2>1. "on" \notin Messages /\ "done" \notin Messages
    BY ONLY StreamAssumption, Zenon
  <2> QED BY ONLY <1>0, <2>1, Zenon
<1>3. Distinct(g)'
  <2>1. Distinct(g)
    BY Zenon DEF Tokens
  <2> QED BY <1>1, <2>1 DEF Distinct
<1>4. ASSUME NEW m \in Messages PROVE Counted(g, m)'
  <2>1. Counted(g, m)
    BY Zenon DEF Tokens
  <2> QED BY <1>1, <1>2, <2>1 DEF Counted
<1>5. ASSUME NEW m \in Messages, NEW p \in Places, OnlyPlace(g, m, p) PROVE OnlyPlace(g, m, p)'
  BY <1>1, <1>2, <1>5 DEF OnlyPlace
<1> QED BY <1>3, <1>4, <1>5, Zenon DEF Tokens

LEMMA SendTokens ==
    ASSUME Types, Bounds, NEW m0 \in Messages, Send(m0), NEW g \in Groups, Tokens(g)
    PROVE  Tokens(g)'
<1>1. /\ queues'[g] = IF HasRoom(g) THEN Append(queues[g], m0) ELSE queues[g]
      /\ m0 \notin sent /\ sent' = sent \cup {m0}
      /\ UNCHANGED <<reader, messageQueue, worker, requeue, attempts>>
  BY Zenon DEF Send, enqueue, history
<1>2. \A w \in Workers : Timed(g, w)' = Timed(g, w)
  BY <1>1, Zenon DEF Timed, Busy
<1>3. \E p \in Places : OnlyPlace(g, m0, p)
  BY Zenon DEF Tokens
<1>4. OnlyPlace(g, m0, "unsent")
  BY <1>1, <1>3, Zenon DEF OnlyPlace
<1>5. attempts[g][m0] = 0
  BY <1>1, Zenon DEF Tokens, Counted
<1>6. reader[g] # "off" => queues[g] \in Seq(Messages)
  BY Zenon DEF Bounds
<1>7. CASE HasRoom(g)
  <2>0. reader[g] # "off" /\ queues[g] \in Seq(Messages)
    BY <1>7, Zenon DEF HasRoom, Bounds
  <2> PICK b \in Seq(Messages) : b = queues[g]
    BY <2>0, Zenon
  <2> PICK c \in Seq(Messages) : c = Append(b, m0)
    BY AppendProperties, Zenon
  <2>1. /\ Len(b) \in Nat /\ Len(c) = Len(b) + 1 /\ c[Len(b) + 1] = m0
        /\ \A i \in 1..Len(b) : c[i] = b[i]
    BY AppendProperties, LenProperties
  <2>2. \A i \in 1..Len(c) : i = Len(b) + 1 \/ (i \in 1..Len(b) /\ c[i] = b[i])
    BY ONLY <2>1
  <2>3. queues'[g] = c
    BY <1>1, <1>7, Zenon
  <2>4. \A i \in 1..Len(b) : b[i] # m0
    BY <1>4, <2>0, Zenon DEF OnlyPlace
  <2>5. Distinct(g)'
    <3>1. \A i, j \in 1..Len(c) : c[i] = c[j] => i = j
      <4>1. \A i, j \in 1..Len(b) : b[i] = b[j] => i = j
        BY <2>0, Zenon DEF Tokens, Distinct
      <4> QED BY ONLY <2>1, <2>2, <2>4, <4>1, Zenon
    <3> QED BY <1>1, <1>2, <2>3, <3>1, Zenon DEF Tokens, Distinct
  <2>6. ASSUME NEW m \in Messages PROVE Counted(g, m)'
    <3>1. Counted(g, m)
      BY Zenon DEF Tokens
    <3>2. \A i \in 1..Len(c) : c[i] = m => attempts[g][m] = 0
      BY <1>5, <2>0, <2>1, <2>2, <3>1 DEF Counted
    <3> QED BY <1>1, <1>2, <2>3, <3>1, <3>2, Zenon DEF Counted
  <2>7. ASSUME NEW m \in Messages PROVE \E p \in Places : OnlyPlace(g, m, p)'
    <3>1. CASE m = m0
      <4>1. OnlyPlace(g, m, "broker")'
        BY <1>1, <1>2, <1>4, <3>1, Zenon DEF OnlyPlace
      <4> QED BY <4>1, Zenon DEF Places
    <3>2. CASE m # m0
      <4> PICK p \in Places : OnlyPlace(g, m, p)
        BY Zenon DEF Tokens
      <4>1. \A i \in 1..Len(c) : c[i] = m => p = "broker"
        BY <2>0, <2>1, <2>2, <3>2, Zenon DEF OnlyPlace
      <4>2. OnlyPlace(g, m, p)'
        BY <1>1, <1>2, <2>3, <3>2, <4>1, Zenon DEF OnlyPlace
      <4> QED BY <4>2, Zenon
    <3> QED BY <3>1, <3>2, Zenon
  <2> QED BY <2>5, <2>6, <2>7, Zenon DEF Tokens
<1>8. CASE ~HasRoom(g)
  <2>1. Distinct(g)'
    BY <1>1, <1>2, <1>8, Zenon DEF Tokens, Distinct
  <2>2. ASSUME NEW m \in Messages PROVE Counted(g, m)'
    BY <1>1, <1>2, <1>8 DEF Tokens, Counted
  <2>3. ASSUME NEW m \in Messages PROVE \E p \in Places : OnlyPlace(g, m, p)'
    <3> PICK p \in Places : OnlyPlace(g, m, p)
      BY Zenon DEF Tokens
    <3>1. OnlyPlace(g, m, p)'
      BY <1>1, <1>2, <1>8, Zenon DEF OnlyPlace
    <3> QED BY <3>1, Zenon
  <2> QED BY <2>1, <2>2, <2>3, Zenon DEF Tokens
<1> QED BY <1>7, <1>8, Zenon

LEMMA TakeTokens ==
    ASSUME Types, Bounds, NEW g \in Groups, readerTakes(g), Tokens(g)
    PROVE  Tokens(g)'
<1>1. queues[g] \in Seq(Messages) /\ queues[g] # <<>> /\ reader[g] = "on" /\ reader[g] # "off"
  BY Zenon DEF readerTakes, Bounds
<1> PICK b \in Seq(Messages) : b = queues[g]
  BY <1>1, Zenon
<1> PICK c \in Seq(Messages) : c = Tail(b)
  BY <1>1, HeadTailProperties, Zenon
<1> PICK m0 \in Messages : m0 = Head(b)
  BY <1>1, HeadTailProperties, Zenon
<1>2. /\ Len(b) \in Nat \ {0} /\ Len(c) = Len(b) - 1 /\ m0 = b[1]
      /\ \A i \in 1..Len(c) : c[i] = b[i + 1]
  BY <1>1, HeadTailProperties, LenProperties, EmptySeq
<1>3. \A i \in 1..Len(c) : i + 1 \in 1..Len(b) /\ i + 1 # 1
  BY ONLY <1>2
<1>4. /\ queues'[g] = c /\ reader'[g] = m0
      /\ UNCHANGED <<sent, messageQueue, worker, requeue, attempts>>
  BY Zenon DEF readerTakes, history, Types
<1>5. \A w \in Workers : Timed(g, w)' = Timed(g, w)
  BY <1>4, Zenon DEF Timed, Busy
<1>6. \A i, j \in 1..Len(b) : b[i] = b[j] => i = j
  BY <1>1, Zenon DEF Tokens, Distinct
<1>7. \A i, j \in 1..Len(c) : c[i] = c[j] => i = j
  <2> SUFFICES ASSUME NEW i \in 1..Len(c), NEW j \in 1..Len(c), c[i] = c[j] PROVE i = j
    BY Zenon
  <2>1. i + 1 = j + 1
    BY ONLY <1>2, <1>3, <1>6, i \in 1..Len(c), j \in 1..Len(c), c[i] = c[j], Zenon
  <2> QED BY ONLY <2>1, i \in 1..Len(c), j \in 1..Len(c), <1>2
<1>8. 1 \in 1..Len(b)
  BY ONLY <1>2
<1>9. \A i \in 1..Len(c) : c[i] # m0
  BY ONLY <1>2, <1>3, <1>6, <1>8, Zenon
<1>10. Distinct(g)'
  BY <1>4, <1>5, <1>7, Zenon DEF Tokens, Distinct
<1>11. ASSUME NEW m \in Messages PROVE Counted(g, m)'
  <2>1. Counted(g, m)
    BY Zenon DEF Tokens
  <2>2. \A i \in 1..Len(b) : b[i] = m => attempts[g][m] = 0
    BY <1>1, <2>1, Zenon DEF Counted
  <2>3. m0 = m => attempts[g][m] = 0
    BY ONLY <1>2, <1>8, <2>2, Zenon
  <2>4. \A i \in 1..Len(c) : c[i] = m => attempts[g][m] = 0
    BY ONLY <1>2, <1>3, <2>2, Zenon
  <2> QED BY <1>4, <1>5, <2>1, <2>3, <2>4, Zenon DEF Counted
<1>12. ASSUME NEW m \in Messages PROVE \E p \in Places : OnlyPlace(g, m, p)'
  <2> PICK p \in Places : OnlyPlace(g, m, p)
    BY Zenon DEF Tokens
  <2>1. \A i \in 1..Len(b) : b[i] = m => p = "broker"
    BY <1>1, Zenon DEF OnlyPlace
  <2>2. CASE m = m0
    <3>1. p = "broker"
      BY ONLY <1>2, <1>8, <2>1, <2>2, Zenon
    <3>2. OnlyPlace(g, m, "reader")'
      BY <1>4, <1>5, <1>9, <2>2, <3>1, Zenon DEF OnlyPlace
    <3> QED BY <3>2, Zenon DEF Places
  <2>3. CASE m # m0
    <3>1. \A i \in 1..Len(c) : c[i] = m => p = "broker"
      BY ONLY <1>2, <1>3, <2>1, Zenon
    <3>2. OnlyPlace(g, m, p)'
      BY <1>4, <1>5, <2>3, <3>1, Zenon DEF OnlyPlace
    <3> QED BY <3>2, Zenon
  <2> QED BY <2>2, <2>3, Zenon
<1> QED BY <1>10, <1>11, <1>12, Zenon DEF Tokens

\* A message joins the inner queue from a place that loses it.
LEMMA JoinTokens ==
    ASSUME Types, Bounds, NEW g \in Groups, Tokens(g), NEW x \in memoryMessage,
           messageQueue'[g] = Append(messageQueue[g], x),
           UNCHANGED <<sent, queues, worker, attempts>>,
           requeue'[g] \subseteq requeue[g],
           reader'[g] = reader[g] \/ (reader[g] \in Messages /\ reader'[g] = "on"),
           attempts[g][x.id] = x.retries, x.retries <= maxRetries,
           NEW from \in {"reader", "requeue"}, OnlyPlace(g, x.id, from),
           reader'[g] # x.id, \A y \in requeue'[g] : y.id # x.id
    PROVE  Tokens(g)'
<1> PICK m0 \in Messages : m0 = x.id
  BY Zenon DEF memoryMessage
<1> PICK q \in Seq(memoryMessage) : q = messageQueue[g]
  BY Zenon DEF Types
<1> PICK r \in Seq(memoryMessage) : r = Append(q, x)
  BY ONLY AppendProperties, q \in Seq(memoryMessage), x \in memoryMessage, Zenon
<1>1. /\ Len(q) \in Nat /\ Len(r) = Len(q) + 1 /\ r[Len(q) + 1] = x
      /\ \A i \in 1..Len(q) : r[i] = q[i]
  BY ONLY AppendProperties, LenProperties, q \in Seq(memoryMessage), x \in memoryMessage,
          r = Append(q, x)
<1>2. \A i \in 1..Len(r) : i = Len(q) + 1 \/ (i \in 1..Len(q) /\ r[i] = q[i])
  BY ONLY <1>1
<1>3. messageQueue'[g] = r
  BY ONLY messageQueue'[g] = Append(messageQueue[g], x), q = messageQueue[g], r = Append(q, x), Zenon
<1>4. \A w \in Workers : Timed(g, w)' = Timed(g, w) /\ worker'[g][w] = worker[g][w]
  BY Zenon DEF Timed, Busy
<1>5. \A i \in 1..Len(q) : q[i].id # m0
  BY Zenon DEF OnlyPlace
<1>6. reader'[g] = reader[g] \/ (reader[g] # "off" /\ reader'[g] # "off" /\ reader'[g] \notin Messages)
  BY StreamAssumption, Zenon
<1>7. Distinct(g)'
  <2>1. \A i, j \in 1..Len(r) : r[i].id = r[j].id => i = j
    <3>1. \A i, j \in 1..Len(q) : q[i].id = q[j].id => i = j
      BY Zenon DEF Tokens, Distinct
    <3>2. r[Len(q) + 1].id = m0
      BY ONLY <1>1, m0 = x.id, Zenon
    <3> QED BY ONLY <1>2, <1>5, <3>1, <3>2, Zenon
  <2> QED BY <1>3, <1>4, <1>6, <2>1, Zenon DEF Tokens, Distinct
<1>8. ASSUME NEW m \in Messages PROVE Counted(g, m)'
  <2>1. Counted(g, m)
    BY Zenon DEF Tokens
  <2>2. \A i \in 1..Len(r) : r[i].id = m =>
           attempts[g][m] = r[i].retries /\ attempts[g][m] <= maxRetries
    <3>1. \A i \in 1..Len(q) : q[i].id = m =>
             attempts[g][m] = q[i].retries /\ attempts[g][m] <= maxRetries
      BY ONLY <2>1, q = messageQueue[g], Zenon DEF Counted
    <3>2. attempts[g][x.id] = x.retries /\ x.retries <= maxRetries
      BY Zenon
    <3> QED BY ONLY <1>1, <1>2, <3>1, <3>2, Zenon
  <2> QED BY <1>3, <1>4, <1>6, <2>1, <2>2, Zenon DEF Counted
<1>9. ASSUME NEW m \in Messages PROVE \E p \in Places : OnlyPlace(g, m, p)'
  <2>1. CASE m = m0
    <3>1. OnlyPlace(g, m, "inner")'
      BY <1>4, <1>6, <2>1, Zenon DEF OnlyPlace
    <3> QED BY <3>1, Zenon DEF Places
  <2>2. CASE m # m0
    <3> PICK p \in Places : OnlyPlace(g, m, p)
      BY Zenon DEF Tokens
    <3>1. \A i \in 1..Len(r) : r[i].id = m => p = "inner"
      <4>1. \A i \in 1..Len(q) : q[i].id = m => p = "inner"
        BY Zenon DEF OnlyPlace
      <4> QED BY ONLY <1>1, <1>2, <2>2, <4>1, m0 = x.id, Zenon
    <3>2. OnlyPlace(g, m, p)'
      BY <1>3, <1>4, <1>6, <2>2, <3>1, Zenon DEF OnlyPlace
    <3> QED BY <3>2, Zenon
  <2> QED BY <2>1, <2>2, Zenon
<1> QED BY <1>7, <1>8, <1>9, Zenon DEF Tokens

LEMMA PutTokens ==
    ASSUME Types, Bounds, NEW g \in Groups, readerPuts(g), Tokens(g)
    PROVE  Tokens(g)'
<1>1. reader[g] \in Messages
  BY Zenon DEF readerPuts
<1> PICK m0 \in Messages : m0 = reader[g]
  BY <1>1, Zenon
<1> PICK x : x = [id |-> m0, retries |-> 0]
  BY Zenon
<1>2. x \in memoryMessage /\ x.id = m0 /\ x.retries = 0
  BY Zenon DEF memoryMessage
<1>3. /\ messageQueue'[g] = Append(messageQueue[g], x) /\ reader'[g] = "on"
      /\ UNCHANGED <<sent, queues, worker, requeue, attempts>>
  BY Zenon DEF readerPuts, broker, history, Types
<1>4. OnlyPlace(g, m0, "reader")
  <2> PICK p \in Places : OnlyPlace(g, m0, p)
    BY Zenon DEF Tokens
  <2> QED BY Zenon DEF OnlyPlace
<1>5. attempts[g][m0] = 0
  BY Zenon DEF Tokens, Counted
<1>6. \A y \in requeue[g] : y.id # m0
  BY ONLY <1>4, Zenon DEF OnlyPlace
<1>7. reader'[g] # m0
  BY <1>3, StreamAssumption, Zenon
<1>8. reader'[g] = reader[g] \/ (reader[g] \in Messages /\ reader'[g] = "on")
  BY ONLY <1>1, <1>3, Zenon
<1>9. attempts[g][x.id] = x.retries /\ x.retries <= maxRetries
  BY ONLY <1>2, <1>5, StreamAssumption
<1>10. /\ requeue'[g] \subseteq requeue[g] /\ \A y \in requeue'[g] : y.id # x.id
       /\ OnlyPlace(g, x.id, "reader") /\ reader'[g] # x.id
  BY ONLY <1>2, <1>3, <1>4, <1>6, <1>7, Zenon
<1> QED BY <1>2, <1>3, <1>8, <1>9, <1>10, JoinTokens, Zenon

LEMMA RequeueTokens ==
    ASSUME Types, Bounds, NEW g \in Groups, Requeue(g), Tokens(g)
    PROVE  Tokens(g)'
<1> PICK x \in requeue[g] : requeueMessage(g, x)
  BY Zenon DEF Requeue
<1>1. x \in memoryMessage
  BY Zenon DEF Types
<1> PICK m0 \in Messages : m0 = x.id
  BY <1>1, Zenon DEF memoryMessage
<1>2. /\ messageQueue'[g] = Append(messageQueue[g], x) /\ requeue'[g] = requeue[g] \ {x}
      /\ UNCHANGED <<sent, queues, reader, worker, attempts>>
  BY Zenon DEF requeueMessage, broker, history, Types
<1>3. OnlyPlace(g, m0, "requeue")
  <2> PICK p \in Places : OnlyPlace(g, m0, p)
    BY Zenon DEF Tokens
  <2> QED BY Zenon DEF OnlyPlace
<1>4. attempts[g][m0] = x.retries /\ x.retries <= maxRetries
  BY Zenon DEF Tokens, Counted
<1>5. \A y \in requeue'[g] : y.id # m0
  BY <1>2, Zenon DEF Tokens, Distinct
<1>6. reader'[g] # m0
  BY <1>2, <1>3, Zenon DEF OnlyPlace
<1> QED BY <1>1, <1>2, <1>3, <1>4, <1>5, <1>6, JoinTokens, Zenon

LEMMA ConsumeTokens ==
    ASSUME Types, Bounds, NEW g \in Groups, NEW w \in Workers, consume(g, w), Tokens(g)
    PROVE  Tokens(g)'
<1> PICK q \in Seq(memoryMessage) : q = messageQueue[g]
  BY Zenon DEF Types
<1>1. q # <<>>
  BY Zenon DEF consume
<1> PICK r \in Seq(memoryMessage) : r = Tail(q)
  BY <1>1, HeadTailProperties, Zenon
<1> PICK x \in memoryMessage : x = Head(q)
  BY <1>1, HeadTailProperties, Zenon
<1> PICK m0 \in Messages : m0 = x.id
  BY Zenon DEF memoryMessage
<1>2. /\ Len(q) \in Nat \ {0} /\ Len(r) = Len(q) - 1 /\ x = q[1]
      /\ \A i \in 1..Len(r) : r[i] = q[i + 1]
  BY <1>1, HeadTailProperties, LenProperties, EmptySeq
<1>3. \A i \in 1..Len(r) : i + 1 \in 1..Len(q) /\ i + 1 # 1
  BY ONLY <1>2
<1>4. 1 \in 1..Len(q)
  BY ONLY <1>2
<1>5. /\ messageQueue'[g] = r
      /\ attempts'[g] = [attempts[g] EXCEPT ![m0] = @ + 1]
      /\ worker'[g] = [worker[g] EXCEPT ![w] = [pc |-> "busy", m |-> x, timer |-> TRUE]]
      /\ UNCHANGED <<sent, queues, reader, requeue>>
  BY Zenon DEF consume, broker, Types
<1>6. /\ worker'[g][w].m = x
      /\ \A v \in Workers : v # w => worker'[g][v] = worker[g][v] /\ Timed(g, v)' = Timed(g, v)
  <2>1. worker[g] \in [Workers -> Worker]
    BY Zenon DEF Types
  <2>2. worker'[g][w].m = x
    BY ONLY <1>5, <2>1, w \in Workers
  <2>3. \A v \in Workers : v # w => worker'[g][v] = worker[g][v]
    BY ONLY <1>5, <2>1, Zenon
  <2>4. \A v \in Workers : v # w => Timed(g, v)' = Timed(g, v)
    BY ONLY <2>3, Zenon DEF Timed, Busy
  <2> QED BY ONLY <2>2, <2>3, <2>4, Zenon
<1>7. \A i, j \in 1..Len(q) : q[i].id = q[j].id => i = j
  BY ONLY Tokens(g), q = messageQueue[g], Zenon DEF Tokens, Distinct
<1>8. \A i, j \in 1..Len(r) : r[i].id = r[j].id => i = j
  <2> SUFFICES ASSUME NEW i \in 1..Len(r), NEW j \in 1..Len(r), r[i].id = r[j].id PROVE i = j
    BY Zenon
  <2>1. i + 1 = j + 1
    <3>1. i + 1 \in 1..Len(q) /\ j + 1 \in 1..Len(q)
      BY ONLY <1>3, i \in 1..Len(r), j \in 1..Len(r), Zenon
    <3>2. r[i] = q[i + 1] /\ r[j] = q[j + 1]
      BY ONLY <1>2, i \in 1..Len(r), j \in 1..Len(r), Zenon
    <3> QED BY ONLY <1>7, <3>1, <3>2, r[i].id = r[j].id, Zenon
  <2> QED BY ONLY <2>1, i \in 1..Len(r), j \in 1..Len(r), <1>2
<1>9. \A i \in 1..Len(r) : r[i].id # m0
  BY ONLY <1>2, <1>3, <1>4, <1>7, m0 = x.id, Zenon
<1>10. OnlyPlace(g, m0, "inner")
  <2> PICK p \in Places : OnlyPlace(g, m0, p)
    BY Zenon DEF Tokens
  <2>1. p = "inner"
    BY ONLY <1>2, <1>4, OnlyPlace(g, m0, p), q = messageQueue[g], m0 = x.id, Zenon DEF OnlyPlace
  <2> QED BY <2>1, Zenon
<1>11. \A v \in Workers : Timed(g, v) => worker[g][v].m.id # m0
  BY ONLY <1>10, Zenon DEF OnlyPlace
<1>12. attempts[g][m0] = x.retries /\ x.retries <= maxRetries
  <2>1. Counted(g, m0)
    BY Zenon DEF Tokens
  <2> QED BY ONLY <1>2, <1>4, <2>1, q = messageQueue[g], m0 = x.id, Zenon DEF Counted
<1>13. x.retries \in Nat
  BY Zenon DEF memoryMessage
<1>14. attempts'[g][m0] = x.retries + 1 /\ \A m \in Messages : m # m0 => attempts'[g][m] = attempts[g][m]
  <2>1. attempts[g] \in [Messages -> Nat]
    BY Zenon DEF Types
  <2> QED BY ONLY <1>5, <1>12, <2>1, m0 \in Messages, m0 = x.id, Zenon
<1>15. Distinct(g)'
  <2>1. \A v, u \in Workers :
          Timed(g, v)' /\ Timed(g, u)' /\ worker'[g][v].m.id = worker'[g][u].m.id => v = u
    <3>1. \A v, u \in Workers :
            Timed(g, v) /\ Timed(g, u) /\ worker[g][v].m.id = worker[g][u].m.id => v = u
      BY ONLY Tokens(g), Zenon DEF Tokens, Distinct
    <3> QED BY ONLY <1>6, <1>11, <3>1, m0 = x.id, Zenon
  <2>2. UNCHANGED <<sent, queues, reader, requeue>> /\ messageQueue'[g] = r /\ Distinct(g)
    BY ONLY <1>5, Tokens(g), Zenon DEF Tokens
  <2> QED BY ONLY <1>8, <2>1, <2>2, Zenon DEF Distinct
<1>16. ASSUME NEW m \in Messages PROVE Counted(g, m)'
  <2>1. CASE m = m0
    <3>1. m \in sent /\ reader[g] # m
      BY <1>10, <2>1, Zenon DEF OnlyPlace
    <3>2. reader[g] # "off" => \A i \in 1..Len(queues[g]) : queues[g][i] # m
      BY <1>10, <2>1, Zenon DEF OnlyPlace
    <3>3. \A y \in requeue[g] : y.id # m
      BY <1>10, <2>1, Zenon DEF OnlyPlace
    <3>4. \A v \in Workers : Timed(g, v)' /\ worker'[g][v].m.id = m => v = w
      BY <1>6, <1>11, <2>1, Zenon
    <3>5. attempts'[g][m] <= maxRetries + 1
      BY ONLY <1>12, <1>13, <1>14, <2>1, StreamAssumption
    <3>6. worker'[g][w].m = x /\ attempts'[g][m] = x.retries + 1 /\ messageQueue'[g] = r
      BY ONLY <1>5, <1>6, <1>14, <2>1, Zenon
    <3>7. \A i \in 1..Len(r) : r[i].id # m
      BY ONLY <1>9, <2>1, Zenon
    <3>8. UNCHANGED <<sent, queues, reader, requeue>>
      BY ONLY <1>5, Zenon
    <3> QED BY ONLY <3>1, <3>2, <3>3, <3>4, <3>5, <3>6, <3>7, <3>8, Zenon DEF Counted
  <2>2. CASE m # m0
    <3>1. Counted(g, m) /\ attempts'[g][m] = attempts[g][m]
      <4>1. Counted(g, m)
        BY Zenon DEF Tokens
      <4> QED BY ONLY <1>14, <2>2, <4>1, m \in Messages, Zenon
    <3>2. \A i \in 1..Len(r) : r[i].id = m =>
             attempts[g][m] = r[i].retries /\ attempts[g][m] <= maxRetries
      <4>1. \A i \in 1..Len(q) : q[i].id = m =>
               attempts[g][m] = q[i].retries /\ attempts[g][m] <= maxRetries
        BY ONLY <3>1, q = messageQueue[g], Zenon DEF Counted
      <4>2. \A i \in 1..Len(r) : i + 1 \in 1..Len(q) /\ r[i] = q[i + 1]
        BY ONLY <1>2, <1>3, Zenon
      <4> QED BY ONLY <4>1, <4>2, Zenon
    <3>3. \A v \in Workers : Timed(g, v)' /\ worker'[g][v].m.id = m =>
             attempts[g][m] = worker'[g][v].m.retries + 1
      BY ONLY <1>6, <2>2, <3>1, m0 = x.id, Zenon DEF Counted
    <3>4. UNCHANGED <<sent, queues, reader, requeue>> /\ messageQueue'[g] = r
      BY ONLY <1>5, Zenon
    <3> QED BY ONLY <3>1, <3>2, <3>3, <3>4, Zenon DEF Counted
  <2> QED BY <2>1, <2>2, Zenon
<1>17. ASSUME NEW m \in Messages PROVE \E p \in Places : OnlyPlace(g, m, p)'
  <2>1. CASE m = m0
    <3>1. UNCHANGED <<sent, queues, reader, requeue>> /\ messageQueue'[g] = r
      BY ONLY <1>5, Zenon
    <3>2. OnlyPlace(g, m, "worker")'
      BY ONLY <1>9, <1>10, <2>1, <3>1, Zenon DEF OnlyPlace
    <3> QED BY <3>2, Zenon DEF Places
  <2>2. CASE m # m0
    <3> PICK p \in Places : OnlyPlace(g, m, p)
      BY Zenon DEF Tokens
    <3>1. \A i \in 1..Len(r) : r[i].id = m => p = "inner"
      BY ONLY <1>2, <1>3, OnlyPlace(g, m, p), q = messageQueue[g], Zenon DEF OnlyPlace
    <3>2. \A v \in Workers : Timed(g, v)' /\ worker'[g][v].m.id = m => p = "worker"
      BY ONLY <1>6, <2>2, OnlyPlace(g, m, p), m0 = x.id, Zenon DEF OnlyPlace
    <3>3. UNCHANGED <<sent, queues, reader, requeue>> /\ messageQueue'[g] = r
      BY ONLY <1>5, Zenon
    <3>4. OnlyPlace(g, m, p)'
      BY ONLY <3>1, <3>2, <3>3, OnlyPlace(g, m, p), Zenon DEF OnlyPlace
    <3> QED BY <3>4, Zenon
  <2> QED BY <2>1, <2>2, Zenon
<1> QED BY <1>15, <1>16, <1>17, Zenon DEF Tokens

LEMMA TimeoutTokens ==
    ASSUME Types, Bounds, NEW g \in Groups, NEW w \in Workers, retryPostTimeout(g, w), Tokens(g)
    PROVE  Tokens(g)'
<1>1. Timed(g, w) /\ worker[g][w].m \in memoryMessage
  BY Zenon DEF retryPostTimeout, Timed, Bounds
<1> PICK x \in memoryMessage : x = worker[g][w].m
  BY <1>1, Zenon
<1> PICK m0 \in Messages : m0 = x.id
  BY Zenon DEF memoryMessage
<1>2. /\ requeue'[g] = requeue[g] \cup retryMessage(x)
      /\ UNCHANGED <<sent, queues, reader, messageQueue, attempts>>
  BY Zenon DEF retryPostTimeout, broker, history, Types
<1>3. worker'[g] = [worker[g] EXCEPT ![w] = [worker[g][w] EXCEPT !.timer = FALSE]]
  BY Zenon DEF retryPostTimeout, Types
<1>4. ~Timed(g, w)'
  BY <1>3 DEF Types, Timed, Worker
<1>5. \A v \in Workers : v # w => worker'[g][v] = worker[g][v] /\ Timed(g, v)' = Timed(g, v)
  BY <1>3, Zenon DEF Types, Timed, Busy
<1>6. OnlyPlace(g, m0, "worker")
  <2> PICK p \in Places : OnlyPlace(g, m0, p)
    BY Zenon DEF Tokens
  <2> QED BY <1>1, Zenon DEF OnlyPlace
<1>7. attempts[g][m0] = x.retries + 1
  BY <1>1, Zenon DEF Tokens, Counted
<1>8. \A v \in Workers : Timed(g, v)' => v # w /\ Timed(g, v) /\ worker'[g][v] = worker[g][v]
  BY <1>4, <1>5, Zenon
<1>9. \A v \in Workers : Timed(g, v)' => worker'[g][v].m.id # m0
  BY <1>1, <1>8, Zenon DEF Tokens, Distinct
<1>10. \A y \in requeue'[g] : y \in requeue[g] \/ (y.id = m0 /\ y.retries = attempts[g][m0] /\ y.retries <= maxRetries)
  <2>1. \A y \in retryMessage(x) : y.id = m0 /\ y.retries = x.retries + 1 /\ y.retries <= maxRetries
    BY StreamAssumption, RetryOrder DEF memoryMessage
  <2> QED BY <1>2, <1>7, <2>1, Zenon
<1>11. \A y \in requeue[g] : y.id # m0
  BY <1>6, Zenon DEF OnlyPlace
<1>12. \A y, z \in retryMessage(x) : y = z
  BY Zenon DEF retryMessage
<1>13. Distinct(g)'
  <2>1. \A y, z \in requeue'[g] : y.id = z.id => y = z
    <3>1. \A y \in retryMessage(x) : y.id = m0
      BY RetryOrder, Zenon
    <3> QED BY <1>2, <1>11, <1>12, <3>1, Zenon DEF Tokens, Distinct
  <2>2. \A v, u \in Workers :
          Timed(g, v)' /\ Timed(g, u)' /\ worker'[g][v].m.id = worker'[g][u].m.id => v = u
    BY <1>8, Zenon DEF Tokens, Distinct
  <2> QED BY <1>2, <2>1, <2>2, Zenon DEF Tokens, Distinct
<1>14. ASSUME NEW m \in Messages PROVE Counted(g, m)'
  <2>1. Counted(g, m)
    BY Zenon DEF Tokens
  <2>2. \A y \in requeue'[g] : y.id = m => attempts[g][m] = y.retries /\ attempts[g][m] <= maxRetries
    BY <1>10, <2>1, Zenon DEF Counted
  <2>3. \A v \in Workers : Timed(g, v)' /\ worker'[g][v].m.id = m =>
           attempts[g][m] = worker'[g][v].m.retries + 1
    BY <1>8, <2>1, Zenon DEF Counted
  <2> QED BY <1>2, <2>1, <2>2, <2>3, Zenon DEF Counted
<1>15. ASSUME NEW m \in Messages PROVE \E p \in Places : OnlyPlace(g, m, p)'
  <2>1. CASE m = m0
    <3>1. OnlyPlace(g, m, "requeue")'
      BY <1>2, <1>6, <1>9, <2>1, Zenon DEF OnlyPlace
    <3> QED BY <3>1, Zenon DEF Places
  <2>2. CASE m # m0
    <3> PICK p \in Places : OnlyPlace(g, m, p)
      BY Zenon DEF Tokens
    <3>1. \A y \in requeue'[g] : y.id = m => p = "requeue"
      BY <1>10, <2>2, Zenon DEF OnlyPlace
    <3>2. \A v \in Workers : Timed(g, v)' /\ worker'[g][v].m.id = m => p = "worker"
      BY <1>8, Zenon DEF OnlyPlace
    <3>3. OnlyPlace(g, m, p)'
      BY <1>2, <3>1, <3>2, Zenon DEF OnlyPlace
    <3> QED BY <3>3, Zenon
  <2> QED BY <2>1, <2>2, Zenon
<1> QED BY <1>13, <1>14, <1>15, Zenon DEF Tokens

LEMMA StepTokens ==
    ASSUME Types, Bounds, NEW g \in Groups, StepOf(g), Tokens(g)
    PROVE  Tokens(g)'
<1>0. \A pc \in {"off", "idle", "busy", "done"} : At(pc).pc = pc
  BY Zenon DEF At
<1>1. CASE messages(g)
  <2>1. /\ reader[g] = "off" /\ reader'[g] = "on" /\ queues'[g] = <<>>
        /\ UNCHANGED <<sent, messageQueue, worker, requeue, attempts>>
    BY <1>1, Zenon DEF messages, history, Types
  <2>2. \A w \in Workers : Timed(g, w)' => Timed(g, w) /\ worker'[g][w].m = worker[g][w].m
    BY <2>1, Zenon DEF Timed, Busy
  <2> QED BY <2>1, <2>2, TokensShrink, Zenon
<1>2. CASE Start(g)
  <2>1. /\ UNCHANGED <<sent, queues, reader, messageQueue, requeue, attempts>>
        /\ worker' = [worker EXCEPT ![g] = [w \in Workers |-> At("idle")]]
    BY <1>2, Zenon DEF Start, broker, history
  <2>2. \A w \in Workers : ~Timed(g, w)'
    BY <1>0, <2>1, Zenon DEF Timed, Busy, Types
  <2> QED BY <2>1, <2>2, TokensShrink, Zenon
<1>3. CASE Cancel(g) \/ Close(g)
  <2>1. UNCHANGED <<sent, queues, reader, messageQueue, requeue, attempts, worker>>
    BY <1>3, Zenon DEF Cancel, Close, broker, history
  <2>2. \A w \in Workers : Timed(g, w)' => Timed(g, w) /\ worker'[g][w].m = worker[g][w].m
    BY <2>1, Zenon DEF Timed, Busy
  <2> QED BY <2>1, <2>2, TokensShrink, Zenon
<1>4. CASE readerDone(g)
  <2>1. /\ UNCHANGED <<sent, queues, messageQueue, requeue, attempts, worker>>
        /\ reader[g] = "on" /\ reader'[g] = "done"
    BY <1>4, Zenon DEF readerDone, broker, history, Types
  <2>2. \A w \in Workers : Timed(g, w)' => Timed(g, w) /\ worker'[g][w].m = worker[g][w].m
    BY <2>1, Zenon DEF Timed, Busy
  <2> QED BY <2>1, <2>2, TokensShrink, Zenon
<1>5. ASSUME NEW w \in Workers, workerDone(g, w) PROVE Tokens(g)'
  <2>1. /\ UNCHANGED <<sent, queues, reader, messageQueue, requeue, attempts>>
        /\ worker' = [worker EXCEPT ![g][w] = At("done")]
    BY <1>5, Zenon DEF workerDone, broker, history
  <2>2. \A v \in Workers : Timed(g, v)' => Timed(g, v) /\ worker'[g][v].m = worker[g][v].m
    BY <1>0, <2>1, Zenon DEF Timed, Busy, Types
  <2> QED BY <2>1, <2>2, TokensShrink, Zenon
<1>6. ASSUME NEW w \in Workers, NEW result \in {"ok", "failed"}, processMessage(g, w, result)
      PROVE  Tokens(g)'
  <2>1. /\ UNCHANGED <<sent, queues, reader, messageQueue, requeue, attempts>>
        /\ worker' = [worker EXCEPT ![g][w] = At("idle")]
    BY <1>6, Zenon DEF processMessage, broker
  <2>2. \A v \in Workers : Timed(g, v)' => Timed(g, v) /\ worker'[g][v].m = worker[g][v].m
    BY <1>0, <2>1, Zenon DEF Timed, Busy, Types
  <2> QED BY <2>1, <2>2, TokensShrink, Zenon
<1>7. CASE ReaderStep(g)
  BY <1>1, <1>7, TakeTokens, PutTokens, Zenon DEF ReaderStep
<1>8. CASE ShutdownStep(g)
  BY <1>3, <1>4, <1>5, <1>8, Zenon DEF ShutdownStep
<1>9. CASE Requeue(g)
  BY <1>9, RequeueTokens, Zenon
<1>10. ASSUME NEW w \in Workers, WorkerStep(g, w) \/ retryPostTimeout(g, w) PROVE Tokens(g)'
  BY <1>6, <1>10, ConsumeTokens, TimeoutTokens, Zenon DEF WorkerStep
<1> QED BY <1>2, <1>7, <1>8, <1>9, <1>10, Zenon DEF StepOf

\* A step that leaves the group alone.
LEMMA TokensOfGroup ==
    ASSUME NEW g, UNCHANGED OfGroup(g), sent' = sent, Tokens(g)
    PROVE  Tokens(g)'
<1>1. \A w \in Workers : Timed(g, w)' => Timed(g, w) /\ worker'[g][w].m = worker[g][w].m
  BY Zenon DEF OfGroup, Timed, Busy
<1> QED BY <1>1, TokensShrink, Zenon DEF OfGroup

LEMMA NextTokens == Types /\ Bounds /\ AllTokens /\ [Next]_vars => AllTokens'
<1> SUFFICES ASSUME Types, Bounds, AllTokens, [Next]_vars, NEW g \in Groups PROVE Tokens(g)'
  BY Zenon DEF AllTokens
<1>0. Tokens(g)
  BY Zenon DEF AllTokens
<1>1. ASSUME NEW m \in Messages, Send(m) PROVE Tokens(g)'
  BY <1>0, <1>1, SendTokens, Zenon
<1>2. ASSUME NEW h \in Groups, StepOf(h), h # g PROVE Tokens(g)'
  BY <1>0, <1>2, OthersUnchanged, TokensOfGroup, Zenon
<1>3. ASSUME StepOf(g) PROVE Tokens(g)'
  BY <1>0, <1>3, StepTokens, Zenon
<1>4. CASE UNCHANGED vars
  BY <1>0, <1>4, TokensOfGroup, Zenon DEF vars, OfGroup
<1> QED BY <1>1, <1>2, <1>3, <1>4, Zenon DEF Next, StepOf

\* A group calls its handler for a message at most maxRetries + 1 times, although the timer
\* puts a retry on its way while the handler still runs (MemoryConsumer.consume,
\* retryPostTimeout, retryMessage).
THEOREM AlwaysAttemptsBounded == Spec => []AttemptsBounded
<1>1. AllTokens => AttemptsBounded
  BY Zenon DEF AllTokens, Tokens, Counted, AttemptsBounded
<1> QED BY <1>1, InitTypes, StepTypes, InitTokens, NextTokens, PTL DEF Spec

-----------------------------------------------------------------------------
(* Sequences, for the order of messages *)

\* Equality, concatenation, prefixes and suffixes.
LEMMA SeqEqual ==
    ASSUME NEW S, NEW s \in Seq(S), NEW t \in Seq(S),
           Len(s) = Len(t), \A i \in 1..Len(s) : s[i] = t[i]
    PROVE  s = t
  <1>1. s \in [1..Len(s) -> S] /\ t \in [1..Len(t) -> S]
    OBVIOUS
  <1> QED BY <1>1

LEMMA ConcatProperties ==
    ASSUME NEW S, NEW s \in Seq(S), NEW t \in Seq(S)
    PROVE  /\ s \o t \in Seq(S) /\ Len(s \o t) = Len(s) + Len(t)
           /\ \A i \in 1..Len(s) + Len(t) : (s \o t)[i] = IF i <= Len(s) THEN s[i] ELSE t[i - Len(s)]
  OBVIOUS

LEMMA SuffixProperties ==
    ASSUME NEW S, NEW s \in Seq(S), NEW n \in Nat, n <= Len(s)
    PROVE  /\ SubSeq(s, n + 1, Len(s)) \in Seq(S) /\ Len(SubSeq(s, n + 1, Len(s))) = Len(s) - n
           /\ \A i \in 1..Len(s) - n : SubSeq(s, n + 1, Len(s))[i] = s[n + i]
  OBVIOUS

LEMMA PrefixProperties ==
    ASSUME NEW S, NEW s \in Seq(S), NEW n \in Nat, n <= Len(s)
    PROVE  /\ SubSeq(s, 1, n) \in Seq(S) /\ Len(SubSeq(s, 1, n)) = n
           /\ \A i \in 1..n : SubSeq(s, 1, n)[i] = s[i]
  OBVIOUS

-----------------------------------------------------------------------------
(* Places in the inner queue *)

\* The first attempts up to the i-th message.
Firsts(q, i) == {k \in 1..i : q[k].retries = 0}

LEMMA PlaceType ==
    ASSUME NEW q, NEW i \in Nat
    PROVE  /\ IsFiniteSet(Firsts(q, i)) /\ Place(q, i) = Cardinality(Firsts(q, i))
           /\ Place(q, i) \in Nat
           /\ i = 0 => Place(q, i) = 0
<1>1. IsFiniteSet(1..i)
  BY FS_Interval
<1>2. IsFiniteSet(Firsts(q, i))
  BY <1>1, FS_Subset, Zenon DEF Firsts
<1>3. Place(q, i) = Cardinality(Firsts(q, i))
  BY Zenon DEF Place, Firsts
<1>4. i = 0 => Firsts(q, i) = {}
  BY DEF Firsts
<1> QED BY <1>2, <1>3, <1>4, FS_CardinalityType, FS_EmptySet, Zenon

\* The next message adds one to the place if it is a first attempt.
LEMMA PlaceNext ==
    ASSUME NEW q, NEW i \in Nat
    PROVE  Place(q, i + 1) = IF q[i + 1].retries = 0 THEN Place(q, i) + 1 ELSE Place(q, i)
<1>1. CASE q[i + 1].retries = 0
  <2>1. Firsts(q, i + 1) = Firsts(q, i) \cup {i + 1} /\ i + 1 \notin Firsts(q, i)
    BY <1>1 DEF Firsts
  <2> QED BY <1>1, <2>1, PlaceType, FS_AddElement
<1>2. CASE q[i + 1].retries # 0
  <2>1. Firsts(q, i + 1) = Firsts(q, i)
    BY <1>2 DEF Firsts
  <2> QED BY <1>2, <2>1, PlaceType
<1> QED BY <1>1, <1>2, Zenon

\* Places do not exceed that of the last message, and that of a first attempt is at least 1.
LEMMA PlaceGrows ==
    ASSUME NEW q, NEW i \in Nat, NEW n \in Nat, i <= n
    PROVE  /\ Place(q, i) <= Place(q, n)
           /\ i # 0 /\ q[i].retries = 0 => Place(q, i) >= 1
<1>1. Firsts(q, i) \subseteq Firsts(q, n)
  BY DEF Firsts
<1>2. Place(q, i) <= Place(q, n)
  BY <1>1, PlaceType, FS_Subset
<1>3. ASSUME i # 0, q[i].retries = 0 PROVE Place(q, i) >= 1
  <2>1. i \in Firsts(q, i)
    BY <1>3 DEF Firsts
  <2> QED BY <2>1, PlaceType, FS_EmptySet
<1> QED BY <1>2, <1>3, Zenon

\* Places depend on the messages up to the place only.
LEMMA PlaceSame ==
    ASSUME NEW q, NEW r, NEW i \in Nat, \A k \in 1..i : q[k] = r[k]
    PROVE  Place(q, i) = Place(r, i)
  BY Zenon DEF Place

\* When the first message leaves, all places move up.
LEMMA PlaceShift ==
    ASSUME NEW q, NEW r, NEW i \in Nat, \A k \in 1..i : r[k] = q[k + 1]
    PROVE  Place(q, i + 1) = Place(r, i) + (IF q[1].retries = 0 THEN 1 ELSE 0)
<1> DEFINE A == Firsts(r, i)
           B == Firsts(q, i + 1) \ {1}
           f == [k \in A |-> k + 1]
<1>1. f \in Bijection(A, B)
  <2>1. f \in [A -> B]
    BY DEF Firsts
  <2>2. \A a, b \in A : f[a] = f[b] => a = b
    BY DEF Firsts
  <2>3. \A b \in B : \E a \in A : f[a] = b
    <3> TAKE b \in B
    <3>1. b - 1 \in A
      BY DEF Firsts
    <3>2. f[b - 1] = b
      BY <3>1 DEF Firsts
    <3> QED BY <3>1, <3>2, Zenon
  <2> HIDE DEF f, A, B
  <2>4. IsInjective(f)
    <3>1. DOMAIN f = A
      BY <2>1, Zenon
    <3> QED BY ONLY <2>2, <3>1, Zenon DEF IsInjective
  <2> QED BY ONLY <2>1, <2>3, <2>4, Zenon DEF Bijection, Injection, Surjection
<1> HIDE DEF f
<1>2. IsFiniteSet(A) /\ IsFiniteSet(Firsts(q, i + 1)) /\ IsFiniteSet(B)
  BY PlaceType, FS_Subset
<1>3. Cardinality(A) = Cardinality(B)
  BY <1>1, <1>2, FS_Bijection, Zenon DEF ExistsBijection
<1>4. CASE q[1].retries = 0
  <2>1. 1 \in Firsts(q, i + 1)
    BY <1>4 DEF Firsts
  <2>2. Cardinality(B) = Cardinality(Firsts(q, i + 1)) - 1
    BY <1>2, <2>1, FS_RemoveElement, Zenon
  <2> QED BY <1>2, <1>3, <1>4, <2>2, PlaceType
<1>5. CASE q[1].retries # 0
  <2>1. B = Firsts(q, i + 1)
    BY <1>5, Zenon DEF Firsts
  <2> QED BY <1>3, <1>5, <2>1, PlaceType
<1> QED BY <1>4, <1>5, Zenon

-----------------------------------------------------------------------------
(* Nothing is lost *)

\* The accepted messages a are those started, s, the first attempts in the inner queue q,
\* the one in the hands of the reader, h, and those in the queue of the broker, b.
OrderOf(a, s, q, h, b) ==
    /\ Len(a) = Len(s) + Place(q, Len(q)) + Len(h) + Len(b)
    /\ \A i \in 1..Len(s) : a[i] = s[i]
    /\ \A i \in 1..Len(q) : q[i].retries = 0 => a[Len(s) + Place(q, i)] = q[i].id
    /\ \A i \in 1..Len(h) : a[Len(s) + Place(q, Len(q)) + i] = h[i]
    /\ \A i \in 1..Len(b) : a[Len(s) + Place(q, Len(q)) + Len(h) + i] = b[i]

\* The broker accepts a message.
LEMMA OrderSend ==
    ASSUME NEW a \in Seq(Messages), NEW s \in Seq(Messages), NEW q \in Seq(memoryMessage),
           NEW h \in Seq(Messages), NEW b \in Seq(Messages), NEW m \in Messages,
           OrderOf(a, s, q, h, b)
    PROVE  OrderOf(Append(a, m), s, q, h, Append(b, m))
<1> PICK n \in Nat : n = Place(q, Len(q))
  BY PlaceType, LenProperties, Zenon
<1>1. Len(a) \in Nat /\ Len(s) \in Nat /\ Len(q) \in Nat /\ Len(h) \in Nat /\ Len(b) \in Nat
  BY LenProperties, Zenon
<1> PICK c \in Seq(Messages) : c = Append(a, m)
  BY AppendProperties, Zenon
<1> PICK d \in Seq(Messages) : d = Append(b, m)
  BY AppendProperties, Zenon
<1>2. Len(c) = Len(a) + 1 /\ (\A i \in 1..Len(a) : c[i] = a[i]) /\ c[Len(a) + 1] = m
  BY AppendProperties
<1>3. Len(d) = Len(b) + 1 /\ (\A i \in 1..Len(b) : d[i] = b[i]) /\ d[Len(b) + 1] = m
  BY AppendProperties
<1>4. /\ Len(a) = Len(s) + n + Len(h) + Len(b)
      /\ \A i \in 1..Len(s) : a[i] = s[i]
      /\ \A i \in 1..Len(q) : q[i].retries = 0 => a[Len(s) + Place(q, i)] = q[i].id
      /\ \A i \in 1..Len(h) : a[Len(s) + n + i] = h[i]
      /\ \A i \in 1..Len(b) : a[Len(s) + n + Len(h) + i] = b[i]
  BY Zenon DEF OrderOf
<1>5. \A i \in 1..Len(q) : q[i].retries = 0 =>
          Len(s) + Place(q, i) \in 1..Len(a)
  <2> TAKE i \in 1..Len(q)
  <2> HAVE q[i].retries = 0
  <2>1. Place(q, i) \in Nat /\ Place(q, i) >= 1 /\ Place(q, i) <= n
    BY <1>1, PlaceType, PlaceGrows
  <2> QED BY ONLY <1>1, <1>4, <2>1, n \in Nat
<1>6. \A i \in 1..Len(q) : q[i].retries = 0 => c[Len(s) + Place(q, i)] = q[i].id
  BY ONLY <1>2, <1>4, <1>5, Zenon
<1>7. \A i \in 1..Len(s) : c[i] = s[i]
  <2>1. \A i \in 1..Len(s) : i \in 1..Len(a)
    BY ONLY <1>1, <1>4, n \in Nat
  <2> QED BY ONLY <1>2, <1>4, <2>1, Zenon
<1>8. \A i \in 1..Len(h) : c[Len(s) + n + i] = h[i]
  <2> TAKE i \in 1..Len(h)
  <2>1. Len(s) + n + i \in 1..Len(a)
    BY ONLY <1>1, <1>4, n \in Nat, i \in 1..Len(h)
  <2>2. c[Len(s) + n + i] = a[Len(s) + n + i]
    BY ONLY <1>2, <2>1, Zenon
  <2> QED BY ONLY <1>4, <2>2, i \in 1..Len(h), Zenon
<1>9. \A i \in 1..Len(d) : c[Len(s) + n + Len(h) + i] = d[i]
  <2> TAKE i \in 1..Len(d)
  <2>1. CASE i = Len(b) + 1
    <3>1. Len(s) + n + Len(h) + i = Len(a) + 1
      BY ONLY <1>1, <1>4, <2>1, n \in Nat
    <3> QED BY ONLY <1>2, <1>3, <2>1, <3>1, Zenon
  <2>2. CASE i \in 1..Len(b)
    <3>1. Len(s) + n + Len(h) + i \in 1..Len(a)
      BY ONLY <1>1, <1>4, <2>2, n \in Nat
    <3>2. c[Len(s) + n + Len(h) + i] = a[Len(s) + n + Len(h) + i]
      BY ONLY <1>2, <3>1, Zenon
    <3> QED BY ONLY <1>3, <1>4, <2>2, <3>2, Zenon
  <2>3. i = Len(b) + 1 \/ i \in 1..Len(b)
    BY ONLY <1>1, <1>3, i \in 1..Len(d)
  <2> QED BY <2>1, <2>2, <2>3, Zenon
<1>10. Len(c) = Len(s) + n + Len(h) + Len(d)
  BY ONLY <1>1, <1>2, <1>3, <1>4, n \in Nat
<1> QED BY <1>6, <1>7, <1>8, <1>9, <1>10, Zenon DEF OrderOf

\* The reader takes a message from the queue of the broker.
LEMMA OrderTake ==
    ASSUME NEW a \in Seq(Messages), NEW s \in Seq(Messages), NEW q \in Seq(memoryMessage),
           NEW b \in Seq(Messages), b # <<>>, OrderOf(a, s, q, <<>>, b)
    PROVE  OrderOf(a, s, q, <<Head(b)>>, Tail(b))
<1> PICK n \in Nat : n = Place(q, Len(q))
  BY PlaceType, LenProperties, Zenon
<1> PICK t \in Seq(Messages) : t = Tail(b)
  BY HeadTailProperties, Zenon
<1> PICK m \in Messages : m = Head(b)
  BY HeadTailProperties, Zenon
<1>1. /\ Len(t) = Len(b) - 1 /\ \A i \in 1..Len(t) : t[i] = b[i + 1]
  BY HeadTailProperties, Zenon
<1>0. Len(<<m>>) = 1 /\ <<m>>[1] = m /\ m = b[1]
  OBVIOUS
<1>2. Len(b) \in Nat \ {0} /\ Len(s) \in Nat
  BY EmptySeq, LenProperties, Zenon
<1>3. /\ Len(a) = Len(s) + n + 0 + Len(b)
      /\ \A i \in 1..Len(b) : a[Len(s) + n + 0 + i] = b[i]
  BY Zenon DEF OrderOf
<1>4. \A i \in 1..1 : a[Len(s) + n + i] = <<m>>[i]
  <2>1. a[Len(s) + n + 0 + 1] = b[1]
    BY ONLY <1>2, <1>3
  <2>2. Len(s) + n + 0 + 1 = Len(s) + n + 1
    BY ONLY <1>2, n \in Nat
  <2> QED BY <1>0, <2>1, <2>2
<1>5. \A i \in 1..Len(t) : a[Len(s) + n + 1 + i] = t[i]
  <2> TAKE i \in 1..Len(t)
  <2>1. i + 1 \in 1..Len(b) /\ Len(s) + n + 0 + (i + 1) = Len(s) + n + 1 + i
    BY ONLY <1>1, <1>2, n \in Nat, i \in 1..Len(t)
  <2>2. a[Len(s) + n + 0 + (i + 1)] = b[i + 1]
    BY ONLY <1>3, <2>1, Zenon
  <2> QED BY <1>1, <2>1, <2>2, Zenon
<1>6. Len(a) = Len(s) + n + 1 + Len(t)
  BY ONLY <1>1, <1>2, <1>3, n \in Nat
<1> QED BY <1>0, <1>4, <1>5, <1>6, Zenon DEF OrderOf

\* What a message at the end of an inner queue changes.
LEMMA PlaceAppend ==
    ASSUME NEW q \in Seq(memoryMessage), NEW x \in memoryMessage,
           NEW r \in Seq(memoryMessage), r = Append(q, x)
    PROVE  /\ Len(q) \in Nat /\ Len(r) = Len(q) + 1 /\ r[Len(q) + 1] = x
           /\ \A i \in 1..Len(q) : r[i] = q[i] /\ Place(r, i) = Place(q, i)
           /\ Place(r, Len(r)) = IF x.retries = 0 THEN Place(q, Len(q)) + 1 ELSE Place(q, Len(q))
<1>1. Len(q) \in Nat /\ Len(r) = Len(q) + 1 /\ r[Len(q) + 1] = x
  BY AppendProperties, LenProperties
<1>2. \A i \in 1..Len(q) : r[i] = q[i]
  BY AppendProperties
<1>3. \A i \in 0..Len(q) : Place(r, i) = Place(q, i)
  <2> TAKE i \in 0..Len(q)
  <2>1. i \in Nat /\ \A k \in 1..i : r[k] = q[k]
    BY ONLY <1>1, <1>2, i \in 0..Len(q)
  <2> QED BY <2>1, PlaceSame, Zenon
<1>4. Place(r, Len(q) + 1) = IF x.retries = 0 THEN Place(r, Len(q)) + 1 ELSE Place(r, Len(q))
  BY <1>1, PlaceNext, Zenon
<1>5. Place(r, Len(q)) = Place(q, Len(q))
  BY <1>1, <1>3
<1>6. \A i \in 1..Len(q) : Place(r, i) = Place(q, i)
  BY <1>1, <1>3
<1> QED BY <1>1, <1>2, <1>4, <1>5, <1>6, Zenon

\* The reader puts the message it holds into the inner queue.
LEMMA OrderPut ==
    ASSUME NEW a \in Seq(Messages), NEW s \in Seq(Messages), NEW q \in Seq(memoryMessage),
           NEW m \in Messages, NEW b \in Seq(Messages), OrderOf(a, s, q, <<m>>, b)
    PROVE  OrderOf(a, s, Append(q, [id |-> m, retries |-> 0]), <<>>, b)
<1> PICK x \in memoryMessage : x = [id |-> m, retries |-> 0]
  BY Zenon DEF memoryMessage
<1>1. x.id = m /\ x.retries = 0
  BY Zenon
<1> PICK r \in Seq(memoryMessage) : r = Append(q, x)
  BY AppendProperties, Zenon
<1> PICK n \in Nat : n = Place(q, Len(q))
  BY PlaceType, LenProperties, Zenon
<1> PICK p \in Nat : p = n + 1
  OBVIOUS
<1>2. /\ Len(q) \in Nat /\ Len(r) = Len(q) + 1 /\ r[Len(q) + 1] = x
      /\ \A i \in 1..Len(q) : r[i] = q[i] /\ Place(r, i) = Place(q, i)
      /\ Place(r, Len(r)) = p
  <2>1. /\ Len(q) \in Nat /\ Len(r) = Len(q) + 1 /\ r[Len(q) + 1] = x
        /\ \A i \in 1..Len(q) : r[i] = q[i] /\ Place(r, i) = Place(q, i)
        /\ Place(r, Len(r)) = IF x.retries = 0 THEN Place(q, Len(q)) + 1 ELSE Place(q, Len(q))
    BY ONLY PlaceAppend, q \in Seq(memoryMessage), x \in memoryMessage,
            r \in Seq(memoryMessage), r = Append(q, x), Zenon
  <2>2. Place(r, Len(r)) = p
    BY ONLY <1>1, <2>1, n = Place(q, Len(q)), p = n + 1, Zenon
  <2> QED BY <2>1, <2>2, Zenon
<1>3. Len(<<m>>) = 1 /\ <<m>>[1] = m
  BY Zenon
<1>4. Len(s) \in Nat /\ Len(b) \in Nat
  BY LenProperties, Zenon
<1>5. /\ Len(a) = Len(s) + n + 1 + Len(b)
      /\ \A i \in 1..Len(s) : a[i] = s[i]
      /\ \A i \in 1..Len(q) : q[i].retries = 0 => a[Len(s) + Place(q, i)] = q[i].id
      /\ \A i \in 1..1 : a[Len(s) + n + i] = <<m>>[i]
      /\ \A i \in 1..Len(b) : a[Len(s) + n + 1 + i] = b[i]
  BY <1>3, Zenon DEF OrderOf
<1>6. \A i \in 1..Len(r) : r[i].retries = 0 => a[Len(s) + Place(r, i)] = r[i].id
  <2> TAKE i \in 1..Len(r)
  <2> HAVE r[i].retries = 0
  <2>1. i = Len(q) + 1 \/ i \in 1..Len(q)
    BY ONLY <1>2, i \in 1..Len(r)
  <2>2. CASE i = Len(q) + 1
    <3>1. Place(r, i) = p /\ r[i] = x
      BY <1>2, <2>2, Zenon
    <3>2. Len(s) + n + 1 = Len(s) + p
      BY ONLY <1>4, n \in Nat, p = n + 1
    <3>3. a[Len(s) + n + 1] = m
      BY ONLY <1>3, <1>5
    <3> QED BY <1>1, <3>1, <3>2, <3>3, Zenon
  <2>3. CASE i \in 1..Len(q)
    <3>1. r[i] = q[i] /\ Place(r, i) = Place(q, i)
      BY ONLY <1>2, <2>3, Zenon
    <3> QED BY ONLY <1>5, <2>3, <3>1, r[i].retries = 0, Zenon
  <2> QED BY <2>1, <2>2, <2>3, Zenon
<1> PICK e \in Seq(Messages) : e = <<>>
  BY EmptySeq, Zenon
<1>7. Len(e) = 0
  BY EmptySeq, Zenon
<1>8. Len(a) = Len(s) + p + Len(e) + Len(b)
  BY ONLY <1>4, <1>5, <1>7, n \in Nat, p = n + 1
<1>9. \A i \in 1..Len(b) : a[Len(s) + p + Len(e) + i] = b[i]
  <2> SUFFICES ASSUME NEW i \in 1..Len(b) PROVE a[Len(s) + p + Len(e) + i] = b[i]
    BY Zenon
  <2>1. Len(s) + p + Len(e) + i = Len(s) + n + 1 + i
    BY ONLY <1>4, <1>7, n \in Nat, p = n + 1, i \in 1..Len(b)
  <2> QED BY <1>5, <2>1, Zenon
<1>10. \A i \in 1..Len(e) : a[Len(s) + p + i] = e[i]
  BY <1>7
<1>11. OrderOf(a, s, r, e, b)
  BY ONLY <1>2, <1>5, <1>6, <1>8, <1>9, <1>10, Zenon DEF OrderOf
<1> QED BY <1>11, Zenon

\* A retry joins the inner queue.
LEMMA OrderRequeue ==
    ASSUME NEW a \in Seq(Messages), NEW s \in Seq(Messages), NEW q \in Seq(memoryMessage),
           NEW h \in Seq(Messages), NEW b \in Seq(Messages), OrderOf(a, s, q, h, b),
           NEW x \in memoryMessage, x.retries # 0
    PROVE  OrderOf(a, s, Append(q, x), h, b)
<1> PICK r \in Seq(memoryMessage) : r = Append(q, x)
  BY AppendProperties, Zenon
<1>1. /\ Len(q) \in Nat /\ Len(r) = Len(q) + 1 /\ r[Len(q) + 1] = x
      /\ \A i \in 1..Len(q) : r[i] = q[i] /\ Place(r, i) = Place(q, i)
      /\ Place(r, Len(r)) = Place(q, Len(q))
  <2>1. /\ Len(q) \in Nat /\ Len(r) = Len(q) + 1 /\ r[Len(q) + 1] = x
        /\ \A i \in 1..Len(q) : r[i] = q[i] /\ Place(r, i) = Place(q, i)
        /\ Place(r, Len(r)) = IF x.retries = 0 THEN Place(q, Len(q)) + 1 ELSE Place(q, Len(q))
    BY ONLY PlaceAppend, q \in Seq(memoryMessage), x \in memoryMessage,
            r \in Seq(memoryMessage), r = Append(q, x), Zenon
  <2> QED BY ONLY <2>1, x.retries # 0, Zenon
<1>2. \A i \in 1..Len(r) : r[i].retries = 0 => a[Len(s) + Place(r, i)] = r[i].id
  <2> TAKE i \in 1..Len(r)
  <2> HAVE r[i].retries = 0
  <2>1. i = Len(q) + 1 \/ i \in 1..Len(q)
    BY ONLY <1>1, i \in 1..Len(r)
  <2>2. i \in 1..Len(q)
    BY <1>1, <2>1, Zenon
  <2> QED BY <1>1, <2>2, Zenon DEF OrderOf
<1> QED BY <1>1, <1>2, Zenon DEF OrderOf

\* A worker takes a message from the inner queue.
LEMMA OrderConsume ==
    ASSUME NEW a \in Seq(Messages), NEW s \in Seq(Messages), NEW q \in Seq(memoryMessage),
           NEW h \in Seq(Messages), NEW b \in Seq(Messages), OrderOf(a, s, q, h, b), q # <<>>,
           NEW s2 \in Seq(Messages),
           s2 = IF Head(q).retries = 0 THEN Append(s, Head(q).id) ELSE s
    PROVE  OrderOf(a, s2, Tail(q), h, b)
<1> PICK x \in memoryMessage : x = Head(q)
  BY HeadTailProperties, Zenon
<1> PICK r \in Seq(memoryMessage) : r = Tail(q)
  BY HeadTailProperties, Zenon
<1> PICK d \in Nat : d = IF x.retries = 0 THEN 1 ELSE 0
  BY Zenon
<1>1. /\ Len(q) \in Nat /\ Len(r) \in Nat /\ Len(q) = Len(r) + 1
  BY HeadTailProperties, LenProperties, EmptySeq
<1>2. \A i \in 1..Len(r) : r[i] = q[i + 1]
  BY HeadTailProperties, Zenon
<1>3. q[1] = x
  BY HeadTailProperties
<1>4. x.id \in Messages
  BY Zenon DEF memoryMessage
<1>5. Len(s) \in Nat /\ Len(s2) = Len(s) + d /\ \A i \in 1..Len(s) : s2[i] = s[i]
  <2>1. CASE x.retries = 0
    BY <1>4, <2>1, AppendProperties, LenProperties
  <2>2. CASE x.retries # 0
    BY <2>2, LenProperties
  <2> QED BY <2>1, <2>2, Zenon
<1>6. x.retries = 0 => s2[Len(s) + 1] = x.id
  BY <1>4, AppendProperties
<1>7. \A i \in 0..Len(r) : /\ i \in Nat /\ Place(r, i) \in Nat
                           /\ Place(q, i + 1) = Place(r, i) + d
                           /\ Len(s) + Place(q, i + 1) = Len(s2) + Place(r, i)
  <2> TAKE i \in 0..Len(r)
  <2>0. i \in Nat /\ \A k \in 1..i : k \in 1..Len(r)
    BY ONLY <1>1, i \in 0..Len(r)
  <2>1. i \in Nat /\ \A k \in 1..i : r[k] = q[k + 1]
    BY ONLY <1>2, <2>0, Zenon
  <2>2. Place(q, i + 1) = Place(r, i) + (IF q[1].retries = 0 THEN 1 ELSE 0)
    BY ONLY <2>1, PlaceShift, Zenon
  <2>3. Place(q, i + 1) = Place(r, i) + d
    BY ONLY <1>3, <2>2, d = IF x.retries = 0 THEN 1 ELSE 0, Zenon
  <2>4. Place(r, i) \in Nat
    BY <2>1, PlaceType, Zenon
  <2> QED BY ONLY <1>5, <2>1, <2>3, <2>4, d \in Nat
<1>8. Len(s) + Place(q, Len(q)) = Len(s2) + Place(r, Len(r))
  BY ONLY <1>1, <1>7
<1>9. Len(a) = Len(s2) + Place(r, Len(r)) + Len(h) + Len(b)
  BY ONLY <1>8, OrderOf(a, s, q, h, b), Zenon DEF OrderOf
<1>10. /\ \A i \in 1..Len(h) : a[Len(s2) + Place(r, Len(r)) + i] = h[i]
       /\ \A i \in 1..Len(b) : a[Len(s2) + Place(r, Len(r)) + Len(h) + i] = b[i]
  BY ONLY <1>8, OrderOf(a, s, q, h, b), Zenon DEF OrderOf
<1>11. \A i \in 1..Len(r) : r[i].retries = 0 => a[Len(s2) + Place(r, i)] = r[i].id
  <2> TAKE i \in 1..Len(r)
  <2> HAVE r[i].retries = 0
  <2>1. i \in 0..Len(r) /\ i + 1 \in 1..Len(q)
    BY ONLY <1>1, i \in 1..Len(r)
  <2>2. q[i + 1] = r[i] /\ Len(s) + Place(q, i + 1) = Len(s2) + Place(r, i)
    BY ONLY <1>2, <1>7, <2>1, i \in 1..Len(r), Zenon
  <2>3. a[Len(s) + Place(q, i + 1)] = q[i + 1].id
    BY ONLY <2>1, <2>2, r[i].retries = 0, OrderOf(a, s, q, h, b), Zenon DEF OrderOf
  <2> QED BY ONLY <2>2, <2>3, Zenon
<1>12. x.retries = 0 => a[Len(s) + 1] = x.id
  <2> HAVE x.retries = 0
  <2>1. Place(q, 1) = 1 /\ 1 \in 1..Len(q)
    <3>1. Place(q, 0) = 0 /\ 0 \in Nat
      BY PlaceType
    <3>2. q[0 + 1].retries = 0
      BY <1>3
    <3>3. Place(q, 0 + 1) = Place(q, 0) + 1
      BY ONLY <3>1, <3>2, PlaceNext, Zenon
    <3> QED BY ONLY <1>1, <3>1, <3>3
  <2>2. q[1].retries = 0 => a[Len(s) + Place(q, 1)] = q[1].id
    BY ONLY <2>1, OrderOf(a, s, q, h, b), Zenon DEF OrderOf
  <2> QED BY ONLY <1>3, <2>1, <2>2, x.retries = 0, Zenon
<1>13. \A i \in 1..Len(s2) : a[i] = s2[i]
  <2> TAKE i \in 1..Len(s2)
  <2>1. i \in 1..Len(s) \/ (i = Len(s) + 1 /\ d = 1)
    BY ONLY <1>5, i \in 1..Len(s2), d = IF x.retries = 0 THEN 1 ELSE 0
  <2>2. CASE i \in 1..Len(s)
    BY ONLY <1>5, <2>2, OrderOf(a, s, q, h, b), Zenon DEF OrderOf
  <2>3. CASE i = Len(s) + 1 /\ d = 1
    BY <1>6, <1>12, <2>3
  <2> QED BY <2>1, <2>2, <2>3, Zenon
<1> QED BY <1>9, <1>10, <1>11, <1>13, Zenon DEF OrderOf

\* The order in the terms of the invariant.
SplitsInto(a, s, q, h, b) ==
    /\ SubSeq(a, 1, Len(s)) = s
    /\ Len(s) + Place(q, Len(q)) <= Len(a)
    /\ SubSeq(a, Len(s) + Place(q, Len(q)) + 1, Len(a)) = h \o b

LEMMA OrderMeans ==
    ASSUME NEW a \in Seq(Messages), NEW s \in Seq(Messages), NEW q \in Seq(memoryMessage),
           NEW h \in Seq(Messages), NEW b \in Seq(Messages), OrderOf(a, s, q, h, b)
    PROVE  SplitsInto(a, s, q, h, b)
<1> PICK n : n = Len(s) + Place(q, Len(q))
  BY Zenon
<1> PICK p \in Nat : p = Place(q, Len(q))
  BY PlaceType, LenProperties, Zenon
<1>1. Len(a) \in Nat /\ Len(s) \in Nat /\ Len(h) \in Nat /\ Len(b) \in Nat
  BY LenProperties, Zenon
<1>2. n = Len(s) + p /\ n \in Nat
  BY ONLY <1>1, n = Len(s) + Place(q, Len(q)), p = Place(q, Len(q)), p \in Nat
<1>3. Len(a) = n + Len(h) + Len(b)
  BY ONLY n = Len(s) + Place(q, Len(q)), OrderOf(a, s, q, h, b), Zenon DEF OrderOf
<1>4. /\ \A i \in 1..Len(h) : a[n + i] = h[i]
      /\ \A i \in 1..Len(b) : a[n + Len(h) + i] = b[i]
      /\ \A i \in 1..Len(s) : a[i] = s[i]
  BY ONLY n = Len(s) + Place(q, Len(q)), OrderOf(a, s, q, h, b), Zenon DEF OrderOf
<1>5. n <= Len(a) /\ Len(s) <= Len(a)
  BY ONLY <1>1, <1>2, <1>3, p \in Nat
<1>6. SubSeq(a, 1, Len(s)) = s
  <2> PICK u : u = SubSeq(a, 1, Len(s))
    BY Zenon
  <2>2. /\ u \in Seq(Messages) /\ Len(u) = Len(s)
        /\ \A i \in 1..Len(s) : u[i] = a[i]
    BY ONLY <1>1, <1>5, PrefixProperties, a \in Seq(Messages), u = SubSeq(a, 1, Len(s)), Zenon
  <2>3. u = s
    BY ONLY <1>4, <2>2, SeqEqual, s \in Seq(Messages), Zenon
  <2> QED BY <2>3, Zenon
<1>7. SubSeq(a, n + 1, Len(a)) = h \o b
  <2> PICK u : u = SubSeq(a, n + 1, Len(a))
    BY Zenon
  <2> PICK v \in Seq(Messages) : v = h \o b
    BY ConcatProperties, Zenon
  <2>1. /\ Len(v) = Len(h) + Len(b)
        /\ \A i \in 1..Len(v) : v[i] = IF i <= Len(h) THEN h[i] ELSE b[i - Len(h)]
    BY ConcatProperties
  <2>2. /\ u \in Seq(Messages) /\ Len(u) = Len(v)
        /\ \A i \in 1..Len(v) : u[i] = a[n + i]
    <3>1. Len(a) - n = Len(v)
      BY ONLY <1>1, <1>2, <1>3, <2>1
    <3>2. /\ u \in Seq(Messages) /\ Len(u) = Len(a) - n
          /\ \A i \in 1..Len(a) - n : u[i] = a[n + i]
      BY ONLY <1>2, <1>5, SuffixProperties, a \in Seq(Messages), u = SubSeq(a, n + 1, Len(a)), Zenon
    <3> QED BY ONLY <3>1, <3>2, Zenon
  <2>3. \A i \in 1..Len(v) : a[n + i] = v[i]
    <3> TAKE i \in 1..Len(v)
    <3>1. CASE i <= Len(h)
      <4>1. i \in 1..Len(h)
        BY ONLY <1>1, <2>1, <3>1, i \in 1..Len(v)
      <4> QED BY ONLY <1>4, <2>1, <3>1, <4>1, i \in 1..Len(v), Zenon
    <3>2. CASE ~(i <= Len(h))
      <4>1. i - Len(h) \in 1..Len(b) /\ n + Len(h) + (i - Len(h)) = n + i
        BY ONLY <1>1, <1>2, <2>1, <3>2, i \in 1..Len(v)
      <4>2. a[n + Len(h) + (i - Len(h))] = b[i - Len(h)]
        BY ONLY <1>4, <4>1, Zenon
      <4> QED BY ONLY <2>1, <3>2, <4>1, <4>2, i \in 1..Len(v), Zenon
    <3> QED BY <3>1, <3>2, Zenon
  <2>4. u = v
    BY ONLY <2>2, <2>3, SeqEqual, v \in Seq(Messages), Zenon
  <2> QED BY <2>4, Zenon
<1> QED BY ONLY <1>5, <1>6, <1>7, n = Len(s) + Place(q, Len(q)), Zenon DEF SplitsInto

\* Retries are no first attempts; a consumer without a reader has seen no message; the
\* messages of any other are in order.
Order(g) ==
    /\ \A x \in requeue[g] : x.retries # 0
    /\ reader[g] = "off" =>
          /\ accepted[g] = <<>> /\ started[g] = <<>> /\ messageQueue[g] = <<>> /\ requeue[g] = {}
          /\ \A w \in Workers : ~Busy(g, w)
    /\ reader[g] # "off" =>
          OrderOf(accepted[g], started[g], messageQueue[g], InHand(g), queues[g])

LEMMA HandType ==
    ASSUME Types, NEW g \in Groups
    PROVE  InHand(g) \in Seq(Messages)
  BY DEF Types, InHand

LEMMA OrderStart ==
    OrderOf(<<>>, <<>>, <<>>, <<>>, <<>>)
<1>1. Len(<<>>) = 0
  BY Zenon
<1>2. Place(<<>>, 0) = 0
  BY PlaceType, Zenon
<1> QED BY <1>1, <1>2 DEF OrderOf

LEMMA SendOrder ==
    ASSUME Types, Bounds, NEW m \in Messages, Send(m), NEW g \in Groups, Order(g)
    PROVE  Order(g)'
<1>1. /\ queues'[g] = IF HasRoom(g) THEN Append(queues[g], m) ELSE queues[g]
      /\ accepted'[g] = IF HasRoom(g) THEN Append(accepted[g], m) ELSE accepted[g]
      /\ UNCHANGED <<state, reader, messageQueue, worker, requeue, started, attempts, outcome>>
  BY Zenon DEF Send, enqueue, history
<1>2. InHand(g)' = InHand(g) /\ \A w \in Workers : Busy(g, w)' = Busy(g, w)
  BY <1>1, Zenon DEF InHand, Busy
<1>3. CASE HasRoom(g)
  <2>1. reader[g] # "off" /\ queues[g] \in Seq(Messages)
    BY <1>3, Zenon DEF HasRoom, Bounds
  <2>2. OrderOf(accepted[g], started[g], messageQueue[g], InHand(g), queues[g])
    BY <2>1, Zenon DEF Order
  <2>3. OrderOf(Append(accepted[g], m), started[g], messageQueue[g], InHand(g), Append(queues[g], m))
    BY <2>1, <2>2, OrderSend, HandType, Zenon DEF Types
  <2>4. OrderOf(accepted[g], started[g], messageQueue[g], InHand(g), queues[g])'
    BY <1>1, <1>2, <1>3, <2>3, Zenon
  <2> QED BY <1>1, <2>1, <2>4, Zenon DEF Order
<1>4. CASE ~HasRoom(g)
  BY <1>1, <1>2, <1>4, Zenon DEF Order
<1> QED BY <1>3, <1>4, Zenon

LEMMA ReaderOrder ==
    ASSUME Types, Bounds, NEW g \in Groups, ReaderStep(g), Order(g)
    PROVE  Order(g)'
<1>1. CASE messages(g)
  <2>1. /\ queues'[g] = <<>> /\ reader'[g] = "on"
        /\ UNCHANGED <<accepted, messageQueue, worker, requeue, started>>
    BY <1>1, Zenon DEF messages, history, Types
  <2>2. reader[g] = "off"
    BY <1>1, Zenon DEF messages
  <2>3. InHand(g)' = <<>>
    BY <2>1, StreamAssumption, Zenon DEF InHand
  <2>4. OrderOf(accepted[g], started[g], messageQueue[g], InHand(g), queues[g])'
    BY <2>1, <2>2, <2>3, OrderStart, Zenon DEF Order
  <2> QED BY <2>1, <2>4, Zenon DEF Order
<1>2. CASE readerTakes(g)
  <2>1. queues[g] \in Seq(Messages) /\ queues[g] # <<>> /\ reader[g] = "on"
    BY <1>2, Zenon DEF readerTakes, Bounds
  <2>2. Head(queues[g]) \in Messages
    BY <2>1, HeadTailProperties, Zenon
  <2>3. /\ queues'[g] = Tail(queues[g]) /\ reader'[g] = Head(queues[g])
        /\ UNCHANGED <<accepted, messageQueue, worker, requeue, started>>
    BY <1>2, Zenon DEF readerTakes, history, Types
  <2>4. InHand(g) = <<>> /\ InHand(g)' = <<Head(queues[g])>>
    BY <2>1, <2>2, <2>3, StreamAssumption, Zenon DEF InHand
  <2>5. OrderOf(accepted[g], started[g], messageQueue[g], <<>>, queues[g])
    BY <2>1, <2>4, Zenon DEF Order
  <2>6. OrderOf(accepted[g], started[g], messageQueue[g], <<Head(queues[g])>>, Tail(queues[g]))
    BY <2>1, <2>5, OrderTake, Zenon DEF Types
  <2>7. OrderOf(accepted[g], started[g], messageQueue[g], InHand(g), queues[g])'
    BY <2>3, <2>4, <2>6, Zenon
  <2>8. reader'[g] # "off"
    BY <2>2, <2>3, StreamAssumption, Zenon
  <2> QED BY <2>3, <2>7, <2>8, Zenon DEF Order
<1>3. CASE readerPuts(g)
  <2>1. reader[g] \in Messages /\ reader[g] # "off" /\ queues[g] \in Seq(Messages)
    BY <1>3, StreamAssumption, Zenon DEF readerPuts, Bounds
  <2>2. /\ messageQueue'[g] = Append(messageQueue[g], [id |-> reader[g], retries |-> 0])
        /\ reader'[g] = "on"
        /\ UNCHANGED <<accepted, queues, worker, requeue, started>>
    BY <1>3, Zenon DEF readerPuts, history, broker, Types
  <2>3. InHand(g) = <<reader[g]>> /\ InHand(g)' = <<>>
    BY <2>1, <2>2, StreamAssumption, Zenon DEF InHand
  <2>4. OrderOf(accepted[g], started[g], messageQueue[g], <<reader[g]>>, queues[g])
    BY <2>1, <2>3, Zenon DEF Order
  <2>5. OrderOf(accepted[g], started[g],
                Append(messageQueue[g], [id |-> reader[g], retries |-> 0]), <<>>, queues[g])
    BY <2>1, <2>4, OrderPut, Zenon DEF Types
  <2>6. OrderOf(accepted[g], started[g], messageQueue[g], InHand(g), queues[g])'
    BY <2>2, <2>3, <2>5, Zenon
  <2> QED BY <2>2, <2>6, Zenon DEF Order
<1> QED BY <1>1, <1>2, <1>3, Zenon DEF ReaderStep

LEMMA WorkerOrder ==
    ASSUME Types, Bounds, NEW g \in Groups, NEW w \in Workers, WorkerStep(g, w), Order(g)
    PROVE  Order(g)'
<1>1. CASE consume(g, w)
  <2> PICK q \in Seq(memoryMessage) : q = messageQueue[g]
    BY Zenon DEF Types
  <2> PICK s : s = IF Head(q).retries = 0 THEN Append(started[g], Head(q).id) ELSE started[g]
    BY Zenon
  <2>1. q # <<>> /\ reader[g] # "off" /\ queues[g] \in Seq(Messages)
    BY <1>1, Zenon DEF consume, Order, Bounds
  <2>2. Head(q).id \in Messages
    <3>1. Head(q) \in memoryMessage
      BY ONLY <2>1, HeadTailProperties, q \in Seq(memoryMessage), Zenon
    <3> QED BY <3>1, Zenon DEF memoryMessage
  <2>3. s \in Seq(Messages)
    BY <2>2, AppendProperties, Zenon DEF Types
  <2>4. /\ started'[g] = s /\ messageQueue'[g] = Tail(q)
        /\ UNCHANGED <<queues, accepted, reader, requeue>>
    BY <1>1, Zenon DEF consume, broker, Types
  <2>5. OrderOf(accepted[g], started[g], q, InHand(g), queues[g])
    BY <2>1, Zenon DEF Order
  <2>6. OrderOf(accepted[g], s, Tail(q), InHand(g), queues[g])
    BY <2>1, <2>3, <2>5, OrderConsume, HandType, Zenon DEF Types
  <2>7. InHand(g)' = InHand(g)
    BY <2>4, Zenon DEF InHand
  <2>8. OrderOf(accepted[g], started[g], messageQueue[g], InHand(g), queues[g])'
    BY <2>4, <2>6, <2>7, Zenon
  <2> QED BY <2>1, <2>4, <2>8, Zenon DEF Order
<1>2. ASSUME NEW result \in {"ok", "failed"}, processMessage(g, w, result) PROVE Order(g)'
  <2>1. worker' = [worker EXCEPT ![g][w] = At("idle")] /\ At("idle").pc = "idle"
    BY <1>2, Zenon DEF processMessage, At
  <2>2. UNCHANGED <<queues, accepted, reader, messageQueue, requeue, started>>
    BY <1>2, Zenon DEF processMessage, broker
  <2>3. InHand(g)' = InHand(g)
    BY <2>2, Zenon DEF InHand
  <2>4. \A v \in Workers : Busy(g, v)' => Busy(g, v)
    BY <2>1, Zenon DEF Busy, Types
  <2> QED BY <2>2, <2>3, <2>4, Zenon DEF Order
<1> QED BY <1>1, <1>2, Zenon DEF WorkerStep

LEMMA OtherOrder ==
    ASSUME Types, Bounds, NEW g \in Groups, Order(g),
           \/ Start(g) \/ Requeue(g) \/ ShutdownStep(g)
           \/ \E w \in Workers : retryPostTimeout(g, w)
    PROVE  Order(g)'
<1>0. \A pc \in {"off", "idle", "busy", "done"} : At(pc).pc = pc
  BY Zenon DEF At
<1>1. CASE Start(g)
  <2>1. worker' = [worker EXCEPT ![g] = [v \in Workers |-> At("idle")]]
    BY <1>1, Zenon DEF Start
  <2>2. UNCHANGED <<queues, accepted, reader, messageQueue, requeue, started>>
    BY <1>1, Zenon DEF Start, broker, history
  <2>3. InHand(g)' = InHand(g)
    BY <2>2, Zenon DEF InHand
  <2>4. \A v \in Workers : ~Busy(g, v)'
    BY <1>0, <2>1, Zenon DEF Busy, Types
  <2> QED BY <2>2, <2>3, <2>4, Zenon DEF Order
<1>2. CASE Requeue(g)
  <2> PICK x \in requeue[g] : requeueMessage(g, x)
    BY <1>2, Zenon DEF Requeue
  <2>1. x \in memoryMessage /\ x.retries # 0
    BY Zenon DEF Types, Order
  <2>2. /\ messageQueue'[g] = Append(messageQueue[g], x) /\ requeue'[g] = requeue[g] \ {x}
        /\ UNCHANGED <<queues, accepted, reader, worker, started>>
    BY Zenon DEF requeueMessage, broker, history, Types
  <2>3. reader[g] # "off" /\ queues[g] \in Seq(Messages)
    BY Zenon DEF Order, Bounds
  <2>4. OrderOf(accepted[g], started[g], messageQueue[g], InHand(g), queues[g])
    BY <2>3, Zenon DEF Order
  <2>5. OrderOf(accepted[g], started[g], Append(messageQueue[g], x), InHand(g), queues[g])
    BY <2>1, <2>3, <2>4, OrderRequeue, HandType DEF Types
  <2>6. InHand(g)' = InHand(g)
    BY <2>2, Zenon DEF InHand
  <2>7. OrderOf(accepted[g], started[g], messageQueue[g], InHand(g), queues[g])'
    BY <2>2, <2>5, <2>6, Zenon
  <2> QED BY <2>2, <2>3, <2>7, Zenon DEF Order
<1>3. CASE Cancel(g) \/ Close(g)
  <2>1. UNCHANGED <<queues, accepted, reader, messageQueue, requeue, started, worker>>
    BY <1>3, Zenon DEF Cancel, Close, broker, history
  <2> QED BY <2>1, Zenon DEF Order, InHand, Busy
<1>4. CASE readerDone(g)
  <2>1. reader[g] = "on" /\ reader'[g] = "done"
    BY <1>4, Zenon DEF readerDone, Types
  <2>2. UNCHANGED <<queues, accepted, messageQueue, requeue, started, worker>>
    BY <1>4, Zenon DEF readerDone, broker, history
  <2>3. InHand(g)' = InHand(g)
    BY <2>1, StreamAssumption, Zenon DEF InHand
  <2> QED BY <2>1, <2>2, <2>3, Zenon DEF Order
<1>5. ASSUME NEW w \in Workers, workerDone(g, w) PROVE Order(g)'
  <2>1. worker' = [worker EXCEPT ![g][w] = At("done")]
    BY <1>5, Zenon DEF workerDone
  <2>2. UNCHANGED <<queues, accepted, reader, messageQueue, requeue, started>>
    BY <1>5, Zenon DEF workerDone, broker, history
  <2>3. InHand(g)' = InHand(g)
    BY <2>2, Zenon DEF InHand
  <2>4. \A v \in Workers : Busy(g, v)' => Busy(g, v)
    BY <1>0, <2>1, Zenon DEF Busy, Types
  <2> QED BY <2>2, <2>3, <2>4, Zenon DEF Order
<1>6. ASSUME NEW w \in Workers, retryPostTimeout(g, w) PROVE Order(g)'
  <2>1. requeue'[g] = requeue[g] \cup retryMessage(worker[g][w].m)
    BY <1>6, Zenon DEF retryPostTimeout, Types
  <2>2. UNCHANGED <<queues, accepted, reader, messageQueue, started>>
    BY <1>6, Zenon DEF retryPostTimeout, broker, history
  <2>3. InHand(g)' = InHand(g)
    BY <2>2, Zenon DEF InHand
  <2>4. reader[g] # "off" /\ worker[g][w].m \in memoryMessage
    BY <1>6, Zenon DEF retryPostTimeout, Order, Bounds
  <2>5. \A x \in requeue'[g] : x.retries # 0
    BY <2>1, <2>4, RetryOrder, Zenon DEF Order
  <2> QED BY <2>2, <2>3, <2>4, <2>5, Zenon DEF Order
<1> QED BY <1>1, <1>2, <1>3, <1>4, <1>5, <1>6 DEF ShutdownStep

\* Order(g) speaks of the variables of the group only.
LEMMA OrderOfGroup ==
    ASSUME NEW g, UNCHANGED OfGroup(g), Order(g)
    PROVE  Order(g)'
  BY Zenon DEF OfGroup, Order, InHand, Busy

AllInOrder == \A g \in Groups : Order(g)

LEMMA InitOrder == Init => AllInOrder
<1> SUFFICES ASSUME Init, NEW g \in Groups PROVE Order(g)
  BY Zenon DEF AllInOrder
<1>1. /\ reader[g] = "off" /\ accepted[g] = <<>> /\ started[g] = <<>>
      /\ messageQueue[g] = <<>> /\ requeue[g] = {}
  BY Zenon DEF Init
<1>2. \A w \in Workers : ~Busy(g, w)
  BY Zenon DEF Init, Busy, At
<1> QED BY <1>1, <1>2, Zenon DEF Order

LEMMA StepOrder == Types /\ Bounds /\ AllInOrder /\ [Next]_vars => AllInOrder'
<1> SUFFICES ASSUME Types, Bounds, AllInOrder, [Next]_vars, NEW g \in Groups PROVE Order(g)'
  BY Zenon DEF AllInOrder
<1>0. Order(g)
  BY Zenon DEF AllInOrder
<1>1. ASSUME NEW m \in Messages, Send(m) PROVE Order(g)'
  BY <1>0, <1>1, SendOrder, Zenon
<1>2. ASSUME NEW h \in Groups, StepOf(h), h # g PROVE Order(g)'
  BY <1>0, <1>2, OthersUnchanged, OrderOfGroup, Zenon
<1>3. ASSUME StepOf(g) PROVE Order(g)'
  BY <1>0, <1>3, ReaderOrder, WorkerOrder, OtherOrder DEF StepOf
<1>4. CASE UNCHANGED vars
  BY <1>0, <1>4, OrderOfGroup, Zenon DEF vars, OfGroup
<1> QED BY <1>1, <1>2, <1>3, <1>4, Zenon DEF Next, StepOf

LEMMA OrderGives == Types /\ Bounds /\ AllInOrder => NothingLost
<1> SUFFICES ASSUME Types, Bounds, AllInOrder, NEW g \in Groups, queues[g] # None
             PROVE  LET q == messageQueue[g]
                        first == Len(started[g])
                        last == first + Place(q, Len(q))
                    IN /\ SubSeq(accepted[g], 1, first) = started[g]
                       /\ \A i \in 1..Len(q) :
                             q[i].retries = 0 => accepted[g][first + Place(q, i)] = q[i].id
                       /\ last <= Len(accepted[g])
                       /\ SubSeq(accepted[g], last + 1, Len(accepted[g])) = InHand(g) \o queues[g]
  BY Zenon DEF NothingLost
<1>1. queues[g] \in Seq(Messages) /\ reader[g] # "off"
  BY Zenon DEF Bounds
<1>2. OrderOf(accepted[g], started[g], messageQueue[g], InHand(g), queues[g])
  BY <1>1, Zenon DEF AllInOrder, Order
<1>3. SplitsInto(accepted[g], started[g], messageQueue[g], InHand(g), queues[g])
  <2>1. /\ accepted[g] \in Seq(Messages) /\ started[g] \in Seq(Messages)
        /\ messageQueue[g] \in Seq(memoryMessage) /\ InHand(g) \in Seq(Messages)
    BY HandType, Zenon DEF Types
  <2> QED BY ONLY <1>1, <1>2, <2>1, OrderMeans, Zenon
<1>4. \A i \in 1..Len(messageQueue[g]) : messageQueue[g][i].retries = 0 =>
         accepted[g][Len(started[g]) + Place(messageQueue[g], i)] = messageQueue[g][i].id
  BY <1>2, Zenon DEF OrderOf
<1> QED BY <1>3, <1>4, Zenon DEF SplitsInto

\* Between broker and handler nothing is lost, doubled or overtaken, with any number of
\* workers and whatever retries come in between (MemoryBroker.enqueue, the reader and the
\* workers of MemoryConsumer).
THEOREM AlwaysNothingLost == Spec => []NothingLost
BY InitTypes, StepTypes, InitOrder, StepOrder, OrderGives, PTL DEF Spec
=============================================================================
