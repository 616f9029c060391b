---------------------------- MODULE MemoryStream ----------------------------
(***************************************************************************)
(* The in-memory event stream (src/stream): producers, the broker with one *)
(* bounded queue per consumer group, and for every group a consumer with a *)
(* reader, an inner queue, workers that call the handler, and retry timers *)
(* that put a message back. One stream; a message is sent once.            *)
(***************************************************************************)
EXTENDS Integers, Sequences, FiniteSets

CONSTANTS
    Messages,       \* message IDs
    Groups,         \* consumer groups, each with one consumer
    Workers,        \* Config.Concurrency worker goroutines per consumer
    queueSize,      \* of the queues of the broker
    queueCapacity,  \* of the queue of a consumer
    maxRetries,     \* of the handler
    None

ASSUME StreamAssumption ==
    /\ queueSize \in Nat \ {0} /\ queueCapacity \in Nat \ {0} /\ maxRetries \in Nat
    /\ Messages \cap {None, "off", "on", "done"} = {}

VARIABLES
    sent,         \* messages the producer has sent
    queues,       \* MemoryBroker.messageQueues: group -> queue, None if there is none
    state,        \* consumer -> new, started, canceled (its context), closed
    reader,       \* consumer -> off, on, holds a message, or done
    messageQueue, \* consumer -> its inner queue
    worker,       \* consumer, worker -> what the worker does
    requeue,      \* consumer -> goroutines of retryMessage about to send
    accepted,     \* history: group -> messages put in its queue, in order
    started,      \* history: consumer -> messages in the order of their first attempt
    attempts,     \* history: consumer, message -> calls of the handler
    outcome       \* history: consumer, message -> result of the last call

vars == <<sent, queues, state, reader, messageQueue, worker, requeue,
          accepted, started, attempts, outcome>>

broker == <<sent, queues, accepted>>
history == <<started, attempts, outcome>>

memoryMessage == [id: Messages, retries: Nat]

\* m: the message in the hands of a busy worker
\* timer: the goroutine retryPostTimeout of the message still waits
Worker == [pc: {"off", "idle", "busy", "done"}, m: memoryMessage \cup {None}, timer: BOOLEAN]

At(pc) == [pc |-> pc, m |-> None, timer |-> FALSE]

TypeOK ==
    /\ sent \subseteq Messages
    /\ \A g \in Groups :
          /\ queues[g] = None \/ (queues[g] \in Seq(Messages) /\ Len(queues[g]) <= queueSize)
          /\ messageQueue[g] \in Seq(memoryMessage) /\ Len(messageQueue[g]) <= queueCapacity
          /\ requeue[g] \subseteq memoryMessage
          /\ accepted[g] \in Seq(Messages) /\ started[g] \in Seq(Messages)
    /\ state \in [Groups -> {"new", "started", "canceled", "closed"}]
    /\ reader \in [Groups -> Messages \cup {"off", "on", "done"}]
    /\ worker \in [Groups -> [Workers -> Worker]]
    /\ attempts \in [Groups -> [Messages -> Nat]]
    /\ outcome \in [Groups -> [Messages -> {"none", "ok", "failed"}]]

Init ==
    /\ sent = {}
    /\ queues = [g \in Groups |-> None]
    /\ state = [g \in Groups |-> "new"]
    /\ reader = [g \in Groups |-> "off"]
    /\ messageQueue = [g \in Groups |-> <<>>]
    /\ worker = [g \in Groups |-> [w \in Workers |-> At("off")]]
    /\ requeue = [g \in Groups |-> {}]
    /\ accepted = [g \in Groups |-> <<>>]
    /\ started = [g \in Groups |-> <<>>]
    /\ attempts = [g \in Groups |-> [m \in Messages |-> 0]]
    /\ outcome = [g \in Groups |-> [m \in Messages |-> "none"]]

Idle(g, w) == worker[g][w].pc = "idle"
Busy(g, w) == worker[g][w].pc = "busy"
-----------------------------------------------------------------------------
(***************************************************************************)
(* Broker and producer                                                     *)
(***************************************************************************)

HasRoom(g) == queues[g] # None /\ Len(queues[g]) < queueSize

\* Variant: the queues take any number of messages.
enqueueUnbounded(m) ==
    /\ m \notin sent
    /\ sent' = sent \cup {m}
    /\ queues' = [g \in Groups |-> IF queues[g] # None THEN Append(queues[g], m) ELSE queues[g]]
    /\ accepted' = [g \in Groups |-> IF queues[g] # None THEN Append(accepted[g], m) ELSE accepted[g]]
    /\ UNCHANGED <<state, reader, messageQueue, worker, requeue, history>>

\* All groups that exist and whose queue is not full get the message.
enqueue(m) ==
    /\ m \notin sent
    /\ sent' = sent \cup {m}
    /\ queues' = [g \in Groups |-> IF HasRoom(g) THEN Append(queues[g], m) ELSE queues[g]]
    /\ accepted' = [g \in Groups |-> IF HasRoom(g) THEN Append(accepted[g], m) ELSE accepted[g]]
    /\ UNCHANGED <<state, reader, messageQueue, worker, requeue, history>>

\* The stream ID is the same for all: namespaces are left out.
Send(m) == enqueue(m)
-----------------------------------------------------------------------------
(***************************************************************************)
(* Life of a consumer                                                      *)
(***************************************************************************)

Start(g) ==
    /\ state[g] = "new"
    /\ state' = [state EXCEPT ![g] = "started"]
    /\ worker' = [worker EXCEPT ![g] = [w \in Workers |-> At("idle")]]
    /\ UNCHANGED <<broker, reader, messageQueue, requeue, history>>

\* The group exists from the moment its reader goroutine gets to run.
messages(g) ==
    /\ state[g] # "new"
    /\ reader[g] = "off"
    /\ queues' = [queues EXCEPT ![g] = <<>>]
    /\ reader' = [reader EXCEPT ![g] = "on"]
    /\ UNCHANGED <<sent, accepted, state, messageQueue, worker, requeue, history>>

\* The context of the consumer is canceled.
Cancel(g) ==
    /\ state[g] = "started"
    /\ state' = [state EXCEPT ![g] = "canceled"]
    /\ UNCHANGED <<broker, reader, messageQueue, worker, requeue, history>>

\* Variant: the reader does not watch its context.
readerStays(g) ==
    /\ state[g] = "closed"
    /\ reader' = [reader EXCEPT ![g] = "done"]
    /\ UNCHANGED <<broker, state, messageQueue, worker, requeue, history>>

readerDone(g) ==
    /\ state[g] = "canceled"
    /\ reader[g] = "on"
    /\ reader' = [reader EXCEPT ![g] = "done"]
    /\ UNCHANGED <<broker, state, messageQueue, worker, requeue, history>>

workerDone(g, w) ==
    /\ state[g] = "canceled"
    /\ Idle(g, w)
    /\ worker' = [worker EXCEPT ![g][w] = At("done")]
    /\ UNCHANGED <<broker, state, reader, messageQueue, requeue, history>>

\* wg.Wait() is over: the channels are closed. What a goroutine of
\* retryMessage sends from now on panics: it never arrives.
Close(g) ==
    /\ state[g] = "canceled"
    /\ reader[g] = "done" /\ \A w \in Workers : worker[g][w].pc = "done"
    /\ state' = [state EXCEPT ![g] = "closed"]
    /\ UNCHANGED <<broker, reader, messageQueue, worker, requeue, history>>
-----------------------------------------------------------------------------
(***************************************************************************)
(* Reader, workers, retries                                                *)
(***************************************************************************)

\* The select of the reader may prefer a message to the end of the context.
readerTakes(g) ==
    /\ reader[g] = "on"
    /\ queues[g] # <<>>
    /\ reader' = [reader EXCEPT ![g] = Head(queues[g])]
    /\ queues' = [queues EXCEPT ![g] = Tail(queues[g])]
    /\ UNCHANGED <<sent, accepted, state, messageQueue, worker, requeue, history>>

\* Variant: a message that does not fit is dropped.
readerPutsOrDrops(g) ==
    /\ reader[g] \in Messages
    /\ messageQueue' = IF Len(messageQueue[g]) < queueCapacity
                       THEN [messageQueue EXCEPT ![g] = Append(@, [id |-> reader[g], retries |-> 0])]
                       ELSE messageQueue
    /\ reader' = [reader EXCEPT ![g] = "on"]
    /\ UNCHANGED <<broker, state, worker, requeue, history>>

\* c.messageQueue <- m blocks while the queue is full.
readerPuts(g) ==
    /\ reader[g] \in Messages
    /\ Len(messageQueue[g]) < queueCapacity
    /\ messageQueue' = [messageQueue EXCEPT ![g] = Append(@, [id |-> reader[g], retries |-> 0])]
    /\ reader' = [reader EXCEPT ![g] = "on"]
    /\ UNCHANGED <<broker, state, worker, requeue, history>>

\* A worker takes a message, arms its retry timer and calls the handler.
consume(g, w) ==
    /\ Idle(g, w)
    /\ messageQueue[g] # <<>>
    /\ LET m == Head(messageQueue[g]) IN
          /\ worker' = [worker EXCEPT ![g][w] = [pc |-> "busy", m |-> m, timer |-> TRUE]]
          /\ attempts' = [attempts EXCEPT ![g][m.id] = @ + 1]
          /\ started' = [started EXCEPT ![g] = IF m.retries = 0 THEN Append(@, m.id) ELSE @]
    /\ messageQueue' = [messageQueue EXCEPT ![g] = Tail(@)]
    /\ UNCHANGED <<broker, state, reader, requeue, outcome>>

\* Variant: one retry too many.
retryMessageOneMore(m) ==
    IF m.retries > maxRetries THEN {} ELSE {[m EXCEPT !.retries = @ + 1]}

\* A message that has used up its retries is discarded.
retryMessage(m) ==
    IF m.retries >= maxRetries THEN {} ELSE {[m EXCEPT !.retries = @ + 1]}

\* The handler takes longer than idleTimeout.
retryPostTimeout(g, w) ==
    /\ Busy(g, w)
    /\ worker[g][w].timer
    /\ requeue' = [requeue EXCEPT ![g] = @ \cup retryMessage(worker[g][w].m)]
    /\ worker' = [worker EXCEPT ![g][w].timer = FALSE]
    /\ UNCHANGED <<broker, state, reader, messageQueue, history>>

\* Variant: a worker does not survive a handler that fails.
processMessageDies(g, w, result) ==
    /\ Busy(g, w)
    /\ outcome' = [outcome EXCEPT ![g][worker[g][w].m.id] = result]
    /\ worker' = [worker EXCEPT ![g][w] = At(IF result = "ok" THEN "idle" ELSE "done")]
    /\ UNCHANGED <<broker, state, reader, messageQueue, requeue, started, attempts>>

\* The handler returns. The argument of the deferred function is evaluated
\* when it is deferred, before the handler runs: it is nil, and the retry
\* timer is canceled whatever the handler returns.
processMessage(g, w, result) ==
    /\ Busy(g, w)
    /\ outcome' = [outcome EXCEPT ![g][worker[g][w].m.id] = result]
    /\ worker' = [worker EXCEPT ![g][w] = At("idle")]
    /\ UNCHANGED <<broker, state, reader, messageQueue, requeue, started, attempts>>

requeueMessage(g, m) ==
    /\ m \in requeue[g]
    /\ state[g] # "closed"
    /\ Len(messageQueue[g]) < queueCapacity
    /\ messageQueue' = [messageQueue EXCEPT ![g] = Append(@, m)]
    /\ requeue' = [requeue EXCEPT ![g] = @ \ {m}]
    /\ UNCHANGED <<broker, state, reader, worker, history>>
-----------------------------------------------------------------------------
ReaderStep(g) == messages(g) \/ readerTakes(g) \/ readerPuts(g)

WorkerStep(g, w) ==
    consume(g, w) \/ \E result \in {"ok", "failed"} : processMessage(g, w, result)

Requeue(g) == \E m \in requeue[g] : requeueMessage(g, m)

ShutdownStep(g) ==
    Cancel(g) \/ readerDone(g) \/ Close(g) \/ \E w \in Workers : workerDone(g, w)

Next ==
    \/ \E m \in Messages : Send(m)
    \/ \E g \in Groups :
          \/ Start(g) \/ ReaderStep(g) \/ Requeue(g) \/ ShutdownStep(g)
          \/ \E w \in Workers : WorkerStep(g, w) \/ retryPostTimeout(g, w)

Spec == Init /\ [][Next]_vars

\* Goroutines are scheduled and handlers return.
FairSpec ==
    /\ Spec
    /\ \A g \in Groups :
          /\ WF_vars(ReaderStep(g) \/ readerDone(g)) /\ WF_vars(Requeue(g)) /\ WF_vars(Close(g))
          /\ \A w \in Workers : WF_vars(WorkerStep(g, w) \/ workerDone(g, w))
-----------------------------------------------------------------------------
\* The place of the i-th message of an inner queue among the first attempts in it.
Place(q, i) == Cardinality({k \in 1..i : q[k].retries = 0})

InHand(g) == IF reader[g] \in Messages THEN <<reader[g]>> ELSE <<>>

\* Between broker and handler nothing is lost, doubled or overtaken: the
\* messages a group has accepted are those its handler has been called for,
\* in that order, followed by those in the inner queue that are no retries,
\* in the hands of the reader and in the queue of the broker, whatever
\* retries come in between.
NothingLost ==
    \A g \in Groups : queues[g] # None =>
        LET q == messageQueue[g]
            first == Len(started[g])
            last == first + Place(q, Len(q))
        IN /\ SubSeq(accepted[g], 1, first) = started[g]
           /\ \A i \in 1..Len(q) :
                 q[i].retries = 0 => accepted[g][first + Place(q, i)] = q[i].id
           /\ last <= Len(accepted[g])
           /\ SubSeq(accepted[g], last + 1, Len(accepted[g])) = InHand(g) \o queues[g]

\* A group calls its handler for a message at most maxRetries + 1 times,
\* although a retry may be under way while the handler still runs.
AttemptsBounded ==
    \A g \in Groups, m \in Messages : attempts[g][m] <= maxRetries + 1

\* A message that a group has accepted is handled in the end, unless the
\* consumer is shut down.
Delivered ==
    \A g \in Groups, m \in Messages :
        (\E i \in 1..Len(accepted[g]) : accepted[g][i] = m) ~> (outcome[g][m] # "none" \/ state[g] # "started")

\* The reader has a message for the inner queue, which is full, and no worker is left.
ReaderStuck(g) ==
    /\ reader[g] \in Messages
    /\ Len(messageQueue[g]) = queueCapacity
    /\ \A w \in Workers : worker[g][w].pc = "done"

\* A consumer whose context is canceled ends: reader and workers return, wg.Wait is
\* over and the channels are closed, with slow handlers and retries under way. The
\* one exception is a reader that the workers leave behind in front of a full queue.
ShutdownEnds ==
    \A g \in Groups : state[g] = "canceled" ~> (state[g] = "closed" \/ ReaderStuck(g))

\* "If the original execution errors out, we rely on the timeout to retry": a
\* message whose handler fails is tried again until it succeeds or its
\* retries are used up.
FailedIsRetried ==
    \A g \in Groups, m \in Messages :
        outcome[g][m] = "failed" ~>
            (outcome[g][m] = "ok" \/ attempts[g][m] = maxRetries + 1 \/ state[g] # "started")
=============================================================================
