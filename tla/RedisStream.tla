---------------------------- MODULE RedisStream ----------------------------
(***************************************************************************)
(* The event stream on Redis (src/stream): producers that add messages to  *)
(* streams of bounded length, and the consumers of one consumer group, one *)
(* per instance of the server. Every consumer has a reader, a reclaimer    *)
(* that takes over the messages nobody acknowledged in time, a bounded     *)
(* queue, and workers that call the handler.                               *)
(*                                                                         *)
(* Redis itself is modelled from how the code uses it: the entries of the  *)
(* streams, the group with the ID last delivered, and the list of pending  *)
(* entries (delivered, not acknowledged) with consumer and delivery count. *)
(* IDs grow with time over all streams, so messages are numbered 1, 2, ... *)
(* in the order they are sent. Time is the order in which pending entries  *)
(* reach the idle timeout, which is the order of their last delivery.      *)
(***************************************************************************)
EXTENDS Integers, Sequences, FiniteSets, SequencesExt

CONSTANTS
    MaxMessages,    \* bound: messages sent
    StreamOf,       \* message -> its stream
    maxStreamLength,\* length the producer trims the streams to
    MaxConsumers,   \* bound: consumers of the group
    Workers,        \* Config.Concurrency worker goroutines per consumer
    queueCapacity,  \* of messageQueue
    maxRetries,     \* of the handlers
    MaxLoad,        \* bound: messages sent and consumers started, together
    MaxFaults,      \* bound: crashes, lost answers, removals of the group
    None

Messages == 1 .. MaxMessages
Consumers == 1 .. MaxConsumers     \* in the order they first start
Streams == {StreamOf[m] : m \in Messages}

ASSUME RedisAssumption ==
    /\ MaxMessages \in Nat /\ maxStreamLength \in Nat \ {0}
    /\ DOMAIN StreamOf = Messages
    /\ MaxConsumers \in Nat \ {0}
    /\ queueCapacity \in Nat \ {0} /\ maxRetries \in Nat /\ MaxFaults \in Nat
    /\ None \notin Nat

VARIABLES
    sent,       \* ID of the last message sent
    trimmed,    \* messages that left their stream because of its length
    group,      \* ID last delivered to the group, None if the group does not exist
    pel,        \* the pending entries of the group
    fresh,      \* pending messages below the idle timeout: a set for every time of
                \* delivery, in order
    consumer,   \* the instances of RedisConsumer
    base,       \* history: ID last sent when the group was created
    called,     \* history: messages a handler was called for
    handled,    \* history: messages a handler returned without error for
    exhausted,  \* history: messages delivered more than maxRetries times
    removed,    \* history: messages whose entry was deleted with a consumer
    missed,     \* history: messages whose last delivery no consumer has seen
    starts,     \* history: consumer -> processes started so far
    faults      \* faults so far

redis == <<sent, trimmed, group, pel, fresh>>
deliveries == <<pel, fresh, exhausted>>
history == <<base, called, handled, exhausted, removed, missed, starts>>
vars == <<redis, consumer, history, faults>>

Entry == [consumer: Consumers, count: Nat]

\* inspect: streams removeStaleConsumers has still to visit
\* stale:   consumers it found in the stream, still to delete
\* scan:    streamsArg of the reader, the ID to continue the history after, None for ">"
\* batch:   messages read and not yet in the queue
\* start:   of the reclaimer, 0 for "-"
\* streams: the reclaimer has still to visit in this round
\* pending: answer of XPENDING not yet worked off
\* claimed: message the reclaimer puts in the queue
\* acking:  message that left its stream, for the reclaimer to acknowledge
\* busy:    worker -> message it handles
Consumer ==
    [up: BOOLEAN, inspect: SUBSET Streams, stale: SUBSET (Streams \X Consumers),
     scan: Messages \cup {0, None}, batch: Seq(Messages), queue: Seq(Messages),
     start: Messages \cup {0}, streams: SUBSET Streams, pending: Seq([id: Messages, count: Nat]),
     claimed: Messages \cup {None}, acking: Messages \cup {None},
     busy: [Workers -> Messages \cup {None}]]

NewConsumer(up) ==
    [up |-> up, inspect |-> Streams, stale |-> {}, scan |-> 0, batch |-> <<>>, queue |-> <<>>,
     start |-> 0, streams |-> {}, pending |-> <<>>, claimed |-> None, acking |-> None,
     busy |-> [w \in Workers |-> None]]

TypeOK ==
    /\ sent \in Messages \cup {0} /\ trimmed \subseteq 1 .. sent
    /\ group \in 0 .. sent \cup {None}
    /\ DOMAIN pel \subseteq 1 .. sent /\ \A m \in DOMAIN pel : pel[m] \in Entry
    /\ \A i \in DOMAIN fresh :
          /\ fresh[i] # {} /\ fresh[i] \subseteq DOMAIN pel
          /\ \A j \in DOMAIN fresh \ {i} : fresh[i] \cap fresh[j] = {}
    /\ consumer \in [Consumers -> Consumer]
    /\ \A c \in Consumers : Len(consumer[c].queue) <= queueCapacity
    /\ base \in 0 .. sent
    /\ \A S \in {called, handled, exhausted, removed, missed} : S \subseteq 1 .. sent
    /\ starts \in [Consumers -> Nat]
    /\ faults \in 0 .. MaxFaults

Init ==
    /\ sent = 0 /\ trimmed = {} /\ group = None
    /\ pel = <<>> /\ fresh = <<>>
    /\ consumer = [c \in Consumers |-> NewConsumer(FALSE)]
    /\ base = 0 /\ called = {} /\ handled = {} /\ exhausted = {} /\ removed = {}
    /\ missed = {} /\ starts = [c \in Consumers |-> 0] /\ faults = 0

Set(c, r) == consumer' = [consumer EXCEPT ![c] = r]
Running == Cardinality({c \in Consumers : starts[c] > 0})
Fault == faults < MaxFaults /\ faults' = faults + 1
-----------------------------------------------------------------------------
(***************************************************************************)
(* Commands of Redis                                                       *)
(***************************************************************************)
Pending(m) == m \in DOMAIN pel
Idle(m) == Pending(m) /\ \A i \in DOMAIN fresh : m \notin fresh[i]

NonEmpty(sets) == SelectSeq(sets, LAMBDA S : S # {})
FreshWithout(ms) == NonEmpty([i \in DOMAIN fresh |-> fresh[i] \ ms])

\* XREADGROUP and XCLAIM: the messages ms are delivered to c, at the same time
Deliver(c, ms) ==
    /\ pel' = [m \in DOMAIN pel \cup Range(ms) |->
                  IF ~ Contains(ms, m) THEN pel[m]
                  ELSE [consumer |-> c, count |-> IF Pending(m) THEN pel[m].count + 1 ELSE 1]]
    /\ fresh' = FreshWithout(Range(ms)) \o NonEmpty(<<Range(ms)>>)
    /\ exhausted' = exhausted \cup {m \in Range(ms) : pel'[m].count > maxRetries}

\* The entries of the messages ms are no longer pending.
Forget(ms) ==
    /\ pel' = [m \in DOMAIN pel \ ms |-> pel[m]]
    /\ fresh' = FreshWithout(ms)
    /\ UNCHANGED exhausted

\* XACK, also of a message that is not pending or pending at another consumer. When it
\* fails the entry stays as it is.
XAck(m) ==
    \/ Forget({m}) /\ UNCHANGED faults
    \/ Fault /\ UNCHANGED deliveries

\* XGROUP CREATE with ID "$": the group starts behind the last message
createGroup == group' = sent /\ base' = sent

Sorted(S) == SetToSortSeq(S, <)

(***************************************************************************)
(* RedisProducer.Send: the oldest messages of the stream are trimmed, and  *)
(* approximate trimming may leave any number of them.                      *)
(***************************************************************************)
Send ==
    LET kept == {m \in 1 .. sent + 1 : StreamOf[m] = StreamOf[sent + 1]} \ trimmed
    IN  /\ sent < MaxMessages /\ sent + Running < MaxLoad
        /\ sent' = sent + 1
        /\ \E old \in SUBSET kept :
              /\ \A m \in old, n \in kept \ old : m < n
              /\ old # {} => Cardinality(kept \ old) >= maxStreamLength
              /\ trimmed' = trimmed \cup old
        /\ UNCHANGED <<group, pel, fresh, consumer, history, faults>>
-----------------------------------------------------------------------------
(***************************************************************************)
(* removeStaleConsumers, then reader: first the history of the consumer,   *)
(* then new messages                                                       *)
(***************************************************************************)
PendingAt(d, s) == {m \in DOMAIN pel : pel[m].consumer = d /\ StreamOf[m] = s}

\* XINFO CONSUMERS: the consumers with nothing pending, of instances that are down or of
\* the former process of c, are old if they have been idle for an hour. A running consumer
\* reads every five minutes. When XINFO fails the other streams are left out too.
XInfo(c, s) ==
    LET old == {d \in Consumers : /\ IF d = c THEN starts[d] > 1 ELSE starts[d] > 0 /\ ~ consumer[d].up
                                  /\ PendingAt(d, s) = {}}
    IN  /\ consumer[c].up /\ consumer[c].stale = {} /\ s \in consumer[c].inspect
        /\ \E stale \in SUBSET old, rest \in {{}, consumer[c].inspect \ {s}} :
              Set(c, [consumer[c] EXCEPT !.inspect = rest, !.stale = {s} \X stale])
        /\ UNCHANGED <<redis, history, faults>>

\* XGROUP DELCONSUMER takes away what is pending by now at the consumer. When it fails
\* the consumer might as well not have been old.
DelConsumer(c) ==
    /\ \E old \in consumer[c].stale :
          LET gone == PendingAt(old[2], old[1])
          IN  /\ Set(c, [consumer[c] EXCEPT !.stale = @ \ {old}])
              /\ Forget(gone)
              /\ removed' = removed \cup gone
    /\ UNCHANGED <<sent, trimmed, group, base, called, handled, missed, starts, faults>>

Reads(c) ==
    consumer[c].up /\ consumer[c].inspect = {} /\ consumer[c].stale = {} /\ consumer[c].batch = <<>>

\* The answer of XREADGROUP reaches the reader, or is lost: the messages are
\* then pending at c, which does not know of them.
Receive(c, ms, scan) ==
    \/ /\ Set(c, [consumer[c] EXCEPT !.batch = ms, !.scan = scan])
       /\ missed' = missed \ Range(ms)
       /\ UNCHANGED faults
    \/ /\ Fault
       /\ missed' = missed \cup Range(ms)
       /\ UNCHANGED consumer

\* XREADGROUP with an ID: the pending messages of c behind it. An entry that
\* was trimmed is returned without values and not counted as delivered.
ReadHistory(c) ==
    LET mine == Sorted({m \in DOMAIN pel : pel[m].consumer = c /\ m > consumer[c].scan})
    IN  /\ Reads(c) /\ group # None
        /\ consumer[c].scan # None
        /\ IF mine = <<>>
           THEN /\ Set(c, [consumer[c] EXCEPT !.scan = None])
                /\ UNCHANGED <<deliveries, missed, faults>>
           ELSE /\ Deliver(c, SelectSeq(mine, LAMBDA m : m \notin trimmed))
                /\ Receive(c, mine, Last(mine))
        /\ UNCHANGED <<sent, trimmed, group, base, called, handled, removed, starts>>

\* XREADGROUP with ">"
ReadNew(c) ==
    LET new == Sorted({m \in 1 .. sent : m > group} \ trimmed)
    IN  /\ Reads(c) /\ group # None
        /\ consumer[c].scan = None
        /\ new # <<>>
        /\ group' = sent
        /\ Deliver(c, new)
        /\ Receive(c, new, None)
        /\ UNCHANGED <<sent, trimmed, base, called, handled, removed, starts>>

\* NOGROUP: the group is created again
ReadNoGroup(c) ==
    /\ Reads(c) /\ group = None
    /\ createGroup
    /\ UNCHANGED <<sent, trimmed, deliveries, consumer, called, handled, removed, missed, starts, faults>>

\* Variant: the reader appends to the queue without waiting for room.
EnqueueUnbounded(c) ==
    /\ consumer[c].batch # <<>>
    /\ Set(c, [consumer[c] EXCEPT !.batch = Tail(@), !.queue = Append(@, Head(consumer[c].batch))])
    /\ UNCHANGED <<redis, history, faults>>

\* messageQueue <- message, blocks while the queue is full
EnqueueRead(c) ==
    /\ consumer[c].batch # <<>>
    /\ Len(consumer[c].queue) < queueCapacity
    /\ Set(c, [consumer[c] EXCEPT !.batch = Tail(@), !.queue = Append(@, Head(consumer[c].batch))])
    /\ UNCHANGED <<redis, history, faults>>
-----------------------------------------------------------------------------
(***************************************************************************)
(* reclaimer: one round visits the streams in any order. Fewer messages    *)
(* than baseCount are pending, so one XPENDING returns all of a stream.    *)
(***************************************************************************)
Free(c) == consumer[c].claimed = None /\ consumer[c].acking = None
Reclaims(c) == consumer[c].up /\ consumer[c].pending = <<>> /\ Free(c)

\* Variant: a consumer leaves its own pending messages to the others.
XPendingOfOthers(c, s) ==
    LET me == consumer[c]
        streams == IF me.streams = {} THEN Streams ELSE me.streams
        ids == Sorted({m \in DOMAIN pel : StreamOf[m] = s /\ Idle(m) /\ m >= me.start
                                          /\ pel[m].consumer # c})
    IN  /\ Reclaims(c)
        /\ s \in streams
        /\ Set(c, [me EXCEPT !.streams = streams \ {s},
                             !.start = IF ids = <<>> THEN @ ELSE Head(ids),
                             !.pending = [i \in 1 .. Len(ids) |->
                                             [id |-> ids[i], count |-> pel[ids[i]].count]]])
        /\ UNCHANGED <<redis, history, faults>>

XPending(c, s) ==
    LET me == consumer[c]
        streams == IF me.streams = {} THEN Streams ELSE me.streams
        ids == Sorted({m \in DOMAIN pel : StreamOf[m] = s /\ Idle(m) /\ m >= me.start})
    IN  /\ Reclaims(c)
        /\ s \in streams
        /\ Set(c, [me EXCEPT !.streams = streams \ {s},
                             !.start = IF ids = <<>> THEN @ ELSE Head(ids),
                             !.pending = [i \in 1 .. Len(ids) |->
                                             [id |-> ids[i], count |-> pel[ids[i]].count]]])
        /\ UNCHANGED <<redis, history, faults>>

Works(c) == consumer[c].pending # <<>> /\ Free(c)
First(c) == Head(consumer[c].pending)
NextPending(c) == [consumer[c] EXCEPT !.pending = Tail(@)]

\* Variant: a message is claimed however often it was delivered.
RetryAlways(c) == First(c).count > 0

Retry(c) == First(c).count <= maxRetries

\* Too many deliveries: the message is acknowledged unhandled
Discard(c) ==
    /\ Works(c) /\ ~ Retry(c)
    /\ XAck(First(c).id)
    /\ Set(c, NextPending(c))
    /\ UNCHANGED <<sent, trimmed, group, base, called, handled, removed, missed, starts>>

\* XCLAIM of a message that left its stream: newer versions of Redis remove its entry,
\* older ones deliver it to c and answer with nil.
ClaimTrimmed(c) ==
    LET m == First(c).id
    IN  /\ Works(c) /\ Retry(c)
        /\ Idle(m) /\ m \in trimmed
        /\ \/ Forget({m}) /\ Set(c, NextPending(c)) /\ UNCHANGED missed
           \/ /\ Deliver(c, <<m>>)
              /\ Set(c, [NextPending(c) EXCEPT !.acking = m])
              /\ missed' = missed \cup {m}
        /\ UNCHANGED <<sent, trimmed, group, base, called, handled, removed, starts, faults>>

\* redis.Nil: "The only option is to acknowledge it with XACK."
AckTrimmed(c) ==
    /\ consumer[c].acking # None
    /\ XAck(consumer[c].acking)
    /\ Set(c, [consumer[c] EXCEPT !.acking = None])
    /\ UNCHANGED <<sent, trimmed, group, base, called, handled, removed, missed, starts>>

\* XCLAIM fails, or the message was acknowledged or delivered since XPENDING
ClaimNothing(c) ==
    /\ Works(c) /\ Retry(c)
    /\ \/ ~ Idle(First(c).id) /\ UNCHANGED faults
       \/ Fault
    /\ Set(c, NextPending(c))
    /\ UNCHANGED <<redis, history>>

\* XCLAIM delivers the message to c; its answer may be lost
Claim(c) ==
    LET m == First(c).id
    IN  /\ Works(c) /\ Retry(c)
        /\ Idle(m) /\ m \notin trimmed
        /\ Deliver(c, <<m>>)
        /\ \/ /\ Set(c, [NextPending(c) EXCEPT !.claimed = m])
              /\ missed' = missed \ {m}
              /\ UNCHANGED faults
           \/ /\ Fault
              /\ Set(c, NextPending(c))
              /\ missed' = missed \cup {m}
        /\ UNCHANGED <<sent, trimmed, group, base, called, handled, removed, starts>>

EnqueueClaimed(c) ==
    /\ consumer[c].claimed # None
    /\ Len(consumer[c].queue) < queueCapacity
    /\ Set(c, [consumer[c] EXCEPT !.claimed = None, !.queue = Append(@, consumer[c].claimed)])
    /\ UNCHANGED <<redis, history, faults>>
-----------------------------------------------------------------------------
(***************************************************************************)
(* consumer: the worker goroutines                                         *)
(***************************************************************************)
Take(c, w) ==
    LET me == consumer[c]
        m == Head(me.queue)
    IN  /\ me.queue # <<>> /\ me.busy[w] = None
        /\ Set(c, [me EXCEPT !.queue = Tail(@), !.busy[w] = m])
        /\ called' = called \cup {m}
        /\ UNCHANGED <<redis, base, handled, exhausted, removed, missed, starts, faults>>

Done(c, w) ==
    /\ consumer[c].busy[w] # None
    /\ Set(c, [consumer[c] EXCEPT !.busy[w] = None])
    /\ UNCHANGED <<sent, trimmed, group, base, called, removed, missed, starts>>

\* Variant: a message is acknowledged also when its handler failed.
AckAnyway(c, w) ==
    /\ Done(c, w)
    /\ XAck(consumer[c].busy[w])
    /\ UNCHANGED handled

HandlerFails(c, w) ==
    /\ Done(c, w)
    /\ UNCHANGED <<deliveries, handled, faults>>

\* The handler returns without error, or panics, which counts as no error
HandlerReturns(c, w) ==
    /\ Done(c, w)
    /\ XAck(consumer[c].busy[w])
    /\ handled' = handled \cup {consumer[c].busy[w]}
-----------------------------------------------------------------------------
(***************************************************************************)
(* Time, and the faults of instances and of Redis                          *)
(***************************************************************************)
IdleTimeout ==
    /\ fresh # <<>>
    /\ fresh' = Tail(fresh)
    /\ UNCHANGED <<sent, trimmed, group, pel, consumer, history, faults>>

Crash(c) ==
    /\ consumer[c].up /\ Fault
    /\ Set(c, NewConsumer(FALSE))
    /\ UNCHANGED <<redis, history>>

\* Variant: the reader of a new process asks for new messages at once.
StartWithoutHistory(c) ==
    /\ ~ consumer[c].up
    /\ Set(c, [NewConsumer(TRUE) EXCEPT !.scan = None])
    /\ starts[c] = 0 => c = Running + 1 /\ sent + Running < MaxLoad
    /\ starts' = [starts EXCEPT ![c] = @ + 1]
    /\ IF group = None THEN createGroup ELSE UNCHANGED <<group, base>>
    /\ UNCHANGED <<sent, trimmed, deliveries, called, handled, removed, missed, faults>>

\* Start of the new process, under the name of the old one
Start(c) ==
    /\ ~ consumer[c].up
    /\ Set(c, NewConsumer(TRUE))
    /\ starts[c] = 0 => c = Running + 1 /\ sent + Running < MaxLoad
    /\ starts' = [starts EXCEPT ![c] = @ + 1]
    /\ IF group = None THEN createGroup ELSE UNCHANGED <<group, base>>
    /\ UNCHANGED <<sent, trimmed, deliveries, called, handled, removed, missed, faults>>

RemoveGroup ==
    /\ group # None /\ Fault
    /\ group' = None /\ pel' = <<>> /\ fresh' = <<>>
    /\ UNCHANGED <<sent, trimmed, consumer, history>>
-----------------------------------------------------------------------------
Reader(c) ==
    \/ \E s \in Streams : XInfo(c, s)
    \/ DelConsumer(c)
    \/ ReadHistory(c) \/ ReadNew(c) \/ ReadNoGroup(c) \/ EnqueueRead(c)

Reclaimer(c) ==
    \/ \E s \in Streams : XPending(c, s)
    \/ Discard(c) \/ ClaimTrimmed(c) \/ AckTrimmed(c) \/ ClaimNothing(c) \/ Claim(c) \/ EnqueueClaimed(c)

Worker(c, w) == Take(c, w) \/ HandlerFails(c, w) \/ HandlerReturns(c, w)

Next ==
    \/ Send \/ IdleTimeout \/ RemoveGroup
    \/ \E c \in Consumers :
          \/ Reader(c) \/ Reclaimer(c) \/ Crash(c) \/ Start(c)
          \/ \E w \in Workers : Worker(c, w)

Spec == Init /\ [][Next]_vars

\* The goroutines run, time passes, handlers return and instances come back
Fairness ==
    /\ WF_vars(IdleTimeout)
    /\ \A c \in Consumers :
          /\ WF_vars(Reader(c)) /\ WF_vars(Reclaimer(c)) /\ WF_vars(Start(c))
          /\ \A w \in Workers : WF_vars(Worker(c, w))

FairSpec == Spec /\ Fairness
-----------------------------------------------------------------------------
\* A message delivered to the group stays pending until a handler has returned
\* without error, it was delivered more than maxRetries times, or it left its
\* stream: no answer that is lost, crash, or acknowledgement from another consumer
\* loses it. What removeStaleConsumers deletes with a consumer that is back since
\* XINFO is exempt: see the README.
NothingLost ==
    \A m \in 1 .. sent :
        group # None /\ m \in base + 1 .. group =>
            Pending(m) \/ m \in handled \cup exhausted \cup trimmed \cup removed

InMemory(c, m) ==
    \/ Contains(consumer[c].batch \o consumer[c].queue, m)
    \/ m = consumer[c].claimed
    \/ \E w \in Workers : consumer[c].busy[w] = m

\* Restarts are seamless: once a consumer has scanned its history, every message
\* pending at it that no handler was called for is in its memory, unless the
\* answer that delivered it was lost.
Recovered ==
    \A c \in Consumers, m \in DOMAIN pel :
        /\ consumer[c].up /\ consumer[c].scan = None
        /\ pel[m].consumer = c /\ m \notin called /\ m \notin missed
        => InMemory(c, m)

\* A message is delivered at most maxRetries + 1 times, once more for every other consumer,
\* whose answer of XPENDING may be stale when it claims, and once more for every process but
\* the one that reads it as new, and for every answer lost, when the history is read again.
RetriesBounded ==
    \A m \in DOMAIN pel :
        pel[m].count < maxRetries + Running + SumFunction(starts) + faults

Skipped(m) ==
    LET running == {c \in Consumers : consumer[c].up}
    IN  running # {} /\ \A c \in running : m < consumer[c].start

Ended(m) ==
    \/ group # None /\ m <= group /\ ~ Pending(m)
    \/ m \in trimmed
    \/ Skipped(m)

\* Once the producers are silent every message is, in the end, delivered and no longer
\* pending (NothingLost says why), or trimmed, through failing handlers, crashes and
\* lost answers, unless every running reclaimer has moved its start past it.
MessagesEnd == <>[] \A m \in 1 .. sent : Ended(m)

\* "It's safe to change start of the requested range for the next iteration to
\* oldest message": no idle message is below the start of a reclaimer.
StartCoversIdle ==
    \A c \in Consumers, m \in DOMAIN pel : Idle(m) => m >= consumer[c].start
=============================================================================
