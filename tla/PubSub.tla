------------------------------- MODULE PubSub -------------------------------
(***************************************************************************)
(* The in-memory publish/subscribe service (src/pubsub/inmem.go): a        *)
(* registry of subscribers, each with a goroutine that makes the channel   *)
(* and calls the handler, and publishers that start a goroutine for every  *)
(* subscriber of a topic and wait for all of them. Its users are the       *)
(* composed specifications, which say who publishes what and what the      *)
(* handlers do. The registry has fewer than 16 subscribers, so that the    *)
(* slice Publish reads without the mutex is never moved.                   *)
(***************************************************************************)
EXTENDS Integers, Sequences

CONSTANTS
    Publishers,     \* callers of Publish
    Subscribers,
    TopicOf,        \* subscriber -> its topic
    Payloads,
    channelSize,
    None

ASSUME PubSubAssumption ==
    /\ DOMAIN TopicOf = Subscribers
    /\ channelSize \in Nat \ {0}
    /\ None \notin Payloads /\ None \notin Seq(Payloads)

VARIABLES
    registry,       \* the subscribers of InMemory.registry
    channel,        \* subscriber -> inMemorySubscriber.channel, None while nil
    closed,         \* subscribers whose closed flag is set
    shut,           \* subscribers whose channel is closed
    sends           \* goroutines of Publish: at most one per publisher and subscriber

bus == <<registry, channel, closed, shut, sends>>

Topics == {TopicOf[s] : s \in Subscribers}
Send == [by: Publishers, to: Subscribers, payload: Payloads]

PubSubTypeOK ==
    /\ registry \subseteq Subscribers /\ closed \subseteq registry /\ shut \subseteq closed
    /\ \A s \in Subscribers :
          /\ channel[s] # None => channel[s] \in Seq(Payloads) /\ Len(channel[s]) <= channelSize
          /\ s \notin registry => channel[s] = None
    /\ sends \subseteq Send /\ \A g \in sends : g.to \in registry
    /\ \A g, h \in sends : g.by = h.by /\ g.to = h.to => g = h

\* Subscribers of the services are registered when the server is wired
PubSubInit(wired) ==
    /\ registry = wired
    /\ channel = [s \in Subscribers |-> None]
    /\ closed = {} /\ shut = {} /\ sends = {}
-----------------------------------------------------------------------------
Subscribe(s) ==
    /\ s \notin registry
    /\ registry' = registry \cup {s}
    /\ UNCHANGED <<channel, closed, shut, sends>>

\* start: the goroutine of the subscriber makes the channel
MakeChannel(s) ==
    /\ s \in registry /\ channel[s] = None
    /\ channel' = [channel EXCEPT ![s] = <<>>]
    /\ UNCHANGED <<registry, closed, shut, sends>>

\* start: the next message; the user of the module says what the handler does
Receive(s) ==
    /\ channel[s] # None /\ channel[s] # <<>>
    /\ channel' = [channel EXCEPT ![s] = Tail(@)]
    /\ UNCHANGED <<registry, closed, shut, sends>>

Receivers(topic) == {s \in registry \ closed : TopicOf[s] = topic}

Publish(p, topic, payload) ==
    /\ sends' = sends \cup {[by |-> p, to |-> s, payload |-> payload] : s \in Receivers(topic)}
    /\ UNCHANGED <<registry, channel, closed, shut>>

\* wg.Wait of Publish is over
Published(p) == \A g \in sends : g.by # p

\* Variant: a channel takes one message too many.
HasRoomForOneMore(s) == channel[s] # None /\ Len(channel[s]) <= channelSize

HasRoom(s) == channel[s] # None /\ Len(channel[s]) < channelSize

SendAccepted(g) ==
    /\ g.to \notin shut /\ HasRoom(g.to)
    /\ channel' = [channel EXCEPT ![g.to] = Append(@, g.payload)]
    /\ sends' = sends \ {g}
    /\ UNCHANGED <<registry, closed, shut>>

\* The timer of the goroutine fires, or the context of the publisher is done
SendDropped(g) ==
    /\ sends' = sends \ {g}
    /\ UNCHANGED <<registry, channel, closed, shut>>

\* A send on a closed channel panics in the goroutine of Publish, and the process
\* is started again
SendPanics(g, wired) ==
    /\ g.to \in shut
    /\ registry' = wired
    /\ channel' = [s \in Subscribers |-> None]
    /\ closed' = {} /\ shut' = {} /\ sends' = {}

\* While the channel is nil, close panics in the caller, which recovers: the flag
\* is set, and the channel made later is never closed.
Close(s) ==
    /\ s \in registry \ closed
    /\ closed' = closed \cup {s}
    /\ shut' = IF channel[s] = None THEN shut ELSE shut \cup {s}
    /\ UNCHANGED <<registry, channel, sends>>
=============================================================================
