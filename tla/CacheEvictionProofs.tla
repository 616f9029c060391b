------------------------ MODULE CacheEvictionProofs ------------------------
(***************************************************************************)
(* The cache of repositories, for any number of keys, readers, publishers  *)
(* and subscribers, channels of any size and any maximal age: a call       *)
(* returns nothing older than maxAge, and with a database that has a       *)
(* global lock every stale entry is about to be evicted.                   *)
(***************************************************************************)
EXTENDS CacheEviction, TLAPS

-----------------------------------------------------------------------------
(* Sequences *)

\* Append and Tail, by the elements they keep.
LEMMA AppendElements ==
    ASSUME NEW S, NEW s \in Seq(S), NEW e \in S
    PROVE  /\ Append(s, e) \in Seq(S) /\ Len(s) \in Nat /\ Len(Append(s, e)) = Len(s) + 1
           /\ \A i \in DOMAIN s : i \in DOMAIN Append(s, e) /\ Append(s, e)[i] = s[i]
           /\ Len(s) + 1 \in DOMAIN Append(s, e) /\ Append(s, e)[Len(s) + 1] = e
  OBVIOUS

LEMMA TailElements ==
    ASSUME NEW S, NEW s \in Seq(S), s # <<>>
    PROVE  /\ Head(s) \in S /\ Tail(s) \in Seq(S) /\ Len(Tail(s)) <= Len(s)
           /\ \A i \in DOMAIN s : s[i] = Head(s) \/ \E j \in DOMAIN Tail(s) : Tail(s)[j] = s[i]
<1>1. /\ Head(s) \in S /\ Head(s) = s[1] /\ Tail(s) \in Seq(S) /\ Len(s) \in Nat
      /\ Len(Tail(s)) = Len(s) - 1 /\ DOMAIN s = 1..Len(s) /\ DOMAIN Tail(s) = 1..Len(Tail(s))
      /\ \A i \in 1..Len(Tail(s)) : Tail(s)[i] = s[i + 1]
  OBVIOUS
<1>2. \A i \in DOMAIN s : i # 1 => i - 1 \in DOMAIN Tail(s) /\ Tail(s)[i - 1] = s[i]
  BY ONLY <1>1
<1>3. \A i \in DOMAIN s : s[i] = Head(s) \/ \E j \in DOMAIN Tail(s) : Tail(s)[j] = s[i]
  BY ONLY <1>1, <1>2, Zenon
<1>4. Len(Tail(s)) <= Len(s)
  BY ONLY <1>1
<1> QED BY <1>1, <1>3, <1>4, Zenon

-----------------------------------------------------------------------------
(* Types *)

BusTypes ==
    /\ PubSubTypeOK
    /\ channel \in [Subscribers -> Seq(Payloads) \cup {None}]

CacheTypes ==
    /\ now \in 0 .. MaxTime /\ changes \in 0 .. MaxChanges
    /\ replaced \in [Keys -> Seq(0 .. MaxTime)]
    /\ cache \in [Keys -> cacheEntry \cup {None}]
    /\ reader \in [Readers -> Reader]
    /\ publisher \in [Publishers -> Publisher]

\* A call that has found its missing keys has a value of each.
Ready ==
    \A r \in Readers : reader[r].pc = "put" =>
        \A k \in reader[r].missing : reader[r].m[k] \in Nat

\* What a request is about to publish has a topic and a payload, and it goes on as it was
\* meant to.
Sound(request) ==
    /\ request.pc = "idle" => request = NoRequest
    /\ request.pc = "publish" =>
          /\ request.topic \in {"repo", "space"} /\ request.payload \in Payloads
          /\ request.topic = "repo" => request.payload \in Keys
    /\ request.pc \in {"commit", "purge"} => request.then = request.pc
    /\ request.then = "purge" => request.payload \in Keys

\* A request waits for its goroutines before it goes on.
Requests ==
    \A p \in Publishers :
        Sound(publisher[p]) /\ (publisher[p].pc # "wait" => Published(p))

\* The caches stay subscribed, and repositories are evicted one by one.
Routing ==
    /\ Wired \subseteq registry /\ closed \cap Wired = {}
    /\ \A g \in sends : TopicOf[g.to] = "repo" => g.payload \in Keys
    /\ \A s \in Subscribers : TopicOf[s] = "repo" /\ channel[s] # None => channel[s] \in Seq(Keys)

Types == BusTypes /\ CacheTypes /\ Ready /\ Requests /\ Routing

LEMMA TopicCases ==
    ASSUME NEW s \in Subscribers
    PROVE  /\ TopicOf[s] \in {"repo", "space", "event"}
           /\ Streaming(s) <=> TopicOf[s] = "event"
  BY CacheAssumption, Zenon DEF Topics, Streaming

LEMMA AffectedKeys ==
    ASSUME NEW payload \in Payloads PROVE Affected(payload) \subseteq Keys
  BY CacheAssumption, Zenon DEF Affected

LEMMA NoRequestSound == NoRequest \in Publisher /\ NoRequest.pc = "idle" /\ Sound(NoRequest)
<1>1. /\ NoRequest.pc = "idle" /\ NoRequest.then = "idle" /\ NoRequest.topic = None
      /\ NoRequest.payload = None /\ NoRequest.repos = {}
  BY Zenon DEF NoRequest
<1>2. NoRequest \in Publisher
  BY Zenon DEF NoRequest, Publisher
<1> QED BY <1>1, <1>2, Zenon DEF Sound

LEMMA InitTypes == Init => Types
<1> SUFFICES ASSUME Init PROVE Types
  BY Zenon
<1>1. BusTypes
  BY Zenon DEF Init, PubSubInit, BusTypes, PubSubTypeOK, Wired
<1>2. CacheTypes
  <2>1. publisher \in [Publishers -> Publisher]
    BY NoRequestSound, Zenon DEF Init
  <2> QED BY <2>1, CacheAssumption DEF Init, CacheTypes, NoCall, Reader
<1>3. Requests
  BY NoRequestSound, Zenon DEF Init, PubSubInit, Requests, Published
<1>4. Routing
  BY Zenon DEF Init, PubSubInit, Routing
<1>5. Ready
  BY Zenon DEF Init, Ready, NoCall
<1> QED BY <1>1, <1>2, <1>3, <1>4, <1>5, Zenon DEF Types

-----------------------------------------------------------------------------
(* The steps of the service *)

LEMMA SubscribeTypes ==
    ASSUME BusTypes, NEW s \in Subscribers, Subscribe(s) PROVE BusTypes'
  BY Zenon DEF BusTypes, PubSubTypeOK, Subscribe

LEMMA MakeTypes ==
    ASSUME BusTypes, NEW s \in Subscribers, MakeChannel(s) PROVE BusTypes'
<1>1. channel' \in [Subscribers -> Seq(Payloads) \cup {None}]
  BY DEF BusTypes, MakeChannel
<1>2. \A t \in Subscribers : channel'[t] = IF t = s THEN <<>> ELSE channel[t]
  BY Zenon DEF BusTypes, MakeChannel
<1>3. <<>> \in Seq(Payloads) /\ Len(<<>>) = 0
  OBVIOUS
<1> QED BY <1>1, <1>2, <1>3, PubSubAssumption DEF BusTypes, PubSubTypeOK, MakeChannel

LEMMA ReceiveTypes ==
    ASSUME BusTypes, NEW s \in Subscribers, Receive(s)
    PROVE  /\ BusTypes' /\ channel[s] \in Seq(Payloads) /\ Head(channel[s]) \in Payloads
           /\ channel' = [channel EXCEPT ![s] = Tail(channel[s])]
           /\ UNCHANGED <<registry, closed, shut, sends>>
<1> PICK c : c = channel[s]
  BY Zenon
<1>1. c \in Seq(Payloads) /\ c # <<>> /\ Len(c) <= channelSize /\ s \in registry
  BY Zenon DEF BusTypes, PubSubTypeOK, Receive
<1>2. Tail(c) \in Seq(Payloads) /\ Len(Tail(c)) <= Len(c) /\ Head(c) \in Payloads
  BY <1>1, TailElements, Zenon
<1>3. Len(Tail(c)) <= channelSize
  BY <1>1, <1>2, PubSubAssumption
<1>4. channel' = [channel EXCEPT ![s] = Tail(c)] /\ UNCHANGED <<registry, closed, shut, sends>>
  BY Zenon DEF Receive
<1>5. /\ channel' \in [Subscribers -> Seq(Payloads) \cup {None}]
      /\ \A t \in Subscribers : channel'[t] = IF t = s THEN Tail(c) ELSE channel[t]
  BY <1>2, <1>4, Zenon DEF BusTypes
<1>6. BusTypes'
  BY <1>1, <1>2, <1>3, <1>4, <1>5 DEF BusTypes, PubSubTypeOK
<1> QED BY <1>1, <1>2, <1>4, <1>6, Zenon

LEMMA PublishTypes ==
    ASSUME BusTypes, NEW p \in Publishers, NEW topic, NEW payload \in Payloads,
           Published(p), Publish(p, topic, payload)
    PROVE  BusTypes'
<1>1. \A g \in sends' : g \in sends \/
         (g.by = p /\ g.payload = payload /\ g.to \in registry /\ g \in Send
          /\ g = [by |-> p, to |-> g.to, payload |-> payload])
  BY DEF Publish, Receivers, Send, BusTypes, PubSubTypeOK
<1>2. \A g \in sends : g.by # p
  BY Zenon DEF Published
<1>3. \A g, h \in sends' : g.by = h.by /\ g.to = h.to => g = h
  BY <1>1, <1>2, Zenon DEF BusTypes, PubSubTypeOK
<1>4. sends' \subseteq Send /\ \A g \in sends' : g.to \in registry
  BY <1>1, Zenon DEF BusTypes, PubSubTypeOK
<1> QED BY <1>3, <1>4, Zenon DEF BusTypes, PubSubTypeOK, Publish

LEMMA AcceptTypes ==
    ASSUME BusTypes, NEW g \in sends, SendAccepted(g)
    PROVE  /\ BusTypes' /\ g.to \in Subscribers /\ g.payload \in Payloads
           /\ channel[g.to] \in Seq(Payloads)
           /\ channel' = [channel EXCEPT ![g.to] = Append(channel[g.to], g.payload)]
<1> PICK s : s = g.to
  BY Zenon
<1> PICK c : c = channel[s]
  BY Zenon
<1>1. s \in Subscribers /\ s \in registry /\ g.payload \in Payloads
  BY Zenon DEF BusTypes, PubSubTypeOK, Send
<1>2. c \in Seq(Payloads) /\ Len(c) < channelSize /\ Len(c) \in Nat
  BY <1>1 DEF BusTypes, PubSubTypeOK, SendAccepted, HasRoom
<1>3. Append(c, g.payload) \in Seq(Payloads) /\ Len(Append(c, g.payload)) = Len(c) + 1
  BY <1>1, <1>2, AppendElements
<1>4. Len(Append(c, g.payload)) <= channelSize
  BY <1>2, <1>3, PubSubAssumption
<1>5. channel' = [channel EXCEPT ![s] = Append(c, g.payload)]
  BY Zenon DEF SendAccepted
<1>6. /\ channel' \in [Subscribers -> Seq(Payloads) \cup {None}]
      /\ \A t \in Subscribers : channel'[t] = IF t = s THEN Append(c, g.payload) ELSE channel[t]
  BY <1>1, <1>3, <1>5, Zenon DEF BusTypes
<1>7. sends' \subseteq sends /\ UNCHANGED <<registry, closed, shut>>
  BY Zenon DEF SendAccepted
<1>8. BusTypes'
  BY <1>1, <1>3, <1>4, <1>6, <1>7, Zenon DEF BusTypes, PubSubTypeOK
<1> QED BY <1>1, <1>2, <1>5, <1>8, Zenon

LEMMA DropTypes ==
    ASSUME BusTypes, NEW g \in sends, SendDropped(g) PROVE BusTypes'
  BY Zenon DEF BusTypes, PubSubTypeOK, SendDropped

LEMMA PanicTypes ==
    ASSUME BusTypes, NEW g, SendPanics(g, Wired) PROVE BusTypes'
  BY Zenon DEF BusTypes, PubSubTypeOK, SendPanics, Wired

LEMMA CloseTypes ==
    ASSUME BusTypes, NEW s, Close(s) PROVE BusTypes'
  BY Zenon DEF BusTypes, PubSubTypeOK, Close

-----------------------------------------------------------------------------
(* The steps of readers, requests and handlers keep the types *)

\* Variables of the service and the requests are left alone.
LEMMA QuietTypes ==
    ASSUME Types, UNCHANGED <<bus, publisher>>, CacheTypes', Ready' PROVE Types'
  BY Zenon DEF Types, BusTypes, PubSubTypeOK, Requests, Routing, Published, Wired, Streaming, bus

\* One call goes on.
LEMMA CallTypes ==
    ASSUME Types, NEW r \in Readers, NEW me \in Reader, reader' = [reader EXCEPT ![r] = me],
           me.pc = "put" => \A k \in me.missing : me.m[k] \in Nat,
           UNCHANGED <<bus, now, replaced, publisher, changes>>,
           cache' \in [Keys -> cacheEntry \cup {None}]
    PROVE  Types'
<1>1. CacheTypes' /\ \A q \in Readers : reader'[q] = IF q = r THEN me ELSE reader[q]
  BY Zenon DEF Types, CacheTypes
<1>2. Ready'
  BY <1>1 DEF Types, Ready
<1> QED BY <1>1, <1>2, QuietTypes, Zenon

LEMMA ReaderTypes ==
    ASSUME Types,
           \/ \E r \in Readers :
                 \/ \E keys \in SUBSET Keys : Call(r, keys)
                 \/ \E k \in Keys : fetch(r, k)
                 \/ Return(r) \/ Find(r) \/ Put(r)
           \/ purger \/ Tick
    PROVE  Types'
<1>n. NoCall \in Reader /\ NoCall.pc = "idle"
  BY Zenon DEF NoCall, Reader
<1>t. CacheTypes /\ cache \in [Keys -> cacheEntry \cup {None}] /\ reader \in [Readers -> Reader]
  BY Zenon DEF Types, CacheTypes
<1>1. ASSUME NEW r \in Readers, NEW keys \in SUBSET Keys, Call(r, keys) PROVE Types'
  <2> PICK me : me = [NoCall EXCEPT !.pc = "fetch", !.now = now, !.todo = keys]
    BY Zenon
  <2>1. now \in Nat
    BY <1>t, CacheAssumption DEF CacheTypes
  <2>2. me \in Reader /\ me.pc = "fetch"
    BY <1>n, <2>1, Zenon DEF Reader, NoCall
  <2> QED BY <1>1, <1>t, <2>2, CallTypes, Zenon DEF Call
<1>2. ASSUME NEW r \in Readers, NEW k \in Keys, fetch(r, k) PROVE Types'
  <2> PICK me \in Reader : me = reader[r]
    BY <1>t, Zenon
  <2>1. me.pc = "fetch"
    BY <1>2, Zenon DEF fetch
  <2>2. CASE Hit(k, me.now)
    <3> PICK new : new = [me EXCEPT !.todo = @ \ {k}, !.m[k] = cache[k].data]
      BY Zenon
    <3>1. cache[k].data \in Nat
      BY <1>t, <2>2, Zenon DEF Hit, cacheEntry
    <3>2. new \in Reader /\ new.pc = "fetch"
      BY <2>1, <3>1, Zenon DEF Reader
    <3>3. reader' = [reader EXCEPT ![r] = new]
      BY <1>2, <2>2, Zenon DEF fetch
    <3> QED BY <1>2, <1>t, <3>2, <3>3, CallTypes, Zenon DEF fetch
  <2>3. CASE ~Hit(k, me.now)
    <3> PICK new : new = [me EXCEPT !.todo = @ \ {k}, !.missing = @ \cup {k}]
      BY Zenon
    <3>2. new \in Reader /\ new.pc = "fetch"
      BY <2>1, Zenon DEF Reader
    <3>3. reader' = [reader EXCEPT ![r] = new]
      BY <1>2, <2>3, Zenon DEF fetch
    <3> QED BY <1>2, <1>t, <3>2, <3>3, CallTypes, Zenon DEF fetch
  <2> QED BY <2>2, <2>3, Zenon
<1>3. ASSUME NEW r \in Readers, Return(r) PROVE Types'
  BY <1>3, <1>t, <1>n, CallTypes, Zenon DEF Return
<1>4. ASSUME NEW r \in Readers, Find(r) PROVE Types'
  <2> PICK me \in Reader : me = reader[r]
    BY <1>t, Zenon
  <2> PICK new : new = [me EXCEPT !.pc = "put",
                                  !.m = [k \in Keys |-> IF k \in me.missing THEN db(k) ELSE @[k]]]
    BY Zenon
  <2>1. \A k \in Keys : db(k) \in Nat
    BY <1>t DEF db, CacheTypes
  <2>2. new \in Reader /\ new.missing \subseteq Keys /\ \A k \in new.missing : new.m[k] \in Nat
    BY <2>1, Zenon DEF Reader
  <2>3. reader' = [reader EXCEPT ![r] = new] \/ reader' = [reader EXCEPT ![r] = NoCall]
    BY <1>4, Zenon DEF Find
  <2> QED BY <1>4, <1>t, <1>n, <2>2, <2>3, CallTypes, Zenon DEF Find
<1>5. ASSUME NEW r \in Readers, Put(r) PROVE Types'
  <2> PICK me \in Reader : me = reader[r]
    BY <1>t, Zenon
  <2>1. \A k \in me.missing : k \in Keys /\ me.m[k] \in Nat
    BY <1>5, Zenon DEF Put, Types, Ready, Reader
  <2>2. \A k \in me.missing :
           [added |-> me.now, data |-> me.m[k], excused |-> k \in me.overtaken] \in cacheEntry
    BY <2>1 DEF Reader, cacheEntry
  <2>3. cache' \in [Keys -> cacheEntry \cup {None}]
    BY <1>5, <1>t, <2>2, Zenon DEF Put
  <2> QED BY <1>5, <1>n, <2>3, CallTypes, Zenon DEF Put
<1>6. CASE purger
  <2>1. cache' \in [Keys -> cacheEntry \cup {None}]
    BY <1>6, <1>t, Zenon DEF purger
  <2> QED BY <1>6, <1>t, <2>1, QuietTypes, Zenon DEF purger, CacheTypes, Types, Ready
<1>7. CASE Tick
  <2>1. now' \in 0 .. MaxTime
    BY <1>7, <1>t, CacheAssumption DEF Tick, CacheTypes
  <2> QED BY <1>7, <1>t, <2>1, QuietTypes, Zenon DEF Tick, CacheTypes, Types, Ready
<1> QED BY <1>1, <1>2, <1>3, <1>4, <1>5, <1>6, <1>7, Zenon

LEMMA ChangeTypes ==
    ASSUME Types, NEW keys, Change(keys)
    PROVE  replaced' \in [Keys -> Seq(0 .. MaxTime)]
<1>1. \A k \in Keys : replaced[k] \in Seq(0 .. MaxTime) /\ now \in 0 .. MaxTime
  BY Zenon DEF Types, CacheTypes
<1>2. \A k \in Keys : Append(replaced[k], now) \in Seq(0 .. MaxTime)
  BY ONLY <1>1, AppendElements, Zenon
<1> QED BY <1>1, <1>2, Zenon DEF Change

\* One request goes on without the service.
LEMMA RequestTypes ==
    ASSUME Types, NEW p \in Publishers, NEW new \in Publisher, Sound(new),
           publisher' = [publisher EXCEPT ![p] = new], new.pc # "wait" => Published(p),
           UNCHANGED <<bus, now>>,
           cache' \in [Keys -> cacheEntry \cup {None}], reader' \in [Readers -> Reader], Ready',
           changes' \in 0 .. MaxChanges, replaced' \in [Keys -> Seq(0 .. MaxTime)]
    PROVE  Types'
<1>1. /\ publisher' \in [Publishers -> Publisher]
      /\ \A q \in Publishers : publisher'[q] = IF q = p THEN new ELSE publisher[q]
  BY Zenon DEF Types, CacheTypes
<1>2. CacheTypes'
  BY <1>1, Zenon DEF Types, CacheTypes
<1>3. BusTypes' /\ Routing'
  BY Zenon DEF Types, BusTypes, PubSubTypeOK, Routing, Wired, Streaming, bus
<1>4. \A q \in Publishers : Published(q)' <=> Published(q)
  BY Zenon DEF Published, bus
<1>5. Requests'
  <2>1. ASSUME NEW q \in Publishers
        PROVE  Sound(publisher'[q]) /\ (publisher'[q].pc # "wait" => Published(q)')
    BY <1>1, <1>4, Zenon DEF Types, Requests
  <2> QED BY <2>1, Zenon DEF Requests, Sound
<1> QED BY <1>2, <1>3, <1>5, Zenon DEF Types

\* What a step that leaves caches and calls alone keeps of their types.
LEMMA SameCalls ==
    ASSUME Types, UNCHANGED <<cache, reader>>
    PROVE  /\ cache' \in [Keys -> cacheEntry \cup {None}] /\ reader' \in [Readers -> Reader]
           /\ Ready'
  BY Zenon DEF Types, CacheTypes, Ready

LEMMA BeginTypes ==
    ASSUME Types, NEW p \in Publishers, NEW new \in Publisher, Sound(new),
           Begin(p, new), replaced' \in [Keys -> Seq(0 .. MaxTime)]
    PROVE  Types'
<1>1. Published(p)
  BY Zenon DEF Begin, Types, Requests
<1>2. changes' \in 0 .. MaxChanges
  BY CacheAssumption DEF Begin, CountChange, Types, CacheTypes
<1>3. publisher' = [publisher EXCEPT ![p] = new] /\ UNCHANGED <<bus, now, cache, reader>>
  BY Zenon DEF Begin
<1> QED BY <1>1, <1>2, <1>3, SameCalls, RequestTypes, Zenon

LEMMA PublishingSound ==
    ASSUME NEW topic \in {"repo", "space"}, NEW payload \in Payloads,
           NEW then \in {"idle", "commit", "purge"},
           topic = "repo" \/ then = "purge" => payload \in Keys
    PROVE  /\ Publishing(topic, payload, then) \in Publisher
           /\ Sound(Publishing(topic, payload, then))
<1> PICK new : new = Publishing(topic, payload, then)
  BY Zenon
<1>1. /\ new.pc = "publish" /\ new.then = then /\ new.topic = topic
      /\ new.payload = payload /\ new.repos = {}
  BY Zenon DEF Publishing
<1>2. topic \in Topics
  BY CacheAssumption, Zenon
<1>3. new \in Publisher
  BY <1>2, Zenon DEF Publishing, Publisher
<1>4. Sound(new)
  BY <1>1, Zenon DEF Sound
<1> QED BY <1>3, <1>4, Zenon

\* One request publishes and waits.
LEMMA WaitTypes ==
    ASSUME Types, NEW p \in Publishers, NEW new \in Publisher, new.pc = "wait", Sound(new),
           publisher' = [publisher EXCEPT ![p] = new], publisher[p].pc # "wait",
           NEW topic, NEW payload \in Payloads, topic = "repo" => payload \in Keys,
           Publish(p, topic, payload),
           UNCHANGED <<now, replaced, cache, reader>>, changes' \in 0 .. MaxChanges
    PROVE  Types'
<1>1. /\ publisher' \in [Publishers -> Publisher]
      /\ \A q \in Publishers : publisher'[q] = IF q = p THEN new ELSE publisher[q]
  BY Zenon DEF Types, CacheTypes
<1>2. CacheTypes' /\ Ready'
  BY <1>1, Zenon DEF Types, CacheTypes, Ready
<1>3. BusTypes'
  BY PublishTypes, Zenon DEF Types, Requests
<1>4. \A g \in sends' : g \in sends \/
         (g.by = p /\ g.payload = payload /\ TopicOf[g.to] = topic)
  BY DEF Publish, Receivers
<1>5. Requests'
  <2>1. ASSUME NEW q \in Publishers
        PROVE  Sound(publisher'[q]) /\ (publisher'[q].pc # "wait" => Published(q)')
    BY <1>1, <1>4, Zenon DEF Types, Requests, Published
  <2> QED BY <2>1, Zenon DEF Requests, Sound
<1>6. Routing'
  BY <1>4, Zenon DEF Types, Routing, Publish, Wired, Streaming
<1> QED BY <1>2, <1>3, <1>5, <1>6, Zenon DEF Types

LEMMA OvertakeTypes ==
    ASSUME Types, NEW keys \in SUBSET Keys, Overtake(keys)
    PROVE  reader' \in [Readers -> Reader] /\ Ready'
<1>1. \A r \in Readers : [reader[r] EXCEPT !.overtaken = @ \cup keys] \in Reader
  BY DEF Types, CacheTypes, Reader
<1>2. reader' \in [Readers -> Reader]
  BY <1>1, Zenon DEF Overtake, Types, CacheTypes
<1>3. \A r \in Readers : reader'[r].pc = reader[r].pc /\ reader'[r].missing = reader[r].missing
                         /\ reader'[r].m = reader[r].m
  BY Zenon DEF Overtake, Types, CacheTypes, Reader
<1>4. Ready'
  BY <1>3, Zenon DEF Types, Ready
<1> QED BY <1>2, <1>4, Zenon

LEMMA ExcuseTypes ==
    ASSUME Types, NEW keys \in SUBSET Keys, Excuse(keys)
    PROVE  /\ cache' \in [Keys -> cacheEntry \cup {None}] /\ reader' \in [Readers -> Reader]
           /\ Ready'
<1>1. reader' \in [Readers -> Reader] /\ Ready'
  BY OvertakeTypes, Zenon DEF Excuse
<1>2. cache \in [Keys -> cacheEntry \cup {None}]
  BY Zenon DEF Types, CacheTypes
<1>3. cache' = [k \in Keys |-> IF k \in keys /\ cache[k] # None
                               THEN [cache[k] EXCEPT !.excused = TRUE] ELSE cache[k]]
  BY Zenon DEF Excuse
<1>4. cache' \in [Keys -> cacheEntry \cup {None}]
  BY <1>2, <1>3, Zenon DEF cacheEntry
<1> QED BY <1>1, <1>4, Zenon

LEMMA UnannouncedTypes ==
    ASSUME Types, NEW keys \in SUBSET Keys, ChangeUnannounced(keys)
    PROVE  /\ cache' \in [Keys -> cacheEntry \cup {None}] /\ reader' \in [Readers -> Reader]
           /\ Ready' /\ replaced' \in [Keys -> Seq(0 .. MaxTime)]
<1>1. {k \in keys : ~ Evicting(k)} \in SUBSET Keys
  BY Zenon
<1> QED BY <1>1, ExcuseTypes, ChangeTypes, Zenon DEF ChangeUnannounced

\* The steps of a request
RequestStep(p) ==
    \/ \E k \in Keys : UpdateRepo(p, k) \/ UpdateFails(p, k)
    \/ \E k \in Keys : DeleteImporting(p, k) \/ SoftDeleteNoAuth(p, k)
    \/ PurgeNoAuth(p) \/ SoftDeleteSpace(p) \/ CommitDelete(p)
    \/ MoveSpace(p) \/ Commit(p)
    \/ Evict(p) \/ EvictReturns(p) \/ PublishEvent(p)

LEMMA PublisherTypes ==
    ASSUME Types, NEW p \in Publishers, RequestStep(p) PROVE Types'
<1>t. /\ replaced \in [Keys -> Seq(0 .. MaxTime)] /\ changes \in 0 .. MaxChanges
      /\ publisher[p] \in Publisher /\ Sound(publisher[p])
  BY Zenon DEF Types, CacheTypes, Requests
<1>p. "all" \in Payloads /\ Keys \subseteq Payloads /\ "event" # "repo" /\ "space" # "repo"
  BY CacheAssumption, Zenon
<1>1. ASSUME NEW k \in Keys, UpdateRepo(p, k) PROVE Types'
  BY <1>1, <1>p, PublishingSound, BeginTypes, ChangeTypes, Zenon DEF UpdateRepo
<1>2. ASSUME NEW k \in Keys, UpdateFails(p, k) PROVE Types'
  <2>1. changes' \in 0 .. MaxChanges
    BY <1>2, <1>t, CacheAssumption DEF UpdateFails, CountChange
  <2>2. ChangeUnannounced({k}) /\ {k} \in SUBSET Keys /\ UNCHANGED <<bus, now, publisher>>
    BY <1>2, Zenon DEF UpdateFails
  <2>3. CacheTypes' /\ Ready'
    BY <2>1, <2>2, UnannouncedTypes, Zenon DEF Types, CacheTypes
  <2> QED BY <2>2, <2>3, QuietTypes, Zenon
<1>3. ASSUME NEW k \in Keys, DeleteImporting(p, k) PROVE Types'
  BY <1>3, <1>p, <1>t, PublishingSound, BeginTypes, Zenon DEF DeleteImporting
<1>4. ASSUME NEW k \in Keys, SoftDeleteNoAuth(p, k) PROVE Types'
  <2> PICK new : new = [publisher[p] EXCEPT !.pc = "publish", !.topic = "repo", !.payload = k,
                                            !.repos = @ \ {k}]
    BY Zenon
  <2>1. /\ new \in Publisher /\ new.pc = "publish" /\ new.topic = "repo" /\ new.payload = k
    BY <1>t, <1>p, CacheAssumption, Zenon DEF Publisher
  <2>2. Sound(new)
    BY <2>1, <1>p, Zenon DEF Sound
  <2>3. /\ publisher' = [publisher EXCEPT ![p] = new]
        /\ UNCHANGED <<bus, now, replaced, cache, reader, changes>>
    BY <1>4, Zenon DEF SoftDeleteNoAuth
  <2>4. Published(p)
    BY <1>4, Zenon DEF SoftDeleteNoAuth, Types, Requests
  <2> QED BY <1>t, <2>1, <2>2, <2>3, <2>4, SameCalls, RequestTypes, Zenon
<1>5. CASE PurgeNoAuth(p)
  <2>1. Published(p) /\ publisher[p].payload \in Keys
    BY <1>5, Zenon DEF PurgeNoAuth, Types, Requests, Sound
  <2>2. /\ ChangeUnannounced({publisher[p].payload}) \/ UNCHANGED <<replaced, cache, reader>>
        /\ publisher' = [publisher EXCEPT ![p] = NoRequest] /\ UNCHANGED <<bus, now, changes>>
    BY <1>5, Zenon DEF PurgeNoAuth
  <2>3. {publisher[p].payload} \in SUBSET Keys
    BY <2>1, Zenon
  <2>4. /\ cache' \in [Keys -> cacheEntry \cup {None}] /\ reader' \in [Readers -> Reader]
        /\ Ready' /\ replaced' \in [Keys -> Seq(0 .. MaxTime)]
    BY <1>t, <2>2, <2>3, UnannouncedTypes, SameCalls, Zenon
  <2> QED BY <1>t, <2>1, <2>2, <2>4, NoRequestSound, RequestTypes, Zenon
<1>6. CASE SoftDeleteSpace(p)
  <2> PICK new : new = [NoRequest EXCEPT !.pc = "delete", !.then = "delete", !.repos = Keys]
    BY Zenon
  <2>1. new \in Publisher /\ new.pc = "delete" /\ new.then = "delete"
    BY NoRequestSound, Zenon DEF Publisher
  <2>2. Sound(new)
    BY <2>1, Zenon DEF Sound
  <2> QED BY <1>6, <1>t, <2>1, <2>2, BeginTypes, Zenon DEF SoftDeleteSpace
<1>7. CASE CommitDelete(p)
  <2>1. Published(p)
    BY <1>7, Zenon DEF CommitDelete, Types, Requests
  <2>2. UNCHANGED <<bus, now, cache, reader, changes>>
    BY <1>7, Zenon DEF CommitDelete
  <2>3. replaced' \in [Keys -> Seq(0 .. MaxTime)]
    BY <1>7, <1>t, ChangeTypes, Zenon DEF CommitDelete
  <2>4. PICK new \in Publisher : Sound(new) /\ publisher' = [publisher EXCEPT ![p] = new]
    BY <1>7, <1>p, NoRequestSound, PublishingSound, Zenon DEF CommitDelete
  <2> QED BY <1>t, <2>1, <2>2, <2>3, <2>4, SameCalls, RequestTypes, Zenon
<1>8. CASE MoveSpace(p)
  BY <1>8, <1>p, <1>t, PublishingSound, BeginTypes, Zenon DEF MoveSpace
<1>9. CASE Commit(p)
  <2>1. Published(p)
    BY <1>9, Zenon DEF Commit, Types, Requests
  <2>2. replaced' \in [Keys -> Seq(0 .. MaxTime)]
    BY <1>9, <1>t, ChangeTypes, Zenon DEF Commit
  <2> QED BY <1>9, <1>t, <2>1, <2>2, NoRequestSound, SameCalls, RequestTypes, Zenon DEF Commit
<1>10. CASE Evict(p)
  <2> PICK new : new = [publisher[p] EXCEPT !.pc = "wait"]
    BY Zenon
  <2>1. /\ new \in Publisher /\ new.pc = "wait" /\ new.then = publisher[p].then
        /\ new.payload = publisher[p].payload
    BY <1>t, Zenon DEF Publisher
  <2>2. publisher' = [publisher EXCEPT ![p] = new]
    BY <1>10, Zenon DEF Evict
  <2>3. /\ publisher[p].pc = "publish" /\ publisher[p].payload \in Payloads
        /\ publisher[p].topic = "repo" => publisher[p].payload \in Keys
    BY <1>10, <1>t, Zenon DEF Evict, Sound
  <2>4. Sound(new)
    BY <1>t, <2>1, Zenon DEF Sound
  <2> QED BY <1>10, <1>t, <2>1, <2>2, <2>3, <2>4, WaitTypes, Zenon DEF Evict
<1>11. CASE EvictReturns(p)
  <2>1. /\ Published(p) /\ publisher[p].pc = "wait"
        /\ UNCHANGED <<bus, now, replaced, cache, reader, changes>>
    BY <1>11, Zenon DEF EvictReturns
  <2>2. CASE publisher[p].then = "idle"
    <3>1. publisher' = [publisher EXCEPT ![p] = NoRequest]
      BY <1>11, <2>2, Zenon DEF EvictReturns
    <3> QED BY <1>t, <2>1, <3>1, NoRequestSound, SameCalls, RequestTypes, Zenon
  <2>3. CASE publisher[p].then # "idle"
    <3> PICK new : new = [publisher[p] EXCEPT !.pc = publisher[p].then]
      BY Zenon
    <3>0. publisher[p].then \in {"commit", "delete", "purge"}
      BY <1>t, <2>3, Zenon DEF Publisher
    <3>1. /\ new \in Publisher /\ new.pc = publisher[p].then /\ new.then = publisher[p].then
          /\ new.payload = publisher[p].payload
      BY <1>t, <3>0, Zenon DEF Publisher
    <3>2. publisher' = [publisher EXCEPT ![p] = new]
      BY <1>11, <2>3, Zenon DEF EvictReturns
    <3>3. Sound(new)
      BY <1>t, <3>0, <3>1, Zenon DEF Sound
    <3> QED BY <1>t, <2>1, <3>1, <3>2, <3>3, SameCalls, RequestTypes, Zenon
  <2> QED BY <2>2, <2>3, Zenon
<1>12. CASE PublishEvent(p)
  <2> PICK new : new = [publisher[p] EXCEPT !.pc = "wait"]
    BY Zenon
  <2>1. /\ new \in Publisher /\ new.pc = "wait" /\ new.then = publisher[p].then
        /\ new.payload = publisher[p].payload
    BY <1>t, Zenon DEF Publisher
  <2>2. publisher' = [publisher EXCEPT ![p] = new] /\ publisher[p].pc = "idle"
    BY <1>12, Zenon DEF PublishEvent
  <2>3. changes' \in 0 .. MaxChanges
    BY <1>12, <1>t, CacheAssumption DEF PublishEvent, CountChange
  <2>4. Sound(new)
    BY <1>t, <2>1, Zenon DEF Sound
  <2> QED BY <1>12, <1>p, <2>1, <2>2, <2>3, <2>4, WaitTypes, Zenon DEF PublishEvent
<1> QED BY <1>1, <1>2, <1>3, <1>4, <1>5, <1>6, <1>7, <1>8, <1>9, <1>10, <1>11, <1>12, Zenon
        DEF RequestStep

\* A step of the service that starts no goroutine of Publish.
LEMMA BusStepTypes ==
    ASSUME Types, BusTypes', CacheTypes', Ready', UNCHANGED publisher,
           sends' \subseteq sends, Routing'
    PROVE  Types'
<1>1. Requests'
  <2>1. ASSUME NEW q \in Publishers
        PROVE  Sound(publisher'[q]) /\ (publisher'[q].pc # "wait" => Published(q)')
    BY Zenon DEF Types, Requests, Published
  <2> QED BY <2>1, Zenon DEF Requests, Sound
<1> QED BY <1>1, Zenon DEF Types

LEMMA HandleTypes ==
    ASSUME Types, NEW s \in Subscribers, Handle(s) PROVE Types'
<1>t. CacheTypes /\ BusTypes /\ cache \in [Keys -> cacheEntry \cup {None}]
  BY Zenon DEF Types, CacheTypes
<1>r. Receive(s) /\ UNCHANGED <<now, replaced, publisher, changes>>
  BY Zenon DEF Handle
<1>1. /\ BusTypes' /\ channel' = [channel EXCEPT ![s] = Tail(channel[s])]
      /\ UNCHANGED <<registry, closed, shut, sends>>
  BY <1>t, <1>r, ReceiveTypes, Zenon
<1>2. TopicOf[s] = "repo" =>
         channel[s] \in Seq(Keys) /\ Head(channel[s]) \in Keys /\ Tail(channel[s]) \in Seq(Keys)
  <2>1. TopicOf[s] = "repo" => channel[s] \in Seq(Keys) /\ channel[s] # <<>>
    BY <1>r, Zenon DEF Types, Routing, Receive
  <2> QED BY <2>1, TailElements, Zenon
<1>3. \A t \in Subscribers : channel'[t] = IF t = s THEN Tail(channel[s]) ELSE channel[t]
  BY <1>1, <1>t, Zenon DEF BusTypes
<1>4. Routing'
  BY <1>1, <1>2, <1>3, Zenon DEF Types, Routing, Wired, Streaming
<1>5. CASE TopicOf[s] = "event"
  <2>1. UNCHANGED <<cache, reader>>
    BY <1>5, Zenon DEF Handle
  <2> QED BY <1>1, <1>4, <1>r, <2>1, BusStepTypes, Zenon DEF Types, CacheTypes, Ready
<1>6. ASSUME NEW keys \in SUBSET Keys, EvictKeys(keys) PROVE Types'
  <2>1. reader' \in [Readers -> Reader] /\ Ready'
    BY <1>6, OvertakeTypes, Zenon DEF EvictKeys
  <2>2. cache' \in [Keys -> cacheEntry \cup {None}]
    BY <1>6, <1>t, Zenon DEF EvictKeys
  <2>3. CacheTypes'
    BY <1>t, <1>r, <2>1, <2>2, Zenon DEF CacheTypes
  <2> QED BY <1>1, <1>4, <1>r, <2>1, <2>3, BusStepTypes, Zenon
<1>7. CASE TopicOf[s] = "repo"
  BY <1>2, <1>6, <1>7, Zenon DEF Handle
<1>8. CASE TopicOf[s] = "space"
  BY <1>6, <1>8, Zenon DEF Handle
<1> QED BY <1>5, <1>7, <1>8, TopicCases, Zenon

\* The keys whose eviction is lost with the goroutine.
Lost(g) == IF TopicOf[g.to] = "event" THEN {} ELSE Affected(g.payload)

LEMMA SendTypes ==
    ASSUME Types, NEW g \in sends, Bus(SendAccepted(g)) \/ Drop(g) \/ Panic(g) PROVE Types'
<1>t. CacheTypes /\ BusTypes /\ cache \in [Keys -> cacheEntry \cup {None}]
      /\ reader \in [Readers -> Reader] /\ publisher \in [Publishers -> Publisher]
  BY Zenon DEF Types, CacheTypes
<1>g. g.to \in Subscribers /\ g.payload \in Payloads
  BY <1>t, Zenon DEF BusTypes, PubSubTypeOK, Send
<1>1. CASE Bus(SendAccepted(g))
  <2>1. SendAccepted(g) /\ UNCHANGED <<now, replaced, cache, reader, publisher, changes>>
    BY <1>1, Zenon DEF Bus
  <2>2. /\ BusTypes' /\ channel[g.to] \in Seq(Payloads)
        /\ channel' = [channel EXCEPT ![g.to] = Append(channel[g.to], g.payload)]
    BY <1>t, <2>1, AcceptTypes, Zenon
  <2>3. \A t \in Subscribers :
           channel'[t] = IF t = g.to THEN Append(channel[g.to], g.payload) ELSE channel[t]
    BY <1>t, <2>2, Zenon DEF BusTypes
  <2>4. TopicOf[g.to] = "repo" => Append(channel[g.to], g.payload) \in Seq(Keys)
    <3>1. TopicOf[g.to] = "repo" => channel[g.to] \in Seq(Keys) /\ g.payload \in Keys
      BY <1>g, <2>1, Zenon DEF Types, Routing, SendAccepted, HasRoom
    <3> QED BY <3>1, AppendElements, Zenon
  <2>5. sends' \subseteq sends /\ UNCHANGED <<registry, closed, shut>>
    BY <2>1, Zenon DEF SendAccepted
  <2>6. Routing'
    BY <2>3, <2>4, <2>5, Zenon DEF Types, Routing, Wired, Streaming
  <2> QED BY <2>1, <2>2, <2>5, <2>6, BusStepTypes, Zenon DEF Types, CacheTypes, Ready
<1>2. CASE Drop(g)
  <2>1. SendDropped(g) /\ UNCHANGED <<now, replaced, publisher, changes>> /\ Excuse(Lost(g))
    BY <1>2, Zenon DEF Drop, Lost
  <2>2. Lost(g) \in SUBSET Keys
    BY <1>g, AffectedKeys, Zenon DEF Lost
  <2>3. /\ cache' \in [Keys -> cacheEntry \cup {None}] /\ reader' \in [Readers -> Reader]
        /\ Ready'
    BY <2>1, <2>2, ExcuseTypes, Zenon
  <2>5. CacheTypes'
    BY <1>t, <2>1, <2>3, Zenon DEF CacheTypes
  <2>6. sends' \subseteq sends /\ UNCHANGED <<registry, channel, closed, shut>>
    BY <2>1, Zenon DEF SendDropped
  <2>7. Routing'
    BY <2>6, Zenon DEF Types, Routing, Wired, Streaming
  <2>8. BusTypes'
    BY <1>t, <2>1, DropTypes, Zenon
  <2> QED BY <2>1, <2>3, <2>5, <2>6, <2>7, <2>8, BusStepTypes, Zenon
<1>3. CASE Panic(g)
  <2>1. BusTypes'
    BY <1>3, <1>t, PanicTypes, Zenon DEF Panic
  <2>2. CacheTypes' /\ Ready'
    <3>1. publisher' \in [Publishers -> Publisher]
      BY <1>3, NoRequestSound, Zenon DEF Panic
    <3> QED BY <1>3, <1>t, <3>1, Zenon DEF Panic, CacheTypes, Ready, NoCall, Reader
  <2>3. Requests'
    <3>1. ASSUME NEW q \in Publishers
          PROVE  Sound(publisher'[q]) /\ (publisher'[q].pc # "wait" => Published(q)')
      BY <1>3, NoRequestSound, Zenon DEF Panic, SendPanics, Published
    <3> QED BY <3>1, Zenon DEF Requests, Sound
  <2>4. Routing'
    BY <1>3, Zenon DEF Panic, SendPanics, Routing, Wired, Streaming
  <2> QED BY <2>1, <2>2, <2>3, <2>4, Zenon DEF Types
<1> QED BY <1>1, <1>2, <1>3, Zenon

LEMMA SubscriberTypes ==
    ASSUME Types, NEW s \in Subscribers,
           Bus(MakeChannel(s)) \/ Stream(s) \/ (Streaming(s) /\ Bus(Close(s)))
    PROVE  Types'
<1>t. CacheTypes /\ BusTypes /\ Ready
  BY Zenon DEF Types
<1>1. CASE Bus(MakeChannel(s))
  <2>1. MakeChannel(s) /\ UNCHANGED <<now, replaced, cache, reader, publisher, changes>>
    BY <1>1, Zenon DEF Bus
  <2>2. \A t \in Subscribers : channel'[t] = IF t = s THEN <<>> ELSE channel[t]
    BY <1>t, <2>1, Zenon DEF MakeChannel, BusTypes
  <2>3. <<>> \in Seq(Keys)
    OBVIOUS
  <2>4. Routing'
    BY <2>1, <2>2, <2>3, Zenon DEF Types, Routing, Wired, Streaming, MakeChannel
  <2> QED BY <1>t, <2>1, <2>4, MakeTypes, BusStepTypes, Zenon DEF CacheTypes, Ready, MakeChannel
<1>2. CASE Stream(s)
  <2>1. Subscribe(s) /\ UNCHANGED <<now, replaced, cache, reader, publisher>> /\ CountChange
    BY <1>2, Zenon DEF Stream
  <2>2. CacheTypes' /\ Ready'
    BY <1>t, <2>1, CacheAssumption DEF CacheTypes, Ready, CountChange
  <2>3. Routing'
    BY <2>1, Zenon DEF Types, Routing, Wired, Streaming, Subscribe
  <2> QED BY <1>t, <2>1, <2>2, <2>3, SubscribeTypes, BusStepTypes, Zenon DEF Subscribe
<1>3. CASE Streaming(s) /\ Bus(Close(s))
  <2>1. Close(s) /\ UNCHANGED <<now, replaced, cache, reader, publisher, changes>>
    BY <1>3, Zenon DEF Bus
  <2>2. Routing'
    BY <1>3, <2>1, Zenon DEF Types, Routing, Wired, Streaming, Close
  <2> QED BY <1>t, <2>1, <2>2, CloseTypes, BusStepTypes, Zenon DEF CacheTypes, Ready, Close
<1> QED BY <1>1, <1>2, <1>3, Zenon

LEMMA StepTypes == Types /\ [Next]_vars => Types'
<1> SUFFICES ASSUME Types, [Next]_vars PROVE Types'
  BY Zenon
<1>1. CASE UNCHANGED vars
  BY <1>1, QuietTypes, Zenon DEF vars, bus, Types, CacheTypes, Ready
<1>2. ASSUME NEW s \in Subscribers, Handle(s) PROVE Types'
  BY <1>2, HandleTypes, Zenon
<1>3. ASSUME NEW g \in sends, Bus(SendAccepted(g)) \/ Drop(g) \/ Panic(g) PROVE Types'
  BY <1>3, SendTypes, Zenon
<1>4. ASSUME NEW p \in Publishers, RequestStep(p) PROVE Types'
  BY <1>4, PublisherTypes, Zenon
<1> QED BY <1>1, <1>2, <1>3, <1>4, ReaderTypes, SubscriberTypes, Zenon DEF Next, RequestStep

-----------------------------------------------------------------------------
(***************************************************************************)
(* Ages. What is cached was in the database at the time it was added or    *)
(* later, and what a call has found at the time the call began.            *)
(***************************************************************************)
\* The v-th value of a row replaced at the given times was current at time t or later.
Since(times, v, t) == v <= Len(times) /\ (v = Len(times) \/ times[v + 1] >= t)

Fresh ==
    /\ \A k \in Keys : cache[k] # None =>
          cache[k].added <= now /\ Since(replaced[k], cache[k].data, cache[k].added)
    /\ \A r \in Readers :
          /\ reader[r].now <= now
          /\ \A k \in Keys :
                /\ reader[r].m[k] # None =>
                      Since(replaced[k], reader[r].m[k], reader[r].now - maxAge)
                /\ reader[r].pc = "put" /\ k \in reader[r].missing =>
                      Since(replaced[k], reader[r].m[k], reader[r].now)

LEMMA SinceEarlier ==
    ASSUME NEW times \in Seq(Nat), NEW v \in Nat, NEW t \in Int, NEW u \in Int, u <= t,
           Since(times, v, t)
    PROVE  Since(times, v, u)
<1>1. Len(times) \in Nat /\ \A i \in 1..Len(times) : times[i] \in Nat
  OBVIOUS
<1> QED BY <1>1 DEF Since

\* A value replaced now was current until now.
LEMMA SinceAppend ==
    ASSUME NEW times \in Seq(Nat), NEW v \in Nat, NEW t \in Int, NEW time \in Nat, t <= time,
           Since(times, v, t)
    PROVE  Since(Append(times, time), v, t)
<1> PICK longer : longer = Append(times, time)
  BY Zenon
<1>1. /\ Len(times) \in Nat /\ Len(longer) = Len(times) + 1 /\ longer[Len(times) + 1] = time
      /\ \A i \in 1..Len(times) : longer[i] = times[i]
  OBVIOUS
<1>2. CASE v = Len(times)
  BY <1>1, <1>2 DEF Since
<1>3. CASE v # Len(times)
  <2>1. v + 1 \in 1..Len(times) /\ times[v + 1] >= t /\ v <= Len(times) + 1
    BY <1>1, <1>3 DEF Since
  <2> QED BY <1>1, <2>1, Zenon DEF Since
<1> QED BY <1>2, <1>3, Zenon

\* The types of what Fresh speaks about.
LEMMA FreshTypes ==
    ASSUME Types
    PROVE  /\ now \in Nat /\ maxAge \in Nat /\ \A k \in Keys : replaced[k] \in Seq(Nat)
           /\ \A k \in Keys : cache[k] # None => cache[k].added \in Nat /\ cache[k].data \in Nat
           /\ \A r \in Readers : reader[r].now \in Nat
           /\ \A r \in Readers, k \in Keys :
                 /\ reader[r].m[k] # None => reader[r].m[k] \in Nat
                 /\ reader[r].pc = "put" /\ k \in reader[r].missing => reader[r].m[k] \in Nat
<1>1. now \in Nat /\ maxAge \in Nat
  BY CacheAssumption DEF Types, CacheTypes
<1>2. ASSUME NEW k \in Keys PROVE replaced[k] \in Seq(Nat)
  <2>1. replaced[k] \in Seq(0 .. MaxTime)
    BY Zenon DEF Types, CacheTypes
  <2> QED BY <2>1, CacheAssumption
<1>3. \A k \in Keys : cache[k] # None => cache[k].added \in Nat /\ cache[k].data \in Nat
  BY Zenon DEF Types, CacheTypes, cacheEntry
<1>4. \A r \in Readers : reader[r].now \in Nat
  BY Zenon DEF Types, CacheTypes, Reader
<1>5. \A r \in Readers, k \in Keys :
         /\ reader[r].m[k] # None => reader[r].m[k] \in Nat
         /\ reader[r].pc = "put" /\ k \in reader[r].missing => reader[r].m[k] \in Nat
  BY DEF Types, CacheTypes, Reader, Ready
<1> QED BY <1>1, <1>2, <1>3, <1>4, <1>5, Zenon

\* Times pass, rows are changed, entries and calls go.
LEMMA FreshKept ==
    ASSUME Types, Fresh, now' \in Nat, now <= now',
           \A k \in Keys : replaced'[k] = replaced[k] \/ replaced'[k] = Append(replaced[k], now),
           \A k \in Keys : cache'[k] # None =>
              /\ cache[k] # None
              /\ cache'[k].added = cache[k].added /\ cache'[k].data = cache[k].data,
           \A r \in Readers :
              \/ /\ reader'[r].pc = reader[r].pc /\ reader'[r].now = reader[r].now
                 /\ reader'[r].missing = reader[r].missing /\ reader'[r].m = reader[r].m
              \/ reader'[r] = NoCall
    PROVE  Fresh'
<1>t. /\ now \in Nat /\ maxAge \in Nat /\ \A k \in Keys : replaced[k] \in Seq(Nat)
      /\ \A k \in Keys : cache[k] # None => cache[k].added \in Nat /\ cache[k].data \in Nat
      /\ \A r \in Readers : reader[r].now \in Nat
      /\ \A r \in Readers, k \in Keys :
            /\ reader[r].m[k] # None => reader[r].m[k] \in Nat
            /\ reader[r].pc = "put" /\ k \in reader[r].missing => reader[r].m[k] \in Nat
  BY FreshTypes, Zenon
<1>0. ASSUME NEW k \in Keys, NEW v \in Nat, NEW t \in Int, t <= now, Since(replaced[k], v, t)
      PROVE  Since(replaced'[k], v, t)
  BY <1>0, <1>t, SinceAppend, Zenon
<1>1. ASSUME NEW k \in Keys, cache'[k] # None
      PROVE  cache'[k].added <= now' /\ Since(replaced'[k], cache'[k].data, cache'[k].added)
  <2>1. /\ cache[k] # None /\ cache'[k].added = cache[k].added /\ cache'[k].data = cache[k].data
        /\ cache[k].added \in Nat /\ cache[k].data \in Nat
    BY <1>1, <1>t, Zenon
  <2>2. cache[k].added <= now /\ Since(replaced[k], cache[k].data, cache[k].added)
    BY <2>1, Zenon DEF Fresh
  <2>3. Since(replaced'[k], cache[k].data, cache[k].added)
    BY <1>0, <2>1, <2>2
  <2>4. cache[k].added <= now'
    BY <1>t, <2>1, <2>2
  <2> QED BY <2>1, <2>3, <2>4, Zenon
<1>2. ASSUME NEW r \in Readers
      PROVE  /\ reader'[r].now <= now'
             /\ \A k \in Keys :
                   /\ reader'[r].m[k] # None =>
                         Since(replaced'[k], reader'[r].m[k], reader'[r].now - maxAge)
                   /\ reader'[r].pc = "put" /\ k \in reader'[r].missing =>
                         Since(replaced'[k], reader'[r].m[k], reader'[r].now)
  <2>1. CASE reader'[r] = NoCall
    <3>1. NoCall.now = 0 /\ NoCall.pc # "put" /\ \A k \in Keys : NoCall.m[k] = None
      BY Zenon DEF NoCall
    <3>2. 0 <= now'
      BY ONLY now' \in Nat
    <3> QED BY <2>1, <3>1, <3>2, Zenon
  <2>2. CASE /\ reader'[r].pc = reader[r].pc /\ reader'[r].now = reader[r].now
             /\ reader'[r].missing = reader[r].missing /\ reader'[r].m = reader[r].m
    <3>1. reader[r].now \in Nat /\ reader[r].now <= now
      BY <1>t, Zenon DEF Fresh
    <3>2. reader[r].now <= now' /\ reader[r].now - maxAge \in Int /\ reader[r].now - maxAge <= now
      BY <1>t, <3>1
    <3>3. ASSUME NEW k \in Keys
          PROVE  /\ reader[r].m[k] # None =>
                       Since(replaced'[k], reader[r].m[k], reader[r].now - maxAge)
                 /\ reader[r].pc = "put" /\ k \in reader[r].missing =>
                       Since(replaced'[k], reader[r].m[k], reader[r].now)
      <4>1. /\ reader[r].m[k] # None => reader[r].m[k] \in Nat
            /\ reader[r].pc = "put" /\ k \in reader[r].missing => reader[r].m[k] \in Nat
        BY <1>t, Zenon
      <4>2. /\ reader[r].m[k] # None =>
                  Since(replaced[k], reader[r].m[k], reader[r].now - maxAge)
            /\ reader[r].pc = "put" /\ k \in reader[r].missing =>
                  Since(replaced[k], reader[r].m[k], reader[r].now)
        BY Zenon DEF Fresh
      <4> QED BY <1>0, <3>1, <3>2, <4>1, <4>2
    <3> QED BY <2>2, <3>2, <3>3, Zenon
  <2> QED BY <2>1, <2>2, Zenon
<1> QED BY <1>1, <1>2, Zenon DEF Fresh

\* One call goes on.
LEMMA FreshCall ==
    ASSUME Types, Fresh, NEW r \in Readers, NEW me, reader' = [reader EXCEPT ![r] = me],
           UNCHANGED <<now, replaced, cache>>, me.now <= now,
           \A k \in Keys :
              /\ me.m[k] # None => Since(replaced[k], me.m[k], me.now - maxAge)
              /\ me.pc = "put" /\ k \in me.missing => Since(replaced[k], me.m[k], me.now)
    PROVE  Fresh'
<1>1. \A q \in Readers : reader'[q] = IF q = r THEN me ELSE reader[q]
  BY Zenon DEF Types, CacheTypes
<1>2. \A k \in Keys : cache'[k] # None =>
         cache'[k].added <= now' /\ Since(replaced'[k], cache'[k].data, cache'[k].added)
  BY Zenon DEF Fresh
<1>3. ASSUME NEW q \in Readers
      PROVE  /\ reader'[q].now <= now'
             /\ \A k \in Keys :
                   /\ reader'[q].m[k] # None =>
                         Since(replaced'[k], reader'[q].m[k], reader'[q].now - maxAge)
                   /\ reader'[q].pc = "put" /\ k \in reader'[q].missing =>
                         Since(replaced'[k], reader'[q].m[k], reader'[q].now)
  <2>1. CASE q = r
    BY <1>1, <2>1, Zenon
  <2>2. CASE q # r
    BY <1>1, <2>2, Zenon DEF Fresh
  <2> QED BY <2>1, <2>2, Zenon
<1> QED BY <1>2, <1>3, Zenon DEF Fresh

LEMMA FreshReader ==
    ASSUME Types, Fresh, NEW r \in Readers,
           \/ \E keys \in SUBSET Keys : Call(r, keys)
           \/ \E k \in Keys : fetch(r, k)
           \/ Return(r) \/ Find(r)
    PROVE  Fresh'
<1>t. /\ now \in Nat /\ maxAge \in Nat /\ \A k \in Keys : replaced[k] \in Seq(Nat)
      /\ \A k \in Keys : cache[k] # None => cache[k].added \in Nat /\ cache[k].data \in Nat
  BY FreshTypes, Zenon
<1>r. reader[r] \in Reader /\ reader[r].now \in Nat /\ reader[r].now <= now
  BY Zenon DEF Types, CacheTypes, Fresh, Reader
<1>n. NoCall.now <= now /\ NoCall.pc = "idle" /\ \A k \in Keys : NoCall.m[k] = None
  BY <1>t DEF NoCall
<1>1. ASSUME NEW keys \in SUBSET Keys, Call(r, keys) PROVE Fresh'
  <2> PICK me : me = [NoCall EXCEPT !.pc = "fetch", !.now = now, !.todo = keys]
    BY Zenon
  <2>1. me.pc = "fetch" /\ me.now = now /\ \A k \in Keys : me.m[k] = None
    BY Zenon DEF NoCall
  <2>2. me.now <= now
    BY <1>t, <2>1
  <2>3. reader' = [reader EXCEPT ![r] = me] /\ UNCHANGED <<now, replaced, cache>>
    BY <1>1, Zenon DEF Call
  <2> QED BY <2>1, <2>2, <2>3, FreshCall, Zenon
<1>2. ASSUME NEW k \in Keys, fetch(r, k) PROVE Fresh'
  <2> PICK me \in Reader : me = reader[r]
    BY <1>r, Zenon
  <2>0. me.pc = "fetch" /\ UNCHANGED <<now, replaced, cache>>
    BY <1>2, Zenon DEF fetch
  <2>1. /\ me.now \in Nat /\ me.now <= now
        /\ \A l \in Keys : me.m[l] # None => Since(replaced[l], me.m[l], me.now - maxAge)
    BY <1>r, Zenon DEF Fresh
  <2>2. CASE Hit(k, me.now)
    <3> PICK new : new = [me EXCEPT !.todo = @ \ {k}, !.m[k] = cache[k].data]
      BY Zenon
    <3>1. /\ new.pc = "fetch" /\ new.now = me.now
          /\ \A l \in Keys : new.m[l] = IF l = k THEN cache[k].data ELSE me.m[l]
      BY <2>0, Zenon DEF Reader
    <3>2. /\ cache[k] # None /\ cache[k].added \in Nat /\ cache[k].data \in Nat
          /\ me.now - cache[k].added <= maxAge
      BY <1>t, <2>2, Zenon DEF Hit
    <3>3. me.now - maxAge \in Int /\ me.now - maxAge <= cache[k].added /\ cache[k].added \in Int
      BY <1>t, <2>1, <3>2
    <3>4. Since(replaced[k], cache[k].data, cache[k].added)
      BY <3>2, Zenon DEF Fresh
    <3>5. Since(replaced[k], cache[k].data, me.now - maxAge)
      BY <1>t, <3>2, <3>3, <3>4, SinceEarlier, Zenon
    <3>6. reader' = [reader EXCEPT ![r] = new]
      BY <1>2, <2>2, Zenon DEF fetch
    <3>7. new.now <= now
      BY <2>1, <3>1, Zenon
    <3>8. \A l \in Keys : new.m[l] # None => Since(replaced[l], new.m[l], new.now - maxAge)
      BY <2>1, <3>1, <3>5, Zenon
    <3>9. new.pc # "put"
      BY <3>1, Zenon
    <3> QED BY <2>0, <3>6, <3>7, <3>8, <3>9, FreshCall, Zenon
  <2>3. CASE ~Hit(k, me.now)
    <3> PICK new : new = [me EXCEPT !.todo = @ \ {k}, !.missing = @ \cup {k}]
      BY Zenon
    <3>1. new.pc = "fetch" /\ new.now = me.now /\ new.m = me.m
      BY <2>0, Zenon DEF Reader
    <3>2. reader' = [reader EXCEPT ![r] = new]
      BY <1>2, <2>3, Zenon DEF fetch
    <3> QED BY <2>0, <2>1, <3>1, <3>2, FreshCall, Zenon
  <2> QED BY <2>2, <2>3, Zenon
<1>3. ASSUME reader' = [reader EXCEPT ![r] = NoCall], UNCHANGED <<now, replaced, cache>> PROVE Fresh'
  BY <1>3, <1>n, FreshCall, Zenon
<1>4. CASE Return(r)
  BY <1>3, <1>4, Zenon DEF Return
<1>5. CASE Find(r)
  <2> PICK me \in Reader : me = reader[r]
    BY <1>r, Zenon
  <2> PICK new : new = [me EXCEPT !.pc = "put",
                                  !.m = [k \in Keys |-> IF k \in me.missing THEN db(k) ELSE @[k]]]
    BY Zenon
  <2>1. /\ new.now = me.now /\ new.missing = me.missing
        /\ \A k \in Keys : new.m[k] = IF k \in me.missing THEN db(k) ELSE me.m[k]
    BY Zenon DEF Reader
  <2>2. \A k \in Keys : db(k) \in Nat /\ \A t \in Int : Since(replaced[k], db(k), t)
    BY <1>t DEF db, Since
  <2>3. me.now \in Int /\ me.now - maxAge \in Int
    BY <1>r, <1>t
  <2>4. \A k \in Keys : me.m[k] # None => Since(replaced[k], me.m[k], me.now - maxAge)
    BY Zenon DEF Fresh
  <2>5. \A k \in Keys :
           /\ new.m[k] # None => Since(replaced[k], new.m[k], new.now - maxAge)
           /\ new.pc = "put" /\ k \in new.missing => Since(replaced[k], new.m[k], new.now)
    BY ONLY <2>1, <2>2, <2>3, <2>4, Zenon
  <2>6. new.now <= now
    BY <1>r, <2>1, Zenon
  <2>7. CASE reader' = [reader EXCEPT ![r] = new]
    <3>1. UNCHANGED <<now, replaced, cache>>
      BY <1>5, Zenon DEF Find
    <3> QED BY <2>5, <2>6, <2>7, <3>1, FreshCall, Zenon
  <2> QED BY <1>3, <1>5, <2>7, Zenon DEF Find
<1> QED BY <1>1, <1>2, <1>4, <1>5, Zenon

LEMMA FreshPut ==
    ASSUME Types, Fresh, NEW r \in Readers, Put(r) PROVE Fresh'
<1> PICK me \in Reader : me = reader[r]
  BY Zenon DEF Types, CacheTypes
<1>0. me.pc = "put" /\ UNCHANGED <<now, replaced>> /\ reader' = [reader EXCEPT ![r] = NoCall]
  BY Zenon DEF Put
<1>1. ASSUME NEW k \in Keys, cache'[k] # None
      PROVE  cache'[k].added <= now' /\ Since(replaced'[k], cache'[k].data, cache'[k].added)
  <2>1. CASE k \in me.missing
    <3>1. cache'[k].added = me.now /\ cache'[k].data = me.m[k]
      BY <2>1, Zenon DEF Put
    <3>2. me.now <= now /\ Since(replaced[k], me.m[k], me.now)
      BY <1>0, <2>1, Zenon DEF Fresh
    <3> QED BY <1>0, <3>1, <3>2, Zenon
  <2>2. CASE k \notin me.missing
    <3>1. cache'[k] = cache[k]
      BY <2>2, Zenon DEF Put
    <3> QED BY <1>0, <1>1, <3>1, Zenon DEF Fresh
  <2> QED BY <2>1, <2>2, Zenon
<1>n. NoCall.now <= now /\ NoCall.pc = "idle" /\ \A k \in Keys : NoCall.m[k] = None
  BY FreshTypes DEF NoCall
<1>2. \A q \in Readers : reader'[q] = IF q = r THEN NoCall ELSE reader[q]
  BY <1>0, Zenon DEF Types, CacheTypes
<1>3. ASSUME NEW q \in Readers
      PROVE  /\ reader'[q].now <= now'
             /\ \A k \in Keys :
                   /\ reader'[q].m[k] # None =>
                         Since(replaced'[k], reader'[q].m[k], reader'[q].now - maxAge)
                   /\ reader'[q].pc = "put" /\ k \in reader'[q].missing =>
                         Since(replaced'[k], reader'[q].m[k], reader'[q].now)
  <2>1. CASE q = r
    <3>1. NoCall.pc # "put"
      BY <1>n, Zenon
    <3> QED BY <1>0, <1>2, <1>n, <2>1, <3>1, Zenon
  <2>2. CASE q # r
    BY <1>0, <1>2, <2>2, Zenon DEF Fresh
  <2> QED BY <2>1, <2>2, Zenon
<1> QED BY <1>1, <1>3, Zenon DEF Fresh

\* The eviction of keys, or its loss, leaves the data of calls alone.
LEMMA OvertakeKeeps ==
    ASSUME Types, NEW keys, Overtake(keys), NEW r \in Readers
    PROVE  /\ reader'[r].pc = reader[r].pc /\ reader'[r].now = reader[r].now
           /\ reader'[r].missing = reader[r].missing /\ reader'[r].m = reader[r].m
           /\ reader[r].pc = "put" => reader'[r].overtaken = reader[r].overtaken \cup keys
  BY Zenon DEF Overtake, Types, CacheTypes, Reader

\* The loss of an eviction, or a change without one, marks entries and calls, and leaves
\* their data alone.
LEMMA ExcuseKeeps ==
    ASSUME Types, NEW keys, Excuse(keys)
    PROVE  \A k \in Keys : cache'[k] # None =>
              /\ cache[k] # None /\ cache'[k].data = cache[k].data
              /\ cache'[k].added = cache[k].added
              /\ k \in keys => cache'[k].excused
              /\ k \notin keys => cache'[k].excused = cache[k].excused
<1>1. cache' = [k \in Keys |-> IF k \in keys /\ cache[k] # None
                               THEN [cache[k] EXCEPT !.excused = TRUE] ELSE cache[k]]
  BY Zenon DEF Excuse
<1>2. \A k \in Keys : cache[k] # None => cache[k] \in cacheEntry
  BY Zenon DEF Types, CacheTypes
<1> QED BY <1>1, <1>2, Zenon DEF cacheEntry

LEMMA FreshRequest ==
    ASSUME Types, Fresh, NEW p \in Publishers, RequestStep(p) PROVE Fresh'
<1>1. UNCHANGED now /\ (UNCHANGED <<cache, reader>> \/ \E keys : Excuse(keys))
  BY Zenon DEF RequestStep, UpdateRepo, UpdateFails, DeleteImporting, SoftDeleteNoAuth, PurgeNoAuth,
     SoftDeleteSpace, CommitDelete, MoveSpace, Commit, Evict, EvictReturns, PublishEvent, Begin,
     ChangeUnannounced
<1>2. UNCHANGED replaced \/ \E keys : Change(keys)
  BY Zenon DEF RequestStep, UpdateRepo, UpdateFails, DeleteImporting, SoftDeleteNoAuth, PurgeNoAuth,
     SoftDeleteSpace, CommitDelete, MoveSpace, Commit, Evict, EvictReturns, PublishEvent,
     ChangeUnannounced
<1>3. \A k \in Keys : replaced'[k] = replaced[k] \/ replaced'[k] = Append(replaced[k], now)
  BY <1>2, Zenon DEF Change
<1>4. now' \in Nat /\ now <= now'
  BY <1>1, FreshTypes
<1>5. CASE UNCHANGED <<cache, reader>>
  BY <1>3, <1>4, <1>5, FreshKept, Zenon
<1>6. ASSUME NEW keys, Excuse(keys) PROVE Fresh'
  <2>1. \A r \in Readers : /\ reader'[r].pc = reader[r].pc /\ reader'[r].now = reader[r].now
                           /\ reader'[r].missing = reader[r].missing /\ reader'[r].m = reader[r].m
    BY <1>6, OvertakeKeeps, Zenon DEF Excuse
  <2>2. \A k \in Keys : cache'[k] # None =>
           /\ cache[k] # None
           /\ cache'[k].added = cache[k].added /\ cache'[k].data = cache[k].data
    BY <1>6, ExcuseKeeps, Zenon
  <2> QED BY <1>3, <1>4, <2>1, <2>2, FreshKept, Zenon
<1> QED BY <1>1, <1>5, <1>6, Zenon

LEMMA FreshHandle ==
    ASSUME Types, Fresh, NEW s \in Subscribers, Handle(s) PROVE Fresh'
<1>1. UNCHANGED <<now, replaced>>
  BY Zenon DEF Handle
<1>2. UNCHANGED <<cache, reader>> \/ \E keys : EvictKeys(keys)
  BY TopicCases, Zenon DEF Handle
<1>3. \A k \in Keys : cache'[k] # None => cache[k] # None /\ cache'[k] = cache[k]
  BY <1>2, Zenon DEF EvictKeys
<1>4. \A r \in Readers : /\ reader'[r].pc = reader[r].pc /\ reader'[r].now = reader[r].now
                         /\ reader'[r].missing = reader[r].missing /\ reader'[r].m = reader[r].m
  BY <1>2, OvertakeKeeps, Zenon DEF EvictKeys
<1>5. now' \in Nat /\ now <= now'
  BY <1>1, FreshTypes
<1> QED BY <1>1, <1>3, <1>4, <1>5, FreshKept, Zenon

LEMMA DropKeeps ==
    ASSUME Types, NEW g \in sends, Drop(g)
    PROVE  /\ \A k \in Keys : cache'[k] # None =>
                 /\ cache[k] # None /\ cache'[k].data = cache[k].data
                 /\ cache'[k].added = cache[k].added
                 /\ k \in Lost(g) => cache'[k].excused
                 /\ k \notin Lost(g) => cache'[k].excused = cache[k].excused
           /\ Overtake(Lost(g)) /\ UNCHANGED <<now, replaced, publisher, channel>>
           /\ sends' = sends \ {g}
<1>1. /\ Excuse(Lost(g)) /\ UNCHANGED <<now, replaced, publisher, channel>>
      /\ sends' = sends \ {g}
  BY Zenon DEF Drop, Lost, SendDropped
<1> QED BY <1>1, ExcuseKeeps, Zenon DEF Excuse

LEMMA FreshSend ==
    ASSUME Types, Fresh, NEW g \in sends, Bus(SendAccepted(g)) \/ Drop(g) \/ Panic(g)
    PROVE  Fresh'
<1>1. UNCHANGED <<now, replaced>>
  BY Zenon DEF Bus, Drop, Panic
<1>2. now' \in Nat /\ now <= now'
  BY <1>1, FreshTypes
<1>3. CASE Bus(SendAccepted(g))
  BY <1>1, <1>2, <1>3, FreshKept, Zenon DEF Bus
<1>4. CASE Drop(g)
  <2>1. \A r \in Readers : /\ reader'[r].pc = reader[r].pc /\ reader'[r].now = reader[r].now
                           /\ reader'[r].missing = reader[r].missing /\ reader'[r].m = reader[r].m
    BY <1>4, DropKeeps, OvertakeKeeps, Zenon
  <2> QED BY <1>1, <1>2, <1>4, <2>1, DropKeeps, FreshKept, Zenon
<1>5. CASE Panic(g)
  <2>1. (\A k \in Keys : cache'[k] = None) /\ (\A r \in Readers : reader'[r] = NoCall)
    BY <1>5, Zenon DEF Panic
  <2> QED BY <1>1, <1>2, <2>1, FreshKept, Zenon
<1> QED BY <1>3, <1>4, <1>5, Zenon

LEMMA InitFresh == Init => Fresh
  BY DEF Init, Fresh, NoCall

LEMMA StepFresh == Types /\ Fresh /\ [Next]_vars => Fresh'
<1> SUFFICES ASSUME Types, Fresh, [Next]_vars PROVE Fresh'
  BY Zenon
<1>t. now \in Nat
  BY FreshTypes, Zenon
<1>1. CASE purger
  <2>1. \A k \in Keys : cache'[k] # None => cache[k] # None /\ cache'[k] = cache[k]
    BY <1>1, Zenon DEF purger
  <2>2. UNCHANGED <<now, replaced, reader>> /\ now' \in Nat /\ now <= now'
    BY <1>1, <1>t DEF purger
  <2> QED BY <2>1, <2>2, FreshKept, Zenon
<1>2. CASE Tick
  <2>1. UNCHANGED <<replaced, reader, cache>> /\ now' \in Nat /\ now <= now'
    BY <1>2, <1>t DEF Tick
  <2> QED BY <2>1, FreshKept, Zenon
<1>3. ASSUME UNCHANGED <<now, replaced, cache, reader>> PROVE Fresh'
  <2>1. now' \in Nat /\ now <= now'
    BY <1>3, <1>t
  <2> QED BY <1>3, <2>1, FreshKept, Zenon
<1>4. CASE UNCHANGED vars
  BY <1>3, <1>4, Zenon DEF vars
<1>5. ASSUME NEW s \in Subscribers,
             Bus(MakeChannel(s)) \/ Stream(s) \/ (Streaming(s) /\ Bus(Close(s)))
      PROVE  Fresh'
  BY <1>3, <1>5, Zenon DEF Bus, Stream
<1> QED BY <1>1, <1>2, <1>4, <1>5, FreshReader, FreshPut, FreshRequest, FreshHandle, FreshSend, Zenon
        DEF Next, RequestStep

-----------------------------------------------------------------------------
(***************************************************************************)
(* Evictions. What a call has found and not yet put is treated as if it    *)
(* were cached; and a request that publishes before it commits leaves      *)
(* nothing behind that the commit could make stale. A change that no       *)
(* eviction follows excuses what is cached and found of the row.           *)
(***************************************************************************)
Held(k) == cache[k] # None /\ ~ cache[k].excused
Found(r, k) == reader[r].pc = "put" /\ k \in reader[r].missing /\ k \notin reader[r].overtaken

\* A transaction that publishes nothing when it is done is about to replace the value of k
Doomed(k) ==
    \E p \in Publishers : publisher[p].then = "commit" /\ k \in Affected(publisher[p].payload)

Outdated(k, v) == v < db(k) \/ Doomed(k)

\* What is cached or found of k and not, or not for long, the value in the database
\* is about to be evicted.
Pending(k) ==
    /\ Held(k) /\ Outdated(k, cache[k].data) => Evicting(k)
    /\ \A r \in Readers : Found(r, k) /\ Outdated(k, reader[r].m[k]) => Evicting(k)

Evictions == \A k \in Keys : Pending(k)

\* Nothing new is cached, found or replaced of k.
LEMMA PendingKept ==
    ASSUME NEW k \in Keys, Pending(k),
           Held(k)' => Held(k) /\ cache'[k].data = cache[k].data,
           \A r \in Readers : Found(r, k)' => Found(r, k) /\ reader'[r].m[k] = reader[r].m[k],
           replaced'[k] = replaced[k], Doomed(k)' => Doomed(k),
           Evicting(k) => Evicting(k)'
    PROVE  Pending(k)'
<1>1. \A v : Outdated(k, v)' => Outdated(k, v)
  BY Zenon DEF Outdated, db
<1> QED BY <1>1, Zenon DEF Pending

LEMMA PendingGone ==
    ASSUME NEW k \in Keys, ~Held(k)', \A r \in Readers : ~Found(r, k)' PROVE Pending(k)'
  BY Zenon DEF Pending

\* Steps of readers

\* Whoever is about to publish stays so.
LEMMA EvictingKept ==
    ASSUME UNCHANGED <<channel, sends>>, NEW k,
           \A q \in Publishers : publisher[q].pc = "publish" => publisher'[q] = publisher[q],
           Evicting(k)
    PROVE  Evicting(k)'
<1>1. CASE \E q \in Publishers : publisher[q].pc = "publish" /\ k \in Affected(publisher[q].payload)
  <2>1. PICK q \in Publishers : publisher[q].pc = "publish" /\ k \in Affected(publisher[q].payload)
    BY <1>1, Zenon
  <2>2. publisher'[q].pc = "publish" /\ k \in Affected(publisher'[q].payload)
    BY <2>1, Zenon
  <2> QED BY <2>2, Zenon DEF Evicting
<1>2. CASE \E g \in sends : ~ Streaming(g.to) /\ k \in Affected(g.payload)
  BY <1>2, Zenon DEF Evicting
<1>3. CASE \E s \in Subscribers : ~ Streaming(s) /\ channel[s] # None
              /\ \E j \in DOMAIN channel[s] : k \in Affected(channel[s][j])
  BY <1>3, Zenon DEF Evicting
<1> QED BY <1>1, <1>2, <1>3, Zenon DEF Evicting

LEMMA QuietEvicting ==
    ASSUME UNCHANGED <<bus, publisher>>, NEW k
    PROVE  (Evicting(k) => Evicting(k)') /\ (Doomed(k)' => Doomed(k))
<1>1. UNCHANGED <<sends, channel, publisher>>
  BY Zenon DEF bus
<1> QED BY <1>1, Zenon DEF Evicting, Doomed

\* One call goes on and finds nothing.
LEMMA EvictionsCall ==
    ASSUME Types, Evictions, NEW r \in Readers, NEW me, me.pc # "put",
           reader' = [reader EXCEPT ![r] = me], UNCHANGED <<bus, replaced, cache, publisher>>
    PROVE  Evictions'
<1>1. \A q \in Readers : reader'[q] = IF q = r THEN me ELSE reader[q]
  BY Zenon DEF Types, CacheTypes
<1>2. ASSUME NEW k \in Keys PROVE Pending(k)'
  <2>1. \A q \in Readers : Found(q, k)' => Found(q, k) /\ reader'[q].m[k] = reader[q].m[k]
    BY <1>1, Zenon DEF Found
  <2>2. Held(k)' => Held(k) /\ cache'[k].data = cache[k].data
    BY Zenon DEF Held
  <2> QED BY <2>1, <2>2, QuietEvicting, PendingKept, Zenon DEF Evictions
<1> QED BY <1>2, Zenon DEF Evictions

LEMMA EvictionsReader ==
    ASSUME needsLocking, Types, Evictions, NEW r \in Readers,
           \/ \E keys \in SUBSET Keys : Call(r, keys)
           \/ \E k \in Keys : fetch(r, k)
           \/ Return(r) \/ Find(r)
    PROVE  Evictions'
<1>r. reader[r] \in Reader
  BY Zenon DEF Types, CacheTypes
<1>n. NoCall.pc # "put"
  BY Zenon DEF NoCall
<1>1. ASSUME NEW keys \in SUBSET Keys, Call(r, keys) PROVE Evictions'
  <2> PICK me : me = [NoCall EXCEPT !.pc = "fetch", !.now = now, !.todo = keys]
    BY Zenon
  <2>1. me.pc # "put"
    BY Zenon DEF NoCall
  <2> QED BY <1>1, <2>1, EvictionsCall, Zenon DEF Call
<1>2. ASSUME NEW k \in Keys, fetch(r, k) PROVE Evictions'
  <2> PICK new : new = IF Hit(k, reader[r].now)
                       THEN [reader[r] EXCEPT !.todo = @ \ {k}, !.m[k] = cache[k].data]
                       ELSE [reader[r] EXCEPT !.todo = @ \ {k}, !.missing = @ \cup {k}]
    BY Zenon
  <2>1. new.pc # "put"
    BY <1>2, <1>r, Zenon DEF fetch, Reader
  <2>2. reader' = [reader EXCEPT ![r] = new] /\ UNCHANGED <<bus, replaced, cache, publisher>>
    BY <1>2, Zenon DEF fetch
  <2> QED BY <2>1, <2>2, EvictionsCall, Zenon
<1>3. ASSUME reader' = [reader EXCEPT ![r] = NoCall], UNCHANGED <<bus, replaced, cache, publisher>>
      PROVE  Evictions'
  BY <1>3, <1>n, EvictionsCall, Zenon
<1>4. CASE Return(r)
  BY <1>3, <1>4, Zenon DEF Return
<1>5. CASE Find(r)
  <2> PICK me \in Reader : me = reader[r]
    BY <1>r, Zenon
  <2> PICK new : new = [me EXCEPT !.pc = "put",
                                  !.m = [k \in Keys |-> IF k \in me.missing THEN db(k) ELSE @[k]]]
    BY Zenon
  <2>1. new.missing = me.missing /\ \A k \in Keys : k \in me.missing => new.m[k] = db(k)
    BY Zenon DEF Reader
  <2>2. /\ UNCHANGED <<bus, replaced, cache, publisher>>
        /\ \A p \in Publishers : publisher[p].then # "commit"
    BY <1>5, Zenon DEF Find, Unlocked, InTransaction
  <2>3. ASSUME reader' = [reader EXCEPT ![r] = new], NEW k \in Keys PROVE Pending(k)'
    <3>1. \A q \in Readers : reader'[q] = IF q = r THEN new ELSE reader[q]
      BY <2>3, Zenon DEF Types, CacheTypes
    <3>2. ~Doomed(k)' /\ db(k)' = db(k) /\ db(k) \in Nat
      <4>1. db(k) \in Nat
        BY DEF db, Types, CacheTypes
      <4> QED BY <2>2, <4>1, Zenon DEF Doomed, db
    <3>3. Found(r, k)' => ~Outdated(k, reader[r].m[k])'
      <4>1. Found(r, k)' => reader'[r].m[k] = db(k)
        BY <2>1, <3>1, Zenon DEF Found
      <4>2. ~(db(k) < db(k))
        BY <3>2
      <4> QED BY <3>2, <4>1, <4>2, Zenon DEF Outdated
    <3>4. \A q \in Readers : q # r => (Found(q, k)' => Found(q, k)) /\ reader'[q].m[k] = reader[q].m[k]
      BY <3>1, Zenon DEF Found
    <3>5. Held(k)' => Held(k) /\ cache'[k].data = cache[k].data
      BY <2>2, Zenon DEF Held
    <3>6. (\A v : Outdated(k, v)' => Outdated(k, v)) /\ (Evicting(k) => Evicting(k)')
      BY <2>2, <3>2, QuietEvicting, Zenon DEF Outdated
    <3>7. Pending(k)
      BY Zenon DEF Evictions
    <3> QED BY <3>3, <3>4, <3>5, <3>6, <3>7, Zenon DEF Pending
  <2>4. reader' = [reader EXCEPT ![r] = new] \/ reader' = [reader EXCEPT ![r] = NoCall]
    BY <1>5, Zenon DEF Find
  <2> QED BY <1>3, <2>2, <2>3, <2>4, Zenon DEF Evictions
<1> QED BY <1>1, <1>2, <1>4, <1>5, Zenon

LEMMA EvictionsPut ==
    ASSUME Types, Evictions, NEW r \in Readers, Put(r) PROVE Evictions'
<1> PICK me \in Reader : me = reader[r]
  BY Zenon DEF Types, CacheTypes
<1>0. /\ me.pc = "put" /\ UNCHANGED <<bus, replaced, publisher>>
      /\ reader' = [reader EXCEPT ![r] = NoCall]
  BY Zenon DEF Put
<1>1. \A q \in Readers : reader'[q] = IF q = r THEN NoCall ELSE reader[q]
  BY <1>0, Zenon DEF Types, CacheTypes
<1>n. NoCall.pc # "put"
  BY Zenon DEF NoCall
<1>2. ASSUME NEW k \in Keys PROVE Pending(k)'
  <2>1. \A q \in Readers : Found(q, k)' => Found(q, k) /\ reader'[q].m[k] = reader[q].m[k]
    BY <1>1, <1>n, Zenon DEF Found
  <2>2. CASE k \notin me.missing
    <3>1. cache'[k] = cache[k]
      BY <2>2, Zenon DEF Put
    <3>2. Held(k)' => Held(k) /\ cache'[k].data = cache[k].data
      BY <3>1, Zenon DEF Held
    <3> QED BY <1>0, <2>1, <3>2, QuietEvicting, PendingKept, Zenon DEF Evictions
  <2>3. CASE k \in me.missing
    <3>1. cache'[k].data = me.m[k] /\ cache'[k].excused = (k \in me.overtaken)
      BY <2>3, Zenon DEF Put
    <3>2. Held(k)' => Found(r, k) /\ cache'[k].data = reader[r].m[k]
      BY <1>0, <2>3, <3>1, Zenon DEF Held, Found
    <3>3. \A v : Outdated(k, v)' => Outdated(k, v)
      BY <1>0, QuietEvicting, Zenon DEF Outdated, db
    <3>4. (Evicting(k) => Evicting(k)') /\ Pending(k)
      BY <1>0, QuietEvicting, Zenon DEF Evictions
    <3> QED BY <2>1, <3>2, <3>3, <3>4, Zenon DEF Pending
  <2> QED BY <2>2, <2>3, Zenon
<1> QED BY <1>2, Zenon DEF Evictions

\* Steps of requests

\* A request is about to publish the change of all that it replaces, or goes on to publish
\* nothing before it has changed a row.
LEMMA EvictionsBegin ==
    ASSUME Types, Evictions, NEW p \in Publishers, NEW new,
           publisher' = [publisher EXCEPT ![p] = new], publisher[p].pc # "publish",
           UNCHANGED <<bus, cache, reader>>, NEW keys,
           \A k \in Keys : k \in keys => new.pc = "publish" /\ k \in Affected(new.payload),
           \A k \in Keys : k \notin keys =>
              /\ replaced'[k] = replaced[k]
              /\ new.then = "commit" => k \notin Affected(new.payload)
    PROVE  Evictions'
<1>1. \A q \in Publishers : publisher'[q] = IF q = p THEN new ELSE publisher[q]
  BY Zenon DEF Types, CacheTypes
<1>2. UNCHANGED <<channel, sends>>
  BY Zenon DEF bus
<1>3. ASSUME NEW k \in Keys PROVE Pending(k)'
  <2>1. CASE k \in keys
    <3>1. publisher'[p].pc = "publish" /\ k \in Affected(publisher'[p].payload)
      BY <1>1, <2>1, Zenon
    <3>2. Evicting(k)'
      BY <3>1, Zenon DEF Evicting
    <3> QED BY <3>2, Zenon DEF Pending
  <2>2. CASE k \notin keys
    <3>0. ASSUME NEW q \in Publishers, publisher'[q].then = "commit",
                 k \in Affected(publisher'[q].payload)
          PROVE  publisher'[q] = publisher[q]
      BY <1>1, <2>2, <3>0, Zenon
    <3>1. Doomed(k)' => Doomed(k)
      BY <3>0, Zenon DEF Doomed
    <3>a. \A q \in Publishers : publisher[q].pc = "publish" => publisher'[q] = publisher[q]
      BY <1>1, Zenon
    <3>2. Evicting(k) => Evicting(k)'
      BY <1>2, <3>a, EvictingKept, Zenon
    <3>3. /\ Held(k)' => Held(k) /\ cache'[k].data = cache[k].data
          /\ \A r \in Readers : Found(r, k)' => Found(r, k) /\ reader'[r].m[k] = reader[r].m[k]
      BY Zenon DEF Held, Found
    <3> QED BY <2>2, <3>1, <3>2, <3>3, PendingKept, Zenon DEF Evictions
  <2> QED BY <2>1, <2>2, Zenon
<1> QED BY <1>3, Zenon DEF Evictions

\* A request goes on, caches and calls are left alone, and no eviction is forgotten. What
\* it replaces it was about to.
LEMMA EvictionsOn ==
    ASSUME Types, Evictions, UNCHANGED <<cache, reader>>,
           \A k \in Keys : /\ Doomed(k)' => Doomed(k)
                           /\ replaced'[k] = replaced[k] \/ Doomed(k)
                           /\ Evicting(k) => Evicting(k)'
    PROVE  Evictions'
<1>1. ASSUME NEW k \in Keys PROVE Pending(k)'
  <2>1. /\ Held(k)' => Held(k) /\ cache'[k].data = cache[k].data
        /\ \A r \in Readers : Found(r, k)' => Found(r, k) /\ reader'[r].m[k] = reader[r].m[k]
    BY Zenon DEF Held, Found
  <2>2. CASE replaced'[k] = replaced[k]
    BY <2>1, <2>2, PendingKept, Zenon DEF Evictions
  <2>3. CASE Doomed(k)
    <3>1. \A v : Outdated(k, v)
      BY <2>3, Zenon DEF Outdated
    <3>2. (Evicting(k) => Evicting(k)') /\ Pending(k)
      BY Zenon DEF Evictions
    <3> QED BY <2>1, <3>1, <3>2, Zenon DEF Pending
  <2> QED BY <2>2, <2>3, Zenon
<1> QED BY <1>1, Zenon DEF Evictions

LEMMA EvictionsEvict ==
    ASSUME Types, Evictions, NEW p \in Publishers, Evict(p) PROVE Evictions'
<1> PICK me \in Publisher : me = publisher[p]
  BY Zenon DEF Types, CacheTypes
<1> PICK new : new = [me EXCEPT !.pc = "wait"]
  BY Zenon
<1>0. /\ me.pc = "publish" /\ publisher' = [publisher EXCEPT ![p] = new]
      /\ Publish(p, me.topic, me.payload) /\ UNCHANGED <<replaced, cache, reader>>
  BY Zenon DEF Evict
<1>1. \A q \in Publishers : publisher'[q] = IF q = p THEN new ELSE publisher[q]
  BY <1>0, Zenon DEF Types, CacheTypes
<1>2. new.then = me.then /\ new.payload = me.payload
  BY Zenon DEF Publisher
<1>3. me.topic \in {"repo", "space"}
  BY <1>0, Zenon DEF Types, Requests, Sound
<1>4. PICK s \in Subscribers : TopicOf[s] = me.topic
  BY <1>3, CacheAssumption, Zenon DEF Topics
<1>5. ~Streaming(s) /\ s \in Receivers(me.topic)
  BY <1>3, <1>4, Zenon DEF Streaming, Receivers, Wired, Types, Routing
<1> PICK g : g = [by |-> p, to |-> s, payload |-> me.payload]
  BY Zenon
<1>6. g.to = s /\ g.payload = me.payload /\ g \in sends'
  BY <1>0, <1>5, Zenon DEF Publish
<1>7. sends \subseteq sends' /\ UNCHANGED channel
  BY <1>0, Zenon DEF Publish
<1>8. ASSUME NEW k \in Keys PROVE (Doomed(k)' => Doomed(k)) /\ (Evicting(k) => Evicting(k)')
  <2>0. \A q \in Publishers : publisher'[q].then = publisher[q].then
                               /\ publisher'[q].payload = publisher[q].payload
    BY <1>1, <1>2, Zenon
  <2>1. Doomed(k)' => Doomed(k)
    BY <2>0, Zenon DEF Doomed
  <2>2. CASE k \in Affected(me.payload)
    <3>1. Evicting(k)'
      BY <1>5, <1>6, <2>2, Zenon DEF Evicting, Streaming
    <3> QED BY <2>1, <3>1, Zenon
  <2>3. CASE k \notin Affected(me.payload)
    <3>1. Evicting(k) => Evicting(k)'
      BY <1>1, <1>7, <2>3, Zenon DEF Evicting
    <3> QED BY <2>1, <3>1, Zenon
  <2> QED BY <2>2, <2>3, Zenon
<1> QED BY <1>0, <1>8, EvictionsOn, Zenon

\* Nothing is left of a key that is overtaken.
LEMMA OvertakenIsNotFound ==
    ASSUME Types, NEW keys, Overtake(keys), NEW r \in Readers, NEW k
    PROVE  /\ k \in keys => ~Found(r, k)'
           /\ Found(r, k)' => Found(r, k) /\ reader'[r].m[k] = reader[r].m[k]
<1>1. /\ reader'[r].pc = reader[r].pc /\ reader'[r].missing = reader[r].missing
      /\ reader'[r].m = reader[r].m
      /\ reader[r].pc = "put" => reader'[r].overtaken = reader[r].overtaken \cup keys
  BY OvertakeKeeps, Zenon
<1> QED BY <1>1, Zenon DEF Found

\* Rows are changed and nothing is published: what is left of them is excused, or is to be
\* evicted by a message that is on its way.
LEMMA EvictionsUnannounced ==
    ASSUME Types, Evictions, NEW keys, ChangeUnannounced(keys), UNCHANGED bus,
           \A k \in Keys : (Doomed(k)' => Doomed(k)) /\ (Evicting(k) => Evicting(k)')
    PROVE  Evictions'
<1> PICK silent : silent = {k \in keys : ~ Evicting(k)}
  BY Zenon
<1>0. Excuse(silent) /\ Overtake(silent)
  BY Zenon DEF ChangeUnannounced, Excuse
<1>1. ASSUME NEW k \in Keys PROVE Pending(k)'
  <2>1. /\ k \in silent => ~Held(k)' /\ \A r \in Readers : ~Found(r, k)'
        /\ k \notin silent => (Held(k)' => Held(k) /\ cache'[k].data = cache[k].data)
        /\ \A r \in Readers : Found(r, k)' => Found(r, k) /\ reader'[r].m[k] = reader[r].m[k]
    BY <1>0, ExcuseKeeps, OvertakenIsNotFound, Zenon DEF Held
  <2>2. CASE k \in silent
    BY <2>1, <2>2, PendingGone, Zenon
  <2>3. CASE k \notin silent /\ k \in keys
    <3>1. Evicting(k)'
      BY <2>3, Zenon
    <3> QED BY <3>1, Zenon DEF Pending
  <2>4. CASE k \notin silent /\ k \notin keys
    <3>1. replaced'[k] = replaced[k]
      BY <2>4, Zenon DEF ChangeUnannounced, Change
    <3> QED BY <2>1, <2>4, <3>1, PendingKept, Zenon DEF Evictions
  <2> QED BY <2>2, <2>3, <2>4, Zenon
<1> QED BY <1>1, Zenon DEF Evictions

\* A request goes on to publish nothing, and does not move a space.
LEMMA OneRequest ==
    ASSUME Types, NEW p \in Publishers, NEW new, publisher[p].pc # "publish",
           publisher' = [publisher EXCEPT ![p] = new], UNCHANGED bus,
           new.then = "commit" =>
              publisher[p].then = "commit" /\ new.payload = publisher[p].payload
    PROVE  \A k \in Keys : (Doomed(k)' => Doomed(k)) /\ (Evicting(k) => Evicting(k)')
<1>1. \A q \in Publishers : publisher'[q] = IF q = p THEN new ELSE publisher[q]
  BY Zenon DEF Types, CacheTypes
<1>2. UNCHANGED <<channel, sends>>
  BY Zenon DEF bus
<1>3. \A q \in Publishers : publisher[q].pc = "publish" => publisher'[q] = publisher[q]
  BY <1>1, Zenon
<1>4. \A q \in Publishers : publisher'[q].then = "commit" =>
         publisher[q].then = "commit" /\ publisher'[q].payload = publisher[q].payload
  BY <1>1, Zenon
<1>5. ASSUME NEW k \in Keys, Doomed(k)' PROVE Doomed(k)
  <2>1. PICK q \in Publishers : publisher'[q].then = "commit" /\ k \in Affected(publisher'[q].payload)
    BY <1>5, Zenon DEF Doomed
  <2>2. publisher[q].then = "commit" /\ k \in Affected(publisher[q].payload)
    BY <1>4, <2>1, Zenon
  <2> QED BY <2>2, Zenon DEF Doomed
<1> QED BY <1>2, <1>3, <1>5, EvictingKept, Zenon

LEMMA EvictionsRequest ==
    ASSUME Types, Evictions, NEW p \in Publishers, RequestStep(p) PROVE Evictions'
<1>a. Affected("all") = Keys /\ \A k \in Keys : Affected(k) = {k}
  BY CacheAssumption, Zenon DEF Affected
<1>t. publisher \in [Publishers -> Publisher] /\ publisher[p] \in Publisher
  BY Zenon DEF Types, CacheTypes
<1>n. NoRequest.then = "idle"
  BY Zenon DEF NoRequest
<1>b. ASSUME NEW new, Begin(p, new)
      PROVE  /\ publisher' = [publisher EXCEPT ![p] = new] /\ publisher[p].pc # "publish"
             /\ UNCHANGED <<bus, cache, reader>>
  BY <1>b, Zenon DEF Begin
<1>1. ASSUME NEW k \in Keys, UpdateRepo(p, k) PROVE Evictions'
  <2> PICK new : new = Publishing("repo", k, "idle")
    BY Zenon
  <2>1. new.pc = "publish" /\ new.payload = k /\ new.then = "idle" /\ Begin(p, new)
    BY <1>1, Zenon DEF UpdateRepo, Publishing
  <2>2. \A j \in Keys : j \notin {k} => replaced'[j] = replaced[j]
    BY <1>1, Zenon DEF UpdateRepo, Change
  <2>3. \A j \in Keys : j \in {k} => new.pc = "publish" /\ j \in Affected(new.payload)
    BY <1>a, <2>1, Zenon
  <2> QED BY <1>b, <2>1, <2>2, <2>3, EvictionsBegin, Zenon
<1>2. ASSUME NEW k \in Keys, UpdateFails(p, k) PROVE Evictions'
  <2>1. ChangeUnannounced({k}) /\ UNCHANGED <<bus, publisher>>
    BY <1>2, Zenon DEF UpdateFails
  <2> QED BY <2>1, QuietEvicting, EvictionsUnannounced, Zenon
<1>3. ASSUME NEW k \in Keys, DeleteImporting(p, k) PROVE Evictions'
  <2> PICK new : new = Publishing("repo", k, "purge")
    BY Zenon
  <2>1. new.then = "purge" /\ Begin(p, new) /\ UNCHANGED replaced
    BY <1>3, Zenon DEF DeleteImporting, Publishing
  <2>2. UNCHANGED <<bus, cache, reader>> /\ publisher[p].pc # "publish"
        /\ publisher' = [publisher EXCEPT ![p] = new] /\ new.then # "commit"
    BY <1>b, <2>1, Zenon
  <2> QED BY <2>1, <2>2, OneRequest, EvictionsOn, Zenon
<1>4. ASSUME NEW k \in Keys, SoftDeleteNoAuth(p, k) PROVE Evictions'
  <2> PICK new : new = [publisher[p] EXCEPT !.pc = "publish", !.topic = "repo", !.payload = k,
                                            !.repos = @ \ {k}]
    BY Zenon
  <2>1. /\ publisher' = [publisher EXCEPT ![p] = new] /\ publisher[p].pc = "delete"
        /\ UNCHANGED <<bus, replaced, cache, reader>>
    BY <1>4, Zenon DEF SoftDeleteNoAuth
  <2>2. new.pc = "publish" /\ new.payload = k
    BY <1>t, Zenon DEF Publisher
  <2>3. \A j \in Keys : j \in {k} => new.pc = "publish" /\ j \in Affected(new.payload)
    BY <1>a, <2>2, Zenon
  <2>4. \A j \in Keys : j \notin {k} =>
           replaced'[j] = replaced[j] /\ j \notin Affected(new.payload)
    BY <1>a, <2>1, <2>2, Zenon
  <2> QED BY <2>1, <2>3, <2>4, EvictionsBegin, Zenon
<1>5. CASE PurgeNoAuth(p)
  <2>1. /\ publisher' = [publisher EXCEPT ![p] = NoRequest] /\ publisher[p].pc # "publish"
        /\ UNCHANGED bus
        /\ \/ ChangeUnannounced({publisher[p].payload})
           \/ UNCHANGED <<replaced, cache, reader>>
    BY <1>5, Zenon DEF PurgeNoAuth
  <2>2. \A k \in Keys : (Doomed(k)' => Doomed(k)) /\ (Evicting(k) => Evicting(k)')
    BY <1>n, <2>1, OneRequest, Zenon
  <2> QED BY <2>1, <2>2, EvictionsUnannounced, EvictionsOn, Zenon
<1>6. CASE SoftDeleteSpace(p)
  <2> PICK new : new = [NoRequest EXCEPT !.pc = "delete", !.then = "delete", !.repos = Keys]
    BY Zenon
  <2>1. new.then = "delete" /\ Begin(p, new) /\ UNCHANGED replaced
    BY <1>6, Zenon DEF SoftDeleteSpace, NoRequest
  <2>2. UNCHANGED <<bus, cache, reader>> /\ publisher[p].pc # "publish"
        /\ publisher' = [publisher EXCEPT ![p] = new] /\ new.then # "commit"
    BY <1>b, <2>1, Zenon
  <2> QED BY <2>1, <2>2, OneRequest, EvictionsOn, Zenon
<1>7. CASE CommitDelete(p)
  <2>0. publisher[p].pc # "publish" /\ UNCHANGED <<bus, cache, reader>>
    BY <1>7, Zenon DEF CommitDelete
  <2>1. CASE publisher' = [publisher EXCEPT ![p] = Publishing("space", "all", "idle")]
    <3> PICK new : new = Publishing("space", "all", "idle")
      BY Zenon
    <3>1. new.pc = "publish" /\ new.payload = "all" /\ publisher' = [publisher EXCEPT ![p] = new]
      BY <2>1, Zenon DEF Publishing
    <3>2. \A k \in Keys : k \in Keys => new.pc = "publish" /\ k \in Affected(new.payload)
      BY <1>a, <3>1, Zenon
    <3> QED BY <2>0, <3>1, <3>2, EvictionsBegin, Zenon
  <2>2. CASE publisher' = [publisher EXCEPT ![p] = NoRequest] /\ UNCHANGED replaced
    BY <1>n, <2>0, <2>2, OneRequest, EvictionsOn, Zenon
  <2> QED BY <1>7, <2>1, <2>2, Zenon DEF CommitDelete
<1>8. CASE MoveSpace(p)
  <2> PICK new : new = Publishing("space", "all", "commit")
    BY Zenon
  <2>1. new.pc = "publish" /\ new.payload = "all" /\ Begin(p, new)
    BY <1>8, Zenon DEF MoveSpace, Publishing
  <2>2. \A k \in Keys : k \in Keys => new.pc = "publish" /\ k \in Affected(new.payload)
    BY <1>a, <2>1, Zenon
  <2> QED BY <1>b, <2>1, <2>2, EvictionsBegin, Zenon
<1>9. CASE Commit(p)
  <2>0. /\ publisher' = [publisher EXCEPT ![p] = NoRequest] /\ publisher[p].pc = "commit"
        /\ UNCHANGED <<bus, cache, reader>>
        /\ Change(Affected(publisher[p].payload)) \/ UNCHANGED replaced
    BY <1>9, Zenon DEF Commit
  <2>1. publisher[p].then = "commit"
    BY <2>0, Zenon DEF Types, Requests, Sound
  <2>2. \A k \in Keys : (Doomed(k)' => Doomed(k)) /\ (Evicting(k) => Evicting(k)')
    BY <1>n, <2>0, OneRequest, Zenon
  <2>3. \A k \in Keys : replaced'[k] = replaced[k] \/ k \in Affected(publisher[p].payload)
    BY <2>0, Zenon DEF Change
  <2>4. \A k \in Keys : replaced'[k] = replaced[k] \/ Doomed(k)
    BY <2>1, <2>3, Zenon DEF Doomed
  <2> QED BY <2>0, <2>2, <2>4, EvictionsOn, Zenon
<1>10. CASE EvictReturns(p)
  <2> PICK new : new = IF publisher[p].then = "idle" THEN NoRequest
                       ELSE [publisher[p] EXCEPT !.pc = publisher[p].then]
    BY Zenon
  <2>0. /\ publisher' = [publisher EXCEPT ![p] = new] /\ publisher[p].pc # "publish"
        /\ UNCHANGED <<bus, replaced, cache, reader>>
    BY <1>10, Zenon DEF EvictReturns
  <2>1. new.then = "commit" =>
           publisher[p].then = "commit" /\ new.payload = publisher[p].payload
    BY <1>t, <1>n, Zenon DEF Publisher
  <2> QED BY <2>0, <2>1, OneRequest, EvictionsOn, Zenon
<1>11. CASE PublishEvent(p)
  <2> PICK new : new = [publisher[p] EXCEPT !.pc = "wait"]
    BY Zenon
  <2>0. /\ publisher' = [publisher EXCEPT ![p] = new] /\ publisher[p].pc # "publish"
        /\ UNCHANGED <<replaced, cache, reader, channel>> /\ sends \subseteq sends'
    BY <1>11, Zenon DEF PublishEvent, Publish
  <2>1. new.then = publisher[p].then /\ new.payload = publisher[p].payload
    BY <1>t, Zenon DEF Publisher
  <2>2. \A q \in Publishers : publisher'[q] = IF q = p THEN new ELSE publisher[q]
    BY <2>0, <1>t, Zenon
  <2>3. \A k \in Keys : Doomed(k)' => Doomed(k)
    BY <2>1, <2>2, Zenon DEF Doomed
  <2>4. ASSUME NEW k \in Keys, Evicting(k) PROVE Evicting(k)'
    <3>1. \A q \in Publishers : publisher[q].pc = "publish" => publisher'[q] = publisher[q]
      BY <2>0, <2>2, Zenon
    <3> QED BY <2>0, <2>4, <3>1, Zenon DEF Evicting
  <2> QED BY <2>0, <2>3, <2>4, EvictionsOn, Zenon
<1> QED BY <1>1, <1>2, <1>3, <1>4, <1>5, <1>6, <1>7, <1>8, <1>9, <1>10, <1>11, EvictionsEvict, Zenon
        DEF RequestStep

\* Steps of the service

LEMMA EvictionsHandle ==
    ASSUME Types, Evictions, NEW s \in Subscribers, Handle(s) PROVE Evictions'
<1>t. BusTypes /\ Receive(s)
  BY Zenon DEF Types, Handle
<1>0. /\ channel[s] \in Seq(Payloads) /\ channel' = [channel EXCEPT ![s] = Tail(channel[s])]
      /\ UNCHANGED <<sends, replaced, publisher>>
  BY <1>t, ReceiveTypes, Zenon DEF Handle
<1>1. \A t \in Subscribers : channel'[t] = IF t = s THEN Tail(channel[s]) ELSE channel[t]
  BY <1>0, <1>t, Zenon DEF BusTypes
<1>d. \A k \in Keys : Doomed(k)' => Doomed(k)
  BY <1>0, Zenon DEF Doomed
<1>p. \A k \in Keys : Pending(k)
  BY Zenon DEF Evictions
<1>2. CASE TopicOf[s] = "event"
  <2>1. UNCHANGED <<cache, reader>>
    BY <1>2, Zenon DEF Handle
  <2>2. Streaming(s)
    BY <1>2, Zenon DEF Streaming
  <2>3. \A t \in Subscribers : ~Streaming(t) => channel'[t] = channel[t]
    BY <1>1, <2>2, Zenon
  <2>4. \A k \in Keys : Evicting(k) => Evicting(k)'
    BY <1>0, <2>3, Zenon DEF Evicting, Streaming
  <2> QED BY <1>0, <1>d, <2>1, <2>4, EvictionsOn, Zenon
<1>3. CASE TopicOf[s] = "space"
  <2>1. EvictKeys(Keys)
    BY <1>3, Zenon DEF Handle
  <2>2. \A k \in Keys : cache'[k] = None
    BY <2>1, Zenon DEF EvictKeys
  <2>3. \A k \in Keys, r \in Readers : ~Found(r, k)'
    BY <2>1, OvertakenIsNotFound, Zenon DEF EvictKeys
  <2> QED BY <2>2, <2>3, PendingGone, Zenon DEF Evictions, Held
<1>4. CASE TopicOf[s] = "repo"
  <2> PICK c : c = channel[s]
    BY Zenon
  <2>0. c \in Seq(Keys) /\ c # <<>>
    BY <1>4, <1>t, Zenon DEF Types, Routing, Receive
  <2>1. /\ Head(c) \in Keys
        /\ \A i \in DOMAIN c : c[i] = Head(c) \/ \E j \in DOMAIN Tail(c) : Tail(c)[j] = c[i]
    BY <2>0, TailElements, Zenon
  <2>2. EvictKeys({Head(c)})
    BY <1>4, Zenon DEF Handle
  <2>3. Affected(Head(c)) = {Head(c)}
    BY <2>1, CacheAssumption, Zenon DEF Affected
  <2>4. Tail(c) # None
    <3>1. c \in Seq(Payloads) /\ c # <<>>
      BY <1>0, <2>0, Zenon
    <3>2. Tail(c) \in Seq(Payloads)
      BY <3>1, TailElements, Zenon
    <3> QED BY <3>2, PubSubAssumption, Zenon
  <2>5. ASSUME NEW k \in Keys PROVE Pending(k)'
    <3>1. CASE k = Head(c)
      <4>1. cache'[k] = None
        BY <2>2, <3>1, Zenon DEF EvictKeys
      <4>2. \A r \in Readers : ~Found(r, k)'
        BY <2>2, <3>1, OvertakenIsNotFound, Zenon DEF EvictKeys
      <4> QED BY <4>1, <4>2, PendingGone, Zenon DEF Held
    <3>2. CASE k # Head(c)
      <4>1. cache'[k] = cache[k]
        BY <2>2, <3>2, Zenon DEF EvictKeys
      <4>2. Held(k)' => Held(k) /\ cache'[k].data = cache[k].data
        BY <4>1, Zenon DEF Held
      <4>3. \A r \in Readers : Found(r, k)' => Found(r, k) /\ reader'[r].m[k] = reader[r].m[k]
        BY <2>2, OvertakenIsNotFound, Zenon DEF EvictKeys
      <4>4. k \notin Affected(Head(c))
        BY <2>3, <3>2, Zenon
      <4>5. Evicting(k) => Evicting(k)'
        <5>1. ASSUME NEW t \in Subscribers, channel[t] # None,
                     NEW i \in DOMAIN channel[t], k \in Affected(channel[t][i])
              PROVE  channel'[t] # None /\ \E j \in DOMAIN channel'[t] : k \in Affected(channel'[t][j])
          <6>1. CASE t = s
            <7>1. channel'[t] = Tail(c) /\ channel[t] = c
              BY <1>1, <6>1, Zenon
            <7>2. i \in DOMAIN c /\ k \in Affected(c[i])
              BY <5>1, <7>1, Zenon
            <7>3. PICK j \in DOMAIN Tail(c) : Tail(c)[j] = c[i]
              BY <2>1, <4>4, <7>2, Zenon
            <7> QED BY <2>4, <7>1, <7>2, <7>3, Zenon
          <6>2. CASE t # s
            BY <1>1, <5>1, <6>2, Zenon
          <6> QED BY <6>1, <6>2, Zenon
        <5> QED BY <1>0, <5>1, Zenon DEF Evicting, Streaming
      <4> QED BY <1>0, <1>d, <1>p, <4>2, <4>3, <4>5, PendingKept, Zenon
    <3> QED BY <3>1, <3>2, Zenon
  <2> QED BY <2>5, Zenon DEF Evictions
<1> QED BY <1>2, <1>3, <1>4, TopicCases, Zenon

LEMMA EvictionsSend ==
    ASSUME Types, Evictions, NEW g \in sends, Bus(SendAccepted(g)) \/ Drop(g) \/ Panic(g)
    PROVE  Evictions'
<1>t. BusTypes /\ g.to \in Subscribers /\ g.payload \in Payloads
  BY Zenon DEF Types, BusTypes, PubSubTypeOK, Send
<1>1. CASE Bus(SendAccepted(g))
  <2>0. SendAccepted(g) /\ UNCHANGED <<replaced, cache, reader, publisher>> /\ sends' = sends \ {g}
    BY <1>1, Zenon DEF Bus, SendAccepted
  <2> PICK c : c = channel[g.to]
    BY Zenon
  <2>1. c \in Seq(Payloads) /\ channel' = [channel EXCEPT ![g.to] = Append(c, g.payload)]
    BY <1>t, <2>0, AcceptTypes, Zenon
  <2>2. \A t \in Subscribers : channel'[t] = IF t = g.to THEN Append(c, g.payload) ELSE channel[t]
    BY <1>t, <2>1, Zenon DEF BusTypes
  <2>3. /\ \A i \in DOMAIN c : i \in DOMAIN Append(c, g.payload) /\ Append(c, g.payload)[i] = c[i]
        /\ Len(c) + 1 \in DOMAIN Append(c, g.payload) /\ Append(c, g.payload)[Len(c) + 1] = g.payload
    BY ONLY <1>t, <2>1, AppendElements
  <2>4. Append(c, g.payload) # None
    <3>1. Append(c, g.payload) \in Seq(Payloads)
      BY ONLY <1>t, <2>1, AppendElements, Zenon
    <3> QED BY <3>1, PubSubAssumption, Zenon
  <2>5. ASSUME NEW k \in Keys, Evicting(k) PROVE Evicting(k)'
    <3>1. ASSUME NEW t \in Subscribers, channel[t] # None,
                 NEW i \in DOMAIN channel[t], k \in Affected(channel[t][i])
          PROVE  channel'[t] # None /\ \E j \in DOMAIN channel'[t] : k \in Affected(channel'[t][j])
      <4>1. CASE t = g.to
        BY <2>2, <2>3, <2>4, <3>1, <4>1, Zenon
      <4>2. CASE t # g.to
        BY <2>2, <3>1, <4>2, Zenon
      <4> QED BY <4>1, <4>2, Zenon
    <3>2. ASSUME ~Streaming(g.to), k \in Affected(g.payload) PROVE Evicting(k)'
      <4>1. /\ channel'[g.to] # None
            /\ \E j \in DOMAIN channel'[g.to] : k \in Affected(channel'[g.to][j])
        BY <1>t, <2>2, <2>3, <2>4, <3>2, Zenon
      <4> QED BY <1>t, <3>2, <4>1, Zenon DEF Evicting, Streaming
    <3>3. \A h \in sends : h = g \/ h \in sends'
      BY <2>0, Zenon
    <3> QED BY <2>0, <2>5, <3>1, <3>2, <3>3, Zenon DEF Evicting, Streaming
  <2>6. \A k \in Keys : Doomed(k)' => Doomed(k)
    BY <2>0, Zenon DEF Doomed
  <2> QED BY <2>0, <2>5, <2>6, EvictionsOn, Zenon
<1>2. CASE Drop(g)
  <2>1. /\ \A k \in Keys : cache'[k] # None =>
              /\ cache[k] # None /\ cache'[k].data = cache[k].data
              /\ k \in Lost(g) => cache'[k].excused
              /\ k \notin Lost(g) => cache'[k].excused = cache[k].excused
        /\ Overtake(Lost(g)) /\ UNCHANGED <<replaced, publisher, channel>>
        /\ sends' = sends \ {g}
    BY <1>2, DropKeeps, Zenon
  <2>2. ASSUME NEW k \in Keys PROVE Pending(k)'
    <3>1. CASE k \in Lost(g)
      BY <2>1, <3>1, OvertakenIsNotFound, PendingGone, Zenon DEF Held
    <3>2. CASE k \notin Lost(g)
      <4>1. Held(k)' => Held(k) /\ cache'[k].data = cache[k].data
        BY <2>1, <3>2, Zenon DEF Held
      <4>2. \A r \in Readers : Found(r, k)' => Found(r, k) /\ reader'[r].m[k] = reader[r].m[k]
        BY <2>1, OvertakenIsNotFound, Zenon
      <4>3. \A h \in sends : h = g \/ h \in sends'
        BY <2>1, Zenon
      <4>4. ~Streaming(g.to) => k \notin Affected(g.payload)
        BY <3>2, Zenon DEF Lost, Streaming
      <4>5. (Evicting(k) => Evicting(k)') /\ (Doomed(k)' => Doomed(k))
        BY <2>1, <4>3, <4>4, Zenon DEF Evicting, Doomed, Streaming
      <4> QED BY <2>1, <4>1, <4>2, <4>5, PendingKept, Zenon DEF Evictions
    <3> QED BY <3>1, <3>2, Zenon
  <2> QED BY <2>2, Zenon DEF Evictions
<1>3. CASE Panic(g)
  <2>1. (\A k \in Keys : cache'[k] = None) /\ (\A r \in Readers : reader'[r].pc # "put")
    BY <1>3, Zenon DEF Panic, NoCall
  <2> QED BY <2>1, PendingGone, Zenon DEF Evictions, Held, Found
<1> QED BY <1>1, <1>2, <1>3, Zenon

LEMMA InitEvictions == Init => Evictions
<1> SUFFICES ASSUME Init, NEW k \in Keys PROVE Pending(k)
  BY Zenon DEF Evictions
<1>1. cache[k] = None /\ \A r \in Readers : reader[r].pc # "put"
  BY Zenon DEF Init, NoCall
<1> QED BY <1>1, Zenon DEF Pending, Held, Found

LEMMA StepEvictions ==
    ASSUME needsLocking PROVE Types /\ Evictions /\ [Next]_vars => Evictions'
<1> SUFFICES ASSUME Types, Evictions, [Next]_vars PROVE Evictions'
  BY Zenon
<1>1. ASSUME UNCHANGED <<cache, reader, replaced, publisher, sends>>,
             \A s \in Subscribers : channel[s] # None => channel'[s] = channel[s]
      PROVE  Evictions'
  <2>1. \A k \in Keys : (Doomed(k)' => Doomed(k)) /\ (Evicting(k) => Evicting(k)')
    BY <1>1, Zenon DEF Doomed, Evicting, Streaming
  <2> QED BY <1>1, <2>1, EvictionsOn, Zenon
<1>2. CASE purger
  <2>1. ASSUME NEW k \in Keys PROVE Pending(k)'
    <3>1. cache'[k] # None => cache'[k] = cache[k]
      BY <1>2, Zenon DEF purger
    <3>2. Held(k)' => Held(k) /\ cache'[k].data = cache[k].data
      BY <3>1, Zenon DEF Held
    <3>3. UNCHANGED <<bus, publisher, reader, replaced>>
      BY <1>2, Zenon DEF purger
    <3>4. \A r \in Readers : Found(r, k)' => Found(r, k) /\ reader'[r].m[k] = reader[r].m[k]
      BY <3>3, Zenon DEF Found
    <3> QED BY <3>2, <3>3, <3>4, QuietEvicting, PendingKept, Zenon DEF Evictions
  <2> QED BY <2>1, Zenon DEF Evictions
<1>3. CASE Tick \/ UNCHANGED vars
  BY <1>1, <1>3, Zenon DEF Tick, vars, bus
<1>4. ASSUME NEW s \in Subscribers, Bus(MakeChannel(s)) PROVE Evictions'
  <2>1. \A t \in Subscribers : channel[t] # None => channel'[t] = channel[t]
    BY <1>4, Zenon DEF Bus, MakeChannel, Types, BusTypes
  <2> QED BY <1>1, <1>4, <2>1, Zenon DEF Bus, MakeChannel
<1>5. ASSUME NEW s \in Subscribers, Stream(s) \/ (Streaming(s) /\ Bus(Close(s))) PROVE Evictions'
  BY <1>1, <1>5, Zenon DEF Bus, Stream, Subscribe, Close
<1> QED BY <1>2, <1>3, <1>4, <1>5, EvictionsReader, EvictionsPut, EvictionsRequest, EvictionsHandle,
           EvictionsSend, Zenon DEF Next, RequestStep

-----------------------------------------------------------------------------
(* Theorems *)

\* Every variable of the cache and of the service keeps its type, and no entry holds a value
\* that the database has not had (TTLCache, InMemory).
THEOREM CacheTypeCorrect == Spec => []TypeOK
<1>1. Init => Types /\ Fresh
  BY InitTypes, InitFresh, Zenon
<1>2. Types /\ Fresh /\ [Next]_vars => Types' /\ Fresh'
  BY StepTypes, StepFresh, Zenon
<1>3. Types /\ Fresh => TypeOK
  <2>1. Fresh => \A k \in Keys : cache[k] # None => cache[k].data <= db(k)
    BY Zenon DEF Fresh, Since, db
  <2> QED BY <2>1, Zenon DEF TypeOK, Types, BusTypes, CacheTypes
<1> QED BY <1>1, <1>2, <1>3, PTL DEF Spec

\* A call of Get or Map returns no value that was replaced more than maxAge before the call
\* began, whatever happens to evictions: an entry is added with the time of the call that
\* fetched it (ttl_cache.go).
THEOREM CallsAreFreshEnough == Spec => []FreshEnough
<1>1. Init => Types /\ Fresh
  BY InitTypes, InitFresh, Zenon
<1>2. Types /\ Fresh /\ [Next]_vars => Types' /\ Fresh'
  BY StepTypes, StepFresh, Zenon
<1>3. Types /\ Fresh => FreshEnough
  BY Zenon DEF Fresh, FreshEnough, CurrentSince, Since, db
<1> QED BY <1>1, <1>2, <1>3, PTL DEF Spec

\* With a database that has a global lock, an entry the database has moved past is about to
\* be evicted, unless its eviction was dropped or overtook it (Evictor, InMemory.Publish),
\* or its row was purged after the eviction was published (SoftDeleteNoAuth of a repository
\* that is being imported), or updated by a call that failed afterwards (RepoStore.Update).
THEOREM StaleEntriesAreEvicted ==
    ASSUME needsLocking PROVE Spec => []StaleIsEvicted
<1>1. Init => Types /\ Evictions
  BY InitTypes, InitEvictions, Zenon
<1>2. Types /\ Evictions /\ [Next]_vars => Types' /\ Evictions'
  BY StepTypes, StepEvictions, Zenon
<1>3. Types /\ Evictions => StaleIsEvicted
  BY Zenon DEF Evictions, Pending, StaleIsEvicted, Held, Outdated
<1> QED BY <1>1, <1>2, <1>3, PTL DEF Spec
=============================================================================
