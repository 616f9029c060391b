---------------------------- MODULE CacheEviction ----------------------------
(***************************************************************************)
(* The cache of repositories of a server (src/cache/ttl_cache.go with      *)
(* src/app/store/cache) over the database and the publish/subscribe        *)
(* service: a row is changed, the change is published on the topic of      *)
(* repositories or of spaces, and the handlers evict one entry or all of   *)
(* them, while readers fetch, find and put. A change of a space changes    *)
(* what is cached of all its repositories. The value of a row is the       *)
(* number of its changes.                                                  *)
(***************************************************************************)
EXTENDS PubSub

CONSTANTS
    Keys,           \* IDs of repositories
    Readers,        \* callers of Get and Map
    maxAge,
    needsLocking,   \* the driver has a global lock, held through a transaction
    MaxChanges,     \* bound: changes of repositories and spaces, streams and events
    MaxTime,        \* bound: clock
    MaxSteps        \* bound: changes and ticks of the clock together

ASSUME CacheAssumption ==
    /\ maxAge \in Nat /\ MaxChanges \in Nat /\ MaxTime \in Nat
    /\ MaxSteps \in Nat
    /\ needsLocking \in BOOLEAN
    /\ Payloads = Keys \cup {"all"} /\ "all" \notin Keys
    /\ {"repo", "space", "event"} = Topics

VARIABLES
    now,        \* the clock
    replaced,   \* key -> times at which its value in the database was replaced
    cache,      \* key -> entry of TTLCache.cache, None if there is none
    reader,     \* the calls of Get and Map
    publisher,  \* the requests that change a repository or a space
    changes     \* changes so far

vars == <<bus, now, replaced, cache, reader, publisher, changes>>

db(k) == Len(replaced[k])

\* excused: history, an eviction of the entry was dropped, or came before the
\* entry was put and after its value was found, or the row was changed with no
\* eviction to follow
cacheEntry == [added: Nat, data: Nat, excused: BOOLEAN]

\* todo: keys to fetch, missing: keys not in the cache, m: the result
\* overtaken: history, keys found that would be excused if they were cached
Reader == [pc: {"idle", "fetch", "put"}, now: Nat, todo: SUBSET Keys, missing: SUBSET Keys,
           m: [Keys -> Nat \cup {None}], overtaken: SUBSET Keys]

\* then: where the request goes on when Publish returns
\* repos: repositories that the deletion of their space has still to delete
Publisher == [pc: {"idle", "publish", "wait", "commit", "delete", "purge"},
              then: {"idle", "commit", "delete", "purge"},
              topic: Topics \cup {None}, payload: Payloads \cup {None}, repos: SUBSET Keys]

NoCall == [pc |-> "idle", now |-> 0, todo |-> {}, missing |-> {},
           m |-> [k \in Keys |-> None], overtaken |-> {}]
NoRequest == [pc |-> "idle", then |-> "idle", topic |-> None, payload |-> None, repos |-> {}]

\* Streams of events come and go, the caches subscribe for good
Streaming(s) == TopicOf[s] = "event"
Wired == {s \in Subscribers : ~ Streaming(s)}

TypeOK ==
    /\ PubSubTypeOK
    /\ now \in 0 .. MaxTime /\ changes \in 0 .. MaxChanges
    /\ replaced \in [Keys -> Seq(0 .. MaxTime)]
    /\ cache \in [Keys -> cacheEntry \cup {None}]
    /\ \A k \in Keys : cache[k] # None => cache[k].data <= db(k)
    /\ reader \in [Readers -> Reader]
    /\ publisher \in [Publishers -> Publisher]

Init ==
    /\ PubSubInit(Wired)
    /\ now = 0 /\ changes = 0
    /\ replaced = [k \in Keys |-> <<>>]
    /\ cache = [k \in Keys |-> None]
    /\ reader = [r \in Readers |-> NoCall]
    /\ publisher = [p \in Publishers |-> NoRequest]

CountChange ==
    /\ changes < MaxChanges /\ now + changes < MaxSteps
    /\ changes' = changes + 1

Affected(payload) == IF payload = "all" THEN Keys ELSE {payload}
-----------------------------------------------------------------------------
(***************************************************************************)
(* TTLCache: a call of Map, or of Get for one key. The time of the call is *)
(* taken first, and is the time its entries are added.                     *)
(***************************************************************************)
Call(r, keys) ==
    /\ reader[r].pc = "idle" /\ keys # {}
    /\ reader' = [reader EXCEPT ![r] = [NoCall EXCEPT !.pc = "fetch", !.now = now, !.todo = keys]]
    /\ UNCHANGED <<bus, now, replaced, cache, publisher, changes>>

Hit(k, time) == cache[k] # None /\ time - cache[k].added <= maxAge

fetch(r, k) ==
    LET me == reader[r]
    IN  /\ me.pc = "fetch" /\ k \in me.todo
        /\ reader' = [reader EXCEPT ![r] =
              IF Hit(k, me.now)
              THEN [me EXCEPT !.todo = @ \ {k}, !.m[k] = cache[k].data]
              ELSE [me EXCEPT !.todo = @ \ {k}, !.missing = @ \cup {k}]]
        /\ UNCHANGED <<bus, now, replaced, cache, publisher, changes>>

\* All keys were in the cache
Return(r) ==
    /\ reader[r].pc = "fetch" /\ reader[r].todo = {} /\ reader[r].missing = {}
    /\ reader' = [reader EXCEPT ![r] = NoCall]
    /\ UNCHANGED <<bus, now, replaced, cache, publisher, changes>>

InTransaction(p) == publisher[p].then \in {"commit", "delete"}
Unlocked == needsLocking => \A p \in Publishers : ~ InTransaction(p)

\* getter.Find or FindMany returns the values, or an error
Find(r) ==
    LET me == reader[r]
    IN  /\ me.pc = "fetch" /\ me.todo = {} /\ me.missing # {}
        /\ Unlocked
        /\ \/ reader' = [reader EXCEPT ![r] =
                 [me EXCEPT !.pc = "put", !.m = [k \in Keys |-> IF k \in me.missing THEN db(k) ELSE @[k]]]]
           \/ reader' = [reader EXCEPT ![r] = NoCall]
        /\ UNCHANGED <<bus, now, replaced, cache, publisher, changes>>

\* Variant: entries are added at the time they are put.
PutLater(r) ==
    LET me == reader[r]
    IN  /\ me.pc = "put"
        /\ cache' = [k \in Keys |->
              IF k \in me.missing
              THEN [added |-> now, data |-> me.m[k], excused |-> k \in me.overtaken]
              ELSE cache[k]]
        /\ reader' = [reader EXCEPT ![r] = NoCall]
        /\ UNCHANGED <<bus, now, replaced, publisher, changes>>

Put(r) ==
    LET me == reader[r]
    IN  /\ me.pc = "put"
        /\ cache' = [k \in Keys |->
              IF k \in me.missing
              THEN [added |-> me.now, data |-> me.m[k], excused |-> k \in me.overtaken]
              ELSE cache[k]]
        /\ reader' = [reader EXCEPT ![r] = NoCall]
        /\ UNCHANGED <<bus, now, replaced, publisher, changes>>

purger ==
    /\ cache' = [k \in Keys |->
          IF cache[k] # None /\ now - cache[k].added >= maxAge THEN None ELSE cache[k]]
    /\ UNCHANGED <<bus, now, replaced, reader, publisher, changes>>

Tick ==
    /\ now < MaxTime /\ now + changes < MaxSteps
    /\ now' = now + 1
    /\ UNCHANGED <<bus, replaced, cache, reader, publisher, changes>>
-----------------------------------------------------------------------------
(***************************************************************************)
(* Evictions, and what excuses an entry from them                          *)
(***************************************************************************)
\* Calls that have found the keys and not yet put them are overtaken
Overtake(keys) ==
    reader' = [r \in Readers |->
        IF reader[r].pc = "put" THEN [reader[r] EXCEPT !.overtaken = @ \cup keys] ELSE reader[r]]

EvictKeys(keys) ==
    /\ cache' = [k \in Keys |-> IF k \in keys THEN None ELSE cache[k]]
    /\ Overtake(keys)

Excuse(keys) ==
    /\ cache' = [k \in Keys |->
          IF k \in keys /\ cache[k] # None THEN [cache[k] EXCEPT !.excused = TRUE] ELSE cache[k]]
    /\ Overtake(keys)

\* An eviction of k has been decided on and not yet handled
Evicting(k) ==
    \/ \E p \in Publishers : publisher[p].pc = "publish" /\ k \in Affected(publisher[p].payload)
    \/ \E g \in sends : ~ Streaming(g.to) /\ k \in Affected(g.payload)
    \/ \E s \in Subscribers : ~ Streaming(s) /\ channel[s] # None
          /\ \E i \in DOMAIN channel[s] : k \in Affected(channel[s][i])
-----------------------------------------------------------------------------
(***************************************************************************)
(* Requests that change rows and publish the change: after it, before it,  *)
(* within its transaction, or not at all                                   *)
(***************************************************************************)
Begin(p, new) ==
    /\ publisher[p].pc = "idle" /\ Unlocked
    /\ CountChange
    /\ publisher' = [publisher EXCEPT ![p] = new]
    /\ UNCHANGED <<bus, now, cache, reader>>

Publishing(topic, payload, then) ==
    [pc |-> "publish", then |-> then, topic |-> topic, payload |-> payload, repos |-> {}]

Change(keys) ==
    replaced' = [k \in Keys |-> IF k \in keys THEN Append(replaced[k], now) ELSE replaced[k]]

\* A change that no eviction follows, except one that is already on its way
ChangeUnannounced(keys) == Change(keys) /\ Excuse({k \in keys : ~ Evicting(k)})

\* Update, default branch, soft deletion of a repository
UpdateRepo(p, k) == Begin(p, Publishing("repo", k, "idle")) /\ Change({k})

\* Update has changed the row and fails to find the path of the repository:
\* the request fails and publishes nothing.
UpdateFails(p, k) ==
    /\ publisher[p].pc = "idle" /\ Unlocked
    /\ CountChange
    /\ ChangeUnannounced({k})
    /\ UNCHANGED <<bus, now, publisher>>

\* Soft deletion of a repository that is being imported: MarkChanged comes
\* first, then the import is cancelled and the row deleted.
DeleteImporting(p, k) == Begin(p, Publishing("repo", k, "purge")) /\ UNCHANGED replaced

\* The row is deleted, or Cancel or Purge fails
PurgeNoAuth(p) ==
    /\ publisher[p].pc = "purge" /\ Unlocked
    /\ ChangeUnannounced({publisher[p].payload}) \/ UNCHANGED <<replaced, cache, reader>>
    /\ publisher' = [publisher EXCEPT ![p] = NoRequest]
    /\ UNCHANGED <<bus, now, changes>>

MoveSpace(p) == Begin(p, Publishing("space", "all", "commit")) /\ UNCHANGED replaced

\* The transaction deletes the repositories of the space one by one
SoftDeleteSpace(p) ==
    /\ Begin(p, [NoRequest EXCEPT !.pc = "delete", !.then = "delete", !.repos = Keys])
    /\ UNCHANGED replaced

SoftDeleteNoAuth(p, k) ==
    /\ publisher[p].pc = "delete" /\ k \in publisher[p].repos
    /\ publisher' = [publisher EXCEPT ![p] =
          [publisher[p] EXCEPT !.pc = "publish", !.topic = "repo", !.payload = k,
                               !.repos = @ \ {k}]]
    /\ UNCHANGED <<bus, now, replaced, cache, reader, changes>>

\* The transaction is committed and the change of the space is published, or
\* one of its statements fails and it is rolled back
CommitDelete(p) ==
    /\ publisher[p].pc = "delete"
    /\ \/ /\ publisher[p].repos = {}
          /\ Change(Keys)
          /\ publisher' = [publisher EXCEPT ![p] = Publishing("space", "all", "idle")]
       \/ /\ publisher' = [publisher EXCEPT ![p] = NoRequest]
          /\ UNCHANGED replaced
    /\ UNCHANGED <<bus, now, cache, reader, changes>>

\* MarkChanged, Evictor.Evict
Evict(p) ==
    /\ publisher[p].pc = "publish"
    /\ Publish(p, publisher[p].topic, publisher[p].payload)
    /\ publisher' = [publisher EXCEPT ![p].pc = "wait"]
    /\ UNCHANGED <<now, replaced, cache, reader, changes>>

EvictReturns(p) ==
    /\ publisher[p].pc = "wait" /\ Published(p)
    /\ publisher' = [publisher EXCEPT ![p] =
          IF publisher[p].then = "idle" THEN NoRequest
          ELSE [@ EXCEPT !.pc = publisher[p].then]]
    /\ UNCHANGED <<bus, now, replaced, cache, reader, changes>>

\* The transaction is committed, or fails and is rolled back
Commit(p) ==
    /\ publisher[p].pc = "commit"
    /\ Change(Affected(publisher[p].payload)) \/ UNCHANGED replaced
    /\ publisher' = [publisher EXCEPT ![p] = NoRequest]
    /\ UNCHANGED <<bus, now, cache, reader, changes>>

\* An event of sse, which nobody evicts for
PublishEvent(p) ==
    /\ publisher[p].pc = "idle"
    /\ CountChange
    /\ Publish(p, "event", "all")
    /\ publisher' = [publisher EXCEPT ![p].pc = "wait"]
    /\ UNCHANGED <<now, replaced, cache, reader>>
-----------------------------------------------------------------------------
(***************************************************************************)
(* The service and the handlers                                            *)
(***************************************************************************)
\* Variant: a change of a space evicts nothing.
HandleRepo(s) ==
    /\ Receive(s)
    /\ IF TopicOf[s] = "repo" THEN EvictKeys({Head(channel[s])}) ELSE UNCHANGED <<cache, reader>>
    /\ UNCHANGED <<now, replaced, publisher, changes>>

Handle(s) ==
    /\ Receive(s)
    /\ CASE TopicOf[s] = "repo" -> EvictKeys({Head(channel[s])})
         [] TopicOf[s] = "space" -> EvictKeys(Keys)
         [] TopicOf[s] = "event" -> UNCHANGED <<cache, reader>>
    /\ UNCHANGED <<now, replaced, publisher, changes>>

\* The message of the goroutine g does not arrive
Drop(g) ==
    /\ SendDropped(g)
    /\ Excuse(IF TopicOf[g.to] = "event" THEN {} ELSE Affected(g.payload))
    /\ UNCHANGED <<now, replaced, publisher, changes>>

Bus(action) == action /\ UNCHANGED <<now, replaced, cache, reader, publisher, changes>>

Panic(g) ==
    /\ SendPanics(g, Wired)
    /\ cache' = [k \in Keys |-> None]
    /\ reader' = [r \in Readers |-> NoCall]
    /\ publisher' = [p \in Publishers |-> NoRequest]
    /\ UNCHANGED <<now, replaced, changes>>

Stream(s) ==
    /\ Streaming(s)
    /\ CountChange
    /\ Subscribe(s)
    /\ UNCHANGED <<now, replaced, cache, reader, publisher>>

Next ==
    \/ \E r \in Readers :
          \/ \E keys \in SUBSET Keys : Call(r, keys)
          \/ \E k \in Keys : fetch(r, k)
          \/ Return(r) \/ Find(r) \/ Put(r)
    \/ purger \/ Tick
    \/ \E p \in Publishers :
          \/ \E k \in Keys : UpdateRepo(p, k) \/ UpdateFails(p, k)
          \/ \E k \in Keys : DeleteImporting(p, k) \/ SoftDeleteNoAuth(p, k)
          \/ PurgeNoAuth(p) \/ SoftDeleteSpace(p) \/ CommitDelete(p)
          \/ MoveSpace(p) \/ Commit(p)
          \/ Evict(p) \/ EvictReturns(p) \/ PublishEvent(p)
    \/ \E s \in Subscribers :
          \/ Bus(MakeChannel(s)) \/ Handle(s)
          \/ Stream(s) \/ (Streaming(s) /\ Bus(Close(s)))
    \/ \E g \in sends : Bus(SendAccepted(g)) \/ Drop(g) \/ Panic(g)

Spec == Init /\ [][Next]_vars
-----------------------------------------------------------------------------
\* The value was in the database at the time or later
CurrentSince(k, value, time) == value = db(k) \/ replaced[k][value + 1] >= time

\* A call returns no value that had been replaced more than maxAge before the
\* call began, whatever evictions were lost, late or overtaken.
FreshEnough ==
    \A r \in Readers, k \in Keys :
        reader[r].m[k] # None => CurrentSince(k, reader[r].m[k], reader[r].now - maxAge)

\* An entry that the database has moved past is about to be evicted, with four
\* exceptions: the eviction was dropped, it overtook the call that put the entry,
\* the row was purged after the eviction that was published for it, or the row was
\* updated by a call that returned an error and published nothing. Publishing
\* within a transaction (MoveSpace) is not among them when the database is locked.
StaleIsEvicted ==
    \A k \in Keys :
        cache[k] # None /\ cache[k].data < db(k) /\ ~ cache[k].excused => Evicting(k)
=============================================================================
