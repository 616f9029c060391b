---------------------------- MODULE InMemoryMutex ----------------------------
(***************************************************************************)
(* The in-memory lock manager (src/lock/memory.go): the map of keys with   *)
(* token and validity, and the mutex objects that callers make with        *)
(* NewMutex, lock, and unlock. Every mutex has a token of its own, so the  *)
(* mutex stands for its token, and one caller. A call of Lock that has to  *)
(* wait tries again until it runs out of tries, its wait time passes or    *)
(* its context ends; the last two may happen at any moment.                *)
(***************************************************************************)
EXTENDS Integers

CONSTANTS
    Mutexes,    \* mutex objects
    Keys,       \* formatted keys
    KeyOf,      \* the key of every mutex
    Expiry,     \* config.Expiry
    Tries,      \* config.Tries
    MaxTime,    \* bound: last point in time
    None

\* Nothing in the code checks config.Tries (8 by default). With Tries = 0 the loop of Lock
\* does not run, and Lock returns nil without the lock when its first acquire fails: there
\* is no exclusion then, and such a configuration is excluded here.
ASSUME MutexAssumption ==
    /\ KeyOf \in [Mutexes -> Keys]
    /\ Expiry \in Nat \ {0}
    /\ Tries \in Nat \ {0}
    /\ MaxTime \in Nat
    /\ None \notin Mutexes

VARIABLES
    now,      \* the clock
    keys,     \* InMemory.keys: key -> entry, token None if there is none
    isHeld,   \* inMemMutex.isHeld
    caller,   \* idle, wait (in Lock), in (Lock has returned without error)
    attempt,  \* the variable i of the loop in Lock
    since     \* when the mutex got its last lease

vars == <<now, keys, isHeld, caller, attempt, since>>

Entry == [token: Mutexes \cup {None}, validUntil: Nat]
NoEntry == [token |-> None, validUntil |-> 0]

TypeOK ==
    /\ now \in Nat
    /\ keys \in [Keys -> Entry]
    /\ isHeld \in [Mutexes -> BOOLEAN]
    /\ caller \in [Mutexes -> {"idle", "wait", "in"}]
    /\ attempt \in [Mutexes -> 1..Tries]
    /\ since \in [Mutexes -> Nat]

Init ==
    /\ now = 0
    /\ keys = [k \in Keys |-> NoEntry]
    /\ isHeld = [m \in Mutexes |-> FALSE]
    /\ caller = [m \in Mutexes |-> "idle"]
    /\ attempt = [m \in Mutexes |-> 1]
    /\ since = [m \in Mutexes |-> 0]

\* Variant: an entry is valid only before its last instant.
TakenShort(k) == keys[k].token # None /\ keys[k].validUntil > now + 1

\* entry, ok := m.keys[key]; ok && entry.validUntil.After(now)
Taken(k) == keys[k].token # None /\ keys[k].validUntil > now

acquire(m) ==
    /\ ~Taken(KeyOf[m])
    /\ keys' = [keys EXCEPT ![KeyOf[m]] = [token |-> m, validUntil |-> now + Expiry]]
    /\ since' = [since EXCEPT ![m] = now]
    /\ isHeld' = [isHeld EXCEPT ![m] = TRUE]
    /\ caller' = [caller EXCEPT ![m] = "in"]

Lock(m) ==
    /\ caller[m] = "idle"
    /\ ~isHeld[m]
    /\ acquire(m)
    /\ UNCHANGED <<now, attempt>>

\* The first attempt fails: the loop starts with i = 1.
LockWaits(m) ==
    /\ caller[m] = "idle"
    /\ ~isHeld[m]
    /\ Taken(KeyOf[m])
    /\ caller' = [caller EXCEPT ![m] = "wait"]
    /\ attempt' = [attempt EXCEPT ![m] = 1]
    /\ UNCHANGED <<now, keys, isHeld, since>>

\* Variant: the number of tries is not looked at.
retryUnlimited(m) ==
    /\ caller[m] = "wait"
    /\ \/ /\ acquire(m)
          /\ UNCHANGED attempt
       \/ /\ Taken(KeyOf[m])
          /\ attempt' = [attempt EXCEPT ![m] = @ + 1]
          /\ UNCHANGED <<keys, since, isHeld, caller>>
    /\ UNCHANGED now

\* The delay is over: one more attempt.
retry(m) ==
    /\ caller[m] = "wait"
    /\ attempt[m] < Tries
    /\ \/ /\ acquire(m)
          /\ UNCHANGED attempt
       \/ /\ Taken(KeyOf[m])
          /\ attempt' = [attempt EXCEPT ![m] = @ + 1]
          /\ UNCHANGED <<keys, since, isHeld, caller>>
    /\ UNCHANGED now

\* max retries exceeded, or ctx.Done(), or timeout.C
LockFails(m) ==
    /\ caller[m] = "wait"
    /\ caller' = [caller EXCEPT ![m] = "idle"]
    /\ UNCHANGED <<now, keys, isHeld, attempt, since>>

\* Variant: the token is not compared.
releaseAny(m) == keys[KeyOf[m]].token # None

release(m) == keys[KeyOf[m]].token = m

Unlock(m) ==
    /\ caller[m] = "in"
    /\ release(m)
    /\ keys' = [keys EXCEPT ![KeyOf[m]] = NoEntry]
    /\ isHeld' = [isHeld EXCEPT ![m] = FALSE]
    /\ caller' = [caller EXCEPT ![m] = "idle"]
    /\ UNCHANGED <<now, attempt, since>>

\* lock not held: the entry is gone. isHeld stays, the mutex is of no use
\* any more: Lock would fail with "lock already held".
UnlockFails(m) ==
    /\ caller[m] = "in"
    /\ ~release(m)
    /\ caller' = [caller EXCEPT ![m] = "idle"]
    /\ UNCHANGED <<now, keys, isHeld, attempt, since>>

Clock ==
    /\ now < MaxTime
    /\ now' = now + 1
    /\ UNCHANGED <<keys, isHeld, caller, attempt, since>>

Next ==
    \/ \E m \in Mutexes : \/ Lock(m) \/ LockWaits(m) \/ retry(m) \/ LockFails(m)
                          \/ Unlock(m) \/ UnlockFails(m)
    \/ Clock

Spec == Init /\ [][Next]_vars
-----------------------------------------------------------------------------
\* Two callers are inside at the same time only if the lease of one of them
\* has run out: the exclusion that acquire, release and the tokens provide,
\* whatever retries, late unlocks and unlocks of lost leases do to the map.
ExclusiveWithinLease ==
    \A m, n \in Mutexes :
        m # n /\ KeyOf[m] = KeyOf[n] /\ caller[m] = "in" /\ caller[n] = "in"
          => since[m] + Expiry <= now \/ since[n] + Expiry <= now

\* The entry of a key counts as long as it is valid.
Lease == [k \in Keys |-> IF Taken(k) THEN keys[k] ELSE NoEntry]

Inside == {m \in Mutexes : caller[m] = "in"}

Abstract == INSTANCE LeaseLock WITH lease <- Lease, inside <- Inside

\* The lock manager implements the lease lock that its users rely on: no call
\* takes a key away from an owner whose lease runs, or releases it for
\* somebody else, although stale entries, lost leases and late calls are around.
ImplementsLeaseLock == Abstract!Spec
=============================================================================
