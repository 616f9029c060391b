------------------------------ MODULE LeaseLock ------------------------------
(***************************************************************************)
(* What a lock.MutexManager promises (src/lock/lock.go): for every key at  *)
(* most one owner at a time, who keeps the key until it releases it or its *)
(* lease runs out, and not a moment less. This is the lock that            *)
(* JobScheduler takes for granted.                                         *)
(***************************************************************************)
EXTENDS Integers

CONSTANTS Mutexes, Keys, KeyOf, Expiry, None

VARIABLES
    now,       \* the clock
    lease,     \* key -> its owner and the time until which it owns the key
    inside     \* the mutexes that have been locked and not yet unlocked

NoLease == [token |-> None, validUntil |-> 0]

Init ==
    /\ now = 0
    /\ lease = [k \in Keys |-> NoLease]
    /\ inside = {}

Acquire(m) ==
    /\ m \notin inside
    /\ lease[KeyOf[m]] = NoLease
    /\ lease' = [lease EXCEPT ![KeyOf[m]] = [token |-> m, validUntil |-> now + Expiry]]
    /\ inside' = inside \cup {m}
    /\ UNCHANGED now

\* An unlock that comes after the end of the lease changes nothing.
Release(m) ==
    /\ m \in inside
    /\ inside' = inside \ {m}
    /\ lease' = IF lease[KeyOf[m]].token = m
                THEN [lease EXCEPT ![KeyOf[m]] = NoLease]
                ELSE lease
    /\ UNCHANGED now

\* Time passes: the leases that end now are over, the others stay.
Tick ==
    /\ now' = now + 1
    /\ lease' = [k \in Keys |-> IF lease[k].validUntil > now' THEN lease[k] ELSE NoLease]
    /\ UNCHANGED inside

Next == Tick \/ \E m \in Mutexes : Acquire(m) \/ Release(m)

Spec == Init /\ [][Next]_<<now, lease, inside>>
=============================================================================
