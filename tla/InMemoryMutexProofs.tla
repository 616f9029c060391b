------------------------- MODULE InMemoryMutexProofs -------------------------
(* Theorems about the in-memory lock manager, for any number of mutexes,   *)
(* any assignment of keys, any expiry and any number of tries.             *)
EXTENDS InMemoryMutex, TLAPS

\* A caller inside whose lease has not run out has its entry in the map: the
\* strengthening that makes ExclusiveWithinLease inductive.
LeaseInv ==
    /\ TypeOK
    /\ \A m \in Mutexes :
          caller[m] = "in" /\ now < since[m] + Expiry
            => keys[KeyOf[m]] = [token |-> m, validUntil |-> since[m] + Expiry]

LEMMA InitLease == Init => LeaseInv
  BY MutexAssumption DEF Init, LeaseInv, TypeOK, Entry, NoEntry

\* acquire keeps the leases of the others: their key is taken.
LEMMA AcquireLease ==
    ASSUME LeaseInv, NEW m \in Mutexes, acquire(m), UNCHANGED now,
           attempt' \in [Mutexes -> 1..Tries]
    PROVE  LeaseInv'
  <1>. USE MutexAssumption DEF LeaseInv
  <1>1. TypeOK'
    <2>1. KeyOf[m] \in Keys /\ now + Expiry \in Nat /\ now \in Nat
      BY DEF TypeOK
    <2>2. [token |-> m, validUntil |-> now + Expiry] \in Entry
      BY <2>1, Zenon DEF Entry
    <2>3. keys' \in [Keys -> Entry] /\ since' \in [Mutexes -> Nat]
      BY <2>1, <2>2, Zenon DEF TypeOK, acquire
    <2>. QED
      BY <2>3, Zenon DEF TypeOK, acquire
  <1>2. ASSUME NEW n \in Mutexes, caller'[n] = "in", now' < since'[n] + Expiry
        PROVE  keys'[KeyOf[n]] = [token |-> n, validUntil |-> since'[n] + Expiry]
    <2>1. CASE n = m
      BY <2>1, Zenon DEF acquire, TypeOK
    <2>2. CASE n # m
      <3>1. caller[n] = "in" /\ since'[n] = since[n] /\ now < since[n] + Expiry
        BY <1>2, <2>2, Zenon DEF acquire, TypeOK
      <3>2. keys[KeyOf[n]] = [token |-> n, validUntil |-> since[n] + Expiry]
        BY <3>1, Zenon
      <3>3. Taken(KeyOf[n])
        BY <3>1, <3>2 DEF Taken
      <3>4. KeyOf[n] # KeyOf[m]
        BY <3>3, Zenon DEF acquire
      <3>. QED
        BY <3>1, <3>2, <3>4, Zenon DEF acquire, TypeOK
    <2>. QED
      BY <2>1, <2>2, Zenon
  <1>. QED
    BY <1>1, <1>2, Zenon

LEMMA NextLease == LeaseInv /\ [Next]_vars => LeaseInv'
  <1>. SUFFICES ASSUME LeaseInv, [Next]_vars PROVE LeaseInv'
    BY Zenon
  <1>. USE MutexAssumption
  <1>1. ASSUME NEW m \in Mutexes, Lock(m) PROVE LeaseInv'
    BY <1>1, AcquireLease, Zenon DEF Lock, LeaseInv, TypeOK
  <1>2. ASSUME NEW m \in Mutexes, LockWaits(m) PROVE LeaseInv'
    BY <1>2 DEF LockWaits, LeaseInv, TypeOK
  <1>3. ASSUME NEW m \in Mutexes, retry(m) PROVE LeaseInv'
    <2>1. CASE acquire(m) /\ UNCHANGED attempt
      BY <1>3, <2>1, AcquireLease, Zenon DEF retry, LeaseInv, TypeOK
    <2>2. CASE Taken(KeyOf[m]) /\ attempt' = [attempt EXCEPT ![m] = @ + 1]
                 /\ UNCHANGED <<keys, since, isHeld, caller>>
      BY <1>3, <2>2 DEF retry, LeaseInv, TypeOK
    <2>. QED
      BY <1>3, <2>1, <2>2, Zenon DEF retry
  <1>4. ASSUME NEW m \in Mutexes, LockFails(m) PROVE LeaseInv'
    BY <1>4, Zenon DEF LockFails, LeaseInv, TypeOK
  <1>5. ASSUME NEW m \in Mutexes, Unlock(m) PROVE LeaseInv'
    <2>1. TypeOK'
      BY <1>5, Zenon DEF Unlock, LeaseInv, TypeOK, Entry, NoEntry
    <2>2. ASSUME NEW n \in Mutexes, caller'[n] = "in", now' < since'[n] + Expiry
          PROVE  keys'[KeyOf[n]] = [token |-> n, validUntil |-> since'[n] + Expiry]
      <3>1. n # m /\ caller[n] = "in" /\ since' = since /\ now < since[n] + Expiry
        BY <1>5, <2>2, Zenon DEF Unlock, LeaseInv, TypeOK
      <3>2. keys[KeyOf[n]] = [token |-> n, validUntil |-> since[n] + Expiry]
        BY <3>1, Zenon DEF LeaseInv
      <3>3. KeyOf[n] # KeyOf[m]
        BY <1>5, <3>1, <3>2 DEF Unlock, release
      <3>. QED
        BY <1>5, <3>1, <3>2, <3>3, Zenon DEF Unlock, LeaseInv, TypeOK
    <2>. QED
      BY <2>1, <2>2, Zenon DEF LeaseInv
  <1>6. ASSUME NEW m \in Mutexes, UnlockFails(m) PROVE LeaseInv'
    BY <1>6, Zenon DEF UnlockFails, LeaseInv, TypeOK
  <1>7. CASE Clock
    BY <1>7 DEF Clock, LeaseInv, TypeOK
  <1>8. CASE UNCHANGED vars
    BY <1>8, Zenon DEF vars, LeaseInv, TypeOK
  <1>. QED
    BY <1>1, <1>2, <1>3, <1>4, <1>5, <1>6, <1>7, <1>8, Zenon DEF Next

\* Every entry of a caller whose lease runs stays in the map.
THEOREM LeasesKept == Spec => []LeaseInv
  BY InitLease, NextLease, PTL DEF Spec

\* All variables keep their types; in particular Lock never tries more often
\* than config.Tries allows.
THEOREM MutexTypes == Spec => []TypeOK
  <1>1. LeaseInv => TypeOK
    BY Zenon DEF LeaseInv
  <1>. QED
    BY <1>1, LeasesKept, PTL

\* Mutual exclusion of acquire, release and the tokens: two callers are inside
\* at the same time only if the lease of one of them has run out.
THEOREM Exclusion == Spec => []ExclusiveWithinLease
  <1>1. LeaseInv => ExclusiveWithinLease
    <2>. SUFFICES ASSUME LeaseInv, NEW m \in Mutexes, NEW n \in Mutexes,
                         m # n, KeyOf[m] = KeyOf[n], caller[m] = "in", caller[n] = "in",
                         ~(since[m] + Expiry <= now), ~(since[n] + Expiry <= now)
                  PROVE  FALSE
      BY Zenon DEF ExclusiveWithinLease
    <2>1. now < since[m] + Expiry /\ now < since[n] + Expiry
      BY MutexAssumption DEF LeaseInv, TypeOK
    <2>2. keys[KeyOf[m]] = [token |-> m, validUntil |-> since[m] + Expiry]
      BY <2>1, Zenon DEF LeaseInv
    <2>3. keys[KeyOf[n]] = [token |-> n, validUntil |-> since[n] + Expiry]
      BY <2>1, Zenon DEF LeaseInv
    <2>4. keys[KeyOf[m]].token = m /\ keys[KeyOf[n]].token = n
      BY <2>2, <2>3
    <2>. QED
      BY <2>4, Zenon
  <1>. QED
    BY <1>1, LeasesKept, PTL
-----------------------------------------------------------------------------
LEMMA AcquireRefines ==
    ASSUME TypeOK, NEW m \in Mutexes, caller[m] # "in", acquire(m), UNCHANGED now
    PROVE  Abstract!Acquire(m)
  <1>. USE MutexAssumption
  <1>. DEFINE k0 == KeyOf[m]
              e == [token |-> m, validUntil |-> now + Expiry]
  <1>1. Lease[k0] = NoEntry
    BY Zenon DEF acquire, Lease
  <1>2. keys' = [keys EXCEPT ![k0] = e] /\ keys'[k0] = e
    BY Zenon DEF acquire, TypeOK
  <1>3. ASSUME NEW k \in Keys, k # k0 PROVE Lease'[k] = Lease[k]
    BY <1>2, <1>3, Zenon DEF Lease, Taken, TypeOK
  <1>4. Lease'[k0] = e
    <2>1. now' < now + Expiry
      BY DEF TypeOK
    <2>. QED
      BY <1>2, <2>1 DEF Lease, Taken
  <1>5. Lease' = [Lease EXCEPT ![k0] = e]
    BY <1>3, <1>4, Zenon DEF Lease
  <1>6. m \notin Inside /\ Inside' = Inside \cup {m}
    BY DEF acquire, Inside, TypeOK
  <1>. QED
    BY <1>1, <1>5, <1>6, Zenon DEF Abstract!Acquire, Abstract!NoLease, NoEntry

LEMMA UnlockRefines ==
    ASSUME TypeOK, NEW m \in Mutexes, Unlock(m)
    PROVE  Abstract!Release(m)
  <1>. USE MutexAssumption
  <1>. DEFINE k0 == KeyOf[m]
  <1>1. keys[k0].token = m /\ keys' = [keys EXCEPT ![k0] = NoEntry] /\ keys'[k0] = NoEntry
    BY Zenon DEF Unlock, release, TypeOK
  <1>2. ASSUME NEW k \in Keys, k # k0 PROVE Lease'[k] = Lease[k]
    BY <1>1, <1>2, Zenon DEF Unlock, Lease, Taken, TypeOK
  <1>3. Lease'[k0] = NoEntry
    BY <1>1, Zenon DEF Lease
  <1>4. CASE Taken(k0)
    <2>1. Lease[k0].token = m
      BY <1>1, <1>4, Zenon DEF Lease
    <2>2. Lease' = [Lease EXCEPT ![k0] = NoEntry]
      BY <1>2, <1>3, Zenon DEF Lease
    <2>3. m \in Inside /\ Inside' = Inside \ {m} /\ now' = now
      BY Zenon DEF Unlock, Inside, TypeOK
    <2>. QED
      BY <2>1, <2>2, <2>3, Zenon DEF Abstract!Release, Abstract!NoLease, NoEntry
  <1>5. CASE ~Taken(k0)
    <2>1. Lease[k0] = NoEntry
      BY <1>5, Zenon DEF Lease
    <2>2. Lease' = Lease
      BY <1>2, <1>3, <2>1, Zenon DEF Lease
    <2>3. Lease[k0].token # m
      BY <2>1 DEF NoEntry
    <2>4. m \in Inside /\ Inside' = Inside \ {m} /\ now' = now
      BY Zenon DEF Unlock, Inside, TypeOK
    <2>. QED
      BY <2>2, <2>3, <2>4, Zenon DEF Abstract!Release
  <1>. QED
    BY <1>4, <1>5, Zenon

LEMMA UnlockFailsRefines ==
    ASSUME TypeOK, NEW m \in Mutexes, UnlockFails(m)
    PROVE  Abstract!Release(m)
  <1>. USE MutexAssumption
  <1>1. Lease' = Lease
    BY Zenon DEF UnlockFails, Lease, Taken
  <1>2. Lease[KeyOf[m]].token # m
    BY Zenon DEF UnlockFails, release, Lease, NoEntry
  <1>3. m \in Inside /\ Inside' = Inside \ {m} /\ now' = now
    BY Zenon DEF UnlockFails, Inside, TypeOK
  <1>. QED
    BY <1>1, <1>2, <1>3, Zenon DEF Abstract!Release

LEMMA ClockRefines ==
    ASSUME TypeOK, Clock
    PROVE  Abstract!Tick
  <1>1. now \in Nat /\ now' = now + 1 /\ keys' = keys
    BY Zenon DEF Clock, TypeOK
  <1>2. ASSUME NEW k \in Keys
        PROVE  Lease'[k] = IF Lease[k].validUntil > now' THEN Lease[k] ELSE NoEntry
    <2>1. keys[k].validUntil \in Nat
      BY Zenon DEF TypeOK, Entry
    <2>2. CASE Taken(k)
      <3>1. Lease[k] = keys[k] /\ keys[k].token # None
        BY <2>2, Zenon DEF Lease, Taken
      <3>2. CASE keys[k].validUntil > now'
        BY <1>1, <3>1, <3>2, Zenon DEF Lease, Taken
      <3>3. CASE ~(keys[k].validUntil > now')
        BY <1>1, <3>1, <3>3, Zenon DEF Lease, Taken
      <3>. QED
        BY <3>2, <3>3, Zenon
    <2>3. CASE ~Taken(k)
      <3>1. Lease[k] = NoEntry
        BY <2>3, Zenon DEF Lease
      <3>2. ~(keys[k].token # None /\ keys[k].validUntil > now')
        BY <1>1, <2>1, <2>3 DEF Taken
      <3>3. Lease'[k] = NoEntry
        BY <1>1, <3>2, Zenon DEF Lease, Taken
      <3>. QED
        BY <3>1, <3>3, Zenon
    <2>. QED
      BY <2>2, <2>3, Zenon
  <1>3. Lease' = [k \in Keys |-> IF Lease[k].validUntil > now' THEN Lease[k] ELSE NoEntry]
    BY <1>2, Zenon DEF Lease
  <1>4. Inside' = Inside
    BY Zenon DEF Clock, Inside
  <1>. QED
    BY <1>1, <1>3, <1>4, Zenon DEF Abstract!Tick, Abstract!NoLease, NoEntry

\* The map of keys implements the lease lock: no call takes a key away from
\* an owner whose lease runs, or releases it for somebody else.
THEOREM Implementation == Spec => ImplementsLeaseLock
  <1>1. Init => Abstract!Init
    BY Zenon DEF Init, Abstract!Init, Abstract!NoLease, Lease, Inside, Taken, NoEntry
  <1>2. LeaseInv /\ [Next]_vars => [Abstract!Next]_<<now, Lease, Inside>>
    <2>. SUFFICES ASSUME TypeOK, [Next]_vars
                  PROVE  Abstract!Next \/ UNCHANGED <<now, Lease, Inside>>
      BY Zenon DEF LeaseInv
    <2>1. ASSUME NEW m \in Mutexes, Lock(m) PROVE Abstract!Next
      BY <2>1, AcquireRefines, Zenon DEF Lock, Abstract!Next
    <2>2. ASSUME NEW m \in Mutexes, retry(m)
          PROVE  Abstract!Next \/ UNCHANGED <<now, Lease, Inside>>
      <3>1. CASE acquire(m)
        BY <2>2, <3>1, AcquireRefines, Zenon DEF retry, Abstract!Next
      <3>2. CASE UNCHANGED <<keys, caller>>
        BY <2>2, <3>2, Zenon DEF retry, Lease, Inside, Taken
      <3>. QED
        BY <2>2, <3>1, <3>2, Zenon DEF retry
    <2>3. ASSUME NEW m \in Mutexes, Unlock(m) PROVE Abstract!Next
      BY <2>3, UnlockRefines, Zenon DEF Abstract!Next
    <2>4. ASSUME NEW m \in Mutexes, UnlockFails(m) PROVE Abstract!Next
      BY <2>4, UnlockFailsRefines, Zenon DEF Abstract!Next
    <2>5. ASSUME NEW m \in Mutexes, LockWaits(m) \/ LockFails(m)
          PROVE  UNCHANGED <<now, Lease, Inside>>
      <3>1. UNCHANGED <<now, keys>>
        BY <2>5, Zenon DEF LockWaits, LockFails
      <3>2. Inside' = Inside
        BY <2>5, Zenon DEF LockWaits, LockFails, Inside, TypeOK
      <3>. QED
        BY <3>1, <3>2, Zenon DEF Lease, Taken
    <2>6. CASE Clock
      BY <2>6, ClockRefines, Zenon DEF Abstract!Next
    <2>7. CASE UNCHANGED vars
      BY <2>7, Zenon DEF vars, Lease, Inside, Taken
    <2>. QED
      BY <2>1, <2>2, <2>3, <2>4, <2>5, <2>6, <2>7, Zenon DEF Next
  <1>. QED
    BY <1>1, <1>2, LeasesKept, PTL DEF Spec, ImplementsLeaseLock, Abstract!Spec
=============================================================================
