SPECIFICATION Spec
CONSTANTS
    m1 = m1
    m2 = m2
    m3 = m3
    m4 = m4
    k1 = k1
    k2 = k2
    None = None
    Mutexes = {m1, m2, m3, m4}
    Keys = {k1, k2}
    KeyOf <- OneApart
    Expiry = 2
    Tries = 2
    MaxTime = 4
SYMMETRY Symmetry
INVARIANTS
    TypeOK
    ExclusiveWithinLease
PROPERTIES
    ImplementsLeaseLock
CHECK_DEADLOCK FALSE
