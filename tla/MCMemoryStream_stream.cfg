SPECIFICATION FairSpec
CONSTANTS
    m1 = m1
    m2 = m2
    m3 = m3
    g1 = g1
    g2 = g2
    w1 = w1
    w2 = w2
    None = None
    Messages = {m1, m2}
    Groups = {g1}
    Workers = {w1, w2}
    queueSize = 1
    queueCapacity = 1
    maxRetries = 2
INVARIANTS
    TypeOK
    NothingLost
    AttemptsBounded
PROPERTIES
    Delivered
    ShutdownEnds
CHECK_DEADLOCK FALSE
