SPECIFICATION Spec
CONSTANTS
    Publishers = {p1}
    Subscribers = {"repo", "space", "event"}
    TopicOf <- Topic
    Payloads = {k1, k2, "all"}
    channelSize = 1
    None = None
    Keys = {k1, k2}
    Readers = {r1}
    maxAge = 1
    needsLocking = TRUE
    MaxChanges = 2
    MaxTime = 2
    MaxSteps = 3
INVARIANTS TypeOK FreshEnough StaleIsEvicted
SYMMETRY Symmetry
CHECK_DEADLOCK FALSE
