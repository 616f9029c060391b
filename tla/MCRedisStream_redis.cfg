SPECIFICATION FairSpec
CONSTANTS
    MaxMessages = 2
    StreamOf <- OneStream
    maxStreamLength = 1
    MaxConsumers = 2
    Workers = {w1}
    queueCapacity = 1
    maxRetries = 1
    MaxLoad = 3
    MaxFaults = 1
    None = None
INVARIANTS TypeOK NothingLost Recovered RetriesBounded
PROPERTIES MessagesEnd
CHECK_DEADLOCK FALSE
