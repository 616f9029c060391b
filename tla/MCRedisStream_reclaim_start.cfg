SPECIFICATION Spec
CONSTANTS
    MaxMessages = 2
    StreamOf <- OneStream
    maxStreamLength = 2
    MaxConsumers = 1
    Workers = {w1}
    queueCapacity = 2
    maxRetries = 1
    MaxLoad = 3
    MaxFaults = 0
    None = None
INVARIANTS StartCoversIdle
CHECK_DEADLOCK FALSE
