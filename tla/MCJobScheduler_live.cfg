SPECIFICATION FairSpec
CONSTANTS
    i1 = i1
    i2 = i2
    j1 = j1
    j2 = j2
    e1 = e1
    e2 = e2
    e3 = e3
    None = None
    Overdue = Overdue
    Purge = Purge
    Instances = {i1}
    UserJobs = {j1}
    Recurring = {Overdue}
    MaxRetries <- OneRetry
    maxRunning = 2
    Execs = {e1, e2}
    MaxStops = 1
    Faults = {"crash"}
PROPERTIES
    EveryJobCompletes
    OrphansReclaimed
CHECK_DEADLOCK FALSE
