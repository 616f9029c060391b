SPECIFICATION Spec
CONSTANTS
    i1 = i1
    i2 = i2
    j1 = j1
    j2 = j2
    e1 = e1
    e2 = e2
    e3 = e3
    None = None
    Overdue = Overdue
    Purge = Purge
    Instances = {i1, i2}
    UserJobs = {j1}
    Recurring = {Overdue, Purge}
    MaxRetries <- OneRetry
    maxRunning = 2
    Execs = {e1}
    MaxStops = 0
    Faults = {"lock", "db"}
SYMMETRY Symmetry
INVARIANTS
    AttemptsBounded
    RunningWithinLimit
CHECK_DEADLOCK FALSE
