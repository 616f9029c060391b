SPECIFICATION FairSpec
CONSTANTS
    j1 = j1
    r1 = r1
    o1 = o1
    UserJobs = {j1}
    Recurring = {r1}
    Orphans = {o1}
    maxRunning = 2
    Period = 1
    timerMaxDur = 2
    RetryDelay = 1
    CronDelay = 1
    MaxTime = 2
    FaultModes <- AllModes
INVARIANTS
    TypeOK
    TimerRuns
    WakesInTime
PROPERTIES
    ReadyJobStarts
CHECK_DEADLOCK FALSE
