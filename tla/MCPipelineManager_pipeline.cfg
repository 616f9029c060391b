SPECIFICATION FairSpec
CONSTANTS
    i1 = i1
    r1 = r1
    r2 = r2
    None = None
    Executions = {1, 2}
    Stages = {1, 2, 3, 4, 5}
    ExecutionOf <- InExecution
    Name <- NameOf
    Limit <- OneAtATime
    Configs <- SomeConfigs
    MaxStages = 3
    Instances = {i1}
    Runners = {r1, r2}
    InstanceOf <- OneServer
    Matches <- AnyStage
    Outcomes = {"success", "failure"}
INVARIANTS
    TypeOK
    OneRunner
    StartsAsRequired
    EndsWithItsStages
    WithinLimits
    NoLostWakeup
PROPERTIES
    AcceptedOnce
    OrderKept
    StagesEnd
CHECK_DEADLOCK FALSE
