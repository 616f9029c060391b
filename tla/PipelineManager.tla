-------------------------- MODULE PipelineManager --------------------------
(***************************************************************************)
(* The pipeline manager, its runners and the canceler of executions        *)
(* (app/pipeline/manager, app/pipeline/canceler), composed with the queue. *)
(*                                                                         *)
(* A runner requests a stage, accepts it, reports its start (BeforeStage)  *)
(* and its end (AfterStage). The end of a stage skips or schedules the     *)
(* stages that wait for it and, when it was the last, ends the execution.  *)
(* Every read and every write of a row is a step of its own: all of this   *)
(* runs at once for several stages and for the cancel of their execution.  *)
(*                                                                         *)
(* A runner works on its copies: row (of its stage), exec (of the          *)
(* execution) and list (of all stages of the execution).                   *)
(* Steps of a stage, logs and checks are left out; they decide nothing     *)
(* here. Watch never returns: nothing calls Cancel of the scheduler.       *)
(***************************************************************************)
EXTENDS BuildQueue

CONSTANTS
    Outcomes       \* how a stage that was started may end

ASSUME ManagerAssumption == Outcomes \subseteq {"success", "failure", "killed", "error"}

VARIABLES
    runner,        \* what each runner does, and its copies
    cancel         \* the cancel of each execution, and its copies

vars == <<tableVars, queueVars, runner, cancel>>

NoRow == [status |-> "none", machine |-> None, version |-> 0]
NoExec == [status |-> "none", version |-> 0]
NoList == [s \in {} |-> NoRow]

Idle == [pc |-> "idle", stage |-> None, row |-> NoRow, exec |-> NoExec,
         list |-> NoList, next |-> 0, failed |-> FALSE]

NotCanceled == [pc |-> "idle", list |-> NoList]

Init ==
    /\ TablesInit
    /\ QueueInit
    /\ runner = [r \in Runners |-> Idle]
    /\ cancel = [e \in Executions |-> NotCanceled]

At(r, pc) == runner[r].pc = pc

Exec(r) == ExecutionOf[runner[r].stage]

\* The runner gives up its stage, if any, and goes on to the next request.
GoIdle(r) == runner' = [runner EXCEPT ![r] = Idle]

-----------------------------------------------------------------------------
\* The transaction that creates the rows, and the Schedule that follows it: nothing
\* else of Trigger comes in between, and the timer of the queue may wake it earlier.
Trigger(e) ==
    /\ \E c \in Configs[e] : CreateExecution(e, c)
    /\ IF \E s \in StagesOf(e) : stage'[s].status = "pending"
       THEN \E i \in Instances : Schedule(i)
       ELSE UNCHANGED ready
    /\ UNCHANGED <<workers, signal, globMx, handed, missed, runner, cancel>>

RequestStage(r) ==
    /\ At(r, "idle")
    /\ Request(r)
    /\ runner' = [runner EXCEPT ![r].pc = "waiting"]
    /\ UNCHANGED <<tableVars, cancel>>

\* Accept, first part: read the stage, give up if it has a machine.
AcceptFind(r) ==
    /\ At(r, "waiting")
    /\ handed[r] # None
    /\ IF stage[handed[r]].machine # None
       THEN GoIdle(r)
       ELSE runner' = [runner EXCEPT ![r].pc = "accept", ![r].stage = handed[r],
                                     ![r].row = stage[handed[r]]]
    /\ handed' = [handed EXCEPT ![r] = None]
    /\ UNCHANGED <<tableVars, ready, workers, signal, globMx, missed, cancel>>

\* The row of the runner's stage is written, with the version check; the copy follows.
SaveStage(r, row, status, pc) ==
    /\ CanUpdateStage(runner[r].stage, row)
    /\ UpdateStage(runner[r].stage, row, status)
    /\ runner' = [runner EXCEPT ![r].pc = pc, ![r].row = stage'[runner[r].stage]]

\* Accept, second part: whatever its status was, the stage becomes pending.
AcceptUpdate(r) ==
    /\ At(r, "accept")
    /\ LET row == [runner[r].row EXCEPT !.machine = InstanceOf[r]]
       IN  \/ SaveStage(r, row, "pending", "accepted")
           \/ ~CanUpdateStage(runner[r].stage, row) /\ GoIdle(r) /\ UNCHANGED stage
    /\ UNCHANGED <<execution, config, queueVars, cancel>>

\* Details fails: the runner drops the stage, which stays accepted.
DetailsFails(r) ==
    /\ At(r, "accepted")
    /\ GoIdle(r)
    /\ UNCHANGED <<tableVars, queueVars, cancel>>

-----------------------------------------------------------------------------
(* BeforeStage: setup.do *)

SetupStage(r) ==
    /\ At(r, "accepted")
    /\ \/ SaveStage(r, runner[r].row, "running", "updateExecution")
       \/ ~CanUpdateStage(runner[r].stage, runner[r].row) /\ GoIdle(r) /\ UNCHANGED stage
    /\ UNCHANGED <<execution, config, queueVars, cancel>>

\* updateExecution: from pending to running. The execution was read earlier, but any
\* update in between takes it out of pending: the refused update is a skipped one.
SetupExecution(r) ==
    /\ At(r, "updateExecution")
    /\ IF execution[Exec(r)].status = "pending"
       THEN UpdateExecution(Exec(r), execution[Exec(r)], "running")
       ELSE UNCHANGED execution
    /\ runner' = [runner EXCEPT ![r].pc = "running"]
    /\ UNCHANGED <<stage, config, queueVars, cancel>>

-----------------------------------------------------------------------------
(* AfterStage: teardown.do *)

\* The stage has ended, or could not be compiled; the execution is read.
TeardownFind(r) ==
    /\ \E outcome \in Outcomes \cup {"error"} :
          /\ \/ At(r, "running") /\ outcome \in Outcomes
             \/ At(r, "accepted") /\ outcome = "error"
          /\ runner' = [runner EXCEPT ![r].pc = "teardown", ![r].exec = execution[Exec(r)],
                                      ![r].row.status = outcome]
    /\ UNCHANGED <<tableVars, queueVars, cancel>>

TeardownStage(r) ==
    /\ At(r, "teardown")
    /\ \/ SaveStage(r, runner[r].row, runner[r].row.status, "list")
       \/ ~CanUpdateStage(runner[r].stage, runner[r].row) /\ GoIdle(r) /\ UNCHANGED stage
    /\ UNCHANGED <<execution, config, queueVars, cancel>>

\* Variant: the stages of all executions.
RowsOfAll(e) == [s \in {t \in Stages : HasRow(t)} |-> stage[s]]

\* ListWithSteps
Rows(e) == [s \in {t \in StagesOf(e) : HasRow(t)} |-> stage[s]]

TeardownList(r) ==
    /\ At(r, "list")
    /\ LET list == Rows(Exec(r))
       IN  runner' = [runner EXCEPT ![r].pc = "cancelDownstream", ![r].list = list,
                         ![r].failed = \E s \in DOMAIN list : IsFailed(list[s].status)]
    /\ UNCHANGED <<tableVars, queueVars, cancel>>

\* Variant: one complete dependency is enough.
someDepComplete(s, list) == \E d \in DependsOn(s) \cap DOMAIN list : IsDone(list[d].status)

areDepsComplete(s, list) == \A d \in DependsOn(s) \cap DOMAIN list : IsDone(list[d].status)

\* The waiting stages from the position of the loop on whose dependencies are complete.
Waiting(r) ==
    {s \in DOMAIN runner[r].list : /\ s >= runner[r].next
                                   /\ runner[r].list[s].status = "waiting"
                                   /\ areDepsComplete(s, runner[r].list)}

ToSkip(r) ==
    {s \in Waiting(r) : IF runner[r].failed THEN ~OnFailure(s) ELSE ~OnSuccess(s)}

\* Variant: nothing is scheduled after a failure.
ToScheduleOnSuccess(r) == {s \in Waiting(r) : DependsOn(s) # {} /\ ~runner[r].failed}

ToSchedule(r) == {s \in Waiting(r) : DependsOn(s) # {}}

\* Lists are ordered by ID: the first of the given stages, if there is one.
First(stages) == {s \in stages : \A t \in stages : s <= t}

\* One downstream stage is updated; the copy gets the new status, or what resync will read.
SaveDownstream(r, s, status, resync) ==
    IF CanUpdateStage(s, runner[r].list[s])
    THEN /\ UpdateStage(s, runner[r].list[s], status)
         /\ runner' = [runner EXCEPT ![r].list[s] = stage'[s], ![r].next = s + 1]
    ELSE /\ runner' = [runner EXCEPT ![r].pc = resync, ![r].next = s]
         /\ UNCHANGED stage

CancelDownstream(r) ==
    /\ At(r, "cancelDownstream")
    /\ IF ToSkip(r) = {}
       THEN /\ runner' = [runner EXCEPT ![r].pc = "scheduleDownstream", ![r].next = 0]
            /\ UNCHANGED stage
       ELSE \E s \in First(ToSkip(r)) : SaveDownstream(r, s, "skipped", "resyncCanceled")
    /\ UNCHANGED <<execution, config, queueVars, cancel>>

ScheduleDownstream(r) ==
    /\ At(r, "scheduleDownstream")
    /\ \E s \in First(ToSchedule(r)) :
          /\ SaveDownstream(r, s, "pending", "resyncScheduled")
          /\ IF CanUpdateStage(s, runner[r].list[s])
             THEN Schedule(InstanceOf[r])
             ELSE UNCHANGED ready
    /\ UNCHANGED <<execution, config, workers, signal, globMx, handed, missed, cancel>>

\* resync: status and machine are read again, the version is not.
Resync(r) ==
    /\ runner[r].pc \in {"resyncCanceled", "resyncScheduled"}
    /\ LET s == runner[r].next
           row == [stage[s] EXCEPT !.version = runner[r].list[s].version]
       IN  runner' = [runner EXCEPT
              ![r].pc = IF @ = "resyncCanceled" THEN "cancelDownstream" ELSE "scheduleDownstream",
              ![r].list[s] = row,
              ![r].next = s + 1]
    /\ UNCHANGED <<tableVars, queueVars, cancel>>

\* Variant: only the stages that are running count.
noneRunning(list) == \A s \in DOMAIN list : list[s].status # "running"

isexecutionComplete(list) == \A s \in DOMAIN list : IsDone(list[s].status)

\* The first stage that was killed or has failed gives its status to the execution.
FinalStatus(list) ==
    LET bad == {s \in DOMAIN list : IsFailed(list[s].status)}
    IN  IF bad = {} THEN {"success"} ELSE {list[s].status : s \in First(bad)}

Complete(r) ==
    /\ At(r, "scheduleDownstream")
    /\ ToSchedule(r) = {}
    /\ IF isexecutionComplete(runner[r].list) /\ CanUpdateExecution(Exec(r), runner[r].exec)
       THEN \E status \in FinalStatus(runner[r].list) : UpdateExecution(Exec(r), runner[r].exec, status)
       ELSE UNCHANGED execution
    /\ GoIdle(r)
    /\ UNCHANGED <<stage, config, queueVars, cancel>>

-----------------------------------------------------------------------------
(* Cancel of an execution *)

\* The execution is read, and updated if it is pending or running and its version has
\* not moved: one step, since the update has no effect otherwise.
CancelExecution(e) ==
    /\ cancel[e].pc = "idle"
    /\ execution[e].status \in {"pending", "running"}
    /\ config[e].given.cancelable
    /\ UpdateExecution(e, execution[e], "killed")
    /\ cancel' = [cancel EXCEPT ![e].pc = "list"]
    /\ UNCHANGED <<stage, config, queueVars, runner>>

CancelList(e) ==
    /\ cancel[e].pc = "list"
    /\ cancel' = [cancel EXCEPT ![e].pc = "stages",
          ![e].list = [s \in {t \in StagesOf(e) : HasRow(t) /\ ~IsDone(stage[t].status)}
                          |-> stage[s]]]
    /\ UNCHANGED <<tableVars, queueVars, runner>>

\* Started stages are killed, others skipped; a version conflict is only logged.
CancelStage(e) ==
    /\ cancel[e].pc = "stages"
    /\ LET list == cancel[e].list
       IN  \E s \in First(DOMAIN list) :
              /\ IF CanUpdateStage(s, list[s])
                 THEN UpdateStage(s, list[s], IF list[s].status = "running" THEN "killed" ELSE "skipped")
                 ELSE UNCHANGED stage
              /\ cancel' = [cancel EXCEPT ![e].list = [t \in DOMAIN list \ {s} |-> list[t]]]
    /\ UNCHANGED <<execution, config, queueVars, runner>>

-----------------------------------------------------------------------------
RunnerStep(r) ==
    \/ RequestStage(r)
    \/ AcceptFind(r)
    \/ AcceptUpdate(r)
    \/ SetupStage(r)
    \/ SetupExecution(r)
    \/ TeardownFind(r)
    \/ TeardownStage(r)
    \/ TeardownList(r)
    \/ CancelDownstream(r)
    \/ ScheduleDownstream(r)
    \/ Resync(r)
    \/ Complete(r)

SignalStep(i) ==
    /\ SignalList(i) \/ SignalHand(i)
    /\ UNCHANGED <<tableVars, runner, cancel>>

FailedSignal(i) ==
    /\ SignalFails(i)
    /\ UNCHANGED <<tableVars, runner, cancel>>

CancelStep(e) ==
    \/ CancelExecution(e)
    \/ CancelList(e)
    \/ CancelStage(e)

Next ==
    \/ \E e \in Executions : Trigger(e) \/ CancelStep(e)
    \/ \E r \in Runners : RunnerStep(r) \/ DetailsFails(r)
    \/ \E i \in Instances : SignalStep(i) \/ FailedSignal(i)

Spec == Init /\ [][Next]_vars

\* Runners, the loop of the queue and a cancel that was begun go on; builds end. A signal
\* need not fail, and the next one comes after the interval at the latest.
Fairness ==
    /\ \A r \in Runners : WF_vars(RunnerStep(r))
    /\ \A i \in Instances : WF_vars(SignalStep(i))
    /\ \A e \in Executions : WF_vars(CancelList(e) \/ CancelStage(e))

FairSpec == Spec /\ Fairness

-----------------------------------------------------------------------------
(* Properties *)

TypeOK ==
    /\ TablesTypeOK
    /\ QueueTypeOK
    /\ \A r \in Runners : /\ runner[r].stage \in Stages \cup {None}
                           /\ runner[r].row \in StageRow
                           /\ runner[r].exec \in ExecutionRow
                           /\ \A s \in DOMAIN runner[r].list : ExecutionOf[s] = Exec(r)
    /\ \A e \in Executions : DOMAIN cancel[e].list \subseteq StagesOf(e)

Canceled(e) == cancel[e].pc \in {"list", "stages"}

\* The runner has accepted its stage and has not yet reported its end.
Holds(r, s) ==
    /\ runner[r].pc \in {"accepted", "updateExecution", "running", "teardown"}
    /\ runner[r].stage = s

\* A stage, handed out as often as it may be, is worked on by one runner at a time
\* (Accept: "It is possible for multiple agents to pull the same stage from the queue").
OneRunner ==
    \A q, r \in Runners : \A s \in Stages : Holds(q, s) /\ Holds(r, s) => q = r

\* Once a stage has a machine no update of any copy of its row takes it away, so
\* that no stage is ever executed twice.
AcceptedOnce ==
    [][\A s \in Stages : stage[s].machine # None => stage'[s].machine = stage[s].machine]_vars

Scheduled(s) == stage[s].status \notin {"none", "waiting", "skipped"}

\* a is upstream of s: s depends on it, directly or not.
Ancestors(graph, s) ==
    LET up[n \in 0..Cardinality(Stages)] ==
            IF n = 0 THEN graph[s] ELSE up[n - 1] \cup UNION {graph[d] : d \in up[n - 1]}
    IN  up[Cardinality(Stages)]

Upstream(s) == Ancestors(config[ExecutionOf[s]].dependencies, s)

\* Trigger refuses a configuration exactly when some stage waits for itself, and
\* among the stages it creates leaves out none of the orders that were asked for,
\* also through stages that are skipped.
OrderKept ==
    [][\A e \in Executions :
          execution[e].status = "none" /\ execution'[e].status # "none" =>
            LET graph == config'[e].given.dependsOn
                rows == StagesOf(e) \ config'[e].given.skip
            IN  IF \E s \in StagesOf(e) : s \in Ancestors(graph, s)
                THEN execution'[e].status = "error"
                ELSE /\ execution'[e].status = "pending"
                     /\ \A s \in rows : Ancestors(graph, s) \cap rows
                                        = Ancestors(config'[e].dependencies, s)]_vars

\* scheduleDownstream "schedules stages if all dependencies and execution requirements
\* are met": a scheduled stage has its dependencies behind it, none upstream has failed
\* unless it runs on failure, and one that runs on failure only has a failure to run on.
\* Executions that are canceled are exempt: see the README.
StartsAsRequired ==
    \A s \in Stages :
        Scheduled(s) /\ ~Canceled(ExecutionOf[s]) /\ DependsOn(s) # {} =>
            /\ \A d \in DependsOn(s) : IsDone(stage[d].status)
            /\ OnFailure(s) \/ \A d \in Upstream(s) : ~IsFailed(stage[d].status)
            /\ OnSuccess(s) \/ \E t \in StagesOf(ExecutionOf[s]) : IsFailed(stage[t].status)

\* An execution that was not canceled is reported as ended only when all of its stages
\* have ended, and as a success exactly when none of them has failed.
EndsWithItsStages ==
    \A e \in Executions :
        ~Canceled(e) /\ IsDone(execution[e].status) =>
            LET rows == {s \in StagesOf(e) : HasRow(s)}
            IN  \/ rows = {} /\ execution[e].status = "error"
                \/ /\ \A s \in rows : IsDone(stage[s].status)
                   /\ execution[e].status = "success" <=> \A s \in rows : ~IsFailed(stage[s].status)

\* "if the stage defines concurrency limits we need to make sure those limits are not
\* exceeded" (signal): of the stages of one name no more than the limit are running,
\* where none of them had to wait for dependencies and none was canceled.
WithinLimits ==
    \A s \in Stages :
        Limit[s] = 0 \/
        Cardinality({t \in Stages : /\ Name[t] = Name[s]
                                    /\ stage[t].status = "running"
                                    /\ DependsOn(t) = {}
                                    /\ ~Canceled(ExecutionOf[t])}) <= Limit[s]

\* The loop need not wait for its timer: when it sleeps and its channel is empty there
\* is no free stage without a limit that a waiting runner of that server could take,
\* unless a signal that was woken by a token has failed (start: "don't return, only log
\* error") and none has succeeded since. With several servers only the server that
\* schedules a stage is woken.
NoLostWakeup ==
    \A i \in Instances : \A r \in workers[i] : \A s \in Matches[r] :
        \/ ready[i] \/ signal[i] # {} \/ missed[i]
        \/ stage[s].status # "pending" \/ stage[s].machine # None \/ Limit[s] # 0
        \/ \E q \in Runners : handed[q] = s \/ runner[q].stage = s

\* A stage that was accepted and then dropped by its runner. Nothing takes it up again.
Dropped(s) ==
    /\ stage[s].machine # None
    /\ ~IsDone(stage[s].status)
    /\ \A r \in Runners : ~Holds(r, s)

\* All stages of an execution end, whatever order they end in, whether or not signals
\* fail or the execution is canceled, unless a runner drops one of them or of the same limit.
StagesEnd ==
    \A e \in Executions :
        execution[e].status # "none" ~>
            \A s \in StagesOf(e) :
                \/ ~HasRow(s)
                \/ IsDone(stage[s].status)
                \/ \E t \in Stages : /\ Dropped(t)
                                     /\ ExecutionOf[t] = e \/ Name[t] = Name[s]
=============================================================================
