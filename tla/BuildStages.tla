---------------------------- MODULE BuildStages ----------------------------
(***************************************************************************)
(* The executions and stages tables of the pipelines, and the triggerer    *)
(* that fills them from a build configuration.                             *)
(*                                                                         *)
(* A row is changed with optimistic locking: the caller passes the row it  *)
(* has read, changed, and the update is refused when the version of the    *)
(* row has moved on. IDs grow with the order of creation.                  *)
(***************************************************************************)
EXTENDS Integers, FiniteSets, FiniteSetsExt

CONSTANTS
    Executions,    \* IDs of the executions that may be triggered
    Stages,        \* IDs of their stages
    ExecutionOf,   \* the execution of each stage
    Configs,       \* the build configurations of each execution
    MaxStages,     \* bound on the rows of the stages table
    Instances,     \* servers
    None

ASSUME StagesAssumption ==
    /\ Executions \subseteq Nat
    /\ Stages \subseteq Nat
    /\ IsFiniteSet(Stages)
    /\ MaxStages \in Nat
    /\ ExecutionOf \in [Stages -> Executions]
    /\ None \notin Instances

VARIABLES
    execution,     \* the executions table
    stage,         \* the stages table
    config         \* the configuration of an execution and what its stages depend on

tableVars == <<execution, stage, config>>

\* The statuses that the pipeline code assigns. "none": there is no row.
CIStatus == {"none", "waiting", "pending", "running", "skipped",
             "success", "failure", "killed", "error"}

IsDone(status) == status \notin {"none", "waiting", "pending", "running"}

IsFailed(status) == status \in {"failure", "killed", "error"}

ExecutionRow == [status : CIStatus, version : Nat]

\* machine is the server whose runner has accepted the stage.
StageRow == [status : CIStatus, machine : Instances \cup {None}, version : Nat]

StagesOf(e) == {s \in Stages : ExecutionOf[s] = e}

ASSUME ConfigsAssumption ==
    \A e \in Executions : \A c \in Configs[e] : DOMAIN c.dependsOn = StagesOf(e)

-----------------------------------------------------------------------------
(* Updates. row is the copy of the caller, status its new status. The      *)
(* machine of the copy is written too.                                     *)

\* Variant: the version is not compared.
UpdateUnchecked(s, row) == TRUE

CanUpdateStage(s, row) == stage[s].version = row.version

\* Variant: the machine is cleared with the end of the stage.
UpdateAndRelease(s, row, status) ==
    stage' = [stage EXCEPT ![s] =
                 [status |-> status, machine |-> IF IsDone(status) THEN None ELSE row.machine,
                  version |-> row.version + 1]]

UpdateStage(s, row, status) ==
    stage' = [stage EXCEPT ![s] =
                 [status |-> status, machine |-> row.machine, version |-> row.version + 1]]

CanUpdateExecution(e, row) == execution[e].version = row.version

UpdateExecution(e, row, status) ==
    execution' = [execution EXCEPT ![e] = [status |-> status, version |-> row.version + 1]]

-----------------------------------------------------------------------------
(* The dependency graph. A configuration c has, for the stages of an       *)
(* execution, the stages each one depends on (dependsOn), the ones that do *)
(* not match the event (skip) and the ones that run after a success and    *)
(* after a failure (onSuccess, onFailure). The linter has refused unknown  *)
(* dependencies. cancelable: whether somebody may cancel the execution.    *)

\* A depth-first search that remembers what it has visited, and its stack.
DetectCycles(c) ==
    LET all == DOMAIN c.dependsOn
        detect[v \in all, visited \in SUBSET all, recStack \in SUBSET all] ==
            LET next(w, acc) ==
                    IF acc.cycle THEN acc
                    ELSE IF w \notin acc.visited THEN detect[w, acc.visited, acc.recStack]
                    ELSE [acc EXCEPT !.cycle = w \in acc.recStack]
                found == FoldSet(next, [cycle |-> FALSE, visited |-> visited \cup {v},
                                        recStack |-> recStack \cup {v}], c.dependsOn[v])
            IN  IF found.cycle THEN found ELSE [found EXCEPT !.recStack = @ \ {v}]
        start(v, acc) ==
            IF acc.cycle \/ v \in acc.visited THEN acc
            ELSE detect[v, acc.visited, acc.recStack]
    IN  FoldSet(start, [cycle |-> FALSE, visited |-> {}, recStack |-> {}], all).cycle

\* Variant: a skipped dependency is just left out.
DependenciesCut(c) == [s \in DOMAIN c.dependsOn |-> c.dependsOn[s] \ c.skip]

\* The direct dependencies, where a skipped stage stands for its own dependencies.
Dependencies(c) ==
    LET deps[s \in DOMAIN c.dependsOn] ==
            UNION {IF d \in c.skip THEN deps[d] ELSE {d} : d \in c.dependsOn[s]}
    IN  [s \in DOMAIN c.dependsOn |-> deps[s]]

DependsOn(s) == config[ExecutionOf[s]].dependencies[s]

OnSuccess(s) == s \in config[ExecutionOf[s]].given.onSuccess

OnFailure(s) == s \in config[ExecutionOf[s]].given.onFailure

-----------------------------------------------------------------------------
NewStage(c, s) ==
    [status |-> CASE s \in c.skip -> "none"
                  [] s \notin c.skip /\ Dependencies(c)[s] = {} -> "pending"
                  [] OTHER -> "waiting",
     machine |-> None, version |-> 0]

HasRow(s) == stage[s].status # "none"

\* Trigger: a configuration with a cycle is recorded as an execution with an error;
\* otherwise the execution and its stages are created in one transaction. Nothing is
\* created when no stage matches.
CreateExecution(e, c) ==
    LET created == {s \in Stages : HasRow(s)} \cup (StagesOf(e) \ c.skip)
        given(deps) == config' = [config EXCEPT ![e] = [given |-> c, dependencies |-> deps]]
    IN  /\ execution[e].status = "none"
        /\ \A f \in Executions : f < e => execution[f].status # "none"
        /\ IF DetectCycles(c)
           THEN /\ execution' = [execution EXCEPT ![e].status = "error"]
                /\ given([s \in StagesOf(e) |-> {}])
                /\ UNCHANGED stage
           ELSE /\ c.skip # StagesOf(e)
                /\ Cardinality(created) <= MaxStages
                /\ execution' = [execution EXCEPT ![e].status = "pending"]
                /\ given(Dependencies(c))
                /\ stage' = [s \in Stages |->
                                IF s \in StagesOf(e) THEN NewStage(c, s) ELSE stage[s]]

TablesInit ==
    /\ execution = [e \in Executions |-> [status |-> "none", version |-> 0]]
    /\ stage = [s \in Stages |-> [status |-> "none", machine |-> None, version |-> 0]]
    /\ config = [e \in Executions |-> None]

TablesTypeOK ==
    /\ execution \in [Executions -> ExecutionRow]
    /\ stage \in [Stages -> StageRow]
    /\ \A e \in Executions :
          config[e] # None => DOMAIN config[e].dependencies = StagesOf(e)
=============================================================================
