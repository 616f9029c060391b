----------------------- MODULE PipelineManagerProofs -----------------------
(***************************************************************************)
(* A stage is accepted once and worked on by one runner, for any number of *)
(* executions, stages, servers and runners, any configurations and under   *)
(* every interleaving with a cancel: the optimistic locking of the stages  *)
(* table is enough.                                                        *)
(*                                                                         *)
(* Every copy of a row that somebody still may write back is either older  *)
(* than the row or has its machine (Copy). A write that is not refused     *)
(* therefore never takes a machine away (Grows).                           *)
(*                                                                         *)
(* And the end of an execution: the runner that completes it decides from  *)
(* copies, but a copy that says that a stage has ended is right (Seen),    *)
(* since nobody else may still write the row of a stage that has ended     *)
(* unless the execution is canceled (EInv).                                *)
(***************************************************************************)
EXTENDS PipelineManager, TLAPS

Lists == UNION {[D -> StageRow] : D \in SUBSET Stages}

Working == {"accept", "accepted", "updateExecution", "running", "teardown", "list",
            "cancelDownstream", "scheduleDownstream", "resyncCanceled", "resyncScheduled"}

RunnerState ==
    [pc : {"idle", "waiting"} \cup Working, stage : Stages \cup {None}, row : StageRow, exec : ExecutionRow,
     list : Lists, next : Nat, failed : BOOLEAN]

CancelState == [pc : {"idle", "list", "stages"}, list : Lists]

Types ==
    /\ execution \in [Executions -> ExecutionRow]
    /\ stage \in [Stages -> StageRow]
    /\ handed \in [Runners -> Stages \cup {None}]
    /\ signal \in [Instances -> SUBSET Stages]
    /\ runner \in [Runners -> RunnerState]
    /\ cancel \in [Executions -> CancelState]

Known(s) == execution[ExecutionOf[s]].status # "none"

Copy(s, row) ==
    /\ row.version <= stage[s].version
    /\ row.version = stage[s].version => row.machine = stage[s].machine

\* A stage of an execution that was not triggered is as in the initial state.
StageInv(s) == ~Known(s) => stage[s] = NoRow

RunnerInv(r) ==
    /\ handed[r] # None => Known(handed[r])
    /\ runner[r].pc \in Working =>
          /\ runner[r].stage # None
          /\ Known(runner[r].stage)
          /\ Copy(runner[r].stage, runner[r].row)
    /\ runner[r].pc = "accept" => runner[r].row.machine = None
    /\ runner[r].pc \in {"accepted", "updateExecution", "running", "teardown"} =>
          stage[runner[r].stage].machine # None
    /\ runner[r].pc \in {"resyncCanceled", "resyncScheduled"} =>
          runner[r].next \in DOMAIN runner[r].list
    /\ \A s \in DOMAIN runner[r].list : Known(s) /\ Copy(s, runner[r].list[s])

CancelInv(e) == \A s \in DOMAIN cancel[e].list : Known(s) /\ Copy(s, cancel[e].list[s])

IInv ==
    /\ Types
    /\ \A s \in Stages : StageInv(s)
    /\ \A i \in Instances : \A s \in signal[i] : Known(s)
    /\ \A r \in Runners : RunnerInv(r)
    /\ \A e \in Executions : CancelInv(e)
    /\ OneRunner

-----------------------------------------------------------------------------
(* What a step may do to the tables. *)

Grows(s) ==
    /\ stage[s].version <= stage'[s].version
    /\ stage[s].version = stage'[s].version => stage[s].machine = stage'[s].machine
    /\ stage[s].machine # None => stage[s].machine = stage'[s].machine

Grow ==
    /\ \A s \in Stages : Grows(s)
    /\ \A e \in Executions : execution[e].status # "none" => execution'[e].status # "none"

\* A copy stays a copy, whatever row grows.
LEMMA CopyKept ==
    ASSUME Types, NEW s \in Stages, Grows(s), stage'[s] \in StageRow,
           NEW row \in StageRow, Copy(s, row)
    PROVE  Copy(s, row)'
BY DEF Types, Grows, Copy, StageRow

\* What is known of a runner that does not move stays true.
LEMMA RunnerKept ==
    ASSUME Types, Types', Grow, NEW r \in Runners, RunnerInv(r),
           runner'[r] = runner[r], handed'[r] = handed[r]
    PROVE  RunnerInv(r)'
<1>1. runner[r] \in RunnerState /\ handed[r] \in Stages \cup {None}
  BY Zenon DEF Types
<1>2. ASSUME NEW s \in Stages PROVE Known(s) => Known(s)'
  BY <1>2, StagesAssumption, Zenon DEF Grow, Known
<1>3. ASSUME NEW s \in Stages, NEW row \in StageRow, Copy(s, row) PROVE Copy(s, row)'
  BY <1>3, CopyKept, Zenon DEF Grow, Types
<1>4. \A s \in DOMAIN runner[r].list : s \in Stages /\ runner[r].list[s] \in StageRow
  BY <1>1, Zenon DEF RunnerState, Lists
<1>5. (handed[r] # None => Known(handed[r]))'
  BY <1>1, <1>2, Zenon DEF RunnerInv
<1>6. runner[r].row \in StageRow /\ runner[r].stage \in Stages \cup {None}
  BY <1>1, Zenon DEF RunnerState
<1>7. \A s \in DOMAIN runner[r].list : (Known(s) /\ Copy(s, runner[r].list[s]))'
  BY <1>2, <1>3, <1>4, Zenon DEF RunnerInv
<1>8. \A s \in Stages : stage[s].machine # None => stage'[s].machine # None
  BY Zenon DEF Grow, Grows
<1>9. (runner[r].stage # None /\ Known(runner[r].stage) /\ Copy(runner[r].stage, runner[r].row))
        => (Known(runner[r].stage) /\ Copy(runner[r].stage, runner[r].row))'
  BY <1>2, <1>3, <1>6, Zenon
<1> QED BY <1>5, <1>6, <1>7, <1>8, <1>9, Zenon DEF RunnerInv, Working

\* Nor does a cancel that does not move lose what is known of it.
LEMMA CancelKept ==
    ASSUME Types, Types', Grow, NEW e \in Executions, CancelInv(e), cancel'[e] = cancel[e]
    PROVE  CancelInv(e)'
<1>1. cancel[e] \in CancelState
  BY Zenon DEF Types
<1>2. \A s \in DOMAIN cancel[e].list : s \in Stages /\ cancel[e].list[s] \in StageRow
  BY <1>1 DEF CancelState, Lists
<1>3. ASSUME NEW s \in Stages PROVE Known(s) => Known(s)'
  BY <1>3, StagesAssumption, Zenon DEF Grow, Known
<1>4. ASSUME NEW s \in Stages, NEW row \in StageRow, Copy(s, row) PROVE Copy(s, row)'
  BY <1>4, CopyKept, Zenon DEF Grow, Types
<1> QED BY <1>2, <1>3, <1>4, Zenon DEF CancelInv

\* An update that passes the check of the version lets the table grow.
LEMMA StageWritten ==
    ASSUME Types, NEW s \in Stages, NEW row \in StageRow, NEW status \in CIStatus,
           stage[s].machine # None => row.machine = stage[s].machine,
           CanUpdateStage(s, row), UpdateStage(s, row, status)
    PROVE  /\ stage' \in [Stages -> StageRow]
           /\ stage'[s] = [status |-> status, machine |-> row.machine, version |-> row.version + 1]
           /\ \A t \in Stages : t # s => stage'[t] = stage[t]
           /\ \A t \in Stages : Grows(t)
BY DEF Types, CanUpdateStage, UpdateStage, StageRow, Grows

\* What remains to be shown of a step of one runner: the tables, and that runner.
LEMMA RunnerMoves ==
    ASSUME IInv, Types', Grow, NEW r \in Runners, RunnerInv(r)',
           \A s \in Stages : StageInv(s)',
           \A i \in Instances : \A s \in signal'[i] : Known(s)',
           \A q \in Runners : q # r => runner'[q] = runner[q] /\ handed'[q] = handed[q],
           cancel' = cancel,
           \A s \in Stages : Holds(r, s)' => Holds(r, s) \/ stage[s].machine = None
    PROVE  IInv'
<1>1. \A q \in Runners : RunnerInv(q)'
  BY RunnerKept, Zenon DEF IInv
<1>2. \A e \in Executions : CancelInv(e)'
  BY CancelKept, Zenon DEF IInv
<1>3. OneRunner'
  <2> SUFFICES ASSUME NEW q \in Runners, NEW p \in Runners, NEW s \in Stages,
                      Holds(q, s)', Holds(p, s)', q # p
               PROVE  FALSE
    BY Zenon DEF OneRunner
  <2>1. ASSUME NEW o \in Runners, o # r, Holds(o, s)' PROVE Holds(o, s) /\ stage[s].machine # None
    <3>1. runner'[o] = runner[o] /\ RunnerInv(o)
      BY <2>1, Zenon DEF IInv
    <3> QED BY <2>1, <3>1, Zenon DEF Holds, RunnerInv
  <2> QED BY <2>1, Zenon DEF IInv, OneRunner
<1> QED BY <1>1, <1>2, <1>3, Zenon DEF IInv

\* The stages that no execution has yet are left alone by a write of a known one.
LEMMA StagesKept ==
    ASSUME IInv, Types', Grow, NEW s \in Stages, Known(s), signal' = signal,
           \A t \in Stages : t # s => stage'[t] = stage[t]
    PROVE  /\ \A t \in Stages : StageInv(t)'
           /\ \A i \in Instances : \A t \in signal'[i] : Known(t)'
<1>1. ASSUME NEW t \in Stages PROVE Known(t) => Known(t)'
  BY <1>1, StagesAssumption, Zenon DEF Grow, Known
<1> QED BY <1>1, Zenon DEF IInv, StageInv, Types

\* The same if the stages table does not change.
LEMMA StagesSame ==
    ASSUME IInv, Types', Grow, signal' = signal, stage' = stage
    PROVE  /\ \A t \in Stages : StageInv(t)'
           /\ \A i \in Instances : \A t \in signal'[i] : Known(t)'
<1>1. ASSUME NEW t \in Stages PROVE Known(t) => Known(t)'
  BY <1>1, StagesAssumption, Zenon DEF Grow, Known
<1> QED BY <1>1, Zenon DEF IInv, StageInv, Types

\* Tables that do not change grow.
LEMMA SameGrows == ASSUME Types, stage' = stage, execution' = execution PROVE Grow
BY DEF Grow, Grows, Types, StageRow

LEMMA IdleIsTyped == Idle \in RunnerState
<1>1. NoList \in Lists
  <2>1. NoList \in [{} -> StageRow]
    BY Zenon DEF NoList
  <2> QED BY <2>1, Zenon DEF Lists
<1>2. NoRow \in StageRow /\ NoExec \in ExecutionRow
  BY Zenon DEF NoRow, NoExec, StageRow, ExecutionRow, CIStatus
<1> QED BY <1>1, <1>2, Zenon DEF Idle, RunnerState, Working

\* A runner that gives up has nothing left to write.
LEMMA GiveUp ==
    ASSUME IInv, NEW r \in Runners, GoIdle(r), Types',
           handed'[r] = None \/ (handed' = handed /\ execution' = execution)
    PROVE  /\ RunnerInv(r)'
           /\ \A s \in Stages : ~Holds(r, s)'
<1>1. runner'[r] = Idle
  BY Zenon DEF GoIdle, IInv, Types
<1>2. DOMAIN Idle.list = {} /\ Idle.pc = "idle"
  BY Zenon DEF Idle, NoList
<1>3. (handed[r] # None => Known(handed[r]))'
  BY Zenon DEF IInv, RunnerInv, Known
<1> QED BY <1>1, <1>2, <1>3, Zenon DEF RunnerInv, Holds, Working

\* What is known of the copies of a runner does not depend on anything but the tables.
LEMMA HandedSame ==
    ASSUME IInv, NEW r \in Runners, execution' = execution, handed' = handed
    PROVE  (handed[r] # None => Known(handed[r]))'
BY Zenon DEF IInv, RunnerInv, Known

LEMMA ListSame ==
    ASSUME IInv, NEW r \in Runners, stage' = stage, execution' = execution,
           runner'[r].list = runner[r].list
    PROVE  (\A s \in DOMAIN runner[r].list : Known(s) /\ Copy(s, runner[r].list[s]))'
<1>1. \A s \in DOMAIN runner[r].list : Known(s) /\ Copy(s, runner[r].list[s])
  BY Zenon DEF IInv, RunnerInv
<1> QED BY ONLY <1>1, stage' = stage, execution' = execution, runner'[r].list = runner[r].list, Zenon
        DEF Known, Copy

LEMMA WorkSame ==
    ASSUME IInv, NEW r \in Runners, runner[r].pc \in Working, stage' = stage, execution' = execution,
           runner'[r].stage = runner[r].stage, runner'[r].row.version = runner[r].row.version,
           runner'[r].row.machine = runner[r].row.machine
    PROVE  (runner[r].stage # None /\ Known(runner[r].stage) /\ Copy(runner[r].stage, runner[r].row))'
<1>1. runner[r].stage # None /\ Known(runner[r].stage) /\ Copy(runner[r].stage, runner[r].row)
  BY Zenon DEF IInv, RunnerInv
<1> QED BY ONLY <1>1, stage' = stage, execution' = execution, runner'[r].stage = runner[r].stage,
                runner'[r].row.version = runner[r].row.version,
                runner'[r].row.machine = runner[r].row.machine, Zenon
        DEF Known, Copy

-----------------------------------------------------------------------------
(* One lemma per action. *)

LEMMA RequestInv ==
    ASSUME IInv, NEW r \in Runners, RequestStage(r)
    PROVE  IInv' /\ Grow
<1> USE DEF RequestStage, Request, At, tableVars, Working
<1>1. Types'
  <2>1. runner \in [Runners -> RunnerState] /\ runner[r] \in RunnerState
    BY Zenon DEF IInv, Types
  <2>2. [runner[r] EXCEPT !.pc = "waiting"] \in RunnerState
    BY ONLY <2>1 DEF RunnerState
  <2>3. runner' = [runner EXCEPT ![r] = [runner[r] EXCEPT !.pc = "waiting"]]
    BY <2>1, Zenon
  <2>4. runner' \in [Runners -> RunnerState]
    BY ONLY <2>1, <2>2, <2>3, r \in Runners, Zenon
  <2> QED BY <2>4, Zenon DEF IInv, Types
<1>2. Grow
  BY SameGrows, Zenon DEF IInv
<1>3. RunnerInv(r)'
  <2>1. runner'[r] = [runner[r] EXCEPT !.pc = "waiting"]
    BY Zenon DEF IInv, Types
  <2>2. /\ runner'[r].pc = "waiting"
        /\ runner'[r].list = runner[r].list
    BY <2>1, Zenon DEF IInv, Types, RunnerState
  <2>3. (handed[r] # None => Known(handed[r]))'
    BY HandedSame, Zenon
  <2>4. (\A s \in DOMAIN runner[r].list : Known(s) /\ Copy(s, runner[r].list[s]))'
    BY <2>2, ListSame, Zenon
  <2> QED BY <2>2, <2>3, <2>4, Zenon DEF RunnerInv
<1>4. \A q \in Runners : q # r => runner'[q] = runner[q] /\ handed'[q] = handed[q]
  BY Zenon DEF IInv, Types
<1>5. \A s \in Stages : ~Holds(r, s)'
  BY Zenon DEF Holds, IInv, Types, RunnerState
<1>6. QED BY <1>1, <1>2, <1>3, <1>4, <1>5, StagesSame, RunnerMoves, Zenon

LEMMA AcceptFindInv ==
    ASSUME IInv, NEW r \in Runners, AcceptFind(r)
    PROVE  IInv' /\ Grow
<1> USE DEF AcceptFind, At, tableVars, Working
<1>1. runner[r].pc = "waiting" /\ handed[r] \in Stages /\ Known(handed[r])
  BY Zenon DEF IInv, Types, RunnerInv
<1>2. runner \in [Runners -> RunnerState] /\ stage[handed[r]] \in StageRow
  BY <1>1, Zenon DEF IInv, Types
<1>3. handed'[r] = None
  BY Zenon DEF IInv, Types
<1>4. Grow
  BY SameGrows, Zenon DEF IInv
<1>5. \A q \in Runners : q # r => runner'[q] = runner[q] /\ handed'[q] = handed[q]
  BY Zenon DEF IInv, Types, GoIdle
<1>6. handed' \in [Runners -> Stages \cup {None}]
  BY Zenon DEF IInv, Types
<1>7. CASE stage[handed[r]].machine # None
  <2>1. GoIdle(r)
    BY <1>7, Zenon
  <2>2. Types'
    BY <2>1, <1>6, IdleIsTyped, Zenon DEF IInv, Types, GoIdle
  <2> QED BY <2>1, <2>2, <1>3, <1>4, <1>5, GiveUp, StagesSame, RunnerMoves, Zenon
<1>8. CASE stage[handed[r]].machine = None
  <2>1. runner' = [runner EXCEPT ![r] = [@ EXCEPT !.pc = "accept", !.stage = handed[r],
                                                  !.row = stage[handed[r]]]]
    BY <1>8, Zenon
  <2>2. /\ runner' \in [Runners -> RunnerState]
        /\ runner'[r].pc = "accept" /\ runner'[r].stage = handed[r]
        /\ runner'[r].row = stage[handed[r]] /\ runner'[r].list = runner[r].list
    BY <2>1, <1>1, <1>2 DEF RunnerState
  <2>3. Types'
    BY <2>2, <1>6, Zenon DEF IInv, Types
  <2>4. RunnerInv(r)'
    <3>1. (runner[r].stage # None /\ Known(runner[r].stage) /\ Copy(runner[r].stage, runner[r].row))'
      BY <2>2, <1>1, <1>2, QueueAssumption DEF Known, Copy, StageRow
    <3>2. (\A s \in DOMAIN runner[r].list : Known(s) /\ Copy(s, runner[r].list[s]))'
      BY <2>2, ListSame, Zenon
    <3> QED BY <2>2, <3>1, <3>2, <1>3, <1>8, Zenon DEF RunnerInv
  <2>5. \A s \in Stages : ~Holds(r, s)'
    BY <2>2, Zenon DEF Holds
  <2> QED BY <2>3, <2>4, <2>5, <1>4, <1>5, StagesSame, RunnerMoves, Zenon
<1> QED BY <1>7, <1>8, Zenon

\* What is known of the rows in its list, as long as a runner leaves them alone.
LEMMA ListKept ==
    ASSUME Types, Types', Grow, NEW r \in Runners, RunnerInv(r), runner'[r].list = runner[r].list
    PROVE  (\A s \in DOMAIN runner[r].list : Known(s) /\ Copy(s, runner[r].list[s]))'
<1>1. \A s \in DOMAIN runner[r].list : s \in Stages /\ runner[r].list[s] \in StageRow
  BY DEF Types, RunnerState, Lists
<1>2. ASSUME NEW s \in Stages PROVE Known(s) => Known(s)'
  BY <1>2, StagesAssumption, Zenon DEF Grow, Known
<1>3. ASSUME NEW s \in Stages, NEW row \in StageRow, Copy(s, row) PROVE Copy(s, row)'
  BY <1>3, CopyKept, Zenon DEF Grow, Types
<1> QED BY <1>1, <1>2, <1>3, Zenon DEF RunnerInv

\* The row of the runner's own stage is written.
LEMMA SaveStageInv ==
    ASSUME IInv, NEW r \in Runners, NEW s \in Stages, s = runner[r].stage, Known(s),
           NEW row \in StageRow, NEW status \in CIStatus, NEW pc \in {"accepted", "updateExecution", "list"},
           row.machine # None,
           stage[s].machine # None => row.machine = stage[s].machine,
           SaveStage(r, row, status, pc), UNCHANGED <<execution, config, queueVars, cancel>>,
           runner[r].pc \in {"accepted", "updateExecution", "running", "teardown"}
             \/ stage[s].machine = None
    PROVE  IInv' /\ Grow
<1>1. runner \in [Runners -> RunnerState] /\ Types
  BY Zenon DEF IInv, Types
<1>2. /\ stage' \in [Stages -> StageRow]
      /\ stage'[s].machine = row.machine
      /\ \A t \in Stages : t # s => stage'[t] = stage[t]
      /\ \A t \in Stages : Grows(t)
  <2>1. CanUpdateStage(s, row) /\ UpdateStage(s, row, status)
    BY Zenon DEF SaveStage
  <2>2. /\ stage' \in [Stages -> StageRow]
        /\ stage'[s] = [status |-> status, machine |-> row.machine, version |-> row.version + 1]
        /\ \A t \in Stages : t # s => stage'[t] = stage[t]
        /\ \A t \in Stages : Grows(t)
    BY <1>1, <2>1, StageWritten, Zenon
  <2> QED BY <2>2
<1>3. Grow
  BY <1>2, Zenon DEF Grow
<1> PICK new \in StageRow : new = stage'[s]
  BY <1>2, Zenon
<1>5. /\ runner' \in [Runners -> RunnerState]
      /\ runner'[r].pc = pc /\ runner'[r].stage = s
      /\ runner'[r].row = new /\ runner'[r].list = runner[r].list
      /\ \A q \in Runners : q # r => runner'[q] = runner[q]
  <2>1. runner' = [runner EXCEPT ![r].pc = pc, ![r].row = new]
    BY Zenon DEF SaveStage
  <2>2. pc \in Working
    BY Zenon DEF Working
  <2> PICK copy : copy = [runner[r] EXCEPT !.pc = pc, !.row = new]
    BY Zenon
  <2>3. /\ copy \in RunnerState /\ copy.pc = pc /\ copy.stage = s
        /\ copy.row = new /\ copy.list = runner[r].list
    BY <2>2, <1>1, Zenon DEF RunnerState
  <2>4. runner' = [runner EXCEPT ![r] = copy]
    BY <2>1, <1>1, Zenon
  <2> QED BY <2>3, <2>4, <1>1, Zenon
<1>6. Types'
  BY <1>2, <1>5, Zenon DEF IInv, Types, queueVars
<1>7. RunnerInv(r)'
  <2>1. Known(s)' /\ Copy(s, new)'
    <3>1. Known(s)'
      BY Zenon DEF Known
    <3>2. Copy(s, new)'
      BY new = stage'[s], new \in StageRow DEF Copy, StageRow
    <3> QED BY <3>1, <3>2, Zenon
  <2>2. (handed[r] # None => Known(handed[r]))'
    BY Zenon DEF IInv, RunnerInv, Known, queueVars
  <2>3. s # None
    BY QueueAssumption, Zenon
  <2>4. (\A t \in DOMAIN runner[r].list : Known(t) /\ Copy(t, runner[r].list[t]))'
    BY <1>3, <1>5, <1>6, ListKept, Zenon DEF IInv
  <2>5. runner'[r].pc \in {"accepted", "updateExecution", "list"} /\ stage'[s].machine # None
    BY <1>2, <1>5, Zenon
  <2> QED BY <1>5, <2>1, <2>2, <2>3, <2>4, <2>5, Zenon DEF RunnerInv
<1>8. \A t \in Stages : Holds(r, t)' => Holds(r, t) \/ stage[t].machine = None
  BY <1>5, Zenon DEF Holds
<1>9. \A q \in Runners : q # r => runner'[q] = runner[q] /\ handed'[q] = handed[q]
  BY <1>5, Zenon DEF queueVars
<1>10. cancel' = cancel /\ signal' = signal
  BY Zenon DEF queueVars
<1> QED BY <1>2, <1>3, <1>6, <1>7, <1>8, <1>9, <1>10, StagesKept, RunnerMoves, Zenon

\* A write is refused, or the stage dropped: the runner goes idle and the tables stay.
LEMMA DropInv ==
    ASSUME IInv, NEW r \in Runners, GoIdle(r),
           UNCHANGED <<execution, stage, config, queueVars, cancel>>
    PROVE  IInv' /\ Grow
<1>1. Types'
  BY IdleIsTyped, Zenon DEF IInv, Types, GoIdle, queueVars
<1>2. Grow
  BY SameGrows, Zenon DEF IInv
<1>3. \A q \in Runners : q # r => runner'[q] = runner[q] /\ handed'[q] = handed[q]
  BY Zenon DEF IInv, Types, GoIdle, queueVars
<1> QED BY <1>1, <1>2, <1>3, GiveUp, StagesSame, RunnerMoves, Zenon DEF queueVars

LEMMA AcceptUpdateInv ==
    ASSUME IInv, NEW r \in Runners, AcceptUpdate(r)
    PROVE  IInv' /\ Grow
<1>1. /\ runner[r].pc = "accept" /\ runner[r].row \in StageRow
      /\ runner[r].stage \in Stages /\ Known(runner[r].stage)
  BY Zenon DEF AcceptUpdate, At, IInv, Types, RunnerState, RunnerInv, Working
<1> PICK s \in Stages : s = runner[r].stage
  BY <1>1, Zenon
<1>2. PICK row : row = [runner[r].row EXCEPT !.machine = InstanceOf[r]]
  BY Zenon
<1>3. row \in StageRow /\ row.machine # None /\ row.version = runner[r].row.version
  BY <1>1, <1>2, StagesAssumption, QueueAssumption DEF StageRow
<1>4. CASE SaveStage(r, row, "pending", "accepted")
  <2>1. CanUpdateStage(s, row)
    BY <1>4, Zenon DEF SaveStage
  <2>2. stage[s].machine = None
    BY <1>1, <1>3, <2>1, Zenon DEF CanUpdateStage, IInv, RunnerInv, Copy, Working
  <2>3. "pending" \in CIStatus /\ Known(s)
    BY <1>1, Zenon DEF CIStatus
  <2>4. UNCHANGED <<execution, config, queueVars, cancel>>
    BY Zenon DEF AcceptUpdate
  <2> QED BY <1>3, <1>4, <2>2, <2>3, <2>4, SaveStageInv, Zenon
<1>5. CASE GoIdle(r) /\ UNCHANGED stage
  BY <1>5, DropInv, Zenon DEF AcceptUpdate
<1> QED BY <1>2, <1>4, <1>5, Zenon DEF AcceptUpdate

LEMMA SetupStageInv ==
    ASSUME IInv, NEW r \in Runners, SetupStage(r)
    PROVE  IInv' /\ Grow
<1>1. /\ runner[r].pc = "accepted" /\ runner[r].row \in StageRow
      /\ runner[r].stage \in Stages /\ Known(runner[r].stage)
  BY Zenon DEF SetupStage, At, IInv, Types, RunnerState, RunnerInv, Working
<1> PICK s \in Stages : s = runner[r].stage
  BY <1>1, Zenon
<1> PICK row \in StageRow : row = runner[r].row
  BY <1>1, Zenon
<1>2. CASE SaveStage(r, row, "running", "updateExecution")
  <2>1. row.machine = stage[s].machine /\ stage[s].machine # None
    BY <1>1, <1>2, Zenon DEF SaveStage, CanUpdateStage, IInv, RunnerInv, Copy, Working
  <2>2. "running" \in CIStatus /\ Known(s) /\ UNCHANGED <<execution, config, queueVars, cancel>>
    BY <1>1, Zenon DEF CIStatus, SetupStage
  <2> QED BY <1>1, <1>2, <2>1, <2>2, SaveStageInv, Zenon
<1>3. CASE GoIdle(r) /\ UNCHANGED stage
  BY <1>3, DropInv, Zenon DEF SetupStage
<1> QED BY <1>2, <1>3, Zenon DEF SetupStage

LEMMA TeardownStageInv ==
    ASSUME IInv, NEW r \in Runners, TeardownStage(r)
    PROVE  IInv' /\ Grow
<1>1. /\ runner[r].pc = "teardown" /\ runner[r].row \in StageRow
      /\ runner[r].stage \in Stages /\ Known(runner[r].stage)
  BY Zenon DEF TeardownStage, At, IInv, Types, RunnerState, RunnerInv, Working
<1> PICK s \in Stages : s = runner[r].stage
  BY <1>1, Zenon
<1> PICK row \in StageRow : row = runner[r].row
  BY <1>1, Zenon
<1>2. CASE SaveStage(r, row, row.status, "list")
  <2>1. row.machine = stage[s].machine /\ stage[s].machine # None
    BY <1>1, <1>2, Zenon DEF SaveStage, CanUpdateStage, IInv, RunnerInv, Copy, Working
  <2>2. row.status \in CIStatus /\ Known(s) /\ UNCHANGED <<execution, config, queueVars, cancel>>
    BY <1>1, Zenon DEF StageRow, TeardownStage
  <2> QED BY <1>1, <1>2, <2>1, <2>2, SaveStageInv, Zenon
<1>3. CASE GoIdle(r) /\ UNCHANGED stage
  BY <1>3, DropInv, Zenon DEF TeardownStage
<1> QED BY <1>2, <1>3, Zenon DEF TeardownStage

\* An update of an execution never takes away its row.
LEMMA ExecutionWritten ==
    ASSUME Types, NEW e \in Executions, NEW row \in ExecutionRow, NEW status \in CIStatus \ {"none"},
           UpdateExecution(e, row, status), stage' = stage
    PROVE  execution' \in [Executions -> ExecutionRow] /\ Grow
<1>1. execution' \in [Executions -> ExecutionRow]
  BY DEF Types, UpdateExecution, ExecutionRow
<1>2. \A f \in Executions : execution[f].status # "none" => execution'[f].status # "none"
  BY Zenon DEF Types, UpdateExecution
<1>3. \A s \in Stages : Grows(s)
  BY DEF Grows, Types, StageRow
<1> QED BY <1>1, <1>2, <1>3, Zenon DEF Grow

\* A runner that moves on without writing to the stages table.
LEMMA RunnerReads ==
    ASSUME IInv, NEW r \in Runners, NEW new \in RunnerState, runner' = [runner EXCEPT ![r] = new],
           execution' \in [Executions -> ExecutionRow], Grow,
           UNCHANGED <<stage, handed, signal, cancel>>, RunnerInv(r)',
           new.stage = runner[r].stage,
           new.pc \in {"accepted", "updateExecution", "running", "teardown"} =>
             runner[r].pc \in {"accepted", "updateExecution", "running", "teardown"}
    PROVE  IInv' /\ Grow
<1>1. Types'
  BY Zenon DEF IInv, Types
<1>2. \A q \in Runners : q # r => runner'[q] = runner[q] /\ handed'[q] = handed[q]
  BY Zenon DEF IInv, Types
<1>3. runner'[r] = new
  BY Zenon DEF IInv, Types
<1>4. \A s \in Stages : Holds(r, s)' => Holds(r, s)
  BY <1>3, Zenon DEF Holds
<1> QED BY <1>1, <1>2, <1>4, StagesSame, RunnerMoves, Zenon

LEMMA SetupExecutionInv ==
    ASSUME IInv, NEW r \in Runners, SetupExecution(r)
    PROVE  IInv' /\ Grow
<1>1. /\ runner[r].pc = "updateExecution" /\ runner[r] \in RunnerState
      /\ runner[r].stage \in Stages /\ runner \in [Runners -> RunnerState]
  BY Zenon DEF SetupExecution, At, IInv, Types, RunnerState, RunnerInv, Working
<1> PICK e \in Executions : e = Exec(r)
  BY <1>1, StagesAssumption, Zenon DEF Exec
<1> PICK new : new = [runner[r] EXCEPT !.pc = "running"]
  BY Zenon
<1>2. /\ new \in RunnerState /\ new.pc = "running" /\ new.stage = runner[r].stage
      /\ new.row = runner[r].row /\ new.list = runner[r].list
  BY <1>1, Zenon DEF RunnerState, Working
<1>3. runner' = [runner EXCEPT ![r] = new] /\ runner'[r] = new
  BY <1>1, Zenon DEF SetupExecution
<1>4. execution' \in [Executions -> ExecutionRow] /\ Grow
  <2>1. CASE execution[e].status = "pending"
    <3> PICK row \in ExecutionRow : row = execution[e]
      BY Zenon DEF IInv, Types
    <3>1. UpdateExecution(e, row, "running") /\ stage' = stage
      BY <2>1, Zenon DEF SetupExecution
    <3>2. "running" \in CIStatus \ {"none"}
      BY Zenon DEF CIStatus
    <3> QED BY <3>1, <3>2, ExecutionWritten, Zenon DEF IInv
  <2>2. CASE execution[e].status # "pending"
    BY <2>2, SameGrows, Zenon DEF SetupExecution, IInv, Types
  <2> QED BY <2>1, <2>2, Zenon
<1>5. UNCHANGED <<stage, handed, signal, cancel>>
  BY Zenon DEF SetupExecution, queueVars
<1>6. RunnerInv(r)'
  <2>1. ASSUME NEW s \in Stages PROVE Known(s) => Known(s)'
    BY <2>1, <1>4, StagesAssumption, Zenon DEF Grow, Known
  <2>2. Types'
    BY <1>2, <1>3, <1>4, <1>5, Zenon DEF IInv, Types
  <2>3. (\A t \in DOMAIN runner[r].list : Known(t) /\ Copy(t, runner[r].list[t]))'
    BY <1>2, <1>3, <1>4, <2>2, ListKept, Zenon DEF IInv
  <2>4. (handed[r] # None => Known(handed[r]))'
    BY <1>5, <2>1, Zenon DEF IInv, Types, RunnerInv
  <2>5. runner[r].stage # None /\ Known(runner[r].stage) /\ Copy(runner[r].stage, runner[r].row)
        /\ stage[runner[r].stage].machine # None
    BY <1>1, Zenon DEF IInv, RunnerInv, Working
  <2>6. (runner[r].stage # None /\ Known(runner[r].stage) /\ Copy(runner[r].stage, runner[r].row)
        /\ stage[runner[r].stage].machine # None)'
    BY <1>1, <1>2, <1>3, <1>5, <2>1, <2>5, Zenon DEF Copy
  <2> QED BY <1>2, <1>3, <2>3, <2>4, <2>6, Zenon DEF RunnerInv, Working
<1> QED BY <1>1, <1>2, <1>3, <1>4, <1>5, <1>6, RunnerReads, Zenon

LEMMA TeardownFindInv ==
    ASSUME IInv, NEW r \in Runners, TeardownFind(r)
    PROVE  IInv' /\ Grow
<1>1. /\ runner[r].pc \in {"accepted", "running"} /\ runner[r] \in RunnerState
      /\ runner[r].stage \in Stages /\ runner \in [Runners -> RunnerState]
  BY Zenon DEF TeardownFind, At, IInv, Types, RunnerState, RunnerInv, Working
<1>2. PICK outcome \in Outcomes \cup {"error"} :
         runner' = [runner EXCEPT ![r].pc = "teardown", ![r].exec = execution[Exec(r)],
                                  ![r].row.status = outcome]
  BY Zenon DEF TeardownFind
<1>3. outcome \in CIStatus /\ execution[Exec(r)] \in ExecutionRow
  BY <1>1, ManagerAssumption, StagesAssumption, Zenon DEF CIStatus, Exec, IInv, Types
<1> PICK new : new = [runner[r] EXCEPT !.pc = "teardown", !.exec = execution[Exec(r)], !.row.status = outcome]
  BY Zenon
<1>4. /\ new \in RunnerState /\ new.pc = "teardown" /\ new.stage = runner[r].stage
      /\ new.row.version = runner[r].row.version /\ new.row.machine = runner[r].row.machine
      /\ new.list = runner[r].list
  BY <1>1, <1>3, Zenon DEF RunnerState, Working, StageRow
<1>5. runner' = [runner EXCEPT ![r] = new] /\ runner'[r] = new
  BY <1>1, <1>2, Zenon
<1>6. UNCHANGED <<stage, handed, signal, cancel, execution>>
  BY Zenon DEF TeardownFind, tableVars, queueVars
<1>7. execution' \in [Executions -> ExecutionRow] /\ Grow
  BY <1>6, SameGrows, Zenon DEF IInv, Types
<1>8. RunnerInv(r)'
  <2>1. /\ (handed[r] # None => Known(handed[r]))'
        /\ (\A s \in DOMAIN runner[r].list : Known(s) /\ Copy(s, runner[r].list[s]))'
    BY <1>4, <1>5, <1>6, HandedSame, ListSame, Zenon
  <2>2. (runner[r].stage # None /\ Known(runner[r].stage) /\ Copy(runner[r].stage, runner[r].row))'
    BY <1>1, <1>4, <1>5, <1>6, WorkSame, Zenon DEF Working
  <2>3. (stage[runner[r].stage].machine # None)'
    BY <1>1, <1>4, <1>5, <1>6, Zenon DEF IInv, RunnerInv
  <2> QED BY <1>4, <1>5, <2>1, <2>2, <2>3, Zenon DEF RunnerInv, Working
<1> QED BY <1>1, <1>4, <1>5, <1>6, <1>7, <1>8, RunnerReads, Zenon

\* What the stages table lists of an execution are copies of known stages.
LEMMA ListedRows ==
    ASSUME IInv, NEW S \in SUBSET Stages, \A s \in S : HasRow(s),
           NEW list, list = [s \in S |-> stage[s]]
    PROVE  list \in Lists /\ \A s \in DOMAIN list : Known(s) /\ Copy(s, list[s])
<1>1. list \in [S -> StageRow]
  BY Zenon DEF IInv, Types
<1>2. \A s \in S : Known(s)
  BY DEF IInv, StageInv, HasRow, NoRow
<1>3. \A s \in S : Copy(s, list[s])
  BY DEF Copy, IInv, Types, StageRow
<1> QED BY <1>1, <1>2, <1>3, Zenon DEF Lists

LEMMA TeardownListInv ==
    ASSUME IInv, NEW r \in Runners, TeardownList(r)
    PROVE  IInv' /\ Grow
<1>1. /\ runner[r].pc = "list" /\ runner[r] \in RunnerState
      /\ runner[r].stage \in Stages /\ runner \in [Runners -> RunnerState]
  BY Zenon DEF TeardownList, At, IInv, Types, RunnerState, RunnerInv, Working
<1> PICK list : list = Rows(Exec(r))
  BY Zenon
<1>2. list \in Lists /\ \A s \in DOMAIN list : Known(s) /\ Copy(s, list[s])
  <2> PICK S \in SUBSET Stages : S = {t \in StagesOf(Exec(r)) : HasRow(t)}
    BY Zenon DEF StagesOf
  <2>1. list = [s \in S |-> stage[s]] /\ \A s \in S : HasRow(s)
    BY Zenon DEF Rows
  <2> QED BY <2>1, ListedRows, Zenon
<1> PICK failed \in BOOLEAN : failed = (\E s \in DOMAIN list : IsFailed(list[s].status))
  BY Zenon
<1> PICK new : new = [runner[r] EXCEPT !.pc = "cancelDownstream", !.list = list, !.failed = failed]
  BY Zenon
<1>3. /\ new \in RunnerState /\ new.pc = "cancelDownstream" /\ new.stage = runner[r].stage
      /\ new.row = runner[r].row /\ new.list = list
  BY <1>1, <1>2, Zenon DEF RunnerState, Working
<1>4. runner' = [runner EXCEPT ![r] = new] /\ runner'[r] = new
  BY <1>1, Zenon DEF TeardownList
<1>5. UNCHANGED <<stage, handed, signal, cancel, execution>>
  BY Zenon DEF TeardownList, tableVars, queueVars
<1>6. execution' \in [Executions -> ExecutionRow] /\ Grow
  BY <1>5, SameGrows, Zenon DEF IInv, Types
<1>7. RunnerInv(r)'
  <2>1. \A s \in DOMAIN list : (Known(s) /\ Copy(s, list[s]))'
    BY <1>2, <1>5, Zenon DEF Known, Copy
  <2>2. (\A s \in DOMAIN runner[r].list : Known(s) /\ Copy(s, runner[r].list[s]))'
    <3>1. runner'[r].list = list
      BY <1>3, <1>4, Zenon
    <3> QED BY ONLY <2>1, <3>1, Zenon DEF Copy
  <2>3. (handed[r] # None => Known(handed[r]))'
    BY <1>5, HandedSame, Zenon
  <2>4. (runner[r].stage # None /\ Known(runner[r].stage) /\ Copy(runner[r].stage, runner[r].row))'
    BY <1>1, <1>3, <1>4, <1>5, WorkSame, Zenon DEF Working
  <2> QED BY <1>3, <1>4, <2>2, <2>3, <2>4, Zenon DEF RunnerInv
<1> QED BY <1>1, <1>3, <1>4, <1>5, <1>6, <1>7, RunnerReads, Zenon

\* A row of the list is written back, or found to have changed.
LEMMA SaveDownstreamInv ==
    ASSUME IInv, NEW r \in Runners, runner[r].pc \in {"cancelDownstream", "scheduleDownstream"},
           NEW s \in DOMAIN runner[r].list, NEW status \in CIStatus,
           NEW resync \in {"resyncCanceled", "resyncScheduled"},
           SaveDownstream(r, s, status, resync),
           UNCHANGED <<execution, handed, signal, cancel>>
    PROVE  IInv' /\ Grow
<1>1. /\ runner[r] \in RunnerState /\ runner[r].list \in Lists /\ Types
      /\ runner \in [Runners -> RunnerState]
      /\ runner[r].stage # None /\ runner[r].stage \in Stages /\ Known(runner[r].stage)
      /\ Copy(runner[r].stage, runner[r].row)
  BY Zenon DEF IInv, Types, RunnerState, RunnerInv, Working
<1> PICK list \in Lists : list = runner[r].list
  BY <1>1, Zenon
<1>2. /\ s \in Stages /\ list[s] \in StageRow /\ Known(s) /\ Copy(s, list[s])
      /\ s \in Nat
  <2>1. s \in Stages /\ list[s] \in StageRow
    BY Zenon DEF Lists
  <2>2. Known(s) /\ Copy(s, list[s])
    BY Zenon DEF IInv, RunnerInv
  <2> QED BY <2>1, <2>2, StagesAssumption, Zenon
<1> PICK row \in StageRow : row = list[s]
  BY <1>2, Zenon
<1>3. CASE CanUpdateStage(s, row)
  <2>1. UpdateStage(s, row, status) /\ runner' = [runner EXCEPT ![r].list[s] = stage'[s], ![r].next = s + 1]
    BY <1>3, Zenon DEF SaveDownstream
  <2>2. stage[s].machine # None => row.machine = stage[s].machine
    BY <1>2, <1>3, Zenon DEF CanUpdateStage, Copy
  <2>3. /\ stage' \in [Stages -> StageRow]
        /\ \A t \in Stages : t # s => stage'[t] = stage[t]
        /\ \A t \in Stages : Grows(t)
    BY <1>1, <1>2, <1>3, <2>1, <2>2, StageWritten, Zenon
  <2>4. Grow
    BY <2>3, Zenon DEF Grow
  <2> PICK saved \in StageRow : saved = stage'[s]
    BY <1>2, <2>3, Zenon
  <2> PICK after \in Lists : after = [list EXCEPT ![s] = saved]
    <3> PICK D \in SUBSET Stages : list \in [D -> StageRow]
      BY Zenon DEF Lists
    <3>1. [list EXCEPT ![s] = saved] \in [D -> StageRow]
      BY Zenon
    <3> QED BY <3>1, Zenon DEF Lists
  <2> PICK next \in Nat : next = s + 1
    BY <1>2
  <2> PICK new : new = [runner[r] EXCEPT !.list = after, !.next = next]
    BY Zenon
  <2>5. DOMAIN after = DOMAIN list /\ after[s] = saved /\ \A t \in DOMAIN list : t # s => after[t] = list[t]
    <3> PICK D \in SUBSET Stages : list \in [D -> StageRow]
      BY Zenon DEF Lists
    <3> QED BY Zenon
  <2>6. /\ new \in RunnerState /\ new.pc = runner[r].pc /\ new.stage = runner[r].stage
        /\ new.row = runner[r].row /\ new.list = after
    <3>1. runner[r] \in RunnerState
      BY <1>1, Zenon
    <3> QED BY ONLY <3>1, after \in Lists, next \in Nat,
                    new = [runner[r] EXCEPT !.list = after, !.next = next], Zenon DEF RunnerState
  <2>7. /\ runner' = [runner EXCEPT ![r] = new] /\ runner'[r] = new
        /\ \A q \in Runners : q # r => runner'[q] = runner[q]
    BY <1>1, <2>1, Zenon
  <2>8. Types'
    BY <2>3, <2>6, <2>7, Zenon DEF IInv, Types
  <2>9. RunnerInv(r)'
    <3>1. (handed[r] # None => Known(handed[r]))'
      BY Zenon DEF IInv, RunnerInv, Known
    <3>2. (runner[r].stage # None /\ Known(runner[r].stage) /\ Copy(runner[r].stage, runner[r].row))'
      <4> PICK o \in Stages : o = runner[r].stage
        BY <1>1, Zenon
      <4> PICK c \in StageRow : c = runner[r].row
        BY <1>1, Zenon DEF RunnerState
      <4>1. Copy(o, c)'
        BY <1>1, <2>3, CopyKept, Zenon
      <4> QED BY <1>1, <2>6, <2>7, <4>1, Zenon DEF Known
    <3>3. (\A t \in DOMAIN runner[r].list : Known(t) /\ Copy(t, runner[r].list[t]))'
      <4> SUFFICES ASSUME NEW t \in DOMAIN list PROVE (Known(t) /\ Copy(t, runner[r].list[t]))'
        BY <2>5, <2>6, <2>7
      <4>1. t \in Stages /\ list[t] \in StageRow /\ Known(t) /\ Copy(t, list[t])
        BY <1>1 DEF Lists, IInv, RunnerInv
      <4> PICK c \in StageRow : c = list[t]
        BY <4>1, Zenon
      <4>2. CASE t = s
        <5>1. Copy(s, saved)'
          BY DEF Copy, StageRow
        <5>2. runner'[r].list[t] = saved
          BY <2>5, <2>6, <2>7, <4>2, Zenon
        <5>3. Known(s)'
          BY <1>2, Zenon DEF Known
        <5> QED BY ONLY <4>2, <5>1, <5>2, <5>3, Zenon DEF Copy, Known
      <4>3. CASE t # s
        <5>1. Copy(t, c)'
          BY <1>1, <2>3, <4>1, CopyKept, Zenon
        <5> QED BY <2>5, <2>6, <2>7, <4>1, <4>3, <5>1 DEF Known
      <4> QED BY <4>2, <4>3, Zenon
    <3> QED BY <3>1, <3>2, <3>3, <2>6, <2>7, Zenon DEF RunnerInv
  <2>10. \A t \in Stages : ~Holds(r, t)'
    BY <2>6, <2>7, Zenon DEF Holds
  <2> QED BY <1>2, <2>3, <2>4, <2>7, <2>8, <2>9, <2>10, StagesKept, RunnerMoves, Zenon
<1>4. CASE ~CanUpdateStage(s, row)
  <2>1. runner' = [runner EXCEPT ![r].pc = resync, ![r].next = s] /\ stage' = stage
    BY <1>4, Zenon DEF SaveDownstream
  <2> PICK new : new = [runner[r] EXCEPT !.pc = resync, !.next = s]
    BY Zenon
  <2>2. /\ new \in RunnerState /\ new.pc = resync /\ new.stage = runner[r].stage
        /\ new.row = runner[r].row /\ new.list = list /\ new.next = s
    BY <1>1, <1>2, Zenon DEF RunnerState, Working
  <2>3. runner' = [runner EXCEPT ![r] = new] /\ runner'[r] = new
    BY <1>1, <2>1, Zenon
  <2>4. execution' \in [Executions -> ExecutionRow] /\ Grow
    BY <2>1, SameGrows, Zenon DEF IInv, Types
  <2>5. RunnerInv(r)'
    <3>1. /\ (handed[r] # None => Known(handed[r]))'
          /\ (\A t \in DOMAIN runner[r].list : Known(t) /\ Copy(t, runner[r].list[t]))'
      BY <2>1, <2>2, <2>3, HandedSame, ListSame, Zenon
    <3>2. (runner[r].stage # None /\ Known(runner[r].stage) /\ Copy(runner[r].stage, runner[r].row))'
      BY <1>1, <2>1, <2>2, <2>3, WorkSame, Zenon DEF Working
    <3> QED BY <2>2, <2>3, <3>1, <3>2, Zenon DEF RunnerInv, Working
  <2> QED BY <2>1, <2>2, <2>3, <2>4, <2>5, RunnerReads, Zenon
<1> QED BY <1>3, <1>4, Zenon

LEMMA CancelDownstreamInv ==
    ASSUME IInv, NEW r \in Runners, CancelDownstream(r)
    PROVE  IInv' /\ Grow
<1>1. /\ runner[r].pc = "cancelDownstream" /\ runner[r] \in RunnerState
      /\ runner \in [Runners -> RunnerState]
  BY Zenon DEF CancelDownstream, At, IInv, Types
<1>2. UNCHANGED <<execution, handed, signal, cancel>>
  BY Zenon DEF CancelDownstream, queueVars
<1>3. CASE ToSkip(r) = {}
  <2> PICK new : new = [runner[r] EXCEPT !.pc = "scheduleDownstream", !.next = 0]
    BY Zenon
  <2>1. /\ new \in RunnerState /\ new.pc = "scheduleDownstream" /\ new.stage = runner[r].stage
        /\ new.row = runner[r].row /\ new.list = runner[r].list
    BY <1>1, Zenon DEF RunnerState, Working
  <2>2. runner' = [runner EXCEPT ![r] = new] /\ runner'[r] = new /\ stage' = stage
    BY <1>1, <1>3, Zenon DEF CancelDownstream
  <2>3. execution' \in [Executions -> ExecutionRow] /\ Grow
    BY <1>2, <2>2, SameGrows, Zenon DEF IInv, Types
  <2>4. RunnerInv(r)'
    <3>1. /\ (handed[r] # None => Known(handed[r]))'
          /\ (\A s \in DOMAIN runner[r].list : Known(s) /\ Copy(s, runner[r].list[s]))'
      BY <1>2, <2>1, <2>2, HandedSame, ListSame, Zenon
    <3>2. (runner[r].stage # None /\ Known(runner[r].stage) /\ Copy(runner[r].stage, runner[r].row))'
      BY <1>1, <1>2, <2>1, <2>2, WorkSame, Zenon DEF Working
    <3> QED BY <2>1, <2>2, <3>1, <3>2, Zenon DEF RunnerInv
  <2> QED BY <1>2, <2>1, <2>2, <2>3, <2>4, RunnerReads, Zenon
<1>4. CASE ToSkip(r) # {}
  <2>1. PICK s \in First(ToSkip(r)) : SaveDownstream(r, s, "skipped", "resyncCanceled")
    BY <1>4, Zenon DEF CancelDownstream
  <2>2. s \in DOMAIN runner[r].list /\ "skipped" \in CIStatus
    BY Zenon DEF First, ToSkip, Waiting, CIStatus
  <2> QED BY <1>1, <1>2, <2>1, <2>2, SaveDownstreamInv, Zenon
<1> QED BY <1>3, <1>4, Zenon

LEMMA ScheduleDownstreamInv ==
    ASSUME IInv, NEW r \in Runners, ScheduleDownstream(r)
    PROVE  IInv' /\ Grow
<1>1. runner[r].pc = "scheduleDownstream" /\ UNCHANGED <<execution, handed, signal, cancel>>
  BY Zenon DEF ScheduleDownstream, At
<1>2. PICK s \in First(ToSchedule(r)) : SaveDownstream(r, s, "pending", "resyncScheduled")
  BY Zenon DEF ScheduleDownstream
<1>3. s \in DOMAIN runner[r].list /\ "pending" \in CIStatus
  BY Zenon DEF First, ToSchedule, Waiting, CIStatus
<1> QED BY <1>1, <1>2, <1>3, SaveDownstreamInv, Zenon

LEMMA ResyncInv ==
    ASSUME IInv, NEW r \in Runners, Resync(r)
    PROVE  IInv' /\ Grow
<1>1. /\ runner[r].pc \in {"resyncCanceled", "resyncScheduled"} /\ runner[r] \in RunnerState
      /\ runner \in [Runners -> RunnerState] /\ runner[r].list \in Lists
      /\ runner[r].next \in DOMAIN runner[r].list
  BY Zenon DEF Resync, IInv, Types, RunnerState, RunnerInv
<1> PICK list \in Lists : list = runner[r].list
  BY <1>1, Zenon
<1> PICK s \in DOMAIN list : s = runner[r].next
  BY <1>1, Zenon
<1>2. /\ s \in Stages /\ list[s] \in StageRow /\ Known(s) /\ Copy(s, list[s])
      /\ s \in Nat /\ stage[s] \in StageRow
  <2>1. s \in Stages /\ list[s] \in StageRow
    BY Zenon DEF Lists
  <2>2. Known(s) /\ Copy(s, list[s])
    BY Zenon DEF IInv, RunnerInv
  <2> QED BY <2>1, <2>2, StagesAssumption, Zenon DEF IInv, Types
<1> PICK row : row = [stage[s] EXCEPT !.version = list[s].version]
  BY Zenon
<1>3. row \in StageRow /\ Copy(s, row)
  BY <1>2, Zenon DEF StageRow, Copy
<1> PICK after \in Lists : after = [list EXCEPT ![s] = row]
  <2> PICK D \in SUBSET Stages : list \in [D -> StageRow]
    BY Zenon DEF Lists
  <2>1. [list EXCEPT ![s] = row] \in [D -> StageRow]
    BY <1>3, Zenon
  <2> QED BY <2>1, Zenon DEF Lists
<1>4. /\ DOMAIN after = DOMAIN list
      /\ \A t \in DOMAIN list : Known(t) /\ Copy(t, after[t])
  <2> PICK D \in SUBSET Stages : list \in [D -> StageRow]
    BY Zenon DEF Lists
  <2>1. \A t \in DOMAIN list : Known(t) /\ Copy(t, list[t])
    BY Zenon DEF IInv, RunnerInv
  <2> QED BY <1>3, <2>1, Zenon
<1> PICK pc \in {"cancelDownstream", "scheduleDownstream"} :
       pc = IF runner[r].pc = "resyncCanceled" THEN "cancelDownstream" ELSE "scheduleDownstream"
  BY Zenon
<1> PICK next \in Nat : next = s + 1
  <2>1. s \in Nat
    BY <1>2, Zenon
  <2> QED BY ONLY <2>1
<1> PICK new : new = [runner[r] EXCEPT !.pc = pc, !.list = after, !.next = next]
  BY Zenon
<1>5. /\ new \in RunnerState /\ new.pc = pc /\ new.stage = runner[r].stage
      /\ new.row = runner[r].row /\ new.list = after
  <2>1. runner[r] \in RunnerState
    BY <1>1, Zenon
  <2> QED BY ONLY <2>1, pc \in {"cancelDownstream", "scheduleDownstream"}, after \in Lists, next \in Nat,
                  new = [runner[r] EXCEPT !.pc = pc, !.list = after, !.next = next], Zenon DEF RunnerState, Working
<1>6. runner' = [runner EXCEPT ![r] = new] /\ runner'[r] = new
  <2>1. runner' = [runner EXCEPT ![r].pc = pc, ![r].list[s] = row, ![r].next = next]
    BY Zenon DEF Resync
  <2>2. runner \in [Runners -> RunnerState]
    BY <1>1, Zenon
  <2> QED BY ONLY <2>1, <2>2, r \in Runners, list = runner[r].list, after = [list EXCEPT ![s] = row],
                  new = [runner[r] EXCEPT !.pc = pc, !.list = after, !.next = next], Zenon DEF RunnerState
<1>7. UNCHANGED <<stage, handed, signal, cancel, execution>>
  BY Zenon DEF Resync, tableVars, queueVars
<1>8. execution' \in [Executions -> ExecutionRow] /\ Grow
  BY <1>7, SameGrows, Zenon DEF IInv, Types
<1>9. RunnerInv(r)'
  <2>1. ASSUME NEW t \in DOMAIN after PROVE (Known(t) /\ Copy(t, after[t]))'
    <3>1. Known(t) /\ Copy(t, after[t])
      BY <1>4, Zenon
    <3> QED BY <3>1, <1>7, Zenon DEF Known, Copy
  <2>2. (\A t \in DOMAIN runner[r].list : Known(t) /\ Copy(t, runner[r].list[t]))'
    <3>1. runner'[r].list = after
      BY <1>5, <1>6, Zenon
    <3> SUFFICES ASSUME NEW t \in DOMAIN after PROVE (Known(t) /\ Copy(t, runner[r].list[t]))'
      BY <3>1, Zenon
    <3> QED BY <3>1, <2>1, Zenon DEF Copy
  <2>3. /\ handed[r] # None => Known(handed[r])
        /\ runner[r].stage # None /\ Known(runner[r].stage) /\ Copy(runner[r].stage, runner[r].row)
    BY <1>1, Zenon DEF IInv, RunnerInv, Working
  <2>4. (/\ handed[r] # None => Known(handed[r])
         /\ runner[r].stage # None /\ Known(runner[r].stage) /\ Copy(runner[r].stage, runner[r].row))'
    <3>1. runner'[r].stage = runner[r].stage /\ runner'[r].row = runner[r].row
      BY <1>5, <1>6, Zenon
    <3>2. stage' = stage /\ handed' = handed /\ execution' = execution
      BY <1>7, Zenon
    <3> QED BY ONLY <2>3, <3>1, <3>2, Zenon DEF Known, Copy
  <2> QED BY <1>5, <1>6, <2>2, <2>4, Zenon DEF RunnerInv
<1> QED BY <1>5, <1>6, <1>7, <1>8, <1>9, RunnerReads, Zenon

\* An execution ends as a success or in the way of a stage that has failed.
LEMMA FinalStatuses ==
    ASSUME NEW list, NEW status \in FinalStatus(list)
    PROVE  \/ status = "success" /\ \A s \in DOMAIN list : ~IsFailed(list[s].status)
           \/ IsFailed(status) /\ \E s \in DOMAIN list : IsFailed(list[s].status)
<1> PICK bad : bad = {s \in DOMAIN list : IsFailed(list[s].status)}
  BY Zenon
<1>1. status \in IF bad = {} THEN {"success"} ELSE {list[s].status : s \in First(bad)}
  BY Zenon DEF FinalStatus
<1>2. CASE bad = {}
  BY <1>1, <1>2, Zenon
<1>3. CASE bad # {}
  BY <1>1, <1>3, Zenon DEF First
<1> QED BY <1>2, <1>3, Zenon

LEMMA CompleteInv ==
    ASSUME IInv, NEW r \in Runners, Complete(r)
    PROVE  IInv' /\ Grow
<1>1. /\ runner[r].pc = "scheduleDownstream" /\ runner[r] \in RunnerState
      /\ runner[r].stage \in Stages /\ runner \in [Runners -> RunnerState]
  BY Zenon DEF Complete, At, IInv, Types, RunnerState, RunnerInv, Working
<1> PICK e \in Executions : e = Exec(r)
  BY <1>1, StagesAssumption, Zenon DEF Exec
<1>2. FinalStatus(runner[r].list) \subseteq CIStatus \ {"none"}
  BY FinalStatuses, Zenon DEF IsFailed, CIStatus
<1>3. execution' \in [Executions -> ExecutionRow] /\ Grow
  <2>1. stage' = stage
    BY Zenon DEF Complete
  <2>2. CASE UNCHANGED execution
    BY <2>1, <2>2, SameGrows, Zenon DEF IInv, Types
  <2>3. CASE \E status \in FinalStatus(runner[r].list) : UpdateExecution(e, runner[r].exec, status)
    <3> PICK row \in ExecutionRow : row = runner[r].exec
      BY <1>1, Zenon DEF RunnerState
    <3>1. PICK status \in CIStatus \ {"none"} : UpdateExecution(e, row, status)
      BY <1>2, <2>3, Zenon
    <3> QED BY <2>1, <3>1, ExecutionWritten, Zenon DEF IInv
  <2> QED BY <2>2, <2>3, Zenon DEF Complete
<1>4. UNCHANGED <<stage, handed, signal, cancel>> /\ runner' = [runner EXCEPT ![r] = Idle]
  BY Zenon DEF Complete, queueVars, GoIdle
<1>5. Types'
  BY <1>3, <1>4, IdleIsTyped, Zenon DEF IInv, Types
<1>6. RunnerInv(r)' /\ \A s \in Stages : ~Holds(r, s)'
  <2>1. runner'[r] = Idle /\ DOMAIN Idle.list = {} /\ Idle.pc = "idle"
    BY <1>1, <1>4, Zenon DEF Idle, NoList
  <2>2. ASSUME NEW s \in Stages PROVE Known(s) => Known(s)'
    BY <2>2, <1>3, StagesAssumption, Zenon DEF Grow, Known
  <2>3. (handed[r] # None => Known(handed[r]))'
    BY <1>4, <2>2, Zenon DEF IInv, Types, RunnerInv
  <2> QED BY <2>1, <2>3, Zenon DEF RunnerInv, Holds, Working
<1>7. \A q \in Runners : q # r => runner'[q] = runner[q] /\ handed'[q] = handed[q]
  BY <1>1, <1>4, Zenon
<1> QED BY <1>3, <1>4, <1>5, <1>6, <1>7, StagesSame, RunnerMoves, Zenon

LEMMA RunnerStepInv ==
    ASSUME IInv, NEW r \in Runners, RunnerStep(r) \/ DetailsFails(r)
    PROVE  IInv' /\ Grow
<1>1. CASE DetailsFails(r)
  BY <1>1, DropInv, Zenon DEF DetailsFails, tableVars
<1>2. CASE RunnerStep(r)
  BY <1>2, RequestInv, AcceptFindInv, AcceptUpdateInv, SetupStageInv, SetupExecutionInv,
     TeardownFindInv, TeardownStageInv, TeardownListInv, CancelDownstreamInv,
     ScheduleDownstreamInv, ResyncInv, CompleteInv DEF RunnerStep
<1> QED BY <1>1, <1>2, Zenon

\* What remains to be shown of a step of a cancel.
LEMMA CancelMoves ==
    ASSUME IInv, Types', Grow, NEW e \in Executions, CancelInv(e)',
           \A s \in Stages : StageInv(s)',
           \A i \in Instances : \A s \in signal'[i] : Known(s)',
           \A f \in Executions : f # e => cancel'[f] = cancel[f],
           runner' = runner, handed' = handed
    PROVE  IInv'
<1>1. \A r \in Runners : RunnerInv(r)'
  BY RunnerKept, Zenon DEF IInv
<1>2. \A f \in Executions : CancelInv(f)'
  BY CancelKept, Zenon DEF IInv
<1>3. OneRunner'
  BY Zenon DEF IInv, OneRunner, Holds
<1> QED BY <1>1, <1>2, <1>3, Zenon DEF IInv

LEMMA CancelExecutionInv ==
    ASSUME IInv, NEW e \in Executions, CancelExecution(e)
    PROVE  IInv' /\ Grow
<1>1. UNCHANGED <<stage, handed, signal, runner>>
  BY Zenon DEF CancelExecution, queueVars
<1>2. execution' \in [Executions -> ExecutionRow] /\ Grow
  <2> PICK row \in ExecutionRow : row = execution[e]
    BY Zenon DEF IInv, Types
  <2>1. UpdateExecution(e, row, "killed") /\ "killed" \in CIStatus \ {"none"}
    BY Zenon DEF CancelExecution, CIStatus
  <2> QED BY <1>1, <2>1, ExecutionWritten, Zenon DEF IInv
<1>3. /\ cancel' \in [Executions -> CancelState]
      /\ cancel'[e].list = cancel[e].list
      /\ \A f \in Executions : f # e => cancel'[f] = cancel[f]
  BY Zenon DEF CancelExecution, IInv, Types, CancelState
<1>4. Types'
  BY <1>1, <1>2, <1>3, Zenon DEF IInv, Types
<1>5. CancelInv(e)'
  <2>1. \A s \in DOMAIN cancel[e].list : s \in Stages
    BY DEF IInv, Types, CancelState, Lists
  <2>2. ASSUME NEW s \in Stages PROVE Known(s) => Known(s)'
    BY <2>2, <1>2, StagesAssumption, Zenon DEF Grow, Known
  <2> QED BY <1>1, <1>3, <2>1, <2>2, Zenon DEF IInv, CancelInv, Copy
<1> QED BY <1>1, <1>2, <1>3, <1>4, <1>5, StagesSame, CancelMoves, Zenon

LEMMA CancelListInv ==
    ASSUME IInv, NEW e \in Executions, CancelList(e)
    PROVE  IInv' /\ Grow
<1>1. UNCHANGED <<execution, stage, handed, signal, runner>>
  BY Zenon DEF CancelList, queueVars, tableVars
<1> PICK S \in SUBSET Stages : S = {t \in StagesOf(e) : HasRow(t) /\ ~IsDone(stage[t].status)}
  BY Zenon DEF StagesOf
<1> PICK list : list = [s \in S |-> stage[s]]
  BY Zenon
<1>2. list \in Lists /\ \A s \in DOMAIN list : Known(s) /\ Copy(s, list[s])
  BY ListedRows, Zenon
<1>3. cancel' = [cancel EXCEPT ![e].pc = "stages", ![e].list = list]
  BY Zenon DEF CancelList
<1>4. /\ cancel' \in [Executions -> CancelState]
      /\ cancel'[e].list = list
      /\ \A f \in Executions : f # e => cancel'[f] = cancel[f]
  BY <1>2, <1>3, Zenon DEF IInv, Types, CancelState
<1>5. Grow
  BY <1>1, SameGrows, Zenon DEF IInv
<1>6. Types'
  BY <1>1, <1>4, Zenon DEF IInv, Types
<1>7. CancelInv(e)'
  BY <1>1, <1>2, <1>4, Zenon DEF CancelInv, Known, Copy
<1> QED BY <1>1, <1>4, <1>5, <1>6, <1>7, StagesSame, CancelMoves, Zenon

LEMMA CancelStageInv ==
    ASSUME IInv, NEW e \in Executions, CancelStage(e)
    PROVE  IInv' /\ Grow
<1>1. UNCHANGED <<execution, handed, signal, runner>>
  BY Zenon DEF CancelStage, queueVars
<1>2. cancel \in [Executions -> CancelState] /\ cancel[e].list \in Lists /\ Types
  BY Zenon DEF IInv, Types, CancelState
<1> PICK list \in Lists : list = cancel[e].list
  BY <1>2, Zenon
<1> PICK D \in SUBSET Stages : list \in [D -> StageRow]
  BY Zenon DEF Lists
<1>3. PICK s \in D :
      /\ IF CanUpdateStage(s, list[s])
         THEN UpdateStage(s, list[s], IF list[s].status = "running" THEN "killed" ELSE "skipped")
         ELSE UNCHANGED stage
      /\ cancel' = [cancel EXCEPT ![e].list = [t \in D \ {s} |-> list[t]]]
  <2>1. PICK s \in First(DOMAIN cancel[e].list) :
        /\ IF CanUpdateStage(s, cancel[e].list[s])
           THEN UpdateStage(s, cancel[e].list[s],
                            IF cancel[e].list[s].status = "running" THEN "killed" ELSE "skipped")
           ELSE UNCHANGED stage
        /\ cancel' = [cancel EXCEPT ![e].list =
                          [t \in DOMAIN cancel[e].list \ {s} |-> cancel[e].list[t]]]
    BY Zenon DEF CancelStage
  <2>2. s \in D
    BY Zenon DEF First
  <2>3. [t \in DOMAIN cancel[e].list \ {s} |-> cancel[e].list[t]] = [t \in D \ {s} |-> list[t]]
    BY Zenon
  <2> QED BY <2>1, <2>2, <2>3, Zenon
<1>4. \A t \in D : t \in Stages /\ Known(t) /\ Copy(t, list[t])
  BY Zenon DEF IInv, CancelInv
<1> PICK row \in StageRow : row = list[s]
  BY Zenon
<1>5. /\ stage' \in [Stages -> StageRow]
      /\ \A t \in Stages : t # s => stage'[t] = stage[t]
      /\ \A t \in Stages : Grows(t)
  <2>1. CASE CanUpdateStage(s, row)
    <3> PICK status \in CIStatus : status = IF row.status = "running" THEN "killed" ELSE "skipped"
      BY Zenon DEF CIStatus
    <3>1. UpdateStage(s, row, status)
      BY <1>3, <2>1, Zenon
    <3>2. stage[s].machine # None => row.machine = stage[s].machine
      BY <1>4, <2>1, Zenon DEF Copy, CanUpdateStage
    <3> QED BY <1>2, <2>1, <3>1, <3>2, StageWritten, Zenon
  <2>2. CASE ~CanUpdateStage(s, row)
    <3>1. stage' = stage
      BY <1>3, <2>2, Zenon
    <3>2. Grow
      BY <1>1, <1>2, <3>1, SameGrows, Zenon
    <3> QED BY <1>2, <3>1, <3>2, Zenon DEF Types, Grow
  <2> QED BY <2>1, <2>2, Zenon
<1>6. Grow
  BY <1>1, <1>5, Zenon DEF Grow
<1> PICK rest : rest = [t \in D \ {s} |-> list[t]]
  BY Zenon
<1>7. rest \in Lists /\ DOMAIN rest = D \ {s} /\ \A t \in DOMAIN rest : rest[t] = list[t]
  <2>1. rest \in [D \ {s} -> StageRow]
    BY Zenon
  <2> QED BY <2>1, Zenon DEF Lists
<1>8. cancel' = [cancel EXCEPT ![e].list = rest]
  BY <1>3, Zenon
<1>9. /\ cancel' \in [Executions -> CancelState]
      /\ cancel'[e].list = rest
      /\ \A f \in Executions : f # e => cancel'[f] = cancel[f]
  BY <1>2, <1>7, <1>8 DEF CancelState
<1>10. Types'
  BY <1>1, <1>5, <1>9, Zenon DEF IInv, Types
<1>11. CancelInv(e)'
  <2>1. ASSUME NEW t \in DOMAIN rest PROVE Known(t)' /\ Copy(t, list[t])'
    <3>1. t \in Stages /\ Known(t) /\ Copy(t, list[t]) /\ list[t] \in StageRow
      BY <1>4, <1>7, Zenon
    <3> QED BY <1>1, <1>2, <1>5, <3>1, CopyKept, Zenon DEF Known
  <2>2. ASSUME NEW t \in DOMAIN rest PROVE (Known(t) /\ Copy(t, cancel[e].list[t]))'
    <3>1. cancel'[e].list[t] = list[t]
      BY <1>7, <1>9, Zenon
    <3>2. Known(t)' /\ Copy(t, list[t])'
      BY <2>1, Zenon
    <3> QED BY ONLY <3>1, <3>2, Zenon DEF Copy
  <2> QED BY <1>9, <2>2, Zenon DEF CancelInv
<1> QED BY <1>1, <1>4, <1>5, <1>6, <1>9, <1>10, <1>11, StagesKept, CancelMoves, Zenon

LEMMA SignalStepInv ==
    ASSUME IInv, NEW i \in Instances, SignalStep(i)
    PROVE  IInv' /\ Grow
<1>1. UNCHANGED <<execution, stage, runner, cancel>>
  BY Zenon DEF SignalStep, tableVars
<1>2. Grow
  BY <1>1, SameGrows, Zenon DEF IInv
<1>3. /\ signal' \in [Instances -> SUBSET Stages]
      /\ \A j \in Instances : \A s \in signal'[j] : Known(s)
      /\ handed' \in [Runners -> Stages \cup {None}]
      /\ \A r \in Runners : handed'[r] # None => Known(handed'[r])
  <2>1. CASE SignalList(i)
    <3>1. Eligible \in SUBSET Stages /\ \A s \in Eligible : Known(s)
      <4>1. \A s \in Eligible : s \in Stages /\ stage[s].status # "none"
        BY Zenon DEF Eligible, ListIncomplete
      <4>2. \A s \in Stages : stage[s].status # "none" => Known(s)
        <5>1. \A s \in Stages : StageInv(s)
          BY Zenon DEF IInv
        <5> QED BY ONLY <5>1 DEF StageInv, NoRow
      <4> QED BY ONLY <4>1, <4>2, Zenon
    <3>2. signal' \in {signal, [signal EXCEPT ![i] = Eligible]} /\ handed' = handed
      BY <2>1, Zenon DEF SignalList
    <3> QED BY <3>1, <3>2, Zenon DEF IInv, Types, RunnerInv
  <2>2. CASE SignalHand(i)
    <3>1. signal' = [signal EXCEPT ![i] = {}]
      BY <2>2, Zenon DEF SignalHand
    <3>2. PICK g \in Assignments(signal[i], workers[i]) :
             handed' = [r \in Runners |->
                          IF r \in {q \in workers[i] : \E s \in DOMAIN g : g[s] = q}
                          THEN CHOOSE s \in DOMAIN g : g[s] = r ELSE handed[r]]
      BY <2>2, Zenon DEF SignalHand
    <3>3. DOMAIN g = signal[i]
      BY Zenon DEF Assignments
    <3>4. ASSUME NEW r \in Runners PROVE handed'[r] = handed[r] \/ handed'[r] \in signal[i]
      <4>1. CASE \E s \in DOMAIN g : g[s] = r
        BY <3>2, <3>3, <4>1, Zenon
      <4>2. CASE ~\E s \in DOMAIN g : g[s] = r
        BY <3>2, <4>2, Zenon
      <4> QED BY <4>1, <4>2, Zenon
    <3>5. signal[i] \in SUBSET Stages /\ \A s \in signal[i] : Known(s)
      BY Zenon DEF IInv, Types
    <3>6. handed' \in [Runners -> Stages \cup {None}]
      <4>1. \A r \in Runners : handed'[r] \in Stages \cup {None}
        BY <3>4, <3>5, Zenon DEF IInv, Types
      <4>2. handed' = [r \in Runners |-> handed'[r]]
        BY <3>2, Zenon
      <4> QED BY <4>1, <4>2, Zenon
    <3>7. \A r \in Runners : handed'[r] # None => Known(handed'[r])
      BY <3>4, <3>5, Zenon DEF IInv, RunnerInv
    <3> QED BY <3>1, <3>6, <3>7, Zenon DEF IInv, Types
  <2> QED BY <2>1, <2>2, Zenon DEF SignalStep
<1>4. Types'
  BY <1>1, <1>3, Zenon DEF IInv, Types
<1>5. (\A s \in Stages : StageInv(s))' /\ (\A j \in Instances : \A s \in signal[j] : Known(s))'
  BY <1>1, <1>3, Zenon DEF IInv, StageInv, Known
<1>6. \A r \in Runners : RunnerInv(r)'
  BY <1>1, <1>3, Zenon DEF IInv, RunnerInv, Known, Copy
<1>7. \A e \in Executions : CancelInv(e)'
  BY <1>1, Zenon DEF IInv, CancelInv, Known, Copy
<1>8. OneRunner'
  BY <1>1, Zenon DEF IInv, OneRunner, Holds
<1> QED BY <1>2, <1>4, <1>5, <1>6, <1>7, <1>8, Zenon DEF IInv

LEMMA TriggerInv ==
    ASSUME IInv, NEW e \in Executions, Trigger(e)
    PROVE  IInv' /\ Grow
<1>1. UNCHANGED <<handed, signal, runner, cancel>>
  BY Zenon DEF Trigger
<1>2. PICK c \in Configs[e] : CreateExecution(e, c)
  BY Zenon DEF Trigger
<1>3. ASSUME NEW s PROVE NewStage(c, s) \in StageRow /\ NewStage(c, s).machine = None
                         /\ NewStage(c, s).version = 0
  BY Zenon DEF NewStage, StageRow, CIStatus
<1>4. /\ execution' \in [Executions -> ExecutionRow]
      /\ execution'[e].status # "none"
      /\ \A f \in Executions : f # e => execution'[f] = execution[f]
  BY <1>2 DEF CreateExecution, IInv, Types, ExecutionRow, CIStatus
<1>5. /\ stage' \in [Stages -> StageRow]
      /\ \A s \in Stages : stage'[s].machine = stage[s].machine /\ stage'[s].version = stage[s].version
      /\ \A s \in Stages : ExecutionOf[s] # e => stage'[s] = stage[s]
  <2>1. CASE stage' = stage
    BY <2>1, Zenon DEF IInv, Types
  <2>2. CASE stage' = [s \in Stages |-> IF s \in StagesOf(e) THEN NewStage(c, s) ELSE stage[s]]
    <3>1. \A s \in StagesOf(e) : stage[s].machine = None /\ stage[s].version = 0
      BY <1>2 DEF CreateExecution, StagesOf, IInv, StageInv, Known, NoRow
    <3> QED BY <1>3, <2>2, <3>1, Zenon DEF StagesOf, IInv, Types
  <2> QED BY <1>2, <2>1, <2>2, Zenon DEF CreateExecution
<1>6. Grow
  <2>1. \A s \in Stages : Grows(s)
    <3>1. \A s \in Stages : stage[s].version \in Nat
      BY Zenon DEF IInv, Types, StageRow
    <3>2. \A s \in Stages : stage'[s].machine = stage[s].machine /\ stage'[s].version = stage[s].version
      BY <1>5, Zenon
    <3> QED BY ONLY <3>1, <3>2 DEF Grows
  <2> QED BY <1>4, <2>1, Zenon DEF Grow
<1>7. Types'
  BY <1>1, <1>4, <1>5, Zenon DEF IInv, Types
<1>8. ASSUME NEW s \in Stages PROVE Known(s) => Known(s)'
  BY <1>6, <1>8, StagesAssumption, Zenon DEF Grow, Known
<1>9. \A s \in Stages : StageInv(s)'
  BY <1>4, <1>5, StagesAssumption, Zenon DEF IInv, StageInv, Known
<1>10. (\A j \in Instances : \A s \in signal[j] : Known(s))'
  BY <1>1, <1>8, Zenon DEF IInv, Types
<1>11. \A r \in Runners : RunnerInv(r)'
  BY <1>1, <1>6, <1>7, RunnerKept, Zenon DEF IInv
<1>12. \A f \in Executions : CancelInv(f)'
  BY <1>1, <1>6, <1>7, CancelKept, Zenon DEF IInv
<1>13. OneRunner'
  BY <1>1, Zenon DEF IInv, OneRunner, Holds
<1> QED BY <1>6, <1>7, <1>9, <1>10, <1>11, <1>12, <1>13, Zenon DEF IInv

-----------------------------------------------------------------------------
LEMMA InitInv == Init => IInv
<1> SUFFICES ASSUME Init PROVE IInv
  BY Zenon
<1>1. NoList \in Lists /\ DOMAIN NoList = {}
  <2>1. NoList \in [{} -> StageRow]
    BY Zenon DEF NoList
  <2> QED BY <2>1, Zenon DEF Lists
<1>2. NotCanceled \in CancelState /\ NotCanceled.list = NoList
  BY <1>1, Zenon DEF NotCanceled, CancelState
<1>3. Idle \in RunnerState /\ Idle.list = NoList /\ Idle.pc = "idle"
  BY IdleIsTyped, Zenon DEF Idle
<1>4. Types
  <2>1. execution \in [Executions -> ExecutionRow]
    BY Zenon DEF Init, TablesInit, ExecutionRow, CIStatus
  <2>2. stage \in [Stages -> StageRow]
    BY Zenon DEF Init, TablesInit, StageRow, CIStatus
  <2>3. handed \in [Runners -> Stages \cup {None}] /\ signal \in [Instances -> SUBSET Stages]
    BY Zenon DEF Init, QueueInit
  <2>4. runner \in [Runners -> RunnerState] /\ cancel \in [Executions -> CancelState]
    BY <1>2, <1>3, Zenon DEF Init
  <2> QED BY <2>1, <2>2, <2>3, <2>4, Zenon DEF Types
<1>5. \A s \in Stages : StageInv(s)
  BY Zenon DEF StageInv, Init, TablesInit, NoRow
<1>6. \A i \in Instances : \A s \in signal[i] : Known(s)
  BY Zenon DEF Init, QueueInit
<1>7. \A r \in Runners : RunnerInv(r)
  BY <1>1, <1>3, Zenon DEF Init, QueueInit, RunnerInv, Working
<1>8. \A e \in Executions : CancelInv(e)
  BY <1>1, <1>2, Zenon DEF Init, CancelInv
<1>9. OneRunner
  BY <1>3, Zenon DEF OneRunner, Holds, Init
<1> QED BY <1>4, <1>5, <1>6, <1>7, <1>8, <1>9, Zenon DEF IInv

\* Nothing of this is about the tokens.
LEMMA SameInv == ASSUME IInv, UNCHANGED <<execution, stage, handed, signal, runner, cancel>> PROVE IInv'
<1>1. Types' /\ (\A s \in Stages : StageInv(s))' /\ (\A i \in Instances : \A s \in signal[i] : Known(s))'
  BY Zenon DEF IInv, Types, StageInv, Known
<1>2. (\A r \in Runners : RunnerInv(r))'
  BY Zenon DEF IInv, RunnerInv, Known, Copy
<1>3. (\A e \in Executions : CancelInv(e))' /\ OneRunner'
  BY Zenon DEF IInv, CancelInv, OneRunner, Holds, Known, Copy
<1> QED BY <1>1, <1>2, <1>3, Zenon DEF IInv

LEMMA FailedSignalInv ==
    ASSUME IInv, NEW i \in Instances, FailedSignal(i)
    PROVE  IInv' /\ Grow
<1>1. UNCHANGED <<execution, stage, handed, signal, runner, cancel>>
  BY Zenon DEF FailedSignal, SignalFails, tableVars
<1> QED BY <1>1, SameInv, SameGrows, Zenon DEF IInv

LEMMA NextInv == IInv /\ [Next]_vars => IInv' /\ [Grow]_vars
<1> SUFFICES ASSUME IInv, [Next]_vars PROVE IInv' /\ [Grow]_vars
  BY Zenon
<1>1. CASE Next
  BY <1>1, TriggerInv, CancelExecutionInv, CancelListInv, CancelStageInv, RunnerStepInv,
     SignalStepInv, FailedSignalInv, Zenon DEF Next, CancelStep
<1>2. CASE UNCHANGED vars
  <2>1. UNCHANGED <<execution, stage, handed, signal, runner, cancel>>
    BY <1>2, Zenon DEF vars, tableVars, queueVars
  <2> QED BY <1>2, <2>1, SameInv, Zenon
<1> QED BY <1>1, <1>2, Zenon

\* A stage is worked on by one runner at a time: AcceptUpdate succeeds for one of the
\* runners that were handed a stage, since the first one moves the version of its row.
THEOREM OneRunnerHolds == Spec => []OneRunner
<1>1. IInv => OneRunner
  BY Zenon DEF IInv
<1>2. Spec => []IInv
  <2>1. IInv /\ [Next]_vars => IInv'
    BY NextInv, Zenon
  <2> QED BY InitInv, <2>1, PTL DEF Spec
<1> QED BY <1>1, <1>2, PTL

\* No update of a stage, by a runner, a sibling's teardown or a cancel, takes away the
\* machine that has accepted it.
THEOREM StageIsAcceptedOnce == Spec => AcceptedOnce
<1>1. [Grow]_vars => [\A s \in Stages : stage[s].machine # None
                                       => stage'[s].machine = stage[s].machine]_vars
  BY Zenon DEF Grow, Grows
<1>2. IInv /\ [Next]_vars => IInv'
  BY NextInv, Zenon
<1>3. IInv /\ [Next]_vars => [Grow]_vars
  BY NextInv, Zenon
<1> QED BY InitInv, <1>1, <1>2, <1>3, PTL DEF Spec, AcceptedOnce

-----------------------------------------------------------------------------
(* Types of all variables. A runner that is given a stage has an empty     *)
(* list: without that its list could be one of another execution.          *)

RunnerTypes(r) ==
    /\ runner[r].pc \in {"idle", "waiting"} => DOMAIN runner[r].list = {}
    /\ \A s \in DOMAIN runner[r].list : ExecutionOf[s] = Exec(r)

TInv ==
    /\ DOMAIN config = Executions
    /\ \A e \in Executions : config[e] # None => DOMAIN config[e].dependencies = StagesOf(e)
    /\ QueueTypeOK
    /\ \A r \in Runners : RunnerTypes(r)
    /\ \A e \in Executions : DOMAIN cancel[e].list \subseteq StagesOf(e)

\* A runner goes on to the next request.
LEMMA IdleTypes == ASSUME IInv, NEW r \in Runners, GoIdle(r) PROVE RunnerTypes(r)'
<1>1. runner'[r] = Idle
  BY Zenon DEF GoIdle, IInv, Types
<1>2. DOMAIN Idle.list = {}
  BY Zenon DEF Idle, NoList
<1> QED BY <1>1, <1>2, Zenon DEF RunnerTypes

\* A runner keeps its stage, and the stages of its list.
LEMMA SameTypes ==
    ASSUME NEW r \in Runners, RunnerTypes(r), runner'[r].stage = runner[r].stage,
           DOMAIN runner'[r].list = DOMAIN runner[r].list,
           runner'[r].pc \in {"idle", "waiting"} => runner[r].pc \in {"idle", "waiting"}
    PROVE  RunnerTypes(r)'
BY Zenon DEF RunnerTypes, Exec

LEMMA SaveStageTypes ==
    ASSUME IInv, NEW r \in Runners, RunnerTypes(r), NEW row, NEW status,
           NEW pc \in {"accepted", "updateExecution", "list"}, SaveStage(r, row, status, pc)
    PROVE  RunnerTypes(r)'
<1> PICK new : new = stage'[runner[r].stage]
  BY Zenon
<1>1. runner' = [runner EXCEPT ![r].pc = pc, ![r].row = new]
  BY Zenon DEF SaveStage
<1>2. runner'[r].pc = pc /\ runner'[r].stage = runner[r].stage /\ runner'[r].list = runner[r].list
  BY <1>1, Zenon DEF IInv, Types, RunnerState
<1> QED BY <1>2, SameTypes, Zenon

\* The copy of one stage of the list is replaced.
LEMMA ListedTypes ==
    ASSUME IInv, NEW r \in Runners, RunnerTypes(r), NEW s, NEW row, NEW next,
           NEW pc \in Working, runner' = [runner EXCEPT ![r].pc = pc, ![r].list[s] = row, ![r].next = next]
    PROVE  RunnerTypes(r)'
<1> PICK me : me = [runner[r] EXCEPT !.pc = pc, !.list[s] = row, !.next = next]
  BY Zenon
<1>1. me = runner'[r]
  BY Zenon DEF IInv, Types
<1>2. me.pc = pc /\ me.stage = runner[r].stage /\ me.list = [runner[r].list EXCEPT ![s] = row]
  BY Zenon DEF IInv, Types, RunnerState
<1>3. DOMAIN me.list = DOMAIN runner[r].list
  BY <1>2, Zenon
<1>4. pc \notin {"idle", "waiting"}
  BY Zenon DEF Working
<1> QED BY <1>1, <1>2, <1>3, <1>4, SameTypes, Zenon

LEMMA SaveDownstreamTypes ==
    ASSUME IInv, NEW r \in Runners, RunnerTypes(r), runner[r].pc \in Working, NEW s, NEW status,
           NEW resync \in {"resyncCanceled", "resyncScheduled"}, SaveDownstream(r, s, status, resync)
    PROVE  RunnerTypes(r)'
<1>1. CASE runner' = [runner EXCEPT ![r].list[s] = stage'[s], ![r].next = s + 1]
  <2> PICK row : row = stage'[s]
    BY Zenon
  <2> PICK next : next = s + 1
    BY Zenon
  <2> PICK pc \in Working : pc = runner[r].pc
    BY Zenon
  <2> PICK me : me = [runner[r] EXCEPT !.list[s] = row, !.next = next]
    BY Zenon
  <2>1. me = runner'[r]
    BY <1>1, Zenon DEF IInv, Types
  <2>2. me.pc = pc /\ me.stage = runner[r].stage /\ me.list = [runner[r].list EXCEPT ![s] = row]
    BY Zenon DEF IInv, Types, RunnerState
  <2>3. DOMAIN me.list = DOMAIN runner[r].list
    BY <2>2, Zenon
  <2> QED BY <2>1, <2>2, <2>3, SameTypes, Zenon
<1>2. CASE runner' = [runner EXCEPT ![r].pc = resync, ![r].next = s]
  <2>1. runner'[r].pc = resync /\ runner'[r].stage = runner[r].stage /\ runner'[r].list = runner[r].list
    BY <1>2, Zenon DEF IInv, Types, RunnerState
  <2> QED BY <2>1, SameTypes, Zenon
<1> QED BY <1>1, <1>2, Zenon DEF SaveDownstream

LEMMA RunnerStepTypes ==
    ASSUME IInv, NEW r \in Runners, RunnerTypes(r), RunnerStep(r) \/ DetailsFails(r)
    PROVE  RunnerTypes(r)'
<1>t. runner \in [Runners -> RunnerState] /\ runner[r] \in RunnerState
  BY Zenon DEF IInv, Types
<1>1. CASE RequestStage(r)
  <2>1. runner'[r].pc = "waiting" /\ runner'[r].stage = runner[r].stage /\ runner'[r].list = runner[r].list
    BY <1>1, <1>t, Zenon DEF RequestStage, RunnerState
  <2>2. runner[r].pc = "idle"
    BY <1>1, Zenon DEF RequestStage, At
  <2> QED BY <2>1, <2>2, SameTypes, Zenon
<1>2. CASE AcceptFind(r)
  <2>1. CASE GoIdle(r)
    BY <2>1, IdleTypes, Zenon
  <2>2. CASE runner' = [runner EXCEPT ![r].pc = "accept", ![r].stage = handed[r], ![r].row = stage[handed[r]]]
    <3>1. DOMAIN runner[r].list = {}
      BY <1>2, Zenon DEF AcceptFind, At, RunnerTypes
    <3>2. runner'[r].list = runner[r].list
      BY <1>t, <2>2, Zenon DEF RunnerState
    <3> QED BY <3>1, <3>2, Zenon DEF RunnerTypes
  <2> QED BY <1>2, <2>1, <2>2, Zenon DEF AcceptFind
<1>3. CASE AcceptUpdate(r)
  BY <1>3, SaveStageTypes, IdleTypes, Zenon DEF AcceptUpdate
<1>4. CASE SetupStage(r)
  BY <1>4, SaveStageTypes, IdleTypes, Zenon DEF SetupStage
<1>5. CASE TeardownStage(r)
  BY <1>5, SaveStageTypes, IdleTypes, Zenon DEF TeardownStage
<1>6. CASE SetupExecution(r)
  <2>1. runner'[r].pc = "running" /\ runner'[r].stage = runner[r].stage /\ runner'[r].list = runner[r].list
    BY <1>6, <1>t, Zenon DEF SetupExecution, RunnerState
  <2> QED BY <2>1, SameTypes, Zenon
<1>7. CASE TeardownFind(r)
  <2>1. PICK outcome : runner' = [runner EXCEPT ![r].pc = "teardown", ![r].exec = execution[Exec(r)],
                                               ![r].row.status = outcome]
    BY <1>7, Zenon DEF TeardownFind
  <2>2. runner'[r].pc = "teardown" /\ runner'[r].stage = runner[r].stage /\ runner'[r].list = runner[r].list
    BY <1>t, <2>1, Zenon DEF RunnerState
  <2> QED BY <2>2, SameTypes, Zenon
<1>8. CASE TeardownList(r)
  <2> PICK list : list = Rows(Exec(r))
    BY Zenon
  <2> PICK failed : failed = (\E s \in DOMAIN list : IsFailed(list[s].status))
    BY Zenon
  <2> PICK me : me = [runner[r] EXCEPT !.pc = "cancelDownstream", !.list = list, !.failed = failed]
    BY Zenon
  <2>1. me = runner'[r]
    BY <1>8, <1>t, Zenon DEF TeardownList
  <2>2. me.pc = "cancelDownstream" /\ me.list = list /\ me.stage = runner[r].stage
    BY <1>t, Zenon DEF RunnerState
  <2>3. \A s \in DOMAIN list : ExecutionOf[s] = Exec(r)
    BY Zenon DEF Rows, StagesOf
  <2> QED BY <2>1, <2>2, <2>3, Zenon DEF RunnerTypes, Exec
<1>9. CASE CancelDownstream(r)
  <2>1. CASE runner' = [runner EXCEPT ![r].pc = "scheduleDownstream", ![r].next = 0]
    <3>1. /\ runner'[r].pc = "scheduleDownstream" /\ runner'[r].stage = runner[r].stage
          /\ runner'[r].list = runner[r].list
      BY <1>t, <2>1, Zenon DEF RunnerState
    <3> QED BY <3>1, SameTypes, Zenon
  <2>2. CASE \E s \in First(ToSkip(r)) : SaveDownstream(r, s, "skipped", "resyncCanceled")
    BY <1>9, <2>2, SaveDownstreamTypes, Zenon DEF CancelDownstream, At, Working
  <2> QED BY <1>9, <2>1, <2>2, Zenon DEF CancelDownstream
<1>10. CASE ScheduleDownstream(r)
  <2>1. runner[r].pc \in Working
    BY <1>10, Zenon DEF ScheduleDownstream, At, Working
  <2>2. PICK s : SaveDownstream(r, s, "pending", "resyncScheduled")
    BY <1>10, Zenon DEF ScheduleDownstream
  <2> QED BY <2>1, <2>2, SaveDownstreamTypes, Zenon
<1>11. CASE Resync(r)
  <2> PICK s : s = runner[r].next
    BY Zenon
  <2> PICK row : row = [stage[s] EXCEPT !.version = runner[r].list[s].version]
    BY Zenon
  <2> PICK next : next = s + 1
    BY Zenon
  <2> PICK pc \in Working : pc = IF runner[r].pc = "resyncCanceled" THEN "cancelDownstream" ELSE "scheduleDownstream"
    BY Zenon DEF Working
  <2>1. runner' = [runner EXCEPT ![r].pc = pc, ![r].list[s] = row, ![r].next = next]
    BY <1>11, Zenon DEF Resync
  <2> QED BY <2>1, ListedTypes, Zenon
<1>12. CASE Complete(r) \/ DetailsFails(r)
  BY <1>12, IdleTypes, Zenon DEF Complete, DetailsFails
<1> QED BY <1>1, <1>2, <1>3, <1>4, <1>5, <1>6, <1>7, <1>8, <1>9, <1>10, <1>11, <1>12, Zenon DEF RunnerStep

\* What remains to be shown of a step of the queue.
LEMMA RunnerQueueTypes ==
    ASSUME IInv, QueueTypeOK, IInv', NEW r \in Runners, RunnerStep(r) \/ DetailsFails(r)
    PROVE  QueueTypeOK'
<1>1. signal' \in [Instances -> SUBSET Stages] /\ handed' \in [Runners -> Stages \cup {None}]
  BY Zenon DEF IInv, Types
<1>2. InstanceOf[r] \in Instances
  BY QueueAssumption, Zenon
<1>3. globMx' = globMx /\ missed' = missed
  BY Zenon DEF RunnerStep, DetailsFails, RequestStage, Request, AcceptFind, AcceptUpdate, SetupStage, SetupExecution,
     TeardownFind, TeardownStage, TeardownList, CancelDownstream, ScheduleDownstream, Resync, Complete, queueVars
<1>4. CASE RequestStage(r)
  <2>1. ready' \in [Instances -> BOOLEAN]
    BY <1>2, <1>4, Zenon DEF RequestStage, Request, QueueTypeOK
  <2>2. workers' \in [Instances -> SUBSET Runners]
    BY <1>2, <1>4 DEF RequestStage, Request, QueueTypeOK
  <2> QED BY <1>1, <1>3, <2>1, <2>2, Zenon DEF QueueTypeOK
<1>5. CASE ScheduleDownstream(r)
  <2>1. ready' \in [Instances -> BOOLEAN]
    BY <1>2, <1>5, Zenon DEF ScheduleDownstream, Schedule, QueueTypeOK
  <2>2. workers' = workers
    BY <1>5, Zenon DEF ScheduleDownstream
  <2> QED BY <1>1, <1>3, <2>1, <2>2, Zenon DEF QueueTypeOK
<1>6. CASE ~RequestStage(r) /\ ~ScheduleDownstream(r)
  <2>1. ready' = ready /\ workers' = workers
    BY <1>6, Zenon DEF RunnerStep, DetailsFails, AcceptFind, AcceptUpdate, SetupStage, SetupExecution,
       TeardownFind, TeardownStage, TeardownList, CancelDownstream, Resync, Complete, queueVars
  <2> QED BY <1>1, <1>3, <2>1, Zenon DEF QueueTypeOK
<1> QED BY <1>4, <1>5, <1>6, Zenon

LEMMA RunnerTypesInv ==
    ASSUME IInv, TInv, IInv', NEW r \in Runners, RunnerStep(r) \/ DetailsFails(r)
    PROVE  TInv'
<1>1. config' = config /\ cancel' = cancel
  BY Zenon DEF RunnerStep, DetailsFails, RequestStage, Request, AcceptFind, AcceptUpdate, SetupStage, SetupExecution,
     TeardownFind, TeardownStage, TeardownList, CancelDownstream, ScheduleDownstream, Resync, Complete, tableVars
<1>2. \A q \in Runners \ {r} : runner'[q] = runner[q]
  BY Zenon DEF RunnerStep, DetailsFails, RequestStage, AcceptFind, AcceptUpdate, SetupStage, SetupExecution,
     TeardownFind, TeardownStage, TeardownList, CancelDownstream, ScheduleDownstream, Resync, Complete, GoIdle,
     SaveStage, SaveDownstream, IInv, Types
<1>3. QueueTypeOK'
  BY RunnerQueueTypes, Zenon DEF TInv
<1>4. \A q \in Runners : RunnerTypes(q)'
  <2>1. RunnerTypes(r)'
    BY RunnerStepTypes, Zenon DEF TInv
  <2>2. ASSUME NEW q \in Runners, q # r PROVE RunnerTypes(q)'
    BY <1>2, <2>2, Zenon DEF TInv, RunnerTypes, Exec
  <2> QED BY <2>1, <2>2, Zenon
<1> QED BY <1>1, <1>3, <1>4, Zenon DEF TInv

LEMMA SameRunnersTypes ==
    ASSUME TInv, runner' = runner
    PROVE  \A r \in Runners : RunnerTypes(r)'
BY Zenon DEF TInv, RunnerTypes, Exec

LEMMA CancelTypesInv ==
    ASSUME IInv, TInv, NEW e \in Executions, CancelStep(e)
    PROVE  TInv'
<1>1. config' = config /\ runner' = runner /\ QueueTypeOK'
  BY Zenon DEF CancelStep, CancelExecution, CancelList, CancelStage, queueVars, tableVars, TInv, QueueTypeOK
<1>2. cancel \in [Executions -> CancelState]
  BY Zenon DEF IInv, Types
<1>3. \A f \in Executions \ {e} : cancel'[f] = cancel[f]
  BY <1>2, Zenon DEF CancelStep, CancelExecution, CancelList, CancelStage
<1>4. DOMAIN cancel'[e].list \subseteq StagesOf(e)
  <2>1. CASE CancelExecution(e)
    BY <1>2, <2>1, Zenon DEF CancelExecution, CancelState, TInv
  <2>2. CASE CancelList(e)
    <3> PICK D : D = {t \in StagesOf(e) : HasRow(t) /\ ~IsDone(stage[t].status)}
      BY Zenon
    <3> PICK list : list = [s \in D |-> stage[s]]
      BY Zenon
    <3>1. cancel' = [cancel EXCEPT ![e].pc = "stages", ![e].list = list]
      BY <2>2, Zenon DEF CancelList
    <3>2. cancel'[e].list = list
      BY <1>2, <3>1, Zenon DEF CancelState
    <3> QED BY <3>2, Zenon
  <2>3. CASE CancelStage(e)
    <3>1. PICK s : cancel' = [cancel EXCEPT ![e].list = [t \in DOMAIN cancel[e].list \ {s} |-> cancel[e].list[t]]]
      BY <2>3, Zenon DEF CancelStage
    <3>2. cancel'[e].list = [t \in DOMAIN cancel[e].list \ {s} |-> cancel[e].list[t]]
      BY <1>2, <3>1, Zenon DEF CancelState
    <3>3. DOMAIN cancel'[e].list \subseteq DOMAIN cancel[e].list
      BY <3>2, Zenon
    <3> QED BY <3>3, Zenon DEF TInv
  <2> QED BY <2>1, <2>2, <2>3, Zenon DEF CancelStep
<1>5. \A f \in Executions : DOMAIN cancel'[f].list \subseteq StagesOf(f)
  BY <1>3, <1>4, Zenon DEF TInv
<1> QED BY <1>1, <1>5, SameRunnersTypes, Zenon DEF TInv

LEMMA SignalTypesInv ==
    ASSUME IInv, TInv, IInv', NEW i \in Instances, SignalStep(i)
    PROVE  TInv'
<1>1. config' = config /\ runner' = runner /\ cancel' = cancel
  BY Zenon DEF SignalStep, tableVars
<1>2. signal' \in [Instances -> SUBSET Stages] /\ handed' \in [Runners -> Stages \cup {None}]
  BY Zenon DEF IInv, Types
<1>3. ready' \in [Instances -> BOOLEAN]
  BY Zenon DEF SignalStep, SignalList, SignalHand, Wake, TInv, QueueTypeOK
<1>4. globMx' \in Instances \cup {None} /\ missed' \in [Instances -> BOOLEAN]
  BY Zenon DEF SignalStep, SignalList, SignalHand, TInv, QueueTypeOK
<1>5. workers' \in [Instances -> SUBSET Runners]
  <2>1. CASE workers' = workers
    BY <2>1, Zenon DEF TInv, QueueTypeOK
  <2>2. CASE \E taken : workers' = [workers EXCEPT ![i] = @ \ taken]
    BY <2>2 DEF TInv, QueueTypeOK
  <2> QED BY <2>1, <2>2, Zenon DEF SignalStep, SignalList, SignalHand
<1>6. QueueTypeOK'
  BY <1>2, <1>3, <1>4, <1>5, Zenon DEF QueueTypeOK
<1> QED BY <1>1, <1>6, SameRunnersTypes, Zenon DEF TInv

LEMMA FailedSignalTypesInv ==
    ASSUME TInv, NEW i \in Instances, FailedSignal(i)
    PROVE  TInv'
<1>1. config' = config /\ runner' = runner /\ cancel' = cancel
  BY Zenon DEF FailedSignal, tableVars
<1>2. QueueTypeOK'
  BY Zenon DEF FailedSignal, SignalFails, TInv, QueueTypeOK
<1> QED BY <1>1, <1>2, SameRunnersTypes, Zenon DEF TInv

\* The dependencies of a configuration are those of all stages of the execution.
LEMMA DependenciesOfAll == ASSUME NEW c PROVE DOMAIN Dependencies(c) = DOMAIN c.dependsOn
BY Zenon DEF Dependencies

LEMMA TriggerTypesInv ==
    ASSUME IInv, TInv, IInv', NEW e \in Executions, Trigger(e)
    PROVE  TInv'
<1>1. /\ runner' = runner /\ cancel' = cancel /\ workers' = workers
      /\ globMx' = globMx /\ signal' = signal /\ handed' = handed /\ missed' = missed
  BY Zenon DEF Trigger
<1>2. ready' \in [Instances -> BOOLEAN]
  BY Zenon DEF Trigger, Schedule, TInv, QueueTypeOK
<1>3. QueueTypeOK'
  BY <1>1, <1>2, Zenon DEF TInv, QueueTypeOK
<1>4. PICK c \in Configs[e] : CreateExecution(e, c)
  BY Zenon DEF Trigger
<1>5. DOMAIN Dependencies(c) = StagesOf(e)
  BY ConfigsAssumption, DependenciesOfAll, Zenon
<1>6. PICK new : config' = [config EXCEPT ![e] = new] /\ DOMAIN new.dependencies = StagesOf(e)
  <2>1. ASSUME NEW deps, DOMAIN deps = StagesOf(e),
               config' = [config EXCEPT ![e] = [given |-> c, dependencies |-> deps]]
        PROVE  \E new : config' = [config EXCEPT ![e] = new] /\ DOMAIN new.dependencies = StagesOf(e)
    <3>1. [given |-> c, dependencies |-> deps].dependencies = deps
      BY Zenon
    <3> QED BY ONLY <2>1, <3>1, Zenon
  <2>2. CASE config' = [config EXCEPT ![e] = [given |-> c, dependencies |-> Dependencies(c)]]
    BY <1>5, <2>1, <2>2, Zenon
  <2>3. CASE config' = [config EXCEPT ![e] = [given |-> c, dependencies |-> [s \in StagesOf(e) |-> {}]]]
    <3>1. DOMAIN [s \in StagesOf(e) |-> {}] = StagesOf(e)
      BY Zenon
    <3> QED BY <2>1, <2>3, <3>1, Zenon
  <2> QED BY <1>4, <2>2, <2>3, Zenon DEF CreateExecution
<1>7. DOMAIN config' = Executions /\ config'[e] = new /\ \A f \in Executions \ {e} : config'[f] = config[f]
  BY <1>6, Zenon DEF TInv
<1>8. \A f \in Executions : config'[f] # None => DOMAIN config'[f].dependencies = StagesOf(f)
  BY <1>6, <1>7, Zenon DEF TInv
<1> QED BY <1>1, <1>3, <1>7, <1>8, SameRunnersTypes, Zenon DEF TInv

LEMMA InitTypes == Init => TInv
<1> SUFFICES ASSUME Init PROVE TInv
  OBVIOUS
<1>1. DOMAIN config = Executions /\ \A e \in Executions : config[e] = None
  BY Zenon DEF Init, TablesInit
<1>2. QueueTypeOK
  BY Zenon DEF Init, QueueInit, QueueTypeOK
<1>3. DOMAIN NoList = {}
  BY Zenon DEF NoList
<1>4. \A r \in Runners : DOMAIN runner[r].list = {}
  BY <1>3, Zenon DEF Init, Idle
<1>5. \A e \in Executions : DOMAIN cancel[e].list = {}
  BY <1>3, Zenon DEF Init, NotCanceled
<1> QED BY <1>1, <1>2, <1>4, <1>5, Zenon DEF TInv, RunnerTypes

LEMMA NextTypes == IInv /\ TInv /\ IInv' /\ [Next]_vars => TInv'
<1> SUFFICES ASSUME IInv, TInv, IInv', [Next]_vars PROVE TInv'
  OBVIOUS
<1>1. CASE UNCHANGED vars
  <2>1. /\ config' = config /\ runner' = runner /\ cancel' = cancel /\ ready' = ready /\ workers' = workers
        /\ signal' = signal /\ globMx' = globMx /\ handed' = handed /\ missed' = missed
    BY <1>1, Zenon DEF vars, tableVars, queueVars
  <2> QED BY <2>1, SameRunnersTypes, Zenon DEF TInv, QueueTypeOK
<1>2. CASE Next
  BY <1>2, RunnerTypesInv, CancelTypesInv, SignalTypesInv, FailedSignalTypesInv, TriggerTypesInv, Zenon DEF Next
<1> QED BY <1>1, <1>2, Zenon

\* Type correctness of the tables, the queue and all copies: a runner's list, from
\* ListWithSteps to the end of the teardown, holds stages of its own execution only,
\* whatever stage it was handed in between.
THEOREM PipelineTypes == Spec => []TypeOK
<1>1. Init => IInv /\ TInv
  BY InitInv, InitTypes, Zenon
<1>2. IInv /\ TInv /\ [Next]_vars => IInv' /\ TInv'
  BY NextInv, NextTypes, Zenon
<1>3. IInv /\ TInv => TypeOK
  <2> SUFFICES ASSUME IInv, TInv PROVE TypeOK
    OBVIOUS
  <2>1. TablesTypeOK
    BY Zenon DEF TablesTypeOK, IInv, Types, TInv
  <2>2. \A r \in Runners : /\ runner[r].stage \in Stages \cup {None}
                           /\ runner[r].row \in StageRow
                           /\ runner[r].exec \in ExecutionRow
    BY Zenon DEF IInv, Types, RunnerState
  <2> QED BY <2>1, <2>2, Zenon DEF TypeOK, TInv, RunnerTypes
<1> QED BY <1>1, <1>2, <1>3, PTL DEF Spec

-----------------------------------------------------------------------------
(***************************************************************************)
(* The end of executions that are not canceled. A stage that has ended     *)
(* stays as it is: whoever may still write its row has a copy from before. *)
(***************************************************************************)
Live(s) == ~Canceled(ExecutionOf[s])

\* A stage that was handed out is pending until it is accepted.
Picked(s) ==
    HasRow(s) /\ (Live(s) => stage[s].machine # None \/ stage[s].status = "pending")

\* A copy in the list of a runner. One that was read again after a refused write is older
\* than the row, and has its status if the stage has ended.
Seen(s, row) ==
    /\ HasRow(s)
    /\ row.version = stage[s].version => row.status = stage[s].status
    /\ Live(s) /\ IsDone(row.status) => stage[s].status = row.status

WalkInv(r) ==
    /\ handed[r] # None => Picked(handed[r])
    /\ runner[r].pc \in Working => HasRow(runner[r].stage)
    /\ runner[r].pc = "accept" => Picked(runner[r].stage)
    /\ \A s \in Stages : Holds(r, s) /\ Live(s) => stage[s].status \in {"pending", "running"}
    /\ runner[r].pc = "teardown" => runner[r].row.status # "none"
    /\ \A s \in DOMAIN runner[r].list : Seen(s, runner[r].list[s])
    /\ runner[r].pc \in {"cancelDownstream", "scheduleDownstream", "resyncCanceled", "resyncScheduled"} =>
          DOMAIN runner[r].list = {s \in StagesOf(Exec(r)) : HasRow(s)}
    /\ runner[r].pc \in {"resyncCanceled", "resyncScheduled"} =>
          runner[r].list[runner[r].next].version < stage[runner[r].next].version

CanceledRows(e) == \A s \in DOMAIN cancel[e].list : HasRow(s) /\ ExecutionOf[s] = e

Ended(e) == \A s \in StagesOf(e) : HasRow(s) => IsDone(stage[s].status)

Succeeded(e) == \A s \in StagesOf(e) : HasRow(s) => ~IsFailed(stage[s].status)

EndInv(e) ==
    ~Canceled(e) /\ IsDone(execution[e].status) =>
        \/ (\A s \in StagesOf(e) : ~HasRow(s)) /\ execution[e].status = "error"
        \/ Ended(e) /\ (execution[e].status = "success" <=> Succeeded(e))

EInv ==
    /\ \A i \in Instances : \A s \in signal[i] : Picked(s)
    /\ \A r \in Runners : WalkInv(r)
    /\ \A e \in Executions : CanceledRows(e) /\ EndInv(e)

\* What a step of the runners R, or of nobody, does to the rows of executions.
Moved(R, s) ==
    /\ stage[s].version < stage'[s].version /\ HasRow(s) /\ HasRow(s)'
    /\ Live(s) => /\ ~IsDone(stage[s].status)
                  /\ stage[s].status = "pending" => stage'[s].machine # None
                  /\ \A q \in Runners \ R : ~Holds(q, s)

Moves(R) ==
    /\ \A s \in Stages : Known(s) => stage'[s] = stage[s] \/ Moved(R, s)
    /\ \A e \in Executions : Canceled(e) => Canceled(e)'

LEMMA ListTypes ==
    ASSUME NEW list \in Lists, NEW s \in DOMAIN list PROVE s \in Stages /\ list[s] \in StageRow
BY Zenon DEF Lists

LEMMA LiveBefore == ASSUME NEW R, Moves(R), NEW s \in Stages, Live(s)' PROVE Live(s)
BY StagesAssumption, Zenon DEF Moves, Live

LEMMA RowKept ==
    ASSUME NEW R, Moves(R), NEW s \in Stages, Known(s) PROVE HasRow(s)' <=> HasRow(s)
BY Zenon DEF Moves, Moved, HasRow

LEMMA EndedKept ==
    ASSUME NEW R, Moves(R), NEW s \in Stages, Known(s), Live(s)', IsDone(stage[s].status)
    PROVE  stage'[s] = stage[s]
BY LiveBefore, Zenon DEF Moves, Moved

LEMMA SeenKept ==
    ASSUME Types, Types', NEW R, Moves(R), NEW s \in Stages, Known(s),
           NEW row \in StageRow, Copy(s, row), Seen(s, row)
    PROVE  Seen(s, row)'
<1>1. HasRow(s)'
  BY RowKept, Zenon DEF Seen
<1>2. (row.version = stage[s].version => row.status = stage[s].status)'
  <2>1. CASE stage'[s] = stage[s]
    BY <2>1, Zenon DEF Seen
  <2>2. CASE Moved(R, s)
    <3>1. row.version <= stage[s].version /\ stage[s].version < stage'[s].version
      BY <2>2, Zenon DEF Moved, Copy
    <3>2. row.version \in Nat /\ stage[s].version \in Nat /\ stage'[s].version \in Nat
      BY Zenon DEF Types, StageRow
    <3>3. row.version # stage'[s].version
      BY ONLY <3>1, <3>2
    <3> QED BY <3>3, Zenon
  <2> QED BY <2>1, <2>2, Zenon DEF Moves
<1>3. (Live(s) /\ IsDone(row.status) => stage[s].status = row.status)'
  <2> SUFFICES ASSUME Live(s)', IsDone(row.status) PROVE stage'[s].status = row.status
    BY Zenon DEF IsDone
  <2>1. stage[s].status = row.status
    BY LiveBefore, Zenon DEF Seen
  <2> QED BY <2>1, EndedKept, Zenon
<1> QED BY <1>1, <1>2, <1>3, Zenon DEF Seen

LEMMA PickedKept ==
    ASSUME Grow, NEW R, Moves(R), NEW s \in Stages, Known(s), Picked(s) PROVE Picked(s)'
<1>1. HasRow(s)'
  BY RowKept, Zenon DEF Picked
<1>2. ASSUME Live(s)' PROVE stage'[s].machine # None \/ stage'[s].status = "pending"
  <2>1. Live(s)
    BY <1>2, LiveBefore, Zenon
  <2>2. CASE stage[s].machine # None
    BY <2>2, Zenon DEF Grow, Grows
  <2>3. CASE stage[s].status = "pending"
    BY <2>1, <2>3, Zenon DEF Moves, Moved
  <2> QED BY <2>1, <2>2, <2>3, Zenon DEF Picked
<1> QED BY <1>1, <1>2, Zenon DEF Picked

\* The list of a runner that leaves it alone.
LEMMA SeenListKept ==
    ASSUME IInv, Types', NEW R, Moves(R), NEW q \in Runners, WalkInv(q), runner'[q].list = runner[q].list
    PROVE  (\A s \in DOMAIN runner[q].list : Seen(s, runner[q].list[s]))'
<1> PICK list \in Lists : list = runner[q].list
  BY Zenon DEF IInv, Types, RunnerState
<1>1. ASSUME NEW s \in DOMAIN list PROVE Seen(s, list[s])'
  <2>1. s \in Stages /\ list[s] \in StageRow
    BY Zenon DEF Lists
  <2>2. Known(s) /\ Copy(s, list[s]) /\ Seen(s, list[s])
    BY Zenon DEF IInv, RunnerInv, WalkInv
  <2> QED BY <2>1, <2>2, SeenKept, Zenon DEF IInv
<1>2. runner'[q].list = list
  BY Zenon
<1> QED BY ONLY <1>1, <1>2, Zenon DEF Seen, Live, Canceled, HasRow

\* The rows of an execution that was triggered stay the same.
LEMMA RowsKept ==
    ASSUME NEW R, Moves(R), NEW s \in Stages, Known(s)
    PROVE  {t \in StagesOf(ExecutionOf[s]) : HasRow(t)'} = {t \in StagesOf(ExecutionOf[s]) : HasRow(t)}
<1>1. \A t \in StagesOf(ExecutionOf[s]) : t \in Stages /\ Known(t)
  BY Zenon DEF StagesOf, Known
<1>2. \A t \in StagesOf(ExecutionOf[s]) : HasRow(t)' <=> HasRow(t)
  BY <1>1, RowKept, Zenon
<1> QED BY <1>2, Zenon

LEMMA WalkKept ==
    ASSUME IInv, Types', Grow, NEW R, Moves(R), NEW q \in Runners, q \notin R, WalkInv(q),
           runner'[q] = runner[q], handed'[q] = handed[q]
    PROVE  WalkInv(q)'
<1>t. Types /\ runner[q] \in RunnerState /\ handed[q] \in Stages \cup {None}
  BY Zenon DEF IInv, Types
<1>1. (handed[q] # None => Picked(handed[q]))'
  <2> PICK h : h = handed[q]
    BY Zenon
  <2>1. h # None => Picked(h)'
    BY <1>t, PickedKept, Zenon DEF IInv, RunnerInv, WalkInv
  <2> QED BY <2>1, Zenon DEF Picked, HasRow, Live, Canceled
<1> PICK me \in RunnerState : me = runner[q]
  BY <1>t, Zenon
<1>2. me.pc \in Working => me.stage \in Stages /\ Known(me.stage) /\ HasRow(me.stage)
  BY Zenon DEF RunnerState, IInv, RunnerInv, WalkInv
<1>3. me.pc \in Working => HasRow(me.stage)'
  BY <1>2, RowKept, Zenon
<1>4. me.pc = "accept" => Picked(me.stage)'
  BY <1>2, PickedKept, Zenon DEF WalkInv, Working
<1>5. ASSUME NEW s \in Stages, Holds(q, s)', Live(s)' PROVE stage'[s].status \in {"pending", "running"}
  <2>1. Holds(q, s) /\ Live(s)
    BY <1>5, LiveBefore, Zenon DEF Holds
  <2>2. stage[s].status \in {"pending", "running"} /\ Known(s)
    BY <2>1, Zenon DEF WalkInv, IInv, RunnerInv, Holds, Working
  <2> QED BY <2>1, <2>2, Zenon DEF Moves, Moved
<1>6. (\A s \in DOMAIN runner[q].list : Seen(s, runner[q].list[s]))'
  BY SeenListKept, Zenon
<1>7. me.pc \in {"cancelDownstream", "scheduleDownstream", "resyncCanceled", "resyncScheduled"} =>
        DOMAIN me.list = {s \in StagesOf(ExecutionOf[me.stage]) : HasRow(s)'}
  <2> SUFFICES ASSUME me.pc \in {"cancelDownstream", "scheduleDownstream", "resyncCanceled", "resyncScheduled"}
               PROVE  DOMAIN me.list = {s \in StagesOf(ExecutionOf[me.stage]) : HasRow(s)'}
    BY Zenon
  <2>1. DOMAIN me.list = {s \in StagesOf(ExecutionOf[me.stage]) : HasRow(s)}
    BY Zenon DEF WalkInv, Exec
  <2>2. me.stage \in Stages /\ Known(me.stage)
    BY <1>2, Zenon DEF Working
  <2> QED BY <2>1, <2>2, RowsKept, Zenon
<1>8. me.pc \in {"resyncCanceled", "resyncScheduled"} =>
        me.list[me.next].version < stage'[me.next].version
  <2> SUFFICES ASSUME me.pc \in {"resyncCanceled", "resyncScheduled"}
               PROVE  me.list[me.next].version < stage'[me.next].version
    BY Zenon
  <2>1. me.next \in DOMAIN me.list /\ me.list[me.next].version < stage[me.next].version
    BY Zenon DEF IInv, RunnerInv, WalkInv
  <2>2. me.next \in Stages /\ me.list[me.next] \in StageRow
    BY <2>1, ListTypes, Zenon DEF RunnerState
  <2>3. stage[me.next].version <= stage'[me.next].version
    BY <2>2, Zenon DEF Grow, Grows
  <2>4. me.list[me.next].version \in Nat /\ stage[me.next].version \in Nat /\ stage'[me.next].version \in Nat
    BY <1>t, <2>2, Zenon DEF Types, StageRow
  <2> QED BY ONLY <2>1, <2>3, <2>4
<1>9. runner'[q] = me
  BY Zenon
<1>10. me.pc = "teardown" => me.row.status # "none"
  BY Zenon DEF WalkInv
<1> QED BY ONLY <1>1, <1>3, <1>4, <1>5, <1>6, <1>7, <1>8, <1>9, <1>10, Zenon
        DEF WalkInv, Exec, HasRow, Picked, Live, Canceled

LEMMA EndKept ==
    ASSUME NEW R, Moves(R), NEW e \in Executions, EndInv(e), execution'[e] = execution[e]
    PROVE  EndInv(e)'
<1> SUFFICES ASSUME ~Canceled(e)', IsDone(execution[e].status)
             PROVE  (\/ (\A s \in StagesOf(e) : ~HasRow(s)) /\ execution[e].status = "error"
                     \/ Ended(e) /\ (execution[e].status = "success" <=> Succeeded(e)))'
  BY Zenon DEF EndInv
<1>1. ~Canceled(e)
  BY Zenon DEF Moves
<1>2. ASSUME NEW s \in StagesOf(e)
      PROVE  s \in Stages /\ Known(s) /\ Live(s)' /\ (HasRow(s)' <=> HasRow(s))
  <2>1. execution[e].status # "none"
    BY Zenon DEF IsDone
  <2>2. s \in Stages /\ Known(s) /\ Live(s)'
    BY <2>1, Zenon DEF StagesOf, Known, Live
  <2> QED BY <2>2, RowKept, Zenon
<1>3. CASE (\A s \in StagesOf(e) : ~HasRow(s)) /\ execution[e].status = "error"
  BY <1>2, <1>3, Zenon
<1>4. CASE Ended(e) /\ (execution[e].status = "success" <=> Succeeded(e))
  <2>1. \A s \in StagesOf(e) : HasRow(s) => stage'[s] = stage[s]
    BY <1>2, <1>4, EndedKept, Zenon DEF Ended
  <2>2. Ended(e)'
    BY <1>2, <1>4, <2>1, Zenon DEF Ended
  <2>3. Succeeded(e)' <=> Succeeded(e)
    BY <1>2, <2>1, Zenon DEF Succeeded
  <2> QED BY <1>4, <2>2, <2>3, Zenon
<1> QED BY <1>1, <1>3, <1>4, Zenon DEF EndInv

LEMMA CanceledRowsKept ==
    ASSUME IInv, NEW R, Moves(R), NEW e \in Executions, CanceledRows(e),
           DOMAIN cancel'[e].list \subseteq DOMAIN cancel[e].list
    PROVE  CanceledRows(e)'
<1>1. \A s \in DOMAIN cancel[e].list : s \in Stages
  <2>1. cancel[e].list \in Lists
    BY Zenon DEF IInv, Types, CancelState
  <2> QED BY <2>1, ListTypes, Zenon
<1>2. \A s \in DOMAIN cancel[e].list : Known(s)
  BY Zenon DEF IInv, CancelInv
<1> QED BY <1>1, <1>2, RowKept, Zenon DEF CanceledRows

\* What remains to be shown of a step of one runner.
LEMMA RunnerWalks ==
    ASSUME IInv, Types', Grow, EInv, NEW r \in Runners, Moves({r}), WalkInv(r)',
           \A q \in Runners : q # r => runner'[q] = runner[q] /\ handed'[q] = handed[q],
           UNCHANGED <<signal, cancel>>,
           \A e \in Executions : execution'[e] = execution[e] \/ EndInv(e)'
    PROVE  EInv'
<1>1. ASSUME NEW q \in Runners PROVE WalkInv(q)'
  <2>1. CASE q = r
    BY <2>1, Zenon
  <2>2. CASE q # r
    <3>1. q \notin {r} /\ WalkInv(q) /\ runner'[q] = runner[q] /\ handed'[q] = handed[q]
      BY <2>2, Zenon DEF EInv
    <3> QED BY <3>1, WalkKept, Zenon
  <2> QED BY <2>1, <2>2, Zenon
<1>2. \A e \in Executions : CanceledRows(e)' /\ EndInv(e)'
  BY CanceledRowsKept, EndKept, Zenon DEF EInv
<1>3. ASSUME NEW i \in Instances, NEW s \in signal[i] PROVE Picked(s)'
  BY PickedKept, Zenon DEF EInv, IInv, Types
<1> QED BY <1>1, <1>2, <1>3, Zenon DEF EInv

\* What is known of a runner, of its state and of the stage that was handed to it.
Walk(me, h) ==
    /\ h # None => Picked(h)
    /\ me.pc \in Working => HasRow(me.stage)
    /\ me.pc = "accept" => Picked(me.stage)
    /\ me.pc \in {"accepted", "updateExecution", "running", "teardown"} /\ Live(me.stage) =>
          stage[me.stage].status \in {"pending", "running"}
    /\ me.pc = "teardown" => me.row.status # "none"
    /\ \A s \in DOMAIN me.list : Seen(s, me.list[s])
    /\ me.pc \in {"cancelDownstream", "scheduleDownstream", "resyncCanceled", "resyncScheduled"} =>
          DOMAIN me.list = {s \in StagesOf(ExecutionOf[me.stage]) : HasRow(s)}
    /\ me.pc \in {"resyncCanceled", "resyncScheduled"} =>
          me.list[me.next].version < stage[me.next].version

LEMMA WalkNow ==
    ASSUME IInv, EInv, NEW r \in Runners, NEW me, me = runner[r], NEW h, h = handed[r] PROVE Walk(me, h)
<1>1. WalkInv(r)
  BY Zenon DEF EInv
<1>2. me.pc \in Working => me.stage \in Stages
  BY Zenon DEF IInv, Types, RunnerState, RunnerInv
<1>3. me.pc \in {"accepted", "updateExecution", "running", "teardown"} /\ Live(me.stage) =>
          stage[me.stage].status \in {"pending", "running"}
  BY <1>1, <1>2, Zenon DEF WalkInv, Holds, Working
<1> QED BY ONLY <1>1, <1>3, me = runner[r], h = handed[r], Zenon DEF WalkInv, Walk, Exec

LEMMA WalkThen ==
    ASSUME NEW r \in Runners, NEW me, me = runner'[r], NEW h, h = handed'[r], Walk(me, h), UNCHANGED <<stage, cancel>>
    PROVE  WalkInv(r)'
<1>1. Walk(me, h)'
  BY Zenon DEF Walk, Picked, Seen, HasRow, Live, Canceled
<1>2. (\A s \in Stages : Holds(r, s) /\ Live(s) => stage[s].status \in {"pending", "running"})'
  BY <1>1, Zenon DEF Walk, Holds, Live, Canceled
<1> QED BY ONLY <1>1, <1>2, me = runner'[r], h = handed'[r], Zenon
        DEF WalkInv, Walk, Exec, Picked, Seen, HasRow, Live, Canceled

LEMMA SameMoves == ASSUME NEW R, UNCHANGED <<stage, cancel>> PROVE Moves(R)
BY Zenon DEF Moves, Canceled

\* A step of a runner that writes no stage.
LEMMA ReaderWalks ==
    ASSUME IInv, Types', Grow, EInv, NEW r \in Runners,
           NEW me, me = runner'[r], NEW h, h = handed'[r], Walk(me, h),
           \A q \in Runners : q # r => runner'[q] = runner[q] /\ handed'[q] = handed[q],
           UNCHANGED <<stage, signal, cancel>>,
           \A e \in Executions : execution'[e] = execution[e] \/ EndInv(e)'
    PROVE  EInv'
<1>1. WalkInv(r)'
  BY WalkThen, Zenon
<1>2. Moves({r})
  BY SameMoves, Zenon
<1> QED BY <1>1, <1>2, RunnerWalks, Zenon

LEMMA IdleWalks == ASSUME NEW h, h # None => Picked(h) PROVE Walk(Idle, h)
<1>1. DOMAIN Idle.list = {} /\ Idle.pc = "idle"
  BY Zenon DEF Idle, NoList
<1> QED BY <1>1, Zenon DEF Walk, Working

LEMMA RequestWalks == ASSUME IInv, EInv, NEW r \in Runners, RequestStage(r) PROVE EInv'
<1>1. IInv' /\ Grow
  BY RequestInv, Zenon
<1> PICK me : me = [runner[r] EXCEPT !.pc = "waiting"]
  BY Zenon
<1> PICK h : h = handed[r]
  BY Zenon
<1>2. runner' = [runner EXCEPT ![r].pc = "waiting"] /\ UNCHANGED <<execution, stage, signal, handed, cancel>>
  BY Zenon DEF RequestStage, Request, tableVars
<1>3. me = runner'[r] /\ \A q \in Runners : q # r => runner'[q] = runner[q] /\ handed'[q] = handed[q]
  BY <1>2, Zenon DEF IInv, Types
<1>4. me.pc = "waiting" /\ me.list = runner[r].list
  BY Zenon DEF IInv, Types, RunnerState
<1>5. Walk(me, h)
  <2>1. Walk(runner[r], h)
    BY WalkNow, Zenon
  <2> QED BY <1>4, <2>1, Zenon DEF Walk, Working
<1> QED BY <1>1, <1>2, <1>3, <1>5, ReaderWalks, Zenon DEF IInv

LEMMA AcceptFindWalks == ASSUME IInv, EInv, NEW r \in Runners, AcceptFind(r) PROVE EInv'
<1>1. IInv' /\ Grow
  BY AcceptFindInv, Zenon
<1>2. UNCHANGED <<execution, stage, signal, cancel>> /\ handed' = [handed EXCEPT ![r] = None]
  BY Zenon DEF AcceptFind, tableVars
<1>3. handed'[r] = None /\ \A q \in Runners : q # r => runner'[q] = runner[q] /\ handed'[q] = handed[q]
  BY <1>2, Zenon DEF IInv, Types, GoIdle, AcceptFind
<1> PICK h : h = handed[r]
  BY Zenon
<1>4. Picked(h) /\ Walk(runner[r], h)
  BY WalkNow, Zenon DEF AcceptFind, Walk
<1>5. CASE GoIdle(r)
  <2>1. runner'[r] = Idle
    BY <1>5, Zenon DEF GoIdle, IInv, Types
  <2> QED BY <1>1, <1>2, <1>3, <2>1, IdleWalks, ReaderWalks, Zenon DEF IInv
<1>6. CASE runner' = [runner EXCEPT ![r].pc = "accept", ![r].stage = handed[r], ![r].row = stage[handed[r]]]
  <2> PICK me : me = [runner[r] EXCEPT !.pc = "accept", !.stage = h, !.row = stage[h]]
    BY Zenon
  <2>1. me = runner'[r]
    BY <1>6, Zenon DEF IInv, Types
  <2>2. me.pc = "accept" /\ me.stage = h /\ me.list = runner[r].list
    BY Zenon DEF IInv, Types, RunnerState
  <2>3. Walk(me, None)
    BY <1>4, <2>2, Zenon DEF Walk, Picked
  <2> QED BY <1>1, <1>2, <1>3, <2>1, <2>3, ReaderWalks, Zenon DEF IInv
<1> QED BY <1>5, <1>6, Zenon DEF AcceptFind

LEMMA DropWalks ==
    ASSUME IInv, EInv, NEW r \in Runners, GoIdle(r), UNCHANGED <<execution, stage, config, queueVars, cancel>>
    PROVE  EInv'
<1>1. IInv' /\ Grow
  BY DropInv, Zenon
<1>2. runner'[r] = Idle /\ \A q \in Runners : q # r => runner'[q] = runner[q] /\ handed'[q] = handed[q]
  BY Zenon DEF GoIdle, IInv, Types, queueVars
<1> PICK h : h = handed[r]
  BY Zenon
<1>3. Walk(Idle, h)
  BY WalkNow, IdleWalks, Zenon DEF Walk
<1>4. h = handed'[r] /\ UNCHANGED <<stage, signal, cancel>>
  BY Zenon DEF queueVars
<1> QED BY <1>1, <1>2, <1>3, <1>4, ReaderWalks, Zenon DEF IInv

\* The row of a stage that has not ended is written by the runner that works on it.
LEMMA SaveStageWalks ==
    ASSUME IInv, EInv, NEW r \in Runners, NEW s \in Stages, s = runner[r].stage, Known(s), HasRow(s),
           NEW row \in StageRow, NEW status \in CIStatus \ {"none"},
           NEW pc \in {"accepted", "updateExecution", "list"},
           pc # "list" => status \in {"pending", "running"},
           row.machine # None,
           stage[s].machine # None => row.machine = stage[s].machine,
           Live(s) => ~IsDone(stage[s].status),
           \A q \in Runners : q # r => ~Holds(q, s),
           IInv', Grow,
           SaveStage(r, row, status, pc), UNCHANGED <<execution, config, queueVars, cancel>>
    PROVE  EInv'
<1>t. Types /\ Types' /\ runner \in [Runners -> RunnerState] /\ runner[r] \in RunnerState
  BY Zenon DEF IInv, Types
<1>1. CanUpdateStage(s, row) /\ UpdateStage(s, row, status)
  BY Zenon DEF SaveStage
<1>2. /\ stage'[s] = [status |-> status, machine |-> row.machine, version |-> row.version + 1]
      /\ \A t \in Stages : t # s => stage'[t] = stage[t]
  <2>1. UpdateStage(s, row, status) /\ s \in Stages /\ stage \in [Stages -> StageRow]
    BY <1>t, <1>1, Zenon DEF Types
  <2> QED BY ONLY <2>1, Zenon DEF UpdateStage
<1>3. stage'[s].status = status /\ stage'[s].machine # None
  BY <1>2
<1>4. stage[s].version < stage'[s].version
  <2>1. row.version \in Nat /\ stage'[s].version = row.version + 1 /\ stage[s].version = row.version
    BY <1>1, <1>2 DEF StageRow, CanUpdateStage
  <2> QED BY ONLY <2>1
<1>5. Moves({r})
  <2>1. Moved({r}, s)
    BY <1>3, <1>4, Zenon DEF Moved, HasRow
  <2>2. \A e \in Executions : Canceled(e) => Canceled(e)'
    BY Zenon DEF Canceled
  <2> QED BY <1>2, <2>1, <2>2, Zenon DEF Moves
<1> PICK new : new = stage'[s]
  BY Zenon
<1>6. runner' = [runner EXCEPT ![r].pc = pc, ![r].row = new]
  BY Zenon DEF SaveStage
<1>7. /\ runner'[r].pc = pc /\ runner'[r].stage = s /\ runner'[r].list = runner[r].list
      /\ \A q \in Runners : q # r => runner'[q] = runner[q]
  BY <1>t, <1>6, Zenon DEF RunnerState
<1>8. UNCHANGED <<signal, handed, cancel, execution>>
  BY Zenon DEF queueVars
<1>9. WalkInv(r) /\ RunnerInv(r) /\ handed[r] \in Stages \cup {None}
  BY <1>t, Zenon DEF EInv, IInv, Types
<1>10. WalkInv(r)'
  <2>1. (handed[r] # None => Picked(handed[r]))'
    <3> PICK h : h = handed[r]
      BY Zenon
    <3>1. h # None => Picked(h)'
      BY <1>5, <1>9, PickedKept, Zenon DEF RunnerInv, WalkInv
    <3> QED BY <1>8, <3>1, Zenon DEF Picked, HasRow, Live, Canceled
  <2>2. (runner[r].pc \in Working => HasRow(runner[r].stage))'
    BY <1>3, <1>7, Zenon DEF HasRow
  <2>3. (\A t \in Stages : Holds(r, t) /\ Live(t) => stage[t].status \in {"pending", "running"})'
    BY <1>3, <1>7, Zenon DEF Holds
  <2>4. (\A t \in DOMAIN runner[r].list : Seen(t, runner[r].list[t]))'
    BY <1>t, <1>5, <1>7, <1>9, SeenListKept, Zenon
  <2> QED BY <1>7, <2>1, <2>2, <2>3, <2>4, Zenon DEF WalkInv
<1> QED BY <1>t, <1>5, <1>7, <1>8, <1>10, RunnerWalks, Zenon

LEMMA AcceptUpdateWalks == ASSUME IInv, EInv, NEW r \in Runners, AcceptUpdate(r) PROVE EInv'
<1>1. /\ runner[r].pc = "accept" /\ runner[r].row \in StageRow
      /\ runner[r].stage \in Stages /\ Known(runner[r].stage)
  BY Zenon DEF AcceptUpdate, At, IInv, Types, RunnerState, RunnerInv, Working
<1> PICK s \in Stages : s = runner[r].stage
  BY <1>1, Zenon
<1>2. PICK row : row = [runner[r].row EXCEPT !.machine = InstanceOf[r]]
  BY Zenon
<1>3. row \in StageRow /\ row.machine # None /\ row.version = runner[r].row.version
  BY <1>1, <1>2, StagesAssumption, QueueAssumption DEF StageRow
<1>4. IInv' /\ Grow
  BY AcceptUpdateInv, Zenon
<1>5. CASE SaveStage(r, row, "pending", "accepted")
  <2>1. stage[s].machine = None
    BY <1>1, <1>3, <1>5, Zenon DEF SaveStage, CanUpdateStage, IInv, RunnerInv, Copy, Working
  <2>2. Picked(s)
    BY <1>1, Zenon DEF EInv, WalkInv
  <2>3. HasRow(s) /\ (Live(s) => ~IsDone(stage[s].status))
    BY <2>1, <2>2, Zenon DEF Picked, IsDone
  <2>4. ASSUME NEW q \in Runners PROVE ~Holds(q, s)
    BY <2>1, Zenon DEF Holds, IInv, RunnerInv
  <2>5. "pending" \in CIStatus \ {"none"} /\ Known(s) /\ UNCHANGED <<execution, config, queueVars, cancel>>
    BY <1>1, Zenon DEF CIStatus, AcceptUpdate
  <2> QED BY <1>3, <1>4, <1>5, <2>1, <2>3, <2>4, <2>5, SaveStageWalks, Zenon
<1>6. CASE GoIdle(r) /\ UNCHANGED stage
  BY <1>6, DropWalks, Zenon DEF AcceptUpdate
<1> QED BY <1>2, <1>5, <1>6, Zenon DEF AcceptUpdate

\* What is known of a stage that a runner holds.
LEMMA HeldStage ==
    ASSUME IInv, EInv, NEW r \in Runners, NEW s \in Stages, Holds(r, s)
    PROVE  /\ Known(s) /\ HasRow(s) /\ stage[s].machine # None
           /\ runner[r].row \in StageRow /\ Copy(s, runner[r].row)
           /\ Live(s) => ~IsDone(stage[s].status)
           /\ \A q \in Runners : q # r => ~Holds(q, s)
<1>1. /\ Known(s) /\ HasRow(s) /\ stage[s].machine # None
      /\ runner[r].row \in StageRow /\ Copy(s, runner[r].row)
  BY Zenon DEF IInv, Types, RunnerState, RunnerInv, Working, Holds, EInv, WalkInv
<1>2. Live(s) => ~IsDone(stage[s].status)
  BY Zenon DEF EInv, WalkInv, IsDone
<1>3. \A q \in Runners : q # r => ~Holds(q, s)
  BY Zenon DEF IInv, OneRunner
<1> QED BY <1>1, <1>2, <1>3, Zenon

LEMMA SetupStageWalks == ASSUME IInv, EInv, NEW r \in Runners, SetupStage(r) PROVE EInv'
<1>1. runner[r].pc = "accepted" /\ runner[r].stage \in Stages
  BY Zenon DEF SetupStage, At, IInv, Types, RunnerState, RunnerInv, Working
<1> PICK s \in Stages : s = runner[r].stage
  BY <1>1, Zenon
<1>2. Holds(r, s)
  BY <1>1, Zenon DEF Holds
<1> PICK row \in StageRow : row = runner[r].row
  BY <1>2, HeldStage, Zenon
<1>3. IInv' /\ Grow
  BY SetupStageInv, Zenon
<1>4. CASE SaveStage(r, row, "running", "updateExecution")
  <2>1. row.machine = stage[s].machine
    BY <1>2, <1>4, HeldStage, Zenon DEF SaveStage, CanUpdateStage, Copy
  <2>2. "running" \in CIStatus \ {"none"} /\ UNCHANGED <<execution, config, queueVars, cancel>>
    BY Zenon DEF CIStatus, SetupStage
  <2>3. /\ Known(s) /\ HasRow(s) /\ stage[s].machine # None
        /\ Live(s) => ~IsDone(stage[s].status)
        /\ \A q \in Runners : q # r => ~Holds(q, s)
    BY <1>2, HeldStage, Zenon
  <2> QED BY <1>3, <1>4, <2>1, <2>2, <2>3, SaveStageWalks, Zenon
<1>5. CASE GoIdle(r) /\ UNCHANGED stage
  BY <1>5, DropWalks, Zenon DEF SetupStage
<1> QED BY <1>4, <1>5, Zenon DEF SetupStage

LEMMA TeardownStageWalks == ASSUME IInv, EInv, NEW r \in Runners, TeardownStage(r) PROVE EInv'
<1>1. runner[r].pc = "teardown" /\ runner[r].stage \in Stages
  BY Zenon DEF TeardownStage, At, IInv, Types, RunnerState, RunnerInv, Working
<1> PICK s \in Stages : s = runner[r].stage
  BY <1>1, Zenon
<1>2. Holds(r, s)
  BY <1>1, Zenon DEF Holds
<1> PICK row \in StageRow : row = runner[r].row
  BY <1>2, HeldStage, Zenon
<1>3. IInv' /\ Grow
  BY TeardownStageInv, Zenon
<1>4. CASE SaveStage(r, row, row.status, "list")
  <2>1. row.machine = stage[s].machine
    BY <1>2, <1>4, HeldStage, Zenon DEF SaveStage, CanUpdateStage, Copy
  <2>2. row.status \in CIStatus \ {"none"} /\ UNCHANGED <<execution, config, queueVars, cancel>>
    BY <1>1, Zenon DEF StageRow, TeardownStage, EInv, WalkInv
  <2>3. /\ Known(s) /\ HasRow(s) /\ stage[s].machine # None
        /\ Live(s) => ~IsDone(stage[s].status)
        /\ \A q \in Runners : q # r => ~Holds(q, s)
    BY <1>2, HeldStage, Zenon
  <2> QED BY <1>3, <1>4, <2>1, <2>2, <2>3, SaveStageWalks, Zenon
<1>5. CASE GoIdle(r) /\ UNCHANGED stage
  BY <1>5, DropWalks, Zenon DEF TeardownStage
<1> QED BY <1>4, <1>5, Zenon DEF TeardownStage

LEMMA SetupExecutionWalks == ASSUME IInv, EInv, NEW r \in Runners, SetupExecution(r) PROVE EInv'
<1>1. IInv' /\ Grow
  BY SetupExecutionInv, Zenon
<1> PICK me : me = [runner[r] EXCEPT !.pc = "running"]
  BY Zenon
<1> PICK h : h = handed[r]
  BY Zenon
<1>2. runner' = [runner EXCEPT ![r].pc = "running"] /\ UNCHANGED <<stage, signal, handed, cancel>>
      /\ runner[r].pc = "updateExecution"
  BY Zenon DEF SetupExecution, queueVars, At
<1>3. me = runner'[r] /\ \A q \in Runners : q # r => runner'[q] = runner[q] /\ handed'[q] = handed[q]
  BY <1>2, Zenon DEF IInv, Types
<1>4. me.pc = "running" /\ me.list = runner[r].list /\ me.stage = runner[r].stage
  BY Zenon DEF IInv, Types, RunnerState
<1>5. Walk(me, h)
  <2>1. Walk(runner[r], h)
    BY WalkNow, Zenon
  <2> QED BY <1>2, <1>4, <2>1, Zenon DEF Walk, Working
<1>6. ASSUME NEW e \in Executions PROVE execution'[e] = execution[e] \/ EndInv(e)'
  <2>1. execution'[e] = execution[e] \/ execution'[e].status = "running"
    <3>1. CASE execution' = execution
      BY <3>1, Zenon
    <3>2. CASE execution' = [execution EXCEPT ![Exec(r)] =
                              [status |-> "running", version |-> execution[Exec(r)].version + 1]]
      <4> PICK f : f = Exec(r)
        BY Zenon
      <4> PICK v : v = execution[Exec(r)].version + 1
        BY Zenon
      <4>1. execution' = [execution EXCEPT ![f] = [status |-> "running", version |-> v]]
        BY <3>2, Zenon
      <4>2. execution \in [Executions -> ExecutionRow]
        BY Zenon DEF IInv, Types
      <4> QED BY ONLY <4>1, <4>2, e \in Executions, Zenon
    <3> QED BY <3>1, <3>2, Zenon DEF SetupExecution, UpdateExecution
  <2> QED BY <2>1, Zenon DEF EndInv, IsDone
<1> QED BY <1>1, <1>2, <1>3, <1>5, <1>6, ReaderWalks, Zenon DEF IInv

LEMMA TeardownFindWalks == ASSUME IInv, EInv, NEW r \in Runners, TeardownFind(r) PROVE EInv'
<1>1. IInv' /\ Grow
  BY TeardownFindInv, Zenon
<1>2. PICK outcome \in Outcomes \cup {"error"} :
         runner' = [runner EXCEPT ![r].pc = "teardown", ![r].exec = execution[Exec(r)],
                                  ![r].row.status = outcome]
  BY Zenon DEF TeardownFind
<1>3. runner[r].pc \in {"accepted", "running"} /\ UNCHANGED <<execution, stage, signal, handed, cancel>>
  BY Zenon DEF TeardownFind, queueVars, tableVars, At
<1> PICK me : me = [runner[r] EXCEPT !.pc = "teardown", !.exec = execution[Exec(r)], !.row.status = outcome]
  BY Zenon
<1> PICK h : h = handed[r]
  BY Zenon
<1>4. me = runner'[r] /\ \A q \in Runners : q # r => runner'[q] = runner[q] /\ handed'[q] = handed[q]
  BY <1>2, <1>3, Zenon DEF IInv, Types
<1>5. /\ me.pc = "teardown" /\ me.list = runner[r].list /\ me.stage = runner[r].stage
      /\ me.row.status = outcome
  <2>1. runner[r] \in RunnerState /\ runner[r].row \in StageRow
    BY Zenon DEF IInv, Types, RunnerState
  <2>2. /\ me.pc = "teardown" /\ me.list = runner[r].list /\ me.stage = runner[r].stage
        /\ me.row = [runner[r].row EXCEPT !.status = outcome]
    BY <2>1, Zenon DEF RunnerState
  <2>3. me.row.status = outcome
    BY ONLY <2>1, <2>2 DEF StageRow
  <2> QED BY <2>2, <2>3, Zenon
<1>6. outcome # "none"
  BY ManagerAssumption, Zenon
<1>7. Walk(me, h)
  <2>1. Walk(runner[r], h)
    BY WalkNow, Zenon
  <2> QED BY <1>3, <1>5, <1>6, <2>1, Zenon DEF Walk, Working
<1> QED BY <1>1, <1>3, <1>4, <1>7, ReaderWalks, Zenon DEF IInv

LEMMA TeardownListWalks == ASSUME IInv, EInv, NEW r \in Runners, TeardownList(r) PROVE EInv'
<1>1. IInv' /\ Grow
  BY TeardownListInv, Zenon
<1> PICK list : list = Rows(Exec(r))
  BY Zenon
<1> PICK failed : failed = (\E s \in DOMAIN list : IsFailed(list[s].status))
  BY Zenon
<1> PICK me : me = [runner[r] EXCEPT !.pc = "cancelDownstream", !.list = list, !.failed = failed]
  BY Zenon
<1> PICK h : h = handed[r]
  BY Zenon
<1>2. runner[r].pc = "list" /\ UNCHANGED <<execution, stage, signal, handed, cancel>>
  BY Zenon DEF TeardownList, queueVars, tableVars, At
<1>3. me = runner'[r] /\ \A q \in Runners : q # r => runner'[q] = runner[q] /\ handed'[q] = handed[q]
  BY <1>2, Zenon DEF IInv, Types, TeardownList
<1>4. me.pc = "cancelDownstream" /\ me.list = list /\ me.stage = runner[r].stage
  BY Zenon DEF IInv, Types, RunnerState
<1>5. Walk(me, h)
  <2>1. Walk(runner[r], h)
    BY WalkNow, Zenon
  <2>2. DOMAIN list = {t \in StagesOf(ExecutionOf[me.stage]) : HasRow(t)} /\ \A s \in DOMAIN list : list[s] = stage[s]
    BY <1>4, Zenon DEF Rows, Exec
  <2>3. \A s \in DOMAIN list : Seen(s, list[s])
    BY <2>2, Zenon DEF Seen
  <2> QED BY <1>2, <1>4, <2>1, <2>2, <2>3, Zenon DEF Walk, Working
<1> QED BY <1>1, <1>2, <1>3, <1>5, ReaderWalks, Zenon DEF IInv

\* A row of the list that is still waiting is written back, or found to have changed.
LEMMA SaveDownstreamWalks ==
    ASSUME IInv, EInv, NEW r \in Runners, runner[r].pc \in {"cancelDownstream", "scheduleDownstream"},
           NEW s \in DOMAIN runner[r].list, runner[r].list[s].status = "waiting",
           NEW status \in CIStatus \ {"none"},
           NEW resync \in {"resyncCanceled", "resyncScheduled"},
           SaveDownstream(r, s, status, resync),
           UNCHANGED <<execution, handed, signal, cancel>>,
           IInv', Grow
    PROVE  EInv'
<1>t. /\ Types /\ Types' /\ runner \in [Runners -> RunnerState] /\ runner[r] \in RunnerState
      /\ RunnerInv(r) /\ WalkInv(r) /\ handed[r] \in Stages \cup {None}
  BY Zenon DEF IInv, Types, EInv
<1> PICK list \in Lists : list = runner[r].list
  BY <1>t, Zenon DEF RunnerState
<1> PICK row \in StageRow : row = list[s]
  BY ListTypes, Zenon
<1>1. s \in Stages /\ Known(s) /\ Copy(s, row) /\ Seen(s, row) /\ row.status = "waiting"
  BY <1>t, ListTypes, Zenon DEF RunnerInv, WalkInv
<1>2. runner[r].stage \in Stages /\ Known(runner[r].stage) /\ HasRow(runner[r].stage)
  BY <1>t, Zenon DEF RunnerInv, WalkInv, Working, RunnerState
<1>3. CASE CanUpdateStage(s, row)
  <2>1. UpdateStage(s, row, status) /\ runner' = [runner EXCEPT ![r].list[s] = stage'[s], ![r].next = s + 1]
    BY <1>3, Zenon DEF SaveDownstream
  <2>3. /\ stage'[s] = [status |-> status, machine |-> row.machine, version |-> row.version + 1]
        /\ \A t \in Stages : t # s => stage'[t] = stage[t]
    <3>1. UpdateStage(s, row, status) /\ s \in Stages /\ stage \in [Stages -> StageRow]
      BY <1>t, <1>1, <2>1, Zenon DEF Types
    <3> QED BY ONLY <3>1, Zenon DEF UpdateStage
  <2>4. stage[s].version < stage'[s].version /\ stage'[s].status = status
    <3>1. row.version \in Nat /\ stage[s].version = row.version
      BY <1>3, Zenon DEF StageRow, CanUpdateStage
    <3> QED BY ONLY <2>3, <3>1
  <2>5. stage[s].status = "waiting"
    BY <1>1, <1>3, Zenon DEF Seen, CanUpdateStage
  <2>6. ASSUME NEW q \in Runners, Live(s) PROVE ~Holds(q, s)
    BY <1>1, <2>5, <2>6, Zenon DEF EInv, WalkInv
  <2>7. Moves({r})
    <3>1. Moved({r}, s)
      BY <2>4, <2>5, <2>6, Zenon DEF Moved, HasRow, IsDone
    <3>2. \A e \in Executions : Canceled(e) => Canceled(e)'
      BY Zenon DEF Canceled
    <3> QED BY <2>3, <3>1, <3>2, Zenon DEF Moves
  <2> PICK saved : saved = stage'[s]
    BY Zenon
  <2> PICK after : after = [list EXCEPT ![s] = saved]
    BY Zenon
  <2>8. DOMAIN after = DOMAIN list /\ after[s] = saved /\ \A t \in DOMAIN list : t # s => after[t] = list[t]
    <3> PICK D \in SUBSET Stages : list \in [D -> StageRow]
      BY Zenon DEF Lists
    <3> QED BY Zenon
  <2> PICK next : next = s + 1
    BY Zenon
  <2> PICK me : me = [runner[r] EXCEPT !.list = after, !.next = next]
    BY Zenon
  <2>9. me.pc = runner[r].pc /\ me.stage = runner[r].stage /\ me.list = after
    BY <1>t, Zenon DEF RunnerState
  <2>10. me = runner'[r] /\ \A q \in Runners : q # r => runner'[q] = runner[q]
    BY <1>t, <2>1, Zenon
  <2>11. WalkInv(r)'
    <3>1. (handed[r] # None => Picked(handed[r]))'
      <4> PICK h : h = handed[r]
        BY Zenon
      <4>1. h # None => Picked(h)'
        BY <1>t, <2>7, PickedKept, Zenon DEF RunnerInv, WalkInv
      <4> QED BY <4>1, Zenon DEF Picked, HasRow, Live, Canceled
    <3>2. HasRow(me.stage)'
      BY <1>2, <2>7, <2>9, RowKept, Zenon
    <3>3. ASSUME NEW t \in DOMAIN after PROVE Seen(t, after[t])'
      <4>1. CASE t = s
        BY <2>4, <2>8, <4>1, Zenon DEF Seen, HasRow
      <4>2. CASE t # s
        <5>1. t \in DOMAIN list /\ after[t] = list[t]
          BY <2>8, <4>2, Zenon
        <5>2. t \in Stages /\ list[t] \in StageRow /\ Known(t) /\ Copy(t, list[t]) /\ Seen(t, list[t])
          BY <1>t, <5>1, ListTypes, Zenon DEF RunnerInv, WalkInv
        <5> QED BY <1>t, <2>7, <5>1, <5>2, SeenKept, Zenon
      <4> QED BY <4>1, <4>2, Zenon
    <3>4. DOMAIN after = {t \in StagesOf(ExecutionOf[me.stage]) : HasRow(t)'}
      BY <1>t, <1>2, <2>7, <2>8, <2>9, RowsKept, Zenon DEF WalkInv, Exec
    <3>5. (\A t \in DOMAIN runner[r].list : Seen(t, runner[r].list[t]))'
      <4>1. runner'[r].list = after
        BY <2>9, <2>10, Zenon
      <4> QED BY ONLY <3>3, <4>1, Zenon DEF Seen, HasRow, Live, Canceled
    <3>6. runner'[r].pc \in {"cancelDownstream", "scheduleDownstream"} /\ runner'[r].stage = me.stage
      BY <2>9, <2>10, Zenon
    <3>7. (HasRow(runner[r].stage) /\ DOMAIN runner[r].list = {t \in StagesOf(Exec(r)) : HasRow(t)})'
      <4>1. DOMAIN runner'[r].list = DOMAIN after
        BY <2>9, <2>10, Zenon
      <4> QED BY ONLY <3>2, <3>4, <3>6, <4>1, Zenon DEF HasRow, Exec
    <3> QED BY ONLY <3>1, <3>5, <3>6, <3>7, Zenon DEF WalkInv, Holds
  <2> QED BY <1>t, <2>7, <2>10, <2>11, RunnerWalks, Zenon
<1>4. CASE ~CanUpdateStage(s, row)
  <2>1. runner' = [runner EXCEPT ![r].pc = resync, ![r].next = s] /\ stage' = stage
    BY <1>4, Zenon DEF SaveDownstream
  <2> PICK me : me = [runner[r] EXCEPT !.pc = resync, !.next = s]
    BY Zenon
  <2> PICK h : h = handed[r]
    BY Zenon
  <2>2. me.pc = resync /\ me.stage = runner[r].stage /\ me.list = list /\ me.next = s
    BY <1>t, Zenon DEF RunnerState
  <2>3. me = runner'[r] /\ \A q \in Runners : q # r => runner'[q] = runner[q] /\ handed'[q] = handed[q]
    BY <1>t, <2>1, Zenon
  <2>4. row.version < stage[s].version
    <3>1. row.version <= stage[s].version /\ row.version # stage[s].version
      BY <1>1, <1>4, Zenon DEF Copy, CanUpdateStage
    <3>2. row.version \in Nat /\ stage[s].version \in Nat
      BY <1>t, <1>1, Zenon DEF Types, StageRow
    <3> QED BY ONLY <3>1, <3>2
  <2>5. Walk(me, h)
    <3>1. Walk(runner[r], h)
      BY WalkNow, Zenon
    <3> QED BY <2>2, <2>4, <3>1, Zenon DEF Walk, Working
  <2> QED BY <1>t, <2>1, <2>3, <2>5, ReaderWalks, Zenon
<1> QED BY <1>3, <1>4, Zenon

LEMMA CancelDownstreamWalks == ASSUME IInv, EInv, NEW r \in Runners, CancelDownstream(r) PROVE EInv'
<1>1. IInv' /\ Grow
  BY CancelDownstreamInv, Zenon
<1>2. runner[r].pc = "cancelDownstream" /\ UNCHANGED <<execution, handed, signal, cancel>>
  BY Zenon DEF CancelDownstream, queueVars, At
<1>3. CASE ToSkip(r) = {}
  <2> PICK me : me = [runner[r] EXCEPT !.pc = "scheduleDownstream", !.next = 0]
    BY Zenon
  <2> PICK h : h = handed[r]
    BY Zenon
  <2>1. me.pc = "scheduleDownstream" /\ me.stage = runner[r].stage /\ me.list = runner[r].list
    BY Zenon DEF IInv, Types, RunnerState
  <2>2. me = runner'[r] /\ stage' = stage /\ \A q \in Runners : q # r => runner'[q] = runner[q]
    BY <1>3, Zenon DEF CancelDownstream, IInv, Types
  <2>3. Walk(me, h)
    <3>1. Walk(runner[r], h)
      BY WalkNow, Zenon
    <3> QED BY <1>2, <2>1, <3>1, Zenon DEF Walk, Working
  <2> QED BY <1>1, <1>2, <2>2, <2>3, ReaderWalks, Zenon DEF IInv
<1>4. CASE ToSkip(r) # {}
  <2>1. PICK s \in First(ToSkip(r)) : SaveDownstream(r, s, "skipped", "resyncCanceled")
    BY <1>4, Zenon DEF CancelDownstream
  <2>2. s \in DOMAIN runner[r].list /\ runner[r].list[s].status = "waiting"
    BY Zenon DEF First, ToSkip, Waiting
  <2>3. "skipped" \in CIStatus \ {"none"}
    BY Zenon DEF CIStatus
  <2> QED BY <1>1, <1>2, <2>1, <2>2, <2>3, SaveDownstreamWalks, Zenon
<1> QED BY <1>3, <1>4, Zenon

LEMMA ScheduleDownstreamWalks == ASSUME IInv, EInv, NEW r \in Runners, ScheduleDownstream(r) PROVE EInv'
<1>1. IInv' /\ Grow
  BY ScheduleDownstreamInv, Zenon
<1>2. runner[r].pc = "scheduleDownstream" /\ UNCHANGED <<execution, handed, signal, cancel>>
  BY Zenon DEF ScheduleDownstream, At
<1>3. PICK s \in First(ToSchedule(r)) : SaveDownstream(r, s, "pending", "resyncScheduled")
  BY Zenon DEF ScheduleDownstream
<1>4. s \in DOMAIN runner[r].list /\ runner[r].list[s].status = "waiting"
  BY Zenon DEF First, ToSchedule, Waiting
<1>5. "pending" \in CIStatus \ {"none"}
  BY Zenon DEF CIStatus
<1> QED BY <1>1, <1>2, <1>3, <1>4, <1>5, SaveDownstreamWalks, Zenon

LEMMA ResyncWalks == ASSUME IInv, EInv, NEW r \in Runners, Resync(r) PROVE EInv'
<1>1. IInv' /\ Grow
  BY ResyncInv, Zenon
<1>2. /\ runner[r].pc \in {"resyncCanceled", "resyncScheduled"}
      /\ UNCHANGED <<execution, stage, handed, signal, cancel>>
  BY Zenon DEF Resync, queueVars, tableVars
<1> PICK h : h = handed[r]
  BY Zenon
<1>3. Walk(runner[r], h)
  BY WalkNow, Zenon
<1> PICK list \in Lists : list = runner[r].list
  BY Zenon DEF IInv, Types, RunnerState
<1> PICK s \in DOMAIN list : s = runner[r].next
  BY <1>2, Zenon DEF IInv, RunnerInv
<1> PICK row : row = [stage[s] EXCEPT !.version = list[s].version]
  BY Zenon
<1>4. stage[s] \in StageRow /\ list[s] \in StageRow
  BY ListTypes, Zenon DEF IInv, Types
<1>5. row.status = stage[s].status /\ row.version = list[s].version
  BY <1>4, Zenon DEF StageRow
<1>6. Seen(s, row)
  <2>1. list[s].version < stage[s].version /\ HasRow(s)
    BY <1>2, <1>3, Zenon DEF Walk, Seen
  <2> QED BY <1>5, <2>1, Zenon DEF Seen
<1> PICK after : after = [list EXCEPT ![s] = row]
  BY Zenon
<1>7. DOMAIN after = DOMAIN list /\ \A t \in DOMAIN list : Seen(t, after[t])
  <2> PICK D \in SUBSET Stages : list \in [D -> StageRow]
    BY Zenon DEF Lists
  <2>1. \A t \in DOMAIN list : Seen(t, list[t])
    BY <1>3, Zenon DEF Walk
  <2>2. DOMAIN after = DOMAIN list /\ after[s] = row /\ \A t \in DOMAIN list : t # s => after[t] = list[t]
    BY Zenon
  <2> QED BY <1>6, <2>1, <2>2, Zenon
<1> PICK pc \in {"cancelDownstream", "scheduleDownstream"} :
       pc = IF runner[r].pc = "resyncCanceled" THEN "cancelDownstream" ELSE "scheduleDownstream"
  BY Zenon
<1> PICK next : next = s + 1
  BY Zenon
<1> PICK me : me = [runner[r] EXCEPT !.pc = pc, !.list = after, !.next = next]
  BY Zenon
<1>8. me.pc = pc /\ me.stage = runner[r].stage /\ me.list = after
  BY Zenon DEF IInv, Types, RunnerState
<1>9. me = runner'[r] /\ \A q \in Runners : q # r => runner'[q] = runner[q]
  <2>1. runner' = [runner EXCEPT ![r].pc = pc, ![r].list[s] = row, ![r].next = next]
    BY Zenon DEF Resync
  <2>2. runner \in [Runners -> RunnerState]
    BY Zenon DEF IInv, Types
  <2> QED BY ONLY <2>1, <2>2, r \in Runners, list = runner[r].list, after = [list EXCEPT ![s] = row],
                  me = [runner[r] EXCEPT !.pc = pc, !.list = after, !.next = next], Zenon DEF RunnerState
<1>10. Walk(me, h)
  BY <1>2, <1>3, <1>7, <1>8, Zenon DEF Walk, Working
<1> QED BY <1>1, <1>2, <1>9, <1>10, ReaderWalks, Zenon DEF IInv

\* The last stage of an execution to end finds all the others ended.
LEMMA CompleteWalks == ASSUME IInv, EInv, NEW r \in Runners, Complete(r) PROVE EInv'
<1>1. IInv' /\ Grow
  BY CompleteInv, Zenon
<1>2. runner[r].pc = "scheduleDownstream" /\ UNCHANGED <<stage, handed, signal, cancel>> /\ GoIdle(r)
  BY Zenon DEF Complete, queueVars, At
<1>3. runner'[r] = Idle /\ \A q \in Runners : q # r => runner'[q] = runner[q] /\ handed'[q] = handed[q]
  BY <1>2, Zenon DEF GoIdle, IInv, Types
<1> PICK h : h = handed[r]
  BY Zenon
<1>4. Walk(runner[r], h) /\ Walk(Idle, h)
  BY WalkNow, IdleWalks, Zenon DEF Walk
<1> PICK list \in Lists : list = runner[r].list
  BY Zenon DEF IInv, Types, RunnerState
<1> PICK e \in Executions : e = Exec(r)
  <2>1. runner[r].stage \in Stages
    BY <1>2, Zenon DEF IInv, Types, RunnerState, RunnerInv, Working
  <2> QED BY <2>1, StagesAssumption, Zenon DEF Exec
<1>5. ASSUME NEW f \in Executions PROVE execution'[f] = execution[f] \/ EndInv(f)'
  <2>1. CASE execution'[f] = execution[f]
    BY <2>1, Zenon
  <2>2. CASE execution'[f] # execution[f]
    <3>1. isexecutionComplete(list)
          /\ \E status \in FinalStatus(list) : UpdateExecution(e, runner[r].exec, status)
      BY <2>2, Zenon DEF Complete
    <3> PICK status \in FinalStatus(list) : UpdateExecution(e, runner[r].exec, status)
      BY <3>1, Zenon
    <3>2. f = e /\ execution'[e].status = status
      <4> PICK v : v = runner[r].exec.version + 1
        BY Zenon
      <4>1. execution' = [execution EXCEPT ![e] = [status |-> status, version |-> v]]
        BY <3>1, Zenon DEF UpdateExecution
      <4>2. execution \in [Executions -> ExecutionRow]
        BY Zenon DEF IInv, Types
      <4>3. f = e /\ execution'[e].status = status
        BY ONLY <2>2, <4>1, <4>2, e \in Executions, f \in Executions, Zenon
      <4> QED BY <4>3, Zenon
    <3>3. SUFFICES ASSUME ~Canceled(e) PROVE EndInv(e)'
      BY <1>2, <3>2, Zenon DEF EndInv, Canceled
    <3>4. DOMAIN list = {s \in StagesOf(e) : HasRow(s)} /\ \A s \in DOMAIN list : Seen(s, list[s])
      BY <1>2, <1>4, Zenon DEF Walk, Exec
    <3>5. ASSUME NEW s \in DOMAIN list PROVE IsDone(list[s].status) /\ stage[s].status = list[s].status
      <4>1. Live(s)
        BY <3>3, <3>4, Zenon DEF StagesOf, Live
      <4> QED BY <3>1, <3>4, <4>1, Zenon DEF isexecutionComplete, Seen
    <3>6. Ended(e)
      BY <3>4, <3>5, Zenon DEF Ended
    <3>7. status = "success" <=> Succeeded(e)
      <4>1. Succeeded(e) <=> \A s \in DOMAIN list : ~IsFailed(list[s].status)
        BY <3>4, <3>5, Zenon DEF Succeeded
      <4> QED BY <4>1, FinalStatuses, Zenon DEF IsFailed
    <3>8. Ended(e)' /\ (Succeeded(e)' <=> Succeeded(e))
      BY <1>2, <3>6, Zenon DEF Ended, Succeeded, HasRow
    <3> QED BY <3>2, <3>7, <3>8, Zenon DEF EndInv
  <2> QED BY <2>1, <2>2, Zenon
<1> QED BY <1>1, <1>2, <1>3, <1>4, <1>5, ReaderWalks, Zenon DEF IInv

LEMMA RunnerStepWalks ==
    ASSUME IInv, EInv, NEW r \in Runners, RunnerStep(r) \/ DetailsFails(r) PROVE EInv'
<1>1. CASE DetailsFails(r)
  BY <1>1, DropWalks, Zenon DEF DetailsFails, tableVars
<1>2. CASE RunnerStep(r)
  BY <1>2, RequestWalks, AcceptFindWalks, AcceptUpdateWalks, SetupStageWalks, SetupExecutionWalks,
     TeardownFindWalks, TeardownStageWalks, TeardownListWalks, CancelDownstreamWalks,
     ScheduleDownstreamWalks, ResyncWalks, CompleteWalks, Zenon DEF RunnerStep
<1> QED BY <1>1, <1>2, Zenon

\* What remains to be shown of a step that is not a runner's.
LEMMA OthersWalk ==
    ASSUME IInv, Types', Grow, EInv, Moves({}), UNCHANGED <<runner, handed, signal>>,
           \A e \in Executions : CanceledRows(e)',
           \A e \in Executions : execution'[e] = execution[e] \/ EndInv(e)'
    PROVE  EInv'
<1>1. ASSUME NEW q \in Runners PROVE WalkInv(q)'
  <2> PICK R : R = {}
    BY Zenon
  <2>1. q \notin R /\ Moves(R) /\ WalkInv(q) /\ runner'[q] = runner[q] /\ handed'[q] = handed[q]
    BY Zenon DEF EInv
  <2> QED BY <2>1, WalkKept, Zenon
<1>2. \A e \in Executions : EndInv(e)'
  BY EndKept, Zenon DEF EInv
<1>3. ASSUME NEW i \in Instances, NEW s \in signal[i] PROVE Picked(s)'
  BY PickedKept, Zenon DEF EInv, IInv, Types
<1> QED BY <1>1, <1>2, <1>3, Zenon DEF EInv

LEMMA CancelExecutionWalks == ASSUME IInv, EInv, NEW e \in Executions, CancelExecution(e) PROVE EInv'
<1>1. IInv' /\ Grow
  BY CancelExecutionInv, Zenon
<1>2. UNCHANGED <<stage, handed, signal, runner>>
  BY Zenon DEF CancelExecution, queueVars
<1>3. /\ cancel'[e].pc = "list" /\ cancel'[e].list = cancel[e].list
      /\ \A f \in Executions : f # e => cancel'[f] = cancel[f]
  BY Zenon DEF CancelExecution, IInv, Types, CancelState
<1>4. Moves({})
  BY <1>2, <1>3, Zenon DEF Moves, Canceled
<1>5. ASSUME NEW f \in Executions PROVE CanceledRows(f)'
  <2>1. DOMAIN cancel'[f].list \subseteq DOMAIN cancel[f].list
    BY <1>3, Zenon
  <2> QED BY <1>4, <2>1, CanceledRowsKept, Zenon DEF EInv
<1>6. ASSUME NEW f \in Executions PROVE execution'[f] = execution[f] \/ EndInv(f)'
  <2>1. CASE f = e
    BY <1>3, <2>1, Zenon DEF EndInv, Canceled
  <2>2. CASE f # e
    BY <2>2, Zenon DEF CancelExecution, UpdateExecution, IInv, Types
  <2> QED BY <2>1, <2>2, Zenon
<1> QED BY <1>1, <1>2, <1>4, <1>5, <1>6, OthersWalk, Zenon DEF IInv

LEMMA CancelListWalks == ASSUME IInv, EInv, NEW e \in Executions, CancelList(e) PROVE EInv'
<1>1. IInv' /\ Grow
  BY CancelListInv, Zenon
<1>2. UNCHANGED <<execution, stage, handed, signal, runner>>
  BY Zenon DEF CancelList, queueVars, tableVars
<1> PICK S : S = {t \in StagesOf(e) : HasRow(t) /\ ~IsDone(stage[t].status)}
  BY Zenon
<1> PICK list : list = [s \in S |-> stage[s]]
  BY Zenon
<1>3. cancel' = [cancel EXCEPT ![e].pc = "stages", ![e].list = list]
  BY Zenon DEF CancelList
<1>4. /\ cancel'[e].pc = "stages" /\ cancel'[e].list = list
      /\ \A f \in Executions : f # e => cancel'[f] = cancel[f]
  BY <1>3, Zenon DEF IInv, Types, CancelState
<1>5. Moves({})
  BY <1>2, <1>4, Zenon DEF Moves, Canceled
<1>6. ASSUME NEW f \in Executions PROVE CanceledRows(f)'
  <2>1. CASE f = e
    <3>1. DOMAIN cancel'[e].list = S
      BY <1>4, Zenon
    <3>2. \A s \in S : HasRow(s)' /\ ExecutionOf[s] = e
      BY <1>2, Zenon DEF StagesOf, HasRow
    <3> QED BY <2>1, <3>1, <3>2, Zenon DEF CanceledRows
  <2>2. CASE f # e
    <3>1. DOMAIN cancel'[f].list \subseteq DOMAIN cancel[f].list
      BY <1>4, <2>2, Zenon
    <3> QED BY <1>5, <3>1, CanceledRowsKept, Zenon DEF EInv
  <2> QED BY <2>1, <2>2, Zenon
<1> QED BY <1>1, <1>2, <1>5, <1>6, OthersWalk, Zenon DEF IInv

LEMMA CancelStageWalks == ASSUME IInv, EInv, NEW e \in Executions, CancelStage(e) PROVE EInv'
<1>1. IInv' /\ Grow
  BY CancelStageInv, Zenon
<1>2. UNCHANGED <<execution, handed, signal, runner>> /\ cancel[e].pc = "stages"
  BY Zenon DEF CancelStage, queueVars
<1>3. cancel \in [Executions -> CancelState] /\ Types
  BY Zenon DEF IInv, Types
<1> PICK list \in Lists : list = cancel[e].list
  BY <1>3, Zenon DEF CancelState
<1> PICK D \in SUBSET Stages : list \in [D -> StageRow]
  BY Zenon DEF Lists
<1>4. PICK s \in D :
      /\ IF CanUpdateStage(s, list[s])
         THEN UpdateStage(s, list[s], IF list[s].status = "running" THEN "killed" ELSE "skipped")
         ELSE UNCHANGED stage
      /\ cancel' = [cancel EXCEPT ![e].list = [t \in D \ {s} |-> list[t]]]
  <2>1. PICK s \in First(DOMAIN cancel[e].list) :
        /\ IF CanUpdateStage(s, cancel[e].list[s])
           THEN UpdateStage(s, cancel[e].list[s],
                            IF cancel[e].list[s].status = "running" THEN "killed" ELSE "skipped")
           ELSE UNCHANGED stage
        /\ cancel' = [cancel EXCEPT ![e].list =
                          [t \in DOMAIN cancel[e].list \ {s} |-> cancel[e].list[t]]]
    BY Zenon DEF CancelStage
  <2>2. s \in D
    BY Zenon DEF First
  <2>3. [t \in DOMAIN cancel[e].list \ {s} |-> cancel[e].list[t]] = [t \in D \ {s} |-> list[t]]
    BY Zenon
  <2> QED BY <2>1, <2>2, <2>3, Zenon
<1>5. s \in Stages /\ Known(s) /\ Copy(s, list[s]) /\ HasRow(s) /\ ExecutionOf[s] = e
  BY Zenon DEF IInv, CancelInv, EInv, CanceledRows
<1> PICK row \in StageRow : row = list[s]
  BY Zenon
<1> PICK rest : rest = [t \in D \ {s} |-> list[t]]
  BY Zenon
<1>6. cancel' = [cancel EXCEPT ![e].list = rest]
  BY <1>4, Zenon
<1>7. /\ cancel'[e].pc = "stages" /\ cancel'[e].list = rest
      /\ \A f \in Executions : f # e => cancel'[f] = cancel[f]
  BY <1>2, <1>3, <1>6, Zenon DEF CancelState
<1>8. \A f \in Executions : Canceled(f) => Canceled(f)'
  BY <1>7, Zenon DEF Canceled
<1>9. ~Live(s)
  BY <1>2, <1>5, Zenon DEF Live, Canceled
<1>10. Moves({})
  <2>1. CASE CanUpdateStage(s, row)
    <3> PICK status \in CIStatus : status = IF row.status = "running" THEN "killed" ELSE "skipped"
      BY Zenon DEF CIStatus
    <3>1. UpdateStage(s, row, status) /\ status # "none"
      BY <1>4, <2>1, Zenon
    <3>3. /\ stage'[s] = [status |-> status, machine |-> row.machine, version |-> row.version + 1]
          /\ \A t \in Stages : t # s => stage'[t] = stage[t]
      <4>1. UpdateStage(s, row, status) /\ s \in Stages /\ stage \in [Stages -> StageRow]
        BY <1>3, <1>5, <3>1, Zenon DEF Types
      <4> QED BY ONLY <4>1, Zenon DEF UpdateStage
    <3>4. stage[s].version < stage'[s].version /\ stage'[s].status = status
      <4>1. row.version \in Nat /\ stage[s].version = row.version
        BY <2>1, Zenon DEF StageRow, CanUpdateStage
      <4> QED BY ONLY <3>3, <4>1
    <3>5. Moved({}, s)
      BY <1>5, <1>9, <3>1, <3>4, Zenon DEF Moved, HasRow
    <3> QED BY <1>8, <3>3, <3>5, Zenon DEF Moves
  <2>2. CASE ~CanUpdateStage(s, row)
    <3>1. stage' = stage
      BY <1>4, <2>2, Zenon
    <3> QED BY <1>8, <3>1, Zenon DEF Moves
  <2> QED BY <2>1, <2>2, Zenon
<1>11. ASSUME NEW f \in Executions PROVE CanceledRows(f)'
  <2>1. DOMAIN cancel'[f].list \subseteq DOMAIN cancel[f].list
    <3>1. CASE f = e
      BY <1>7, <3>1, Zenon
    <3>2. CASE f # e
      BY <1>7, <3>2, Zenon
    <3> QED BY <3>1, <3>2, Zenon
  <2> QED BY <1>10, <2>1, CanceledRowsKept, Zenon DEF EInv
<1> QED BY <1>1, <1>2, <1>10, <1>11, OthersWalk, Zenon DEF IInv

LEMMA SignalStepWalks == ASSUME IInv, EInv, NEW i \in Instances, SignalStep(i) PROVE EInv'
<1>1. UNCHANGED <<execution, stage, runner, cancel>>
  BY Zenon DEF SignalStep, tableVars
<1>2. /\ \A j \in Instances : \A s \in signal'[j] : Picked(s)
      /\ \A r \in Runners : handed'[r] # None => Picked(handed'[r])
  <2>0. \A r \in Runners : handed[r] # None => Picked(handed[r])
    BY Zenon DEF EInv, WalkInv
  <2>1. CASE SignalList(i)
    <3>1. \A s \in Eligible : Picked(s)
      <4>1. \A s \in Eligible : stage[s].status = "pending"
        BY Zenon DEF Eligible, ListIncomplete
      <4> QED BY <4>1, Zenon DEF Picked, HasRow
    <3>2. signal' \in {signal, [signal EXCEPT ![i] = Eligible]} /\ handed' = handed
      BY <2>1, Zenon DEF SignalList
    <3> QED BY <2>0, <3>1, <3>2, Zenon DEF EInv, IInv, Types
  <2>2. CASE SignalHand(i)
    <3>1. signal' = [signal EXCEPT ![i] = {}]
      BY <2>2, Zenon DEF SignalHand
    <3>2. PICK g \in Assignments(signal[i], workers[i]) :
             handed' = [r \in Runners |->
                          IF r \in {q \in workers[i] : \E s \in DOMAIN g : g[s] = q}
                          THEN CHOOSE s \in DOMAIN g : g[s] = r ELSE handed[r]]
      BY <2>2, Zenon DEF SignalHand
    <3>3. DOMAIN g = signal[i]
      BY Zenon DEF Assignments
    <3>4. ASSUME NEW r \in Runners PROVE handed'[r] = handed[r] \/ handed'[r] \in signal[i]
      <4>1. CASE \E s \in DOMAIN g : g[s] = r
        BY <3>2, <3>3, <4>1, Zenon
      <4>2. CASE ~\E s \in DOMAIN g : g[s] = r
        BY <3>2, <4>2, Zenon
      <4> QED BY <4>1, <4>2, Zenon
    <3> QED BY <2>0, <3>1, <3>4, Zenon DEF EInv, IInv, Types
  <2> QED BY <2>1, <2>2, Zenon DEF SignalStep
<1>3. ASSUME NEW r \in Runners PROVE WalkInv(r)'
  <2> PICK me : me = runner[r]
    BY Zenon
  <2> PICK h : h = handed'[r]
    BY Zenon
  <2> PICK o : o = handed[r]
    BY Zenon
  <2>1. Walk(me, o)
    BY WalkNow, Zenon
  <2>2. h # None => Picked(h)
    BY <1>2, Zenon
  <2>3. Walk(me, h)
    BY ONLY <2>1, <2>2, Zenon DEF Walk
  <2>4. me = runner'[r]
    BY <1>1, Zenon
  <2> QED BY <1>1, <2>3, <2>4, WalkThen, Zenon
<1>4. Moves({})
  BY <1>1, SameMoves, Zenon
<1>5. ASSUME NEW e \in Executions PROVE CanceledRows(e)' /\ EndInv(e)'
  <2>1. DOMAIN cancel'[e].list \subseteq DOMAIN cancel[e].list /\ execution'[e] = execution[e]
    BY <1>1, Zenon
  <2> QED BY <1>4, <2>1, CanceledRowsKept, EndKept, Zenon DEF EInv
<1>6. ASSUME NEW s PROVE Picked(s) => Picked(s)'
  BY <1>1, Zenon DEF Picked, HasRow, Live, Canceled
<1> QED BY <1>2, <1>3, <1>5, <1>6, Zenon DEF EInv

LEMMA TriggerWalks == ASSUME IInv, EInv, NEW e \in Executions, Trigger(e) PROVE EInv'
<1>1. IInv' /\ Grow
  BY TriggerInv, Zenon
<1>2. UNCHANGED <<handed, signal, runner, cancel>>
  BY Zenon DEF Trigger
<1>3. PICK c \in Configs[e] : CreateExecution(e, c)
  BY Zenon DEF Trigger
<1>4. execution[e].status = "none" /\ execution \in [Executions -> ExecutionRow]
  BY <1>3, Zenon DEF CreateExecution, IInv, Types
<1>5. /\ \/ stage' = stage /\ execution' = [execution EXCEPT ![e].status = "error"]
         \/ /\ stage' = [s \in Stages |-> IF s \in StagesOf(e) THEN NewStage(c, s) ELSE stage[s]]
            /\ execution' = [execution EXCEPT ![e].status = "pending"]
  BY <1>3, Zenon DEF CreateExecution
<1>6. Moves({})
  <2>1. ASSUME NEW s \in Stages, Known(s) PROVE stage'[s] = stage[s]
    <3>1. s \notin StagesOf(e)
      BY <1>4, <2>1, Zenon DEF Known, StagesOf
    <3> QED BY <1>5, <3>1, Zenon
  <2> QED BY <1>2, <2>1, Zenon DEF Moves, Canceled
<1>7. ASSUME NEW f \in Executions PROVE CanceledRows(f)'
  <2>1. DOMAIN cancel'[f].list \subseteq DOMAIN cancel[f].list
    BY <1>2, Zenon
  <2> QED BY <1>6, <2>1, CanceledRowsKept, Zenon DEF EInv
<1>8. ASSUME NEW f \in Executions PROVE execution'[f] = execution[f] \/ EndInv(f)'
  <2>1. CASE f # e
    BY <1>4, <1>5, <2>1, Zenon
  <2>2. CASE f = e
    <3>1. CASE execution' = [execution EXCEPT ![e].status = "pending"]
      <4>1. execution'[e].status = "pending"
        BY <1>4, <3>1, Zenon DEF ExecutionRow
      <4> QED BY <2>2, <4>1, Zenon DEF EndInv, IsDone
    <3>2. CASE stage' = stage /\ execution' = [execution EXCEPT ![e].status = "error"]
      <4>1. execution'[e].status = "error"
        BY <1>4, <3>2, Zenon DEF ExecutionRow
      <4>2. ASSUME NEW s \in StagesOf(e) PROVE ~HasRow(s)'
        <5>1. s \in Stages /\ ~Known(s)
          BY <1>4, Zenon DEF StagesOf, Known
        <5>2. stage[s] = NoRow
          BY <5>1, Zenon DEF IInv, StageInv
        <5>3. stage'[s] = NoRow /\ NoRow.status = "none"
          BY <3>2, <5>2, Zenon DEF NoRow
        <5> QED BY <5>3, Zenon DEF HasRow
      <4> QED BY <2>2, <4>1, <4>2, Zenon DEF EndInv
    <3> QED BY <1>5, <3>1, <3>2, Zenon
  <2> QED BY <2>1, <2>2, Zenon
<1> QED BY <1>1, <1>2, <1>6, <1>7, <1>8, OthersWalk, Zenon DEF IInv

LEMMA InitWalks == Init => EInv
<1> SUFFICES ASSUME Init PROVE EInv
  BY Zenon
<1>1. \A i \in Instances : \A s \in signal[i] : Picked(s)
  BY Zenon DEF Init, QueueInit
<1>2. ASSUME NEW r \in Runners PROVE WalkInv(r)
  <2>1. runner[r] = Idle /\ handed[r] = None /\ DOMAIN Idle.list = {} /\ Idle.pc = "idle"
    BY Zenon DEF Init, QueueInit, Idle, NoList
  <2> QED BY <2>1, Zenon DEF WalkInv, Working, Holds
<1>3. ASSUME NEW e \in Executions PROVE CanceledRows(e) /\ EndInv(e)
  <2>1. DOMAIN cancel[e].list = {}
    BY Zenon DEF Init, NotCanceled, NoList
  <2>2. execution[e].status = "none"
    BY Zenon DEF Init, TablesInit
  <2> QED BY <2>1, <2>2, Zenon DEF CanceledRows, EndInv, IsDone
<1> QED BY <1>1, <1>2, <1>3, Zenon DEF EInv

LEMMA SameWalks == ASSUME IInv, EInv, UNCHANGED <<execution, stage, handed, signal, runner, cancel>> PROVE EInv'
<1>1. IInv' /\ Grow /\ Moves({})
  BY SameInv, SameGrows, SameMoves, Zenon DEF IInv
<1>2. ASSUME NEW e \in Executions PROVE CanceledRows(e)'
  <2>1. DOMAIN cancel'[e].list \subseteq DOMAIN cancel[e].list
    BY Zenon
  <2> QED BY <1>1, <2>1, CanceledRowsKept, Zenon DEF EInv
<1> QED BY <1>1, <1>2, OthersWalk, Zenon DEF IInv

LEMMA FailedSignalWalks == ASSUME IInv, EInv, NEW i \in Instances, FailedSignal(i) PROVE EInv'
<1>1. UNCHANGED <<execution, stage, handed, signal, runner, cancel>>
  BY Zenon DEF FailedSignal, SignalFails, tableVars
<1> QED BY <1>1, SameWalks, Zenon

LEMMA NextWalks == IInv /\ EInv /\ [Next]_vars => EInv'
<1> SUFFICES ASSUME IInv, EInv, [Next]_vars PROVE EInv'
  BY Zenon
<1>1. CASE Next
  BY <1>1, TriggerWalks, CancelExecutionWalks, CancelListWalks, CancelStageWalks, RunnerStepWalks,
     SignalStepWalks, FailedSignalWalks, Zenon DEF Next, CancelStep
<1>2. CASE UNCHANGED vars
  <2>1. UNCHANGED <<execution, stage, handed, signal, runner, cancel>>
    BY <1>2, Zenon DEF vars, tableVars, queueVars
  <2> QED BY <2>1, SameWalks, Zenon
<1> QED BY <1>1, <1>2, Zenon

\* An execution that nobody cancels is reported as ended only when all of its stages have
\* ended, and as a success exactly when none has failed, although the runner that completes
\* it decides from a list it has read before, and others write to the same stages.
THEOREM ExecutionEndsWithItsStages == Spec => []EndsWithItsStages
<1>1. EInv => EndsWithItsStages
  <2> SUFFICES ASSUME EInv, NEW e \in Executions, ~Canceled(e), IsDone(execution[e].status)
               PROVE  LET rows == {s \in StagesOf(e) : HasRow(s)}
                      IN  \/ rows = {} /\ execution[e].status = "error"
                          \/ /\ \A s \in rows : IsDone(stage[s].status)
                             /\ execution[e].status = "success" <=> \A s \in rows : ~IsFailed(stage[s].status)
    BY Zenon DEF EndsWithItsStages
  <2> PICK rows : rows = {s \in StagesOf(e) : HasRow(s)}
    BY Zenon
  <2>1. EndInv(e)
    BY Zenon DEF EInv
  <2>2. CASE (\A s \in StagesOf(e) : ~HasRow(s)) /\ execution[e].status = "error"
    BY <2>2, Zenon
  <2>3. CASE Ended(e) /\ (execution[e].status = "success" <=> Succeeded(e))
    <3>1. \A s \in rows : IsDone(stage[s].status)
      BY <2>3, Zenon DEF Ended
    <3>2. Succeeded(e) <=> \A s \in rows : ~IsFailed(stage[s].status)
      BY Zenon DEF Succeeded
    <3> QED BY <2>3, <3>1, <3>2, Zenon
  <2> QED BY <2>1, <2>2, <2>3, Zenon DEF EndInv
<1>2. IInv /\ [Next]_vars => IInv'
  BY NextInv, Zenon
<1> QED BY InitInv, InitWalks, NextWalks, <1>1, <1>2, PTL DEF Spec
============================================================================
