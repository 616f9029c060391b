------------------------ MODULE PipelineQueueProofs ------------------------
(***************************************************************************)
(* The build queue of a single server loses no wakeup but by a signal that *)
(* fails, for any number of executions, stages and runners, and any        *)
(* configurations.                                                         *)
(*                                                                         *)
(* A free stage that nobody has at hand is in the list of the signal in    *)
(* progress or has no waiting runner that matches, or else there is a      *)
(* token (Covered), from each signal that succeeds to the next that fails. *)
(* A row becomes free only with a token (Written), since  *)
(* a stage that was handed out waits for nothing (Past) and a write of a   *)
(* copy that still says so is refused (Follows); and a runner that gives   *)
(* up a stage leaves it with a machine, or has lost it to somebody         *)
(* (QueueRunner).                                                          *)
(***************************************************************************)
EXTENDS PipelineManagerProofs

\* The stage is pending and nobody has accepted it.
Free(s) == stage[s].status = "pending" /\ stage[s].machine = None

\* The stage waits for no other one, or does so no longer.
Past(s) == stage[s].status \notin {"none", "waiting"}

InHand(s) == \E q \in Runners : handed[q] = s \/ runner[q].stage = s

\* A copy with the version of the row has its status.
Follows(list) ==
    \A s \in DOMAIN list : list[s].version = stage[s].version => list[s].status = stage[s].status

\* What a runner of server i knows of its stage, and what it leaves behind.
QueueRunner(i, r) ==
    /\ runner[r].pc \in {"idle", "waiting"} => runner[r].stage = None
    /\ runner[r].pc # "waiting" => handed[r] = None
    /\ r \in workers[i] => runner[r].pc = "waiting" /\ handed[r] = None
    /\ handed[r] # None => Past(handed[r])
    /\ runner[r].pc = "accept" =>
          /\ Past(runner[r].stage)
          /\ runner[r].row.version = stage[runner[r].stage].version \/ ~Free(runner[r].stage)
    /\ runner[r].pc \in Working \ {"accept"} => stage[runner[r].stage].machine # None
    /\ runner[r].pc = "teardown" => runner[r].row.status \in Outcomes \cup {"error"}
    /\ Follows(runner[r].list)

\* A free stage without a limit is not forgotten.
Covered(i, s) ==
    Free(s) /\ Limit[s] = 0 =>
        \/ ready[i]
        \/ InHand(s)
        \/ s \in signal[i]
        \/ \A r \in workers[i] : s \notin Matches[r]

QInv(i) ==
    /\ ready \in [Instances -> BOOLEAN]
    /\ workers \in [Instances -> SUBSET Runners]
    /\ \A r \in Runners : QueueRunner(i, r)
    /\ \A s \in signal[i] : Past(s)
    /\ missed \in [Instances -> BOOLEAN]
    /\ missed[i] \/ \A s \in Stages : Covered(i, s)

-----------------------------------------------------------------------------
(* What a step may do. *)

\* The row of a stage becomes free when it is created or no longer waits for others,
\* and the loop is woken then.
Written(i, s) ==
    \/ stage'[s] = stage[s]
    \/ ~Known(s) /\ (Free(s)' => ready'[i])
    \/ /\ stage[s].version < stage'[s].version
       /\ Past(s)'
       /\ Free(s)' => stage[s].status = "waiting" /\ ready'[i]

\* A write moves the version on: the copies of others are older.
LEMMA FollowsKept ==
    ASSUME IInv, NEW i, \A s \in Stages : Written(i, s), NEW r \in Runners,
           NEW list, list = runner[r].list, Follows(list)
    PROVE  Follows(list)'
<1> SUFFICES ASSUME NEW s \in DOMAIN list, list[s].version = stage'[s].version
             PROVE  list[s].status = stage'[s].status
  BY Zenon DEF Follows
<1>1. list \in Lists /\ RunnerInv(r)
  BY Zenon DEF IInv, Types, RunnerState
<1>2. s \in Stages /\ Known(s) /\ Copy(s, list[s])
  BY <1>1, ListTypes, Zenon DEF RunnerInv
<1>3. list[s] \in StageRow /\ stage[s] \in StageRow
  BY <1>1, <1>2, ListTypes, Zenon DEF IInv, Types
<1>4. ~(stage[s].version < stage'[s].version)
  <2>1. /\ list[s].version <= stage[s].version /\ list[s].version \in Nat /\ stage[s].version \in Nat
        /\ list[s].version = stage'[s].version
    BY <1>2, <1>3, Zenon DEF Copy, StageRow
  <2> QED BY ONLY <2>1
<1>5. stage'[s] = stage[s]
  BY <1>2, <1>4, Zenon DEF Written
<1> QED BY <1>5, Zenon DEF Follows

\* What is known of a runner that does not move stays true.
LEMMA QueueRunnerKept ==
    ASSUME IInv, IInv', Grow, NEW i, \A s \in Stages : Written(i, s),
           NEW q \in Runners, QueueRunner(i, q), runner'[q] = runner[q], handed'[q] = handed[q],
           q \in workers'[i] => q \in workers[i]
    PROVE  QueueRunner(i, q)'
<1> PICK me \in RunnerState : me = runner[q]
  BY Zenon DEF IInv, Types
<1> PICK h \in Stages \cup {None} : h = handed[q]
  BY Zenon DEF IInv, Types
<1>1. me = runner'[q] /\ h = handed'[q] /\ RunnerInv(q)
  BY Zenon DEF IInv
<1>2. ASSUME NEW s \in Stages, Known(s), Past(s) PROVE Past(s)'
  BY <1>2, Zenon DEF Written, Past
<1>3. h # None => Past(h)'
  BY <1>1, <1>2, Zenon DEF QueueRunner, RunnerInv
<1>4. ASSUME me.pc = "accept"
      PROVE  Past(me.stage)' /\ (me.row.version = stage'[me.stage].version \/ ~Free(me.stage)')
  <2> PICK s \in Stages : s = me.stage
    BY <1>1, <1>4, Zenon DEF RunnerInv, RunnerState, Working
  <2>1. Known(s) /\ Past(s) /\ (me.row.version = stage[s].version \/ ~Free(s))
    BY <1>1, <1>4, Zenon DEF RunnerInv, QueueRunner, Working
  <2>2. me.row.version = stage'[s].version \/ ~Free(s)'
    BY <2>1, Zenon DEF Written, Past, Free
  <2> QED BY <1>2, <2>1, <2>2, Zenon
<1>5. ASSUME me.pc \in Working \ {"accept"} PROVE stage'[me.stage].machine # None
  <2>1. me.stage \in Stages /\ stage[me.stage].machine # None
    BY <1>1, <1>5, Zenon DEF RunnerInv, QueueRunner, RunnerState
  <2> QED BY <2>1, Zenon DEF Grow, Grows
<1>6. Follows(me.list)'
  <2> PICK list : list = me.list
    BY Zenon
  <2>1. Follows(list)'
    BY FollowsKept, Zenon DEF QueueRunner
  <2> QED BY <2>1, Zenon
<1> QED BY <1>1, <1>3, <1>4, <1>5, <1>6, Zenon DEF QueueRunner

\* A stage is not forgotten as long as those who have it at hand keep it.
LEMMA CoveredKept ==
    ASSUME NEW i, NEW s \in Stages, Covered(i, s), Written(i, s), ready[i] => ready'[i],
           signal'[i] = signal[i], workers'[i] \subseteq workers[i], Free(s)' /\ InHand(s) => InHand(s)'
    PROVE  Covered(i, s)'
<1> SUFFICES ASSUME Free(s)', Limit[s] = 0
             PROVE  \/ ready'[i] \/ InHand(s)' \/ s \in signal'[i]
                    \/ \A r \in workers'[i] : s \notin Matches[r]
  BY Zenon DEF Covered
<1>1. CASE stage'[s] = stage[s]
  <2>1. Free(s)
    BY <1>1, Zenon DEF Free
  <2> QED BY <2>1, Zenon DEF Covered
<1>2. CASE stage'[s] # stage[s]
  BY <1>2, Zenon DEF Written
<1> QED BY <1>1, <1>2, Zenon

\* What remains to be shown of a step that leaves the queue alone but for a token.
LEMMA QueueKept ==
    ASSUME IInv, IInv', Grow, NEW i \in Instances, QInv(i), NEW R \in SUBSET Runners,
           \A s \in Stages : Written(i, s),
           ready' \in [Instances -> BOOLEAN], ready[i] => ready'[i], workers' = workers, signal' = signal,
           handed' = handed, missed' = missed,
           \A q \in Runners \ R : runner'[q] = runner[q],
           \A q \in R : /\ QueueRunner(i, q)'
                        /\ \/ runner'[q].stage = runner[q].stage
                           \/ \A s \in Stages : runner[q].stage = s => ~Free(s)'
    PROVE  QInv(i)'
<1>1. \A q \in Runners : QueueRunner(i, q)'
  BY QueueRunnerKept, Zenon DEF QInv
<1>2. \A s \in signal'[i] : Past(s)'
  <2>1. ASSUME NEW s \in signal[i] PROVE s \in Stages /\ Known(s) /\ Past(s)
    BY Zenon DEF QInv, IInv, Types
  <2> QED BY <2>1, Zenon DEF Written, Past
<1>3. ASSUME NEW s \in Stages, ~missed[i] PROVE Covered(i, s)'
  <2>1. ASSUME Free(s)', InHand(s) PROVE InHand(s)'
    <3>1. PICK q \in Runners : handed[q] = s \/ runner[q].stage = s
      BY <2>1, Zenon DEF InHand
    <3>2. handed'[q] = s \/ runner'[q].stage = s
      BY <2>1, <3>1, Zenon
    <3> QED BY <3>2, Zenon DEF InHand
  <2> QED BY <1>3, <2>1, CoveredKept, Zenon DEF QInv
<1> QED BY <1>1, <1>2, <1>3, Zenon DEF QInv

LEMMA SameWritten == ASSUME stage' = stage, NEW i PROVE \A s \in Stages : Written(i, s)
BY Zenon DEF Written

-----------------------------------------------------------------------------
(* One lemma per action, and for what several have in common. *)

\* A runner with a stage goes on with it and leaves the tables of stages alone.
LEMMA ReaderQueues ==
    ASSUME IInv, IInv', Grow, NEW i \in Instances, QInv(i), NEW r \in Runners,
           runner[r].pc \in Working \ {"accept"}, UNCHANGED <<stage, queueVars>>,
           NEW me, me = runner'[r], me.pc \in Working \ {"accept"}, me.stage = runner[r].stage, Follows(me.list),
           me.pc = "teardown" => me.row.status \in Outcomes \cup {"error"},
           \A q \in Runners : q # r => runner'[q] = runner[q]
    PROVE  QInv(i)'
<1>1. UNCHANGED <<ready, workers, signal, handed, missed>>
  BY Zenon DEF queueVars
<1>2. handed[r] = None /\ r \notin workers[i] /\ stage[runner[r].stage].machine # None
  BY Zenon DEF QInv, QueueRunner, Working
<1>3. QueueRunner(i, r)'
  <2>1. Follows(me.list)'
    <3> PICK list : list = me.list
      BY Zenon
    <3>1. Follows(list)'
      BY Zenon DEF Follows
    <3> QED BY <3>1, Zenon
  <2>2. me.pc \notin {"idle", "waiting", "accept"}
    BY Zenon DEF Working
  <2>3. stage'[me.stage].machine # None /\ handed'[r] = None /\ r \notin workers'[i]
    BY <1>1, <1>2, Zenon
  <2> QED BY <2>1, <2>2, <2>3, Zenon DEF QueueRunner
<1>4. \A s \in Stages : Written(i, s)
  BY SameWritten, Zenon
<1> PICK R \in SUBSET Runners : R = {r}
  BY Zenon
<1>5. ready' \in [Instances -> BOOLEAN] /\ \A q \in R : q = r
  BY <1>1, Zenon DEF QInv
<1> QED BY <1>1, <1>3, <1>4, <1>5, QueueKept, Zenon

\* A runner gives up a stage that is not free.
LEMMA DropQueues ==
    ASSUME IInv, IInv', Grow, NEW i \in Instances, QInv(i), NEW r \in Runners,
           runner[r].pc \in Working, GoIdle(r), UNCHANGED <<stage, queueVars>>, ~Free(runner[r].stage)
    PROVE  QInv(i)'
<1>1. UNCHANGED <<ready, workers, signal, handed, missed>>
  BY Zenon DEF queueVars
<1>2. handed[r] = None /\ r \notin workers[i]
  BY Zenon DEF QInv, QueueRunner, Working
<1>3. runner'[r] = Idle /\ \A q \in Runners : q # r => runner'[q] = runner[q]
  BY Zenon DEF GoIdle, IInv, Types
<1>4. QueueRunner(i, r)'
  <2>1. Idle.pc = "idle" /\ Idle.stage = None /\ DOMAIN Idle.list = {}
    BY Zenon DEF Idle, NoList
  <2> QED BY <1>1, <1>2, <1>3, <2>1, Zenon DEF QueueRunner, Follows, Working
<1>5. \A s \in Stages : Written(i, s)
  BY SameWritten, Zenon
<1>6. \A s \in Stages : runner[r].stage = s => ~Free(s)'
  BY Zenon DEF Free
<1> PICK R \in SUBSET Runners : R = {r}
  BY Zenon
<1>7. ready' \in [Instances -> BOOLEAN] /\ \A q \in R : q = r
  BY <1>1, Zenon DEF QInv
<1> QED BY <1>1, <1>3, <1>4, <1>5, <1>6, <1>7, QueueKept, Zenon

\* The row of a stage is written by the runner that has it.
LEMMA SaveStageQueues ==
    ASSUME IInv, IInv', Grow, NEW i \in Instances, QInv(i), NEW r \in Runners, runner[r].pc \in Working,
           NEW s \in Stages, s = runner[r].stage, NEW row \in StageRow, row.machine # None,
           NEW status \in CIStatus \ {"none", "waiting"},
           NEW pc \in {"accepted", "updateExecution", "list"},
           stage[s].machine # None => row.machine = stage[s].machine,
           SaveStage(r, row, status, pc), UNCHANGED queueVars
    PROVE  QInv(i)'
<1>1. UNCHANGED <<ready, workers, signal, handed, missed>>
  BY Zenon DEF queueVars
<1>2. handed[r] = None /\ r \notin workers[i]
  BY Zenon DEF QInv, QueueRunner, Working
<1>3. CanUpdateStage(s, row) /\ UpdateStage(s, row, status)
  BY Zenon DEF SaveStage
<1>4. /\ stage'[s] = [status |-> status, machine |-> row.machine, version |-> row.version + 1]
      /\ \A t \in Stages : t # s => stage'[t] = stage[t]
  <2>1. UpdateStage(s, row, status) /\ s \in Stages /\ stage \in [Stages -> StageRow]
    BY <1>3, Zenon DEF IInv, Types
  <2> QED BY ONLY <2>1, Zenon DEF UpdateStage
<1>5. stage'[s].status = status /\ stage'[s].machine # None /\ stage[s].version < stage'[s].version
  <2>1. row.version \in Nat /\ stage[s].version = row.version
    BY <1>3, Zenon DEF StageRow, CanUpdateStage
  <2>2. stage'[s].version = row.version + 1 /\ stage'[s].status = status /\ stage'[s].machine = row.machine
    BY ONLY <1>4
  <2>3. stage[s].version < stage'[s].version
    BY ONLY <2>1, <2>2
  <2> QED BY <2>2, <2>3, Zenon
<1>6. \A t \in Stages : Written(i, t)
  BY <1>4, <1>5, Zenon DEF Written, Past, Free
<1> PICK new : new = stage'[s]
  BY Zenon
<1> PICK list : list = runner[r].list
  BY Zenon
<1>7. /\ runner'[r].pc = pc /\ runner'[r].stage = s /\ runner'[r].list = list
      /\ \A q \in Runners : q # r => runner'[q] = runner[q]
  <2>1. runner' = [runner EXCEPT ![r].pc = pc, ![r].row = new]
    BY Zenon DEF SaveStage
  <2> QED BY <2>1, Zenon DEF IInv, Types, RunnerState
<1>8. QueueRunner(i, r)'
  <2>1. Follows(list)'
    BY <1>6, FollowsKept, Zenon DEF QInv, QueueRunner
  <2>2. Follows(runner[r].list)'
    BY <1>7, <2>1, Zenon
  <2> QED BY <1>1, <1>2, <1>5, <1>7, <2>2, Zenon DEF QueueRunner
<1> PICK R \in SUBSET Runners : R = {r}
  BY Zenon
<1>9. ready' \in [Instances -> BOOLEAN] /\ \A q \in R : q = r
  BY <1>1, Zenon DEF QInv
<1> QED BY <1>1, <1>6, <1>7, <1>8, <1>9, QueueKept, Zenon

\* A stage of the list is skipped or scheduled.
LEMMA SaveDownstreamQueues ==
    ASSUME IInv, IInv', Grow, NEW i \in Instances, QInv(i), NEW r \in Runners,
           runner[r].pc \in {"cancelDownstream", "scheduleDownstream"},
           NEW s \in DOMAIN runner[r].list, runner[r].list[s].status = "waiting",
           NEW status \in {"skipped", "pending"},
           NEW resync \in {"resyncCanceled", "resyncScheduled"},
           SaveDownstream(r, s, status, resync),
           ready' \in [Instances -> BOOLEAN], ready[i] => ready'[i],
           status = "pending" /\ CanUpdateStage(s, runner[r].list[s]) => ready'[i],
           UNCHANGED <<workers, signal, handed, missed>>
    PROVE  QInv(i)'
<1>t. /\ Types /\ runner \in [Runners -> RunnerState] /\ runner[r] \in RunnerState
      /\ RunnerInv(r) /\ QueueRunner(i, r)
  BY Zenon DEF IInv, Types, QInv
<1> PICK list \in Lists : list = runner[r].list
  BY <1>t, Zenon DEF RunnerState
<1> PICK row \in StageRow : row = list[s]
  BY ListTypes, Zenon
<1>1. s \in Stages /\ Known(s) /\ Copy(s, row) /\ row.status = "waiting" /\ status \in CIStatus
  BY <1>t, ListTypes, Zenon DEF RunnerInv, CIStatus
<1>2. handed[r] = None /\ r \notin workers[i] /\ stage[runner[r].stage].machine # None
  BY <1>t, Zenon DEF QueueRunner, Working
<1> PICK R \in SUBSET Runners : R = {r}
  BY Zenon
<1>3. CASE CanUpdateStage(s, row)
  <2>1. UpdateStage(s, row, status) /\ runner' = [runner EXCEPT ![r].list[s] = stage'[s], ![r].next = s + 1]
    BY <1>3, Zenon DEF SaveDownstream
  <2>3. /\ stage'[s] = [status |-> status, machine |-> row.machine, version |-> row.version + 1]
        /\ \A t \in Stages : t # s => stage'[t] = stage[t]
    <3>1. UpdateStage(s, row, status) /\ s \in Stages /\ stage \in [Stages -> StageRow]
      BY <1>t, <1>1, <2>1, Zenon DEF IInv, Types
    <3> QED BY ONLY <3>1, Zenon DEF UpdateStage
  <2>4. stage[s].version < stage'[s].version /\ stage'[s].status = status
    <3>1. row.version \in Nat /\ stage[s].version = row.version
      BY <1>3, Zenon DEF StageRow, CanUpdateStage
    <3> QED BY ONLY <2>3, <3>1
  <2>5. stage[s].status = "waiting"
    BY <1>t, <1>1, <1>3, Zenon DEF QueueRunner, Follows, CanUpdateStage
  <2>6. \A t \in Stages : Written(i, t)
    <3>1. Written(i, s)
      BY <1>3, <2>4, <2>5, Zenon DEF Written, Past, Free
    <3> QED BY <2>3, <3>1, Zenon DEF Written
  <2> PICK saved : saved = stage'[s]
    BY Zenon
  <2> PICK after : after = [list EXCEPT ![s] = saved]
    BY Zenon
  <2>7. DOMAIN after = DOMAIN list /\ after[s] = saved /\ \A t \in DOMAIN list : t # s => after[t] = list[t]
    <3> PICK D \in SUBSET Stages : list \in [D -> StageRow]
      BY Zenon DEF Lists
    <3> QED BY Zenon
  <2> PICK next : next = s + 1
    BY Zenon
  <2> PICK me : me = [runner[r] EXCEPT !.list = after, !.next = next]
    BY Zenon
  <2>8. me.pc = runner[r].pc /\ me.stage = runner[r].stage /\ me.list = after
    BY <1>t, Zenon DEF RunnerState
  <2>9. me = runner'[r] /\ \A q \in Runners : q # r => runner'[q] = runner[q]
    BY <1>t, <2>1, Zenon
  <2>10. QueueRunner(i, r)'
    <3>1. Follows(list)'
      BY <1>t, <2>6, FollowsKept, Zenon DEF QueueRunner
    <3>2. Follows(after)'
      BY <2>7, <3>1, Zenon DEF Follows
    <3>3. Follows(runner[r].list)'
      BY <2>8, <2>9, <3>2, Zenon
    <3>4. stage'[runner'[r].stage].machine # None
      <4>1. me.stage \in Stages
        BY <1>t, <2>8, Zenon DEF RunnerInv, RunnerState, Working
      <4>2. stage[me.stage].machine # None
        BY <1>2, <2>8, Zenon
      <4>3. stage'[me.stage].machine # None
        BY <4>1, <4>2, Zenon DEF Grow, Grows
      <4> QED BY <2>9, <4>3, Zenon
    <3> QED BY <1>2, <2>8, <2>9, <3>3, <3>4, Zenon DEF QueueRunner
  <2>11. \A q \in R : QueueRunner(i, q)' /\ runner'[q].stage = runner[q].stage
    BY <2>8, <2>9, <2>10, Zenon
  <2>12. \A q \in Runners \ R : runner'[q] = runner[q]
    BY <2>9, Zenon
  <2> QED BY <2>6, <2>11, <2>12, QueueKept, Zenon
<1>4. CASE ~CanUpdateStage(s, row)
  <2>1. stage' = stage /\ runner' = [runner EXCEPT ![r].pc = resync, ![r].next = s]
    BY <1>4, Zenon DEF SaveDownstream
  <2>2. \A t \in Stages : Written(i, t)
    BY <2>1, SameWritten, Zenon
  <2>3. /\ runner'[r].pc = resync /\ runner'[r].stage = runner[r].stage /\ runner'[r].list = list
        /\ \A q \in Runners : q # r => runner'[q] = runner[q]
    BY <1>t, <2>1, Zenon DEF RunnerState
  <2>4. QueueRunner(i, r)'
    <3>1. Follows(list)'
      BY <1>t, <2>2, FollowsKept, Zenon DEF QueueRunner
    <3>2. Follows(runner[r].list)'
      BY <2>3, <3>1, Zenon
    <3> QED BY <1>2, <2>1, <2>3, <3>2, Zenon DEF QueueRunner
  <2>5. \A q \in R : q = r
    BY Zenon
  <2> QED BY <2>2, <2>3, <2>4, <2>5, QueueKept, Zenon
<1> QED BY <1>3, <1>4, Zenon

LEMMA CancelDownstreamQueues ==
    ASSUME IInv, NEW i \in Instances, QInv(i), NEW r \in Runners, CancelDownstream(r) PROVE QInv(i)'
<1>1. IInv' /\ Grow
  BY CancelDownstreamInv, Zenon
<1>2. runner[r].pc = "cancelDownstream" /\ UNCHANGED <<queueVars, ready, workers, signal, handed, missed>>
  BY Zenon DEF CancelDownstream, queueVars, At
<1>3. CASE ToSkip(r) = {}
  <2> PICK me : me = [runner[r] EXCEPT !.pc = "scheduleDownstream", !.next = 0]
    BY Zenon
  <2>1. me.pc = "scheduleDownstream" /\ me.stage = runner[r].stage /\ me.list = runner[r].list
    BY Zenon DEF IInv, Types, RunnerState
  <2>2. me = runner'[r] /\ stage' = stage /\ \A q \in Runners : q # r => runner'[q] = runner[q]
    BY <1>3, Zenon DEF CancelDownstream, IInv, Types
  <2>3. Follows(me.list)
    BY <2>1, Zenon DEF QInv, QueueRunner
  <2> QED BY <1>1, <1>2, <2>1, <2>2, <2>3, ReaderQueues, Zenon DEF Working
<1>4. CASE ToSkip(r) # {}
  <2>1. PICK s \in First(ToSkip(r)) : SaveDownstream(r, s, "skipped", "resyncCanceled")
    BY <1>4, Zenon DEF CancelDownstream
  <2>2. s \in DOMAIN runner[r].list /\ runner[r].list[s].status = "waiting"
    BY Zenon DEF First, ToSkip, Waiting
  <2>3. ready' \in [Instances -> BOOLEAN] /\ (ready[i] => ready'[i])
    BY <1>2, Zenon DEF QInv
  <2> QED BY <1>1, <1>2, <2>1, <2>2, <2>3, SaveDownstreamQueues, Zenon
<1> QED BY <1>3, <1>4, Zenon

LEMMA ScheduleDownstreamQueues ==
    ASSUME IInv, NEW i \in Instances, Instances = {i}, QInv(i), NEW r \in Runners, ScheduleDownstream(r)
    PROVE  QInv(i)'
<1>1. IInv' /\ Grow
  BY ScheduleDownstreamInv, Zenon
<1>2. runner[r].pc = "scheduleDownstream" /\ UNCHANGED <<workers, signal, handed, missed>>
  BY Zenon DEF ScheduleDownstream, At
<1>3. PICK s \in First(ToSchedule(r)) :
         /\ SaveDownstream(r, s, "pending", "resyncScheduled")
         /\ IF CanUpdateStage(s, runner[r].list[s]) THEN Schedule(InstanceOf[r]) ELSE UNCHANGED ready
  BY Zenon DEF ScheduleDownstream
<1>4. s \in DOMAIN runner[r].list /\ runner[r].list[s].status = "waiting"
  BY Zenon DEF First, ToSchedule, Waiting
<1>5. /\ ready' \in [Instances -> BOOLEAN] /\ (ready[i] => ready'[i])
      /\ CanUpdateStage(s, runner[r].list[s]) => ready'[i]
  <2>1. ready \in [Instances -> BOOLEAN] /\ InstanceOf[r] = i
    BY QueueAssumption, Zenon DEF QInv
  <2>2. CASE CanUpdateStage(s, runner[r].list[s])
    BY <1>3, <2>1, <2>2, Zenon DEF Schedule
  <2>3. CASE ~CanUpdateStage(s, runner[r].list[s])
    BY <1>3, <2>1, <2>3, Zenon
  <2> QED BY <2>2, <2>3, Zenon
<1> QED BY <1>1, <1>2, <1>3, <1>4, <1>5, SaveDownstreamQueues, Zenon

LEMMA AcceptUpdateQueues ==
    ASSUME IInv, NEW i \in Instances, QInv(i), NEW r \in Runners, AcceptUpdate(r) PROVE QInv(i)'
<1>1. /\ runner[r].pc = "accept" /\ runner[r].row \in StageRow /\ RunnerInv(r) /\ QueueRunner(i, r)
      /\ runner[r].stage \in Stages /\ UNCHANGED queueVars /\ IInv' /\ Grow
  BY AcceptUpdateInv, Zenon DEF AcceptUpdate, At, IInv, Types, RunnerState, RunnerInv, Working, QInv
<1> PICK s \in Stages : s = runner[r].stage
  BY <1>1, Zenon
<1>2. PICK row : row = [runner[r].row EXCEPT !.machine = InstanceOf[r]]
  BY Zenon
<1>3. row \in StageRow /\ row.machine # None /\ row.version = runner[r].row.version
  BY <1>1, <1>2, StagesAssumption, QueueAssumption DEF StageRow
<1>4. CASE SaveStage(r, row, "pending", "accepted")
  <2>1. stage[s].machine = None
    BY <1>1, <1>3, <1>4, Zenon DEF SaveStage, CanUpdateStage, RunnerInv, Copy, Working
  <2>2. "pending" \in CIStatus \ {"none", "waiting"}
    BY Zenon DEF CIStatus
  <2> QED BY <1>1, <1>3, <1>4, <2>1, <2>2, SaveStageQueues, Zenon DEF Working
<1>5. CASE ~CanUpdateStage(s, row) /\ GoIdle(r) /\ UNCHANGED stage
  <2>1. ~Free(runner[r].stage)
    BY <1>1, <1>3, <1>5, Zenon DEF QueueRunner, CanUpdateStage
  <2> QED BY <1>1, <1>5, <2>1, DropQueues, Zenon DEF Working
<1> QED BY <1>2, <1>4, <1>5, Zenon DEF AcceptUpdate

\* A runner that holds a stage writes its row, or gives it up.
LEMMA HolderQueues ==
    ASSUME IInv, IInv', Grow, NEW i \in Instances, QInv(i), NEW r \in Runners,
           runner[r].pc \in {"accepted", "teardown"},
           NEW status \in CIStatus \ {"none", "waiting"},
           NEW pc \in {"accepted", "updateExecution", "list"},
           \/ SaveStage(r, runner[r].row, status, pc)
           \/ GoIdle(r) /\ UNCHANGED stage,
           UNCHANGED queueVars
    PROVE  QInv(i)'
<1>1. /\ runner[r].row \in StageRow /\ RunnerInv(r) /\ QueueRunner(i, r)
      /\ runner[r].stage \in Stages /\ stage[runner[r].stage].machine # None
  BY Zenon DEF IInv, Types, RunnerState, RunnerInv, Working, QInv
<1> PICK s \in Stages : s = runner[r].stage
  BY <1>1, Zenon
<1> PICK row \in StageRow : row = runner[r].row
  BY <1>1, Zenon
<1>2. CASE SaveStage(r, row, status, pc)
  <2>1. row.machine = stage[s].machine
    BY <1>1, <1>2, Zenon DEF SaveStage, CanUpdateStage, RunnerInv, Copy, Working
  <2> QED BY <1>1, <1>2, <2>1, SaveStageQueues, Zenon DEF Working
<1>3. CASE GoIdle(r) /\ UNCHANGED stage
  BY <1>1, <1>3, DropQueues, Zenon DEF Working, Free
<1> QED BY <1>2, <1>3, Zenon

LEMMA SetupStageQueues ==
    ASSUME IInv, NEW i \in Instances, QInv(i), NEW r \in Runners, SetupStage(r) PROVE QInv(i)'
<1>1. IInv' /\ Grow /\ runner[r].pc = "accepted" /\ "running" \in CIStatus \ {"none", "waiting"}
  BY SetupStageInv, Zenon DEF SetupStage, At, CIStatus
<1> QED BY <1>1, HolderQueues, Zenon DEF SetupStage

LEMMA SetupExecutionQueues ==
    ASSUME IInv, NEW i \in Instances, QInv(i), NEW r \in Runners, SetupExecution(r) PROVE QInv(i)'
<1>1. IInv' /\ Grow /\ runner[r].pc = "updateExecution" /\ UNCHANGED <<stage, queueVars>>
  BY SetupExecutionInv, Zenon DEF SetupExecution, At
<1> PICK me : me = [runner[r] EXCEPT !.pc = "running"]
  BY Zenon
<1>2. me.pc = "running" /\ me.stage = runner[r].stage /\ me.list = runner[r].list
  BY Zenon DEF IInv, Types, RunnerState
<1>3. me = runner'[r] /\ \A q \in Runners : q # r => runner'[q] = runner[q]
  BY Zenon DEF SetupExecution, IInv, Types
<1>4. Follows(me.list)
  BY <1>2, Zenon DEF QInv, QueueRunner
<1> QED BY <1>1, <1>2, <1>3, <1>4, ReaderQueues, Zenon DEF Working

LEMMA TeardownFindQueues ==
    ASSUME IInv, NEW i \in Instances, QInv(i), NEW r \in Runners, TeardownFind(r) PROVE QInv(i)'
<1>1. IInv' /\ Grow /\ runner[r].pc \in {"accepted", "running"} /\ UNCHANGED <<stage, queueVars>>
  BY TeardownFindInv, Zenon DEF TeardownFind, At, tableVars
<1>2. PICK outcome \in Outcomes \cup {"error"} :
         runner' = [runner EXCEPT ![r].pc = "teardown", ![r].exec = execution[Exec(r)],
                                  ![r].row.status = outcome]
  BY Zenon DEF TeardownFind
<1> PICK me : me = [runner[r] EXCEPT !.pc = "teardown", !.exec = execution[Exec(r)], !.row.status = outcome]
  BY Zenon
<1>3. me = runner'[r] /\ \A q \in Runners : q # r => runner'[q] = runner[q]
  BY <1>2, Zenon DEF IInv, Types
<1>4. me.pc = "teardown" /\ me.list = runner[r].list /\ me.stage = runner[r].stage
  BY Zenon DEF IInv, Types, RunnerState
<1>5. me.row.status = outcome
  <2>1. runner[r] \in RunnerState /\ runner[r].row \in StageRow
    BY Zenon DEF IInv, Types, RunnerState
  <2>2. me.row = [runner[r].row EXCEPT !.status = outcome]
    BY <2>1, Zenon DEF RunnerState
  <2> QED BY ONLY <2>1, <2>2 DEF StageRow
<1>6. Follows(me.list)
  BY <1>4, Zenon DEF QInv, QueueRunner
<1> QED BY <1>1, <1>3, <1>4, <1>5, <1>6, ReaderQueues, Zenon DEF Working

LEMMA TeardownListQueues ==
    ASSUME IInv, NEW i \in Instances, QInv(i), NEW r \in Runners, TeardownList(r) PROVE QInv(i)'
<1>1. IInv' /\ Grow /\ runner[r].pc = "list" /\ UNCHANGED <<stage, queueVars>>
  BY TeardownListInv, Zenon DEF TeardownList, At, tableVars
<1> PICK list : list = Rows(Exec(r))
  BY Zenon
<1> PICK failed : failed = (\E s \in DOMAIN list : IsFailed(list[s].status))
  BY Zenon
<1> PICK me : me = [runner[r] EXCEPT !.pc = "cancelDownstream", !.list = list, !.failed = failed]
  BY Zenon
<1>2. me.pc = "cancelDownstream" /\ me.list = list /\ me.stage = runner[r].stage
  BY Zenon DEF IInv, Types, RunnerState
<1>3. me = runner'[r] /\ \A q \in Runners : q # r => runner'[q] = runner[q]
  BY Zenon DEF TeardownList, IInv, Types
<1>4. Follows(list)
  BY Zenon DEF Follows, Rows
<1>5. Follows(me.list)
  BY <1>2, <1>4, Zenon
<1> QED BY <1>1, <1>2, <1>3, <1>5, ReaderQueues, Zenon DEF Working

LEMMA ResyncQueues ==
    ASSUME IInv, NEW i \in Instances, QInv(i), NEW r \in Runners, Resync(r) PROVE QInv(i)'
<1>1. /\ IInv' /\ Grow /\ runner[r].pc \in {"resyncCanceled", "resyncScheduled"}
      /\ UNCHANGED <<stage, queueVars>> /\ RunnerInv(r) /\ QueueRunner(i, r)
  BY ResyncInv, Zenon DEF Resync, tableVars, IInv, QInv
<1> PICK list \in Lists : list = runner[r].list
  BY Zenon DEF IInv, Types, RunnerState
<1> PICK s \in DOMAIN list : s = runner[r].next
  BY <1>1, Zenon DEF RunnerInv
<1> PICK row : row = [stage[s] EXCEPT !.version = list[s].version]
  BY Zenon
<1>2. row.status = stage[s].status
  <2>1. stage[s] \in StageRow
    BY ListTypes, Zenon DEF IInv, Types
  <2> QED BY ONLY <2>1, row = [stage[s] EXCEPT !.version = list[s].version] DEF StageRow
<1> PICK after : after = [list EXCEPT ![s] = row]
  BY Zenon
<1>3. DOMAIN after = DOMAIN list /\ after[s] = row /\ \A t \in DOMAIN list : t # s => after[t] = list[t]
  <2> PICK D \in SUBSET Stages : list \in [D -> StageRow]
    BY Zenon DEF Lists
  <2> QED BY Zenon
<1>4. Follows(after)
  BY <1>1, <1>2, <1>3, Zenon DEF QueueRunner, Follows
<1> PICK next : next = s + 1
  BY Zenon
<1> PICK pc \in {"cancelDownstream", "scheduleDownstream"} :
       pc = IF runner[r].pc = "resyncCanceled" THEN "cancelDownstream" ELSE "scheduleDownstream"
  BY Zenon
<1> PICK me : me = [runner[r] EXCEPT !.pc = pc, !.list = after, !.next = next]
  BY Zenon
<1>5. me.pc = pc /\ me.list = after /\ me.stage = runner[r].stage
  BY Zenon DEF IInv, Types, RunnerState
<1>6. me = runner'[r] /\ \A q \in Runners : q # r => runner'[q] = runner[q]
  BY Zenon DEF Resync, IInv, Types
<1>7. Follows(me.list)
  BY <1>4, <1>5, Zenon
<1> QED BY <1>1, <1>5, <1>6, <1>7, ReaderQueues, Zenon DEF Working

LEMMA TeardownStageQueues ==
    ASSUME IInv, NEW i \in Instances, QInv(i), NEW r \in Runners, TeardownStage(r) PROVE QInv(i)'
<1>1. IInv' /\ Grow /\ runner[r].pc = "teardown" /\ UNCHANGED queueVars /\ runner[r].row.status \in Outcomes \cup {"error"}
  BY TeardownStageInv, Zenon DEF TeardownStage, At, QInv, QueueRunner
<1>2. runner[r].row.status \in CIStatus \ {"none", "waiting"}
  BY <1>1, ManagerAssumption, Zenon DEF CIStatus
<1> PICK status \in CIStatus \ {"none", "waiting"} : status = runner[r].row.status
  BY <1>2, Zenon
<1>3. \/ SaveStage(r, runner[r].row, status, "list")
      \/ GoIdle(r) /\ UNCHANGED stage
  BY Zenon DEF TeardownStage
<1> QED BY <1>1, <1>3, HolderQueues, Zenon

LEMMA CompleteQueues ==
    ASSUME IInv, NEW i \in Instances, QInv(i), NEW r \in Runners, Complete(r) \/ DetailsFails(r) PROVE QInv(i)'
<1>1. /\ IInv' /\ Grow /\ runner[r].pc \in {"scheduleDownstream", "accepted"}
      /\ GoIdle(r) /\ UNCHANGED <<stage, queueVars>>
  BY CompleteInv, DropInv, Zenon DEF Complete, DetailsFails, At, tableVars
<1>2. ~Free(runner[r].stage)
  BY <1>1, Zenon DEF QInv, QueueRunner, Working, Free
<1> QED BY <1>1, <1>2, DropQueues, Zenon DEF Working

LEMMA RequestQueues ==
    ASSUME IInv, NEW i \in Instances, Instances = {i}, QInv(i), NEW r \in Runners, RequestStage(r)
    PROVE  QInv(i)'
<1>1. IInv' /\ Grow /\ runner[r].pc = "idle" /\ UNCHANGED <<stage, signal, handed, missed>>
  BY RequestInv, Zenon DEF RequestStage, Request, At, tableVars
<1>2. /\ InstanceOf[r] = i /\ ready \in [Instances -> BOOLEAN] /\ workers \in [Instances -> SUBSET Runners]
      /\ QueueRunner(i, r)
  BY QueueAssumption, Zenon DEF QInv
<1>3. /\ ready' = [ready EXCEPT ![i] = TRUE] /\ workers' = [workers EXCEPT ![i] = workers[i] \cup {r}]
      /\ runner' = [runner EXCEPT ![r].pc = "waiting"]
  BY <1>2, Zenon DEF RequestStage, Request
<1>4. /\ ready' \in [Instances -> BOOLEAN] /\ ready'[i]
      /\ workers' \in [Instances -> SUBSET Runners] /\ workers'[i] = workers[i] \cup {r}
  BY <1>2, <1>3, Zenon
<1>5. /\ runner'[r].pc = "waiting" /\ runner'[r].stage = runner[r].stage /\ runner'[r].list = runner[r].list
      /\ \A q \in Runners : q # r => runner'[q] = runner[q]
  BY <1>3, Zenon DEF IInv, Types, RunnerState
<1>6. \A s \in Stages : Written(i, s)
  BY <1>1, SameWritten, Zenon
<1>7. ASSUME NEW q \in Runners PROVE QueueRunner(i, q)'
  <2>1. CASE q # r
    BY <1>1, <1>4, <1>5, <1>6, <2>1, QueueRunnerKept, Zenon DEF QInv
  <2>2. CASE q = r
    <3>1. Follows(runner[r].list)'
      BY <1>1, <1>2, <1>5, Zenon DEF QueueRunner, Follows
    <3>2. runner'[r].stage = None /\ handed'[r] = None
      BY <1>1, <1>2, <1>5, Zenon DEF QueueRunner
    <3> QED BY <1>5, <2>2, <3>1, <3>2, Zenon DEF QueueRunner, Working
  <2> QED BY <2>1, <2>2, Zenon
<1>8. \A s \in signal'[i] : Past(s)'
  BY <1>1, Zenon DEF QInv, Past
<1>9. \A s \in Stages : Covered(i, s)'
  BY <1>4, Zenon DEF Covered
<1> QED BY <1>1, <1>4, <1>7, <1>8, <1>9, Zenon DEF QInv

LEMMA AcceptFindQueues ==
    ASSUME IInv, NEW i \in Instances, QInv(i), NEW r \in Runners, AcceptFind(r) PROVE QInv(i)'
<1>1. /\ IInv' /\ Grow /\ runner[r].pc = "waiting" /\ UNCHANGED <<stage, ready, workers, signal, missed>>
      /\ handed[r] # None /\ QueueRunner(i, r)
  BY AcceptFindInv, Zenon DEF AcceptFind, At, tableVars, QInv
<1> PICK h \in Stages : h = handed[r]
  BY <1>1, Zenon DEF IInv, Types
<1>2. Past(h) /\ r \notin workers[i] /\ runner[r].stage = None
  BY <1>1, Zenon DEF QueueRunner
<1>3. handed'[r] = None /\ \A q \in Runners : q # r => handed'[q] = handed[q]
  BY Zenon DEF AcceptFind, IInv, Types
<1>4. \A s \in Stages : Written(i, s)
  BY <1>1, SameWritten, Zenon
<1> PICK me : me = runner'[r]
  BY Zenon
<1>5. /\ \A q \in Runners : q # r => runner'[q] = runner[q]
      /\ \/ stage[h].machine # None /\ me = Idle
         \/ /\ me.pc = "accept" /\ me.stage = h /\ me.row = stage[h] /\ me.list = runner[r].list
  <2>1. CASE stage[h].machine # None
    BY <2>1, Zenon DEF AcceptFind, GoIdle, IInv, Types
  <2>2. CASE stage[h].machine = None
    <3> PICK row : row = stage[h]
      BY Zenon
    <3>1. runner' = [runner EXCEPT ![r].pc = "accept", ![r].stage = h, ![r].row = row]
      BY <2>2, Zenon DEF AcceptFind
    <3>2. runner \in [Runners -> RunnerState] /\ runner[r] \in RunnerState
      BY Zenon DEF IInv, Types
    <3>3. /\ me = [runner[r] EXCEPT !.pc = "accept", !.stage = h, !.row = row]
          /\ \A q \in Runners : q # r => runner'[q] = runner[q]
      BY <3>1, <3>2, Zenon
    <3>4. me.pc = "accept" /\ me.stage = h /\ me.row = row /\ me.list = runner[r].list
      BY <3>2, <3>3, Zenon DEF RunnerState
    <3> QED BY <3>3, <3>4, Zenon
  <2> QED BY <2>1, <2>2, Zenon
<1>6. ASSUME NEW q \in Runners PROVE QueueRunner(i, q)'
  <2>1. CASE q # r
    BY <1>1, <1>3, <1>4, <1>5, <2>1, QueueRunnerKept, Zenon DEF QInv
  <2>2. CASE q = r /\ me = Idle
    <3>1. Idle.pc = "idle" /\ Idle.stage = None /\ DOMAIN Idle.list = {}
      BY Zenon DEF Idle, NoList
    <3> QED BY <1>1, <1>2, <1>3, <2>2, <3>1, Zenon DEF QueueRunner, Follows, Working
  <2>3. CASE q = r /\ me.pc = "accept" /\ me.stage = h /\ me.row = stage[h] /\ me.list = runner[r].list
    <3> PICK list : list = me.list
      BY Zenon
    <3>1. Follows(list)'
      <4>1. Follows(list)
        BY <1>1, <2>3, Zenon DEF QueueRunner
      <4> QED BY <1>1, <4>1, Zenon DEF Follows
    <3>2. Past(h)' /\ me.row.version = stage'[h].version
      BY <1>1, <1>2, <2>3, Zenon DEF Past
    <3>3. Past(runner[r].stage)' /\ Follows(runner[r].list)'
      BY <2>3, <3>1, <3>2, Zenon
    <3> QED BY <1>1, <1>2, <1>3, <2>3, <3>2, <3>3, Zenon DEF QueueRunner
  <2> QED BY <1>5, <2>1, <2>2, <2>3, Zenon
<1>7. \A s \in signal'[i] : Past(s)'
  BY <1>1, Zenon DEF QInv, Past
<1>8. ASSUME NEW s \in Stages, ~missed[i] PROVE Covered(i, s)'
  <2>1. ASSUME Free(s)', InHand(s) PROVE InHand(s)'
    <3>1. PICK q \in Runners : handed[q] = s \/ runner[q].stage = s
      BY <2>1, Zenon DEF InHand
    <3>2. stage[s].machine = None /\ s # None
      BY <1>1, <2>1, QueueAssumption, Zenon DEF Free
    <3>3. CASE q # r
      BY <1>3, <1>5, <3>1, <3>3, Zenon DEF InHand
    <3>4. CASE q = r
      <4>1. s = h
        BY <1>2, <3>1, <3>2, <3>4, Zenon
      <4>2. runner'[r].stage = s
        BY <1>5, <3>2, <4>1, Zenon
      <4> QED BY <4>2, Zenon DEF InHand
    <3> QED BY <3>3, <3>4, Zenon
  <2> QED BY <1>1, <1>4, <1>8, <2>1, CoveredKept, Zenon DEF QInv
<1> QED BY <1>1, <1>6, <1>7, <1>8, Zenon DEF QInv

\* The runners and the queue do nothing.
LEMMA OthersQueue ==
    ASSUME IInv, IInv', Grow, NEW i \in Instances, QInv(i), \A s \in Stages : Written(i, s),
           ready' \in [Instances -> BOOLEAN], ready[i] => ready'[i],
           UNCHANGED <<workers, signal, handed, missed, runner>>
    PROVE  QInv(i)'
<1> PICK R : R = {}
  BY Zenon
<1>1. R \in SUBSET Runners /\ \A q \in R : FALSE
  BY Zenon
<1> QED BY <1>1, QueueKept, Zenon

LEMMA CancelQueues ==
    ASSUME IInv, NEW i \in Instances, QInv(i), NEW e \in Executions, CancelStep(e) PROVE QInv(i)'
<1>1. IInv' /\ Grow /\ UNCHANGED <<ready, workers, signal, handed, missed, runner>>
  BY CancelExecutionInv, CancelListInv, CancelStageInv, Zenon
     DEF CancelStep, CancelExecution, CancelList, CancelStage, queueVars
<1>2. \A t \in Stages : Written(i, t)
  <2>1. CASE stage' = stage
    BY <2>1, SameWritten, Zenon
  <2>2. CASE stage' # stage
    <3> PICK list \in Lists : list = cancel[e].list
      BY Zenon DEF IInv, Types, CancelState
    <3>1. PICK s \in First(DOMAIN cancel[e].list) :
             /\ CanUpdateStage(s, cancel[e].list[s])
             /\ UpdateStage(s, cancel[e].list[s],
                            IF cancel[e].list[s].status = "running" THEN "killed" ELSE "skipped")
      BY <2>2, Zenon DEF CancelStep, CancelExecution, CancelList, CancelStage, tableVars
    <3>2. s \in DOMAIN list
      BY Zenon DEF First
    <3> PICK row \in StageRow : row = list[s]
      BY <3>2, ListTypes, Zenon
    <3>3. s \in Stages /\ Copy(s, row)
      BY <3>2, ListTypes, Zenon DEF IInv, CancelInv
    <3> PICK status \in {"killed", "skipped"} : status = IF row.status = "running" THEN "killed" ELSE "skipped"
      BY Zenon
    <3>4. CanUpdateStage(s, row) /\ UpdateStage(s, row, status) /\ status \in CIStatus
      BY <3>1, Zenon DEF CIStatus
    <3>6. /\ stage'[s] = [status |-> status, machine |-> row.machine, version |-> row.version + 1]
          /\ \A t \in Stages : t # s => stage'[t] = stage[t]
      <4>1. UpdateStage(s, row, status) /\ s \in Stages /\ stage \in [Stages -> StageRow]
        BY <3>3, <3>4, Zenon DEF IInv, Types
      <4> QED BY ONLY <4>1, Zenon DEF UpdateStage
    <3>7. stage[s].version < stage'[s].version /\ stage'[s].status = status
      <4>1. row.version \in Nat /\ stage[s].version = row.version
        BY <3>4, Zenon DEF StageRow, CanUpdateStage
      <4> QED BY ONLY <3>6, <4>1
    <3> QED BY <3>6, <3>7, Zenon DEF Written, Past, Free
  <2> QED BY <2>1, <2>2, Zenon
<1>3. ready' \in [Instances -> BOOLEAN] /\ (ready[i] => ready'[i])
  BY <1>1, Zenon DEF QInv
<1> QED BY <1>1, <1>2, <1>3, OthersQueue, Zenon

\* The list of a signal has all free stages without a limit.
LEMMA SignalListQueues ==
    ASSUME IInv, IInv', NEW i \in Instances, Instances = {i}, QInv(i), SignalList(i),
           UNCHANGED <<stage, runner, execution>>
    PROVE  QInv(i)'
<1>1. UNCHANGED <<workers, handed>> /\ ready \in [Instances -> BOOLEAN] /\ missed \in [Instances -> BOOLEAN]
  BY Zenon DEF SignalList, QInv
<1>2. ready' \in [Instances -> BOOLEAN] /\ missed' \in [Instances -> BOOLEAN]
  BY <1>1, Zenon DEF SignalList, Wake
<1>3. \A s \in Eligible : Past(s)
  BY Zenon DEF Eligible, ListIncomplete, Past
<1>4. \A s \in Stages : Free(s) /\ Limit[s] = 0 => s \in Eligible
  BY Zenon DEF Eligible, ListIncomplete, withinLimits, Free
<1>5. \/ signal' = signal /\ (workers[i] = {} \/ Eligible = {})
      \/ signal'[i] = Eligible
  BY Zenon DEF SignalList, IInv, Types
<1>6. \A q \in Runners : QueueRunner(i, q)'
  BY <1>1, Zenon DEF QInv, QueueRunner, Past, Free, Follows
<1>7. \A s \in signal'[i] : Past(s)'
  BY <1>3, <1>5, Zenon DEF QInv, Past
<1>8. ASSUME NEW s \in Stages PROVE Covered(i, s)'
  <2>1. SUFFICES ASSUME Free(s)', Limit[s] = 0
                 PROVE  \/ InHand(s)' \/ s \in signal'[i]
                        \/ \A r \in workers'[i] : s \notin Matches[r]
    BY Zenon DEF Covered
  <2>2. s \in Eligible
    BY <1>4, <2>1, Zenon DEF Free
  <2>3. CASE signal'[i] = Eligible
    BY <2>2, <2>3, Zenon
  <2>4. CASE signal' = signal /\ workers[i] = {}
    BY <1>1, <2>4, Zenon
  <2> QED BY <1>5, <2>2, <2>3, <2>4, Zenon
<1> QED BY <1>1, <1>2, <1>6, <1>7, <1>8, Zenon DEF QInv

\* Two stages go to two runners.
LEMMA AssignedOnce ==
    ASSUME NEW free \in SUBSET Nat, NEW waiting, None \notin waiting, NEW g \in Assignments(free, waiting),
           NEW s \in free, NEW t \in free, g[s] = g[t], g[s] \in waiting
    PROVE  s = t
<1>1. ASSUME NEW u \in free, NEW v \in free, u < v, g[v] \in waiting PROVE g[v] # g[u]
  <2> PICK left : left = {r \in waiting \ {g[x] : x \in {y \in free : y < v}} : v \in Matches[r]}
    BY Zenon
  <2>1. IF left = {} THEN g[v] = None ELSE g[v] \in left
    BY Zenon DEF Assignments
  <2> QED BY <1>1, <2>1, Zenon
<1>2. ~(s < t) /\ ~(t < s)
  BY <1>1, Zenon
<1>3. s \in Nat /\ t \in Nat
  BY Zenon
<1> QED BY ONLY <1>2, <1>3

\* A stage that is left over has no matching runner left.
LEMMA LeftOver ==
    ASSUME NEW free, NEW waiting, NEW g \in Assignments(free, waiting), NEW s \in free, NEW r \in waiting,
           s \in Matches[r], \A t \in free : g[t] # r
    PROVE  g[s] \in waiting
<1> PICK left : left = {q \in waiting \ {g[x] : x \in {y \in free : y < s}} : s \in Matches[q]}
  BY Zenon
<1>1. IF left = {} THEN g[s] = None ELSE g[s] \in left
  BY Zenon DEF Assignments
<1>2. r \in left
  BY Zenon
<1> QED BY <1>1, <1>2, Zenon

LEMMA SignalHandQueues ==
    ASSUME IInv, IInv', NEW i \in Instances, QInv(i), SignalHand(i), UNCHANGED <<stage, runner, execution>>
    PROVE  QInv(i)'
<1>1. /\ signal' = [signal EXCEPT ![i] = {}] /\ ready' = ready /\ missed' = missed /\ signal \in [Instances -> SUBSET Stages]
      /\ workers \in [Instances -> SUBSET Runners] /\ signal'[i] = {}
  BY Zenon DEF SignalHand, IInv, Types, QInv
<1>2. PICK g \in Assignments(signal[i], workers[i]) :
         /\ handed' = [r \in Runners |->
                         IF r \in {q \in workers[i] : \E s \in DOMAIN g : g[s] = q}
                         THEN CHOOSE s \in DOMAIN g : g[s] = r ELSE handed[r]]
         /\ workers' = [workers EXCEPT ![i] = @ \ {q \in workers[i] : \E s \in DOMAIN g : g[s] = q}]
  BY Zenon DEF SignalHand
<1> PICK free \in SUBSET Stages : free = signal[i]
  BY <1>1, Zenon
<1> PICK waiting \in SUBSET Runners : waiting = workers[i]
  BY <1>1, Zenon
<1>3. DOMAIN g = free
  BY Zenon DEF Assignments
<1> PICK taken : taken = {q \in waiting : \E s \in free : g[s] = q}
  BY Zenon
<1>4. /\ workers' \in [Instances -> SUBSET Runners] /\ workers'[i] = waiting \ taken
  BY <1>1, <1>2, <1>3, Zenon
<1>5. ASSUME NEW r \in Runners
      PROVE  /\ r \notin taken => handed'[r] = handed[r]
             /\ r \in taken => r \in waiting /\ handed'[r] \in free /\ g[handed'[r]] = r
  <2>1. CASE r \in taken
    BY <1>2, <1>3, <2>1, Zenon
  <2>2. CASE r \notin taken
    BY <1>2, <1>3, <2>2, Zenon
  <2> QED BY <2>1, <2>2, Zenon
<1>6. ASSUME NEW q \in Runners PROVE QueueRunner(i, q)'
  <2>1. QueueRunner(i, q) /\ \A s \in free : Past(s)
    BY Zenon DEF QInv
  <2> PICK h : h = handed'[q]
    BY Zenon
  <2>2. h # None => Past(h)'
    BY <1>5, <2>1, Zenon DEF QueueRunner, Past
  <2>3. (handed[q] # None => Past(handed[q]))'
    BY <2>2, Zenon
  <2>4. q \in workers'[i] => runner[q].pc = "waiting" /\ handed'[q] = None
    BY <1>4, <1>5, <2>1, Zenon DEF QueueRunner
  <2>5. runner[q].pc # "waiting" => handed'[q] = None
    BY <1>5, <2>1, Zenon DEF QueueRunner
  <2>6. /\ (runner[q].pc \in {"idle", "waiting"} => runner[q].stage = None)'
        /\ (runner[q].pc = "accept" =>
              /\ Past(runner[q].stage)
              /\ runner[q].row.version = stage[runner[q].stage].version \/ ~Free(runner[q].stage))'
        /\ (runner[q].pc \in Working \ {"accept"} => stage[runner[q].stage].machine # None)'
        /\ (runner[q].pc = "teardown" => runner[q].row.status \in Outcomes \cup {"error"})'
        /\ Follows(runner[q].list)'
    BY <2>1, Zenon DEF QueueRunner, Past, Free, Follows
  <2> QED BY <2>3, <2>4, <2>5, <2>6, Zenon DEF QueueRunner
<1>7. ASSUME NEW s \in Stages, ~missed[i] PROVE Covered(i, s)'
  <2>1. SUFFICES ASSUME Free(s), Limit[s] = 0, ~ready[i], NEW r \in waiting \ taken, s \in Matches[r]
                 PROVE  InHand(s)'
    BY <1>1, <1>4, Zenon DEF Covered, Free
  <2>2. CASE InHand(s)
    <3>1. PICK q \in Runners : handed[q] = s \/ runner[q].stage = s
      BY <2>2, Zenon DEF InHand
    <3>2. handed'[q] = s \/ runner'[q].stage = s
      <4>1. q \in taken => handed[q] = None /\ runner[q].stage = None
        BY <1>5, Zenon DEF QInv, QueueRunner
      <4>2. q \notin taken
        BY <3>1, <4>1, QueueAssumption, Zenon
      <4> QED BY <1>5, <3>1, <4>2, Zenon
    <3> QED BY <3>2, Zenon DEF InHand
  <2>3. CASE ~InHand(s)
    <3>1. s \in free
      BY <1>7, <2>1, <2>3, Zenon DEF QInv, Covered
    <3>2. \A t \in free : g[t] # r
      BY Zenon
    <3>3. g[s] \in waiting
      <4>1. r \in waiting /\ s \in Matches[r] /\ g \in Assignments(free, waiting)
        BY <2>1, Zenon
      <4> QED BY <3>1, <3>2, <4>1, LeftOver, Zenon
    <3> PICK q \in waiting : q = g[s]
      BY <3>3, Zenon
    <3>4. q \in taken
      BY <3>1, Zenon
    <3>5. handed'[q] \in free /\ g[handed'[q]] = q
      BY <1>5, <3>4, Zenon
    <3> PICK t \in free : t = handed'[q]
      BY <3>5, Zenon
    <3>6. free \in SUBSET Nat /\ None \notin waiting
      BY StagesAssumption, QueueAssumption, Zenon
    <3>7. t = s
      <4>1. g[s] = g[t] /\ g \in Assignments(free, waiting)
        BY <3>5, Zenon
      <4>2. t \in free
        BY Zenon
      <4> QED BY ONLY <3>1, <3>3, <3>6, <4>1, <4>2, AssignedOnce, Zenon
    <3> QED BY <3>7, Zenon DEF InHand
  <2> QED BY <2>2, <2>3, Zenon
<1>8. ready' \in [Instances -> BOOLEAN] /\ \A s \in signal'[i] : Past(s)'
  BY <1>1, Zenon DEF QInv
<1> QED BY <1>1, <1>4, <1>6, <1>7, <1>8, Zenon DEF QInv

LEMMA SignalQueues ==
    ASSUME IInv, NEW i \in Instances, Instances = {i}, QInv(i), NEW j \in Instances, SignalStep(j)
    PROVE  QInv(i)'
<1>1. IInv' /\ j = i /\ UNCHANGED <<stage, runner, execution>>
  BY SignalStepInv, Zenon DEF SignalStep, tableVars
<1> QED BY <1>1, SignalListQueues, SignalHandQueues, Zenon DEF SignalStep

\* A token is lost, and that is recorded.
LEMMA FailedSignalQueues ==
    ASSUME IInv, NEW i \in Instances, Instances = {i}, QInv(i), NEW j \in Instances, FailedSignal(j)
    PROVE  QInv(i)'
<1>1. /\ j = i /\ UNCHANGED <<stage, runner, workers, signal, handed>>
      /\ ready' = [ready EXCEPT ![i] = FALSE] /\ missed' = [missed EXCEPT ![i] = TRUE]
  BY Zenon DEF FailedSignal, SignalFails, tableVars
<1>2. ready' \in [Instances -> BOOLEAN] /\ missed' \in [Instances -> BOOLEAN] /\ missed'[i]
  BY <1>1, Zenon DEF QInv
<1>3. ASSUME NEW q \in Runners PROVE QueueRunner(i, q)'
  <2>1. QueueRunner(i, q)
    BY Zenon DEF QInv
  <2>2. QueueRunner(i, q)' <=> QueueRunner(i, q)
    BY <1>1, SMT DEF QueueRunner, Past, Free, Follows
  <2> QED BY <2>1, <2>2, Zenon
<1>4. \A s \in signal'[i] : Past(s)'
  BY <1>1, Zenon DEF QInv, Past
<1> QED BY <1>1, <1>2, <1>3, <1>4, Zenon DEF QInv

LEMMA TriggerQueues ==
    ASSUME IInv, NEW i \in Instances, Instances = {i}, QInv(i), NEW e \in Executions, Trigger(e)
    PROVE  QInv(i)'
<1>1. IInv' /\ Grow /\ UNCHANGED <<workers, signal, handed, missed, runner>>
  BY TriggerInv, Zenon DEF Trigger
<1>2. PICK c \in Configs[e] : CreateExecution(e, c)
  BY Zenon DEF Trigger
<1>3. execution[e].status = "none" /\ \A s \in Stages : ExecutionOf[s] # e => stage'[s] = stage[s]
  BY <1>2, Zenon DEF CreateExecution, StagesOf, IInv, Types
<1>4. /\ ready' \in [Instances -> BOOLEAN] /\ (ready[i] => ready'[i])
      /\ (\E s \in StagesOf(e) : stage'[s].status = "pending") => ready'[i]
  <2>1. ready \in [Instances -> BOOLEAN]
    BY Zenon DEF QInv
  <2>2. CASE \E s \in StagesOf(e) : stage'[s].status = "pending"
    <3>1. PICK j \in Instances : Schedule(j)
      BY <2>2, Zenon DEF Trigger
    <3>2. ready' = [ready EXCEPT ![i] = TRUE]
      BY <3>1, Zenon DEF Schedule
    <3> QED BY <2>1, <3>2, Zenon
  <2>3. CASE ~\E s \in StagesOf(e) : stage'[s].status = "pending"
    BY <2>1, <2>3, Zenon DEF Trigger
  <2> QED BY <2>2, <2>3, Zenon
<1>5. ASSUME NEW s \in Stages PROVE Written(i, s)
  <2>1. CASE ExecutionOf[s] = e
    <3>1. ~Known(s) /\ s \in StagesOf(e)
      BY <1>3, <2>1, Zenon DEF Known, StagesOf
    <3> QED BY <1>4, <3>1, Zenon DEF Written, Free
  <2>2. CASE ExecutionOf[s] # e
    BY <1>3, <2>2, Zenon DEF Written
  <2> QED BY <2>1, <2>2, Zenon
<1> QED BY <1>1, <1>4, <1>5, OthersQueue, Zenon

-----------------------------------------------------------------------------
LEMMA InitQueues == ASSUME NEW i \in Instances, Init PROVE QInv(i)
<1>1. Idle.pc = "idle" /\ Idle.stage = None /\ DOMAIN Idle.list = {}
  BY Zenon DEF Idle, NoList
<1>2. ready \in [Instances -> BOOLEAN] /\ workers \in [Instances -> SUBSET Runners] /\ workers[i] = {} /\ signal[i] = {}
      /\ missed \in [Instances -> BOOLEAN]
  BY Zenon DEF Init, QueueInit
<1>3. \A r \in Runners : runner[r] = Idle /\ handed[r] = None
  BY Zenon DEF Init, QueueInit
<1>4. \A r \in Runners : QueueRunner(i, r)
  BY <1>1, <1>2, <1>3, Zenon DEF QueueRunner, Follows, Working
<1> QED BY <1>2, <1>4, Zenon DEF QInv, Covered

LEMMA NextQueues ==
    ASSUME NEW i \in Instances, Instances = {i} PROVE IInv /\ QInv(i) /\ [Next]_vars => QInv(i)'
<1> SUFFICES ASSUME IInv, QInv(i), [Next]_vars PROVE QInv(i)'
  BY Zenon
<1>1. ASSUME NEW r \in Runners, RunnerStep(r) \/ DetailsFails(r) PROVE QInv(i)'
  BY <1>1, RequestQueues, AcceptFindQueues, AcceptUpdateQueues, SetupStageQueues, SetupExecutionQueues,
     TeardownFindQueues, TeardownStageQueues, TeardownListQueues, CancelDownstreamQueues,
     ScheduleDownstreamQueues, ResyncQueues, CompleteQueues, Zenon DEF RunnerStep
<1>2. CASE Next
  BY <1>1, <1>2, TriggerQueues, CancelQueues, SignalQueues, FailedSignalQueues, Zenon DEF Next
<1>3. CASE UNCHANGED vars
  <2>1. UNCHANGED <<execution, stage, ready, workers, handed, missed, signal, runner, cancel>>
    BY <1>3, Zenon DEF vars, tableVars, queueVars
  <2>2. IInv' /\ Grow
    BY <1>3, <2>1, NextInv, SameGrows, Zenon DEF IInv
  <2>3. ready' \in [Instances -> BOOLEAN] /\ (ready[i] => ready'[i]) /\ \A s \in Stages : Written(i, s)
    BY <2>1, SameWritten, Zenon DEF QInv
  <2> QED BY <2>1, <2>2, <2>3, OthersQueue, Zenon
<1> QED BY <1>2, <1>3, Zenon

\* With one server the loop of the queue never sleeps, with an empty channel, over a stage
\* that has no limit and that a waiting runner could take, unless a signal woken by a token
\* could not get the lock or the list and none has succeeded since: neither Schedule and
\* Request, whose sends do not block, nor a signal that succeeds, which lists the stages
\* before it hands them out, lose a wakeup, and nobody who drops a stage leaves it free.
THEOREM WakeupsAreKept == ASSUME NEW i \in Instances, Instances = {i} PROVE Spec => []NoLostWakeup
<1>1. IInv /\ QInv(i) => NoLostWakeup
  <2>1. ASSUME QInv(i), NEW r \in workers[i], NEW s \in Matches[r],
               ~ready[i], signal[i] = {}, stage[s].status = "pending", stage[s].machine = None,
               Limit[s] = 0, ~missed[i]
        PROVE  \E q \in Runners : handed[q] = s \/ runner[q].stage = s
    <3>1. r \in Runners
      BY <2>1, Zenon DEF QInv
    <3>2. s \in Stages
      BY <3>1, QueueAssumption, Zenon
    <3>3. Covered(i, s)
      BY <2>1, <3>2, Zenon DEF QInv
    <3> QED BY <2>1, <3>3, Zenon DEF Covered, Free, InHand
  <2>2. ASSUME QInv(i), NEW j \in Instances, NEW r \in workers[j], NEW s \in Matches[r]
        PROVE  \/ ready[j] \/ signal[j] # {} \/ missed[j]
               \/ stage[s].status # "pending" \/ stage[s].machine # None \/ Limit[s] # 0
               \/ \E q \in Runners : handed[q] = s \/ runner[q].stage = s
    <3>1. j = i
      BY Zenon
    <3> QED BY <2>1, <2>2, <3>1, Zenon
  <2> QED BY <2>2, Zenon DEF NoLostWakeup
<1>2. IInv /\ [Next]_vars => IInv'
  BY NextInv, Zenon
<1>3. IInv /\ QInv(i) /\ [Next]_vars => QInv(i)'
  BY NextQueues, Zenon
<1>4. Init => QInv(i)
  BY InitQueues, Zenon
<1> QED BY <1>1, <1>2, <1>3, <1>4, InitInv, PTL DEF Spec
=============================================================================
