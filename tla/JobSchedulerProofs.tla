------------------------- MODULE JobSchedulerProofs -------------------------
(***************************************************************************)
(* JobScheduler under every fault, for every value of its constants: types,*)
(* the counters of user jobs, the states of recurring jobs, the map of the *)
(* functions that cancel jobs, the sections under the global lock, and the *)
(* states that a job does not leave.                                       *)
(***************************************************************************)
EXTENDS JobScheduler, TLAPS

(* Types *)

\* What a cancel call and a goroutine hold while they are at work: a job, and
\* where an update is due, the row to base it on.
CancelBusy ==
    \A i \in Instances : cancel[i].pc # "idle" =>
        cancel[i].uid \in JobUIDs /\ cancel[i].snap \in Row

HoldsJob(e) ==
    /\ e.pc # "free" => e.inst \in Instances /\ e.uid \in JobUIDs
    /\ e.pc = "post" => e.snap[e.uid] \in Row

ExecBusy == \A g \in Execs : HoldsJob(exec[g])

TypeInv == TypeOK /\ CancelBusy /\ ExecBusy
-----------------------------------------------------------------------------
\* New rows are rows, and rows stay rows when their state is set.
LEMMA NewRowTypes == toNewJob \in Row /\ newRecurring \in Row
  BY Zenon DEF Row, State, toNewJob, newRecurring

LEMMA SetStateTypes ==
    ASSUME NEW row \in Row
    PROVE  /\ [row EXCEPT !.state = "canceled"] \in Row
           /\ [row EXCEPT !.state = "scheduled", !.due = FALSE] \in Row
           /\ [row EXCEPT !.due = TRUE] \in Row
           /\ [row EXCEPT !.late = TRUE] \in Row
           /\ [row EXCEPT !.old = TRUE] \in Row
  BY Zenon DEF Row, State

\* preExec and postExec turn rows into rows.
LEMMA RowTypes ==
    ASSUME NEW j \in JobUIDs, NEW row \in Row, NEW err \in BOOLEAN
    PROVE  preExec(j, row) \in Row /\ postExec(j, row, err) \in Row
  <1>1. \A n \in Nat : Increment(j, n) \in Nat
    BY DEF Increment
  <1>3. preExec(j, row) \in Row
    BY <1>1, Zenon DEF Row, State, preExec
  <1>4. \A n \in Nat, s \in State :
           /\ [row EXCEPT !.state = s, !.due = FALSE, !.fails = n] \in Row
           /\ [row EXCEPT !.state = s, !.fails = n] \in Row
    BY Zenon DEF Row
  <1>5. {"scheduled", "canceled", "failed", "finished"} \subseteq State
    BY Zenon DEF State
  <1>6. row.fails \in Nat
    BY Zenon DEF Row
  <1>7. postExec(j, row, err) \in Row
    <2> DEFINE fails == IF err THEN Increment(j, row.fails) ELSE row.fails
               s == IF err THEN "failed" ELSE "finished"
    <2>1. fails \in Nat /\ s \in State
      BY <1>1, <1>5, <1>6, Zenon
    <2> DEFINE again == [row EXCEPT !.state = "scheduled", !.due = FALSE, !.fails = fails]
               ended == [row EXCEPT !.state = s, !.fails = fails]
    <2>2. postExec(j, row, err) = row \/ postExec(j, row, err) = again
            \/ postExec(j, row, err) = ended
      BY Zenon DEF postExec
    <2>3. again \in Row /\ ended \in Row
      <3> HIDE DEF fails, s
      <3> QED BY <1>4, <1>5, <2>1, Zenon
    <2> HIDE DEF again, ended
    <2> QED BY <2>2, <2>3, Zenon
  <1> QED BY <1>3, <1>7, Zenon

\* Fragments of the table are tables.
LEMMA RowsTypes ==
    ASSUME TypeOK
    PROVE  /\ NoRows \in Rows
           /\ \A S : Only(S) \in Rows
           /\ \A rows \in Rows, j \in JobUIDs : [rows EXCEPT ![j] = None] \in Rows
           /\ \A rows \in Rows, j \in JobUIDs, row \in Row : [rows EXCEPT ![j] = row] \in Rows
  BY Zenon DEF TypeOK, Rows, NoRows, Only

\* The updates of a goroutine's state keep it a goroutine state.
LEMMA ExecTypes ==
    ASSUME NEW e \in ExecState
    PROVE  /\ [e EXCEPT !.ctxDone = TRUE] \in ExecState
           /\ [e EXCEPT !.pc = "handler"] \in ExecState
           /\ \A rows \in Rows : /\ [e EXCEPT !.pc = "reclaim", !.snap = rows] \in ExecState
                                 /\ [e EXCEPT !.pc = "post", !.snap = rows] \in ExecState
                                 /\ [e EXCEPT !.snap = rows] \in ExecState
           /\ \A err \in BOOLEAN, rows \in Rows :
                 [e EXCEPT !.pc = "done", !.err = err, !.snap = rows, !.ctxDone = TRUE]
                   \in ExecState
  BY Zenon DEF ExecState, ExecPC

LEMMA NewExecTypes ==
    ASSUME NoRows \in Rows
    PROVE  /\ FreeExec \in ExecState
           /\ \A i \in Instances, j \in JobUIDs :
                 [FreeExec EXCEPT !.pc = "begin", !.inst = i, !.uid = j] \in ExecState
  BY Zenon DEF ExecState, ExecPC, FreeExec

LEMMA OwnerTypes ==
    /\ \A i \in Instances : <<"proc", i>> \in Owner /\ <<"cancel", i>> \in Owner
    /\ \A g \in Execs : <<"exec", g>> \in Owner
  BY Zenon DEF Owner

\* Variables keep their types: one step per group of actions.
LEMMA InstanceTypes ==
    ASSUME TypeInv, NEW i \in Instances, InstanceStep(i)
    PROVE  TypeInv'
  <1> USE DEF TypeInv, TypeOK
  <1>r. NoRows \in Rows
    BY RowsTypes, Zenon
  <1>1. ASSUME NEW changed \in SUBSET Recurring, Start(i, changed) PROVE TypeInv'
    <2>1. jobs' \in Rows
      <3> SUFFICES ASSUME NEW j \in JobUIDs PROVE jobs'[j] \in Row \cup {None}
        BY <1>1, Zenon DEF Start, createNecessaryJobs, Upsert, Rows
      <3>1. CASE j \in Recurring /\ ~Exists(j)
        BY <1>1, <3>1, NewRowTypes, Zenon DEF Start, createNecessaryJobs, Upsert
      <3>2. CASE j \in changed /\ Exists(j)
        <4>1. jobs[j] \in Row
          BY <3>2, Zenon DEF Exists, Rows
        <4>2. jobs'[j] = [jobs[j] EXCEPT !.state = "scheduled", !.due = FALSE]
          BY <1>1, <3>2, Zenon DEF Start, createNecessaryJobs, Upsert
        <4>3. [jobs[j] EXCEPT !.state = "scheduled", !.due = FALSE] \in Row
          BY <4>1, SetStateTypes, Zenon
        <4> QED BY <4>2, <4>3, Zenon
      <3>3. CASE j \notin changed /\ ~(j \in Recurring /\ ~Exists(j))
        BY <1>1, <3>3, Zenon DEF Start, createNecessaryJobs, Upsert, Rows
      <3> QED BY <1>1, <3>1, <3>2, <3>3, Zenon DEF Start, createNecessaryJobs, Upsert
    <2>2. CancelBusy' /\ ExecBusy'
      BY <1>1, Zenon DEF Start, CancelBusy, ExecBusy
    <2> QED BY <1>1, <2>1, <2>2, Zenon DEF Start
  <1>2. ASSUME Stop(i) PROVE TypeInv'
    <2>1. ASSUME NEW g \in Execs
          PROVE  /\ exec'[g] \in ExecState
                 /\ exec'[g].pc = exec[g].pc /\ exec'[g].inst = exec[g].inst
                 /\ exec'[g].uid = exec[g].uid /\ exec'[g].snap = exec[g].snap
      <3>1. exec[g] \in ExecState
        BY Zenon
      <3> QED BY <1>2, <3>1, Zenon DEF Stop, ExecState
    <2>2. stops' \in 0..MaxStops
      BY <1>2, ConstantsAssumption DEF Stop
    <2>3. exec' \in [Execs -> ExecState]
      BY <1>2, <2>1, Zenon DEF Stop
    <2>4. CancelBusy' /\ ExecBusy'
      BY <1>2, <2>1 DEF Stop, CancelBusy, ExecBusy, HoldsJob
    <2> QED BY <1>2, <1>r, <2>2, <2>3, <2>4, Zenon DEF Stop, Unlocked
  <1>3. ASSUME Gone(i), stops' \in 0..MaxStops PROVE TypeInv'
    <2>1. \A g \in Execs : exec'[g] = FreeExec \/ exec'[g] = exec[g]
      BY <1>3, Zenon DEF Gone
    <2>2. FreeExec \in ExecState /\ FreeExec.pc = "free"
      BY <1>r, NewExecTypes, Zenon DEF FreeExec
    <2>3. NoCancel \in CancelState /\ NoCancel.pc = "idle"
      BY Zenon DEF NoCancel, CancelState
    <2>4. exec' \in [Execs -> ExecState]
      BY <1>3, <2>1, <2>2, Zenon DEF Gone
    <2>5. CancelBusy' /\ ExecBusy'
      BY <1>3, <2>1, <2>2, <2>3, Zenon DEF Gone, CancelBusy, ExecBusy, HoldsJob
    <2> QED BY <1>3, <1>r, <2>3, <2>4, <2>5, Zenon DEF Gone
  <1>4. CASE Exit(i)
    BY <1>3, <1>4, Zenon DEF Exit
  <1>5. CASE Crash(i)
    <2>1. stops' \in 0..MaxStops
      BY <1>5, ConstantsAssumption DEF Crash
    <2> QED BY <1>3, <1>5, <2>1, Zenon DEF Crash
  <1> QED BY <1>1, <1>2, <1>4, <1>5, Zenon DEF InstanceStep

LEMMA ProcessTypes ==
    ASSUME TypeInv, NEW i \in Instances, ProcessStep(i)
    PROVE  TypeInv'
  <1> USE DEF TypeInv, TypeOK
  <1>r. NoRows \in Rows /\ \A S : Only(S) \in Rows
    BY RowsTypes, Zenon
  <1>1. ASSUME NEW S \in SUBSET JobUIDs, processReadyJobs(i, S) PROVE TypeInv'
    <2>1. CancelBusy' /\ ExecBusy'
      BY <1>1, Zenon DEF processReadyJobs, CancelBusy, ExecBusy
    <2> QED BY <1>1, <1>r, <2>1, OwnerTypes, Zenon DEF processReadyJobs, Acquire
  <1>2. ASSUME NEW j \in JobUIDs, Taken(i, j)
        PROVE  batch' \in [Instances -> Rows] /\ lock' \in Owner \cup {None}
    BY <1>2, RowsTypes, Zenon DEF Taken, Unlocked
  <1>3. ASSUME NEW j \in JobUIDs, batch[i][j] # None,
               UpdateExecution(j, preExec(j, batch[i][j]))
        PROVE  jobs' \in Rows
    <2>1. batch[i][j] \in Row
      BY <1>3 DEF Rows
    <2>2. preExec(j, batch[i][j]) \in Row
      BY <2>1, RowTypes, Zenon
    <2> QED BY <1>3, <2>2, RowsTypes, Zenon DEF UpdateExecution
  <1>4. ASSUME NEW j \in JobUIDs, NEW g \in Execs, runJob(i, j, g) PROVE TypeInv'
    <2> DEFINE new == [FreeExec EXCEPT !.pc = "begin", !.inst = i, !.uid = j]
    <2>1. new \in ExecState
      BY <1>r, NewExecTypes, Zenon
    <2>2. new.pc = "begin" /\ new.inst = i /\ new.uid = j
      BY Zenon DEF FreeExec
    <2>3. exec' = [exec EXCEPT ![g] = new]
      BY <1>4, Zenon DEF runJob
    <2>4. exec' \in [Execs -> ExecState] /\ ExecBusy'
      <3> HIDE DEF new
      <3> QED BY <2>1, <2>2, <2>3, Zenon DEF ExecBusy, HoldsJob
    <2>5. CancelBusy'
      BY <1>4, Zenon DEF runJob, CancelBusy
    <2> QED BY <1>2, <1>3, <1>4, <2>4, <2>5, Zenon DEF runJob
  <1>5. ASSUME NEW j \in JobUIDs, NEW w \in Writes, skipJob(i, j, w) PROVE TypeInv'
    <2>1. jobs' \in Rows
      BY <1>3, <1>5, Zenon DEF skipJob
    <2>2. CancelBusy' /\ ExecBusy'
      BY <1>5, Zenon DEF skipJob, CancelBusy, ExecBusy
    <2> QED BY <1>2, <1>5, <2>1, <2>2, Zenon DEF skipJob
  <1> QED BY <1>1, <1>4, <1>5, Zenon DEF ProcessStep

LEMMA ContextTypes ==
    ASSUME TypeInv, NEW i \in Instances, NEW j, CancelContext(i, j)
    PROVE  exec' \in [Execs -> ExecState] /\ ExecBusy'
  <1> USE DEF TypeInv, TypeOK
  <1>1. ASSUME NEW g \in Execs
        PROVE  exec'[g] \in ExecState /\ HoldsJob(exec'[g])
    <2>1. exec[g] \in ExecState /\ HoldsJob(exec[g])
      BY Zenon DEF ExecBusy
    <2>2. [exec[g] EXCEPT !.ctxDone = TRUE] \in ExecState
      BY <2>1, ExecTypes, Zenon
    <2>3. HoldsJob([exec[g] EXCEPT !.ctxDone = TRUE])
      BY <2>1, Zenon DEF HoldsJob, ExecState
    <2> QED BY <2>1, <2>2, <2>3, Zenon DEF CancelContext
  <1> QED BY <1>1, Zenon DEF CancelContext, ExecBusy

LEMMA CancelTypes ==
    ASSUME TypeInv, NEW i \in Instances, CancelStep(i)
    PROVE  TypeInv'
  <1> USE DEF TypeInv, TypeOK
  <1>n. NoCancel \in CancelState /\ NoCancel.pc = "idle"
    BY Zenon DEF NoCancel, CancelState
  <1>1. ASSUME NEW j \in JobUIDs, CancelJob(i, j) PROVE TypeInv'
    <2>1. jobs[j] \in Row
      BY <1>1, Zenon DEF CancelJob, InState, Rows
    <2>2. [pc |-> "update", uid |-> j, snap |-> jobs[j]] \in CancelState
      BY <2>1, Zenon DEF CancelState
    <2>3. CancelBusy' /\ ExecBusy'
      BY <1>1, <2>1, Zenon DEF CancelJob, CancelBusy, ExecBusy
    <2> QED BY <1>1, <2>2, <2>3, OwnerTypes, Zenon DEF CancelJob, Acquire
  <1>2. ASSUME NEW w \in Writes, CancelUpdate(i, w) PROVE TypeInv'
    <2> DEFINE row == [cancel[i].snap EXCEPT !.state = "canceled"]
    <2>1. cancel[i].uid \in JobUIDs /\ cancel[i].snap \in Row
      BY <1>2, Zenon DEF CancelUpdate, CancelBusy
    <2>2. row \in Row
      BY <2>1, SetStateTypes, Zenon
    <2>3. jobs' = jobs \/ jobs' = [jobs EXCEPT ![cancel[i].uid] = row]
      BY <1>2, Zenon DEF CancelUpdate, UpdateExecution
    <2>4. jobs' \in Rows
      <3> HIDE DEF row
      <3> QED BY <2>1, <2>2, <2>3, RowsTypes
    <2> DEFINE signal == [cancel[i] EXCEPT !.pc = "signal"]
    <2>5. signal \in CancelState /\ signal.uid = cancel[i].uid /\ signal.snap = cancel[i].snap
      BY Zenon DEF CancelState
    <2>6. cancel' = [cancel EXCEPT ![i] = NoCancel] \/ cancel' = [cancel EXCEPT ![i] = signal]
      BY <1>2, Zenon DEF CancelUpdate
    <2>7. cancel' \in [Instances -> CancelState] /\ CancelBusy'
      <3> HIDE DEF signal
      <3> QED BY <1>n, <2>1, <2>5, <2>6, Zenon DEF CancelBusy
    <2>8. ExecBusy'
      BY <1>2, Zenon DEF CancelUpdate, ExecBusy
    <2> QED BY <1>2, <2>4, <2>7, <2>8, Zenon DEF CancelUpdate, Unlocked
  <1>3. CASE CancelSignal(i)
    <2>1. exec' \in [Execs -> ExecState] /\ ExecBusy'
      BY <1>3, ContextTypes, Zenon DEF CancelSignal, ExecBusy
    <2>2. cancel' \in [Instances -> CancelState] /\ CancelBusy'
      BY <1>3, <1>n, Zenon DEF CancelSignal, CancelBusy
    <2>3. inbox' \subseteq Instances \X JobUIDs
      BY <1>3 DEF CancelSignal, CancelBusy
    <2> QED BY <1>3, <2>1, <2>2, <2>3, Zenon DEF CancelSignal, Unlocked
  <1>4. ASSUME NEW j \in JobUIDs, handleCancelJob(i, j) PROVE TypeInv'
    <2>1. exec' \in [Execs -> ExecState] /\ ExecBusy'
      BY <1>4, ContextTypes, Zenon DEF handleCancelJob
    <2>2. CancelBusy'
      BY <1>4, Zenon DEF handleCancelJob, CancelBusy
    <2> QED BY <1>4, <2>1, <2>2, Zenon DEF handleCancelJob
  <1> QED BY <1>1, <1>2, <1>3, <1>4, Zenon DEF CancelStep

LEMMA ExecUpdateTypes ==
    ASSUME TypeInv, NEW g \in Execs, NEW e \in ExecState, HoldsJob(e),
           exec' = [exec EXCEPT ![g] = e]
    PROVE  exec' \in [Execs -> ExecState] /\ ExecBusy'
  BY Zenon DEF TypeInv, TypeOK, ExecBusy

LEMMA FinishTypes ==
    ASSUME TypeInv, NEW g \in Execs, exec[g].pc # "free", NEW err \in BOOLEAN
    PROVE  Finish(g, err) \in ExecState /\ HoldsJob(Finish(g, err))
  <1>1. exec[g] \in ExecState /\ HoldsJob(exec[g])
    BY Zenon DEF TypeInv, TypeOK, ExecBusy
  <1>2. NoRows \in Rows
    BY RowsTypes, Zenon DEF TypeInv
  <1>3. Finish(g, err) \in ExecState
    BY <1>1, <1>2, ExecTypes, Zenon DEF Finish
  <1>4. Finish(g, err).pc = "done" /\ Finish(g, err).inst = exec[g].inst
          /\ Finish(g, err).uid = exec[g].uid
    BY <1>1, Zenon DEF Finish, ExecState
  <1> QED BY <1>1, <1>3, <1>4, Zenon DEF HoldsJob

LEMMA UnregisterTypes ==
    ASSUME TypeInv, NEW g \in Execs, Unregister(g)
    PROVE  cancelJobMap' \in [Instances -> [JobUIDs -> Execs \cup {None}]]
  BY Zenon DEF TypeInv, TypeOK, Unregister

LEMMA ReclaimedTypes ==
    ASSUME TypeInv, NEW g \in Execs, NEW j \in JobUIDs, exec[g].snap[j] # None,
           UpdateExecution(j, postExec(j, exec[g].snap[j], TRUE))
    PROVE  jobs' \in Rows
  <1>1. exec[g].snap[j] \in Row
    BY DEF TypeInv, TypeOK, ExecState, Rows
  <1>2. postExec(j, exec[g].snap[j], TRUE) \in Row
    BY <1>1, RowTypes, Zenon
  <1> QED BY <1>2, RowsTypes, Zenon DEF TypeInv, TypeOK, UpdateExecution

LEMMA HandlerTypes ==
    ASSUME TypeInv, NEW g \in Execs,
           \/ doExec(g) \/ (\E err \in BOOLEAN : HandlerReturns(g, err))
           \/ PurgeHandle(g) \/ OverdueHandle(g)
    PROVE  TypeInv'
  <1> USE DEF TypeInv, TypeOK
  <1>r. \A S : Only(S) \in Rows
    BY RowsTypes, Zenon
  <1>e. exec[g] \in ExecState /\ HoldsJob(exec[g])
    BY Zenon DEF ExecBusy
  <1>1. ASSUME doExec(g) PROVE TypeInv'
    <2>1. exec[g].pc = "begin"
      BY <1>1, Zenon DEF doExec
    <2> DEFINE e == [exec[g] EXCEPT !.pc = "handler"]
    <2>2. e \in ExecState /\ HoldsJob(e)
      BY <1>e, <2>1, ExecTypes, Zenon DEF HoldsJob, ExecState
    <2>3. exec' = [exec EXCEPT ![g] = Finish(g, TRUE)] \/ exec' = [exec EXCEPT ![g] = e]
      BY <1>1, Zenon DEF doExec
    <2>4. exec' \in [Execs -> ExecState] /\ ExecBusy'
      <3> HIDE DEF e
      <3> QED BY <2>1, <2>2, <2>3, FinishTypes, ExecUpdateTypes, Zenon
    <2>5. CancelBusy'
      BY <1>1, Zenon DEF doExec, CancelBusy
    <2>6. cancelJobMap' \in [Instances -> [JobUIDs -> Execs \cup {None}]]
      <3>1. PICK i, j : /\ i \in Instances /\ j \in JobUIDs
                        /\ \/ cancelJobMap' = cancelJobMap
                           \/ cancelJobMap' = [cancelJobMap EXCEPT ![i][j] = g]
        BY <1>e, <1>1, <2>1, Zenon DEF doExec, HoldsJob
      <3>2. [cancelJobMap[i] EXCEPT ![j] = g] \in [JobUIDs -> Execs \cup {None}]
        BY <3>1, Zenon
      <3> QED BY <3>1, <3>2, Zenon
    <2> QED BY <1>1, <2>4, <2>5, <2>6, Zenon DEF doExec
  <1>2. ASSUME NEW err \in BOOLEAN, HandlerReturns(g, err) PROVE TypeInv'
    <2>1. exec' \in [Execs -> ExecState] /\ ExecBusy'
      BY <1>2, FinishTypes, ExecUpdateTypes, Zenon DEF HandlerReturns
    <2>2. cancelJobMap' \in [Instances -> [JobUIDs -> Execs \cup {None}]]
      BY <1>2, UnregisterTypes, Zenon DEF HandlerReturns
    <2>3. CancelBusy'
      BY <1>2, Zenon DEF HandlerReturns, CancelBusy
    <2> QED BY <1>2, <2>1, <2>2, <2>3, Zenon DEF HandlerReturns
  <1>3. ASSUME PurgeHandle(g) PROVE TypeInv'
    <2>1. exec' \in [Execs -> ExecState] /\ ExecBusy'
      BY <1>3, FinishTypes, ExecUpdateTypes, Zenon DEF PurgeHandle
    <2>2. cancelJobMap' \in [Instances -> [JobUIDs -> Execs \cup {None}]]
      BY <1>3, UnregisterTypes, Zenon DEF PurgeHandle
    <2>3. CancelBusy'
      BY <1>3, Zenon DEF PurgeHandle, CancelBusy
    <2>4. jobs' \in Rows
      BY <1>3, Zenon DEF PurgeHandle, Rows
    <2> QED BY <1>3, <2>1, <2>2, <2>3, <2>4, Zenon DEF PurgeHandle
  <1>4. ASSUME OverdueHandle(g) PROVE TypeInv'
    <2> DEFINE e == [exec[g] EXCEPT !.pc = "reclaim", !.snap = Only(DeadlineExceeded)]
    <2>1. exec[g].pc = "handler"
      BY <1>4, Zenon DEF OverdueHandle
    <2>2. e \in ExecState /\ HoldsJob(e)
      BY <1>e, <1>r, <2>1, ExecTypes, Zenon DEF HoldsJob, ExecState
    <2>3. exec' = [exec EXCEPT ![g] = Finish(g, FALSE)] \/ exec' = [exec EXCEPT ![g] = e]
      BY <1>4, Zenon DEF OverdueHandle
    <2>4. exec' \in [Execs -> ExecState] /\ ExecBusy'
      <3> HIDE DEF e
      <3> QED BY <2>1, <2>2, <2>3, FinishTypes, ExecUpdateTypes, Zenon
    <2>5. cancelJobMap' \in [Instances -> [JobUIDs -> Execs \cup {None}]]
      BY <1>4, UnregisterTypes, Zenon DEF OverdueHandle
    <2>6. CancelBusy'
      BY <1>4, Zenon DEF OverdueHandle, CancelBusy
    <2> QED BY <1>4, <2>4, <2>5, <2>6, OwnerTypes, Zenon DEF OverdueHandle, Acquire
  <1> QED BY <1>1, <1>2, <1>3, <1>4, Zenon

LEMMA AfterTypes ==
    ASSUME TypeInv, NEW g \in Execs,
           \/ \E j \in JobUIDs : Reclaim(g, j)
           \/ \E j \in JobUIDs : \E w \in Writes : ReclaimFails(g, j, w)
           \/ FindExecuted(g)
           \/ \E w \in Writes : UpdateExecuted(g, w)
    PROVE  TypeInv'
  <1> USE DEF TypeInv, TypeOK
  <1>r. NoRows \in Rows /\ \A S : Only(S) \in Rows
    BY RowsTypes, Zenon
  <1>e. exec[g] \in ExecState /\ HoldsJob(exec[g])
    BY Zenon DEF ExecBusy
  <1>f. FreeExec \in ExecState /\ HoldsJob(FreeExec)
    BY <1>r, NewExecTypes, Zenon DEF HoldsJob, FreeExec
  <1>1. ASSUME NEW j \in JobUIDs, Reclaim(g, j) PROVE TypeInv'
    <2> DEFINE rest == [exec[g].snap EXCEPT ![j] = None]
               e == [exec[g] EXCEPT !.snap = rest]
    <2>1. exec[g].pc = "reclaim"
      BY <1>1, Zenon DEF Reclaim
    <2>2. rest \in Rows
      BY <1>e, RowsTypes, Zenon DEF ExecState
    <2>3. e \in ExecState /\ HoldsJob(e)
      <3> HIDE DEF rest
      <3> QED BY <1>e, <2>1, <2>2, ExecTypes, Zenon DEF HoldsJob, ExecState
    <2>4. exec' = [exec EXCEPT ![g] = Finish(g, FALSE)] \/ exec' = [exec EXCEPT ![g] = e]
      BY <1>1, Zenon DEF Reclaim
    <2>5. exec' \in [Execs -> ExecState] /\ ExecBusy'
      <3> HIDE DEF e
      <3> QED BY <2>1, <2>3, <2>4, FinishTypes, ExecUpdateTypes, Zenon
    <2>6. cancelJobMap' \in [Instances -> [JobUIDs -> Execs \cup {None}]]
      BY <1>1, UnregisterTypes, Zenon DEF Reclaim
    <2>7. jobs' \in Rows
      BY <1>1, ReclaimedTypes, Zenon DEF Reclaim
    <2>8. CancelBusy'
      BY <1>1, Zenon DEF Reclaim, CancelBusy
    <2> QED BY <1>1, <2>5, <2>6, <2>7, <2>8, Zenon DEF Reclaim, Unlocked
  <1>2. ASSUME NEW j \in JobUIDs, NEW w \in Writes, ReclaimFails(g, j, w) PROVE TypeInv'
    <2>1. exec' \in [Execs -> ExecState] /\ ExecBusy'
      BY <1>2, FinishTypes, ExecUpdateTypes, Zenon DEF ReclaimFails
    <2>2. cancelJobMap' \in [Instances -> [JobUIDs -> Execs \cup {None}]]
      BY <1>2, UnregisterTypes, Zenon DEF ReclaimFails
    <2>3. jobs' \in Rows
      BY <1>2, ReclaimedTypes, Zenon DEF ReclaimFails
    <2>4. CancelBusy'
      BY <1>2, Zenon DEF ReclaimFails, CancelBusy
    <2> QED BY <1>2, <2>1, <2>2, <2>3, <2>4, Zenon DEF ReclaimFails, Unlocked
  <1>3. CASE FindExecuted(g)
    <2> DEFINE e == [exec[g] EXCEPT !.pc = "post", !.snap = Only({exec[g].uid})]
    <2>1. exec[g].pc = "done"
      BY <1>3, Zenon DEF FindExecuted
    <2>2. CASE Exists(exec[g].uid)
      <3>1. e \in ExecState
        BY <1>e, <1>r, ExecTypes, Zenon
      <3>2. Only({exec[g].uid})[exec[g].uid] \in Row
        BY <1>e, <2>1, <2>2, Zenon DEF HoldsJob, Only, Exists, Rows
      <3>3. HoldsJob(e)
        BY <1>e, <2>1, <3>2, Zenon DEF HoldsJob, ExecState
      <3>4. exec' = [exec EXCEPT ![g] = e]
        BY <1>3, <2>2, Zenon DEF FindExecuted
      <3>5. exec' \in [Execs -> ExecState] /\ ExecBusy'
        <4> HIDE DEF e
        <4> QED BY <3>1, <3>3, <3>4, ExecUpdateTypes, Zenon
      <3> QED BY <1>3, <3>5, OwnerTypes, Zenon DEF FindExecuted, Acquire, CancelBusy
    <2>3. CASE ~Exists(exec[g].uid)
      <3>1. exec' \in [Execs -> ExecState] /\ ExecBusy'
        BY <1>3, <1>f, <2>3, ExecUpdateTypes, Zenon DEF FindExecuted
      <3> QED BY <1>3, <2>3, <3>1, Zenon DEF FindExecuted, CancelBusy
    <2> QED BY <2>2, <2>3, Zenon
  <1>4. ASSUME NEW w \in Writes, UpdateExecuted(g, w) PROVE TypeInv'
    <2>1. exec' \in [Execs -> ExecState] /\ ExecBusy'
      BY <1>4, <1>f, ExecUpdateTypes, Zenon DEF UpdateExecuted
    <2>2. exec[g].uid \in JobUIDs /\ exec[g].snap[exec[g].uid] \in Row /\ exec[g].err \in BOOLEAN
      BY <1>4, <1>e, Zenon DEF UpdateExecuted, HoldsJob, ExecState
    <2>3. postExec(exec[g].uid, exec[g].snap[exec[g].uid], exec[g].err) \in Row
      BY <2>2, RowTypes, Zenon
    <2>4. jobs' \in Rows
      <3> DEFINE row == postExec(exec[g].uid, exec[g].snap[exec[g].uid], exec[g].err)
      <3>1. jobs' = jobs \/ jobs' = [jobs EXCEPT ![exec[g].uid] = row]
        BY <1>4, Zenon DEF UpdateExecuted, UpdateExecution
      <3> HIDE DEF row
      <3>2. row \in Row
        BY <2>3, Zenon DEF row
      <3>3. jobs \in Rows /\ TypeOK
        BY Zenon
      <3>4. [jobs EXCEPT ![exec[g].uid] = row] \in Rows
        BY ONLY <2>2, <3>2, <3>3, RowsTypes, Zenon
      <3> QED BY ONLY <3>1, <3>3, <3>4, Zenon
    <2> QED BY <1>4, <2>1, <2>4, Zenon DEF UpdateExecuted, Unlocked, CancelBusy
  <1> QED BY <1>1, <1>2, <1>3, <1>4, Zenon

LEMMA OtherTypes ==
    ASSUME TypeInv,
           \/ \E j \in JobUIDs : CallerStep(j) \/ TimeStep(j)
           \/ LeaseExpires
           \/ \E m \in inbox : Drop(m)
    PROVE  TypeInv'
  <1> USE DEF TypeInv, TypeOK
  <1>1. ASSUME NEW j \in JobUIDs, CallerStep(j) PROVE TypeInv'
    <2>1. jobs' \in Rows
      BY <1>1, NewRowTypes, RowsTypes DEF CallerStep, RunJob, Create, PurgeJobByUID, DeleteByUID
    <2> QED BY <1>1, <2>1, Zenon DEF CallerStep, RunJob, PurgeJobByUID, CancelBusy, ExecBusy
  <1>2. ASSUME NEW j \in JobUIDs, TimeStep(j) PROVE TypeInv'
    <2>1. jobs[j] \in Row
      BY <1>2, Zenon DEF TimeStep, BecomesDue, DeadlinePasses, RetentionPasses, InState, Exists, Rows
    <2>2. jobs' \in Rows
      <3>1. PICK row \in Row : jobs' = [jobs EXCEPT ![j] = row]
        BY <1>2, <2>1, SetStateTypes, Zenon DEF TimeStep, BecomesDue, DeadlinePasses, RetentionPasses
      <3> QED BY <3>1, RowsTypes, Zenon
    <2>3. ASSUME DeadlinePasses(j) PROVE exec' \in [Execs -> ExecState] /\ ExecBusy'
      <3>1. ASSUME NEW g \in Execs PROVE exec'[g] \in ExecState /\ HoldsJob(exec'[g])
        <4>1. exec[g] \in ExecState /\ HoldsJob(exec[g])
          BY Zenon DEF ExecBusy
        <4>2. [exec[g] EXCEPT !.ctxDone = TRUE] \in ExecState
                /\ HoldsJob([exec[g] EXCEPT !.ctxDone = TRUE])
          BY <4>1, ExecTypes, Zenon DEF HoldsJob, ExecState
        <4> QED BY <2>3, <4>1, <4>2, Zenon DEF DeadlinePasses
      <3> QED BY <2>3, <3>1, Zenon DEF DeadlinePasses, ExecBusy
    <2>4. exec' \in [Execs -> ExecState] /\ ExecBusy'
      BY <1>2, <2>3, Zenon DEF TimeStep, BecomesDue, RetentionPasses, ExecBusy
    <2> QED BY <1>2, <2>2, <2>4, Zenon DEF TimeStep, BecomesDue, DeadlinePasses, RetentionPasses, CancelBusy
  <1>3. CASE LeaseExpires
    BY <1>3, Zenon DEF LeaseExpires, CancelBusy, ExecBusy
  <1>4. ASSUME NEW m \in inbox, Drop(m) PROVE TypeInv'
    BY <1>4, Zenon DEF Drop, CancelBusy, ExecBusy
  <1> QED BY <1>1, <1>2, <1>3, <1>4, Zenon

\* Every variable keeps its type, and whoever is at work holds a job and the
\* row its update is based on: for any number of instances, jobs and faults.
THEOREM TypeCorrect == Spec => []TypeInv
  <1>1. Init => TypeInv
    <2>1. NoRows \in Rows
      BY Zenon DEF NoRows, Rows
    <2>2. FreeExec \in ExecState /\ FreeExec.pc = "free"
      BY <2>1, NewExecTypes, Zenon DEF FreeExec
    <2>3. NoCancel \in CancelState /\ NoCancel.pc = "idle"
      BY Zenon DEF NoCancel, CancelState
    <2> SUFFICES ASSUME Init PROVE TypeInv
      BY Zenon
    <2>4. TypeOK
      <3> HIDE DEF FreeExec, NoCancel
      <3> QED BY <2>1, <2>2, <2>3, ConstantsAssumption DEF Init, TypeOK
    <2>5. CancelBusy /\ ExecBusy
      BY <2>2, <2>3, Zenon DEF Init, CancelBusy, ExecBusy, HoldsJob
    <2> QED BY <2>4, <2>5, Zenon DEF TypeInv
  <1>2. TypeInv /\ [Next]_vars => TypeInv'
    <2> SUFFICES ASSUME TypeInv, [Next]_vars PROVE TypeInv'
      BY Zenon
    <2>1. CASE UNCHANGED vars
      BY <2>1, Zenon DEF vars, TypeInv, TypeOK, CancelBusy, ExecBusy
    <2>2. CASE Next
      BY <2>2, InstanceTypes, ProcessTypes, CancelTypes, HandlerTypes, AfterTypes, OtherTypes, Zenon
         DEF Next, ExecStep
    <2> QED BY <2>1, <2>2, Zenon
  <1> QED BY <1>1, <1>2, PTL DEF Spec

\* The type invariant of the runs.
THEOREM TypeInvariant == Spec => []TypeOK
  BY TypeCorrect, PTL DEF TypeInv

-----------------------------------------------------------------------------
(***************************************************************************)
(* The counters of user jobs and the states of recurring jobs. A write may *)
(* be based on a stale copy of the row, so the invariant speaks about every*)
(* copy: in the table, in a batch, in a cancel call, in a goroutine.       *)
(***************************************************************************)

GoodRow(j, row) ==
    IF j \in Recurring
    THEN row.state \in {"scheduled", "running"}
    ELSE /\ row.total <= MaxRetries[j] + 1
         /\ row.state = "scheduled" => row.total = row.fails /\ row.fails <= MaxRetries[j]
         /\ row.state = "running" => row.total = row.fails + 1 /\ row.fails <= MaxRetries[j]

GoodRows(rows) == \A j \in JobUIDs : rows[j] # None => GoodRow(j, rows[j])

GoodTable == GoodRows(jobs)
GoodBatch ==
    \A i \in Instances : /\ GoodRows(batch[i])
                         /\ \A j \in JobUIDs : batch[i][j] # None => batch[i][j].state = "scheduled"
GoodExec == \A g \in Execs : GoodRows(exec[g].snap)
GoodCancel ==
    \A i \in Instances : cancel[i].pc # "idle" =>
        cancel[i].uid \notin Recurring /\ GoodRow(cancel[i].uid, cancel[i].snap)

RowInv == GoodTable /\ GoodBatch /\ GoodExec /\ GoodCancel

\* Jobs that are not recurring have a retry limit.
LEMMA UserRetries ==
    ASSUME NEW j \in JobUIDs, j \notin Recurring
    PROVE  j \in UserJobs /\ MaxRetries[j] \in Nat
  BY ConstantsAssumption, Zenon DEF JobUIDs

\* New rows are good.
LEMMA NewRowGood ==
    ASSUME NEW j \in JobUIDs
    PROVE  /\ GoodRow(j, toNewJob)
           /\ j \in Recurring => GoodRow(j, newRecurring)
  BY UserRetries DEF GoodRow, toNewJob, newRecurring

\* A scheduled row becomes a good running one.
LEMMA PreExecGood ==
    ASSUME NEW j \in JobUIDs, NEW row \in Row, GoodRow(j, row), row.state = "scheduled"
    PROVE  GoodRow(j, preExec(j, row))
  <1>1. /\ preExec(j, row).state = "running" /\ preExec(j, row).fails = row.fails
        /\ preExec(j, row).total = Increment(j, row.total)
    BY Zenon DEF preExec, Row
  <1>2. row.total \in Nat /\ row.fails \in Nat
    BY Zenon DEF Row
  <1> QED BY <1>1, <1>2, UserRetries DEF GoodRow, Increment

\* What postExec makes of a good row is good, and never running.
LEMMA PostExecGood ==
    ASSUME NEW j \in JobUIDs, NEW row \in Row, NEW err \in BOOLEAN
    PROVE  /\ GoodRow(j, row) => GoodRow(j, postExec(j, row, err))
           /\ postExec(j, row, err).state # "running"
  <1> DEFINE fails == IF err THEN Increment(j, row.fails) ELSE row.fails
             again == [row EXCEPT !.state = "scheduled", !.due = FALSE, !.fails = fails]
             ended == [row EXCEPT !.state = IF err THEN "failed" ELSE "finished", !.fails = fails]
  <1>1. /\ again.state = "scheduled" /\ again.fails = fails /\ again.total = row.total
        /\ ended.state = (IF err THEN "failed" ELSE "finished")
        /\ ended.fails = fails /\ ended.total = row.total
    BY Zenon DEF Row
  <1>2. row.total \in Nat /\ row.fails \in Nat
    BY Zenon DEF Row
  <1>3. CASE row.state # "running" /\ (row.state # "canceled" \/ err)
    BY <1>3, Zenon DEF postExec
  <1>4. CASE /\ ~(row.state # "running" /\ (row.state # "canceled" \/ err))
             /\ j \in Recurring \/ (err /\ Retry(j, fails))
    <2>1. postExec(j, row, err) = again
      BY <1>4, Zenon DEF postExec
    <2>2. ASSUME j \notin Recurring, GoodRow(j, row) PROVE GoodRow(j, again)
      <3>1. row.state = "running" /\ err /\ fails = row.fails + 1 /\ fails <= MaxRetries[j]
        BY <1>4, <2>2, Zenon DEF Retry, Increment
      <3> QED BY <1>1, <1>2, <2>2, <3>1, UserRetries, Zenon DEF GoodRow
    <2>3. ASSUME j \in Recurring PROVE GoodRow(j, again)
      BY <1>1, <2>3, Zenon DEF GoodRow
    <2> HIDE DEF again
    <2> QED BY <1>1, <2>1, <2>2, <2>3, Zenon
  <1>5. CASE /\ ~(row.state # "running" /\ (row.state # "canceled" \/ err))
             /\ ~(j \in Recurring \/ (err /\ Retry(j, fails)))
    <2>1. postExec(j, row, err) = ended
      BY <1>5, Zenon DEF postExec
    <2>2. GoodRow(j, row) => GoodRow(j, ended)
      BY <1>1, <1>2, <1>5 DEF GoodRow
    <2> HIDE DEF ended
    <2> QED BY <1>1, <2>1, <2>2, Zenon
  <1> QED BY <1>3, <1>4, <1>5, Zenon

\* Setting a flag or the canceled state keeps a user row good, scheduling a
\* recurring one keeps that good.
LEMMA SetStateGood ==
    ASSUME NEW j \in JobUIDs, NEW row \in Row, GoodRow(j, row)
    PROVE  /\ j \notin Recurring => GoodRow(j, [row EXCEPT !.state = "canceled"])
           /\ j \in Recurring => GoodRow(j, [row EXCEPT !.state = "scheduled", !.due = FALSE])
           /\ GoodRow(j, [row EXCEPT !.due = TRUE])
           /\ GoodRow(j, [row EXCEPT !.late = TRUE])
           /\ GoodRow(j, [row EXCEPT !.old = TRUE])
  BY Zenon DEF GoodRow, Row

\* Parts of good tables are good tables.
LEMMA GoodParts ==
    ASSUME TypeOK, GoodTable
    PROVE  /\ GoodRows(NoRows)
           /\ \A S : GoodRows(Only(S))
           /\ \A rows \in Rows, j \in JobUIDs :
                 GoodRows(rows) => GoodRows([rows EXCEPT ![j] = None])
           /\ \A j \in JobUIDs, row \in Row :
                 GoodRow(j, row) => GoodRows([jobs EXCEPT ![j] = row])
  BY Zenon DEF TypeOK, GoodTable, GoodRows, NoRows, Only, Rows
-----------------------------------------------------------------------------
\* Who does not write the table and whose copies stay keeps the invariant.
LEMMA ExecSnapGood ==
    ASSUME TypeInv, RowInv, NEW g \in Execs, NEW e \in ExecState,
           GoodRows(e.snap), exec' = [exec EXCEPT ![g] = e]
    PROVE  GoodExec'
  BY Zenon DEF TypeInv, TypeOK, RowInv, GoodExec

LEMMA FinishGood ==
    ASSUME TypeInv, RowInv, NEW g \in Execs, exec[g].pc # "free", NEW err \in BOOLEAN,
           exec' = [exec EXCEPT ![g] = Finish(g, err)]
    PROVE  GoodExec'
  <1>1. Finish(g, err).snap = NoRows
    BY Zenon DEF Finish, TypeInv, TypeOK, ExecState
  <1>2. GoodRows(NoRows)
    BY GoodParts, Zenon DEF TypeInv, RowInv
  <1> QED BY <1>1, <1>2, FinishTypes, ExecSnapGood, Zenon

LEMMA InstanceRows ==
    ASSUME TypeInv, RowInv, NEW i \in Instances, InstanceStep(i)
    PROVE  RowInv'
  <1> USE DEF TypeInv, TypeOK, RowInv
  <1>n. GoodRows(NoRows) /\ \A j \in JobUIDs : NoRows[j] = None
    BY GoodParts, Zenon DEF NoRows
  <1>1. ASSUME NEW changed \in SUBSET Recurring, Start(i, changed) PROVE RowInv'
    <2>1. GoodTable'
      <3> SUFFICES ASSUME NEW j \in JobUIDs, jobs'[j] # None PROVE GoodRow(j, jobs'[j])
        BY Zenon DEF GoodTable, GoodRows
      <3>1. CASE j \in Recurring /\ ~Exists(j)
        BY <1>1, <3>1, NewRowGood, Zenon DEF Start, createNecessaryJobs, Upsert
      <3>2. CASE j \in changed /\ Exists(j)
        <4>1. jobs[j] \in Row /\ GoodRow(j, jobs[j])
          BY <3>2, Zenon DEF Exists, Rows, GoodTable, GoodRows
        <4>2. jobs'[j] = [jobs[j] EXCEPT !.state = "scheduled", !.due = FALSE]
          BY <1>1, <3>2, Zenon DEF Start, createNecessaryJobs, Upsert
        <4>3. GoodRow(j, [jobs[j] EXCEPT !.state = "scheduled", !.due = FALSE])
          BY <3>2, <4>1, SetStateGood, Zenon
        <4> QED BY <4>2, <4>3, Zenon
      <3>3. CASE j \notin changed /\ ~(j \in Recurring /\ ~Exists(j))
        BY <1>1, <3>3, Zenon DEF Start, createNecessaryJobs, Upsert, GoodTable, GoodRows
      <3> QED BY <1>1, <3>1, <3>2, <3>3, Zenon DEF Start, createNecessaryJobs, Upsert
    <2> QED BY <1>1, <2>1, Zenon DEF Start, GoodBatch, GoodExec, GoodCancel
  <1>2. CASE Stop(i)
    <2>1. ASSUME NEW g \in Execs PROVE exec'[g].snap = exec[g].snap
      BY <1>2 DEF Stop, ExecState
    <2> QED BY <1>2, <1>n, <2>1, Zenon DEF Stop, GoodTable, GoodBatch, GoodExec, GoodCancel
  <1>3. ASSUME Gone(i) PROVE RowInv'
    <2>1. \A g \in Execs : exec'[g] = FreeExec \/ exec'[g] = exec[g]
      BY <1>3, Zenon DEF Gone
    <2>2. FreeExec.snap = NoRows /\ NoCancel.pc = "idle"
      BY Zenon DEF FreeExec, NoCancel
    <2> QED BY <1>3, <1>n, <2>1, <2>2, Zenon DEF Gone, GoodTable, GoodBatch, GoodExec, GoodCancel
  <1> QED BY <1>1, <1>2, <1>3, Zenon DEF InstanceStep, Exit, Crash

LEMMA ProcessRows ==
    ASSUME TypeInv, RowInv, NEW i \in Instances, ProcessStep(i)
    PROVE  RowInv'
  <1> USE DEF TypeInv, TypeOK, RowInv
  <1>1. ASSUME NEW S \in SUBSET JobUIDs, processReadyJobs(i, S) PROVE RowInv'
    <2>1. GoodRows(Only(S)) /\ \A j \in JobUIDs : Only(S)[j] # None => Only(S)[j].state = "scheduled"
      BY <1>1, GoodParts, Zenon DEF processReadyJobs, IsListed, Ready, InState, Only
    <2> QED BY <1>1, <2>1, Zenon DEF processReadyJobs, GoodTable, GoodBatch, GoodExec, GoodCancel
  <1>2. ASSUME NEW j \in JobUIDs, Taken(i, j) PROVE GoodBatch'
    <2> DEFINE rest == [batch[i] EXCEPT ![j] = None]
    <2>1. GoodRows(rest)
      BY GoodParts, Zenon DEF GoodBatch
    <2>2. \A k \in JobUIDs : rest[k] # None => rest[k].state = "scheduled"
      BY Zenon DEF GoodBatch, Rows
    <2>3. batch' = [batch EXCEPT ![i] = rest]
      BY <1>2, Zenon DEF Taken
    <2> HIDE DEF rest
    <2> QED BY <2>1, <2>2, <2>3, Zenon DEF GoodBatch
  <1>3. ASSUME NEW j \in JobUIDs, batch[i][j] # None,
               UpdateExecution(j, preExec(j, batch[i][j]))
        PROVE  GoodTable'
    <2>1. batch[i][j] \in Row /\ GoodRow(j, batch[i][j]) /\ batch[i][j].state = "scheduled"
      <3>1. batch[i] \in [JobUIDs -> Row \cup {None}]
        BY Zenon DEF Rows
      <3>2. GoodRows(batch[i]) /\ \A k \in JobUIDs : batch[i][k] # None => batch[i][k].state = "scheduled"
        BY Zenon DEF GoodBatch
      <3> QED BY ONLY <1>3, <3>1, <3>2, j \in JobUIDs, Zenon DEF GoodRows
    <2>2. preExec(j, batch[i][j]) \in Row /\ GoodRow(j, preExec(j, batch[i][j]))
      BY <2>1, RowTypes, PreExecGood, Zenon
    <2> QED BY <1>3, <2>2, GoodParts, Zenon DEF UpdateExecution, GoodTable
  <1>4. ASSUME NEW j \in JobUIDs, NEW g \in Execs, runJob(i, j, g) PROVE RowInv'
    <2> DEFINE new == [FreeExec EXCEPT !.pc = "begin", !.inst = i, !.uid = j]
    <2>1. new \in ExecState /\ new.snap = NoRows
      BY RowsTypes, NewExecTypes, Zenon DEF FreeExec
    <2>2. GoodRows(NoRows) /\ exec' = [exec EXCEPT ![g] = new]
      BY <1>4, GoodParts, Zenon DEF runJob
    <2>3. GoodExec'
      <3> HIDE DEF new
      <3> QED BY <2>1, <2>2, ExecSnapGood, Zenon
    <2> QED BY <1>2, <1>3, <1>4, <2>3, Zenon DEF runJob, GoodCancel
  <1>5. ASSUME NEW j \in JobUIDs, NEW w \in Writes, skipJob(i, j, w) PROVE RowInv'
    <2>1. GoodTable'
      BY <1>3, <1>5, Zenon DEF skipJob, GoodTable
    <2> QED BY <1>2, <1>5, <2>1, Zenon DEF skipJob, GoodExec, GoodCancel
  <1> QED BY <1>1, <1>4, <1>5, Zenon DEF ProcessStep

\* Canceling contexts changes no copy of a row.
LEMMA ContextRows ==
    ASSUME TypeInv, RowInv, NEW i \in Instances, NEW j, CancelContext(i, j)
    PROVE  GoodExec'
  <1>1. ASSUME NEW g \in Execs PROVE exec'[g].snap = exec[g].snap
    BY DEF CancelContext, TypeInv, TypeOK, ExecState
  <1> QED BY <1>1, Zenon DEF RowInv, GoodExec

LEMMA CancelRows ==
    ASSUME TypeInv, RowInv, NEW i \in Instances, CancelStep(i)
    PROVE  RowInv'
  <1> USE DEF TypeInv, TypeOK, RowInv
  <1>n. NoCancel.pc = "idle"
    BY Zenon DEF NoCancel
  <1>1. ASSUME NEW j \in JobUIDs, CancelJob(i, j) PROVE RowInv'
    <2>1. j \notin Recurring /\ GoodRow(j, jobs[j])
      BY <1>1, Zenon DEF CancelJob, InState, GoodTable, GoodRows
    <2> QED BY <1>1, <2>1, Zenon DEF CancelJob, GoodTable, GoodBatch, GoodExec, GoodCancel
  <1>2. ASSUME NEW w \in Writes, CancelUpdate(i, w) PROVE RowInv'
    <2> DEFINE row == [cancel[i].snap EXCEPT !.state = "canceled"]
    <2>1. /\ cancel[i].uid \in JobUIDs /\ cancel[i].snap \in Row
          /\ cancel[i].uid \notin Recurring /\ GoodRow(cancel[i].uid, cancel[i].snap)
      BY <1>2, Zenon DEF CancelUpdate, CancelBusy, GoodCancel
    <2>2. row \in Row /\ GoodRow(cancel[i].uid, row)
      BY <2>1, SetStateTypes, SetStateGood, Zenon
    <2>3. jobs' = jobs \/ jobs' = [jobs EXCEPT ![cancel[i].uid] = row]
      BY <1>2, Zenon DEF CancelUpdate, UpdateExecution
    <2>4. GoodTable'
      <3> HIDE DEF row
      <3>1. GoodRows([jobs EXCEPT ![cancel[i].uid] = row])
        BY <2>1, <2>2, GoodParts, Zenon
      <3> QED BY <2>3, <3>1, Zenon DEF GoodTable
    <2> DEFINE signal == [cancel[i] EXCEPT !.pc = "signal"]
    <2>5. signal.uid = cancel[i].uid /\ signal.snap = cancel[i].snap
      BY Zenon DEF CancelState
    <2>6. cancel' = [cancel EXCEPT ![i] = NoCancel] \/ cancel' = [cancel EXCEPT ![i] = signal]
      BY <1>2, Zenon DEF CancelUpdate
    <2>7. GoodCancel'
      <3> HIDE DEF signal
      <3> QED BY <1>n, <2>1, <2>5, <2>6, Zenon DEF GoodCancel
    <2> QED BY <1>2, <2>4, <2>7, Zenon DEF CancelUpdate, GoodBatch, GoodExec
  <1>3. CASE CancelSignal(i)
    <2>1. GoodExec'
      BY <1>3, ContextRows, Zenon DEF CancelSignal, GoodExec
    <2>2. GoodCancel'
      BY <1>3, <1>n, Zenon DEF CancelSignal, GoodCancel
    <2> QED BY <1>3, <2>1, <2>2, Zenon DEF CancelSignal, GoodTable, GoodBatch
  <1>4. ASSUME NEW j \in JobUIDs, handleCancelJob(i, j) PROVE RowInv'
    BY <1>4, ContextRows, Zenon DEF handleCancelJob, GoodTable, GoodBatch, GoodCancel
  <1> QED BY <1>1, <1>2, <1>3, <1>4, Zenon DEF CancelStep

LEMMA HandlerRows ==
    ASSUME TypeInv, RowInv, NEW g \in Execs,
           \/ doExec(g) \/ (\E err \in BOOLEAN : HandlerReturns(g, err))
           \/ PurgeHandle(g) \/ OverdueHandle(g)
    PROVE  RowInv'
  <1> USE DEF TypeInv, TypeOK, RowInv
  <1>e. exec[g] \in ExecState /\ GoodRows(exec[g].snap)
    BY Zenon DEF GoodExec
  <1>1. ASSUME doExec(g) PROVE RowInv'
    <2> DEFINE e == [exec[g] EXCEPT !.pc = "handler"]
    <2>1. e \in ExecState /\ e.snap = exec[g].snap
      BY <1>e, ExecTypes, Zenon DEF ExecState
    <2>2. exec' = [exec EXCEPT ![g] = Finish(g, TRUE)] \/ exec' = [exec EXCEPT ![g] = e]
      BY <1>1, Zenon DEF doExec
    <2>3. exec[g].pc # "free"
      BY <1>1, Zenon DEF doExec
    <2>4. GoodExec'
      <3> HIDE DEF e
      <3> QED BY <1>e, <2>1, <2>2, <2>3, FinishGood, ExecSnapGood, Zenon
    <2> QED BY <1>1, <2>4, Zenon DEF doExec, GoodTable, GoodBatch, GoodCancel
  <1>2. ASSUME NEW err \in BOOLEAN, HandlerReturns(g, err) PROVE RowInv'
    BY <1>2, FinishGood, Zenon DEF HandlerReturns, GoodTable, GoodBatch, GoodCancel
  <1>3. ASSUME PurgeHandle(g) PROVE RowInv'
    <2>1. GoodTable'
      BY <1>3, Zenon DEF PurgeHandle, GoodTable, GoodRows
    <2>2. GoodExec'
      BY <1>3, FinishGood, Zenon DEF PurgeHandle
    <2> QED BY <1>3, <2>1, <2>2, Zenon DEF PurgeHandle, GoodBatch, GoodCancel
  <1>4. ASSUME OverdueHandle(g) PROVE RowInv'
    <2> DEFINE e == [exec[g] EXCEPT !.pc = "reclaim", !.snap = Only(DeadlineExceeded)]
    <2>1. e \in ExecState /\ e.snap = Only(DeadlineExceeded)
      BY <1>e, RowsTypes, ExecTypes, Zenon DEF ExecState
    <2>2. exec' = [exec EXCEPT ![g] = Finish(g, FALSE)] \/ exec' = [exec EXCEPT ![g] = e]
      BY <1>4, Zenon DEF OverdueHandle
    <2>3. exec[g].pc # "free" /\ GoodRows(Only(DeadlineExceeded))
      BY <1>4, GoodParts, Zenon DEF OverdueHandle
    <2>4. GoodExec'
      <3> HIDE DEF e
      <3> QED BY <2>1, <2>2, <2>3, FinishGood, ExecSnapGood, Zenon
    <2> QED BY <1>4, <2>4, Zenon DEF OverdueHandle, GoodTable, GoodBatch, GoodCancel
  <1> QED BY <1>1, <1>2, <1>3, <1>4, Zenon

\* A row that postExec made from a goroutine's copy is good.
LEMMA PostExecRows ==
    ASSUME TypeInv, RowInv, NEW g \in Execs, NEW j \in JobUIDs, exec[g].snap[j] # None,
           NEW err \in BOOLEAN, UpdateExecution(j, postExec(j, exec[g].snap[j], err))
    PROVE  GoodTable'
  <1>1. exec[g].snap[j] \in Row /\ GoodRow(j, exec[g].snap[j])
    BY DEF TypeInv, TypeOK, ExecState, Rows, RowInv, GoodExec, GoodRows
  <1>2. postExec(j, exec[g].snap[j], err) \in Row /\ GoodRow(j, postExec(j, exec[g].snap[j], err))
    BY <1>1, RowTypes, PostExecGood, Zenon
  <1> QED BY <1>2, GoodParts, Zenon DEF TypeInv, RowInv, UpdateExecution, GoodTable

LEMMA AfterRows ==
    ASSUME TypeInv, RowInv, NEW g \in Execs,
           \/ \E j \in JobUIDs : Reclaim(g, j)
           \/ \E j \in JobUIDs : \E w \in Writes : ReclaimFails(g, j, w)
           \/ FindExecuted(g)
           \/ \E w \in Writes : UpdateExecuted(g, w)
    PROVE  RowInv'
  <1> USE DEF TypeInv, TypeOK, RowInv
  <1>e. exec[g] \in ExecState /\ HoldsJob(exec[g]) /\ GoodRows(exec[g].snap)
    BY Zenon DEF ExecBusy, GoodExec
  <1>f. FreeExec \in ExecState /\ FreeExec.snap = NoRows /\ GoodRows(NoRows)
    BY RowsTypes, NewExecTypes, GoodParts, Zenon DEF FreeExec
  <1>1. ASSUME NEW j \in JobUIDs, Reclaim(g, j) PROVE RowInv'
    <2> DEFINE rest == [exec[g].snap EXCEPT ![j] = None]
               e == [exec[g] EXCEPT !.snap = rest]
    <2>1. rest \in Rows /\ GoodRows(rest)
      BY <1>e, RowsTypes, GoodParts, Zenon DEF ExecState
    <2>2. e \in ExecState /\ e.snap = rest
      <3> HIDE DEF rest
      <3> QED BY <1>e, <2>1, ExecTypes, Zenon DEF ExecState
    <2>3. exec' = [exec EXCEPT ![g] = Finish(g, FALSE)] \/ exec' = [exec EXCEPT ![g] = e]
      BY <1>1, Zenon DEF Reclaim
    <2>4. exec[g].pc # "free"
      BY <1>1, Zenon DEF Reclaim
    <2>5. GoodExec'
      <3> HIDE DEF e, rest
      <3> QED BY <2>1, <2>2, <2>3, <2>4, FinishGood, ExecSnapGood, Zenon
    <2>6. GoodTable'
      BY <1>1, PostExecRows, Zenon DEF Reclaim
    <2> QED BY <1>1, <2>5, <2>6, Zenon DEF Reclaim, GoodBatch, GoodCancel
  <1>2. ASSUME NEW j \in JobUIDs, NEW w \in Writes, ReclaimFails(g, j, w) PROVE RowInv'
    <2>1. GoodExec'
      BY <1>2, FinishGood, Zenon DEF ReclaimFails
    <2>2. GoodTable'
      BY <1>2, PostExecRows, Zenon DEF ReclaimFails, GoodTable
    <2> QED BY <1>2, <2>1, <2>2, Zenon DEF ReclaimFails, GoodBatch, GoodCancel
  <1>3. CASE FindExecuted(g)
    <2> DEFINE e == [exec[g] EXCEPT !.pc = "post", !.snap = Only({exec[g].uid})]
    <2>1. e \in ExecState /\ e.snap = Only({exec[g].uid})
      BY <1>e, RowsTypes, ExecTypes, Zenon DEF ExecState
    <2>2. GoodRows(Only({exec[g].uid}))
      BY GoodParts, Zenon
    <2>3. exec' = [exec EXCEPT ![g] = e] \/ exec' = [exec EXCEPT ![g] = FreeExec]
      BY <1>3, Zenon DEF FindExecuted
    <2>4. GoodExec'
      <3> HIDE DEF e
      <3> QED BY <1>f, <2>1, <2>2, <2>3, ExecSnapGood, Zenon
    <2> QED BY <1>3, <2>4, Zenon DEF FindExecuted, GoodTable, GoodBatch, GoodCancel
  <1>4. ASSUME NEW w \in Writes, UpdateExecuted(g, w) PROVE RowInv'
    <2>1. GoodExec'
      BY <1>4, <1>f, ExecSnapGood, Zenon DEF UpdateExecuted
    <2>2. exec[g].uid \in JobUIDs /\ exec[g].snap[exec[g].uid] # None /\ exec[g].err \in BOOLEAN
      BY <1>4, <1>e, ConstantsAssumption, Zenon DEF UpdateExecuted, HoldsJob, ExecState
    <2>3. GoodTable'
      BY <1>4, <2>2, PostExecRows, Zenon DEF UpdateExecuted, GoodTable
    <2> QED BY <1>4, <2>1, <2>3, Zenon DEF UpdateExecuted, GoodBatch, GoodCancel
  <1> QED BY <1>1, <1>2, <1>3, <1>4, Zenon

LEMMA OtherRows ==
    ASSUME TypeInv, RowInv,
           \/ \E j \in JobUIDs : CallerStep(j) \/ TimeStep(j)
           \/ LeaseExpires
           \/ \E m \in inbox : Drop(m)
    PROVE  RowInv'
  <1> USE DEF TypeInv, TypeOK, RowInv
  <1>1. ASSUME NEW j \in JobUIDs, CallerStep(j) PROVE RowInv'
    <2>1. ASSUME RunJob(j) PROVE GoodTable'
      <3>1. jobs' = [jobs EXCEPT ![j] = toNewJob]
        BY <2>1, Zenon DEF RunJob, Create
      <3> QED BY <3>1, NewRowTypes, NewRowGood, GoodParts, Zenon DEF GoodTable
    <2>2. ASSUME PurgeJobByUID(j) PROVE GoodTable'
      <3>1. jobs' = [jobs EXCEPT ![j] = None]
        BY <2>2, Zenon DEF PurgeJobByUID, DeleteByUID
      <3>2. GoodRows([jobs EXCEPT ![j] = None])
        BY GoodParts, Zenon DEF GoodTable
      <3> QED BY <3>1, <3>2, Zenon DEF GoodTable
    <2>3. GoodTable'
      BY <1>1, <2>1, <2>2, Zenon DEF CallerStep
    <2> QED BY <1>1, <2>3, Zenon DEF CallerStep, RunJob, PurgeJobByUID, GoodBatch, GoodExec, GoodCancel
  <1>2. ASSUME NEW j \in JobUIDs, TimeStep(j) PROVE RowInv'
    <2>1. jobs[j] \in Row /\ GoodRow(j, jobs[j])
      BY <1>2, Zenon DEF TimeStep, BecomesDue, DeadlinePasses, RetentionPasses, InState, Exists, Rows,
                  GoodTable, GoodRows
    <2>2. GoodTable'
      <3>1. PICK row \in Row : jobs' = [jobs EXCEPT ![j] = row] /\ GoodRow(j, row)
        BY <1>2, <2>1, SetStateTypes, SetStateGood, Zenon
           DEF TimeStep, BecomesDue, DeadlinePasses, RetentionPasses
      <3> QED BY <3>1, GoodParts, Zenon DEF GoodTable
    <2>3. ASSUME NEW g \in Execs PROVE exec'[g].snap = exec[g].snap
      BY <1>2 DEF TimeStep, BecomesDue, DeadlinePasses, RetentionPasses, ExecState
    <2> QED BY <1>2, <2>2, <2>3
            DEF TimeStep, BecomesDue, DeadlinePasses, RetentionPasses, GoodBatch, GoodExec, GoodCancel
  <1>3. CASE LeaseExpires
    BY <1>3, Zenon DEF LeaseExpires, GoodTable, GoodBatch, GoodExec, GoodCancel
  <1>4. ASSUME NEW m \in inbox, Drop(m) PROVE RowInv'
    BY <1>4, Zenon DEF Drop, GoodTable, GoodBatch, GoodExec, GoodCancel
  <1> QED BY <1>1, <1>2, <1>3, <1>4, Zenon

\* Every copy of a row is good, whichever faults happen.
THEOREM RowsGood == Spec => []RowInv
  <1>1. Init => RowInv
    <2>1. NoRows \in Rows /\ GoodRows(NoRows) /\ \A j \in JobUIDs : NoRows[j] = None
      BY Zenon DEF NoRows, Rows, GoodRows
    <2>2. FreeExec.snap = NoRows /\ NoCancel.pc = "idle"
      BY Zenon DEF FreeExec, NoCancel
    <2> QED BY <2>1, <2>2, Zenon DEF Init, RowInv, GoodTable, GoodBatch, GoodExec, GoodCancel
  <1>2. TypeInv /\ RowInv /\ [Next]_vars => RowInv'
    <2> SUFFICES ASSUME TypeInv, RowInv, [Next]_vars PROVE RowInv'
      BY Zenon
    <2>1. CASE UNCHANGED vars
      BY <2>1, Zenon DEF vars, RowInv, GoodTable, GoodBatch, GoodExec, GoodCancel
    <2>2. CASE Next
      BY <2>2, InstanceRows, ProcessRows, CancelRows, HandlerRows, AfterRows, OtherRows, Zenon
        , Zenon DEF Next, ExecStep
    <2> QED BY <2>1, <2>2, Zenon
  <1> QED BY <1>1, <1>2, TypeCorrect, PTL DEF Spec

\* No fault, no stale update and no late goroutine makes the table show more
\* than MaxRetries + 1 executions of a user job.
THEOREM AttemptsAreBounded == Spec => []AttemptsBounded
  <1>1. RowInv => AttemptsBounded
    <2> SUFFICES ASSUME RowInv, NEW j \in UserJobs, Exists(j)
                 PROVE  jobs[j].total <= MaxRetries[j] + 1
      BY Zenon DEF AttemptsBounded
    <2>1. j \in JobUIDs /\ j \notin Recurring
      BY ConstantsAssumption, Zenon DEF JobUIDs
    <2> QED BY <2>1, Zenon DEF RowInv, GoodTable, GoodRows, GoodRow, Exists
  <1> QED BY <1>1, RowsGood, PTL

\* The row of a recurring job is never deleted.
LEMMA RecurringKept ==
    ASSUME TypeInv, Next, NEW j \in Recurring, Exists(j)
    PROVE  jobs'[j] # None
  <1> USE DEF TypeInv, TypeOK
  <1>j. j \in JobUIDs /\ j \notin UserJobs
    BY ConstantsAssumption, Zenon DEF JobUIDs
  <1>u. ASSUME NEW k, NEW row, row \in Row, UpdateExecution(k, row) PROVE jobs'[j] # None
    BY <1>u, <1>j, ConstantsAssumption, Zenon DEF UpdateExecution, Exists, Rows
  <1>1. ASSUME NEW i \in Instances, NEW changed \in SUBSET Recurring, Start(i, changed)
        PROVE  jobs'[j] # None
    <2>1. CASE j \in changed
      <3>1. jobs[j] \in Row
        BY <1>j, Zenon DEF Exists, Rows
      <3>2. [jobs[j] EXCEPT !.state = "scheduled", !.due = FALSE] \in Row
        BY <3>1, SetStateTypes, Zenon
      <3> QED BY <1>1, <1>j, <2>1, <3>2, ConstantsAssumption, Zenon DEF Start, createNecessaryJobs, Upsert
    <2> QED BY <1>1, <1>j, <2>1, Zenon DEF Start, createNecessaryJobs, Upsert, Exists
  <1>2. ASSUME NEW i \in Instances, NEW k \in JobUIDs, batch[i][k] # None,
               UpdateExecution(k, preExec(k, batch[i][k]))
        PROVE  jobs'[j] # None
    <2>1. batch[i][k] \in Row
      BY <1>2 DEF Rows
    <2>2. preExec(k, batch[i][k]) \in Row
      BY <2>1, RowTypes, Zenon
    <2> QED BY <1>2, <1>u, <2>2, Zenon
  <1>3. ASSUME NEW g \in Execs, NEW k \in JobUIDs, exec[g].snap[k] # None, NEW err \in BOOLEAN,
               UpdateExecution(k, postExec(k, exec[g].snap[k], err))
        PROVE  jobs'[j] # None
    <2>1. exec[g].snap[k] \in Row
      BY <1>3 DEF ExecState, Rows
    <2>2. postExec(k, exec[g].snap[k], err) \in Row
      BY <2>1, RowTypes, Zenon
    <2> QED BY <1>3, <1>u, <2>2, Zenon
  <1>4. ASSUME NEW i \in Instances, NEW w \in Writes, CancelUpdate(i, w) PROVE jobs'[j] # None
    <2>1. cancel[i].snap \in Row
      BY <1>4, Zenon DEF CancelUpdate, CancelBusy
    <2>2. [cancel[i].snap EXCEPT !.state = "canceled"] \in Row
      BY <2>1, SetStateTypes, Zenon
    <2> QED BY <1>4, <1>u, <2>2, Zenon DEF CancelUpdate, Exists
  <1>5. ASSUME NEW g \in Execs, NEW w \in Writes, UpdateExecuted(g, w) PROVE jobs'[j] # None
    <2>1. exec[g].uid \in JobUIDs /\ exec[g].snap[exec[g].uid] # None /\ exec[g].err \in BOOLEAN
      BY <1>5, ConstantsAssumption, Zenon DEF UpdateExecuted, ExecBusy, HoldsJob, ExecState
    <2> QED BY <1>3, <1>5, <2>1, Zenon DEF UpdateExecuted, Exists
  <1>6. ASSUME NEW k \in JobUIDs, TimeStep(k) PROVE jobs'[j] # None
    <2>1. jobs[k] \in Row
      BY <1>6, Zenon DEF TimeStep, BecomesDue, DeadlinePasses, RetentionPasses, InState, Exists, Rows
    <2>2. PICK row \in Row : jobs' = [jobs EXCEPT ![k] = row]
      BY <1>6, <2>1, SetStateTypes, Zenon DEF TimeStep, BecomesDue, DeadlinePasses, RetentionPasses
    <2> QED BY <1>u, <2>2, Zenon DEF UpdateExecution
  <1>7. ASSUME NEW k \in JobUIDs, CallerStep(k) PROVE jobs'[j] # None
    <2>1. CASE RunJob(k)
      <3>1. UpdateExecution(k, toNewJob) /\ toNewJob \in Row
        BY <2>1, NewRowTypes, Zenon DEF RunJob, Create, UpdateExecution
      <3> QED BY <1>u, <3>1, Zenon
    <2>2. CASE PurgeJobByUID(k)
      BY <1>j, <2>2, Zenon DEF PurgeJobByUID, DeleteByUID, Exists, Rows
    <2> QED BY <1>7, <2>1, <2>2, Zenon DEF CallerStep
  <1>8. ASSUME NEW g \in Execs, PurgeHandle(g) PROVE jobs'[j] # None
    BY <1>8, <1>j, Zenon DEF PurgeHandle, Old, Exists
  <1>9. ASSUME UNCHANGED jobs PROVE jobs'[j] # None
    BY <1>9, Zenon DEF Exists
  <1>10. ASSUME NEW i \in Instances, InstanceStep(i) PROVE jobs'[j] # None
    BY <1>10, <1>1, <1>9, Zenon DEF InstanceStep, Stop, Exit, Crash, Gone
  <1>11. ASSUME NEW i \in Instances, ProcessStep(i) PROVE jobs'[j] # None
    BY <1>11, <1>2, <1>9, Zenon DEF ProcessStep, processReadyJobs, runJob, skipJob
  <1>12. ASSUME NEW i \in Instances, CancelStep(i) PROVE jobs'[j] # None
    BY <1>12, <1>4, <1>9, Zenon DEF CancelStep, CancelJob, CancelSignal, handleCancelJob
  <1>13. ASSUME NEW g \in Execs, ExecStep(g) PROVE jobs'[j] # None
    BY <1>13, <1>3, <1>5, <1>8, <1>9, Zenon
       DEF ExecStep, doExec, HandlerReturns, OverdueHandle, Reclaim, ReclaimFails, FindExecuted
  <1> QED BY <1>6, <1>7, <1>9, <1>10, <1>11, <1>12, <1>13, Zenon DEF Next, LeaseExpires, Drop

\* The built-in jobs never leave the schedule, whichever faults happen.
THEOREM RecurringAlwaysStays == Spec => RecurringStays
  <1>1. TypeInv /\ RowInv /\ RowInv' /\ [Next]_vars
          => [\A j \in Recurring :
                InState(j, "scheduled") \/ InState(j, "running")
                  => (InState(j, "scheduled") \/ InState(j, "running"))']_vars
    <2> SUFFICES ASSUME TypeInv, RowInv', Next, NEW j \in Recurring, Exists(j)
                 PROVE  (InState(j, "scheduled") \/ InState(j, "running"))'
      BY Zenon DEF InState, Exists
    <2>1. jobs'[j] # None
      BY RecurringKept, Zenon
    <2>2. GoodRow(j, jobs'[j])
      BY <2>1, Zenon DEF RowInv, GoodTable, GoodRows, JobUIDs
    <2> QED BY <2>1, <2>2, Zenon DEF GoodRow, InState
  <1> QED BY <1>1, TypeCorrect, RowsGood, PTL DEF Spec, RecurringStays
-----------------------------------------------------------------------------
(***************************************************************************)
(* The map of cancel functions, for every fault: cancelJobMap is guarded   *)
(* by its own mutex, so the lock plays no part.                            *)
(***************************************************************************)
Executing(e) == e.pc \in {"handler", "reclaim"}

\* CancelMapExact, said of one goroutine and one entry at a time.
MapInv ==
    /\ \A g \in Execs : Executing(exec[g]) => cancelJobMap[exec[g].inst][exec[g].uid] = g
    /\ \A i \in Instances, j \in JobUIDs : cancelJobMap[i][j] # None =>
          LET e == exec[cancelJobMap[i][j]] IN Executing(e) /\ e.inst = i /\ e.uid = j

\* Steps that leave the map alone and stop or start no handler.
LEMMA MapKept ==
    ASSUME TypeInv, MapInv, UNCHANGED cancelJobMap,
           \A g \in Execs : /\ Executing(exec'[g]) <=> Executing(exec[g])
                            /\ Executing(exec[g]) => /\ exec'[g].inst = exec[g].inst
                                                      /\ exec'[g].uid = exec[g].uid
    PROVE  MapInv'
  <1>1. ASSUME NEW g \in Execs, Executing(exec'[g])
        PROVE  cancelJobMap'[exec'[g].inst][exec'[g].uid] = g
    BY <1>1 DEF MapInv
  <1>2. ASSUME NEW i \in Instances, NEW j \in JobUIDs, cancelJobMap'[i][j] # None
        PROVE  /\ Executing(exec'[cancelJobMap'[i][j]])
               /\ exec'[cancelJobMap'[i][j]].inst = i /\ exec'[cancelJobMap'[i][j]].uid = j
    <2>1. cancelJobMap \in [Instances -> [JobUIDs -> Execs \cup {None}]]
      BY Zenon DEF TypeInv, TypeOK
    <2>2. cancelJobMap[i][j] \in Execs /\ cancelJobMap'[i][j] = cancelJobMap[i][j]
      BY ONLY <1>2, <2>1, UNCHANGED cancelJobMap, i \in Instances, j \in JobUIDs, Zenon
    <2> QED BY <1>2, <2>2 DEF MapInv
  <1> QED BY <1>1, <1>2 DEF MapInv

\* A handler that returns takes its entry along.
LEMMA MapUnregistered ==
    ASSUME TypeInv, MapInv, NEW g \in Execs, Executing(exec[g]), Unregister(g),
           NEW e, ~Executing(e), exec' = [exec EXCEPT ![g] = e]
    PROVE  MapInv'
  <1> USE DEF TypeInv, TypeOK
  <1>1. exec[g].inst \in Instances /\ exec[g].uid \in JobUIDs
    BY Zenon DEF ExecBusy, HoldsJob, Executing
  <1>2. cancelJobMap[exec[g].inst][exec[g].uid] = g
    BY Zenon DEF MapInv
  <1>3. ASSUME NEW h \in Execs, Executing(exec'[h])
        PROVE  cancelJobMap'[exec'[h].inst][exec'[h].uid] = h
    <2>1. h # g /\ exec'[h] = exec[h] /\ Executing(exec[h])
      BY <1>3, Zenon
    <2>2. exec[h].inst \in Instances /\ exec[h].uid \in JobUIDs
      BY <2>1, Zenon DEF ExecBusy, HoldsJob, Executing
    <2>3. cancelJobMap[exec[h].inst][exec[h].uid] = h
      BY <2>1, Zenon DEF MapInv
    <2> QED BY <1>1, <1>2, <2>1, <2>2, <2>3 DEF Unregister
  <1>4. ASSUME NEW i \in Instances, NEW j \in JobUIDs, cancelJobMap'[i][j] # None
        PROVE  /\ Executing(exec'[cancelJobMap'[i][j]])
               /\ exec'[cancelJobMap'[i][j]].inst = i /\ exec'[cancelJobMap'[i][j]].uid = j
    <2>1. cancelJobMap'[i][j] = cancelJobMap[i][j] /\ ~(i = exec[g].inst /\ j = exec[g].uid)
      BY <1>1, <1>4, Zenon DEF Unregister
    <2>2. /\ Executing(exec[cancelJobMap[i][j]])
          /\ exec[cancelJobMap[i][j]].inst = i /\ exec[cancelJobMap[i][j]].uid = j
      BY <1>4, <2>1 DEF MapInv
    <2>3. cancelJobMap[i][j] # g /\ cancelJobMap[i][j] \in Execs
      BY <1>4, <2>1, <2>2
    <2>4. exec'[cancelJobMap[i][j]] = exec[cancelJobMap[i][j]]
      BY <2>3, Zenon
    <2> QED BY <2>1, <2>2, <2>4
  <1> QED BY ONLY <1>3, <1>4 DEF MapInv

LEMMA ExecMap ==
    ASSUME TypeInv, MapInv, NEW g \in Execs, ExecStep(g)
    PROVE  MapInv'
  <1> USE DEF TypeInv, TypeOK
  <1>e. exec[g] \in ExecState
    BY Zenon
  <1>f. \A err : ~Executing(Finish(g, err))
    BY <1>e, Zenon DEF Finish, Executing, ExecState
  <1>g. ~Executing(FreeExec)
    BY Zenon DEF FreeExec, Executing
  <1>k. ASSUME NEW e, exec' = [exec EXCEPT ![g] = e], UNCHANGED cancelJobMap,
               Executing(e) <=> Executing(exec[g]),
               Executing(e) => e.inst = exec[g].inst /\ e.uid = exec[g].uid
        PROVE  MapInv'
    BY <1>k, MapKept, Zenon
  <1>1. CASE doExec(g)
    <2> DEFINE i == exec[g].inst
               j == exec[g].uid
               e == [exec[g] EXCEPT !.pc = "handler"]
    <2>1. CASE cancelJobMap[i][j] # None
      <3>1. exec' = [exec EXCEPT ![g] = Finish(g, TRUE)] /\ UNCHANGED cancelJobMap
        BY <1>1, <2>1, Zenon DEF doExec
      <3>2. ~Executing(exec[g])
        BY <1>1, Zenon DEF doExec, Executing
      <3> QED BY <1>f, <1>k, <3>1, <3>2, Zenon
    <2>2. CASE cancelJobMap[i][j] = None
      <3>1. i \in Instances /\ j \in JobUIDs
        BY <1>1, Zenon DEF doExec, ExecBusy, HoldsJob
      <3>2. Executing(e) /\ e.inst = i /\ e.uid = j
        BY <1>e, Zenon DEF Executing, ExecState
      <3>3. exec' = [exec EXCEPT ![g] = e] /\ cancelJobMap' = [cancelJobMap EXCEPT ![i][j] = g]
        BY <1>1, <2>2, Zenon DEF doExec
      <3>4. ~Executing(exec[g]) /\ g # None
        BY <1>1, ConstantsAssumption, Zenon DEF doExec, Executing
      <3> HIDE DEF i, j, e
      <3>t. exec \in [Execs -> ExecState] /\ cancelJobMap \in [Instances -> [JobUIDs -> Execs \cup {None}]]
        BY Zenon DEF TypeInv, TypeOK
      <3>5. ASSUME NEW h \in Execs, Executing(exec'[h])
            PROVE  cancelJobMap'[exec'[h].inst][exec'[h].uid] = h
        <4>1. CASE h = g
          BY ONLY <3>1, <3>2, <3>3, <3>t, <4>1, g \in Execs
        <4>2. CASE h # g
          <5>1. exec'[h] = exec[h] /\ exec[h].inst \in Instances /\ exec[h].uid \in JobUIDs
            BY <3>3, <3>5, <4>2 DEF ExecBusy, HoldsJob, Executing
          <5>2. cancelJobMap[exec[h].inst][exec[h].uid] = h /\ h # None
            BY <3>5, <5>1, ConstantsAssumption DEF MapInv
          <5>3. ~(exec[h].inst = i /\ exec[h].uid = j)
            BY <2>2, <5>2, Zenon DEF i, j
          <5> QED BY ONLY <3>1, <3>3, <3>t, <5>1, <5>2, <5>3
        <4> QED BY <4>1, <4>2, Zenon
      <3>6. ASSUME NEW k \in Instances, NEW h \in JobUIDs, cancelJobMap'[k][h] # None
            PROVE  /\ Executing(exec'[cancelJobMap'[k][h]])
                   /\ exec'[cancelJobMap'[k][h]].inst = k /\ exec'[cancelJobMap'[k][h]].uid = h
        <4>1. CASE k = i /\ h = j
          BY ONLY <3>1, <3>2, <3>3, <3>t, <4>1, g \in Execs
        <4>2. CASE ~(k = i /\ h = j)
          <5>1. cancelJobMap'[k][h] = cancelJobMap[k][h]
            BY ONLY <3>1, <3>3, <3>t, <4>2, k \in Instances, h \in JobUIDs
          <5>2. /\ Executing(exec[cancelJobMap[k][h]])
                /\ exec[cancelJobMap[k][h]].inst = k /\ exec[cancelJobMap[k][h]].uid = h
            BY <3>6, <5>1 DEF MapInv
          <5>3. cancelJobMap[k][h] \in Execs /\ cancelJobMap[k][h] # g
            BY ONLY <3>4, <3>6, <3>t, <5>1, <5>2, k \in Instances, h \in JobUIDs
          <5>4. exec'[cancelJobMap[k][h]] = exec[cancelJobMap[k][h]]
            BY ONLY <3>3, <3>t, <5>3
          <5> QED BY <5>1, <5>2, <5>4
        <4> QED BY <4>1, <4>2, Zenon
      <3> QED BY ONLY <3>5, <3>6 DEF MapInv
    <2> QED BY <2>1, <2>2, Zenon
  <1>2. ASSUME NEW err \in BOOLEAN, HandlerReturns(g, err) PROVE MapInv'
    BY <1>2, <1>f, MapUnregistered, Zenon DEF HandlerReturns, Executing
  <1>3. CASE PurgeHandle(g)
    BY <1>3, <1>f, MapUnregistered, Zenon DEF PurgeHandle, Executing
  <1>4. CASE OverdueHandle(g)
    <2> DEFINE e == [exec[g] EXCEPT !.pc = "reclaim", !.snap = Only(DeadlineExceeded)]
    <2>1. Executing(e) /\ e.inst = exec[g].inst /\ e.uid = exec[g].uid
      BY <1>e, Zenon DEF Executing, ExecState
    <2>2. \/ exec' = [exec EXCEPT ![g] = Finish(g, FALSE)] /\ Unregister(g)
          \/ exec' = [exec EXCEPT ![g] = e] /\ UNCHANGED cancelJobMap
      BY <1>4, Zenon DEF OverdueHandle
    <2>3. Executing(exec[g])
      BY <1>4, Zenon DEF OverdueHandle, Executing
    <2> HIDE DEF e
    <2> QED BY <1>f, <1>k, <2>1, <2>2, <2>3, MapUnregistered, Zenon
  <1>5. ASSUME NEW j \in JobUIDs, Reclaim(g, j) PROVE MapInv'
    <2> DEFINE e == [exec[g] EXCEPT !.snap = [exec[g].snap EXCEPT ![j] = None]]
    <2>1. e.pc = exec[g].pc /\ e.inst = exec[g].inst /\ e.uid = exec[g].uid
      BY <1>e, Zenon DEF ExecState
    <2>2. \/ exec' = [exec EXCEPT ![g] = Finish(g, FALSE)] /\ Unregister(g)
          \/ exec' = [exec EXCEPT ![g] = e] /\ UNCHANGED cancelJobMap
      BY <1>5, Zenon DEF Reclaim
    <2>3. exec[g].pc = "reclaim"
      BY <1>5, Zenon DEF Reclaim
    <2>4. Executing(e) /\ Executing(exec[g])
      BY <2>1, <2>3, Zenon DEF Executing
    <2> HIDE DEF e
    <2> QED BY <1>f, <1>k, <2>1, <2>2, <2>4, MapUnregistered, Zenon
  <1>6. ASSUME NEW j \in JobUIDs, NEW w \in Writes, ReclaimFails(g, j, w) PROVE MapInv'
    BY <1>6, <1>f, MapUnregistered, Zenon DEF ReclaimFails, Executing
  <1>7. CASE FindExecuted(g)
    <2> DEFINE e == [exec[g] EXCEPT !.pc = "post", !.snap = Only({exec[g].uid})]
    <2>1. ~Executing(e) /\ ~Executing(exec[g])
      BY <1>7, <1>e, Zenon DEF FindExecuted, Executing, ExecState
    <2>2. exec' = [exec EXCEPT ![g] = FreeExec] \/ exec' = [exec EXCEPT ![g] = e]
      BY <1>7, Zenon DEF FindExecuted
    <2>3. UNCHANGED cancelJobMap
      BY <1>7, Zenon DEF FindExecuted
    <2> HIDE DEF e
    <2> QED BY <1>g, <1>k, <2>1, <2>2, <2>3
  <1>8. ASSUME NEW w \in Writes, UpdateExecuted(g, w) PROVE MapInv'
    <2>1. ~Executing(exec[g])
      BY <1>8, Zenon DEF UpdateExecuted, Executing
    <2> QED BY <1>8, <1>g, <1>k, <2>1, Zenon DEF UpdateExecuted
  <1> QED BY <1>1, <1>2, <1>3, <1>4, <1>5, <1>6, <1>7, <1>8 DEF ExecStep

\* The steps of an instance: the map of an instance that ends goes with all
\* its goroutines.
LEMMA InstanceMap ==
    ASSUME TypeInv, MapInv, NEW i \in Instances, InstanceStep(i)
    PROVE  MapInv'
  <1> USE DEF TypeInv, TypeOK
  <1>1. ASSUME NEW changed \in SUBSET Recurring, Start(i, changed) PROVE MapInv'
    BY <1>1, MapKept, Zenon DEF Start
  <1>2. CASE Stop(i)
    <2>1. \A g \in Execs : /\ exec'[g].pc = exec[g].pc /\ exec'[g].inst = exec[g].inst
                           /\ exec'[g].uid = exec[g].uid
      BY <1>2 DEF Stop, ExecState
    <2> QED BY <1>2, <2>1, MapKept, Zenon DEF Stop, Executing
  <1>3. ASSUME Gone(i) PROVE MapInv'
    <2>1. \A g \in Execs : \/ exec[g].inst = i /\ ~Executing(exec'[g])
                           \/ exec[g].inst # i /\ exec'[g] = exec[g]
      BY <1>3, Zenon DEF Gone, FreeExec, Executing
    <2>2. ASSUME NEW g \in Execs, Executing(exec'[g])
          PROVE  cancelJobMap'[exec'[g].inst][exec'[g].uid] = g
      <3>1. exec[g].inst # i /\ exec'[g] = exec[g] /\ exec[g].inst \in Instances
        BY <2>1, <2>2, Zenon DEF ExecBusy, HoldsJob, Executing
      <3> QED BY <1>3, <2>2, <3>1 DEF Gone, MapInv
    <2>3. ASSUME NEW k \in Instances, NEW j \in JobUIDs, cancelJobMap'[k][j] # None
          PROVE  /\ Executing(exec'[cancelJobMap'[k][j]])
                 /\ exec'[cancelJobMap'[k][j]].inst = k /\ exec'[cancelJobMap'[k][j]].uid = j
      <3>1. k # i /\ cancelJobMap'[k][j] = cancelJobMap[k][j]
        BY <1>3, <2>3, Zenon DEF Gone
      <3>2. cancelJobMap[k][j] \in Execs
        BY <2>3, <3>1
      <3>3. exec[cancelJobMap[k][j]].inst = k /\ exec[cancelJobMap[k][j]].uid = j
              /\ Executing(exec[cancelJobMap[k][j]])
        BY <2>3, <3>1 DEF MapInv
      <3>4. exec'[cancelJobMap[k][j]] = exec[cancelJobMap[k][j]]
        BY <2>1, <3>1, <3>2, <3>3
      <3> QED BY <3>1, <3>3, <3>4, Zenon
    <2> QED BY ONLY <2>2, <2>3 DEF MapInv
  <1> QED BY <1>1, <1>2, <1>3, Zenon DEF InstanceStep, Exit, Crash

LEMMA OtherMap ==
    ASSUME TypeInv, MapInv,
           \/ \E i \in Instances : ProcessStep(i) \/ CancelStep(i)
           \/ \E j \in JobUIDs : CallerStep(j) \/ TimeStep(j)
           \/ LeaseExpires
           \/ \E m \in inbox : Drop(m)
    PROVE  MapInv'
  <1> USE DEF TypeInv, TypeOK
  <1>c. ASSUME NEW i \in Instances, NEW j, CancelContext(i, j)
        PROVE  \A g \in Execs : /\ exec'[g].pc = exec[g].pc /\ exec'[g].inst = exec[g].inst
                                /\ exec'[g].uid = exec[g].uid
    BY <1>c DEF CancelContext, ExecState
  <1>1. ASSUME NEW i \in Instances, ProcessStep(i) PROVE MapInv'
    <2>1. ASSUME NEW j \in JobUIDs, NEW g \in Execs, runJob(i, j, g) PROVE MapInv'
      <3>1. /\ ~Executing(exec[g]) /\ ~Executing(exec'[g])
            /\ \A h \in Execs : h # g => exec'[h] = exec[h]
        BY <2>1, Zenon DEF runJob, FreeExec, Executing
      <3> QED BY <2>1, <3>1, MapKept, Zenon DEF runJob
    <2> QED BY <1>1, <2>1, MapKept, Zenon DEF ProcessStep, processReadyJobs, skipJob
  <1>2. ASSUME NEW i \in Instances, CancelStep(i) PROVE MapInv'
    <2>1. \A g \in Execs : /\ exec'[g].pc = exec[g].pc /\ exec'[g].inst = exec[g].inst
                           /\ exec'[g].uid = exec[g].uid
      BY <1>2, <1>c, Zenon DEF CancelStep, CancelJob, CancelUpdate, CancelSignal, handleCancelJob
    <2>2. UNCHANGED cancelJobMap
      BY <1>2, Zenon DEF CancelStep, CancelJob, CancelUpdate, CancelSignal, handleCancelJob
    <2> QED BY <2>1, <2>2, MapKept DEF Executing
  <1>3. ASSUME NEW j \in JobUIDs, CallerStep(j) \/ TimeStep(j) PROVE MapInv'
    <2>1. \A g \in Execs : /\ exec'[g].pc = exec[g].pc /\ exec'[g].inst = exec[g].inst
                           /\ exec'[g].uid = exec[g].uid
      BY <1>3 DEF CallerStep, RunJob, PurgeJobByUID, TimeStep, BecomesDue, DeadlinePasses,
                  RetentionPasses, ExecState
    <2>2. UNCHANGED cancelJobMap
      BY <1>3, Zenon DEF CallerStep, RunJob, PurgeJobByUID, TimeStep, BecomesDue, DeadlinePasses,
                  RetentionPasses
    <2> QED BY <2>1, <2>2, MapKept DEF Executing
  <1>4. CASE LeaseExpires \/ \E m \in inbox : Drop(m)
    BY <1>4, MapKept, Zenon DEF LeaseExpires, Drop
  <1> QED BY <1>1, <1>2, <1>3, <1>4

\* The entries of cancelJobMap are exactly the goroutines that execute their
\* UID, whichever faults happen, overlapping executions of a job included.
THEOREM CancelMapIsExact == Spec => []CancelMapExact
  <1>1. Init => MapInv
    <2> SUFFICES ASSUME Init PROVE MapInv
      BY Zenon
    <2>1. \A g \in Execs : ~Executing(exec[g])
      BY Zenon DEF Init, FreeExec, Executing
    <2> QED BY <2>1, Zenon DEF Init, MapInv
  <1>2. TypeInv /\ MapInv /\ [Next]_vars => MapInv'
    <2> SUFFICES ASSUME TypeInv, MapInv, [Next]_vars PROVE MapInv'
      BY Zenon
    <2>1. CASE UNCHANGED vars
      BY <2>1, MapKept, Zenon DEF vars
    <2>2. CASE Next
      BY <2>2, InstanceMap, ExecMap, OtherMap, Zenon DEF Next
    <2> QED BY <2>1, <2>2, Zenon
  <1>3. TypeInv /\ MapInv => CancelMapExact
    <2> SUFFICES ASSUME TypeInv, MapInv, NEW i \in Instances, NEW j \in JobUIDs
                 PROVE  {g \in Execs : exec[g].inst = i /\ exec[g].uid = j
                                          /\ exec[g].pc \in {"handler", "reclaim"}}
                          = IF cancelJobMap[i][j] = None THEN {} ELSE {cancelJobMap[i][j]}
      BY Zenon DEF CancelMapExact
    <2>1. \A g \in Execs : (exec[g].inst = i /\ exec[g].uid = j /\ Executing(exec[g]))
                             <=> g = cancelJobMap[i][j]
      <3>1. cancelJobMap[i][j] \in Execs \cup {None} /\ None \notin Execs
        BY ConstantsAssumption DEF TypeInv, TypeOK
      <3> QED BY <3>1 DEF MapInv
    <2>2. cancelJobMap[i][j] # None => cancelJobMap[i][j] \in Execs
      BY DEF TypeInv, TypeOK
    <2>3. None \notin Execs
      BY ConstantsAssumption, Zenon
    <2> QED BY <2>1, <2>2, <2>3 DEF Executing
  <1> QED BY <1>1, <1>2, <1>3, TypeCorrect, PTL DEF Spec

-----------------------------------------------------------------------------
(***************************************************************************)
(* The global lock. As long as no lease runs out under a live holder,      *)
(* critical sections exclude each other.                                   *)
(***************************************************************************)
\* The goroutines that update the table under the lock.
Updating(e) == e.pc = "reclaim" \/ (e.pc = "post" /\ "lock" \notin Faults)

LockInv ==
    /\ \A i \in Instances : batch[i] # NoRows => lock = <<"proc", i>>
    /\ \A i \in Instances : cancel[i].pc # "idle" => lock = <<"cancel", i>>
    /\ \A g \in Execs : Updating(exec[g]) => lock = <<"exec", g>>

\* Owners of different kinds, and of different members of a kind, differ.
LEMMA OwnersDiffer ==
    /\ \A i, k : <<"proc", i>> # <<"cancel", k>> /\ <<"proc", i>> # <<"exec", k>>
                   /\ <<"cancel", i>> # <<"exec", k>>
    /\ \A i, k : i # k => /\ <<"proc", i>> # <<"proc", k>>
                          /\ <<"cancel", i>> # <<"cancel", k>>
                          /\ <<"exec", i>> # <<"exec", k>>
    /\ \A i \in Instances : <<"proc", i>> # None /\ <<"cancel", i>> # None
    /\ \A g \in Execs : <<"exec", g>> # None
  BY OwnerTypes, ConstantsAssumption, Zenon

LEMMA InstanceLock ==
    ASSUME TypeInv, LockInv, NEW i \in Instances, InstanceStep(i)
    PROVE  LockInv'
  <1> USE DEF TypeInv, TypeOK
  <1>1. ASSUME NEW changed \in SUBSET Recurring, Start(i, changed) PROVE LockInv'
    BY <1>1, Zenon DEF Start, LockInv
  <1>2. CASE Stop(i)
    <2>1. \A g \in Execs : exec'[g].pc = exec[g].pc
      BY <1>2, Zenon DEF Stop, ExecState
    <2> QED BY <1>2, <2>1, OwnersDiffer DEF Stop, Unlocked, LockInv, Updating
  <1>3. ASSUME Gone(i) PROVE LockInv'
    <2>1. \A g \in Execs : exec'[g].pc = exec[g].pc \/ exec'[g].pc = "free"
      BY <1>3, Zenon DEF Gone, FreeExec
    <2>2. NoCancel.pc = "idle"
      BY Zenon DEF NoCancel
    <2> QED BY <1>3, <2>1, <2>2, Zenon DEF Gone, LockInv, Updating
  <1> QED BY <1>1, <1>2, <1>3, Zenon DEF InstanceStep, Exit, Crash

LEMMA ProcessLock ==
    ASSUME TypeInv, LockInv, NEW i \in Instances, ProcessStep(i)
    PROVE  LockInv'
  <1> USE DEF TypeInv, TypeOK
  <1>1. ASSUME NEW S \in SUBSET JobUIDs, processReadyJobs(i, S) PROVE LockInv'
    BY <1>1, OwnersDiffer, Zenon DEF processReadyJobs, Acquire, LockInv
  <1>2. ASSUME NEW j \in JobUIDs, batch[i][j] # None, Taken(i, j), UNCHANGED cancel,
               \A g \in Execs : Updating(exec'[g]) => Updating(exec[g])
        PROVE  LockInv'
    <2>1. batch[i] # NoRows
      BY <1>2, Zenon DEF NoRows
    <2>2. lock = <<"proc", i>>
      BY <2>1, Zenon DEF LockInv
    <2>3. \A k \in Instances : k # i => batch'[k] = NoRows
      BY <1>2, <2>2, OwnersDiffer, Zenon DEF Taken, LockInv
    <2>4. \A k \in Instances : cancel'[k].pc = "idle"
      BY <1>2, <2>2, OwnersDiffer, Zenon DEF LockInv
    <2>5. \A g \in Execs : ~Updating(exec'[g])
      BY <1>2, <2>2, OwnersDiffer, Zenon DEF LockInv
    <2>6. batch'[i] # NoRows => lock' = <<"proc", i>>
      BY <1>2, <2>2, Zenon DEF Taken
    <2> QED BY <2>3, <2>4, <2>5, <2>6, Zenon DEF LockInv
  <1>3. ASSUME NEW j \in JobUIDs, NEW g \in Execs, runJob(i, j, g) PROVE LockInv'
    <2> DEFINE new == [FreeExec EXCEPT !.pc = "begin", !.inst = i, !.uid = j]
    <2>1. new.pc = "begin"
      BY Zenon DEF FreeExec
    <2>2. exec' = [exec EXCEPT ![g] = new]
      BY <1>3, Zenon DEF runJob
    <2>3. \A h \in Execs : Updating(exec'[h]) => Updating(exec[h])
      <3> HIDE DEF new
      <3> QED BY <2>1, <2>2, Zenon DEF Updating
    <2> QED BY <1>2, <1>3, <2>3, Zenon DEF runJob
  <1>4. ASSUME NEW j \in JobUIDs, NEW w \in Writes, skipJob(i, j, w) PROVE LockInv'
    BY <1>2, <1>4, Zenon DEF skipJob
  <1> QED BY <1>1, <1>3, <1>4, Zenon DEF ProcessStep

LEMMA CancelLock ==
    ASSUME TypeInv, LockInv, NEW i \in Instances, CancelStep(i)
    PROVE  LockInv'
  <1> USE DEF TypeInv, TypeOK
  <1>n. NoCancel.pc = "idle"
    BY Zenon DEF NoCancel
  <1>1. ASSUME NEW j \in JobUIDs, CancelJob(i, j) PROVE LockInv'
    BY <1>1, OwnersDiffer, Zenon DEF CancelJob, Acquire, LockInv
  <1>2. ASSUME cancel[i].pc # "idle"
        PROVE  /\ \A k \in Instances : batch[k] = NoRows
               /\ \A k \in Instances : k # i => cancel[k].pc = "idle"
               /\ \A g \in Execs : ~Updating(exec[g])
    BY <1>2, OwnersDiffer DEF LockInv
  <1>3. ASSUME NEW w \in Writes, CancelUpdate(i, w) PROVE LockInv'
    <2>1. \/ cancel' = [cancel EXCEPT ![i].pc = "signal"] /\ UNCHANGED lock
          \/ cancel' = [cancel EXCEPT ![i] = NoCancel]
      BY <1>3, Zenon DEF CancelUpdate
    <2> QED BY <1>n, <1>2, <1>3, <2>1, Zenon DEF CancelUpdate, LockInv
  <1>4. ASSUME NEW j, CancelContext(i, j) PROVE \A g \in Execs : exec'[g].pc = exec[g].pc
    BY <1>4 DEF CancelContext, ExecState
  <1>5. CASE CancelSignal(i)
    <2>1. \A g \in Execs : exec'[g].pc = exec[g].pc
      BY <1>4, <1>5, Zenon DEF CancelSignal
    <2> QED BY <1>n, <1>2, <1>5, <2>1, Zenon DEF CancelSignal, LockInv, Updating
  <1>6. ASSUME NEW j \in JobUIDs, handleCancelJob(i, j) PROVE LockInv'
    BY <1>4, <1>6, Zenon DEF handleCancelJob, LockInv, Updating
  <1> QED BY <1>1, <1>3, <1>5, <1>6, Zenon DEF CancelStep

\* A goroutine moves: it may take the lock when it is free, give up its own,
\* and is in its section only as the owner.
LEMMA ExecLockUpdate ==
    ASSUME TypeInv, LockInv, NEW g \in Execs, NEW e, exec' = [exec EXCEPT ![g] = e],
           UNCHANGED <<batch, cancel>>,
           lock' = lock \/ lock' = Unlocked(<<"exec", g>>) \/ lock = None,
           Updating(e) => lock' = <<"exec", g>>
    PROVE  LockInv'
  <1> USE DEF TypeInv, TypeOK
  <1>1. \A h \in Execs : h # g => exec'[h] = exec[h]
    BY Zenon
  <1>2. exec'[g] = e
    BY Zenon
  <1>3. \A o : (o # <<"exec", g>> /\ o # None /\ lock = o) => lock' = o
    BY Zenon DEF Unlocked
  <1> QED BY <1>1, <1>2, <1>3, OwnersDiffer DEF LockInv

LEMMA ExecLock ==
    ASSUME TypeInv, LockInv, NEW g \in Execs, ExecStep(g)
    PROVE  LockInv'
  <1> USE DEF TypeInv, TypeOK
  <1>e. exec[g] \in ExecState
    BY Zenon
  <1>f. \A err : ~Updating(Finish(g, err))
    BY <1>e, Zenon DEF Finish, Updating, ExecState
  <1>g. ~Updating(FreeExec)
    BY Zenon DEF FreeExec, Updating
  <1>1. CASE doExec(g)
    <2> DEFINE e == [exec[g] EXCEPT !.pc = "handler"]
    <2>1. ~Updating(e)
      BY <1>e, Zenon DEF Updating, ExecState
    <2>2. exec' = [exec EXCEPT ![g] = Finish(g, TRUE)] \/ exec' = [exec EXCEPT ![g] = e]
      BY <1>1, Zenon DEF doExec
    <2>3. UNCHANGED <<batch, cancel, lock>>
      BY <1>1, Zenon DEF doExec
    <2> HIDE DEF e
    <2> QED BY <1>f, <2>1, <2>2, <2>3, ExecLockUpdate, Zenon
  <1>2. ASSUME NEW err \in BOOLEAN, HandlerReturns(g, err) PROVE LockInv'
    BY <1>2, <1>f, ExecLockUpdate, Zenon DEF HandlerReturns
  <1>3. CASE PurgeHandle(g)
    BY <1>3, <1>f, ExecLockUpdate, Zenon DEF PurgeHandle
  <1>4. CASE OverdueHandle(g)
    <2> DEFINE e == [exec[g] EXCEPT !.pc = "reclaim", !.snap = Only(DeadlineExceeded)]
    <2>1. \/ exec' = [exec EXCEPT ![g] = Finish(g, FALSE)]
          \/ exec' = [exec EXCEPT ![g] = e] /\ lock' = <<"exec", g>>
      BY <1>4, Zenon DEF OverdueHandle, Acquire
    <2>2. lock = None /\ UNCHANGED <<batch, cancel>>
      BY <1>4, Zenon DEF OverdueHandle
    <2> HIDE DEF e
    <2> QED BY <1>f, <2>1, <2>2, ExecLockUpdate, Zenon
  <1>5. ASSUME NEW j \in JobUIDs, Reclaim(g, j) PROVE LockInv'
    <2> DEFINE e == [exec[g] EXCEPT !.snap = [exec[g].snap EXCEPT ![j] = None]]
    <2>1. \/ exec' = [exec EXCEPT ![g] = Finish(g, FALSE)] /\ lock' = Unlocked(<<"exec", g>>)
          \/ exec' = [exec EXCEPT ![g] = e] /\ lock' = lock
      BY <1>5, Zenon DEF Reclaim
    <2>2. lock = <<"exec", g>> /\ UNCHANGED <<batch, cancel>>
      BY <1>5, Zenon DEF Reclaim, LockInv, Updating
    <2> HIDE DEF e
    <2> QED BY <1>f, <2>1, <2>2, ExecLockUpdate, Zenon
  <1>6. ASSUME NEW j \in JobUIDs, NEW w \in Writes, ReclaimFails(g, j, w) PROVE LockInv'
    BY <1>6, <1>f, ExecLockUpdate, Zenon DEF ReclaimFails
  <1>7. CASE FindExecuted(g)
    <2> DEFINE e == [exec[g] EXCEPT !.pc = "post", !.snap = Only({exec[g].uid})]
    <2>1. e.pc = "post"
      BY <1>e, Zenon DEF ExecState
    <2>2. \/ exec' = [exec EXCEPT ![g] = FreeExec] /\ lock' = lock
          \/ exec' = [exec EXCEPT ![g] = e] /\ lock = None /\ lock' = <<"exec", g>>
          \/ exec' = [exec EXCEPT ![g] = e] /\ "lock" \in Faults /\ lock' = lock
      BY <1>7, Zenon DEF FindExecuted, Acquire
    <2>3. UNCHANGED <<batch, cancel>>
      BY <1>7, Zenon DEF FindExecuted
    <2>4. "lock" \in Faults => ~Updating(e)
      BY <2>1, Zenon DEF Updating
    <2> HIDE DEF e
    <2> QED BY <1>g, <2>2, <2>3, <2>4, ExecLockUpdate, Zenon
  <1>8. ASSUME NEW w \in Writes, UpdateExecuted(g, w) PROVE LockInv'
    BY <1>8, <1>g, ExecLockUpdate, Zenon DEF UpdateExecuted
  <1> QED BY <1>1, <1>2, <1>3, <1>4, <1>5, <1>6, <1>7, <1>8 DEF ExecStep

LEMMA OtherLock ==
    ASSUME TypeInv, LockInv, "lease" \notin Faults,
           \/ \E j \in JobUIDs : CallerStep(j) \/ TimeStep(j)
           \/ LeaseExpires
           \/ \E m \in inbox : Drop(m)
    PROVE  LockInv'
  <1> USE DEF TypeInv, TypeOK
  <1>1. ASSUME NEW j \in JobUIDs, CallerStep(j) PROVE LockInv'
    BY <1>1, Zenon DEF CallerStep, RunJob, PurgeJobByUID, LockInv
  <1>2. ASSUME NEW j \in JobUIDs, TimeStep(j) PROVE LockInv'
    <2>1. \A g \in Execs : exec'[g].pc = exec[g].pc
      BY <1>2 DEF TimeStep, BecomesDue, DeadlinePasses, RetentionPasses, ExecState
    <2> QED BY <1>2, <2>1, Zenon
            DEF TimeStep, BecomesDue, DeadlinePasses, RetentionPasses, LockInv, Updating
  <1>3. CASE LeaseExpires
    BY <1>3, Zenon DEF LeaseExpires, InSection, LockInv, Updating
  <1>4. ASSUME NEW m \in inbox, Drop(m) PROVE LockInv'
    BY <1>4, Zenon DEF Drop, LockInv
  <1> QED BY <1>1, <1>2, <1>3, <1>4, Zenon

\* Whoever is in its critical section owns the lock.
THEOREM SectionsAreLocked == ASSUME "lease" \notin Faults PROVE Spec => []LockInv
  <1>1. Init => LockInv
    BY DEF Init, LockInv, Updating, FreeExec, NoCancel
  <1>2. TypeInv /\ LockInv /\ [Next]_vars => LockInv'
    <2> SUFFICES ASSUME TypeInv, LockInv, [Next]_vars PROVE LockInv'
      BY Zenon
    <2>1. CASE UNCHANGED vars
      BY <2>1, Zenon DEF vars, LockInv
    <2>2. CASE Next
      BY <2>2, InstanceLock, ProcessLock, CancelLock, ExecLock, OtherLock DEF Next
    <2> QED BY <2>1, <2>2, Zenon
  <1> QED BY <1>1, <1>2, TypeCorrect, PTL DEF Spec
-----------------------------------------------------------------------------
(***************************************************************************)
(* Completed jobs stay completed: the row a critical section was entered   *)
(* for is still open when the section writes it, because nobody without    *)
(* the lock closes a row.                                                  *)
(***************************************************************************)
OpenRow(row) == row # None => row.state \in {"scheduled", "running"}

\* What a section has read is still so, or the row was deleted and possibly
\* created again.
Fresh ==
    /\ \A i \in Instances, j \in JobUIDs : batch[i][j] # None => OpenRow(jobs[j])
    /\ \A i \in Instances : cancel[i].pc = "update" => OpenRow(jobs[cancel[i].uid])
    /\ \A g \in Execs, j \in JobUIDs :
          exec[g].pc = "reclaim" /\ exec[g].snap[j] # None => OpenRow(jobs[j])
    /\ \A g \in Execs : exec[g].pc = "post" /\ jobs[exec[g].uid] # None =>
          jobs[exec[g].uid].state \in {"scheduled", exec[g].snap[exec[g].uid].state}

Final ==
    \A j \in UserJobs :
        Exists(j) /\ IsCompleted(jobs[j].state) /\ jobs'[j] # None
          => \/ jobs'[j].state = jobs[j].state
             \/ jobs[j].state = "canceled" /\ jobs'[j].state = "finished"

\* Steps outside the critical sections delete rows, create rows, and reset
\* rows of recurring jobs.
Gentle ==
    \A j \in JobUIDs :
        \/ jobs'[j] = None
        \/ jobs[j] # None /\ jobs'[j].state = jobs[j].state
        \/ jobs'[j].state = "scheduled" /\ (jobs[j] = None \/ j \notin UserJobs)

\* Nobody enters a section.
NoEntry ==
    /\ \A i \in Instances : batch'[i] = batch[i] \/ batch'[i] = NoRows
    /\ \A i \in Instances : cancel'[i] = cancel[i] \/ cancel'[i].pc # "update"
    /\ \A g \in Execs :
          \/ exec'[g].pc \notin {"reclaim", "post"}
          \/ exec'[g].pc = exec[g].pc /\ exec'[g].snap = exec[g].snap /\ exec'[g].uid = exec[g].uid

LEMMA GentleStep ==
    ASSUME TypeInv, Fresh, Gentle, NoEntry
    PROVE  Fresh' /\ Final
  <1>1. \A j \in JobUIDs : OpenRow(jobs[j]) => OpenRow(jobs'[j])
    BY Zenon DEF Gentle, OpenRow
  <1>2. ASSUME NEW i \in Instances, NEW j \in JobUIDs, batch'[i][j] # None
        PROVE  OpenRow(jobs'[j])
    <2>1. batch'[i] = batch[i]
      BY <1>2, Zenon DEF NoEntry, NoRows
    <2> QED BY <1>1, <1>2, <2>1, Zenon DEF Fresh
  <1>3. \A i \in Instances : cancel'[i].pc = "update" => OpenRow(jobs'[cancel'[i].uid])
    BY <1>1, Zenon DEF NoEntry, Fresh, TypeInv, CancelBusy
  <1>4. \A g \in Execs, j \in JobUIDs :
           exec'[g].pc = "reclaim" /\ exec'[g].snap[j] # None => OpenRow(jobs'[j])
    BY <1>1 DEF NoEntry, Fresh
  <1>5. ASSUME NEW g \in Execs, exec'[g].pc = "post", jobs'[exec'[g].uid] # None
        PROVE  jobs'[exec'[g].uid].state \in {"scheduled", exec'[g].snap[exec'[g].uid].state}
    <2>1. exec[g].pc = "post" /\ exec'[g].snap = exec[g].snap /\ exec'[g].uid = exec[g].uid
      BY <1>5, Zenon DEF NoEntry
    <2>2. exec[g].uid \in JobUIDs
      BY <2>1, Zenon DEF TypeInv, ExecBusy, HoldsJob
    <2> QED BY <1>5, <2>1, <2>2 DEF Gentle, Fresh
  <1>6. Final
    BY Zenon DEF Gentle, Final, Exists, JobUIDs
  <1> QED BY <1>2, <1>3, <1>4, <1>5, <1>6, Zenon DEF Fresh

LEMMA SameJobs ==
    ASSUME TypeInv, UNCHANGED jobs
    PROVE  Gentle
  BY Zenon DEF Gentle

LEMMA InstanceFresh ==
    ASSUME TypeInv, Fresh, NEW i \in Instances, InstanceStep(i)
    PROVE  Fresh' /\ Final
  <1> USE DEF TypeInv, TypeOK
  <1>1. ASSUME NEW changed \in SUBSET Recurring, Start(i, changed) PROVE Fresh' /\ Final
    <2>1. NoEntry
      BY <1>1, Zenon DEF Start, NoEntry
    <2>2. ASSUME NEW j \in JobUIDs
          PROVE  \/ jobs'[j] = None
                 \/ jobs[j] # None /\ jobs'[j].state = jobs[j].state
                 \/ jobs'[j].state = "scheduled" /\ (jobs[j] = None \/ j \notin UserJobs)
      <3>1. newRecurring.state = "scheduled"
        BY Zenon DEF newRecurring, toNewJob
      <3>2. CASE j \in changed /\ Exists(j)
        <4>1. jobs[j] \in Row
          BY <3>2, Zenon DEF Exists, Rows
        <4>2. jobs'[j].state = "scheduled"
          BY <1>1, <3>2, <4>1, Zenon DEF Start, createNecessaryJobs, Upsert, Row
        <4> QED BY <3>2, <4>2, ConstantsAssumption
      <3> QED BY <1>1, <3>1, <3>2, Zenon DEF Start, createNecessaryJobs, Upsert, Exists
    <2> QED BY <2>1, <2>2, GentleStep, Zenon DEF Gentle
  <1>2. CASE Stop(i)
    <2>1. \A g \in Execs : exec'[g].pc = exec[g].pc /\ exec'[g].snap = exec[g].snap
                             /\ exec'[g].uid = exec[g].uid
      BY <1>2 DEF Stop, ExecState
    <2> QED BY <1>2, <2>1, GentleStep, SameJobs DEF Stop, NoEntry
  <1>3. ASSUME Gone(i) PROVE Fresh' /\ Final
    <2>1. \A g \in Execs : exec'[g] = exec[g] \/ exec'[g].pc = "free"
      BY <1>3, Zenon DEF Gone, FreeExec
    <2>2. NoCancel.pc = "idle"
      BY Zenon DEF NoCancel
    <2> QED BY <1>3, <2>1, <2>2, GentleStep, SameJobs DEF Gone, NoEntry
  <1> QED BY <1>1, <1>2, <1>3 DEF InstanceStep, Exit, Crash

LEMMA OtherFresh ==
    ASSUME TypeInv, Fresh,
           \/ \E j \in JobUIDs : CallerStep(j) \/ TimeStep(j)
           \/ LeaseExpires
           \/ \E m \in inbox : Drop(m)
    PROVE  Fresh' /\ Final
  <1> USE DEF TypeInv, TypeOK
  <1>1. ASSUME NEW j \in JobUIDs, CallerStep(j) PROVE Fresh' /\ Final
    <2>1. toNewJob.state = "scheduled"
      BY Zenon DEF toNewJob
    <2>2. Gentle
      BY <1>1, <2>1 DEF CallerStep, RunJob, Create, PurgeJobByUID, DeleteByUID, Gentle, Exists, Rows
    <2>3. NoEntry
      BY <1>1, Zenon DEF CallerStep, RunJob, PurgeJobByUID, NoEntry
    <2> QED BY <2>2, <2>3, GentleStep
  <1>2. ASSUME NEW j \in JobUIDs, TimeStep(j) PROVE Fresh' /\ Final
    <2>1. jobs[j] \in Row
      BY <1>2, Zenon DEF TimeStep, BecomesDue, DeadlinePasses, RetentionPasses, InState, Exists, Rows
    <2>2. \A k \in JobUIDs : jobs'[k] = jobs[k] \/ (k = j /\ jobs'[j].state = jobs[j].state)
      BY <1>2, <2>1 DEF TimeStep, BecomesDue, DeadlinePasses, RetentionPasses, Row, Rows
    <2>3. Gentle
      BY <2>1, <2>2, ConstantsAssumption DEF Gentle
    <2>4. \A g \in Execs : exec'[g].pc = exec[g].pc /\ exec'[g].snap = exec[g].snap
                             /\ exec'[g].uid = exec[g].uid
      BY <1>2 DEF TimeStep, BecomesDue, DeadlinePasses, RetentionPasses, ExecState
    <2>5. NoEntry
      BY <1>2, <2>4 DEF TimeStep, BecomesDue, DeadlinePasses, RetentionPasses, NoEntry
    <2> QED BY <2>3, <2>5, GentleStep
  <1>3. CASE LeaseExpires
    BY <1>3, GentleStep, SameJobs DEF LeaseExpires, NoEntry
  <1>4. ASSUME NEW m \in inbox, Drop(m) PROVE Fresh' /\ Final
    BY <1>4, GentleStep, SameJobs, Zenon DEF Drop, NoEntry
  <1> QED BY <1>1, <1>2, <1>3, <1>4

\* A write to an open row closes no completed one.
LEMMA OpenWrite ==
    ASSUME TypeInv, NEW j \in JobUIDs, OpenRow(jobs[j]), NEW row,
           jobs' = jobs \/ jobs' = [jobs EXCEPT ![j] = row]
    PROVE  Final /\ \A k \in JobUIDs : k # j => jobs'[k] = jobs[k]
  <1>1. \A k \in JobUIDs : k # j => jobs'[k] = jobs[k]
    BY Zenon DEF TypeInv, TypeOK, Rows
  <1>2. ASSUME NEW k \in UserJobs, Exists(k), IsCompleted(jobs[k].state)
        PROVE  jobs'[k].state = jobs[k].state
    <2>1. k # j
      BY <1>2, Zenon DEF OpenRow, Exists, IsCompleted
    <2> QED BY <1>1, <2>1, Zenon DEF JobUIDs
  <1> QED BY <1>1, <1>2, Zenon DEF Final

LEMMA ProcessFresh ==
    ASSUME TypeInv, LockInv, Fresh, "lock" \notin Faults, NEW i \in Instances, ProcessStep(i)
    PROVE  Fresh' /\ Final
  <1> USE DEF TypeInv, TypeOK
  <1>1. ASSUME NEW S \in SUBSET JobUIDs, processReadyJobs(i, S) PROVE Fresh' /\ Final
    <2>1. \A j \in JobUIDs : Only(S)[j] # None => OpenRow(jobs[j])
      BY <1>1, Zenon DEF processReadyJobs, IsListed, Ready, InState, Only, OpenRow
    <2>2. Fresh'
      BY <1>1, <2>1, Zenon DEF processReadyJobs, Fresh
    <2> QED BY <1>1, <2>2, Zenon DEF processReadyJobs, Final
  <1>2. ASSUME NEW j \in JobUIDs, batch[i][j] # None, Taken(i, j), UNCHANGED cancel,
               \/ UNCHANGED jobs
               \/ UpdateExecution(j, preExec(j, batch[i][j])),
               \A g \in Execs : exec'[g] = exec[g] \/ exec'[g].pc = "begin"
        PROVE  Fresh' /\ Final
    <2>1. batch[i] # NoRows
      BY <1>2, Zenon DEF NoRows
    <2>2. lock = <<"proc", i>>
      BY <2>1, Zenon DEF LockInv
    <2>3. OpenRow(jobs[j])
      BY <1>2, Zenon DEF Fresh
    <2>4. Final /\ \A k \in JobUIDs : k # j => jobs'[k] = jobs[k]
      BY <1>2, <2>3, OpenWrite, Zenon DEF UpdateExecution
    <2>5. ASSUME NEW k \in Instances, NEW h \in JobUIDs, batch'[k][h] # None
          PROVE  OpenRow(jobs'[h])
      <3>1. k = i
        BY <1>2, <2>2, <2>5, OwnersDiffer DEF Taken, LockInv, NoRows
      <3>2. h # j /\ batch[i][h] # None
        BY <1>2, <2>5, <3>1 DEF Taken, Rows
      <3> QED BY <2>4, <3>2, Zenon DEF Fresh
    <2>6. \A k \in Instances : cancel'[k].pc = "idle"
      BY <1>2, <2>2, OwnersDiffer DEF LockInv
    <2>7. \A g \in Execs : exec'[g].pc \notin {"reclaim", "post"}
      BY <1>2, <2>2, OwnersDiffer DEF LockInv, Updating
    <2> QED BY <2>4, <2>5, <2>6, <2>7 DEF Fresh
  <1>3. ASSUME NEW j \in JobUIDs, NEW g \in Execs, runJob(i, j, g) PROVE Fresh' /\ Final
    <2>1. \A h \in Execs : exec'[h] = exec[h] \/ exec'[h].pc = "begin"
      BY <1>3, Zenon DEF runJob, FreeExec
    <2> QED BY <1>2, <1>3, <2>1 DEF runJob
  <1>4. ASSUME NEW j \in JobUIDs, NEW w \in Writes, skipJob(i, j, w) PROVE Fresh' /\ Final
    BY <1>2, <1>4, Zenon DEF skipJob
  <1> QED BY <1>1, <1>3, <1>4, Zenon DEF ProcessStep

LEMMA CancelFresh ==
    ASSUME TypeInv, LockInv, Fresh, "lock" \notin Faults, NEW i \in Instances, CancelStep(i)
    PROVE  Fresh' /\ Final
  <1> USE DEF TypeInv, TypeOK
  <1>n. NoCancel.pc = "idle"
    BY Zenon DEF NoCancel
  <1>1. ASSUME NEW j \in JobUIDs, CancelJob(i, j) PROVE Fresh' /\ Final
    <2>1. OpenRow(jobs[j])
      BY <1>1, Zenon DEF CancelJob, InState, OpenRow
    <2>2. Fresh'
      BY <1>1, <2>1 DEF CancelJob, Fresh
    <2> QED BY <1>1, <2>2, Zenon DEF CancelJob, Final
  <1>2. ASSUME NEW w \in Writes, CancelUpdate(i, w) PROVE Fresh' /\ Final
    <2> DEFINE row == [cancel[i].snap EXCEPT !.state = "canceled"]
    <2>1. cancel[i].uid \in JobUIDs /\ OpenRow(jobs[cancel[i].uid])
      BY <1>2, Zenon DEF CancelUpdate, CancelBusy, Fresh
    <2>2. jobs' = jobs \/ jobs' = [jobs EXCEPT ![cancel[i].uid] = row]
      BY <1>2, Zenon DEF CancelUpdate, UpdateExecution
    <2>3. Final
      <3> HIDE DEF row
      <3> QED BY <2>1, <2>2, OpenWrite, Zenon
    <2>4. lock = <<"cancel", i>>
      BY <1>2, Zenon DEF CancelUpdate, LockInv
    <2>5. \A k \in Instances, j \in JobUIDs : batch'[k][j] = None
      BY <1>2, <2>4, OwnersDiffer DEF CancelUpdate, LockInv, NoRows
    <2>6. cancel' = [cancel EXCEPT ![i].pc = "signal"] \/ cancel' = [cancel EXCEPT ![i] = NoCancel]
      BY <1>2, Zenon DEF CancelUpdate
    <2>7. \A k \in Instances : cancel'[k].pc # "update"
      BY <1>n, <2>4, <2>6, OwnersDiffer DEF LockInv, CancelState
    <2>8. \A g \in Execs : exec'[g].pc \notin {"reclaim", "post"}
      BY <1>2, <2>4, OwnersDiffer DEF CancelUpdate, LockInv, Updating
    <2> QED BY <2>3, <2>5, <2>7, <2>8 DEF Fresh
  <1>3. ASSUME NEW j, CancelContext(i, j)
        PROVE  \A g \in Execs : /\ exec'[g].pc = exec[g].pc /\ exec'[g].snap = exec[g].snap
                                /\ exec'[g].uid = exec[g].uid
    BY <1>3 DEF CancelContext, ExecState
  <1>4. CASE CancelSignal(i)
    <2>1. \A g \in Execs : /\ exec'[g].pc = exec[g].pc /\ exec'[g].snap = exec[g].snap
                           /\ exec'[g].uid = exec[g].uid
      BY <1>3, <1>4, Zenon DEF CancelSignal
    <2> QED BY <1>n, <1>4, <2>1, GentleStep, SameJobs DEF CancelSignal, NoEntry
  <1>5. ASSUME NEW j \in JobUIDs, handleCancelJob(i, j) PROVE Fresh' /\ Final
    BY <1>3, <1>5, GentleStep, SameJobs, Zenon DEF handleCancelJob, NoEntry
  <1> QED BY <1>1, <1>2, <1>4, <1>5 DEF CancelStep

\* postExec on a completed row keeps it, or finishes a canceled job.
LEMMA PostExecFinal ==
    ASSUME NEW j \in UserJobs, NEW row \in Row, IsCompleted(row.state), NEW err \in BOOLEAN
    PROVE  \/ postExec(j, row, err).state = row.state
           \/ row.state = "canceled" /\ postExec(j, row, err).state = "finished"
  <1> DEFINE ended == [row EXCEPT !.state = IF err THEN "failed" ELSE "finished",
                                  !.fails = IF err THEN Increment(j, row.fails) ELSE row.fails]
  <1>1. j \notin Recurring
    BY ConstantsAssumption, Zenon
  <1>2. CASE row.state = "canceled" /\ ~err
    <2>1. postExec(j, row, err) = ended
      BY <1>1, <1>2, Zenon DEF postExec
    <2>2. ended.state = "finished"
      BY <1>2, Zenon DEF Row
    <2> QED BY <1>2, <2>1, <2>2, Zenon
  <1>3. CASE row.state # "canceled" \/ err
    BY <1>3, Zenon DEF postExec, IsCompleted
  <1> QED BY <1>2, <1>3, Zenon

LEMMA ExecFresh ==
    ASSUME TypeInv, LockInv, Fresh, "lock" \notin Faults, NEW g \in Execs, ExecStep(g)
    PROVE  Fresh' /\ Final
  <1> USE DEF TypeInv, TypeOK
  <1>e. exec[g] \in ExecState /\ HoldsJob(exec[g])
    BY Zenon DEF ExecBusy
  <1>f. \A err : Finish(g, err).pc = "done"
    BY <1>e, Zenon DEF Finish, ExecState
  <1>g. FreeExec.pc = "free"
    BY Zenon DEF FreeExec
  <1>1. CASE doExec(g)
    <2>1. exec'[g].pc \in {"done", "handler"} /\ \A h \in Execs : h # g => exec'[h] = exec[h]
      <3> DEFINE e == [exec[g] EXCEPT !.pc = "handler"]
      <3>1. e.pc = "handler"
        BY <1>e, Zenon DEF ExecState
      <3>2. exec' = [exec EXCEPT ![g] = Finish(g, TRUE)] \/ exec' = [exec EXCEPT ![g] = e]
        BY <1>1, Zenon DEF doExec
      <3> HIDE DEF e
      <3> QED BY <1>f, <3>1, <3>2, Zenon
    <2> QED BY <1>1, <2>1, GentleStep, SameJobs DEF doExec, NoEntry
  <1>2. ASSUME NEW err \in BOOLEAN, HandlerReturns(g, err) PROVE Fresh' /\ Final
    BY <1>2, <1>f, GentleStep, SameJobs DEF HandlerReturns, NoEntry
  <1>3. CASE PurgeHandle(g)
    <2>1. Gentle
      BY <1>3, Zenon DEF PurgeHandle, Gentle
    <2> QED BY <1>3, <1>f, <2>1, GentleStep, Zenon DEF PurgeHandle, NoEntry
  <1>4. CASE OverdueHandle(g)
    <2>1. CASE DeadlineExceeded = {}
      BY <1>4, <1>f, <2>1, GentleStep, SameJobs, Zenon DEF OverdueHandle, NoEntry
    <2>2. CASE DeadlineExceeded # {}
      <3> DEFINE e == [exec[g] EXCEPT !.pc = "reclaim", !.snap = Only(DeadlineExceeded)]
      <3>1. e.pc = "reclaim" /\ e.snap = Only(DeadlineExceeded)
        BY <1>e, Zenon DEF ExecState
      <3>2. \A j \in JobUIDs : Only(DeadlineExceeded)[j] # None => OpenRow(jobs[j])
        BY Zenon DEF Only, DeadlineExceeded, InState, OpenRow
      <3>3. exec' = [exec EXCEPT ![g] = e] /\ UNCHANGED <<jobs, batch, cancel>>
        BY <1>4, <2>2, Zenon DEF OverdueHandle
      <3>4. Fresh' /\ Final
        <4> HIDE DEF e
        <4> QED BY <3>1, <3>2, <3>3, Zenon DEF Fresh, Final
      <3> QED BY <3>4, Zenon
    <2> QED BY <2>1, <2>2, Zenon
  <1>5. ASSUME lock = <<"exec", g>>
        PROVE  /\ \A k \in Instances, j \in JobUIDs : batch[k][j] = None
               /\ \A k \in Instances : cancel[k].pc = "idle"
               /\ \A h \in Execs : h # g => exec[h].pc \notin {"reclaim", "post"}
    BY <1>5, OwnersDiffer DEF LockInv, Updating, NoRows
  <1>6. ASSUME NEW j \in JobUIDs, exec[g].pc = "reclaim", exec[g].snap[j] # None,
               \/ UNCHANGED jobs
               \/ UpdateExecution(j, postExec(j, exec[g].snap[j], TRUE)),
               UNCHANGED <<batch, cancel>>, NEW e, exec' = [exec EXCEPT ![g] = e],
               \/ e.pc = "done"
               \/ /\ e.pc = "reclaim" /\ e.snap[j] = None
                  /\ \A k \in JobUIDs : e.snap[k] # None => exec[g].snap[k] # None
        PROVE  Fresh' /\ Final
    <2>1. lock = <<"exec", g>>
      BY <1>6, Zenon DEF LockInv, Updating
    <2>2. OpenRow(jobs[j])
      BY <1>6, Zenon DEF Fresh
    <2>3. Final /\ \A k \in JobUIDs : k # j => jobs'[k] = jobs[k]
      BY <1>6, <2>2, OpenWrite, Zenon DEF UpdateExecution
    <2>4. \A k \in JobUIDs : e.pc = "reclaim" /\ e.snap[k] # None => OpenRow(jobs'[k])
      BY <1>6, <2>3, Zenon DEF Fresh
    <2> QED BY <1>5, <1>6, <2>1, <2>3, <2>4 DEF Fresh
  <1>7. ASSUME NEW j \in JobUIDs, Reclaim(g, j) PROVE Fresh' /\ Final
    <2> DEFINE rest == [exec[g].snap EXCEPT ![j] = None]
               e == [exec[g] EXCEPT !.snap = rest]
    <2>1. rest[j] = None /\ \A k \in JobUIDs : rest[k] # None => exec[g].snap[k] # None
      BY <1>e, Zenon DEF ExecState, Rows
    <2>2. e.pc = "reclaim" /\ e.snap = rest
      BY <1>7, <1>e, Zenon DEF Reclaim, ExecState
    <2>3. exec' = [exec EXCEPT ![g] = Finish(g, FALSE)] \/ exec' = [exec EXCEPT ![g] = e]
      BY <1>7, Zenon DEF Reclaim
    <2> HIDE DEF e, rest
    <2> QED BY <1>f, <1>6, <1>7, <2>1, <2>2, <2>3, Zenon DEF Reclaim
  <1>8. ASSUME NEW j \in JobUIDs, NEW w \in Writes, ReclaimFails(g, j, w) PROVE Fresh' /\ Final
    BY <1>f, <1>6, <1>8, Zenon DEF ReclaimFails
  <1>9. CASE FindExecuted(g)
    <2> DEFINE u == exec[g].uid
               e == [exec[g] EXCEPT !.pc = "post", !.snap = Only({u})]
    <2>1. CASE Exists(u)
      <3>1. e.pc = "post" /\ e.uid = u /\ e.snap = Only({u})
        BY <1>e, Zenon DEF ExecState
      <3>2. Only({u})[u] = jobs[u]
        BY <1>e, <1>9, Zenon DEF FindExecuted, HoldsJob, Only
      <3>3. exec' = [exec EXCEPT ![g] = e] /\ UNCHANGED <<jobs, batch, cancel>>
        BY <1>9, <2>1, Zenon DEF FindExecuted
      <3>4. Fresh' /\ Final
        <4> HIDE DEF e, u
        <4> QED BY <3>1, <3>2, <3>3, Zenon DEF Fresh, Final
      <3> QED BY <3>4, Zenon
    <2>2. CASE ~Exists(u)
      BY <1>9, <1>g, <2>2, GentleStep, SameJobs DEF FindExecuted, NoEntry
    <2> QED BY <2>1, <2>2, Zenon
  <1>10. ASSUME NEW w \in Writes, UpdateExecuted(g, w) PROVE Fresh' /\ Final
    <2> DEFINE u == exec[g].uid
               row == exec[g].snap[u]
    <2>1. lock = <<"exec", g>> /\ exec[g].pc = "post"
      BY <1>10, Zenon DEF UpdateExecuted, LockInv, Updating
    <2>2. u \in JobUIDs /\ row \in Row /\ exec[g].err \in BOOLEAN
      BY <1>e, <2>1, Zenon DEF HoldsJob, ExecState
    <2>3. exec' = [exec EXCEPT ![g] = FreeExec] /\ UNCHANGED <<batch, cancel>>
      BY <1>10, Zenon DEF UpdateExecuted
    <2>4. Fresh'
      BY <1>5, <1>g, <2>1, <2>3, Zenon DEF Fresh
    <2>5. jobs' = jobs \/ jobs' = [jobs EXCEPT ![u] = postExec(u, row, exec[g].err)]
      BY <1>10, Zenon DEF UpdateExecuted, UpdateExecution
    <2>6. ASSUME NEW j \in UserJobs, Exists(j), IsCompleted(jobs[j].state)
          PROVE  \/ jobs'[j].state = jobs[j].state
                 \/ jobs[j].state = "canceled" /\ jobs'[j].state = "finished"
      <3>1. CASE j = u
        <4>1. jobs[j].state = row.state
          BY <2>1, <2>6, <3>1, Zenon DEF Fresh, Exists, IsCompleted
        <4> DEFINE new == postExec(j, row, exec[g].err)
        <4>2. new.state = row.state \/ (row.state = "canceled" /\ new.state = "finished")
          <5>1. IsCompleted(row.state)
            BY <2>6, <4>1, Zenon
          <5>2. row \in Row /\ exec[g].err \in BOOLEAN
            BY <2>2, Zenon
          <5> HIDE DEF row
          <5> QED BY <5>1, <5>2, PostExecFinal
        <4>3. jobs'[j] = jobs[j] \/ jobs'[j] = new
          BY <2>2, <2>5, <3>1 DEF Rows
        <4> HIDE DEF row, new
        <4> QED BY <4>1, <4>2, <4>3
      <3>2. CASE j # u
        BY <2>5, <3>2, Zenon DEF JobUIDs, Rows
      <3> QED BY <3>1, <3>2, Zenon
    <2> QED BY <2>4, <2>6, Zenon DEF Final
  <1> QED BY <1>1, <1>2, <1>3, <1>4, <1>7, <1>8, <1>9, <1>10 DEF ExecStep

\* While leases outlive their critical sections and the lock can be taken in
\* the end, no retry, reclaim, cancel or late goroutine reopens a completed
\* job, for any number of instances and jobs, with crashes, lost updates,
\* deletions and lost messages.
THEOREM CompletedStaysFinal ==
    ASSUME "lease" \notin Faults, "lock" \notin Faults
    PROVE  Spec => CompletedIsFinal
  <1>1. Init => Fresh
    BY DEF Init, Fresh, NoRows, NoCancel, FreeExec
  <1>2. TypeInv /\ LockInv /\ Fresh /\ [Next]_vars => Fresh' /\ [Final]_vars
    <2> SUFFICES ASSUME TypeInv, LockInv, Fresh, [Next]_vars PROVE Fresh' /\ [Final]_vars
      BY Zenon
    <2>1. CASE UNCHANGED vars
      BY <2>1, Zenon DEF vars, Fresh
    <2>2. CASE Next
      BY <2>2, InstanceFresh, ProcessFresh, CancelFresh, ExecFresh, OtherFresh, Zenon DEF Next
    <2> QED BY <2>1, <2>2, Zenon
  <1> QED BY <1>1, <1>2, TypeCorrect, SectionsAreLocked, PTL DEF Spec, CompletedIsFinal, Final
=============================================================================
