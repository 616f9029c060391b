----------------------- MODULE JobSchedulerLimitProofs ----------------------
(***************************************************************************)
(* The limit of running jobs. Only the processing loop makes rows running, *)
(* and what it may still start was counted when it listed the batch.       *)
(***************************************************************************)
EXTENDS JobSchedulerProofs, FiniteSetTheorems

Pending(i) == {j \in JobUIDs : batch[i][j] # None}

LimitInv ==
    /\ RunningWithinLimit
    /\ \A i \in Instances : Cardinality(Running \cup Pending(i)) <= Slots

LEMMA FiniteJobs ==
    /\ IsFiniteSet(JobUIDs)
    /\ \A S \in SUBSET JobUIDs : IsFiniteSet(S) /\ Cardinality(S) \in Nat
    /\ \A S, T \in SUBSET JobUIDs : S \subseteq T => Cardinality(S) <= Cardinality(T)
  <1>1. IsFiniteSet({Overdue} \cup {Purge})
    BY FS_Singleton, FS_Union, Zenon
  <1>2. Recurring \in SUBSET ({Overdue} \cup {Purge})
    BY ConstantsAssumption, Zenon
  <1>3. IsFiniteSet(Recurring)
    BY <1>1, <1>2, FS_Subset, Zenon
  <1>4. IsFiniteSet(JobUIDs)
    BY <1>3, FS_Union, ConstantsAssumption, Zenon DEF JobUIDs
  <1>5. \A S \in SUBSET JobUIDs : IsFiniteSet(S) /\ Cardinality(S) \in Nat
    BY <1>4, FS_Subset, FS_CardinalityType, Zenon
  <1>6. ASSUME NEW S \in SUBSET JobUIDs, NEW T \in SUBSET JobUIDs, S \subseteq T
        PROVE  Cardinality(S) <= Cardinality(T)
    BY <1>5, <1>6, FS_Subset, Zenon
  <1> QED BY <1>4, <1>5, <1>6, Zenon

\* A write that does not say running starts nothing.
LEMMA WriteShrinks ==
    ASSUME TypeInv, NEW j, NEW row, row = None \/ row.state # "running",
           jobs' = [jobs EXCEPT ![j] = row]
    PROVE  Running' \subseteq Running
  BY Zenon DEF TypeInv, TypeOK, Rows, Running, InState

LEMMA RunningShrinks ==
    ASSUME TypeInv,
           \/ \E i \in Instances : InstanceStep(i) \/ CancelStep(i)
           \/ \E g \in Execs : ExecStep(g)
           \/ \E j \in JobUIDs : CallerStep(j) \/ TimeStep(j)
           \/ LeaseExpires
           \/ \E m \in inbox : Drop(m)
    PROVE  Running' \subseteq Running
  <1> USE DEF TypeInv, TypeOK
  <1>0. ASSUME UNCHANGED jobs PROVE Running' \subseteq Running
    BY <1>0, Zenon DEF Running, InState
  <1>1. ASSUME NEW i \in Instances, InstanceStep(i) PROVE Running' \subseteq Running
    <2>1. ASSUME NEW changed \in SUBSET Recurring, Start(i, changed)
          PROVE  Running' \subseteq Running
      <3> SUFFICES ASSUME NEW j \in JobUIDs, jobs'[j] # None, jobs'[j].state = "running"
                   PROVE  jobs[j] # None /\ jobs[j].state = "running"
        BY Zenon DEF Running, InState
      <3>1. newRecurring.state = "scheduled"
        BY Zenon DEF newRecurring, toNewJob
      <3>2. CASE j \in changed /\ Exists(j)
        <4>1. jobs[j] \in Row
          BY <3>2, Zenon DEF Exists, Rows
        <4>2. jobs'[j].state = "scheduled"
          BY <2>1, <3>2, <4>1, Zenon DEF Start, createNecessaryJobs, Upsert, Row
        <4> QED BY <4>2, Zenon
      <3> QED BY <2>1, <3>1, <3>2, Zenon DEF Start, createNecessaryJobs, Upsert, Exists
    <2> QED BY <1>0, <1>1, <2>1 DEF InstanceStep, Stop, Exit, Crash, Gone
  <1>2. ASSUME NEW i \in Instances, CancelStep(i) PROVE Running' \subseteq Running
    <2>1. ASSUME NEW w \in Writes, CancelUpdate(i, w) PROVE Running' \subseteq Running
      <3> DEFINE row == [cancel[i].snap EXCEPT !.state = "canceled"]
      <3>1. cancel[i].snap \in Row
        BY <2>1, Zenon DEF CancelUpdate, CancelBusy
      <3>2. row.state = "canceled"
        BY <3>1, Zenon DEF Row
      <3>3. jobs' = jobs \/ jobs' = [jobs EXCEPT ![cancel[i].uid] = row]
        BY <2>1, Zenon DEF CancelUpdate, UpdateExecution
      <3> HIDE DEF row
      <3> QED BY <1>0, <3>2, <3>3, WriteShrinks, Zenon
    <2> QED BY <1>0, <1>2, <2>1, Zenon DEF CancelStep, CancelJob, CancelSignal, handleCancelJob
  <1>3. ASSUME NEW g \in Execs, ExecStep(g) PROVE Running' \subseteq Running
    <2>1. ASSUME NEW j \in JobUIDs, exec[g].snap[j] # None, NEW err \in BOOLEAN,
                 UpdateExecution(j, postExec(j, exec[g].snap[j], err))
          PROVE  Running' \subseteq Running
      <3>1. exec[g].snap[j] \in Row
        BY <2>1 DEF ExecState, Rows
      <3>2. postExec(j, exec[g].snap[j], err).state # "running"
        BY <3>1, PostExecGood, Zenon
      <3> QED BY <2>1, <3>2, WriteShrinks, Zenon DEF UpdateExecution
    <2>2. ASSUME NEW w \in Writes, UpdateExecuted(g, w) PROVE Running' \subseteq Running
      <3>1. exec[g].uid \in JobUIDs /\ exec[g].snap[exec[g].uid] # None /\ exec[g].err \in BOOLEAN
        BY <2>2, ConstantsAssumption, Zenon DEF UpdateExecuted, ExecBusy, HoldsJob, ExecState
      <3> QED BY <1>0, <2>1, <2>2, <3>1, Zenon DEF UpdateExecuted
    <2>3. ASSUME PurgeHandle(g) PROVE Running' \subseteq Running
      BY <2>3, Zenon DEF PurgeHandle, Running, InState
    <2> QED BY <1>0, <1>3, <2>1, <2>2, <2>3, Zenon
           , Zenon DEF ExecStep, doExec, HandlerReturns, OverdueHandle, Reclaim, ReclaimFails, FindExecuted
  <1>4. ASSUME NEW j \in JobUIDs, CallerStep(j) PROVE Running' \subseteq Running
    <2>1. toNewJob.state = "scheduled"
      BY Zenon DEF toNewJob
    <2> QED BY <1>4, <2>1, WriteShrinks, Zenon DEF CallerStep, RunJob, Create, PurgeJobByUID, DeleteByUID
  <1>5. ASSUME NEW j \in JobUIDs, TimeStep(j) PROVE Running' \subseteq Running
    <2>1. jobs[j] \in Row
      BY <1>5, Zenon DEF TimeStep, BecomesDue, DeadlinePasses, RetentionPasses, InState, Exists, Rows
    <2>2. \A k \in JobUIDs : jobs'[k] = jobs[k] \/ (k = j /\ jobs'[j].state = jobs[j].state)
      BY <1>5, <2>1 DEF TimeStep, BecomesDue, DeadlinePasses, RetentionPasses, Row, Rows
    <2> QED BY <2>1, <2>2, ConstantsAssumption, Zenon DEF Running, InState
  <1> QED BY <1>0, <1>1, <1>2, <1>3, <1>4, <1>5 DEF LeaseExpires, Drop

\* Fewer running and fewer pending jobs keep the limit.
LEMMA LimitShrinks ==
    ASSUME LimitInv, Running' \subseteq Running,
           \A i \in Instances : Pending(i)' \subseteq Pending(i)
    PROVE  LimitInv'
  <1>1. /\ Running \in SUBSET JobUIDs /\ Running' \in SUBSET JobUIDs
        /\ \A i \in Instances : /\ Running \cup Pending(i) \in SUBSET JobUIDs
                                /\ Running' \cup Pending(i)' \in SUBSET JobUIDs
    BY Zenon DEF Running, Pending
  <1>2. Slots \in Int
    BY ConstantsAssumption DEF Slots
  <1>3. RunningWithinLimit'
    <2>1. Cardinality(Running') <= Cardinality(Running)
      BY <1>1, FiniteJobs, Zenon
    <2> QED BY <1>1, <1>2, <2>1, FiniteJobs DEF LimitInv, RunningWithinLimit, CountRunning, Slots
  <1>4. ASSUME NEW i \in Instances PROVE Cardinality(Running' \cup Pending(i)') <= Slots
    <2>1. Cardinality(Running' \cup Pending(i)') <= Cardinality(Running \cup Pending(i))
      BY <1>1, FiniteJobs, Zenon
    <2>2. Cardinality(Running \cup Pending(i)) <= Slots
      BY Zenon DEF LimitInv
    <2> QED BY <1>1, <1>2, <2>1, <2>2, FiniteJobs
  <1> QED BY <1>3, <1>4, Zenon DEF LimitInv, Slots

\* The listing of a batch counts what is running already.
LEMMA ListLimit ==
    ASSUME TypeInv, LimitInv, LockInv, NEW i \in Instances, NEW S \in SUBSET JobUIDs,
           processReadyJobs(i, S)
    PROVE  LimitInv'
  <1> USE DEF TypeInv, TypeOK
  <1>1. UNCHANGED jobs
    BY Zenon DEF processReadyJobs
  <1>2. Running' = Running /\ Running \in SUBSET JobUIDs
    BY <1>1, Zenon DEF Running, InState
  <1>3. Pending(i)' = S
    BY ConstantsAssumption, Zenon DEF processReadyJobs, IsListed, Ready, InState, Only, Pending
  <1>4. Slots \in Int /\ Cardinality(S) \in Nat /\ Cardinality(Running) \in Nat
          /\ Cardinality(S) # 0
    BY <1>2, FiniteJobs, FS_EmptySet, ConstantsAssumption DEF Slots, processReadyJobs
  <1>5. Cardinality(S) + Cardinality(Running) <= Slots
    BY <1>4 DEF processReadyJobs, IsListed, availableSlots, CountRunning
  <1>6. Cardinality(Running \cup S) <= Cardinality(Running) + Cardinality(S)
    <2>1. Cardinality(Running \cup S)
            = Cardinality(Running) + Cardinality(S) - Cardinality(Running \cap S)
      BY <1>2, FiniteJobs, FS_Union, Zenon
    <2>2. Cardinality(Running \cap S) \in Nat
      BY <1>2, FiniteJobs, Zenon
    <2> QED BY <1>4, <2>1, <2>2
  <1>7. Cardinality(Running \cup S) \in Nat
    BY <1>2, FiniteJobs, Zenon
  <1>8. \A k \in Instances : k # i => Pending(k)' = Pending(k)
    BY Zenon DEF processReadyJobs, Pending
  <1>9. ASSUME NEW k \in Instances PROVE Cardinality(Running' \cup Pending(k)') <= Slots
    <2>1. CASE k = i
      BY <1>2, <1>3, <1>4, <1>5, <1>6, <1>7, <2>1
    <2>2. CASE k # i
      BY <1>2, <1>8, <2>2, Zenon DEF LimitInv
    <2> QED BY <2>1, <2>2, Zenon
  <1>10. RunningWithinLimit'
    BY <1>1, Zenon DEF LimitInv, RunningWithinLimit, CountRunning, Running, InState, Slots
  <1> QED BY <1>9, <1>10, Zenon DEF LimitInv, Slots

\* A job of the batch becomes running, or is skipped.
LEMMA TakeLimit ==
    ASSUME TypeInv, LimitInv, LockInv, NEW i \in Instances, NEW j \in JobUIDs,
           batch[i][j] # None, Taken(i, j),
           \/ UNCHANGED jobs
           \/ UpdateExecution(j, preExec(j, batch[i][j]))
    PROVE  LimitInv'
  <1> USE DEF TypeInv, TypeOK
  <1>1. j \in Pending(i) /\ batch[i] # NoRows
    BY Zenon DEF Pending, NoRows
  <1>2. Running' \subseteq Running \cup {j}
    BY Zenon DEF Running, InState, UpdateExecution, Rows
  <1>3. Pending(i)' \subseteq Pending(i)
    BY Zenon DEF Taken, Pending, Rows
  <1>4. \A k \in Instances : k # i => Pending(k)' = {}
    <2>1. \A k \in Instances : k # i => batch[k] = NoRows
      BY <1>1, OwnersDiffer DEF LockInv
    <2> QED BY <2>1, Zenon DEF Taken, Pending, NoRows
  <1>5. /\ Running \cup Pending(i) \in SUBSET JobUIDs /\ Running' \in SUBSET JobUIDs
        /\ Running' \cup Pending(i)' \in SUBSET JobUIDs
    BY Zenon DEF Running, Pending
  <1>6. Slots \in Int
    BY ConstantsAssumption DEF Slots
  <1>7. Cardinality(Running \cup Pending(i)) <= Slots
    BY Zenon DEF LimitInv
  <1>8. Cardinality(Running') <= Slots
    <2>1. Cardinality(Running') <= Cardinality(Running \cup Pending(i))
      BY <1>1, <1>2, <1>5, FiniteJobs
    <2> QED BY <1>5, <1>6, <1>7, <2>1, FiniteJobs
  <1>9. Cardinality(Running' \cup Pending(i)') <= Slots
    <2>1. Cardinality(Running' \cup Pending(i)') <= Cardinality(Running \cup Pending(i))
      BY <1>1, <1>2, <1>3, <1>5, FiniteJobs
    <2> QED BY <1>5, <1>6, <1>7, <2>1, FiniteJobs
  <1>10. ASSUME NEW k \in Instances PROVE Cardinality(Running' \cup Pending(k)') <= Slots
    <2>1. CASE k = i
      BY <1>9, <2>1, Zenon
    <2>2. CASE k # i
      <3>1. Running' \cup Pending(k)' = Running'
        BY <1>4, <2>2, Zenon
      <3> QED BY <1>8, <3>1, Zenon
    <2> QED BY <2>1, <2>2, Zenon
  <1> QED BY <1>8, <1>10, Zenon DEF LimitInv, RunningWithinLimit, CountRunning, Slots

\* While leases outlive their critical sections, the table never shows more
\* running jobs than the limit, for any number of instances and jobs.
THEOREM LimitHolds == ASSUME "lease" \notin Faults PROVE Spec => []RunningWithinLimit
  <1>1. Init => LimitInv
    <2> SUFFICES ASSUME Init PROVE LimitInv
      BY Zenon
    <2>1. Running = {} /\ \A i \in Instances : Pending(i) = {}
      BY Zenon DEF Init, NoRows, Running, InState, Pending
    <2>2. Cardinality({}) = 0 /\ 0 <= Slots
      BY FS_EmptySet, ConstantsAssumption DEF Slots
    <2>3. \A i \in Instances : Running \cup Pending(i) = {}
      BY <2>1, Zenon
    <2> QED BY <2>1, <2>2, <2>3, Zenon DEF LimitInv, RunningWithinLimit, CountRunning
  <1>2. TypeInv /\ LockInv /\ LimitInv /\ [Next]_vars => LimitInv'
    <2> SUFFICES ASSUME TypeInv, LockInv, LimitInv, [Next]_vars PROVE LimitInv'
      BY Zenon
    <2>1. ASSUME NEW i \in Instances, ProcessStep(i) PROVE LimitInv'
      BY <2>1, ListLimit, TakeLimit, Zenon DEF ProcessStep, runJob, skipJob
    <2>2. CASE UNCHANGED vars
      BY <2>2, Zenon DEF vars, LimitInv, RunningWithinLimit, CountRunning, Running, InState, Pending, Slots
    <2>3. CASE \/ \E i \in Instances : InstanceStep(i) \/ CancelStep(i)
               \/ \E g \in Execs : ExecStep(g)
               \/ \E j \in JobUIDs : CallerStep(j) \/ TimeStep(j)
               \/ LeaseExpires
               \/ \E m \in inbox : Drop(m)
      <3>1. \A k \in Instances : batch'[k] = batch[k] \/ batch'[k] = NoRows
        <4>1. ASSUME NEW i \in Instances, InstanceStep(i)
              PROVE  \A k \in Instances : batch'[k] = batch[k] \/ batch'[k] = NoRows
          BY <4>1, Zenon DEF TypeInv, TypeOK, InstanceStep, Start, Stop, Exit, Crash, Gone
        <4>2. ASSUME NEW i \in Instances, CancelStep(i) PROVE batch' = batch
          BY <4>2, Zenon DEF CancelStep, CancelJob, CancelUpdate, CancelSignal, handleCancelJob
        <4>3. ASSUME NEW g \in Execs, ExecStep(g) PROVE batch' = batch
          BY <4>3, Zenon DEF ExecStep, doExec, HandlerReturns, PurgeHandle, OverdueHandle, Reclaim,
                      ReclaimFails, FindExecuted, UpdateExecuted
        <4>4. ASSUME NEW j \in JobUIDs, CallerStep(j) \/ TimeStep(j) PROVE batch' = batch
          BY <4>4, Zenon DEF CallerStep, RunJob, PurgeJobByUID, TimeStep, BecomesDue, DeadlinePasses,
                      RetentionPasses
        <4>5. ASSUME LeaseExpires \/ \E m \in inbox : Drop(m) PROVE batch' = batch
          BY <4>5, Zenon DEF LeaseExpires, Drop
        <4> QED BY <2>3, <4>1, <4>2, <4>3, <4>4, <4>5
      <3>2. \A k \in Instances : Pending(k)' \subseteq Pending(k)
        BY <3>1, Zenon DEF Pending, NoRows
      <3> QED BY <2>3, <3>2, RunningShrinks, LimitShrinks
    <2> QED BY <2>1, <2>2, <2>3, Zenon DEF Next
  <1> QED BY <1>1, <1>2, TypeCorrect, SectionsAreLocked, PTL DEF Spec, LimitInv
=============================================================================
