---------------------------- MODULE JobScheduler ----------------------------
(***************************************************************************)
(* The background job scheduler of package job (src/job) over the jobs     *)
(* table (src/app/store/database/job.go), as run by several server         *)
(* instances that share the database, the distributed lock "jobs" and the  *)
(* cancel topic of the pub/sub service.                                    *)
(*                                                                         *)
(* Actors: the processing loop of every instance (processReadyJobs), one   *)
(* goroutine per started job (runJob), the CancelJob calls of the API, the *)
(* two built-in recurring jobs (overdue, purge) and the callers that       *)
(* create and delete jobs.                                                 *)
(*                                                                         *)
(* Time is not a number here: a row only records whether its scheduled     *)
(* time has come (due), whether its run deadline is behind us (late) and   *)
(* whether its last execution is older than the retention time (old).      *)
(* Time flips each flag at an arbitrary moment, so every duration, every   *)
(* cron string and every clock difference between instances is covered.    *)
(***************************************************************************)
EXTENDS Integers, FiniteSets

CONSTANTS
    Instances,     \* server instances
    UserJobs,      \* UIDs of non-recurring jobs
    Overdue,       \* UID "gitness:jobs:overdue"
    Purge,         \* UID "gitness:jobs:purge"
    Recurring,     \* the recurring jobs of the instance: subset of {Overdue, Purge}
    MaxRetries,    \* MaxRetries of every user job
    maxRunning,    \* configured limit of running jobs
    Execs,         \* goroutine identities (bound: executions alive at once)
    MaxStops,      \* bound: shutdowns and stops per behaviour
    Faults,        \* which faults may happen, see FaultKinds
    None           \* absent row, no goroutine, no lock owner

\* lease:  the lock lease of a live holder runs out
\* lock:   taking the lock fails (tries or wait time exhausted)
\* db:     a database update reports an error, applied or not
\* pubsub: a published message is not delivered
\* upgrade: a new version changes the definition of a recurring job
\* crash:  an instance terminates suddenly
\* slow:   a built-in job does not finish within its five seconds
\* delete: callers purge jobs by UID or group
FaultKinds == {"lease", "lock", "db", "pubsub", "upgrade", "crash", "slow", "delete"}

JobUIDs == UserJobs \cup Recurring

State == {"scheduled", "running", "finished", "failed", "canceled"}

Row == [state: State, due: BOOLEAN, late: BOOLEAN, old: BOOLEAN,
        total: Nat, fails: Nat]

Rows == [JobUIDs -> Row \cup {None}]
NoRows == [j \in JobUIDs |-> None]

Owner == ({"proc", "cancel"} \X Instances) \cup ({"exec"} \X Execs)

ASSUME ConstantsAssumption ==
    /\ IsFiniteSet(UserJobs)
    /\ Recurring \subseteq {Overdue, Purge}
    /\ Overdue # Purge
    /\ UserJobs \cap {Overdue, Purge} = {}
    /\ MaxRetries \in [UserJobs -> Nat]
    /\ maxRunning \in Int
    /\ MaxStops \in Nat
    /\ Faults \subseteq FaultKinds
    /\ None \notin Row /\ None \notin Owner
    /\ None \notin Instances /\ None \notin Execs /\ None \notin JobUIDs

VARIABLES
    jobs,         \* the jobs table
    mode,         \* instance -> down, up, stopping
    lock,         \* owner of the global lock "jobs"
    batch,        \* instance -> rows processReadyJobs has listed, not yet started
    exec,         \* goroutine -> its state
    cancelJobMap, \* instance -> UID -> goroutine whose context can be canceled
    cancel,       \* instance -> the CancelJob call in progress
    inbox,        \* cancel messages in flight: <<instance, UID>>
    stops         \* shutdowns and stops so far

vars == <<jobs, mode, lock, batch, exec, cancelJobMap, cancel, inbox, stops>>

ExecPC == {"free", "begin", "handler", "reclaim", "done", "post"}

ExecState == [pc: ExecPC, inst: Instances \cup {None}, uid: JobUIDs \cup {None},
              ctxDone: BOOLEAN, err: BOOLEAN, snap: Rows]

FreeExec == [pc |-> "free", inst |-> None, uid |-> None,
             ctxDone |-> FALSE, err |-> FALSE, snap |-> NoRows]

CancelState == [pc: {"idle", "update", "signal"}, uid: JobUIDs \cup {None},
                snap: Row \cup {None}]

NoCancel == [pc |-> "idle", uid |-> None, snap |-> None]

TypeOK ==
    /\ jobs \in Rows
    /\ mode \in [Instances -> {"down", "up", "stopping"}]
    /\ lock \in Owner \cup {None}
    /\ batch \in [Instances -> Rows]
    /\ exec \in [Execs -> ExecState]
    /\ cancelJobMap \in [Instances -> [JobUIDs -> Execs \cup {None}]]
    /\ cancel \in [Instances -> CancelState]
    /\ inbox \subseteq Instances \X JobUIDs
    /\ stops \in 0..MaxStops

Init ==
    /\ jobs = NoRows
    /\ mode = [i \in Instances |-> "down"]
    /\ lock = None
    /\ batch = [i \in Instances |-> NoRows]
    /\ exec = [g \in Execs |-> FreeExec]
    /\ cancelJobMap = [i \in Instances |-> [j \in JobUIDs |-> None]]
    /\ cancel = [i \in Instances |-> NoCancel]
    /\ inbox = {}
    /\ stops = 0
-----------------------------------------------------------------------------
(***************************************************************************)
(* Rows                                                                    *)
(***************************************************************************)

\* A job that was never executed has LastExecuted = 0: older than any
\* retention time. A new user job is scheduled for now.
toNewJob == [state |-> "scheduled", due |-> TRUE, late |-> FALSE, old |-> TRUE,
             total |-> 0, fails |-> 0]

\* AddRecurring schedules the next time the cron expression matches.
newRecurring == [toNewJob EXCEPT !.due = FALSE]

\* Variant: the counter goes the wrong way.
IncrementDown(j, n) == IF j \in Recurring THEN 0 ELSE n - 1

\* The counters of recurring jobs grow forever and decide nothing: only the
\* counters of user jobs are kept.
Increment(j, n) == IF j \in Recurring THEN 0 ELSE n + 1

preExec(j, row) ==
    [row EXCEPT !.state = "running", !.late = FALSE, !.old = FALSE,
                !.total = Increment(j, @)]

\* Variant: one retry too many.
RetryOneMore(j, fails) == j \in Recurring \/ fails <= MaxRetries[j] + 1

\* Whether a failed execution leads to another one.
Retry(j, fails) == j \in Recurring \/ fails <= MaxRetries[j]

\* Variant: a job that fails keeps its state.
postExecForgets(j, row, err) ==
    IF err \/ row.state \notin {"running", "canceled"}
    THEN row
    ELSE IF j \in Recurring
         THEN [row EXCEPT !.state = "scheduled", !.due = FALSE]
         ELSE [row EXCEPT !.state = "finished"]

\* The cron string of a row has been parsed by AddRecurring before it was
\* stored, so the branch for an invalid string is not reached.
postExec(j, row, err) ==
    LET fails == IF err THEN Increment(j, row.fails) ELSE row.fails IN
    IF row.state # "running" /\ (row.state # "canceled" \/ err)
    THEN row
    ELSE IF j \in Recurring \/ (err /\ Retry(j, fails))
         THEN [row EXCEPT !.state = "scheduled", !.due = FALSE, !.fails = fails]
         ELSE [row EXCEPT !.state = IF err THEN "failed" ELSE "finished",
                          !.fails = fails]

Exists(j) == jobs[j] # None
InState(j, s) == jobs[j] # None /\ jobs[j].state = s

\* The insert fails if the UID is taken.
Create(j, row) == ~Exists(j) /\ jobs' = [jobs EXCEPT ![j] = row]
DeleteByUID(j) == Exists(j) /\ jobs' = [jobs EXCEPT ![j] = None]

\* UpdateExecution writes every column the model keeps.
UpdateExecution(j, row) == jobs' = [jobs EXCEPT ![j] = row]

\* How a write may end: applied and acknowledged, or with an error that the
\* caller sees although the row may have been written.
Writes == IF "db" \in Faults THEN {"ok", "lost", "unacknowledged"} ELSE {"ok"}

Running == {j \in JobUIDs : InState(j, "running")}
CountRunning == Cardinality(Running)
Ready == {j \in JobUIDs : InState(j, "scheduled") /\ jobs[j].due}
\* Variant: the query filters by the wrong state.
DeadlineExceededWrong == {j \in JobUIDs : InState(j, "scheduled") /\ jobs[j].late}
DeadlineExceeded == {j \in JobUIDs : InState(j, "running") /\ jobs[j].late}
Only(S) == [j \in JobUIDs |-> IF j \in S THEN jobs[j] ELSE None]

IsCompleted(s) == s \in {"finished", "failed", "canceled"}
Old == {j \in UserJobs : Exists(j) /\ IsCompleted(jobs[j].state) /\ jobs[j].old}

(***************************************************************************)
(* The global lock                                                         *)
(***************************************************************************)
Acquire(o) == lock = None /\ lock' = o
\* Unlock releases the lock only under the token that took it.
Unlocked(o) == IF lock = o THEN None ELSE lock
-----------------------------------------------------------------------------
(***************************************************************************)
(* Life of an instance                                                     *)
(***************************************************************************)

\* An existing row is left as it is unless its definition has changed, and then
\* goes back to scheduled whatever its state.
Upsert(j, changed) ==
    IF ~Exists(j) THEN newRecurring
    ELSE IF j \in changed THEN [jobs[j] EXCEPT !.state = "scheduled", !.due = FALSE]
    ELSE jobs[j]

\* The recurring jobs are upserted under the lock.
createNecessaryJobs(changed) ==
    /\ lock = None
    /\ jobs' = [j \in JobUIDs |-> IF j \in Recurring THEN Upsert(j, changed) ELSE jobs[j]]

\* Run, up to its loop.
Start(i, changed) ==
    /\ mode[i] = "down"
    /\ changed \subseteq {j \in Recurring : Exists(j)}
    /\ changed = {} \/ "upgrade" \in Faults
    /\ createNecessaryJobs(changed)
    /\ mode' = [mode EXCEPT ![i] = "up"]
    /\ UNCHANGED <<lock, batch, exec, cancelJobMap, cancel, inbox, stops>>

\* Graceful shutdown: the context of Run ends, and with it the contexts of
\* the running jobs. What is left of a batch fails to be updated and is
\* skipped; the unlock may fail with the same context, and the lease then
\* has to run out.
Stop(i) ==
    /\ mode[i] = "up"
    /\ stops < MaxStops
    /\ stops' = stops + 1
    /\ mode' = [mode EXCEPT ![i] = "stopping"]
    /\ batch' = [batch EXCEPT ![i] = NoRows]
    /\ lock' \in {lock, Unlocked(<<"proc", i>>)}
    /\ exec' = [g \in Execs |-> IF exec[g].inst = i
                                THEN [exec[g] EXCEPT !.ctxDone = TRUE] ELSE exec[g]]
    /\ UNCHANGED <<jobs, cancelJobMap, cancel, inbox>>

\* The process ends: all its goroutines and its memory are gone.
Gone(i) ==
    /\ mode' = [mode EXCEPT ![i] = "down"]
    /\ batch' = [batch EXCEPT ![i] = NoRows]
    /\ exec' = [g \in Execs |-> IF exec[g].inst = i THEN FreeExec ELSE exec[g]]
    /\ cancelJobMap' = [cancelJobMap EXCEPT ![i] = [j \in JobUIDs |-> None]]
    /\ cancel' = [cancel EXCEPT ![i] = NoCancel]
    /\ inbox' = {m \in inbox : m[1] # i}
    /\ UNCHANGED <<jobs, lock>>

\* WaitJobsDone returns when no goroutine is left.
Exit(i) ==
    /\ mode[i] = "stopping"
    /\ \A g \in Execs : exec[g].inst # i
    /\ cancel[i].pc = "idle"
    /\ Gone(i)
    /\ UNCHANGED stops

\* Sudden termination, or WaitJobsDone interrupted by its own deadline.
Crash(i) ==
    /\ "crash" \in Faults
    /\ mode[i] # "down"
    /\ stops < MaxStops
    /\ stops' = stops + 1
    /\ Gone(i)

\* Who is inside its critical section, as far as it knows.
InSection(o) ==
    \/ \E i \in Instances : o = <<"proc", i>> /\ batch[i] # NoRows
    \/ \E i \in Instances : o = <<"cancel", i>> /\ cancel[i].pc # "idle"
    \/ \E g \in Execs : o = <<"exec", g>> /\ exec[g].pc \in {"reclaim", "post"}

\* The lease runs out: always in the end if the holder is gone, and under a
\* live holder if it takes longer than the expiry of the lock.
LeaseExpires ==
    /\ lock # None
    /\ InSection(lock) => "lease" \in Faults
    /\ lock' = None
    /\ UNCHANGED <<jobs, mode, batch, exec, cancelJobMap, cancel, inbox, stops>>

(***************************************************************************)
(* Callers                                                                 *)
(***************************************************************************)

\* RunJob, RunJobs
RunJob(j) ==
    /\ j \in UserJobs
    /\ \E i \in Instances : mode[i] = "up"
    /\ Create(j, toNewJob)
    /\ UNCHANGED <<mode, lock, batch, exec, cancelJobMap, cancel, inbox, stops>>

\* PurgeJobByUID, PurgeJobsByGroupID: no lock, any state.
PurgeJobByUID(j) ==
    /\ "delete" \in Faults
    /\ j \in UserJobs
    /\ DeleteByUID(j)
    /\ UNCHANGED <<mode, lock, batch, exec, cancelJobMap, cancel, inbox, stops>>

(***************************************************************************)
(* Time                                                                    *)
(***************************************************************************)
BecomesDue(j) ==
    /\ InState(j, "scheduled") /\ ~jobs[j].due
    /\ jobs' = [jobs EXCEPT ![j].due = TRUE]
    /\ UNCHANGED <<mode, lock, batch, exec, cancelJobMap, cancel, inbox, stops>>

\* The run deadline of the row is also the deadline of the context.
DeadlinePasses(j) ==
    /\ InState(j, "running") /\ ~jobs[j].late
    /\ j \in Recurring => "slow" \in Faults \/ \A g \in Execs : exec[g].uid # j
    /\ jobs' = [jobs EXCEPT ![j].late = TRUE]
    /\ exec' = [g \in Execs |-> IF exec[g].uid = j
                                THEN [exec[g] EXCEPT !.ctxDone = TRUE] ELSE exec[g]]
    /\ UNCHANGED <<mode, lock, batch, cancelJobMap, cancel, inbox, stops>>

RetentionPasses(j) ==
    /\ Purge \in Recurring
    /\ j \in UserJobs /\ Exists(j) /\ ~jobs[j].old
    /\ IsCompleted(jobs[j].state)
    /\ jobs' = [jobs EXCEPT ![j].old = TRUE]
    /\ UNCHANGED <<mode, lock, batch, exec, cancelJobMap, cancel, inbox, stops>>
-----------------------------------------------------------------------------
(***************************************************************************)
(* processReadyJobs                                                        *)
(***************************************************************************)

\* NewScheduler raises a limit below one to one.
Slots == IF maxRunning < 1 THEN 1 ELSE maxRunning
\* Variant: the one row over the limit is not cut off.
availableSlotsOver == IF Slots - CountRunning < 0 THEN 0 ELSE Slots - CountRunning + 1
availableSlots == IF Slots - CountRunning < 0 THEN 0 ELSE Slots - CountRunning

\* ListReady, cut to the available slots: recurring jobs have the elevated
\* priority and come first. The order by scheduled time among jobs of the
\* same priority is left open.
IsListed(S) ==
    /\ S \subseteq Ready
    /\ Cardinality(S) <= availableSlots
    /\ \/ S = Ready
       \/ /\ Cardinality(S) = availableSlots
          /\ \A j \in S, k \in Ready \ S : k \in Recurring => j \in Recurring

\* Bound: a job starts only while a goroutine identity is left for it.
FreeExecs == {g \in Execs : exec[g].pc = "free"}

\* A tick of the timer: lock, count, list. When there is nothing to start the
\* lock is released without an effect; when it cannot be taken the loop waits
\* for the next tick.
processReadyJobs(i, S) ==
    /\ mode[i] = "up" /\ batch[i] = NoRows
    /\ S # {} /\ IsListed(S)
    /\ Cardinality(S) <= Cardinality(FreeExecs)
    /\ Acquire(<<"proc", i>>)
    /\ batch' = [batch EXCEPT ![i] = Only(S)]
    /\ UNCHANGED <<jobs, mode, exec, cancelJobMap, cancel, inbox, stops>>

\* One job of the batch leaves the list; the lock goes with the last one.
Taken(i, j) ==
    LET rest == [batch[i] EXCEPT ![j] = None] IN
    /\ batch' = [batch EXCEPT ![i] = rest]
    /\ lock' = IF rest = NoRows THEN Unlocked(<<"proc", i>>) ELSE lock

\* preExec, UpdateExecution, runJob: the goroutine starts with the row's UID
\* and deadline only.
runJob(i, j, g) ==
    /\ batch[i][j] # None /\ Exists(j)
    /\ exec[g].pc = "free"
    /\ UpdateExecution(j, preExec(j, batch[i][j]))
    /\ exec' = [exec EXCEPT ![g] = [FreeExec EXCEPT !.pc = "begin", !.inst = i, !.uid = j]]
    /\ Taken(i, j)
    /\ UNCHANGED <<mode, cancelJobMap, cancel, inbox, stops>>

\* UpdateExecution fails, because the row is gone or with a database error:
\* the job is skipped.
skipJob(i, j, w) ==
    /\ batch[i][j] # None
    /\ \/ ~Exists(j) /\ w = "ok" /\ UNCHANGED jobs
       \/ w = "lost" /\ UNCHANGED jobs
       \/ Exists(j) /\ w = "unacknowledged" /\ UpdateExecution(j, preExec(j, batch[i][j]))
    /\ Taken(i, j)
    /\ UNCHANGED <<mode, exec, cancelJobMap, cancel, inbox, stops>>

(***************************************************************************)
(* The goroutine of a job: doExec                                          *)
(***************************************************************************)
\* On every return of doExec its context is done (defer done()).
Finish(g, err) == [exec[g] EXCEPT !.pc = "done", !.err = err, !.snap = NoRows,
                                  !.ctxDone = TRUE]

\* Variant: an entry of the same UID is overwritten.
doExecOverwrites(g) ==
    /\ exec[g].pc = "begin"
    /\ cancelJobMap' = [cancelJobMap EXCEPT ![exec[g].inst][exec[g].uid] = g]
    /\ exec' = [exec EXCEPT ![g].pc = "handler"]
    /\ UNCHANGED <<jobs, mode, lock, batch, cancel, inbox, stops>>

doExec(g) ==
    LET i == exec[g].inst
        j == exec[g].uid IN
    /\ exec[g].pc = "begin"
    /\ \/ /\ cancelJobMap[i][j] # None      \* "failed to start: already running"
          /\ exec' = [exec EXCEPT ![g] = Finish(g, TRUE)]
          /\ UNCHANGED cancelJobMap
       \/ /\ cancelJobMap[i][j] = None
          /\ cancelJobMap' = [cancelJobMap EXCEPT ![i][j] = g]
          /\ exec' = [exec EXCEPT ![g].pc = "handler"]
    /\ UNCHANGED <<jobs, mode, lock, batch, cancel, inbox, stops>>

\* The deferred delete of doExec.
Unregister(g) == cancelJobMap' = [cancelJobMap EXCEPT ![exec[g].inst][exec[g].uid] = None]

\* A handler of a user job returns: with or without an error, before or after
\* its context is done. A built-in handler returns an error without having
\* done anything when it cannot take the lock, its query fails or its context
\* is done.
HandlerReturns(g, err) ==
    /\ exec[g].pc = "handler"
    /\ exec[g].uid \in Recurring =>
         err /\ (exec[g].ctxDone \/ Faults \cap {"lock", "db"} # {})
    /\ exec' = [exec EXCEPT ![g] = Finish(g, err)]
    /\ Unregister(g)
    /\ UNCHANGED <<jobs, mode, lock, batch, cancel, inbox, stops>>

\* jobPurge.Handle
PurgeHandle(g) ==
    /\ exec[g].pc = "handler" /\ exec[g].uid = Purge /\ ~exec[g].ctxDone
    /\ lock = None
    /\ jobs' = [j \in JobUIDs |-> IF j \in Old THEN None ELSE jobs[j]]
    /\ exec' = [exec EXCEPT ![g] = Finish(g, FALSE)]
    /\ Unregister(g)
    /\ UNCHANGED <<mode, lock, batch, cancel, inbox, stops>>

\* jobOverdue.Handle: lock, list the running jobs past their deadline.
OverdueHandle(g) ==
    /\ exec[g].pc = "handler" /\ exec[g].uid = Overdue /\ ~exec[g].ctxDone
    /\ lock = None
    /\ IF DeadlineExceeded = {}
       THEN /\ exec' = [exec EXCEPT ![g] = Finish(g, FALSE)]
            /\ Unregister(g)
            /\ UNCHANGED lock
       ELSE /\ exec' = [exec EXCEPT ![g].pc = "reclaim",
                                    ![g].snap = Only(DeadlineExceeded)]
            /\ Acquire(<<"exec", g>>)
            /\ UNCHANGED cancelJobMap
    /\ UNCHANGED <<jobs, mode, batch, cancel, inbox, stops>>

\* One listed row is failed with "deadline exceeded" and updated.
Reclaim(g, j) ==
    LET rest == [exec[g].snap EXCEPT ![j] = None] IN
    /\ exec[g].pc = "reclaim" /\ ~exec[g].ctxDone
    /\ exec[g].snap[j] # None /\ Exists(j)
    /\ UpdateExecution(j, postExec(j, exec[g].snap[j], TRUE))
    /\ IF rest = NoRows
       THEN /\ exec' = [exec EXCEPT ![g] = Finish(g, FALSE)]
            /\ Unregister(g)
            /\ lock' = Unlocked(<<"exec", g>>)
       ELSE /\ exec' = [exec EXCEPT ![g].snap = rest]
            /\ UNCHANGED <<lock, cancelJobMap>>
    /\ UNCHANGED <<mode, batch, cancel, inbox, stops>>

\* The first update that fails ends the handler with an error. Under a
\* context that is done the unlock may fail as well.
ReclaimFails(g, j, w) ==
    /\ exec[g].pc = "reclaim" /\ exec[g].snap[j] # None
    /\ \/ (~Exists(j) \/ exec[g].ctxDone) /\ w = "ok" /\ UNCHANGED jobs
       \/ w = "lost" /\ UNCHANGED jobs
       \/ Exists(j) /\ w = "unacknowledged"
          /\ UpdateExecution(j, postExec(j, exec[g].snap[j], TRUE))
    /\ exec' = [exec EXCEPT ![g] = Finish(g, TRUE)]
    /\ Unregister(g)
    /\ \/ lock' = Unlocked(<<"exec", g>>)
       \/ exec[g].ctxDone /\ UNCHANGED lock
    /\ UNCHANGED <<mode, batch, cancel, inbox, stops>>

(***************************************************************************)
(* The goroutine of a job: after the execution                             *)
(***************************************************************************)

\* Variant: the row is read without the lock.
FindExecutedUnlocked(g) ==
    /\ exec[g].pc = "done"
    /\ exec' = [exec EXCEPT ![g] = IF Exists(exec[g].uid)
                                   THEN [@ EXCEPT !.pc = "post", !.snap = Only({exec[g].uid})]
                                   ELSE FreeExec]
    /\ UNCHANGED <<jobs, mode, lock, batch, cancelJobMap, cancel, inbox, stops>>

\* Lock and Find. When the lock cannot be taken the update goes on without.
FindExecuted(g) ==
    /\ exec[g].pc = "done"
    /\ \/ lock = None
       \/ "lock" \in Faults
    /\ IF Exists(exec[g].uid)
       THEN /\ exec' = [exec EXCEPT ![g].pc = "post", ![g].snap = Only({exec[g].uid})]
            /\ \/ Acquire(<<"exec", g>>)
               \/ "lock" \in Faults /\ UNCHANGED lock
       ELSE /\ exec' = [exec EXCEPT ![g] = FreeExec]
            /\ UNCHANGED lock
    /\ UNCHANGED <<jobs, mode, batch, cancelJobMap, cancel, inbox, stops>>

\* postExec on the row found, UpdateExecution, unlock.
UpdateExecuted(g, w) ==
    LET j == exec[g].uid IN
    /\ exec[g].pc = "post"
    /\ IF Exists(j) /\ w # "lost"
       THEN UpdateExecution(j, postExec(j, exec[g].snap[j], exec[g].err))
       ELSE UNCHANGED jobs
    /\ exec' = [exec EXCEPT ![g] = FreeExec]
    /\ lock' = Unlocked(<<"exec", g>>)
    /\ UNCHANGED <<mode, batch, cancelJobMap, cancel, inbox, stops>>
-----------------------------------------------------------------------------
(***************************************************************************)
(* CancelJob                                                               *)
(***************************************************************************)

\* Variant: recurring jobs can be canceled.
CancelJobRecurring(i, j) ==
    /\ mode[i] = "up" /\ cancel[i].pc = "idle"
    /\ InState(j, "scheduled") \/ InState(j, "running")
    /\ Acquire(<<"cancel", i>>)
    /\ cancel' = [cancel EXCEPT ![i] = [pc |-> "update", uid |-> j, snap |-> jobs[j]]]
    /\ UNCHANGED <<jobs, mode, batch, exec, cancelJobMap, inbox, stops>>

\* Lock, Find, checks. A job that is gone or already completed, and a
\* recurring one, is left alone and the lock released: no step.
CancelJob(i, j) ==
    /\ mode[i] = "up" /\ cancel[i].pc = "idle"
    /\ j \notin Recurring
    /\ InState(j, "scheduled") \/ InState(j, "running")
    /\ Acquire(<<"cancel", i>>)
    /\ cancel' = [cancel EXCEPT ![i] = [pc |-> "update", uid |-> j, snap |-> jobs[j]]]
    /\ UNCHANGED <<jobs, mode, batch, exec, cancelJobMap, inbox, stops>>

\* "first we update the job in the database..."
CancelUpdate(i, w) ==
    LET j == cancel[i].uid
        row == [cancel[i].snap EXCEPT !.state = "canceled"] IN
    /\ cancel[i].pc = "update"
    /\ IF Exists(j) /\ w = "ok"
       THEN /\ UpdateExecution(j, row)
            /\ cancel' = [cancel EXCEPT ![i].pc = "signal"]
            /\ UNCHANGED lock
       ELSE /\ \/ UNCHANGED jobs
               \/ Exists(j) /\ w = "unacknowledged" /\ UpdateExecution(j, row)
            /\ cancel' = [cancel EXCEPT ![i] = NoCancel]
            /\ lock' = Unlocked(<<"cancel", i>>)
    /\ UNCHANGED <<mode, batch, exec, cancelJobMap, inbox, stops>>

\* cancelFn of the goroutine registered for the UID.
CancelContext(i, j) ==
    exec' = [g \in Execs |-> IF g = cancelJobMap[i][j]
                             THEN [exec[g] EXCEPT !.ctxDone = TRUE] ELSE exec[g]]

\* "... and then we cancel its context." Here, or on the instance that runs it.
CancelSignal(i) ==
    LET j == cancel[i].uid IN
    /\ cancel[i].pc = "signal"
    /\ IF cancelJobMap[i][j] # None
       THEN CancelContext(i, j) /\ UNCHANGED inbox
       ELSE /\ inbox' = inbox \cup {<<k, j>> : k \in {k \in Instances : mode[k] = "up"}}
            /\ UNCHANGED exec
    /\ cancel' = [cancel EXCEPT ![i] = NoCancel]
    /\ lock' = Unlocked(<<"cancel", i>>)
    /\ UNCHANGED <<jobs, mode, batch, cancelJobMap, stops>>

handleCancelJob(i, j) ==
    /\ <<i, j>> \in inbox
    /\ inbox' = inbox \ {<<i, j>>}
    /\ CancelContext(i, j)
    /\ UNCHANGED <<jobs, mode, lock, batch, cancelJobMap, cancel, stops>>

\* A message that the pub/sub service fails to deliver.
Drop(m) ==
    /\ "pubsub" \in Faults
    /\ m \in inbox
    /\ inbox' = inbox \ {m}
    /\ UNCHANGED <<jobs, mode, lock, batch, exec, cancelJobMap, cancel, stops>>
-----------------------------------------------------------------------------
InstanceStep(i) ==
    \/ \E changed \in SUBSET Recurring : Start(i, changed)
    \/ Stop(i)
    \/ Exit(i)
    \/ Crash(i)

ProcessStep(i) ==
    \/ \E S \in SUBSET JobUIDs : processReadyJobs(i, S)
    \/ \E j \in JobUIDs : \E g \in Execs : runJob(i, j, g)
    \/ \E j \in JobUIDs : \E w \in Writes : skipJob(i, j, w)

ExecStep(g) ==
    \/ doExec(g)
    \/ \E err \in BOOLEAN : HandlerReturns(g, err)
    \/ PurgeHandle(g)
    \/ OverdueHandle(g)
    \/ \E j \in JobUIDs : Reclaim(g, j)
    \/ \E j \in JobUIDs : \E w \in Writes : ReclaimFails(g, j, w)
    \/ FindExecuted(g)
    \/ \E w \in Writes : UpdateExecuted(g, w)

CancelStep(i) ==
    \/ \E j \in JobUIDs : CancelJob(i, j)
    \/ \E w \in Writes : CancelUpdate(i, w)
    \/ CancelSignal(i)
    \/ \E j \in JobUIDs : handleCancelJob(i, j)

CallerStep(j) == RunJob(j) \/ PurgeJobByUID(j)

TimeStep(j) == BecomesDue(j) \/ DeadlinePasses(j) \/ RetentionPasses(j)

Next ==
    \/ \E i \in Instances : InstanceStep(i) \/ ProcessStep(i) \/ CancelStep(i)
    \/ \E g \in Execs : ExecStep(g)
    \/ \E j \in JobUIDs : CallerStep(j) \/ TimeStep(j)
    \/ LeaseExpires
    \/ \E m \in inbox : Drop(m)

Spec == Init /\ [][Next]_vars

(***************************************************************************)
(* Fairness. The timer of every loop is always armed, goroutines are       *)
(* scheduled, handlers return (they honor the deadline of their context),  *)
(* time passes, servers are restarted. Waiters for the lock poll it, and   *)
(* every critical section is short: whoever can take it again and again    *)
(* takes it in the end. Callers owe nothing.                               *)
(***************************************************************************)
ProcessFairness(i) ==
    /\ WF_vars(Start(i, {}))
    /\ WF_vars(Exit(i))
    /\ SF_vars(\E S \in SUBSET JobUIDs : processReadyJobs(i, S))
    /\ WF_vars(\E j \in JobUIDs : \E g \in Execs : runJob(i, j, g))
    /\ WF_vars(\E j \in JobUIDs : skipJob(i, j, "ok"))
    /\ WF_vars(CancelUpdate(i, "ok"))
    /\ WF_vars(CancelSignal(i))
    /\ WF_vars(\E j \in JobUIDs : handleCancelJob(i, j))

ExecFairness(g) ==
    /\ WF_vars(doExec(g))
    /\ WF_vars(\E err \in BOOLEAN : HandlerReturns(g, err))
    /\ SF_vars(PurgeHandle(g))
    /\ SF_vars(OverdueHandle(g))
    /\ WF_vars(\E j \in JobUIDs : Reclaim(g, j) \/ ReclaimFails(g, j, "ok"))
    /\ SF_vars(FindExecuted(g))
    /\ WF_vars(UpdateExecuted(g, "ok"))

TimeFairness ==
    /\ \A j \in JobUIDs : WF_vars(BecomesDue(j)) /\ WF_vars(DeadlinePasses(j))
    /\ WF_vars(~InSection(lock) /\ LeaseExpires)

FairSpec ==
    /\ Spec
    /\ \A i \in Instances : ProcessFairness(i)
    /\ \A g \in Execs : ExecFairness(g)
    /\ TimeFairness
-----------------------------------------------------------------------------
(***************************************************************************)
(* Properties                                                              *)
(***************************************************************************)

\* The table never shows more running jobs than the configured limit, however
\* many instances pick jobs: availableSlots is read and the rows are updated
\* under one lock. Not so when a lease runs out in the middle of a batch.
RunningWithinLimit == CountRunning <= Slots

\* A user job is executed at most MaxRetries + 1 times by its own counters,
\* whatever the executions, the overdue job and stale updates do to its row.
AttemptsBounded ==
    \A j \in UserJobs : Exists(j) => jobs[j].total <= MaxRetries[j] + 1

\* The built-in jobs never end: once created, each is scheduled or running. No
\* cancel, failure or purge takes a recurring job out of the schedule.
RecurringStays ==
    [][\A j \in Recurring :
          InState(j, "scheduled") \/ InState(j, "running")
            => (InState(j, "scheduled") \/ InState(j, "running"))']_vars

\* A completed job stays as it is until it is purged, except that a canceled
\* job whose handler succeeds nonetheless becomes finished. In particular a
\* canceled or finished job is never executed again by a late retry.
CompletedIsFinal ==
    [][\A j \in UserJobs :
          Exists(j) /\ IsCompleted(jobs[j].state) /\ jobs'[j] # None
            => \/ jobs'[j].state = jobs[j].state
               \/ jobs[j].state = "canceled" /\ jobs'[j].state = "finished"]_vars

\* A row in the running state belongs to a goroutine that has still to update
\* it: short of a crash, a lost update or a failing lock no job hangs.
RunningHasExecution ==
    \A j \in JobUIDs : InState(j, "running") =>
        \E g \in Execs : exec[g].pc # "free" /\ exec[g].uid = j

\* A goroutine that is registered for cancellation is the one that executes
\* the UID on that instance: a cancel call stops the right one.
CancelMapExact ==
    \A i \in Instances, j \in JobUIDs :
        {g \in Execs : exec[g].inst = i /\ exec[g].uid = j
                         /\ exec[g].pc \in {"handler", "reclaim"}}
          = IF cancelJobMap[i][j] = None THEN {} ELSE {cancelJobMap[i][j]}

Orphaned(j) == InState(j, "running") /\ \A g \in Execs : exec[g].uid # j

\* Every job that is created ends: finished, failed, canceled or purged, also
\* across a crash, unless the crash hit the overdue job itself: its row stays
\* running and nobody reclaims it.
EveryJobCompletes ==
    \A j \in UserJobs :
        Exists(j) ~> (~Exists(j) \/ IsCompleted(jobs[j].state) \/ Orphaned(Overdue))

\* What the overdue job is for: a job left running by a server that
\* terminated is reclaimed in the end. The overdue job needs a free slot to
\* do so: not if the crash left as many jobs running as there are slots.
OrphansReclaimed ==
    \A j \in UserJobs : Orphaned(j) ~> (~Orphaned(j) \/ Orphaned(Overdue))
=============================================================================
