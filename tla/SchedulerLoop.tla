---------------------------- MODULE SchedulerLoop ----------------------------
(***************************************************************************)
(* The wake-up mechanism of the job scheduler on one server instance: the  *)
(* loop of Scheduler.Run, its "edgy" timer (src/job/timer.go), the signal  *)
(* channel and the goroutines of scheduleProcessing that send on it.       *)
(*                                                                         *)
(* JobScheduler lets the loop run at any moment. Here time is a number and *)
(* the question is whether the loop runs when it has to: rows are reduced  *)
(* to state and scheduled time, the rest of a job is left to JobScheduler. *)
(* All steps of a row update that JobScheduler interleaves happen at once. *)
(* timerMinDur, one nanosecond, is no time at all.                         *)
(***************************************************************************)
EXTENDS Integers, FiniteSets, FiniteSetsExt

CONSTANTS
    UserJobs,      \* jobs that RunJob creates while the loop runs
    Recurring,     \* jobs registered before Run
    Orphans,       \* jobs another instance left running
    maxRunning,    \* limit of running jobs, at least 1
    Period,        \* one minute
    timerMaxDur,   \* 30 minutes
    RetryDelay,    \* from a failure to the retry
    CronDelay,     \* from the end of a recurring job to its next execution
    MaxTime,       \* bound: last point in time
    FaultModes     \* sets of {"lock", "db", "delete", "panic"}: what may go wrong

ASSUME LoopAssumption ==
    /\ IsFiniteSet(UserJobs \cup Recurring \cup Orphans)
    /\ \A d \in {maxRunning, Period, timerMaxDur, RetryDelay, CronDelay, MaxTime} : d \in Nat \ {0}
    /\ FaultModes \subseteq SUBSET {"lock", "db", "delete", "panic"}

Jobs == UserJobs \cup Recurring \cup Orphans

\* The zero value of time.Time; the clock starts at 1.
Zero == 0
Time == Nat

VARIABLES
    now,     \* the clock
    rows,    \* the jobs table: state and scheduled time
    exec,    \* jobs whose goroutine runs on this instance
    senders, \* times that goroutines of scheduleProcessing are about to send
    signal,  \* the buffered signal channel: at most one time
    timer,   \* the schedulerTimer and the time.Timer in it
    loop,    \* where Run is, and the local variables of processReadyJobs
    faults   \* what may go wrong in this behaviour

vars == <<now, rows, exec, senders, signal, timer, loop, faults>>

Row == [state: {"none", "scheduled", "running", "done"}, at: Time]

\* armed: runs, fires at .at; fired: the tick is in the channel; idle: neither.
Timer == [at: Time, edgy: BOOLEAN, pc: {"armed", "fired", "idle"}, tick: Time]

Loop == [pc: {"select", "list", "next", "start", "stopped"},
         now: Time, jobs: SUBSET Jobs, gotAllJobs: BOOLEAN, nextExec: Time]

AtSelect == [pc |-> "select", now |-> Zero, jobs |-> {}, gotAllJobs |-> FALSE, nextExec |-> Zero]

TypeOK ==
    /\ now \in Time
    /\ rows \in [Jobs -> Row]
    /\ exec \subseteq Jobs
    /\ senders \subseteq (Jobs \X Time)
    /\ signal \subseteq Time /\ Cardinality(signal) <= 1
    /\ timer \in Timer
    /\ loop \in Loop
    /\ faults \in FaultModes

newSchedulerTimer == [at |-> now, edgy |-> FALSE, pc |-> "armed", tick |-> Zero]

\* Run has registered the recurring jobs and starts its loop.
Init ==
    /\ now = 1
    /\ rows = [j \in Jobs |->
                 CASE j \in UserJobs -> [state |-> "none", at |-> Zero]
                   [] j \in Recurring -> [state |-> "scheduled", at |-> now + CronDelay]
                   [] j \in Orphans -> [state |-> "running", at |-> now]]
    /\ exec = {}
    /\ senders = {}
    /\ signal = {}
    /\ timer = newSchedulerTimer
    /\ loop = AtSelect
    /\ faults \in FaultModes

Scheduled(j) == rows[j].state = "scheduled"
RunningRows == {j \in Jobs : rows[j].state = "running"}
\* processReadyJobs, CancelJob, runJob and the overdue job share one lock.
LockFree == loop.pc \in {"select", "stopped"}

Ready(t) == {j \in Jobs : Scheduled(j) /\ rows[j].at <= t}

\* Variant: one slot is never used.
availableSlotsBelow == Max({0, maxRunning - 1 - Cardinality(RunningRows)})

availableSlots == Max({0, maxRunning - Cardinality(RunningRows)})
-----------------------------------------------------------------------------
(***************************************************************************)
(* The timer                                                               *)
(***************************************************************************)

\* t.Stop(); t.timerAt = at; t.timer.Reset(): a tick in the channel is lost.
Armed(at, edgy) == [at |-> at, edgy |-> edgy, pc |-> "armed", tick |-> Zero]

\* Variant: a time in the past leaves the timer where it was.
resetAtFuture(next, edgy) ==
    IF next <= now THEN timer ELSE Armed(Min({next, now + timerMaxDur}), edgy)

resetAt(next, edgy) == Armed(Max({now, Min({next, now + timerMaxDur})}), edgy)

\* The edgy flag stays as it is until the next resetAt.
rescheduleEarlier(next) ==
    IF timer.edgy THEN Armed(now, TRUE)
    ELSE IF next # Zero /\ next < timer.at THEN Armed(Max({next, now}), FALSE)
    ELSE timer

Fire ==
    /\ timer.pc = "armed"
    /\ timer.at <= now
    /\ timer' = [timer EXCEPT !.pc = "fired", !.tick = now]
    /\ UNCHANGED <<faults, now, rows, exec, senders, signal, loop>>

Clock ==
    /\ now < MaxTime
    /\ now' = now + 1
    /\ UNCHANGED <<faults, rows, exec, senders, signal, timer, loop>>
-----------------------------------------------------------------------------
(***************************************************************************)
(* The loop of Run                                                         *)
(***************************************************************************)

\* case newTime := <-s.signal
ReceiveSignal ==
    /\ loop.pc = "select"
    /\ \E t \in signal : timer' = rescheduleEarlier(t)
    /\ signal' = {}
    /\ UNCHANGED <<faults, now, rows, exec, senders, loop>>

\* case now := <-timer.Ch(): the value is the time at which the timer fired.
ReceiveTick ==
    /\ loop.pc = "select"
    /\ timer.pc = "fired"
    /\ timer' = [timer EXCEPT !.pc = "idle", !.tick = Zero]
    /\ loop' = [AtSelect EXCEPT !.pc = "list", !.now = timer.tick]
    /\ UNCHANGED <<faults, now, rows, exec, senders, signal>>

\* processReadyJobs has returned: the timer is reset.
Rearm(nextExec, gotAllJobs) ==
    /\ timer' = resetAt(IF nextExec = Zero THEN loop.now + Period ELSE nextExec, ~gotAllJobs)
    /\ loop' = AtSelect

\* Under the lock: count the free slots, list one row more than that.
ListReady ==
    /\ loop.pc = "list"
    /\ LET ready == Ready(loop.now)
           all == Cardinality(ready) <= availableSlots
       IN \E S \in SUBSET ready :
            /\ Cardinality(S) = Min({Cardinality(ready), availableSlots})
            /\ loop' = [loop EXCEPT !.pc = IF all THEN "next" ELSE "start",
                                    !.jobs = S, !.gotAllJobs = all]
    /\ UNCHANGED <<faults, now, rows, exec, senders, signal, timer>>

NextScheduledTime(t) ==
    LET later == {rows[j].at : j \in {k \in Jobs : Scheduled(k) /\ rows[k].at > t}}
    IN IF later = {} THEN Zero ELSE Min(later)

ReadNext ==
    /\ loop.pc = "next"
    /\ loop' = [loop EXCEPT !.pc = "start", !.nextExec = NextScheduledTime(loop.now)]
    /\ UNCHANGED <<faults, now, rows, exec, senders, signal, timer>>

\* Taking the lock or a query fails: processReadyJobs returns its zero values.
ProcessFails ==
    /\ \/ loop.pc = "list" /\ faults \cap {"lock", "db"} # {}
       \/ loop.pc = "next" /\ "db" \in faults
    /\ Rearm(Zero, FALSE)
    /\ UNCHANGED <<faults, now, rows, exec, senders, signal>>

\* The row is marked as running, whatever it has become since it was listed.
StartJob(j) ==
    /\ loop.pc = "start"
    /\ j \in loop.jobs
    /\ rows[j].state # "none"
    /\ rows' = [rows EXCEPT ![j].state = "running"]
    /\ exec' = exec \cup {j}
    /\ loop' = [loop EXCEPT !.jobs = @ \ {j}]
    /\ UNCHANGED <<faults, now, senders, signal, timer>>

\* UpdateExecution fails, because the row is gone or for another reason.
SkipJob(j) ==
    /\ loop.pc = "start"
    /\ j \in loop.jobs
    /\ rows[j].state = "none" \/ "db" \in faults
    /\ loop' = [loop EXCEPT !.jobs = @ \ {j}, !.gotAllJobs = FALSE, !.nextExec = Zero]
    /\ UNCHANGED <<faults, now, rows, exec, senders, signal, timer>>

ResetTimer ==
    /\ loop.pc = "start"
    /\ loop.jobs = {}
    /\ Rearm(loop.nextExec, loop.gotAllJobs)
    /\ UNCHANGED <<faults, now, rows, exec, senders, signal>>

\* processReadyJobs panics: recover() logs it and the loop goes on.
Panic ==
    /\ "panic" \in faults
    /\ loop.pc \in {"list", "next", "start"}
    /\ loop' = AtSelect
    /\ UNCHANGED <<faults, now, rows, exec, senders, signal, timer>>

\* ctx.Done(): the timer is stopped, the done channel is closed and every
\* goroutine of scheduleProcessing ends.
Stop ==
    /\ loop.pc = "select"
    /\ loop' = [AtSelect EXCEPT !.pc = "stopped"]
    /\ timer' = [at |-> Zero, edgy |-> timer.edgy, pc |-> "idle", tick |-> Zero]
    /\ senders' = {}
    /\ UNCHANGED <<faults, now, rows, exec, signal>>
-----------------------------------------------------------------------------
(***************************************************************************)
(* The other goroutines                                                    *)
(***************************************************************************)

\* A goroutine is left that sends t, unless Run is over.
scheduleProcessing(j, t) ==
    senders' = IF loop.pc = "stopped" THEN {} ELSE senders \cup {<<j, t>>}

\* Variant: the channel holds any number of times.
SendUnlimited(s) ==
    /\ s \in senders
    /\ loop.pc # "stopped"
    /\ signal' = signal \cup {s[2]}
    /\ senders' = senders \ {s}
    /\ UNCHANGED <<faults, now, rows, exec, timer, loop>>

Send(s) ==
    /\ s \in senders
    /\ signal = {}
    /\ loop.pc # "stopped"
    /\ signal' = {s[2]}
    /\ senders' = senders \ {s}
    /\ UNCHANGED <<faults, now, rows, exec, timer, loop>>

RunJob(j) ==
    /\ j \in UserJobs
    /\ rows[j] = [state |-> "none", at |-> Zero]
    /\ rows' = [rows EXCEPT ![j] = [state |-> "scheduled", at |-> now]]
    /\ scheduleProcessing(j, now)
    /\ UNCHANGED <<faults, now, exec, signal, timer, loop>>

\* RunJobs gives up at a row it cannot create: those before it have no signal.
RunJobsFails(j) ==
    /\ "db" \in faults
    /\ j \in UserJobs
    /\ rows[j] = [state |-> "none", at |-> Zero]
    /\ rows' = [rows EXCEPT ![j] = [state |-> "scheduled", at |-> now]]
    /\ UNCHANGED <<faults, now, exec, senders, signal, timer, loop>>

CancelJob(j) ==
    /\ LockFree
    /\ j \notin Recurring
    /\ rows[j].state \in {"scheduled", "running"}
    /\ rows' = [rows EXCEPT ![j].state = "done"]
    /\ UNCHANGED <<faults, now, exec, senders, signal, timer, loop>>

\* The UID can not be used again: at keeps the time, see RunJob.
PurgeJobByUID(j) ==
    /\ "delete" \in faults
    /\ rows[j].at # Zero
    /\ rows' = [rows EXCEPT ![j].state = "none"]
    /\ UNCHANGED <<faults, now, exec, senders, signal, timer, loop>>

\* What postExec makes of a row: the end or another execution.
Completed(j) == [rows[j] EXCEPT !.state = "done"]
Rescheduled(j) ==
    [state |-> "scheduled", at |-> now + (IF j \in Recurring THEN CronDelay ELSE RetryDelay)]

postExec(j) ==
    IF rows[j].state = "done" THEN {rows[j]}
    ELSE IF j \in Recurring THEN {Rescheduled(j)}
    ELSE {Completed(j), Rescheduled(j)}

\* Variant: only a rescheduled job wakes the loop.
FinishJobQuietly(j) ==
    /\ j \in exec
    /\ LockFree \/ "lock" \in faults
    /\ exec' = exec \ {j}
    /\ rows[j].state # "none"
    /\ \E r \in postExec(j) :
          /\ rows' = [rows EXCEPT ![j] = r]
          /\ IF r.state = "scheduled" THEN scheduleProcessing(j, r.at) ELSE senders' = senders
    /\ UNCHANGED <<faults, now, signal, timer, loop>>

\* The goroutine of runJob ends: it updates the row and wakes the loop.
FinishJob(j) ==
    /\ j \in exec
    /\ LockFree \/ "lock" \in faults
    /\ exec' = exec \ {j}
    /\ rows[j].state # "none"
    /\ \E r \in postExec(j) :
          /\ rows' = [rows EXCEPT ![j] = r]
          /\ scheduleProcessing(j, IF r.state = "scheduled" THEN r.at ELSE Zero)
    /\ UNCHANGED <<faults, now, signal, timer, loop>>

\* The row is gone or can not be updated: the goroutine just returns.
FinishJobFails(j) ==
    /\ j \in exec
    /\ LockFree \/ "lock" \in faults
    /\ rows[j].state = "none" \/ "db" \in faults
    /\ exec' = exec \ {j}
    /\ UNCHANGED <<faults, now, rows, senders, signal, timer, loop>>

\* The handler of the overdue job, which is executed by this instance.
Overdue(o, j) ==
    /\ LockFree
    /\ o \in Recurring \cap exec
    /\ j \in Orphans
    /\ rows[j].state = "running" /\ j \notin exec
    /\ \E r \in postExec(j) :
          /\ rows' = [rows EXCEPT ![j] = r]
          /\ IF r.state = "scheduled" THEN scheduleProcessing(j, r.at) ELSE senders' = senders
    /\ UNCHANGED <<faults, now, exec, signal, timer, loop>>
-----------------------------------------------------------------------------
LoopStep ==
    ReceiveSignal \/ ReceiveTick \/ ListReady \/ ReadNext \/ ResetTimer
      \/ \E j \in Jobs : StartJob(j) \/ SkipJob(j)

Next ==
    \/ Fire \/ Clock \/ LoopStep \/ ProcessFails \/ Panic \/ Stop
    \/ \E s \in senders : Send(s)
    \/ \E j \in Jobs : \/ RunJob(j) \/ RunJobsFails(j) \/ CancelJob(j) \/ PurgeJobByUID(j)
                       \/ FinishJob(j) \/ FinishJobFails(j)
    \/ \E o \in Recurring, j \in Orphans : Overdue(o, j)

Spec == Init /\ [][Next]_vars

\* Goroutines and timers are scheduled, handlers return.
FairSpec ==
    /\ Spec
    /\ WF_vars(Fire) /\ WF_vars(Clock) /\ WF_vars(LoopStep)
    /\ WF_vars(\E s \in senders : Send(s))
    /\ \A j \in Jobs : SF_vars(FinishJob(j) \/ FinishJobFails(j))
-----------------------------------------------------------------------------
(***************************************************************************)
(* Properties                                                              *)
(***************************************************************************)

\* Whenever Run waits in its select the timer runs or its tick is there, and
\* it fires within timerMaxDur: the loop never depends on a signal to go on,
\* whichever call fails. Not so when processReadyJobs panics: recover() skips
\* ResetAt, and RescheduleEarlier finds every new time later than the old one.
TimerRuns ==
    loop.pc = "select" /\ "panic" \notin faults =>
        timer.pc # "idle" /\ timer.at <= now + timerMaxDur

\* The times that are on their way to RescheduleEarlier.
Pending == signal \cup {s[2] : s \in senders}

\* A job that could start does not wait for a timer that is set for later than
\* its scheduled time, unless a signal that will move the timer is on its way
\* or, when the last pass ran out of slots, a goroutine that will send one is
\* still running. This is what scheduleProcessing and the edgy flag are for.
\* Only the end of an execution of another instance goes by unnoticed, and a
\* call that fails: the loop then comes back as TimerRuns says.
WakesInTime ==
    loop.pc = "select" /\ availableSlots > 0 /\ faults = {} =>
        \A j \in Jobs : Scheduled(j) =>
            \/ timer.at <= Max({rows[j].at, now})
            \/ timer.edgy /\ (Pending # {} \/ exec # {})
            \/ timer.edgy /\ \E o \in Orphans : rows[o].state = "done"
            \/ \E t \in Pending : t # Zero /\ t <= rows[j].at

\* A scheduled job whose time comes is started or canceled, unless Run ends
\* or the calls of the loop fail.
ReadyJobStarts ==
    \A j \in Jobs :
        Scheduled(j) /\ rows[j].at <= MaxTime
            ~> (~Scheduled(j) \/ loop.pc = "stopped" \/ faults # {})
=============================================================================
