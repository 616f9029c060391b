------------------------- MODULE SchedulerLoopProofs -------------------------
(***************************************************************************)
(* The loop of Run never sleeps for too long: TimerRuns under every fault   *)
(* and WakesInTime without faults, for any jobs, durations and limit.       *)
(***************************************************************************)
EXTENDS SchedulerLoop, FiniteSetTheorems, WellFoundedInduction, TLAPS

-----------------------------------------------------------------------------
(* Minima and maxima. *)

LEMMA MaxOfTwo ==
    ASSUME NEW a \in Int, NEW b \in Int
    PROVE  Max({a, b}) \in {a, b} /\ Max({a, b}) >= a /\ Max({a, b}) >= b
<1>1. \E x \in {a, b} : \A y \in {a, b} : x >= y
  OBVIOUS
<1>2. Max({a, b}) \in {a, b} /\ \A y \in {a, b} : Max({a, b}) >= y
  BY <1>1, Zenon DEF Max
<1> QED BY <1>2, Zenon

LEMMA MinOfTwo ==
    ASSUME NEW a \in Int, NEW b \in Int
    PROVE  Min({a, b}) \in {a, b} /\ Min({a, b}) <= a /\ Min({a, b}) <= b
<1>1. \E x \in {a, b} : \A y \in {a, b} : x <= y
  OBVIOUS
<1>2. Min({a, b}) \in {a, b} /\ \A y \in {a, b} : Min({a, b}) <= y
  BY <1>1, Zenon DEF Min
<1> QED BY <1>2, Zenon

LEMMA LessThan == OpToRel(<, Nat) = {ss \in Nat \X Nat : ss[1] < ss[2]}
BY Zenon DEF OpToRel

\* NextScheduledTime takes the minimum of a set of times.
LEMMA MinOfTimes ==
    ASSUME NEW S \in SUBSET Nat, S # {}
    PROVE  Min(S) \in S /\ \A y \in S : Min(S) <= y
<1> DEFINE R == {ss \in Nat \X Nat : ss[1] < ss[2]}
<1>1. IsWellFoundedOn(R, Nat)
  BY NatLessThanWellFounded, LessThan, Zenon
<1>2. PICK x \in S : \A y \in S : <<y, x>> \notin R
  <2> HIDE DEF R
  <2> QED BY <1>1, WFMin, Zenon
<1>3. ASSUME NEW y \in S PROVE x <= y
  <2>1. <<y, x>> \notin R /\ <<y, x>> \in Nat \X Nat
    BY <1>2, Zenon
  <2> QED BY <2>1
<1>4. \E z \in S : \A y \in S : z <= y
  BY <1>3, Zenon
<1> QED BY <1>4, Zenon DEF Min

-----------------------------------------------------------------------------
(* Types, and that the timer runs while the loop waits. *)

\* The clock is past the zero time, and the channel holds one time.
Types ==
    /\ now \in Nat \ {0}
    /\ rows \in [Jobs -> Row]
    /\ exec \in SUBSET Jobs
    /\ senders \in SUBSET (Jobs \X Nat)
    /\ signal \in SUBSET Nat
    /\ \A s, t \in signal : s = t
    /\ timer \in Timer
    /\ loop \in Loop
    /\ faults \in FaultModes

\* The durations are numbers.
LEMMA Durations ==
    /\ maxRunning \in Nat \ {0} /\ Period \in Nat \ {0} /\ timerMaxDur \in Nat \ {0}
    /\ RetryDelay \in Nat \ {0} /\ CronDelay \in Nat \ {0} /\ MaxTime \in Nat \ {0}
    /\ IsFiniteSet(Jobs)
  BY LoopAssumption, Zenon DEF Jobs

\* A timer that was reset runs, for timerMaxDur at most, and not past the time asked for.
LEMMA ResetRuns ==
    ASSUME Types, NEW next \in Nat, NEW edgy \in BOOLEAN
    PROVE  /\ resetAt(next, edgy) \in Timer
           /\ resetAt(next, edgy).pc = "armed"
           /\ resetAt(next, edgy).edgy = edgy
           /\ resetAt(next, edgy).at <= now + timerMaxDur
           /\ resetAt(next, edgy).at <= next \/ resetAt(next, edgy).at <= now
<1> PICK limit \in Nat : limit = now + timerMaxDur
  BY Durations DEF Types
<1> PICK soon : soon = Min({next, limit})
  BY Zenon
<1>1. soon \in {next, limit} /\ soon <= next /\ soon <= limit
  <2>1. next \in Int /\ limit \in Int
    OBVIOUS
  <2> QED BY <2>1, MinOfTwo, Zenon
<1> PICK at : at = Max({now, soon})
  BY Zenon
<1>2. at \in {now, soon}
  <2>1. now \in Int /\ soon \in Int
    BY <1>1 DEF Types
  <2> QED BY <2>1, MaxOfTwo, Zenon
<1>3. resetAt(next, edgy) = [at |-> at, edgy |-> edgy, pc |-> "armed", tick |-> 0]
  BY Zenon DEF resetAt, Armed, Zero
<1>4. at \in Nat /\ at <= limit /\ (at <= next \/ at <= now)
  BY <1>1, <1>2, Durations DEF Types
<1> QED BY <1>3, <1>4 DEF Timer, Time

\* A signal leaves the timer running, and moves it to an earlier time only.
LEMMA SignalRuns ==
    ASSUME Types, NEW next \in Nat
    PROVE  LET t == rescheduleEarlier(next)
           IN  /\ t \in Timer
               /\ t.edgy = timer.edgy
               /\ t = timer \/ (t.pc = "armed" /\ (t.at <= now \/ t.at <= timer.at))
               /\ timer.edgy => t.at <= now
               /\ next # 0 => t.at <= next \/ t.at <= now
<1> PICK at : at = Max({next, now})
  BY Zenon
<1>1. at \in {next, now}
  <2>1. now \in Int /\ next \in Int
    BY DEF Types
  <2> QED BY <2>1, MaxOfTwo, Zenon
<1>2. timer \in Timer /\ now \in Nat
  BY Zenon DEF Types
<1>3. rescheduleEarlier(next) =
         IF timer.edgy THEN [at |-> now, edgy |-> TRUE, pc |-> "armed", tick |-> 0]
         ELSE IF next # 0 /\ next < timer.at
         THEN [at |-> at, edgy |-> FALSE, pc |-> "armed", tick |-> 0] ELSE timer
  BY Zenon DEF rescheduleEarlier, Armed, Zero
<1>4. CASE timer.edgy
  BY <1>2, <1>3, <1>4 DEF Timer, Time
<1>5. CASE ~timer.edgy /\ next # 0 /\ next < timer.at
  <2>1. rescheduleEarlier(next) = [at |-> at, edgy |-> FALSE, pc |-> "armed", tick |-> 0]
    BY <1>3, <1>5, Zenon
  <2>2. timer.at \in Nat /\ timer.edgy = FALSE
    BY <1>2, <1>5, Zenon DEF Timer, Time
  <2>3. at \in Nat /\ (at <= now \/ at <= timer.at) /\ (at <= next \/ at <= now)
    BY <1>1, <1>2, <1>5, <2>2
  <2> PICK t : t = rescheduleEarlier(next)
    BY Zenon
  <2>4. t \in Timer /\ t.edgy = FALSE /\ t.pc = "armed" /\ t.at = at
    BY <2>1, <2>3 DEF Timer, Time
  <2> QED BY <1>5, <2>2, <2>3, <2>4, Zenon
<1>6. CASE ~timer.edgy /\ ~(next # 0 /\ next < timer.at)
  <2>1. rescheduleEarlier(next) = timer
    BY <1>3, <1>6, Zenon
  <2>2. timer.at \in Nat
    BY <1>2, Zenon DEF Timer, Time
  <2>3. next # 0 => timer.at <= next
    BY <1>6, <2>2
  <2> QED BY <1>2, <1>6, <2>1, <2>3, Zenon
<1> QED BY <1>2, <1>4, <1>5, <1>6, Zenon DEF Timer

\* Steps that leave timer and loop alone.
LEMMA OthersTypes ==
    ASSUME Types, TimerRuns, UNCHANGED <<timer, loop, faults>>, now' \in {now, now + 1},
           rows' \in [Jobs -> Row], exec' \in SUBSET Jobs,
           senders' \in SUBSET (Jobs \X Nat),
           signal' = signal \/ \E t \in Nat : signal' = {t}
    PROVE  Types' /\ TimerRuns'
<1>1. Types'
  <2>1. signal' \in SUBSET Nat /\ \A s, t \in signal' : s = t
    <3>1. CASE signal' = signal
      BY <3>1, Zenon DEF Types
    <3>2. CASE \E t \in Nat : signal' = {t}
      BY <3>2, Zenon
    <3> QED BY <3>1, <3>2, Zenon
  <2>2. now' \in Nat \ {0}
    BY DEF Types
  <2> QED BY <2>1, <2>2, Zenon DEF Types
<1>2. timer.at \in Nat /\ now \in Nat /\ timerMaxDur \in Nat
  BY Durations, Zenon DEF Types, Timer, Time
<1> QED BY <1>1, <1>2 DEF TimerRuns

\* Rows that the actions write.
LEMMA NewRows ==
    ASSUME Types, NEW j \in Jobs
    PROVE  /\ \A r \in Row : [rows EXCEPT ![j] = r] \in [Jobs -> Row]
           /\ \A st \in {"none", "scheduled", "running", "done"} :
                 [rows EXCEPT ![j].state = st] \in [Jobs -> Row]
           /\ [state |-> "scheduled", at |-> now] \in Row
           /\ postExec(j) \subseteq Row
           /\ \A r \in postExec(j) : r.at \in Nat
<1>1. rows[j] \in Row /\ now \in Nat
  BY Zenon DEF Types
<1>2. \A st \in {"none", "scheduled", "running", "done"} : [rows[j] EXCEPT !.state = st] \in Row
  BY <1>1, Zenon DEF Row
<1>3. Completed(j) \in Row
  BY <1>2, Zenon DEF Completed
<1>4. Rescheduled(j) \in Row
  <2> PICK at \in Nat : at = now + (IF j \in Recurring THEN CronDelay ELSE RetryDelay)
    BY <1>1, Durations
  <2> QED BY Zenon DEF Rescheduled, Row, Time
<1>5. postExec(j) \subseteq Row
  BY <1>1, <1>3, <1>4, Zenon DEF postExec
<1>6. \A r \in Row : r.at \in Nat
  BY Zenon DEF Row, Time
<1> QED BY <1>1, <1>2, <1>5, <1>6, Zenon DEF Types, Row, Time

LEMMA SendersKept ==
    ASSUME Types, NEW j \in Jobs, NEW t \in Nat, scheduleProcessing(j, t)
    PROVE  senders' \in SUBSET (Jobs \X Nat)
  BY DEF Types, scheduleProcessing

-----------------------------------------------------------------------------
\* NextScheduledTime is zero, when nothing is scheduled for later, or the earliest of
\* the later times.
LEMMA NextIsTime ==
    ASSUME Types, NEW t \in Nat
    PROVE  /\ NextScheduledTime(t) \in Nat
           /\ \A j \in Jobs : Scheduled(j) /\ rows[j].at > t =>
                 NextScheduledTime(t) # 0 /\ NextScheduledTime(t) <= rows[j].at
<1> DEFINE later == {rows[j].at : j \in {k \in Jobs : Scheduled(k) /\ rows[k].at > t}}
<1>1. \A j \in Jobs : rows[j].at \in Nat
  BY Zenon DEF Types, Row, Time
<1>2. later \in SUBSET Nat /\ \A n \in later : n > t
  BY <1>1, Zenon
<1>3. NextScheduledTime(t) = IF later = {} THEN 0 ELSE Min(later)
  BY Zenon DEF NextScheduledTime, Zero
<1>4. \A j \in Jobs : Scheduled(j) /\ rows[j].at > t => rows[j].at \in later
  BY Zenon
<1> HIDE DEF later
<1>5. CASE later = {}
  BY <1>3, <1>4, <1>5
<1>6. CASE later # {}
  <2>1. Min(later) \in later /\ \A y \in later : Min(later) <= y
    BY <1>2, <1>6, MinOfTimes, Zenon
  <2>2. NextScheduledTime(t) = Min(later)
    BY <1>3, <1>6, Zenon
  <2>3. Min(later) \in Nat /\ Min(later) > t
    BY <1>2, <2>1, Zenon
  <2> QED BY <1>4, <2>1, <2>2, <2>3
<1> QED BY <1>5, <1>6, Zenon

\* Steps of the loop that leave its timer alone do not wait in the select.
LEMMA PassTypes ==
    ASSUME Types, UNCHANGED <<now, senders, signal, timer, faults>>,
           rows' \in [Jobs -> Row], exec' \in SUBSET Jobs, loop' \in Loop,
           loop'.pc # "select" \/ "panic" \in faults
    PROVE  Types' /\ TimerRuns'
  BY Zenon DEF Types, TimerRuns

\* processReadyJobs returns and the timer is reset.
LEMMA RearmTypes ==
    ASSUME Types, NEW next \in Nat, NEW got \in BOOLEAN, Rearm(next, got),
           UNCHANGED <<now, rows, exec, senders, signal, faults>>
    PROVE  Types' /\ TimerRuns'
<1>1. PICK at \in Nat : at = IF next = Zero THEN loop.now + Period ELSE next
  BY Durations DEF Types, Loop, Time
<1>2. timer' = resetAt(at, ~got)
  BY <1>1, Zenon DEF Rearm
<1>3. timer' \in Timer /\ timer'.pc = "armed" /\ timer'.at <= now + timerMaxDur
  BY <1>2, ResetRuns, Zenon
<1>4. loop' \in Loop
  BY Zenon DEF Rearm, AtSelect, Loop, Time, Zero
<1> QED BY <1>3, <1>4, Zenon DEF Types, TimerRuns

LEMMA InitTypes == Init => Types /\ TimerRuns
<1> SUFFICES ASSUME Init PROVE Types /\ TimerRuns
  BY Zenon
<1>1. rows \in [Jobs -> Row]
  BY Durations DEF Init, Jobs, Row, Time, Zero
<1>2. timer \in Timer /\ timer.pc = "armed" /\ timer.at = now /\ now = 1
  BY Zenon DEF Init, newSchedulerTimer, Timer, Time, Zero
<1>3. loop \in Loop
  BY Zenon DEF Init, AtSelect, Loop, Time, Zero
<1>4. timer.at <= now + timerMaxDur /\ timer.pc # "idle"
  BY <1>2, Durations
<1>5. exec = {} /\ senders = {} /\ signal = {} /\ faults \in FaultModes
  BY Zenon DEF Init
<1> QED BY <1>1, <1>2, <1>3, <1>4, <1>5 DEF Types, TimerRuns

LEMMA StepTypes == Types /\ TimerRuns /\ [Next]_vars => Types' /\ TimerRuns'
<1> SUFFICES ASSUME Types, TimerRuns, [Next]_vars PROVE Types' /\ TimerRuns'
  BY Zenon
<1>0. /\ rows \in [Jobs -> Row] /\ exec \in SUBSET Jobs /\ senders \in SUBSET (Jobs \X Nat)
      /\ now \in Nat /\ timer \in Timer /\ loop \in Loop /\ signal \in SUBSET Nat
  BY Zenon DEF Types
<1>1. CASE Fire
  <2>1. timer' \in Timer /\ timer'.pc = "fired" /\ timer'.at = timer.at
    BY <1>0, <1>1, Zenon DEF Fire, Timer, Time
  <2> QED BY <1>1, <2>1, Zenon DEF Fire, Types, TimerRuns
<1>2. CASE Clock
  BY <1>0, <1>2, OthersTypes, Zenon DEF Clock
<1>3. CASE ReceiveSignal
  <2> PICK t \in signal : timer' = rescheduleEarlier(t)
    BY <1>3, Zenon DEF ReceiveSignal
  <2> PICK at \in Timer : at = timer'
    BY <1>0, SignalRuns, Zenon
  <2>1. at = timer \/ (at.pc = "armed" /\ (at.at <= now \/ at.at <= timer.at))
    BY <1>0, SignalRuns, Zenon
  <2>2. at.at \in Nat /\ timer.at \in Nat
    BY <1>0, Zenon DEF Timer, Time
  <2>3. (at.pc # "idle" /\ at.at <= now + timerMaxDur) \/ "panic" \in faults
    BY <1>0, <1>3, <2>1, <2>2, Durations DEF ReceiveSignal, TimerRuns
  <2> QED BY <1>3, <2>3, Zenon DEF ReceiveSignal, Types, TimerRuns
<1>4. CASE ReceiveTick
  <2>1. timer' \in Timer /\ loop' \in Loop /\ loop'.pc = "list"
    BY <1>0, <1>4, Zenon DEF ReceiveTick, Timer, AtSelect, Loop, Time, Zero
  <2> QED BY <1>4, <2>1, Zenon DEF ReceiveTick, Types, TimerRuns
<1>5. CASE ListReady
  <2> DEFINE ready == Ready(loop.now)
             all == Cardinality(ready) <= availableSlots
  <2>1. ready \subseteq Jobs
    BY Zenon DEF Ready
  <2>2. PICK S \in SUBSET ready :
           loop' = [loop EXCEPT !.pc = IF all THEN "next" ELSE "start", !.jobs = S, !.gotAllJobs = all]
    BY <1>5, Zenon DEF ListReady
  <2>3. loop' \in Loop /\ loop'.pc # "select"
    <3>1. CASE all
      BY <1>0, <2>1, <2>2, <3>1, Zenon DEF Loop
    <3>2. CASE ~all
      <4>1. loop' = [loop EXCEPT !.pc = "start", !.jobs = S, !.gotAllJobs = FALSE]
        <5>1. all = FALSE
          BY <3>2, SMT
        <5> HIDE DEF all
        <5> QED BY <2>2, <5>1, Zenon
      <4> QED BY ONLY <1>0, <2>1, <4>1, S \in SUBSET ready, Zenon DEF Loop
    <3> QED BY <3>1, <3>2, Zenon
  <2> QED BY <1>0, <1>5, <2>3, PassTypes, Zenon DEF ListReady
<1>6. CASE ReadNext
  <2> PICK next \in Nat : next = NextScheduledTime(loop.now)
    BY <1>0, NextIsTime, Zenon DEF Loop, Time
  <2>1. loop' = [loop EXCEPT !.pc = "start", !.nextExec = next]
    BY <1>6, Zenon DEF ReadNext
  <2>2. loop' \in Loop /\ loop'.pc # "select"
    BY <1>0, <2>1, Zenon DEF Loop, Time
  <2> QED BY <1>0, <1>6, <2>2, PassTypes, Zenon DEF ReadNext
<1>7. CASE ProcessFails
  BY <1>7, RearmTypes, Zenon DEF ProcessFails, Zero
<1>8. ASSUME NEW j \in Jobs, StartJob(j) PROVE Types' /\ TimerRuns'
  <2>1. loop' = [loop EXCEPT !.jobs = loop.jobs \ {j}] /\ loop.pc = "start"
    BY <1>8, Zenon DEF StartJob
  <2>2. loop' \in Loop /\ loop'.pc # "select"
    BY <1>0, <2>1, Zenon DEF Loop
  <2>3. rows' \in [Jobs -> Row] /\ exec' \in SUBSET Jobs
    BY <1>0, <1>8, NewRows, Zenon DEF StartJob
  <2> QED BY <1>8, <2>2, <2>3, PassTypes, Zenon DEF StartJob
<1>9. ASSUME NEW j \in Jobs, SkipJob(j) PROVE Types' /\ TimerRuns'
  <2>1. loop' = [loop EXCEPT !.jobs = loop.jobs \ {j}, !.gotAllJobs = FALSE, !.nextExec = 0]
        /\ loop.pc = "start"
    BY <1>9, Zenon DEF SkipJob, Zero
  <2>2. loop' \in Loop /\ loop'.pc # "select"
    BY <1>0, <2>1, Zenon DEF Loop, Time
  <2> QED BY <1>0, <1>9, <2>2, PassTypes, Zenon DEF SkipJob
<1>10. CASE ResetTimer
  <2>1. loop.nextExec \in Nat /\ loop.gotAllJobs \in BOOLEAN
    BY <1>0, Zenon DEF Loop, Time
  <2> QED BY <1>10, <2>1, RearmTypes, Zenon DEF ResetTimer
<1>11. CASE Panic
  <2>1. loop' \in Loop
    BY <1>11, Zenon DEF Panic, AtSelect, Loop, Time, Zero
  <2> QED BY <1>0, <1>11, <2>1, PassTypes, Zenon DEF Panic
<1>12. CASE Stop
  <2>1. loop' \in Loop /\ loop'.pc = "stopped"
    BY <1>12, Zenon DEF Stop, AtSelect, Loop, Time, Zero
  <2>2. timer' \in Timer
    BY <1>0, <1>12, Zenon DEF Stop, Timer, Time, Zero
  <2> QED BY <1>12, <2>1, <2>2, Zenon DEF Stop, Types, TimerRuns
<1>13. ASSUME NEW s \in senders, Send(s) PROVE Types' /\ TimerRuns'
  <2>1. s[2] \in Nat /\ signal' = {s[2]} /\ senders' \in SUBSET (Jobs \X Nat)
    BY <1>0, <1>13, Zenon DEF Send
  <2> QED BY <1>0, <1>13, <2>1, OthersTypes, Zenon DEF Send
<1>14. ASSUME NEW j \in Jobs, RunJob(j) \/ RunJobsFails(j) PROVE Types' /\ TimerRuns'
  <2>1. rows' \in [Jobs -> Row]
    BY <1>14, NewRows, Zenon DEF RunJob, RunJobsFails
  <2>2. senders' \in SUBSET (Jobs \X Nat)
    BY <1>0, <1>14, SendersKept, Zenon DEF RunJob, RunJobsFails
  <2> QED BY <1>0, <1>14, <2>1, <2>2, OthersTypes, Zenon DEF RunJob, RunJobsFails
<1>15. ASSUME NEW j \in Jobs, CancelJob(j) \/ PurgeJobByUID(j) PROVE Types' /\ TimerRuns'
  <2>1. rows' \in [Jobs -> Row]
    <3>1. CASE rows' = [rows EXCEPT ![j].state = "done"]
      BY <3>1, NewRows, Zenon
    <3>2. CASE rows' = [rows EXCEPT ![j].state = "none"]
      BY <3>2, NewRows, Zenon
    <3> QED BY <1>15, <3>1, <3>2, Zenon DEF CancelJob, PurgeJobByUID
  <2> QED BY <1>0, <1>15, <2>1, OthersTypes, Zenon DEF CancelJob, PurgeJobByUID
<1>16. ASSUME NEW j \in Jobs, FinishJob(j) \/ FinishJobFails(j) PROVE Types' /\ TimerRuns'
  <2>1. CASE FinishJob(j)
    <3> PICK r \in postExec(j) : /\ rows' = [rows EXCEPT ![j] = r]
                                 /\ scheduleProcessing(j, IF r.state = "scheduled" THEN r.at ELSE Zero)
      BY <2>1, Zenon DEF FinishJob
    <3>1. rows' \in [Jobs -> Row] /\ r.at \in Nat
      BY NewRows, Zenon
    <3>2. senders' \in SUBSET (Jobs \X Nat)
      BY <3>1, SendersKept, Zenon DEF Zero
    <3> QED BY <1>0, <2>1, <3>1, <3>2, OthersTypes, Zenon DEF FinishJob
  <2>2. CASE FinishJobFails(j)
    BY <1>0, <2>2, OthersTypes, Zenon DEF FinishJobFails
  <2> QED BY <1>16, <2>1, <2>2, Zenon
<1>17. ASSUME NEW o \in Recurring, NEW j \in Orphans, Overdue(o, j) PROVE Types' /\ TimerRuns'
  <2> j \in Jobs
    BY Zenon DEF Jobs
  <2> PICK r \in postExec(j) :
         /\ rows' = [rows EXCEPT ![j] = r]
         /\ IF r.state = "scheduled" THEN scheduleProcessing(j, r.at) ELSE senders' = senders
    BY <1>17, Zenon DEF Overdue
  <2>1. rows' \in [Jobs -> Row] /\ r.at \in Nat
    BY NewRows, Zenon
  <2>2. senders' \in SUBSET (Jobs \X Nat)
    BY <1>0, <2>1, SendersKept, Zenon
  <2> QED BY <1>0, <1>17, <2>1, <2>2, OthersTypes, Zenon DEF Overdue
<1>18. CASE UNCHANGED vars
  BY <1>18, Zenon DEF vars, Types, TimerRuns
<1> QED
  BY <1>1, <1>2, <1>3, <1>4, <1>5, <1>6, <1>7, <1>8, <1>9, <1>10, <1>11, <1>12, <1>13, <1>14,
     <1>15, <1>16, <1>17, <1>18 DEF Next, LoopStep

\* Whenever Run waits its timer runs, for timerMaxDur at most, whichever calls fail.
THEOREM TimerAlwaysRuns == Spec => []TimerRuns
<1>1. Types /\ TimerRuns /\ [Next]_vars => Types' /\ TimerRuns'
  BY StepTypes, Zenon
<1> QED BY <1>1, InitTypes, PTL DEF Spec

\* All variables keep their types; the signal channel never holds two times.
THEOREM LoopTypes == Spec => []TypeOK
<1>1. Types => TypeOK
  <2> SUFFICES ASSUME Types PROVE Cardinality(signal) <= 1
    BY Zenon DEF Types, TypeOK, Time
  <2>1. CASE signal = {}
    BY <2>1, FS_EmptySet
  <2>2. CASE signal # {}
    <3> PICK t \in signal : TRUE
      BY <2>2, Zenon
    <3>1. signal = {t}
      BY Zenon DEF Types
    <3>2. Cardinality({t}) = 1
      BY FS_Singleton, Zenon
    <3> QED BY <3>1, <3>2
  <2> QED BY <2>1, <2>2, Zenon
<1>2. Types /\ TimerRuns /\ [Next]_vars => Types' /\ TimerRuns'
  BY StepTypes, Zenon
<1> QED BY <1>1, <1>2, InitTypes, PTL DEF Spec

-----------------------------------------------------------------------------
(* Without faults the loop wakes in time. *)

\* A signal for the time of j, or an earlier one, is on its way.
Announced(j) == \E t \in Pending : t # Zero /\ t <= rows[j].at

Full == Cardinality(RunningRows) >= maxRunning

\* Rows and goroutines agree: nothing deletes a row, and what runs runs here or is an
\* orphan.
RowsInv ==
    /\ \A j \in exec : rows[j].state # "none"
    /\ \A j \in RunningRows : j \in exec \cup Orphans

\* What is left of WakesInTime when slots are taken: the timer of a pass that got all
\* jobs is in time for every job or will be moved; the timer of one that did not is due,
\* or no slot has become free since, or whoever frees or freed one sends a signal.
SelectInv ==
    /\ ~timer.edgy => \A j \in Jobs : Scheduled(j) =>
          timer.at <= rows[j].at \/ timer.at <= now \/ Announced(j)
    /\ timer.edgy =>
          \/ timer.at <= now \/ Full \/ Pending # {} \/ exec # {}
          \/ \E o \in Orphans : rows[o].state = "done"

\* Between the listing and the query for the next time: a job that was not listed is
\* for later or was created since.
NextInv ==
    /\ loop.gotAllJobs
    /\ \A j \in loop.jobs : Scheduled(j)
    /\ \A j \in Jobs : Scheduled(j) => j \in loop.jobs \/ rows[j].at > loop.now \/ Announced(j)

\* While the listed jobs are started: the next time is not later than that of any other
\* job, or the jobs fill all slots.
StartInv ==
    /\ \A j \in loop.jobs : Scheduled(j)
    /\ loop.gotAllJobs => \A j \in Jobs : Scheduled(j) =>
          j \in loop.jobs \/ (loop.nextExec # 0 /\ loop.nextExec <= rows[j].at) \/ Announced(j)
    /\ ~loop.gotAllJobs => Cardinality(RunningRows) + Cardinality(loop.jobs) >= maxRunning

WakeInv ==
    faults = {} =>
        /\ RowsInv
        /\ loop.pc = "select" => SelectInv
        /\ loop.pc = "next" => NextInv
        /\ loop.pc = "start" => StartInv

IInv == Types /\ TimerRuns /\ WakeInv

\* What the types say of the numbers.
LEMMA Numbers ==
    ASSUME Types
    PROVE  /\ now \in Nat /\ now # 0 /\ timer.at \in Nat /\ timer.edgy \in BOOLEAN
           /\ loop.now \in Nat /\ loop.nextExec \in Nat /\ loop.gotAllJobs \in BOOLEAN
           /\ loop.jobs \subseteq Jobs
           /\ \A j \in Jobs : rows[j].at \in Nat
           /\ Pending \subseteq Nat
<1>1. Pending \subseteq Nat
  BY Zenon DEF Types, Pending
<1>2. timer \in Timer /\ loop \in Loop /\ rows \in [Jobs -> Row] /\ now \in Nat \ {0}
  BY Zenon DEF Types
<1> QED BY <1>1, <1>2, Zenon DEF Timer, Loop, Row, Time

\* The jobs that run and the slots that are left.
LEMMA Slots ==
    /\ IsFiniteSet(RunningRows) /\ Cardinality(RunningRows) \in Nat
    /\ availableSlots \in Nat
    /\ Cardinality(RunningRows) + availableSlots >= maxRunning
    /\ availableSlots > 0 => ~Full
<1>1. IsFiniteSet(RunningRows) /\ Cardinality(RunningRows) \in Nat
  BY Durations, FS_Subset, FS_CardinalityType, Zenon DEF RunningRows
<1> PICK n \in Nat : n = Cardinality(RunningRows)
  BY <1>1, Zenon
<1> PICK left \in Int : left = maxRunning - n
  BY Durations
<1> PICK most : most = Max({0, left})
  BY Zenon
<1>2. most \in {0, left} /\ most >= 0 /\ most >= left
  <2>1. 0 \in Int /\ left \in Int
    OBVIOUS
  <2> QED BY <2>1, MaxOfTwo, Zenon
<1>3. availableSlots = most
  BY Zenon DEF availableSlots
<1> QED BY <1>1, <1>2, <1>3, Durations DEF Full

LEMMA InitWake == Init => WakeInv
<1> SUFFICES ASSUME Init PROVE RowsInv /\ SelectInv /\ loop.pc = "select"
  BY Zenon DEF WakeInv
<1>1. RowsInv
  BY Zenon DEF Init, RowsInv, RunningRows, Jobs
<1>2. timer.at <= now
  BY DEF Init, newSchedulerTimer
<1> QED BY <1>1, <1>2, Zenon DEF Init, SelectInv, AtSelect

\* The steps of the timer, and of the goroutines that only send.
LEMMA TimeWake ==
    ASSUME Types, faults = {}, WakeInv,
           UNCHANGED <<rows, exec, loop, faults>>, Pending' = Pending,
           timer'.at = timer.at, timer'.edgy = timer.edgy, now' \in {now, now + 1}
    PROVE  WakeInv'
<1>1. /\ RowsInv
      /\ loop.pc = "select" => SelectInv
      /\ loop.pc = "next" => NextInv
      /\ loop.pc = "start" => StartInv
  BY Zenon DEF WakeInv
<1>2. timer.at <= now => timer'.at <= now'
  BY Numbers
<1>3. RunningRows' = RunningRows /\ (Full <=> Full')
  BY Zenon DEF RunningRows, Full
<1>4. \A j \in Jobs : /\ Announced(j)' <=> Announced(j)
                      /\ Scheduled(j)' <=> Scheduled(j)
  BY Zenon DEF Announced, Scheduled
<1>5. RowsInv'
  BY <1>1, <1>3, Zenon DEF RowsInv
<1>6. loop.pc = "select" => SelectInv'
  BY <1>1, <1>2, <1>3, <1>4, Zenon DEF SelectInv
<1>7. loop.pc = "next" => NextInv'
  BY <1>1, <1>4, Numbers, Zenon DEF NextInv
<1>8. loop.pc = "start" => StartInv'
  BY <1>1, <1>3, <1>4, Numbers, Zenon DEF StartInv
<1> QED BY <1>5, <1>6, <1>7, <1>8, Zenon DEF WakeInv

LEMMA SignalWake ==
    ASSUME Types, faults = {}, WakeInv, ReceiveSignal
    PROVE  WakeInv'
<1>1. RowsInv /\ SelectInv /\ loop.pc = "select"
  BY Zenon DEF WakeInv, ReceiveSignal
<1> PICK t \in signal : timer' = rescheduleEarlier(t)
  BY Zenon DEF ReceiveSignal
<1>2. t \in Nat /\ signal = {t}
  BY Zenon DEF Types
<1>3. /\ timer'.edgy = timer.edgy
      /\ timer'.at <= now \/ timer'.at <= timer.at
      /\ timer.edgy => timer'.at <= now
      /\ t # 0 => timer'.at <= t \/ timer'.at <= now
      /\ timer'.at \in Nat
  <2> PICK at : at = rescheduleEarlier(t)
    BY Zenon
  <2>1. /\ at \in Timer
        /\ at.edgy = timer.edgy
        /\ at = timer \/ (at.pc = "armed" /\ (at.at <= now \/ at.at <= timer.at))
        /\ timer.edgy => at.at <= now
        /\ t # 0 => at.at <= t \/ at.at <= now
    BY <1>2, SignalRuns, Zenon
  <2>2. at.at \in Nat
    BY <2>1, Zenon DEF Timer, Time
  <2>3. timer' = at
    BY Zenon
  <2>4. at = timer => at.at <= timer.at
    BY <2>2
  <2> QED BY <2>1, <2>2, <2>3, <2>4, Zenon
<1>4. \A x \in Pending : x = t \/ x \in Pending'
  BY <1>2, Zenon DEF Pending, ReceiveSignal
<1>5. UNCHANGED <<rows, now, exec, loop, faults>>
  BY Zenon DEF ReceiveSignal
<1>6. RowsInv'
  BY <1>1, <1>5, Zenon DEF RowsInv, RunningRows
<1>7. ~timer.edgy => \A j \in Jobs : Scheduled(j) =>
          timer'.at <= rows[j].at \/ timer'.at <= now \/ Announced(j)'
  <2> SUFFICES ASSUME ~timer.edgy, NEW j \in Jobs, Scheduled(j)
               PROVE  timer'.at <= rows[j].at \/ timer'.at <= now \/ Announced(j)'
    BY Zenon
  <2>1. timer.at <= rows[j].at \/ timer.at <= now \/ Announced(j)
    BY <1>1, Zenon DEF SelectInv
  <2>2. CASE Announced(j)
    <3> PICK x \in Pending : x # 0 /\ x <= rows[j].at
      BY <2>2, Zenon DEF Announced, Zero
    <3>1. CASE x = t
      BY <1>2, <1>3, <3>1, Numbers
    <3>2. CASE x \in Pending'
      BY <1>5, <3>2, Zenon DEF Announced, Zero
    <3> QED BY <1>4, <3>1, <3>2, Zenon
  <2> QED BY <1>3, <2>1, <2>2, Numbers
<1>8. SelectInv'
  BY <1>3, <1>5, <1>7, Zenon DEF SelectInv, Scheduled
<1> QED BY <1>1, <1>5, <1>6, <1>8, Zenon DEF WakeInv

\* Either all ready jobs are listed, or as many as there are slots.
LEMMA ListWake ==
    ASSUME Types, faults = {}, WakeInv, ListReady
    PROVE  WakeInv'
<1> DEFINE ready == Ready(loop.now)
           all == Cardinality(ready) <= availableSlots
<1>1. PICK S \in SUBSET ready :
         /\ Cardinality(S) = Min({Cardinality(ready), availableSlots})
         /\ loop' = [loop EXCEPT !.pc = IF all THEN "next" ELSE "start", !.jobs = S, !.gotAllJobs = all]
  BY Zenon DEF ListReady
<1>2. UNCHANGED <<rows, now, exec, senders, signal, timer, faults>>
  BY Zenon DEF ListReady
<1>3. RowsInv'
  BY <1>2, Zenon DEF RowsInv, RunningRows, WakeInv
<1>4. ready \subseteq Jobs /\ IsFiniteSet(ready) /\ Cardinality(ready) \in Nat
  BY Durations, FS_Subset, FS_CardinalityType, Zenon DEF Ready
<1>5. \A j \in S : Scheduled(j)
  BY Zenon DEF Ready
<1>6. /\ Cardinality(S) \in {Cardinality(ready), availableSlots}
      /\ Cardinality(S) <= Cardinality(ready) /\ Cardinality(S) <= availableSlots
  <2> PICK n \in Nat : n = Cardinality(ready)
    BY <1>4, Zenon
  <2> PICK m \in Nat : m = availableSlots
    BY Slots, Zenon
  <2>1. n \in Int /\ m \in Int
    OBVIOUS
  <2>2. Min({n, m}) \in {n, m} /\ Min({n, m}) <= n /\ Min({n, m}) <= m
    BY <2>1, MinOfTwo, Zenon
  <2>3. Cardinality(S) = Min({n, m})
    BY <1>1, Zenon
  <2> QED BY <2>2, <2>3, Zenon
<1>7. loop \in Loop
  BY Zenon DEF Types
<1>8. \A j \in Jobs : Scheduled(j) <=> Scheduled(j)'
  BY <1>2, Zenon DEF Scheduled
<1> HIDE DEF ready
<1>9. CASE all
  <2>1. all = TRUE
    BY <1>9, SMT
  <2>2. loop' = [loop EXCEPT !.pc = "next", !.jobs = S, !.gotAllJobs = TRUE]
    <3> HIDE DEF all
    <3> QED BY <1>1, <2>1, Zenon
  <2>3. loop'.pc = "next" /\ loop'.jobs = S /\ loop'.gotAllJobs /\ loop'.now = loop.now
    BY ONLY <1>7, <2>2, Zenon DEF Loop
  <2>4. Cardinality(S) = Cardinality(ready)
    BY <1>4, <1>6, <1>9, Slots
  <2>5. S = ready
    BY <1>4, <2>4, FS_Subset, Zenon
  <2>6. \A j \in Jobs : Scheduled(j) => j \in ready \/ rows[j].at > loop.now
    BY Numbers DEF ready, Ready
  <2>7. NextInv'
    BY <1>2, <1>4, <1>5, <1>8, <2>3, <2>5, <2>6, Zenon DEF NextInv
  <2> QED BY <1>3, <2>3, <2>7, Zenon DEF WakeInv
<1>10. CASE ~all
  <2>1. all = FALSE
    BY <1>10, SMT
  <2>2. loop' = [loop EXCEPT !.pc = "start", !.jobs = S, !.gotAllJobs = FALSE]
    <3> HIDE DEF all
    <3> QED BY <1>1, <2>1, Zenon
  <2>3. loop'.pc = "start" /\ loop'.jobs = S /\ loop'.gotAllJobs = FALSE
    BY ONLY <1>7, <2>2, Zenon DEF Loop
  <2>4. Cardinality(S) = availableSlots
    BY <1>4, <1>6, <1>10, Slots, Zenon
  <2>5. Cardinality(RunningRows) + Cardinality(S) >= maxRunning
    BY <2>4, Slots, Zenon
  <2>6. RunningRows' = RunningRows
    BY <1>2, Zenon DEF RunningRows
  <2>7. StartInv'
    BY <1>4, <1>5, <1>8, <2>3, <2>5, <2>6, Zenon DEF StartInv
  <2> QED BY <1>3, <2>3, <2>7, Zenon DEF WakeInv
<1> QED BY <1>9, <1>10, Zenon

LEMMA NextWake ==
    ASSUME Types, faults = {}, WakeInv, ReadNext
    PROVE  WakeInv'
<1>1. RowsInv /\ NextInv
  BY Zenon DEF WakeInv, ReadNext
<1>2. UNCHANGED <<rows, now, exec, senders, signal, timer, faults>>
  BY Zenon DEF ReadNext
<1>3. RowsInv'
  BY <1>1, <1>2, Zenon DEF RowsInv, RunningRows
<1> PICK next \in Nat : next = NextScheduledTime(loop.now)
  BY NextIsTime, Numbers, Zenon
<1>4. loop' = [loop EXCEPT !.pc = "start", !.nextExec = next] /\ loop \in Loop
  BY Zenon DEF ReadNext, Types
<1>5. /\ loop'.pc = "start" /\ loop'.nextExec = next /\ loop'.jobs = loop.jobs
      /\ loop'.gotAllJobs = loop.gotAllJobs
  BY <1>4, Zenon DEF Loop
<1>6. \A j \in Jobs : Scheduled(j) /\ rows[j].at > loop.now => next # 0 /\ next <= rows[j].at
  BY NextIsTime, Numbers, Zenon
<1>7. \A j \in Jobs : (Scheduled(j) <=> Scheduled(j)') /\ (Announced(j) <=> Announced(j)')
  BY <1>2, Zenon DEF Scheduled, Announced, Pending
<1>8. StartInv'
  BY <1>1, <1>2, <1>5, <1>6, <1>7, Numbers, Zenon DEF NextInv, StartInv
<1> QED BY <1>3, <1>5, <1>8, Zenon DEF WakeInv

\* A job that starts moves from the listed jobs to the running ones.
LEMMA StartWake ==
    ASSUME Types, faults = {}, WakeInv, NEW j \in Jobs, StartJob(j)
    PROVE  WakeInv'
<1>1. RowsInv /\ StartInv /\ loop.pc = "start" /\ j \in loop.jobs
  BY Zenon DEF WakeInv, StartJob
<1>2. UNCHANGED <<now, senders, signal, timer, faults>>
  BY Zenon DEF StartJob
<1>3. loop' = [loop EXCEPT !.jobs = loop.jobs \ {j}] /\ loop \in Loop
  BY Zenon DEF StartJob, Types
<1>4. /\ loop'.pc = "start" /\ loop'.jobs = loop.jobs \ {j}
      /\ loop'.gotAllJobs = loop.gotAllJobs /\ loop'.nextExec = loop.nextExec
  BY <1>1, <1>3, Zenon DEF Loop
<1>5. rows \in [Jobs -> Row] /\ rows' = [rows EXCEPT ![j].state = "running"] /\ exec' = exec \cup {j}
  BY Zenon DEF StartJob, Types
<1>6. /\ rows'[j].state = "running"
      /\ \A k \in Jobs : k # j => rows'[k] = rows[k]
      /\ \A k \in Jobs : rows'[k].at = rows[k].at
  BY <1>5, Zenon DEF Row
<1>7. Scheduled(j)
  BY <1>1, Zenon DEF StartInv
<1>8. RunningRows' = RunningRows \cup {j} /\ j \notin RunningRows
  BY <1>6, <1>7, Zenon DEF RunningRows, Scheduled
<1>9. RowsInv'
  BY <1>1, <1>5, <1>6, <1>8, exec \subseteq Jobs, Zenon DEF RowsInv, Types
<1>10. \A k \in Jobs : /\ Scheduled(k)' => Scheduled(k) /\ k # j
                       /\ Scheduled(k) /\ k # j => Scheduled(k)'
                       /\ Announced(k) <=> Announced(k)'
  BY <1>2, <1>6, Zenon DEF Scheduled, Announced, Pending
<1>11. /\ Cardinality(RunningRows') = Cardinality(RunningRows) + 1
       /\ Cardinality(loop'.jobs) = Cardinality(loop.jobs) - 1
       /\ Cardinality(RunningRows) \in Nat /\ Cardinality(loop.jobs) \in Nat
  <2>1. IsFiniteSet(RunningRows) /\ IsFiniteSet(loop.jobs)
    BY Slots, Numbers, Durations, FS_Subset, Zenon
  <2>2. Cardinality(RunningRows \cup {j}) = Cardinality(RunningRows) + 1
    BY <1>8, <2>1, FS_AddElement, Zenon
  <2>3. Cardinality(loop.jobs \ {j}) = Cardinality(loop.jobs) - 1
    BY <1>1, <2>1, FS_RemoveElement, Zenon
  <2>4. Cardinality(RunningRows) \in Nat /\ Cardinality(loop.jobs) \in Nat
    BY <2>1, FS_CardinalityType, Zenon
  <2> QED BY <1>4, <1>8, <2>2, <2>3, <2>4, Zenon
<1>12. StartInv'
  <2>1. \A k \in loop'.jobs : Scheduled(k)'
    BY <1>1, <1>4, <1>10, Numbers, Zenon DEF StartInv
  <2>2. loop'.gotAllJobs => \A k \in Jobs : Scheduled(k)' =>
            k \in loop'.jobs \/ (loop'.nextExec # 0 /\ loop'.nextExec <= rows'[k].at) \/ Announced(k)'
    BY <1>1, <1>4, <1>6, <1>10, Zenon DEF StartInv
  <2>3. ~loop'.gotAllJobs => Cardinality(RunningRows') + Cardinality(loop'.jobs) >= maxRunning
    BY <1>1, <1>4, <1>11, Durations DEF StartInv
  <2> QED BY <2>1, <2>2, <2>3, Zenon DEF StartInv
<1> QED BY <1>4, <1>9, <1>12, Zenon DEF WakeInv

\* The timer is reset to the next time, or edgy because the slots are taken.
LEMMA ResetWake ==
    ASSUME Types, faults = {}, WakeInv, ResetTimer
    PROVE  WakeInv'
<1>1. RowsInv /\ StartInv /\ loop.pc = "start" /\ loop.jobs = {}
  BY Zenon DEF WakeInv, ResetTimer
<1>2. UNCHANGED <<rows, now, exec, senders, signal, faults>> /\ loop'.pc = "select"
  BY Zenon DEF ResetTimer, Rearm, AtSelect
<1>3. RowsInv'
  BY <1>1, <1>2, Zenon DEF RowsInv, RunningRows
<1>4. PICK at \in Nat : at = IF loop.nextExec = Zero THEN loop.now + Period ELSE loop.nextExec
  BY Numbers, Durations
<1>5. timer' = resetAt(at, ~loop.gotAllJobs)
  BY <1>4, Zenon DEF ResetTimer, Rearm
<1> PICK edgy \in BOOLEAN : edgy = ~loop.gotAllJobs
  BY Numbers, Zenon
<1>6. timer' = resetAt(at, edgy)
  BY <1>5, Zenon
<1>7. timer'.edgy = edgy /\ (timer'.at <= at \/ timer'.at <= now) /\ timer'.at \in Nat
  <2>1. timer' \in Timer /\ timer'.edgy = edgy /\ (timer'.at <= at \/ timer'.at <= now)
    BY <1>6, ResetRuns, Zenon
  <2> QED BY <2>1, Zenon DEF Timer, Time
<1>8. \A j \in Jobs : (Scheduled(j)' => Scheduled(j)) /\ (Announced(j) => Announced(j)')
  BY <1>2, Zenon DEF Scheduled, Announced, Pending
<1>9. CASE edgy
  <2>1. ~loop.gotAllJobs
    BY <1>9, Zenon
  <2>2. Cardinality(RunningRows) + Cardinality({}) >= maxRunning
    BY <1>1, <2>1, Zenon DEF StartInv
  <2>3. Full'
    BY <1>2, <2>2, FS_EmptySet, Slots DEF Full, RunningRows
  <2>4. SelectInv'
    BY <1>7, <1>9, <2>3, Zenon DEF SelectInv
  <2> QED BY <1>2, <1>3, <2>4, Zenon DEF WakeInv
<1>10. CASE ~edgy
  <2>1. loop.gotAllJobs
    BY <1>10, Zenon
  <2>2. \A j \in Jobs : Scheduled(j) =>
           (loop.nextExec # 0 /\ loop.nextExec <= rows[j].at) \/ Announced(j)
    BY <1>1, <2>1, Zenon DEF StartInv
  <2>3. \A j \in Jobs : Scheduled(j) => timer'.at <= rows[j].at \/ timer'.at <= now \/ Announced(j)
    BY <1>4, <1>7, <2>2, Numbers DEF Zero
  <2>4. SelectInv'
    BY <1>2, <1>7, <1>8, <1>10, <2>3, Zenon DEF SelectInv
  <2> QED BY <1>2, <1>3, <2>4, Zenon DEF WakeInv
<1> QED BY <1>9, <1>10, Zenon

\* A new job is announced, in whichever step of a pass it arrives.
LEMMA RunWake ==
    ASSUME Types, faults = {}, WakeInv, NEW j \in Jobs, RunJob(j)
    PROVE  WakeInv'
<1>1. /\ RowsInv
      /\ loop.pc = "select" => SelectInv
      /\ loop.pc = "next" => NextInv
      /\ loop.pc = "start" => StartInv
  BY Zenon DEF WakeInv
<1>2. UNCHANGED <<now, exec, signal, timer, loop, faults>>
  BY Zenon DEF RunJob
<1>3. /\ rows \in [Jobs -> Row] /\ rows[j].state = "none"
      /\ rows' = [rows EXCEPT ![j] = [state |-> "scheduled", at |-> now]]
  BY DEF RunJob, Types
<1>4. /\ rows'[j].state = "scheduled" /\ rows'[j].at = now
      /\ \A k \in Jobs : k # j => rows'[k] = rows[k]
  BY <1>3, Zenon
<1>5. RunningRows' = RunningRows
  BY <1>3, <1>4, Zenon DEF RunningRows
<1>6. RowsInv'
  BY <1>1, <1>2, <1>4, <1>5, exec \subseteq Jobs, Zenon DEF RowsInv, Types
<1>7. CASE loop.pc = "stopped"
  BY <1>2, <1>6, <1>7, Zenon DEF WakeInv
<1>8. CASE loop.pc # "stopped"
  <2>1. senders' = senders \cup {<<j, now>>}
    BY <1>8, Zenon DEF RunJob, scheduleProcessing
  <2>2. now \in Pending' /\ Pending \subseteq Pending'
    <3>1. <<j, now>> \in senders' /\ senders \subseteq senders' /\ signal' = signal
      BY <1>2, <2>1, Zenon
    <3>2. <<j, now>>[2] = now
      BY Zenon
    <3>3. \A x \in senders' : x[2] \in Pending'
      BY Zenon DEF Pending
    <3> QED BY <3>1, <3>2, <3>3, Zenon DEF Pending
  <2>3. Announced(j)'
    BY <1>4, <2>2, Numbers DEF Announced, Zero
  <2>4. \A k \in Jobs : k # j => /\ Announced(k) => Announced(k)'
                                 /\ Scheduled(k) <=> Scheduled(k)'
    BY <1>4, <2>2, Zenon DEF Announced, Scheduled
  <2>5. Scheduled(j)'
    BY <1>4, Zenon DEF Scheduled
  <2>6. loop.pc = "select" => SelectInv'
    BY <1>1, <1>2, <1>4, <2>2, <2>3, <2>4, Zenon DEF SelectInv
  <2>7. loop.pc = "next" => NextInv'
    BY <1>1, <1>2, <1>4, <2>3, <2>4, <2>5, Numbers, Zenon DEF NextInv
  <2>8. loop.pc = "start" => StartInv'
    BY <1>1, <1>2, <1>4, <1>5, <2>3, <2>4, <2>5, Numbers, Zenon DEF StartInv
  <2> QED BY <1>2, <1>6, <2>6, <2>7, <2>8, Zenon DEF WakeInv
<1> QED BY <1>7, <1>8, Zenon

\* Between two passes a row ends or is scheduled again: if that frees a slot, a signal
\* or a goroutine that will send one is left, or the row is an orphan.
LEMMA RowWake ==
    ASSUME Types, faults = {}, WakeInv, LockFree,
           UNCHANGED <<now, signal, timer, loop, faults>>,
           NEW j \in Jobs, NEW r \in Row, rows' = [rows EXCEPT ![j] = r],
           r.state \in {"done", "scheduled"},
           exec' \subseteq exec, exec \ {j} \subseteq exec',
           loop.pc = "select" =>
              /\ senders \subseteq senders'
              /\ r.state = "scheduled" => r.at # 0 /\ r.at \in Pending'
              /\ \/ Pending' # {} \/ exec' # {} \/ (j \in Orphans /\ r.state = "done")
                 \/ (rows[j].state = "scheduled" /\ exec' = exec)
    PROVE  WakeInv'
<1>1. rows'[j] = r /\ \A k \in Jobs : k # j => rows'[k] = rows[k]
  BY Zenon DEF Types
<1>2. RunningRows' = RunningRows \ {j}
  BY <1>1, Zenon DEF RunningRows
<1>3. RowsInv
  BY Zenon DEF WakeInv
<1>4. RowsInv'
  BY <1>1, <1>2, <1>3, exec \subseteq Jobs, Zenon DEF RowsInv, RunningRows, Types
<1>5. CASE loop.pc # "select"
  BY <1>4, <1>5, Zenon DEF LockFree, WakeInv
<1>6. CASE loop.pc = "select"
  <2>1. SelectInv
    BY <1>6, Zenon DEF WakeInv
  <2>2. Pending \subseteq Pending'
    BY <1>6, Zenon DEF Pending
  <2>3. \A k \in Jobs : k # j => /\ Announced(k) => Announced(k)'
                                 /\ Scheduled(k)' => Scheduled(k)
    BY <1>1, <2>2, Zenon DEF Announced, Scheduled
  <2>4. Scheduled(j)' => Announced(j)'
    <3> SUFFICES ASSUME r.state = "scheduled" PROVE Announced(j)'
      BY <1>1, Zenon DEF Scheduled
    <3>1. r.at \in Nat /\ r.at # 0 /\ r.at \in Pending' /\ rows'[j].at = r.at
      BY <1>1, <1>6, Zenon DEF Row, Time
    <3> QED BY <3>1 DEF Announced, Zero
  <2>5. ~timer.edgy => \A k \in Jobs : Scheduled(k)' =>
           timer'.at <= rows'[k].at \/ timer'.at <= now' \/ Announced(k)'
    BY <1>1, <2>1, <2>3, <2>4, Zenon DEF SelectInv
  <2>6. timer.edgy =>
          \/ timer'.at <= now' \/ Full' \/ Pending' # {} \/ exec' # {}
          \/ \E o \in Orphans : rows'[o].state = "done"
    <3>1. CASE Pending' # {} \/ exec' # {} \/ (j \in Orphans /\ r.state = "done")
      BY <1>1, <3>1, Zenon
    <3>2. CASE rows[j].state = "scheduled" /\ Pending' = {} /\ exec' = {} /\ exec = {}
      <4>1. RunningRows' = RunningRows
        BY <1>2, <3>2, Zenon DEF RunningRows
      <4>2. Full => Full'
        BY <4>1, Zenon DEF Full
      <4>3. Orphans \subseteq Jobs
        BY Zenon DEF Jobs
      <4>4. \A o \in Orphans : rows[o].state = "done" => rows'[o].state = "done"
        BY <1>1, <3>2, <4>3, Zenon
      <4>5. Pending = {}
        BY <2>2, <3>2, Zenon
      <4> QED BY <2>1, <3>2, <4>2, <4>4, <4>5, Zenon DEF SelectInv
    <3> QED BY <1>6, <3>1, <3>2, Zenon
  <2>7. SelectInv'
    BY <2>5, <2>6, Zenon DEF SelectInv
  <2> QED BY <1>4, <1>6, <2>7, Zenon DEF WakeInv
<1> QED BY <1>5, <1>6, Zenon

\* A goroutine of scheduleProcessing sends its time while Run goes on.
LEMMA WillSend ==
    ASSUME NEW j, NEW t, scheduleProcessing(j, t), loop.pc # "stopped"
    PROVE  senders \subseteq senders' /\ t \in Pending'
<1>1. senders' = senders \cup {<<j, t>>}
  BY Zenon DEF scheduleProcessing
<1>2. <<j, t>> \in senders' /\ <<j, t>>[2] = t
  BY <1>1, Zenon
<1>3. \A x \in senders' : x[2] \in Pending'
  BY Zenon DEF Pending
<1> QED BY <1>1, <1>2, <1>3, Zenon

LEMMA CancelWake ==
    ASSUME Types, faults = {}, WakeInv, NEW j \in Jobs, CancelJob(j)
    PROVE  WakeInv'
<1> PICK r : r = [rows[j] EXCEPT !.state = "done"]
  BY Zenon
<1>1. rows[j] \in Row /\ rows \in [Jobs -> Row]
  BY Zenon DEF Types
<1>2. r \in Row /\ r.state = "done"
  BY <1>1, Zenon DEF Row
<1>3. rows' = [rows EXCEPT ![j] = r]
  BY <1>1, Zenon DEF CancelJob
<1>4. exec # {} \/ j \in Orphans \/ rows[j].state = "scheduled"
  BY Zenon DEF WakeInv, RowsInv, RunningRows, CancelJob
<1>5. UNCHANGED <<now, signal, timer, loop, faults, exec, senders>> /\ LockFree
  BY Zenon DEF CancelJob
<1> QED BY <1>2, <1>3, <1>4, <1>5, RowWake, Zenon

\* What postExec writes: the end, or another execution at a time after the zero time.
LEMMA PostExecRows ==
    ASSUME Types, NEW j \in Jobs, NEW r \in postExec(j)
    PROVE  r \in Row /\ r.state \in {"done", "scheduled"} /\ (r.state = "scheduled" => r.at # 0)
<1>1. r \in Row
  BY NewRows, Zenon
<1>2. rows[j] \in Row /\ now \in Nat
  BY Zenon DEF Types
<1>3. CASE r = rows[j] /\ rows[j].state = "done"
  BY <1>1, <1>3, Zenon
<1>4. CASE r = Completed(j)
  BY <1>1, <1>2, <1>4, Zenon DEF Completed, Row
<1>5. CASE r = Rescheduled(j)
  <2> PICK at \in Nat : at = now + (IF j \in Recurring THEN CronDelay ELSE RetryDelay) /\ at # 0
    BY <1>2, Durations
  <2>1. r = [state |-> "scheduled", at |-> at]
    BY <1>5, Zenon DEF Rescheduled
  <2> QED BY <1>1, <2>1, Zenon
<1> QED BY <1>3, <1>4, <1>5, Zenon DEF postExec

LEMMA FinishWake ==
    ASSUME Types, faults = {}, WakeInv, NEW j \in Jobs, FinishJob(j)
    PROVE  WakeInv'
<1> PICK r \in postExec(j) : /\ rows' = [rows EXCEPT ![j] = r]
                             /\ scheduleProcessing(j, IF r.state = "scheduled" THEN r.at ELSE Zero)
  BY Zenon DEF FinishJob
<1>1. UNCHANGED <<now, signal, timer, loop, faults>> /\ LockFree /\ exec' = exec \ {j}
  BY Zenon DEF FinishJob
<1>2. r \in Row /\ r.state \in {"done", "scheduled"} /\ (r.state = "scheduled" => r.at # 0)
  BY PostExecRows, Zenon
<1>3. PICK t : t = IF r.state = "scheduled" THEN r.at ELSE Zero
  BY Zenon
<1>4. loop.pc = "select" => senders \subseteq senders' /\ t \in Pending'
  BY <1>3, WillSend, Zenon
<1> QED BY <1>1, <1>2, <1>3, <1>4, RowWake, Zenon

LEMMA OverdueWake ==
    ASSUME Types, faults = {}, WakeInv, NEW o \in Recurring, NEW j \in Orphans, Overdue(o, j)
    PROVE  WakeInv'
<1> j \in Jobs
  BY Zenon DEF Jobs
<1> PICK r \in postExec(j) :
       /\ rows' = [rows EXCEPT ![j] = r]
       /\ IF r.state = "scheduled" THEN scheduleProcessing(j, r.at) ELSE senders' = senders
  BY Zenon DEF Overdue
<1>1. UNCHANGED <<now, signal, timer, loop, faults, exec>> /\ LockFree /\ exec # {}
  BY Zenon DEF Overdue
<1>2. r \in Row /\ r.state \in {"done", "scheduled"} /\ (r.state = "scheduled" => r.at # 0)
  BY PostExecRows, Zenon
<1>3. loop.pc = "select" => /\ senders \subseteq senders'
                            /\ r.state = "scheduled" => r.at \in Pending'
  BY WillSend, Zenon
<1> QED BY <1>1, <1>2, <1>3, RowWake, Zenon

LEMMA StepWake == IInv /\ [Next]_vars => WakeInv'
<1> SUFFICES ASSUME Types, WakeInv, [Next]_vars, faults' = {} PROVE WakeInv'
  BY Zenon DEF IInv, WakeInv
<1>0. faults = {}
  <2>1. faults' = faults
    BY Zenon DEF Next, LoopStep, vars, Fire, Clock, ReceiveSignal, ReceiveTick, ListReady, ReadNext,
           ResetTimer, StartJob, SkipJob, ProcessFails, Panic, Stop, Send, RunJob, RunJobsFails,
           CancelJob, PurgeJobByUID, FinishJob, FinishJobFails, Overdue
  <2> QED BY <2>1, Zenon
<1>1. RowsInv /\ (loop.pc = "start" => StartInv)
  BY <1>0, Zenon DEF WakeInv
<1>2. CASE Fire
  <2>1. timer \in Timer /\ timer' = [timer EXCEPT !.pc = "fired", !.tick = now]
    BY <1>2, Zenon DEF Fire, Types
  <2>2. timer'.at = timer.at /\ timer'.edgy = timer.edgy
    BY <2>1, Zenon DEF Timer
  <2> QED BY <1>0, <1>2, <2>2, TimeWake, Zenon DEF Fire, Pending
<1>3. CASE Clock
  BY <1>0, <1>3, TimeWake, Zenon DEF Clock, Pending
<1>4. CASE ReceiveSignal
  BY <1>0, <1>4, SignalWake, Zenon
<1>5. CASE ReceiveTick
  <2>1. loop'.pc = "list" /\ UNCHANGED <<rows, exec>>
    BY <1>5, Zenon DEF ReceiveTick, AtSelect
  <2> QED BY <1>1, <2>1, Zenon DEF WakeInv, RowsInv, RunningRows
<1>6. CASE ListReady
  BY <1>0, <1>6, ListWake, Zenon
<1>7. CASE ReadNext
  BY <1>0, <1>7, NextWake, Zenon
<1>8. CASE ResetTimer
  BY <1>0, <1>8, ResetWake, Zenon
<1>9. ASSUME NEW j \in Jobs, StartJob(j) PROVE WakeInv'
  BY <1>0, <1>9, StartWake, Zenon
<1>10. ASSUME NEW j \in Jobs, SkipJob(j) PROVE WakeInv'
  BY <1>0, <1>1, <1>10, Zenon DEF SkipJob, StartInv, Scheduled
<1>11. CASE ProcessFails \/ Panic
  BY <1>0, <1>11, Zenon DEF ProcessFails, Panic
<1>12. CASE Stop
  <2>1. loop'.pc = "stopped" /\ UNCHANGED <<rows, exec>>
    BY <1>12, Zenon DEF Stop, AtSelect
  <2> QED BY <1>1, <2>1, Zenon DEF WakeInv, RowsInv, RunningRows
<1>13. ASSUME NEW s \in senders, Send(s) PROVE WakeInv'
  <2>1. signal = {} /\ signal' = {s[2]} /\ senders' = senders \ {s}
    BY <1>13, Zenon DEF Send
  <2>2. Pending' = Pending
    BY <2>1, Zenon DEF Pending
  <2> QED BY <1>0, <1>13, <2>2, TimeWake, Zenon DEF Send
<1>14. ASSUME NEW j \in Jobs, RunJob(j) PROVE WakeInv'
  BY <1>0, <1>14, RunWake, Zenon
<1>15. ASSUME NEW j \in Jobs, RunJobsFails(j) \/ PurgeJobByUID(j) PROVE WakeInv'
  BY <1>0, <1>15, Zenon DEF RunJobsFails, PurgeJobByUID
<1>16. ASSUME NEW j \in Jobs, CancelJob(j) PROVE WakeInv'
  BY <1>0, <1>16, CancelWake, Zenon
<1>17. ASSUME NEW j \in Jobs, FinishJob(j) PROVE WakeInv'
  BY <1>0, <1>17, FinishWake, Zenon
<1>18. ASSUME NEW j \in Jobs, FinishJobFails(j) PROVE WakeInv'
  BY <1>0, <1>1, <1>18, Zenon DEF FinishJobFails, RowsInv
<1>19. ASSUME NEW o \in Recurring, NEW j \in Orphans, Overdue(o, j) PROVE WakeInv'
  BY <1>0, <1>19, OverdueWake, Zenon
<1>20. CASE UNCHANGED vars
  BY <1>0, <1>20, TimeWake, Zenon DEF vars, Pending
<1> QED
  BY <1>2, <1>3, <1>4, <1>5, <1>6, <1>7, <1>8, <1>9, <1>10, <1>11, <1>12, <1>13, <1>14, <1>15,
     <1>16, <1>17, <1>18, <1>19, <1>20 DEF Next, LoopStep

\* When no call fails, a job that could start never waits for a timer that is set for
\* later, unless a signal or a goroutine that will send one is left to move the timer.
THEOREM AlwaysWakesInTime == Spec => []WakesInTime
<1>1. Init => IInv
  BY InitTypes, InitWake, Zenon DEF IInv
<1>2. IInv /\ [Next]_vars => IInv'
  BY StepTypes, StepWake, Zenon DEF IInv
<1>3. IInv => WakesInTime
  <2> SUFFICES ASSUME Types, SelectInv, ~Full, NEW j \in Jobs, Scheduled(j)
               PROVE  \/ timer.at <= Max({rows[j].at, now})
                      \/ timer.edgy /\ (Pending # {} \/ exec # {})
                      \/ timer.edgy /\ \E o \in Orphans : rows[o].state = "done"
                      \/ Announced(j)
    BY Slots, Zenon DEF WakesInTime, IInv, WakeInv, Announced
  <2> PICK at \in Int : at = rows[j].at
    BY Numbers
  <2> PICK most : most = Max({at, now})
    BY Zenon
  <2>1. most \in {at, now} /\ most >= at /\ most >= now
    <3>1. at \in Int /\ now \in Int
      BY Numbers
    <3> QED BY <3>1, MaxOfTwo, Zenon
  <2>2. timer.at <= rows[j].at \/ timer.at <= now => timer.at <= most
    BY <2>1, Numbers
  <2>3. CASE timer.edgy
    BY <2>2, <2>3, Zenon DEF SelectInv
  <2>4. CASE ~timer.edgy
    BY <2>2, <2>4, Zenon DEF SelectInv
  <2> QED BY <2>3, <2>4, Zenon
<1> QED BY <1>1, <1>2, <1>3, PTL DEF Spec
=============================================================================
