----------------------------- MODULE BuildQueue -----------------------------
(***************************************************************************)
(* The queue of pending stages (app/pipeline/scheduler/queue.go), one per  *)
(* server. A runner requests a stage and waits; a loop, woken by a channel *)
(* of length one or by a timer, lists the incomplete stages under a lock   *)
(* shared by all servers and hands the free ones to waiting runners.       *)
(*                                                                         *)
(* A stage that was handed out is still pending in the table until it is   *)
(* accepted, so it may be handed out again. The context of a request ends  *)
(* with the server only, that branch is left out, and so is the limit per  *)
(* repository, which nothing sets. All stages belong to one repository.    *)
(* The lock and the list may fail; an unlock that fails is left out: the   *)
(* lock is then free once it expires.                                      *)
(***************************************************************************)
EXTENDS BuildStages

CONSTANTS
    Runners,       \* threads of the poller
    InstanceOf,    \* the server of each runner
    Matches,       \* the stages whose platform and labels each runner matches
    Name,          \* the name of each stage
    Limit          \* the concurrency limit of each stage, 0 for none

ASSUME QueueAssumption ==
    /\ InstanceOf \in [Runners -> Instances]
    /\ Matches \in [Runners -> SUBSET Stages]
    /\ Limit \in [Stages -> Nat]
    /\ None \notin Stages
    /\ None \notin Runners

VARIABLES
    ready,         \* whether the channel that wakes the loop holds a token
    workers,       \* the waiting runners of each server
    signal,        \* the stages that the signal in progress may hand out
    globMx,        \* the server that holds the lock, or None
    handed,        \* the stage that was sent to a runner, or None
    missed         \* history: a signal took a token and failed, and none has succeeded since

queueVars == <<ready, workers, signal, globMx, handed, missed>>

QueueInit ==
    /\ ready = [i \in Instances |-> FALSE]
    /\ workers = [i \in Instances |-> {}]
    /\ signal = [i \in Instances |-> {}]
    /\ globMx = None
    /\ handed = [r \in Runners |-> None]
    /\ missed = [i \in Instances |-> FALSE]

\* Schedule: a send that does not block.
Schedule(i) == ready' = [ready EXCEPT ![i] = TRUE]

\* Variant: a request does not wake the loop.
RequestSilently(r) ==
    /\ workers' = [workers EXCEPT ![InstanceOf[r]] = @ \cup {r}]
    /\ UNCHANGED <<ready, signal, globMx, handed, missed>>

\* Request, up to the wait for a stage.
Request(r) ==
    /\ workers' = [workers EXCEPT ![InstanceOf[r]] = @ \cup {r}]
    /\ ready' = [ready EXCEPT ![InstanceOf[r]] = TRUE]
    /\ UNCHANGED <<signal, globMx, handed, missed>>

ListIncomplete == {s \in Stages : stage[s].status \in {"pending", "running"}}

\* Variant: only the siblings that are running count.
withinRunning(s, items) ==
    \/ Limit[s] = 0
    \/ Cardinality({t \in items \ {s} : Name[t] = Name[s] /\ stage[t].status = "running"}) < Limit[s]

\* Siblings of the same name count if they come first or are running.
withinLimits(s, items) ==
    \/ Limit[s] = 0
    \/ Cardinality({t \in items \ {s} : /\ Name[t] = Name[s]
                                        /\ t < s \/ stage[t].status = "running"}) < Limit[s]

\* The listed stages that may be handed out: what signal concludes from the list.
Eligible ==
    {s \in ListIncomplete : /\ stage[s].status # "running"
                            /\ stage[s].machine = None
                            /\ withinLimits(s, ListIncomplete)}

\* start: the loop takes the token of the channel, or wakes after the interval.
Wake(i) ==
    \/ ready[i] /\ ready' = [ready EXCEPT ![i] = FALSE]
    \/ UNCHANGED ready

\* signal, first part: take the lock and list the stages. It ends here when nobody waits
\* or nothing can be handed out.
SignalList(i) ==
    /\ globMx = None
    /\ Wake(i)
    /\ IF workers[i] = {} \/ Eligible = {}
       THEN UNCHANGED <<signal, globMx>>
       ELSE /\ globMx' = i
            /\ signal' = [signal EXCEPT ![i] = Eligible]
    /\ missed' = [missed EXCEPT ![i] = FALSE]
    /\ UNCHANGED <<workers, handed>>

\* signal, woken by a token, cannot get the lock or the list: the token is gone, start
\* logs the error and sleeps. A signal that fails after the interval changes nothing.
SignalFails(i) ==
    /\ globMx # i
    /\ ready[i]
    /\ ready' = [ready EXCEPT ![i] = FALSE]
    /\ missed' = [missed EXCEPT ![i] = TRUE]
    /\ UNCHANGED <<workers, signal, globMx, handed>>

\* In the order of their IDs, each stage goes to some matching runner that is left.
Assignments(free, waiting) ==
    {g \in [free -> waiting \cup {None}] :
        \A s \in free :
            LET left == {r \in waiting \ {g[t] : t \in {u \in free : u < s}} : s \in Matches[r]}
            IN  IF left = {} THEN g[s] = None ELSE g[s] \in left}

\* signal, second part: hand out the listed stages and release the lock.
SignalHand(i) ==
    /\ globMx = i
    /\ \E g \in Assignments(signal[i], workers[i]) :
          LET taken == {r \in workers[i] : \E s \in DOMAIN g : g[s] = r}
          IN  /\ handed' = [r \in Runners |-> IF r \in taken
                                              THEN CHOOSE s \in DOMAIN g : g[s] = r
                                              ELSE handed[r]]
              /\ workers' = [workers EXCEPT ![i] = @ \ taken]
    /\ signal' = [signal EXCEPT ![i] = {}]
    /\ globMx' = None
    /\ UNCHANGED <<ready, missed>>

QueueTypeOK ==
    /\ ready \in [Instances -> BOOLEAN]
    /\ workers \in [Instances -> SUBSET Runners]
    /\ signal \in [Instances -> SUBSET Stages]
    /\ globMx \in Instances \cup {None}
    /\ handed \in [Runners -> Stages \cup {None}]
    /\ missed \in [Instances -> BOOLEAN]
=============================================================================
