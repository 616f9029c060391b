--------------------------- MODULE MCJobScheduler ---------------------------
(* Instances of JobScheduler for TLC.                                      *)
EXTENDS JobScheduler, TLC

CONSTANTS i1, i2, j1, j2, e1, e2, e3

\* One retry for every user job: a job can fail, be retried and fail for good.
OneRetry == [j \in UserJobs |-> 1]
NoRetry == [j \in UserJobs |-> 0]

\* Goroutine identities and instances are interchangeable.
Symmetry == Permutations(Execs) \cup Permutations(Instances) \cup Permutations(UserJobs)
=============================================================================
