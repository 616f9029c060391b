--------------------------- MODULE MCSchedulerLoop ---------------------------
(* Instances of SchedulerLoop for TLC.                                     *)
EXTENDS SchedulerLoop

CONSTANTS j1, r1, o1

\* Nothing goes wrong; every call may fail; processReadyJobs may panic.
AllModes == {{}, {"lock", "db", "delete"}, {"panic"}}
=============================================================================
