---------------------------- MODULE MCScheduler ----------------------------
(* Small instances of Scheduler for TLC.                                   *)
EXTENDS Scheduler

\* A timeout that the next tick ends, and one that takes two ticks.
MCSleepMs == {4, 5}
============================================================================
