----------------------------- MODULE MCScheduler -----------------------------
(* Model values for the run of Scheduler. *)
EXTENDS Scheduler

CONSTANTS r1, r2, r3, r4
=============================================================================
