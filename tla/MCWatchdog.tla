----------------------------- MODULE MCWatchdog -----------------------------
(* Model values for the run of Watchdog. *)
EXTENDS Watchdog

CONSTANTS p, q
=============================================================================
