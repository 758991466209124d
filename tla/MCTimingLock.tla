----------------------------- MODULE MCTimingLock -----------------------------
(* Model values for the runs of TimingLock. *)
EXTENDS TimingLock, TLC

\* Drivers differ in nothing but their names.
AnyOrder == Permutations(Drivers)
=============================================================================
