------------------------------ MODULE MCPipePool ------------------------------
(* Model values and bounds for the runs of PipePool. *)
EXTENDS PipePool

CONSTANTS w1, w2

\* Sequences cannot be written in a .cfg.
ShrinkingAndNot == {<<3, 2, 2>>, <<2, 1, 2>>}
Growing == {<<1, 2>>}
=============================================================================
