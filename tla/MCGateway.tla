------------------------------ MODULE MCGateway ------------------------------
(* Model values and prompts for the runs of Gateway. *)
EXTENDS Gateway, TLC

CONSTANTS r1, r2

\* The second prompt continues the first.
FollowUp == (r1 :> <<"a">>) @@ (r2 :> <<"a", "b">>)
=============================================================================
