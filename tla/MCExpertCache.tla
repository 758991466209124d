----------------------------- MODULE MCExpertCache -----------------------------
(* Values for the run of ExpertCache. *)
EXTENDS ExpertCache, TLC

TwoSparseLayers == {0, 1}
PinInTheSecond == <<1>> @@ (0 :> 0)
=============================================================================
