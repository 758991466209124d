---------------------------- MODULE MCSpecDecode ----------------------------
(* Model values for the run of SpecDecode. *)
EXTENDS SpecDecode, TLC

CONSTANTS a, b

\* No step looks at which token it handles, but for the stop token.
TokenSymmetry == Permutations(Tokens)
=============================================================================
