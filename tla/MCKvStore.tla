------------------------------ MODULE MCKvStore ------------------------------
(* Model values and bounds for the runs of KvStore. *)
EXTENDS KvStore, TLC

CONSTANTS a, b, dense, sparse

\* No step looks at which token it handles.
TokenSymmetry == Permutations(Tokens)
=============================================================================
