--------------------------- MODULE MCWatchDispatch ---------------------------
(***************************************************************************)
(* Model-checking instance of WatchDispatch.                               *)
(***************************************************************************)
EXTENDS WatchDispatch, TLC

\* Replicas and pollers are interchangeable; used for safety only.
Symmetry == Permutations(Replicas) \cup Permutations(Pollers)
=============================================================================
