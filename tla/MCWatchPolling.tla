--------------------------- MODULE MCWatchPolling ---------------------------
(* Model-checking instance of WatchPolling: deliveries, and cancel calls,  *)
(* are interchangeable.                                                    *)
EXTENDS WatchPolling, TLC

Symmetry == Permutations(Workers) \cup Permutations(Sweepers)
=============================================================================
