--------------------------- MODULE MCAdvisoryLock ---------------------------
(* Small instances of AdvisoryLock. *)
EXTENDS AdvisoryLock, TLC

\* Sound for safety only: the pool's queue keeps the order of its callers.
CallerAndClientSymmetry == Permutations(Callers) \cup Permutations(Clients)

=============================================================================
