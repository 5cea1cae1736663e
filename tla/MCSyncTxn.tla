------------------------------- MODULE MCSyncTxn -------------------------------
(* Small instances of SyncTxn for TLC. *)
EXTENDS SyncTxn, TLC

\* Events and workers are interchangeable.
Symmetry == Permutations(EventKeys) \cup Permutations(Handlers)
=============================================================================
