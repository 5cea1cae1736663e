------------------------------- MODULE MCSigAuth -------------------------------
(* Small instances of SigAuth for TLC. *)
EXTENDS SigAuth, TLC

\* Workers are interchangeable.
WorkerSymmetry == Permutations(Workers)
=============================================================================
