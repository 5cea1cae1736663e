-------------------------------- MODULE MCCalls --------------------------------
(* Small instances of Calls for TLC. *)
EXTENDS Calls, TLC

\* Workers and pollers are interchangeable.
Symmetry == Permutations(Workers) \cup Permutations(Pollers)
=============================================================================
