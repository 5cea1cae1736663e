-------------------------------- MODULE MCBlobs --------------------------------
(* Small instances of Blobs for TLC. *)
EXTENDS Blobs, TLC

\* Fragments, workers and primary keys are interchangeable.
Symmetry == Permutations(Fragments) \cup Permutations(Workers) \cup Permutations(Pks)
=============================================================================
