---------------------------- MODULE MCCoordination -----------------------------
(* Small instances of Coordination for TLC. *)
EXTENDS Coordination, TLC

CONSTANTS home, away   \* a geohash, and one of another shard

TwoShards == [g \in Geohashes |-> IF g = away THEN "away" ELSE "home"]

\* Deltas and workers are interchangeable.
Symmetry == Permutations(Deltas) \cup Permutations(Workers)
=============================================================================
