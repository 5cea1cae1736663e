------------------------------- MODULE MCPreKeys -------------------------------
(* Small instances of PreKeys for TLC. *)
EXTENDS PreKeys, TLC

CONSTANTS g1, g2, k1, k2, k3, k4

\* Two generations of two keys each.
TwoPools == g1 :> {k1, k2} @@ g2 :> {k3, k4}

\* Workers are interchangeable.
WorkerSymmetry == Permutations(Workers)
=============================================================================
