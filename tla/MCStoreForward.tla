---------------------------- MODULE MCStoreForward ----------------------------
(* Small instances of StoreForward for TLC. *)
EXTENDS StoreForward, TLC

CONSTANTS a, b, e1, e2, w1, w2

\* a writes both events to b; e1 is the more urgent one.
FromA   == e1 :> a @@ e2 :> a
ToB     == e1 :> b @@ e2 :> b
TwoClasses == e1 :> 0 @@ e2 :> 2
\* One event only, for the runs with two workers.
OneFromA == e1 :> a
OneToB   == e1 :> b
OneClass == e1 :> 0
\* Class 0 may live for one instant, class 2 for two.
OneCeiling == 0 :> 1
TwoInstants == 0 :> 2
Ceilings == 0 :> 1 @@ 2 :> 2

\* Workers are interchangeable.
WorkerSymmetry == Permutations(Workers)
=============================================================================
