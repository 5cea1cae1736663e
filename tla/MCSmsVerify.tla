------------------------------ MODULE MCSmsVerify ------------------------------
(* Small instances of SmsVerify for TLC. *)
EXTENDS SmsVerify, Combinatorics, TLC

\* The limit as a number: n workers and MAX_ATTEMPTS choose as many.
ASSUME GuessLimitIsChoose ==
  GuessLimit = choose(MaxAttempts + Cardinality(Workers), MaxAttempts) - 1

\* Workers are interchangeable.
WorkerSymmetry == Permutations(Workers)
=============================================================================
