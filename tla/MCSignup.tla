------------------------------- MODULE MCSignup -------------------------------
(* Small instances of Signup for TLC. *)
EXTENDS Signup, TLC

\* Keys, tokens and workers are interchangeable; so are numbers.
Symmetry == Permutations(Keys) \cup Permutations(Tokens) \cup
            Permutations(Workers) \cup Permutations(Numbers)
=============================================================================
