--------------------------- MODULE MCLoginAttempts ---------------------------
(* LoginAttempts with small tiers and locks; logins are interchangeable.   *)
EXTENDS LoginAttempts, TLC

Symmetry == Permutations(Requests)

=============================================================================
