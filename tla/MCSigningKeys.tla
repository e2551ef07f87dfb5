---------------------------- MODULE MCSigningKeys ----------------------------
(* SigningKeys on small instances; tasks and processes are interchangeable. *)
EXTENDS SigningKeys, TLC

Symmetry == Permutations(Tasks) \cup Permutations(Processes)

=============================================================================
