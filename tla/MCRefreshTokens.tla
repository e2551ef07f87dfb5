--------------------------- MODULE MCRefreshTokens ---------------------------
(* RefreshTokens on a small instance: two tenants, an admin of the first.  *)
EXTENDS RefreshTokens, TLC

CONSTANTS ten1, ten2, usr1, usr2

MCAdmins == {<<ten1, usr2>>}

\* Ids and request slots are interchangeable; tenants and users are not
\* (MCAdmins names two of them).
Symmetry == Permutations(Sessions) \cup Permutations(Tokens) \cup Permutations(Requests)

=============================================================================
