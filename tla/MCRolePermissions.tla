-------------------------- MODULE MCRolePermissions --------------------------
(* RolePermissions with one role and two keys: with two users and a cache  *)
(* of one entry, where everything evicts, for the tables; with three users *)
(* and a cache of two, where there is an order, for the cache.             *)
EXTENDS RolePermissions, TLC

CONSTANTS k1, k2

MCKeySets == {{k1}, {k1, k2}}

\* Sound where nothing temporal but steps is checked.
Symmetry == Permutations(Users) \cup Permutations(Requests)

=============================================================================
