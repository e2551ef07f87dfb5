---------------------------- MODULE MCOrgStructure ----------------------------
(* OrgStructure from an organisation that has invited one user twice and   *)
(* has a project.                                                          *)
EXTENDS OrgStructure

CONSTANTS acme, beta, boss, ann, pm, i1, i2, x1, c1

Pending == [i \in Invites |->
  CASE i = i1 -> [account |-> <<acme, ann>>, role |-> pm, fresh |-> TRUE, accepted |-> FALSE]
    [] i = i2 -> [account |-> <<acme, ann>>, role |-> Owner, fresh |-> TRUE, accepted |-> FALSE]
    [] OTHER -> Null]

MCInit == MemberInit(acme, boss, Pending) /\ StructureInit(<<acme, boss>>, x1, c1, x1)

MCSpec == MCInit /\ [][Next]_vars

MCRoleSets == {{pm}}

=============================================================================
