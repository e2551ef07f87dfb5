--------------------------- MODULE RolePermissions ---------------------------
(***************************************************************************)
(* Roles and permissions of a tenant: RbacResolverGql, RolesController and *)
(* PermissionsController change the tables, PermissionsService reads them  *)
(* through the process's MemoryCache, and what it returns ends up in       *)
(* access tokens (TokenController) and in a request's permissions          *)
(* (AuthClaimsGuard).  A request is a process, an action one statement.    *)
(*                                                                         *)
(* All queries are scoped by one tenant; a role stands for its name and a  *)
(* permission for its key, which are unique in the tenant.                 *)
(***************************************************************************)
EXTENDS Naturals, Sequences, FiniteSets, MemoryCache

CONSTANTS Roles,        \* names of roles
          ManagerRoles, \* those among "owner" and "admin"
          Keys,         \* keys of permissions
          KeySets,      \* sets of keys an admin may ask for
          Users,        \* ids of users
          Requests,     \* slots for requests in flight
          Null,
          MaxEntries,   \* the cache's maxEntries
          MaxUpdates,   \* bound: updates of a role's permissions
          MaxFails      \* bound: requests that die half way

ASSUME SubsetsAssumption == ManagerRoles \subseteq Roles /\ KeySets \subseteq SUBSET Keys

ASSUME NullAssumption == Null \notin Roles \cup Users /\ \A ks \in SUBSET Keys : ks # Null

ASSUME BoundsAssumption == MaxEntries \in Nat \ {0} /\ MaxUpdates \in Nat /\ MaxFails \in Nat

VARIABLES roles,      \* table roles
          perms,      \* table permissions
          grants,     \* table role_permissions: the keys of each role
          assigned,   \* table user_roles: the roles of each user
          cache,      \* the store of the process's MemoryCache
          claims,     \* the permissions in the user's unexpired access token
          req,        \* the local variables of each request
          updates,    \* updates of a role's permissions, so far
          fails,      \* requests that died half way, so far
          asked,      \* history: the sets of permissions asked for each role
          answered,   \* history: the set the last update of a role was answered for
          disturbed   \* history: roles with an update that overlapped another or died

tables == <<roles, perms, grants, assigned>>
history == <<asked, answered, disturbed>>
vars == <<tables, cache, claims, req, updates, fails, history>>

PCs == {"idle", "insertRole", "insertKey",
        "delete", "insert",                    \* setting a role's permissions
        "readRoles", "readGrants", "store"}    \* getPermissionsForUser

\* got: the roles, then the permissions, that have been read; forToken tells a
\* call by TokenController from one by AuthClaimsGuard.
Request == [pc : PCs, role : Roles \cup {Null}, keys : SUBSET Keys, user : Users \cup {Null},
            got : (SUBSET Keys) \cup SUBSET Roles, forToken : BOOLEAN]

Idle == [pc |-> "idle", role |-> Null, keys |-> {}, user |-> Null, got |-> {},
         forToken |-> FALSE]

At(r, pc) == req[r].pc = pc
Goto(r, pc) == req' = [req EXCEPT ![r].pc = pc]
Finish(r) == req' = [req EXCEPT ![r] = Idle]

\* Requests between the DELETE of role n's permissions and the answer.
Updating(n) == {r \in Requests : req[r].pc \in {"delete", "insert"} /\ req[r].role = n}

PermissionsOf(u) == UNION {grants[n] : n \in assigned[u]}

(***************************************************************************)
(* Creating roles and permissions.  A name or key that is there is         *)
(* answered 409; one that is inserted meanwhile makes the INSERT throw.    *)
(***************************************************************************)
CreateRole(r, n) ==
  /\ At(r, "idle") /\ n \notin roles
  /\ req' = [req EXCEPT ![r] = [Idle EXCEPT !.pc = "insertRole", !.role = n]]
  /\ UNCHANGED <<tables, cache, claims, updates, fails, history>>

InsertRole(r) ==
  /\ At(r, "insertRole")
  /\ roles' = roles \cup {req[r].role}
  /\ Finish(r)
  /\ UNCHANGED <<perms, grants, assigned, cache, claims, updates, fails, history>>

CreatePermission(r, k) ==
  /\ At(r, "idle") /\ k \notin perms
  /\ req' = [req EXCEPT ![r] = [Idle EXCEPT !.pc = "insertKey", !.keys = {k}]]
  /\ UNCHANGED <<tables, cache, claims, updates, fails, history>>

InsertKey(r) ==
  /\ At(r, "insertKey")
  /\ perms' = perms \cup req[r].keys
  /\ Finish(r)
  /\ UNCHANGED <<roles, grants, assigned, cache, claims, updates, fails, history>>

\* acceptInvitation gives the user it has created one role.
AssignRole(u, n) ==
  /\ n \in roles /\ assigned[u] = {}
  /\ assigned' = [assigned EXCEPT ![u] = {n}]
  /\ UNCHANGED <<roles, perms, grants, cache, claims, req, updates, fails, history>>

(***************************************************************************)
(* Setting a role's permissions.  An unknown role or key is refused.       *)
(***************************************************************************)
SetPermissions(r, n, ks) ==
  /\ At(r, "idle") /\ updates < MaxUpdates
  /\ n \in roles /\ ks \subseteq perms
  /\ updates' = updates + 1
  /\ req' = [req EXCEPT ![r] = [Idle EXCEPT !.pc = "delete", !.role = n, !.keys = ks]]
  /\ asked' = [asked EXCEPT ![n] = @ \cup {ks}]
  /\ disturbed' = IF Updating(n) = {} THEN disturbed ELSE disturbed \cup {n}
  /\ UNCHANGED <<tables, cache, claims, fails, answered>>

\* ensureAdminOrOwner: getUserRoleNames has "owner" or "admin" among them.
IsManager(u) == assigned[u] \cap ManagerRoles # {}

\* The GraphQL mutation asks for a manager, the REST endpoint does not.
UpdateRolePermissions(r, actor, n, ks) == IsManager(actor) /\ SetPermissions(r, n, ks)

DeleteGrants(r) ==
  /\ At(r, "delete")
  /\ grants' = [grants EXCEPT ![req[r].role] = {}]
  /\ Goto(r, "insert")
  /\ UNCHANGED <<roles, perms, assigned, cache, claims, updates, fails, history>>

\* Mutant: a statement and a transaction for each row.
InsertRowByRow(r) ==
  LET n == req[r].role IN
  /\ At(r, "insert")
  /\ IF req[r].keys \subseteq grants[n]
     THEN Finish(r) /\ answered' = [answered EXCEPT ![n] = grants[n]] /\ UNCHANGED grants
     ELSE /\ \E k \in req[r].keys \ grants[n] : grants' = [grants EXCEPT ![n] = @ \cup {k}]
          /\ UNCHANGED <<req, answered>>
  /\ UNCHANGED <<roles, perms, assigned, cache, claims, updates, fails, asked, disturbed>>

\* save(rows) is one transaction.  A row that another update has inserted
\* meanwhile makes it throw, and none is inserted.
InsertGrants(r) ==
  LET n == req[r].role
      Clash == req[r].keys \cap grants[n] # {}
  IN
  /\ At(r, "insert")
  /\ grants' = IF Clash THEN grants ELSE [grants EXCEPT ![n] = @ \cup req[r].keys]
  /\ answered' = IF Clash THEN answered ELSE [answered EXCEPT ![n] = req[r].keys]
  /\ Finish(r)
  /\ UNCHANGED <<roles, perms, assigned, cache, claims, updates, fails, asked, disturbed>>

(***************************************************************************)
(* getPermissionsForUser.  Rows of permissions never change, so finding    *)
(* the keys of the permissions needs no step of its own.  An empty result  *)
(* is not cached.                                                          *)
(***************************************************************************)

\* The call returns ps: POST /token signs it into the user's access token; the
\* guard adds it to the request's claims and lets the request in.
Return(r, u, forToken, ps) ==
  /\ claims' = IF forToken THEN [claims EXCEPT ![u] = ps] ELSE claims
  /\ Finish(r)

GetPermissions(r, u, forToken) ==
  /\ At(r, "idle")
  /\ cache' = CacheGet(cache, u)
  /\ IF CacheHit(cache, u) THEN Return(r, u, forToken, CacheValue(cache, u))
     ELSE /\ req' = [req EXCEPT ![r] = [Idle EXCEPT !.pc = "readRoles", !.user = u,
                                                   !.forToken = forToken]]
          /\ UNCHANGED claims
  /\ UNCHANGED <<tables, updates, fails, history>>

\* POST /token, for the user of the code or of the refresh token.
AskForToken(r, u) == GetPermissions(r, u, TRUE)

\* A token verifies until it expires: its kid leads to a row of the key table,
\* or to a key imported from one (TokensVerifiable of SigningKeys).
VerifyJwt(u) == claims[u] # Null

\* AuthClaimsGuard, after AccessTokenGuard has let the user's token pass.
AskInGuard(r, u) == VerifyJwt(u) /\ GetPermissions(r, u, FALSE)

ReadRoles(r) ==
  LET ns == assigned[req[r].user] IN
  /\ At(r, "readRoles")
  /\ IF ns = {} THEN Return(r, req[r].user, req[r].forToken, {})
     ELSE req' = [req EXCEPT ![r].pc = "readGrants", ![r].got = ns] /\ UNCHANGED claims
  /\ UNCHANGED <<tables, cache, updates, fails, history>>

\* Mutant: the ids that were read are passed on instead of the keys.
ReadGrantsOfIds(r) ==
  LET ps == UNION {grants[n] : n \in req[r].got} IN
  /\ At(r, "readGrants")
  /\ IF ps = {} THEN Return(r, req[r].user, req[r].forToken, {})
     ELSE req' = [req EXCEPT ![r].pc = "store"] /\ UNCHANGED claims
  /\ UNCHANGED <<tables, cache, updates, fails, history>>

ReadGrants(r) ==
  LET ps == UNION {grants[n] : n \in req[r].got} IN
  /\ At(r, "readGrants")
  /\ IF ps = {} THEN Return(r, req[r].user, req[r].forToken, {})
     ELSE req' = [req EXCEPT ![r].pc = "store", ![r].got = ps] /\ UNCHANGED claims
  /\ UNCHANGED <<tables, cache, updates, fails, history>>

StorePermissions(r) ==
  /\ At(r, "store")
  /\ cache' = CacheSet(cache, MaxEntries, req[r].user, req[r].got)
  /\ Return(r, req[r].user, req[r].forToken, req[r].got)
  /\ UNCHANGED <<tables, updates, fails, history>>

(***************************************************************************)
(* The environment                                                         *)
(***************************************************************************)

\* A minute passes over the cache entry of a user.
LapseEntry(u) ==
  /\ CacheHit(cache, u)
  /\ cache' = CacheLapse(cache, u)
  /\ UNCHANGED <<tables, claims, req, updates, fails, history>>

\* Five minutes pass over an access token.
LapseToken(u) ==
  /\ claims[u] # Null
  /\ claims' = [claims EXCEPT ![u] = Null]
  /\ UNCHANGED <<tables, cache, req, updates, fails, history>>

\* A statement throws, or the process of the request dies.
Fail(r) ==
  /\ ~At(r, "idle") /\ fails < MaxFails
  /\ fails' = fails + 1
  /\ disturbed' = IF At(r, "insert") THEN disturbed \cup {req[r].role} ELSE disturbed
  /\ Finish(r)
  /\ UNCHANGED <<tables, cache, claims, updates, asked, answered>>

(***************************************************************************)
(* Specification                                                           *)
(***************************************************************************)
Init ==
  /\ roles = {} /\ perms = {}
  /\ grants = [n \in Roles |-> {}]
  /\ assigned = [u \in Users |-> {}]
  /\ cache = <<>>
  /\ claims = [u \in Users |-> Null]
  /\ req = [r \in Requests |-> Idle]
  /\ updates = 0 /\ fails = 0
  /\ asked = [n \in Roles |-> {}]
  /\ answered = [n \in Roles |-> {}]
  /\ disturbed = {}

Arrive(r) ==
  \/ \E n \in Roles : CreateRole(r, n)
  \/ \E k \in Keys : CreatePermission(r, k)
  \/ \E n \in Roles, ks \in KeySets : SetPermissions(r, n, ks)
  \/ \E actor \in Users, n \in Roles, ks \in KeySets : UpdateRolePermissions(r, actor, n, ks)
  \/ \E u \in Users : AskForToken(r, u) \/ AskInGuard(r, u)

Advance(r) ==
  \/ InsertRole(r)
  \/ InsertKey(r)
  \/ DeleteGrants(r)
  \/ InsertGrants(r)
  \/ ReadRoles(r)
  \/ ReadGrants(r)
  \/ StorePermissions(r)

Next ==
  \/ \E r \in Requests : Arrive(r) \/ Advance(r) \/ Fail(r)
  \/ \E u \in Users, n \in Roles : AssignRole(u, n)
  \/ \E u \in Users : LapseEntry(u) \/ LapseToken(u)

Spec == Init /\ [][Next]_vars

\* Statements that have been started end, and time passes.
Fairness ==
  /\ \A r \in Requests : WF_vars(Advance(r))
  /\ \A u \in Users : WF_vars(LapseEntry(u)) /\ WF_vars(LapseToken(u))

FairSpec == Spec /\ Fairness

(***************************************************************************)
(* Properties                                                              *)
(***************************************************************************)

\* Tables, cache, claims and requests keep their types.
TypeOK ==
  /\ roles \subseteq Roles /\ perms \subseteq Keys
  /\ grants \in [Roles -> SUBSET Keys]
  /\ assigned \in [Users -> SUBSET Roles]
  /\ \A i \in 1..Len(cache) : cache[i] \in CacheEntry(Users, SUBSET Keys)
  /\ \A u \in Users : claims[u] = Null \/ claims[u] \in SUBSET Keys
  /\ req \in [Requests -> Request]
  /\ updates \in 0..MaxUpdates /\ fails \in 0..MaxFails
  /\ asked \in [Roles -> SUBSET SUBSET Keys]
  /\ answered \in [Roles -> SUBSET Keys]
  /\ disturbed \subseteq Roles

\* Updates that overlap may leave the union of what they ask for, and one that
\* dies leaves nothing, but no role ever has a part of a set somebody asked
\* for, and nothing else gets into the cache or a token.  A role whose updates
\* neither overlapped nor died has exactly what the last one was answered for.
GrantsAreAsked ==
  LET Unions(n) == {UNION S : S \in SUBSET asked[n]}
      OfUser(u) == {{}} \cup UNION {Unions(n) : n \in assigned[u]}
  IN
  /\ \A n \in Roles : grants[n] \in Unions(n)
  /\ \A i \in 1..Len(cache) : cache[i].value \in OfUser(cache[i].key)
  /\ \A u \in Users : claims[u] # Null => claims[u] \in OfUser(u)
  /\ \A n \in Roles \ disturbed : Updating(n) = {} => grants[n] = answered[n]

\* The cache never outgrows its limit and holds a key once, though set makes
\* room before it knows whether its key is new; an entry that has not expired
\* goes only to make room, and only the first.
CacheEvictsOldest ==
  [][ /\ Len(cache') <= MaxEntries
      /\ Cardinality(CachedKeys(cache')) = Len(cache')
      /\ \A i \in 1..Len(cache) :
           (cache[i].live /\ cache[i].key \notin CachedKeys(cache'))
              => i = 1 /\ Len(cache) = MaxEntries ]_vars

\* Once roles stop changing, whatever was read before, cached and signed,
\* gives way to what the tables say: a fill that was under way when the change
\* was made delays this by one more minute, a token by five, and no longer.
PermissionsConverge ==
  <>[](\A u \in Users :
         /\ CacheHit(cache, u) => CacheValue(cache, u) = PermissionsOf(u)
         /\ claims[u] # Null => claims[u] = PermissionsOf(u))

=============================================================================
