------------------------------- MODULE Members -------------------------------
(***************************************************************************)
(* Organisations and who belongs to them: OrgsController, OrgResolver,     *)
(* InvitationsController and UserResolver over the tables tenants, roles,  *)
(* users, user_roles, invitations and audit_events.  None of them uses a   *)
(* transaction: a request is a process, an action one statement.           *)
(*                                                                         *)
(* A tenant stands for its slug and a user for its tenant and e-mail,      *)
(* which are unique.  Roles and their assignments are never deleted, so a  *)
(* check of the caller's role is part of the statement that follows it.    *)
(* A request that is refused changes nothing and is left out, and so are   *)
(* the audit events of queries.                                            *)
(***************************************************************************)
EXTENDS Naturals, FiniteSets

CONSTANTS Tenants,      \* slugs of organisations
          Emails,       \* normalized addresses
          RoleNames,
          Owner,        \* the role "owner"
          ManagerRoles, \* "owner" and "admin"
          RoleSets,     \* sets of role names updateMemberRoles is asked for
          Settings,     \* keys of a user's settings
          Invites,      \* ids of invitations, and their tokens
          Requests,     \* slots for requests in flight
          Null,
          MaxArrivals,  \* bound: requests, and invitations that expire
          MaxFails      \* bound: requests that die half way

ASSUME RolesAssumption == /\ Owner \in ManagerRoles /\ ManagerRoles \subseteq RoleNames
                          /\ RoleSets \subseteq SUBSET RoleNames

Accounts == Tenants \X Emails

\* done is onboardingStep = 'DONE'; a setting is there or not.
User == [profile : SUBSET Settings, done : BOOLEAN]

NewUser == [profile |-> {}, done |-> FALSE]

\* fresh is expiresAt >= Date.now(), accepted is acceptedAt, set or not.
Invitation == [account : Accounts, role : RoleNames, fresh : BOOLEAN, accepted : BOOLEAN]

ASSUME NullAssumption == Null \notin User \cup Invitation \cup Accounts \cup Invites \cup Tenants

ASSUME BoundsAssumption == MaxArrivals \in Nat /\ MaxFails \in Nat

VARIABLES tenants,    \* table tenants
          roles,      \* table roles: the names in each tenant
          users,      \* table users
          userRoles,  \* table user_roles
          invites,    \* table invitations
          audit,      \* table audit_events
          req,        \* the local variables of each request
          arrivals,   \* requests and expiries, so far
          fails,      \* requests that died half way, so far
          founded,    \* history: the owners-to-be of what OrgsController created
          joined,     \* history: accounts acceptInvitation created
          stranded,   \* history: accounts and tenants whose request was cut short
          overlapped, \* history: users saved while another request held their row
          untold      \* history: events of requests that died before they were logged

memberTables == <<tenants, roles, users, userRoles, invites>>
bounds == <<arrivals, fails>>
history == <<founded, joined, stranded, overlapped, untold>>
memberVars == <<memberTables, audit, req, bounds, history>>

MemberPCs == {"idle", "findOwner", "saveOwner", "inviteOwner",         \* createOrg
              "saveUser", "findRole", "saveRole", "assign", "accept",  \* acceptInvitation
              "saveRoles",                                             \* updateMemberRoles
              "saveRow", "audit"}

\* account: the user it is about; row: the copy of its row that was read;
\* event: what the audit log is to be told before the answer.
Idle == [pc |-> "idle", account |-> Null, roles |-> {}, invite |-> Null, row |-> Null,
         event |-> Null]

At(r, pc) == req[r].pc = pc
Goto(r, pc) == req' = [req EXCEPT ![r].pc = pc]
Finish(r) == req' = [req EXCEPT ![r] = Idle]
Start(r, locals) == req' = [req EXCEPT ![r] = locals]

Admit(r) == At(r, "idle") /\ arrivals < MaxArrivals /\ arrivals' = arrivals + 1

Event(type, t, actor, about) == [type |-> type, tenant |-> t, actor |-> actor, about |-> about]

ThenAudit(r, event) == Start(r, [Idle EXCEPT !.pc = "audit", !.event = event])

(***************************************************************************)
(* Who may                                                                 *)
(***************************************************************************)
GetUserRoleNames(a) == {n \in RoleNames : <<a, n>> \in userRoles}

UserExists(a) == users[a] # Null

\* A token that verifies: somebody's, of a user that is still there.
AccessTokenGuard(caller) == UserExists(caller)

\* In front of every resolver here.
GraphqlAuthGuard(actor) == AccessTokenGuard(actor)

\* In front of every HTTP path here: none is among its public ones.  Who the
\* caller is makes no difference to the handler.
GlobalAuthGuard == \E caller \in Accounts : AccessTokenGuard(caller)

\* The tenant in the body has to be the one the request names by header, query
\* or host, and the caller's only if it names none.
TenantGuard(t) ==
  \E caller \in Accounts, named \in Tenants \cup {Null} :
    AccessTokenGuard(caller) /\ t = (IF named = Null THEN caller[1] ELSE named)

HasRole(t, actor, names) ==
  GraphqlAuthGuard(actor) /\ actor[1] = t /\ GetUserRoleNames(actor) \cap names # {}

\* The roles are those the caller has in the tenant it names.
EnsureAdminOrOwner(t, actor) == HasRole(t, actor, ManagerRoles)

(***************************************************************************)
(* Organisations.  A slug that is taken is answered 409, by the query or   *)
(* by the unique index.                                                    *)
(***************************************************************************)
SaveTenant(t) == t \notin tenants /\ tenants' = tenants \cup {t}

CreateOrg(r, t, ownerEmail) ==
  /\ GlobalAuthGuard /\ Admit(r)
  /\ SaveTenant(t)
  /\ Start(r, [Idle EXCEPT !.pc = "findOwner", !.account = <<t, ownerEmail>>])
  /\ founded' = founded \cup {<<t, ownerEmail>>}
  /\ UNCHANGED <<roles, users, userRoles, invites, audit, fails, joined, stranded, overlapped, untold>>

\* Mutant: an owner role that is there is taken for an organisation that is
\* complete.
FindOwnerRoleStops(r) ==
  /\ At(r, "findOwner")
  /\ IF Owner \in roles[req[r].account[1]] THEN Finish(r) ELSE Goto(r, "saveOwner")
  /\ UNCHANGED <<memberTables, audit, bounds, history>>

FindOwnerRole(r) ==
  /\ At(r, "findOwner")
  /\ Goto(r, IF Owner \in roles[req[r].account[1]] THEN "inviteOwner" ELSE "saveOwner")
  /\ UNCHANGED <<memberTables, audit, bounds, history>>

\* The unique index refuses a role that has been inserted meanwhile.
SaveOwnerRole(r) ==
  LET t == req[r].account[1] IN
  /\ At(r, "saveOwner")
  /\ IF Owner \in roles[t]
     THEN Finish(r) /\ stranded' = stranded \cup {t} /\ UNCHANGED roles
     ELSE /\ roles' = [roles EXCEPT ![t] = @ \cup {Owner}]
          /\ Goto(r, "inviteOwner")
          /\ UNCHANGED stranded
  /\ UNCHANGED <<tenants, users, userRoles, invites, audit, bounds, founded, joined, overlapped, untold>>

\* generateInviteToken: a token nobody has seen, whichever, good for seven days.
GenerateInviteToken == CHOOSE i \in Invites : invites[i] = Null

SaveInvitation(a, n) ==
  /\ \E i \in Invites : invites[i] = Null
  /\ invites' = [invites EXCEPT ![GenerateInviteToken] =
                   [account |-> a, role |-> n, fresh |-> TRUE, accepted |-> FALSE]]

InviteOwner(r) ==
  /\ At(r, "inviteOwner")
  /\ SaveInvitation(req[r].account, Owner)
  /\ Finish(r)
  /\ UNCHANGED <<tenants, roles, users, userRoles, audit, bounds, history>>

\* The GraphQL mutation saves the tenant alone: no owner role, no invitation.
CreateOrgGql(r, t, actor) ==
  /\ GraphqlAuthGuard(actor) /\ Admit(r)
  /\ SaveTenant(t)
  /\ ThenAudit(r, Event("org.created", t, actor, {}))
  /\ UNCHANGED <<roles, users, userRoles, invites, audit, fails, history>>

(***************************************************************************)
(* Invitations                                                             *)
(***************************************************************************)
CreateInvitation(r, a, n) ==
  /\ GlobalAuthGuard /\ TenantGuard(a[1]) /\ a[1] \in tenants /\ Admit(r)
  /\ SaveInvitation(a, n)
  /\ UNCHANGED <<tenants, roles, users, userRoles, audit, req, fails, history>>

InviteMember(r, a, n, actor) ==
  /\ EnsureAdminOrOwner(a[1], actor) /\ Admit(r)
  /\ SaveInvitation(a, n)
  /\ ThenAudit(r, Event("org.invitation.created", a[1], actor, {a[2], n}))
  /\ UNCHANGED <<tenants, roles, users, userRoles, audit, fails, history>>

\* acceptInvitation: an invitation that is unknown, used or expired is refused.
\* Whoever accepts it sends an access token, though not one of the invited user.
AcceptInvitation(r, i) ==
  /\ GlobalAuthGuard
  /\ invites[i] # Null /\ ~invites[i].accepted /\ invites[i].fresh /\ Admit(r)
  /\ Start(r, [Idle EXCEPT !.pc = "saveUser", !.account = invites[i].account,
                           !.roles = {invites[i].role}, !.invite = i])
  /\ UNCHANGED <<memberTables, audit, fails, history>>

\* Mutant: for a user that is there, the invitation is marked accepted at once.
SaveUserUnlessThere(r) ==
  LET a == req[r].account IN
  /\ At(r, "saveUser")
  /\ IF UserExists(a) THEN Goto(r, "accept") /\ UNCHANGED <<users, joined>>
     ELSE /\ users' = [users EXCEPT ![a] = NewUser]
          /\ joined' = joined \cup {a}
          /\ Goto(r, "findRole")
  /\ UNCHANGED <<tenants, roles, userRoles, invites, audit, bounds, founded, stranded, overlapped, untold>>

\* A user that is there is refused, by the query or by the unique index.
SaveUser(r) ==
  LET a == req[r].account IN
  /\ At(r, "saveUser")
  /\ IF UserExists(a) THEN Finish(r) /\ UNCHANGED <<users, joined>>
     ELSE /\ users' = [users EXCEPT ![a] = NewUser]
          /\ joined' = joined \cup {a}
          /\ Goto(r, "findRole")
  /\ UNCHANGED <<tenants, roles, userRoles, invites, audit, bounds, founded, stranded, overlapped, untold>>

FindRole(r) ==
  /\ At(r, "findRole")
  /\ Goto(r, IF req[r].roles \subseteq roles[req[r].account[1]] THEN "assign" ELSE "saveRole")
  /\ UNCHANGED <<memberTables, audit, bounds, history>>

SaveRole(r) ==
  LET a == req[r].account IN
  /\ At(r, "saveRole")
  /\ IF req[r].roles \subseteq roles[a[1]]
     THEN Finish(r) /\ stranded' = stranded \cup {a} /\ UNCHANGED roles
     ELSE /\ roles' = [roles EXCEPT ![a[1]] = @ \cup req[r].roles]
          /\ Goto(r, "assign")
          /\ UNCHANGED stranded
  /\ UNCHANGED <<tenants, users, userRoles, invites, audit, bounds, founded, joined, overlapped, untold>>

AssignRole(r) ==
  /\ At(r, "assign")
  /\ userRoles' = userRoles \cup ({req[r].account} \X req[r].roles)
  /\ Goto(r, "accept")
  /\ UNCHANGED <<tenants, roles, users, invites, audit, bounds, history>>

MarkAccepted(r) ==
  /\ At(r, "accept")
  /\ invites' = [invites EXCEPT ![req[r].invite].accepted = TRUE]
  /\ Finish(r)
  /\ UNCHANGED <<tenants, roles, users, userRoles, audit, bounds, history>>

(***************************************************************************)
(* Members and their rows                                                  *)
(***************************************************************************)

\* The names the tenant has no role for are to be created.  No assignment
\* follows.
UpdateMemberRoles(r, a, ns, actor) ==
  LET event == Event("org.member.roles_updated", a[1], actor, {a[2]} \cup ns) IN
  /\ EnsureAdminOrOwner(a[1], actor) /\ UserExists(a) /\ Admit(r)
  /\ Start(r, [Idle EXCEPT !.pc = IF ns \subseteq roles[a[1]] THEN "audit" ELSE "saveRoles",
                           !.account = a, !.roles = ns \ roles[a[1]], !.event = event])
  /\ UNCHANGED <<memberTables, audit, fails, history>>

\* One transaction: a role that has been inserted meanwhile refuses them all.
SaveRoles(r) ==
  LET t == req[r].account[1] IN
  /\ At(r, "saveRoles")
  /\ IF req[r].roles \cap roles[t] # {} THEN Finish(r) /\ UNCHANGED roles
     ELSE roles' = [roles EXCEPT ![t] = @ \cup req[r].roles] /\ Goto(r, "audit")
  /\ UNCHANGED <<tenants, users, userRoles, invites, audit, bounds, history>>

\* registerUser: a user without a role.
RegisterUser(r, a, actor) ==
  /\ EnsureAdminOrOwner(a[1], actor) /\ ~UserExists(a) /\ Admit(r)
  /\ users' = [users EXCEPT ![a] = NewUser]
  /\ UNCHANGED <<tenants, roles, userRoles, invites, audit, req, fails, history>>

\* Mutant: the next profile does not start from the one that is there.
ApplySettingsAfresh(profile, ks) == ks

ApplySettingsToProfile(profile, ks) == profile \cup ks

\* Both read the user's row, change the copy and save it: save writes every
\* column in which the copy differs from the row.
UpdateMeSettings(r, a, k) ==
  /\ GraphqlAuthGuard(a) /\ Admit(r)
  /\ Start(r, [Idle EXCEPT
        !.pc = "saveRow", !.account = a,
        !.row = [users[a] EXCEPT !.profile = ApplySettingsToProfile(@, {k})],
        !.event = Event("user.settings.updated", a[1], a, {k})])
  /\ UNCHANGED <<memberTables, audit, fails, history>>

CompleteOnboarding(r, a) ==
  /\ GraphqlAuthGuard(a) /\ Admit(r)
  /\ Start(r, [Idle EXCEPT !.pc = "saveRow", !.account = a,
                           !.row = [users[a] EXCEPT !.done = TRUE],
                           !.event = Event("user.onboarding.completed", a[1], a, {})])
  /\ UNCHANGED <<memberTables, audit, fails, history>>

SaveRow(r) ==
  LET a == req[r].account IN
  /\ At(r, "saveRow")
  /\ users' = [users EXCEPT ![a] = req[r].row]
  /\ overlapped' = IF \E x \in Requests \ {r} : At(x, "saveRow") /\ req[x].account = a
                   THEN overlapped \cup {a} ELSE overlapped
  /\ Goto(r, "audit")
  /\ UNCHANGED <<tenants, roles, userRoles, invites, audit, bounds, founded, joined, stranded, untold>>

\* logEvent, the last statement of a mutation.
LogEvent(r) ==
  /\ At(r, "audit")
  /\ audit' = audit \cup {req[r].event}
  /\ Finish(r)
  /\ UNCHANGED <<memberTables, bounds, history>>

(***************************************************************************)
(* Queries                                                                 *)
(***************************************************************************)
OrgMembers(t) ==
  {[email |-> a[2], roles |-> GetUserRoleNames(a)] : a \in {b \in Accounts : b[1] = t /\ UserExists(b)}}

MeSettings(a) == users[a].profile

MeDashboard(a) == [org |-> a[1], roles |-> GetUserRoleNames(a), settings |-> MeSettings(a),
                   onboarded |-> users[a].done]

(***************************************************************************)
(* The environment                                                         *)
(***************************************************************************)
ExpireInvite(i) ==
  /\ invites[i] # Null /\ invites[i].fresh /\ ~invites[i].accepted
  /\ arrivals < MaxArrivals /\ arrivals' = arrivals + 1
  /\ invites' = [invites EXCEPT ![i].fresh = FALSE]
  /\ UNCHANGED <<tenants, roles, users, userRoles, audit, req, fails, history>>

\* A statement throws, or the process of the request dies.
Fail(r) ==
  /\ ~At(r, "idle") /\ fails < MaxFails
  /\ fails' = fails + 1
  /\ stranded' = CASE req[r].pc \in {"findOwner", "saveOwner", "inviteOwner"} ->
                        stranded \cup {req[r].account[1]}
                   [] req[r].pc \in {"findRole", "saveRole", "assign", "accept"} ->
                        stranded \cup {req[r].account}
                   [] OTHER -> stranded
  /\ untold' = IF At(r, "audit") THEN untold \cup {req[r].event} ELSE untold
  /\ Finish(r)
  /\ UNCHANGED <<memberTables, audit, arrivals, founded, joined, overlapped>>

(***************************************************************************)
(* Specification                                                           *)
(***************************************************************************)

\* An organisation with its owner, and whom it has invited.
MemberInit(t, e, pending) ==
  /\ tenants = {t}
  /\ roles = [x \in Tenants |-> IF x = t THEN {Owner} ELSE {}]
  /\ users = [a \in Accounts |-> IF a = <<t, e>> THEN NewUser ELSE Null]
  /\ userRoles = {<<<<t, e>>, Owner>>}
  /\ invites = pending
  /\ req = [r \in Requests |-> Idle]
  /\ arrivals = 0 /\ fails = 0
  /\ founded = {} /\ joined = {} /\ stranded = {} /\ overlapped = {} /\ untold = {}

MemberArrive(r) ==
  \/ \E t \in Tenants, e \in Emails : CreateOrg(r, t, e)
  \/ \E t \in Tenants, actor \in Accounts : CreateOrgGql(r, t, actor)
  \/ \E a \in Accounts, n \in RoleNames : CreateInvitation(r, a, n)
  \/ \E a, actor \in Accounts, n \in RoleNames : InviteMember(r, a, n, actor)
  \/ \E i \in Invites : AcceptInvitation(r, i)
  \/ \E a, actor \in Accounts, ns \in RoleSets : UpdateMemberRoles(r, a, ns, actor)
  \/ \E a, actor \in Accounts : RegisterUser(r, a, actor)
  \/ \E a \in Accounts, k \in Settings : UpdateMeSettings(r, a, k)
  \/ \E a \in Accounts : CompleteOnboarding(r, a)

MemberAdvance(r) ==
  \/ FindOwnerRole(r)
  \/ SaveOwnerRole(r)
  \/ InviteOwner(r)
  \/ SaveUser(r)
  \/ FindRole(r)
  \/ SaveRole(r)
  \/ AssignRole(r)
  \/ MarkAccepted(r)
  \/ SaveRoles(r)
  \/ SaveRow(r)
  \/ LogEvent(r)

MemberNext ==
  \/ \E r \in Requests : MemberArrive(r) \/ MemberAdvance(r) \/ Fail(r)
  \/ \E i \in Invites : ExpireInvite(i)

(***************************************************************************)
(* Properties                                                              *)
(***************************************************************************)
Running(pcs, about(_)) == \E r \in Requests : req[r].pc \in pcs /\ about(r)

\* Invitations make members, once: however acceptances of one token or of
\* several for one e-mail overlap, one invitation at most is accepted for a
\* user, and from then on the list of members shows the user with that role,
\* among others it may have.  A user that joined has accepted an invitation as
\* soon as its acceptance ends, unless that was cut short, and nobody else has.
JoinsAsInvited ==
  LET Joining(a) == Running({"findRole", "saveRole", "assign", "accept"},
                            LAMBDA r : req[r].account = a)
      Accepted(a) == {i \in Invites : /\ invites[i] # Null /\ invites[i].account = a
                                      /\ invites[i].accepted}
  IN
  \A a \in Accounts :
    /\ Cardinality(Accepted(a)) <= 1
    /\ \A i \in Accepted(a) :
         \E m \in OrgMembers(a[1]) : m.email = a[2] /\ invites[i].role \in m.roles
    /\ a \in joined /\ ~Joining(a) /\ a \notin stranded => Accepted(a) # {}
    /\ a \notin joined => Accepted(a) = {}

\* An organisation created with POST /management/orgs has an owner role and an
\* invitation for its owner as soon as the request has run; only one that died
\* or met another request that created the role leaves it without.
OrgsComeWithOwner ==
  \A a \in founded :
    \/ a[1] \in stranded
    \/ Running({"findOwner", "saveOwner", "inviteOwner"}, LAMBDA r : req[r].account = a)
    \/ /\ Owner \in roles[a[1]]
       /\ \E i \in Invites : /\ invites[i] # Null
                            /\ invites[i].account = a /\ invites[i].role = Owner

\* What updateMeSettings and completeOnboarding have answered for is what the
\* dashboard shows, whatever else the user's row goes through, as long as no
\* save of the row overtook another's read.
ChangesKept ==
  \A event \in audit :
    event.actor \notin overlapped =>
      /\ event.type = "user.settings.updated" => event.about \subseteq MeDashboard(event.actor).settings
      /\ event.type = "user.onboarding.completed" => MeDashboard(event.actor).onboarded

=============================================================================
