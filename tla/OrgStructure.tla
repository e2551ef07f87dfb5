----------------------------- MODULE OrgStructure -----------------------------
(***************************************************************************)
(* OrgStructureResolver: the portfolios, projects, teams and team members  *)
(* of the organisations of Members, whose requests and audit log it shares *)
(* with them.  A mutation checks the caller's role in the tenant it names, *)
(* inserts a row of that tenant and tells the audit log; a reference to    *)
(* another table only has to exist, which its foreign key sees to.         *)
(***************************************************************************)
EXTENDS Members

CONSTANTS StructureRoles, \* "owner", "admin" and "project-manager"
          Ids,            \* ids of portfolios and of teams
          Codes           \* codes of projects

ASSUME StructureAssumption == ManagerRoles \subseteq StructureRoles /\ StructureRoles \subseteq RoleNames

VARIABLES portfolios,  \* table portfolios
          projects,    \* table projects
          teams,       \* table teams
          teamMembers  \* table team_members

structure == <<portfolios, projects, teams, teamMembers>>
vars == <<memberVars, structure>>

\* A project is the one with its code in its tenant.
ProjectId == Tenants \X Codes

Portfolio == [id : Ids, tenant : Tenants]
Project == [id : ProjectId, tenant : Tenants, portfolio : Ids]
Team == [id : Ids, tenant : Tenants, project : ProjectId]
\* Nothing sets status to 'removed': it is always 'active', and what
\* addTeamMember does to a member that was removed never happens.
TeamMember == [tenant : Tenants, team : Ids, user : Accounts]

StructurePCs == {"saveProject", "saveTeamMember"}

IdsOf(rows) == {row.id : row \in rows}

EnsureProjectManagerOrAbove(t, actor) == HasRole(t, actor, StructureRoles)

(***************************************************************************)
(* Mutations.  about names the rows: the id, or the code, and the user.    *)
(***************************************************************************)
CreatePortfolio(r, t, p, actor) ==
  /\ EnsureAdminOrOwner(t, actor) /\ p \notin IdsOf(portfolios) /\ Admit(r)
  /\ portfolios' = portfolios \cup {[id |-> p, tenant |-> t]}
  /\ ThenAudit(r, Event("portfolio.created", t, actor, {p}))
  /\ UNCHANGED <<memberTables, audit, fails, history, projects, teams, teamMembers>>

\* A code that is taken is answered PROJECT_CODE_TAKEN.
CreateProject(r, t, p, c, actor) ==
  /\ EnsureAdminOrOwner(t, actor) /\ <<t, c>> \notin IdsOf(projects) /\ Admit(r)
  /\ Start(r, [Idle EXCEPT !.pc = "saveProject",
                           !.row = [id |-> <<t, c>>, tenant |-> t, portfolio |-> p],
                           !.event = Event("project.created", t, actor, {c})])
  /\ UNCHANGED <<memberTables, audit, fails, history, structure>>

\* Mutant: no unique index on tenant_id and code.
SaveProjectAnyway(r) ==
  /\ At(r, "saveProject")
  /\ IF req[r].row.portfolio \in IdsOf(portfolios)
     THEN projects' = projects \cup {req[r].row} /\ Goto(r, "audit")
     ELSE Finish(r) /\ UNCHANGED projects
  /\ UNCHANGED <<memberTables, audit, bounds, history, portfolios, teams, teamMembers>>

\* The INSERT throws when the code has been taken meanwhile, or when there is
\* no such portfolio.
SaveProject(r) ==
  LET row == req[r].row IN
  /\ At(r, "saveProject")
  /\ IF row.id \notin IdsOf(projects) /\ row.portfolio \in IdsOf(portfolios)
     THEN projects' = projects \cup {row} /\ Goto(r, "audit")
     ELSE Finish(r) /\ UNCHANGED projects
  /\ UNCHANGED <<memberTables, audit, bounds, history, portfolios, teams, teamMembers>>

\* Mutant: the project's code is stored for its id.
CreateTeamByCode(r, t, g, j, actor) ==
  /\ EnsureProjectManagerOrAbove(t, actor) /\ g \notin IdsOf(teams) /\ Admit(r)
  /\ j \in IdsOf(projects)
  /\ teams' = teams \cup {[id |-> g, tenant |-> t, project |-> j[2]]}
  /\ ThenAudit(r, Event("team.created", t, actor, {g}))
  /\ UNCHANGED <<memberTables, audit, fails, history, portfolios, projects, teamMembers>>

CreateTeam(r, t, g, j, actor) ==
  /\ EnsureProjectManagerOrAbove(t, actor) /\ g \notin IdsOf(teams) /\ Admit(r)
  /\ j \in IdsOf(projects)
  /\ teams' = teams \cup {[id |-> g, tenant |-> t, project |-> j]}
  /\ ThenAudit(r, Event("team.created", t, actor, {g}))
  /\ UNCHANGED <<memberTables, audit, fails, history, portfolios, projects, teamMembers>>

\* The user has to be one of the tenant's; a member that is there is answered
\* as it is.
AddTeamMember(r, t, g, a, actor) ==
  LET row == [tenant |-> t, team |-> g, user |-> a] IN
  /\ EnsureProjectManagerOrAbove(t, actor)
  /\ UserExists(a) /\ a[1] = t
  /\ row \notin teamMembers /\ Admit(r)
  /\ Start(r, [Idle EXCEPT !.pc = "saveTeamMember", !.row = row,
                           !.event = Event("team.member.added", t, actor, {g, a[2]})])
  /\ UNCHANGED <<memberTables, audit, fails, history, structure>>

SaveTeamMember(r) ==
  LET row == req[r].row IN
  /\ At(r, "saveTeamMember")
  /\ IF row \notin teamMembers /\ row.team \in IdsOf(teams)
     THEN teamMembers' = teamMembers \cup {row} /\ Goto(r, "audit")
     ELSE Finish(r) /\ UNCHANGED teamMembers
  /\ UNCHANGED <<memberTables, audit, bounds, history, portfolios, projects, teams>>

(***************************************************************************)
(* Queries: rows of the tenant, whatever tenant their parent is of.        *)
(***************************************************************************)
PortfoliosByTenant(t) == {row \in portfolios : row.tenant = t}

ProjectsByPortfolio(t, p) == {row \in projects : row.tenant = t /\ row.portfolio = p}

TeamsByProject(t, j) == {row \in teams : row.tenant = t /\ row.project = j}

TeamMembersByTeam(t, g) == {row \in teamMembers : row.tenant = t /\ row.team = g}

(***************************************************************************)
(* Specification                                                           *)
(***************************************************************************)
\* The organisation's owner has made a portfolio, a project and a team.
StructureInit(owner, p, c, g) ==
  LET t == owner[1] IN
  /\ portfolios = {[id |-> p, tenant |-> t]}
  /\ projects = {[id |-> <<t, c>>, tenant |-> t, portfolio |-> p]}
  /\ teams = {[id |-> g, tenant |-> t, project |-> <<t, c>>]}
  /\ teamMembers = {}
  /\ audit = {Event("portfolio.created", t, owner, {p}), Event("project.created", t, owner, {c}),
              Event("team.created", t, owner, {g})}

\* Any such organisation, whomever it has invited, as long as nobody has joined.
Init ==
  \E owner \in Accounts, p, g \in Ids, c \in Codes, pending \in [Invites -> Invitation \cup {Null}] :
    /\ \A i \in Invites : pending[i] # Null => ~pending[i].accepted
    /\ MemberInit(owner[1], owner[2], pending) /\ StructureInit(owner, p, c, g)

StructureArrive(r) ==
  \E t \in Tenants, actor \in Accounts :
    \/ \E p \in Ids : CreatePortfolio(r, t, p, actor)
    \/ \E p \in Ids, c \in Codes : CreateProject(r, t, p, c, actor)
    \/ \E g \in Ids, j \in ProjectId : CreateTeam(r, t, g, j, actor)
    \/ \E g \in Ids, a \in Accounts : AddTeamMember(r, t, g, a, actor)

StructureAdvance(r) == SaveProject(r) \/ SaveTeamMember(r)

Next ==
  \/ MemberNext /\ UNCHANGED structure
  \/ \E r \in Requests : StructureArrive(r) \/ StructureAdvance(r)

Spec == Init /\ [][Next]_vars

(***************************************************************************)
(* Properties                                                              *)
(***************************************************************************)

\* Tables, audit log and requests keep their types.
TypeOK ==
  /\ tenants \subseteq Tenants
  /\ roles \in [Tenants -> SUBSET RoleNames]
  /\ \A a \in Accounts : users[a] = Null \/ users[a] \in User
  /\ userRoles \subseteq Accounts \X RoleNames
  /\ \A i \in Invites : invites[i] = Null \/ invites[i] \in Invitation
  /\ \A r \in Requests :
       /\ req[r].pc \in MemberPCs \cup StructurePCs
       /\ req[r].account \in Accounts \cup {Null} /\ req[r].invite \in Invites \cup {Null}
       /\ req[r].roles \subseteq RoleNames
  /\ \A event \in audit \cup untold : event.tenant \in Tenants /\ event.actor \in Accounts
  /\ arrivals \in 0..MaxArrivals /\ fails \in 0..MaxFails
  /\ portfolios \subseteq Portfolio /\ projects \subseteq Project
  /\ teams \subseteq Team /\ teamMembers \subseteq TeamMember

\* What a tenant's queries list was made in that tenant, by a user with the
\* role for it there, as the audit log says or would have said, had the request
\* not died; a code means one project, and a team's members are members of the
\* organisation, however the requests that looked before they inserted overlap.
StructureIsTheTenants ==
  LET Told == audit \cup untold \cup {req[r].event : r \in {x \in Requests : At(x, "audit")}}
      MadeBy(type, t, about, may(_, _)) ==
        \E event \in Told : /\ event.type = type /\ event.tenant = t /\ event.about = about
                            /\ may(t, event.actor)
  IN
  \A t \in Tenants :
    /\ \A row \in PortfoliosByTenant(t) :
         MadeBy("portfolio.created", t, {row.id}, EnsureAdminOrOwner)
    /\ \A p \in Ids : \A row \in ProjectsByPortfolio(t, p) :
         /\ MadeBy("project.created", t, {row.id[2]}, EnsureAdminOrOwner)
         /\ \A q \in Ids \ {p} : row.id \notin IdsOf(ProjectsByPortfolio(t, q))
    /\ \A j \in ProjectId : \A row \in TeamsByProject(t, j) :
         /\ j \in IdsOf(projects)
         /\ MadeBy("team.created", t, {row.id}, EnsureProjectManagerOrAbove)
    /\ \A g \in Ids : \A row \in TeamMembersByTeam(t, g) :
         /\ MadeBy("team.member.added", t, {g, row.user[2]}, EnsureProjectManagerOrAbove)
         /\ row.user[2] \in {m.email : m \in OrgMembers(t)}

=============================================================================
