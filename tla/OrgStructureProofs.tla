-------------------------- MODULE OrgStructureProofs --------------------------
(***************************************************************************)
(* OrgStructure and the Members it extends, for any number of              *)
(* organisations, users, invitations and requests: what invitations, new   *)
(* organisations, saved settings and the tables of the structure promise.  *)
(* Each promise has an inductive invariant of its own, which ties what the *)
(* requests in flight remember to the tables.                              *)
(***************************************************************************)
EXTENDS OrgStructure, FiniteSetTheorems, TLAPS

-----------------------------------------------------------------------------
(* Types *)

Names == Ids \cup Codes \cup Emails \cup RoleNames \cup Settings

EventTypes ==
  {"org.created", "org.invitation.created", "org.member.roles_updated", "user.settings.updated",
   "user.onboarding.completed", "portfolio.created", "project.created", "team.created",
   "team.member.added"}

Events == [type : EventTypes, tenant : Tenants, actor : Accounts, about : SUBSET Names]

Rows == {Null} \cup User \cup Project \cup TeamMember

Locals == [pc : MemberPCs \cup StructurePCs, account : Accounts \cup {Null},
           roles : SUBSET RoleNames, invite : Invites \cup {Null}, row : Rows,
           event : Events \cup {Null}]

TablesTyped ==
  /\ tenants \subseteq Tenants
  /\ roles \in [Tenants -> SUBSET RoleNames]
  /\ users \in [Accounts -> User \cup {Null}]
  /\ userRoles \subseteq Accounts \X RoleNames
  /\ invites \in [Invites -> Invitation \cup {Null}]
  /\ audit \subseteq Events
  /\ portfolios \subseteq Portfolio /\ projects \subseteq Project
  /\ teams \subseteq Team /\ teamMembers \subseteq TeamMember

Typed ==
  /\ TablesTyped
  /\ req \in [Requests -> Locals]
  /\ arrivals \in 0..MaxArrivals /\ fails \in 0..MaxFails
  /\ founded \subseteq Accounts /\ joined \subseteq Accounts /\ overlapped \subseteq Accounts
  /\ untold \subseteq Events

-----------------------------------------------------------------------------
(* Invitations *)

JoinPCs == {"findRole", "saveRole", "assign", "accept"}

JoiningFor(r, a) == req[r].pc \in JoinPCs /\ req[r].account = a

AcceptedFor(i, a) == invites[i] # Null /\ invites[i].account = a /\ invites[i].accepted

\* A request that accepts an invitation knows whom and what it is for.
OwnInvitation(q) ==
  /\ q.account \in Accounts /\ q.invite \in Invites
  /\ invites[q.invite] # Null /\ invites[q.invite].account = q.account
  /\ q.roles = {invites[q.invite].role}

\* A user is joining in one request, which is the only one to assign it a role.
Acceptances ==
  \A r \in Requests :
    /\ req[r].pc \in JoinPCs \cup {"saveUser"} => OwnInvitation(req[r])
    /\ req[r].pc \in JoinPCs =>
         /\ req[r].account \in joined
         /\ \A i \in Invites : ~AcceptedFor(i, req[r].account)
         /\ \A x \in Requests : JoiningFor(x, req[r].account) => x = r
    /\ req[r].pc \in JoinPCs \ {"accept"} => GetUserRoleNames(req[r].account) = {}
    /\ req[r].pc = "accept" => GetUserRoleNames(req[r].account) = req[r].roles

Joiners ==
  /\ \A a \in joined :
       /\ UserExists(a)
       /\ \/ a \in stranded
          \/ \E r \in Requests : JoiningFor(r, a)
          \/ \E i \in Invites : AcceptedFor(i, a)
  /\ \A a \in Accounts : GetUserRoleNames(a) # {} => UserExists(a)
  /\ \A a \in Accounts : \A i \in Invites : AcceptedFor(i, a) =>
       /\ a \in joined /\ GetUserRoleNames(a) = {invites[i].role}
       /\ \A j \in Invites : AcceptedFor(j, a) => j = i

-----------------------------------------------------------------------------
(* New organisations *)

FoundPCs == {"findOwner", "saveOwner", "inviteOwner"}

FoundingFor(r, a) == req[r].pc \in FoundPCs /\ req[r].account = a

Foundings ==
  /\ \A r \in Requests :
       /\ req[r].pc \in FoundPCs => req[r].account \in Accounts
       /\ req[r].pc = "inviteOwner" => Owner \in roles[req[r].account[1]]
  /\ \A a \in founded :
       \/ a[1] \in stranded
       \/ \E r \in Requests : FoundingFor(r, a)
       \/ /\ Owner \in roles[a[1]]
          /\ \E i \in Invites : /\ invites[i] # Null
                               /\ invites[i].account = a /\ invites[i].role = Owner

-----------------------------------------------------------------------------
(* Saved settings *)

Settled == "user.settings.updated"
Onboarded == "user.onboarding.completed"

\* A row has what the event says.
Shows(row, event) ==
  /\ event.type = Settled => event.about \subseteq row.profile
  /\ event.type = Onboarded => row.done

Kept(event) ==
  /\ event.type \in {Settled, Onboarded} => UserExists(event.actor)
  /\ event.actor \notin overlapped => Shows(users[event.actor], event)

\* A copy of a row that is about to be saved takes nothing back.
RowCopy(q) ==
  /\ q.event \in Events /\ q.event.type \in {Settled, Onboarded}
  /\ q.account \in Accounts /\ q.event.actor = q.account /\ q.row \in User
  /\ UserExists(q.account) /\ Shows(q.row, q.event)
  /\ q.account \notin overlapped => /\ users[q.account].profile \subseteq q.row.profile
                                    /\ users[q.account].done => q.row.done

Saves ==
  /\ \A event \in audit : Kept(event)
  /\ \A r \in Requests :
       /\ req[r].pc = "audit" => req[r].event \in Events /\ Kept(req[r].event)
       /\ req[r].pc \in {"saveRoles", "saveProject", "saveTeamMember"} =>
            req[r].event \in Events /\ req[r].event.type \notin {Settled, Onboarded}
       /\ req[r].pc = "saveRow" => RowCopy(req[r])

-----------------------------------------------------------------------------
(* Structure *)

Told == audit \cup untold \cup {req[r].event : r \in {x \in Requests : At(x, "audit")}}

\* An event that a row of its tenant follows from.
Making(event, type, t, about, names) ==
  event.type = type /\ event.tenant = t /\ event.about = about /\ HasRole(t, event.actor, names)

Made(type, t, about, names) == \E event \in Told : Making(event, type, t, about, names)

MemberOf(t, a) == a[1] = t /\ UserExists(a)

Tables ==
  /\ \A row \in portfolios : Made("portfolio.created", row.tenant, {row.id}, ManagerRoles)
  /\ \A row \in projects :
       /\ row.id[1] = row.tenant
       /\ Made("project.created", row.tenant, {row.id[2]}, ManagerRoles)
       /\ \A other \in projects : other.id = row.id => other = row
  /\ \A row \in teams : /\ row.project \in IdsOf(projects)
                        /\ Made("team.created", row.tenant, {row.id}, StructureRoles)
  /\ \A row \in teamMembers :
       /\ MemberOf(row.tenant, row.user)
       /\ Made("team.member.added", row.tenant, {row.team, row.user[2]}, StructureRoles)

MakesProject(q) ==
  /\ q.row \in Project /\ q.row.id[1] = q.row.tenant
  /\ Making(q.event, "project.created", q.row.tenant, {q.row.id[2]}, ManagerRoles)

MakesMember(q) ==
  /\ q.row \in TeamMember /\ MemberOf(q.row.tenant, q.row.user)
  /\ Making(q.event, "team.member.added", q.row.tenant, {q.row.team, q.row.user[2]}, StructureRoles)

Makers ==
  \A r \in Requests :
    /\ req[r].pc = "saveProject" => MakesProject(req[r])
    /\ req[r].pc = "saveTeamMember" => MakesMember(req[r])

IInv == Typed /\ Acceptances /\ Joiners /\ Foundings /\ Saves /\ Tables /\ Makers

-----------------------------------------------------------------------------
(* What most steps leave alone *)

UsersStay == \A a \in Accounts : UserExists(a) => users'[a] # Null

\* No invitation changes hands, and a new one is open.
InvitesStay ==
  \A i \in Invites :
    /\ invites[i] # Null => /\ invites'[i] # Null
                            /\ invites'[i].account = invites[i].account
                            /\ invites'[i].role = invites[i].role
                            /\ invites'[i].accepted = invites[i].accepted
    /\ (invites[i] = Null /\ invites'[i] # Null) => ~invites'[i].accepted

\* Nobody joins, though a request may begin to accept an invitation.
NobodyJoins ==
  /\ UsersStay /\ InvitesStay
  /\ userRoles' = userRoles /\ joined' = joined /\ stranded \subseteq stranded'
  /\ \A x \in Requests :
       \/ req'[x] = req[x]
       \/ /\ req[x].pc \notin JoinPCs /\ req'[x].pc \notin JoinPCs
          /\ req'[x].pc = "saveUser" => OwnInvitation(req'[x])

NobodyFounds ==
  /\ InvitesStay
  /\ \A t \in Tenants : roles[t] \subseteq roles'[t]
  /\ founded' = founded /\ stranded \subseteq stranded'
  /\ \A x \in Requests :
       req'[x] = req[x] \/ (req[x].pc \notin FoundPCs /\ req'[x].pc \notin FoundPCs)

\* No row of a user is read or saved, and what is to be logged is about
\* something else.
NobodySaves ==
  /\ \A a \in Accounts : UserExists(a) => users'[a] = users[a]
  /\ audit' = audit /\ overlapped' = overlapped
  /\ \A x \in Requests :
       \/ req'[x] = req[x]
       \/ /\ req'[x].pc # "saveRow"
          /\ req'[x].pc \in {"audit", "saveRoles", "saveProject", "saveTeamMember"} =>
               req'[x].event \in Events /\ req'[x].event.type \notin {Settled, Onboarded}

NobodyMakes ==
  /\ UsersStay /\ userRoles \subseteq userRoles'
  /\ UNCHANGED <<structure, audit, untold>>
  /\ \A x \in Requests :
       \/ req'[x] = req[x]
       \/ req[x].pc # "audit" /\ req'[x].pc \notin {"saveProject", "saveTeamMember"}

LEMMA NobodyJoinsInvariant ==
  ASSUME IInv, NobodyJoins
  PROVE  Acceptances' /\ Joiners'
<1>1. \A i \in Invites : \A a : AcceptedFor(i, a)' <=> AcceptedFor(i, a)
  BY DEF NobodyJoins, InvitesStay, AcceptedFor
<1>2. \A a : GetUserRoleNames(a)' = GetUserRoleNames(a)
  BY DEF NobodyJoins, GetUserRoleNames
<1>3. \A x \in Requests : \A a : JoiningFor(x, a)' <=> JoiningFor(x, a)
  BY DEF NobodyJoins, JoiningFor
<1>4. ASSUME NEW x \in Requests, req'[x] = req[x], OwnInvitation(req[x])
      PROVE  OwnInvitation(req[x])'
  BY <1>4 DEF NobodyJoins, InvitesStay, OwnInvitation
<1>5. ASSUME NEW x \in Requests, OwnInvitation(req'[x])
      PROVE  OwnInvitation(req[x])'
  BY <1>5 DEF NobodyJoins, InvitesStay, OwnInvitation
<1>6. Acceptances'
  <2> SUFFICES ASSUME NEW r \in Requests
               PROVE  /\ req'[r].pc \in JoinPCs \cup {"saveUser"} => OwnInvitation(req[r])'
                      /\ req'[r].pc \in JoinPCs =>
                           /\ req'[r].account \in joined'
                           /\ \A i \in Invites : ~AcceptedFor(i, req[r].account)'
                           /\ \A x \in Requests : JoiningFor(x, req[r].account)' => x = r
                      /\ req'[r].pc \in JoinPCs \ {"accept"} =>
                           GetUserRoleNames(req[r].account)' = {}
                      /\ req'[r].pc = "accept" =>
                           GetUserRoleNames(req[r].account)' = req'[r].roles
    BY DEF Acceptances
  <2>1. CASE req'[r] = req[r]
    BY <2>1, <1>1, <1>2, <1>3, <1>4 DEF IInv, Acceptances, NobodyJoins
  <2>2. CASE req'[r] # req[r]
    BY <2>2, <1>5 DEF NobodyJoins, JoinPCs
  <2> QED BY <2>1, <2>2
<1>7. Joiners'
  <2>1. ASSUME NEW a \in joined
        PROVE  /\ UserExists(a)'
               /\ \/ a \in stranded'
                  \/ \E r \in Requests : JoiningFor(r, a)'
                  \/ \E i \in Invites : AcceptedFor(i, a)'
    <3>1. a \in Accounts
      BY DEF IInv, Typed
    <3> QED BY <3>1, <1>1, <1>3 DEF IInv, Joiners, NobodyJoins, UsersStay, UserExists
  <2>2. \A a \in Accounts : GetUserRoleNames(a)' # {} => UserExists(a)'
    BY <1>2 DEF IInv, Joiners, NobodyJoins, UsersStay, UserExists
  <2>3. ASSUME NEW a \in Accounts, NEW i \in Invites, AcceptedFor(i, a)'
        PROVE  /\ a \in joined' /\ GetUserRoleNames(a)' = {invites'[i].role}
               /\ \A j \in Invites : AcceptedFor(j, a)' => j = i
    <3>1. AcceptedFor(i, a)
      BY <1>1, <2>3
    <3>2. invites'[i].role = invites[i].role
      BY <3>1 DEF AcceptedFor, NobodyJoins, InvitesStay
    <3> QED BY <1>1, <1>2, <3>1, <3>2 DEF IInv, Joiners, NobodyJoins
  <2> QED BY <2>1, <2>2, <2>3 DEF Joiners, NobodyJoins
<1> QED BY <1>6, <1>7

LEMMA NobodyFoundsInvariant ==
  ASSUME IInv, NobodyFounds
  PROVE  Foundings'
<1>1. ASSUME NEW r \in Requests
      PROVE  /\ req'[r].pc \in FoundPCs => req'[r].account \in Accounts
             /\ req'[r].pc = "inviteOwner" => Owner \in roles'[req'[r].account[1]]
  <2>1. CASE req'[r] = req[r]
    BY <2>1 DEF IInv, Foundings, NobodyFounds, Accounts, FoundPCs
  <2>2. CASE req'[r] # req[r]
    BY <2>2 DEF NobodyFounds, FoundPCs
  <2> QED BY <2>1, <2>2
<1>2. ASSUME NEW a \in founded
      PROVE  \/ a[1] \in stranded'
             \/ \E r \in Requests : FoundingFor(r, a)'
             \/ /\ Owner \in roles'[a[1]]
                /\ \E i \in Invites : /\ invites'[i] # Null
                                     /\ invites'[i].account = a /\ invites'[i].role = Owner
  <2>1. a \in Accounts /\ a[1] \in Tenants
    BY DEF IInv, Typed, Accounts
  <2>2. CASE a[1] \in stranded
    BY <2>2 DEF NobodyFounds
  <2>3. CASE \E r \in Requests : FoundingFor(r, a)
    BY <2>3 DEF NobodyFounds, FoundingFor
  <2>4. CASE /\ Owner \in roles[a[1]]
             /\ \E i \in Invites : /\ invites[i] # Null
                                  /\ invites[i].account = a /\ invites[i].role = Owner
    BY <2>1, <2>4 DEF NobodyFounds, InvitesStay
  <2> QED BY <2>2, <2>3, <2>4 DEF IInv, Foundings
<1> QED BY <1>1, <1>2 DEF Foundings, NobodyFounds

LEMMA NobodySavesInvariant ==
  ASSUME IInv, NobodySaves
  PROVE  Saves'
<1>1. ASSUME NEW event \in Events, Kept(event) PROVE Kept(event)'
  <2>1. event.actor \in Accounts
    BY DEF Events
  <2> QED BY <1>1, <2>1 DEF NobodySaves, Kept, UserExists, Shows
<1>2. ASSUME NEW event \in Events, event.type \notin {Settled, Onboarded} PROVE Kept(event)'
  BY <1>2 DEF Kept, Shows
<1>3. \A event \in audit' : Kept(event)'
  BY <1>1 DEF NobodySaves, IInv, Saves, Typed, TablesTyped
<1>4. ASSUME NEW r \in Requests
      PROVE  /\ req'[r].pc = "audit" => req'[r].event \in Events /\ Kept(req[r].event)'
             /\ req'[r].pc \in {"saveRoles", "saveProject", "saveTeamMember"} =>
                  req'[r].event \in Events /\ req'[r].event.type \notin {Settled, Onboarded}
             /\ req'[r].pc = "saveRow" => RowCopy(req[r])'
  <2>1. CASE req'[r] = req[r]
    <3>1. req[r].pc = "audit" => req[r].event \in Events /\ Kept(req[r].event)'
      BY <2>1, <1>1 DEF IInv, Saves, Kept
    <3>2. req[r].pc = "saveRow" => RowCopy(req[r])'
      BY <2>1 DEF IInv, Saves, NobodySaves, RowCopy, UserExists, Shows
    <3> QED BY <2>1, <3>1, <3>2 DEF IInv, Saves
  <2>2. CASE req'[r] # req[r]
    BY <2>2, <1>2 DEF NobodySaves
  <2> QED BY <2>1, <2>2
<1> QED BY <1>3, <1>4 DEF Saves

\* What has been told, and who was allowed to, is never taken back.
LEMMA MadeStays ==
  ASSUME UsersStay, userRoles \subseteq userRoles', Told \subseteq Told',
         NEW type, NEW t, NEW about, NEW names, NEW event
  PROVE  /\ event.actor \in Accounts /\ Making(event, type, t, about, names)
              => Making(event, type, t, about, names)'
         /\ Told \subseteq Events /\ Made(type, t, about, names) => Made(type, t, about, names)'
<1>1. ASSUME NEW e, e.actor \in Accounts, Making(e, type, t, about, names)
      PROVE  Making(e, type, t, about, names)'
  BY <1>1 DEF UsersStay, Making, HasRole, GraphqlAuthGuard, AccessTokenGuard, UserExists,
              GetUserRoleNames
<1>2. Told \subseteq Events => \A e \in Told : e.actor \in Accounts
  BY DEF Events
<1> QED BY <1>1, <1>2 DEF Made

\* A step keeps what has been told if the audit log gets no smaller and what
\* was to be logged is still to be, or has been.
LEMMA ToldStays ==
  ASSUME audit \subseteq audit', untold \subseteq untold',
         \A x \in Requests : req[x].pc = "audit" =>
            req'[x] = req[x] \/ req[x].event \in audit' \cup untold'
  PROVE  Told \subseteq Told'
<1> SUFFICES ASSUME NEW event \in Told PROVE event \in Told'
  OBVIOUS
<1>1. CASE event \in audit \cup untold
  BY <1>1 DEF Told
<1>2. CASE \E x \in Requests : req[x].pc = "audit" /\ event = req[x].event
  <2>1. PICK x \in Requests : req[x].pc = "audit" /\ event = req[x].event
    BY <1>2
  <2>2. CASE req'[x] = req[x]
    BY <2>1, <2>2 DEF Told, At
  <2>3. CASE req[x].event \in audit' \cup untold'
    BY <2>1, <2>3 DEF Told
  <2> QED BY <2>1, <2>2, <2>3
<1> QED BY <1>1, <1>2 DEF Told, At

LEMMA ToldTyped ==
  ASSUME IInv
  PROVE  Told \subseteq Events
BY DEF IInv, Typed, TablesTyped, Saves, Told, At

LEMMA MembersStay ==
  ASSUME UsersStay, NEW t, NEW a \in Accounts, MemberOf(t, a)
  PROVE  MemberOf(t, a)'
BY DEF UsersStay, MemberOf, UserExists

\* A request that is to insert a row stays allowed to.
LEMMA MakerStays ==
  ASSUME UsersStay, userRoles \subseteq userRoles', NEW q, q.event \in Events
  PROVE  /\ MakesProject(q) => MakesProject(q)'
         /\ MakesMember(q) => MakesMember(q)'
<1>1. q.event.actor \in Accounts
  BY DEF Events
<1>2. ASSUME NEW type, NEW t, NEW about, NEW names, Making(q.event, type, t, about, names)
      PROVE  Making(q.event, type, t, about, names)'
  BY <1>1, <1>2 DEF UsersStay, Making, HasRole, GraphqlAuthGuard, AccessTokenGuard, UserExists,
                    GetUserRoleNames
<1>3. ASSUME MakesProject(q) PROVE MakesProject(q)'
  BY <1>2, <1>3 DEF MakesProject
<1>4. ASSUME MakesMember(q) PROVE MakesMember(q)'
  <2>1. q.row \in TeamMember /\ q.row.user \in Accounts /\ MemberOf(q.row.tenant, q.row.user)
    BY <1>4 DEF MakesMember, TeamMember
  <2>2. MemberOf(q.row.tenant, q.row.user)'
    BY <2>1 DEF UsersStay, MemberOf, UserExists
  <2> QED BY <1>2, <1>4, <2>2 DEF MakesMember
<1> QED BY <1>3, <1>4

\* Requests that are at rest keep what they are to insert, and the tables that
\* are left alone what they promise.
LEMMA MakersStay ==
  ASSUME IInv, UsersStay, userRoles \subseteq userRoles',
         NEW r \in Requests, req'[r] = req[r]
  PROVE  /\ req'[r].pc = "saveProject" => MakesProject(req[r])'
         /\ req'[r].pc = "saveTeamMember" => MakesMember(req[r])'
<1> PICK q : q = req[r]
  OBVIOUS
<1>1. CASE q.pc = "saveProject"
  <2>1. MakesProject(q) /\ q.event \in Events
    BY <1>1 DEF IInv, Makers, Saves
  <2>2. MakesProject(q)'
    BY <2>1, MakerStays
  <2> QED BY <1>1, <2>2
<1>2. CASE q.pc = "saveTeamMember"
  <2>1. MakesMember(q) /\ q.event \in Events
    BY <1>2 DEF IInv, Makers, Saves
  <2>2. MakesMember(q)'
    BY <2>1, MakerStays
  <2> QED BY <1>2, <2>2
<1> QED BY <1>1, <1>2

LEMMA PortfoliosStay ==
  ASSUME IInv, UsersStay, userRoles \subseteq userRoles', Told \subseteq Told',
         NEW row \in portfolios
  PROVE  Made("portfolio.created", row.tenant, {row.id}, ManagerRoles)'
BY ToldTyped, MadeStays DEF IInv, Tables

LEMMA ProjectsStay ==
  ASSUME IInv, UsersStay, userRoles \subseteq userRoles', Told \subseteq Told',
         NEW row \in projects
  PROVE  Made("project.created", row.tenant, {row.id[2]}, ManagerRoles)'
BY ToldTyped, MadeStays DEF IInv, Tables

LEMMA TeamsStay ==
  ASSUME IInv, UsersStay, userRoles \subseteq userRoles', Told \subseteq Told',
         NEW row \in teams
  PROVE  Made("team.created", row.tenant, {row.id}, StructureRoles)'
BY ToldTyped, MadeStays DEF IInv, Tables

LEMMA TeamMembersStay ==
  ASSUME IInv, UsersStay, userRoles \subseteq userRoles', Told \subseteq Told',
         NEW row \in teamMembers
  PROVE  /\ MemberOf(row.tenant, row.user)'
         /\ Made("team.member.added", row.tenant, {row.team, row.user[2]}, StructureRoles)'
<1>1. row.user \in Accounts
  BY DEF IInv, Typed, TablesTyped, TeamMember
<1> QED BY <1>1, ToldTyped, MadeStays, MembersStay DEF IInv, Tables

LEMMA TablesStay ==
  ASSUME IInv, UsersStay, userRoles \subseteq userRoles', Told \subseteq Told',
         UNCHANGED structure
  PROVE  Tables'
<1>1. /\ portfolios' = portfolios /\ projects' = projects
      /\ teams' = teams /\ teamMembers' = teamMembers
  BY DEF structure
<1>2. \A row \in projects : /\ row.id[1] = row.tenant
                             /\ \A other \in projects : other.id = row.id => other = row
  BY DEF IInv, Tables
<1>3. \A row \in teams : row.project \in IdsOf(projects)
  BY DEF IInv, Tables
<1> QED BY <1>1, <1>2, <1>3, PortfoliosStay, ProjectsStay, TeamsStay, TeamMembersStay
        DEF Tables, IdsOf

LEMMA NobodyMakesInvariant ==
  ASSUME IInv, NobodyMakes
  PROVE  Tables' /\ Makers'
<1>1. Told \subseteq Told'
  BY ToldStays DEF NobodyMakes
<1>2. Tables'
  BY <1>1, TablesStay DEF NobodyMakes
<1>3. ASSUME NEW r \in Requests
      PROVE  /\ req'[r].pc = "saveProject" => MakesProject(req[r])'
             /\ req'[r].pc = "saveTeamMember" => MakesMember(req[r])'
  BY MakersStay DEF NobodyMakes
<1> QED BY <1>2, <1>3 DEF Makers

-----------------------------------------------------------------------------
(* Requests *)

LEMMA IdleTyped == Idle \in Locals /\ Idle.pc = "idle"
BY DEF Idle, Locals, Rows, MemberPCs

LEMMA EventTyped ==
  ASSUME NEW type \in EventTypes, NEW t \in Tenants, NEW actor \in Accounts,
         NEW about \in SUBSET Names
  PROVE  /\ Event(type, t, actor, about) \in Events
         /\ Event(type, t, actor, about).type = type
         /\ Event(type, t, actor, about).tenant = t
         /\ Event(type, t, actor, about).actor = actor
         /\ Event(type, t, actor, about).about = about
BY DEF Event, Events

LEMMA StartIs ==
  ASSUME Typed, NEW r \in Requests, NEW q \in Locals, Start(r, q)
  PROVE  /\ req' \in [Requests -> Locals] /\ req'[r] = q
         /\ \A x \in Requests : x # r => req'[x] = req[x]
BY DEF Typed, Start

LEMMA FinishIs ==
  ASSUME Typed, NEW r \in Requests, Finish(r)
  PROVE  /\ req' \in [Requests -> Locals] /\ req'[r].pc = "idle"
         /\ \A x \in Requests : x # r => req'[x] = req[x]
BY IdleTyped DEF Typed, Finish

LEMMA GotoIs ==
  ASSUME Typed, NEW r \in Requests, NEW pc \in MemberPCs, Goto(r, pc)
  PROVE  /\ req' \in [Requests -> Locals] /\ req'[r].pc = pc
         /\ req'[r].account = req[r].account /\ req'[r].roles = req[r].roles
         /\ req'[r].invite = req[r].invite /\ req'[r].event = req[r].event
         /\ req'[r].row = req[r].row
         /\ \A x \in Requests : x # r => req'[x] = req[x]
<1>1. req[r] \in Locals
  BY DEF Typed
<1> DEFINE q == [req[r] EXCEPT !.pc = pc]
<1>2. /\ q \in Locals /\ q.pc = pc /\ q.account = req[r].account /\ q.roles = req[r].roles
      /\ q.invite = req[r].invite /\ q.event = req[r].event /\ q.row = req[r].row
  BY <1>1 DEF Locals
<1>3. req' = [req EXCEPT ![r] = q]
  BY DEF Goto
<1> HIDE DEF q
<1> QED BY <1>2, <1>3 DEF Typed

LEMMA ThenAuditIs ==
  ASSUME Typed, NEW r \in Requests, NEW event \in Events, ThenAudit(r, event)
  PROVE  /\ req' \in [Requests -> Locals]
         /\ req'[r].pc = "audit" /\ req'[r].event = event
         /\ \A x \in Requests : x # r => req'[x] = req[x]
<1> DEFINE q == [Idle EXCEPT !.pc = "audit", !.event = event]
<1>1. q \in Locals /\ q.pc = "audit" /\ q.event = event
  BY IdleTyped DEF Locals, MemberPCs
<1>2. Start(r, q)
  BY DEF ThenAudit
<1> HIDE DEF q
<1> QED BY <1>1, <1>2, StartIs

LEMMA AdmitIs ==
  ASSUME Typed, NEW r \in Requests, Admit(r)
  PROVE  req[r].pc = "idle" /\ arrivals' \in 0..MaxArrivals
BY BoundsAssumption DEF Typed, Admit, At

LEMMA SaveInvitationIs ==
  ASSUME Typed, NEW a \in Accounts, NEW n \in RoleNames, SaveInvitation(a, n)
  PROVE  /\ invites' \in [Invites -> Invitation \cup {Null}] /\ InvitesStay
         /\ \E i \in Invites : /\ invites'[i] # Null
                              /\ invites'[i].account = a /\ invites'[i].role = n
<1> DEFINE new == [account |-> a, role |-> n, fresh |-> TRUE, accepted |-> FALSE]
<1>1. new \in Invitation /\ new.account = a /\ new.role = n /\ ~new.accepted
  BY DEF Invitation
<1>2. new # Null
  BY <1>1, NullAssumption
<1> HIDE DEF new
<1>3. PICK i : i = GenerateInviteToken
  OBVIOUS
<1>4. i \in Invites /\ invites[i] = Null
  BY <1>3 DEF SaveInvitation, GenerateInviteToken
<1>5. invites' = [invites EXCEPT ![i] = new]
  BY <1>3 DEF SaveInvitation, new
<1>6. invites' \in [Invites -> Invitation \cup {Null}]
  BY <1>1, <1>5 DEF Typed, TablesTyped
<1>7. invites'[i] = new /\ \A j \in Invites : j # i => invites'[j] = invites[j]
  BY <1>4, <1>5 DEF Typed, TablesTyped
<1>8. InvitesStay
  BY <1>1, <1>4, <1>7 DEF InvitesStay
<1> QED BY <1>1, <1>2, <1>4, <1>6, <1>7, <1>8

LEMMA InvitesKept == ASSUME invites' = invites PROVE InvitesStay
BY DEF InvitesStay

LEMMA UsersKept == ASSUME users' = users PROVE UsersStay
BY DEF UsersStay, UserExists

LEMMA TenantOf ==
  ASSUME NEW a \in Accounts
  PROVE  a[1] \in Tenants /\ a[2] \in Emails /\ a = <<a[1], a[2]>>
BY DEF Accounts

\* A user that is not there, and now is.
LEMMA NewUserIs ==
  ASSUME Typed, NEW a \in Accounts, ~UserExists(a), users' = [users EXCEPT ![a] = NewUser]
  PROVE  /\ users' \in [Accounts -> User \cup {Null}] /\ users'[a] # Null
         /\ \A b \in Accounts : b # a => users'[b] = users[b]
         /\ UsersStay /\ \A b \in Accounts : UserExists(b) => users'[b] = users[b]
<1>1. NewUser \in User /\ NewUser # Null
  <2>1. NewUser \in User
    BY DEF NewUser, User
  <2> QED BY <2>1, NullAssumption
<1>2. users \in [Accounts -> User \cup {Null}]
  BY DEF Typed, TablesTyped
<1> QED BY <1>1, <1>2 DEF UsersStay, UserExists

Quiet == NobodyJoins /\ NobodyFounds /\ NobodySaves /\ NobodyMakes

LEMMA QuietInvariant ==
  ASSUME IInv, Quiet, Typed'
  PROVE  IInv'
BY NobodyJoinsInvariant, NobodyFoundsInvariant, NobodySavesInvariant, NobodyMakesInvariant
   DEF Quiet, IInv

LEMMA CreateOrgGqlInvariant ==
  ASSUME IInv, NEW r \in Requests, NEW t \in Tenants, NEW actor \in Accounts,
         CreateOrgGql(r, t, actor), UNCHANGED structure
  PROVE  IInv'
<1> DEFINE event == Event("org.created", t, actor, {})
<1>1. event \in Events /\ event.type = "org.created"
  BY EventTyped DEF EventTypes
<1>2. Typed
  BY DEF IInv
<1>3. ThenAudit(r, event)
  BY DEF CreateOrgGql
<1> HIDE DEF event
<1>4. /\ req' \in [Requests -> Locals]
      /\ req'[r].pc = "audit" /\ req'[r].event = event
      /\ \A x \in Requests : x # r => req'[x] = req[x]
  BY <1>1, <1>2, <1>3, ThenAuditIs
<1>5. req[r].pc = "idle" /\ arrivals' \in 0..MaxArrivals
  BY <1>2, AdmitIs DEF CreateOrgGql
<1>6. Typed'
  BY <1>2, <1>4, <1>5 DEF CreateOrgGql, SaveTenant, Typed, TablesTyped, history, structure
<1>7. InvitesStay /\ UsersStay
  BY InvitesKept, UsersKept DEF CreateOrgGql
<1>8. NobodyJoins /\ NobodyFounds
  BY <1>4, <1>5, <1>7 DEF CreateOrgGql, NobodyJoins, NobodyFounds, history, JoinPCs, FoundPCs
<1>9. NobodySaves /\ NobodyMakes
  BY <1>1, <1>4, <1>5, <1>7 DEF CreateOrgGql, NobodySaves, NobodyMakes, history, Settled, Onboarded
<1> QED BY <1>6, <1>8, <1>9, QuietInvariant DEF Quiet

LEMMA CreateInvitationInvariant ==
  ASSUME IInv, NEW r \in Requests, NEW a \in Accounts, NEW n \in RoleNames,
         CreateInvitation(r, a, n), UNCHANGED structure
  PROVE  IInv'
<1>1. Typed
  BY DEF IInv
<1>2. invites' \in [Invites -> Invitation \cup {Null}] /\ InvitesStay
  BY <1>1, SaveInvitationIs DEF CreateInvitation
<1>3. arrivals' \in 0..MaxArrivals /\ UsersStay
  BY <1>1, AdmitIs, UsersKept DEF CreateInvitation
<1>4. Typed'
  BY <1>1, <1>2, <1>3 DEF CreateInvitation, Typed, TablesTyped, history, structure
<1>5. Quiet
  BY <1>2, <1>3 DEF CreateInvitation, Quiet, NobodyJoins, NobodyFounds, NobodySaves, NobodyMakes,
                    history
<1> QED BY <1>4, <1>5, QuietInvariant

LEMMA InviteMemberInvariant ==
  ASSUME IInv, NEW r \in Requests, NEW a \in Accounts, NEW actor \in Accounts,
         NEW n \in RoleNames, InviteMember(r, a, n, actor), UNCHANGED structure
  PROVE  IInv'
<1> DEFINE event == Event("org.invitation.created", a[1], actor, {a[2], n})
<1>1. event \in Events /\ event.type = "org.invitation.created"
  <2>1. {a[2], n} \in SUBSET Names
    BY TenantOf DEF Names
  <2> QED BY <2>1, EventTyped, TenantOf DEF EventTypes
<1>2. Typed
  BY DEF IInv
<1>3. ThenAudit(r, event)
  BY DEF InviteMember
<1> HIDE DEF event
<1>4. /\ req' \in [Requests -> Locals]
      /\ req'[r].pc = "audit" /\ req'[r].event = event
      /\ \A x \in Requests : x # r => req'[x] = req[x]
  BY <1>1, <1>2, <1>3, ThenAuditIs
<1>5. req[r].pc = "idle" /\ arrivals' \in 0..MaxArrivals
  BY <1>2, AdmitIs DEF InviteMember
<1>6. /\ invites' \in [Invites -> Invitation \cup {Null}]
      /\ InvitesStay /\ UsersStay
  BY <1>2, SaveInvitationIs, UsersKept DEF InviteMember
<1>7. Typed'
  BY <1>2, <1>4, <1>5, <1>6 DEF InviteMember, Typed, TablesTyped, history, structure
<1>8. NobodyJoins /\ NobodyFounds
  BY <1>4, <1>5, <1>6 DEF InviteMember, NobodyJoins, NobodyFounds, history, JoinPCs, FoundPCs
<1>9. NobodySaves /\ NobodyMakes
  BY <1>1, <1>4, <1>5, <1>6 DEF InviteMember, NobodySaves, NobodyMakes, history, Settled, Onboarded
<1> QED BY <1>7, <1>8, <1>9, QuietInvariant DEF Quiet

LEMMA AcceptInvitationInvariant ==
  ASSUME IInv, NEW r \in Requests, NEW i \in Invites,
         AcceptInvitation(r, i), UNCHANGED structure
  PROVE  IInv'
<1> DEFINE q == [Idle EXCEPT !.pc = "saveUser", !.account = invites[i].account,
                             !.roles = {invites[i].role}, !.invite = i]
<1>1. Typed
  BY DEF IInv
<1>2. invites[i] \in Invitation /\ invites[i] # Null
  BY <1>1 DEF Typed, TablesTyped, AcceptInvitation
<1>3. /\ q \in Locals /\ q.pc = "saveUser" /\ q.account = invites[i].account
      /\ q.roles = {invites[i].role} /\ q.invite = i
  BY <1>2, IdleTyped DEF Locals, Invitation, MemberPCs
<1>4. Start(r, q)
  BY DEF AcceptInvitation
<1> HIDE DEF q
<1>5. /\ req' \in [Requests -> Locals] /\ req'[r] = q
      /\ \A x \in Requests : x # r => req'[x] = req[x]
  BY <1>1, <1>3, <1>4, StartIs
<1>6. req[r].pc = "idle" /\ arrivals' \in 0..MaxArrivals
  BY <1>1, AdmitIs DEF AcceptInvitation
<1>7. InvitesStay /\ UsersStay
  BY InvitesKept, UsersKept DEF AcceptInvitation, memberTables
<1>8. Typed'
  BY <1>1, <1>5, <1>6 DEF AcceptInvitation, Typed, TablesTyped, memberTables, history, structure
<1>9. OwnInvitation(q)
  BY <1>2, <1>3 DEF OwnInvitation, Invitation
<1>10. NobodyJoins
  BY <1>3, <1>5, <1>6, <1>7, <1>9 DEF AcceptInvitation, NobodyJoins, memberTables, history, JoinPCs
<1>11. NobodyFounds /\ NobodySaves /\ NobodyMakes
  BY <1>3, <1>5, <1>6, <1>7
  DEF AcceptInvitation, NobodyFounds, NobodySaves, NobodyMakes, memberTables, history, FoundPCs
<1> QED BY <1>8, <1>10, <1>11, QuietInvariant DEF Quiet

LEMMA UpdateMemberRolesInvariant ==
  ASSUME IInv, NEW r \in Requests, NEW a \in Accounts, NEW actor \in Accounts,
         NEW ns \in RoleSets, UpdateMemberRoles(r, a, ns, actor), UNCHANGED structure
  PROVE  IInv'
<1> DEFINE event == Event("org.member.roles_updated", a[1], actor, {a[2]} \cup ns)
           pc == IF ns \subseteq roles[a[1]] THEN "audit" ELSE "saveRoles"
           q == [Idle EXCEPT !.pc = pc, !.account = a, !.roles = ns \ roles[a[1]], !.event = event]
<1>1. Typed /\ ns \subseteq RoleNames
  BY RolesAssumption DEF IInv
<1>2. event \in Events /\ event.type = "org.member.roles_updated"
  <2>1. {a[2]} \cup ns \in SUBSET Names
    BY <1>1, TenantOf DEF Names
  <2> QED BY <2>1, EventTyped, TenantOf DEF EventTypes
<1>3. pc \in MemberPCs /\ pc \in {"audit", "saveRoles"}
  BY DEF MemberPCs
<1>4. Start(r, q)
  BY DEF UpdateMemberRoles
<1> HIDE DEF event, pc
<1>5. q \in Locals /\ q.pc = pc /\ q.event = event
  BY <1>1, <1>2, <1>3, IdleTyped DEF Locals
<1> HIDE DEF q
<1>6. /\ req' \in [Requests -> Locals] /\ req'[r] = q
      /\ \A x \in Requests : x # r => req'[x] = req[x]
  BY <1>1, <1>4, <1>5, StartIs
<1>7. req[r].pc = "idle" /\ arrivals' \in 0..MaxArrivals
  BY <1>1, AdmitIs DEF UpdateMemberRoles
<1>8. InvitesStay /\ UsersStay
  BY InvitesKept, UsersKept DEF UpdateMemberRoles, memberTables
<1>9. Typed'
  BY <1>1, <1>6, <1>7 DEF UpdateMemberRoles, Typed, TablesTyped, memberTables, history, structure
<1>10. NobodyJoins /\ NobodyFounds
  BY <1>3, <1>5, <1>6, <1>7, <1>8
  DEF UpdateMemberRoles, NobodyJoins, NobodyFounds, memberTables, history, JoinPCs, FoundPCs
<1>11. NobodySaves /\ NobodyMakes
  BY <1>2, <1>3, <1>5, <1>6, <1>7, <1>8
  DEF UpdateMemberRoles, NobodySaves, NobodyMakes, memberTables, history, Settled, Onboarded
<1> QED BY <1>9, <1>10, <1>11, QuietInvariant DEF Quiet

LEMMA SaveRolesInvariant ==
  ASSUME IInv, NEW r \in Requests, SaveRoles(r), UNCHANGED structure
  PROVE  IInv'
<1> DEFINE t == req[r].account[1]
<1>1. Typed /\ req[r] \in Locals /\ req[r].pc = "saveRoles"
  BY DEF IInv, Typed, SaveRoles, At
<1>2. /\ roles' \in [Tenants -> SUBSET RoleNames]
      /\ \A s \in Tenants : roles[s] \subseteq roles'[s]
  <2>1. req[r].roles \subseteq RoleNames
    BY <1>1 DEF Locals
  <2>2. roles' = roles \/ roles' = [roles EXCEPT ![t] = @ \cup req[r].roles]
    BY DEF SaveRoles
  <2> QED BY <1>1, <2>1, <2>2 DEF Typed, TablesTyped
<1>3. /\ req' \in [Requests -> Locals]
      /\ \/ req'[r].pc = "idle"
         \/ req'[r].pc = "audit" /\ req'[r].event = req[r].event
      /\ \A x \in Requests : x # r => req'[x] = req[x]
  <2>1. Finish(r) \/ Goto(r, "audit")
    BY DEF SaveRoles
  <2> QED BY <1>1, <2>1, FinishIs, GotoIs DEF MemberPCs
<1>4. InvitesStay /\ UsersStay
  BY InvitesKept, UsersKept DEF SaveRoles
<1>5. Typed'
  BY <1>1, <1>2, <1>3 DEF SaveRoles, Typed, TablesTyped, bounds, history, structure
<1>6. req[r].event \in Events /\ req[r].event.type \notin {Settled, Onboarded}
  BY <1>1 DEF IInv, Saves
<1>7. NobodyJoins /\ NobodyFounds
  BY <1>1, <1>2, <1>3, <1>4 DEF SaveRoles, NobodyJoins, NobodyFounds, history, JoinPCs, FoundPCs
<1>8. NobodySaves /\ NobodyMakes
  BY <1>1, <1>3, <1>4, <1>6 DEF SaveRoles, NobodySaves, NobodyMakes, history
<1> QED BY <1>5, <1>7, <1>8, QuietInvariant DEF Quiet

LEMMA RegisterUserInvariant ==
  ASSUME IInv, NEW r \in Requests, NEW a \in Accounts, NEW actor \in Accounts,
         RegisterUser(r, a, actor), UNCHANGED structure
  PROVE  IInv'
<1>1. Typed
  BY DEF IInv
<1>2. /\ users' \in [Accounts -> User \cup {Null}] /\ UsersStay
      /\ \A b \in Accounts : UserExists(b) => users'[b] = users[b]
  BY <1>1, NewUserIs DEF RegisterUser
<1>3. arrivals' \in 0..MaxArrivals /\ InvitesStay
  BY <1>1, AdmitIs, InvitesKept DEF RegisterUser
<1>4. Typed'
  BY <1>1, <1>2, <1>3 DEF RegisterUser, Typed, TablesTyped, history, structure
<1>5. Quiet
  BY <1>2, <1>3 DEF RegisterUser, Quiet, NobodyJoins, NobodyFounds, NobodySaves, NobodyMakes,
                    history
<1> QED BY <1>4, <1>5, QuietInvariant

LEMMA ExpireInviteInvariant ==
  ASSUME IInv, NEW i \in Invites, ExpireInvite(i), UNCHANGED structure
  PROVE  IInv'
<1>1. Typed
  BY DEF IInv
<1>2. invites[i] \in Invitation
  BY <1>1 DEF ExpireInvite, Typed, TablesTyped
<1> DEFINE lapsed == [invites[i] EXCEPT !.fresh = FALSE]
<1>3. /\ lapsed \in Invitation /\ lapsed.account = invites[i].account
      /\ lapsed.role = invites[i].role /\ lapsed.accepted = invites[i].accepted
  BY <1>2 DEF Invitation
<1>4. invites' = [invites EXCEPT ![i] = lapsed] /\ lapsed # Null
  BY <1>3, NullAssumption DEF ExpireInvite
<1> HIDE DEF lapsed
<1>5. invites' \in [Invites -> Invitation \cup {Null}] /\ InvitesStay
  BY <1>1, <1>3, <1>4 DEF Typed, TablesTyped, InvitesStay, ExpireInvite
<1>6. arrivals' \in 0..MaxArrivals /\ UsersStay
  BY <1>1, BoundsAssumption, UsersKept DEF ExpireInvite, Typed
<1>7. Typed'
  BY <1>1, <1>5, <1>6 DEF ExpireInvite, Typed, TablesTyped, history, structure
<1>8. Quiet
  BY <1>5, <1>6 DEF ExpireInvite, Quiet, NobodyJoins, NobodyFounds, NobodySaves, NobodyMakes,
                    history
<1> QED BY <1>7, <1>8, QuietInvariant

-----------------------------------------------------------------------------
(* New organisations *)

\* An owner role and an invitation for the owner.
Complete(a) ==
  /\ Owner \in roles[a[1]]
  /\ \E i \in Invites : invites[i] # Null /\ invites[i].account = a /\ invites[i].role = Owner

\* A step of request r leaves none but the organisation of r to look at.
LEMMA FoundingStep ==
  ASSUME IInv, InvitesStay, \A t \in Tenants : roles[t] \subseteq roles'[t],
         founded' \subseteq Accounts, stranded \subseteq stranded', NEW r \in Requests,
         \A x \in Requests : x # r => req'[x] = req[x],
         req'[r].pc \in FoundPCs => req'[r].account \in Accounts,
         req'[r].pc = "inviteOwner" => Owner \in roles'[req'[r].account[1]],
         \A a \in founded' \ founded : req'[r].pc \in FoundPCs /\ req'[r].account = a,
         \A a \in Accounts : FoundingFor(r, a) =>
            \/ a[1] \in stranded'
            \/ req'[r].pc \in FoundPCs /\ req'[r].account = a
            \/ Complete(a)'
  PROVE  Foundings'
<1>1. ASSUME NEW x \in Requests
      PROVE  /\ req'[x].pc \in FoundPCs => req'[x].account \in Accounts
             /\ req'[x].pc = "inviteOwner" => Owner \in roles'[req'[x].account[1]]
  <2>1. CASE x # r
    BY <2>1 DEF IInv, Foundings, Accounts, FoundPCs
  <2> QED BY <2>1
<1>2. ASSUME NEW a \in founded'
      PROVE  a[1] \in stranded' \/ (\E x \in Requests : FoundingFor(x, a)') \/ Complete(a)'
  <2>1. a \in Accounts /\ a[1] \in Tenants
    BY DEF Accounts
  <2>2. CASE a \notin founded
    BY <2>2 DEF FoundingFor
  <2>3. CASE a \in founded /\ a[1] \in stranded
    BY <2>3
  <2>4. CASE a \in founded /\ \E x \in Requests : FoundingFor(x, a)
    <3>1. PICK x \in Requests : FoundingFor(x, a)
      BY <2>4
    <3>2. CASE x = r
      BY <2>1, <3>1, <3>2 DEF FoundingFor
    <3>3. CASE x # r
      BY <3>1, <3>3 DEF FoundingFor
    <3> QED BY <3>2, <3>3
  <2>5. CASE a \in founded /\ Complete(a)
    BY <2>1, <2>5 DEF Complete, InvitesStay
  <2> QED BY <2>2, <2>3, <2>4, <2>5 DEF IInv, Foundings, Complete
<1> QED BY <1>1, <1>2 DEF Foundings, Complete

LEMMA CreateOrgInvariant ==
  ASSUME IInv, NEW r \in Requests, NEW t \in Tenants, NEW e \in Emails,
         CreateOrg(r, t, e), UNCHANGED structure
  PROVE  IInv'
<1> DEFINE a == <<t, e>>
           q == [Idle EXCEPT !.pc = "findOwner", !.account = a]
<1>1. Typed /\ a \in Accounts
  BY DEF IInv, Accounts
<1>2. Start(r, q) /\ founded' = founded \cup {a}
  BY DEF CreateOrg
<1> HIDE DEF a
<1>3. q \in Locals /\ q.pc = "findOwner" /\ q.account = a
  BY <1>1, IdleTyped DEF Locals, MemberPCs
<1> HIDE DEF q
<1>4. /\ req' \in [Requests -> Locals] /\ req'[r] = q
      /\ \A x \in Requests : x # r => req'[x] = req[x]
  BY <1>1, <1>2, <1>3, StartIs
<1>5. req[r].pc = "idle" /\ arrivals' \in 0..MaxArrivals
  BY <1>1, AdmitIs DEF CreateOrg
<1>6. InvitesStay /\ UsersStay
  BY InvitesKept, UsersKept DEF CreateOrg
<1>7. Typed'
  BY <1>1, <1>2, <1>4, <1>5 DEF CreateOrg, SaveTenant, Typed, TablesTyped, structure
<1>8. NobodyJoins /\ NobodySaves /\ NobodyMakes
  BY <1>3, <1>4, <1>5, <1>6
  DEF CreateOrg, NobodyJoins, NobodySaves, NobodyMakes, JoinPCs
<1>9. Foundings'
  <2>1. ~FoundingFor(r, a) /\ \A b : ~FoundingFor(r, b)
    BY <1>5 DEF FoundingFor, FoundPCs
  <2>2. founded' \subseteq Accounts
    BY <1>7 DEF Typed
  <2>3. req'[r].pc = "findOwner" /\ req'[r].account = a /\ "findOwner" \in FoundPCs
    BY <1>3, <1>4 DEF FoundPCs
  <2>4. roles' = roles /\ stranded' = stranded
    BY DEF CreateOrg
  <2> QED BY <1>1, <1>2, <1>4, <1>6, <2>1, <2>2, <2>3, <2>4, FoundingStep
<1> QED BY <1>7, <1>8, <1>9, NobodyJoinsInvariant, NobodySavesInvariant, NobodyMakesInvariant
        DEF IInv

\* A step of createOrg: what it does elsewhere, and to its own request.
LEMMA FindOwnerRoleInvariant ==
  ASSUME IInv, NEW r \in Requests, FindOwnerRole(r), UNCHANGED structure
  PROVE  IInv'
<1> DEFINE a == req[r].account
           pc == IF Owner \in roles[a[1]] THEN "inviteOwner" ELSE "saveOwner"
<1>1. Typed /\ req[r].pc = "findOwner" /\ a \in Accounts
  BY DEF IInv, Foundings, FindOwnerRole, At, FoundPCs
<1>2. pc \in MemberPCs /\ Goto(r, pc) /\ pc \in FoundPCs
      /\ pc # "saveRow" /\ pc # "audit" /\ (pc = "inviteOwner" => Owner \in roles[a[1]])
  BY DEF FindOwnerRole, MemberPCs, FoundPCs
<1> HIDE DEF pc
<1>3. /\ req' \in [Requests -> Locals] /\ req'[r].pc = pc /\ req'[r].account = a
      /\ \A x \in Requests : x # r => req'[x] = req[x]
  BY <1>1, <1>2, GotoIs
<1>4. InvitesStay /\ UsersStay /\ roles' = roles /\ founded' = founded /\ stranded' = stranded
  BY InvitesKept, UsersKept DEF FindOwnerRole, memberTables, history
<1>5. Typed'
  BY <1>1, <1>3 DEF FindOwnerRole, Typed, TablesTyped, memberTables, bounds, history, structure
<1>6. NobodyJoins /\ NobodySaves /\ NobodyMakes
  BY <1>1, <1>2, <1>3, <1>4
  DEF FindOwnerRole, NobodyJoins, NobodySaves, NobodyMakes, memberTables, history, JoinPCs, FoundPCs
<1>7. Foundings'
  <2>1. founded' \subseteq Accounts
    BY <1>5 DEF Typed
  <2>2. \A b \in Accounts : FoundingFor(r, b) => req'[r].pc \in FoundPCs /\ req'[r].account = b
    BY <1>2, <1>3 DEF FoundingFor
  <2> QED BY <1>1, <1>2, <1>3, <1>4, <2>1, <2>2, FoundingStep
<1> QED BY <1>5, <1>6, <1>7, NobodyJoinsInvariant, NobodySavesInvariant, NobodyMakesInvariant
        DEF IInv

LEMMA SaveOwnerRoleInvariant ==
  ASSUME IInv, NEW r \in Requests, SaveOwnerRole(r), UNCHANGED structure
  PROVE  IInv'
<1> DEFINE a == req[r].account
<1>1. /\ Typed /\ req[r].pc = "saveOwner" /\ a \in Accounts /\ a[1] \in Tenants
      /\ Owner \in RoleNames
  BY RolesAssumption DEF IInv, Foundings, SaveOwnerRole, At, FoundPCs, Accounts
<1>2. \/ Finish(r) /\ stranded' = stranded \cup {a[1]} /\ roles' = roles
      \/ Goto(r, "inviteOwner") /\ stranded' = stranded
         /\ roles' = [roles EXCEPT ![a[1]] = @ \cup {Owner}]
  BY DEF SaveOwnerRole
<1>3. /\ roles' \in [Tenants -> SUBSET RoleNames]
      /\ \A t \in Tenants : roles[t] \subseteq roles'[t]
      /\ stranded \subseteq stranded'
  BY <1>1, <1>2 DEF Typed, TablesTyped
<1>4. /\ req' \in [Requests -> Locals]
      /\ \/ req'[r].pc = "idle" /\ a[1] \in stranded'
         \/ req'[r].pc = "inviteOwner" /\ req'[r].account = a /\ Owner \in roles'[a[1]]
      /\ \A x \in Requests : x # r => req'[x] = req[x]
  <2>1. CASE Finish(r) /\ stranded' = stranded \cup {a[1]}
    BY <1>1, <2>1, FinishIs
  <2>2. CASE Goto(r, "inviteOwner") /\ roles' = [roles EXCEPT ![a[1]] = @ \cup {Owner}]
    <3>1. Owner \in roles'[a[1]]
      BY <1>1, <2>2 DEF Typed, TablesTyped
    <3> QED BY <1>1, <2>2, <3>1, GotoIs DEF MemberPCs
  <2> QED BY <1>2, <2>1, <2>2
<1>5. InvitesStay /\ UsersStay /\ founded' = founded
  BY InvitesKept, UsersKept DEF SaveOwnerRole
<1>6. Typed'
  BY <1>1, <1>3, <1>4 DEF SaveOwnerRole, Typed, TablesTyped, bounds, structure
<1>7. NobodyJoins /\ NobodySaves /\ NobodyMakes
  BY <1>1, <1>3, <1>4, <1>5
  DEF SaveOwnerRole, NobodyJoins, NobodySaves, NobodyMakes, JoinPCs
<1>8. Foundings'
  <2>1. founded' \subseteq Accounts
    BY <1>6 DEF Typed
  <2>2. \A b \in Accounts : FoundingFor(r, b) =>
           b[1] \in stranded' \/ (req'[r].pc \in FoundPCs /\ req'[r].account = b)
    BY <1>4 DEF FoundingFor, FoundPCs
  <2>3. /\ req'[r].pc \in FoundPCs => req'[r].account \in Accounts
        /\ req'[r].pc = "inviteOwner" => Owner \in roles'[req'[r].account[1]]
    BY <1>1, <1>4 DEF FoundPCs
  <2> QED BY <1>3, <1>4, <1>5, <2>1, <2>2, <2>3, FoundingStep
<1> QED BY <1>6, <1>7, <1>8, NobodyJoinsInvariant, NobodySavesInvariant, NobodyMakesInvariant
        DEF IInv

LEMMA InviteOwnerInvariant ==
  ASSUME IInv, NEW r \in Requests, InviteOwner(r), UNCHANGED structure
  PROVE  IInv'
<1> DEFINE a == req[r].account
<1>1. /\ Typed /\ req[r].pc = "inviteOwner" /\ a \in Accounts
      /\ Owner \in RoleNames /\ Owner \in roles[a[1]]
  BY RolesAssumption DEF IInv, Foundings, InviteOwner, At, FoundPCs
<1>2. /\ req' \in [Requests -> Locals] /\ req'[r].pc = "idle"
      /\ \A x \in Requests : x # r => req'[x] = req[x]
  BY <1>1, FinishIs DEF InviteOwner
<1>3. /\ invites' \in [Invites -> Invitation \cup {Null}] /\ InvitesStay
      /\ \E i \in Invites : invites'[i] # Null /\ invites'[i].account = a /\ invites'[i].role = Owner
  BY <1>1, SaveInvitationIs DEF InviteOwner
<1>4. UsersStay /\ founded' = founded /\ roles' = roles /\ stranded' = stranded
  BY UsersKept DEF InviteOwner, history
<1>5. Typed'
  BY <1>1, <1>2, <1>3 DEF InviteOwner, Typed, TablesTyped, bounds, history, structure
<1>6. NobodyJoins /\ NobodySaves /\ NobodyMakes
  BY <1>1, <1>2, <1>3, <1>4
  DEF InviteOwner, NobodyJoins, NobodySaves, NobodyMakes, history, JoinPCs
<1>7. Foundings'
  <2>1. founded' \subseteq Accounts
    BY <1>5 DEF Typed
  <2>2. \A b \in Accounts : FoundingFor(r, b) => Complete(b)'
    BY <1>1, <1>3, <1>4 DEF FoundingFor, Complete
  <2>3. req'[r].pc \notin FoundPCs /\ req'[r].pc # "inviteOwner"
    BY <1>2 DEF FoundPCs
  <2> QED BY <1>2, <1>3, <1>4, <2>1, <2>2, <2>3, FoundingStep
<1> QED BY <1>5, <1>6, <1>7, NobodyJoinsInvariant, NobodySavesInvariant, NobodyMakesInvariant
        DEF IInv

-----------------------------------------------------------------------------
(* Invitations *)

\* What everybody else's acceptance has stays as it is.
LEMMA OthersAccept ==
  ASSUME IInv, InvitesStay, NEW x \in Requests, req'[x] = req[x], OwnInvitation(req[x])
  PROVE  OwnInvitation(req[x])'
BY DEF InvitesStay, OwnInvitation

LEMMA AcceptedStays ==
  ASSUME InvitesStay, NEW i \in Invites, NEW a
  PROVE  AcceptedFor(i, a)' <=> AcceptedFor(i, a)
BY DEF InvitesStay, AcceptedFor

\* A request that joins a user looks for the role, or ends.
LEMMA JoinMoves ==
  ASSUME IInv, UsersStay, InvitesStay, userRoles' = userRoles, joined' = joined,
         stranded \subseteq stranded', NEW r \in Requests,
         \A x \in Requests : x # r => req'[x] = req[x],
         \/ /\ req'[r].pc \notin JoinPCs \cup {"saveUser"}
            /\ req[r].pc \in JoinPCs => req[r].account \in stranded'
         \/ /\ req[r].pc \in JoinPCs \ {"accept"} /\ req'[r].pc \in JoinPCs \ {"accept"}
            /\ req'[r].account = req[r].account /\ req'[r].roles = req[r].roles
            /\ req'[r].invite = req[r].invite
  PROVE  Acceptances' /\ Joiners'
<1>1. \A i \in Invites : \A a : AcceptedFor(i, a)' <=> AcceptedFor(i, a)
  BY DEF InvitesStay, AcceptedFor
<1>2. \A a : GetUserRoleNames(a)' = GetUserRoleNames(a)
  BY DEF GetUserRoleNames
<1>3. \A x \in Requests : \A a : JoiningFor(x, a)' => JoiningFor(x, a)
  BY DEF JoiningFor
<1>4. \A x \in Requests : \A a : JoiningFor(x, a) => JoiningFor(x, a)' \/ a \in stranded'
  BY DEF JoiningFor
<1>5. Acceptances'
  <2> SUFFICES ASSUME NEW x \in Requests
               PROVE  /\ req'[x].pc \in JoinPCs \cup {"saveUser"} => OwnInvitation(req[x])'
                      /\ req'[x].pc \in JoinPCs =>
                           /\ req'[x].account \in joined'
                           /\ \A i \in Invites : ~AcceptedFor(i, req[x].account)'
                           /\ \A y \in Requests : JoiningFor(y, req[x].account)' => y = x
                      /\ req'[x].pc \in JoinPCs \ {"accept"} =>
                           GetUserRoleNames(req[x].account)' = {}
                      /\ req'[x].pc = "accept" =>
                           GetUserRoleNames(req[x].account)' = req'[x].roles
    BY DEF Acceptances
  <2>1. CASE x # r
    <3>1. req'[x] = req[x]
      BY <2>1
    <3> QED BY <3>1, <1>1, <1>2, <1>3, OthersAccept DEF IInv, Acceptances
  <2>2. CASE x = r /\ req'[r].pc \notin JoinPCs \cup {"saveUser"}
    BY <2>2 DEF JoinPCs
  <2>3. CASE /\ x = r /\ req[r].pc \in JoinPCs \ {"accept"} /\ req'[r].pc \in JoinPCs \ {"accept"}
             /\ req'[r].account = req[r].account /\ req'[r].roles = req[r].roles
             /\ req'[r].invite = req[r].invite
    <3>1. /\ OwnInvitation(req[r]) /\ req[r].account \in joined
          /\ \A i \in Invites : ~AcceptedFor(i, req[r].account)
          /\ \A y \in Requests : JoiningFor(y, req[r].account) => y = r
          /\ GetUserRoleNames(req[r].account) = {}
      BY <2>3 DEF IInv, Acceptances
    <3>2. OwnInvitation(req[r])'
      BY <2>3, <3>1 DEF InvitesStay, OwnInvitation
    <3> QED BY <2>3, <3>1, <3>2, <1>1, <1>2, <1>3
  <2> QED BY <2>1, <2>2, <2>3
<1>6. Joiners'
  <2>1. ASSUME NEW a \in joined
        PROVE  /\ UserExists(a)'
               /\ \/ a \in stranded'
                  \/ \E x \in Requests : JoiningFor(x, a)'
                  \/ \E i \in Invites : AcceptedFor(i, a)'
    <3>1. a \in Accounts
      BY DEF IInv, Typed
    <3> QED BY <3>1, <1>1, <1>4 DEF IInv, Joiners, UsersStay, UserExists
  <2>2. \A a \in Accounts : GetUserRoleNames(a)' # {} => UserExists(a)'
    BY <1>2 DEF IInv, Joiners, UsersStay, UserExists
  <2>3. ASSUME NEW a \in Accounts, NEW i \in Invites, AcceptedFor(i, a)'
        PROVE  /\ a \in joined' /\ GetUserRoleNames(a)' = {invites'[i].role}
               /\ \A j \in Invites : AcceptedFor(j, a)' => j = i
    <3>1. AcceptedFor(i, a)
      BY <1>1, <2>3
    <3>2. invites'[i].role = invites[i].role
      BY <3>1 DEF AcceptedFor, InvitesStay
    <3> QED BY <1>1, <1>2, <3>1, <3>2 DEF IInv, Joiners
  <2> QED BY <2>1, <2>2, <2>3 DEF Joiners
<1> QED BY <1>5, <1>6

LEMMA SaveUserInvariant ==
  ASSUME IInv, NEW r \in Requests, SaveUser(r), UNCHANGED structure
  PROVE  IInv'
<1> DEFINE a == req[r].account
<1>1. /\ Typed /\ req[r].pc = "saveUser" /\ OwnInvitation(req[r]) /\ a \in Accounts
  BY DEF IInv, Acceptances, SaveUser, At, OwnInvitation
<1>2. InvitesStay /\ stranded' = stranded /\ userRoles' = userRoles
  BY InvitesKept DEF SaveUser
<1>3. CASE UserExists(a)
  <2>1. Finish(r) /\ users' = users /\ joined' = joined
    BY <1>3 DEF SaveUser
  <2>2. /\ req' \in [Requests -> Locals] /\ req'[r].pc = "idle"
        /\ \A x \in Requests : x # r => req'[x] = req[x]
    BY <1>1, <2>1, FinishIs
  <2>3. UsersStay
    BY <2>1, UsersKept
  <2>4. Typed'
    BY <1>1, <2>1, <2>2 DEF SaveUser, Typed, TablesTyped, bounds, structure
  <2>5. Quiet
    BY <1>1, <1>2, <2>1, <2>2, <2>3
    DEF SaveUser, Quiet, NobodyJoins, NobodyFounds, NobodySaves, NobodyMakes, JoinPCs, FoundPCs
  <2> QED BY <2>4, <2>5, QuietInvariant
<1>4. CASE ~UserExists(a)
  <2>1. Goto(r, "findRole") /\ users' = [users EXCEPT ![a] = NewUser] /\ joined' = joined \cup {a}
    BY <1>4 DEF SaveUser
  <2>2. /\ req' \in [Requests -> Locals] /\ req'[r].pc = "findRole" /\ req'[r].account = a
        /\ req'[r].roles = req[r].roles /\ req'[r].invite = req[r].invite
        /\ \A x \in Requests : x # r => req'[x] = req[x]
    BY <1>1, <2>1, GotoIs DEF MemberPCs
  <2>3. /\ users' \in [Accounts -> User \cup {Null}] /\ users'[a] # Null /\ UsersStay
        /\ \A b \in Accounts : UserExists(b) => users'[b] = users[b]
    BY <1>1, <1>4, <2>1, NewUserIs
  <2>4. Typed'
    BY <1>1, <2>1, <2>2, <2>3 DEF SaveUser, Typed, TablesTyped, bounds, structure
  <2>5. NobodyFounds /\ NobodySaves /\ NobodyMakes
    BY <1>1, <1>2, <2>2, <2>3 DEF SaveUser, NobodyFounds, NobodySaves, NobodyMakes, FoundPCs
  <2>6. /\ a \notin joined /\ GetUserRoleNames(a) = {}
        /\ \A i \in Invites : ~AcceptedFor(i, a)
    BY <1>1, <1>4 DEF IInv, Joiners
  <2>7. \A x \in Requests : ~JoiningFor(x, a)
    BY <2>6 DEF IInv, Acceptances, JoiningFor
  <2>8. \A i \in Invites : \A b : AcceptedFor(i, b)' <=> AcceptedFor(i, b)
    BY <1>2 DEF InvitesStay, AcceptedFor
  <2>9. \A b : GetUserRoleNames(b)' = GetUserRoleNames(b)
    BY <1>2 DEF GetUserRoleNames
  <2>10. Acceptances'
    <3> SUFFICES ASSUME NEW x \in Requests
                 PROVE  /\ req'[x].pc \in JoinPCs \cup {"saveUser"} => OwnInvitation(req[x])'
                        /\ req'[x].pc \in JoinPCs =>
                             /\ req'[x].account \in joined'
                             /\ \A i \in Invites : ~AcceptedFor(i, req[x].account)'
                             /\ \A y \in Requests : JoiningFor(y, req[x].account)' => y = x
                        /\ req'[x].pc \in JoinPCs \ {"accept"} =>
                             GetUserRoleNames(req[x].account)' = {}
                        /\ req'[x].pc = "accept" =>
                             GetUserRoleNames(req[x].account)' = req'[x].roles
      BY DEF Acceptances
    <3>1. CASE x # r
      <4>1. req'[x] = req[x]
        BY <2>2, <3>1
      <4>2. req[x].pc \in JoinPCs \cup {"saveUser"} => OwnInvitation(req[x])'
        BY <1>2, <4>1, OthersAccept DEF IInv, Acceptances
      <4>3. ASSUME req[x].pc \in JoinPCs, NEW y \in Requests, JoiningFor(y, req[x].account)'
            PROVE  y = x
        <5>1. req[x].account # a
          BY <2>7, <4>3 DEF JoiningFor
        <5>2. y # r
          BY <2>2, <4>1, <4>3, <5>1 DEF JoiningFor
        <5>3. JoiningFor(y, req[x].account)
          BY <2>2, <4>1, <4>3, <5>2 DEF JoiningFor
        <5> QED BY <4>3, <5>3 DEF IInv, Acceptances
      <4>4. req[x].pc \in JoinPCs => req[x].account \in joined'
        BY <2>1 DEF IInv, Acceptances
      <4> QED BY <4>1, <4>2, <4>3, <4>4, <2>8, <2>9 DEF IInv, Acceptances
    <3>2. CASE x = r
      <4>1. OwnInvitation(req[r])'
        BY <1>1, <1>2, <2>2 DEF InvitesStay, OwnInvitation
      <4>2. \A y \in Requests : JoiningFor(y, a)' => y = r
        BY <2>2, <2>7 DEF JoiningFor
      <4>3. \A y \in Requests : JoiningFor(y, req[r].account)' => y = r
        BY <2>2, <4>2 DEF JoiningFor
      <4> QED BY <3>2, <4>1, <4>3, <2>1, <2>2, <2>6, <2>8, <2>9
    <3> QED BY <3>1, <3>2
  <2>11. Joiners'
    <3>1. ASSUME NEW b \in joined'
          PROVE  /\ UserExists(b)'
                 /\ \/ b \in stranded'
                    \/ \E x \in Requests : JoiningFor(x, b)'
                    \/ \E i \in Invites : AcceptedFor(i, b)'
      <4>1. CASE b = a
        <5>1. JoiningFor(r, b)' /\ UserExists(b)'
          BY <2>2, <2>3, <4>1 DEF JoiningFor, JoinPCs, UserExists
        <5> QED BY <5>1
      <4>2. CASE b # a
        <5>1. b \in joined /\ b \in Accounts
          BY <2>1, <4>2 DEF IInv, Typed
        <5>2. ASSUME NEW x \in Requests, JoiningFor(x, b) PROVE JoiningFor(x, b)'
          BY <1>1, <2>2, <5>2 DEF JoiningFor, JoinPCs
        <5> QED BY <5>1, <5>2, <1>2, <2>3, <2>8 DEF IInv, Joiners, UserExists, UsersStay
      <4> QED BY <4>1, <4>2
    <3>2. \A b \in Accounts : GetUserRoleNames(b)' # {} => UserExists(b)'
      BY <2>3, <2>9 DEF IInv, Joiners, UsersStay, UserExists
    <3>3. ASSUME NEW b \in Accounts, NEW i \in Invites, AcceptedFor(i, b)'
          PROVE  /\ b \in joined' /\ GetUserRoleNames(b)' = {invites'[i].role}
                 /\ \A j \in Invites : AcceptedFor(j, b)' => j = i
      <4>1. AcceptedFor(i, b)
        BY <2>8, <3>3
      <4>2. invites'[i].role = invites[i].role
        BY <1>2, <4>1 DEF AcceptedFor, InvitesStay
      <4> QED BY <2>1, <2>8, <2>9, <4>1, <4>2 DEF IInv, Joiners
    <3> QED BY <3>1, <3>2, <3>3 DEF Joiners
  <2> QED BY <2>4, <2>5, <2>10, <2>11, NobodyFoundsInvariant, NobodySavesInvariant,
             NobodyMakesInvariant DEF IInv
<1> QED BY <1>3, <1>4

LEMMA FindRoleInvariant ==
  ASSUME IInv, NEW r \in Requests, FindRole(r), UNCHANGED structure
  PROVE  IInv'
<1> DEFINE pc == IF req[r].roles \subseteq roles[req[r].account[1]] THEN "assign" ELSE "saveRole"
<1>1. Typed /\ req[r].pc = "findRole"
  BY DEF IInv, FindRole, At
<1>2. pc \in MemberPCs /\ pc \in JoinPCs \ {"accept"} /\ Goto(r, pc) /\ pc \notin FoundPCs
  BY DEF FindRole, MemberPCs, JoinPCs, FoundPCs
<1> HIDE DEF pc
<1>3. /\ req' \in [Requests -> Locals] /\ req'[r].pc = pc /\ req'[r].account = req[r].account
      /\ req'[r].roles = req[r].roles /\ req'[r].invite = req[r].invite
      /\ \A x \in Requests : x # r => req'[x] = req[x]
  BY <1>1, <1>2, GotoIs
<1>4. /\ InvitesStay /\ UsersStay /\ userRoles' = userRoles /\ joined' = joined
      /\ stranded \subseteq stranded'
  BY InvitesKept, UsersKept DEF FindRole, memberTables, history
<1>5. Typed'
  BY <1>1, <1>3 DEF FindRole, Typed, TablesTyped, memberTables, bounds, history, structure
<1>6. NobodyFounds /\ NobodySaves /\ NobodyMakes
  BY <1>1, <1>2, <1>3, <1>4
  DEF FindRole, NobodyFounds, NobodySaves, NobodyMakes, memberTables, history, FoundPCs, JoinPCs
<1>7. Acceptances' /\ Joiners'
  <2>1. req[r].pc \in JoinPCs \ {"accept"} /\ req'[r].pc \in JoinPCs \ {"accept"}
    BY <1>1, <1>2, <1>3 DEF JoinPCs
  <2> QED BY <1>3, <1>4, <2>1, JoinMoves
<1> QED BY <1>5, <1>6, <1>7, NobodyFoundsInvariant, NobodySavesInvariant, NobodyMakesInvariant
        DEF IInv

LEMMA SaveRoleInvariant ==
  ASSUME IInv, NEW r \in Requests, SaveRole(r), UNCHANGED structure
  PROVE  IInv'
<1> DEFINE a == req[r].account
<1>1. /\ Typed /\ req[r].pc = "saveRole" /\ a \in Accounts /\ a[1] \in Tenants
      /\ req[r].roles \subseteq RoleNames
  <2>1. Typed /\ req[r].pc = "saveRole" /\ OwnInvitation(req[r])
    BY DEF IInv, Acceptances, SaveRole, At, JoinPCs
  <2>2. req[r] \in Locals
    BY <2>1 DEF Typed
  <2> QED BY <2>1, <2>2, TenantOf DEF OwnInvitation, Locals
<1>2. \/ Finish(r) /\ stranded' = stranded \cup {a} /\ roles' = roles
      \/ Goto(r, "assign") /\ stranded' = stranded
         /\ roles' = [roles EXCEPT ![a[1]] = @ \cup req[r].roles]
  BY DEF SaveRole
<1>3. /\ roles' \in [Tenants -> SUBSET RoleNames]
      /\ \A t \in Tenants : roles[t] \subseteq roles'[t]
      /\ stranded \subseteq stranded'
  BY <1>1, <1>2 DEF Typed, TablesTyped
<1>4. /\ req' \in [Requests -> Locals]
      /\ \/ req'[r].pc = "idle" /\ a \in stranded'
         \/ /\ req'[r].pc = "assign" /\ req'[r].account = a /\ req'[r].roles = req[r].roles
            /\ req'[r].invite = req[r].invite
      /\ \A x \in Requests : x # r => req'[x] = req[x]
  BY <1>1, <1>2, FinishIs, GotoIs DEF MemberPCs
<1>5. InvitesStay /\ UsersStay /\ userRoles' = userRoles /\ joined' = joined
  BY InvitesKept, UsersKept DEF SaveRole
<1>6. Typed'
  BY <1>1, <1>3, <1>4 DEF SaveRole, Typed, TablesTyped, bounds, structure
<1>7. NobodyFounds /\ NobodySaves /\ NobodyMakes
  BY <1>1, <1>3, <1>4, <1>5 DEF SaveRole, NobodyFounds, NobodySaves, NobodyMakes, FoundPCs
<1>8. Acceptances' /\ Joiners'
  <2>1. \/ /\ req'[r].pc \notin JoinPCs \cup {"saveUser"}
           /\ req[r].pc \in JoinPCs => req[r].account \in stranded'
        \/ /\ req[r].pc \in JoinPCs \ {"accept"} /\ req'[r].pc \in JoinPCs \ {"accept"}
           /\ req'[r].account = req[r].account /\ req'[r].roles = req[r].roles
           /\ req'[r].invite = req[r].invite
    BY <1>1, <1>4 DEF JoinPCs
  <2> QED BY <1>3, <1>4, <1>5, <2>1, JoinMoves
<1> QED BY <1>6, <1>7, <1>8, NobodyFoundsInvariant, NobodySavesInvariant, NobodyMakesInvariant
        DEF IInv

LEMMA AssignRoleInvariant ==
  ASSUME IInv, NEW r \in Requests, AssignRole(r), UNCHANGED structure
  PROVE  IInv'
<1> PICK a : a = req[r].account
  OBVIOUS
<1>1. /\ Typed /\ req[r].pc = "assign" /\ OwnInvitation(req[r]) /\ a \in Accounts /\ a \in joined
      /\ GetUserRoleNames(a) = {} /\ req[r].roles \subseteq RoleNames
      /\ \A i \in Invites : ~AcceptedFor(i, a)
      /\ \A x \in Requests : JoiningFor(x, a) => x = r
  <2>1. Typed /\ req[r].pc = "assign"
    BY DEF IInv, AssignRole, At
  <2>2. req[r] \in Locals
    BY <2>1 DEF Typed
  <2> QED BY <2>1, <2>2 DEF IInv, Acceptances, OwnInvitation, JoinPCs, Locals
<1>2. userRoles' = userRoles \cup ({a} \X req[r].roles)
  BY DEF AssignRole
<1>3. /\ req' \in [Requests -> Locals] /\ req'[r].pc = "accept" /\ req'[r].account = a
      /\ req'[r].roles = req[r].roles /\ req'[r].invite = req[r].invite
      /\ \A x \in Requests : x # r => req'[x] = req[x]
  BY <1>1, GotoIs DEF AssignRole, MemberPCs
<1>4. InvitesStay /\ UsersStay /\ joined' = joined /\ stranded' = stranded /\ users' = users
  BY InvitesKept, UsersKept DEF AssignRole, history
<1>5. Typed'
  BY <1>1, <1>2, <1>3 DEF AssignRole, Typed, TablesTyped, bounds, history, structure
<1>6. NobodyFounds /\ NobodySaves /\ NobodyMakes
  BY <1>1, <1>2, <1>3, <1>4
  DEF AssignRole, NobodyFounds, NobodySaves, NobodyMakes, history, FoundPCs
<1>7. GetUserRoleNames(a)' = req[r].roles
  BY <1>1, <1>2 DEF GetUserRoleNames
<1>8. \A b \in Accounts : b # a => GetUserRoleNames(b)' = GetUserRoleNames(b)
  BY <1>2 DEF GetUserRoleNames
<1>9. \A i \in Invites : \A b : AcceptedFor(i, b)' <=> AcceptedFor(i, b)
  BY <1>4 DEF InvitesStay, AcceptedFor
<1>10. \A x \in Requests : \A b : JoiningFor(x, b)' <=> JoiningFor(x, b)
  <2>1. ASSUME NEW x \in Requests, NEW b PROVE JoiningFor(x, b)' <=> JoiningFor(x, b)
    <3>1. CASE x = r
      BY <1>1, <1>3, <3>1 DEF JoiningFor, JoinPCs
    <3>2. CASE x # r
      BY <1>3, <3>2 DEF JoiningFor
    <3> QED BY <3>1, <3>2
  <2> QED BY <2>1
<1>11. Acceptances'
  <2> SUFFICES ASSUME NEW x \in Requests
               PROVE  /\ req'[x].pc \in JoinPCs \cup {"saveUser"} => OwnInvitation(req[x])'
                      /\ req'[x].pc \in JoinPCs =>
                           /\ req'[x].account \in joined'
                           /\ \A i \in Invites : ~AcceptedFor(i, req[x].account)'
                           /\ \A y \in Requests : JoiningFor(y, req[x].account)' => y = x
                      /\ req'[x].pc \in JoinPCs \ {"accept"} =>
                           GetUserRoleNames(req[x].account)' = {}
                      /\ req'[x].pc = "accept" =>
                           GetUserRoleNames(req[x].account)' = req'[x].roles
    BY DEF Acceptances
  <2>1. CASE x # r
    <3>1. req'[x] = req[x]
      BY <1>3, <2>1
    <3>2. req[x].pc \in JoinPCs => req[x].account # a /\ req[x].account \in Accounts
      BY <1>1, <2>1 DEF JoiningFor, IInv, Acceptances, OwnInvitation
    <3>3. req[x].pc \in JoinPCs =>
             GetUserRoleNames(req[x].account)' = GetUserRoleNames(req[x].account)
      BY <3>1, <3>2, <1>8
    <3>4. req[x].pc \in JoinPCs \cup {"saveUser"} => OwnInvitation(req[x])'
      BY <1>4, <3>1, OthersAccept DEF IInv, Acceptances
    <3>5. "accept" \in JoinPCs
      BY DEF JoinPCs
    <3> QED BY <3>1, <3>3, <3>4, <3>5, <1>4, <1>9, <1>10 DEF IInv, Acceptances
  <2>2. CASE x = r
    <3>1. OwnInvitation(req[r])'
      BY <1>1, <1>3, <1>4 DEF InvitesStay, OwnInvitation
    <3>2. \A y \in Requests : JoiningFor(y, req[r].account)' => y = r
      BY <1>1, <1>3, <1>10
    <3>3. \A i \in Invites : ~AcceptedFor(i, req[r].account)'
      BY <1>1, <1>3, <1>9
    <3>4. GetUserRoleNames(req[r].account)' = req'[r].roles
      BY <1>3, <1>7
    <3> QED BY <2>2, <3>1, <3>2, <3>3, <3>4, <1>1, <1>3, <1>4
  <2> QED BY <2>1, <2>2
<1>12. Joiners'
  <2>1. ASSUME NEW b \in joined
        PROVE  /\ UserExists(b)'
               /\ \/ b \in stranded'
                  \/ \E x \in Requests : JoiningFor(x, b)'
                  \/ \E i \in Invites : AcceptedFor(i, b)'
    BY <1>4, <1>9, <1>10 DEF IInv, Joiners, UserExists
  <2>2. \A b \in Accounts : GetUserRoleNames(b)' # {} => UserExists(b)'
    BY <1>1, <1>4, <1>8 DEF IInv, Joiners, UserExists
  <2>3. ASSUME NEW b \in Accounts, NEW i \in Invites, AcceptedFor(i, b)'
        PROVE  /\ b \in joined' /\ GetUserRoleNames(b)' = {invites'[i].role}
               /\ \A j \in Invites : AcceptedFor(j, b)' => j = i
    <3>1. AcceptedFor(i, b) /\ b # a
      BY <1>1, <1>9, <2>3
    <3>2. invites'[i].role = invites[i].role
      BY <1>4, <3>1 DEF AcceptedFor, InvitesStay
    <3> QED BY <1>4, <1>8, <1>9, <3>1, <3>2 DEF IInv, Joiners
  <2> QED BY <2>1, <2>2, <2>3, <1>4 DEF Joiners
<1> QED BY <1>5, <1>6, <1>11, <1>12, NobodyFoundsInvariant, NobodySavesInvariant,
           NobodyMakesInvariant DEF IInv

LEMMA MarkAcceptedInvariant ==
  ASSUME IInv, NEW r \in Requests, MarkAccepted(r), UNCHANGED structure
  PROVE  IInv'
<1> PICK a, i : a = req[r].account /\ i = req[r].invite
  OBVIOUS
<1> DEFINE marked == [invites[i] EXCEPT !.accepted = TRUE]
<1>1. /\ Typed /\ req[r].pc = "accept" /\ OwnInvitation(req[r]) /\ a \in Accounts /\ a \in joined
      /\ i \in Invites /\ invites[i] \in Invitation /\ invites[i].account = a
      /\ GetUserRoleNames(a) = {invites[i].role}
      /\ \A j \in Invites : ~AcceptedFor(j, a)
      /\ \A x \in Requests : JoiningFor(x, a) => x = r
  <2>1. Typed /\ req[r].pc = "accept" /\ OwnInvitation(req[r])
    BY DEF IInv, MarkAccepted, At, Acceptances, JoinPCs
  <2>2. invites[i] \in Invitation
    BY <2>1 DEF OwnInvitation, Typed, TablesTyped
  <2> QED BY <2>1, <2>2 DEF IInv, Acceptances, OwnInvitation, JoinPCs
<1>2. /\ marked \in Invitation /\ marked.account = a /\ marked.role = invites[i].role
      /\ marked.accepted /\ marked # Null
  <2>1. /\ marked \in Invitation /\ marked.account = a /\ marked.role = invites[i].role
        /\ marked.accepted
    BY <1>1 DEF Invitation
  <2> QED BY <2>1, NullAssumption
<1>3. invites' = [invites EXCEPT ![i] = marked]
  BY DEF MarkAccepted
<1> HIDE DEF marked
<1>4. /\ invites' \in [Invites -> Invitation \cup {Null}] /\ invites'[i] = marked
      /\ \A j \in Invites : j # i => invites'[j] = invites[j]
  BY <1>1, <1>2, <1>3 DEF Typed, TablesTyped
<1>5. /\ req' \in [Requests -> Locals] /\ req'[r].pc = "idle"
      /\ \A x \in Requests : x # r => req'[x] = req[x]
  BY <1>1, FinishIs DEF MarkAccepted
<1>6. /\ UsersStay /\ users' = users /\ userRoles' = userRoles /\ roles' = roles
      /\ joined' = joined /\ stranded' = stranded /\ founded' = founded
  BY UsersKept DEF MarkAccepted, history
<1>7. Typed'
  BY <1>1, <1>4, <1>5 DEF MarkAccepted, Typed, TablesTyped, bounds, history, structure
<1>8. NobodySaves /\ NobodyMakes
  BY <1>1, <1>5, <1>6 DEF MarkAccepted, NobodySaves, NobodyMakes, history
<1>9. AcceptedFor(i, a)' /\ \A b : b # a => ~AcceptedFor(i, b)'
  BY <1>2, <1>4 DEF AcceptedFor
<1>10. \A j \in Invites \ {i} : \A b : AcceptedFor(j, b)' <=> AcceptedFor(j, b)
  BY <1>4 DEF AcceptedFor
<1>11. \A b : GetUserRoleNames(b)' = GetUserRoleNames(b)
  BY <1>6 DEF GetUserRoleNames
<1>12. \A x \in Requests : \A b : JoiningFor(x, b)' <=> (JoiningFor(x, b) /\ x # r)
  <2>1. ASSUME NEW x \in Requests, NEW b PROVE JoiningFor(x, b)' <=> (JoiningFor(x, b) /\ x # r)
    <3>1. CASE x = r
      BY <1>5, <3>1 DEF JoiningFor, JoinPCs
    <3>2. CASE x # r
      BY <1>5, <3>2 DEF JoiningFor
    <3> QED BY <3>1, <3>2
  <2> QED BY <2>1
<1>13. Foundings'
  <2>1. \A x \in Requests : \A b : FoundingFor(x, b)' <=> FoundingFor(x, b)
    <3>1. ASSUME NEW x \in Requests, NEW b PROVE FoundingFor(x, b)' <=> FoundingFor(x, b)
      <4>1. CASE x = r
        BY <1>1, <1>5, <4>1 DEF FoundingFor, FoundPCs
      <4>2. CASE x # r
        BY <1>5, <4>2 DEF FoundingFor
      <4> QED BY <4>1, <4>2
    <3> QED BY <3>1
  <2>2. ASSUME NEW j \in Invites, invites[j] # Null
        PROVE  invites'[j] # Null /\ invites'[j].account = invites[j].account
               /\ invites'[j].role = invites[j].role
    BY <1>1, <1>2, <1>4, <2>2
  <2>3. ASSUME NEW x \in Requests
        PROVE  /\ req'[x].pc \in FoundPCs => req'[x].account \in Accounts
               /\ req'[x].pc = "inviteOwner" => Owner \in roles'[req'[x].account[1]]
    <3>1. CASE x = r
      BY <1>5, <3>1 DEF FoundPCs
    <3>2. CASE x # r
      BY <1>5, <1>6, <3>2 DEF IInv, Foundings
    <3> QED BY <3>1, <3>2
  <2>4. ASSUME NEW b \in founded
        PROVE  \/ b[1] \in stranded'
               \/ \E x \in Requests : FoundingFor(x, b)'
               \/ /\ Owner \in roles'[b[1]]
                  /\ \E j \in Invites : /\ invites'[j] # Null
                                       /\ invites'[j].account = b /\ invites'[j].role = Owner
    BY <1>6, <2>1, <2>2 DEF IInv, Foundings
  <2> QED BY <1>6, <2>3, <2>4 DEF Foundings
<1>14. Acceptances'
  <2> SUFFICES ASSUME NEW x \in Requests
               PROVE  /\ req'[x].pc \in JoinPCs \cup {"saveUser"} => OwnInvitation(req[x])'
                      /\ req'[x].pc \in JoinPCs =>
                           /\ req'[x].account \in joined'
                           /\ \A j \in Invites : ~AcceptedFor(j, req[x].account)'
                           /\ \A y \in Requests : JoiningFor(y, req[x].account)' => y = x
                      /\ req'[x].pc \in JoinPCs \ {"accept"} =>
                           GetUserRoleNames(req[x].account)' = {}
                      /\ req'[x].pc = "accept" =>
                           GetUserRoleNames(req[x].account)' = req'[x].roles
    BY DEF Acceptances
  <2>1. CASE x # r
    <3>1. req'[x] = req[x]
      BY <1>5, <2>1
    <3>2. req[x].pc \in JoinPCs => req[x].account # a
      BY <1>1, <2>1 DEF JoiningFor
    <3>3. req[x].pc \in JoinPCs => \A j \in Invites : ~AcceptedFor(j, req[x].account)'
      <4>1. req[x].pc \in JoinPCs => \A j \in Invites : ~AcceptedFor(j, req[x].account)
        BY DEF IInv, Acceptances
      <4> QED BY <3>1, <3>2, <4>1, <1>9, <1>10
    <3>4. req[x].pc \in JoinPCs \cup {"saveUser"} => OwnInvitation(req[x])'
      <4>1. req[x].pc \in JoinPCs \cup {"saveUser"} => OwnInvitation(req[x])
        BY DEF IInv, Acceptances
      <4> QED BY <3>1, <4>1, <1>1, <1>2, <1>4 DEF OwnInvitation
    <3> QED BY <3>1, <3>3, <3>4, <1>6, <1>11, <1>12 DEF IInv, Acceptances
  <2>2. CASE x = r
    BY <2>2, <1>5 DEF JoinPCs
  <2> QED BY <2>1, <2>2
<1>15. Joiners'
  <2>1. ASSUME NEW b \in joined
        PROVE  /\ UserExists(b)'
               /\ \/ b \in stranded'
                  \/ \E x \in Requests : JoiningFor(x, b)'
                  \/ \E j \in Invites : AcceptedFor(j, b)'
    <3>1. UserExists(b)'
      BY <1>6 DEF IInv, Joiners, UserExists
    <3>2. CASE b = a
      BY <1>1, <1>9, <3>1, <3>2
    <3>3. CASE b # a
      <4>1. ASSUME NEW x \in Requests, JoiningFor(x, b) PROVE JoiningFor(x, b)'
        BY <1>12, <3>3, <4>1 DEF JoiningFor
      <4>2. ASSUME NEW j \in Invites, AcceptedFor(j, b) PROVE AcceptedFor(j, b)'
        BY <1>1, <1>10, <3>3, <4>2 DEF AcceptedFor
      <4> QED BY <1>6, <3>1, <4>1, <4>2 DEF IInv, Joiners
    <3> QED BY <3>2, <3>3
  <2>2. \A b \in Accounts : GetUserRoleNames(b)' # {} => UserExists(b)'
    BY <1>6, <1>11 DEF IInv, Joiners, UserExists
  <2>3. ASSUME NEW b \in Accounts, NEW j \in Invites, AcceptedFor(j, b)'
        PROVE  /\ b \in joined' /\ GetUserRoleNames(b)' = {invites'[j].role}
               /\ \A k \in Invites : AcceptedFor(k, b)' => k = j
    <3>1. CASE b = a
      <4>1. \A k \in Invites : AcceptedFor(k, a)' => k = i
        BY <1>1, <1>10
      <4> QED BY <3>1, <4>1, <2>3, <1>1, <1>2, <1>4, <1>6, <1>11
    <3>2. CASE b # a
      <4>1. j # i /\ AcceptedFor(j, b) /\ invites'[j] = invites[j]
        BY <1>4, <1>9, <1>10, <2>3, <3>2
      <4>2. \A k \in Invites : AcceptedFor(k, b)' => AcceptedFor(k, b)
        BY <1>9, <1>10, <3>2
      <4> QED BY <4>1, <4>2, <1>6, <1>11 DEF IInv, Joiners
    <3> QED BY <3>1, <3>2
  <2> QED BY <2>1, <2>2, <2>3, <1>6 DEF Joiners
<1> QED BY <1>7, <1>8, <1>13, <1>14, <1>15, NobodySavesInvariant, NobodyMakesInvariant DEF IInv

-----------------------------------------------------------------------------
(* Saved settings *)

\* A copy of the row is made: it shows what is to be answered, and all the row
\* has.
LEMMA CopyMade ==
  ASSUME IInv, NEW r \in Requests, NEW q, RowCopy(q), q.pc = "saveRow", req'[r] = q,
         \A x \in Requests : x # r => req'[x] = req[x],
         users' = users, audit' = audit, overlapped' = overlapped
  PROVE  Saves'
<1>1. \A event : Kept(event)' <=> Kept(event)
  BY DEF Kept, UserExists, Shows
<1>2. ASSUME NEW x \in Requests
      PROVE  /\ req'[x].pc = "audit" => req'[x].event \in Events /\ Kept(req[x].event)'
             /\ req'[x].pc \in {"saveRoles", "saveProject", "saveTeamMember"} =>
                  req'[x].event \in Events /\ req'[x].event.type \notin {Settled, Onboarded}
             /\ req'[x].pc = "saveRow" => RowCopy(req[x])'
  <2>1. CASE x = r
    <3>1. RowCopy(q)'
      BY DEF RowCopy, UserExists, Shows
    <3> QED BY <2>1, <3>1 DEF RowCopy
  <2>2. CASE x # r
    <3>1. req'[x] = req[x]
      BY <2>2
    <3>2. req[x].pc = "saveRow" => RowCopy(req[x])'
      BY <3>1 DEF IInv, Saves, RowCopy, UserExists, Shows
    <3>3. req[x].pc = "audit" => req'[x].event \in Events /\ Kept(req[x].event)'
      BY <3>1 DEF IInv, Saves, Kept, UserExists, Shows
    <3> QED BY <3>1, <3>2, <3>3 DEF IInv, Saves
  <2> QED BY <2>1, <2>2
<1>3. \A event \in audit' : Kept(event)'
  BY <1>1 DEF IInv, Saves
<1> QED BY <1>2, <1>3 DEF Saves

LEMMA UpdateMeSettingsInvariant ==
  ASSUME IInv, NEW r \in Requests, NEW a \in Accounts, NEW k \in Settings,
         UpdateMeSettings(r, a, k), UNCHANGED structure
  PROVE  IInv'
<1> DEFINE event == Event("user.settings.updated", a[1], a, {k})
           row == [users[a] EXCEPT !.profile = ApplySettingsToProfile(@, {k})]
           q == [Idle EXCEPT !.pc = "saveRow", !.account = a, !.row = row, !.event = event]
<1>1. Typed /\ UserExists(a) /\ users[a] \in User
  BY DEF IInv, Typed, TablesTyped, UserExists, UpdateMeSettings, GraphqlAuthGuard, AccessTokenGuard
<1>2. /\ event \in Events /\ event.type = Settled /\ event.actor = a /\ event.about = {k}
  <2>1. {k} \in SUBSET Names
    BY DEF Names
  <2> QED BY <2>1, EventTyped, TenantOf DEF EventTypes, Settled
<1>3. row \in User /\ row.profile = users[a].profile \cup {k} /\ row.done = users[a].done
  BY <1>1 DEF User, ApplySettingsToProfile
<1>4. Start(r, q)
  BY DEF UpdateMeSettings
<1> HIDE DEF event, row
<1>5. q \in Locals /\ q.pc = "saveRow" /\ q.account = a /\ q.row = row /\ q.event = event
  <2>1. row \in Rows
    BY <1>3 DEF Rows
  <2> QED BY <2>1, <1>2, IdleTyped DEF Locals, MemberPCs
<1> HIDE DEF q
<1>6. /\ req' \in [Requests -> Locals] /\ req'[r] = q
      /\ \A x \in Requests : x # r => req'[x] = req[x]
  BY <1>1, <1>4, <1>5, StartIs
<1>7. req[r].pc = "idle" /\ arrivals' \in 0..MaxArrivals
  BY <1>1, AdmitIs DEF UpdateMeSettings
<1>8. /\ InvitesStay /\ UsersStay /\ users' = users /\ audit' = audit /\ overlapped' = overlapped
  BY InvitesKept, UsersKept DEF UpdateMeSettings, memberTables, history
<1>9. Typed'
  BY <1>1, <1>6, <1>7 DEF UpdateMeSettings, Typed, TablesTyped, memberTables, history, structure
<1>10. NobodyJoins /\ NobodyFounds /\ NobodyMakes
  BY <1>5, <1>6, <1>7, <1>8
  DEF UpdateMeSettings, NobodyJoins, NobodyFounds, NobodyMakes, memberTables, history,
      JoinPCs, FoundPCs
<1>11. RowCopy(q)
  BY <1>1, <1>2, <1>3, <1>5 DEF RowCopy, Shows, Settled, Onboarded
<1>12. Saves'
  <2> PICK c : c = q
    OBVIOUS
  <2> QED BY <1>5, <1>6, <1>8, <1>11, CopyMade
<1> QED BY <1>9, <1>10, <1>12, NobodyJoinsInvariant, NobodyFoundsInvariant, NobodyMakesInvariant
        DEF IInv

LEMMA CompleteOnboardingInvariant ==
  ASSUME IInv, NEW r \in Requests, NEW a \in Accounts,
         CompleteOnboarding(r, a), UNCHANGED structure
  PROVE  IInv'
<1> DEFINE event == Event("user.onboarding.completed", a[1], a, {})
           row == [users[a] EXCEPT !.done = TRUE]
           q == [Idle EXCEPT !.pc = "saveRow", !.account = a, !.row = row, !.event = event]
<1>1. Typed /\ UserExists(a) /\ users[a] \in User
  BY DEF IInv, Typed, TablesTyped, UserExists, CompleteOnboarding, GraphqlAuthGuard,
         AccessTokenGuard
<1>2. /\ event \in Events /\ event.type = Onboarded /\ event.actor = a
  BY EventTyped, TenantOf DEF EventTypes, Onboarded
<1>3. row \in User /\ row.profile = users[a].profile /\ row.done
  BY <1>1 DEF User
<1>4. Start(r, q)
  BY DEF CompleteOnboarding
<1> HIDE DEF event, row
<1>5. q \in Locals /\ q.pc = "saveRow" /\ q.account = a /\ q.row = row /\ q.event = event
  <2>1. row \in Rows
    BY <1>3 DEF Rows
  <2> QED BY <2>1, <1>2, IdleTyped DEF Locals, MemberPCs
<1> HIDE DEF q
<1>6. /\ req' \in [Requests -> Locals] /\ req'[r] = q
      /\ \A x \in Requests : x # r => req'[x] = req[x]
  BY <1>1, <1>4, <1>5, StartIs
<1>7. req[r].pc = "idle" /\ arrivals' \in 0..MaxArrivals
  BY <1>1, AdmitIs DEF CompleteOnboarding
<1>8. /\ InvitesStay /\ UsersStay /\ users' = users /\ audit' = audit /\ overlapped' = overlapped
  BY InvitesKept, UsersKept DEF CompleteOnboarding, memberTables, history
<1>9. Typed'
  BY <1>1, <1>6, <1>7 DEF CompleteOnboarding, Typed, TablesTyped, memberTables, history, structure
<1>10. NobodyJoins /\ NobodyFounds /\ NobodyMakes
  BY <1>5, <1>6, <1>7, <1>8
  DEF CompleteOnboarding, NobodyJoins, NobodyFounds, NobodyMakes, memberTables, history,
      JoinPCs, FoundPCs
<1>11. RowCopy(q)
  BY <1>1, <1>2, <1>3, <1>5 DEF RowCopy, Shows, Settled, Onboarded
<1>12. Saves'
  <2> PICK c : c = q
    OBVIOUS
  <2> QED BY <1>5, <1>6, <1>8, <1>11, CopyMade
<1> QED BY <1>9, <1>10, <1>12, NobodyJoinsInvariant, NobodyFoundsInvariant, NobodyMakesInvariant
        DEF IInv

LEMMA SaveRowInvariant ==
  ASSUME IInv, NEW r \in Requests, SaveRow(r), UNCHANGED structure
  PROVE  IInv'
<1> PICK q : q = req[r]
  OBVIOUS
<1> PICK a : a = q.account
  OBVIOUS
<1>1. /\ Typed /\ q.pc = "saveRow" /\ RowCopy(q)
      /\ a \in Accounts /\ UserExists(a) /\ q.row \in User /\ q.row # Null
  <2>1. Typed /\ q.pc = "saveRow" /\ RowCopy(q)
    BY DEF IInv, SaveRow, At, Saves
  <2> QED BY <2>1, NullAssumption DEF RowCopy
<1>2. users' = [users EXCEPT ![a] = q.row]
  BY DEF SaveRow
<1>3. /\ users' \in [Accounts -> User \cup {Null}] /\ users'[a] = q.row
      /\ \A b \in Accounts : b # a => users'[b] = users[b]
  BY <1>1, <1>2 DEF Typed, TablesTyped
<1>4. /\ req' \in [Requests -> Locals] /\ req'[r].pc = "audit" /\ req'[r].event = q.event
      /\ \A x \in Requests : x # r => req'[x] = req[x]
  BY <1>1, GotoIs DEF SaveRow, MemberPCs
<1>5. /\ UsersStay
      /\ overlapped \subseteq overlapped' /\ overlapped' \subseteq overlapped \cup {a}
      /\ \A x \in Requests : x # r /\ req[x].pc = "saveRow" /\ req[x].account = a => a \in overlapped'
  <2>1. UsersStay
    BY <1>1, <1>3 DEF UsersStay, UserExists
  <2>2. overlapped' = IF \E x \in Requests \ {r} : At(x, "saveRow") /\ req[x].account = a
                      THEN overlapped \cup {a} ELSE overlapped
    BY DEF SaveRow
  <2> QED BY <2>1, <2>2 DEF At
<1>6. InvitesStay
  BY InvitesKept DEF SaveRow
<1>7. Typed'
  BY <1>1, <1>3, <1>4, <1>5 DEF SaveRow, Typed, TablesTyped, bounds, structure
<1>8. NobodyJoins /\ NobodyFounds /\ NobodyMakes
  BY <1>1, <1>4, <1>5, <1>6 DEF SaveRow, NobodyJoins, NobodyFounds, NobodyMakes, JoinPCs, FoundPCs
<1>9. a \notin overlapped' => /\ users[a].profile \subseteq q.row.profile
                              /\ users[a].done => q.row.done
  BY <1>1, <1>5 DEF RowCopy
<1>10. ASSUME NEW event \in Events, Kept(event) PROVE Kept(event)'
  <2>1. event.actor \in Accounts
    BY DEF Events
  <2>2. CASE event.actor # a
    BY <1>3, <1>5, <1>10, <2>1, <2>2 DEF Kept, UserExists, Shows
  <2>3. CASE event.actor = a
    <3>1. event.type \in {Settled, Onboarded} => UserExists(event.actor)'
      BY <1>1, <1>3, <2>3 DEF UserExists
    <3>2. a \notin overlapped' => Shows(q.row, event)
      <4> SUFFICES ASSUME a \notin overlapped' PROVE Shows(q.row, event)
        OBVIOUS
      <4>1. a \notin overlapped
        BY <1>5
      <4>2. Shows(users[a], event)
        BY <1>10, <2>3, <4>1 DEF Kept
      <4> QED BY <1>9, <4>2 DEF Shows
    <3> QED BY <1>3, <2>3, <3>1, <3>2 DEF Kept, Shows
  <2> QED BY <2>2, <2>3
<1>11. Kept(q.event)' /\ q.event \in Events
  <2>1. q.event.actor = a /\ Shows(q.row, q.event) /\ q.event \in Events
    BY <1>1 DEF RowCopy
  <2> QED BY <1>1, <1>3, <2>1 DEF Kept, UserExists, Shows
<1>12. Saves'
  <2>1. \A event \in audit' : Kept(event)'
    BY <1>1, <1>10 DEF SaveRow, IInv, Saves, Typed, TablesTyped
  <2>2. ASSUME NEW x \in Requests
        PROVE  /\ req'[x].pc = "audit" => req'[x].event \in Events /\ Kept(req[x].event)'
               /\ req'[x].pc \in {"saveRoles", "saveProject", "saveTeamMember"} =>
                    req'[x].event \in Events /\ req'[x].event.type \notin {Settled, Onboarded}
               /\ req'[x].pc = "saveRow" => RowCopy(req[x])'
    <3>1. CASE x = r
      <4>1. Kept(req[x].event)'
        BY <1>4, <1>11, <3>1 DEF Kept
      <4> QED BY <1>4, <1>11, <3>1, <4>1
    <3>2. CASE x # r
      <4>1. req'[x] = req[x]
        BY <1>4, <3>2
      <4> PICK p : p = req[x]
        OBVIOUS
      <4>2. p.pc = "audit" => p.event \in Events /\ Kept(p.event)'
        BY <1>10 DEF IInv, Saves
      <4>3. p.pc = "saveRow" => RowCopy(p)'
        <5> SUFFICES ASSUME p.pc = "saveRow" PROVE RowCopy(p)'
          OBVIOUS
        <5>1. RowCopy(p)
          BY DEF IInv, Saves
        <5>2. CASE p.account = a
          <6>1. a \in overlapped'
            BY <1>5, <3>2, <5>2
          <6> QED BY <1>1, <1>3, <5>1, <5>2, <6>1 DEF RowCopy, UserExists, Shows
        <5>3. CASE p.account # a
          BY <1>3, <1>5, <5>1, <5>3 DEF RowCopy, UserExists, Shows
        <5> QED BY <5>2, <5>3
      <4>4. p.pc \in {"saveRoles", "saveProject", "saveTeamMember"} =>
               p.event \in Events /\ p.event.type \notin {Settled, Onboarded}
        BY DEF IInv, Saves
      <4> QED BY <4>1, <4>2, <4>3, <4>4
    <3> QED BY <3>1, <3>2
  <2> QED BY <2>1, <2>2 DEF Saves
<1> QED BY <1>7, <1>8, <1>12, NobodyJoinsInvariant, NobodyFoundsInvariant, NobodyMakesInvariant
        DEF IInv

LEMMA LogEventInvariant ==
  ASSUME IInv, NEW r \in Requests, LogEvent(r), UNCHANGED structure
  PROVE  IInv'
<1> PICK event : event = req[r].event
  OBVIOUS
<1>1. Typed /\ req[r].pc = "audit" /\ event \in Events /\ Kept(event)
  BY DEF IInv, LogEvent, At, Saves
<1>2. /\ req' \in [Requests -> Locals] /\ req'[r].pc = "idle"
      /\ \A x \in Requests : x # r => req'[x] = req[x]
  BY <1>1, FinishIs DEF LogEvent
<1>3. /\ InvitesStay /\ UsersStay /\ users' = users /\ userRoles' = userRoles
      /\ audit' = audit \cup {event} /\ untold' = untold /\ overlapped' = overlapped
  BY InvitesKept, UsersKept DEF LogEvent, memberTables, history
<1>4. Typed'
  BY <1>1, <1>2, <1>3 DEF LogEvent, Typed, TablesTyped, memberTables, bounds, history, structure
<1>5. NobodyJoins /\ NobodyFounds
  BY <1>1, <1>2, <1>3
  DEF LogEvent, NobodyJoins, NobodyFounds, memberTables, history, JoinPCs, FoundPCs
<1>6. \A e : Kept(e)' <=> Kept(e)
  BY <1>3 DEF Kept, UserExists, Shows
<1>7. Saves'
  <2>1. \A e \in audit' : Kept(e)'
    BY <1>1, <1>3, <1>6 DEF IInv, Saves
  <2>2. ASSUME NEW x \in Requests
        PROVE  /\ req'[x].pc = "audit" => req'[x].event \in Events /\ Kept(req[x].event)'
               /\ req'[x].pc \in {"saveRoles", "saveProject", "saveTeamMember"} =>
                    req'[x].event \in Events /\ req'[x].event.type \notin {Settled, Onboarded}
               /\ req'[x].pc = "saveRow" => RowCopy(req[x])'
    <3>1. CASE x = r
      BY <1>2, <3>1
    <3>2. CASE x # r
      <4>1. req'[x] = req[x]
        BY <1>2, <3>2
      <4> PICK p : p = req[x]
        OBVIOUS
      <4>2. p.pc = "audit" => p.event \in Events /\ Kept(p.event)'
        BY <1>6 DEF IInv, Saves
      <4>3. p.pc = "saveRow" => RowCopy(p)'
        BY <1>3 DEF IInv, Saves, RowCopy, UserExists, Shows
      <4>4. p.pc \in {"saveRoles", "saveProject", "saveTeamMember"} =>
               p.event \in Events /\ p.event.type \notin {Settled, Onboarded}
        BY DEF IInv, Saves
      <4> QED BY <4>1, <4>2, <4>3, <4>4
    <3> QED BY <3>1, <3>2
  <2> QED BY <2>1, <2>2 DEF Saves
<1>8. Told \subseteq Told'
  <2>1. \A x \in Requests : req[x].pc = "audit" =>
           req'[x] = req[x] \/ req[x].event \in audit' \cup untold'
    BY <1>2, <1>3
  <2> QED BY <1>3, <2>1, ToldStays
<1>9. Tables'
  BY <1>3, <1>8, TablesStay
<1>10. Makers'
  <2>1. ASSUME NEW x \in Requests
        PROVE  /\ req'[x].pc = "saveProject" => MakesProject(req[x])'
               /\ req'[x].pc = "saveTeamMember" => MakesMember(req[x])'
    <3>1. CASE x = r
      BY <1>2, <3>1
    <3>2. CASE x # r
      BY <1>2, <1>3, <3>2, MakersStay
    <3> QED BY <3>1, <3>2
  <2> QED BY <2>1 DEF Makers
<1> QED BY <1>4, <1>5, <1>7, <1>9, <1>10, NobodyJoinsInvariant, NobodyFoundsInvariant DEF IInv

-----------------------------------------------------------------------------
(* Structure *)

LEMMA NowTold ==
  ASSUME NEW r \in Requests, req'[r].pc = "audit"
  PROVE  req'[r].event \in Told'
BY DEF Told, At

\* A step of request r leaves none but r to look at.
LEMMA MakersStep ==
  ASSUME IInv, UsersStay, userRoles \subseteq userRoles', NEW r \in Requests,
         \A x \in Requests : x # r => req'[x] = req[x],
         req'[r].pc = "saveProject" => MakesProject(req[r])',
         req'[r].pc = "saveTeamMember" => MakesMember(req[r])'
  PROVE  Makers'
<1>1. ASSUME NEW x \in Requests
      PROVE  /\ req'[x].pc = "saveProject" => MakesProject(req[x])'
             /\ req'[x].pc = "saveTeamMember" => MakesMember(req[x])'
  <2>1. CASE x = r
    BY <2>1
  <2>2. CASE x # r
    BY <2>2, MakersStay
  <2> QED BY <2>1, <2>2
<1> QED BY <1>1 DEF Makers

\* An event that is made by whoever has the role for it stays one.
LEMMA MakingHolds ==
  ASSUME users' = users, userRoles' = userRoles,
         NEW event, NEW type, NEW t, NEW about, NEW actor, NEW names,
         event.type = type, event.tenant = t, event.about = about, event.actor = actor,
         HasRole(t, actor, names)
  PROVE  Making(event, type, t, about, names) /\ Making(event, type, t, about, names)'
<1>1. Making(event, type, t, about, names)
  BY DEF Making
<1>2. HasRole(t, actor, names)'
  BY DEF HasRole, GraphqlAuthGuard, AccessTokenGuard, UserExists, GetUserRoleNames
<1> QED BY <1>1, <1>2 DEF Making

LEMMA FailInvariant ==
  ASSUME IInv, NEW r \in Requests, Fail(r), UNCHANGED structure
  PROVE  IInv'
<1>1. Typed
  BY DEF IInv
<1>2. /\ req' \in [Requests -> Locals] /\ req'[r].pc = "idle"
      /\ \A x \in Requests : x # r => req'[x] = req[x]
  BY <1>1, FinishIs DEF Fail
<1>3. /\ InvitesStay /\ UsersStay /\ users' = users /\ userRoles' = userRoles /\ roles' = roles
      /\ audit' = audit /\ founded' = founded /\ joined' = joined /\ overlapped' = overlapped
  BY InvitesKept, UsersKept DEF Fail, memberTables
<1>4. /\ stranded \subseteq stranded'
      /\ req[r].pc \in FoundPCs => req[r].account[1] \in stranded'
      /\ req[r].pc \in JoinPCs => req[r].account \in stranded'
  <2>1. CASE req[r].pc \in FoundPCs
    <3>1. stranded' = stranded \cup {req[r].account[1]}
      BY <2>1 DEF Fail, FoundPCs
    <3> QED BY <2>1, <3>1 DEF FoundPCs, JoinPCs
  <2>2. CASE req[r].pc \in JoinPCs
    <3>1. stranded' = stranded \cup {req[r].account}
      BY <2>2 DEF Fail, JoinPCs
    <3> QED BY <2>2, <3>1 DEF FoundPCs, JoinPCs
  <2>3. CASE req[r].pc \notin FoundPCs \cup JoinPCs
    <3>1. stranded' = stranded
      BY <2>3 DEF Fail, JoinPCs, FoundPCs
    <3> QED BY <2>3, <3>1
  <2> QED BY <2>1, <2>2, <2>3
<1>5. /\ untold \subseteq untold' /\ untold' \subseteq Events
      /\ req[r].pc = "audit" => req[r].event \in untold'
  BY <1>1 DEF Fail, At, IInv, Saves, Typed
<1>6. Typed'
  <2>1. fails' \in 0..MaxFails
    BY <1>1, BoundsAssumption DEF Fail, Typed
  <2> QED BY <1>1, <1>2, <1>3, <1>5, <2>1 DEF Fail, Typed, TablesTyped, memberTables, structure
<1>7. Acceptances' /\ Joiners'
  <2>1. req'[r].pc \notin JoinPCs \cup {"saveUser"}
    BY <1>2 DEF JoinPCs
  <2> QED BY <1>2, <1>3, <1>4, <2>1, JoinMoves
<1>8. Foundings'
  <2>1. founded' \subseteq Accounts
    BY <1>6 DEF Typed
  <2>2. \A b \in Accounts : FoundingFor(r, b) => b[1] \in stranded'
    BY <1>4 DEF FoundingFor
  <2>3. req'[r].pc \notin FoundPCs /\ req'[r].pc # "inviteOwner"
    BY <1>2 DEF FoundPCs
  <2> QED BY <1>2, <1>3, <1>4, <2>1, <2>2, <2>3, FoundingStep
<1>9. NobodySaves
  BY <1>2, <1>3 DEF NobodySaves
<1>10. Told \subseteq Told'
  <2>1. \A x \in Requests : req[x].pc = "audit" =>
           req'[x] = req[x] \/ req[x].event \in audit' \cup untold'
    BY <1>2, <1>5
  <2> QED BY <1>3, <1>5, <2>1, ToldStays
<1>11. Tables'
  BY <1>3, <1>10, TablesStay
<1>12. Makers'
  BY <1>2, <1>3, MakersStep
<1> QED BY <1>6, <1>7, <1>8, <1>9, <1>11, <1>12, NobodySavesInvariant DEF IInv

\* What all of the structure's steps leave alone.
Besides ==
  /\ UNCHANGED <<memberTables, audit, fails, history>>
  /\ arrivals' \in 0..MaxArrivals

LEMMA StructureStep ==
  ASSUME IInv, Besides, NEW r \in Requests, req' \in [Requests -> Locals],
         \A x \in Requests : x # r => req'[x] = req[x],
         req[r].pc \in {"idle"} \cup StructurePCs,
         req'[r].pc \in {"idle", "audit"} \cup StructurePCs,
         req'[r].pc # "idle" => /\ req'[r].event \in Events
                                /\ req'[r].event.type \notin {Settled, Onboarded}
  PROVE  /\ Acceptances' /\ Joiners' /\ Foundings' /\ Saves'
         /\ users' = users /\ userRoles' = userRoles /\ UsersStay /\ Told \subseteq Told'
         /\ portfolios' \subseteq Portfolio /\ projects' \subseteq Project /\ teams' \subseteq Team
            /\ teamMembers' \subseteq TeamMember => Typed'
<1>1. /\ InvitesStay /\ UsersStay /\ users' = users /\ userRoles' = userRoles /\ roles' = roles
      /\ audit' = audit /\ founded' = founded /\ joined' = joined /\ overlapped' = overlapped
      /\ stranded' = stranded /\ untold' = untold
  BY InvitesKept, UsersKept DEF Besides, memberTables, history
<1>2. NobodyJoins /\ NobodyFounds
  BY <1>1 DEF NobodyJoins, NobodyFounds, JoinPCs, FoundPCs, StructurePCs
<1>3. NobodySaves
  BY <1>1 DEF NobodySaves, StructurePCs
<1>4. Told \subseteq Told'
  <2>1. req[r].pc # "audit"
    BY DEF StructurePCs
  <2>2. \A x \in Requests : req[x].pc = "audit" => req'[x] = req[x]
    BY <2>1
  <2> QED BY <1>1, <2>2, ToldStays
<1>5. /\ portfolios' \subseteq Portfolio /\ projects' \subseteq Project /\ teams' \subseteq Team
         /\ teamMembers' \subseteq TeamMember => Typed'
  BY DEF Besides, IInv, Typed, TablesTyped, memberTables, history
<1> QED BY <1>1, <1>2, <1>3, <1>4, <1>5, NobodyJoinsInvariant, NobodyFoundsInvariant,
           NobodySavesInvariant

LEMMA CreatePortfolioInvariant ==
  ASSUME IInv, NEW r \in Requests, NEW t \in Tenants, NEW p \in Ids, NEW actor \in Accounts,
         CreatePortfolio(r, t, p, actor)
  PROVE  IInv'
<1> PICK event : event = Event("portfolio.created", t, actor, {p})
  OBVIOUS
<1> PICK new : new = [id |-> p, tenant |-> t]
  OBVIOUS
<1>1. Typed
  BY DEF IInv
<1>2. /\ event \in Events /\ event.type = "portfolio.created" /\ event.tenant = t
      /\ event.actor = actor /\ event.about = {p} /\ event.type \notin {Settled, Onboarded}
  <2>1. {p} \in SUBSET Names
    BY DEF Names
  <2> QED BY <2>1, EventTyped DEF EventTypes, Settled, Onboarded
<1>3. new \in Portfolio /\ new.tenant = t /\ new.id = p
  BY DEF Portfolio
<1>4. /\ portfolios' = portfolios \cup {new} /\ projects' = projects /\ teams' = teams
      /\ teamMembers' = teamMembers /\ HasRole(t, actor, ManagerRoles)
  BY DEF CreatePortfolio, EnsureAdminOrOwner
<1>5. /\ req' \in [Requests -> Locals] /\ req'[r].pc = "audit" /\ req'[r].event = event
      /\ \A x \in Requests : x # r => req'[x] = req[x]
  BY <1>1, <1>2, ThenAuditIs DEF CreatePortfolio
<1>6. req[r].pc = "idle" /\ Besides
  BY <1>1, AdmitIs DEF CreatePortfolio, Besides
<1>7. portfolios' \subseteq Portfolio /\ projects' \subseteq Project /\ teams' \subseteq Team
      /\ teamMembers' \subseteq TeamMember
  BY <1>1, <1>3, <1>4 DEF Typed, TablesTyped
<1>8. /\ Acceptances' /\ Joiners' /\ Foundings' /\ Saves' /\ Typed'
      /\ users' = users /\ userRoles' = userRoles /\ UsersStay /\ Told \subseteq Told'
  BY <1>2, <1>5, <1>6, <1>7, StructureStep
<1>9. Made("portfolio.created", t, {p}, ManagerRoles)'
  <2>1. event \in Told'
    BY <1>5, NowTold
  <2>2. Making(event, "portfolio.created", t, {p}, ManagerRoles)'
    BY <1>2, <1>4, <1>8, MakingHolds
  <2> QED BY <2>1, <2>2 DEF Made
<1>10. Tables'
  <2>1. ASSUME NEW row \in portfolios'
        PROVE  Made("portfolio.created", row.tenant, {row.id}, ManagerRoles)'
    BY <1>3, <1>4, <1>8, <1>9, PortfoliosStay
  <2> QED BY <2>1, <1>4, <1>8, ProjectsStay, TeamsStay, TeamMembersStay DEF IInv, Tables, IdsOf
<1>11. Makers'
  BY <1>5, <1>8, MakersStep
<1> QED BY <1>8, <1>10, <1>11 DEF IInv

LEMMA CreateTeamInvariant ==
  ASSUME IInv, NEW r \in Requests, NEW t \in Tenants, NEW g \in Ids, NEW j \in ProjectId,
         NEW actor \in Accounts, CreateTeam(r, t, g, j, actor)
  PROVE  IInv'
<1> PICK event : event = Event("team.created", t, actor, {g})
  OBVIOUS
<1> PICK new : new = [id |-> g, tenant |-> t, project |-> j]
  OBVIOUS
<1>1. Typed
  BY DEF IInv
<1>2. /\ event \in Events /\ event.type = "team.created" /\ event.tenant = t
      /\ event.actor = actor /\ event.about = {g} /\ event.type \notin {Settled, Onboarded}
  <2>1. {g} \in SUBSET Names
    BY DEF Names
  <2> QED BY <2>1, EventTyped DEF EventTypes, Settled, Onboarded
<1>3. new \in Team /\ new.tenant = t /\ new.id = g /\ new.project = j
  BY DEF Team
<1>4. /\ teams' = teams \cup {new} /\ projects' = projects /\ portfolios' = portfolios
      /\ teamMembers' = teamMembers /\ HasRole(t, actor, StructureRoles)
      /\ j \in IdsOf(projects)
  BY DEF CreateTeam, EnsureProjectManagerOrAbove
<1>5. /\ req' \in [Requests -> Locals] /\ req'[r].pc = "audit" /\ req'[r].event = event
      /\ \A x \in Requests : x # r => req'[x] = req[x]
  BY <1>1, <1>2, ThenAuditIs DEF CreateTeam
<1>6. req[r].pc = "idle" /\ Besides
  BY <1>1, AdmitIs DEF CreateTeam, Besides
<1>7. portfolios' \subseteq Portfolio /\ projects' \subseteq Project /\ teams' \subseteq Team
      /\ teamMembers' \subseteq TeamMember
  BY <1>1, <1>3, <1>4 DEF Typed, TablesTyped
<1>8. /\ Acceptances' /\ Joiners' /\ Foundings' /\ Saves' /\ Typed'
      /\ users' = users /\ userRoles' = userRoles /\ UsersStay /\ Told \subseteq Told'
  BY <1>2, <1>5, <1>6, <1>7, StructureStep
<1>9. Made("team.created", t, {g}, StructureRoles)'
  <2>1. event \in Told'
    BY <1>5, NowTold
  <2>2. Making(event, "team.created", t, {g}, StructureRoles)'
    BY <1>2, <1>4, <1>8, MakingHolds
  <2> QED BY <2>1, <2>2 DEF Made
<1>10. Tables'
  <2>1. ASSUME NEW row \in teams'
        PROVE  /\ row.project \in IdsOf(projects)'
               /\ Made("team.created", row.tenant, {row.id}, StructureRoles)'
    <3>1. CASE row = new
      BY <1>3, <1>4, <1>9, <3>1 DEF IdsOf
    <3>2. CASE row \in teams
      BY <1>4, <1>8, <3>2, TeamsStay DEF IInv, Tables, IdsOf
    <3> QED BY <1>4, <3>1, <3>2
  <2> QED BY <2>1, <1>4, <1>8, PortfoliosStay, ProjectsStay, TeamMembersStay DEF IInv, Tables
<1>11. Makers'
  BY <1>5, <1>8, MakersStep
<1> QED BY <1>8, <1>10, <1>11 DEF IInv

LEMMA CreateProjectInvariant ==
  ASSUME IInv, NEW r \in Requests, NEW t \in Tenants, NEW p \in Ids, NEW c \in Codes,
         NEW actor \in Accounts, CreateProject(r, t, p, c, actor)
  PROVE  IInv'
<1> PICK event : event = Event("project.created", t, actor, {c})
  OBVIOUS
<1> PICK new : new = [id |-> <<t, c>>, tenant |-> t, portfolio |-> p]
  OBVIOUS
<1> PICK q : q = [Idle EXCEPT !.pc = "saveProject", !.row = new, !.event = event]
  OBVIOUS
<1>1. Typed
  BY DEF IInv
<1>2. /\ event \in Events /\ event.type = "project.created" /\ event.tenant = t
      /\ event.actor = actor /\ event.about = {c} /\ event.type \notin {Settled, Onboarded}
  <2>1. {c} \in SUBSET Names
    BY DEF Names
  <2> QED BY <2>1, EventTyped DEF EventTypes, Settled, Onboarded
<1>3. /\ new \in Project /\ new.tenant = t /\ new.id[1] = t /\ new.id[2] = c
  BY DEF Project, ProjectId
<1>4. q \in Locals /\ q.pc = "saveProject" /\ q.row = new /\ q.event = event
  BY <1>2, <1>3, IdleTyped DEF Locals, Idle, Rows, StructurePCs
<1>5. /\ req' \in [Requests -> Locals] /\ req'[r].pc = "saveProject" /\ req'[r].row = new
      /\ req'[r].event = event
      /\ \A x \in Requests : x # r => req'[x] = req[x]
  <2>1. Start(r, q)
    BY DEF CreateProject
  <2> QED BY <1>1, <1>4, <2>1, StartIs
<1>6. req[r].pc = "idle" /\ Besides /\ UNCHANGED structure
  BY <1>1, AdmitIs DEF CreateProject, Besides
<1>7. /\ portfolios' \subseteq Portfolio /\ projects' \subseteq Project /\ teams' \subseteq Team
      /\ teamMembers' \subseteq TeamMember
  BY <1>1, <1>6 DEF Typed, TablesTyped, structure
<1>8. /\ Acceptances' /\ Joiners' /\ Foundings' /\ Saves' /\ Typed'
      /\ users' = users /\ userRoles' = userRoles /\ UsersStay /\ Told \subseteq Told'
  BY <1>2, <1>5, <1>6, <1>7, StructureStep DEF StructurePCs
<1>9. MakesProject(req[r])'
  <2>1. HasRole(t, actor, ManagerRoles)
    BY DEF CreateProject, EnsureAdminOrOwner
  <2>2. Making(event, "project.created", t, {c}, ManagerRoles)'
    BY <1>2, <1>8, <2>1, MakingHolds
  <2> QED BY <1>3, <1>5, <2>2
        DEF MakesProject, Making, HasRole, GraphqlAuthGuard, AccessTokenGuard, UserExists,
            GetUserRoleNames
<1>10. Tables'
  BY <1>6, <1>8, TablesStay
<1>11. Makers'
  BY <1>5, <1>8, <1>9, MakersStep
<1> QED BY <1>8, <1>10, <1>11 DEF IInv

LEMMA AddTeamMemberInvariant ==
  ASSUME IInv, NEW r \in Requests, NEW t \in Tenants, NEW g \in Ids, NEW a \in Accounts,
         NEW actor \in Accounts, AddTeamMember(r, t, g, a, actor)
  PROVE  IInv'
<1> PICK event : event = Event("team.member.added", t, actor, {g, a[2]})
  OBVIOUS
<1> PICK new : new = [tenant |-> t, team |-> g, user |-> a]
  OBVIOUS
<1> PICK q : q = [Idle EXCEPT !.pc = "saveTeamMember", !.row = new, !.event = event]
  OBVIOUS
<1>1. Typed
  BY DEF IInv
<1>2. /\ event \in Events /\ event.type = "team.member.added" /\ event.tenant = t
      /\ event.actor = actor /\ event.about = {g, a[2]}
      /\ event.type \notin {Settled, Onboarded}
  <2>1. {g, a[2]} \in SUBSET Names
    BY TenantOf DEF Names
  <2> QED BY <2>1, EventTyped DEF EventTypes, Settled, Onboarded
<1>3. /\ new \in TeamMember /\ new.tenant = t /\ new.team = g /\ new.user = a
  BY DEF TeamMember
<1>4. q \in Locals /\ q.pc = "saveTeamMember" /\ q.row = new /\ q.event = event
  BY <1>2, <1>3, IdleTyped DEF Locals, Idle, Rows, StructurePCs
<1>5. /\ req' \in [Requests -> Locals] /\ req'[r].pc = "saveTeamMember" /\ req'[r].row = new
      /\ req'[r].event = event
      /\ \A x \in Requests : x # r => req'[x] = req[x]
  <2>1. Start(r, q)
    BY DEF AddTeamMember
  <2> QED BY <1>1, <1>4, <2>1, StartIs
<1>6. req[r].pc = "idle" /\ Besides /\ UNCHANGED structure
  BY <1>1, AdmitIs DEF AddTeamMember, Besides
<1>7. /\ portfolios' \subseteq Portfolio /\ projects' \subseteq Project /\ teams' \subseteq Team
      /\ teamMembers' \subseteq TeamMember
  BY <1>1, <1>6 DEF Typed, TablesTyped, structure
<1>8. /\ Acceptances' /\ Joiners' /\ Foundings' /\ Saves' /\ Typed'
      /\ users' = users /\ userRoles' = userRoles /\ UsersStay /\ Told \subseteq Told'
  BY <1>2, <1>5, <1>6, <1>7, StructureStep DEF StructurePCs
<1>9. MakesMember(req[r])'
  <2>1. HasRole(t, actor, StructureRoles) /\ MemberOf(t, a)
    BY DEF AddTeamMember, EnsureProjectManagerOrAbove, MemberOf
  <2>2. Making(event, "team.member.added", t, {g, a[2]}, StructureRoles)'
    BY <1>2, <1>8, <2>1, MakingHolds
  <2>3. MemberOf(t, a)'
    BY <1>8, <2>1, MembersStay
  <2> QED BY <1>3, <1>5, <2>2, <2>3
        DEF MakesMember, MemberOf, Making, HasRole, GraphqlAuthGuard, AccessTokenGuard,
            UserExists, GetUserRoleNames
<1>10. Tables'
  BY <1>6, <1>8, TablesStay
<1>11. Makers'
  BY <1>5, <1>8, <1>9, MakersStep
<1> QED BY <1>8, <1>10, <1>11 DEF IInv

LEMMA SaveProjectInvariant ==
  ASSUME IInv, NEW r \in Requests, SaveProject(r)
  PROVE  IInv'
<1> PICK row : row = req[r].row
  OBVIOUS
<1> PICK event : event = req[r].event
  OBVIOUS
<1>1. Typed
  BY DEF IInv
<1>2. At(r, "saveProject") /\ req[r].pc = "saveProject"
  BY DEF SaveProject, At
<1>3. /\ Besides /\ portfolios' = portfolios /\ teams' = teams /\ teamMembers' = teamMembers
  BY <1>1 DEF SaveProject, Besides, bounds, Typed
<1>4. /\ row \in Project /\ row.id[1] = row.tenant
      /\ Making(event, "project.created", row.tenant, {row.id[2]}, ManagerRoles)
      /\ event \in Events /\ event.type \notin {Settled, Onboarded}
  BY <1>2 DEF IInv, Makers, MakesProject, Saves
<1>5. CASE row.id \notin IdsOf(projects) /\ row.portfolio \in IdsOf(portfolios)
  <2>1. projects' = projects \cup {row} /\ Goto(r, "audit")
    BY <1>5 DEF SaveProject
  <2>2. /\ req' \in [Requests -> Locals] /\ req'[r].pc = "audit" /\ req'[r].event = event
        /\ \A x \in Requests : x # r => req'[x] = req[x]
    BY <1>1, <2>1, GotoIs DEF MemberPCs
  <2>3. /\ portfolios' \subseteq Portfolio /\ projects' \subseteq Project /\ teams' \subseteq Team
        /\ teamMembers' \subseteq TeamMember
    BY <1>1, <1>3, <1>4, <2>1 DEF Typed, TablesTyped
  <2>4. /\ Acceptances' /\ Joiners' /\ Foundings' /\ Saves' /\ Typed'
        /\ users' = users /\ userRoles' = userRoles /\ UsersStay /\ Told \subseteq Told'
    BY <1>2, <1>3, <1>4, <2>2, <2>3, StructureStep DEF StructurePCs
  <2>5. Made("project.created", row.tenant, {row.id[2]}, ManagerRoles)'
    <3>1. event \in Told'
      BY <2>2, NowTold
    <3>2. event.actor \in Accounts
      BY <1>4 DEF Events
    <3>3. Making(event, "project.created", row.tenant, {row.id[2]}, ManagerRoles)'
      BY <1>4, <2>4, <3>2, MadeStays
    <3> QED BY <3>1, <3>3 DEF Made
  <2>6. ASSUME NEW x \in projects'
        PROVE  /\ x.id[1] = x.tenant
               /\ Made("project.created", x.tenant, {x.id[2]}, ManagerRoles)'
               /\ \A other \in projects' : other.id = x.id => other = x
    <3>1. \A y \in projects : y.id # row.id
      BY <1>5 DEF IdsOf
    <3>2. CASE x = row
      BY <1>4, <2>1, <2>5, <3>1, <3>2
    <3>3. CASE x \in projects
      <4>1. x.id[1] = x.tenant /\ \A other \in projects : other.id = x.id => other = x
        BY <3>3 DEF IInv, Tables
      <4>2. Made("project.created", x.tenant, {x.id[2]}, ManagerRoles)'
        BY <2>4, <3>3, ProjectsStay
      <4> QED BY <2>1, <3>1, <3>3, <4>1, <4>2
    <3> QED BY <2>1, <3>2, <3>3
  <2>7. \A x \in teams' : /\ x.project \in IdsOf(projects)'
                          /\ Made("team.created", x.tenant, {x.id}, StructureRoles)'
    BY <1>3, <2>1, <2>4, TeamsStay DEF IInv, Tables, IdsOf
  <2>8. Tables'
    BY <1>3, <2>4, <2>6, <2>7, PortfoliosStay, TeamMembersStay DEF Tables
  <2>9. Makers'
    BY <2>2, <2>4, MakersStep
  <2> QED BY <2>4, <2>8, <2>9 DEF IInv
<1>6. CASE ~(row.id \notin IdsOf(projects) /\ row.portfolio \in IdsOf(portfolios))
  <2>1. Finish(r) /\ UNCHANGED structure
    BY <1>3, <1>6 DEF SaveProject, structure
  <2>2. /\ req' \in [Requests -> Locals] /\ req'[r].pc = "idle"
        /\ \A x \in Requests : x # r => req'[x] = req[x]
    BY <1>1, <2>1, FinishIs
  <2>3. /\ portfolios' \subseteq Portfolio /\ projects' \subseteq Project /\ teams' \subseteq Team
        /\ teamMembers' \subseteq TeamMember
    BY <1>1, <2>1 DEF Typed, TablesTyped, structure
  <2>4. /\ Acceptances' /\ Joiners' /\ Foundings' /\ Saves' /\ Typed'
        /\ users' = users /\ userRoles' = userRoles /\ UsersStay /\ Told \subseteq Told'
    BY <1>2, <1>3, <2>2, <2>3, StructureStep DEF StructurePCs
  <2>5. Tables'
    BY <2>1, <2>4, TablesStay
  <2>6. Makers'
    BY <2>2, <2>4, MakersStep
  <2> QED BY <2>4, <2>5, <2>6 DEF IInv
<1> QED BY <1>5, <1>6

LEMMA SaveTeamMemberInvariant ==
  ASSUME IInv, NEW r \in Requests, SaveTeamMember(r)
  PROVE  IInv'
<1> PICK row : row = req[r].row
  OBVIOUS
<1> PICK event : event = req[r].event
  OBVIOUS
<1>1. Typed
  BY DEF IInv
<1>2. At(r, "saveTeamMember") /\ req[r].pc = "saveTeamMember"
  BY DEF SaveTeamMember, At
<1>3. /\ Besides /\ portfolios' = portfolios /\ projects' = projects /\ teams' = teams
  BY <1>1 DEF SaveTeamMember, Besides, bounds, Typed
<1>4. /\ row \in TeamMember /\ MemberOf(row.tenant, row.user)
      /\ Making(event, "team.member.added", row.tenant, {row.team, row.user[2]}, StructureRoles)
      /\ event \in Events /\ event.type \notin {Settled, Onboarded}
  BY <1>2 DEF IInv, Makers, MakesMember, Saves
<1>5. CASE row \notin teamMembers /\ row.team \in IdsOf(teams)
  <2>1. teamMembers' = teamMembers \cup {row} /\ Goto(r, "audit")
    BY <1>5 DEF SaveTeamMember
  <2>2. /\ req' \in [Requests -> Locals] /\ req'[r].pc = "audit" /\ req'[r].event = event
        /\ \A x \in Requests : x # r => req'[x] = req[x]
    BY <1>1, <2>1, GotoIs DEF MemberPCs
  <2>3. /\ portfolios' \subseteq Portfolio /\ projects' \subseteq Project /\ teams' \subseteq Team
        /\ teamMembers' \subseteq TeamMember
    BY <1>1, <1>3, <1>4, <2>1 DEF Typed, TablesTyped
  <2>4. /\ Acceptances' /\ Joiners' /\ Foundings' /\ Saves' /\ Typed'
        /\ users' = users /\ userRoles' = userRoles /\ UsersStay /\ Told \subseteq Told'
    BY <1>2, <1>3, <1>4, <2>2, <2>3, StructureStep DEF StructurePCs
  <2>5. /\ MemberOf(row.tenant, row.user)'
        /\ Made("team.member.added", row.tenant, {row.team, row.user[2]}, StructureRoles)'
    <3>1. event \in Told'
      BY <2>2, NowTold
    <3>2. event.actor \in Accounts /\ row.user \in Accounts
      BY <1>4 DEF Events, TeamMember
    <3>3. Making(event, "team.member.added", row.tenant, {row.team, row.user[2]}, StructureRoles)'
      BY <1>4, <2>4, <3>2, MadeStays
    <3>4. MemberOf(row.tenant, row.user)'
      BY <1>4, <2>4, <3>2, MembersStay
    <3> QED BY <3>1, <3>3, <3>4 DEF Made
  <2>6. ASSUME NEW x \in teamMembers'
        PROVE  /\ MemberOf(x.tenant, x.user)'
               /\ Made("team.member.added", x.tenant, {x.team, x.user[2]}, StructureRoles)'
    <3>1. CASE x = row
      BY <2>5, <3>1
    <3>2. CASE x \in teamMembers
      BY <2>4, <3>2, TeamMembersStay
    <3> QED BY <2>1, <3>1, <3>2
  <2>7. Tables'
    BY <1>3, <2>4, <2>6, PortfoliosStay, ProjectsStay, TeamsStay DEF IInv, Tables, IdsOf
  <2>8. Makers'
    BY <2>2, <2>4, MakersStep
  <2> QED BY <2>4, <2>7, <2>8 DEF IInv
<1>6. CASE ~(row \notin teamMembers /\ row.team \in IdsOf(teams))
  <2>1. Finish(r) /\ UNCHANGED structure
    BY <1>3, <1>6 DEF SaveTeamMember, structure
  <2>2. /\ req' \in [Requests -> Locals] /\ req'[r].pc = "idle"
        /\ \A x \in Requests : x # r => req'[x] = req[x]
    BY <1>1, <2>1, FinishIs
  <2>3. /\ portfolios' \subseteq Portfolio /\ projects' \subseteq Project /\ teams' \subseteq Team
        /\ teamMembers' \subseteq TeamMember
    BY <1>1, <2>1 DEF Typed, TablesTyped, structure
  <2>4. /\ Acceptances' /\ Joiners' /\ Foundings' /\ Saves' /\ Typed'
        /\ users' = users /\ userRoles' = userRoles /\ UsersStay /\ Told \subseteq Told'
    BY <1>2, <1>3, <2>2, <2>3, StructureStep DEF StructurePCs
  <2>5. Tables'
    BY <2>1, <2>4, TablesStay
  <2>6. Makers'
    BY <2>2, <2>4, MakersStep
  <2> QED BY <2>4, <2>5, <2>6 DEF IInv
<1> QED BY <1>5, <1>6

-----------------------------------------------------------------------------
(* The invariant *)

LEMMA InitInvariant == Init => IInv
<1> SUFFICES ASSUME NEW owner \in Accounts, NEW p \in Ids, NEW g \in Ids, NEW c \in Codes,
                    NEW pending \in [Invites -> Invitation \cup {Null}],
                    \A i \in Invites : pending[i] # Null => ~pending[i].accepted,
                    MemberInit(owner[1], owner[2], pending), StructureInit(owner, p, c, g)
             PROVE  IInv
  BY DEF Init
<1> PICK t : t = owner[1]
  OBVIOUS
<1> PICK made : made = Event("portfolio.created", t, owner, {p})
  OBVIOUS
<1> PICK planned : planned = Event("project.created", t, owner, {c})
  OBVIOUS
<1> PICK formed : formed = Event("team.created", t, owner, {g})
  OBVIOUS
<1>1. t \in Tenants /\ owner = <<t, owner[2]>>
  BY TenantOf
<1>2. /\ made \in Events /\ made.type = "portfolio.created" /\ made.tenant = t
      /\ made.actor = owner /\ made.about = {p}
  BY <1>1, EventTyped DEF EventTypes, Names
<1>3. /\ planned \in Events /\ planned.type = "project.created" /\ planned.tenant = t
      /\ planned.actor = owner /\ planned.about = {c}
  BY <1>1, EventTyped DEF EventTypes, Names
<1>4. /\ formed \in Events /\ formed.type = "team.created" /\ formed.tenant = t
      /\ formed.actor = owner /\ formed.about = {g}
  BY <1>1, EventTyped DEF EventTypes, Names
<1>5. /\ tenants = {t} /\ roles = [x \in Tenants |-> IF x = t THEN {Owner} ELSE {}]
      /\ users = [a \in Accounts |-> IF a = owner THEN NewUser ELSE Null]
      /\ userRoles = {<<owner, Owner>>} /\ invites = pending
      /\ req = [r \in Requests |-> Idle] /\ arrivals = 0 /\ fails = 0
      /\ founded = {} /\ joined = {} /\ stranded = {} /\ overlapped = {} /\ untold = {}
  BY <1>1 DEF MemberInit
<1>6. /\ portfolios = {[id |-> p, tenant |-> t]}
      /\ projects = {[id |-> <<t, c>>, tenant |-> t, portfolio |-> p]}
      /\ teams = {[id |-> g, tenant |-> t, project |-> <<t, c>>]}
      /\ teamMembers = {} /\ audit = {made, planned, formed}
  BY DEF StructureInit
<1>7. NewUser \in User /\ NewUser # Null /\ Owner \in RoleNames
  <2>1. NewUser \in User
    BY DEF NewUser, User
  <2>2. Null \notin User
    BY NullAssumption
  <2> QED BY <2>1, <2>2, RolesAssumption
<1>8. \A x \in Requests : req[x].pc = "idle"
  BY <1>5, IdleTyped
<1>9. Typed
  <2>1. TablesTyped
    <3>1. portfolios \subseteq Portfolio /\ projects \subseteq Project /\ teams \subseteq Team
      BY <1>1, <1>6 DEF Portfolio, Project, Team, ProjectId
    <3>2. /\ tenants \subseteq Tenants /\ roles \in [Tenants -> SUBSET RoleNames]
          /\ users \in [Accounts -> User \cup {Null}]
      BY <1>1, <1>5, <1>7
    <3>3. userRoles \subseteq Accounts \X RoleNames
      BY <1>5, <1>7
    <3> QED BY <1>2, <1>3, <1>4, <1>5, <1>6, <3>1, <3>2, <3>3 DEF TablesTyped
  <2>2. req \in [Requests -> Locals]
    BY <1>5, IdleTyped
  <2> QED BY <1>5, <2>1, <2>2, BoundsAssumption DEF Typed
<1>10. UserExists(owner) /\ \A a \in Accounts : GetUserRoleNames(a) # {} => a = owner
  BY <1>5, <1>7 DEF UserExists, GetUserRoleNames
<1>11. /\ HasRole(t, owner, ManagerRoles) /\ HasRole(t, owner, StructureRoles)
  <2>1. Owner \in GetUserRoleNames(owner)
    BY <1>5, <1>7 DEF GetUserRoleNames
  <2>2. Owner \in ManagerRoles /\ Owner \in StructureRoles
    BY RolesAssumption, StructureAssumption
  <2>3. GetUserRoleNames(owner) \cap ManagerRoles # {} /\ GetUserRoleNames(owner) \cap StructureRoles # {}
    BY <2>1, <2>2
  <2> QED BY <1>10, <2>3 DEF HasRole, GraphqlAuthGuard, AccessTokenGuard
<1>12. Acceptances
  BY <1>8 DEF Acceptances, JoinPCs
<1>13. Joiners
  <2>1. \A i \in Invites : \A a : ~AcceptedFor(i, a)
    BY <1>5 DEF AcceptedFor
  <2> QED BY <1>5, <1>10, <2>1 DEF Joiners
<1>14. Foundings
  BY <1>5, <1>8 DEF Foundings, FoundPCs
<1>15. Saves
  <2>1. \A event \in audit : event.type \notin {Settled, Onboarded}
    BY <1>2, <1>3, <1>4, <1>6 DEF Settled, Onboarded
  <2>2. \A event \in audit : Kept(event)
    BY <2>1 DEF Kept, Shows
  <2> QED BY <1>8, <2>2 DEF Saves
<1>16. Tables
  <2>1. made \in Told /\ planned \in Told /\ formed \in Told
    BY <1>6 DEF Told
  <2>2. /\ Made("portfolio.created", t, {p}, ManagerRoles)
        /\ Made("project.created", t, {c}, ManagerRoles)
        /\ Made("team.created", t, {g}, StructureRoles)
    BY <1>2, <1>3, <1>4, <1>11, <2>1 DEF Made, Making
  <2>3. ASSUME NEW row \in portfolios
        PROVE  Made("portfolio.created", row.tenant, {row.id}, ManagerRoles)
    <3>1. row.tenant = t /\ row.id = p
      BY <1>6
    <3> QED BY <2>2, <3>1, Zenon
  <2>4. ASSUME NEW row \in projects
        PROVE  /\ row.id[1] = row.tenant
               /\ Made("project.created", row.tenant, {row.id[2]}, ManagerRoles)
               /\ \A other \in projects : other.id = row.id => other = row
    <3>1. row.tenant = t /\ row.id[1] = t /\ row.id[2] = c
      BY <1>6
    <3>2. Made("project.created", row.tenant, {row.id[2]}, ManagerRoles)
      BY <2>2, <3>1, Zenon
    <3>3. \A other \in projects : other = row
      BY <1>6
    <3> QED BY <3>1, <3>2, <3>3
  <2>5. ASSUME NEW row \in teams
        PROVE  /\ row.project \in IdsOf(projects)
               /\ Made("team.created", row.tenant, {row.id}, StructureRoles)
    <3>1. row.tenant = t /\ row.id = g /\ row.project = <<t, c>>
      BY <1>6
    <3>2. Made("team.created", row.tenant, {row.id}, StructureRoles)
      BY <2>2, <3>1, Zenon
    <3>3. <<t, c>> \in IdsOf(projects)
      BY <1>6 DEF IdsOf
    <3> QED BY <3>1, <3>2, <3>3
  <2> QED BY <1>6, <2>3, <2>4, <2>5 DEF Tables
<1>17. Makers
  BY <1>8 DEF Makers
<1> QED BY <1>9, <1>12, <1>13, <1>14, <1>15, <1>16, <1>17 DEF IInv

LEMMA StutterInvariant ==
  ASSUME IInv, UNCHANGED vars
  PROVE  IInv'
<1>1. /\ UsersStay /\ InvitesStay /\ users' = users /\ roles' = roles /\ userRoles' = userRoles
      /\ audit' = audit /\ req' = req /\ UNCHANGED history /\ UNCHANGED structure
  BY UsersKept, InvitesKept DEF vars, memberVars, memberTables
<1>2. Quiet
  BY <1>1 DEF Quiet, NobodyJoins, NobodyFounds, NobodySaves, NobodyMakes, history
<1>3. Typed'
  BY DEF IInv, Typed, TablesTyped, vars, memberVars, memberTables, bounds, history, structure
<1> QED BY <1>2, <1>3, QuietInvariant

LEMMA MemberNextInvariant ==
  ASSUME IInv, MemberNext, UNCHANGED structure
  PROVE  IInv'
<1>1. ASSUME NEW r \in Requests, MemberArrive(r)
      PROVE  IInv'
  <2>1. ASSUME NEW t \in Tenants, NEW e \in Emails, CreateOrg(r, t, e)
        PROVE  IInv'
    BY <2>1, CreateOrgInvariant
  <2>2. ASSUME NEW t \in Tenants, NEW actor \in Accounts, CreateOrgGql(r, t, actor)
        PROVE  IInv'
    BY <2>2, CreateOrgGqlInvariant
  <2>3. ASSUME NEW a \in Accounts, NEW n \in RoleNames, CreateInvitation(r, a, n)
        PROVE  IInv'
    BY <2>3, CreateInvitationInvariant
  <2>4. ASSUME NEW a \in Accounts, NEW actor \in Accounts, NEW n \in RoleNames,
               InviteMember(r, a, n, actor)
        PROVE  IInv'
    BY <2>4, InviteMemberInvariant
  <2>5. ASSUME NEW i \in Invites, AcceptInvitation(r, i)
        PROVE  IInv'
    BY <2>5, AcceptInvitationInvariant
  <2>6. ASSUME NEW a \in Accounts, NEW actor \in Accounts, NEW ns \in RoleSets,
               UpdateMemberRoles(r, a, ns, actor)
        PROVE  IInv'
    BY <2>6, UpdateMemberRolesInvariant
  <2>7. ASSUME NEW a \in Accounts, NEW actor \in Accounts, RegisterUser(r, a, actor)
        PROVE  IInv'
    BY <2>7, RegisterUserInvariant
  <2>8. ASSUME NEW a \in Accounts, NEW k \in Settings, UpdateMeSettings(r, a, k)
        PROVE  IInv'
    BY <2>8, UpdateMeSettingsInvariant
  <2>9. ASSUME NEW a \in Accounts, CompleteOnboarding(r, a)
        PROVE  IInv'
    BY <2>9, CompleteOnboardingInvariant
  <2> QED BY <1>1, <2>1, <2>2, <2>3, <2>4, <2>5, <2>6, <2>7, <2>8, <2>9 DEF MemberArrive
<1>2. ASSUME NEW r \in Requests, MemberAdvance(r)
      PROVE  IInv'
  BY <1>2, FindOwnerRoleInvariant, SaveOwnerRoleInvariant, InviteOwnerInvariant, SaveUserInvariant,
     FindRoleInvariant, SaveRoleInvariant, AssignRoleInvariant, MarkAcceptedInvariant,
     SaveRolesInvariant, SaveRowInvariant, LogEventInvariant DEF MemberAdvance
<1>3. ASSUME NEW r \in Requests, Fail(r)
      PROVE  IInv'
  BY <1>3, FailInvariant
<1>4. ASSUME NEW i \in Invites, ExpireInvite(i)
      PROVE  IInv'
  BY <1>4, ExpireInviteInvariant
<1> QED BY <1>1, <1>2, <1>3, <1>4 DEF MemberNext

LEMMA NextInvariant == IInv /\ [Next]_vars => IInv'
<1> SUFFICES ASSUME IInv, [Next]_vars PROVE IInv'
  OBVIOUS
<1>1. CASE MemberNext /\ UNCHANGED structure
  BY <1>1, MemberNextInvariant
<1>2. ASSUME NEW r \in Requests, StructureArrive(r)
      PROVE  IInv'
  <2>1. PICK t \in Tenants, actor \in Accounts :
          \/ \E p \in Ids : CreatePortfolio(r, t, p, actor)
          \/ \E p \in Ids, c \in Codes : CreateProject(r, t, p, c, actor)
          \/ \E g \in Ids, j \in ProjectId : CreateTeam(r, t, g, j, actor)
          \/ \E g \in Ids, a \in Accounts : AddTeamMember(r, t, g, a, actor)
    BY <1>2 DEF StructureArrive
  <2>2. ASSUME NEW p \in Ids, CreatePortfolio(r, t, p, actor)
        PROVE  IInv'
    BY <2>2, CreatePortfolioInvariant
  <2>3. ASSUME NEW p \in Ids, NEW c \in Codes, CreateProject(r, t, p, c, actor)
        PROVE  IInv'
    BY <2>3, CreateProjectInvariant
  <2>4. ASSUME NEW g \in Ids, NEW j \in ProjectId, CreateTeam(r, t, g, j, actor)
        PROVE  IInv'
    BY <2>4, CreateTeamInvariant
  <2>5. ASSUME NEW g \in Ids, NEW a \in Accounts, AddTeamMember(r, t, g, a, actor)
        PROVE  IInv'
    BY <2>5, AddTeamMemberInvariant
  <2> QED BY <2>1, <2>2, <2>3, <2>4, <2>5
<1>3. ASSUME NEW r \in Requests, StructureAdvance(r)
      PROVE  IInv'
  BY <1>3, SaveProjectInvariant, SaveTeamMemberInvariant DEF StructureAdvance
<1>4. CASE UNCHANGED vars
  BY <1>4, StutterInvariant
<1> QED BY <1>1, <1>2, <1>3, <1>4 DEF Next

LEMMA InvariantAlways == Spec => []IInv
<1> QED BY InitInvariant, NextInvariant, PTL DEF Spec

-----------------------------------------------------------------------------
(* What it promises *)

\* A set whose elements are all the same has one element at most.
LEMMA AtMostOne ==
  ASSUME NEW S, \A x, y \in S : x = y
  PROVE  Cardinality(S) <= 1
<1>1. CASE S = {}
  BY <1>1, FS_EmptySet
<1>2. CASE S # {}
  <2>1. PICK x : x \in S
    BY <1>2
  <2>2. S = {x}
    BY <2>1
  <2>3. Cardinality({x}) = 1
    BY FS_Singleton
  <2> QED BY <2>2, <2>3
<1> QED BY <1>1, <1>2

\* Every table of organisations, invitations and their structure, the audit
\* log and every request of the resolvers keep their types, whatever dies.
THEOREM TypeCorrect == Spec => []TypeOK
<1>1. ASSUME IInv PROVE TypeOK
  <2>1. Typed
    BY <1>1 DEF IInv
  <2>2. \A a \in Accounts : users[a] = Null \/ users[a] \in User
    BY <2>1 DEF Typed, TablesTyped
  <2>3. \A i \in Invites : invites[i] = Null \/ invites[i] \in Invitation
    BY <2>1 DEF Typed, TablesTyped
  <2>4. \A r \in Requests :
          /\ req[r].pc \in MemberPCs \cup StructurePCs
          /\ req[r].account \in Accounts \cup {Null} /\ req[r].invite \in Invites \cup {Null}
          /\ req[r].roles \subseteq RoleNames
    BY <2>1 DEF Typed, Locals
  <2>5. \A event \in audit \cup untold : event.tenant \in Tenants /\ event.actor \in Accounts
    BY <2>1 DEF Typed, TablesTyped, Events
  <2> QED BY <2>1, <2>2, <2>3, <2>4, <2>5 DEF TypeOK, Typed, TablesTyped
<1> QED BY <1>1, InvariantAlways, PTL

\* acceptInvitation makes members as they were invited and once, however the
\* acceptances of one token, or of several for one e-mail, overlap or die.
THEOREM JoinsAsInvitedAlways == Spec => []JoinsAsInvited
<1>1. ASSUME IInv PROVE JoinsAsInvited
  <2>1. ASSUME NEW a \in Accounts
        PROVE  Cardinality({i \in Invites : /\ invites[i] # Null /\ invites[i].account = a
                                            /\ invites[i].accepted}) <= 1
    <3>1. \A i, j \in Invites : AcceptedFor(i, a) /\ AcceptedFor(j, a) => i = j
      BY <1>1 DEF IInv, Joiners
    <3> QED BY <3>1, AtMostOne DEF AcceptedFor
  <2>2. ASSUME NEW a \in Accounts, NEW i \in Invites, AcceptedFor(i, a)
        PROVE  \E m \in OrgMembers(a[1]) : m.email = a[2] /\ invites[i].role \in m.roles
    <3>1. GetUserRoleNames(a) = {invites[i].role}
      BY <1>1, <2>2 DEF IInv, Joiners
    <3>2. UserExists(a)
      BY <1>1, <2>2 DEF IInv, Joiners
    <3>3. [email |-> a[2], roles |-> GetUserRoleNames(a)] \in OrgMembers(a[1])
      BY <3>2 DEF OrgMembers
    <3>4. invites[i].role \in [email |-> a[2], roles |-> GetUserRoleNames(a)].roles
          /\ [email |-> a[2], roles |-> GetUserRoleNames(a)].email = a[2]
      BY <3>1
    <3> QED BY <3>3, <3>4
  <2>3. ASSUME NEW a \in Accounts
        PROVE  /\ a \in joined => \/ a \in stranded
                                  \/ \E r \in Requests : JoiningFor(r, a)
                                  \/ \E i \in Invites : AcceptedFor(i, a)
               /\ a \notin joined => \A i \in Invites : ~AcceptedFor(i, a)
    BY <1>1 DEF IInv, Joiners
  <2> QED BY <2>1, <2>2, <2>3 DEF JoinsAsInvited, Running, AcceptedFor, JoiningFor, JoinPCs
<1> QED BY <1>1, InvariantAlways, PTL

\* POST /management/orgs leaves an organisation with an owner role and its
\* owner's invitation, unless its request died or met another that created the
\* role.
THEOREM OrgsComeWithOwnerAlways == Spec => []OrgsComeWithOwner
<1>1. IInv => OrgsComeWithOwner
  BY DEF IInv, Foundings, OrgsComeWithOwner, Running, FoundingFor, FoundPCs
<1> QED BY <1>1, InvariantAlways, PTL

\* What updateMeSettings and completeOnboarding have saved and logged stays in
\* the user's row, until a save overtakes another's read of it.
THEOREM ChangesKeptAlways == Spec => []ChangesKept
<1>1. IInv => ChangesKept
  BY DEF IInv, Saves, Kept, Shows, Settled, Onboarded, ChangesKept, MeDashboard, MeSettings
<1> QED BY <1>1, InvariantAlways, PTL

\* The portfolios, projects, teams and team members a tenant's queries list
\* were made in it by users with the role for it; a code means one project, and
\* team members are members of the organisation.
THEOREM StructureIsTheTenantsAlways == Spec => []StructureIsTheTenants
<1>1. ASSUME IInv PROVE StructureIsTheTenants
  <2>1. \A t, about, type :
          /\ Made(type, t, about, ManagerRoles) =>
               \E event \in Told : /\ event.type = type /\ event.tenant = t /\ event.about = about
                                   /\ EnsureAdminOrOwner(t, event.actor)
          /\ Made(type, t, about, StructureRoles) =>
               \E event \in Told : /\ event.type = type /\ event.tenant = t /\ event.about = about
                                   /\ EnsureProjectManagerOrAbove(t, event.actor)
    BY DEF Made, Making, EnsureAdminOrOwner, EnsureProjectManagerOrAbove
  <2>2. \A row \in portfolios : Made("portfolio.created", row.tenant, {row.id}, ManagerRoles)
    BY <1>1 DEF IInv, Tables
  <2>3. \A row \in projects :
          /\ Made("project.created", row.tenant, {row.id[2]}, ManagerRoles)
          /\ \A other \in projects : other.id = row.id => other = row
    BY <1>1 DEF IInv, Tables
  <2>4. \A row \in teams : /\ row.project \in IdsOf(projects)
                           /\ Made("team.created", row.tenant, {row.id}, StructureRoles)
    BY <1>1 DEF IInv, Tables
  <2>5. \A row \in teamMembers :
          Made("team.member.added", row.tenant, {row.team, row.user[2]}, StructureRoles)
    BY <1>1 DEF IInv, Tables
  <2>6. ASSUME NEW row \in teamMembers
        PROVE  row.user[2] \in {m.email : m \in OrgMembers(row.tenant)}
    <3>1. row.user \in Accounts /\ row.user[1] = row.tenant /\ UserExists(row.user)
      BY <1>1 DEF IInv, Tables, MemberOf, Typed, TablesTyped, TeamMember
    <3> PICK m : m = [email |-> row.user[2], roles |-> GetUserRoleNames(row.user)]
      OBVIOUS
    <3>2. m \in OrgMembers(row.tenant) /\ m.email = row.user[2]
      BY <3>1 DEF OrgMembers
    <3> QED BY <3>2
  <2>7. ASSUME NEW t \in Tenants, NEW row \in PortfoliosByTenant(t)
        PROVE  \E event \in Told :
                 /\ /\ event.type = "portfolio.created" /\ event.tenant = t
                    /\ event.about = {row.id}
                 /\ EnsureAdminOrOwner(t, event.actor)
    <3>1. row \in portfolios /\ row.tenant = t
      BY DEF PortfoliosByTenant
    <3>2. Made("portfolio.created", t, {row.id}, ManagerRoles)
      BY <2>2, <3>1
    <3> QED BY <2>1, <3>2
  <2>8. ASSUME NEW t \in Tenants, NEW p \in Ids, NEW row \in ProjectsByPortfolio(t, p)
        PROVE  /\ \E event \in Told :
                    /\ /\ event.type = "project.created" /\ event.tenant = t
                       /\ event.about = {row.id[2]}
                    /\ EnsureAdminOrOwner(t, event.actor)
               /\ \A q \in Ids \ {p} : row.id \notin IdsOf(ProjectsByPortfolio(t, q))
    <3>1. row \in projects /\ row.tenant = t /\ row.portfolio = p
      BY DEF ProjectsByPortfolio
    <3>2. Made("project.created", t, {row.id[2]}, ManagerRoles)
      BY <2>3, <3>1
    <3>3. ASSUME NEW q \in Ids \ {p}
          PROVE  row.id \notin IdsOf(ProjectsByPortfolio(t, q))
      BY <2>3, <3>1 DEF IdsOf, ProjectsByPortfolio
    <3> QED BY <2>1, <3>2, <3>3
  <2>9. ASSUME NEW t \in Tenants, NEW j \in ProjectId, NEW row \in TeamsByProject(t, j)
        PROVE  /\ j \in IdsOf(projects)
               /\ \E event \in Told :
                    /\ /\ event.type = "team.created" /\ event.tenant = t
                       /\ event.about = {row.id}
                    /\ EnsureProjectManagerOrAbove(t, event.actor)
    <3>1. row \in teams /\ row.tenant = t /\ row.project = j
      BY DEF TeamsByProject
    <3>2. Made("team.created", t, {row.id}, StructureRoles) /\ j \in IdsOf(projects)
      BY <2>4, <3>1
    <3> QED BY <2>1, <3>2
  <2>10. ASSUME NEW t \in Tenants, NEW g \in Ids, NEW row \in TeamMembersByTeam(t, g)
         PROVE  /\ \E event \in Told :
                     /\ /\ event.type = "team.member.added" /\ event.tenant = t
                        /\ event.about = {g, row.user[2]}
                     /\ EnsureProjectManagerOrAbove(t, event.actor)
                /\ row.user[2] \in {m.email : m \in OrgMembers(t)}
    <3>1. row \in teamMembers /\ row.tenant = t /\ row.team = g
      BY DEF TeamMembersByTeam
    <3>2. Made("team.member.added", t, {g, row.user[2]}, StructureRoles)
      BY <2>5, <3>1
    <3>3. row.user[2] \in {m.email : m \in OrgMembers(t)}
      BY <2>6, <3>1
    <3> QED BY <2>1, <3>2, <3>3
  <2> QED BY <2>7, <2>8, <2>9, <2>10 DEF StructureIsTheTenants, Told
<1> QED BY <1>1, InvariantAlways, PTL

===============================================================================
