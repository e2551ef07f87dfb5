# A TLA+ verification of the Novo-Core authorization server

Novo-Core is a NestJS server (`src/src/`) that registers users, signs them in,
runs the OAuth 2 authorization-code flow with PKCE, and issues access tokens and
rotating refresh tokens for many tenants. All its state is in PostgreSQL, written
through TypeORM, and in a few maps in the memory of each process. Hardly anything
runs in an explicit transaction: a handler is a sequence of `await`ed statements,
and between two of them any other request, in this process or another, may run.
That is what these modules are about.

Paths below are relative to `src/src/` unless they say otherwise.

## 1. Inventory

| Component | State it keeps | Operations | What is hard about it | What makes it correct |
|---|---|---|---|---|
| Sessions and refresh tokens (`modules/auth/sessions`, `oidc/controllers/token.controller.ts`, `revoke.controller.ts`, `management/session.resolver.ts`) | tables `sessions`, `refresh_tokens` | issueSession, rotateRefreshToken, revokeSession, POST /revoke, mutation revokeSession | rotation reads and later saves the same row; revocation in between; requests that die; lost replies; replayed tokens | a rotated token is retired, tokens stay in their tenant, a closed session never reopens, detected reuse ends the session |
| Authorization codes (`oidc/services/authorization-code.service.ts`, `consent.controller.ts`) | table `authorization_codes` | issue, consume | consumedAt is read and set in two statements; crash after consume | a session only for a spent code; a second one only from exchanges that overlap |
| Login attempts (`oidc/services/login-attempts.service.ts`, `login.controller.ts`) | table `login_attempts`, one row per (tenant, e-mail, ip) | isLocked, incrementFailure, resetOnSuccess | read-modify-write of one row by concurrent logins; first INSERT against a unique index; locks in real time | five failures lock; nobody is locked out for less; locks end |
| Signing keys (`shared/crypto`) | table `keys`; per process `activeKey`, `inMemoryPrivates`, a cache of public keys | ensureActiveKey, rotateKeys, signJwt, verifyJwt, getJwks, the nightly cron | several processes over one table, restarts that lose private keys, statements that fail half way | every token signed can be verified; a process signs with a key it owns; one active row |
| Token endpoint (`token.controller.ts`) | none of its own | three grants | order of consume, issueSession, roles, signing, audit, reply | claims match the session |
| /authorize, /login, /consent, OP session (`oidc/controllers/`, `op-session.service.ts`) | none in the server: the cookies `csrf` and `op_session` of a browser | authorize, getLogin, postLogin, getConsent, postConsent | tabs share cookies; cookies expire and answers arrive in another order than they were asked for | the code is for the user the consent page named; the redirects end at a page |
| Public registration (`oidc/services/public-registration.service.ts`) | `identities`, `users`, `memberships` | register | one transaction racing on the unique e-mail; mail after commit | one identity per e-mail, with its user and membership or neither |
| Email verification (`modules/mail/services/email-verification.service.ts`) | `email_verifications`, `identities` | create, verify, resend | invalidate-then-insert, two saves to verify, concurrent resends | one usable token; verified token means verified identity |
| Organisations, invitations, user management (`management/`) | `tenants`, `invitations`, `users`, `user_roles`, `roles`, `audit_events` | createOrg (REST and GraphQL), createInvitation, inviteMember, acceptInvitation, updateMemberRoles, registerUser, updateMeSettings, completeOnboarding | up to five statements and no transaction; a user's row is read, changed and saved whole | an accepted invitation has made one member, with its role; a new organisation can be owned; answered changes stay |
| Roles and permissions (`rbac/`, `roles.controller.ts`, `permissions.controller.ts`, `rbac.resolver.ts`) | `roles`, `permissions`, `role_permissions`; cached lists | create, setPermissions, updateRolePermissions, getPermissionsForUser | delete-then-insert against readers and against another update; a cache filled with what was read before | a role has what somebody asked for, or nothing; what is cached or signed gives way to the tables |
| Memory cache (`shared/cache`) | a Map in access order | get, set, del | eviction at the limit, expiry | size bound, oldest first |
| Tenancy, guards, request context (`shared/tenancy`, `rbac/*.guard.ts`, `common/guards`) | async local storage | resolve, allow or deny | which of several sources names the tenant; which paths are public | a handler runs for a caller with a token, in the tenant it names |
| Organisation structure (`management/org-structure.resolver.ts`) | `portfolios`, `projects`, `teams`, `team_members` | four mutations, four queries | check-then-insert; parents checked by foreign keys only | a tenant's lists show what its own managers made |
| oidc-provider adapter, mail transport, passwords, audit, discovery, config, logging, filters, migrations, tools | — | — | third-party, I/O or start-up only | — |

How they interact: /login counts attempts and issues the OP session cookie;
/authorize and /consent look at it, and /consent turns it into a code row; POST /token consumes the code and
calls issueSession, or rotates a refresh token; both then read roles and cached
permissions, sign with JwkService and append to the audit log. /revoke and the
mutation revokeSession UPDATE the token rows of a session. Everything shares the
database; nothing takes a lock. The management resolvers ask `user_roles` who the
caller is in a tenant; the permissions an access token carries come from
`role_permissions` through the process's cache. `PROJECT.json` lists every component, and under
`hazards` the places in the code where those interleavings, failures and
boundaries bite.

## 2. Modules

| Module | Models | Stands beside |
|---|---|---|
| `SessionLifecycle` | abstract specification: a session is none, then open, then closed, for good | — |
| `RefreshTokens` | sessions and refresh tokens | `MCRefreshTokens`, `RefreshTokensProofs` |
| `CodeExchange` | authorization codes, composed with `RefreshTokens` by `INSTANCE` | `MCCodeExchange`, `CodeExchangeProofs` |
| `LoginAttempts` | lockout | `MCLoginAttempts`, `LoginAttemptsProofs` |
| `FrontChannel` | /authorize, /login, /consent and the browser between them | `FrontChannelProofs` |
| `Onboarding` | public registration and e-mail verification | `OnboardingProofs` |
| `MemoryCache` | the cache's methods, as operators from a store to a store | lemmas in `RolePermissionsProofs` |
| `RolePermissions` | roles, permissions and who sees them, over `MemoryCache` | `MCRolePermissions`, `RolePermissionsProofs` |
| `Members` | organisations, invitations, members, settings, audit log | theorems in `OrgStructureProofs` |
| `OrgStructure` | portfolios, projects, teams; extends `Members`, whose requests it shares | `MCOrgStructure`, `OrgStructureProofs` |
| `SigningKeys` | JwkService and JwkRotationService over several processes | `MCSigningKeys`, `SigningKeysProofs` |

Operators marked `Mutant:` are not part of any specification. Each is a plausible
bug in the definition below it, and `PROJECT.json` says which property it breaks
in which run: it shows that the property can fail.

### RefreshTokens

A request is a process; `req[r].pc` names the statement it is about to run and the
other fields are its local variables. One action is one statement.

| Code | Actions |
|---|---|
| rotateRefreshToken: findOne | `RefreshReadLive`, `RefreshReadRevoked` (an unknown token changes nothing) |
| … UPDATE on reuse, then INVALID_GRANT | `ReuseRevoke` |
| … findOne of the session | `LoadSession` |
| … save([existing, next]) | `RotateSave`: TypeORM saves an array in one transaction, so one action |
| issueSession: two saves | `IssueSaveSession`, `IssueSaveToken` |
| roles, permissions, signing, audit, reply | `RespondToken`; only then does the client hold the token (`held`) |
| /revoke | `RevokeFind`, `RevokeUpdate`, `RespondRevoke` |
| mutation revokeSession | `RevokeSessionFind` (owner or admin), then the same UPDATE |
| a statement throws, the process dies, the reply is lost | `Fail` |

Rows are records; `revokedAt` is a Boolean, a token's hash is the id of its row,
`rotatedFromId` is `parent`. `LoadSession` keeps the branch for a session that is
gone; `SnapshotsStayTrue` shows it is never taken, because no code deletes
sessions and the foreign key is obeyed. There is no clock: a token's `expiresAt`, thirty
days on, is written by issueSession and by every rotation and compared nowhere
(`session.service.ts:66` looks at `revokedAt` only).

The UPDATE of a session is one atomic action. In PostgreSQL it works on the rows
its snapshot sees; when it overlaps the transaction of a rotation it does not see
the row that transaction inserts, which is the order "UPDATE, then save" of the
model.

### CodeExchange

`Consent` stores a code (POST /consent, or GET /consent for the auto-approved
client); `ReadCode` is `consume` up to its last check, `SaveConsumed` its save,
`IssueSession` goes on with the steps of `RefreshTokens`, and every other request
takes the steps of `RefreshTokens`. A challenge is a pair of method and verifier: `S256` compares digests,
any other method compares the verifier itself, as the code does. Clients are public:
`token()` takes its third parameter without a decorator, so for a confidential client
it reads headers of `undefined` and answers 500 before it touches a code.
`origin` and `contested` are history variables: the code and request a session comes
from, and the codes that an exchange has read while another one of them was under way.

The two pools that would otherwise leave a request without an id are bounds too:
`RoomForToken` and `RoomForSession` admit a request only while there is one for it.

### FrontChannel

A browser with several tabs and one set of cookies. A tab goes to a page (`go`),
waits for an answer (`wait`) or shows a page (`show`). The server's step is the whole
handler: it reads the cookies the request carries and decides the page or redirect
and the cookies of its answer. `Receive` is the answer's arrival, so that answers to
different tabs are applied in any order. Parameters of a request travel as one
client; a redirect is rebuilt from them, which loses a tenant that the query string
named and keeps one that the host names (`Hints`, `Params`).

| Code | Actions |
|---|---|
| authorize.controller.ts | `Authorize` |
| getLogin, postLogin | `GetLogin`, `PostLogin` (the answer always brings a fresh csrf token) |
| getConsent, postConsent | `GetConsent` (issues at once for `app-spa`), `PostConsent` |
| csrf.guard.ts, OpSessionService.verify, resolveClient | `CsrfAllows`, `OpVerified`, `ClientResolved` |
| cookie and token lifetimes | `LapseCsrf`, `LapseOpToken`, `LapseOpCookie` |

POST /consent without the OP cookie redirects to `/login?undefined`, since its URL
has no query string: the tab ends at an error page (`PostConsent`, `client = Null`).
What /login and /consent store is the subject of `LoginAttempts` and `CodeExchange`.

### LoginAttempts

One row of the table: rows of different (tenant, e-mail, ip) never meet. A login
asks `isLocked` (`Start`), verifies, then reads and saves the row in two
statements. Three facts of TypeORM matter and are modelled: `save` of a found
entity writes the copy's values over whatever the row holds by now; a property
that is `undefined` is left out of the UPDATE, so `resetOnSuccess` keeps
`lockedUntil` in the table; and an INSERT that loses the race on the unique index
throws, so that failure is not counted. A lock is the time left of it, and a copy
of a row ages as the row does. Counts saturate at the last tier, above which the
code compares nothing. `overlapped` remembers whether two logins were ever under
way at once: two properties are about what holds as long as they were not.

### Onboarding

| Code | Actions |
|---|---|
| register: BEGIN, findOne of the identity | `RegisterFind` (one that exists ends the call) |
| … INSERT of the identity | `InsertIdentity` |
| … no client `app-spa`: COMMIT of the identity alone | `CommitIdentityOnly` |
| … findOne and INSERT of the platform user | `FindUser`, `InsertUser` |
| … INSERT of the membership, COMMIT | `Commit`; the findOne before it cannot find anything, the identity being new |
| … ROLLBACK | `Finish` in the losing branches, `Fail` |
| resendVerificationEmail | `ResendFind` |
| createVerificationToken (after COMMIT, or from a resend) | `CreateFind`, `Invalidate`, `InsertToken`, `Mail` |
| verifyEmail | `VerifyFind`, `LoadIdentity`, then `MarkUsed`, or `SaveUsed` and `SaveIdentity` |
| registerUser, acceptInvitation: users of the same tenant | `UserFromElsewhere` |

register is the one explicit transaction of the server. Its rows stay in its
request's record until `Commit`, where READ COMMITTED keeps them from everybody
else, with one exception that is modelled: an INSERT of an e-mail that another
transaction has inserted waits for that transaction to end, and fails if it
committed. Whether the client `app-spa` exists (`platform`) is chosen once, at the
start; it is created by a seed, not by a handler. A user row is its e-mail, since
`users` is unique on (tenant, e-mail) and only the platform tenant's rows are kept.
`verifiedAt` is `fresh` (NULL), `void` (the `Date(0)` of an invalidation) or `used`.

The code stores a new identity `pending` (`public-registration.service.ts:63`), and that
is what is modelled; verifyEmail alone makes it active. Five places of the repository say
that it is active, or verified, from the start: the comment 31 lines above (`:32`), the one
at `registration.controller.ts:24`, the changelog at `MODULE_DOC.md:220`, and the
expectations at `public-registration.service.spec.ts:124` and
`src/test/public-register.e2e-spec.ts:53`. `VerifiedByMail` is what the code does, and
`findings` records the disagreement.

`SendEmail` is MailService: without a transporter it returns, and the call goes on
when it throws. The controller and the resolver of these operations add only how
they answer (`VerificationRequest`); GlobalAuthGuard's list of public paths does not
contain the two REST paths, so they want somebody's access token, which the GraphQL
mutations do not. `IdentitiesOfUser` is the query checkEmailVerificationStatus.

### MemoryCache and RolePermissions

`MemoryCache` has no state: each method is an operator, because it runs without an
`await`. A store is the sequence of the Map's entries in enumeration order, and
`CacheSet` follows the code in dropping the first entry of a full store before it
looks whether the key is there.

| Code | Actions |
|---|---|
| create of a role or permission, REST or GraphQL | `CreateRole`, `InsertRole`, `CreatePermission`, `InsertKey` |
| setPermissions (REST) and updateRolePermissions (GraphQL, owner or admin) | `SetPermissions`, `UpdateRolePermissions`, then `DeleteGrants`, `InsertGrants` |
| getPermissionsForUser | `GetPermissions` (cache), `ReadRoles`, `ReadGrants`, `StorePermissions` |
| its callers | `AskForToken` (POST /token signs the result), `AskInGuard` (AuthClaimsGuard) |
| time, failures | `LapseEntry` (a minute), `LapseToken` (five minutes), `Fail` |

`save(rows)` is one transaction, so `InsertGrants` is one action; a row that another
update has inserted meanwhile makes it throw. An empty result is not cached, as in
the code. A user gets at most one role, from acceptInvitation (`AssignRole`): nothing
else in the code assigns one.

### Members and OrgStructure

`Members` has the requests, the tables and the audit log; `OrgStructure` extends it
with four tables and the requests that fill them, so both kinds overlap. A tenant
stands for its slug, a user for its tenant and e-mail, an invitation's token for its
id. A check of the caller's role is in the action of the statement that follows it,
which loses nothing: roles and assignments are never deleted.

| Code | Actions |
|---|---|
| POST /management/orgs | `CreateOrg`, `FindOwnerRole`, `SaveOwnerRole`, `InviteOwner` |
| mutation createOrg: the tenant alone | `CreateOrgGql` |
| createInvitation, inviteMember | `CreateInvitation` (any caller with a token), `InviteMember` |
| acceptInvitation | `AcceptInvitation`, `SaveUser`, `FindRole`, `SaveRole`, `AssignRole`, `MarkAccepted` |
| updateMemberRoles | `UpdateMemberRoles`, `SaveRoles` |
| registerUser; updateMeSettings, completeOnboarding | `RegisterUser`; `UpdateMeSettings`, `CompleteOnboarding`, then `SaveRow` |
| createPortfolio, createProject, createTeam, addTeamMember | `CreatePortfolio`; `CreateProject`, `SaveProject`; `CreateTeam`; `AddTeamMember`, `SaveTeamMember` |
| the audit log, last statement of a mutation | `LogEvent` |
| orgMembers, meSettings, meDashboard, the four structure queries | operators of those names, used in the properties |
| guards | `GlobalAuthGuard`, `GraphqlAuthGuard`, `TenantGuard`, `AccessTokenGuard` |

Things a reader of the code may not expect and that are modelled as they are:
updateMemberRoles creates the roles it is given, logs that the member's roles were updated
and assigns none, although its own comment (`org.resolver.ts:170`) and the guide
(`ORG_RBAC_FRONTEND_GUIDE.md:179`) say it does (the comment at `org.resolver.ts:207` leaves
the assignment to others; a finding); accepting an invitation wants an access
token, since its path is not public; a project's portfolio and a team's project need
not be of the same tenant, only exist, so that the queries filter by tenant and parent;
nothing sets a team member's status to `removed`, so restoring one is unreachable.

`stranded`, `overlapped` and `untold` are history variables: requests that were cut
short, rows saved while another request held a copy, and events whose request died
before it logged them. Each is the exception one property names.

### SigningKeys

A task is one asynchronous call: the warm-up in `onModuleInit`, the cron's
rotation, or a `signJwt`. `FindOwnKey`/`Import` and `FindNoKey` are the two ways
through `ensureActiveKey`; `Generate`, `SaveKey`, `RetireOthers`, `InstallKey` are
`rotateKeys`, statement by statement; `Sign` names the process's `activeKey` in a
token. `Throw` is a failing statement, which the warm-up and the cron swallow;
`Die` is a process that ends and takes its private keys with it. Keys are numbered
in the order of their `notBefore`, which assumes that the processes' clocks agree.

## 3. What the runs check

Passing runs:

| Run | Shows | Instance |
|---|---|---|
| `refresh_concurrent` | types; a successor's parent is retired and in the same session (`SuccessorRetiresParent`); tokens have their session's tenant; what a request read before an await is still true (`SnapshotsStayTrue`); claims and token agree (`ClaimsMatchSession`); two usable tokens only where a token has two successors (`LiveTokensFork`); refinement of `SessionLifecycle`: a closed session stays closed (`ImplementsLifecycle`) | 2 tenants, 2 users, 2 sessions, 4 tokens, 2 requests, 1 failure |
| `code` | sessions only for spent codes, of the right user and tenant (`SessionsSpendCodes`); a second session of a code only where two exchanges of it overlapped (`OneSessionUnlessContested`), and never two for one request (`OneSessionPerRequest`); a consumed code gets its session unless an exchange dies (`ConsumedYieldsSession`); detected reuse ends in revocation (`ReuseEventuallyRevokes`) | 1 public client, 2 redirect URIs of which one is registered, 2 codes, 1 verifier, method S256, 2 requests, 2 sessions, 2 tokens, 1 exchange that dies, 1 lapse |
| `login` | nobody is locked out before the first tier, whatever copies are written back; exact counts and a lock at the threshold while logins do not overlap; a lock lifts | 2 logins, tiers 2, 3, 5, locks 1, 3, 12 units of five minutes |
| `front` | the code a consent page leads to is for the user it named, although another tab has signed somebody else in (`CodeForUserShown`); every navigation ends at a page, whatever expires on the way (`NavigationEnds`) | 2 tabs, 2 users, an auto-approved global client and a tenant's client, 6 csrf tokens |
| `onboarding` | accounts complete or absent (`AccountsComplete`); verified only by a mailed token that is recorded as used (`VerifiedByMail`); two usable tokens only from overlapping calls (`OneUsableToken`); a spent token verifies unless a request dies (`SpentTokenVerifies`) | 2 e-mails, 2 identities, 2 tokens, 2 requests, 1 failure, 1 expiry |
| `keys` | every token verifiable, every key owned, no second active row beyond rotations under way | 2 processes, 3 tasks, 3 keys, 1 loss |
| `permissions` | a role has a union of whole sets that were asked for, never a part of one, and so have the cache and the tokens; undisturbed, exactly the last answered (`GrantsAreAsked`); everything gives way to the tables (`PermissionsConverge`) | 1 role, 2 keys, 2 users, a cache of 1 entry, 2 requests, 2 updates, 1 failure |
| `cache` | the cache keeps its bound and one entry for a key; a live entry goes only to make room, and only the first of the Map, whose order `get` changes and an overwriting `set` does not (`CacheEvictsOldest`) | the same with 3 users, a cache of 2 entries and 1 update |
| `organisation` | acceptances of one token, or of two for one e-mail, make one member, who has the invited role (`JoinsAsInvited`); a new organisation has an owner role and an invitation (`OrgsComeWithOwner`); answered changes of a user's row stay (`ChangesKept`); a tenant's lists show what its managers made, and the audit log knows (`StructureIsTheTenants`) | 2 tenants, 2 e-mails, 2 roles, 5 invitations, 2 settings, 2 ids, 2 codes, 2 requests at a time, 3 arrivals, 1 failure |

Runs that TLC ends with a counterexample, each a sentence of the documentation or
of a comment that the code does not keep (`findings` in `PROJECT.json` quotes them):

| Run | Sentence | Counterexample |
|---|---|---|
| `refresh_fork` | a session holds a rotation chain | two refreshes of one token both read it live, both save a successor |
| `refresh_revoke` | POST /revoke revokes all refresh tokens of the session | a rotation that read its token before the UPDATE saves a live one after it, and /revoke answers |
| `login_lost` | 5 failures lock for 5 minutes | two failures read the same count, one is lost (the code's own tiers 5, 10, 15) |

`RevokedWhenAnswered` speaks of POST /revoke, whose documentation it quotes. The mutation
revokeSession meets the same race, and one more: its UPDATE may fall between the two saves
of issueSession, whose token is then stored live.

Two more findings belong to passing runs, because what they contradict is what the run
shows. A registration does not make an active identity (`VerifiedByMail` in `onboarding`).
updateMemberRoles assigns no role: in `organisation` it leaves `userRoles` as it was, and
`JoinsAsInvited`, which asks for the invited role among others a member may have, would hold
with the list equal to it.

Bounds. Every bound is a constant in a guard: `MaxFails`,
`MaxExpired` (of `Onboarding`), `MaxLapsed`, `MaxDropped`, `MaxKeys`, `MaxLosses`, `MaxUpdates`, `MaxArrivals`, and
the sets of ids. Two
requests suffice for every race between a read and a save; the third token is a
second rotation, the fourth a second branch or session; a third task lets a
signature meet two overlapping rotations. The tiers of `login` are 2, 3 and 5
instead of 5, 10 and 15: the thresholds stay distinct, with room between two of
them and none between the others. A request that will store a token is admitted
only while the pool has one left for it (`PoolHasRoom`), so no request is stuck for
want of an id. Two verification tokens are one for registration and one for a
resend that overlaps it or follows it. Six csrf tokens always leave a
fresh one: the cookie, two forms and two answers hold at most five. `organisation`
starts from an organisation with an owner, a portfolio, a project, a team and two open
invitations for one e-mail, because the way there is long and uneventful (`MCInit` is one of
the states of `Init`, from which the theorems start); three
arrivals are then two requests that overlap, and one before or after them or an
invitation that expires. In `permissions` two keys make a set that can be halved, and
two users compete for a cache of one entry, so that an entry is evicted again and again; an
order of eviction needs more, which is why `cache` has two entries and three users. One
update, of which the first insert may fail, is enough to change what is cached there. In
`code` one PKCE method suffices: the methods differ in `Challenge` only, and the theorems
hold for both. Symmetry is used in safety runs only, over
ids and slots that no definition tells apart. The runs of `CodeExchange`,
`Onboarding`, `SigningKeys` and `OrgStructure` stop when codes, addresses and tokens,
keys, or arrivals run out, so they say `CHECK_DEADLOCK FALSE`; the others check it.

Fairness. Liveness assumes that a statement that has been started ends
(`WF` of each request's steps: the event loop and the database do not starve a
request), in `FrontChannel` that a browser follows redirects, and in `LoginAttempts`
and `RolePermissions` that time passes. Nobody has to send a request.
After a crash nothing in the code takes the work up again, so what must happen in
the end is promised only where no request dies: in `code` the session steps do not
fail, and `ConsumedYieldsSession` and `SpentTokenVerifies` excuse the behaviours in
which a request did. `PermissionsConverge` needs no such excuse: entries and tokens
expire whoever dies.

Some properties hold only under a condition, which each of them names:
`CountIsExact` and `LocksWhenAlone` while logins have not overlapped (`login_lost`
shows why), `OneUsableToken` for identities whose calls have not, and `OneActiveRow`
while no task of a rotation has been lost, because nothing but the next rotation
retires what that one left active, and `OneSessionUnlessContested` for codes whose exchanges
have not overlapped. `JoinsAsInvited` and `OrgsComeWithOwner` except
requests that were cut short, because nothing finishes them: a retry is answered
USER_EXISTS or ORG_SLUG_TAKEN. `ChangesKept` excepts a user whose row was saved while
another request held a copy, which is a lost update; `CodeForUserShown` excepts a csrf
cookie that arrives after that of a later login.

## 4. What is proved

TLAPS checks these for every value of the constants. Every invariant and every action
property that a passing run checks, and the refinement of `SessionLifecycle`, are theorems:

| Module | Theorems | Argument |
|---|---|---|
| `RefreshTokensProofs` | `TypeCorrect`, `SuccessorRetiresParentAlways`, `TenantOfSessionAlways`, `SnapshotsStayTrueAlways`, `ClaimsMatchSessionAlways` | the five are inductive together (`IInv`): that the row saved as revoked is the one its successor names needs `SnapshotsStayTrue`, which needs `TenantOfSession`, which needs types. One lemma per action |
| | `SessionsImplementLifecycle` | under `SessionLife`, every step leaves each session as it is, opens a new one or closes an open one: only a request that already holds a live token or a new session can store a token |
| | `LiveTokensForkAlways` | a live token has no successor (`SuccessorRetiresParent`), so the proof counts leaves: rotating a leaf replaces it, rotating anything else makes a fork, and `FirstTokenOnce` says a session's first token is stored once |
| `CodeExchangeProofs` | `TypeCorrect`, `SessionsSpendCodesAlways`, `OneSessionPerRequestAlways` | the properties speak of sessions, and what makes them true happens before there is one: `ExchangesKnow` follows an exchange from the row it read, `Originated` the session back to it, and `NotAgain` says that a request is never half way through a second exchange of a code it has made a session of |
| | `OneSessionUnlessContestedAlways` | while a code is not contested, one exchange at most is busy with it (`Alone`), and none once it has a session (`Redeemed`): by `SessionsSpendCodes` its row is consumed then, and `ReadCode` refuses it |
| `LoginAttemptsProofs` | `TypeCorrect`, `NoSpuriousLockAlways` | `NoSpuriousLock` alone is not inductive, since any stale copy may be written back: `CopiesEarned` says of the row and of every copy that its count is at most the failures there have been and that a lock in it is earned |
| | `CountIsExactAlways`, `LocksWhenAloneAlways` | `Alone`: while logins have not overlapped, one at most is under way and the copy it is about to write back is the row |
| `FrontChannelProofs` | `TypeCorrect`, `CodeForUserShownAlways` | who can hold which csrf token: an answer to a login has one that nothing else has (`LoginsBringTheirToken`), so a consent page whose form the cookie will match names the user of the OP session (`CurrentPagesNameUser`). One lemma says what every answer keeps to (`Sound`), one what its arrival does |
| `OnboardingProofs` | `TypeCorrect`, `AccountsCompleteAlways`, `VerifiedByMailAlways`, `OneUsableTokenAlways` | what a request knows at each of its statements (`Knows`), that the rows of two open transactions have nothing in common (`TransactionsApart`), and that an identity with one token in the making has no usable one when that is inserted (`Making`) |
| `RolePermissionsProofs` | `TypeCorrect`, `GrantsAreAskedAlways` | what a request has read says of itself what the property says of the cache (`InFlight`), which needs that a user has one role at most (`OneRole`); of an undisturbed role one update at most is under way, and nothing is there between its DELETE and its INSERT (`Undisturbed`). `CalmStep` and `UpdateStep` prove once what the steps of readers, and of updates, have in common |
| | `CacheEvictsOldestAlways` | lemmas about `get`, `set`, `del` and expiry of `MemoryCache`, for stores of any keys, values and size: what becomes of the set of entries, and of the order |
| `OrgStructureProofs` | `TypeCorrect` | one lemma per action of `Members` and of `OrgStructure` |
| | `JoinsAsInvitedAlways` | a user joins in one request, which holds its own open invitation and is the only one to give it a role (`Acceptances`), and everybody who has joined is stranded, in the middle of it, or accepted (`Joiners`) |
| | `OrgsComeWithOwnerAlways`, `ChangesKeptAlways`, `StructureIsTheTenantsAlways` | each has a conjunct that ties requests to tables: a founded organisation is stranded, still being founded, or has its owner's invitation (`Foundings`); a copy that is about to be saved takes nothing back, unless the row was saved since (`Saves`); every row follows from an event that is logged, about to be, or lost with its request (`Tables`) |
| `SigningKeysProofs` | `TypeCorrect`, `TokensVerifiableAlways`, `SigningKeyOwnedAlways` | `TaskKeys`: a task about to install a key has stored its row and its private half; rows and private keys only grow, except in a process that dies |
| | `OneActiveRowAlways` | a cardinality argument: `SaveKey` adds an active row and a task that has yet to retire the others, `RetireOthers` leaves one active row; inductive once such tasks are known to be finitely many (`Rows`) |

They rest on the named assumptions of the modules only, which TLC evaluates in every run:
`Null` is no row and no id (`NullAssumption`, `NullRowAssumption`, `NullCodeAssumption`,
`NoProcAssumption`), bounds are naturals (`BoundsAssumption`), tiers and locks increase
(`TiersAssumption`), subsets are subsets (`ClientsAssumption`, `SubsetsAssumption`,
`RolesAssumption`, `StructureAssumption`), and `randomUUID` finds a csrf token that no
cookie, form or answer has (`TokensAssumption`). In particular the number of requests,
logins, processes, tasks, tabs, tenants and users is arbitrary.

`OrgStructure` starts, as its run does, from an organisation whose owner has made a
portfolio, a project and a team; in `Init` the organisation, its owner, the ids and the
invitations it has sent are arbitrary, except that none is accepted yet.

A store of `MemoryCache` is cut in two around the entry that `del` removes
(`PositionOf`, `SubSeq`), rather than filtered, because what a filter returns is defined
by recursion over the sequence, which the prover cannot do.

Model-checked only, because it depends on fairness, which the prover does not treat:
`ReuseEventuallyRevokes`, `ConsumedYieldsSession` (`CodeExchange`), `LockLifts`
(`LoginAttempts`), `NavigationEnds` (`FrontChannel`), `SpentTokenVerifies`
(`Onboarding`) and `PermissionsConverge` (`RolePermissions`).

## 5. What is not modelled, and the plan

Left out of the modelled components:

- scopes and audiences of tokens, the wording of answers, pages and logs;
- the public-key cache of `verifyJwt` (a row's public key never changes, so a stale
  entry equals a fresh one);
- the grant client_credentials, and the refresh token in a cookie: `token()` takes its
  request parameter without a decorator, so the one always answers 500 and the other is
  never read (the comment at `token.controller.ts:186` speaks of it); neither changes
  any state;
- the audit events of roles, permissions, logins and consents: nothing reads them;
- several tenants in `RolePermissions`, where every query is scoped by one.

Not modelled at all, with the reason: the oidc-provider integration (nothing calls
`getExpressCallback`, which would build the provider and its storage adapter), discovery, introspection,
userinfo and JWKS (read-only), password hashing and TOTP (library calls),
configuration, logging, filters, health, migrations and tools (start-up wiring, formatting
and schema; the indexes and foreign keys of the schema are in the models' inserts).
`scopes.guard.ts` and `policy.guard.ts` are on no route. `TenantStatusGuard`, a global guard of
the OIDC and management modules, refuses a tenant whose status is `suspended`; nothing in the
repository gives a tenant that status, so it lets every request pass.

What is left to do:

1. The safety side of the liveness properties, as invariants and theorems: that a
   request that has consumed a code always has a step to take until its session is
   stored, that a navigation comes closer to a page with every redirect.
2. Abstract specifications of more components, with a proved refinement each, as
   `SessionLifecycle` is of `RefreshTokens`: an authorization code that is issued, spent
   and never issued again; a role's permissions as a register that updates write whole.
3. `TokensVerifiable` with the cache of public keys of `verifyJwt`.
