------------------------------ MODULE Onboarding ------------------------------
(***************************************************************************)
(* PublicRegistrationService and EmailVerificationService: from POST       *)
(* /public/register to a verified e-mail.  register runs one transaction   *)
(* over identities, users and memberships; everything after its commit,    *)
(* and every resend and verification, is one statement after another.      *)
(*                                                                         *)
(* A request is a process and an action one statement.  What a transaction *)
(* has inserted and not committed is in its request's record, where nobody *)
(* else sees it (READ COMMITTED), except through the unique indexes: an    *)
(* INSERT of a key another transaction has inserted waits for its end.     *)
(***************************************************************************)
EXTENDS Naturals, FiniteSets

CONSTANTS Emails,      \* normalized addresses
          Ids,         \* ids of identity rows
          Tokens,      \* ids of email_verifications rows (and their raw tokens)
          Requests,    \* slots for requests in flight
          Null,
          MaxFails,    \* bound: requests that die half way
          MaxExpired   \* bound: tokens that outlive their 24 hours

Identity == [email : Emails, status : {"pending", "active"}, verified : BOOLEAN]

\* verifiedAt: NULL, Date(0) or the time of use.
Verification == [identity : Ids, state : {"fresh", "void", "used"}]

Membership == [identity : Ids, user : Emails]

ASSUME NullAssumption == Null \notin Identity \cup Verification \cup Emails \cup Ids \cup Tokens

ASSUME BoundsAssumption == MaxFails \in Nat /\ MaxExpired \in Nat

VARIABLES identities,   \* table identities
          users,        \* table users, the platform tenant's rows, by e-mail
          memberships,  \* table memberships, those of the platform tenant
          verifs,       \* table email_verifications
          mailed,       \* tokens in somebody's mailbox
          expired,      \* tokens whose expiresAt has passed
          platform,     \* whether the global client app-spa exists
          req,          \* the local variables of each request
          fails,        \* requests that died half way, so far
          overlapped    \* history: identities with two tokens in the making at once

vars == <<identities, users, memberships, verifs, mailed, expired, platform, req, fails,
          overlapped>>

tables == <<identities, users, memberships, verifs>>
world == <<mailed, expired, platform, fails>>

PCs == {"idle",
        "insertIdentity", "findUser", "insertUser", "commit",         \* register
        "createFind", "invalidate", "insertToken", "mail",            \* createVerificationToken
        "loadIdentity", "markUsed", "saveUsed", "saveIdentity"}       \* verifyEmail

Request == [pc : PCs, email : Emails \cup {Null}, id : Ids \cup {Null},
            tok : Tokens \cup {Null}, newUser : BOOLEAN]

Idle == [pc |-> "idle", email |-> Null, id |-> Null, tok |-> Null, newUser |-> FALSE]

At(r, pc) == req[r].pc = pc
Goto(r, pc) == req' = [req EXCEPT ![r].pc = pc]
Finish(r) == req' = [req EXCEPT ![r] = Idle]

Registered(e) == \E i \in Ids : identities[i] # Null /\ identities[i].email = e

\* Requests whose transaction has inserted an identity it has not committed.
InTransaction == {r \in Requests : req[r].pc \in {"findUser", "insertUser", "commit"}}

FreshOf(i) == {v \in Tokens : verifs[v] # Null /\ verifs[v].identity = i
                                               /\ verifs[v].state = "fresh"}

\* Calls of createVerificationToken that have checked identity i.
Creating(i) == {r \in Requests : req[r].pc \in {"invalidate", "insertToken"} /\ req[r].id = i}

\* Bound: a request that will store a token is admitted only while the pool
\* has one left for it.
PoolHasRoom ==
  Cardinality({v \in Tokens : verifs[v] = Null}) >
    Cardinality({r \in Requests : req[r].pc \in {"insertIdentity", "findUser", "insertUser",
                                     "commit", "createFind", "invalidate", "insertToken"}})

(***************************************************************************)
(* register.  An e-mail that has an identity is answered IDENTITY_EXISTS.  *)
(***************************************************************************)
RegisterFind(r, e) ==
  /\ At(r, "idle")
  /\ PoolHasRoom
  /\ ~Registered(e)
  /\ req' = [req EXCEPT ![r] = [Idle EXCEPT !.pc = "insertIdentity", !.email = e]]
  /\ UNCHANGED <<tables, world, overlapped>>

\* INSERT of the identity, pending.  It waits for a transaction that has
\* inserted the same e-mail; if that one commits, the unique index refuses it,
\* the transaction is rolled back and the answer is IDENTITY_EXISTS.
InsertIdentity(r) ==
  /\ At(r, "insertIdentity")
  /\ \A x \in InTransaction : req[x].email # req[r].email
  /\ \/ Registered(req[r].email) /\ Finish(r)
     \/ /\ ~Registered(req[r].email)
        /\ \E i \in Ids : /\ identities[i] = Null /\ \A x \in InTransaction : req[x].id # i
                          /\ req' = [req EXCEPT ![r].pc = "findUser", ![r].id = i]
  /\ UNCHANGED <<tables, world, overlapped>>

NewIdentity(r) == [email |-> req[r].email, status |-> "pending", verified |-> FALSE]

\* No client app-spa: the identity is committed alone, and no mail is sent.
CommitIdentityOnly(r) ==
  /\ At(r, "findUser") /\ ~platform
  /\ identities' = [identities EXCEPT ![req[r].id] = NewIdentity(r)]
  /\ Finish(r)
  /\ UNCHANGED <<users, memberships, verifs, world, overlapped>>

FindUser(r) ==
  /\ At(r, "findUser") /\ platform
  /\ Goto(r, IF req[r].email \in users THEN "commit" ELSE "insertUser")
  /\ UNCHANGED <<tables, world, overlapped>>

\* The user that was not there may have been committed since: the unique index
\* refuses the INSERT and the transaction is rolled back.
InsertUser(r) ==
  /\ At(r, "insertUser")
  /\ IF req[r].email \in users
     THEN Finish(r)
     ELSE req' = [req EXCEPT ![r].pc = "commit", ![r].newUser = TRUE]
  /\ UNCHANGED <<tables, world, overlapped>>

\* Mutant: the membership is only made for a user made here.
CommitNewUserOnly(r) ==
  LET q == req[r] IN
  /\ At(r, "commit")
  /\ identities' = [identities EXCEPT ![q.id] = NewIdentity(r)]
  /\ users' = IF q.newUser THEN users \cup {q.email} ELSE users
  /\ memberships' = IF q.newUser THEN memberships \cup {[identity |-> q.id, user |-> q.email]}
                                 ELSE memberships
  /\ Goto(r, "createFind")
  /\ UNCHANGED <<verifs, world, overlapped>>

\* INSERT of the membership and COMMIT.
Commit(r) ==
  LET q == req[r] IN
  /\ At(r, "commit")
  /\ identities' = [identities EXCEPT ![q.id] = NewIdentity(r)]
  /\ users' = IF q.newUser THEN users \cup {q.email} ELSE users
  /\ memberships' = memberships \cup {[identity |-> q.id, user |-> q.email]}
  /\ Goto(r, "createFind")
  /\ UNCHANGED <<verifs, world, overlapped>>

\* registerUser and acceptInvitation make users of the platform tenant too.
UserFromElsewhere(e) ==
  /\ e \notin users
  /\ \A r \in InTransaction : ~(req[r].newUser /\ req[r].email = e)
  /\ users' = users \cup {e}
  /\ UNCHANGED <<identities, memberships, verifs, world, req, overlapped>>

(***************************************************************************)
(* resendVerificationEmail and createVerificationToken                     *)
(***************************************************************************)

\* An unknown e-mail and a verified identity are answered alike, and leave no
\* trace.
ResendFind(r, e) ==
  /\ At(r, "idle")
  /\ PoolHasRoom
  /\ \E i \in Ids :
       /\ identities[i] # Null /\ identities[i].email = e /\ ~identities[i].verified
       /\ req' = [req EXCEPT ![r] = [Idle EXCEPT !.pc = "createFind", !.email = e, !.id = i]]
  /\ UNCHANGED <<tables, world, overlapped>>

\* findOne of the identity; one that is verified by now ends the call.
CreateFind(r) ==
  LET i == req[r].id IN
  /\ At(r, "createFind")
  /\ IF identities[i].verified THEN Finish(r) ELSE Goto(r, "invalidate")
  /\ overlapped' = IF Creating(i) # {} /\ ~identities[i].verified THEN overlapped \cup {i}
                                                                  ELSE overlapped
  /\ UNCHANGED <<tables, world>>

\* Mutant: the new token leaves the old ones usable.
InvalidateNone(r) ==
  /\ At(r, "invalidate")
  /\ Goto(r, "insertToken")
  /\ UNCHANGED <<tables, world, overlapped>>

\* Mutant: verifiedAt IS NULL is missing from the condition.
InvalidateUsedToo(r) ==
  /\ At(r, "invalidate")
  /\ verifs' = [v \in Tokens |-> IF verifs[v] # Null /\ verifs[v].identity = req[r].id
                                 THEN [verifs[v] EXCEPT !.state = "void"] ELSE verifs[v]]
  /\ Goto(r, "insertToken")
  /\ UNCHANGED <<identities, users, memberships, world, overlapped>>

\* UPDATE ... SET verified_at = Date(0) WHERE identity_id = i AND verified_at
\* IS NULL.
Invalidate(r) ==
  /\ At(r, "invalidate")
  /\ verifs' = [v \in Tokens |-> IF v \in FreshOf(req[r].id)
                                 THEN [verifs[v] EXCEPT !.state = "void"] ELSE verifs[v]]
  /\ Goto(r, "insertToken")
  /\ UNCHANGED <<identities, users, memberships, world, overlapped>>

InsertToken(r) ==
  /\ At(r, "insertToken")
  /\ \E v \in Tokens :
       /\ verifs[v] = Null
       /\ verifs' = [verifs EXCEPT ![v] = [identity |-> req[r].id, state |-> "fresh"]]
       /\ req' = [req EXCEPT ![r].pc = "mail", ![r].tok = v]
  /\ UNCHANGED <<identities, users, memberships, world, overlapped>>

\* The mail goes out, or there is no transporter, or it throws.
SendEmail(v) == mailed' \in {mailed, mailed \cup {v}}

\* The call succeeds either way.
Mail(r) ==
  /\ At(r, "mail")
  /\ SendEmail(req[r].tok)
  /\ Finish(r)
  /\ UNCHANGED <<tables, expired, platform, fails, overlapped>>

(***************************************************************************)
(* verifyEmail.  A token that is unknown, used, void or expired is refused *)
(* and changes nothing.                                                    *)
(***************************************************************************)
VerifyFind(r, v) ==
  /\ At(r, "idle")
  /\ v \in mailed \ expired
  /\ verifs[v].state = "fresh"
  /\ req' = [req EXCEPT ![r] = [Idle EXCEPT !.pc = "loadIdentity", !.tok = v,
                                            !.id = verifs[v].identity]]
  /\ UNCHANGED <<tables, world, overlapped>>

LoadIdentity(r) ==
  /\ At(r, "loadIdentity")
  /\ Goto(r, IF identities[req[r].id].verified THEN "markUsed" ELSE "saveUsed")
  /\ UNCHANGED <<tables, world, overlapped>>

SaveToken(r) == verifs' = [verifs EXCEPT ![req[r].tok].state = "used"]

\* The identity was verified already: the token is spent and refused.
MarkUsed(r) ==
  /\ At(r, "markUsed")
  /\ SaveToken(r)
  /\ Finish(r)
  /\ UNCHANGED <<identities, users, memberships, world, overlapped>>

\* The first of two saves: the row, as it was read, with verifiedAt set.
SaveUsed(r) ==
  /\ At(r, "saveUsed")
  /\ SaveToken(r)
  /\ Goto(r, "saveIdentity")
  /\ UNCHANGED <<identities, users, memberships, world, overlapped>>

\* Mutant: the handler answers without the second save.
SaveIdentityNot(r) ==
  /\ At(r, "saveIdentity")
  /\ Finish(r)
  /\ UNCHANGED <<tables, world, overlapped>>

\* Mutant: the status column is given the name of the event.
SaveIdentityVerified(r) ==
  /\ At(r, "saveIdentity")
  /\ identities' = [identities EXCEPT ![req[r].id].verified = TRUE,
                                      ![req[r].id].status = "verified"]
  /\ Finish(r)
  /\ UNCHANGED <<users, memberships, verifs, world, overlapped>>

\* The second: emailVerified, and active if it was pending.
SaveIdentity(r) ==
  /\ At(r, "saveIdentity")
  /\ identities' = [identities EXCEPT ![req[r].id].verified = TRUE,
                                      ![req[r].id].status = "active"]
  /\ Finish(r)
  /\ UNCHANGED <<users, memberships, verifs, world, overlapped>>

(***************************************************************************)
(* checkEmailVerificationStatus, for a user: the identities that a join    *)
(* with memberships finds.                                                 *)
(***************************************************************************)
IdentitiesOfUser(u) == {m.identity : m \in {x \in memberships : x.user = u}}

(***************************************************************************)
(* The environment                                                         *)
(***************************************************************************)

\* A statement throws or the process dies; a transaction is rolled back, and
\* its rows vanish with the request's record.
Fail(r) ==
  /\ ~At(r, "idle") /\ fails < MaxFails
  /\ fails' = fails + 1
  /\ Finish(r)
  /\ UNCHANGED <<tables, mailed, expired, platform, overlapped>>

\* 24 hours pass.
Expire(v) ==
  /\ verifs[v] # Null /\ v \notin expired
  /\ Cardinality(expired) < MaxExpired
  /\ expired' = expired \cup {v}
  /\ UNCHANGED <<tables, mailed, platform, fails, req, overlapped>>

(***************************************************************************)
(* Specification                                                           *)
(***************************************************************************)
Init ==
  /\ identities = [i \in Ids |-> Null]
  /\ users = {} /\ memberships = {}
  /\ verifs = [v \in Tokens |-> Null]
  /\ mailed = {} /\ expired = {}
  /\ platform \in BOOLEAN
  /\ req = [r \in Requests |-> Idle]
  /\ fails = 0
  /\ overlapped = {}

\* The verification endpoints call the service and turn what it returns or
\* throws into a redirect or an answer; nothing else changes.
VerificationRequest(r) ==
  \/ \E e \in Emails : ResendFind(r, e)
  \/ \E v \in Tokens : VerifyFind(r, v)

Arrive(r) == (\E e \in Emails : RegisterFind(r, e)) \/ VerificationRequest(r)

Advance(r) ==
  \/ InsertIdentity(r)
  \/ CommitIdentityOnly(r)
  \/ FindUser(r)
  \/ InsertUser(r)
  \/ Commit(r)
  \/ CreateFind(r)
  \/ Invalidate(r)
  \/ InsertToken(r)
  \/ Mail(r)
  \/ LoadIdentity(r)
  \/ MarkUsed(r)
  \/ SaveUsed(r)
  \/ SaveIdentity(r)

Next ==
  \/ \E r \in Requests : Arrive(r) \/ Advance(r) \/ Fail(r)
  \/ \E e \in Emails : UserFromElsewhere(e)
  \/ \E v \in Tokens : Expire(v)

Spec == Init /\ [][Next]_vars

\* A statement that has been started ends; nobody has to send a request.
FairSpec == Spec /\ \A r \in Requests : WF_vars(Advance(r))

(***************************************************************************)
(* Properties                                                              *)
(***************************************************************************)

\* Every table and request keeps the shape its column types give it.
TypeOK ==
  /\ identities \in [Ids -> Identity \cup {Null}]
  /\ users \subseteq Emails
  /\ memberships \subseteq Membership
  /\ verifs \in [Tokens -> Verification \cup {Null}]
  /\ mailed \subseteq Tokens /\ expired \subseteq Tokens
  /\ platform \in BOOLEAN
  /\ req \in [Requests -> Request]
  /\ fails \in Nat
  /\ overlapped \subseteq Ids

\* Registrations that overlap, lose a race on a unique index or die leave
\* complete accounts only: an e-mail has at most one identity, where there is
\* a platform tenant each identity has a membership that leads to a user of its
\* own e-mail, and a user that asks for its status is shown its own identity.
AccountsComplete ==
  /\ \A i, j \in Ids : identities[i] # Null /\ identities[j] # Null
                       /\ identities[i].email = identities[j].email => i = j
  /\ \A m \in memberships : /\ identities[m.identity] # Null /\ m.user \in users
                            /\ m.user = identities[m.identity].email
  /\ platform => \A i \in Ids : identities[i] # Null => i \in IdentitiesOfUser(identities[i].email)
  /\ \A u \in users : Cardinality(IdentitiesOfUser(u)) <= 1

\* An identity is active only if its e-mail is verified, and verified only by
\* a token that was mailed for it and is recorded as used: a resend that voids
\* tokens at the same time does not wipe out the one that did it.
VerifiedByMail ==
  \A i \in Ids : identities[i] # Null =>
    /\ identities[i].status = "active" <=> identities[i].verified
    /\ identities[i].verified =>
         \E v \in mailed : verifs[v].identity = i /\ verifs[v].state = "used"

\* An identity has two usable tokens only if two calls of
\* createVerificationToken for it overlapped, whichever of them died.
OneUsableToken == \A i \in Ids \ overlapped : Cardinality(FreshOf(i)) <= 1

\* A token that has been spent verifies its identity in the end, although the
\* two rows are saved one after the other, unless a request dies between them.
SpentTokenVerifies ==
  LET Verified(i) == identities[i] # Null /\ identities[i].verified
      AllVerify == \A v \in Tokens : verifs[v] # Null /\ verifs[v].state = "used"
                                       => Verified(verifs[v].identity)
  IN  []<>(fails > 0 \/ AllVerify)

=============================================================================
