---------------------------- MODULE RefreshTokens ----------------------------
(***************************************************************************)
(* Sessions and their refresh tokens: SessionService, the refresh_token    *)
(* grant and the session-issuing tail of the authorization_code grant of   *)
(* POST /token, POST /revoke, and the GraphQL mutation revokeSession.      *)
(*                                                                         *)
(* Every HTTP request is a process.  One action is one database statement  *)
(* of the request (a findOne, a save, an UPDATE): between two awaits any   *)
(* other request may run.  Rows are the two tables sessions and            *)
(* refresh_tokens; a raw token and its hash are the id of its row.         *)
(***************************************************************************)
EXTENDS Naturals, FiniteSets

CONSTANTS Tenants, Users,
          Sessions,      \* ids of session rows
          Tokens,        \* ids of refresh-token rows (and their raw values)
          Requests,      \* slots for requests in flight
          Admins,        \* pairs <<tenant, user>> holding the owner or admin role
          Null,          \* SQL NULL, and "no row"
          MaxFails       \* bound: requests that die half way

SessionRow == [tenant : Tenants, user : Users]

TokenRow == [tenant  : Tenants,
             session : Sessions,
             parent  : Tokens \cup {Null},   \* rotatedFromId
             revoked : BOOLEAN]              \* revokedAt IS NOT NULL

ASSUME NullAssumption ==
  /\ Null \notin Tenants \cup Users \cup Sessions \cup Tokens
  /\ Null \notin SessionRow
  /\ Null \notin TokenRow

ASSUME BoundsAssumption ==
  /\ MaxFails \in Nat
  /\ Admins \subseteq Tenants \X Users

VARIABLES sessions,   \* table sessions
          tokens,     \* table refresh_tokens
          req,        \* the local variables of each request
          held,       \* raw tokens that some client has received
          fails       \* requests that died half way, so far

vars == <<sessions, tokens, req, held, fails>>

(***************************************************************************)
(* Requests.  pc names the statement the request is about to run.          *)
(***************************************************************************)
PCs == {"idle",
        "reuse",        \* rotate: revoke the chain, then INVALID_GRANT
        "loadSession",  \* rotate: holds an unrevoked token, reads its session
        "saveRotation", \* rotate: about to save the old and the new row
        "issueToken",   \* exchange: session stored, its first token not yet
        "respondToken", \* roles, permissions, signing, audit, then the reply
        "revoke",       \* /revoke or revokeSession: about to UPDATE the chain
        "respondRevoke"}\* audit, then the reply

Request == [pc     : PCs,
            tenant : Tenants \cup {Null},
            user   : Users \cup {Null},
            sess   : Sessions \cup {Null},
            tok    : Tokens \cup {Null}]     \* presented, then the one to answer with

Idle == [pc |-> "idle", tenant |-> Null, user |-> Null, sess |-> Null, tok |-> Null]

At(r, pc) == req[r].pc = pc

\* Requests that may still store a live token for session s.
Holds(r, s) == /\ req[r].pc \in {"loadSession", "saveRotation", "issueToken"}
               /\ req[r].sess = s

Stored(t) == tokens[t] # Null
OfSession(t, s) == Stored(t) /\ tokens[t].session = s
Live(t) == Stored(t) /\ ~tokens[t].revoked

Unused == {t \in Tokens : ~Stored(t)}

\* Bound: a request that will store a token is admitted only while the pool
\* has one left for it.
PoolHasRoom ==
  Cardinality(Unused) >
    Cardinality({r \in Requests : req[r].pc \in {"loadSession", "saveRotation", "issueToken"}})

(***************************************************************************)
(* The table after  UPDATE refresh_tokens SET revoked_at = now() WHERE     *)
(* session_id = s.                                                         *)
(***************************************************************************)
ChainRevoked(s) ==
  [t \in Tokens |-> IF OfSession(t, s) THEN [tokens[t] EXCEPT !.revoked = TRUE]
                                       ELSE tokens[t]]

(***************************************************************************)
(* POST /token, grant_type=refresh_token: rotateRefreshToken and the reply *)
(* A token the tenant does not have leaves no trace: INVALID_GRANT.        *)
(***************************************************************************)

\* Mutant: the tenant is missing from the condition.
RefreshReadLiveAnyTenant(r, ten, t) ==
  /\ At(r, "idle")
  /\ t \in held /\ Live(t)
  /\ PoolHasRoom
  /\ req' = [req EXCEPT ![r] = [Idle EXCEPT !.pc = "loadSession", !.tenant = ten,
                                            !.sess = tokens[t].session, !.tok = t]]
  /\ UNCHANGED <<sessions, tokens, held, fails>>

\* Mutant: existing.revokedAt is not looked at.
RefreshReadLiveNoReuseCheck(r, ten, t) ==
  /\ At(r, "idle")
  /\ t \in held /\ Stored(t) /\ tokens[t].tenant = ten
  /\ PoolHasRoom
  /\ req' = [req EXCEPT ![r] = [Idle EXCEPT !.pc = "loadSession", !.tenant = ten,
                                            !.sess = tokens[t].session, !.tok = t]]
  /\ UNCHANGED <<sessions, tokens, held, fails>>

\* findOne({tenantId, tokenHash}) finds an unrevoked row.  expiresAt is stored
\* with every token and not looked at.
RefreshReadLive(r, ten, t) ==
  /\ At(r, "idle")
  /\ t \in held /\ Live(t) /\ tokens[t].tenant = ten
  /\ PoolHasRoom
  /\ req' = [req EXCEPT ![r] = [Idle EXCEPT !.pc = "loadSession", !.tenant = ten,
                                            !.sess = tokens[t].session, !.tok = t]]
  /\ UNCHANGED <<sessions, tokens, held, fails>>

\* The same findOne finds a revoked row: reuse.
RefreshReadRevoked(r, ten, t) ==
  /\ At(r, "idle")
  /\ t \in held /\ Stored(t) /\ ~Live(t) /\ tokens[t].tenant = ten
  /\ req' = [req EXCEPT ![r] = [Idle EXCEPT !.pc = "reuse", !.sess = tokens[t].session]]
  /\ UNCHANGED <<sessions, tokens, held, fails>>

\* Mutant: reuse is answered with INVALID_GRANT and nothing else.
ReuseRevokeSkipped(r) ==
  /\ At(r, "reuse")
  /\ req' = [req EXCEPT ![r] = Idle]
  /\ UNCHANGED <<sessions, tokens, held, fails>>

ReuseRevoke(r) ==
  /\ At(r, "reuse")
  /\ tokens' = ChainRevoked(req[r].sess)
  /\ req' = [req EXCEPT ![r] = Idle]
  /\ UNCHANGED <<sessions, held, fails>>

\* Mutant: looks the session up by tenant instead of by id.
LoadAnySession(r) ==
  /\ At(r, "loadSession")
  /\ \E s \in Sessions :
       /\ sessions[s] # Null /\ sessions[s].tenant = req[r].tenant
       /\ req' = [req EXCEPT ![r].pc = "saveRotation", ![r].user = sessions[s].user]
  /\ UNCHANGED <<sessions, tokens, held, fails>>

\* findOne({id: existing.sessionId}), with no tenant in the condition.
LoadSession(r) ==
  LET s == req[r].sess IN
  /\ At(r, "loadSession")
  /\ req' = [req EXCEPT ![r] = IF sessions[s] = Null THEN Idle
                               ELSE [@ EXCEPT !.pc = "saveRotation",
                                              !.user = sessions[s].user]]
  /\ UNCHANGED <<sessions, tokens, held, fails>>

\* Mutant: the old row is not in the array that is saved.
RotateSaveNextOnly(r) ==
  /\ At(r, "saveRotation")
  /\ \E n \in Unused :
       /\ tokens' = [tokens EXCEPT
                       ![n] = [tenant |-> req[r].tenant, session |-> req[r].sess,
                               parent |-> req[r].tok, revoked |-> FALSE]]
       /\ req' = [req EXCEPT ![r].pc = "respondToken", ![r].tok = n]
  /\ UNCHANGED <<sessions, held, fails>>

\* save([existing, next]): one transaction, and no second look at existing.
RotateSave(r) ==
  /\ At(r, "saveRotation")
  /\ \E n \in Unused :
       /\ tokens' = [tokens EXCEPT
                       ![req[r].tok].revoked = TRUE,
                       ![n] = [tenant |-> req[r].tenant, session |-> req[r].sess,
                               parent |-> req[r].tok, revoked |-> FALSE]]
       /\ req' = [req EXCEPT ![r].pc = "respondToken", ![r].tok = n]
  /\ UNCHANGED <<sessions, held, fails>>

(***************************************************************************)
(* issueSession, called by the authorization_code grant once the code is   *)
(* consumed (module CodeExchange models what comes before).                *)
(***************************************************************************)
\* sessionRepo.save(session): the first of two saves.
IssueSaveSession(r, ten, u) ==
  /\ At(r, "idle")
  /\ PoolHasRoom
  /\ \E s \in Sessions :
       /\ sessions[s] = Null
       /\ sessions' = [sessions EXCEPT ![s] = [tenant |-> ten, user |-> u]]
       /\ req' = [req EXCEPT ![r] = [Idle EXCEPT !.pc = "issueToken", !.tenant = ten,
                                                 !.user = u, !.sess = s]]
  /\ UNCHANGED <<tokens, held, fails>>

\* Mutant: the token row is built before save() has filled in session.id.
IssueSaveTokenFirst(r) ==
  /\ At(r, "issueToken")
  /\ \E n \in Unused :
       /\ tokens' = [tokens EXCEPT
                       ![n] = [tenant |-> req[r].tenant, session |-> Null,
                               parent |-> Null, revoked |-> FALSE]]
       /\ req' = [req EXCEPT ![r].pc = "respondToken", ![r].tok = n]
  /\ UNCHANGED <<sessions, held, fails>>

\* refreshRepo.save(rt): the second save, in a transaction of its own.
IssueSaveToken(r) ==
  /\ At(r, "issueToken")
  /\ \E n \in Unused :
       /\ tokens' = [tokens EXCEPT
                       ![n] = [tenant |-> req[r].tenant, session |-> req[r].sess,
                               parent |-> Null, revoked |-> FALSE]]
       /\ req' = [req EXCEPT ![r].pc = "respondToken", ![r].tok = n]
  /\ UNCHANGED <<sessions, held, fails>>

\* Roles, permissions, signing and the audit row succeeded: the client gets
\* the access token and the new refresh token.
RespondToken(r) ==
  /\ At(r, "respondToken")
  /\ held' = held \cup {req[r].tok}
  /\ req' = [req EXCEPT ![r] = Idle]
  /\ UNCHANGED <<sessions, tokens, fails>>

(***************************************************************************)
(* POST /revoke and the GraphQL mutation revokeSession.  An access-token   *)
(* hint, an unknown token, a session of another tenant and an actor who is *)
(* neither the user nor an admin change no row.                            *)
(***************************************************************************)
RevokeFind(r, ctx, t) ==
  /\ At(r, "idle")
  /\ t \in held /\ Stored(t)
  /\ ctx = Null \/ tokens[t].tenant = ctx
  /\ req' = [req EXCEPT ![r] = [Idle EXCEPT !.pc = "revoke", !.sess = tokens[t].session,
                                            !.tok = t]]
  /\ UNCHANGED <<sessions, tokens, held, fails>>

RevokeSessionFind(r, ten, s, actor) ==
  /\ At(r, "idle")
  /\ sessions[s] # Null /\ sessions[s].tenant = ten
  /\ sessions[s].user = actor \/ <<ten, actor>> \in Admins
  /\ req' = [req EXCEPT ![r] = [Idle EXCEPT !.pc = "revoke", !.sess = s]]
  /\ UNCHANGED <<sessions, tokens, held, fails>>

RevokeUpdate(r) ==
  /\ At(r, "revoke")
  /\ tokens' = ChainRevoked(req[r].sess)
  /\ req' = [req EXCEPT ![r].pc = "respondRevoke"]
  /\ UNCHANGED <<sessions, held, fails>>

RespondRevoke(r) ==
  /\ At(r, "respondRevoke")
  /\ req' = [req EXCEPT ![r] = Idle]
  /\ UNCHANGED <<sessions, tokens, held, fails>>

(***************************************************************************)
(* The environment: a statement throws, the process dies or the reply is   *)
(* lost.  Time is no part of the model: the code compares no expiresAt of  *)
(* a refresh token with anything.                                          *)
(***************************************************************************)
Fail(r) ==
  /\ ~At(r, "idle")
  /\ fails < MaxFails
  /\ req' = [req EXCEPT ![r] = Idle]
  /\ fails' = fails + 1
  /\ UNCHANGED <<sessions, tokens, held>>

(***************************************************************************)
(* Specification                                                           *)
(***************************************************************************)
Init ==
  /\ sessions = [s \in Sessions |-> Null]
  /\ tokens = [t \in Tokens |-> Null]
  /\ req = [r \in Requests |-> Idle]
  /\ held = {}
  /\ fails = 0

\* A request's first statement.
Arrive(r) ==
  \/ \E ten \in Tenants, t \in Tokens : RefreshReadLive(r, ten, t)
  \/ \E ten \in Tenants, t \in Tokens : RefreshReadRevoked(r, ten, t)
  \/ \E ten \in Tenants, u \in Users : IssueSaveSession(r, ten, u)
  \/ \E ctx \in Tenants \cup {Null}, t \in Tokens : RevokeFind(r, ctx, t)
  \/ \E ten \in Tenants, s \in Sessions, actor \in Users : RevokeSessionFind(r, ten, s, actor)

\* Every later statement of a request.
Advance(r) ==
  \/ ReuseRevoke(r)
  \/ LoadSession(r)
  \/ RotateSave(r)
  \/ IssueSaveToken(r)
  \/ RespondToken(r)
  \/ RevokeUpdate(r)
  \/ RespondRevoke(r)

Next == \E r \in Requests : Arrive(r) \/ Advance(r) \/ Fail(r)

Spec == Init /\ [][Next]_vars

\* The event loop and the database finish every statement they started; no
\* client has to send anything.
Fairness == \A r \in Requests : WF_vars(Advance(r))

FairSpec == Spec /\ Fairness

(***************************************************************************)
(* Invariants                                                              *)
(***************************************************************************)

\* Every table, request and counter has the shape its column types give it.
TypeOK ==
  /\ sessions \in [Sessions -> SessionRow \cup {Null}]
  /\ tokens \in [Tokens -> TokenRow \cup {Null}]
  /\ req \in [Requests -> Request]
  /\ held \subseteq Tokens
  /\ fails \in Nat

\* The rows a rotation leaves behind form trees inside one session, and every
\* token that has a successor is revoked: whatever requests overlap or die,
\* rotateRefreshToken never commits the new row without retiring the old one.
SuccessorRetiresParent ==
  \A t \in Tokens : Stored(t) /\ tokens[t].parent # Null =>
    LET p == tokens[t].parent IN
    /\ Stored(p) /\ tokens[p].revoked
    /\ tokens[p].session = tokens[t].session

\* A token row has the tenant of its session, although rotate writes the
\* tenant of the request and loads the session by id alone.
TenantOfSession ==
  \A t \in Tokens : Stored(t) =>
    LET s == tokens[t].session IN
    /\ sessions[s] # Null
    /\ tokens[t].tenant = sessions[s].tenant

\* What a request read from the tables before an await is still true when it
\* uses it, although nothing locks the rows: the token a rotation holds has the
\* request's tenant and session (it may have been revoked since), the user it
\* copied is the session's, and every session it names is stored.
SnapshotsStayTrue ==
  \A r \in Requests :
    LET q == req[r] IN
    /\ q.pc # "idle" => q.sess \in Sessions /\ sessions[q.sess] # Null
    /\ q.pc \in {"loadSession", "saveRotation"} =>
         /\ q.tok \in Tokens /\ Stored(q.tok)
         /\ tokens[q.tok].session = q.sess /\ tokens[q.tok].tenant = q.tenant
    /\ q.pc \in {"saveRotation", "issueToken"} =>
         sessions[q.sess] = [tenant |-> q.tenant, user |-> q.user]

\* The claims of the access token about to be signed (sub, org_id, sid) and
\* the refresh token beside it all belong to one stored session.
ClaimsMatchSession ==
  \A r \in Requests : At(r, "respondToken") =>
    LET q == req[r] IN
    /\ sessions[q.sess] = [tenant |-> q.tenant, user |-> q.user]
    /\ q.tok \in Tokens /\ Stored(q.tok) /\ tokens[q.tok].session = q.sess

\* A session has two usable refresh tokens only if two of its tokens are
\* successors of the same one, that is if two refreshes of one token overlapped.
\* Replays, lost replies and requests that die half way are never enough.
LiveTokensFork ==
  \A t1, t2 \in Tokens :
    Live(t1) /\ Live(t2) /\ t1 # t2 /\ tokens[t1].session = tokens[t2].session =>
      \E a, b \in Tokens :
        /\ Stored(a) /\ Stored(b) /\ a # b
        /\ tokens[a].session = tokens[t1].session
        /\ tokens[a].parent # Null /\ tokens[a].parent = tokens[b].parent

(***************************************************************************)
(* Refinement                                                              *)
(***************************************************************************)

\* A session is open while it has a live token or a request in flight could
\* still store one.
SessionOpen(s) ==
  \/ \E t \in Tokens : Live(t) /\ tokens[t].session = s
  \/ \E r \in Requests : Holds(r, s)

SessionLife ==
  [s \in Sessions |-> CASE sessions[s] = Null -> "none"
                        [] sessions[s] # Null /\ SessionOpen(s) -> "open"
                        [] sessions[s] # Null /\ ~SessionOpen(s) -> "closed"]

Lifecycle == INSTANCE SessionLifecycle WITH life <- SessionLife

\* A session with no live token and no rotation in flight is closed for good:
\* no token it ever had, replayed in any order, brings it back.
ImplementsLifecycle == Lifecycle!Spec

(***************************************************************************)
(* Liveness (under FairSpec)                                               *)
(***************************************************************************)

\* Once a reuse has been detected, every token its session has at that moment
\* is eventually revoked, provided no request dies (MaxFails = 0).
ReuseEventuallyRevokes ==
  \A r \in Requests, t \in Tokens :
    (At(r, "reuse") /\ OfSession(t, req[r].sess)) ~> (Stored(t) /\ tokens[t].revoked)

(***************************************************************************)
(* What the documentation says and the code does not do                    *)
(***************************************************************************)

\* session.entity.ts: "One session holds multiple refresh tokens (rotation
\* chain)": a chain does not fork.
RotationIsAChain ==
  \A t1, t2 \in Tokens :
    /\ Stored(t1) /\ Stored(t2)
    /\ tokens[t1].parent # Null /\ tokens[t1].parent = tokens[t2].parent
    => t1 = t2

\* MODULE_DOC: POST /revoke answers after "Revoke all RTs for session".  A
\* request of the mutation revokeSession presents no token.
RevokedWhenAnswered ==
  [][\A r \in Requests : RespondRevoke(r) /\ req[r].tok # Null =>
       ~\E t \in Tokens : Live(t) /\ tokens[t].session = req[r].sess]_vars

=============================================================================
