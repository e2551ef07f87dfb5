---------------------------- MODULE CodeExchange ----------------------------
(***************************************************************************)
(* Authorization codes, and how POST /token turns one into a session:      *)
(* AuthorizationCodeService composed with RefreshTokens.  Consent stores a *)
(* code; the authorization_code grant reads it, saves it consumed and then *)
(* runs issueSession, whose steps are those of RefreshTokens.              *)
(***************************************************************************)
EXTENDS Naturals, FiniteSets

CONSTANTS Tenants, Users, Sessions, Tokens, Requests, Admins, Null, MaxFails,
          Clients,       \* public clients, each of one tenant
          ClientTenant,  \* [Clients -> Tenants]
          Redirects,     \* redirect URIs
          RedirectUris,  \* [Clients -> SUBSET Redirects], those registered
          Verifiers,     \* PKCE code verifiers
          Methods,       \* PKCE methods in use: "S256", "plain"
          Codes,         \* ids of code rows (and their raw values)
          MaxLapsed,     \* bound: codes that outlive their five minutes
          MaxDropped     \* bound: exchanges that die before issueSession

ASSUME ClientsAssumption ==
  /\ ClientTenant \in [Clients -> Tenants]
  /\ RedirectUris \in [Clients -> SUBSET Redirects]
  /\ Methods \subseteq {"S256", "plain"}

ASSUME BoundsAssumption == MaxLapsed \in Nat /\ MaxDropped \in Nat

VARIABLES sessions, tokens, req, held, fails,  \* as in RefreshTokens
          codes,     \* table authorization_codes
          lapsed,    \* codes whose expiresAt has passed
          exchange,  \* per request: the code it is exchanging, and how far it is
          dropped,   \* exchanges that died before issueSession, so far
          origin,    \* history: the code and the request a session comes from
          contested  \* history: codes read while another exchange of them was under way

rtVars == <<sessions, tokens, req, held, fails>>
history == <<origin, contested>>
vars == <<rtVars, codes, lapsed, exchange, dropped, history>>

RT == INSTANCE RefreshTokens

(***************************************************************************)
(* PKCE.  A challenge is a verifier (method plain) or its digest (S256).   *)
(***************************************************************************)
Challenge(method, v) == IF method = "S256" THEN <<"sha256", v>> ELSE <<"plain", v>>

CodeRow == [client : Clients, user : Users, redirect : Redirects, method : Methods,
            challenge : {Challenge(m, v) : m \in Methods, v \in Verifiers},
            consumed : BOOLEAN]

ASSUME NullCodeAssumption == Null \notin CodeRow \cup Codes

\* "read": consume has read the row and found nothing wrong with it;
\* "consumed": the row is saved, issueSession comes next.
Exchange == [pc : {"none", "read", "consumed"}, code : Codes \cup {Null}]

NoExchange == [pc |-> "none", code |-> Null]

Busy(r) == exchange[r].pc # "none"

(***************************************************************************)
(* Actions                                                                 *)
(***************************************************************************)

\* isRedirectAllowed, for the client resolveClient has found.
RedirectAllowed(cl, red) == red \in RedirectUris[cl]

\* Mutant: codeChallengeMethod is not stored.
IssueCodeNoMethod(cl, u, red, m, v) ==
  \E c \in Codes :
    /\ codes[c] = Null
    /\ codes' = [codes EXCEPT ![c] =
                   [client |-> cl, user |-> u, redirect |-> red, method |-> Null,
                    challenge |-> Challenge(m, v), consumed |-> FALSE]]

\* issue(): a new row, good for five minutes.
IssueCode(cl, u, red, m, v) ==
  \E c \in Codes :
    /\ codes[c] = Null
    /\ codes' = [codes EXCEPT ![c] =
                   [client |-> cl, user |-> u, redirect |-> red, method |-> m,
                    challenge |-> Challenge(m, v), consumed |-> FALSE]]

\* A signed-in user approves on POST /consent, or GET /consent approves for a
\* first-party client.
Consent(cl, u, red, m, v) ==
  /\ RedirectAllowed(cl, red)
  /\ IssueCode(cl, u, red, m, v)
  /\ UNCHANGED <<rtVars, lapsed, exchange, dropped, history>>

\* Bound: a request that will store a token is admitted only while there is one
\* left for it, and an exchange only while there is a session left, too.
RoomForToken ==
  Cardinality({t \in Tokens : tokens[t] = Null}) >
    Cardinality({r \in Requests : Busy(r) \/ req[r].pc \in {"loadSession", "saveRotation",
                                                            "issueToken"}})

RoomForSession ==
  Cardinality({s \in Sessions : sessions[s] = Null}) > Cardinality({r \in Requests : Busy(r)})

\* History: r reads a code that another exchange is busy with.
Contest(r, c) ==
  contested' = IF \E x \in Requests \ {r} : Busy(x) /\ exchange[x].code = c
                 THEN contested \cup {c} ELSE contested

\* Mutant: consumedAt is not looked at.
ReadSpentCode(r, c, cl, red, v) ==
  /\ req[r].pc = "idle" /\ ~Busy(r)
  /\ RoomForToken /\ RoomForSession
  /\ codes[c] # Null /\ codes[c].client = cl
  /\ codes[c].redirect = red
  /\ codes[c].challenge = Challenge(codes[c].method, v)
  /\ exchange' = [exchange EXCEPT ![r] = [pc |-> "read", code |-> c]]
  /\ Contest(r, c)
  /\ UNCHANGED <<rtVars, codes, lapsed, dropped, origin>>

\* consume: findOne, and every check of the row.  A check that fails is
\* answered invalid_grant and changes nothing.
ReadCode(r, c, cl, red, v) ==
  /\ req[r].pc = "idle" /\ ~Busy(r)
  /\ RoomForToken /\ RoomForSession
  /\ codes[c] # Null /\ codes[c].client = cl
  /\ ~codes[c].consumed
  /\ c \notin lapsed
  /\ codes[c].redirect = red
  /\ codes[c].challenge = Challenge(codes[c].method, v)
  /\ exchange' = [exchange EXCEPT ![r] = [pc |-> "read", code |-> c]]
  /\ Contest(r, c)
  /\ UNCHANGED <<rtVars, codes, lapsed, dropped, origin>>

\* Mutant: consume returns without saving the row.
SaveNothing(r) ==
  /\ exchange[r].pc = "read"
  /\ exchange' = [exchange EXCEPT ![r].pc = "consumed"]
  /\ UNCHANGED <<rtVars, codes, lapsed, dropped, history>>

\* consume: save(row), without another look at it.
SaveConsumed(r) ==
  /\ exchange[r].pc = "read"
  /\ codes' = [codes EXCEPT ![exchange[r].code].consumed = TRUE]
  /\ exchange' = [exchange EXCEPT ![r].pc = "consumed"]
  /\ UNCHANGED <<rtVars, lapsed, dropped, history>>

\* Mutant: the exchange answers once the code is consumed.
StopAfterConsume(r) ==
  /\ exchange[r].pc = "consumed"
  /\ exchange' = [exchange EXCEPT ![r] = NoExchange]
  /\ UNCHANGED <<rtVars, codes, lapsed, dropped, history>>

\* issueSession for the code's user in the client's tenant.
IssueSession(r) ==
  LET c == exchange[r].code IN
  /\ exchange[r].pc = "consumed"
  /\ RT!IssueSaveSession(r, ClientTenant[codes[c].client], codes[c].user)
  /\ origin' = [s \in Sessions |-> IF sessions'[s] # sessions[s]
                                   THEN [code |-> c, by |-> r] ELSE origin[s]]
  /\ exchange' = [exchange EXCEPT ![r] = NoExchange]
  /\ UNCHANGED <<codes, lapsed, dropped, contested>>

\* The exchange throws, or its process dies, before the session is stored.
FailExchange(r) ==
  /\ Busy(r) /\ dropped < MaxDropped
  /\ dropped' = dropped + 1
  /\ exchange' = [exchange EXCEPT ![r] = NoExchange]
  /\ UNCHANGED <<rtVars, codes, lapsed, history>>

\* Five minutes pass.  Of a code that is consumed, nobody can tell.
Lapse(c) ==
  /\ codes[c] # Null /\ ~codes[c].consumed /\ c \notin lapsed
  /\ Cardinality(lapsed) < MaxLapsed
  /\ lapsed' = lapsed \cup {c}
  /\ UNCHANGED <<rtVars, codes, exchange, dropped, history>>

\* Everything else a request does: the steps of RefreshTokens.
OtherArrival(r) ==
  /\ ~Busy(r)
  /\ \/ \E ten \in Tenants, t \in Tokens : RoomForToken /\ RT!RefreshReadLive(r, ten, t)
     \/ \E ten \in Tenants, t \in Tokens : RT!RefreshReadRevoked(r, ten, t)
     \/ \E ctx \in Tenants \cup {Null}, t \in Tokens : RT!RevokeFind(r, ctx, t)
     \/ \E ten \in Tenants, s \in Sessions, actor \in Users :
          RT!RevokeSessionFind(r, ten, s, actor)
  /\ UNCHANGED <<codes, lapsed, exchange, dropped, history>>

SessionStep(r) ==
  /\ RT!Advance(r) \/ RT!Fail(r)
  /\ UNCHANGED <<codes, lapsed, exchange, dropped, history>>

(***************************************************************************)
(* Specification                                                           *)
(***************************************************************************)
Init ==
  /\ RT!Init
  /\ codes = [c \in Codes |-> Null]
  /\ lapsed = {}
  /\ exchange = [r \in Requests |-> NoExchange]
  /\ dropped = 0
  /\ origin = [s \in Sessions |-> Null]
  /\ contested = {}

Next ==
  \/ \E cl \in Clients, u \in Users, red \in Redirects, m \in Methods, v \in Verifiers :
       Consent(cl, u, red, m, v)
  \/ \E r \in Requests, c \in Codes, cl \in Clients, red \in Redirects, v \in Verifiers :
       ReadCode(r, c, cl, red, v)
  \/ \E r \in Requests : \/ SaveConsumed(r)
                         \/ IssueSession(r)
                         \/ FailExchange(r)
                         \/ OtherArrival(r)
                         \/ SessionStep(r)
  \/ \E c \in Codes : Lapse(c)

Spec == Init /\ [][Next]_vars

\* A request that has been let in runs its next statement to its end.
Continue(r) == SaveConsumed(r) \/ IssueSession(r) \/ SessionStep(r)

Fairness == \A r \in Requests : WF_vars(Continue(r))

FairSpec == Spec /\ Fairness

(***************************************************************************)
(* Properties                                                              *)
(***************************************************************************)

\* The codes, the exchanges and the history keep their types.
TypeOK ==
  /\ codes \in [Codes -> CodeRow \cup {Null}]
  /\ lapsed \subseteq Codes
  /\ exchange \in [Requests -> Exchange]
  /\ dropped \in 0..MaxDropped
  /\ origin \in [Sessions -> [code : Codes, by : Requests] \cup {Null}]
  /\ contested \subseteq Codes

\* A session exists only for a code that is spent, whichever requests died: a
\* code is never still redeemable once it has produced a session.
SessionsSpendCodes ==
  \A s \in Sessions : sessions[s] # Null =>
    LET c == origin[s].code IN
    /\ codes[c].consumed
    /\ sessions[s] = [tenant |-> ClientTenant[codes[c].client], user |-> codes[c].user]

\* A code yields at most one session for each request that was in flight when
\* it was first redeemed; with one request at a time, at most one in all.
OneSessionPerRequest ==
  \A s1, s2 \in Sessions :
    (sessions[s1] # Null /\ sessions[s2] # Null /\ origin[s1] = origin[s2]) => s1 = s2

\* A code yields a second session only if an exchange read it while another was
\* busy with it: consumedAt, read and set in two statements, refuses every
\* exchange that comes later, whatever lapsed, failed or was refreshed since.
OneSessionUnlessContested ==
  \A s1, s2 \in Sessions :
    (sessions[s1] # Null /\ sessions[s2] # Null /\ origin[s1].code = origin[s2].code)
      => s1 = s2 \/ origin[s1].code \in contested

\* A reuse that has been detected revokes every token its session has at that
\* moment, also when the session comes from a code and exchanges go on.
ReuseEventuallyRevokes == RT!ReuseEventuallyRevokes

\* A code that has been consumed gets its session, unless an exchange dies.
ConsumedYieldsSession ==
  \A c \in Codes :
    (codes[c] # Null /\ codes[c].consumed) ~>
      (dropped > 0 \/ \E s \in Sessions : origin[s] # Null /\ origin[s].code = c)

=============================================================================
