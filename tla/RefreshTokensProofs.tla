------------------------- MODULE RefreshTokensProofs -------------------------
(***************************************************************************)
(* Proofs about RefreshTokens, for any sets of tenants, users, sessions,   *)
(* tokens and requests.  The inductive invariant is the conjunction of the *)
(* invariants the model checker runs: TenantOfSession needs                *)
(* SnapshotsStayTrue (a rotation writes the tenant and the session it      *)
(* remembers), which needs TenantOfSession (a session loaded by id has the *)
(* tenant the token was found under), and both need the types.             *)
(***************************************************************************)
EXTENDS RefreshTokens, TLAPS

IInv == /\ TypeOK
        /\ SuccessorRetiresParent
        /\ TenantOfSession
        /\ SnapshotsStayTrue
        /\ ClaimsMatchSession

USE NullAssumption, BoundsAssumption

LEMMA InitInv == Init => IInv
  BY DEF Init, IInv, TypeOK, SuccessorRetiresParent, TenantOfSession, SnapshotsStayTrue,
         ClaimsMatchSession, Stored, At, Idle, Request, PCs

(***************************************************************************)
(* Steps that change only req: a row read, a reply, a request that dies.   *)
(***************************************************************************)
LEMMA ReadLiveInv ==
  ASSUME IInv, NEW r \in Requests, NEW ten \in Tenants, NEW t \in Tokens,
         RefreshReadLive(r, ten, t)
  PROVE  IInv'
<1>1. TypeOK'
  BY DEF IInv, TypeOK, RefreshReadLive, Request, PCs, Idle, Live, Stored, TokenRow
<1>2. SuccessorRetiresParent' /\ TenantOfSession'
  BY DEF IInv, RefreshReadLive, SuccessorRetiresParent, TenantOfSession, Stored
<1>3. SnapshotsStayTrue'
  BY DEF IInv, TypeOK, RefreshReadLive, SnapshotsStayTrue, TenantOfSession, Request, PCs, Idle,
         Live, Stored, TokenRow
<1>4. ClaimsMatchSession'
  BY DEF IInv, TypeOK, RefreshReadLive, ClaimsMatchSession, Stored, At, Idle
<1>. QED BY <1>1, <1>2, <1>3, <1>4 DEF IInv

LEMMA ReadRevokedInv ==
  ASSUME IInv, NEW r \in Requests, NEW ten \in Tenants, NEW t \in Tokens,
         RefreshReadRevoked(r, ten, t)
  PROVE  IInv'
<1>1. TypeOK'
  BY DEF IInv, TypeOK, RefreshReadRevoked, Request, PCs, Idle, Live, Stored, TokenRow
<1>2. SuccessorRetiresParent' /\ TenantOfSession'
  BY DEF IInv, RefreshReadRevoked, SuccessorRetiresParent, TenantOfSession, Stored
<1>3. SnapshotsStayTrue'
  BY DEF IInv, TypeOK, RefreshReadRevoked, SnapshotsStayTrue, TenantOfSession, Request, PCs,
         Idle, Live, Stored, TokenRow
<1>4. ClaimsMatchSession'
  BY DEF IInv, TypeOK, RefreshReadRevoked, ClaimsMatchSession, Stored, At, Idle
<1>. QED BY <1>1, <1>2, <1>3, <1>4 DEF IInv

LEMMA RevokeFindInv ==
  ASSUME IInv, NEW r \in Requests, NEW ctx \in Tenants \cup {Null}, NEW t \in Tokens,
         RevokeFind(r, ctx, t)
  PROVE  IInv'
<1>1. TypeOK'
  BY DEF IInv, TypeOK, RevokeFind, Request, PCs, Idle, Live, Stored, TokenRow
<1>2. SuccessorRetiresParent' /\ TenantOfSession'
  BY DEF IInv, RevokeFind, SuccessorRetiresParent, TenantOfSession, Stored
<1>3. SnapshotsStayTrue'
  BY DEF IInv, TypeOK, RevokeFind, SnapshotsStayTrue, TenantOfSession, Request, PCs, Idle,
         Live, Stored, TokenRow
<1>4. ClaimsMatchSession'
  BY DEF IInv, TypeOK, RevokeFind, ClaimsMatchSession, Stored, At, Idle
<1>. QED BY <1>1, <1>2, <1>3, <1>4 DEF IInv

LEMMA RevokeSessionFindInv ==
  ASSUME IInv, NEW r \in Requests, NEW ten \in Tenants, NEW s \in Sessions, NEW actor \in Users,
         RevokeSessionFind(r, ten, s, actor)
  PROVE  IInv'
<1>1. TypeOK'
  BY DEF IInv, TypeOK, RevokeSessionFind, Request, PCs, Idle
<1>2. SuccessorRetiresParent' /\ TenantOfSession'
  BY DEF IInv, RevokeSessionFind, SuccessorRetiresParent, TenantOfSession, Stored
<1>3. SnapshotsStayTrue'
  BY DEF IInv, TypeOK, RevokeSessionFind, SnapshotsStayTrue, Request, PCs, Idle, Stored
<1>4. ClaimsMatchSession'
  BY DEF IInv, TypeOK, RevokeSessionFind, ClaimsMatchSession, Stored, At, Idle
<1>. QED BY <1>1, <1>2, <1>3, <1>4 DEF IInv

LEMMA LoadSessionInv ==
  ASSUME IInv, NEW r \in Requests, LoadSession(r)
  PROVE  IInv'
<1> DEFINE q == req[r]
           q2 == [q EXCEPT !.pc = "saveRotation", !.user = sessions[q.sess].user]
<1>1. /\ q \in Request /\ q.pc = "loadSession"
      /\ q.sess \in Sessions /\ sessions[q.sess] # Null /\ sessions[q.sess] \in SessionRow
      /\ q.tok \in Tokens /\ Stored(q.tok)
      /\ tokens[q.tok].session = q.sess /\ tokens[q.tok].tenant = q.tenant
  BY DEF IInv, TypeOK, SnapshotsStayTrue, LoadSession, At
<1>2. sessions[q.sess].user \in Users
  BY <1>1 DEF SessionRow
<1>3. req' = [req EXCEPT ![r] = q2] /\ UNCHANGED <<sessions, tokens, held, fails>>
  BY <1>1 DEF LoadSession
<1>4. /\ q2 \in Request /\ q2.pc = "saveRotation" /\ q2.user = sessions[q.sess].user
      /\ q2.sess = q.sess /\ q2.tok = q.tok /\ q2.tenant = q.tenant
  BY <1>1, <1>2 DEF Request, PCs
<1>5. req'[r] = q2 /\ \A x \in Requests : x # r => req'[x] = req[x]
  BY <1>3 DEF IInv, TypeOK
<1>6. TypeOK'
  BY <1>3, <1>4 DEF IInv, TypeOK
<1>7. SuccessorRetiresParent' /\ TenantOfSession'
  BY <1>3 DEF IInv, SuccessorRetiresParent, TenantOfSession, Stored
<1>8. SnapshotsStayTrue'
  <2>1. sessions[q.sess].tenant = q.tenant
    BY <1>1 DEF IInv, TenantOfSession
  <2>2. sessions[q.sess] = [tenant |-> q.tenant, user |-> sessions[q.sess].user]
    BY <1>1, <2>1 DEF SessionRow
  <2>. QED BY <1>1, <1>3, <1>4, <1>5, <2>2 DEF IInv, SnapshotsStayTrue, Stored
<1>9. ClaimsMatchSession'
  BY <1>3, <1>4, <1>5 DEF IInv, ClaimsMatchSession, Stored, At
<1>. QED BY <1>6, <1>7, <1>8, <1>9 DEF IInv

LEMMA RespondTokenInv ==
  ASSUME IInv, NEW r \in Requests, RespondToken(r)
  PROVE  IInv'
<1>1. req[r].tok \in Tokens
  BY DEF IInv, ClaimsMatchSession, TypeOK, RespondToken, Request, At, Stored
<1>2. TypeOK'
  BY <1>1 DEF IInv, TypeOK, RespondToken, Request, PCs, Idle
<1>3. SuccessorRetiresParent' /\ TenantOfSession'
  BY DEF IInv, RespondToken, SuccessorRetiresParent, TenantOfSession, Stored
<1>4. SnapshotsStayTrue' /\ ClaimsMatchSession'
  BY DEF IInv, TypeOK, RespondToken, SnapshotsStayTrue, ClaimsMatchSession, Stored, At, Idle
<1>. QED BY <1>2, <1>3, <1>4 DEF IInv

LEMMA RespondRevokeInv ==
  ASSUME IInv, NEW r \in Requests, RespondRevoke(r)
  PROVE  IInv'
<1>1. TypeOK'
  BY DEF IInv, TypeOK, RespondRevoke, Request, PCs, Idle
<1>2. SuccessorRetiresParent' /\ TenantOfSession'
  BY DEF IInv, RespondRevoke, SuccessorRetiresParent, TenantOfSession, Stored
<1>3. SnapshotsStayTrue' /\ ClaimsMatchSession'
  BY DEF IInv, TypeOK, RespondRevoke, SnapshotsStayTrue, ClaimsMatchSession, Stored, At, Idle
<1>. QED BY <1>1, <1>2, <1>3 DEF IInv

LEMMA FailInv ==
  ASSUME IInv, NEW r \in Requests, Fail(r)
  PROVE  IInv'
<1>1. TypeOK'
  BY DEF IInv, TypeOK, Fail, Request, PCs, Idle
<1>2. SuccessorRetiresParent' /\ TenantOfSession'
  BY DEF IInv, Fail, SuccessorRetiresParent, TenantOfSession, Stored
<1>3. SnapshotsStayTrue' /\ ClaimsMatchSession'
  BY DEF IInv, TypeOK, Fail, SnapshotsStayTrue, ClaimsMatchSession, Stored, At, Idle
<1>. QED BY <1>1, <1>2, <1>3 DEF IInv

(***************************************************************************)
(* The UPDATE of a chain keeps every column but revoked_at, and never      *)
(* clears that one.                                                        *)
(***************************************************************************)
LEMMA ChainRevokedRows ==
  ASSUME tokens \in [Tokens -> TokenRow \cup {Null}], NEW s, NEW t \in Tokens
  PROVE  LET row == ChainRevoked(s)[t] IN
         /\ row \in TokenRow \cup {Null}
         /\ row # Null <=> tokens[t] # Null
         /\ tokens[t] # Null => /\ row.tenant = tokens[t].tenant
                                /\ row.session = tokens[t].session
                                /\ row.parent = tokens[t].parent
                                /\ tokens[t].revoked => row.revoked
                                /\ tokens[t].session = s => row.revoked
                                /\ tokens[t].session # s => row = tokens[t]
<1>1. CASE OfSession(t, s)
  <2>1. tokens[t] \in TokenRow
    BY <1>1 DEF OfSession, Stored
  <2>2. ChainRevoked(s)[t] = [tokens[t] EXCEPT !.revoked = TRUE]
    BY <1>1 DEF ChainRevoked
  <2>. QED BY <1>1, <2>1, <2>2 DEF TokenRow, OfSession, Stored
<1>2. CASE ~OfSession(t, s)
  <2>1. ChainRevoked(s)[t] = tokens[t]
    BY <1>2 DEF ChainRevoked
  <2>. QED BY <1>2, <2>1 DEF OfSession, Stored
<1>. QED BY <1>1, <1>2

LEMMA ChainRevokedKeepsRows ==
  ASSUME IInv, NEW s, tokens' = ChainRevoked(s), sessions' = sessions
  PROVE  /\ tokens' \in [Tokens -> TokenRow \cup {Null}]
         /\ SuccessorRetiresParent'
         /\ TenantOfSession'
<1>1. tokens \in [Tokens -> TokenRow \cup {Null}]
  BY DEF IInv, TypeOK
<1>2. \A t \in Tokens : tokens[t] # Null => tokens[t] \in TokenRow
  BY <1>1
<1>3. \A t \in Tokens :
        /\ tokens'[t] \in TokenRow \cup {Null}
        /\ tokens'[t] # Null <=> tokens[t] # Null
        /\ tokens[t] # Null => /\ tokens'[t].tenant = tokens[t].tenant
                               /\ tokens'[t].session = tokens[t].session
                               /\ tokens'[t].parent = tokens[t].parent
                               /\ tokens[t].revoked => tokens'[t].revoked
  BY <1>1, ChainRevokedRows
<1>4. tokens' \in [Tokens -> TokenRow \cup {Null}]
  BY <1>3 DEF ChainRevoked
<1>5. SuccessorRetiresParent'
  BY <1>2, <1>3 DEF IInv, SuccessorRetiresParent, Stored, TokenRow
<1>6. TenantOfSession'
  BY <1>3 DEF IInv, TenantOfSession, Stored
<1>. QED BY <1>4, <1>5, <1>6

LEMMA ReuseRevokeInv ==
  ASSUME IInv, NEW r \in Requests, ReuseRevoke(r)
  PROVE  IInv'
<1>1. /\ tokens' \in [Tokens -> TokenRow \cup {Null}]
      /\ SuccessorRetiresParent' /\ TenantOfSession'
  BY ChainRevokedKeepsRows DEF ReuseRevoke
<1>2. \A t \in Tokens : tokens[t] # Null =>
        /\ tokens'[t] # Null
        /\ tokens'[t].tenant = tokens[t].tenant /\ tokens'[t].session = tokens[t].session
  BY ChainRevokedRows DEF ReuseRevoke, IInv, TypeOK
<1>3. TypeOK'
  BY <1>1 DEF IInv, TypeOK, ReuseRevoke, Request, PCs, Idle
<1>4. SnapshotsStayTrue' /\ ClaimsMatchSession'
  BY <1>2 DEF IInv, TypeOK, ReuseRevoke, SnapshotsStayTrue, ClaimsMatchSession, Stored, At, Idle,
              Request
<1>. QED BY <1>1, <1>3, <1>4 DEF IInv

LEMMA RevokeUpdateInv ==
  ASSUME IInv, NEW r \in Requests, RevokeUpdate(r)
  PROVE  IInv'
<1>1. /\ tokens' \in [Tokens -> TokenRow \cup {Null}]
      /\ SuccessorRetiresParent' /\ TenantOfSession'
  BY ChainRevokedKeepsRows DEF RevokeUpdate
<1>2. \A t \in Tokens : tokens[t] # Null =>
        /\ tokens'[t] # Null
        /\ tokens'[t].tenant = tokens[t].tenant /\ tokens'[t].session = tokens[t].session
  BY ChainRevokedRows DEF RevokeUpdate, IInv, TypeOK
<1>3. TypeOK'
  BY <1>1 DEF IInv, TypeOK, RevokeUpdate, Request, PCs
<1>4. SnapshotsStayTrue' /\ ClaimsMatchSession'
  BY <1>2 DEF IInv, TypeOK, RevokeUpdate, SnapshotsStayTrue, ClaimsMatchSession, Stored, At,
              Request, PCs
<1>. QED BY <1>1, <1>3, <1>4 DEF IInv

(***************************************************************************)
(* Steps that store a row.                                                 *)
(***************************************************************************)
LEMMA IssueSaveSessionInv ==
  ASSUME IInv, NEW r \in Requests, NEW ten \in Tenants, NEW u \in Users,
         IssueSaveSession(r, ten, u)
  PROVE  IInv'
<1>1. PICK s \in Sessions :
        /\ sessions[s] = Null
        /\ sessions' = [sessions EXCEPT ![s] = [tenant |-> ten, user |-> u]]
        /\ req' = [req EXCEPT ![r] = [Idle EXCEPT !.pc = "issueToken", !.tenant = ten,
                                                  !.user = u, !.sess = s]]
  BY DEF IssueSaveSession
<1>2. [tenant |-> ten, user |-> u] \in SessionRow
  BY DEF SessionRow
<1>3. UNCHANGED <<tokens, held, fails>>
  BY DEF IssueSaveSession
<1>4. TypeOK'
  BY <1>1, <1>2, <1>3 DEF IInv, TypeOK, Request, PCs, Idle
<1>5. SuccessorRetiresParent' /\ TenantOfSession'
  BY <1>1, <1>3 DEF IInv, TypeOK, SuccessorRetiresParent, TenantOfSession, Stored, TokenRow
<1>6. SnapshotsStayTrue'
  BY <1>1, <1>2, <1>3 DEF IInv, TypeOK, SnapshotsStayTrue, Stored, Idle, Request, PCs
<1>7. ClaimsMatchSession'
  <2>1. \A q \in Requests : At(q, "respondToken")' => q # r /\ At(q, "respondToken")
    BY <1>1 DEF IInv, TypeOK, At, Idle
  <2>2. \A q \in Requests : q # r => req'[q] = req[q]
    BY <1>1 DEF IInv, TypeOK
  <2>3. \A q \in Requests : At(q, "respondToken") =>
          sessions[req[q].sess] # Null /\ req[q].sess \in Sessions
    BY DEF IInv, SnapshotsStayTrue, At
  <2>. QED BY <1>1, <1>3, <2>1, <2>2, <2>3 DEF IInv, TypeOK, ClaimsMatchSession, Stored
<1>. QED BY <1>4, <1>5, <1>6, <1>7 DEF IInv

LEMMA IssueSaveTokenInv ==
  ASSUME IInv, NEW r \in Requests, IssueSaveToken(r)
  PROVE  IInv'
<1> DEFINE row == [tenant |-> req[r].tenant, session |-> req[r].sess,
                   parent |-> Null, revoked |-> FALSE]
<1>1. PICK n \in Unused : /\ tokens' = [tokens EXCEPT ![n] = row]
                          /\ req' = [req EXCEPT ![r].pc = "respondToken", ![r].tok = n]
  BY DEF IssueSaveToken
<1>2. n \in Tokens /\ tokens[n] = Null
  BY DEF Unused, Stored
<1>3. UNCHANGED <<sessions, held, fails>>
  BY DEF IssueSaveToken
<1>4. /\ req[r].sess \in Sessions
      /\ sessions[req[r].sess] = [tenant |-> req[r].tenant, user |-> req[r].user]
      /\ sessions[req[r].sess] \in SessionRow
  BY DEF IInv, TypeOK, SnapshotsStayTrue, IssueSaveToken, At, Request
<1>5. req[r].tenant \in Tenants /\ req[r].user \in Users
  BY <1>4 DEF SessionRow
<1>6. /\ row \in TokenRow /\ row # Null
      /\ row.tenant = req[r].tenant /\ row.session = req[r].sess /\ row.parent = Null
  <2>1. row \in TokenRow
    BY <1>4, <1>5 DEF TokenRow
  <2>. QED BY <2>1
<1> HIDE DEF row
<1>7. /\ tokens'[n] = row
      /\ \A t \in Tokens : t # n => tokens'[t] = tokens[t]
  BY <1>1, <1>2 DEF IInv, TypeOK
<1>8. TypeOK'
  <2>1. tokens' \in [Tokens -> TokenRow \cup {Null}]
    BY <1>1, <1>6 DEF IInv, TypeOK
  <2>2. [req[r] EXCEPT !.pc = "respondToken", !.tok = n] \in Request
    <3>1. req[r] \in Request
      BY DEF IInv, TypeOK
    <3>. QED BY <1>2, <3>1 DEF Request, PCs
  <2>3. req' \in [Requests -> Request]
    BY <1>1, <2>2 DEF IInv, TypeOK
  <2>. QED BY <1>3, <2>1, <2>3 DEF IInv, TypeOK
<1>9. SuccessorRetiresParent'
  BY <1>2, <1>6, <1>7 DEF IInv, SuccessorRetiresParent, Stored, TypeOK, TokenRow
<1>10. TenantOfSession'
  BY <1>3, <1>4, <1>6, <1>7 DEF IInv, TenantOfSession, Stored, SessionRow
<1>11. SnapshotsStayTrue'
  BY <1>1, <1>2, <1>3, <1>4, <1>7 DEF IInv, TypeOK, SnapshotsStayTrue, Stored, Request, PCs
<1>12. ClaimsMatchSession'
  BY <1>1, <1>2, <1>3, <1>4, <1>6, <1>7 DEF IInv, TypeOK, ClaimsMatchSession, Stored, At, Request
<1>. QED BY <1>8, <1>9, <1>10, <1>11, <1>12 DEF IInv

LEMMA RotateSaveInv ==
  ASSUME IInv, NEW r \in Requests, RotateSave(r)
  PROVE  IInv'
<1> DEFINE old == req[r].tok
           row == [tenant |-> req[r].tenant, session |-> req[r].sess,
                   parent |-> old, revoked |-> FALSE]
<1>1. PICK n \in Unused : /\ tokens' = [tokens EXCEPT ![old].revoked = TRUE, ![n] = row]
                          /\ req' = [req EXCEPT ![r].pc = "respondToken", ![r].tok = n]
  BY DEF RotateSave
<1>2. n \in Tokens /\ tokens[n] = Null
  BY DEF Unused, Stored
<1>3. UNCHANGED <<sessions, held, fails>>
  BY DEF RotateSave
<1>4. /\ req[r].sess \in Sessions
      /\ sessions[req[r].sess] = [tenant |-> req[r].tenant, user |-> req[r].user]
      /\ sessions[req[r].sess] \in SessionRow
      /\ old \in Tokens /\ Stored(old) /\ tokens[old] \in TokenRow
      /\ tokens[old].session = req[r].sess /\ tokens[old].tenant = req[r].tenant
  BY DEF IInv, TypeOK, SnapshotsStayTrue, RotateSave, At, Request, Stored
<1>5. req[r].tenant \in Tenants /\ req[r].user \in Users
  BY <1>4 DEF SessionRow
<1>6. /\ row \in TokenRow /\ row # Null /\ n # old
      /\ row.tenant = req[r].tenant /\ row.session = req[r].sess /\ row.parent = old
  <2>1. row \in TokenRow
    BY <1>4, <1>5 DEF TokenRow
  <2>. QED BY <1>2, <1>4, <2>1 DEF Stored
<1> HIDE DEF row, old
<1>7. /\ tokens'[n] = row
      /\ tokens'[old] = [tokens[old] EXCEPT !.revoked = TRUE]
      /\ \A t \in Tokens : t # n /\ t # old => tokens'[t] = tokens[t]
  BY <1>1, <1>2, <1>4, <1>6 DEF IInv, TypeOK
<1>8. /\ tokens'[old] \in TokenRow /\ tokens'[old] # Null /\ tokens'[old].revoked
      /\ tokens'[old].session = tokens[old].session
      /\ tokens'[old].tenant = tokens[old].tenant
      /\ tokens'[old].parent = tokens[old].parent
  BY <1>4, <1>7 DEF TokenRow
<1>9. tokens' \in [Tokens -> TokenRow \cup {Null}]
  <2>1. \A t \in Tokens : tokens'[t] \in TokenRow \cup {Null}
    BY <1>6, <1>7, <1>8 DEF IInv, TypeOK
  <2>. QED BY <1>1, <2>1 DEF IInv, TypeOK
<1>10. TypeOK'
  <2>2. [req[r] EXCEPT !.pc = "respondToken", !.tok = n] \in Request
    <3>1. req[r] \in Request
      BY DEF IInv, TypeOK
    <3>. QED BY <1>2, <3>1 DEF Request, PCs
  <2>3. req' \in [Requests -> Request]
    BY <1>1, <2>2 DEF IInv, TypeOK
  <2>. QED BY <1>3, <1>9, <2>3 DEF IInv, TypeOK
<1>11. SuccessorRetiresParent'
  <2>1. \A t \in Tokens : tokens[t] # Null =>
          /\ tokens'[t] # Null /\ tokens'[t].session = tokens[t].session
          /\ tokens'[t].parent = tokens[t].parent
          /\ tokens[t].revoked => tokens'[t].revoked
    BY <1>2, <1>7, <1>8
  <2>2. row.parent = old /\ row.session = tokens[old].session
    BY <1>4, <1>6
  <2>3. \A t \in Tokens : tokens[t] # Null => tokens[t].parent \in Tokens \cup {Null}
    BY DEF IInv, TypeOK, TokenRow
  <2>4. \A t \in Tokens : tokens'[t] # Null => t = n \/ tokens[t] # Null
    BY <1>4, <1>7 DEF Stored
  <2>5. SUFFICES ASSUME NEW t \in Tokens, tokens'[t] # Null, tokens'[t].parent # Null
                 PROVE  LET p == tokens'[t].parent IN
                        tokens'[p] # Null /\ tokens'[p].revoked
                        /\ tokens'[p].session = tokens'[t].session
    BY DEF SuccessorRetiresParent, Stored
  <2>6. CASE t = n
    BY <1>7, <1>8, <2>2, <2>6
  <2>7. CASE tokens[t] # Null
    <3> DEFINE p == tokens[t].parent
    <3>1. p \in Tokens /\ tokens'[t].parent = p
      BY <2>1, <2>3, <2>5, <2>7
    <3>2. tokens[p] # Null /\ tokens[p].revoked /\ tokens[p].session = tokens[t].session
      BY <2>5, <2>7, <3>1 DEF IInv, SuccessorRetiresParent, Stored
    <3>. QED BY <2>1, <2>7, <3>1, <3>2
  <2>. QED BY <2>4, <2>5, <2>6, <2>7
<1>12. TenantOfSession'
  <2>1. sessions[req[r].sess] # Null /\ sessions[req[r].sess].tenant = req[r].tenant
    BY <1>4
  <2>2. \A t \in Tokens : tokens[t] # Null =>
          /\ sessions[tokens[t].session] # Null
          /\ tokens[t].tenant = sessions[tokens[t].session].tenant
    BY DEF IInv, TenantOfSession, Stored
  <2>3. \A t \in Tokens : tokens[t] # Null =>
          tokens'[t].session = tokens[t].session /\ tokens'[t].tenant = tokens[t].tenant
    BY <1>2, <1>7, <1>8
  <2>4. \A t \in Tokens : tokens'[t] # Null => t = n \/ tokens[t] # Null
    BY <1>4, <1>7 DEF Stored
  <2>. QED BY <1>3, <1>6, <1>7, <2>1, <2>2, <2>3, <2>4 DEF TenantOfSession, Stored
<1>13. SnapshotsStayTrue'
  <2>1. \A q \in Requests : q # r => req'[q] = req[q]
    BY <1>1 DEF IInv, TypeOK
  <2>2. req'[r].pc = "respondToken" /\ req'[r].sess = req[r].sess
    BY <1>1 DEF IInv, TypeOK, Request
  <2>3. \A t \in Tokens : tokens[t] # Null =>
          /\ tokens'[t] # Null /\ tokens'[t].session = tokens[t].session
          /\ tokens'[t].tenant = tokens[t].tenant
    BY <1>2, <1>7, <1>8
  <2>. QED BY <1>3, <1>4, <2>1, <2>2, <2>3 DEF IInv, SnapshotsStayTrue, Stored
<1>14. ClaimsMatchSession'
  <2>1. \A q \in Requests : q # r => req'[q] = req[q]
    BY <1>1 DEF IInv, TypeOK
  <2>2. /\ req'[r].tok = n /\ req'[r].sess = req[r].sess
        /\ req'[r].tenant = req[r].tenant /\ req'[r].user = req[r].user
    BY <1>1 DEF IInv, TypeOK, Request
  <2>3. \A q \in Requests : At(q, "respondToken") => req[q].tok \in Tokens
    BY DEF IInv, ClaimsMatchSession, TypeOK, Request, Stored
  <2>4. \A t \in Tokens : tokens[t] # Null =>
          tokens'[t] # Null /\ tokens'[t].session = tokens[t].session
    BY <1>2, <1>7, <1>8
  <2>. QED BY <1>2, <1>3, <1>4, <1>6, <1>7, <2>1, <2>2, <2>3, <2>4
           DEF IInv, ClaimsMatchSession, Stored, At
<1>. QED BY <1>10, <1>11, <1>12, <1>13, <1>14 DEF IInv

(***************************************************************************)
(* The inductive invariant                                                 *)
(***************************************************************************)
LEMMA ArriveInv ==
  ASSUME IInv, NEW r \in Requests, Arrive(r)
  PROVE  IInv'
BY ReadLiveInv, ReadRevokedInv, IssueSaveSessionInv, RevokeFindInv, RevokeSessionFindInv DEF Arrive

LEMMA AdvanceInv ==
  ASSUME IInv, NEW r \in Requests, Advance(r)
  PROVE  IInv'
BY ReuseRevokeInv, LoadSessionInv, RotateSaveInv, IssueSaveTokenInv, RespondTokenInv,
   RevokeUpdateInv, RespondRevokeInv DEF Advance

LEMMA NextInv == IInv /\ [Next]_vars => IInv'
<1>. SUFFICES ASSUME IInv, [Next]_vars PROVE IInv'
  OBVIOUS
<1>1. ASSUME NEW r \in Requests, Arrive(r) PROVE IInv'
  BY <1>1, ArriveInv
<1>2. ASSUME NEW r \in Requests, Advance(r) PROVE IInv'
  BY <1>2, AdvanceInv
<1>3. ASSUME NEW r \in Requests, Fail(r) PROVE IInv'
  BY <1>3, FailInv
<1>4. CASE UNCHANGED vars
  BY <1>4 DEF IInv, TypeOK, SuccessorRetiresParent, TenantOfSession, SnapshotsStayTrue,
              ClaimsMatchSession, Stored, At, vars
<1>. QED BY <1>1, <1>2, <1>3, <1>4 DEF Next

\* The tables, the requests and the counters keep their types: every row a
\* statement writes has its columns filled from values of the right kind.
THEOREM TypeCorrect == Spec => []TypeOK
<1>1. IInv => TypeOK
  BY DEF IInv
<1>. QED BY InitInv, NextInv, <1>1, PTL DEF Spec

\* Any number of overlapping and dying rotations leave trees of rows in which
\* every token that has a successor is revoked and of the same session.
THEOREM SuccessorRetiresParentAlways == Spec => []SuccessorRetiresParent
<1>1. IInv => SuccessorRetiresParent
  BY DEF IInv
<1>. QED BY InitInv, NextInv, <1>1, PTL DEF Spec

\* No token row ever carries a tenant other than its session's.
THEOREM TenantOfSessionAlways == Spec => []TenantOfSession
<1>1. IInv => TenantOfSession
  BY DEF IInv
<1>. QED BY InitInv, NextInv, <1>1, PTL DEF Spec

\* What a request read before an await is still true when it uses it.
THEOREM SnapshotsStayTrueAlways == Spec => []SnapshotsStayTrue
<1>1. IInv => SnapshotsStayTrue
  BY DEF IInv
<1>. QED BY InitInv, NextInv, <1>1, PTL DEF Spec

\* The subject, tenant and session signed into an access token, and the
\* refresh token issued with it, always belong to one stored session.
THEOREM ClaimsMatchSessionAlways == Spec => []ClaimsMatchSession
<1>1. IInv => ClaimsMatchSession
  BY DEF IInv
<1>. QED BY InitInv, NextInv, <1>1, PTL DEF Spec

(***************************************************************************)
(* Refinement.  A step changes the life of at most one session; LifeStep   *)
(* says which changes of that session the abstract module allows.          *)
(***************************************************************************)
OthersKeepLife(s0) ==
  \A s \in Sessions : s # s0 => /\ sessions'[s] = sessions[s]
                                /\ SessionOpen(s)' <=> SessionOpen(s)

LEMMA LifeStep ==
  ASSUME NEW s0 \in Sessions, OthersKeepLife(s0), sessions'[s0] # Null,
         \/ sessions[s0] = Null /\ SessionOpen(s0)'
         \/ sessions[s0] # Null /\ SessionOpen(s0)
         \/ sessions[s0] # Null /\ ~SessionOpen(s0) /\ ~SessionOpen(s0)'
  PROVE  [Lifecycle!Next]_SessionLife
<1>1. \A s \in Sessions : s # s0 => SessionLife'[s] = SessionLife[s]
  BY DEF OthersKeepLife, SessionLife
<1>2. /\ SessionLife = [s \in Sessions |-> SessionLife[s]]
      /\ SessionLife' = [s \in Sessions |-> SessionLife'[s]]
  BY DEF SessionLife
<1>3. SessionLife' = [SessionLife EXCEPT ![s0] = SessionLife'[s0]]
  BY <1>1, <1>2
<1>4. \/ SessionLife[s0] = "none" /\ SessionLife'[s0] = "open"
      \/ SessionLife[s0] = "open" /\ SessionLife'[s0] = "closed"
      \/ SessionLife'[s0] = SessionLife[s0]
  BY DEF SessionLife
<1>5. CASE SessionLife'[s0] = SessionLife[s0]
  BY <1>1, <1>2, <1>5
<1>6. CASE SessionLife[s0] = "none" /\ SessionLife'[s0] = "open"
  BY <1>3, <1>6 DEF Lifecycle!Next, Lifecycle!Open
<1>7. CASE SessionLife[s0] = "open" /\ SessionLife'[s0] = "closed"
  BY <1>3, <1>7 DEF Lifecycle!Next, Lifecycle!Close
<1>. QED BY <1>4, <1>5, <1>6, <1>7

LEMMA LifeUnchanged ==
  ASSUME sessions' = sessions, \A s \in Sessions : SessionOpen(s)' <=> SessionOpen(s)
  PROVE  [Lifecycle!Next]_SessionLife
BY DEF SessionLife

\* A step that writes no table and neither starts nor ends holding a token.
LEMMA NoHolderStep ==
  ASSUME IInv, NEW r \in Requests, sessions' = sessions, tokens' = tokens,
         \A x \in Requests : x # r => req'[x] = req[x],
         \A s \in Sessions : Holds(r, s)' <=> Holds(r, s)
  PROVE  [Lifecycle!Next]_SessionLife
<1>1. \A s \in Sessions : SessionOpen(s)' <=> SessionOpen(s)
  BY DEF SessionOpen, Holds, Live, Stored
<1>. QED BY <1>1, LifeUnchanged

LEMMA ReadLiveLife ==
  ASSUME IInv, NEW r \in Requests, NEW ten \in Tenants, NEW t \in Tokens,
         RefreshReadLive(r, ten, t)
  PROVE  [Lifecycle!Next]_SessionLife
<1> DEFINE s0 == tokens[t].session
<1>1. s0 \in Sessions /\ sessions[s0] # Null
  BY DEF IInv, TypeOK, TenantOfSession, RefreshReadLive, Live, Stored, TokenRow
<1>2. SessionOpen(s0)
  BY DEF SessionOpen, RefreshReadLive
<1>3. OthersKeepLife(s0)
  <2>1. \A x \in Requests, s \in Sessions : s # s0 => (Holds(x, s)' <=> Holds(x, s))
    BY DEF IInv, TypeOK, RefreshReadLive, Holds, At, Idle
  <2>. QED BY <2>1 DEF OthersKeepLife, SessionOpen, RefreshReadLive, Live, Stored
<1>. QED BY <1>1, <1>2, <1>3, LifeStep DEF RefreshReadLive

LEMMA LoadSessionLife ==
  ASSUME IInv, NEW r \in Requests, LoadSession(r)
  PROVE  [Lifecycle!Next]_SessionLife
<1>1. sessions[req[r].sess] # Null
  BY DEF IInv, SnapshotsStayTrue, LoadSession, At
<1>2. req' = [req EXCEPT ![r] = [req[r] EXCEPT !.pc = "saveRotation",
                                               !.user = sessions[req[r].sess].user]]
  BY <1>1 DEF LoadSession
<1>3. \A x \in Requests : x # r => req'[x] = req[x]
  BY <1>2 DEF IInv, TypeOK
<1>4. req[r].pc = "loadSession" /\ req'[r].pc = "saveRotation" /\ req'[r].sess = req[r].sess
  <2>1. req[r] \in Request /\ req[r].pc = "loadSession"
    BY DEF IInv, TypeOK, LoadSession, At
  <2>2. req'[r] = [req[r] EXCEPT !.pc = "saveRotation", !.user = sessions[req[r].sess].user]
    BY <1>2 DEF IInv, TypeOK
  <2>. QED BY <2>1, <2>2 DEF Request
<1>5. \A s \in Sessions : Holds(r, s)' <=> Holds(r, s)
  BY <1>4 DEF Holds
<1>. QED BY <1>3, <1>5, NoHolderStep DEF LoadSession

LEMMA FailLife ==
  ASSUME IInv, NEW r \in Requests, Fail(r)
  PROVE  [Lifecycle!Next]_SessionLife
<1> DEFINE s0 == req[r].sess
<1>1. s0 \in Sessions /\ sessions[s0] # Null
  BY DEF IInv, SnapshotsStayTrue, Fail, At
<1>2. req'[r] = Idle /\ \A x \in Requests : x # r => req'[x] = req[x]
  BY DEF IInv, TypeOK, Fail
<1>3. \A s \in Sessions : ~Holds(r, s)'
  BY <1>2 DEF Holds, Idle
<1>4. CASE Holds(r, s0)
  <2>1. SessionOpen(s0)
    BY <1>4 DEF SessionOpen
  <2>2. OthersKeepLife(s0)
    BY <1>2, <1>3 DEF OthersKeepLife, SessionOpen, Fail, Live, Stored, Holds
  <2>. QED BY <1>1, <2>1, <2>2, LifeStep DEF Fail
<1>5. CASE ~Holds(r, s0)
  <2>1. \A s \in Sessions : ~Holds(r, s)
    BY <1>5 DEF Holds
  <2>. QED BY <1>2, <1>3, <2>1, NoHolderStep DEF Fail
<1>. QED BY <1>4, <1>5

\* The two UPDATEs of a chain.
LEMMA ChainRevokedLife ==
  ASSUME IInv, NEW r \in Requests, NEW s0 \in Sessions, sessions[s0] # Null,
         tokens' = ChainRevoked(s0), sessions' = sessions,
         \A x \in Requests : x # r => req'[x] = req[x],
         \A s \in Sessions : ~Holds(r, s) /\ ~Holds(r, s)'
  PROVE  [Lifecycle!Next]_SessionLife
<1>1. \A t \in Tokens :
        /\ tokens'[t] # Null <=> tokens[t] # Null
        /\ tokens[t] # Null => /\ tokens'[t].session = tokens[t].session
                               /\ tokens[t].session = s0 => tokens'[t].revoked
                               /\ tokens[t].session # s0 => tokens'[t] = tokens[t]
  BY ChainRevokedRows DEF IInv, TypeOK
<1>2. \A s \in Sessions : (\E x \in Requests : Holds(x, s))' <=> \E x \in Requests : Holds(x, s)
  BY DEF Holds
<1>3. OthersKeepLife(s0)
  BY <1>1, <1>2 DEF OthersKeepLife, SessionOpen, Live, Stored
<1>4. SessionOpen(s0)' => SessionOpen(s0)
  BY <1>1, <1>2 DEF SessionOpen, Live, Stored
<1>. QED BY <1>3, <1>4, LifeStep

LEMMA ReuseRevokeLife ==
  ASSUME IInv, NEW r \in Requests, ReuseRevoke(r)
  PROVE  [Lifecycle!Next]_SessionLife
<1>1. req[r].sess \in Sessions /\ sessions[req[r].sess] # Null
  BY DEF IInv, SnapshotsStayTrue, ReuseRevoke, At
<1>2. req'[r] = Idle /\ \A x \in Requests : x # r => req'[x] = req[x]
  BY DEF IInv, TypeOK, ReuseRevoke
<1>3. \A s \in Sessions : ~Holds(r, s) /\ ~Holds(r, s)'
  BY <1>2 DEF Holds, Idle, ReuseRevoke, At
<1>. QED BY <1>1, <1>2, <1>3, ChainRevokedLife DEF ReuseRevoke

LEMMA RevokeUpdateLife ==
  ASSUME IInv, NEW r \in Requests, RevokeUpdate(r)
  PROVE  [Lifecycle!Next]_SessionLife
<1>1. req[r].sess \in Sessions /\ sessions[req[r].sess] # Null
  BY DEF IInv, SnapshotsStayTrue, RevokeUpdate, At
<1>2. req'[r].pc = "respondRevoke" /\ \A x \in Requests : x # r => req'[x] = req[x]
  BY DEF IInv, TypeOK, RevokeUpdate, Request
<1>3. \A s \in Sessions : ~Holds(r, s) /\ ~Holds(r, s)'
  BY <1>2 DEF Holds, RevokeUpdate, At
<1>. QED BY <1>1, <1>2, <1>3, ChainRevokedLife DEF RevokeUpdate

LEMMA IssueSaveSessionLife ==
  ASSUME IInv, NEW r \in Requests, NEW ten \in Tenants, NEW u \in Users,
         IssueSaveSession(r, ten, u)
  PROVE  [Lifecycle!Next]_SessionLife
<1>1. PICK s0 \in Sessions :
        /\ sessions[s0] = Null
        /\ sessions' = [sessions EXCEPT ![s0] = [tenant |-> ten, user |-> u]]
        /\ req' = [req EXCEPT ![r] = [Idle EXCEPT !.pc = "issueToken", !.tenant = ten,
                                                  !.user = u, !.sess = s0]]
  BY DEF IssueSaveSession
<1>2. [tenant |-> ten, user |-> u] # Null
  <2>1. [tenant |-> ten, user |-> u] \in SessionRow
    BY DEF SessionRow
  <2>. QED BY <2>1
<1>3. sessions'[s0] # Null /\ \A s \in Sessions : s # s0 => sessions'[s] = sessions[s]
  BY <1>1, <1>2 DEF IInv, TypeOK
<1>4. /\ req'[r].pc = "issueToken" /\ req'[r].sess = s0
      /\ \A x \in Requests : x # r => req'[x] = req[x]
  BY <1>1 DEF IInv, TypeOK, Idle
<1>5. SessionOpen(s0)'
  BY <1>4 DEF SessionOpen, Holds
<1>6. OthersKeepLife(s0)
  <2>1. \A x \in Requests, s \in Sessions : s # s0 => (Holds(x, s)' <=> Holds(x, s))
    BY <1>4 DEF Holds, IssueSaveSession, At
  <2>. QED BY <1>3, <2>1 DEF OthersKeepLife, SessionOpen, IssueSaveSession, Live, Stored
<1>. QED BY <1>1, <1>3, <1>5, <1>6, LifeStep

\* The two statements that store a live token for the session they hold.
LEMMA StoreTokenLife ==
  ASSUME IInv, NEW r \in Requests, NEW n \in Tokens, NEW s0 \in Sessions,
         sessions' = sessions, sessions[s0] # Null, Holds(r, s0), tokens[n] = Null,
         tokens'[n] # Null, tokens'[n].session = s0,
         \A t \in Tokens : t # n => \/ tokens'[t] = tokens[t]
                                    \/ /\ tokens[t] # Null /\ tokens'[t] # Null
                                       /\ tokens[t].session = s0 /\ tokens'[t].session = s0,
         \A x \in Requests : x # r => req'[x] = req[x],
         req'[r].pc = "respondToken"
  PROVE  [Lifecycle!Next]_SessionLife
<1>1. SessionOpen(s0)
  BY DEF SessionOpen
<1>2. \A x \in Requests, s \in Sessions : s # s0 => (Holds(x, s)' <=> Holds(x, s))
  BY DEF Holds
<1>3. \A t \in Tokens, s \in Sessions : s # s0 =>
        ((Live(t) /\ tokens[t].session = s)' <=> (Live(t) /\ tokens[t].session = s))
  BY DEF Live, Stored
<1>4. OthersKeepLife(s0)
  BY <1>2, <1>3 DEF OthersKeepLife, SessionOpen
<1>. QED BY <1>1, <1>4, LifeStep

LEMMA IssueSaveTokenLife ==
  ASSUME IInv, NEW r \in Requests, IssueSaveToken(r)
  PROVE  [Lifecycle!Next]_SessionLife
<1> DEFINE s0 == req[r].sess
           row == [tenant |-> req[r].tenant, session |-> s0, parent |-> Null, revoked |-> FALSE]
<1>1. PICK n \in Unused : /\ tokens' = [tokens EXCEPT ![n] = row]
                          /\ req' = [req EXCEPT ![r].pc = "respondToken", ![r].tok = n]
  BY DEF IssueSaveToken
<1>2. n \in Tokens /\ tokens[n] = Null
  BY DEF Unused, Stored
<1>3. s0 \in Sessions /\ sessions[s0] # Null /\ Holds(r, s0)
  BY DEF IInv, SnapshotsStayTrue, IssueSaveToken, At, Holds
<1>4. /\ tokens'[n] # Null /\ tokens'[n].session = s0
      /\ \A t \in Tokens : t # n => tokens'[t] = tokens[t]
  <2>1. tokens'[n] # Null
    <3>1. IInv'
      BY IssueSaveTokenInv
    <3>2. req'[r].pc = "respondToken" /\ req'[r].tok = n
      BY <1>1 DEF IInv, TypeOK, Request
    <3>. QED BY <3>1, <3>2 DEF IInv, ClaimsMatchSession, At, Stored
  <2>2. tokens'[n] = row /\ \A t \in Tokens : t # n => tokens'[t] = tokens[t]
    BY <1>1, <1>2 DEF IInv, TypeOK
  <2>. QED BY <2>1, <2>2
<1>5. req'[r].pc = "respondToken" /\ \A x \in Requests : x # r => req'[x] = req[x]
  BY <1>1 DEF IInv, TypeOK, Request
<1>6. sessions' = sessions
  BY DEF IssueSaveToken
<1> HIDE DEF s0, row
<1>. QED BY <1>2, <1>3, <1>4, <1>5, <1>6, StoreTokenLife

LEMMA RotateSaveLife ==
  ASSUME IInv, NEW r \in Requests, RotateSave(r)
  PROVE  [Lifecycle!Next]_SessionLife
<1> DEFINE s0 == req[r].sess
           old == req[r].tok
           row == [tenant |-> req[r].tenant, session |-> s0, parent |-> old, revoked |-> FALSE]
<1>1. PICK n \in Unused : /\ tokens' = [tokens EXCEPT ![old].revoked = TRUE, ![n] = row]
                          /\ req' = [req EXCEPT ![r].pc = "respondToken", ![r].tok = n]
  BY DEF RotateSave
<1>2. n \in Tokens /\ tokens[n] = Null
  BY DEF Unused, Stored
<1>3. /\ s0 \in Sessions /\ sessions[s0] # Null /\ Holds(r, s0)
      /\ old \in Tokens /\ tokens[old] # Null /\ tokens[old].session = s0
  BY DEF IInv, SnapshotsStayTrue, RotateSave, At, Holds, Stored
<1>4. /\ tokens'[n] = row
      /\ tokens'[old] = [tokens[old] EXCEPT !.revoked = TRUE]
      /\ \A t \in Tokens : t # n /\ t # old => tokens'[t] = tokens[t]
  BY <1>1, <1>2, <1>3 DEF IInv, TypeOK
<1>5. tokens[old] \in TokenRow
  BY <1>3 DEF IInv, TypeOK
<1>6. tokens'[old] \in TokenRow /\ tokens'[old].session = s0
  BY <1>3, <1>4, <1>5 DEF TokenRow
<1>7. req'[r].pc = "respondToken" /\ req'[r].tok = n
  BY <1>1 DEF IInv, TypeOK, Request
<1>8. tokens'[n] # Null
  BY <1>7, RotateSaveInv DEF IInv, ClaimsMatchSession, At, Stored
<1>9. \A x \in Requests : x # r => req'[x] = req[x]
  BY <1>1 DEF IInv, TypeOK
<1>10. tokens'[old] # Null
  BY <1>6
<1>11. tokens'[n].session = s0
  BY <1>4
<1> HIDE DEF s0, old, row
<1>12. sessions' = sessions
  BY DEF RotateSave
<1>13. \A t \in Tokens : t # n => \/ tokens'[t] = tokens[t]
                                  \/ /\ tokens[t] # Null /\ tokens'[t] # Null
                                     /\ tokens[t].session = s0 /\ tokens'[t].session = s0
  BY <1>3, <1>4, <1>6, <1>10
<1>. QED BY <1>2, <1>3, <1>7, <1>8, <1>9, <1>11, <1>12, <1>13, StoreTokenLife

LEMMA NextLife == IInv /\ [Next]_vars => [Lifecycle!Next]_SessionLife
<1>. SUFFICES ASSUME IInv, [Next]_vars PROVE [Lifecycle!Next]_SessionLife
  OBVIOUS
<1>1. ASSUME NEW r \in Requests, Arrive(r) PROVE [Lifecycle!Next]_SessionLife
  <2>1. CASE \E ten \in Tenants, t \in Tokens : RefreshReadLive(r, ten, t)
    BY <2>1, ReadLiveLife
  <2>2. CASE \E ten \in Tenants, u \in Users : IssueSaveSession(r, ten, u)
    BY <2>2, IssueSaveSessionLife
  <2>3. ASSUME /\ At(r, "idle")
               /\ req'[r].pc \in {"reuse", "revoke"}
               /\ \A x \in Requests : x # r => req'[x] = req[x]
               /\ sessions' = sessions /\ tokens' = tokens
        PROVE  [Lifecycle!Next]_SessionLife
    <3>1. \A s \in Sessions : Holds(r, s)' <=> Holds(r, s)
      BY <2>3 DEF Holds, At
    <3>. QED BY <2>3, <3>1, NoHolderStep
  <2>4. CASE \E ten \in Tenants, t \in Tokens : RefreshReadRevoked(r, ten, t)
    <3>1. PICK ten \in Tenants, t \in Tokens : RefreshReadRevoked(r, ten, t)
      BY <2>4
    <3>. QED BY <2>3, <3>1 DEF RefreshReadRevoked, IInv, TypeOK, Idle
  <2>5. CASE \E ctx \in Tenants \cup {Null}, t \in Tokens : RevokeFind(r, ctx, t)
    <3>1. PICK ctx \in Tenants \cup {Null}, t \in Tokens : RevokeFind(r, ctx, t)
      BY <2>5
    <3>. QED BY <2>3, <3>1 DEF RevokeFind, IInv, TypeOK, Idle
  <2>6. CASE \E ten \in Tenants, s \in Sessions, actor \in Users :
               RevokeSessionFind(r, ten, s, actor)
    <3>1. PICK ten \in Tenants, s \in Sessions, actor \in Users :
            RevokeSessionFind(r, ten, s, actor)
      BY <2>6
    <3>. QED BY <2>3, <3>1 DEF RevokeSessionFind, IInv, TypeOK, Idle
  <2>. QED BY <1>1, <2>1, <2>2, <2>4, <2>5, <2>6 DEF Arrive
<1>2. ASSUME NEW r \in Requests, Advance(r) PROVE [Lifecycle!Next]_SessionLife
  <2>1. ASSUME /\ req[r].pc \in {"respondToken", "respondRevoke"}
               /\ req' = [req EXCEPT ![r] = Idle]
               /\ sessions' = sessions /\ tokens' = tokens
        PROVE  [Lifecycle!Next]_SessionLife
    <3>1. req'[r] = Idle /\ \A x \in Requests : x # r => req'[x] = req[x]
      BY <2>1 DEF IInv, TypeOK
    <3>2. \A s \in Sessions : Holds(r, s)' <=> Holds(r, s)
      BY <2>1, <3>1 DEF Holds, Idle
    <3>. QED BY <2>1, <3>1, <3>2, NoHolderStep
  <2>2. CASE RespondToken(r) \/ RespondRevoke(r)
    BY <2>1, <2>2 DEF RespondToken, RespondRevoke, At
  <2>. QED BY <1>2, <2>2, ReuseRevokeLife, LoadSessionLife, RotateSaveLife, IssueSaveTokenLife,
              RevokeUpdateLife DEF Advance
<1>3. ASSUME NEW r \in Requests, Fail(r) PROVE [Lifecycle!Next]_SessionLife
  BY <1>3, FailLife
<1>4. CASE UNCHANGED vars
  BY <1>4, LifeUnchanged DEF vars, SessionOpen, Holds, Live, Stored
<1>. QED BY <1>1, <1>2, <1>3, <1>4 DEF Next

\* Whatever clients replay and however their requests overlap or die, a session
\* with no live token and no rotation in flight never gets a live token again.
THEOREM SessionsImplementLifecycle == Spec => ImplementsLifecycle
<1>1. Init => Lifecycle!Init
  BY DEF Init, Lifecycle!Init, SessionLife
<1>. QED BY <1>1, InitInv, NextInv, NextLife, PTL DEF Spec, ImplementsLifecycle, Lifecycle!Spec

-----------------------------------------------------------------------------
(***************************************************************************)
(* LiveTokensFork.  A live token has no successor, so the proof counts     *)
(* leaves: a rotation of a leaf replaces one leaf by another, and only a   *)
(* rotation of a token that has a successor already adds one, which makes  *)
(* a fork.  A session has its first token stored once, by the one request  *)
(* that stored the session.                                                *)
(***************************************************************************)

Leaf(t) == Stored(t) /\ \A c \in Tokens : Stored(c) => tokens[c].parent # t

\* Two tokens of session s are successors of the same token.
Fork(s) ==
  \E a, b \in Tokens : /\ OfSession(a, s) /\ OfSession(b, s) /\ a # b
                       /\ tokens[a].parent # Null /\ tokens[a].parent = tokens[b].parent

\* A request about to store a session's first token is alone to do so, and the
\* session has no token yet.
FirstTokenOnce ==
  \A r \in Requests : At(r, "issueToken") =>
    /\ \A t \in Tokens : ~OfSession(t, req[r].sess)
    /\ \A x \in Requests : At(x, "issueToken") /\ req[x].sess = req[r].sess => x = r

LeavesFork ==
  \A s \in Sessions, t1, t2 \in Tokens :
    Leaf(t1) /\ Leaf(t2) /\ t1 # t2 /\ OfSession(t1, s) /\ OfSession(t2, s) => Fork(s)

ForkInv == IInv /\ FirstTokenOnce /\ LeavesFork

\* Every row that is stored stays, with its session and its parent.
RowsStay ==
  \A t \in Tokens : Stored(t) => /\ Stored(t)'
                                 /\ tokens'[t].session = tokens[t].session
                                 /\ tokens'[t].parent = tokens[t].parent

-----------------------------------------------------------------------------

LEMMA InitFork == Init => ForkInv
  BY InitInv DEF Init, ForkInv, FirstTokenOnce, LeavesFork, Leaf, Stored, At, Idle

LEMMA RowsStayKeepsFork ==
  ASSUME RowsStay, NEW s, Fork(s)
  PROVE  Fork(s)'
  BY DEF RowsStay, Fork, OfSession

LEMMA RowsStayLeaf ==
  ASSUME RowsStay, NEW t \in Tokens, Leaf(t)', Stored(t)
  PROVE  Leaf(t)
  BY DEF RowsStay, Leaf

\* A step that stores no token, and after which only requests that were about
\* to store a first token are.
LEMMA NoNewToken ==
  ASSUME ForkInv, RowsStay,
         \A t \in Tokens : Stored(t)' => Stored(t),
         \A x \in Requests : At(x, "issueToken")' =>
            At(x, "issueToken") /\ req'[x].sess = req[x].sess
  PROVE  FirstTokenOnce' /\ LeavesFork'
<1>1. FirstTokenOnce'
  BY DEF ForkInv, FirstTokenOnce, RowsStay, OfSession
<1>2. ASSUME NEW s \in Sessions, NEW t1 \in Tokens, NEW t2 \in Tokens,
             Leaf(t1)', Leaf(t2)', t1 # t2, OfSession(t1, s)', OfSession(t2, s)'
      PROVE  Fork(s)'
  <2>1. Stored(t1) /\ Stored(t2)
    BY <1>2 DEF Leaf
  <2>2. Leaf(t1) /\ Leaf(t2)
    BY <1>2, <2>1, RowsStayLeaf
  <2>3. OfSession(t1, s) /\ OfSession(t2, s)
    BY <1>2, <2>1 DEF RowsStay, OfSession
  <2>4. Fork(s)
    BY <1>2, <2>2, <2>3 DEF ForkInv, LeavesFork
  <2>. QED BY <2>4, RowsStayKeepsFork
<1>. QED BY <1>1, <1>2 DEF LeavesFork

-----------------------------------------------------------------------------
(* The three statements that store rows.                                   *)

LEMMA IssueSaveSessionFork ==
  ASSUME ForkInv, NEW r \in Requests, NEW ten \in Tenants, NEW u \in Users,
         IssueSaveSession(r, ten, u)
  PROVE  FirstTokenOnce' /\ LeavesFork'
<1>1. PICK s0 \in Sessions :
        /\ sessions[s0] = Null
        /\ req' = [req EXCEPT ![r] = [Idle EXCEPT !.pc = "issueToken", !.tenant = ten,
                                                  !.user = u, !.sess = s0]]
  BY DEF IssueSaveSession
<1>2. /\ req'[r].pc = "issueToken" /\ req'[r].sess = s0
      /\ \A x \in Requests : x # r => req'[x] = req[x]
  BY <1>1 DEF ForkInv, IInv, TypeOK, Idle
<1>3. \A t \in Tokens : ~OfSession(t, s0)
  BY <1>1 DEF ForkInv, IInv, TenantOfSession, OfSession
<1>4. \A x \in Requests : At(x, "issueToken") => req[x].sess # s0
  BY <1>1 DEF ForkInv, IInv, SnapshotsStayTrue, At
<1>5. tokens' = tokens
  BY DEF IssueSaveSession
<1>6. FirstTokenOnce'
  BY <1>2, <1>3, <1>4, <1>5 DEF ForkInv, FirstTokenOnce, At, OfSession, Stored
<1>7. LeavesFork'
  BY <1>5 DEF ForkInv, LeavesFork, Leaf, Fork, OfSession, Stored
<1>. QED BY <1>6, <1>7

\* A row n is stored, in a session no request is about to store the first token
\* of.
LEMMA StoreKeepsFirstTokenOnce ==
  ASSUME FirstTokenOnce, NEW r \in Requests, NEW n \in Tokens, NEW s0,
         \A t \in Tokens : t # n /\ Stored(t)' =>
            Stored(t) /\ tokens'[t].session = tokens[t].session,
         tokens'[n].session = s0,
         \A x \in Requests : x # r /\ At(x, "issueToken") => req[x].sess # s0,
         req'[r].pc = "respondToken", \A x \in Requests : x # r => req'[x] = req[x]
  PROVE  FirstTokenOnce'
<1>. SUFFICES ASSUME NEW x \in Requests, At(x, "issueToken")'
              PROVE  /\ \A t \in Tokens : ~OfSession(t, req[x].sess)'
                     /\ \A y \in Requests :
                          (At(y, "issueToken") /\ req[y].sess = req[x].sess)' => y = x
  BY DEF FirstTokenOnce
<1>1. x # r /\ At(x, "issueToken") /\ req'[x] = req[x] /\ req[x].sess # s0
  BY DEF At
<1>2. \A t \in Tokens : ~OfSession(t, req[x].sess)'
  BY <1>1 DEF FirstTokenOnce, OfSession
<1>3. \A y \in Requests : (At(y, "issueToken") /\ req[y].sess = req[x].sess)' => y = x
  BY <1>1 DEF FirstTokenOnce, At
<1>. QED BY <1>2, <1>3

LEMMA IssueSaveTokenFork ==
  ASSUME ForkInv, NEW r \in Requests, IssueSaveToken(r)
  PROVE  FirstTokenOnce' /\ LeavesFork'
<1>1. PICK n \in Unused, s0 \in Sessions :
        /\ s0 = req[r].sess
        /\ tokens' = [tokens EXCEPT ![n] = [tenant |-> req[r].tenant, session |-> s0,
                                            parent |-> Null, revoked |-> FALSE]]
        /\ req' = [req EXCEPT ![r].pc = "respondToken", ![r].tok = n]
  BY DEF IssueSaveToken, ForkInv, IInv, SnapshotsStayTrue, At
<1>2. n \in Tokens /\ tokens[n] = Null
  BY <1>1 DEF Unused, Stored
<1>3. /\ tokens'[n] = [tenant |-> req[r].tenant, session |-> s0, parent |-> Null,
                       revoked |-> FALSE]
      /\ \A t \in Tokens : t # n => tokens'[t] = tokens[t]
      /\ req'[r].pc = "respondToken" /\ \A x \in Requests : x # r => req'[x] = req[x]
  BY <1>1, <1>2 DEF ForkInv, IInv, TypeOK, Request
<1>4. tokens'[n].session = s0 /\ tokens'[n].parent = Null
  BY <1>3
<1>5. \A t \in Tokens : ~OfSession(t, s0)
  BY <1>1 DEF ForkInv, FirstTokenOnce, IssueSaveToken
<1>6. \A x \in Requests : x # r /\ At(x, "issueToken") => req[x].sess # s0
  BY <1>1 DEF ForkInv, FirstTokenOnce, IssueSaveToken
<1>7. FirstTokenOnce'
  BY <1>2, <1>3, <1>4, <1>6, StoreKeepsFirstTokenOnce DEF ForkInv, Stored
<1>8. RowsStay
  BY <1>2, <1>3 DEF RowsStay, Stored
<1>9. LeavesFork'
  <2>1. SUFFICES ASSUME NEW s \in Sessions, NEW t1 \in Tokens, NEW t2 \in Tokens,
                        Leaf(t1)', Leaf(t2)', t1 # t2, OfSession(t1, s)', OfSession(t2, s)'
                 PROVE  Fork(s)'
    BY DEF LeavesFork
  <2>2. t1 # n /\ t2 # n
    BY <2>1, <1>3, <1>4, <1>5 DEF Stored, OfSession
  <2>3. Leaf(t1) /\ Leaf(t2) /\ OfSession(t1, s) /\ OfSession(t2, s)
    <3>1. OfSession(t1, s) /\ OfSession(t2, s)
      BY <2>1, <2>2, <1>3 DEF Stored, OfSession
    <3>. QED BY <3>1, <2>1, <1>8, RowsStayLeaf DEF OfSession
  <2>4. Fork(s)
    BY <2>1, <2>3 DEF ForkInv, LeavesFork
  <2>. QED BY <2>4, <1>8, RowsStayKeepsFork
<1>. QED BY <1>7, <1>9

LEMMA RotateSaveFork ==
  ASSUME ForkInv, NEW r \in Requests, RotateSave(r)
  PROVE  FirstTokenOnce' /\ LeavesFork'
<1>1. PICK n \in Unused, s0 \in Sessions, old \in Tokens :
        /\ s0 = req[r].sess /\ old = req[r].tok
        /\ tokens[old] # Null /\ tokens[old].session = s0
        /\ tokens' = [tokens EXCEPT ![old].revoked = TRUE,
                                    ![n] = [tenant |-> req[r].tenant, session |-> s0,
                                            parent |-> old, revoked |-> FALSE]]
        /\ req' = [req EXCEPT ![r].pc = "respondToken", ![r].tok = n]
  <2>1. PICK n \in Unused :
          /\ tokens' = [tokens EXCEPT
                          ![req[r].tok].revoked = TRUE,
                          ![n] = [tenant |-> req[r].tenant, session |-> req[r].sess,
                                  parent |-> req[r].tok, revoked |-> FALSE]]
          /\ req' = [req EXCEPT ![r].pc = "respondToken", ![r].tok = n]
    BY DEF RotateSave
  <2>2. /\ req[r].sess \in Sessions /\ req[r].tok \in Tokens /\ tokens[req[r].tok] # Null
        /\ tokens[req[r].tok].session = req[r].sess
    BY DEF RotateSave, ForkInv, IInv, SnapshotsStayTrue, At, Stored
  <2>. QED BY <2>1, <2>2
<1>2. n \in Tokens /\ tokens[n] = Null
  BY <1>1 DEF Unused, Stored
<1>3. old # Null
  BY <1>1
<1>4. /\ tokens'[n] = [tenant |-> req[r].tenant, session |-> s0, parent |-> old,
                       revoked |-> FALSE]
      /\ tokens'[old] = [tokens[old] EXCEPT !.revoked = TRUE]
      /\ \A t \in Tokens : t # n /\ t # old => tokens'[t] = tokens[t]
      /\ req'[r].pc = "respondToken" /\ req'[r].tok = n
      /\ \A x \in Requests : x # r => req'[x] = req[x]
  BY <1>1, <1>2, <1>3 DEF ForkInv, IInv, TypeOK, Request
<1>5. tokens'[n].session = s0 /\ tokens'[n].parent = old
  BY <1>4
<1>6. tokens'[n] # Null
  BY <1>4, RotateSaveInv DEF ForkInv, IInv, ClaimsMatchSession, At, Stored
<1>7. /\ tokens'[old] # Null /\ tokens'[old].session = tokens[old].session
      /\ tokens'[old].parent = tokens[old].parent
  <2>1. tokens[old] \in TokenRow
    BY <1>1 DEF ForkInv, IInv, TypeOK
  <2>2. tokens'[old] \in TokenRow
    BY <2>1, <1>4 DEF TokenRow
  <2>. QED BY <2>1, <2>2, <1>4 DEF TokenRow
<1>8. \A x \in Requests : x # r /\ At(x, "issueToken") => req[x].sess # s0
  BY <1>1 DEF ForkInv, FirstTokenOnce, OfSession, Stored
<1>9. /\ RowsStay
      /\ \A t \in Tokens : t # n /\ Stored(t)' =>
            Stored(t) /\ tokens'[t].session = tokens[t].session
  BY <1>1, <1>2, <1>4, <1>7 DEF RowsStay, Stored
<1>10. FirstTokenOnce'
  BY <1>2, <1>4, <1>5, <1>8, <1>9, StoreKeepsFirstTokenOnce DEF ForkInv
<1>11. ASSUME NEW s \in Sessions, NEW t \in Tokens, Leaf(t)', t # n, OfSession(t, s)'
       PROVE  Leaf(t) /\ t # old /\ OfSession(t, s)
  <2>1. OfSession(t, s)
    BY <1>9, <1>11 DEF OfSession
  <2>2. t # old
    BY <1>2, <1>5, <1>6, <1>11 DEF Leaf, Stored
  <2>. QED BY <2>1, <2>2, <1>9, <1>11, RowsStayLeaf DEF OfSession
\* A leaf t of the session besides the new one: either old was a leaf too, or
\* the new token is not its first successor.
<1>12. ASSUME NEW t \in Tokens, Leaf(t)', t # n, OfSession(t, s0)'
       PROVE  Fork(s0)'
  <2>1. Leaf(t) /\ t # old /\ OfSession(t, s0)
    BY <1>11, <1>12
  <2>2. CASE Leaf(old)
    <3>1. Fork(s0)
      BY <2>1, <2>2, <1>1 DEF ForkInv, LeavesFork, OfSession, Stored
    <3>. QED BY <3>1, <1>9, RowsStayKeepsFork
  <2>3. CASE ~Leaf(old)
    <3>1. PICK c \in Tokens : Stored(c) /\ tokens[c].parent = old
      BY <2>3, <1>1 DEF Leaf, Stored
    <3>2. tokens[c].session = s0
      BY <3>1, <1>1, <1>3 DEF ForkInv, IInv, SuccessorRetiresParent
    <3>3. c # n /\ Stored(c)' /\ tokens'[c].session = s0 /\ tokens'[c].parent = old
      BY <3>1, <3>2, <1>2, <1>9 DEF RowsStay, Stored
    <3>4. OfSession(c, s0)' /\ OfSession(n, s0)'
      BY <3>3, <1>5, <1>6 DEF OfSession, Stored
    <3>. QED BY <3>3, <3>4, <1>2, <1>3, <1>5 DEF Fork
  <2>. QED BY <2>2, <2>3
<1>13. LeavesFork'
  <2>1. SUFFICES ASSUME NEW s \in Sessions, NEW t1 \in Tokens, NEW t2 \in Tokens,
                        Leaf(t1)', Leaf(t2)', t1 # t2, OfSession(t1, s)', OfSession(t2, s)'
                 PROVE  Fork(s)'
    BY DEF LeavesFork
  <2>2. CASE t1 = n \/ t2 = n
    <3>1. s = s0
      BY <2>1, <2>2, <1>5 DEF OfSession
    <3>. QED BY <2>1, <2>2, <3>1, <1>12
  <2>3. CASE t1 # n /\ t2 # n
    <3>1. Leaf(t1) /\ OfSession(t1, s) /\ Leaf(t2) /\ OfSession(t2, s)
      BY <2>1, <2>3, <1>11
    <3>2. Fork(s)
      BY <2>1, <3>1 DEF ForkInv, LeavesFork
    <3>. QED BY <3>2, <1>9, RowsStayKeepsFork
  <2>. QED BY <2>2, <2>3
<1>. QED BY <1>10, <1>13

-----------------------------------------------------------------------------
(* Every step, and the theorem.                                            *)

\* The two UPDATEs of a chain.
LEMMA ChainRevokedFork ==
  ASSUME ForkInv, NEW r \in Requests, tokens' = ChainRevoked(req[r].sess),
         req'[r].pc # "issueToken", \A x \in Requests : x # r => req'[x] = req[x]
  PROVE  FirstTokenOnce' /\ LeavesFork'
<1>1. \A t \in Tokens : /\ Stored(t)' <=> Stored(t)
                        /\ Stored(t) => /\ tokens'[t].session = tokens[t].session
                                        /\ tokens'[t].parent = tokens[t].parent
  BY ChainRevokedRows DEF ForkInv, IInv, TypeOK, Stored
<1>2. RowsStay
  BY <1>1 DEF RowsStay
<1>. QED BY <1>1, <1>2, NoNewToken DEF At

LEMMA NextFork == ForkInv /\ [Next]_vars => ForkInv'
<1>. SUFFICES ASSUME ForkInv, [Next]_vars PROVE FirstTokenOnce' /\ LeavesFork'
  BY NextInv DEF ForkInv
<1>1. ASSUME tokens' = tokens, NEW r \in Requests, req'[r].pc # "issueToken",
             \A x \in Requests : x # r => req'[x] = req[x]
      PROVE  FirstTokenOnce' /\ LeavesFork'
  BY <1>1, NoNewToken DEF RowsStay, Stored, At
<1>2. ASSUME NEW r \in Requests, Arrive(r) PROVE FirstTokenOnce' /\ LeavesFork'
  <2>1. CASE \E ten \in Tenants, u \in Users : IssueSaveSession(r, ten, u)
    BY <2>1, IssueSaveSessionFork
  <2>2. CASE \E ten \in Tenants, t \in Tokens : RefreshReadLive(r, ten, t)
    BY <2>2, <1>1 DEF RefreshReadLive, ForkInv, IInv, TypeOK, Idle
  <2>3. CASE \E ten \in Tenants, t \in Tokens : RefreshReadRevoked(r, ten, t)
    BY <2>3, <1>1 DEF RefreshReadRevoked, ForkInv, IInv, TypeOK, Idle
  <2>4. CASE \E ctx \in Tenants \cup {Null}, t \in Tokens : RevokeFind(r, ctx, t)
    BY <2>4, <1>1 DEF RevokeFind, ForkInv, IInv, TypeOK, Idle
  <2>5. CASE \E ten \in Tenants, s \in Sessions, actor \in Users :
               RevokeSessionFind(r, ten, s, actor)
    BY <2>5, <1>1 DEF RevokeSessionFind, ForkInv, IInv, TypeOK, Idle
  <2>. QED BY <1>2, <2>1, <2>2, <2>3, <2>4, <2>5 DEF Arrive
<1>3. ASSUME NEW r \in Requests, Advance(r) PROVE FirstTokenOnce' /\ LeavesFork'
  <2>1. CASE ReuseRevoke(r)
    BY <2>1, ChainRevokedFork DEF ReuseRevoke, ForkInv, IInv, TypeOK, Idle
  <2>2. CASE RevokeUpdate(r)
    BY <2>2, ChainRevokedFork DEF RevokeUpdate, ForkInv, IInv, TypeOK, Request
  <2>3. CASE LoadSession(r)
    <3>1. \/ req'[r] = Idle
          \/ req'[r] = [req[r] EXCEPT !.pc = "saveRotation",
                                      !.user = sessions[req[r].sess].user]
      BY <2>3 DEF LoadSession, ForkInv, IInv, TypeOK
    <3>2. req[r] \in Request
      BY DEF ForkInv, IInv, TypeOK
    <3>3. Idle.pc # "issueToken"
      BY DEF Idle
    <3>4. \A u : [req[r] EXCEPT !.pc = "saveRotation", !.user = u].pc = "saveRotation"
      BY <3>2 DEF Request
    <3>5. req'[r].pc # "issueToken"
      BY <3>1, <3>3, <3>4
    <3>. QED BY <2>3, <3>5, <1>1 DEF LoadSession, ForkInv, IInv, TypeOK
  <2>4. CASE RespondToken(r) \/ RespondRevoke(r)
    BY <2>4, <1>1 DEF RespondToken, RespondRevoke, ForkInv, IInv, TypeOK, Idle
  <2>. QED BY <1>3, <2>1, <2>2, <2>3, <2>4, RotateSaveFork, IssueSaveTokenFork DEF Advance
<1>4. ASSUME NEW r \in Requests, Fail(r) PROVE FirstTokenOnce' /\ LeavesFork'
  BY <1>4, <1>1 DEF Fail, ForkInv, IInv, TypeOK, Idle
<1>5. ASSUME tokens' = tokens, req' = req PROVE FirstTokenOnce' /\ LeavesFork'
  BY <1>5, NoNewToken DEF RowsStay, Stored, At
<1>6. CASE UNCHANGED vars
  BY <1>6, <1>5 DEF vars
<1>. QED BY <1>2, <1>3, <1>4, <1>6 DEF Next

LEMMA LeavesForkEnough == ForkInv => LiveTokensFork
<1>. SUFFICES ASSUME ForkInv, NEW t1 \in Tokens, NEW t2 \in Tokens, Live(t1), Live(t2),
                     t1 # t2, tokens[t1].session = tokens[t2].session
              PROVE  \E a, b \in Tokens :
                       /\ Stored(a) /\ Stored(b) /\ a # b
                       /\ tokens[a].session = tokens[t1].session
                       /\ tokens[a].parent # Null /\ tokens[a].parent = tokens[b].parent
  BY DEF LiveTokensFork
<1>1. \A t \in Tokens : Live(t) => Leaf(t)
  BY DEF ForkInv, IInv, SuccessorRetiresParent, Live, Leaf
<1>2. tokens[t1].session \in Sessions /\ Stored(t1) /\ Stored(t2)
  BY DEF ForkInv, IInv, TypeOK, Live, Stored, TokenRow
<1>3. Fork(tokens[t1].session)
  BY <1>1, <1>2 DEF ForkInv, LeavesFork, OfSession
<1>. QED BY <1>3 DEF Fork, OfSession

\* Whatever clients replay, however requests overlap and die and for any number
\* of them, two usable tokens in one session come from two refreshes of one
\* token that overlapped.
THEOREM LiveTokensForkAlways == Spec => []LiveTokensFork
<1>. QED BY InitFork, NextFork, LeavesForkEnough, PTL DEF Spec

=============================================================================
