-------------------------- MODULE CodeExchangeProofs --------------------------
(***************************************************************************)
(* Proofs about CodeExchange, for any clients, codes, verifiers, sessions  *)
(* and requests in flight.                                                 *)
(*                                                                         *)
(* The properties speak of sessions; what makes them true happens before   *)
(* there is one.  The invariant follows an exchange from the row it read   *)
(* (ExchangesKnow) to the session it stores (Originated), and says that a  *)
(* request is never half way through a second exchange of a code it has    *)
(* made a session of (NotAgain): by then the row is consumed.              *)
(***************************************************************************)
EXTENDS CodeExchange, TLAPS

SessionRow == [tenant : Tenants, user : Users]

SessionsTyped == sessions \in [Sessions -> SessionRow \cup {Null}]

ExchangesKnow ==
  \A r \in Requests : Busy(r) =>
    LET c == exchange[r].code IN
    /\ c \in Codes /\ codes[c] # Null
    /\ exchange[r].pc = "consumed" => codes[c].consumed

Originated ==
  \A s \in Sessions : sessions[s] # Null =>
    /\ origin[s] \in [code : Codes, by : Requests]
    /\ codes[origin[s].code] # Null

NotAgain ==
  \A r \in Requests, s \in Sessions :
    Busy(r) /\ sessions[s] # Null => origin[s] # [code |-> exchange[r].code, by |-> r]

IInv == /\ TypeOK /\ SessionsTyped /\ ExchangesKnow /\ Originated
        /\ SessionsSpendCodes /\ NotAgain /\ OneSessionPerRequest

USE ClientsAssumption, BoundsAssumption, NullCodeAssumption

-----------------------------------------------------------------------------

\* No step takes a code away, or changes its client, its user or that it has
\* been consumed.
CodesKept ==
  \A c \in Codes : codes[c] # Null =>
    /\ codes'[c] # Null
    /\ codes'[c].client = codes[c].client /\ codes'[c].user = codes[c].user
    /\ codes[c].consumed => codes'[c].consumed

LEMMA InitInvariant == Init => IInv
<1> SUFFICES ASSUME Init PROVE IInv
  OBVIOUS
<1>1. /\ sessions = [s \in Sessions |-> Null]
      /\ codes = [c \in Codes |-> Null]
      /\ lapsed = {}
      /\ exchange = [r \in Requests |-> NoExchange]
      /\ dropped = 0
      /\ origin = [s \in Sessions |-> Null]
      /\ contested = {}
  BY DEF Init, RT!Init
<1>2. NoExchange \in Exchange /\ NoExchange.pc = "none"
  BY DEF NoExchange, Exchange
<1>3. TypeOK /\ SessionsTyped
  BY <1>1, <1>2 DEF TypeOK, SessionsTyped
<1>4. ExchangesKnow /\ NotAgain
  BY <1>1, <1>2 DEF ExchangesKnow, NotAgain, Busy
<1>5. Originated /\ SessionsSpendCodes /\ OneSessionPerRequest
  BY <1>1 DEF Originated, SessionsSpendCodes, OneSessionPerRequest
<1> QED BY <1>3, <1>4, <1>5 DEF IInv

\* A step that stores no session: codes may be added or consumed, and an
\* exchange may begin, go on or end.
LEMMA ExchangeStep ==
  ASSUME IInv, UNCHANGED <<sessions, origin>>,
         CodesKept, codes' \in [Codes -> CodeRow \cup {Null}],
         exchange' \in [Requests -> Exchange],
         lapsed' \subseteq Codes, dropped' \in 0..MaxDropped, contested' \subseteq Codes,
         \A r \in Requests :
           exchange'[r] # exchange[r] /\ exchange'[r].pc # "none" =>
             LET c == exchange'[r].code IN
             /\ c \in Codes /\ codes'[c] # Null
             /\ exchange'[r].pc = "consumed" => codes'[c].consumed
             /\ \A s \in Sessions : sessions[s] # Null => origin[s] # [code |-> c, by |-> r]
  PROVE  IInv'
<1>0. TypeOK /\ SessionsTyped /\ ExchangesKnow /\ Originated /\ SessionsSpendCodes
      /\ NotAgain /\ OneSessionPerRequest
  BY DEF IInv
<1>1. TypeOK' /\ SessionsTyped'
  BY <1>0 DEF TypeOK, SessionsTyped
<1>2. ExchangesKnow'
  <2> SUFFICES ASSUME NEW r \in Requests, exchange'[r].pc # "none"
               PROVE  LET c == exchange'[r].code IN
                      /\ c \in Codes /\ codes'[c] # Null
                      /\ exchange'[r].pc = "consumed" => codes'[c].consumed
    BY DEF ExchangesKnow, Busy
  <2>1. CASE exchange'[r] = exchange[r]
    BY <2>1, <1>0 DEF ExchangesKnow, Busy, CodesKept
  <2>2. CASE exchange'[r] # exchange[r]
    BY <2>2
  <2> QED BY <2>1, <2>2
<1>3. \A s \in Sessions : sessions[s] # Null => origin[s].code \in Codes /\ codes[origin[s].code] # Null
  BY <1>0 DEF Originated
<1>4. Originated'
  BY <1>0, <1>3 DEF Originated, CodesKept
<1>5. SessionsSpendCodes'
  BY <1>0, <1>3 DEF SessionsSpendCodes, CodesKept
<1>6. NotAgain'
  <2> SUFFICES ASSUME NEW r \in Requests, NEW s \in Sessions,
                      exchange'[r].pc # "none", sessions[s] # Null
               PROVE  origin[s] # [code |-> exchange'[r].code, by |-> r]
    BY DEF NotAgain, Busy
  <2>1. CASE exchange'[r] = exchange[r]
    BY <2>1, <1>0 DEF NotAgain, Busy
  <2>2. CASE exchange'[r] # exchange[r]
    BY <2>2
  <2> QED BY <2>1, <2>2
<1>7. OneSessionPerRequest'
  BY <1>0 DEF OneSessionPerRequest
<1> QED BY <1>1, <1>2, <1>4, <1>5, <1>6, <1>7 DEF IInv

LEMMA ConsentInvariant ==
  ASSUME IInv, NEW cl \in Clients, NEW u \in Users, NEW red \in Redirects,
         NEW m \in Methods, NEW v \in Verifiers, Consent(cl, u, red, m, v)
  PROVE  IInv'
<1> DEFINE row == [client |-> cl, user |-> u, redirect |-> red, method |-> m,
                   challenge |-> Challenge(m, v), consumed |-> FALSE]
<1>1. PICK c \in Codes : codes[c] = Null /\ codes' = [codes EXCEPT ![c] = row]
  BY DEF Consent, IssueCode
<1>2. row \in CodeRow
  BY DEF CodeRow
<1> HIDE DEF row
<1>3. /\ codes \in [Codes -> CodeRow \cup {Null}]
      /\ UNCHANGED <<sessions, origin, exchange, lapsed, dropped, contested>>
      /\ exchange \in [Requests -> Exchange] /\ lapsed \subseteq Codes
      /\ dropped \in 0..MaxDropped /\ contested \subseteq Codes
  BY DEF Consent, rtVars, history, IInv, TypeOK
<1>4. CodesKept /\ codes' \in [Codes -> CodeRow \cup {Null}]
  BY <1>1, <1>2, <1>3 DEF CodesKept
<1> QED BY <1>3, <1>4, ExchangeStep

LEMMA ReadCodeInvariant ==
  ASSUME IInv, NEW r \in Requests, NEW c \in Codes, NEW cl \in Clients,
         NEW red \in Redirects, NEW v \in Verifiers, ReadCode(r, c, cl, red, v)
  PROVE  IInv'
<1>0. TypeOK /\ SessionsSpendCodes
  BY DEF IInv
<1>1. /\ codes[c] # Null /\ ~codes[c].consumed
      /\ exchange' = [exchange EXCEPT ![r] = [pc |-> "read", code |-> c]]
      /\ UNCHANGED <<sessions, origin, codes, lapsed, dropped>>
  BY DEF ReadCode, rtVars
<1>2. [pc |-> "read", code |-> c] \in Exchange
  BY DEF Exchange
<1>3. /\ exchange' \in [Requests -> Exchange]
      /\ exchange'[r] = [pc |-> "read", code |-> c]
      /\ \A x \in Requests : x # r => exchange'[x] = exchange[x]
  BY <1>0, <1>1, <1>2 DEF TypeOK
<1>4. CodesKept /\ codes' \in [Codes -> CodeRow \cup {Null}] /\ lapsed' \subseteq Codes
      /\ dropped' \in 0..MaxDropped /\ contested' \subseteq Codes
  BY <1>0, <1>1 DEF CodesKept, TypeOK, ReadCode, Contest
<1>5. \A s \in Sessions : sessions[s] # Null => origin[s] # [code |-> c, by |-> r]
  <2> SUFFICES ASSUME NEW s \in Sessions, sessions[s] # Null, origin[s].code = c PROVE FALSE
    OBVIOUS
  <2>1. codes[origin[s].code].consumed
    BY <1>0 DEF SessionsSpendCodes
  <2> QED BY <2>1, <1>1
<1> QED BY <1>1, <1>3, <1>4, <1>5, ExchangeStep

\* The row consume saves.
LEMMA ConsumedRow ==
  ASSUME NEW row \in CodeRow
  PROVE  LET spent == [row EXCEPT !.consumed = TRUE] IN
         /\ spent \in CodeRow /\ spent.consumed
         /\ spent.client = row.client /\ spent.user = row.user
<1> DEFINE challenges == {Challenge(m, v) : m \in Methods, v \in Verifiers}
<1>1. CodeRow = [client : Clients, user : Users, redirect : Redirects, method : Methods,
                 challenge : challenges, consumed : BOOLEAN]
  BY DEF CodeRow
<1> HIDE DEF challenges
<1> DEFINE spent == [row EXCEPT !.consumed = TRUE]
<1>2. /\ spent.client = row.client /\ spent.user = row.user /\ spent.redirect = row.redirect
      /\ spent.method = row.method /\ spent.challenge = row.challenge
  BY <1>1
<1>3. spent.consumed = TRUE
  BY <1>1
<1>4. spent \in CodeRow
  <2>1. row \in [client : Clients, user : Users, redirect : Redirects, method : Methods,
                 challenge : challenges, consumed : BOOLEAN]
    BY <1>1
  <2>2. spent \in [client : Clients, user : Users, redirect : Redirects, method : Methods,
                   challenge : challenges, consumed : BOOLEAN]
    BY <2>1
  <2> QED BY <1>1, <2>2
<1> QED BY <1>2, <1>3, <1>4

LEMMA SaveConsumedInvariant ==
  ASSUME IInv, NEW r \in Requests, SaveConsumed(r)
  PROVE  IInv'
<1>0. TypeOK /\ ExchangesKnow /\ NotAgain
  BY DEF IInv
<1>1. PICK c \in Codes : c = exchange[r].code /\ codes[c] # Null
  BY <1>0 DEF SaveConsumed, ExchangesKnow, Busy
<1>2. Busy(r) /\ UNCHANGED <<sessions, origin, lapsed, dropped, contested>>
  BY DEF SaveConsumed, Busy, rtVars, history
<1>3. /\ exchange' \in [Requests -> Exchange]
      /\ exchange'[r].pc = "consumed" /\ exchange'[r].code = c
      /\ \A x \in Requests : x # r => exchange'[x] = exchange[x]
  <2>1. exchange[r] \in Exchange /\ exchange \in [Requests -> Exchange]
    BY <1>0 DEF TypeOK
  <2>2. exchange' = [exchange EXCEPT ![r] = [exchange[r] EXCEPT !.pc = "consumed"]]
    BY <2>1 DEF SaveConsumed
  <2>3. [exchange[r] EXCEPT !.pc = "consumed"] = [pc |-> "consumed", code |-> c]
        /\ [pc |-> "consumed", code |-> c] \in Exchange
    BY <2>1, <1>1 DEF Exchange
  <2>4. exchange' = [exchange EXCEPT ![r] = [pc |-> "consumed", code |-> c]]
    BY <2>2, <2>3
  <2> QED BY <2>1, <2>3, <2>4
<1>4. /\ codes' \in [Codes -> CodeRow \cup {Null}] /\ CodesKept
      /\ codes'[c] # Null /\ codes'[c].consumed
  <2>1. codes[c] \in CodeRow /\ codes \in [Codes -> CodeRow \cup {Null}]
    BY <1>0, <1>1 DEF TypeOK
  <2> DEFINE row == [codes[c] EXCEPT !.consumed = TRUE]
  <2>2. codes' = [codes EXCEPT ![c] = row]
    BY <1>1, <2>1 DEF SaveConsumed
  <2>3. row \in CodeRow /\ row.consumed /\ row.client = codes[c].client
        /\ row.user = codes[c].user
    BY <2>1, ConsumedRow
  <2> HIDE DEF row
  <2>4. codes'[c] = row /\ \A d \in Codes : d # c => codes'[d] = codes[d]
    BY <2>1, <2>2
  <2> QED BY <2>1, <2>2, <2>3, <2>4 DEF CodesKept
<1>5. \A s \in Sessions : sessions[s] # Null => origin[s] # [code |-> c, by |-> r]
  BY <1>0, <1>1, <1>2 DEF NotAgain
<1>6. lapsed' \subseteq Codes /\ dropped' \in 0..MaxDropped /\ contested' \subseteq Codes
  BY <1>0, <1>2 DEF TypeOK
<1> QED BY <1>2, <1>3, <1>4, <1>5, <1>6, ExchangeStep

\* A step of issueSession: the session of a consumed code appears.
LEMMA IssueSessionInvariant ==
  ASSUME IInv, NEW r \in Requests, IssueSession(r)
  PROVE  IInv'
<1>0. TypeOK /\ SessionsTyped /\ ExchangesKnow /\ Originated /\ SessionsSpendCodes
      /\ NotAgain /\ OneSessionPerRequest
  BY DEF IInv
<1>1. PICK c \in Codes : /\ c = exchange[r].code
                         /\ codes[c] # Null /\ codes[c].consumed /\ Busy(r)
  BY <1>0 DEF IssueSession, ExchangesKnow, Busy
<1> DEFINE row == [tenant |-> ClientTenant[codes[c].client], user |-> codes[c].user]
<1>2. row \in SessionRow
  <2>1. codes[c] \in CodeRow
    BY <1>0, <1>1 DEF TypeOK
  <2> QED BY <2>1 DEF CodeRow, SessionRow
<1>3. PICK s \in Sessions : sessions[s] = Null /\ sessions' = [sessions EXCEPT ![s] = row]
  BY <1>1 DEF IssueSession, RT!IssueSaveSession
<1>4. /\ exchange' = [exchange EXCEPT ![r] = NoExchange]
      /\ origin' = [x \in Sessions |-> IF sessions'[x] # sessions[x]
                                       THEN [code |-> c, by |-> r] ELSE origin[x]]
      /\ UNCHANGED <<codes, lapsed, dropped, contested>>
  BY <1>1 DEF IssueSession
<1> HIDE DEF row
<1>5. /\ sessions' \in [Sessions -> SessionRow \cup {Null}]
      /\ sessions'[s] = row
      /\ \A x \in Sessions : x # s => sessions'[x] = sessions[x]
  BY <1>0, <1>2, <1>3 DEF SessionsTyped
<1>6. /\ NoExchange \in Exchange
      /\ exchange' \in [Requests -> Exchange] /\ exchange'[r].pc = "none"
      /\ \A x \in Requests : x # r => exchange'[x] = exchange[x]
  BY <1>0, <1>4 DEF TypeOK, NoExchange, Exchange
<1>7. /\ sessions'[s] # Null => origin'[s] = [code |-> c, by |-> r]
      /\ \A x \in Sessions : x # s => origin'[x] = origin[x]
  BY <1>3, <1>4, <1>5
<1>8. TypeOK' /\ SessionsTyped'
  <2>1. \A x \in Sessions : origin'[x] \in [code : Codes, by : Requests] \cup {Null}
    BY <1>0, <1>4 DEF TypeOK
  <2>2. origin' = [x \in Sessions |-> origin'[x]]
    BY <1>4
  <2>3. origin' \in [Sessions -> [code : Codes, by : Requests] \cup {Null}]
    BY <2>1, <2>2
  <2> QED BY <2>3, <1>0, <1>4, <1>5, <1>6 DEF TypeOK, SessionsTyped
<1>9. ExchangesKnow'
  BY <1>0, <1>4, <1>6 DEF ExchangesKnow, Busy
<1>10. Originated'
  BY <1>0, <1>1, <1>4, <1>5, <1>7 DEF Originated
<1>11. SessionsSpendCodes'
  <2>1. row = [tenant |-> ClientTenant[codes[c].client], user |-> codes[c].user]
    BY DEF row
  <2> QED BY <2>1, <1>0, <1>1, <1>4, <1>5, <1>7 DEF SessionsSpendCodes
<1>12. NotAgain'
  <2> SUFFICES ASSUME NEW x \in Requests, NEW y \in Sessions,
                      exchange'[x].pc # "none", sessions'[y] # Null
               PROVE  origin'[y] # [code |-> exchange'[x].code, by |-> x]
    BY DEF NotAgain, Busy
  <2>1. x # r /\ exchange'[x] = exchange[x]
    BY <1>6
  <2> QED BY <2>1, <1>0, <1>5, <1>7 DEF NotAgain, Busy
<1>13. OneSessionPerRequest'
  <2>1. \A y \in Sessions : sessions[y] # Null => origin[y] # [code |-> c, by |-> r]
    BY <1>0, <1>1 DEF NotAgain
  <2> QED BY <2>1, <1>0, <1>5, <1>7 DEF OneSessionPerRequest
<1> QED BY <1>8, <1>9, <1>10, <1>11, <1>12, <1>13 DEF IInv

\* A step that does not concern codes and stores no session.
LEMMA ElsewhereStep ==
  ASSUME IInv, UNCHANGED <<sessions, origin, contested, codes, exchange>>,
         lapsed' \subseteq Codes, dropped' \in 0..MaxDropped
  PROVE  IInv'
<1>1. CodesKept /\ codes' \in [Codes -> CodeRow \cup {Null}]
      /\ exchange' \in [Requests -> Exchange] /\ contested' \subseteq Codes
  BY DEF IInv, TypeOK, CodesKept
<1> QED BY <1>1, ExchangeStep

LEMMA FailExchangeInvariant ==
  ASSUME IInv, NEW r \in Requests, FailExchange(r)
  PROVE  IInv'
<1>0. TypeOK
  BY DEF IInv
<1>1. NoExchange \in Exchange /\ NoExchange.pc = "none"
  BY DEF NoExchange, Exchange
<1>2. /\ exchange' \in [Requests -> Exchange] /\ exchange'[r].pc = "none"
      /\ \A x \in Requests : x # r => exchange'[x] = exchange[x]
  BY <1>0, <1>1 DEF FailExchange, TypeOK
<1>3. dropped' \in 0..MaxDropped /\ lapsed' \subseteq Codes
      /\ UNCHANGED <<sessions, origin, codes>> /\ contested' \subseteq Codes
  BY <1>0 DEF FailExchange, TypeOK, rtVars, history
<1>4. CodesKept /\ codes' \in [Codes -> CodeRow \cup {Null}]
  BY <1>0, <1>3 DEF CodesKept, TypeOK
<1> QED BY <1>2, <1>3, <1>4, ExchangeStep

LEMMA OtherArrivalSessions ==
  ASSUME NEW r \in Requests, OtherArrival(r)
  PROVE  UNCHANGED sessions
BY DEF OtherArrival, RT!RefreshReadLive, RT!RefreshReadRevoked, RT!RevokeFind,
       RT!RevokeSessionFind

LEMMA SessionStepSessions ==
  ASSUME NEW r \in Requests, SessionStep(r)
  PROVE  UNCHANGED sessions
BY DEF SessionStep, RT!Advance, RT!Fail, RT!ReuseRevoke, RT!LoadSession, RT!RotateSave,
       RT!IssueSaveToken, RT!RespondToken, RT!RevokeUpdate, RT!RespondRevoke

LEMMA NextInvariant == IInv /\ [Next]_vars => IInv'
<1> SUFFICES ASSUME IInv, [Next]_vars PROVE IInv'
  OBVIOUS
<1>0. lapsed \subseteq Codes /\ dropped \in 0..MaxDropped
  BY DEF IInv, TypeOK
<1>1. CASE UNCHANGED vars
  BY <1>0, <1>1, ElsewhereStep DEF vars, rtVars, history
<1>2. ASSUME NEW cl \in Clients, NEW u \in Users, NEW red \in Redirects,
             NEW m \in Methods, NEW v \in Verifiers, Consent(cl, u, red, m, v)
      PROVE  IInv'
  BY <1>2, ConsentInvariant
<1>3. ASSUME NEW r \in Requests, NEW c \in Codes, NEW cl \in Clients,
             NEW red \in Redirects, NEW v \in Verifiers, ReadCode(r, c, cl, red, v)
      PROVE  IInv'
  BY <1>3, ReadCodeInvariant
<1>4. ASSUME NEW r \in Requests, SaveConsumed(r) \/ IssueSession(r) \/ FailExchange(r)
      PROVE  IInv'
  BY <1>4, SaveConsumedInvariant, IssueSessionInvariant, FailExchangeInvariant
<1>5. ASSUME NEW r \in Requests, OtherArrival(r) PROVE IInv'
  BY <1>0, <1>5, OtherArrivalSessions, ElsewhereStep DEF OtherArrival, history
<1>6. ASSUME NEW r \in Requests, SessionStep(r) PROVE IInv'
  BY <1>0, <1>6, SessionStepSessions, ElsewhereStep DEF SessionStep, history
<1>7. ASSUME NEW c \in Codes, Lapse(c) PROVE IInv'
  BY <1>0, <1>7, ElsewhereStep DEF Lapse, rtVars, history
<1> QED BY <1>1, <1>2, <1>3, <1>4, <1>5, <1>6, <1>7 DEF Next

LEMMA InvariantAlways == Spec => []IInv
<1> QED BY InitInvariant, NextInvariant, PTL DEF Spec

-----------------------------------------------------------------------------

\* Codes, exchanges and the history keep their types.
THEOREM TypeCorrect == Spec => []TypeOK
<1>1. IInv => TypeOK
  BY DEF IInv
<1> QED BY <1>1, InvariantAlways, PTL

\* Whichever requests overlap or die, a session that consume and issueSession
\* have made is of the code's user and the client's tenant, and its code is spent.
THEOREM SessionsSpendCodesAlways == Spec => []SessionsSpendCodes
<1>1. IInv => SessionsSpendCodes
  BY DEF IInv
<1> QED BY <1>1, InvariantAlways, PTL

\* A code that is read by several requests before one of them has saved it
\* yields one session for each of them, and no more.
THEOREM OneSessionPerRequestAlways == Spec => []OneSessionPerRequest
<1>1. IInv => OneSessionPerRequest
  BY DEF IInv
<1> QED BY <1>1, InvariantAlways, PTL

-----------------------------------------------------------------------------

(***************************************************************************)
(* OneSessionUnlessContested.  While a code is not contested at most one   *)
(* exchange is busy with it (Alone), and none once it has a session        *)
(* (Redeemed): the row is consumed by then, and ReadCode refuses it.       *)
(***************************************************************************)
Alone ==
  \A x, y \in Requests :
    Busy(x) /\ Busy(y) /\ exchange[x].code = exchange[y].code
      => x = y \/ exchange[x].code \in contested

Redeemed ==
  \A x \in Requests, s \in Sessions :
    Busy(x) /\ sessions[s] # Null /\ origin[s].code = exchange[x].code
      => exchange[x].code \in contested

ContestInv == IInv /\ Alone /\ Redeemed /\ OneSessionUnlessContested

LEMMA InitContest == Init => ContestInv
<1> SUFFICES ASSUME Init PROVE ContestInv
  OBVIOUS
<1>1. sessions = [s \in Sessions |-> Null] /\ exchange = [r \in Requests |-> NoExchange]
  BY DEF Init, RT!Init
<1>2. NoExchange.pc = "none"
  BY DEF NoExchange
<1> QED BY <1>1, <1>2, InitInvariant
        DEF ContestInv, Alone, Redeemed, OneSessionUnlessContested, Busy

\* A step that stores no session, starts no exchange and forgets no contest.
LEMMA NobodyReads ==
  ASSUME ContestInv, UNCHANGED <<sessions, origin>>, contested \subseteq contested',
         \A x \in Requests : exchange'[x].pc # "none" =>
           Busy(x) /\ exchange'[x].code = exchange[x].code
  PROVE  Alone' /\ Redeemed' /\ OneSessionUnlessContested'
BY DEF ContestInv, Alone, Redeemed, OneSessionUnlessContested, Busy

LEMMA ReadCodeContest ==
  ASSUME ContestInv, NEW r \in Requests, NEW c \in Codes, NEW cl \in Clients,
         NEW red \in Redirects, NEW v \in Verifiers, ReadCode(r, c, cl, red, v)
  PROVE  Alone' /\ Redeemed' /\ OneSessionUnlessContested'
<1>0. TypeOK /\ SessionsSpendCodes
  BY DEF ContestInv, IInv
<1>1. /\ ~codes[c].consumed /\ UNCHANGED <<sessions, origin>>
      /\ exchange' = [exchange EXCEPT ![r] = [pc |-> "read", code |-> c]]
  BY DEF ReadCode, rtVars
<1>2. /\ exchange'[r].code = c
      /\ \A x \in Requests : x # r => exchange'[x] = exchange[x]
  BY <1>0, <1>1 DEF TypeOK
<1>3. /\ contested \subseteq contested'
      /\ \A x \in Requests : x # r /\ Busy(x) /\ exchange[x].code = c => c \in contested'
  BY DEF ReadCode, Contest
<1>4. Alone'
  BY <1>2, <1>3 DEF ContestInv, Alone, Busy
<1>5. \A s \in Sessions : sessions[s] # Null => origin[s].code # c
  BY <1>0, <1>1 DEF SessionsSpendCodes
<1>6. Redeemed'
  BY <1>1, <1>2, <1>3, <1>5 DEF ContestInv, Redeemed, Busy
<1>7. OneSessionUnlessContested'
  BY <1>1, <1>3 DEF ContestInv, OneSessionUnlessContested
<1> QED BY <1>4, <1>6, <1>7

LEMMA IssueSessionContest ==
  ASSUME ContestInv, NEW r \in Requests, IssueSession(r)
  PROVE  Alone' /\ Redeemed' /\ OneSessionUnlessContested'
<1>0. TypeOK /\ SessionsTyped
  BY DEF ContestInv, IInv
<1> DEFINE c == exchange[r].code
<1>1. /\ Busy(r) /\ contested' = contested
      /\ exchange' = [exchange EXCEPT ![r] = NoExchange]
      /\ origin' = [x \in Sessions |-> IF sessions'[x] # sessions[x]
                                       THEN [code |-> c, by |-> r] ELSE origin[x]]
  BY DEF IssueSession, Busy
<1>2. PICK s \in Sessions : \E row : sessions[s] = Null /\ sessions' = [sessions EXCEPT ![s] = row]
  BY DEF IssueSession, RT!IssueSaveSession
<1>3. \A x \in Sessions : x # s => sessions'[x] = sessions[x] /\ origin'[x] = origin[x]
  BY <1>0, <1>1, <1>2 DEF SessionsTyped
<1>4. sessions'[s] # Null => origin'[s].code = c
  BY <1>1, <1>2
<1>5. \A x \in Requests : exchange'[x].pc # "none" => x # r /\ Busy(x) /\ exchange'[x] = exchange[x]
  BY <1>0, <1>1 DEF TypeOK, NoExchange, Busy
<1>6. Alone'
  BY <1>1, <1>5 DEF ContestInv, Alone, Busy
<1>7. Redeemed'
  <2> SUFFICES ASSUME NEW x \in Requests, NEW y \in Sessions, exchange'[x].pc # "none",
                      sessions'[y] # Null, origin'[y].code = exchange'[x].code
               PROVE  exchange'[x].code \in contested
    BY <1>1 DEF Redeemed, Busy
  <2>1. CASE y = s
    BY <2>1, <1>1, <1>4, <1>5 DEF ContestInv, Alone
  <2>2. CASE y # s
    BY <2>2, <1>3, <1>5 DEF ContestInv, Redeemed
  <2> QED BY <2>1, <2>2
<1>8. OneSessionUnlessContested'
  <2>1. \A y \in Sessions : sessions[y] # Null /\ origin[y].code = c => c \in contested
    BY <1>1 DEF ContestInv, Redeemed
  <2> QED BY <2>1, <1>1, <1>3, <1>4 DEF ContestInv, OneSessionUnlessContested
<1> QED BY <1>6, <1>7, <1>8

LEMMA NextContest == ContestInv /\ [Next]_vars => ContestInv'
<1> SUFFICES ASSUME ContestInv, [Next]_vars
             PROVE  Alone' /\ Redeemed' /\ OneSessionUnlessContested'
  BY NextInvariant DEF ContestInv
<1>0. exchange \in [Requests -> Exchange]
  BY DEF ContestInv, IInv, TypeOK
<1>1. CASE UNCHANGED <<sessions, exchange, history>>
  BY <1>1, NobodyReads DEF history, Busy
<1>2. CASE UNCHANGED vars
  BY <1>1, <1>2 DEF vars, rtVars
<1>3. ASSUME NEW cl \in Clients, NEW u \in Users, NEW red \in Redirects,
             NEW m \in Methods, NEW v \in Verifiers, Consent(cl, u, red, m, v)
      PROVE  Alone' /\ Redeemed' /\ OneSessionUnlessContested'
  BY <1>1, <1>3 DEF Consent, rtVars
<1>4. ASSUME NEW r \in Requests, NEW c \in Codes, NEW cl \in Clients,
             NEW red \in Redirects, NEW v \in Verifiers, ReadCode(r, c, cl, red, v)
      PROVE  Alone' /\ Redeemed' /\ OneSessionUnlessContested'
  BY <1>4, ReadCodeContest
<1>5. ASSUME NEW r \in Requests, SaveConsumed(r) \/ FailExchange(r)
      PROVE  Alone' /\ Redeemed' /\ OneSessionUnlessContested'
  <2>1. UNCHANGED <<sessions, origin, contested>>
    BY <1>5 DEF SaveConsumed, FailExchange, rtVars, history
  <2>2. \A x \in Requests : exchange'[x].pc # "none" =>
          Busy(x) /\ exchange'[x].code = exchange[x].code
    <3>1. CASE FailExchange(r)
      BY <3>1, <1>0 DEF FailExchange, NoExchange, Busy
    <3>2. CASE SaveConsumed(r)
      <4>1. exchange[r].pc = "read" /\ exchange[r] \in Exchange
        BY <3>2, <1>0 DEF SaveConsumed
      <4>2. exchange'[r].code = exchange[r].code
            /\ \A x \in Requests : x # r => exchange'[x] = exchange[x]
        BY <3>2, <1>0, <4>1 DEF SaveConsumed, Exchange
      <4> QED BY <4>1, <4>2 DEF Busy
    <3> QED BY <1>5, <3>1, <3>2
  <2> QED BY <2>1, <2>2, NobodyReads
<1>6. ASSUME NEW r \in Requests, IssueSession(r)
      PROVE  Alone' /\ Redeemed' /\ OneSessionUnlessContested'
  BY <1>6, IssueSessionContest
<1>7. ASSUME NEW r \in Requests, OtherArrival(r) \/ SessionStep(r)
      PROVE  Alone' /\ Redeemed' /\ OneSessionUnlessContested'
  BY <1>1, <1>7, OtherArrivalSessions, SessionStepSessions DEF OtherArrival, SessionStep
<1>8. ASSUME NEW c \in Codes, Lapse(c)
      PROVE  Alone' /\ Redeemed' /\ OneSessionUnlessContested'
  BY <1>1, <1>8 DEF Lapse, rtVars
<1> QED BY <1>2, <1>3, <1>4, <1>5, <1>6, <1>7, <1>8 DEF Next

\* For any number of requests, refreshes and failures, a code that no two
\* exchanges were busy with at once has one session at most.
THEOREM OneSessionUnlessContestedAlways == Spec => []OneSessionUnlessContested
<1>1. ContestInv => OneSessionUnlessContested
  BY DEF ContestInv
<1> QED BY <1>1, InitContest, NextContest, PTL DEF Spec

===============================================================================
