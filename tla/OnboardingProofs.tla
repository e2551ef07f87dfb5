--------------------------- MODULE OnboardingProofs ---------------------------
(***************************************************************************)
(* Proofs about Onboarding, for any number of e-mails, identities, tokens  *)
(* and requests in flight.                                                 *)
(*                                                                         *)
(* None of the properties is inductive: each speaks of the tables, and     *)
(* what a request is about to write to them depends on what it read some   *)
(* statements ago.  The invariant says what a request knows at each of its *)
(* statements (Knows), that the rows of two open transactions have nothing *)
(* in common (TransactionsApart), and that an identity with one token in   *)
(* the making has none that is usable while that one is inserted (Making). *)
(***************************************************************************)
EXTENDS Onboarding, FiniteSetTheorems, TLAPS

TransactionPCs == {"findUser", "insertUser", "commit"}
CreatePCs == {"createFind", "invalidate", "insertToken", "mail"}
VerifyPCs == {"loadIdentity", "markUsed", "saveUsed", "saveIdentity"}

\* What a request whose record is q may rely on at its next statement.
Knows(q) ==
  /\ q.pc \in {"insertIdentity"} \cup TransactionPCs => q.email \in Emails
  /\ q.pc \in TransactionPCs => q.id \in Ids /\ identities[q.id] = Null /\ ~Registered(q.email)
  /\ q.pc \in {"insertUser", "commit"} => platform
  /\ q.pc \in {"insertIdentity", "findUser", "insertUser"} => ~q.newUser
  /\ q.pc = "commit" => (q.newUser <=> q.email \notin users)
  /\ q.pc \in CreatePCs \cup VerifyPCs => q.id \in Ids /\ identities[q.id] # Null
  /\ q.pc = "mail" => q.tok \in Tokens /\ verifs[q.tok] # Null
  /\ q.pc \in VerifyPCs => q.tok \in mailed /\ verifs[q.tok].identity = q.id
  /\ q.pc = "saveIdentity" => verifs[q.tok].state = "used"

RequestsKnow == \A r \in Requests : Knows(req[r])

TransactionsApart ==
  \A r, x \in InTransaction : r # x => req[r].id # req[x].id /\ req[r].email # req[x].email

TokensStored ==
  /\ \A v \in Tokens : verifs[v] # Null => identities[verifs[v].identity] # Null
  /\ \A v \in mailed : verifs[v] # Null

\* AccountsComplete, with what its last conjunct follows from.
Accounts ==
  /\ \A i, j \in Ids : identities[i] # Null /\ identities[j] # Null
                       /\ identities[i].email = identities[j].email => i = j
  /\ \A m \in memberships : /\ identities[m.identity] # Null /\ m.user \in users
                            /\ m.user = identities[m.identity].email
  /\ platform => \A i \in Ids : identities[i] # Null =>
                     [identity |-> i, user |-> identities[i].email] \in memberships

Making ==
  \A i \in Ids \ overlapped :
    /\ \A x, y \in Creating(i) : x = y
    /\ \A x \in Creating(i) : req[x].pc = "insertToken" => FreshOf(i) = {}
    /\ \A u, v \in FreshOf(i) : u = v

IInv == /\ TypeOK /\ RequestsKnow /\ TransactionsApart /\ TokensStored
        /\ Accounts /\ VerifiedByMail /\ Making

USE NullAssumption, BoundsAssumption

-----------------------------------------------------------------------------

LEMMA InitInvariant == Init => IInv
<1> SUFFICES ASSUME Init PROVE IInv
  OBVIOUS
<1>0. Idle \in Request /\ Idle.pc = "idle"
  BY DEF Idle, Request, PCs
<1>1. TypeOK
  BY <1>0 DEF Init, TypeOK
<1>2. \A r \in Requests : req[r].pc = "idle"
  BY <1>0 DEF Init
<1>3. RequestsKnow
  BY <1>2 DEF RequestsKnow, Knows, TransactionPCs, CreatePCs, VerifyPCs
<1>4. TransactionsApart
  BY <1>2 DEF TransactionsApart, InTransaction
<1>5. TokensStored /\ Accounts /\ VerifiedByMail
  BY DEF Init, TokensStored, Accounts, VerifiedByMail
<1>6. Making
  <2>1. \A i \in Ids : Creating(i) = {} /\ FreshOf(i) = {}
    BY <1>2 DEF Init, Creating, FreshOf
  <2> QED BY <2>1 DEF Making
<1> QED BY <1>1, <1>3, <1>4, <1>5, <1>6 DEF IInv

\* Replacing one request's record.
LEMMA Replaced ==
  ASSUME req \in [Requests -> Request], NEW r \in Requests, NEW q \in Request,
         req' = [req EXCEPT ![r] = q]
  PROVE  /\ req' \in [Requests -> Request]
         /\ req'[r] = q
         /\ \A x \in Requests : x # r => req'[x] = req[x]
OBVIOUS

\* A statement that only reads, or that hands a mail over: the request goes on
\* with a record whose knowledge is right.
LEMMA ReadStep ==
  ASSUME IInv, NEW r \in Requests, NEW q \in Request,
         req' = [req EXCEPT ![r] = q],
         UNCHANGED <<tables, platform>>,
         mailed \subseteq mailed', mailed' \subseteq Tokens,
         \A v \in mailed' : verifs[v] # Null,
         expired' \subseteq Tokens, fails' \in Nat,
         overlapped \subseteq overlapped', overlapped' \subseteq Ids,
         Knows(q),
         q.pc \in TransactionPCs =>
           \A x \in InTransaction : x # r => req[x].id # q.id /\ req[x].email # q.email,
         q.pc # "insertToken",
         q.pc = "invalidate" => q.id \in overlapped' \/ Creating(q.id) = {}
  PROVE  IInv'
<1>0. TypeOK /\ RequestsKnow /\ TransactionsApart /\ TokensStored /\ Accounts
      /\ VerifiedByMail /\ Making
  BY DEF IInv
<1>1. /\ req' \in [Requests -> Request]
      /\ req'[r] = q
      /\ \A x \in Requests : x # r => req'[x] = req[x]
  BY <1>0, Replaced DEF TypeOK
<1>2. /\ identities' = identities /\ users' = users /\ memberships' = memberships
      /\ verifs' = verifs /\ platform' = platform
  BY DEF tables
<1>3. TypeOK'
  BY <1>0, <1>1, <1>2 DEF TypeOK
<1>4. RequestsKnow'
  <2> SUFFICES ASSUME NEW x \in Requests PROVE Knows(req[x])'
    BY DEF RequestsKnow
  <2>1. CASE x = r
    BY <2>1, <1>1, <1>2 DEF Knows, Registered
  <2>2. CASE x # r
    <3>1. Knows(req[x]) /\ req'[x] = req[x]
      BY <2>2, <1>0, <1>1 DEF RequestsKnow
    <3> QED BY <3>1, <1>2 DEF Knows, Registered
  <2> QED BY <2>1, <2>2
<1>5. TransactionsApart'
  BY <1>0, <1>1 DEF TransactionsApart, InTransaction, TransactionPCs
<1>6. TokensStored' /\ Accounts'
  BY <1>0, <1>2 DEF TokensStored, Accounts
<1>7. VerifiedByMail'
  BY <1>0, <1>2 DEF VerifiedByMail
<1>8. Making'
  <2> SUFFICES ASSUME NEW i \in Ids \ overlapped'
               PROVE  /\ \A x, y \in Creating(i)' : x = y
                      /\ \A x \in Creating(i)' : req'[x].pc = "insertToken" => FreshOf(i)' = {}
                      /\ \A u, v \in FreshOf(i)' : u = v
    BY DEF Making
  <2>1. /\ \A x, y \in Creating(i) : x = y
        /\ \A x \in Creating(i) : req[x].pc = "insertToken" => FreshOf(i) = {}
        /\ \A u, v \in FreshOf(i) : u = v
    BY <1>0 DEF Making
  <2>2. FreshOf(i)' = FreshOf(i)
    BY <1>2 DEF FreshOf
  <2>3. \A x \in Creating(i)' : x # r => x \in Creating(i)
    BY <1>1 DEF Creating
  <2>4. r \in Creating(i)' => q.pc = "invalidate" /\ Creating(i) = {}
    BY <1>1 DEF Creating
  <2> QED BY <1>1, <2>1, <2>2, <2>3, <2>4
<1> QED BY <1>3, <1>4, <1>5, <1>6, <1>7, <1>8 DEF IInv

LEMMA IdleKnows == Idle \in Request /\ Idle.pc = "idle" /\ Knows(Idle)
BY DEF Idle, Request, PCs, Knows, TransactionPCs, CreatePCs, VerifyPCs

\* A request that ends, with or without an accident.
LEMMA FinishStep ==
  ASSUME IInv, NEW r \in Requests, Finish(r),
         UNCHANGED <<tables, platform, expired, overlapped>>,
         mailed \subseteq mailed', mailed' \subseteq Tokens,
         \A v \in mailed' : verifs[v] # Null, fails' \in Nat
  PROVE  IInv'
<1>1. req' = [req EXCEPT ![r] = Idle] /\ expired' \subseteq Tokens /\ overlapped' \subseteq Ids
      /\ overlapped \subseteq overlapped'
  BY DEF Finish, IInv, TypeOK
<1>2. Idle.pc \notin TransactionPCs /\ Idle.pc # "insertToken" /\ Idle.pc # "invalidate"
  BY IdleKnows DEF TransactionPCs
<1> QED BY <1>1, <1>2, IdleKnows, ReadStep

\* A statement that reads and leaves the rest of the world alone.
LEMMA GotoStep ==
  ASSUME IInv, NEW r \in Requests, NEW q \in Request,
         req' = [req EXCEPT ![r] = q],
         UNCHANGED <<tables, world, overlapped>>,
         Knows(q),
         q.pc \in TransactionPCs =>
           \A x \in InTransaction : x # r => req[x].id # q.id /\ req[x].email # q.email,
         q.pc # "insertToken", q.pc # "invalidate"
  PROVE  IInv'
<1>1. /\ mailed \subseteq mailed' /\ mailed' \subseteq Tokens /\ expired' \subseteq Tokens
      /\ \A v \in mailed' : verifs[v] # Null
      /\ fails' \in Nat /\ overlapped' \subseteq Ids /\ overlapped \subseteq overlapped'
      /\ UNCHANGED <<tables, platform>>
  BY DEF world, IInv, TypeOK, TokensStored
<1> QED BY <1>1, ReadStep

\* The fields of a request's record.
LEMMA RequestFields ==
  ASSUME IInv, NEW r \in Requests
  PROVE  /\ req[r] \in Request
         /\ req[r] = [pc |-> req[r].pc, email |-> req[r].email, id |-> req[r].id,
                      tok |-> req[r].tok, newUser |-> req[r].newUser]
         /\ req[r].pc \in PCs /\ req[r].email \in Emails \cup {Null}
         /\ req[r].id \in Ids \cup {Null} /\ req[r].tok \in Tokens \cup {Null}
         /\ req[r].newUser \in BOOLEAN
         /\ Knows(req[r])
BY DEF IInv, TypeOK, RequestsKnow, Request

LEMMA RegisterFindInvariant ==
  ASSUME IInv, NEW r \in Requests, NEW e \in Emails, RegisterFind(r, e)
  PROVE  IInv'
<1> DEFINE q == [Idle EXCEPT !.pc = "insertIdentity", !.email = e]
<1>1. q \in Request /\ q.pc = "insertIdentity" /\ q.email = e /\ ~q.newUser
  BY DEF Idle, Request, PCs
<1>2. req' = [req EXCEPT ![r] = q] /\ UNCHANGED <<tables, world, overlapped>>
  BY DEF RegisterFind
<1> HIDE DEF q
<1>3. Knows(q)
  BY <1>1 DEF Knows, TransactionPCs, CreatePCs, VerifyPCs
<1>4. q.pc \notin TransactionPCs
  BY <1>1 DEF TransactionPCs
<1> QED BY <1>1, <1>2, <1>3, <1>4, GotoStep

LEMMA InsertIdentityInvariant ==
  ASSUME IInv, NEW r \in Requests, InsertIdentity(r)
  PROVE  IInv'
<1>0. /\ UNCHANGED <<tables, world, overlapped>>
      /\ \A x \in InTransaction : req[x].email # req[r].email
      /\ req[r].email \in Emails /\ ~req[r].newUser
  BY RequestFields DEF InsertIdentity, At, Knows
<1>1. CASE Finish(r)
  BY <1>0, <1>1, FinishStep DEF world, IInv, TypeOK, TokensStored
<1>2. ASSUME ~Registered(req[r].email), NEW i \in Ids,
             identities[i] = Null, \A x \in InTransaction : req[x].id # i,
             req' = [req EXCEPT ![r].pc = "findUser", ![r].id = i]
      PROVE  IInv'
  <2> DEFINE q == [req[r] EXCEPT !.pc = "findUser", !.id = i]
  <2>1. q \in Request /\ q.pc = "findUser" /\ q.email = req[r].email /\ q.id = i
        /\ ~q.newUser
    BY <1>0, RequestFields DEF Request, PCs
  <2>2. req' = [req EXCEPT ![r] = q]
    BY <1>2
  <2> HIDE DEF q
  <2>3. Knows(q)
    BY <1>0, <1>2, <2>1 DEF Knows, TransactionPCs, CreatePCs, VerifyPCs
  <2>4. /\ UNCHANGED <<tables, world, overlapped>>
        /\ \A x \in InTransaction : x # r => req[x].id # q.id /\ req[x].email # q.email
        /\ q.pc # "insertToken" /\ q.pc # "invalidate"
    BY <1>0, <1>2, <2>1
  <2> QED BY <2>1, <2>2, <2>3, <2>4, GotoStep
<1> QED BY <1>1, <1>2 DEF InsertIdentity

LEMMA FindUserInvariant ==
  ASSUME IInv, NEW r \in Requests, FindUser(r)
  PROVE  IInv'
<1> DEFINE pc == IF req[r].email \in users THEN "commit" ELSE "insertUser"
           q == [req[r] EXCEPT !.pc = pc]
<1>1. req[r].pc = "findUser" /\ platform /\ UNCHANGED <<tables, world, overlapped>>
      /\ req' = [req EXCEPT ![r] = q]
  BY DEF FindUser, At, Goto
<1>2. pc \in {"commit", "insertUser"} /\ (pc = "commit" <=> req[r].email \in users)
  OBVIOUS
<1> HIDE DEF pc
<1>3. q \in Request /\ q.pc = pc /\ q.email = req[r].email /\ q.id = req[r].id
      /\ q.newUser = req[r].newUser
  BY <1>2, RequestFields DEF Request, PCs
<1> HIDE DEF q
<1>4. Knows(req[r]) /\ r \in InTransaction
  BY <1>1, RequestFields DEF InTransaction
<1>5. Knows(q)
  BY <1>1, <1>2, <1>3, <1>4 DEF Knows, TransactionPCs, CreatePCs, VerifyPCs
<1>6. \A x \in InTransaction : x # r => req[x].id # q.id /\ req[x].email # q.email
  BY <1>3, <1>4 DEF IInv, TransactionsApart
<1> QED BY <1>1, <1>2, <1>3, <1>5, <1>6, GotoStep

LEMMA InsertUserInvariant ==
  ASSUME IInv, NEW r \in Requests, InsertUser(r)
  PROVE  IInv'
<1>1. req[r].pc = "insertUser" /\ UNCHANGED <<tables, world, overlapped>>
  BY DEF InsertUser, At
<1>2. CASE req[r].email \in users
  BY <1>1, <1>2, FinishStep DEF InsertUser, world, IInv, TypeOK, TokensStored
<1>3. CASE req[r].email \notin users
  <2> DEFINE q == [req[r] EXCEPT !.pc = "commit", !.newUser = TRUE]
  <2>1. req' = [req EXCEPT ![r] = q]
    BY <1>3 DEF InsertUser
  <2>2. q \in Request /\ q.pc = "commit" /\ q.email = req[r].email /\ q.id = req[r].id
        /\ q.newUser
    BY RequestFields DEF Request, PCs
  <2> HIDE DEF q
  <2>3. Knows(req[r]) /\ r \in InTransaction
    BY <1>1, RequestFields DEF InTransaction
  <2>4. Knows(q)
    BY <1>1, <1>3, <2>2, <2>3 DEF Knows, TransactionPCs, CreatePCs, VerifyPCs
  <2>5. \A x \in InTransaction : x # r => req[x].id # q.id /\ req[x].email # q.email
    BY <2>2, <2>3 DEF IInv, TransactionsApart
  <2> QED BY <1>1, <2>1, <2>2, <2>4, <2>5, GotoStep
<1> QED BY <1>2, <1>3

LEMMA ResendFindInvariant ==
  ASSUME IInv, NEW r \in Requests, NEW e \in Emails, ResendFind(r, e)
  PROVE  IInv'
<1>1. PICK i \in Ids :
        /\ identities[i] # Null
        /\ req' = [req EXCEPT ![r] = [Idle EXCEPT !.pc = "createFind", !.email = e, !.id = i]]
  BY DEF ResendFind
<1> DEFINE q == [Idle EXCEPT !.pc = "createFind", !.email = e, !.id = i]
<1>2. q \in Request /\ q.pc = "createFind" /\ q.id = i
  BY DEF Idle, Request, PCs
<1>3. req' = [req EXCEPT ![r] = q] /\ UNCHANGED <<tables, world, overlapped>>
  BY <1>1 DEF ResendFind
<1> HIDE DEF q
<1>4. Knows(q) /\ q.pc \notin TransactionPCs
  BY <1>1, <1>2 DEF Knows, TransactionPCs, CreatePCs, VerifyPCs
<1> QED BY <1>2, <1>3, <1>4, GotoStep

LEMMA CreateFindInvariant ==
  ASSUME IInv, NEW r \in Requests, CreateFind(r)
  PROVE  IInv'
<1> DEFINE i == req[r].id
           q == [req[r] EXCEPT !.pc = "invalidate"]
<1>1. /\ req[r].pc = "createFind" /\ i \in Ids /\ identities[i] # Null
      /\ UNCHANGED <<tables, world>>
  BY RequestFields DEF CreateFind, At, Knows, CreatePCs
<1>2. CASE identities[i].verified
  <2>1. Finish(r) /\ UNCHANGED overlapped
    BY <1>2 DEF CreateFind
  <2> QED BY <1>1, <2>1, FinishStep DEF world, IInv, TypeOK, TokensStored
<1>3. CASE ~identities[i].verified
  <2>1. req' = [req EXCEPT ![r] = q]
    BY <1>3 DEF CreateFind, Goto
  <2>2. /\ overlapped \subseteq overlapped' /\ overlapped' \subseteq Ids
        /\ i \in overlapped' \/ Creating(i) = {}
    <3>1. overlapped' = IF Creating(i) # {} THEN overlapped \cup {i} ELSE overlapped
      BY <1>3 DEF CreateFind
    <3>2. overlapped \subseteq Ids
      BY DEF IInv, TypeOK
    <3> HIDE DEF i
    <3> QED BY <3>1, <3>2, <1>1
  <2>3. q \in Request /\ q.pc = "invalidate" /\ q.id = i
    BY RequestFields DEF Request, PCs
  <2> HIDE DEF q, i
  <2>4. Knows(q) /\ q.pc \notin TransactionPCs
    BY <1>1, <2>3 DEF Knows, TransactionPCs, CreatePCs, VerifyPCs
  <2>5. /\ mailed \subseteq mailed' /\ mailed' \subseteq Tokens /\ expired' \subseteq Tokens
        /\ \A v \in mailed' : verifs[v] # Null
        /\ fails' \in Nat /\ UNCHANGED <<tables, platform>>
    BY <1>1 DEF world, IInv, TypeOK, TokensStored
  <2> QED BY <2>1, <2>2, <2>3, <2>4, <2>5, ReadStep
<1> QED BY <1>2, <1>3

LEMMA MailInvariant ==
  ASSUME IInv, NEW r \in Requests, Mail(r)
  PROVE  IInv'
<1> DEFINE v == req[r].tok
<1>1. v \in Tokens /\ verifs[v] # Null
  BY RequestFields DEF Mail, At, Knows
<1>2. mailed' \in {mailed, mailed \cup {v}}
  BY DEF Mail, SendEmail
<1> HIDE DEF v
<1>3. /\ mailed \subseteq mailed' /\ mailed' \subseteq Tokens
      /\ \A x \in mailed' : verifs[x] # Null
  BY <1>1, <1>2 DEF IInv, TypeOK, TokensStored
<1>4. Finish(r) /\ UNCHANGED <<tables, platform, expired, overlapped>> /\ fails' \in Nat
  BY DEF Mail, IInv, TypeOK
<1> QED BY <1>3, <1>4, FinishStep

LEMMA VerifyFindInvariant ==
  ASSUME IInv, NEW r \in Requests, NEW v \in Tokens, VerifyFind(r, v)
  PROVE  IInv'
<1> DEFINE i == verifs[v].identity
           q == [Idle EXCEPT !.pc = "loadIdentity", !.tok = v, !.id = i]
<1>1. v \in mailed /\ UNCHANGED <<tables, world, overlapped>>
      /\ req' = [req EXCEPT ![r] = q]
  BY DEF VerifyFind
<1>2. i \in Ids /\ identities[i] # Null
  <2>1. verifs[v] # Null
    BY <1>1 DEF IInv, TokensStored
  <2>2. verifs[v] \in Verification
    BY <2>1 DEF IInv, TypeOK
  <2> QED BY <2>1, <2>2 DEF IInv, TokensStored, Verification
<1> HIDE DEF i
<1>3. q \in Request /\ q.pc = "loadIdentity" /\ q.id = i /\ q.tok = v
  BY <1>2 DEF Idle, Request, PCs
<1> HIDE DEF q
<1>4. Knows(q) /\ q.pc \notin TransactionPCs
  BY <1>1, <1>2, <1>3 DEF Knows, TransactionPCs, CreatePCs, VerifyPCs, i
<1> QED BY <1>1, <1>3, <1>4, GotoStep

LEMMA LoadIdentityInvariant ==
  ASSUME IInv, NEW r \in Requests, LoadIdentity(r)
  PROVE  IInv'
<1>1. PICK pc \in {"markUsed", "saveUsed"} : req' = [req EXCEPT ![r].pc = pc]
  BY DEF LoadIdentity, Goto
<1> DEFINE q == [req[r] EXCEPT !.pc = pc]
<1>2. req[r].pc = "loadIdentity" /\ UNCHANGED <<tables, world, overlapped>>
      /\ req' = [req EXCEPT ![r] = q]
  BY <1>1 DEF LoadIdentity, At
<1>3. q \in Request /\ q.pc = pc /\ q.id = req[r].id /\ q.tok = req[r].tok
  BY RequestFields DEF Request, PCs
<1> HIDE DEF q
<1>4. Knows(req[r])
  BY RequestFields
<1>5. Knows(q) /\ q.pc \notin TransactionPCs
  BY <1>2, <1>3, <1>4 DEF Knows, TransactionPCs, CreatePCs, VerifyPCs
<1> QED BY <1>2, <1>3, <1>5, GotoStep

LEMMA FailInvariant ==
  ASSUME IInv, NEW r \in Requests, Fail(r)
  PROVE  IInv'
<1>1. /\ Finish(r) /\ UNCHANGED <<tables, platform, expired, overlapped>> /\ mailed' = mailed
      /\ fails' \in Nat
  BY DEF Fail, IInv, TypeOK
<1> QED BY <1>1, FinishStep DEF IInv, TypeOK, TokensStored

-----------------------------------------------------------------------------

\* A transaction that commits: its identity appears, with the user and the
\* membership it made.
LEMMA CommitStep ==
  ASSUME IInv, NEW r \in InTransaction, NEW q \in Request,
         req' = [req EXCEPT ![r] = q],
         q.pc \in {"idle", "createFind"}, q.id \in {Null, req[r].id},
         q.pc = "createFind" => q.id = req[r].id,
         identities' = [identities EXCEPT ![req[r].id] = NewIdentity(r)],
         users \subseteq users', users' \subseteq users \cup {req[r].email},
         \/ memberships' = memberships /\ ~platform
         \/ /\ memberships' = memberships \cup {[identity |-> req[r].id, user |-> req[r].email]}
            /\ req[r].email \in users',
         UNCHANGED <<verifs, world, overlapped>>
  PROVE  IInv'
<1> DEFINE i == req[r].id
           e == req[r].email
           new == NewIdentity(r)
<1>0. TypeOK /\ RequestsKnow /\ TransactionsApart /\ TokensStored /\ Accounts
      /\ VerifiedByMail /\ Making /\ r \in Requests
  BY DEF IInv, InTransaction
<1>1. i \in Ids /\ identities[i] = Null /\ ~Registered(e) /\ e \in Emails
  BY RequestFields DEF InTransaction, Knows, TransactionPCs
<1>2. new = [email |-> e, status |-> "pending", verified |-> FALSE] /\ new \in Identity
      /\ new # Null
  <2>1. new = [email |-> e, status |-> "pending", verified |-> FALSE]
    BY DEF NewIdentity
  <2>2. new \in Identity
    BY <1>1, <2>1 DEF Identity
  <2> QED BY <2>1, <2>2
<1>3. /\ req' \in [Requests -> Request]
      /\ req'[r] = q
      /\ \A x \in Requests : x # r => req'[x] = req[x]
  BY <1>0, Replaced DEF TypeOK
<1>4. /\ mailed' = mailed /\ expired' = expired /\ platform' = platform /\ fails' = fails
      /\ verifs' = verifs /\ overlapped' = overlapped
  BY DEF world
<1> HIDE DEF new
<1>5. /\ identities' \in [Ids -> Identity \cup {Null}]
      /\ identities'[i] = new
      /\ \A j \in Ids : j # i => identities'[j] = identities[j]
  BY <1>0, <1>1, <1>2 DEF TypeOK, new
<1>6. ASSUME NEW x \in Requests, x # r, req[x].pc \in TransactionPCs
      PROVE  req[x].id # i /\ req[x].email # e
  BY <1>0, <1>6 DEF TransactionsApart, InTransaction, TransactionPCs
<1> HIDE DEF i, e
<1>7. \/ memberships' = memberships /\ ~platform
      \/ /\ memberships' = memberships \cup {[identity |-> i, user |-> e]}
         /\ e \in users'
  BY DEF i, e
<1>8. TypeOK'
  <2>1. users' \subseteq Emails
    BY <1>0, <1>1 DEF TypeOK, e
  <2>2. memberships' \subseteq Membership
    BY <1>0, <1>1, <1>7 DEF TypeOK, Membership
  <2> QED BY <1>0, <1>3, <1>4, <1>5, <2>1, <2>2 DEF TypeOK
<1>9. \A j \in Ids : identities[j] # Null => j # i /\ identities'[j] = identities[j]
  BY <1>1, <1>5
<1>10. RequestsKnow'
  <2> SUFFICES ASSUME NEW x \in Requests PROVE Knows(req[x])'
    BY DEF RequestsKnow
  <2>1. CASE x = r
    <3>1. req'[x] = q /\ (q.pc = "createFind" => q.id = i)
      BY <2>1, <1>3 DEF i
    <3> QED BY <3>1, <1>1, <1>2, <1>5 DEF Knows, TransactionPCs, CreatePCs, VerifyPCs
  <2>2. CASE x # r
    <3>1. Knows(req[x]) /\ req'[x] = req[x]
      BY <2>2, <1>0, <1>3 DEF RequestsKnow
    <3>2. ASSUME req[x].pc \in TransactionPCs
          PROVE  /\ identities'[req[x].id] = Null
                 /\ ~Registered(req[x].email)'
                 /\ req[x].email \in users' <=> req[x].email \in users
      <4>1. req[x].id # i /\ req[x].email # e
        BY <3>2, <2>2, <1>6
      <4>2. req[x].id \in Ids /\ identities[req[x].id] = Null /\ ~Registered(req[x].email)
        BY <3>1, <3>2 DEF Knows
      <4>3. ~Registered(req[x].email)'
        BY <3>1, <4>1, <4>2, <1>2, <1>5 DEF Registered
      <4>4. users \subseteq users' /\ users' \subseteq users \cup {e}
        BY DEF e
      <4> QED BY <4>1, <4>2, <4>3, <4>4, <1>5
    <3>3. req[x].id \in Ids /\ identities[req[x].id] # Null => identities'[req[x].id] # Null
      BY <1>9
    <3> QED BY <3>1, <3>2, <3>3, <1>4 DEF Knows, TransactionPCs
  <2> QED BY <2>1, <2>2
<1>11. TransactionsApart'
  BY <1>0, <1>3 DEF TransactionsApart, InTransaction
<1>12. TokensStored'
  <2>1. \A v \in Tokens : verifs[v] # Null => verifs[v].identity \in Ids
    BY <1>0 DEF TypeOK, Verification
  <2> QED BY <2>1, <1>0, <1>4, <1>9 DEF TokensStored
<1>13. Accounts'
  <2>1. \A j \in Ids : identities[j] # Null => identities[j].email # e
    BY <1>1 DEF Registered
  <2>2. \A j, k \in Ids : identities'[j] # Null /\ identities'[k] # Null
                          /\ identities'[j].email = identities'[k].email => j = k
    BY <2>1, <1>0, <1>2, <1>5 DEF Accounts
  <2>3. \A m \in memberships : /\ identities'[m.identity] # Null /\ m.user \in users'
                               /\ m.user = identities'[m.identity].email
    <3>1. \A m \in memberships : m.identity \in Ids
      BY <1>0 DEF TypeOK, Membership
    <3> QED BY <3>1, <1>0, <1>9 DEF Accounts
  <2>4. \A m \in memberships' : /\ identities'[m.identity] # Null /\ m.user \in users'
                                /\ m.user = identities'[m.identity].email
    BY <2>3, <1>2, <1>5, <1>7
  <2>5. platform => \A j \in Ids : identities'[j] # Null =>
                       [identity |-> j, user |-> identities'[j].email] \in memberships'
    BY <1>0, <1>2, <1>5, <1>7 DEF Accounts
  <2> QED BY <2>2, <2>4, <2>5, <1>4 DEF Accounts
<1>14. VerifiedByMail'
  BY <1>0, <1>2, <1>4, <1>5 DEF VerifiedByMail
<1>15. Making'
  <2>1. \A j \in Ids : FreshOf(j)' = FreshOf(j) /\ Creating(j)' \subseteq Creating(j)
    BY <1>3, <1>4 DEF FreshOf, Creating
  <2>2. \A j \in Ids : \A x \in Creating(j)' : req'[x] = req[x]
    BY <1>3 DEF Creating
  <2> QED BY <2>1, <2>2, <1>0, <1>4 DEF Making
<1> QED BY <1>8, <1>10, <1>11, <1>12, <1>13, <1>14, <1>15 DEF IInv

LEMMA CommitIdentityOnlyInvariant ==
  ASSUME IInv, NEW r \in Requests, CommitIdentityOnly(r)
  PROVE  IInv'
<1>1. r \in InTransaction /\ ~platform /\ req' = [req EXCEPT ![r] = Idle]
      /\ identities' = [identities EXCEPT ![req[r].id] = NewIdentity(r)]
      /\ users' = users /\ memberships' = memberships
      /\ UNCHANGED <<verifs, world, overlapped>>
  BY DEF CommitIdentityOnly, At, InTransaction, Finish
<1>2. Idle.id = Null
  BY DEF Idle
<1> QED BY <1>1, <1>2, IdleKnows, CommitStep

LEMMA CommitInvariant ==
  ASSUME IInv, NEW r \in Requests, Commit(r)
  PROVE  IInv'
<1> DEFINE q == [req[r] EXCEPT !.pc = "createFind"]
<1>1. r \in InTransaction /\ req' = [req EXCEPT ![r] = q]
      /\ identities' = [identities EXCEPT ![req[r].id] = NewIdentity(r)]
      /\ memberships' = memberships \cup {[identity |-> req[r].id, user |-> req[r].email]}
      /\ UNCHANGED <<verifs, world, overlapped>>
  BY DEF Commit, At, InTransaction, Goto
<1>2. q \in Request /\ q.pc = "createFind" /\ q.id = req[r].id
  BY RequestFields DEF Request, PCs
<1> HIDE DEF q
<1>3. users \subseteq users' /\ users' \subseteq users \cup {req[r].email}
      /\ req[r].email \in users'
  BY RequestFields DEF Commit, At, Knows
<1> QED BY <1>1, <1>2, <1>3, CommitStep

-----------------------------------------------------------------------------

\* No step takes a token away, gives it to another identity or makes one that
\* was used usable again.
TokensKept ==
  \A v \in Tokens : verifs[v] # Null =>
    /\ verifs'[v] # Null /\ verifs'[v].identity = verifs[v].identity
    /\ verifs[v].state = "used" => verifs'[v].state = "used"

\* A step that writes to email_verifications, as far as it does not concern
\* the tokens in the making.
LEMMA VerifsStep ==
  ASSUME IInv, NEW r \in Requests, NEW q \in Request,
         req' = [req EXCEPT ![r] = q],
         TokensKept, verifs' \in [Tokens -> Verification \cup {Null}],
         \A v \in Tokens : verifs'[v] # Null => identities[verifs'[v].identity] # Null,
         UNCHANGED <<identities, users, memberships, world, overlapped>>,
         Knows(q)', q.pc \notin TransactionPCs,
         Making'
  PROVE  IInv'
<1>0. TypeOK /\ RequestsKnow /\ TransactionsApart /\ TokensStored /\ Accounts /\ VerifiedByMail
  BY DEF IInv
<1>1. /\ req' \in [Requests -> Request]
      /\ req'[r] = q
      /\ \A x \in Requests : x # r => req'[x] = req[x]
  BY <1>0, Replaced DEF TypeOK
<1>2. /\ mailed' = mailed /\ expired' = expired /\ platform' = platform /\ fails' = fails
      /\ identities' = identities /\ users' = users /\ memberships' = memberships
      /\ overlapped' = overlapped /\ mailed \subseteq Tokens
  BY <1>0 DEF world, TypeOK
<1>3. TypeOK'
  BY <1>0, <1>1, <1>2 DEF TypeOK
<1>4. RequestsKnow'
  <2> SUFFICES ASSUME NEW x \in Requests PROVE Knows(req[x])'
    BY DEF RequestsKnow
  <2>1. CASE x = r
    BY <2>1, <1>1 DEF Knows
  <2>2. CASE x # r
    <3>1. Knows(req[x]) /\ req'[x] = req[x]
      BY <2>2, <1>0, <1>1 DEF RequestsKnow
    <3>2. \A v \in mailed : v \in Tokens /\ verifs[v] # Null
      BY <1>0, <1>2 DEF TokensStored
    <3>3. req[x].pc \in TransactionPCs => ~Registered(req[x].email)'
      BY <3>1, <1>2 DEF Knows, Registered
    <3>4. "saveIdentity" \in VerifyPCs
      BY DEF VerifyPCs
    <3> QED BY <3>1, <3>2, <3>3, <3>4, <1>2 DEF Knows, TokensKept
  <2> QED BY <2>1, <2>2
<1>5. TransactionsApart'
  BY <1>0, <1>1 DEF TransactionsApart, InTransaction, TransactionPCs
<1>6. TokensStored' /\ Accounts'
  BY <1>0, <1>2 DEF TokensStored, Accounts, TokensKept
<1>7. VerifiedByMail'
  <2>1. \A v \in mailed : v \in Tokens /\ verifs[v] # Null
    BY <1>0, <1>2 DEF TokensStored
  <2>2. \A i \in Ids, v \in mailed : verifs[v].identity = i /\ verifs[v].state = "used"
                           => verifs'[v].identity = i /\ verifs'[v].state = "used"
    BY <2>1 DEF TokensKept
  <2> QED BY <2>2, <1>0, <1>2 DEF VerifiedByMail
<1> QED BY <1>3, <1>4, <1>5, <1>6, <1>7 DEF IInv

LEMMA InvalidateInvariant ==
  ASSUME IInv, NEW r \in Requests, Invalidate(r)
  PROVE  IInv'
<1>0. TypeOK /\ TokensStored /\ Making /\ req \in [Requests -> Request]
  BY DEF IInv, TypeOK
<1> PICK i \in Ids \cup {Null}, q \in Request :
      i = req[r].id /\ q = [req[r] EXCEPT !.pc = "insertToken"]
  BY RequestFields DEF Request, PCs
<1>1. /\ r \in Creating(i) /\ i \in Ids /\ identities[i] # Null
      /\ req' = [req EXCEPT ![r] = q]
      /\ UNCHANGED <<identities, users, memberships, world, overlapped>>
      /\ verifs' = [v \in Tokens |-> IF v \in FreshOf(i)
                                     THEN [verifs[v] EXCEPT !.state = "void"] ELSE verifs[v]]
  BY RequestFields DEF Invalidate, At, Goto, Creating, Knows, CreatePCs
<1>2. q \in Request /\ q.pc = "insertToken" /\ q.id = i
  BY RequestFields DEF Request, PCs
<1>3. ASSUME NEW v \in Tokens
      PROVE  /\ v \notin FreshOf(i) => verifs'[v] = verifs[v]
             /\ v \in FreshOf(i) =>
                  /\ verifs[v] # Null /\ verifs[v].state = "fresh"
                  /\ verifs'[v] \in Verification
                  /\ verifs'[v].identity = verifs[v].identity
                  /\ verifs'[v].state = "void"
  <2>1. CASE v \notin FreshOf(i)
    BY <2>1, <1>1
  <2>2. CASE v \in FreshOf(i)
    <3>1. verifs'[v] = [verifs[v] EXCEPT !.state = "void"]
      BY <2>2, <1>1
    <3>2. verifs[v] # Null /\ verifs[v].state = "fresh" /\ verifs[v] \in Verification
      BY <2>2, <1>0 DEF FreshOf, TypeOK
    <3> QED BY <2>2, <3>1, <3>2 DEF Verification
  <2> QED BY <2>1, <2>2
<1>4. TokensKept
  BY <1>3 DEF TokensKept
<1>5. verifs' \in [Tokens -> Verification \cup {Null}]
  <2>1. \A v \in Tokens : verifs'[v] \in Verification \cup {Null}
    BY <1>0, <1>3 DEF TypeOK
  <2>2. verifs' = [v \in Tokens |-> verifs'[v]]
    BY <1>1
  <2> QED BY <2>1, <2>2
<1>6. \A v \in Tokens : verifs'[v] # Null => identities[verifs'[v].identity] # Null
  BY <1>0, <1>3 DEF TokensStored
<1>7. Knows(q)' /\ q.pc \notin TransactionPCs
  BY <1>1, <1>2 DEF Knows, TransactionPCs, CreatePCs, VerifyPCs
<1>8. Making'
  <2>1. overlapped' = overlapped
    BY <1>1
  <2>2. FreshOf(i)' = {}
    BY <1>3 DEF FreshOf
  <2>3. \A j \in Ids : FreshOf(j)' \subseteq FreshOf(j)
    BY <1>3 DEF FreshOf
  <2>4. req'[r] = q /\ \A x \in Requests : x # r => req'[x] = req[x]
    BY <1>0, <1>1, <1>2, Replaced
  <2>5. \A j \in Ids : Creating(j)' = Creating(j)
    BY <2>4, <1>1, <1>2 DEF Creating
  <2>6. \A j \in Ids : \A x \in Creating(j) : j # i => req'[x] = req[x]
    BY <2>4, <1>1 DEF Creating
  <2> QED BY <2>1, <2>2, <2>3, <2>5, <2>6, <1>0 DEF Making
<1> QED BY <1>1, <1>2, <1>4, <1>5, <1>6, <1>7, <1>8, VerifsStep

LEMMA InsertTokenInvariant ==
  ASSUME IInv, NEW r \in Requests, InsertToken(r)
  PROVE  IInv'
<1>1. PICK v \in Tokens :
        /\ verifs[v] = Null
        /\ verifs' = [verifs EXCEPT ![v] = [identity |-> req[r].id, state |-> "fresh"]]
        /\ req' = [req EXCEPT ![r].pc = "mail", ![r].tok = v]
  BY DEF InsertToken
<1> PICK i \in Ids \cup {Null}, q \in Request :
      i = req[r].id /\ q = [req[r] EXCEPT !.pc = "mail", !.tok = v]
  BY RequestFields DEF Request, PCs
<1> DEFINE new == [identity |-> i, state |-> "fresh"]
<1>0. TypeOK /\ TokensStored /\ Making /\ req \in [Requests -> Request]
  BY DEF IInv, TypeOK
<1>2. /\ r \in Creating(i) /\ req[r].pc = "insertToken" /\ i \in Ids /\ identities[i] # Null
      /\ req' = [req EXCEPT ![r] = q]
      /\ UNCHANGED <<identities, users, memberships, world, overlapped>>
  <2>1. req[r].pc = "insertToken" /\ Knows(req[r])
    BY RequestFields DEF InsertToken, At
  <2>2. r \in Creating(i) /\ i \in Ids /\ identities[i] # Null
    BY <2>1 DEF Creating, Knows, CreatePCs
  <2>3. req' = [req EXCEPT ![r] = q]
    BY <1>1
  <2> QED BY <2>1, <2>2, <2>3 DEF InsertToken
<1>3. q \in Request /\ q.pc = "mail" /\ q.id = i /\ q.tok = v
  BY RequestFields DEF Request, PCs
<1>4. new \in Verification
  BY <1>2 DEF Verification
<1>5. new.identity = i /\ new.state = "fresh" /\ new # Null
  BY <1>4
<1>6. /\ verifs' \in [Tokens -> Verification \cup {Null}]
      /\ verifs'[v] = new
      /\ \A w \in Tokens : w # v => verifs'[w] = verifs[w]
  BY <1>0, <1>1, <1>4 DEF TypeOK
<1> HIDE DEF new
<1>7. TokensKept
  BY <1>1, <1>6 DEF TokensKept
<1>8. \A w \in Tokens : verifs'[w] # Null => identities[verifs'[w].identity] # Null
  BY <1>0, <1>2, <1>5, <1>6 DEF TokensStored
<1>9. Knows(q)' /\ q.pc \notin TransactionPCs
  BY <1>2, <1>3, <1>5, <1>6 DEF Knows, TransactionPCs, CreatePCs, VerifyPCs
<1>10. Making'
  <2>1. overlapped' = overlapped
    BY <1>2
  <2>2. req'[r] = q /\ \A x \in Requests : x # r => req'[x] = req[x]
    BY <1>0, <1>2, <1>3, Replaced
  <2>3. \A j \in Ids : Creating(j)' \subseteq Creating(j) \ {r}
    BY <2>2, <1>3 DEF Creating
  <2>4. \A j \in Ids : j # i => FreshOf(j)' = FreshOf(j)
    BY <1>1, <1>5, <1>6 DEF FreshOf
  <2>5. FreshOf(i)' \subseteq FreshOf(i) \cup {v}
    BY <1>1, <1>6 DEF FreshOf
  <2>6. \A j \in Ids : \A x \in Creating(j)' : req'[x] = req[x]
    BY <2>2, <2>3 DEF Creating
  <2> SUFFICES ASSUME NEW j \in Ids \ overlapped
               PROVE  /\ \A x, y \in Creating(j)' : x = y
                      /\ \A x \in Creating(j)' : req'[x].pc = "insertToken" => FreshOf(j)' = {}
                      /\ \A u, w \in FreshOf(j)' : u = w
    BY <2>1 DEF Making
  <2>7. CASE j = i
    <3>1. FreshOf(i) = {} /\ Creating(i) \subseteq {r}
      BY <2>7, <1>0, <1>2 DEF Making
    <3> QED BY <3>1, <2>3, <2>5, <2>7
  <2>8. CASE j # i
    BY <2>8, <2>3, <2>4, <2>6, <1>0 DEF Making
  <2> QED BY <2>7, <2>8
<1> QED BY <1>2, <1>3, <1>6, <1>7, <1>8, <1>9, <1>10, VerifsStep

\* A save of the verification row, as used, by a request that goes on as q.
LEMMA SaveTokenStep ==
  ASSUME IInv, NEW r \in Requests, NEW q \in Request,
         req[r].pc \in {"markUsed", "saveUsed"}, SaveToken(r),
         req' = [req EXCEPT ![r] = q],
         q = Idle \/ (/\ q.pc = "saveIdentity"
                      /\ q.id = req[r].id /\ q.tok = req[r].tok),
         UNCHANGED <<identities, users, memberships, world, overlapped>>
  PROVE  IInv'
<1>0. TypeOK /\ TokensStored /\ Making /\ req \in [Requests -> Request]
  BY DEF IInv, TypeOK
<1>1. PICK t \in Tokens, i \in Ids : t = req[r].tok /\ i = req[r].id
                                     /\ t \in mailed /\ verifs[t].identity = i
                                     /\ identities[i] # Null
  BY <1>0, RequestFields DEF Knows, VerifyPCs, TypeOK
<1>2. verifs[t] \in Verification
  BY <1>0, <1>1 DEF TokensStored, TypeOK
<1>3. /\ verifs' \in [Tokens -> Verification \cup {Null}]
      /\ verifs'[t] \in Verification
      /\ verifs'[t].identity = i /\ verifs'[t].state = "used"
      /\ \A w \in Tokens : w # t => verifs'[w] = verifs[w]
  <2>1. verifs' = [verifs EXCEPT ![t] = [verifs[t] EXCEPT !.state = "used"]]
    BY <1>1 DEF SaveToken
  <2>2. verifs'[t] = [verifs[t] EXCEPT !.state = "used"]
        /\ \A w \in Tokens : w # t => verifs'[w] = verifs[w]
    BY <2>1, <1>0 DEF TypeOK
  <2>3. verifs'[t] = [identity |-> i, state |-> "used"]
    BY <2>2, <1>1, <1>2 DEF Verification
  <2>4. verifs'[t] \in Verification
    BY <2>3 DEF Verification
  <2>5. verifs' \in [Tokens -> Verification \cup {Null}]
    BY <2>1, <2>2, <2>4, <1>0 DEF TypeOK
  <2> QED BY <2>2, <2>3, <2>4, <2>5
<1>4. TokensKept
  BY <1>1, <1>3 DEF TokensKept
<1>5. verifs' \in [Tokens -> Verification \cup {Null}]
  BY <1>3
<1>6. \A v \in Tokens : verifs'[v] # Null => identities[verifs'[v].identity] # Null
  BY <1>0, <1>1, <1>3 DEF TokensStored
<1>7. Knows(q)' /\ q.pc \notin TransactionPCs
  <2>1. mailed' = mailed /\ identities' = identities
    BY DEF world
  <2>2. CASE q = Idle
    BY <2>2, IdleKnows DEF Knows, TransactionPCs, CreatePCs, VerifyPCs
  <2>3. CASE q.pc = "saveIdentity" /\ q.id = i /\ q.tok = t
    BY <2>1, <2>3, <1>1, <1>3 DEF Knows, TransactionPCs, CreatePCs, VerifyPCs
  <2> QED BY <2>2, <2>3, <1>1
<1>8. Making'
  <2>1. req'[r] = q /\ (\A x \in Requests : x # r => req'[x] = req[x])
        /\ q.pc \in {"idle", "saveIdentity"} /\ overlapped' = overlapped
    BY <1>0, Replaced, IdleKnows
  <2>2. \A j \in Ids : Creating(j)' \subseteq Creating(j) /\ r \notin Creating(j)'
    BY <2>1 DEF Creating
  <2>3. \A j \in Ids : FreshOf(j)' \subseteq FreshOf(j)
    BY <1>3 DEF FreshOf
  <2>4. \A j \in Ids : \A x \in Creating(j)' : req'[x] = req[x]
    BY <2>1, <2>2 DEF Creating
  <2> QED BY <2>1, <2>2, <2>3, <2>4, <1>0 DEF Making
<1> QED BY <1>4, <1>5, <1>6, <1>7, <1>8, VerifsStep

LEMMA MarkUsedInvariant ==
  ASSUME IInv, NEW r \in Requests, MarkUsed(r)
  PROVE  IInv'
BY IdleKnows, SaveTokenStep DEF MarkUsed, At, Finish

LEMMA SaveUsedInvariant ==
  ASSUME IInv, NEW r \in Requests, SaveUsed(r)
  PROVE  IInv'
<1> PICK q \in Request : q = [req[r] EXCEPT !.pc = "saveIdentity"]
  BY RequestFields DEF Request, PCs
<1>1. q.pc = "saveIdentity" /\ q.id = req[r].id /\ q.tok = req[r].tok
  BY RequestFields DEF Request
<1>2. req' = [req EXCEPT ![r] = q]
  BY DEF SaveUsed, Goto
<1> QED BY <1>1, <1>2, SaveTokenStep DEF SaveUsed, At

LEMMA SaveIdentityInvariant ==
  ASSUME IInv, NEW r \in Requests, SaveIdentity(r)
  PROVE  IInv'
<1>0. TypeOK /\ RequestsKnow /\ TransactionsApart /\ TokensStored /\ Accounts
      /\ VerifiedByMail /\ Making
  BY DEF IInv
<1>1. PICK i \in Ids, t \in mailed : /\ i = req[r].id /\ identities[i] # Null
                                    /\ verifs[t].identity = i /\ verifs[t].state = "used"
  <2>1. Knows(req[r]) /\ req[r].pc = "saveIdentity"
    BY RequestFields DEF SaveIdentity, At
  <2> QED BY <2>1 DEF Knows, VerifyPCs
<1>2. /\ req' \in [Requests -> Request]
      /\ req'[r] = Idle
      /\ \A x \in Requests : x # r => req'[x] = req[x]
  BY <1>0, IdleKnows, Replaced DEF TypeOK, SaveIdentity, Finish
<1>3. /\ mailed' = mailed /\ expired' = expired /\ platform' = platform /\ fails' = fails
      /\ users' = users /\ memberships' = memberships /\ verifs' = verifs
      /\ overlapped' = overlapped
  BY DEF SaveIdentity, world
<1>4. identities[i] \in Identity
  BY <1>0, <1>1 DEF TypeOK
<1>5. /\ identities' \in [Ids -> Identity \cup {Null}]
      /\ identities'[i] # Null /\ identities'[i].email = identities[i].email
      /\ identities'[i].status = "active" /\ identities'[i].verified
      /\ \A j \in Ids : j # i => identities'[j] = identities[j]
  <2>1. identities' = [identities EXCEPT
                         ![i] = [identities[i] EXCEPT !.verified = TRUE, !.status = "active"]]
    BY <1>0, <1>1 DEF SaveIdentity, TypeOK
  <2>2. identities'[i] = [identities[i] EXCEPT !.verified = TRUE, !.status = "active"]
        /\ \A j \in Ids : j # i => identities'[j] = identities[j]
    BY <2>1, <1>0 DEF TypeOK
  <2>3. identities'[i] = [email |-> identities[i].email, status |-> "active", verified |-> TRUE]
    BY <2>2, <1>4 DEF Identity
  <2>4. identities'[i] \in Identity
    BY <2>3, <1>4 DEF Identity
  <2>5. identities' \in [Ids -> Identity \cup {Null}]
    BY <2>1, <2>2, <2>4, <1>0 DEF TypeOK
  <2> QED BY <2>2, <2>3, <2>4, <2>5
<1>6. \A j \in Ids : /\ (identities'[j] = Null) <=> (identities[j] = Null)
                     /\ identities[j] # Null => identities'[j].email = identities[j].email
  BY <1>1, <1>5
<1>7. TypeOK'
  BY <1>0, <1>2, <1>3, <1>5 DEF TypeOK
<1>8. RequestsKnow'
  <2> SUFFICES ASSUME NEW x \in Requests PROVE Knows(req[x])'
    BY DEF RequestsKnow
  <2>1. CASE x = r
    BY <2>1, <1>2, IdleKnows DEF Knows, TransactionPCs, CreatePCs, VerifyPCs
  <2>2. CASE x # r
    <3>1. Knows(req[x]) /\ req'[x] = req[x]
      BY <2>2, <1>0, <1>2 DEF RequestsKnow
    <3>2. ASSUME NEW e \in Emails, ~Registered(e) PROVE ~Registered(e)'
      BY <3>2, <1>6 DEF Registered
    <3>3. req[x].pc \in TransactionPCs => ~Registered(req[x].email)'
      BY <3>1, <3>2 DEF Knows
    <3> QED BY <3>1, <3>3, <1>3, <1>6 DEF Knows
  <2> QED BY <2>1, <2>2
<1>9. TransactionsApart'
  BY <1>0, <1>2, IdleKnows DEF TransactionsApart, InTransaction
<1>10. TokensStored'
  <2>1. \A v \in Tokens : verifs[v] # Null => verifs[v].identity \in Ids
    BY <1>0 DEF TypeOK, Verification
  <2> QED BY <2>1, <1>0, <1>3, <1>6 DEF TokensStored
<1>11. Accounts'
  <2>1. \A m \in memberships : m.identity \in Ids
    BY <1>0 DEF TypeOK, Membership
  <2> QED BY <2>1, <1>0, <1>3, <1>6 DEF Accounts
<1>12. VerifiedByMail'
  BY <1>0, <1>1, <1>3, <1>5 DEF VerifiedByMail
<1>13. Making'
  <2>1. \A j \in Ids : FreshOf(j)' = FreshOf(j) /\ Creating(j)' \subseteq Creating(j) \ {r}
    BY <1>2, <1>3, IdleKnows DEF FreshOf, Creating
  <2>2. \A j \in Ids : \A x \in Creating(j)' : req'[x] = req[x]
    BY <2>1, <1>2 DEF Creating
  <2> QED BY <2>1, <2>2, <1>0, <1>3 DEF Making
<1> QED BY <1>7, <1>8, <1>9, <1>10, <1>11, <1>12, <1>13 DEF IInv

-----------------------------------------------------------------------------

LEMMA UserFromElsewhereInvariant ==
  ASSUME IInv, NEW e \in Emails, UserFromElsewhere(e)
  PROVE  IInv'
<1>0. TypeOK /\ RequestsKnow /\ TransactionsApart /\ TokensStored /\ Accounts
      /\ VerifiedByMail /\ Making
  BY DEF IInv
<1>1. /\ users' = users \cup {e} /\ e \notin users
      /\ \A r \in InTransaction : ~(req[r].newUser /\ req[r].email = e)
      /\ identities' = identities /\ memberships' = memberships /\ verifs' = verifs
      /\ mailed' = mailed /\ expired' = expired /\ platform' = platform /\ fails' = fails
      /\ req' = req /\ overlapped' = overlapped
  BY DEF UserFromElsewhere, world
<1>2. TypeOK'
  BY <1>0, <1>1 DEF TypeOK
<1>3. RequestsKnow'
  <2> SUFFICES ASSUME NEW x \in Requests PROVE Knows(req[x])'
    BY DEF RequestsKnow
  <2>1. Knows(req[x])
    BY <1>0 DEF RequestsKnow
  <2>2. req[x].pc = "commit" => (req[x].newUser <=> req[x].email \notin users')
    BY <2>1, <1>1 DEF Knows, InTransaction
  <2> QED BY <2>1, <2>2, <1>1 DEF Knows, Registered
<1>4. TransactionsApart' /\ TokensStored' /\ Accounts'
  BY <1>0, <1>1 DEF TransactionsApart, InTransaction, TokensStored, Accounts
<1>5. VerifiedByMail' /\ Making'
  BY <1>0, <1>1 DEF VerifiedByMail, Making, Creating, FreshOf
<1> QED BY <1>2, <1>3, <1>4, <1>5 DEF IInv

\* Nothing the invariant speaks of depends on the hour but the type of expired.
LEMMA ExpireInvariant ==
  ASSUME IInv, expired' \subseteq Tokens,
         UNCHANGED <<tables, mailed, platform, fails, req, overlapped>>
  PROVE  IInv'
<1>0. TypeOK /\ RequestsKnow /\ TransactionsApart /\ TokensStored /\ Accounts
      /\ VerifiedByMail /\ Making
  BY DEF IInv
<1>1. /\ identities' = identities /\ users' = users /\ memberships' = memberships
      /\ verifs' = verifs /\ mailed' = mailed /\ platform' = platform /\ fails' = fails
      /\ req' = req /\ overlapped' = overlapped
  BY DEF tables
<1>2. TypeOK'
  BY <1>0, <1>1 DEF TypeOK
<1>3. RequestsKnow'
  BY <1>0, <1>1 DEF RequestsKnow, Knows, Registered
<1>4. TransactionsApart' /\ TokensStored' /\ Accounts'
  BY <1>0, <1>1 DEF TransactionsApart, InTransaction, TokensStored, Accounts
<1>5. VerifiedByMail' /\ Making'
  BY <1>0, <1>1 DEF VerifiedByMail, Making, Creating, FreshOf
<1> QED BY <1>2, <1>3, <1>4, <1>5 DEF IInv

LEMMA NextInvariant == IInv /\ [Next]_vars => IInv'
<1> SUFFICES ASSUME IInv, [Next]_vars PROVE IInv'
  OBVIOUS
<1>1. CASE UNCHANGED vars
  <2>1. expired' \subseteq Tokens
    BY <1>1 DEF vars, IInv, TypeOK
  <2> QED BY <1>1, <2>1, ExpireInvariant DEF vars, tables
<1>2. ASSUME NEW v \in Tokens, Expire(v) PROVE IInv'
  <2>1. expired' \subseteq Tokens
    BY <1>2 DEF Expire, IInv, TypeOK
  <2> QED BY <1>2, <2>1, ExpireInvariant DEF Expire
<1>3. ASSUME NEW e \in Emails, UserFromElsewhere(e) PROVE IInv'
  BY <1>3, UserFromElsewhereInvariant
<1>4. ASSUME NEW r \in Requests, Arrive(r) PROVE IInv'
  BY <1>4, RegisterFindInvariant, ResendFindInvariant, VerifyFindInvariant
     DEF Arrive, VerificationRequest
<1>5. ASSUME NEW r \in Requests, Advance(r) PROVE IInv'
  BY <1>5, InsertIdentityInvariant, CommitIdentityOnlyInvariant, FindUserInvariant,
     InsertUserInvariant, CommitInvariant, CreateFindInvariant, InvalidateInvariant,
     InsertTokenInvariant, MailInvariant, LoadIdentityInvariant, MarkUsedInvariant,
     SaveUsedInvariant, SaveIdentityInvariant
     DEF Advance
<1>6. ASSUME NEW r \in Requests, Fail(r) PROVE IInv'
  BY <1>6, FailInvariant
<1> QED BY <1>1, <1>2, <1>3, <1>4, <1>5, <1>6 DEF Next

LEMMA InvariantAlways == Spec => []IInv
<1> QED BY InitInvariant, NextInvariant, PTL DEF Spec

-----------------------------------------------------------------------------

\* A set whose elements are all the same has one element at most.
LEMMA AtMostOne ==
  ASSUME NEW S, \A x, y \in S : x = y
  PROVE  Cardinality(S) <= 1
<1>1. CASE S = {}
  BY <1>1, FS_EmptySet
<1>2. CASE S # {}
  <2>1. PICK x : x \in S
    BY <1>2
  <2>2. S = {x}
    BY <2>1
  <2>3. Cardinality({x}) = 1
    BY FS_Singleton
  <2> QED BY <2>2, <2>3
<1> QED BY <1>1, <1>2

\* Every row and request of registration and verification keeps its type.
THEOREM TypeCorrect == Spec => []TypeOK
<1>1. IInv => TypeOK
  BY DEF IInv
<1> QED BY <1>1, InvariantAlways, PTL

\* However many registrations overlap, lose a race on a unique index or die,
\* the accounts they leave are complete.
THEOREM AccountsCompleteAlways == Spec => []AccountsComplete
<1>1. IInv => AccountsComplete
  <2> SUFFICES ASSUME IInv PROVE AccountsComplete
    OBVIOUS
  <2>1. Accounts /\ memberships \subseteq Membership
    BY DEF IInv, TypeOK
  <2>2. ASSUME NEW u \in users PROVE Cardinality(IdentitiesOfUser(u)) <= 1
    <3>1. ASSUME NEW m \in memberships, NEW n \in memberships, m.user = u, n.user = u
          PROVE  m.identity = n.identity
      <4>1. m.identity \in Ids /\ n.identity \in Ids
        BY <2>1 DEF Membership
      <4> QED BY <2>1, <3>1, <4>1 DEF Accounts
    <3>2. \A x, y \in IdentitiesOfUser(u) : x = y
      BY <3>1 DEF IdentitiesOfUser
    <3> QED BY <3>2, AtMostOne
  <2>3. ASSUME platform, NEW i \in Ids, identities[i] # Null
        PROVE  i \in IdentitiesOfUser(identities[i].email)
    <3> DEFINE m == [identity |-> i, user |-> identities[i].email]
    <3>1. m \in memberships /\ m.user = identities[i].email /\ m.identity = i
      BY <2>1, <2>3 DEF Accounts
    <3> HIDE DEF m
    <3> QED BY <3>1 DEF IdentitiesOfUser
  <2> QED BY <2>1, <2>2, <2>3 DEF Accounts, AccountsComplete
<1> QED BY <1>1, InvariantAlways, PTL

\* verifyEmail makes an identity active only for a token that was mailed for it
\* and stays recorded as used, whatever resends do at the same time.
THEOREM VerifiedByMailAlways == Spec => []VerifiedByMail
<1>1. IInv => VerifiedByMail
  BY DEF IInv
<1> QED BY <1>1, InvariantAlways, PTL

\* For two usable tokens of one identity, two calls of createVerificationToken
\* must have overlapped.
THEOREM OneUsableTokenAlways == Spec => []OneUsableToken
<1>1. IInv => OneUsableToken
  BY AtMostOne DEF IInv, Making, OneUsableToken
<1> QED BY <1>1, InvariantAlways, PTL

===============================================================================
