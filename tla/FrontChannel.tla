---------------------------- MODULE FrontChannel ----------------------------
(***************************************************************************)
(* The front channel: a browser whose tabs go through /authorize, /login   *)
(* and /consent and share the cookies csrf and op_session.  The pages'     *)
(* controllers keep no state of their own: a request is served in one      *)
(* step, from the cookies it was sent with, and its answer, which may set  *)
(* cookies, arrives later, after answers to requests that were sent after  *)
(* it.  Client, redirect URI, scope, state and code challenge travel       *)
(* together, as the client.                                                *)
(***************************************************************************)
EXTENDS Naturals, FiniteSets

CONSTANTS Tabs,
          Users,         \* who may log in, in the tenant of the client
          Clients,       \* clients the code flow is registered for
          GlobalClients, \* those of the global realm, that need no tenant
          AutoApproved,  \* the first-party client app-spa
          Tokens,        \* csrf tokens
          Null

ASSUME ClientsAssumption == GlobalClients \subseteq Clients /\ AutoApproved \subseteq Clients

ASSUME NullAssumption == Null \notin Users \cup Clients \cup Tokens

\* Where a request's tenant comes from: its query string, its host's
\* subdomain, or nowhere.
Hints == {"none", "query", "host"}

\* However many tokens the cookie, the forms and the answers hold, randomUUID
\* has another.
ASSUME TokensAssumption ==
  \A cookie \in Tokens \cup {Null} : \A forms, answers \in [Tabs -> Tokens \cup {Null}] :
    \E t \in Tokens : t # cookie /\ \A x \in Tabs : t # forms[x] /\ t # answers[x]

VARIABLES csrf,       \* the cookie csrf
          op,         \* the cookie op_session: its user
          opLive,     \* whether the token in it has not expired
          tab,        \* what each tab shows or waits for
          overtaken   \* history: an answer with a csrf token came after a later login's

vars == <<csrf, op, opLive, tab, overtaken>>

Pages == {"authorize", "login", "consent", "client", "error"}

\* go: the request for page is to be sent; wait: its answer is on the way, and
\* the tab will then go to page, or show it; show: the page is shown.
\* form is the token in the form, user the user the consent page names, code
\* the user the code in the client's URL is for.  An answer sets the cookies
\* csrf to setCsrf and op_session to setOp; it is late when the answer to a
\* login has arrived since its request was sent.
Tab == [pc : {"blank", "go", "wait", "show"}, then : {"go", "show"}, page : Pages \cup {Null},
        client : Clients \cup {Null}, hint : Hints, form : Tokens \cup {Null},
        user : Users \cup {Null}, code : Users \cup {Null},
        setCsrf : Tokens \cup {Null}, late : BOOLEAN, setOp : Users \cup {Null}]

Blank == [pc |-> "blank", then |-> "show", page |-> Null, client |-> Null, hint |-> "none",
          form |-> Null, user |-> Null, code |-> Null, setCsrf |-> Null, late |-> FALSE,
          setOp |-> Null]

Going(x, page) == tab[x].pc = "go" /\ tab[x].page = page
Shown(x, page) == tab[x].pc = "show" /\ tab[x].page = page

\* The answers of the controllers.  A redirect is built from the parameters: a
\* tenant the query named is lost, a host's stays.
Params(x) == [Blank EXCEPT !.client = tab[x].client,
                           !.hint = IF tab[x].hint = "host" THEN "host" ELSE "none"]

Redirect(x, page) == [Params(x) EXCEPT !.pc = "wait", !.then = "go", !.page = page]
Render(x, page) == [Params(x) EXCEPT !.pc = "wait", !.then = "show", !.page = page]
Answer(x, answer) == tab' = [tab EXCEPT ![x] = answer] /\ UNCHANGED <<csrf, op, opLive, overtaken>>

\* randomUUID: a token no cookie, form or answer has.
FreshToken == CHOOSE t \in Tokens : /\ t # csrf
                                    /\ \A x \in Tabs : t # tab[x].form /\ t # tab[x].setCsrf

\* resolveClient: the tenant that was named, or the global client's own.
TenantResolved(x) == tab[x].hint # "none" \/ tab[x].client \in GlobalClients
ClientResolved(x) == tab[x].client # Null /\ TenantResolved(x)

\* OpSessionService.verify
OpVerified == op # Null /\ opLive

\* CsrfGuard, for the token of the tab's form.
CsrfAllows(x) == csrf # Null /\ tab[x].form = csrf

(***************************************************************************)
(* GET /authorize                                                          *)
(***************************************************************************)
Authorize(x) ==
  /\ Going(x, "authorize")
  /\ Answer(x, IF ~ClientResolved(x) THEN Render(x, "error")
               ELSE Redirect(x, IF OpVerified THEN "consent" ELSE "login"))

(***************************************************************************)
(* /login                                                                  *)
(***************************************************************************)

\* A form with the csrf cookie's token, or a fresh one if there is none.
RenderForm(x, page) ==
  LET token == IF csrf # Null THEN csrf ELSE FreshToken IN
  [Render(x, page) EXCEPT !.form = token, !.setCsrf = token]

\* Mutant: who is signed in need not see the form.
GetLoginUnlessSignedIn(x) ==
  /\ Going(x, "login")
  /\ Answer(x, IF op # Null THEN Redirect(x, "consent") ELSE RenderForm(x, "login"))

GetLogin(x) ==
  /\ Going(x, "login")
  /\ Answer(x, RenderForm(x, "login"))

\* Mutant: the csrf cookie's token is used on, as getLogin does.
LoginTokenKept == csrf

\* Whatever the outcome, the answer brings a fresh csrf token.
LoginToken == FreshToken

\* u is the user whose e-mail is sent, Null if it is unknown, the password is
\* wrong or the e-mail is locked.
PostLogin(x, u) ==
  /\ Shown(x, "login")
  /\ Answer(x, IF ~CsrfAllows(x) \/ ~TenantResolved(x) THEN Render(x, "error")
               ELSE IF u = Null
               THEN [Render(x, "login") EXCEPT !.form = LoginToken, !.setCsrf = LoginToken]
               ELSE [Redirect(x, "consent") EXCEPT !.setCsrf = LoginToken, !.setOp = u])

(***************************************************************************)
(* /consent                                                                *)
(***************************************************************************)

\* Mutant: the code is issued for whoever the client asks for.
IssueCodeToClient(x) == [Render(x, "client") EXCEPT !.code = tab[x].client]

\* Back to the client, with a code for the user of the OP session.
IssueCode(x) == [Render(x, "client") EXCEPT !.code = op]

GetConsent(x) ==
  /\ Going(x, "consent")
  /\ Answer(x, IF ~ClientResolved(x) THEN Render(x, "error")
               ELSE IF ~OpVerified THEN Redirect(x, "login")
               ELSE IF tab[x].client \in AutoApproved THEN IssueCode(x)
               ELSE [RenderForm(x, "consent") EXCEPT !.user = op])

\* Without an OP cookie the redirect loses the parameters, which were in the
\* body; with one that has expired the handler throws.
PostConsent(x, decision) ==
  /\ Shown(x, "consent")
  /\ Answer(x, IF ~CsrfAllows(x) \/ ~ClientResolved(x) \/ tab[x].client \in AutoApproved
               THEN Render(x, "error")
               ELSE IF decision = "deny" THEN Render(x, "client")
               ELSE IF op = Null THEN [Redirect(x, "login") EXCEPT !.client = Null]
               ELSE IF ~opLive THEN Render(x, "error")
               ELSE [IssueCode(x) EXCEPT !.user = tab[x].user])

(***************************************************************************)
(* The browser                                                             *)
(***************************************************************************)

\* A client sends the tab to /authorize.
Visit(x, c, hint) ==
  /\ tab[x].pc \in {"blank", "show"}
  /\ Answer(x, [Blank EXCEPT !.pc = "go", !.page = "authorize", !.client = c, !.hint = hint])

\* The answer arrives: its cookies are set, and the tab shows the page or
\* follows the redirect.
Receive(x) ==
  /\ tab[x].pc = "wait"
  /\ csrf' = IF tab[x].setCsrf # Null THEN tab[x].setCsrf ELSE csrf
  /\ op' = IF tab[x].setOp # Null THEN tab[x].setOp ELSE op
  /\ opLive' = (opLive \/ tab[x].setOp # Null)
  /\ overtaken' = (overtaken \/ (tab[x].late /\ tab[x].setCsrf # Null /\ tab[x].setOp = Null))
  /\ tab' = [y \in Tabs |->
       IF y = x THEN [tab[x] EXCEPT !.pc = tab[x].then, !.then = "show", !.setCsrf = Null,
                                    !.late = FALSE, !.setOp = Null]
       ELSE [tab[y] EXCEPT !.late = @ \/ (tab[y].pc = "wait" /\ tab[x].setOp # Null)]]

\* The csrf cookie lasts 15 minutes, the OP cookie 12 hours, and the token in
\* it 5 minutes.
LapseCsrf == csrf # Null /\ csrf' = Null /\ UNCHANGED <<op, opLive, tab, overtaken>>

LapseOpToken == OpVerified /\ opLive' = FALSE /\ UNCHANGED <<csrf, op, tab, overtaken>>

LapseOpCookie == op # Null /\ op' = Null /\ opLive' = FALSE /\ UNCHANGED <<csrf, tab, overtaken>>

(***************************************************************************)
(* Specification                                                           *)
(***************************************************************************)
Init ==
  /\ csrf = Null /\ op = Null /\ opLive = FALSE
  /\ tab = [x \in Tabs |-> Blank]
  /\ overtaken = FALSE

Serve(x) == Authorize(x) \/ GetLogin(x) \/ GetConsent(x)

Submit(x) ==
  \/ \E u \in Users \cup {Null} : PostLogin(x, u)
  \/ \E decision \in {"approve", "deny"} : PostConsent(x, decision)

Next ==
  \/ \E x \in Tabs : Serve(x) \/ Submit(x) \/ Receive(x)
  \/ \E x \in Tabs, c \in Clients, hint \in Hints : Visit(x, c, hint)
  \/ LapseCsrf
  \/ LapseOpToken
  \/ LapseOpCookie

\* Requests that have been sent are answered, and browsers follow redirects.
Fairness == \A x \in Tabs : WF_vars(Serve(x)) /\ WF_vars(Receive(x))

FairSpec == Init /\ [][Next]_vars /\ Fairness

(***************************************************************************)
(* Properties                                                              *)
(***************************************************************************)

\* Cookies and tabs keep their types.
TypeOK ==
  /\ csrf \in Tokens \cup {Null} /\ op \in Users \cup {Null} /\ opLive \in BOOLEAN
  /\ tab \in [Tabs -> Tab] /\ overtaken \in BOOLEAN

\* The code a consent page leads to is for the user the page named, even if
\* somebody else has logged in since, in another tab: each login changes the
\* csrf token, so that the page's form is refused.  An answer that brings a
\* csrf token and comes after that of a later login is the one way around it.
CodeForUserShown ==
  \A x \in Tabs :
    (tab[x].page = "client" /\ tab[x].code # Null /\ tab[x].user # Null /\ ~overtaken)
       => tab[x].code = tab[x].user

\* However cookies expire and other tabs log in on the way, a tab that has been
\* sent to /authorize ends up showing a page: the redirects between /login and
\* /consent make no loop.
NavigationEnds ==
  \A x \in Tabs : tab[x].pc \in {"go", "wait"} ~> tab[x].pc = "show"

=============================================================================
