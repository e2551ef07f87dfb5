-------------------------- MODULE FrontChannelProofs --------------------------
(***************************************************************************)
(* FrontChannel, for any number of tabs, users and clients: a consent page *)
(* leads to a code for the user it named.  CodeForUserShown by itself is   *)
(* not inductive: what it rests on is who can hold which csrf token, in    *)
(* the cookie, in a form and in an answer that is still on its way.        *)
(***************************************************************************)
EXTENDS FrontChannel, TLAPS

\* A token no cookie, form or answer has.
Unused(t) == t # csrf /\ \A x \in Tabs : t # tab[x].form /\ t # tab[x].setCsrf

\* The token that comes with a login is in its answer and nowhere else.
LoginsBringTheirToken ==
  \A x \in Tabs : tab[x].setOp # Null =>
    /\ tab[x].setCsrf # Null /\ tab[x].setCsrf # csrf
    /\ \A y \in Tabs : /\ tab[y].form # tab[x].setCsrf
                       /\ y # x => tab[y].setCsrf # tab[x].setCsrf

\* A token the cookie has, or gets without an answer being overtaken.
Current(t) ==
  /\ t # Null
  /\ \/ t = csrf
     \/ \E x \in Tabs : /\ tab[x].pc = "wait" /\ ~tab[x].late
                        /\ tab[x].setOp = Null /\ tab[x].setCsrf = t

\* A consent page whose form the guard will accept names the user of the OP
\* session.
CurrentPagesNameUser ==
  \A x \in Tabs :
    (~overtaken /\ tab[x].page = "consent" /\ Current(tab[x].form) /\ op # Null)
      => tab[x].user = op

IInv == TypeOK /\ LoginsBringTheirToken /\ CurrentPagesNameUser /\ CodeForUserShown

\* What every answer keeps to: a token it brings is the cookie's or an unused
\* one, and its form has that token; a login brings an unused one and no form;
\* a consent page names the user of the OP session; and a code that follows a
\* consent page is for the user the page named.
Sound(a) ==
  /\ a.setCsrf # Null => a.setCsrf = csrf \/ Unused(a.setCsrf)
  /\ a.form # Null => a.form = a.setCsrf
  /\ a.setOp # Null => a.setCsrf # Null /\ Unused(a.setCsrf) /\ a.form = Null
  /\ a.page = "consent" /\ a.form # Null => a.user = op
  /\ a.page = "client" /\ a.code # Null /\ a.user # Null /\ ~overtaken => a.code = a.user

-----------------------------------------------------------------------------

\* randomUUID finds a token.
LEMMA FreshTokenUnused ==
  ASSUME TypeOK
  PROVE  FreshToken \in Tokens /\ Unused(FreshToken)
<1> DEFINE forms == [x \in Tabs |-> tab[x].form]
           answers == [x \in Tabs |-> tab[x].setCsrf]
<1>1. \A x \in Tabs : tab[x].form \in Tokens \cup {Null} /\ tab[x].setCsrf \in Tokens \cup {Null}
  BY DEF TypeOK, Tab
<1>2. /\ csrf \in Tokens \cup {Null}
      /\ forms \in [Tabs -> Tokens \cup {Null}] /\ answers \in [Tabs -> Tokens \cup {Null}]
  BY <1>1 DEF TypeOK
<1> HIDE DEF forms, answers
<1>3. \E t \in Tokens : t # csrf /\ \A x \in Tabs : t # forms[x] /\ t # answers[x]
  BY <1>2, TokensAssumption
<1>4. \E t \in Tokens : t # csrf /\ \A x \in Tabs : t # tab[x].form /\ t # tab[x].setCsrf
  BY <1>3 DEF forms, answers
<1> QED BY <1>4 DEF FreshToken, Unused

LEMMA NullIsNoToken == Null \notin Tokens
BY NullAssumption

\* An answer that brings no token, user or code.
Bare(a) == /\ a \in Tab /\ a.form = Null /\ a.user = Null /\ a.code = Null
           /\ a.setCsrf = Null /\ a.setOp = Null

LEMMA BlankBare == Blank \in Tab /\ Bare(Blank)
BY DEF Blank, Tab, Bare, Hints, Pages

LEMMA BareWithParams ==
  ASSUME NEW a, Bare(a), NEW c \in Clients \cup {Null}, NEW h \in Hints
  PROVE  Bare([a EXCEPT !.client = c, !.hint = h])
BY DEF Bare, Tab

LEMMA BareWithPage ==
  ASSUME NEW a, Bare(a), NEW then \in {"go", "show"}, NEW page \in Pages
  PROVE  LET b == [a EXCEPT !.pc = "wait", !.then = then, !.page = page] IN
         Bare(b) /\ b.pc = "wait" /\ b.then = then /\ b.page = page
BY DEF Bare, Tab

LEMMA ParamsBare ==
  ASSUME TypeOK, NEW x \in Tabs
  PROVE  Bare(Params(x))
<1>1. tab[x].client \in Clients \cup {Null}
  BY DEF TypeOK, Tab
<1>2. (IF tab[x].hint = "host" THEN "host" ELSE "none") \in Hints
  BY DEF Hints
<1> QED BY <1>1, <1>2, BlankBare, BareWithParams DEF Params

LEMMA RedirectIs ==
  ASSUME TypeOK, NEW x \in Tabs, NEW page \in Pages
  PROVE  Bare(Redirect(x, page)) /\ Redirect(x, page).page = page
BY ParamsBare, BareWithPage DEF Redirect

LEMMA RenderIs ==
  ASSUME TypeOK, NEW x \in Tabs, NEW page \in Pages
  PROVE  Bare(Render(x, page)) /\ Render(x, page).page = page
BY ParamsBare, BareWithPage DEF Render

\* An answer that brings nothing but a page or a redirect.
LEMMA PlainSound ==
  ASSUME TypeOK, NEW x \in Tabs, NEW page \in Pages
  PROVE  /\ Redirect(x, page) \in Tab /\ Sound(Redirect(x, page))
         /\ Render(x, page) \in Tab /\ Sound(Render(x, page))
<1>1. Redirect(x, page) \in Tab /\ Sound(Redirect(x, page))
  BY RedirectIs DEF Bare, Sound
<1>2. Render(x, page) \in Tab /\ Sound(Render(x, page))
  BY RenderIs DEF Bare, Sound
<1> QED BY <1>1, <1>2

\* An answer that is sent keeps the invariant if it is sound.
LEMMA AnswerInvariant ==
  ASSUME IInv, NEW x \in Tabs, NEW a \in Tab, Sound(a), Answer(x, a)
  PROVE  IInv'
<1> USE DEF IInv
<1>1. /\ tab' = [tab EXCEPT ![x] = a]
      /\ csrf' = csrf /\ op' = op /\ opLive' = opLive /\ overtaken' = overtaken
  BY DEF Answer
<1>2. tab'[x] = a /\ \A y \in Tabs : y # x => tab'[y] = tab[y]
  BY <1>1 DEF TypeOK
<1>3. TypeOK'
  BY <1>1 DEF TypeOK
<1>4. LoginsBringTheirToken'
  <2> SUFFICES ASSUME NEW y \in Tabs, tab'[y].setOp # Null
               PROVE  /\ tab'[y].setCsrf # Null /\ tab'[y].setCsrf # csrf
                      /\ \A z \in Tabs : /\ tab'[z].form # tab'[y].setCsrf
                                         /\ z # y => tab'[z].setCsrf # tab'[y].setCsrf
    BY <1>1 DEF LoginsBringTheirToken
  <2>1. CASE y = x
    BY <2>1, <1>2 DEF Sound, Unused
  <2>2. CASE y # x
    <3>1. /\ tab[y].setOp # Null /\ tab[y].setCsrf # Null /\ tab[y].setCsrf # csrf
          /\ \A z \in Tabs : /\ tab[z].form # tab[y].setCsrf
                             /\ z # y => tab[z].setCsrf # tab[y].setCsrf
      BY <2>2, <1>2 DEF LoginsBringTheirToken
    <3>2. a.setCsrf # tab[y].setCsrf /\ a.form # tab[y].setCsrf
      BY <3>1 DEF Sound, Unused
    <3> QED BY <2>2, <3>1, <3>2, <1>2
  <2> QED BY <2>1, <2>2
<1>5. \A t : Current(t)' => Current(t) \/ Unused(t)
  BY <1>1, <1>2 DEF Current, Sound
<1>6. CurrentPagesNameUser'
  <2> SUFFICES ASSUME NEW y \in Tabs, ~overtaken, tab'[y].page = "consent",
                      Current(tab[y].form)', op # Null
               PROVE  tab'[y].user = op
    BY <1>1 DEF CurrentPagesNameUser
  <2>1. CASE y = x
    BY <2>1, <1>2 DEF Sound, Current
  <2>2. CASE y # x
    <3>1. Current(tab[y].form)
      BY <2>2, <1>1, <1>2 DEF Current, Sound, Unused
    <3> QED BY <2>2, <3>1, <1>2 DEF CurrentPagesNameUser
  <2> QED BY <2>1, <2>2
<1>7. CodeForUserShown'
  BY <1>1, <1>2 DEF CodeForUserShown, Sound
<1> QED BY <1>3, <1>4, <1>6, <1>7

-----------------------------------------------------------------------------

\* The form comes with the cookie's token or an unused one.
LEMMA RenderFormIs ==
  ASSUME TypeOK, NEW x \in Tabs, NEW page \in Pages
  PROVE  LET a == RenderForm(x, page) IN
         /\ a \in Tab /\ a.page = page /\ a.form = a.setCsrf
         /\ a.user = Null /\ a.code = Null /\ a.setOp = Null
         /\ a.setCsrf \in Tokens /\ (a.setCsrf = csrf \/ Unused(a.setCsrf))
<1> DEFINE token == IF csrf # Null THEN csrf ELSE FreshToken
<1>1. token \in Tokens /\ (token = csrf \/ Unused(token))
  BY FreshTokenUnused DEF TypeOK
<1> HIDE DEF token
<1>2. PICK b : b = Render(x, page) /\ Bare(b) /\ b.page = page
  BY RenderIs
<1>3. RenderForm(x, page) = [b EXCEPT !.form = token, !.setCsrf = token]
  BY <1>2 DEF RenderForm, token
<1>4. LET a == [b EXCEPT !.form = token, !.setCsrf = token] IN
      /\ a \in Tab /\ a.page = page /\ a.form = token /\ a.setCsrf = token
      /\ a.user = Null /\ a.code = Null /\ a.setOp = Null
  BY <1>1, <1>2 DEF Bare, Tab
<1> QED BY <1>1, <1>3, <1>4

LEMMA AuthorizeInvariant ==
  ASSUME IInv, NEW x \in Tabs, Authorize(x)
  PROVE  IInv'
BY PlainSound, AnswerInvariant DEF Authorize, IInv, Pages

LEMMA GetLoginInvariant ==
  ASSUME IInv, NEW x \in Tabs, GetLogin(x)
  PROVE  IInv'
<1>1. RenderForm(x, "login") \in Tab /\ Sound(RenderForm(x, "login"))
  BY RenderFormIs, NullIsNoToken DEF IInv, Pages, Sound
<1> QED BY <1>1, AnswerInvariant DEF GetLogin

LEMMA PostLoginInvariant ==
  ASSUME IInv, NEW x \in Tabs, NEW u \in Users \cup {Null}, PostLogin(x, u)
  PROVE  IInv'
<1> DEFINE refused == [Render(x, "login") EXCEPT !.form = LoginToken, !.setCsrf = LoginToken]
           signedIn == [Redirect(x, "consent") EXCEPT !.setCsrf = LoginToken, !.setOp = u]
<1>1. TypeOK /\ "login" \in Pages /\ "consent" \in Pages /\ "error" \in Pages
  BY DEF IInv, Pages
<1>2. LoginToken \in Tokens /\ LoginToken # Null /\ Unused(LoginToken)
  BY <1>1, FreshTokenUnused, NullIsNoToken DEF LoginToken
<1>3. refused \in Tab /\ Sound(refused)
  <2>1. PICK b : b = Render(x, "login") /\ Bare(b) /\ b.page = "login"
    BY <1>1, RenderIs
  <2>2. LET a == [b EXCEPT !.form = LoginToken, !.setCsrf = LoginToken] IN
        /\ a \in Tab /\ a.page = "login" /\ a.form = LoginToken /\ a.setCsrf = LoginToken
        /\ a.setOp = Null
    BY <1>2, <2>1 DEF Bare, Tab
  <2> QED BY <1>2, <2>1, <2>2 DEF Sound
<1>4. signedIn \in Tab /\ Sound(signedIn)
  <2>1. PICK b : b = Redirect(x, "consent") /\ Bare(b) /\ b.page = "consent"
    BY <1>1, RedirectIs
  <2>2. LET a == [b EXCEPT !.setCsrf = LoginToken, !.setOp = u] IN
        /\ a \in Tab /\ a.page = "consent" /\ a.form = Null /\ a.setCsrf = LoginToken
        /\ a.setOp = u
    BY <1>2, <2>1 DEF Bare, Tab
  <2> QED BY <1>2, <2>1, <2>2 DEF Sound
<1>5. Render(x, "error") \in Tab /\ Sound(Render(x, "error"))
  BY <1>1, PlainSound
<1>6. \/ Answer(x, Render(x, "error"))
      \/ Answer(x, refused)
      \/ Answer(x, signedIn)
  BY DEF PostLogin
<1> HIDE DEF refused, signedIn
<1> QED BY <1>3, <1>4, <1>5, <1>6, AnswerInvariant

LEMMA IssueCodeIs ==
  ASSUME TypeOK, NEW x \in Tabs
  PROVE  LET a == IssueCode(x) IN
         /\ a \in Tab /\ a.page = "client" /\ a.code = op /\ a.user = Null
         /\ a.form = Null /\ a.setCsrf = Null /\ a.setOp = Null
<1>1. PICK b : b = Render(x, "client") /\ Bare(b) /\ b.page = "client"
  BY RenderIs DEF Pages
<1>2. op \in Users \cup {Null}
  BY DEF TypeOK
<1> QED BY <1>1, <1>2 DEF IssueCode, Bare, Tab

LEMMA GetConsentInvariant ==
  ASSUME IInv, NEW x \in Tabs, GetConsent(x)
  PROVE  IInv'
<1> DEFINE asked == [RenderForm(x, "consent") EXCEPT !.user = op]
<1>1. TypeOK /\ "login" \in Pages /\ "consent" \in Pages /\ "error" \in Pages
  BY DEF IInv, Pages
<1>2. asked \in Tab /\ Sound(asked)
  <2>1. PICK b : /\ b = RenderForm(x, "consent")
                 /\ b \in Tab /\ b.page = "consent" /\ b.form = b.setCsrf /\ b.setOp = Null
                 /\ b.setCsrf = csrf \/ Unused(b.setCsrf)
    BY <1>1, RenderFormIs
  <2>2. op \in Users \cup {Null}
    BY <1>1 DEF TypeOK
  <2>3. LET a == [b EXCEPT !.user = op] IN
        /\ a \in Tab /\ a.page = "consent" /\ a.form = b.form /\ a.setCsrf = b.setCsrf
        /\ a.setOp = Null /\ a.user = op
    BY <2>1, <2>2 DEF Tab
  <2> QED BY <2>1, <2>3 DEF Sound
<1>3. IssueCode(x) \in Tab /\ Sound(IssueCode(x))
  BY <1>1, IssueCodeIs DEF Sound
<1>4. /\ Render(x, "error") \in Tab /\ Sound(Render(x, "error"))
      /\ Redirect(x, "login") \in Tab /\ Sound(Redirect(x, "login"))
  BY <1>1, PlainSound
<1>5. \/ Answer(x, Render(x, "error"))
      \/ Answer(x, Redirect(x, "login"))
      \/ Answer(x, IssueCode(x))
      \/ Answer(x, asked)
  BY DEF GetConsent
<1> HIDE DEF asked
<1> QED BY <1>2, <1>3, <1>4, <1>5, AnswerInvariant

\* The one step that turns a consent page into a code: CsrfGuard has let the
\* form pass, so the page names the user of the OP session.
LEMMA PostConsentInvariant ==
  ASSUME IInv, NEW x \in Tabs, NEW decision, PostConsent(x, decision)
  PROVE  IInv'
<1> DEFINE approved == [IssueCode(x) EXCEPT !.user = tab[x].user]
           lost == [Redirect(x, "login") EXCEPT !.client = Null]
<1>1. TypeOK /\ "login" \in Pages /\ "client" \in Pages /\ "error" \in Pages
  BY DEF IInv, Pages
<1>2. ASSUME CsrfAllows(x), op # Null PROVE approved \in Tab /\ Sound(approved)
  <2>1. Current(tab[x].form)
    BY <1>2 DEF CsrfAllows, Current
  <2>2. ~overtaken => tab[x].user = op
    BY <1>2, <2>1 DEF IInv, CurrentPagesNameUser, PostConsent, Shown
  <2>3. PICK b : /\ b = IssueCode(x) /\ b \in Tab /\ b.page = "client" /\ b.code = op
                 /\ b.form = Null /\ b.setCsrf = Null /\ b.setOp = Null
    BY <1>1, IssueCodeIs
  <2>4. tab[x].user \in Users \cup {Null}
    BY <1>1 DEF TypeOK, Tab
  <2>5. LET a == [b EXCEPT !.user = tab[x].user] IN
        /\ a \in Tab /\ a.page = "client" /\ a.code = op /\ a.user = tab[x].user
        /\ a.form = Null /\ a.setCsrf = Null /\ a.setOp = Null
    BY <2>3, <2>4 DEF Tab
  <2> QED BY <2>2, <2>3, <2>5 DEF Sound
<1>3. lost \in Tab /\ Sound(lost)
  <2>1. PICK b : b = Redirect(x, "login") /\ Bare(b) /\ b.page = "login"
    BY <1>1, RedirectIs
  <2>2. LET a == [b EXCEPT !.client = Null] IN
        /\ a \in Tab /\ a.page = "login" /\ a.form = Null /\ a.setCsrf = Null /\ a.setOp = Null
    BY <2>1 DEF Bare, Tab
  <2> QED BY <2>1, <2>2 DEF Sound
<1>4. /\ Render(x, "error") \in Tab /\ Sound(Render(x, "error"))
      /\ Render(x, "client") \in Tab /\ Sound(Render(x, "client"))
  BY <1>1, PlainSound
<1>5. \/ Answer(x, Render(x, "error"))
      \/ Answer(x, Render(x, "client"))
      \/ Answer(x, lost)
      \/ CsrfAllows(x) /\ op # Null /\ Answer(x, approved)
  BY DEF PostConsent
<1> HIDE DEF approved, lost
<1> QED BY <1>2, <1>3, <1>4, <1>5, AnswerInvariant

LEMMA VisitInvariant ==
  ASSUME IInv, NEW x \in Tabs, NEW c \in Clients, NEW hint \in Hints, Visit(x, c, hint)
  PROVE  IInv'
<1> DEFINE a == [Blank EXCEPT !.pc = "go", !.page = "authorize", !.client = c, !.hint = hint]
<1>1. /\ a \in Tab /\ a.page = "authorize"
      /\ a.form = Null /\ a.setCsrf = Null /\ a.setOp = Null
  BY BlankBare DEF Bare, Tab, Pages
<1>2. Sound(a) /\ Answer(x, a)
  BY <1>1 DEF Sound, Visit
<1> HIDE DEF a
<1> QED BY <1>1, <1>2, AnswerInvariant

-----------------------------------------------------------------------------

\* What the arrival of an answer does to the tabs.
LEMMA ReceiveTabs ==
  ASSUME TypeOK, NEW x \in Tabs, Receive(x)
  PROVE  /\ tab' \in [Tabs -> Tab]
         /\ tab'[x].setCsrf = Null /\ tab'[x].setOp = Null /\ tab'[x].pc # "wait"
         /\ \A y \in Tabs : y # x =>
              /\ tab'[y].pc = tab[y].pc /\ tab'[y].setCsrf = tab[y].setCsrf
              /\ tab'[y].setOp = tab[y].setOp
              /\ tab'[y].late = (tab[y].late \/ (tab[y].pc = "wait" /\ tab[x].setOp # Null))
         /\ \A y \in Tabs : /\ tab'[y].page = tab[y].page /\ tab'[y].form = tab[y].form
                            /\ tab'[y].user = tab[y].user /\ tab'[y].code = tab[y].code
<1> DEFINE arrived == [tab[x] EXCEPT !.pc = tab[x].then, !.then = "show", !.setCsrf = Null,
                                     !.late = FALSE, !.setOp = Null]
           late(y) == tab[y].late \/ (tab[y].pc = "wait" /\ tab[x].setOp # Null)
           waiting(y) == [tab[y] EXCEPT !.late = @ \/ (tab[y].pc = "wait" /\ tab[x].setOp # Null)]
<1>1. tab' = [y \in Tabs |-> IF y = x THEN arrived ELSE waiting(y)]
  BY DEF Receive
<1>2. \A y \in Tabs : tab[y] \in Tab
  BY DEF TypeOK
<1>3. /\ arrived \in Tab /\ arrived.pc # "wait" /\ arrived.setCsrf = Null /\ arrived.setOp = Null
      /\ arrived.page = tab[x].page /\ arrived.form = tab[x].form
      /\ arrived.user = tab[x].user /\ arrived.code = tab[x].code
  <2>1. tab[x] \in Tab
    BY <1>2
  <2> QED BY <2>1 DEF Tab
<1>4. ASSUME NEW y \in Tabs
      PROVE  /\ waiting(y) \in Tab /\ waiting(y).pc = tab[y].pc
             /\ waiting(y).setCsrf = tab[y].setCsrf /\ waiting(y).setOp = tab[y].setOp
             /\ waiting(y).late = late(y)
             /\ waiting(y).page = tab[y].page /\ waiting(y).form = tab[y].form
             /\ waiting(y).user = tab[y].user /\ waiting(y).code = tab[y].code
  <2>1. tab[y] \in Tab
    BY <1>2
  <2> QED BY <2>1 DEF Tab
<1> HIDE DEF arrived, waiting
<1>5. tab'[x] = arrived /\ \A y \in Tabs : y # x => tab'[y] = waiting(y)
  BY <1>1
<1>6. tab' \in [Tabs -> Tab]
  BY <1>1, <1>3, <1>4
<1> QED BY <1>3, <1>4, <1>5, <1>6

LEMMA ReceiveTyped ==
  ASSUME TypeOK, NEW x \in Tabs, Receive(x)
  PROVE  TypeOK'
<1>1. tab[x].setCsrf \in Tokens \cup {Null} /\ tab[x].setOp \in Users \cup {Null}
      /\ tab[x].late \in BOOLEAN
  BY DEF TypeOK, Tab
<1>2. csrf' \in Tokens \cup {Null} /\ op' \in Users \cup {Null}
  BY <1>1 DEF TypeOK, Receive
<1>3. opLive' \in BOOLEAN /\ overtaken' \in BOOLEAN
  BY <1>1 DEF TypeOK, Receive
<1> QED BY <1>2, <1>3, ReceiveTabs DEF TypeOK

LEMMA ReceiveInvariant ==
  ASSUME IInv, NEW x \in Tabs, Receive(x)
  PROVE  IInv'
<1>1. TypeOK
  BY DEF IInv
<1>2. TypeOK'
  BY <1>1, ReceiveTyped
<1>3. \A y \in Tabs : /\ tab'[y].page = tab[y].page /\ tab'[y].form = tab[y].form
                      /\ tab'[y].user = tab[y].user /\ tab'[y].code = tab[y].code
  BY <1>1, ReceiveTabs
<1>4. /\ tab[x].pc = "wait"
      /\ csrf' = (IF tab[x].setCsrf # Null THEN tab[x].setCsrf ELSE csrf)
      /\ op' = (IF tab[x].setOp # Null THEN tab[x].setOp ELSE op)
      /\ overtaken' = (overtaken \/ (tab[x].late /\ tab[x].setCsrf # Null /\ tab[x].setOp = Null))
  BY DEF Receive
<1>5. LoginsBringTheirToken'
  <2> SUFFICES ASSUME NEW y \in Tabs, tab'[y].setOp # Null
               PROVE  /\ tab'[y].setCsrf # Null /\ tab'[y].setCsrf # csrf'
                      /\ \A z \in Tabs : /\ tab'[z].form # tab'[y].setCsrf
                                         /\ z # y => tab'[z].setCsrf # tab'[y].setCsrf
    BY DEF LoginsBringTheirToken
  <2>1. y # x /\ tab'[y].setOp = tab[y].setOp /\ tab'[y].setCsrf = tab[y].setCsrf
    BY <1>1, ReceiveTabs
  <2>2. /\ tab[y].setCsrf # Null /\ tab[y].setCsrf # csrf
        /\ \A z \in Tabs : /\ tab[z].form # tab[y].setCsrf
                           /\ z # y => tab[z].setCsrf # tab[y].setCsrf
    BY <2>1 DEF IInv, LoginsBringTheirToken
  <2>3. \A z \in Tabs : tab'[z].setCsrf = Null \/ tab'[z].setCsrf = tab[z].setCsrf
    BY <1>1, ReceiveTabs
  <2> QED BY <1>3, <1>4, <2>1, <2>2, <2>3
<1>6. CurrentPagesNameUser'
  <2> SUFFICES ASSUME NEW y \in Tabs, ~overtaken', tab'[y].page = "consent",
                      Current(tab[y].form)', op' # Null
               PROVE  tab'[y].user = op'
    BY DEF CurrentPagesNameUser
  <2>1. /\ tab[y].form # Null
        /\ \/ tab[y].form = csrf'
           \/ \E z \in Tabs : /\ tab'[z].pc = "wait" /\ ~tab'[z].late
                              /\ tab'[z].setOp = Null /\ tab'[z].setCsrf = tab[y].form
    BY <1>3 DEF Current
  <2>2. CASE tab[x].setOp # Null
    <3>1. tab[y].form # tab[x].setCsrf /\ tab[x].setCsrf # Null
      BY <2>2 DEF IInv, LoginsBringTheirToken
    <3>2. \A z \in Tabs : tab'[z].pc = "wait" => tab'[z].late
      BY <1>1, <2>2, ReceiveTabs
    <3> QED BY <1>4, <2>1, <3>1, <3>2
  <2>3. CASE tab[x].setOp = Null
    <3>1. tab[x].setCsrf # Null => ~tab[x].late
      BY <1>4, <2>3
    <3>2. \A z \in Tabs : (tab'[z].pc = "wait" /\ ~tab'[z].late)
                             => (z # x /\ tab[z].pc = "wait" /\ ~tab[z].late
                                 /\ tab'[z].setOp = tab[z].setOp /\ tab'[z].setCsrf = tab[z].setCsrf)
      BY <1>1, <2>3, ReceiveTabs
    <3>3. Current(tab[y].form)
      BY <1>4, <2>1, <2>3, <3>1, <3>2 DEF Current
    <3>4. ~overtaken /\ op' = op
      BY <1>4, <2>3
    <3> QED BY <1>3, <3>3, <3>4 DEF IInv, CurrentPagesNameUser
  <2> QED BY <2>2, <2>3
<1>7. CodeForUserShown'
  BY <1>3, <1>4 DEF IInv, CodeForUserShown
<1> QED BY <1>2, <1>5, <1>6, <1>7 DEF IInv

\* A cookie or the token in it expires.
LEMMA LapseInvariant ==
  ASSUME IInv, LapseCsrf \/ LapseOpToken \/ LapseOpCookie
  PROVE  IInv'
<1>1. /\ tab' = tab /\ overtaken' = overtaken
      /\ csrf' = Null \/ csrf' = csrf
      /\ op' = Null \/ op' = op
      /\ opLive' = FALSE \/ opLive' = opLive
  BY DEF LapseCsrf, LapseOpToken, LapseOpCookie
<1>2. TypeOK'
  BY <1>1 DEF IInv, TypeOK
<1>3. LoginsBringTheirToken'
  BY <1>1 DEF IInv, LoginsBringTheirToken
<1>4. CurrentPagesNameUser'
  <2>1. \A x \in Tabs : Current(tab[x].form)' => Current(tab[x].form)
    BY <1>1 DEF Current
  <2> QED BY <1>1, <2>1 DEF IInv, CurrentPagesNameUser
<1>5. CodeForUserShown'
  BY <1>1 DEF IInv, CodeForUserShown
<1> QED BY <1>2, <1>3, <1>4, <1>5 DEF IInv

LEMMA InitInvariant == Init => IInv
<1> SUFFICES ASSUME Init PROVE IInv
  OBVIOUS
<1>1. Blank \in Tab /\ Blank.page = Null /\ Blank.setOp = Null /\ Blank.code = Null
  BY BlankBare DEF Blank
<1>2. \A x \in Tabs : tab[x] = Blank
  BY DEF Init
<1>3. TypeOK
  BY <1>1 DEF Init, TypeOK
<1>4. LoginsBringTheirToken
  BY <1>1, <1>2 DEF LoginsBringTheirToken
<1>5. CodeForUserShown
  BY <1>1, <1>2 DEF CodeForUserShown
<1>6. CurrentPagesNameUser
  BY DEF Init, CurrentPagesNameUser
<1> QED BY <1>3, <1>4, <1>5, <1>6 DEF IInv

LEMMA NextInvariant == IInv /\ [Next]_vars => IInv'
<1> SUFFICES ASSUME IInv, [Next]_vars PROVE IInv'
  OBVIOUS
<1>1. CASE UNCHANGED vars
  BY <1>1 DEF vars, IInv, TypeOK, LoginsBringTheirToken, CurrentPagesNameUser, Current,
              CodeForUserShown
<1>2. ASSUME NEW x \in Tabs, Serve(x) PROVE IInv'
  BY <1>2, AuthorizeInvariant, GetLoginInvariant, GetConsentInvariant DEF Serve
<1>3. ASSUME NEW x \in Tabs, Submit(x) PROVE IInv'
  BY <1>3, PostLoginInvariant, PostConsentInvariant DEF Submit
<1>4. ASSUME NEW x \in Tabs, Receive(x) PROVE IInv'
  BY <1>4, ReceiveInvariant
<1>5. ASSUME NEW x \in Tabs, NEW c \in Clients, NEW hint \in Hints, Visit(x, c, hint)
      PROVE  IInv'
  BY <1>5, VisitInvariant
<1>6. CASE LapseCsrf \/ LapseOpToken \/ LapseOpCookie
  BY <1>6, LapseInvariant
<1> QED BY <1>1, <1>2, <1>3, <1>4, <1>5, <1>6 DEF Next

LEMMA InvariantAlways == FairSpec => []IInv
<1> QED BY InitInvariant, NextInvariant, PTL DEF FairSpec

\* Cookies and tabs keep their types.
THEOREM TypeCorrect == FairSpec => []TypeOK
<1>1. IInv => TypeOK
  BY DEF IInv
<1> QED BY <1>1, InvariantAlways, PTL

\* The code a consent page leads to is for the user the page named, for any
\* number of tabs that log in, approve and wait for answers at the same time,
\* unless an answer with a csrf token came after that of a later login.
THEOREM CodeForUserShownAlways == FairSpec => []CodeForUserShown
<1>1. IInv => CodeForUserShown
  BY DEF IInv
<1> QED BY <1>1, InvariantAlways, PTL

===============================================================================
