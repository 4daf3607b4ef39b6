--------------------------- MODULE SignIn_proofs ---------------------------
(***************************************************************************)
(* Proofs about signing in, for any tabs, browsers, users, configuration   *)
(* and accounts: the inductive invariant SignInInv, and what follows from  *)
(* it, that a session is of the user whose code its browser exchanged, and *)
(* that a token goes with its own secret.                                  *)
(***************************************************************************)
EXTENDS SignIn, SequenceTheorems, FiniteSetTheorems, TLAPS

-----------------------------------------------------------------------------
(* Tabs, requests and maps *)

Fields == {"at", "user", "ref", "module", "step", "req", "last", "token", "secret", "info"}
RequestFields == {"uri", "ref", "cid", "complete", "code", "header", "nocache"}

LEMMA Fieldnames ==
    DOMAIN NoTab = Fields /\ DOMAIN NoRequest = RequestFields
  BY DEF NoTab, Get, NoRequest, Fields, RequestFields

\* A request with other values in some fields.
LEMMA RequestExcept ==
    ASSUME NEW r, DOMAIN r = RequestFields, NEW uri, NEW code
    PROVE  LET s == [r EXCEPT !.uri = uri, !.code = code] IN
           DOMAIN s = RequestFields /\ s.code = code /\ s.header = r.header
  BY DEF RequestFields

\* A tab that stands still keeps its last request.
LEMMA AtTab ==
    ASSUME NEW t \in Tabs, NEW at
    PROVE  /\ DOMAIN At(t, at) = Fields
           /\ At(t, at).at = at /\ At(t, at).last = tab[t].last /\ At(t, at).req = Get("/")
           /\ At(t, at).module = "" /\ At(t, at).step = "" /\ At(t, at).token = 0
  BY DEF At, NoTab, Fields

LEMMA StepTab ==
    ASSUME NEW t \in Tabs, DOMAIN tab[t] = Fields, NEW next
    PROVE  LET s == [tab[t] EXCEPT !.at = "busy", !.step = next] IN
           /\ DOMAIN s = Fields
           /\ s.at = "busy" /\ s.step = next /\ s.req = tab[t].req /\ s.last = tab[t].last
           /\ s.module = tab[t].module /\ s.secret = tab[t].secret /\ s.info = tab[t].info
  BY DEF Fields

LEMMA ModuleNames == Range(Modules) = {"openauth", "oauth1", "oauth2"}
  BY DEF Range, Modules

-----------------------------------------------------------------------------
(* What the steps of a tab leave of the others *)

FlowRecord ==
    [state : {"asked", "approved", "used"}, user : Users \union {""},
     browser : {setup.browser[t] : t \in Tabs} \union {""}]

\* The request has no code, or one that a user agreed to.
Given(req) ==
    /\ DOMAIN req = RequestFields /\ HeadersName(req)
    /\ req.code # 0 => /\ req.code \in DOMAIN flows
                       /\ flows[req.code].state \in {"approved", "used"}

\* An exchange is as far as its secret, its code and its profile are.
Exchanges(t, next) ==
    LET code == next.req.code IN
    /\ next.module \in {"oauth1", "oauth2"} /\ code # 0
    /\ next.step = "token" /\ next.module = "oauth1" => next.secret = code
    /\ next.step \in {"info", "check", "store"} =>
           flows[code].state = "used" /\ flows[code].browser = setup.browser[t]
    /\ next.step \in {"check", "store"} => next.info = profileUserInfo(next.info["realm"], flows[code].user)

\* Codes that are approved stay so, and once used they stay as they are.
FlowsGoOn ==
    \A i \in DOMAIN flows :
        /\ i \in DOMAIN flows'
        /\ flows[i].state = "used" => flows'[i] = flows[i]
        /\ flows[i].state = "approved" => flows'[i].state \in {"approved", "used"}

\* Sessions of providers are only ended, and a session of the server's own may be set.
JarsGoOn ==
    /\ DOMAIN jar' = Browsers
    /\ \A b \in Browsers : DOMAIN jar'[b] = Range(Modules)
    /\ \A b \in Browsers, m \in Range(Modules) :
          jar'[b][m] = jar[b][m] \/ jar'[b][m] = NoSid \/ (m = "openauth" /\ jar'[b][m].type = "form")

\* Where a tab may be.
Places == {"page", "login", "error", "provider", "request", "busy"}

\* The shapes, one by one.
LEMMA JarShape ==
    ASSUME SignInInv
    PROVE  DOMAIN jar = Browsers /\ \A b \in Browsers : DOMAIN jar[b] = Range(Modules)
<1>1. Shapes
  BY DEF SignInInv
<1> QED
  BY <1>1, Zenon DEF Shapes

LEMMA FlowShape ==
    ASSUME SignInInv
    PROVE  flows \in Seq(FlowRecord)
<1>1. Shapes
  BY DEF SignInInv
<1> QED
  BY <1>1, Zenon DEF Shapes, FlowRecord

LEMMA TabOwns ==
    ASSUME SignInInv, NEW t \in Tabs
    PROVE  /\ DOMAIN tab[t] = Fields /\ tab[t].at \in Places
           /\ Given(tab[t].req) /\ Given(tab[t].last)
           /\ tab[t].at = "busy" => Exchanges(t, tab[t])
  BY Fieldnames
     DEF SignInInv, TypeOK, Shapes, CodeIsGiven, ExchangeIsOwn, Given, Exchanges, Places

\* A tab that moves is as it should be when what it moves to is.
LEMMA MovedOwns ==
    ASSUME SignInInv, NEW t \in Tabs, NEW next, Moves(t, next), setup' = setup,
           Given(next.req)', Given(next.last)', next.at = "busy" => Exchanges(t, next)'
    PROVE  /\ tab'[t] = next
           /\ CodeIsGiven(t)' /\ ExchangeIsOwn(t)'
<1>1. tab'[t] = next
  BY DEF SignInInv, Shapes, Moves
<1> QED
  BY <1>1 DEF CodeIsGiven, ExchangeIsOwn, Given, Exchanges

LEMMA OthersOwn ==
    ASSUME SignInInv, NEW u \in Tabs, tab'[u] = tab[u], setup' = setup, FlowsGoOn
    PROVE  CodeIsGiven(u)' /\ ExchangeIsOwn(u)'
<1>1. CodeIsGiven(u) /\ ExchangeIsOwn(u)
  BY DEF SignInInv
<1>2. CodeIsGiven(u)'
  BY <1>1 DEF CodeIsGiven, FlowsGoOn
<1>3. ExchangeIsOwn(u)'
  <2> SUFFICES ASSUME tab[u].at = "busy"
               PROVE  ExchangeIsOwn(u)'
    BY DEF ExchangeIsOwn
  <2>1. tab[u].req.code # 0 /\ tab[u].req.code \in DOMAIN flows
    BY <1>1 DEF ExchangeIsOwn, CodeIsGiven
  <2>2. tab[u].step \in {"info", "check", "store"} => flows'[tab[u].req.code] = flows[tab[u].req.code]
    BY <1>1, <2>1 DEF ExchangeIsOwn, FlowsGoOn
  <2> QED
    BY <1>1, <2>2 DEF ExchangeIsOwn, profileUserInfo
<1> QED
  BY <1>2, <1>3

\* The sessions are still those of the flows they were made with.
LEMMA SessionsStay ==
    ASSUME SignInInv, JarsGoOn, FlowsGoOn, ids' = ids, repeated' = repeated,
           \A k \in DOMAIN mem' : k.space \in {"oauth1", "oauth2"} => k \in DOMAIN mem /\ mem'[k] = mem[k]
    PROVE  SessionsAreTheirs' /\ SessionsAreNumbered'
<1>1. SessionsAreNumbered'
  BY ModuleNames DEF SignInInv, SessionsAreNumbered, JarsGoOn, hasSession, sessionID
<1>2. SessionsAreTheirs'
  <2> SUFFICES ASSUME NEW b \in Browsers, NEW m \in {"oauth1", "oauth2"},
                      jar'[b][m] # NoSid, jar'[b][m].id \notin repeated', userInfo(m, jar[b][m])' # <<>>
               PROVE  LET info == userInfo(m, jar[b][m])' IN
                      \E i \in DOMAIN flows' :
                          /\ flows'[i].browser = b /\ flows'[i].state = "used"
                          /\ info[1] = profileUserInfo(info[1]["realm"], flows'[i].user)
    BY DEF SessionsAreTheirs, hasSession, sessionID, profileUserInfo
  <2>1. jar'[b][m] = jar[b][m]
    BY ModuleNames DEF JarsGoOn
  <2>2. userInfo(m, jar[b][m])' = userInfo(m, jar[b][m])
    <3> DEFINE k == InfoKey(m, jar[b][m])
    <3>1. k.space \in {"oauth1", "oauth2"} /\ InfoKey(m, jar[b][m])' = k
      BY <2>1 DEF InfoKey
    <3>2. userInfo(m, jar[b][m])' = IF k \in DOMAIN mem' THEN <<mem'[k]>> ELSE <<>>
      BY <3>1 DEF userInfo
    <3>3. k \in DOMAIN mem'
      BY <3>2
    <3> QED
      BY <3>1, <3>2, <3>3 DEF userInfo
  <2>3. PICK i \in DOMAIN flows :
            /\ flows[i].browser = b /\ flows[i].state = "used"
            /\ userInfo(m, jar[b][m])[1] = profileUserInfo(userInfo(m, jar[b][m])[1]["realm"], flows[i].user)
    BY <2>1, <2>2 DEF SignInInv, SessionsAreTheirs, hasSession, sessionID
  <2>4. i \in DOMAIN flows' /\ flows'[i] = flows[i]
    BY <2>3 DEF FlowsGoOn
  <2> QED
    BY <2>2, <2>3, <2>4
<1> QED
  BY <1>1, <1>2

\* Flows, memcached and counters are as they were.
Rest == <<setup, accounts, mem, flows, ids, repeated, faults>>

\* The tokens of the tabs that stay at the provider are still the only ones that are not approved.
LEMMA TokensStay ==
    ASSUME SignInInv, NEW t \in Tabs,
           \A u \in Tabs \ {t} : tab'[u] = tab[u],
           tab'[t].at = "provider" => tab'[t].module # "oauth1",
           \A u \in Tabs \ {t} : tab[u].at = "provider" /\ tab[u].module = "oauth1" =>
               /\ tab[u].token \in DOMAIN flows'
               /\ flows'[tab[u].token].state = flows[tab[u].token].state
    PROVE  \A u \in Tabs : TokenIsOwn(u)'
<1> SUFFICES ASSUME NEW u \in Tabs, u # t, tab[u].at = "provider", tab[u].module = "oauth1"
             PROVE  TokenIsOwn(u)'
  BY DEF TokenIsOwn
<1>1. TokenIsOwn(u)
  BY DEF SignInInv
<1> QED
  BY <1>1 DEF TokenIsOwn

LEMMA JarsTypes ==
    ASSUME TypeOK, JarsGoOn
    PROVE  \A b \in Browsers, m \in Range(Modules) :
               jar'[b][m] = NoSid \/ jar'[b][m].type \in {"form", "OAuth1_", "OAuth2_"}
  BY DEF TypeOK, JarsGoOn

\* A step that moves one tab, and perhaps clears cookies or signs in by a form.
LEMMA MoveKeeps ==
    ASSUME SignInInv, NEW t \in Tabs, NEW next, Moves(t, next), UNCHANGED Rest, JarsGoOn,
           DOMAIN next = Fields, next.at \in Places,
           Given(next.req), Given(next.last),
           next.at = "provider" => next.module # "oauth1",
           next.at = "busy" => Exchanges(t, next)
    PROVE  SignInInv'
<1>r. UNCHANGED <<setup, accounts, mem, flows, ids, repeated, faults>>
  BY DEF Rest
<1>1. /\ tab'[t] = next /\ DOMAIN tab' = Tabs
      /\ \A u \in Tabs \ {t} : tab'[u] = tab[u]
  BY DEF SignInInv, Shapes, Moves
<1>2. FlowsGoOn
  BY <1>r DEF FlowsGoOn
<1>3. TypeOK'
  BY <1>r, <1>1, JarsTypes DEF SignInInv, TypeOK, Places
<1>4. Shapes'
  <2>1. FlowRecord' = FlowRecord
    BY <1>r DEF FlowRecord
  <2>2. (flows \in Seq(FlowRecord))'
    BY <1>r, <2>1, FlowShape
  <2>3. \A u \in Tabs : /\ DOMAIN tab'[u] = Fields
                         /\ DOMAIN tab'[u].req = RequestFields /\ DOMAIN tab'[u].last = RequestFields
                         /\ HeadersName(tab'[u].req) /\ HeadersName(tab'[u].last)
    BY <1>1, TabOwns DEF Given
  <2>4. \A u \in Tabs : /\ DOMAIN tab'[u] = DOMAIN NoTab
                         /\ \A req \in {tab'[u].req, tab'[u].last} : DOMAIN req = DOMAIN NoRequest /\ HeadersName(req)
    BY <2>3, Fieldnames
  <2> QED
    BY <1>1, <2>2, <2>4, Zenon DEF Shapes, FlowRecord, JarsGoOn
<1>5. SecretsAreTrue'
  BY <1>r DEF SignInInv, SecretsAreTrue
<1>6. SessionsAreTheirs' /\ SessionsAreNumbered'
  BY <1>r, <1>2, SessionsStay
<1>7. CodeIsGiven(t)' /\ ExchangeIsOwn(t)'
  <2>1. Given(next.req)' /\ Given(next.last)'
    BY <1>r DEF Given
  <2>2. next.at = "busy" => Exchanges(t, next)'
    BY <1>r DEF Exchanges, profileUserInfo
  <2> QED
    BY <1>r, <2>1, <2>2, MovedOwns
<1>8. \A u \in Tabs \ {t} : CodeIsGiven(u)' /\ ExchangeIsOwn(u)'
  BY <1>r, <1>1, <1>2, OthersOwn
<1>9. \A u \in Tabs : TokenIsOwn(u)'
  <2>1. \A u \in Tabs \ {t} : tab[u].at = "provider" /\ tab[u].module = "oauth1" =>
            tab[u].token \in DOMAIN flows
    BY DEF SignInInv, TokenIsOwn
  <2> QED
    BY <1>r, <1>1, <2>1, TokensStay
<1> QED
  BY <1>3, <1>4, <1>5, <1>6, <1>7, <1>8, <1>9 DEF SignInInv

-----------------------------------------------------------------------------
(* Each step keeps the invariant *)

\* A step that leaves the cookies leaves the sessions.
LEMMA JarsUnchanged ==
    ASSUME SignInInv, jar' = jar
    PROVE  JarsGoOn
  BY JarShape DEF JarsGoOn

\* A cookie is cleared, or none.
LEMMA JarsCleared ==
    ASSUME SignInInv, NEW t \in Tabs, NEW m, Sets(t, m, NoSid)
    PROVE  JarsGoOn
<1>1. /\ DOMAIN jar' = Browsers
      /\ \A b \in Browsers : jar'[b] = IF b = setup.browser[t] THEN cookie(jar[b], m, NoSid) ELSE jar[b]
  BY JarShape DEF Sets
<1>2. \A b \in Browsers :
          /\ DOMAIN cookie(jar[b], m, NoSid) = Range(Modules)
          /\ \A n \in Range(Modules) : cookie(jar[b], m, NoSid)[n] \in {jar[b][n], NoSid}
  BY JarShape DEF cookie
<1> QED
  BY <1>1, <1>2, JarShape DEF JarsGoOn

\* The tab stands still: at a page, at the login page or with an error.
LEMMA RestKeeps ==
    ASSUME SignInInv, NEW t \in Tabs, NEW next, Moves(t, next), UNCHANGED Rest, JarsGoOn,
           DOMAIN next = Fields, next.at \in {"page", "login", "error"},
           next.req = Get("/"), next.last = tab[t].last
    PROVE  SignInInv'
<1>1. Given(next.req)
  BY Fieldnames DEF Given, HeadersName, Get, NoRequest
<1>2. Given(next.last)
  BY TabOwns
<1> QED
  BY <1>1, <1>2, MoveKeeps DEF Places

LEMMA ErrsKeeps ==
    ASSUME SignInInv, NEW t \in Tabs, Errs(t), UNCHANGED Rest, JarsGoOn
    PROVE  SignInInv'
  BY AtTab, RestKeeps DEF Errs

\* The user of the tab asks for something, without a code.
LEMMA AsksKeeps ==
    ASSUME SignInInv, NEW t \in Tabs, NEW req, Asks(t, req), UNCHANGED Rest, JarsGoOn,
           Given(req)
    PROVE  SignInInv'
<1> DEFINE next == [NoTab EXCEPT !.at = "request", !.req = req]
<1>1. /\ DOMAIN next = Fields /\ next.at = "request" /\ next.req = req /\ next.last = Get("/")
  BY Fieldnames DEF NoTab, Fields
<1>2. Given(Get("/"))
  BY Fieldnames DEF Given, HeadersName, Get, NoRequest
<1> HIDE DEF next
<1>3. Moves(t, next)
  BY DEF Asks, next
<1> QED
  BY <1>1, <1>2, <1>3, MoveKeeps DEF Places

LEMMA VisitKeeps ==
    ASSUME SignInInv, NEW t \in Tabs,
           Visit(t) \/ SignInWith(t) \/ SignInByForm(t) \/ SignOut(t) \/ Reload(t)
    PROVE  SignInInv'
<1>r. UNCHANGED Rest
  BY DEF Rest, Visit, SignInWith, SignInByForm, SignOut, Reload
<1>1. CASE Visit(t)
  <2>1. PICK p \in Pages, nocache \in BOOLEAN, h \in {<<>>} \union {<<a, Accounts[a].hash>> : a \in DOMAIN Accounts} :
            Asks(t, [Get(p) EXCEPT !.nocache = nocache, !.header = h])
    BY <1>1 DEF Visit
  <2>3. h # <<>> => 1 \in DOMAIN h
    OBVIOUS
  <2>2. Given([Get(p) EXCEPT !.nocache = nocache, !.header = h])
    BY <2>3, Fieldnames DEF Given, HeadersName, Get, NoRequest, RequestFields
  <2> QED
    BY <1>1, <1>r, <2>1, <2>2, JarsUnchanged, AsksKeeps DEF Visit
<1>2. CASE SignInWith(t)
  <2>1. PICK m, cid, complete, p :
            Asks(t, [Get(Path(m, "authorize")) EXCEPT !.ref = p, !.cid = cid, !.complete = complete])
    BY <1>2 DEF SignInWith
  <2>2. Given([Get(Path(m, "authorize")) EXCEPT !.ref = p, !.cid = cid, !.complete = complete])
    BY Fieldnames DEF Given, HeadersName, Get, NoRequest, RequestFields
  <2> QED
    BY <1>2, <1>r, <2>1, <2>2, JarsUnchanged, AsksKeeps DEF SignInWith
<1>3. CASE SignInByForm(t)
  <2>1. PICK a, p : /\ jar' = [jar EXCEPT ![setup.browser[t]]["openauth"] =
                           [NoSid EXCEPT !.type = "form", !.user = a, !.password = accounts[a].hash]]
                    /\ Asks(t, Get(p))
    BY <1>3 DEF SignInByForm
  <2>2. [NoSid EXCEPT !.type = "form", !.user = a, !.password = accounts[a].hash].type = "form"
    BY DEF NoSid
  <2> DEFINE form == [NoSid EXCEPT !.type = "form", !.user = a, !.password = accounts[a].hash]
  <2> HIDE DEF form
  <2>5. jar' = [jar EXCEPT ![setup.browser[t]]["openauth"] = form] /\ form.type = "form"
    BY <2>1, <2>2 DEF form
  <2>6. /\ DOMAIN jar' = Browsers
        /\ \A b \in Browsers : jar'[b] = IF b = setup.browser[t] THEN [jar[b] EXCEPT !["openauth"] = form] ELSE jar[b]
    BY <2>5, JarShape
  <2>7. \A b \in Browsers : /\ DOMAIN jar'[b] = Range(Modules)
                            /\ \A n \in Range(Modules) : jar'[b][n] = jar[b][n] \/ (n = "openauth" /\ jar'[b][n] = form)
    BY <2>6, JarShape
  <2>3. JarsGoOn
    BY <2>5, <2>6, <2>7 DEF JarsGoOn
  <2>4. Given(Get(p))
    BY Fieldnames DEF Given, HeadersName, Get, NoRequest, RequestFields
  <2> QED
    BY <1>r, <2>1, <2>3, <2>4, AsksKeeps
<1>4. CASE SignOut(t)
  <2>1. Given(Get("/logout/dologout"))
    BY Fieldnames DEF Given, HeadersName, Get, NoRequest, RequestFields
  <2> QED
    BY <1>4, <1>r, <2>1, JarsUnchanged, AsksKeeps DEF SignOut
<1>5. CASE Reload(t)
  BY <1>5, <1>r, TabOwns, JarsUnchanged, AsksKeeps DEF Reload
<1> QED
  BY <1>1, <1>2, <1>3, <1>4, <1>5
-----------------------------------------------------------------------------
(* The answers of the server *)

LEMMA AtExcept ==
    ASSUME NEW t \in Tabs, NEW at, NEW v
    PROVE  /\ LET s == [At(t, at) EXCEPT !.user = v] IN
              DOMAIN s = Fields /\ s.at = at /\ s.req = Get("/") /\ s.last = tab[t].last
           /\ LET s == [At(t, at) EXCEPT !.ref = v] IN
              DOMAIN s = Fields /\ s.at = at /\ s.req = Get("/") /\ s.last = tab[t].last
           /\ LET s == [At(t, at) EXCEPT !.req = v] IN
              DOMAIN s = Fields /\ s.at = at /\ s.req = v /\ s.last = tab[t].last
<1> DEFINE r == At(t, at)
<1>1. DOMAIN r = Fields /\ r.at = at /\ r.req = Get("/") /\ r.last = tab[t].last
  BY AtTab
<1> HIDE DEF r
<1>2. LET s == [r EXCEPT !.user = v] IN
      DOMAIN s = Fields /\ s.at = at /\ s.req = Get("/") /\ s.last = tab[t].last
  BY <1>1 DEF Fields
<1>3. LET s == [r EXCEPT !.ref = v] IN
      DOMAIN s = Fields /\ s.at = at /\ s.req = Get("/") /\ s.last = tab[t].last
  BY <1>1 DEF Fields
<1>4. LET s == [r EXCEPT !.req = v] IN
      DOMAIN s = Fields /\ s.at = at /\ s.req = v /\ s.last = tab[t].last
  BY <1>1 DEF Fields
<1> QED
  BY <1>2, <1>3, <1>4 DEF r

\* A page, the login page or an error.
LEMMA PagesKeep ==
    ASSUME SignInInv, NEW t \in Tabs, Serve(t) \/ LogOut(t) \/ Refuse(t)
    PROVE  SignInInv'
<1>r. UNCHANGED Rest
  BY DEF Rest, Serve, LogOut, Refuse
<1>1. CASE Serve(t)
  <2>1. JarsGoOn
    BY <1>1, JarsUnchanged DEF Serve
  <2>2. PICK user : Moves(t, [At(t, "page") EXCEPT !.user = user]) \/ Errs(t)
    BY <1>1 DEF Serve
  <2> DEFINE next == [At(t, "page") EXCEPT !.user = user]
  <2>3. DOMAIN next = Fields /\ next.at = "page" /\ next.req = Get("/") /\ next.last = tab[t].last
    BY AtExcept
  <2> HIDE DEF next
  <2>4. Moves(t, next) \/ Errs(t)
    BY <2>2 DEF next
  <2> QED
    BY <1>r, <2>1, <2>3, <2>4, RestKeeps, ErrsKeeps
<1>2. CASE LogOut(t)
  <2>1. Sets(t, logoutHandler(Jar(t)), NoSid) /\ Moves(t, At(t, "login"))
    BY <1>2 DEF LogOut
  <2> QED
    BY <1>r, <2>1, JarsCleared, AtTab, RestKeeps
<1>3. CASE Refuse(t)
  <2>1. PICK a : /\ Sets(t, a.clears, NoSid)
                 /\ Moves(t, [At(t, "login") EXCEPT !.ref = a.ref]) \/ Errs(t)
    BY <1>3 DEF Refuse
  <2>2. JarsGoOn
    BY <2>1, JarsCleared
  <2> DEFINE next == [At(t, "login") EXCEPT !.ref = a.ref]
  <2>3. DOMAIN next = Fields /\ next.at = "login" /\ next.req = Get("/") /\ next.last = tab[t].last
    BY AtExcept
  <2> HIDE DEF next
  <2>4. Moves(t, next) \/ Errs(t)
    BY <2>1 DEF next
  <2> QED
    BY <1>r, <2>2, <2>3, <2>4, RestKeeps, ErrsKeeps
<1> QED
  BY <1>1, <1>2, <1>3

\* With OAuth 2 the tab goes to the provider without a token.
LEMMA ProviderTab ==
    ASSUME NEW t \in Tabs, NEW m, NEW token
    PROVE  LET s == [At(t, "provider") EXCEPT !.module = m, !.req = tab[t].req, !.token = token] IN
           /\ DOMAIN s = Fields
           /\ s.at = "provider" /\ s.module = m /\ s.req = tab[t].req /\ s.last = tab[t].last /\ s.token = token
<1> DEFINE r == At(t, "provider")
<1>1. DOMAIN r = Fields /\ r.at = "provider" /\ r.last = tab[t].last
  BY AtTab
<1> HIDE DEF r
<1>2. LET s == [r EXCEPT !.module = m, !.req = tab[t].req, !.token = token] IN
      /\ DOMAIN s = Fields
      /\ s.at = "provider" /\ s.module = m /\ s.req = tab[t].req /\ s.last = tab[t].last /\ s.token = token
  BY <1>1 DEF Fields
<1> QED
  BY <1>2 DEF r

LEMMA AuthorizeKeeps ==
    ASSUME SignInInv, NEW t \in Tabs, oauth2Authorize(t) \/ AuthorizeFails(t)
    PROVE  SignInInv'
<1>1. UNCHANGED Rest /\ jar' = jar
  BY DEF Rest, oauth2Authorize, AuthorizeFails
<1>2. JarsGoOn
  BY <1>1, JarsUnchanged
<1>3. CASE Errs(t)
  BY <1>1, <1>2, <1>3, ErrsKeeps
<1>4. CASE ToProvider(t, "oauth2", 0)
  <2> DEFINE next == [At(t, "provider") EXCEPT !.module = "oauth2", !.req = tab[t].req, !.token = 0]
  <2>1. /\ DOMAIN next = Fields /\ next.at = "provider" /\ next.module = "oauth2"
        /\ next.req = tab[t].req /\ next.last = tab[t].last
    BY ProviderTab
  <2>2. Moves(t, next)
    BY <1>4 DEF ToProvider
  <2> HIDE DEF next
  <2> QED
    BY <1>1, <1>2, <2>1, <2>2, TabOwns, MoveKeeps DEF Places
<1> QED
  BY <1>3, <1>4 DEF oauth2Authorize, AuthorizeFails

\* A request to another page of the server, with a code that is the tab's own or without.
LEMMA BackTab ==
    ASSUME SignInInv, NEW t \in Tabs, NEW code
    PROVE  LET req == [tab[t].req EXCEPT !.uri = Path(tab[t].module, "access_token"), !.code = code]
               s == [At(t, "request") EXCEPT !.req = req, !.last = req]
           IN /\ DOMAIN s = Fields /\ s.at = "request" /\ s.req = req /\ s.last = req
              /\ DOMAIN req = RequestFields /\ req.header = tab[t].req.header /\ req.code = code
<1> DEFINE req == [tab[t].req EXCEPT !.uri = Path(tab[t].module, "access_token"), !.code = code]
<1>1. DOMAIN req = RequestFields /\ req.header = tab[t].req.header /\ req.code = code
  BY TabOwns, RequestExcept DEF Given
<1> DEFINE r == At(t, "request")
<1>2. DOMAIN r = Fields /\ r.at = "request"
  BY AtTab
<1> HIDE DEF req, r
<1>3. LET s == [r EXCEPT !.req = req, !.last = req] IN
      DOMAIN s = Fields /\ s.at = "request" /\ s.req = req /\ s.last = req
  BY <1>2 DEF Fields
<1> QED
  BY <1>1, <1>3 DEF req, r

LEMMA DenyKeeps ==
    ASSUME SignInInv, NEW t \in Tabs, Deny(t)
    PROVE  SignInInv'
<1> DEFINE req == [tab[t].req EXCEPT !.uri = Path(tab[t].module, "access_token"), !.code = 0]
           next == [At(t, "request") EXCEPT !.req = req, !.last = req]
<1>1. UNCHANGED Rest /\ jar' = jar /\ Moves(t, next)
  BY DEF Rest, Deny, Back
<1>2. JarsGoOn
  BY <1>1, JarsUnchanged
<1>3. /\ DOMAIN next = Fields /\ next.at = "request" /\ next.req = req /\ next.last = req
      /\ DOMAIN req = RequestFields /\ req.header = tab[t].req.header /\ req.code = 0
  BY BackTab
<1> HIDE DEF req, next
<1>4. Given(req)
  BY <1>3, TabOwns DEF Given, HeadersName
<1> QED
  BY <1>1, <1>2, <1>3, <1>4, MoveKeeps DEF Places

-----------------------------------------------------------------------------
(* The exchange of a code for a session *)

\* The tab waits for the answer of the first step.
LEMMA AcceptTab ==
    ASSUME SignInInv, NEW t \in Tabs, NEW m, NEW first
    PROVE  LET s == [tab[t] EXCEPT !.at = "busy", !.module = m, !.step = first] IN
           /\ DOMAIN s = Fields
           /\ s.at = "busy" /\ s.module = m /\ s.step = first /\ s.req = tab[t].req /\ s.last = tab[t].last
<1>1. DOMAIN tab[t] = Fields
  BY TabOwns
<1> QED
  BY <1>1 DEF Fields

LEMMA AcceptsKeeps ==
    ASSUME SignInInv, NEW t \in Tabs, oauth1AccessToken(t) \/ oauth2AccessToken(t)
    PROVE  SignInInv'
<1>1. PICK m \in {"oauth1", "oauth2"}, first \in {"secret", "token"} :
          /\ Accepts(t, m, first)
          /\ \/ m = "oauth1" /\ first = "secret"
             \/ m = "oauth2" /\ first = "token"
  BY DEF oauth1AccessToken, oauth2AccessToken
<1> DEFINE next == [tab[t] EXCEPT !.at = "busy", !.module = m, !.step = first]
<1>2. UNCHANGED Rest /\ jar' = jar
  BY <1>1 DEF Rest, Accepts
<1>3. JarsGoOn
  BY <1>2, JarsUnchanged
<1>4. CASE Errs(t)
  BY <1>2, <1>3, <1>4, ErrsKeeps
<1>5. CASE tab[t].req.code # 0 /\ Moves(t, next)
  <2>1. /\ DOMAIN next = Fields /\ next.at = "busy" /\ next.module = m /\ next.step = first
        /\ next.req = tab[t].req /\ next.last = tab[t].last
    BY AcceptTab
  <2> HIDE DEF next
  <2>2. Exchanges(t, next)
    BY <1>1, <1>5, <2>1 DEF Exchanges
  <2> QED
    BY <1>2, <1>3, <1>5, <2>1, <2>2, TabOwns, MoveKeeps DEF Places
<1> QED
  BY <1>1, <1>4, <1>5 DEF Accepts
\* The next steps of the exchange: with a secret, with a profile.
LEMMA ExchangeTab ==
    ASSUME NEW r, DOMAIN r = Fields, NEW v
    PROVE  /\ LET s == [r EXCEPT !.step = "token", !.secret = v] IN
              /\ DOMAIN s = Fields /\ s.step = "token" /\ s.secret = v
              /\ s.at = r.at /\ s.module = r.module /\ s.req = r.req /\ s.last = r.last
           /\ LET s == [r EXCEPT !.step = "check", !.info = v] IN
              /\ DOMAIN s = Fields /\ s.step = "check" /\ s.info = v
              /\ s.at = r.at /\ s.module = r.module /\ s.req = r.req /\ s.last = r.last
  BY DEF Fields

\* memcached has the secret of a token, if it has one, under the token.
LEMMA SecretIsOwn ==
    ASSUME SignInInv, NEW t \in Tabs, NEW secret \in SecretsOf(t)
    PROVE  secret = tab[t].req.code
<1>1. SecretKey(tab[t].req.code) \in DOMAIN mem /\ secret = mem[SecretKey(tab[t].req.code)]
  BY DEF SecretsOf
<1>2. SecretKey(tab[t].req.code).space = "tuscanyOAuth1Token" /\ SecretKey(tab[t].req.code).id = tab[t].req.code
  BY DEF SecretKey
<1> QED
  BY <1>1, <1>2 DEF SignInInv, SecretsAreTrue

LEMMA GetSecretKeeps ==
    ASSUME SignInInv, NEW t \in Tabs, GetSecret(t)
    PROVE  SignInInv'
<1>1. UNCHANGED Rest /\ jar' = jar
  BY DEF Rest, GetSecret
<1>2. JarsGoOn
  BY <1>1, JarsUnchanged
<1>3. CASE Errs(t)
  BY <1>1, <1>2, <1>3, ErrsKeeps
<1>4. ASSUME NEW secret \in SecretsOf(t), Moves(t, [tab[t] EXCEPT !.step = "token", !.secret = secret])
      PROVE  SignInInv'
  <2> DEFINE next == [tab[t] EXCEPT !.step = "token", !.secret = secret]
  <2>1. /\ DOMAIN next = Fields /\ next.step = "token" /\ next.secret = secret
        /\ next.at = tab[t].at /\ next.module = tab[t].module /\ next.req = tab[t].req /\ next.last = tab[t].last
    BY TabOwns, ExchangeTab
  <2>2. Moves(t, next)
    BY <1>4
  <2> HIDE DEF next
  <2>3. tab[t].at = "busy" /\ Exchanges(t, tab[t])
    BY TabOwns DEF GetSecret, Busy
  <2>4. Exchanges(t, next)
    BY <2>1, <2>3, SecretIsOwn DEF Exchanges
  <2> QED
    BY <1>1, <1>2, <2>1, <2>2, <2>3, <2>4, TabOwns, MoveKeeps DEF Places
<1> QED
  BY <1>3, <1>4 DEF GetSecret

\* What the provider knows has the realm that was asked.
LEMMA ProfileRealm ==
    ASSUME NEW cid, NEW user
    PROVE  profileUserInfo(cid, user)["realm"] = cid
  BY DEF profileUserInfo, Put

LEMMA GetInfoKeeps ==
    ASSUME SignInInv, NEW t \in Tabs, GetInfo(t)
    PROVE  SignInInv'
<1> DEFINE info == profileUserInfo(tab[t].req.cid, flows[tab[t].req.code].user)
           next == [tab[t] EXCEPT !.step = "check", !.info = info]
<1>1. UNCHANGED Rest /\ jar' = jar
  BY DEF Rest, GetInfo
<1>2. JarsGoOn
  BY <1>1, JarsUnchanged
<1>3. Moves(t, next) \/ Errs(t)
  <2>1. \A format : oauth1ProfileUserInfo(tab[t].req.cid, flows[tab[t].req.code].user, format) \in {<<info>>, <<>>}
    BY DEF oauth1ProfileUserInfo
  <2>2. <<info>>[1] = info /\ <<info>> # <<>>
    OBVIOUS
  <2> HIDE DEF info
  <2> QED
    BY <2>1, <2>2 DEF GetInfo, HasInfo, info
<1>4. CASE Errs(t)
  BY <1>1, <1>2, <1>4, ErrsKeeps
<1>5. CASE Moves(t, next)
  <2>1. info["realm"] = tab[t].req.cid
    BY ProfileRealm
  <2>2. info = profileUserInfo(info["realm"], flows[tab[t].req.code].user)
    BY <2>1
  <2> HIDE DEF info
  <2>3. /\ DOMAIN next = Fields /\ next.step = "check" /\ next.info = info
        /\ next.at = tab[t].at /\ next.module = tab[t].module /\ next.req = tab[t].req /\ next.last = tab[t].last
    BY TabOwns, ExchangeTab
  <2>4. tab[t].at = "busy" /\ tab[t].step = "info" /\ Exchanges(t, tab[t])
    BY TabOwns DEF GetInfo, Busy
  <2> HIDE DEF next
  <2>5. Exchanges(t, next)
    BY <2>2, <2>3, <2>4 DEF Exchanges
  <2> QED
    BY <1>1, <1>2, <1>5, <2>3, <2>4, <2>5, TabOwns, MoveKeeps DEF Places
<1> QED
  BY <1>3, <1>4, <1>5

LEMMA AccessFailsKeeps ==
    ASSUME SignInInv, NEW t \in Tabs, AccessFails(t)
    PROVE  SignInInv'
<1>1. UNCHANGED Rest /\ jar' = jar /\ Errs(t)
  BY DEF Rest, AccessFails
<1> QED
  BY <1>1, JarsUnchanged, ErrsKeeps

\* The check of a user grants the request, or sends the tab to the login page, or refuses it.
LEMMA CheckAnswers ==
    ASSUME NEW info, NEW m, NEW attempt, NEW j, NEW req
    PROVE  reportStatus(authenticated(info, m), attempt, j, req).what \in {"ok", "login", "status"}
<1>1. \A what : /\ Answer(what).what = what
                /\ DOMAIN Answer(what) = {"what", "rc", "user", "ref", "attempt", "clears", "module"}
  BY DEF Answer
<1>2. \A rc, user : Failed(rc).what = "status" /\ Granted(user).what = "ok"
  BY <1>1 DEF Failed, Granted
<1>3. authenticated(info, m).what \in {"ok", "status"}
  BY <1>2 DEF authenticated
<1>4. /\ login("/", attempt, req).what \in {"login", "status"}
      /\ "what" \in DOMAIN login("/", attempt, req)
  <2>1. /\ DOMAIN Failed(403) = {"what", "rc", "user", "ref", "attempt", "clears", "module"}
        /\ Failed(403).what = "status"
    BY <1>1, <1>2 DEF Failed
  <2>2. LET a == [Answer("login") EXCEPT !.ref = "", !.attempt = attempt]
        IN a.what = "login" /\ "what" \in DOMAIN a
    BY <1>1
  <2>3. login("/", attempt, req) = IF req.nocache THEN Failed(403)
                                   ELSE [Answer("login") EXCEPT !.ref = "", !.attempt = attempt]
    BY DEF login
  <2>4. CASE req.nocache
    BY <2>1, <2>3, <2>4, Zenon
  <2>5. CASE ~req.nocache
    <3> DEFINE a == [Answer("login") EXCEPT !.ref = "", !.attempt = attempt]
    <3>1. a.what = "login" /\ "what" \in DOMAIN a
      BY <2>2
    <3>2. login("/", attempt, req) = a
      BY <2>3, <2>5, Zenon
    <3> HIDE DEF a
    <3> QED
      BY <3>1, <3>2
  <2> QED
    BY <2>4, <2>5, Zenon
<1>5. [login("/", attempt, req) EXCEPT !.clears = LastCookie(j)].what = login("/", attempt, req).what
  BY <1>4
<1> QED
  BY <1>3, <1>4, <1>5 DEF reportStatus

LEMMA CheckKeeps ==
    ASSUME SignInInv, NEW t \in Tabs, CheckUser(t)
    PROVE  SignInInv'
<1> DEFINE a == reportStatus(authenticated(tab[t].info, tab[t].module), TRUE, Jar(t), tab[t].req)
<1>1. a.what \in {"ok", "login", "status"}
  BY CheckAnswers
<1> HIDE DEF a
<1>2. /\ UNCHANGED Rest /\ Sets(t, a.clears, NoSid)
      /\ CASE a.what = "ok" -> Step(t, "store")
           [] a.what = "login" -> Moves(t, [At(t, "login") EXCEPT !.ref = a.ref])
           [] a.what = "status" -> Errs(t)
  BY DEF CheckUser, Rest, a
<1>3. JarsGoOn
  BY <1>2, JarsCleared
<1>4. CASE Errs(t)
  BY <1>2, <1>3, <1>4, ErrsKeeps
<1>5. CASE Moves(t, [At(t, "login") EXCEPT !.ref = a.ref])
  <2> DEFINE next == [At(t, "login") EXCEPT !.ref = a.ref]
  <2>1. DOMAIN next = Fields /\ next.at = "login" /\ next.req = Get("/") /\ next.last = tab[t].last
    BY AtExcept
  <2> HIDE DEF next
  <2>2. Moves(t, next)
    BY <1>5 DEF next
  <2> QED
    BY <1>2, <1>3, <2>1, <2>2, RestKeeps
<1>6. CASE Step(t, "store")
  <2> DEFINE next == [tab[t] EXCEPT !.at = "busy", !.step = "store"]
  <2>1. /\ DOMAIN next = Fields
        /\ next.at = "busy" /\ next.step = "store" /\ next.req = tab[t].req /\ next.last = tab[t].last
        /\ next.module = tab[t].module /\ next.secret = tab[t].secret /\ next.info = tab[t].info
    BY TabOwns, StepTab
  <2> HIDE DEF next
  <2>2. Moves(t, next)
    BY <1>6 DEF Step, next
  <2>3. tab[t].at = "busy" /\ tab[t].step = "check" /\ Exchanges(t, tab[t])
    BY TabOwns DEF CheckUser, Busy
  <2>4. Exchanges(t, next)
    BY <2>1, <2>3 DEF Exchanges
  <2> QED
    BY <1>2, <1>3, <2>1, <2>2, <2>4, TabOwns, MoveKeeps DEF Places
<1> QED
  BY <1>1, <1>2, <1>4, <1>5, <1>6
-----------------------------------------------------------------------------
(* The steps that make and use codes, and the one that makes a session *)

LEMMA BoundsAre ==
    ASSUME SignInInv
    PROVE  /\ setup.flows \in Nat /\ setup.ids \in Nat /\ setup.faults \in Nat
           /\ ids \in 0 .. setup.ids /\ repeated \subseteq 1 .. ids /\ faults \in 0 .. setup.faults /\ Len(flows) <= setup.flows
  BY SignInAssumption DEF SignInInv, TypeOK

\* What a step with a new flow, item or session must show for the invariant to hold after it.
LEMMA StepKeeps ==
    ASSUME SignInInv, NEW t \in Tabs, NEW next, Moves(t, next), setup' = setup, FlowsGoOn,
           DOMAIN jar' = Browsers, \A b \in Browsers : DOMAIN jar'[b] = Range(Modules),
           TypeOK', SecretsAreTrue', SessionsAreNumbered', SessionsAreTheirs',
           flows' \in Seq(FlowRecord),
           DOMAIN next = Fields, Given(next.req)', Given(next.last)',
           next.at = "busy" => Exchanges(t, next)',
           \A u \in Tabs : TokenIsOwn(u)'
    PROVE  SignInInv'
<1>1. /\ tab'[t] = next /\ DOMAIN tab' = Tabs
      /\ \A u \in Tabs \ {t} : tab'[u] = tab[u]
  BY DEF SignInInv, Shapes, Moves
<1>2. Shapes'
  <2>1. FlowRecord' = FlowRecord
    BY DEF FlowRecord
  <2>2. (flows \in Seq(FlowRecord))'
    BY <2>1
  <2>3. \A u \in Tabs : /\ DOMAIN tab'[u] = Fields
                         /\ DOMAIN tab'[u].req = RequestFields /\ DOMAIN tab'[u].last = RequestFields
                         /\ HeadersName(tab'[u].req) /\ HeadersName(tab'[u].last)
    BY <1>1, TabOwns DEF Given
  <2>4. \A u \in Tabs : /\ DOMAIN tab'[u] = DOMAIN NoTab
                         /\ \A req \in {tab'[u].req, tab'[u].last} : DOMAIN req = DOMAIN NoRequest /\ HeadersName(req)
    BY <2>3, Fieldnames
  <2> QED
    BY <1>1, <2>2, <2>4, Zenon DEF Shapes, FlowRecord
<1>3. CodeIsGiven(t)' /\ ExchangeIsOwn(t)'
  BY MovedOwns
<1>4. \A u \in Tabs \ {t} : CodeIsGiven(u)' /\ ExchangeIsOwn(u)'
  BY <1>1, OthersOwn
<1> QED
  BY <1>2, <1>3, <1>4 DEF SignInInv

\* A code that is a tab's own stays so.
LEMMA OwnsStay ==
    ASSUME NEW t \in Tabs, NEW req, Given(req), setup' = setup, FlowsGoOn
    PROVE  Given(req)'
  BY DEF Given, FlowsGoOn

\* The types after a step, when the tab, the flows and the cookies have theirs.
LEMMA TypesStay ==
    ASSUME SignInInv, NEW t \in Tabs, NEW next, Moves(t, next), UNCHANGED <<setup, accounts, faults>>,
           next.at \in Places, ids' \in 0 .. setup.ids, repeated' \subseteq 1 .. ids', Len(flows') <= setup.flows,
           \A b \in Browsers, m \in Range(Modules) :
               jar'[b][m] = NoSid \/ jar'[b][m].type \in {"form", "OAuth1_", "OAuth2_"}
    PROVE  TypeOK'
<1>1. /\ tab'[t] = next
      /\ \A u \in Tabs \ {t} : tab'[u] = tab[u]
  BY DEF SignInInv, Shapes, Moves
<1> QED
  BY <1>1 DEF SignInInv, TypeOK, Places

\* A sequence of flows with one that is new or changed.
FlowWith(fs, id, r) == [i \in DOMAIN fs \union {id} |-> IF i = id THEN r ELSE fs[i]]

LEMMA FlowPut ==
    ASSUME NEW fs \in Seq(FlowRecord), NEW id \in 1 .. Len(fs) + 1, NEW r \in FlowRecord
    PROVE  /\ FlowWith(fs, id, r) \in Seq(FlowRecord) /\ Len(FlowWith(fs, id, r)) = IF id > Len(fs) THEN id ELSE Len(fs)
           /\ DOMAIN FlowWith(fs, id, r) = DOMAIN fs \union {id} /\ FlowWith(fs, id, r)[id] = r
           /\ \A i \in DOMAIN fs : i # id => FlowWith(fs, id, r)[i] = fs[i]
<1> DEFINE n == IF id > Len(fs) THEN id ELSE Len(fs)
           gs == FlowWith(fs, id, r)
<1>1. n \in Nat /\ DOMAIN fs \union {id} = 1 .. n /\ \A i \in DOMAIN fs : fs[i] \in FlowRecord
  BY ElementOfSeq
<1>2. gs \in [1 .. n -> FlowRecord]
  BY <1>1 DEF FlowWith
<1>3. gs \in Seq(FlowRecord)
  <2> HIDE DEF n, gs
  <2>1. n \in Nat
    BY <1>1
  <2>2. Seq(FlowRecord) = UNION {[1 .. k -> FlowRecord] : k \in Nat}
    BY SeqDef
  <2> QED
    BY <1>2, <2>1, <2>2
<1>4. Len(gs) = n
  <2> HIDE DEF n, gs
  <2> QED
    BY <1>1, <1>2, <1>3, LenProperties
<1>5. gs[id] = r /\ \A i \in DOMAIN fs : i # id => gs[i] = fs[i]
  BY DEF FlowWith
<1> QED
  BY <1>1, <1>2, <1>3, <1>4, <1>5

\* A new token of OAuth 1, with its secret.
LEMMA NewTokenKeeps ==
    ASSUME SignInInv, NEW t \in Tabs, oauth1Authorize(t)
    PROVE  SignInInv'
<1>r. /\ UNCHANGED <<setup, accounts, jar, ids, repeated, faults>> /\ NextFlow <= setup.flows
      /\ flows' = Append(flows, [state |-> "asked", user |-> "", browser |-> ""])
      /\ mem' = Put(mem, SecretKey(NextFlow), NextFlow)
      /\ ToProvider(t, "oauth1", NextFlow)
  BY DEF oauth1Authorize
<1>s. UNCHANGED <<setup, accounts, faults>>
  BY <1>r
<1>1. PICK next : next = [At(t, "provider") EXCEPT !.module = "oauth1", !.req = tab[t].req, !.token = NextFlow]
  OBVIOUS
<1>2. /\ DOMAIN next = Fields /\ next.at = "provider" /\ next.module = "oauth1" /\ next.token = NextFlow
      /\ next.req = tab[t].req /\ next.last = tab[t].last
  BY <1>1, ProviderTab
<1>3. Moves(t, next)
  BY <1>r, <1>1 DEF ToProvider
<1>4. PICK r \in FlowRecord : r.state = "asked" /\ flows' = Append(flows, r)
  <2>1. [state |-> "asked", user |-> "", browser |-> ""] \in FlowRecord
    BY DEF FlowRecord
  <2> QED
    BY <1>r, <2>1
<1>5. /\ flows' \in Seq(FlowRecord) /\ Len(flows') = NextFlow /\ flows'[NextFlow] = r
      /\ Len(flows) \in Nat /\ DOMAIN flows = 1 .. Len(flows) /\ DOMAIN flows' = 1 .. NextFlow
      /\ \A i \in DOMAIN flows : flows'[i] = flows[i]
  <2>1. flows \in Seq(FlowRecord)
    BY FlowShape
  <2> QED
    BY <1>4, <2>1, AppendProperties, LenProperties DEF NextFlow
<1>6. FlowsGoOn
  BY <1>5 DEF FlowsGoOn, NextFlow
<1>7. /\ SecretKey(NextFlow).space = "tuscanyOAuth1Token" /\ SecretKey(NextFlow).id = NextFlow
      /\ mem'[SecretKey(NextFlow)] = NextFlow
      /\ \A k \in DOMAIN mem' : k # SecretKey(NextFlow) => k \in DOMAIN mem /\ mem'[k] = mem[k]
  BY <1>r DEF SecretKey, Put
<1>8. SecretsAreTrue'
  BY <1>7 DEF SignInInv, SecretsAreTrue
<1>9. JarsGoOn
  BY <1>r, JarsUnchanged
<1>10. SessionsAreTheirs' /\ SessionsAreNumbered'
  BY <1>r, <1>6, <1>7, <1>9, SessionsStay
<1>11. TypeOK'
  <2>1. TypeOK
    BY DEF SignInInv
  <2> QED
    <3>1. ids' \in 0 .. setup.ids /\ repeated' \subseteq 1 .. ids' /\ Len(flows') <= setup.flows
      BY <1>r, <1>5, BoundsAre
    <3>2. \A b \in Browsers, m \in Range(Modules) :
              jar'[b][m] = NoSid \/ jar'[b][m].type \in {"form", "OAuth1_", "OAuth2_"}
      BY <1>9, <2>1, JarsTypes
    <3>3. next.at \in Places
      BY <1>2 DEF Places
    <3> QED
      BY <1>s, <1>3, <3>1, <3>2, <3>3, TypesStay
<1>12. Given(next.req)' /\ Given(next.last)'
  <2>2. Given(tab[t].req) /\ Given(tab[t].last)
    BY TabOwns
  <2>3. Given(next.req) /\ Given(next.last)
    BY <1>2, <2>2
  <2> QED
    BY <1>s, <1>6, <2>3, OwnsStay
<1>13. \A u \in Tabs : TokenIsOwn(u)'
  <2>1. /\ tab'[t] = next
        /\ \A u \in Tabs \ {t} : tab'[u] = tab[u]
    BY <1>3 DEF SignInInv, Shapes, Moves
  <2>2. \A u \in Tabs : TokenIsOwn(u)
    BY DEF SignInInv
  <2>3. \A u \in Tabs \ {t} : tab[u].at = "provider" /\ tab[u].module = "oauth1" =>
            tab[u].token # NextFlow /\ tab[u].token \in DOMAIN flows
    BY <1>5, <2>2 DEF TokenIsOwn, NextFlow
  <2>4. TokenIsOwn(t)'
    BY <1>2, <1>4, <1>5, <2>1, <2>3 DEF TokenIsOwn, NextFlow
  <2>5. ASSUME NEW u \in Tabs \ {t}
        PROVE  TokenIsOwn(u)'
    BY <1>2, <1>5, <2>1, <2>2, <2>3 DEF TokenIsOwn, NextFlow
  <2> QED
    BY <2>4, <2>5
<1> QED
  BY <1>r, <1>2, <1>3, <1>5, <1>6, <1>8, <1>9, <1>10, <1>11, <1>12, <1>13, StepKeeps DEF JarsGoOn

\* The token of a tab, or a new code, is approved by a user.
LEMMA ApproveKeeps ==
    ASSUME SignInInv, NEW t \in Tabs, Approve(t)
    PROVE  SignInInv'
<1>0. PICK id : id = IF tab[t].module = "oauth1" THEN tab[t].token ELSE NextFlow
  OBVIOUS
<1>1. PICK u \in Users :
          /\ id <= setup.flows
          /\ flows' = [i \in DOMAIN flows \union {id} |->
                          IF i = id THEN [state |-> "approved", user |-> u, browser |-> ""] ELSE flows[i]]
          /\ Back(t, id)
  BY <1>0, Zenon DEF Approve
<1>s. UNCHANGED <<setup, accounts, mem, jar, ids, repeated, faults>> /\ tab[t].at = "provider"
  BY DEF Approve
<1>2. PICK req : req = [tab[t].req EXCEPT !.uri = Path(tab[t].module, "access_token"), !.code = id]
  OBVIOUS
<1>3. PICK next : next = [At(t, "request") EXCEPT !.req = req, !.last = req]
  OBVIOUS
<1>4. /\ DOMAIN next = Fields /\ next.at = "request" /\ next.req = req /\ next.last = req
      /\ DOMAIN req = RequestFields /\ req.header = tab[t].req.header /\ req.code = id
  BY <1>2, <1>3, BackTab
<1>5. Moves(t, next)
  BY <1>1, <1>2, <1>3 DEF Back
<1>6. /\ flows \in Seq(FlowRecord) /\ Len(flows) \in Nat /\ DOMAIN flows = 1 .. Len(flows)
      /\ \A u1 \in Tabs : TokenIsOwn(u1)
  BY FlowShape DEF SignInInv
<1>7. id \in 1 .. Len(flows) + 1 /\ (id \in DOMAIN flows => flows[id].state = "asked")
  BY <1>0, <1>s, <1>6 DEF TokenIsOwn, NextFlow
<1>8. PICK r \in FlowRecord : r.state = "approved" /\ flows' = FlowWith(flows, id, r)
  <2>1. [state |-> "approved", user |-> u, browser |-> ""] \in FlowRecord
    BY <1>1 DEF FlowRecord
  <2> QED
    BY <1>1, <2>1 DEF FlowWith
<1>9. /\ flows' \in Seq(FlowRecord) /\ Len(flows') = IF id > Len(flows) THEN id ELSE Len(flows)
      /\ DOMAIN flows' = DOMAIN flows \union {id} /\ flows'[id] = r
      /\ \A i \in DOMAIN flows : i # id => flows'[i] = flows[i]
  <2>1. flows \in Seq(FlowRecord) /\ id \in 1 .. Len(flows) + 1
    BY <1>6, <1>7
  <2> DEFINE gs == FlowWith(flows, id, r)
  <2>2. /\ gs \in Seq(FlowRecord) /\ Len(gs) = IF id > Len(flows) THEN id ELSE Len(flows)
        /\ DOMAIN gs = DOMAIN flows \union {id} /\ gs[id] = r
        /\ \A i \in DOMAIN flows : i # id => gs[i] = flows[i]
    BY <2>1, FlowPut
  <2>3. flows' = gs
    BY <1>8
  <2> HIDE DEF gs
  <2> QED
    BY <2>2, <2>3
<1>10. FlowsGoOn
  BY <1>7, <1>9 DEF FlowsGoOn
<1>11. JarsGoOn /\ DOMAIN jar' = Browsers /\ \A b \in Browsers : DOMAIN jar'[b] = Range(Modules)
  BY <1>s, JarsUnchanged, JarShape
<1>12. SessionsAreTheirs' /\ SessionsAreNumbered' /\ SecretsAreTrue'
  <2>1. SecretsAreTrue'
    BY <1>s DEF SignInInv, SecretsAreTrue
  <2> QED
    BY <1>s, <1>10, <1>11, <2>1, SessionsStay
<1>13. TypeOK'
  <2>1. TypeOK
    BY DEF SignInInv
  <2>2. ids' \in 0 .. setup.ids /\ repeated' \subseteq 1 .. ids' /\ Len(flows') <= setup.flows
    BY <1>1, <1>s, <1>9, BoundsAre
  <2>3. \A b \in Browsers, m \in Range(Modules) :
            jar'[b][m] = NoSid \/ jar'[b][m].type \in {"form", "OAuth1_", "OAuth2_"}
    BY <1>11, <2>1, JarsTypes
  <2>4. next.at \in Places
    BY <1>4 DEF Places
  <2>5. UNCHANGED <<setup, accounts, faults>>
    BY <1>s
  <2> QED
    BY <1>5, <2>2, <2>3, <2>4, <2>5, TypesStay
<1>14. Given(next.req)' /\ Given(next.last)'
  <2>1. Given(req)'
    BY <1>s, <1>4, <1>8, <1>9, TabOwns DEF Given, HeadersName
  <2> QED
    BY <1>4, <2>1
<1>15. \A u1 \in Tabs : TokenIsOwn(u1)'
  <2>1. /\ tab'[t] = next
        /\ \A u1 \in Tabs \ {t} : tab'[u1] = tab[u1]
    BY <1>5 DEF SignInInv, Shapes, Moves
  <2>2. ASSUME NEW v \in Tabs \ {t}, tab[v].at = "provider", tab[v].module = "oauth1"
        PROVE  tab[v].token \in DOMAIN flows' /\ flows'[tab[v].token].state = flows[tab[v].token].state
    <3>1. tab[v].token \in DOMAIN flows /\ tab[v].token # id
      BY <1>0, <1>s, <1>6, <2>2 DEF TokenIsOwn, NextFlow
    <3> QED
      BY <1>9, <3>1
  <2>3. tab'[t].at # "provider"
    BY <1>4, <2>1
  <2> QED
    BY <2>1, <2>2, <2>3, TokensStay
<1>16. setup' = setup /\ next.at # "busy"
  BY <1>s, <1>4
<1> QED
  BY <1>4, <1>5, <1>9, <1>10, <1>11, <1>12, <1>13, <1>14, <1>15, <1>16, StepKeeps

\* The code of the tab is used.
LEMMA TokenKeeps ==
    ASSUME SignInInv, NEW t \in Tabs, GetToken(t)
    PROVE  SignInInv'
<1> DEFINE code == tab[t].req.code
<1>1. /\ UNCHANGED <<setup, accounts, mem, jar, ids, repeated, faults>>
      /\ tab[t].at = "busy" /\ tab[t].step = "token" /\ flows[code].state = "approved"
      /\ flows' = [flows EXCEPT ![code] = [@ EXCEPT !.state = "used", !.browser = setup.browser[t]]]
      /\ Step(t, "info")
  BY DEF GetToken, Busy, Takes
<1>2. PICK next : next = [tab[t] EXCEPT !.at = "busy", !.step = "info"]
  OBVIOUS
<1>3. /\ DOMAIN next = Fields
      /\ next.at = "busy" /\ next.step = "info" /\ next.req = tab[t].req /\ next.last = tab[t].last
      /\ next.module = tab[t].module /\ next.secret = tab[t].secret /\ next.info = tab[t].info
  BY <1>2, TabOwns, StepTab
<1>4. Moves(t, next)
  BY <1>1, <1>2 DEF Step
<1>5. Given(tab[t].req) /\ Given(tab[t].last) /\ Exchanges(t, tab[t])
  BY <1>1, TabOwns
<1>6. code # 0 /\ code \in DOMAIN flows
  BY <1>5 DEF Given, Exchanges
<1>7. flows \in Seq(FlowRecord) /\ DOMAIN flows = 1 .. Len(flows) /\ Len(flows) \in Nat
  BY FlowShape
<1>8. PICK r \in FlowRecord : /\ r.state = "used" /\ r.browser = setup.browser[t]
                              /\ flows' = [flows EXCEPT ![code] = r]
  <2> DEFINE r == [flows[code] EXCEPT !.state = "used", !.browser = setup.browser[t]]
  <2>1. flows[code] \in FlowRecord
    BY <1>6, <1>7, ElementOfSeq
  <2>2. r \in FlowRecord /\ r.state = "used" /\ r.browser = setup.browser[t]
    BY <2>1 DEF FlowRecord
  <2>3. flows' = [flows EXCEPT ![code] = r]
    BY <1>1
  <2> QED
    BY <2>2, <2>3
<1>9. /\ flows' \in Seq(FlowRecord) /\ Len(flows') = Len(flows) /\ DOMAIN flows' = DOMAIN flows /\ flows'[code] = r
      /\ \A i \in DOMAIN flows : i # code => flows'[i] = flows[i]
  BY <1>6, <1>7, <1>8, ExceptSeq
<1>10. FlowsGoOn
  BY <1>1, <1>8, <1>9 DEF FlowsGoOn
<1>11. JarsGoOn /\ DOMAIN jar' = Browsers /\ \A b \in Browsers : DOMAIN jar'[b] = Range(Modules)
  BY <1>1, JarsUnchanged, JarShape
<1>12. SessionsAreTheirs' /\ SessionsAreNumbered' /\ SecretsAreTrue'
  <2>1. SecretsAreTrue'
    BY <1>1 DEF SignInInv, SecretsAreTrue
  <2>2. ids' = ids /\ repeated' = repeated /\ mem' = mem
    BY <1>1
  <2> QED
    BY <1>10, <1>11, <2>1, <2>2, SessionsStay
<1>s. UNCHANGED <<setup, accounts, faults>>
  BY <1>1
<1>13. TypeOK'
  <2>1. TypeOK
    BY DEF SignInInv
  <2>2. ids' \in 0 .. setup.ids /\ repeated' \subseteq 1 .. ids' /\ Len(flows') <= setup.flows
    BY <1>1, <1>9, BoundsAre
  <2>3. \A b \in Browsers, m \in Range(Modules) :
            jar'[b][m] = NoSid \/ jar'[b][m].type \in {"form", "OAuth1_", "OAuth2_"}
    BY <1>11, <2>1, JarsTypes
  <2>4. next.at \in Places
    BY <1>3 DEF Places
  <2> QED
    BY <1>s, <1>4, <2>2, <2>3, <2>4, TypesStay
<1>14. Given(next.req)' /\ Given(next.last)'
  <2>1. Given(next.req) /\ Given(next.last)
    BY <1>3, <1>5
  <2> QED
    BY <1>s, <1>10, <2>1, OwnsStay
<1>15. Exchanges(t, next)'
  <2>1. setup'.browser[t] = setup.browser[t]
    BY <1>s
  <2> QED
    BY <1>3, <1>5, <1>8, <1>9, <2>1 DEF Exchanges
<1>16. \A u \in Tabs : TokenIsOwn(u)'
  <2>1. /\ tab'[t] = next
        /\ \A u \in Tabs \ {t} : tab'[u] = tab[u]
    BY <1>4 DEF SignInInv, Shapes, Moves
  <2>2. ASSUME NEW v \in Tabs \ {t}, tab[v].at = "provider", tab[v].module = "oauth1"
        PROVE  tab[v].token \in DOMAIN flows' /\ flows'[tab[v].token].state = flows[tab[v].token].state
    <3>1. tab[v].token \in DOMAIN flows /\ flows[tab[v].token].state = "asked"
      BY <2>2 DEF SignInInv, TokenIsOwn
    <3> QED
      BY <1>1, <1>9, <3>1
  <2>3. tab'[t].at # "provider"
    BY <1>3, <2>1
  <2> QED
    BY <2>1, <2>2, <2>3, TokensStay
<1> QED
  BY <1>s, <1>3, <1>4, <1>9, <1>10, <1>11, <1>12, <1>13, <1>14, <1>15, <1>16, StepKeeps
\* The session that a tab is given is of the user whose code its browser used, under a number that is new or that
\* is kept with those that were drawn again.
LEMMA StoreKeeps ==
    ASSUME SignInInv, NEW t \in Tabs, StoreSession(t)
    PROVE  SignInInv'
<1> DEFINE m == tab[t].module
           code == tab[t].req.code
           b == setup.browser[t]
<1>0. PICK id \in 1 .. ids + 1 :
          LET s == [NoSid EXCEPT !.type = Type(m), !.id = id]
          IN /\ id <= setup.ids
             /\ mem' = Put(mem, InfoKey(m, s), tab[t].info)
             /\ Sets(t, m, s)
             /\ ids' = IF id > ids THEN id ELSE ids
             /\ repeated' = repeated \union ({id} \intersect 1 .. ids)
  BY DEF StoreSession
<1>1. PICK sid : sid = [NoSid EXCEPT !.type = Type(m), !.id = id]
  OBVIOUS
<1>2. /\ UNCHANGED <<setup, accounts, flows, faults>>
      /\ tab[t].at = "busy" /\ tab[t].step = "store" /\ id <= setup.ids /\ ids' = IF id > ids THEN id ELSE ids
      /\ repeated' = repeated \union ({id} \intersect 1 .. ids)
      /\ mem' = Put(mem, InfoKey(m, sid), tab[t].info)
      /\ Sets(t, m, sid)
      /\ Redirects(t, Get(tab[t].req.ref))
  BY <1>0, <1>1 DEF StoreSession, Busy
<1>3. /\ Given(tab[t].req) /\ Given(tab[t].last) /\ Exchanges(t, tab[t])
      /\ m \in {"oauth1", "oauth2"} /\ code \in DOMAIN flows /\ flows[code].browser = b
      /\ flows[code].state = "used" /\ tab[t].info = profileUserInfo(tab[t].info["realm"], flows[code].user)
  BY <1>2, TabOwns DEF Given, Exchanges
<1>4. sid.type \in {"OAuth1_", "OAuth2_"} /\ sid.id = id /\ sid # NoSid
  <2>1. sid.type = Type(m) /\ sid.id = id
    BY <1>1 DEF NoSid
  <2>2. Type(m) \in {"OAuth1_", "OAuth2_"} /\ NoSid.type = ""
    BY DEF Type, NoSid
  <2> QED
    BY <2>1, <2>2
<1>5. FlowsGoOn
  BY <1>2 DEF FlowsGoOn
<1>6. /\ ids \in Nat /\ ids' \in 0 .. setup.ids /\ 1 .. ids \subseteq 1 .. ids' /\ id \in 1 .. ids'
      /\ repeated' \subseteq 1 .. ids'
  BY <1>2, BoundsAre
<1>7. /\ DOMAIN jar' = Browsers /\ \A c \in Browsers : DOMAIN jar'[c] = Range(Modules)
      /\ \A c \in Browsers, n \in Range(Modules) :
            jar'[c][n] = IF c = b /\ n = m THEN sid ELSE jar[c][n]
  <2>1. m # "" /\ m \in Range(Modules)
    BY <1>3, ModuleNames
  <2>2. jar' = [jar EXCEPT ![b] = [jar[b] EXCEPT ![m] = sid]]
    BY <1>2, <2>1 DEF Sets, cookie
  <2> HIDE DEF m, b
  <2>3. /\ DOMAIN jar' = Browsers
        /\ \A c \in Browsers : jar'[c] = IF c = b THEN [jar[c] EXCEPT ![m] = sid] ELSE jar[c]
    BY <2>2, JarShape
  <2> QED
    BY <2>1, <2>3, JarShape
<1>8. \A k : k \in DOMAIN mem' <=> k \in DOMAIN mem \/ k = InfoKey(m, sid)
  BY <1>2 DEF Put
<1>9. /\ mem'[InfoKey(m, sid)] = tab[t].info
      /\ \A k \in DOMAIN mem : k # InfoKey(m, sid) => mem'[k] = mem[k]
  BY <1>2 DEF Put
<1>10. SessionsAreNumbered'
  <2> SUFFICES ASSUME NEW c \in Browsers, NEW n \in {"oauth1", "oauth2"}, jar'[c][n] # NoSid
               PROVE  jar'[c][n].id \in 1 .. ids'
    BY DEF SessionsAreNumbered, hasSession, sessionID
  <2>1. jar[c][n] # NoSid => jar[c][n].id \in 1 .. ids
    BY DEF SignInInv, SessionsAreNumbered, hasSession, sessionID
  <2>2. jar'[c][n] = sid \/ jar'[c][n] = jar[c][n]
    BY <1>7, ModuleNames
  <2> QED
    BY <1>2, <1>4, <1>6, <2>1, <2>2
<1>11. SessionsAreTheirs'
  <2> SUFFICES ASSUME NEW c \in Browsers, NEW n \in {"oauth1", "oauth2"},
                      jar'[c][n] # NoSid, jar'[c][n].id \notin repeated', userInfo(n, jar[c][n])' # <<>>
               PROVE  LET info == userInfo(n, jar[c][n])' IN
                      \E i \in DOMAIN flows' :
                          /\ flows'[i].browser = c /\ flows'[i].state = "used"
                          /\ info[1] = profileUserInfo(info[1]["realm"], flows'[i].user)
    BY DEF SessionsAreTheirs, hasSession, sessionID, profileUserInfo
  <2>1. CASE c = b /\ n = m
    <3>1. jar'[c][n] = sid
      BY <1>7, <2>1, ModuleNames
    <3>2. userInfo(n, jar[c][n])' = <<tab[t].info>>
      BY <1>8, <1>9, <2>1, <3>1 DEF userInfo, InfoKey
    <3> QED
      BY <1>2, <1>3, <2>1, <3>2
  <2>2. CASE ~(c = b /\ n = m)
    <3>1. jar'[c][n] = jar[c][n]
      BY <1>7, <2>2, ModuleNames
    <3>2. jar[c][n].id \in 1 .. ids
      BY <3>1 DEF SignInInv, SessionsAreNumbered, hasSession, sessionID
    <3>3. InfoKey(n, jar[c][n]) # InfoKey(m, sid) /\ InfoKey(n, jar[c][n])' = InfoKey(n, jar[c][n])
      <4>1. InfoKey(n, jar[c][n]).id = jar[c][n].id /\ InfoKey(m, sid).id = sid.id
        BY DEF InfoKey
      <4>2. jar[c][n].id # sid.id
        BY <1>2, <1>4, <1>6, <3>1, <3>2
      <4> QED
        BY <3>1, <4>1, <4>2 DEF InfoKey
    <3>4. userInfo(n, jar[c][n])' = userInfo(n, jar[c][n])
      <4> DEFINE k == InfoKey(n, jar[c][n])
      <4>1. userInfo(n, jar[c][n])' = IF k \in DOMAIN mem' THEN <<mem'[k]>> ELSE <<>>
        BY <3>3 DEF userInfo
      <4>2. k \in DOMAIN mem' <=> k \in DOMAIN mem
        BY <1>8, <3>3
      <4>3. k \in DOMAIN mem => mem'[k] = mem[k]
        BY <1>9, <3>3
      <4> QED
        BY <4>1, <4>2, <4>3 DEF userInfo
    <3>6. jar[c][n].id \notin repeated
      BY <1>2, <3>1
    <3>5. PICK i \in DOMAIN flows :
              /\ flows[i].browser = c /\ flows[i].state = "used"
              /\ userInfo(n, jar[c][n])[1] = profileUserInfo(userInfo(n, jar[c][n])[1]["realm"], flows[i].user)
      BY <3>1, <3>4, <3>6 DEF SignInInv, SessionsAreTheirs, hasSession, sessionID
    <3> QED
      BY <1>2, <3>4, <3>5
  <2> QED
    BY <2>1, <2>2
<1>12. SecretsAreTrue'
  <2>1. InfoKey(m, sid).space = m
    BY DEF InfoKey
  <2>2. InfoKey(m, sid).space # "tuscanyOAuth1Token"
    BY <1>3, <2>1
  <2> QED
    BY <1>8, <1>9, <2>2 DEF SignInInv, SecretsAreTrue
<1>13. PICK next : next = [At(t, "request") EXCEPT !.req = Get(tab[t].req.ref)]
  OBVIOUS
<1>14. DOMAIN next = Fields /\ next.at = "request" /\ next.req = Get(tab[t].req.ref) /\ next.last = tab[t].last
  BY <1>13, AtExcept
<1>15. Moves(t, next)
  BY <1>2, <1>13 DEF Redirects
<1>16. Given(next.req)' /\ Given(next.last)'
  <2>1. Given(next.req)
    BY <1>14, Fieldnames DEF Given, HeadersName, Get, NoRequest, RequestFields
  <2>2. Given(next.last)
    BY <1>3, <1>14
  <2> QED
    BY <1>2, <1>5, <2>1, <2>2, OwnsStay
<1>17. TypeOK'
  <2>1. \A c \in Browsers, n \in Range(Modules) :
            jar'[c][n] = NoSid \/ jar'[c][n].type \in {"form", "OAuth1_", "OAuth2_"}
    BY <1>4, <1>7 DEF SignInInv, TypeOK
  <2>2. Len(flows') <= setup.flows
    BY <1>2, BoundsAre
  <2>3. next.at \in Places
    BY <1>14 DEF Places
  <2>4. UNCHANGED <<setup, accounts, faults>>
    BY <1>2
  <2> QED
    BY <1>6, <1>15, <2>1, <2>2, <2>3, <2>4, TypesStay
<1>18. \A u \in Tabs : TokenIsOwn(u)'
  <2>1. /\ tab'[t] = next
        /\ \A u \in Tabs \ {t} : tab'[u] = tab[u]
    BY <1>15 DEF SignInInv, Shapes, Moves
  <2>2. \A u \in Tabs \ {t} : tab[u].at = "provider" /\ tab[u].module = "oauth1" =>
            tab[u].token \in DOMAIN flows
    BY DEF SignInInv, TokenIsOwn
  <2>3. tab'[t].at # "provider"
    BY <1>14, <2>1
  <2>4. flows' = flows
    BY <1>2
  <2> QED
    BY <2>1, <2>2, <2>3, <2>4, TokensStay
<1>19. flows' \in Seq(FlowRecord) /\ setup' = setup /\ next.at # "busy"
  BY <1>2, <1>14, FlowShape
<1> QED
  BY <1>5, <1>7, <1>10, <1>11, <1>12, <1>14, <1>15, <1>16, <1>17, <1>18, <1>19, StepKeeps

-----------------------------------------------------------------------------
(* The invariant, and what follows from it *)

\* A step that leaves the tabs, the flows and the cookies: items are lost, accounts removed, or nothing happens.
LEMMA QuietKeeps ==
    ASSUME SignInInv, UNCHANGED <<setup, tab, flows, jar, ids, repeated>>, TypeOK', SecretsAreTrue',
           \A k \in DOMAIN mem' : k \in DOMAIN mem /\ mem'[k] = mem[k]
    PROVE  SignInInv'
<1>1. FlowsGoOn /\ JarsGoOn
  BY JarsUnchanged DEF FlowsGoOn
<1>2. SessionsAreTheirs' /\ SessionsAreNumbered'
  BY <1>1, SessionsStay
<1>3. Shapes'
  <2>1. /\ Shapes /\ setup' = setup /\ tab' = tab /\ flows' = flows /\ jar' = jar
    BY DEF SignInInv
  <2>2. (flows \in Seq(FlowRecord))'
    BY <2>1, FlowShape DEF FlowRecord
  <2>3. (DOMAIN tab = Tabs /\ DOMAIN jar = Browsers /\ \A b \in Browsers : DOMAIN jar[b] = Range(Modules))'
    BY <2>1, Zenon DEF Shapes
  <2>4. (\A t \in Tabs : /\ DOMAIN tab[t] = DOMAIN NoTab
                         /\ \A req \in {tab[t].req, tab[t].last} : DOMAIN req = DOMAIN NoRequest /\ HeadersName(req))'
    BY <2>1, Zenon DEF Shapes
  <2> QED
    BY <2>2, <2>3, <2>4, Zenon DEF Shapes, FlowRecord
<1>4. \A t \in Tabs : CodeIsGiven(t)' /\ ExchangeIsOwn(t)'
  BY <1>1, OthersOwn
<1>5. \A t \in Tabs : TokenIsOwn(t)'
  BY DEF SignInInv, TokenIsOwn
<1> QED
  BY <1>2, <1>3, <1>4, <1>5 DEF SignInInv

LEMMA FaultsKeep ==
    ASSUME SignInInv, LoseItem \/ RemoveAccount
    PROVE  SignInInv'
<1>1. UNCHANGED <<setup, tab, flows, jar, ids, repeated>> /\ faults < setup.faults /\ faults' = faults + 1
  BY DEF LoseItem, RemoveAccount
<1>2. \A k \in DOMAIN mem' : k \in DOMAIN mem /\ mem'[k] = mem[k]
  BY DEF LoseItem, RemoveAccount, Restrict
<1>3. SecretsAreTrue'
  BY <1>2 DEF SignInInv, SecretsAreTrue
<1>4. DOMAIN accounts' \subseteq DOMAIN accounts
  BY DEF LoseItem, RemoveAccount, Restrict
<1>5. faults' \in 0 .. setup.faults
  BY <1>1, BoundsAre
<1>6. TypeOK'
  BY <1>1, <1>4, <1>5 DEF SignInInv, TypeOK
<1> QED
  BY <1>1, <1>2, <1>3, <1>6, QuietKeeps

LEMMA InitHolds == Init => SignInInv
<1> SUFFICES ASSUME Init
             PROVE  SignInInv
  OBVIOUS
<1>1. /\ NoTab.at = "login" /\ NoTab.req = Get("/") /\ NoTab.last = Get("/")
      /\ Get("/").code = 0 /\ DOMAIN Get("/") = RequestFields /\ HeadersName(Get("/"))
  BY Fieldnames DEF NoTab, Get, NoRequest, RequestFields, HeadersName
<1>2. /\ DOMAIN tab = Tabs /\ DOMAIN jar = Browsers
      /\ \A b \in Browsers : DOMAIN jar[b] = Range(Modules) /\ \A m \in Range(Modules) : jar[b][m] = NoSid
      /\ \A t \in Tabs : tab[t] = NoTab
  BY DEF Init
<1>3. flows = <<>> /\ ids = 0 /\ repeated = {} /\ faults = 0 /\ setup \in Setups /\ accounts = Accounts /\ DOMAIN mem = {}
  <2>1. mem = << >>
    BY DEF Init
  <2>2. DOMAIN mem = {}
    BY <2>1
  <2> QED
    BY <2>2 DEF Init
<1>4. setup.flows \in Nat /\ setup.ids \in Nat /\ setup.faults \in Nat
  BY <1>3, SignInAssumption
<1>5. TypeOK
  BY <1>1, <1>2, <1>3, <1>4 DEF TypeOK
<1>6. Shapes
  <2>1. flows \in Seq(FlowRecord)
    BY <1>3
  <2>2. \A t \in Tabs : /\ DOMAIN tab[t] = DOMAIN NoTab
                        /\ \A req \in {tab[t].req, tab[t].last} : DOMAIN req = DOMAIN NoRequest /\ HeadersName(req)
    BY <1>1, <1>2, Fieldnames
  <2> QED
    BY <1>2, <2>1, <2>2, Zenon DEF Shapes, FlowRecord
<1>7. SecretsAreTrue
  BY <1>3 DEF SecretsAreTrue
<1>8. SessionsAreNumbered /\ SessionsAreTheirs
  BY <1>2, ModuleNames DEF SessionsAreNumbered, SessionsAreTheirs, hasSession, sessionID
<1>9. ASSUME NEW t \in Tabs
      PROVE  CodeIsGiven(t) /\ TokenIsOwn(t) /\ ExchangeIsOwn(t)
  BY <1>1, <1>2 DEF CodeIsGiven, TokenIsOwn, ExchangeIsOwn
<1> QED
  BY <1>5, <1>6, <1>7, <1>8, <1>9 DEF SignInInv

LEMMA NextKeeps == SignInInv /\ [Next]_vars => SignInInv'
<1> SUFFICES ASSUME SignInInv, [Next]_vars
             PROVE  SignInInv'
  OBVIOUS
<1>1. ASSUME NEW t \in Tabs,
             Visit(t) \/ SignInWith(t) \/ SignInByForm(t) \/ SignOut(t) \/ Reload(t) \/ Approve(t) \/ Deny(t)
      PROVE  SignInInv'
  BY <1>1, VisitKeeps, ApproveKeeps, DenyKeeps
<1>2. ASSUME NEW t \in Tabs, Answers(t)
      PROVE  SignInInv'
  BY <1>2, PagesKeep, AuthorizeKeeps, NewTokenKeeps, AcceptsKeeps, GetSecretKeeps, TokenKeeps, GetInfoKeeps,
     AccessFailsKeeps, CheckKeeps, StoreKeeps
     DEF Answers
<1>3. CASE UNCHANGED vars
  <2>1. TypeOK' /\ SecretsAreTrue'
    BY <1>3 DEF SignInInv, vars, TypeOK, SecretsAreTrue
  <2> QED
    BY <1>3, <2>1, QuietKeeps DEF vars
<1> QED
  BY <1>1, <1>2, <1>3, FaultsKeep DEF Next

\* In every state: the code a tab comes back with is one that its own browser got, a tab has a token that no other
\* tab has, an exchange has the secret, the code and the profile of its own, and sessions are numbered as they are
\* made (mod-oauth1.cpp and mod-oauth2.cpp, authorize and accessToken).
THEOREM SignInInvariant == Spec => []SignInInv
<1>1. Init => SignInInv
  BY InitHolds
<1>2. SignInInv /\ [Next]_vars => SignInInv'
  BY NextKeeps
<1> QED
  BY <1>1, <1>2, PTL DEF Spec

\* Whatever sign-ins overlap, in any browsers and with items that memcached loses, a session is of the user who
\* agreed in the browser that has it, and a token of OAuth 1 goes with its own secret.
THEOREM SessionsAreKept == Spec => []SessionsKept
<1>1. SignInInv => SessionsKept
  BY DEF SignInInv, SessionsKept, SecretsMatch, ExchangeIsOwn, Busy
<1> QED
  BY <1>1, SignInInvariant, PTL
-----------------------------------------------------------------------------
(* What the modules answer *)

AnswerFields == {"what", "rc", "user", "ref", "attempt", "clears", "module"}

LEMMA AnswersAre ==
    /\ \A what : Answer(what).what = what /\ DOMAIN Answer(what) = AnswerFields
    /\ Declined.what = "declined"
    /\ \A rc : Failed(rc).what = "status" /\ DOMAIN Failed(rc) = AnswerFields
    /\ \A user : Granted(user).what = "ok" /\ Granted(user).user = user
<1>1. \A what : Answer(what).what = what /\ DOMAIN Answer(what) = AnswerFields
  BY DEF Answer, AnswerFields
<1>2. \A rc : Failed(rc).what = "status" /\ DOMAIN Failed(rc) = AnswerFields
  BY <1>1 DEF Failed, AnswerFields
<1>3. \A user : Granted(user).what = "ok" /\ Granted(user).user = user
  BY <1>1 DEF Granted, AnswerFields
<1> QED
  BY <1>1, <1>2, <1>3 DEF Declined

LEMMA LoginAnswers ==
    ASSUME NEW ref, NEW attempt, NEW req
    PROVE  LET a == login(ref, attempt, req) IN a.what \in {"login", "status"} /\ DOMAIN a = AnswerFields
<1> DEFINE r == Answer("login")
<1>1. r.what = "login" /\ DOMAIN r = AnswerFields
  BY AnswersAre
<1>2. ASSUME NEW v
      PROVE  LET a == [r EXCEPT !.ref = v, !.attempt = attempt] IN a.what = "login" /\ DOMAIN a = AnswerFields
  <2> HIDE DEF r
  <2> QED
    BY <1>1 DEF AnswerFields
<1>3. Failed(403).what = "status" /\ DOMAIN Failed(403) = AnswerFields
  BY AnswersAre
<1>4. CASE req.nocache
  BY <1>3, <1>4, Zenon DEF login
<1>5. CASE ~req.nocache
  <2>1. PICK v : v = IF ref = "/" THEN "" ELSE IF ref = "" THEN req.uri ELSE ref
    OBVIOUS
  <2>2. login(ref, attempt, req) = [r EXCEPT !.ref = v, !.attempt = attempt]
    BY <1>5, <2>1, Zenon DEF login
  <2> HIDE DEF r
  <2> QED
    BY <1>2, <2>2
<1> QED
  BY <1>4, <1>5

\* A refusal clears the last cookie; what is granted is as it was.
LEMMA ReportAnswers ==
    ASSUME NEW answer, NEW attempt, NEW j, NEW req
    PROVE  LET a == reportStatus(answer, attempt, j, req) IN
           /\ a.what = "login" /\ answer.what # "login" => a.clears = LastCookie(j)
           /\ a.what = "ok" => a = answer
<1> DEFINE r == login("/", attempt, req)
           c == [r EXCEPT !.clears = LastCookie(j)]
<1>1. r.what \in {"login", "status"} /\ DOMAIN r = AnswerFields
  BY LoginAnswers
<1>2. c.what = r.what /\ c.clears = LastCookie(j)
  <2> HIDE DEF r
  <2> QED
    BY <1>1 DEF AnswerFields
<1>3. reportStatus(answer, attempt, j, req) = c \/ reportStatus(answer, attempt, j, req) = answer
  BY DEF reportStatus
<1> HIDE DEF c
<1> QED
  BY <1>1, <1>2, <1>3

LEMMA ReportGrants ==
    ASSUME NEW answer, NEW attempt, NEW j, NEW req, reportStatus(answer, attempt, j, req).what = "ok"
    PROVE  reportStatus(answer, attempt, j, req) = answer
  BY ReportAnswers

LEMMA AuthenticatedAnswers ==
    ASSUME NEW info, NEW m
    PROVE  LET a == authenticated(info, m) IN
           /\ a.what # "login"
           /\ a.what = "ok" => /\ "id" \in DOMAIN info /\ checkAuthnz(Prefix(m), UserOf(info), "password")
                               /\ a.user = AuthzUser(UserOf(info))
  BY AnswersAre DEF authenticated

\* Who is granted has an account or is in the password file.
Known == DOMAIN accounts \union {f[2] : f \in FileUsers}

LEMMA AuthnzKnows ==
    ASSUME NEW prefix, NEW user, NEW password, checkAuthnz(prefix, user, password)
    PROVE  user \in Known
<1>1. \/ <<prefix, user>> \in FileUsers
      \/ user \in DOMAIN accounts
  BY DEF checkAuthnz, checkAuthnzProviders, AuthnComponent
<1>2. <<prefix, user>>[2] = user
  OBVIOUS
<1> QED
  BY <1>1, <1>2 DEF Known

\* A module that sends a tab to the login page clears the last cookie, or finds no session of any module.
LEMMA SessionsAre ==
    ASSUME NEW j
    PROVE  SessionsOf(j) = {} <=> ~hasSession(j, "openauth") /\ ~hasSession(j, "oauth1") /\ ~hasSession(j, "oauth2")
  BY ModuleNames DEF SessionsOf

LEMMA OAuthClears ==
    ASSUME NEW m, NEW other, <<m, other>> \in {<<"oauth1", "oauth2">>, <<"oauth2", "oauth1">>}, NEW req, NEW j,
           OAuthCheck(m, other, req, j).what = "login"
    PROVE  SessionsOf(j) = {} \/ OAuthCheck(m, other, req, j).clears = LastCookie(j)
<1> DEFINE sid == sessionID(j, m)
           info == userInfo(m, sid)
           answer == IF info = <<>> THEN Failed(401) ELSE authenticated(info[1], m)
<1>1. answer.what # "login"
  BY AnswersAre, AuthenticatedAnswers
<1>2. CASE sid # NoSid
  <2>1. OAuthCheck(m, other, req, j) = Declined \/ OAuthCheck(m, other, req, j) = reportStatus(answer, FALSE, j, req)
    BY <1>2, Zenon DEF OAuthCheck
  <2> DEFINE a == reportStatus(answer, FALSE, j, req)
  <2>2. a.what = "login" => a.clears = LastCookie(j)
    <3>1. PICK ans : ans = answer
      OBVIOUS
    <3>2. \A attempt : LET c == reportStatus(ans, attempt, j, req) IN c.what = "login" => c.clears = LastCookie(j)
      BY <1>1, <3>1, ReportAnswers
    <3>3. a = reportStatus(ans, FALSE, j, req)
      BY <3>1
    <3> HIDE DEF a, answer
    <3> QED
      BY <3>2, <3>3, Zenon
  <2>3. OAuthCheck(m, other, req, j) # Declined
    BY AnswersAre
  <2> HIDE DEF a
  <2> QED
    BY <2>1, <2>2, <2>3 DEF a
<1>3. CASE sid = NoSid
  <2>1. ~hasSession(j, m)
    BY <1>3 DEF hasSession
  <2>2. ASSUME NEW what, NEW n
        PROVE  [Answer(what) EXCEPT !.module = n].what = what
    BY AnswersAre DEF AnswerFields
  <2>3. hasSession(j, "openauth") \/ hasSession(j, other) =>
            \/ OAuthCheck(m, other, req, j) = [Answer("authorize") EXCEPT !.module = m]
            \/ OAuthCheck(m, other, req, j) = [Answer("access") EXCEPT !.module = m]
            \/ OAuthCheck(m, other, req, j) = Declined
    BY <1>3, Zenon DEF OAuthCheck
  <2>4. ~hasSession(j, "openauth") /\ ~hasSession(j, other)
    <3> DEFINE a == [Answer("authorize") EXCEPT !.module = m]
               b == [Answer("access") EXCEPT !.module = m]
    <3>1. a.what = "authorize" /\ b.what = "access" /\ Declined.what = "declined"
      BY <2>2, AnswersAre
    <3> HIDE DEF a, b
    <3>2. hasSession(j, "openauth") \/ hasSession(j, other) => OAuthCheck(m, other, req, j) \in {a, b, Declined}
      BY <2>3 DEF a, b
    <3> QED
      BY <3>1, <3>2
  <2> QED
    BY <2>1, <2>4, SessionsAre
<1> QED
  BY <1>2, <1>3

LEMMA OpenAuthClears ==
    ASSUME NEW req, NEW j, openauthCheckAuthn(req, j).what = "login"
    PROVE  SessionsOf(j) = {} \/ openauthCheckAuthn(req, j).clears = LastCookie(j)
<1> DEFINE Answered(info) == IF checkAuthnz("", info[1], info[2]) THEN Granted(AuthzUser(info[1])) ELSE Failed(401)
<1>1. ASSUME NEW info
      PROVE  Answered(info).what # "login"
  <2>1. Granted(AuthzUser(info[1])).what # "login" /\ Failed(401).what # "login"
    BY AnswersAre
  <2> QED
    BY <2>1, Zenon
<1>2. \/ openauthCheckAuthn(req, j) = Declined
      \/ \E info : openauthCheckAuthn(req, j) = reportStatus(Answered(info), TRUE, j, req)
      \/ ~hasSession(j, "openauth") /\ ~hasSession(j, "oauth1") /\ ~hasSession(j, "oauth2")
  <2>1. \/ openauthCheckAuthn(req, j) = Declined
        \/ openauthCheckAuthn(req, j) = reportStatus(Answered(userInfoFromCookie(sessionID(j, "openauth"))), TRUE, j, req)
        \/ openauthCheckAuthn(req, j) = reportStatus(Answered(userInfoFromHeader(req.header)), TRUE, j, req)
        \/ sessionID(j, "openauth") = NoSid /\ ~hasSession(j, "oauth1") /\ ~hasSession(j, "oauth2")
    BY Zenon DEF openauthCheckAuthn
  <2> HIDE DEF Answered
  <2> QED
    BY <2>1, Zenon DEF hasSession
<1>3. openauthCheckAuthn(req, j) # Declined
  BY AnswersAre
<1>4. ASSUME NEW info, openauthCheckAuthn(req, j) = reportStatus(Answered(info), TRUE, j, req)
      PROVE  openauthCheckAuthn(req, j).clears = LastCookie(j)
  <2>1. PICK answer : answer = Answered(info)
    OBVIOUS
  <2>2. answer.what # "login"
    BY <1>1, <2>1
  <2>3. openauthCheckAuthn(req, j) = reportStatus(answer, TRUE, j, req)
    BY <1>4, <2>1
  <2>4. reportStatus(answer, TRUE, j, req).what = "login" =>
            reportStatus(answer, TRUE, j, req).clears = LastCookie(j)
    BY <2>2, ReportAnswers, Zenon
  <2> QED
    BY <2>3, <2>4, Zenon
<1> HIDE DEF Answered
<1> QED
  BY <1>2, <1>3, <1>4, SessionsAre

LEMMA CheckClears ==
    ASSUME NEW m \in {"openauth", "oauth1", "oauth2"}, NEW req, NEW j, CheckAuthn(m, req, j).what = "login"
    PROVE  SessionsOf(j) = {} \/ CheckAuthn(m, req, j).clears = LastCookie(j)
<1>1. CASE m = "openauth"
  <2>1. CheckAuthn(m, req, j) = openauthCheckAuthn(req, j)
    BY <1>1 DEF CheckAuthn
  <2> QED
    BY <2>1, OpenAuthClears
<1>2. CASE m = "oauth1"
  <2>1. CheckAuthn(m, req, j) = OAuthCheck("oauth1", "oauth2", req, j)
    BY <1>2 DEF CheckAuthn, oauth1CheckAuthn
  <2> QED
    BY <2>1, OAuthClears
<1>3. CASE m = "oauth2"
  <2>1. CheckAuthn(m, req, j) = OAuthCheck("oauth2", "oauth1", req, j)
    BY <1>3 DEF CheckAuthn, oauth2CheckAuthn
  <2> QED
    BY <2>1, OAuthClears
<1> QED
  BY <1>1, <1>2, <1>3

\* The server's answer is that of one of its modules.
LEMMA CheckingIsOne ==
    ASSUME SignInInv, NEW req, NEW j
    PROVE  \/ Checking(req, j) = Failed(500)
           \/ \E m \in {"openauth", "oauth1", "oauth2"} : Checking(req, j) = CheckAuthn(m, req, j)
<1> DEFINE Declines(i) == CheckAuthn(setup.order[i], req, j).what = "declined"
           First(i) == ~Declines(i) /\ \A k \in 1 .. i - 1 : Declines(k)
           first == CHOOSE i \in DOMAIN setup.order : First(i)
<1>1. PICK n \in 1..3 : setup.order \in [1..n -> {"openauth", "oauth1", "oauth2"}]
  BY SignInAssumption DEF SignInInv, TypeOK
<1>2. Checking(req, j) = IF \A i \in DOMAIN setup.order : Declines(i) THEN Failed(500)
                         ELSE CheckAuthn(setup.order[first], req, j)
  BY DEF Checking
<1> HIDE DEF Declines
<1>3. CASE \A i \in DOMAIN setup.order : Declines(i)
  BY <1>2, <1>3
<1>4. CASE ~ \A i \in DOMAIN setup.order : Declines(i)
  <2>1. DOMAIN setup.order = 1..n
    BY <1>1
  <2>2. PICK i \in 1..n : ~Declines(i)
    BY <1>4, <2>1
  <2>3. i = 1 \/ i = 2 \/ i = 3
    BY <2>2
  <2>4. \E k \in 1..n : First(k)
    <3>1. CASE ~Declines(1)
      BY <3>1
    <3>2. CASE Declines(1) /\ n >= 2 /\ ~Declines(2)
      <4>1. First(2)
        BY <3>2
      <4> QED
        BY <3>2, <4>1
    <3>3. CASE Declines(1) /\ Declines(2) /\ n = 3 /\ ~Declines(3)
      <4>1. First(3)
        BY <3>3
      <4> QED
        BY <3>3, <4>1
    <3> QED
      BY <2>2, <2>3, <3>1, <3>2, <3>3
  <2>5. first \in 1..n
    <3> HIDE DEF First
    <3> QED
      BY <2>1, <2>4
  <2> QED
    BY <1>1, <1>2, <1>4, <2>5
<1> QED
  BY <1>3, <1>4

\* What a module grants is for a name that the cookie, the header or the provider gave, and that is known.
LEMMA OAuthGrants ==
    ASSUME NEW t \in Tabs, NEW m, NEW other, <<m, other>> \in {<<"oauth1", "oauth2">>, <<"oauth2", "oauth1">>},
           NEW req, OAuthCheck(m, other, req, Jar(t)).what = "ok"
    PROVE  \E a \in NamedAccounts(t) \intersect Known : AuthzUser(a) = OAuthCheck(m, other, req, Jar(t)).user
<1> DEFINE j == Jar(t)
           sid == sessionID(j, m)
           info == userInfo(m, sid)
           answer == IF info = <<>> THEN Failed(401) ELSE authenticated(info[1], m)
<1>1. OAuthCheck(m, other, req, j) = reportStatus(answer, FALSE, j, req)
  <2> DEFINE a == [Answer("authorize") EXCEPT !.module = m]
             b == [Answer("access") EXCEPT !.module = m]
  <2>1. a.what # "ok" /\ b.what # "ok" /\ Declined.what # "ok"
    BY AnswersAre DEF AnswerFields
  <2>2. login("", FALSE, req).what # "ok"
    <3>1. \A attempt : login("", attempt, req).what # "ok"
      BY LoginAnswers
    <3> QED
      BY <3>1, Zenon
  <2>3. \/ OAuthCheck(m, other, req, j) \in {a, b, Declined}
        \/ OAuthCheck(m, other, req, j) = login("", FALSE, req)
        \/ OAuthCheck(m, other, req, j) = reportStatus(answer, FALSE, j, req)
    BY Zenon DEF OAuthCheck
  <2> HIDE DEF a, b, answer, j
  <2> QED
    BY <2>1, <2>2, <2>3 DEF j
<1>2. reportStatus(answer, FALSE, j, req) = answer
  <2> HIDE DEF answer, j
  <2>1. reportStatus(answer, FALSE, j, req).what = "ok" => reportStatus(answer, FALSE, j, req) = answer
    BY ReportGrants, Zenon
  <2> QED
    BY <1>1, <2>1 DEF j
<1>3. answer.what = "ok" /\ OAuthCheck(m, other, req, j).user = answer.user
  <2> HIDE DEF answer
  <2> QED
    BY <1>1, <1>2
<1>4. info # <<>> /\ answer = authenticated(info[1], m)
  BY <1>3, AnswersAre
<1>5. /\ "id" \in DOMAIN info[1] /\ checkAuthnz(Prefix(m), UserOf(info[1]), "password")
      /\ answer.user = AuthzUser(UserOf(info[1]))
  BY <1>3, <1>4, AuthenticatedAnswers
<1>6. UserOf(info[1]) \in Known
  BY <1>5, AuthnzKnows
<1>7. info[1] \in Range(userInfo(m, j[m])) /\ m \in {"oauth1", "oauth2"}
  <2>1. info = <<mem[InfoKey(m, sid)]>>
    BY <1>4 DEF userInfo
  <2>2. 1 \in DOMAIN info
    BY <2>1
  <2> HIDE DEF info
  <2>3. info[1] \in Range(info)
    BY <2>2 DEF Range
  <2> QED
    BY <2>3 DEF info, sessionID
<1>8. UserOf(info[1]) \in NamedAccounts(t)
  <2> HIDE DEF info, answer
  <2>1. info[1] \in UNION {Range(userInfo(n, Jar(t)[n])) : n \in {"oauth1", "oauth2"}}
    BY <1>7
  <2> QED
    BY <1>5, <2>1, Zenon DEF NamedAccounts
<1> QED
  BY <1>3, <1>5, <1>6, <1>8

LEMMA OpenAuthGrants ==
    ASSUME SignInInv, NEW t \in Tabs, openauthCheckAuthn(tab[t].req, Jar(t)).what = "ok"
    PROVE  \E a \in NamedAccounts(t) \intersect Known :
               AuthzUser(a) = openauthCheckAuthn(tab[t].req, Jar(t)).user
<1> DEFINE j == Jar(t)
           req == tab[t].req
           Answered(info) == IF checkAuthnz("", info[1], info[2]) THEN Granted(AuthzUser(info[1])) ELSE Failed(401)
<1>1. PICK info : /\ openauthCheckAuthn(req, j) = reportStatus(Answered(info), TRUE, j, req)
                  /\ \/ info = userInfoFromCookie(sessionID(j, "openauth"))
                     \/ info = req.header /\ req.header # <<>>
  <2>1. login("", FALSE, req).what # "ok"
    <3>1. \A attempt : login("", attempt, req).what # "ok"
      BY LoginAnswers
    <3> QED
      BY <3>1, Zenon
  <2>2. openauthCheckAuthn(req, j) # Declined /\ openauthCheckAuthn(req, j) # login("", FALSE, req)
    BY <2>1, AnswersAre
  <2>3. \/ openauthCheckAuthn(req, j) \in {Declined, login("", FALSE, req)}
        \/ openauthCheckAuthn(req, j) =
               reportStatus(Answered(userInfoFromCookie(sessionID(j, "openauth"))), TRUE, j, req)
        \/ openauthCheckAuthn(req, j) = reportStatus(Answered(req.header), TRUE, j, req) /\ req.header # <<>>
    BY DEF openauthCheckAuthn, userInfoFromHeader
  <2> HIDE DEF j, req, Answered
  <2> QED
    BY <2>2, <2>3
<1>2. openauthCheckAuthn(req, j) = Answered(info)
  <2>1. PICK answer : answer = Answered(info)
    OBVIOUS
  <2>2. reportStatus(answer, TRUE, j, req).what = "ok" => reportStatus(answer, TRUE, j, req) = answer
    BY ReportGrants, Zenon
  <2>3. openauthCheckAuthn(req, j) = reportStatus(answer, TRUE, j, req)
    BY <1>1, <2>1, Zenon
  <2>4. openauthCheckAuthn(req, j).what = "ok"
    OBVIOUS
  <2> HIDE DEF j, req, Answered
  <2> QED
    BY <2>1, <2>2, <2>3, <2>4, Zenon
<1>3. Answered(info).what = "ok"
  BY <1>2
<1>4. checkAuthnz("", info[1], info[2]) /\ Answered(info).user = AuthzUser(info[1])
  <2>1. Failed(401).what # "ok" /\ Granted(AuthzUser(info[1])).user = AuthzUser(info[1])
    BY AnswersAre
  <2> QED
    BY <1>3, <2>1, Zenon
<1>5. info[1] \in Known
  BY <1>4, AuthnzKnows
<1>6. info[1] \in NamedAccounts(t)
  <2>1. CASE info = userInfoFromCookie(sessionID(j, "openauth"))
    <3>1. info[1] = j["openauth"].user
      BY <2>1 DEF userInfoFromCookie, sessionID
    <3> QED
      BY <3>1, Zenon DEF NamedAccounts
  <2>2. CASE info = req.header /\ req.header # <<>>
    <3>1. 1 \in DOMAIN req.header
      BY <2>2, TabOwns DEF Given, HeadersName
    <3>2. 1 \in DOMAIN tab[t].req.header \intersect {1} /\ info[1] = tab[t].req.header[1]
      BY <2>2, <3>1
    <3> QED
      BY <3>2, Zenon DEF NamedAccounts
  <2> QED
    BY <1>1, <2>1, <2>2
<1> QED
  BY <1>2, <1>4, <1>5, <1>6

LEMMA CheckingGrants ==
    ASSUME SignInInv, NEW t \in Tabs, Checking(tab[t].req, Jar(t)).what = "ok"
    PROVE  \E a \in NamedAccounts(t) \intersect Known : AuthzUser(a) = Checking(tab[t].req, Jar(t)).user
<1>1. PICK m \in {"openauth", "oauth1", "oauth2"} :
          Checking(tab[t].req, Jar(t)) = CheckAuthn(m, tab[t].req, Jar(t))
  BY CheckingIsOne, AnswersAre
<1>2. CASE m = "openauth"
  <2>1. CheckAuthn(m, tab[t].req, Jar(t)) = openauthCheckAuthn(tab[t].req, Jar(t))
    BY <1>2 DEF CheckAuthn
  <2> QED
    BY <1>1, <2>1, OpenAuthGrants
<1>3. CASE m = "oauth1"
  <2>1. CheckAuthn(m, tab[t].req, Jar(t)) = OAuthCheck("oauth1", "oauth2", tab[t].req, Jar(t))
    BY <1>3 DEF CheckAuthn, oauth1CheckAuthn
  <2> QED
    BY <1>1, <2>1, OAuthGrants
<1>4. CASE m = "oauth2"
  <2>1. CheckAuthn(m, tab[t].req, Jar(t)) = OAuthCheck("oauth2", "oauth1", tab[t].req, Jar(t))
    BY <1>4 DEF CheckAuthn, oauth2CheckAuthn
  <2> QED
    BY <1>1, <2>1, OAuthGrants
<1> QED
  BY <1>2, <1>3, <1>4
-----------------------------------------------------------------------------
(* Where the steps take a tab *)

\* The tab gets there, and the others stay.
Gets(t, at) == tab'[t].at = at /\ \A u \in Tabs \ {t} : tab'[u] = tab[u]

LEMMA MovesGets ==
    ASSUME SignInInv, NEW t \in Tabs, NEW next, Moves(t, next)
    PROVE  tab'[t] = next /\ Gets(t, next.at)
  BY DEF SignInInv, Shapes, Moves, Gets

LEMMA StandsGets ==
    ASSUME SignInInv, NEW t \in Tabs
    PROVE  /\ Errs(t) => Gets(t, "error")
           /\ \A req : Asks(t, req) => Gets(t, "request")
           /\ \A req : Redirects(t, req) => Gets(t, "request")
           /\ \A next : Step(t, next) => Gets(t, "busy")
           /\ \A m, token : ToProvider(t, m, token) => Gets(t, "provider")
           /\ \A code : Back(t, code) => Gets(t, "request")
<1>1. Errs(t) => Gets(t, "error")
  <2>1. At(t, "error").at = "error"
    BY AtTab
  <2> QED
    BY <2>1, MovesGets DEF Errs
<1>2. ASSUME NEW req, Asks(t, req)
      PROVE  Gets(t, "request")
  <2>1. PICK next : next = [NoTab EXCEPT !.at = "request", !.req = req]
    OBVIOUS
  <2>2. next.at = "request"
    BY <2>1 DEF NoTab
  <2>3. Moves(t, next)
    BY <1>2, <2>1 DEF Asks
  <2> QED
    BY <2>2, <2>3, MovesGets
<1>3. ASSUME NEW req, Redirects(t, req)
      PROVE  Gets(t, "request")
  <2>1. PICK next : next = [At(t, "request") EXCEPT !.req = req]
    OBVIOUS
  <2>2. next.at = "request"
    BY <2>1, AtExcept
  <2>3. Moves(t, next)
    BY <1>3, <2>1 DEF Redirects
  <2> QED
    BY <2>2, <2>3, MovesGets
<1>4. ASSUME NEW step, Step(t, step)
      PROVE  Gets(t, "busy")
  <2>1. PICK next : next = [tab[t] EXCEPT !.at = "busy", !.step = step]
    OBVIOUS
  <2>2. next.at = "busy"
    BY <2>1, TabOwns, StepTab
  <2>3. Moves(t, next)
    BY <1>4, <2>1 DEF Step
  <2> QED
    BY <2>2, <2>3, MovesGets
<1>5. ASSUME NEW m, NEW token, ToProvider(t, m, token)
      PROVE  Gets(t, "provider")
  <2>1. PICK next : next = [At(t, "provider") EXCEPT !.module = m, !.req = tab[t].req, !.token = token]
    OBVIOUS
  <2>2. next.at = "provider"
    BY <2>1, ProviderTab
  <2>3. Moves(t, next)
    BY <1>5, <2>1 DEF ToProvider
  <2> QED
    BY <2>2, <2>3, MovesGets
<1>6. ASSUME NEW code, Back(t, code)
      PROVE  Gets(t, "request")
  <2>1. PICK req : req = [tab[t].req EXCEPT !.uri = Path(tab[t].module, "access_token"), !.code = code]
    OBVIOUS
  <2>2. PICK next : next = [At(t, "request") EXCEPT !.req = req, !.last = req]
    OBVIOUS
  <2>3. next.at = "request"
    BY <2>1, <2>2, BackTab
  <2>4. Moves(t, next)
    BY <1>6, <2>1, <2>2 DEF Back
  <2> QED
    BY <2>3, <2>4, MovesGets
<1> QED
  BY <1>1, <1>2, <1>3, <1>4, <1>5, <1>6

\* The exchange goes on.
LEMMA ExchangeGets ==
    ASSUME SignInInv, NEW t \in Tabs, oauth1AccessToken(t) \/ oauth2AccessToken(t) \/ GetSecret(t) \/ GetInfo(t)
    PROVE  Gets(t, "busy") \/ Gets(t, "error")
<1>1. CASE Errs(t)
  BY <1>1, StandsGets
<1>2. CASE oauth1AccessToken(t) \/ oauth2AccessToken(t)
  <2>1. PICK m, first : Moves(t, [tab[t] EXCEPT !.at = "busy", !.module = m, !.step = first]) \/ Errs(t)
    BY <1>2 DEF oauth1AccessToken, oauth2AccessToken, Accepts
  <2>2. PICK next : next = [tab[t] EXCEPT !.at = "busy", !.module = m, !.step = first]
    OBVIOUS
  <2>3. next.at = "busy"
    BY <2>2, AcceptTab
  <2>4. Moves(t, next) \/ Errs(t)
    BY <2>1, <2>2
  <2> QED
    BY <1>1, <2>3, <2>4, MovesGets
<1>3. CASE GetSecret(t)
  <2>1. PICK secret : Moves(t, [tab[t] EXCEPT !.step = "token", !.secret = secret]) \/ Errs(t)
    BY <1>3 DEF GetSecret
  <2>2. PICK next : next = [tab[t] EXCEPT !.step = "token", !.secret = secret]
    OBVIOUS
  <2>3. tab[t].at = "busy"
    BY <1>3 DEF GetSecret, Busy
  <2>4. PICK r : r = tab[t]
    OBVIOUS
  <2>5. DOMAIN r = Fields
    BY <2>4, TabOwns
  <2>6. next.at = r.at
    BY <2>2, <2>4, <2>5 DEF Fields
  <2>7. Moves(t, next) \/ Errs(t)
    BY <2>1, <2>2
  <2> QED
    BY <1>1, <2>3, <2>4, <2>6, <2>7, MovesGets
<1>4. CASE GetInfo(t)
  <2>1. PICK info : Moves(t, [tab[t] EXCEPT !.step = "check", !.info = info]) \/ Errs(t)
    BY <1>4 DEF GetInfo, HasInfo
  <2>2. PICK next : next = [tab[t] EXCEPT !.step = "check", !.info = info]
    OBVIOUS
  <2>3. tab[t].at = "busy"
    BY <1>4 DEF GetInfo, Busy
  <2>4. PICK r : r = tab[t]
    OBVIOUS
  <2>5. DOMAIN r = Fields
    BY <2>4, TabOwns
  <2>6. next.at = r.at
    BY <2>2, <2>4, <2>5 DEF Fields
  <2>7. Moves(t, next) \/ Errs(t)
    BY <2>1, <2>2
  <2> QED
    BY <1>1, <2>3, <2>4, <2>6, <2>7, MovesGets
<1> QED
  BY <1>2, <1>3, <1>4

\* A tab gets to a page by Serve, and to the login page by LogOut, Refuse and CheckUser only.
LEMMA OthersGet ==
    ASSUME SignInInv, NEW t \in Tabs,
           \/ Visit(t) \/ SignInWith(t) \/ SignInByForm(t) \/ SignOut(t) \/ Reload(t) \/ Approve(t) \/ Deny(t)
           \/ Answers(t) /\ ~Serve(t) /\ ~LogOut(t) /\ ~Refuse(t) /\ ~CheckUser(t)
    PROVE  Gets(t, "request") \/ Gets(t, "provider") \/ Gets(t, "busy") \/ Gets(t, "error")
<1>1. CASE Visit(t) \/ SignInWith(t) \/ SignInByForm(t) \/ SignOut(t) \/ Reload(t)
  <2>1. \E req : Asks(t, req)
    BY <1>1 DEF Visit, SignInWith, SignInByForm, SignOut, Reload
  <2> QED
    BY <2>1, StandsGets
<1>2. CASE Approve(t) \/ Deny(t)
  <2>1. \E code : Back(t, code)
    BY <1>2 DEF Approve, Deny
  <2> QED
    BY <2>1, StandsGets
<1>3. CASE oauth2Authorize(t) \/ oauth1Authorize(t) \/ AuthorizeFails(t)
  <2>1. Errs(t) \/ \E m, token : ToProvider(t, m, token)
    BY <1>3 DEF oauth2Authorize, oauth1Authorize, AuthorizeFails
  <2> QED
    BY <2>1, StandsGets
<1>4. CASE oauth1AccessToken(t) \/ oauth2AccessToken(t) \/ GetSecret(t) \/ GetInfo(t)
  BY <1>4, ExchangeGets
<1>5. CASE GetToken(t) \/ AccessFails(t) \/ StoreSession(t)
  <2>1. Errs(t) \/ (\E next : Step(t, next)) \/ (\E req : Redirects(t, req))
    BY <1>5 DEF GetToken, AccessFails, StoreSession
  <2> QED
    BY <2>1, StandsGets
<1> QED
  BY <1>1, <1>2, <1>3, <1>4, <1>5 DEF Answers

\* A page is for the user of the answer.
LEMMA ServeGets ==
    ASSUME SignInInv, NEW t \in Tabs, Serve(t)
    PROVE  \/ Gets(t, "error")
           \/ /\ Gets(t, "page") /\ Checking(tab[t].req, Jar(t)).what = "ok"
              /\ tab'[t].user = Checking(tab[t].req, Jar(t)).user
<1>1. PICK a : /\ a = Checking(tab[t].req, Jar(t)) /\ a.what = "ok"
               /\ Moves(t, [At(t, "page") EXCEPT !.user = a.user]) \/ Errs(t)
  BY DEF Serve
<1>2. PICK r : r = At(t, "page")
  OBVIOUS
<1>3. DOMAIN r = Fields /\ r.at = "page"
  BY <1>2, AtTab
<1>4. PICK next : next = [r EXCEPT !.user = a.user]
  OBVIOUS
<1>5. next.user = a.user
  BY <1>3, <1>4 DEF Fields
<1>6. next.at = "page"
  BY <1>3, <1>4 DEF Fields
<1>7. Moves(t, next) \/ Errs(t)
  BY <1>1, <1>2, <1>4
<1> QED
  BY <1>1, <1>5, <1>6, <1>7, MovesGets, StandsGets

\* A refused tab gets to the login page with the last cookie cleared, or without any session.
LEMMA RefuseGets ==
    ASSUME SignInInv, NEW t \in Tabs, LogOut(t) \/ Refuse(t) \/ CheckUser(t)
    PROVE  \/ Gets(t, "error") \/ Gets(t, "busy")
           \/ /\ Gets(t, "login")
              /\ SessionsOf(Jar(t)) = {} \/ Sets(t, LastCookie(Jar(t)), NoSid) \/ Sets(t, logoutHandler(Jar(t)), NoSid)
<1>1. ASSUME NEW ref, Moves(t, [At(t, "login") EXCEPT !.ref = ref])
      PROVE  Gets(t, "login")
  <2>1. PICK next : next = [At(t, "login") EXCEPT !.ref = ref]
    OBVIOUS
  <2>2. next.at = "login"
    BY <2>1, AtExcept
  <2> QED
    BY <1>1, <2>1, <2>2, MovesGets
<1>2. CASE LogOut(t)
  <2>1. Sets(t, logoutHandler(Jar(t)), NoSid) /\ Moves(t, At(t, "login"))
    BY <1>2 DEF LogOut
  <2>2. At(t, "login").at = "login"
    BY AtTab
  <2> QED
    BY <2>1, <2>2, MovesGets
<1>3. CASE Refuse(t)
  <2>1. PICK a : /\ a = Checking(tab[t].req, Jar(t)) /\ Sets(t, a.clears, NoSid)
                 /\ \/ a.what = "login" /\ Moves(t, [At(t, "login") EXCEPT !.ref = a.ref])
                    \/ Errs(t)
    BY <1>3 DEF Refuse
  <2>2. CASE Errs(t)
    BY <2>2, StandsGets
  <2>3. CASE a.what = "login" /\ Moves(t, [At(t, "login") EXCEPT !.ref = a.ref])
    <3>1. PICK m \in {"openauth", "oauth1", "oauth2"} : a = CheckAuthn(m, tab[t].req, Jar(t))
      BY <2>1, <2>3, CheckingIsOne, AnswersAre
    <3>2. SessionsOf(Jar(t)) = {} \/ a.clears = LastCookie(Jar(t))
      BY <2>3, <3>1, CheckClears
    <3> QED
      BY <1>1, <2>1, <2>3, <3>2
  <2> QED
    BY <2>1, <2>2, <2>3
<1>4. CASE CheckUser(t)
  <2> DEFINE answer == authenticated(tab[t].info, tab[t].module)
             a == reportStatus(answer, TRUE, Jar(t), tab[t].req)
  <2>1. /\ a.what \in {"ok", "login", "status"}
        /\ a.what = "login" => a.clears = LastCookie(Jar(t))
    <3>1. a.what \in {"ok", "login", "status"}
      BY CheckAnswers
    <3>2. PICK ans : ans = answer
      OBVIOUS
    <3>3. ans.what # "login"
      BY <3>2, AuthenticatedAnswers
    <3>4. PICK req : req = tab[t].req
      OBVIOUS
    <3>5. a = reportStatus(ans, TRUE, Jar(t), req)
      BY <3>2, <3>4
    <3>6. \A attempt : LET c == reportStatus(ans, attempt, Jar(t), req) IN c.what = "login" => c.clears = LastCookie(Jar(t))
      BY <3>3, ReportAnswers
    <3>7. LET c == reportStatus(ans, TRUE, Jar(t), req) IN c.what = "login" => c.clears = LastCookie(Jar(t))
      BY <3>6, Zenon
    <3> QED
      BY <3>1, <3>5, <3>7, Zenon
  <2> HIDE DEF a
  <2>2. /\ Sets(t, a.clears, NoSid)
        /\ CASE a.what = "ok" -> Step(t, "store")
             [] a.what = "login" -> Moves(t, [At(t, "login") EXCEPT !.ref = a.ref])
             [] a.what = "status" -> Errs(t)
    BY <1>4 DEF CheckUser, a
  <2>3. \/ Step(t, "store") \/ Errs(t)
        \/ a.what = "login" /\ Moves(t, [At(t, "login") EXCEPT !.ref = a.ref])
    BY <2>1, <2>2
  <2> QED
    BY <1>1, <2>1, <2>2, <2>3, StandsGets
<1> QED
  BY <1>2, <1>3, <1>4
-----------------------------------------------------------------------------
(* What the pages are for, and what a refusal clears *)

\* The cookie that is cleared last is one that the browser has.
LEMMA LastCookieIs ==
    ASSUME NEW j, SessionsOf(j) # {}
    PROVE  LastCookie(j) \in SessionsOf(j) /\ logoutHandler(j) \in SessionsOf(j)
<1> DEFINE present == {i \in DOMAIN Modules : hasSession(j, Modules[i])}
<1>1. DOMAIN Modules = 1..3 /\ Modules[1] = "openauth" /\ Modules[2] = "oauth1" /\ Modules[3] = "oauth2"
  BY DEF Modules
<1>2. present \subseteq 1..3
  BY <1>1
<1>3. present # {}
  BY <1>1, SessionsAre
<1>4. LastCookie(j) = Modules[Max(present)]
  BY <1>3 DEF LastCookie
<1>5. Max(present) \in present
  <2> HIDE DEF present
  <2>1. \A k \in present : k = 1 \/ k = 2 \/ k = 3
    BY <1>2
  <2>2. \E i \in present : \A k \in present : i >= k
    <3>1. CASE 3 \in present
      BY <2>1, <3>1
    <3>2. CASE 3 \notin present /\ 2 \in present
      BY <2>1, <3>2
    <3>3. CASE 3 \notin present /\ 2 \notin present
      BY <1>3, <2>1, <3>3
    <3> QED
      BY <3>1, <3>2, <3>3
  <2> QED
    BY <2>2 DEF Max
<1>6. LastCookie(j) \in SessionsOf(j)
  <2>1. hasSession(j, LastCookie(j)) /\ Max(present) \in 1..3
    BY <1>2, <1>4, <1>5
  <2> QED
    BY <1>1, <1>4, <2>1, ModuleNames DEF SessionsOf
<1> QED
  BY <1>6, ModuleNames DEF logoutHandler, SessionsOf

\* A cookie that is cleared is a session less.
LEMMA ClearingClears ==
    ASSUME SignInInv, NEW t \in Tabs, NEW m \in SessionsOf(Jar(t)), Sets(t, m, NoSid)
    PROVE  SessionsOf(jar'[setup.browser[t]]) = SessionsOf(Jar(t)) \ {m}
<1> DEFINE b == setup.browser[t]
<1>1. b \in Browsers
  BY SignInAssumption DEF SignInInv, TypeOK
<1>2. PICK j : j = jar[b]
  OBVIOUS
<1>3. DOMAIN jar = Browsers /\ DOMAIN j = Range(Modules)
  BY <1>1, <1>2, JarShape
<1>4. m \in SessionsOf(j) /\ m # ""
  BY <1>2, ModuleNames DEF SessionsOf, Jar
<1>5. jar'[b] = [j EXCEPT ![m] = NoSid]
  BY <1>1, <1>2, <1>3, <1>4 DEF Sets, cookie
<1>6. PICK k : k = jar'[b]
  OBVIOUS
<1>7. SessionsOf(k) = SessionsOf(j) \ {m}
  <2>1. k = [j EXCEPT ![m] = NoSid]
    BY <1>5, <1>6
  <2>2. \A n \in Range(Modules) : k[n] = IF n = m THEN NoSid ELSE j[n]
    BY <1>3, <2>1
  <2> QED
    BY <2>2 DEF SessionsOf, hasSession, sessionID
<1> QED
  BY <1>2, <1>6, <1>7 DEF Jar

\* Where a step takes a tab that it moves, if to a page or to the login page.
LEMMA StepsGet ==
    ASSUME SignInInv, [Next]_vars, NEW u \in Tabs
    PROVE  \/ tab'[u] = tab[u]
           \/ tab'[u].at \in {"request", "provider", "busy", "error"}
           \/ /\ tab'[u].at = "page" /\ Checking(tab[u].req, Jar(u)).what = "ok"
              /\ tab'[u].user = Checking(tab[u].req, Jar(u)).user
           \/ /\ tab'[u].at = "login"
              /\ \/ SessionsOf(Jar(u)) = {}
                 \/ Sets(u, LastCookie(Jar(u)), NoSid)
                 \/ Sets(u, logoutHandler(Jar(u)), NoSid)
<1>1. CASE LoseItem \/ RemoveAccount \/ UNCHANGED vars
  BY <1>1 DEF LoseItem, RemoveAccount, vars
<1>2. ASSUME NEW t \in Tabs,
             \/ Visit(t) \/ SignInWith(t) \/ SignInByForm(t) \/ SignOut(t) \/ Reload(t) \/ Approve(t) \/ Deny(t)
             \/ Answers(t) /\ ~Serve(t) /\ ~LogOut(t) /\ ~Refuse(t) /\ ~CheckUser(t)
      PROVE  tab'[u] = tab[u] \/ tab'[u].at \in {"request", "provider", "busy", "error"}
  <2>1. Gets(t, "request") \/ Gets(t, "provider") \/ Gets(t, "busy") \/ Gets(t, "error")
    BY <1>2, OthersGet
  <2> QED
    BY <2>1 DEF Gets
<1>3. ASSUME NEW t \in Tabs, Serve(t)
      PROVE  \/ tab'[u] = tab[u] \/ tab'[u].at = "error"
             \/ /\ tab'[u].at = "page" /\ Checking(tab[u].req, Jar(u)).what = "ok"
                /\ tab'[u].user = Checking(tab[u].req, Jar(u)).user
  BY <1>3, ServeGets DEF Gets
<1>4. ASSUME NEW t \in Tabs, LogOut(t) \/ Refuse(t) \/ CheckUser(t)
      PROVE  \/ tab'[u] = tab[u] \/ tab'[u].at \in {"busy", "error"}
             \/ /\ tab'[u].at = "login"
                /\ \/ SessionsOf(Jar(u)) = {}
                   \/ Sets(u, LastCookie(Jar(u)), NoSid)
                   \/ Sets(u, logoutHandler(Jar(u)), NoSid)
  BY <1>4, RefuseGets DEF Gets
<1> QED
  BY <1>1, <1>2, <1>3, <1>4 DEF Next

\* A page is for the user of an account that is there now, or of the password file, and that the cookie, the
\* header or the provider named (openauth.hpp, authenticated and checkAuthnz).
THEOREM PagesAreOfAccounts == Spec => PagesAreForAccounts
<1>1. ASSUME SignInInv, [Next]_vars, NEW t \in Tabs, tab[t].at # "page", tab'[t].at = "page"
      PROVE  \E a \in NamedAccounts(t) \intersect Known : AuthzUser(a) = tab'[t].user
  <2>1. Checking(tab[t].req, Jar(t)).what = "ok" /\ tab'[t].user = Checking(tab[t].req, Jar(t)).user
    BY <1>1, StepsGet
  <2> QED
    BY <1>1, <2>1, CheckingGrants
<1>2. SignInInv /\ [Next]_vars =>
          [\A t \in Tabs : tab[t].at # "page" /\ tab'[t].at = "page" =>
               \E a \in NamedAccounts(t) \intersect (DOMAIN accounts \union {f[2] : f \in FileUsers}) :
                   AuthzUser(a) = tab'[t].user]_vars
  BY <1>1 DEF Known
<1> QED
  BY <1>2, SignInInvariant, PTL DEF Spec, PagesAreForAccounts

\* A tab that is refused or signs out gets to the login page with fewer sessions, if it had any, and no new one
\* (mod-oauth1.cpp, mod-oauth2.cpp and mod-openauth.cpp, checkAuthn and logoutHandler).
THEOREM RefusalsClearCookies == Spec => RefusalsClear
<1>1. ASSUME SignInInv, [Next]_vars, NEW t \in Tabs, tab[t].at \in {"request", "busy"}, tab'[t].at = "login",
             SessionsOf(Jar(t)) # {}
      PROVE  /\ SessionsOf(jar'[setup.browser[t]]) \subseteq SessionsOf(Jar(t))
             /\ SessionsOf(jar'[setup.browser[t]]) # SessionsOf(Jar(t))
  <2>1. Sets(t, LastCookie(Jar(t)), NoSid) \/ Sets(t, logoutHandler(Jar(t)), NoSid)
    BY <1>1, StepsGet
  <2>2. LastCookie(Jar(t)) \in SessionsOf(Jar(t)) /\ logoutHandler(Jar(t)) \in SessionsOf(Jar(t))
    BY <1>1, LastCookieIs
  <2> QED
    BY <1>1, <2>1, <2>2, ClearingClears
<1>2. SignInInv /\ [Next]_vars =>
          [\A t \in Tabs : tab[t].at \in {"request", "busy"} /\ tab'[t].at = "login" /\ SessionsOf(Jar(t)) # {} =>
               /\ SessionsOf(jar'[setup.browser[t]]) \subseteq SessionsOf(Jar(t))
               /\ SessionsOf(jar'[setup.browser[t]]) # SessionsOf(Jar(t))]_vars
  BY <1>1
<1> QED
  BY <1>2, SignInInvariant, PTL DEF Spec, RefusalsClear
=============================================================================
