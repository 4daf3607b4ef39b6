------------------------------- MODULE SignIn -------------------------------
(***************************************************************************)
(* Signing in: modules/http/mod-openauth.cpp, modules/http/openauth.hpp,   *)
(* modules/oauth/mod-oauth1.cpp and modules/oauth/mod-oauth2.cpp.          *)
(*                                                                         *)
(* Tabs of browsers ask for pages.  Each request carries the cookies of    *)
(* its browser, one per module at most, and goes through the modules in    *)
(* the order of their hooks until one of them does not decline.  A module  *)
(* finds the user of a session in memcached, or sends the tab to the login *)
(* page; from there the tab goes to a provider of users and comes back     *)
(* with a code, that the module exchanges for what the provider knows.     *)
(*                                                                         *)
(* External: the providers, memcached, the browser, the login page and the *)
(* form handler of the HTTP server.                                        *)
(***************************************************************************)
EXTENDS Naturals, Sequences, FiniteSets, SequencesExt

CONSTANTS Tabs,         \* the tabs
          Browsers,     \* the browsers
          Users,        \* the users
          Pages,        \* the pages, each a uri
          Setups,       \* the setups: records of the order in which the modules are loaded, the browsers of the
                        \* tabs, and the bounds of the codes and tokens, sessions and faults
          Profiles,     \* what a provider knows of a user: functions from attributes to texts
          Directives,   \* the directives of the main server, a sequence of records
          VhostDirectives,  \* those of the virtual host that the tabs ask
          Clients,      \* the client ids that requests name
          Spoofs,       \* the user names that start with a slash
          FileUsers,    \* the names, with their prefix, that the password file of the server grants
          Accounts      \* the accounts of the authenticator component at first: records by their names

\* The server loads each module once at most.
ASSUME SignInAssumption ==
    \A s \in Setups : /\ s.order \in UNION {[1..n -> {"openauth", "oauth1", "oauth2"}] : n \in 1..3}
                      /\ s.browser \in [Tabs -> Browsers]
                      /\ s.flows \in Nat /\ s.ids \in Nat /\ s.faults \in Nat

VARIABLES setup,        \* the setup of the server and the browsers
          accounts,     \* the authenticator component: the accounts by their names
          mem,          \* memcached: values by their keys
          jar,          \* the cookies of each browser: the session id by the module
          tab,          \* each tab: where it is
          flows,        \* the providers: their tokens and codes, by their ids, and the browser that exchanged each
          ids,          \* how many session ids were drawn, each numbered as it first was
          repeated,     \* those that were drawn again
          faults        \* the faults so far
vars == <<setup, accounts, mem, jar, tab, flows, ids, repeated, faults>>

\* Values of configuration, of cookies and of requests.
NoSid == [type |-> "", id |-> 0, user |-> "", password |-> ""]
Modules == <<"openauth", "oauth1", "oauth2">>
NoRequest == [uri |-> "/", ref |-> "", cid |-> "", complete |-> TRUE, code |-> 0, header |-> <<>>, nocache |-> FALSE]
Get(uri) == [NoRequest EXCEPT !.uri = uri]

\* Memcached, or a document, with another value.
Put(f, k, v) == [x \in DOMAIN f \union {k} |-> IF x = k THEN v ELSE f[x]]

------------------------------------------------------------------------------
\* The configuration: later application keys and scope attributes come first, providers in their order.
NewConf == [appkeys |-> <<>>, scopeattrs |-> <<>>, apcs |-> <<>>]
confAppKey(c, d) == [c EXCEPT !.appkeys = <<[name |-> d.arg1, id |-> d.arg2]>> \o @]
confScopeAttr(c, d) == [c EXCEPT !.scopeattrs = <<<<d.arg1, d.arg2>>>> \o @]
confAuthnProvider(c, d) == [c EXCEPT !.apcs = Append(@, d.arg1)]
Configured(ds) ==
    FoldLeft(LAMBDA c, d : CASE d.name = "AppKey" -> confAppKey(c, d)
                             [] d.name = "ScopeAttr" -> confScopeAttr(c, d)
                             [] d.name = "Provider" -> confAuthnProvider(c, d), NewConf, ds)
\* A virtual host without keys has those of the main server.
postConfigMerge(main, sc) == IF sc.appkeys = <<>> THEN [sc EXCEPT !.appkeys = main.appkeys] ELSE sc
conf == postConfigMerge(Configured(Directives), Configured(VhostDirectives))
HasApp(cid) == \E i \in DOMAIN conf.appkeys : conf.appkeys[i].name = cid

------------------------------------------------------------------------------
\* What a module answers.
Answer(what) == [what |-> what, rc |-> 200, user |-> "", ref |-> "", attempt |-> FALSE, clears |-> "", module |-> ""]
Declined == Answer("declined")
Failed(rc) == [Answer("status") EXCEPT !.rc = rc]
Granted(user) == [Answer("ok") EXCEPT !.user = user]

sessionID(j, m) == j[m]
hasSession(j, m) == sessionID(j, m) # NoSid
\* A response has one Set-Cookie header: each cookie to clear replaces the one before.
LastCookie(j) == LET present == {i \in DOMAIN Modules : hasSession(j, Modules[i])}
                 IN IF present = {} THEN "" ELSE Modules[Max(present)]
\* The browser removes a cookie without a session id, and keeps the others.
cookie(j, m, sid) == IF m = "" THEN j ELSE [j EXCEPT ![m] = sid]

\* A page that is asked for without a cache is refused, else the tab goes to the login page, with where it was.
login(ref, attempt, req) ==
    IF req.nocache THEN Failed(403)
    ELSE [Answer("login") EXCEPT !.ref = IF ref = "/" THEN "" ELSE IF ref = "" THEN req.uri ELSE ref, !.attempt = attempt]
\* Mutant: the cookies stay.
KeepsCookies(answer, attempt, j, req) ==
    IF answer.what = "status" /\ answer.rc = 401 THEN login("/", attempt, req) ELSE answer
reportStatus(answer, attempt, j, req) ==
    IF answer.what = "status" /\ answer.rc = 401
    THEN [login("/", attempt, req) EXCEPT !.clears = LastCookie(j)]
    ELSE answer

\* The authenticator component has an account for a name, whatever the prefix, with a hash.  Who comes from
\* a provider has no password.  AUTHZ_USER is the user of the account, if it has one.
AuthnComponent(prefix, user, password) ==
    user \in DOMAIN accounts /\ accounts[user].hash # "" /\ (prefix # "" \/ password = accounts[user].hash)
AuthzUser(user) ==
    IF "SCA" \in Range(conf.apcs) /\ user \in DOMAIN accounts /\ accounts[user].user # "" THEN accounts[user].user ELSE user

\* The first provider that grants the name; the password file if none is configured.
checkAuthnzProviders(prefix, user, password) ==
    \E p \in IF conf.apcs = <<>> THEN {"file"} ELSE Range(conf.apcs) :
        \/ p = "file" /\ <<prefix, user>> \in FileUsers
        \/ p = "SCA" /\ AuthnComponent(prefix, user, password)
checkAuthnz(prefix, user, password) == user \notin Spoofs /\ checkAuthnzProviders(prefix, user, password)

\* An authenticated request is of the user that a scope attribute gives, or of the id.
Prefix(m) == IF m = "oauth1" THEN "/oauth1/" ELSE "/oauth2/"
UserOf(info) ==
    LET attributes == SelectSeq(conf.scopeattrs, LAMBDA a : a[1] = "REMOTE_USER" /\ a[2] \in DOMAIN info)
    IN IF attributes = <<>> THEN info["id"] ELSE info[Last(attributes)[2]]
\* Mutant: whoever has signed in is granted.
AuthenticatedOnce(info, m) == IF "id" \notin DOMAIN info THEN Failed(401) ELSE Granted(AuthzUser(UserOf(info)))
authenticated(info, m) ==
    IF "id" \notin DOMAIN info THEN Failed(401)
    ELSE IF checkAuthnz(Prefix(m), UserOf(info), "password") THEN Granted(AuthzUser(UserOf(info)))
    ELSE Failed(401)

\* Mutant: one item for all the sessions of a module.
InfoKeyOfModule(m, sid) == [space |-> m, id |-> 0]
InfoKey(m, sid) == [space |-> m, id |-> sid.id]
userInfo(m, sid) == IF InfoKey(m, sid) \in DOMAIN mem THEN <<mem[InfoKey(m, sid)]>> ELSE <<>>

\* The check of one of the two OAuth modules; the other one has the requests that start with its path.
\* Mutant: the types of the sessions of both modules are the same.
TypeOfBoth(m) == "OAuth_"
Type(m) == IF m = "oauth1" THEN "OAuth1_" ELSE "OAuth2_"
Path(m, step) == "/" \o m \o "/" \o step \o "/"
PathOf(m, uri) == uri \in {Path(m, "authorize"), Path(m, "access_token")}
OAuthCheck(m, other, req, j) ==
    LET sid == sessionID(j, m)
        info == userInfo(m, sid)
    IN IF sid # NoSid
       THEN IF sid.type # Type(m) THEN Declined
            ELSE reportStatus(IF info = <<>> THEN Failed(401) ELSE authenticated(info[1], m), FALSE, j, req)
       ELSE IF req.uri = Path(m, "authorize") THEN [Answer("authorize") EXCEPT !.module = m]
       ELSE IF req.uri = Path(m, "access_token") THEN [Answer("access") EXCEPT !.module = m]
       ELSE IF req.header # <<>> \/ hasSession(j, "openauth") \/ hasSession(j, other) \/ PathOf(other, req.uri) THEN Declined
       ELSE login("", FALSE, req)
oauth1CheckAuthn(req, j) == OAuthCheck("oauth1", "oauth2", req, j)
oauth2CheckAuthn(req, j) == OAuthCheck("oauth2", "oauth1", req, j)

\* Forms and basic authentication: the name and the password are in the cookie or in the header.
userInfoFromCookie(sid) == <<sid.user, sid.password>>
userInfoFromHeader(header) == header
\* Mutant: a request with a header is for others.
HeaderDeclined(req, j) ==
    IF hasSession(j, "openauth") /\ sessionID(j, "openauth").type = "form"
    THEN LET info == userInfoFromCookie(sessionID(j, "openauth"))
         IN reportStatus(IF checkAuthnz("", info[1], info[2]) THEN Granted(AuthzUser(info[1])) ELSE Failed(401), TRUE, j, req)
    ELSE Declined
openauthCheckAuthn(req, j) ==
    LET sid == sessionID(j, "openauth")
        Check(info) == reportStatus(IF checkAuthnz("", info[1], info[2]) THEN Granted(AuthzUser(info[1])) ELSE Failed(401),
                                    TRUE, j, req)
    IN IF sid # NoSid /\ sid.type \in {"OAuth1_", "OAuth2_"} THEN Declined
       ELSE IF sid # NoSid THEN Check(userInfoFromCookie(sid))
       ELSE IF req.header # <<>> THEN Check(userInfoFromHeader(req.header))
       ELSE IF hasSession(j, "oauth1") \/ hasSession(j, "oauth2") THEN Declined
       ELSE login("", FALSE, req)

CheckAuthn(m, req, j) ==
    CASE m = "openauth" -> openauthCheckAuthn(req, j)
      [] m = "oauth1" -> oauth1CheckAuthn(req, j)
      [] m = "oauth2" -> oauth2CheckAuthn(req, j)
\* The first module that does not decline; the server reports an error if all of them do.
Checking(req, j) ==
    LET Declines(i) == CheckAuthn(setup.order[i], req, j).what = "declined"
        first == CHOOSE i \in DOMAIN setup.order : ~Declines(i) /\ \A k \in 1 .. i - 1 : Declines(k)
    IN IF \A i \in DOMAIN setup.order : Declines(i) THEN Failed(500) ELSE CheckAuthn(setup.order[first], req, j)

------------------------------------------------------------------------------
\* A tab is at a page, at the login page, at a provider, has a request to send, waits for an answer in a step
\* of the module, or shows an error.  It keeps the last request that came from a provider, to send it again.
NoTab == [at |-> "login", user |-> "", ref |-> "", module |-> "", step |-> "", req |-> Get("/"), last |-> Get("/"),
          token |-> 0, secret |-> 0, info |-> << >>]
Init ==
    /\ setup \in Setups
    /\ accounts = Accounts
    /\ mem = << >>
    /\ jar = [b \in Browsers |-> [m \in Range(Modules) |-> NoSid]]
    /\ tab = [t \in Tabs |-> NoTab]
    /\ flows = <<>>
    /\ ids = 0 /\ repeated = {} /\ faults = 0

Jar(t) == jar[setup.browser[t]]
Moves(t, next) == tab' = [tab EXCEPT ![t] = next]
At(t, at) == [NoTab EXCEPT !.at = at, !.last = tab[t].last]
Asks(t, req) == Moves(t, [NoTab EXCEPT !.at = "request", !.req = req])
Redirects(t, req) == Moves(t, [At(t, "request") EXCEPT !.req = req])
Errs(t) == Moves(t, At(t, "error"))
Rests(t) == tab[t].at \in {"page", "login", "error"}

\* The user of the tab asks for a page, with a name and a password or without, goes to sign in with a provider
\* or a form, signs out, or opens an address again that a provider sent a tab to, that or another: nothing in
\* it says which browser it is for.
Visit(t) ==
    /\ Rests(t)
    /\ \E p \in Pages, nocache \in BOOLEAN, h \in {<<>>} \union {<<a, Accounts[a].hash>> : a \in DOMAIN Accounts} :
          /\ Asks(t, [Get(p) EXCEPT !.nocache = nocache, !.header = h])
    /\ UNCHANGED <<setup, accounts, mem, jar, flows, ids, repeated, faults>>
SignInWith(t) ==
    /\ tab[t].at = "login"
    /\ \E m \in Range(setup.order) \ {"openauth"}, cid \in Clients, complete \in BOOLEAN, p \in Pages :
          /\ tab[t].ref # "" => p = tab[t].ref
          /\ Asks(t, [Get(Path(m, "authorize")) EXCEPT !.ref = p, !.cid = cid, !.complete = complete])
    /\ UNCHANGED <<setup, accounts, mem, jar, flows, ids, repeated, faults>>
SignInByForm(t) ==
    /\ tab[t].at = "login" /\ "openauth" \in Range(setup.order)
    /\ \E a \in DOMAIN accounts, p \in Pages :
          /\ tab[t].ref # "" => p = tab[t].ref
          /\ jar' = [jar EXCEPT ![setup.browser[t]]["openauth"] =
                        [NoSid EXCEPT !.type = "form", !.user = a, !.password = accounts[a].hash]]
          /\ Asks(t, Get(p))
    /\ UNCHANGED <<setup, accounts, mem, flows, ids, repeated, faults>>
SignOut(t) ==
    /\ tab[t].at = "page" /\ "openauth" \in Range(setup.order)
    /\ Asks(t, Get("/logout/dologout"))
    /\ UNCHANGED <<setup, accounts, mem, jar, flows, ids, repeated, faults>>
Reload(t) ==
    /\ Rests(t)
    /\ \E u \in Tabs : tab[u].last # Get("/") /\ Asks(t, tab[u].last)
    /\ UNCHANGED <<setup, accounts, mem, jar, flows, ids, repeated, faults>>

------------------------------------------------------------------------------
\* The server answers a request.
Sets(t, m, sid) == jar' = [jar EXCEPT ![setup.browser[t]] = cookie(@, m, sid)]

\* The page for a user; a page of a module is none.
Serve(t) == tab[t].at = "request" /\ \E a \in {Checking(tab[t].req, Jar(t))} :
    /\ a.what = "ok" /\ tab[t].req.uri # "/logout/dologout"
    /\ IF tab[t].req.uri \in Pages THEN Moves(t, [At(t, "page") EXCEPT !.user = a.user]) ELSE Errs(t)
    /\ UNCHANGED <<setup, accounts, mem, jar, flows, ids, repeated, faults>>
\* The session of a form is cleared after the others, when the session is saved.
logoutHandler(j) == IF hasSession(j, "openauth") THEN "openauth" ELSE LastCookie(j)
LogOut(t) == tab[t].at = "request" /\ \E a \in {Checking(tab[t].req, Jar(t))} :
    /\ a.what = "ok" /\ tab[t].req.uri = "/logout/dologout"
    /\ Sets(t, logoutHandler(Jar(t)), NoSid)
    /\ Moves(t, At(t, "login"))
    /\ UNCHANGED <<setup, accounts, mem, flows, ids, repeated, faults>>
\* Mutant: the login page is one that asks to sign in.
RefuseAtLogin(t) == tab[t].at = "request" /\ \E a \in {Checking(tab[t].req, Jar(t))} :
    /\ a.what \in {"login", "status"}
    /\ Sets(t, a.clears, NoSid)
    /\ IF a.what = "login" THEN Moves(t, [At(t, "request") EXCEPT !.req = Get("/login/")]) ELSE Errs(t)
    /\ UNCHANGED <<setup, accounts, mem, flows, ids, repeated, faults>>
Refuse(t) == tab[t].at = "request" /\ \E a \in {Checking(tab[t].req, Jar(t))} :
    /\ a.what \in {"login", "status"}
    /\ Sets(t, a.clears, NoSid)
    /\ IF a.what = "login" THEN Moves(t, [At(t, "login") EXCEPT !.ref = a.ref]) ELSE Errs(t)
    /\ UNCHANGED <<setup, accounts, mem, flows, ids, repeated, faults>>

\* Authorize.  The tab goes to the provider; with OAuth 1 that has made a token with a secret before, which
\* memcached keeps.
Authorizing(t, m) ==
    tab[t].at = "request" /\ LET a == Checking(tab[t].req, Jar(t)) IN a.what = "authorize" /\ a.module = m
ToProvider(t, m, token) ==
    Moves(t, [At(t, "provider") EXCEPT !.module = m, !.req = tab[t].req, !.token = token])
oauth2Authorize(t) ==
    /\ Authorizing(t, "oauth2")
    /\ IF tab[t].req.complete /\ HasApp(tab[t].req.cid) THEN ToProvider(t, "oauth2", 0) ELSE Errs(t)
    /\ UNCHANGED <<setup, accounts, mem, jar, flows, ids, repeated, faults>>
NextFlow == Len(flows) + 1
SecretKey(token) == [space |-> "tuscanyOAuth1Token", id |-> token]
oauth1Authorize(t) ==
    /\ Authorizing(t, "oauth1") /\ tab[t].req.complete /\ HasApp(tab[t].req.cid) /\ NextFlow <= setup.flows
    /\ flows' = Append(flows, [state |-> "asked", user |-> "", browser |-> ""])
    /\ mem' = Put(mem, SecretKey(NextFlow), NextFlow)
    /\ ToProvider(t, "oauth1", NextFlow)
    /\ UNCHANGED <<setup, accounts, jar, ids, repeated, faults>>
\* A parameter is missing, the client is not known, or the provider or memcached fails.
AuthorizeFails(t) ==
    /\ Authorizing(t, "oauth1")
    /\ Errs(t)
    /\ UNCHANGED <<setup, accounts, mem, jar, flows, ids, repeated, faults>>

------------------------------------------------------------------------------
\* The provider sends the tab back with the token, if the user agrees, or without.
Back(t, code) ==
    LET req == [tab[t].req EXCEPT !.uri = Path(tab[t].module, "access_token"), !.code = code]
    IN Moves(t, [At(t, "request") EXCEPT !.req = req, !.last = req])
Approve(t) ==
    /\ tab[t].at = "provider"
    /\ \E u \in Users : LET id == IF tab[t].module = "oauth1" THEN tab[t].token ELSE NextFlow IN
          /\ id <= setup.flows
          /\ flows' = [i \in DOMAIN flows \union {id} |->
                          IF i = id THEN [state |-> "approved", user |-> u, browser |-> ""] ELSE flows[i]]
          /\ Back(t, id)
    /\ UNCHANGED <<setup, accounts, mem, jar, ids, repeated, faults>>
Deny(t) ==
    /\ tab[t].at = "provider"
    /\ Back(t, 0)
    /\ UNCHANGED <<setup, accounts, mem, jar, flows, ids, repeated, faults>>

------------------------------------------------------------------------------
\* Access token: the secret of the token, the access token from the provider, what it knows of the user, the
\* check, the session.
Step(t, next) == Moves(t, [tab[t] EXCEPT !.at = "busy", !.step = next])
Busy(t, step) == tab[t].at = "busy" /\ tab[t].step = step
Accessing(t, m) ==
    tab[t].at = "request" /\ LET a == Checking(tab[t].req, Jar(t)) IN a.what = "access" /\ a.module = m
Accepts(t, m, first) ==
    /\ Accessing(t, m)
    /\ IF tab[t].req.complete /\ tab[t].req.code # 0 /\ HasApp(tab[t].req.cid)
       THEN Moves(t, [tab[t] EXCEPT !.at = "busy", !.module = m, !.step = first]) ELSE Errs(t)
    /\ UNCHANGED <<setup, accounts, mem, jar, flows, ids, repeated, faults>>
oauth1AccessToken(t) == Accepts(t, "oauth1", "secret")
oauth2AccessToken(t) == Accepts(t, "oauth2", "token")
\* Mutant: the secret of the token made last.
LastSecret(t) == LET tokens == {k \in DOMAIN mem : k.space = "tuscanyOAuth1Token"}
                 IN {mem[k] : k \in {l \in tokens : \A n \in tokens : n.id <= l.id}}
SecretsOf(t) == {mem[k] : k \in {SecretKey(tab[t].req.code)} \intersect DOMAIN mem}
GetSecret(t) ==
    /\ Busy(t, "secret")
    /\ IF SecretsOf(t) = {} THEN Errs(t)
       ELSE \E secret \in SecretsOf(t) : Moves(t, [tab[t] EXCEPT !.step = "token", !.secret = secret])
    /\ UNCHANGED <<setup, accounts, mem, jar, flows, ids, repeated, faults>>
\* The provider takes a code once, and a token with its secret.
Takes(t) == /\ flows[tab[t].req.code].state = "approved"
            /\ tab[t].module = "oauth1" => tab[t].secret = tab[t].req.code
GetToken(t) ==
    /\ Busy(t, "token") /\ Takes(t)
    /\ flows' = [flows EXCEPT ![tab[t].req.code] = [@ EXCEPT !.state = "used", !.browser = setup.browser[t]]]
    /\ Step(t, "info")
    /\ UNCHANGED <<setup, accounts, mem, jar, ids, repeated, faults>>
\* What the provider knows, with the realm.  With OAuth 1 it is a document of one of three formats.
profileUserInfo(cid, user) == Put(Profiles[user], "realm", cid)
oauth1ProfileUserInfo(cid, user, format) ==
    IF format \in {"JSON array", "JSON object", "XML"} THEN <<profileUserInfo(cid, user)>> ELSE <<>>
HasInfo(t, info) == Moves(t, [tab[t] EXCEPT !.step = "check", !.info = info])
GetInfo(t) ==
    /\ Busy(t, "info")
    /\ LET user == flows[tab[t].req.code].user IN
          \/ tab[t].module = "oauth2" /\ HasInfo(t, profileUserInfo(tab[t].req.cid, user))
          \/ /\ tab[t].module = "oauth1"
             /\ \E format \in {"JSON array", "JSON object", "XML", "text"} :
                   LET info == oauth1ProfileUserInfo(tab[t].req.cid, user, format)
                   IN IF info = <<>> THEN Errs(t) ELSE HasInfo(t, info[1])
    /\ UNCHANGED <<setup, accounts, mem, jar, flows, ids, repeated, faults>>
\* The provider refuses, fails or answers what cannot be read, or memcached fails.
AccessFails(t) ==
    /\ Busy(t, "token") \/ Busy(t, "info") \/ Busy(t, "store")
    /\ Errs(t)
    /\ UNCHANGED <<setup, accounts, mem, jar, flows, ids, repeated, faults>>
CheckUser(t) == Busy(t, "check") /\ \E a \in {reportStatus(authenticated(tab[t].info, tab[t].module), TRUE, Jar(t), tab[t].req)} :
    /\ Sets(t, a.clears, NoSid)
    /\ CASE a.what = "ok" -> Step(t, "store")
         [] a.what = "login" -> Moves(t, [At(t, "login") EXCEPT !.ref = a.ref])
         [] a.what = "status" -> Errs(t)
    /\ UNCHANGED <<setup, accounts, mem, flows, ids, repeated, faults>>
\* The id is drawn from the clock, so one that was drawn before may be drawn again.
StoreSession(t) ==
    /\ Busy(t, "store")
    /\ \E id \in 1 .. ids + 1 :
          LET m == tab[t].module
              sid == [NoSid EXCEPT !.type = Type(m), !.id = id]
          IN /\ id <= setup.ids
             /\ mem' = Put(mem, InfoKey(m, sid), tab[t].info)
             /\ Sets(t, m, sid)
             /\ ids' = IF id > ids THEN id ELSE ids
             /\ repeated' = repeated \union ({id} \intersect 1 .. ids)
    /\ Redirects(t, Get(tab[t].req.ref))
    /\ UNCHANGED <<setup, accounts, flows, faults>>

\* memcached loses an item; the authenticator component loses an account.
LoseItem ==
    /\ faults < setup.faults
    /\ \E k \in DOMAIN mem : mem' = Restrict(mem, DOMAIN mem \ {k})
    /\ faults' = faults + 1
    /\ UNCHANGED <<setup, accounts, jar, tab, flows, ids, repeated>>
RemoveAccount ==
    /\ faults < setup.faults
    /\ \E a \in DOMAIN accounts : accounts' = Restrict(accounts, DOMAIN accounts \ {a})
    /\ faults' = faults + 1
    /\ UNCHANGED <<setup, mem, jar, tab, flows, ids, repeated>>

Answers(t) ==
    \/ Serve(t) \/ LogOut(t) \/ Refuse(t) \/ oauth2Authorize(t) \/ oauth1Authorize(t) \/ AuthorizeFails(t)
    \/ oauth1AccessToken(t) \/ oauth2AccessToken(t)
    \/ GetSecret(t) \/ GetToken(t) \/ GetInfo(t) \/ AccessFails(t) \/ CheckUser(t) \/ StoreSession(t)
Next ==
    \/ \E t \in Tabs : Visit(t) \/ SignInWith(t) \/ SignInByForm(t) \/ SignOut(t) \/ Reload(t) \/ Approve(t) \/ Deny(t)
                      \/ Answers(t)
    \/ LoseItem \/ RemoveAccount

\* The server answers what it is asked.
Spec == Init /\ [][Next]_vars /\ \A t \in Tabs : WF_vars(Answers(t))

------------------------------------------------------------------------------
TypeOK ==
    /\ setup \in Setups
    /\ DOMAIN accounts \subseteq DOMAIN Accounts
    /\ \A b \in Browsers, m \in Range(Modules) : jar[b][m] = NoSid \/ jar[b][m].type \in {"form", "OAuth1_", "OAuth2_"}
    /\ \A t \in Tabs : tab[t].at \in {"page", "login", "error", "provider", "request", "busy"}
    /\ ids \in 0 .. setup.ids /\ repeated \subseteq 1 .. ids /\ Len(flows) <= setup.flows /\ faults \in 0 .. setup.faults

\* The session that a browser has is of a user who agreed to a code that this browser exchanged, whatever
\* sign-ins overlap, on the same server and with the same memcached, unless its id was drawn more than once.
SessionsAreTheirs ==
    \A b \in Browsers, m \in {"oauth1", "oauth2"} :
        LET info == userInfo(m, jar[b][m])
        IN hasSession(jar[b], m) /\ jar[b][m].id \notin repeated /\ info # <<>> =>
               \E i \in DOMAIN flows : /\ flows[i].browser = b /\ flows[i].state = "used"
                                      /\ info[1] = profileUserInfo(info[1]["realm"], flows[i].user)

\* A token of OAuth 1 is exchanged with the secret that came with it, not with the one of another sign-in.
SecretsMatch ==
    \A t \in Tabs : Busy(t, "token") /\ tab[t].module = "oauth1" => tab[t].secret = tab[t].req.code

\* Whatever sign-ins overlap, a session is of the user whose code its browser exchanged, unless its id was drawn
\* twice, and a token goes with its own secret.
SessionsKept == TypeOK /\ SessionsAreTheirs /\ SecretsMatch

\* A page is shown for the user of an account that is there now, and that the form, the header or the
\* provider named: not for one that was removed since the sign-in.
NamedAccounts(t) ==
    LET j == Jar(t)
        infos == UNION {Range(userInfo(m, j[m])) : m \in {"oauth1", "oauth2"}}
    IN {j["openauth"].user} \union {tab[t].req.header[i] : i \in DOMAIN tab[t].req.header \intersect {1}}
       \union {UserOf(info) : info \in {i \in infos : "id" \in DOMAIN i}}
PagesAreForAccounts ==
    [][\A t \in Tabs : tab[t].at # "page" /\ tab'[t].at = "page" =>
           \E a \in NamedAccounts(t) \intersect (DOMAIN accounts \union {f[2] : f \in FileUsers}) :
               AuthzUser(a) = tab'[t].user]_vars

\* A tab that is refused or signs out gets to the login page with fewer sessions than its browser had, if it had
\* any, and with no new one: one that does so again and again ends with none, and can sign in.
SessionsOf(j) == {m \in Range(Modules) : hasSession(j, m)}
RefusalsClear ==
    [][\A t \in Tabs : tab[t].at \in {"request", "busy"} /\ tab'[t].at = "login" /\ SessionsOf(Jar(t)) # {} =>
           /\ SessionsOf(jar'[setup.browser[t]]) \subseteq SessionsOf(Jar(t))
           /\ SessionsOf(jar'[setup.browser[t]]) # SessionsOf(Jar(t))]_vars

\* The modules that are loaded answer every request between them: they do not all decline, unless the request has
\* a header and the module for headers is not loaded.
SomeoneAnswers ==
    \A t \in Tabs :
        tab[t].at = "request" /\ (tab[t].req.header # <<>> => "openauth" \in Range(setup.order)) =>
            \E m \in Range(setup.order) : CheckAuthn(m, tab[t].req, Jar(t)).what # "declined"

\* No request goes on for ever, from one redirect to the next: some module answers each, and the tab gets to a
\* page, to the login page, to a provider or to an error.
RequestsEnd ==
    /\ []SomeoneAnswers
    /\ \A t \in Tabs : tab[t].at \in {"request", "busy"} ~> tab[t].at \notin {"request", "busy"}

------------------------------------------------------------------------------
(* The inductive invariant behind SessionsKept *)

\* A header has the name first.
HeadersName(req) == req.header # <<>> => 1 \in DOMAIN req.header

\* The records and the maps have all their fields and keys, and flows are numbered from 1.
Shapes ==
    /\ DOMAIN tab = Tabs /\ DOMAIN jar = Browsers
    /\ \A b \in Browsers : DOMAIN jar[b] = Range(Modules)
    /\ \A t \in Tabs : /\ DOMAIN tab[t] = DOMAIN NoTab
                       /\ \A req \in {tab[t].req, tab[t].last} : DOMAIN req = DOMAIN NoRequest /\ HeadersName(req)
    /\ flows \in Seq([state : {"asked", "approved", "used"}, user : Users \union {""},
                      browser : {setup.browser[t] : t \in Tabs} \union {""}])

\* The code a tab comes back with, or came back with last, is one that a user agreed to.
CodeIsGiven(t) ==
    \A req \in {tab[t].req, tab[t].last} :
        req.code # 0 => /\ req.code \in DOMAIN flows
                        /\ flows[req.code].state \in {"approved", "used"}

\* A tab that is at the provider of OAuth 1 has the only token that is not approved yet.
TokenIsOwn(t) ==
    tab[t].at = "provider" /\ tab[t].module = "oauth1" =>
        /\ tab[t].token \in DOMAIN flows /\ flows[tab[t].token].state = "asked"
        /\ \A u \in Tabs \ {t} : tab[u].at = "provider" /\ tab[u].module = "oauth1" => tab[u].token # tab[t].token

\* An exchange goes on with the code of the tab: it has the secret, then it has used the code, then it has what
\* the provider knows of the user who agreed.
ExchangeIsOwn(t) ==
    LET code == tab[t].req.code IN
    tab[t].at = "busy" =>
        /\ tab[t].module \in {"oauth1", "oauth2"} /\ code # 0
        /\ tab[t].step = "token" /\ tab[t].module = "oauth1" => tab[t].secret = code
        /\ tab[t].step \in {"info", "check", "store"} =>
               flows[code].state = "used" /\ flows[code].browser = setup.browser[t]
        /\ tab[t].step \in {"check", "store"} => tab[t].info = profileUserInfo(tab[t].info["realm"], flows[code].user)

\* memcached has the secrets under their tokens, and sessions are numbered as they are made.
SecretsAreTrue == \A k \in DOMAIN mem : k.space = "tuscanyOAuth1Token" => mem[k] = k.id
SessionsAreNumbered ==
    \A b \in Browsers, m \in {"oauth1", "oauth2"} : hasSession(jar[b], m) => jar[b][m].id \in 1 .. ids

SignInInv ==
    /\ TypeOK /\ Shapes /\ SecretsAreTrue /\ SessionsAreNumbered /\ SessionsAreTheirs
    /\ \A t \in Tabs : CodeIsGiven(t) /\ TokenIsOwn(t) /\ ExchangeIsOwn(t)
==============================================================================
