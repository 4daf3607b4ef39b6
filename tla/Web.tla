---------------------------------- MODULE Web ----------------------------------
(***************************************************************************)
(* Requests and redirects in a server, modules/http/httpd.hpp, the bodies  *)
(* of messages, kernel/sstream.hpp and modules/http/http.hpp, and the      *)
(* redirects of a sign-in: modules/http/openauth.hpp,                      *)
(* modules/oauth/mod-oauth1.cpp and mod-oauth2.cpp.                        *)
(*                                                                         *)
(* A request of Routing is also one to a server of a scheme and at a port, *)
(* scheme and port, and can be forwarded by a front end that says which    *)
(* ones the client used: https and fport, "" if it says nothing.  env has  *)
(* the variables of the request by their names.                            *)
(***************************************************************************)
EXTENDS Routing

\* Mutant: the scheme of the server is taken for that of the front end.
serverScheme(r) == r.scheme
scheme(r) == CASE r.https = "" -> r.scheme [] r.https = "on" -> "https" [] OTHER -> "http"
port(r) == IF r.fport # "" THEN r.fport ELSE r.port
\* A port is left out if it is that of the scheme.
Default(s, p) == <<s, p>> \in {<<"http", "80">>, <<"https", "443">>}
url(u, r) ==
    IF isAbsolute(u) THEN u
    ELSE <<scheme(r), "://">> \o hostName(r) \o (IF Default(scheme(r), port(r)) THEN <<>> ELSE <<":", port(r)>>) \o u

------------------------------------------------------------------------------
\* A text up to a word, and after it.
Place(w, t) == LET at == SelectInSeq(t, LAMBDA x : x = w) IN IF at = 0 THEN Len(t) + 1 ELSE at
UpTo(w, t) == SubSeq(t, 1, Place(w, t) - 1)
From(w, t) == SubSeq(t, Place(w, t) + 1, Len(t))

\* A request that is made from another one and answered in its place: it has the method, the headers and the user
\* of that, and its variables under other names.
Renamed(n) == "REDIRECT_" \o n
internalRenameOriginalEnv(env) ==
    [n \in {Renamed(e) : e \in DOMAIN env} |-> env[CHOOSE e \in DOMAIN env : Renamed(e) = n]]
\* Mutant: the query stays in the path.
RedirectUnparsed(u, r) ==
    IF r.depth >= RedirectLimit THEN LimitExceeded
    ELSE Content([Below(r, u) EXCEPT !.env = internalRenameOriginalEnv(r.env)])
internalRedirectRequest(u, r) ==
    IF r.depth >= RedirectLimit THEN LimitExceeded
    ELSE Content([Below(r, UpTo("?", u)) EXCEPT !.args = From("?", u), !.env = internalRenameOriginalEnv(r.env)])

\* The request that is answered in the end, and what it comes to.  One that is declined is for a file.
Served(r, o) == [request |-> r, outcome |-> o]
RECURSIVE serveRequest(_, _)
internalRedirect(u, r, sc) ==
    LET nr == internalRedirectRequest(u, r)
    IN IF hasContent(nr) THEN serveRequest(nr.content, sc) ELSE Served(r, Outcome("status", nr.code))
ServeAs(o, r, sc) == IF o.what = "redirect" THEN internalRedirect(o.value, r, sc) ELSE Served(r, o)
serveRequest(r, sc) == ServeAs(handler(r, sc), r, sc)

------------------------------------------------------------------------------
\* A sign-in.  The server redirects to its login page, with where the user wanted to go.
ReferrerArg(t) == <<"openauth_referrer", "=">> \o t
loginLocation(page, r) == url(page, r) \o <<"?">> \o ReferrerArg(escape(url(r.uri, r)))

\* The page, and a browser that sends its form: arguments are sent escaped, and the page drops a query.
ArgOf(w, t) == AsText(Cadr(assoc(Word(w), queryArgs([args |-> t]))))
loginPage(location) == ReferrerArg(escape(UpTo("?", unescape(ArgOf("openauth_referrer", From("?", location))))))

\* What is kept while the provider has the user: arguments as they came.
KeptArgs(args) == <<"client_id", "=", "a", "&">> \o ReferrerArg(ArgOf("openauth_referrer", args))

\* OAuth 2: a state that the provider gives back.
oauth2State(args) == escape(KeptArgs(args))
oauth2Authorization(args) == <<"response_type", "=", "code", "&", "state", "=">> \o oauth2State(args)
oauth2Provider(args) == <<"state", "=">> \o escape(unescape(ArgOf("state", args)))
oauth2Return(args, r) == url(unescape(ArgOf("openauth_referrer", unescape(ArgOf("state", args)))), r)

\* OAuth 1: a URL of the server that the provider redirects to, in the header of the request for a token.
oauth1Callback(args, r) == url(<<"/", "oauth1", "/", "?">> \o KeptArgs(args), r)
oauth1Header(callback) ==
    (IF callback = <<>> THEN <<>> ELSE <<"oauth_callback", "=">> \o escape(callback) \o <<"&">>) \o <<"oauth_version", "=", "1">>
oauth1Provider(header) == From("?", unescape(ArgOf("oauth_callback", header))) \o <<"&", "oauth_token", "=", "a">>
oauth1Return(args, r) == url(unescape(ArgOf("openauth_referrer", args)), r)

------------------------------------------------------------------------------
\* Bodies are lists of texts.
\* Mutant: the rest of a text that is cut is dropped.
CutText(l, max) == <<SubSeq(l[1], 1, IF Len(l[1]) <= max THEN Len(l[1]) ELSE max)>> \o Tail(l)
fragment(l, max) ==
    IF Len(l[1]) <= max THEN l ELSE <<SubSeq(l[1], 1, max), SubSeq(l[1], max + 1, Len(l[1]))>> \o Tail(l)
\* What CURL sends: it asks for at most so much, until it gets nothing.
RECURSIVE readCallback(_, _)
readCallback(l, max) ==
    IF l = <<>> \/ fragment(l, max)[1] = <<>> THEN <<>>
    ELSE fragment(l, max)[1] \o readCallback(Tail(fragment(l, max)), max)
\* The pieces that are read of a stream.
RECURSIVE streamList(_, _)
streamList(t, max) ==
    IF t = <<>> THEN <<>> ELSE <<SubSeq(t, 1, IF Len(t) < max THEN Len(t) ELSE max)>> \o streamList(SubSeq(t, max + 1, Len(t)), max)
\* A server reads a request like any stream; CURL hands the pieces of a response over, which are collected in reverse.
readRequest(t, max) == streamList(t, max)
writeCallback(accum, piece) == <<piece>> \o accum
=============================================================================
