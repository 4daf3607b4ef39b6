------------------------------ MODULE Routing ------------------------------
(***************************************************************************)
(* From a deployed composite to the component that answers a request:      *)
(* modules/scdl/scdl.hpp, the tables and the translation of requests of    *)
(* modules/server/mod-eval.hpp, and what they use of                       *)
(* modules/http/httpd.hpp.                                                 *)
(*                                                                         *)
(* A request is a record: method, host and forwarded (texts, the second    *)
(* one the empty text if there is none), uri, args (texts), user, env,     *)
(* handler, and depth, how many requests it was made from.                 *)
(* The server is a record: host, domain (texts), virtuals (whether virtual *)
(* hosts are configured), compos, timeout, machine, and what reading the composite  *)
(* of a virtual host gives, vcompos.  The lambda of a component is named   *)
(* by its host and the component.  file says what the request maps to in   *)
(* the file system.                                                        *)
(***************************************************************************)
EXTENDS Trees, Elements

\* The composite.
ElementsOf(name, l) == childrenNamed(Word(name), l)
components(l) == ElementsOf("component", Car(ElementsOf("composite", l)))
name(l) == attributeNamed(Word("name"), l)
uri(l) == attributeNamed(Word("uri"), l)
wiredByImpl(l) == Eq(attributeNamed(Word("wiredByImpl"), l), Str(<<"true">>))
services(l) == ElementsOf("service", l)
references(l) == ElementsOf("reference", l)
properties(l) == ElementsOf("property", l)
Tagged(v, part) == isElement(v) /\ part \in Range(AsText(elementName(v)))
bindings(l) == SelectSeq(AsList(l), LAMBDA v : Tagged(v, "binding."))
implementation(l) == Car(SelectSeq(AsList(l), LAMBDA v : Tagged(v, "implementation.")))
\* The first binding with a uri is the target of a reference that has no target attribute.
target(l) ==
    Car(SelectSeq(<<attributeNamed(Word("target"), l)>> \o map(uri, bindings(l)), LAMBDA u : ~isNull(u)))
referenceToTargetAssoc(r) == map(LAMBDA ref : Lst(<<name(ref), target(ref)>>), r)

\* The tables: of reference targets, of service paths, of implementations.
Table(l) == mkbrbtree(sort(l, rbtreeComp))
\* Value of a tree, as the tables of the references of a component are values.
TreeValue(tree) == <<"Tree", tree>>
componentReferenceToTargetAssoc(cs) ==
    map(LAMBDA c : Lst(<<name(c), TreeValue(Table(referenceToTargetAssoc(references(c))))>>), cs)

StringOf(v) == Str(AsText(v))
\* A binding is at its uri, and without one at the name of the component and of the service, as is a service
\* without bindings.
ServicePath(cn, sn, u) == Lst(IF isNull(u) THEN <<cn, sn>> ELSE pathValues(AsText(u)))
bindingToComponentAssoc(cn, sn, b) == map(LAMBDA u : Lst(<<ServicePath(cn, sn, u), cn>>), map(uri, b))
OrUnbound(b) == IF b = <<>> THEN <<Nil>> ELSE b
serviceToComponentAssoc(cn, s) ==
    FlattenSeq(map(LAMBDA v : bindingToComponentAssoc(cn, StringOf(name(v)), OrUnbound(bindings(v))), s))
uriToComponentAssoc(cs) ==
    FlattenSeq(map(LAMBDA c : serviceToComponentAssoc(StringOf(name(c)), services(c)), cs))
componentToImplementationAssoc(host, cs) == map(LAMBDA c : Lst(<<name(c), Lam(<<host, name(c)>>)>>), cs)

TablesOf(host, cs) ==
    [refs |-> Table(componentReferenceToTargetAssoc(cs)),
     svcs |-> Table(uriToComponentAssoc(cs)),
     impls |-> Table(componentToImplementationAssoc(host, cs))]
Composite(host, l) == TablesOf(host, components(l))

------------------------------------------------------------------------------
\* Names of hosts: a text of words with dots.  A URI has "://" if it is absolute.
Dots(t) == {i \in DOMAIN t : t[i] = "."}
FirstDot(t) == CHOOSE i \in Dots(t) : \A j \in Dots(t) : i <= j
\* Mutant: the first word of the host is dropped, not kept.
SubDomainDropped(t) == IF Dots(t) = {} THEN t ELSE SubSeq(t, FirstDot(t) + 1, Len(t))
subDomain(t) == IF Dots(t) = {} THEN t ELSE SubSeq(t, 1, FirstDot(t) - 1)
topDomain(t) == IF Dots(t) = {} THEN t ELSE SubSeq(t, FirstDot(t) + 1, Len(t))
isAbsolute(t) == "://" \in Range(t)
hostName(r) == IF r.forwarded # <<>> THEN r.forwarded ELSE r.host
realm(t) == IF Len(t) > 1 /\ t[1] \in {"www", "ww1", "ww2", "ww3"} /\ t[2] = "." THEN SubSeq(t, 3, Len(t)) ELSE t
isVhostRequest(sc, r) == hostName(r) # sc.host /\ topDomain(hostName(r)) = sc.domain

\* Mutant: one segment of the path of the service is left.
PathInfoOffByOne(u, p) == listTail(u, Len(p) - 1)
\* The rest of a path after another.
pathInfo(u, p) == listTail(u, Len(p))
QueryText(r) == IF r.args = <<>> THEN <<>> ELSE <<"?">> \o r.args

------------------------------------------------------------------------------
\* Translation.  conf is what the request carries for the handler, from no handler at first.
OK == 0
DECLINED == -1
NOT_FOUND == 404
FORBIDDEN == 403
MOVED == 302
SERVER_ERROR == 500
NewConf == [handler |-> "", proxied |-> <<>>, location |-> <<>>, vhost |-> FALSE, valias |-> FALSE,
            rpath |-> <<>>, vpath |-> <<>>, impls |-> <<>>]
Translated(rc, conf) == [rc |-> rc, conf |-> conf]
Handled(conf) == [conf EXCEPT !.handler = "mod_tuscany_eval"]
proceedToHandler(conf, valias, rpath, vpath, impls) ==
    [Handled(conf) EXCEPT !.valias = valias, !.rpath = rpath, !.vpath = vpath, !.impls = impls]

translateComponent(conf, rpath, vpath, impls) ==
    IF Len(rpath) < 2 \/ rbtreeAssoc(rpath[2], impls) = <<>> THEN Translated(NOT_FOUND, conf)
    ELSE Translated(OK, proceedToHandler(conf, FALSE, rpath, vpath, impls))

\* Mutant: the service is taken for a part of the name of the component.
WholeTarget(t) == t
\* A relative target is the component before the first slash.
BeforeSlash(t) == LET at == {i \in DOMAIN t : t[i] = "/"}
                  IN IF at = {} THEN t ELSE SubSeq(t, 1, (CHOOSE i \in at : \A j \in at : i <= j) - 1)
translateReference(r, conf, rpath, vpath, refs, impls) ==
    LET comp == IF Len(rpath) < 2 THEN <<>> ELSE rbtreeAssoc(rpath[2], refs)
        ref == IF comp = <<>> THEN <<>> ELSE rbtreeAssoc(Car(listTail(rpath, 2)), comp[2][2])
        t == AsText(Cadr(ref))
        rest == listTail(rpath, 3)
    IN IF ref = <<>> THEN Translated(NOT_FOUND, conf)
       ELSE IF isAbsolute(t)
            THEN Translated(OK, [conf EXCEPT !.handler = "proxy-server", !.proxied = t \o path(rest) \o QueryText(r)])
       ELSE Translated(OK, proceedToHandler(conf, FALSE, <<Str(<<"c">>), Str(BeforeSlash(t))>> \o rest, vpath, impls))

matchPath(k, p) == Len(p) <= Len(k) /\ ListEq(SubSeq(k, 1, Len(p)), p)

\* A request below another one: httpd makes so many at most.  One that redirects has the method and the headers of
\* the other, one that asks what a path maps to has not.
RedirectLimit == 10
Below(r, u) == [r EXCEPT !.uri = u, !.args = <<>>, !.handler = "", !.depth = @ + 1]
LimitExceeded == Failure(<<"Redirect recursion limit exceeded">>, SERVER_ERROR)
internalSubRequest(u, r) ==
    IF r.depth >= RedirectLimit THEN LimitExceeded
    ELSE Content([Below(r, u) EXCEPT !.method = "POST", !.forwarded = <<>>])

RECURSIVE assocPath(_, _)
assocPath(k, tree) ==
    IF tree = <<>> THEN <<>>
    ELSE LET p == AsList(Car(AsList(tree[1])))
         IN IF matchPath(k, p) THEN AsList(tree[1])
            ELSE assocPath(k, IF ListLess(k, p) THEN tree[2] ELSE tree[3])

translateService(conf, rpath, vpath, svcs, impls) ==
    LET svc == assocPath(rpath, svcs)
    IN IF rpath = <<>> THEN Translated(NOT_FOUND, conf)
       ELSE IF svc = <<>> THEN Translated(DECLINED, conf)
       ELSE Translated(OK, proceedToHandler(conf, FALSE,
                               <<Str(<<"c">>), svc[2]>> \o pathInfo(rpath, AsList(svc[1])), vpath, impls))

\* What is neither a component, a reference nor a service is a file.
translateFile(r, conf, rpath, vpath, impls) ==
    LET sub == internalSubRequest(r.uri, r)
    IN IF vpath = <<>>
       THEN Translated(CASE ~hasContent(sub) -> sub.code
                         [] r.file = "refused" -> FORBIDDEN
                         [] r.file = "file" -> DECLINED
                         [] OTHER -> NOT_FOUND, conf)
       ELSE IF rpath = <<>> /\ Last(r.uri) # "/"
            THEN Translated(MOVED, [Handled(conf) EXCEPT !.location = r.uri \o <<"/">> \o QueryText(r)])
       ELSE Translated(OK, proceedToHandler(conf, TRUE, rpath, vpath, impls))

\* The first that is found, and it sets the handler, or else the file.
Found(t, file) == IF t.rc = OK THEN Translated(OK, Handled(t.conf)) ELSE file
translatePrefix(r, prefix, conf, rpath, vpath, compos) ==
    CASE prefix \in {<<"components">>, <<"c">>} -> translateComponent(conf, rpath, vpath, compos.impls)
      [] prefix \in {<<"references">>, <<"r">>} ->
            translateReference(r, conf, rpath, vpath, compos.refs, compos.impls)
      [] OTHER -> Translated(NOT_FOUND, conf)
translateRequest(r, conf, rpath, vpath, compos) ==
    Found(translatePrefix(r, AsText(Car(rpath)), conf, rpath, vpath, compos),
          Found(translateService(conf, rpath, vpath, compos.svcs, compos.impls),
                translateFile(r, conf, rpath, vpath, compos.impls)))

\* A virtual host is the one that the host name names, or the first segment of a path that is nothing else.
translateVirtual(r, sc, conf, rpath, vname) ==
    LET v == sc.vcompos[vname]
    IN IF vname \notin DOMAIN sc.vcompos THEN Translated(DECLINED, conf)
       ELSE translateRequest(r, [conf EXCEPT !.impls = v.impls], rpath, <<Str(vname)>>, v)

OrAlias(main, r, sc, rpath, prefix) ==
    IF main.rc # NOT_FOUND THEN main
    ELSE IF prefix # <<>> /\ sc.virtuals THEN translateVirtual(r, sc, main.conf, Cdr(rpath), prefix)
    ELSE Translated(DECLINED, main.conf)
translatePath(r, sc, rpath, prefix) ==
    IF r.method \notin {"GET", "POST", "PUT", "PATCH", "DELETE"} \/ prefix \in {<<"vhosts">>, <<"v">>}
    THEN Translated(DECLINED, NewConf)
    ELSE IF sc.domain # <<>> /\ sc.virtuals /\ isVhostRequest(sc, r)
         THEN translateVirtual(r, sc, [NewConf EXCEPT !.vhost = TRUE], rpath, subDomain(hostName(r)))
    ELSE OrAlias(translateRequest(r, NewConf, rpath, <<>>, sc.compos), r, sc, rpath, prefix)
translate(r, sc) == translatePath(r, sc, pathValues(r.uri), AsText(Car(pathValues(r.uri))))

------------------------------------------------------------------------------
\* The handler: what the request comes to, and for a component its lambda and the rest of the path.
Outcome(what, v) == [what |-> what, value |-> v]
handleRequest(rpath, impls) ==
    LET impl == rbtreeAssoc(Cadr(rpath), impls)
    IN IF impl = <<>> THEN Outcome("status", NOT_FOUND)
       ELSE Outcome("component", [lambda |-> impl[2][2], params |-> Cddr(rpath)])

\* The components of a virtual host are added to those of the main host.
MergedImpls(sc, conf) == Table(flatten(sc.compos.impls) \o flatten(conf.impls))

handleTranslated(t, conf, r, sc) ==
    IF r.handler # "" THEN Outcome("status", DECLINED)
    ELSE IF t.rc # OK THEN Outcome("status", t.rc)
    ELSE IF conf.handler # "mod_tuscany_eval" THEN Outcome("status", DECLINED)
    ELSE IF conf.valias
         THEN Outcome("redirect", path(<<Str(<<"v">>)>> \o IF conf.vhost THEN conf.vpath ELSE <<>>)
                                  \o r.uri \o QueryText(r))
    ELSE IF conf.rpath = <<>> THEN Outcome("status", NOT_FOUND)
    ELSE handleRequest(conf.rpath, IF conf.vpath # <<>> THEN MergedImpls(sc, conf) ELSE sc.compos.impls)
HandleAs(t, r, sc) == handleTranslated(t, t.conf, r, sc)
handler(r, sc) == HandleAs(translate(r, sc), r, sc)

------------------------------------------------------------------------------
\* References and properties, as the implementation of a component sees them.  The target of a
\* reference is a component, an absolute URI, the one the call names, or none.
proxyOf(ref, t) ==
    IF wiredByImpl(ref) THEN Outcome("wiredByImpl", Nil)
    ELSE IF isNull(t) THEN Outcome("unwired", name(ref))
    ELSE IF isAbsolute(AsText(t)) THEN Outcome("http", t)
    ELSE Outcome("component", Car(pathValues(AsText(t))))
mkrefProxy(ref) == proxyOf(ref, target(ref))
unwiredProxy(refName, params) ==
    IF Eq(Car(params), Word("get")) THEN Nil
    ELSE FailableValue(Failure(<<"Reference is not wired: ">> \o AsText(refName), -1))

\* The arguments of a query: name and value pairs.  A second question mark separates them as well.
fixupQueryArgs(t) == [i \in DOMAIN t |-> IF t[i] = "?" THEN "&" ELSE t[i]]
queryArg(parts) == Lst(<<Sym(parts[1]), Str(IF Len(parts) = 1 THEN <<>> ELSE parts[2])>>)
queryArgs(r) == map(LAMBDA t : queryArg(tokenize("=", t)), tokenize("&", fixupQueryArgs(r.args)))
\* The words that mean something in a URL have an escaped form.
\* An escaped word can be escaped again.
EscapeCodes ==
    [w \in {"&", "=", "?", "/", "://", ":", "."} |->
        CASE w = "&" -> "%26" [] w = "=" -> "%3D" [] w = "?" -> "%3F" [] w = "/" -> "%2F"
          [] w = "://" -> "%3A%2F%2F" [] w = ":" -> "%3A" [] w = "." -> "%2E"]
    @@ [w \in {"%26", "%3D", "%3F", "%2F", "%3A%2F%2F", "%3A", "%2E"} |->
        CASE w = "%26" -> "%2526" [] w = "%3D" -> "%253D" [] w = "%3F" -> "%253F" [] w = "%2F" -> "%252F"
          [] w = "%3A%2F%2F" -> "%253A%252F%252F" [] w = "%3A" -> "%253A" [] w = "%2E" -> "%252E"]
escape(t) == [i \in DOMAIN t |-> IF t[i] \in DOMAIN EscapeCodes THEN EscapeCodes[t[i]] ELSE t[i]]
unescape(t) == [i \in DOMAIN t |-> IF t[i] \in Range(EscapeCodes)
                                   THEN CHOOSE w \in DOMAIN EscapeCodes : EscapeCodes[w] = t[i] ELSE t[i]]
unescapeArgs(args) == map(LAMBDA a : Lst(<<a[2][1], Str(unescape(AsText(a[2][2])))>>), args)

\* A property has the value of the request, if there is one and it has one.
NoRequest == [none |-> TRUE]
EnvNames == [email |-> "EMAIL", nickname |-> "NICKNAME", fullname |-> "FULLNAME",
             firstname |-> "FIRSTNAME", lastname |-> "LASTNAME"]
Given(t, default) == IF t = <<>> THEN default ELSE Str(t)
PropertyValue(n, v, sc, r, conf) ==
    IF r = NoRequest THEN (IF n = "host" THEN Str(sc.machine) ELSE v)
    ELSE CASE n = "app" -> IF conf.vpath = <<>> THEN v ELSE Car(conf.vpath)
           [] n = "host" -> Given(hostName(r), v)
           [] n = "path" -> Lst(conf.rpath)
           [] n = "query" -> Lst(unescapeArgs(queryArgs(r)))
           [] n = "user" -> Given(r.user, v)
           [] n = "realm" -> Given(realm(r.env["REALM"]), v)
           [] n = "timeout" -> Num(sc.timeout)
           [] n \in DOMAIN EnvNames -> Given(r.env[EnvNames[n]], v)
           [] OTHER -> v
mkpropProxy(prop, sc, r, conf) ==
    PropertyValue(Car(AsText(name(prop))), IF elementHasValue(prop) THEN elementValue(prop) ELSE Str(<<>>),
                  sc, r, conf)
=============================================================================
