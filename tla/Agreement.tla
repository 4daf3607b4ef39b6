------------------------------ MODULE Agreement ------------------------------
(***************************************************************************)
(* What the pure functions of the runtime promise each other, over inputs  *)
(* that are built step by step: a value, for the documents it is sent as,  *)
(* the calls it is an argument or an answer of, and the scripts that get   *)
(* it; a list of leaves, for the tables; a request, for the routes; the    *)
(* operations on a store of items; the scripts that a process loads; the   *)
(* calls and posts of several threads; the directives of a server.         *)
(***************************************************************************)
EXTENDS Sessions, Services, Pools, Web, Cart, Config, Foreign, FiniteSets

CONSTANTS Scalars,      \* the values that are no lists
          Names,        \* the names of assocs
          MaxSteps,     \* the steps that build a value
          Leaves,       \* the leaves of tables
          MaxLeaves,    \* the leaves of one table
          Servers,      \* the servers that requests are sent to
          Segments,     \* the segments of the paths of requests
          MaxSegments,  \* the segments of one path
          Configs,      \* the stores: "memcache", the format of files, "partitions" or "memo"
          StoreKeys,    \* the keys of items
          Uuids,        \* the keys that a post makes
          MaxOps,       \* the operations on a store
          ScriptPaths,  \* the scripts of components, by their paths in a contribution
          Threads,      \* the threads that call by HTTP and send mail, and that use a cart
          MaxSequence,  \* the operations on a cart, and those that configure a server and start its processes
          Prices,       \* what the items of a cart cost
          Directives,   \* the directives of the servers: each with its module, server, setting and value
          Exchanges     \* the calls and mails: each of a component, with its session

VARIABLES kind,         \* what the input is: a value, leaves, a request, a store, scripts, calls, a cart or directives
          input,        \* the input
          steps         \* how many steps built it
vars == <<kind, input, steps>>

Request(sc, u) ==
    [server |-> sc, method |-> "GET", host |-> sc.host, forwarded |-> <<>>, uri |-> u, args |-> <<>>, user |-> <<>>,
     file |-> "none", handler |-> "", depth |-> 0]

\* A store and what it should have: the items by their keys.
StoresOf(c) ==
    CASE c = "partitions" -> <<MemCached, MemCached>>
      [] c \in {"memcache", "memo"} -> <<MemCached>>
      [] OTHER -> <<FileDB(c)>>
Item(v) == Lst(<<Lst(<<Word("r"), Lst(<<Word("a"), v>>)>>)>>)

\* The partition of a key, and both of them for a key that is for all.
Select(key) ==
    Lst(IF Eq(Last(Keys(key)), Word("all")) THEN <<Num(1), Num(2)>>
        ELSE IF Eq(Car(Keys(key)), Str(<<"a">>)) THEN <<Num(1)>> ELSE <<Num(2)>>)

\* A patch puts a number in the items that have an a; another one refuses.
PatchOf(body) ==
    Lst(<<Lst(<<entry, Lst(<<Word("content"), Lst(<<Word("patch"), Str(
        <<"(", "define", "(", "patch", "id", "e", ")">> \o body \o <<")">>)>>)>>)>>)>>)
Replacing == PatchOf(<<"(", "tree-subst-assoc", "'", "(", "a", ")", "'", "(", "a", "7", ")", "e", ")">>)
Refusing == PatchOf(<<"b">>)
Replaced(l) == IF l = <<>> THEN Lst(l) ELSE Item(Num(7))

\* What a component that calls by HTTP or sends mail has done with its session when the call is made.
Components == {e.component : e \in Exchanges}
PreparedWith(e, m, cs) == IF e.verb = "MAIL" THEN smtppost(e.mail, m, cs) ELSE prepare(e.url, e.verb, m, cs)
Prepared(e, cs) == PreparedWith(e, IF e.verb = "GET" THEN NoContent ELSE contentMessage(e.val), cs)

\* The pools of a process that was started.
ProcessPool == <<"process">>
NoPools == [parent |-> (ProcessPool :> NoPool), current |-> [t \in Threads |-> NoPool], objects |-> << >>]

\* What the modules of a server are configured with.
Settings == [oauth1 |-> oauthSettings, oauth2 |-> oauthSettings, tunnel |-> tunnelSettings, eval |-> evalSettings]
Command(m, conf, n, v) == CASE m = "oauth1" -> oauth1Command(conf, n, v) [] m = "oauth2" -> oauth2Command(conf, n, v)
                            [] m = "tunnel" -> tunnelCommand(conf, n, v) [] OTHER -> evalCommand(conf, n, v)
AfterConfig(c) == [oauth1 |-> oauth1PostConfig(c.oauth1), oauth2 |-> oauth2PostConfig(c.oauth2),
                   tunnel |-> tunnelPostConfig(c.tunnel), eval |-> evalPostConfig(c.eval)]
AfterChildInit(c, p) == [c EXCEPT !.oauth1 = oauth1ChildInit(@, p), !.oauth2 = oauth2ChildInit(@, p), !.eval = evalChildInit(@, p)]

Init == /\ \/ kind = "value" /\ input \in Scalars \union {Lst(<<>>)}
           \/ kind = "leaves" /\ input = <<>>
           \/ kind = "request" /\ input \in {Request(sc, <<"/">>) : sc \in Servers}
           \/ kind = "store" /\ input \in {[config |-> c, stores |-> StoresOf(c), items |-> << >>] : c \in Configs}
           \/ kind = "scripts" /\ input = [loaded |-> sysModules, parts |-> <<>>]
           \/ kind = "calls" /\ input = [ptrs |-> [c \in Components |-> << >>], sessions |-> << >>, pools |-> NoPools,
                                        doing |-> [t \in Threads |-> <<>>]]
           \/ kind = "cart" /\ input = [cache |-> MemCached, doing |-> [t \in Threads |-> <<>>],
                                       items |-> <<>>, alone |-> TRUE, ids |-> 0]
           \/ kind = "config" /\ input = [confs |-> [m \in DOMAIN Settings |-> [s \in {"main", "virtual"} |-> NoConf(Settings[m])]],
                                         given |-> <<>>, up |-> FALSE, processes |-> << >>]
        /\ steps = 0

Build(k, bound, next) == kind = k /\ steps < bound /\ input' = next /\ steps' = steps + 1 /\ UNCHANGED kind
BuildList(l) == kind = "value" /\ isList(input) /\ Build("value", MaxSteps, Lst(l))
AddScalar == \E s \in Scalars : BuildList(Append(input[2], s))
AddField == \E w \in Names, s \in Scalars : BuildList(Append(input[2], Lst(<<Word(w), s>>)))
Nest == Build("value", MaxSteps, Lst(<<input>>))
Twice == Build("value", MaxSteps, Lst(<<input, input>>))
NameIt == \E w \in Names : Build("value", MaxSteps, Lst(<<Lst(<<Word(w), input>>)>>))
NameFields == \E w \in Names : BuildList(<<Lst(<<Word(w)>> \o input[2])>>)
AddLeaf == \E e \in Leaves : Build("leaves", MaxLeaves, Append(input, e))
AddSegment == \E s \in Segments :
    Build("request", MaxSegments, [input EXCEPT !.uri = @ \o (IF steps = 0 THEN <<s>> ELSE <<"/", s>>)])

\* An operation that is answered is done, and one that fails is not.
Outcomes(did, items) ==
    Build("store", MaxOps,
          [input EXCEPT !.stores = did.store, !.items = IF hasContent(did.answer) THEN items @@ @ ELSE @])
OfOne(did) == Did(<<did.store>>, did.answer)
Partitioned == input.config = "partitions"
FirstFor(k) == IF Partitioned THEN FirstOf(input.stores, Select(k)) ELSE input.stores[1]
Store(k, did, items) ==
    Outcomes(IF Partitioned THEN partitionerUpdate(input.stores, Select(k), did) ELSE OfOne(did), items)
IsStore == kind = "store" /\ input.config # "memo"
Has(k) == k \in DOMAIN input.items /\ input.items[k] # <<>>
PutItem == IsStore /\ \E k \in StoreKeys, v \in {Num(1), Bln(TRUE)} :
    Store(k, storePut(FirstFor(k), k, Item(v)), k :> <<Item(v)>>)
Post(id, did, items) ==
    Outcomes(IF Partitioned THEN partitionerPost(input.stores, Select(id), did, id) ELSE OfOne(did), items)
\* What is posted is due under the id that the post answers.  A partition makes a key below the one that the
\* partitioner made and answers.
PostItem == IsStore /\ \E k \in StoreKeys, u \in Uuids : isList(k) /\
    LET id == IF Partitioned THEN postedId(k, u) ELSE k
    IN Post(id, storePost(FirstFor(id), id, Item(Num(2)), u), postedId(k, u) :> <<Item(Num(2))>>)
PatchItem == IsStore /\ \E k \in StoreKeys, patch \in {Replacing, Refusing} :
    Store(k, storePatch(FirstFor(k), k, patch),
          IF patch = Refusing THEN << >>
          ELSE k :> <<Replaced(IF Has(k) THEN input.items[k][1][2] ELSE <<>>)>>)
DeleteItem == IsStore /\ \E k \in StoreKeys : Store(k, storeDel(FirstFor(k), k), k :> <<>>)
Relay(params) == IF Eq(Car(params), Str(<<"b">>)) THEN Nil ELSE Lst(params)
Memoize == kind = "store" /\ input.config = "memo" /\ \E k \in StoreKeys :
    Build("store", MaxOps, [input EXCEPT !.stores[1] = memoize(@, Keys(k), Relay(Keys(k))).store])

\* A host starts a component: it gets the module of its script, which the interpreter may have.
LoadScript == kind = "scripts" /\ \E h \in {"main", "virtual"}, p \in ScriptPaths :
    LET loaded == readModule(input.loaded, p, <<h, p>>)
    IN Build("scripts", MaxOps,
             [loaded |-> loaded, parts |-> Append(input.parts, [own |-> <<h, p>>, got |-> loaded[moduleName(p)]])])

\* A thread that serves a request sets the session of a component up and calls; later the call and the request end.
SessionOf(t, e) == <<e.component, t>>
BeginCall == kind = "calls" /\ \E t \in Threads, e \in Exchanges :
    LET had == input.ptrs[e.component]
        ptrs == perthread(had, t, SessionOf(t, e))
        began == beginRequest(input.pools, t, ProcessPool)
        made == IF t \in DOMAIN had THEN began ELSE newInPool(began, t, ProcessPool, ptrs[t])
        sessions == input.sessions @@ (ptrs[t] :> e.session)
    IN input.doing[t] = <<>> /\ Build("calls", MaxOps,
           [ptrs |-> [input.ptrs EXCEPT ![e.component] = ptrs],
            sessions |-> [sessions EXCEPT ![ptrs[t]] = Prepared(e, @)],
            pools |-> getItem(debugLog(made, t), t, <<"value", t>>),
            doing |-> [input.doing EXCEPT ![t] = <<e>>]])
EndCall == kind = "calls" /\ \E t \in Threads : input.doing[t] # <<>> /\
    Build("calls", MaxOps,
          [input EXCEPT !.sessions[input.ptrs[input.doing[t][1].component][t]] = cleanup(@), !.doing[t] = <<>>,
                        !.pools = endRequest(@, t, ProcessPool, ThreadPool(t))])

\* Threads post to a cart, delete it, and delete one item.  "items" are those posted since the last delete that
\* was answered, "alone" whether none of these operations was done during a post.
Fruit(n) == Lst(<<Lst(<<entry, Lst(<<Word("title"), Str(<<"a">>)>>), Lst(<<Word("id"), Str(<<"b">>)>>),
                        Lst(<<Word("content"), Lst(<<Word("item"), Lst(<<Word("price"), Num(n)>>)>>)>>)>>)>>)
FreshId == Str(<<"a", WordOf(IF input.ids = 3 THEN 7 ELSE input.ids)>>)
Idle == \A t \in Threads : input.doing[t] = <<>>
BuildCart(next) == Build("cart", MaxSequence, next)
PostToCart == kind = "cart" /\ input.ids < 4 /\ \E t \in Threads, n \in Prices : input.doing[t] = <<>> /\
    BuildCart([input EXCEPT !.doing[t] = <<[item |-> Fruit(n), id |-> FreshId, cart |-> getcart(input.cache)]>>,
                            !.ids = @ + 1, !.alone = @ /\ Idle])
EndPost == kind = "cart" /\ \E t \in Threads : input.doing[t] # <<>> /\
    LET d == input.doing[t][1]
    IN BuildCart([input EXCEPT !.cache = cartPost(@, d.item, d.id, d.cart), !.doing[t] = <<>>,
                               !.items = <<newItem(d.item, d.id)>> \o @])
EmptyCart == kind = "cart" /\
    BuildCart([input EXCEPT !.cache = cartDel(@, <<>>).store, !.items = <<>>, !.alone = Idle])
TakeOut == kind = "cart" /\ input.items # <<>> /\
    BuildCart([input EXCEPT !.cache = cartDel(@, <<Cadr(AsList(Caddr(AsList(input.items[1]))))>>).store])

\* The server reads its directives and configures the modules; its child processes have copies of what it made.
BuildServer(next) == Build("config", MaxSequence, next)
Direct == kind = "config" /\ ~input.up /\ Len(input.given) < 3 /\ \E d \in Directives :
    BuildServer([input EXCEPT !.confs[d.mod][d.server] = Command(d.mod, @, d.setting, d.val), !.given = <<d>> \o @])
Configure == kind = "config" /\ ~input.up /\ BuildServer([input EXCEPT !.confs = AfterConfig(@), !.up = TRUE])
StartChild == kind = "config" /\ input.up /\ \E t \in Threads \ DOMAIN input.processes :
    BuildServer([input EXCEPT !.processes = (t :> AfterChildInit(input.confs, t)) @@ @])

Next ==
    \/ Direct \/ Configure \/ StartChild
    \/ PostToCart \/ EndPost \/ EmptyCart \/ TakeOut
    \/ BeginCall \/ EndCall
    \/ AddScalar \/ AddField \/ Nest \/ Twice \/ NameIt \/ NameFields \/ AddLeaf \/ AddSegment
    \/ PutItem \/ PostItem \/ PatchItem \/ DeleteItem \/ Memoize \/ LoadScript

Spec == Init /\ [][Next]_vars

------------------------------------------------------------------------------
\* The values that survive a document.  A record is a list of fields of different names; what a field has
\* after its name is a record, an array or a scalar.
DifferentNames(l) == \A i, j \in DOMAIN l : i # j => ~Eq(Car(AsList(l[i])), Car(AsList(l[j])))
RECURSIVE IsRecord(_), IsPlain(_)
IsArray(l) == \A i \in DOMAIN l : ~isSymbol(l[i]) /\ ~isAssoc(l[i]) /\ IsPlain(l[i])
IsField(f) == IsRecord(f) \/ (Len(f) = 1 /\ IF isList(f[1]) THEN IsArray(f[1][2]) ELSE IsPlain(f[1]))
IsRecord(l) == /\ l # <<>> /\ DifferentNames(l)
               /\ \A i \in DOMAIN l : isAssoc(l[i]) /\ IsField(Cdr(AsList(l[i])))
IsPlain(v) == IF isList(v) THEN IsRecord(v[2]) \/ IsArray(v[2]) ELSE ~isSymbol(v)

\* In XML an empty text is nothing, what reads as a number is one, and a list of one is that one.
IsXmlScalar(v) == Type(v) \in {"Number", "Bool"} \/ (isString(v) /\ v[2] # <<>> /\ readTextValue(v[2]) = v)
RECURSIVE IsXmlRecord(_)
IsXmlArray(l) == /\ Len(l) > 1
                 /\ \/ \A i \in DOMAIN l : IsXmlScalar(l[i])
                    \/ \A i \in DOMAIN l : isList(l[i]) /\ IsXmlRecord(l[i][2])
IsXmlField(f) ==
    IsXmlRecord(f) \/ (Len(f) = 1 /\ IF isList(f[1]) THEN IsXmlArray(f[1][2]) ELSE IsXmlScalar(f[1]))
IsXmlRecord(l) == /\ l # <<>> /\ DifferentNames(l)
                  /\ \A i \in DOMAIN l : isAssoc(l[i]) /\ IsXmlField(Cdr(AsList(l[i])))

\* What the Scheme reader takes for what it was: no text with escapes or of a parenthesis, no symbol that is a
\* special word.
RECURSIVE IsReadable(_)
IsReadable(v) ==
    CASE isList(v) -> \A i \in DOMAIN v[2] : IsReadable(v[2][i])
      [] isString(v) -> Range(v[2]) \intersect {"\"", "\\", "(", ")", "'"} = {}
      [] isSymbol(v) -> v[2] # <<>> /\ TokenValue(Token("word", v[2])) = v
      [] OTHER -> TRUE

IsValue == kind = "value"
Root(l) == Lst(<<Word("r")>> \o l)

\* A list of values is what it was after JSON, the format of most responses and of every JSON-RPC call.
JsonKeeps == IsValue /\ isList(input) /\ IsPlain(input) => Eq(jsonReadValue(jsonWriteValue(input)), input)

\* A record is what it was after XML.
XmlKeeps ==
    IsValue /\ isList(input) /\ IsXmlRecord(input[2])
        => ListEq(elementsToValues(xmlReadElements(xmlWriteElements(valuesToElements(<<Root(input[2])>>)))),
                  <<Root(input[2])>>)

\* A value is what it was after the Scheme text that one server asks another for.
SchemeKeeps == IsValue /\ IsReadable(input) => Eq(readValue(writeValue(input)), input)

\* An entry is what it was after ATOM and after RSS, alone and in a feed, with a text or one element in it.
EntryOf(id, c) ==
    Lst(<<entry, Lst(<<Word("title"), Str(<<"a">>)>>), Lst(<<Word("id"), Str(<<id>>)>>), Lst(<<Word("content")>> \o c)>>)
IsContent ==
    IsValue /\ \/ IsXmlScalar(input)
               \/ isList(input) /\ IsXmlRecord(input[2]) /\ Len(input[2]) = 1 /\ ~elementToValueIsList(Cadr(input[2][1][2]))
Contents == IF isList(input) THEN input[2] ELSE <<input>>
FeedOf(es) == <<Lst(<<feed, Lst(<<Word("title"), Str(<<"a">>)>>), Lst(<<Word("id"), Str(<<"b">>)>>),
                      Lst(<<entry, Lst(map(LAMBDA e : Lst(Cdr(e[2])), es))>>)>>)>>
Kept(read(_), write(_), l) == ListEq(elementsToValues(read(write(valuesToElements(l))).content), l)
EntriesKeep ==
    IsContent =>
        LET one == <<EntryOf("a", Contents)>>
            two == FeedOf(one \o <<EntryOf("b", <<Str(<<"b">>)>>)>>)
        IN /\ Kept(readATOMEntry, writeATOMEntry, one)
           /\ Kept(readRSSEntry, writeRSSEntry, one)
           /\ Kept(readATOMFeed, writeATOMFeed, two)
           /\ Kept(readRSSFeed, writeRSSFeed, two)

\* A component is called remotely the way it is called by a reference in its own server: it gets the same
\* arguments and the caller the same answer.  A component answers one value, or fails with a message and a code; the
\* properties take as parameters what makes a request of a call (Asking), what a server replies to a request when
\* the component answers that (Replying), and what the caller makes of a reply (Resulting).
Answer(v) == Lst(<<v>>)
Refuse(code) == FailableValue(Failure(<<"a">>, code))
Url == <<"/", "c", "/", "a">>
ReplyTo(r, answer) == serve(r, callOf(pathValues(r.uri), r), answer)
RequestFor(args) == proxyRequest(args, Url)
ResultOf(args, reply, blocks) == proxy(args, reply, blocks)
Blocks == 1 .. 2

IsArgument == IsValue /\ IsPlain(input)
\* The arguments, and the answer but for a record of several fields, if it comes in one block: evalExpr does not put
\* the blocks of an answer in order (http.hpp:496), and of several ones it makes no value.
IsAnswer == IsArgument /\ ~(isList(input) /\ IsRecord(input[2]) /\ Len(input[2]) > 1)
Expression == <<Word("a"), input, Str(<<"b">>)>>
CallAgrees(reply, Resulting(_, _, _)) ==
    /\ ListEq(reply.called, Expression)
    /\ IsAnswer => Eq(Resulting(Expression, reply, 1), input)
CallsAgree(Asking(_), Replying(_, _), Resulting(_, _, _)) ==
    IsArgument => CallAgrees(Replying(Asking(Expression), Answer(input)), Resulting)

\* A get by a reference is answered what a reference in the same server gets, in however many blocks.
GetsAgree(Asking(_), Replying(_, _), Resulting(_, _, _)) ==
    IsValue /\ IsReadable(input) =>
        LET args == <<Word("get"), Lst(<<Str(<<"b">>)>>)>>
            reply == Replying(Asking(args), Answer(input))
        IN \A blocks \in Blocks : Eq(Resulting(args, reply, blocks), input)

\* An entry that is posted, put or patched gets to the component as it is, with the path; the caller learns
\* whether it did, and after a post the id, the last segment of the path that the component answered.
UpdateOf(verb) == <<Word(verb), Lst(<<Str(<<"b">>)>>), Lst(<<EntryOf("a", Contents)>>)>>
Created == Lst(<<Str(<<"a">>)>>)
Answers(verb) == {Answer(Bln(FALSE)), Refuse(1), IF verb = "post" THEN Answer(Created) ELSE Answer(Bln(TRUE))}
UpdateAgrees(args, answer, reply, result) ==
    /\ ListEq(reply.called, args)
    /\ result = IF answer[2][1] \in {Created, Bln(TRUE)} THEN answer[2][1] ELSE Nil
UpdatesAgree(Asking(_), Replying(_, _), Resulting(_, _, _)) ==
    IsContent =>
        \A verb \in {"post", "put", "patch"} : \A answer \in Answers(verb) :
            LET reply == Replying(Asking(UpdateOf(verb)), answer)
            IN \A blocks \in Blocks : UpdateAgrees(UpdateOf(verb), answer, reply, Resulting(UpdateOf(verb), reply, blocks))

\* A get with the tag of what the component has is answered without it, and with the tag of something else with it.
TagRequest(tag) == [ClientRequest("GET", Url, <<>>, NoContent) EXCEPT !.match = tag]
TagTells(first, Replying(_, _)) ==
    /\ first.status = 200
    /\ Replying(TagRequest(ETag(first.body)), Answer(input)).status = 304
    /\ Replying(TagRequest(ETag(first.body)), Answer(Lst(<<input, input>>))).status = 200
TagsTell(Replying(_, _)) ==
    IsValue /\ ~isNull(input) => TagTells(Replying(TagRequest(<<>>), Answer(input)), Replying)

------------------------------------------------------------------------------
\* Arguments are data: whatever they look like, a component gets them as they are, and a list it walks has the
\* length it had.
E(w) == Word(w)
Call(l) == Lst(l)
Script == <<Call(<<E("define"), Call(<<E("echo"), E("a")>>), E("a")>>),
            Call(<<E("define"), Call(<<E("length"), E("a")>>),
                   Call(<<E("if"), Call(<<E("null?"), E("a")>>), Num(0),
                          Call(<<E("+"), Num(1), Call(<<E("length"), Call(<<E("cdr"), E("a")>>)>>)>>)>>)>>)>>
Apply(f, v) == applyImplementation(Script, <<>>, <<Word(f), v>>)
ArgumentsAreData ==
    /\ IsValue /\ ~isNull(input) => Eq(Apply("echo", input), Lst(<<input>>))
    /\ IsValue /\ isList(input) => Apply("length", input) = Lst(<<Num(Len(input[2]))>>)

------------------------------------------------------------------------------
\* A table finds a leaf if and only if there is one, whatever the order of the leaves.
LeavesOf(k) == {e \in Range(input) : Eq(Car(e[2]), k)}
TablesFind ==
    kind = "leaves" =>
        \A k \in {Car(e[2]) : e \in Leaves} :
            LET found == rbtreeAssoc(k, Table(input))
            IN IF LeavesOf(k) = {} THEN found = <<>> ELSE Lst(found) \in LeavesOf(k)

\* The leaves come in order, each of them once.
SortOrders ==
    kind = "leaves" => LET l == sort(input, rbtreeComp)
                       IN /\ Range(l) = Range(input)
                          /\ \A i \in 1 .. Len(l) - 1 : Less(l[i], l[i + 1])

\* After a path is deleted from a record it selects nothing, after it is replaced it selects what it was replaced
\* with, and what other paths select does not change.
RECURSIVE HasEmptyList(_)
HasEmptyList(v) == isList(v) /\ (v[2] = <<>> \/ \E i \in DOMAIN v[2] : HasEmptyList(v[2][i]))
Paths == UNION {[1 .. n -> {Word(w) : w \in Names}] : n \in 1 .. 2}
PathsAreKept ==
    IsValue /\ isList(input) /\ IsRecord(input[2]) =>
        \A k \in Paths :
            LET l == input[2]
                found == treeSelectAssoc(k, l)
                new == <<Last(k), Str(<<"c">>)>>
            IN /\ treeSelectAssoc(k, treeDelAssoc(k, l)) = <<>>
               /\ treeSelectAssoc(k, treeSubstAssoc(k, new, l)) = map(LAMBDA e : Lst(new), found)
               /\ found = <<>> => treeSubstAssoc(k, new, l) = l
               /\ found = <<>> /\ ~HasEmptyList(input) => treeDelAssoc(k, l) = l

------------------------------------------------------------------------------
\* Routes, for what a request with a host and a path comes to (OutcomeAt).  The services a server declares: their
\* paths and components.
Declared(compos) == {<<AsList(e[2][1]), e[2][2]>> : e \in Range(flatten(compos.svcs))}
NotNested(D) == \A d, e \in D : matchPath(d[1], e[1]) => d = e
Rpath == pathValues(input.uri)
Server == input.server
OutcomeOf(host, u) == handler([input EXCEPT !.host = host, !.uri = u], Server)
Reaches(o, c, params) ==
    o.what = "component" /\ Eq(o.value.lambda[2], c) /\ o.value.params = params

\* A request gets to the service whose path its path starts with, with the rest of the path, and nowhere if there
\* is none.
IsRequest == kind = "request"
SpecialWords == {<<w>> : w \in {"c", "r", "v", "components", "references", "vhosts"}}
FindsService(o, matching) ==
    IF matching # {} THEN \E d \in matching : Reaches(o, d[2], listTail(Rpath, Len(d[1])))
    ELSE AsText(Car(Rpath)) \in DOMAIN Server.vcompos \/ o.what = "status"
ServicesAreFound(OutcomeAt(_, _)) ==
    IsRequest /\ Rpath # <<>> /\ AsText(Car(Rpath)) \notin SpecialWords /\ NotNested(Declared(Server.compos)) =>
        FindsService(OutcomeAt(Server.host, input.uri), {d \in Declared(Server.compos) : matchPath(Rpath, d[1])})

\* The path of a reference gets to where the path of the component it is wired to does.
WiredTo(table) == IF table = <<>> THEN <<>> ELSE rbtreeAssoc(Rpath[3], table[2][2])
ReachesTarget(wired, OutcomeAt(_, _)) ==
    wired # <<>> /\ ~isAbsolute(AsText(Cadr(wired)))
        => OutcomeAt(Server.host, input.uri)
           = OutcomeAt(Server.host, <<"/", "c", "/">> \o BeforeSlash(AsText(Cadr(wired))) \o path(listTail(Rpath, 3)))
ReferencesReachTargets(OutcomeAt(_, _)) ==
    IsRequest /\ Len(Rpath) >= 3 /\ AsText(Car(Rpath)) = <<"r">> =>
        ReachesTarget(WiredTo(rbtreeAssoc(Rpath[2], Server.compos.refs)), OutcomeAt)

OfHost(v, o) == \E e \in Range(flatten(Server.vcompos[v].impls)) : e[2][2][2] = o.value.lambda
\* A component of a virtual host is found by the name of the host if and only if it is by the first segment of
\* the path, unless the path is one of the main host.
FoundAlike(v, named, placed) ==
    \/ placed = named
    \/ named.what # "component" /\ (placed.what = "component" => ~OfHost(v, placed))
VirtualHostsAgree(OutcomeAt(_, _)) ==
    IsRequest /\ Server.virtuals =>
        \A v \in DOMAIN Server.vcompos :
            FoundAlike(v, OutcomeAt(v \o <<".">> \o Server.domain, input.uri),
                          OutcomeAt(Server.host, <<"/">> \o v \o input.uri))

\* The URL that a client used: of the server, or of a front end that forwards to it.
Fronts == [https : {"on", "off"}, fport : {"80", "443", "8080"}] \union {[https |-> "", fport |-> ""]}
Typed(r) ==
    LET s == CASE r.https = "" -> r.scheme [] r.https = "on" -> "https" [] OTHER -> "http"
        p == IF r.https = "" THEN r.port ELSE r.fport
        Standard == (s = "http" /\ p = "80") \/ (s = "https" /\ p = "443")
    IN <<s, "://">> \o r.host \o (IF Standard THEN <<>> ELSE <<":", p>>) \o r.uri

\* A user who has to sign in gets back to the URL that was used, through the login page and either protocol,
\* whatever scheme and port the server itself has.
ReferrersComeBack ==
    IsRequest /\ steps <= 2 =>
        \A front \in Fronts, s \in {"http", "https"}, p \in {"80", "443", "8080"} :
            LET r == [scheme |-> s, port |-> p] @@ front @@ input
                args == loginPage(loginLocation(<<"/", "login">>, r))
                oauth2 == oauth2Provider(oauth2Authorization(args))
                oauth1 == oauth1Provider(oauth1Header(oauth1Callback(args, r)))
            IN oauth2Return(oauth2, r) = Typed(r) /\ oauth1Return(oauth1, r) = Typed(r)

\* A request that is redirected inside the server is answered after one redirect, by a request with its query and
\* method: the same one whether the host was named or was the first segment of the path.
Redirected(s) == s.request.depth > 0
RedirectedAlike(named, placed, q) ==
    /\ \A s \in {named, placed} :
          Redirected(s) => s.outcome.what # "redirect" /\ s.request.depth = 1 /\ s.request.args = q
                           /\ s.request.method = input.method
    /\ Redirected(named) /\ Redirected(placed) => named.request.uri = placed.request.uri
RedirectedBoth(served, q) == RedirectedAlike(served[1], served[2], q)
RedirectsEnd ==
    IsRequest /\ Server.virtuals =>
        \A v \in DOMAIN Server.vcompos, q \in {<<>>, <<"a", "=", "1">>} :
            LET at == <<[host |-> v \o <<".">> \o Server.domain, uri |-> input.uri],
                        [host |-> Server.host, uri |-> <<"/">> \o v \o input.uri]>>
            IN RedirectedBoth([i \in 1 .. 2 |-> serveRequest(at[i] @@ [env |-> << >>, args |-> q] @@ input, Server)], q)

------------------------------------------------------------------------------
\* A text is whole after it is sent and received in blocks of any size.
BodiesArrive ==
    IsValue =>
        \A max \in 1 .. 3 :
            LET t == writeValue(input)
                sent == readCallback(<<t>>, max)
                response == FoldLeft(writeCallback, <<>>, streamList(t, max))
            IN sent = t /\ FlattenSeq(readRequest(t, max)) = t /\ FlattenSeq(Reverse(response)) = t

\* A mail can be taken apart again: its lines, and after an empty one its content.
MailTo == [url |-> <<"b">>, user |-> <<"a">>, password |-> <<"b">>, from |-> <<"a", "@", "b">>, to |-> <<"b">>,
           subject |-> <<"a", " ", "b">>]
HasGap(read, i) == read[i] = "\n" /\ read[i + 1] = "\n"
FirstGap(read) == CHOOSE i \in 1 .. Len(read) : HasGap(read, i) /\ \A j \in 1 .. i - 1 : ~HasGap(read, j)
TakenApart(read, gap, sent) ==
    /\ SubSeq(read, gap + 2, Len(read)) = TextOf(sent.body)
    /\ tokenize("\n", SubSeq(read, 1, gap))
       = <<<<"From", ": ", "a", "@", "b">>, <<"To", ": ", "b">>, <<"Subject", ": ", "a", " ", "b">>,
           <<"Content-Type", ": ">> \o sent.ct>>
MailArrives(read, sent) == TakenApart(read, FirstGap(read), sent)
MailedValue ==
    IF isList(input) THEN input
    ELSE Lst(<<Str(<<"text/plain">>), Lst(<<Str(AsText(input)), Str(<<"\n">>), Str(AsText(input))>>)>>)
MailSent(m) == MailArrives(readCallback(<<smtppost(MailTo, m, newsession(0)).handle["READDATA"]>>, 3), m)
MailsArrive ==
    IsValue => MailSent(contentMessage(MailedValue))

\* A component that calls by HTTP answers what its reference does, and fails as that fails; the other side gets the
\* method and the content.
HttpRequestOf(function, m) ==
    CASE function = "get" -> httpget(Url) [] function = "post" -> httppost(Url, m) [] function = "put" -> httpput(Url, m)
      [] function = "patch" -> httppatch(Url, m) [] OTHER -> httpdelete(Url)
HttpResult(function, response, val) ==
    CASE function = "get" -> Gotten(response, val) [] function = "post" -> Posted(response, val)
      [] OTHER -> Accepted(response)
AskedFor(function, val, called) ==
    Car(called) = Word(function) /\ (function \in {"get", "delete"} \/ Eq(called[3], val))
Tells(function, does, answer) ==
    CASE does = "as asked" -> hasContent(answer)
      [] does = "refuses" -> function = "get" \/ answer.code = 404
      [] does = "denies" -> answer.code = 401
      [] OTHER -> answer.code = 500
HttpAnswers ==
    [does \in {"as asked", "refuses", "denies", "fails"} |->
        CASE does = "as asked" -> Answer(Bln(TRUE)) [] does = "refuses" -> Answer(Bln(FALSE))
          [] does = "denies" -> Refuse(401) [] OTHER -> Refuse(500)]
ComponentTells(function, val, does, reply) ==
    /\ AskedFor(function, val, reply.called)
    /\ Tells(function, does, OnGet(<<Word("get")>>, HttpResult(function, reply, responseValue(reply))))
HttpComponentsTell(val, m, Replying(_, _)) ==
    IsContent =>
        \A function \in {"get", "post", "put", "patch", "delete"}, does \in DOMAIN HttpAnswers :
            ComponentTells(function, val, does, Replying(HttpRequestOf(function, m), HttpAnswers[does]))

\* A Web service that relays to a component gets the document that a client component sent and the client gets what
\* it answered, a failure if that is no element.
Echoed(document, call) == IF Eq(call[1], Str(<<"r">>)) THEN call[2] ELSE Nil
WebServiceAgrees(document, relayed, answer) ==
    IF isNull(relayed) THEN ~hasContent(answer) ELSE hasContent(answer) /\ Eq(answer.content, document)
WebServiceEchoes(document, call) ==
    \A echoes \in BOOLEAN :
        LET relayed == IF echoes THEN Echoed(document, call) ELSE Nil
        IN ~(echoes /\ isNull(relayed)) /\ WebServiceAgrees(document, relayed, evalService(<<"a">>, document, relayed))
WebServicesAgree(document) ==
    IsValue /\ isList(input) /\ IsXmlRecord(input[2])
        => WebServiceEchoes(document, serviceCall(serviceRequest(document).content))

\* Every call is made with what was set for it and nothing else, whatever other threads and earlier calls do, and
\* leaves no handle.
CallsAreTheirOwn ==
    kind = "calls" =>
        \A t \in Threads :
            IF input.doing[t] # <<>>
            THEN LET e == input.doing[t][1]
                     cs == input.sessions[input.ptrs[e.component][t]]
                 IN cs.handle # NoHandle /\ Performed(cs) = Performed(Prepared(e, e.session))
            ELSE \A c \in Components :
                    t \in DOMAIN input.ptrs[c] => input.sessions[input.ptrs[c][t]].handle = NoHandle

\* Nothing that is used is gone with a pool: the sessions of the threads, the value that a thread read for its
\* request, and the pool that it allocates in; and nothing of a request is left after it.
NothingDangles ==
    kind = "calls" =>
        LET ps == input.pools
            sessions == UNION {Range(input.ptrs[c]) : c \in Components}
            values == {<<"value", t>> : t \in {u \in Threads : input.doing[u] # <<>>}}
        IN /\ DOMAIN ps.objects = sessions \union values
           /\ \A t \in Threads : ps.current[t] \in {NoPool} \union DOMAIN ps.parent
           /\ \A o \in sessions : \A t \in Threads : ~IsIn(ps, ps.objects[o], ProcessPool \o <<t>>)

------------------------------------------------------------------------------
\* A store has the items that it was told to keep, under all the keys, and no others, when operations fail because
\* of their keys, of what is there, of a patch script or of the selector of the partitions; the servers of memcached
\* and the disk do what they are told.  What is posted is under the id that was answered, unless it went through the
\* partitioner: there a get of that id finds nothing (partitioner.cpp:170).  What is not there reads as a failure or
\* as nothing.
GetOf(k) == IF input.config = "partitions" THEN partitionerGet(input.stores, k, Select(k))
            ELSE itemGet(input.stores[1], k)
Reads(got, k) ==
    IF Has(k) THEN hasContent(got) /\ Eq(got.content, input.items[k][1])
    ELSE hasContent(got) => got.content \in {Nil, Lst(<<>>)}
PartitionerIds == IF Partitioned THEN {postedId(k, u) : k \in StoreKeys, u \in Uuids} ELSE {}
StoresKeep == IsStore => \A k \in (StoreKeys \union DOMAIN input.items) \ PartitionerIds : Reads(GetOf(k), k)

\* A cart that is only changed by one operation at a time has all that was posted, once each, whatever one asks it
\* for; with overlapping posts it has what the last of them posted.
HasPosted(cart) ==
    /\ input.items # <<>> => \E i \in DOMAIN cart : cart[i] = input.items[1]
    /\ Cardinality(Range(cart)) = Len(cart)
CartKeeps ==
    kind = "cart" =>
        /\ HasPosted(getcart(input.cache))
        /\ input.alone =>
              /\ listTail(cartGet(input.cache, <<>>)[2][1][2], 3) = input.items
              /\ total(input.cache) = Num(FoldLeft(LAMBDA n, e : n + price(e[2]), 0, input.items))
              /\ \A e \in Range(input.items) : cartGet(input.cache, <<e[2][3][2][2]>>) = Lst(<<e>>)

\* A memo cache answers what the component behind it does.
MemosAgree ==
    kind = "store" /\ input.config = "memo" =>
        \A k \in StoreKeys : Eq(memoize(input.stores[1], Keys(k), Relay(Keys(k))).answer.content, Relay(Keys(k)))

\* The items of several partitions come by their ranks, the highest first, as many as were asked for.
Ranked(e) == Lst(<<Lst(<<entry, Lst(<<Word("id"), Car(e[2])>>), Lst(<<Word("rank"), Cadr(e[2])>>)>>)>>)
HigherRank(v, w) ==
    LET Field(u, n) == u[2][1][2][n][2][2]
    IN Field(v, 3)[2] > Field(w, 3)[2] \/ (Field(v, 3) = Field(w, 3) /\ Less(Field(w, 2), Field(v, 2)))
Listing(n) == Lst(<<Lst(<<Word("rank"), Num(1)>>), Lst(<<Word("limit"), Num(n)>>), Word("all")>>)
RanksTop(top, l) ==
    /\ Len(top) = (IF Cardinality(Range(l)) < 2 THEN 1 ELSE 2)
    /\ Range(top) \subseteq Range(l)
    /\ \A i, j \in DOMAIN top : i < j => HigherRank(top[i], top[j])
    /\ \A v \in Range(l) \ Range(top) : HigherRank(Last(top), v)
Holding(part) == memcachePut(MemCached, KeyText(Listing(2)), Lst(part)).store
Halves(l) == [i \in 1 .. 2 |-> Holding(IF i = 1 THEN listHead(l, Len(l) \div 2) ELSE listTail(l, Len(l) \div 2))]
PartitionsRank ==
    kind = "leaves" /\ input # <<>> =>
        RanksTop(partitionerGet(Halves(map(Ranked, input)), Listing(2), Select(Listing(2))).content[2], map(Ranked, input))

------------------------------------------------------------------------------
\* A component is called alike in every language: the one that answers its argument answers the same in Scheme,
\* in Python and in Java, and one that has no start or stop function is started and stopped all the same.
PyRun(f, args) == IF f = "echo" THEN args[2][1] ELSE NULL
JavaRun(f, args) == IF f = "echo" THEN args[1] ELSE Null
InLanguage(language, params) ==
    LET module == <<"echo">> :> "echo"
        methods == <<[name |-> <<"echo">>, body |-> "echo"]>>
    IN IF language = "python"
       THEN evalImplementation(language, module, <<>>, PyRun(pyFunction(params, module), pyArguments(params)), params)
       ELSE evalImplementation(language, methods, <<>>, JavaRun(javaMethod(params, methods), javaArguments(params)), params)
LanguagesAgree ==
    IsValue /\ ~isNull(input) =>
        \A language \in {"python", "java"} :
            /\ Eq(InLanguage(language, <<Word("echo"), input>>), Apply("echo", input))
            /\ InLanguage(language, <<Word("start")>>) = Lst(<<NullFunction>>)
            /\ isNull(Car(AsList(InLanguage(language, <<Word("b"), input>>))))

\* A component calls its references alike: what they get is the name of the function and the arguments.
ReferencesCallAlike ==
    IsValue =>
        LET python(f, args) == pyObjectToValue(valueToPyObject(Lst(pyLambda_getattr(f, valuesToPyTuple(args)))))
            java(f, args) ==
                LET expr == nativeInvoke(f, valuesToJarray(args))
                IN jobjectToValue(valueToJobject(javaLambda(expr, Lst(expr))))
            call == Lst(<<Word("get"), input>>)
        IN /\ Eq(python(<<"get">>, <<input>>), call) /\ Eq(java(<<"get">>, <<input>>), call)
           /\ Eq(python(<<"eval">>, AsList(call)), call) /\ Eq(java(<<"eval">>, <<call>>), call)

\* A kernel gets and answers every number, bool and text that fits its result with its end, on every device, whatever
\* is behind that in memory; it waits for
\* the texts that are written to a GPU, and whatever call fails no event is left.
KernelFor(v) == CASE IsText(v) -> <<"char", "7", "_", "echo">>
                  [] Type(v) = "Number" -> <<"float", "_", "echo">>
                  [] OTHER -> <<"int", "_", "echo">>
Kernels(done, gpus, fail) ==
    /\ fail = "none" => done.answer = Content(input)
    /\ done.waits = (IF IsText(input) /\ gpus = 1 THEN 1 ELSE 0)
    /\ done.left = {}
RunKernel(dev, call, behind, fail) == evalKernel(dev, call, Car(kernelMemory(dev, call)), behind, fail)
KernelsKeep ==
    IsValue /\ ~isList(input) /\ ~isNull(input) =>
        \A gpus, cpus \in 0 .. 1, fail \in {"none"} \union Range(KernelCalls), behind \in {<<>>, <<"7">>} :
            gpus + cpus > 0 =>
                Kernels(RunKernel(DevicesOf("DEFAULT", gpus, cpus), <<Sym(KernelFor(input)), input>>, behind, fail), gpus, fail)

\* A component of a host has its own script if the path of that, with dots for the slashes, is neither the name of a
\* module of the interpreter nor the path so written of another script of the host, and no other host has components.
\* Otherwise it has whatever module was there first (eval.hpp:688).
OneHost == \A i, j \in DOMAIN input.parts : input.parts[i].own[1] = input.parts[j].own[1]
Dotted(spath) == [i \in 1 .. Len(spath) - 1 |-> IF spath[i] = "/" THEN "." ELSE spath[i]]
NameIsOwn(part) ==
    /\ Dotted(part.own[2]) \notin DOMAIN sysModules
    /\ \A other \in Range(input.parts) : Dotted(other.own[2]) = Dotted(part.own[2]) => other.own = part.own
ModulesAreTheirs ==
    kind = "scripts" /\ OneHost => \A part \in Range(input.parts) : NameIsOwn(part) => part.got = part.own

\* Wherever a directive is, a virtual host has the settings that are its own and those of the main server that it has
\* no own ones of; and all servers of a process use the connections, the sessions and the components of the process.
GivenTo(m, s, n) == map(LAMBDA d : d.val, SelectSeq(input.given, LAMBDA d : d.mod = m /\ d.server = s /\ d.setting = n))
OwnOrMain(m, s, n) == IF GivenTo(m, s, n) # <<>> THEN GivenTo(m, s, n) ELSE GivenTo(m, "main", n)
Last1(l) == IF l = <<>> THEN l ELSE <<l[1]>>
ServersAgree ==
    kind = "config" =>
        \A p \in DOMAIN input.processes, s \in {"main", "virtual"} :
            LET Conf(m) == input.processes[p][m][s]
                Inherits(m, n) == Conf(m)[n] = Last1(OwnOrMain(m, s, n))
                OfMain(m, n) == Last1(GivenTo(m, "main", n))
            IN /\ \A m \in {"oauth1", "oauth2"} :
                     LET addrs == GivenTo(m, "main", "mcaddrs")
                     IN /\ Conf(m).appkeys = OwnOrMain(m, s, "appkeys")
                        /\ Conf(m).mc = Made(p, IF addrs = <<>> THEN <<<<"localhost">>>> ELSE addrs)
                        /\ Conf(m).cs = Made(p, <<OfMain(m, "ca"), OfMain(m, "cert"), OfMain(m, "key")>>)
               /\ \A m \in {"tunnel", "eval"}, n \in {"ca", "cert", "key"} : Inherits(m, n)
               /\ Conf("tunnel").host = map(LAMBDA u : u[1], Last1(GivenTo("tunnel", s, "pass")))
               /\ \A n \in {"contribPath", "composName", "domain", "timeout"} : Conf("eval")[n] = OfMain("eval", n)
               /\ Conf("eval").impls = Made(p, OfMain("eval", "composName"))
               /\ LET contributor == OfMain("eval", "contributorName")
                  IN Conf("eval").contributor = IF contributor = <<>> THEN <<>> ELSE Made(p, contributor)

------------------------------------------------------------------------------
(* The properties together, by what they are about. *)

\* A value survives every form it is given to be sent, stored or evaluated: JSON, XML, ATOM, RSS, Scheme text, blocks
\* of any size, a mail.
ValuesKeep ==
    JsonKeeps /\ XmlKeeps /\ SchemeKeeps /\ EntriesKeep /\ ArgumentsAreData /\ BodiesArrive /\ MailsArrive

\* A call by HTTP does and answers what the same call by a reference in the same server does: a JSON-RPC call that is
\* answered in one block and not with a record of several fields, a get, an update, a conditional get, and a call
\* through an HTTP or a Web service component.
CallsAgreeBy(Asking(_), Replying(_, _), Resulting(_, _, _)) ==
    /\ CallsAgree(Asking, Replying, Resulting)
    /\ GetsAgree(Asking, Replying, Resulting)
    /\ UpdatesAgree(Asking, Replying, Resulting)
    /\ TagsTell(Replying)
    /\ LET val == Lst(<<EntryOf("a", Contents)>>) IN HttpComponentsTell(val, contentMessage(val), Replying)
    /\ WebServicesAgree(Lst(<<Root(input[2])>>))
RemoteCallsAgree == CallsAgreeBy(RequestFor, ReplyTo, ResultOf)

\* A request, a reference and a redirect get where they are meant to, by any of the URLs that lead there.
FoundBy(OutcomeAt(_, _)) == ServicesAreFound(OutcomeAt) /\ ReferencesReachTargets(OutcomeAt) /\ VirtualHostsAgree(OutcomeAt)
RequestsFind == FoundBy(OutcomeOf) /\ ReferrersComeBack /\ RedirectsEnd

\* A table, a sorted list and a record have what was put in them, once each, and nothing else.
TablesKeep == TablesFind /\ SortOrders /\ PathsAreKept

\* The stores, a cache of results, a set of partitions and a shopping cart keep over a sequence of operations, some
\* of which are refused, what they were given, while the servers of memcached and the disk do not fail them.
ItemsKeep == StoresKeep /\ MemosAgree /\ PartitionsRank /\ CartKeeps

\* A component is called alike in Scheme, Python and Java, and calls its references alike in Python and Java; kernels
\* get and answer what they are called with; and the components of a host whose script paths make different names of
\* modules that the interpreter does not have already have each their own.
LanguagesCallAlike == LanguagesAgree /\ ReferencesCallAlike /\ KernelsKeep /\ ModulesAreTheirs

\* Threads, requests, processes and virtual hosts do not disturb each other's sessions, memory and settings.
ProcessesKeep == CallsAreTheirOwn /\ NothingDangles /\ ServersAgree
=============================================================================
