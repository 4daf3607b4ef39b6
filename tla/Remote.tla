------------------------------- MODULE Remote -------------------------------
(***************************************************************************)
(* A call of a component by HTTP: the proxy that makes it,                 *)
(* modules/http/http.hpp, and the methods of the server that answer it,    *)
(* modules/server/mod-eval.hpp, with what they use of                      *)
(* modules/http/httpd.hpp.                                                 *)
(*                                                                         *)
(* A component is called with its arguments, the function first, and       *)
(* answers a list: a value, or nil, a reason and maybe a code.  Whoever    *)
(* uses this module answers the calls, and responds to the requests.       *)
(* A body has a kind and a document.  It arrives in pieces, which are      *)
(* collected in reverse; reversed pieces of one document are no document.  *)
(***************************************************************************)
EXTENDS Documents, Routing, Scheme

Body(kind, doc) == [kind |-> kind, doc |-> doc]
NoBody == Body("none", <<>>)
Message(ct, body) == [ct |-> ct, body |-> body]

\* What a value is sent as, if the other side does not ask for a format.
JsonType == <<"application/json">>
AtomType == <<"application/atom+xml">>
RpcType == <<"application/json-rpc">>
RootName(e) ==
    LET el == AsList(Car(e))
    IN IF Len(el) > 2 /\ Eq(el[1], element) /\ isSymbol(el[2]) /\ ~elementHasValue(Car(e)) THEN el[2] ELSE Nil
messageOf(c, l, e, root) ==
    IF l # <<>> /\ isString(l[1]) /\ Len(l) > 1 /\ isList(l[2])
    THEN Message(l[1][2], Body("text", map(AsText, l[2][2])))
    ELSE IF l # <<>> /\ ~(isSymbol(l[1]) /\ Len(l) > 1) /\ root \in {feed, entry}
    THEN Message(AtomType, Body("xml", writeATOM(e, root)))
    ELSE Message(JsonType, Body("json", jsonWriteValue(c)))
MessageOfElements(c, e) == messageOf(c, AsList(c), e, RootName(e))
contentMessage(c) == MessageOfElements(c, valuesToElements(AsList(c)))
formatMessage(c, format) ==
    CASE format = <<"scheme">> -> Message(<<"text/x-scheme">>, Body("scheme", writeValue(c)))
      [] format = <<"json">> -> Message(JsonType, Body("json", jsonWriteValue(c)))
      [] format = <<"xml">> -> Message(<<"text/xml">>, Body("xml", xmlWriteElements(valuesToElements(AsList(c)))))
      [] OTHER -> contentMessage(c)

------------------------------------------------------------------------------
\* The server.  A reply also says what the component was called with.
Reply(status, ct, body, location, called) ==
    [status |-> status, ct |-> ct, body |-> body, location |-> location, called |-> called]
Status(status, called) == Reply(status, <<>>, NoBody, <<>>, called)
failableResult(l) ==
    IF Len(l) = 1 THEN Content(l[1]) ELSE Failure(AsText(l[2]), IF Len(l) > 2 THEN AsNumber(l[3]) ELSE -1)

\* The tag of a content is its digest: the same for the same content only.
ETag(body) == <<"md5", body>>
\* Mutant: whatever tag the client has is taken for the tag of the content.
AnyTagMatches(m, r, called) ==
    Reply(IF r.match # <<>> THEN 304 ELSE 200, m.ct, IF r.match # <<>> THEN NoBody ELSE m.body, <<>>, called)
writeResult(m, r, called) ==
    Reply(IF r.match = ETag(m.body) THEN 304 ELSE 200, m.ct, IF r.match = ETag(m.body) THEN NoBody ELSE m.body, <<>>, called)
reportStatus(failure, called) == Status(IF failure.code = -1 THEN SERVER_ERROR ELSE failure.code, called)

\* Mutant: the Scheme format is not offered.
AcceptDocuments(r) == IF r.accept = <<"text/xml">> THEN <<"xml">> ELSE <<"json">>
acceptMediaType(r) ==
    CASE r.accept = <<"text/x-scheme">> -> <<"scheme">>
      [] r.accept = <<"application/json">> -> <<"json">>
      [] r.accept = <<"text/xml">> -> <<"xml">>
      [] OTHER -> <<>>

\* A reply to an answer, unless that is a failure.
ReplyUnless(val, called, reply) == IF hasContent(val) THEN reply ELSE reportStatus(val, called)
Answered(answer, called, reply) == ReplyUnless(failableResult(AsList(answer)), called, reply)
\* Nil and false are a status of their own, and a number is one.
Reported(rval, called, reply) ==
    IF isNull(rval) \/ Eq(rval, Bln(FALSE)) THEN Status(NOT_FOUND, called)
    ELSE IF Type(rval) = "Number" THEN Status(AsNumber(rval), called)
    ELSE reply

\* What a get calls the component with, and what it replies to the answer.
IsRpc(args) == assoc(Word("id"), args) # <<>> /\ assoc(Word("method"), args) # <<>>
argsOf(r) == unescapeArgs(queryArgs(r))
getCall(rpath, args) ==
    IF IsRpc(args) THEN <<Sym(funcName(AsText(Cadr(assoc(Word("method"), args)))))>> \o queryParams(args)
    ELSE <<Word("get"), Lst(listTail(rpath, 2) \o args)>>
FormatOf(format, r) == IF format # <<>> THEN AsText(format[2]) ELSE acceptMediaType(r)
gotten(args, r, called, v) ==
    IF IsRpc(args)
    THEN writeResult(Message(RpcType, Body("json", jsonResult(Cadr(assoc(Word("id"), args)), v))), r, called)
    ELSE IF isNull(v) THEN Status(NOT_FOUND, called)
    ELSE writeResult(formatMessage(v, FormatOf(assoc(Word("format"), args), r)), r, called)
get(r, called, answer) == Answered(answer, called, gotten(argsOf(r), r, called, AsList(answer)[1]))

\* The entry or the feed in the body, as values.
ValueOf(m) == Lst(elementsToValues(IF hasContent(m) THEN m.content ELSE <<>>))
readATOM(nodes) ==
    IF isATOMEntry(nodes) THEN readATOMEntry(nodes) ELSE readATOMFeed(nodes)
NodesOf(body) == IF body.kind = "xml" THEN body.doc ELSE <<>>
AtomValue(body) == ValueOf(readATOM(NodesOf(body)))

RpcTypes == {RpcType, <<"text/plain">>, <<"application/x-www-form-urlencoded">>}
rpcParam(r, w) == Cadr(assoc(Word(w), AsList(jsonReadValue(r.body.doc))))
UpdateFunctions == [POST |-> "post", PUT |-> "put", PATCH |-> "patch"]
updateCall(rpath, r) == <<Word(UpdateFunctions[r.method]), Lst(listTail(rpath, 2)), AtomValue(r.body)>>
delCall(rpath) == <<Word("delete"), Lst(listTail(rpath, 2))>>
\* A post of something else than an entry.
postCall(r) ==
    IF r.ct \in RpcTypes THEN <<Sym(funcName(AsText(rpcParam(r, "method"))))>> \o AsList(rpcParam(r, "params"))
    ELSE <<Word("handle"), Lam(<<"request">>)>>
posted(r, called, v) ==
    CASE r.ct \in RpcTypes -> writeResult(Message(RpcType, Body("json", jsonResult(rpcParam(r, "id"), v))), r, called)
      [] r.ct = AtomType -> Reported(v, called, Reply(201, <<>>, NoBody, r.uri \o path(AsList(v)), called))
      [] OTHER -> Status(AsNumber(v), called)
post(r, called, answer) == Answered(answer, called, posted(r, called, AsList(answer)[1]))

\* put, patch and delete.
update(called, answer) == Answered(answer, called, Reported(AsList(answer)[1], called, Status(200, called)))

callOf(rpath, r) ==
    CASE r.method = "GET" -> getCall(rpath, argsOf(r))
      [] r.method = "POST" /\ r.ct # AtomType -> postCall(r)
      [] r.method \in DOMAIN UpdateFunctions -> updateCall(rpath, r)
      [] r.method = "DELETE" -> delCall(rpath)
      [] OTHER -> <<>>
\* The reply to a request, for the call it makes and the answer to that.
serve(r, called, answer) ==
    CASE r.method = "GET" -> get(r, called, answer)
      [] r.method = "POST" -> post(r, called, answer)
      [] r.method \in {"PUT", "PATCH", "DELETE"} -> update(called, answer)
      [] OTHER -> Status(501, <<>>)

------------------------------------------------------------------------------
\* The client.  The content of a response is read in the order it was sent, but for that of a JSON-RPC
\* response, whose pieces stay in reverse.
InOrder(body, pieces, reversed) == IF pieces > 1 /\ reversed THEN Body("garbage", <<>>) ELSE body
jsonRead(body) == IF body.kind = "json" THEN Content(jsonReadValue(body.doc)) ELSE Failure(<<"json_loads failed">>, -1)

valueIn(res, nodes) ==
    IF res.ct = <<"text/x-scheme">> THEN readValue(res.body.doc)
    ELSE IF res.ct = AtomType \/ isATOMEntry(nodes) \/ isATOMFeed(nodes) THEN ValueOf(readATOM(nodes))
    ELSE IF isRSSFeed(nodes) THEN ValueOf(readRSSFeed(nodes))
    ELSE IF res.body.kind = "json" THEN jsonReadValue(res.body.doc)
    ELSE IF res.body.kind = "xml" THEN Lst(elementsToValues(xmlReadElements(nodes)))
    ELSE Lst(<<Str(res.ct), Lst(map(Str, res.body.doc))>>)
responseValue(res) == valueIn(res, NodesOf(res.body))

\* The arguments of a query are not escaped: what means something in a URL keeps its meaning.
queryString(args) ==
    LET Pair(a) == AsText(a[2][1]) \o <<"=">> \o AsText(a[2][2])
    IN FlattenSeq([i \in DOMAIN args |-> IF Len(AsList(args[i])) < 2 THEN <<>>
                                         ELSE Pair(args[i]) \o (IF i < Len(args) THEN <<"&">> ELSE <<>>)])

ClientRequest(verb, u, q, m) ==
    [method |-> verb, uri |-> u, args |-> q, ct |-> m.ct, body |-> m.body, accept |-> <<"text/x-scheme">>, match |-> <<>>]
\* What apply returns for a response: that, or a failure with the status.
apply(response) ==
    IF response.status \in {200, 201} THEN Content(response) ELSE Failure(<<"HTTP code not 200">>, response.status)

\* Mutant: the whole path is the id.
WholeLocation(location) == Lst(pathValues(location))
entryId(location) ==
    Lst(<<Str(FoldLeft(LAMBDA last, part : part, <<>>, pathTokens(location)))>>)

\* The requests that the calls make, with the message of a value.
NoContent == Message(<<>>, NoBody)
evalRemote(expr, u) ==
    ClientRequest("POST", u, <<>>, Message(RpcType, Body("json", jsonRequest(Num(1), expr[1], Lst(Tail(expr))))))
httpGet(u, q) == ClientRequest("GET", u, q, NoContent)
httpPost(u, m) == ClientRequest("POST", u, <<>>, m)
httpPut(u, m) == ClientRequest("PUT", u, <<>>, m)
httpPatch(u, m) == ClientRequest("PATCH", u, <<>>, m)
httpDelete(u) == ClientRequest("DELETE", u, <<>>, NoContent)

\* What they return for the responses, with the value of a response.
Evaluated(response, pieces) ==
    LET res == apply(response)
        read == jsonRead(InOrder(response.body, pieces, TRUE))
    IN IF ~hasContent(res) THEN res
       ELSE IF ~hasContent(read) THEN read ELSE Content(jsonResultValue(response.body.doc))
Gotten(response, val) == IF hasContent(apply(response)) THEN Content(val) ELSE apply(response)
Posted(response, val) ==
    IF ~hasContent(apply(response)) THEN apply(response)
    ELSE Content(IF response.location # <<>> THEN entryId(response.location) ELSE val)
Accepted(response) == IF hasContent(apply(response)) THEN Content(Bln(TRUE)) ELSE apply(response)

\* A failure is nil to the caller.
ContentOrNil(answer) == IF hasContent(answer) THEN answer.content ELSE Nil
Update(fun, u, m) ==
    CASE fun = <<"post">> -> httpPost(u, m) [] fun = <<"put">> -> httpPut(u, m) [] fun = <<"patch">> -> httpPatch(u, m)
proxyCall(fun, p, args, u) ==
    CASE fun = <<"get">> -> httpGet(u \o path(SelectSeq(p, IsText)), queryString(SelectSeq(p, isList)))
      [] fun \in {<<"post">>, <<"put">>, <<"patch">>} -> Update(fun, u \o path(p), contentMessage(args[3]))
      [] fun = <<"delete">> -> httpDelete(u \o path(p))
      [] OTHER -> evalRemote(args, u)
proxyRequest(args, u) == proxyCall(AsText(args[1]), AsList(args[2]), args, u)
proxyResult(fun, response, val, pieces) ==
    CASE fun = <<"get">> -> Gotten(response, val)
      [] fun = <<"post">> -> Posted(response, val)
      [] fun \in {<<"put">>, <<"patch">>, <<"delete">>} -> Accepted(response)
      [] OTHER -> Evaluated(response, pieces)
proxy(args, response, pieces) ==
    ContentOrNil(proxyResult(AsText(args[1]), response, responseValue(response), pieces))
==============================================================================
