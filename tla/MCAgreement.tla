----------------------------- MODULE MCAgreement -----------------------------
(***************************************************************************)
(* A small instance of Agreement: scalars that look alike, two names of    *)
(* fields, leaves of which two have the same key, a server whose services  *)
(* have paths of one, two and three segments, references to a component,   *)
(* to a service and to another host, and a virtual host.                   *)
(***************************************************************************)
EXTENDS Agreement

MCAlphabet ==
    <<" ", "\"", "(", ")", "&", "=", "@", "/", "0", "1", "2", "7", "a", "b", "c", "entry", "false", "id", "nil", "r", "rank", "true">>
MCScalars == {Nil, Num(1), Bln(TRUE), Str(<<"a">>), Str(<<"1">>), Str(<<"(">>), Word("b")}
MCNames == {"a", "b"}
MCLeaves == {Lst(<<Word(w), Num(n)>>) : w \in {"a", "b", "c"}, n \in {1, 2}} \union {Lst(<<Word("r"), Num(1)>>)}
MCSegments == {"a", "b", "c", "r", "1", "2"}

Attr(w, t) == Attribute(Word(w), Str(t))
Service(n, uris) ==
    Element(Word("service"), <<Attr("name", n)>> \o map(LAMBDA u : Element(Sym(<<"binding.">>), <<Attr("uri", u)>>), uris))
Reference(n, t) == Element(Word("reference"), <<Attr("name", n), Attr("target", t)>>)
Component(n, parts) == Element(Word("component"), <<Attr("name", n), Element(Sym(<<"implementation.">>), <<>>)>> \o parts)
CompositeOf(parts) == Lst(<<Element(Word("composite"), parts)>>)
Main == CompositeOf(<<
    Component(<<"a">>, <<Service(<<"b">>, <<>>), Reference(<<"a">>, <<"b">>), Reference(<<"b">>, <<"://", "c">>)>>),
    Component(<<"b">>, <<Service(<<"a">>, <<<<"b">>, <<"/", "1", "/", "2">>>>), Reference(<<"a">>, <<"a", "/", "b">>)>>)>>)
Virtual == CompositeOf(<<Component(<<"c">>, <<Service(<<"a">>, <<<<"1">>>>), Reference(<<"a">>, <<"c">>)>>)>>)
ServerWith(virtuals) ==
    [host |-> <<"c", ".", "d">>, domain |-> <<"d">>, virtuals |-> virtuals, compos |-> Composite("main", Main),
     vcompos |-> <<"2">> :> Composite("virt", Virtual), timeout |-> 0, machine |-> <<"h">>]
MCServers == {ServerWith(TRUE), ServerWith(FALSE)}

MCStoreKeys == {Lst(<<Str(<<"a">>)>>), Lst(<<Str(<<"a">>), Str(<<"b">>)>>), Lst(<<Str(<<"b">>)>>), Lst(<<Word("all")>>)}
MCScriptPaths == {<<"a", ".py">>, <<"b", ".py">>, <<"c", ".py">>, <<"a", "/", "b", ".py">>, <<"a", ".", "b", ".py">>}
MCUuids == {Str(<<"c">>)}
MCText == Lst(<<Str(<<"text/plain">>), Lst(<<Str(<<"a">>)>>)>>)
MCUser == <<"http", "://", "a", ":", "b", "@", "c", "/", "a", " ", "b">>
MCHttp == CURLSession(<<"ca">>, <<"cert">>, <<"key">>, <<>>, 0)
MCExchanges ==
    {[component |-> "proxy", session |-> MCHttp, verb |-> "GET", url |-> MCUser],
     [component |-> "proxy", session |-> MCHttp, verb |-> "PUT", url |-> <<"http", "://", "c">>, val |-> MCText],
     [component |-> "patch", session |-> newsession(5), verb |-> "PATCH",
      url |-> <<"http", "://", "c">>, val |-> MCText],
     [component |-> "mail", session |-> newsession(0), verb |-> "MAIL", mail |-> MailTo,
      val |-> MCText]}
Directive(m, s, n, v) == [mod |-> m, server |-> s, setting |-> n, val |-> <<v>>]
MCDirectives ==
    {Directive("oauth1", s, "appkeys", v) : s \in {"main", "virtual"}, v \in {"k1", "k2"}}
        \union {Directive("oauth1", "main", "mcaddrs", "m1"), Directive("oauth2", "virtual", "mcaddrs", "m2"),
                Directive("oauth2", "main", "ca", "c1"), Directive("tunnel", "main", "ca", "c2"),
                Directive("tunnel", "virtual", "ca", "c3"), [Directive("tunnel", "virtual", "pass", "h") EXCEPT !.val = <<"h", "/p">>],
                Directive("eval", "main", "composName", "x1"), Directive("eval", "virtual", "composName", "x2"),
                Directive("eval", "virtual", "ca", "c4"), Directive("eval", "main", "contributorName", "y")}
MCConfigs == {"memcache", "scheme", "xml", "json", "partitions", "memo"}
=============================================================================
