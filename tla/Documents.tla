------------------------------ MODULE Documents ------------------------------
(***************************************************************************)
(* The documents components exchange: modules/json/json.hpp,               *)
(* modules/xml/xml.hpp, modules/atom/atom.hpp, modules/rss/rss.hpp.        *)
(*                                                                         *)
(* The text of a document is abstracted to what its grammar makes of it.   *)
(* JSON is a pair of a kind and a content, an object is a sequence of name *)
(* and value pairs with distinct names (jansson keeps their order).  XML   *)
(* is a sequence of nodes; an attribute is a node before the others, and   *)
(* elements that have attributes later cannot be written.                  *)
(***************************************************************************)
EXTENDS Elements

isJSArray(l) == l = <<>> \/ ~(isSymbol(Car(l)) \/ isAssoc(Car(l)))

\* json_object_set: a name that is there keeps its place.
SetProperty(o, name, j) ==
    IF \E i \in DOMAIN o : o[i][1] = name
    THEN [i \in DOMAIN o |-> IF o[i][1] = name THEN <<name, j>> ELSE o[i]]
    ELSE Append(o, <<name, j>>)

RECURSIVE valueToJSVal(_), valuesToJSProperties(_, _)
valuesToJSElements(l) == <<"array", map(valueToJSVal, l)>>
valueToJSVal(v) ==
    CASE IsText(v) -> <<"string", v[2]>>
      [] Type(v) = "Bool" -> <<"boolean", v[2]>>
      [] Type(v) = "Number" -> <<"number", v[2]>>
      [] isList(v) -> IF isJSArray(v[2]) THEN valuesToJSElements(v[2])
                      ELSE <<"object", valuesToJSProperties(<<>>, v[2])>>
      [] OTHER -> <<"null">>
\* What is neither an attribute nor an element is left out.
valuesToJSProperties(o, l) ==
    IF l = <<>> THEN o
    ELSE LET v == Car(l)
         IN valuesToJSProperties(
                CASE isAttribute(v) ->
                        SetProperty(o, <<"@">> \o AsText(attributeName(v)), valueToJSVal(attributeValue(v)))
                  [] isElement(v) /\ elementHasValue(v) ->
                        SetProperty(o, AsText(elementName(v)), valueToJSVal(elementValue(v)))
                  [] isElement(v) /\ ~elementHasValue(v) ->
                        SetProperty(o, AsText(elementName(v)),
                                    <<"object", valuesToJSProperties(<<>>, elementChildren(v))>>)
                  [] OTHER -> o,
                Cdr(l))

\* Mutant: a record is one value of the element.
RecordAsValue(name, val) ==
    IF ~isNull(val) /\ Head(name) = "@" THEN Attribute(Sym(Tail(name)), val) ELSE Element(Sym(name), <<val>>)
RECURSIVE jsValToValue(_)
jsPropertyToValue(name, val) ==
    CASE isNull(val) -> Element(Sym(name), <<val>>)
      [] ~isNull(val) /\ Head(name) = "@" -> Attribute(Sym(Tail(name)), val)
      [] isList(val) /\ ~isJSArray(val[2]) /\ Head(name) # "@" -> Element(Sym(name), val[2])
      [] OTHER -> Element(Sym(name), <<val>>)
jsValToValue(j) ==
    CASE j[1] = "string" -> Str(j[2])
      [] j[1] = "boolean" -> Bln(j[2])
      [] j[1] = "number" -> Num(j[2])
      [] j[1] = "array" -> Lst(map(jsValToValue, j[2]))
      [] j[1] = "object" -> Lst([i \in DOMAIN j[2] |-> jsPropertyToValue(j[2][i][1], jsValToValue(j[2][i][2]))])
      [] OTHER -> Nil

jsonReadElements(j) == AsList(jsValToValue(j))
ReadElements(val) == IF isList(val) THEN Lst(elementsToValues(val[2])) ELSE val
jsonReadValue(j) == ReadElements(jsValToValue(j))

\* The elements go through values and back, which groups those of one name.
WriteGrouped(grouped) ==
    IF isJSArray(grouped) THEN valuesToJSElements(grouped) ELSE <<"object", valuesToJSProperties(<<>>, grouped)>>
jsonWriteElements(l) == WriteGrouped(valuesToElements(elementsToValues(l)))
\* A value that is no list is passed on as one, which makes it the empty list.
jsonWriteValue(v) == IF isList(v) THEN jsonWriteElements(valuesToElements(v[2])) ELSE valueToJSVal(Lst(AsList(v)))

\* JSON-RPC.
jsonRequest(id, func, params) ==
    jsonWriteElements(valuesToElements(<<Lst(<<Word("id"), id>>), Lst(<<Word("method"), Str(AsText(func))>>),
                                         Lst(<<Word("params"), params>>)>>))
jsonResult(id, val) ==
    jsonWriteElements(valuesToElements(<<Lst(<<Word("id"), id>>), Lst(<<Word("result"), val>>)>>))
ResultIn(j) == Cadr(AsList(Cadr(AsList(jsonReadValue(j)))))
\* Mutant: a record is taken for the list of its parts.
BareResultValue(j) == ResultIn(j)
AsOneRecord(val) == IF isList(val) /\ ~isJSArray(val[2]) THEN Lst(<<val>>) ELSE val
jsonResultValue(j) == AsOneRecord(ResultIn(j))
funcName(f) == IF Len(f) > 1 /\ Head(f) \in {".", "system.", "Service."} THEN Tail(f) ELSE f
queryParams(args) ==
    map(LAMBDA a : Cadr(AsList(a)),
        SelectSeq(args, LAMBDA a : ~isTaggedList(a, Word("id")) /\ ~isTaggedList(a, Word("method"))))

------------------------------------------------------------------------------
\* XML.  A text that reads as a boolean or a number becomes one.
readTextValue(t) ==
    CASE t = <<"true">> -> Bln(TRUE)
      [] t = <<"false">> -> Bln(FALSE)
      [] Len(t) = 1 /\ Range(t) \subseteq DOMAIN NumberWords -> Num(NumberWords[t[1]])
      [] OTHER -> Str(t)

\* Texts side by side are one text of the document, and a text of no words is none.
TextNode(t) == IF t = <<>> THEN <<>> ELSE <<[kind |-> "text", text |-> t]>>
AddNode(nodes, n) ==
    IF nodes # <<>> /\ Last(nodes).kind = "text" /\ n.kind = "text"
    THEN Front(nodes) \o TextNode(Last(nodes).text \o n.text)
    ELSE Append(nodes, n)
Joined(nodes) == FoldLeft(AddNode, <<>>, nodes)

\* Mutant: the values of a list are written in one element.
OneElement(name, l) == <<Element(name, l)>>
expandElementValues(name, l) == map(LAMBDA v : Element(name, IF isList(v) THEN v[2] ELSE <<v>>), l)

RECURSIVE writeList(_)
writeToken(v) ==
    LET node(children) == <<[kind |-> "element", name |-> AsText(elementName(v)), children |-> Joined(children)]>>
    IN CASE isAttribute(v) ->
              <<[kind |-> "attribute", name |-> AsText(attributeName(v)), text |-> AsText(attributeValue(v))]>>
         [] isElement(v) /\ elementHasValue(v) /\ isList(elementValue(v)) ->
              writeList(expandElementValues(elementName(v), AsList(elementValue(v))))
         [] isElement(v) /\ ~(elementHasValue(v) /\ isList(elementValue(v))) ->
              node(writeList(elementChildren(v)))
         [] OTHER -> TextNode(AsText(v))
writeList(l) == FlattenSeq(map(writeToken, l))

RECURSIVE readChildren(_)
readNode(n) ==
    CASE n.kind = "attribute" -> Attribute(Sym(n.name), readTextValue(n.text))
      [] n.kind = "text" -> readTextValue(n.text)
      [] n.kind = "element" -> Element(Sym(n.name), readChildren(n.children))
readChildren(nodes) == map(readNode, nodes)

xmlWriteElements(l) == Joined(writeList(l))
\* The root element is read; a document of none reads as no elements.
xmlReadElements(nodes) ==
    IF nodes = <<>> \/ Head(nodes).kind # "element" THEN <<>> ELSE <<readNode(Head(nodes))>>

------------------------------------------------------------------------------
\* ATOM and RSS: feeds of entries.  An entry has a title, an id, and what else it is given.
feed == Word("feed")
entry == Word("entry")
FirstChild(w, e) == listHead(childrenNamed(Word(w), e), 1)
FirstValue(w, e, default) == Car(Append(map(elementValue, FirstChild(w, e)), default))
\* The child as it is passed on, if there is one.
Valued(w, c) == Element(Word(w), <<elementValue(c)>>)
Optional(w, e) == map(LAMBDA c : Valued(w, c), FirstChild(w, e))
\* Mutant: the first child is the content.
FirstContent(w, e) == map(LAMBDA c : Element(Word("content"), <<Car(elementChildren(c))>>), FirstChild(w, e))
\* Content that ends with an attribute is none.
OptionalContent(w, e) ==
    map(LAMBDA c : Valued("content", c), SelectSeq(FirstChild(w, e), LAMBDA c : ~isAttribute(elementValue(c))))

TitleText(title) == IF isNull(title) \/ ~elementHasValue(title) THEN Str(<<>>) ELSE elementValue(title)
\* The name of an author, or else the email.
AuthorValue(author) ==
    map(LAMBDA v : Valued("author", v), listHead(FirstChild("name", author) \o FirstChild("email", author), 1))
atomEntryElementValues(e) ==
    Element(entry,
        <<Element(Word("title"), <<TitleText(elementChild(Word("title"), e))>>),
          Element(Word("id"), <<FirstValue("id", e, Str(<<>>))>>)>>
        \o AuthorValue(elementChild(Word("author"), e))
        \o Optional("updated", e) \o Optional("rank", e) \o OptionalContent("content", e))

readATOMEntry(nodes) ==
    LET e == xmlReadElements(nodes)
    IN IF e = <<>> THEN Failure("Empty entry", -1) ELSE Content(map(atomEntryElementValues, e))
atomFeedValues(f) ==
    Element(feed, <<Element(Word("title"), <<FirstValue("title", f, Nil)>>), Element(Word("id"), <<FirstValue("id", f, Nil)>>)>>
                  \o map(atomEntryElementValues, childrenNamed(entry, f)))
readATOMFeed(nodes) ==
    LET f == xmlReadElements(nodes)
    IN IF f = <<>> THEN Failure("Empty feed", -1) ELSE Content(map(atomFeedValues, f))

AtomNamespace == "http://www.w3.org/2005/Atom"
TypeAttribute(w) == Attribute(Word("type"), Str(<<w>>))
NamespaceAttribute == Attribute(Word("xmlns"), Str(<<AtomNamespace>>))

\* The names of the elements and the texts of the attributes that the text of a document contains.
RECURSIVE NamesIn(_)
NamesIn(nodes) ==
    UNION {CASE n.kind = "element" -> {n.name} \union NamesIn(n.children)
             [] n.kind = "attribute" -> {n.text}
             [] OTHER -> {} : n \in Range(nodes)}
\* The code looks at the first block of the text, which here has all of it.
isATOMFeed(nodes) == {<<"feed">>, <<AtomNamespace>>} \subseteq NamesIn(nodes)
isATOMEntry(nodes) == {<<"entry">>, <<AtomNamespace>>} \subseteq NamesIn(nodes) /\ <<"feed">> \notin NamesIn(nodes)
isRSSFeed(nodes) == <<"rss">> \in NamesIn(nodes)

\* What an entry does not have is an empty list among its children.
AuthorKind(author) == IF "@" \in Range(AsText(elementValue(author))) THEN "email" ELSE "name"
AuthorElement(author) ==
    Element(Word("author"), <<Element(Word(AuthorKind(author)), <<elementValue(author)>>)>>)
ValueElement(v) == Element(elementName(v), <<elementValue(v)>>)
Untyped(children) == SelectSeq(children, LAMBDA v : ~(isAttribute(v) /\ Eq(attributeName(v), Word("type"))))
ContentElement(content) ==
    Element(Word("content"),
        IF elementHasValue(content) THEN <<TypeAttribute("text"), elementValue(content)>>
        ELSE <<TypeAttribute("application/xml")>> \o Untyped(elementChildren(content)))
OrEmpty(l) == IF l = <<>> THEN <<Lst(<<>>)>> ELSE l
ChildElement(w, c) == CASE w = "author" -> AuthorElement(c) [] w = "content" -> ContentElement(c) [] OTHER -> ValueElement(c)
OptionalElement(w, l) == OrEmpty(map(LAMBDA c : ChildElement(w, c), FirstChild(w, l)))
atomEntryOf(l, title, id) ==
    Element(entry,
        <<NamespaceAttribute,
          Element(Word("title"), <<TypeAttribute("text"), IF elementHasValue(title) THEN elementValue(title) ELSE Str(<<>>)>>),
          Element(Word("id"), <<id>>)>>
        \o FlattenSeq(map(LAMBDA w : OptionalElement(w, l), <<"author", "updated", "rank", "content">>))
        \o <<Element(Word("link"), <<Attribute(Word("href"), id)>>)>>)
atomEntryElement(l) == atomEntryOf(l, elementChild(Word("title"), l), elementValue(elementChild(Word("id"), l)))

\* A feed has an element per entry, or one entry element with the list of them.
InOneEntry(found) == AsList(Caddr(AsList(found[1])))
EntriesOf(found) == IF found # <<>> /\ isList(Car(InOneEntry(found))) THEN InOneEntry(found) ELSE found
FeedEntries(l) == EntriesOf(childrenNamed(entry, l))

atomFeedElement(l, entries) ==
    Element(feed,
        <<NamespaceAttribute,
          Element(Word("title"), <<TypeAttribute("text"), FirstValue("title", l, Str(<<>>))>>),
          Element(Word("id"), <<FirstValue("id", l, Str(<<>>))>>)>>
        \o entries)
writeATOMEntry(l) == xmlWriteElements(<<atomEntryElement(Car(l))>>)
writeATOMFeed(l) == xmlWriteElements(<<atomFeedElement(Car(l), map(atomEntryElement, FeedEntries(Car(l))))>>)
\* A feed or an entry.
ATOMElement(l, root, entries) == IF Eq(root, feed) THEN atomFeedElement(Car(l), entries) ELSE Car(entries)
writeATOM(l, root) ==
    xmlWriteElements(<<ATOMElement(l, root, map(atomEntryElement, IF Eq(root, feed) THEN FeedEntries(Car(l)) ELSE <<Car(l)>>))>>)

rssEntryElementValues(e) ==
    Element(entry, <<Element(Word("title"), <<FirstValue("title", e, Str(<<>>))>>),
                     Element(Word("id"), <<FirstValue("link", e, Str(<<>>))>>)>>
                   \o OptionalContent("description", e))

readRSSEntry(nodes) ==
    LET e == xmlReadElements(nodes)
    IN IF e = <<>> THEN Failure("Empty entry", -1) ELSE Content(map(rssEntryElementValues, e))
channelValues(channel) ==
    Element(feed, <<Element(Word("title"), <<FirstValue("title", channel, Nil)>>),
                    Element(Word("id"), <<FirstValue("link", channel, Nil)>>)>>
                  \o map(rssEntryElementValues, childrenNamed(Word("item"), channel)))
readRSSFeed(nodes) ==
    LET f == xmlReadElements(nodes)
    IN IF f = <<>> THEN Failure("Empty feed", -1)
       ELSE Content(map(LAMBDA e : channelValues(elementChild(Word("channel"), e)), f))

Description(content) ==
    Element(Word("description"), IF elementHasValue(content) THEN <<elementValue(content)>> ELSE elementChildren(content))
rssEntryElement(l) ==
    Element(Word("item"),
        <<Element(Word("title"), <<FirstValue("title", l, Nil)>>), Element(Word("link"), <<FirstValue("id", l, Nil)>>)>>
        \o map(Description, FirstChild("content", l)))

writeRSSEntry(l) == xmlWriteElements(<<rssEntryElement(Car(l))>>)
writeRSSFeed(l) ==
    LET title == FirstValue("title", Car(l), Str(<<>>))
    IN xmlWriteElements(<<Element(Word("rss"),
           <<Attribute(Word("version"), Str(<<"2.0">>)),
             Element(Word("channel"), <<Element(Word("title"), <<title>>),
                                        Element(Word("link"), <<FirstValue("id", Car(l), Str(<<>>))>>),
                                        Element(Word("description"), <<title>>)>>
                                      \o map(rssEntryElement, FeedEntries(Car(l))))>>)>>)
=============================================================================
