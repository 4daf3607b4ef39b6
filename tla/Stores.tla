-------------------------------- MODULE Stores --------------------------------
(***************************************************************************)
(* The components that keep items by their keys: memcached                 *)
(* (components/cache/memcache.hpp, memcache.cpp), files                    *)
(* (components/filedb/filedb.hpp, filedb.cpp), and in front of them        *)
(* memocache.cpp and partitioner.cpp.                                      *)
(*                                                                         *)
(* A store is a record with its kind.  An operation gives the store after  *)
(* it and its answer, a content or a failure.  Errors of the memcached     *)
(* servers and of the disk are left out, errors of the file names are not. *)
(***************************************************************************)
EXTENDS Remote

Did(s, answer) == [store |-> s, answer |-> answer]
NotThere == Failure(<<"Couldn't get entry">>, 404)
Failed == Failure(<<"Couldn't update entry">>, 1)
True == Content(Bln(TRUE))

\* memcached: texts by the texts of their keys, which have no spaces.
MemCached == [kind |-> "memcache", items |-> << >>]
nospaces(tokens) ==
    map(LAMBDA k : Token(k[1], [i \in DOMAIN k[2] |-> IF k[2][i] = " " THEN "\t" ELSE k[2][i]]), tokens)
\* Mutant: the key is the function that is called.
FunctionKey(key) == nospaces(writeValue(IF isList(key) THEN Car(key[2]) ELSE key))
KeyText(key) == nospaces(writeValue(key))
memcachePut(s, k, val) == Did([s EXCEPT !.items = (k :> writeValue(val)) @@ @], True)
memcachePost(s, k, val) == IF k \in DOMAIN s.items THEN Did(s, Failed) ELSE memcachePut(s, k, val)
memcacheGet(s, k) == IF k \in DOMAIN s.items THEN Content(readValue(s.items[k])) ELSE NotThere
Without(f, k) == Restrict(f, DOMAIN f \ {k})
memcacheDel(s, k) ==
    IF k \in DOMAIN s.items THEN Did([s EXCEPT !.items = Without(@, k)], True) ELSE Did(s, NotThere)

------------------------------------------------------------------------------
\* Files: documents of one format by their paths, in directories.
FileDB(format) == [kind |-> "filedb", format |-> format, files |-> << >>, dirs |-> {<<>>}]
TokenText(k) == IF k[1] = "string" THEN <<"\"">> \o k[2] \o <<"\"">> ELSE IF k[2] = <<>> THEN <<k[1]>> ELSE k[2]
Segment(v) == IF isString(v) THEN v[2] ELSE FlattenSeq(map(TokenText, writeValue(v)))
Keys(key) == IF isList(key) THEN key[2] ELSE <<key>>
Slashed(t) == SelectSeq(tokenize("/", t), LAMBDA part : part # <<>>)
\* Mutant: a file is named by the last key.
LastName(l) == IF l = <<>> THEN <<>> ELSE Slashed(Segment(Last(l)))
filename(l) == FlattenSeq(map(LAMBDA v : Slashed(Segment(v)), l))
Parent(p) == IF p = <<>> THEN p ELSE Front(p)

\* A directory per key but the last; one whose parent is not there, or that a file is in the way of, is not made.
mkdirs(l, s) ==
    FoldLeft(LAMBDA d, p : IF Parent(p) \in d /\ p \notin DOMAIN s.files THEN d \union {p} ELSE d,
             s.dirs, [i \in 1 .. Len(l) - 1 |-> filename(SubSeq(l, 1, i))])

Formats == {"scheme", "xml", "json"}
WriteDocument(v, format) ==
    CASE format = "scheme" -> writeValue(v)
      [] format = "xml" -> xmlWriteElements(valuesToElements(AsList(v)))
      [] format = "json" -> jsonWriteValue(v)
ReadDocument(doc, format) ==
    CASE format = "scheme" -> Content(readValue(doc))
      [] format = "xml" -> Content(Lst(elementsToValues(xmlReadElements(doc))))
      [] format = "json" -> IF doc = <<>> THEN Failure(<<"json_loads failed">>, -1) ELSE Content(jsonReadValue(doc))
      [] OTHER -> Failure(<<"Unsupported database format">>, -1)

\* The file is emptied before the value is written.
Written(val, format) == IF format \in Formats THEN WriteDocument(val, format) ELSE <<>>
filedbPut(s, p, val) ==
    IF p \in s.dirs \/ Parent(p) \notin s.dirs THEN Did(s, Failed)
    ELSE Did([s EXCEPT !.files = (p :> Written(val, s.format)) @@ @],
             IF s.format \in Formats THEN True ELSE Failure(<<"Unsupported database format">>, -1))
WithDirs(s, key) == [s EXCEPT !.dirs = IF isList(key) /\ key[2] # <<>> THEN mkdirs(key[2], s) ELSE @]
\* A directory can be opened, and reads as nothing.
filedbGet(s, p) ==
    IF p \in DOMAIN s.files \union s.dirs
    THEN ReadDocument(IF p \in DOMAIN s.files THEN s.files[p] ELSE <<>>, s.format) ELSE NotThere
filedbDel(s, p) ==
    IF p \in DOMAIN s.files THEN Did([s EXCEPT !.files = Without(@, p)], True)
    ELSE IF p \in s.dirs \/ Parent(p) \in DOMAIN s.files THEN Did(s, Failed) ELSE Did(s, NotThere)

------------------------------------------------------------------------------
\* The components.  A post makes a key of its own below the one it is given.
IsMemCached(s) == s.kind = "memcache"
Where(key) == filename(Keys(key))
itemGet(s, key) == IF IsMemCached(s) THEN memcacheGet(s, KeyText(key)) ELSE filedbGet(s, Where(key))
storeGet(s, key) == Did(s, itemGet(s, key))
storePut(s, key, val) ==
    IF IsMemCached(s) THEN memcachePut(s, KeyText(key), val) ELSE filedbPut(WithDirs(s, key), Where(key), val)
storeDel(s, key) == IF IsMemCached(s) THEN memcacheDel(s, KeyText(key)) ELSE filedbDel(s, Where(key))
AnswerId(did, id) == [did EXCEPT !.answer = IF hasContent(@) THEN Content(id) ELSE @]
postAs(s, id, val) ==
    AnswerId(IF IsMemCached(s) THEN memcachePost(s, KeyText(id), val)
           ELSE filedbPut(WithDirs(s, id), Where(id), val), id)
storePost(s, key, val, uuid) == postAs(s, Lst(Append(AsList(key), uuid)), val)

\* A patch is a script with a function of the key and the item, the empty list if there is none.
ScriptOf(patchEntry) == AsText(Cadr(assoc(Word("patch"), assoc(Word("content"), AsList(Car(AsList(patchEntry)))))))
WordToken(w) == CASE w = "(" -> Left [] w = ")" -> Right [] OTHER -> Token("word", <<w>>)
Patched(key, old, patchEntry) ==
    evalScript(Lst(<<Word("patch")>> \o quotedParameters(<<key, old>>)),
               readScript(map(WordToken, ScriptOf(patchEntry))), setupEnvironment)
putPatched(s, key, new) == IF isNull(new) THEN Did(s, NotThere) ELSE storePut(s, key, new)
patchFrom(s, key, old, patchEntry) ==
    IF ~hasContent(old) /\ old.code # 404 THEN Did(s, old)
    ELSE putPatched(s, key, Patched(key, IF hasContent(old) THEN old.content ELSE Lst(<<>>), patchEntry))
storePatch(s, key, patchEntry) == patchFrom(s, key, itemGet(s, key), patchEntry)

------------------------------------------------------------------------------
\* The memo cache: the answer for the parameters, from the cache if it is there; else "res", from what is behind it.
memoizeFrom(s, cached, params, res) ==
    IF ~isNull(cached) THEN Did(s, Content(cached)) ELSE Did(storePut(s, Lst(params), res).store, Content(res))
memoize(s, params, res) == memoizeFrom(s, ContentOrNil(itemGet(s, Lst(params))), params, res)

\* Partitions: a sequence of stores.  The selector answers the numbers of those for a key, or nil.
partition(selected) ==
    IF isNull(selected) THEN Failure(<<"Couldn't get partition">>, -1) ELSE Content(map(AsNumber, selected[2]))
Listed(val, rest) ==
    IF isNull(val) THEN rest
    ELSE IF ~isList(val) THEN Failure(<<"Couldn't get list of entries from partition">>, 500)
    ELSE IF ~hasContent(rest) THEN rest
    ELSE Content(val[2] \o rest.content)
RECURSIVE getlist(_, _, _)
getlist(ss, key, p) ==
    IF p = <<>> THEN Content(<<>>)
    ELSE Listed(ContentOrNil(itemGet(ss[p[1]], key)), getlist(ss, key, Tail(p)))
\* Mutant: items are compared as they are.
ItemItself(val) == val
rankOf(val, li, lr) == IF li # <<>> /\ lr # <<>> THEN Lst(<<Lst(lr), Lst(li)>>) ELSE val
itemrank(val) ==
    LET e == AsList(Car(AsList(val)))
    IN IF e # <<>> /\ Eq(Car(e), entry) THEN rankOf(val, assoc(Word("id"), Cdr(e)), assoc(Word("rank"), Cdr(e)))
       ELSE val
rankitems(a, b) == rbtreeComp(itemrank(a), itemrank(b))
keyparams(key) == SelectSeq(AsList(key), isList)
Param(w, key) == assoc(Word(w), keyparams(key))
limited(l, limit) == IF limit = <<>> THEN l ELSE listHead(l, AsNumber(limit[2]))
ranked(l, key) ==
    IF Param("textsearch", key) # <<>> \/ Param("rank", key) # <<>> THEN Reverse(sort(l, rankitems)) ELSE l
OrNotThere(one) == IF isNull(one) THEN NotThere ELSE Content(one)
partitionsGet(val, key) ==
    IF ~hasContent(val) THEN val ELSE Content(Lst(limited(ranked(val.content, key), Param("limit", key))))
getFrom(ss, key, fp) ==
    IF ~hasContent(fp) THEN fp
    ELSE IF Len(fp.content) = 1 THEN OrNotThere(ContentOrNil(itemGet(ss[fp.content[1]], key)))
    ELSE partitionsGet(getlist(ss, key, fp.content), key)
partitionerGet(ss, key, selected) == getFrom(ss, key, partition(selected))

\* An update goes to the first partition, whatever that answers: what it does with it, and what is answered.
FirstOf(ss, selected) == ss[partition(selected).content[1]]
updateFirst(ss, fp, did, answer) ==
    IF hasContent(fp) THEN Did([ss EXCEPT ![fp.content[1]] = did.store], Content(answer)) ELSE Did(ss, fp)
postedId(key, uuid) == Lst(Append(AsList(key), uuid))
partitionerPost(ss, selected, did, id) == updateFirst(ss, partition(selected), did, id)
partitionerUpdate(ss, selected, did) == updateFirst(ss, partition(selected), did, Bln(TRUE))
=============================================================================
