-------------------------------- MODULE Sessions --------------------------------
(***************************************************************************)
(* The sessions of a client, modules/http/http.hpp, one per thread,        *)
(* kernel/parallel.hpp, and the components that call what their references *)
(* name: components/http/*.cpp and components/smtp/smtppost.cpp.           *)
(*                                                                         *)
(* A handle of CURL is what was set on it, by the names of the options,    *)
(* from none.  A URL is a text; what it has of a user is before an "@".    *)
(***************************************************************************)
EXTENDS Remote

NoHandle == [none |-> TRUE]
CURLSession(ca, cert, key, cookie, timeout) ==
    [handle |-> NoHandle, CAINFO |-> ca, SSLCERT |-> cert, SSLKEY |-> key, COOKIE |-> cookie, TIMEOUT |-> timeout]

\* What the threads have, each its own, from when it first asks for it.
\* Mutant: all threads have what the first one made.
perthreadShared(ptrs, thread, new) == (thread :> IF ptrs = << >> THEN new ELSE ptrs[CHOOSE t \in DOMAIN ptrs : TRUE]) @@ ptrs
perthread(ptrs, thread, new) == IF thread \in DOMAIN ptrs THEN ptrs ELSE (thread :> new) @@ ptrs

cleanup(cs) == [cs EXCEPT !.handle = NoHandle]

\* What a URL cannot have is escaped, once: what looks escaped stays.
URICodes == [w \in {" ", "\"", "#"} |-> CASE w = " " -> "%20" [] w = "\"" -> "%22" [] OTHER -> "%23"]
escapeURI(u) == [i \in DOMAIN u |-> IF u[i] \in DOMAIN URICodes THEN URICodes[u[i]] ELSE u[i]]

\* The URL, and what it has of a user.
ParsedUri(u) ==
    LET at == SelectInSeq(u, LAMBDA w : w = "@")
        from == SelectInSeq(u, LAMBDA w : w = "://")
        parts == tokenize(":", SubSeq(u, from + 1, at - 1))
    IN IF at = 0 THEN [user |-> <<>>, url |-> u]
       ELSE [user |-> parts, url |-> SubSeq(u, 1, from) \o SubSeq(u, at + 1, Len(u))]
UserOptions(user) ==
    IF user = <<>> THEN << >>
    ELSE ("HTTPAUTH" :> "basic") @@ ("USERNAME" :> user[1]) @@ (IF Len(user) > 1 THEN "PASSWORD" :> user[2] ELSE << >>)
HandleFor(parsed, cs) ==
    LET given == {o \in {"CAINFO", "SSLCERT", "SSLKEY", "COOKIE"} : cs[o] # <<>>}
    IN ("TIMEOUT" :> cs.TIMEOUT) @@ [o \in given |-> cs[o]] @@ UserOptions(parsed.user) @@ ("URL" :> escapeURI(parsed.url))
setup(u, cs) == [cleanup(cs) EXCEPT !.handle = HandleFor(ParsedUri(u), cs)]

\* What is set for a verb.
VerbOptions(verb) ==
    CASE verb = "POST" -> "POST" :> TRUE
      [] verb = "PUT" -> "UPLOAD" :> TRUE
      [] verb = "PATCH" -> ("UPLOAD" :> TRUE) @@ ("CUSTOMREQUEST" :> "PATCH")
      [] verb = "DELETE" -> "CUSTOMREQUEST" :> "DELETE"
      [] OTHER -> << >>
Set(options, cs) == [cs EXCEPT !.handle = options @@ @]
prepare(u, verb, m, cs) ==
    Set(VerbOptions(verb) @@ ("HTTPHEADER" :> m.ct) @@ ("READDATA" :> m.body), setup(u, cs))

\* What CURL does with a handle.
Performed(cs) ==
    LET h == cs.handle
        Option(o) == IF o \in DOMAIN h THEN h[o] ELSE <<>>
        sends == {"POST", "UPLOAD"} \intersect DOMAIN h # {}
    IN [method |-> CASE "CUSTOMREQUEST" \in DOMAIN h -> h["CUSTOMREQUEST"]
                     [] "UPLOAD" \in DOMAIN h -> "PUT"
                     [] "POST" \in DOMAIN h -> "POST"
                     [] OTHER -> "GET",
        url |-> h["URL"], user |-> Option("USERNAME"), password |-> Option("PASSWORD"),
        cookie |-> Option("COOKIE"), timeout |-> h["TIMEOUT"],
        body |-> IF sends THEN <<h["HTTPHEADER"], h["READDATA"]>> ELSE <<>>]

------------------------------------------------------------------------------
\* A component that calls by HTTP has sessions without certificates, with its own timeout.
newsession(timeout) == CURLSession(<<>>, <<>>, <<>>, <<>>, timeout)

\* A component answers a get, with what the URL of its reference answers, a failure as a failure.
OnGet(params, answer) == IF AsText(Car(params)) = <<"get">> THEN answer ELSE Failure(<<>>, -1)
httpget(u) == httpGet(u, <<>>)
httppost(u, m) == httpPost(u, m)
httpput(u, m) == httpPut(u, m)
\* Mutant: a patch is put.
httppatchPuts(u, m) == httpPut(u, m)
httppatch(u, m) == httpPatch(u, m)
httpdelete(u) == httpDelete(u)

\* A mail: lines with its addresses, its subject and the type of its content, an empty line, and the content, a
\* text or a document.
TextOf(body) == IF body.kind = "text" THEN FlattenSeq(body.doc) ELSE <<ToString(body.doc)>>
Line(w, t) == <<w, ": ">> \o t \o <<"\n">>
\* Mutant: there is no empty line.
mailWithoutGap(mail, m) ==
    Line("From", mail.from) \o Line("To", mail.to) \o Line("Subject", mail.subject) \o Line("Content-Type", m.ct) \o TextOf(m.body)
mailText(mail, m) ==
    Line("From", mail.from) \o Line("To", mail.to) \o Line("Subject", mail.subject) \o Line("Content-Type", m.ct)
    \o <<"\n">> \o TextOf(m.body)
smtppost(mail, m, cs) ==
    Set(("USERNAME" :> mail.user) @@ ("PASSWORD" :> mail.password) @@ ("MAIL_FROM" :> mail.from)
            @@ ("MAIL_RCPT" :> <<mail.to>>) @@ ("READDATA" :> mailText(mail, m)),
        setup(mail.url, cs))
=============================================================================
