------------------------------- MODULE Tunnel -------------------------------
(***************************************************************************)
(* The SSL tunnel, modules/http/mod-ssltunnel.cpp, with the socket part of *)
(* a CURL session, modules/http/http.hpp.                                  *)
(*                                                                         *)
(* A client talks to a target through one or two servers.  With two, the   *)
(* first is a virtual host with a TunnelPass: processConnection asks the   *)
(* second for a tunnel with a preamble, which httpd reads there as a       *)
(* request of method SSLTUNNEL.  The last server is in handler.  Each runs *)
(* tunnel in the thread of its connection: it blocks to read and to write, *)
(* and waits for both sides in one poll.                                   *)
(*                                                                         *)
(* Link l joins hop l to hop l + 1; hop 0 is the client and the hop after  *)
(* the last the target.  A direction of a link is what the kernel holds of *)
(* it, in records, at most window bytes.  Over TLS a record is decrypted   *)
(* as a whole: what one read does not take is held where no poll sees it.  *)
(* Client and target send and close whenever they like.                    *)
(***************************************************************************)
EXTENDS Integers, Sequences, FiniteSets, SequencesExt

CONSTANTS Shapes,      \* the chains of servers: hops, window, the links over TLS,
                       \* whether the last server is an HTTPS one, and the bytes an end sends
          RecordSize,  \* in records of at most so many
          ReadSize     \* a server reads at most so many at a time

ASSUME TunnelAssumption ==
    /\ RecordSize \in Nat \ {0} /\ ReadSize \in Nat \ {0}
    /\ \A s \in Shapes : s.hops \in Nat \ {0} /\ s.bytes \in Nat /\ s.window \in Nat /\ s.window >= ReadSize

Direction == {"down", "up"}
Opposite(d) == IF d = "down" THEN "up" ELSE "down"
\* A byte is its place in what its end sends; these are no byte of it.
Preamble == 0
ErrorPage == -1

VARIABLES shape,  \* the chain of this run
          open,   \* the links that were connected
          wire,   \* wire[l][d]: the records the kernel holds
          held,   \* held[l][d]: the bytes the reader decrypted and did not take
          shut,   \* shut[l]: the sides, "near" the client or "far", that closed
          sent,   \* sent[d]: how many bytes the end where d starts sent
          got,    \* got[d]: what the end where d ends received
          pc,     \* where each hop is
          todo,   \* todo[h]: what the last poll returned and is to be handled
          data    \* data[h]: the bytes read on one side, to be sent to the other

ends == <<sent, got>>
vars == <<shape, open, wire, held, shut, sent, got, pc, todo, data>>

Hop == 1..shape.hops
Link == 0..shape.hops
Side == {"near", "far"}

\* The link an end is on, and its side of it.
LinkOf(end) == IF end = "client" THEN 0 ELSE shape.hops
SideOf(end) == IF end = "client" THEN "near" ELSE "far"
End == {"client", "target"}
Sends(end) == IF end = "client" THEN "down" ELSE "up"
Other(side) == IF side = "near" THEN "far" ELSE "near"
\* The side that reads, and the one that writes, a direction.
Reader(d) == IF d = "down" THEN "far" ELSE "near"
Writer(d) == Other(Reader(d))
\* The link on which a hop reads, and writes, a direction.
Upstream(h, d) == IF d = "down" THEN h - 1 ELSE h
Downstream(h, d) == IF d = "down" THEN h ELSE h - 1

Held(l, d) == FlattenSeq(wire[l][d])
Room(l, d) == shape.window - Len(Held(l, d))
Ended(l, d) == Writer(d) \in shut[l]

TypeOK ==
    /\ shape \in Shapes
    /\ open \subseteq Link
    /\ \A l \in Link, d \in Direction :
          /\ Len(Held(l, d)) <= shape.window
          /\ held[l][d] # <<>> => l \in shape.tls /\ Len(held[l][d]) < RecordSize
          /\ shut[l] \subseteq Side
    /\ sent \in [Direction -> 0..shape.bytes]
    /\ pc \in [Hop -> {"idle", "request", "connect", "preamble", "handle", "down", "up", "poll", "closed", "aborted", "declined"}]
    /\ \A h \in Hop : pc[h] \in Direction <=> data[h] # <<>>

Init ==
    /\ shape \in Shapes
    /\ open = {}
    /\ wire = [l \in Link |-> [d \in Direction |-> <<>>]]
    /\ held = [l \in Link |-> [d \in Direction |-> <<>>]]
    /\ shut = [l \in Link |-> {}]
    /\ sent = [d \in Direction |-> 0]
    /\ got = [d \in Direction |-> <<>>]
    /\ pc = [h \in Hop |-> "idle"]
    /\ todo = [h \in Hop |-> <<>>]
    /\ data = [h \in Hop |-> <<>>]

Goto(h, to) == pc' = [pc EXCEPT ![h] = to]
Written(l, d, record) == wire' = [wire EXCEPT ![l][d] = Append(@, record)]

-----------------------------------------------------------------------------
(* Closing *)

\* A socket that is closed with bytes unread may reset its link: its peer then
\* loses what it has not read.
Closed(sides) ==
    /\ shut' = [l \in Link |-> shut[l] \cup {s \in Side : <<l, s>> \in sides}]
    /\ \E resets \in SUBSET {x \in sides : \E d \in Direction : Reader(d) = x[2] /\ wire[x[1]][d] # <<>>} :
          wire' = [l \in Link |-> [d \in Direction |-> IF <<l, Writer(d)>> \in resets THEN <<>> ELSE wire[l][d]]]

Left(h, end, sides) ==
    /\ Closed(sides)
    /\ Goto(h, end)
    /\ todo' = [todo EXCEPT ![h] = <<>>]
    /\ data' = [data EXCEPT ![h] = <<>>]
    /\ UNCHANGED <<shape, open, held, ends>>
\* The client's socket is closed, and the session with the target ends with
\* the function it is local to.
BothSides(h) == {<<h - 1, "far">>} \cup (IF h \in open THEN {<<h, "near">>} ELSE {})

close(h) == Left(h, "closed", BothSides(h))
abort(h) == Left(h, "aborted", BothSides(h))

-----------------------------------------------------------------------------
(* How a tunnel starts *)

\* The client asks the first hop: it connects to a virtual host that has a TunnelPass, or sends the request of
\* a tunnel to an HTTPS server.  Other connections are no tunnels.
processConnection ==
    /\ pc[1] = "idle"
    /\ open' = open \cup {0}
    /\ Goto(1, "connect")
    /\ UNCHANGED <<shape, wire, held, shut, ends, todo, data>>

\* Mutant: the preamble stays in the connection.
handleAll(h) ==
    /\ pc[h] = "request"
    /\ Held(h - 1, "down") # <<>>
    /\ Goto(h, "connect")
    /\ UNCHANGED <<shape, open, wire, held, shut, ends, todo, data>>
\* httpd reads the preamble as a request; handler declines it if the server is not an HTTPS one, and
\* httpd then answers with an error page.
handler(h) ==
    /\ pc[h] = "request"
    /\ wire[h - 1]["down"] # <<>>
    /\ wire' = [wire EXCEPT ![h - 1]["down"] = Tail(@),
                            ![h - 1]["up"] = IF shape.https THEN @ ELSE Append(@, <<ErrorPage>>)]
    /\ Goto(h, IF shape.https THEN "connect" ELSE "declined")
    /\ shut' = IF shape.https THEN shut ELSE [shut EXCEPT ![h - 1] = @ \cup {"far"}]
    /\ UNCHANGED <<shape, open, held, ends, todo, data>>
handlerNotAsked(h) ==
    /\ pc[h] = "request"
    /\ wire[h - 1]["down"] = <<>> /\ Ended(h - 1, "down")
    /\ close(h)

\* A connection is handled as if a poll had found the client ready.
connect(h) ==
    /\ pc[h] = "connect"
    /\ open' = open \cup {h}
    /\ pc' = [i \in Hop |-> IF i = h THEN (IF h < shape.hops THEN "preamble" ELSE "handle")
                            ELSE IF i = h + 1 THEN "request" ELSE pc[i]]
    /\ todo' = [todo EXCEPT ![h] = <<"down">>]
    /\ UNCHANGED <<shape, wire, held, shut, ends, data>>
connectFails(h) == pc[h] = "connect" /\ abort(h)

sendPreamble(h) ==
    /\ pc[h] = "preamble"
    /\ Written(h, "down", <<Preamble>>)
    /\ Goto(h, "handle")
    /\ UNCHANGED <<shape, open, held, shut, ends, todo, data>>

-----------------------------------------------------------------------------
(* The relay *)

\* What a read returns, and what it leaves decrypted or in the kernel.
read(h, d) ==
    LET l == Upstream(h, d)
        record == Head(wire[l][d])
        n == IF Len(record) < ReadSize THEN Len(record) ELSE ReadSize
        rest == SubSeq(record, n + 1, Len(record))
        left == SubSeq(held[l][d], ReadSize + 1, Len(held[l][d]))
    IN IF held[l][d] # <<>>
       THEN /\ data' = [data EXCEPT ![h] = SubSeq(held[l][d], 1, Len(held[l][d]) - Len(left))]
            /\ held' = [held EXCEPT ![l][d] = left]
            /\ UNCHANGED wire
       ELSE /\ wire[l][d] # <<>>
            /\ data' = [data EXCEPT ![h] = SubSeq(record, 1, n)]
            /\ held' = [held EXCEPT ![l][d] = IF l \in shape.tls THEN rest ELSE <<>>]
            /\ wire' = [wire EXCEPT ![l][d] = IF l \in shape.tls \/ rest = <<>> THEN Tail(@) ELSE <<rest>> \o Tail(@)]

AtHandle(h, d) == pc[h] = "handle" /\ todo[h] # <<>> /\ Head(todo[h]) = d
\* From the client, or from the target.  Both wait for something to read.
recv(h, d) ==
    /\ AtHandle(h, d)
    /\ read(h, d)
    /\ Goto(h, d)
    /\ UNCHANGED <<shape, open, shut, ends, todo>>
\* Mutant: the end of the stream is looked for before what is left of it.
endOfStreamFirst(h, d) == AtHandle(h, d) /\ Ended(Upstream(h, d), d) /\ close(h)
endOfStream(h, d) ==
    /\ AtHandle(h, d)
    /\ held[Upstream(h, d)][d] = <<>> /\ wire[Upstream(h, d)][d] = <<>> /\ Ended(Upstream(h, d), d)
    /\ close(h)

\* Mutant: the brigade is not cleaned up.
HandledDirty(h) ==
    /\ todo' = [todo EXCEPT ![h] = Tail(@)]
    /\ Goto(h, IF Len(todo[h]) = 1 THEN "poll" ELSE "handle")
    /\ UNCHANGED <<shape, open, held, shut, ends, data>>
\* Back to the loop, once what was read is sent.
Handled(h) ==
    /\ todo' = [todo EXCEPT ![h] = Tail(@)]
    /\ Goto(h, IF Len(todo[h]) = 1 THEN "poll" ELSE "handle")
    /\ data' = [data EXCEPT ![h] = <<>>]
    /\ UNCHANGED <<shape, open, held, shut, ends>>
Sending(h, d) == pc[h] = d /\ todo[h] # <<>> /\ Other(Writer(d)) \notin shut[Downstream(h, d)]
Fits(h, d) == Len(data[h]) <= Room(Downstream(h, d), d)

\* Mutant: what was sent is not compared with what there was to send.
sendWhatFits(h) ==
    /\ Sending(h, "down")
    /\ Room(h, "down") > 0
    /\ Written(h, "down", SubSeq(data[h], 1, IF Fits(h, "down") THEN Len(data[h]) ELSE Room(h, "down")))
    /\ Handled(h)
\* To the target.  A session that is not ready is waited for.
send(h) ==
    /\ Sending(h, "down")
    /\ Fits(h, "down")
    /\ Written(h, "down", data[h])
    /\ Handled(h)
\* A short write is taken for an error: the part is written, and nothing of the poll is handled after it.
sendShort(h) ==
    /\ Sending(h, "down")
    /\ ~Fits(h, "down") /\ Room(h, "down") > 0 /\ h \notin shape.tls
    /\ Written(h, "down", SubSeq(data[h], 1, Room(h, "down")))
    /\ data' = [data EXCEPT ![h] = SubSeq(@, Room(h, "down") + 1, Len(@))]
    /\ todo' = [todo EXCEPT ![h] = <<>>]
    /\ UNCHANGED <<shape, open, held, shut, ends, pc>>
sentShort(h) == pc[h] = "down" /\ todo[h] = <<>> /\ abort(h)

\* To the client, as much at a time as there is room for.
sendToClient(h) ==
    LET room == Room(h - 1, "up")
    IN /\ Sending(h, "up")
       /\ room > 0
       /\ Written(h - 1, "up", SubSeq(data[h], 1, IF Fits(h, "up") THEN Len(data[h]) ELSE room))
       /\ IF Fits(h, "up") THEN Handled(h)
          ELSE /\ data' = [data EXCEPT ![h] = SubSeq(@, room + 1, Len(@))]
               /\ UNCHANGED <<shape, open, held, shut, ends, pc, todo>>

\* Nobody reads what is sent: the write fails, or only a later call does.
sendFails(h, d) == pc[h] = d /\ Other(Writer(d)) \in shut[Downstream(h, d)] /\ abort(h)
sendInVain(h, d) ==
    LET l == Downstream(h, d)
    IN /\ pc[h] = d /\ todo[h] # <<>> /\ Other(Writer(d)) \in shut[l]
       /\ wire' = [wire EXCEPT ![l][Opposite(d)] = <<>>]
       /\ Handled(h)

\* Mutant: only the client is polled.
PollClient(h, d) == d = "down" /\ (wire[h - 1][d] # <<>> \/ Ended(h - 1, d))
Ready(h, d) == wire[Upstream(h, d)][d] # <<>> \/ Ended(Upstream(h, d), d)
poll(h) ==
    /\ pc[h] = "poll"
    /\ \E order \in {<<"down">>, <<"up">>, <<"down", "up">>, <<"up", "down">>} :
          /\ ToSet(order) = {d \in Direction : Ready(h, d)}
          /\ todo' = [todo EXCEPT ![h] = order]
    /\ Goto(h, "handle")
    /\ UNCHANGED <<shape, open, wire, held, shut, ends, data>>

\* The preamble is not sent, nothing is received, or the poll reports an error or fails.
callFails(h) == pc[h] \in {"preamble", "handle", "poll"} /\ abort(h)

-----------------------------------------------------------------------------
(* The client and the target *)

Connected(end) == LinkOf(end) \in open /\ SideOf(end) \notin shut[LinkOf(end)]

EndSends(end) ==
    LET d == Sends(end)  l == LinkOf(end)
    IN /\ Connected(end) /\ Other(SideOf(end)) \notin shut[l]
       /\ \E n \in 1..RecordSize :
             /\ sent[d] + n <= shape.bytes /\ n <= Room(l, d)
             /\ Written(l, d, [i \in 1..n |-> sent[d] + i])
             /\ sent' = [sent EXCEPT ![d] = @ + n]
       /\ UNCHANGED <<shape, open, held, shut, got, pc, todo, data>>

EndReceives(end) ==
    LET d == Opposite(Sends(end))  l == LinkOf(end)
    IN /\ Connected(end)
       /\ wire[l][d] # <<>>
       /\ got' = [got EXCEPT ![d] = @ \o Head(wire[l][d])]
       /\ wire' = [wire EXCEPT ![l][d] = Tail(@)]
       /\ UNCHANGED <<shape, open, held, shut, sent, pc, todo, data>>

EndCloses(end) ==
    /\ Connected(end)
    /\ Closed({<<LinkOf(end), SideOf(end)>>})
    /\ UNCHANGED <<shape, open, held, ends, pc, todo, data>>
\* It closes when it sees the other side has.
EndLeaves(end) ==
    /\ Other(SideOf(end)) \in shut[LinkOf(end)] /\ wire[LinkOf(end)][Opposite(Sends(end))] = <<>>
    /\ EndCloses(end)

-----------------------------------------------------------------------------

HopGoesOn(h) ==
    \/ handler(h) \/ handlerNotAsked(h) \/ connect(h) \/ connectFails(h) \/ sendPreamble(h) \/ poll(h)
    \/ \E d \in Direction : recv(h, d) \/ endOfStream(h, d) \/ sendFails(h, d) \/ sendInVain(h, d)
    \/ send(h) \/ sendShort(h) \/ sentShort(h) \/ sendToClient(h)
HopStep(h) == HopGoesOn(h) \/ callFails(h)

Finished == pc[1] # "idle" /\ \A h \in Hop : pc[h] \in {"idle", "closed", "aborted", "declined"}
Stopped == Finished /\ UNCHANGED vars

Next ==
    \/ processConnection
    \/ \E h \in Hop : HopStep(h)
    \/ \E end \in End : EndSends(end) \/ EndReceives(end) \/ EndCloses(end)
    \/ Stopped

Spec == Init /\ [][Next]_vars

\* The servers go on, and the ends read what they get and leave a connection
\* that ended.  Nobody has to send anything, or to close, and a server that waits
\* for something to read does not have to fail.
Fairness ==
    /\ \A h \in UNION {1..s.hops : s \in Shapes} : WF_vars(h \in Hop /\ HopGoesOn(h))
    /\ \A end \in End : WF_vars(EndReceives(end)) /\ WF_vars(EndLeaves(end))

FairSpec == Spec /\ Fairness

-----------------------------------------------------------------------------
(* Properties *)

Failed == \E h \in Hop : pc[h] \in {"aborted", "declined"}
Complete(d) == Len(got[d]) = sent[d]

\* The bytes 1, 2, and so on that an end sent, from one after a to b.
Bytes(a, b) == [i \in 1..(b - a) |-> a + i]

\* What a link holds of a direction; a preamble, which is its first record, is no part of it.
Payload(records) == IF records # <<>> /\ Head(records) = <<Preamble>> THEN Tail(records) ELSE records
Stream(l, d) == held[l][d] \o FlattenSeq(Payload(wire[l][d]))
\* What a hop read and has not sent on.
InHand(h, d) == IF pc[h] = d THEN data[h] ELSE <<>>

\* What was sent and not received, the oldest byte first: from the link of the
\* end that receives to that of the end that sends, with what a hop has in hand.
InFlight(d) ==
    FlattenSeq([i \in 1..(shape.hops + 1) |->
        LET l == IF d = "down" THEN shape.hops + 1 - i ELSE i - 1
            h == IF d = "down" THEN l ELSE l + 1
        IN Stream(l, d) \o (IF h \in Hop THEN InHand(h, d) ELSE <<>>)])

\* While nobody closed, every byte that was sent is received or on its way, once
\* and in its order: the relay of mod-ssltunnel.cpp neither drops, repeats nor
\* swaps bytes, also where a send waits, a record is larger than what is read of
\* it, or the window is full.
Intact ==
    (\A l \in Link : shut[l] = {}) =>
        \A d \in Direction : got[d] \o InFlight(d) = Bytes(0, sent[d])

\* However a tunnel ends, each end received a prefix of what the other sent, and
\* nothing of how the servers talk to each other; unless the second server
\* declined the tunnel, and its error page is taken for the target's answer.
InOrder ==
    \A d \in Direction :
        \/ IsPrefix(got[d], Bytes(0, sent[d]))
        \/ \E h \in Hop : pc[h] = "declined"

\* An end that closes after it received everything has the last word: the other
\* one receives all of it before it sees the end of the stream, unless a hop
\* gave up.  (tunnel sends what it read before it reads the end of the stream.)
LastWordsArrive ==
    \A end \in End :
        LET d == Opposite(Sends(end))  l == LinkOf(end)
        IN Connected(end) /\ Other(SideOf(end)) \in shut[l] /\ wire[l][d] = <<>> /\ Complete(Opposite(d)) /\ ~Failed
               => Complete(d)

\* The two streams: whole while the tunnel is up, in order however it ends, and
\* with their last words when it ends well.
StreamsKept == TypeOK /\ Intact /\ InOrder /\ LastWordsArrive

\* When an end closes, every hop closes both of its sides: a tunnel leaves no
\* thread and no connection behind.  A target that closes is noticed once the
\* client has sent something: until then tunnel only reads from the client.
EndsTogether ==
    /\ ("near" \in shut[0]) ~> Finished
    /\ (shape.hops \in open /\ "far" \in shut[shape.hops] /\ sent["down"] > 0) ~> Finished
    /\ Finished ~> \A l \in open : shut[l] = Side

\* The end of the stream, or a hop that gave up.
Over == Failed \/ \E l \in Link : shut[l] # {}

\* After the client has sent something, what either end sends reaches the other,
\* as long as nobody closes and no hop gives up; but for the rest of a TLS record
\* that is larger than a read: no poll reports it, and it waits until more arrives.
Waits(d) == \E l \in Link : held[l][d] # <<>>
Relayed == \A d \in Direction : (sent["down"] > 0) ~> (Complete(d) \/ Over \/ []Waits(d))

-----------------------------------------------------------------------------
(* The inductive invariant behind StreamsKept *)

Early == {"idle", "request", "connect"}
Dead == {"closed", "aborted", "declined"}
Declined == \E h \in Hop : pc[h] = "declined"

Typed ==
    /\ wire \in [Link -> [Direction -> Seq(Seq(Int))]]
    /\ held \in [Link -> [Direction -> Seq(Int)]]
    /\ shut \in [Link -> SUBSET Side]
    /\ got \in [Direction -> Seq(Int)]
    /\ data \in [Hop -> Seq(Int)]

\* Records, and what is read of one, have a byte at least and as many as a record may have.
RecordsFit ==
    /\ \A l \in Link, d \in Direction : \A i \in DOMAIN wire[l][d] : Len(wire[l][d][i]) \in 1..RecordSize
    /\ \A h \in Hop : Len(data[h]) <= RecordSize

\* The servers come one after the other: a hop has its link to the next when it is past connect, and the next
\* one is idle until then.  A hop that gave up before that has no such link.  What ended has closed its sides.
Connections ==
    /\ open \subseteq Link /\ pc[1] # "request"
    /\ 0 \in open <=> pc[1] # "idle"
    /\ \A h \in Hop : /\ h \in open => pc[h] \notin Early
                      /\ h \notin open => pc[h] \in Early \cup Dead
                      /\ pc[h] = "preamble" => h < shape.hops /\ pc[h + 1] = "request"
                      /\ pc[h] = "declined" => h \notin open
    /\ \A h, k \in Hop : h < k => (pc[k] # "idle" <=> k - 1 \in open) /\ (pc[k] # "idle" => h \in open)
    /\ \A h \in Hop : /\ "far" \in shut[h - 1] <=> pc[h] \in Dead
                      /\ "near" \in shut[h] <=> pc[h] \in Dead /\ h \in open
    /\ \A l \in Link \ open : shut[l] = {}

\* Nothing is on a link that is not connected, nor from a hop that is not past connect, nor to the next server
\* before the preamble.  That one has the preamble to read first, unless the hop before it gave up.
Preambles ==
    /\ \A l \in Link, d \in Direction : l \notin open => wire[l][d] = <<>>
    /\ \A h \in Hop : /\ pc[h] \in Early \cup {"preamble"} => wire[h - 1]["up"] = <<>> /\ held[h - 1]["down"] = <<>>
                      /\ pc[h] = "preamble" => wire[h]["down"] = <<>>
                      /\ pc[h] = "request" /\ wire[h - 1]["down"] # <<>> => Head(wire[h - 1]["down"]) = <<Preamble>>
                      /\ pc[h] = "request" /\ wire[h - 1]["down"] = <<>> => pc[h - 1] \in Dead \cup {"preamble"}
    /\ \A l \in Link : held[l]["down"] # <<>> => l < shape.hops
    /\ \A l \in Link : held[l]["up"] # <<>> => l > 0
\* No other link starts with a preamble, while no hop declined.
Asked ==
    \A l \in Link, d \in Direction :
        d = "up" \/ l + 1 \notin Hop \/ pc[l + 1] # "request" => Payload(wire[l][d]) = wire[l][d]

\* The link a direction starts on, and that it ends on; the link before one that is not its first, and the hop
\* between them; the links it comes to earlier.
First(d) == IF d = "down" THEN 0 ELSE shape.hops
Final(d) == IF d = "down" THEN shape.hops ELSE 0
Previous(l, d) == IF d = "down" THEN l - 1 ELSE l + 1
WriterHop(l, d) == IF d = "down" THEN l ELSE l + 1
Before(k, l, d) == IF d = "down" THEN k < l ELSE l < k

\* How many bytes were offered to a link, when taken[l][d] were read from each, and what the hop has in hand.
Supply(taken, l, d) == IF l = First(d) THEN sent[d] ELSE taken[Previous(l, d)][d]
Behind(l, d) == IF l = First(d) THEN <<>> ELSE InHand(WriterHop(l, d), d)
Put(taken, l, d) == taken[l][d] + Len(Stream(l, d))

\* Each link has the bytes after those that were taken from it, and no more than were offered.  While nobody
\* closed it, these and those in hand are all of them.
Cut(taken, l, d) ==
    /\ Stream(l, d) = Bytes(taken[l][d], Put(taken, l, d))
    /\ Put(taken, l, d) + Len(Behind(l, d)) <= Supply(taken, l, d)
    /\ shut[l] = {} => Stream(l, d) \o Behind(l, d) = Bytes(taken[l][d], Supply(taken, l, d))
Relays(taken) ==
    /\ \A l \in Link, d \in Direction : Cut(taken, l, d)
    /\ \A k, l \in Link, d \in Direction : Before(k, l, d) => taken[l][d] <= taken[k][d]
    /\ \A l \in Link, d \in Direction : taken[l][d] <= sent[d]
    /\ \A d \in Direction : got[d] = Bytes(0, taken[Final(d)][d])

\* Bytes that were offered to a link that nobody reads.
Stuck(taken, d) == \E l \in Link : Reader(d) \in shut[l] /\ taken[l][d] < Supply(taken, l, d)

\* While an end stays and no hop gives up, the hops end one after the other towards it, after the other end.
OtherEnd(end) == IF end = "client" THEN "target" ELSE "client"
Wave(end) ==
    \A h \in Hop : pc[h] = "closed" =>
        /\ SideOf(OtherEnd(end)) \in shut[LinkOf(OtherEnd(end))]
        /\ \A k \in Hop : (IF end = "client" THEN h < k ELSE k < h) => pc[k] = "closed"
\* A hop that ends has sent all that there was: unless the end's own bytes got stuck, no link lost any.
NothingLost(taken, d) ==
    \A l \in Link : /\ Put(taken, l, d) + Len(Behind(l, d)) = Supply(taken, l, d)
                    /\ l # First(d) /\ pc[WriterHop(l, d)] = "closed" => Put(taken, l, d) = sent[d]
LastWords(taken) ==
    \A end \in End :
        ~Failed /\ SideOf(end) \notin shut[LinkOf(end)] =>
            Wave(end) /\ (Stuck(taken, Sends(end)) \/ NothingLost(taken, Opposite(Sends(end))))

TunnelInv ==
    /\ TypeOK /\ Typed /\ RecordsFit /\ Connections /\ Preambles
    /\ \/ Declined
       \/ Asked /\ \E taken \in [Link -> [Direction -> 0..shape.bytes]] : Relays(taken) /\ LastWords(taken)
=============================================================================
