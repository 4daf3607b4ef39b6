------------------------------ MODULE Listener ------------------------------
(***************************************************************************)
(* The components that listen in a thread of a worker, and the ones that   *)
(* only post: components/queue (queue-listener, queue-sender, qpid.hpp)    *)
(* and components/chat (chat-sendreceiver, chat-sender, chat-sender2,      *)
(* xmpp.hpp).                                                              *)
(*                                                                         *)
(* Start connects, submits one endless job to a worker and returns; the    *)
(* job gives every message that comes in to the relay reference of the     *)
(* component.  Stop ends the subscription and cancels the threads of the   *)
(* worker, so the steps of the worker are the steps of module Worker.      *)
(*                                                                         *)
(* The broker and the chat server are external: a broker keeps a message   *)
(* until its listener returned, and gives it out again when the session    *)
(* that held it ends; a chat server forgets what it delivered.  Messages   *)
(* come in the order of Message.                                           *)
(***************************************************************************)
EXTENDS Worker

CONSTANTS Listen,     \* the subscription, the one job of such a component
          Kinds,      \* what runs: "pool" is the worker alone
          MaxMessage, \* how many messages may come in
          Noise,      \* the ones that are errors or have no body
          MaxPieces   \* how many writes a stanza may take

ASSUME ListenerAssumption ==
    /\ Listen \in Endless
    /\ Kinds \subseteq {"pool", "queue", "sendreceiver", "sender", "sender2",
                        "queuesender"}
    /\ MaxMessage \in Nat /\ MaxPieces \in Nat \ {0}
    /\ Noise \subseteq 1..MaxMessage

VARIABLES kind,      \* the component that runs
          up,        \* where its start, post or stop function is
          conn,      \* the connection and its session
          declared,  \* whether the queue exists
          loop,      \* the loop of the subscription, or ctx->loop_status
          listening, \* whether XMPPClient::listener is set
          box,       \* the messages that wait at the broker or in the socket
          sent,      \* how many messages have come in
          held,      \* the message the listening thread has
          relayed,   \* the messages given to the relay, in order
          left,      \* how many pieces of a stanza are not written yet
          answer     \* what the last post returned

compVars == <<kind, up, conn, declared, loop, listening, box, sent, held,
              relayed, left, answer>>
allVars == <<vars, compVars>>

NoMessage == 0
Idle == [msg |-> NoMessage, at |-> "none"]
Chats == {"sendreceiver", "sender"}
Listeners == Chats \cup {"queue"}

Type == [kind      : Kinds,
         up        : {"down", "open", "start", "submitted", "up", "post",
                      "session", "close", "cancel", "failed"},
         conn      : {"none", "open", "lost", "closed"},
         declared  : BOOLEAN,
         loop      : {"idle", "running", "quit"},
         listening : BOOLEAN,
         box       : Seq(1..MaxMessage),
         sent      : 0..MaxMessage,
         held      : [msg : 0..MaxMessage,
                      at  : {"none", "received", "relayed", "refused"}],
         relayed   : Seq(1..MaxMessage),
         left      : 0..MaxPieces,
         answer    : {"none", "posted", "failure"}]

ListenerInit ==
    /\ Init
    /\ kind \in Kinds
    /\ up = "down"
    /\ conn = "none"
    /\ declared = FALSE
    /\ loop = "idle"
    /\ listening = FALSE
    /\ box = << >>
    /\ sent = 0
    /\ held = Idle
    /\ relayed = << >>
    /\ left = 0
    /\ answer = "none"

Go(from, to) == up = from /\ up' = to

-----------------------------------------------------------------------------
(* Connecting *)

\* QpidConnection::QpidConnection: open throws when there is no broker, and
\* neither start nor post catches it.
openBroker ==
    /\ kind \in {"queue", "queuesender"}
    /\ \/ conn' = "open" /\ Go("down", "open")
       \/ Go("down", "failed") /\ UNCHANGED conn
    /\ UNCHANGED <<vars, kind, declared, loop, listening, box, sent, held,
                   relayed, left, answer>>

\* The loop of connect runs until connHandler has heard of the connection.
connect ==
    /\ kind \in Chats \cup {"sender2"}
    /\ \/ conn' = "open" /\ Go("down", "open")
       \/ Go("down", "failed") /\ UNCHANGED conn
    /\ UNCHANGED <<vars, kind, declared, loop, listening, box, sent, held,
                   relayed, left, answer>>

\* declareQueue returns a failure when the broker refuses the queue; start
\* does not look at it.
declareQueue ==
    /\ kind = "queue"
    /\ Go("open", "start")
    /\ declared' \in BOOLEAN
    /\ UNCHANGED <<vars, kind, conn, loop, listening, box, sent, held, relayed,
                   left, answer>>

-----------------------------------------------------------------------------
(* start of the components that listen *)

\* submit(w, subscribe).
startListener ==
    /\ \/ kind = "queue" /\ Go("start", "submitted")
       \/ kind \in Chats /\ Go("open", "submitted")
    /\ SubmitCall(Owner, Listen)
    /\ UNCHANGED <<kind, conn, declared, loop, listening, box, sent, held,
                   relayed, left, answer>>

\* submit returns, and start returns the function of the component.
startReturn ==
    /\ kind \in Listeners
    /\ Go("submitted", "up")
    /\ SubmitReturn(Owner)
    /\ UNCHANGED <<kind, conn, declared, loop, listening, box, sent, held,
                   relayed, left, answer>>

\* The threads of the worker take the subscription, or wait.
takeSubscription(w) ==
    /\ kind \in Listeners
    /\ DequeueWork(w)
    /\ UNCHANGED compVars

-----------------------------------------------------------------------------
(* listen, of qpid.hpp and of xmpp.hpp, in a thread of the worker *)

Listens(w) == pc[w] = "run" /\ got[w] = Listen

\* subs.subscribe, then subs.run, which throw when there is no such queue or
\* the session is closed.
listenQueue(w) ==
    /\ kind = "queue" /\ got[w] = Listen
    /\ CallJob(w)
    /\ loop' = IF declared /\ conn = "open" /\ loop = "idle"
               THEN "running" ELSE "quit"
    /\ UNCHANGED <<kind, up, conn, declared, listening, box, sent, held,
                   relayed, left, answer>>

\* The loop is set to run whatever it was.
listenChat(w) ==
    /\ kind \in Chats /\ got[w] = Listen
    /\ CallJob(w)
    /\ loop' = "running"
    /\ listening' = TRUE
    /\ UNCHANGED <<kind, up, conn, declared, box, sent, held, relayed, left,
                   answer>>

\* The condition of the loop.  The job has a copy of the client, which stays
\* connected: connHandler writes to the client that start had.
Loops == loop = "running" /\ (kind \in Chats => listening)

\* submitFunc sets the future of the subscription, which nobody reads.
listenReturn(w) ==
    /\ Listens(w)
    /\ ~Loops
    /\ held = Idle
    /\ FinishJob(w)
    /\ UNCHANGED compVars

\* Listener::received gets the next message of the queue.
received(w) ==
    /\ kind = "queue" /\ Listens(w) /\ Loops /\ conn = "open"
    /\ held = Idle
    /\ box # << >>
    /\ held' = [msg |-> Head(box), at |-> "received"]
    /\ box' = Tail(box)
    /\ UNCHANGED <<vars, kind, up, conn, declared, loop, listening, sent,
                   relayed, left, answer>>

\* messageHandler gets the next message, and ignores noise.
messageHandler(w) ==
    /\ kind \in Chats /\ Listens(w) /\ Loops /\ conn = "open"
    /\ held = Idle
    /\ box # << >>
    /\ held' = IF Head(box) \in Noise THEN Idle
               ELSE [msg |-> Head(box), at |-> "received"]
    /\ box' = Tail(box)
    /\ UNCHANGED <<vars, kind, up, conn, declared, loop, listening, sent,
                   relayed, left, answer>>

\* Mutant: the listener function tells whether the relay worked.
rlResult(res) == res # "failure"

\* What the listener function rl returns for what the relay reference did.
rl(res) == TRUE

\* Mutant: the listener tries again when the relay failed.
relayAgain(w) ==
    /\ Listens(w)
    /\ held.at = "received"
    /\ relayed' = Append(relayed, held.msg)
    /\ held' \in {held, [held EXCEPT !.at = "relayed"]}
    /\ Len(relayed) < MaxMessage
    /\ UNCHANGED <<vars, kind, up, conn, declared, loop, listening, box, sent,
                   left, answer>>

\* rl posts the message to the relay reference.  The one of the chat sender
\* does nothing with it.
relay(w) ==
    /\ Listens(w)
    /\ held.at = "received"
    /\ relayed' = IF kind = "sender" THEN relayed
                  ELSE Append(relayed, held.msg)
    /\ \E res \in {"result", "failure"} :
          held' = [held EXCEPT !.at = IF rl(res) THEN "relayed" ELSE "refused"]
    /\ UNCHANGED <<vars, kind, up, conn, declared, loop, listening, box, sent,
                   left, answer>>

\* Mutant: a message is acknowledged when it is received.
handledEarly(w) ==
    /\ Listens(w)
    /\ held.at # "none"
    /\ held' = Idle
    /\ UNCHANGED <<vars, kind, up, conn, declared, loop, listening, box, sent,
                   relayed, left, answer>>

\* The handler returns: the message is acknowledged; one that was refused
\* ends the subscription or clears the listener.
handled(w) ==
    /\ Listens(w)
    /\ held.at \in {"relayed", "refused"}
    /\ held' = Idle
    /\ IF held.at = "refused"
       THEN /\ loop' = IF kind = "queue" THEN "quit" ELSE loop
            /\ listening' = FALSE
       ELSE UNCHANGED <<loop, listening>>
    /\ UNCHANGED <<vars, kind, up, conn, declared, box, sent, relayed, left,
                   answer>>

\* connHandler tells the loop to quit.  Once start has returned the client it
\* is given is a dead frame of the stack, and its context may be anything.
connHandler(w) ==
    /\ kind \in Chats /\ Listens(w) /\ Loops
    /\ held = Idle
    /\ conn = "lost"
    /\ conn' = "closed"
    /\ loop' \in {"quit"} \cup (IF up = "submitted" THEN {} ELSE {"running"})
    /\ UNCHANGED <<vars, kind, up, declared, listening, box, sent, held,
                   relayed, left, answer>>

-----------------------------------------------------------------------------
(* The broker, the server and the network *)

Arrive ==
    /\ sent < MaxMessage
    /\ kind = "queue" => declared
    /\ kind \in Listeners /\ conn = "open"
    /\ sent' = sent + 1
    /\ box' = Append(box, sent + 1)
    /\ UNCHANGED <<vars, kind, up, conn, declared, loop, listening, held,
                   relayed, left, answer>>

\* What a session that ends had not acknowledged waits again.
Requeued == IF kind = "queue" /\ held.at \in {"received", "relayed", "refused"}
            THEN <<held.msg>> \o box ELSE box

\* The connection breaks.  The loop of a queue throws; a chat server drops
\* what it delivered.
ConnectionLost ==
    /\ conn = "open"
    /\ conn' = "lost"
    /\ IF kind = "queue"
       THEN /\ loop' = IF loop = "running" THEN "quit" ELSE loop
            /\ box' = Requeued
       ELSE /\ box' = << >>
            /\ UNCHANGED loop
    /\ UNCHANGED <<vars, kind, up, declared, listening, sent, held, relayed,
                   left, answer>>

-----------------------------------------------------------------------------
(* post *)

\* QpidSession and post of queue-sender: the message is transferred or the
\* failure is returned, and the destructors close the connection.
postQueue ==
    /\ kind = "queuesender"
    /\ Go("open", "down")
    /\ conn' = "none"
    /\ answer' \in {"failure"} \cup (IF conn = "open" THEN {"posted"} ELSE {})
    /\ UNCHANGED <<vars, kind, declared, loop, listening, box, sent, held,
                   relayed, left>>

\* post of the chat components: the stanza is written in pieces.
postStanza ==
    /\ \/ kind \in Chats /\ Go("up", "post") /\ pc[Owner] = "idle"
       \/ kind = "sender2" /\ Go("open", "post")
    /\ left' \in 1..MaxPieces
    /\ answer' = "none"
    /\ UNCHANGED <<vars, kind, conn, declared, loop, listening, box, sent,
                   held, relayed>>

\* Mutant: send takes a short write for a whole one.
sendOnce ==
    \/ left > 0 /\ left' = left - 1 /\ answer' = "posted"
    \/ left > 0 /\ answer' = "failure" /\ UNCHANGED left

\* Mutant: send goes on when nothing is left.
sendPast ==
    \/ left >= 0 /\ left' = left - 1 /\ UNCHANGED answer
    \/ left = 1 /\ left' = 0 /\ answer' = "posted"

\* send calls itself with what a write did not take.
send ==
    \/ left > 1 /\ left' = left - 1 /\ UNCHANGED answer
    \/ left = 1 /\ left' = 0 /\ answer' = "posted"
    \/ left > 0 /\ answer' = "failure" /\ UNCHANGED left

sendPiece ==
    /\ up = "post" /\ answer = "none"
    /\ send
    /\ conn # "open" => answer' # "posted"
    /\ UNCHANGED <<vars, kind, up, conn, declared, loop, listening, box, sent,
                   held, relayed>>

\* post returns; the client of chat-sender2 disconnects as it goes.
postReturn ==
    /\ up = "post" /\ answer # "none"
    /\ IF kind = "sender2" THEN up' = "down" /\ conn' = "none"
       ELSE up' = "up" /\ UNCHANGED conn
    /\ left' = 0
    /\ UNCHANGED <<vars, kind, declared, loop, listening, box, sent, held,
                   relayed, answer>>

-----------------------------------------------------------------------------
(* stop *)

\* stop(qsub), whose failure nobody looks at.  It may also never return.
stopSubscription ==
    /\ kind = "queue"
    /\ Go("up", "session")
    /\ loop' \in {"quit"} \cup (IF conn = "lost" THEN {loop} ELSE {})
    /\ UNCHANGED <<vars, kind, conn, declared, listening, box, sent, held,
                   relayed, left, answer>>

\* close(qs): the broker takes back what was not acknowledged.
closeSession ==
    /\ kind = "queue"
    /\ Go("session", "close")
    /\ conn' = "closed"
    /\ box' = IF conn = "open" THEN Requeued ELSE box
    /\ UNCHANGED <<vars, kind, declared, loop, listening, sent, held, relayed,
                   left, answer>>

\* disconnect writes the end of the stream, and the server closes.
disconnect ==
    /\ kind \in Chats
    /\ Go("up", "close")
    /\ conn' \in IF conn = "open" THEN {"open", "lost"} ELSE {conn}
    /\ UNCHANGED <<vars, kind, declared, loop, listening, box, sent, held,
                   relayed, left, answer>>

\* Mutant: stop leaves the threads of the worker alone.
stopNoCancel ==
    /\ kind \in Listeners
    /\ Go("close", "cancel")
    /\ Move(Owner, "idle", "stopped")
    /\ UNCHANGED <<queueVars, fut, runs, submitted, want, toStop, early,
                   cancelled>>
    /\ UNCHANGED <<kind, conn, declared, loop, listening, box, sent, held,
                   relayed, left, answer>>

\* close(qc) and cancel(w).
stopWorker ==
    /\ kind \in Listeners
    /\ Go("close", "cancel")
    /\ CancelCall
    /\ UNCHANGED <<kind, conn, declared, loop, listening, box, sent, held,
                   relayed, left, answer>>

\* Closing a connection that broke throws out of stop.
closeThrows ==
    /\ kind = "queue" /\ conn = "closed"
    /\ Go("close", "failed")
    /\ UNCHANGED <<vars, kind, conn, declared, loop, listening, box, sent,
                   held, relayed, left, answer>>

cancelWorker ==
    /\ up = "cancel"
    /\ CancelThread \/ CancelReturn
    /\ UNCHANGED compVars

dies(w) == kind \in Listeners /\ Die(w) /\ UNCHANGED compVars

-----------------------------------------------------------------------------

ListeningStep(w) ==
    \/ takeSubscription(w)
    \/ listenQueue(w) \/ listenChat(w) \/ listenReturn(w)
    \/ received(w) \/ messageHandler(w) \/ relay(w) \/ handled(w)
    \/ connHandler(w)

OwnerCalls ==
    \/ openBroker \/ connect \/ declareQueue \/ startListener \/ startReturn
    \/ postQueue \/ sendPiece \/ postReturn
    \/ closeSession \/ stopWorker \/ cancelWorker

Rests ==
    /\ up = "failed" \/ (up = "cancel" /\ pc[Owner] = "stopped")
    /\ UNCHANGED allVars

ListenerNext ==
    \/ kind = "pool" /\ Next /\ UNCHANGED compVars
    \/ OwnerCalls \/ postStanza \/ stopSubscription \/ disconnect
    \/ closeThrows
    \/ \E w \in WorkerThread : ListeningStep(w) \/ dies(w)
    \/ Arrive \/ ConnectionLost
    \/ Rests

\* Threads that can run run, a relay answers and a cancelled thread dies;
\* nobody has to post or to stop the component.
ListenerSpec ==
    /\ ListenerInit
    /\ [][ListenerNext]_allVars
    /\ \A c \in Client :
          /\ SF_allVars(kind = "pool" /\ SubmitReturn(c) /\ UNCHANGED compVars)
          /\ WF_allVars(kind = "pool" /\ GetReturn(c) /\ UNCHANGED compVars)
    /\ \A w \in WorkerThread :
          /\ WF_allVars(kind = "pool" /\ WorkerStep(w) /\ UNCHANGED compVars)
          /\ WF_allVars(ListeningStep(w))
          /\ WF_allVars(dies(w))
    /\ SF_allVars(kind = "pool" /\ OwnerStep /\ UNCHANGED compVars)
    /\ WF_allVars(OwnerCalls)

-----------------------------------------------------------------------------
(* Properties *)

\* The state of the component stays within its type.
ListenerTypeOK ==
    [kind |-> kind, up |-> up, conn |-> conn, declared |-> declared,
     loop |-> loop, listening |-> listening, box |-> box, sent |-> sent,
     held |-> held, relayed |-> relayed, left |-> left,
     answer |-> answer] \in Type

\* The queue gives every message to the relay or keeps it: whatever breaks,
\* stops or is cancelled, a message that came in waits at the broker, is with
\* the listening thread, or was given to the relay.
NothingSkipped ==
    kind = "queue" =>
        \A m \in 1..sent : \/ m \in {box[i] : i \in 1..Len(box)}
                           \/ held.msg = m
                           \/ m \in {relayed[i] : i \in 1..Len(relayed)}

\* A component gives the relay each message at most once, in the order the
\* messages came in, although three threads serve its worker.
RelaysInOrder ==
    \A i, k \in 1..Len(relayed) : i < k => relayed[i] < relayed[k]

\* A post that succeeds has written the whole stanza, however many writes it
\* took.
PostsAreWhole == kind # "queuesender" /\ answer = "posted" => left = 0

\* What comes in is relayed once and in order or kept by the broker, and what
\* goes out goes out whole, whatever breaks, stops or is cancelled.
RelaysKept ==
    TypeOK /\ ListenerTypeOK /\ NothingSkipped /\ RelaysInOrder /\ PostsAreWhole

\* Once stop has returned, the thread that listens ends, also when the loop
\* never heard that the connection closed.
ListeningEnds ==
    (up = "cancel" /\ pc[Owner] = "stopped")
        ~> (\A w \in WorkerThread : ~Listens(w))

\* While the component is up and connected, every message that comes in is
\* given to the relay, whatever the relay answered before.
MessagesAreRelayed ==
    \A m \in 1..MaxMessage \ Noise :
        (kind \in {"queue", "sendreceiver"} /\ sent >= m)
            ~> \/ m \in {relayed[i] : i \in 1..Len(relayed)}
               \/ conn # "open"
               \/ up \notin {"submitted", "up", "post"}

-----------------------------------------------------------------------------
(* The inductive invariant behind RelaysKept *)

\* A component holds a message, or none.
HeldIsMessage == held.at = "none" <=> held.msg = NoMessage

\* Only a component that listens gets messages, and only while it is up.
NoStrayMessage ==
    /\ up = "down" => conn = "none"
    /\ up = "down" \/ kind \notin Listeners => box = << >>

\* Messages wait in the order they came in, behind the one that is held and
\* the ones that were relayed.  What a broken session gave back is not
\* received again, so what is held may still be relayed then.
MessagesInOrder ==
    /\ \A i \in 1..Len(box) : box[i] <= sent
    /\ held.msg <= sent
    /\ \A i \in 1..Len(relayed) : relayed[i] <= sent
    /\ held.at = "received" => \A i \in 1..Len(relayed) : relayed[i] < held.msg
    /\ conn = "open" => \A i \in 1..Len(box) :
          /\ \A k \in 1..Len(box) : i < k => box[i] < box[k]
          /\ held.msg < box[i]
          /\ \A k \in 1..Len(relayed) : relayed[k] < box[i]

\* What the relay of a queue answered about was given to it.
AnsweredIsRelayed ==
    kind = "queue" /\ held.at \in {"relayed", "refused"} =>
        \E i \in 1..Len(relayed) : relayed[i] = held.msg

ListenerInv ==
    /\ ListenerTypeOK
    /\ HeldIsMessage
    /\ NoStrayMessage
    /\ MessagesInOrder
    /\ AnsweredIsRelayed
    /\ NothingSkipped
    /\ RelaysInOrder
    /\ PostsAreWhole
=============================================================================
