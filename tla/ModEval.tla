------------------------------ MODULE ModEval ------------------------------
(***************************************************************************)
(* The component server, modules/server/mod-eval.hpp: the life of the      *)
(* components of the main host in the child processes of the HTTP server,  *)
(* and that of the components of a virtual host, which every request to it *)
(* evaluates, starts, calls and stops.                                     *)
(*                                                                         *)
(* A table of implementations maps a component to the lambda that its      *)
(* evaluation made, and later to the one that its start function returned, *)
(* so a table is the set of the components it has a started lambda of.     *)
(* What the lambdas do depends on the kind of the component:               *)
(*   plain    has no start function; its lambda serves calls               *)
(*   service  start returns a lambda that serves calls, and has no stop    *)
(*            function (memcache, constdb, filedb, sqldb, httpget, ...)    *)
(*   managed  start also makes threads, that call another component with   *)
(*            what they receive; the lambda it returns serves calls, and   *)
(*            stop ends the threads (chat-sendreceiver, queue-listener)    *)
(*   broken   could not be evaluated                                       *)
(***************************************************************************)
EXTENDS Naturals, Sequences, FiniteSets

CONSTANTS Child,         \* child processes
          Request,       \* requests in flight at a time
          MainOrder,     \* the components of the main host, in table order
          VirtualOrder,  \* those of the virtual host
          Kinds,         \* the kinds of components considered
          MaxConfigs,    \* bound: the calls to postConfig
          NoChild        \* no process

Main == {MainOrder[i] : i \in DOMAIN MainOrder}
Virtual == {VirtualOrder[i] : i \in DOMAIN VirtualOrder}

ASSUME ModEvalAssumption ==
    /\ MainOrder \in Seq(Main)
    /\ VirtualOrder \in Seq(Virtual)
    /\ \A i, j \in DOMAIN MainOrder : MainOrder[i] = MainOrder[j] => i = j
    /\ \A i, j \in DOMAIN VirtualOrder : VirtualOrder[i] = VirtualOrder[j] => i = j
    /\ Main \cap Virtual = {}
    /\ Kinds \subseteq {"plain", "service", "managed", "broken"}
    /\ MaxConfigs \in Nat
    /\ NoChild \notin Child

VARIABLES kind,     \* kind[c]: the kind of component c
          configs,  \* the calls to postConfig since the server was launched
          server,   \* the parent process
          child,    \* what each child process is doing
          table,    \* table[p]: sc.compos.impls in child process p
          pos,      \* pos[p]: the component its start or stop is at
          made,     \* made[p]: the started lambdas it has collected
          live,     \* live[p]: components started and not stopped, main host
          relayed,  \* relayed[p]: how the last call of such a thread went
          req,      \* what each request is doing
          at,       \* at[r]: the child process that handles it
          vtable,   \* vtable[r]: reqc.impls, virtual host
          vpos, vmade, vlive,  \* the same for its virtual host components
          answer,   \* answer[r]: how the last call of the request went
          leaked,   \* leaked[p]: components that ended requests left running
          vrelayed, \* vrelayed[r]: the last call of a thread of vlive[r]
          strayed   \* strayed[p]: the last call of a thread of leaked[p]

processVars == <<configs, server, child, table, pos, made, live>>
requestVars == <<req, at, vtable, vpos, vmade, vlive, leaked>>
threadVars == <<vrelayed, strayed>>
vars == <<kind, processVars, relayed, requestVars, answer, threadVars>>

Outcome == {"none", "served", "failed", "unsupported", "stale"}

TypeOK ==
    /\ kind \in [Main \cup Virtual -> Kinds]
    /\ configs \in Nat
    /\ server \in {"down", "up"}
    /\ child \in [Child -> {"none", "starting", "up", "stopping"}]
    /\ table \in [Child -> SUBSET Main]
    /\ pos \in [Child -> 1..Len(MainOrder) + 1]
    /\ made \in [Child -> SUBSET Main]
    /\ live \in [Child -> SUBSET Main]
    /\ relayed \in [Child -> Outcome]
    /\ req \in [Request -> {"idle", "main", "vstart", "virtual", "vstop"}]
    /\ at \in [Request -> Child \cup {NoChild}]
    /\ vtable \in [Request -> SUBSET Virtual]
    /\ vpos \in [Request -> 1..Len(VirtualOrder) + 1]
    /\ vmade \in [Request -> SUBSET Virtual]
    /\ vlive \in [Request -> SUBSET Virtual]
    /\ answer \in [Request -> Outcome]
    /\ leaked \in [Child -> SUBSET Virtual]
    /\ vrelayed \in [Request -> Outcome]
    /\ strayed \in [Child -> Outcome]

Init ==
    /\ kind \in [Main \cup Virtual -> Kinds]
    /\ configs = 0
    /\ server = "down"
    /\ child = [p \in Child |-> "none"]
    /\ table = [p \in Child |-> {}]
    /\ pos = [p \in Child |-> 1]
    /\ made = [p \in Child |-> {}]
    /\ live = [p \in Child |-> {}]
    /\ relayed = [p \in Child |-> "none"]
    /\ req = [r \in Request |-> "idle"]
    /\ at = [r \in Request |-> NoChild]
    /\ vtable = [r \in Request |-> {}]
    /\ vpos = [r \in Request |-> 1]
    /\ vmade = [r \in Request |-> {}]
    /\ vlive = [r \in Request |-> {}]
    /\ answer = [r \in Request |-> "none"]
    /\ leaked = [p \in Child |-> {}]
    /\ vrelayed = [r \in Request |-> "none"]
    /\ strayed = [p \in Child |-> "none"]

\* Components with a start function, and those whose started lambda returns a
\* failure when it is called with "stop".
Starts(c) == kind[c] \in {"service", "managed"}
HasNoStop(c) == kind[c] = "service"

\* callImpl, or the call of handleRequest: the lambda that the table has of c,
\* and whether c was stopped.
Call(c, started, running) ==
    CASE kind[c] = "broken" -> "failed"
      [] kind[c] = "plain" -> "served"
      [] Starts(c) /\ c \notin started -> "unsupported"
      [] Starts(c) /\ c \in started \ running -> "stale"
      [] Starts(c) /\ c \in started \cap running -> "served"

Handled(p) == {r \in Request : at[r] = p /\ req[r] # "idle"}

-----------------------------------------------------------------------------
(* The parent process *)

\* httpd calls post config twice before the server is up, and once at every
\* restart.  The first call does nothing, the second starts the server, the
\* others restart it.  A restart first runs serverCleanup in the parent, on
\* components that were never started there.
PostConfig ==
    /\ configs < MaxConfigs
    /\ configs' = configs + 1
    /\ server' = IF configs = 0 THEN "down" ELSE "up"
    /\ UNCHANGED <<kind, child, table, pos, made, live, relayed, requestVars, answer, threadVars>>

-----------------------------------------------------------------------------
(* A child process *)

\* The child has the components as postConfig evaluated them: none started.
ChildInit(p) ==
    /\ server = "up"
    /\ child[p] = "none"
    /\ child' = [child EXCEPT ![p] = "starting"]
    /\ table' = [table EXCEPT ![p] = {}]
    /\ pos' = [pos EXCEPT ![p] = 1]
    /\ made' = [made EXCEPT ![p] = {}]
    /\ relayed' = [relayed EXCEPT ![p] = "none"]
    /\ UNCHANGED <<kind, configs, server, live, requestVars, answer, threadVars>>

\* applyLifecycleExpr of "start" to the next component.
StartNext(p) ==
    LET c == MainOrder[pos[p]] IN
    /\ child[p] = "starting"
    /\ pos[p] <= Len(MainOrder)
    /\ pos' = [pos EXCEPT ![p] = @ + 1]
    /\ made' = [made EXCEPT ![p] = IF Starts(c) THEN @ \cup {c} ELSE @]
    /\ live' = [live EXCEPT ![p] = IF Starts(c) THEN @ \cup {c} ELSE @]
    /\ UNCHANGED <<kind, configs, server, child, table, relayed, requestVars, answer, threadVars>>

\* Mutant: the components that start returned are not kept.
NotPublished(p) ==
    /\ child[p] = "starting"
    /\ pos[p] > Len(MainOrder)
    /\ child' = [child EXCEPT ![p] = "up"]
    /\ relayed' = [relayed EXCEPT ![p] = "none"]
    /\ UNCHANGED <<kind, configs, server, pos, table, made, live, requestVars, answer, threadVars>>

\* All the components have started: only now the table has what they returned.
Started(p) ==
    /\ child[p] = "starting"
    /\ pos[p] > Len(MainOrder)
    /\ child' = [child EXCEPT ![p] = "up"]
    /\ table' = [table EXCEPT ![p] = made[p]]
    /\ relayed' = [relayed EXCEPT ![p] = "none"]
    /\ UNCHANGED <<kind, configs, server, pos, made, live, requestVars, answer, threadVars>>

\* A thread of a started component calls a component through a reference.
Relay(p, from, c) ==
    /\ child[p] # "none"
    /\ from \in live[p] /\ kind[from] = "managed"
    /\ relayed' = [relayed EXCEPT ![p] = Call(c, table[p], live[p])]
    /\ UNCHANGED <<kind, processVars, requestVars, answer, threadVars>>

\* Mutant: the process runs its cleanup with requests in flight.
CleanupAtOnce(p) ==
    /\ child[p] = "up"
    /\ child' = [child EXCEPT ![p] = "stopping"]
    /\ pos' = [pos EXCEPT ![p] = 1]
    /\ UNCHANGED <<kind, configs, server, table, made, live, relayed, requestVars, answer, threadVars>>

\* serverCleanup, when httpd has joined the threads that handle requests.
ServerCleanup(p) ==
    /\ child[p] = "up"
    /\ Handled(p) = {}
    /\ child' = [child EXCEPT ![p] = "stopping"]
    /\ pos' = [pos EXCEPT ![p] = 1]
    /\ UNCHANGED <<kind, configs, server, table, made, live, relayed, requestVars, answer, threadVars>>

\* applyLifecycleExpr of "stop" to the next component, which goes on only when
\* that is no failure.
StopNext(p) ==
    LET c == MainOrder[pos[p]] IN
    /\ child[p] = "stopping"
    /\ pos[p] <= Len(MainOrder)
    /\ ~(HasNoStop(c) /\ c \in table[p])
    /\ live' = [live EXCEPT ![p] = @ \ {c}]
    /\ pos' = [pos EXCEPT ![p] = @ + 1]
    /\ UNCHANGED <<kind, configs, server, child, table, made, relayed, requestVars, answer, threadVars>>


\* The process ends, with its threads and requests: after the cleanup, in
\* failureExitChild when a component fails to start, or in a crash.
ChildExit(p) ==
    LET kept(f, none) == [r \in Request |-> IF at[r] = p THEN none ELSE f[r]] IN
    /\ child[p] # "none"
    /\ child' = [child EXCEPT ![p] = "none"]
    /\ table' = [table EXCEPT ![p] = {}]
    /\ made' = [made EXCEPT ![p] = {}]
    /\ live' = [live EXCEPT ![p] = {}]
    /\ relayed' = [relayed EXCEPT ![p] = "none"]
    /\ leaked' = [leaked EXCEPT ![p] = {}]
    /\ req' = kept(req, "idle")
    /\ at' = kept(at, NoChild)
    /\ vtable' = kept(vtable, {})
    /\ vmade' = kept(vmade, {})
    /\ vlive' = kept(vlive, {})
    /\ answer' = kept(answer, "none")
    /\ vrelayed' = kept(vrelayed, "none")
    /\ strayed' = [strayed EXCEPT ![p] = "none"]
    /\ UNCHANGED <<kind, configs, server, pos, vpos>>

-----------------------------------------------------------------------------
(* A request *)

\* translate finds a component of the main host.
Receive(r, p) ==
    /\ child[p] = "up"
    /\ req[r] = "idle"
    /\ req' = [req EXCEPT ![r] = "main"]
    /\ at' = [at EXCEPT ![r] = p]
    /\ answer' = [answer EXCEPT ![r] = "none"]
    /\ UNCHANGED <<kind, processVars, relayed, vtable, vpos, vmade, vlive, leaked, threadVars>>

\* translate configures the components of a virtual host, for the request.
ReceiveVirtual(r, p) ==
    /\ child[p] = "up"
    /\ req[r] = "idle"
    /\ req' = [req EXCEPT ![r] = "vstart"]
    /\ at' = [at EXCEPT ![r] = p]
    /\ vpos' = [vpos EXCEPT ![r] = 1]
    /\ answer' = [answer EXCEPT ![r] = "none"]
    /\ UNCHANGED <<kind, processVars, relayed, vtable, vmade, vlive, leaked, threadVars>>

VStartNext(r) ==
    LET c == VirtualOrder[vpos[r]] IN
    /\ req[r] = "vstart"
    /\ vpos[r] <= Len(VirtualOrder)
    /\ vpos' = [vpos EXCEPT ![r] = @ + 1]
    /\ vmade' = [vmade EXCEPT ![r] = IF Starts(c) THEN @ \cup {c} ELSE @]
    /\ vlive' = [vlive EXCEPT ![r] = IF Starts(c) THEN @ \cup {c} ELSE @]
    /\ UNCHANGED <<kind, processVars, relayed, req, at, vtable, leaked, answer, threadVars>>

\* The request ends, and nobody stops any more what it left running.
Return(r) ==
    /\ req' = [req EXCEPT ![r] = "idle"]
    /\ at' = [at EXCEPT ![r] = NoChild]
    /\ vtable' = [vtable EXCEPT ![r] = {}]
    /\ vmade' = [vmade EXCEPT ![r] = {}]
    /\ vlive' = [vlive EXCEPT ![r] = {}]
    /\ leaked' = [leaked EXCEPT ![at[r]] = @ \cup vlive[r]]
    /\ vrelayed' = [vrelayed EXCEPT ![r] = "none"]
    /\ UNCHANGED <<kind, processVars, relayed, vpos, answer, strayed>>

\* HTTP_INTERNAL_SERVER_ERROR, with the components before c started.
VStartFails(r) ==
    /\ req[r] = "vstart"
    /\ vpos[r] <= Len(VirtualOrder)
    /\ Starts(VirtualOrder[vpos[r]])
    /\ Return(r)

\* The started components join those of the main host in reqc.impls.
VStarted(r) ==
    /\ req[r] = "vstart"
    /\ vpos[r] > Len(VirtualOrder)
    /\ req' = [req EXCEPT ![r] = "virtual"]
    /\ vtable' = [vtable EXCEPT ![r] = vmade[r]]
    /\ vrelayed' = [vrelayed EXCEPT ![r] = "none"]
    /\ UNCHANGED <<kind, processVars, relayed, at, vpos, vmade, vlive, leaked, answer, strayed>>

\* handleRequest, or a call that a component makes through a reference.
CallMain(r, c) ==
    LET p == at[r] IN
    /\ req[r] \in {"main", "virtual"}
    /\ answer' = [answer EXCEPT ![r] = Call(c, table[p], live[p])]
    /\ UNCHANGED <<kind, processVars, relayed, requestVars, threadVars>>

CallVirtual(r, c) ==
    /\ req[r] = "virtual"
    /\ answer' = [answer EXCEPT ![r] = Call(c, vtable[r], vlive[r])]
    /\ UNCHANGED <<kind, processVars, relayed, requestVars, threadVars>>

\* A proxy of a virtual host's component looks in reqc.impls when it is
\* called: the components of the virtual host as they were evaluated, then all
\* there are, started.
VCall(r, c) ==
    IF c \in Virtual THEN Call(c, vtable[r], vlive[r])
    ELSE IF req[r] = "vstart" THEN "failed"
    ELSE Call(c, table[at[r]], live[at[r]])

\* A thread of a component of the virtual host calls one while the components
\* start, while the request is handled, or while they stop.
VRelay(r, from, c) ==
    /\ req[r] \in {"vstart", "virtual", "vstop"}
    /\ from \in vlive[r] /\ kind[from] = "managed"
    /\ vrelayed' = [vrelayed EXCEPT ![r] = VCall(r, c)]
    /\ UNCHANGED <<kind, processVars, relayed, requestVars, answer, strayed>>

\* One that was left running calls through the table of a request whose pool
\* is gone: anything may come of it (or the end of the process).
Stray(p, from) ==
    /\ from \in leaked[p] /\ kind[from] = "managed"
    /\ \E o \in Outcome \ {"none"} : strayed' = [strayed EXCEPT ![p] = o]
    /\ UNCHANGED <<kind, processVars, relayed, requestVars, answer, vrelayed>>

MainReturns(r) ==
    /\ req[r] = "main"
    /\ Return(r)

\* Mutant: stop takes up the list where start left it.
VStopAtEnd(r) ==
    /\ req[r] = "virtual"
    /\ req' = [req EXCEPT ![r] = "vstop"]
    /\ UNCHANGED <<kind, processVars, relayed, at, vtable, vpos, vmade, vlive, leaked, answer, threadVars>>

VStop(r) ==
    /\ req[r] = "virtual"
    /\ req' = [req EXCEPT ![r] = "vstop"]
    /\ vpos' = [vpos EXCEPT ![r] = 1]
    /\ UNCHANGED <<kind, processVars, relayed, at, vtable, vmade, vlive, leaked, answer, threadVars>>

VStopAt(r) == VirtualOrder[vpos[r]]

VStopNext(r) ==
    /\ req[r] = "vstop"
    /\ vpos[r] <= Len(VirtualOrder)
    /\ ~(HasNoStop(VStopAt(r)) /\ VStopAt(r) \in vtable[r])
    /\ vlive' = [vlive EXCEPT ![r] = @ \ {VStopAt(r)}]
    /\ vpos' = [vpos EXCEPT ![r] = @ + 1]
    /\ UNCHANGED <<kind, processVars, relayed, req, at, vtable, vmade, leaked, answer, threadVars>>

\* Mutant: stop is applied to the merged table.
VStopMerged(r) ==
    /\ req[r] = "vstop"
    /\ req' = [req EXCEPT ![r] = "idle"]
    /\ at' = [at EXCEPT ![r] = NoChild]
    /\ vtable' = [vtable EXCEPT ![r] = {}]
    /\ vmade' = [vmade EXCEPT ![r] = {}]
    /\ vlive' = [vlive EXCEPT ![r] = {}]
    /\ live' = [live EXCEPT ![at[r]] = {}]
    /\ vrelayed' = [vrelayed EXCEPT ![r] = "none"]
    /\ UNCHANGED <<kind, configs, server, child, table, pos, made, relayed, vpos,
                   answer, leaked, strayed>>

\* stopComponents returns true also when it gave up at a component.
VirtualReturns(r) ==
    /\ req[r] = "vstop"
    /\ vpos[r] <= Len(VirtualOrder)
          => HasNoStop(VStopAt(r)) /\ VStopAt(r) \in vtable[r]
    /\ Return(r)

-----------------------------------------------------------------------------

Next ==
    \/ PostConfig
    \/ \E p \in Child :
          \/ ChildInit(p) \/ StartNext(p) \/ Started(p)
          \/ \E from, c \in Main : Relay(p, from, c)
          \/ \E from \in Virtual : Stray(p, from)
          \/ ServerCleanup(p) \/ StopNext(p) \/ ChildExit(p)
    \/ \E r \in Request :
          \/ \E p \in Child : Receive(r, p) \/ ReceiveVirtual(r, p)
          \/ VStartNext(r) \/ VStartFails(r) \/ VStarted(r)
          \/ \E c \in Main : CallMain(r, c)
          \/ \E c \in Virtual : CallVirtual(r, c)
          \/ \E from \in Virtual, c \in Main \cup Virtual : VRelay(r, from, c)
          \/ MainReturns(r) \/ VStop(r) \/ VStopNext(r) \/ VirtualReturns(r)

Spec == Init /\ [][Next]_vars

-----------------------------------------------------------------------------
(* Properties *)

Reached == {"none", "served", "failed"}

\* No request calls a component that has not started or that was stopped,
\* although threads of other components call them all the time, and other
\* requests start and stop those of their virtual host.
RequestsReach ==
    \A r \in Request : answer[r] \in Reached

\* Nor does a thread of a component: one of the main host as long as its
\* process is up, one of a virtual host as long as its request is handled.
\* (Before, and while they stop, it may: a table has the started components
\* only when all have started, and they are stopped one by one.  And a thread
\* of a component that its request left running calls through a table that is
\* gone.)
RelaysReach ==
    /\ \A p \in Child : child[p] = "up" => relayed[p] \in Reached
    /\ \A r \in Request : req[r] = "virtual" => vrelayed[r] \in Reached

\* The virtual host's part of a request ends in a process that goes on.
Stopped(r) == req[r] = "vstop" /\ req'[r] = "idle" /\ child'[at[r]] # "none"

\* "Stop the components declared in a composite": what that leaves running is
\* a component that has no stop function, or that comes after one.  (A
\* component after one without a stop function is left running although it has
\* a stop function itself.)
StopsUpToNoStop ==
    [][\A r \in Request :
          Stopped(r) => \A i \in DOMAIN VirtualOrder :
              VirtualOrder[i] \in vlive[r] =>
                  \E j \in 1..i : HasNoStop(VirtualOrder[j])]_vars

\* What makes RequestsReach and RelaysReach inductive: when a process is up,
\* its table has every component that has a start function, and all of them
\* run, and a request is in a process that is up; so it is with the table of a
\* request to a virtual host while it calls components; and that stop leaves
\* nothing behind it running makes StopsUpToNoStop so.
Startable(order) == {order[i] : i \in {j \in DOMAIN order : Starts(order[j])}}
StartedUpTo(order, n) ==
    {order[i] : i \in {j \in DOMAIN order : j < n /\ Starts(order[j])}}

Collected(p) ==
    child[p] = "starting" =>
        /\ table[p] = {}
        /\ made[p] = StartedUpTo(MainOrder, pos[p])
        /\ made[p] \subseteq live[p]
Complete(p) ==
    child[p] = "up" =>
        /\ table[p] = Startable(MainOrder)
        /\ table[p] \subseteq live[p]
Placed(r) ==
    IF req[r] = "idle" THEN at[r] = NoChild /\ vmade[r] = {}
    ELSE at[r] \in Child /\ child[at[r]] = "up"
VCollected(r) ==
    req[r] = "vstart" =>
        /\ vmade[r] = StartedUpTo(VirtualOrder, vpos[r])
        /\ vmade[r] \subseteq vlive[r]
VComplete(r) ==
    req[r] = "virtual" =>
        /\ vtable[r] = Startable(VirtualOrder)
        /\ vtable[r] \subseteq vlive[r]
VStopped(r) ==
    req[r] = "vstop" =>
        \A i \in DOMAIN VirtualOrder : i < vpos[r] => VirtualOrder[i] \notin vlive[r]

IInv ==
    /\ TypeOK
    /\ \A p \in Child : Collected(p) /\ Complete(p)
    /\ \A r \in Request : Placed(r) /\ VCollected(r) /\ VComplete(r) /\ VStopped(r)
    /\ RequestsReach
    /\ RelaysReach
=============================================================================
