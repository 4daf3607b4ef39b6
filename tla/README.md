# Verification of Apache Tuscany SCA Native

TLA+ models, TLC checks and TLAPS proofs for the C++ runtime in `src/`.

1. [The system](#1-the-system): its parts, their state and how they interact
2. [The modules](#2-the-modules): which models what, and how it corresponds to the code
3. [The runs](#3-the-runs): what each checks, its bounds, the fairness assumed
4. [The proofs](#4-the-proofs)
5. [What was found](#5-what-was-found)
6. [Assumptions, and what is not modelled](#6-assumptions-and-what-is-not-modelled)
7. [Plan](#7-plan)

`PROJECT.json` has the same in a form for tools: the source lines of every definition (`map`), the hazards of the code
and the properties that cover them, a broken variant of the code for every property (`mutants`), the theorems.

Run a model with `tlc -config <file>.cfg <module>`, a proof with `tlapm <module>_proofs.tla`.

## 1. The system

Tuscany SCA Native runs SCA composites: applications made of components that are wired together by references and
reached over HTTP. `modules/server/mod-eval.hpp` is an Apache httpd module. It reads a composite, evaluates the
implementation of every component to a lambda, wires the lambdas, starts them in every child process and routes HTTP
requests to them. A virtual host has a composite of its own, which is read for each request. Components are written in
C++, Scheme, Python or Java; a set of ready-made ones gives applications their state and their connections: caches,
databases, queues, chat, HTTP, log, mail. `kernel/` has what all is made of: immutable lists and trees in memory pools,
failures as values (`failable`), and worker threads. `hosting/server` is an application of the runtime, a host for
composites that users write in a browser.

The parts interact in four ways:

- *calls by value*: a component calls a lambda it was given for a reference. Every call returns a value, and `callImpl`
  makes a null value of a failure, so that a caller cannot tell "failed" from "nothing there". A component such as the
  two level cache is a sequence of such calls, and requests interleave between them.
- *shared memory*: the threads of a child process share the component table, futures and work queues, with pthread
  mutexes and condition variables.
- *files and stores*: processes share a constant database or the files of a file database through the file system, and
  an SQL database or a memcached server through connections.
- *callbacks*: the threads of a listener (queue, chat) call a component with what they receive; httpd calls the hooks
  of the server module when processes start and end.

### Components

*State* is what the component keeps between operations. Under *hard* is what tests hardly reach; the hazards in
`PROJECT.json` give the lines. *Correct when* is what the properties state.

| Component (source) | State | Operations | Hard | Correct when |
|---|---|---|---|---|
| Future (kernel/parallel.hpp) | hasValue, value, mutex, condition | set, get | value read after the unlock, broadcast after the unlock, two setters | it is a write-once value; every get returns once it is set |
| Work queue (kernel/parallel.hpp) | ring buffer, mutex, two conditions | enqueue, dequeue | lost wakeups, wrap around, threads cancelled in the middle of an update | it is a bounded fifo at every step; nobody sleeps while there is work, or room |
| Worker (kernel/parallel.hpp) | queue, threads | submit, shutdown, cancel | shutdown racing submits, one shutdown request per thread, jobs that wait for one another | a job runs once; shutdown drains and ends |
| Queue and chat (components/queue, components/chat) | a session, a worker with 3 threads | start, stop, relay, post | stop against a relay in flight, messages acknowledged whatever the relay returned, stanzas written in part | every message is relayed in order, none after stop; a stanza is sent whole |
| Component server (modules/server/mod-eval.hpp) | component table per process, and per request for a virtual host | post config, child init, cleanup | start and stop lists that end early, calls from component threads while others start or stop, per-request composites next to shared ones | no request reaches a component that is not running; what was started is stopped |
| Request routing (mod-eval.hpp, modules/scdl) | service and reference tables | translate, matchPath, assocPath, redirects | prefix search in a tree ordered by path, virtual hosts by name and by path | a request gets to the service that its path is of, a reference to its target |
| Calls by HTTP (mod-eval.hpp, modules/http/http.hpp) | none | get, post, put, patch, delete, JSON-RPC, proxies | two sides that each convert: a value, its document, a status, nothing | a remote call is answered like a local one |
| Sessions of clients (http.hpp, kernel/parallel.hpp) | a CURL handle per thread | setup, apply, cleanup | what an earlier call left on the handle | a call is made with its own settings |
| Configuration (mod-*.cpp) | a record per module and server | directives, post config, child init | main server and virtual hosts, parent and children | a virtual host has its own settings, and the main ones it has none of |
| Two level cache (components/cache/datacache.cpp) | the level1 cache; the level2 master and its slave | get, post, put, patch, delete | each is two to three calls that interleave; the slave lags; failures are ignored | level1 hides the lag |
| Constant database (components/constdb) | the file, one descriptor per process | get, post, put, patch, delete | rewrite and rename by several processes, stat and open in two steps, crashes | the file is always whole; reads are current; no update is lost but to a rewrite that overlaps it |
| SQL database (components/sqldb) | a connection and its transaction per thread | get, post, put, patch, delete | a transaction abandoned by one of many failure paths, conflicts, retries, lost connections | no transaction is left open; a patch is atomic; every request returns |
| Memcache, memoizer, partitioner, file database (components/cache, components/filedb) | the items by their keys | as above | keys of any shape as texts and file names, several formats, items ranked over partitions | a store has what it was told to keep, as long as its servers and files answer |
| Shopping cart (samples/store-cpp) | a cart in a cache | get, post, delete, total | get then put by several requests | one at a time loses nothing; overlapping posts keep the last |
| Sign-in (modules/http/openauth.hpp, modules/oauth) | sessions in memcached, cookies | log in, authorize, access token, check, log out | sessions and accounts that went away, several modules and cookies, overlapping sign-ins | a session is of who signed in, a page is for an account that is there, every request is answered |
| SSL tunnel (modules/http/mod-ssltunnel.cpp) | two sockets | connect, relay, close | both ends wait, partial writes, data left in a buffer, two in series | what one end sends reaches the other in order; both close together |
| Memory pools (kernel/gc.hpp) | a stack of pools per thread | push, pop, scoped pools | threads and requests that allocate for the process | nothing that is used is gone with a pool |
| Lists, trees, values (kernel) | none: immutable | constructors, lookups | the balanced tree; lookups that assume its order | a lookup finds what was put in |
| Scheme evaluator (modules/scheme) | environments | read, print, evaluate | arguments that look like code | an argument is data |
| Python, Java, OpenCL (modules/python, java, opencl) | the modules of the interpreter | convert, call, call back | values without a counterpart, scripts of one name, events of a device | a component is called alike in every language |
| Encodings (modules/json, xml, atom, rss) | none | read, write | a value has several forms, a form several values | a value survives its encoding |
| Browser client (modules/js/htdocs/component.js) | request queue, item cache in local storage | get, put, post, del, cancel | answers out of order, callbacks that run inside other calls | not modelled |
| Hosting application (hosting/server) | records in the caches and databases | reviews, ratings, apps, ... | read-modify-write of shared records, several stores in one operation | not modelled |

## 2. The modules

| Module | Models | Extends / instances |
|---|---|---|
| `BoundedFifo` | abstract: what a work queue promises | |
| `WorkQueue` | `wqueue`, `enqueue`, `dequeue` of kernel/parallel.hpp, one step per access other threads can fall between | `BoundedFifo` by refinement |
| `WriteOnce` | abstract: what a future promises | |
| `FutureValue` | `future::futureValue`: `set` and `get` | `WriteOnce` by refinement |
| `Worker` | `worker`: `submit`, `shutdown`, `cancel`, `workerThreadFunc` | its queue *is* a `BoundedFifo` |
| `Listener` | the queue and chat components over a worker | extends `Worker` |
| `ModEval` | the life of components in child processes and in requests to virtual hosts | |
| `DataCache` | the two level cache, each call to a reference a step | |
| `DataCacheReads` | what its readers may see: history variables over `DataCache` | extends `DataCache` |
| `ConstDB` | the constant database over files, names, descriptors, inode numbers | |
| `SqlDb` | the SQL database component, statement by statement, and the transactions of the database | |
| `SignIn` | the three sign-in modules, their cookies, sessions, accounts and exchanges | |
| `Tunnel` | the relay of the SSL tunnel, over one server or two | |
| `Values`, `Trees`, `Elements` | kernel/value.hpp, list.hpp, tree.hpp, element.hpp: values, their order, lists, balanced trees, paths, elements | `Values` is the base of the others |
| `Documents` | modules/json, xml, atom, rss: a value written and read in each format | `Elements` |
| `Scheme` | modules/scheme: reader, printer, environments, primitives, evaluator | `Trees` |
| `Routing` | modules/scdl and the tables, `translate`, `matchPath`, `assocPath` and redirects of mod-eval.hpp | `Trees`, `Elements` |
| `Remote` | a call by HTTP: the proxy of http.hpp and the methods of mod-eval.hpp | `Documents`, `Routing`, `Scheme` |
| `Web` | bodies in blocks, URLs behind front ends, redirects to and from the login page (http.hpp, httpd.hpp, openauth.hpp) | `Routing` |
| `Sessions` | CURL sessions per thread, the HTTP and mail components | `Remote` |
| `Services` | the Web service component and the Axis2 service | `Documents` |
| `Stores` | memcache, file database, memoizer, partitioner | `Remote` |
| `Cart` | the shopping cart of samples/store-cpp over a memcache | `Stores` |
| `Pools` | kernel/gc.hpp: pools, the current pool of a thread, who allocates where | |
| `Config` | directives, post config and child init of the server modules | |
| `Foreign` | modules/python, java, opencl: conversions, calls, references, modules, kernels | `Scheme` |
| `Agreement` | composes the modules from `Values` on: inputs built step by step, and what the parts promise each other about them | all of them |
| `MC*` | the small instances TLC runs (`FutureValue.cfg` gives the constants directly) | |
| `*_proofs` | the theorems | |

A definition with a comment `Mutant:` is a broken variant of the definition that follows it. The specification does not
use it: replacing the definition by its variant must make a property fail.

**WorkQueue.** `pc[t]` is the line of `enqueue` or `dequeue` thread `t` is at. The ring buffer has the variables of the
code (`size`, `tail`, `head`, `values`); `mutex` has its owner; `full` and `empty` are the sets of threads blocked on
each condition variable. A wait releases the mutex and joins the set in one step, as `pthread_cond_wait` does; wakeups
may be spurious. The increments of `tail` and `size` are steps of their own because the worker threads ask for
asynchronous cancellation and may die between them; a thread that dies in its critical section keeps the mutex, because
no cleanup handler is pushed. The refinement maps the queue to the values between `head` and `tail`, counted from `head`
or from the slot before it while a dequeue is between its two assignments; a value enters the fifo when `size` counts it.

**FutureValue.** `get` only waits under the mutex; it copies the value after the unlock (`GetRead` is a step after
`GetUnlock`). `set` assigns `hasValue` before `value`, and broadcasts after its unlock.

**Worker.** One step per operation of the queue and of a future, which the other two modules justify. `submit`
is `SubmitCall` and `SubmitReturn`, with any other step in between; `shutdown` is one `PillCall`/`PillReturn` per
thread, then a join per thread; a worker thread takes, calls, finishes. `cancel` marks the threads, and `Die` may then
strike one at any point: inside `dequeue` it may leave the mutex of the queue locked for good (`deadlocked`). The jobs of
`Rendezvous` wait for one another, as those of kernel/parallel-test.cpp do.

**ModEval.** A component has a *kind*, the way its lambda answers to `start` and `stop`: `plain` (no start), `service`
(started, has no stop function and answers `stop` with a failure: the caches, databases and HTTP components), `managed`
(started, has threads that call other components, and stops: queue-listener, chat-sendreceiver), `broken` (could not be
evaluated). TLC takes all assignments of kinds. `table[p]` is the set of the components whose started lambda is in
`sc.compos.impls` of process `p`; `made[p]` is the list `applyLifecycleExpr` is building; `live[p]` are the components
that run. `StartNext` and `StopNext` are one step of that recursion each, so that requests and component threads
interleave with them; `StopNext` is not enabled at the component that fails the list. A request to a virtual host goes
`vstart`, `virtual`, `vstop` with a table of its own (`vtable`, `vmade`, `vlive`). A call (`Call`) is `served`, `failed`,
`unsupported` when the table still has the lambda that was never started, or `stale` when the component was stopped.
Threads of components call too: `Relay` those of the main host, `VRelay` those of a virtual host, through the table of
their request (`VCall`: as evaluated, without the main host's, until all have started), and `Stray` those that a request
left running, through a table whose pool is gone, with any outcome. `RelaysReach` excepts the last, and the times when
components start or stop. In
the parent, `postConfig` runs twice before the server is up and once per restart, and starts nothing.

**DataCache.** The steps of an operation are its calls, in the order of the code: get is `rcache1` get, `rcache2` get
(from the slave), `wcache1` put; the updates are the level1 write, then the level2 write. A failed call looks like a
miss to a get, and is not looked at by an update. `log` are the updates the slave has not replicated; memcached may drop an
entry (`Evict`). Items are versions, with a mark for what a patch script made of them: a script run where there is no
item makes one of nothing. `DataCacheReads` adds history: the versions a get may answer (`allowed`: the
latest when it started, or an overlapping update), and whether the key is `calm`, that is, nothing happened to it that
the header of the code does not claim to handle.

**ConstDB.** A file is its inode number; it exists as long as a name or a descriptor refers to it. An update is the
sequence of system calls of `rewrite`: make a temporary file, open the current file (`cdbopen`: stat, compare, open),
copy, rename, stat, open. `fd` is the descriptor of a process, `serial` the inode number it remembers; `Open` opens
whatever has the name by then and remembers the number of the earlier stat. A process may die at any step. Two history
variables: `since`, the keys the others updated since a process opened, or found current, the file it reads, and `want`, the
last update of each key but of those that a rewrite of an older file has put back.

**SqlDb.** `pc` is the statement a request is about to send. A table has rows and no unique key, as all the tables the
repository creates (sqldb-test:25, store-sql/start:35, create-tables:33): `rows` has the item of each. A connection inserts a
row only when it saw none of its key, so `<<k, c>>` names the row of `k` that `c` inserted, and is free then (`InsertsNew`,
proved). An update or delete takes all the rows of the key that it sees, a select any one of them. `tx[c]` is the transaction
of connection `c`: its snapshot, its own writes (which are row locks) and the rows that others changed since. Outside a block
a statement commits by itself; one that waits for a row lock acts on the rows there are when it gets it. `AfterFailure` has the control of `patch` and `tryPatch` for every failing statement: a failed `begin` or
`commit` returns, a conflicting `update` is retried after a rollback, everything else rolls back. `pgfailure` clears the result
it reports, so what its callers read next is undefined: after a failure the model may miss the conflict, or lose the process
(`Die`).

**Listener.** `kind` says which component runs, or that the worker runs alone (`pool`). `start` connects, declares the
queue, submits one endless job and returns; the job is `Listen`, and its steps are those of the thread that took it
(`ListeningStep`): receive, relay, acknowledge. `stop` ends the subscription or the loop, closes and cancels, in the order
of each component, and the cancelled threads die where `Worker` lets them. A chat stanza is written in pieces of any size. The
broker keeps a message until it is acknowledged, and gives it out again when its session ends.

**SignIn.** A tab has a request, and the server takes it through the modules in the order of their hooks: each declines,
refuses, redirects or goes on (`Serve`), then asks its provider for what it needs, a call at a time (`GetSecret`,
`GetToken`, `GetInfo`), checks the user and stores the session. `jar` are the cookies of a browser, `mem` is memcached,
`accounts` the authenticator component; an item or an account may go away at any time. The configuration goes
through the operators that read the directives. The address a provider sends a tab back to says nothing of the browser
(mod-oauth2.cpp:241), so any tab may open it again (`Reload`), and a flow is of the browser that exchanged its code. A
session id is drawn from the clock (value.hpp:635), so one that was drawn before may come again (`repeated`):
`SessionsKept` says nothing of the sessions under such an id. `RefusalsClear` says that a refusal leaves fewer cookies
and no new one, which is true of the code, that clears one, and of the comment (openauth.hpp:130), that would clear all.

**Tunnel.** `tunnel` is a loop over poll, receive and send; each hop has a place in it, the sides that the last poll
returned, and the bytes in hand. The kernel holds a window of bytes per direction. Over TLS a record is decrypted as a
whole and the rest of it waits where no poll looks, as in curl and in httpd's filters. `EndSends`, `EndCloses` are the
client and the target; any call of a hop may fail (`sendFails`; `callFails`: the preamble
is not sent, nothing is received, the poll reports an error). What the preamble adds to a link is no byte of an end: the streams are stated without it (`Payload`).

**Values to Config.** These have no variables: their operators are the functions of the code, by the same names. A value is a pair of a
type and its content; a text a sequence of words, so that what has a meaning (a quote, a parenthesis, a digit, a slash)
is a word of its own. Words have an order (`Alphabet`), as texts do. A document is a tree of nodes, a body its kind and its
document; a failable is a content, or a reason and a code. The code passes lambdas around: a call is modelled by what it is called with
(`callOf`, `proxyRequest`, `serviceCall`) and by what is made of the answer (`serve`, `proxy`, `serviceInvoke`), so that
any component can be behind it.

**Agreement.** The state is one input of some kind, and the steps build it: a value from scalars, lists, fields and
nests; leaves of a table; a path; operations on a store; scripts loaded by hosts; calls and mails of threads with their
sessions and pools; posts to a cart that overlap; directives, then the configuration, then the processes. The invariants say
of every input that is reached what two parts promise each other about it: what one writes the other reads, a remote call
does what a local one does, a table has what was put in it. The properties of calls and routes are operators of what they are
about: what makes a request of a call, what a server replies to it, what the caller makes of the reply, what a request comes to.
The operations of a store are called directly; that `apply` of memcache.cpp and filedb.cpp picks them by name is left out, and so
are servers and files that fail while a sequence of operations goes on. The interpreter of Python has modules of its own before any
script is loaded (`sysModules`); the text of an OpenCL result lies in a buffer with something behind it (`behind`).

## 3. The runs

Every run that passes covers the whole state space of its instance; the other one stops at its counterexample. A property that
is a conjunction has its parts stated one by one in the module.

| Run | Instance | Checks |
|---|---|---|
| `work_queue` | 2 producers, 2 consumers that may be cancelled, capacity 2, 2 values | `RingConsistent`, `NoLostWakeup`, `ImplementsFifo` (refinement of `BoundedFifo`) |
| `work_queue_progress` | the same without cancellation, capacity 1 | `EnqueueProgress`, `DequeueProgress` |
| `future` | 3 threads: 2 setters, 2 getters, one is both; 2 values | `ImplementsWriteOnce` (refinement of `WriteOnce`), `GetReturns` |
| `worker` | 2 clients, 2 threads, 3 jobs of which 2 wait for each other; or a queue or chat component of every kind, 3 messages of which one is noise, stanzas of up to 3 pieces | `RunsOnce`, `ShutdownDrains`, `PillsMatchThreads`, `RelaysKept`; `ShutdownTerminates`, `WorkIsDone`, `ListeningEnds`, `MessagesAreRelayed` |
| `mod_eval` | 1 child slot (processes end and are replaced), 2 requests, 2 components in each host, all kinds | `RequestsReach`, `RelaysReach`, `StopsUpToNoStop` |
| `datacache` | 2 requests, 1 key, 4 versions, the slave lags by up to 2 updates; all operations, failures, evictions | `LevelsAgree`, `CalmReadsLatest` |
| `constdb` | 2 processes that both write, 4 files whose numbers are not given out again, 2 keys, crashes | `NeverPartial`, `ReadsFresh`, `LostOnlyToOverlap` |
| `sqldb` | 2 connections, 1 key of up to 2 rows, all operations, lost connections, 2 tries more | `TransactionsEnd`, `PatchIsAtomic`, `Returns` |
| `sqldb_null_script` | 2 connections, 2 keys, scripts that return nothing | `UpdatesCommitted` is **violated** (section 5) |
| `signin` | 2 tabs, 2 users; either 2 browsers, one module and 2 exchanges, or 1 browser, three modules and a fault | `SessionsKept`, `PagesAreForAccounts`, `RefusalsClear`, `RequestsEnd` |
| `tunnel` | one server with an HTTPS target that is slow, one without, two in series with TLS between them, whose second is or is not an HTTPS server; up to 3 bytes each way | `StreamsKept`, `EndsTogether`, `Relayed` |
| `agreement` | values of 2 steps from 7 scalars, 4 leaves, paths of 5 segments, 3 operations on each kind of store, 6 steps of a cart and of a server | `ValuesKeep`, `RemoteCallsAgree`, `RequestsFind`, `TablesKeep`, `ItemsKeep`, `LanguagesCallAlike`, `ProcessesKeep` |

**Why the bounds are enough for what is asked.** The queue needs two producers and two consumers for one to take what
another was woken for, and a capacity of two for the indices to wrap while the queue is neither empty nor full; the
progress run has capacity one, where a wakeup that goes to the wrong side is fatal. Two threads and three jobs let a job
be queued behind shutdown requests and behind two jobs that occupy all the threads; three messages put a good one on
each side of one that is skipped. In `ModEval` two components in a host
are what it takes for one to be started, or stopped, before the other, and two requests for one to be in the main host
while another stops its virtual host. A stale fill of the cache takes one get and one put; four versions and a lag of two allow
for another round after the key has healed. The key is one because no step of the cache relates two keys, and an update
of another key only makes the log longer. In `ConstDB` four files are the one being read, the one that has the name, the
one being made and one more, and so up to three rewrites, of which two may copy the same file; the proofs lift the bound. Its
view leaves out what files hold that no process can get at any more. A patch conflicts at most as often as the other connection
commits; it may start over twice (five times in the code), and the proofs lift the bound. In `Tunnel` a record of three bytes is larger than a read of two, and a
window as large as a read fills after one write. In `SignIn` two exchanges of one module are what mixes up secrets, and a second
session of a browser what replaces a cookie. In `Agreement` a value of two steps is a list in a list with a field in it, which is
where the encodings meet their special cases (a list of one, an empty list, a list that looks like a field); longer
ones repeat them. Four leaves are what it takes for a rotation of the tree at its root and below it. The longest path that
means something has a special word, a component, a reference and a rest. Three operations on a store are a put, a change of it and a
change of another key that is nested with it.

**Symmetry and views.** Requests are interchangeable in `datacache` and `mod_eval`, inode numbers in `constdb`; no run with a
liveness property uses symmetry. `datacache` and `constdb` have a VIEW that leaves out what no later step or property reads: the
fields of an idle call, and the history of a key that is not calm.

**Deadlock** is checked in all runs but three: `work_queue`, where a consumer that is cancelled with the mutex stops everybody, as
it does in the code; `signin`, where a tab that got its page may do nothing more; `agreement`, whose inputs have a size.
(A worker whose owner has stopped, a component that is down and a tunnel that has ended stutter.)

**Fairness.** Weak fairness of a thread's next step: the scheduler runs threads that can run. Strong fairness of taking a
mutex: a thread that asks for a mutex that is free again and again gets it, which the futex queues give with
probability one though POSIX does not demand it. In `WorkQueue`, consumers call `dequeue` again for ever because
`workerThreadFunc` is a loop; producers need not call. In `Worker`, an enqueue that waits for room is strongly
fair for the same reason. In `Listener`, the listening thread and a cancelled thread go on, and a relay answers; nobody has to
send a message, post or stop. In `SqlDb`, strong fairness of a request's statements: PostgreSQL queues the waiters of a row lock.
In `Tunnel`, the servers go on (one that waits for something to read need not fail), and the ends read what arrives and leave a connection that ended. In `SignIn` the server
answers what it is asked; users need do nothing.
No module assumes that clients call, that replication or eviction happens, or that a process does not die.

## 4. The proofs

`tlapm` checks the theorems below for all values of the constants that satisfy the module's named assumption. Each is
proved from an inductive invariant, which implies it, with one lemma per action and, in it, one step per conjunct.
(`Listener_proofs` extends `FutureValue` too: the future is what a client and a worker thread meet at, and the names of its
module are apart from theirs.)

| Module | Theorems | The inductive invariant, and why it is needed |
|---|---|---|
| `WorkQueue_proofs` | `QueueInvariant`, `RingIsConsistent`, `NoWakeupIsLost`, `QueueImplementsFifo` | `RingConsistent` holds between two assignments only because the thread between them holds the mutex (`MutexHeld`) and knows that there was room, or a value; the refinement needs to know what is in the slots (`InTransit`, `Filled`) |
| `Listener_proofs` | of a future: `FutureInvariant`, `FutureIsWriteOnce`; of a worker: `WorkerInvariant`, `JobsRunOnce`, `ShutdownWaitsForJobs`, `OnePillPerThread`; of a listener: `ListenerInvariant`, `MessagesAreKept` | of a future: `get` reads without the mutex, so `ValueKnown` says that `value` was assigned by then and that nobody is about to assign it. Of a worker: how often a job ran tells where it is (`OnePlace`); a stop request is queued, with a thread, or has ended one, and these make as many as the owner has made (`OwnerProgress`); they are behind the early jobs (`EarlyFirst`), so the last thread to end leaves none. Of a listener: what waits came in after what is held, and that after what was relayed, until a session breaks (`MessagesInOrder`) |
| `ConstDB_proofs` | `DatabaseInvariant`, `DatabaseIsWhole`, `ReadsAreFresh`, `OverlapsAloneLose` | temporary files are apart from every file that is open or named (`TemporariesApart`); if numbers are not reused, a number seen is not that of a later file (`PastIsPast`); the file a process reads, and the one it makes of it, have every update that was wanted when it opened it and is still (`CopiesHold`) |
| `SqlDb_proofs` | `SqlInvariant`, `TransactionsEndWithRequests`, `PatchesAreAtomic` | which transaction block a patch is in at each statement, with the connection or without it (`BlockOfPatch`); rows that are not stale are as the snapshot has them, and the rows a patch wrote stay so until it commits, because the others wait for them, and nobody else writes the row it inserts (`SnapshotHolds`, `InsertsNew`) |
| `DataCacheReads_proofs` | `ReadsInvariant`, `CalmLevelsHoldTheSame`, `GetsFindTheLatest` | a put writes level1 before level2, so level1 may hold what the master gets next, and level1 has nothing only while the slave does not lag (`LevelsLatest`); the slave comes to the master's item by its log (`SlaveFollows`); whatever a get that is under way may still find, it may answer (`FindsAllowed`) |
| `ModEval_proofs` | `ModEvalInvariant`, `RequestsReachStarted`, `RelaysReachStarted`, `StopsReachNoStop` | a process that is up has all its startable components in the table and running (`Collected`, `Complete`), requests are in such processes (`Placed`), and the same for the table of a request, which its components' threads use too |
| `SignIn_proofs` | `SignInInvariant`, `SessionsAreKept`, `PagesAreOfAccounts`, `RefusalsClearCookies` | whose everything is on the way to a session: the token of a tab at the provider is no other tab's (`TokenIsOwn`), the code a tab comes back with, or another tab opens again, is one that a user agreed to (`CodeIsGiven`), each step of the exchange has what belongs to that code and, once it is used, it is of this browser (`ExchangeIsOwn`), and no cookie has a number that was not drawn (`SessionsAreNumbered`), so that a number drawn for the first time is under no other cookie. The other two follow a step from its state: what an answer grants has a name that was known (`CheckingGrants`), what refuses clears a cookie that was there (`CheckClears`), and only `Serve` gets a tab to a page (`StepsGet`) |
| `Tunnel_proofs` | `TunnelInvariant`, `StreamsAreKept` | what was read from each link so far (`taken`) accounts for every byte: a link holds the cut of what was sent that follows what was taken from it, and with what the hop before it has in hand, all that was taken there (`Relays`, `Cut`). The connections come up one after the other (`Connections`), and the preamble is the first thing on its link and nowhere else (`Preambles`, `Asked`). When an end closes, the servers close one after the other towards the one that stays (`Wave`), each after it has sent all there was: what is for the one that stays is lost only if its own bytes got stuck on the way to the other (`LastWords`, `NothingLost`, `Stuck`) |

The inductive invariants were checked by TLC on the instances of the runs before they were proved. They are in the modules of
the components, after the properties, in parts that have names; the theorems that follow from them are a step each.
Some keep more than the run's property needs, to be inductive at all: `ReadsInv` says which versions each get may
answer also while the slave lags, `SignInInv` that the addresses which tabs may open again have codes that users agreed to, and
`TunnelInv` what every link holds, where `StreamsKept` says what the ends receive. `TunnelInv` says nothing of the
bytes once a server declined a tunnel, as `InOrder` does: the one before it relays an error page then.

The tunnel's proof needs what `FlattenSeq` makes of a sequence of records, and what is left when its first is taken or one is
appended. Induction over data is out of reach as a rule to cite, because the library's theorems take an operator; so these
lemmas argue from a least number for which the statement fails (`LeastNumber`, from the well-foundedness of `<`), and
`JoinsExists` gives the recursive function that `FlattenSeq` chooses.

Assumptions beyond the types: `ReadsAreFresh` and `OverlapsAloneLose` assume that the file system does not give out an inode
number again; without it TLC finds a process that keeps reading, or copying, a file that was replaced. `DatabaseIsWhole` does not
need it. The theorems of `SqlDb_proofs` assume `~NullScripts`, that no patch script returns nothing: where one does, the code
leaves its transaction open, which is the finding `sqldb_null_script`, and `TransactionsEnd` is false; the run
`sqldb` makes the same choice. `ModEval` assumes that the names of a composite differ and that the two hosts share none.
`WorkerAssumption` says that the mark for nothing is no job, thread or stop request, `CacheAssumption` that there is a
first version. `SignInAssumption` says that the bounds of a setup are numbers, that tabs belong to browsers and that the
server has one to three of the sign-in modules in some order; `SignIn` is proved for any configuration, profiles and accounts.
`TunnelAssumption` says that records and reads are not empty and that a socket holds at least one read; the tunnel is proved
for any number of servers, TLS on any of their links, and any bytes.

Only model-checked:

- the liveness properties (`GetReturns`, `EnqueueProgress`, `DequeueProgress`, `ShutdownTerminates`, `WorkIsDone`,
  `ListeningEnds`, `MessagesAreRelayed`, `Returns`, `RequestsEnd`, `EndsTogether`, `Relayed`), which are out of the prover's reach;
- `Agreement`, whose functions are recursive: what they compute for every input cannot be proved here.

## 5. What was found

With a run that shows it:

- `sqldb_null_script`: a patch whose script returns nothing leaves `begin` open; later puts of the thread return true and
  are not committed.

Read in the code while modelling, and in the models where the properties are stated around it (a precondition names what the
code does not handle), without a run of its own. *The stores:*

- a get of the two level cache that read the slave before a put fills level1 after it, and later gets answer with the item
  the put replaced (datacache.cpp:63); a delete or a patch is undone by the next get while the slave lags, or where level1
  misses the entry. `calm` excludes both;
- nothing keeps two processes from rewriting the same version of a constant database: the update that is renamed first is
  lost, or put back by a patch whose script saw the item before it (`LostOnlyToOverlap` excepts just these); with inode numbers reused, a process may read a replaced file for ever;
  `rewrite` leaves the descriptor of its file open (tinycdb.hpp:305), and threads share the handle (202);
- `pgfailure` clears a result that its callers read and clear again;
- "If the item doesn't exist it is added" (pgsql.hpp:230, 269), but two puts or patches of a key that is not there both add a
  row, since nothing makes the key unique, and from then on a get answers with either: `PatchIsAtomic` says of a patch that
  found no row that it adds one, not that it is the only one. A conflict of the insert would be reported as code 40, which
  `tryPatch` does not retry (pgsql.hpp:306);
- a patch of one item is a get and a put without compare-and-set (memcache.cpp:79), a file is rewritten in place
  (filedb.hpp:120), and the shopping cart loses one of two posts at a time (shopping-cart.cpp:59);
- a patch without a script fails on a missing list (memcache.cpp:70, filedb.cpp:70), a patch of a key that is not there
  stores what the script makes of an empty list;
- the partitioner ignores what a partition answers, and a post gets a second key from the partition, so that a get of
  the key it answers finds nothing (partitioner.cpp:170; `ItemsKeep` excepts just that); the memoizer, the partitioner and the cart do not look at what a put answers;
  memcache answers 404 for any failure of a get, which a patch then takes for an item that is not there (memcache.cpp:79); keys
  that differ may have one text or one file name; `sort` drops items that compare equal.

*The server and its calls:*

- stopping a list of components ends at the first that has no stop function; those after it are left running
  (mod-eval.hpp:557); when a component of a virtual host fails to start, those before it are left running; calls from
  a component's threads while the others start are answered "not supported" and dropped, in the main host and in a
  virtual one, and may reach a component that was stopped while they stop (1258, 1341); the threads that a request leaves
  running go on to call through its table after its pool is gone;
- `assocPath` misses a service whose path is a prefix of the request when a longer sibling is above it in the tree
  (mod-eval.hpp:1026); a reference to an absolute target is not found by its path (990); a component thread that calls an
  absolute target dereferences a current request it does not have (232);
- tables of a virtual host and of the server that are merged keep one of two equal names (mod-eval.hpp:1251); a post
  whose component answers a nested path returns its last segment;
- the pieces of a JSON-RPC response are joined in reverse (http.hpp:499), so an answer that comes in several is nil to the
  caller (`RemoteCallsAgree` says what a call answers for one piece, and of gets and updates for any number); a proxy makes
  nil of a failure; arguments of a query are not escaped (981);
- directives of a virtual host for its memcached servers, composite and contributions are read and not used
  (mod-oauth1.cpp:528, mod-eval.hpp:1365), and configurations of directories have no merger;
- a negative count from `ap_get_client_block` is taken for a size (httpd.hpp:404); an empty string in a list ends a body
  that is sent; a mail only has the content type of what it sends;
- two threads that first call at a time both make their session in the one pool of the process (http.hpp:1034); a timeout is
  evaluated once per thread.

*Values and languages:*

- a record of several fields is not what it was after a JSON-RPC result (json.hpp:366), a lone JSON value is written as an
  empty list, an entry with several elements keeps the last, a string that starts with a quote becomes a symbol in Python and
  Java;
- a Java method that returns null has failed, a Python function that returns None has not; the first overload of a method is
  called; lists and dicts of Python become nil; a script that was loaded is not loaded again, for other virtual hosts
  either; `a/b.py` and `a.b.py` have one module name (python/eval.hpp:632), and a script with the name of a module that the
  interpreter has already, such as one of its library, is never read (688): `NameIsOwn` excepts both;
- a kernel of OpenCL has an array of 32 events for any number of arguments, and only the first element of a vector is read; the text of a result
  that fills its buffer is read to the first zero behind it (opencl/eval.hpp:507-521);
- a copy of a `gc_scoped_pool` pops the pool stack too (gc.hpp:372); `mkrand` seeds again for every character
  (value.hpp:635).

*Connections:*

- the relay of a queue listener acknowledges a message whatever the relay returned (queue-listener.cpp:68); stopping may
  wait for a subscription that does not end (91); exceptions of a constructor or of close are not caught;
- the handler of a chat connection keeps a pointer into the frame of `connect`; posts at a time interleave their pieces;
- the tunnel first reads from the client, so that a target that speaks first is not heard until the client speaks
  (mod-ssltunnel.cpp:177); the rest of a TLS record that is larger than a read is not polled (212, 244); a partial `send` is a
  failure, with the part sent (http.hpp:897); when one side closes both do; a second server's error page is taken for the target's answer;
- "Clear any auth cookies" (openauth.hpp:130): with several, only the last is cleared, because each `apr_table_set` replaces
  the header of the one before; two sign-ins at a time may draw one session id, which is made of `rand` seeded with the time
  anew for each character (value.hpp:635, mod-oauth1.cpp:438, mod-oauth2.cpp:313), and the later put replaces the session; a code is exchanged for whatever browser
  brings it (mod-oauth2.cpp:241); the query of
  a page is lost by signing in (113); two sign-ins with OAuth 1 share their secret when they overlap in a browser (mod-oauth1.cpp:381);
  a request with an authorization header is nobody's when only the OAuth modules are loaded;
- the precedence of a test in webservice-listener.cpp:70 is not what its layout says.

*Not modelled, read on the way:* the browser client skips requests when it cancels a list that shrinks under it
(component.js:151), calls a callback twice where an `else` is missing (327), lets a callback that throws keep its slot (401),
and counts the parts of local storage from the items (239); deleting all the reviews of a user leaves their ratings counted
(reviews.py:135).

## 6. Assumptions, and what is not modelled

About what is outside `src/`: pthread mutexes and conditions behave as POSIX says, with spurious wakeups; httpd
joins the threads that handle requests before it runs the cleanups of a child process; `rename` is atomic, and a file
lives as long as a descriptor; PostgreSQL gives a transaction a snapshot and fails the update of a row that changed since,
as its repeatable read level does; memcached drops entries; the slave applies updates in order; a broker keeps what was not
acknowledged; curl and the TLS filters of httpd decrypt a record at a time; providers answer an exchange with what it is for.

About the code: a process of the constant database has one thread at a time in the component (the prefork server); the
threaded case is a hazard of its own. Memory exhaustion is left out: APR aborts.

About the data: texts are sequences of words and documents are trees; which format a document is of is asked of all of it,
where the code asks its first block. Escapes, white space and numbers of several
digits are outside; a number is a natural one. The preconditions of the properties of `Agreement` (`IsPlain`, `IsXmlRecord`,
`IsReadable`, `NotNested`, ...) say which values and tables a format or a table is for.

Not modelled: the browser client and the hosting application (on the plan); the WSGI server (a Python rendering of the server
that starts no component); the logic components (small pure functions); the log components (they write to a Scribe server);
logging, certificates and raw socket options of the HTTP utilities; streams and wrappers of libraries; the samples but for the
shopping cart, installation scripts, patches of third-party code and `unmaintained/`.

## 7. Plan

Done: the worker with its queue, futures and listeners; the life cycle, configuration, routing and calls of the server; the
stores; sign-in; the tunnel; values, trees, encodings, evaluators; sessions and pools. Every safety property of these is a theorem, but for
those of `Agreement`.

Left, in order of what it says about the system:

1. Lemmas about the operators that have no recursion: `matchPath`, `perthread`, the pools.
2. An abstract atomic map, which a calm `DataCache`, a `ConstDB` whose rewrites do not overlap and `SqlDb` without null scripts implement.
3. `BrowserClient`: the request scheduler and the item cache of component.js, with callbacks that run inside `abort`.
4. `Reviews`: the hosting application's reviews and ratings over the stores: ratings count the reviews.
