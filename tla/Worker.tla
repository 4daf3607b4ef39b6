------------------------------- MODULE Worker -------------------------------
(***************************************************************************)
(* The worker of kernel/parallel.hpp: a queue of work and as many threads  *)
(* as the queue has slots, that run what they dequeue until they dequeue a *)
(* shutdown request.  The queue is the BoundedFifo that WorkQueue          *)
(* implements and a future is the write-once value that FutureValue        *)
(* implements, so a step here is one operation of either.                  *)
(*                                                                         *)
(* Clients call submit, read futures, and one of them calls shutdown or    *)
(* cancel.  The jobs of Rendezvous do what the jobs of testWorker do: none *)
(* of them ends before all of them have started; they are all submitted    *)
(* before anybody waits for one of them or shuts the worker down.  Other   *)
(* jobs are submitted at any time, also while the worker shuts down.       *)
(***************************************************************************)
EXTENDS Naturals, Sequences, FiniteSets

CONSTANTS Client,       \* the threads that submit work
          Owner,        \* the client that shuts the worker down
          WorkerThread, \* worker::threads
          Job,          \* the functions that are submitted
          Rendezvous,   \* the jobs that wait for one another
          Endless,      \* the jobs that listen until they are told to stop
          Pill,         \* the shutdown request: result(false)
          Nothing,      \* no job
          WillCancel    \* whether the owner may cancel the worker

ASSUME WorkerAssumption ==
    /\ Owner \in Client
    /\ Client \cap WorkerThread = {}
    /\ WorkerThread # {} /\ IsFiniteSet(WorkerThread)
    /\ Rendezvous \subseteq Job
    /\ Endless \subseteq Job \ Rendezvous
    /\ Pill \notin Job /\ Nothing \notin Job \cup {Pill} \cup WorkerThread
    /\ WillCancel \in BOOLEAN

VARIABLES work,       \* the queue
          offer, got, \* the values on their way in and out of it
          fut,        \* fut[j]: the thread whose result the future of j holds
          runs,       \* runs[j]: how many times j has been started
          submitted,  \* the jobs whose submission has begun
          pc,         \* where each thread is
          want,       \* want[c]: the job whose future c reads
          toStop,     \* the threads shutdown or cancel has still to handle
          early,      \* the jobs submitted before the shutdown was called
          cancelled   \* the threads pthread_cancel was called on

queueVars == <<work, offer, got>>
vars == <<work, offer, got, fut, runs, submitted, pc, want, toStop, early,
          cancelled>>

Thread == Client \cup WorkerThread
Count == Cardinality(WorkerThread)

Work == INSTANCE BoundedFifo WITH
            Value <- Job \cup {Pill}, NoValue <- Nothing, Max <- Count,
            buffer <- work

ClientPC == {"idle", "submit", "get", "pill", "pilling", "join", "stopped",
             "cancel"}
WorkerPC == {"dequeue", "call", "run", "exited", "dead", "deadlocked"}

TypeOK ==
    /\ work \in Seq(Job \cup {Pill}) /\ Len(work) <= Count
    /\ offer \in [Thread -> Job \cup {Pill, Nothing}]
    /\ got \in [Thread -> Job \cup {Pill, Nothing}]
    /\ fut \in [Job -> WorkerThread \cup {Nothing}]
    /\ runs \in [Job -> Nat]
    /\ submitted \subseteq Job
    /\ pc \in [Thread -> ClientPC \cup WorkerPC]
    /\ want \in [Client -> Job \cup {Nothing}]
    /\ toStop \subseteq WorkerThread
    /\ early \subseteq Job
    /\ cancelled \subseteq WorkerThread

Init ==
    /\ work = << >>
    /\ offer = [t \in Thread |-> Nothing]
    /\ got = [t \in Thread |-> Nothing]
    /\ fut = [j \in Job |-> Nothing]
    /\ runs = [j \in Job |-> 0]
    /\ submitted = {}
    /\ pc = [t \in Thread |-> IF t \in Client THEN "idle" ELSE "dequeue"]
    /\ want = [c \in Client |-> Nothing]
    /\ toStop = {}
    /\ early = {}
    /\ cancelled = {}

Move(t, from, to) == pc[t] = from /\ pc' = [pc EXCEPT ![t] = to]

\* A thread that dies of a cancel inside dequeue may keep the mutex of the
\* queue (WorkQueue); nobody gets in or out any more.
Usable == \A w \in WorkerThread : pc[w] # "deadlocked"

-----------------------------------------------------------------------------
(* submit, and reading a future *)

Stopping == pc[Owner] \in {"pill", "pilling", "join", "stopped"}

\* Each job is submitted once, and its future belongs to it.
SubmitCall(c, j) ==
    /\ j \notin submitted
    /\ j \in Rendezvous => ~Stopping
    /\ Move(c, "idle", "submit")
    /\ submitted' = submitted \cup {j}
    /\ Work!Offer(c, j)
    /\ UNCHANGED <<fut, runs, want, toStop, early, cancelled>>

\* Mutant: submit does not wait for room in the queue.
SubmitNoWait(c) ==
    /\ Usable
    /\ Move(c, "submit", "idle")
    /\ work' = Append(work, offer[c])
    /\ offer' = [offer EXCEPT ![c] = Nothing]
    /\ UNCHANGED <<got, fut, runs, submitted, want, toStop, early, cancelled>>

SubmitReturn(c) ==
    /\ Usable
    /\ Move(c, "submit", "idle")
    /\ Work!Put(c)
    /\ UNCHANGED <<fut, runs, submitted, want, toStop, early, cancelled>>

\* The futures a client can read are those submit has returned.
InQueue == {work[i] : i \in 1..Len(work)}
Entered == {j \in Job : j \in InQueue \/ runs[j] > 0
                           \/ \E w \in WorkerThread : got[w] = j}

GroupSubmitted == Rendezvous \subseteq Entered

GetCall(c, j) ==
    /\ j \in Entered
    /\ j \in Rendezvous => GroupSubmitted
    /\ Move(c, "idle", "get")
    /\ want' = [want EXCEPT ![c] = j]
    /\ UNCHANGED <<queueVars, fut, runs, submitted, toStop, early, cancelled>>

GetReturn(c) ==
    /\ pc[c] = "get"
    /\ fut[want[c]] # Nothing
    /\ Move(c, "get", "idle")
    /\ want' = [want EXCEPT ![c] = Nothing]
    /\ UNCHANGED <<queueVars, fut, runs, submitted, toStop, early, cancelled>>

-----------------------------------------------------------------------------
(* workerThreadFunc *)

DequeueWork(w) ==
    /\ Usable
    /\ Move(w, "dequeue", "call")
    /\ Work!Take(w)
    /\ UNCHANGED <<fut, runs, submitted, want, toStop, early, cancelled>>

\* result(false): the loop ends, and the thread with it.
CallPill(w) ==
    /\ got[w] = Pill
    /\ Move(w, "call", "exited")
    /\ Work!Return(w)
    /\ UNCHANGED <<fut, runs, submitted, want, toStop, early, cancelled>>

\* submitFunc calls the function.
CallJob(w) ==
    /\ got[w] \in Job
    /\ Move(w, "call", "run")
    /\ runs' = [runs EXCEPT ![got[w]] = @ + 1]
    /\ UNCHANGED <<queueVars, fut, submitted, want, toStop, early, cancelled>>

\* Mutant: the loop calls the function it has again.
RunAgain(w) ==
    /\ Move(w, "run", "call")
    /\ fut' = [fut EXCEPT ![got[w]] = w]
    /\ UNCHANGED <<queueVars, runs, submitted, want, toStop, early, cancelled>>

\* Mutant: the worker calls the function over and over.
RunForever(w) ==
    /\ Move(w, "run", "run")
    /\ UNCHANGED <<queueVars, fut, runs, submitted, want, toStop, early, cancelled>>

\* The function ends and submitFunc sets the future, which keeps the value
\* it has if it has one, and returns true: the loop goes on.
FinishJob(w) ==
    /\ got[w] \in Rendezvous => \A j \in Rendezvous : runs[j] > 0
    /\ Move(w, "run", "dequeue")
    /\ fut' = [fut EXCEPT ![got[w]] = IF @ = Nothing THEN w ELSE @]
    /\ Work!Return(w)
    /\ UNCHANGED <<runs, submitted, want, toStop, early, cancelled>>

-----------------------------------------------------------------------------
(* shutdown: shutdownEnqueue, then shutdownJoin *)

ShutdownCall ==
    /\ GroupSubmitted \/ submitted \cap Rendezvous = {}
    /\ Move(Owner, "idle", "pill")
    /\ toStop' = WorkerThread
    /\ early' = Entered
    /\ UNCHANGED <<queueVars, fut, runs, submitted, want, cancelled>>

\* Mutant: shutdown does not wait for the threads.
ShutdownNoJoin ==
    /\ Move(Owner, "join", "stopped")
    /\ UNCHANGED <<queueVars, fut, runs, submitted, want, toStop, early,
                   cancelled>>

PillCall ==
    /\ toStop # {}
    /\ Move(Owner, "pill", "pilling")
    /\ Work!Offer(Owner, Pill)
    /\ UNCHANGED <<fut, runs, submitted, want, toStop, early, cancelled>>

\* Mutant: the recursion does not shorten the list of threads.
PillAgain ==
    /\ Usable
    /\ Move(Owner, "pilling", "pill")
    /\ Work!Put(Owner)
    /\ UNCHANGED <<fut, runs, submitted, want, toStop, early, cancelled>>

\* One request per thread of the list, whichever thread will take it.
PillReturn ==
    /\ Usable
    /\ Move(Owner, "pilling", "pill")
    /\ Work!Put(Owner)
    /\ \E w \in toStop : toStop' = toStop \ {w}
    /\ UNCHANGED <<fut, runs, submitted, want, early, cancelled>>

\* Mutant: one request too few.
JoinEarly ==
    /\ Cardinality(toStop) = 1
    /\ Move(Owner, "pill", "join")
    /\ toStop' = WorkerThread
    /\ UNCHANGED <<queueVars, fut, runs, submitted, want, early, cancelled>>

JoinCall ==
    /\ toStop = {}
    /\ Move(Owner, "pill", "join")
    /\ toStop' = WorkerThread
    /\ UNCHANGED <<queueVars, fut, runs, submitted, want, early, cancelled>>

Join ==
    /\ pc[Owner] = "join"
    /\ \E w \in toStop : /\ pc[w] = "exited"
                         /\ toStop' = toStop \ {w}
    /\ UNCHANGED <<queueVars, fut, runs, submitted, pc, want, early, cancelled>>

ShutdownReturn ==
    /\ toStop = {}
    /\ Move(Owner, "join", "stopped")
    /\ UNCHANGED <<queueVars, fut, runs, submitted, want, toStop, early,
                   cancelled>>

-----------------------------------------------------------------------------
(* cancel *)

CancelCall ==
    /\ WillCancel
    /\ Move(Owner, "idle", "cancel")
    /\ toStop' = WorkerThread
    /\ UNCHANGED <<queueVars, fut, runs, submitted, want, early, cancelled>>

\* pthread_cancel of each thread, without a join.
CancelThread ==
    /\ pc[Owner] = "cancel"
    /\ \E w \in toStop : /\ toStop' = toStop \ {w}
                         /\ cancelled' = cancelled \cup {w}
    /\ UNCHANGED <<queueVars, fut, runs, submitted, pc, want, early>>

CancelReturn ==
    /\ toStop = {}
    /\ Move(Owner, "cancel", "stopped")
    /\ UNCHANGED <<queueVars, fut, runs, submitted, want, toStop, early,
                   cancelled>>

\* The cancellation is asynchronous: the thread dies wherever it is.
Die(w) ==
    /\ w \in cancelled
    /\ pc[w] \notin {"exited", "dead", "deadlocked"}
    /\ \E to \in {"dead"} \cup (IF pc[w] = "dequeue" THEN {"deadlocked"} ELSE {}) :
          pc' = [pc EXCEPT ![w] = to]
    /\ UNCHANGED <<queueVars, fut, runs, submitted, want, toStop, early,
                   cancelled>>

-----------------------------------------------------------------------------

ClientStep(c) == SubmitReturn(c) \/ GetReturn(c)
WorkerStep(w) == DequeueWork(w) \/ CallPill(w) \/ CallJob(w) \/ FinishJob(w)
OwnerStep ==
    \/ PillCall \/ PillReturn \/ JoinCall \/ Join \/ ShutdownReturn
    \/ CancelThread \/ CancelReturn

\* Everything the program has to do is done.
Finished ==
    /\ pc[Owner] = "stopped"
    /\ UNCHANGED vars

Next ==
    \/ \E c \in Client, j \in Job \ Endless : SubmitCall(c, j) \/ GetCall(c, j)
    \/ \E c \in Client : ClientStep(c)
    \/ \E w \in WorkerThread : WorkerStep(w) \/ Die(w)
    \/ ShutdownCall \/ CancelCall \/ OwnerStep
    \/ Finished

Spec == Init /\ [][Next]_vars

\* Threads that can run run.  Nobody has to submit, to read a future or to
\* shut down.  A client or an owner waiting for room gets in if there is
\* room again and again.
Fairness ==
    /\ \A c \in Client : SF_vars(SubmitReturn(c)) /\ WF_vars(GetReturn(c))
    /\ \A w \in WorkerThread : WF_vars(WorkerStep(w))
    /\ SF_vars(OwnerStep)

FairSpec == Spec /\ Fairness

-----------------------------------------------------------------------------
(* Properties *)

\* A job is somewhere once: on its way in, queued, with one worker thread,
\* or done; so it runs at most once and its future is the result of that
\* run, whoever else submits, shuts down or cancels.
RunsOnce ==
    \A j \in Job :
        /\ Cardinality({t \in Thread : offer[t] = j})
             + Cardinality({i \in 1..Len(work) : work[i] = j})
             + Cardinality({w \in WorkerThread : got[w] = j})
             + (IF fut[j] # Nothing THEN 1 ELSE 0) <= 1
        /\ runs[j] <= 1
        /\ fut[j] # Nothing => runs[j] = 1

\* Shutdown drains: when it returns, the future of every job that was in the
\* queue or running when it was called has its value, because the requests
\* are queued behind the jobs and every thread is joined.
ShutdownDrains ==
    pc[Owner] = "stopped" /\ cancelled = {} =>
        \A j \in early : fut[j] # Nothing

\* Each thread takes exactly one shutdown request: there are never more
\* requests around than threads to take them, and none is left behind, nor
\* is any thread running, when shutdown returns.
PillsMatchThreads ==
    LET pills   == Cardinality({i \in 1..Len(work) : work[i] = Pill})
                     + Cardinality({w \in WorkerThread : got[w] = Pill})
        running == Cardinality({w \in WorkerThread : pc[w] # "exited"})
    IN  /\ pills <= running
        /\ pc[Owner] = "stopped" /\ cancelled = {} => running = 0 /\ pills = 0

\* A shutdown that is called returns, even while other clients submit work
\* that competes with the shutdown requests for the slots of the queue.
ShutdownTerminates == (pc[Owner] = "pill") ~> (pc[Owner] = "stopped")

\* Work submitted before the worker is shut down is done, also when as many
\* jobs as there are threads wait for one another, unless it is cancelled.
WorkIsDone ==
    \A j \in Job \ Endless :
        (j \in Entered /\ (j \in Rendezvous => GroupSubmitted) /\ ~Stopping)
            ~> (fut[j] # Nothing \/ cancelled # {})

-----------------------------------------------------------------------------
(* The inductive invariant behind RunsOnce, PillsMatchThreads and            *)
(* ShutdownDrains                                                            *)

\* What each thread has in hand is what the place where it is tells; only a
\* thread that was cancelled dies, and then with what it had.
HandsMatch ==
    /\ \A c \in Client :
          /\ pc[c] \in IF c = Owner THEN ClientPC ELSE {"idle", "submit", "get"}
          /\ got[c] = Nothing
          /\ CASE pc[c] = "submit"  -> offer[c] \in Job
               [] pc[c] = "pilling" -> offer[c] = Pill
               [] OTHER             -> offer[c] = Nothing
    /\ \A w \in WorkerThread :
          /\ pc[w] \in WorkerPC
          /\ offer[w] = Nothing
          /\ pc[w] \in {"dequeue", "exited", "deadlocked"} => got[w] = Nothing
          /\ pc[w] = "call" => got[w] # Nothing
          /\ pc[w] = "run" => got[w] \in Job
          /\ pc[w] \in {"dead", "deadlocked"} => w \in cancelled

\* A job is in one pair of hands, or one slot, at a time, and how often it ran
\* tells which: not yet on its way to a call, once from then on.
InOnePlace(j) ==
    /\ \A t, u \in Thread : offer[t] = j /\ offer[u] = j => t = u
    /\ \A i, k \in 1..Len(work) : work[i] = j /\ work[k] = j => i = k
    /\ \A w, x \in WorkerThread : got[w] = j /\ got[x] = j => w = x
    /\ (\E t \in Thread : offer[t] = j) =>
          /\ \A i \in 1..Len(work) : work[i] # j
          /\ \A w \in WorkerThread : got[w] # j
          /\ runs[j] = 0
    /\ (\E i \in 1..Len(work) : work[i] = j) =>
          /\ \A w \in WorkerThread : got[w] # j
          /\ runs[j] = 0
    /\ \A w \in WorkerThread : got[w] = j =>
          /\ fut[j] = Nothing
          /\ pc[w] = "call" => runs[j] = 0
          /\ pc[w] = "run" => runs[j] = 1
    /\ runs[j] <= 1
    /\ fut[j] # Nothing => runs[j] = 1
    /\ runs[j] > 0 =>
          fut[j] # Nothing \/ \E w \in WorkerThread : got[w] = j

OnePlace == \A j \in Job : InOnePlace(j)

\* A job nobody has submitted is nowhere, and one on its way in was not there
\* before the shutdown was called.
OnlySubmitted ==
    /\ \A j \in Job \ submitted :
          /\ \A t \in Thread : offer[t] # j
          /\ j \notin Entered
    /\ early \subseteq submitted
    /\ \A t \in Thread : offer[t] \notin early

PillSlots == {i \in 1..Len(work) : work[i] = Pill}
PillHolders == {w \in WorkerThread : got[w] = Pill}
Exited == {w \in WorkerThread : pc[w] = "exited"}

\* The shutdown requests made so far: each is queued, with a thread, or has
\* ended one.
PillsMade == Cardinality(PillSlots) + Cardinality(PillHolders)
                 + Cardinality(Exited)

ShutsDown == \/ pc[Owner] \in {"pill", "pilling", "join"}
             \/ pc[Owner] = "stopped" /\ cancelled = {}

\* How far the owner has come with the shutdown, or with the cancel: it does
\* one or the other.
OwnerProgress ==
    /\ pc[Owner] \notin {"cancel", "stopped"} => cancelled = {}
    /\ pc[Owner] = "cancel" => cancelled \cup toStop = WorkerThread
    /\ pc[Owner] = "pilling" => toStop # {}
    /\ pc[Owner] \in {"pill", "pilling"} => PillsMade + Cardinality(toStop) = Count
    /\ ShutsDown /\ pc[Owner] \in {"join", "stopped"} => PillsMade = Count
    /\ ~ShutsDown => PillSlots = {} /\ PillHolders = {} /\ Exited = {}
                        /\ early = {}
    /\ pc[Owner] = "join" => WorkerThread \ toStop \subseteq Exited
    /\ pc[Owner] = "stopped" /\ cancelled = {} => Exited = WorkerThread

\* The requests are behind the jobs that were there when the shutdown was
\* called: as long as one of these is queued, no thread has a request.
EarlyFirst ==
    \A j \in early :
        /\ fut[j] # Nothing \/ j \in InQueue \/ \E w \in WorkerThread : got[w] = j
        /\ \A i \in 1..Len(work) : work[i] = j =>
              /\ \A k \in PillSlots : i < k
              /\ PillHolders = {} /\ Exited = {}

WorkerInv ==
    /\ TypeOK
    /\ HandsMatch
    /\ OnePlace
    /\ OnlySubmitted
    /\ OwnerProgress
    /\ EarlyFirst
=============================================================================
