----------------------------- MODULE WorkQueue -----------------------------
(***************************************************************************)
(* The bounded thread safe queue of kernel/parallel.hpp (wqueue, enqueue,  *)
(* dequeue), one step per access that another thread, or a cancellation,   *)
(* can fall between: taking the mutex, waiting on a condition variable,    *)
(* each assignment to the ring buffer, the broadcast after the unlock.     *)
(*                                                                         *)
(* A thread is at pc "idle" between two calls.  enqueue is                 *)
(*   eLock eCheck (eWait eCheck)* eTail eSize eCast eRet,                  *)
(* dequeue is                                                              *)
(*   dLock dCheck (dWait dCheck)* dHead dSize dCast,                       *)
(* and the mutex is held from the Check to the Size step.  A condition     *)
(* variable is the set of the threads blocked on it; a thread at a Wait    *)
(* that is no longer in that set was woken and wants the mutex back.       *)
(*                                                                         *)
(* Threads of Cancellable can be hit by pthread_cancel at any point: the   *)
(* worker threads ask for the asynchronous cancellation type.  A thread    *)
(* cancelled in pthread_cond_wait takes the mutex again before it dies.    *)
(* No cleanup handler is pushed: a thread that dies with the mutex keeps   *)
(* it.                                                                     *)
(***************************************************************************)
EXTENDS Naturals, Sequences

CONSTANTS Thread,       \* the threads that use the queue
          Producer,     \* those that call enqueue
          Consumer,     \* those that call dequeue
          Cancellable,  \* those that can be cancelled
          Value,        \* the values that are enqueued
          NoValue,      \* the content of a slot never written
          NoThread,     \* owner of a free mutex
          Max           \* wqueue::max

ASSUME QueueAssumption ==
    /\ Producer \subseteq Thread
    /\ Consumer \subseteq Thread
    /\ Cancellable \subseteq Thread
    /\ Max \in Nat \ {0}
    /\ NoValue \notin Value
    /\ NoThread \notin Thread

VARIABLES size, tail, head, values,  \* the ring buffer
          mutex,                     \* its owner
          full, empty,               \* the threads blocked on each condition
          pc,                        \* where each thread is
          arg,                       \* arg[t]: what t enqueues
          ret,                       \* ret[t]: what t read from the queue
          dead                       \* the threads that died of a cancel

ring == <<size, tail, head, values>>
vars == <<size, tail, head, values, mutex, full, empty, pc, arg, ret, dead>>

Slot == 0..(Max - 1)
Next1(i) == (i + 1) % Max

EnqueuePC == {"eLock", "eCheck", "eWait", "eTail", "eSize", "eCast", "eRet"}
DequeuePC == {"dLock", "dCheck", "dWait", "dHead", "dSize", "dCast"}

\* The steps that run with the mutex held.
Locked == {"eCheck", "eTail", "eSize", "dCheck", "dHead", "dSize"}

TypeOK ==
    /\ size \in 0..Max
    /\ tail \in Slot
    /\ head \in Slot
    /\ values \in [Slot -> Value \cup {NoValue}]
    /\ mutex \in Thread \cup {NoThread}
    /\ full \subseteq Thread
    /\ empty \subseteq Thread
    /\ pc \in [Thread -> {"idle"} \cup EnqueuePC \cup DequeuePC]
    /\ arg \in [Thread -> Value \cup {NoValue}]
    /\ ret \in [Thread -> Value \cup {NoValue}]
    /\ dead \subseteq Cancellable

Init ==
    /\ size = 0
    /\ tail = 0
    /\ head = 0
    /\ values = [i \in Slot |-> NoValue]
    /\ mutex = NoThread
    /\ full = {}
    /\ empty = {}
    /\ pc = [t \in Thread |-> "idle"]
    /\ arg = [t \in Thread |-> NoValue]
    /\ ret = [t \in Thread |-> NoValue]
    /\ dead = {}

At(t, from) == pc[t] = from /\ t \notin dead
Goto(t, to) == pc' = [pc EXCEPT ![t] = to]

Acquire(t) == mutex = NoThread /\ mutex' = t
Release == mutex' = NoThread

-----------------------------------------------------------------------------
(* enqueue *)

EnqueueCall(t, v) ==
    /\ At(t, "idle")
    /\ arg' = [arg EXCEPT ![t] = v]
    /\ Goto(t, "eLock")
    /\ UNCHANGED <<ring, mutex, full, empty, ret, dead>>

\* Mutant: the mutex is not taken.
EnqueueNoLock(t) ==
    /\ At(t, "eLock")
    /\ Goto(t, "eCheck")
    /\ UNCHANGED <<ring, mutex, full, empty, arg, ret, dead>>

EnqueueLock(t) ==
    /\ At(t, "eLock")
    /\ Acquire(t)
    /\ Goto(t, "eCheck")
    /\ UNCHANGED <<ring, full, empty, arg, ret, dead>>

EnqueueWait(t) ==
    /\ At(t, "eCheck")
    /\ size = Max
    /\ Release
    /\ full' = full \cup {t}
    /\ Goto(t, "eWait")
    /\ UNCHANGED <<ring, empty, arg, ret, dead>>

EnqueueWake(t) ==
    /\ At(t, "eWait")
    /\ t \notin full
    /\ Acquire(t)
    /\ Goto(t, "eCheck")
    /\ UNCHANGED <<ring, full, empty, arg, ret, dead>>

\* Mutant: the value overwrites the oldest one.
EnqueueStoreAtHead(t) ==
    /\ At(t, "eCheck")
    /\ size # Max
    /\ values' = [values EXCEPT ![head] = arg[t]]
    /\ Goto(t, "eTail")
    /\ UNCHANGED <<size, tail, head, mutex, full, empty, arg, ret, dead>>

EnqueueStore(t) ==
    /\ At(t, "eCheck")
    /\ size # Max
    /\ values' = [values EXCEPT ![tail] = arg[t]]
    /\ Goto(t, "eTail")
    /\ UNCHANGED <<size, tail, head, mutex, full, empty, arg, ret, dead>>

EnqueueAdvance(t) ==
    /\ At(t, "eTail")
    /\ tail' = Next1(tail)
    /\ Goto(t, "eSize")
    /\ UNCHANGED <<size, head, values, mutex, full, empty, arg, ret, dead>>

EnqueueUnlock(t) ==
    /\ At(t, "eSize")
    /\ size' = size + 1
    /\ Release
    /\ Goto(t, "eCast")
    /\ UNCHANGED <<tail, head, values, full, empty, arg, ret, dead>>

\* Mutant: pthread_cond_signal where the code broadcasts, and to the wrong
\* condition.
EnqueueSignalFull(t) ==
    /\ At(t, "eCast")
    /\ full' = {}
    /\ Goto(t, "eRet")
    /\ UNCHANGED <<ring, mutex, empty, arg, ret, dead>>

EnqueueBroadcast(t) ==
    /\ At(t, "eCast")
    /\ empty' = {}
    /\ Goto(t, "eRet")
    /\ UNCHANGED <<ring, mutex, full, arg, ret, dead>>

\* return q.size reads the size without the mutex; no caller uses it.
EnqueueReturn(t) ==
    /\ At(t, "eRet")
    /\ arg' = [arg EXCEPT ![t] = NoValue]
    /\ Goto(t, "idle")
    /\ UNCHANGED <<ring, mutex, full, empty, ret, dead>>

-----------------------------------------------------------------------------
(* dequeue *)

DequeueCall(t) ==
    /\ At(t, "idle")
    /\ Goto(t, "dLock")
    /\ UNCHANGED <<ring, mutex, full, empty, arg, ret, dead>>

DequeueLock(t) ==
    /\ At(t, "dLock")
    /\ Acquire(t)
    /\ Goto(t, "dCheck")
    /\ UNCHANGED <<ring, full, empty, arg, ret, dead>>

DequeueWait(t) ==
    /\ At(t, "dCheck")
    /\ size = 0
    /\ Release
    /\ empty' = empty \cup {t}
    /\ Goto(t, "dWait")
    /\ UNCHANGED <<ring, full, arg, ret, dead>>

\* Mutant: a woken consumer goes on without taking the mutex back.
DequeueWakeNoLock(t) ==
    /\ At(t, "dWait")
    /\ t \notin empty
    /\ Goto(t, "dCheck")
    /\ UNCHANGED <<ring, mutex, full, empty, arg, ret, dead>>

DequeueWake(t) ==
    /\ At(t, "dWait")
    /\ t \notin empty
    /\ Acquire(t)
    /\ Goto(t, "dCheck")
    /\ UNCHANGED <<ring, full, empty, arg, ret, dead>>

DequeueRead(t) ==
    /\ At(t, "dCheck")
    /\ size # 0
    /\ ret' = [ret EXCEPT ![t] = values[head]]
    /\ Goto(t, "dHead")
    /\ UNCHANGED <<ring, mutex, full, empty, arg, dead>>

DequeueAdvance(t) ==
    /\ At(t, "dHead")
    /\ head' = Next1(head)
    /\ Goto(t, "dSize")
    /\ UNCHANGED <<size, tail, values, mutex, full, empty, arg, ret, dead>>

DequeueUnlock(t) ==
    /\ At(t, "dSize")
    /\ size' = size - 1
    /\ Release
    /\ Goto(t, "dCast")
    /\ UNCHANGED <<tail, head, values, full, empty, arg, ret, dead>>

\* Mutant: dequeue does not tell the producers that there is room.
DequeueNoBroadcast(t) ==
    /\ At(t, "dCast")
    /\ ret' = [ret EXCEPT ![t] = NoValue]
    /\ Goto(t, "idle")
    /\ UNCHANGED <<ring, mutex, full, empty, arg, dead>>

DequeueBroadcast(t) ==
    /\ At(t, "dCast")
    /\ full' = {}
    /\ ret' = [ret EXCEPT ![t] = NoValue]
    /\ Goto(t, "idle")
    /\ UNCHANGED <<ring, mutex, empty, arg, dead>>

-----------------------------------------------------------------------------
(* pthread: spurious wakeups, and cancellation *)

SpuriousWakeup(t) ==
    /\ t \in full \cup empty
    /\ t \notin dead
    /\ full' = full \ {t}
    /\ empty' = empty \ {t}
    /\ UNCHANGED <<ring, mutex, pc, arg, ret, dead>>

\* A thread that waits on a condition leaves it and takes the mutex before
\* it dies, any other thread dies where it is.
Cancel(t) ==
    /\ t \notin dead
    /\ dead' = dead \cup {t}
    /\ IF pc[t] \in {"eWait", "dWait"} THEN Acquire(t) ELSE UNCHANGED mutex
    /\ full' = full \ {t}
    /\ empty' = empty \ {t}
    /\ UNCHANGED <<ring, pc, arg, ret>>

-----------------------------------------------------------------------------

EnqueueStep(t) ==
    \/ EnqueueLock(t) \/ EnqueueWait(t) \/ EnqueueWake(t) \/ EnqueueStore(t)
    \/ EnqueueAdvance(t) \/ EnqueueUnlock(t) \/ EnqueueBroadcast(t)
    \/ EnqueueReturn(t)

DequeueStep(t) ==
    \/ DequeueLock(t) \/ DequeueWait(t) \/ DequeueWake(t) \/ DequeueRead(t)
    \/ DequeueAdvance(t) \/ DequeueUnlock(t) \/ DequeueBroadcast(t)

Next ==
    \/ \E t \in Producer, v \in Value : EnqueueCall(t, v)
    \/ \E t \in Consumer : DequeueCall(t)
    \/ \E t \in Thread : EnqueueStep(t) \/ DequeueStep(t) \/ SpuriousWakeup(t)
    \/ \E t \in Cancellable : Cancel(t)

Spec == Init /\ [][Next]_vars

\* Every thread that can run runs, a thread that asks for the mutex again
\* and again gets it, and consumers, like workerThreadFunc, call dequeue in
\* a loop.  Producers call enqueue only when they like.
Fairness ==
    /\ \A t \in Thread :
          /\ WF_vars(EnqueueStep(t) \/ DequeueStep(t))
          /\ SF_vars(EnqueueLock(t) \/ EnqueueWake(t))
          /\ SF_vars(DequeueLock(t) \/ DequeueWake(t))
    /\ \A t \in Consumer : WF_vars(DequeueCall(t))

FairSpec == Spec /\ Fairness

-----------------------------------------------------------------------------
(* Properties *)

\* A slot index that went at most once around the ring.
Wrap(n) == IF n >= Max THEN n - Max ELSE n

\* The slot of the oldest queued value: dequeue moves head before size.
Front == IF \E t \in Thread : pc[t] = "dSize" THEN Wrap(head + Max - 1)
                                              ELSE head

\* The queued values, the oldest first.
Contents == [i \in 1..size |-> values[Wrap(Front + i - 1)]]

\* enqueue and dequeue assign values, tail and size, and head and size, one
\* after the other; all along, and wherever a cancelled thread stopped, the
\* tail is as far from the oldest value as the values in the ring reach, and
\* the thread in the critical section has checked that there is room for its
\* value, or that there is a value to take.
RingConsistent ==
    /\ tail = Wrap(Front + size
                    + (IF \E t \in Thread : pc[t] = "eSize" THEN 1 ELSE 0))
    /\ \A t \in Thread :
          /\ pc[t] \in {"eTail", "eSize"} => size < Max
          /\ pc[t] \in {"dHead", "dSize"} => size > 0

\* No wakeup is lost although both functions broadcast after the unlock: a
\* thread blocked on full while the queue has room, or on empty while it
\* holds a value, is one that a thread on its way to its broadcast will wake,
\* unless that one was cancelled.
NoLostWakeup ==
    /\ full # {} /\ size < Max => \E t \in Thread : pc[t] = "dCast"
    /\ empty # {} /\ size > 0 => \E t \in Thread : pc[t] = "eCast"

\* The value a thread is in the middle of enqueueing, and the one it has
\* dequeued and not yet returned.
Offered == [t \in Thread |->
               IF pc[t] \in {"eLock", "eCheck", "eWait", "eTail", "eSize"}
               THEN arg[t] ELSE NoValue]
Taken == [t \in Thread |-> IF pc[t] = "dCast" THEN ret[t] ELSE NoValue]

\* What enqueue and dequeue promise: a value is in the fifo once size counts
\* it and out of it once size no longer does.
Fifo == INSTANCE BoundedFifo WITH
            buffer <- Contents, offer <- Offered, got <- Taken

\* Every enqueue appends its value once, and every value goes, in order, to
\* one dequeue, whatever the interleaving, and also when threads are
\* cancelled in the middle of a call.
ImplementsFifo == Fifo!FifoSpec

\* As long as consumers come back for more, a call of enqueue leads to some
\* call of enqueue going through, unless a consumer is cancelled: a full
\* queue never leaves all the producers asleep.
EnqueueProgress ==
    (\E t \in Thread : pc[t] \in {"eLock", "eCheck", "eWait"})
        ~> (dead # {} \/ \E t \in Thread : pc[t] = "eCast")

\* A queued value leads to a dequeue that succeeds: the consumers are never
\* all left asleep.
DequeueProgress == (size > 0) ~> (dead # {} \/ \E t \in Thread : pc[t] = "dCast")

-----------------------------------------------------------------------------
(* The inductive invariant behind RingConsistent and ImplementsFifo *)

\* A thread inside the critical section owns the mutex, dead or alive.
MutexHeld == \A t \in Thread : pc[t] \in Locked => mutex = t

\* Only threads that wait are blocked, and only on the condition they await.
BlockedWait ==
    /\ \A t \in full : pc[t] = "eWait"
    /\ \A t \in empty : pc[t] = "dWait"

\* The value a thread stores is where tail is, or was, and the value it read
\* is still the oldest one.
InTransit ==
    \A t \in Thread :
        /\ pc[t] \in EnqueuePC => arg[t] \in Value
        /\ pc[t] = "eTail" => values[tail] = arg[t]
        /\ pc[t] = "eSize" => values[Wrap(Front + size)] = arg[t]
        /\ pc[t] \in {"dHead", "dSize"} => ret[t] = values[Front]
        /\ pc[t] = "dCast" => ret[t] \in Value

\* Every slot between the oldest value and tail holds a value.
Filled == \A i \in 1..size : values[Wrap(Front + i - 1)] \in Value

IInv ==
    /\ TypeOK
    /\ MutexHeld
    /\ BlockedWait
    /\ RingConsistent
    /\ InTransit
    /\ Filled
=============================================================================
