---------------------------- MODULE BoundedFifo ----------------------------
(***************************************************************************)
(* What a wqueue of kernel/parallel.hpp promises its callers: a first-in   *)
(* first-out buffer of at most Max values.  A thread offers one value at a *)
(* time, the value is appended once, and each value is handed to one       *)
(* thread, in the order of the appends.                                    *)
(***************************************************************************)
EXTENDS Naturals, Sequences

CONSTANTS Thread,   \* the threads that call enqueue and dequeue
          Value,    \* the values they exchange
          NoValue,  \* no value offered or handed out
          Max       \* the capacity of the queue

VARIABLES buffer,   \* the queued values, the oldest first
          offer,    \* offer[t]: the value t is in the middle of enqueueing
          got       \* got[t]: the value handed to t and not yet returned

fifoVars == <<buffer, offer, got>>

FifoInit ==
    /\ buffer = << >>
    /\ offer = [t \in Thread |-> NoValue]
    /\ got = [t \in Thread |-> NoValue]

Offer(t, v) ==
    /\ offer[t] = NoValue
    /\ offer' = [offer EXCEPT ![t] = v]
    /\ UNCHANGED <<buffer, got>>

Put(t) ==
    /\ offer[t] # NoValue
    /\ Len(buffer) < Max
    /\ buffer' = Append(buffer, offer[t])
    /\ offer' = [offer EXCEPT ![t] = NoValue]
    /\ UNCHANGED got

Take(t) ==
    /\ got[t] = NoValue
    /\ buffer # << >>
    /\ got' = [got EXCEPT ![t] = Head(buffer)]
    /\ buffer' = Tail(buffer)
    /\ UNCHANGED offer

Return(t) ==
    /\ got[t] # NoValue
    /\ got' = [got EXCEPT ![t] = NoValue]
    /\ UNCHANGED <<buffer, offer>>

FifoNext ==
    \E t \in Thread :
        \/ \E v \in Value : Offer(t, v)
        \/ Put(t)
        \/ Take(t)
        \/ Return(t)

FifoSpec == FifoInit /\ [][FifoNext]_fifoVars
=============================================================================
