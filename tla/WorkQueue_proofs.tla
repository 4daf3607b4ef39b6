-------------------------- MODULE WorkQueue_proofs --------------------------
(***************************************************************************)
(* The invariants of the work queue, for every set of threads and every    *)
(* capacity.                                                               *)
(***************************************************************************)
EXTENDS WorkQueue, SequenceTheorems, TLAPS

\* Moving an index of the ring by one, as enqueue and dequeue do, with the
\* wrap made explicit.
LEMMA NextSlot ==
    ASSUME NEW i \in Slot
    PROVE  Next1(i) = IF i + 1 = Max THEN 0 ELSE i + 1
  BY QueueAssumption DEF Slot, Next1

\* The oldest value is in a slot of the ring.
LEMMA FrontSlot == TypeOK => Front \in Slot
  BY QueueAssumption DEF TypeOK, Front, Wrap, Slot

\* enqueue and dequeue exclude each other: when one thread is in its critical
\* section no other thread is.
LEMMA Exclusion ==
    ASSUME MutexHeld, NEW t \in Thread, pc[t] \in Locked
    PROVE  /\ mutex = t
           /\ \A u \in Thread : u # t => pc[u] \notin Locked
  BY DEF MutexHeld

\* Steps that leave the ring alone and neither enter nor leave the middle of
\* an update do not move the oldest value.
LEMMA SameFront ==
    ASSUME UNCHANGED ring,
           \A u \in Thread : (pc[u] = "dSize") <=> (pc'[u] = "dSize")
    PROVE  Front' = Front
  BY DEF ring, Front, Wrap

LEMMA InitIInv == Init => IInv
  <1> SUFFICES ASSUME Init PROVE IInv
    OBVIOUS
  <1> USE QueueAssumption DEF Init
  <1>1. TypeOK
    BY DEF TypeOK, Slot
  <1>2. MutexHeld /\ BlockedWait /\ InTransit
    BY DEF MutexHeld, Locked, BlockedWait, InTransit, EnqueuePC
  <1>3. RingConsistent /\ Filled
    BY DEF RingConsistent, Filled, Front, Wrap
  <1> QED
    BY <1>1, <1>2, <1>3 DEF IInv

-----------------------------------------------------------------------------
(* Steps that do not touch the ring *)

\* What such a step may change: each thread stays where it is or moves
\* between points that are not in the middle of an update, and a value about
\* to be enqueued stays a value.
QuietPC == {"idle", "eLock", "eCheck", "eWait", "eCast", "eRet",
            "dLock", "dCheck", "dWait", "dCast"}

Quiet(t) ==
    /\ UNCHANGED ring
    /\ pc' = [pc EXCEPT ![t] = pc'[t]]
    /\ arg' = [arg EXCEPT ![t] = arg'[t]]
    /\ ret' = [ret EXCEPT ![t] = ret'[t]]
    /\ \/ pc'[t] = pc[t] /\ arg'[t] = arg[t] /\ ret'[t] = ret[t]
       \/ /\ pc[t] \in QuietPC /\ pc'[t] \in QuietPC
          /\ pc'[t] \in EnqueuePC => arg'[t] \in Value
          /\ pc'[t] # "dCast"

LEMMA QuietStep ==
    ASSUME IInv, TypeOK', NEW t \in Thread, Quiet(t)
    PROVE  RingConsistent' /\ InTransit' /\ Filled'
  <1> USE DEF IInv
  <1>1. \A u \in Thread : u # t => /\ pc'[u] = pc[u]
                                   /\ arg'[u] = arg[u]
                                   /\ ret'[u] = ret[u]
    BY DEF Quiet, TypeOK
  <1>2. Front' = Front
    BY <1>1, SameFront DEF Quiet, QuietPC
  <1>3. RingConsistent'
    BY <1>1, <1>2 DEF RingConsistent, Quiet, QuietPC, ring, Wrap
  <1>4. InTransit'
    BY <1>1, <1>2 DEF InTransit, Quiet, QuietPC, ring, Wrap, EnqueuePC
  <1>5. Filled'
    BY <1>2 DEF Filled, Quiet, ring, Wrap
  <1> QED
    BY <1>3, <1>4, <1>5

LEMMA CallsStep ==
    ASSUME IInv, NEW t \in Thread,
           \/ \E v \in Value : EnqueueCall(t, v)
           \/ DequeueCall(t)
           \/ EnqueueReturn(t)
    PROVE  IInv'
  <1> USE QueueAssumption DEF EnqueueCall, DequeueCall, EnqueueReturn,
                              Goto, At, ring, EnqueuePC, DequeuePC
  <1>1. TypeOK'
    BY DEF IInv, TypeOK
  <1>2. MutexHeld' /\ BlockedWait'
    BY DEF IInv, TypeOK, MutexHeld, Locked, BlockedWait
  <1>3. Quiet(t)
    BY DEF IInv, TypeOK, Quiet, QuietPC
  <1> QED
    BY <1>1, <1>2, <1>3, QuietStep DEF IInv

LEMMA MutexStep ==
    ASSUME IInv, NEW t \in Thread,
           \/ EnqueueLock(t) \/ EnqueueWait(t) \/ EnqueueWake(t)
           \/ DequeueLock(t) \/ DequeueWait(t) \/ DequeueWake(t)
    PROVE  IInv'
  <1> USE QueueAssumption DEF EnqueueLock, EnqueueWait, EnqueueWake,
                              DequeueLock, DequeueWait, DequeueWake,
                              Acquire, Release, Goto, At, ring,
                              EnqueuePC, DequeuePC
  <1>1. TypeOK'
    BY DEF IInv, TypeOK
  <1>2. MutexHeld'
    BY DEF IInv, TypeOK, MutexHeld, Locked
  <1>3. BlockedWait'
    BY DEF IInv, TypeOK, BlockedWait
  <1>4. Quiet(t)
    BY DEF IInv, TypeOK, Quiet, QuietPC, InTransit
  <1> QED
    BY <1>1, <1>2, <1>3, <1>4, QuietStep DEF IInv

LEMMA BroadcastStep ==
    ASSUME IInv, NEW t \in Thread,
           EnqueueBroadcast(t) \/ DequeueBroadcast(t)
    PROVE  IInv'
  <1> USE QueueAssumption DEF EnqueueBroadcast, DequeueBroadcast,
                              Goto, At, ring, EnqueuePC, DequeuePC
  <1>1. TypeOK'
    BY DEF IInv, TypeOK
  <1>2. MutexHeld' /\ BlockedWait'
    BY DEF IInv, TypeOK, MutexHeld, Locked, BlockedWait
  <1>3. Quiet(t)
    BY DEF IInv, TypeOK, Quiet, QuietPC, InTransit
  <1> QED
    BY <1>1, <1>2, <1>3, QuietStep DEF IInv

LEMMA PthreadStep ==
    ASSUME IInv, NEW t \in Thread,
           SpuriousWakeup(t) \/ (t \in Cancellable /\ Cancel(t))
    PROVE  IInv'
  <1> USE QueueAssumption DEF SpuriousWakeup, Cancel, Acquire, ring
  <1>1. TypeOK'
    BY DEF IInv, TypeOK
  <1>2. MutexHeld' /\ BlockedWait'
    BY DEF IInv, TypeOK, MutexHeld, Locked, BlockedWait
  <1>3. Quiet(t)
    BY DEF IInv, TypeOK, Quiet
  <1> QED
    BY <1>1, <1>2, <1>3, QuietStep DEF IInv

-----------------------------------------------------------------------------
(* Steps of enqueue in the ring *)

LEMMA EnqueueStoreStep ==
    ASSUME IInv, NEW t \in Thread, EnqueueStore(t)
    PROVE  IInv'
  <1> USE QueueAssumption DEF EnqueueStore, Goto, At
  <1>1. TypeOK'
    BY DEF IInv, TypeOK, InTransit, EnqueuePC
  <1>2. MutexHeld' /\ BlockedWait'
    BY DEF IInv, TypeOK, MutexHeld, Locked, BlockedWait
  <1>3. \A u \in Thread : u # t => pc[u] \notin Locked
    BY Exclusion DEF IInv, Locked
  <1>4. /\ \A u \in Thread : pc'[u] = IF u = t THEN "eTail" ELSE pc[u]
        /\ pc[t] = "eCheck"
    BY DEF IInv, TypeOK
  <1>5. Front' = Front
    BY <1>4 DEF Front, Wrap
  <1>6. size < Max /\ tail = Wrap(Front + size)
    BY <1>3, <1>4, FrontSlot DEF IInv, TypeOK, RingConsistent, Locked, Slot
  <1>7. RingConsistent'
    BY <1>3, <1>4, <1>5, <1>6, FrontSlot DEF IInv, TypeOK, RingConsistent,
                                             Locked, Slot, Wrap
  <1>8. values' = [values EXCEPT ![tail] = arg[t]] /\ arg[t] \in Value
    BY <1>4 DEF IInv, InTransit, EnqueuePC
  <1>9. InTransit'
    BY <1>3, <1>4, <1>8 DEF IInv, TypeOK, InTransit, Locked, EnqueuePC
  <1>10. \A i \in 1..size : Wrap(Front + i - 1) # tail
    BY <1>6, FrontSlot DEF IInv, TypeOK, Wrap, Slot
  <1>11. Filled'
    BY <1>5, <1>8, <1>10, FrontSlot DEF IInv, TypeOK, Filled, Wrap, Slot
  <1> QED
    BY <1>1, <1>2, <1>7, <1>9, <1>11 DEF IInv

LEMMA EnqueueAdvanceStep ==
    ASSUME IInv, NEW t \in Thread, EnqueueAdvance(t)
    PROVE  IInv'
  <1> USE QueueAssumption DEF EnqueueAdvance, Goto, At
  <1>1. TypeOK'
    BY NextSlot DEF IInv, TypeOK, EnqueuePC, Slot
  <1>2. MutexHeld' /\ BlockedWait'
    BY DEF IInv, TypeOK, MutexHeld, Locked, BlockedWait
  <1>3. \A u \in Thread : u # t => pc[u] \notin Locked
    BY Exclusion DEF IInv, Locked
  <1>4. /\ \A u \in Thread : pc'[u] = IF u = t THEN "eSize" ELSE pc[u]
        /\ pc[t] = "eTail"
    BY DEF IInv, TypeOK
  <1>5. Front' = Front
    BY <1>4 DEF Front, Wrap
  <1>6. size < Max /\ tail = Wrap(Front + size)
    BY <1>3, <1>4, FrontSlot DEF IInv, TypeOK, RingConsistent, Locked, Slot
  <1>7. tail' = Wrap(Front + size + 1)
    BY <1>6, NextSlot, FrontSlot DEF IInv, TypeOK, Wrap, Slot
  <1>8. RingConsistent'
    BY <1>3, <1>4, <1>5, <1>6, <1>7 DEF RingConsistent, Locked, Wrap
  <1>9. InTransit'
    BY <1>3, <1>4, <1>5, <1>6 DEF IInv, TypeOK, InTransit, Locked,
                                  EnqueuePC, Wrap
  <1>10. Filled'
    BY <1>5 DEF IInv, Filled, Wrap
  <1> QED
    BY <1>1, <1>2, <1>8, <1>9, <1>10 DEF IInv

LEMMA EnqueueUnlockStep ==
    ASSUME IInv, NEW t \in Thread, EnqueueUnlock(t)
    PROVE  IInv'
  <1> USE QueueAssumption DEF EnqueueUnlock, Release, Goto, At
  <1>3. \A u \in Thread : u # t => pc[u] \notin Locked
    BY Exclusion DEF IInv, Locked
  <1>4. /\ \A u \in Thread : pc'[u] = IF u = t THEN "eCast" ELSE pc[u]
        /\ pc[t] = "eSize"
    BY DEF IInv, TypeOK
  <1>5. Front' = Front
    BY <1>4 DEF Front, Wrap
  <1>6. size < Max /\ tail = Wrap(Front + size + 1)
    BY <1>3, <1>4, FrontSlot DEF IInv, TypeOK, RingConsistent, Locked, Slot
  <1>1. TypeOK'
    BY <1>6 DEF IInv, TypeOK, EnqueuePC
  <1>2. MutexHeld' /\ BlockedWait'
    BY <1>3 DEF IInv, TypeOK, MutexHeld, Locked, BlockedWait
  <1>8. RingConsistent'
    BY <1>3, <1>4, <1>5, <1>6, FrontSlot DEF IInv, TypeOK, RingConsistent,
                                             Locked, Wrap, Slot
  <1>9. InTransit'
    BY <1>3, <1>4, <1>5 DEF IInv, TypeOK, InTransit, Locked, EnqueuePC
  <1>10. values[Wrap(Front + size)] \in Value
    BY <1>4 DEF IInv, InTransit, EnqueuePC
  <1>11. Filled'
    BY <1>5, <1>10 DEF IInv, TypeOK, Filled, Wrap
  <1> QED
    BY <1>1, <1>2, <1>8, <1>9, <1>11 DEF IInv

-----------------------------------------------------------------------------
(* Steps of dequeue in the ring *)

LEMMA DequeueReadStep ==
    ASSUME IInv, NEW t \in Thread, DequeueRead(t)
    PROVE  IInv'
  <1> USE QueueAssumption DEF DequeueRead, Goto, At, ring
  <1>3. \A u \in Thread : u # t => pc[u] \notin Locked
    BY Exclusion DEF IInv, Locked
  <1>4. /\ \A u \in Thread : pc'[u] = IF u = t THEN "dHead" ELSE pc[u]
        /\ pc[t] = "dCheck"
        /\ \A u \in Thread : ret'[u] = IF u = t THEN values[head] ELSE ret[u]
    BY DEF IInv, TypeOK
  <1>5. Front' = Front /\ Front = head
    BY <1>3, <1>4 DEF Front, Locked, Wrap
  <1>1. TypeOK'
    BY DEF IInv, TypeOK, DequeuePC
  <1>2. MutexHeld' /\ BlockedWait'
    BY DEF IInv, TypeOK, MutexHeld, Locked, BlockedWait
  <1>6. size > 0
    BY DEF IInv, TypeOK
  <1>8. RingConsistent'
    BY <1>3, <1>4, <1>5, <1>6 DEF IInv, RingConsistent, Locked, Wrap
  <1>9. InTransit'
    BY <1>3, <1>4, <1>5 DEF IInv, TypeOK, InTransit, Locked, EnqueuePC
  <1>10. Filled'
    BY <1>5 DEF IInv, Filled, Wrap
  <1> QED
    BY <1>1, <1>2, <1>8, <1>9, <1>10 DEF IInv

LEMMA DequeueAdvanceStep ==
    ASSUME IInv, NEW t \in Thread, DequeueAdvance(t)
    PROVE  IInv'
  <1> USE QueueAssumption DEF DequeueAdvance, Goto, At
  <1>3. \A u \in Thread : u # t => pc[u] \notin Locked
    BY Exclusion DEF IInv, Locked
  <1>4. /\ \A u \in Thread : pc'[u] = IF u = t THEN "dSize" ELSE pc[u]
        /\ pc[t] = "dHead"
    BY DEF IInv, TypeOK
  <1>1. TypeOK'
    BY NextSlot DEF IInv, TypeOK, DequeuePC, Slot
  <1>2. MutexHeld' /\ BlockedWait'
    BY DEF IInv, TypeOK, MutexHeld, Locked, BlockedWait
  <1>5. Front = head /\ Front' = Wrap(head' + Max - 1)
    BY <1>3, <1>4 DEF Front, Locked, Wrap
  <1>6. Front' = Front
    BY <1>5, NextSlot DEF IInv, TypeOK, Wrap, Slot
  <1>8. RingConsistent'
    BY <1>3, <1>4, <1>6 DEF IInv, RingConsistent, Locked, Wrap
  <1>9. InTransit'
    BY <1>3, <1>4, <1>6 DEF IInv, TypeOK, InTransit, Locked, EnqueuePC, Wrap
  <1>10. Filled'
    BY <1>6 DEF IInv, Filled, Wrap
  <1> QED
    BY <1>1, <1>2, <1>8, <1>9, <1>10 DEF IInv

LEMMA DequeueUnlockStep ==
    ASSUME IInv, NEW t \in Thread, DequeueUnlock(t)
    PROVE  IInv'
  <1> USE QueueAssumption DEF DequeueUnlock, Release, Goto, At
  <1>3. \A u \in Thread : u # t => pc[u] \notin Locked
    BY Exclusion DEF IInv, Locked
  <1>4. /\ \A u \in Thread : pc'[u] = IF u = t THEN "dCast" ELSE pc[u]
        /\ pc[t] = "dSize"
    BY DEF IInv, TypeOK
  <1>5. Front = Wrap(head + Max - 1) /\ Front' = head
    BY <1>3, <1>4 DEF Front, Locked, Wrap
  <1>6. size > 0 /\ tail = Wrap(Front + size)
    BY <1>3, <1>4, FrontSlot DEF IInv, TypeOK, RingConsistent, Locked, Slot
  <1>1. TypeOK'
    BY <1>6 DEF IInv, TypeOK, DequeuePC
  <1>2. MutexHeld' /\ BlockedWait'
    BY <1>3 DEF IInv, TypeOK, MutexHeld, Locked, BlockedWait
  <1>7. Front' = Wrap(Front + 1)
    BY <1>5 DEF IInv, TypeOK, Wrap, Slot
  <1>8. RingConsistent'
    <2>1. tail = Wrap(Front' + size')
      BY <1>6, <1>7, FrontSlot DEF IInv, TypeOK, Wrap, Slot
    <2>2. \A u \in Thread : pc'[u] \notin {"eTail", "eSize", "dHead", "dSize"}
      BY <1>3, <1>4 DEF Locked
    <2>3. Front' + size' \in Nat
      BY <1>1, <1>5 DEF IInv, TypeOK, Slot
    <2> QED
      BY <2>1, <2>2, <2>3 DEF RingConsistent
  <1>9. ret[t] \in Value
    <2>1. ret[t] = values[Front]
      BY <1>4 DEF IInv, InTransit
    <2>2. values[Wrap(Front + 1 - 1)] \in Value
      BY <1>6 DEF IInv, TypeOK, Filled
    <2>3. Wrap(Front + 1 - 1) = Front
      BY FrontSlot DEF IInv, Wrap, Slot
    <2> QED
      BY <2>1, <2>2, <2>3
  <1>10. InTransit'
    BY <1>3, <1>4, <1>9 DEF IInv, TypeOK, InTransit, Locked, EnqueuePC
  <1>11. \A i \in 1..size' : Wrap(Front' + i - 1) = Wrap(Front + (i + 1) - 1)
    BY <1>7, FrontSlot DEF IInv, TypeOK, Wrap, Slot
  <1>12. Filled'
    BY <1>11 DEF IInv, TypeOK, Filled
  <1> QED
    BY <1>1, <1>2, <1>8, <1>10, <1>12 DEF IInv

-----------------------------------------------------------------------------

LEMMA NextIInv == IInv /\ [Next]_vars => IInv'
  <1> SUFFICES ASSUME IInv, [Next]_vars
               PROVE  IInv'
    OBVIOUS
  <1>1. CASE \E t \in Producer, v \in Value : EnqueueCall(t, v)
    BY <1>1, CallsStep, QueueAssumption
  <1>2. CASE \E t \in Consumer : DequeueCall(t)
    BY <1>2, CallsStep, QueueAssumption
  <1>3. CASE \E t \in Thread : EnqueueStep(t)
    BY <1>3, CallsStep, MutexStep, BroadcastStep, EnqueueStoreStep,
       EnqueueAdvanceStep, EnqueueUnlockStep DEF EnqueueStep
  <1>4. CASE \E t \in Thread : DequeueStep(t)
    BY <1>4, MutexStep, BroadcastStep, DequeueReadStep,
       DequeueAdvanceStep, DequeueUnlockStep DEF DequeueStep
  <1>5. CASE \E t \in Thread : SpuriousWakeup(t)
    BY <1>5, PthreadStep
  <1>6. CASE \E t \in Cancellable : Cancel(t)
    BY <1>6, PthreadStep, QueueAssumption
  <1>7. CASE UNCHANGED vars
    BY <1>7 DEF IInv, vars, TypeOK, MutexHeld, BlockedWait, RingConsistent,
                InTransit, Filled, Front, Wrap
  <1> QED
    BY <1>1, <1>2, <1>3, <1>4, <1>5, <1>6, <1>7 DEF Next

\* For every set of threads, capacity and value set, and for cancels at any
\* point, the inductive invariant of the queue holds in every reachable
\* state.
THEOREM QueueInvariant == Spec => []IInv
  <1>1. Init => IInv
    BY InitIInv
  <1>2. IInv /\ [Next]_vars => IInv'
    BY NextIInv
  <1> QED
    BY <1>1, <1>2, PTL DEF Spec

\* In particular the ring buffer is consistent: head, tail and size agree
\* whatever the interleaving of enqueue and dequeue.
THEOREM RingIsConsistent == Spec => []RingConsistent
  <1>1. IInv => RingConsistent
    BY DEF IInv
  <1> QED
    BY <1>1, QueueInvariant, PTL

-----------------------------------------------------------------------------
(* No wakeup is lost *)

\* A thread falls asleep only on what the critical section it leaves has
\* seen: the queue is full, or empty, so nobody owes it a wakeup yet.
LEMMA SleepsWithCause ==
    ASSUME IInv, NoLostWakeup, NEW t \in Thread,
           EnqueueWait(t) \/ DequeueWait(t)
    PROVE  NoLostWakeup'
  <1> USE QueueAssumption DEF EnqueueWait, DequeueWait, At, Goto, ring
  <1>1. \A u \in Thread : u # t => pc'[u] = pc[u]
    BY DEF IInv, TypeOK
  <1>2. CASE EnqueueWait(t)
    BY <1>1, <1>2 DEF NoLostWakeup, IInv, TypeOK
  <1>3. CASE DequeueWait(t)
    BY <1>1, <1>3 DEF NoLostWakeup, IInv, TypeOK
  <1> QED
    BY <1>2, <1>3

\* The thread that makes room, or adds a value, is on its way to the
\* broadcast; the other condition is as it was, or its broadcast is not
\* needed less.
LEMMA UnlockOwesBroadcast ==
    ASSUME IInv, NoLostWakeup, NEW t \in Thread,
           EnqueueUnlock(t) \/ DequeueUnlock(t)
    PROVE  NoLostWakeup'
  <1> USE QueueAssumption DEF EnqueueUnlock, DequeueUnlock, At, Goto
  <1>1. \A u \in Thread : u # t => pc'[u] = pc[u]
    BY DEF IInv, TypeOK
  <1>2. CASE EnqueueUnlock(t)
    <2>1. pc'[t] = "eCast" /\ size < Max /\ size' = size + 1
      BY <1>2 DEF IInv, TypeOK, RingConsistent
    <2> QED
      BY <1>1, <1>2, <2>1 DEF NoLostWakeup, IInv, TypeOK
  <1>3. CASE DequeueUnlock(t)
    <2>1. pc'[t] = "dCast" /\ size > 0 /\ size' = size - 1
      BY <1>3 DEF IInv, TypeOK, RingConsistent
    <2> QED
      BY <1>1, <1>3, <2>1 DEF NoLostWakeup, IInv, TypeOK
  <1> QED
    BY <1>2, <1>3

\* A broadcast leaves nobody on its condition and takes no thread away from
\* the broadcast of the other one.
LEMMA BroadcastWakesAll ==
    ASSUME IInv, NoLostWakeup, NEW t \in Thread,
           EnqueueBroadcast(t) \/ DequeueBroadcast(t)
    PROVE  NoLostWakeup'
  <1> USE DEF EnqueueBroadcast, DequeueBroadcast, At, Goto, ring
  <1>1. \A u \in Thread : u # t => pc'[u] = pc[u]
    BY DEF IInv, TypeOK
  <1> QED
    BY <1>1 DEF NoLostWakeup, IInv, TypeOK

\* Every other step keeps the size, adds no sleeper and takes no thread away
\* from a broadcast; a cancelled thread stays where it was.
LEMMA OthersOweNothing ==
    ASSUME IInv, NoLostWakeup, NEW t \in Thread,
           \/ \E v \in Value : EnqueueCall(t, v)
           \/ DequeueCall(t) \/ EnqueueLock(t) \/ EnqueueWake(t)
           \/ EnqueueStore(t) \/ EnqueueAdvance(t) \/ EnqueueReturn(t)
           \/ DequeueLock(t) \/ DequeueWake(t) \/ DequeueRead(t)
           \/ DequeueAdvance(t) \/ SpuriousWakeup(t) \/ Cancel(t)
    PROVE  NoLostWakeup'
  <1> USE DEF EnqueueCall, DequeueCall, EnqueueLock, EnqueueWake,
              EnqueueStore, EnqueueAdvance, EnqueueReturn, DequeueLock,
              DequeueWake, DequeueRead, DequeueAdvance, SpuriousWakeup,
              Cancel, At, Goto, ring
  <1>1. size' = size /\ full' \subseteq full /\ empty' \subseteq empty
    OBVIOUS
  <1>2. \A u \in Thread : /\ pc[u] = "eCast" => pc'[u] = "eCast"
                          /\ pc[u] = "dCast" => pc'[u] = "dCast"
    BY DEF IInv, TypeOK
  <1> QED
    BY <1>1, <1>2 DEF NoLostWakeup

LEMMA NextNoLostWakeup ==
    IInv /\ NoLostWakeup /\ [Next]_vars => NoLostWakeup'
  <1> SUFFICES ASSUME IInv, NoLostWakeup, [Next]_vars
               PROVE  NoLostWakeup'
    OBVIOUS
  <1>1. CASE \E t \in Producer, v \in Value : EnqueueCall(t, v)
    BY <1>1, OthersOweNothing, QueueAssumption
  <1>2. CASE \E t \in Consumer : DequeueCall(t)
    BY <1>2, OthersOweNothing, QueueAssumption
  <1>3. CASE \E t \in Thread : EnqueueStep(t)
    BY <1>3, SleepsWithCause, UnlockOwesBroadcast, BroadcastWakesAll,
       OthersOweNothing DEF EnqueueStep
  <1>4. CASE \E t \in Thread : DequeueStep(t)
    BY <1>4, SleepsWithCause, UnlockOwesBroadcast, BroadcastWakesAll,
       OthersOweNothing DEF DequeueStep
  <1>5. CASE \E t \in Thread : SpuriousWakeup(t)
    BY <1>5, OthersOweNothing
  <1>6. CASE \E t \in Cancellable : Cancel(t)
    BY <1>6, OthersOweNothing, QueueAssumption
  <1>7. CASE UNCHANGED vars
    BY <1>7 DEF vars, NoLostWakeup
  <1> QED
    BY <1>1, <1>2, <1>3, <1>4, <1>5, <1>6, <1>7 DEF Next

\* Broadcasting after the unlock loses no wakeup, for any number of threads
\* and any capacity: whoever sleeps on a condition that holds is owed a
\* broadcast by a thread that is past its critical section.
THEOREM NoWakeupIsLost == Spec => []NoLostWakeup
  <1>1. Init => NoLostWakeup
    BY DEF Init, NoLostWakeup
  <1>2. IInv /\ NoLostWakeup /\ [Next]_vars => NoLostWakeup'
    BY NextNoLostWakeup
  <1> QED
    BY <1>1, <1>2, QueueInvariant, PTL DEF Spec

-----------------------------------------------------------------------------
(* The queue implements the bounded fifo *)

\* Each step of the queue does what one step of the fifo does, or nothing:
\* a call of enqueue offers its value, the end of its critical section puts
\* it, the end of the critical section of dequeue takes the oldest value and
\* its return returns it.
LEMMA InitFifo == Init => Fifo!FifoInit
  <1> SUFFICES ASSUME Init PROVE Fifo!FifoInit
    OBVIOUS
  <1>1. Contents = << >>
    BY DEF Init, Contents
  <1>2. Offered = [t \in Thread |-> NoValue] /\ Taken = [t \in Thread |-> NoValue]
    BY DEF Init, Offered, Taken
  <1> QED
    BY <1>1, <1>2 DEF Fifo!FifoInit

\* The queued values stay the same when neither the ring nor the oldest
\* value moves.
LEMMA SameContents ==
    ASSUME UNCHANGED ring,
           \A u \in Thread : (pc[u] = "dSize") <=> (pc'[u] = "dSize")
    PROVE  Contents' = Contents
  BY SameFront DEF Contents, ring, Wrap

LEMMA CallIsOffer ==
    ASSUME IInv, NEW t \in Thread, NEW v \in Value, EnqueueCall(t, v)
    PROVE  Fifo!Offer(t, v)
  <1> USE DEF EnqueueCall, At, Goto
  <1>1. /\ pc[t] = "idle"
        /\ \A u \in Thread : pc'[u] = IF u = t THEN "eLock" ELSE pc[u]
        /\ \A u \in Thread : arg'[u] = IF u = t THEN v ELSE arg[u]
    BY DEF IInv, TypeOK
  <1>2. Contents' = Contents
    BY <1>1, SameContents
  <1>3. Taken' = Taken
    BY <1>1 DEF Taken
  <1>4. Offered[t] = NoValue /\ Offered' = [Offered EXCEPT ![t] = v]
    BY <1>1 DEF Offered
  <1> QED
    BY <1>2, <1>3, <1>4 DEF Fifo!Offer

LEMMA UnlockIsPut ==
    ASSUME IInv, NEW t \in Thread, EnqueueUnlock(t)
    PROVE  Fifo!Put(t)
  <1> USE QueueAssumption DEF EnqueueUnlock, At, Goto
  <1>1. /\ pc[t] = "eSize"
        /\ \A u \in Thread : pc'[u] = IF u = t THEN "eCast" ELSE pc[u]
    BY DEF IInv, TypeOK
  <1>2. Taken' = Taken
    BY <1>1 DEF Taken
  <1>3. /\ Offered[t] = arg[t] /\ arg[t] # NoValue
        /\ Offered' = [Offered EXCEPT ![t] = NoValue]
    <2>1. Offered[t] = arg[t]
      BY <1>1 DEF Offered
    <2>2. arg[t] # NoValue
      BY <1>1 DEF IInv, InTransit, EnqueuePC
    <2>3. \A u \in Thread :
              Offered'[u] = IF u = t THEN NoValue ELSE Offered[u]
      BY <1>1 DEF Offered
    <2>4. Offered' = [Offered EXCEPT ![t] = NoValue]
      BY <2>3 DEF Offered
    <2> QED
      BY <2>1, <2>2, <2>4
  <1>4. Front' = Front
    BY <1>1 DEF Front, Wrap
  <1>5. Contents \in Seq(Value) /\ Len(Contents) = size
    BY DEF IInv, TypeOK, Filled, Contents
  <1>6. size < Max
    BY <1>1 DEF IInv, RingConsistent
  <1>7. values[Wrap(Front + size)] = arg[t] /\ arg[t] \in Value
    BY <1>1 DEF IInv, InTransit, EnqueuePC
  <1>8. Contents' = Append(Contents, arg[t])
    <2>1. Contents' = [i \in 1..(size + 1) |-> values[Wrap(Front + i - 1)]]
      BY <1>4 DEF Contents, Wrap
    <2>2. Front + (size + 1) - 1 = Front + size
      BY FrontSlot DEF IInv, TypeOK, Slot
    <2>3. \A i \in 1..(size + 1) :
              Contents'[i] = IF i = size + 1 THEN arg[t] ELSE Contents[i]
      BY <2>1, <2>2, <1>7 DEF Contents, IInv, TypeOK
    <2>4. Append(Contents, arg[t]) =
              [i \in 1..(size + 1) |->
                  IF i = size + 1 THEN arg[t] ELSE Contents[i]]
      BY <1>5, <1>7
    <2> QED
      BY <2>1, <2>3, <2>4
  <1> QED
    BY <1>2, <1>3, <1>5, <1>6, <1>8 DEF Fifo!Put

LEMMA UnlockIsTake ==
    ASSUME IInv, NEW t \in Thread, DequeueUnlock(t)
    PROVE  Fifo!Take(t)
  <1> USE QueueAssumption DEF DequeueUnlock, At, Goto
  <1>1. /\ pc[t] = "dSize"
        /\ \A u \in Thread : pc'[u] = IF u = t THEN "dCast" ELSE pc[u]
    BY DEF IInv, TypeOK
  <1>2. \A u \in Thread : u # t => pc[u] # "dSize"
    BY <1>1, Exclusion DEF IInv, Locked
  <1>3. Offered' = Offered
    BY <1>1 DEF Offered
  <1>4. Front = Wrap(head + Max - 1) /\ Front' = head
    BY <1>1, <1>2 DEF Front, Wrap
  <1>5. Front' = Wrap(Front + 1)
    BY <1>4 DEF IInv, TypeOK, Wrap, Slot
  <1>6. size > 0 /\ ret[t] = values[Front]
    BY <1>1 DEF IInv, RingConsistent, InTransit
  <1>7. Contents \in Seq(Value) /\ Len(Contents) = size
    BY DEF IInv, TypeOK, Filled, Contents
  <1>8. Contents # << >> /\ Head(Contents) = ret[t]
    <2>1. Head(Contents) = values[Wrap(Front + 1 - 1)]
      BY <1>6, <1>7 DEF Contents, IInv, TypeOK
    <2>2. Wrap(Front + 1 - 1) = Front
      BY FrontSlot DEF IInv, Wrap, Slot
    <2> QED
      BY <2>1, <2>2, <1>6, <1>7
  <1>9. Contents' = Tail(Contents)
    <2>1. \A i \in 1..(size - 1) :
              Wrap(Front' + i - 1) = Wrap(Front + (i + 1) - 1)
      BY <1>5, FrontSlot DEF IInv, TypeOK, Wrap, Slot
    <2>2. Contents' = [i \in 1..(size - 1) |-> values[Wrap(Front' + i - 1)]]
      BY DEF Contents, Wrap
    <2>3. Contents' = [i \in 1..(size - 1) |-> Contents[i + 1]]
      BY <2>1, <2>2 DEF Contents, IInv, TypeOK
    <2>4. Tail(Contents) = [i \in 1..(size - 1) |-> Contents[i + 1]]
      <3>1. /\ Len(Tail(Contents)) = size - 1
            /\ Tail(Contents) \in Seq(Value)
            /\ \A i \in 1..(size - 1) : Tail(Contents)[i] = Contents[i + 1]
        BY <1>7, <1>8, HeadTailProperties
      <3>2. Tail(Contents) \in [1..(size - 1) -> Value]
        BY <3>1, LenProperties
      <3> QED
        BY <3>1, <3>2
    <2> QED
      BY <2>3, <2>4
  <1>10. Taken[t] = NoValue /\ Taken' = [Taken EXCEPT ![t] = ret[t]]
    BY <1>1 DEF Taken
  <1> QED
    BY <1>3, <1>8, <1>9, <1>10 DEF Fifo!Take

LEMMA BroadcastIsReturn ==
    ASSUME IInv, NEW t \in Thread, DequeueBroadcast(t)
    PROVE  Fifo!Return(t)
  <1> USE QueueAssumption DEF DequeueBroadcast, At, Goto
  <1>1. /\ pc[t] = "dCast"
        /\ \A u \in Thread : pc'[u] = IF u = t THEN "idle" ELSE pc[u]
        /\ \A u \in Thread : u # t => ret'[u] = ret[u]
    BY DEF IInv, TypeOK
  <1>2. Contents' = Contents
    BY <1>1, SameContents
  <1>3. Offered' = Offered
    BY <1>1 DEF Offered
  <1>4. Taken[t] # NoValue /\ Taken' = [Taken EXCEPT ![t] = NoValue]
    <2>1. Taken[t] = ret[t]
      BY <1>1 DEF Taken
    <2>2. ret[t] # NoValue
      BY <1>1 DEF IInv, InTransit
    <2>3. \A u \in Thread :
              Taken'[u] = IF u = t THEN NoValue ELSE Taken[u]
      BY <1>1 DEF Taken
    <2>4. Taken' = [Taken EXCEPT ![t] = NoValue]
      BY <2>3 DEF Taken
    <2> QED
      BY <2>1, <2>2, <2>4
  <1> QED
    BY <1>2, <1>3, <1>4 DEF Fifo!Return

\* The other steps leave the fifo as it is.
LEMMA OtherStutters ==
    ASSUME IInv, NEW t \in Thread,
           \/ DequeueCall(t) \/ SpuriousWakeup(t) \/ Cancel(t)
           \/ EnqueueLock(t) \/ EnqueueWait(t) \/ EnqueueWake(t)
           \/ EnqueueAdvance(t) \/ EnqueueBroadcast(t)
           \/ DequeueLock(t) \/ DequeueWait(t) \/ DequeueWake(t)
           \/ DequeueRead(t)
    PROVE  UNCHANGED <<Contents, Offered, Taken>>
  <1> USE DEF DequeueCall, SpuriousWakeup, Cancel, EnqueueLock, EnqueueWait,
              EnqueueWake, EnqueueAdvance, EnqueueBroadcast, DequeueLock,
              DequeueWait, DequeueWake, DequeueRead, At, Goto, ring
  <1>1. \A u \in Thread : (pc[u] = "dSize") <=> (pc'[u] = "dSize")
    BY DEF IInv, TypeOK
  <1>2. Contents' = Contents
    BY <1>1 DEF Contents, Front, Wrap
  <1>3. Offered' = Offered
    BY DEF Offered, IInv, TypeOK
  <1>4. Taken' = Taken
    BY DEF Taken, IInv, TypeOK
  <1> QED
    BY <1>2, <1>3, <1>4

LEMMA ReturnStutters ==
    ASSUME IInv, NEW t \in Thread, EnqueueReturn(t)
    PROVE  UNCHANGED <<Contents, Offered, Taken>>
  <1> USE DEF EnqueueReturn, At, Goto
  <1>1. /\ pc[t] = "eRet"
        /\ \A u \in Thread : pc'[u] = IF u = t THEN "idle" ELSE pc[u]
        /\ \A u \in Thread : u # t => arg'[u] = arg[u]
    BY DEF IInv, TypeOK
  <1>2. Contents' = Contents
    BY <1>1, SameContents
  <1>3. Offered' = Offered /\ Taken' = Taken
    BY <1>1 DEF Offered, Taken
  <1> QED
    BY <1>2, <1>3

\* The store of a new value misses the queued ones.
LEMMA StoreStutters ==
    ASSUME IInv, NEW t \in Thread, EnqueueStore(t)
    PROVE  UNCHANGED <<Contents, Offered, Taken>>
  <1> USE QueueAssumption DEF EnqueueStore, At, Goto
  <1>1. /\ pc[t] = "eCheck"
        /\ \A u \in Thread : pc'[u] = IF u = t THEN "eTail" ELSE pc[u]
        /\ \A u \in Thread : u # t => pc[u] \notin Locked
    BY Exclusion DEF IInv, TypeOK, Locked
  <1>2. size < Max /\ tail = Wrap(Front + size)
    BY <1>1, FrontSlot DEF IInv, TypeOK, RingConsistent, Locked, Slot
  <1>3. Front' = Front
    BY <1>1 DEF Front, Wrap
  <1>4. \A i \in 1..size : /\ Wrap(Front + i - 1) # tail
                           /\ Wrap(Front + i - 1) \in Slot
    BY <1>2, FrontSlot DEF IInv, TypeOK, Wrap, Slot
  <1>5. Contents' = Contents
    BY <1>3, <1>4 DEF Contents, IInv, TypeOK, Wrap
  <1>6. Offered' = Offered /\ Taken' = Taken
    BY <1>1 DEF Offered, Taken
  <1> QED
    BY <1>5, <1>6

\* dequeue moves head before size: the oldest value is then behind head.
LEMMA AdvanceStutters ==
    ASSUME IInv, NEW t \in Thread, DequeueAdvance(t)
    PROVE  UNCHANGED <<Contents, Offered, Taken>>
  <1> USE QueueAssumption DEF DequeueAdvance, At, Goto
  <1>1. /\ pc[t] = "dHead"
        /\ \A u \in Thread : pc'[u] = IF u = t THEN "dSize" ELSE pc[u]
        /\ \A u \in Thread : u # t => pc[u] \notin Locked
    BY Exclusion DEF IInv, TypeOK, Locked
  <1>2. Front = head /\ Front' = Wrap(head' + Max - 1)
    BY <1>1 DEF Front, Locked, Wrap
  <1>3. Front' = Front
    BY <1>2, NextSlot DEF IInv, TypeOK, Wrap, Slot
  <1>4. Contents' = Contents
    BY <1>3 DEF Contents, Wrap
  <1>5. Offered' = Offered /\ Taken' = Taken
    BY <1>1 DEF Offered, Taken
  <1> QED
    BY <1>4, <1>5

LEMMA NextFifo == IInv /\ [Next]_vars => [Fifo!FifoNext]_(Fifo!fifoVars)
  <1> SUFFICES ASSUME IInv, [Next]_vars
               PROVE  Fifo!FifoNext \/ UNCHANGED <<Contents, Offered, Taken>>
    BY DEF Fifo!fifoVars
  <1>1. CASE \E t \in Producer, v \in Value : EnqueueCall(t, v)
    BY <1>1, CallIsOffer, QueueAssumption DEF Fifo!FifoNext
  <1>2. CASE \E t \in Consumer : DequeueCall(t)
    BY <1>2, OtherStutters, QueueAssumption
  <1>3. CASE \E t \in Thread : EnqueueStep(t)
    BY <1>3, OtherStutters, ReturnStutters, StoreStutters, UnlockIsPut
       DEF EnqueueStep, Fifo!FifoNext
  <1>4. CASE \E t \in Thread : DequeueStep(t)
    BY <1>4, OtherStutters, AdvanceStutters, UnlockIsTake, BroadcastIsReturn
       DEF DequeueStep, Fifo!FifoNext
  <1>5. CASE \E t \in Thread : SpuriousWakeup(t)
    BY <1>5, OtherStutters
  <1>6. CASE \E t \in Cancellable : Cancel(t)
    BY <1>6, OtherStutters, QueueAssumption
  <1>7. CASE UNCHANGED vars
    BY <1>7 DEF vars, Contents, Offered, Taken, Front, Wrap
  <1> QED
    BY <1>1, <1>2, <1>3, <1>4, <1>5, <1>6, <1>7 DEF Next

\* enqueue and dequeue implement a bounded first-in first-out buffer for any
\* number of threads and any capacity, with or without cancelled threads.
THEOREM QueueImplementsFifo == Spec => ImplementsFifo
  <1>1. Init => Fifo!FifoInit
    BY InitFifo
  <1>2. IInv /\ [Next]_vars => [Fifo!FifoNext]_(Fifo!fifoVars)
    BY NextFifo
  <1> QED
    BY <1>1, <1>2, QueueInvariant, PTL DEF Spec, ImplementsFifo, Fifo!FifoSpec
=============================================================================
