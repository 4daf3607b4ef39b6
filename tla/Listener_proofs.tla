--------------------------- MODULE Listener_proofs ---------------------------
(***************************************************************************)
(* The invariants of the worker, alone and under the components that       *)
(* listen in a thread of it, for every set of clients, threads and jobs;   *)
(* and those of the futures it hands out.                                  *)
(***************************************************************************)
EXTENDS Listener, FutureValue, FiniteSetTheorems, SequenceTheorems, TLAPS

-----------------------------------------------------------------------------
(* Sequences, and counting what is in them *)

\* Where an element of a sequence is after an append.
LEMMA AppendSlots ==
    ASSUME NEW S, NEW s \in Seq(S), NEW v \in S
    PROVE  /\ Append(s, v) \in Seq(S)
           /\ Len(Append(s, v)) = Len(s) + 1
           /\ \A i \in 1..(Len(s) + 1) :
                 Append(s, v)[i] = IF i = Len(s) + 1 THEN v ELSE s[i]
  BY AppendProperties, LenProperties

\* Where an element of a sequence is once the first one is taken.
LEMMA TailSlots ==
    ASSUME NEW S, NEW s \in Seq(S), s # << >>
    PROVE  /\ Head(s) = s[1] /\ s[1] \in S
           /\ Tail(s) \in Seq(S)
           /\ Len(s) \in Nat \ {0}
           /\ Len(Tail(s)) = Len(s) - 1
           /\ \A i \in 1..(Len(s) - 1) : Tail(s)[i] = s[i + 1]
  BY HeadTailProperties, LenProperties, EmptySeq

\* How often v is in a sequence, as the number of its slots.
Slots(s, v) == {i \in 1..Len(s) : s[i] = v}

LEMMA SlotsFinite ==
    ASSUME NEW S, NEW s \in Seq(S), NEW v
    PROVE  /\ IsFiniteSet(Slots(s, v))
           /\ Cardinality(Slots(s, v)) \in Nat
  <1>1. Len(s) \in Nat
    BY LenProperties
  <1>2. IsFiniteSet(1..Len(s))
    BY <1>1, FS_Interval
  <1>3. Slots(s, v) \in SUBSET (1..Len(s))
    BY DEF Slots
  <1>4. IsFiniteSet(Slots(s, v))
    BY <1>2, <1>3, FS_Subset
  <1> QED
    BY <1>4, FS_CardinalityType

LEMMA CountAppend ==
    ASSUME NEW S, NEW s \in Seq(S), NEW v, NEW x \in S
    PROVE  Cardinality(Slots(Append(s, x), v))
             = Cardinality(Slots(s, v)) + (IF x = v THEN 1 ELSE 0)
  <1>1. Len(s) \in Nat /\ Len(s) + 1 \notin Slots(s, v)
    BY LenProperties DEF Slots
  <1>2. IsFiniteSet(Slots(s, v)) /\ Cardinality(Slots(s, v)) \in Nat
    BY SlotsFinite
  <1>3. CASE x = v
    <2>1. Slots(Append(s, x), v) = Slots(s, v) \cup {Len(s) + 1}
      BY <1>1, <1>3, AppendSlots DEF Slots
    <2> QED
      BY <1>1, <1>2, <1>3, <2>1, FS_AddElement
  <1>4. CASE x # v
    <2>1. Slots(Append(s, x), v) = Slots(s, v)
      BY <1>1, <1>4, AppendSlots DEF Slots
    <2> QED
      BY <1>2, <1>4, <2>1
  <1> QED
    BY <1>3, <1>4

LEMMA CountTail ==
    ASSUME NEW S, NEW s \in Seq(S), s # << >>, NEW v
    PROVE  Cardinality(Slots(Tail(s), v))
             = Cardinality(Slots(s, v)) - (IF s[1] = v THEN 1 ELSE 0)
  <1> DEFINE Rest == Slots(s, v) \ {1}
             shift == [i \in Rest |-> i - 1]
  <1>1. Len(s) \in Nat \ {0}
    BY TailSlots
  <1>2. IsFiniteSet(Slots(s, v)) /\ Cardinality(Slots(s, v)) \in Nat
    BY SlotsFinite
  <1>3. IsFiniteSet(Rest)
    BY <1>2, FS_RemoveElement
  <1>4. \A i : i \in Rest <=> i \in Int /\ i - 1 \in Slots(Tail(s), v)
    BY <1>1, TailSlots DEF Slots
  <1>5. shift \in Bijection(Rest, Slots(Tail(s), v))
    <2>1. shift \in [Rest -> Slots(Tail(s), v)]
      BY <1>4
    <2>2. \A i, k \in Rest : shift[i] = shift[k] => i = k
      BY <1>4
    <2>3. \A n \in Slots(Tail(s), v) : \E i \in Rest : shift[i] = n
      <3> SUFFICES ASSUME NEW n \in Slots(Tail(s), v)
                   PROVE  \E i \in Rest : shift[i] = n
        OBVIOUS
      <3>1. n \in Int /\ n + 1 \in Int /\ (n + 1) - 1 = n
        BY DEF Slots
      <3>2. n + 1 \in Rest
        BY <1>4, <3>1
      <3> QED
        BY <3>1, <3>2
    <2> QED
      BY <2>1, <2>2, <2>3 DEF Bijection, Injection, Surjection, IsInjective
  <1>6. Cardinality(Slots(Tail(s), v)) = Cardinality(Rest)
    BY <1>3, <1>5, FS_Bijection DEF ExistsBijection
  <1>7. 1 \in Slots(s, v) <=> s[1] = v
    BY <1>1 DEF Slots
  <1>8. Cardinality(Rest) = IF 1 \in Slots(s, v) THEN Cardinality(Slots(s, v)) - 1
                            ELSE Cardinality(Slots(s, v))
    BY <1>2, FS_RemoveElement
  <1> QED
    BY <1>2, <1>6, <1>7, <1>8

\* A set in which any two elements are the same has at most one.
LEMMA AtMostOne ==
    ASSUME NEW S, \A x, y \in S : x = y
    PROVE  Cardinality(S) \in 0..1 /\ (S = {} => Cardinality(S) = 0)
  <1>1. CASE S = {}
    BY <1>1, FS_EmptySet
  <1>2. CASE S # {}
    <2>1. PICK x \in S : TRUE
      BY <1>2
    <2>2. S = {x}
      BY <2>1
    <2> QED
      BY <1>2, <2>2, FS_Singleton
  <1> QED
    BY <1>1, <1>2

-----------------------------------------------------------------------------
(* The worker: what the steps of its threads keep *)

\* The requests that are queued and the threads they are for can be counted.
LEMMA Countable ==
    ASSUME TypeOK
    PROVE  /\ IsFiniteSet(PillSlots) /\ Cardinality(PillSlots) \in Nat
           /\ IsFiniteSet(PillHolders) /\ Cardinality(PillHolders) \in Nat
           /\ IsFiniteSet(Exited) /\ Cardinality(Exited) \in Nat
           /\ IsFiniteSet(toStop) /\ Cardinality(toStop) \in Nat
           /\ Count \in Nat
  <1>1. PillSlots = Slots(work, Pill)
    BY DEF PillSlots, Slots
  <1>2. IsFiniteSet(PillSlots) /\ Cardinality(PillSlots) \in Nat
    BY <1>1, SlotsFinite DEF TypeOK
  <1>3. /\ PillHolders \in SUBSET WorkerThread /\ Exited \in SUBSET WorkerThread
        /\ toStop \in SUBSET WorkerThread
    BY DEF PillHolders, Exited, TypeOK
  <1>4. /\ IsFiniteSet(PillHolders) /\ IsFiniteSet(Exited)
        /\ IsFiniteSet(toStop) /\ IsFiniteSet(WorkerThread)
    BY <1>3, FS_Subset, WorkerAssumption
  <1> QED
    BY <1>2, <1>4, FS_CardinalityType DEF Count

LEMMA InitWorker == Init => WorkerInv
  <1> SUFFICES ASSUME Init PROVE WorkerInv
    OBVIOUS
  <1> USE WorkerAssumption DEF Init, Thread
  <1>1. Len(work) = 0
    OBVIOUS
  <1>2. TypeOK
    <2>1. Count \in Nat
      BY FS_CardinalityType DEF Count
    <2> QED
      BY <1>1, <2>1 DEF TypeOK, ClientPC, WorkerPC
  <1>3. HandsMatch
    BY DEF HandsMatch, ClientPC, WorkerPC
  <1>4. OnePlace
    BY <1>1 DEF OnePlace, InOnePlace
  <1>5. OnlySubmitted
    BY <1>1 DEF OnlySubmitted, Entered, InQueue
  <1>6. OwnerProgress
    BY <1>1 DEF OwnerProgress, ShutsDown, PillSlots, PillHolders, Exited
  <1>7. EarlyFirst
    BY DEF EarlyFirst
  <1> QED
    BY <1>2, <1>3, <1>4, <1>5, <1>6, <1>7 DEF WorkerInv

\* A job that is queued, with a thread, or that ran.
LEMMA EnteredJobs ==
    \A j : j \in Entered <=>
              /\ j \in Job
              /\ \/ \E i \in 1..Len(work) : work[i] = j
                 \/ runs[j] > 0
                 \/ \E w \in WorkerThread : got[w] = j
  BY DEF Entered, InQueue

\* The requests as they are counted do not change with a step that leaves
\* the queue, the hands of the threads and the threads that ended alone.
LEMMA SamePills ==
    ASSUME UNCHANGED <<work, got>>,
           \A w \in WorkerThread : pc'[w] = "exited" <=> pc[w] = "exited"
    PROVE  UNCHANGED <<PillSlots, PillHolders, Exited, PillsMade>>
  BY DEF PillSlots, PillHolders, Exited, PillsMade

-----------------------------------------------------------------------------
(* Steps of clients that do not shut down *)

\* submit: the job is nowhere yet.
LEMMA SubmitCallStep ==
    ASSUME WorkerInv, NEW c \in Client, NEW j \in Job, SubmitCall(c, j)
    PROVE  WorkerInv'
  <1> USE WorkerAssumption DEF SubmitCall, Move, Work!Offer
  <1>1. c \in Thread /\ Client \subseteq Thread /\ WorkerThread \subseteq Thread
    BY DEF Thread
  <1>2. /\ \A t \in Thread : pc'[t] = IF t = c THEN "submit" ELSE pc[t]
        /\ \A t \in Thread : offer'[t] = IF t = c THEN j ELSE offer[t]
    BY <1>1 DEF WorkerInv, TypeOK
  <1>3. TypeOK'
    BY <1>1 DEF WorkerInv, TypeOK, ClientPC
  <1>4. HandsMatch'
    BY <1>1, <1>2 DEF WorkerInv, HandsMatch, ClientPC, WorkerPC
  <1>5. /\ \A t \in Thread : offer[t] # j
        /\ \A i \in 1..Len(work) : work[i] # j
        /\ \A w \in WorkerThread : got[w] # j
        /\ runs[j] = 0
    BY EnteredJobs DEF WorkerInv, OnlySubmitted, TypeOK
  <1>6. OnePlace'
    <2> SUFFICES ASSUME NEW k \in Job
                 PROVE  InOnePlace(k)'
      BY DEF OnePlace
    <2>1. CASE k = j
      BY <1>1, <1>2, <1>5, <2>1 DEF WorkerInv, OnePlace, InOnePlace, HandsMatch
    <2>2. CASE k # j
      BY <1>1, <1>2, <2>2 DEF WorkerInv, OnePlace, InOnePlace, HandsMatch
    <2> QED
      BY <2>1, <2>2
  <1>7. OnlySubmitted'
    BY <1>1, <1>2 DEF WorkerInv, OnlySubmitted, Entered, InQueue, TypeOK
  <1>8. /\ \A w \in WorkerThread : pc'[w] = pc[w]
        /\ pc[Owner] \in {"idle", "submit"} => pc'[Owner] \in {"idle", "submit"}
        /\ pc[Owner] \notin {"idle", "submit"} => pc'[Owner] = pc[Owner]
        /\ UNCHANGED <<PillSlots, PillHolders, Exited, PillsMade>>
    BY <1>1, <1>2, SamePills
  <1>9. OwnerProgress'
    BY <1>8 DEF WorkerInv, OwnerProgress, ShutsDown
  <1>10. EarlyFirst'
    BY <1>8 DEF WorkerInv, EarlyFirst, InQueue
  <1> QED
    BY <1>3, <1>4, <1>6, <1>7, <1>9, <1>10 DEF WorkerInv

\* A step that leaves the queue, the hands, the futures and the counts alone,
\* in which every thread stays or goes on with the same hands, keeps the
\* jobs where they are.
LEMMA SamePlaces ==
    ASSUME WorkerInv, UNCHANGED <<queueVars, fut, runs>>,
           \A w \in WorkerThread : pc'[w] \in {pc[w], "dead", "deadlocked"}
    PROVE  OnePlace'
  BY DEF WorkerInv, OnePlace, InOnePlace, queueVars

\* Reading a future.
LEMMA GetStep ==
    ASSUME WorkerInv, NEW c \in Client,
           (\E j \in Job : GetCall(c, j)) \/ GetReturn(c)
    PROVE  WorkerInv'
  <1> USE WorkerAssumption DEF GetCall, GetReturn, Move, queueVars
  <1>1. c \in Thread /\ Client \subseteq Thread /\ WorkerThread \subseteq Thread
    BY DEF Thread
  <1>2. /\ pc[c] \in {"idle", "get"} /\ pc'[c] \in {"idle", "get"}
        /\ \A t \in Thread : t # c => pc'[t] = pc[t]
    BY <1>1 DEF WorkerInv, TypeOK
  <1>3. TypeOK'
    <2>1. pc' \in [Thread -> ClientPC \cup WorkerPC]
      BY <1>1 DEF WorkerInv, TypeOK, ClientPC
    <2>2. want' \in [Client -> Job \cup {Nothing}]
      BY DEF WorkerInv, TypeOK
    <2> QED
      BY <2>1, <2>2 DEF WorkerInv, TypeOK
  <1>4. HandsMatch'
    BY <1>1, <1>2 DEF WorkerInv, HandsMatch, ClientPC, WorkerPC
  <1>5. OnePlace'
    BY <1>1, <1>2, SamePlaces
  <1>6. OnlySubmitted'
    BY DEF WorkerInv, OnlySubmitted, Entered, InQueue
  <1>7. /\ \A w \in WorkerThread : pc'[w] = pc[w]
        /\ pc[Owner] \in {"idle", "get"} => pc'[Owner] \in {"idle", "get"}
        /\ pc[Owner] \notin {"idle", "get"} => pc'[Owner] = pc[Owner]
        /\ UNCHANGED <<PillSlots, PillHolders, Exited, PillsMade>>
    BY <1>1, <1>2, SamePills
  <1>8. OwnerProgress'
    BY <1>7 DEF WorkerInv, OwnerProgress, ShutsDown
  <1>9. EarlyFirst'
    BY <1>7 DEF WorkerInv, EarlyFirst, InQueue
  <1> QED
    BY <1>3, <1>4, <1>5, <1>6, <1>8, <1>9 DEF WorkerInv

\* What Put does to the queue and to the hands of the thread.
LEMMA PutFacts ==
    ASSUME WorkerInv, NEW t \in Thread, Work!Put(t)
    PROVE  /\ offer[t] \in Job \cup {Pill}
           /\ work' \in Seq(Job \cup {Pill}) /\ Len(work') <= Count
           /\ Len(work) \in Nat /\ Len(work') = Len(work) + 1
           /\ \A i \in 1..Len(work') :
                 work'[i] = IF i = Len(work) + 1 THEN offer[t] ELSE work[i]
           /\ \A u \in Thread :
                 offer'[u] = IF u = t THEN Nothing ELSE offer[u]
           /\ Cardinality(PillSlots') = Cardinality(PillSlots)
                                          + (IF offer[t] = Pill THEN 1 ELSE 0)
  <1> USE DEF WorkerInv, TypeOK, Work!Put
  <1>1. offer[t] \in Job \cup {Pill}
    OBVIOUS
  <1>2. /\ work' \in Seq(Job \cup {Pill}) /\ Len(work') = Len(work) + 1
        /\ \A i \in 1..(Len(work) + 1) :
              work'[i] = IF i = Len(work) + 1 THEN offer[t] ELSE work[i]
    BY <1>1, AppendSlots
  <1>3. Len(work) \in Nat /\ Count \in Nat
    BY LenProperties, Countable
  <1>4. PillSlots = Slots(work, Pill) /\ PillSlots' = Slots(Append(work, offer[t]), Pill)
    BY DEF PillSlots, Slots
  <1>5. Cardinality(PillSlots') = Cardinality(PillSlots)
                                    + (IF offer[t] = Pill THEN 1 ELSE 0)
    BY <1>1, <1>4, CountAppend
  <1> QED
    BY <1>1, <1>2, <1>3, <1>5

\* submit returns: the job is the last of the queue, behind the requests, so
\* it may be none of those the shutdown waits for.
LEMMA SubmitReturnStep ==
    ASSUME WorkerInv, NEW c \in Client, SubmitReturn(c)
    PROVE  WorkerInv'
  <1> USE WorkerAssumption DEF SubmitReturn, Move
  <1>1. c \in Thread /\ Client \subseteq Thread /\ WorkerThread \subseteq Thread
    BY DEF Thread
  <1>2. /\ \A t \in Thread : pc'[t] = IF t = c THEN "idle" ELSE pc[t]
        /\ pc[c] = "submit" /\ offer[c] \in Job
    BY <1>1 DEF WorkerInv, TypeOK, HandsMatch
  <1> DEFINE j == offer[c]
  <1>3. /\ work' \in Seq(Job \cup {Pill}) /\ Len(work') <= Count
        /\ Len(work) \in Nat /\ Len(work') = Len(work) + 1
        /\ \A i \in 1..Len(work') :
              work'[i] = IF i = Len(work) + 1 THEN j ELSE work[i]
        /\ \A u \in Thread : offer'[u] = IF u = c THEN Nothing ELSE offer[u]
        /\ got' = got
    BY <1>1, PutFacts DEF Work!Put
  <1>4. TypeOK'
    BY <1>1, <1>3 DEF WorkerInv, TypeOK, ClientPC, Work!Put
  <1>5. HandsMatch'
    BY <1>1, <1>2, <1>3 DEF WorkerInv, HandsMatch, ClientPC, WorkerPC
  <1>6. OnePlace'
    <2> SUFFICES ASSUME NEW k \in Job
                 PROVE  InOnePlace(k)'
      BY DEF OnePlace
    <2>1. InOnePlace(k) /\ InOnePlace(j)
      BY <1>2 DEF WorkerInv, OnePlace
    <2>2. CASE k = j
      BY <1>1, <1>2, <1>3, <2>1, <2>2 DEF InOnePlace
    <2>3. CASE k # j
      BY <1>1, <1>2, <1>3, <2>1, <2>3 DEF InOnePlace
    <2> QED
      BY <2>2, <2>3
  <1>7. OnlySubmitted'
    <2>1. j \in submitted /\ j \notin early
      BY <1>1, <1>2 DEF WorkerInv, OnlySubmitted
    <2>2. \A k \in Job : k \in Entered' => k \in Entered \/ k = j
      BY <1>3 DEF Entered, InQueue
    <2>3. Nothing \notin early
      BY DEF WorkerInv, TypeOK
    <2> QED
      BY <1>1, <1>3, <2>1, <2>2, <2>3 DEF WorkerInv, OnlySubmitted
  <1>8. /\ PillSlots' = PillSlots
        /\ PillHolders' = PillHolders /\ Exited' = Exited
    BY <1>1, <1>2, <1>3 DEF PillSlots, PillHolders, Exited
  <1>9. PillsMade' = PillsMade
    BY <1>8 DEF PillsMade
  <1>10. OwnerProgress'
    <2>1. /\ pc[Owner] \in {"idle", "submit"} => pc'[Owner] \in {"idle", "submit"}
          /\ pc[Owner] \notin {"idle", "submit"} => pc'[Owner] = pc[Owner]
      BY <1>1, <1>2
    <2> QED
      BY <1>8, <1>9, <2>1 DEF WorkerInv, OwnerProgress, ShutsDown
  <1>11. EarlyFirst'
    <2>1. j \notin early
      BY <1>1 DEF WorkerInv, OnlySubmitted
    <2>2. \A k : k \in InQueue => k \in InQueue'
      BY <1>3 DEF InQueue
    <2> QED
      BY <1>3, <1>8, <2>1, <2>2 DEF WorkerInv, EarlyFirst
  <1> QED
    BY <1>4, <1>5, <1>6, <1>7, <1>10, <1>11 DEF WorkerInv

-----------------------------------------------------------------------------
(* Steps of the worker threads *)

\* What Take does to the queue and to the hands of the thread.
LEMMA TakeFacts ==
    ASSUME WorkerInv, NEW w \in WorkerThread, Work!Take(w)
    PROVE  /\ got[w] = Nothing
           /\ Len(work) \in Nat \ {0} /\ work[1] \in Job \cup {Pill}
           /\ work' \in Seq(Job \cup {Pill}) /\ Len(work') = Len(work) - 1
           /\ \A i \in 1..Len(work') : work'[i] = work[i + 1]
           /\ \A x \in WorkerThread :
                 got'[x] = IF x = w THEN work[1] ELSE got[x]
           /\ Cardinality(PillSlots') = Cardinality(PillSlots)
                                          - (IF work[1] = Pill THEN 1 ELSE 0)
  <1> USE DEF WorkerInv, TypeOK, Work!Take
  <1>1. /\ Head(work) = work[1] /\ work[1] \in Job \cup {Pill}
        /\ Len(work) \in Nat \ {0}
        /\ work' \in Seq(Job \cup {Pill}) /\ Len(work') = Len(work) - 1
        /\ \A i \in 1..(Len(work) - 1) : work'[i] = work[i + 1]
    BY TailSlots
  <1>2. \A x \in WorkerThread : got'[x] = IF x = w THEN work[1] ELSE got[x]
    BY <1>1 DEF Thread
  <1>3. PillSlots = Slots(work, Pill) /\ PillSlots' = Slots(Tail(work), Pill)
    BY DEF PillSlots, Slots
  <1>4. Cardinality(PillSlots') = Cardinality(PillSlots)
                                    - (IF work[1] = Pill THEN 1 ELSE 0)
    BY <1>3, CountTail
  <1> QED
    BY <1>1, <1>2, <1>4

\* dequeue hands the first job or request of the queue to the thread.
LEMMA DequeueStep ==
    ASSUME WorkerInv, NEW w \in WorkerThread, DequeueWork(w)
    PROVE  WorkerInv'
  <1> USE WorkerAssumption DEF DequeueWork, Move
  <1>1. w \in Thread /\ Client \subseteq Thread /\ WorkerThread \subseteq Thread
        /\ w \notin Client
    BY DEF Thread
  <1>2. /\ \A t \in Thread : pc'[t] = IF t = w THEN "call" ELSE pc[t]
        /\ pc[w] = "dequeue" /\ offer' = offer
    BY <1>1 DEF WorkerInv, TypeOK, Work!Take
  <1>3. /\ got[w] = Nothing
        /\ Len(work) \in Nat \ {0} /\ work[1] \in Job \cup {Pill}
        /\ work' \in Seq(Job \cup {Pill}) /\ Len(work') = Len(work) - 1
        /\ \A i \in 1..Len(work') : work'[i] = work[i + 1]
        /\ \A x \in WorkerThread : got'[x] = IF x = w THEN work[1] ELSE got[x]
        /\ \A c \in Client : got'[c] = got[c]
    BY <1>1, TakeFacts DEF Work!Take, WorkerInv, TypeOK
  <1>4. TypeOK'
    <2>1. got' \in [Thread -> Job \cup {Pill, Nothing}]
      BY <1>1, <1>3, TailSlots DEF WorkerInv, TypeOK, Work!Take
    <2>2. Len(work') <= Count
      BY <1>3, Countable DEF WorkerInv, TypeOK
    <2> QED
      BY <1>1, <1>2, <1>3, <2>1, <2>2 DEF WorkerInv, TypeOK, WorkerPC
  <1>5. HandsMatch'
    BY <1>1, <1>2, <1>3 DEF WorkerInv, HandsMatch, ClientPC, WorkerPC
  <1>6. /\ \A i \in 1..Len(work') : i + 1 \in 1..Len(work) /\ i + 1 # 1
        /\ 1 \in 1..Len(work)
        /\ \A i \in 1..Len(work) : i # 1 => /\ i - 1 \in 1..Len(work')
                                          /\ work'[i - 1] = work[i]
    <2>1. /\ \A i \in 1..Len(work') : i + 1 \in 1..Len(work) /\ i + 1 # 1
          /\ 1 \in 1..Len(work)
      BY <1>3
    <2>2. ASSUME NEW i \in 1..Len(work), i # 1
          PROVE  i - 1 \in 1..Len(work') /\ work'[i - 1] = work[i]
      <3>1. i - 1 \in 1..Len(work') /\ (i - 1) + 1 = i
        BY <1>3, <2>2
      <3> QED
        BY <1>3, <3>1
    <2> QED
      BY <2>1, <2>2
  <1>7. OnePlace'
    <2> SUFFICES ASSUME NEW k \in Job
                 PROVE  InOnePlace(k)'
      BY DEF OnePlace
    <2>1. InOnePlace(k)
      BY DEF WorkerInv, OnePlace
    <2>2. CASE work[1] = k
      <3>1. \A i \in 1..Len(work') : work'[i] # k
        <4> SUFFICES ASSUME NEW i \in 1..Len(work'), work'[i] = k
                     PROVE  FALSE
          OBVIOUS
        <4>1. i + 1 \in 1..Len(work) /\ work[i + 1] = k /\ i + 1 # 1
          BY <1>3, <1>6
        <4> QED
          BY <1>6, <2>1, <2>2, <4>1 DEF InOnePlace
      <3>2. \A x \in WorkerThread : got'[x] = k <=> x = w
        BY <1>3, <1>6, <2>1, <2>2 DEF InOnePlace
      <3>3. runs[k] = 0 /\ fut[k] = Nothing /\ \A t \in Thread : offer[t] # k
        BY <1>6, <2>1, <2>2 DEF InOnePlace
      <3> QED
        BY <1>1, <1>2, <2>1, <3>1, <3>2, <3>3 DEF InOnePlace
    <2>3. CASE work[1] # k
      <3>1. \A x \in WorkerThread : got'[x] = k <=> got[x] = k
        BY <1>3, <2>3
      <3>2. \A i, h \in 1..Len(work') : work'[i] = k /\ work'[h] = k => i = h
        <4> SUFFICES ASSUME NEW i \in 1..Len(work'), NEW h \in 1..Len(work'),
                            work'[i] = k, work'[h] = k
                     PROVE  i = h
          OBVIOUS
        <4>1. /\ i + 1 \in 1..Len(work) /\ work[i + 1] = k
              /\ h + 1 \in 1..Len(work) /\ work[h + 1] = k
          BY <1>3, <1>6
        <4>2. i + 1 = h + 1
          BY <2>1, <4>1 DEF InOnePlace
        <4> QED
          BY <4>2
      <3>3. (\E i \in 1..Len(work') : work'[i] = k) =>
               (\E i \in 1..Len(work) : work[i] = k)
        BY <1>3, <1>6
      <3>4. \A x \in WorkerThread : got'[x] = k => pc'[x] = pc[x]
        BY <1>1, <1>2, <1>3, <2>3
      <3> QED
        BY <1>1, <1>2, <2>1, <3>1, <3>2, <3>3, <3>4 DEF InOnePlace
    <2> QED
      BY <2>2, <2>3
  <1>8. Entered' = Entered
    <2>1. \A k \in Job :
             ((\E i \in 1..Len(work') : work'[i] = k)
                \/ \E x \in WorkerThread : got'[x] = k)
             <=> ((\E i \in 1..Len(work) : work[i] = k)
                    \/ \E x \in WorkerThread : got[x] = k)
      <3> SUFFICES ASSUME NEW k \in Job
                   PROVE  ((\E i \in 1..Len(work') : work'[i] = k)
                              \/ \E x \in WorkerThread : got'[x] = k)
                          <=> ((\E i \in 1..Len(work) : work[i] = k)
                                 \/ \E x \in WorkerThread : got[x] = k)
        OBVIOUS
      <3>1. (\E i \in 1..Len(work') : work'[i] = k) =>
               \E i \in 1..Len(work) : work[i] = k
        BY <1>3, <1>6
      <3>2. (\E x \in WorkerThread : got'[x] = k) =>
               work[1] = k \/ \E x \in WorkerThread : got[x] = k
        BY <1>3
      <3>3. (\E x \in WorkerThread : got[x] = k) =>
               \E x \in WorkerThread : got'[x] = k
        BY <1>3 DEF WorkerInv, TypeOK
      <3>4. (\E i \in 1..Len(work) : work[i] = k) =>
               got'[w] = k \/ \E i \in 1..Len(work') : work'[i] = k
        BY <1>3, <1>6
      <3> QED
        BY <1>6, <3>1, <3>2, <3>3, <3>4
    <2> QED
      BY <2>1, EnteredJobs DEF Entered, InQueue
  <1>9. OnlySubmitted'
    BY <1>2, <1>8 DEF WorkerInv, OnlySubmitted
  <1>10. Exited' = Exited
    BY <1>1, <1>2 DEF Exited
  <1>11. PillHolders' = IF work[1] = Pill THEN PillHolders \cup {w} ELSE PillHolders
    BY <1>3 DEF PillHolders
  <1>12. w \notin PillHolders
    BY <1>3 DEF PillHolders
  <1>13. PillsMade' = PillsMade
    <2>1. Cardinality(PillSlots') = Cardinality(PillSlots)
                                     - (IF work[1] = Pill THEN 1 ELSE 0)
      BY TakeFacts
    <2>2. Cardinality(PillHolders \cup {w}) = Cardinality(PillHolders) + 1
      BY <1>12, Countable, FS_AddElement DEF WorkerInv
    <2> QED
      BY <1>10, <1>11, <2>1, <2>2, Countable DEF PillsMade, WorkerInv
  <1>14. pc'[Owner] = pc[Owner]
    BY <1>1, <1>2
  <1>15. \A i \in PillSlots' : i + 1 \in PillSlots
    BY <1>3, <1>6 DEF PillSlots
  <1>16. OwnerProgress'
    <2>1. PillSlots = {} /\ PillHolders = {} => PillSlots' = {} /\ PillHolders' = {}
      BY <1>6, <1>11, <1>15 DEF PillSlots
    <2> QED
      BY <1>10, <1>13, <1>14, <2>1 DEF WorkerInv, OwnerProgress, ShutsDown
  <1>17. EarlyFirst'
    <2> SUFFICES ASSUME NEW k \in early
                 PROVE  /\ fut[k] # Nothing \/ k \in InQueue'
                             \/ \E x \in WorkerThread : got'[x] = k
                        /\ \A i \in 1..Len(work') : work'[i] = k =>
                               /\ \A h \in PillSlots' : i < h
                               /\ PillHolders' = {} /\ Exited' = {}
      BY DEF EarlyFirst
    <2>1. fut[k] # Nothing \/ k \in InQueue' \/ \E x \in WorkerThread : got'[x] = k
      <3>1. fut[k] # Nothing \/ (\E i \in 1..Len(work) : work[i] = k)
               \/ \E x \in WorkerThread : got[x] = k
        BY DEF WorkerInv, EarlyFirst, InQueue
      <3>2. (\E x \in WorkerThread : got[x] = k) =>
               \E x \in WorkerThread : got'[x] = k
        BY <1>3 DEF WorkerInv, TypeOK
      <3>3. (\E i \in 1..Len(work) : work[i] = k) =>
               got'[w] = k \/ \E i \in 1..Len(work') : work'[i] = k
        BY <1>3, <1>6
      <3> QED
        BY <3>1, <3>2, <3>3 DEF InQueue, DequeueWork, Work!Take
    <2>2. ASSUME NEW i \in 1..Len(work'), work'[i] = k
          PROVE  /\ \A h \in PillSlots' : i < h
                 /\ PillHolders' = {} /\ Exited' = {}
      <3>1. /\ i + 1 \in 1..Len(work) /\ work[i + 1] = k
        BY <1>3, <1>6, <2>2
      <3>2. /\ \A h \in PillSlots : i + 1 < h
            /\ PillHolders = {} /\ Exited = {}
        BY <3>1 DEF WorkerInv, EarlyFirst
      <3>3. work[1] # Pill
        BY <1>6, <3>2 DEF PillSlots
      <3>4. \A h \in PillSlots' : h \in Nat /\ i + 1 < h + 1
        BY <1>15, <3>2 DEF PillSlots
      <3> QED
        BY <1>10, <1>11, <3>2, <3>3, <3>4
    <2> QED
      BY <2>1, <2>2
  <1> QED
    BY <1>4, <1>5, <1>7, <1>9, <1>16, <1>17 DEF WorkerInv

\* A thread ends with the request it took: none of the jobs the shutdown
\* waits for is still queued then.
LEMMA CallPillStep ==
    ASSUME WorkerInv, NEW w \in WorkerThread, CallPill(w)
    PROVE  WorkerInv'
  <1> USE WorkerAssumption DEF CallPill, Move, Work!Return
  <1>1. w \in Thread /\ Client \subseteq Thread /\ WorkerThread \subseteq Thread
        /\ w \notin Client
    BY DEF Thread
  <1>2. /\ \A t \in Thread : pc'[t] = IF t = w THEN "exited" ELSE pc[t]
        /\ \A t \in Thread : got'[t] = IF t = w THEN Nothing ELSE got[t]
        /\ pc[w] = "call" /\ got[w] = Pill /\ offer' = offer
    BY <1>1 DEF WorkerInv, TypeOK
  <1>3. TypeOK'
    BY <1>1 DEF WorkerInv, TypeOK, WorkerPC
  <1>4. HandsMatch'
    BY <1>1, <1>2 DEF WorkerInv, HandsMatch, ClientPC, WorkerPC
  <1>5. \A k \in Job, x \in WorkerThread : got'[x] = k <=> got[x] = k
    BY <1>1, <1>2
  <1>6. OnePlace'
    <2> SUFFICES ASSUME NEW k \in Job
                 PROVE  InOnePlace(k)'
      BY DEF OnePlace
    <2>1. InOnePlace(k)
      BY DEF WorkerInv, OnePlace
    <2>2. \A x \in WorkerThread : got'[x] = k => pc'[x] = pc[x]
      BY <1>1, <1>2
    <2> QED
      BY <1>5, <2>1, <2>2 DEF InOnePlace
  <1>7. OnlySubmitted'
    <2>1. Entered' = Entered
      BY <1>5 DEF Entered, InQueue
    <2> QED
      BY <1>2, <2>1 DEF WorkerInv, OnlySubmitted
  <1>8. /\ w \in PillHolders /\ w \notin Exited
        /\ PillSlots' = PillSlots
        /\ PillHolders' = PillHolders \ {w} /\ Exited' = Exited \cup {w}
    BY <1>1, <1>2 DEF PillSlots, PillHolders, Exited
  <1>9. PillsMade' = PillsMade
    <2>1. Cardinality(PillHolders \ {w}) = Cardinality(PillHolders) - 1
      BY <1>8, Countable, FS_RemoveElement DEF WorkerInv
    <2>2. Cardinality(Exited \cup {w}) = Cardinality(Exited) + 1
      BY <1>8, Countable, FS_AddElement DEF WorkerInv
    <2> QED
      BY <1>8, <2>1, <2>2, Countable DEF PillsMade, WorkerInv
  <1>10. OwnerProgress'
    <2>1. pc'[Owner] = pc[Owner]
      BY <1>1, <1>2
    <2>2. ShutsDown /\ ~(pc[Owner] = "stopped" /\ cancelled = {})
      BY <1>2, <1>8 DEF WorkerInv, OwnerProgress, Exited
    <2> QED
      BY <1>8, <1>9, <2>1, <2>2 DEF WorkerInv, OwnerProgress, ShutsDown
  <1>11. EarlyFirst'
    BY <1>5, <1>8 DEF WorkerInv, EarlyFirst, InQueue, TypeOK
  <1> QED
    BY <1>3, <1>4, <1>6, <1>7, <1>10, <1>11 DEF WorkerInv

\* A job is called: it was called never before.
LEMMA CallJobStep ==
    ASSUME WorkerInv, NEW w \in WorkerThread, CallJob(w)
    PROVE  WorkerInv'
  <1> USE WorkerAssumption DEF CallJob, Move, queueVars
  <1>1. w \in Thread /\ Client \subseteq Thread /\ WorkerThread \subseteq Thread
        /\ w \notin Client
    BY DEF Thread
  <1> DEFINE j == got[w]
  <1>2. /\ \A t \in Thread : pc'[t] = IF t = w THEN "run" ELSE pc[t]
        /\ pc[w] = "call" /\ j \in Job /\ runs[j] = 0
        /\ \A k \in Job : runs'[k] = IF k = j THEN 1 ELSE runs[k]
    BY <1>1 DEF WorkerInv, TypeOK, OnePlace, InOnePlace
  <1>3. TypeOK'
    BY <1>1 DEF WorkerInv, TypeOK, WorkerPC
  <1>4. HandsMatch'
    BY <1>1, <1>2 DEF WorkerInv, HandsMatch, ClientPC, WorkerPC
  <1>5. OnePlace'
    <2> SUFFICES ASSUME NEW k \in Job
                 PROVE  InOnePlace(k)'
      BY DEF OnePlace
    <2>1. InOnePlace(k) /\ \A x \in WorkerThread : got[x] = k => (x = w <=> k = j)
      BY <1>2 DEF WorkerInv, OnePlace, InOnePlace
    <2>2. \A x \in WorkerThread : x # w => pc'[x] = pc[x]
      BY <1>1, <1>2
    <2> QED
      BY <1>1, <1>2, <2>1, <2>2 DEF InOnePlace
  <1>6. Entered' = Entered
    BY <1>2 DEF Entered, InQueue
  <1>7. OnlySubmitted'
    BY <1>6 DEF WorkerInv, OnlySubmitted
  <1>8. pc'[Owner] = pc[Owner]
        /\ UNCHANGED <<PillSlots, PillHolders, Exited, PillsMade>>
    BY <1>1, <1>2, SamePills
  <1>9. OwnerProgress'
    BY <1>8 DEF WorkerInv, OwnerProgress, ShutsDown
  <1>10. EarlyFirst'
    BY <1>8 DEF WorkerInv, EarlyFirst, InQueue
  <1> QED
    BY <1>3, <1>4, <1>5, <1>7, <1>9, <1>10 DEF WorkerInv

\* The future gets its value as the job leaves the hands of the thread.
LEMMA FinishJobStep ==
    ASSUME WorkerInv, NEW w \in WorkerThread, FinishJob(w)
    PROVE  WorkerInv'
  <1> USE WorkerAssumption DEF FinishJob, Move, Work!Return
  <1>1. w \in Thread /\ Client \subseteq Thread /\ WorkerThread \subseteq Thread
        /\ w \notin Client
    BY DEF Thread
  <1> DEFINE j == got[w]
  <1>2. /\ \A t \in Thread : pc'[t] = IF t = w THEN "dequeue" ELSE pc[t]
        /\ \A t \in Thread : got'[t] = IF t = w THEN Nothing ELSE got[t]
        /\ pc[w] = "run" /\ j \in Job /\ offer' = offer /\ work' = work
    BY <1>1 DEF WorkerInv, TypeOK, HandsMatch
  <1>3. runs[j] = 1 /\ fut[j] = Nothing
    BY <1>2 DEF WorkerInv, OnePlace, InOnePlace
  <1>4. \A k \in Job : fut'[k] = IF k = j THEN w ELSE fut[k]
    BY <1>3 DEF WorkerInv, TypeOK
  <1>5. TypeOK'
    BY <1>1 DEF WorkerInv, TypeOK, WorkerPC
  <1>6. HandsMatch'
    BY <1>1, <1>2 DEF WorkerInv, HandsMatch, ClientPC, WorkerPC
  <1>7. \A k \in Job, x \in WorkerThread : got'[x] = k <=> got[x] = k /\ k # j
    BY <1>1, <1>2 DEF WorkerInv, OnePlace, InOnePlace
  <1>8. OnePlace'
    <2> SUFFICES ASSUME NEW k \in Job
                 PROVE  InOnePlace(k)'
      BY DEF OnePlace
    <2>1. InOnePlace(k)
      BY DEF WorkerInv, OnePlace
    <2>2. \A x \in WorkerThread : got'[x] = k => pc'[x] = pc[x]
      BY <1>1, <1>2
    <2> QED
      BY <1>1, <1>3, <1>4, <1>7, <2>1, <2>2 DEF InOnePlace
  <1>9. Entered' = Entered
    BY <1>2, <1>3, <1>7 DEF Entered, InQueue
  <1>10. OnlySubmitted'
    BY <1>2, <1>9 DEF WorkerInv, OnlySubmitted
  <1>11. UNCHANGED <<PillSlots, PillHolders, Exited>> /\ pc'[Owner] = pc[Owner]
    BY <1>1, <1>2 DEF PillSlots, PillHolders, Exited
  <1>12. OwnerProgress'
    BY <1>11 DEF WorkerInv, OwnerProgress, ShutsDown, PillsMade
  <1>13. EarlyFirst'
    BY <1>2, <1>4, <1>7, <1>11 DEF WorkerInv, EarlyFirst, InQueue, TypeOK
  <1> QED
    BY <1>5, <1>6, <1>8, <1>10, <1>12, <1>13 DEF WorkerInv

-----------------------------------------------------------------------------
(* Steps of the owner *)

\* A step of the owner that touches neither the queue nor a job.
LEMMA OwnerKeeps ==
    ASSUME WorkerInv, UNCHANGED <<queueVars, fut, runs, submitted, early>>,
           \A t \in Thread : t # Owner => pc'[t] = pc[t]
    PROVE  /\ OnePlace' /\ OnlySubmitted' /\ EarlyFirst'
           /\ UNCHANGED <<PillSlots, PillHolders, Exited, PillsMade>>
  <1> USE WorkerAssumption DEF queueVars
  <1>1. \A w \in WorkerThread : pc'[w] = pc[w]
    BY DEF Thread
  <1>2. OnePlace'
    BY <1>1, SamePlaces
  <1>3. OnlySubmitted'
    BY DEF WorkerInv, OnlySubmitted, Entered, InQueue
  <1>4. UNCHANGED <<PillSlots, PillHolders, Exited, PillsMade>>
    BY <1>1, SamePills
  <1>5. EarlyFirst'
    BY <1>4 DEF WorkerInv, EarlyFirst, InQueue
  <1> QED
    BY <1>2, <1>3, <1>4, <1>5

\* shutdown is called: no request has been made yet, and the jobs it waits
\* for are those that are queued, with a thread, or done.
LEMMA ShutdownCallStep == WorkerInv /\ ShutdownCall => WorkerInv'
  <1> SUFFICES ASSUME WorkerInv, ShutdownCall PROVE WorkerInv'
    OBVIOUS
  <1> USE WorkerAssumption DEF ShutdownCall, Move, queueVars
  <1>1. Owner \in Thread /\ Client \subseteq Thread /\ WorkerThread \subseteq Thread
        /\ Owner \notin WorkerThread
    BY DEF Thread
  <1>2. /\ \A t \in Thread : pc'[t] = IF t = Owner THEN "pill" ELSE pc[t]
        /\ pc[Owner] = "idle" /\ ~ShutsDown
    BY <1>1 DEF WorkerInv, TypeOK, ShutsDown
  <1>3. /\ PillSlots = {} /\ PillHolders = {} /\ Exited = {}
        /\ cancelled = {}
    BY <1>2 DEF WorkerInv, OwnerProgress
  <1>4. UNCHANGED <<PillSlots, PillHolders, Exited, PillsMade>>
    BY <1>1, <1>2, SamePills
  <1>5. TypeOK'
    BY <1>1 DEF WorkerInv, TypeOK, ClientPC, Entered
  <1>6. HandsMatch'
    BY <1>1, <1>2 DEF WorkerInv, HandsMatch, ClientPC, WorkerPC
  <1>7. OnePlace'
    BY <1>1, <1>2, SamePlaces
  <1>8. OnlySubmitted'
    <2>1. Entered \subseteq submitted /\ Entered' = Entered
      BY DEF WorkerInv, OnlySubmitted, Entered, InQueue
    <2>2. \A t \in Thread : offer[t] \notin Entered
      <3> SUFFICES ASSUME NEW t \in Thread, offer[t] \in Entered
                   PROVE  FALSE
        OBVIOUS
      <3>1. offer[t] \in Job /\ InOnePlace(offer[t])
        BY DEF Entered, WorkerInv, OnePlace
      <3> QED
        BY <3>1, EnteredJobs DEF InOnePlace
    <2> QED
      BY <2>1, <2>2 DEF WorkerInv, OnlySubmitted
  <1>9. OwnerProgress'
    <2>1. PillsMade = 0
      BY <1>3, FS_EmptySet DEF PillsMade
    <2> QED
      BY <1>1, <1>2, <1>3, <1>4, <2>1, Countable
      DEF WorkerInv, OwnerProgress, ShutsDown, Count
  <1>10. EarlyFirst'
    <2>1. \A j \in Entered : /\ j \in Job
                             /\ \/ fut[j] # Nothing \/ j \in InQueue
                                \/ \E w \in WorkerThread : got[w] = j
      <3> SUFFICES ASSUME NEW j \in Entered
                   PROVE  /\ j \in Job
                          /\ \/ fut[j] # Nothing \/ j \in InQueue
                             \/ \E w \in WorkerThread : got[w] = j
        OBVIOUS
      <3>1. j \in Job /\ InOnePlace(j)
        BY DEF Entered, WorkerInv, OnePlace
      <3> QED
        BY <3>1, EnteredJobs DEF InOnePlace, InQueue
    <2>2. InQueue' = InQueue
      BY DEF InQueue
    <2> QED
      BY <1>3, <1>4, <2>1, <2>2 DEF EarlyFirst
  <1> QED
    BY <1>5, <1>6, <1>7, <1>8, <1>9, <1>10 DEF WorkerInv

\* A request is offered, and put in the queue for one thread of the list.
LEMMA PillCallStep == WorkerInv /\ PillCall => WorkerInv'
  <1> SUFFICES ASSUME WorkerInv, PillCall PROVE WorkerInv'
    OBVIOUS
  <1> USE WorkerAssumption DEF PillCall, Move, Work!Offer
  <1>1. Owner \in Thread /\ Client \subseteq Thread /\ WorkerThread \subseteq Thread
        /\ Owner \notin WorkerThread
    BY DEF Thread
  <1>2. /\ \A t \in Thread : pc'[t] = IF t = Owner THEN "pilling" ELSE pc[t]
        /\ \A t \in Thread : offer'[t] = IF t = Owner THEN Pill ELSE offer[t]
        /\ pc[Owner] = "pill"
    BY <1>1 DEF WorkerInv, TypeOK
  <1>3. TypeOK'
    BY <1>1 DEF WorkerInv, TypeOK, ClientPC
  <1>4. HandsMatch'
    BY <1>1, <1>2 DEF WorkerInv, HandsMatch, ClientPC, WorkerPC
  <1>5. \A w \in WorkerThread : pc'[w] = pc[w]
    BY <1>1, <1>2
  <1>6. OnePlace'
    <2> SUFFICES ASSUME NEW k \in Job
                 PROVE  InOnePlace(k)'
      BY DEF OnePlace
    <2>1. InOnePlace(k) /\ k # Pill
      BY DEF WorkerInv, OnePlace
    <2> QED
      BY <1>2, <1>5, <2>1 DEF InOnePlace
  <1>7. OnlySubmitted'
    <2>1. Pill \notin early /\ \A j \in Job : Pill # j
      BY DEF WorkerInv, TypeOK
    <2> QED
      BY <1>2, <2>1 DEF WorkerInv, OnlySubmitted, Entered, InQueue
  <1>8. UNCHANGED <<PillSlots, PillHolders, Exited, PillsMade>>
    BY <1>5, SamePills
  <1>9. OwnerProgress'
    BY <1>1, <1>2, <1>8 DEF WorkerInv, OwnerProgress, ShutsDown
  <1>10. EarlyFirst'
    BY <1>8 DEF WorkerInv, EarlyFirst, InQueue
  <1> QED
    BY <1>3, <1>4, <1>6, <1>7, <1>9, <1>10 DEF WorkerInv

LEMMA PillReturnStep == WorkerInv /\ PillReturn => WorkerInv'
  <1> SUFFICES ASSUME WorkerInv, PillReturn PROVE WorkerInv'
    OBVIOUS
  <1> USE WorkerAssumption DEF PillReturn, Move
  <1>1. Owner \in Thread /\ Client \subseteq Thread /\ WorkerThread \subseteq Thread
        /\ Owner \notin WorkerThread
    BY DEF Thread
  <1>2. /\ \A t \in Thread : pc'[t] = IF t = Owner THEN "pill" ELSE pc[t]
        /\ pc[Owner] = "pilling" /\ offer[Owner] = Pill
    BY <1>1 DEF WorkerInv, TypeOK, HandsMatch
  <1>3. /\ work' \in Seq(Job \cup {Pill}) /\ Len(work') <= Count
        /\ Len(work) \in Nat /\ Len(work') = Len(work) + 1
        /\ \A i \in 1..Len(work') :
              work'[i] = IF i = Len(work) + 1 THEN Pill ELSE work[i]
        /\ \A u \in Thread : offer'[u] = IF u = Owner THEN Nothing ELSE offer[u]
        /\ got' = got
        /\ Cardinality(PillSlots') = Cardinality(PillSlots) + 1
    BY <1>1, <1>2, PutFacts DEF Work!Put
  <1>4. PICK w \in toStop : toStop' = toStop \ {w}
    OBVIOUS
  <1>5. TypeOK'
    BY <1>1, <1>3, <1>4 DEF WorkerInv, TypeOK, ClientPC, Work!Put
  <1>6. HandsMatch'
    BY <1>1, <1>2, <1>3 DEF WorkerInv, HandsMatch, ClientPC, WorkerPC
  <1>7. \A x \in WorkerThread : pc'[x] = pc[x]
    BY <1>1, <1>2
  <1>8. \A k \in Job, i \in 1..Len(work') :
           work'[i] = k => i \in 1..Len(work) /\ work[i] = k
    BY <1>3
  <1>9. \A k \in Job, i \in 1..Len(work) :
           work[i] = k => i \in 1..Len(work') /\ work'[i] = k
    BY <1>3
  <1>10. OnePlace'
    <2> SUFFICES ASSUME NEW k \in Job
                 PROVE  InOnePlace(k)'
      BY DEF OnePlace
    <2>1. InOnePlace(k) /\ k # Pill /\ k # Nothing
      BY DEF WorkerInv, OnePlace
    <2>2. \A t \in Thread : offer'[t] = k => offer[t] = k
      BY <1>3, <2>1
    <2> QED
      BY <1>3, <1>7, <1>8, <2>1, <2>2 DEF InOnePlace
  <1>11. OnlySubmitted'
    <2>1. Entered' = Entered
      BY <1>3, <1>8, <1>9 DEF Entered, InQueue
    <2>2. Nothing \notin early
      BY DEF WorkerInv, TypeOK
    <2> QED
      BY <1>3, <2>1, <2>2 DEF WorkerInv, OnlySubmitted
  <1>12. PillHolders' = PillHolders /\ Exited' = Exited
    BY <1>3, <1>7 DEF PillHolders, Exited
  <1>13. OwnerProgress'
    <2>1. PillsMade' = PillsMade + 1
      BY <1>3, <1>12, Countable DEF PillsMade, WorkerInv
    <2>2. Cardinality(toStop') = Cardinality(toStop) - 1
      BY <1>4, Countable, FS_RemoveElement DEF WorkerInv
    <2>3. PillsMade \in Nat /\ PillsMade + Cardinality(toStop) = Count
      BY <1>2, Countable DEF WorkerInv, OwnerProgress, PillsMade
    <2> QED
      BY <1>1, <1>2, <2>1, <2>2, <2>3, Countable
      DEF WorkerInv, OwnerProgress, ShutsDown
  <1>14. EarlyFirst'
    <2> SUFFICES ASSUME NEW k \in early
                 PROVE  /\ fut'[k] # Nothing \/ k \in InQueue'
                             \/ \E x \in WorkerThread : got'[x] = k
                        /\ \A i \in 1..Len(work') : work'[i] = k =>
                               /\ \A h \in PillSlots' : i < h
                               /\ PillHolders' = {} /\ Exited' = {}
      BY DEF EarlyFirst
    <2>1. k \in Job
      BY DEF WorkerInv, TypeOK
    <2>2. k \in InQueue => k \in InQueue'
      BY <1>9, <2>1 DEF InQueue
    <2>3. ASSUME NEW i \in 1..Len(work'), work'[i] = k
          PROVE  /\ \A h \in PillSlots' : i < h
                 /\ PillHolders' = {} /\ Exited' = {}
      <3>1. i \in 1..Len(work) /\ work[i] = k
        BY <1>8, <2>1, <2>3
      <3>2. \A h \in PillSlots' : h \in PillSlots \/ h = Len(work) + 1
        BY <1>3 DEF PillSlots
      <3> QED
        BY <1>3, <1>12, <3>1, <3>2 DEF WorkerInv, EarlyFirst
    <2> QED
      BY <1>3, <2>2, <2>3 DEF WorkerInv, EarlyFirst
  <1> QED
    BY <1>5, <1>6, <1>10, <1>11, <1>13, <1>14 DEF WorkerInv

\* The owner joins the threads one after the other.
LEMMA JoinStep ==
    WorkerInv /\ (JoinCall \/ Join \/ ShutdownReturn) => WorkerInv'
  <1> SUFFICES ASSUME WorkerInv, JoinCall \/ Join \/ ShutdownReturn
               PROVE  WorkerInv'
    OBVIOUS
  <1> USE WorkerAssumption DEF JoinCall, Join, ShutdownReturn, Move, queueVars
  <1>1. Owner \in Thread /\ Client \subseteq Thread /\ WorkerThread \subseteq Thread
        /\ Owner \notin WorkerThread
    BY DEF Thread
  <1>2. \A t \in Thread : t # Owner => pc'[t] = pc[t]
    BY <1>1 DEF WorkerInv, TypeOK
  <1>3. \/ pc[Owner] = "pill" /\ pc'[Owner] = "join" /\ toStop = {}
           /\ toStop' = WorkerThread
        \/ pc[Owner] = "join" /\ pc'[Owner] = "join"
           /\ \E w \in toStop : w \in Exited /\ toStop' = toStop \ {w}
        \/ pc[Owner] = "join" /\ pc'[Owner] = "stopped" /\ toStop = {}
           /\ toStop' = toStop
    BY <1>1 DEF WorkerInv, TypeOK, Exited
  <1>4. TypeOK'
    BY <1>1, <1>3 DEF WorkerInv, TypeOK, ClientPC
  <1>5. HandsMatch'
    BY <1>1, <1>2, <1>3 DEF WorkerInv, HandsMatch, ClientPC, WorkerPC
  <1>6. /\ OnePlace' /\ OnlySubmitted' /\ EarlyFirst'
        /\ UNCHANGED <<PillSlots, PillHolders, Exited, PillsMade>>
    BY <1>2, OwnerKeeps
  <1>7. OwnerProgress'
    <2>1. UNCHANGED <<cancelled, early>>
      OBVIOUS
    <2>2. toStop = {} => Cardinality(toStop) = 0
      BY FS_EmptySet
    <2>3. PillsMade \in Nat /\ Count \in Nat
      BY Countable DEF WorkerInv, PillsMade
    <2>4. pc[Owner] = "join" /\ toStop = {} => Exited = WorkerThread
      BY DEF WorkerInv, OwnerProgress, Exited
    <2> QED
      BY <1>3, <1>6, <2>1, <2>2, <2>3, <2>4 DEF WorkerInv, OwnerProgress, ShutsDown
  <1> QED
    BY <1>4, <1>5, <1>6, <1>7 DEF WorkerInv

\* The owner cancels the threads one after the other, without a request.
LEMMA CancelStep ==
    WorkerInv /\ (CancelCall \/ CancelThread \/ CancelReturn) => WorkerInv'
  <1> SUFFICES ASSUME WorkerInv, CancelCall \/ CancelThread \/ CancelReturn
               PROVE  WorkerInv'
    OBVIOUS
  <1> USE WorkerAssumption DEF CancelCall, CancelThread, CancelReturn, Move,
                               queueVars
  <1>1. Owner \in Thread /\ Client \subseteq Thread /\ WorkerThread \subseteq Thread
        /\ Owner \notin WorkerThread
    BY DEF Thread
  <1>2. \A t \in Thread : t # Owner => pc'[t] = pc[t]
    BY <1>1 DEF WorkerInv, TypeOK
  <1>3. \/ /\ pc[Owner] = "idle" /\ pc'[Owner] = "cancel"
           /\ toStop' = WorkerThread /\ cancelled' = cancelled
        \/ /\ pc[Owner] = "cancel" /\ pc'[Owner] = "cancel"
           /\ \E w \in toStop : /\ toStop' = toStop \ {w}
                                /\ cancelled' = cancelled \cup {w}
        \/ /\ pc[Owner] = "cancel" /\ pc'[Owner] = "stopped"
           /\ toStop = {} /\ toStop' = toStop /\ cancelled' = cancelled
    BY <1>1 DEF WorkerInv, TypeOK
  <1>4. TypeOK'
    BY <1>1, <1>3 DEF WorkerInv, TypeOK, ClientPC
  <1>5. HandsMatch'
    BY <1>1, <1>2, <1>3 DEF WorkerInv, HandsMatch, ClientPC, WorkerPC
  <1>6. /\ OnePlace' /\ OnlySubmitted' /\ EarlyFirst'
        /\ UNCHANGED <<PillSlots, PillHolders, Exited, PillsMade>>
    BY <1>2, OwnerKeeps
  <1>7. OwnerProgress'
    BY <1>3, <1>6 DEF WorkerInv, OwnerProgress, ShutsDown
  <1> QED
    BY <1>4, <1>5, <1>6, <1>7 DEF WorkerInv

\* A cancelled thread dies with what it has in hand, the queue's mutex
\* included, and never by its own will.
LEMMA DieStep ==
    ASSUME WorkerInv, NEW w \in WorkerThread, Die(w)
    PROVE  WorkerInv'
  <1> USE WorkerAssumption DEF Die, queueVars
  <1>1. w \in Thread /\ Client \subseteq Thread /\ WorkerThread \subseteq Thread
        /\ w \notin Client
    BY DEF Thread
  <1>2. /\ w \in cancelled /\ pc[w] # "exited"
        /\ \/ pc'[w] = "dead"
           \/ pc[w] = "dequeue" /\ pc'[w] = "deadlocked"
        /\ \A t \in Thread : t # w => pc'[t] = pc[t]
    BY <1>1 DEF WorkerInv, TypeOK
  <1>3. TypeOK'
    BY <1>1, <1>2 DEF WorkerInv, TypeOK, WorkerPC
  <1>4. HandsMatch'
    BY <1>1, <1>2 DEF WorkerInv, HandsMatch, ClientPC, WorkerPC
  <1>5. OnePlace'
    BY <1>1, <1>2, SamePlaces
  <1>6. OnlySubmitted'
    BY DEF WorkerInv, OnlySubmitted, Entered, InQueue
  <1>7. UNCHANGED <<PillSlots, PillHolders, Exited, PillsMade>>
    BY <1>1, <1>2, SamePills
  <1>8. pc'[Owner] = pc[Owner]
    BY <1>1, <1>2
  <1>9. OwnerProgress'
    BY <1>7, <1>8 DEF WorkerInv, OwnerProgress, ShutsDown
  <1>10. EarlyFirst'
    BY <1>7 DEF WorkerInv, EarlyFirst, InQueue
  <1> QED
    BY <1>3, <1>4, <1>5, <1>6, <1>9, <1>10 DEF WorkerInv

-----------------------------------------------------------------------------
(* What follows for the worker *)

\* The steps of the worker alone, and those a component takes with it: it
\* may also submit an endless job.
WorkerNext ==
    \/ \E c \in Client, j \in Job : SubmitCall(c, j) \/ GetCall(c, j)
    \/ \E c \in Client : ClientStep(c)
    \/ \E w \in WorkerThread : WorkerStep(w) \/ Die(w)
    \/ ShutdownCall \/ CancelCall \/ OwnerStep

LEMMA NextWorker == WorkerInv /\ [WorkerNext]_vars => WorkerInv'
  <1> SUFFICES ASSUME WorkerInv, [WorkerNext]_vars
               PROVE  WorkerInv'
    OBVIOUS
  <1>1. CASE \E c \in Client, j \in Job : SubmitCall(c, j) \/ GetCall(c, j)
    BY <1>1, SubmitCallStep, GetStep
  <1>2. CASE \E c \in Client : ClientStep(c)
    BY <1>2, SubmitReturnStep, GetStep DEF ClientStep
  <1>3. CASE \E w \in WorkerThread : WorkerStep(w)
    BY <1>3, DequeueStep, CallPillStep, CallJobStep, FinishJobStep
       DEF WorkerStep
  <1>4. CASE \E w \in WorkerThread : Die(w)
    BY <1>4, DieStep
  <1>5. CASE ShutdownCall \/ CancelCall \/ OwnerStep
    BY <1>5, ShutdownCallStep, CancelStep, PillCallStep, PillReturnStep,
       JoinStep DEF OwnerStep
  <1>6. CASE UNCHANGED vars
    BY <1>6 DEF vars, queueVars, WorkerInv, TypeOK, HandsMatch, OnePlace,
       InOnePlace, OnlySubmitted, Entered, InQueue, OwnerProgress, ShutsDown,
       PillsMade, PillSlots, PillHolders, Exited, EarlyFirst
  <1> QED
    BY <1>1, <1>2, <1>3, <1>4, <1>5, <1>6 DEF WorkerNext

LEMMA NextIsWorkerNext == [Next]_vars => [WorkerNext]_vars
  BY DEF Next, WorkerNext, Finished

\* The inductive invariant of the worker holds in every reachable state, for
\* every set of clients, worker threads and jobs.
THEOREM WorkerInvariant == Spec => []WorkerInv
  BY InitWorker, NextWorker, NextIsWorkerNext, PTL DEF Spec

LEMMA OnePlaceIsOnce == WorkerInv => RunsOnce
  <1> SUFFICES ASSUME WorkerInv, NEW j \in Job
               PROVE  /\ Cardinality({t \in Thread : offer[t] = j})
                            + Cardinality({i \in 1..Len(work) : work[i] = j})
                            + Cardinality({w \in WorkerThread : got[w] = j})
                            + (IF fut[j] # Nothing THEN 1 ELSE 0) <= 1
                      /\ runs[j] <= 1
                      /\ fut[j] # Nothing => runs[j] = 1
    BY DEF RunsOnce
  <1> DEFINE Out == {t \in Thread : offer[t] = j}
             Queued == {i \in 1..Len(work) : work[i] = j}
             In == {w \in WorkerThread : got[w] = j}
  <1>1. InOnePlace(j)
    BY DEF WorkerInv, OnePlace
  <1>2. \A x, y \in Out : x = y
    BY <1>1 DEF InOnePlace
  <1>3. \A x, y \in Queued : x = y
    BY <1>1 DEF InOnePlace
  <1>4. \A x, y \in In : x = y
    BY <1>1 DEF InOnePlace
  <1>5. /\ Cardinality(Out) \in 0..1 /\ (Out = {} => Cardinality(Out) = 0)
        /\ Cardinality(Queued) \in 0..1 /\ (Queued = {} => Cardinality(Queued) = 0)
        /\ Cardinality(In) \in 0..1 /\ (In = {} => Cardinality(In) = 0)
    BY <1>2, <1>3, <1>4, AtMostOne
  <1>6. /\ Out # {} => Queued = {} /\ In = {} /\ runs[j] = 0
        /\ Queued # {} => In = {} /\ runs[j] = 0
        /\ In # {} => fut[j] = Nothing
        /\ fut[j] # Nothing => runs[j] = 1
        /\ runs[j] <= 1
    BY <1>1 DEF InOnePlace
  <1> HIDE DEF Out, Queued, In
  <1>7. /\ Cardinality(Out) + Cardinality(Queued) + Cardinality(In)
             + (IF fut[j] # Nothing THEN 1 ELSE 0) <= 1
        /\ runs[j] <= 1
        /\ fut[j] # Nothing => runs[j] = 1
    BY <1>5, <1>6
  <1> QED
    BY <1>7 DEF Out, Queued, In

LEMMA EarlyFirstDrains == WorkerInv => ShutdownDrains
  <1> SUFFICES ASSUME WorkerInv, pc[Owner] = "stopped", cancelled = {},
                      NEW j \in early
               PROVE  fut[j] # Nothing
    BY DEF ShutdownDrains
  <1>1. Exited = WorkerThread /\ WorkerThread # {}
    BY WorkerAssumption DEF WorkerInv, OwnerProgress
  <1>2. j \notin InQueue
    BY <1>1 DEF WorkerInv, EarlyFirst, InQueue
  <1>3. \A w \in WorkerThread : got[w] # j
    BY <1>1, WorkerAssumption DEF WorkerInv, HandsMatch, Exited, TypeOK
  <1> QED
    BY <1>2, <1>3 DEF WorkerInv, EarlyFirst

LEMMA PillsMadeMatch == WorkerInv => PillsMatchThreads
  <1> SUFFICES ASSUME WorkerInv PROVE PillsMatchThreads
    OBVIOUS
  <1> DEFINE Running == {w \in WorkerThread : pc[w] # "exited"}
  <1>1. Running = WorkerThread \ Exited /\ Exited \in SUBSET WorkerThread
    BY DEF Exited
  <1>2. Cardinality(Running) = Count - Cardinality(Exited)
    <2>1. WorkerThread \cap Exited = Exited
      BY <1>1
    <2> QED
      BY <1>1, <2>1, FS_Difference, WorkerAssumption DEF Count
  <1>3. /\ Cardinality(PillSlots) \in Nat /\ Cardinality(PillHolders) \in Nat
        /\ Cardinality(Exited) \in Nat /\ Cardinality(toStop) \in Nat
        /\ Count \in Nat
    BY Countable DEF WorkerInv
  <1>4. Cardinality(Exited) <= Count
    BY <1>1, FS_Subset, WorkerAssumption DEF Count
  <1>5. PillsMade <= Count
    <2>1. CASE ~ShutsDown
      <3>1. PillsMade = 0
        BY <2>1, FS_EmptySet DEF WorkerInv, OwnerProgress, PillsMade
      <3> QED
        BY <1>3, <3>1
    <2>2. CASE ShutsDown
      BY <1>3, <2>2 DEF WorkerInv, OwnerProgress, ShutsDown, PillsMade
    <2> QED
      BY <2>1, <2>2
  <1>6. pc[Owner] = "stopped" /\ cancelled = {}
            => Exited = WorkerThread /\ PillsMade = Count
    BY DEF WorkerInv, OwnerProgress, ShutsDown
  <1>7. /\ PillSlots = {i \in 1..Len(work) : work[i] = Pill}
        /\ PillHolders = {w \in WorkerThread : got[w] = Pill}
    BY DEF PillSlots, PillHolders
  <1> HIDE DEF Running
  <1>8. /\ Cardinality(PillSlots) + Cardinality(PillHolders) <= Cardinality(Running)
        /\ pc[Owner] = "stopped" /\ cancelled = {} =>
              /\ Cardinality(Running) = 0
              /\ Cardinality(PillSlots) + Cardinality(PillHolders) = 0
    BY <1>2, <1>3, <1>4, <1>5, <1>6 DEF PillsMade, Count
  <1> QED
    BY <1>7, <1>8 DEF PillsMatchThreads, Running

-----------------------------------------------------------------------------
(* The components that listen *)

Ups == {"down", "open", "start", "submitted", "up", "post", "session",
        "close", "cancel", "failed"}
HeldAt == {"none", "received", "relayed", "refused"}

\* The type of the component, one variable at a time.
TypeByVariable ==
    /\ kind \in Kinds
    /\ up \in Ups
    /\ conn \in {"none", "open", "lost", "closed"}
    /\ declared \in BOOLEAN
    /\ loop \in {"idle", "running", "quit"}
    /\ listening \in BOOLEAN
    /\ box \in Seq(1..MaxMessage)
    /\ sent \in 0..MaxMessage
    /\ held \in [msg : 0..MaxMessage, at : HeldAt]
    /\ relayed \in Seq(1..MaxMessage)
    /\ left \in 0..MaxPieces
    /\ answer \in {"none", "posted", "failure"}

LEMMA ListenerTypes == ListenerTypeOK <=> TypeByVariable
  BY DEF ListenerTypeOK, TypeByVariable, Type, Ups, HeldAt

LEMMA ListenerTypesNext == ListenerTypeOK' <=> TypeByVariable'
  BY DEF ListenerTypeOK, TypeByVariable, Type, Ups, HeldAt

LEMMA InitListener == ListenerInit => ListenerInv
  <1> SUFFICES ASSUME ListenerInit PROVE ListenerInv
    OBVIOUS
  <1> USE ListenerAssumption DEF ListenerInit, Idle, NoMessage
  <1>1. << >> \in Seq(1..MaxMessage) /\ Len(<< >>) = 0
    BY EmptySeq
  <1>2. ListenerTypeOK
    <2>1. held \in [msg : 0..MaxMessage, at : HeldAt]
      BY DEF HeldAt
    <2>2. box \in Seq(1..MaxMessage) /\ relayed \in Seq(1..MaxMessage)
      BY <1>1
    <2>3. sent \in 0..MaxMessage /\ left \in 0..MaxPieces
      OBVIOUS
    <2>4. TypeByVariable
      BY <2>1, <2>2, <2>3 DEF TypeByVariable, Ups
    <2> QED
      BY <2>4, ListenerTypes
  <1>3. /\ HeldIsMessage /\ NoStrayMessage /\ MessagesInOrder
        /\ AnsweredIsRelayed
    BY <1>1 DEF HeldIsMessage, NoStrayMessage, MessagesInOrder,
                AnsweredIsRelayed
  <1>4. NothingSkipped /\ RelaysInOrder /\ PostsAreWhole
    BY <1>1 DEF NothingSkipped, RelaysInOrder, PostsAreWhole
  <1> QED
    BY <1>2, <1>3, <1>4 DEF ListenerInv

\* A step that moves no message, and connects only when none can wait.
LEMMA NoMessageMoves ==
    ASSUME ListenerInv, ListenerTypeOK',
           UNCHANGED <<kind, box, sent, held, relayed>>,
           conn' = "open" => conn = "open" \/ box = << >>,
           up' = "down" => conn' = "none" /\ (up = "down" \/ kind \notin Listeners),
           PostsAreWhole'
    PROVE  ListenerInv'
  <1> USE DEF ListenerInv
  <1>1. HeldIsMessage' /\ AnsweredIsRelayed' /\ NothingSkipped' /\ RelaysInOrder'
    BY DEF HeldIsMessage, AnsweredIsRelayed, NothingSkipped, RelaysInOrder
  <1>2. NoStrayMessage'
    BY DEF NoStrayMessage, Listeners, Chats
  <1>3. MessagesInOrder'
    BY DEF MessagesInOrder
  <1> QED
    BY <1>1, <1>2, <1>3

\* Connecting, starting, posting and stopping.
LEMMA CallsMoveNothing ==
    ASSUME ListenerInv,
           \/ openBroker \/ connect \/ declareQueue \/ startListener
           \/ startReturn \/ postQueue \/ postStanza \/ postReturn
           \/ stopSubscription \/ disconnect \/ stopWorker \/ closeThrows
    PROVE  ListenerInv'
  <1> USE ListenerAssumption
      DEF openBroker, connect, declareQueue, startListener, startReturn,
          postQueue, postStanza, postReturn, stopSubscription, disconnect,
          stopWorker, closeThrows, Go
  <1>1. UNCHANGED <<kind, box, sent, held, relayed>>
    OBVIOUS
  <1>2. ListenerTypeOK'
    <2>1. TypeByVariable
      BY ListenerTypes DEF ListenerInv
    <2>2. TypeByVariable'
      BY <2>1 DEF TypeByVariable, Ups
    <2> QED
      BY <2>2, ListenerTypesNext
  <1>3. conn' = "open" => conn = "open" \/ box = << >>
    BY DEF ListenerInv, NoStrayMessage
  <1>4. up' = "down" => conn' = "none" /\ (up = "down" \/ kind \notin Listeners)
    BY DEF Listeners, Chats
  <1>5. PostsAreWhole'
    BY DEF ListenerInv, PostsAreWhole
  <1> QED
    BY <1>1, <1>2, <1>3, <1>4, <1>5, NoMessageMoves

\* What a thread of the worker does but with a message, and the pieces of a
\* stanza.
LEMMA ThreadsMoveNothing ==
    ASSUME ListenerInv,
           \/ sendPiece \/ cancelWorker \/ UNCHANGED compVars
           \/ \E w \in WorkerThread :
                 \/ takeSubscription(w) \/ listenQueue(w) \/ listenChat(w)
                 \/ listenReturn(w) \/ connHandler(w) \/ dies(w)
    PROVE  ListenerInv'
  <1> USE ListenerAssumption
      DEF sendPiece, send, cancelWorker, takeSubscription, listenQueue,
          listenChat, listenReturn, connHandler, dies, compVars
  <1>1. UNCHANGED <<kind, up, box, sent, held, relayed>>
    OBVIOUS
  <1>2. ListenerTypeOK'
    <2>1. TypeByVariable
      BY ListenerTypes DEF ListenerInv
    <2>2. left' \in 0..MaxPieces /\ answer' \in {"none", "posted", "failure"}
      BY <2>1 DEF TypeByVariable
    <2>3. /\ conn' \in {"none", "open", "lost", "closed"}
          /\ loop' \in {"idle", "running", "quit"} /\ listening' \in BOOLEAN
          /\ declared' = declared
      BY <2>1 DEF TypeByVariable
    <2>4. TypeByVariable'
      BY <1>1, <2>1, <2>2, <2>3 DEF TypeByVariable
    <2> QED
      BY <2>4, ListenerTypesNext
  <1>3. (conn' = "open" => conn = "open") /\ (conn = "none" => conn' = "none")
    OBVIOUS
  <1>4. up' = "down" => conn' = "none" /\ (up = "down" \/ kind \notin Listeners)
    BY <1>1, <1>3 DEF ListenerInv, NoStrayMessage
  <1>5. PostsAreWhole'
    BY ListenerTypes DEF ListenerInv, PostsAreWhole
  <1> QED
    BY <1>1, <1>2, <1>3, <1>4, <1>5, NoMessageMoves

\* A message is received, or ignored as noise: the first that waits, which
\* came in before all others that wait.
LEMMA ReceivedStep ==
    ASSUME ListenerInv, NEW w \in WorkerThread,
           received(w) \/ messageHandler(w)
    PROVE  ListenerInv'
  <1> USE ListenerAssumption DEF received, messageHandler
  <1>1. TypeByVariable
    BY ListenerTypes DEF ListenerInv
  <1>2. /\ conn = "open" /\ held = Idle /\ box # << >> /\ box' = Tail(box)
        /\ UNCHANGED <<kind, up, conn, declared, loop, listening, sent, relayed,
                       left, answer>>
    OBVIOUS
  <1>3. /\ Head(box) = box[1] /\ box[1] \in 1..MaxMessage
        /\ Len(box) \in Nat \ {0} /\ box' \in Seq(1..MaxMessage)
        /\ Len(box') = Len(box) - 1
        /\ \A i \in 1..Len(box') : box'[i] = box[i + 1] /\ i + 1 \in 1..Len(box)
                                  /\ i + 1 > 1 /\ box[i] \in Nat /\ box'[i] \in Nat
        /\ \A i \in 1..Len(box) : box[i] \in 1..MaxMessage
    <2>1. /\ Head(box) = box[1] /\ box[1] \in 1..MaxMessage
          /\ Len(box) \in Nat \ {0} /\ Tail(box) \in Seq(1..MaxMessage)
          /\ Len(Tail(box)) = Len(box) - 1
          /\ \A i \in 1..(Len(box) - 1) : Tail(box)[i] = box[i + 1]
      BY <1>1, <1>2, TailSlots DEF TypeByVariable
    <2>2. \A i \in 1..Len(box) : box[i] \in 1..MaxMessage
      BY <1>1, ElementOfSeq DEF TypeByVariable
    <2>3. \A i \in 1..(Len(box) - 1) : /\ i \in 1..Len(box) /\ i + 1 \in 1..Len(box)
                                       /\ i + 1 > 1
      BY <2>1
    <2> QED
      BY <1>2, <2>1, <2>2, <2>3
  <1>4. \/ held' = [msg |-> box[1], at |-> "received"]
        \/ held' = Idle /\ kind # "queue"
    BY <1>3 DEF Chats
  <1>5. ListenerTypeOK'
    <2>1. held' \in [msg : 0..MaxMessage, at : HeldAt]
      BY <1>3, <1>4 DEF Idle, NoMessage, HeldAt
    <2>2. TypeByVariable'
      BY <1>1, <1>2, <1>3, <2>1 DEF TypeByVariable
    <2> QED
      BY <2>2, ListenerTypesNext
  <1>6. /\ HeldIsMessage' /\ NoStrayMessage' /\ AnsweredIsRelayed'
        /\ RelaysInOrder' /\ PostsAreWhole'
    <2>1. HeldIsMessage' /\ AnsweredIsRelayed'
      BY <1>3, <1>4 DEF HeldIsMessage, AnsweredIsRelayed, NoMessage, Idle
    <2>2. NoStrayMessage'
      BY <1>2 DEF ListenerInv, NoStrayMessage
    <2>3. RelaysInOrder' /\ PostsAreWhole'
      BY <1>2 DEF ListenerInv, RelaysInOrder, PostsAreWhole
    <2> QED
      BY <2>1, <2>2, <2>3
  <1>7. MessagesInOrder'
    <2>1. 1 \in 1..Len(box)
      BY <1>3
    <2>2. /\ \A i \in 1..Len(box) : box[i] <= sent
          /\ \A i \in 1..Len(relayed) : relayed[i] <= sent
          /\ \A i \in 1..Len(box) :
                /\ \A k \in 1..Len(box) : i < k => box[i] < box[k]
                /\ \A k \in 1..Len(relayed) : relayed[k] < box[i]
      BY <1>2 DEF ListenerInv, MessagesInOrder
    <2>3. held'.msg <= sent /\ (held'.msg = box[1] \/ held'.msg = 0)
      BY <1>1, <1>4, <2>1, <2>2 DEF Idle, NoMessage, TypeByVariable
    <2>4. \A i \in 1..Len(box') :
             /\ box'[i] <= sent /\ held'.msg < box'[i]
             /\ \A k \in 1..Len(box') : i < k => box'[i] < box'[k]
             /\ \A k \in 1..Len(relayed) : relayed[k] < box'[i]
      <3> SUFFICES ASSUME NEW i \in 1..Len(box')
                   PROVE  /\ box'[i] <= sent /\ held'.msg < box'[i]
                          /\ \A k \in 1..Len(box') : i < k => box'[i] < box'[k]
                          /\ \A k \in 1..Len(relayed) : relayed[k] < box'[i]
        OBVIOUS
      <3>1. i + 1 \in 1..Len(box) /\ 1 < i + 1 /\ box'[i] = box[i + 1]
        BY <1>3
      <3>2. held'.msg < box'[i]
        BY <1>3, <2>1, <2>2, <2>3, <3>1
      <3>3. \A k \in 1..Len(box') : i < k => box'[i] < box'[k]
        <4> SUFFICES ASSUME NEW k \in 1..Len(box'), i < k
                     PROVE  box'[i] < box'[k]
          OBVIOUS
        <4>1. k + 1 \in 1..Len(box) /\ i + 1 < k + 1 /\ box'[k] = box[k + 1]
          BY <1>3
        <4> QED
          BY <2>2, <3>1, <4>1
      <3>4. box'[i] <= sent /\ \A k \in 1..Len(relayed) : relayed[k] < box'[i]
        BY <2>2, <3>1
      <3> QED
        BY <3>2, <3>3, <3>4
    <2>5. held'.at = "received" =>
              \A i \in 1..Len(relayed) : relayed[i] < held'.msg
      BY <1>4, <2>1, <2>2 DEF Idle
    <2> QED
      BY <1>2, <2>2, <2>3, <2>4, <2>5 DEF MessagesInOrder
  <1>8. NothingSkipped'
    <2> SUFFICES ASSUME kind = "queue", NEW m \in 1..sent
                 PROVE  \/ m \in {box'[i] : i \in 1..Len(box')}
                        \/ held'.msg = m
                        \/ m \in {relayed[i] : i \in 1..Len(relayed)}
      BY <1>2 DEF NothingSkipped
    <2>1. held' = [msg |-> box[1], at |-> "received"]
      BY <1>4
    <2>2. CASE \E i \in 1..Len(box) : box[i] = m
      <3>1. PICK i \in 1..Len(box) : box[i] = m
        BY <2>2
      <3>2. CASE i = 1
        BY <2>1, <3>1, <3>2
      <3>3. CASE i # 1
        <4>1. i - 1 \in 1..Len(box') /\ (i - 1) + 1 = i
          BY <1>3, <3>1, <3>3
        <4>2. box'[i - 1] = m
          BY <1>3, <3>1, <4>1
        <4> QED
          BY <4>1, <4>2
      <3> QED
        BY <3>2, <3>3
    <2>3. CASE m \in {relayed[i] : i \in 1..Len(relayed)}
      BY <2>3
    <2>4. held.msg # m
      BY <1>2 DEF Idle, NoMessage
    <2> QED
      BY <2>2, <2>3, <2>4 DEF ListenerInv, NothingSkipped
  <1> QED
    BY <1>5, <1>6, <1>7, <1>8 DEF ListenerInv

\* The message that is held is given to the relay, behind all those that were
\* before it.
LEMMA RelayStep ==
    ASSUME ListenerInv, NEW w \in WorkerThread, relay(w)
    PROVE  ListenerInv'
  <1> USE ListenerAssumption DEF relay
  <1>1. TypeByVariable
    BY ListenerTypes DEF ListenerInv
  <1>2. /\ held.at = "received" /\ held.msg \in 1..MaxMessage
        /\ held'.msg = held.msg /\ held'.at \in {"relayed", "refused"}
        /\ held' \in [msg : 0..MaxMessage, at : HeldAt]
        /\ UNCHANGED <<kind, up, conn, declared, loop, listening, box, sent, left,
                       answer>>
    BY <1>1 DEF TypeByVariable, ListenerInv, HeldIsMessage, NoMessage, rl, HeldAt
  <1>3. /\ relayed' \in Seq(1..MaxMessage)
        /\ Len(relayed) \in Nat
        /\ \/ relayed' = relayed /\ kind # "queue"
           \/ /\ Len(relayed') = Len(relayed) + 1
              /\ \A i \in 1..Len(relayed') :
                    relayed'[i] = IF i = Len(relayed) + 1 THEN held.msg
                                                          ELSE relayed[i]
    <2>1. relayed \in Seq(1..MaxMessage) /\ Len(relayed) \in Nat
      BY <1>1, LenProperties DEF TypeByVariable
    <2>2. CASE kind = "sender"
      BY <2>1, <2>2
    <2>3. CASE kind # "sender"
      <3>1. relayed' = Append(relayed, held.msg)
        BY <2>3
      <3>2. /\ Append(relayed, held.msg) \in Seq(1..MaxMessage)
            /\ Len(Append(relayed, held.msg)) = Len(relayed) + 1
            /\ \A i \in 1..(Len(relayed) + 1) :
                  Append(relayed, held.msg)[i] =
                      IF i = Len(relayed) + 1 THEN held.msg ELSE relayed[i]
        BY <1>2, <2>1, AppendSlots
      <3> QED
        BY <2>1, <3>1, <3>2
    <2> QED
      BY <2>2, <2>3
  <1>4. ListenerTypeOK'
    <2>1. TypeByVariable'
      BY <1>1, <1>2, <1>3 DEF TypeByVariable
    <2> QED
      BY <2>1, ListenerTypesNext
  <1>5. HeldIsMessage' /\ NoStrayMessage' /\ PostsAreWhole'
    BY <1>2 DEF ListenerInv, HeldIsMessage, NoStrayMessage, PostsAreWhole, NoMessage
  <1>6. MessagesInOrder' /\ RelaysInOrder'
    <2>1. /\ held.msg <= sent
          /\ \A i \in 1..Len(relayed) : relayed[i] < held.msg /\ relayed[i] <= sent
          /\ conn = "open" => \A i \in 1..Len(box) : held.msg < box[i]
      BY <1>2 DEF ListenerInv, MessagesInOrder
    <2>2. \A i \in 1..Len(relayed') :
             \/ relayed'[i] = held.msg
             \/ \E k \in 1..Len(relayed) : relayed'[i] = relayed[k]
      BY <1>3
    <2>3. MessagesInOrder'
      BY <1>2, <2>1, <2>2 DEF ListenerInv, MessagesInOrder
    <2>4. RelaysInOrder'
      BY <1>3, <2>1 DEF ListenerInv, RelaysInOrder
    <2> QED
      BY <2>3, <2>4
  <1>7. AnsweredIsRelayed' /\ NothingSkipped'
    <2>1. kind = "queue" => /\ Len(relayed) + 1 \in 1..Len(relayed')
                            /\ relayed'[Len(relayed) + 1] = held.msg
      BY <1>3
    <2>2. \A i \in 1..Len(relayed) : i \in 1..Len(relayed') /\ relayed'[i] = relayed[i]
      BY <1>3
    <2> QED
      BY <1>2, <2>1, <2>2 DEF ListenerInv, AnsweredIsRelayed, NothingSkipped
  <1> QED
    BY <1>4, <1>5, <1>6, <1>7 DEF ListenerInv

\* The handler returns: what it held was relayed.
LEMMA HandledStep ==
    ASSUME ListenerInv, NEW w \in WorkerThread, handled(w)
    PROVE  ListenerInv'
  <1> USE ListenerAssumption DEF handled
  <1>1. TypeByVariable
    BY ListenerTypes DEF ListenerInv
  <1>2. /\ held.at \in {"relayed", "refused"} /\ held' = Idle
        /\ UNCHANGED <<kind, up, conn, declared, box, sent, relayed, left, answer>>
    OBVIOUS
  <1>3. ListenerTypeOK'
    <2>1. held' \in [msg : 0..MaxMessage, at : HeldAt]
      BY <1>2 DEF Idle, NoMessage, HeldAt
    <2>2. loop' \in {"idle", "running", "quit"}
      BY <1>1 DEF TypeByVariable
    <2>3. listening' \in BOOLEAN
      BY <1>1 DEF TypeByVariable
    <2>4. TypeByVariable'
      BY <1>1, <1>2, <2>1, <2>2, <2>3 DEF TypeByVariable
    <2> QED
      BY <2>4, ListenerTypesNext
  <1>4. /\ HeldIsMessage' /\ NoStrayMessage' /\ AnsweredIsRelayed'
        /\ RelaysInOrder' /\ PostsAreWhole'
    BY <1>2 DEF ListenerInv, HeldIsMessage, NoStrayMessage, AnsweredIsRelayed,
                RelaysInOrder, PostsAreWhole, Idle, NoMessage
  <1>5. MessagesInOrder'
    <2>1. \A i \in 1..Len(box) : box[i] \in 1..MaxMessage
      BY <1>1, ElementOfSeq DEF TypeByVariable
    <2>2. held'.msg = 0 /\ held'.at = "none" /\ 0 <= sent
      BY <1>1, <1>2 DEF Idle, NoMessage, TypeByVariable
    <2> QED
      BY <1>2, <2>1, <2>2 DEF ListenerInv, MessagesInOrder
  <1>6. NothingSkipped'
    BY <1>2 DEF ListenerInv, NothingSkipped, AnsweredIsRelayed
  <1> QED
    BY <1>3, <1>4, <1>5, <1>6 DEF ListenerInv

\* A message comes in, after all others.
LEMMA ArriveStep == ListenerInv /\ Arrive => ListenerInv'
  <1> SUFFICES ASSUME ListenerInv, Arrive PROVE ListenerInv'
    OBVIOUS
  <1> USE ListenerAssumption DEF Arrive
  <1>1. TypeByVariable
    BY ListenerTypes DEF ListenerInv
  <1>2. /\ sent' = sent + 1 /\ sent' \in 1..MaxMessage /\ sent \in Nat
        /\ UNCHANGED <<kind, up, conn, declared, loop, listening, held, relayed,
                       left, answer>>
        /\ kind \in Listeners /\ up # "down"
    BY <1>1 DEF TypeByVariable, ListenerInv, NoStrayMessage
  <1>3. /\ box' \in Seq(1..MaxMessage) /\ Len(box) \in Nat
        /\ Len(box') = Len(box) + 1
        /\ \A i \in 1..Len(box') :
              box'[i] = IF i = Len(box) + 1 THEN sent + 1 ELSE box[i]
    <2>1. box \in Seq(1..MaxMessage) /\ Len(box) \in Nat
      BY <1>1, LenProperties DEF TypeByVariable
    <2>2. /\ Append(box, sent + 1) \in Seq(1..MaxMessage)
          /\ Len(Append(box, sent + 1)) = Len(box) + 1
          /\ \A i \in 1..(Len(box) + 1) :
                Append(box, sent + 1)[i] =
                    IF i = Len(box) + 1 THEN sent + 1 ELSE box[i]
      BY <1>2, <2>1, AppendSlots
    <2> QED
      BY <2>1, <2>2
  <1>4. ListenerTypeOK'
    <2>1. TypeByVariable'
      BY <1>1, <1>2, <1>3 DEF TypeByVariable
    <2> QED
      BY <2>1, ListenerTypesNext
  <1>5. /\ HeldIsMessage' /\ NoStrayMessage' /\ AnsweredIsRelayed'
        /\ RelaysInOrder' /\ PostsAreWhole'
    BY <1>2 DEF ListenerInv, HeldIsMessage, NoStrayMessage, AnsweredIsRelayed,
                RelaysInOrder, PostsAreWhole
  <1>6. MessagesInOrder'
    <2>1. /\ \A i \in 1..Len(box) : box[i] \in Nat
          /\ \A i \in 1..Len(relayed) : relayed[i] \in Nat
          /\ held.msg \in Nat
      BY <1>1, ElementOfSeq DEF TypeByVariable
    <2>2. \A i \in 1..Len(box') :
             \/ i \in 1..Len(box) /\ box'[i] = box[i]
             \/ i = Len(box) + 1 /\ box'[i] = sent + 1
      BY <1>3
    <2>3. /\ \A i \in 1..Len(box) : box[i] < sent + 1
          /\ \A i \in 1..Len(relayed) : relayed[i] < sent + 1
          /\ held.msg < sent + 1
      BY <1>2, <2>1 DEF ListenerInv, MessagesInOrder
    <2>4. \A i \in 1..Len(box') : box'[i] <= sent'
      BY <1>2, <2>1, <2>2, <2>3
    <2>5. conn = "open" => \A i \in 1..Len(box') :
             /\ \A k \in 1..Len(box') : i < k => box'[i] < box'[k]
             /\ held.msg < box'[i]
             /\ \A k \in 1..Len(relayed) : relayed[k] < box'[i]
      BY <1>3, <2>2, <2>3 DEF ListenerInv, MessagesInOrder
    <2>6. /\ held'.msg <= sent'
          /\ \A i \in 1..Len(relayed') : relayed'[i] <= sent'
      BY <1>2, <2>1, <2>3
    <2> QED
      BY <1>2, <2>4, <2>5, <2>6 DEF ListenerInv, MessagesInOrder
  <1>7. NothingSkipped'
    <2> SUFFICES ASSUME kind = "queue", NEW m \in 1..(sent + 1)
                 PROVE  \/ m \in {box'[i] : i \in 1..Len(box')}
                        \/ held.msg = m
                        \/ m \in {relayed[i] : i \in 1..Len(relayed)}
      BY <1>2 DEF NothingSkipped
    <2>1. CASE m = sent + 1
      BY <1>3, <2>1
    <2>2. CASE m # sent + 1
      <3>1. m \in 1..sent
        BY <1>2, <2>2
      <3>2. \A i \in 1..Len(box) : i \in 1..Len(box') /\ box'[i] = box[i]
        BY <1>3
      <3> QED
        BY <3>1, <3>2 DEF ListenerInv, NothingSkipped
    <2> QED
      BY <2>1, <2>2
  <1> QED
    BY <1>4, <1>5, <1>6, <1>7 DEF ListenerInv

\* What a session that ends gives back: the message that was held, if it was
\* not acknowledged, before the others.
LEMMA RequeuedFacts ==
    ASSUME ListenerInv
    PROVE  /\ Requeued \in Seq(1..MaxMessage)
           /\ \A i \in 1..Len(Requeued) : Requeued[i] <= sent
           /\ \A i \in 1..Len(box) :
                 \E k \in 1..Len(Requeued) : Requeued[k] = box[i]
  <1>1. TypeByVariable
    BY ListenerTypes DEF ListenerInv
  <1>2. box \in Seq(1..MaxMessage) /\ Len(box) \in Nat
        /\ \A i \in 1..Len(box) : box[i] <= sent
    BY <1>1, LenProperties DEF TypeByVariable, ListenerInv, MessagesInOrder
  <1>3. CASE Requeued = box
    BY <1>2, <1>3
  <1>4. CASE Requeued # box
    <2>1. /\ Requeued = <<held.msg>> \o box
          /\ held.msg \in 1..MaxMessage /\ held.msg <= sent
      BY <1>1, <1>4, ListenerAssumption
      DEF Requeued, TypeByVariable, ListenerInv, HeldIsMessage, NoMessage,
          MessagesInOrder
    <2>2. /\ <<held.msg>> \in Seq(1..MaxMessage)
          /\ Len(<<held.msg>>) = 1 /\ <<held.msg>>[1] = held.msg
      BY <2>1
    <2> DEFINE s == <<held.msg>>
    <2> HIDE DEF s
    <2>3. /\ s \o box \in Seq(1..MaxMessage)
          /\ Len(s \o box) = Len(s) + Len(box)
          /\ \A i \in 1..(Len(s) + Len(box)) :
                (s \o box)[i] = IF i <= Len(s) THEN s[i] ELSE box[i - Len(s)]
      BY <1>2, <2>2, ConcatProperties DEF s
    <2>4. /\ Requeued \in Seq(1..MaxMessage)
          /\ Len(Requeued) = 1 + Len(box)
          /\ \A i \in 1..(1 + Len(box)) :
                Requeued[i] = IF i <= 1 THEN held.msg ELSE box[i - 1]
      BY <2>1, <2>2, <2>3 DEF s
    <2>5. \A i \in 1..Len(Requeued) : Requeued[i] <= sent
      <3> SUFFICES ASSUME NEW i \in 1..Len(Requeued)
                   PROVE  Requeued[i] <= sent
        OBVIOUS
      <3>1. CASE i = 1
        BY <2>1, <2>4, <3>1
      <3>2. CASE i # 1
        <4>1. i - 1 \in 1..Len(box)
          BY <1>2, <2>4, <3>2
        <4> QED
          BY <1>2, <2>4, <3>2, <4>1
      <3> QED
        BY <3>1, <3>2
    <2>6. ASSUME NEW i \in 1..Len(box)
          PROVE  \E k \in 1..Len(Requeued) : Requeued[k] = box[i]
      <3>1. i + 1 \in 1..Len(Requeued) /\ i + 1 > 1 /\ (i + 1) - 1 = i
        BY <1>2, <2>4
      <3>2. Requeued[i + 1] = box[i]
        BY <1>2, <2>4, <3>1
      <3> QED
        BY <3>1, <3>2
    <2> QED
      BY <2>4, <2>5, <2>6
  <1> QED
    BY <1>3, <1>4

\* The connection breaks or is closed, and no message is received from then
\* on.
LEMMA ConnectionEndStep ==
    ListenerInv /\ (ConnectionLost \/ closeSession) => ListenerInv'
  <1> SUFFICES ASSUME ListenerInv, ConnectionLost \/ closeSession
               PROVE  ListenerInv'
    OBVIOUS
  <1> USE ListenerAssumption DEF ConnectionLost, closeSession, Go
  <1>1. TypeByVariable
    BY ListenerTypes DEF ListenerInv
  <1>2. /\ conn' \in {"lost", "closed"} /\ up' \in {up, "close"}
        /\ up # "down" /\ up' # "down"
        /\ loop' \in {loop, "quit"}
        /\ UNCHANGED <<kind, declared, listening, sent, held, relayed, left,
                       answer>>
        /\ \/ box' = Requeued /\ kind = "queue"
           \/ box' = box
           \/ box' = << >> /\ kind # "queue"
    BY DEF ListenerInv, NoStrayMessage
  <1>3. /\ << >> \in Seq(1..MaxMessage) /\ Len(<< >>) = 0
    BY EmptySeq
  <1>4. box' \in Seq(1..MaxMessage) /\ \A i \in 1..Len(box') : box'[i] <= sent
    <2>1. CASE box' = Requeued
      BY <2>1, RequeuedFacts
    <2>2. CASE box' = box
      BY <1>1, <2>2 DEF TypeByVariable, ListenerInv, MessagesInOrder
    <2>3. CASE box' = << >>
      BY <1>3, <2>3
    <2> QED
      BY <1>2, <2>1, <2>2, <2>3
  <1>5. ListenerTypeOK'
    <2>1. TypeByVariable'
      BY <1>1, <1>2, <1>4 DEF TypeByVariable, Ups
    <2> QED
      BY <2>1, ListenerTypesNext
  <1>6. NoStrayMessage'
    BY <1>2 DEF ListenerInv, NoStrayMessage, Listeners
  <1>7. /\ HeldIsMessage' /\ AnsweredIsRelayed' /\ RelaysInOrder' /\ PostsAreWhole'
    BY <1>2 DEF ListenerInv, HeldIsMessage, AnsweredIsRelayed, RelaysInOrder,
                PostsAreWhole
  <1>8. MessagesInOrder'
    BY <1>2, <1>4 DEF ListenerInv, MessagesInOrder
  <1>9. NothingSkipped'
    <2>1. kind = "queue" =>
             \A i \in 1..Len(box) : \E k \in 1..Len(box') : box'[k] = box[i]
      BY <1>2, RequeuedFacts
    <2> SUFFICES ASSUME kind = "queue", NEW m \in 1..sent
                 PROVE  \/ m \in {box'[i] : i \in 1..Len(box')}
                        \/ held.msg = m
                        \/ m \in {relayed[i] : i \in 1..Len(relayed)}
      BY <1>2 DEF NothingSkipped
    <2>2. \/ \E i \in 1..Len(box) : box[i] = m
          \/ held.msg = m
          \/ m \in {relayed[i] : i \in 1..Len(relayed)}
      BY DEF ListenerInv, NothingSkipped
    <2> QED
      BY <2>1, <2>2
  <1> QED
    BY <1>5, <1>6, <1>7, <1>8, <1>9 DEF ListenerInv

LEMMA NextListener == ListenerInv /\ [ListenerNext]_allVars => ListenerInv'
  <1> SUFFICES ASSUME ListenerInv, [ListenerNext]_allVars
               PROVE  ListenerInv'
    OBVIOUS
  <1>1. CASE OwnerCalls \/ postStanza \/ stopSubscription \/ disconnect
                \/ closeThrows
    BY <1>1, CallsMoveNothing, ThreadsMoveNothing, ConnectionEndStep
    DEF OwnerCalls
  <1>2. CASE \E w \in WorkerThread : ListeningStep(w) \/ dies(w)
    BY <1>2, ThreadsMoveNothing, ReceivedStep, RelayStep, HandledStep
    DEF ListeningStep
  <1>3. CASE Arrive \/ ConnectionLost
    BY <1>3, ArriveStep, ConnectionEndStep
  <1>4. CASE UNCHANGED compVars
    BY <1>4, ThreadsMoveNothing
  <1> QED
    BY <1>1, <1>2, <1>3, <1>4 DEF ListenerNext, Rests, allVars

\* What a component does to the worker is what its clients may do.
LEMMA ListenerUsesWorker == [ListenerNext]_allVars => [WorkerNext]_vars
  <1> SUFFICES ASSUME [ListenerNext]_allVars
               PROVE  [WorkerNext]_vars
    OBVIOUS
  <1> USE WorkerAssumption, ListenerAssumption
  <1>1. CASE Next
    BY <1>1, NextIsWorkerNext
  <1>2. CASE OwnerCalls
    BY <1>2 DEF OwnerCalls, openBroker, connect, declareQueue, startListener,
       startReturn, postQueue, sendPiece, postReturn, closeSession, stopWorker,
       cancelWorker, WorkerNext, ClientStep, OwnerStep
  <1>3. CASE postStanza \/ stopSubscription \/ disconnect \/ closeThrows
                \/ Arrive \/ ConnectionLost
    BY <1>3 DEF postStanza, stopSubscription, disconnect, closeThrows, Arrive,
       ConnectionLost
  <1>4. CASE \E w \in WorkerThread : ListeningStep(w) \/ dies(w)
    BY <1>4 DEF ListeningStep, takeSubscription, listenQueue, listenChat,
       listenReturn, received, messageHandler, relay, handled, connHandler,
       dies, WorkerNext, WorkerStep
  <1>5. CASE UNCHANGED vars
    BY <1>5
  <1> QED
    BY <1>1, <1>2, <1>3, <1>4, <1>5 DEF ListenerNext, Rests, allVars

\* Whatever component runs, and for every set of threads, jobs and messages,
\* the invariants of the worker and of the component hold in every reachable
\* state.
THEOREM ListenerInvariant == ListenerSpec => [](WorkerInv /\ ListenerInv)
  <1>1. ListenerInit => WorkerInv /\ ListenerInv
    BY InitWorker, InitListener DEF ListenerInit
  <1>2. WorkerInv /\ ListenerInv /\ [ListenerNext]_allVars
            => (WorkerInv /\ ListenerInv)'
    BY NextListener, NextWorker, ListenerUsesWorker
  <1> QED
    BY <1>1, <1>2, PTL DEF ListenerSpec

\* A job is somewhere once, whoever submits, shuts down or cancels, and runs
\* at most once: also the job that listens.
THEOREM JobsRunOnce == Spec \/ ListenerSpec => []RunsOnce
  BY WorkerInvariant, ListenerInvariant, OnePlaceIsOnce, PTL

\* When shutdown returns, the jobs submitted before it was called are done.
THEOREM ShutdownWaitsForJobs == Spec \/ ListenerSpec => []ShutdownDrains
  BY WorkerInvariant, ListenerInvariant, EarlyFirstDrains, PTL

\* Each thread takes exactly one shutdown request, for any number of threads.
THEOREM OnePillPerThread == Spec \/ ListenerSpec => []PillsMatchThreads
  BY WorkerInvariant, ListenerInvariant, PillsMadeMatch, PTL

\* Every message of a queue is kept until it was given to the relay, messages
\* are relayed in order and at most once, and posts go out whole, for every
\* number of messages, threads and pieces.
THEOREM MessagesAreKept == ListenerSpec => []RelaysKept
  <1>1. WorkerInv /\ ListenerInv => RelaysKept
    BY DEF WorkerInv, ListenerInv, RelaysKept
  <1> QED
    BY <1>1, ListenerInvariant, PTL

-----------------------------------------------------------------------------
(* A future, a write-once value for every set of threads and of values *)

LEMMA FutureInitInv == FutureInit => FutureInv
  BY FutureAssumption DEF FutureInit, FutureInv, FutureTypeOK, MutexHeld, ValueKnown, SetPC

\* What the steps of set preserve.
LEMMA SetKeeps ==
    ASSUME FutureInv, NEW t \in Holder,
           SetGoesOn(t) \/ \E v \in Value : CallSet(t, v)
    PROVE  FutureInv'
  <1> USE FutureAssumption DEF FutureInv, Moves, Acquire, Release, Answer,
                               SetPC, GetPC
  <1>1. CASE \E v \in Value : CallSet(t, v)
    BY <1>1 DEF CallSet, FutureTypeOK, MutexHeld, ValueKnown
  <1>2. CASE SetLock(t)
    BY <1>2 DEF SetLock, FutureTypeOK, MutexHeld, ValueKnown
  <1>3. CASE SetFirst(t)
    BY <1>3 DEF SetFirst, FutureTypeOK, MutexHeld, ValueKnown
  <1>4. CASE SetTooLate(t)
    BY <1>4 DEF SetTooLate, FutureTypeOK, MutexHeld, ValueKnown
  <1>5. CASE SetFalse(t)
    BY <1>5 DEF SetFalse, FutureTypeOK, MutexHeld, ValueKnown
  <1>6. CASE SetValue(t)
    BY <1>6 DEF SetValue, FutureTypeOK, MutexHeld, ValueKnown
  <1>7. CASE SetUnlock(t)
    BY <1>7 DEF SetUnlock, FutureTypeOK, MutexHeld, ValueKnown
  <1>8. CASE SetBroadcast(t)
    BY <1>8 DEF SetBroadcast, FutureTypeOK, MutexHeld, ValueKnown
  <1> QED
    BY <1>1, <1>2, <1>3, <1>4, <1>5, <1>6, <1>7, <1>8 DEF SetGoesOn

\* What the steps of get, and spurious wakeups, preserve.
LEMMA GetKeeps ==
    ASSUME FutureInv, NEW t \in Holder,
           GetGoesOn(t) \/ CallGet(t) \/ SpuriousWakeup(t)
    PROVE  FutureInv'
  <1> USE FutureAssumption DEF FutureInv, Moves, Acquire, Release, Answer,
                               SetPC, GetPC
  <1>1. CASE CallGet(t) \/ GetLock(t) \/ GetWait(t) \/ GetWake(t)
    BY <1>1 DEF CallGet, GetLock, GetWait, GetWake, FutureTypeOK, MutexHeld,
                ValueKnown
  <1>2. CASE GetUnlock(t)
    BY <1>2 DEF GetUnlock, FutureTypeOK, MutexHeld, ValueKnown
  <1>3. CASE GetRead(t)
    BY <1>3 DEF GetRead, FutureTypeOK, MutexHeld, ValueKnown
  <1>4. CASE SpuriousWakeup(t)
    BY <1>4 DEF SpuriousWakeup, FutureTypeOK, MutexHeld, ValueKnown
  <1> QED
    BY <1>1, <1>2, <1>3, <1>4 DEF GetGoesOn

\* The invariant of the future holds in every reachable state.
THEOREM FutureInvariant == FutureSpec => []FutureInv
  <1>1. FutureInit => FutureInv
    BY FutureInitInv
  <1>2. FutureInv /\ [FutureNext]_futureVars => FutureInv'
    <2> SUFFICES ASSUME FutureInv, [FutureNext]_futureVars PROVE FutureInv'
      OBVIOUS
    <2>1. CASE FutureNext
      BY <2>1, SetKeeps, GetKeeps, FutureAssumption DEF FutureNext
    <2>2. CASE UNCHANGED futureVars
      BY <2>2 DEF futureVars, FutureInv, FutureTypeOK, MutexHeld, ValueKnown
    <2> QED
      BY <2>1, <2>2
  <1> QED
    BY <1>1, <1>2, PTL DEF FutureSpec

-----------------------------------------------------------------------------

LEMMA StepIsWriteOnce ==
    FutureInv /\ [FutureNext]_futureVars => [Known!WriteOnceNext]_(Known!writeOnceVars)
  <1> SUFFICES ASSUME FutureInv, [FutureNext]_futureVars
               PROVE  Known!WriteOnceNext \/ UNCHANGED <<value, Owed, result>>
    BY DEF Known!writeOnceVars
  <1> USE FutureAssumption DEF Moves, Acquire, Release, Answer, SetPC
  <1>1. ASSUME NEW t \in Holder, SetValue(t)
        PROVE  Known!FirstSet(t, arg[t]) /\ arg[t] \in Value
    BY <1>1 DEF SetValue, FutureInv, FutureTypeOK, ValueKnown, Known!FirstSet, Owed
  <1>2. ASSUME NEW t \in Holder, SetBroadcast(t)
        PROVE  Known!SetWon(t)
    BY <1>2 DEF SetBroadcast, FutureInv, FutureTypeOK, ValueKnown, Known!SetWon, Owed
  <1>3. ASSUME NEW t \in Holder, SetFalse(t)
        PROVE  Known!SetLost(t)
    BY <1>3 DEF SetFalse, FutureInv, FutureTypeOK, ValueKnown, Known!SetLost, Owed
  <1>4. ASSUME NEW t \in Holder, GetRead(t)
        PROVE  Known!GetReturn(t)
    BY <1>4 DEF GetRead, FutureInv, FutureTypeOK, ValueKnown, Known!GetReturn, Owed
  <1>5. ASSUME NEW t \in Holder,
               \/ \E v \in Value : CallSet(t, v)
               \/ SetLock(t) \/ SetFirst(t) \/ SetTooLate(t) \/ SetUnlock(t)
               \/ CallGet(t) \/ GetLock(t) \/ GetWait(t) \/ GetWake(t)
               \/ GetUnlock(t) \/ SpuriousWakeup(t)
        PROVE  UNCHANGED <<value, Owed, result>>
    BY <1>5 DEF CallSet, SetLock, SetFirst, SetTooLate, SetUnlock, CallGet,
                GetLock, GetWait, GetWake, GetUnlock, SpuriousWakeup,
                FutureInv, FutureTypeOK, Owed
  <1>6. CASE FutureNext
    BY <1>1, <1>2, <1>3, <1>4, <1>5, <1>6
       DEF FutureNext, SetGoesOn, GetGoesOn, Known!WriteOnceNext
  <1>7. CASE UNCHANGED futureVars
    BY <1>7 DEF futureVars, Owed
  <1> QED
    BY <1>6, <1>7

\* Whatever the number of threads that set and read a future, one set wins
\* and every get returns its value.
THEOREM FutureIsWriteOnce == FutureSpec => ImplementsWriteOnce
  <1>1. FutureInit => Known!WriteOnceInit
    BY DEF FutureInit, Known!WriteOnceInit, Owed
  <1>2. FutureInv /\ [FutureNext]_futureVars => [Known!WriteOnceNext]_(Known!writeOnceVars)
    BY StepIsWriteOnce
  <1> QED
    BY <1>1, <1>2, FutureInvariant, PTL
       DEF FutureSpec, ImplementsWriteOnce, Known!WriteOnceSpec
=============================================================================
