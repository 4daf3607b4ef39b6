----------------------- MODULE DataCacheReads_proofs -----------------------
(***************************************************************************)
(* Proofs about the two level cache, for any requests, keys, versions and  *)
(* lag of the slave: the inductive invariant ReadsInv, and what follows    *)
(* from it, that the levels agree and that gets answer with what they may, *)
(* wherever the cache is calm.                                             *)
(***************************************************************************)
EXTENDS DataCacheReads, FiniteSetTheorems, SequenceTheorems, TLAPS

-----------------------------------------------------------------------------
(* Items and the log *)

LEMMA ItemTypes ==
    /\ Null \in Item /\ Null.base = 0
    /\ \A v \in Version : Fresh(v) \in Item /\ Fresh(v).base = v /\ Fresh(v) # Null
    /\ \A x \in Item : Patched(x) \in Item /\ Patched(x).base = x.base /\ x.base \in Nat
  BY CacheAssumption DEF Null, Item, Version, Fresh, Patched

\* Whatever is written is an item, and no newer than what it is made of.
LEMMA WrittenItem ==
    ASSUME NEW o, NEW v \in Item, NEW old \in Item
    PROVE  /\ Written(o, v, old) \in Item
           /\ Written(o, v, old).base \in {0, v.base, old.base}
           /\ o \in {"put", "post"} => Written(o, v, old) = v
  BY ItemTypes DEF Written

Update == Key \X Item

LEMMA LogTypes ==
    ASSUME NEW l \in Seq(Update)
    PROVE  /\ Len(l) \in Nat
           /\ \A i \in 1..Len(l) : l[i][1] \in Key /\ l[i][2] \in Item
<1>1. Len(l) \in Nat /\ \A i \in 1..Len(l) : l[i] \in Update
  BY LenProperties, ElementOfSeq
<1> QED
  BY <1>1 DEF Update

\* An update is logged at the end.
LEMMA LogAppended ==
    ASSUME NEW l \in Seq(Update), NEW k \in Key, NEW x \in Item
    PROVE  /\ Append(l, <<k, x>>) \in Seq(Update)
           /\ \A i \in 1..Len(Append(l, <<k, x>>)) :
                 \/ Append(l, <<k, x>>)[i] = <<k, x>>
                 \/ i \in 1..Len(l) /\ Append(l, <<k, x>>)[i] = l[i]
<1>1. <<k, x>> \in Update
  BY DEF Update
<1>2. /\ Append(l, <<k, x>>) \in Seq(Update)
      /\ Len(Append(l, <<k, x>>)) = Len(l) + 1
      /\ \A i \in 1..Len(l) : Append(l, <<k, x>>)[i] = l[i]
      /\ Append(l, <<k, x>>)[Len(l) + 1] = <<k, x>>
  BY <1>1, AppendProperties
<1>3. Len(l) \in Nat
  BY LogTypes
<1> QED
  BY <1>2, <1>3

\* The first update of the log is replicated.
LEMMA LogReplicated ==
    ASSUME NEW l \in Seq(Update), l # << >>
    PROVE  /\ 1 \in 1..Len(l)
           /\ Tail(l) \in Seq(Update)
           /\ \A i \in 1..Len(Tail(l)) : i + 1 \in 1..Len(l) /\ Tail(l)[i] = l[i + 1]
<1>1. Len(l) \in Nat /\ Len(l) # 0
  BY LogTypes, EmptySeq
<1>2. /\ Tail(l) \in Seq(Update) /\ Len(Tail(l)) = Len(l) - 1
      /\ \A i \in 1..Len(Tail(l)) : Tail(l)[i] = l[i + 1]
  BY HeadTailProperties
<1> QED
  BY <1>1, <1>2

-----------------------------------------------------------------------------
(* The types *)

Types == TypeOK /\ HistoryTypes

LEMMA InitTypes == InitReads => Types
<1> SUFFICES ASSUME InitReads
             PROVE  Types
  OBVIOUS
<1>1. master \in [Key -> Item]
  <2>1. \A k \in Key : master[k] \in Item
    BY ItemTypes, CacheAssumption DEF InitReads, Init, Version
  <2> QED
    BY <2>1 DEF InitReads, Init
<1>2. log \in Seq(Key \X Item)
  BY DEF InitReads, Init
<1> QED
  BY <1>1, <1>2, ItemTypes DEF InitReads, Init, Types, TypeOK, HistoryTypes

\* A step of a request writes pc of that request only.
LEMMA TypesNext ==
    ASSUME Types, [NextReads]_<<vars, history>>
    PROVE  Types'
<1>t. TypeOK /\ HistoryTypes
  BY DEF Types
<1>l. log \in Seq(Update)
  BY <1>t DEF TypeOK, Update
<1>1. ASSUME NEW c \in Client, NEW k \in Key, GetCall(c, k), ObserveGet(c, k)
      PROVE  Types'
  <2>1. latest[k] \cup {expect[d] : d \in {u \in Updating : key[u] = k}} \in SUBSET Item
    BY <1>t DEF HistoryTypes, Updating
  <2>2. TypeOK'
    BY <1>1, <1>t, ItemTypes DEF GetCall, Goto, TypeOK
  <2>3. HistoryTypes'
    BY <1>1, <1>t, <2>1 DEF ObserveGet, HistoryTypes
  <2> QED
    BY <2>2, <2>3 DEF Types
<1>2. ASSUME NEW c \in Client, NEW k \in Key, NEW o \in {"post", "put", "patch", "delete"},
             UpdateCall(c, o, k), ObserveUpdate(c, o, k)
      PROVE  Types'
  <2>1. IF o \in {"put", "post"} THEN Fresh(next) \in Item ELSE Null \in Item
    BY <1>2, ItemTypes DEF UpdateCall
  <2>2. TypeOK'
    BY <1>2, <1>t, <2>1 DEF UpdateCall, Goto, TypeOK
  <2>3. PICK old \in latest[k] :
            LET x == Written(o, val'[c], old) IN
            /\ expect' = [expect EXCEPT ![c] = x]
            /\ allowed' = [d \in Client |->
                             IF d \in Reading /\ key[d] = k THEN allowed[d] \cup {x}
                             ELSE allowed[d]]
    BY <1>2 DEF ObserveUpdate
  <2>4. Written(o, val'[c], old) \in Item
    BY <1>t, <2>2, WrittenItem DEF TypeOK, HistoryTypes
  <2>5. expect' \in [Client -> Item] /\ allowed' \in [Client -> SUBSET Item]
    BY <1>t, <2>3, <2>4 DEF HistoryTypes
  <2>6. HistoryTypes'
    BY <1>2, <1>t, <2>5 DEF ObserveUpdate, HistoryTypes
  <2> QED
    BY <2>2, <2>6 DEF Types
<1>3. ASSUME NEW c \in Client,
             ReadLevel1(c) \/ ReadLevel2(c) \/ WriteLevel1(c), UNCHANGED history
      PROVE  Types'
  <2>1. HistoryTypes'
    BY <1>3, <1>t DEF history, HistoryTypes
  <2>2. Written(op[c], val[c], level1[key[c]]) \in Item
    BY <1>t, WrittenItem DEF TypeOK
  <2>3. CASE ReadLevel1(c)
    BY <2>3, <2>1, <1>t DEF ReadLevel1, Goto, Types, TypeOK, request
  <2>4. CASE ReadLevel2(c)
    BY <2>4, <2>1, <1>t DEF ReadLevel2, Goto, Types, TypeOK, request
  <2>5. CASE WriteLevel1(c)
    BY <2>5, <2>1, <2>2, <1>t DEF WriteLevel1, Goto, Types, TypeOK, request
  <2> QED
    BY <1>3, <2>3, <2>4, <2>5
<1>4. ASSUME NEW c \in Client, Fill(c), ObserveFill(c)
      PROVE  Types'
  <2>1. HistoryTypes'
    BY <1>4, <1>t DEF ObserveFill, HistoryTypes
  <2>2. TypeOK'
    BY <1>4, <1>t DEF Fill, Goto, TypeOK, request
  <2> QED
    BY <2>1, <2>2 DEF Types
<1>5. ASSUME NEW c \in Client, WriteLevel2(c), ObserveUpdated(c)
      PROVE  Types'
  <2>1. HistoryTypes'
    BY <1>5, <1>t DEF ObserveUpdated, HistoryTypes, TypeOK
  <2>2. Written(op[c], val[c], master[key[c]]) \in Item /\ key[c] \in Key
    BY <1>t, WrittenItem DEF TypeOK
  <2>3. log' \in Seq(Update)
    BY <1>5, <1>l, <2>2, LogAppended DEF WriteLevel2
  <2>4. TypeOK'
    BY <1>5, <1>t, <2>2, <2>3 DEF WriteLevel2, Goto, TypeOK, request, Update
  <2> QED
    BY <2>1, <2>4 DEF Types
<1>6. ASSUME NEW c \in Client, CallFails(c), ObserveFailure(c)
      PROVE  Types'
  <2>1. HistoryTypes'
    BY <1>6, <1>t DEF ObserveFailure, HistoryTypes, TypeOK
  <2>2. TypeOK'
    BY <1>6, <1>t DEF CallFails, Goto, TypeOK, request
  <2> QED
    BY <2>1, <2>2 DEF Types
<1>7. ASSUME Replicate, UNCHANGED history
      PROVE  Types'
  <2>1. log' \in Seq(Update)
    BY <1>7, <1>l, LogReplicated DEF Replicate
  <2>2. log[1][1] \in Key /\ log[1][2] \in Item
    BY <1>7, <1>l, LogReplicated, LogTypes DEF Replicate
  <2>3. TypeOK'
    BY <1>7, <1>t, <2>1, <2>2 DEF Replicate, TypeOK, request, Update
  <2>4. HistoryTypes'
    BY <1>7, <1>t DEF history, HistoryTypes
  <2> QED
    BY <2>3, <2>4 DEF Types
<1>8. ASSUME NEW k \in Key, Evict(k), ObserveEvict(k)
      PROVE  Types'
  <2>1. HistoryTypes'
    BY <1>8, <1>t DEF ObserveEvict, HistoryTypes, TypeOK, Quiet
  <2>2. TypeOK'
    BY <1>8, <1>t, ItemTypes DEF Evict, TypeOK, request
  <2> QED
    BY <2>1, <2>2 DEF Types
<1>9. CASE UNCHANGED <<vars, history>>
  BY <1>9, <1>t DEF vars, history, request, Types, TypeOK, HistoryTypes
<1> QED
  BY <1>1, <1>2, <1>3, <1>4, <1>5, <1>6, <1>7, <1>8, <1>9 DEF NextReads

-----------------------------------------------------------------------------
(* The slave *)

LEMMA InitFollows == InitReads => SlaveFollows
  BY EmptySeq DEF InitReads, Init, SlaveFollows

\* The master takes an update and logs it last.
LEMMA WriteFollows ==
    ASSUME Types, SlaveFollows, NEW c \in Client, WriteLevel2(c)
    PROVE  SlaveFollows'
<1> DEFINE n == Len(log)
           x == Written(op[c], val[c], master[key[c]])
<1>t. TypeOK
  BY DEF Types
<1>1. log \in Seq(Update) /\ key[c] \in Key /\ x \in Item /\ n \in Nat
  <2>1. log \in Seq(Update) /\ key[c] \in Key /\ x \in Item
    BY <1>t, WrittenItem DEF TypeOK, Update
  <2> QED
    BY <2>1, LogTypes
<1>2. /\ log' = Append(log, <<key[c], x>>) /\ replica' = replica
      /\ master' = [master EXCEPT ![key[c]] = x]
  BY DEF WriteLevel2
<1>3. /\ Len(log') = n + 1 /\ log'[n + 1] = <<key[c], x>>
      /\ \A i \in 1..n : log'[i] = log[i]
  <2>1. <<key[c], x>> \in Update
    BY <1>1 DEF Update
  <2> HIDE DEF x
  <2> QED
    BY <1>1, <1>2, <2>1, AppendProperties
<1> HIDE DEF x
<1> SUFFICES ASSUME NEW k \in Key
             PROVE  LET logged == {i \in 1..Len(log') : log'[i][1] = k} IN
                    \/ logged = {} /\ replica'[k] = master'[k]
                    \/ \E i \in logged : log'[i][2] = master'[k] /\ \A j \in logged : j <= i
  BY DEF SlaveFollows
<1>4. CASE k = key[c]
  <2>1. n + 1 \in {i \in 1..Len(log') : log'[i][1] = k}
    BY <1>1, <1>3, <1>4
  <2>2. log'[n + 1][2] = master'[k]
    BY <1>1, <1>2, <1>3, <1>4, <1>t DEF TypeOK
  <2> QED
    BY <1>1, <1>3, <2>1, <2>2
<1>5. CASE k # key[c]
  <2>1. {i \in 1..Len(log') : log'[i][1] = k} = {i \in 1..n : log[i][1] = k}
    BY <1>1, <1>3, <1>5
  <2>2. master'[k] = master[k]
    BY <1>2, <1>5, <1>t DEF TypeOK
  <2> QED
    BY <1>2, <1>3, <2>1, <2>2 DEF SlaveFollows
<1> QED
  BY <1>4, <1>5

\* The slave takes the first update of the log.
LEMMA ReplicateFollows ==
    ASSUME Types, SlaveFollows, Replicate
    PROVE  SlaveFollows'
<1> DEFINE n == Len(log)
<1>t. TypeOK
  BY DEF Types
<1>1. log \in Seq(Update) /\ log # << >> /\ n \in Nat
  <2>1. log \in Seq(Update) /\ log # << >>
    BY <1>t DEF TypeOK, Update, Replicate
  <2> QED
    BY <2>1, LogTypes
<1>2. /\ 1 \in 1..n /\ Len(log') = n - 1
      /\ \A i \in 1..(n - 1) : log'[i] = log[i + 1]
  BY <1>1, HeadTailProperties, EmptySeq DEF Replicate
<1>3. /\ replica' = [replica EXCEPT ![log[1][1]] = log[1][2]] /\ master' = master
      /\ log[1][1] \in Key
  BY <1>1, <1>2, LogTypes DEF Replicate
<1> SUFFICES ASSUME NEW k \in Key
             PROVE  LET logged == {i \in 1..Len(log') : log'[i][1] = k} IN
                    \/ logged = {} /\ replica'[k] = master'[k]
                    \/ \E i \in logged : log'[i][2] = master'[k] /\ \A j \in logged : j <= i
  BY DEF SlaveFollows
<1>4. CASE \A i \in 1..n : log[i][1] # k
  <2>1. replica[k] = master[k]
    BY <1>4 DEF SlaveFollows
  <2>2. replica'[k] = master'[k]
    BY <1>2, <1>3, <1>4, <1>t, <2>1 DEF TypeOK
  <2>3. \A i \in 1..(n - 1) : log'[i][1] # k
    BY <1>1, <1>2, <1>4
  <2> QED
    BY <1>2, <2>2, <2>3
<1>5. CASE \E i \in 1..n : log[i][1] = k
  <2>1. PICK i \in 1..n : /\ log[i][1] = k /\ log[i][2] = master[k]
                          /\ \A j \in 1..n : log[j][1] = k => j <= i
    BY <1>5 DEF SlaveFollows
  <2>2. CASE i = 1
    <3>1. \A j \in 1..(n - 1) : log'[j][1] # k
      BY <1>1, <1>2, <2>1, <2>2
    <3>2. replica'[k] = master'[k]
      BY <1>3, <1>t, <2>1, <2>2 DEF TypeOK
    <3> QED
      BY <1>2, <3>1, <3>2
  <2>3. CASE i # 1
    <3>1. i - 1 \in 1..(n - 1) /\ log'[i - 1] = log[i]
      BY <1>1, <1>2, <2>3
    <3>2. ASSUME NEW j \in 1..(n - 1), log'[j][1] = k
          PROVE  j <= i - 1
      <4>1. j + 1 \in 1..n /\ log[j + 1][1] = k
        BY <1>1, <1>2, <3>2
      <4>2. j + 1 <= i
        BY <2>1, <4>1
      <4> QED
        BY <1>1, <4>2
    <3> QED
      BY <1>2, <1>3, <2>1, <3>1, <3>2
  <2> QED
    BY <2>2, <2>3
<1> QED
  BY <1>4, <1>5

LEMMA FollowsNext ==
    ASSUME Types, SlaveFollows, [NextReads]_<<vars, history>>
    PROVE  SlaveFollows'
<1>1. CASE UNCHANGED <<master, log, replica>>
  BY <1>1 DEF SlaveFollows
<1>2. CASE ~UNCHANGED <<master, log, replica>>
  <2>1. Replicate \/ \E c \in Client : WriteLevel2(c)
    BY <1>2 DEF NextReads, GetCall, UpdateCall, ReadLevel1, ReadLevel2, Fill,
       WriteLevel1, CallFails, Evict, vars
  <2> QED
    BY <2>1, WriteFollows, ReplicateFollows
<1> QED
  BY <1>1, <1>2

-----------------------------------------------------------------------------
(* What a step leaves of the keys and the requests it is not about *)

\* A step of c moves c, and nobody else, in or out of the updates of a key.
LEMMA UpdatesMove ==
    ASSUME Types, Types', NEW c \in Client, NEW from, NEW to, Goto(c, from, to),
           \/ key' = key
           \/ from = "idle" /\ \A d \in Client \ {c} : key'[d] = key[d],
           NEW k \in Key
    PROVE  /\ UpdatesOf(k)' = (UpdatesOf(k) \ {c}) \cup
                  (IF to \in {"write1", "write2"} /\ key'[c] = k THEN {c} ELSE {})
           /\ HalfWritten(k)' = (HalfWritten(k) \ {c}) \cup
                  (IF to = "write2" /\ key'[c] = k THEN {c} ELSE {})
<1>1. pc'[c] = to /\ \A d \in Client \ {c} : pc'[d] = pc[d] /\ key'[d] = key[d]
  BY DEF Goto, Types, TypeOK
<1>2. UpdatesOf(k)' = (UpdatesOf(k) \ {c}) \cup
          (IF to \in {"write1", "write2"} /\ key'[c] = k THEN {c} ELSE {})
  BY <1>1 DEF UpdatesOf, Updating
<1>3. HalfWritten(k)' = (HalfWritten(k) \ {c}) \cup
          (IF to = "write2" /\ key'[c] = k THEN {c} ELSE {})
  BY <1>1, <1>2 DEF UpdatesOf, HalfWritten, Updating
<1> QED
  BY <1>2, <1>3

\* A calm key that a step does not read or write stays calm.
LEMMA KeyKept ==
    ASSUME ReadsInv, NEW k \in Key, calm[k],
           UpdatesOf(k)' = UpdatesOf(k), HalfWritten(k)' = HalfWritten(k),
           latest'[k] = latest[k], master'[k] = master[k], level1'[k] = level1[k],
           \A u \in UpdatesOf(k) : /\ op'[u] = op[u] /\ val'[u] = val[u]
                                   /\ expect'[u] = expect[u] /\ replaces'[u] = replaces[u],
           level1[k] = Null => /\ replica'[k] = replica[k]
                               /\ \A i \in 1..Len(log') : log'[i][1] # k
    PROVE  (UpdatesApart(k) /\ LevelsLatest(k))'
<1>1. UpdatesApart(k) /\ LevelsLatest(k)
  BY DEF ReadsInv
<1>2. UpdatesApart(k)'
  BY <1>1 DEF UpdatesApart, Null
<1>3. \A u \in HalfWritten(k) : u \in UpdatesOf(k)
  BY DEF HalfWritten
<1>4. {expect'[u] : u \in HalfWritten(k)} = {expect[u] : u \in HalfWritten(k)}
  BY <1>3
<1>5. LevelsLatest(k)'
  BY <1>1, <1>3, <1>4 DEF LevelsLatest, Null
<1> QED
  BY <1>2, <1>5

\* A get goes on: it may answer at least what it might before, and finds no
\* item but those it might have found before, or may answer now.
LEMMA ReaderKept ==
    ASSUME ReadsInv, NEW d \in Reading, calm[key[d]],
           pc'[d] = pc[d], key'[d] = key[d], val'[d] = val[d],
           allowed[d] \subseteq allowed'[d],
           \A x \in latest'[key[d]] :
               x \in latest[key[d]] \/ \E u \in UpdatesOf(key[d]) : x = expect[u],
           \A u \in UpdatesOf(key[d])' : expect'[u] \in allowed'[d],
           \/ replica'[key[d]] = replica[key[d]]
           \/ \E i \in 1..Len(log) : log[i][1] = key[d] /\ log[i][2] = replica'[key[d]],
           \A i \in 1..Len(log') :
               \/ log'[i][1] # key[d]
               \/ \E u \in UpdatesOf(key[d]) : log'[i][2] = expect[u]
               \/ \E j \in 1..Len(log) : log[j] = log'[i]
    PROVE  FindsAllowed(d)'
<1>1. FindsAllowed(d)
  BY DEF ReadsInv
<1>2. latest'[key[d]] \subseteq allowed'[d]
  BY <1>1 DEF FindsAllowed
<1>3. pc[d] = "read2" =>
          /\ replica'[key[d]] \in allowed'[d]
          /\ \A i \in 1..Len(log') : log'[i][1] = key[d] => log'[i][2] \in allowed'[d]
  BY <1>1 DEF FindsAllowed
<1>4. pc[d] = "fill" => val[d] \in allowed'[d]
  BY <1>1 DEF FindsAllowed
<1> QED
  BY <1>2, <1>3, <1>4 DEF FindsAllowed

-----------------------------------------------------------------------------
(* Each step keeps the invariant *)

LEMMA GetCallKeeps ==
    ASSUME ReadsInv, Types', SlaveFollows', NEW c \in Client, NEW k \in Key,
           GetCall(c, k), ObserveGet(c, k)
    PROVE  ReadsInv'
<1>t. Types /\ TypeOK /\ HistoryTypes
  BY DEF ReadsInv, Types
<1>1. /\ Goto(c, "idle", "read1")
      /\ \A d \in Client \ {c} : /\ key'[d] = key[d] /\ val'[d] = val[d] /\ op'[d] = op[d]
                                 /\ pc'[d] = pc[d] /\ allowed'[d] = allowed[d]
      /\ key'[c] = k /\ pc'[c] = "read1" /\ pc[c] = "idle"
      /\ allowed'[c] = latest[k] \cup {expect[u] : u \in UpdatesOf(k)}
      /\ UNCHANGED <<level1, master, log, replica, next, latest, expect, replaces, calm>>
  BY <1>t DEF GetCall, ObserveGet, Goto, TypeOK, HistoryTypes, UpdatesOf
<1>2. Updating' = Updating /\ c \notin Updating /\ Reading' = Reading \cup {c}
  BY <1>1 DEF Updating, Reading
<1>3. \A j \in Key : UpdatesOf(j)' = UpdatesOf(j) /\ HalfWritten(j)' = HalfWritten(j)
  BY <1>1, <1>t, <1>2, UpdatesMove DEF UpdatesOf, HalfWritten
<1>4. NextIsNew'
  <2>1. \A d \in Updating' : val'[d] = val[d] /\ key'[d] = key[d]
    BY <1>1, <1>2 DEF Updating
  <2> QED
    BY <1>1, <1>2, <2>1 DEF ReadsInv, NextIsNew
<1>5. \A d \in Client : pc'[d] = "fill" => val'[d] # Null
  BY <1>1 DEF ReadsInv
<1>6. \A j \in Key : calm'[j] => (UpdatesApart(j) /\ LevelsLatest(j))'
  <2> SUFFICES ASSUME NEW j \in Key, calm[j]
               PROVE  (UpdatesApart(j) /\ LevelsLatest(j))'
    BY <1>1
  <2>1. \A u \in UpdatesOf(j) : op'[u] = op[u] /\ val'[u] = val[u]
    BY <1>1, <1>2 DEF UpdatesOf, Updating
  <2>2. level1[j] = Null => \A i \in 1..Len(log) : log[i][1] # j
    BY DEF ReadsInv, LevelsLatest
  <2> QED
    BY <1>1, <1>3, <2>1, <2>2, KeyKept
<1>7. \A d \in Reading' : calm'[key'[d]] => FindsAllowed(d)'
  <2>1. FindsAllowed(c)'
    BY <1>1, <1>3 DEF FindsAllowed
  <2>2. ASSUME NEW d \in Reading, d # c, calm[key[d]]
        PROVE  FindsAllowed(d)'
    <3>1. FindsAllowed(d) /\ d \in Client /\ key[d] \in Key
      BY <2>2, <1>t DEF ReadsInv, Reading, TypeOK
    <3>2. \A u \in UpdatesOf(key[d])' : expect'[u] \in allowed'[d]
      BY <1>1, <1>3, <2>2, <3>1 DEF FindsAllowed
    <3> QED
      BY <1>1, <2>2, <3>1, <3>2, ReaderKept
  <2> QED
    BY <1>1, <1>2, <2>1, <2>2 DEF Reading
<1> QED
  BY <1>4, <1>5, <1>6, <1>7 DEF ReadsInv, Types, Null

LEMMA UpdateCallKeeps ==
    ASSUME ReadsInv, Types', SlaveFollows', NEW c \in Client, NEW k \in Key,
           NEW o \in {"post", "put", "patch", "delete"},
           UpdateCall(c, o, k), ObserveUpdate(c, o, k)
    PROVE  ReadsInv'
<1>t. Types /\ TypeOK /\ HistoryTypes /\ NextIsNew
  BY DEF ReadsInv, Types
<1>1. /\ Goto(c, "idle", "write1")
      /\ \A d \in Client \ {c} :
            /\ key'[d] = key[d] /\ val'[d] = val[d] /\ op'[d] = op[d] /\ pc'[d] = pc[d]
            /\ replaces'[d] = replaces[d]
      /\ key'[c] = k /\ pc'[c] = "write1" /\ pc[c] = "idle" /\ op'[c] = o
      /\ replaces'[c] = latest[k]
      /\ UNCHANGED <<level1, master, log, replica, latest>>
  BY <1>t DEF UpdateCall, ObserveUpdate, Goto, TypeOK, HistoryTypes
<1>2. /\ val'[c] = IF o \in {"put", "post"} THEN Fresh(next) ELSE Null
      /\ o \in {"put", "post"} => next \in Version
      /\ next \in Nat /\ next' \in {next, next + 1}
      /\ o \in {"put", "post"} => next' = next + 1
  BY <1>t DEF UpdateCall, TypeOK
<1>3. /\ calm'[k] => calm[k] /\ o \in {"put", "post"}
      /\ \A j \in Key \ {k} : calm'[j] = calm[j]
  BY <1>t DEF ObserveUpdate, HistoryTypes
<1>4. /\ \A d \in Client \ {c} : expect'[d] = expect[d]
      /\ o \in {"put", "post"} => expect'[c] = val'[c]
      /\ \A d \in Client : allowed[d] \subseteq allowed'[d]
      /\ \A d \in Reading : key[d] = k => expect'[c] \in allowed'[d]
  <2>1. PICK old \in latest[k] :
            LET x == Written(o, val'[c], old) IN
            /\ expect' = [expect EXCEPT ![c] = x]
            /\ allowed' = [d \in Client |->
                             IF d \in Reading /\ key[d] = k THEN allowed[d] \cup {x}
                             ELSE allowed[d]]
    BY DEF ObserveUpdate
  <2>2. old \in Item /\ val'[c] \in Item
    BY <1>t DEF HistoryTypes, Types, TypeOK
  <2>3. o \in {"put", "post"} => Written(o, val'[c], old) = val'[c]
    BY <2>2, WrittenItem
  <2>4. expect'[c] = Written(o, val'[c], old)
    BY <2>1, <1>t DEF HistoryTypes
  <2> QED
    BY <2>1, <2>3, <2>4, <1>t DEF HistoryTypes, Reading
<1>5. Updating' = Updating \cup {c} /\ c \notin Updating /\ c \notin Reading
      /\ Reading' = Reading
  BY <1>1 DEF Updating, Reading
<1>6. /\ \A j \in Key \ {k} : UpdatesOf(j)' = UpdatesOf(j)
      /\ UpdatesOf(k)' = UpdatesOf(k) \cup {c}
      /\ \A j \in Key : HalfWritten(j)' = HalfWritten(j)
      /\ \A j \in Key : c \notin UpdatesOf(j)
  BY <1>1, <1>t, <1>5, UpdatesMove DEF UpdatesOf, HalfWritten
<1>7. NextIsNew'
  <2>1. val'[c].base < next'
    BY <1>2, <1>t, ItemTypes DEF NextIsNew
  <2>2. \A x \in Item : x.base < next => x.base < next'
    BY <1>2, ItemTypes
  <2>3. \A d \in Updating : val[d] \in Item /\ replaces[d] \subseteq Item /\ key[d] \in Key
    BY <1>t DEF Updating, TypeOK, HistoryTypes
  <2>4. \A j \in Key : calm'[j] => calm[j] /\ \A x \in latest[j] : x.base < next'
    BY <1>3, <1>t, <2>2 DEF NextIsNew, HistoryTypes
  <2>5. \A d \in Updating' :
            /\ val'[d].base < next'
            /\ calm'[key'[d]] => \A x \in replaces'[d] : x.base < next'
    <3>1. ASSUME NEW d \in Updating, d # c
          PROVE  /\ val'[d].base < next'
                 /\ calm'[key'[d]] => \A x \in replaces'[d] : x.base < next'
      <4>1. /\ val'[d] = val[d] /\ key'[d] = key[d] /\ replaces'[d] = replaces[d]
            /\ key[d] \in Key
        BY <1>1, <2>3, <3>1 DEF Updating
      <4> QED
        BY <4>1, <1>t, <2>2, <2>3, <2>4 DEF NextIsNew
    <3> QED
      BY <1>1, <1>5, <2>1, <2>4, <3>1
  <2>6. next' > 0
    BY <1>2, <1>t DEF NextIsNew
  <2>7. \A j \in Key : master'[j].base < next'
    BY <1>1, <1>t, <2>2 DEF NextIsNew, TypeOK
  <2> QED
    BY <1>1, <2>4, <2>5, <2>6, <2>7 DEF NextIsNew
<1>8. \A d \in Client : pc'[d] = "fill" => val'[d] # Null
  BY <1>1 DEF ReadsInv
<1>9. \A j \in Key : calm'[j] => (UpdatesApart(j) /\ LevelsLatest(j))'
  <2>1. ASSUME NEW j \in Key, calm'[j], j # k
        PROVE  (UpdatesApart(j) /\ LevelsLatest(j))'
    <3>1. \A u \in UpdatesOf(j) : /\ op'[u] = op[u] /\ val'[u] = val[u]
                                  /\ expect'[u] = expect[u] /\ replaces'[u] = replaces[u]
      BY <1>1, <1>4, <1>6 DEF UpdatesOf, Updating
    <3>2. calm[j]
      BY <1>3, <2>1
    <3>3. level1[j] = Null => \A i \in 1..Len(log) : log[i][1] # j
      BY <3>2 DEF ReadsInv, LevelsLatest
    <3> QED
      BY <1>1, <1>6, <2>1, <3>1, <3>2, <3>3, KeyKept
  <2>2. ASSUME calm'[k]
        PROVE  (UpdatesApart(k) /\ LevelsLatest(k))'
    <3>1. calm[k] /\ o \in {"put", "post"} /\ UpdatesApart(k) /\ LevelsLatest(k)
      BY <1>3, <2>2 DEF ReadsInv
    <3>2. /\ expect'[c] = Fresh(next) /\ val'[c] = Fresh(next)
          /\ Fresh(next).base = next /\ Fresh(next) # Null
      BY <1>2, <1>4, <3>1, ItemTypes
    <3>3. Fresh(next) \notin latest[k]
      BY <1>2, <1>t, <3>1, <3>2 DEF NextIsNew
    <3>4. \A u \in UpdatesOf(k) :
             /\ u \in Client \ {c} /\ u \in Updating /\ key[u] = k
             /\ op'[u] = op[u] /\ val'[u] = val[u]
             /\ expect'[u] = expect[u] /\ replaces'[u] = replaces[u]
      BY <1>1, <1>4, <1>6 DEF UpdatesOf, Updating
    <3>5. \A u \in UpdatesOf(k) : Fresh(next) \notin replaces[u] /\ Fresh(next) # expect[u]
      BY <1>2, <1>t, <3>1, <3>2, <3>4 DEF NextIsNew, UpdatesApart
    <3>6. UpdatesApart(k)'
      BY <1>1, <1>6, <3>1, <3>2, <3>3, <3>4, <3>5 DEF UpdatesApart, Null
    <3>7. \A u \in HalfWritten(k) : expect'[u] = expect[u] /\ replaces'[u] = replaces[u]
      BY <3>4 DEF HalfWritten
    <3>8. {expect'[u] : u \in HalfWritten(k)} = {expect[u] : u \in HalfWritten(k)}
      BY <3>7
    <3>9. LevelsLatest(k)'
      BY <1>1, <1>6, <3>1, <3>7, <3>8 DEF LevelsLatest, Null
    <3> QED
      BY <3>6, <3>9
  <2> QED
    BY <2>1, <2>2
<1>10. \A d \in Reading' : calm'[key'[d]] => FindsAllowed(d)'
  <2> SUFFICES ASSUME NEW d \in Reading, calm'[key'[d]]
               PROVE  FindsAllowed(d)'
    BY <1>5
  <2>1. d \in Client \ {c} /\ key'[d] = key[d] /\ key[d] \in Key
    BY <1>1, <1>5, <1>t DEF Reading, TypeOK
  <2>2. calm[key[d]] /\ FindsAllowed(d)
    BY <1>3, <2>1 DEF ReadsInv
  <2>3. ASSUME NEW u \in UpdatesOf(key[d])'
        PROVE  expect'[u] \in allowed'[d]
    <3>1. CASE u = c
      <4>1. key[d] = k
        BY <1>1, <1>6, <2>1, <2>3, <3>1
      <4> QED
        BY <1>4, <3>1, <4>1
    <3>2. CASE u # c
      <4>1. u \in UpdatesOf(key[d]) /\ u \in Client
        BY <1>1, <1>6, <2>1, <2>3, <3>2 DEF UpdatesOf, Updating
      <4> QED
        BY <1>4, <2>1, <2>2, <3>2, <4>1 DEF FindsAllowed
    <3> QED
      BY <3>1, <3>2
  <2> QED
    BY <1>1, <1>4, <2>1, <2>2, <2>3, ReaderKept
<1> QED
  BY <1>7, <1>8, <1>9, <1>10 DEF ReadsInv, Types, Null

\* A get that misses level1 where the cache is calm may find in the slave
\* only the item that is the latest.
LEMMA MissIsLatest ==
    ASSUME ReadsInv, NEW k \in Key, calm[k], level1[k] = Null
    PROVE  /\ replica[k] \in latest[k]
           /\ \A i \in 1..Len(log) : log[i][1] # k
  BY DEF ReadsInv, LevelsLatest

LEMMA ReadsKeep ==
    ASSUME ReadsInv, Types', SlaveFollows', NEW c \in Client,
           ReadLevel1(c) \/ ReadLevel2(c), UNCHANGED history
    PROVE  ReadsInv'
<1>t. Types /\ TypeOK /\ HistoryTypes /\ NextIsNew
  BY DEF ReadsInv, Types
<1>1. /\ \A d \in Client \ {c} : pc'[d] = pc[d] /\ val'[d] = val[d]
      /\ pc'[c] \in {"idle", "read2", "fill"} /\ pc[c] \in {"read1", "read2"}
      /\ UNCHANGED <<level1, master, log, replica, next, op, key>>
      /\ UNCHANGED <<latest, expect, replaces, allowed, calm>>
      /\ key[c] \in Key
  BY <1>t DEF ReadLevel1, ReadLevel2, Goto, TypeOK, request, history
<1>2. /\ pc'[c] = "read2" => pc[c] = "read1" /\ level1[key[c]] = Null
      /\ pc'[c] = "fill" => /\ pc[c] = "read2" /\ val'[c] = replica[key[c]]
                            /\ val'[c] # Null
  BY <1>t DEF ReadLevel1, ReadLevel2, Goto, TypeOK
<1>3. /\ Updating' = Updating /\ c \notin Updating /\ c \in Reading
      /\ Reading' \subseteq Reading
      /\ \A j \in Key : UpdatesOf(j)' = UpdatesOf(j) /\ HalfWritten(j)' = HalfWritten(j)
  <2>1. Updating' = Updating /\ c \notin Updating /\ c \in Reading /\ Reading' \subseteq Reading
    BY <1>1 DEF Updating, Reading
  <2>2. \A j \in Key : UpdatesOf(j)' = UpdatesOf(j)
    BY <1>1, <2>1 DEF UpdatesOf
  <2>3. \A j \in Key : HalfWritten(j)' = HalfWritten(j)
    BY <1>1, <2>1, <2>2 DEF UpdatesOf, HalfWritten, Updating
  <2> QED
    BY <2>1, <2>2, <2>3
<1>4. \A d \in Updating : val'[d] = val[d]
  BY <1>1, <1>3 DEF Updating
<1>5. NextIsNew'
  BY <1>1, <1>3, <1>4, <1>t DEF NextIsNew
<1>6. \A d \in Client : pc'[d] = "fill" => val'[d] # Null
  BY <1>1, <1>2 DEF ReadsInv
<1>7. \A j \in Key : calm'[j] => (UpdatesApart(j) /\ LevelsLatest(j))'
  <2> SUFFICES ASSUME NEW j \in Key, calm[j]
               PROVE  (UpdatesApart(j) /\ LevelsLatest(j))'
    BY <1>1
  <2>1. \A u \in UpdatesOf(j) : val'[u] = val[u]
    BY <1>4 DEF UpdatesOf
  <2>2. level1[j] = Null => \A i \in 1..Len(log) : log[i][1] # j
    BY MissIsLatest
  <2> QED
    BY <1>1, <1>3, <2>1, <2>2, KeyKept
<1>8. \A d \in Reading' : calm'[key'[d]] => FindsAllowed(d)'
  <2> SUFFICES ASSUME NEW d \in Reading', calm[key[d]]
               PROVE  FindsAllowed(d)'
    BY <1>1
  <2>1. FindsAllowed(d) /\ d \in Reading /\ key[d] \in Key /\ d \in Client
    BY <1>3, <1>t DEF ReadsInv, Reading, TypeOK
  <2>2. /\ latest'[key[d]] \subseteq allowed'[d]
        /\ \A u \in UpdatesOf(key[d])' : expect'[u] \in allowed'[d]
    BY <1>1, <1>3, <2>1 DEF FindsAllowed
  <2>3. pc'[d] = "read2" =>
            /\ replica[key[d]] \in allowed[d]
            /\ \A i \in 1..Len(log) : log[i][1] = key[d] => log[i][2] \in allowed[d]
    <3>1. CASE d = c
      BY <1>2, <2>1, <3>1, MissIsLatest DEF FindsAllowed
    <3>2. CASE d # c
      BY <1>1, <2>1, <3>2 DEF FindsAllowed
    <3> QED
      BY <3>1, <3>2
  <2>4. pc'[d] = "fill" => val'[d] \in allowed[d]
    BY <1>1, <1>2, <2>1 DEF FindsAllowed
  <2> QED
    BY <1>1, <2>2, <2>3, <2>4 DEF FindsAllowed
<1> QED
  BY <1>5, <1>6, <1>7, <1>8 DEF ReadsInv, Types, Null

\* A get that goes on while other requests write level1 only.
LEMMA ReaderUntouched ==
    ASSUME ReadsInv, NEW d \in Reading, calm[key[d]], pc'[d] = pc[d],
           UpdatesOf(key[d])' = UpdatesOf(key[d]),
           UNCHANGED <<log, replica, key, val, expect, allowed>>,
           latest'[key[d]] = latest[key[d]]
    PROVE  FindsAllowed(d)'
<1>1. \A u \in UpdatesOf(key[d])' : expect'[u] \in allowed'[d]
  BY DEF ReadsInv, FindsAllowed
<1> QED
  BY <1>1, ReaderKept

\* A step that neither begins nor ends an update, whatever it does to a key.
LEMMA DatesKept ==
    ASSUME ReadsInv, next' = next, master' = master, val' = val, key' = key,
           replaces' = replaces, Updating' \subseteq Updating,
           \A k \in Key : calm'[k] => calm[k],
           \A k \in Key : calm'[k] => latest'[k] = latest[k]
    PROVE  NextIsNew'
<1>1. \A d \in Updating : key[d] \in Key
  BY DEF ReadsInv, TypeOK, Updating
<1> QED
  BY <1>1 DEF ReadsInv, NextIsNew

LEMMA WriteLevel1Keeps ==
    ASSUME ReadsInv, Types', SlaveFollows', NEW c \in Client,
           WriteLevel1(c), UNCHANGED history
    PROVE  ReadsInv'
<1> DEFINE k == key[c]
<1>t. Types /\ TypeOK /\ HistoryTypes
  BY DEF ReadsInv, Types
<1>1. /\ Goto(c, "write1", "write2") /\ pc[c] = "write1" /\ pc'[c] = "write2"
      /\ \A d \in Client \ {c} : pc'[d] = pc[d]
      /\ UNCHANGED <<master, log, replica, next, op, key, val>>
      /\ UNCHANGED <<latest, expect, replaces, allowed, calm>>
      /\ k \in Key /\ level1'[k] = Written(op[c], val[c], level1[k])
      /\ \A j \in Key \ {k} : level1'[j] = level1[j]
  BY <1>t DEF WriteLevel1, Goto, TypeOK, request, history
<1>2. /\ \A j \in Key : UpdatesOf(j)' = UpdatesOf(j)
      /\ \A j \in Key \ {k} : HalfWritten(j)' = HalfWritten(j)
      /\ HalfWritten(k)' = HalfWritten(k) \cup {c}
      /\ c \in UpdatesOf(k) /\ Updating' = Updating
  <2>1. Updating' = Updating /\ c \in Updating
    BY <1>1 DEF Updating
  <2>2. \A j \in Key : UpdatesOf(j)' = UpdatesOf(j)
    BY <1>1, <2>1 DEF UpdatesOf
  <2>3. c \in UpdatesOf(k) /\ \A j \in Key \ {k} : c \notin UpdatesOf(j)
    BY <2>1 DEF UpdatesOf
  <2>4. \A j \in Key : \A u \in UpdatesOf(j) : u \in Client
    BY DEF UpdatesOf, Updating
  <2>5. \A j \in Key \ {k} : HalfWritten(j)' = HalfWritten(j)
    BY <1>1, <2>2, <2>3, <2>4 DEF HalfWritten
  <2>6. HalfWritten(k)' = HalfWritten(k) \cup {c}
    BY <1>1, <2>2, <2>3, <2>4 DEF HalfWritten
  <2> QED
    BY <2>1, <2>2, <2>3, <2>5, <2>6
<1>3. NextIsNew'
  BY <1>1, <1>2, DatesKept
<1>4. \A d \in Client : pc'[d] = "fill" => val'[d] # Null
  BY <1>1 DEF ReadsInv
<1>5. \A j \in Key : calm'[j] => (UpdatesApart(j) /\ LevelsLatest(j))'
  <2>1. ASSUME NEW j \in Key, calm[j], j # k
        PROVE  (UpdatesApart(j) /\ LevelsLatest(j))'
    BY <1>1, <1>2, <2>1, MissIsLatest, KeyKept
  <2>2. ASSUME calm[k]
        PROVE  (UpdatesApart(k) /\ LevelsLatest(k))'
    <3>1. UpdatesApart(k) /\ LevelsLatest(k)
      BY <1>1, <2>2 DEF ReadsInv
    <3>2. UpdatesApart(k)'
      BY <1>1, <1>2, <3>1 DEF UpdatesApart, Null
    <3>3. level1'[k] = expect[c] /\ expect[c] # Null
      BY <1>1, <1>2, <1>t, <3>1, WrittenItem DEF UpdatesApart, TypeOK
    <3>4. \A u \in HalfWritten(k)' : expect[c] \notin replaces[u]
      BY <1>2, <3>1 DEF UpdatesApart, HalfWritten
    <3>5. LevelsLatest(k)'
      BY <1>1, <1>2, <3>1, <3>3, <3>4 DEF LevelsLatest, Null
    <3> QED
      BY <3>2, <3>5
  <2> QED
    BY <1>1, <2>1, <2>2
<1>6. \A d \in Reading' : calm'[key'[d]] => FindsAllowed(d)'
  <2> SUFFICES ASSUME NEW d \in Reading', calm'[key'[d]]
               PROVE  FindsAllowed(d)'
    OBVIOUS
  <2>1. d \in Reading /\ key'[d] = key[d] /\ key[d] \in Key /\ pc'[d] = pc[d]
    BY <1>1, <1>t DEF Reading, TypeOK
  <2>2. calm[key[d]]
    BY <1>1, <2>1
  <2> QED
    BY <1>1, <1>2, <2>1, <2>2, ReaderUntouched
<1> QED
  BY <1>3, <1>4, <1>5, <1>6 DEF ReadsInv, Types, Null

LEMMA FillKeeps ==
    ASSUME ReadsInv, Types', SlaveFollows', NEW c \in Client, Fill(c), ObserveFill(c)
    PROVE  ReadsInv'
<1> DEFINE k == key[c]
<1>t. Types /\ TypeOK /\ HistoryTypes
  BY DEF ReadsInv, Types
<1>1. /\ Goto(c, "fill", "idle") /\ pc[c] = "fill" /\ pc'[c] = "idle"
      /\ \A d \in Client \ {c} : pc'[d] = pc[d]
      /\ UNCHANGED <<master, log, replica, next, op, key, val>>
      /\ UNCHANGED <<latest, expect, replaces, allowed>>
      /\ k \in Key /\ level1'[k] = val[c]
      /\ \A j \in Key \ {k} : level1'[j] = level1[j] /\ calm'[j] = calm[j]
      /\ calm'[k] => calm[k] /\ val[c] \in latest[k] /\ UpdatesOf(k) = {}
  BY <1>t DEF Fill, ObserveFill, Goto, TypeOK, HistoryTypes, request, UpdatesOf
<1>2. /\ \A j \in Key : UpdatesOf(j)' = UpdatesOf(j) /\ HalfWritten(j)' = HalfWritten(j)
      /\ Updating' = Updating
  <2>1. Updating' = Updating /\ c \notin Updating
    BY <1>1 DEF Updating
  <2>2. \A j \in Key : UpdatesOf(j)' = UpdatesOf(j)
    BY <1>1, <2>1 DEF UpdatesOf
  <2>3. \A j \in Key : HalfWritten(j)' = HalfWritten(j)
    BY <1>1, <2>1, <2>2 DEF UpdatesOf, HalfWritten, Updating
  <2> QED
    BY <2>1, <2>2, <2>3
<1>3. NextIsNew'
  BY <1>1, <1>2, DatesKept
<1>4. \A d \in Client : pc'[d] = "fill" => val'[d] # Null
  BY <1>1 DEF ReadsInv
<1>5. \A j \in Key : calm'[j] => (UpdatesApart(j) /\ LevelsLatest(j))'
  <2>1. ASSUME NEW j \in Key, calm'[j], j # k
        PROVE  (UpdatesApart(j) /\ LevelsLatest(j))'
    BY <1>1, <1>2, <2>1, MissIsLatest, KeyKept
  <2>2. ASSUME calm'[k]
        PROVE  (UpdatesApart(k) /\ LevelsLatest(k))'
    <3>1. LevelsLatest(k) /\ UpdatesOf(k)' = {} /\ HalfWritten(k)' = {}
      BY <1>1, <1>2, <2>2 DEF ReadsInv, HalfWritten
    <3>2. val[c] # Null /\ val[c] \in latest[k]
      BY <1>1, <2>2 DEF ReadsInv
    <3>3. UpdatesApart(k)'
      BY <3>1 DEF UpdatesApart
    <3>4. LevelsLatest(k)'
      BY <1>1, <3>1, <3>2 DEF LevelsLatest, Null
    <3> QED
      BY <3>3, <3>4
  <2> QED
    BY <1>1, <2>1, <2>2
<1>6. \A d \in Reading' : calm'[key'[d]] => FindsAllowed(d)'
  <2> SUFFICES ASSUME NEW d \in Reading', calm'[key'[d]]
               PROVE  FindsAllowed(d)'
    OBVIOUS
  <2>1. d \in Reading /\ key'[d] = key[d] /\ key[d] \in Key /\ pc'[d] = pc[d]
    BY <1>1, <1>t DEF Reading, TypeOK
  <2>2. calm[key[d]]
    BY <1>1, <2>1
  <2> QED
    BY <1>1, <1>2, <2>1, <2>2, ReaderUntouched
<1> QED
  BY <1>3, <1>4, <1>5, <1>6 DEF ReadsInv, Types, Null

LEMMA FailureKeeps ==
    ASSUME ReadsInv, Types', SlaveFollows', NEW c \in Client,
           CallFails(c), ObserveFailure(c)
    PROVE  ReadsInv'
<1> DEFINE k == key[c]
<1>t. Types /\ TypeOK /\ HistoryTypes
  BY DEF ReadsInv, Types
<1>1. /\ \A d \in Client \ {c} : pc'[d] = pc[d]
      /\ pc'[c] \in {"idle", "read2", "write2"}
      /\ UNCHANGED <<level1, master, log, replica, next, op, key, val>>
      /\ UNCHANGED <<expect, replaces, allowed>>
      /\ k \in Key /\ ~calm'[k]
      /\ \A j \in Key \ {k} : calm'[j] = calm[j] /\ latest'[j] = latest[j]
  BY <1>t DEF CallFails, ObserveFailure, Goto, TypeOK, HistoryTypes, request
<1>2. \A d \in Updating' : d \in Updating
  BY <1>t DEF Updating, CallFails, Goto, TypeOK
<1>3. \A j \in Key \ {k} : UpdatesOf(j)' = UpdatesOf(j) /\ HalfWritten(j)' = HalfWritten(j)
  <2>1. \A j \in Key \ {k} : UpdatesOf(j)' = UpdatesOf(j) /\ c \notin UpdatesOf(j)
    BY <1>1 DEF UpdatesOf, Updating
  <2> QED
    BY <1>1, <2>1 DEF HalfWritten, UpdatesOf, Updating
<1>4. NextIsNew'
  BY <1>1, <1>2, DatesKept
<1>5. \A d \in Client : pc'[d] = "fill" => val'[d] # Null
  BY <1>1 DEF ReadsInv
<1>6. \A j \in Key : calm'[j] => (UpdatesApart(j) /\ LevelsLatest(j))'
  BY <1>1, <1>3, MissIsLatest, KeyKept
<1>7. \A d \in Reading' : calm'[key'[d]] => FindsAllowed(d)'
  <2> SUFFICES ASSUME NEW d \in Reading', calm'[key[d]]
               PROVE  FindsAllowed(d)'
    BY <1>1
  <2>1. d \in Reading /\ pc'[d] = pc[d] /\ key[d] \in Key \ {k} /\ calm[key[d]]
    BY <1>1, <1>t DEF Reading, TypeOK
  <2>2. FindsAllowed(d)
    BY <2>1 DEF ReadsInv
  <2>3. \A u \in UpdatesOf(key[d])' : expect'[u] \in allowed'[d]
    BY <1>1, <1>3, <2>1, <2>2 DEF FindsAllowed
  <2> QED
    BY <1>1, <2>1, <2>3, ReaderKept
<1> QED
  BY <1>4, <1>5, <1>6, <1>7 DEF ReadsInv, Types, Null

LEMMA ReplicateKeeps ==
    ASSUME ReadsInv, Types', SlaveFollows', Replicate, UNCHANGED history
    PROVE  ReadsInv'
<1>t. Types /\ TypeOK /\ HistoryTypes
  BY DEF ReadsInv, Types
<1>1. /\ UNCHANGED <<level1, master, next, pc, op, key, val>>
      /\ UNCHANGED <<latest, expect, replaces, allowed, calm>>
      /\ replica' = [replica EXCEPT ![log[1][1]] = log[1][2]]
      /\ log' = Tail(log) /\ log # << >> /\ log \in Seq(Update)
  BY <1>t DEF Replicate, request, history, TypeOK, Update
<1>2. /\ 1 \in 1..Len(log)
      /\ \A i \in 1..Len(log') : i + 1 \in 1..Len(log) /\ log'[i] = log[i + 1]
  BY <1>1, LogReplicated
<1>3. \A j \in Key : \/ replica'[j] = replica[j]
                     \/ log[1][1] = j /\ log[1][2] = replica'[j]
  BY <1>1, <1>t DEF TypeOK
<1>4. /\ Updating' = Updating /\ Reading' = Reading
      /\ \A j \in Key : UpdatesOf(j)' = UpdatesOf(j) /\ HalfWritten(j)' = HalfWritten(j)
  BY <1>1 DEF Updating, Reading, UpdatesOf, HalfWritten
<1>5. NextIsNew'
  BY <1>1, <1>4, DatesKept
<1>6. \A j \in Key : calm'[j] => (UpdatesApart(j) /\ LevelsLatest(j))'
  <2> SUFFICES ASSUME NEW j \in Key, calm[j]
               PROVE  (UpdatesApart(j) /\ LevelsLatest(j))'
    BY <1>1
  <2>1. level1[j] = Null => /\ replica'[j] = replica[j]
                            /\ \A i \in 1..Len(log') : log'[i][1] # j
    BY <1>2, <1>3, MissIsLatest
  <2> QED
    BY <1>1, <1>4, <2>1, KeyKept
<1>7. \A d \in Reading' : calm'[key'[d]] => FindsAllowed(d)'
  <2> SUFFICES ASSUME NEW d \in Reading, calm[key[d]]
               PROVE  FindsAllowed(d)'
    BY <1>1, <1>4
  <2>1. FindsAllowed(d) /\ key[d] \in Key
    BY <1>t DEF ReadsInv, Reading, TypeOK
  <2>2. \A u \in UpdatesOf(key[d])' : expect'[u] \in allowed'[d]
    BY <1>1, <1>4, <2>1 DEF FindsAllowed
  <2>3. \A i \in 1..Len(log') : \E j \in 1..Len(log) : log[j] = log'[i]
    BY <1>2
  <2>4. \/ replica'[key[d]] = replica[key[d]]
        \/ \E i \in 1..Len(log) : log[i][1] = key[d] /\ log[i][2] = replica'[key[d]]
    BY <1>2, <1>3, <2>1
  <2> QED
    BY <1>1, <2>2, <2>3, <2>4, ReaderKept
<1> QED
  BY <1>1, <1>5, <1>6, <1>7 DEF ReadsInv, Types, Null

LEMMA WriteLevel2Keeps ==
    ASSUME ReadsInv, Types', SlaveFollows', NEW c \in Client,
           WriteLevel2(c), ObserveUpdated(c)
    PROVE  ReadsInv'
<1> DEFINE k == key[c]
           x == Written(op[c], val[c], master[k])
<1>t. Types /\ TypeOK /\ HistoryTypes
  BY DEF ReadsInv, Types
<1>1. /\ pc[c] = "write2" /\ pc'[c] = "idle"
      /\ \A d \in Client \ {c} : pc'[d] = pc[d]
      /\ UNCHANGED <<level1, replica, next, op, key, val>>
      /\ UNCHANGED <<expect, replaces, allowed, calm>>
      /\ k \in Key /\ x \in Item /\ master'[k] = x
      /\ latest'[k] = (latest[k] \ replaces[c]) \cup {expect[c]}
      /\ \A j \in Key \ {k} : master'[j] = master[j] /\ latest'[j] = latest[j]
      /\ log' = Append(log, <<k, x>>) /\ log \in Seq(Update)
  BY <1>t, WrittenItem
     DEF WriteLevel2, ObserveUpdated, Goto, TypeOK, HistoryTypes, request, Update
<1>2. /\ \A j \in Key \ {k} : UpdatesOf(j)' = UpdatesOf(j) /\ HalfWritten(j)' = HalfWritten(j)
      /\ UpdatesOf(k)' = UpdatesOf(k) \ {c} /\ HalfWritten(k)' = HalfWritten(k) \ {c}
      /\ c \in HalfWritten(k) /\ c \in UpdatesOf(k)
      /\ Updating' = Updating \ {c} /\ c \in Updating
  <2>1. Updating' = Updating \ {c} /\ c \in Updating
    BY <1>1 DEF Updating
  <2>2. /\ \A j \in Key \ {k} : UpdatesOf(j)' = UpdatesOf(j) /\ c \notin UpdatesOf(j)
        /\ UpdatesOf(k)' = UpdatesOf(k) \ {c} /\ c \in UpdatesOf(k)
    BY <1>1, <2>1 DEF UpdatesOf
  <2>3. \A j \in Key : \A u \in UpdatesOf(j) : u \in Client
    BY DEF UpdatesOf, Updating
  <2>4. ASSUME NEW j \in Key \ {k}
        PROVE  HalfWritten(j)' = HalfWritten(j)
    <3>1. \A u \in UpdatesOf(j) : pc'[u] = pc[u]
      BY <1>1, <2>2, <2>3
    <3> QED
      BY <2>2, <3>1 DEF HalfWritten
  <2>5. HalfWritten(k)' = HalfWritten(k) \ {c}
    BY <1>1, <2>2, <2>3 DEF HalfWritten
  <2>6. c \in HalfWritten(k)
    BY <1>1, <2>2 DEF HalfWritten
  <2> QED
    BY <2>1, <2>2, <2>4, <2>5, <2>6
<1>3. \A i \in 1..Len(log') : \/ log'[i] = <<k, x>>
                              \/ i \in 1..Len(log) /\ log'[i] = log[i]
  BY <1>1, LogAppended
<1>4. calm[k] => x = expect[c] /\ x = val[c]
  BY <1>1, <1>2, <1>t, WrittenItem DEF ReadsInv, UpdatesApart, TypeOK
<1> HIDE DEF x
<1>5. NextIsNew'
  <2>1. NextIsNew /\ val[c].base < next
    BY <1>2 DEF ReadsInv, NextIsNew
  <2>2. x.base < next
    <3>1. x.base \in {0, val[c].base, master[k].base}
      BY <1>1, <1>t, WrittenItem DEF x, TypeOK
    <3> QED
      BY <1>1, <2>1, <3>1 DEF NextIsNew
  <2>3. \A j \in Key : master'[j].base < next
    BY <1>1, <2>1, <2>2 DEF NextIsNew
  <2>4. \A j \in Key : calm[j] => \A y \in latest'[j] : y.base < next
    BY <1>1, <1>4, <2>1, <2>2 DEF NextIsNew
  <2> QED
    BY <1>1, <1>2, <2>1, <2>3, <2>4 DEF NextIsNew
<1>6. \A d \in Client : pc'[d] = "fill" => val'[d] # Null
  BY <1>1 DEF ReadsInv
<1>7. \A j \in Key : calm'[j] => (UpdatesApart(j) /\ LevelsLatest(j))'
  <2>1. ASSUME NEW j \in Key, calm[j], j # k
        PROVE  (UpdatesApart(j) /\ LevelsLatest(j))'
    <3>1. level1[j] = Null => \A i \in 1..Len(log') : log'[i][1] # j
      BY <1>3, <2>1, MissIsLatest
    <3> QED
      BY <1>1, <1>2, <2>1, <3>1, KeyKept
  <2>2. ASSUME calm[k]
        PROVE  (UpdatesApart(k) /\ LevelsLatest(k))'
    <3>1. UpdatesApart(k) /\ LevelsLatest(k)
      BY <1>1, <2>2 DEF ReadsInv
    <3>2. UpdatesApart(k)'
      BY <1>1, <1>2, <3>1 DEF UpdatesApart, Null
    <3>3. level1[k] # Null /\ level1[k] \notin replaces[c]
      BY <1>2, <3>1 DEF LevelsLatest
    <3>4. level1[k] \in latest'[k] \cup {expect[u] : u \in HalfWritten(k) \ {c}}
      BY <1>1, <3>1, <3>3 DEF LevelsLatest
    <3>5. IsFiniteSet(latest'[k])
      <4>1. IsFiniteSet(latest[k] \ replaces[c])
        BY <3>1, FS_Difference DEF LevelsLatest
      <4>2. IsFiniteSet((latest[k] \ replaces[c]) \cup {expect[c]})
        BY <4>1, FS_AddElement
      <4> QED
        BY <1>1, <4>2
    <3>6. master'[k] \in latest'[k]
      BY <1>1, <1>4, <2>2
    <3>7. LevelsLatest(k)'
      BY <1>1, <1>2, <3>1, <3>3, <3>4, <3>5, <3>6 DEF LevelsLatest, Null
    <3> QED
      BY <3>2, <3>7
  <2> QED
    BY <1>1, <2>1, <2>2
<1>8. \A d \in Reading' : calm'[key'[d]] => FindsAllowed(d)'
  <2> SUFFICES ASSUME NEW d \in Reading', calm'[key'[d]]
               PROVE  FindsAllowed(d)'
    OBVIOUS
  <2>1. /\ d \in Reading /\ key'[d] = key[d] /\ key[d] \in Key /\ pc'[d] = pc[d]
        /\ calm[key[d]]
    BY <1>1, <1>t DEF Reading, TypeOK
  <2>2. \A u \in UpdatesOf(key[d])' : u \in UpdatesOf(key[d])
    BY <1>1, <1>2, <2>1
  <2>3. \A u \in UpdatesOf(key[d])' : expect'[u] \in allowed'[d]
    BY <1>1, <2>1, <2>2 DEF ReadsInv, FindsAllowed
  <2>4. \A y \in latest'[key[d]] :
            y \in latest[key[d]] \/ \E u \in UpdatesOf(key[d]) : y = expect[u]
    BY <1>1, <1>2, <2>1
  <2>5. \A i \in 1..Len(log') :
            \/ log'[i][1] # key[d]
            \/ \E u \in UpdatesOf(key[d]) : log'[i][2] = expect[u]
            \/ \E j \in 1..Len(log) : log[j] = log'[i]
    BY <1>2, <1>3, <1>4, <2>1
  <2> QED
    BY <1>1, <2>1, <2>3, <2>4, <2>5, ReaderKept
<1> QED
  BY <1>1, <1>5, <1>6, <1>7, <1>8 DEF ReadsInv, Types, Null

LEMMA EvictKeeps ==
    ASSUME ReadsInv, Types', SlaveFollows', NEW k \in Key, Evict(k), ObserveEvict(k)
    PROVE  ReadsInv'
<1>t. Types /\ TypeOK /\ HistoryTypes
  BY DEF ReadsInv, Types
<1>1. /\ UNCHANGED <<master, log, replica, next, pc, op, key, val>>
      /\ UNCHANGED <<expect, replaces, allowed>>
      /\ level1'[k] = Null
      /\ \A j \in Key \ {k} : /\ level1'[j] = level1[j] /\ calm'[j] = calm[j]
                              /\ latest'[j] = latest[j]
      /\ calm'[k] => Quiet(k) /\ latest'[k] = {master[k]}
  BY <1>t DEF Evict, ObserveEvict, TypeOK, HistoryTypes, request
<1>2. /\ Updating' = Updating /\ Reading' = Reading
      /\ \A j \in Key : UpdatesOf(j)' = UpdatesOf(j) /\ HalfWritten(j)' = HalfWritten(j)
  BY <1>1 DEF Updating, Reading, UpdatesOf, HalfWritten
<1>3. calm'[k] => /\ UpdatesOf(k) = {} /\ HalfWritten(k) = {}
                  /\ \A d \in Reading : key[d] # k
                  /\ \A i \in 1..Len(log) : log[i][1] # k
  BY <1>1 DEF Quiet, UpdatesOf, HalfWritten, Updating, Reading
<1>4. NextIsNew'
  <2>1. \A j \in Key : calm'[j] => \A y \in latest'[j] : y.base < next
    BY <1>1 DEF ReadsInv, NextIsNew
  <2>2. \A d \in Updating : calm'[key[d]] => calm[key[d]]
    <3>1. \A d \in Updating : key[d] \in Key
      BY <1>t DEF Updating, TypeOK
    <3> QED
      BY <1>1, <1>3, <3>1 DEF UpdatesOf
  <2> QED
    BY <1>1, <1>2, <2>1, <2>2 DEF ReadsInv, NextIsNew
<1>5. \A d \in Client : pc'[d] = "fill" => val'[d] # Null
  BY <1>1 DEF ReadsInv
<1>6. \A j \in Key : calm'[j] => (UpdatesApart(j) /\ LevelsLatest(j))'
  <2>1. ASSUME NEW j \in Key, calm'[j], j # k
        PROVE  (UpdatesApart(j) /\ LevelsLatest(j))'
    BY <1>1, <1>2, <2>1, MissIsLatest, KeyKept
  <2>2. ASSUME calm'[k]
        PROVE  (UpdatesApart(k) /\ LevelsLatest(k))'
    <3>1. UpdatesApart(k)'
      BY <1>2, <1>3, <2>2 DEF UpdatesApart
    <3>2. replica[k] = master[k]
      BY <1>3, <2>2 DEF ReadsInv, SlaveFollows
    <3>3. IsFiniteSet({master[k]})
      BY FS_Singleton
    <3>4. LevelsLatest(k)'
      BY <1>1, <1>2, <1>3, <2>2, <3>2, <3>3 DEF LevelsLatest, Null
    <3> QED
      BY <3>1, <3>4
  <2> QED
    BY <2>1, <2>2
<1>7. \A d \in Reading' : calm'[key'[d]] => FindsAllowed(d)'
  <2> SUFFICES ASSUME NEW d \in Reading, calm'[key[d]]
               PROVE  FindsAllowed(d)'
    BY <1>1, <1>2
  <2>1. key[d] \in Key \ {k} /\ calm[key[d]]
    BY <1>1, <1>3, <1>t DEF Reading, TypeOK
  <2> QED
    BY <1>1, <1>2, <2>1, ReaderUntouched
<1> QED
  BY <1>4, <1>5, <1>6, <1>7 DEF ReadsInv, Types, Null

LEMMA NextKeeps ==
    ASSUME ReadsInv, [NextReads]_<<vars, history>>
    PROVE  ReadsInv'
<1>1. Types' /\ SlaveFollows'
  BY TypesNext, FollowsNext DEF ReadsInv, Types
<1>2. ASSUME NEW c \in Client, WriteLevel1(c) \/ ReadLevel1(c) \/ ReadLevel2(c),
             UNCHANGED history
      PROVE  ReadsInv'
  BY <1>1, <1>2, ReadsKeep, WriteLevel1Keeps
<1>3. CASE UNCHANGED <<vars, history>>
  <2>1. UNCHANGED <<level1, master, log, replica, next, pc, op, key, val>>
    BY <1>3 DEF vars, request
  <2>2. UNCHANGED <<latest, expect, replaces, allowed, calm>>
    BY <1>3 DEF history
  <2>3. Updating' = Updating /\ Reading' = Reading
    BY <2>1 DEF Updating, Reading
  <2>4. \A j \in Key : UpdatesOf(j)' = UpdatesOf(j) /\ HalfWritten(j)' = HalfWritten(j)
    BY <2>1, <2>3 DEF UpdatesOf, HalfWritten
  <2>5. NextIsNew'
    BY <2>1, <2>2, <2>3, DatesKept
  <2>6. \A j \in Key : calm'[j] => (UpdatesApart(j) /\ LevelsLatest(j))'
    BY <2>1, <2>2, <2>4, MissIsLatest, KeyKept
  <2>7. \A d \in Reading' : calm'[key'[d]] => FindsAllowed(d)'
    <3>1. \A d \in Reading : key[d] \in Key
      BY DEF ReadsInv, TypeOK, Reading
    <3> QED
      BY <2>1, <2>2, <2>3, <2>4, <3>1, ReaderUntouched
  <2> QED
    BY <1>1, <2>1, <2>5, <2>6, <2>7 DEF ReadsInv, Types, Null
<1> QED
  BY <1>1, <1>2, <1>3, GetCallKeeps, UpdateCallKeeps, FillKeeps, WriteLevel2Keeps,
     FailureKeeps, ReplicateKeeps, EvictKeeps DEF NextReads

-----------------------------------------------------------------------------
(* The theorems *)

LEMMA InitInvariant == InitReads => ReadsInv
<1> SUFFICES ASSUME InitReads
             PROVE  ReadsInv
  OBVIOUS
<1>1. TypeOK /\ HistoryTypes /\ SlaveFollows
  BY InitTypes, InitFollows DEF Types
<1>2. /\ Updating = {} /\ Reading = {} /\ \A c \in Client : pc[c] # "fill"
      /\ \A k \in Key : UpdatesOf(k) = {} /\ HalfWritten(k) = {}
  BY DEF InitReads, Init, Updating, Reading, UpdatesOf, HalfWritten
<1>3. \A k \in Key : master[k].base < 2
  BY ItemTypes, CacheAssumption DEF InitReads, Init, Version
<1>4. NextIsNew
  BY <1>2, <1>3 DEF InitReads, Init, NextIsNew
<1>5. \A k \in Key : UpdatesApart(k) /\ LevelsLatest(k)
  <2> SUFFICES ASSUME NEW k \in Key
               PROVE  UpdatesApart(k) /\ LevelsLatest(k)
    OBVIOUS
  <2>1. UpdatesApart(k)
    BY <1>2 DEF UpdatesApart
  <2>2. IsFiniteSet(latest[k]) /\ latest[k] = {master[k]}
    BY FS_Singleton DEF InitReads
  <2>3. level1[k] = Null /\ replica[k] = master[k] /\ 1..Len(log) = {}
    BY EmptySeq DEF InitReads, Init
  <2> QED
    BY <1>2, <2>1, <2>2, <2>3 DEF LevelsLatest
<1> QED
  BY <1>1, <1>2, <1>4, <1>5 DEF ReadsInv

LEMMA InvariantAgrees == ReadsInv => LevelsAgree
<1> SUFFICES ASSUME ReadsInv, NEW k \in Key, calm[k], Cardinality(latest[k]) = 1,
                    \A c \in Updating : key[c] # k
             PROVE  level1[k] \in {Null, master[k]}
  BY DEF LevelsAgree, CalmLevelsAgree, ReadsInv
<1>1. HalfWritten(k) = {}
  BY DEF HalfWritten, UpdatesOf
<1>2. /\ IsFiniteSet(latest[k]) /\ master[k] \in latest[k]
      /\ level1[k] # Null => level1[k] \in latest[k]
  BY <1>1 DEF ReadsInv, LevelsLatest
<1>3. \E x : latest[k] = {x}
  BY <1>2, FS_Singleton
<1> QED
  BY <1>2, <1>3

\* Where the cache is calm, a get may answer with what it is about to.
LEMMA AnswersAllowed ==
    ASSUME ReadsInv, [NextReads]_<<vars, history>>, NEW c \in Client,
           Answers(c), calm[key[c]], calm'[key[c]] \/ pc[c] = "fill"
    PROVE  Answer(c) \in allowed[c]
<1>t. TypeOK /\ HistoryTypes /\ c \in Reading /\ FindsAllowed(c) /\ key[c] \in Key
  BY DEF ReadsInv, Answers, TypeOK
<1>1. CASE pc[c] = "fill"
  BY <1>1, <1>t DEF Answer, FindsAllowed
<1>2. CASE pc[c] # "fill" /\ calm'[key[c]]
  <2>1. pc[c] \in {"read1", "read2"} /\ pc'[c] = "idle"
    BY <1>2, <1>t DEF Reading, Answers
  <2>2. ReadLevel1(c) \/ ReadLevel2(c)
    <3>1. ASSUME NEW d \in Client, CallFails(d), ObserveFailure(d)
          PROVE  FALSE
      <4>1. d = c
        BY <2>1, <3>1, <1>t DEF CallFails, Goto, TypeOK
      <4>2. ~calm'[key[c]]
        BY <3>1, <4>1, <1>t DEF ObserveFailure, HistoryTypes
      <4> QED
        BY <1>2, <4>2
    <3>2. ASSUME NEW d \in Client, d # c \/ Fill(d) \/ WriteLevel1(d) \/ WriteLevel2(d),
                 ReadLevel1(d) \/ ReadLevel2(d) \/ Fill(d) \/ WriteLevel1(d) \/ WriteLevel2(d)
          PROVE  FALSE
      BY <2>1, <3>2, <1>t
         DEF ReadLevel1, ReadLevel2, Fill, WriteLevel1, WriteLevel2, Goto, TypeOK
    <3>3. ASSUME NEW d \in Client, NEW k \in Key,
                 \/ GetCall(d, k)
                 \/ \E o \in {"post", "put", "patch", "delete"} : UpdateCall(d, o, k)
          PROVE  FALSE
      BY <2>1, <3>3, <1>t DEF GetCall, UpdateCall, Goto, TypeOK
    <3>4. ASSUME pc' = pc
          PROVE  FALSE
      BY <2>1, <3>4
    <3> QED
      BY <3>1, <3>2, <3>3, <3>4 DEF NextReads, Replicate, Evict, vars
  <2>3. CASE ReadLevel1(c)
    <3>1. pc[c] = "read1" /\ level1[key[c]] # Null
      BY <2>1, <2>3, <1>t DEF ReadLevel1, Goto, TypeOK
    <3>2. level1[key[c]] \in latest[key[c]] \cup {expect[u] : u \in HalfWritten(key[c])}
      BY <3>1, <1>t DEF ReadsInv, LevelsLatest
    <3>3. \A u \in HalfWritten(key[c]) : u \in UpdatesOf(key[c])
      BY DEF HalfWritten
    <3> QED
      BY <3>1, <3>2, <3>3, <1>t DEF Answer, FindsAllowed
  <2>4. CASE ReadLevel2(c)
    <3>1. pc[c] = "read2" /\ replica[key[c]] = Null
      BY <2>1, <2>4, <1>t DEF ReadLevel2, Goto, TypeOK
    <3> QED
      BY <3>1, <1>t DEF Answer, FindsAllowed
  <2> QED
    BY <2>2, <2>3, <2>4
<1> QED
  BY <1>1, <1>2

\* The inductive invariant: what level1, the master, the slave and the log
\* between them hold of the updates of datacache.cpp that are done, and of
\* those in flight.
THEOREM ReadsInvariant == SpecReads => []ReadsInv
<1>1. InitReads => ReadsInv
  BY InitInvariant
<1>2. ReadsInv /\ [NextReads]_<<vars, history>> => ReadsInv'
  BY NextKeeps
<1> QED
  BY <1>1, <1>2, PTL DEF SpecReads

\* However many puts, posts and gets interleave, once the updates of a calm
\* key are done and one of them was the last, level1 holds what the master
\* holds, or nothing.
THEOREM CalmLevelsHoldTheSame == SpecReads => []LevelsAgree
  BY ReadsInvariant, InvariantAgrees, PTL

\* While the slave lags, a get of a calm key answers with the latest update
\* or with one that overlaps it, as the header of datacache.cpp says.
THEOREM GetsFindTheLatest == SpecReads => CalmReadsLatest
<1>1. ReadsInv /\ [NextReads]_<<vars, history>>
        => [\A c \in Client :
              Answers(c) /\ calm[key[c]] /\ (calm'[key[c]] \/ pc[c] = "fill")
                  => Answer(c) \in allowed[c]]_<<vars, history>>
  BY AnswersAllowed
<1> QED
  BY <1>1, ReadsInvariant, PTL DEF SpecReads, CalmReadsLatest
=============================================================================
