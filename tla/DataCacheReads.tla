--------------------------- MODULE DataCacheReads ---------------------------
(***************************************************************************)
(* What readers of the two level cache see.  The header of                 *)
(* components/cache/datacache.cpp lets the slave of the level2 store lag   *)
(* behind: "the updates eventually get replicated to the slave database,   *)
(* in the meantime the updates will be retrieved from the level1 cache".   *)
(*                                                                         *)
(* History variables follow the updates of each key and what every get may *)
(* answer, and whether the cache is calm for the key: items were only read *)
(* and written whole, no call failed, no get filled level1 with an item    *)
(* that an update had replaced or was replacing, and nothing was evicted   *)
(* while the slave lagged or a request was in flight.  Once disturbed, it  *)
(* is calm again when level1 drops the entry and nothing is in flight.     *)
(***************************************************************************)
EXTENDS DataCache, FiniteSets

VARIABLES latest,    \* latest[k]: the updates of k no later one replaced
          expect,    \* expect[c]: what the update of c leaves
          replaces,  \* replaces[c]: the updates that of c comes after
          allowed,   \* allowed[c]: what the get of c may answer
          calm       \* calm[k]: nothing keeps level1 from hiding the lag

history == <<latest, expect, replaces, allowed, calm>>

InitReads ==
    /\ Init
    /\ latest = [k \in Key |-> {master[k]}]
    /\ expect = [c \in Client |-> Null]
    /\ replaces = [c \in Client |-> {}]
    /\ allowed = [c \in Client |-> {}]
    /\ calm = [k \in Key |-> TRUE]

\* A get may answer with an item that is the latest when it starts, or with
\* that of an update that overlaps it.
ObserveGet(c, k) ==
    /\ allowed' = [allowed EXCEPT ![c] =
                     latest[k] \cup {expect[d] : d \in {u \in Updating : key[u] = k}}]
    /\ UNCHANGED <<latest, expect, replaces, calm>>

ObserveUpdate(c, o, k) ==
    /\ \E old \in latest[k] :
          LET x == Written(o, val'[c], old) IN
          /\ expect' = [expect EXCEPT ![c] = x]
          /\ allowed' = [d \in Client |->
                           IF d \in Reading /\ key[d] = k THEN allowed[d] \cup {x}
                           ELSE allowed[d]]
    /\ replaces' = [replaces EXCEPT ![c] = latest[k]]
    /\ calm' = [calm EXCEPT ![k] = @ /\ o \in {"put", "post"}]
    /\ UNCHANGED latest

ObserveUpdated(c) ==
    /\ latest' = [latest EXCEPT ![key[c]] = (@ \ replaces[c]) \cup {expect[c]}]
    /\ UNCHANGED <<expect, replaces, allowed, calm>>

ObserveFill(c) ==
    /\ calm' = [calm EXCEPT ![key[c]] =
                   /\ @
                   /\ val[c] \in latest[key[c]]
                   /\ \A d \in Updating : key[d] # key[c]]
    /\ UNCHANGED <<latest, expect, replaces, allowed>>

\* A call that fails is the end of an update when it is the last.
ObserveFailure(c) ==
    /\ calm' = [calm EXCEPT ![key[c]] = FALSE]
    /\ latest' = IF pc[c] = "write2"
                 THEN [latest EXCEPT ![key[c]] = (@ \ replaces[c]) \cup {expect[c]}]
                 ELSE latest
    /\ UNCHANGED <<expect, replaces, allowed>>

Quiet(k) ==
    /\ \A i \in 1..Len(log) : log[i][1] # k
    /\ \A c \in Client : pc[c] # "idle" => key[c] # k

\* From then on level1 gets the entry from the level2 store again.
ObserveEvict(k) ==
    /\ calm' = [calm EXCEPT ![k] = Quiet(k)]
    /\ latest' = IF Quiet(k) THEN [latest EXCEPT ![k] = {master[k]}] ELSE latest
    /\ UNCHANGED <<expect, replaces, allowed>>

NextReads ==
    \/ \E c \in Client, k \in Key :
          \/ GetCall(c, k) /\ ObserveGet(c, k)
          \/ \E o \in {"post", "put", "patch", "delete"} :
                UpdateCall(c, o, k) /\ ObserveUpdate(c, o, k)
    \/ \E c \in Client :
          \/ (ReadLevel1(c) \/ ReadLevel2(c) \/ WriteLevel1(c)) /\ UNCHANGED history
          \/ Fill(c) /\ ObserveFill(c)
          \/ WriteLevel2(c) /\ ObserveUpdated(c)
          \/ CallFails(c) /\ ObserveFailure(c)
    \/ Replicate /\ UNCHANGED history
    \/ \E k \in Key : Evict(k) /\ ObserveEvict(k)

SpecReads == InitReads /\ [][NextReads]_<<vars, history>>

-----------------------------------------------------------------------------
(* Properties *)

\* What the get of c answers with when its next step is its last.
Answer(c) ==
    CASE pc[c] = "read1" -> level1[key[c]]
      [] pc[c] = "fill"  -> val[c]
      [] OTHER           -> Null

Answers(c) == c \in Reading /\ pc'[c] = "idle"

\* "in the meantime the updates will be retrieved from the level1 cache": while
\* the slave lags, a get answers with an update that no later one had replaced
\* when the get started, or with one that overlaps it, as long as the cache is
\* calm for the key: also when the item it fills level1 with is one an update
\* is replacing.  (When the cache is not calm, a get may answer with less: it
\* fills level1 with the item it read from level2 before the update.)
CalmReadsLatest ==
    [][\A c \in Client :
          Answers(c) /\ calm[key[c]] /\ (calm'[key[c]] \/ pc[c] = "fill")
              => Answer(c) \in allowed[c]]_<<vars, history>>

\* As long as the cache is calm for the key, and no two updates of it
\* overlapped, level1 holds nothing that the master does not hold once they
\* are done.
CalmLevelsAgree ==
    \A k \in Key :
        calm[k] /\ Cardinality(latest[k]) = 1 /\ (\A c \in Updating : key[c] # k)
            => level1[k] \in {Null, master[k]}

\* What the two levels and the replication log hold is items, and the levels
\* agree where the cache is calm.
LevelsAgree == TypeOK /\ CalmLevelsAgree

-----------------------------------------------------------------------------
(* The inductive invariant behind LevelsAgree and CalmReadsLatest *)

UpdatesOf(k) == {u \in Updating : key[u] = k}

\* The updates of k that have written level1, and not the master yet.
HalfWritten(k) == {u \in UpdatesOf(k) : pc[u] = "write2"}

HistoryTypes ==
    /\ latest \in [Key -> SUBSET Item]
    /\ expect \in [Client -> Item]
    /\ replaces \in [Client -> SUBSET Item]
    /\ allowed \in [Client -> SUBSET Item]
    /\ calm \in [Key -> BOOLEAN]

\* The slave comes to what the master holds, by what is logged for it.
SlaveFollows ==
    \A k \in Key :
        LET logged == {i \in 1..Len(log) : log[i][1] = k} IN
        \/ logged = {} /\ replica[k] = master[k]
        \/ \E i \in logged : log[i][2] = master[k] /\ \A j \in logged : j <= i

\* The next version is not in the master, nor on the way there.
NextIsNew ==
    /\ next > 0
    /\ \A k \in Key : master[k].base < next
    /\ \A k \in Key : calm[k] => \A x \in latest[k] : x.base < next
    /\ \A c \in Updating :
          /\ val[c].base < next
          /\ calm[key[c]] => \A x \in replaces[c] : x.base < next

\* The updates of a calm key write whole items, each its own, that no update
\* has seen yet.
UpdatesApart(k) ==
    \A u \in UpdatesOf(k) :
        /\ op[u] \in {"put", "post"}
        /\ expect[u] = val[u] /\ val[u] # Null
        /\ expect[u] \notin latest[k]
        /\ \A w \in UpdatesOf(k) : /\ expect[u] \notin replaces[w]
                                   /\ expect[u] = expect[w] => u = w

\* Where the cache is calm the master holds one of the latest items, and so
\* does level1, or one on its way to the master, and it is not one that an
\* update already written to level1 replaces.  Until something is in level1
\* the slave does not lag.
LevelsLatest(k) ==
    /\ IsFiniteSet(latest[k])
    /\ master[k] \in latest[k]
    /\ level1[k] # Null =>
          /\ level1[k] \in latest[k] \cup {expect[u] : u \in HalfWritten(k)}
          /\ \A u \in HalfWritten(k) : level1[k] \notin replaces[u]
    /\ level1[k] = Null =>
          /\ latest[k] = {master[k]} /\ replica[k] = master[k]
          /\ \A i \in 1..Len(log) : log[i][1] # k
          /\ HalfWritten(k) = {}

\* What the get of c may still find is what it may answer.
FindsAllowed(c) ==
    LET k == key[c] IN
    /\ latest[k] \subseteq allowed[c]
    /\ \A u \in UpdatesOf(k) : expect[u] \in allowed[c]
    /\ pc[c] = "read2" =>
          /\ replica[k] \in allowed[c]
          /\ \A i \in 1..Len(log) : log[i][1] = k => log[i][2] \in allowed[c]
    /\ pc[c] = "fill" => val[c] \in allowed[c]

ReadsInv ==
    /\ TypeOK /\ HistoryTypes /\ SlaveFollows /\ NextIsNew
    /\ \A c \in Client : pc[c] = "fill" => val[c] # Null
    /\ \A k \in Key : calm[k] => UpdatesApart(k) /\ LevelsLatest(k)
    /\ \A c \in Reading : calm[key[c]] => FindsAllowed(c)
=============================================================================
