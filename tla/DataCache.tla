----------------------------- MODULE DataCache -----------------------------
(***************************************************************************)
(* The two level cache component, components/cache/datacache.cpp.          *)
(*                                                                         *)
(* Every operation is a sequence of calls to its references: rcache1 and   *)
(* wcache1, wired to a level1 cache, wcache2, wired to the master of a     *)
(* level2 store, and rcache2, wired to a slave of it.  Each call is a step *)
(* here, so that the calls of concurrent requests interleave.              *)
(*                                                                         *)
(* An item is a version somebody put, or what a patch script makes of one: *)
(* a script that is given no item makes one of nothing.                    *)
(***************************************************************************)
EXTENDS Naturals, Sequences

CONSTANTS Client,      \* requests in flight at a time
          Key,
          MaxVersion,  \* bound: the versions put and post write
          MaxLag,      \* bound: the updates not yet replicated
          Ops,         \* the operations clients use
          Evicts,      \* whether level1 may drop an entry (memcached does)
          Fails        \* whether a call to a reference may fail

ASSUME CacheAssumption ==
    /\ MaxVersion \in Nat \ {0} /\ MaxLag \in Nat \ {0}
    /\ Ops \subseteq {"get", "post", "put", "patch", "delete"}
    /\ Evicts \in BOOLEAN /\ Fails \in BOOLEAN

Version == 1..MaxVersion

Null == [base |-> 0, patched |-> FALSE]
Item == [base : {0} \cup Version, patched : BOOLEAN]
Fresh(v) == [base |-> v, patched |-> FALSE]
\* Mutant: a patch makes a version of its own.
PatchedAnew(x) == [base |-> x.base + 1, patched |-> TRUE]
Patched(x) == [base |-> x.base, patched |-> TRUE]

VARIABLES level1,    \* level1[k]: the entry of the level1 cache
          master,    \* the level2 store updates are written to
          log,       \* the updates not yet replicated
          replica,   \* the level2 store that is read
          next,      \* the next version to write
          pc, op, key, val  \* each request, and the item it carries

request == <<op, key>>
vars == <<level1, master, log, replica, next, pc, request, val>>

Reading == {c \in Client : pc[c] \in {"read1", "read2", "fill"}}
Updating == {c \in Client : pc[c] \in {"write1", "write2"}}

TypeOK ==
    /\ level1 \in [Key -> Item]
    /\ master \in [Key -> Item]
    /\ replica \in [Key -> Item]
    /\ log \in Seq(Key \X Item)
    /\ next \in Nat
    /\ pc \in [Client -> {"idle", "read1", "read2", "fill", "write1", "write2"}]
    /\ op \in [Client -> {"get", "post", "put", "patch", "delete"}]
    /\ key \in [Client -> Key]
    /\ val \in [Client -> Item]

\* The level2 store may hold items from before the cache was started.
Init ==
    /\ level1 = [k \in Key |-> Null]
    /\ master \in [Key -> {Null, Fresh(1)}]
    /\ replica = master
    /\ log = << >>
    /\ next = 2
    /\ pc = [c \in Client |-> "idle"]
    /\ op = [c \in Client |-> "get"]
    /\ key \in {[c \in Client |-> k] : k \in Key}
    /\ val = [c \in Client |-> Null]

Goto(c, from, to) ==
    /\ pc[c] = from
    /\ pc' = [pc EXCEPT ![c] = to]

\* What a write does to an entry.
Written(o, v, old) ==
    IF o = "delete" THEN Null ELSE IF o = "patch" THEN Patched(old) ELSE v

-----------------------------------------------------------------------------
(* get *)

GetCall(c, k) ==
    /\ "get" \in Ops
    /\ Goto(c, "idle", "read1")
    /\ op' = [op EXCEPT ![c] = "get"]
    /\ key' = [key EXCEPT ![c] = k]
    /\ val' = [val EXCEPT ![c] = Null]
    /\ UNCHANGED <<level1, master, log, replica, next>>

\* rcache1 get, which answers when it is no miss.
ReadLevel1(c) ==
    /\ Goto(c, "read1", IF level1[key[c]] = Null THEN "read2" ELSE "idle")
    /\ UNCHANGED <<level1, master, log, replica, next, request, val>>

\* rcache2 get, from the slave, and 404 when it has nothing.
ReadLevel2(c) ==
    /\ Goto(c, "read2", IF replica[key[c]] = Null THEN "idle" ELSE "fill")
    /\ val' = [val EXCEPT ![c] = replica[key[c]]]
    /\ UNCHANGED <<level1, master, log, replica, next, request>>

\* wcache1 put of what was read from level2, whatever happened since.
Fill(c) ==
    /\ Goto(c, "fill", "idle")
    /\ level1' = [level1 EXCEPT ![key[c]] = val[c]]
    /\ UNCHANGED <<master, log, replica, next, request, val>>

-----------------------------------------------------------------------------
(* post, put, patch, delete *)

\* post writes a key of its own, with a uuid nobody else knows until it
\* returns; the others write any key.
UpdateCall(c, o, k) ==
    /\ o \in Ops
    /\ Goto(c, "idle", "write1")
    /\ \A d \in Updating : key[d] = k => o # "post" /\ op[d] # "post"
    /\ o = "post" => Null = level1[k] /\ Null = master[k] /\ Null = replica[k]
    /\ o \in {"put", "post"} => next \in Version
    /\ next' = IF o \in {"put", "post"} THEN next + 1 ELSE next
    /\ op' = [op EXCEPT ![c] = o]
    /\ key' = [key EXCEPT ![c] = k]
    /\ val' = [val EXCEPT ![c] = IF o \in {"put", "post"} THEN Fresh(next) ELSE Null]
    /\ UNCHANGED <<level1, master, log, replica>>

\* Mutant: only the level2 store is written.
SkipLevel1(c) ==
    /\ Goto(c, "write1", "write2")
    /\ UNCHANGED <<level1, master, log, replica, next, request, val>>

WriteLevel1(c) ==
    /\ Goto(c, "write1", "write2")
    /\ level1' = [level1 EXCEPT ![key[c]] = Written(op[c], val[c], @)]
    /\ UNCHANGED <<master, log, replica, next, request, val>>

\* The master takes the write and logs it for the slave.
WriteLevel2(c) ==
    LET k == key[c]
        x == Written(op[c], val[c], master[k]) IN
    /\ Goto(c, "write2", "idle")
    /\ Len(log) < MaxLag
    /\ master' = [master EXCEPT ![k] = x]
    /\ log' = Append(log, <<k, x>>)
    /\ UNCHANGED <<level1, replica, next, request, val>>

\* A reference makes a null result of a call that fails: it is a miss for a
\* get, and a write does not look at it, but returns true or the new id.
CallFails(c) ==
    /\ Fails
    /\ \/ Goto(c, "read1", "read2") \/ Goto(c, "read2", "idle")
       \/ Goto(c, "fill", "idle")
       \/ Goto(c, "write1", "write2") \/ Goto(c, "write2", "idle")
    /\ UNCHANGED <<level1, master, log, replica, next, request, val>>

-----------------------------------------------------------------------------
(* The backends *)

\* Updates get to the slave in order, some time later.
Replicate ==
    /\ log # << >>
    /\ replica' = [replica EXCEPT ![log[1][1]] = log[1][2]]
    /\ log' = Tail(log)
    /\ UNCHANGED <<level1, master, next, pc, request, val>>

Evict(k) ==
    /\ Evicts
    /\ level1[k] # Null
    /\ level1' = [level1 EXCEPT ![k] = Null]
    /\ UNCHANGED <<master, log, replica, next, pc, request, val>>

-----------------------------------------------------------------------------

Next ==
    \/ \E c \in Client, k \in Key :
          \/ GetCall(c, k)
          \/ \E o \in {"post", "put", "patch", "delete"} : UpdateCall(c, o, k)
    \/ \E c \in Client :
          \/ ReadLevel1(c) \/ ReadLevel2(c) \/ Fill(c)
          \/ WriteLevel1(c) \/ WriteLevel2(c)
          \/ CallFails(c)
    \/ Replicate
    \/ \E k \in Key : Evict(k)

Spec == Init /\ [][Next]_vars
=============================================================================
