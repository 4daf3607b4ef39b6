------------------------------- MODULE SqlDb -------------------------------
(***************************************************************************)
(* The SQL database component, components/sqldb: sqldb.cpp over pgsql.hpp. *)
(*                                                                         *)
(* Every server thread has a PostgreSQL connection of its own and sends it *)
(* one statement at a time; the statements of different connections        *)
(* interleave.  A get, post, put or delete is made of statements that      *)
(* commit by themselves; a patch brackets its select, update and insert    *)
(* with begin and commit, and starts over when the database reports a      *)
(* conflict.                                                               *)
(*                                                                         *)
(* The database is external: repeatable read transactions read a snapshot, *)
(* a row is locked by the transaction that writes it, and an update of a   *)
(* row somebody changed since the snapshot is a serialization failure.  No *)
(* key is unique: the tables of sqldb-test, the store-sql sample and the   *)
(* hosting server have no more than an index on it, so an insert adds a    *)
(* row whatever rows of its key there are.                                 *)
(*                                                                         *)
(* pgfailure clears the result it reports, and its callers read and clear  *)
(* it again: what they find then is not defined.  After any failure a step *)
(* may miss the SQLSTATE, or be the last of the process.                   *)
(***************************************************************************)
EXTENDS Naturals, FiniteSets

CONSTANTS Conn,         \* threads, each with its connection
          Key,
          MaxVal,       \* bound: the items are 1..MaxVal
          Retries,      \* how often a patch may start over
          Ops,          \* the operations clients use
          NullScripts,  \* whether a patch script may return nothing
          Drops         \* whether connections may be lost

ASSUME SqlAssumption ==
    /\ MaxVal \in Nat \ {0}
    /\ Retries \in Nat
    /\ Ops \subseteq {"get", "post", "put", "patch", "delete"}
    /\ NullScripts \in BOOLEAN /\ Drops \in BOOLEAN

Absent == 0
Item == 1..MaxVal
Row == {Absent} \cup Item
Untouched == MaxVal + 1

\* The rows of the table: connection c inserts a row of key k only when it
\* saw none, <<k, c>> is that row.
Place == Key \X Conn
RowsOf(k) == {k} \X Conn

\* What a patch script makes of an item, or of none.
Patched(v) == (v % MaxVal) + 1

VARIABLES rows,   \* the committed rows of the table, Absent where there is none
          tx,     \* tx[c]: the transaction block of connection c
          lost,   \* the connections that are lost and not reset yet
          pc, op, key, val,
          tries   \* tries[c]: the count of tryPatch

request == <<op, key>>
vars == <<rows, tx, lost, pc, request, val, tries>>

\* A transaction reads its snapshot, but for the rows it wrote itself; stale
\* are the rows others changed since the snapshot.
Transaction ==
    [mode : {"none", "begun", "open", "aborted"}, snapshot : [Place -> Row],
     own : [Place -> Row \cup {Untouched}], stale : SUBSET Place]

NoTx == [mode |-> "none", snapshot |-> [p \in Place |-> Absent],
         own |-> [p \in Place |-> Untouched], stale |-> {}]

TypeOK ==
    /\ rows \in [Place -> Row]
    /\ tx \in [Conn -> Transaction]
    /\ lost \subseteq Conn
    /\ pc \in [Conn -> {"idle", "begin", "get", "update", "insert", "delete",
                        "commit", "rollback", "retry"}]
    /\ op \in [Conn -> {"get", "post", "put", "patch", "delete"}]
    /\ key \in [Conn -> Key]
    /\ val \in [Conn -> Row]
    /\ tries \in [Conn -> 0..Retries]

Init ==
    /\ rows \in [Place -> {Absent, 1}]
    /\ tx = [c \in Conn |-> NoTx]
    /\ lost = {}
    /\ pc = [c \in Conn |-> "idle"]
    /\ op = [c \in Conn |-> "get"]
    /\ key \in {[c \in Conn |-> k] : k \in Key}
    /\ val = [c \in Conn |-> Absent]
    /\ tries = [c \in Conn |-> 0]

Goto(c, to) == pc' = [pc EXCEPT ![c] = to]

-----------------------------------------------------------------------------
(* The database *)

InTx(c) == tx[c].mode # "none"

\* The first statement after begin takes the snapshot.
Opened(c) ==
    IF tx[c].mode = "begun" THEN [tx[c] EXCEPT !.mode = "open", !.snapshot = rows]
    ELSE tx[c]

\* Row p as a statement of c finds it.
Sees(c, p) ==
    IF ~InTx(c) THEN rows[p]
    ELSE IF tx[c].own[p] # Untouched THEN tx[c].own[p]
    ELSE Opened(c).snapshot[p]

\* The rows of key k that a statement of c finds.
Visible(c, k) == {p \in RowsOf(k) : Sees(c, p) # Absent}

\* What a select of key k may answer: the item of one of them.
FoundItems(c, k) ==
    IF Visible(c, k) = {} THEN {Absent} ELSE {Sees(c, p) : p \in Visible(c, k)}

Locked(c, p) ==
    \E d \in Conn \ {c} : tx[d].mode = "open" /\ tx[d].own[p] # Untouched

\* A statement of c runs: the connection is up, the block not aborted.
Runs(c) == c \notin lost /\ tx[c].mode # "aborted"

\* Rows that change are stale for the snapshots taken before.
Outdate(t, places) ==
    [d \in Conn |-> IF t[d].mode = "open" THEN [t[d] EXCEPT !.stale = @ \cup places]
                    ELSE t[d]]

\* Rows are written, for all to see or within the transaction block.
Write(c, places, v) ==
    IF InTx(c)
    THEN /\ tx' = [tx EXCEPT ![c] = [Opened(c) EXCEPT !.own =
                        [p \in Place |-> IF p \in places THEN v ELSE tx[c].own[p]]]]
         /\ rows' = rows
    ELSE /\ rows' = [p \in Place |-> IF p \in places THEN v ELSE rows[p]]
         /\ tx' = Outdate(tx, places)

\* An error aborts the block, and gives up its locks.
Aborted(c) ==
    [tx EXCEPT ![c] = IF @ = NoTx THEN @ ELSE [NoTx EXCEPT !.mode = "aborted"]]

-----------------------------------------------------------------------------
(* Failures *)

\* Mutant: a failed patch leaves its transaction as it is.
AfterFailureReturn(c, conflict) == {"idle"}

\* Mutant: a patch starts over however often it has.
AfterFailureAgain(c, conflict) ==
    IF op[c] # "patch" \/ pc[c] \in {"begin", "commit"} THEN {"idle"}
    ELSE IF conflict THEN {"retry", "rollback"} ELSE {"rollback"}

\* Where a request goes when a statement of it failed.
AfterFailure(c, conflict) ==
    IF op[c] # "patch" \/ pc[c] \in {"begin", "commit"} THEN {"idle"}
    ELSE IF conflict /\ pc[c] = "update" /\ tries[c] > 0 THEN {"retry", "rollback"}
    ELSE {"rollback"}

\* A statement fails, with a serialization failure or otherwise; the
\* connection, if it was lost, is reset by setup before the next statement.
Fail(c, conflict) ==
    /\ \E to \in AfterFailure(c, conflict) : Goto(c, to)
    /\ tx' = Aborted(c)
    /\ lost' = lost \ {c}
    /\ UNCHANGED <<rows, request, val, tries>>

\* The second PQclear ends the process, and so the transaction.
Die(c) ==
    /\ Goto(c, "idle")
    /\ tx' = [tx EXCEPT ![c] = NoTx]
    /\ lost' = lost \ {c}
    /\ UNCHANGED <<rows, request, val, tries>>

FailOrDie(c, conflict) == Fail(c, conflict) \/ Die(c)

\* No statement of a lost connection, or of an aborted block, runs; only a
\* rollback does in the block.
StatementFails(c) ==
    /\ pc[c] \in {"begin", "get", "update", "insert", "delete", "commit"}
    /\ ~Runs(c)
    /\ FailOrDie(c, FALSE)

-----------------------------------------------------------------------------
(* Requests *)

FirstStatement(o) ==
    CASE o = "get" -> "get" [] o = "post" -> "insert" [] o = "put" -> "update"
      [] o = "patch" -> "begin" [] o = "delete" -> "delete"

\* post makes a key of its own.
Call(c, o, k, v) ==
    /\ o \in Ops
    /\ pc[c] = "idle"
    /\ IF o \in {"post", "put"} THEN v # Absent ELSE v = Absent
    /\ o = "post" => /\ \A d \in Conn : pc[d] # "idle" => key[d] # k
                     /\ \A p \in RowsOf(k), d \in Conn :
                           rows[p] = Absent /\ tx[d].own[p] = Untouched
    /\ Goto(c, FirstStatement(o))
    /\ op' = [op EXCEPT ![c] = o]
    /\ key' = [key EXCEPT ![c] = k]
    /\ val' = [val EXCEPT ![c] = v]
    /\ tries' = [tries EXCEPT ![c] = IF o = "patch" THEN Retries ELSE 0]
    /\ UNCHANGED <<rows, tx, lost>>

\* Mutant: no transaction is begun.
BeginNothing(c) ==
    /\ pc[c] = "begin" /\ Runs(c)
    /\ Goto(c, "get")
    /\ UNCHANGED <<rows, tx, lost, request, val, tries>>

\* begin; in a block already begun it is only a warning.
Begin(c) ==
    /\ pc[c] = "begin" /\ Runs(c)
    /\ Goto(c, "get")
    /\ tx' = [tx EXCEPT ![c].mode = IF @ = "none" THEN "begun" ELSE @]
    /\ UNCHANGED <<rows, lost, request, val, tries>>

\* select, with a limit of one: a get answers; a patch runs its script on a
\* row that was found, or on none.
Select(c) ==
    /\ pc[c] = "get" /\ Runs(c)
    /\ tx' = [tx EXCEPT ![c] = Opened(c)]
    /\ \/ /\ op[c] = "get"
          /\ Goto(c, "idle")
          /\ UNCHANGED val
       \/ /\ op[c] = "patch"
          /\ Goto(c, "update")
          /\ \E v \in FoundItems(c, key[c]) : val' = [val EXCEPT ![c] = Patched(v)]
       \/ /\ op[c] = "patch" /\ NullScripts  \* 404, and no rollback
          /\ Goto(c, "idle")
          /\ UNCHANGED val
    /\ UNCHANGED <<rows, lost, request, tries>>

\* update: all the rows to be seen, or 0 rows, and then an insert.  The
\* update of a row another transaction has written waits for its end.
Update(c) ==
    LET found == Visible(c, key[c]) IN
    /\ pc[c] = "update" /\ Runs(c)
    /\ \/ /\ found = {}
          /\ Goto(c, "insert")
          /\ tx' = [tx EXCEPT ![c] = Opened(c)]
          /\ UNCHANGED <<rows, lost, request, val, tries>>
       \/ /\ \E p \in found \cap tx[c].stale : ~Locked(c, p)
          /\ FailOrDie(c, TRUE)
       \/ /\ found # {} /\ found \cap tx[c].stale = {}
          /\ \A p \in found : ~Locked(c, p)
          /\ Write(c, found, val[c])
          /\ Goto(c, IF op[c] = "patch" THEN "commit" ELSE "idle")
          /\ UNCHANGED <<lost, request, val, tries>>

\* insert, whatever rows of the key others have inserted since.
Insert(c) ==
    /\ pc[c] = "insert" /\ Runs(c)
    /\ Write(c, {<<key[c], c>>}, val[c])
    /\ Goto(c, IF op[c] = "patch" THEN "commit" ELSE "idle")
    /\ UNCHANGED <<lost, request, val, tries>>

\* delete: 404 when there is no row to be seen.
Delete(c) ==
    LET found == Visible(c, key[c]) IN
    /\ pc[c] = "delete" /\ Runs(c)
    /\ \/ /\ found = {}
          /\ Goto(c, "idle")
          /\ tx' = [tx EXCEPT ![c] = Opened(c)]
          /\ UNCHANGED <<rows, lost, request, val, tries>>
       \/ /\ \E p \in found \cap tx[c].stale : ~Locked(c, p)
          /\ FailOrDie(c, FALSE)
       \/ /\ found # {} /\ found \cap tx[c].stale = {}
          /\ \A p \in found : ~Locked(c, p)
          /\ Write(c, found, Absent)
          /\ Goto(c, "idle")
          /\ UNCHANGED <<lost, request, val, tries>>

\* What the transaction of c wrote is there for all to see.
CommitTx(c) ==
    LET own == tx[c].own
        written == {p \in Place : own[p] # Untouched} IN
    /\ rows' = [p \in Place |-> IF p \in written THEN own[p] ELSE rows[p]]
    /\ tx' = Outdate([tx EXCEPT ![c] = NoTx], written)

\* Mutant: the patch returns without a commit.
CommitNothing(c) ==
    /\ pc[c] = "commit" /\ Runs(c)
    /\ Goto(c, "idle")
    /\ UNCHANGED <<rows, tx, lost, request, val, tries>>

\* commit; what the patch returns when the connection is lost before or
\* after it is the same failure.
Commit(c) ==
    /\ pc[c] = "commit" /\ Runs(c)
    /\ CommitTx(c)
    /\ Goto(c, "idle")
    /\ UNCHANGED <<lost, request, val, tries>>

\* rollback, whatever its result; then the patch fails or starts over.
Rollback(c) ==
    /\ pc[c] \in {"rollback", "retry"}
    /\ tx' = [tx EXCEPT ![c] = NoTx]
    /\ lost' = lost \ {c}
    /\ IF pc[c] = "retry"
       THEN /\ Goto(c, "begin")
            /\ tries' = [tries EXCEPT ![c] = @ - 1]
       ELSE /\ Goto(c, "idle")
            /\ UNCHANGED tries
    /\ UNCHANGED <<rows, request, val>>

\* The database ends the session: its transaction is gone.
Drop(c) ==
    /\ Drops
    /\ c \notin lost
    /\ lost' = lost \cup {c}
    /\ tx' = [tx EXCEPT ![c] = NoTx]
    /\ UNCHANGED <<rows, pc, request, val, tries>>

Step(c) ==
    \/ StatementFails(c)
    \/ Begin(c) \/ Select(c) \/ Update(c) \/ Insert(c) \/ Delete(c)
    \/ Commit(c) \/ Rollback(c)

Next ==
    \/ \E c \in Conn, o \in Ops, k \in Key, v \in Row : Call(c, o, k, v)
    \/ \E c \in Conn : Step(c) \/ Drop(c)

Spec == Init /\ [][Next]_vars

\* The database answers every statement it can; a request that waits for a
\* row gets it when nobody has it.
FairSpec == Spec /\ \A c \in Conn : SF_vars(Step(c))

-----------------------------------------------------------------------------
(* Properties *)

\* The rows of its key in the snapshot of a patch; the items its script may
\* have been given; and the rows it is to write, a new one when it saw none.
Had(c) == {p \in RowsOf(key[c]) : tx[c].snapshot[p] # Absent}
Given(c) == IF Had(c) = {} THEN {Absent} ELSE {tx[c].snapshot[p] : p \in Had(c)}
Target(c) == IF Had(c) = {} THEN {<<key[c], c>>} ELSE Had(c)

\* What c's commit makes of the table.
PatchesTable(c) ==
    /\ \A p \in Target(c) : rows[p] = tx[c].snapshot[p]
    /\ \E v \in Given(c) :
          rows' = [p \in Place |-> IF p \in Target(c) THEN Patched(v) ELSE rows[p]]

\* "Commit database transaction", "Retry on a transaction serialization
\* error": a patch that commits replaces the rows its script was given one
\* of, none of them changed since by any other request, and no others; a
\* patch that found none adds one, for all that others may have added too.
PatchIsAtomic ==
    [][\A c \in Conn :
          pc[c] = "commit" /\ pc'[c] = "idle" /\ c \notin lost => PatchesTable(c)]_vars

\* Between requests a connection is in no transaction: what the next request
\* on it reads is committed, and what it writes is.
NoTransactionLeft == \A c \in Conn : pc[c] = "idle" => ~InTx(c)

\* "Put an item into the database": what a request that returned wrote does
\* not wait for another request to commit it, or to roll it back.
UpdatesCommitted ==
    \A c \in Conn : pc[c] = "idle" => \A p \in Place : tx[c].own[p] = Untouched

\* Two connections never hold the same row, so nobody waits for a request
\* that waits itself: only a patch about to end has a row.
LockersEnd ==
    \A c \in Conn : \A p \in Place :
        tx[c].own[p] # Untouched => /\ pc[c] = "commit"
                                    /\ \A d \in Conn \ {c} : tx[d].own[p] = Untouched

\* A transaction ends with its request, and its row locks with it.
TransactionsEnd == TypeOK /\ NoTransactionLeft /\ LockersEnd

\* Every request returns, after all the conflicts it may meet.
Returns == \A c \in Conn : pc[c] # "idle" ~> pc[c] = "idle"

-----------------------------------------------------------------------------
(* The inductive invariant behind TransactionsEnd and PatchIsAtomic, when no *)
(* patch script returns nothing                                              *)

\* A block in which no statement has run, or none will.
Blank(mode) == [NoTx EXCEPT !.mode = mode]

\* The statements a request runs are those of its operation, and a patch
\* starts over only as often as it may.
StatementOfOp(c) ==
    /\ pc[c] \in {"begin", "commit", "rollback", "retry"} => op[c] = "patch"
    /\ pc[c] = "get" => op[c] \in {"get", "patch"}
    /\ pc[c] = "update" => op[c] \in {"put", "patch"}
    /\ pc[c] = "insert" => op[c] \in {"post", "put", "patch"}
    /\ pc[c] = "delete" => op[c] = "delete"
    /\ pc[c] = "retry" => tries[c] > 0

\* Only a patch between its begin and its end has a transaction block, which
\* goes with the connection.
BlockOfPatch(c) ==
    LET mode == tx[c].mode IN
    /\ mode \in {"none", "begun", "aborted"} => tx[c] = Blank(mode)
    /\ c \in lost => mode = "none"
    /\ op[c] # "patch" \/ pc[c] \in {"idle", "begin"} => mode = "none"
    /\ op[c] = "patch" /\ pc[c] = "get" /\ c \notin lost => mode = "begun"
    /\ op[c] = "patch" /\ pc[c] \in {"update", "insert", "commit"} =>
          mode = IF c \in lost THEN "none" ELSE "open"
    /\ pc[c] \in {"rollback", "retry"} => mode \in {"none", "aborted"}

\* The snapshot is what the rows are, but for those that are stale, and no
\* other connection adds a row in c's place; a patch writes what its script
\* made of the snapshot, in the rows it found of its key or a new one, and
\* from then on these stay as its script saw them, because nobody else
\* writes them.
SnapshotHolds(c) ==
    LET t == tx[c] IN
    t.mode = "open" =>
        /\ \A p \in Place \ t.stale : t.snapshot[p] = rows[p]
        /\ \A i \in Key : t.snapshot[<<i, c>>] = Absent => <<i, c>> \notin t.stale
        /\ pc[c] # "commit" => \A p \in Place : t.own[p] = Untouched
        /\ pc[c] \in {"update", "insert"} => \E v \in Given(c) : val[c] = Patched(v)
        /\ pc[c] = "insert" => Had(c) = {}
        /\ pc[c] = "commit" => /\ Target(c) \cap t.stale = {}
                               /\ \E v \in Given(c) :
                                    t.own = [p \in Place |-> IF p \in Target(c)
                                                             THEN Patched(v) ELSE Untouched]
                               /\ \A p \in Target(c), d \in Conn \ {c} :
                                    tx[d].own[p] = Untouched

\* The row of an insert is not there.
InsertsNew(c) == pc[c] = "insert" => rows[<<key[c], c>>] = Absent

SqlInv ==
    /\ TypeOK
    /\ \A c \in Conn : StatementOfOp(c) /\ BlockOfPatch(c) /\ SnapshotHolds(c) /\ InsertsNew(c)
=============================================================================
