--------------------------- MODULE SqlDb_proofs ---------------------------
(***************************************************************************)
(* Proofs about the SQL database component, for any connections, keys,     *)
(* items and retries: the inductive invariant SqlInv, and what follows     *)
(* from it, that a transaction ends with its request and that a patch is   *)
(* atomic.                                                                 *)
(*                                                                         *)
(* All of it is under ~NullScripts: a script that returns nothing ends the *)
(* patch inside its transaction block, and then none of it holds.          *)
(***************************************************************************)
EXTENDS SqlDb, TLAPS

\* What the invariant says of one connection.
Sane(c) == StatementOfOp(c) /\ BlockOfPatch(c) /\ SnapshotHolds(c) /\ InsertsNew(c)

-----------------------------------------------------------------------------
(* Values, rows and transactions *)

\* A script makes an item of an item, or of none.
LEMMA PatchedIsItem ==
    ASSUME NEW v \in Row
    PROVE  Patched(v) \in Item
<1>1. v \in Nat /\ MaxVal \in Nat /\ MaxVal > 0
  BY SqlAssumption DEF Row, Item, Absent
<1>2. v % MaxVal \in 0..(MaxVal - 1)
  BY <1>1
<1> QED
  BY <1>1, <1>2 DEF Patched, Item

\* The mark of a row a transaction has not written is no row.
LEMMA UntouchedIsNoRow == Untouched \notin Row
  BY SqlAssumption DEF Untouched, Row, Item, Absent

\* A blank transaction is one, and has written nothing.
LEMMA BlankIsTransaction ==
    ASSUME NEW m \in {"none", "begun", "aborted"}
    PROVE  /\ Blank(m) \in Transaction
           /\ Blank(m).mode = m
           /\ \A p \in Place : Blank(m).own[p] = Untouched
  BY DEF Blank, NoTx, Transaction, Row

LEMMA NoTxIsBlank == NoTx = Blank("none")
  BY DEF Blank, NoTx

\* The first statement opens a block, and only then, with the rows there are.
LEMMA OpenedIsTransaction ==
    ASSUME TypeOK, NEW c \in Conn
    PROVE  /\ Opened(c) \in Transaction
           /\ Opened(c).own = tx[c].own
           /\ Opened(c).stale = tx[c].stale
           /\ tx[c].mode # "begun" => Opened(c) = tx[c]
           /\ tx[c].mode = "begun" => Opened(c).mode = "open" /\ Opened(c).snapshot = rows
  BY DEF TypeOK, Opened, Transaction

\* What a statement sees is a row, and what a select may answer is one.
LEMMA SeesRow ==
    ASSUME TypeOK, NEW c \in Conn, NEW k \in Key
    PROVE  /\ \A p \in Place : Sees(c, p) \in Row
           /\ RowsOf(k) \subseteq Place /\ Visible(c, k) \subseteq Place
           /\ FoundItems(c, k) \subseteq Row
<1>1. \A p \in Place : Sees(c, p) \in Row
  BY OpenedIsTransaction DEF TypeOK, Sees, InTx, Transaction
<1>2. RowsOf(k) \subseteq Place /\ Visible(c, k) \subseteq Place
  BY DEF RowsOf, Place, Visible
<1> QED
  BY <1>1, <1>2 DEF FoundItems, Row

\* The rows of a patch are rows of the table, and what its script makes of
\* what it may have been given are items.
LEMMA PatchTypes ==
    ASSUME TypeOK, NEW c \in Conn
    PROVE  /\ Had(c) \subseteq Place /\ Target(c) \subseteq Place
           /\ Given(c) \subseteq Row
           /\ \A v \in Given(c) : Patched(v) \in Item
<1>1. key[c] \in Key /\ tx[c] \in Transaction
  BY DEF TypeOK
<1>2. Had(c) \subseteq Place /\ Target(c) \subseteq Place
  BY <1>1 DEF Had, Target, RowsOf, Place
<1>3. Given(c) \subseteq Row
  BY <1>1, <1>2 DEF Given, Row, Transaction
<1> QED
  BY <1>2, <1>3, PatchedIsItem

\* A patch whose key and snapshot stay has the same rows to write, and was
\* given the same.
LEMMA SameSnapshot ==
    ASSUME NEW c \in Conn, key'[c] = key[c], tx'[c].snapshot = tx[c].snapshot
    PROVE  Had(c)' = Had(c) /\ Given(c)' = Given(c) /\ Target(c)' = Target(c)
  BY DEF Had, Given, Target, RowsOf

\* Only a patch that is to commit holds rows, those it is to write, and they
\* are as its snapshot has them.
LEMMA HolderCommits ==
    ASSUME SqlInv, NEW c \in Conn, NEW p \in Place, tx[c].own[p] # Untouched
    PROVE  /\ tx[c].mode = "open"
           /\ pc[c] = "commit"
           /\ p \in Target(c) /\ p \notin tx[c].stale
           /\ rows[p] = tx[c].snapshot[p]
           /\ ~Locked(c, p)
<1>1. tx[c].mode \in {"none", "begun", "open", "aborted"}
  BY DEF SqlInv, TypeOK, Transaction
<1>2. tx[c].mode = "open"
  BY <1>1, BlankIsTransaction DEF SqlInv, BlockOfPatch
<1>3. pc[c] = "commit"
  BY <1>2 DEF SqlInv, SnapshotHolds
<1>4. p \in Target(c) /\ p \notin tx[c].stale
  BY <1>2, <1>3 DEF SqlInv, SnapshotHolds
<1>5. rows[p] = tx[c].snapshot[p]
  BY <1>2, <1>4 DEF SqlInv, SnapshotHolds
<1>6. ~Locked(c, p)
  BY <1>2, <1>3, <1>4 DEF SqlInv, SnapshotHolds, Locked
<1> QED
  BY <1>2, <1>3, <1>4, <1>5, <1>6

\* The rows a patch is to commit are those it holds.
LEMMA TargetHeld ==
    ASSUME SqlInv, NEW c \in Conn, tx[c].mode = "open", pc[c] = "commit",
           NEW p \in Target(c)
    PROVE  /\ p \in Place /\ tx[c].own[p] \in Item /\ tx[c].own[p] # Untouched
           /\ \A d \in Conn \ {c} : Locked(d, p)
<1>1. TypeOK /\ p \in Place
  BY PatchTypes DEF SqlInv
<1>2. PICK v \in Given(c) : tx[c].own = [q \in Place |-> IF q \in Target(c)
                                                       THEN Patched(v) ELSE Untouched]
  BY DEF SqlInv, SnapshotHolds
<1>3. tx[c].own[p] = Patched(v) /\ Patched(v) \in Item
  BY <1>1, <1>2, PatchTypes
<1>4. tx[c].own[p] # Untouched
  BY <1>3, UntouchedIsNoRow DEF Row
<1> QED
  BY <1>1, <1>3, <1>4 DEF Locked

\* A row that another connection holds, and would be a new one of this
\* connection, is there; so nobody holds the row of an insert.
LEMMA HeldIsThere ==
    ASSUME SqlInv, NEW c \in Conn, NEW d \in Conn \ {c}, NEW i \in Key,
           tx[c].own[<<i, d>>] # Untouched
    PROVE  rows[<<i, d>>] # Absent
<1>1. <<i, d>> \in Place
  BY DEF Place
<1>2. <<i, d>> \in Target(c) /\ rows[<<i, d>>] = tx[c].snapshot[<<i, d>>]
  BY <1>1, HolderCommits
<1>3. <<i, d>> \in Had(c)
  BY <1>2 DEF Target
<1> QED
  BY <1>2, <1>3 DEF Had

LEMMA NewIsFree ==
    ASSUME SqlInv, NEW c \in Conn, pc[c] = "insert"
    PROVE  <<key[c], c>> \in Place /\ ~Locked(c, <<key[c], c>>)
<1>1. key[c] \in Key /\ rows[<<key[c], c>>] = Absent
  BY DEF SqlInv, TypeOK, InsertsNew
<1> QED
  BY <1>1, HeldIsThere DEF Locked, Place

-----------------------------------------------------------------------------
(* What a step of one connection leaves of the others *)

\* The request of d goes on as it was.
Untroubled(d) ==
    /\ pc'[d] = pc[d] /\ op'[d] = op[d] /\ key'[d] = key[d]
    /\ val'[d] = val[d] /\ tries'[d] = tries[d]
    /\ d \in lost' <=> d \in lost

\* The rows stay and c writes, if any, only rows nobody else has written.
LEMMA OthersKeep ==
    ASSUME SqlInv, NEW c \in Conn, NEW d \in Conn \ {c},
           rows' = rows,
           \A e \in Conn \ {c} : tx'[e] = tx[e],
           \A p \in Place : tx'[c].own[p] # Untouched
                             => tx[c].own[p] # Untouched \/ ~Locked(c, p),
           Untroubled(d)
    PROVE  Sane(d)'
<1>1. StatementOfOp(d)'
  BY DEF SqlInv, StatementOfOp, Untroubled
<1>2. BlockOfPatch(d)'
  BY DEF SqlInv, BlockOfPatch, Untroubled, Blank
<1>3. SnapshotHolds(d)'
  <2> SUFFICES ASSUME tx[d].mode = "open"
               PROVE  SnapshotHolds(d)'
    BY DEF SnapshotHolds
  <2>1. Had(d)' = Had(d) /\ Given(d)' = Given(d) /\ Target(d)' = Target(d)
    BY SameSnapshot DEF Untroubled
  <2>2. ASSUME pc[d] = "commit", NEW p \in Target(d), NEW e \in Conn \ {d}
        PROVE  tx'[e].own[p] = Untouched
    <3>1. p \in Place /\ Locked(c, p)
      BY <2>2, TargetHeld
    <3>2. tx[e].own[p] = Untouched /\ tx[c].own[p] = Untouched
      BY <2>2 DEF SqlInv, SnapshotHolds
    <3> QED
      BY <3>1, <3>2
  <2>3. SnapshotHolds(d)
    BY DEF SqlInv
  <2> QED
    BY <2>1, <2>2, <2>3 DEF SnapshotHolds, Untroubled, Patched
<1>4. InsertsNew(d)'
  BY DEF SqlInv, InsertsNew, Untroubled
<1> QED
  BY <1>1, <1>2, <1>3, <1>4 DEF Sane

\* Rows change that nobody else has written, none of them a new one of
\* another connection, and are stale for the others; c is left with no
\* written row.
LEMMA OthersOutdated ==
    ASSUME SqlInv, NEW c \in Conn, NEW d \in Conn \ {c}, NEW places \in SUBSET Place,
           \A p \in Place \ places : rows'[p] = rows[p],
           \A p \in places : ~Locked(c, p),
           \A i \in Key : <<i, d>> \in places => rows[<<i, d>>] # Absent,
           \A e \in Conn \ {c} : tx'[e] = Outdate(tx, places)[e],
           \A p \in Place : tx'[c].own[p] = Untouched,
           Untroubled(d)
    PROVE  Sane(d)'
<1>0. tx[d] \in Transaction /\ key[d] \in Key /\ <<key[d], d>> \in Place
  BY DEF SqlInv, TypeOK, Place
<1>a. ASSUME NEW e \in Conn \ {c}
      PROVE  tx'[e].own = tx[e].own
  <2>1. tx[e] \in Transaction /\ tx'[e] = Outdate(tx, places)[e]
    BY <1>a DEF SqlInv, TypeOK
  <2> QED
    BY <2>1 DEF Outdate, Transaction
<1>b. /\ tx'[d].mode = tx[d].mode
      /\ tx[d].mode # "open" => tx'[d] = tx[d]
      /\ tx'[d].snapshot = tx[d].snapshot
      /\ tx[d].mode = "open" => tx'[d].stale = tx[d].stale \cup places
  BY <1>0 DEF Outdate, Transaction
<1>1. StatementOfOp(d)'
  BY DEF SqlInv, StatementOfOp, Untroubled
<1>2. BlockOfPatch(d)'
  BY <1>b DEF SqlInv, BlockOfPatch, Untroubled, Blank
<1>3. SnapshotHolds(d)'
  <2> SUFFICES ASSUME tx[d].mode = "open"
               PROVE  SnapshotHolds(d)'
    BY <1>b DEF SnapshotHolds
  <2>0. SnapshotHolds(d) /\ tx'[d].mode = "open" /\ tx'[d].own = tx[d].own
    BY <1>a, <1>b DEF SqlInv
  <2>1. Had(d)' = Had(d) /\ Given(d)' = Given(d) /\ Target(d)' = Target(d)
    BY <1>b, SameSnapshot DEF Untroubled
  <2>2. \A p \in Place \ tx'[d].stale : tx'[d].snapshot[p] = rows'[p]
    BY <1>b, <2>0 DEF SnapshotHolds
  <2>3. ASSUME NEW i \in Key, tx'[d].snapshot[<<i, d>>] = Absent
        PROVE  <<i, d>> \notin tx'[d].stale
    <3>1. <<i, d>> \in Place /\ <<i, d>> \notin tx[d].stale
      BY <1>b, <2>0, <2>3 DEF SnapshotHolds, Place
    <3>2. rows[<<i, d>>] = Absent
      BY <1>b, <2>0, <2>3, <3>1 DEF SnapshotHolds
    <3> QED
      BY <1>b, <3>1, <3>2
  <2>4. pc'[d] # "commit" => \A p \in Place : tx'[d].own[p] = Untouched
    BY <2>0 DEF SnapshotHolds, Untroubled
  <2>5. /\ pc'[d] \in {"update", "insert"} => \E v \in Given(d)' : val'[d] = Patched(v)
        /\ pc'[d] = "insert" => Had(d)' = {}
    BY <2>0, <2>1 DEF SnapshotHolds, Untroubled
  <2>6. ASSUME pc[d] = "commit"
        PROVE  /\ Target(d) \cap tx'[d].stale = {}
               /\ \E v \in Given(d) :
                     tx'[d].own = [p \in Place |-> IF p \in Target(d)
                                                  THEN Patched(v) ELSE Untouched]
               /\ \A p \in Target(d), e \in Conn \ {d} : tx'[e].own[p] = Untouched
    <3>1. \A p \in Target(d) : p \in Place /\ Locked(c, p)
      BY <2>6, TargetHeld
    <3>2. Target(d) \cap tx'[d].stale = {}
      BY <1>b, <2>0, <2>6, <3>1 DEF SnapshotHolds
    <3>3. \A p \in Target(d), e \in Conn \ {d} : tx'[e].own[p] = Untouched
      BY <1>a, <2>0, <2>6, <3>1 DEF SnapshotHolds
    <3> QED
      BY <2>0, <2>6, <3>2, <3>3 DEF SnapshotHolds
  <2> QED
    BY <2>0, <2>1, <2>2, <2>3, <2>4, <2>5, <2>6 DEF SnapshotHolds, Patched, Untroubled
<1>4. InsertsNew(d)'
  BY <1>0 DEF SqlInv, InsertsNew, Untroubled
<1> QED
  BY <1>1, <1>2, <1>3, <1>4 DEF Sane

-----------------------------------------------------------------------------
(* The initial states, and the types *)

LEMMA InitInvariant == Init => SqlInv
<1> SUFFICES ASSUME Init
             PROVE  SqlInv
  OBVIOUS
<1>1. NoTx \in Transaction /\ NoTx.mode = "none"
  BY NoTxIsBlank, BlankIsTransaction
<1>2. 1 \in Item /\ Absent \in Row
  BY SqlAssumption DEF Item, Row
<1>3. TypeOK
  BY <1>1, <1>2, SqlAssumption DEF Init, TypeOK, Row
<1>4. ASSUME NEW c \in Conn
      PROVE  StatementOfOp(c) /\ BlockOfPatch(c) /\ SnapshotHolds(c) /\ InsertsNew(c)
  BY <1>1, NoTxIsBlank
     DEF Init, StatementOfOp, BlockOfPatch, SnapshotHolds, InsertsNew
<1> QED
  BY <1>3, <1>4 DEF SqlInv

\* Outdated transactions are transactions.
LEMMA OutdatedTypes ==
    ASSUME NEW t \in [Conn -> Transaction], NEW places \in SUBSET Place
    PROVE  Outdate(t, places) \in [Conn -> Transaction]
  BY DEF Outdate, Transaction

\* What a write leaves, in a block and outside of one.
LEMMA WriteTypes ==
    ASSUME TypeOK, NEW c \in Conn, NEW places \in SUBSET Place, NEW v \in Row,
           Write(c, places, v)
    PROVE  rows' \in [Place -> Row] /\ tx' \in [Conn -> Transaction]
<1>1. CASE InTx(c)
  <2>1. Opened(c) \in Transaction /\ tx[c] \in Transaction
    BY OpenedIsTransaction DEF TypeOK
  <2>2. [p \in Place |-> IF p \in places THEN v ELSE tx[c].own[p]]
            \in [Place -> Row \cup {Untouched}]
    BY <2>1 DEF Transaction
  <2>3. [Opened(c) EXCEPT !.own =
            [p \in Place |-> IF p \in places THEN v ELSE tx[c].own[p]]] \in Transaction
    BY <2>1, <2>2 DEF Transaction
  <2> QED
    BY <1>1, <2>3 DEF Write, TypeOK
<1>2. CASE ~InTx(c)
  BY <1>2, OutdatedTypes DEF Write, TypeOK
<1> QED
  BY <1>1, <1>2

\* What a failure leaves.
LEMMA FailureTypes ==
    ASSUME TypeOK, NEW c \in Conn, NEW conflict \in BOOLEAN, FailOrDie(c, conflict)
    PROVE  TypeOK'
<1>1. AfterFailure(c, conflict) \subseteq {"idle", "retry", "rollback"}
  BY DEF AfterFailure
<1>2. Aborted(c) \in [Conn -> Transaction]
  BY BlankIsTransaction, NoTxIsBlank DEF Aborted, Blank, TypeOK
<1>3. CASE Fail(c, conflict)
  BY <1>1, <1>2, <1>3 DEF Fail, Goto, TypeOK, request
<1>4. CASE Die(c)
  BY <1>4, BlankIsTransaction, NoTxIsBlank DEF Die, Goto, TypeOK, request
<1> QED
  BY <1>3, <1>4 DEF FailOrDie

-----------------------------------------------------------------------------
(* Each step keeps the invariant *)

\* When the types hold, c is sane and the others are untouched, all are.
LEMMA AllSane ==
    ASSUME NEW c \in Conn, TypeOK', Sane(c)', \A d \in Conn \ {c} : Sane(d)'
    PROVE  SqlInv'
  BY DEF SqlInv, Sane

\* A connection whose block is blank, or that has none.
LEMMA BlankSane ==
    ASSUME NEW c \in Conn, NEW m \in {"none", "begun", "aborted"},
           tx'[c] = Blank(m), c \in lost' => m = "none",
           StatementOfOp(c)',
           pc'[c] = "insert" => rows'[<<key'[c], c>>] = Absent,
           op'[c] # "patch" \/ pc'[c] \in {"idle", "begin"} => m = "none",
           op'[c] = "patch" /\ pc'[c] = "get" /\ c \notin lost' => m = "begun",
           op'[c] = "patch" /\ pc'[c] \in {"update", "insert", "commit"}
               => c \in lost' /\ m = "none",
           pc'[c] \in {"rollback", "retry"} => m \in {"none", "aborted"}
    PROVE  Sane(c)'
<1>1. tx'[c].mode = m
  BY BlankIsTransaction
<1>2. BlockOfPatch(c)'
  BY <1>1 DEF BlockOfPatch, Blank, NoTx
<1>3. SnapshotHolds(c)'
  BY <1>1 DEF SnapshotHolds
<1> QED
  BY <1>2, <1>3 DEF Sane, InsertsNew

\* A step that ends or aborts the block of c, and changes no row.
LEMMA BlankKeepsOthers ==
    ASSUME SqlInv, NEW c \in Conn, NEW m \in {"none", "begun", "aborted"},
           tx' = [tx EXCEPT ![c] = Blank(m)], rows' = rows,
           \A d \in Conn \ {c} : Untroubled(d)
    PROVE  \A d \in Conn \ {c} : Sane(d)'
<1> SUFFICES ASSUME NEW d \in Conn \ {c}
             PROVE  Sane(d)'
  OBVIOUS
<1>1. \A e \in Conn \ {c} : tx'[e] = tx[e]
  BY DEF SqlInv, TypeOK
<1>2. \A p \in Place : tx'[c].own[p] = Untouched
  BY BlankIsTransaction DEF SqlInv, TypeOK
<1> QED
  BY <1>1, <1>2, OthersKeep

\* A failed statement that is not the commit of a block that is still there.
LEMMA FailureKeeps ==
    ASSUME SqlInv, NEW c \in Conn, NEW conflict \in BOOLEAN,
           FailOrDie(c, conflict),
           pc[c] \in {"begin", "get", "update", "insert", "delete", "commit"},
           pc[c] = "commit" => c \in lost
    PROVE  SqlInv'
<1>1. TypeOK'
  BY FailureTypes DEF SqlInv
<1>t. TypeOK /\ StatementOfOp(c) /\ BlockOfPatch(c)
  BY DEF SqlInv
<1>2. \A d \in Conn \ {c} : Untroubled(d)
  BY <1>t DEF FailOrDie, Fail, Die, Goto, request, TypeOK, Untroubled
<1>3. /\ op'[c] = op[c] /\ tries'[c] = tries[c] /\ c \notin lost' /\ rows' = rows
  BY DEF FailOrDie, Fail, Die, request
<1>4. CASE Fail(c, conflict)
  <2>1. PICK to \in AfterFailure(c, conflict) : pc'[c] = to
    BY <1>t, <1>4 DEF Fail, Goto, TypeOK
  <2>2. PICK m \in {"none", "aborted"} :
            /\ tx' = [tx EXCEPT ![c] = Blank(m)]
            /\ tx[c] = Blank("none") => m = "none"
    <3>1. Aborted(c) = [tx EXCEPT ![c] = IF tx[c] = Blank("none") THEN Blank("none")
                                         ELSE Blank("aborted")]
      BY <1>t, NoTxIsBlank DEF Aborted, Blank, TypeOK
    <3> QED
      BY <3>1, <1>4 DEF Fail
  <2>3. op[c] # "patch" \/ pc[c] \in {"begin", "commit"} => m = "none"
    BY <1>t, <2>2 DEF BlockOfPatch
  <2>4. to = "idle" => m = "none"
    BY <2>1, <2>3 DEF AfterFailure
  <2>5. StatementOfOp(c)'
    BY <1>3, <2>1 DEF AfterFailure, StatementOfOp
  <2>6. tx'[c] = Blank(m)
    BY <1>t, <2>2 DEF TypeOK
  <2>7. to \in {"idle", "rollback", "retry"} /\ (op[c] # "patch" => m = "none")
    BY <2>1, <2>3 DEF AfterFailure
  <2>8. Sane(c)'
    BY <1>3, <2>1, <2>4, <2>5, <2>6, <2>7, BlankSane
  <2> QED
    BY <1>1, <1>2, <1>3, <2>2, <2>8, BlankKeepsOthers, AllSane
<1>5. CASE Die(c)
  <2>1. pc'[c] = "idle" /\ tx' = [tx EXCEPT ![c] = Blank("none")] /\ tx'[c] = Blank("none")
    BY <1>t, <1>5, NoTxIsBlank DEF Die, Goto, TypeOK
  <2>2. StatementOfOp(c)'
    BY <2>1 DEF StatementOfOp
  <2>3. Sane(c)'
    BY <1>3, <2>1, <2>2, BlankSane
  <2> QED
    BY <1>1, <1>2, <1>3, <2>1, <2>3, BlankKeepsOthers, AllSane
<1> QED
  BY <1>4, <1>5 DEF FailOrDie

LEMMA StatementFailsKeeps ==
    ASSUME SqlInv, NEW c \in Conn, StatementFails(c)
    PROVE  SqlInv'
<1>1. pc[c] = "commit" => c \in lost
  BY DEF SqlInv, StatementOfOp, BlockOfPatch, StatementFails, Runs
<1> QED
  BY <1>1, FailureKeeps DEF StatementFails

LEMMA CallKeeps ==
    ASSUME SqlInv, NEW c \in Conn, NEW o \in Ops, NEW k \in Key, NEW v \in Row,
           Call(c, o, k, v)
    PROVE  SqlInv'
<1>t. TypeOK /\ BlockOfPatch(c)
  BY DEF SqlInv
<1>1. o \in {"get", "post", "put", "patch", "delete"}
  BY SqlAssumption
<1>2. /\ pc'[c] = FirstStatement(o) /\ op'[c] = o
      /\ tx' = tx /\ rows' = rows /\ lost' = lost /\ pc[c] = "idle"
  BY <1>t DEF Call, Goto, TypeOK
<1>3. FirstStatement(o) \in {"get", "insert", "update", "begin", "delete"}
  BY <1>1 DEF FirstStatement
<1>4. TypeOK'
  BY <1>1, <1>2, <1>3, <1>t, SqlAssumption DEF Call, Goto, TypeOK
<1>5. \A d \in Conn \ {c} : Sane(d)'
  <2> SUFFICES ASSUME NEW d \in Conn \ {c}
               PROVE  Sane(d)'
    OBVIOUS
  <2>1. Untroubled(d)
    BY <1>t DEF Call, Goto, TypeOK, Untroubled
  <2> QED
    BY <1>2, <2>1, OthersKeep
<1>6. Sane(c)'
  <2>1. tx'[c] = Blank("none")
    BY <1>2, <1>t DEF BlockOfPatch, TypeOK, Transaction
  <2>2. StatementOfOp(c)'
    BY <1>1, <1>2 DEF StatementOfOp, FirstStatement
  <2>3. o = "patch" => pc'[c] = "begin"
    BY <1>2 DEF FirstStatement
  <2>4. pc'[c] \in {"get", "insert", "update", "begin", "delete"}
    BY <1>2, <1>3
  <2>5. pc'[c] = "insert" => rows'[<<key'[c], c>>] = Absent
    <3> SUFFICES ASSUME pc'[c] = "insert"
                 PROVE  rows'[<<key'[c], c>>] = Absent
      OBVIOUS
    <3>1. o = "post"
      BY <1>1, <1>2 DEF FirstStatement
    <3>2. <<k, c>> \in RowsOf(k) /\ key'[c] = k
      BY <1>t DEF RowsOf, Call, TypeOK
    <3>3. rows[<<k, c>>] = Absent
      BY <3>1, <3>2 DEF Call
    <3> QED
      BY <1>2, <3>2, <3>3
  <2> QED
    BY <1>2, <2>1, <2>2, <2>3, <2>4, <2>5, BlankSane
<1> QED
  BY <1>4, <1>5, <1>6, AllSane

LEMMA BeginKeeps ==
    ASSUME SqlInv, NEW c \in Conn, Begin(c)
    PROVE  SqlInv'
<1>t. TypeOK /\ BlockOfPatch(c) /\ StatementOfOp(c)
  BY DEF SqlInv
<1>1. tx[c] = Blank("none") /\ tx[c].mode = "none"
  BY <1>t DEF Begin, BlockOfPatch
<1>2. tx' = [tx EXCEPT ![c] = Blank("begun")]
  <2>1. [tx[c] EXCEPT !.mode = "begun"] = Blank("begun")
    BY <1>1 DEF Blank, NoTx
  <2>2. tx' = [tx EXCEPT ![c] = [tx[c] EXCEPT !.mode = "begun"]]
    BY <1>1, <1>t DEF Begin, TypeOK
  <2> QED
    BY <2>1, <2>2
<1>3. /\ pc'[c] = "get" /\ op'[c] = "patch" /\ tx'[c] = Blank("begun")
      /\ rows' = rows /\ c \notin lost'
  BY <1>2, <1>t DEF Begin, Goto, TypeOK, request, StatementOfOp, Runs
<1>4. TypeOK'
  BY <1>2, <1>t, BlankIsTransaction DEF Begin, Goto, TypeOK, request
<1>5. \A d \in Conn \ {c} : Untroubled(d)
  BY <1>t DEF Begin, Goto, TypeOK, request, Untroubled
<1>6. Sane(c)'
  <2>1. StatementOfOp(c)'
    BY <1>3 DEF StatementOfOp
  <2> QED
    BY <1>3, <2>1, BlankSane
<1> QED
  BY <1>2, <1>3, <1>4, <1>5, <1>6, BlankKeepsOthers, AllSane

\* A step that at most opens the block of c leaves the others as they are.
LEMMA OpeningKeepsOthers ==
    ASSUME SqlInv, NEW c \in Conn,
           tx' = [tx EXCEPT ![c] = Opened(c)], rows' = rows,
           \A d \in Conn \ {c} : Untroubled(d)
    PROVE  \A d \in Conn \ {c} : Sane(d)'
<1> SUFFICES ASSUME NEW d \in Conn \ {c}
             PROVE  Sane(d)'
  OBVIOUS
<1>1. \A e \in Conn \ {c} : tx'[e] = tx[e]
  BY DEF SqlInv, TypeOK
<1>2. tx'[c].own = tx[c].own
  BY OpenedIsTransaction DEF SqlInv, TypeOK
<1> QED
  BY <1>1, <1>2, OthersKeep

\* The rows that a patch which has not written yet sees are those of the
\* snapshot, and this holds in a block just opened as well.
LEMMA PatchSeesSnapshot ==
    ASSUME SqlInv, NEW c \in Conn, op[c] = "patch", c \notin lost,
           pc[c] \in {"get", "update", "insert"}
    PROVE  /\ Opened(c).mode = "open"
           /\ \A p \in Place \ Opened(c).stale : Opened(c).snapshot[p] = rows[p]
           /\ \A i \in Key : Opened(c).snapshot[<<i, c>>] = Absent
                               => <<i, c>> \notin Opened(c).stale
           /\ \A p \in Place : Opened(c).own[p] = Untouched
           /\ \A p \in Place : Sees(c, p) = Opened(c).snapshot[p]
<1>t. TypeOK /\ BlockOfPatch(c) /\ SnapshotHolds(c)
  BY DEF SqlInv
<1>1. tx[c].mode = IF pc[c] = "get" THEN "begun" ELSE "open"
  BY <1>t DEF BlockOfPatch
<1>2. \A p \in Place : tx[c].own[p] = Untouched
  BY HolderCommits
<1>3. \A p \in Place : Opened(c).own[p] = Untouched
  BY <1>2, <1>t, OpenedIsTransaction
<1>4. \A p \in Place : Sees(c, p) = Opened(c).snapshot[p]
  BY <1>1, <1>2 DEF Sees, InTx
<1>5. /\ Opened(c).mode = "open"
      /\ \A p \in Place \ Opened(c).stale : Opened(c).snapshot[p] = rows[p]
      /\ \A i \in Key : Opened(c).snapshot[<<i, c>>] = Absent
                          => <<i, c>> \notin Opened(c).stale
  <2>1. CASE pc[c] = "get"
    <3>1. tx[c].stale = {}
      BY <2>1, <1>1, <1>t DEF BlockOfPatch, Blank, NoTx
    <3> QED
      BY <2>1, <3>1, <1>1, <1>t, OpenedIsTransaction
  <2>2. CASE pc[c] # "get"
    BY <2>2, <1>1, <1>t, OpenedIsTransaction DEF SnapshotHolds
  <2> QED
    BY <2>1, <2>2
<1> QED
  BY <1>3, <1>4, <1>5

\* A patch opens its block, or leaves it open, and goes on to write what its
\* script made of a row it found, or of none.
LEMMA PatchGoesOn ==
    ASSUME SqlInv, NEW c \in Conn, op[c] = "patch", c \notin lost,
           pc[c] \in {"get", "update"},
           tx' = [tx EXCEPT ![c] = Opened(c)], rows' = rows, lost' = lost,
           op' = op, key' = key,
           pc'[c] \in {"update", "insert"},
           \E v \in FoundItems(c, key[c]) : val'[c] = Patched(v),
           pc'[c] = "insert" => Visible(c, key[c]) = {}
    PROVE  Sane(c)'
<1>1. tx'[c] = Opened(c)
  BY DEF SqlInv, TypeOK
<1>2. Opened(c).mode = "open"
  BY PatchSeesSnapshot
<1>3. StatementOfOp(c)'
  BY DEF StatementOfOp
<1>4. BlockOfPatch(c)'
  BY <1>1, <1>2 DEF BlockOfPatch
<1>k. key[c] \in Key /\ RowsOf(key[c]) \subseteq Place
  BY SeesRow DEF SqlInv, TypeOK
<1>5. \A p \in RowsOf(key[c]) : Sees(c, p) = tx'[c].snapshot[p]
  BY <1>1, <1>k, PatchSeesSnapshot
<1>6. Had(c)' = Visible(c, key[c])
  BY <1>5 DEF Had, Visible, RowsOf
<1>7. Given(c)' = FoundItems(c, key[c])
  <2>1. Visible(c, key[c]) \subseteq RowsOf(key[c])
    BY DEF Visible
  <2> QED
    BY <1>5, <1>6, <2>1 DEF Given, FoundItems
<1>8. SnapshotHolds(c)'
  BY <1>1, <1>2, <1>6, <1>7, PatchSeesSnapshot DEF SnapshotHolds, Patched
<1>9. InsertsNew(c)'
  <2> SUFFICES ASSUME pc'[c] = "insert"
               PROVE  rows[<<key[c], c>>] = Absent
    BY DEF InsertsNew
  <2>1. <<key[c], c>> \in RowsOf(key[c]) /\ <<key[c], c>> \in Place
    BY <1>k DEF RowsOf
  <2>2. Opened(c).snapshot[<<key[c], c>>] = Absent
    BY <1>1, <1>5, <2>1 DEF Visible
  <2> QED
    BY <1>k, <2>1, <2>2, PatchSeesSnapshot
<1> QED
  BY <1>3, <1>4, <1>8, <1>9 DEF Sane

LEMMA SelectKeeps ==
    ASSUME SqlInv, NEW c \in Conn, ~NullScripts, Select(c)
    PROVE  SqlInv'
<1>t. TypeOK /\ BlockOfPatch(c) /\ StatementOfOp(c)
  BY DEF SqlInv
<1>1. /\ tx' = [tx EXCEPT ![c] = Opened(c)] /\ tx'[c] = Opened(c)
      /\ rows' = rows /\ lost' = lost /\ op' = op /\ key' = key
      /\ pc[c] = "get" /\ Runs(c)
  BY <1>t DEF Select, TypeOK, request
<1>2. \A v \in FoundItems(c, key[c]) : Patched(v) \in Row
  BY <1>t, SeesRow, PatchedIsItem DEF TypeOK, Row
<1>3. TypeOK'
  BY <1>1, <1>2, <1>t, OpenedIsTransaction DEF Select, Goto, TypeOK, request
<1>4. \A d \in Conn \ {c} : Sane(d)'
  <2>1. \A d \in Conn \ {c} : Untroubled(d)
    BY <1>t DEF Select, Goto, TypeOK, request, Untroubled
  <2> QED
    BY <1>1, <2>1, OpeningKeepsOthers
<1>5. Sane(c)'
  <2>1. CASE op[c] = "get"
    <3>1. pc'[c] = "idle"
      BY <2>1, <1>t DEF Select, Goto, TypeOK
    <3>2. tx'[c] = Blank("none")
      BY <2>1, <1>1, <1>t, OpenedIsTransaction DEF BlockOfPatch
    <3>3. StatementOfOp(c)'
      BY <3>1 DEF StatementOfOp
    <3> QED
      BY <3>1, <3>2, <3>3, BlankSane
  <2>2. CASE op[c] = "patch"
    <3>1. pc'[c] = "update" /\ \E v \in FoundItems(c, key[c]) : val'[c] = Patched(v)
      BY <2>2, <1>t DEF Select, Goto, TypeOK
    <3> QED
      BY <1>1, <2>2, <3>1, PatchGoesOn DEF Runs
  <2> QED
    BY <1>1, <1>t, <2>1, <2>2 DEF StatementOfOp
<1> QED
  BY <1>3, <1>4, <1>5, AllSane

\* A put, a post or a delete writes rows for all to see, and returns.
LEMMA WriteOutside ==
    ASSUME SqlInv, NEW c \in Conn, NEW v \in Row, op[c] # "patch",
           NEW places \in SUBSET Place, Write(c, places, v),
           \A p \in places : ~Locked(c, p),
           \A d \in Conn \ {c}, i \in Key : <<i, d>> \in places => rows[<<i, d>>] # Absent,
           Goto(c, "idle"),
           lost' = lost, request' = request, tries' = tries, val' = val
    PROVE  SqlInv'
<1>t. TypeOK /\ BlockOfPatch(c) /\ key[c] \in Key
  BY DEF SqlInv, TypeOK
<1>1. tx[c] = Blank("none") /\ tx[c].mode = "none"
  BY <1>t DEF BlockOfPatch
<1>2. /\ rows' = [p \in Place |-> IF p \in places THEN v ELSE rows[p]]
      /\ tx' = Outdate(tx, places)
  BY <1>1 DEF Write, InTx
<1>3. tx'[c] = Blank("none") /\ pc'[c] = "idle"
  BY <1>1, <1>2, <1>t DEF Outdate, Goto, TypeOK
<1>4. TypeOK'
  BY <1>t, WriteTypes DEF TypeOK, Goto, request
<1>5. \A d \in Conn \ {c} : Sane(d)'
  <2> SUFFICES ASSUME NEW d \in Conn \ {c}
               PROVE  Sane(d)'
    OBVIOUS
  <2>1. Untroubled(d)
    BY <1>t DEF Goto, TypeOK, request, Untroubled
  <2>2. \A p \in Place \ places : rows'[p] = rows[p]
    BY <1>2
  <2>3. \A p \in Place : tx'[c].own[p] = Untouched
    BY <1>3, BlankIsTransaction
  <2>4. \A e \in Conn \ {c} : tx'[e] = Outdate(tx, places)[e]
    BY <1>2
  <2> QED
    BY <2>1, <2>2, <2>3, <2>4, OthersOutdated
<1>6. Sane(c)'
  <2>1. StatementOfOp(c)'
    BY <1>3 DEF StatementOfOp
  <2> QED
    BY <1>3, <2>1, BlankSane
<1> QED
  BY <1>4, <1>5, <1>6, AllSane

\* A patch writes its rows in its block, and goes on to commit them: they are
\* still what the script saw.
LEMMA WriteInside ==
    ASSUME SqlInv, NEW c \in Conn, op[c] = "patch", c \notin lost,
           pc[c] \in {"update", "insert"},
           Target(c) \cap tx[c].stale = {},
           Write(c, Target(c), val[c]),
           \A p \in Target(c) : ~Locked(c, p), Goto(c, "commit"),
           lost' = lost, request' = request, tries' = tries, val' = val
    PROVE  SqlInv'
<1>t. /\ TypeOK /\ BlockOfPatch(c) /\ SnapshotHolds(c) /\ val[c] \in Row
      /\ Target(c) \subseteq Place
  BY PatchTypes DEF SqlInv, TypeOK
<1>1. tx[c].mode = "open" /\ tx[c] \in Transaction
  BY <1>t DEF BlockOfPatch, TypeOK
<1>0. \A p \in Place : tx[c].own[p] = Untouched
  BY HolderCommits
<1>n. [p \in Place |-> IF p \in Target(c) THEN val[c] ELSE tx[c].own[p]]
        = [p \in Place |-> IF p \in Target(c) THEN val[c] ELSE Untouched]
  BY <1>0
<1>2. /\ tx' = [tx EXCEPT ![c] = [tx[c] EXCEPT !.own =
                    [p \in Place |-> IF p \in Target(c) THEN val[c] ELSE Untouched]]]
      /\ rows' = rows
  BY <1>1, <1>t, <1>n, OpenedIsTransaction DEF Write, InTx
<1>3. pc'[c] = "commit" /\ op' = op /\ key' = key
  BY <1>t DEF Goto, TypeOK, request
<1>4. TypeOK'
  BY <1>t, WriteTypes DEF TypeOK, Goto, request
<1>5. /\ tx'[c].mode = "open" /\ tx'[c].snapshot = tx[c].snapshot
      /\ tx'[c].stale = tx[c].stale
      /\ tx'[c].own = [p \in Place |-> IF p \in Target(c) THEN val[c] ELSE Untouched]
  BY <1>1, <1>2, <1>t DEF TypeOK, Transaction
<1>6. \A e \in Conn \ {c} : tx'[e] = tx[e]
  BY <1>2, <1>t DEF TypeOK
<1>7. \A p \in Place : tx'[c].own[p] # Untouched => ~Locked(c, p)
  BY <1>5
<1>8. \A d \in Conn \ {c} : Sane(d)'
  <2> SUFFICES ASSUME NEW d \in Conn \ {c}
               PROVE  Sane(d)'
    OBVIOUS
  <2>1. Untroubled(d)
    BY <1>t DEF Goto, TypeOK, request, Untroubled
  <2> QED
    BY <1>2, <1>6, <1>7, <2>1, OthersKeep
<1>9. Sane(c)'
  <2>1. StatementOfOp(c)'
    BY <1>3 DEF StatementOfOp
  <2>2. BlockOfPatch(c)'
    BY <1>3, <1>5 DEF BlockOfPatch
  <2>3. Had(c)' = Had(c) /\ Given(c)' = Given(c) /\ Target(c)' = Target(c)
    BY <1>3, <1>5, SameSnapshot
  <2>4. PICK v \in Given(c) : val[c] = Patched(v)
    BY <1>1, <1>t DEF SnapshotHolds
  <2>5. tx'[c].own = [p \in Place |-> IF p \in Target(c) THEN Patched(v) ELSE Untouched]
    BY <1>5, <2>4
  <2>6. ASSUME NEW p \in Target(c), NEW d \in Conn \ {c}
        PROVE  tx'[d].own[p] = Untouched
    <3>1. p \in Place /\ ~Locked(c, p) /\ tx'[d] = tx[d]
      BY <1>6, <1>t, <2>6
    <3> QED
      BY <3>1, HolderCommits DEF Locked
  <2>7. SnapshotHolds(c)'
    BY <1>1, <1>2, <1>3, <1>5, <1>t, <2>3, <2>5, <2>6 DEF SnapshotHolds, Patched
  <2>8. InsertsNew(c)'
    BY <1>3 DEF InsertsNew
  <2> QED
    BY <2>1, <2>2, <2>7, <2>8 DEF Sane
<1> QED
  BY <1>4, <1>8, <1>9, AllSane

\* The rows that a put or a delete finds are there.
LEMMA FoundAreThere ==
    ASSUME SqlInv, NEW c \in Conn, op[c] # "patch"
    PROVE  \A p \in Visible(c, key[c]) : p \in Place /\ rows[p] # Absent
<1>1. tx[c].mode = "none" /\ key[c] \in Key
  BY DEF SqlInv, TypeOK, BlockOfPatch
<1> QED
  BY <1>1, SeesRow DEF SqlInv, Visible, Sees, InTx

LEMMA UpdateKeeps ==
    ASSUME SqlInv, NEW c \in Conn, Update(c)
    PROVE  SqlInv'
<1> DEFINE found == Visible(c, key[c])
<1>t. TypeOK /\ BlockOfPatch(c) /\ StatementOfOp(c) /\ SnapshotHolds(c)
  BY DEF SqlInv
<1>1. /\ key[c] \in Key /\ pc[c] = "update" /\ c \notin lost /\ val[c] \in Row
      /\ found \subseteq Place
  BY <1>t, SeesRow DEF Update, Runs, TypeOK
<1>0. op[c] = "patch" => Had(c) = found /\ Opened(c) = tx[c] /\ tx[c].mode = "open"
  <2> SUFFICES ASSUME op[c] = "patch"
               PROVE  Had(c) = found /\ Opened(c) = tx[c] /\ tx[c].mode = "open"
    OBVIOUS
  <2>1. tx[c].mode = "open" /\ Opened(c) = tx[c]
    BY <1>1, <1>t, OpenedIsTransaction DEF BlockOfPatch
  <2>2. \A p \in RowsOf(key[c]) : Sees(c, p) = tx[c].snapshot[p]
    BY <1>1, <1>t, <2>1, PatchSeesSnapshot, SeesRow
  <2> QED
    BY <2>1, <2>2 DEF Had, Visible
<1>2. CASE found = {} /\ Goto(c, "insert") /\ tx' = [tx EXCEPT ![c] = Opened(c)]
           /\ UNCHANGED <<rows, lost, request, val, tries>>
  <2>1. /\ pc'[c] = "insert" /\ rows' = rows /\ lost' = lost /\ op' = op /\ key' = key
        /\ val' = val
    BY <1>2, <1>t DEF Goto, TypeOK, request
  <2>2. TypeOK'
    BY <1>2, <1>t, OpenedIsTransaction DEF Goto, TypeOK, request
  <2>3. \A d \in Conn \ {c} : Untroubled(d)
    BY <1>2, <1>t DEF Goto, TypeOK, request, Untroubled
  <2>4. CASE op[c] = "patch"
    <3>1. PICK v \in Given(c) : val[c] = Patched(v)
      BY <1>0, <1>1, <1>t, <2>4 DEF SnapshotHolds
    <3>2. v \in FoundItems(c, key[c])
      BY <1>0, <1>2, <2>4, <3>1 DEF Given, FoundItems
    <3>3. Sane(c)'
      BY <1>1, <1>2, <2>1, <2>4, <3>1, <3>2, PatchGoesOn
    <3> QED
      BY <1>2, <2>2, <2>3, <3>3, OpeningKeepsOthers, AllSane
  <2>5. CASE op[c] # "patch"
    <3>1. tx'[c] = Blank("none") /\ tx[c].mode = "none"
      BY <1>2, <1>t, <2>5, OpenedIsTransaction DEF BlockOfPatch, TypeOK
    <3>2. StatementOfOp(c)'
      BY <1>1, <2>1, <1>t DEF StatementOfOp
    <3>3. rows[<<key[c], c>>] = Absent
      BY <1>1, <1>2, <3>1 DEF Visible, Sees, InTx, RowsOf
    <3>4. Sane(c)'
      BY <2>1, <2>5, <3>1, <3>2, <3>3, BlankSane
    <3> QED
      BY <1>2, <2>2, <2>3, <3>4, OpeningKeepsOthers, AllSane
  <2> QED
    BY <2>4, <2>5
<1>3. CASE FailOrDie(c, TRUE)
  BY <1>1, <1>3, FailureKeeps
<1>4. CASE found # {} /\ found \cap tx[c].stale = {}
           /\ (\A p \in found : ~Locked(c, p)) /\ Write(c, found, val[c])
           /\ Goto(c, IF op[c] = "patch" THEN "commit" ELSE "idle")
           /\ UNCHANGED <<lost, request, val, tries>>
  <2>1. CASE op[c] = "patch"
    <3>1. Target(c) = found
      BY <1>0, <1>4, <2>1 DEF Target
    <3> QED
      BY <1>1, <1>4, <2>1, <3>1, WriteInside
  <2>2. CASE op[c] # "patch"
    <3>1. \A p \in found : rows[p] # Absent
      BY <2>2, FoundAreThere
    <3> HIDE DEF found
    <3> QED
      BY <1>1, <1>4, <2>2, <3>1, WriteOutside
  <2> QED
    BY <2>1, <2>2
<1> QED
  BY <1>2, <1>3, <1>4 DEF Update

LEMMA InsertKeeps ==
    ASSUME SqlInv, NEW c \in Conn, Insert(c)
    PROVE  SqlInv'
<1> DEFINE p == <<key[c], c>>
<1>t. TypeOK /\ BlockOfPatch(c) /\ SnapshotHolds(c)
  BY DEF SqlInv
<1>1. /\ key[c] \in Key /\ pc[c] = "insert" /\ c \notin lost /\ val[c] \in Row
      /\ p \in Place /\ ~Locked(c, p)
  BY <1>t, NewIsFree DEF Insert, Runs, TypeOK
<1>2. /\ Write(c, {p}, val[c]) /\ Goto(c, IF op[c] = "patch" THEN "commit" ELSE "idle")
      /\ UNCHANGED <<lost, request, val, tries>>
  BY DEF Insert
<1>3. CASE op[c] = "patch"
  <2>1. tx[c].mode = "open" /\ Had(c) = {}
    BY <1>1, <1>t, <1>3 DEF BlockOfPatch, SnapshotHolds
  <2>2. Target(c) = {p} /\ p \in RowsOf(key[c])
    BY <1>1, <2>1 DEF Target, RowsOf
  <2>3. tx[c].snapshot[p] = Absent
    BY <2>1, <2>2 DEF Had
  <2>4. p \notin tx[c].stale
    BY <1>1, <1>t, <2>1, <2>3 DEF SnapshotHolds
  <2> QED
    BY <1>1, <1>2, <1>3, <2>2, <2>4, WriteInside
<1>4. CASE op[c] # "patch"
  BY <1>1, <1>2, <1>4, WriteOutside
<1> QED
  BY <1>3, <1>4

LEMMA DeleteKeeps ==
    ASSUME SqlInv, NEW c \in Conn, Delete(c)
    PROVE  SqlInv'
<1> DEFINE found == Visible(c, key[c])
<1>t. TypeOK /\ BlockOfPatch(c) /\ StatementOfOp(c)
  BY DEF SqlInv
<1>1. /\ key[c] \in Key /\ pc[c] = "delete" /\ op[c] = "delete" /\ Absent \in Row
      /\ found \subseteq Place
  BY <1>t, SeesRow DEF Delete, TypeOK, StatementOfOp, Row
<1>2. CASE Goto(c, "idle") /\ tx' = [tx EXCEPT ![c] = Opened(c)]
           /\ UNCHANGED <<rows, lost, request, val, tries>>
  <2>1. TypeOK'
    BY <1>2, <1>t, OpenedIsTransaction DEF Goto, TypeOK, request
  <2>2. \A d \in Conn \ {c} : Untroubled(d)
    BY <1>2, <1>t DEF Goto, TypeOK, request, Untroubled
  <2>3. tx'[c] = Blank("none") /\ pc'[c] = "idle"
    BY <1>1, <1>2, <1>t, OpenedIsTransaction DEF BlockOfPatch, TypeOK, Goto
  <2>4. StatementOfOp(c)'
    BY <2>3 DEF StatementOfOp
  <2>5. Sane(c)'
    BY <2>3, <2>4, BlankSane
  <2> QED
    BY <1>2, <2>1, <2>2, <2>5, OpeningKeepsOthers, AllSane
<1>3. CASE FailOrDie(c, FALSE)
  BY <1>1, <1>3, FailureKeeps
<1>4. CASE (\A p \in found : ~Locked(c, p)) /\ Write(c, found, Absent) /\ Goto(c, "idle")
           /\ UNCHANGED <<lost, request, val, tries>>
  <2>1. \A p \in found : rows[p] # Absent
    BY <1>1, FoundAreThere
  <2> HIDE DEF found
  <2> QED
    BY <1>1, <1>4, <2>1, WriteOutside
<1> QED
  BY <1>2, <1>3, <1>4 DEF Delete

\* The transaction of a patch that commits has written what the script made
\* of one of the rows that are still there, and nothing else.
LEMMA CommitWritesPatched ==
    ASSUME SqlInv, NEW c \in Conn, Commit(c)
    PROVE  PatchesTable(c)
<1>1. tx[c].mode = "open" /\ pc[c] = "commit" /\ SnapshotHolds(c)
  BY DEF SqlInv, StatementOfOp, BlockOfPatch, Commit, Runs
<1>2. \A p \in Target(c) : p \in Place /\ tx[c].own[p] # Untouched
  BY <1>1, TargetHeld
<1>3. \A p \in Target(c) : rows[p] = tx[c].snapshot[p]
  BY <1>2, HolderCommits
<1>4. PICK v \in Given(c) : tx[c].own = [p \in Place |-> IF p \in Target(c)
                                                       THEN Patched(v) ELSE Untouched]
  BY <1>1 DEF SnapshotHolds
<1>5. {p \in Place : tx[c].own[p] # Untouched} = Target(c)
  BY <1>2, <1>4
<1>6. rows' = [p \in Place |-> IF p \in Target(c) THEN tx[c].own[p] ELSE rows[p]]
  BY <1>5 DEF Commit, CommitTx
<1>7. rows' = [p \in Place |-> IF p \in Target(c) THEN Patched(v) ELSE rows[p]]
  BY <1>4, <1>6
<1> QED
  BY <1>3, <1>7 DEF PatchesTable

LEMMA CommitKeeps ==
    ASSUME SqlInv, NEW c \in Conn, Commit(c)
    PROVE  SqlInv'
<1> DEFINE written == {p \in Place : tx[c].own[p] # Untouched}
<1>t. TypeOK /\ tx[c] \in Transaction
  BY DEF SqlInv, TypeOK
<1>1. /\ rows' = [p \in Place |-> IF p \in written THEN tx[c].own[p] ELSE rows[p]]
      /\ tx' = Outdate([tx EXCEPT ![c] = NoTx], written)
  BY DEF Commit, CommitTx
<1>2. /\ tx'[c] = Blank("none") /\ pc'[c] = "idle"
      /\ \A d \in Conn \ {c} : tx'[d] = Outdate(tx, written)[d]
  BY <1>1, <1>t, NoTxIsBlank, BlankIsTransaction DEF Outdate, TypeOK, Commit, Goto
<1>3. TypeOK'
  <2>1. [tx EXCEPT ![c] = NoTx] \in [Conn -> Transaction]
    BY <1>t, NoTxIsBlank, BlankIsTransaction DEF TypeOK
  <2>2. tx' \in [Conn -> Transaction]
    BY <1>1, <2>1, OutdatedTypes
  <2>3. rows' \in [Place -> Row]
    BY <1>1, <1>t DEF TypeOK, Transaction
  <2> QED
    BY <1>t, <2>2, <2>3 DEF TypeOK, Commit, Goto, request
<1>4. \A d \in Conn \ {c} : Sane(d)'
  <2> SUFFICES ASSUME NEW d \in Conn \ {c}
               PROVE  Sane(d)'
    OBVIOUS
  <2>1. Untroubled(d)
    BY <1>t DEF Commit, Goto, TypeOK, request, Untroubled
  <2>2. \A p \in Place \ written : rows'[p] = rows[p]
    BY <1>1
  <2>3. \A p \in Place : tx'[c].own[p] = Untouched
    BY <1>2, BlankIsTransaction
  <2>4. \A p \in written : ~Locked(c, p)
    BY HolderCommits
  <2>5. written \in SUBSET Place
    OBVIOUS
  <2>6. \A i \in Key : <<i, d>> \in written => rows[<<i, d>>] # Absent
    BY HeldIsThere
  <2> HIDE DEF written
  <2> QED
    BY <1>2, <2>1, <2>2, <2>3, <2>4, <2>5, <2>6, OthersOutdated
<1>5. Sane(c)'
  <2>1. StatementOfOp(c)'
    BY <1>2 DEF StatementOfOp
  <2> QED
    BY <1>2, <2>1, BlankSane
<1> QED
  BY <1>3, <1>4, <1>5, AllSane

LEMMA RollbackKeeps ==
    ASSUME SqlInv, NEW c \in Conn, Rollback(c)
    PROVE  SqlInv'
<1>t. TypeOK /\ StatementOfOp(c)
  BY DEF SqlInv
<1>1. /\ tx' = [tx EXCEPT ![c] = Blank("none")] /\ tx'[c] = Blank("none")
      /\ rows' = rows /\ c \notin lost' /\ op' = op /\ op[c] = "patch"
      /\ pc'[c] \in {"idle", "begin"}
  BY <1>t, NoTxIsBlank DEF Rollback, Goto, TypeOK, request, StatementOfOp
<1>2. TypeOK'
  <2>1. tries' \in [Conn -> 0..Retries]
    BY <1>t, SqlAssumption DEF Rollback, TypeOK, StatementOfOp
  <2>2. tx' \in [Conn -> Transaction]
    BY <1>1, <1>t, BlankIsTransaction DEF TypeOK
  <2> QED
    BY <1>t, <2>1, <2>2 DEF Rollback, Goto, TypeOK, request
<1>3. \A d \in Conn \ {c} : Untroubled(d)
  BY <1>t DEF Rollback, Goto, TypeOK, request, Untroubled
<1>4. StatementOfOp(c)'
  BY <1>1 DEF StatementOfOp
<1>5. Sane(c)'
  BY <1>1, <1>4, BlankSane
<1> QED
  BY <1>1, <1>2, <1>3, <1>5, BlankKeepsOthers, AllSane

LEMMA DropKeeps ==
    ASSUME SqlInv, NEW c \in Conn, Drop(c)
    PROVE  SqlInv'
<1>t. TypeOK /\ StatementOfOp(c)
  BY DEF SqlInv
<1>1. /\ tx' = [tx EXCEPT ![c] = Blank("none")] /\ tx'[c] = Blank("none")
      /\ rows' = rows /\ c \in lost' /\ op' = op /\ pc' = pc /\ tries' = tries
  BY <1>t, NoTxIsBlank DEF Drop, TypeOK, request
<1>2. TypeOK'
  BY <1>1, <1>t, BlankIsTransaction DEF Drop, TypeOK, request
<1>3. \A d \in Conn \ {c} : Untroubled(d)
  BY DEF Drop, request, Untroubled
<1>4. StatementOfOp(c)'
  BY <1>1, <1>t DEF StatementOfOp
<1>5. pc'[c] = "insert" => rows'[<<key'[c], c>>] = Absent
  BY <1>1 DEF SqlInv, InsertsNew, Drop, request
<1>6. Sane(c)'
  BY <1>1, <1>4, <1>5, BlankSane
<1> QED
  BY <1>1, <1>2, <1>3, <1>6, BlankKeepsOthers, AllSane

LEMMA NextKeeps ==
    ASSUME SqlInv, ~NullScripts, [Next]_vars
    PROVE  SqlInv'
<1>1. ASSUME NEW c \in Conn, Step(c)
      PROVE  SqlInv'
  BY <1>1, StatementFailsKeeps, BeginKeeps, SelectKeeps, UpdateKeeps, InsertKeeps,
     DeleteKeeps, CommitKeeps, RollbackKeeps DEF Step
<1>2. CASE UNCHANGED vars
  BY <1>2 DEF vars, request, SqlInv, TypeOK, StatementOfOp, BlockOfPatch, SnapshotHolds,
     InsertsNew, Had, Given, Target, Blank, Patched
<1> QED
  BY <1>1, <1>2, CallKeeps, DropKeeps DEF Next

-----------------------------------------------------------------------------
(* The theorems *)

LEMMA InvariantEnds == SqlInv => TransactionsEnd
<1> SUFFICES ASSUME SqlInv
             PROVE  TransactionsEnd
  OBVIOUS
<1>1. NoTransactionLeft
  BY DEF SqlInv, BlockOfPatch, NoTransactionLeft, InTx
<1>2. LockersEnd
  <2> SUFFICES ASSUME NEW c \in Conn, NEW p \in Place, tx[c].own[p] # Untouched
               PROVE  /\ pc[c] = "commit"
                      /\ \A d \in Conn \ {c} : tx[d].own[p] = Untouched
    BY DEF LockersEnd
  <2>1. pc[c] = "commit" /\ ~Locked(c, p)
    BY HolderCommits
  <2> QED
    BY <2>1, HolderCommits DEF Locked
<1> QED
  BY <1>1, <1>2 DEF TransactionsEnd, SqlInv

\* A patch returns from its commit only when the commit ran, or when the
\* connection is lost.
LEMMA PatchCommits ==
    ASSUME SqlInv, [Next]_vars, NEW c \in Conn,
           pc[c] = "commit", pc'[c] = "idle", c \notin lost
    PROVE  PatchesTable(c)
<1>t. TypeOK /\ StatementOfOp(c) /\ BlockOfPatch(c)
  BY DEF SqlInv
<1>1. ASSUME NEW d \in Conn, Step(d)
      PROVE  Commit(c)
  <2>1. d = c
    BY <1>1, <1>t DEF Step, StatementFails, FailOrDie, Fail, Die, Begin, Select, Update,
       Insert, Delete, Commit, Rollback, Goto, TypeOK
  <2>2. ~StatementFails(c)
    BY <1>t DEF StatementFails, Runs, StatementOfOp, BlockOfPatch
  <2> QED
    BY <1>1, <2>1, <2>2
       DEF Step, Begin, Select, Update, Insert, Delete, Rollback
<1>2. ASSUME NEW d \in Conn, NEW o \in Ops, NEW k \in Key, NEW v \in Row, Call(d, o, k, v)
      PROVE  FALSE
  BY <1>2, <1>t DEF Call, Goto, TypeOK
<1>3. ASSUME NEW d \in Conn, Drop(d)
      PROVE  FALSE
  BY <1>3 DEF Drop
<1>4. CASE UNCHANGED vars
  BY <1>4 DEF vars
<1> QED
  BY <1>1, <1>2, <1>3, <1>4, CommitWritesPatched DEF Next

\* The inductive invariant: which transaction a connection is in at each
\* statement of pgsql.hpp's requests, what its snapshot says of the table,
\* and what a patch has written.
THEOREM SqlInvariant == ~NullScripts /\ Spec => []SqlInv
<1> SUFFICES ASSUME ~NullScripts
             PROVE  Spec => []SqlInv
  OBVIOUS
<1>1. Init => SqlInv
  BY InitInvariant
<1>2. SqlInv /\ [Next]_vars => SqlInv'
  BY NextKeeps
<1> QED
  BY <1>1, <1>2, PTL DEF Spec

\* When every script returns something, a transaction that pgbegin opened
\* ends with its request, whatever fails, and no connection ever waits for a
\* row whose holder waits.
THEOREM TransactionsEndWithRequests == ~NullScripts /\ Spec => []TransactionsEnd
  BY SqlInvariant, InvariantEnds, PTL

\* When every script returns something, a patch that commits replaces the
\* rows its script was given one of, still as they were, or adds a row when
\* it found none, and changes nothing else, however many conflicts tryPatch
\* met and whatever other connections wrote.
THEOREM PatchesAreAtomic == ~NullScripts /\ Spec => PatchIsAtomic
<1>1. SqlInv /\ [Next]_vars
        => [\A c \in Conn : pc[c] = "commit" /\ pc'[c] = "idle" /\ c \notin lost
              => PatchesTable(c)]_vars
  BY PatchCommits
<1> QED
  BY <1>1, SqlInvariant, PTL DEF Spec, PatchIsAtomic
=============================================================================
