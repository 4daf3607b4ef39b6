--------------------------- MODULE ConstDB_proofs ---------------------------
(***************************************************************************)
(* The constant database, for any number of processes, files and keys: its *)
(* file is always a whole one; when inode numbers are not given out again, *)
(* gets are fresh and only rewrites that overlap lose an update.           *)
(***************************************************************************)
EXTENDS ConstDB, TLAPS

\* What a patch makes of an item is an item.
LEMMA PatchedIsItem ==
    ASSUME NEW v \in {Absent} \cup Item
    PROVE  Patched(v) \in Item
  <1>1. v \in Nat /\ MaxVal \in Nat /\ MaxVal > 0
    BY ConstDBAssumption DEF Absent, Item
  <1>2. v % MaxVal \in 0..(MaxVal - 1)
    BY <1>1
  <1> QED
    BY <1>1, <1>2 DEF Patched, Item

\* A rewrite makes a database.
LEMMA RewrittenIsDatabase ==
    ASSUME TypeOK, NEW p \in Proc, fd[p] \in Ino
    PROVE  Rewritten(p) \in Database
  BY DEF TypeOK, Rewritten, Set, Database

LEMMA InitIInv == Init => IInv
  <1> SUFFICES ASSUME Init PROVE IInv
    OBVIOUS
  <1> USE ConstDBAssumption
  <1>1. TypeOK
    BY DEF Init, TypeOK, Database, Ops
  <1>2. CallsOK /\ TemporariesApart /\ NeverPartial /\ WholeToRename
    BY DEF Init, CallsOK, TemporariesApart, NeverPartial, WholeToRename
  <1>3. PastIsPast
    BY DEF Init, PastIsPast, ReadsFresh
  <1>4. CopiesHold
    BY DEF Init, CopiesHold, LostOnlyToOverlap
  <1> QED
    BY <1>1, <1>2, <1>3, <1>4 DEF IInv

\* A call sets the fields of the request.
LEMMA CallIInv ==
    ASSUME IInv, NEW p \in Proc, NEW o \in Ops, NEW k \in Key,
           NEW v \in {Absent} \cup Item, Call(p, o, k, v)
    PROVE  IInv'
  <1> USE DEF IInv, Call, Goto, Set
  <1>1. TypeOK'
    BY ConstDBAssumption DEF TypeOK, disk, handle, call, past
  <1>2. CallsOK' /\ TemporariesApart'
    BY ConstDBAssumption DEF CallsOK, TemporariesApart, TypeOK, disk, handle, call, past
  <1>3. NeverPartial' /\ WholeToRename'
    BY ConstDBAssumption DEF NeverPartial, WholeToRename, CallsOK, TemporariesApart, TypeOK,
           disk, handle, call, past
  <1>4. ~Reuse => PastIsPast'
    BY ConstDBAssumption DEF PastIsPast, ReadsFresh, CallsOK, TemporariesApart, TypeOK, disk,
           handle, call, past
  <1>5. ~Reuse => CopiesHold'
    BY ConstDBAssumption DEF CopiesHold, LostOnlyToOverlap, PastIsPast, CallsOK, TemporariesApart,
           TypeOK, disk, handle, call, past
  <1> QED
    BY <1>1, <1>2, <1>3, <1>4, <1>5

\* The temporary file is nobody else's, and has a new number.
LEMMA MakeTemporaryIInv ==
    ASSUME IInv, NEW p \in Proc, NEW i \in Ino, MakeTemporary(p, i)
    PROVE  IInv'
  <1> USE DEF IInv, MakeTemporary, Goto, Set
  <1>1. TypeOK'
    BY ConstDBAssumption DEF TypeOK, disk, handle, call, past
  <1>2. CallsOK' /\ TemporariesApart'
    BY ConstDBAssumption DEF CallsOK, TemporariesApart, TypeOK, disk, handle, call, past, Free, Held
  <1>3. NeverPartial' /\ WholeToRename'
    BY ConstDBAssumption DEF NeverPartial, WholeToRename, CallsOK, TemporariesApart, TypeOK,
           disk, handle, call, past, Free, Held
  <1>4. ~Reuse => PastIsPast'
    BY ConstDBAssumption DEF PastIsPast, ReadsFresh, CallsOK, TemporariesApart, TypeOK, disk,
           handle, call, past, Free, Held
  <1>5. ~Reuse => CopiesHold'
    BY ConstDBAssumption DEF CopiesHold, LostOnlyToOverlap, PastIsPast, CallsOK, TemporariesApart,
           TypeOK, disk, handle, call, past, Free, Held
  <1> QED
    BY <1>1, <1>2, <1>3, <1>4, <1>5

\* stat sees the file that has the name, and it is no temporary.
LEMMA StatIInv ==
    ASSUME IInv, NEW p \in Proc, Stat(p)
    PROVE  IInv'
  <1> USE DEF IInv, Stat, Goto, Set
  <1>1. TypeOK'
    BY ConstDBAssumption DEF TypeOK, disk, handle, call, past
  <1>2. CallsOK' /\ TemporariesApart'
    BY ConstDBAssumption DEF CallsOK, TemporariesApart, TypeOK, disk, handle, call, past
  <1>3. NeverPartial' /\ WholeToRename'
    BY ConstDBAssumption DEF NeverPartial, WholeToRename, CallsOK, TemporariesApart, TypeOK,
           disk, handle, call, past
  <1>4. ~Reuse => PastIsPast'
    BY ConstDBAssumption DEF PastIsPast, ReadsFresh, CallsOK, TemporariesApart, TypeOK, disk,
           handle, call, past
  <1>5. ~Reuse => CopiesHold'
    BY ConstDBAssumption DEF CopiesHold, LostOnlyToOverlap, PastIsPast, CallsOK, TemporariesApart,
           TypeOK, disk, handle, call, past
  <1> QED
    BY <1>1, <1>2, <1>3, <1>4, <1>5

\* open gets the file that has the name.
LEMMA OpenIInv ==
    ASSUME IInv, NEW p \in Proc, Open(p)
    PROVE  IInv'
  <1> USE DEF IInv, Open, Goto, Set
  <1>1. TypeOK'
    BY ConstDBAssumption DEF TypeOK, disk, handle, call, past
  <1>2. CallsOK' /\ TemporariesApart'
    BY ConstDBAssumption DEF CallsOK, TemporariesApart, TypeOK, disk, handle, call, past
  <1>3. NeverPartial' /\ WholeToRename'
    BY ConstDBAssumption DEF NeverPartial, WholeToRename, CallsOK, TemporariesApart, TypeOK,
           disk, handle, call, past
  <1>4. ~Reuse => PastIsPast'
    BY ConstDBAssumption DEF PastIsPast, ReadsFresh, CallsOK, TemporariesApart, TypeOK, disk,
           handle, call, past
  <1>5. ~Reuse => CopiesHold'
    BY ConstDBAssumption DEF CopiesHold, LostOnlyToOverlap, PastIsPast, CallsOK, TemporariesApart,
           TypeOK, disk, handle, call, past
  <1> QED
    BY <1>1, <1>2, <1>3, <1>4, <1>5

\* A get changes no file.
LEMMA GetIInv ==
    ASSUME IInv, NEW p \in Proc, Get(p)
    PROVE  IInv'
  <1> USE DEF IInv, Get, Goto, Set
  <1>1. TypeOK'
    <2>1. fd[p] \in Ino /\ files[fd[p]][key[p]] \in {Absent} \cup Item
      BY DEF TypeOK, CallsOK, Database
    <2>2. Patched(files[fd[p]][key[p]]) \in Item
      BY <2>1, PatchedIsItem
    <2> QED
      BY <2>1, <2>2 DEF TypeOK, disk, handle, call, past
  <1>2. CallsOK' /\ TemporariesApart'
    BY ConstDBAssumption DEF CallsOK, TemporariesApart, TypeOK, disk, handle, call, past, Getting
  <1>3. NeverPartial' /\ WholeToRename'
    BY ConstDBAssumption DEF NeverPartial, WholeToRename, CallsOK, TemporariesApart, TypeOK,
           disk, handle, call, past, Getting
  <1>4. ~Reuse => PastIsPast'
    BY ConstDBAssumption DEF PastIsPast, ReadsFresh, CallsOK, TemporariesApart, TypeOK, disk,
           handle, call, past, Getting
  <1>5. ~Reuse => CopiesHold'
    BY ConstDBAssumption DEF CopiesHold, LostOnlyToOverlap, PastIsPast, CallsOK, TemporariesApart,
           TypeOK, disk, handle, call, past, Getting
  <1> QED
    BY <1>1, <1>2, <1>3, <1>4, <1>5

\* A rewrite fills in the temporary file.
LEMMA RewriteIInv ==
    ASSUME IInv, NEW p \in Proc, Rewrite(p)
    PROVE  IInv'
  <1> USE DEF IInv, Rewrite, Goto, Set
  <1>1. TypeOK'
    <2>1. fd[p] \in Ino /\ tmpfd[p] \in Ino
      BY DEF TypeOK, CallsOK, Getting
    <2>2. Rewritten(p) \in Database
      BY <2>1, RewrittenIsDatabase
    <2> QED
      BY <2>1, <2>2 DEF TypeOK, handle, call, past
  <1>2. CallsOK' /\ TemporariesApart'
    BY ConstDBAssumption DEF CallsOK, TemporariesApart, TypeOK, disk, handle, call, past, Getting
  <1>3. NeverPartial' /\ WholeToRename'
    BY ConstDBAssumption DEF NeverPartial, WholeToRename, CallsOK, TemporariesApart, TypeOK,
           disk, handle, call, past, Getting
  <1>4. ~Reuse => PastIsPast'
    BY ConstDBAssumption DEF PastIsPast, ReadsFresh, CallsOK, TemporariesApart, TypeOK, disk,
           handle, call, past, Getting
  <1>5. ~Reuse => CopiesHold'
    <2>1. tmpfd[p] \in Ino /\ fd[p] \in Ino /\ tmpfd[p] # name
      BY DEF TypeOK, CallsOK, TemporariesApart, Getting
    <2>2. files'[tmpfd[p]] = Rewritten(p) /\ (\A i \in Ino : i # tmpfd[p] => files'[i] = files[i])
      BY <2>1 DEF TypeOK
    <2>3. ASSUME ~Reuse, NEW k \in DOMAIN want
          PROVE  files'[name'][k] = want'[k]
      BY <2>1, <2>2, <2>3 DEF CopiesHold, LostOnlyToOverlap, TypeOK, call
    <2>4. ASSUME ~Reuse, NEW q \in Proc, NEW k \in DOMAIN want \ since[q]
          PROVE  /\ pc'[q] = "use" => files'[fd[q]][k] = want[k]
                 /\ pc'[q] = "rename" /\ k # key[q] => files'[tmpfd[q]][k] = want[k]
      <3>1. CASE q = p
        <4>1. pc[p] = "use" /\ pc'[p] = "rename" /\ files[fd[p]][k] = want[k]
          BY <2>4, <3>1 DEF CopiesHold, TypeOK
        <4> QED
          BY <2>1, <2>2, <2>4, <3>1, <4>1 DEF Rewritten, TypeOK, Database
      <3>2. CASE q # p
        <4>1. pc'[q] = pc[q]
          BY <3>2 DEF TypeOK
        <4>2. pc[q] = "use" => fd[q] \in Ino /\ fd[q] # tmpfd[p]
          BY <2>1 DEF TypeOK, CallsOK, TemporariesApart
        <4>3. pc[q] = "rename" => tmpfd[q] \in Ino /\ tmpfd[q] # tmpfd[p]
          BY <2>1, <3>2 DEF TypeOK, CallsOK, TemporariesApart
        <4> QED
          BY <2>2, <2>4, <4>1, <4>2, <4>3 DEF CopiesHold
      <3> QED
        BY <3>1, <3>2
    <2>5. ASSUME ~Reuse, NEW q \in Proc, pc'[q] = "rename"
          PROVE  files'[tmpfd[q]][key[q]] = val[q]
      <3>1. CASE q = p
        BY <2>1, <2>2, <3>1 DEF Rewritten, TypeOK, Database
      <3>2. CASE q # p
        <4>1. pc[q] = "rename"
          BY <2>5, <3>2 DEF TypeOK
        <4>2. tmpfd[q] \in Ino /\ tmpfd[q] # tmpfd[p]
          BY <2>1, <3>2, <4>1 DEF TypeOK, CallsOK, TemporariesApart
        <4> QED
          BY <2>2, <2>5, <4>1, <4>2 DEF CopiesHold
      <3> QED
        BY <3>1, <3>2
    <2> QED
      BY <2>3, <2>4, <2>5 DEF CopiesHold, LostOnlyToOverlap, handle, call, past
  <1> QED
    BY <1>1, <1>2, <1>3, <1>4, <1>5

\* A rewrite that fails lets its temporary file go.
LEMMA RewriteFailsIInv ==
    ASSUME IInv, NEW p \in Proc, RewriteFails(p)
    PROVE  IInv'
  <1> USE DEF IInv, RewriteFails, Goto, Set
  <1>1. TypeOK'
    BY ConstDBAssumption DEF TypeOK, disk, handle, call, past
  <1>2. CallsOK' /\ TemporariesApart'
    BY ConstDBAssumption DEF CallsOK, TemporariesApart, TypeOK, disk, handle, call, past, Getting
  <1>3. NeverPartial' /\ WholeToRename'
    BY ConstDBAssumption DEF NeverPartial, WholeToRename, CallsOK, TemporariesApart, TypeOK,
           disk, handle, call, past, Getting
  <1>4. ~Reuse => PastIsPast'
    BY ConstDBAssumption DEF PastIsPast, ReadsFresh, CallsOK, TemporariesApart, TypeOK, disk,
           handle, call, past, Getting
  <1>5. ~Reuse => CopiesHold'
    BY ConstDBAssumption DEF CopiesHold, LostOnlyToOverlap, PastIsPast, CallsOK, TemporariesApart,
           TypeOK, disk, handle, call, past, Getting
  <1> QED
    BY <1>1, <1>2, <1>3, <1>4, <1>5

\* The renamed file was a temporary of this process alone.
LEMMA RenameIInv ==
    ASSUME IInv, NEW p \in Proc, Rename(p)
    PROVE  IInv'
  <1> USE DEF IInv, Rename, Goto, Set
  <1>1. TypeOK'
    <2>1. tmpfd[p] \in Ino
      BY DEF TypeOK, CallsOK
    <2>2. DOMAIN want' \subseteq Key
      BY DEF TypeOK, Wanted
    <2> QED
      BY <2>1, <2>2 DEF TypeOK, call, past
  <1>2. CallsOK' /\ TemporariesApart'
    BY ConstDBAssumption DEF CallsOK, TemporariesApart, TypeOK, disk, handle, call, past
  <1>3. NeverPartial' /\ WholeToRename'
    BY ConstDBAssumption DEF NeverPartial, WholeToRename, CallsOK, TemporariesApart, TypeOK,
           disk, handle, call, past
  <1>4. ~Reuse => PastIsPast'
    BY ConstDBAssumption DEF PastIsPast, ReadsFresh, CallsOK, TemporariesApart, TypeOK, disk,
           handle, call, past
  <1>5. ~Reuse => CopiesHold'
    <2>1. tmpfd[p] \in Ino /\ key[p] \in Key /\ pc[p] = "rename" /\ pc'[p] = "restat"
      BY DEF TypeOK, CallsOK
    <2>2. /\ DOMAIN want' = (DOMAIN want \ since[p]) \cup {key[p]}
          /\ want'[key[p]] = val[p]
          /\ \A k \in DOMAIN want' : k # key[p] =>
                 k \in DOMAIN want \ since[p] /\ want'[k] = want[k]
      BY DEF Wanted
    <2>3. ASSUME ~Reuse PROVE LostOnlyToOverlap'
      <3>1. ASSUME NEW k \in DOMAIN want' PROVE files[tmpfd[p]][k] = want'[k]
        BY <2>1, <2>2, <2>3, <3>1 DEF CopiesHold
      <3> QED
        BY <3>1 DEF LostOnlyToOverlap
    <2>4. ASSUME ~Reuse, NEW q \in Proc, NEW k \in DOMAIN want' \ since'[q]
          PROVE  /\ pc'[q] = "use" => files[fd'[q]][k] = want'[k]
                 /\ pc'[q] = "rename" /\ k # key[q] => files[tmpfd'[q]][k] = want'[k]
      <3>1. k # key[p] /\ k \in DOMAIN want \ since[q]
        BY <2>2, <2>4
      <3>2. CASE q = p
        BY <2>1, <3>2
      <3>3. CASE q # p
        <4>1. pc'[q] = pc[q] /\ fd'[q] = fd[q] /\ tmpfd'[q] = tmpfd[q]
          BY <3>3 DEF TypeOK
        <4> QED
          BY <2>2, <2>4, <3>1, <4>1 DEF CopiesHold
      <3> QED
        BY <3>2, <3>3
    <2>5. ASSUME ~Reuse, NEW q \in Proc, pc'[q] = "rename"
          PROVE  files[tmpfd'[q]][key[q]] = val[q]
      <3>1. q # p
        BY <2>1, <2>5
      <3>2. pc'[q] = pc[q] /\ tmpfd'[q] = tmpfd[q]
        BY <3>1 DEF TypeOK
      <3> QED
        BY <2>5, <3>2 DEF CopiesHold
    <2> QED
      BY <2>3, <2>4, <2>5 DEF CopiesHold, call
  <1> QED
    BY <1>1, <1>2, <1>3, <1>4, <1>5

\* stat after the rename.
LEMMA RestatIInv ==
    ASSUME IInv, NEW p \in Proc, Restat(p)
    PROVE  IInv'
  <1> USE DEF IInv, Restat, Goto, Set
  <1>1. TypeOK'
    BY ConstDBAssumption DEF TypeOK, disk, handle, call, past
  <1>2. CallsOK' /\ TemporariesApart'
    BY ConstDBAssumption DEF CallsOK, TemporariesApart, TypeOK, disk, handle, call, past
  <1>3. NeverPartial' /\ WholeToRename'
    BY ConstDBAssumption DEF NeverPartial, WholeToRename, CallsOK, TemporariesApart, TypeOK,
           disk, handle, call, past
  <1>4. ~Reuse => PastIsPast'
    BY ConstDBAssumption DEF PastIsPast, ReadsFresh, CallsOK, TemporariesApart, TypeOK, disk,
           handle, call, past
  <1>5. ~Reuse => CopiesHold'
    BY ConstDBAssumption DEF CopiesHold, LostOnlyToOverlap, PastIsPast, CallsOK, TemporariesApart,
           TypeOK, disk, handle, call, past
  <1> QED
    BY <1>1, <1>2, <1>3, <1>4, <1>5

\* open after the rename.
LEMMA ReopenIInv ==
    ASSUME IInv, NEW p \in Proc, Reopen(p)
    PROVE  IInv'
  <1> USE DEF IInv, Reopen, Goto, Set
  <1>1. TypeOK'
    BY ConstDBAssumption DEF TypeOK, disk, handle, call, past
  <1>2. CallsOK' /\ TemporariesApart'
    BY ConstDBAssumption DEF CallsOK, TemporariesApart, TypeOK, disk, handle, call, past
  <1>3. NeverPartial' /\ WholeToRename'
    BY ConstDBAssumption DEF NeverPartial, WholeToRename, CallsOK, TemporariesApart, TypeOK,
           disk, handle, call, past
  <1>4. ~Reuse => PastIsPast'
    BY ConstDBAssumption DEF PastIsPast, ReadsFresh, CallsOK, TemporariesApart, TypeOK, disk,
           handle, call, past
  <1>5. ~Reuse => CopiesHold'
    BY ConstDBAssumption DEF CopiesHold, LostOnlyToOverlap, PastIsPast, CallsOK, TemporariesApart,
           TypeOK, disk, handle, call, past
  <1> QED
    BY <1>1, <1>2, <1>3, <1>4, <1>5

\* What a process that dies leaves is what a new one starts from.
LEMMA CrashIInv ==
    ASSUME IInv, NEW p \in Proc, Crash(p)
    PROVE  IInv'
  <1> USE DEF IInv, Crash, Goto, Set
  <1>1. TypeOK'
    BY ConstDBAssumption DEF TypeOK, disk, handle, call, past
  <1>2. CallsOK' /\ TemporariesApart'
    BY ConstDBAssumption DEF CallsOK, TemporariesApart, TypeOK, disk, handle, call, past
  <1>3. NeverPartial' /\ WholeToRename'
    BY ConstDBAssumption DEF NeverPartial, WholeToRename, CallsOK, TemporariesApart, TypeOK,
           disk, handle, call, past
  <1>4. ~Reuse => PastIsPast'
    BY ConstDBAssumption DEF PastIsPast, ReadsFresh, CallsOK, TemporariesApart, TypeOK, disk,
           handle, call, past
  <1>5. ~Reuse => CopiesHold'
    BY ConstDBAssumption DEF CopiesHold, LostOnlyToOverlap, PastIsPast, CallsOK, TemporariesApart,
           TypeOK, disk, handle, call, past
  <1> QED
    BY <1>1, <1>2, <1>3, <1>4, <1>5

LEMMA StepIInv == IInv /\ [Next]_vars => IInv'
  <1> SUFFICES ASSUME IInv, [Next]_vars PROVE IInv'
    OBVIOUS
  <1>1. CASE UNCHANGED vars
    <2> USE <1>1 DEF vars, disk, handle, call, past, IInv
    <2>1. TypeOK' /\ CallsOK' /\ TemporariesApart'
      BY DEF TypeOK, CallsOK, TemporariesApart
    <2>2. NeverPartial' /\ WholeToRename'
      BY DEF NeverPartial, WholeToRename
    <2>3. ~Reuse => PastIsPast'
      BY DEF PastIsPast, ReadsFresh
    <2>4. ~Reuse => CopiesHold'
      BY DEF CopiesHold, LostOnlyToOverlap
    <2> QED
      BY <2>1, <2>2, <2>3, <2>4
  <1>2. CASE Next
    BY <1>2, CallIInv, MakeTemporaryIInv, StatIInv, OpenIInv, GetIInv, RewriteIInv,
       RewriteFailsIInv, RenameIInv, RestatIInv, ReopenIInv, CrashIInv DEF Next
  <1> QED
    BY <1>1, <1>2

\* The invariant of the database holds in every reachable state.
THEOREM DatabaseInvariant == Spec => []IInv
  BY InitIInv, StepIInv, PTL DEF Spec

\* "Atomically replace the db": no process ever finds, or reads, a file that
\* is not written to the end, whatever crashes and however many write.
THEOREM DatabaseIsWhole == Spec => []NeverPartial
  <1>1. IInv => NeverPartial
    BY DEF IInv
  <1> QED
    BY <1>1, DatabaseInvariant, PTL

\* "Close and reopen database after a change": when the file system does not
\* give out an inode number again, every file a process reads had the name
\* of the database since the process started to open it.
THEOREM ReadsAreFresh == ~Reuse => (Spec => []ReadsFresh)
  <1>1. ASSUME ~Reuse PROVE IInv => ReadsFresh
    BY <1>1 DEF IInv, PastIsPast
  <1>2. ASSUME ~Reuse PROVE Spec => []ReadsFresh
    BY <1>1, <1>2, DatabaseInvariant, PTL
  <1> QED
    BY <1>2

\* However many processes write, and whoever crashes: when the file system
\* does not give out an inode number again, a rewrite loses an update only if
\* that was renamed in after the rewriting process had opened the file it
\* copies; every other update is in the database until the next of its key.
THEOREM OverlapsAloneLose == ~Reuse => (Spec => []LostOnlyToOverlap)
  <1>1. ASSUME ~Reuse PROVE IInv => LostOnlyToOverlap
    BY <1>1 DEF IInv, CopiesHold
  <1>2. ASSUME ~Reuse PROVE Spec => []LostOnlyToOverlap
    BY <1>1, <1>2, DatabaseInvariant, PTL
  <1> QED
    BY <1>2
=============================================================================
