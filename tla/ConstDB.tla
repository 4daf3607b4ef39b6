------------------------------ MODULE ConstDB ------------------------------
(***************************************************************************)
(* The constant database component, components/constdb: constdb.cpp over   *)
(* tinycdb.hpp.                                                            *)
(*                                                                         *)
(* A TinyCDB file is never modified in place.  Every update writes a whole *)
(* new file under a temporary name and renames it over the database; every *)
(* process keeps a descriptor of the file it last opened and, before it    *)
(* reads, compares the serial number of the file that has the name now     *)
(* with the one it got when it opened.  Each system call that other        *)
(* processes can notice is a step.                                         *)
(*                                                                         *)
(* A file is named here by its inode number.  It lives as long as a name   *)
(* or a descriptor refers to it; then the file system may give its number  *)
(* to a new one.                                                           *)
(***************************************************************************)
EXTENDS Naturals, FiniteSets

CONSTANTS Proc,      \* server processes, each with its own TinyCDB
          Writer,    \* those that get updates to do
          Ino,       \* bound: the inode numbers of the file system
          NoFile,    \* no descriptor, no serial number
          Reuse,     \* whether it gives out a number again
          Key,
          MaxVal,    \* bound: the items are 1..MaxVal
          Crashes    \* whether a process may die and be replaced

ASSUME ConstDBAssumption ==
    /\ Writer \subseteq Proc
    /\ Reuse \in BOOLEAN /\ Crashes \in BOOLEAN
    /\ MaxVal \in Nat \ {0}
    /\ NoFile \notin Ino

Absent == 0
Item == 1..MaxVal
Database == [Key -> {Absent} \cup Item]

\* What a patch script makes of an item, or of none.
Patched(v) == (v % MaxVal) + 1

VARIABLES name,      \* the file that has the name of the database
          files,     \* files[i]: what the file i holds
          whole,     \* the files written to the end
          tmp,       \* the files that have temporary names
          used,      \* the numbers given out so far
          fd,        \* fd[p]: the file h.fd is open on
          serial,    \* serial[p]: h.st.st_ino
          leaked,    \* leaked[p]: files that stay open after a rewrite
          pc, op, key, val,
          tmpfd,     \* tmpfd[p]: the file the rewrite of p makes
          st,        \* st[p]: st.st_ino in cdbopen
          seen,      \* seen[p]: what had the name since p started to open
          since,     \* since[p]: the keys the others updated since p opened,
                     \* or found current, the file it reads
          want       \* want[k]: the last update of k, for the keys no rewrite
                     \* of an older file has put back since

disk == <<name, files, whole, tmp, used, want>>
handle == <<fd, serial>>
call == <<op, key>>
past == <<seen, since>>
vars == <<disk, handle, leaked, pc, call, val, tmpfd, st, past>>

Held == {fd[p] : p \in Proc} \cup {tmpfd[p] : p \in Proc}
            \cup UNION {leaked[p] : p \in Proc}
Free == {i \in Ino : i # name /\ i \notin tmp /\ i \notin Held
                        /\ (Reuse \/ i \notin used)}

Ops == {"get", "post", "put", "patch", "delete"}

TypeOK ==
    /\ name \in Ino
    /\ files \in [Ino -> Database]
    /\ whole \subseteq Ino
    /\ tmp \subseteq Ino
    /\ used \subseteq Ino
    /\ fd \in [Proc -> Ino \cup {NoFile}]
    /\ serial \in [Proc -> Ino \cup {NoFile}]
    /\ leaked \in [Proc -> SUBSET Ino]
    /\ pc \in [Proc -> {"idle", "make", "stat", "open", "use", "rename",
                        "restat", "reopen"}]
    /\ op \in [Proc -> Ops]
    /\ key \in [Proc -> Key]
    /\ val \in [Proc -> {Absent} \cup Item]
    /\ tmpfd \in [Proc -> Ino \cup {NoFile}]
    /\ st \in [Proc -> Ino \cup {NoFile}]
    /\ seen \in [Proc -> SUBSET Ino]
    /\ since \in [Proc -> SUBSET Key]
    /\ DOMAIN want \subseteq Key

\* An administrator made the database, empty.
Init ==
    /\ \E i \in Ino, empty \in [Ino -> {[k \in Key |-> Absent]}] :
          name = i /\ files = empty /\ used = {i} /\ whole = {i}
    /\ tmp = {}
    /\ fd = [p \in Proc |-> NoFile]
    /\ serial = [p \in Proc |-> NoFile]
    /\ leaked = [p \in Proc |-> {}]
    /\ pc = [p \in Proc |-> "idle"]
    /\ op = [p \in Proc |-> "get"]
    /\ key \in {[p \in Proc |-> k] : k \in Key}
    /\ val = [p \in Proc |-> Absent]
    /\ tmpfd = [p \in Proc |-> NoFile]
    /\ st = [p \in Proc |-> NoFile]
    /\ seen = [p \in Proc |-> {}]
    /\ since = [p \in Proc |-> {}]
    /\ want = [k \in Key |-> Absent]

Goto(p, from, to) ==
    /\ pc[p] = from
    /\ pc' = [pc EXCEPT ![p] = to]

Set(f, p, x) == [f EXCEPT ![p] = x]

\* Only the get of a get, or of a patch, reads without a file to make.
Getting(p) == tmpfd[p] = NoFile

-----------------------------------------------------------------------------

Call(p, o, k, v) ==
    /\ o # "get" => p \in Writer
    /\ o \notin {"post", "put"} => v = Absent
    /\ o \in {"post", "put"} => v # Absent
    /\ Goto(p, "idle", IF o \in {"get", "patch"} THEN "stat" ELSE "make")
    /\ op' = Set(op, p, o)
    /\ key' = Set(key, p, k)
    /\ val' = Set(val, p, v)
    /\ seen' = Set(seen, p, {name})
    /\ UNCHANGED <<disk, handle, leaked, tmpfd, st, since>>

\* rewrite: mkstemp, a new empty file open for writing.
MakeTemporary(p, i) ==
    /\ Goto(p, "make", "stat")
    /\ i \in Free
    /\ tmp' = tmp \cup {i}
    /\ whole' = whole \ {i}
    /\ used' = used \cup {i}
    /\ tmpfd' = Set(tmpfd, p, i)
    /\ seen' = Set(seen, p, {name})
    /\ UNCHANGED <<name, files, want, handle, leaked, call, val, st, since>>

\* Mutant: a file once open is not compared with the name again.
StatOnce(p) ==
    /\ Goto(p, "stat", IF fd[p] # NoFile THEN "use" ELSE "open")
    /\ st' = Set(st, p, name)
    /\ since' = Set(since, p, {})
    /\ UNCHANGED <<disk, handle, leaked, call, val, tmpfd, seen>>

\* cdbopen: no change, or the file to be opened.
Stat(p) ==
    /\ Goto(p, "stat", IF fd[p] # NoFile /\ serial[p] = name THEN "use" ELSE "open")
    /\ st' = Set(st, p, name)
    /\ since' = Set(since, p, {})
    /\ UNCHANGED <<disk, handle, leaked, call, val, tmpfd, seen>>

\* cdbopen: closes the current descriptor, opens whatever has the name by
\* now, and keeps the serial number stat gave.
Open(p) ==
    /\ Goto(p, "open", "use")
    /\ fd' = Set(fd, p, name)
    /\ serial' = Set(serial, p, st[p])
    /\ since' = Set(since, p, {})
    /\ UNCHANGED <<disk, leaked, call, val, tmpfd, st, seen>>

\* get answers; the get of a patch goes on to rewrite with the patched item,
\* or stops when the script makes none.
Get(p) ==
    /\ Getting(p)
    /\ \E to \in {"idle"} \cup (IF op[p] = "patch" THEN {"make"} ELSE {}) :
          Goto(p, "use", to)
    /\ val' = Set(val, p, LET v == files[fd[p]][key[p]] IN
                              IF op[p] = "patch" THEN Patched(v) ELSE v)
    /\ UNCHANGED <<disk, handle, leaked, call, tmpfd, st, past>>

\* Mutant: update returns false for the entries it should keep.
RewrittenAlone(p) ==
    [k \in Key |-> IF k = key[p] THEN val[p] ELSE Absent]

\* Mutant: the existing entries are not added at all.
RewrittenShort(p) == [k \in {key[p]} |-> val[p]]

\* The entries of the new file.
Rewritten(p) == Set(files[fd[p]], key[p], val[p])

\* rewrite: every entry copied but that of the key, and the new one added.
Rewrite(p) ==
    /\ ~Getting(p)
    /\ Goto(p, "use", "rename")
    /\ op[p] = "post" => files[fd[p]][key[p]] = Absent
    /\ files' = Set(files, tmpfd[p], Rewritten(p))
    /\ whole' = whole \cup {tmpfd[p]}
    /\ UNCHANGED <<name, tmp, used, want, handle, leaked, call, val, tmpfd, st, past>>

\* post: "Key already exists"; the temporary file is closed, not removed.
RewriteFails(p) ==
    /\ ~Getting(p)
    /\ Goto(p, "use", "idle")
    /\ op[p] = "post" /\ files[fd[p]][key[p]] # Absent
    /\ tmpfd' = Set(tmpfd, p, NoFile)
    /\ UNCHANGED <<disk, handle, leaked, call, val, st, past>>

\* What is wanted after p renames: an update that was renamed in after p
\* opened the file it copied is not in the new file, and is no longer.
Wanted(p) ==
    [k \in (DOMAIN want \ since[p]) \cup {key[p]} |->
        IF k = key[p] THEN val[p] ELSE want[k]]

\* Mutant: the file gets the name of the database before it is written.
RenameEarly(p) ==
    /\ ~Getting(p)
    /\ pc[p] \in {"use", "rename"}
    /\ pc' = [pc EXCEPT ![p] = "restat"]
    /\ name' = tmpfd[p]
    /\ tmp' = tmp \ {tmpfd[p]}
    /\ leaked' = Set(leaked, p, leaked[p] \cup {tmpfd[p]})
    /\ tmpfd' = Set(tmpfd, p, NoFile)
    /\ fd' = Set(fd, p, NoFile)
    /\ seen' = [q \in Proc |-> seen[q] \cup {tmpfd[p]}]
    /\ since' = [q \in Proc |-> since[q] \cup {key[p]}]
    /\ want' = Wanted(p)
    /\ UNCHANGED <<files, whole, used, serial, call, val, st>>

\* rewrite: rename, then cdbclose.  Nobody closes tmpfd.
Rename(p) ==
    /\ Goto(p, "rename", "restat")
    /\ name' = tmpfd[p]
    /\ tmp' = tmp \ {tmpfd[p]}
    /\ leaked' = Set(leaked, p, leaked[p] \cup {tmpfd[p]})
    /\ tmpfd' = Set(tmpfd, p, NoFile)
    /\ fd' = Set(fd, p, NoFile)
    /\ seen' = [q \in Proc |-> seen[q] \cup {tmpfd[p]}]
    /\ since' = [q \in Proc |-> since[q] \cup {key[p]}]
    /\ want' = Wanted(p)
    /\ UNCHANGED <<files, whole, used, serial, call, val, st>>

\* rewrite: cdbopen again, for the first time as far as it can tell.
Restat(p) ==
    /\ Goto(p, "restat", "reopen")
    /\ st' = Set(st, p, name)
    /\ UNCHANGED <<disk, handle, leaked, call, val, tmpfd, past>>

Reopen(p) ==
    /\ Goto(p, "reopen", "idle")
    /\ fd' = Set(fd, p, name)
    /\ serial' = Set(serial, p, st[p])
    /\ UNCHANGED <<disk, leaked, call, val, tmpfd, st, past>>

\* The process dies, its descriptors close, and the server starts another.
\* Its temporary file stays.
Crash(p) ==
    /\ Crashes
    /\ pc' = Set(pc, p, "idle")
    /\ fd' = Set(fd, p, NoFile)
    /\ serial' = Set(serial, p, NoFile)
    /\ leaked' = Set(leaked, p, {})
    /\ tmpfd' = Set(tmpfd, p, NoFile)
    /\ UNCHANGED <<disk, call, val, st, past>>

Next ==
    \E p \in Proc :
        \/ \E o \in Ops, k \in Key, v \in {Absent} \cup Item : Call(p, o, k, v)
        \/ \E i \in Ino : MakeTemporary(p, i)
        \/ Stat(p) \/ Open(p) \/ Get(p)
        \/ Rewrite(p) \/ RewriteFails(p) \/ Rename(p)
        \/ Restat(p) \/ Reopen(p)
        \/ Crash(p)

Spec == Init /\ [][Next]_vars

-----------------------------------------------------------------------------
(* Properties *)

\* "Atomically replace the db": whatever a process was doing when it died,
\* and whoever else was writing, the file that has the name of the database,
\* and any file a process reads, is a whole one.
NeverPartial ==
    /\ name \in whole
    /\ \A p \in Proc : fd[p] # NoFile => fd[p] \in whole

\* "Close and reopen database after a change": the file a process is about to
\* read, to answer a get or to copy into the next one, had the name of the
\* database at some time since the process started to open it, although stat
\* and open are two calls and files come and go between them.
ReadsFresh ==
    \A p \in Proc : pc[p] = "use" => fd[p] \in seen[p]

\* A rewrite loses an update of another key only if that update was renamed
\* in after the rewriting process had opened the file it copies: nothing locks
\* the database between that open and the rename, and so this loses updates
\* of processes that write at the same time.  Every other update, whoever
\* made it and whoever died, is in the database until the next one of its key.
LostOnlyToOverlap == \A k \in DOMAIN want : files[name][k] = want[k]

-----------------------------------------------------------------------------
(* The inductive invariant *)

\* Where each call is: only writers rewrite, in a file nobody else refers to.
CallsOK ==
    \A p \in Proc :
        /\ pc[p] \in {"idle", "make", "restat", "reopen"} => tmpfd[p] = NoFile
        /\ pc[p] = "rename" => tmpfd[p] # NoFile
        /\ pc[p] = "use" => fd[p] # NoFile
        /\ pc[p] = "make" \/ tmpfd[p] # NoFile => op[p] # "get" /\ p \in Writer
        /\ pc[p] # "idle" /\ op[p] # "get" => p \in Writer

TemporariesApart ==
    \A p, q \in Proc :
        /\ tmpfd[p] # name
        /\ tmpfd[p] # NoFile => tmpfd[p] # fd[q] /\ (p # q => tmpfd[p] # tmpfd[q])

WholeToRename == \A p \in Proc : pc[p] = "rename" => tmpfd[p] \in whole

\* No number stat returned is, or will be, that of a temporary file: the file
\* that has the name again is the file that had it.
PastIsPast ==
    /\ {name} \cup {st[p] : p \in Proc} \cup {serial[p] : p \in Proc}
           \cup {tmpfd[p] : p \in Proc} \subseteq used \cup {NoFile}
    /\ \A p, q \in Proc : tmpfd[p] # NoFile => tmpfd[p] # st[q] /\ tmpfd[p] # serial[q]
    /\ \A p \in Proc : fd[p] # NoFile /\ serial[p] = name => fd[p] = name
    /\ \A p \in Proc : pc[p] \in {"stat", "open", "use"} => name \in seen[p]
    /\ ReadsFresh

\* The file a process reads has every update that was wanted when it opened
\* it; the file it makes has these too, and the new item.
CopiesHold ==
    /\ LostOnlyToOverlap
    /\ \A p \in Proc : \A k \in DOMAIN want \ since[p] :
          /\ pc[p] = "use" => files[fd[p]][k] = want[k]
          /\ pc[p] = "rename" /\ k # key[p] => files[tmpfd[p]][k] = want[k]
    /\ \A p \in Proc : pc[p] = "rename" => files[tmpfd[p]][key[p]] = val[p]

IInv ==
    /\ TypeOK /\ CallsOK /\ TemporariesApart
    /\ NeverPartial /\ WholeToRename
    /\ ~Reuse => PastIsPast /\ CopiesHold
=============================================================================
