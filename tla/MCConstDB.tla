----------------------------- MODULE MCConstDB -----------------------------
(* Small instances of ConstDB. *)
EXTENDS ConstDB, TLC

CONSTANTS p1, p2, k1, k2, i1, i2, i3, i4

Two == {p1, p2}
Keys == {k1, k2}
Inodes4 == {i1, i2, i3, i4}
Symmetry4 == Permutations(Two) \cup Permutations(Keys) \cup Permutations(Inodes4)

\* What a process does next: the fields no step reads before it sets them do
\* not count.  Inode numbers are not given out again here, and so neither does
\* what a file holds that has no name but a lost temporary one, nor who has it
\* open still.
Kept == {name} \cup {fd[p] : p \in Proc} \cup {tmpfd[p] : p \in Proc}

Live ==
    <<name, used, want, handle,
      [i \in Kept \ {NoFile} |-> <<files[i], i \in whole>>],
      [p \in Proc |->
          <<pc[p], tmpfd[p],
            IF pc[p] = "idle" THEN << >> ELSE <<op[p], key[p], val[p]>>,
            IF pc[p] \in {"open", "reopen"} THEN st[p] ELSE NoFile,
            IF pc[p] \in {"stat", "open", "use"} THEN seen[p] ELSE {},
            IF pc[p] \in {"use", "rename"} THEN since[p] ELSE {}>>]>>
=============================================================================
