---------------------------- MODULE MCDataCache ----------------------------
(* Small instances of DataCacheReads. *)
EXTENDS DataCacheReads, TLC

CONSTANTS r1, r2, k1

Requests == {r1, r2}
OneKey == {k1}
AllOps == {"get", "post", "put", "patch", "delete"}

Symmetry == Permutations({r1, r2})

\* What the steps to come depend on: the fields of an idle request are those
\* of its last call, and once the cache is not calm nothing looks at the
\* history.
Live ==
    <<level1, master, log, replica, next, calm,
      [c \in Client |->
          IF pc[c] = "idle" THEN << >>
          ELSE <<pc[c], op[c], key[c], val[c]>>],
      [k \in Key |-> IF calm[k] THEN latest[k] ELSE {}],
      [c \in Client |->
          IF ~calm[key[c]] THEN {}
          ELSE IF c \in Updating THEN <<expect[c], replaces[c]>>
          ELSE IF c \in Reading THEN allowed[c] ELSE {}]>>
=============================================================================
