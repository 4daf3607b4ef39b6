----------------------------- MODULE WriteOnce -----------------------------
(***************************************************************************)
(* What a future of kernel/parallel.hpp promises: a value that is set      *)
(* once.  The first set wins, the later ones are told so, and a get hands  *)
(* out the value only once it is set.                                      *)
(***************************************************************************)
CONSTANTS Thread, Value,
          NoValue,   \* the content before the first set
          NoResult   \* no call has returned yet

VARIABLES content,   \* the value, NoValue while it is not known
          owed,      \* the thread whose set won and has not returned yet
          result     \* result[t]: what the last call of t returned

writeOnceVars == <<content, owed, result>>

WriteOnceInit ==
    /\ content = NoValue
    /\ owed = {}
    /\ result = [t \in Thread |-> NoResult]

FirstSet(t, v) ==
    /\ content = NoValue
    /\ content' = v
    /\ owed' = {t}
    /\ UNCHANGED result

SetWon(t) ==
    /\ t \in owed
    /\ owed' = {}
    /\ result' = [result EXCEPT ![t] = TRUE]
    /\ UNCHANGED content

SetLost(t) ==
    /\ content # NoValue
    /\ t \notin owed
    /\ result' = [result EXCEPT ![t] = FALSE]
    /\ UNCHANGED <<content, owed>>

GetReturn(t) ==
    /\ content # NoValue
    /\ result' = [result EXCEPT ![t] = content]
    /\ UNCHANGED <<content, owed>>

WriteOnceNext ==
    \E t \in Thread :
        \/ \E v \in Value : FirstSet(t, v)
        \/ SetWon(t) \/ SetLost(t) \/ GetReturn(t)

WriteOnceSpec == WriteOnceInit /\ [][WriteOnceNext]_writeOnceVars
=============================================================================
