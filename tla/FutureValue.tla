---------------------------- MODULE FutureValue ----------------------------
(***************************************************************************)
(* The value of a future, kernel/parallel.hpp (future::futureValue), set   *)
(* by some threads and read by others through copies of the future that    *)
(* share it.  One step per access that another thread can fall between.    *)
(*                                                                         *)
(* set is sLock sCheck (sFalse | sValue sUnlock sCast), get is             *)
(* gLock gCheck (gWait gCheck)* gRead: get only takes a reference to the   *)
(* value under the mutex, and copies the value after the unlock.           *)
(***************************************************************************)
CONSTANTS Holder,    \* the threads that hold a copy of the future
          Setter,    \* those that set it
          Getter,    \* those that read it
          Value,     \* the values they may set
          NoValue,   \* the content of a future never set
          NoResult,  \* no call has returned yet
          NoThread   \* owner of a free mutex

ASSUME FutureAssumption ==
    /\ Setter \subseteq Holder
    /\ Getter \subseteq Holder
    /\ NoValue \notin Value
    /\ NoValue \notin BOOLEAN
    /\ NoThread \notin Holder

VARIABLES hasValue, value,  \* the members of futureValue
          mutex,            \* owner of valueMutex
          waiting,          \* the threads blocked on valueCond
          at, arg,          \* where a thread is, and the value it sets
          result            \* what its last call returned

futureVars == <<hasValue, value, mutex, waiting, at, arg, result>>

SetPC == {"sLock", "sCheck", "sFalse", "sValue", "sUnlock", "sCast"}
GetPC == {"gLock", "gCheck", "gWait", "gRead"}

FutureTypeOK ==
    /\ hasValue \in BOOLEAN
    /\ value \in Value \cup {NoValue}
    /\ mutex \in Holder \cup {NoThread}
    /\ waiting \subseteq Holder
    /\ at \in [Holder -> {"idle"} \cup SetPC \cup GetPC]
    /\ arg \in [Holder -> Value \cup {NoValue}]
    /\ result \in [Holder -> Value \cup BOOLEAN \cup {NoResult}]

FutureInit ==
    /\ hasValue = FALSE
    /\ value = NoValue
    /\ mutex = NoThread
    /\ waiting = {}
    /\ at = [t \in Holder |-> "idle"]
    /\ arg = [t \in Holder |-> NoValue]
    /\ result = [t \in Holder |-> NoResult]

Moves(t, from, to) == at[t] = from /\ at' = [at EXCEPT ![t] = to]
Acquire(t) == mutex = NoThread /\ mutex' = t
Release == mutex' = NoThread
Answer(t, r) == result' = [result EXCEPT ![t] = r]

-----------------------------------------------------------------------------
(* set *)

CallSet(t, v) ==
    /\ Moves(t, "idle", "sLock")
    /\ arg' = [arg EXCEPT ![t] = v]
    /\ UNCHANGED <<hasValue, value, mutex, waiting, result>>

SetLock(t) ==
    /\ Moves(t, "sLock", "sCheck")
    /\ Acquire(t)
    /\ UNCHANGED <<hasValue, value, waiting, arg, result>>

\* Mutant: the value is overwritten.
SetAgain(t) ==
    /\ Moves(t, "sCheck", "sValue")
    /\ hasValue' = TRUE
    /\ UNCHANGED <<value, mutex, waiting, arg, result>>

SetFirst(t) ==
    /\ ~hasValue
    /\ Moves(t, "sCheck", "sValue")
    /\ hasValue' = TRUE
    /\ UNCHANGED <<value, mutex, waiting, arg, result>>

SetTooLate(t) ==
    /\ hasValue
    /\ Moves(t, "sCheck", "sFalse")
    /\ Release
    /\ UNCHANGED <<hasValue, value, waiting, arg, result>>

SetFalse(t) ==
    /\ Moves(t, "sFalse", "idle")
    /\ Answer(t, FALSE)
    /\ arg' = [arg EXCEPT ![t] = NoValue]
    /\ UNCHANGED <<hasValue, value, mutex, waiting>>

SetValue(t) ==
    /\ Moves(t, "sValue", "sUnlock")
    /\ value' = arg[t]
    /\ UNCHANGED <<hasValue, mutex, waiting, arg, result>>

SetUnlock(t) ==
    /\ Moves(t, "sUnlock", "sCast")
    /\ Release
    /\ UNCHANGED <<hasValue, value, waiting, arg, result>>

\* Mutant: pthread_cond_signal, one waiting thread only.
SetSignal(t) ==
    /\ Moves(t, "sCast", "idle")
    /\ IF waiting = {} THEN UNCHANGED waiting
       ELSE \E u \in waiting : waiting' = waiting \ {u}
    /\ Answer(t, TRUE)
    /\ arg' = [arg EXCEPT ![t] = NoValue]
    /\ UNCHANGED <<hasValue, value, mutex>>

SetBroadcast(t) ==
    /\ Moves(t, "sCast", "idle")
    /\ waiting' = {}
    /\ Answer(t, TRUE)
    /\ arg' = [arg EXCEPT ![t] = NoValue]
    /\ UNCHANGED <<hasValue, value, mutex>>

-----------------------------------------------------------------------------
(* get *)

CallGet(t) ==
    /\ Moves(t, "idle", "gLock")
    /\ UNCHANGED <<hasValue, value, mutex, waiting, arg, result>>

\* Mutant: get tests hasValue without the mutex.
GetNoLock(t) ==
    /\ hasValue
    /\ Moves(t, "gLock", "gRead")
    /\ UNCHANGED <<hasValue, value, mutex, waiting, arg, result>>

GetLock(t) ==
    /\ Moves(t, "gLock", "gCheck")
    /\ Acquire(t)
    /\ UNCHANGED <<hasValue, value, waiting, arg, result>>

GetWait(t) ==
    /\ ~hasValue
    /\ Moves(t, "gCheck", "gWait")
    /\ Release
    /\ waiting' = waiting \cup {t}
    /\ UNCHANGED <<hasValue, value, arg, result>>

GetWake(t) ==
    /\ t \notin waiting
    /\ Moves(t, "gWait", "gCheck")
    /\ Acquire(t)
    /\ UNCHANGED <<hasValue, value, waiting, arg, result>>

SpuriousWakeup(t) ==
    /\ t \in waiting
    /\ waiting' = waiting \ {t}
    /\ UNCHANGED <<hasValue, value, mutex, at, arg, result>>

GetUnlock(t) ==
    /\ hasValue
    /\ Moves(t, "gCheck", "gRead")
    /\ Release
    /\ UNCHANGED <<hasValue, value, waiting, arg, result>>

GetRead(t) ==
    /\ Moves(t, "gRead", "idle")
    /\ Answer(t, value)
    /\ UNCHANGED <<hasValue, value, mutex, waiting, arg>>

-----------------------------------------------------------------------------

SetGoesOn(t) ==
    \/ SetLock(t) \/ SetFirst(t) \/ SetTooLate(t) \/ SetFalse(t)
    \/ SetValue(t) \/ SetUnlock(t) \/ SetBroadcast(t)

GetGoesOn(t) ==
    \/ GetLock(t) \/ GetWait(t) \/ GetWake(t) \/ GetUnlock(t) \/ GetRead(t)

FutureNext ==
    \/ \E t \in Setter, v \in Value : CallSet(t, v)
    \/ \E t \in Getter : CallGet(t)
    \/ \E t \in Holder : SetGoesOn(t) \/ GetGoesOn(t) \/ SpuriousWakeup(t)

FutureSpec == FutureInit /\ [][FutureNext]_futureVars

\* Every thread that can run runs, and a thread that asks for the mutex
\* again and again gets it.
FutureFairness ==
    \A t \in Holder :
        /\ WF_futureVars(SetGoesOn(t) \/ GetGoesOn(t))
        /\ SF_futureVars(SetLock(t))
        /\ SF_futureVars(GetLock(t) \/ GetWake(t))

FutureFairSpec == FutureSpec /\ FutureFairness

-----------------------------------------------------------------------------
(* Properties *)

\* The threads whose set won and has not returned.
Owed == {t \in Holder : at[t] \in {"sUnlock", "sCast"}}

\* The future is a write-once value.  It is set when value is assigned,
\* after hasValue; exactly one call of set returns true; and no get returns
\* anything but the value set, although get reads it after it gave the mutex
\* back.
Known == INSTANCE WriteOnce WITH
             Thread <- Holder,
             content <- value,
             owed <- Owed
ImplementsWriteOnce == Known!WriteOnceSpec

\* Once a value is set every get returns: no reader sleeps through the
\* broadcast that follows the unlock.
GetReturns ==
    \A t \in Holder : hasValue /\ at[t] \in GetPC ~> at[t] \notin GetPC

-----------------------------------------------------------------------------
(* The inductive invariant behind ImplementsWriteOnce *)

\* The critical sections of set and get exclude each other.
MutexHeld ==
    \A t \in Holder :
        at[t] \in {"sCheck", "sValue", "sUnlock", "gCheck"} => mutex = t

\* hasValue runs ahead of value only inside the critical section of the one
\* set that won; the sets that lost and the gets that are through have seen
\* the value.
ValueKnown ==
    /\ hasValue <=> value # NoValue \/ \E t \in Holder : at[t] = "sValue"
    /\ \A t \in Holder :
          /\ at[t] \in SetPC => arg[t] \in Value
          /\ at[t] = "sValue" => value = NoValue
          /\ at[t] \in {"sUnlock", "sCast"} => value = arg[t]
          /\ at[t] \in {"sFalse", "gRead"} => value # NoValue
    /\ \A t, u \in Holder :
          at[t] \in {"sUnlock", "sCast"} /\ at[u] \in {"sUnlock", "sCast"}
              => t = u

FutureInv == FutureTypeOK /\ MutexHeld /\ ValueKnown
=============================================================================
