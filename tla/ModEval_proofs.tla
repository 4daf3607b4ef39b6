--------------------------- MODULE ModEval_proofs ---------------------------
(* Theorems about ModEval, for any components, processes and requests. *)
EXTENDS ModEval, TLAPS

\* The table that startComponents returns is that of all the components.
LEMMA StartedAll ==
    ASSUME NEW order \in Seq(Main \cup Virtual), NEW n \in Nat, n > Len(order)
    PROVE  StartedUpTo(order, n) = Startable(order)
BY DEF StartedUpTo, Startable

\* One more component.
LEMMA StartedOneMore ==
    ASSUME NEW order \in Seq(Main \cup Virtual), NEW n \in DOMAIN order
    PROVE  StartedUpTo(order, n + 1) =
               StartedUpTo(order, n) \cup (IF Starts(order[n]) THEN {order[n]} ELSE {})
BY DEF StartedUpTo

LEMMA StartedNone ==
    ASSUME NEW order \in Seq(Main \cup Virtual)
    PROVE  StartedUpTo(order, 1) = {}
BY DEF StartedUpTo

\* A component of the list is reached through a table that has all those with
\* a start function, all of them running.
LEMMA TableReaches ==
    ASSUME NEW order, NEW running, NEW i \in DOMAIN order,
           kind[order[i]] \in {"plain", "service", "managed", "broken"},
           Startable(order) \subseteq running
    PROVE  Call(order[i], Startable(order), running) \in Reached
BY DEF Startable, Starts, Call, Reached

LEMMA CallOutcome ==
    ASSUME NEW c, NEW started, NEW running,
           kind[c] \in {"plain", "service", "managed", "broken"}
    PROVE  Call(c, started, running) \in Outcome
BY DEF Call, Starts, Outcome

LEMMA OrdersAreSequences ==
    /\ MainOrder \in Seq(Main \cup Virtual)
    /\ VirtualOrder \in Seq(Main \cup Virtual)
BY ModEvalAssumption

LEMMA InitIInv == Init => IInv
BY ModEvalAssumption DEF Init, IInv, TypeOK, Collected, Complete, Placed, VCollected, VComplete, VStopped, RequestsReach, RelaysReach, Reached, Outcome

LEMMA ChildInitStep ==
    ASSUME IInv, NEW p \in Child, ChildInit(p)
    PROVE  IInv'
  <1> USE ModEvalAssumption DEF IInv, ChildInit, processVars, requestVars, threadVars
  <1>1. TypeOK'
    BY DEF TypeOK, Outcome
  <1>2. \A q \in Child : Collected(q)' /\ Complete(q)'
    BY DEF TypeOK, Collected, Complete, StartedUpTo, Startable, Starts, Placed, Handled
  <1>3. \A s \in Request : Placed(s)'
    BY DEF TypeOK, Placed, Handled
  <1>4. \A s \in Request : VCollected(s)' /\ VComplete(s)' /\ VStopped(s)'
    BY DEF TypeOK, VCollected, VComplete, VStopped, StartedUpTo, Startable, Starts
  <1>5. RequestsReach' /\ RelaysReach'
    BY DEF TypeOK, RequestsReach, RelaysReach, Reached
  <1> QED
    BY <1>1, <1>2, <1>3, <1>4, <1>5

LEMMA StartNextStep ==
    ASSUME IInv, NEW p \in Child, StartNext(p)
    PROVE  IInv'
  <1> USE ModEvalAssumption DEF IInv, StartNext, processVars, requestVars, threadVars
  <1>1. TypeOK'
    BY DEF TypeOK, Outcome
  <1>2. \A q \in Child : Collected(q)' /\ Complete(q)'
    BY DEF TypeOK, Collected, Complete, StartedUpTo, Startable, Starts, Placed, Handled
  <1>3. \A s \in Request : Placed(s)'
    BY DEF TypeOK, Placed, Handled
  <1>4. \A s \in Request : VCollected(s)' /\ VComplete(s)' /\ VStopped(s)'
    BY DEF TypeOK, VCollected, VComplete, VStopped, StartedUpTo, Startable, Starts
  <1>5. RequestsReach' /\ RelaysReach'
    BY DEF TypeOK, RequestsReach, RelaysReach, Reached
  <1> QED
    BY <1>1, <1>2, <1>3, <1>4, <1>5

LEMMA StartedStep ==
    ASSUME IInv, NEW p \in Child, Started(p)
    PROVE  IInv'
  <1> USE ModEvalAssumption DEF IInv, Started, processVars, requestVars, threadVars
  <1>1. TypeOK'
    BY DEF TypeOK, Outcome
  <1>2. \A q \in Child : Collected(q)' /\ Complete(q)'
    BY DEF TypeOK, Collected, Complete, StartedUpTo, Startable, Starts, Placed, Handled
  <1>3. \A s \in Request : Placed(s)'
    BY DEF TypeOK, Placed, Handled
  <1>4. \A s \in Request : VCollected(s)' /\ VComplete(s)' /\ VStopped(s)'
    BY DEF TypeOK, VCollected, VComplete, VStopped, StartedUpTo, Startable, Starts
  <1>5. RequestsReach' /\ RelaysReach'
    BY DEF TypeOK, RequestsReach, RelaysReach, Reached
  <1> QED
    BY <1>1, <1>2, <1>3, <1>4, <1>5

LEMMA ServerCleanupStep ==
    ASSUME IInv, NEW p \in Child, ServerCleanup(p)
    PROVE  IInv'
  <1> USE ModEvalAssumption DEF IInv, ServerCleanup, processVars, requestVars, threadVars
  <1>1. TypeOK'
    BY DEF TypeOK, Outcome
  <1>2. \A q \in Child : Collected(q)' /\ Complete(q)'
    BY DEF TypeOK, Collected, Complete, StartedUpTo, Startable, Starts, Placed, Handled
  <1>3. \A s \in Request : Placed(s)'
    BY DEF TypeOK, Placed, Handled
  <1>4. \A s \in Request : VCollected(s)' /\ VComplete(s)' /\ VStopped(s)'
    BY DEF TypeOK, VCollected, VComplete, VStopped, StartedUpTo, Startable, Starts
  <1>5. RequestsReach' /\ RelaysReach'
    BY DEF TypeOK, RequestsReach, RelaysReach, Reached
  <1> QED
    BY <1>1, <1>2, <1>3, <1>4, <1>5

LEMMA StopNextStep ==
    ASSUME IInv, NEW p \in Child, StopNext(p)
    PROVE  IInv'
  <1> USE ModEvalAssumption DEF IInv, StopNext, processVars, requestVars, threadVars
  <1>1. TypeOK'
    BY DEF TypeOK, Outcome
  <1>2. \A q \in Child : Collected(q)' /\ Complete(q)'
    BY DEF TypeOK, Collected, Complete, StartedUpTo, Startable, Starts, Placed, Handled
  <1>3. \A s \in Request : Placed(s)'
    BY DEF TypeOK, Placed, Handled
  <1>4. \A s \in Request : VCollected(s)' /\ VComplete(s)' /\ VStopped(s)'
    BY DEF TypeOK, VCollected, VComplete, VStopped, StartedUpTo, Startable, Starts
  <1>5. RequestsReach' /\ RelaysReach'
    BY DEF TypeOK, RequestsReach, RelaysReach, Reached
  <1> QED
    BY <1>1, <1>2, <1>3, <1>4, <1>5

LEMMA ChildExitStep ==
    ASSUME IInv, NEW p \in Child, ChildExit(p)
    PROVE  IInv'
  <1> USE ModEvalAssumption DEF IInv, ChildExit, processVars, requestVars, threadVars
  <1>1. TypeOK'
    BY DEF TypeOK, Outcome
  <1>2. \A q \in Child : Collected(q)' /\ Complete(q)'
    BY DEF TypeOK, Collected, Complete, StartedUpTo, Startable, Starts, Placed, Handled
  <1>3. \A s \in Request : Placed(s)'
    BY DEF TypeOK, Placed, Handled
  <1>4. \A s \in Request : VCollected(s)' /\ VComplete(s)' /\ VStopped(s)'
    BY DEF TypeOK, VCollected, VComplete, VStopped, StartedUpTo, Startable, Starts
  <1>5. RequestsReach' /\ RelaysReach'
    BY DEF TypeOK, RequestsReach, RelaysReach, Reached
  <1> QED
    BY <1>1, <1>2, <1>3, <1>4, <1>5

LEMMA RelayStep ==
    ASSUME IInv, NEW p \in Child, NEW from \in Main, NEW c \in Main, Relay(p, from, c)
    PROVE  IInv'
  <1> USE ModEvalAssumption DEF IInv, Relay, processVars, requestVars, threadVars
  <1>1. TypeOK'
    <2>1. Call(c, table[p], live[p]) \in Outcome
      <3>1. kind[c] \in {"plain", "service", "managed", "broken"}
        BY DEF TypeOK
      <3> QED
        BY <3>1, CallOutcome
    <2> QED
      BY <2>1 DEF TypeOK
  <1>2. \A q \in Child : Collected(q)' /\ Complete(q)'
    BY DEF TypeOK, Collected, Complete, StartedUpTo, Startable, Starts, Placed, Handled
  <1>3. \A s \in Request : Placed(s)'
    BY DEF TypeOK, Placed, Handled
  <1>4. \A s \in Request : VCollected(s)' /\ VComplete(s)' /\ VStopped(s)'
    BY DEF TypeOK, VCollected, VComplete, VStopped, StartedUpTo, Startable, Starts
  <1>5. RequestsReach' /\ RelaysReach'
    <2>1. child[p] = "up" => Call(c, table[p], live[p]) \in Reached
      <3>1. PICK i \in DOMAIN MainOrder : c = MainOrder[i]
        BY DEF Main
      <3>2. kind[MainOrder[i]] \in {"plain", "service", "managed", "broken"}
        BY <3>1 DEF TypeOK
      <3> QED
        BY <3>1, <3>2, TableReaches DEF Complete, Placed
    <2> QED
      BY <2>1 DEF TypeOK, RequestsReach, RelaysReach
  <1> QED
    BY <1>1, <1>2, <1>3, <1>4, <1>5

LEMMA ReceiveStep ==
    ASSUME IInv, NEW r \in Request, NEW p \in Child, Receive(r, p)
    PROVE  IInv'
  <1> USE ModEvalAssumption DEF IInv, Receive, processVars, requestVars, threadVars
  <1>1. TypeOK'
    BY DEF TypeOK, Outcome
  <1>2. \A q \in Child : Collected(q)' /\ Complete(q)'
    BY DEF TypeOK, Collected, Complete, StartedUpTo, Startable, Starts, Placed, Handled
  <1>3. \A s \in Request : Placed(s)'
    BY DEF TypeOK, Placed, Handled
  <1>4. \A s \in Request : VCollected(s)' /\ VComplete(s)' /\ VStopped(s)'
    BY DEF TypeOK, VCollected, VComplete, VStopped, StartedUpTo, Startable, Starts
  <1>5. RequestsReach' /\ RelaysReach'
    BY DEF TypeOK, RequestsReach, RelaysReach, Reached
  <1> QED
    BY <1>1, <1>2, <1>3, <1>4, <1>5

LEMMA ReceiveVirtualStep ==
    ASSUME IInv, NEW r \in Request, NEW p \in Child, ReceiveVirtual(r, p)
    PROVE  IInv'
  <1> USE ModEvalAssumption DEF IInv, ReceiveVirtual, processVars, requestVars, threadVars
  <1>1. TypeOK'
    BY DEF TypeOK, Outcome
  <1>2. \A q \in Child : Collected(q)' /\ Complete(q)'
    BY DEF TypeOK, Collected, Complete, StartedUpTo, Startable, Starts, Placed, Handled
  <1>3. \A s \in Request : Placed(s)'
    BY DEF TypeOK, Placed, Handled
  <1>4. \A s \in Request : VCollected(s)' /\ VComplete(s)' /\ VStopped(s)'
    <2>1. ASSUME NEW s \in Request, s # r
          PROVE  VCollected(s)' /\ VComplete(s)' /\ VStopped(s)'
      BY <2>1 DEF TypeOK, VCollected, VComplete, VStopped, StartedUpTo, Startable, Starts
    <2>2. vmade[r] = {} /\ vmade' = vmade /\ vlive' = vlive
      BY DEF Placed
    <2>3. StartedUpTo(VirtualOrder, 1)' = {}
      BY StartedNone, OrdersAreSequences DEF StartedUpTo, Starts
    <2>4. VCollected(r)'
      BY <2>2, <2>3 DEF TypeOK, VCollected
    <2> QED
      BY <2>1, <2>4 DEF TypeOK, VComplete, VStopped
  <1>5. RequestsReach' /\ RelaysReach'
    BY DEF TypeOK, RequestsReach, RelaysReach, Reached
  <1> QED
    BY <1>1, <1>2, <1>3, <1>4, <1>5

LEMMA VStartNextStep ==
    ASSUME IInv, NEW r \in Request, VStartNext(r)
    PROVE  IInv'
  <1> USE ModEvalAssumption DEF IInv, VStartNext, processVars, requestVars, threadVars
  <1>1. TypeOK'
    BY DEF TypeOK, Outcome
  <1>2. \A q \in Child : Collected(q)' /\ Complete(q)'
    BY DEF TypeOK, Collected, Complete, StartedUpTo, Startable, Starts, Placed, Handled
  <1>3. \A s \in Request : Placed(s)'
    BY DEF TypeOK, Placed, Handled
  <1>4. \A s \in Request : VCollected(s)' /\ VComplete(s)' /\ VStopped(s)'
    BY DEF TypeOK, VCollected, VComplete, VStopped, StartedUpTo, Startable, Starts
  <1>5. RequestsReach' /\ RelaysReach'
    BY DEF TypeOK, RequestsReach, RelaysReach, Reached
  <1> QED
    BY <1>1, <1>2, <1>3, <1>4, <1>5

LEMMA VStartedStep ==
    ASSUME IInv, NEW r \in Request, VStarted(r)
    PROVE  IInv'
  <1> USE ModEvalAssumption DEF IInv, VStarted, processVars, requestVars, threadVars
  <1>1. TypeOK'
    BY DEF TypeOK, Outcome
  <1>2. \A q \in Child : Collected(q)' /\ Complete(q)'
    BY DEF TypeOK, Collected, Complete, StartedUpTo, Startable, Starts, Placed, Handled
  <1>3. \A s \in Request : Placed(s)'
    BY DEF TypeOK, Placed, Handled
  <1>4. \A s \in Request : VCollected(s)' /\ VComplete(s)' /\ VStopped(s)'
    BY DEF TypeOK, VCollected, VComplete, VStopped, StartedUpTo, Startable, Starts
  <1>5. RequestsReach' /\ RelaysReach'
    BY DEF TypeOK, RequestsReach, RelaysReach, Reached
  <1> QED
    BY <1>1, <1>2, <1>3, <1>4, <1>5

LEMMA VStopStep ==
    ASSUME IInv, NEW r \in Request, VStop(r)
    PROVE  IInv'
  <1> USE ModEvalAssumption DEF IInv, VStop, processVars, requestVars, threadVars
  <1>1. TypeOK'
    BY DEF TypeOK, Outcome
  <1>2. \A q \in Child : Collected(q)' /\ Complete(q)'
    BY DEF TypeOK, Collected, Complete, StartedUpTo, Startable, Starts, Placed, Handled
  <1>3. \A s \in Request : Placed(s)'
    BY DEF TypeOK, Placed, Handled
  <1>4. \A s \in Request : VCollected(s)' /\ VComplete(s)' /\ VStopped(s)'
    BY DEF TypeOK, VCollected, VComplete, VStopped, StartedUpTo, Startable, Starts
  <1>5. RequestsReach' /\ RelaysReach'
    BY DEF TypeOK, RequestsReach, RelaysReach, Reached
  <1> QED
    BY <1>1, <1>2, <1>3, <1>4, <1>5

LEMMA VStopNextStep ==
    ASSUME IInv, NEW r \in Request, VStopNext(r)
    PROVE  IInv'
  <1> USE ModEvalAssumption DEF IInv, VStopNext, processVars, requestVars, threadVars
  <1>1. TypeOK'
    BY DEF TypeOK, Outcome
  <1>2. \A q \in Child : Collected(q)' /\ Complete(q)'
    BY DEF TypeOK, Collected, Complete, StartedUpTo, Startable, Starts, Placed, Handled
  <1>3. \A s \in Request : Placed(s)'
    BY DEF TypeOK, Placed, Handled
  <1>4. \A s \in Request : VCollected(s)' /\ VComplete(s)' /\ VStopped(s)'
    <2>1. \A s \in Request : VCollected(s)' /\ VComplete(s)'
      BY DEF TypeOK, VCollected, VComplete, StartedUpTo, Startable, Starts
    <2>2. ASSUME NEW s \in Request, s # r
          PROVE  VStopped(s)'
      BY <2>2 DEF TypeOK, VStopped
    <2>3. VStopped(r)'
      <3>1. vpos'[r] = vpos[r] + 1 /\ vlive'[r] = vlive[r] \ {VStopAt(r)}
        BY DEF TypeOK
      <3>2. SUFFICES ASSUME NEW i \in DOMAIN VirtualOrder, i < vpos[r] + 1
                     PROVE  VirtualOrder[i] \notin vlive'[r]
        BY <3>1 DEF VStopped
      <3>3. CASE i = vpos[r]
        BY <3>1, <3>3 DEF VStopAt
      <3>4. CASE i < vpos[r]
        BY <3>1, <3>4 DEF VStopped
      <3> QED
        BY <3>2, <3>3, <3>4 DEF TypeOK
    <2> QED
      BY <2>1, <2>2, <2>3
  <1>5. RequestsReach' /\ RelaysReach'
    BY DEF TypeOK, RequestsReach, RelaysReach, Reached
  <1> QED
    BY <1>1, <1>2, <1>3, <1>4, <1>5

LEMMA VStartFailsStep ==
    ASSUME IInv, NEW r \in Request, VStartFails(r)
    PROVE  IInv'
  <1> USE ModEvalAssumption DEF IInv, VStartFails, processVars, requestVars, threadVars, Return
  <1>1. TypeOK'
    BY DEF TypeOK, Outcome
  <1>2. \A q \in Child : Collected(q)' /\ Complete(q)'
    BY DEF TypeOK, Collected, Complete, StartedUpTo, Startable, Starts, Placed, Handled
  <1>3. \A s \in Request : Placed(s)'
    BY DEF TypeOK, Placed, Handled
  <1>4. \A s \in Request : VCollected(s)' /\ VComplete(s)' /\ VStopped(s)'
    BY DEF TypeOK, VCollected, VComplete, VStopped, StartedUpTo, Startable, Starts
  <1>5. RequestsReach' /\ RelaysReach'
    BY DEF TypeOK, RequestsReach, RelaysReach, Reached
  <1> QED
    BY <1>1, <1>2, <1>3, <1>4, <1>5

LEMMA MainReturnsStep ==
    ASSUME IInv, NEW r \in Request, MainReturns(r)
    PROVE  IInv'
  <1> USE ModEvalAssumption DEF IInv, MainReturns, processVars, requestVars, threadVars, Return
  <1>1. TypeOK'
    BY DEF TypeOK, Outcome
  <1>2. \A q \in Child : Collected(q)' /\ Complete(q)'
    BY DEF TypeOK, Collected, Complete, StartedUpTo, Startable, Starts, Placed, Handled
  <1>3. \A s \in Request : Placed(s)'
    BY DEF TypeOK, Placed, Handled
  <1>4. \A s \in Request : VCollected(s)' /\ VComplete(s)' /\ VStopped(s)'
    BY DEF TypeOK, VCollected, VComplete, VStopped, StartedUpTo, Startable, Starts
  <1>5. RequestsReach' /\ RelaysReach'
    BY DEF TypeOK, RequestsReach, RelaysReach, Reached
  <1> QED
    BY <1>1, <1>2, <1>3, <1>4, <1>5

LEMMA VirtualReturnsStep ==
    ASSUME IInv, NEW r \in Request, VirtualReturns(r)
    PROVE  IInv'
  <1> USE ModEvalAssumption DEF IInv, VirtualReturns, processVars, requestVars, threadVars, Return
  <1>1. TypeOK'
    BY DEF TypeOK, Outcome
  <1>2. \A q \in Child : Collected(q)' /\ Complete(q)'
    BY DEF TypeOK, Collected, Complete, StartedUpTo, Startable, Starts, Placed, Handled
  <1>3. \A s \in Request : Placed(s)'
    BY DEF TypeOK, Placed, Handled
  <1>4. \A s \in Request : VCollected(s)' /\ VComplete(s)' /\ VStopped(s)'
    BY DEF TypeOK, VCollected, VComplete, VStopped, StartedUpTo, Startable, Starts
  <1>5. RequestsReach' /\ RelaysReach'
    BY DEF TypeOK, RequestsReach, RelaysReach, Reached
  <1> QED
    BY <1>1, <1>2, <1>3, <1>4, <1>5

LEMMA CallMainStep ==
    ASSUME IInv, NEW r \in Request, NEW c \in Main, CallMain(r, c)
    PROVE  IInv'
  <1> USE ModEvalAssumption DEF IInv, CallMain, processVars, requestVars, threadVars
  <1>1. TypeOK'
    <2>1. Call(c, table[at[r]], live[at[r]]) \in Outcome
      <3>1. kind[c] \in {"plain", "service", "managed", "broken"}
        BY DEF TypeOK
      <3> QED
        BY <3>1, CallOutcome
    <2> QED
      BY <2>1 DEF TypeOK
  <1>2. \A q \in Child : Collected(q)' /\ Complete(q)'
    BY DEF TypeOK, Collected, Complete, StartedUpTo, Startable, Starts, Placed, Handled
  <1>3. \A s \in Request : Placed(s)'
    BY DEF TypeOK, Placed, Handled
  <1>4. \A s \in Request : VCollected(s)' /\ VComplete(s)' /\ VStopped(s)'
    BY DEF TypeOK, VCollected, VComplete, VStopped, StartedUpTo, Startable, Starts
  <1>5. RequestsReach' /\ RelaysReach'
    <2>1. Call(c, table[at[r]], live[at[r]]) \in Reached
      <3>1. PICK i \in DOMAIN MainOrder : c = MainOrder[i]
        BY DEF Main
      <3>2. kind[MainOrder[i]] \in {"plain", "service", "managed", "broken"}
        BY <3>1 DEF TypeOK
      <3> QED
        BY <3>1, <3>2, TableReaches DEF Complete, Placed
    <2> QED
      BY <2>1 DEF TypeOK, RequestsReach, RelaysReach
  <1> QED
    BY <1>1, <1>2, <1>3, <1>4, <1>5

LEMMA CallVirtualStep ==
    ASSUME IInv, NEW r \in Request, NEW c \in Virtual, CallVirtual(r, c)
    PROVE  IInv'
  <1> USE ModEvalAssumption DEF IInv, CallVirtual, processVars, requestVars, threadVars
  <1>1. TypeOK'
    <2>1. Call(c, vtable[r], vlive[r]) \in Outcome
      <3>1. kind[c] \in {"plain", "service", "managed", "broken"}
        BY DEF TypeOK
      <3> QED
        BY <3>1, CallOutcome
    <2> QED
      BY <2>1 DEF TypeOK
  <1>2. \A q \in Child : Collected(q)' /\ Complete(q)'
    BY DEF TypeOK, Collected, Complete, StartedUpTo, Startable, Starts, Placed, Handled
  <1>3. \A s \in Request : Placed(s)'
    BY DEF TypeOK, Placed, Handled
  <1>4. \A s \in Request : VCollected(s)' /\ VComplete(s)' /\ VStopped(s)'
    BY DEF TypeOK, VCollected, VComplete, VStopped, StartedUpTo, Startable, Starts
  <1>5. RequestsReach' /\ RelaysReach'
    <2>1. Call(c, vtable[r], vlive[r]) \in Reached
      <3>1. PICK i \in DOMAIN VirtualOrder : c = VirtualOrder[i]
        BY DEF Virtual
      <3>2. kind[VirtualOrder[i]] \in {"plain", "service", "managed", "broken"}
        BY <3>1 DEF TypeOK
      <3> QED
        BY <3>1, <3>2, TableReaches DEF VComplete
    <2> QED
      BY <2>1 DEF TypeOK, RequestsReach, RelaysReach
  <1> QED
    BY <1>1, <1>2, <1>3, <1>4, <1>5

\* A component of the main host or of the virtual host, through the table of
\* a request.
LEMMA VCallOutcome ==
    ASSUME IInv, NEW r \in Request, NEW c \in Main \cup Virtual
    PROVE  VCall(r, c) \in Outcome
  <1>1. kind[c] \in {"plain", "service", "managed", "broken"}
    BY ModEvalAssumption DEF IInv, TypeOK
  <1> QED
    BY <1>1, CallOutcome DEF VCall, Outcome

LEMMA VRelayStep ==
    ASSUME IInv, NEW r \in Request, NEW from \in Virtual, NEW c \in Main \cup Virtual,
           VRelay(r, from, c)
    PROVE  IInv'
  <1> USE ModEvalAssumption DEF IInv, VRelay, processVars, requestVars
  <1>1. TypeOK'
    BY VCallOutcome DEF TypeOK
  <1>2. \A q \in Child : Collected(q)' /\ Complete(q)'
    BY DEF TypeOK, Collected, Complete, StartedUpTo, Startable, Starts
  <1>3. \A s \in Request : Placed(s)'
    BY DEF TypeOK, Placed
  <1>4. \A s \in Request : VCollected(s)' /\ VComplete(s)' /\ VStopped(s)'
    BY DEF TypeOK, VCollected, VComplete, VStopped, StartedUpTo, Startable, Starts
  <1>5. RequestsReach' /\ RelaysReach'
    <2>1. ASSUME req[r] = "virtual"
          PROVE  VCall(r, c) \in Reached
      <3>1. kind[c] \in {"plain", "service", "managed", "broken"}
        BY DEF TypeOK
      <3>2. CASE c \in Virtual
        <4>1. PICK i \in DOMAIN VirtualOrder : c = VirtualOrder[i]
          BY <3>2 DEF Virtual
        <4> QED
          BY <2>1, <3>1, <3>2, <4>1, TableReaches DEF VComplete, VCall
      <3>3. CASE c \notin Virtual
        <4>1. PICK i \in DOMAIN MainOrder : c = MainOrder[i]
          BY <3>3 DEF Main
        <4> QED
          BY <2>1, <3>1, <3>3, <4>1, TableReaches DEF Complete, Placed, VCall
      <3> QED
        BY <3>2, <3>3
    <2> QED
      BY <2>1 DEF TypeOK, RequestsReach, RelaysReach
  <1> QED
    BY <1>1, <1>2, <1>3, <1>4, <1>5

LEMMA StrayStep ==
    ASSUME IInv, NEW p \in Child, NEW from \in Virtual, Stray(p, from)
    PROVE  IInv'
  <1> USE ModEvalAssumption DEF IInv, Stray, processVars, requestVars
  <1>1. TypeOK'
    BY DEF TypeOK
  <1>2. \A q \in Child : Collected(q)' /\ Complete(q)'
    BY DEF TypeOK, Collected, Complete, StartedUpTo, Startable, Starts
  <1>3. \A s \in Request : Placed(s)'
    BY DEF TypeOK, Placed
  <1>4. \A s \in Request : VCollected(s)' /\ VComplete(s)' /\ VStopped(s)'
    BY DEF TypeOK, VCollected, VComplete, VStopped, StartedUpTo, Startable, Starts
  <1>5. RequestsReach' /\ RelaysReach'
    BY DEF TypeOK, RequestsReach, RelaysReach
  <1> QED
    BY <1>1, <1>2, <1>3, <1>4, <1>5

LEMMA PostConfigStep ==
    ASSUME IInv, PostConfig
    PROVE  IInv'
  <1> USE ModEvalAssumption DEF IInv, PostConfig, processVars, requestVars, threadVars
  <1>1. TypeOK'
    BY DEF TypeOK, Outcome
  <1>2. \A q \in Child : Collected(q)' /\ Complete(q)'
    BY DEF TypeOK, Collected, Complete, StartedUpTo, Startable, Starts, Placed, Handled
  <1>3. \A s \in Request : Placed(s)'
    BY DEF TypeOK, Placed, Handled
  <1>4. \A s \in Request : VCollected(s)' /\ VComplete(s)' /\ VStopped(s)'
    BY DEF TypeOK, VCollected, VComplete, VStopped, StartedUpTo, Startable, Starts
  <1>5. RequestsReach' /\ RelaysReach'
    BY DEF TypeOK, RequestsReach, RelaysReach, Reached
  <1> QED
    BY <1>1, <1>2, <1>3, <1>4, <1>5

-----------------------------------------------------------------------------
(* Theorems *)

LEMMA NextIInv == IInv /\ [Next]_vars => IInv'
  <1> SUFFICES ASSUME IInv, [Next]_vars PROVE IInv'
    OBVIOUS
  <1>1. CASE PostConfig
    BY <1>1, PostConfigStep
  <1>2. ASSUME NEW p \in Child,
               \/ ChildInit(p) \/ StartNext(p) \/ Started(p)
               \/ \E from, c \in Main : Relay(p, from, c)
               \/ \E from \in Virtual : Stray(p, from)
               \/ ServerCleanup(p) \/ StopNext(p) \/ ChildExit(p)
        PROVE  IInv'
    BY <1>2, ChildInitStep, StartNextStep, StartedStep, RelayStep, StrayStep,
       ServerCleanupStep, StopNextStep, ChildExitStep
  <1>3. ASSUME NEW r \in Request,
               \/ \E p \in Child : Receive(r, p) \/ ReceiveVirtual(r, p)
               \/ VStartNext(r) \/ VStartFails(r) \/ VStarted(r)
               \/ \E c \in Main : CallMain(r, c)
               \/ \E c \in Virtual : CallVirtual(r, c)
               \/ \E from \in Virtual, c \in Main \cup Virtual : VRelay(r, from, c)
               \/ MainReturns(r) \/ VStop(r) \/ VStopNext(r) \/ VirtualReturns(r)
        PROVE  IInv'
    BY <1>3, ReceiveStep, ReceiveVirtualStep, VStartNextStep, VStartFailsStep,
       VStartedStep, CallMainStep, CallVirtualStep, MainReturnsStep, VStopStep,
       VStopNextStep, VirtualReturnsStep, VRelayStep
  <1>4. CASE UNCHANGED vars
    <2>1. TypeOK'
      BY <1>4 DEF vars, processVars, requestVars, threadVars, IInv, TypeOK
    <2>2. \A p \in Child : Collected(p)' /\ Complete(p)'
      BY <1>4 DEF vars, processVars, IInv, Collected, Complete, StartedUpTo, Startable, Starts
    <2>3. \A r \in Request : Placed(r)' /\ VCollected(r)' /\ VComplete(r)' /\ VStopped(r)'
      BY <1>4 DEF vars, processVars, requestVars, IInv, Placed, VCollected,
                  VComplete, VStopped, StartedUpTo, Startable, Starts
    <2>4. RequestsReach' /\ RelaysReach'
      BY <1>4 DEF vars, processVars, requestVars, threadVars, IInv, RequestsReach, RelaysReach
    <2> QED
      BY <2>1, <2>2, <2>3, <2>4 DEF IInv
  <1> QED
    BY <1>1, <1>2, <1>3, <1>4 DEF Next

\* The strengthening of RequestsReach and RelaysReach is an invariant.
THEOREM ModEvalInvariant == Spec => []IInv
  <1>1. Init => IInv
    BY InitIInv
  <1>2. IInv /\ [Next]_vars => IInv'
    BY NextIInv
  <1> QED
    BY <1>1, <1>2, PTL DEF Spec

\* No request calls a component of the main host or of its virtual host that
\* has not started or that was stopped.
THEOREM RequestsReachStarted == Spec => []RequestsReach
  <1>1. IInv => RequestsReach
    BY DEF IInv
  <1> QED
    BY <1>1, ModEvalInvariant, PTL

\* Nor does a thread of a component: one of the main host in a process that
\* is up, one of a virtual host while its request is handled.
THEOREM RelaysReachStarted == Spec => []RelaysReach
  <1>1. IInv => RelaysReach
    BY DEF IInv
  <1> QED
    BY <1>1, ModEvalInvariant, PTL

\* What the end of a request to a virtual host leaves running has no stop
\* function or comes after a component that has none.
THEOREM StopsReachNoStop == Spec => StopsUpToNoStop
  <1> DEFINE A == \A r \in Request :
                     Stopped(r) => \A i \in DOMAIN VirtualOrder :
                         VirtualOrder[i] \in vlive[r] =>
                             \E j \in 1..i : HasNoStop(VirtualOrder[j])
  <1>1. IInv /\ [Next]_vars => [A]_vars
    <2> SUFFICES ASSUME IInv, Next, NEW r \in Request, Stopped(r),
                        NEW i \in DOMAIN VirtualOrder,
                        VirtualOrder[i] \in vlive[r]
                 PROVE  \E j \in 1..i : HasNoStop(VirtualOrder[j])
      OBVIOUS
    <2>1. VirtualReturns(r)
      <3> USE DEF Stopped, processVars, requestVars, threadVars
      <3>1. req[r] = "vstop" /\ req'[r] = "idle" /\ req' # req
        OBVIOUS
      <3>2. ~PostConfig
        BY <3>1 DEF PostConfig
      <3>3. ASSUME NEW p \in Child PROVE
              ~(\/ ChildInit(p) \/ StartNext(p) \/ Started(p)
                \/ ServerCleanup(p) \/ StopNext(p))
        BY <3>1 DEF ChildInit, StartNext, Started, ServerCleanup, StopNext
      <3>4. ASSUME NEW p \in Child, NEW from, NEW c PROVE ~Relay(p, from, c)
        BY <3>1 DEF Relay
      <3>5. ASSUME NEW p \in Child, NEW from PROVE ~Stray(p, from)
        BY <3>1 DEF Stray
      <3>6. ASSUME NEW p \in Child PROVE ~ChildExit(p)
        <4> SUFFICES ASSUME ChildExit(p) PROVE FALSE
          OBVIOUS
        <4>1. child'[p] = "none" /\ req'[r] = IF at[r] = p THEN "idle" ELSE req[r]
          BY DEF ChildExit, IInv, TypeOK
        <4>2. child'[at[r]] # "none"
          OBVIOUS
        <4> QED
          BY <3>1, <4>1, <4>2
      <3>7. ASSUME NEW s \in Request PROVE
              ~(\/ \E p \in Child : Receive(s, p) \/ ReceiveVirtual(s, p)
                \/ VStartNext(s) \/ VStartFails(s) \/ VStarted(s)
                \/ \E c \in Main : CallMain(s, c)
                \/ \E c \in Virtual : CallVirtual(s, c)
                \/ \E from \in Virtual, c \in Main \cup Virtual : VRelay(s, from, c)
                \/ MainReturns(s) \/ VStop(s) \/ VStopNext(s))
        BY <3>1 DEF Receive, ReceiveVirtual, VStartNext, VStartFails, VStarted,
              CallMain, CallVirtual, VRelay, MainReturns, VStop, VStopNext, Return, IInv, TypeOK
      <3>8. ASSUME NEW s \in Request, s # r PROVE ~VirtualReturns(s)
        BY <3>1, <3>8 DEF VirtualReturns, Return, IInv, TypeOK
      <3> QED
        BY <3>2, <3>3, <3>6, <3>7, <3>8, <3>4, <3>5 DEF Next
    <2>2. ~(i < vpos[r])
      BY <2>1 DEF IInv, VStopped, VirtualReturns
    <2>3. i \in 1..Len(VirtualOrder) /\ vpos[r] \in 1..Len(VirtualOrder) + 1
      BY ModEvalAssumption DEF IInv, TypeOK
    <2>4. vpos[r] \in 1..i /\ HasNoStop(VirtualOrder[vpos[r]])
      BY <2>1, <2>2, <2>3, ModEvalAssumption DEF VirtualReturns, VStopAt
    <2> QED
      BY <2>4
  <1>2. [][A]_vars => StopsUpToNoStop
    BY DEF StopsUpToNoStop
  <1> QED
    BY <1>1, <1>2, ModEvalInvariant, PTL DEF Spec
=============================================================================
