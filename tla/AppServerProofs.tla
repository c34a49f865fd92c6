--------------------------- MODULE AppServerProofs ---------------------------
(***************************************************************************)
(* Proofs about AppServer and its WaitCounter, for any finite sets of      *)
(* requests and of shutdown signals, with and without timeouts.            *)
(***************************************************************************)
EXTENDS AppServer, FiniteSetTheorems, TLAPS

\* What the state of each wait_for_zero() says of the counter.  A wait begins
\* only while the application is closing, when nothing is counted any more, so
\* that a counter that has reached zero stays there.
Waits ==
    \A w \in Waiters :
       /\ wait[w] # "idle" => running_state = "closing"
       /\ wait[w] = "idle" => w \notin listeners \cup ready
       /\ wait[w] = "waiting" => w \in listeners /\ (w \in ready <=> counter = 0)
       /\ wait[w] = "returned" => counter = 0
       /\ wait[w] # "assertion failed"
       /\ handler[w] = "stopping" => wait[w] = "returned"

\* The server is stopped by a signal handler that has gone past join().
Stopped ==
    server # "accepting" => \E s \in Signals : handler[s] \in {"stopping", "forcing"}

AppInv == AppTypeOK /\ CounterExact /\ Waits /\ Stopped

\* The counter and the set it counts.
LEMMA Counted ==
  ASSUME CounterTypeOK, CounterExact
  PROVE  /\ IsFiniteSet(inside)
         /\ counter = 0 <=> inside = {}
<1>1. IsFiniteSet(inside)
  BY WaitCounterAssumption, FS_Subset DEF CounterTypeOK
<1>2. QED
  BY <1>1, FS_EmptySet DEF CounterExact

LEMMA EnterStep ==
  ASSUME CounterTypeOK, CounterExact, NEW u \in Users, Enter(u)
  PROVE  CounterTypeOK' /\ CounterExact'
<1>1. Cardinality(inside \cup {u}) = Cardinality(inside) + 1
  BY Counted, FS_AddElement DEF Enter
<1>2. CounterExact'
  BY <1>1 DEF Enter, CounterExact
<1>3. counter' \in Nat
  <2>1. counter \in Nat /\ counter' = counter + 1
    BY DEF Enter, CounterTypeOK
  <2>2. QED
    BY <2>1
<1>4. inside' \subseteq Users /\ UNCHANGED <<listeners, ready, wait>>
  BY DEF Enter, CounterTypeOK
<1>5. QED
  BY <1>2, <1>3, <1>4 DEF CounterTypeOK

LEMMA LeaveStep ==
  ASSUME CounterTypeOK, CounterExact, NEW u \in Users, Leave(u)
  PROVE  CounterTypeOK' /\ CounterExact' /\ counter # 0
<1>1. Cardinality(inside \ {u}) = Cardinality(inside) - 1
  BY Counted, FS_RemoveElement DEF Leave
<1>2. counter # 0 /\ counter \in Nat
  BY Counted DEF Leave, CounterTypeOK
<1>3. CounterExact' /\ inside' \subseteq Users /\ UNCHANGED <<listeners, wait>>
  BY <1>1 DEF Leave, CounterTypeOK, CounterExact
<1>4. counter' \in Nat
  BY <1>2 DEF Leave
<1>5. ready' \subseteq Waiters
  BY DEF Leave, NotifyAtZero, CounterTypeOK
<1>6. QED
  BY <1>2, <1>3, <1>4, <1>5 DEF CounterTypeOK

LEMMA AppInvInit == AppInit => AppInv
<1>1. SUFFICES ASSUME AppInit PROVE AppInv
  OBVIOUS
<1>2. AppTypeOK
  BY <1>1 DEF AppInit, Init, AppTypeOK, CounterTypeOK, Requests, Signals
<1>3. CounterExact
  BY <1>1, FS_EmptySet DEF AppInit, Init, CounterExact
<1>4. Waits /\ Stopped
  BY <1>1 DEF AppInit, Init, Waits, Stopped, Signals
<1>5. QED
  BY <1>2, <1>3, <1>4 DEF AppInv

LEMMA ServeStep ==
  ASSUME AppInv, NEW r \in Requests, Serve(r)
  PROVE  AppInv'
<1>0. r \in Users /\ counter \in Nat
  BY DEF AppInv, AppTypeOK, CounterTypeOK, Requests
<1>1. CASE Dispatch(r)
  <2>1. CounterTypeOK' /\ CounterExact'
    BY <1>0, <1>1, EnterStep DEF Dispatch, AppInv, AppTypeOK
  <2>2. AppTypeOK'
    BY <1>1, <2>1 DEF Dispatch, Enter, Becomes, AppInv, AppTypeOK, Requests
  <2>3. Waits' /\ Stopped'
    BY <1>1 DEF Dispatch, Enter, AppInv, Waits, Stopped
  <2>4. QED
    BY <2>1, <2>2, <2>3 DEF AppInv
<1>2. CASE Refuse(r)
  <2>1. CounterTypeOK' /\ CounterExact'
    BY <1>2 DEF Refuse, Pass, NotifyAtZero, AppInv, AppTypeOK, CounterTypeOK, CounterExact
  <2>2. AppTypeOK'
    BY <1>2, <2>1 DEF Refuse, Pass, Becomes, AppInv, AppTypeOK, Requests
  <2>3. Waits' /\ Stopped'
    BY <1>2 DEF Refuse, Pass, NotifyAtZero, AppInv, AppTypeOK, CounterTypeOK, Waits, Stopped
  <2>4. QED
    BY <2>1, <2>2, <2>3 DEF AppInv
<1>3. CASE Respond(r)
  <2>1. CounterTypeOK' /\ CounterExact' /\ counter # 0
    BY <1>0, <1>3, LeaveStep DEF Respond, AppInv, AppTypeOK
  <2>2. AppTypeOK'
    BY <1>3, <2>1 DEF Respond, Leave, Becomes, AppInv, AppTypeOK, Requests
  <2>3. \A w \in Waiters : wait[w] # "returned" /\ (wait[w] = "waiting" => w \in listeners \ ready)
    BY <2>1 DEF AppInv, Waits
  <2>4. Waits' /\ Stopped'
    BY <1>0, <1>3, <2>3 DEF Respond, Leave, NotifyAtZero, AppInv, Waits, Stopped
  <2>5. QED
    BY <2>1, <2>2, <2>4 DEF AppInv
<1>4. CASE Written(r)
  <2>1. AppTypeOK' /\ CounterExact'
    BY <1>4 DEF Written, Becomes, counterVars, AppInv, AppTypeOK, CounterTypeOK, CounterExact, Requests
  <2>2. Waits' /\ Stopped'
    BY <1>4 DEF Written, counterVars, AppInv, Waits, Stopped
  <2>3. QED
    BY <2>1, <2>2 DEF AppInv
<1>5. QED
  BY <1>1, <1>2, <1>3, <1>4 DEF Serve

LEMMA StopStep ==
  ASSUME AppInv, NEW s \in Signals, Signal(s) \/ Stop(s)
  PROVE  AppInv'
<1>0. s \in Waiters /\ counter \in Nat
  BY DEF AppInv, AppTypeOK, CounterTypeOK, Signals
<1>1. CASE Signal(s)
  <2>1. AppTypeOK' /\ CounterExact'
    BY <1>1 DEF Signal, Moves, counterVars, AppInv, AppTypeOK, CounterTypeOK, CounterExact, Signals
  <2>2. Waits' /\ Stopped'
    BY <1>1 DEF Signal, Moves, counterVars, AppInv, AppTypeOK, Waits, Stopped, Signals
  <2>3. QED
    BY <2>1, <2>2 DEF AppInv
<1>2. CASE StopServing(s)
  <2>1. AppTypeOK' /\ CounterExact'
    BY <1>2 DEF StopServing, WaitForZero, Moves, AppInv, AppTypeOK, CounterTypeOK, CounterExact, Signals
  <2>2. Waits'
    <3>1. /\ running_state' = "closing" /\ UNCHANGED <<counter, ready>>
          /\ wait[s] = "idle" /\ s \notin ready
          /\ handler' = [handler EXCEPT ![s] = "joining"]
      BY <1>0, <1>2 DEF StopServing, WaitForZero, Moves, AppInv, Waits
    <3>2. CASE counter = 0 /\ UNCHANGED listeners /\ wait' = [wait EXCEPT ![s] = "returned"]
      BY <1>0, <3>1, <3>2 DEF AppInv, AppTypeOK, CounterTypeOK, Waits, Signals
    <3>3. CASE /\ counter # 0 /\ listeners' = listeners \cup {s}
               /\ wait' = [wait EXCEPT ![s] = "waiting"]
      BY <1>0, <3>1, <3>3 DEF AppInv, AppTypeOK, CounterTypeOK, Waits, Signals
    <3>4. QED
      BY <1>2, <3>2, <3>3 DEF StopServing, WaitForZero
  <2>3. Stopped'
    BY <1>2 DEF StopServing, Moves, AppInv, AppTypeOK, Stopped, Signals
  <2>4. QED
    BY <2>1, <2>2, <2>3 DEF AppInv
<1>3. CASE StopperWakes(s)
  <2>1. counter = 0
    BY <1>0, <1>3 DEF StopperWakes, Wake, AppInv, Waits
  <2>2. AppTypeOK' /\ CounterExact'
    BY <1>3 DEF StopperWakes, Wake, serverVars, AppInv, AppTypeOK, CounterTypeOK, CounterExact
  <2>3. Waits' /\ Stopped'
    BY <1>0, <1>3, <2>1 DEF StopperWakes, Wake, serverVars, AppInv, AppTypeOK, CounterTypeOK, Waits, Stopped
  <2>4. QED
    BY <2>2, <2>3 DEF AppInv
<1>4. CASE StopperExpires(s)
  <2>1. AppTypeOK' /\ CounterExact'
    BY <1>4 DEF StopperExpires, Expire, serverVars, AppInv, AppTypeOK, CounterTypeOK, CounterExact
  <2>2. Waits' /\ Stopped'
    BY <1>0, <1>4 DEF StopperExpires, Expire, serverVars, AppInv, AppTypeOK, CounterTypeOK, Waits, Stopped
  <2>3. QED
    BY <2>1, <2>2 DEF AppInv
<1>5. CASE StopServer(s)
  <2>1. AppTypeOK' /\ CounterExact'
    BY <1>5 DEF StopServer, Moves, counterVars, AppInv, AppTypeOK, CounterTypeOK, CounterExact, Signals
  <2>2. Waits' /\ Stopped'
    BY <1>0, <1>5 DEF StopServer, Moves, counterVars, AppInv, AppTypeOK, Waits, Stopped, Signals
  <2>3. QED
    BY <2>1, <2>2 DEF AppInv
<1>6. CASE KillPool(s)
  <2>1. AppTypeOK'
    BY <1>6 DEF KillPool, AppInv, AppTypeOK, CounterTypeOK, Requests
  <2>2. CounterExact'
    BY <1>6, FS_EmptySet DEF KillPool, CounterExact
  <2>3. inside = {} <=> counter = 0
    BY Counted DEF AppInv, AppTypeOK
  <2>4. Waits' /\ Stopped'
    BY <1>6, <2>3 DEF KillPool, AppInv, AppTypeOK, Waits, Stopped
  <2>5. QED
    BY <2>1, <2>2, <2>4 DEF AppInv
<1>7. QED
  BY <1>1, <1>2, <1>3, <1>4, <1>5, <1>6 DEF Stop

LEMMA AppInvNext ==
  ASSUME AppInv, [AppNext]_vars
  PROVE  AppInv'
<1>1. CASE UNCHANGED <<counterVars, running_state, req, handler, server>> /\ exited' \in BOOLEAN
  BY <1>1 DEF counterVars, AppInv, AppTypeOK, CounterTypeOK, CounterExact, Waits, Stopped
<1>2. CASE Exit
  BY <1>1, <1>2 DEF Exit
<1>3. CASE UNCHANGED vars
  BY <1>1, <1>3 DEF vars, serverVars, AppInv, AppTypeOK
<1>4. QED
  BY <1>2, <1>3, ServeStep, StopStep DEF AppNext

LEMMA AppInvAlways == AppSpec => []AppInv
<1>1. AppInv /\ [AppNext]_vars => AppInv'
  BY AppInvNext
<1>2. QED
  BY <1>1, AppInvInit, PTL DEF AppSpec

\* Type correctness: every greenlet of the worker is at a step of its code.
THEOREM AppTypeCorrect == AppSpec => []AppTypeOK
BY AppInvAlways, PTL DEF AppInv

\* The counter counts the requests in a view, whatever ends them.
THEOREM CounterExactAlways == AppSpec => []CounterExact
BY AppInvAlways, PTL DEF AppInv

\* No wait_for_zero() is left waiting for a counter that is zero.
THEOREM NoLostWakeupAlways == AppSpec => []NoLostWakeup
<1>1. AppInv => NoLostWakeup
  BY DEF AppInv, Waits, NoLostWakeup
<1>2. QED
  BY <1>1, AppInvAlways, PTL

\* The assertion of wait_for_zero() holds in the server.
THEOREM NeverInterruptedAlways == AppSpec => []NeverInterrupted
<1>1. AppInv => NeverInterrupted
  BY DEF AppInv, Waits, NeverInterrupted
<1>2. QED
  BY <1>1, AppInvAlways, PTL

\* Unless a shutdown ran into its timeout, no view is running when the server
\* is stopped.
THEOREM GracefulAlways == AppSpec => []Graceful
<1>1. AppInv => Graceful
  <2>1. SUFFICES ASSUME AppInv, server # "accepting", \A s \in Signals : handler[s] # "forcing"
                 PROVE  inside = {}
    BY DEF Graceful
  <2>2. PICK s \in Signals : handler[s] = "stopping"
    BY <2>1 DEF AppInv, Stopped
  <2>3. counter = 0
    BY <2>1, <2>2 DEF AppInv, Waits, Signals
  <2>4. QED
    BY <2>1, <2>3, Counted DEF AppInv, AppTypeOK
<1>2. QED
  BY <1>1, AppInvAlways, PTL
=============================================================================
