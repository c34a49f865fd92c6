---------------------------- MODULE WaitCounter ----------------------------
(***************************************************************************)
(* nucleon/util.py: WaitCounter, a count of the greenlets inside a "with   *)
(* counter" block, and wait_for_zero(), which blocks until it is zero.     *)
(*                                                                         *)
(* A step runs until the greenlet switches, which only wait_for_zero()     *)
(* does, inside AsyncResult.get().  AsyncResult.set() wakes nobody at      *)
(* once: it makes the waiter ready, and the hub runs it later.             *)
(***************************************************************************)
EXTENDS Integers, FiniteSets

CONSTANTS
    Users,     \* the greenlets that use "with counter"
    Waiters,   \* the calls of wait_for_zero()
    Timeouts   \* TRUE if they pass a timeout that may expire

ASSUME WaitCounterAssumption ==
    /\ IsFiniteSet(Users)
    /\ IsFiniteSet(Waiters)
    /\ Timeouts \in BOOLEAN

VARIABLES
    counter,    \* self.counter
    inside,     \* the users between __enter__ and __exit__
    listeners,  \* self._wait_listeners: the calls whose AsyncResult is in it
    ready,      \* the calls whose AsyncResult has been set
    wait        \* how far each call is

counterVars == <<counter, inside, listeners, ready, wait>>

Init ==
    /\ counter = 0
    /\ inside = {}
    /\ listeners = {}
    /\ ready = {}
    /\ wait = [w \in Waiters |-> "idle"]

\* __enter__, that is inc().
Enter(u) ==
    /\ u \notin inside
    /\ inside' = inside \cup {u}
    /\ counter' = counter + 1
    /\ UNCHANGED <<listeners, ready, wait>>

\* Mutant of NotifyAtZero: only one of the listeners is notified.
NotifyOne(n) ==
    IF n = 0 /\ listeners # {}
    THEN ready' = ready \cup {CHOOSE w \in listeners : TRUE}
    ELSE ready' = ready

\* The end of dec(): at zero every listener's AsyncResult is set.
NotifyAtZero(n) == ready' = IF n = 0 THEN ready \cup listeners ELSE ready

\* Mutant of Leave: __exit__ does nothing when an exception is passing.
LeaveOrForget(u) ==
    /\ u \in inside
    /\ inside' = inside \ {u}
    /\ counter' \in {counter, counter - 1}
    /\ NotifyAtZero(counter')
    /\ UNCHANGED <<listeners, wait>>

\* Mutant of Leave: an except clause inside the block calls dec() as well.
LeaveTwice(u) ==
    /\ u \in inside
    /\ inside' = inside \ {u}
    /\ counter' \in {counter - 1, counter - 2}
    /\ NotifyAtZero(counter')
    /\ UNCHANGED <<listeners, wait>>

\* __exit__, that is dec(), whether the block returned or raised.
Leave(u) ==
    /\ u \in inside
    /\ inside' = inside \ {u}
    /\ counter' = counter - 1
    /\ NotifyAtZero(counter - 1)
    /\ UNCHANGED <<listeners, wait>>

\* A block without a switch: inc() and dec() in one step.
Pass(u) ==
    /\ u \notin inside
    /\ NotifyAtZero(counter)
    /\ UNCHANGED <<counter, inside, listeners, wait>>

\* wait_for_zero() returns at once, or registers an AsyncResult and waits.
WaitForZero(w) ==
    /\ wait[w] = "idle"
    /\ IF counter = 0
       THEN /\ wait' = [wait EXCEPT ![w] = "returned"]
            /\ UNCHANGED listeners
       ELSE /\ wait' = [wait EXCEPT ![w] = "waiting"]
            /\ listeners' = listeners \cup {w}
    /\ UNCHANGED <<counter, inside, ready>>

\* AsyncResult.get() returns; the counter is asserted to be zero still.
Wake(w) ==
    /\ wait[w] = "waiting"
    /\ w \in ready
    /\ listeners' = listeners \ {w}
    /\ wait' = [wait EXCEPT ![w] = IF counter = 0 THEN "returned" ELSE "assertion failed"]
    /\ UNCHANGED <<counter, inside, ready>>

\* AsyncResult.get() raises Timeout: the listener is never removed.
Expire(w) ==
    /\ Timeouts
    /\ wait[w] = "waiting"
    /\ wait' = [wait EXCEPT ![w] = "expired"]
    /\ UNCHANGED <<counter, inside, listeners, ready>>

Next ==
    \/ \E u \in Users : Enter(u) \/ Leave(u) \/ Pass(u)
    \/ \E w \in Waiters : WaitForZero(w) \/ Wake(w) \/ Expire(w)

Spec == Init /\ [][Next]_counterVars

-----------------------------------------------------------------------------
CounterTypeOK ==
    /\ counter \in Nat
    /\ inside \subseteq Users
    /\ listeners \subseteq Waiters
    /\ ready \subseteq Waiters
    /\ wait \in [Waiters ->
           {"idle", "waiting", "returned", "expired", "assertion failed"}]

\* The counter counts: every inc() is undone by exactly one dec(), so that
\* dec()'s assertion holds and the wait can end.
CounterExact == counter = Cardinality(inside)

\* A call that waits while the counter is zero is about to be woken: there is
\* no window between its test of the counter and its registration in which the
\* last dec() could go unnoticed.
NoLostWakeup ==
    \A w \in Waiters : wait[w] = "waiting" /\ counter = 0 => w \in ready

\* The assertion of wait_for_zero(): 'Shall be never interrupted'.
NeverInterrupted == \A w \in Waiters : wait[w] # "assertion failed"
=============================================================================
