------------------------------ MODULE LazyPool ------------------------------
(***************************************************************************)
(* nucleon/database/api.py: Database.get_pool(), and in the same form      *)
(* nucleon/framework.py: Application.get_database().  The attribute is     *)
(* tested, the pool is constructed, which waits for the server to accept   *)
(* its initial connections, and then the attribute is set.                 *)
(***************************************************************************)
EXTENDS Integers, FiniteSets

CONSTANTS
    Callers,  \* greenlets that call get_pool()
    NoPool    \* the attribute has not been set

VARIABLES
    attr,  \* self._pool, named by the greenlet that constructed it
    pc,    \* "idle" or "constructing"
    got    \* the pool each greenlet's latest call returned

vars == <<attr, pc, got>>

Init ==
    /\ attr = NoPool
    /\ pc = [g \in Callers |-> "idle"]
    /\ got = [g \in Callers |-> NoPool]

\* The attribute exists: it is returned without a switch.
Found(g) ==
    /\ pc[g] = "idle"
    /\ attr # NoPool
    /\ got' = [got EXCEPT ![g] = attr]
    /\ UNCHANGED <<attr, pc>>

\* AttributeError: PostgresConnectionPool.for_url() starts to connect.
Missing(g) ==
    /\ pc[g] = "idle"
    /\ attr = NoPool
    /\ pc' = [pc EXCEPT ![g] = "constructing"]
    /\ UNCHANGED <<attr, got>>

\* The pool is there: it becomes the attribute, whatever that is by now.
Constructed(g) ==
    /\ pc[g] = "constructing"
    /\ attr' = g
    /\ got' = [got EXCEPT ![g] = g]
    /\ pc' = [pc EXCEPT ![g] = "idle"]

\* ConnectionFailed: the attribute is left as it is.
Failed(g) ==
    /\ pc[g] = "constructing"
    /\ pc' = [pc EXCEPT ![g] = "idle"]
    /\ UNCHANGED <<attr, got>>

Next == \E g \in Callers : Found(g) \/ Missing(g) \/ Constructed(g) \/ Failed(g)

Spec == Init /\ [][Next]_vars

\* The docstring of get_pool(): "Each Database instance maintains a single
\* connection pool", so that its callers share one cap on their connections.
SinglePool == Cardinality({got[g] : g \in Callers} \ {NoPool}) <= 1
=============================================================================
