------------------------------- MODULE PgPool -------------------------------
(***************************************************************************)
(* nucleon/database/pgpool.py: PostgresConnectionPool, a pool of psycopg2  *)
(* connections shared by the greenlets of one process.                     *)
(*                                                                         *)
(* A step is what one greenlet does between two points where it may switch *)
(* to the hub: sem.acquire(), and every psycopg2 call that waits for the   *)
(* server (connect, execute, commit, rollback, reset), since               *)
(* psyco_gevent.py makes those calls cooperative.  list.pop, list.append,  *)
(* conn.close() and the counters do not switch, so they belong to the step *)
(* around them.                                                            *)
(***************************************************************************)
EXTENDS Integers, Sequences, FiniteSets, SequencesExt

CONSTANTS
    Greenlets,  \* the greenlets that use the pool
    Conns,      \* names for psycopg2 connection objects; a name is free again
                \* once its object is closed
    NoConn,     \* Python's None in the local variable conn
    Initial,    \* constructor argument initial
    Limit,      \* constructor argument limit
    Faults      \* what the environment may do, a subset of FaultKinds

(***************************************************************************)
(* "refuse"     PostgreSQL refuses a new connection (OperationalError)     *)
(* "drop"       an established connection is lost, unnoticed at first      *)
(* "opError"    a query on a good connection raises OperationalError       *)
(* "caught"     a query raises, and the block catches it and goes on       *)
(* "constraint" COMMIT itself fails, as for a deferred constraint          *)
(* "kill"       a greenlet is killed inside a psycopg2 call; psycopg2 then *)
(*              closes the connection it was waiting for                   *)
(***************************************************************************)
FaultKinds == {"refuse", "drop", "opError", "caught", "constraint", "kill"}

ASSUME PoolAssumption ==
    /\ IsFiniteSet(Greenlets)
    /\ IsFiniteSet(Conns)
    /\ NoConn \notin Conns
    /\ Limit \in Nat \ {0}
    /\ Initial \in 0 .. Limit
    /\ Faults \subseteq FaultKinds

VARIABLES
    sem,     \* self.sem: permits left
    size,    \* self.size: connections the pool believes it has
    pool,    \* self.pool: idle connections, borrowed from the front
    link,    \* "closed", "up", or "down" (lost, or closed by the driver)
    txn,     \* "none", "open", or "aborted" once a query in it has failed
    pc,      \* where each greenlet is in connection()
    held,    \* its local variable conn
    fate,    \* history: what became of the work of its latest block
    result,  \* history: how its latest block ended
    refused, \* history: how often connect() has raised
    leaked   \* history: how often reset() has raised

lost == <<refused, leaked>>
vars == <<sem, size, pool, link, txn, pc, held, fate, result, refused, leaked>>

Places == {"outside", "acquire", "connect", "body",
           "commit", "rollback", "resetOk", "resetErr"}

Open       == {c \in Conns : link[c] # "closed"}
Connecting == {g \in Greenlets : pc[g] = "connect"}
Holding    == {g \in Greenlets : held[g] # NoConn}
\* The greenlets that have passed sem.acquire() and not left connection().
Admitted   == {g \in Greenlets : pc[g] \notin {"outside", "acquire"}}

Goto(g, place) == pc' = [pc EXCEPT ![g] = place]

\* The greenlet leaves connection(), dropping its reference to conn.
Leave(g, how) ==
    /\ Goto(g, "outside")
    /\ held' = [held EXCEPT ![g] = NoConn]
    /\ result' = [result EXCEPT ![g] = how]

-----------------------------------------------------------------------------
\* __init__: the pool once its initial connections are open.  Nobody else
\* sees the object before that; when one of them cannot be opened, __init__
\* raises and there is no pool.
Init ==
    /\ sem = Limit
    /\ size = Initial
    /\ pool \in [1 .. Initial -> Conns]
    /\ IsInjective(pool)
    /\ link = [c \in Conns |-> IF c \in ToSet(pool) THEN "up" ELSE "closed"]
    /\ txn = [c \in Conns |-> "none"]
    /\ pc = [g \in Greenlets |-> "outside"]
    /\ held = [g \in Greenlets |-> NoConn]
    /\ fate = [g \in Greenlets |-> "none"]
    /\ result = [g \in Greenlets |-> "none"]
    /\ refused = 0 /\ leaked = 0

\* A caller opens "with pool.connection()" (or pool.cursor(), which is the
\* same block around conn.cursor()).
Enter(g) ==
    /\ pc[g] = "outside"
    /\ Goto(g, "acquire")
    /\ fate' = [fate EXCEPT ![g] = "none"]
    /\ result' = [result EXCEPT ![g] = "none"]
    /\ UNCHANGED <<sem, size, pool, link, txn, held, lost>>

\* pool.pop(0), which leaves rest; there being none, _connect() is next.
PopOrConnect(g, rest) ==
    /\ IF pool # <<>>
       THEN /\ held' = [held EXCEPT ![g] = Head(pool)]
            /\ pool' = rest
            /\ Goto(g, "body")
       ELSE /\ Goto(g, "connect")
            /\ UNCHANGED <<pool, held>>
    /\ UNCHANGED <<size, link, txn, fate, result, lost>>

\* Mutant of Acquire: the semaphore is not waited for.
AcquireUnguarded(g) ==
    /\ pc[g] = "acquire"
    /\ sem' = IF sem > 0 THEN sem - 1 ELSE 0
    /\ PopOrConnect(g, Tail(pool))

\* Mutant of Acquire: pool[0] instead of pool.pop(0).
AcquireShared(g) ==
    /\ pc[g] = "acquire"
    /\ sem > 0
    /\ sem' = sem - 1
    /\ PopOrConnect(g, pool)

\* sem.acquire() returns, and at once the first idle connection is popped; if
\* there is none the greenlet goes on to open a new one.
Acquire(g) ==
    /\ pc[g] = "acquire"
    /\ sem > 0
    /\ sem' = sem - 1
    /\ PopOrConnect(g, Tail(pool))

\* _connect() succeeds: the new connection is counted and handed to the block.
ConnectOk(g) ==
    /\ pc[g] = "connect"
    /\ \E c \in Conns \ Open :
          /\ link' = [link EXCEPT ![c] = "up"]
          /\ held' = [held EXCEPT ![g] = c]
    /\ size' = size + 1
    /\ Goto(g, "body")
    /\ UNCHANGED <<sem, pool, txn, fate, result, lost>>

\* _connect() raises.  It is called before the try statement, so no clause of
\* connection() runs: the exception leaves with the permit still taken.
ConnectRaises(g) ==
    /\ pc[g] = "connect"
    /\ Faults \cap {"refuse", "kill"} # {}
    /\ Leave(g, "raised")
    /\ refused' = refused + 1
    /\ UNCHANGED <<sem, size, pool, link, txn, fate, leaked>>

-----------------------------------------------------------------------------
\* The caller's block runs a statement; psycopg2 opens a transaction for it.
Execute(g) ==
    /\ pc[g] = "body"
    /\ link[held[g]] = "up"
    /\ txn[held[g]] # "aborted"
    /\ txn' = [txn EXCEPT ![held[g]] = "open"]
    /\ fate' = [fate EXCEPT ![g] = "pending"]
    /\ UNCHANGED <<sem, size, pool, link, pc, held, result, lost>>

\* A statement raises, as any does in an aborted transaction, and the block
\* catches the exception.  The server rejects the transaction from now on: all
\* that can become of it is a rollback.
QueryFails(g) ==
    /\ "caught" \in Faults
    /\ pc[g] = "body"
    /\ link[held[g]] = "up"
    /\ txn' = [txn EXCEPT ![held[g]] = "aborted"]
    /\ fate' = [fate EXCEPT ![g] = "rejected"]
    /\ UNCHANGED <<sem, size, pool, link, pc, held, result, lost>>

\* The block ends its transaction itself, with conn.commit() or
\* conn.rollback(); what became of that work is then the block's own business.
Settle(g) ==
    /\ pc[g] = "body"
    /\ link[held[g]] = "up"
    /\ txn[held[g]] # "none"
    /\ txn' = [txn EXCEPT ![held[g]] = "none"]
    /\ fate' = [fate EXCEPT ![g] = "none"]
    /\ UNCHANGED <<sem, size, pool, link, pc, held, result, lost>>

\* The block finishes: the else clause, conn.commit(), is next.
ExitReturn(g) ==
    /\ pc[g] = "body"
    /\ Goto(g, "commit")
    /\ UNCHANGED <<sem, size, pool, link, txn, held, fate, result, lost>>

\* Mutant of Undo: neither rollback() nor reset() is called.
UndoNothing(g) == UNCHANGED <<txn, fate>>

\* The server (or psycopg2) discards the transaction of g's connection.
Undo(g) ==
    /\ txn' = [txn EXCEPT ![held[g]] = "none"]
    /\ fate' = [fate EXCEPT ![g] = IF txn[held[g]] = "none" THEN @ ELSE "undone"]

\* g leaves with an exception and its connection is closed, not pooled.
Discard(g) ==
    /\ link' = [link EXCEPT ![held[g]] = "closed"]
    /\ Undo(g)
    /\ Leave(g, "raised")
    /\ UNCHANGED pool

\* The query of g's block raises OperationalError, as any on a lost connection.
Operational(g) == pc[g] = "body" /\ (link[held[g]] = "down" \/ "opError" \in Faults)

\* Mutant of ExitOperational: the permit is released in the except clause too.
ExitOperationalTwice(g) ==
    Operational(g) /\ Discard(g) /\ size' = size - 1 /\ sem' = sem + 2 /\ UNCHANGED lost

\* Mutant of ExitOperational: sem.release() only where the connection is kept.
ExitOperationalLeak(g) ==
    Operational(g) /\ Discard(g) /\ size' = size - 1 /\ UNCHANGED <<sem, lost>>

\* Mutant of ExitOperational: self.size is not decremented.
ExitOperationalDrift(g) ==
    Operational(g) /\ Discard(g) /\ sem' = sem + 1 /\ UNCHANGED <<size, lost>>

\* The block raises OperationalError: the connection is closed and forgotten,
\* and the permit is released.
ExitOperational(g) ==
    Operational(g) /\ Discard(g) /\ size' = size - 1 /\ sem' = sem + 1 /\ UNCHANGED lost

\* The block raises anything else: the bare except clause, conn.rollback(), is
\* next.  A greenlet killed while the driver waits has lost its connection.
ExitRaise(g) ==
    /\ pc[g] = "body"
    /\ \/ UNCHANGED link
       \/ /\ "kill" \in Faults
          /\ link' = [link EXCEPT ![held[g]] = "down"]
    /\ Goto(g, "rollback")
    /\ UNCHANGED <<sem, size, pool, txn, held, fate, result, lost>>

-----------------------------------------------------------------------------
\* Mutant of CommitOk: the else clause forgets conn.commit().
CommitSkipped(g) ==
    /\ pc[g] = "commit"
    /\ link[held[g]] = "up" \/ txn[held[g]] = "none"
    /\ Goto(g, "resetOk")
    /\ UNCHANGED <<sem, size, pool, link, txn, held, fate, result, lost>>

\* conn.commit() in the else clause.  Without an open transaction psycopg2
\* sends nothing, so it succeeds even on a lost connection.  To an aborted
\* transaction the server answers ROLLBACK, which is no error: commit() returns
\* although nothing was committed.
CommitOk(g) ==
    /\ pc[g] = "commit"
    /\ link[held[g]] = "up" \/ txn[held[g]] = "none"
    /\ txn' = [txn EXCEPT ![held[g]] = "none"]
    /\ fate' = [fate EXCEPT ![g] = IF txn[held[g]] = "open" THEN "durable" ELSE @]
    /\ Goto(g, "resetOk")
    /\ UNCHANGED <<sem, size, pool, link, held, result, lost>>

\* What a COMMIT whose answer does not arrive may have come to.
Answer(g) == {"undone"} \cup (IF txn[held[g]] = "open" THEN {"durable"} ELSE {})

\* conn.commit() raises.  The except clauses do not cover an else clause, so
\* the finally clause is next, with the exception pending.  The server has
\* rolled back, but when the connection is lost, or the greenlet killed, while
\* it waits for the answer, nobody can know.
CommitRaises(g) ==
    /\ pc[g] = "commit"
    /\ txn[held[g]] # "none"
    /\ txn' = [txn EXCEPT ![held[g]] = "none"]
    /\ \/ /\ \/ link[held[g]] = "down"
             \/ "constraint" \in Faults /\ txn[held[g]] = "open"
          /\ UNCHANGED link
          /\ fate' = [fate EXCEPT ![g] = "undone"]
       \/ /\ Faults \cap {"kill", "drop"} # {}
          /\ link[held[g]] = "up"
          /\ link' = [link EXCEPT ![held[g]] = "down"]
          /\ \E f \in Answer(g) : fate' = [fate EXCEPT ![g] = f]
    /\ Goto(g, "resetErr")
    /\ UNCHANGED <<sem, size, pool, held, result, lost>>

\* conn.rollback() in the bare except clause.  Whether it succeeds or raises
\* (lost connection), an exception is pending and the finally clause is next.
Rollback(g) ==
    /\ pc[g] = "rollback"
    /\ \/ UNCHANGED link
       \/ /\ "kill" \in Faults
          /\ txn[held[g]] # "none"
          /\ link' = [link EXCEPT ![held[g]] = "down"]
    /\ Undo(g)
    /\ Goto(g, "resetErr")
    /\ UNCHANGED <<sem, size, pool, held, result, lost>>

\* conn.reset() succeeds in the finally clause: it aborts what is still open,
\* the connection goes to the back of the pool and the permit is released.
ResetOk(g) ==
    /\ pc[g] \in {"resetOk", "resetErr"}
    /\ link[held[g]] = "up"
    /\ Undo(g)
    /\ pool' = Append(pool, held[g])
    /\ sem' = sem + 1
    /\ Leave(g, IF pc[g] = "resetOk" THEN "returned" ELSE "raised")
    /\ UNCHANGED <<size, link, lost>>

\* conn.reset() raises: the rest of the finally clause is skipped.  Nothing
\* refers to the connection any more, so Python closes it.
ResetRaises(g) ==
    /\ pc[g] \in {"resetOk", "resetErr"}
    /\ link[held[g]] = "down" \/ "kill" \in Faults
    /\ Discard(g)
    /\ leaked' = leaked + 1
    /\ UNCHANGED <<sem, size, refused>>

\* The server restarts or the network fails: a connection, idle or in use, is
\* lost.  The server rolls back what was open on it.
Drop(c) ==
    /\ "drop" \in Faults
    /\ link[c] = "up"
    /\ link' = [link EXCEPT ![c] = "down"]
    /\ UNCHANGED <<sem, size, pool, txn, pc, held, fate, result, lost>>

-----------------------------------------------------------------------------
Connect(g) == ConnectOk(g) \/ ConnectRaises(g)
Exit(g)    == ExitReturn(g) \/ ExitOperational(g) \/ ExitRaise(g)
Finish(g)  == CommitOk(g) \/ CommitRaises(g) \/ Rollback(g)
              \/ ResetOk(g) \/ ResetRaises(g)

Next ==
    \/ \E g \in Greenlets :
          \/ Enter(g) \/ Acquire(g) \/ Connect(g)
          \/ Execute(g) \/ QueryFails(g) \/ Settle(g) \/ Exit(g) \/ Finish(g)
    \/ \E c \in Conns : Drop(c)

Spec == Init /\ [][Next]_vars

\* The hub runs every greenlet that is ready, the server answers, and the
\* callers' blocks end; nothing makes a caller enter.
Fairness ==
    \A g \in Greenlets : /\ WF_vars(Acquire(g)) /\ WF_vars(Connect(g))
                         /\ WF_vars(Exit(g))    /\ WF_vars(Finish(g))

FairSpec == Spec /\ Fairness

-----------------------------------------------------------------------------
\* The values the variables take, and what pc says about held.
TypeOK ==
    /\ sem \in 0 .. Limit
    /\ size \in Int
    /\ refused \in Nat /\ leaked \in Nat
    /\ pool \in Seq(Conns)
    /\ link \in [Conns -> {"closed", "up", "down"}]
    /\ txn \in [Conns -> {"none", "open", "aborted"}]
    /\ pc \in [Greenlets -> Places]
    /\ held \in [Greenlets -> Conns \cup {NoConn}]
    /\ fate \in [Greenlets -> {"none", "pending", "rejected", "durable", "undone"}]
    /\ result \in [Greenlets -> {"none", "returned", "raised"}]
    /\ \A g \in Greenlets :
          held[g] = NoConn <=> pc[g] \in {"outside", "acquire", "connect"}

\* "At most limit connections may be open at any one time" (the constructor's
\* docstring), counting those being opened: the check of pool.pop(0) and the
\* connect() that follows it are not atomic, so this rests on the semaphore
\* and on every path that keeps a connection giving it back first.
ConnCap == Cardinality(Open) + Cardinality(Connecting) <= Limit

\* Every open connection has exactly one owner, the pool or one greenlet:
\* none is lent twice, pooled twice, pooled while lent, pooled after it was
\* closed, or open with nobody left to close it.
Exclusive ==
    /\ IsInjective(pool)
    /\ \A g, h \in Greenlets : held[g] = held[h] /\ held[g] # NoConn => g = h
    /\ \A g \in Greenlets : held[g] \notin ToSet(pool)
    /\ Open = ToSet(pool) \cup {held[g] : g \in Holding}

\* A greenlet never inherits another's transaction, whichever way the other
\* left its block: an open one is work of the greenlet that holds the
\* connection, so one greenlet's commit() commits nobody else's, and an aborted
\* one is its own failure, so nobody's queries are rejected for another's.
NoForeignWork ==
    \A c \in Conns : txn[c] # "none" =>
        \E g \in Holding :
            held[g] = c /\ fate[g] = IF txn[c] = "open" THEN "pending" ELSE "rejected"

\* When "with pool.connection()" ends without an exception, what the block did
\* is committed, although commit() comes after the block and reset() after it.
\* The one exception is the block's own doing: it caught the failure of a query
\* and did not roll back, so the server rejected the whole transaction, as that
\* of slow_insert in test_transactional.  Nothing else is lost in silence.
ReturnedMeansDurable ==
    \A g \in Greenlets : result[g] = "returned" => fate[g] \in {"none", "durable", "rejected"}

\* What each path out of connection() costs, whatever fails on it: a permit is
\* free, belongs to a greenlet inside, or went with a connect() or a reset()
\* that raised, and no other path, failing queries, commits and rollbacks
\* included, loses one.  size counts the open connections, and for ever those
\* whose reset() raised, which nobody subtracts.
Accounting ==
    /\ sem + Cardinality(Admitted) + refused + leaked = Limit
    /\ size = Cardinality(Open) + leaked

\* The pool never seizes up before such exceptions have cost it every permit:
\* until then a permit becomes available again and again, however the blocks
\* end.
PermitReturns == []<>(sem > 0 \/ refused + leaked = Limit)

\* The pool implements the abstract loan desk under every fault.
L == INSTANCE Loans WITH loan <- held
LoansSpec == L!Spec

\* docs/database.rst: "If there are no connections left in the pool, the
\* requesting greenlet will block until a database connection is available":
\* a greenlet is kept waiting only while other greenlets are using the pool.
BlockedOnlyWhileBorrowed == sem = 0 => Admitted # {}
=============================================================================
