---------------------------- MODULE Transaction ----------------------------
(***************************************************************************)
(* nucleon/database/api.py: Database.transaction(retries) and              *)
(* Database.query(), run by several greenlets at once, each on a           *)
(* connection of its own.                                                  *)
(*                                                                         *)
(* The decorated function is the one docs/database.rst and the tests use:  *)
(* SELECT max(id), then INSERT the next id, which is unique, and here a    *)
(* second INSERT.  What goes to query() is one statement that does all of  *)
(* that, INSERT ... SELECT max(id) + 1.  Every query waits for PostgreSQL, *)
(* so every query is a step.  PostgreSQL is modelled from how the code     *)
(* uses it: a statement sees the rows that were committed when it began,   *)
(* and an INSERT of an id that another open transaction has inserted waits *)
(* until that transaction has ended.  The function lets every exception    *)
(* out; for one that catches a failed query see PgPool.                    *)
(***************************************************************************)
EXTENDS Integers, FiniteSets

CONSTANTS
    Clients,  \* the greenlets, one call each
    Retries,  \* the argument of transaction()
    Faults    \* what may befall a call, a subset of FaultKinds

(***************************************************************************)
(* "raises"    its function, or COMMIT, may raise something else than      *)
(*             IntegrityError                                              *)
(* "deferred"  its COMMIT may raise IntegrityError (a deferred constraint) *)
(* "severed"   its connection may be lost, or its greenlet killed inside a *)
(*             query, on which psycopg2 closes the connection              *)
(***************************************************************************)
FaultKinds == {"raises", "deferred", "severed"}

ASSUME TransactionAssumption ==
    /\ IsFiniteSet(Clients)
    /\ Retries \in Nat
    /\ Faults \subseteq FaultKinds

VARIABLES
    direct,    \* the calls of query(); the others are of transaction()
    calm,      \* the calls that no fault befalls
    pc,        \* the query or rollback each call is at
    attempts,  \* the local variable attempts
    base,      \* max(id) as each call saw it
    pending,   \* the rows of each open transaction
    table,     \* the committed rows
    outcome    \* how each call ended

vars == <<direct, calm, pc, attempts, base, pending, table, outcome>>

Ids(rows) == {row[1] : row \in rows}

Highest(rows) == CHOOSE n \in {0} \cup Ids(rows) : \A m \in Ids(rows) : m <= n

\* Another open transaction has inserted this id.
Contended(c, id) == \E d \in Clients \ {c} : id \in Ids(pending[d])

Init ==
    /\ direct \in SUBSET Clients
    /\ calm \in SUBSET Clients
    /\ pc = [c \in Clients |-> "select"]
    /\ attempts = [c \in Clients |-> 0]
    /\ base = [c \in Clients |-> 0]
    /\ pending = [c \in Clients |-> {}]
    /\ table = {}
    /\ outcome = [c \in Clients |-> "none"]

Goto(c, place) == pc' = [pc EXCEPT ![c] = place]

-----------------------------------------------------------------------------
\* lastid = q('SELECT max(id) ...').value, or query()'s statement begins.
Select(c) ==
    /\ pc[c] = "select"
    /\ base' = [base EXCEPT ![c] = Highest(table)]
    /\ Goto(c, "insert")
    /\ UNCHANGED <<direct, calm, attempts, pending, table, outcome>>

\* Mutant of Insert: the connection is in autocommit mode.
InsertAutocommit(c) ==
    /\ pc[c] = "insert" /\ c \notin direct
    /\ base[c] + 1 \notin Ids(table)
    /\ ~ Contended(c, base[c] + 1)
    /\ table' = table \cup {<<base[c] + 1, c, "id">>}
    /\ Goto(c, "note")
    /\ UNCHANGED <<direct, calm, attempts, base, pending, outcome>>

\* The INSERT of the next id succeeds.
Insert(c) ==
    /\ pc[c] = "insert" /\ c \notin direct
    /\ base[c] + 1 \notin Ids(table)
    /\ ~ Contended(c, base[c] + 1)
    /\ pending' = [pending EXCEPT ![c] = @ \cup {<<base[c] + 1, c, "id">>}]
    /\ Goto(c, "note")
    /\ UNCHANGED <<direct, calm, attempts, base, table, outcome>>

\* The second INSERT succeeds.
InsertNote(c) ==
    /\ pc[c] = "note"
    /\ pending' = [pending EXCEPT ![c] = @ \cup {<<base[c] + 1, c, "note">>}]
    /\ Goto(c, "commit")
    /\ UNCHANGED <<direct, calm, attempts, base, table, outcome>>

\* query()'s statement ends: all its rows are there.
InsertDirect(c) ==
    /\ pc[c] = "insert" /\ c \in direct
    /\ base[c] + 1 \notin Ids(table)
    /\ ~ Contended(c, base[c] + 1)
    /\ pending' = [pending EXCEPT ![c] = {<<base[c] + 1, c, part>> : part \in {"id", "note"}}]
    /\ Goto(c, "commit")
    /\ UNCHANGED <<direct, calm, attempts, base, table, outcome>>

\* Mutant of Caught: attempts >= retries instead of attempts > retries.
CaughtEarly(c) ==
    /\ attempts' = [attempts EXCEPT ![c] = @ + 1]
    /\ Goto(c, IF attempts[c] + 1 >= Retries THEN "raise" ELSE "rollback")

\* Mutant of Caught: attempts is not compared with retries.
CaughtForever(c) ==
    /\ attempts[c] <= Retries + 1
    /\ attempts' = [attempts EXCEPT ![c] = @ + 1]
    /\ Goto(c, "rollback")

\* The except IntegrityError clause, up to rollback() or raise.
Caught(c) ==
    /\ attempts' = [attempts EXCEPT ![c] = @ + 1]
    /\ Goto(c, IF attempts[c] + 1 > Retries THEN "raise" ELSE "rollback")

\* IntegrityError: query() does not retry.
Integrity(c) ==
    IF c \in direct THEN Goto(c, "raise") /\ UNCHANGED attempts ELSE Caught(c)

\* The INSERT raises IntegrityError: the id has been committed by another.
Conflict(c) ==
    /\ pc[c] = "insert"
    /\ base[c] + 1 \in Ids(table)
    /\ Integrity(c)
    /\ UNCHANGED <<direct, calm, base, pending, table, outcome>>

\* conn.commit() succeeds; the pool's own commit() then finds nothing to do.
Commit(c) ==
    /\ pc[c] = "commit"
    /\ table' = table \cup pending[c]
    /\ pending' = [pending EXCEPT ![c] = {}]
    /\ Goto(c, "reset")
    /\ UNCHANGED <<direct, calm, attempts, base, outcome>>

\* The pool's conn.reset() succeeds, and the call returns.
Return(c) ==
    /\ pc[c] = "reset"
    /\ outcome' = [outcome EXCEPT ![c] = "returned"]
    /\ Goto(c, "done")
    /\ UNCHANGED <<direct, calm, attempts, base, pending, table>>

\* conn.commit() raises IntegrityError; the server has rolled back.
CommitFails(c) ==
    /\ pc[c] = "commit"
    /\ c \notin calm /\ "deferred" \in Faults
    /\ pending' = [pending EXCEPT ![c] = {}]
    /\ Integrity(c)
    /\ UNCHANGED <<direct, calm, base, table, outcome>>

\* conn.rollback(), and the function is called again from its beginning.
Retry(c) ==
    /\ pc[c] = "rollback"
    /\ pending' = [pending EXCEPT ![c] = {}]
    /\ Goto(c, "select")
    /\ UNCHANGED <<direct, calm, attempts, base, table, outcome>>

\* The function, query()'s statement or conn.commit() raises another exception;
\* when COMMIT did, the server has rolled back.
Raise(c) ==
    /\ pc[c] \in {"select", "insert", "note", "commit"}
    /\ c \notin calm /\ "raises" \in Faults
    /\ pending' = [pending EXCEPT ![c] = IF pc[c] = "commit" THEN {} ELSE @]
    /\ Goto(c, "raise")
    /\ UNCHANGED <<direct, calm, attempts, base, table, outcome>>

\* Mutant of GiveUp: the exception leaves with the transaction still open.
GiveUpOpen(c) ==
    /\ pc[c] = "raise"
    /\ outcome' = [outcome EXCEPT ![c] = "raised"]
    /\ Goto(c, "done")
    /\ UNCHANGED <<direct, calm, attempts, base, pending, table>>

\* The rollback on the way out, by the wrapper, query() or the pool's
\* connection().
GiveUp(c) ==
    /\ pc[c] = "raise"
    /\ pending' = [pending EXCEPT ![c] = {}]
    /\ outcome' = [outcome EXCEPT ![c] = "raised"]
    /\ Goto(c, "done")
    /\ UNCHANGED <<direct, calm, attempts, base, table>>

\* The connection is lost, or the greenlet killed, while it waits for the server
\* in a statement, in commit() or in the pool's reset() after it, or in a
\* rollback.  What leaves the call is OperationalError, InterfaceError or
\* GreenletExit, and nothing retries that: rollback() fails too, on a connection
\* that is gone.  A COMMIT may have got through.
Sever(c) ==
    /\ c \notin calm /\ "severed" \in Faults
    /\ pc[c] \notin {"dying", "done"}
    /\ Goto(c, "dying")
    /\ \/ UNCHANGED <<pending, table>>
       \/ /\ pc[c] = "commit"
          /\ table' = table \cup pending[c]
          /\ pending' = [pending EXCEPT ![c] = {}]
    /\ UNCHANGED <<direct, calm, attempts, base, outcome>>

\* The server notices that the connection is gone and rolls back what it had
\* not committed; the caller cannot tell which.
Abort(c) ==
    /\ pc[c] = "dying"
    /\ pending' = [pending EXCEPT ![c] = {}]
    /\ outcome' = [outcome EXCEPT ![c] = "unknown"]
    /\ Goto(c, "done")
    /\ UNCHANGED <<direct, calm, attempts, base, table>>

-----------------------------------------------------------------------------
Step(c) ==
    \/ Select(c) \/ Insert(c) \/ InsertNote(c) \/ InsertDirect(c) \/ Conflict(c)
    \/ Commit(c) \/ Return(c) \/ CommitFails(c) \/ Retry(c) \/ GiveUp(c) \/ Abort(c)

Next == \E c \in Clients : Step(c) \/ Raise(c) \/ Sever(c)

Spec == Init /\ [][Next]_vars

\* PostgreSQL answers every query, once it need not wait for another client.
FairSpec == Spec /\ \A c \in Clients : WF_vars(Step(c))

-----------------------------------------------------------------------------
\* The values the variables take; a call makes at most Retries + 1 attempts.
TypeOK ==
    /\ direct \subseteq Clients
    /\ calm \subseteq Clients
    /\ pc \in [Clients -> {"select", "insert", "note", "commit", "rollback",
                           "reset", "raise", "dying", "done"}]
    /\ attempts \in [Clients -> 0 .. Retries + 1]
    /\ base \in [Clients -> Nat]
    /\ pending \in [Clients -> SUBSET (Nat \X Clients \X {"id", "note"})]
    /\ \A c \in Clients : \A row \in pending[c] : row[2] = c
    /\ table \subseteq (Nat \X Clients \X {"id", "note"})
    /\ outcome \in [Clients -> {"none", "returned", "raised", "unknown"}]

\* The calls are atomic and serializable: each one's rows appear at once, with
\* the id that follows the highest one at that moment although it was read
\* earlier, and at most once however often the function ran.  They are there if
\* the call returned, and not if it raised, IntegrityError or the function's own
\* exception.  Only a caller whose connection was lost, or that was killed, does
\* not know: the rows may be there, after a COMMIT without an answer or a
\* reset() that failed, but even then all of them or none.
A == INSTANCE AtomicTxn
AtomicSpec == A!Spec

\* docs/database.rst: retrying helps when another client inserts the same id.
\* With as many attempts as clients, those of query() included, a call to which
\* nothing else happens succeeds, as test_transaction_retries expects of its four
\* clients.
EnoughRetries ==
    Cardinality(Clients) <= Retries + 1 =>
        \A c \in calm \ direct : outcome[c] # "raised"

\* Every call ends: the retries do not go round forever, and nobody is left
\* waiting for the id of a call that failed, raised, was killed or lost its connection.
Finishes == \A c \in Clients : <>(pc[c] = "done")
=============================================================================
