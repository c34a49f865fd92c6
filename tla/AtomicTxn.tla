----------------------------- MODULE AtomicTxn -----------------------------
(***************************************************************************)
(* What a transaction function promises (docs/database.rst): its queries   *)
(* are all committed or all rolled back.  The function is the documented   *)
(* example, which reads the highest id and inserts the next one, with a    *)
(* second row beside it.  Seen from outside, all of it happens at once.    *)
(***************************************************************************)
EXTENDS Integers

CONSTANT Clients

VARIABLES
    table,   \* the committed rows, <<id, client, part>>
    outcome  \* how each client's call ended

HighestId(rows) == CHOOSE n \in {0} \cup {row[1] : row \in rows} :
                       \A row \in rows : row[1] <= n

RowsOf(id, c) == {<<id, c, "id">>, <<id, c, "note">>}

Done(c) == \E row \in table : row[2] = c

Init ==
    /\ table = {}
    /\ outcome = [c \in Clients |-> "none"]

\* The whole function takes effect, once.
Apply(c) ==
    /\ outcome[c] = "none"
    /\ ~ Done(c)
    /\ table' = table \cup RowsOf(HighestId(table) + 1, c)
    /\ UNCHANGED outcome

\* The call returns, having taken effect.
Return(c) ==
    /\ outcome[c] = "none"
    /\ Done(c)
    /\ outcome' = [outcome EXCEPT ![c] = "returned"]
    /\ UNCHANGED table

\* The call raises, and nothing has taken effect.
GiveUp(c) ==
    /\ outcome[c] = "none"
    /\ ~ Done(c)
    /\ outcome' = [outcome EXCEPT ![c] = "raised"]
    /\ UNCHANGED table

\* A caller that is killed, or cut off from the server, learns nothing.
Lose(c) ==
    /\ outcome[c] = "none"
    /\ outcome' = [outcome EXCEPT ![c] = "unknown"]
    /\ UNCHANGED table

Next == \E c \in Clients : Apply(c) \/ Return(c) \/ GiveUp(c) \/ Lose(c)

Spec == Init /\ [][Next]_<<table, outcome>>
=============================================================================
