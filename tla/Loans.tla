------------------------------- MODULE Loans -------------------------------
(***************************************************************************)
(* What a connection pool promises its callers, whatever happens inside:   *)
(* a connection is lent to at most one greenlet at a time, a greenlet has  *)
(* at most one loan, and at most Limit loans are out.  Which connection is *)
(* lent, and when one is opened or thrown away, is the pool's business.    *)
(***************************************************************************)
EXTENDS Integers, FiniteSets

CONSTANTS Greenlets,  \* the borrowers
          Conns,      \* connection objects
          NoConn,     \* "no loan"
          Limit       \* the number of loans that may be out

VARIABLE loan         \* the connection each greenlet has on loan

Borrowers == {g \in Greenlets : loan[g] # NoConn}

Init == loan = [g \in Greenlets |-> NoConn]

Lend(g, c) ==
    /\ loan[g] = NoConn
    /\ \A h \in Greenlets : loan[h] # c
    /\ Cardinality(Borrowers) < Limit
    /\ loan' = [loan EXCEPT ![g] = c]

GiveBack(g) ==
    /\ loan[g] # NoConn
    /\ loan' = [loan EXCEPT ![g] = NoConn]

Next == \E g \in Greenlets : GiveBack(g) \/ \E c \in Conns : Lend(g, c)

Spec == Init /\ [][Next]_loan
=============================================================================
