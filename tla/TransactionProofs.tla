------------------------- MODULE TransactionProofs -------------------------
(***************************************************************************)
(* Proofs about Transaction, for any number of clients and of retries, any *)
(* mixture of transaction() and query(), and any faults.                   *)
(***************************************************************************)
EXTENDS Transaction, FiniteSetTheorems, TLAPS

\* The clients whose rows are in the table, and how many they are.
Committed == {row[2] : row \in table}
Commits   == Cardinality(Committed)

\* The ids are those an atomic execution would have given: one each, without
\* gaps, to the clients that committed.
Numbered ==
    /\ Ids(table) = 1 .. Commits
    /\ \A c \in Committed : pc[c] \in {"reset", "dying", "done"} /\ outcome[c] # "raised"
    /\ \A c \in Clients : pc[c] = "reset" => c \in Committed
    /\ \A c \in Clients : base[c] <= Commits
    /\ \A c \in Clients : outcome[c] = "none" <=> pc[c] # "done"

\* The rows of an open transaction, at each place of the function.  An open
\* transaction has the next id, so that there is only one with rows: the others
\* wait for it.
Open ==
    /\ \A c \in Clients :
          /\ pc[c] \in {"select", "insert", "reset", "rollback", "done"} => pending[c] = {}
          /\ pc[c] = "note" => pending[c] = {<<base[c] + 1, c, "id">>}
          /\ pc[c] = "commit" =>
                pending[c] = {<<base[c] + 1, c, "id">>, <<base[c] + 1, c, "note">>}
          /\ pending[c] # {} => base[c] = Commits /\ Ids(pending[c]) = {base[c] + 1}
    /\ \A c, d \in Clients : pending[c] # {} /\ pending[d] # {} => c = d

\* A call of transaction() to which nothing happens has been overtaken by another
\* client's commit before each of its retries, and each of those once.
Overtaken ==
    \A c \in calm \ direct :
       /\ pc[c] \in {"select", "rollback"} => attempts[c] <= Commits
       /\ pc[c] \in {"insert", "note", "commit"} => attempts[c] <= base[c]
       /\ Cardinality(Clients) <= Retries + 1 => pc[c] # "raise" /\ outcome[c] # "raised"

\* As long as the call goes on it has a try left.
Trying ==
    \A c \in Clients :
       pc[c] \in {"select", "insert", "note", "commit", "rollback"} => attempts[c] <= Retries

TxnInv == TypeOK /\ Numbered /\ Open /\ Overtaken /\ Trying

-----------------------------------------------------------------------------
LEMMA HighestOf ==
  ASSUME NEW rows, NEW h \in Nat, Ids(rows) = 1 .. h
  PROVE  Highest(rows) = h /\ A!HighestId(rows) = h
<1>1. h \in {0} \cup Ids(rows) /\ \A m \in Ids(rows) : m <= h
  OBVIOUS
<1>2. \A n \in {0} \cup Ids(rows) : (\A m \in Ids(rows) : m <= n) => n = h
  OBVIOUS
<1>3. Highest(rows) = h
  BY <1>1, <1>2 DEF Highest
<1>4. A!HighestId(rows) = h
  <2>1. \A n : (\A row \in rows : row[1] <= n) <=> (\A m \in Ids(rows) : m <= n)
    BY DEF Ids
  <2>2. {row[1] : row \in rows} = Ids(rows)
    BY DEF Ids
  <2>3. QED
    BY <1>1, <1>2, <2>1, <2>2 DEF A!HighestId
<1>5. QED
  BY <1>3, <1>4

LEMMA CommittedFinite ==
  ASSUME TypeOK
  PROVE  /\ Committed \subseteq Clients
         /\ IsFiniteSet(Committed)
         /\ Commits \in Nat
<1>1. Committed \subseteq Clients
  BY DEF TypeOK, Committed
<1>2. QED
  BY <1>1, TransactionAssumption, FS_Subset, FS_CardinalityType DEF Commits

\* All who committed are others.
LEMMA Outnumbered ==
  ASSUME TypeOK, NEW c \in Clients, c \notin Committed
  PROVE  Commits <= Cardinality(Clients) - 1
<1>1. /\ Committed \subseteq Clients \ {c}
      /\ IsFiniteSet(Clients \ {c})
      /\ Cardinality(Clients \ {c}) = Cardinality(Clients) - 1
  BY CommittedFinite, TransactionAssumption, FS_RemoveElement
<1>2. QED
  BY <1>1, FS_Subset DEF Commits

\* What a commit does to the table.
LEMMA CommitRows ==
  ASSUME TxnInv, NEW c \in Clients, pc[c] = "commit", table' = table \cup pending[c]
  PROVE  /\ c \notin Committed
         /\ Committed' = Committed \cup {c}
         /\ Commits' = Commits + 1
         /\ Ids(table') = 1 .. Commits'
         /\ table' = table \cup A!RowsOf(A!HighestId(table) + 1, c)
         /\ table' \subseteq (Nat \X Clients \X {"id", "note"})
         /\ base[c] = Commits
<1>1. /\ pending[c] = {<<base[c] + 1, c, "id">>, <<base[c] + 1, c, "note">>}
      /\ base[c] = Commits /\ Ids(pending[c]) = {base[c] + 1}
      /\ c \notin Committed /\ Commits \in Nat
  BY CommittedFinite DEF TxnInv, Open, Numbered
<1>2. Committed' = Committed \cup {c}
  <2>1. \A row \in table' : row[2] \in Committed \cup {c}
    BY <1>1 DEF Committed
  <2>2. \A d \in Committed \cup {c} : \E row \in table' : row[2] = d
    <3>1. <<base[c] + 1, c, "id">> \in table' /\ <<base[c] + 1, c, "id">>[2] = c
      BY <1>1
    <3>2. \E row \in table' : row[2] = c
      BY <3>1
    <3>3. \A d \in Committed : \E row \in table' : row[2] = d
      BY DEF Committed
    <3>4. QED
      BY <3>2, <3>3
  <2>3. QED
    BY <2>1, <2>2 DEF Committed
<1>3. Commits' = Commits + 1
  BY <1>1, <1>2, CommittedFinite, FS_AddElement DEF Commits, TxnInv
<1>4. Ids(table') = 1 .. Commits'
  <2>1. Ids(table') = Ids(table) \cup {Commits + 1}
    BY <1>1 DEF Ids
  <2>2. Ids(table) = 1 .. Commits
    BY DEF TxnInv, Numbered
  <2>3. (1 .. Commits) \cup {Commits + 1} = 1 .. (Commits + 1)
    BY <1>1
  <2>4. QED
    BY <1>3, <2>1, <2>2, <2>3
<1>5. table' = table \cup A!RowsOf(A!HighestId(table) + 1, c)
  BY <1>1, HighestOf DEF A!RowsOf, TxnInv, Numbered
<1>6. table' \subseteq (Nat \X Clients \X {"id", "note"})
  BY <1>1 DEF TxnInv, TypeOK
<1>7. QED
  BY <1>1, <1>2, <1>3, <1>4, <1>5, <1>6

LEMMA TxnInvInit == Init => TxnInv
<1>1. SUFFICES ASSUME Init PROVE TxnInv
  OBVIOUS
<1>2. TypeOK
  BY <1>1, TransactionAssumption DEF Init, TypeOK
<1>3. Committed = {} /\ Ids(table) = {} /\ Commits = 0
  BY <1>1, FS_EmptySet DEF Init, Committed, Ids, Commits
<1>4. Numbered /\ Open /\ Overtaken /\ Trying
  BY <1>1, <1>3, TransactionAssumption DEF Init, Numbered, Open, Overtaken, Trying
<1>5. QED
  BY <1>2, <1>4 DEF TxnInv

-----------------------------------------------------------------------------
LEMMA TableKept ==
  ASSUME UNCHANGED table
  PROVE  /\ Committed' = Committed
         /\ Commits' = Commits
         /\ Ids(table') = Ids(table)
BY DEF Committed, Commits, Ids

LEMMA SelectStep ==
  ASSUME TxnInv, NEW c \in Clients, Select(c)
  PROVE  TxnInv'
<1>1. /\ pc[c] = "select" /\ Commits \in Nat /\ Highest(table) = Commits /\ TypeOK
      /\ base' = [base EXCEPT ![c] = Commits]
      /\ pc' = [pc EXCEPT ![c] = "insert"]
      /\ UNCHANGED <<direct, calm, attempts, pending, table, outcome>>
  BY CommittedFinite, HighestOf DEF Select, Goto, TxnInv, Numbered
<1>2. Committed' = Committed /\ Commits' = Commits /\ Ids(table') = Ids(table)
  BY <1>1, TableKept
<1>3. TypeOK'
  BY <1>1 DEF TypeOK
<1>4. Numbered'
  BY <1>1, <1>2, CommittedFinite DEF TxnInv, TypeOK, Numbered
<1>5. Open'
  BY <1>1, <1>2 DEF TxnInv, TypeOK, Open
<1>6. Overtaken' /\ Trying'
  BY <1>1, <1>2 DEF TxnInv, TypeOK, Overtaken, Trying
<1>7. QED
  BY <1>3, <1>4, <1>5, <1>6 DEF TxnInv

\* The next id is free: nobody has an open transaction with rows in it.
LEMMA IdFree ==
  ASSUME TxnInv, NEW c \in Clients, pc[c] = "insert",
         base[c] + 1 \notin Ids(table), ~ Contended(c, base[c] + 1)
  PROVE  base[c] = Commits /\ \A d \in Clients : pending[d] = {}
<1>1. base[c] \in Nat /\ Commits \in Nat /\ base[c] <= Commits /\ Ids(table) = 1 .. Commits
  BY CommittedFinite DEF TxnInv, TypeOK, Numbered
<1>2. base[c] = Commits
  BY <1>1
<1>3. ASSUME NEW d \in Clients
      PROVE  pending[d] = {}
  <2>1. CASE d = c
    BY <2>1 DEF TxnInv, Open
  <2>2. CASE d # c
    BY <1>2, <2>2 DEF TxnInv, Open, Contended
  <2>3. QED
    BY <2>1, <2>2
<1>4. QED
  BY <1>2, <1>3

\* An INSERT that succeeds leaves the transaction with the given rows.
LEMMA InsertedStep ==
  ASSUME TxnInv, NEW c \in Clients, NEW rows, NEW next \in {"note", "commit"},
         base[c] = Commits, \A d \in Clients \ {c} : pending[d] = {},
         pc[c] \in {"insert", "note"},
         pc' = [pc EXCEPT ![c] = next],
         pending' = [pending EXCEPT ![c] = rows],
         rows = IF next = "note" THEN {<<base[c] + 1, c, "id">>}
                ELSE {<<base[c] + 1, c, "id">>, <<base[c] + 1, c, "note">>},
         UNCHANGED <<direct, calm, attempts, base, table, outcome>>
  PROVE  TxnInv'
<1>1. Committed' = Committed /\ Commits' = Commits /\ Ids(table') = Ids(table)
  BY TableKept
<1>2. rows \subseteq (Nat \X {c} \X {"id", "note"}) /\ Ids(rows) = {base[c] + 1}
  <2>1. base[c] + 1 \in Nat
    BY DEF TxnInv, TypeOK
  <2>2. CASE next = "note"
    BY <2>1, <2>2 DEF Ids
  <2>3. CASE next = "commit"
    BY <2>1, <2>3 DEF Ids
  <2>4. QED
    BY <2>2, <2>3
<1>3. pending'[c] = rows /\ \A d \in Clients \ {c} : pending'[d] = {}
  BY DEF TxnInv, TypeOK
<1>4. TypeOK'
  BY <1>2, <1>3 DEF TxnInv, TypeOK
<1>5. Numbered'
  BY <1>1 DEF TxnInv, TypeOK, Numbered
<1>6. Open'
  BY <1>1, <1>2, <1>3 DEF TxnInv, TypeOK, Open
<1>7. Overtaken' /\ Trying'
  BY <1>1 DEF TxnInv, TypeOK, Overtaken, Trying
<1>8. QED
  BY <1>4, <1>5, <1>6, <1>7 DEF TxnInv

LEMMA InsertStep ==
  ASSUME TxnInv, NEW c \in Clients, Insert(c) \/ InsertNote(c) \/ InsertDirect(c)
  PROVE  TxnInv'
<1>1. CASE Insert(c)
  <2>1. base[c] = Commits /\ \A d \in Clients : pending[d] = {}
    BY <1>1, IdFree DEF Insert
  <2>2. pending' = [pending EXCEPT ![c] = {<<base[c] + 1, c, "id">>}]
    BY <1>1, <2>1 DEF Insert
  <2>3. QED
    BY <1>1, <2>1, <2>2, InsertedStep DEF Insert, Goto
<1>2. CASE InsertNote(c)
  <2>1. pc[c] = "note" /\ pending[c] = {<<base[c] + 1, c, "id">>}
    BY <1>2 DEF InsertNote, TxnInv, Open
  <2>2. base[c] = Commits /\ \A d \in Clients \ {c} : pending[d] = {}
    BY <2>1 DEF TxnInv, Open
  <2>3. pending' = [pending EXCEPT ![c] =
                       {<<base[c] + 1, c, "id">>, <<base[c] + 1, c, "note">>}]
    BY <1>2, <2>1 DEF InsertNote
  <2>4. QED
    BY <1>2, <2>1, <2>2, <2>3, InsertedStep DEF InsertNote, Goto
<1>3. CASE InsertDirect(c)
  <2>1. base[c] = Commits /\ \A d \in Clients : pending[d] = {}
    BY <1>3, IdFree DEF InsertDirect
  <2>2. pending' = [pending EXCEPT ![c] =
                       {<<base[c] + 1, c, "id">>, <<base[c] + 1, c, "note">>}]
    BY <1>3 DEF InsertDirect
  <2>3. QED
    BY <1>3, <2>1, <2>2, InsertedStep DEF InsertDirect, Goto
<1>4. QED
  BY <1>1, <1>2, <1>3

\* IntegrityError, after which the transaction has no rows.
LEMMA IntegrityStep ==
  ASSUME TxnInv, NEW c \in Clients, Conflict(c) \/ CommitFails(c)
  PROVE  TxnInv'
<1>1. /\ TypeOK /\ Commits \in Nat /\ Ids(table) = 1 .. Commits
      /\ pc[c] \in {"insert", "commit"}
      /\ c \in calm => base[c] + 1 <= Commits
      /\ Integrity(c)
      /\ UNCHANGED <<direct, calm, base, table, outcome>>
  BY CommittedFinite DEF Conflict, CommitFails, TxnInv, Numbered
<1>2. pending' = [pending EXCEPT ![c] = {}]
  BY DEF Conflict, CommitFails, TxnInv, TypeOK, Open
<1>3. Committed' = Committed /\ Commits' = Commits /\ Ids(table') = Ids(table)
  BY <1>1, TableKept
<1>4. attempts[c] \in 0 .. Retries /\ Retries \in Nat
  BY <1>1, TransactionAssumption DEF TxnInv, TypeOK, Trying
<1>5. PICK next \in {"raise", "rollback"} :
         /\ pc' = [pc EXCEPT ![c] = next]
         /\ attempts' = [attempts EXCEPT ![c] = IF c \in direct THEN @ ELSE @ + 1]
         /\ c \in direct => next = "raise"
         /\ c \notin direct => (next = "raise" <=> attempts[c] + 1 > Retries)
  BY <1>1 DEF Integrity, Caught, Goto, TypeOK
<1>6. attempts'[c] \in 0 .. Retries + 1
  BY <1>1, <1>4, <1>5 DEF TypeOK
<1>7. TypeOK'
  BY <1>1, <1>2, <1>5, <1>6 DEF TypeOK
<1>8. Numbered'
  BY <1>1, <1>3, <1>5 DEF TxnInv, TypeOK, Numbered
<1>9. Open'
  BY <1>1, <1>2, <1>3, <1>5 DEF TxnInv, TypeOK, Open
<1>10. Trying'
  BY <1>1, <1>4, <1>5 DEF TxnInv, TypeOK, Trying
<1>11. Overtaken'
  <2>1. ASSUME c \notin direct, c \in calm
        PROVE  /\ attempts'[c] <= Commits
               /\ Cardinality(Clients) <= Retries + 1 => next # "raise"
    <3>1. attempts[c] <= base[c] /\ base[c] \in Nat
      BY <1>1, <2>1 DEF TxnInv, TypeOK, Overtaken
    <3>2. attempts[c] + 1 <= Commits /\ attempts'[c] = attempts[c] + 1
      BY <1>1, <1>4, <1>5, <2>1, <3>1 DEF TypeOK
    <3>3. c \notin Committed
      BY <1>1 DEF TxnInv, Numbered
    <3>4. Commits <= Cardinality(Clients) - 1 /\ Cardinality(Clients) \in Nat
      BY <1>1, <3>3, Outnumbered, TransactionAssumption, FS_CardinalityType
    <3>5. QED
      BY <1>1, <1>4, <1>5, <2>1, <3>2, <3>4
  <2>2. QED
    BY <1>1, <1>3, <1>5, <2>1 DEF TxnInv, TypeOK, Overtaken
<1>12. QED
  BY <1>7, <1>8, <1>9, <1>10, <1>11 DEF TxnInv


\* The rows become visible; the client goes on to return, or is cut off.
LEMMA CommittedStep ==
  ASSUME TxnInv, NEW c \in Clients, pc[c] = "commit",
         table' = table \cup pending[c],
         pending' = [pending EXCEPT ![c] = {}],
         NEW next \in {"reset", "dying"}, pc' = [pc EXCEPT ![c] = next],
         UNCHANGED <<direct, calm, attempts, base, outcome>>
  PROVE  TxnInv'
<1>1. /\ c \notin Committed /\ Committed' = Committed \cup {c}
      /\ Commits \in Nat /\ Commits' = Commits + 1
      /\ Ids(table') = 1 .. Commits'
      /\ table' \subseteq (Nat \X Clients \X {"id", "note"})
  BY CommitRows, CommittedFinite DEF TxnInv
<1>2. pending[c] # {} /\ \A d \in Clients : pending'[d] = {}
  BY DEF TxnInv, TypeOK, Open
<1>3. TypeOK'
  BY <1>1, <1>2 DEF TxnInv, TypeOK
<1>4. Numbered'
  <2>1. \A d \in Clients : base'[d] \in Nat /\ base'[d] <= Commits'
    BY <1>1 DEF TxnInv, TypeOK, Numbered
  <2>2. \A d \in Committed' : pc'[d] \in {"reset", "dying", "done"} /\ outcome'[d] # "raised"
    BY <1>1, CommittedFinite DEF TxnInv, TypeOK, Numbered
  <2>3. \A d \in Clients : pc'[d] = "reset" => d \in Committed'
    BY <1>1 DEF TxnInv, TypeOK, Numbered
  <2>4. \A d \in Clients : outcome'[d] = "none" <=> pc'[d] # "done"
    BY DEF TxnInv, TypeOK, Numbered
  <2>5. QED
    BY <1>1, <2>1, <2>2, <2>3, <2>4 DEF Numbered
<1>5. Open'
  BY <1>2 DEF TxnInv, TypeOK, Open
<1>6. Overtaken' /\ Trying'
  BY <1>1 DEF TxnInv, TypeOK, Overtaken, Trying
<1>7. QED
  BY <1>3, <1>4, <1>5, <1>6 DEF TxnInv

\* The steps that neither write nor commit nor count: the transaction is left as
\* it is or emptied.
LEMMA LeavingStep ==
  ASSUME TxnInv, NEW c \in Clients, Return(c) \/ Retry(c) \/ Raise(c) \/ GiveUp(c) \/ Abort(c)
  PROVE  TxnInv'
<1>1. Committed' = Committed /\ Commits' = Commits /\ Ids(table') = Ids(table) /\ TypeOK
  BY TableKept DEF Return, Retry, Raise, GiveUp, Abort, TxnInv
<1>2. CASE Retry(c)
  <2>1. TypeOK'
    BY <1>1, <1>2 DEF Retry, Goto, TypeOK
  <2>2. Numbered'
    BY <1>1, <1>2 DEF Retry, Goto, TxnInv, TypeOK, Numbered
  <2>3. Open'
    BY <1>1, <1>2 DEF Retry, Goto, TxnInv, TypeOK, Open
  <2>4. Overtaken' /\ Trying'
    BY <1>1, <1>2 DEF Retry, Goto, TxnInv, TypeOK, Overtaken, Trying
  <2>5. QED
    BY <2>1, <2>2, <2>3, <2>4 DEF TxnInv
<1>3. CASE Raise(c)
  <2>1. TypeOK'
    BY <1>1, <1>3 DEF Raise, Goto, TypeOK
  <2>2. Numbered'
    BY <1>1, <1>3 DEF Raise, Goto, TxnInv, TypeOK, Numbered
  <2>3. Open'
    BY <1>1, <1>3 DEF Raise, Goto, TxnInv, TypeOK, Open
  <2>4. Overtaken' /\ Trying'
    BY <1>1, <1>3 DEF Raise, Goto, TxnInv, TypeOK, Overtaken, Trying
  <2>5. QED
    BY <2>1, <2>2, <2>3, <2>4 DEF TxnInv
<1>4. CASE GiveUp(c)
  <2>1. TypeOK'
    BY <1>1, <1>4 DEF GiveUp, Goto, TypeOK
  <2>2. Numbered'
    BY <1>1, <1>4 DEF GiveUp, Goto, TxnInv, TypeOK, Numbered
  <2>3. Open'
    BY <1>1, <1>4 DEF GiveUp, Goto, TxnInv, TypeOK, Open
  <2>4. Overtaken' /\ Trying'
    BY <1>1, <1>4 DEF GiveUp, Goto, TxnInv, TypeOK, Overtaken, Trying
  <2>5. QED
    BY <2>1, <2>2, <2>3, <2>4 DEF TxnInv
<1>5. CASE Abort(c)
  <2>1. TypeOK'
    BY <1>1, <1>5 DEF Abort, Goto, TypeOK
  <2>2. Numbered'
    BY <1>1, <1>5 DEF Abort, Goto, TxnInv, TypeOK, Numbered
  <2>3. Open'
    BY <1>1, <1>5 DEF Abort, Goto, TxnInv, TypeOK, Open
  <2>4. Overtaken' /\ Trying'
    BY <1>1, <1>5 DEF Abort, Goto, TxnInv, TypeOK, Overtaken, Trying
  <2>5. QED
    BY <2>1, <2>2, <2>3, <2>4 DEF TxnInv
<1>6. CASE Return(c)
  <2>1. TypeOK'
    BY <1>1, <1>6 DEF Return, Goto, TypeOK
  <2>2. Numbered'
    BY <1>1, <1>6 DEF Return, Goto, TxnInv, TypeOK, Numbered
  <2>3. Open'
    BY <1>1, <1>6 DEF Return, Goto, TxnInv, TypeOK, Open
  <2>4. Overtaken' /\ Trying'
    BY <1>1, <1>6 DEF Return, Goto, TxnInv, TypeOK, Overtaken, Trying
  <2>5. QED
    BY <2>1, <2>2, <2>3, <2>4 DEF TxnInv
<1>7. QED
  BY <1>2, <1>3, <1>4, <1>5, <1>6

LEMMA SeverStep ==
  ASSUME TxnInv, NEW c \in Clients, Sever(c)
  PROVE  TxnInv'
<1>1. CASE pc[c] = "commit" /\ table' = table \cup pending[c]
           /\ pending' = [pending EXCEPT ![c] = {}]
  BY <1>1, CommittedStep DEF Sever, Goto
<1>2. CASE UNCHANGED <<pending, table>>
  <2>1. Committed' = Committed /\ Commits' = Commits /\ Ids(table') = Ids(table) /\ TypeOK
    BY <1>2, TableKept DEF TxnInv
  <2>2. TypeOK'
    BY <1>2, <2>1 DEF Sever, Goto, TypeOK
  <2>3. Numbered'
    BY <1>2, <2>1 DEF Sever, Goto, TxnInv, TypeOK, Numbered
  <2>4. Open'
    BY <1>2, <2>1 DEF Sever, Goto, TxnInv, TypeOK, Open
  <2>5. Overtaken' /\ Trying'
    BY <1>2, <2>1 DEF Sever, Goto, TxnInv, TypeOK, Overtaken, Trying
  <2>6. QED
    BY <2>2, <2>3, <2>4, <2>5 DEF TxnInv
<1>3. QED
  BY <1>1, <1>2 DEF Sever

LEMMA TxnInvStep ==
  ASSUME TxnInv, [Next]_vars
  PROVE  TxnInv'
<1>1. ASSUME NEW c \in Clients, Step(c) \/ Raise(c) \/ Sever(c)
      PROVE  TxnInv'
  <2>1. CASE Commit(c)
    BY <2>1, CommittedStep DEF Commit, Goto
  <2>2. QED
    BY <1>1, <2>1, SelectStep, InsertStep, IntegrityStep, LeavingStep, SeverStep DEF Step
<1>2. CASE UNCHANGED vars
  <2>1. Committed' = Committed /\ Commits' = Commits /\ Ids(table') = Ids(table)
    BY <1>2, TableKept DEF vars
  <2>2. TypeOK' /\ Numbered'
    BY <1>2, <2>1 DEF vars, TxnInv, TypeOK, Numbered
  <2>3. Open' /\ Overtaken' /\ Trying'
    BY <1>2, <2>1 DEF vars, TxnInv, Open, Overtaken, Trying
  <2>4. QED
    BY <2>2, <2>3 DEF TxnInv
<1>3. QED
  BY <1>1, <1>2 DEF Next

LEMMA TxnInvAlways == Spec => []TxnInv
<1>1. TxnInv /\ [Next]_vars => TxnInv'
  BY TxnInvStep
<1>2. QED
  BY <1>1, TxnInvInit, PTL DEF Spec

\* Every state of every mixture of calls has the right types; in particular no
\* call makes more than Retries + 1 attempts.
THEOREM TypeCorrect == Spec => []TypeOK
BY TxnInvAlways, PTL DEF TxnInv

\* With as many attempts as clients, a call of transaction() to which nothing else
\* happens does not raise.
THEOREM EnoughRetriesAlways == Spec => []EnoughRetries
<1>1. TxnInv => EnoughRetries
  BY DEF TxnInv, Overtaken, EnoughRetries
<1>2. QED
  BY <1>1, TxnInvAlways, PTL

-----------------------------------------------------------------------------
LEMMA DoneIsCommitted ==
  ASSUME TxnInv, NEW c \in Clients
  PROVE  A!Done(c) <=> c \in Committed
BY DEF A!Done, Committed

\* Every step of the function is a step of an atomic one, or nothing.
LEMMA AtomicStep ==
  ASSUME TxnInv, [Next]_vars
  PROVE  [A!Next]_<<table, outcome>>
<1>1. ASSUME NEW c \in Clients, pc[c] = "commit", table' = table \cup pending[c],
             UNCHANGED outcome
      PROVE  A!Next
  <2>1. outcome[c] = "none" /\ ~ A!Done(c)
    BY <1>1, CommitRows, DoneIsCommitted DEF TxnInv, Numbered
  <2>2. table' = table \cup A!RowsOf(A!HighestId(table) + 1, c)
    BY <1>1, CommitRows
  <2>3. A!Apply(c)
    BY <1>1, <2>1, <2>2 DEF A!Apply
  <2>4. QED
    BY <2>3 DEF A!Next
<1>2. ASSUME NEW c \in Clients, Return(c)
      PROVE  A!Next
  <2>1. outcome[c] = "none" /\ A!Done(c)
    BY <1>2, DoneIsCommitted DEF Return, TxnInv, Numbered
  <2>2. A!Return(c)
    BY <1>2, <2>1 DEF Return, A!Return
  <2>3. QED
    BY <2>2 DEF A!Next
<1>3. ASSUME NEW c \in Clients, Commit(c) \/ Sever(c)
      PROVE  A!Next \/ UNCHANGED <<table, outcome>>
  BY <1>1, <1>3 DEF Commit, Sever
<1>4. ASSUME NEW c \in Clients, GiveUp(c)
      PROVE  A!Next
  <2>1. outcome[c] = "none" /\ ~ A!Done(c)
    BY <1>4, DoneIsCommitted DEF GiveUp, TxnInv, Numbered
  <2>2. A!GiveUp(c)
    BY <1>4, <2>1 DEF GiveUp, A!GiveUp
  <2>3. QED
    BY <2>2 DEF A!Next
<1>5. ASSUME NEW c \in Clients, Abort(c)
      PROVE  A!Next
  <2>1. outcome[c] = "none"
    BY <1>5 DEF Abort, TxnInv, Numbered
  <2>2. A!Lose(c)
    BY <1>5, <2>1 DEF Abort, A!Lose
  <2>3. QED
    BY <2>2 DEF A!Next
<1>6. ASSUME NEW c \in Clients,
             \/ Select(c) \/ Insert(c) \/ InsertNote(c) \/ InsertDirect(c) \/ Conflict(c)
             \/ CommitFails(c) \/ Retry(c) \/ Raise(c)
      PROVE  UNCHANGED <<table, outcome>>
  BY <1>6 DEF Select, Insert, InsertNote, InsertDirect, Conflict, CommitFails, Retry, Raise
<1>7. CASE UNCHANGED vars
  BY <1>7 DEF vars
<1>8. QED
  BY <1>2, <1>3, <1>4, <1>5, <1>6, <1>7 DEF Next, Step

\* The calls are atomic and serializable, each one's rows appearing at once.
THEOREM ImplementsAtomicTxn == Spec => AtomicSpec
<1>1. Init => A!Init
  BY DEF Init, A!Init
<1>2. TxnInv /\ [Next]_vars => [A!Next]_<<table, outcome>>
  BY AtomicStep
<1>3. QED
  BY <1>1, <1>2, TxnInvAlways, PTL DEF Spec, AtomicSpec, A!Spec

=============================================================================
