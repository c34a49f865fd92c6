---------------------------- MODULE PgPoolProofs ----------------------------
(***************************************************************************)
(* What holds of PgPool for any number of greenlets, any limit and any     *)
(* combination of faults.                                                  *)
(***************************************************************************)
EXTENDS PgPool, FiniteSetTheorems, TLAPS

-----------------------------------------------------------------------------
\* pool.pop(0) of a sequence without duplicates.
LEMMA PopFront ==
    ASSUME NEW S, NEW s \in Seq(S), s # <<>>, IsInjective(s)
    PROVE  /\ Head(s) \in S
           /\ Head(s) \in ToSet(s)
           /\ Tail(s) \in Seq(S)
           /\ IsInjective(Tail(s))
           /\ ToSet(Tail(s)) = ToSet(s) \ {Head(s)}
<1>1. Len(s) \in Nat \ {0} /\ DOMAIN s = 1 .. Len(s) /\ Head(s) = s[1]
  OBVIOUS
<1>2. /\ Tail(s) \in Seq(S)
      /\ DOMAIN Tail(s) = 1 .. Len(s) - 1
      /\ \A i \in 1 .. Len(s) - 1 : Tail(s)[i] = s[i + 1]
  BY <1>1
<1>3. Head(s) \in S /\ Head(s) \in ToSet(s)
  BY <1>1 DEF ToSet
<1>4. IsInjective(Tail(s))
  BY <1>1, <1>2 DEF IsInjective
<1>5. ASSUME NEW x \in ToSet(Tail(s))
      PROVE  x \in ToSet(s) \ {Head(s)}
  BY <1>1, <1>2, <1>5 DEF ToSet, IsInjective
<1>6. ASSUME NEW x \in ToSet(s), x # Head(s)
      PROVE  x \in ToSet(Tail(s))
  <2>1. PICK i \in 1 .. Len(s) : x = s[i]
    BY <1>1, <1>6 DEF ToSet
  <2>2. i - 1 \in 1 .. Len(s) - 1 /\ Tail(s)[i - 1] = x
    BY <1>1, <1>2, <1>6, <2>1
  <2>3. QED
    BY <1>2, <2>2 DEF ToSet
<1>7. QED
  BY <1>2, <1>3, <1>4, <1>5, <1>6

\* pool.append(conn) of a connection that is not in the pool.
LEMMA PushBack ==
    ASSUME NEW S, NEW s \in Seq(S), NEW e \in S, e \notin ToSet(s), IsInjective(s)
    PROVE  /\ Append(s, e) \in Seq(S)
           /\ IsInjective(Append(s, e))
           /\ ToSet(Append(s, e)) = ToSet(s) \cup {e}
<1>1. Len(s) \in Nat /\ DOMAIN s = 1 .. Len(s)
  OBVIOUS
<1>2. /\ Append(s, e) \in Seq(S)
      /\ DOMAIN Append(s, e) = 1 .. Len(s) + 1
      /\ Append(s, e)[Len(s) + 1] = e
      /\ \A i \in 1 .. Len(s) : Append(s, e)[i] = s[i]
  BY <1>1
<1>3. \A i \in 1 .. Len(s) : s[i] # e
  BY <1>1 DEF ToSet
<1>4. IsInjective(Append(s, e))
  BY <1>1, <1>2, <1>3 DEF IsInjective
<1>5. ToSet(Append(s, e)) = ToSet(s) \cup {e}
  <2>1. ASSUME NEW x \in ToSet(Append(s, e))
        PROVE  x \in ToSet(s) \cup {e}
    BY <1>1, <1>2, <2>1 DEF ToSet
  <2>2. ASSUME NEW x \in ToSet(s)
        PROVE  x \in ToSet(Append(s, e))
    BY <1>1, <1>2, <2>2 DEF ToSet
  <2>3. e \in ToSet(Append(s, e))
    BY <1>1, <1>2 DEF ToSet
  <2>4. QED
    BY <2>1, <2>2, <2>3
<1>6. QED
  BY <1>2, <1>4, <1>5

-----------------------------------------------------------------------------
\* Moving a greenlet adds it to the admitted ones or removes it from them.
LEMMA GotoAdmitted ==
    ASSUME pc \in [Greenlets -> Places],
           NEW g \in Greenlets, NEW place \in Places, Goto(g, place)
    PROVE  /\ pc' \in [Greenlets -> Places]
           /\ Admitted' = IF place \in {"outside", "acquire"}
                          THEN Admitted \ {g} ELSE Admitted \cup {g}
BY DEF Goto, Admitted, Places

LEMMA AdmittedFinite ==
    /\ IsFiniteSet(Admitted)
    /\ Cardinality(Admitted) \in Nat
BY PoolAssumption, FS_Subset, FS_CardinalityType DEF Admitted

\* Every permit is free, in use, or was lost when connect() or reset() raised.
Permits == sem + Cardinality(Admitted) + refused + leaked = Limit

LEMMA EnterAdmitted ==
    ASSUME NEW g \in Greenlets, g \notin Admitted
    PROVE  Cardinality(Admitted \cup {g}) = Cardinality(Admitted) + 1
BY AdmittedFinite, FS_AddElement

LEMMA LeaveAdmitted ==
    ASSUME NEW g \in Greenlets, g \in Admitted
    PROVE  /\ Cardinality(Admitted \ {g}) = Cardinality(Admitted) - 1
           /\ Cardinality(Admitted) >= 1
<1>1. Cardinality(Admitted \ {g}) = Cardinality(Admitted) - 1
  BY AdmittedFinite, FS_RemoveElement
<1>2. Cardinality(Admitted) # 0
  BY AdmittedFinite, FS_EmptySet
<1>3. QED
  BY <1>1, <1>2, AdmittedFinite

-----------------------------------------------------------------------------
\* The steps of Next, one by one.
LEMMA NextSteps ==
    ASSUME Next
    PROVE  \/ \E g \in Greenlets :
                 \/ Enter(g) \/ Acquire(g) \/ ConnectOk(g) \/ ConnectRaises(g)
                 \/ Execute(g) \/ QueryFails(g) \/ Settle(g)
                 \/ ExitReturn(g) \/ ExitOperational(g) \/ ExitRaise(g)
                 \/ CommitOk(g) \/ CommitRaises(g) \/ Rollback(g)
                 \/ ResetOk(g) \/ ResetRaises(g)
           \/ \E c \in Conns : Drop(c)
BY DEF Next, Connect, Exit, Finish

\* The variables stay in their types and no permit is released twice.
LEMMA TypeStep ==
    ASSUME TypeOK, Permits, [Next]_vars
    PROVE  TypeOK' /\ Permits'
<1> USE AdmittedFinite, PoolAssumption
<1>1. ASSUME NEW g \in Greenlets, Enter(g)
      PROVE  TypeOK' /\ Permits'
  <2>1. Admitted' = Admitted
    BY <1>1, GotoAdmitted DEF Enter, lost, TypeOK, Places, Admitted
  <2>2. Permits' /\ sem' \in 0 .. Limit
    BY <1>1, <2>1 DEF Enter, lost, Permits, TypeOK
  <2>3. TypeOK'
    BY <1>1, <2>2 DEF Enter, lost, TypeOK, Places, Goto
  <2>4. QED
    BY <2>2, <2>3
<1>2. ASSUME NEW g \in Greenlets, Acquire(g)
      PROVE  TypeOK' /\ Permits'
  <2>1. Admitted' = Admitted \cup {g} /\ g \notin Admitted
    BY <1>2, GotoAdmitted DEF Acquire, PopOrConnect, lost, TypeOK, Places, Admitted
  <2>2. Cardinality(Admitted') = Cardinality(Admitted) + 1
    BY <2>1, EnterAdmitted
  <2>3. Permits' /\ sem' \in 0 .. Limit
    BY <1>2, <2>2 DEF Acquire, PopOrConnect, lost, Permits, TypeOK
  <2>4. CASE pool = <<>>
    BY <1>2, <2>3, <2>4 DEF Acquire, PopOrConnect, lost, TypeOK, Places, Goto
  <2>5. CASE pool # <<>>
    <3>1. Head(pool) \in Conns /\ Tail(pool) \in Seq(Conns)
      BY <2>5 DEF TypeOK
    <3>2. /\ pool' = Tail(pool)
          /\ held' = [held EXCEPT ![g] = Head(pool)]
          /\ pc' = [pc EXCEPT ![g] = "body"]
          /\ UNCHANGED <<size, link, txn, fate, result, refused, leaked>>
      BY <1>2, <2>5 DEF Acquire, PopOrConnect, lost, Goto
    <3>3. \A h \in Greenlets :
             held'[h] = NoConn <=> pc'[h] \in {"outside", "acquire", "connect"}
      BY <3>1, <3>2 DEF TypeOK
    <3>4. QED
      BY <2>3, <3>1, <3>2, <3>3 DEF TypeOK, Places
  <2>6. QED
    BY <2>3, <2>4, <2>5
<1>3. ASSUME NEW g \in Greenlets, ConnectOk(g)
      PROVE  TypeOK' /\ Permits'
  <2>1. Admitted' = Admitted
    BY <1>3, GotoAdmitted DEF ConnectOk, lost, TypeOK, Places, Admitted
  <2>2. Permits' /\ sem' \in 0 .. Limit
    BY <1>3, <2>1 DEF ConnectOk, lost, Permits, TypeOK
  <2>3. TypeOK'
    BY <1>3, <2>2 DEF ConnectOk, lost, TypeOK, Places, Goto
  <2>4. QED
    BY <2>2, <2>3
<1>4. ASSUME NEW g \in Greenlets, ConnectRaises(g)
      PROVE  TypeOK' /\ Permits'
  <2>1. Admitted' = Admitted \ {g} /\ g \in Admitted
    BY <1>4, GotoAdmitted DEF ConnectRaises, Leave, TypeOK, Places, Admitted
  <2>2. Cardinality(Admitted') = Cardinality(Admitted) - 1 /\ Cardinality(Admitted) >= 1
    BY <2>1, LeaveAdmitted
  <2>3. sem' = sem /\ refused' = refused + 1 /\ leaked' = leaked
    BY <1>4 DEF ConnectRaises
  <2>4. Permits'
    <3>1. /\ sem \in Nat /\ refused \in Nat /\ leaked \in Nat
          /\ Cardinality(Admitted) \in Nat
      BY AdmittedFinite DEF TypeOK
    <3>2. QED
      BY <2>2, <2>3, <3>1 DEF Permits
  <2>5. sem' \in 0 .. Limit /\ refused' \in Nat /\ leaked' \in Nat
    BY <2>3 DEF TypeOK
  <2>6. TypeOK'
    BY <1>4, <2>5 DEF ConnectRaises, TypeOK, Places, Goto, Leave
  <2>7. QED
    BY <2>4, <2>6
<1>5. ASSUME NEW g \in Greenlets, Execute(g)
      PROVE  TypeOK' /\ Permits'
  <2>1. Admitted' = Admitted
    BY <1>5 DEF Execute, lost, Admitted
  <2>2. Permits' /\ sem' \in 0 .. Limit
    BY <1>5, <2>1 DEF Execute, lost, Permits, TypeOK
  <2>3. TypeOK'
    BY <1>5, <2>2 DEF Execute, lost, TypeOK, Places
  <2>4. QED
    BY <2>2, <2>3
<1>6. ASSUME NEW g \in Greenlets, Settle(g)
      PROVE  TypeOK' /\ Permits'
  <2>1. Admitted' = Admitted
    BY <1>6 DEF Settle, lost, Admitted
  <2>2. Permits' /\ sem' \in 0 .. Limit
    BY <1>6, <2>1 DEF Settle, lost, Permits, TypeOK
  <2>3. TypeOK'
    BY <1>6, <2>2 DEF Settle, lost, TypeOK, Places
  <2>4. QED
    BY <2>2, <2>3
<1>7. ASSUME NEW g \in Greenlets, ExitReturn(g)
      PROVE  TypeOK' /\ Permits'
  <2>1. Admitted' = Admitted
    BY <1>7, GotoAdmitted DEF ExitReturn, lost, TypeOK, Places, Admitted
  <2>2. Permits' /\ sem' \in 0 .. Limit
    BY <1>7, <2>1 DEF ExitReturn, lost, Permits, TypeOK
  <2>3. TypeOK'
    BY <1>7, <2>2 DEF ExitReturn, lost, TypeOK, Places, Goto
  <2>4. QED
    BY <2>2, <2>3
<1>8. ASSUME NEW g \in Greenlets, ExitOperational(g)
      PROVE  TypeOK' /\ Permits'
  <2>1. Admitted' = Admitted \ {g} /\ g \in Admitted
    BY <1>8, GotoAdmitted DEF ExitOperational, Discard, Undo, Leave, Operational, lost, TypeOK, Places, Admitted
  <2>2. Cardinality(Admitted') = Cardinality(Admitted) - 1 /\ Cardinality(Admitted) >= 1
    BY <2>1, LeaveAdmitted
  <2>3. Permits' /\ sem' \in 0 .. Limit
    BY <1>8, <2>2 DEF ExitOperational, Discard, Undo, Leave, Operational, lost, Permits, TypeOK
  <2>4. TypeOK'
    BY <1>8, <2>3 DEF ExitOperational, Discard, Undo, Leave, Operational, lost, TypeOK, Places, Goto
  <2>5. QED
    BY <2>3, <2>4
<1>9. ASSUME NEW g \in Greenlets, ExitRaise(g)
      PROVE  TypeOK' /\ Permits'
  <2>1. Admitted' = Admitted
    BY <1>9, GotoAdmitted DEF ExitRaise, lost, TypeOK, Places, Admitted
  <2>2. Permits' /\ sem' \in 0 .. Limit
    BY <1>9, <2>1 DEF ExitRaise, lost, Permits, TypeOK
  <2>3. TypeOK'
    BY <1>9, <2>2 DEF ExitRaise, lost, TypeOK, Places, Goto
  <2>4. QED
    BY <2>2, <2>3
<1>10. ASSUME NEW g \in Greenlets, CommitOk(g)
      PROVE  TypeOK' /\ Permits'
  <2>1. Admitted' = Admitted
    BY <1>10, GotoAdmitted DEF CommitOk, lost, TypeOK, Places, Admitted
  <2>2. Permits' /\ sem' \in 0 .. Limit
    BY <1>10, <2>1 DEF CommitOk, lost, Permits, TypeOK
  <2>3. TypeOK'
    BY <1>10, <2>2 DEF CommitOk, lost, TypeOK, Places, Goto, Undo
  <2>4. QED
    BY <2>2, <2>3
<1>11. ASSUME NEW g \in Greenlets, CommitRaises(g)
      PROVE  TypeOK' /\ Permits'
  <2>1. Admitted' = Admitted
    BY <1>11, GotoAdmitted DEF CommitRaises, lost, TypeOK, Places, Admitted
  <2>2. Permits' /\ sem' \in 0 .. Limit
    BY <1>11, <2>1 DEF CommitRaises, lost, Permits, TypeOK
  <2>3. link' \in [Conns -> {"closed", "up", "down"}]
    BY <1>11 DEF CommitRaises, lost, TypeOK
  <2>4. fate' \in [Greenlets -> {"none", "pending", "rejected", "durable", "undone"}]
    BY <1>11 DEF CommitRaises, Answer, lost, TypeOK
  <2>5. txn' \in [Conns -> {"none", "open", "aborted"}]
    BY <1>11 DEF CommitRaises, lost, TypeOK
  <2>6. /\ pc' \in [Greenlets -> Places]
        /\ \A h \in Greenlets :
              held'[h] = NoConn <=> pc'[h] \in {"outside", "acquire", "connect"}
    BY <1>11 DEF CommitRaises, lost, TypeOK, Places, Goto
  <2>7. QED
    BY <1>11, <2>2, <2>3, <2>4, <2>5, <2>6 DEF CommitRaises, lost, TypeOK
<1>12. ASSUME NEW g \in Greenlets, Rollback(g)
      PROVE  TypeOK' /\ Permits'
  <2>1. Admitted' = Admitted
    BY <1>12, GotoAdmitted DEF Rollback, lost, TypeOK, Places, Admitted
  <2>2. Permits' /\ sem' \in 0 .. Limit
    BY <1>12, <2>1 DEF Rollback, lost, Permits, TypeOK
  <2>3. TypeOK'
    BY <1>12, <2>2 DEF Rollback, lost, TypeOK, Places, Goto, Undo
  <2>4. QED
    BY <2>2, <2>3
<1>13. ASSUME NEW g \in Greenlets, ResetOk(g)
      PROVE  TypeOK' /\ Permits'
  <2>1. Admitted' = Admitted \ {g} /\ g \in Admitted
    BY <1>13, GotoAdmitted DEF ResetOk, lost, Leave, TypeOK, Places, Admitted
  <2>2. Cardinality(Admitted') = Cardinality(Admitted) - 1 /\ Cardinality(Admitted) >= 1
    BY <2>1, LeaveAdmitted
  <2>3. Permits' /\ sem' \in 0 .. Limit
    BY <1>13, <2>2 DEF ResetOk, lost, Permits, TypeOK
  <2>4. TypeOK'
    BY <1>13, <2>3 DEF ResetOk, lost, TypeOK, Places, Goto, Leave, Undo
  <2>5. QED
    BY <2>3, <2>4
<1>14. ASSUME NEW g \in Greenlets, ResetRaises(g)
      PROVE  TypeOK' /\ Permits'
  <2>1. Admitted' = Admitted \ {g} /\ g \in Admitted
    BY <1>14, GotoAdmitted DEF ResetRaises, Discard, Undo, Leave, TypeOK, Places, Admitted
  <2>2. Cardinality(Admitted') = Cardinality(Admitted) - 1 /\ Cardinality(Admitted) >= 1
    BY <2>1, LeaveAdmitted
  <2>3. sem' = sem /\ refused' = refused /\ leaked' = leaked + 1
    BY <1>14 DEF ResetRaises
  <2>4. Permits'
    <3>1. /\ sem \in Nat /\ refused \in Nat /\ leaked \in Nat
          /\ Cardinality(Admitted) \in Nat
      BY AdmittedFinite, FS_CardinalityType DEF TypeOK
    <3>2. QED
      BY <2>2, <2>3, <3>1 DEF Permits
  <2>5. sem' \in 0 .. Limit /\ refused' \in Nat /\ leaked' \in Nat
    BY <2>3 DEF TypeOK
  <2>6. TypeOK'
    BY <1>14, <2>5 DEF ResetRaises, Discard, Undo, Leave, TypeOK, Places, Goto
  <2>7. QED
    BY <2>4, <2>6
<1>15. ASSUME NEW g \in Greenlets, QueryFails(g)
      PROVE  TypeOK' /\ Permits'
  <2>1. Admitted' = Admitted
    BY <1>15 DEF QueryFails, lost, Admitted
  <2>2. Permits' /\ sem' \in 0 .. Limit
    BY <1>15, <2>1 DEF QueryFails, lost, Permits, TypeOK
  <2>3. TypeOK'
    BY <1>15, <2>2 DEF QueryFails, lost, TypeOK, Places
  <2>4. QED
    BY <2>2, <2>3
<1>16. ASSUME NEW c \in Conns, Drop(c)
      PROVE  TypeOK' /\ Permits'
  BY <1>16 DEF Drop, lost, TypeOK, Permits, Admitted
<1>17. ASSUME UNCHANGED vars
      PROVE  TypeOK' /\ Permits'
  BY <1>17 DEF vars, lost, TypeOK, Permits, Admitted
<1>18. QED
  BY <1>1, <1>2, <1>3, <1>4, <1>5, <1>6, <1>7, <1>8, <1>9, <1>10, <1>11, <1>12, <1>13, <1>14, <1>15, <1>16, <1>17, NextSteps

-----------------------------------------------------------------------------
\* The steps after which every connection has the owner it had before.
Quiet ==
    /\ pool' = pool
    /\ held' = held
    /\ Open' = Open
    /\ Connecting' = Connecting

LEMMA QuietSteps ==
    ASSUME TypeOK, Exclusive, [Next]_vars
    PROVE  \/ Quiet
           \/ \E g \in Greenlets :
                 \/ Acquire(g) \/ ConnectOk(g) \/ ConnectRaises(g)
                 \/ ExitOperational(g) \/ ResetOk(g) \/ ResetRaises(g)
<1> USE DEF Quiet, TypeOK, Goto, Places
<1>1. ASSUME NEW g \in Greenlets, NEW p \in Places \ {"connect"},
             pc[g] # "connect", Goto(g, p)
      PROVE  Connecting' = Connecting
  BY <1>1 DEF Connecting
<1>2. ASSUME NEW g \in Greenlets, link[held[g]] # "closed", held[g] \in Conns,
             link' = [link EXCEPT ![held[g]] = "down"]
      PROVE  Open' = Open
  BY <1>2 DEF Open
<1>3. ASSUME NEW g \in Greenlets, Enter(g) \/ ExitReturn(g) \/ CommitOk(g)
      PROVE  Quiet
  BY <1>3, <1>1 DEF Enter, lost, ExitReturn, CommitOk, Open
<1>4. ASSUME NEW g \in Greenlets, Execute(g) \/ QueryFails(g) \/ Settle(g)
      PROVE  Quiet
  BY <1>4 DEF Execute, QueryFails, lost, Settle, Open, Connecting
<1>5. ASSUME NEW c \in Conns, Drop(c)
      PROVE  Quiet
  BY <1>5 DEF Drop, lost, Open, Connecting
<1>6. ASSUME UNCHANGED vars
      PROVE  Quiet
  BY <1>6 DEF vars, lost, Open, Connecting
<1>7. ASSUME NEW g \in Greenlets, ExitRaise(g) \/ CommitRaises(g) \/ Rollback(g)
      PROVE  Quiet
  <2>1. held[g] \in Conns /\ link[held[g]] # "closed"
    BY <1>7 DEF ExitRaise, lost, CommitRaises, Rollback, Exclusive, Open, Holding
  <2>2. Open' = Open
    <3>1. CASE link' = link
      BY <3>1 DEF Open
    <3>2. CASE link' = [link EXCEPT ![held[g]] = "down"]
      BY <3>2, <2>1, <1>2
    <3>3. QED
      BY <3>1, <3>2, <1>7 DEF ExitRaise, lost, CommitRaises, Rollback
  <2>3. Connecting' = Connecting
    BY <1>7, <1>1 DEF ExitRaise, lost, CommitRaises, Rollback
  <2>4. QED
    BY <1>7, <2>2, <2>3 DEF ExitRaise, lost, CommitRaises, Rollback
<1>8. QED
  BY <1>3, <1>4, <1>5, <1>6, <1>7, NextSteps

\* Every open connection keeps exactly one owner.
LEMMA ExclusiveStep ==
    ASSUME TypeOK, TypeOK', Exclusive, [Next]_vars
    PROVE  Exclusive'
<1> USE PoolAssumption
<1>1. CASE Quiet
  BY <1>1 DEF Quiet, Exclusive, Holding
<1>2. ASSUME NEW g \in Greenlets, Acquire(g)
      PROVE  Exclusive'
  <2>1. Open' = Open
    BY <1>2 DEF Acquire, PopOrConnect, lost, Open
  <2>2. CASE pool = <<>>
    BY <1>2, <2>1, <2>2 DEF Acquire, PopOrConnect, lost, Exclusive, Holding
  <2>3. CASE pool # <<>>
    <3>1. /\ Head(pool) \in ToSet(pool)
          /\ Head(pool) \in Conns
          /\ IsInjective(Tail(pool))
          /\ ToSet(Tail(pool)) = ToSet(pool) \ {Head(pool)}
      BY <2>3, PopFront DEF TypeOK, Exclusive
    <3>2. pool' = Tail(pool) /\ held' = [held EXCEPT ![g] = Head(pool)]
      BY <1>2, <2>3 DEF Acquire, PopOrConnect, lost
    <3>3. held[g] = NoConn
      BY <1>2 DEF Acquire, PopOrConnect, lost, TypeOK
    <3>4. ToSet(pool') = ToSet(pool) \ {Head(pool)} /\ IsInjective(pool')
      BY <3>1, <3>2
    <3>5. \A h, k \in Greenlets : held'[h] = held'[k] /\ held'[h] # NoConn => h = k
      BY <3>1, <3>2 DEF Exclusive, TypeOK
    <3>6. \A h \in Greenlets : held'[h] \notin ToSet(pool')
      BY <3>1, <3>2, <3>4 DEF Exclusive, TypeOK
    <3>7. {held'[h] : h \in Holding'} = {held[h] : h \in Holding} \cup {Head(pool)}
      BY <3>1, <3>2, <3>3 DEF Holding, TypeOK
    <3>8. QED
      BY <2>1, <3>1, <3>4, <3>5, <3>6, <3>7 DEF Exclusive
  <2>4. QED
    BY <2>2, <2>3
<1>3. ASSUME NEW g \in Greenlets, ConnectOk(g)
      PROVE  Exclusive'
  <2>1. PICK c \in Conns \ Open : /\ link' = [link EXCEPT ![c] = "up"]
                                  /\ held' = [held EXCEPT ![g] = c]
    BY <1>3 DEF ConnectOk, lost
  <2>2. held[g] = NoConn /\ pool' = pool
    BY <1>3 DEF ConnectOk, lost, TypeOK
  <2>3. Open' = Open \cup {c}
    BY <2>1 DEF Open, TypeOK
  <2>4. {held'[h] : h \in Holding'} = {held[h] : h \in Holding} \cup {c}
    BY <2>1, <2>2 DEF Holding, TypeOK
  <2>5. \A h \in Greenlets : held[h] # c
    BY <2>1 DEF Exclusive, Holding
  <2>6. c \notin ToSet(pool)
    BY <2>1 DEF Exclusive
  <2>7. \A h, k \in Greenlets : held'[h] = held'[k] /\ held'[h] # NoConn => h = k
    BY <2>1, <2>5 DEF Exclusive, TypeOK
  <2>8. \A h \in Greenlets : held'[h] \notin ToSet(pool')
    BY <2>1, <2>2, <2>6 DEF Exclusive, TypeOK
  <2>9. QED
    BY <2>2, <2>3, <2>4, <2>7, <2>8 DEF Exclusive
<1>4. ASSUME NEW g \in Greenlets, ConnectRaises(g)
      PROVE  Exclusive'
  <2>1. held' = held
    BY <1>4 DEF ConnectRaises, Leave, TypeOK
  <2>2. QED
    BY <1>4, <2>1 DEF ConnectRaises, Exclusive, Open, Holding
<1>5. ASSUME NEW g \in Greenlets, ExitOperational(g) \/ ResetRaises(g)
      PROVE  Exclusive'
  <2>1. held[g] \in Conns /\ g \in Holding /\ pool' = pool
    BY <1>5 DEF ExitOperational, Discard, Undo, Leave, Operational, lost, ResetRaises, TypeOK, Holding
  <2>2. /\ link' = [link EXCEPT ![held[g]] = "closed"]
        /\ held' = [held EXCEPT ![g] = NoConn]
    BY <1>5 DEF ExitOperational, Discard, Undo, Leave, Operational, lost, ResetRaises
  <2>3. Open' = Open \ {held[g]}
    BY <2>1, <2>2 DEF Open, TypeOK
  <2>4. {held'[h] : h \in Holding'} = {held[h] : h \in Holding} \ {held[g]}
    BY <2>1, <2>2 DEF Exclusive, Holding, TypeOK
  <2>5. ToSet(pool) \ {held[g]} = ToSet(pool)
    BY DEF Exclusive
  <2>6. NoConn \notin ToSet(pool)
    BY DEF TypeOK, ToSet
  <2>7. \A h, k \in Greenlets : held'[h] = held'[k] /\ held'[h] # NoConn => h = k
    BY <2>2 DEF Exclusive, TypeOK
  <2>8. \A h \in Greenlets : held'[h] \notin ToSet(pool')
    BY <2>1, <2>2, <2>6 DEF Exclusive, TypeOK
  <2>9. Open' = ToSet(pool') \cup {held'[h] : h \in Holding'}
    BY <2>1, <2>3, <2>4, <2>5 DEF Exclusive
  <2>10. QED
    BY <2>1, <2>7, <2>8, <2>9 DEF Exclusive
<1>6. ASSUME NEW g \in Greenlets, ResetOk(g)
      PROVE  Exclusive'
  <2>1. held[g] \in Conns /\ g \in Holding /\ held[g] \notin ToSet(pool)
    BY <1>6 DEF ResetOk, lost, TypeOK, Exclusive, Holding
  <2>2. /\ pool' = Append(pool, held[g])
        /\ held' = [held EXCEPT ![g] = NoConn]
        /\ Open' = Open
    BY <1>6 DEF ResetOk, lost, Leave, Open
  <2>3. /\ IsInjective(pool')
        /\ ToSet(pool') = ToSet(pool) \cup {held[g]}
    BY <2>1, <2>2, PushBack DEF TypeOK, Exclusive
  <2>4. {held'[h] : h \in Holding'} = {held[h] : h \in Holding} \ {held[g]}
    BY <2>1, <2>2 DEF Exclusive, Holding, TypeOK
  <2>5. \A h \in Greenlets : held'[h] # NoConn => held'[h] = held[h] /\ h # g
    BY <2>1, <2>2 DEF TypeOK
  <2>6. NoConn \notin ToSet(pool')
    BY DEF TypeOK, ToSet
  <2>7. \A h \in Greenlets : held'[h] \notin ToSet(pool')
    BY <2>1, <2>3, <2>5, <2>6 DEF Exclusive
  <2>8. \A h, k \in Greenlets : held'[h] = held'[k] /\ held'[h] # NoConn => h = k
    BY <2>5 DEF Exclusive
  <2>9. held[g] \in {held[h] : h \in Holding}
    BY <2>1
  <2>10. QED
    BY <2>2, <2>3, <2>4, <2>7, <2>8, <2>9 DEF Exclusive
<1>7. QED
  BY <1>1, <1>2, <1>3, <1>4, <1>5, <1>6, QuietSteps

-----------------------------------------------------------------------------
LEMMA FiniteParts ==
    /\ IsFiniteSet(Open)       /\ Cardinality(Open) \in Nat
    /\ IsFiniteSet(Connecting) /\ Cardinality(Connecting) \in Nat
    /\ IsFiniteSet(Holding)    /\ Cardinality(Holding) \in Nat
BY PoolAssumption, FS_Subset, FS_CardinalityType DEF Open, Connecting, Holding

\* A greenlet inside connection() holds a connection or is opening one.
LEMMA AdmittedParts ==
    ASSUME TypeOK
    PROVE  Cardinality(Admitted) = Cardinality(Holding) + Cardinality(Connecting)
<1>1. Admitted = Holding \cup Connecting /\ Holding \cap Connecting = {}
  BY DEF TypeOK, Admitted, Holding, Connecting, Places
<1>2. QED
  BY <1>1, FiniteParts, FS_Union, FS_EmptySet

\* With an empty pool, the open connections are those on loan.
LEMMA AllLent ==
    ASSUME TypeOK, Exclusive, pool = <<>>
    PROVE  Cardinality(Open) <= Cardinality(Holding)
<1>1. ToSet(pool) = {}
  BY DEF ToSet
<1>2. Open = {held[g] : g \in Holding}
  BY <1>1 DEF Exclusive
<1> DEFINE f == [g \in Holding |-> held[g]]
<1>3. f \in Surjection(Holding, Open)
  BY <1>2 DEF Surjection
<1>4. QED
  BY <1>3, FiniteParts, FS_Surjection

\* The cap holds although the pool is looked at before connect() and filled
\* again while connect() waits: the connections open or being opened never
\* outnumber the permits taken when the pool was last seen empty.
LEMMA ConnCapStep ==
    ASSUME TypeOK, Permits, Exclusive, ConnCap, [Next]_vars
    PROVE  ConnCap'
<1> USE PoolAssumption, FiniteParts
<1>1. CASE Quiet
  BY <1>1 DEF Quiet, ConnCap
<1>2. ASSUME NEW g \in Greenlets, Acquire(g)
      PROVE  ConnCap'
  <2>1. Open' = Open
    BY <1>2 DEF Acquire, PopOrConnect, lost, Open
  <2>2. CASE pool # <<>>
    <3>1. Connecting' = Connecting
      BY <1>2, <2>2 DEF Acquire, PopOrConnect, lost, Goto, Connecting, TypeOK
    <3>2. QED
      BY <2>1, <3>1 DEF ConnCap
  <2>3. CASE pool = <<>>
    <3>1. Connecting' = Connecting \cup {g} /\ g \notin Connecting
      BY <1>2, <2>3 DEF Acquire, PopOrConnect, lost, Goto, Connecting, TypeOK
    <3>2. Cardinality(Connecting') = Cardinality(Connecting) + 1
      BY <3>1, FS_AddElement
    <3>3. Cardinality(Admitted) + 1 <= Limit
      BY <1>2, AdmittedFinite DEF Acquire, PopOrConnect, lost, Permits, TypeOK
    <3>4. QED
      BY <2>1, <2>3, <3>2, <3>3, AdmittedParts, AllLent DEF ConnCap
  <2>4. QED
    BY <2>2, <2>3
<1>3. ASSUME NEW g \in Greenlets, ConnectOk(g)
      PROVE  ConnCap'
  <2>1. PICK c \in Conns \ Open : link' = [link EXCEPT ![c] = "up"]
    BY <1>3 DEF ConnectOk, lost
  <2>2. Open' = Open \cup {c} /\ c \notin Open
    BY <2>1 DEF Open, TypeOK
  <2>3. Connecting' = Connecting \ {g} /\ g \in Connecting
    BY <1>3 DEF ConnectOk, lost, Goto, Connecting, TypeOK
  <2>4. Cardinality(Open') = Cardinality(Open) + 1
    BY <2>2, FS_AddElement
  <2>5. Cardinality(Connecting') = Cardinality(Connecting) - 1
    BY <2>3, FS_RemoveElement
  <2>6. QED
    BY <2>4, <2>5 DEF ConnCap
<1>4. ASSUME NEW g \in Greenlets, ConnectRaises(g)
      PROVE  ConnCap'
  <2>1. Open' = Open
    BY <1>4 DEF ConnectRaises, Open
  <2>2. Connecting' = Connecting \ {g} /\ g \in Connecting
    BY <1>4 DEF ConnectRaises, Leave, Goto, Connecting, TypeOK
  <2>3. Cardinality(Connecting') = Cardinality(Connecting) - 1
    BY <2>2, FS_RemoveElement
  <2>4. QED
    BY <2>1, <2>3 DEF ConnCap
<1>5. ASSUME NEW g \in Greenlets, ExitOperational(g) \/ ResetRaises(g) \/ ResetOk(g)
      PROVE  ConnCap'
  <2>1. Connecting' = Connecting
    BY <1>5 DEF ExitOperational, Discard, Undo, Leave, Operational, lost, ResetRaises, ResetOk, Goto, Connecting, TypeOK
  <2>2. Open' \subseteq Open
    BY <1>5 DEF ExitOperational, Discard, Undo, Leave, Operational, lost, ResetRaises, ResetOk, Open, TypeOK
  <2>3. Cardinality(Open') <= Cardinality(Open) /\ Cardinality(Open') \in Nat
    BY <2>2, FS_Subset, FS_CardinalityType
  <2>4. QED
    BY <2>1, <2>3 DEF ConnCap
<1>6. QED
  BY <1>1, <1>2, <1>3, <1>4, <1>5, QuietSteps

-----------------------------------------------------------------------------
\* size counts the open connections and those that reset() raised for.
Sized == size = Cardinality(Open) + leaked

\* A quiet step leaves both counts alone.
LEMMA QuietCounts ==
    ASSUME [Next]_vars
    PROVE  \/ UNCHANGED <<size, leaked>>
           \/ \E g \in Greenlets : ConnectOk(g) \/ ExitOperational(g) \/ ResetRaises(g)
<1>1. ASSUME NEW g \in Greenlets,
             \/ Enter(g) \/ Acquire(g) \/ ConnectRaises(g) \/ Execute(g) \/ QueryFails(g)
             \/ Settle(g) \/ ExitReturn(g) \/ ExitRaise(g)
      PROVE  UNCHANGED <<size, leaked>>
  BY <1>1 DEF Enter, Acquire, PopOrConnect, ConnectRaises, Execute, QueryFails, Settle, ExitReturn, ExitRaise, lost
<1>2. ASSUME NEW g \in Greenlets, CommitOk(g) \/ CommitRaises(g) \/ Rollback(g) \/ ResetOk(g)
      PROVE  UNCHANGED <<size, leaked>>
  BY <1>2 DEF CommitOk, CommitRaises, Rollback, ResetOk, lost
<1>3. ASSUME NEW c \in Conns, Drop(c)
      PROVE  UNCHANGED <<size, leaked>>
  BY <1>3 DEF Drop, lost
<1>4. ASSUME UNCHANGED vars
      PROVE  UNCHANGED <<size, leaked>>
  BY <1>4 DEF vars
<1>5. QED
  BY <1>1, <1>2, <1>3, <1>4, NextSteps

LEMMA SizedStep ==
    ASSUME TypeOK, Exclusive, Sized, [Next]_vars
    PROVE  Sized'
<1> USE PoolAssumption, FiniteParts
<1>1. ASSUME NEW g \in Greenlets, ConnectOk(g)
      PROVE  Sized'
  <2>1. PICK c \in Conns \ Open : link' = [link EXCEPT ![c] = "up"]
    BY <1>1 DEF ConnectOk
  <2>2. Open' = Open \cup {c} /\ c \notin Open
    BY <2>1 DEF Open, TypeOK
  <2>3. Cardinality(Open') = Cardinality(Open) + 1
    BY <2>2, FS_AddElement
  <2>4. size' = size + 1 /\ leaked' = leaked
    BY <1>1 DEF ConnectOk, lost
  <2>5. QED
    BY <2>3, <2>4 DEF Sized, TypeOK
<1>2. ASSUME NEW g \in Greenlets, ExitOperational(g) \/ ResetRaises(g)
      PROVE  Sized'
  <2>1. g \in Holding /\ link' = [link EXCEPT ![held[g]] = "closed"]
    BY <1>2 DEF ExitOperational, Operational, ResetRaises, Discard, TypeOK, Holding
  <2>2. held[g] \in Open
    BY <2>1 DEF Exclusive
  <2>3. Open' = Open \ {held[g]}
    BY <2>1 DEF Open, TypeOK
  <2>4. Cardinality(Open') = Cardinality(Open) - 1
    BY <2>2, <2>3, FS_RemoveElement
  <2>5. \/ size' = size - 1 /\ leaked' = leaked
        \/ size' = size /\ leaked' = leaked + 1
    BY <1>2 DEF ExitOperational, ResetRaises, lost
  <2>6. size \in Int /\ leaked \in Nat /\ Cardinality(Open) \in Nat
    BY DEF TypeOK
  <2>7. QED
    BY <2>4, <2>5, <2>6 DEF Sized
<1>3. ASSUME NEW g \in Greenlets, Acquire(g) \/ ConnectRaises(g) \/ ResetOk(g)
      PROVE  Open' = Open
  BY <1>3 DEF Acquire, PopOrConnect, ConnectRaises, ResetOk, Open
<1>4. CASE Open' = Open /\ UNCHANGED <<size, leaked>>
  BY <1>4 DEF Sized
<1>5. QED
  BY <1>1, <1>2, <1>3, <1>4, QuietSteps, QuietCounts DEF Quiet

-----------------------------------------------------------------------------
\* The inductive invariant behind the pool's safety.
PoolInv == TypeOK /\ Permits /\ Sized /\ Exclusive /\ ConnCap

LEMMA PoolInvInit ==
    ASSUME Init
    PROVE  PoolInv
<1> USE PoolAssumption
<1>1. Admitted = {} /\ Connecting = {} /\ Holding = {}
  BY DEF Init, Admitted, Connecting, Holding
<1>2. pool \in Seq(Conns)
  BY DEF Init
<1>3. TypeOK
  BY <1>2 DEF Init, TypeOK, Places
<1>4. Permits
  BY <1>1, FS_EmptySet DEF Init, Permits
<1>5. Open = ToSet(pool)
  BY <1>2 DEF Init, Open, ToSet
<1>6. NoConn \notin ToSet(pool)
  BY <1>2 DEF ToSet
<1>7. Exclusive
  BY <1>1, <1>5, <1>6 DEF Init, Exclusive
<1>8. Cardinality(Open) = Initial
  <2>1. pool \in Bijection(1 .. Initial, ToSet(pool))
    BY DEF Init, ToSet, Bijection, Injection, Surjection, IsInjective
  <2>2. Cardinality(Open) = Cardinality(1 .. Initial)
    BY <1>5, <2>1, FS_Bijection, FS_Interval DEF ExistsBijection
  <2>3. QED
    BY <2>2, FS_Interval
<1>9. ConnCap /\ Sized
  BY <1>1, <1>8, FiniteParts, FS_EmptySet DEF Init, ConnCap, Sized
<1>10. QED
  BY <1>3, <1>4, <1>7, <1>9 DEF PoolInv

LEMMA PoolInvStep ==
    ASSUME PoolInv, [Next]_vars
    PROVE  PoolInv'
BY TypeStep, SizedStep, ExclusiveStep, ConnCapStep DEF PoolInv

LEMMA PoolInvariant == Spec => []PoolInv
<1>1. Init => PoolInv
  BY PoolInvInit
<1>2. PoolInv /\ [Next]_vars => PoolInv'
  BY PoolInvStep
<1>3. QED
  BY <1>1, <1>2, PTL DEF Spec

\* TypeOK is an invariant: the semaphore never exceeds its limit, so no path
\* out of connection() releases a permit twice.
THEOREM TypeCorrect == Spec => []TypeOK
<1>1. PoolInv => TypeOK
  BY DEF PoolInv
<1>2. QED
  BY <1>1, PoolInvariant, PTL

\* No permit and no connection is miscounted: what is missing of either went
\* with a connect() or a reset() that raised, and each such exception costs one.
THEOREM AccountingAlways == Spec => []Accounting
<1>1. PoolInv => Accounting
  BY DEF PoolInv, Permits, Sized, Accounting
<1>2. QED
  BY <1>1, PoolInvariant, PTL

\* Every open connection has exactly one owner, whatever fails.
THEOREM ExclusiveAlways == Spec => []Exclusive
<1>1. PoolInv => Exclusive
  BY DEF PoolInv
<1>2. QED
  BY <1>1, PoolInvariant, PTL

\* At most Limit connections are open or being opened, whatever fails.
THEOREM ConnCapAlways == Spec => []ConnCap
<1>1. PoolInv => ConnCap
  BY DEF PoolInv
<1>2. QED
  BY <1>1, PoolInvariant, PTL

-----------------------------------------------------------------------------
\* Where a greenlet's work stands: pending exactly while its transaction is
\* open, and never undone on the way to a normal return, where nothing is left
\* for reset() to undo.
WorkOf(g) ==
    /\ fate[g] = "pending" => held[g] # NoConn /\ txn[held[g]] = "open"
    /\ pc[g] \in {"acquire", "connect", "body", "commit"} =>
          fate[g] \in {"none", "pending", "rejected"}
    /\ pc[g] = "resetOk" =>
          txn[held[g]] = "none" /\ fate[g] \in {"none", "durable", "rejected"}
    /\ result[g] = "returned" =>
          pc[g] = "outside" /\ fate[g] \in {"none", "durable", "rejected"}

Work == NoForeignWork /\ \A g \in Greenlets : WorkOf(g)

LEMMA WorkStep ==
    ASSUME TypeOK, Exclusive, Work, [Next]_vars
    PROVE  Work'
<1> USE PoolAssumption
<1>1. ASSUME NEW g \in Greenlets, Enter(g)
      PROVE  Work'
  <2>1. NoForeignWork'
    BY <1>1 DEF Enter, lost, Goto, Work, WorkOf, NoForeignWork, Exclusive, Holding, TypeOK
  <2>2. ASSUME NEW h \in Greenlets
        PROVE  WorkOf(h)'
    BY <1>1 DEF Enter, lost, Goto, Work, WorkOf, Exclusive, TypeOK
  <2>3. QED
    BY <2>1, <2>2 DEF Work
<1>2. ASSUME NEW g \in Greenlets, Acquire(g)
      PROVE  Work'
  <2>1. NoForeignWork'
    BY <1>2 DEF Acquire, PopOrConnect, lost, Goto, Work, WorkOf, NoForeignWork, Exclusive, Holding, TypeOK
  <2>2. ASSUME NEW h \in Greenlets
        PROVE  WorkOf(h)'
    BY <1>2 DEF Acquire, PopOrConnect, lost, Goto, Work, WorkOf, Exclusive, TypeOK
  <2>3. QED
    BY <2>1, <2>2 DEF Work
<1>3. ASSUME NEW g \in Greenlets, ConnectOk(g)
      PROVE  Work'
  <2>1. NoForeignWork'
    BY <1>3 DEF ConnectOk, lost, Goto, Work, WorkOf, NoForeignWork, Exclusive, Holding, TypeOK
  <2>2. ASSUME NEW h \in Greenlets
        PROVE  WorkOf(h)'
    BY <1>3 DEF ConnectOk, lost, Goto, Work, WorkOf, Exclusive, TypeOK
  <2>3. QED
    BY <2>1, <2>2 DEF Work
<1>4. ASSUME NEW g \in Greenlets, ConnectRaises(g)
      PROVE  Work'
  <2>1. NoForeignWork'
    BY <1>4 DEF ConnectRaises, Leave, Goto, Work, WorkOf, NoForeignWork, Exclusive, Holding, TypeOK
  <2>2. ASSUME NEW h \in Greenlets
        PROVE  WorkOf(h)'
    BY <1>4 DEF ConnectRaises, Leave, Goto, Work, WorkOf, Exclusive, TypeOK
  <2>3. QED
    BY <2>1, <2>2 DEF Work
<1>5. ASSUME NEW g \in Greenlets, Execute(g)
      PROVE  Work'
  <2>1. NoForeignWork'
    BY <1>5 DEF Execute, lost, Work, WorkOf, NoForeignWork, Exclusive, Holding, TypeOK
  <2>2. ASSUME NEW h \in Greenlets
        PROVE  WorkOf(h)'
    BY <1>5 DEF Execute, lost, Work, WorkOf, Exclusive, TypeOK
  <2>3. QED
    BY <2>1, <2>2 DEF Work
<1>6. ASSUME NEW g \in Greenlets, Settle(g)
      PROVE  Work'
  <2>1. NoForeignWork'
    BY <1>6 DEF Settle, lost, Work, WorkOf, NoForeignWork, Exclusive, Holding, TypeOK
  <2>2. ASSUME NEW h \in Greenlets
        PROVE  WorkOf(h)'
    BY <1>6 DEF Settle, lost, Work, WorkOf, Exclusive, TypeOK
  <2>3. QED
    BY <2>1, <2>2 DEF Work
<1>7. ASSUME NEW g \in Greenlets, ExitReturn(g)
      PROVE  Work'
  <2>1. NoForeignWork'
    BY <1>7 DEF ExitReturn, lost, Goto, Work, WorkOf, NoForeignWork, Exclusive, Holding, TypeOK
  <2>2. ASSUME NEW h \in Greenlets
        PROVE  WorkOf(h)'
    BY <1>7 DEF ExitReturn, lost, Goto, Work, WorkOf, Exclusive, TypeOK
  <2>3. QED
    BY <2>1, <2>2 DEF Work
<1>8. ASSUME NEW g \in Greenlets, ExitOperational(g)
      PROVE  Work'
  <2>1. NoForeignWork'
    BY <1>8 DEF ExitOperational, Discard, Undo, Leave, Operational, lost, Goto, Work, WorkOf, NoForeignWork, Exclusive, Holding, TypeOK
  <2>2. ASSUME NEW h \in Greenlets
        PROVE  WorkOf(h)'
    BY <1>8 DEF ExitOperational, Discard, Undo, Leave, Operational, lost, Goto, Work, WorkOf, Exclusive, TypeOK
  <2>3. QED
    BY <2>1, <2>2 DEF Work
<1>9. ASSUME NEW g \in Greenlets, ExitRaise(g)
      PROVE  Work'
  <2>1. NoForeignWork'
    BY <1>9 DEF ExitRaise, lost, Goto, Work, WorkOf, NoForeignWork, Exclusive, Holding, TypeOK
  <2>2. ASSUME NEW h \in Greenlets
        PROVE  WorkOf(h)'
    BY <1>9 DEF ExitRaise, lost, Goto, Work, WorkOf, Exclusive, TypeOK
  <2>3. QED
    BY <2>1, <2>2 DEF Work
<1>10. ASSUME NEW g \in Greenlets, CommitOk(g)
      PROVE  Work'
  <2>1. NoForeignWork'
    BY <1>10 DEF CommitOk, lost, Goto, Undo, Work, WorkOf, NoForeignWork, Exclusive, Holding, TypeOK
  <2>2. ASSUME NEW h \in Greenlets
        PROVE  WorkOf(h)'
    BY <1>10 DEF CommitOk, lost, Goto, Undo, Work, WorkOf, Exclusive, TypeOK
  <2>3. QED
    BY <2>1, <2>2 DEF Work
<1>11. ASSUME NEW g \in Greenlets, CommitRaises(g)
      PROVE  Work'
  <2>1. NoForeignWork'
    BY <1>11 DEF CommitRaises, lost, Goto, Work, WorkOf, NoForeignWork, Exclusive, Holding, TypeOK
  <2>2. ASSUME NEW h \in Greenlets
        PROVE  WorkOf(h)'
    <3>1. held[g] \in Conns /\ held[g] # NoConn /\ held' = held /\ result' = result
      BY <1>11 DEF CommitRaises, lost, TypeOK
    <3>2. PICK f \in {"undone", "durable"} : fate' = [fate EXCEPT ![g] = f]
      BY <1>11 DEF CommitRaises, Answer
    <3>3. /\ pc' = [pc EXCEPT ![g] = "resetErr"]
          /\ txn' = [txn EXCEPT ![held[g]] = "none"]
          /\ result[g] # "returned"
      BY <1>11 DEF CommitRaises, Goto, Work, WorkOf
    <3>4. CASE h = g
      BY <3>1, <3>2, <3>3, <3>4 DEF WorkOf, TypeOK
    <3>5. CASE h # g
      <4>1. pc'[h] = pc[h] /\ fate'[h] = fate[h] /\ held'[h] = held[h]
        BY <3>1, <3>2, <3>3, <3>5 DEF TypeOK
      <4>2. held[h] # held[g]
        BY <3>1, <3>5 DEF Exclusive
      <4>3. txn'[held[h]] = txn[held[h]] \/ held[h] = NoConn
        BY <3>3, <4>2 DEF TypeOK
      <4>4. pc[h] = "resetOk" => held[h] # NoConn
        BY DEF TypeOK
      <4>5. QED
        BY <3>1, <4>1, <4>3, <4>4 DEF Work, WorkOf
    <3>6. QED
      BY <3>4, <3>5
  <2>3. QED
    BY <2>1, <2>2 DEF Work
<1>12. ASSUME NEW g \in Greenlets, Rollback(g)
      PROVE  Work'
  <2>1. NoForeignWork'
    BY <1>12 DEF Rollback, lost, Goto, Undo, Work, WorkOf, NoForeignWork, Exclusive, Holding, TypeOK
  <2>2. ASSUME NEW h \in Greenlets
        PROVE  WorkOf(h)'
    BY <1>12 DEF Rollback, lost, Goto, Undo, Work, WorkOf, Exclusive, TypeOK
  <2>3. QED
    BY <2>1, <2>2 DEF Work
<1>13. ASSUME NEW g \in Greenlets, ResetOk(g)
      PROVE  Work'
  <2>1. NoForeignWork'
    BY <1>13 DEF ResetOk, lost, Leave, Goto, Undo, Work, WorkOf, NoForeignWork, Exclusive, Holding, TypeOK
  <2>2. ASSUME NEW h \in Greenlets
        PROVE  WorkOf(h)'
    <3>1. held[g] \in Conns /\ held[g] # NoConn
      <4>1. pc[g] \in {"resetOk", "resetErr"}
        BY <1>13 DEF ResetOk
      <4>2. QED
        BY <4>1 DEF TypeOK
    <3>2. pc[g] = "resetOk" => txn[held[g]] = "none"
      BY DEF Work, WorkOf
    <3>3. CASE h = g
      <4>1. fate'[g] # "pending"
        BY <1>13, <3>1 DEF ResetOk, lost, Undo, Work, WorkOf, TypeOK
      <4>2. pc[g] = "resetOk" => fate'[g] \in {"none", "durable", "rejected"}
        BY <1>13, <3>2 DEF ResetOk, lost, Undo, Work, WorkOf, TypeOK
      <4>3. pc'[g] = "outside" /\ (result'[g] = "returned" => pc[g] = "resetOk")
        BY <1>13 DEF ResetOk, lost, Leave, Goto, TypeOK
      <4>4. QED
        BY <3>3, <4>1, <4>2, <4>3 DEF WorkOf
    <3>4. CASE h # g
      BY <1>13, <3>1, <3>4 DEF ResetOk, lost, Leave, Goto, Undo, Work, WorkOf, Exclusive, TypeOK
    <3>5. QED
      BY <3>3, <3>4
  <2>3. QED
    BY <2>1, <2>2 DEF Work
<1>14. ASSUME NEW g \in Greenlets, ResetRaises(g)
      PROVE  Work'
  <2>1. NoForeignWork'
    BY <1>14 DEF ResetRaises, Discard, Undo, Leave, Goto, Work, WorkOf, NoForeignWork, Exclusive, Holding, TypeOK
  <2>2. ASSUME NEW h \in Greenlets
        PROVE  WorkOf(h)'
    BY <1>14 DEF ResetRaises, Discard, Undo, Leave, Goto, Work, WorkOf, Exclusive, TypeOK
  <2>3. QED
    BY <2>1, <2>2 DEF Work
<1>15. ASSUME NEW g \in Greenlets, QueryFails(g)
      PROVE  Work'
  <2>1. NoForeignWork'
    BY <1>15 DEF QueryFails, lost, Work, WorkOf, NoForeignWork, Exclusive, Holding, TypeOK
  <2>2. ASSUME NEW h \in Greenlets
        PROVE  WorkOf(h)'
    BY <1>15 DEF QueryFails, lost, Work, WorkOf, Exclusive, TypeOK
  <2>3. QED
    BY <2>1, <2>2 DEF Work
<1>16. ASSUME NEW c \in Conns, Drop(c)
      PROVE  Work'
  BY <1>16 DEF Drop, lost, Work, WorkOf, NoForeignWork, Holding
<1>17. ASSUME UNCHANGED vars
      PROVE  Work'
  BY <1>17 DEF vars, lost, Work, WorkOf, NoForeignWork, Holding
<1>18. QED
  BY <1>1, <1>2, <1>3, <1>4, <1>5, <1>6, <1>7, <1>8, <1>9, <1>10, <1>11, <1>12, <1>13, <1>14, <1>15, <1>16, <1>17, NextSteps

LEMMA WorkInvariant == Spec => []Work
<1>1. Init => Work
  BY DEF Init, Work, WorkOf, NoForeignWork
<1>2. PoolInv /\ Work /\ [Next]_vars => Work'
  BY WorkStep DEF PoolInv
<1>3. QED
  BY <1>1, <1>2, PoolInvariant, PTL DEF Spec

\* One greenlet's commit never commits what another left behind, and none takes
\* over a transaction that another's failure has aborted.
THEOREM NoForeignWorkAlways == Spec => []NoForeignWork
<1>1. Work => NoForeignWork
  BY DEF Work
<1>2. QED
  BY <1>1, WorkInvariant, PTL

\* A block that ends without an exception has its work committed, unless it
\* caught the failure of one of its own queries and did not roll back.
THEOREM ReturnedMeansDurableAlways == Spec => []ReturnedMeansDurable
<1>1. Work => ReturnedMeansDurable
  BY DEF Work, WorkOf, ReturnedMeansDurable
<1>2. QED
  BY <1>1, WorkInvariant, PTL

-----------------------------------------------------------------------------
\* A greenlet that has a permit and no connection is not yet a borrower.
LEMMA RoomToBorrow ==
    ASSUME TypeOK, Permits, NEW g \in Greenlets, held[g] = NoConn,
           g \in Admitted \/ sem > 0
    PROVE  Cardinality(Holding) < Limit
<1> USE PoolAssumption, AdmittedFinite, FiniteParts
<1>1. Holding \subseteq Admitted \ {g}
  BY DEF TypeOK, Holding, Admitted, Places
<1>2. Cardinality(Holding) <= Cardinality(Admitted \ {g})
  BY <1>1, FS_Subset, FS_RemoveElement
<1>3. Cardinality(Admitted \ {g})
          = IF g \in Admitted THEN Cardinality(Admitted) - 1 ELSE Cardinality(Admitted)
  BY FS_RemoveElement
<1>4. QED
  BY <1>2, <1>3 DEF Permits, TypeOK

\* Loans counts with the same Cardinality.
LEMMA LoansCardinality ==
    ASSUME NEW S
    PROVE  L!Cardinality(S) = Cardinality(S)
BY DEF L!Cardinality, Cardinality

LEMMA LoanStep ==
    ASSUME PoolInv, [Next]_vars
    PROVE  [L!Next]_held
<1> USE PoolAssumption DEF PoolInv
<1>1. L!Borrowers = Holding
  BY DEF L!Borrowers, Holding
<1>2. CASE Quiet
  BY <1>2 DEF Quiet
<1>3. ASSUME NEW g \in Greenlets, Acquire(g)
      PROVE  [L!Next]_held
  <2>1. CASE pool = <<>>
    BY <1>3, <2>1 DEF Acquire, PopOrConnect, lost
  <2>2. CASE pool # <<>>
    <3>1. Head(pool) \in Conns /\ Head(pool) \in ToSet(pool)
      BY <2>2, PopFront DEF TypeOK, Exclusive
    <3>2. held[g] = NoConn /\ sem > 0 /\ held' = [held EXCEPT ![g] = Head(pool)]
      BY <1>3, <2>2 DEF Acquire, PopOrConnect, lost, TypeOK
    <3>3. \A h \in Greenlets : held[h] # Head(pool)
      BY <3>1 DEF Exclusive
    <3>4. Cardinality(L!Borrowers) < Limit
      BY <1>1, <3>2, RoomToBorrow
    <3>5. L!Lend(g, Head(pool))
      BY <3>2, <3>3, <3>4, LoansCardinality DEF L!Lend
    <3>6. QED
      BY <3>1, <3>5 DEF L!Next
  <2>3. QED
    BY <2>1, <2>2
<1>4. ASSUME NEW g \in Greenlets, ConnectOk(g)
      PROVE  [L!Next]_held
  <2>1. PICK c \in Conns \ Open : held' = [held EXCEPT ![g] = c]
    BY <1>4 DEF ConnectOk, lost
  <2>2. held[g] = NoConn /\ g \in Admitted
    BY <1>4 DEF ConnectOk, lost, TypeOK, Admitted
  <2>3. \A h \in Greenlets : held[h] # c
    BY <2>1 DEF Exclusive, Holding
  <2>4. Cardinality(L!Borrowers) < Limit
    BY <1>1, <2>2, RoomToBorrow
  <2>5. L!Lend(g, c)
    BY <2>1, <2>2, <2>3, <2>4, LoansCardinality DEF L!Lend
  <2>6. QED
    BY <2>5 DEF L!Next
<1>5. ASSUME NEW g \in Greenlets, ConnectRaises(g)
      PROVE  [L!Next]_held
  BY <1>5 DEF ConnectRaises, Leave, TypeOK
<1>6. ASSUME NEW g \in Greenlets, ExitOperational(g) \/ ResetOk(g) \/ ResetRaises(g)
      PROVE  [L!Next]_held
  <2>1. held[g] # NoConn /\ held' = [held EXCEPT ![g] = NoConn]
    BY <1>6 DEF ExitOperational, Discard, Undo, Leave, Operational, lost, ResetOk, ResetRaises, TypeOK
  <2>2. L!GiveBack(g)
    BY <2>1 DEF L!GiveBack
  <2>3. QED
    BY <2>2 DEF L!Next
<1>7. QED
  BY <1>2, <1>3, <1>4, <1>5, <1>6, QuietSteps

\* The pool implements the loan desk under every fault: exclusive loans, at
\* most Limit of them, one per greenlet.
THEOREM ImplementsLoans == Spec => LoansSpec
<1>1. Init => L!Init
  BY DEF Init, L!Init
<1>2. PoolInv /\ [Next]_vars => [L!Next]_held
  BY LoanStep
<1>3. QED
  BY <1>1, <1>2, PoolInvariant, PTL DEF Spec, LoansSpec, L!Spec
=============================================================================
