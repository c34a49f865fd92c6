----------------------------- MODULE CacheProofs -----------------------------
(***************************************************************************)
(* Proofs about Cache, for any requests, keys and greenlets and any expiry.*)
(***************************************************************************)
EXTENDS Cache, TLAPS

\* What is in memcached is young enough for the time it has left, and was made
\* for its key.
Entries ==
    \A k \in Keys : store[k] # None =>
       store[k].age + store[k].left <= MaxView + Expiry /\ KeyOf[store[k].for] = k

CacheInv == TypeOK /\ Entries /\ BoundedStaleness /\ OwnAnswer

LEMMA CacheInvInit == Init => CacheInv
BY CacheAssumption DEF Init, CacheInv, TypeOK, Entries, BoundedStaleness, OwnAnswer

LEMMA KeyType == TypeOK => \A g \in Greenlets : Key(g) \in Keys /\ request[g] \in Requests
BY CacheAssumption DEF TypeOK, Key

\* A response is returned: how old it is and whom it was made for.
LEMMA AnswerStep ==
  ASSUME CacheInv, NEW g \in Greenlets, NEW r \in Requests, NEW old \in Ages,
         Answer(g, r, old), UNCHANGED <<request, age>>,
         old < Expiry + MaxView, KeyOf[r] = Key(g),
         store' \in [Keys -> {None} \cup [for : Requests, age : Ages, left : 1 .. Expiry]],
         Entries'
  PROVE  CacheInv'
<1>1. [for |-> r, age |-> old] \in [for : Requests, age : Ages]
  OBVIOUS
<1>2. TypeOK'
  BY <1>1 DEF Answer, Goto, CacheInv, TypeOK, Ages
<1>3. BoundedStaleness' /\ OwnAnswer'
  BY DEF Answer, CacheInv, BoundedStaleness, OwnAnswer, TypeOK, Key
<1>4. QED
  BY <1>2, <1>3 DEF CacheInv

\* A response is put under its key, whatever is there.
LEMMA SetStep ==
  ASSUME CacheInv, NEW g \in Greenlets, Set(g)
  PROVE  CacheInv'
<1>1. /\ Key(g) \in Keys /\ request[g] \in Requests /\ KeyOf[request[g]] = Key(g)
      /\ age[g] \in 0 .. MaxView /\ age[g] \in Ages /\ age[g] < Expiry + MaxView
      /\ Expiry \in Nat \ {0} /\ MaxView \in Nat
  BY KeyType, CacheAssumption DEF CacheInv, TypeOK, Key, Ages
<1> DEFINE entry == [for |-> request[g], age |-> age[g], left |-> Expiry]
<1>2. entry \in [for : Requests, age : Ages, left : 1 .. Expiry]
  BY <1>1
<1>3. store' = [store EXCEPT ![Key(g)] = entry]
  BY DEF Set
<1>4. store' \in [Keys -> {None} \cup [for : Requests, age : Ages, left : 1 .. Expiry]]
  BY <1>2, <1>3 DEF CacheInv, TypeOK
<1>5. entry.age + entry.left <= MaxView + Expiry /\ KeyOf[entry.for] = Key(g)
  BY <1>1
<1>6. Entries'
  BY <1>1, <1>3, <1>5 DEF CacheInv, TypeOK, Entries
<1>7. Answer(g, request[g], age[g]) /\ UNCHANGED <<request, age>>
  BY DEF Set
<1>8. QED
  BY <1>1, <1>4, <1>6, <1>7, AnswerStep

\* Time passes: what an entry gains in age it loses in time left.
LEMMA TickStep ==
  ASSUME CacheInv, Tick
  PROVE  CacheInv'
<1>1. Expiry \in Nat \ {0} /\ MaxView \in Nat
  BY CacheAssumption
<1>2. ASSUME NEW k \in Keys, store[k] # None, store[k].left # 1
      PROVE  /\ Older(store[k]) \in [for : Requests, age : Ages, left : 1 .. Expiry]
             /\ Older(store[k]).age + Older(store[k]).left = store[k].age + store[k].left
             /\ Older(store[k]).for = store[k].for
  <2>1. store[k] \in [for : Requests, age : Ages, left : 1 .. Expiry]
    BY <1>2 DEF CacheInv, TypeOK
  <2>2. store[k].age + store[k].left <= MaxView + Expiry
    BY <1>2 DEF CacheInv, Entries
  <2>3. store[k].age + 1 \in Ages /\ store[k].left - 1 \in 1 .. Expiry
    BY <1>1, <1>2, <2>1, <2>2 DEF Ages
  <2>4. /\ store[k].age \in Nat /\ store[k].left \in Nat /\ store[k].for \in Requests
        /\ (store[k].age + 1) + (store[k].left - 1) = store[k].age + store[k].left
    BY <1>1, <2>1 DEF Ages
  <2>5. QED
    BY <2>3, <2>4 DEF Older
<1>3. store' = [k \in Keys |-> IF store[k] = None \/ store[k].left = 1 THEN None ELSE Older(store[k])]
  BY DEF Tick
<1>4. store' \in [Keys -> {None} \cup [for : Requests, age : Ages, left : 1 .. Expiry]]
  BY <1>2, <1>3
<1>5. Entries'
  BY <1>2, <1>3 DEF CacheInv, Entries
<1>6. age' \in [Greenlets -> 0 .. MaxView] /\ UNCHANGED <<pc, request, answer>>
  <2>1. ASSUME NEW g \in Greenlets
        PROVE  (IF g \in Making THEN age[g] + 1 ELSE 0) \in 0 .. MaxView
    <3>1. age[g] \in 0 .. MaxView /\ (g \in Making => age[g] < MaxView)
      BY DEF Tick, CacheInv, TypeOK, Making
    <3>2. QED
      BY <1>1, <3>1
  <2>2. QED
    BY <2>1 DEF Tick
<1>7. TypeOK' /\ BoundedStaleness' /\ OwnAnswer'
  BY <1>4, <1>6 DEF CacheInv, TypeOK, BoundedStaleness, OwnAnswer
<1>8. QED
  BY <1>5, <1>7 DEF CacheInv

LEMMA CacheInvNext ==
  ASSUME CacheInv, [Next]_vars
  PROVE  CacheInv'
<1>1. Expiry \in Nat \ {0} /\ MaxView \in Nat
  BY CacheAssumption
<1>2. ASSUME NEW g \in Greenlets, Call(g)
      PROVE  CacheInv'
  <2>1. TypeOK' /\ Entries'
    BY <1>2 DEF Call, Goto, CacheInv, TypeOK, Entries
  <2>2. BoundedStaleness' /\ OwnAnswer'
    BY <1>2 DEF Call, CacheInv, TypeOK, BoundedStaleness, OwnAnswer
  <2>3. QED
    BY <2>1, <2>2 DEF CacheInv
<1>3. ASSUME NEW g \in Greenlets, Hit(g)
      PROVE  CacheInv'
  <2>1. Key(g) \in Keys /\ store[Key(g)] # None
    BY <1>3, KeyType DEF CacheInv, Hit
  <2>2. store[Key(g)] \in [for : Requests, age : Ages, left : 1 .. Expiry]
    BY <2>1 DEF CacheInv, TypeOK
  <2>3. store[Key(g)].age < Expiry + MaxView /\ KeyOf[store[Key(g)].for] = Key(g)
    <3>1. /\ store[Key(g)].age + store[Key(g)].left <= MaxView + Expiry
          /\ KeyOf[store[Key(g)].for] = Key(g)
      BY <2>1 DEF CacheInv, Entries
    <3>2. store[Key(g)].age \in Nat /\ store[Key(g)].left \in Nat \ {0}
      BY <1>1, <2>2 DEF Ages
    <3>3. QED
      BY <1>1, <3>1, <3>2
  <2>4. UNCHANGED <<store, request, age>> /\ Answer(g, store[Key(g)].for, store[Key(g)].age)
    BY <1>3 DEF Hit
  <2>5. /\ store' \in [Keys -> {None} \cup [for : Requests, age : Ages, left : 1 .. Expiry]]
        /\ Entries'
    BY <2>4 DEF CacheInv, TypeOK, Entries
  <2>6. QED
    BY <2>2, <2>3, <2>4, <2>5, AnswerStep
<1>4. ASSUME UNCHANGED <<store, request, answer>>,
             pc' \in [Greenlets -> {"idle", "get", "view", "set"}],
             age' \in [Greenlets -> 0 .. MaxView]
      PROVE  CacheInv'
  BY <1>4 DEF CacheInv, TypeOK, Entries, BoundedStaleness, OwnAnswer
<1>5. ASSUME NEW g \in Greenlets, Miss(g) \/ ViewEnds(g) \/ CacheRaises(g)
      PROVE  CacheInv'
  BY <1>1, <1>4, <1>5 DEF Miss, ViewEnds, CacheRaises, Goto, CacheInv, TypeOK
<1>6. ASSUME NEW k \in Keys, Evict(k)
      PROVE  CacheInv'
  <2>1. store' \in [Keys -> {None} \cup [for : Requests, age : Ages, left : 1 .. Expiry]]
    BY <1>6 DEF Evict, CacheInv, TypeOK
  <2>2. Entries'
    BY <1>6 DEF Evict, CacheInv, TypeOK, Entries
  <2>3. QED
    BY <1>6, <2>1, <2>2 DEF Evict, CacheInv, TypeOK, BoundedStaleness, OwnAnswer
<1>7. CASE UNCHANGED vars
  BY <1>4, <1>7 DEF vars, CacheInv, TypeOK
<1>8. QED
  BY <1>2, <1>3, <1>5, <1>6, <1>7, SetStep, TickStep DEF Next

LEMMA CacheAlways == Spec => []CacheInv
<1>1. CacheInv /\ [Next]_vars => CacheInv'
  BY CacheInvNext
<1>2. QED
  BY <1>1, CacheInvInit, PTL DEF Spec

\* What the store and the greenlets hold at all times: an entry, and an answer that is
\* given, is of an age that the expiry and the time of a view allow.
THEOREM TypeCorrect == Spec => []TypeOK
BY CacheAlways, PTL DEF CacheInv

\* No answer is made of data older than the expiry and the time of one view,
\* however many greenlets fill and overwrite the entry.
THEOREM BoundedStalenessAlways == Spec => []BoundedStaleness
BY CacheAlways, PTL DEF CacheInv

\* Nobody is given a response made for a request with another key.
THEOREM OwnAnswerAlways == Spec => []OwnAnswer
BY CacheAlways, PTL DEF CacheInv
=============================================================================
