-------------------------------- MODULE Cache --------------------------------
(***************************************************************************)
(* nucleon/cache.py: views decorated with cached(), called by many         *)
(* greenlets, around one memcached.  cache.get() and cache.set() talk to   *)
(* memcached and may switch, as the view may.                              *)
(*                                                                         *)
(* Time is kept as ages: what a response is made of is as old as the call  *)
(* of the view that made it, and an entry has so many ticks left to live.  *)
(***************************************************************************)
EXTENDS Naturals

CONSTANTS
    Greenlets,
    Requests,
    Keys,
    KeyOf,      \* cache_key as a function of the request; a constant function
                \* is a cache_key that is not callable
    Expiry,     \* the argument expiry
    MaxView,    \* bound: how long a view and its cache.set() take at most
    None

ASSUME CacheAssumption ==
    /\ KeyOf \in [Requests -> Keys]
    /\ Expiry \in Nat \ {0} /\ MaxView \in Nat

VARIABLES
    store,      \* memcached: what it has under each key
    pc,         \* "idle", or where in wrapped(): "get", "view", "set"
    request,    \* the request each greenlet serves or served last
    age,        \* the age of the response its view is making
    answer      \* history: the response it gave last

vars == <<store, pc, request, age, answer>>

Init ==
    /\ store = [k \in Keys |-> None]
    /\ pc = [g \in Greenlets |-> "idle"]
    /\ request \in [Greenlets -> Requests]
    /\ age = [g \in Greenlets |-> 0]
    /\ answer = [g \in Greenlets |-> None]

Goto(g, place) == pc' = [pc EXCEPT ![g] = place]

\* Mutant of Key: the same for every request.
KeyIgnoresRequest(g) == CHOOSE k \in Keys : TRUE

\* cache_key(request, ...), or cache_key itself.
Key(g) == KeyOf[request[g]]

\* Return a response made for r of which the data is that old.
Answer(g, r, old) ==
    /\ answer' = [answer EXCEPT ![g] = [for |-> r, age |-> old]]
    /\ Goto(g, "idle")

Call(g) ==
    /\ pc[g] = "idle"
    /\ \E r \in Requests : request' = [request EXCEPT ![g] = r]
    /\ answer' = [answer EXCEPT ![g] = None]
    /\ Goto(g, "get")
    /\ UNCHANGED <<store, age>>

\* Mutant of Hit: an entry that is used lives on.
HitTouches(g) ==
    /\ pc[g] = "get" /\ store[Key(g)] # None
    /\ Answer(g, store[Key(g)].for, store[Key(g)].age)
    /\ store' = [store EXCEPT ![Key(g)].left = Expiry]
    /\ UNCHANGED <<request, age>>

Hit(g) ==
    /\ pc[g] = "get" /\ store[Key(g)] # None
    /\ Answer(g, store[Key(g)].for, store[Key(g)].age)
    /\ UNCHANGED <<store, request, age>>

\* cache.get() or cache.set() raises, as when memcached cannot be reached: the
\* request fails, a response that was made included.
CacheRaises(g) ==
    /\ pc[g] \in {"get", "set"}
    /\ Goto(g, "idle")
    /\ UNCHANGED <<store, request, age, answer>>

\* Nothing there: the view is called, though others may be in it already.
Miss(g) ==
    /\ pc[g] = "get" /\ store[Key(g)] = None
    /\ age' = [age EXCEPT ![g] = 0]
    /\ Goto(g, "view")
    /\ UNCHANGED <<store, request, answer>>

\* The view raises, which leaves the cache alone, or returns.
ViewEnds(g) ==
    /\ pc[g] = "view"
    /\ \E place \in {"idle", "set"} : Goto(g, place)
    /\ UNCHANGED <<store, request, age, answer>>

\* Mutant of Set: no expiry.
SetForever(g) ==
    /\ pc[g] = "set"
    /\ store' = [store EXCEPT ![Key(g)] = [for |-> request[g], age |-> age[g], left |-> 0]]
    /\ Answer(g, request[g], age[g])
    /\ UNCHANGED <<request, age>>

\* cache.set(): over whatever is there by now, newer responses included.
Set(g) ==
    /\ pc[g] = "set"
    /\ store' = [store EXCEPT ![Key(g)] = [for |-> request[g], age |-> age[g], left |-> Expiry]]
    /\ Answer(g, request[g], age[g])
    /\ UNCHANGED <<request, age>>

\* memcached runs out of memory, or is restarted.
Evict(k) ==
    /\ store[k] # None
    /\ store' = [store EXCEPT ![k] = None]
    /\ UNCHANGED <<pc, request, age, answer>>

Making == {g \in Greenlets : pc[g] \in {"view", "set"}}

Older(e) == [for |-> e.for, age |-> e.age + 1, left |-> e.left - 1]

\* Time passes; memcached drops what has expired.
Tick ==
    /\ \A g \in Making : age[g] < MaxView
    /\ age' = [g \in Greenlets |-> IF g \in Making THEN age[g] + 1 ELSE 0]
    /\ store' = [k \in Keys |->
          IF store[k] = None \/ store[k].left = 1 THEN None ELSE Older(store[k])]
    /\ UNCHANGED <<pc, request, answer>>

Next ==
    \/ \E g \in Greenlets : Call(g) \/ Hit(g) \/ Miss(g) \/ ViewEnds(g) \/ Set(g)
                            \/ CacheRaises(g)
    \/ \E k \in Keys : Evict(k)
    \/ Tick

Spec == Init /\ [][Next]_vars

-----------------------------------------------------------------------------
Ages == 0 .. MaxView + Expiry

TypeOK ==
    /\ store \in [Keys -> {None} \cup [for : Requests, age : Ages, left : 1 .. Expiry]]
    /\ pc \in [Greenlets -> {"idle", "get", "view", "set"}]
    /\ request \in [Greenlets -> Requests]
    /\ age \in [Greenlets -> 0 .. MaxView]
    /\ answer \in [Greenlets -> {None} \cup [for : Requests, age : Ages]]

\* However views race to fill an entry, and although a slow one may put an older
\* response over a newer one, no answer is made of data older than the expiry
\* and the time one view takes: the cache cannot keep itself alive.
BoundedStaleness ==
    \A g \in Greenlets : answer[g] # None => answer[g].age < Expiry + MaxView

\* An answer from the cache was made for a request with the same key: greenlets
\* that are in wrapped() together do not get each other's responses.
OwnAnswer ==
    \A g \in Greenlets : answer[g] # None => KeyOf[answer[g].for] = KeyOf[request[g]]
=============================================================================
