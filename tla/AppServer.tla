----------------------------- MODULE AppServer -----------------------------
(***************************************************************************)
(* One worker process serving requests and shutting down gracefully:       *)
(* nucleon/framework.py (Application.__call__, _handle, _dispatch,         *)
(* stop_serving) and nucleon/main.py (webserver_serve), on top of the      *)
(* WaitCounter that counts the requests being handled.                     *)
(*                                                                         *)
(* The greenlets are the request handlers of the server's pool, one signal *)
(* handler per signal received with the greenlet stop_serving() spawns,    *)
(* and the main greenlet in serve_forever().  gevent's WSGIServer is       *)
(* modelled from how webserver_serve uses it.                              *)
(***************************************************************************)
EXTENDS WaitCounter

VARIABLES
    running_state,  \* app.running_state
    req,            \* what each request's handler is doing
    handler,        \* where the handler of each signal is
    server,         \* "accepting", "closed", "killed" (its pool's greenlets)
    exited          \* webserver_serve has returned

serverVars == <<running_state, req, handler, server, exited>>
vars == <<counterVars, serverVars>>

Requests == Users
Signals  == Waiters

AppInit ==
    /\ Init
    /\ running_state = "serving"
    /\ req = [r \in Requests |-> "none"]
    /\ handler = [s \in Signals |-> "none"]
    /\ server = "accepting"
    /\ exited = FALSE

Becomes(r, what) == req' = [req EXCEPT ![r] = what]
Moves(s, where)  == handler' = [handler EXCEPT ![s] = where]

-----------------------------------------------------------------------------
\* Mutant of Dispatch: running_state is tested before the request is counted,
\* with a switch in between (here: it is not tested again).
DispatchUnchecked(r) ==
    /\ ~ exited /\ server # "killed"
    /\ req[r] = "none"
    /\ Enter(r)
    /\ Becomes(r, "view")
    /\ UNCHANGED <<running_state, handler, server, exited>>

\* A request arrives, on a new connection or one that is kept alive, and is
\* dispatched to a view, which may switch.
Dispatch(r) ==
    /\ ~ exited /\ server # "killed"
    /\ req[r] = "none"
    /\ running_state = "serving"
    /\ Enter(r)
    /\ Becomes(r, "view")
    /\ UNCHANGED <<running_state, handler, server, exited>>

\* _dispatch ends before any view runs: 503 while closing, 404 or 405 else.
Refuse(r) ==
    /\ ~ exited /\ server # "killed"
    /\ req[r] = "none"
    /\ Pass(r)
    /\ Becomes(r, "writing")
    /\ UNCHANGED <<running_state, handler, server, exited>>

\* The view returns or raises: either way there is a response to write, and
\* the request is no longer counted.
Respond(r) ==
    /\ ~ exited
    /\ req[r] = "view"
    /\ Leave(r)
    /\ Becomes(r, "writing")
    /\ UNCHANGED <<running_state, handler, server, exited>>

\* The response has been written.
Written(r) ==
    /\ ~ exited
    /\ req[r] = "writing"
    /\ Becomes(r, "answered")
    /\ UNCHANGED <<counterVars, running_state, handler, server, exited>>

-----------------------------------------------------------------------------
\* signal_handler runs, in a greenlet of its own: app.stop_serving() spawns
\* _stop_serving_requests and joins it.
Signal(s) ==
    /\ ~ exited
    /\ handler[s] = "none"
    /\ Moves(s, "spawned")
    /\ UNCHANGED <<counterVars, running_state, req, server, exited>>

\* The spawned greenlet starts: the application is closing from now on.
StopServing(s) ==
    /\ ~ exited
    /\ handler[s] = "spawned"
    /\ running_state' = "closing"
    /\ WaitForZero(s)
    /\ Moves(s, "joining")
    /\ UNCHANGED <<req, server, exited>>

\* Its wait ends: woken, or timed out and dead of the Timeout.
StopperWakes(s) ==
    /\ ~ exited
    /\ Wake(s)
    /\ UNCHANGED serverVars

StopperExpires(s) ==
    /\ ~ exited
    /\ Expire(s)
    /\ UNCHANGED serverVars

\* Mutant of StopServer: join() is not waited for.
StopServerAtOnce(s) ==
    /\ ~ exited
    /\ handler[s] = "joining"
    /\ Moves(s, "stopping")
    /\ server' = IF server = "accepting" THEN "closed" ELSE server
    /\ UNCHANGED <<counterVars, running_state, req, exited>>

\* stop.join() returns, as the spawned greenlet is dead or the same timeout
\* has passed; server.stop() closes the listener and waits for its pool.
StopServer(s) ==
    /\ ~ exited
    /\ handler[s] = "joining"
    /\ wait[s] # "waiting" \/ Timeouts
    /\ Moves(s, IF wait[s] = "returned" THEN "stopping" ELSE "forcing")
    /\ server' = IF server = "accepting" THEN "closed" ELSE server
    /\ UNCHANGED <<counterVars, running_state, req, exited>>

\* server.stop() has waited for its own, shorter timeout: the greenlets still
\* in the pool are killed.  A view's GreenletExit is caught by the bare except
\* of _handle, which makes it a 500 response; a response being written is cut.
KillPool(s) ==
    /\ ~ exited
    /\ handler[s] \in {"stopping", "forcing"}
    /\ server = "closed"
    /\ server' = "killed"
    /\ req' = [r \in Requests |->
                  CASE req[r] = "view"    -> "writing"
                    [] req[r] = "writing" -> "cut"
                    [] OTHER              -> req[r]]
    /\ inside' = {}
    /\ counter' = 0
    /\ ready' = IF inside # {} THEN ready \cup listeners ELSE ready
    /\ UNCHANGED <<listeners, wait, running_state, handler, exited>>

\* Mutant of Exit: serve_forever() without its stop_timeout.
ExitWhenIdle ==
    /\ ~ exited
    /\ server # "accepting"
    /\ \A r \in Requests : req[r] \notin {"view", "writing"}
    /\ exited' = TRUE
    /\ UNCHANGED <<counterVars, running_state, req, handler, server>>

\* The main greenlet leaves serve_forever() once the server is stopped and its
\* pool is empty or has been killed; the process ends with what is left.
Exit ==
    /\ ~ exited
    /\ \/ server = "killed"
       \/ server = "closed" /\ \A r \in Requests : req[r] \notin {"view", "writing"}
    /\ exited' = TRUE
    /\ UNCHANGED <<counterVars, running_state, req, handler, server>>

-----------------------------------------------------------------------------
Serve(r) == Dispatch(r) \/ Refuse(r) \/ Respond(r) \/ Written(r)
Stop(s)  == StopServing(s) \/ StopperWakes(s) \/ StopperExpires(s)
            \/ StopServer(s) \/ KillPool(s)

AppNext ==
    \/ \E r \in Requests : Serve(r)
    \/ \E s \in Signals : Signal(s) \/ Stop(s)
    \/ Exit

AppSpec == AppInit /\ [][AppNext]_vars

\* The hub runs the greenlets that are ready and its timers expire.  Nothing
\* says that a view or a client ever finishes.
AppFairness ==
    /\ \A s \in Signals : /\ WF_vars(StopServing(s)) /\ WF_vars(StopperWakes(s))
                          /\ WF_vars(StopServer(s))  /\ WF_vars(KillPool(s))
    /\ WF_vars(Exit)

FairAppSpec == AppSpec /\ AppFairness

-----------------------------------------------------------------------------
\* The values the variables take; the requests counted are those in a view.
AppTypeOK ==
    /\ CounterTypeOK
    /\ running_state \in {"serving", "closing"}
    /\ req \in [Requests -> {"none", "view", "writing", "answered", "cut"}]
    /\ handler \in [Signals -> {"none", "spawned", "joining", "stopping", "forcing"}]
    /\ server \in {"accepting", "closed", "killed"}
    /\ exited \in BOOLEAN
    /\ inside = {r \in Requests : req[r] = "view"}

\* docs/commands.rst, "Wait for existing requests to complete": unless a
\* shutdown ran into its timeout, no view is running when the server is
\* stopped, and none is started later, although requests keep arriving while
\* the counter goes to zero and several signals may be handled at once.
Graceful ==
    server # "accepting" /\ (\A s \in Signals : handler[s] # "forcing") => inside = {}

\* The process ends after a signal even if views and clients hang, whichever
\* of the two equal timeouts, join's or get's, expires first.
SignalLeadsToExit == \A s \in Signals : handler[s] # "none" ~> exited
=============================================================================
