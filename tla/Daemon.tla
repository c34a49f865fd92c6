------------------------------- MODULE Daemon -------------------------------
(***************************************************************************)
(* nucleon/main.py: MultiprocessDaemon, the control process that forks the *)
(* workers, respawns those that die and stops them on a signal.            *)
(*                                                                         *)
(* A step of the control process runs until its greenlet switches to the   *)
(* hub; signals are only handled there.  os.wait() does not switch: while  *)
(* it blocks, the whole control process is blocked.  The workers are       *)
(* processes of their own and take their steps at any time.                *)
(***************************************************************************)
EXTENDS Integers, FiniteSets

CONSTANTS
    Pids,       \* process ids; none is used twice
    Processes,  \* start()'s argument: how many workers to run
    Signals,    \* the shutdown signals the control process may receive
    MaxCrashes, \* bound on the number of workers that die on their own
    Builds,     \* does libev reap children before on_worker_exit runs?
    ForkFails   \* TRUE if os.pipe() or os.fork() may raise OSError

ASSUME DaemonAssumption ==
    /\ IsFiniteSet(Pids)
    /\ Processes \in Nat \ {0}
    /\ MaxCrashes \in Nat
    /\ Builds \subseteq BOOLEAN
    /\ ForkFails \in BOOLEAN

VARIABLES
    reaps,        \* the build's answer; install_sigchld() asks for TRUE
    master,       \* the control process: "new", "up", "exited", "fatal"
    workers,      \* self.workers
    keeprunning,  \* self.keeprunning
    stopping,     \* self.stopping, an Event
    blocked,      \* on_worker_exit is inside os.wait()
    stop,         \* how far the handling of each shutdown signal is
    logger,       \* the logger greenlet of each worker
    sigchld,      \* SIGCHLD is pending; several deaths make one signal
    proc,         \* the state of each process
    zombies,      \* the dead children nobody has waited for
    deaf,         \* history: workers that lost a SIGTERM while starting
    crashes       \* history: how many workers died on their own

vars == <<reaps, master, workers, keeprunning, stopping, blocked, stop, logger,
          sigchld, proc, zombies, deaf, crashes>>

Alive  == {p \in Pids : proc[p] \in {"forked", "serving", "ending"}}
Unborn == {p \in Pids : proc[p] = "unborn"}

\* The control process is between two steps of its greenlets.
AtHub == master = "up" /\ ~ blocked

Init ==
    /\ reaps \in Builds
    /\ master = "new"
    /\ workers = {}
    /\ keeprunning = TRUE
    /\ stopping = FALSE
    /\ blocked = FALSE
    /\ stop = [s \in Signals |-> "none"]
    /\ logger = [p \in Pids |-> "none"]
    /\ sigchld = FALSE
    /\ proc = [p \in Pids |-> "unborn"]
    /\ zombies = {}
    /\ deaf = {}
    /\ crashes = 0

-----------------------------------------------------------------------------
\* Mutant of Spawn: the pid is not added to self.workers.
SpawnUntracked(ps, rest, first) ==
    /\ workers' = rest
    /\ logger' = [p \in Pids |-> IF p \in ps THEN "reading" ELSE logger[p]]
    /\ proc' = [p \in Pids |-> IF p \notin ps THEN proc[p]
                               ELSE IF p = first THEN "serving" ELSE "forked"]

\* Mutant of Spawn: no logger is started for a worker.
SpawnUnlogged(ps, rest, first) ==
    /\ workers' = rest \cup ps
    /\ proc' = [p \in Pids |-> IF p \notin ps THEN proc[p]
                               ELSE IF p = first THEN "serving" ELSE "forked"]
    /\ UNCHANGED logger

\* spawn_worker() for each of ps, whose members become workers beside those of
\* rest.  A forked worker kills the loggers it inherited, and so switches to its
\* hub once, before it has its own signal handlers; the first one has none.
Spawn(ps, rest, first) ==
    /\ workers' = rest \cup ps
    /\ logger' = [p \in Pids |-> IF p \in ps THEN "reading" ELSE logger[p]]
    /\ proc' = [p \in Pids |-> IF p \notin ps THEN proc[p]
                               ELSE IF p = first THEN "serving" ELSE "forked"]

\* start() up to stopping.wait(): the loop over spawn_worker() does not switch.
\* An OSError there ends the control process, whatever it had started.
Start ==
    /\ master = "new"
    /\ \E ps \in SUBSET Unborn, first \in Unborn :
          /\ first \in ps \/ ps = {}
          /\ \/ Cardinality(ps) = Processes /\ master' = "up"
             \/ ForkFails /\ Cardinality(ps) < Processes /\ master' = "fatal"
          /\ Spawn(ps, {}, first)
    /\ UNCHANGED <<reaps, keeprunning, stopping, blocked, stop, sigchld, zombies,
                   deaf, crashes>>

\* Mutant of OnDeath: keeprunning is not looked at.
RespawnAlways(p) ==
    \/ p \notin workers /\ UNCHANGED <<workers, logger, proc>>
    \/ /\ p \in workers
       /\ \/ \E q \in Unborn : Spawn({q}, workers \ {p}, p)
          \/ ForkFails /\ Spawn({}, workers \ {p}, p)

\* Mutant of OnDeath: one worker too many may be spawned.
RespawnMissing(p) ==
    \/ p \notin workers /\ UNCHANGED <<workers, logger, proc>>
    \/ /\ p \in workers
       /\ IF keeprunning
          THEN \E qs \in SUBSET Unborn : /\ Cardinality(qs) \in {1, 2}
                                         /\ Spawn(qs, workers \ {p}, p)
          ELSE Spawn({}, workers \ {p}, p)

\* on_worker_exit once os.wait() has returned p: a worker is forgotten and, if
\* the daemon is not stopping, replaced; an OSError from that is swallowed.
OnDeath(p) ==
    \/ p \notin workers /\ UNCHANGED <<workers, logger, proc>>
    \/ /\ p \in workers
       /\ \/ keeprunning /\ \E q \in Unborn : Spawn({q}, workers \ {p}, p)
          \/ (~ keeprunning \/ ForkFails) /\ Spawn({}, workers \ {p}, p)

\* SIGCHLD is handled: os.wait() takes one dead child.  If libev's child watcher
\* has taken them all, it blocks or, without children, raises OSError.  Left out:
\* spawn_worker() puts another lock in the place of the one that is held, so after
\* a respawn the finally clause raises RuntimeError, which ends this greenlet
\* when it has nothing left to do.
HandleSigchld ==
    /\ AtHub
    /\ sigchld
    /\ sigchld' = FALSE
    /\ LET left == IF reaps THEN {} ELSE zombies
       IN  \/ \E p \in left : /\ zombies' = left \ {p}
                              /\ OnDeath(p)
                              /\ UNCHANGED blocked
           \/ /\ left = {}
              /\ zombies' = {}
              /\ blocked' = (Alive # {})
              /\ UNCHANGED <<workers, logger, proc>>
    /\ UNCHANGED <<reaps, master, keeprunning, stopping, stop, deaf, crashes>>

\* os.wait(), having blocked, returns the next child to die.
WaitReturns ==
    /\ master = "up"
    /\ blocked
    /\ blocked' = FALSE
    /\ \E p \in zombies : /\ zombies' = zombies \ {p}
                          /\ OnDeath(p)
    /\ UNCHANGED <<reaps, master, keeprunning, stopping, stop, sigchld, deaf, crashes>>

-----------------------------------------------------------------------------
\* A shutdown signal is sent to the control process.
Send(s) ==
    /\ master = "up"
    /\ stop[s] = "none"
    /\ stop' = [stop EXCEPT ![s] = "sent"]
    /\ UNCHANGED <<reaps, master, workers, keeprunning, stopping, blocked, logger,
                   sigchld, proc, zombies, deaf, crashes>>

\* Mutant of Terminate: only one worker is signalled.
TerminateOne(ps) ==
    /\ proc' \in {proc} \cup {[proc EXCEPT ![p] = "ending"] : p \in ps \cap Alive}
    /\ UNCHANGED deaf

\* os.kill(p, SIGTERM) for each p of ps.  In a worker that is still starting the
\* handler inherited from the control process may consume the signal.
Terminate(ps) ==
    \E lost \in SUBSET {p \in ps : proc[p] = "forked"} :
       /\ deaf' = deaf \cup lost
       /\ proc' = [p \in Pids |->
                      IF p \in (ps \cap Alive) \ lost THEN "ending" ELSE proc[p]]

\* signal_handler() calls stop(), which signals the workers one by one and goes
\* on to join the loggers.  For a worker that no longer exists os.kill() raises
\* OSError, and formatting the message about it raises TypeError: the others are
\* not signalled and stop() goes no further.
Stop(s) ==
    /\ AtHub
    /\ stop[s] = "sent"
    /\ keeprunning' = FALSE
    /\ LET missing == {p \in workers : p \notin Alive \cup zombies}
       IN  \/ /\ missing = {}
              /\ Terminate(workers)
              /\ stop' = [stop EXCEPT ![s] = "joining"]
           \/ /\ missing # {}
              /\ \E ps \in SUBSET (workers \ missing) : Terminate(ps)
              /\ stop' = [stop EXCEPT ![s] = "aborted"]
    /\ UNCHANGED <<reaps, master, workers, stopping, blocked, logger, sigchld,
                   zombies, crashes>>

\* A logger reads the end of its pipe, which only its worker had open.
LoggerEnds(p) ==
    /\ AtHub
    /\ logger[p] = "reading"
    /\ p \notin Alive
    /\ logger' = [logger EXCEPT ![p] = "done"]
    /\ UNCHANGED <<reaps, master, workers, keeprunning, stopping, blocked, stop,
                   sigchld, proc, zombies, deaf, crashes>>

\* Mutant of Joined: the loggers are not joined.
JoinedAtOnce(s) ==
    /\ AtHub
    /\ stop[s] = "joining"
    /\ stop' = [stop EXCEPT ![s] = "done"]
    /\ stopping' = TRUE
    /\ UNCHANGED <<reaps, master, workers, keeprunning, blocked, logger, sigchld,
                   proc, zombies, deaf, crashes>>

\* The rest of stop(): joinall() returns, the access log is closed and the main
\* greenlet may leave stopping.wait().
Joined(s) ==
    /\ AtHub
    /\ stop[s] = "joining"
    /\ \A p \in Pids : logger[p] # "reading"
    /\ stop' = [stop EXCEPT ![s] = "done"]
    /\ stopping' = TRUE
    /\ UNCHANGED <<reaps, master, workers, keeprunning, blocked, logger, sigchld,
                   proc, zombies, deaf, crashes>>

\* The end of start(): at_exit is fired and the control process exits.
Exit ==
    /\ AtHub
    /\ stopping
    /\ master' = "exited"
    /\ UNCHANGED <<reaps, workers, keeprunning, stopping, blocked, stop, logger,
                   sigchld, proc, zombies, deaf, crashes>>

-----------------------------------------------------------------------------
\* A worker has replaced the inherited signal handlers by its own.
Serve(p) ==
    /\ proc[p] = "forked"
    /\ proc' = [proc EXCEPT ![p] = "serving"]
    /\ UNCHANGED <<reaps, master, workers, keeprunning, stopping, blocked, stop,
                   logger, sigchld, zombies, deaf, crashes>>

Dies(p) ==
    /\ proc' = [proc EXCEPT ![p] = "dead"]
    /\ zombies' = zombies \cup {p}
    /\ sigchld' = TRUE
    /\ UNCHANGED <<reaps, master, workers, keeprunning, stopping, blocked, stop,
                   logger, deaf>>

\* A worker has shut down after SIGTERM (module AppServer).  In one that was forked
\* by on_worker_exit() the finally clause raises AttributeError (the lock is None
\* there) in place of SystemExit; it then ends when the hub has nothing left to
\* run, as gevent's LoopExit in the main greenlet, and is no different here.
Ends(p) ==
    /\ proc[p] = "ending"
    /\ Dies(p)
    /\ UNCHANGED crashes

\* A worker dies on its own.
Crash(p) ==
    /\ proc[p] \in {"forked", "serving"}
    /\ crashes < MaxCrashes
    /\ crashes' = crashes + 1
    /\ Dies(p)

Next ==
    \/ Start \/ HandleSigchld \/ WaitReturns \/ Exit
    \/ \E s \in Signals : Send(s) \/ Stop(s) \/ Joined(s)
    \/ \E p \in Pids : LoggerEnds(p) \/ Serve(p) \/ Ends(p) \/ Crash(p)

Spec == Init /\ [][Next]_vars

\* The hub of the control process runs what is ready, a blocked os.wait() that
\* has a dead child returns, and workers start and, once signalled, end.
Fairness ==
    /\ WF_vars(Start) /\ WF_vars(HandleSigchld) /\ WF_vars(WaitReturns) /\ WF_vars(Exit)
    /\ \A s \in Signals : WF_vars(Stop(s)) /\ WF_vars(Joined(s))
    /\ \A p \in Pids : /\ WF_vars(LoggerEnds(p))
                       /\ WF_vars(Serve(p)) /\ WF_vars(Ends(p))

FairSpec == Spec /\ Fairness

-----------------------------------------------------------------------------
\* The values the variables take; every worker forked got a logger.
TypeOK ==
    /\ reaps \in Builds
    /\ master \in {"new", "up", "exited", "fatal"}
    /\ workers \subseteq Pids
    /\ keeprunning \in BOOLEAN
    /\ stopping \in BOOLEAN
    /\ blocked \in BOOLEAN
    /\ stop \in [Signals -> {"none", "sent", "joining", "aborted", "done"}]
    /\ logger \in [Pids -> {"none", "reading", "done"}]
    /\ sigchld \in BOOLEAN
    /\ proc \in [Pids -> {"unborn", "forked", "serving", "ending", "dead"}]
    /\ zombies \subseteq {p \in Pids : proc[p] = "dead"}
    /\ deaf \subseteq Pids
    /\ crashes \in 0 .. MaxCrashes
    /\ \A p \in Pids : proc[p] = "unborn" <=> logger[p] = "none"

\* stop() can reach every live worker: each of them is in self.workers, however
\* deaths, respawns and signals interleave.
AliveTracked == Alive \subseteq workers

\* The daemon never runs more workers than it was asked for.
AtMostProcesses == Cardinality(Alive) <= Processes

\* Nothing is forked any more once a shutdown signal has been handled, although
\* the workers' deaths it causes are handled like any others.
NoSpawnAfterStop == [][~ keeprunning => Unborn' = Unborn]_vars

\* The docstring of stop(): when the control process has exited after a signal,
\* no worker is left running, those included that lost their SIGTERM.
ExitLeavesNoWorker == master = "exited" => Alive = {}

\* A shutdown signal ends the control process, unless a worker lost its SIGTERM
\* while it was starting or libev takes the children os.wait() is waiting for.
StopCompletes ==
    \A s \in Signals : stop[s] = "sent" ~> (master # "up" \/ deaf # {} \/ reaps)

\* "A daemon that forks multiple workers and keeps them alive" (the docstring of
\* the class): while it is not stopped, it always comes back to Processes.
KeepsAlive == []<>(master # "up" \/ ~ keeprunning \/ Cardinality(Alive) = Processes)
=============================================================================
