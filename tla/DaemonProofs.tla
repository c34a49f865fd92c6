---------------------------- MODULE DaemonProofs ----------------------------
(***************************************************************************)
(* Proofs about Daemon, for any number of workers, processes, crashes and  *)
(* shutdown signals, for every build, and with or without failing forks.   *)
(***************************************************************************)
EXTENDS Daemon, FiniteSetTheorems, TLAPS

\* A worker's logger reads as long as the worker lives.
Logged == \A p \in Alive : logger[p] = "reading"

\* Nothing happens before start(), and no shutdown without a signal.
Unstarted ==
    master = "new" => /\ keeprunning /\ Unborn = Pids
                      /\ workers = {} /\ zombies = {} /\ ~ sigchld

\* Once stop() is past its first line, the daemon does not respawn.
Stopping ==
    /\ \A s \in Signals : stop[s] \in {"joining", "aborted", "done"} => ~ keeprunning
    /\ stopping => ~ keeprunning /\ \A p \in Pids : logger[p] # "reading"
    /\ master = "exited" => stopping

DaemonInv ==
    /\ TypeOK
    /\ AliveTracked
    /\ Cardinality(workers) <= Processes
    /\ Logged
    /\ Unstarted
    /\ Stopping

LEMMA WorkersFinite ==
  ASSUME TypeOK
  PROVE  IsFiniteSet(workers) /\ Cardinality(workers) \in Nat
BY DaemonAssumption, FS_Subset, FS_CardinalityType DEF TypeOK

LEMMA DaemonInvInit == Init => DaemonInv
<1>1. SUFFICES ASSUME Init PROVE DaemonInv
  OBVIOUS
<1>2. TypeOK
  <2>1. /\ keeprunning = TRUE /\ stopping = FALSE /\ blocked = FALSE /\ sigchld = FALSE
        /\ crashes \in 0 .. MaxCrashes /\ reaps \in Builds
    BY <1>1, DaemonAssumption DEF Init
  <2>2. QED
    BY <1>1, <2>1 DEF Init, TypeOK
<1>3. Cardinality(workers) <= Processes
  BY <1>1, FS_EmptySet, DaemonAssumption DEF Init
<1>4. Alive = {} /\ Unborn = Pids
  BY <1>1 DEF Init, Alive, Unborn
<1>5. AliveTracked /\ Logged /\ Unstarted /\ Stopping
  BY <1>1, <1>4 DEF Init, AliveTracked, Logged, Unstarted, Stopping
<1>6. QED
  BY <1>2, <1>3, <1>5 DEF DaemonInv

-----------------------------------------------------------------------------
\* What forking the processes of ps does to the sets of processes.
LEMMA SpawnStep ==
  ASSUME TypeOK, NEW ps \in SUBSET Unborn, NEW rest, NEW first, Spawn(ps, rest, first)
  PROVE  /\ Alive' = Alive \cup ps
         /\ Unborn' = Unborn \ ps
         /\ proc' \in [Pids -> {"unborn", "forked", "serving", "ending", "dead"}]
         /\ logger' \in [Pids -> {"none", "reading", "done"}]
         /\ \A p \in Pids \ ps : proc'[p] = proc[p] /\ logger'[p] = logger[p]
         /\ \A p \in ps : proc'[p] \in {"forked", "serving"} /\ logger'[p] = "reading"
<1>1. /\ \A p \in Pids \ ps : proc'[p] = proc[p] /\ logger'[p] = logger[p]
      /\ \A p \in ps : proc'[p] \in {"forked", "serving"} /\ logger'[p] = "reading"
  <2>1. ps \subseteq Pids
    BY DEF Unborn
  <2>2. \A p \in Pids \ ps : proc'[p] = proc[p] /\ logger'[p] = logger[p]
    BY DEF Spawn
  <2>3. \A p \in ps : proc'[p] = IF p = first THEN "serving" ELSE "forked"
    BY <2>1 DEF Spawn
  <2>4. \A p \in ps : logger'[p] = "reading"
    BY <2>1 DEF Spawn
  <2>5. QED
    BY <2>2, <2>3, <2>4
<1>2. /\ proc' \in [Pids -> {"unborn", "forked", "serving", "ending", "dead"}]
      /\ logger' \in [Pids -> {"none", "reading", "done"}]
  BY DEF Spawn, TypeOK
<1>3. Alive' = Alive \cup ps /\ Unborn' = Unborn \ ps
  BY <1>1 DEF Alive, Unborn
<1>4. QED
  BY <1>1, <1>2, <1>3

LEMMA StartStep ==
  ASSUME DaemonInv, Start
  PROVE  DaemonInv'
<1>1. PICK ps \in SUBSET Unborn, first \in Unborn :
         /\ Cardinality(ps) = Processes \/ Cardinality(ps) < Processes
         /\ Spawn(ps, {}, first)
         /\ master' \in {"up", "fatal"}
  BY DEF Start
<1>2. /\ keeprunning /\ Unborn = Pids /\ zombies = {}
      /\ UNCHANGED <<reaps, keeprunning, stopping, blocked, stop, sigchld, zombies,
                     deaf, crashes>>
  BY DEF Start, DaemonInv, Unstarted
<1>3. workers' = ps /\ Alive = {} /\ Alive' = ps
  BY <1>1, <1>2, SpawnStep DEF Spawn, DaemonInv, Alive, Unborn
<1>4. TypeOK'
  <2>1. /\ ps \subseteq Pids
        /\ proc' \in [Pids -> {"unborn", "forked", "serving", "ending", "dead"}]
        /\ logger' \in [Pids -> {"none", "reading", "done"}]
        /\ \A p \in Pids \ ps : proc'[p] = proc[p] /\ logger'[p] = logger[p]
        /\ \A p \in ps : proc'[p] \in {"forked", "serving"} /\ logger'[p] = "reading"
    BY <1>1, SpawnStep DEF DaemonInv, Unborn
  <2>2. \A p \in Pids : proc'[p] = "unborn" <=> logger'[p] = "none"
    BY <2>1 DEF DaemonInv, TypeOK
  <2>3. QED
    BY <1>1, <1>2, <1>3, <2>1, <2>2 DEF DaemonInv, TypeOK
<1>5. Cardinality(workers') <= Processes
  <2>1. Cardinality(ps) \in Nat
    BY DaemonAssumption, FS_Subset, FS_CardinalityType DEF Unborn
  <2>2. QED
    BY <1>1, <1>3, <2>1, DaemonAssumption
<1>6. AliveTracked' /\ Logged' /\ Unstarted' /\ Stopping'
  BY <1>1, <1>2, <1>3, SpawnStep DEF DaemonInv, AliveTracked, Logged, Unstarted, Stopping
<1>7. QED
  BY <1>4, <1>5, <1>6 DEF DaemonInv

\* A dead worker is waited for: it is forgotten and perhaps replaced.
LEMMA DeathStep ==
  ASSUME DaemonInv, NEW p \in zombies, zombies' = zombies \ {p}, OnDeath(p),
         master = "up", sigchld' \in BOOLEAN, blocked' \in BOOLEAN,
         UNCHANGED <<reaps, master, keeprunning, stopping, stop, deaf, crashes>>
  PROVE  /\ DaemonInv'
         /\ ~ keeprunning => Unborn' = Unborn
<1>1. p \in Pids /\ proc[p] = "dead" /\ p \notin Alive /\ TypeOK
  BY DEF DaemonInv, TypeOK, Alive
<1>2. CASE UNCHANGED <<workers, logger, proc>>
  <2>1. UNCHANGED <<Alive, Unborn>>
    BY <1>2 DEF Alive, Unborn
  <2>2. TypeOK'
    BY <1>2 DEF DaemonInv, TypeOK
  <2>3. QED
    BY <1>2, <2>1, <2>2 DEF DaemonInv, AliveTracked, Logged, Unstarted, Stopping
<1>3. ASSUME NEW qs \in SUBSET Unborn, p \in workers,
             \A q \in qs : keeprunning /\ qs = {q},
             workers' = (workers \ {p}) \cup qs,
             Alive' = Alive \cup qs, Unborn' = Unborn \ qs,
             proc' \in [Pids -> {"unborn", "forked", "serving", "ending", "dead"}],
             logger' \in [Pids -> {"none", "reading", "done"}],
             \A q \in Pids \ qs : proc'[q] = proc[q] /\ logger'[q] = logger[q],
             \A q \in qs : proc'[q] \in {"forked", "serving"} /\ logger'[q] = "reading"
      PROVE  DaemonInv' /\ (~ keeprunning => Unborn' = Unborn)
  <2>1. qs \subseteq Pids /\ p \notin qs
    BY <1>1 DEF Unborn
  <2>2. TypeOK'
    BY <1>1, <1>3, <2>1 DEF TypeOK, Unborn
  <2>3. Cardinality(workers') <= Processes
    <3>1. Cardinality(workers \ {p}) = Cardinality(workers) - 1 /\ IsFiniteSet(workers \ {p})
      BY <1>1, <1>3, WorkersFinite, FS_RemoveElement
    <3>2. Cardinality(workers) \in Nat /\ Cardinality(workers) <= Processes /\ Processes \in Nat
      BY <1>1, WorkersFinite, DaemonAssumption DEF DaemonInv
    <3>3. CASE qs = {}
      <4>1. workers' = workers \ {p}
        BY <1>3, <3>3
      <4>2. QED
        BY <3>1, <3>2, <4>1
    <3>4. ASSUME NEW q \in qs
          PROVE  Cardinality(workers') <= Processes
      <4>1. workers' = (workers \ {p}) \cup {q}
        BY <1>3
      <4>2. Cardinality(workers') \in {Cardinality(workers \ {p}), Cardinality(workers \ {p}) + 1}
        BY <3>1, <4>1, FS_AddElement
      <4>3. QED
        BY <3>1, <3>2, <4>2
    <3>5. QED
      BY <3>3, <3>4
  <2>4. AliveTracked' /\ Logged'
    BY <1>1, <1>3, <2>1 DEF DaemonInv, AliveTracked, Logged, Alive
  <2>5. Unstarted'
    BY <1>1 DEF DaemonInv, Unstarted
  <2>6. Stopping'
    <3>1. stopping => qs = {}
      BY <1>3 DEF DaemonInv, Stopping
    <3>2. QED
      BY <1>3, <3>1 DEF DaemonInv, Stopping
  <2>7. ~ keeprunning => Unborn' = Unborn
    BY <1>3
  <2>8. QED
    BY <2>2, <2>3, <2>4, <2>5, <2>6, <2>7 DEF DaemonInv
<1>4. CASE p \in workers /\ keeprunning /\ \E q \in Unborn : Spawn({q}, workers \ {p}, p)
  <2>1. PICK q \in Unborn : Spawn({q}, workers \ {p}, p)
    BY <1>4
  <2>2. workers' = (workers \ {p}) \cup {q}
    BY <2>1 DEF Spawn
  <2>3. /\ Alive' = Alive \cup {q} /\ Unborn' = Unborn \ {q}
        /\ proc' \in [Pids -> {"unborn", "forked", "serving", "ending", "dead"}]
        /\ logger' \in [Pids -> {"none", "reading", "done"}]
        /\ \A r \in Pids \ {q} : proc'[r] = proc[r] /\ logger'[r] = logger[r]
        /\ \A r \in {q} : proc'[r] \in {"forked", "serving"} /\ logger'[r] = "reading"
    <3>1. q \in Pids /\ proc[q] = "unborn"
      BY DEF Unborn
    <3>2. /\ proc' = [r \in Pids |-> IF r \notin {q} THEN proc[r]
                                     ELSE IF r = p THEN "serving" ELSE "forked"]
          /\ logger' = [r \in Pids |-> IF r \in {q} THEN "reading" ELSE logger[r]]
      BY <2>1 DEF Spawn
    <3>3. /\ \A r \in Pids \ {q} : proc'[r] = proc[r] /\ logger'[r] = logger[r]
          /\ proc'[q] \in {"forked", "serving"} /\ logger'[q] = "reading"
      BY <3>1, <3>2
    <3>4. /\ proc' \in [Pids -> {"unborn", "forked", "serving", "ending", "dead"}]
          /\ logger' \in [Pids -> {"none", "reading", "done"}]
      BY <1>1, <3>2 DEF TypeOK
    <3>5. Alive' = Alive \cup {q} /\ Unborn' = Unborn \ {q}
      BY <3>1, <3>3 DEF Alive, Unborn
    <3>6. QED
      BY <3>3, <3>4, <3>5
  <2>4. {q} \subseteq Unborn /\ \A r \in {q} : keeprunning /\ {q} = {r}
    BY <1>4
  <2>5. PICK qs \in SUBSET Unborn : qs = {q}
    BY <2>4
  <2>6. QED
    BY <1>3, <1>4, <2>2, <2>3, <2>4, <2>5
<1>5. CASE p \in workers /\ Spawn({}, workers \ {p}, p)
  <2>1. workers' = (workers \ {p}) \cup {}
    BY <1>5 DEF Spawn
  <2>2. /\ Alive' = Alive \cup {} /\ Unborn' = Unborn \ {}
        /\ proc' \in [Pids -> {"unborn", "forked", "serving", "ending", "dead"}]
        /\ logger' \in [Pids -> {"none", "reading", "done"}]
        /\ \A r \in Pids \ {} : proc'[r] = proc[r] /\ logger'[r] = logger[r]
        /\ \A r \in {} : proc'[r] \in {"forked", "serving"} /\ logger'[r] = "reading"
    BY <1>1, <1>5, SpawnStep
  <2>3. QED
    BY <1>3, <1>5, <2>1, <2>2
<1>6. QED
  BY <1>2, <1>4, <1>5 DEF OnDeath

LEMMA SigchldStep ==
  ASSUME DaemonInv, HandleSigchld \/ WaitReturns
  PROVE  /\ DaemonInv'
         /\ ~ keeprunning => Unborn' = Unborn
<1>1. /\ master = "up" /\ TypeOK
      /\ UNCHANGED <<reaps, master, keeprunning, stopping, stop, deaf, crashes>>
  BY DEF HandleSigchld, WaitReturns, AtHub, DaemonInv
<1>2. sigchld' \in BOOLEAN /\ blocked' \in BOOLEAN
  BY <1>1 DEF HandleSigchld, WaitReturns, TypeOK
<1>3. CASE \E p \in zombies : zombies' = zombies \ {p} /\ OnDeath(p)
  BY <1>1, <1>2, <1>3, DeathStep
<1>4. CASE zombies' = {} /\ UNCHANGED <<workers, logger, proc>>
  <2>1. UNCHANGED <<Alive, Unborn>>
    BY <1>4 DEF Alive, Unborn
  <2>2. TypeOK'
    BY <1>1, <1>2, <1>4 DEF TypeOK
  <2>3. QED
    BY <1>1, <1>4, <2>1, <2>2 DEF DaemonInv, AliveTracked, Logged, Unstarted, Stopping
<1>5. QED
  BY <1>3, <1>4 DEF HandleSigchld, WaitReturns

-----------------------------------------------------------------------------
\* os.kill() ends some workers; it starts none.
LEMMA TerminateStep ==
  ASSUME TypeOK, NEW ps \in SUBSET Pids, Terminate(ps)
  PROVE  /\ proc' \in [Pids -> {"unborn", "forked", "serving", "ending", "dead"}]
         /\ deaf' \subseteq Pids
         /\ Alive' = Alive /\ Unborn' = Unborn
         /\ \A p \in Pids : /\ proc[p] = "dead" <=> proc'[p] = "dead"
                            /\ proc[p] = "unborn" <=> proc'[p] = "unborn"
<1>1. PICK lost \in SUBSET {p \in ps : proc[p] = "forked"} :
         /\ deaf' = deaf \cup lost
         /\ proc' = [p \in Pids |->
                        IF p \in (ps \cap Alive) \ lost THEN "ending" ELSE proc[p]]
  BY DEF Terminate
<1>2. /\ proc' \in [Pids -> {"unborn", "forked", "serving", "ending", "dead"}]
      /\ deaf' \subseteq Pids
  BY <1>1 DEF TypeOK
<1>3. \A p \in Pids : proc'[p] # proc[p] => p \in Alive /\ proc'[p] = "ending"
  BY <1>1
<1>4. /\ Alive' = Alive /\ Unborn' = Unborn
      /\ \A p \in Pids : /\ proc[p] = "dead" <=> proc'[p] = "dead"
                         /\ proc[p] = "unborn" <=> proc'[p] = "unborn"
  BY <1>3 DEF Alive, Unborn
<1>5. QED
  BY <1>2, <1>4

LEMMA StopStep ==
  ASSUME DaemonInv, NEW s \in Signals, Stop(s)
  PROVE  DaemonInv' /\ Unborn' = Unborn
<1>1. /\ TypeOK /\ master = "up" /\ ~ keeprunning'
      /\ \E how \in {"joining", "aborted"} : stop' = [stop EXCEPT ![s] = how]
      /\ UNCHANGED <<reaps, master, workers, stopping, blocked, logger, sigchld,
                     zombies, crashes>>
  BY DEF Stop, AtHub, DaemonInv
<1>2. PICK ps \in SUBSET Pids : Terminate(ps)
  BY <1>1 DEF Stop, TypeOK
<1>3. /\ proc' \in [Pids -> {"unborn", "forked", "serving", "ending", "dead"}]
      /\ deaf' \subseteq Pids
      /\ Alive' = Alive /\ Unborn' = Unborn
      /\ \A p \in Pids : /\ proc[p] = "dead" <=> proc'[p] = "dead"
                         /\ proc[p] = "unborn" <=> proc'[p] = "unborn"
  BY <1>1, <1>2, TerminateStep
<1>4. keeprunning' \in BOOLEAN
  BY DEF Stop
<1>5. TypeOK'
  BY <1>1, <1>3, <1>4 DEF TypeOK
<1>6. QED
  BY <1>1, <1>3, <1>5 DEF DaemonInv, AliveTracked, Logged, Unstarted, Stopping

\* The other steps of the control process in which processes do not change.
LEMMA ControlStep ==
  ASSUME DaemonInv,
         \/ Exit
         \/ \E s \in Signals : Send(s) \/ Joined(s)
         \/ \E p \in Pids : LoggerEnds(p)
  PROVE  DaemonInv' /\ Unborn' = Unborn
<1>1. /\ TypeOK /\ master = "up"
      /\ UNCHANGED <<reaps, workers, keeprunning, blocked, sigchld, proc, zombies, deaf, crashes>>
      /\ Alive' = Alive /\ Unborn' = Unborn
  BY DEF Exit, Send, Joined, LoggerEnds, AtHub, DaemonInv, Alive, Unborn
<1>2. CASE Exit
  <2>1. TypeOK'
    BY <1>1, <1>2 DEF Exit, TypeOK
  <2>2. QED
    BY <1>1, <1>2, <2>1 DEF Exit, DaemonInv, AliveTracked, Logged, Unstarted, Stopping
<1>3. ASSUME NEW s \in Signals, Send(s)
      PROVE  DaemonInv'
  <2>1. TypeOK'
    BY <1>1, <1>3 DEF Send, TypeOK
  <2>2. QED
    BY <1>1, <1>3, <2>1
       DEF Send, DaemonInv, TypeOK, AliveTracked, Logged, Unstarted, Stopping
<1>4. ASSUME NEW s \in Signals, Joined(s)
      PROVE  DaemonInv'
  <2>1. TypeOK'
    BY <1>1, <1>4 DEF Joined, TypeOK
  <2>2. Stopping'
    BY <1>1, <1>4 DEF Joined, DaemonInv, TypeOK, Stopping
  <2>3. QED
    BY <1>1, <1>4, <2>1, <2>2 DEF Joined, DaemonInv, AliveTracked, Logged, Unstarted
<1>5. ASSUME NEW p \in Pids, LoggerEnds(p)
      PROVE  DaemonInv'
  <2>1. TypeOK'
    BY <1>1, <1>5 DEF LoggerEnds, TypeOK
  <2>2. Logged' /\ Stopping'
    BY <1>1, <1>5 DEF LoggerEnds, DaemonInv, TypeOK, Logged, Stopping, Alive
  <2>3. QED
    BY <1>1, <1>5, <2>1, <2>2 DEF LoggerEnds, DaemonInv, AliveTracked, Unstarted
<1>6. QED
  BY <1>1, <1>2, <1>3, <1>4, <1>5

\* The steps of a worker.
LEMMA WorkerStep ==
  ASSUME DaemonInv, NEW p \in Pids, Serve(p) \/ Ends(p) \/ Crash(p)
  PROVE  DaemonInv' /\ Unborn' = Unborn
<1>1. /\ TypeOK /\ p \in Alive
      /\ UNCHANGED <<reaps, master, workers, keeprunning, stopping, blocked, stop, logger, deaf>>
  BY DEF Serve, Ends, Crash, Dies, DaemonInv, Alive
<1>2. master # "new"
  BY <1>1 DEF DaemonInv, Unstarted, Alive, Unborn
<1>3. CASE Serve(p)
  <2>1. Alive' = Alive /\ Unborn' = Unborn
    BY <1>1, <1>3 DEF Serve, Alive, Unborn, TypeOK
  <2>2. TypeOK'
    BY <1>1, <1>3 DEF Serve, TypeOK
  <2>3. QED
    BY <1>1, <1>2, <2>1, <2>2 DEF DaemonInv, AliveTracked, Logged, Unstarted, Stopping
<1>4. CASE Dies(p) /\ crashes' \in 0 .. MaxCrashes
  <2>1. Alive' = Alive \ {p} /\ Unborn' = Unborn
    BY <1>1, <1>4 DEF Dies, Alive, Unborn, TypeOK
  <2>2. TypeOK'
    BY <1>1, <1>4 DEF Dies, TypeOK, Alive
  <2>3. QED
    BY <1>1, <1>2, <2>1, <2>2 DEF DaemonInv, AliveTracked, Logged, Unstarted, Stopping
<1>5. Ends(p) \/ Crash(p) => crashes' \in 0 .. MaxCrashes
  BY <1>1, DaemonAssumption DEF Ends, Crash, TypeOK
<1>6. QED
  BY <1>3, <1>4, <1>5 DEF Ends, Crash

-----------------------------------------------------------------------------
LEMMA DaemonInvStep ==
  ASSUME DaemonInv, [Next]_vars
  PROVE  /\ DaemonInv'
         /\ ~ keeprunning => Unborn' = Unborn
<1>1. CASE Start
  <2>1. keeprunning
    BY <1>1 DEF Start, DaemonInv, Unstarted
  <2>2. QED
    BY <1>1, <2>1, StartStep
<1>2. CASE HandleSigchld \/ WaitReturns
  BY <1>2, SigchldStep
<1>3. CASE \E s \in Signals : Stop(s)
  BY <1>3, StopStep
<1>4. CASE \/ Exit
           \/ \E s \in Signals : Send(s) \/ Joined(s)
           \/ \E p \in Pids : LoggerEnds(p)
  BY <1>4, ControlStep
<1>5. CASE \E p \in Pids : Serve(p) \/ Ends(p) \/ Crash(p)
  BY <1>5, WorkerStep
<1>6. CASE UNCHANGED vars
  <2>1. UNCHANGED <<Alive, Unborn>>
    BY <1>6 DEF vars, Alive, Unborn
  <2>2. TypeOK'
    BY <1>6 DEF vars, DaemonInv, TypeOK
  <2>3. QED
    BY <1>6, <2>1, <2>2 DEF vars, DaemonInv, AliveTracked, Logged, Unstarted, Stopping
<1>7. QED
  BY <1>1, <1>2, <1>3, <1>4, <1>5, <1>6 DEF Next

LEMMA DaemonInvAlways == Spec => []DaemonInv
<1>1. DaemonInv /\ [Next]_vars => DaemonInv'
  BY DaemonInvStep
<1>2. QED
  BY <1>1, DaemonInvInit, PTL DEF Spec

\* Every state of the daemon has the right types.
THEOREM TypeCorrect == Spec => []TypeOK
BY DaemonInvAlways, PTL DEF DaemonInv

\* stop() can reach every live worker.
THEOREM AliveTrackedAlways == Spec => []AliveTracked
BY DaemonInvAlways, PTL DEF DaemonInv

\* The daemon never runs more workers than it was asked for.
THEOREM AtMostProcessesAlways == Spec => []AtMostProcesses
<1>1. ASSUME DaemonInv
      PROVE  AtMostProcesses
  <2>1. Cardinality(Alive) <= Cardinality(workers) /\ Cardinality(Alive) \in Nat
    BY <1>1, WorkersFinite, FS_Subset, FS_CardinalityType DEF DaemonInv, AliveTracked
  <2>2. QED
    BY <1>1, <2>1, WorkersFinite, DaemonAssumption DEF DaemonInv, AtMostProcesses
<1>2. QED
  BY <1>1, DaemonInvAlways, PTL

\* When the control process has exited after a signal, no worker is running,
\* not even one that never heard of the signal.
THEOREM ExitLeavesNoWorkerAlways == Spec => []ExitLeavesNoWorker
<1>1. DaemonInv => ExitLeavesNoWorker
  BY DEF DaemonInv, Logged, Stopping, ExitLeavesNoWorker, Alive
<1>2. QED
  BY <1>1, DaemonInvAlways, PTL

\* Nothing is forked any more once a shutdown signal has been handled.
THEOREM NoSpawnAfterStopAlways == Spec => NoSpawnAfterStop
<1>1. DaemonInv /\ [Next]_vars => [~ keeprunning => Unborn' = Unborn]_vars
  BY DaemonInvStep
<1>2. QED
  BY <1>1, DaemonInvAlways, PTL DEF Spec, NoSpawnAfterStop
=============================================================================
