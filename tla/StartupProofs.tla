---------------------------- MODULE StartupProofs ----------------------------
(***************************************************************************)
(* Proofs about Startup, for any launches, test runs, names, contents of   *)
(* app.cfg and users.                                                      *)
(***************************************************************************)
EXTENDS Startup, FiniteSetTheorems, TLAPS

-----------------------------------------------------------------------------
(***************************************************************************)
(* Settings.  All that Startup does to them is one of these.               *)
(***************************************************************************)
SettingsStep(p) ==
    \/ \E raised \in BOOLEAN : GetApp(p, raised)
    \/ Read(p)
    \/ \E name \in Names, haveconfig, raised \in BOOLEAN :
          /\ haveconfig => readable
          /\ SetEnvironment(p, name, haveconfig, raised)
          /\ UNCHANGED <<shell, locked, app, seen>>

\* What the values read so far say of the section they came from.
ReadLocks ==
    \A p \in Procs : seen[p] \subseteq {section[p]} /\ (seen[p] # {} => locked[p])

\* Where a section comes from.
SectionIsNamed ==
    \A p \in Procs : section[p] # None => readable /\ variable \in {None, section[p]}

SettingsInv == SettingsTypeOK /\ ReadLocks /\ SectionIsNamed

\* SetEnvironment() alone.
LEMMA SetEnvironmentStep ==
  ASSUME SettingsInv, NEW p \in Procs, NEW name \in Names,
         NEW haveconfig \in BOOLEAN, haveconfig => readable,
         NEW raised \in BOOLEAN, SetEnvironment(p, name, haveconfig, raised)
  PROVE  /\ section' \in [Procs -> sections \cup {None}]
         /\ \A q \in Procs : section'[q] = section[q] \/ ~ locked[q]
         /\ \A q \in Procs : section'[q] # None => readable /\ variable \in {None, section'[q]}
<1>1. CASE UNCHANGED section
  BY <1>1 DEF SettingsInv, SettingsTypeOK, SectionIsNamed
<1>2. CASE /\ ~ locked[p] /\ haveconfig
           /\ SectionFor(name) \in sections
           /\ section' = [section EXCEPT ![p] = SectionFor(name)]
  <2>1. SectionFor(name) # None => variable \in {None, SectionFor(name)}
    BY DEF SectionFor
  <2>2. QED
    BY <1>2, <2>1 DEF SettingsInv, SettingsTypeOK, SectionIsNamed
<1>3. QED
  BY <1>1, <1>2 DEF SetEnvironment

LEMMA SettingsInvInit == SettingsInit => SettingsInv
BY DEF SettingsInit, SettingsInv, SettingsTypeOK, ReadLocks, SectionIsNamed

\* The settings of every process stay of one section, in every step.
LEMMA SettingsInvStep ==
  ASSUME SettingsInv, NEW p \in Procs, SettingsStep(p)
  PROVE  SettingsInv'
<1>1. ASSUME UNCHANGED settingsVars
      PROVE  SettingsInv'
  BY <1>1 DEF SettingsInv, SettingsTypeOK, ReadLocks, SectionIsNamed, settingsVars, shell
<1>2. ASSUME UNCHANGED <<shell, seen>>,
             section' \in [Procs -> sections \cup {None}],
             \A q \in Procs : section'[q] = section[q] \/ ~ locked[q],
             \A q \in Procs : section'[q] # None => readable /\ variable \in {None, section'[q]},
             locked' \in [Procs -> BOOLEAN],
             \A q \in Procs : locked[q] => locked'[q],
             app' \in [Procs -> {"none", "half", "ready"}]
      PROVE  SettingsInv'
  <2>1. ReadLocks'
    BY <1>2 DEF SettingsInv, ReadLocks, SettingsTypeOK
  <2>2. QED
    BY <1>2, <2>1 DEF SettingsInv, SettingsTypeOK, SectionIsNamed, shell
<1>3. CASE Read(p)
  <2>1. SettingsTypeOK'
    BY <1>3 DEF Read, SettingsInv, SettingsTypeOK, shell
  <2>2. ReadLocks' /\ SectionIsNamed'
    BY <1>3 DEF Read, SettingsInv, SettingsTypeOK, ReadLocks, SectionIsNamed, shell
  <2>3. QED
    BY <2>1, <2>2 DEF SettingsInv
<1>4. ASSUME NEW raised \in BOOLEAN, GetApp(p, raised)
      PROVE  SettingsInv'
  <2>1. CASE Known(p, raised)
    BY <1>1, <2>1 DEF Known
  <2>2. CASE ImportRaises(p, raised)
    BY <1>2, <2>2 DEF ImportRaises, SettingsInv, SettingsTypeOK, SectionIsNamed
  <2>3. CASE Imported(p, raised)
    <3>1. DEFAULT_ENVIRONMENT \in Names /\ readable \in BOOLEAN
      BY SettingsAssumption DEF SettingsInv, SettingsTypeOK
    <3>2. /\ section' \in [Procs -> sections \cup {None}]
          /\ \A q \in Procs : section'[q] = section[q] \/ ~ locked[q]
          /\ \A q \in Procs : section'[q] # None => readable /\ variable \in {None, section'[q]}
      <4>1. CASE UNCHANGED section
        BY <4>1 DEF SettingsInv, SettingsTypeOK, SectionIsNamed
      <4>2. CASE SetEnvironment(p, DEFAULT_ENVIRONMENT, readable, raised)
        BY <3>1, <4>2, SetEnvironmentStep
      <4>3. QED
        BY <2>3, <4>1, <4>2 DEF Imported
    <3>3. QED
      BY <1>2, <2>3, <3>2 DEF Imported, SettingsInv, SettingsTypeOK
  <2>4. QED
    BY <1>4, <2>1, <2>2, <2>3 DEF GetApp
<1>5. ASSUME NEW name \in Names, NEW haveconfig \in BOOLEAN, NEW raised \in BOOLEAN,
             haveconfig => readable,
             SetEnvironment(p, name, haveconfig, raised),
             UNCHANGED <<shell, locked, app, seen>>
      PROVE  SettingsInv'
  BY <1>2, <1>5, SetEnvironmentStep DEF SettingsInv, SettingsTypeOK
<1>6. QED
  BY <1>3, <1>4, <1>5 DEF SettingsStep

\* Everything else that happens leaves the settings alone.
LEMMA NextSettings ==
  ASSUME SettingsInv, [Next]_vars
  PROVE  UNCHANGED settingsVars \/ \E p \in Procs : SettingsStep(p)
<1>1. Launches \subseteq Procs /\ Testers \subseteq Procs /\ "test" \in Names
  BY StartupAssumption DEF Testers
<1>2. ASSUME NEW p \in Procs, NEW name \in Names, Switch(p, name)
      PROVE  SettingsStep(p)
  <2>1. (app[p] # "none" /\ readable) \in BOOLEAN
    OBVIOUS
  <2>2. QED
    BY <1>2, <2>1 DEF Switch, SettingsStep
<1>3. ASSUME NEW l \in Launches, Launch(l)
      PROVE  UNCHANGED settingsVars \/ SettingsStep(l)
  BY <1>3 DEF Launch, Command, Bind, Listen, LogEnvironment, Daemonise, LookUp, FirstFork,
              OpenPidfile, Privileges, SecondFork, WritePid, SettingsStep
<1>4. ASSUME NEW l \in Launches, AppCode(l)
      PROVE  SettingsStep(l)
  BY <1>1, <1>2, <1>4 DEF AppCode, SettingsStep
<1>5. ASSUME NEW l \in Launches, Die(l) \/ OrphansEnd(l)
      PROVE  UNCHANGED settingsVars
  BY <1>5 DEF Die, OrphansEnd
<1>6. ASSUME NEW t \in Testers, Testing(t)
      PROVE  SettingsStep(t)
  <2>1. CASE TestGetsApp(t)
    BY <2>1 DEF TestGetsApp, SettingsStep
  <2>2. CASE TestSwitches(t)
    BY <1>1, <2>2 DEF TestSwitches, SettingsStep, SettingsInv, SettingsTypeOK
  <2>3. CASE TestCode(t)
    BY <1>1, <1>2, <2>3 DEF TestCode, SettingsStep
  <2>4. QED
    BY <1>6, <2>1, <2>2, <2>3 DEF Testing
<1>7. CASE UNCHANGED vars
  BY <1>7 DEF vars
<1>8. QED
  BY <1>1, <1>3, <1>4, <1>5, <1>6, <1>7 DEF Next

LEMMA SettingsInvNext ==
  ASSUME SettingsInv, [Next]_vars
  PROVE  SettingsInv'
<1>1. CASE UNCHANGED settingsVars
  BY <1>1 DEF SettingsInv, SettingsTypeOK, ReadLocks, SectionIsNamed, settingsVars, shell
<1>2. QED
  BY <1>1, NextSettings, SettingsInvStep

LEMMA SettingsAlways == Spec => []SettingsInv
<1>1. Init => SettingsInv
  BY SettingsInvInit DEF Init
<1>2. SettingsInv /\ [Next]_vars => SettingsInv'
  BY SettingsInvNext
<1>3. QED
  BY <1>1, <1>2, PTL DEF Spec

\* All the values a process ever reads are of one section of app.cfg: the lock
\* of nucleon/config.py keeps what its docstring promises, whatever is called.
THEOREM OneEnvironmentAlways == Spec => []OneEnvironment
<1>1. SettingsInv => OneEnvironment
  <2>1. SUFFICES ASSUME SettingsInv, NEW p \in Procs
                 PROVE  Cardinality(seen[p]) <= 1
    BY DEF OneEnvironment
  <2>2. seen[p] \subseteq {section[p]}
    BY <2>1 DEF SettingsInv, ReadLocks
  <2>3. IsFiniteSet({section[p]}) /\ Cardinality({section[p]}) = 1
    BY FS_Singleton
  <2>4. Cardinality(seen[p]) <= Cardinality({section[p]})
    BY <2>2, <2>3, FS_Subset
  <2>5. QED
    BY <2>3, <2>4
<1>2. QED
  BY <1>1, SettingsAlways, PTL

-----------------------------------------------------------------------------
(***************************************************************************)
(* Launches.                                                               *)
(***************************************************************************)
\* Whoever is past listen() has the port, and nobody else has.
PastListen == {"log", "names", "fork1", "pidfile", "privileges", "fork2", "write", "serve"}

OnePort ==
    /\ \A a, b \in sockets : a = b
    /\ \A l \in Launches : pc[l] \in PastListen => l \in sockets

\* Which process of the launch it is, and when it has the pidfile.
Stage ==
    \A l \in Launches :
       /\ pc[l] \in {"command", "bind", "listen", "log", "names", "fork1"} => forks[l] = 0 /\ ~ pf[l]
       /\ pc[l] = "pidfile" => forks[l] = 1 /\ ~ pf[l]
       /\ pc[l] \in {"privileges", "fork2"} => forks[l] = 1
       /\ pc[l] = "write" => forks[l] = 2
       /\ pc[l] = "serve" /\ pf[l] => forks[l] = 2

\* Root keeps its rights, and a user has none to give up, until the privileges
\* are dropped; from then on they are those asked for.
Dropped(l) ==
    asked[l].user # None =>
       /\ cred[l].uid = asked[l].user
       /\ l \in su /\ asked[l].user # Root => cred[l].gid = RunningGid(l) /\ ~ cred[l].groups

Rights ==
    \A l \in Launches :
       /\ pc[l] \in Steps \ {"fork2", "write", "serve", "ended"} => (l \in su => cred[l].uid = Root)
       /\ pc[l] \in {"fork2", "write"} \/ (pc[l] = "serve" /\ forks[l] = 2) => Dropped(l)

LaunchInv == LaunchTypeOK /\ OnePort /\ Stage /\ PidfileNamesDaemon /\ Rights

LEMMA LaunchInvInit == Init => LaunchInv
<1>1. SUFFICES ASSUME Init PROVE LaunchInv
  OBVIOUS
<1>2. LaunchTypeOK
  BY <1>1, StartupAssumption DEF Init, LaunchTypeOK, Steps, Testers, Users, Groups
<1>3. OnePort /\ Stage /\ PidfileNamesDaemon /\ Rights
  BY <1>1, StartupAssumption
     DEF Init, OnePort, PastListen, Stage, PidfileNamesDaemon, Rights, Steps
<1>4. QED
  BY <1>2, <1>3 DEF LaunchInv

\* A step of another process that moves none of the launches.
LEMMA TestersStep ==
  ASSUME LaunchInv, NEW t \in Testers, NEW step \in {"idle", "switch", "testing"},
         Goto(t, step), UNCHANGED launchVars
  PROVE  LaunchInv'
<1>1. \A l \in Launches : pc'[l] = pc[l]
  BY DEF Goto, Testers, LaunchInv, LaunchTypeOK
<1>2. LaunchTypeOK'
  BY <1>1 DEF Goto, Testers, LaunchInv, LaunchTypeOK, launchVars
<1>3. OnePort' /\ Stage' /\ PidfileNamesDaemon'
  BY <1>1 DEF LaunchInv, OnePort, Stage, PidfileNamesDaemon, launchVars
<1>4. Rights'
  BY <1>1 DEF LaunchInv, Rights, Dropped, RunningGid, launchVars
<1>5. QED
  BY <1>2, <1>3, <1>4 DEF LaunchInv

\* One step of one launch that goes on, or ends, with everything it may change
\* given.  Only who has the port may touch the pidfile.
LEMMA LaunchStep ==
  ASSUME LaunchInv, NEW l \in Launches, NEW step \in Steps, Goto(l, step),
         LaunchTypeOK',
         UNCHANGED su,
         \A k \in Launches \ {l} : /\ forks'[k] = forks[k] /\ pf'[k] = pf[k]
                                   /\ asked'[k] = asked[k] /\ cred'[k] = cred[k],
         \/ sockets' \subseteq sockets /\ (\A k \in Launches \ {l} : k \in sockets => k \in sockets')
         \/ sockets = {} /\ sockets' = {l},
         step \in PastListen => l \in sockets',
         pidfile' = pidfile \/ l \in sockets,
         step \in {"command", "bind", "listen", "log", "names", "fork1"} => forks'[l] = 0 /\ ~ pf'[l],
         step = "pidfile" => forks'[l] = 1 /\ ~ pf'[l],
         step \in {"privileges", "fork2"} => forks'[l] = 1,
         step = "write" => forks'[l] = 2,
         step = "serve" /\ pf'[l] => forks'[l] = 2 /\ pidfile' = <<l, 2>>,
         step \in Steps \ {"fork2", "write", "serve", "ended"} => (l \in su => cred'[l].uid = Root),
         step \in {"fork2", "write"} \/ (step = "serve" /\ forks'[l] = 2) => Dropped(l)'
  PROVE  LaunchInv'
<1>1. /\ pc'[l] = step
      /\ \A k \in Launches \ {l} : pc'[k] = pc[k]
  BY StartupAssumption DEF Goto, LaunchInv, LaunchTypeOK
<1>2. OnePort'
  BY <1>1 DEF LaunchInv, OnePort, PastListen
<1>3. Stage'
  BY <1>1 DEF LaunchInv, Stage
<1>4. PidfileNamesDaemon'
  <2>1. SUFFICES ASSUME NEW k \in Launches \ {l}, pc[k] = "serve", pf[k]
                 PROVE  pidfile' = <<k, forks[k]>>
    BY <1>1 DEF PidfileNamesDaemon
  <2>2. k \in sockets
    BY <2>1 DEF LaunchInv, OnePort, PastListen
  <2>3. l \notin sockets
    BY <2>1, <2>2 DEF LaunchInv, OnePort
  <2>4. QED
    BY <2>1, <2>3 DEF LaunchInv, PidfileNamesDaemon
<1>5. Rights'
  <2>1. ASSUME NEW k \in Launches \ {l}, Dropped(k)
        PROVE  Dropped(k)'
    BY <2>1 DEF Dropped, RunningGid
  <2>2. QED
    BY <1>1, <2>1 DEF LaunchInv, Rights
<1>6. QED
  BY <1>2, <1>3, <1>4, <1>5 DEF LaunchInv

LEMMA LaunchInvNext ==
  ASSUME LaunchInv, [Next]_vars
  PROVE  LaunchInv'
<1>1. ASSUME NEW l \in Launches, Command(l)
      PROVE  LaunchInv'
  <2>1. PICK step \in {"bind", "ended"} : Goto(l, step) /\ UNCHANGED launchVars
    BY <1>1 DEF Command
  <2>2. LaunchTypeOK'
    BY <2>1, StartupAssumption DEF LaunchInv, LaunchTypeOK, Goto, Steps, Testers, launchVars
  <2>3. pc[l] = "command"
    BY <1>1 DEF Command
  <2>4. /\ forks[l] = 0 /\ ~ pf[l]
        /\ l \in su => cred[l].uid = Root
    BY <2>3 DEF LaunchInv, Stage, Rights, Steps
  <2>5. UNCHANGED <<sockets, pidfile, forks, pf, su, asked, cred>>
    BY <2>1 DEF launchVars
  <2>6. QED
    BY <2>1, <2>2, <2>4, <2>5, LaunchStep DEF Steps, PastListen
<1>2. ASSUME NEW l \in Launches, Bind(l)
      PROVE  LaunchInv'
  <2>1. PICK step \in {"listen", "ended"} : Goto(l, step) /\ UNCHANGED launchVars
    BY <1>2 DEF Bind
  <2>2. LaunchTypeOK'
    BY <2>1, StartupAssumption DEF LaunchInv, LaunchTypeOK, Goto, Steps, Testers, launchVars
  <2>3. pc[l] = "bind"
    BY <1>2 DEF Bind
  <2>4. /\ forks[l] = 0 /\ ~ pf[l]
        /\ l \in su => cred[l].uid = Root
    BY <2>3 DEF LaunchInv, Stage, Rights, Steps
  <2>5. UNCHANGED <<sockets, pidfile, forks, pf, su, asked, cred>>
    BY <2>1 DEF launchVars
  <2>6. QED
    BY <2>1, <2>2, <2>4, <2>5, LaunchStep DEF Steps, PastListen
<1>3. ASSUME NEW l \in Launches, Listen(l)
      PROVE  LaunchInv'
  <2>1. PICK step \in {"log", "ended"} : Goto(l, step) /\ (step = "log" => sockets = {})
    BY <1>3 DEF Listen
  <2>2. LaunchTypeOK'
    BY <1>3, <2>1, StartupAssumption DEF Listen, LaunchInv, LaunchTypeOK, Goto, Steps, Testers
  <2>3. QED
    BY <1>3, <2>1, <2>2, LaunchStep
       DEF Listen, LaunchInv, LaunchTypeOK, OnePort, PastListen, Stage, Rights, Steps, Goto
<1>4. ASSUME NEW l \in Launches, LogEnvironment(l)
      PROVE  LaunchInv'
  <2>1. PICK step \in {"names", "serve", "ended"} :
           Goto(l, step) /\ sockets' = IF step = "ended" THEN sockets \ {l} ELSE sockets
    BY <1>4 DEF LogEnvironment, Ended
  <2>2. LaunchTypeOK'
    BY <1>4, <2>1, StartupAssumption
       DEF LogEnvironment, LaunchInv, LaunchTypeOK, Goto, Steps, Testers
  <2>3. /\ l \in sockets /\ forks[l] = 0 /\ ~ pf[l]
        /\ l \in su => cred[l].uid = Root
    BY <1>4 DEF LogEnvironment, LaunchInv, OnePort, PastListen, Stage, Rights, Steps
  <2>4. UNCHANGED <<pidfile, forks, pf, su, asked, cred>>
    BY <1>4 DEF LogEnvironment
  <2>5. QED
    BY <2>1, <2>2, <2>3, <2>4, LaunchStep DEF Steps, PastListen
<1>5. ASSUME NEW l \in Launches, LookUp(l)
      PROVE  LaunchInv'
  <2>1. PICK step \in {"fork1", "ended"} :
           Goto(l, step) /\ sockets' = IF step = "ended" THEN sockets \ {l} ELSE sockets
    BY <1>5 DEF LookUp, Ended
  <2>2. LaunchTypeOK'
    BY <1>5, <2>1, StartupAssumption DEF LookUp, LaunchInv, LaunchTypeOK, Goto, Steps, Testers
  <2>3. /\ l \in sockets /\ forks[l] = 0 /\ ~ pf[l]
        /\ l \in su => cred[l].uid = Root
    BY <1>5 DEF LookUp, LaunchInv, OnePort, PastListen, Stage, Rights, Steps
  <2>4. /\ UNCHANGED <<pidfile, forks, pf, su, cred>>
        /\ \A k \in Launches \ {l} : asked'[k] = asked[k]
    BY <1>5 DEF LookUp, LaunchInv, LaunchTypeOK
  <2>5. QED
    BY <2>1, <2>2, <2>3, <2>4, LaunchStep DEF Steps, PastListen
<1>6. ASSUME NEW l \in Launches, FirstFork(l)
      PROVE  LaunchInv'
  <2>1. PICK step \in {"pidfile", "ended"} :
           /\ Goto(l, step)
           /\ sockets' = IF step = "ended" THEN sockets \ {l} ELSE sockets
           /\ forks' = IF step = "ended" THEN forks ELSE [forks EXCEPT ![l] = @ + 1]
    BY <1>6 DEF FirstFork, Ended
  <2>2. LaunchTypeOK'
    BY <1>6, <2>1, StartupAssumption
       DEF FirstFork, LaunchInv, LaunchTypeOK, Stage, Goto, Steps, Testers
  <2>3. /\ l \in sockets /\ forks[l] = 0 /\ ~ pf[l]
        /\ l \in su => cred[l].uid = Root
    BY <1>6 DEF FirstFork, LaunchInv, OnePort, PastListen, Stage, Rights, Steps
  <2>4. /\ UNCHANGED <<pidfile, pf, su, asked, cred>>
        /\ \A k \in Launches \ {l} : forks'[k] = forks[k]
    BY <1>6 DEF FirstFork, LaunchInv, LaunchTypeOK
  <2>5. step = "pidfile" => forks'[l] = 1
    BY <2>1, <2>3 DEF LaunchInv, LaunchTypeOK
  <2>6. QED
    BY <2>1, <2>2, <2>3, <2>4, <2>5, LaunchStep DEF Steps, PastListen
<1>7. ASSUME NEW l \in Launches, OpenPidfile(l)
      PROVE  LaunchInv'
  <2>1. PICK step \in {"privileges", "ended"} :
           Goto(l, step) /\ sockets' = IF step = "ended" THEN sockets \ {l} ELSE sockets
    BY <1>7 DEF OpenPidfile, Ended
  <2>2. LaunchTypeOK'
    BY <1>7, <2>1, StartupAssumption DEF OpenPidfile, LaunchInv, LaunchTypeOK, Goto, Steps, Testers
  <2>3. /\ l \in sockets /\ forks[l] = 1
        /\ l \in su => cred[l].uid = Root
    BY <1>7 DEF OpenPidfile, LaunchInv, OnePort, PastListen, Stage, Rights, Steps
  <2>4. /\ UNCHANGED <<forks, su, asked, cred>>
        /\ \A k \in Launches \ {l} : pf'[k] = pf[k]
    BY <1>7 DEF OpenPidfile, LaunchInv, LaunchTypeOK
  <2>5. QED
    BY <2>1, <2>2, <2>3, <2>4, LaunchStep DEF Steps, PastListen
<1>8. ASSUME NEW l \in Launches, Privileges(l)
      PROVE  LaunchInv'
  <2>0. /\ pc[l] = "privileges" /\ UNCHANGED <<forks, pf, su, asked>>
        /\ Drop(l) \/ Keep(l) \/ Forbidden(l)
    BY <1>8 DEF Privileges
  <2>1. PICK step \in {"fork2", "ended"} :
           Goto(l, step) /\ sockets' = IF step = "ended" THEN sockets \ {l} ELSE sockets
    BY <2>0 DEF Drop, Keep, Forbidden, Ended
  <2>2. RunningUid(l) \in Users /\ RunningGid(l) \in Groups
    BY DEF LaunchInv, LaunchTypeOK, RunningUid, RunningGid, Users, Groups
  <2>3. LaunchTypeOK'
    <3>1. cred' \in [Launches -> [uid : Users, gid : Groups, groups : BOOLEAN]]
      <4>1. [uid |-> RunningUid(l), gid |-> RunningGid(l), groups |-> FALSE]
               \in [uid : Users, gid : Groups, groups : BOOLEAN]
        BY <2>2
      <4>2. cred' = cred \/ cred' = [cred EXCEPT ![l] = [uid |-> RunningUid(l),
                                               gid |-> RunningGid(l), groups |-> FALSE]]
        BY <2>0 DEF Drop, Keep, Forbidden
      <4>3. QED
        BY <4>1, <4>2 DEF LaunchInv, LaunchTypeOK
    <3>2. pidfile' \in {None, <<>>} \cup (Launches \X {2})
      BY <2>0 DEF Drop, Keep, Forbidden, LaunchInv, LaunchTypeOK
    <3>3. QED
      BY <2>0, <2>1, <3>1, <3>2, StartupAssumption DEF LaunchInv, LaunchTypeOK, Goto, Steps, Testers
  <2>4. step = "fork2" => Dropped(l)'
    <3>1. CASE Drop(l)
      <4>1. SUFFICES ASSUME step = "fork2", asked[l].user # None PROVE Dropped(l)'
        BY <2>0 DEF Dropped
      <4>2. ~ Ended(l)
        BY <2>1, <4>1, StartupAssumption DEF Ended, Goto, LaunchInv, LaunchTypeOK
      <4>3. cred'[l] = [uid |-> RunningUid(l), gid |-> RunningGid(l), groups |-> FALSE]
        BY <3>1, <4>2 DEF Drop, LaunchInv, LaunchTypeOK
      <4>4. RunningUid(l) = asked[l].user /\ RunningGid(l)' = RunningGid(l)
        BY <2>0, <4>1 DEF RunningUid, RunningGid
      <4>5. QED
        BY <2>0, <4>3, <4>4 DEF Dropped
    <3>2. CASE Keep(l)
      BY <2>0, <2>1, <3>2 DEF Keep, Dropped, RunningUid, RunningGid, LaunchInv, LaunchTypeOK, Rights, Steps
    <3>3. CASE Forbidden(l)
      BY <2>1, <3>3, StartupAssumption DEF Forbidden, Ended, Goto, LaunchInv, LaunchTypeOK
    <3>4. QED
      BY <2>0, <3>1, <3>2, <3>3
  <2>5. /\ \A k \in Launches \ {l} : cred'[k] = cred[k]
        /\ l \in sockets
    BY <2>0 DEF Drop, Keep, Forbidden, LaunchInv, LaunchTypeOK, OnePort, PastListen
  <2>6. /\ UNCHANGED su
        /\ \A k \in Launches : forks'[k] = forks[k] /\ pf'[k] = pf[k] /\ asked'[k] = asked[k]
        /\ forks'[l] = 1
    BY <2>0 DEF LaunchInv, Stage
  <2>7. /\ step # "ended" => l \in sockets'
        /\ sockets' \subseteq sockets
        /\ \A k \in Launches \ {l} : k \in sockets => k \in sockets'
    BY <2>1, <2>5
  <2>8. CASE step = "fork2"
    BY <2>1, <2>3, <2>4, <2>5, <2>6, <2>7, <2>8, LaunchStep DEF Steps
  <2>9. CASE step = "ended"
    BY <2>1, <2>3, <2>5, <2>6, <2>7, <2>9, LaunchStep DEF Steps, PastListen
  <2>10. QED
    BY <2>8, <2>9
<1>9. ASSUME NEW l \in Launches, SecondFork(l)
      PROVE  LaunchInv'
  <2>1. PICK step \in {"write", "ended"} :
           /\ Goto(l, step)
           /\ sockets' = IF step = "ended" THEN sockets \ {l} ELSE sockets
           /\ forks' = IF step = "ended" THEN forks ELSE [forks EXCEPT ![l] = @ + 1]
    BY <1>9 DEF SecondFork, Ended
  <2>2. LaunchTypeOK'
    BY <1>9, <2>1, StartupAssumption
       DEF SecondFork, LaunchInv, LaunchTypeOK, Stage, Goto, Steps, Testers
  <2>3. Dropped(l)'
    BY <1>9 DEF SecondFork, LaunchInv, Rights, Dropped, RunningGid
  <2>4. /\ l \in sockets
        /\ step = "write" => forks'[l] = 2
    BY <1>9, <2>1 DEF SecondFork, LaunchInv, LaunchTypeOK, OnePort, PastListen, Stage
  <2>5. /\ UNCHANGED <<pf, su, asked, cred>>
        /\ \A k \in Launches \ {l} : forks'[k] = forks[k]
    BY <1>9 DEF SecondFork, LaunchInv, LaunchTypeOK
  <2>6. QED
    BY <2>1, <2>2, <2>3, <2>4, <2>5, LaunchStep DEF Steps, PastListen
<1>10. ASSUME NEW l \in Launches, WritePid(l)
       PROVE  LaunchInv'
  <2>1. pc[l] = "write" /\ forks[l] = 2 /\ Goto(l, "serve")
    BY <1>10 DEF WritePid, LaunchInv, Stage
  <2>2. LaunchTypeOK'
    BY <1>10, <2>1, StartupAssumption
       DEF WritePid, LaunchInv, LaunchTypeOK, Goto, Steps, Testers
  <2>3. Dropped(l)'
    BY <1>10 DEF WritePid, LaunchInv, Rights, Dropped, RunningGid
  <2>4. QED
    BY <1>10, <2>1, <2>2, <2>3, LaunchStep
       DEF WritePid, LaunchInv, LaunchTypeOK, OnePort, PastListen, Stage, Steps
<1>11. ASSUME NEW l \in Launches, Die(l)
       PROVE  LaunchInv'
  <2>1. Goto(l, "ended") /\ sockets' \in {sockets, sockets \ {l}}
    BY <1>11 DEF Die, Ended
  <2>2. LaunchTypeOK'
    BY <1>11, <2>1, StartupAssumption DEF Die, LaunchInv, LaunchTypeOK, Goto, Steps, Testers
  <2>3. QED
    BY <1>11, <2>1, <2>2, LaunchStep
       DEF Die, LaunchInv, LaunchTypeOK, OnePort, PastListen, Stage, Rights, Steps
<1>12. ASSUME NEW l \in Launches, OrphansEnd(l)
       PROVE  LaunchInv'
  <2>1. LaunchTypeOK'
    BY <1>12 DEF OrphansEnd, LaunchInv, LaunchTypeOK
  <2>2. OnePort' /\ Stage' /\ PidfileNamesDaemon'
    BY <1>12 DEF OrphansEnd, LaunchInv, OnePort, PastListen, Stage, PidfileNamesDaemon
  <2>3. Rights'
    BY <1>12 DEF OrphansEnd, LaunchInv, Rights, Dropped, RunningGid
  <2>4. QED
    BY <2>1, <2>2, <2>3 DEF LaunchInv
<1>13. ASSUME UNCHANGED <<pc, launchVars>>
       PROVE  LaunchInv'
  <2>1. LaunchTypeOK' /\ OnePort' /\ Stage' /\ PidfileNamesDaemon'
    BY <1>13 DEF launchVars, LaunchInv, LaunchTypeOK, OnePort, Stage, PidfileNamesDaemon
  <2>2. Rights'
    BY <1>13 DEF launchVars, LaunchInv, Rights, Dropped, RunningGid
  <2>3. QED
    BY <2>1, <2>2 DEF LaunchInv
<1>14. ASSUME NEW t \in Testers, Testing(t)
       PROVE  LaunchInv'
  <2>1. CASE TestGetsApp(t)
    BY <2>1, TestersStep DEF TestGetsApp
  <2>2. CASE TestSwitches(t)
    BY <2>2, TestersStep DEF TestSwitches
  <2>3. CASE TestCode(t)
    BY <1>13, <2>3, TestersStep DEF TestCode
  <2>4. QED
    BY <1>14, <2>1, <2>2, <2>3 DEF Testing
<1>15. ASSUME NEW l \in Launches, AppCode(l)
       PROVE  LaunchInv'
  BY <1>13, <1>15 DEF AppCode
<1>16. CASE UNCHANGED vars
  BY <1>13, <1>16 DEF vars
<1>17. QED
  BY <1>1, <1>2, <1>3, <1>4, <1>5, <1>6, <1>7, <1>8, <1>9, <1>10, <1>11, <1>12, <1>14,
     <1>15, <1>16 DEF Next, Launch, Daemonise

LEMMA LaunchAlways == Spec => []LaunchInv
<1>1. LaunchInv /\ [Next]_vars => LaunchInv'
  BY LaunchInvNext
<1>2. QED
  BY <1>1, LaunchInvInit, PTL DEF Spec

\* Every state of every start-up has the right types.
THEOREM TypeCorrect == Spec => []TypeOK
<1>1. SettingsInv /\ LaunchInv => TypeOK
  BY DEF SettingsInv, LaunchInv, TypeOK
<1>2. QED
  BY <1>1, SettingsAlways, LaunchAlways, PTL

\* The port, taken before the fork, keeps the attempts that cannot succeed away
\* from the pidfile of the daemon that serves.
THEOREM PidfileNamesDaemonAlways == Spec => []PidfileNamesDaemon
<1>1. LaunchInv => PidfileNamesDaemon
  BY DEF LaunchInv
<1>2. QED
  BY <1>1, LaunchAlways, PTL

\* No order and no failure of the calls that give up root's privileges lets a
\* daemon serve with those it was to give up.
THEOREM RunsAsAskedAlways == Spec => []RunsAsAsked
<1>1. LaunchInv => RunsAsAsked
  BY DEF LaunchInv, Rights, Dropped, RunsAsAsked
<1>2. QED
  BY <1>1, LaunchAlways, PTL

-----------------------------------------------------------------------------
\* A process that has gone on from get_test_app() keeps these settings until it
\* asks for others itself.
LEMMA TestsUseTestStep ==
  ASSUME SettingsInv, LaunchTypeOK, TestsUseTest, [Next]_vars
  PROVE  TestsUseTest'
<1>1. SUFFICES ASSUME NEW t \in Testers, pc'[t] = "testing"
               PROVE  section'[t] = IF readable' THEN (SectionFor("test"))' ELSE None
  BY DEF TestsUseTest
<1>2. t \in Procs /\ t \notin Launches /\ (pc \in [Procs -> Steps \cup {"idle", "switch", "testing"}])
  BY DEF Testers, LaunchTypeOK
<1>3. UNCHANGED shell
  <2>1. CASE UNCHANGED settingsVars
    BY <2>1 DEF settingsVars
  <2>2. ASSUME NEW p \in Procs, SettingsStep(p)
        PROVE  UNCHANGED shell
    BY <2>2 DEF SettingsStep, GetApp, Known, ImportRaises, Imported, Read, settingsVars, shell
  <2>3. QED
    BY <2>1, <2>2, NextSettings
<1>4. readable' = readable /\ (SectionFor("test"))' = SectionFor("test")
  BY <1>3 DEF shell, SectionFor
<1>5. ASSUME pc[t] = "testing", section'[t] = section[t]
      PROVE  section'[t] = IF readable' THEN (SectionFor("test"))' ELSE None
  BY <1>4, <1>5 DEF TestsUseTest
<1>6. ASSUME NEW p \in Procs, p # t, SettingsStep(p)
      PROVE  section'[t] = section[t]
  BY <1>2, <1>6, SettingsAssumption
     DEF SettingsStep, GetApp, Known, ImportRaises, Imported, Read, SetEnvironment, settingsVars,
         SettingsInv, SettingsTypeOK
<1>7. CASE UNCHANGED vars
  BY <1>1, <1>5, <1>7 DEF vars, settingsVars
<1>8. ASSUME NEW l \in Launches, Launch(l) \/ AppCode(l) \/ Die(l) \/ OrphansEnd(l)
      PROVE  section'[t] = section[t] /\ pc'[t] = pc[t]
  <2>1. section'[t] = section[t]
    <3>1. CASE Launch(l)
      BY <1>2, <1>6, <3>1, StartupAssumption
         DEF Launch, Command, Bind, Listen, LogEnvironment, Daemonise, LookUp, FirstFork,
             OpenPidfile, Privileges, SecondFork, WritePid, SettingsStep, settingsVars
    <3>2. CASE AppCode(l)
      BY <1>2, <3>2, StartupAssumption
         DEF AppCode, Read, Switch, SetEnvironment, SettingsInv, SettingsTypeOK
    <3>3. CASE Die(l) \/ OrphansEnd(l)
      BY <3>3 DEF Die, OrphansEnd, settingsVars
    <3>4. QED
      BY <1>8, <3>1, <3>2, <3>3
  <2>2. ASSUME NEW step, Goto(l, step)
        PROVE  pc'[t] = pc[t]
    BY <1>2, <2>2 DEF Goto
  <2>3. pc'[t] = pc[t]
    <3>1. CASE Launch(l)
      <4>1. CASE Privileges(l)
        BY <2>2, <4>1 DEF Privileges, Drop, Keep, Forbidden, Ended
      <4>2. CASE Command(l) \/ Bind(l) \/ Listen(l) \/ LogEnvironment(l)
        BY <2>2, <4>2 DEF Command, Bind, Listen, LogEnvironment, Ended
      <4>3. CASE LookUp(l) \/ FirstFork(l) \/ OpenPidfile(l)
        BY <2>2, <4>3 DEF LookUp, FirstFork, OpenPidfile, Ended
      <4>4. CASE SecondFork(l) \/ WritePid(l)
        BY <2>2, <4>4 DEF SecondFork, WritePid, Ended
      <4>5. QED
        BY <3>1, <4>1, <4>2, <4>3, <4>4 DEF Launch, Daemonise
    <3>2. CASE AppCode(l) \/ OrphansEnd(l)
      BY <3>2 DEF AppCode, OrphansEnd
    <3>3. CASE Die(l)
      BY <2>2, <3>3 DEF Die, Ended
    <3>4. QED
      BY <1>8, <3>1, <3>2, <3>3
  <2>4. QED
    BY <2>1, <2>3
<1>9. ASSUME NEW u \in Testers, u # t, Testing(u)
      PROVE  section'[t] = section[t] /\ pc'[t] = pc[t]
  <2>1. u \in Procs
    BY DEF Testers
  <2>2. pc'[t] = pc[t]
    BY <1>2, <1>9 DEF Testing, TestGetsApp, TestSwitches, TestCode, Goto
  <2>3. CASE TestGetsApp(u)
    BY <1>6, <1>9, <2>1, <2>2, <2>3 DEF TestGetsApp, SettingsStep
  <2>4. CASE TestSwitches(u)
    BY <1>2, <1>9, <2>2, <2>4 DEF TestSwitches, SetEnvironment, SettingsInv, SettingsTypeOK
  <2>5. CASE TestCode(u)
    BY <1>2, <1>9, <2>2, <2>5 DEF TestCode, Read, Switch, SetEnvironment, SettingsInv, SettingsTypeOK
  <2>6. QED
    BY <1>9, <2>3, <2>4, <2>5 DEF Testing
<1>10. CASE Testing(t)
  <2>1. CASE TestGetsApp(t)
    BY <1>1, <1>2, <2>1 DEF TestGetsApp, Goto
  <2>2. CASE TestSwitches(t)
    <3>1. SetEnvironment(t, "test", readable, FALSE)
      BY <1>1, <1>2, <2>2 DEF TestSwitches, Goto
    <3>2. CASE ~ readable
      BY <1>2, <1>4, <3>1, <3>2 DEF SetEnvironment, SettingsInv, SettingsTypeOK, SectionIsNamed
    <3>3. CASE readable /\ "test" = section[t] /\ UNCHANGED section
      <4>1. section[t] # None
        BY <3>3, StartupAssumption, SettingsAssumption
      <4>2. variable \in {None, section[t]}
        BY <1>2, <4>1 DEF SettingsInv, SectionIsNamed
      <4>3. QED
        BY <1>4, <3>3, <4>2 DEF SectionFor
    <3>4. CASE readable /\ section' = [section EXCEPT ![t] = SectionFor("test")]
      BY <1>2, <1>4, <3>4 DEF SettingsInv, SettingsTypeOK
    <3>5. QED
      BY <3>1, <3>2, <3>3, <3>4 DEF SetEnvironment, SettingsInv, SettingsTypeOK
  <2>3. CASE TestCode(t)
    BY <1>1, <1>2, <1>5, <2>3 DEF TestCode, Read, Goto
  <2>4. QED
    BY <1>10, <2>1, <2>2, <2>3 DEF Testing
<1>11. QED
  BY <1>1, <1>5, <1>7, <1>8, <1>9, <1>10 DEF Next

\* get_test_app() returns with the settings of the test environment, or of the
\* one NUCLEON_CONFIGURATION names, or it raises.
THEOREM TestsUseTestAlways == Spec => []TestsUseTest
<1>1. Init => TestsUseTest
  BY DEF Init, TestsUseTest, Testers
<1>2. SettingsInv /\ LaunchInv /\ TestsUseTest /\ [Next]_vars => TestsUseTest'
  BY TestsUseTestStep DEF LaunchInv
<1>3. QED
  BY <1>1, <1>2, SettingsAlways, LaunchAlways, PTL DEF Spec
=============================================================================
