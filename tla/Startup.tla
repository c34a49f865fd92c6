------------------------------- MODULE Startup -------------------------------
(***************************************************************************)
(* How an application is started: "nucleon start" (nucleon/commands.py,    *)
(* main.serve(), main.daemonise_nucleon()), several times over with the    *)
(* same port and pidfile, and tests.get_test_app() in test runs.           *)
(*                                                                         *)
(* A launch is one thread of control that moves from process to process:   *)
(* the parent of each fork ends at once (os._exit), which belongs to the   *)
(* fork.  Everything after listen() is inside a try statement whose        *)
(* finally clause is sys.exit(0): whatever raises there, the launch ends,  *)
(* with the exit status 0; the status is left out.                         *)
(***************************************************************************)
EXTENDS Settings

CONSTANTS
    Launches,   \* processes of "nucleon start"; the others are test runs
    Root, User, \* the superuser, and the user a launch without su rights has
    Service,    \* a user made for the daemon
    Www         \* a group that is nobody's primary group

ASSUME StartupAssumption ==
    /\ Launches \subseteq Procs
    /\ "test" \in Names
    /\ None \notin {Root, User, Service, Www}

VARIABLES
    pc,         \* where each process is
    sockets,    \* the launches whose socket listens on the port, each socket
                \* kept open by the launch or by workers it left behind
    pidfile,    \* None (no file), <<>> (empty), or <<launch, forks>> of the writer
    forks,      \* how often the launch has forked: which process it is now
    pf,         \* TRUE while the launch has the pidfile open or wrote it
    su,         \* the launches that root started
    asked,      \* the arguments --user and --group of a launch
    cred        \* the effective user, group and whether the supplementary
                \* groups are still those it was started with

launchVars == <<sockets, pidfile, forks, pf, su, asked, cred>>
vars == <<settingsVars, pc, launchVars>>

Testers == Procs \ Launches
Users   == {Root, User, Service}
Groups  == Users \cup {Www}
Steps   == {"command", "bind", "listen", "log", "names", "fork1", "pidfile",
            "privileges", "fork2", "write", "serve", "ended"}

Goto(p, step) == pc' = [pc EXCEPT ![p] = step]

Init ==
    /\ SettingsInit
    /\ pc = [p \in Procs |-> IF p \in Launches THEN "command" ELSE "idle"]
    /\ sockets = {} /\ pidfile = None
    /\ forks = [l \in Launches |-> 0]
    /\ pf = [l \in Launches |-> FALSE]
    /\ su \in SUBSET Launches
    /\ asked = [l \in Launches |-> [user |-> None, group |-> None]]
    /\ cred = [l \in Launches |-> LET u == IF l \in su THEN Root ELSE User
                                  IN  [uid |-> u, gid |-> u, groups |-> TRUE]]

\* The process ends and its files and sockets are closed.
Ended(l) ==
    /\ Goto(l, "ended")
    /\ sockets' = sockets \ {l}

-----------------------------------------------------------------------------
\* StartCommand.__call__: the application, then the access log, which may not
\* open; serve() creates the socket.
Command(l) ==
    /\ pc[l] = "command"
    /\ \E raised \in BOOLEAN :
          /\ GetApp(l, raised)
          /\ \/ ~ raised /\ Goto(l, "bind")
             \/ Goto(l, "ended")
    /\ UNCHANGED launchVars

\* bind() with SO_REUSEADDR: refused while another socket listens.
Bind(l) ==
    /\ pc[l] = "bind"
    /\ Goto(l, IF sockets = {} THEN "listen" ELSE "ended")
    /\ UNCHANGED <<settingsVars, launchVars>>

\* Mutant of Listen: the clause for socket errors does not exit.
ListenAnyway(l) ==
    /\ pc[l] = "listen"
    /\ Goto(l, "log")
    /\ sockets' = sockets \cup {l}
    /\ UNCHANGED <<settingsVars, pidfile, forks, pf, su, asked, cred>>

\* listen(): two sockets may both be bound, but the second to listen is
\* refused (EADDRINUSE), and sys.exit(1) is called outside the try statement.
Listen(l) ==
    /\ pc[l] = "listen"
    /\ Goto(l, IF sockets = {} THEN "log" ELSE "ended")
    /\ sockets' = IF sockets = {} THEN {l} ELSE sockets
    /\ UNCHANGED <<settingsVars, pidfile, forks, pf, su, asked, cred>>

\* "Configuration used: ..." reads settings.environment.  Without app.cfg that
\* raises, so the launch ends.  Then --no_daemonise goes straight to serving.
LogEnvironment(l) ==
    /\ pc[l] = "log"
    /\ Read(l)
    /\ \/ /\ section[l] # None
          /\ \E step \in {"names", "serve"} : Goto(l, step)
          /\ UNCHANGED sockets
       \/ section[l] = None /\ Ended(l)
    /\ UNCHANGED <<pidfile, forks, pf, su, asked, cred>>

-----------------------------------------------------------------------------
\* The user and the group that daemonise_nucleon() looks up.  Without --user
\* both are the current ones, whatever --group says.
RunningUid(l) == IF asked[l].user = None THEN cred[l].uid ELSE asked[l].user
RunningGid(l) == IF asked[l].user = None THEN cred[l].gid
                 ELSE IF asked[l].group = None THEN asked[l].user ELSE asked[l].group

\* --user and --group are looked up; an unknown name raises KeyError.
LookUp(l) ==
    /\ pc[l] = "names"
    /\ \/ /\ \E u \in Users \cup {None}, g \in {None, Www} :
                asked' = [asked EXCEPT ![l] = [user |-> u, group |-> g]]
          /\ Goto(l, "fork1")
          /\ UNCHANGED sockets
       \/ Ended(l) /\ UNCHANGED asked
    /\ UNCHANGED <<settingsVars, pidfile, forks, pf, su, cred>>

FirstFork(l) ==
    /\ pc[l] = "fork1"
    /\ \/ /\ forks' = [forks EXCEPT ![l] = @ + 1]
          /\ Goto(l, "pidfile")
          /\ UNCHANGED sockets
       \/ Ended(l) /\ UNCHANGED forks
    /\ UNCHANGED <<settingsVars, pidfile, pf, su, asked, cred>>

\* Mutant of OpenPidfile: the pid is written at once.
OpenPidfileWrite(l) ==
    /\ pc[l] = "pidfile"
    /\ pidfile' = <<l, forks[l]>>
    /\ pf' = [pf EXCEPT ![l] = TRUE]
    /\ Goto(l, "privileges")
    /\ UNCHANGED <<settingsVars, sockets, forks, su, asked, cred>>

\* open(pidfile, 'w') empties the file; it may raise, and --pidfile may not be
\* given.
OpenPidfile(l) ==
    /\ pc[l] = "pidfile"
    /\ \/ /\ pidfile' = <<>>
          /\ pf' = [pf EXCEPT ![l] = TRUE]
          /\ Goto(l, "privileges")
          /\ UNCHANGED sockets
       \/ Goto(l, "privileges") /\ UNCHANGED <<pidfile, pf, sockets>>
       \/ Ended(l) /\ UNCHANGED <<pidfile, pf>>
    /\ UNCHANGED <<settingsVars, forks, su, asked, cred>>

\* Started as root for another user: setgroups([]), setgid(), setuid().  An
\* error in any of the three ends the launch and leaves the empty pidfile.
Drop(l) ==
    /\ cred[l].uid = Root /\ RunningUid(l) # Root
    /\ \/ /\ cred' = [cred EXCEPT ![l] = [uid |-> RunningUid(l), gid |-> RunningGid(l),
                                          groups |-> FALSE]]
          /\ Goto(l, "fork2")
          /\ UNCHANGED sockets
       \/ Ended(l) /\ UNCHANGED cred
    /\ UNCHANGED pidfile

\* Nothing to change: root for root, or a user for itself.
Keep(l) ==
    /\ cred[l].uid = RunningUid(l)
    /\ Goto(l, "fork2")
    /\ UNCHANGED <<cred, pidfile, sockets>>

\* A user cannot become another one: the pidfile is removed again.
Forbidden(l) ==
    /\ cred[l].uid # Root /\ RunningUid(l) # cred[l].uid
    /\ pidfile' = IF pf[l] THEN None ELSE pidfile
    /\ Ended(l)
    /\ UNCHANGED cred

\* Mutant of Privileges: an error in setgroups() or setgid() is only logged.
PrivilegesLogged(l) ==
    /\ pc[l] = "privileges"
    /\ \/ Drop(l) \/ Keep(l) \/ Forbidden(l)
       \/ cred[l].uid = Root /\ Goto(l, "fork2") /\ UNCHANGED <<cred, pidfile, sockets>>
    /\ UNCHANGED <<settingsVars, forks, pf, su, asked>>

Privileges(l) ==
    /\ pc[l] = "privileges"
    /\ Drop(l) \/ Keep(l) \/ Forbidden(l)
    /\ UNCHANGED <<settingsVars, forks, pf, su, asked>>

\* The second fork.  If it fails the pidfile is unlinked, unless its name is
\* relative: the working directory is / by now, and unlink() raises.
SecondFork(l) ==
    /\ pc[l] = "fork2"
    /\ \/ /\ forks' = [forks EXCEPT ![l] = @ + 1]
          /\ Goto(l, "write")
          /\ UNCHANGED <<pidfile, sockets>>
       \/ /\ \/ UNCHANGED pidfile
             \/ pf[l] /\ pidfile' = None
          /\ Ended(l)
          /\ UNCHANGED forks
    /\ UNCHANGED <<settingsVars, pf, su, asked, cred>>

\* The long-lived process writes its pid; the rest of daemonise_nucleon() only
\* redirects the standard streams.
WritePid(l) ==
    /\ pc[l] = "write"
    /\ pidfile' = IF pf[l] THEN <<l, forks[l]>> ELSE pidfile
    /\ Goto(l, "serve")
    /\ UNCHANGED <<settingsVars, sockets, forks, pf, su, asked, cred>>

Daemonise(l) == LookUp(l) \/ FirstFork(l) \/ OpenPidfile(l) \/ Privileges(l)
                \/ SecondFork(l) \/ WritePid(l)

-----------------------------------------------------------------------------
\* A process is killed, or the daemon stops.  One whose workers were forked may
\* leave them behind, and they keep its socket.
Die(l) ==
    /\ pc[l] # "ended"
    /\ \/ Ended(l)
       \/ pc[l] = "serve" /\ Goto(l, "ended") /\ UNCHANGED sockets
    /\ UNCHANGED <<settingsVars, pidfile, forks, pf, su, asked, cred>>

\* The workers it left behind are gone too.
OrphansEnd(l) ==
    /\ pc[l] = "ended" /\ l \in sockets
    /\ sockets' = sockets \ {l}
    /\ UNCHANGED <<settingsVars, pc, pidfile, forks, pf, su, asked, cred>>

\* Views and callbacks of the running application read settings, and may call
\* _set_environment().
AppCode(l) ==
    /\ pc[l] = "serve"
    /\ Read(l) \/ \E name \in Names : Switch(l, name)
    /\ UNCHANGED <<pc, launchVars>>

-----------------------------------------------------------------------------
\* A test module calls get_app(), by itself or as the start of get_test_app();
\* if it raises, the runner goes on with the next test module.
TestGetsApp(t) ==
    /\ pc[t] \in {"idle", "testing"}
    /\ \E raised \in BOOLEAN :
          /\ GetApp(t, raised)
          /\ \E step \in {"idle", "switch"} : Goto(t, IF raised THEN "idle" ELSE step)
    /\ UNCHANGED launchVars

\* get_test_app() goes on with settings._set_environment('test').
TestSwitches(t) ==
    /\ pc[t] = "switch"
    /\ \E raised \in BOOLEAN :
          /\ SetEnvironment(t, "test", readable, raised)
          /\ Goto(t, IF raised THEN "idle" ELSE "testing")
    /\ UNCHANGED <<shell, locked, app, seen, launchVars>>

\* Callbacks and tests read settings; a test that switches the environment by
\* itself is no longer what get_test_app() promised.
TestCode(t) ==
    /\ pc[t] \in {"idle", "testing"}
    /\ \/ Read(t) /\ UNCHANGED pc
       \/ \E name \in Names : Switch(t, name) /\ Goto(t, "idle")
    /\ UNCHANGED launchVars

-----------------------------------------------------------------------------
Launch(l) == Command(l) \/ Bind(l) \/ Listen(l) \/ LogEnvironment(l) \/ Daemonise(l)
Testing(t) == TestGetsApp(t) \/ TestSwitches(t) \/ TestCode(t)

Next ==
    \/ \E l \in Launches : Launch(l) \/ AppCode(l) \/ Die(l) \/ OrphansEnd(l)
    \/ \E t \in Testers : Testing(t)

Spec == Init /\ [][Next]_vars

-----------------------------------------------------------------------------
LaunchTypeOK ==
    /\ \A l \in Launches : pc[l] \in Steps
    /\ \A t \in Testers : pc[t] \in {"idle", "switch", "testing"}
    /\ pc \in [Procs -> Steps \cup {"idle", "switch", "testing"}]
    /\ sockets \subseteq Launches
    /\ pidfile \in {None, <<>>} \cup (Launches \X {2})
    /\ forks \in [Launches -> 0 .. 2]
    /\ pf \in [Launches -> BOOLEAN]
    /\ su \subseteq Launches
    /\ asked \in [Launches -> [user : Users \cup {None}, group : {Www, None}]]
    /\ cred \in [Launches -> [uid : Users, gid : Groups, groups : BOOLEAN]]

TypeOK == SettingsTypeOK /\ LaunchTypeOK

\* However many launches are tried with one port and one pidfile, and whichever
\* of their steps fails, the pidfile names the long-lived process of the daemon
\* that serves: the attempts that cannot succeed must leave it alone, and it is
\* the port, taken long before the file is opened, that keeps them from it.
PidfileNamesDaemon ==
    \A l \in Launches : pc[l] = "serve" /\ pf[l] => pidfile = <<l, forks[l]>>

\* A daemon that serves runs as the user it was asked to run as.  If root started
\* it for another user, it also has the group asked for, or the user's own, and
\* none of root's supplementary groups, whichever of the calls failed.
RunsAsAsked ==
    \A l \in Launches :
       pc[l] = "serve" /\ forks[l] = 2 /\ asked[l].user # None =>
          /\ cred[l].uid = asked[l].user
          /\ l \in su /\ asked[l].user # Root =>
                cred[l].gid = RunningGid(l) /\ ~ cred[l].groups

\* docs/configuration.rst: "when running tests, settings are loaded from the
\* test environment", or from the one the variable names; whatever was read or
\* switched before, get_test_app() returns with these settings or raises.
TestsUseTest ==
    \A t \in Testers :
       pc[t] = "testing" => section[t] = IF readable THEN SectionFor("test") ELSE None
=============================================================================
