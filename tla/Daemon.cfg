SPECIFICATION FairSpec
CONSTANTS
    Pids = {p1, p2, p3, p4}
    Processes = 2
    Signals = {s1, s2}
    MaxCrashes = 2
    Builds = {TRUE, FALSE}
    ForkFails = TRUE
INVARIANTS
    TypeOK
    AliveTracked
    AtMostProcesses
    ExitLeavesNoWorker
PROPERTIES
    NoSpawnAfterStop
    StopCompletes
\* The control process exits, or hangs: see DaemonKeepsAlive.cfg.
CHECK_DEADLOCK FALSE
