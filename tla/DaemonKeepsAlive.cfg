SPECIFICATION FairSpec
CONSTANTS
    Pids = {p1, p2, p3, p4}
    Processes = 2
    Signals = {s1}
    MaxCrashes = 2
    Builds = {FALSE}
    ForkFails = FALSE
PROPERTY KeepsAlive
CHECK_DEADLOCK FALSE
