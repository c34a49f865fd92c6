SPECIFICATION FairAppSpec
CONSTANTS
    Users = {r1, r2, r3}
    Waiters = {s1, s2}
    Timeouts = TRUE
INVARIANTS
    AppTypeOK
    CounterExact
    NoLostWakeup
    NeverInterrupted
    Graceful
PROPERTY SignalLeadsToExit
\* The process ends.
CHECK_DEADLOCK FALSE
