SPECIFICATION FairSpec
CONSTANTS
    Clients = {c1, c2, c3}
    Retries = 2
    Faults = {"raises", "deferred", "severed"}
INVARIANTS
    TypeOK
    EnoughRetries
PROPERTIES
    AtomicSpec
    Finishes
\* Every call ends.
CHECK_DEADLOCK FALSE
