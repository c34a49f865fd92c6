SPECIFICATION Spec
CONSTANTS
    Procs = {l1, l2, t1}
    Launches = {l1, l2}
    Names = {"default", "test", "production", "demo"}
    Contents = {{"default", "test", "production"}, {"test", "production"}}
    None = None
    Root = root
    User = user
    Service = service
    Www = www
SYMMETRY Symmetric
INVARIANTS
    TypeOK
    OneEnvironment
    PidfileNamesDaemon
    RunsAsAsked
    TestsUseTest
\* Launches end and are not repeated.
CHECK_DEADLOCK FALSE
