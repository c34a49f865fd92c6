SPECIFICATION Spec
CONSTANTS
    Script <- TestScript
    Commands = {c1, c2, c3}
    Faults = {"fail", "crash"}
SYMMETRY Symmetric
INVARIANTS
    TypeOK
    RowsOnce
PROPERTIES
    ResetRestores
    SyncCompletes
\* Every command ends.
CHECK_DEADLOCK FALSE
