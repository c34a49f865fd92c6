SPECIFICATION FairSpec
CONSTANTS
    Greenlets = {g1, g2, g3}
    Conns = {c1, c2, c3}
    NoConn = NoConn
    Initial = 1
    Limit = 2
    Faults = {"refuse", "drop", "opError", "caught", "constraint", "kill"}
INVARIANTS
    TypeOK
    ConnCap
    Exclusive
    NoForeignWork
    ReturnedMeansDurable
    Accounting
PROPERTIES
    LoansSpec
    PermitReturns
\* Lost permits can leave every greenlet waiting in sem.acquire(), see
\* PgPoolOutage.cfg: the pool does stop.
CHECK_DEADLOCK FALSE
