SPECIFICATION Spec
CONSTANTS
    Greenlets = {g1, g2, g3}
    Conns = {c1, c2, c3}
    NoConn = NoConn
    Initial = 1
    Limit = 2
    Faults = {"refuse", "opError"}
SYMMETRY Symmetric
INVARIANT BlockedOnlyWhileBorrowed
