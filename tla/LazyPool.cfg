SPECIFICATION Spec
CONSTANTS
    Callers = {g1, g2, g3}
    NoPool = NoPool
INVARIANT SinglePool
