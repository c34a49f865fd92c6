SPECIFICATION FairSpec
CONSTANTS
    Workers = {w1, w2, w3}
    First = {w1, w2}
    MaxLines = 2
    Block = 1
INVARIANTS
    TypeOK
    NothingLost
PROPERTIES
    LogSpec
    StopCloses
\* The control process ends.
CHECK_DEADLOCK FALSE
