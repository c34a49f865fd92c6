SPECIFICATION Spec
CONSTANTS
    Workers = {w1, w2, w3}
    First = {w1, w2}
    MaxLines = 2
    Block = 3
INVARIANT OnlyWholeLines
CHECK_DEADLOCK FALSE
