SPECIFICATION LiveSpec
CONSTANTS
    Readers = {r1, r2}
    Capacity = 2
    QueueSize = 2
    MaxLines = 3
INVARIANTS
    TypeOK
    InOrder
    NoLineLost
PROPERTY LinesArrive
