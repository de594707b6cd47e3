SPECIFICATION Spec
CONSTANTS
    Clients = {c1, c2}
    LogIds = {0}
    max_retry = 1
    MaxLives = 2
    None = None
INVARIANT TypeOK
INVARIANT UniqueIds
INVARIANT OwnerRecorded
PROPERTY EveryCallEnds
CHECK_DEADLOCK FALSE
