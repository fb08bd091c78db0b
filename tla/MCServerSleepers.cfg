SPECIFICATION FairServer
CONSTANTS
    NULL = NULL
    FREED = FREED
    F1 = F1
    B1 = B1
    B2 = B2
    w1 = w1
    w2 = w2
    NoPid = 0
    MaxConnections = 2
    Names = {F1}
    Bytes = {B1, B2}
    WordBits = 2
    Payloads <- NoPayloads
    memory_limit = 1
    files_limit = 1
    replacement_policy = "NONE"
    Addrs = {1}
    MaxTime = 0
    MaxLen = 0
    MaxCounted = 1
    MAX_OPEN_FILES = 2
    Pids = {3, 4}
    Workers = {w1}
    Requests <- LockOnce
    Terminations = {"soft", "hard"}
PROPERTIES
    HardTerminationStops
    CloseIsServed
    HungUpIsClosed
    SoftTerminationStops
CHECK_DEADLOCK FALSE
