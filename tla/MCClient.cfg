SPECIFICATION ClientSpec
CONSTANTS
    NULL = NULL
    FREED = FREED
    NoPid = NoPid
    p1 = p1
    p2 = p2
    p3 = p3
    F1 = F1
    F2 = F2
    F3 = F3
    B1 = B1
    B2 = B2
    Pids = {p1, p2}
    Names = {F1, F2, F3}
    Bytes = {B1, B2}
    WordBits = 2
    Payloads <- Contents
    memory_limit = 2
    files_limit = 2
    replacement_policy = "FIFO"
    MAX_OPEN_FILES = 3
    Addrs = {1, 2, 3, 4, 5, 6}
    MaxTime = 1
    MaxLen = 6
    MaxCounted = 6
    Local <- Disk
    CommandLines <- Lines
    ApiProgram <- OneProgram
    Mortal = {p1, p2}
    MaxStarts = 4
INVARIANTS
    OldestFirst
    UsesOwnDescriptors
    NothingLeftOpen
    LocksAreAsked
    LeavesNothing
    StoredIsLocal
SYMMETRY Symmetric
CHECK_DEADLOCK FALSE
