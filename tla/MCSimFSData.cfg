SPECIFICATION Spec
CONSTANTS
    NULL = NULL
    FREED = FREED
    NoPid = NoPid
    p1 = p1
    p2 = p2
    p3 = p3
    F1 = F1
    F2 = F2
    B1 = B1
    B2 = B2
    Pids = {p1, p2}
    Names = {F1}
    Bytes = {B1, B2}
    WordBits = 2
    Payloads <- Contents
    memory_limit = 2
    files_limit = 1
    replacement_policy = "LRU"
    MAX_OPEN_FILES = 2
    Addrs = {1, 2, 3, 4, 5, 6}
    MaxTime = 0
    MaxLen = 3
    MaxCounted = 2
SYMMETRY Symmetric
INVARIANTS
    InodePointersLive
