CONSTANTS
    NULL = NULL
    MAX_DIGITS = 2
    Capacity = 4
    MaxRequests = 2
    Requests <- MCRequests
    Responses <- MCResponses
SPECIFICATION FairSpec
CHECK_DEADLOCK FALSE
INVARIANT AbandonsOnlyInterrupted
PROPERTIES StreamIsMessages TransfersEnd DepartureIsNoticed
