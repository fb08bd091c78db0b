CONSTANTS
    NULL = NULL
    INT_MAX = 9
    WordBits = 2
    MaxInserts = 5
    MaxContent = 6
    Containers <- MCContainers
    Names <- MCNames
    Nodes <- MCNodes
    Values <- MCValues
    Priorities <- MCPriorities
    Alphabet <- MCAlphabet
SPECIFICATION Spec
INVARIANTS RootIsFirstInserted NoNodeLeaks DecodeInverts CodeIsOptimal CodeIsHuffman
PROPERTIES HeapIsPriorityQueue TreeIsMap ChainIsSequence
