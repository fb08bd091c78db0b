CONSTANTS
  NULL = NULL
  Pids = {p1, p2}
  Names = {F1, F2}
  Inodes <- MCInodes
  Fds <- MCFds
  Limit = 4
SPECIFICATION Spec
INVARIANT TableSound
PROPERTY LeastDescriptorFirst
