------------------------- MODULE DescriptorAllocator -------------------------
(***************************************************************************)
(* What the file descriptor table promises, without its data structure: a  *)
(* partial function from descriptors to entries in which a new entry gets  *)
(* the least unused descriptor, a descriptor answers only to its owner,    *)
(* and the end of a session drops exactly the descriptors of its pid.      *)
(***************************************************************************)
EXTENDS Integers, FiniteSetsExt

CONSTANTS Pids,    \* the processes that open files
          Inodes,  \* the inode copies a descriptor may hold
          Fds,     \* the descriptors a caller may pass, in use or not
          Limit    \* the most descriptors that may be in use

VARIABLES open,    \* the entries in use, indexed by their descriptor
          ret      \* what the last call returned

Unused == (0..Limit - 1) \ DOMAIN open

LeastUnused == Min(Unused)

Init == open = [fd \in {} |-> 0] /\ ret = <<"none">>

Without(gone) == [fd \in DOMAIN open \ gone |-> open[fd]]

Put(pid, inode) ==
    \/ /\ Unused = {}
       /\ ret' = <<"error", "EMFILE">>
       /\ UNCHANGED open
    \/ /\ Unused # {}
       /\ ret' = <<"fd", LeastUnused>>
       /\ open' = [fd \in DOMAIN open \cup {LeastUnused} |->
                     IF fd = LeastUnused THEN [owner |-> pid, inode |-> inode] ELSE open[fd]]

Refuse(pid, fd) ==
    /\ \/ fd \notin DOMAIN open /\ ret' = <<"error", "EBADF">>
       \/ fd \in DOMAIN open /\ open[fd].owner # pid /\ ret' = <<"error", "EPERM">>
    /\ UNCHANGED open

Mine(pid, fd) == fd \in DOMAIN open /\ open[fd].owner = pid

Get(pid, fd) ==
    \/ Refuse(pid, fd)
    \/ Mine(pid, fd) /\ ret' = <<"inode", open[fd].inode>> /\ UNCHANGED open

Remove(pid, fd) ==
    \/ Refuse(pid, fd)
    \/ Mine(pid, fd) /\ ret' = <<"ok">> /\ open' = Without({fd})

RemovePid(pid) ==
    /\ open' = Without({fd \in DOMAIN open : open[fd].owner = pid})
    /\ ret' = <<"ok">>

Next == \E pid \in Pids :
            \/ \E inode \in Inodes : Put(pid, inode)
            \/ \E fd \in Fds : Get(pid, fd) \/ Remove(pid, fd)
            \/ RemovePid(pid)

Spec == Init /\ [][Next]_<<open, ret>>
=============================================================================
