--------------------------- MODULE FileDescriptors ---------------------------
(***************************************************************************)
(* The file descriptor table as a state machine: its interface called in   *)
(* any order by any pid.  The calls are serialised by the mutex of the     *)
(* file system, so each is one step.                                       *)
(***************************************************************************)
EXTENDS FileDescriptorTable

CONSTANTS Pids, Inodes, Fds, Limit

ASSUME FdAssumption ==
    /\ Limit \in Nat \ {0}
    /\ Fds \subseteq Nat
    /\ NULL \notin [owner : Pids, inode : Inodes]

VARIABLES fdt,     \* the table
          ret      \* what the last call returned

vars == <<fdt, ret>>

Entries == [owner : Pids, inode : Inodes]

Init == fdt = fdt_init /\ ret = <<"none">>

Put(pid, inode) ==
    \/ /\ fdt.size = Limit
       /\ ret' = <<"error", "EMFILE">>
       /\ UNCHANGED fdt
    \/ /\ fdt.size # Limit
       /\ ret' = <<"fd", get_file_descriptor(fdt)>>
       /\ fdt' = fdt_put(fdt, [owner |-> pid, inode |-> inode])

Refuse(pid, fd) ==
    /\ fdt_error(fdt, fd, pid) # "ok"
    /\ ret' = <<"error", fdt_error(fdt, fd, pid)>>
    /\ UNCHANGED fdt

Get(pid, fd) ==
    \/ Refuse(pid, fd)
    \/ /\ fdt_error(fdt, fd, pid) = "ok"
       /\ ret' = <<"inode", fdt_get(fdt, fd)>>
       /\ UNCHANGED fdt

Remove(pid, fd) ==
    \/ Refuse(pid, fd)
    \/ /\ fdt_error(fdt, fd, pid) = "ok"
       /\ fdt' = remove_fd(fdt, fd)
       /\ ret' = <<"ok">>

RemovePid(pid) == fdt' = fdt_remove_pid(fdt, pid) /\ ret' = <<"ok">>

Next == \E pid \in Pids :
            \/ \E inode \in Inodes : Put(pid, inode)
            \/ \E fd \in Fds : Get(pid, fd) \/ Remove(pid, fd)
            \/ RemovePid(pid)

Spec == Init /\ [][Next]_vars
-----------------------------------------------------------------------------
(* Type invariant of the table and of the last answer.                     *)
TypeOK ==
    /\ fdt.size \in 0..Limit
    /\ fdt.max_fd \in 0..Limit - 1
    /\ DOMAIN fdt.table \subseteq 0..Limit - 1
    /\ \A fd \in DOMAIN fdt.table : fdt.table[fd] \in Entries \cup {NULL}
    /\ fdt.free_index_map \subseteq 0..Limit - 1

(* Whatever the order of puts and removals, the holes, the entries and the *)
(* counters of the table agree (remove_fd, put and remove_pid together).   *)
TableSound == Sound(fdt)

(* The table implements the allocator that hands out the least unused      *)
(* descriptor: the map from descriptors to entries is the array without    *)
(* its empty slots.                                                        *)
open == [fd \in InUse(fdt) |-> fdt.table[fd]]

Allocator == INSTANCE DescriptorAllocator WITH open <- open, ret <- ret
LeastDescriptorFirst == Allocator!Spec
=============================================================================
