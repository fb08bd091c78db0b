------------------------- MODULE FileDescriptorTable -------------------------
(***************************************************************************)
(* The file descriptor table of the file system                            *)
(* (file-system/src/gnl_simfs_file_descriptor_table.c) as operators on a   *)
(* table value t, the C struct without its limit:                          *)
(*                                                                         *)
(*   t.size            number of descriptors in use                        *)
(*   t.max_fd          largest descriptor ever handed out                  *)
(*   t.free_index_map  the min heap of the holes left by removals; only    *)
(*                     its least element is ever taken, so it is a set     *)
(*   t.table           the array; its DOMAIN is what realloc has provided, *)
(*                     so that an access outside of it is an error of TLC  *)
(*                     and not a default value                             *)
(*                                                                         *)
(* An entry is [owner, inode]: the pid that opened the file and the copy   *)
(* of the inode taken at that moment.  NULL is the empty slot.             *)
(*                                                                         *)
(* last_hole and remove_fd_uncounted are faulty forms of the operators     *)
(* after them, that the runs must tell from the real ones.                 *)
(***************************************************************************)
EXTENDS Pointers, Integers, FiniteSets, FiniteSetsExt

fdt_init ==
    [size |-> 0, max_fd |-> 0, free_index_map |-> {}, table |-> [i \in {} |-> NULL]]

(* The descriptors in use, as the slots that hold an entry. *)
InUse(t) == {fd \in DOMAIN t.table : t.table[fd] # NULL}

last_hole(t) == IF t.free_index_map # {} THEN Max(t.free_index_map) ELSE t.size

(* The least hole if there is one, otherwise the slot after the last one.  *)
get_file_descriptor(t) ==
    IF t.free_index_map # {} THEN Min(t.free_index_map) ELSE t.size

fdt_put(t, entry) ==
    LET fd == get_file_descriptor(t)
    IN  [size           |-> t.size + 1,
         max_fd         |-> IF fd > t.max_fd THEN fd ELSE t.max_fd,
         free_index_map |-> t.free_index_map \ {fd},
         table          |-> IF t.max_fd = 0 \/ fd > t.max_fd
                            THEN [i \in 0..fd |-> IF i = fd THEN entry ELSE t.table[i]]
                            ELSE [t.table EXCEPT ![fd] = entry]]

(* table[fd] is read only when size > 0 and fd <= max_fd. *)
Known(t, fd) == t.size # 0 /\ fd <= t.max_fd /\ t.table[fd] # NULL

(* The error of a lookup by pid, "ok" when the descriptor is the caller's. *)
fdt_error(t, fd, pid) ==
    CASE ~Known(t, fd)                               -> "EBADF"
      [] Known(t, fd) /\ t.table[fd].owner # pid     -> "EPERM"
      [] Known(t, fd) /\ t.table[fd].owner = pid     -> "ok"

fdt_get(t, fd) == t.table[fd].inode

remove_fd_uncounted(t, fd) ==
    [t EXCEPT !.free_index_map = @ \cup {fd}, !.table[fd] = NULL]

remove_fd(t, fd) ==
    [size           |-> t.size - 1,
     max_fd         |-> t.max_fd,
     free_index_map |-> t.free_index_map \cup {fd},
     table          |-> [t.table EXCEPT ![fd] = NULL]]

(* The descriptors the loops over 0..max_fd select; the loops skip every   *)
(* slot once the table is empty, because table[i] may not exist then.      *)
OwnedBy(t, pid) ==
    {fd \in 0..t.max_fd : /\ t.size # 0
                          /\ t.table[fd] # NULL
                          /\ t.table[fd].owner = pid}

fdt_remove_pid(t, pid) ==
    LET gone == OwnedBy(t, pid)
    IN  [size           |-> t.size - Cardinality(gone),
         max_fd         |-> t.max_fd,
         free_index_map |-> t.free_index_map \cup gone,
         table          |-> [fd \in DOMAIN t.table |->
                                IF fd \in gone THEN NULL ELSE t.table[fd]]]

fdt_pid_inode_size(t, name, pid) ==
    Cardinality({fd \in OwnedBy(t, pid) : t.table[fd].inode.name = name})
-----------------------------------------------------------------------------
(* The table is sound: the array is exactly 0..max_fd once it exists, its  *)
(* empty slots are exactly the holes of the free map, and size counts the  *)
(* others.  This is what makes get_file_descriptor return an unused slot   *)
(* and every table[fd] behind the tests above an access to real memory.    *)
Sound(t) ==
    /\ \/ DOMAIN t.table = 0..t.max_fd
       \/ DOMAIN t.table = {} /\ t.max_fd = 0
    /\ t.free_index_map = {fd \in DOMAIN t.table : t.table[fd] = NULL}
    /\ t.size = Cardinality(InUse(t))
=============================================================================
