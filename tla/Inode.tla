-------------------------------- MODULE Inode --------------------------------
(***************************************************************************)
(* The inode (file-system/src/gnl_simfs_inode.c) as operators on a record: *)
(*                                                                         *)
(*   locked         the pid that owns the lock, NoPid (0) when unlocked    *)
(*   refs           reference_list, as the number of its nodes per pid;    *)
(*                  reference_count counts all of them                     *)
(*   pending        pending_locks                                          *)
(*   size, ptr      size and direct_ptr (an address of the heap, or NULL)  *)
(*   btime, ctime   the two timestamps the replacement policies read       *)
(*                                                                         *)
(* mtime and atime are read by no operation and are left out.              *)
(*                                                                         *)
(* Here and in SimFS a short operator just before another one, with the    *)
(* same parameters, is a faulty form of it (a dropped test, a wrong count) *)
(* that the runs must be able to tell from the real one.                   *)
(***************************************************************************)
EXTENDS Pointers, Integers, Sequences, FiniteSets

CONSTANTS Pids, NoPid

ASSUME NoPidAssumption == NoPid \notin Pids /\ IsFiniteSet(Pids)

inode_init(now) ==
    [locked |-> NoPid, refs |-> [p \in Pids |-> 0], pending |-> 0,
     size |-> 0, ptr |-> NULL, btime |-> now, ctime |-> now]

(* The copy a file descriptor keeps, and its private write buffer. *)
inode_copy(name, inode) ==
    [name |-> name, locked |-> inode.locked, size |-> inode.size,
     ptr |-> inode.ptr, buffer |-> <<>>]

reference_count(inode) == Cardinality(UNION {{p} \X (1..inode.refs[p]) : p \in Pids})

has_refs(inode) == \E p \in Pids : inode.refs[p] > 0

HeldByOthers(inode, pid) == \E q \in Pids \ {pid} : inode.refs[q] > 0

no_other_refs(inode, pid) == FALSE

(* The search answers 1 only for a pid that holds a reference itself;      *)
(* for any other pid the function returns -1.                              *)
has_other_pid_refs(inode, pid) ==
    inode.refs[pid] > 0 /\ HeldByOthers(inode, pid)

not_locked(inode, pid) == FALSE
LockedByOther(inode, pid) == inode.locked \notin {NoPid, pid}

none_pending(inode) == FALSE
has_pending_locks(inode) == inode.pending > 0

increase_refs(inode, pid, now) ==
    [inode EXCEPT !.refs[pid] = @ + 1, !.ctime = now]

(* n calls of gnl_simfs_inode_decrease_refs, all of which succeed. *)
decrease_refs(inode, pid, n, now) ==
    IF n = 0 THEN inode ELSE [inode EXCEPT !.refs[pid] = @ - n, !.ctime = now]

SignalsLast(inode, pid) == ~has_refs(inode)

(* A decrease that left inode behind signals file_is_lockable. *)
Signals(inode, pid) == ~has_refs(inode) \/ HeldByOthers(inode, pid)

file_lock(inode, pid, now)  == [inode EXCEPT !.locked = pid, !.ctime = now]
file_unlock(inode, now)     == [inode EXCEPT !.locked = NoPid, !.ctime = now]

(* Writing goes to the buffer of the copy. *)
inode_write(copy, bytes) == [copy EXCEPT !.buffer = @ \o bytes]

(* The copy once its buffer is part of the artifact at a, of that size. *)
inode_fflush(copy, a, size) ==
    [copy EXCEPT !.buffer = <<>>, !.ptr = a, !.size = size]

read_in_place(inode, a, size, now) == [inode EXCEPT !.size = size, !.ctime = now]

(* The inode once its content was decoded and encoded again at a. *)
inode_read(inode, a, size, now) ==
    [inode EXCEPT !.ptr = a, !.size = size, !.ctime = now]

increase_pending_locks(inode, now) == [inode EXCEPT !.pending = @ + 1, !.ctime = now]
decrease_pending_locks(inode, now) == [inode EXCEPT !.pending = @ - 1, !.ctime = now]
=============================================================================
