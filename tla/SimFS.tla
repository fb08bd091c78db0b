-------------------------------- MODULE SimFS --------------------------------
(***************************************************************************)
(* The in-memory file system (file-system/src/gnl_simfs_file_system.c and  *)
(* gnl_simfs_file_system_rts.c) as its callers drive it.                   *)
(*                                                                         *)
(* Every interface function runs under one mutex, so a call is one step,   *)
(* with two exceptions.  Open and Lock may wait on the condition variable  *)
(* of an inode, which releases the mutex: Sleep and WakeUp are steps of    *)
(* their own.  Write evicts files in a loop: each iteration is a step, and *)
(* `writing' shows that the mutex is held between them.  A pid is a        *)
(* connected client; it has one request in progress at a time.             *)
(*                                                                         *)
(* The fd table keeps COPIES of inodes, made when the file was opened, and *)
(* both a copy and its inode point to the compressed content on the heap.  *)
(* Reading and flushing free an artifact and allocate another, so the heap *)
(* is modelled: an access to a freed artifact, or to a freed inode, ends   *)
(* the behaviour (`undefined').  Times are in ticks of time(NULL).         *)
(*                                                                         *)
(* A call that fails before it changes anything is a stuttering step; the  *)
(* operators *_error give its errno, in the order of the code's tests.     *)
(* "stale" stands for an errno left over from an earlier call.             *)
(***************************************************************************)
EXTENDS Inode, FileDescriptorTable, Huffman, SequencesExt

CONSTANTS Names,                 \* file names
          Payloads,              \* what clients write
          memory_limit, files_limit, replacement_policy,
          MAX_OPEN_FILES,        \* GNL_SIMFS_MAX_OPEN_FILES
          Addrs,                 \* addresses malloc can return
          FREED,                 \* a pointer to freed memory
          MaxTime, MaxLen, MaxCounted
                                 \* bounds of the clock, of a content and of
                                 \* the file counter of the monitor

ASSUME SimFSAssumption ==
    /\ Payloads \subseteq Seq(Bytes)
    /\ memory_limit \in Nat /\ files_limit \in Nat
    /\ replacement_policy \in {"NONE", "FIFO", "LIFO", "LRU", "MRU", "LFU"}
    /\ MAX_OPEN_FILES \in Nat \ {0}
    /\ Addrs \subseteq Nat
    /\ MaxTime \in Nat /\ MaxLen \in Nat /\ MaxCounted \in Nat
    /\ NULL \notin Addrs /\ FREED \notin Addrs \cup {NULL}

VARIABLES files,      \* file_table->table: the inode of each name, or NULL
          presence,   \* file_table->presence_list: the names, oldest first
          used,       \* file_table->size
          monitor,    \* the counters of the monitor
          fdt,        \* the file descriptor table
          heap,       \* the content of each artifact, NULL once freed
          waiting,    \* what each pid waits for on file_is_lockable, or NULL
          writing,    \* the write that holds the mutex, or NULL
          clock,      \* time(NULL)
          undefined   \* "no", or what was accessed after it was freed

vars == <<files, presence, used, monitor, fdt, heap, waiting, writing,
          clock, undefined>>

(* The file table with the counters beside it. *)
table == <<files, presence, used, monitor>>

Fds == 0..MAX_OPEN_FILES

Exists(f) == files[f] # NULL

(* The copy behind the descriptor of an entry in use. *)
Copy(fd) == fdt_get(fdt, fd)

Init ==
    /\ files = [f \in Names |-> NULL]
    /\ presence = <<>>
    /\ used = 0
    /\ monitor = [file_counter |-> 0, bytes_counter |-> 0]
    /\ fdt = fdt_init
    /\ heap = [a \in Addrs |-> NULL]
    /\ waiting = [p \in Pids |-> NULL]
    /\ writing = NULL
    /\ clock = 0
    /\ undefined = "no"

(* The mutex is free and p, which is not asleep, can enter. *)
Ready(p) == waiting[p] = NULL /\ writing = NULL /\ undefined = "no"
-----------------------------------------------------------------------------
(* The heap.  Artifacts nothing points to any more are leaked; they are    *)
(* dropped.  The pointer of a copy whose artifact was freed becomes FREED: *)
(* malloc may return the address again, but using a pointer that outlived  *)
(* its object is undefined all the same.                                   *)

Referenced(fs, t) ==
    {fs[f].ptr : f \in {g \in Names : fs[g] # NULL}}
        \cup {t.table[fd].inode.ptr : fd \in InUse(t)}

(* malloc succeeds; Addrs is a bound, large enough in every instance. *)
HasMemory(fs, t) == Addrs \ Referenced(fs, t) # {}

Fresh(fs, t) == Min(Addrs \ Referenced(fs, t))

Reachable(h, fs, t) == [a \in Addrs |-> IF a \in Referenced(fs, t) THEN h[a] ELSE NULL]

Freed(h, ptr) == IF ptr = NULL THEN h ELSE [h EXCEPT ![ptr] = NULL]

Dangling(t, ptr) ==
    LET Points(fd) == t.table[fd] # NULL /\ ptr # NULL /\ t.table[fd].inode.ptr = ptr
    IN  [t EXCEPT !.table = [fd \in DOMAIN t.table |->
            IF Points(fd) THEN [t.table[fd] EXCEPT !.inode.ptr = FREED] ELSE t.table[fd]]]
-----------------------------------------------------------------------------
(* The monitor (gnl_simfs_monitor.c); its peaks and its eviction count are *)
(* read by the status report only and are left out.                        *)

not_added(m) == m
file_added(m) == [m EXCEPT !.file_counter = @ + 1]

bytes_added(m, n) == [m EXCEPT !.bytes_counter = @ + n]

(* bytes_removed and file_removed in a row: the first fails when no byte   *)
(* was counted, and then the second is not called.                         *)
removed_error(m) ==
    IF m.bytes_counter = 0 \/ m.file_counter = 0 THEN "EPERM" ELSE "ok"

removed(m, n) ==
    IF m.bytes_counter = 0 THEN m
    ELSE [file_counter  |-> IF m.file_counter = 0 THEN 0 ELSE m.file_counter - 1,
          bytes_counter |-> m.bytes_counter - n]
-----------------------------------------------------------------------------
(* Waking the waiters of an inode (pthread_cond_signal).  At most one pid  *)
(* waits on an inode, see PendingIsOneWaiter.                              *)
Signalled(w, f) ==
    [p \in Pids |-> IF w[p] # NULL /\ w[p].name = f
                    THEN [w[p] EXCEPT !.signalled = TRUE] ELSE w[p]]

Waiters(f) == {p \in Pids : waiting[p] # NULL /\ waiting[p].name = f}
-----------------------------------------------------------------------------
(* Open.                                                                   *)

create_error ==
    IF Len(presence) = files_limit THEN "EDQUOT"
    ELSE IF used = -1 THEN "stale"
    ELSE IF used = memory_limit THEN "EDQUOT" ELSE "ok"

open_error(p, f, create, lock) ==
    IF fdt.size = MAX_OPEN_FILES THEN "ENFILE"
    ELSE IF create /\ Exists(f) THEN "EEXIST"
    ELSE IF create THEN create_error
    ELSE IF ~Exists(f) THEN "ENOENT"
    ELSE IF LockedByOther(files[f], p) THEN "EBUSY"
    ELSE IF lock /\ files[f].locked = p THEN "ok"
    ELSE IF has_pending_locks(files[f]) THEN IF lock THEN "EDEADLK" ELSE "EBUSY"
    ELSE "ok"

(* The loop condition of gnl_simfs_rts_wait_file_to_be_lockable. *)
MustWait(inode, p) == has_refs(inode) /\ has_other_pid_refs(inode, p)

(* The descriptor is put with the copy of the inode as it is before the    *)
(* new reference is counted.                                               *)
Opened(p, f, inode) ==
    /\ fdt' = fdt_put(fdt, [owner |-> p, inode |-> inode_copy(f, inode)])
    /\ files' = [files EXCEPT ![f] = increase_refs(inode, p, clock)]

(* What gnl_simfs_rts_lock_inode does before it waits. *)
Sleep(p, f, op) ==
    /\ files' = [files EXCEPT ![f] = increase_pending_locks(@, clock)]
    /\ waiting' = [waiting EXCEPT ![p] = [name |-> f, op |-> op, signalled |-> FALSE]]
    /\ UNCHANGED <<presence, used, monitor, fdt, heap, writing, clock, undefined>>

OpenCreate(p, f, lock) ==
    /\ Ready(p)
    /\ open_error(p, f, TRUE, lock) = "ok"
    /\ monitor.file_counter < MaxCounted
    /\ LET new == inode_init(clock)
       IN  Opened(p, f, IF lock THEN file_lock(new, p, clock) ELSE new)
    /\ presence' = Append(presence, f)
    /\ monitor' = file_added(monitor)
    /\ UNCHANGED <<used, heap, waiting, writing, clock, undefined>>

(* NeedsLock: O_LOCK was given and the lock is not yet the caller's. *)
NeedsLock(p, f, lock) == lock /\ files[f].locked # p

OpenExisting(p, f, lock) ==
    /\ Ready(p)
    /\ open_error(p, f, FALSE, lock) = "ok"
    /\ ~(NeedsLock(p, f, lock) /\ MustWait(files[f], p))
    /\ Opened(p, f, IF NeedsLock(p, f, lock) THEN file_lock(files[f], p, clock)
                                             ELSE files[f])
    /\ UNCHANGED <<presence, used, monitor, heap, waiting, writing, clock, undefined>>

OpenWaits(p, f) ==
    /\ Ready(p)
    /\ open_error(p, f, FALSE, TRUE) = "ok"
    /\ NeedsLock(p, f, TRUE) /\ MustWait(files[f], p)
    /\ Sleep(p, f, "open")
-----------------------------------------------------------------------------
(* Lock and unlock.                                                        *)

(* The errors of an operation on the file behind a descriptor. *)
fd_error(p, fd) ==
    IF fdt_error(fdt, fd, p) # "ok" THEN fdt_error(fdt, fd, p)
    ELSE IF ~Exists(Copy(fd).name) THEN "ENOENT" ELSE "ok"

lock_error(p, fd) ==
    IF fd_error(p, fd) # "ok" THEN fd_error(p, fd)
    ELSE LET inode == files[Copy(fd).name]
         IN  IF LockedByOther(inode, p) THEN "EBUSY"
             ELSE IF inode.locked # p /\ has_pending_locks(inode) THEN "EDEADLK"
             ELSE "ok"

Lock(p, fd) ==
    /\ Ready(p)
    /\ lock_error(p, fd) = "ok"
    /\ LET f == Copy(fd).name
       IN  /\ files[f].locked = NoPid /\ ~MustWait(files[f], p)
           /\ files' = [files EXCEPT ![f] = file_lock(@, p, clock)]
    /\ UNCHANGED <<presence, used, monitor, fdt, heap, waiting, writing, clock, undefined>>

LockWaits(p, fd) ==
    /\ Ready(p)
    /\ lock_error(p, fd) = "ok"
    /\ LET f == Copy(fd).name
       IN  /\ files[f].locked = NoPid /\ MustWait(files[f], p)
           /\ Sleep(p, f, "lock")

unlock_error(p, fd) ==
    IF fd_error(p, fd) # "ok" THEN fd_error(p, fd)
    ELSE CASE files[Copy(fd).name].locked = NoPid -> "EPERM"
           [] files[Copy(fd).name].locked = p     -> "ok"
           [] OTHER                               -> "EBUSY"

Unlock(p, fd) ==
    /\ Ready(p)
    /\ unlock_error(p, fd) = "ok"
    /\ files' = [files EXCEPT ![Copy(fd).name] = file_unlock(@, clock)]
    /\ UNCHANGED <<presence, used, monitor, fdt, heap, waiting, writing, clock, undefined>>

(* A waiter that was signalled, or that pthread_cond_wait lets go for no   *)
(* reason, has the mutex again and tests the condition once more.          *)
Spurious(p) ==
    /\ undefined = "no"
    /\ waiting[p] # NULL /\ ~waiting[p].signalled
    /\ waiting' = [waiting EXCEPT ![p].signalled = TRUE]
    /\ UNCHANGED <<table, fdt, heap, writing, clock, undefined>>

Awake(p) ==
    /\ writing = NULL /\ undefined = "no"
    /\ waiting[p] # NULL /\ waiting[p].signalled

SleepAgain(p) ==
    /\ Awake(p)
    /\ MustWait(files[waiting[p].name], p)
    /\ waiting' = [waiting EXCEPT ![p].signalled = FALSE]
    /\ UNCHANGED <<table, fdt, heap, writing, clock, undefined>>

WakeUp(p) ==
    /\ Awake(p)
    /\ LET f     == waiting[p].name
           inode == decrease_pending_locks(file_lock(files[f], p, clock), clock)
           full  == waiting[p].op = "open" /\ fdt.size = MAX_OPEN_FILES
       IN  /\ ~MustWait(files[f], p)
           /\ IF waiting[p].op = "open" /\ ~full
              THEN Opened(p, f, inode)
              ELSE files' = [files EXCEPT ![f] = inode] /\ UNCHANGED fdt
    /\ waiting' = [waiting EXCEPT ![p] = NULL]
    /\ UNCHANGED <<presence, used, monitor, heap, writing, clock, undefined>>
-----------------------------------------------------------------------------
(* Close.  The descriptor goes first, also when the call fails because the *)
(* file of that name does not know the pid (EPERM); the lock, if any,      *)
(* stays.                                                                  *)
Close(p, fd) ==
    /\ Ready(p)
    /\ fdt_error(fdt, fd, p) = "ok"
    /\ fdt' = remove_fd(fdt, fd)
    /\ LET f     == Copy(fd).name
           inode == decrease_refs(files[f], p, 1, clock)
       IN  \/ /\ Exists(f) /\ files[f].refs[p] > 0
              /\ files' = [files EXCEPT ![f] = inode]
              /\ waiting' = IF Signals(inode, p) THEN Signalled(waiting, f) ELSE waiting
           \/ /\ ~(Exists(f) /\ files[f].refs[p] > 0)
              /\ UNCHANGED <<files, waiting>>
    /\ heap' = Reachable(heap, files', fdt')
    /\ UNCHANGED <<presence, used, monitor, writing, clock, undefined>>
-----------------------------------------------------------------------------
(* The list without the name of a removed file. *)
StillListed(list, f) == list
Unlisted(list, f) == RemoveFirst(list, f)

(* Removing a file (gnl_simfs_rts_remove_inode): n is the size its inode   *)
(* has at that moment.  A pid that waits on the inode keeps using it.      *)
DestroyFile(f, n) ==
    /\ files' = [files EXCEPT ![f] = NULL]
    /\ presence' = Unlisted(presence, f)
    /\ used' = used - n
    /\ monitor' = removed(monitor, n)
    /\ fdt' = Dangling(fdt, files[f].ptr)
    /\ heap' = Reachable(Freed(heap, files[f].ptr), files', fdt')
    /\ undefined' = IF Waiters(f) # {} THEN "inode" ELSE "no"

(* The file is gone all the same when the accounting of it fails. *)
destroy_error(n) ==
    IF removed_error(monitor) # "ok" THEN removed_error(monitor)
    ELSE IF used - n = -1 THEN "stale" ELSE "ok"

remove_error(p, f) ==
    IF ~Exists(f) THEN "ENOENT" ELSE IF files[f].locked # p THEN "EPERM" ELSE "ok"

RemoveFile(p, f) ==
    /\ Ready(p)
    /\ remove_error(p, f) = "ok"
    /\ DestroyFile(f, files[f].size)
    /\ UNCHANGED <<waiting, writing, clock>>
-----------------------------------------------------------------------------
(* The session of a pid that disconnects.  The files are visited in the    *)
(* order of the list; the first one that holds fewer references of the pid *)
(* than the pid has descriptors of that name stops the loop, after the     *)
(* references it did hold are gone.                                        *)

Descriptors(p, f) == fdt_pid_inode_size(fdt, f, p)

Short(p, i) == files[presence[i]].refs[p] < Descriptors(p, presence[i])

StopsAt(p) == Min({i \in DOMAIN presence : Short(p, i)} \cup {Len(presence) + 1})

LeaveUnlockedOnly(p, inode, n) ==
    IF inode.locked = p THEN file_unlock(inode, clock) ELSE inode

LeaveLocked(p, inode, n) == decrease_refs(inode, p, n, clock)

LeaveAnyUnlocked(p, inode, n) == file_unlock(decrease_refs(inode, p, n, clock), clock)

LeaveFile(p, inode, n) ==
    LET left == decrease_refs(inode, p, n, clock)
    IN  IF left.locked = p THEN file_unlock(left, clock) ELSE left

RemoveSession(p) ==
    /\ Ready(p)
    /\ presence # <<>>
    /\ LET stop == StopsAt(p)
           Before(f) == \E i \in 1..stop - 1 : i <= Len(presence) /\ presence[i] = f
           At(f)     == stop <= Len(presence) /\ presence[stop] = f
           held(f)   == IF Before(f) THEN Descriptors(p, f)
                        ELSE IF At(f) THEN files[f].refs[p] ELSE 0
           after     == [f \in Names |->
                            IF Before(f) THEN LeaveFile(p, files[f], held(f))
                            ELSE IF At(f) THEN decrease_refs(files[f], p, held(f), clock)
                            ELSE files[f]]
       IN  /\ files' = after
           /\ waiting' = [q \in Pids |->
                            IF /\ waiting[q] # NULL
                               /\ held(waiting[q].name) > 0
                               /\ Signals(after[waiting[q].name], p)
                            THEN [waiting[q] EXCEPT !.signalled = TRUE] ELSE waiting[q]]
           /\ fdt' = IF stop > Len(presence) THEN fdt_remove_pid(fdt, p) ELSE fdt
    /\ heap' = Reachable(heap, files', fdt')
    /\ UNCHANGED <<presence, used, monitor, writing, clock, undefined>>
-----------------------------------------------------------------------------
(* Write.                                                                  *)

write_error(buf) ==
    IF ~Encodable(buf) THEN "EPERM"
    ELSE IF encode_size(buf) > memory_limit THEN "E2BIG" ELSE "ok"

(* The content a write through fd would produce stays within the bound. *)
Fits(p, fd, buf) ==
    fdt_error(fdt, fd, p) = "ok" =>
        LET copy == Copy(fd)
            old  == IF copy.ptr \in {NULL, FREED} THEN <<>> ELSE heap[copy.ptr]
        IN  Len(old) + Len(copy.buffer) + Len(buf) <= MaxLen

(* A size of -1, which the table reaches when a removal subtracts more     *)
(* than was added, is taken for the error of the function that reads it.   *)
available_bytes == IF used = -1 THEN -1 ELSE memory_limit - used

NoSpace(buf) == encode_size(buf) > available_bytes

(* The loop gives up: available_bytes is -1, which is taken for the error  *)
(* of the call; no policy; or no file to evict.                            *)
no_victim_error ==
    IF available_bytes = -1 THEN "stale"
    ELSE IF replacement_policy = "NONE" THEN "EDQUOT"
    ELSE IF presence = <<>> THEN "stale" ELSE "ok"

(* The loop is entered, before the descriptor is even looked at. *)
WriteBegin(p, fd, buf) ==
    /\ Ready(p)
    /\ write_error(buf) = "ok" /\ Fits(p, fd, buf)
    /\ NoSpace(buf) /\ no_victim_error = "ok"
    /\ writing' = [pid |-> p, fd |-> fd, buf |-> buf]
    /\ UNCHANGED <<table, fdt, heap, waiting, clock, undefined>>

InWrite == writing # NULL /\ undefined = "no"

WriteGivesUp ==
    /\ InWrite /\ NoSpace(writing.buf)
    /\ no_victim_error # "ok"
    /\ writing' = NULL
    /\ UNCHANGED <<table, fdt, heap, waiting, clock, undefined>>

victim_key_by_ctime(inode) == inode.ctime

(* The key of the min heap of victims. *)
victim_key(inode) ==
    CASE replacement_policy = "FIFO" -> inode.btime
      [] replacement_policy = "LIFO" -> -inode.btime
      [] replacement_policy = "LRU"  -> inode.ctime
      [] replacement_policy = "MRU"  -> -inode.ctime
      [] replacement_policy = "LFU"  -> reference_count(inode)

(* Inserts bubble up over strictly greater keys only, so that the root of  *)
(* the heap is the first inserted of the least keys.                       *)
Victim ==
    LET Key(i) == victim_key(files[presence[i]])
    IN  presence[Min({i \in DOMAIN presence : \A j \in DOMAIN presence : Key(i) <= Key(j)})]

(* A file that was never written, or whose artifact decodes to nothing,    *)
(* cannot be read, hence not evicted; in the second case the artifact is   *)
(* gone after the attempt.                                                 *)
Readable(inode) == inode.ptr # NULL /\ Branching(heap[inode.ptr])

FailedRead(f) ==
    /\ ~Readable(files[f])
    /\ files' = IF files[f].ptr = NULL THEN files
                ELSE [files EXCEPT ![f] = inode_read(@, NULL, 0, clock)]
    /\ fdt' = Dangling(fdt, files[f].ptr)
    /\ heap' = Reachable(Freed(heap, files[f].ptr), files', fdt')

EvictFails ==
    /\ InWrite /\ NoSpace(writing.buf)
    /\ no_victim_error = "ok"
    /\ FailedRead(Victim)
    /\ writing' = NULL
    /\ UNCHANGED <<presence, used, monitor, waiting, clock, undefined>>

(* The victim is read, which sets its size to the size of its artifact,    *)
(* and removed.                                                            *)
Evict ==
    /\ InWrite /\ NoSpace(writing.buf)
    /\ no_victim_error = "ok"
    /\ Readable(files[Victim])
    /\ LET n == encode_size(heap[files[Victim].ptr])
       IN  /\ DestroyFile(Victim, n)
           /\ writing' = IF destroy_error(n) = "ok" THEN writing ELSE NULL
    /\ UNCHANGED <<waiting, clock>>

(* The inode after the copy was flushed to the artifact at a. *)
flushed(inode, a, grew) == [inode EXCEPT !.ptr = a, !.size = @ + grew, !.ctime = clock]

(* Flushing the copy of descriptor fd, with the files, the heap and the    *)
(* table as the caller left them (gnl_simfs_rts_fflush_inode).  Only a     *)
(* copy with a buffer touches the content: it decodes and frees the        *)
(* artifact that the COPY points to, and the inode gets the new one.       *)
Flush(fd, fs, h, t) ==
    LET copy == t.table[fd].inode
        f    == copy.name
        old  == IF copy.ptr = NULL THEN <<>> ELSE decode(h[copy.ptr])
        new  == old \o copy.buffer
        a    == Fresh(fs, t)
        grew == encode_size(new) - copy.size
        done == inode_fflush(copy, a, encode_size(new))
    IN  \/ /\ copy.buffer = <<>>
           /\ files' = [fs EXCEPT ![f].ctime = clock]
           /\ fdt' = t
           /\ heap' = Reachable(h, files', fdt')
           /\ UNCHANGED <<used, monitor, undefined>>
        \/ /\ copy.buffer # <<>> /\ copy.ptr = FREED
           /\ undefined' = "artifact"
           /\ UNCHANGED <<files, used, monitor, fdt, heap>>
        \/ /\ copy.buffer # <<>> /\ copy.ptr # FREED
           /\ HasMemory(fs, t)
           /\ fdt' = Dangling([t EXCEPT !.table[fd].inode = done], copy.ptr)
           /\ files' = [fs EXCEPT ![f] = flushed(@, a, grew)]
           /\ heap' = Reachable([Freed(h, copy.ptr) EXCEPT ![a] = new], files', fdt')
           /\ used' = used + grew
           /\ monitor' = bytes_added(monitor, grew)
           /\ UNCHANGED undefined

(* The lock the COPY remembers decides, not the lock of the file. *)
access_error(p, fd) ==
    IF fdt_error(fdt, fd, p) # "ok" THEN fdt_error(fdt, fd, p)
    ELSE IF LockedByOther(Copy(fd), p) THEN "EBUSY" ELSE "ok"

(* The rest of a write once there is space.  A write to a file that is     *)
(* gone fails (ENOENT), but leaves its bytes in the buffer of the copy.    *)
WriteCopy(p, fd, buf) ==
    LET t == [fdt EXCEPT !.table[fd].inode = inode_write(@, buf)]
    IN  \/ /\ access_error(p, fd) # "ok"
           /\ UNCHANGED <<files, used, monitor, fdt, heap, undefined>>
        \/ /\ access_error(p, fd) = "ok" /\ ~Exists(Copy(fd).name)
           /\ fdt' = t
           /\ UNCHANGED <<files, used, monitor, heap, undefined>>
        \/ /\ access_error(p, fd) = "ok" /\ Exists(Copy(fd).name)
           /\ Flush(fd, files, heap, t)

Write(p, fd, buf) ==
    /\ Ready(p)
    /\ write_error(buf) = "ok" /\ Fits(p, fd, buf)
    /\ ~NoSpace(buf)
    /\ WriteCopy(p, fd, buf)
    /\ UNCHANGED <<presence, waiting, writing, clock>>

WriteEnd ==
    /\ InWrite /\ ~NoSpace(writing.buf)
    /\ WriteCopy(writing.pid, writing.fd, writing.buf)
    /\ writing' = NULL
    /\ UNCHANGED <<presence, waiting, clock>>
-----------------------------------------------------------------------------
(* Read.  The inode's artifact is decoded, freed and encoded again; then   *)
(* the copy is flushed.                                                    *)

read_error(p, fd) ==
    IF access_error(p, fd) # "ok" THEN access_error(p, fd)
    ELSE IF ~Exists(Copy(fd).name) THEN "ENOENT" ELSE "ok"

ReadNothing(p, fd) ==
    /\ Ready(p)
    /\ read_error(p, fd) = "ok"
    /\ FailedRead(Copy(fd).name)
    /\ UNCHANGED <<presence, used, monitor, waiting, writing, clock, undefined>>

Read(p, fd) ==
    /\ Ready(p)
    /\ read_error(p, fd) = "ok"
    /\ LET f       == Copy(fd).name
           a       == Fresh(files, fdt)
           content == heap[files[f].ptr]
           fs      == [files EXCEPT ![f] = inode_read(@, a, encode_size(content), clock)]
           h       == [Freed(heap, files[f].ptr) EXCEPT ![a] = content]
       IN  /\ Readable(files[f])
           /\ HasMemory(files, fdt)
           /\ Flush(fd, fs, h, Dangling(fdt, files[f].ptr))
    /\ UNCHANGED <<presence, waiting, writing, clock>>
-----------------------------------------------------------------------------
Tick ==
    /\ undefined = "no" /\ clock < MaxTime
    /\ clock' = clock + 1
    /\ UNCHANGED <<table, fdt, heap, waiting, writing, undefined>>

(* A call that fails at once; every pid can make one, of a descriptor it   *)
(* does not have.                                                          *)
Refused(p) == Ready(p) /\ UNCHANGED vars

(* After an undefined access the model says nothing more. *)
Halted == undefined # "no" /\ UNCHANGED vars

WriteStep == WriteGivesUp \/ EvictFails \/ Evict \/ WriteEnd

OnName(p, f) ==
    \/ \E lock \in BOOLEAN : OpenCreate(p, f, lock) \/ OpenExisting(p, f, lock)
    \/ OpenWaits(p, f)
    \/ RemoveFile(p, f)

OnDescriptor(p, fd) ==
    \/ Close(p, fd)
    \/ Lock(p, fd) \/ LockWaits(p, fd) \/ Unlock(p, fd)
    \/ Read(p, fd) \/ ReadNothing(p, fd)
    \/ \E buf \in Payloads : Write(p, fd, buf) \/ WriteBegin(p, fd, buf)

Next ==
    \/ \E p \in Pids :
          \/ \E f \in Names : OnName(p, f)
          \/ \E fd \in Fds : OnDescriptor(p, fd)
          \/ RemoveSession(p) \/ Refused(p)
          \/ Spurious(p) \/ SleepAgain(p) \/ WakeUp(p)
    \/ WriteStep
    \/ Tick
    \/ Halted

(* A thread that holds the mutex goes on, and a signalled waiter is not    *)
(* kept from the mutex for ever, although it finds it taken by writes      *)
(* again and again.  Clients owe nothing.                                  *)
Fairness ==
    /\ WF_vars(WriteStep)
    /\ \A p \in Pids : SF_vars(SleepAgain(p) \/ WakeUp(p))

Spec == Init /\ [][Next]_vars

FairSpec == Spec /\ Fairness
-----------------------------------------------------------------------------
(* Type invariant.                                                         *)
Inodes ==
    [locked : Pids \cup {NoPid}, refs : [Pids -> Nat], pending : Nat, size : Int,
     ptr : Addrs \cup {NULL}, btime : Nat, ctime : Nat]

Copies ==
    [name : Names, locked : Pids \cup {NoPid}, size : Int,
     ptr : Addrs \cup {NULL, FREED}, buffer : Seq(Bytes)]

Entries == [owner : Pids, inode : Copies]

Waits == [name : Names, op : {"open", "lock"}, signalled : BOOLEAN]

(* The null pointer is none of the objects pointers point to. *)
ASSUME NullAssumption ==
    /\ NULL \notin Inodes /\ NULL \notin Entries
    /\ NULL \notin Waits /\ NULL \notin Seq(Bytes)
    /\ NULL \notin [pid : Pids, fd : Fds, buf : Payloads]

TypeOK ==
    /\ files \in [Names -> Inodes \cup {NULL}]
    /\ presence \in Seq(Names)
    /\ used \in Int
    /\ monitor \in [file_counter : Nat, bytes_counter : Int]
    /\ \A fd \in InUse(fdt) : fdt.table[fd] \in Entries
    /\ heap \in [Addrs -> Seq(Bytes) \cup {NULL}]
    /\ waiting \in [Pids -> Waits \cup {NULL}]
    /\ writing \in [pid : Pids, fd : Fds, buf : Payloads] \cup {NULL}
    /\ clock \in 0..MaxTime
    /\ undefined \in {"no", "artifact", "inode"}

(* The table of descriptors stays sound inside the file system, although   *)
(* it is full at times and names in it come and go.                        *)
TableSound == Sound(fdt)

(* presence_list and the tree of inodes agree, whatever creations,         *)
(* removals and evictions happened (file_table_create, file_table_remove). *)
ListMatchesTable ==
    /\ IsInjective(presence)
    /\ ToSet(presence) = {f \in Names : Exists(f)}

(* The list is in the order of creation times, so that FIFO evicts its     *)
(* head, the oldest file (build_victim_heap on btime).                     *)
OldestFirst ==
    /\ \A i, j \in DOMAIN presence :
          i < j => files[presence[i]].btime <= files[presence[j]].btime
    /\ replacement_policy = "FIFO" /\ presence # <<>> => Victim = Head(presence)

(* A pid never holds more references of a file than descriptors of its     *)
(* name: open, close and remove_session keep the two tables in step.       *)
RefsHaveDescriptors ==
    \A f \in Names, p \in Pids :
        Exists(f) => files[f].refs[p] <= Descriptors(p, f)

(* pending_locks counts the one thread that sleeps on the inode, and while *)
(* it is set nobody owns the lock (lock_inode's EDEADLK test).             *)
PendingIsOneWaiter ==
    undefined = "no" =>
        /\ \A f \in Names : Exists(f) =>
              \/ files[f].pending = 0 /\ Waiters(f) = {}
              \/ /\ files[f].pending = 1 /\ files[f].locked = NoPid
                 /\ \E p \in Pids : Waiters(f) = {p}
        /\ \A p \in Pids : waiting[p] # NULL => Exists(waiting[p].name)

(* A waiter that nobody signalled still has a reason to wait: the last     *)
(* decrease_refs that made the file lockable did signal it.                *)
NoLostWakeup ==
    undefined = "no" =>
        \A p \in Pids :
            waiting[p] # NULL /\ ~waiting[p].signalled
                => MustWait(files[waiting[p].name], p)

(* The copy behind a descriptor is never locked by another pid, since open *)
(* refuses such a file and nothing updates the copy: the EBUSY of read and *)
(* write is out of reach.                                                  *)
CopiesAreAccessible ==
    \A fd \in InUse(fdt) : Copy(fd).locked \in {NoPid, fdt.table[fd].owner}

(* What an inode points to is on the heap, and two files never share it.   *)
InodePointersLive ==
    \A f \in Names :
        Exists(f) /\ files[f].ptr # NULL =>
            /\ heap[files[f].ptr] # NULL
            /\ \A g \in Names \ {f} : Exists(g) => files[g].ptr # files[f].ptr

(* The monitor never counts fewer files than there are, so file_removed    *)
(* never finds its counter at zero.                                        *)
FilesAreCounted == monitor.file_counter >= Len(presence)

(* A lock passes from one pid to another only through an unlock, and while *)
(* a pid owns it no other pid gets a new reference to the file.            *)
LockIsExclusive ==
    [][\A f \in Names : Exists(f) /\ files'[f] # NULL =>
          LET owner == files[f].locked IN
          owner # NoPid =>
              /\ files'[f].locked \in {owner, NoPid}
              /\ \A q \in Pids \ {owner} : files'[f].refs[q] <= files[f].refs[q]]_vars

(* A pid that has a file open and gets its lock, at once or after a wait,  *)
(* is alone in holding references to it (lock_inode, woken by the closes   *)
(* and departures of the others).                                          *)
LockedAlone ==
    [][\A f \in Names : Exists(f) /\ files'[f] # NULL =>
          \A p \in Pids :
              files[f].locked # p /\ files'[f].locked = p /\ files[f].refs[p] > 0
                  => ~HeldByOthers(files'[f], p)]_vars

(* Somebody waiting to lock a file keeps others from opening it, so the    *)
(* set of references it waits for only shrinks.                            *)
WaitedRefsShrink ==
    [][\A p \in Pids : waiting[p] # NULL /\ waiting'[p] # NULL /\ undefined' = "no" =>
          LET f == waiting[p].name IN
          \A q \in Pids \ {p} : files'[f].refs[q] <= files[f].refs[q]]_vars

(* A waiter whose file is held by nobody else gets the lock.               *)
LockableIsLocked ==
    \A p \in Pids :
        waiting[p] # NULL /\ ~MustWait(files[waiting[p].name], p)
            ~> waiting[p] = NULL \/ undefined # "no"
=============================================================================
