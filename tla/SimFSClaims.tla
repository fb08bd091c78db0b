----------------------------- MODULE SimFSClaims -----------------------------
(***************************************************************************)
(* What doc/filesystem.md, the headers and the comments say of the file    *)
(* system and the code does not do.  Each statement is refuted by a run of *)
(* its own, whose counterexample is a sequence of legal calls.             *)
(***************************************************************************)
EXTENDS SimFS

(* The readable content of a file. *)
Content(f) == IF files[f].ptr = NULL THEN <<>> ELSE heap[files[f].ptr]

(* p writes buf through fd, and the flush finds the file. *)
Flushes(p, fd, buf) ==
    /\ Write(p, fd, buf)
    /\ access_error(p, fd) = "ok" /\ Exists(Copy(fd).name)

(* doc/filesystem.md:66-67: while a file is locked, "his reference list    *)
(* contains only the invoking thread".  A pid that holds no reference      *)
(* locks without waiting: has_other_pid_refs answers -1, not 1.            *)
LockedFileIsOwners ==
    \A f \in Names : Exists(f) /\ files[f].locked # NoPid
        => ~HeldByOthers(files[f], files[f].locked)

(* doc/filesystem.md: "If the file is locked, then the writing will fail." *)
(* Write looks at the lock in the copy, which is as old as the descriptor. *)
LockedFileIsNotWritten ==
    [][\A p \in Pids, fd \in Fds, buf \in Payloads :
          Flushes(p, fd, buf) => files[Copy(fd).name].locked \in {NoPid, p}]_vars

(* doc/filesystem.md, closing: "If the file is locked by the invoking      *)
(* thread, then it will be unlocked."  That code is commented out.         *)
CloseUnlocks ==
    [][\A p \in Pids, fd \in Fds :
          Close(p, fd) /\ Exists(Copy(fd).name) => files'[Copy(fd).name].locked # p]_vars

(* doc/filesystem.md: "the filesystem must ensure data integrity across    *)
(* multiple operations by different threads": a write appends to what the  *)
(* file holds.  The flush appends to the content the COPY knows.           *)
WritesAppend ==
    [][\A p \in Pids, fd \in Fds, buf \in Payloads :
          Flushes(p, fd, buf) /\ undefined' = "no" =>
              Content(Copy(fd).name)' = Content(Copy(fd).name) \o Copy(fd).buffer \o buf]_vars

(* gnl_simfs_file_system_read: "Read the whole file".  Reading does not    *)
(* change it.  The artifact of a content of one repeated byte decodes to   *)
(* nothing, and the read that fails on it has already freed it.            *)
ReadKeepsContent ==
    [][\A p \in Pids, fd \in Fds :
          Read(p, fd) \/ ReadNothing(p, fd) =>
              \A f \in Names : Exists(f) => Content(f)' = Content(f)]_vars

(* doc/filesystem.md, locking: "the filesystem will wait until each thread *)
(* closes it [...], then it will lock the file as soon as possible".  An   *)
(* eviction destroys the inode, and the condition variable, under it.      *)
WaitedFileSurvives == undefined # "inode"

(* The comment of compress and decompress in gnl_simfs_inode.c: they work  *)
(* on the original inode "to avoid troubles", so that no freed artifact is *)
(* decoded.  The flush works on a copy.                                    *)
NoFreedArtifactDecoded == undefined # "artifact"

(* The check for pending locks "prevents the occurring of a deadlock"      *)
(* (gnl_simfs_rts_lock_inode).  It looks at one file; two pids that wait   *)
(* for each other's references on two files wait for ever.                 *)
NoMutualWait ==
    undefined = "no" =>
        \A p, q \in Pids : p # q /\ waiting[p] # NULL /\ waiting[q] # NULL =>
            ~(/\ files[waiting[p].name].refs[q] > 0
              /\ files[waiting[q].name].refs[p] > 0)

(* gnl_simfs_file_system_remove_session: "Clean the file descriptor table  *)
(* and unlock the files locked by the given pid."                          *)
SessionIsRemoved ==
    [][\A p \in Pids : RemoveSession(p) =>
          /\ OwnedBy(fdt', p) = {}
          /\ \A f \in Names : files'[f] # NULL => files'[f].locked # p]_vars

(* gnl_simfs_monitor.c: file_counter is "the number of files present into  *)
(* the file system".  Removing a file while no byte is counted misses it.  *)
FilesAreCountedExactly == monitor.file_counter = Len(presence)

(* gnl_simfs_file_table.c: size is "the memory in bytes allocated by the   *)
(* file table".  A flush adds the growth of the copy, not of the file, and *)
(* a read corrects the size of the inode only.                             *)
SizeIsAllocated ==
    undefined = "no" =>
        used = SumFunction([f \in Names |-> IF Exists(f) THEN encode_size(Content(f)) ELSE 0])

(* gnl_simfs_file_system_init: memory_limit is "the maximum memory         *)
(* allocable".  The write compares the size of its chunk, compressed alone *)
(* with the free bytes, not the growth of the file.                        *)
WithinMemoryLimit == used <= memory_limit

(* gnl_simfs_file_system_init: "The replacement policy to adopt in case    *)
(* the file system reaches the given memory_limit or the given file_limit".*)
(* Creating a file over a limit is refused, whatever the policy.           *)
CreateIsNotRefused ==
    replacement_policy # "NONE" =>
        \A p \in Pids, f \in Names : open_error(p, f, TRUE, FALSE) # "EDQUOT"
=============================================================================
