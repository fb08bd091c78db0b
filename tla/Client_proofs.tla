---------------------------- MODULE Client_proofs ----------------------------
(***************************************************************************)
(* For every number of clients, every command line, and every content of   *)
(* the disk: the clients use the file system through its operations only,  *)
(* and what the command line client promises of descriptors and locks      *)
(* holds.                                                                  *)
(***************************************************************************)
EXTENDS Client, SimFS_proofs

(* The options that become commands, and those whose commands make calls.  *)
Runnable == Options \ {"f", "p", "h", "?"}
Calling  == Runnable \ {"t", "D", "d"}

Busy == {"call", "asleep", "writing"}

Clients ==
    [pc : Busy \cup {"off", "idle", "killed", "gone", "dead"},
     line : Seq(Commands), queue : Seq(Commands), cmd : Commands \cup {NULL},
     names : Seq(Names), step : Nat, failed : BOOLEAN, flag : BOOLEAN,
     fds : [Names -> Fds \cup {NULL}]]

(* The other program. *)
IsApi(c) == c.cmd # NULL /\ c.cmd.opt = "api"

OnDisk(list) == \A k \in DOMAIN list : Local[list[k]] # NULL

(* What parse_opt makes of a command line. *)
QueueOK(queue) ==
    \A i \in DOMAIN queue :
        /\ queue[i].opt \in Runnable
        /\ queue[i].opt = "api" => i = Len(queue)
        /\ queue[i].opt \in {"w", "api"} => OnDisk(queue[i].files)

(* The queue is the rest of the line, and the command the one before it. *)
LineOK(c) ==
    /\ QueueOK(c.queue) /\ Len(c.queue) <= Len(c.line)
    /\ \A i \in DOMAIN c.queue : c.queue[i] = c.line[Len(c.line) - Len(c.queue) + i]
    /\ c.cmd # NULL =>
          /\ Len(c.queue) < Len(c.line) /\ c.cmd = c.line[Len(c.line) - Len(c.queue)]
          /\ c.cmd.opt = "api" => c.queue = <<>>

(* A busy client has a file to make the next call of its script for. *)
CallOK(c) ==
    c.pc \in Busy =>
        /\ c.cmd # NULL /\ c.cmd.opt \in Calling /\ c.names # <<>>
        /\ c.cmd.opt # "api" => c.step \in 1..Len(Script(c.cmd))
        /\ c.cmd.opt \in {"w", "W", "api"} => OnDisk(c.names)
        /\ c.cmd.opt = "l" => ToSet(c.names) \subseteq ToSet(c.cmd.files)

(* A client that sleeps in the file system made the call it sleeps in. *)
SleepOK(p) ==
    LET c == client[p]
    IN  /\ waiting[p] # NULL <=> c.pc = "asleep"
        /\ c.pc = "asleep" =>
              /\ Script(c.cmd)[c.step] = IF waiting[p].op = "open" THEN "open_lock" ELSE "lock"
              /\ IsApi(c) \/ waiting[p].name = Name(p)

(* The write that holds the mutex is the call of the client that waits for *)
(* its answer.                                                             *)
WriteOK(p) ==
    LET c == client[p]
    IN  /\ c.pc = "writing" <=> writing # NULL /\ writing.pid = p
        /\ c.pc = "writing" =>
              /\ Script(c.cmd)[c.step] = "write"
              /\ writing.fd = Fd(p) /\ writing.buf = Local[Name(p)]

Owned(p) == {fd \in InUse(fdt) : fdt.table[fd].owner = p}

(* A command line client has the file open that it works on, and no other. *)
DescriptorsOK(p) ==
    LET c == client[p]
    IN  ~IsApi(c) =>
          /\ c.pc \in {"off", "idle", "gone"} => Owned(p) = {}
          /\ c.pc \in Busy =>
                IF c.step = 1 THEN Owned(p) = {}
                ELSE Owned(p) = {Fd(p)} /\ Copy(Fd(p)).name = Name(p)

Holds(p, f) == Exists(f) /\ files[f].locked = p

(* f was locked with -l and not given back since. *)
Asked(p, f) ==
    \E i \in DOMAIN Done(p) :
        /\ Done(p)[i].opt = "l" /\ f \in ToSet(Done(p)[i].files)
        /\ \A j \in i + 1..Len(Done(p)) :
              Done(p)[j].opt \in {"u", "c"} => f \notin ToSet(Done(p)[j].files)

(* The files a -u or -c has still to give back. *)
StillToFree(c) == IF c.step <= 2 THEN ToSet(c.names) ELSE ToSet(Tail(c.names))

(* Why a busy client may own the lock of f: it asked for it, it is about   *)
(* to give it back, or it created f and has not sent it yet.               *)
Reason(p, f) ==
    LET c == client[p]
    IN  \/ Asked(p, f)
        \/ c.cmd.opt \in {"u", "c"} /\ f \in StillToFree(c)
        \/ c.cmd.opt \in {"w", "W"} /\ f = Name(p) /\ c.step \in {2, 3}

LocksOK(p) ==
    LET c == client[p]
    IN  ~IsApi(c) =>
          \A f \in Names : Holds(p, f) =>
              /\ c.pc \notin {"off", "gone"}
              /\ c.pc = "idle" /\ ~c.failed => Asked(p, f)
              /\ c.pc \in Busy /\ (~c.failed \/ c.cmd.opt = "R") => Reason(p, f)

ClientOK(p) ==
    /\ client[p].pc \in {"off", "gone"} => ~IsApi(client[p])
    /\ LineOK(client[p]) /\ CallOK(client[p])
    /\ SleepOK(p) /\ WriteOK(p) /\ DescriptorsOK(p) /\ LocksOK(p)

(* The inductive invariant. *)
CInv ==
    /\ IInv
    /\ client \in [Pids -> Clients] /\ starts \in Nat
    /\ \A p \in Pids : ClientOK(p)
-----------------------------------------------------------------------------
(* What a step of the file system means for a pid.                         *)

SameEntries(p) ==
    /\ Owned(p)' = Owned(p)
    /\ \A fd \in Owned(p) : fdt'.table[fd].inode.name = fdt.table[fd].inode.name

NoNewLock(p) == \A f \in Names : Holds(p, f)' => Holds(p, f)

SameCall(p) ==
    /\ waiting'[p] = NULL <=> waiting[p] = NULL
    /\ waiting[p] # NULL => waiting'[p].name = waiting[p].name /\ waiting'[p].op = waiting[p].op
    /\ (writing' # NULL /\ writing'.pid = p) <=> (writing # NULL /\ writing.pid = p)
    /\ writing # NULL /\ writing.pid = p => writing' = writing

(* A step of others. *)
Unseen(p) == SameEntries(p) /\ NoNewLock(p) /\ SameCall(p)

(* A table that differs in contents only. *)
LEMMA LikeTableSeen ==
    ASSUME NEW q \in Pids, LikeTable(fdt, fdt')
    PROVE  SameEntries(q)
BY DEF LikeTable, SameEntries, Owned

LEMMA LikeFilesSeen ==
    ASSUME NEW q \in Pids, LikeFiles(files, files')
    PROVE  NoNewLock(q)
BY DEF LikeFiles, NoNewLock, Holds, Exists

(* A new descriptor, for p and of f. *)
GotDescriptor(p, f) ==
    LET fd == get_file_descriptor(fdt)
    IN  /\ fd \in Fds /\ fd \notin Owned(p) /\ Owned(p)' = Owned(p) \cup {fd}
        /\ fdt'.table[fd].inode.name = f
        /\ \A i \in Owned(p) : fdt'.table[i] = fdt.table[i]
        /\ \A q \in Pids \ {p} : SameEntries(q)

LEMMA OpenedSeen ==
    ASSUME IInv, NEW p \in Pids, NEW f \in Names, NEW inode \in Inodes,
           fdt.size # MAX_OPEN_FILES, Opened(p, f, inode), clock \in Nat
    PROVE  /\ GotDescriptor(p, f)
           /\ fdt'.table[get_file_descriptor(fdt)].inode = inode_copy(f, inode)
           /\ \A g \in Names \ {f} : files'[g] = files[g]
           /\ files'[f] # NULL /\ files'[f].locked = inode.locked
           /\ \A q \in Pids, g \in Names :
                  Holds(q, g)' => Holds(q, g) \/ (g = f /\ inode.locked = q)
<1> DEFINE e == [owner |-> p, inode |-> inode_copy(f, inode)]
           fd0 == get_file_descriptor(fdt)
<1>0. inode_copy(f, inode) \in Copies /\ inode_copy(f, inode).name = f
  BY DEF inode_copy, Inodes, Copies
<1>1. e \in Entries /\ e # NULL /\ e.owner = p /\ e.inode.name = f /\ e.inode = inode_copy(f, inode)
  BY <1>0, NullAssumption DEF Entries
<1>2. fdt' = fdt_put(fdt, e) /\ files' = [files EXCEPT ![f] = increase_refs(inode, p, clock)]
  BY DEF Opened
<1>3. Tables /\ files \in [Names -> Inodes \cup {NULL}]
  BY DEF IInv, Tables, TypeOK
<1>4. /\ InUse(fdt') = InUse(fdt) \cup {fd0} /\ fdt'.table[fd0] = e
      /\ \A i \in InUse(fdt) : fdt'.table[i] = fdt.table[i]
  BY <1>1, <1>2, <1>3, TableFacts, PutSound
<1>5. fd0 \in Fds /\ fd0 \notin InUse(fdt)
  <2>1. fdt.size \in 0..MAX_OPEN_FILES /\ fd0 \in Nat /\ fd0 <= fdt.size
    BY <1>3, TableFacts, NextIsCounted, SimFSAssumption DEF Tables, TableInLimit
  <2>2. fd0 \notin InUse(fdt)
    BY <1>3, TableFacts, LeastUnusedDescriptor
  <2> QED BY <2>1, <2>2, SimFSAssumption DEF Fds
<1> HIDE DEF e, fd0
<1>6. Owned(p)' = Owned(p) \cup {fd0}
  BY <1>1, <1>4, <1>5 DEF Owned
<1>7. \A q \in Pids \ {p} : SameEntries(q)
  BY <1>1, <1>4, <1>5 DEF Owned, SameEntries
<1>8. GotDescriptor(p, f)
  BY <1>1, <1>4, <1>5, <1>6, <1>7 DEF GotDescriptor, fd0, Owned
<1>9. /\ \A g \in Names \ {f} : files'[g] = files[g]
      /\ files'[f] # NULL /\ files'[f].locked = inode.locked
  <2>1. increase_refs(inode, p, clock) \in Inodes /\ increase_refs(inode, p, clock).locked = inode.locked
    BY InodeRefs
  <2> QED BY <1>2, <1>3, <2>1, NullAssumption
<1> QED BY <1>1, <1>4, <1>8, <1>9 DEF fd0, Holds, Exists

Others(p) == Pids \ {p}

LEMMA TypesOf ==
    ASSUME IInv
    PROVE  /\ Tables /\ clock \in Nat
           /\ files \in [Names -> Inodes \cup {NULL}] /\ waiting \in [Pids -> Waits \cup {NULL}]
           /\ writing \in [pid : Pids, fd : Fds, buf : Payloads] \cup {NULL}
           /\ NULL \notin Inodes /\ NULL \notin Waits
BY SimFSAssumption, NullAssumption DEF IInv, Tables, TypeOK

LEMMA OpenCreateSeen ==
    ASSUME IInv, NEW p \in Pids, NEW f \in Names, NEW lock \in BOOLEAN, OpenCreate(p, f, lock)
    PROVE  /\ GotDescriptor(p, f) /\ SameCall(p) /\ \A q \in Others(p) : Unseen(q)
           /\ \A g \in Names : Holds(p, g)' => Holds(p, g) \/ (lock /\ g = f)
           /\ LET copy == fdt'.table[get_file_descriptor(fdt)].inode
              IN  copy.ptr = NULL /\ copy.buffer = <<>>
<1> DEFINE new == inode_init(clock)
           inode == IF lock THEN file_lock(new, p, clock) ELSE new
<1>1. /\ Opened(p, f, inode) /\ UNCHANGED <<waiting, writing>>
      /\ open_error(p, f, TRUE, lock) = "ok"
  BY DEF OpenCreate
<1>2. fdt.size # MAX_OPEN_FILES
  BY <1>1 DEF open_error
<1>3. clock \in Nat
  BY TypesOf
<1>4. inode \in Inodes /\ inode.locked \in {NoPid, p} /\ (inode.locked = p => lock) /\ inode.ptr = NULL
  <2>1. new \in Inodes /\ new.locked = NoPid /\ new.ptr = NULL
    BY <1>3, InodeInit
  <2>2. CASE lock
    BY <1>3, <2>1, <2>2, InodeLock
  <2>3. CASE ~lock
    BY <2>1, <2>3, NoPidAssumption
  <2> QED BY <2>2, <2>3
<1> HIDE DEF inode
<1>5. /\ GotDescriptor(p, f)
      /\ fdt'.table[get_file_descriptor(fdt)].inode = inode_copy(f, inode)
      /\ \A q \in Pids, g \in Names : Holds(q, g)' => Holds(q, g) \/ (g = f /\ inode.locked = q)
  BY <1>1, <1>2, <1>3, <1>4, OpenedSeen
<1>6. \A q \in Pids : SameCall(q)
  BY <1>1 DEF SameCall
<1>7. inode_copy(f, inode).ptr = NULL /\ inode_copy(f, inode).buffer = <<>>
  BY <1>4 DEF inode_copy
<1> QED BY <1>4, <1>5, <1>6, <1>7, NoPidAssumption DEF Unseen, GotDescriptor, NoNewLock, Others

LEMMA OpenExistingSeen ==
    ASSUME IInv, NEW p \in Pids, NEW f \in Names, NEW lock \in BOOLEAN, OpenExisting(p, f, lock)
    PROVE  /\ GotDescriptor(p, f) /\ SameCall(p) /\ \A q \in Others(p) : Unseen(q)
           /\ \A g \in Names : Holds(p, g)' => Holds(p, g) \/ (lock /\ g = f)
           /\ fdt'.table[get_file_descriptor(fdt)].inode.buffer = <<>>
<1> DEFINE inode == IF NeedsLock(p, f, lock) THEN file_lock(files[f], p, clock) ELSE files[f]
<1>1. /\ Opened(p, f, inode) /\ UNCHANGED <<waiting, writing>>
      /\ open_error(p, f, FALSE, lock) = "ok"
  BY DEF OpenExisting
<1>2. fdt.size # MAX_OPEN_FILES /\ Exists(f)
  BY <1>1 DEF open_error
<1>3. clock \in Nat /\ files[f] \in Inodes
  BY <1>2, TypesOf DEF Exists
<1>4. inode \in Inodes /\ inode.locked = IF NeedsLock(p, f, lock) THEN p ELSE files[f].locked
  BY <1>3, InodeLock
<1>5. NeedsLock(p, f, lock) => lock
  BY DEF NeedsLock
<1> HIDE DEF inode
<1>6. /\ GotDescriptor(p, f)
      /\ fdt'.table[get_file_descriptor(fdt)].inode = inode_copy(f, inode)
      /\ \A q \in Pids, g \in Names : Holds(q, g)' => Holds(q, g) \/ (g = f /\ inode.locked = q)
  BY <1>1, <1>2, <1>3, <1>4, OpenedSeen
<1>7. \A q \in Pids, g \in Names : Holds(q, g)' => Holds(q, g) \/ (g = f /\ lock /\ q = p)
  BY <1>2, <1>4, <1>5, <1>6 DEF Holds
<1>8. \A q \in Pids : SameCall(q)
  BY <1>1 DEF SameCall
<1>9. inode_copy(f, inode).buffer = <<>>
  BY DEF inode_copy
<1> QED BY <1>6, <1>7, <1>8, <1>9 DEF Unseen, GotDescriptor, NoNewLock, Others

(* Lock and open when they wait. *)
LEMMA SleepSeen ==
    ASSUME IInv, NEW p \in Pids, NEW f \in Names, NEW op \in {"open", "lock"},
           Exists(f), Ready(p), Sleep(p, f, op)
    PROVE  /\ SameEntries(p) /\ NoNewLock(p) /\ \A q \in Others(p) : Unseen(q)
           /\ waiting'[p] # NULL /\ waiting'[p].name = f /\ waiting'[p].op = op
           /\ UNCHANGED <<fdt, writing>>
<1>1. /\ files' = [files EXCEPT ![f] = increase_pending_locks(files[f], clock)]
      /\ waiting' = [waiting EXCEPT ![p] = [name |-> f, op |-> op, signalled |-> FALSE]]
      /\ UNCHANGED <<fdt, writing>>
  BY DEF Sleep
<1>2. increase_pending_locks(files[f], clock).locked = files[f].locked
  BY InodePending, TypesOf DEF Exists
<1>3. \A q \in Pids : NoNewLock(q) /\ SameEntries(q)
  BY <1>1, <1>2, TypesOf DEF NoNewLock, Holds, Exists, SameEntries, Owned
<1>4. \A q \in Others(p) : SameCall(q)
  BY <1>1, TypesOf DEF SameCall, Others
<1>5. [name |-> f, op |-> op, signalled |-> FALSE] \in Waits
  BY DEF Waits
<1> QED BY <1>1, <1>3, <1>4, <1>5, TypesOf DEF Unseen, Others

LEMMA OpenWaitsSeen ==
    ASSUME IInv, NEW p \in Pids, NEW f \in Names, OpenWaits(p, f)
    PROVE  /\ SameEntries(p) /\ NoNewLock(p) /\ \A q \in Others(p) : Unseen(q)
           /\ waiting'[p] # NULL /\ waiting'[p].name = f /\ waiting'[p].op = "open"
           /\ UNCHANGED <<fdt, writing>>
<1>1. Exists(f) /\ Ready(p) /\ Sleep(p, f, "open")
  BY DEF OpenWaits, open_error
<1>2. "open" \in {"open", "lock"}
  OBVIOUS
<1> QED BY <1>1, <1>2, SleepSeen

(* The descriptor of a lock, an unlock or a read that is not refused. *)
LEMMA OwnDescriptor ==
    ASSUME IInv, NEW p \in Pids, NEW fd \in Fds, fd_error(p, fd) = "ok"
    PROVE  fd \in Owned(p) /\ Copy(fd).name \in Names /\ Exists(Copy(fd).name)
<1>1. fdt_error(fdt, fd, p) = "ok" /\ Exists(Copy(fd).name)
  BY DEF fd_error
<1>2. fd \in Nat
  BY SimFSAssumption DEF Fds
<1> QED BY <1>1, <1>2, Accepted, TypesOf DEF Owned

LEMMA LockWaitsSeen ==
    ASSUME IInv, NEW p \in Pids, NEW fd \in Fds, LockWaits(p, fd)
    PROVE  /\ SameEntries(p) /\ NoNewLock(p) /\ \A q \in Others(p) : Unseen(q)
           /\ waiting'[p] # NULL /\ waiting'[p].name = Copy(fd).name /\ waiting'[p].op = "lock"
           /\ UNCHANGED <<fdt, writing>>
<1> DEFINE f == Copy(fd).name
<1>1. Ready(p) /\ fd_error(p, fd) = "ok" /\ Sleep(p, f, "lock")
  BY DEF LockWaits, lock_error
<1>2. f \in Names /\ Exists(f)
  BY <1>1, OwnDescriptor
<1>3. "lock" \in {"open", "lock"}
  OBVIOUS
<1> HIDE DEF f
<1> QED BY <1>1, <1>2, <1>3, SleepSeen DEF f

LEMMA LockSeen ==
    ASSUME IInv, NEW p \in Pids, NEW fd \in Fds, Lock(p, fd)
    PROVE  /\ SameEntries(p) /\ SameCall(p) /\ \A q \in Others(p) : Unseen(q)
           /\ \A g \in Names : Holds(p, g)' => Holds(p, g) \/ g = Copy(fd).name
<1> DEFINE f == Copy(fd).name
<1>1. /\ fd_error(p, fd) = "ok" /\ files' = [files EXCEPT ![f] = file_lock(files[f], p, clock)]
      /\ UNCHANGED <<fdt, waiting, writing>>
  BY DEF Lock, lock_error
<1>2. f \in Names /\ Exists(f)
  BY <1>1, OwnDescriptor
<1>3. file_lock(files[f], p, clock).locked = p
  BY <1>2, InodeLock, TypesOf DEF Exists
<1> HIDE DEF f
<1>4. \A q \in Pids, g \in Names : Holds(q, g)' => Holds(q, g) \/ (g = f /\ q = p)
  BY <1>1, <1>2, <1>3, TypesOf DEF Holds, Exists
<1>5. \A q \in Pids : SameEntries(q) /\ SameCall(q)
  BY <1>1 DEF SameEntries, SameCall, Owned
<1> QED BY <1>4, <1>5 DEF Unseen, NoNewLock, Others, f

LEMMA UnlockSeen ==
    ASSUME IInv, NEW p \in Pids, NEW fd \in Fds, Unlock(p, fd)
    PROVE  /\ \A q \in Pids : Unseen(q)
           /\ \A g \in Names : Holds(p, g)' => g # Copy(fd).name
<1> DEFINE f == Copy(fd).name
<1>1. /\ fd_error(p, fd) = "ok" /\ files' = [files EXCEPT ![f] = file_unlock(files[f], clock)]
      /\ UNCHANGED <<fdt, waiting, writing>>
  BY DEF Unlock, unlock_error
<1>2. f \in Names /\ Exists(f)
  BY <1>1, OwnDescriptor
<1>3. file_unlock(files[f], clock).locked = NoPid
  BY <1>2, InodeUnlock, TypesOf DEF Exists
<1> HIDE DEF f
<1>4. \A q \in Pids, g \in Names : Holds(q, g)' => Holds(q, g) /\ g # f
  BY <1>1, <1>2, <1>3, TypesOf, NoPidAssumption DEF Holds, Exists
<1>5. \A q \in Pids : SameEntries(q) /\ SameCall(q)
  BY <1>1 DEF SameEntries, SameCall, Owned
<1> QED BY <1>4, <1>5 DEF Unseen, NoNewLock, f

(* Steps that move contents only. *)
LEMMA DataSeen ==
    ASSUME LikeTable(fdt, fdt'), LikeFiles(files, files'), NEW q \in Pids
    PROVE  SameEntries(q) /\ NoNewLock(q)
BY LikeTableSeen, LikeFilesSeen

LEMMA ReadSeen ==
    ASSUME IInv, NEW p \in Pids, NEW fd \in Fds, Read(p, fd) \/ ReadNothing(p, fd)
    PROVE  \A q \in Pids : Unseen(q)
<1>1. UNCHANGED <<waiting, writing>>
  BY DEF Read, ReadNothing
<1>2. DataStep
  <2>1. CASE Read(p, fd)
    BY <2>1, ReadStep
  <2>2. CASE ReadNothing(p, fd)
    <3>1. fd_error(p, fd) = "ok" /\ FailedRead(Copy(fd).name) /\ UNCHANGED <<used, monitor, undefined>>
      BY <2>2 DEF ReadNothing, read_error, access_error, fd_error
    <3>2. PICK f \in Names : f = Copy(fd).name /\ Exists(f)
      BY <3>1, OwnDescriptor
    <3>3. FailedRead(f)
      BY <3>1, <3>2 DEF FailedRead
    <3> QED BY <3>1, <3>2, <3>3, FailedReadStep
  <2> QED BY <2>1, <2>2
<1>3. \A q \in Pids : SameEntries(q) /\ NoNewLock(q)
  BY <1>2, DataSeen DEF DataStep
<1>4. \A q \in Pids : SameCall(q)
  BY <1>1 DEF SameCall
<1> QED BY <1>3, <1>4 DEF Unseen

LEMMA WriteSeen ==
    ASSUME IInv, NEW p \in Pids, NEW fd \in Fds, NEW buf \in Payloads, Write(p, fd, buf)
    PROVE  \A q \in Pids : Unseen(q)
<1>1. UNCHANGED <<waiting, writing>> /\ undefined = "no" /\ WriteCopy(p, fd, buf)
  BY DEF Write, Ready
<1>2. DataStep
  BY <1>1, WriteCopyStep
<1>3. \A q \in Pids : SameEntries(q) /\ NoNewLock(q)
  BY <1>2, DataSeen DEF DataStep
<1>4. \A q \in Pids : SameCall(q)
  BY <1>1 DEF SameCall
<1> QED BY <1>3, <1>4 DEF Unseen

LEMMA WriteBeginSeen ==
    ASSUME IInv, NEW p \in Pids, NEW fd \in Fds, NEW buf \in Payloads, WriteBegin(p, fd, buf)
    PROVE  /\ SameEntries(p) /\ NoNewLock(p) /\ \A q \in Others(p) : Unseen(q)
           /\ writing' = [pid |-> p, fd |-> fd, buf |-> buf] /\ writing' # NULL
           /\ UNCHANGED <<fdt, waiting>>
<1>1. /\ UNCHANGED <<files, fdt, waiting>> /\ writing = NULL
      /\ writing' = [pid |-> p, fd |-> fd, buf |-> buf]
  BY DEF WriteBegin, table, Ready
<1>3. writing' # NULL
  <2>1. [pid |-> p, fd |-> fd, buf |-> buf] \in [pid : Pids, fd : Fds, buf : Payloads]
    OBVIOUS
  <2> QED BY <1>1, <2>1, NullAssumption
<1>4. \A q \in Pids : SameEntries(q) /\ NoNewLock(q)
  BY <1>1 DEF SameEntries, NoNewLock, Owned, Holds, Exists
<1>5. \A q \in Others(p) : SameCall(q)
  BY <1>1, <1>3 DEF SameCall, Others
<1> QED BY <1>1, <1>3, <1>4, <1>5 DEF Unseen, Others

(* A file that is removed or evicted. *)
LEMMA DestroySeen ==
    ASSUME IInv, NEW f \in Names, Exists(f), NEW n, DestroyFile(f, n)
    PROVE  /\ \A q \in Pids : SameEntries(q) /\ NoNewLock(q)
           /\ \A q \in Pids, g \in Names : Holds(q, g)' => g # f
<1>1. files' = [files EXCEPT ![f] = NULL]
  BY DEF DestroyFile
<1>2. /\ files' \in [Names -> Inodes \cup {NULL}] /\ files'[f] = NULL
      /\ \A g \in Names \ {f} : files'[g] = files[g]
  BY <1>1, TypesOf
<1>3. LikeTable(fdt, fdt')
  BY <1>2, ArtifactFreed DEF DestroyFile
<1> QED BY <1>2, <1>3, LikeTableSeen DEF NoNewLock, Holds, Exists

LEMMA RemoveFileSeen ==
    ASSUME IInv, NEW p \in Pids, NEW f \in Names, RemoveFile(p, f)
    PROVE  /\ \A q \in Pids : Unseen(q)
           /\ \A g \in Names : Holds(p, g)' => g # f
<1>1. Exists(f) /\ UNCHANGED <<waiting, writing>> /\ DestroyFile(f, files[f].size)
  BY DEF RemoveFile, remove_error
<1>2. PICK n : n = files[f].size
  OBVIOUS
<1>3. DestroyFile(f, n)
  BY <1>1, <1>2 DEF DestroyFile
<1>4. \A q \in Pids : SameCall(q)
  BY <1>1 DEF SameCall
<1> QED BY <1>1, <1>3, <1>4, DestroySeen DEF Unseen

(* The loop of a write: it goes on, or ends one way or the other. *)
LEMMA WriteStepSeen ==
    ASSUME IInv, NEW p \in Pids, writing # NULL, writing.pid = p, WriteStep
    PROVE  /\ SameEntries(p) /\ NoNewLock(p) /\ \A q \in Others(p) : Unseen(q)
           /\ waiting' = waiting
           /\ writing' = NULL \/ writing' = writing
<1>1. waiting' = waiting /\ (writing' = NULL \/ writing' = writing)
  BY DEF WriteStep, WriteGivesUp, EvictFails, Evict, WriteEnd
<1>2. \A q \in Pids : SameEntries(q) /\ NoNewLock(q)
  <2>1. CASE WriteGivesUp
    BY <2>1 DEF WriteGivesUp, table, SameEntries, NoNewLock, Owned, Holds, Exists
  <2>2. CASE EvictFails
    <3>1. no_victim_error = "ok" /\ FailedRead(Victim) /\ UNCHANGED <<used, monitor, undefined>>
      BY <2>2 DEF EvictFails
    <3>2. PICK f \in Names : f = Victim /\ Exists(f)
      BY <3>1, VictimExists DEF no_victim_error
    <3>3. FailedRead(f)
      BY <3>1, <3>2 DEF FailedRead
    <3>4. DataStep
      BY <3>1, <3>2, <3>3, FailedReadStep
    <3> QED BY <3>4, DataSeen DEF DataStep
  <2>3. CASE Evict
    <3>1. no_victim_error = "ok" /\ DestroyFile(Victim, encode_size(heap[files[Victim].ptr]))
      BY <2>3 DEF Evict
    <3>2. PICK f \in Names : f = Victim /\ Exists(f)
      BY <3>1, VictimExists DEF no_victim_error
    <3>3. PICK n : n = encode_size(heap[files[Victim].ptr])
      OBVIOUS
    <3>4. DestroyFile(f, n)
      BY <3>1, <3>2, <3>3 DEF DestroyFile
    <3> QED BY <3>2, <3>4, DestroySeen
  <2>4. CASE WriteEnd
    <3>1. undefined = "no" /\ WriteCopy(writing.pid, writing.fd, writing.buf)
      BY <2>4 DEF WriteEnd, InWrite
    <3>2. PICK fd \in Fds, buf \in Payloads : fd = writing.fd /\ buf = writing.buf
      BY TypesOf
    <3>3. WriteCopy(p, fd, buf)
      BY <3>1, <3>2
    <3>4. DataStep
      BY <3>1, <3>3, WriteCopyStep
    <3> QED BY <3>4, DataSeen DEF DataStep
  <2> QED BY <2>1, <2>2, <2>3, <2>4 DEF WriteStep
<1>3. \A q \in Others(p) : SameCall(q)
  BY <1>1 DEF SameCall, Others
<1> QED BY <1>1, <1>2, <1>3 DEF Unseen, Others

(* A signal does not change what is waited for. *)
LEMMA SignalledSeen ==
    ASSUME IInv, NEW f, NEW q \in Pids
    PROVE  /\ Signalled(waiting, f)[q] = NULL <=> waiting[q] = NULL
           /\ waiting[q] # NULL => /\ Signalled(waiting, f)[q].name = waiting[q].name
                                  /\ Signalled(waiting, f)[q].op = waiting[q].op
<1>1. CASE waiting[q] = NULL
  BY <1>1 DEF Signalled
<1>2. CASE waiting[q] # NULL
  <2>1. PICK w \in Waits : w = waiting[q]
    BY <1>2, TypesOf
  <2>2. [w EXCEPT !.signalled = TRUE] \in Waits /\ [w EXCEPT !.signalled = TRUE].name = w.name
        /\ [w EXCEPT !.signalled = TRUE].op = w.op
    BY DEF Waits
  <2> QED BY <1>2, <2>1, <2>2, TypesOf DEF Signalled
<1> QED BY <1>1, <1>2

(* Close takes the descriptor away, and may wake a waiter. *)
LEMMA CloseSeen ==
    ASSUME IInv, NEW p \in Pids, NEW fd \in Fds, Close(p, fd)
    PROVE  /\ NoNewLock(p) /\ SameCall(p) /\ \A q \in Others(p) : Unseen(q)
           /\ fd \in Owned(p) /\ Owned(p)' = Owned(p) \ {fd}
           /\ \A i \in Owned(p) \ {fd} : fdt'.table[i] = fdt.table[i]
<1>1. /\ waiting[p] = NULL /\ fdt_error(fdt, fd, p) = "ok" /\ fdt' = remove_fd(fdt, fd)
      /\ writing' = writing
  BY DEF Close, Ready
<1>2. fd \in Nat /\ clock \in Nat
  BY TypesOf, SimFSAssumption DEF Fds
<1>3. fd \in InUse(fdt) /\ fdt.table[fd].owner = p /\ Copy(fd).name \in Names
  BY <1>1, <1>2, Accepted, TypesOf
<1>4. PICK f \in Names : f = Copy(fd).name
  BY <1>3
<1>5. /\ InUse(fdt') = InUse(fdt) \ {fd}
      /\ \A i \in InUse(fdt') : fdt'.table[i] = fdt.table[i]
  BY <1>1, <1>3, TypesOf, TableFacts, RemoveSound
<1>6. /\ \A q \in Pids : NoNewLock(q)
      /\ waiting' = waiting \/ waiting' = Signalled(waiting, f)
  <2>1. CASE Exists(f) /\ files[f].refs[p] > 0
    <3> DEFINE new == decrease_refs(files[f], p, 1, clock)
    <3>1. /\ files' = [files EXCEPT ![f] = new]
          /\ waiting' = IF Signals(new, p) THEN Signalled(waiting, f) ELSE waiting
      BY <1>4, <2>1 DEF Close
    <3>2. new.locked = files[f].locked
      <4>1. PICK x \in Inodes : x = files[f]
        BY <2>1, TypesOf DEF Exists
      <4>2. PICK n \in 0..x.refs[p] : n = 1
        BY <2>1, <4>1 DEF Inodes
      <4> DEFINE y == decrease_refs(x, p, n, clock)
      <4>3. /\ y \in Inodes /\ y.refs = [x.refs EXCEPT ![p] = x.refs[p] - n]
            /\ y.locked = x.locked /\ y.pending = x.pending
            /\ y.ptr = x.ptr /\ y.btime = x.btime
        BY <1>2, InodeUnref
      <4> HIDE DEF y
      <4>4. y = new
        BY <4>1, <4>2 DEF y
      <4> QED BY <4>1, <4>3, <4>4
    <3> HIDE DEF new
    <3> QED BY <2>1, <3>1, <3>2, TypesOf DEF NoNewLock, Holds, Exists
  <2>2. CASE ~(Exists(f) /\ files[f].refs[p] > 0)
    <3>1. UNCHANGED <<files, waiting>>
      BY <1>4, <2>2 DEF Close
    <3> QED BY <3>1 DEF NoNewLock, Holds, Exists
  <2> QED BY <2>1, <2>2
<1>7. \A q \in Pids : SameCall(q)
  BY <1>1, <1>6, SignalledSeen DEF SameCall
<1>8. \A q \in Others(p) : SameEntries(q)
  BY <1>3, <1>5 DEF SameEntries, Owned, Others
<1> QED BY <1>3, <1>5, <1>6, <1>7, <1>8 DEF Unseen, Owned, Others

(* A call that got its lock after a wait. *)
LEMMA WakeUpSeen ==
    ASSUME IInv, NEW p \in Pids, WakeUp(p)
    PROVE  /\ \A q \in Others(p) : Unseen(q)
           /\ waiting[p] # NULL /\ waiting'[p] = NULL /\ writing = NULL /\ writing' = NULL
           /\ \A g \in Names : Holds(p, g)' => Holds(p, g) \/ g = waiting[p].name
           /\ IF waiting[p].op = "open" /\ fdt.size # MAX_OPEN_FILES
              THEN /\ GotDescriptor(p, waiting[p].name)
                   /\ fdt'.table[get_file_descriptor(fdt)].inode.buffer = <<>>
              ELSE fdt' = fdt
<1>1. /\ undefined = "no" /\ writing = NULL /\ writing' = NULL
      /\ waiting[p] # NULL /\ waiting' = [waiting EXCEPT ![p] = NULL]
  BY DEF WakeUp, Awake
<1>2. PICK f \in Names : f = waiting[p].name
  BY <1>1, TypesOf DEF Waits
<1>3. Exists(f) /\ files[f] \in Inodes /\ clock \in Nat
  BY <1>1, <1>2, TypesOf DEF IInv, Locks, PendingIsOneWaiter, Exists
<1>4. files[f].pending = 1
  <2>1. p \in Waiters(f)
    BY <1>1, <1>2 DEF Waiters
  <2> QED BY <1>1, <1>3, <2>1, PendingCases
<1>5. PICK i \in Inodes : /\ i = decrease_pending_locks(file_lock(files[f], p, clock), clock)
                          /\ i.locked = p
  <2> DEFINE x == file_lock(files[f], p, clock)
             y == decrease_pending_locks(x, clock)
  <2>1. x \in Inodes /\ x.locked = p /\ x.pending = 1
    BY <1>3, <1>4, InodeLock
  <2> HIDE DEF x
  <2>2. y \in Inodes /\ y.locked = x.locked
    BY <1>3, <2>1, InodeNotPending
  <2> HIDE DEF y
  <2> QED BY <2>1, <2>2 DEF x, y
<1>6. IF waiting[p].op = "open" /\ fdt.size # MAX_OPEN_FILES
      THEN Opened(p, f, i) ELSE files' = [files EXCEPT ![f] = i] /\ fdt' = fdt
  BY <1>2, <1>5 DEF WakeUp
<1>7. \A q \in Others(p) : SameCall(q)
  BY <1>1, TypesOf DEF SameCall, Others
<1>8. waiting'[p] = NULL
  BY <1>1, TypesOf
<1>9. CASE waiting[p].op = "open" /\ fdt.size # MAX_OPEN_FILES
  <2>1. /\ GotDescriptor(p, f)
        /\ fdt'.table[get_file_descriptor(fdt)].inode = inode_copy(f, i)
        /\ \A q \in Pids, g \in Names : Holds(q, g)' => Holds(q, g) \/ (g = f /\ i.locked = q)
    BY <1>3, <1>6, <1>9, OpenedSeen
  <2>2. inode_copy(f, i).buffer = <<>>
    BY DEF inode_copy
  <2>3. \A q \in Others(p) : SameEntries(q) /\ NoNewLock(q)
    BY <1>5, <2>1 DEF GotDescriptor, NoNewLock, Others
  <2> QED BY <1>1, <1>2, <1>5, <1>7, <1>8, <1>9, <2>1, <2>2, <2>3 DEF Unseen
<1>10. CASE ~(waiting[p].op = "open" /\ fdt.size # MAX_OPEN_FILES)
  <2>1. files' = [files EXCEPT ![f] = i] /\ fdt' = fdt
    BY <1>6, <1>10
  <2>2. \A q \in Pids, g \in Names : Holds(q, g)' => Holds(q, g) \/ (g = f /\ q = p)
    BY <1>5, <2>1, TypesOf DEF Holds, Exists
  <2>3. \A q \in Others(p) : SameEntries(q) /\ NoNewLock(q)
    BY <2>1, <2>2 DEF SameEntries, Owned, NoNewLock, Others
  <2> QED BY <1>1, <1>2, <1>7, <1>8, <1>10, <2>1, <2>2, <2>3 DEF Unseen
<1> QED BY <1>9, <1>10

(* A waiter that looks again, or is let go for no reason, and the clock. *)
LEMMA QuietSeen ==
    ASSUME IInv, NEW p \in Pids, SleepAgain(p) \/ Spurious(p) \/ Tick \/ UNCHANGED vars
    PROVE  \A q \in Pids : Unseen(q)
<1>1. UNCHANGED <<files, fdt, writing>>
  BY DEF SleepAgain, Spurious, Tick, table, vars
<1>2. \A q \in Pids : SameEntries(q) /\ NoNewLock(q)
  BY <1>1 DEF SameEntries, NoNewLock, Owned, Holds, Exists
<1>3. ASSUME NEW q \in Pids
      PROVE  /\ waiting'[q] = NULL <=> waiting[q] = NULL
             /\ waiting[q] # NULL =>
                   waiting'[q].name = waiting[q].name /\ waiting'[q].op = waiting[q].op
  <2>1. CASE waiting' = waiting
    BY <2>1
  <2>2. CASE waiting' # waiting
    <3>1. PICK b \in BOOLEAN :
             waiting[p] # NULL /\ waiting' = [waiting EXCEPT ![p].signalled = b]
      BY <2>2 DEF SleepAgain, Spurious, Tick, Awake, vars
    <3>2. PICK w \in Waits : w = waiting[p]
      BY <3>1, TypesOf
    <3>3. PICK v \in Waits : v = [w EXCEPT !.signalled = b] /\ v.name = w.name /\ v.op = w.op
      <4> DEFINE v == [w EXCEPT !.signalled = b]
      <4>1. v \in Waits /\ v.name = w.name /\ v.op = w.op
        BY DEF Waits
      <4> QED BY <4>1
    <3>4. waiting' = [waiting EXCEPT ![p] = v]
      BY <3>1, <3>2, <3>3, TypesOf
    <3> QED BY <3>2, <3>3, <3>4, TypesOf
  <2> QED BY <2>1, <2>2
<1> QED BY <1>1, <1>2, <1>3 DEF Unseen, SameCall

(* The lock of a file that a session ends with. *)
LEMMA LeftLock ==
    ASSUME NEW x \in Inodes, NEW p \in Pids, NEW n
    PROVE  /\ decrease_refs(x, p, n, clock).locked = x.locked
           /\ LeaveFile(p, x, n).locked = IF x.locked = p THEN NoPid ELSE x.locked
<1> DEFINE y == decrease_refs(x, p, n, clock)
<1>1. DOMAIN y = DOMAIN x /\ y.locked = x.locked /\ "locked" \in DOMAIN x
  BY DEF decrease_refs, Inodes
<1> HIDE DEF y
<1>2. file_unlock(y, clock).locked = NoPid
  BY <1>1 DEF file_unlock, Inodes
<1> QED BY <1>1, <1>2 DEF y, LeaveFile

LEMMA RemoveSessionSeen ==
    ASSUME IInv, NEW p \in Pids, RemoveSession(p)
    PROVE  /\ NoNewLock(p) /\ SameCall(p) /\ \A q \in Others(p) : Unseen(q)
           /\ Owned(p) = {} => /\ Owned(p)' = {}
                               /\ \A f \in Names : ~Holds(p, f)'
<1> DEFINE Before(f) == \E i \in 1..StopsAt(p) - 1 : i <= Len(presence) /\ presence[i] = f
           At(f)     == StopsAt(p) <= Len(presence) /\ presence[StopsAt(p)] = f
           held(f)   == IF Before(f) THEN Descriptors(p, f)
                        ELSE IF At(f) THEN files[f].refs[p] ELSE 0
<1>1. files' = [f \in Names |-> IF Before(f) THEN LeaveFile(p, files[f], held(f))
                                ELSE IF At(f) THEN decrease_refs(files[f], p, held(f), clock)
                                ELSE files[f]]
  BY DEF RemoveSession
<1>2. waiting' = [q \in Pids |->
                     IF /\ waiting[q] # NULL
                        /\ held(waiting[q].name) > 0
                        /\ Signals(files'[waiting[q].name], p)
                     THEN [waiting[q] EXCEPT !.signalled = TRUE] ELSE waiting[q]]
  BY DEF RemoveSession
<1>3. /\ fdt' = IF StopsAt(p) > Len(presence) THEN fdt_remove_pid(fdt, p) ELSE fdt
      /\ writing' = writing
  BY DEF RemoveSession
<1>4. presence \in Seq(Names) /\ ToSet(presence) = {f \in Names : Exists(f)}
  BY TypesOf DEF Tables, TypeOK, ListMatchesTable
<1>5. StopsAt(p) \in 1..Len(presence) + 1 /\ (StopsAt(p) <= Len(presence) => Short(p, StopsAt(p)))
  <2> DEFINE S == {i \in DOMAIN presence : Short(p, i)} \cup {Len(presence) + 1}
  <2>1. S \in SUBSET Nat /\ S # {} /\ S \subseteq 1..Len(presence) + 1
    BY <1>4
  <2>2. Min(S) \in S
    BY <2>1, MinIsLeast
  <2>3. StopsAt(p) = Min(S)
    BY DEF StopsAt
  <2> QED BY <1>4, <2>1, <2>2, <2>3
<1>6. ASSUME NEW f \in Names, Before(f) \/ At(f)
      PROVE  Exists(f) /\ files[f] \in Inodes
  <2>1. PICK i \in DOMAIN presence : presence[i] = f
    BY <1>4, <1>5, <1>6
  <2> QED BY <1>4, <2>1, TypesOf DEF ToSet, Exists
<1>7. ASSUME NEW f \in Names
      PROVE  /\ Before(f) => files'[f].locked = IF files[f].locked = p THEN NoPid ELSE files[f].locked
             /\ At(f) /\ ~Before(f) => files'[f].locked = files[f].locked
             /\ ~(Before(f) \/ At(f)) => files'[f] = files[f]
  <2>1. ~(Before(f) \/ At(f)) => files'[f] = files[f]
    BY <1>1
  <2>2. CASE Before(f) \/ At(f)
    <3>1. PICK x \in Inodes : x = files[f]
      BY <1>6, <2>2
    <3>2. PICK n : n = held(f)
      OBVIOUS
    <3>3. /\ Before(f) => files'[f] = LeaveFile(p, x, n)
          /\ At(f) /\ ~Before(f) => files'[f] = decrease_refs(x, p, n, clock)
      <4> HIDE DEF Before, At, held
      <4> QED BY <1>1, <3>1, <3>2
    <3> HIDE DEF Before, At
    <3> QED BY <2>2, <3>1, <3>3, LeftLock
  <2> QED BY <2>1, <2>2
<1> HIDE DEF held
<1>8. \A q \in Pids : NoNewLock(q)
  <2> SUFFICES ASSUME NEW q \in Pids, NEW f \in Names, Holds(q, f)' PROVE Holds(q, f)
    BY DEF NoNewLock
  <2>1. CASE Before(f) \/ At(f)
    BY <1>6, <1>7, <2>1, NoPidAssumption DEF Holds, Exists
  <2>2. CASE ~(Before(f) \/ At(f))
    BY <1>7, <2>2 DEF Holds, Exists
  <2> QED BY <2>1, <2>2
<1>9. ASSUME NEW q \in Pids PROVE SameCall(q)
  <2>1. CASE waiting[q] = NULL
    BY <1>2, <1>3, <2>1 DEF SameCall
  <2>2. CASE waiting[q] # NULL
    <3>1. PICK w \in Waits : w = waiting[q]
      BY <2>2, TypesOf
    <3> DEFINE v == [w EXCEPT !.signalled = TRUE]
    <3>2. v \in Waits /\ v.name = w.name /\ v.op = w.op
      BY DEF Waits
    <3>3. waiting'[q] = v \/ waiting'[q] = w
      BY <1>2, <3>1
    <3> HIDE DEF v
    <3> QED BY <1>3, <2>2, <3>1, <3>2, <3>3, TypesOf DEF SameCall
  <2> QED BY <2>1, <2>2
<1>10. /\ \A i \in InUse(fdt') : i \in InUse(fdt) /\ fdt'.table[i] = fdt.table[i]
       /\ \A i \in InUse(fdt) : fdt.table[i].owner # p => i \in InUse(fdt')
  <2>1. CASE StopsAt(p) > Len(presence)
    BY <1>3, <2>1, RemovePidSound, TypesOf, TableFacts
  <2>2. CASE ~(StopsAt(p) > Len(presence))
    BY <1>3, <2>2
  <2> QED BY <2>1, <2>2
<1>11. \A q \in Others(p) : SameEntries(q)
  BY <1>10 DEF SameEntries, Owned, Others
<1>12. ASSUME Owned(p) = {} PROVE Owned(p)' = {} /\ \A f \in Names : ~Holds(p, f)'
  <2>1. Owned(p)' = {}
    BY <1>10, <1>12 DEF Owned
  <2>2. \A f \in Names : Descriptors(p, f) = 0
    <3>1. \A f \in Names : Slots(fdt, p, f) = {}
      BY <1>12 DEF Slots, Owned
    <3> QED BY <3>1, SlotsCounted, TypesOf, TableFacts, FS_EmptySet DEF Descriptors
  <2>3. StopsAt(p) = Len(presence) + 1
    <3>1. ASSUME StopsAt(p) <= Len(presence) PROVE FALSE
      <4>1. PICK f \in Names : f = presence[StopsAt(p)]
        BY <1>4, <1>5, <3>1
      <4>2. Exists(f) /\ files[f].refs[p] \in Nat
        <5>1. StopsAt(p) \in DOMAIN presence
          BY <1>4, <1>5, <3>1
        <5>2. Exists(f)
          BY <1>4, <4>1, <5>1 DEF ToSet
        <5> QED BY <5>2, TypesOf DEF Exists, Inodes
      <4> QED BY <1>5, <2>2, <3>1, <4>1, <4>2 DEF Short
    <3> QED BY <1>4, <1>5, <3>1
  <2>4. ASSUME NEW f \in Names, Holds(p, f)' PROVE FALSE
    <3>1. Exists(f)
      BY <1>8, <2>4 DEF NoNewLock, Holds
    <3>2. PICK i \in DOMAIN presence : presence[i] = f
      BY <1>4, <3>1 DEF ToSet
    <3>3. Before(f)
      BY <1>4, <2>3, <3>2
    <3>4. files'[f].locked # p
      BY <1>7, <3>3, NoPidAssumption
    <3> QED BY <2>4, <3>4 DEF Holds
  <2> QED BY <2>1, <2>4
<1> QED BY <1>8, <1>9, <1>11, <1>12 DEF Unseen, Others
-----------------------------------------------------------------------------
(* What the definitions of the client say.                                 *)

(* A client that neither the step nor its effects are about. *)
LEMMA Bystander ==
    ASSUME CInv, NEW q \in Pids, Unseen(q), client'[q] = client[q]
    PROVE  ClientOK(q)'
<1> DEFINE c == client[q]
<1>1. ClientOK(q) /\ c \in Clients
  BY DEF CInv
<1>2. LineOK(c) /\ CallOK(c)
  BY <1>1 DEF ClientOK
<1>3. LineOK(client'[q]) /\ CallOK(client'[q])
  BY <1>2
<1>4. SleepOK(q)'
  BY <1>1 DEF ClientOK, SleepOK, Unseen, SameCall, Name, IsApi
<1>5. WriteOK(q)'
  BY <1>1 DEF ClientOK, WriteOK, Unseen, SameCall, Name, Fd
<1>6. DescriptorsOK(q)'
  BY <1>1 DEF ClientOK, DescriptorsOK, Unseen, SameEntries, Name, Fd, IsApi, Copy, fdt_get
<1>7. LocksOK(q)'
  <2>1. Done(q)' = Done(q) /\ \A f : Asked(q, f)' <=> Asked(q, f)
    BY DEF Done, Asked
  <2>2. \A f : Reason(q, f)' <=> Reason(q, f)
    BY <2>1 DEF Reason, Name
  <2> QED BY <1>1, <2>1, <2>2 DEF ClientOK, LocksOK, Unseen, NoNewLock, IsApi
<1> QED BY <1>1, <1>3, <1>4, <1>5, <1>6, <1>7 DEF ClientOK

(* A step of p. *)
LEMMA StepOf ==
    ASSUME CInv, IInv', NEW p \in Pids, NEW d \in Clients, client' = [client EXCEPT ![p] = d],
           starts' \in Nat, \A q \in Others(p) : Unseen(q), ClientOK(p)'
    PROVE  CInv'
<1>1. /\ client' \in [Pids -> Clients] /\ client'[p] = d
      /\ \A q \in Others(p) : client'[q] = client[q]
  BY DEF CInv, Others
<1>2. \A q \in Others(p) : ClientOK(q)'
  BY <1>1, Bystander DEF Others
<1> QED BY <1>1, <1>2 DEF CInv, Others

(* The scripts of the commands. *)
LEMMA Scripts ==
    ASSUME NEW cmd, cmd.opt \in Calling \ {"api"}
    PROVE  Script(cmd) = CASE cmd.opt \in {"w", "W"} -> send_file
                           [] cmd.opt = "c"          -> remove_file
                           [] cmd.opt = "l"          -> lock_file
                           [] cmd.opt = "u"          -> unlock_file
                           [] cmd.opt \in {"r", "R"} -> read_file
BY DEF Script, Calling, Runnable, Options

(* The place of a call in its script. *)
LEMMA ScriptShape ==
    ASSUME NEW cmd, cmd.opt \in Calling \ {"api"}, NEW step \in 1..Len(Script(cmd))
    PROVE  LET s == Script(cmd)[step]
               n == Len(Script(cmd))
           IN  /\ n \in {3, 4} /\ (n = 4 <=> cmd.opt \in {"w", "W"})
               /\ s \in {"open_create", "open_lock", "open"} <=> step = 1
               /\ s = "close" <=> step = n
               /\ s = "open_create" => cmd.opt \in {"w", "W"}
               /\ s = "open_lock" => cmd.opt = "c"
               /\ s = "open" => cmd.opt \in {"l", "u", "r", "R"}
               /\ s = "write" => cmd.opt \in {"w", "W"}
               /\ s = "lock" => cmd.opt = "l"
               /\ s \in {"remove", "unlock"} <=>
                     (cmd.opt \in {"u", "c"} /\ step = 2) \/ (cmd.opt \in {"w", "W"} /\ step = 3)
<1>1. CASE cmd.opt \in {"w", "W"}
  <2>1. Script(cmd) = send_file
    BY <1>1, Scripts
  <2> QED BY <1>1, <2>1 DEF send_file
<1>2. CASE cmd.opt = "c"
  <2>1. Script(cmd) = remove_file
    BY <1>2, Scripts
  <2> QED BY <1>2, <2>1 DEF remove_file
<1>3. CASE cmd.opt = "l"
  <2>1. Script(cmd) = lock_file
    BY <1>3, Scripts
  <2> QED BY <1>3, <2>1 DEF lock_file
<1>4. CASE cmd.opt = "u"
  <2>1. Script(cmd) = unlock_file
    BY <1>4, Scripts
  <2> QED BY <1>4, <2>1 DEF unlock_file
<1>5. CASE cmd.opt \in {"r", "R"}
  <2>1. Script(cmd) = read_file
    BY <1>5, Scripts
  <2> QED BY <1>5, <2>1 DEF read_file
<1> QED BY <1>1, <1>2, <1>3, <1>4, <1>5 DEF Calling, Runnable, Options

(* A client that is ready for its next call, command or file. *)
LEMMA ClientParts ==
    ASSUME NEW c \in Clients
    PROVE  /\ c.line \in Seq(Commands) /\ c.queue \in Seq(Commands)
           /\ c.cmd \in Commands \cup {NULL} /\ c.names \in Seq(Names) /\ c.step \in Nat
           /\ c.failed \in BOOLEAN /\ c.flag \in BOOLEAN /\ c.fds \in [Names -> Fds \cup {NULL}]
BY DEF Clients

(* The client after a call: it gave up, goes on with the file, is done     *)
(* with the command, or goes on with the next file.                        *)
LEMMA AfterCases ==
    ASSUME NEW c \in Clients, NEW ok \in BOOLEAN, c.names # <<>>
    PROVE  LET d == After(c, ok)
               n == Len(Script(c.cmd))
               last == ~SkipsTheRest(c, ok) /\ ~(c.step < n)
           IN  /\ d \in Clients
               /\ d.line = c.line /\ d.queue = c.queue /\ d.cmd = c.cmd
               /\ d.flag = c.flag /\ d.fds = c.fds
               /\ \/ SkipsTheRest(c, ok) /\ d.pc = "idle" /\ d.failed /\ d.names = <<>>
                  \/ /\ ~SkipsTheRest(c, ok) /\ c.step < n
                     /\ d.pc = "call" /\ d.names = c.names /\ d.step = c.step + 1
                     /\ d.failed <=> c.failed \/ ~ok
                  \/ /\ last /\ d.pc = "idle" /\ d.names = <<>>
                     /\ d.failed <=> (c.failed \/ ~ok) /\ c.cmd.opt # "R"
                     /\ c.failed \/ ~ok \/ Len(c.names) = 1
                  \/ /\ last /\ d.pc = "call" /\ d.names = Tail(c.names) /\ d.step = 1
                     /\ Len(c.names) # 1 /\ d.failed = c.failed /\ ~c.failed /\ ok
<1> DEFINE n == Len(Script(c.cmd))
<1>0. c.names \in Seq(Names) /\ c.step \in Nat /\ c.failed \in BOOLEAN
  BY ClientParts
<1>1. ASSUME NEW failed \in BOOLEAN
      PROVE  LET d == Ended(c, failed)
             IN  /\ d \in Clients /\ d.line = c.line /\ d.queue = c.queue /\ d.cmd = c.cmd
                 /\ d.flag = c.flag /\ d.fds = c.fds
                 /\ d.pc = "idle" /\ d.names = <<>> /\ d.failed = failed
  <2>0. <<>> \in Seq(Names)
    OBVIOUS
  <2>1. PICK none \in Seq(Names) : none = <<>>
    BY <2>0
  <2> DEFINE d == [c EXCEPT !.pc = "idle", !.names = none, !.failed = failed]
  <2>2. d = Ended(c, failed)
    BY <2>1 DEF Ended
  <2>3. /\ d \in Clients /\ d.line = c.line /\ d.queue = c.queue /\ d.cmd = c.cmd
        /\ d.flag = c.flag /\ d.fds = c.fds
        /\ d.pc = "idle" /\ d.names = none /\ d.failed = failed
    BY DEF Clients
  <2> QED BY <2>1, <2>2, <2>3
<1>2. CASE SkipsTheRest(c, ok)
  <2>1. After(c, ok) = Ended(c, TRUE)
    BY <1>2 DEF After
  <2> QED BY <1>1, <1>2, <2>1
<1>3. CASE ~SkipsTheRest(c, ok) /\ c.step < n
  <2>0. (c.failed \/ ~ok) \in BOOLEAN /\ c.step + 1 \in Nat
    BY <1>0
  <2>1. PICK m \in Nat, failed \in BOOLEAN : m = c.step + 1 /\ failed = (c.failed \/ ~ok)
    BY <2>0, Zenon
  <2> DEFINE e == [c EXCEPT !.pc = "call", !.step = m, !.failed = failed]
  <2>2. After(c, ok) = e
    BY <1>3, <2>1 DEF After
  <2>3. /\ e \in Clients /\ e.line = c.line /\ e.queue = c.queue /\ e.cmd = c.cmd
        /\ e.flag = c.flag /\ e.fds = c.fds /\ e.names = c.names
        /\ e.pc = "call" /\ e.step = m /\ e.failed = failed
    BY DEF Clients, Busy
  <2> HIDE DEF e
  <2> QED BY <1>3, <2>1, <2>2, <2>3
<1>4. CASE ~SkipsTheRest(c, ok) /\ ~(c.step < n) /\ (c.failed \/ ~ok)
  <2>1. PICK failed \in BOOLEAN : failed = (c.cmd.opt # "R") /\ (failed <=> c.cmd.opt # "R")
    OBVIOUS
  <2>2. After(c, ok) = Ended(c, failed)
    BY <1>4, <2>1 DEF After
  <2> QED BY <1>1, <1>4, <2>1, <2>2
<1>5. CASE ~SkipsTheRest(c, ok) /\ ~(c.step < n) /\ ~(c.failed \/ ~ok) /\ Len(c.names) = 1
  <2>1. After(c, ok) = Ended(c, FALSE)
    BY <1>5 DEF After, NextFile
  <2> QED BY <1>1, <1>5, <2>1
<1>6. CASE ~SkipsTheRest(c, ok) /\ ~(c.step < n) /\ ~(c.failed \/ ~ok) /\ Len(c.names) # 1
  <2>0. Tail(c.names) \in Seq(Names)
    BY <1>0
  <2>1. PICK names \in Seq(Names) : names = Tail(c.names)
    BY <2>0
  <2> DEFINE e == [c EXCEPT !.pc = "call", !.names = names, !.step = 1]
  <2>2. After(c, ok) = e
    BY <1>6, <2>1 DEF After, NextFile
  <2>3. /\ e \in Clients /\ e.line = c.line /\ e.queue = c.queue /\ e.cmd = c.cmd
        /\ e.flag = c.flag /\ e.fds = c.fds /\ e.names = names
        /\ e.pc = "call" /\ e.step = 1 /\ e.failed = c.failed
    BY DEF Clients, Busy
  <2> HIDE DEF e
  <2> QED BY <1>6, <2>1, <2>2, <2>3
<1> QED BY <1>2, <1>3, <1>4, <1>5, <1>6

(* The rest of a list. *)
LEMMA TailFacts ==
    ASSUME NEW S, NEW s \in Seq(S), s # <<>>
    PROVE  /\ Tail(s) \in Seq(S) /\ Head(s) \in S /\ Head(s) \in ToSet(s)
           /\ Len(s) \in Nat /\ Len(Tail(s)) = Len(s) - 1
           /\ \A i \in DOMAIN Tail(s) : i + 1 \in DOMAIN s /\ Tail(s)[i] = s[i + 1]
           /\ ToSet(Tail(s)) \subseteq ToSet(s)
           /\ \A x \in ToSet(s) : x = Head(s) \/ x \in ToSet(Tail(s))
           /\ Len(s) = 1 => ToSet(Tail(s)) = {}
           /\ Len(s) # 1 => Tail(s) # <<>>
<1>1. PICK t \in Seq(S) : t = Tail(s) /\ Len(t) = Len(s) - 1
  <2>1. Tail(s) \in Seq(S) /\ Len(Tail(s)) = Len(s) - 1
    OBVIOUS
  <2> QED BY <2>1
<1>2. \A i \in 1..Len(s) - 1 : t[i] = s[i + 1]
  BY <1>1
<1>3. \A i \in DOMAIN t : i + 1 \in DOMAIN s /\ t[i] = s[i + 1]
  BY <1>1, <1>2
<1>4. ASSUME NEW x \in ToSet(s) PROVE x = Head(s) \/ x \in ToSet(t)
  <2>1. PICK i \in DOMAIN s : s[i] = x
    BY DEF ToSet
  <2>2. CASE i = 1
    BY <2>1, <2>2
  <2>3. CASE i # 1
    <3>1. i - 1 \in DOMAIN t /\ t[i - 1] = x
      BY <1>1, <1>2, <2>1, <2>3
    <3> QED BY <3>1 DEF ToSet
  <2> QED BY <2>2, <2>3
<1>5. ToSet(t) \subseteq ToSet(s)
  BY <1>3 DEF ToSet
<1>6. Len(s) = 1 => ToSet(t) = {}
  BY <1>1 DEF ToSet
<1>7. Head(s) \in S /\ Head(s) \in ToSet(s) /\ (Len(s) # 1 => t # <<>>) /\ Len(s) \in Nat
  <2>1. 1 \in DOMAIN s /\ s[1] = Head(s)
    OBVIOUS
  <2>3. Len(s) \in Nat /\ Len(s) # 0
    OBVIOUS
  <2>4. Len(<<>>) = 0
    OBVIOUS
  <2>2. Len(s) # 1 => t # <<>>
    <3> SUFFICES ASSUME t = <<>> PROVE Len(s) = 1
      OBVIOUS
    <3>1. Len(t) = 0
      BY <2>4
    <3> QED BY <1>1, <2>3, <3>1
  <2> QED BY <2>1, <2>2 DEF ToSet
<1> QED BY <1>1, <1>3, <1>4, <1>5, <1>6, <1>7

(* The reasons that are left after a call that worked. *)
ReasonAfter(p, f) ==
    LET c == client[p]
    IN  \/ Asked(p, f)
        \/ /\ c.cmd.opt \in {"u", "c"}
           /\ f \in IF c.step = 1 THEN ToSet(c.names) ELSE ToSet(Tail(c.names))
        \/ c.cmd.opt \in {"w", "W"} /\ f = Name(p) /\ c.step \in {1, 2}

(* Only unlock and remove take a reason away, the one for their own file. *)
LEMMA ReasonKept ==
    ASSUME CInv, NEW p \in Pids, client[p].pc \in Busy, ~IsApi(client[p]), NEW f \in Names,
           Reason(p, f),
           f # Name(p) \/ Script(client[p].cmd)[client[p].step] \notin {"remove", "unlock"}
    PROVE  ReasonAfter(p, f)
<1> DEFINE c == client[p]
<1>1. c \in Clients /\ CallOK(c)
  BY DEF CInv, ClientOK
<1>2. /\ c.cmd # NULL /\ c.cmd.opt \in Calling \ {"api"} /\ c.names # <<>>
      /\ c.step \in 1..Len(Script(c.cmd)) /\ c.names \in Seq(Names)
  BY <1>1, ClientParts DEF CallOK, IsApi
<1>3. ASSUME f \in ToSet(c.names), f # Name(p) PROVE f \in ToSet(Tail(c.names))
  BY <1>2, <1>3, TailFacts DEF Name
<1>4. Script(c.cmd)[c.step] \in {"remove", "unlock"} <=>
          (c.cmd.opt \in {"u", "c"} /\ c.step = 2) \/ (c.cmd.opt \in {"w", "W"} /\ c.step = 3)
  <2>1. PICK cmd, step : cmd = c.cmd /\ step = c.step
    OBVIOUS
  <2>2. cmd.opt \in Calling \ {"api"} /\ step \in 1..Len(Script(cmd))
    BY <1>2, <2>1
  <2> QED BY <2>1, <2>2, ScriptShape
<1>5. c.step \in Nat /\ c.step >= 1
  BY <1>1, <1>2, ClientParts
<1> QED BY <1>3, <1>4, <1>5 DEF Reason, ReasonAfter, StillToFree

(* What a call leaves to a client of the command line: the file is open    *)
(* after the first call that worked and until the last, and every lock     *)
(* still has its reason.                                                   *)
Proceeds(p, fds, ok) ==
    LET c    == client[p]
        open == IF c.step = 1 THEN ok ELSE c.step < Len(Script(c.cmd))
    IN  /\ IF open THEN /\ Owned(p)' = {fds[Name(p)]}
                        /\ fdt'.table[fds[Name(p)]].inode.name = Name(p)
           ELSE Owned(p)' = {}
        /\ (ok /\ ~c.failed) \/ c.cmd.opt = "R" =>
              \A f \in Names : Holds(p, f)' => ReasonAfter(p, f)

LEMMA Proceeding ==
    ASSUME CInv, IInv', NEW p \in Pids, client[p].pc \in Busy, NEW ok \in BOOLEAN,
           NEW flag \in BOOLEAN, NEW fds \in [Names -> Fds \cup {NULL}],
           client' = [client EXCEPT ![p] = After([client[p] EXCEPT !.flag = flag, !.fds = fds], ok)],
           starts' = starts, \A q \in Others(p) : Unseen(q),
           waiting'[p] = NULL, ~(writing' # NULL /\ writing'.pid = p),
           ~IsApi(client[p]) => Proceeds(p, fds, ok)
    PROVE  CInv'
<1> DEFINE b == client[p]
           n == Len(Script(b.cmd))
<1>1. b \in Clients /\ LineOK(b) /\ CallOK(b)
  BY DEF CInv, ClientOK
<1>2. PICK c \in Clients :
          /\ c = [b EXCEPT !.flag = flag, !.fds = fds]
          /\ c.pc = b.pc /\ c.line = b.line /\ c.queue = b.queue /\ c.cmd = b.cmd
          /\ c.names = b.names /\ c.step = b.step /\ c.failed = b.failed /\ c.fds = fds
  <2> DEFINE e == [b EXCEPT !.flag = flag, !.fds = fds]
  <2>1. /\ e \in Clients
        /\ e.pc = b.pc /\ e.line = b.line /\ e.queue = b.queue /\ e.cmd = b.cmd
        /\ e.names = b.names /\ e.step = b.step /\ e.failed = b.failed /\ e.fds = fds
    BY <1>1 DEF Clients
  <2> QED BY <2>1
<1>3. /\ b.cmd # NULL /\ b.cmd.opt \in Calling /\ b.names # <<>> /\ b.names \in Seq(Names)
      /\ b.step \in Nat /\ b.pc \in Busy
  BY <1>1, ClientParts DEF CallOK
<1>4. ~IsApi(b) => /\ b.cmd.opt \in Calling \ {"api"} /\ b.step \in 1..n /\ n \in {3, 4}
                   /\ (n = 4 <=> b.cmd.opt \in {"w", "W"})
  <2> HAVE ~IsApi(b)
  <2>1. PICK cmd, step : cmd = b.cmd /\ step = b.step
    OBVIOUS
  <2>2. cmd.opt \in Calling \ {"api"} /\ step \in 1..Len(Script(cmd))
    BY <1>1, <1>3, <2>1 DEF CallOK, IsApi
  <2>3. Len(Script(cmd)) \in {3, 4} /\ (Len(Script(cmd)) = 4 <=> cmd.opt \in {"w", "W"})
    BY <2>2, ScriptShape
  <2> QED BY <2>1, <2>2, <2>3
<1>5. SkipsTheRest(c, ok) <=> b.step = 1 /\ ~ok
  BY <1>2 DEF SkipsTheRest
<1>16. /\ Tail(b.names) \in Seq(Names) /\ ToSet(Tail(b.names)) \subseteq ToSet(b.names)
       /\ \A i \in DOMAIN Tail(b.names) : i + 1 \in DOMAIN b.names /\ Tail(b.names)[i] = b.names[i + 1]
       /\ Len(b.names) = 1 => ToSet(Tail(b.names)) = {}
       /\ Len(b.names) # 1 => Tail(b.names) # <<>>
  BY <1>3, TailFacts
<1>17. ~IsApi(b) =>
          /\ IF IF b.step = 1 THEN ok ELSE b.step < n
             THEN /\ Owned(p)' = {fds[Head(b.names)]}
                  /\ fdt'.table[fds[Head(b.names)]].inode.name = Head(b.names)
             ELSE Owned(p)' = {}
          /\ (ok /\ ~b.failed) \/ b.cmd.opt = "R" =>
                \A f \in Names : Holds(p, f)' =>
                   \/ Asked(p, f)
                   \/ /\ b.cmd.opt \in {"u", "c"}
                      /\ f \in IF b.step = 1 THEN ToSet(b.names) ELSE ToSet(Tail(b.names))
                   \/ b.cmd.opt \in {"w", "W"} /\ f = Head(b.names) /\ b.step \in {1, 2}
  BY DEF Proceeds, ReasonAfter, Name
<1>6. PICK d \in Clients :
        /\ client' = [client EXCEPT ![p] = d]
        /\ d.line = b.line /\ d.queue = b.queue /\ d.cmd = b.cmd /\ d.fds = fds
        /\ \/ b.step = 1 /\ ~ok /\ d.pc = "idle" /\ d.failed /\ d.names = <<>>
           \/ /\ ~(b.step = 1 /\ ~ok) /\ b.step < n
              /\ d.pc = "call" /\ d.names = b.names /\ d.step = b.step + 1
              /\ d.failed <=> b.failed \/ ~ok
           \/ /\ ~(b.step = 1 /\ ~ok) /\ ~(b.step < n) /\ d.pc = "idle" /\ d.names = <<>>
              /\ d.failed <=> (b.failed \/ ~ok) /\ b.cmd.opt # "R"
              /\ b.failed \/ ~ok \/ Len(b.names) = 1
           \/ /\ ~(b.step = 1 /\ ~ok) /\ ~(b.step < n)
              /\ d.pc = "call" /\ d.names = Tail(b.names) /\ d.step = 1
              /\ Len(b.names) # 1 /\ d.failed = b.failed /\ ~b.failed /\ ok
  <2> DEFINE d == After(c, ok)
  <2>1. c.names # <<>>
    BY <1>2, <1>3
  <2>2. /\ d \in Clients
        /\ d.line = c.line /\ d.queue = c.queue /\ d.cmd = c.cmd /\ d.fds = c.fds
        /\ \/ SkipsTheRest(c, ok) /\ d.pc = "idle" /\ d.failed /\ d.names = <<>>
           \/ /\ ~SkipsTheRest(c, ok) /\ c.step < Len(Script(c.cmd))
              /\ d.pc = "call" /\ d.names = c.names /\ d.step = c.step + 1
              /\ d.failed <=> c.failed \/ ~ok
           \/ /\ ~SkipsTheRest(c, ok) /\ ~(c.step < Len(Script(c.cmd)))
              /\ d.pc = "idle" /\ d.names = <<>>
              /\ d.failed <=> (c.failed \/ ~ok) /\ c.cmd.opt # "R"
              /\ c.failed \/ ~ok \/ Len(c.names) = 1
           \/ /\ ~SkipsTheRest(c, ok) /\ ~(c.step < Len(Script(c.cmd)))
              /\ d.pc = "call" /\ d.names = Tail(c.names) /\ d.step = 1
              /\ Len(c.names) # 1 /\ d.failed = c.failed /\ ~c.failed /\ ok
    BY <2>1, AfterCases
  <2>3. client' = [client EXCEPT ![p] = d]
    BY <1>2
  <2> HIDE DEF d
  <2>4. \/ b.step = 1 /\ ~ok /\ d.pc = "idle" /\ d.failed /\ d.names = <<>>
        \/ /\ ~(b.step = 1 /\ ~ok) /\ b.step < n
           /\ d.pc = "call" /\ d.names = b.names /\ d.step = b.step + 1
           /\ d.failed <=> b.failed \/ ~ok
        \/ /\ ~(b.step = 1 /\ ~ok) /\ ~(b.step < n) /\ d.pc = "idle" /\ d.names = <<>>
           /\ d.failed <=> (b.failed \/ ~ok) /\ b.cmd.opt # "R"
           /\ b.failed \/ ~ok \/ Len(b.names) = 1
        \/ /\ ~(b.step = 1 /\ ~ok) /\ ~(b.step < n)
           /\ d.pc = "call" /\ d.names = Tail(b.names) /\ d.step = 1
           /\ Len(b.names) # 1 /\ d.failed = b.failed /\ ~b.failed /\ ok
    BY <1>2, <1>5, <2>2
  <2> QED BY <1>2, <2>2, <2>3, <2>4
<1>7. client'[p] = d
  BY <1>6 DEF CInv
<1>18. Done(p)' = Done(p)
  BY <1>6, <1>7 DEF Done
<1> HIDE DEF b, n
<1>8. LineOK(d)
  BY <1>1, <1>6 DEF LineOK
<1>9. CallOK(d) /\ d.pc \in {"idle", "call"}
  <2>1. d.pc \in {"idle", "call"}
    BY <1>6
  <2>2. CASE d.pc = "idle"
    BY <2>1, <2>2 DEF CallOK, Busy
  <2>3. CASE d.pc = "call" /\ d.names = b.names /\ d.step = b.step + 1 /\ b.step < n
    <3>1. ~IsApi(b) => d.step \in 1..n
      BY <1>3, <1>4, <2>3
    <3> QED BY <1>1, <1>3, <1>6, <2>3, <3>1 DEF CallOK, IsApi, n
  <2>4. CASE d.pc = "call" /\ d.names = Tail(b.names) /\ Len(b.names) # 1 /\ d.step = 1
    <3>1. /\ d.names # <<>> /\ ToSet(d.names) \subseteq ToSet(b.names)
          /\ OnDisk(b.names) => OnDisk(d.names)
      BY <1>16, <2>4 DEF OnDisk
    <3>2. ~IsApi(b) => d.step \in 1..n
      BY <1>4, <2>4
    <3> QED BY <1>1, <1>3, <1>6, <2>4, <3>1, <3>2 DEF CallOK, IsApi, n
  <2> QED BY <1>6, <2>2, <2>3, <2>4
<1>10. SleepOK(p)' /\ WriteOK(p)'
  BY <1>7, <1>9 DEF SleepOK, WriteOK
<1>11. IsApi(d) <=> IsApi(b)
  BY <1>6 DEF IsApi
<1>12. DescriptorsOK(p)'
  <2> SUFFICES ASSUME ~IsApi(d)
               PROVE  /\ d.pc = "idle" => Owned(p)' = {}
                      /\ d.pc = "call" =>
                            IF d.step = 1 THEN Owned(p)' = {}
                            ELSE /\ Owned(p)' = {fds[Head(d.names)]}
                                 /\ fdt'.table[fds[Head(d.names)]].inode.name = Head(d.names)
    BY <1>6, <1>7, <1>9 DEF DescriptorsOK, Busy, Fd, Name, Copy, fdt_get
  <2>1. IF IF b.step = 1 THEN ok ELSE b.step < n
        THEN /\ Owned(p)' = {fds[Head(b.names)]}
             /\ fdt'.table[fds[Head(b.names)]].inode.name = Head(b.names)
        ELSE Owned(p)' = {}
    BY <1>11, <1>17
  <2>2. n \in {3, 4} /\ b.step \in 1..n
    BY <1>4, <1>11
  <2> QED BY <1>3, <1>6, <2>1, <2>2
<1>13. LocksOK(p)'
  <2> SUFFICES ASSUME ~IsApi(d), NEW f \in Names, Holds(p, f)'
               PROVE  /\ d.pc = "idle" /\ ~d.failed => Asked(p, f)'
                      /\ d.pc = "call" /\ (~d.failed \/ d.cmd.opt = "R") => Reason(p, f)'
    BY <1>7, <1>9 DEF LocksOK, Busy
  <2>2. Asked(p, f)' <=> Asked(p, f)
    BY <1>18 DEF Asked
  <2>3. ASSUME (ok /\ ~b.failed) \/ b.cmd.opt = "R"
        PROVE  \/ Asked(p, f)
               \/ /\ b.cmd.opt \in {"u", "c"}
                  /\ f \in IF b.step = 1 THEN ToSet(b.names) ELSE ToSet(Tail(b.names))
               \/ b.cmd.opt \in {"w", "W"} /\ f = Head(b.names) /\ b.step \in {1, 2}
    BY <1>11, <1>17, <2>3
  <2>4. ASSUME d.pc = "idle", ~d.failed PROVE Asked(p, f)'
    <3>1. /\ ~(b.step < n) /\ (b.failed \/ ~ok \/ Len(b.names) = 1)
          /\ ~(b.failed \/ ~ok) \/ b.cmd.opt = "R"
      BY <1>6, <2>4
    <3>2. b.step \notin {1, 2}
      BY <1>4, <1>11, <3>1
    <3> QED BY <1>16, <2>2, <2>3, <3>1, <3>2
  <2>5. ASSUME d.pc = "call", ~d.failed \/ d.cmd.opt = "R" PROVE Reason(p, f)'
    <3>1. Reason(p, f)' <=> \/ Asked(p, f)
                            \/ d.cmd.opt \in {"u", "c"} /\ f \in StillToFree(d)
                            \/ d.cmd.opt \in {"w", "W"} /\ f = Head(d.names) /\ d.step \in {2, 3}
      BY <1>7, <2>2 DEF Reason, Name
    <3>2. CASE d.names = b.names /\ d.step = b.step + 1 /\ (d.failed <=> b.failed \/ ~ok)
      BY <1>3, <1>4, <1>6, <1>11, <2>3, <2>5, <3>1, <3>2 DEF StillToFree
    <3>3. CASE d.names = Tail(b.names) /\ d.step = 1 /\ ok /\ ~b.failed /\ ~(b.step < n)
      <4>1. b.step \notin {1, 2}
        BY <1>4, <1>11, <3>3
      <4> QED BY <1>6, <2>3, <3>1, <3>3, <4>1 DEF StillToFree
    <3> QED BY <1>6, <2>5, <3>2, <3>3
  <2> QED BY <2>4, <2>5
<1>14. ClientOK(p)'
  BY <1>7, <1>8, <1>9, <1>10, <1>12, <1>13 DEF ClientOK
<1>15. starts' \in Nat
  BY DEF CInv
<1> QED BY <1>6, <1>14, <1>15, StepOf
-----------------------------------------------------------------------------
(* The calls.                                                              *)

Step(p) == Script(client[p].cmd)[client[p].step]

(* A client that makes a call, or waits for its answer. *)
LEMMA BusyFacts ==
    ASSUME CInv, NEW p \in Pids, client[p].pc \in Busy
    PROVE  LET c == client[p]
               n == Len(Script(c.cmd))
           IN  /\ IInv /\ c \in Clients /\ c.cmd # NULL /\ c.cmd.opt \in Calling
               /\ c.names # <<>> /\ Name(p) \in Names /\ Name(p) \in ToSet(c.names)
               /\ Fd(p) \in Fds \cup {NULL}
               /\ c.flag \in BOOLEAN /\ c.fds \in [Names -> Fds \cup {NULL}]
               /\ c.cmd.opt \in {"w", "W", "api"} => Local[Name(p)] \in Payloads
               /\ IsApi(c) <=> c.cmd.opt = "api"
<1> DEFINE c == client[p]
<1>1. c \in Clients /\ CallOK(c) /\ IInv
  BY DEF CInv, ClientOK
<1>2. c.names # <<>> /\ c.names \in Seq(Names) /\ c.fds \in [Names -> Fds \cup {NULL}]
      /\ c.flag \in BOOLEAN
  BY <1>1, ClientParts DEF CallOK
<1>3. Name(p) \in Names /\ Name(p) \in ToSet(c.names) /\ Fd(p) \in Fds \cup {NULL}
  BY <1>2, TailFacts DEF Name, Fd
<1>4. c.cmd.opt \in {"w", "W", "api"} => Local[Name(p)] \in Payloads
  <2> HAVE c.cmd.opt \in {"w", "W", "api"}
  <2>1. OnDisk(c.names)
    BY <1>1 DEF CallOK
  <2>2. Local[Name(p)] # NULL
    BY <1>3, <2>1 DEF OnDisk, ToSet
  <2> QED BY <1>3, <2>2, ClientAssumption
<1> QED BY <1>1, <1>2, <1>3, <1>4 DEF CallOK, IsApi

LEMMA NullNoFd == NULL \notin Fds
BY ClientAssumption, SimFSAssumption DEF Fds

(* A busy client of the command line. *)
LEMMA CommandFacts ==
    ASSUME CInv, NEW p \in Pids, client[p].pc \in Busy, ~IsApi(client[p])
    PROVE  LET c == client[p]
               n == Len(Script(c.cmd))
               s == Step(p)
           IN  /\ c.step \in 1..n /\ n \in {3, 4}
               /\ s \in {"open_create", "open_lock", "open"} <=> c.step = 1
               /\ s = "close" <=> c.step = n
               /\ s = "open_create" => c.cmd.opt \in {"w", "W"}
               /\ s = "open_lock" => c.cmd.opt = "c"
               /\ s = "lock" => c.cmd.opt = "l"
               /\ s = "write" => c.cmd.opt \in {"w", "W"}
               /\ s \in {"remove", "unlock"} => c.cmd.opt # "R"
               /\ c.step = 1 => Owned(p) = {}
               /\ c.step # 1 => /\ Owned(p) = {Fd(p)} /\ Fd(p) \in Fds /\ Fd(p) # NULL
                                /\ fdt.table[Fd(p)].inode.name = Name(p)
               /\ ~c.failed \/ c.cmd.opt = "R" =>
                     \A f \in Names : Holds(p, f) => Reason(p, f)
<1> DEFINE c == client[p]
<1>1. /\ c.cmd # NULL /\ c.cmd.opt \in Calling \ {"api"} /\ CallOK(c)
      /\ DescriptorsOK(p) /\ LocksOK(p) /\ Fd(p) \in Fds \cup {NULL}
  BY BusyFacts DEF CInv, ClientOK, IsApi
<1>2. c.step \in 1..Len(Script(c.cmd))
  BY <1>1 DEF CallOK
<1>3. PICK cmd, step : cmd = c.cmd /\ step = c.step
  OBVIOUS
<1>4. cmd.opt \in Calling \ {"api"} /\ step \in 1..Len(Script(cmd))
  BY <1>1, <1>2, <1>3
<1>5. LET s == Script(cmd)[step]
          n == Len(Script(cmd))
      IN  /\ n \in {3, 4} /\ (n = 4 <=> cmd.opt \in {"w", "W"})
          /\ s \in {"open_create", "open_lock", "open"} <=> step = 1
          /\ s = "close" <=> step = n
          /\ s = "open_create" => cmd.opt \in {"w", "W"}
          /\ s = "open_lock" => cmd.opt = "c"
          /\ s = "lock" => cmd.opt = "l"
          /\ s = "write" => cmd.opt \in {"w", "W"}
          /\ s \in {"remove", "unlock"} <=>
                (cmd.opt \in {"u", "c"} /\ step = 2) \/ (cmd.opt \in {"w", "W"} /\ step = 3)
  BY <1>4, ScriptShape
<1>6. /\ c.step = 1 => Owned(p) = {}
      /\ c.step # 1 => Owned(p) = {Fd(p)} /\ fdt.table[Fd(p)].inode.name = Name(p)
  BY <1>1 DEF DescriptorsOK, Copy, fdt_get
<1>7. c.step # 1 => Fd(p) \in Fds /\ Fd(p) # NULL
  <2>1. c.step # 1 => Fd(p) \in InUse(fdt)
    BY <1>6 DEF Owned
  <2>2. InUse(fdt) \subseteq Fds
    BY TypesOf, TableFacts DEF CInv
  <2> QED BY <2>1, <2>2, NullNoFd
<1>8. ~c.failed \/ c.cmd.opt = "R" => \A f \in Names : Holds(p, f) => Reason(p, f)
  BY <1>1 DEF LocksOK
<1> QED BY <1>2, <1>3, <1>5, <1>6, <1>7, <1>8 DEF Step

(* p neither sleeps in the file system nor holds its mutex. *)
Released(p) == waiting'[p] = NULL /\ ~(writing' # NULL /\ writing'.pid = p)

LEMMA StillReleased ==
    ASSUME CInv, NEW p \in Pids, client[p].pc \notin {"asleep", "writing"}, SameCall(p)
    PROVE  Released(p)
BY DEF CInv, ClientOK, SleepOK, WriteOK, SameCall, Released

LEMMA Failing ==
    ASSUME CInv, IInv', NEW p \in Pids, client[p].pc \in Busy, Failure(p), starts' = starts,
           \A q \in Others(p) : Unseen(q), Released(p),
           SameEntries(p), ~IsApi(client[p]) /\ client[p].cmd.opt = "R" => NoNewLock(p),
           ~IsApi(client[p]) => Step(p) # "close"
    PROVE  CInv'
<1> DEFINE c == client[p]
<1>1. c \in Clients /\ c.flag \in BOOLEAN /\ c.fds \in [Names -> Fds \cup {NULL}]
  BY BusyFacts
<1>2. PICK flag \in BOOLEAN, fds \in [Names -> Fds \cup {NULL}] : flag = c.flag /\ fds = c.fds
  BY <1>1
<1>3. c = [c EXCEPT !.flag = flag, !.fds = fds]
  BY <1>1, <1>2 DEF Clients
<1>4. client' = [client EXCEPT ![p] = After([client[p] EXCEPT !.flag = flag, !.fds = fds], FALSE)]
  BY <1>3 DEF Failure, Answer
<1>5. ASSUME ~IsApi(c) PROVE Proceeds(p, fds, FALSE)
  <2>1. IF c.step # 1 /\ c.step < Len(Script(c.cmd))
        THEN Owned(p)' = {fds[Name(p)]} /\ fdt'.table[fds[Name(p)]].inode.name = Name(p)
        ELSE Owned(p)' = {}
    BY <1>2, <1>5, CommandFacts DEF SameEntries, Fd
  <2>2. c.cmd.opt = "R" => \A f \in Names : Holds(p, f)' => ReasonAfter(p, f)
    BY <1>5, CommandFacts, ReasonKept DEF NoNewLock, Step
  <2> QED BY <2>1, <2>2 DEF Proceeds
<1>6. FALSE \in BOOLEAN
  OBVIOUS
<1> QED BY <1>4, <1>5, <1>6, Proceeding DEF Released

(* The last command run by a client, if it is -l. *)
LEMMA AskedNow ==
    ASSUME CInv, NEW p \in Pids, client[p].pc \in Busy, client[p].cmd.opt = "l"
    PROVE  Asked(p, Name(p))
<1> DEFINE c == client[p]
           k == Len(c.line) - Len(c.queue)
<1>1. /\ c \in Clients /\ LineOK(c) /\ CallOK(c) /\ c.cmd # NULL
      /\ Name(p) \in ToSet(c.names)
  BY BusyFacts DEF CInv, ClientOK
<1>2. c.line \in Seq(Commands) /\ c.queue \in Seq(Commands)
  BY <1>1, ClientParts
<1>7. Len(c.line) \in Nat /\ Len(c.queue) \in Nat
  BY <1>2
<1>8. Len(c.queue) < Len(c.line) /\ c.cmd = c.line[Len(c.line) - Len(c.queue)]
  BY <1>1 DEF LineOK
<1>3. k \in 1..Len(c.line) /\ c.cmd = c.line[k]
  <2>1. PICK a \in Nat, b \in Nat : a = Len(c.line) /\ b = Len(c.queue)
    BY <1>7
  <2>2. b < a /\ k = a - b
    BY <1>8, <2>1
  <2>3. a - b \in 1..a
    BY <2>2
  <2> HIDE DEF c, k
  <2> QED BY <1>8, <2>1, <2>2, <2>3 DEF k
<1>4. Len(Done(p)) = k /\ DOMAIN Done(p) = 1..k /\ Done(p)[k] = c.cmd
  <2>1. Done(p) = SubSeq(c.line, 1, k)
    BY DEF Done
  <2>4. PICK s \in Seq(Commands) : s = c.line
    BY <1>2
  <2>2. PICK m \in 1..Len(s) : m = k
    BY <1>3, <2>4
  <2>3. /\ Len(SubSeq(s, 1, m)) = m /\ DOMAIN SubSeq(s, 1, m) = 1..m
        /\ SubSeq(s, 1, m)[m] = s[m]
    OBVIOUS
  <2> QED BY <1>3, <2>1, <2>2, <2>3, <2>4
<1>5. Name(p) \in ToSet(c.cmd.files)
  BY <1>1 DEF CallOK
<1> HIDE DEF c, k
<1>6. k \in DOMAIN Done(p) /\ k + 1..Len(Done(p)) = {}
  BY <1>3, <1>4
<1> QED BY <1>4, <1>5, <1>6 DEF Asked, c

LEMMA Succeeding ==
    ASSUME CInv, IInv', NEW p \in Pids, client[p].pc \in Busy, Success(p), starts' = starts,
           \A q \in Others(p) : Unseen(q), Released(p), SameEntries(p),
           ~IsApi(client[p]) =>
              /\ Step(p) \notin {"open_create", "open_lock", "open", "close"}
              /\ \A g \in Names : Holds(p, g)' =>
                    \/ Holds(p, g) /\ (g # Name(p) \/ Step(p) \notin {"remove", "unlock"})
                    \/ g = Name(p) /\ Step(p) = "lock"
    PROVE  CInv'
<1> DEFINE c == client[p]
<1>1. c \in Clients /\ c.flag \in BOOLEAN /\ c.fds \in [Names -> Fds \cup {NULL}]
  BY BusyFacts
<1>2. PICK fds \in [Names -> Fds \cup {NULL}] : fds = c.fds
  BY <1>1
<1>3. [c EXCEPT !.flag = FALSE] = [c EXCEPT !.flag = FALSE, !.fds = fds]
  BY <1>1, <1>2 DEF Clients
<1>4. client' = [client EXCEPT ![p] = After([client[p] EXCEPT !.flag = FALSE, !.fds = fds], TRUE)]
  BY <1>3 DEF Success, Answer
<1>5. ASSUME ~IsApi(c) PROVE Proceeds(p, fds, TRUE)
  <2>1. c.step # 1 /\ c.step < Len(Script(c.cmd))
    BY <1>5, CommandFacts
  <2>2. Owned(p)' = {fds[Name(p)]} /\ fdt'.table[fds[Name(p)]].inode.name = Name(p)
    BY <1>2, <1>5, <2>1, CommandFacts DEF SameEntries, Fd
  <2>3. ASSUME ~c.failed \/ c.cmd.opt = "R", NEW f \in Names, Holds(p, f)' PROVE ReasonAfter(p, f)
    <3>1. CASE Holds(p, f) /\ (f # Name(p) \/ Step(p) \notin {"remove", "unlock"})
      <4>1. Reason(p, f)
        BY <1>5, <2>3, <3>1, CommandFacts
      <4> QED BY <1>5, <3>1, <4>1, ReasonKept DEF Step
    <3>2. CASE f = Name(p) /\ Step(p) = "lock"
      <4>1. Asked(p, Name(p))
        BY <1>5, <3>2, CommandFacts, AskedNow
      <4> QED BY <3>2, <4>1 DEF ReasonAfter
    <3> QED BY <1>5, <2>3, <3>1, <3>2
  <2> QED BY <2>1, <2>2, <2>3 DEF Proceeds
<1>6. TRUE \in BOOLEAN /\ FALSE \in BOOLEAN
  OBVIOUS
<1> QED BY <1>4, <1>5, <1>6, Proceeding DEF Released

LEMMA GettingFd ==
    ASSUME CInv, IInv', NEW p \in Pids, client[p].pc \in Busy, NEW flags, GotFd(p, flags),
           starts' = starts, \A q \in Others(p) : Unseen(q), Released(p),
           get_file_descriptor(fdt) \in Fds,
           ~IsApi(client[p]) =>
              /\ Step(p) \in {"open_create", "open_lock", "open"}
              /\ GotDescriptor(p, Name(p))
              /\ \A g \in Names : Holds(p, g)' =>
                    \/ Holds(p, g)
                    \/ g = Name(p) /\ Step(p) \in {"open_create", "open_lock"}
    PROVE  CInv'
<1> DEFINE c == client[p]
           fd == get_file_descriptor(fdt)
<1>1. /\ c \in Clients /\ c.fds \in [Names -> Fds \cup {NULL}] /\ Name(p) \in Names
      /\ Name(p) \in ToSet(c.names)
  BY BusyFacts
<1>2. PICK fds \in [Names -> Fds \cup {NULL}] : fds = [c.fds EXCEPT ![Name(p)] = fd]
  BY <1>1
<1>3. fds[Name(p)] = fd
  BY <1>1, <1>2
<1>4. PICK flag \in BOOLEAN : flag = (flags # {})
  OBVIOUS
<1>5. client' = [client EXCEPT ![p] = After([client[p] EXCEPT !.flag = flag, !.fds = fds], TRUE)]
  BY <1>2, <1>4 DEF GotFd, Answer, put
<1> HIDE DEF fd
<1>6. ASSUME ~IsApi(c) PROVE Proceeds(p, fds, TRUE)
  <2>1. c.step = 1 /\ Owned(p) = {}
    BY <1>6, CommandFacts
  <2>2. Owned(p)' = {fd} /\ fdt'.table[fd].inode.name = Name(p)
    BY <1>6, <2>1 DEF GotDescriptor, fd
  <2>3. ASSUME ~c.failed \/ c.cmd.opt = "R", NEW f \in Names, Holds(p, f)' PROVE ReasonAfter(p, f)
    <3>1. CASE Holds(p, f)
      <4>1. Reason(p, f) /\ Step(p) \notin {"remove", "unlock"}
        BY <1>6, <2>3, <3>1, CommandFacts
      <4> QED BY <1>6, <4>1, ReasonKept DEF Step
    <3>2. CASE f = Name(p) /\ Step(p) \in {"open_create", "open_lock"}
      BY <1>1, <1>6, <2>1, <3>2, CommandFacts DEF ReasonAfter
    <3> QED BY <1>6, <2>3, <3>1, <3>2
  <2> QED BY <1>3, <2>1, <2>2, <2>3 DEF Proceeds
<1>7. TRUE \in BOOLEAN
  OBVIOUS
<1> QED BY <1>5, <1>6, <1>7, Proceeding DEF Released

(* A client that sleeps in the file system. *)
LEMMA Sleeping ==
    ASSUME CInv, IInv', NEW p \in Pids, client[p].pc = "call", Sleeps(p), starts' = starts,
           \A q \in Others(p) : Unseen(q), SameEntries(p), NoNewLock(p),
           waiting'[p] # NULL, ~(writing' # NULL /\ writing'.pid = p),
           Step(p) = IF waiting'[p].op = "open" THEN "open_lock" ELSE "lock",
           IsApi(client[p]) \/ waiting'[p].name = Name(p)
    PROVE  CInv'
<1> DEFINE c == client[p]
<1>1. c \in Clients /\ c.pc \in Busy /\ ClientOK(p)
  BY DEF CInv, Busy
<1>2. PICK d \in Clients : /\ d = [c EXCEPT !.pc = "asleep"] /\ d.pc = "asleep"
                           /\ d.line = c.line /\ d.queue = c.queue /\ d.cmd = c.cmd
                           /\ d.names = c.names /\ d.step = c.step /\ d.failed = c.failed
                           /\ d.flag = c.flag /\ d.fds = c.fds
  <2> DEFINE d == [c EXCEPT !.pc = "asleep"]
  <2>1. /\ d \in Clients /\ d.pc = "asleep"
        /\ d.line = c.line /\ d.queue = c.queue /\ d.cmd = c.cmd
        /\ d.names = c.names /\ d.step = c.step /\ d.failed = c.failed
        /\ d.flag = c.flag /\ d.fds = c.fds
    BY <1>1 DEF Clients, Busy
  <2> QED BY <2>1
<1>3. client' = [client EXCEPT ![p] = d] /\ client'[p] = d
  BY <1>2 DEF Sleeps, CInv
<1>4. Name(p)' = Name(p) /\ Fd(p)' = Fd(p) /\ Done(p)' = Done(p)
  BY <1>2, <1>3 DEF Name, Fd, Done
<1>5. LineOK(client'[p]) /\ CallOK(client'[p])
  BY <1>1, <1>2, <1>3 DEF ClientOK, LineOK, CallOK
<1>6. SleepOK(p)' /\ WriteOK(p)'
  BY <1>2, <1>3, <1>4 DEF SleepOK, WriteOK, Step, IsApi
<1>7. DescriptorsOK(p)'
  BY <1>1, <1>2, <1>3, <1>4 DEF ClientOK, DescriptorsOK, SameEntries, IsApi, Busy, Copy, fdt_get
<1>8. LocksOK(p)'
  <2>1. \A f : Asked(p, f)' <=> Asked(p, f)
    BY <1>4 DEF Asked
  <2>2. \A f : Reason(p, f)' <=> Reason(p, f)
    BY <1>2, <1>3, <1>4, <2>1 DEF Reason, StillToFree
  <2> QED BY <1>1, <1>2, <1>3, <2>2 DEF ClientOK, LocksOK, NoNewLock, IsApi, Busy
<1>9. ClientOK(p)' /\ starts' \in Nat
  BY <1>2, <1>3, <1>5, <1>6, <1>7, <1>8 DEF ClientOK, CInv
<1> QED BY <1>3, <1>9, StepOf

(* A call that was refused at once. *)
LEMMA Stays ==
    ASSUME IInv, UNCHANGED vars, NEW q \in Pids
    PROVE  Unseen(q) /\ SameEntries(q) /\ NoNewLock(q) /\ SameCall(q)
<1>1. Unseen(q)
  BY QuietSeen
<1> QED BY <1>1 DEF Unseen

LEMMA NextKeeps ==
    ASSUME CInv, [Next]_vars
    PROVE  IInv'
BY NextInv DEF CInv

LEMMA OpenFileStep ==
    ASSUME CInv, NEW p \in Pids, NEW api \in {"open_create", "open_lock", "open"},
           OpenFile(p, api), starts' = starts
    PROVE  CInv' /\ [Next]_vars
<1> DEFINE f == Name(p)
           lock == "O_LOCK" \in Flags(api)
           create == Creates(Flags(api), f)
<1>1. client[p].pc = "call" /\ Step(p) = api /\ client[p].pc \in Busy
  BY DEF OpenFile, Calls, Step, Busy
<1>2. IInv /\ f \in Names
  BY <1>1, BusyFacts
<1>3. /\ create \in BOOLEAN /\ (create <=> api = "open_create")
      /\ lock \in BOOLEAN /\ (lock <=> api \in {"open_create", "open_lock"})
  BY DEF Creates, Flags
<1>4. \/ create /\ OpenCreate(p, f, lock) /\ GotFd(p, Flags(api))
      \/ ~create /\ OpenExisting(p, f, lock) /\ GotFd(p, Flags(api))
      \/ ~create /\ lock /\ OpenWaits(p, f) /\ Sleeps(p)
      \/ Refused(p) /\ Failure(p)
  BY DEF OpenFile
<1> HIDE DEF f, lock, create
<1>5. CASE create /\ OpenCreate(p, f, lock) /\ GotFd(p, Flags(api))
  <2>1. Next
    BY <1>2, <1>3, <1>5 DEF Next, OnName
  <2>2. IInv'
    BY <2>1, NextKeeps
  <2>3. /\ GotDescriptor(p, f) /\ SameCall(p) /\ \A q \in Others(p) : Unseen(q)
        /\ \A g \in Names : Holds(p, g)' => Holds(p, g) \/ (lock /\ g = f)
    <3>1. OpenCreate(p, f, lock)
      BY <1>5
    <3>2. PICK l \in BOOLEAN : l = lock
      BY <1>3
    <3>3. OpenCreate(p, f, l)
      BY <3>1, <3>2
    <3>4. /\ GotDescriptor(p, f) /\ SameCall(p) /\ \A q \in Others(p) : Unseen(q)
          /\ \A g \in Names : Holds(p, g)' => Holds(p, g) \/ (l /\ g = f)
      BY <1>2, <3>3, OpenCreateSeen
    <3> QED BY <3>2, <3>4
  <2>4. Released(p) /\ get_file_descriptor(fdt) \in Fds
    BY <1>1, <2>3, StillReleased DEF GotDescriptor
  <2>5. GotDescriptor(p, Name(p)) /\ \A g \in Names : Holds(p, g)' =>
            Holds(p, g) \/ (g = Name(p) /\ Step(p) \in {"open_create", "open_lock"})
    BY <1>1, <1>3, <2>3 DEF f
  <2> QED BY <1>1, <1>5, <2>1, <2>2, <2>3, <2>4, <2>5, GettingFd
<1>6. CASE ~create /\ OpenExisting(p, f, lock) /\ GotFd(p, Flags(api))
  <2>1. Next
    BY <1>2, <1>3, <1>6 DEF Next, OnName
  <2>2. IInv'
    BY <2>1, NextKeeps
  <2>3. /\ GotDescriptor(p, f) /\ SameCall(p) /\ \A q \in Others(p) : Unseen(q)
        /\ \A g \in Names : Holds(p, g)' => Holds(p, g) \/ (lock /\ g = f)
    BY <1>2, <1>3, <1>6, OpenExistingSeen
  <2>4. Released(p) /\ get_file_descriptor(fdt) \in Fds
    BY <1>1, <2>3, StillReleased DEF GotDescriptor
  <2>5. GotDescriptor(p, Name(p)) /\ \A g \in Names : Holds(p, g)' =>
            Holds(p, g) \/ (g = Name(p) /\ Step(p) \in {"open_create", "open_lock"})
    BY <1>1, <1>3, <2>3 DEF f
  <2> QED BY <1>1, <1>6, <2>1, <2>2, <2>3, <2>4, <2>5, GettingFd
<1>7. CASE ~create /\ lock /\ OpenWaits(p, f) /\ Sleeps(p)
  <2>1. Next
    BY <1>2, <1>7 DEF Next, OnName
  <2>2. IInv'
    BY <2>1, NextKeeps
  <2>3. /\ SameEntries(p) /\ NoNewLock(p) /\ \A q \in Others(p) : Unseen(q)
        /\ waiting'[p] # NULL /\ waiting'[p].name = f /\ waiting'[p].op = "open"
        /\ UNCHANGED <<fdt, writing>>
    BY <1>2, <1>7, OpenWaitsSeen
  <2>4. writing = NULL
    BY <1>7 DEF OpenWaits, Ready
  <2>5. Step(p) = "open_lock"
    BY <1>1, <1>3, <1>7
  <2> QED BY <1>1, <1>7, <2>1, <2>2, <2>3, <2>4, <2>5, Sleeping DEF f
<1>8. CASE Refused(p) /\ Failure(p)
  <2>1. Next /\ UNCHANGED vars
    BY <1>8 DEF Next, Refused
  <2>2. IInv'
    BY <2>1, NextKeeps
  <2>3. \A q \in Pids : Unseen(q) /\ SameEntries(q) /\ NoNewLock(q) /\ SameCall(q)
    BY <1>2, <2>1, Stays
  <2>4. Released(p) /\ Step(p) # "close"
    BY <1>1, <2>3, StillReleased
  <2> QED BY <1>1, <1>8, <2>1, <2>2, <2>3, <2>4, Failing DEF Others
<1> QED BY <1>4, <1>5, <1>6, <1>7, <1>8

(* A call with a descriptor. *)
LEMMA RequestFacts ==
    ASSUME CInv, NEW p \in Pids, NEW api \in {"write", "read", "lock", "unlock", "close"},
           Requests(p, api)
    PROVE  /\ client[p].pc = "call" /\ client[p].pc \in Busy /\ Step(p) = api
           /\ IInv /\ Fd(p) \in Fds /\ Name(p) \in Names
           /\ ~IsApi(client[p]) => Owned(p) = {Fd(p)} /\ Copy(Fd(p)).name = Name(p)
<1>1. client[p].pc = "call" /\ client[p].pc \in Busy /\ Step(p) = api /\ Fd(p) # NULL
  BY DEF Requests, Calls, Step, Busy
<1>2. IInv /\ Fd(p) \in Fds /\ Name(p) \in Names
  BY <1>1, BusyFacts
<1>3. ASSUME ~IsApi(client[p]) PROVE Owned(p) = {Fd(p)} /\ Copy(Fd(p)).name = Name(p)
  <2>1. client[p].step # 1
    BY <1>1, <1>3, CommandFacts
  <2> QED BY <1>1, <1>3, <2>1, CommandFacts DEF Copy, fdt_get
<1> QED BY <1>1, <1>2, <1>3

(* A call that the server refuses and that does not leave the file. *)
LEMMA Refusal ==
    ASSUME CInv, NEW p \in Pids, client[p].pc = "call", UNCHANGED vars, Failure(p),
           starts' = starts, ~IsApi(client[p]) => Step(p) # "close"
    PROVE  CInv'
<1>1. IInv /\ client[p].pc \in Busy
  BY DEF CInv, Busy
<1>2. IInv'
  BY NextKeeps
<1>3. \A q \in Pids : Unseen(q) /\ SameEntries(q) /\ NoNewLock(q) /\ SameCall(q)
  BY <1>1, Stays
<1>4. Released(p)
  BY <1>3, StillReleased
<1> QED BY <1>1, <1>2, <1>3, <1>4, Failing DEF Others

LEMMA NoRequestStep ==
    ASSUME CInv, NEW p \in Pids, NoRequest(p), starts' = starts
    PROVE  CInv' /\ [Next]_vars
<1>1. client[p].pc = "call" /\ client[p].pc \in Busy /\ UNCHANGED vars /\ Failure(p)
      /\ (Fd(p) = NULL \/ Step(p) = "write")
  BY DEF NoRequest, Step, Busy
<1>2. ~IsApi(client[p]) => Step(p) # "close"
  <2> SUFFICES ASSUME ~IsApi(client[p]), Step(p) = "close" PROVE FALSE
    OBVIOUS
  <2>1. Fd(p) = NULL /\ client[p].step # 1
    BY <1>1, CommandFacts
  <2> QED BY <1>1, <2>1, CommandFacts
<1> QED BY <1>1, <1>2, Refusal

LEMMA LockFileStep ==
    ASSUME CInv, NEW p \in Pids, LockFile(p), starts' = starts
    PROVE  CInv' /\ [Next]_vars
<1>0. "lock" \in {"write", "read", "lock", "unlock", "close"} /\ Requests(p, "lock")
  BY DEF LockFile
<1>1. /\ client[p].pc = "call" /\ client[p].pc \in Busy /\ Step(p) = "lock"
      /\ IInv /\ Fd(p) \in Fds /\ Name(p) \in Names
      /\ ~IsApi(client[p]) => Owned(p) = {Fd(p)} /\ Copy(Fd(p)).name = Name(p)
  BY <1>0, RequestFacts
<1>2. PICK fd \in Fds : fd = Fd(p)
  BY <1>1
<1>3. CASE Lock(p, Fd(p)) /\ Success(p)
  <2>1. Lock(p, fd) /\ Success(p)
    BY <1>2, <1>3
  <2>2. Next
    BY <2>1 DEF Next, OnDescriptor
  <2>3. IInv'
    BY <2>2, NextKeeps
  <2>4. /\ SameEntries(p) /\ SameCall(p) /\ \A q \in Others(p) : Unseen(q)
        /\ \A g \in Names : Holds(p, g)' => Holds(p, g) \/ g = Copy(fd).name
    BY <1>1, <2>1, LockSeen
  <2>5. Released(p)
    BY <1>1, <2>4, StillReleased
  <2> QED BY <1>1, <1>2, <2>1, <2>2, <2>3, <2>4, <2>5, Succeeding
<1>4. CASE LockWaits(p, Fd(p)) /\ Sleeps(p)
  <2>1. LockWaits(p, fd) /\ Sleeps(p)
    BY <1>2, <1>4
  <2>2. Next
    BY <2>1 DEF Next, OnDescriptor
  <2>3. IInv'
    BY <2>2, NextKeeps
  <2>4. /\ SameEntries(p) /\ NoNewLock(p) /\ \A q \in Others(p) : Unseen(q)
        /\ waiting'[p] # NULL /\ waiting'[p].name = Copy(fd).name /\ waiting'[p].op = "lock"
        /\ UNCHANGED <<fdt, writing>>
    BY <1>1, <2>1, LockWaitsSeen
  <2>5. writing = NULL
    BY <2>1 DEF LockWaits, Ready
  <2> QED BY <1>1, <1>2, <2>1, <2>2, <2>3, <2>4, <2>5, Sleeping
<1>5. CASE Refused(p) /\ Success(p)
  <2>1. UNCHANGED vars
    BY <1>5 DEF Refused
  <2>2. IInv'
    BY <2>1, NextKeeps
  <2>3. \A q \in Pids : Unseen(q) /\ SameEntries(q) /\ NoNewLock(q) /\ SameCall(q)
    BY <1>1, <2>1, Stays
  <2>4. Released(p)
    BY <1>1, <2>3, StillReleased
  <2>5. \A g \in Names : Holds(p, g)' => Holds(p, g)
    BY <2>3 DEF NoNewLock
  <2> QED BY <1>1, <1>5, <2>1, <2>2, <2>3, <2>4, <2>5, Succeeding DEF Others
<1>6. CASE Refused(p) /\ Failure(p)
  BY <1>1, <1>6, Refusal DEF Refused
<1> QED BY <1>3, <1>4, <1>5, <1>6 DEF LockFile

LEMMA UnlockFileStep ==
    ASSUME CInv, NEW p \in Pids, UnlockFile(p), starts' = starts
    PROVE  CInv' /\ [Next]_vars
<1>0. "unlock" \in {"write", "read", "lock", "unlock", "close"} /\ Requests(p, "unlock")
  BY DEF UnlockFile
<1>1. /\ client[p].pc = "call" /\ client[p].pc \in Busy /\ Step(p) = "unlock"
      /\ IInv /\ Fd(p) \in Fds /\ Name(p) \in Names
      /\ ~IsApi(client[p]) => Owned(p) = {Fd(p)} /\ Copy(Fd(p)).name = Name(p)
  BY <1>0, RequestFacts
<1>2. PICK fd \in Fds : fd = Fd(p)
  BY <1>1
<1>3. CASE Unlock(p, Fd(p)) /\ Success(p)
  <2>1. Unlock(p, fd) /\ Success(p)
    BY <1>2, <1>3
  <2>2. Next
    BY <2>1 DEF Next, OnDescriptor
  <2>3. IInv'
    BY <2>2, NextKeeps
  <2>4. /\ \A q \in Pids : Unseen(q)
        /\ \A g \in Names : Holds(p, g)' => g # Copy(fd).name
    BY <1>1, <2>1, UnlockSeen
  <2>5. Released(p) /\ SameEntries(p) /\ NoNewLock(p)
    BY <1>1, <2>4, StillReleased DEF Unseen
  <2>6. ~IsApi(client[p]) => \A g \in Names : Holds(p, g)' => Holds(p, g) /\ g # Name(p)
    BY <1>1, <1>2, <2>4, <2>5 DEF NoNewLock
  <2> QED BY <1>1, <2>1, <2>2, <2>3, <2>4, <2>5, <2>6, Succeeding DEF Others
<1>4. CASE Refused(p) /\ Failure(p)
  BY <1>1, <1>4, Refusal DEF Refused
<1> QED BY <1>3, <1>4 DEF UnlockFile

LEMMA ReadFileStep ==
    ASSUME CInv, NEW p \in Pids, ReadFile(p), starts' = starts
    PROVE  CInv' /\ [Next]_vars
<1>0. "read" \in {"write", "read", "lock", "unlock", "close"} /\ Requests(p, "read")
  BY DEF ReadFile
<1>1. /\ client[p].pc = "call" /\ client[p].pc \in Busy /\ Step(p) = "read"
      /\ IInv /\ Fd(p) \in Fds /\ Name(p) \in Names
  BY <1>0, RequestFacts
<1>2. PICK fd \in Fds : fd = Fd(p)
  BY <1>1
<1>3. CASE (Read(p, Fd(p)) /\ Success(p)) \/ (ReadNothing(p, Fd(p)) /\ Failure(p))
  <2>1. (Read(p, fd) /\ Success(p)) \/ (ReadNothing(p, fd) /\ Failure(p))
    BY <1>2, <1>3
  <2>2. Next
    BY <2>1 DEF Next, OnDescriptor
  <2>3. IInv'
    BY <2>2, NextKeeps
  <2>4. \A q \in Pids : Unseen(q)
    BY <1>1, <2>1, ReadSeen
  <2>5. Released(p) /\ SameEntries(p) /\ NoNewLock(p)
    BY <1>1, <2>4, StillReleased DEF Unseen
  <2>6. \A g \in Names : Holds(p, g)' => Holds(p, g)
    BY <2>5 DEF NoNewLock
  <2>7. CASE Success(p)
    BY <1>1, <2>2, <2>3, <2>4, <2>5, <2>6, <2>7, Succeeding DEF Others
  <2>8. CASE Failure(p)
    BY <1>1, <2>2, <2>3, <2>4, <2>5, <2>8, Failing DEF Others
  <2> QED BY <2>1, <2>7, <2>8
<1>4. CASE Refused(p) /\ Failure(p)
  BY <1>1, <1>4, Refusal DEF Refused
<1> QED BY <1>3, <1>4 DEF ReadFile

(* The last call for a file, when its descriptor is gone. *)
LEMMA Closing ==
    ASSUME CInv, IInv', NEW p \in Pids, client[p].pc = "call", Step(p) = "close", starts' = starts,
           \A q \in Others(p) : Unseen(q), Released(p), NoNewLock(p),
           ~IsApi(client[p]) => Owned(p)' = {},
           NEW ok \in BOOLEAN, NEW flag \in BOOLEAN, NEW fds \in [Names -> Fds \cup {NULL}],
           client' = [client EXCEPT ![p] = After([client[p] EXCEPT !.flag = flag, !.fds = fds], ok)]
    PROVE  CInv'
<1> DEFINE c == client[p]
<1>1. c.pc \in Busy
  BY DEF Busy
<1>2. ASSUME ~IsApi(c) PROVE Proceeds(p, fds, ok)
  <2>1. c.step # 1 /\ ~(c.step < Len(Script(c.cmd)))
    BY <1>1, <1>2, CommandFacts
  <2>2. ASSUME ~c.failed \/ c.cmd.opt = "R", NEW f \in Names, Holds(p, f)' PROVE ReasonAfter(p, f)
    <3>1. Reason(p, f)
      BY <1>1, <1>2, <2>2, CommandFacts DEF NoNewLock
    <3> QED BY <1>1, <1>2, <3>1, ReasonKept DEF Step
  <2> QED BY <1>2, <2>1, <2>2 DEF Proceeds
<1> QED BY <1>1, <1>2, Proceeding DEF Released

(* The server accepts the descriptors of their owner. *)
LEMMA OwnedIsAccepted ==
    ASSUME IInv, NEW p \in Pids, NEW fd \in Owned(p)
    PROVE  fdt_error(fdt, fd, p) = "ok"
<1>1. fd \in InUse(fdt) /\ fdt.table[fd] # NULL /\ fdt.table[fd].owner = p
  BY DEF Owned, InUse
<1>2. /\ fdt.max_fd \in Nat /\ Sound(fdt) /\ IsFiniteSet(InUse(fdt))
      /\ DOMAIN fdt.table \subseteq 0..fdt.max_fd
  BY TypesOf, TableFacts, SoundFinite
<1>3. fdt.size # 0
  BY <1>1, <1>2, FS_EmptySet DEF Sound
<1>4. fd <= fdt.max_fd
  BY <1>1, <1>2 DEF InUse
<1> QED BY <1>1, <1>3, <1>4 DEF fdt_error, Known

LEMMA CloseFileStep ==
    ASSUME CInv, NEW p \in Pids, NEW stored \in BOOLEAN, CloseFile(p, stored), starts' = starts
    PROVE  CInv' /\ [Next]_vars
<1> DEFINE c == client[p]
<1>0. "close" \in {"write", "read", "lock", "unlock", "close"} /\ Requests(p, "close")
  BY DEF CloseFile
<1>1. /\ c.pc = "call" /\ c.pc \in Busy /\ Step(p) = "close"
      /\ IInv /\ Fd(p) \in Fds /\ Name(p) \in Names
      /\ ~IsApi(c) => Owned(p) = {Fd(p)} /\ Copy(Fd(p)).name = Name(p)
  BY <1>0, RequestFacts
<1>2. c \in Clients /\ c.flag \in BOOLEAN /\ c.fds \in [Names -> Fds \cup {NULL}] /\ c.cmd # NULL
  BY <1>1, BusyFacts
<1>3. PICK none \in [Names -> Fds \cup {NULL}] : none = [c.fds EXCEPT ![Name(p)] = NULL]
  BY <1>1, <1>2
<1> DEFINE closed == [c EXCEPT !.flag = FALSE, !.fds = none]
<1>4. [c EXCEPT !.flag = FALSE, !.fds[Name(p)] = NULL] = closed
  BY <1>3
<1>5. CASE Close(p, Fd(p)) /\ (Failure(p) \/ Answer(p, closed, TRUE)
                               \/ client' = [client EXCEPT ![p] = Ended(closed, TRUE)])
  <2>1. PICK fd \in Fds : fd = Fd(p) /\ Close(p, fd)
    BY <1>1, <1>5
  <2>2. Next
    BY <2>1 DEF Next, OnDescriptor
  <2>3. IInv'
    BY <2>2, NextKeeps
  <2>4. /\ NoNewLock(p) /\ SameCall(p) /\ \A q \in Others(p) : Unseen(q)
        /\ Owned(p)' = Owned(p) \ {fd}
    BY <1>1, <2>1, CloseSeen
  <2>5. Released(p)
    BY <1>1, <2>4, StillReleased
  <2>6. ~IsApi(c) => Owned(p)' = {}
    BY <1>1, <2>1, <2>4
  <2>7. CASE Failure(p)
    <3>1. PICK flag \in BOOLEAN, fds \in [Names -> Fds \cup {NULL}] : flag = c.flag /\ fds = c.fds
      BY <1>2
    <3>2. c = [c EXCEPT !.flag = flag, !.fds = fds]
      BY <1>2, <3>1 DEF Clients
    <3>3. client' = [client EXCEPT ![p] = After([client[p] EXCEPT !.flag = flag, !.fds = fds], FALSE)]
      BY <2>7, <3>2 DEF Failure, Answer
    <3>4. FALSE \in BOOLEAN
      OBVIOUS
    <3> QED BY <1>1, <2>2, <2>3, <2>4, <2>5, <2>6, <3>3, <3>4, Closing
  <2>8. CASE Answer(p, closed, TRUE)
    <3>1. client' = [client EXCEPT ![p] = After([client[p] EXCEPT !.flag = FALSE, !.fds = none], TRUE)]
      BY <2>8 DEF Answer
    <3>2. TRUE \in BOOLEAN /\ FALSE \in BOOLEAN
      OBVIOUS
    <3> QED BY <1>1, <2>2, <2>3, <2>4, <2>5, <2>6, <3>1, <3>2, Closing
  <2>9. CASE client' = [client EXCEPT ![p] = Ended(closed, TRUE)]
    <3>1. PICK d \in Clients : /\ d = Ended(closed, TRUE) /\ d.pc = "idle" /\ d.failed
                               /\ d.line = c.line /\ d.queue = c.queue /\ d.cmd = c.cmd
      <4>1. <<>> \in Seq(Names)
        OBVIOUS
      <4>2. PICK empty \in Seq(Names) : empty = <<>>
        BY <4>1
      <4> DEFINE d == [c EXCEPT !.flag = FALSE, !.fds = none,
                                !.pc = "idle", !.names = empty, !.failed = TRUE]
      <4>3. d = Ended(closed, TRUE)
        BY <1>2, <4>2 DEF Ended, Clients
      <4>4. /\ d \in Clients /\ d.pc = "idle" /\ d.failed
            /\ d.line = c.line /\ d.queue = c.queue /\ d.cmd = c.cmd
        BY <1>2 DEF Clients
      <4> QED BY <4>3, <4>4
    <3>2. client' = [client EXCEPT ![p] = d] /\ client'[p] = d
      BY <2>9, <3>1 DEF CInv
    <3>3. LineOK(d) /\ CallOK(d)
      <4>1. LineOK(c)
        BY DEF CInv, ClientOK
      <4>2. LineOK(d)
        BY <3>1, <4>1 DEF LineOK
      <4> QED BY <3>1, <4>2 DEF CallOK, Busy
    <3>4. SleepOK(p)' /\ WriteOK(p)'
      BY <2>5, <3>1, <3>2 DEF SleepOK, WriteOK, Released
    <3>5. DescriptorsOK(p)' /\ LocksOK(p)'
      BY <2>6, <3>1, <3>2 DEF DescriptorsOK, LocksOK, IsApi, Busy
    <3>6. ClientOK(p)' /\ starts' \in Nat
      BY <3>1, <3>2, <3>3, <3>4, <3>5 DEF ClientOK, CInv
    <3> QED BY <2>2, <2>3, <2>4, <3>2, <3>6, StepOf
  <2> QED BY <1>5, <2>7, <2>8, <2>9
<1>6. CASE fdt_error(fdt, Fd(p), p) # "ok" /\ Refused(p) /\ Failure(p)
  <2>1. IsApi(c)
    BY <1>1, <1>6, OwnedIsAccepted
  <2> QED BY <1>1, <1>6, <2>1, Refusal DEF Refused
<1> HIDE DEF closed
<1> QED BY <1>4, <1>5, <1>6 DEF CloseFile

LEMMA RemovesFileStep ==
    ASSUME CInv, NEW p \in Pids, RemovesFile(p), starts' = starts
    PROVE  CInv' /\ [Next]_vars
<1>1. client[p].pc = "call" /\ client[p].pc \in Busy /\ Step(p) = "remove"
  BY DEF RemovesFile, Calls, Step, Busy
<1>2. IInv /\ Name(p) \in Names
  BY <1>1, BusyFacts
<1>3. CASE RemoveFile(p, Name(p)) /\ (Success(p) \/ Failure(p))
  <2>1. PICK f \in Names : f = Name(p) /\ RemoveFile(p, f)
    BY <1>2, <1>3
  <2>2. Next
    BY <2>1 DEF Next, OnName
  <2>3. IInv'
    BY <2>2, NextKeeps
  <2>4. /\ \A q \in Pids : Unseen(q)
        /\ \A g \in Names : Holds(p, g)' => g # f
    BY <1>2, <2>1, RemoveFileSeen
  <2>5. Released(p) /\ SameEntries(p) /\ NoNewLock(p)
    BY <1>1, <2>4, StillReleased DEF Unseen
  <2>6. \A g \in Names : Holds(p, g)' => Holds(p, g) /\ g # Name(p)
    BY <2>1, <2>4, <2>5 DEF NoNewLock
  <2>7. CASE Success(p)
    BY <1>1, <2>2, <2>3, <2>4, <2>5, <2>6, <2>7, Succeeding DEF Others
  <2>8. CASE Failure(p)
    BY <1>1, <2>2, <2>3, <2>4, <2>5, <2>8, Failing DEF Others
  <2> QED BY <1>3, <2>7, <2>8
<1>4. CASE Refused(p) /\ Failure(p)
  BY <1>1, <1>4, Refusal DEF Refused
<1> QED BY <1>3, <1>4 DEF RemovesFile

(* A write that is answered. *)
LEMMA WriteAnswered ==
    ASSUME CInv, IInv', NEW p \in Pids, client[p].pc \in Busy, Step(p) = "write",
           Success(p) \/ Failure(p), starts' = starts, \A q \in Others(p) : Unseen(q),
           Released(p), SameEntries(p), NoNewLock(p)
    PROVE  CInv'
<1>1. \A g \in Names : Holds(p, g)' => Holds(p, g)
  BY DEF NoNewLock
<1>2. CASE Success(p)
  BY <1>1, <1>2, Succeeding
<1>3. CASE Failure(p)
  BY <1>3, Failing
<1> QED BY <1>2, <1>3

(* The client waits for the answer of a write. *)
LEMMA Writing ==
    ASSUME CInv, IInv', NEW p \in Pids, client[p].pc = "call", Step(p) = "write",
           client' = [client EXCEPT ![p].pc = "writing"], starts' = starts,
           \A q \in Others(p) : Unseen(q), SameEntries(p), NoNewLock(p),
           waiting'[p] = NULL, writing' # NULL, writing'.pid = p,
           writing'.fd = Fd(p), writing'.buf = Local[Name(p)]
    PROVE  CInv'
<1> DEFINE c == client[p]
<1>1. c \in Clients /\ c.pc \in Busy /\ ClientOK(p)
  BY DEF CInv, Busy
<1>2. PICK d \in Clients : /\ d = [c EXCEPT !.pc = "writing"] /\ d.pc = "writing"
                           /\ d.line = c.line /\ d.queue = c.queue /\ d.cmd = c.cmd
                           /\ d.names = c.names /\ d.step = c.step /\ d.failed = c.failed
                           /\ d.flag = c.flag /\ d.fds = c.fds
  <2> DEFINE d == [c EXCEPT !.pc = "writing"]
  <2>1. /\ d \in Clients /\ d.pc = "writing"
        /\ d.line = c.line /\ d.queue = c.queue /\ d.cmd = c.cmd
        /\ d.names = c.names /\ d.step = c.step /\ d.failed = c.failed
        /\ d.flag = c.flag /\ d.fds = c.fds
    BY <1>1 DEF Clients, Busy
  <2> QED BY <2>1
<1>3. client' = [client EXCEPT ![p] = d] /\ client'[p] = d
  BY <1>2 DEF CInv
<1>4. Name(p)' = Name(p) /\ Fd(p)' = Fd(p) /\ Done(p)' = Done(p)
  BY <1>2, <1>3 DEF Name, Fd, Done
<1>5. LineOK(client'[p]) /\ CallOK(client'[p])
  BY <1>1, <1>2, <1>3 DEF ClientOK, LineOK, CallOK
<1>6. SleepOK(p)' /\ WriteOK(p)'
  <2>1. Script(client'[p].cmd)[client'[p].step] = "write"
    BY <1>2, <1>3 DEF Step
  <2>2. WriteOK(p)'
    BY <1>2, <1>3, <1>4, <2>1 DEF WriteOK
  <2> QED BY <1>2, <1>3, <2>2 DEF SleepOK
<1>7. DescriptorsOK(p)'
  BY <1>1, <1>2, <1>3, <1>4 DEF ClientOK, DescriptorsOK, SameEntries, IsApi, Busy, Copy, fdt_get
<1>8. LocksOK(p)'
  <2>1. \A f : Asked(p, f)' <=> Asked(p, f)
    BY <1>4 DEF Asked
  <2>2. \A f : Reason(p, f)' <=> Reason(p, f)
    BY <1>2, <1>3, <1>4, <2>1 DEF Reason, StillToFree
  <2> QED BY <1>1, <1>2, <1>3, <2>2 DEF ClientOK, LocksOK, NoNewLock, IsApi, Busy
<1>9. ClientOK(p)' /\ starts' \in Nat
  BY <1>5, <1>6, <1>7, <1>8 DEF ClientOK, CInv
<1> QED BY <1>3, <1>9, StepOf

LEMMA WriteFileStep ==
    ASSUME CInv, NEW p \in Pids, WriteFile(p), starts' = starts
    PROVE  CInv' /\ [Next]_vars
<1>0. "write" \in {"write", "read", "lock", "unlock", "close"} /\ Requests(p, "write")
  BY DEF WriteFile
<1>1. /\ client[p].pc = "call" /\ client[p].pc \in Busy /\ Step(p) = "write"
      /\ IInv /\ Fd(p) \in Fds /\ Name(p) \in Names
  BY <1>0, RequestFacts
<1>2. PICK fd \in Fds, buf \in Payloads : fd = Fd(p) /\ buf = Local[Name(p)]
  <2>1. client[p].cmd.opt \in {"w", "W", "api"}
    BY <1>1, BusyFacts, CommandFacts
  <2> QED BY <1>1, <2>1, BusyFacts
<1>3. CASE Write(p, Fd(p), Local[Name(p)]) /\ Written(p, Fd(p))
  <2>1. Write(p, fd, buf) /\ (Success(p) \/ Failure(p))
    BY <1>2, <1>3 DEF Written
  <2>2. Next
    BY <2>1 DEF Next, OnDescriptor
  <2>3. IInv'
    BY <2>2, NextKeeps
  <2>4. \A q \in Pids : Unseen(q)
    BY <1>1, <2>1, WriteSeen
  <2>5. Released(p) /\ SameEntries(p) /\ NoNewLock(p)
    BY <1>1, <2>4, StillReleased DEF Unseen
  <2> QED BY <1>1, <2>1, <2>2, <2>3, <2>4, <2>5, WriteAnswered DEF Others
<1>4. CASE WriteBegin(p, Fd(p), Local[Name(p)]) /\ client' = [client EXCEPT ![p].pc = "writing"]
  <2>1. WriteBegin(p, fd, buf)
    BY <1>2, <1>4
  <2>2. Next
    BY <2>1 DEF Next, OnDescriptor
  <2>3. IInv'
    BY <2>2, NextKeeps
  <2>4. /\ SameEntries(p) /\ NoNewLock(p) /\ \A q \in Others(p) : Unseen(q)
        /\ writing' = [pid |-> p, fd |-> fd, buf |-> buf] /\ writing' # NULL
        /\ UNCHANGED <<fdt, waiting>>
    BY <1>1, <2>1, WriteBeginSeen
  <2>5. waiting'[p] = NULL
    BY <2>1, <2>4 DEF WriteBegin, Ready
  <2> QED BY <1>1, <1>2, <1>4, <2>2, <2>3, <2>4, <2>5, Writing
<1>5. CASE Refused(p) /\ Failure(p)
  BY <1>1, <1>5, Refusal DEF Refused
<1> QED BY <1>3, <1>4, <1>5 DEF WriteFile

(* No client does anything, and none sees what happens. *)
LEMMA Watching ==
    ASSUME CInv, IInv', \A q \in Pids : Unseen(q), UNCHANGED <<client, starts>>
    PROVE  CInv'
<1>1. \A q \in Pids : ClientOK(q)'
  BY Bystander
<1> QED BY <1>1 DEF CInv

LEMMA WriteGoesOnStep ==
    ASSUME CInv, NEW p \in Pids, NEW stored \in BOOLEAN, WriteGoesOn(p, stored), starts' = starts
    PROVE  CInv' /\ [Next]_vars
<1>1. writing # NULL /\ writing.pid = p /\ WriteStep
  BY DEF WriteGoesOn, WriteStep
<1>2. /\ client[p].pc = "writing" /\ client[p].pc \in Busy /\ Step(p) = "write"
      /\ IInv /\ waiting[p] = NULL
  BY <1>1 DEF CInv, ClientOK, WriteOK, SleepOK, Busy, Step
<1>3. Next
  BY <1>1 DEF Next
<1>4. IInv'
  BY <1>3, NextKeeps
<1>5. /\ SameEntries(p) /\ NoNewLock(p) /\ \A q \in Others(p) : Unseen(q)
      /\ waiting' = waiting /\ (writing' = NULL \/ writing' = writing)
  BY <1>1, <1>2, WriteStepSeen
<1>6. CASE writing' = NULL
  <2>1. Success(p) \/ Failure(p)
    BY <1>1, <1>6 DEF WriteGoesOn, Written
  <2>2. Released(p)
    BY <1>2, <1>5, <1>6 DEF Released
  <2> QED BY <1>2, <1>3, <1>4, <1>5, <2>1, <2>2, WriteAnswered
<1>7. CASE writing' # NULL
  <2>1. writing' = writing /\ UNCHANGED client
    BY <1>1, <1>5, <1>7 DEF WriteGoesOn, WriteEnd, WriteGivesUp, EvictFails
  <2>2. SameCall(p)
    BY <1>5, <2>1 DEF SameCall
  <2>3. \A q \in Pids : Unseen(q)
    BY <1>5, <2>2 DEF Unseen, Others
  <2> QED BY <1>3, <1>4, <2>1, <2>3, Watching
<1> QED BY <1>6, <1>7

LEMMA GoesOnStep ==
    ASSUME CInv, NEW p \in Pids, GoesOn(p), starts' = starts
    PROVE  CInv' /\ [Next]_vars
<1>1. client[p].pc = "asleep" /\ client[p].pc \in Busy
  BY DEF GoesOn, Busy
<1>2. /\ IInv /\ waiting[p] # NULL
      /\ Step(p) = IF waiting[p].op = "open" THEN "open_lock" ELSE "lock"
      /\ IsApi(client[p]) \/ waiting[p].name = Name(p)
  BY <1>1 DEF CInv, ClientOK, SleepOK, Step
<1>3. CASE SleepAgain(p) /\ UNCHANGED client
  <2>1. Next
    BY <1>3 DEF Next
  <2>2. IInv'
    BY <2>1, NextKeeps
  <2>3. \A q \in Pids : Unseen(q)
    BY <1>2, <1>3, QuietSeen
  <2> QED BY <1>3, <2>1, <2>2, <2>3, Watching
<1>4. CASE WakeUp(p)
  <2>1. Next
    BY <1>4 DEF Next
  <2>2. IInv'
    BY <2>1, NextKeeps
  <2>3. /\ \A q \in Others(p) : Unseen(q)
        /\ waiting'[p] = NULL /\ writing' = NULL
        /\ \A g \in Names : Holds(p, g)' => Holds(p, g) \/ g = waiting[p].name
        /\ IF waiting[p].op = "open" /\ fdt.size # MAX_OPEN_FILES
           THEN /\ GotDescriptor(p, waiting[p].name)
                /\ fdt'.table[get_file_descriptor(fdt)].inode.buffer = <<>>
           ELSE fdt' = fdt
    BY <1>2, <1>4, WakeUpSeen
  <2>4. Released(p)
    BY <2>3 DEF Released
  <2>6. IF waiting[p].op = "open" /\ fdt.size = MAX_OPEN_FILES THEN Failure(p)
        ELSE IF waiting[p].op = "open" THEN GotFd(p, {"O_LOCK"}) ELSE Success(p)
    <3>1. ~SleepAgain(p)
      BY <1>4 DEF WakeUp, SleepAgain
    <3> QED BY <1>4, <3>1 DEF GoesOn
  <2>7. CASE waiting[p].op = "open" /\ fdt.size = MAX_OPEN_FILES
    <3>1. SameEntries(p)
      BY <2>3, <2>7 DEF SameEntries, Owned
    <3>2. Step(p) = "open_lock" /\ Failure(p)
      BY <1>2, <2>6, <2>7
    <3>3. ~IsApi(client[p]) => client[p].cmd.opt # "R"
      BY <1>1, <3>2, CommandFacts
    <3> QED BY <1>1, <2>1, <2>2, <2>3, <2>4, <3>1, <3>2, <3>3, Failing
  <2>8. CASE waiting[p].op = "open" /\ fdt.size # MAX_OPEN_FILES
    <3>1. GotDescriptor(p, waiting[p].name) /\ GotFd(p, {"O_LOCK"}) /\ Step(p) = "open_lock"
      BY <1>2, <2>3, <2>6, <2>8
    <3>2. get_file_descriptor(fdt) \in Fds
      BY <3>1 DEF GotDescriptor
    <3>3. ~IsApi(client[p]) => /\ GotDescriptor(p, Name(p))
                               /\ \A g \in Names : Holds(p, g)' => Holds(p, g) \/ g = Name(p)
      BY <1>2, <2>3, <3>1
    <3> QED BY <1>1, <2>1, <2>2, <2>3, <2>4, <3>1, <3>2, <3>3, GettingFd
  <2>9. CASE waiting[p].op # "open"
    <3>1. SameEntries(p)
      BY <2>3, <2>9 DEF SameEntries, Owned
    <3>2. Step(p) = "lock" /\ Success(p)
      BY <1>2, <2>6, <2>9
    <3>3. ~IsApi(client[p]) => \A g \in Names : Holds(p, g)' => Holds(p, g) \/ g = Name(p)
      BY <1>2, <2>3
    <3> QED BY <1>1, <2>1, <2>2, <2>3, <2>4, <3>1, <3>2, <3>3, Succeeding
  <2> QED BY <2>7, <2>8, <2>9
<1> QED BY <1>3, <1>4 DEF GoesOn
-----------------------------------------------------------------------------
(* Between the calls.                                                      *)

LEMMA NotStartedParts ==
    /\ NotStarted \in Clients /\ NotStarted.pc = "off" /\ NotStarted.cmd = NULL
    /\ NotStarted.line = <<>> /\ NotStarted.queue = <<>> /\ ~NotStarted.failed
<1>1. /\ <<>> \in Seq(Commands) /\ <<>> \in Seq(Names)
      /\ [f \in Names |-> NULL] \in [Names -> Fds \cup {NULL}]
  OBVIOUS
<1>2. PICK none \in Seq(Commands), empty \in Seq(Names), fds \in [Names -> Fds \cup {NULL}] :
          none = <<>> /\ empty = <<>> /\ fds = [f \in Names |-> NULL]
  BY <1>1
<1> DEFINE n == [pc |-> "off", line |-> none, queue |-> none, cmd |-> NULL, names |-> empty,
                 step |-> 1, failed |-> FALSE, flag |-> FALSE, fds |-> fds]
<1>3. NotStarted = n
  BY <1>2 DEF NotStarted
<1>4. /\ n \in Clients /\ n.pc = "off" /\ n.cmd = NULL /\ n.line = none /\ n.queue = none
      /\ ~n.failed
  BY DEF Clients, Busy
<1> QED BY <1>2, <1>3, <1>4

(* A client without commands. *)
LEMMA NoCommands ==
    ASSUME NEW d \in Clients, d.pc \notin Busy, d.cmd = NULL, d.line = <<>>, d.queue = <<>>
    PROVE  LineOK(d) /\ CallOK(d) /\ ~IsApi(d)
<1>1. Len(d.queue) = 0 /\ Len(d.line) = 0 /\ DOMAIN d.queue = {}
  OBVIOUS
<1> QED BY <1>1 DEF LineOK, QueueOK, CallOK, IsApi

LEMMA NotStartedFacts ==
    ASSUME NEW pc \in {"off", "killed", "gone", "dead"}
    PROVE  LET d == [NotStarted EXCEPT !.pc = pc]
           IN  /\ d \in Clients /\ d.pc = pc /\ d.cmd = NULL /\ LineOK(d) /\ CallOK(d)
               /\ ~IsApi(d)
<1>1. PICK n \in Clients : /\ n = NotStarted /\ n.cmd = NULL /\ n.line = <<>> /\ n.queue = <<>>
  BY NotStartedParts
<1> DEFINE d == [n EXCEPT !.pc = pc]
<1>2. /\ d \in Clients /\ d.pc = pc /\ d.cmd = n.cmd /\ d.line = n.line /\ d.queue = n.queue
  BY DEF Clients
<1>3. d.pc \notin Busy
  BY <1>2 DEF Busy
<1> HIDE DEF d
<1>4. LineOK(d) /\ CallOK(d) /\ ~IsApi(d)
  BY <1>1, <1>2, <1>3, NoCommands
<1> QED BY <1>1, <1>2, <1>4 DEF d

LEMMA LeaveStep ==
    ASSUME CInv, NEW p \in Pids, Leave(p), starts' = starts
    PROVE  CInv' /\ [Next]_vars
<1> DEFINE c == client[p]
<1>1. /\ IInv /\ c \in Clients /\ ClientOK(p) /\ c.pc \in {"idle", "killed"}
  BY DEF CInv, Leave
<1>2. PICK pc \in {"gone", "dead"} : pc = (IF Orderly(p) THEN "gone" ELSE "dead")
  OBVIOUS
<1>3. PICK d \in Clients : /\ client' = [client EXCEPT ![p] = d] /\ d.pc = pc
                           /\ LineOK(d) /\ CallOK(d) /\ ~IsApi(d)
  <2> DEFINE d == [NotStarted EXCEPT !.pc = pc]
  <2>1. d \in Clients /\ d.pc = pc /\ LineOK(d) /\ CallOK(d) /\ ~IsApi(d)
    BY NotStartedFacts
  <2>2. client' = [client EXCEPT ![p] = d]
    BY <1>2 DEF Leave
  <2> HIDE DEF d
  <2> QED BY <2>1, <2>2
<1>4. client'[p] = d
  BY <1>3 DEF CInv
<1>5. [Next]_vars
  BY DEF Leave, Refused, Next
<1>6. IInv'
  BY <1>5, NextKeeps
<1>7. /\ SameCall(p) /\ \A q \in Others(p) : Unseen(q)
      /\ Owned(p) = {} => /\ Owned(p)' = {}
                          /\ \A f \in Names : ~Holds(p, f)'
  <2>1. CASE RemoveSession(p)
    BY <1>1, <2>1, RemoveSessionSeen
  <2>2. CASE presence = <<>> /\ Refused(p)
    <3>1. UNCHANGED vars
      BY <2>2 DEF Refused
    <3>2. \A q \in Pids : Unseen(q) /\ SameEntries(q) /\ NoNewLock(q) /\ SameCall(q)
      BY <1>1, <3>1, Stays
    <3>3. \A f \in Names : ~Exists(f)
      <4>1. ToSet(presence) = {f \in Names : Exists(f)}
        BY <1>1, TypesOf DEF Tables, ListMatchesTable
      <4>2. ToSet(presence) = {}
        BY <2>2 DEF ToSet
      <4> QED BY <4>1, <4>2
    <3>4. \A f \in Names : ~Holds(p, f)'
      BY <3>2, <3>3 DEF NoNewLock, Holds
    <3> QED BY <3>2, <3>4 DEF SameEntries, Others
  <2> QED BY <2>1, <2>2 DEF Leave
<1>8. Released(p)
  BY <1>1, <1>7, StillReleased
<1>9. SleepOK(p)' /\ WriteOK(p)'
  BY <1>3, <1>4, <1>8 DEF SleepOK, WriteOK, Released
<1>10. pc = "gone" => Owned(p)' = {} /\ \A f \in Names : ~Holds(p, f)'
  <2>1. pc = "gone" => c.pc = "idle" /\ ~IsApi(c)
    BY <1>2 DEF Orderly, IsApi
  <2> QED BY <1>1, <1>7, <2>1 DEF ClientOK, DescriptorsOK
<1>11. DescriptorsOK(p)' /\ LocksOK(p)'
  BY <1>3, <1>4, <1>10 DEF DescriptorsOK, LocksOK, Busy
<1>12. ClientOK(p)' /\ starts' \in Nat
  BY <1>3, <1>4, <1>9, <1>11 DEF ClientOK, CInv
<1> QED BY <1>3, <1>5, <1>6, <1>7, <1>12, StepOf

LEMMA DiesStep ==
    ASSUME CInv, NEW p \in Pids, Dies(p), starts' = starts
    PROVE  CInv' /\ [Next]_vars
<1>1. IInv /\ client[p].pc = "call" /\ UNCHANGED vars
  BY DEF CInv, Dies
<1>2. "killed" \in {"off", "killed", "gone", "dead"}
  OBVIOUS
<1>3. PICK d \in Clients : /\ client' = [client EXCEPT ![p] = d] /\ d.pc = "killed"
                           /\ LineOK(d) /\ CallOK(d)
  <2> DEFINE d == [NotStarted EXCEPT !.pc = "killed"]
  <2>1. d \in Clients /\ d.pc = "killed" /\ LineOK(d) /\ CallOK(d)
    BY <1>2, NotStartedFacts
  <2>2. client' = [client EXCEPT ![p] = d]
    BY DEF Dies
  <2> HIDE DEF d
  <2> QED BY <2>1, <2>2
<1>4. client'[p] = d
  BY <1>3 DEF CInv
<1>5. IInv'
  BY <1>1, NextKeeps
<1>6. \A q \in Pids : Unseen(q) /\ SameCall(q)
  BY <1>1, Stays
<1>7. Released(p)
  BY <1>1, <1>6, StillReleased
<1>8. ClientOK(p)' /\ starts' \in Nat
  <2>1. SleepOK(p)' /\ WriteOK(p)'
    BY <1>3, <1>4, <1>7 DEF SleepOK, WriteOK, Released
  <2>2. DescriptorsOK(p)' /\ LocksOK(p)'
    BY <1>3, <1>4 DEF DescriptorsOK, LocksOK, Busy
  <2> QED BY <1>3, <1>4, <2>1, <2>2 DEF ClientOK, CInv
<1> QED BY <1>1, <1>3, <1>5, <1>6, <1>8, StepOf DEF Others

LEMMA QuietStep ==
    ASSUME CInv, NEW p \in Pids, Spurious(p) \/ Tick, UNCHANGED <<client, starts>>
    PROVE  CInv' /\ [Next]_vars
<1>1. Next /\ IInv
  BY DEF Next, CInv
<1>2. IInv'
  BY <1>1, NextKeeps
<1>3. \A q \in Pids : Unseen(q)
  BY <1>1, QuietSeen
<1> QED BY <1>1, <1>2, <1>3, Watching

LEMMA FirstOfFacts ==
    ASSUME NEW list \in Seq(Names), NEW n \in Int
    PROVE  FirstOf(list, n) \in Seq(Names) /\ (OnDisk(list) => OnDisk(FirstOf(list, n)))
<1>1. CASE n > 0 /\ n < Len(list)
  <2>1. /\ SubSeq(list, 1, n) \in Seq(Names) /\ DOMAIN SubSeq(list, 1, n) = 1..n
        /\ DOMAIN list = 1..Len(list) /\ \A k \in 1..n : SubSeq(list, 1, n)[k] = list[k]
    BY <1>1
  <2>2. \A k \in 1..n : k \in 1..Len(list)
    BY <1>1
  <2> QED BY <1>1, <2>1, <2>2 DEF FirstOf, OnDisk
<1>2. CASE ~(n > 0 /\ n < Len(list))
  BY <1>2 DEF FirstOf
<1> QED BY <1>1, <1>2

LEMMA FilesFacts ==
    ASSUME IInv, NEW cmd \in Commands
    PROVE  /\ Files(cmd) \in Seq(Names)
           /\ cmd.opt \notin {"w", "R"} => Files(cmd) = cmd.files
           /\ cmd.opt = "w" /\ OnDisk(cmd.files) => OnDisk(Files(cmd))
<1>1. PICK n \in Int, list \in Seq(Names) : n = cmd.n /\ list = cmd.files
  BY DEF Commands
<1>2. presence \in Seq(Names)
  BY DEF IInv, Tables, TypeOK
<1>3. CASE cmd.opt = "w"
  BY <1>1, <1>3, FirstOfFacts DEF Files
<1>4. CASE cmd.opt = "R"
  BY <1>1, <1>2, <1>4, FirstOfFacts DEF Files
<1>5. CASE cmd.opt \notin {"w", "R"}
  BY <1>1, <1>5 DEF Files
<1> QED BY <1>3, <1>4, <1>5

(* The command that is taken from the queue is the last of those done. *)
LEMMA DoneGrows ==
    ASSUME NEW line \in Seq(Commands), NEW queue \in Seq(Commands), queue # <<>>,
           Len(queue) <= Len(line),
           \A i \in DOMAIN queue : queue[i] = line[Len(line) - Len(queue) + i]
    PROVE  LET before == SubSeq(line, 1, Len(line) - Len(queue))
               after  == SubSeq(line, 1, Len(line) - Len(Tail(queue)))
           IN  /\ DOMAIN before = 1..Len(before) /\ Len(before) \in Nat
               /\ Len(after) = Len(before) + 1 /\ DOMAIN after = 1..Len(after)
               /\ \A i \in DOMAIN before : after[i] = before[i]
               /\ after[Len(after)] = Head(queue)
               /\ Len(Tail(queue)) < Len(line) /\ Len(after) = Len(line) - Len(Tail(queue))
               /\ line[Len(after)] = Head(queue)
<1>1. PICK a \in Nat, b \in Nat : a = Len(line) /\ b = Len(queue)
  OBVIOUS
<1>2. b # 0 /\ b <= a /\ Len(Tail(queue)) = b - 1 /\ DOMAIN queue = 1..b /\ Head(queue) = queue[1]
  BY <1>1
<1>3. PICK k \in Nat : k = a - b
  BY <1>2
<1>4. k + 1 <= a /\ Len(line) - Len(queue) = k /\ Len(line) - Len(Tail(queue)) = k + 1
  BY <1>1, <1>2, <1>3
<1>5. 1 \in 1..b /\ Len(line) - Len(queue) + 1 = k + 1
  BY <1>2, <1>4
<1>6. Head(queue) = line[k + 1]
  BY <1>2, <1>5
<1>7. /\ Len(SubSeq(line, 1, k)) = k /\ DOMAIN SubSeq(line, 1, k) = 1..k
      /\ \A i \in 1..k : SubSeq(line, 1, k)[i] = line[i]
  BY <1>1, <1>4
<1>8. /\ Len(SubSeq(line, 1, k + 1)) = k + 1 /\ DOMAIN SubSeq(line, 1, k + 1) = 1..k + 1
      /\ \A i \in 1..k + 1 : SubSeq(line, 1, k + 1)[i] = line[i]
  BY <1>1, <1>4
<1>9. k + 1 \in 1..k + 1 /\ \A i \in 1..k : i \in 1..k + 1
  OBVIOUS
<1>10. Len(Tail(queue)) < Len(line)
  BY <1>1, <1>2
<1> QED BY <1>4, <1>6, <1>7, <1>8, <1>9, <1>10

LEMMA NextCommandStep ==
    ASSUME CInv, NEW p \in Pids, NextCommand(p), starts' = starts
    PROVE  CInv' /\ [Next]_vars
<1> DEFINE c == client[p]
<1>1. /\ IInv /\ c \in Clients /\ ClientOK(p) /\ c.pc = "idle" /\ ~c.failed /\ c.queue # <<>>
      /\ UNCHANGED vars
  BY DEF CInv, NextCommand
<1>2. LineOK(c) /\ SleepOK(p) /\ WriteOK(p) /\ DescriptorsOK(p) /\ LocksOK(p)
  BY <1>1 DEF ClientOK
<1>3. PICK line \in Seq(Commands), queue \in Seq(Commands) : line = c.line /\ queue = c.queue
  BY <1>1, ClientParts
<1>4. PICK rest \in Seq(Commands), cmd \in Commands :
          /\ rest = Tail(queue) /\ cmd = Head(queue)
          /\ \A i \in DOMAIN rest : i + 1 \in DOMAIN queue /\ rest[i] = queue[i + 1]
          /\ Len(queue) \in Nat /\ Len(rest) = Len(queue) - 1 /\ 1 \in DOMAIN queue /\ cmd = queue[1]
  <2>1. queue # <<>> /\ 1 \in DOMAIN queue /\ Head(queue) = queue[1]
    BY <1>1, <1>3
  <2>2. /\ Tail(queue) \in Seq(Commands) /\ Head(queue) \in Commands
        /\ Len(queue) \in Nat /\ Len(Tail(queue)) = Len(queue) - 1
        /\ \A i \in DOMAIN Tail(queue) : i + 1 \in DOMAIN queue /\ Tail(queue)[i] = queue[i + 1]
    BY <2>1, TailFacts
  <2> QED BY <2>1, <2>2
<1>5. PICK bad \in BOOLEAN : bad <=> NotFound(cmd) \/ (cmd.opt = "w" /\ cmd.n < 0)
  OBVIOUS
<1>6. PICK list \in Seq(Names) :
          list = IF bad \/ cmd.opt \in {"t", "D", "d"} THEN <<>> ELSE Files(cmd)
  <2>1. <<>> \in Seq(Names)
    OBVIOUS
  <2> QED BY <1>1, <2>1, FilesFacts
<1>7. PICK pc \in {"idle", "call"} : pc = IF list = <<>> THEN "idle" ELSE "call"
  OBVIOUS
<1>8. PICK d \in Clients : /\ client' = [client EXCEPT ![p] = d] /\ d.pc = pc
                           /\ d.line = line /\ d.queue = rest /\ d.cmd = cmd
                           /\ d.names = list /\ d.step = 1 /\ d.failed = bad
  <2> DEFINE d == [c EXCEPT !.pc = pc, !.queue = rest, !.cmd = cmd, !.names = list,
                            !.step = 1, !.failed = bad]
  <2>1. /\ d \in Clients /\ d.pc = pc /\ d.line = line /\ d.queue = rest /\ d.cmd = cmd
        /\ d.names = list /\ d.step = 1 /\ d.failed = bad
    BY <1>1, <1>3 DEF Clients, Busy
  <2>2. client' = [client EXCEPT ![p] = d]
    <3>1. (NotFound(Head(c.queue)) \/ (Head(c.queue).opt = "w" /\ Head(c.queue).n < 0)) = bad
      BY <1>3, <1>4, <1>5 DEF NotFound
    <3> QED BY <1>3, <1>4, <1>6, <1>7, <3>1 DEF NextCommand
  <2> QED BY <2>1, <2>2
<1>9. client'[p] = d
  BY <1>8 DEF CInv
<1> DEFINE before == Done(p)
           after  == Done(p)'
<1>10. /\ DOMAIN before = 1..Len(before) /\ Len(before) \in Nat
       /\ Len(after) = Len(before) + 1 /\ DOMAIN after = 1..Len(after)
       /\ \A i \in DOMAIN before : after[i] = before[i]
       /\ after[Len(after)] = cmd
       /\ Len(rest) < Len(line) /\ Len(after) = Len(line) - Len(rest)
       /\ line[Len(after)] = cmd
  <2>1. /\ queue # <<>> /\ Len(queue) <= Len(line)
        /\ \A i \in DOMAIN queue : queue[i] = line[Len(line) - Len(queue) + i]
    BY <1>1, <1>2, <1>3 DEF LineOK
  <2>2. /\ before = SubSeq(line, 1, Len(line) - Len(queue))
        /\ after = SubSeq(line, 1, Len(line) - Len(Tail(queue)))
    BY <1>3, <1>4, <1>8, <1>9 DEF Done
  <2> HIDE DEF before, after
  <2> QED BY <1>4, <2>1, <2>2, DoneGrows
<1>11. LineOK(d)
  <2>1. /\ QueueOK(queue) /\ Len(queue) <= Len(line)
        /\ \A i \in DOMAIN queue : queue[i] = line[Len(line) - Len(queue) + i]
    BY <1>2, <1>3 DEF LineOK
  <2>2. PICK a \in Nat, b \in Nat : a = Len(line) /\ b = Len(queue)
    OBVIOUS
  <2>3. Len(rest) = b - 1 /\ DOMAIN rest = 1..b - 1 /\ DOMAIN queue = 1..b
    BY <1>4, <2>2
  <2>4. QueueOK(rest)
    <3>1. ASSUME NEW i \in DOMAIN rest
          PROVE  /\ rest[i].opt \in Runnable
                 /\ rest[i].opt = "api" => i = Len(rest)
                 /\ rest[i].opt \in {"w", "api"} => OnDisk(rest[i].files)
      <4>1. i + 1 \in DOMAIN queue /\ rest[i] = queue[i + 1]
        BY <1>4
      <4>2. /\ rest[i].opt \in Runnable
            /\ rest[i].opt = "api" => i + 1 = b
            /\ rest[i].opt \in {"w", "api"} => OnDisk(rest[i].files)
        BY <2>1, <2>2, <4>1 DEF QueueOK
      <4>3. i + 1 = b => i = Len(rest)
        BY <2>3
      <4> QED BY <4>2, <4>3
    <3> QED BY <3>1 DEF QueueOK
  <2>5. \A i \in DOMAIN rest : rest[i] = line[Len(line) - Len(rest) + i]
    <3>1. TAKE i \in DOMAIN rest
    <3>2. i + 1 \in DOMAIN queue /\ rest[i] = queue[i + 1]
      BY <1>4
    <3>3. queue[i + 1] = line[a - b + (i + 1)]
      BY <2>1, <2>2, <3>2
    <3>4. a - b + (i + 1) = a - (b - 1) + i
      BY <2>3
    <3> QED BY <2>2, <2>3, <3>2, <3>3, <3>4
  <2>6. cmd.opt = "api" => rest = <<>>
    <3>1. cmd.opt = "api" => Len(queue) = 1
      BY <1>4, <2>1 DEF QueueOK
    <3>2. Len(queue) = 1 => Len(rest) = 0
      BY <1>4
    <3> QED BY <3>1, <3>2
  <2>7. Len(rest) <= Len(line)
    BY <1>10
  <2>8. cmd = line[Len(line) - Len(rest)]
    BY <1>10
  <2> QED BY <1>8, <1>10, <2>4, <2>5, <2>6, <2>7, <2>8 DEF LineOK
<1>12. cmd.opt \in Runnable /\ (cmd.opt \in {"w", "api"} => OnDisk(cmd.files))
  BY <1>2, <1>3, <1>4 DEF LineOK, QueueOK
<1>13. CallOK(d)
  <2>1. SUFFICES ASSUME pc = "call"
                 PROVE  /\ cmd # NULL /\ cmd.opt \in Calling /\ list # <<>>
                        /\ cmd.opt # "api" => 1 \in 1..Len(Script(cmd))
                        /\ cmd.opt \in {"w", "W", "api"} => OnDisk(list)
                        /\ cmd.opt = "l" => ToSet(list) \subseteq ToSet(cmd.files)
    BY <1>8 DEF CallOK, Busy
  <2>2. list # <<>> /\ ~bad /\ cmd.opt \notin {"t", "D", "d"} /\ list = Files(cmd)
    BY <1>6, <1>7, <2>1
  <2>3. cmd.opt \in Calling
    BY <1>12, <2>2 DEF Calling
  <2>4. cmd.opt # "api" => Len(Script(cmd)) \in {3, 4}
    BY <2>3 DEF Calling, Runnable, Options, Script, send_file, remove_file, lock_file,
                unlock_file, read_file
  <2>5. cmd.opt \in {"w", "W", "api"} => OnDisk(list)
    <3>1. CASE cmd.opt = "w"
      BY <1>1, <1>12, <2>2, <3>1, FilesFacts
    <3>2. CASE cmd.opt = "api"
      BY <1>1, <1>12, <2>2, <3>2, FilesFacts
    <3>3. CASE cmd.opt = "W"
      BY <1>1, <1>5, <2>2, <3>3, FilesFacts DEF NotFound, OnDisk
    <3> QED BY <3>1, <3>2, <3>3
  <2>6. cmd.opt = "l" => list = cmd.files
    BY <1>1, <2>2, FilesFacts
  <2>7. cmd # NULL
    BY ClientAssumption
  <2>8. cmd.opt # "api" => 1 \in 1..Len(Script(cmd))
    <3>1. \A n \in {3, 4} : 1 \in 1..n
      OBVIOUS
    <3> QED BY <2>4, <3>1
  <2> QED BY <2>2, <2>3, <2>5, <2>6, <2>7, <2>8
<1>14. \A q \in Pids : Unseen(q) /\ SameCall(q)
  BY <1>1, Stays
<1>15. Released(p)
  BY <1>1, <1>14, StillReleased
<1>16. SleepOK(p)' /\ WriteOK(p)'
  BY <1>8, <1>9, <1>15 DEF SleepOK, WriteOK, Released
<1>17. ~IsApi(c)
  BY <1>1, <1>2 DEF LineOK, IsApi
<1>18. DescriptorsOK(p)'
  <2>1. Owned(p)' = {}
    BY <1>1, <1>2, <1>14, <1>17 DEF DescriptorsOK, Unseen, SameEntries
  <2> QED BY <1>8, <1>9, <2>1 DEF DescriptorsOK, Busy
<1>19. LocksOK(p)'
  <2>1. SUFFICES ASSUME NEW f \in Names, Holds(p, f)', ~bad
                 PROVE  /\ pc = "idle" => Asked(p, f)'
                        /\ pc = "call" => Reason(p, f)'
    <3>1. bad /\ pc = "call" => FALSE
      BY <1>6, <1>7
    <3> QED BY <1>8, <1>9, <3>1 DEF LocksOK, Busy
  <2>2. Asked(p, f)
    <3>1. Holds(p, f)
      BY <1>14, <2>1 DEF Unseen, NoNewLock
    <3> QED BY <1>1, <1>2, <1>17, <3>1 DEF LocksOK
  <2>3. PICK i \in DOMAIN before :
            /\ before[i].opt = "l" /\ f \in ToSet(before[i].files)
            /\ \A j \in i + 1..Len(before) :
                  before[j].opt \in {"u", "c"} => f \notin ToSet(before[j].files)
    BY <2>2 DEF Asked
  <2>4. (cmd.opt \in {"u", "c"} => f \notin ToSet(cmd.files)) => Asked(p, f)'
    <3> HIDE DEF before, after
    <3>1. SUFFICES ASSUME cmd.opt \in {"u", "c"} => f \notin ToSet(cmd.files)
                   PROVE  /\ i \in DOMAIN after
                          /\ after[i].opt = "l" /\ f \in ToSet(after[i].files)
                          /\ \A j \in i + 1..Len(after) :
                                after[j].opt \in {"u", "c"} => f \notin ToSet(after[j].files)
      BY DEF Asked, after
    <3>2. PICK k \in Nat : k = Len(before) /\ DOMAIN before = 1..k /\ Len(after) = k + 1
                           /\ DOMAIN after = 1..k + 1
      BY <1>10
    <3>3. i \in DOMAIN after /\ after[i] = before[i]
      BY <1>10, <3>2
    <3>4. ASSUME NEW j \in i + 1..Len(after), after[j].opt \in {"u", "c"}
          PROVE  f \notin ToSet(after[j].files)
      <4>1. CASE j = k + 1
        <5>1. after[j] = cmd
          BY <1>10, <3>2, <4>1
        <5> QED BY <3>1, <3>4, <5>1
      <4>2. CASE j # k + 1
        <5>1. j \in i + 1..Len(before) /\ j \in DOMAIN before
          BY <3>2, <3>4, <4>2
        <5>2. after[j] = before[j]
          BY <1>10, <5>1
        <5> QED BY <2>3, <3>4, <5>1, <5>2
      <4> QED BY <4>1, <4>2
    <3> QED BY <2>3, <3>3, <3>4
  <2>5. CASE cmd.opt \notin {"u", "c"}
    BY <2>4, <2>5 DEF Reason
  <2>6. CASE cmd.opt \in {"u", "c"}
    <3>1. list = cmd.files
      BY <1>1, <1>6, <2>1, <2>6, FilesFacts
    <3>2. pc = "idle" => ToSet(cmd.files) = {}
      BY <1>7, <3>1 DEF ToSet
    <3>3. pc = "call" /\ f \in ToSet(cmd.files) => Reason(p, f)'
      BY <1>8, <1>9, <2>6, <3>1 DEF Reason, StillToFree
    <3>4. f \notin ToSet(cmd.files) => Asked(p, f)'
      BY <2>4
    <3> QED BY <3>2, <3>3, <3>4 DEF Reason
  <2> QED BY <2>5, <2>6
<1>20. ClientOK(p)' /\ starts' \in Nat
  BY <1>8, <1>9, <1>11, <1>13, <1>16, <1>18, <1>19 DEF ClientOK, CInv
<1>21. IInv'
  BY <1>1, NextKeeps
<1> QED BY <1>1, <1>8, <1>14, <1>20, <1>21, StepOf DEF Others
-----------------------------------------------------------------------------
(* The options.                                                            *)

(* Induction over the numbers up to n. *)
LEMMA UpTo ==
    ASSUME NEW n \in Nat, NEW S, 0 \in S, \A m \in 0..n : m \in S /\ m # n => m + 1 \in S
    PROVE  0..n \subseteq S
<1> DEFINE Bad == {m \in 0..n : m \notin S}
<1>1. SUFFICES ASSUME Bad # {} PROVE FALSE
  OBVIOUS
<1>2. PICK m \in Bad : \A k \in Bad : m <= k
  <2>1. Bad \subseteq Nat
    OBVIOUS
  <2> HIDE DEF Bad
  <2> QED BY <1>1, <2>1, MinIsLeast
<1>3. m \in 0..n /\ m # 0 /\ m \notin S
  OBVIOUS
<1>4. m - 1 \in 0..n /\ m - 1 # n /\ m - 1 \notin Bad
  BY <1>2, <1>3
<1>5. m - 1 \in S
  BY <1>4
<1>6. (m - 1) + 1 = m
  BY <1>3
<1> QED BY <1>3, <1>4, <1>5, <1>6

(* The state of the parser before any option, and after the first i. *)
Parsed0(garbage) == [ok |-> TRUE, seen |-> {}, previous |-> garbage, queue |-> <<>>]

IsParsing(g, argv, garbage, m) ==
    g = [i \in 0..m |-> IF i = 0 THEN Parsed0(garbage) ELSE Parse(g[i - 1], argv[i])]

LEMMA ParsingExists ==
    ASSUME NEW argv, NEW garbage, NEW n \in Nat
    PROVE  \E g : IsParsing(g, argv, garbage, n)
<1> DEFINE S == {m \in 0..n : \E g : IsParsing(g, argv, garbage, m)}
<1>1. 0 \in S
  <2> DEFINE g == [i \in 0..0 |-> Parsed0(garbage)]
  <2>1. IsParsing(g, argv, garbage, 0)
    BY DEF IsParsing
  <2> QED BY <2>1
<1>2. ASSUME NEW m \in 0..n, m \in S, m # n PROVE m + 1 \in S
  <2>1. PICK g : IsParsing(g, argv, garbage, m)
    BY <1>2
  <2> DEFINE h == [i \in 0..m + 1 |-> IF i = m + 1 THEN Parse(g[m], argv[m + 1]) ELSE g[i]]
  <2>2. ASSUME NEW i \in 0..m + 1
        PROVE  h[i] = IF i = 0 THEN Parsed0(garbage) ELSE Parse(h[i - 1], argv[i])
    <3>1. CASE i = m + 1
      <4>1. i # 0 /\ i - 1 = m /\ m \in 0..m + 1 /\ m # m + 1
        BY <3>1
      <4>2. h[m] = g[m]
        BY <4>1
      <4> QED BY <3>1, <4>1, <4>2
    <3>2. CASE i # m + 1
      <4>1. i \in 0..m /\ h[i] = g[i]
        BY <3>2
      <4>2. g[i] = IF i = 0 THEN Parsed0(garbage) ELSE Parse(g[i - 1], argv[i])
        BY <2>1, <4>1 DEF IsParsing
      <4>3. i # 0 => i - 1 \in 0..m + 1 /\ i - 1 # m + 1
        BY <4>1
      <4>4. i # 0 => h[i - 1] = g[i - 1]
        BY <4>3
      <4> HIDE DEF h
      <4> QED BY <4>1, <4>2, <4>4
    <3> QED BY <3>1, <3>2
  <2>3. IsParsing(h, argv, garbage, m + 1)
    <3>1. h = [i \in 0..m + 1 |-> h[i]]
      OBVIOUS
    <3> HIDE DEF h
    <3> QED BY <2>2, <3>1 DEF IsParsing
  <2>4. m + 1 \in 0..n
    BY <1>2
  <2> HIDE DEF h
  <2> QED BY <2>3, <2>4
<1> HIDE DEF S
<1>3. n \in S
  BY <1>1, <1>2, UpTo
<1> QED BY <1>3 DEF S

LEMMA ParseIsParsing ==
    ASSUME NEW argv, Len(argv) \in Nat, NEW garbage
    PROVE  \E g : IsParsing(g, argv, garbage, Len(argv)) /\ parse_opt(argv, garbage) = g[Len(argv)]
<1> DEFINE parsed == CHOOSE g : IsParsing(g, argv, garbage, Len(argv))
<1>1. IsParsing(parsed, argv, garbage, Len(argv))
  BY ParsingExists
<1>2. parse_opt(argv, garbage) = parsed[Len(argv)]
  BY DEF parse_opt, IsParsing, Parsed0
<1> QED BY <1>1, <1>2

(* The queue after the first m options. *)
ParsedOK(s, argv, m) ==
    /\ s.queue \in Seq(Commands)
    /\ \A k \in DOMAIN s.queue :
          /\ \E j \in 1..m : s.queue[k] = argv[j]
          /\ s.queue[k].opt \notin {"f", "p"}
          /\ s.ok => s.queue[k].opt \notin {"h", "?"}
          /\ s.queue[k].opt = "api" => k = Len(s.queue)

LEMMA ParseKeeps ==
    ASSUME NEW argv \in CommandLines, NEW n \in Nat, n = Len(argv), NEW m \in 0..n, m # n, NEW s,
           ParsedOK(s, argv, m)
    PROVE  ParsedOK(Parse(s, argv[m + 1]), argv, m + 1)
<1> DEFINE o == argv[m + 1]
           t == Parse(s, o)
<1>1. PICK line \in Seq(Commands) : line = argv
  BY ClientAssumption
<1>2. /\ m + 1 \in 1..m + 1 /\ m + 1 \in DOMAIN line
      /\ \A j \in 1..m : j \in 1..m + 1 /\ j \in DOMAIN line /\ j # n
  BY <1>1
<1>3. o \in Commands
  BY <1>1, <1>2
<1>4. \A j \in 1..m : argv[j].opt # "api"
  BY <1>1, <1>2, ClientAssumption
<1>5. /\ t.queue = IF o.opt \in {"f", "p"} THEN s.queue ELSE Append(s.queue, o)
      /\ t.ok => s.ok /\ o.opt \notin {"h", "?"}
  BY DEF Parse
<1>6. PICK queue \in Seq(Commands) : queue = s.queue
  BY DEF ParsedOK
<1>7. \A k \in DOMAIN queue :
         /\ \E j \in 1..m + 1 : queue[k] = argv[j]
         /\ queue[k].opt \notin {"f", "p"} /\ queue[k].opt # "api"
         /\ t.ok => queue[k].opt \notin {"h", "?"}
  BY <1>2, <1>4, <1>5, <1>6 DEF ParsedOK
<1> HIDE DEF t, o
<1>8. CASE o.opt \in {"f", "p"}
  <2>1. t.queue = queue
    BY <1>5, <1>6, <1>8
  <2> QED BY <1>7, <2>1 DEF ParsedOK, t, o
<1>9. CASE o.opt \notin {"f", "p"}
  <2>0. PICK e \in Commands : e = o
    BY <1>3
  <2>1. PICK q \in Seq(Commands) : q = Append(queue, e)
    <3>1. Append(queue, e) \in Seq(Commands)
      OBVIOUS
    <3> QED BY <3>1
  <2>2. /\ DOMAIN q = 1..Len(queue) + 1 /\ Len(q) = Len(queue) + 1 /\ Len(queue) \in Nat
        /\ DOMAIN queue = 1..Len(queue) /\ q[Len(queue) + 1] = e
        /\ \A k \in 1..Len(queue) : q[k] = queue[k]
    BY <2>1
  <2>3. t.queue = q
    BY <1>5, <1>6, <1>9, <2>0, <2>1
  <2>4. ASSUME NEW k \in DOMAIN q
        PROVE  /\ \E j \in 1..m + 1 : q[k] = argv[j]
               /\ q[k].opt \notin {"f", "p"}
               /\ t.ok => q[k].opt \notin {"h", "?"}
               /\ q[k].opt = "api" => k = Len(q)
    <3>1. CASE k = Len(queue) + 1
      BY <1>2, <1>5, <1>9, <2>0, <2>2, <3>1 DEF o
    <3>2. CASE k # Len(queue) + 1
      <4>1. k \in DOMAIN queue /\ q[k] = queue[k]
        BY <2>2, <2>4, <3>2
      <4> QED BY <1>7, <4>1
    <3> QED BY <3>1, <3>2
  <2> QED BY <2>3, <2>4 DEF ParsedOK, t, o
<1> QED BY <1>8, <1>9

LEMMA ParseOptFacts ==
    ASSUME NEW argv \in CommandLines, NEW garbage
    PROVE  LET s == parse_opt(argv, garbage)
           IN  s.queue \in Seq(Commands) /\ (s.ok => QueueOK(s.queue))
<1>1. argv \in Seq(Commands) /\ Len(argv) \in Nat /\ DOMAIN argv = 1..Len(argv)
  BY ClientAssumption
<1>2. PICK n \in Nat : n = Len(argv)
  BY <1>1
<1>3. PICK g : IsParsing(g, argv, garbage, n) /\ parse_opt(argv, garbage) = g[n]
  BY <1>2, ParseIsParsing
<1> DEFINE S == {m \in 0..n : ParsedOK(g[m], argv, m)}
<1>4. 0 \in S
  <2>1. 0 \in 0..n
    OBVIOUS
  <2>2. g[0] = Parsed0(garbage)
    BY <1>3, <2>1 DEF IsParsing
  <2>3. Parsed0(garbage).queue = <<>>
    BY DEF Parsed0
  <2>4. <<>> \in Seq(Commands)
    OBVIOUS
  <2>7. DOMAIN <<>> = {}
    OBVIOUS
  <2>5. PICK none \in Seq(Commands) : none = <<>> /\ DOMAIN none = {}
    BY <2>4, <2>7
  <2>6. ParsedOK(g[0], argv, 0)
    BY <2>2, <2>3, <2>5 DEF ParsedOK
  <2> QED BY <2>1, <2>6
<1>5. ASSUME NEW m \in 0..n, m \in S, m # n PROVE m + 1 \in S
  <2>1. m + 1 \in 0..n /\ m + 1 # 0 /\ (m + 1) - 1 = m
    BY <1>5
  <2>2. g[m + 1] = Parse(g[m], argv[m + 1])
    BY <1>3, <2>1 DEF IsParsing
  <2>3. ParsedOK(g[m], argv, m)
    BY <1>5
  <2>4. ParsedOK(Parse(g[m], argv[m + 1]), argv, m + 1)
    BY <1>2, <1>5, <2>3, ParseKeeps
  <2> QED BY <2>1, <2>2, <2>4
<1> HIDE DEF S
<1>6. n \in S
  BY <1>4, <1>5, UpTo
<1> DEFINE s == parse_opt(argv, garbage)
<1>7. ParsedOK(s, argv, n)
  BY <1>3, <1>6 DEF S
<1> HIDE DEF s
<1>8. s.queue \in Seq(Commands)
  BY <1>7 DEF ParsedOK
<1>9. ASSUME s.ok, NEW k \in DOMAIN s.queue
      PROVE  /\ s.queue[k].opt \in Runnable
             /\ s.queue[k].opt = "api" => k = Len(s.queue)
             /\ s.queue[k].opt \in {"w", "api"} => OnDisk(s.queue[k].files)
  <2>1. PICK j \in 1..n : s.queue[k] = argv[j]
    BY <1>7 DEF ParsedOK
  <2>2. j \in DOMAIN argv /\ argv[j] \in Commands
    BY <1>1, <1>2
  <2>3. argv[j].opt \in Options
    BY <2>2 DEF Commands
  <2>4. /\ s.queue[k].opt \notin {"f", "p", "h", "?"}
        /\ s.queue[k].opt = "api" => k = Len(s.queue)
    BY <1>7, <1>9 DEF ParsedOK
  <2>5. argv[j].opt \in {"w", "api"} => OnDisk(argv[j].files)
    BY <2>2, ClientAssumption DEF OnDisk
  <2> QED BY <2>1, <2>3, <2>4, <2>5 DEF Runnable
<1> QED BY <1>8, <1>9 DEF s, QueueOK

LEMMA StartStep ==
    ASSUME CInv, NEW p \in Pids, NEW argv \in CommandLines, NEW garbage, NEW found,
           Start(p, argv, garbage, found)
    PROVE  CInv' /\ [Next]_vars
<1> DEFINE c == client[p]
           s == parse_opt(argv, garbage)
<1>1. /\ IInv /\ c \in Clients /\ ClientOK(p) /\ c.pc \in {"off", "gone"}
      /\ UNCHANGED vars /\ starts \in Nat /\ starts' = starts + 1
  BY DEF CInv, Start
<1>2. s.queue \in Seq(Commands) /\ (s.ok => QueueOK(s.queue))
  BY ParseOptFacts
<1>3. PICK d \in Clients : /\ client' = [client EXCEPT ![p] = d] /\ d.pc \in {"idle", "gone"}
                           /\ LineOK(d) /\ CallOK(d) /\ ~IsApi(d)
  <2>1. CASE s.ok /\ "f" \in s.seen /\ found
    <3>1. PICK n \in Clients, queue \in Seq(Commands) :
              n = NotStarted /\ n.cmd = NULL /\ queue = s.queue
      BY <1>2, NotStartedParts
    <3> DEFINE d == [n EXCEPT !.pc = "idle", !.line = queue, !.queue = queue]
    <3>2. d \in Clients /\ d.pc = "idle" /\ d.line = queue /\ d.queue = queue /\ d.cmd = n.cmd
      BY DEF Clients
    <3>3. client' = [client EXCEPT ![p] = d]
      BY <2>1, <3>1 DEF Start
    <3> HIDE DEF d
    <3>4. LineOK(d)
      <4>1. QueueOK(queue) /\ Len(queue) \in Nat
        BY <1>2, <2>1, <3>1
      <4>2. \A i \in DOMAIN queue : Len(queue) - Len(queue) + i = i
        BY <4>1
      <4> QED BY <3>1, <3>2, <4>1, <4>2 DEF LineOK
    <3>5. CallOK(d) /\ ~IsApi(d)
      BY <3>1, <3>2 DEF CallOK, IsApi, Busy
    <3> QED BY <3>2, <3>3, <3>4, <3>5
  <2>2. CASE ~(s.ok /\ "f" \in s.seen /\ found)
    <3> DEFINE d == [NotStarted EXCEPT !.pc = "gone"]
    <3>1. "gone" \in {"off", "killed", "gone", "dead"}
      OBVIOUS
    <3>2. d \in Clients /\ d.pc = "gone" /\ LineOK(d) /\ CallOK(d) /\ ~IsApi(d)
      BY <3>1, NotStartedFacts
    <3>3. client' = [client EXCEPT ![p] = d]
      BY <2>2 DEF Start
    <3> HIDE DEF d
    <3> QED BY <3>2, <3>3
  <2> QED BY <2>1, <2>2
<1>4. client'[p] = d
  BY <1>3 DEF CInv
<1>5. IInv'
  BY <1>1, NextKeeps
<1>6. \A q \in Pids : Unseen(q) /\ SameCall(q) /\ SameEntries(q) /\ NoNewLock(q)
  BY <1>1, Stays
<1>7. Released(p)
  BY <1>1, <1>6, StillReleased
<1>8. SleepOK(p)' /\ WriteOK(p)'
  BY <1>3, <1>4, <1>7 DEF SleepOK, WriteOK, Released
<1>9. ~IsApi(c)
  BY <1>1 DEF ClientOK
<1>10. Owned(p)' = {} /\ \A f \in Names : ~Holds(p, f)'
  BY <1>1, <1>6, <1>9 DEF ClientOK, DescriptorsOK, LocksOK, SameEntries, NoNewLock
<1>11. DescriptorsOK(p)' /\ LocksOK(p)'
  BY <1>3, <1>4, <1>10 DEF DescriptorsOK, LocksOK, Busy
<1>12. ClientOK(p)' /\ starts' \in Nat
  BY <1>1, <1>3, <1>4, <1>8, <1>11 DEF ClientOK
<1> QED BY <1>1, <1>3, <1>5, <1>6, <1>12, StepOf DEF Others
-----------------------------------------------------------------------------
(* The clients and the file system together.                               *)

LEMMA ClientInitInv ==
    ASSUME ClientInit
    PROVE  CInv
<1>1. Init /\ client = [p \in Pids |-> NotStarted] /\ starts = 0
  BY DEF ClientInit
<1>2. IInv
  BY <1>1, InitInv
<1>3. client \in [Pids -> Clients]
  BY <1>1, NotStartedParts
<1>4. ASSUME NEW p \in Pids PROVE ClientOK(p)
  <2>1. PICK c \in Clients : /\ c = client[p] /\ c.pc = "off" /\ c.cmd = NULL
                             /\ c.line = <<>> /\ c.queue = <<>>
    BY <1>1, NotStartedParts
  <2>2. c.pc \notin Busy
    BY <2>1 DEF Busy
  <2>3. LineOK(c) /\ CallOK(c) /\ ~IsApi(c)
    BY <2>1, <2>2, NoCommands
  <2>4. waiting[p] = NULL /\ writing = NULL /\ Owned(p) = {} /\ \A f \in Names : ~Holds(p, f)
    BY <1>1 DEF Init, fdt_init, InUse, Owned, Holds, Exists
  <2>5. SleepOK(p) /\ WriteOK(p)
    BY <2>1, <2>4 DEF SleepOK, WriteOK
  <2>6. DescriptorsOK(p) /\ LocksOK(p)
    BY <2>1, <2>2, <2>4 DEF DescriptorsOK, LocksOK
  <2> QED BY <2>1, <2>3, <2>5, <2>6 DEF ClientOK
<1> QED BY <1>1, <1>2, <1>3, <1>4 DEF CInv

LEMMA ClientNextInv ==
    ASSUME CInv, [ClientNext]_clientvars
    PROVE  CInv' /\ [Next]_vars
<1>1. CASE UNCHANGED clientvars
  <2>1. IInv /\ UNCHANGED vars /\ UNCHANGED <<client, starts>>
    BY <1>1 DEF CInv, clientvars
  <2>2. IInv'
    BY <2>1, NextKeeps
  <2>3. \A q \in Pids : Unseen(q)
    BY <2>1, Stays
  <2> QED BY <2>1, <2>2, <2>3, Watching
<1>2. ASSUME NEW p \in Pids, NEW argv \in CommandLines, NEW garbage \in {"none", "W", "r"},
             NEW found \in BOOLEAN, Start(p, argv, garbage, found)
      PROVE  CInv' /\ [Next]_vars
  BY <1>2, StartStep
<1>3. ASSUME NEW p \in Pids, ApiCall(p), starts' = starts
      PROVE  CInv' /\ [Next]_vars
  <2>1. CASE \E api \in {"open_create", "open_lock", "open"} : OpenFile(p, api)
    BY <1>3, <2>1, OpenFileStep
  <2>2. CASE NoRequest(p)
    BY <1>3, <2>2, NoRequestStep
  <2>3. CASE LockFile(p)
    BY <1>3, <2>3, LockFileStep
  <2>4. CASE UnlockFile(p)
    BY <1>3, <2>4, UnlockFileStep
  <2>5. CASE ReadFile(p)
    BY <1>3, <2>5, ReadFileStep
  <2>6. CASE WriteFile(p)
    BY <1>3, <2>6, WriteFileStep
  <2>7. CASE RemovesFile(p)
    BY <1>3, <2>7, RemovesFileStep
  <2>8. ASSUME NEW stored \in BOOLEAN, CloseFile(p, stored) PROVE CInv' /\ [Next]_vars
    BY <1>3, <2>8, CloseFileStep
  <2>9. ASSUME NEW stored \in BOOLEAN, WriteGoesOn(p, stored) PROVE CInv' /\ [Next]_vars
    BY <1>3, <2>9, WriteGoesOnStep
  <2>10. CASE GoesOn(p)
    BY <1>3, <2>10, GoesOnStep
  <2> QED BY <1>3, <2>1, <2>2, <2>3, <2>4, <2>5, <2>6, <2>7, <2>8, <2>9, <2>10 DEF ApiCall
<1>4. ASSUME NEW p \in Pids, ClientStep(p), starts' = starts
      PROVE  CInv' /\ [Next]_vars
  <2>1. CASE NextCommand(p)
    BY <1>4, <2>1, NextCommandStep
  <2>2. CASE ApiCall(p)
    BY <1>3, <1>4, <2>2
  <2>3. CASE Leave(p)
    BY <1>4, <2>3, LeaveStep
  <2>4. CASE Dies(p)
    BY <1>4, <2>4, DiesStep
  <2>5. CASE (Spurious(p) \/ Tick) /\ UNCHANGED client
    BY <1>4, <2>5, QuietStep
  <2> QED BY <1>4, <2>1, <2>2, <2>3, <2>4, <2>5 DEF ClientStep
<1> QED BY <1>1, <1>2, <1>4 DEF ClientNext

(* Whatever the clients do, and whichever of them die, descriptors, locks, *)
(* sleeping threads and the write in progress belong to the calls that the *)
(* clients are in.                                                         *)
THEOREM ClientInvariant == ClientSpec => []CInv
<1>1. ClientInit => CInv
  BY ClientInitInv
<1>2. CInv /\ [ClientNext]_clientvars => CInv'
  BY ClientNextInv
<1> QED BY <1>1, <1>2, PTL DEF ClientSpec

(* Every call of a client is an operation of the file system, the ones     *)
(* that are refused changing nothing: what is proved of SimFS holds of a   *)
(* server with these clients.                                              *)
THEOREM ClientUsesFileSystem == ClientSpec => Spec
<1>1. ClientInit => Init
  BY DEF ClientInit
<1>2. CInv /\ [ClientNext]_clientvars => [Next]_vars
  BY ClientNextInv
<1> QED BY <1>1, <1>2, ClientInvariant, PTL DEF ClientSpec, Spec

(* The descriptors of the command line client's calls are its own, open,   *)
(* and of the file it means.                                               *)
THEOREM DescriptorsAreOwn == ClientSpec => []UsesOwnDescriptors
<1>1. ASSUME CInv PROVE UsesOwnDescriptors
  <2>1. SUFFICES ASSUME NEW p \in Pids, client[p].pc = "call", CommandLine(p),
                        Step(p) \in {"write", "read", "lock", "unlock", "close"}
                 PROVE  /\ Fd(p) \in InUse(fdt)
                        /\ fdt.table[Fd(p)].owner = p /\ Copy(Fd(p)).name = Name(p)
    BY DEF UsesOwnDescriptors, Step
  <2>2. client[p].pc \in Busy /\ ~IsApi(client[p])
    BY <2>1 DEF Busy, CommandLine, IsApi
  <2>3. client[p].step # 1
    BY <1>1, <2>1, <2>2, CommandFacts
  <2>4. Owned(p) = {Fd(p)} /\ Copy(Fd(p)).name = Name(p)
    BY <1>1, <2>2, <2>3 DEF CInv, ClientOK, DescriptorsOK
  <2> QED BY <2>4 DEF Owned
<1> QED BY <1>1, ClientInvariant, PTL

(* A pid without descriptors has no references either. *)
LEMMA NoReferences ==
    ASSUME IInv, NEW p \in Pids, Owned(p) = {}, NEW f \in Names, Exists(f)
    PROVE  files[f].refs[p] = 0
<1>1. Descriptors(p, f) = 0
  <2>1. {fd \in OwnedBy(fdt, p) : fdt.table[fd].inode.name = f} = {}
    <3>1. OwnedBy(fdt, p) = {fd \in InUse(fdt) : fdt.table[fd].owner = p}
      BY TypesOf, TableFacts, OwnedAreInUse
    <3> QED BY <3>1 DEF Owned
  <2> QED BY <2>1, FS_EmptySet DEF Descriptors, fdt_pid_inode_size
<1>2. files[f].refs[p] <= 0 /\ files[f].refs[p] \in Nat
  <2>1. files[f] \in Inodes
    BY TypesOf DEF Exists
  <2> QED BY <1>1, <2>1 DEF IInv, Locks, RefsHaveDescriptors, Inodes
<1> QED BY <1>2

(* Every command closes what it opened, also when it fails. *)
THEOREM CommandsClose == ClientSpec => []NothingLeftOpen
<1>1. ASSUME CInv PROVE NothingLeftOpen
  <2>1. SUFFICES ASSUME NEW p \in Pids, client[p].pc = "idle", CommandLine(p)
                 PROVE  Owned(p) = {}
    <3>1. IInv
      BY <1>1 DEF CInv
    <3> QED BY <3>1, NoReferences DEF NothingLeftOpen, Owned
  <2> QED BY <1>1, <2>1 DEF CInv, ClientOK, DescriptorsOK, CommandLine, IsApi
<1> QED BY <1>1, ClientInvariant, PTL

(* Sending, removing and unlocking leave no lock behind. *)
THEOREM CommandsUnlock == ClientSpec => []LocksAreAsked
<1>1. ASSUME CInv PROVE LocksAreAsked
  <2>1. SUFFICES ASSUME NEW p \in Pids, NEW f \in Names, client[p].pc = "idle", CommandLine(p),
                        ~client[p].failed, Holds(p, f)
                 PROVE  Asked(p, f)
    BY DEF LocksAreAsked, Holds, Asked
  <2> QED BY <1>1, <2>1 DEF CInv, ClientOK, LocksOK, CommandLine, IsApi
<1> QED BY <1>1, ClientInvariant, PTL

(* The end of a session takes everything its client had. *)
THEOREM ClientsLeaveNothing == ClientSpec => []LeavesNothing
<1>1. ASSUME CInv PROVE LeavesNothing
  <2>1. ASSUME NEW p \in Pids, client[p].pc = "gone"
        PROVE  Owned(p) = {} /\ \A f \in Names : ~Holds(p, f)
    BY <1>1, <2>1 DEF CInv, ClientOK, DescriptorsOK, LocksOK
  <2>2. IInv
    BY <1>1 DEF CInv
  <2> QED BY <2>1, <2>2, NoReferences DEF LeavesNothing, Owned, Holds
<1> QED BY <1>1, ClientInvariant, PTL
=============================================================================
