-------------------------- MODULE ClientData_proofs --------------------------
(***************************************************************************)
(* For every number of clients, every command line, and every content of   *)
(* the disk: what the server holds of a file is that file of the disk.     *)
(***************************************************************************)
EXTENDS Client_proofs

(* A command that sends files. *)
Sends(c) == c.cmd.opt \in {"w", "W"}

(* open_with_create_lock_flags is set by the first call for a file and     *)
(* cleared by the last one that works; the other program is never          *)
(* permitted to write.                                                     *)
FlagOK(c) ==
    /\ c.pc = "idle" /\ ~c.failed /\ ~IsApi(c) => ~c.flag
    /\ c.pc \in Busy /\ ~IsApi(c) /\ (c.step = 1 \/ c.cmd.opt = "R") => ~c.flag
    /\ c.pc \in Busy /\ IsApi(c) =>
          /\ c.pc # "writing" /\ c.step \in 1..Len(ApiProgram)
          /\ c.flag => \E j \in 1..c.step - 1 : ApiProgram[j] \in {"open_create", "open_lock"}

(* Before the write the copy behind the descriptor is that of an empty     *)
(* file, whatever others sent under the same name since it was opened; and *)
(* nobody who does not send has anything in a buffer.                      *)
BuffersOK(p) ==
    LET c == client[p]
    IN  c.pc \in Busy => \A fd \in Owned(p) :
          /\ ~(Sends(c) /\ c.step > 2) => Copy(fd).buffer = <<>>
          /\ Sends(c) /\ c.step = 2 => Copy(fd).ptr = NULL

(* The inductive invariant, besides CInv. *)
DInv == StoredIsLocal /\ \A p \in Pids : FlagOK(client[p]) /\ BuffersOK(p)
-----------------------------------------------------------------------------
(* What a step of the file system means for contents and buffers.          *)

(* Every content was there before, perhaps at another address. *)
SameContents ==
    \A f \in Names : files'[f] # NULL /\ files'[f].ptr # NULL =>
        /\ files[f] # NULL /\ files[f].ptr # NULL
        /\ heap'[files'[f].ptr] = heap[files[f].ptr]

(* The descriptors, but for X, are old ones with their old buffers, and a  *)
(* copy that points nowhere still does.                                    *)
SameBuffers(X) ==
    \A fd \in InUse(fdt') \ X :
        /\ fd \in InUse(fdt) /\ fdt'.table[fd].owner = fdt.table[fd].owner
        /\ fdt'.table[fd].inode.buffer = fdt.table[fd].inode.buffer
        /\ fdt.table[fd].inode.ptr = NULL => fdt'.table[fd].inode.ptr = NULL

LEMMA LocalKept ==
    ASSUME StoredIsLocal, SameContents
    PROVE  StoredIsLocal'
BY DEF StoredIsLocal, SameContents, Exists

(* The pointers of the inodes stay, or are dropped with their inode. *)
LEMMA PointersStay ==
    ASSUME heap' = heap,
           \A f \in Names : files'[f] # NULL /\ files'[f].ptr # NULL =>
               files[f] # NULL /\ files'[f].ptr = files[f].ptr
    PROVE  SameContents
BY DEF SameContents

LEMMA PointersReached ==
    ASSUME IInv, IInv', NEW h \in [Addrs -> Seq(Bytes) \cup {NULL}],
           heap' = Reachable(h, files', fdt'),
           \A f \in Names : files'[f] # NULL /\ files'[f].ptr # NULL =>
               /\ files[f] # NULL /\ files[f].ptr # NULL
               /\ h[files'[f].ptr] = heap[files[f].ptr]
    PROVE  SameContents
<1>1. files' \in [Names -> Inodes \cup {NULL}]
  BY DEF IInv, Tables, TypeOK
<1>2. PICK gs, u : gs = files' /\ u = fdt'
  OBVIOUS
<1>3. \A f \in Names : gs[f] # NULL /\ gs[f].ptr \in Addrs
                           => Reachable(h, gs, u)[gs[f].ptr] = h[gs[f].ptr]
  BY ReachableFacts
<1>4. \A f \in Names : files'[f] # NULL /\ files'[f].ptr # NULL => files'[f].ptr \in Addrs
  BY <1>1 DEF Inodes
<1> QED BY <1>2, <1>3, <1>4 DEF SameContents

(* Nothing happens to contents and descriptors. *)
LEMMA DescriptorsStay ==
    ASSUME UNCHANGED <<fdt, heap>>,
           \A f \in Names : files'[f] # NULL /\ files'[f].ptr # NULL =>
               files[f] # NULL /\ files'[f].ptr = files[f].ptr
    PROVE  SameContents /\ SameBuffers({})
<1>1. SameBuffers({})
  BY DEF SameBuffers
<1> QED BY <1>1, PointersStay

LEMMA OpenedData ==
    ASSUME IInv, NEW p \in Pids, NEW f \in Names, NEW inode \in Inodes, heap' = heap,
           fdt.size # MAX_OPEN_FILES, Opened(p, f, inode), clock \in Nat,
           Exists(f) => inode.ptr = files[f].ptr, ~Exists(f) => inode.ptr = NULL
    PROVE  /\ SameContents /\ SameBuffers({get_file_descriptor(fdt)})
           /\ LET e == fdt'.table[get_file_descriptor(fdt)]
              IN  e.owner = p /\ e.inode.buffer = <<>> /\ e.inode.ptr = inode.ptr
<1> DEFINE e == [owner |-> p, inode |-> inode_copy(f, inode)]
           fd0 == get_file_descriptor(fdt)
<1>0. inode_copy(f, inode) \in Copies
  BY DEF inode_copy, Inodes, Copies
<1>1. e \in Entries /\ e # NULL /\ e.owner = p /\ e.inode = inode_copy(f, inode)
  BY <1>0, NullAssumption DEF Entries
<1>2. fdt' = fdt_put(fdt, e) /\ files' = [files EXCEPT ![f] = increase_refs(inode, p, clock)]
  BY DEF Opened
<1>3. Tables /\ files \in [Names -> Inodes \cup {NULL}]
  BY DEF IInv, Tables, TypeOK
<1>4. /\ InUse(fdt') = InUse(fdt) \cup {fd0} /\ fdt'.table[fd0] = e
      /\ \A i \in InUse(fdt) : fdt'.table[i] = fdt.table[i]
  BY <1>1, <1>2, <1>3, TableFacts, PutSound
<1>5. e.inode.buffer = <<>> /\ e.inode.ptr = inode.ptr
  BY <1>1 DEF inode_copy
<1> HIDE DEF e, fd0
<1>6. SameBuffers({fd0})
  BY <1>4 DEF SameBuffers
<1>7. increase_refs(inode, p, clock).ptr = inode.ptr
  BY InodeRefs
<1>8. SameContents
  <2>1. \A g \in Names : files'[g] # NULL /\ files'[g].ptr # NULL =>
            files[g] # NULL /\ files'[g].ptr = files[g].ptr
    BY <1>2, <1>3, <1>7 DEF Exists
  <2> QED BY <2>1, PointersStay
<1> QED BY <1>1, <1>4, <1>5, <1>6, <1>8 DEF fd0

LEMMA OpenCreateData ==
    ASSUME IInv, NEW p \in Pids, NEW f \in Names, NEW lock \in BOOLEAN, OpenCreate(p, f, lock)
    PROVE  /\ SameContents /\ SameBuffers({get_file_descriptor(fdt)})
           /\ LET e == fdt'.table[get_file_descriptor(fdt)]
              IN  e.owner = p /\ e.inode.buffer = <<>> /\ e.inode.ptr = NULL
<1> DEFINE new == inode_init(clock)
           inode == IF lock THEN file_lock(new, p, clock) ELSE new
<1>1. Opened(p, f, inode) /\ heap' = heap /\ open_error(p, f, TRUE, lock) = "ok"
  BY DEF OpenCreate
<1>2. fdt.size # MAX_OPEN_FILES /\ ~Exists(f)
  BY <1>1 DEF open_error
<1>3. clock \in Nat
  BY TypesOf
<1>4. inode \in Inodes /\ inode.ptr = NULL
  <2>1. new \in Inodes /\ new.ptr = NULL
    BY <1>3, InodeInit
  <2> QED BY <1>3, <2>1, InodeLock
<1> HIDE DEF inode
<1> QED BY <1>1, <1>2, <1>3, <1>4, OpenedData

LEMMA OpenExistingData ==
    ASSUME IInv, NEW p \in Pids, NEW f \in Names, NEW lock \in BOOLEAN, OpenExisting(p, f, lock)
    PROVE  /\ SameContents /\ SameBuffers({get_file_descriptor(fdt)})
           /\ LET e == fdt'.table[get_file_descriptor(fdt)]
              IN  e.owner = p /\ e.inode.buffer = <<>>
<1> DEFINE inode == IF NeedsLock(p, f, lock) THEN file_lock(files[f], p, clock) ELSE files[f]
<1>1. Opened(p, f, inode) /\ heap' = heap /\ open_error(p, f, FALSE, lock) = "ok"
  BY DEF OpenExisting
<1>2. fdt.size # MAX_OPEN_FILES /\ Exists(f)
  BY <1>1 DEF open_error
<1>3. clock \in Nat /\ files[f] \in Inodes
  BY <1>2, TypesOf DEF Exists
<1>4. inode \in Inodes /\ inode.ptr = files[f].ptr
  BY <1>3, InodeLock
<1> HIDE DEF inode
<1> QED BY <1>1, <1>2, <1>3, <1>4, OpenedData

(* An open that was given the lock, or a lock. *)
LEMMA WakeUpData ==
    ASSUME IInv, NEW p \in Pids, WakeUp(p)
    PROVE  /\ SameContents
           /\ IF waiting[p].op = "open" /\ fdt.size # MAX_OPEN_FILES
              THEN /\ SameBuffers({get_file_descriptor(fdt)})
                   /\ LET e == fdt'.table[get_file_descriptor(fdt)]
                      IN  e.owner = p /\ e.inode.buffer = <<>>
              ELSE SameBuffers({})
<1>1. undefined = "no" /\ waiting[p] # NULL /\ heap' = heap
  BY DEF WakeUp, Awake
<1>2. PICK f \in Names : f = waiting[p].name
  BY <1>1, TypesOf DEF Waits
<1>3. Exists(f) /\ files[f] \in Inodes /\ clock \in Nat
  BY <1>1, <1>2, TypesOf DEF IInv, Locks, PendingIsOneWaiter, Exists
<1>4. files[f].pending = 1
  <2>1. p \in Waiters(f)
    BY <1>1, <1>2 DEF Waiters
  <2> QED BY <1>1, <1>3, <2>1, PendingCases
<1>5. PICK i \in Inodes : /\ i = decrease_pending_locks(file_lock(files[f], p, clock), clock)
                          /\ i.ptr = files[f].ptr
  <2> DEFINE x == file_lock(files[f], p, clock)
             y == decrease_pending_locks(x, clock)
  <2>1. x \in Inodes /\ x.ptr = files[f].ptr /\ x.pending = 1
    BY <1>3, <1>4, InodeLock
  <2> HIDE DEF x
  <2>2. y \in Inodes /\ y.ptr = x.ptr
    BY <1>3, <2>1, InodeNotPending
  <2> HIDE DEF y
  <2> QED BY <2>1, <2>2 DEF x, y
<1>6. IF waiting[p].op = "open" /\ fdt.size # MAX_OPEN_FILES
      THEN Opened(p, f, i) ELSE files' = [files EXCEPT ![f] = i] /\ fdt' = fdt
  BY <1>2, <1>5 DEF WakeUp
<1>7. CASE waiting[p].op = "open" /\ fdt.size # MAX_OPEN_FILES
  BY <1>1, <1>3, <1>5, <1>6, <1>7, OpenedData
<1>8. CASE ~(waiting[p].op = "open" /\ fdt.size # MAX_OPEN_FILES)
  <2>1. files' = [files EXCEPT ![f] = i] /\ fdt' = fdt
    BY <1>6, <1>8
  <2>2. \A g \in Names : files'[g] # NULL /\ files'[g].ptr # NULL =>
            files[g] # NULL /\ files'[g].ptr = files[g].ptr
    BY <1>3, <1>5, <2>1, TypesOf DEF Exists
  <2> QED BY <1>1, <1>8, <2>1, <2>2, DescriptorsStay
<1> QED BY <1>7, <1>8

(* One inode changes, and not in what it points to. *)
LEMMA InodeData ==
    ASSUME IInv, NEW f \in Names, Exists(f), NEW x \in Inodes, x.ptr = files[f].ptr,
           files' = [files EXCEPT ![f] = x], UNCHANGED <<fdt, heap>>
    PROVE  SameContents /\ SameBuffers({})
<1>1. \A g \in Names : files'[g] # NULL /\ files'[g].ptr # NULL =>
          files[g] # NULL /\ files'[g].ptr = files[g].ptr
  BY TypesOf DEF Exists
<1> QED BY <1>1, DescriptorsStay

LEMMA SleepData ==
    ASSUME IInv, NEW p \in Pids, NEW f \in Names, NEW op, Exists(f), Sleep(p, f, op)
    PROVE  SameContents /\ SameBuffers({})
<1>1. /\ files' = [files EXCEPT ![f] = increase_pending_locks(files[f], clock)]
      /\ UNCHANGED <<fdt, heap>>
  BY DEF Sleep
<1>2. PICK x \in Inodes : x = increase_pending_locks(files[f], clock) /\ x.ptr = files[f].ptr
  BY InodePending, TypesOf DEF Exists
<1> QED BY <1>1, <1>2, InodeData

LEMMA LocksData ==
    ASSUME IInv, NEW p \in Pids, NEW fd \in Fds,
           Lock(p, fd) \/ LockWaits(p, fd) \/ Unlock(p, fd)
    PROVE  SameContents /\ SameBuffers({})
<1>1. fd_error(p, fd) = "ok"
  BY DEF Lock, LockWaits, Unlock, lock_error, unlock_error
<1>2. PICK f \in Names : f = Copy(fd).name /\ Exists(f)
  BY <1>1, OwnDescriptor
<1>3. files[f] \in Inodes /\ clock \in Nat
  BY <1>2, TypesOf DEF Exists
<1>4. CASE Lock(p, fd)
  <2>1. files' = [files EXCEPT ![f] = file_lock(files[f], p, clock)] /\ UNCHANGED <<fdt, heap>>
    BY <1>2, <1>4 DEF Lock
  <2>2. PICK x \in Inodes : x = file_lock(files[f], p, clock) /\ x.ptr = files[f].ptr
    BY <1>3, InodeLock
  <2> QED BY <1>2, <2>1, <2>2, InodeData
<1>5. CASE LockWaits(p, fd)
  <2>1. Sleep(p, f, "lock")
    BY <1>2, <1>5 DEF LockWaits
  <2> QED BY <1>2, <2>1, SleepData
<1>6. CASE Unlock(p, fd)
  <2>1. files' = [files EXCEPT ![f] = file_unlock(files[f], clock)] /\ UNCHANGED <<fdt, heap>>
    BY <1>2, <1>6 DEF Unlock
  <2>2. PICK x \in Inodes : x = file_unlock(files[f], clock) /\ x.ptr = files[f].ptr
    BY <1>3, InodeUnlock
  <2> QED BY <1>2, <2>1, <2>2, InodeData
<1> QED BY <1>4, <1>5, <1>6

LEMMA OpenWaitsData ==
    ASSUME IInv, NEW p \in Pids, NEW f \in Names, OpenWaits(p, f)
    PROVE  SameContents /\ SameBuffers({})
<1>1. Exists(f) /\ Sleep(p, f, "open")
  BY DEF OpenWaits, open_error
<1> QED BY <1>1, SleepData

(* References that go leave the content alone. *)
LEMMA UnrefPointer ==
    ASSUME NEW x \in Inodes, NEW p, NEW n, NEW now
    PROVE  /\ decrease_refs(x, p, n, now).ptr = x.ptr
           /\ LET y == decrease_refs(x, p, n, now) IN file_unlock(y, now).ptr = x.ptr
<1> DEFINE y == decrease_refs(x, p, n, now)
<1>1. y = x \/ \E r : y = [x EXCEPT !.refs = r, !.ctime = now]
  BY DEF decrease_refs
<1>2. y.ptr = x.ptr /\ DOMAIN y = DOMAIN x
  <2> HIDE DEF y
  <2> QED BY <1>1 DEF Inodes
<1>3. DOMAIN x = {"locked", "refs", "pending", "size", "ptr", "btime", "ctime"}
  BY DEF Inodes
<1> HIDE DEF y
<1>4. file_unlock(y, now).ptr = y.ptr
  BY <1>2, <1>3 DEF file_unlock
<1> QED BY <1>2, <1>4 DEF y

LEMMA CloseData ==
    ASSUME IInv, IInv', NEW p \in Pids, NEW fd \in Fds, Close(p, fd)
    PROVE  SameContents /\ SameBuffers({})
<1>1. /\ fdt_error(fdt, fd, p) = "ok" /\ fdt' = remove_fd(fdt, fd)
      /\ heap' = Reachable(heap, files', fdt')
  BY DEF Close
<1>2. fd \in Nat /\ Tables /\ heap \in [Addrs -> Seq(Bytes) \cup {NULL}]
  BY SimFSAssumption DEF IInv, Tables, TypeOK, Fds
<1>3. fd \in InUse(fdt) /\ fdt.table[fd].owner = p /\ Copy(fd).name \in Names
  BY <1>1, <1>2, Accepted
<1>4. /\ InUse(fdt') = InUse(fdt) \ {fd}
      /\ \A i \in InUse(fdt') : fdt'.table[i] = fdt.table[i]
  BY <1>1, <1>2, <1>3, TableFacts, RemoveSound
<1>5. SameBuffers({})
  BY <1>4 DEF SameBuffers
<1>6. PICK f \in Names : f = Copy(fd).name
  BY <1>3
<1>7. \A g \in Names : files'[g] # NULL /\ files'[g].ptr # NULL =>
          files[g] # NULL /\ files'[g].ptr = files[g].ptr
  <2>1. CASE Exists(f) /\ files[f].refs[p] > 0
    <3>1. files' = [files EXCEPT ![f] = decrease_refs(files[f], p, 1, clock)]
      BY <1>6, <2>1 DEF Close
    <3>2. decrease_refs(files[f], p, 1, clock).ptr = files[f].ptr
      BY <2>1, TypesOf, UnrefPointer DEF Exists
    <3> QED BY <2>1, <3>1, <3>2, TypesOf DEF Exists
  <2>2. CASE ~(Exists(f) /\ files[f].refs[p] > 0)
    BY <1>6, <2>2 DEF Close
  <2> QED BY <2>1, <2>2
<1> QED BY <1>1, <1>2, <1>5, <1>7, PointersReached

LEMMA RemoveSessionData ==
    ASSUME IInv, IInv', NEW p \in Pids, RemoveSession(p)
    PROVE  SameContents /\ SameBuffers({})
<1> DEFINE Before(f) == \E i \in 1..StopsAt(p) - 1 : i <= Len(presence) /\ presence[i] = f
           At(f)     == StopsAt(p) <= Len(presence) /\ presence[StopsAt(p)] = f
           held(f)   == IF Before(f) THEN Descriptors(p, f)
                        ELSE IF At(f) THEN files[f].refs[p] ELSE 0
<1>1. heap' = Reachable(heap, files', fdt')
  BY DEF RemoveSession
<1>2. files' = [f \in Names |-> IF Before(f) THEN LeaveFile(p, files[f], held(f))
                                ELSE IF At(f) THEN decrease_refs(files[f], p, held(f), clock)
                                ELSE files[f]]
  BY DEF RemoveSession
<1>3. fdt' = IF StopsAt(p) > Len(presence) THEN fdt_remove_pid(fdt, p) ELSE fdt
  BY DEF RemoveSession
<1>4. Tables /\ heap \in [Addrs -> Seq(Bytes) \cup {NULL}] /\ presence \in Seq(Names)
  BY DEF IInv, Tables, TypeOK
<1>5. InUse(fdt') \subseteq InUse(fdt) /\ \A i \in InUse(fdt') : fdt'.table[i] = fdt.table[i]
  <2>1. CASE StopsAt(p) > Len(presence)
    BY <1>3, <1>4, <2>1, TableFacts, RemovePidSound
  <2>2. CASE ~(StopsAt(p) > Len(presence))
    BY <1>3, <2>2
  <2> QED BY <2>1, <2>2
<1>6. SameBuffers({})
  BY <1>5 DEF SameBuffers
<1>7. \A f \in Names : Before(f) \/ At(f) => files[f] # NULL
  <2>1. \A i \in DOMAIN presence : files[presence[i]] # NULL
    BY <1>4 DEF Tables, ListMatchesTable, ToSet, Exists
  <2>2. StopsAt(p) \in Nat \ {0}
    <3> DEFINE S == {i \in DOMAIN presence : Short(p, i)} \cup {Len(presence) + 1}
    <3>1. S \in SUBSET Nat /\ S # {} /\ S \subseteq Nat \ {0}
      BY <1>4
    <3>2. Min(S) \in S
      BY <3>1, MinIsLeast
    <3>3. StopsAt(p) = Min(S)
      BY DEF StopsAt
    <3> HIDE DEF S
    <3> QED BY <3>1, <3>2, <3>3
  <2> QED BY <1>4, <2>1, <2>2
<1> HIDE DEF Before, At, held
<1>8. ASSUME NEW f \in Names, files'[f] # NULL, files'[f].ptr # NULL
      PROVE  files[f] # NULL /\ files'[f].ptr = files[f].ptr
  <2>1. CASE Before(f) \/ At(f)
    <3>1. PICK x \in Inodes, n \in {held(f)} : x = files[f] /\ n = held(f)
      BY <1>7, <2>1, TypesOf
    <3>2. LeaveFile(p, x, n).ptr = x.ptr /\ decrease_refs(x, p, n, clock).ptr = x.ptr
      BY UnrefPointer DEF LeaveFile
    <3>3. files'[f] \in {decrease_refs(x, p, n, clock), LeaveFile(p, x, n)}
      BY <1>2, <2>1, <3>1
    <3> QED BY <1>7, <2>1, <3>1, <3>2, <3>3
  <2>2. CASE ~(Before(f) \/ At(f))
    BY <1>2, <1>8, <2>2
  <2> QED BY <2>1, <2>2
<1> QED BY <1>1, <1>4, <1>6, <1>8, PointersReached

(* Copies that dangle keep what is in their buffers. *)
LEMMA DanglingBuffers ==
    ASSUME NEW t, IsTable(t), NEW ptr
    PROVE  LET u == Dangling(t, ptr)
           IN  /\ InUse(u) = InUse(t)
               /\ \A i \in InUse(t) :
                     /\ u.table[i].owner = t.table[i].owner
                     /\ u.table[i].inode.buffer = t.table[i].inode.buffer
                     /\ t.table[i].inode.ptr = NULL => u.table[i].inode.ptr = NULL
<1> DEFINE new(fd) == [t.table[fd] EXCEPT !.inode.ptr = FREED]
           tab == [fd \in DOMAIN t.table |->
                      IF t.table[fd] # NULL /\ ptr # NULL /\ t.table[fd].inode.ptr = ptr
                      THEN new(fd) ELSE t.table[fd]]
           u == Dangling(t, ptr)
<1>1. u = [t EXCEPT !.table = tab]
  BY DEF Dangling
<1>2. u.table = tab
  BY <1>1 DEF IsTable
<1>3. /\ LikeTable(t, u)
      /\ \A i \in InUse(t) :
            u.table[i].inode.ptr = IF ptr # NULL /\ t.table[i].inode.ptr = ptr
                                   THEN FREED ELSE t.table[i].inode.ptr
  BY DanglingFacts
<1>4. ASSUME NEW i \in InUse(t)
      PROVE  u.table[i].inode.buffer = t.table[i].inode.buffer
  <2>1. i \in DOMAIN t.table /\ t.table[i] \in Entries /\ t.table[i].inode \in Copies
    BY DEF IsTable, InUse, Entries
  <2>2. u.table[i] \in {t.table[i], new(i)}
    BY <1>2, <2>1
  <2>3. new(i).inode.buffer = t.table[i].inode.buffer
    <3> DEFINE c == [t.table[i].inode EXCEPT !.ptr = FREED]
    <3>1. new(i) = [t.table[i] EXCEPT !.inode = c]
      OBVIOUS
    <3>2. c.buffer = t.table[i].inode.buffer
      BY <2>1 DEF Copies
    <3> HIDE DEF c
    <3>3. new(i).inode = c
      BY <2>1, <3>1 DEF Entries
    <3> QED BY <3>2, <3>3
  <2> HIDE DEF u
  <2> QED BY <2>2, <2>3
<1> HIDE DEF u
<1> QED BY <1>3, <1>4 DEF LikeTable, u

(* The artifact of f is freed, and f does not point to it any more. *)
LEMMA FreedData ==
    ASSUME IInv, IInv', NEW f \in Names, Exists(f),
           files'[f] = NULL \/ files'[f].ptr = NULL,
           \A g \in Names \ {f} : files'[g] = files[g],
           fdt' = Dangling(fdt, files[f].ptr),
           heap' = Reachable(Freed(heap, files[f].ptr), files', fdt')
    PROVE  SameContents /\ SameBuffers({})
<1>1. PICK b \in Addrs \cup {NULL} : b = files[f].ptr
  BY TypesOf DEF Exists, Inodes
<1>2. heap \in [Addrs -> Seq(Bytes) \cup {NULL}]
  BY DEF IInv, Tables, TypeOK
<1>3. PICK h : h = Freed(heap, b)
  OBVIOUS
<1>4. h \in [Addrs -> Seq(Bytes) \cup {NULL}] /\ \A a \in Addrs : a # b => h[a] = heap[a]
  BY <1>2, <1>3 DEF Freed
<1>5. \A g \in Names : files[g] # NULL /\ files[g].ptr # NULL => files[g].ptr \in Addrs
  BY TypesOf DEF Inodes
<1>6. \A g \in Names \ {f} : files[g] # NULL /\ files[g].ptr # NULL => files[g].ptr # b
  BY <1>1 DEF IInv, Artifacts, InodePointersLive, Exists
<1>7. \A g \in Names : files'[g] # NULL /\ files'[g].ptr # NULL =>
          /\ files[g] # NULL /\ files[g].ptr # NULL
          /\ h[files'[g].ptr] = heap[files[g].ptr]
  BY <1>4, <1>5, <1>6
<1>8. SameContents
  <2>1. heap' = Reachable(h, files', fdt')
    BY <1>1, <1>3
  <2> QED BY <1>4, <1>7, <2>1, PointersReached
<1>9. SameBuffers({})
  <2>1. fdt' = Dangling(fdt, b)
    BY <1>1
  <2>2. IsTable(fdt)
    BY TableIs
  <2> QED BY <2>1, <2>2, DanglingBuffers DEF SameBuffers
<1> QED BY <1>8, <1>9

LEMMA DestroyData ==
    ASSUME IInv, IInv', NEW f \in Names, Exists(f), NEW n, DestroyFile(f, n)
    PROVE  SameContents /\ SameBuffers({})
<1>1. /\ files' = [files EXCEPT ![f] = NULL] /\ fdt' = Dangling(fdt, files[f].ptr)
      /\ heap' = Reachable(Freed(heap, files[f].ptr), files', fdt')
  BY DEF DestroyFile
<1>2. files'[f] = NULL /\ \A g \in Names \ {f} : files'[g] = files[g]
  BY <1>1, TypesOf
<1> QED BY <1>1, <1>2, FreedData

LEMMA FailedReadData ==
    ASSUME IInv, IInv', NEW f \in Names, Exists(f), FailedRead(f)
    PROVE  SameContents /\ SameBuffers({})
<1>1. /\ fdt' = Dangling(fdt, files[f].ptr)
      /\ heap' = Reachable(Freed(heap, files[f].ptr), files', fdt')
      /\ files' = IF files[f].ptr = NULL THEN files
                  ELSE [files EXCEPT ![f] = inode_read(files[f], NULL, 0, clock)]
  BY DEF FailedRead
<1>2. PICK y \in Inodes : y = inode_read(files[f], NULL, 0, clock) /\ y.ptr = NULL
  BY TypesOf, InodeContent DEF Exists
<1>3. files'[f].ptr = NULL /\ \A g \in Names \ {f} : files'[g] = files[g]
  BY <1>1, <1>2, TypesOf
<1> QED BY <1>1, <1>3, FreedData

LEMMA RemoveFileData ==
    ASSUME IInv, IInv', NEW p \in Pids, NEW f \in Names, RemoveFile(p, f)
    PROVE  SameContents /\ SameBuffers({})
<1>1. Exists(f) /\ DestroyFile(f, files[f].size)
  BY DEF RemoveFile, remove_error
<1> QED BY <1>1, DestroyData

LEMMA ReadNothingData ==
    ASSUME IInv, IInv', NEW p \in Pids, NEW fd \in Fds, ReadNothing(p, fd)
    PROVE  SameContents /\ SameBuffers({})
<1>1. read_error(p, fd) = "ok" /\ FailedRead(Copy(fd).name)
  BY DEF ReadNothing
<1>2. fd_error(p, fd) = "ok"
  BY <1>1 DEF read_error, access_error, fd_error
<1>3. PICK f \in Names : f = Copy(fd).name /\ Exists(f)
  BY <1>2, FileOfDescriptor
<1>4. FailedRead(f)
  BY <1>1, <1>3 DEF FailedRead
<1> QED BY <1>3, <1>4, FailedReadData

LEMMA EvictionData ==
    ASSUME IInv, IInv', Evict \/ EvictFails
    PROVE  SameContents /\ SameBuffers({})
<1>1. no_victim_error = "ok"
  BY DEF Evict, EvictFails
<1>2. presence # <<>> /\ replacement_policy # "NONE"
  BY <1>1 DEF no_victim_error
<1>3. PICK f \in Names : f = Victim /\ Exists(f)
  BY <1>2, VictimExists
<1>4. CASE Evict
  <2>1. PICK n : DestroyFile(f, n)
    BY <1>3, <1>4 DEF Evict
  <2> QED BY <1>3, <2>1, DestroyData
<1>5. CASE EvictFails
  <2>1. FailedRead(f)
    BY <1>3, <1>5 DEF EvictFails, FailedRead
  <2> QED BY <1>3, <2>1, FailedReadData
<1> QED BY <1>4, <1>5

(* Reading moves the content of the file to another address. *)
LEMMA ReadData ==
    ASSUME IInv, IInv', NEW p \in Pids, NEW fd \in Fds, Read(p, fd), Copy(fd).buffer = <<>>
    PROVE  SameContents /\ SameBuffers({})
<1>1. read_error(p, fd) = "ok"
  BY DEF Read
<1>2. fd_error(p, fd) = "ok"
  BY <1>1 DEF read_error, access_error, fd_error
<1>3. fd \in InUse(fdt) /\ Copy(fd) = fdt.table[fd].inode
  BY <1>2, FileOfDescriptor DEF Copy, fdt_get
<1>4. PICK f \in Names : f = Copy(fd).name /\ Exists(f)
  BY <1>2, FileOfDescriptor
<1> DEFINE a0 == Fresh(files, fdt)
           old0 == heap[files[f].ptr]
           y0 == inode_read(files[f], a0, encode_size(old0), clock)
           fs0 == [files EXCEPT ![f] = y0]
           h0 == [Freed(heap, files[f].ptr) EXCEPT ![a0] = old0]
           t0 == Dangling(fdt, files[f].ptr)
<1>5. /\ Readable(files[f]) /\ HasMemory(files, fdt)
      /\ Flush(fd, fs0, h0, t0)
  BY <1>4 DEF Read
<1>6. /\ clock \in Nat /\ files[f] \in Inodes /\ files \in [Names -> Inodes \cup {NULL}]
      /\ heap \in [Addrs -> Seq(Bytes) \cup {NULL}] /\ IsTable(fdt) /\ NULL \notin Inodes
  BY <1>4, TypesOf, TableIs DEF IInv, Tables, TypeOK, Exists
<1>7. PICK b \in Addrs, bytes \in Seq(Bytes) : b = files[f].ptr /\ bytes = old0
  <2>1. files[f].ptr # NULL
    BY <1>5 DEF Readable
  <2> QED BY <1>4, <2>1, ContentOf
<1>8. PICK a \in Addrs \ Referenced(files, fdt) : a = a0
  BY <1>5, FreshFacts
<1>9. PICK n \in Int : n = encode_size(bytes)
  BY SizeIsNat
<1>10. PICK y \in Inodes : y = y0 /\ y.ptr = a
  <2>1. PICK x \in Inodes : x = files[f]
    BY <1>6
  <2> DEFINE z == inode_read(x, a, n, clock)
  <2>2. z \in Inodes /\ z.ptr = a
    BY <1>6, InodeContent
  <2>3. z = y0
    BY <1>7, <1>8, <1>9, <2>1
  <2> HIDE DEF z, y0
  <2> QED BY <2>1, <2>2, <2>3
<1>11. PICK fs, h, t : fs = fs0 /\ h = h0 /\ t = t0
  OBVIOUS
<1>12. Flush(fd, fs, h, t)
  <2> HIDE DEF fs0, h0, t0
  <2> QED BY <1>5, <1>11
<1>13. fs = [files EXCEPT ![f] = y] /\ h = [Freed(heap, b) EXCEPT ![a] = bytes]
       /\ t = Dangling(fdt, b)
  BY <1>7, <1>8, <1>10, <1>11, SMTT(40)
<1> HIDE DEF a0, old0, y0, fs0, h0, t0
<1>14. /\ LikeTable(fdt, t) /\ InUse(t) = InUse(fdt)
       /\ \A i \in InUse(fdt) :
             /\ t.table[i].owner = fdt.table[i].owner
             /\ t.table[i].inode.buffer = fdt.table[i].inode.buffer
             /\ fdt.table[i].inode.ptr = NULL => t.table[i].inode.ptr = NULL
  BY <1>6, <1>13, DanglingFacts, DanglingBuffers
<1>15. t.table[fd].inode.buffer = <<>> /\ t.table[fd].inode.name = f
  BY <1>3, <1>4, <1>14 DEF LikeTable
<1>16. /\ files' = [fs EXCEPT ![f].ctime = clock] /\ fdt' = t
       /\ heap' = Reachable(h, files', fdt')
  BY <1>12, <1>15 DEF Flush
<1>17. SameBuffers({})
  BY <1>14, <1>16 DEF SameBuffers
<1>18. files'[f].ptr = a /\ \A g \in Names \ {f} : files'[g] = files[g]
  <2>1. fs[f] = y /\ f \in DOMAIN fs /\ \A g \in Names \ {f} : fs[g] = files[g] /\ g \in DOMAIN fs
    BY <1>6, <1>13
  <2>2. PICK z : z = [y EXCEPT !.ctime = clock]
    OBVIOUS
  <2>3. z.ptr = a
    BY <1>10, <2>2 DEF Inodes
  <2>4. files'[f] = z
    BY <1>16, <2>1, <2>2
  <2> QED BY <1>16, <2>1, <2>3, <2>4
<1>19. \A g \in Names \ {f} : files[g] # NULL /\ files[g].ptr # NULL =>
           files[g].ptr \in Addrs /\ files[g].ptr # a /\ files[g].ptr # b
  <2>1. \A g \in Names : files[g] # NULL => files[g].ptr \in Referenced(files, fdt)
    BY DEF Referenced
  <2>2. \A g \in Names : files[g] # NULL /\ files[g].ptr # NULL => files[g].ptr \in Addrs
    BY <1>6 DEF Inodes
  <2>3. \A g \in Names \ {f} : files[g] # NULL /\ files[g].ptr # NULL => files[g].ptr # b
    BY <1>4, <1>7 DEF IInv, Artifacts, InodePointersLive, Exists
  <2> QED BY <2>1, <2>2, <2>3
<1>20. /\ h \in [Addrs -> Seq(Bytes) \cup {NULL}] /\ h[a] = bytes
       /\ \A k \in Addrs : k # a /\ k # b => h[k] = heap[k]
  BY <1>6, <1>13 DEF Freed
<1>21. \A g \in Names : files'[g] # NULL /\ files'[g].ptr # NULL =>
           /\ files[g] # NULL /\ files[g].ptr # NULL
           /\ h[files'[g].ptr] = heap[files[g].ptr]
  <2>1. files[f] # NULL /\ files[f].ptr # NULL /\ heap[files[f].ptr] = bytes
    BY <1>4, <1>7, SimFSAssumption DEF Exists, old0
  <2> QED BY <1>18, <1>19, <1>20, <2>1
<1>22. SameContents
  BY <1>16, <1>20, <1>21, PointersReached
<1> QED BY <1>17, <1>22

(* Sending a file through the copy of an empty file stores that file,      *)
(* whoever stored it before.                                               *)
LEMMA WriteCopyData ==
    ASSUME IInv, IInv', StoredIsLocal, undefined = "no",
           NEW p \in Pids, NEW fd \in Fds, NEW f \in Names, NEW buf \in Payloads,
           fd \in Owned(p), Copy(fd).name = f, Copy(fd).ptr = NULL, Copy(fd).buffer = <<>>,
           buf = Local[f], WriteCopy(p, fd, buf)
    PROVE  StoredIsLocal' /\ SameBuffers({fd}) /\ fdt'.table[fd].owner = p
<1>1. /\ fd \in InUse(fdt) /\ fdt.table[fd].owner = p /\ Copy(fd) = fdt.table[fd].inode
      /\ fdt.table[fd].inode \in Copies
  BY DEF Owned, Copy, fdt_get, IInv, Tables, TypeOK, Entries
<1>2. fdt'.table[fd].owner = p
  BY <1>1, WriteCopyStep DEF DataStep, LikeTable
<1>3. CASE access_error(p, fd) # "ok"
  <2>1. SameContents /\ SameBuffers({})
    BY <1>3, DescriptorsStay DEF WriteCopy
  <2> QED BY <1>2, <2>1, LocalKept DEF SameBuffers
<1> DEFINE c0 == inode_write(fdt.table[fd].inode, buf)
           t0 == [fdt EXCEPT !.table[fd].inode = c0]
<1>4. CASE access_error(p, fd) = "ok"
  <2>1. PICK x \in Copies : x = fdt.table[fd].inode
    BY <1>1
  <2>2. PICK bytes \in Seq(Bytes) : bytes = x.buffer \o buf /\ bytes = buf
    <3>1. x.buffer = <<>> /\ buf \in Seq(Bytes)
      BY <1>1, <2>1, SimFSAssumption
    <3>2. <<>> \o buf = buf
      BY <3>1
    <3> QED BY <3>1, <3>2
  <2>3. PICK c \in Copies : /\ c = c0 /\ c.name = f /\ c.locked = x.locked
                            /\ c.ptr = NULL /\ c.buffer = bytes
    <3> DEFINE z == [x EXCEPT !.buffer = bytes]
    <3>1. z \in Copies /\ z.name = x.name /\ z.locked = x.locked /\ z.ptr = x.ptr /\ z.buffer = bytes
      BY DEF Copies
    <3>2. z = c0
      BY <2>1, <2>2 DEF inode_write
    <3> HIDE DEF z, c0
    <3> QED BY <1>1, <2>1, <3>1, <3>2
  <2>4. PICK t : t = t0 /\ t = [fdt EXCEPT !.table[fd].inode = c]
    BY <2>3
  <2>5. WriteCopy(p, fd, buf) /\ [fdt EXCEPT !.table[fd].inode = inode_write(@, buf)] = t0
    OBVIOUS
  <2>6. \/ ~Exists(f) /\ fdt' = t0 /\ UNCHANGED <<files, heap>>
        \/ Exists(f) /\ Flush(fd, files, heap, t0)
    BY <1>4, <2>5 DEF WriteCopy
  <2> HIDE DEF c0, t0
  <2>7. /\ LikeTable(fdt, t) /\ t.table[fd].inode = c
        /\ \A i \in InUse(fdt) \ {fd} : t.table[i] = fdt.table[i]
    BY <1>1, <2>1, <2>3, <2>4, TableIs, SetCopy
  <2>8. IsTable(t) /\ InUse(t) = InUse(fdt)
    BY <2>7 DEF LikeTable
  <2>9. CASE ~Exists(f)
    <3>1. fdt' = t /\ heap' = heap /\ files' = files
      BY <2>4, <2>6, <2>9
    <3>2. SameBuffers({fd})
      BY <2>7, <2>8, <3>1 DEF SameBuffers
    <3>3. StoredIsLocal'
      BY <3>1 DEF StoredIsLocal, Exists
    <3> QED BY <1>2, <3>2, <3>3
  <2>10. CASE Exists(f) /\ bytes = <<>>
    <3>1. Flush(fd, files, heap, t)
      BY <2>4, <2>6, <2>10
    <3>2. /\ files' = [files EXCEPT ![f].ctime = clock] /\ fdt' = t
          /\ heap' = Reachable(heap, files', fdt')
      BY <2>3, <2>7, <2>10, <3>1 DEF Flush
    <3>3. SameBuffers({fd})
      BY <2>7, <2>8, <3>2 DEF SameBuffers
    <3>4. files \in [Names -> Inodes \cup {NULL}] /\ files[f] \in Inodes
      BY <2>10, TypesOf DEF Exists
    <3>5. PICK y : y = [files[f] EXCEPT !.ctime = clock] /\ y.ptr = files[f].ptr
      <4>1. PICK x1 \in Inodes : x1 = files[f]
        BY <3>4
      <4>2. [x1 EXCEPT !.ctime = clock].ptr = x1.ptr
        BY DEF Inodes
      <4> QED BY <4>1, <4>2
    <3>6. files'[f] = y /\ \A g \in Names \ {f} : files'[g] = files[g]
      BY <3>2, <3>4, <3>5
    <3>7. \A g \in Names : files'[g] # NULL /\ files'[g].ptr # NULL =>
              /\ files[g] # NULL /\ files[g].ptr # NULL
              /\ heap[files'[g].ptr] = heap[files[g].ptr]
      BY <2>10, <3>5, <3>6 DEF Exists
    <3>8. heap \in [Addrs -> Seq(Bytes) \cup {NULL}]
      BY DEF IInv, Tables, TypeOK
    <3>9. SameContents
      BY <3>2, <3>7, <3>8, PointersReached
    <3> QED BY <1>2, <3>3, <3>9, LocalKept
  <2>11. CASE Exists(f) /\ bytes # <<>>
    <3> DEFINE new0 == <<>> \o c.buffer
               a0 == Fresh(files, t)
               done0 == inode_fflush(c, a0, encode_size(new0))
               y0 == flushed(files[f], a0, encode_size(new0) - c.size)
               s0 == [t EXCEPT !.table[fd].inode = done0]
    <3>1. Flush(fd, files, heap, t)
      BY <2>4, <2>6, <2>11
    <3>2. t.table[fd].inode = c /\ c.ptr = NULL /\ NULL # FREED /\ c.buffer # <<>> /\ c.name = f
      BY <2>3, <2>7, <2>11, SimFSAssumption
    <3>3. /\ HasMemory(files, t) /\ fdt' = Dangling(s0, NULL)
          /\ files' = [files EXCEPT ![f] = y0]
          /\ heap' = Reachable([Freed(heap, NULL) EXCEPT ![a0] = new0], files', fdt')
      BY <3>1, <3>2 DEF Flush
    <3>4. new0 = bytes
      BY <2>3
    <3>5. PICK a \in Addrs \ Referenced(files, t) : a = a0
      BY <3>3, FreshFacts
    <3>6. PICK n \in Int, m \in Int : n = encode_size(new0) /\ m = n - c.size
      <4>1. encode_size(bytes) \in Int /\ c.size \in Int
        BY SizeIsNat DEF Copies
      <4>2. encode_size(bytes) - c.size \in Int
        BY <4>1
      <4> QED BY <3>4, <4>1, <4>2
    <3>7. PICK done \in Copies : /\ done = done0 /\ done.name = f /\ done.locked = c.locked
      <4>0. <<>> \in Seq(Bytes)
        OBVIOUS
      <4>1. PICK e \in Seq(Bytes) : e = <<>>
        BY <4>0, Zenon
      <4> DEFINE z == [c EXCEPT !.buffer = e, !.ptr = a, !.size = n]
      <4>2. z = done0
        BY <3>5, <3>6, <4>1 DEF inode_fflush
      <4>3. z \in Copies /\ z.name = c.name /\ z.locked = c.locked
        BY DEF Copies
      <4> HIDE DEF z, done0
      <4> QED BY <2>3, <4>2, <4>3
    <3>8. PICK y \in Inodes : y = y0 /\ y.ptr = a
      <4>1. PICK i \in Inodes : i = files[f] /\ clock \in Nat
        BY <2>11, TypesOf DEF Exists
      <4> DEFINE z == flushed(i, a, m)
      <4>2. z \in Inodes /\ z.ptr = a
        BY <4>1, InodeFlushed
      <4>3. z = y0
        BY <3>5, <3>6, <4>1
      <4> HIDE DEF z, y0
      <4> QED BY <4>2, <4>3
    <3>9. PICK s : s = [t EXCEPT !.table[fd].inode = done] /\ fdt' = Dangling(s, NULL)
      BY <3>3, <3>7
    <3>10. files' = [files EXCEPT ![f] = y]
      BY <3>3, <3>8
    <3>11. PICK h : /\ h = [heap EXCEPT ![a] = bytes]
                    /\ heap' = Reachable(h, files', fdt')
      BY <3>3, <3>4, <3>5 DEF Freed
    <3> HIDE DEF new0, a0, done0, y0, s0
    <3>12. /\ LikeTable(t, s) /\ \A i \in InUse(t) \ {fd} : s.table[i] = t.table[i]
      BY <1>1, <2>3, <2>7, <2>8, <3>7, <3>9, SetCopy
    <3>13. SameBuffers({fd})
      <4>1. IsTable(s) /\ InUse(s) = InUse(fdt)
        BY <2>8, <3>12 DEF LikeTable
      <4>2. \A i \in InUse(fdt) \ {fd} : s.table[i] = fdt.table[i]
        BY <2>7, <2>8, <3>12
      <4>3. PICK v : v = Dangling(s, NULL) /\ fdt' = v
        BY <3>9
      <4>4. /\ InUse(v) = InUse(s)
            /\ \A i \in InUse(s) :
                  /\ v.table[i].owner = s.table[i].owner
                  /\ v.table[i].inode.buffer = s.table[i].inode.buffer
                  /\ s.table[i].inode.ptr = NULL => v.table[i].inode.ptr = NULL
        BY <4>1, <4>3, DanglingBuffers
      <4> QED BY <4>1, <4>2, <4>3, <4>4 DEF SameBuffers
    <3>14. /\ files \in [Names -> Inodes \cup {NULL}] /\ NULL \notin Inodes
           /\ heap \in [Addrs -> Seq(Bytes) \cup {NULL}]
      BY TypesOf DEF IInv, Tables, TypeOK
    <3>15. files'[f] = y /\ \A g \in Names \ {f} : files'[g] = files[g]
      BY <3>10, <3>14
    <3>16. \A g \in Names : files[g] # NULL => files[g].ptr # a
      BY <3>5 DEF Referenced
    <3>17. /\ h \in [Addrs -> Seq(Bytes) \cup {NULL}] /\ h[a] = bytes
           /\ \A k \in Addrs : k # a => h[k] = heap[k]
      BY <3>11, <3>14
    <3>18. PICK gs, u : gs = files' /\ u = fdt'
      OBVIOUS
    <3>19. \A g \in Names : gs[g] # NULL /\ gs[g].ptr \in Addrs
                               => Reachable(h, gs, u)[gs[g].ptr] = h[gs[g].ptr]
      BY <3>17, ReachableFacts
    <3>20. ASSUME NEW g \in Names, files'[g] # NULL, files'[g].ptr # NULL
           PROVE  heap'[files'[g].ptr] = Local[g]
      <4>1. CASE g = f
        BY <2>2, <3>8, <3>11, <3>15, <3>17, <3>18, <3>19, <3>20, <4>1
      <4>2. CASE g # f
        <5>1. files'[g] = files[g] /\ files[g].ptr \in Addrs /\ files[g].ptr # a
          BY <3>14, <3>15, <3>16, <3>20, <4>2 DEF Inodes
        <5>2. heap[files[g].ptr] = Local[g]
          BY <3>20, <5>1 DEF StoredIsLocal, Exists
        <5> QED BY <3>11, <3>17, <3>18, <3>19, <3>20, <5>1, <5>2
      <4> QED BY <4>1, <4>2
    <3>21. StoredIsLocal'
      BY <3>20 DEF StoredIsLocal, Exists
    <3> QED BY <1>2, <3>13, <3>21
  <2> QED BY <2>9, <2>10, <2>11
<1> QED BY <1>3, <1>4
-----------------------------------------------------------------------------
(* What a call means for its client, and for the others.                   *)

LEMMA DataStepOf ==
    ASSUME CInv, DInv, StoredIsLocal', NEW p \in Pids, NEW d, client' = [client EXCEPT ![p] = d],
           NEW X, SameBuffers(X), \A fd \in X \cap InUse(fdt') : fdt'.table[fd].owner = p,
           FlagOK(d), BuffersOK(p)'
    PROVE  DInv'
<1>1. /\ client'[p] = d /\ \A q \in Pids \ {p} : client'[q] = client[q]
  BY DEF CInv
<1>2. ASSUME NEW q \in Pids \ {p} PROVE FlagOK(client'[q]) /\ BuffersOK(q)'
  <2>1. FlagOK(client[q]) /\ BuffersOK(q) /\ client'[q] = client[q]
    BY <1>1 DEF DInv
  <2>2. \A fd \in Owned(q)' :
            /\ fd \in Owned(q) /\ Copy(fd)'.buffer = Copy(fd).buffer
            /\ Copy(fd).ptr = NULL => Copy(fd)'.ptr = NULL
    BY DEF Owned, SameBuffers, Copy, fdt_get
  <2> QED BY <2>1, <2>2 DEF BuffersOK
<1> QED BY <1>1, <1>2 DEF DInv

(* The descriptors of p, but for X, are as they were. *)
LEMMA OwnBuffers ==
    ASSUME CInv, CInv', DInv, NEW p \in Pids, client[p].pc \in Busy,
           client'[p].cmd = client[p].cmd, NEW X, SameBuffers(X),
           client'[p].pc \in Busy =>
               \/ client'[p].step = 1 \/ client'[p].step = client[p].step
               \/ client'[p].step = client[p].step + 1,
           \A fd \in X \cap InUse(fdt') :
               /\ ~(Sends(client[p]) /\ client'[p].step > 2) => Copy(fd)'.buffer = <<>>
               /\ Sends(client[p]) /\ client'[p].step = 2 => Copy(fd)'.ptr = NULL
    PROVE  BuffersOK(p)'
<1> DEFINE c == client[p]
           d == client'[p]
<1> SUFFICES ASSUME d.pc \in Busy, NEW fd \in Owned(p)'
             PROVE  /\ ~(Sends(d) /\ d.step > 2) => Copy(fd)'.buffer = <<>>
                    /\ Sends(d) /\ d.step = 2 => Copy(fd)'.ptr = NULL
  BY DEF BuffersOK
<1>1. Sends(d) <=> Sends(c)
  BY DEF Sends
<1>2. CASE fd \in X
  BY <1>1, <1>2 DEF Owned
<1>3. CASE fd \notin X
  <2>1. /\ fd \in Owned(p) /\ Copy(fd)'.buffer = Copy(fd).buffer
        /\ Copy(fd).ptr = NULL => Copy(fd)'.ptr = NULL
    BY <1>3 DEF Owned, SameBuffers, Copy, fdt_get
  <2>2. /\ ~(Sends(c) /\ c.step > 2) => Copy(fd).buffer = <<>>
        /\ Sends(c) /\ c.step = 2 => Copy(fd).ptr = NULL
    BY <2>1 DEF DInv, BuffersOK
  <2>3. CASE ~Sends(c)
    BY <1>1, <2>1, <2>2, <2>3
  <2>4. CASE Sends(c)
    <3>1. ~IsApi(c) /\ ~IsApi(d)
      BY <1>1, <2>4 DEF Sends, IsApi
    <3>2. d.step # 1
      BY <3>1 DEF CInv, ClientOK, DescriptorsOK
    <3>3. c.step # 1
      BY <2>1, <3>1 DEF CInv, ClientOK, DescriptorsOK
    <3>4. c.step \in Nat /\ d.step \in Nat
      BY ClientParts DEF CInv
    <3>5. c.step # 0
      BY <3>1, CommandFacts
    <3>6. c.step > 2 => d.step > 2
      BY <3>2, <3>4
    <3>7. d.step = 2 => c.step = 2
      BY <3>2, <3>3, <3>4, <3>5
    <3> QED BY <1>1, <2>1, <2>2, <2>4, <3>6, <3>7
  <2> QED BY <2>3, <2>4
<1> QED BY <1>2, <1>3

(* The flag after a call. *)
LEMMA FlagAfter ==
    ASSUME CInv, DInv, NEW p \in Pids, client[p].pc \in Busy, NEW ok \in BOOLEAN, NEW e \in Clients,
           e.names = client[p].names, e.cmd = client[p].cmd, e.step = client[p].step,
           e.failed = client[p].failed,
           e.flag => client[p].flag \/ Step(p) \in {"open_create", "open_lock"},
           ok /\ Step(p) \notin {"open_create", "open_lock"} => ~e.flag
    PROVE  FlagOK(After(e, ok))
<1> DEFINE c == client[p]
           n == Len(Script(c.cmd))
<1>1. /\ c \in Clients /\ c.cmd # NULL /\ c.names # <<>> /\ c.cmd.opt \in Calling
      /\ FlagOK(c) /\ c.step \in Nat
  BY BusyFacts, ClientParts DEF DInv
<1>2. PICK d : d = After(e, ok)
  OBVIOUS
<1>3. /\ d.cmd = c.cmd /\ d.flag = e.flag
      /\ \/ SkipsTheRest(e, ok) /\ d.pc = "idle" /\ d.failed
         \/ c.step < n /\ d.pc = "call" /\ d.step = c.step + 1
         \/ /\ ~(c.step < n) /\ d.pc = "idle"
            /\ d.failed <=> (c.failed \/ ~ok) /\ c.cmd.opt # "R"
         \/ ~(c.step < n) /\ d.pc = "call" /\ d.step = 1 /\ ok
  BY <1>1, <1>2, AfterCases
<1>4. IsApi(d) <=> IsApi(c)
  BY <1>3 DEF IsApi
<1>5. CASE ~IsApi(c)
  <2>1. /\ c.step \in 1..n /\ n \in {3, 4}
        /\ c.step = n => Step(p) \notin {"open_create", "open_lock"}
        /\ c.cmd.opt = "R" => Step(p) \notin {"open_create", "open_lock"}
    BY <1>5, CommandFacts
  <2>2. c.cmd.opt = "R" => ~e.flag
    BY <1>1, <1>5, <2>1 DEF FlagOK
  <2>3. c.step + 1 # 1
    BY <2>1
  <2>4. ~(c.step < n) => c.step = n
    BY <2>1
  <2>5. ok /\ ~(c.step < n) => ~e.flag
    BY <2>1, <2>4
  <2>6. CASE d.pc = "idle"
    <3>1. d.failed \/ ~e.flag
      BY <1>3, <2>2, <2>5, <2>6, Zenon
    <3> QED BY <1>2, <1>3, <2>6, <3>1 DEF FlagOK, Busy
  <2>7. CASE c.step < n /\ d.pc = "call" /\ d.step = c.step + 1
    BY <1>2, <1>3, <1>4, <1>5, <2>2, <2>3, <2>7 DEF FlagOK, Busy
  <2>8. CASE ~(c.step < n) /\ d.pc = "call" /\ d.step = 1 /\ ok
    BY <1>2, <1>3, <1>4, <1>5, <2>5, <2>8 DEF FlagOK, Busy
  <2> QED BY <1>3, <2>6, <2>7, <2>8
<1>6. CASE IsApi(c)
  <2>1. Script(c.cmd) = ApiProgram
    BY <1>6 DEF Script, IsApi
  <2>2. PICK m \in Nat : m = Len(ApiProgram) /\ m # 0 /\ n = m
    BY <2>1, ProgramAssumption
  <2>3. c.step \in 1..m /\ (c.flag => \E j \in 1..c.step - 1 : ApiProgram[j] \in {"open_create", "open_lock"})
    BY <1>1, <1>6, <2>2 DEF FlagOK
  <2>4. Step(p) = ApiProgram[c.step]
    BY <2>1 DEF Step
  <2>5. ok /\ ~(c.step < n) => ~e.flag
    <3> HAVE ok /\ ~(c.step < n)
    <3>1. c.step = Len(ApiProgram)
      BY <2>2, <2>3
    <3> QED BY <2>4, <3>1, ProgramAssumption
  <2>6. e.flag => \E j \in 1..c.step : ApiProgram[j] \in {"open_create", "open_lock"}
    <3> HAVE e.flag
    <3>1. c.step \in 1..c.step /\ \A j \in 1..c.step - 1 : j \in 1..c.step
      BY <2>3
    <3> QED BY <2>3, <2>4, <3>1
  <2>7. c.step < n => c.step + 1 \in 1..m
    BY <2>2, <2>3
  <2>8. 1 \in 1..m
    BY <2>2
  <2>9. d.pc \in Busy => /\ d.pc # "writing" /\ d.step \in 1..Len(ApiProgram)
                         /\ d.flag => \E j \in 1..d.step - 1 : ApiProgram[j] \in {"open_create", "open_lock"}
    <3>1. CASE d.pc = "idle"
      BY <3>1 DEF Busy
    <3>2. CASE c.step < n /\ d.pc = "call" /\ d.step = c.step + 1
      <4>1. PICK k : k = c.step + 1 /\ d.step = k /\ k \in 1..m
        BY <2>7, <3>2
      <4>2. e.flag => \E j \in 1..k - 1 : ApiProgram[j] \in {"open_create", "open_lock"}
        <5>1. k - 1 = c.step
          BY <2>3, <4>1
        <5> QED BY <2>6, <5>1
      <4> QED BY <1>3, <2>2, <3>2, <4>1, <4>2
    <3>3. CASE ~(c.step < n) /\ d.pc = "call" /\ d.step = 1 /\ ok
      BY <1>3, <2>2, <2>5, <2>8, <3>3
    <3> QED BY <1>3, <3>1, <3>2, <3>3
  <2> QED BY <1>2, <1>4, <1>6, <2>9 DEF FlagOK
<1> QED BY <1>5, <1>6

(* The call of p is answered; X are the descriptors it opens or writes to. *)
LEMMA Answered ==
    ASSUME CInv, CInv', DInv, StoredIsLocal', NEW p \in Pids, client[p].pc \in Busy,
           NEW ok \in BOOLEAN, NEW flag \in BOOLEAN, NEW fds \in [Names -> Fds \cup {NULL}],
           client' = [client EXCEPT ![p] = After([client[p] EXCEPT !.flag = flag, !.fds = fds], ok)],
           flag => client[p].flag \/ Step(p) \in {"open_create", "open_lock"},
           ok /\ Step(p) \notin {"open_create", "open_lock"} => ~flag,
           NEW X, SameBuffers(X),
           \A fd \in X \cap InUse(fdt') :
               /\ fdt'.table[fd].owner = p
               /\ ~(Sends(client[p]) /\ client[p].step = 2) => Copy(fd)'.buffer = <<>>
               /\ Sends(client[p]) /\ client[p].step = 1 => Copy(fd)'.ptr = NULL
    PROVE  DInv'
<1> DEFINE c == client[p]
<1>1. c \in Clients /\ c.names # <<>> /\ c.step \in Nat
  BY BusyFacts, ClientParts
<1>2. PICK e \in Clients : /\ e = [c EXCEPT !.flag = flag, !.fds = fds]
                           /\ e.names = c.names /\ e.cmd = c.cmd /\ e.step = c.step
                           /\ e.failed = c.failed /\ e.flag = flag
  <2> DEFINE e == [c EXCEPT !.flag = flag, !.fds = fds]
  <2>1. /\ e \in Clients /\ e.names = c.names /\ e.cmd = c.cmd /\ e.step = c.step
        /\ e.failed = c.failed /\ e.flag = flag
    BY <1>1 DEF Clients
  <2> QED BY <2>1
<1>3. PICK d : d = After(e, ok)
  OBVIOUS
<1>4. client' = [client EXCEPT ![p] = d] /\ client'[p] = d
  BY <1>2, <1>3 DEF CInv
<1>5. FlagOK(d)
  BY <1>2, <1>3, FlagAfter
<1>6. d.cmd = c.cmd /\ (d.pc \in Busy => d.step = 1 \/ d.step = c.step + 1)
  <2>1. /\ d.cmd = e.cmd
        /\ \/ d.pc = "idle"
           \/ d.pc = "call" /\ d.step = e.step + 1
           \/ d.pc = "call" /\ d.step = 1
    BY <1>1, <1>2, <1>3, AfterCases
  <2> QED BY <1>2, <2>1 DEF Busy
<1>7. BuffersOK(p)'
  <2>1. CASE d.pc \notin Busy
    BY <1>4, <2>1 DEF BuffersOK
  <2>2. CASE d.pc \in Busy
    <3>1. ASSUME NEW fd \in X \cap InUse(fdt'), Sends(c), d.step = 1
          PROVE  FALSE
      <4>1. ~IsApi(d)
        BY <1>6, <3>1 DEF Sends, IsApi
      <4> QED BY <1>4, <2>2, <3>1, <4>1 DEF CInv, ClientOK, DescriptorsOK, Owned
    <3>2. \A fd \in X \cap InUse(fdt') :
              /\ ~(Sends(c) /\ d.step > 2) => Copy(fd)'.buffer = <<>>
              /\ Sends(c) /\ d.step = 2 => Copy(fd)'.ptr = NULL
      BY <1>1, <1>6, <2>2, <3>1
    <3> QED BY <1>4, <1>6, <2>2, <3>2, OwnBuffers
  <2> QED BY <2>1, <2>2
<1> QED BY <1>4, <1>5, <1>7, DataStepOf

LEMMA FailedData ==
    ASSUME CInv, CInv', DInv, StoredIsLocal', NEW p \in Pids, client[p].pc \in Busy, Failure(p),
           NEW X, SameBuffers(X),
           \A fd \in X \cap InUse(fdt') :
               fdt'.table[fd].owner = p /\ Sends(client[p]) /\ client[p].step = 2
    PROVE  DInv'
<1> DEFINE c == client[p]
<1>1. c \in Clients /\ c.flag \in BOOLEAN /\ c.fds \in [Names -> Fds \cup {NULL}]
  BY BusyFacts
<1>2. PICK flag \in BOOLEAN, fds \in [Names -> Fds \cup {NULL}] : flag = c.flag /\ fds = c.fds
  BY <1>1
<1>3. c = [c EXCEPT !.flag = flag, !.fds = fds]
  BY <1>1, <1>2 DEF Clients
<1>4. client' = [client EXCEPT ![p] = After([client[p] EXCEPT !.flag = flag, !.fds = fds], FALSE)]
  BY <1>3 DEF Failure, Answer
<1>5. FALSE \in BOOLEAN
  OBVIOUS
<1>6. flag => client[p].flag \/ Step(p) \in {"open_create", "open_lock"}
  BY <1>2
<1>7. \A fd \in X \cap InUse(fdt') :
          /\ fdt'.table[fd].owner = p
          /\ ~(Sends(client[p]) /\ client[p].step = 2) => Copy(fd)'.buffer = <<>>
          /\ Sends(client[p]) /\ client[p].step = 1 => Copy(fd)'.ptr = NULL
  OBVIOUS
<1>8. PICK ok \in BOOLEAN : ok = FALSE
  BY <1>5
<1> QED BY <1>4, <1>6, <1>7, <1>8, Answered

LEMMA SucceededData ==
    ASSUME CInv, CInv', DInv, StoredIsLocal', NEW p \in Pids, client[p].pc \in Busy, Success(p),
           NEW X, SameBuffers(X),
           \A fd \in X \cap InUse(fdt') :
               fdt'.table[fd].owner = p /\ Sends(client[p]) /\ client[p].step = 2
    PROVE  DInv'
<1> DEFINE c == client[p]
<1>1. c \in Clients /\ c.fds \in [Names -> Fds \cup {NULL}]
  BY BusyFacts
<1>2. PICK fds \in [Names -> Fds \cup {NULL}] : fds = c.fds
  BY <1>1
<1>3. [c EXCEPT !.flag = FALSE] = [c EXCEPT !.flag = FALSE, !.fds = fds]
  BY <1>1, <1>2 DEF Clients
<1>4. client' = [client EXCEPT ![p] = After([client[p] EXCEPT !.flag = FALSE, !.fds = fds], TRUE)]
  BY <1>3 DEF Success, Answer
<1>5. FALSE \in BOOLEAN /\ TRUE \in BOOLEAN
  OBVIOUS
<1>6. \A fd \in X \cap InUse(fdt') :
          /\ fdt'.table[fd].owner = p
          /\ ~(Sends(client[p]) /\ client[p].step = 2) => Copy(fd)'.buffer = <<>>
          /\ Sends(client[p]) /\ client[p].step = 1 => Copy(fd)'.ptr = NULL
  OBVIOUS
<1>7. PICK ok \in BOOLEAN, flag \in BOOLEAN : ok = TRUE /\ flag = FALSE
  BY <1>5
<1> QED BY <1>4, <1>6, <1>7, Answered

(* An open that worked. *)
LEMMA GotFdData ==
    ASSUME CInv, CInv', DInv, StoredIsLocal', NEW p \in Pids, client[p].pc \in Busy,
           NEW flags, GotFd(p, flags), get_file_descriptor(fdt) \in Fds,
           flags # {} <=> Step(p) \in {"open_create", "open_lock"},
           SameBuffers({get_file_descriptor(fdt)}),
           LET e == fdt'.table[get_file_descriptor(fdt)]
           IN  /\ e.owner = p /\ e.inode.buffer = <<>>
               /\ Sends(client[p]) => e.inode.ptr = NULL
    PROVE  DInv'
<1> DEFINE c == client[p]
           fd == get_file_descriptor(fdt)
<1>1. c \in Clients /\ c.fds \in [Names -> Fds \cup {NULL}] /\ Name(p) \in Names
  BY BusyFacts
<1>2. PICK fds \in [Names -> Fds \cup {NULL}] : fds = [c.fds EXCEPT ![Name(p)] = fd]
  BY <1>1
<1>3. PICK flag \in BOOLEAN : flag = (flags # {})
  OBVIOUS
<1>4. client' = [client EXCEPT ![p] = After([client[p] EXCEPT !.flag = flag, !.fds = fds], TRUE)]
  BY <1>2, <1>3 DEF GotFd, Answer, put
<1>5. TRUE \in BOOLEAN
  OBVIOUS
<1>6. PICK X : X = {fd}
  OBVIOUS
<1>7. /\ SameBuffers(X)
      /\ \A i \in X \cap InUse(fdt') :
             /\ fdt'.table[i].owner = p /\ Copy(i)'.buffer = <<>>
             /\ Sends(c) => Copy(i)'.ptr = NULL
  BY <1>6 DEF Copy, fdt_get
<1>8. /\ flag => client[p].flag \/ Step(p) \in {"open_create", "open_lock"}
      /\ Step(p) \notin {"open_create", "open_lock"} => ~flag
  BY <1>3
<1> HIDE DEF fd
<1> QED BY <1>4, <1>5, <1>7, <1>8, Answered

(* The client waits for the answer, or something happens that is not about *)
(* clients.                                                                *)
LEMMA WaitingData ==
    ASSUME CInv, CInv', DInv, NEW p \in Pids, client[p].pc \in Busy,
           SameContents, SameBuffers({}), NEW pc \in Busy,
           client' = [client EXCEPT ![p].pc = pc], pc = "writing" => ~IsApi(client[p])
    PROVE  DInv'
<1> DEFINE c == client[p]
<1>1. c \in Clients /\ FlagOK(c)
  BY DEF CInv, DInv
<1>2. PICK d : /\ d = [c EXCEPT !.pc = pc] /\ d.pc = pc /\ d.cmd = c.cmd /\ d.step = c.step
               /\ d.failed = c.failed /\ d.flag = c.flag
  <2> DEFINE d == [c EXCEPT !.pc = pc]
  <2>1. /\ d.pc = pc /\ d.cmd = c.cmd /\ d.step = c.step
        /\ d.failed = c.failed /\ d.flag = c.flag
    BY <1>1 DEF Clients
  <2> QED BY <2>1
<1>3. client' = [client EXCEPT ![p] = d] /\ client'[p] = d
  BY <1>2 DEF CInv
<1>4. FlagOK(d)
  BY <1>1, <1>2 DEF FlagOK, IsApi, Busy
<1>5. BuffersOK(p)'
  BY <1>2, <1>3, OwnBuffers
<1>6. StoredIsLocal'
  BY LocalKept DEF DInv
<1> QED BY <1>3, <1>4, <1>5, <1>6, DataStepOf

LEMMA QuietData ==
    ASSUME DInv, SameContents, SameBuffers({}), client' = client
    PROVE  DInv'
<1>1. StoredIsLocal'
  BY LocalKept DEF DInv
<1>2. ASSUME NEW q \in Pids PROVE FlagOK(client'[q]) /\ BuffersOK(q)'
  <2>1. \A fd \in Owned(q)' :
            /\ fd \in Owned(q) /\ Copy(fd)'.buffer = Copy(fd).buffer
            /\ Copy(fd).ptr = NULL => Copy(fd)'.ptr = NULL
    BY DEF Owned, SameBuffers, Copy, fdt_get
  <2> QED BY <2>1 DEF DInv, BuffersOK
<1> QED BY <1>1, <1>2 DEF DInv

(* A client that is not busy any more. *)
LEMMA IdleData ==
    ASSUME CInv, DInv, NEW p \in Pids, SameContents, SameBuffers({}), NEW d,
           client' = [client EXCEPT ![p] = d], d.pc \notin Busy, FlagOK(d)
    PROVE  DInv'
<1>1. client'[p] = d
  BY DEF CInv
<1>2. BuffersOK(p)'
  BY <1>1 DEF BuffersOK
<1>3. StoredIsLocal'
  BY LocalKept DEF DInv
<1> QED BY <1>2, <1>3, DataStepOf
-----------------------------------------------------------------------------
(* The calls.                                                              *)

LEMMA PlainAnswer ==
    ASSUME CInv, CInv', DInv, NEW p \in Pids, client[p].pc \in Busy, Success(p) \/ Failure(p),
           SameContents, SameBuffers({})
    PROVE  DInv'
<1>1. StoredIsLocal'
  BY LocalKept DEF DInv
<1>2. PICK X : X = {} /\ SameBuffers(X)
  OBVIOUS
<1>3. \A fd \in X \cap InUse(fdt') :
          fdt'.table[fd].owner = p /\ Sends(client[p]) /\ client[p].step = 2
  BY <1>2
<1>4. CASE Success(p)
  BY <1>1, <1>2, <1>3, <1>4, SucceededData
<1>5. CASE Failure(p)
  BY <1>1, <1>2, <1>3, <1>5, FailedData
<1> QED BY <1>4, <1>5

LEMMA NothingHappens ==
    ASSUME UNCHANGED vars
    PROVE  SameContents /\ SameBuffers({})
<1>1. fdt' = fdt /\ heap' = heap /\ files' = files
  BY DEF vars, table
<1> QED BY <1>1, DescriptorsStay

(* The calls of a command that sends files. *)
LEMMA SendingSteps ==
    ASSUME CInv, NEW p \in Pids, client[p].pc \in Busy, Sends(client[p])
    PROVE  /\ ~IsApi(client[p]) /\ client[p].step \in 1..4
           /\ Step(p) = "open_create" <=> client[p].step = 1
           /\ Step(p) = "write" <=> client[p].step = 2
           /\ Step(p) \in {"open_create", "write", "unlock", "close"}
<1> DEFINE c == client[p]
<1>1. /\ ~IsApi(c) /\ c.cmd.opt \in Calling \ {"api"} /\ c.cmd.opt \in {"w", "W"}
  BY BusyFacts DEF Sends, IsApi
<1>2. Script(c.cmd) = send_file
  BY <1>1, Scripts
<1>3. c.step \in 1..Len(Script(c.cmd))
  BY <1>1, CommandFacts
<1> QED BY <1>1, <1>2, <1>3 DEF send_file, Step

LEMMA OpenFileData ==
    ASSUME CInv, CInv', DInv, NEW p \in Pids, NEW api \in {"open_create", "open_lock", "open"},
           OpenFile(p, api)
    PROVE  DInv'
<1> DEFINE flags == Flags(api)
           create == "O_CREATE" \in flags
           lock == "O_LOCK" \in flags
<1>0. IInv /\ IInv'
  BY DEF CInv
<1>1. client[p].pc = "call" /\ client[p].pc \in Busy /\ Step(p) = api
  BY DEF OpenFile, Calls, Step, Busy
<1>2. PICK f \in Names : f = Name(p)
  BY <1>1, BusyFacts
<1>3. /\ flags # {} <=> Step(p) \in {"open_create", "open_lock"}
      /\ create <=> api = "open_create"
  BY <1>1 DEF Flags
<1>4. lock \in BOOLEAN
  OBVIOUS
<1>5. /\ \/ create /\ OpenCreate(p, f, lock) /\ GotFd(p, flags)
         \/ ~create /\ OpenExisting(p, f, lock) /\ GotFd(p, flags)
         \/ ~create /\ OpenWaits(p, f) /\ Sleeps(p)
         \/ Refused(p) /\ Failure(p)
  BY <1>2 DEF OpenFile, Creates
<1>6. PICK l \in BOOLEAN : l = lock
  BY <1>4
<1> HIDE DEF flags, create, lock
<1>7. CASE create /\ OpenCreate(p, f, lock) /\ GotFd(p, flags)
  <2>1. OpenCreate(p, f, l)
    BY <1>6, <1>7
  <2>2. get_file_descriptor(fdt) \in Fds
    BY <1>0, <2>1, OpenCreateSeen DEF GotDescriptor
  <2>3. /\ SameContents /\ SameBuffers({get_file_descriptor(fdt)})
        /\ LET e == fdt'.table[get_file_descriptor(fdt)]
           IN  e.owner = p /\ e.inode.buffer = <<>> /\ e.inode.ptr = NULL
    BY <1>0, <2>1, OpenCreateData
  <2>4. StoredIsLocal'
    BY <2>3, LocalKept DEF DInv
  <2> QED BY <1>1, <1>3, <1>7, <2>2, <2>3, <2>4, GotFdData
<1>8. CASE ~create /\ OpenExisting(p, f, lock) /\ GotFd(p, flags)
  <2>1. OpenExisting(p, f, l)
    BY <1>6, <1>8
  <2>2. get_file_descriptor(fdt) \in Fds
    BY <1>0, <2>1, OpenExistingSeen DEF GotDescriptor
  <2>3. /\ SameContents /\ SameBuffers({get_file_descriptor(fdt)})
        /\ LET e == fdt'.table[get_file_descriptor(fdt)]
           IN  e.owner = p /\ e.inode.buffer = <<>>
    BY <1>0, <2>1, OpenExistingData
  <2>4. StoredIsLocal'
    BY <2>3, LocalKept DEF DInv
  <2>5. ~Sends(client[p])
    BY <1>1, <1>3, <1>8, SendingSteps
  <2> QED BY <1>1, <1>3, <1>8, <2>2, <2>3, <2>4, <2>5, GotFdData
<1>9. CASE ~create /\ OpenWaits(p, f) /\ Sleeps(p)
  <2>1. SameContents /\ SameBuffers({})
    BY <1>0, <1>9, OpenWaitsData
  <2>2. PICK pc \in Busy : pc = "asleep"
    BY DEF Busy
  <2>3. client' = [client EXCEPT ![p].pc = pc] /\ pc # "writing"
    BY <1>9, <2>2 DEF Sleeps
  <2> QED BY <1>1, <2>1, <2>3, WaitingData
<1>10. CASE Refused(p) /\ Failure(p)
  BY <1>1, <1>10, NothingHappens, PlainAnswer DEF Refused
<1> QED BY <1>5, <1>7, <1>8, <1>9, <1>10

LEMMA NoRequestData ==
    ASSUME CInv, CInv', DInv, NEW p \in Pids, NoRequest(p)
    PROVE  DInv'
<1>1. client[p].pc \in Busy /\ Failure(p) /\ UNCHANGED vars
  BY DEF NoRequest, Busy
<1> QED BY <1>1, NothingHappens, PlainAnswer

LEMMA LockFileData ==
    ASSUME CInv, CInv', DInv, NEW p \in Pids, LockFile(p)
    PROVE  DInv'
<1>0. "lock" \in {"write", "read", "lock", "unlock", "close"} /\ Requests(p, "lock")
  BY DEF LockFile
<1>1. client[p].pc = "call" /\ client[p].pc \in Busy /\ IInv /\ Fd(p) \in Fds
  BY <1>0, RequestFacts
<1>2. PICK fd \in Fds : fd = Fd(p)
  BY <1>1
<1>3. CASE Lock(p, Fd(p)) /\ Success(p)
  <2>1. Lock(p, fd)
    BY <1>2, <1>3
  <2> QED BY <1>1, <1>3, <2>1, LocksData, PlainAnswer
<1>4. CASE LockWaits(p, Fd(p)) /\ Sleeps(p)
  <2>1. LockWaits(p, fd)
    BY <1>2, <1>4
  <2>2. SameContents /\ SameBuffers({})
    BY <1>1, <2>1, LocksData
  <2>3. PICK pc \in Busy : pc = "asleep"
    BY DEF Busy
  <2>4. client' = [client EXCEPT ![p].pc = pc] /\ pc # "writing"
    BY <1>4, <2>3 DEF Sleeps
  <2> QED BY <1>1, <2>2, <2>4, WaitingData
<1>5. CASE Refused(p) /\ (Success(p) \/ Failure(p))
  BY <1>1, <1>5, NothingHappens, PlainAnswer DEF Refused
<1> QED BY <1>3, <1>4, <1>5 DEF LockFile

LEMMA UnlockFileData ==
    ASSUME CInv, CInv', DInv, NEW p \in Pids, UnlockFile(p)
    PROVE  DInv'
<1>0. "unlock" \in {"write", "read", "lock", "unlock", "close"} /\ Requests(p, "unlock")
  BY DEF UnlockFile
<1>1. client[p].pc \in Busy /\ IInv /\ Fd(p) \in Fds
  BY <1>0, RequestFacts
<1>2. PICK fd \in Fds : fd = Fd(p)
  BY <1>1
<1>3. CASE Unlock(p, Fd(p)) /\ Success(p)
  <2>1. Unlock(p, fd)
    BY <1>2, <1>3
  <2> QED BY <1>1, <1>3, <2>1, LocksData, PlainAnswer
<1>4. CASE Refused(p) /\ Failure(p)
  BY <1>1, <1>4, NothingHappens, PlainAnswer DEF Refused
<1> QED BY <1>3, <1>4 DEF UnlockFile

(* Only a client that does not send reads, and its buffers are empty. *)
LEMMA ReadFileData ==
    ASSUME CInv, CInv', DInv, NEW p \in Pids, ReadFile(p)
    PROVE  DInv'
<1>0. "read" \in {"write", "read", "lock", "unlock", "close"} /\ Requests(p, "read")
  BY DEF ReadFile
<1>1. client[p].pc \in Busy /\ IInv /\ Fd(p) \in Fds /\ Step(p) = "read"
  BY <1>0, RequestFacts
<1>2. PICK fd \in Fds : fd = Fd(p)
  BY <1>1
<1>3. IInv'
  BY DEF CInv
<1>4. CASE Read(p, Fd(p)) /\ Success(p)
  <2>1. Read(p, fd)
    BY <1>2, <1>4
  <2>2. fd_error(p, fd) = "ok"
    BY <2>1 DEF Read, read_error, access_error, fd_error
  <2>3. fd \in Owned(p)
    BY <1>1, <2>2, OwnDescriptor
  <2>4. ~Sends(client[p])
    BY <1>1, SendingSteps
  <2>5. Copy(fd).buffer = <<>>
    BY <1>1, <2>3, <2>4 DEF DInv, BuffersOK
  <2> QED BY <1>1, <1>3, <1>4, <2>1, <2>5, ReadData, PlainAnswer
<1>5. CASE ReadNothing(p, Fd(p)) /\ Failure(p)
  <2>1. ReadNothing(p, fd)
    BY <1>2, <1>5
  <2> QED BY <1>1, <1>3, <1>5, <2>1, ReadNothingData, PlainAnswer
<1>6. CASE Refused(p) /\ Failure(p)
  BY <1>1, <1>6, NothingHappens, PlainAnswer DEF Refused
<1> QED BY <1>4, <1>5, <1>6 DEF ReadFile

LEMMA RemovesFileData ==
    ASSUME CInv, CInv', DInv, NEW p \in Pids, RemovesFile(p)
    PROVE  DInv'
<1>1. client[p].pc \in Busy /\ IInv /\ IInv'
  BY DEF RemovesFile, Calls, Busy, CInv
<1>2. PICK f \in Names : f = Name(p)
  BY <1>1, BusyFacts
<1>3. CASE RemoveFile(p, Name(p)) /\ (Success(p) \/ Failure(p))
  <2>1. RemoveFile(p, f)
    BY <1>2, <1>3
  <2> QED BY <1>1, <1>3, <2>1, RemoveFileData, PlainAnswer
<1>4. CASE Refused(p) /\ Failure(p)
  BY <1>1, <1>4, NothingHappens, PlainAnswer DEF Refused
<1> QED BY <1>3, <1>4 DEF RemovesFile

LEMMA CloseFileData ==
    ASSUME CInv, CInv', DInv, NEW p \in Pids, NEW stored \in BOOLEAN, CloseFile(p, stored)
    PROVE  DInv'
<1> DEFINE c == client[p]
<1>0. "close" \in {"write", "read", "lock", "unlock", "close"} /\ Requests(p, "close")
  BY DEF CloseFile
<1>1. c.pc \in Busy /\ IInv /\ Fd(p) \in Fds /\ Name(p) \in Names
  BY <1>0, RequestFacts
<1>2. c \in Clients /\ c.fds \in [Names -> Fds \cup {NULL}] /\ IInv'
  BY <1>1, BusyFacts DEF CInv
<1>3. PICK none \in [Names -> Fds \cup {NULL}] : none = [c.fds EXCEPT ![Name(p)] = NULL]
  BY <1>1, <1>2
<1> DEFINE closed == [c EXCEPT !.flag = FALSE, !.fds = none]
<1>4. [c EXCEPT !.flag = FALSE, !.fds[Name(p)] = NULL] = closed
  BY <1>3
<1>5. CASE Close(p, Fd(p)) /\ (Failure(p) \/ Answer(p, closed, TRUE)
                               \/ client' = [client EXCEPT ![p] = Ended(closed, TRUE)])
  <2>1. PICK fd \in Fds : fd = Fd(p) /\ Close(p, fd)
    BY <1>1, <1>5
  <2>2. SameContents /\ SameBuffers({})
    BY <1>1, <1>2, <2>1, CloseData
  <2>3. CASE Failure(p)
    BY <1>1, <2>2, <2>3, PlainAnswer
  <2>4. CASE Answer(p, closed, TRUE)
    <3>1. StoredIsLocal'
      BY <2>2, LocalKept DEF DInv
    <3>2. PICK ok \in BOOLEAN, flag \in BOOLEAN : ok = TRUE /\ flag = FALSE
      OBVIOUS
    <3>3. client' = [client EXCEPT ![p] = After([client[p] EXCEPT !.flag = flag, !.fds = none], ok)]
      BY <2>4, <3>2 DEF Answer
    <3>4. PICK X : X = {} /\ SameBuffers(X)
      BY <2>2
    <3>5. \A fd0 \in X \cap InUse(fdt') :
              /\ fdt'.table[fd0].owner = p
              /\ ~(Sends(client[p]) /\ client[p].step = 2) => Copy(fd0)'.buffer = <<>>
              /\ Sends(client[p]) /\ client[p].step = 1 => Copy(fd0)'.ptr = NULL
      BY <3>4
    <3> HIDE DEF closed
    <3> QED BY <1>1, <3>1, <3>2, <3>3, <3>4, <3>5, Answered
  <2>5. CASE client' = [client EXCEPT ![p] = Ended(closed, TRUE)]
    <3>1. PICK d : d = Ended(closed, TRUE) /\ d.pc = "idle" /\ d.failed
      <4> DEFINE d == [c EXCEPT !.flag = FALSE, !.fds = none,
                                !.pc = "idle", !.names = <<>>, !.failed = TRUE]
      <4>1. d = Ended(closed, TRUE)
        BY <1>2 DEF Ended, Clients
      <4>2. d.pc = "idle" /\ d.failed
        BY <1>2 DEF Clients
      <4> QED BY <4>1, <4>2
    <3>2. d.pc \notin Busy /\ FlagOK(d)
      BY <3>1 DEF FlagOK, Busy
    <3>3. client' = [client EXCEPT ![p] = d]
      BY <2>5, <3>1
    <3> QED BY <2>2, <3>2, <3>3, IdleData
  <2> QED BY <1>5, <2>3, <2>4, <2>5
<1>6. CASE Refused(p) /\ Failure(p)
  BY <1>1, <1>6, NothingHappens, PlainAnswer DEF Refused
<1> HIDE DEF closed
<1> QED BY <1>4, <1>5, <1>6 DEF CloseFile

(* A write that the API lets through is that of a command which sends, and *)
(* the first through its descriptor.                                       *)
LEMMA WritesSend ==
    ASSUME CInv, DInv, NEW p \in Pids, client[p].pc \in Busy, Step(p) = "write",
           client[p].flag \/ client[p].pc = "writing"
    PROVE  /\ ~IsApi(client[p]) /\ Sends(client[p]) /\ client[p].step = 2
           /\ Local[Name(p)] \in Payloads
           /\ Fd(p) \in Owned(p) /\ Fd(p) \in Fds /\ Copy(Fd(p)).name = Name(p)
           /\ Copy(Fd(p)).ptr = NULL /\ Copy(Fd(p)).buffer = <<>>
<1> DEFINE c == client[p]
<1>1. FlagOK(c) /\ BuffersOK(p)
  BY DEF DInv
<1>2. ~IsApi(c)
  <2> SUFFICES ASSUME IsApi(c) PROVE FALSE
    OBVIOUS
  <2>1. Script(c.cmd) = ApiProgram
    BY DEF IsApi, Script
  <2>2. c.pc # "writing" /\ c.step \in 1..Len(ApiProgram)
    BY <1>1 DEF FlagOK
  <2>3. \E j \in 1..c.step - 1 : ApiProgram[j] \in {"open_create", "open_lock"}
    BY <1>1, <2>2 DEF FlagOK
  <2>4. c.step \in DOMAIN ApiProgram /\ ApiProgram[c.step] = "write"
    BY <2>1, <2>2, ProgramAssumption DEF Step
  <2> QED BY <2>3, <2>4, ProgramAssumption
<1>3. Sends(c)
  BY <1>2, CommandFacts DEF Sends
<1>4. c.step = 2
  BY <1>3, SendingSteps
<1>5. Owned(p) = {Fd(p)} /\ Fd(p) \in Fds /\ Copy(Fd(p)).name = Name(p)
  BY <1>2, <1>4, CommandFacts DEF Copy, fdt_get
<1>6. Copy(Fd(p)).ptr = NULL /\ Copy(Fd(p)).buffer = <<>>
  BY <1>1, <1>3, <1>4, <1>5 DEF BuffersOK
<1>7. Local[Name(p)] \in Payloads
  BY <1>3, BusyFacts DEF Sends
<1> QED BY <1>2, <1>3, <1>4, <1>5, <1>6, <1>7

(* The write itself, and its answer. *)
LEMMA WritingData ==
    ASSUME CInv, CInv', DInv, NEW p \in Pids, client[p].pc \in Busy, Step(p) = "write",
           client[p].flag \/ client[p].pc = "writing", undefined = "no",
           WriteCopy(p, Fd(p), Local[Name(p)]), Success(p) \/ Failure(p)
    PROVE  DInv'
<1>1. /\ Sends(client[p]) /\ client[p].step = 2 /\ Local[Name(p)] \in Payloads
      /\ Fd(p) \in Owned(p) /\ Fd(p) \in Fds /\ Copy(Fd(p)).name = Name(p)
      /\ Copy(Fd(p)).ptr = NULL /\ Copy(Fd(p)).buffer = <<>>
  BY WritesSend
<1>2. PICK f \in Names : f = Name(p)
  BY BusyFacts
<1>3. PICK fd \in Fds, buf \in Payloads : fd = Fd(p) /\ buf = Local[Name(p)]
  BY <1>1
<1>4. IInv /\ IInv' /\ StoredIsLocal
  BY DEF CInv, DInv
<1>5. /\ fd \in Owned(p) /\ Copy(fd).name = f /\ Copy(fd).ptr = NULL /\ Copy(fd).buffer = <<>>
      /\ buf = Local[f] /\ WriteCopy(p, fd, buf)
  BY <1>1, <1>2, <1>3
<1>6. StoredIsLocal' /\ SameBuffers({fd}) /\ fdt'.table[fd].owner = p
  BY <1>4, <1>5, WriteCopyData
<1>7. PICK X : X = {fd} /\ SameBuffers(X)
  BY <1>6
<1>8. \A i \in X \cap InUse(fdt') :
          fdt'.table[i].owner = p /\ Sends(client[p]) /\ client[p].step = 2
  BY <1>1, <1>6, <1>7
<1>9. CASE Success(p)
  BY <1>6, <1>7, <1>8, <1>9, SucceededData
<1>10. CASE Failure(p)
  BY <1>6, <1>7, <1>8, <1>10, FailedData
<1> QED BY <1>9, <1>10

LEMMA WriteFileData ==
    ASSUME CInv, CInv', DInv, NEW p \in Pids, WriteFile(p)
    PROVE  DInv'
<1>0. "write" \in {"write", "read", "lock", "unlock", "close"} /\ Requests(p, "write")
  BY DEF WriteFile
<1>1. client[p].pc = "call" /\ client[p].pc \in Busy /\ Step(p) = "write" /\ client[p].flag
  BY <1>0, RequestFacts DEF WriteFile
<1>2. CASE Write(p, Fd(p), Local[Name(p)]) /\ Written(p, Fd(p))
  <2>1. /\ undefined = "no" /\ WriteCopy(p, Fd(p), Local[Name(p)])
        /\ Success(p) \/ Failure(p)
    BY <1>2 DEF Write, Ready, Written
  <2> QED BY <1>1, <2>1, WritingData
<1>3. CASE WriteBegin(p, Fd(p), Local[Name(p)]) /\ client' = [client EXCEPT ![p].pc = "writing"]
  <2>1. UNCHANGED <<files, fdt, heap>>
    BY <1>3 DEF WriteBegin, table
  <2>2. SameContents /\ SameBuffers({})
    BY <2>1, DescriptorsStay
  <2>3. ~IsApi(client[p])
    BY <1>1, WritesSend
  <2>4. PICK pc \in Busy : pc = "writing"
    BY DEF Busy
  <2>5. client' = [client EXCEPT ![p].pc = pc]
    BY <1>3, <2>4
  <2> QED BY <1>1, <2>2, <2>3, <2>5, WaitingData
<1>4. CASE Refused(p) /\ Failure(p)
  BY <1>1, <1>4, NothingHappens, PlainAnswer DEF Refused
<1> QED BY <1>2, <1>3, <1>4 DEF WriteFile

LEMMA WriteGoesOnData ==
    ASSUME CInv, CInv', DInv, NEW p \in Pids, NEW stored \in BOOLEAN, WriteGoesOn(p, stored)
    PROVE  DInv'
<1>1. writing # NULL /\ writing.pid = p
  BY DEF WriteGoesOn
<1>2. /\ client[p].pc = "writing" /\ client[p].pc \in Busy /\ Step(p) = "write"
      /\ writing.fd = Fd(p) /\ writing.buf = Local[Name(p)]
  BY <1>1 DEF CInv, ClientOK, WriteOK, Busy, Step
<1>3. IInv /\ IInv'
  BY DEF CInv
<1>4. CASE WriteEnd /\ (Success(p) \/ Failure(p))
  <2>1. undefined = "no" /\ WriteCopy(p, Fd(p), Local[Name(p)])
    BY <1>1, <1>2, <1>4 DEF WriteEnd, InWrite
  <2> QED BY <1>2, <1>4, <2>1, WritingData
<1>5. CASE WriteGivesUp /\ Failure(p)
  <2>1. UNCHANGED <<files, fdt, heap>>
    BY <1>5 DEF WriteGivesUp, table
  <2>2. SameContents /\ SameBuffers({})
    BY <2>1, DescriptorsStay
  <2> QED BY <1>2, <1>5, <2>2, PlainAnswer
<1>6. CASE (Evict \/ EvictFails) /\ (Failure(p) \/ UNCHANGED client)
  <2>1. SameContents /\ SameBuffers({})
    BY <1>3, <1>6, EvictionData
  <2>2. CASE Failure(p)
    BY <1>2, <2>1, <2>2, PlainAnswer
  <2>3. CASE UNCHANGED client
    BY <2>1, <2>3, QuietData
  <2> QED BY <1>6, <2>2, <2>3
<1> QED BY <1>4, <1>5, <1>6 DEF WriteGoesOn, Written

LEMMA GoesOnData ==
    ASSUME CInv, CInv', DInv, NEW p \in Pids, GoesOn(p)
    PROVE  DInv'
<1>1. client[p].pc = "asleep" /\ client[p].pc \in Busy
  BY DEF GoesOn, Busy
<1>2. /\ IInv /\ waiting[p] # NULL
      /\ Step(p) = IF waiting[p].op = "open" THEN "open_lock" ELSE "lock"
  BY <1>1 DEF CInv, ClientOK, SleepOK, Step
<1>3. CASE SleepAgain(p) /\ UNCHANGED client
  <2>1. UNCHANGED <<files, fdt, heap>>
    BY <1>3 DEF SleepAgain, table
  <2>2. SameContents /\ SameBuffers({})
    BY <2>1, DescriptorsStay
  <2> QED BY <1>3, <2>2, QuietData
<1>4. CASE WakeUp(p)
  <2>1. IF waiting[p].op = "open" /\ fdt.size = MAX_OPEN_FILES THEN Failure(p)
        ELSE IF waiting[p].op = "open" THEN GotFd(p, {"O_LOCK"}) ELSE Success(p)
    <3>1. ~SleepAgain(p)
      BY <1>4 DEF WakeUp, SleepAgain
    <3> QED BY <1>4, <3>1 DEF GoesOn
  <2>2. /\ SameContents
        /\ IF waiting[p].op = "open" /\ fdt.size # MAX_OPEN_FILES
           THEN /\ SameBuffers({get_file_descriptor(fdt)})
                /\ LET e == fdt'.table[get_file_descriptor(fdt)]
                   IN  e.owner = p /\ e.inode.buffer = <<>>
           ELSE SameBuffers({})
    BY <1>2, <1>4, WakeUpData
  <2>3. CASE waiting[p].op = "open" /\ fdt.size # MAX_OPEN_FILES
    <3>1. get_file_descriptor(fdt) \in Fds
      BY <1>2, <1>4, <2>3, WakeUpSeen DEF GotDescriptor
    <3>2. Step(p) = "open_lock" /\ GotFd(p, {"O_LOCK"})
      BY <1>2, <2>1, <2>3
    <3>3. ~Sends(client[p])
      BY <1>1, <3>2, SendingSteps
    <3>4. StoredIsLocal'
      BY <2>2, LocalKept DEF DInv
    <3>5. PICK flags : flags = {"O_LOCK"} /\ flags # {} /\ GotFd(p, flags)
      BY <3>2
    <3>6. flags # {} <=> Step(p) \in {"open_create", "open_lock"}
      BY <3>2, <3>5
    <3>7. /\ SameBuffers({get_file_descriptor(fdt)})
          /\ LET e == fdt'.table[get_file_descriptor(fdt)]
             IN  /\ e.owner = p /\ e.inode.buffer = <<>>
                 /\ Sends(client[p]) => e.inode.ptr = NULL
      BY <2>2, <2>3, <3>3
    <3> QED BY <1>1, <3>1, <3>4, <3>5, <3>6, <3>7, GotFdData
  <2>4. CASE ~(waiting[p].op = "open" /\ fdt.size # MAX_OPEN_FILES)
    <3>1. Success(p) \/ Failure(p)
      BY <2>1, <2>4
    <3> QED BY <1>1, <2>2, <2>4, <3>1, PlainAnswer
  <2> QED BY <2>3, <2>4
<1> QED BY <1>3, <1>4 DEF GoesOn
-----------------------------------------------------------------------------
(* Between the calls.                                                      *)

LEMMA NextCommandData ==
    ASSUME CInv, CInv', DInv, NEW p \in Pids, NextCommand(p)
    PROVE  DInv'
<1> DEFINE c == client[p]
<1>1. /\ c \in Clients /\ ClientOK(p) /\ c.pc = "idle" /\ ~c.failed /\ c.queue # <<>>
      /\ UNCHANGED vars /\ FlagOK(c)
  BY DEF CInv, DInv, NextCommand
<1>2. ~IsApi(c)
  BY <1>1 DEF ClientOK, LineOK, IsApi
<1>3. ~c.flag
  BY <1>1, <1>2 DEF FlagOK
<1>4. PICK pc, queue, cmd, names, failed :
          /\ client' = [client EXCEPT ![p] =
                [c EXCEPT !.pc = pc, !.queue = queue, !.cmd = cmd, !.names = names,
                          !.step = 1, !.failed = failed]]
          /\ pc \in {"idle", "call"}
  BY DEF NextCommand
<1>5. PICK d : /\ client' = [client EXCEPT ![p] = d] /\ d.pc \in {"idle", "call"}
               /\ d.step = 1 /\ d.flag = c.flag
  <2> DEFINE d == [c EXCEPT !.pc = pc, !.queue = queue, !.cmd = cmd, !.names = names,
                            !.step = 1, !.failed = failed]
  <2>1. d.pc = pc /\ d.step = 1 /\ d.flag = c.flag
    BY <1>1 DEF Clients
  <2>2. client' = [client EXCEPT ![p] = d]
    BY <1>4
  <2> HIDE DEF d
  <2> QED BY <1>4, <2>1, <2>2
<1>6. 1 \in 1..Len(ApiProgram)
  BY ProgramAssumption
<1>7. FlagOK(d)
  BY <1>3, <1>5, <1>6 DEF FlagOK
<1>8. SameContents /\ SameBuffers({})
  BY <1>1, NothingHappens
<1>9. Owned(p)' = {}
  <2>1. Owned(p) = {}
    BY <1>1, <1>2 DEF ClientOK, DescriptorsOK
  <2>2. fdt' = fdt
    BY <1>1 DEF vars, table
  <2> QED BY <2>1, <2>2 DEF Owned
<1>10. BuffersOK(p)'
  BY <1>9 DEF BuffersOK
<1>11. StoredIsLocal'
  BY <1>8, LocalKept DEF DInv
<1>12. PICK X : X = {} /\ SameBuffers(X)
  BY <1>8
<1>13. \A fd \in X \cap InUse(fdt') : fdt'.table[fd].owner = p
  BY <1>12
<1> QED BY <1>5, <1>7, <1>10, <1>11, <1>12, <1>13, DataStepOf

LEMMA LeaveData ==
    ASSUME CInv, CInv', DInv, NEW p \in Pids, Leave(p)
    PROVE  DInv'
<1>1. SameContents /\ SameBuffers({})
  <2>1. IInv /\ IInv'
    BY DEF CInv
  <2>2. CASE RemoveSession(p)
    BY <2>1, <2>2, RemoveSessionData
  <2>3. CASE Refused(p)
    BY <2>3, NothingHappens DEF Refused
  <2> QED BY <2>2, <2>3 DEF Leave
<1>2. PICK pc \in {"gone", "dead"} : pc = (IF Orderly(p) THEN "gone" ELSE "dead")
  OBVIOUS
<1>3. PICK d : client' = [client EXCEPT ![p] = d] /\ d.pc = pc
  <2> DEFINE d == [NotStarted EXCEPT !.pc = pc]
  <2>1. d.pc = pc
    BY NotStartedFacts
  <2>2. client' = [client EXCEPT ![p] = d]
    BY <1>2 DEF Leave
  <2> HIDE DEF d
  <2> QED BY <2>1, <2>2
<1>4. d.pc \notin Busy /\ FlagOK(d)
  BY <1>3 DEF FlagOK, Busy
<1> QED BY <1>1, <1>3, <1>4, IdleData

LEMMA DiesData ==
    ASSUME CInv, DInv, NEW p \in Pids, Dies(p)
    PROVE  DInv'
<1>1. SameContents /\ SameBuffers({})
  BY NothingHappens DEF Dies
<1>2. PICK pc \in {"off", "killed", "gone", "dead"} : pc = "killed"
  OBVIOUS
<1>3. PICK d : client' = [client EXCEPT ![p] = d] /\ d.pc = pc
  <2> DEFINE d == [NotStarted EXCEPT !.pc = pc]
  <2>1. d.pc = pc
    BY NotStartedFacts
  <2>2. client' = [client EXCEPT ![p] = d]
    BY <1>2 DEF Dies
  <2> HIDE DEF d
  <2> QED BY <2>1, <2>2
<1>4. d.pc \notin Busy /\ FlagOK(d)
  BY <1>2, <1>3 DEF FlagOK, Busy
<1> QED BY <1>1, <1>3, <1>4, IdleData

(* The flag of a client that has not called yet. *)
LEMMA NotStartedFlag == ~NotStarted.flag
BY DEF NotStarted

LEMMA StartData ==
    ASSUME CInv, DInv, NEW p \in Pids, NEW argv, NEW garbage, NEW found,
           Start(p, argv, garbage, found)
    PROVE  DInv'
<1>1. SameContents /\ SameBuffers({})
  BY NothingHappens DEF Start
<1>2. PICK n \in Clients : n = NotStarted /\ ~n.flag
  BY NotStartedParts, NotStartedFlag
<1>3. PICK d : client' = [client EXCEPT ![p] = d] /\ d.pc \in {"idle", "gone"} /\ ~d.flag
  <2> DEFINE s == parse_opt(argv, garbage)
             a == [n EXCEPT !.pc = "idle", !.line = s.queue, !.queue = s.queue]
             b == [n EXCEPT !.pc = "gone"]
  <2>1. a.pc = "idle" /\ a.flag = n.flag /\ b.pc = "gone" /\ b.flag = n.flag
    BY DEF Clients
  <2>2. client' = [client EXCEPT ![p] = a] \/ client' = [client EXCEPT ![p] = b]
    BY <1>2 DEF Start
  <2> HIDE DEF a, b
  <2> QED BY <1>2, <2>1, <2>2
<1>4. d.pc \notin Busy /\ FlagOK(d)
  BY <1>3 DEF FlagOK, Busy
<1> QED BY <1>1, <1>3, <1>4, IdleData
-----------------------------------------------------------------------------
LEMMA DataInit ==
    ASSUME ClientInit
    PROVE  DInv
<1>1. Init /\ client = [p \in Pids |-> NotStarted]
  BY DEF ClientInit
<1>2. StoredIsLocal
  BY <1>1 DEF Init, StoredIsLocal, Exists
<1>3. ASSUME NEW p \in Pids PROVE FlagOK(client[p]) /\ BuffersOK(p)
  <2>1. client[p].pc = "off"
    BY <1>1, NotStartedParts
  <2>2. client[p].pc \notin Busy /\ client[p].pc # "idle"
    BY <2>1 DEF Busy
  <2> QED BY <2>2 DEF FlagOK, BuffersOK
<1> QED BY <1>2, <1>3 DEF DInv

LEMMA DataNext ==
    ASSUME CInv, DInv, [ClientNext]_clientvars
    PROVE  DInv'
<1>0. CInv'
  BY ClientNextInv
<1>1. CASE UNCHANGED clientvars
  <2>1. UNCHANGED vars /\ client' = client
    BY <1>1 DEF clientvars
  <2> QED BY <2>1, NothingHappens, QuietData
<1>2. ASSUME NEW p \in Pids, NEW argv \in CommandLines, NEW garbage \in {"none", "W", "r"},
             NEW found \in BOOLEAN, Start(p, argv, garbage, found)
      PROVE  DInv'
  BY <1>2, StartData
<1>3. ASSUME NEW p \in Pids, ApiCall(p)
      PROVE  DInv'
  <2>1. CASE \E api \in {"open_create", "open_lock", "open"} : OpenFile(p, api)
    BY <1>0, <2>1, OpenFileData
  <2>2. CASE NoRequest(p)
    BY <1>0, <2>2, NoRequestData
  <2>3. CASE LockFile(p)
    BY <1>0, <2>3, LockFileData
  <2>4. CASE UnlockFile(p)
    BY <1>0, <2>4, UnlockFileData
  <2>5. CASE ReadFile(p)
    BY <1>0, <2>5, ReadFileData
  <2>6. CASE WriteFile(p)
    BY <1>0, <2>6, WriteFileData
  <2>7. CASE RemovesFile(p)
    BY <1>0, <2>7, RemovesFileData
  <2>8. ASSUME NEW stored \in BOOLEAN, CloseFile(p, stored) PROVE DInv'
    BY <1>0, <2>8, CloseFileData
  <2>9. ASSUME NEW stored \in BOOLEAN, WriteGoesOn(p, stored) PROVE DInv'
    BY <1>0, <2>9, WriteGoesOnData
  <2>10. CASE GoesOn(p)
    BY <1>0, <2>10, GoesOnData
  <2> QED BY <1>3, <2>1, <2>2, <2>3, <2>4, <2>5, <2>6, <2>7, <2>8, <2>9, <2>10 DEF ApiCall
<1>4. ASSUME NEW p \in Pids, ClientStep(p)
      PROVE  DInv'
  <2>1. CASE NextCommand(p)
    BY <1>0, <2>1, NextCommandData
  <2>2. CASE ApiCall(p)
    BY <1>3, <2>2
  <2>3. CASE Leave(p)
    BY <1>0, <2>3, LeaveData
  <2>4. CASE Dies(p)
    BY <2>4, DiesData
  <2>5. CASE (Spurious(p) \/ Tick) /\ UNCHANGED client
    <3>1. UNCHANGED <<files, fdt, heap>>
      BY <2>5 DEF Spurious, Tick, table
    <3>2. SameContents /\ SameBuffers({})
      BY <3>1, DescriptorsStay
    <3> QED BY <2>5, <3>2, QuietData
  <2> QED BY <1>4, <2>1, <2>2, <2>3, <2>4, <2>5 DEF ClientStep
<1> QED BY <1>1, <1>2, <1>4 DEF ClientNext

(* What the server holds of a file is the file on the disk, once, however  *)
(* many clients send it, read it, remove it, have it evicted for another   *)
(* write, or die with it open.                                             *)
THEOREM StoredFilesAreLocal == ClientSpec => []StoredIsLocal
<1>1. ClientInit => CInv /\ DInv
  BY ClientInitInv, DataInit
<1>2. CInv /\ DInv /\ [ClientNext]_clientvars => (CInv /\ DInv)'
  BY ClientNextInv, DataNext
<1>3. DInv => StoredIsLocal
  BY DEF DInv
<1> QED BY <1>1, <1>2, <1>3, PTL DEF ClientSpec
=============================================================================
