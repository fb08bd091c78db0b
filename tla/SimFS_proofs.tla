----------------------------- MODULE SimFS_proofs -----------------------------
(***************************************************************************)
(* For every set of pids, names, payloads and addresses and every limit:   *)
(* the invariants of the file system and what a step may do to a lock.     *)
(*                                                                         *)
(* The lemmas come in three layers: what the operators on lists and inodes *)
(* return; what each kind of step does to the file table and to the fd     *)
(* table; and how each part of the inductive invariant survives them.      *)
(***************************************************************************)
EXTENDS SimFS, FileDescriptorTable_proofs

(* The inductive invariant.  Beside the invariants of SimFS it says that   *)
(* the fd table keeps to its limit and that the clock does not run back.   *)
TableInLimit ==
    /\ fdt = [size |-> fdt.size, max_fd |-> fdt.max_fd,
              free_index_map |-> fdt.free_index_map, table |-> fdt.table]
    /\ fdt.size <= MAX_OPEN_FILES
    /\ fdt.max_fd \in 0..MAX_OPEN_FILES - 1

BornInThePast == \A f \in Names : Exists(f) => files[f].btime <= clock

(* The first half of OldestFirst; the other half follows from it. *)
ListedByAge ==
    \A i, j \in DOMAIN presence :
        i < j => files[presence[i]].btime <= files[presence[j]].btime

(* A pointer of a copy that was not freed is live, and if an inode has it  *)
(* too then the copy is one of that file: flushing a copy never frees the  *)
(* content of another file.                                                *)
CopyPointersLive ==
    \A fd \in InUse(fdt) :
        Copy(fd).ptr \in Addrs =>
            /\ heap[Copy(fd).ptr] # NULL
            /\ \A g \in Names : Exists(g) /\ files[g].ptr = Copy(fd).ptr => g = Copy(fd).name

Tables    == TypeOK /\ TableSound /\ TableInLimit /\ ListMatchesTable
Locks     == PendingIsOneWaiter /\ NoLostWakeup /\ RefsHaveDescriptors /\ CopiesAreAccessible
Artifacts == InodePointersLive /\ CopyPointersLive
Ages      == BornInThePast /\ ListedByAge

IInv == Tables /\ FilesAreCounted /\ Locks /\ Artifacts /\ Ages
-----------------------------------------------------------------------------
(* Deleting an element of a list without duplicates (gnl_list_delete) is   *)
(* the list without it, in the same order.                                 *)
LEMMA RemoveFirstProperties ==
    ASSUME NEW S, NEW s \in Seq(S), IsInjective(s), NEW e \in ToSet(s)
    PROVE  LET r == RemoveFirst(s, e)
           IN  /\ r \in Seq(S)
               /\ Len(r) = Len(s) - 1
               /\ IsInjective(r)
               /\ ToSet(r) = ToSet(s) \ {e}
               /\ \A i, j \in DOMAIN r : i < j =>
                     \E k, l \in DOMAIN s : k < l /\ r[i] = s[k] /\ r[j] = s[l]
<1> DEFINE I == {i \in 1..Len(s) : s[i] = e}
           k == Min(I)
           r == RemoveFirst(s, e)
<1>1. PICK x \in 1..Len(s) : s[x] = e
  BY DEF ToSet
<1>2. k \in 1..Len(s) /\ s[k] = e
  <2>1. I \in SUBSET Nat /\ I # {}
    BY <1>1
  <2>2. k \in I
    BY <2>1, MinIsLeast
  <2> QED BY <2>2
<1>3. r = SubSeq(s, 1, k - 1) \o SubSeq(s, k + 1, Len(s))
  BY <1>1 DEF RemoveFirst, RemoveAt, SelectInSeq
<1> HIDE DEF k, r
<1>4. /\ r \in Seq(S) /\ Len(r) = Len(s) - 1 /\ DOMAIN r = 1..Len(s) - 1
      /\ \A i \in 1..Len(s) - 1 : r[i] = IF i < k THEN s[i] ELSE s[i + 1]
  <2> DEFINE a == SubSeq(s, 1, k - 1)
             b == SubSeq(s, k + 1, Len(s))
  <2>1. a \in Seq(S) /\ Len(a) = k - 1 /\ \A i \in 1..k - 1 : a[i] = s[i]
    BY <1>2
  <2>2. b \in Seq(S) /\ Len(b) = Len(s) - k /\ \A i \in 1..Len(s) - k : b[i] = s[k + i]
    BY <1>2
  <2>3. r = a \o b
    BY <1>3
  <2> HIDE DEF a, b
  <2>4. r \in Seq(S) /\ Len(r) = Len(s) - 1 /\ DOMAIN r = 1..Len(s) - 1
    BY <1>2, <2>1, <2>2, <2>3
  <2>5. ASSUME NEW i \in 1..Len(s) - 1 PROVE r[i] = IF i < k THEN s[i] ELSE s[i + 1]
    <3>1. CASE i < k
      BY <1>2, <2>1, <2>2, <2>3, <3>1
    <3>2. CASE ~(i < k)
      <4>1. r[i] = b[i - (k - 1)] /\ i - (k - 1) \in 1..Len(s) - k
        BY <1>2, <2>1, <2>2, <2>3, <3>2
      <4> QED BY <1>2, <2>2, <3>2, <4>1
    <3> QED BY <3>1, <3>2
  <2> QED BY <2>4, <2>5
<1>5. IsInjective(r)
  <2> SUFFICES ASSUME NEW i \in DOMAIN r, NEW j \in DOMAIN r, r[i] = r[j]
               PROVE  i = j
    BY DEF IsInjective
  <2> DEFINE m == IF i < k THEN i ELSE i + 1
             l == IF j < k THEN j ELSE j + 1
  <2>1. m \in DOMAIN s /\ l \in DOMAIN s /\ s[m] = s[l]
    BY <1>2, <1>4
  <2>2. m = l
    BY <2>1 DEF IsInjective
  <2> QED BY <1>2, <1>4, <2>2
<1>6. ToSet(r) = ToSet(s) \ {e}
  <2>1. ASSUME NEW i \in DOMAIN r PROVE r[i] \in ToSet(s) \ {e}
    <3> DEFINE m == IF i < k THEN i ELSE i + 1
    <3>0. i \in 1..Len(s) - 1 /\ DOMAIN s = 1..Len(s) /\ r[i] = IF i < k THEN s[i] ELSE s[i + 1]
      BY <1>4
    <3>1. m \in DOMAIN s /\ m # k /\ k \in DOMAIN s /\ r[i] = s[m]
      BY <1>2, <3>0
    <3> HIDE DEF m
    <3> QED BY <1>2, <3>1 DEF ToSet, IsInjective
  <2>2. ASSUME NEW i \in DOMAIN s, s[i] # e PROVE \E j \in DOMAIN r : r[j] = s[i]
    <3>1. CASE i < k
      <4>1. i \in DOMAIN r /\ r[i] = s[i]
        BY <1>2, <1>4, <3>1
      <4> QED BY <4>1
    <3>2. CASE ~(i < k)
      <4>1. i - 1 \in DOMAIN r /\ r[i - 1] = s[i]
        BY <1>2, <1>4, <2>2, <3>2
      <4> QED BY <4>1
    <3> QED BY <3>1, <3>2
  <2> QED BY <2>1, <2>2 DEF ToSet
<1>7. ASSUME NEW i \in DOMAIN r, NEW j \in DOMAIN r, i < j
      PROVE  \E m, l \in DOMAIN s : m < l /\ r[i] = s[m] /\ r[j] = s[l]
  <2> DEFINE m == IF i < k THEN i ELSE i + 1
             l == IF j < k THEN j ELSE j + 1
  <2>1. m \in DOMAIN s /\ l \in DOMAIN s /\ m < l /\ r[i] = s[m] /\ r[j] = s[l]
    BY <1>2, <1>4, <1>7
  <2> QED BY <2>1
<1> QED BY <1>4, <1>5, <1>6, <1>7 DEF r

(* A name appended to a list that does not hold it. *)
LEMMA AppendNew ==
    ASSUME NEW S, NEW s \in Seq(S), IsInjective(s), NEW e \in S, e \notin ToSet(s)
    PROVE  LET r == Append(s, e)
           IN  /\ r \in Seq(S) /\ Len(r) = Len(s) + 1
               /\ IsInjective(r)
               /\ ToSet(r) = ToSet(s) \cup {e}
<1> DEFINE r == Append(s, e)
<1>1. /\ r \in Seq(S) /\ Len(r) = Len(s) + 1 /\ DOMAIN r = 1..Len(s) + 1
      /\ DOMAIN s = 1..Len(s)
      /\ \A i \in 1..Len(s) : r[i] = s[i]
      /\ r[Len(s) + 1] = e
  OBVIOUS
<1> HIDE DEF r
<1>2. IsInjective(r)
  BY <1>1 DEF IsInjective, ToSet
<1>3. ToSet(r) = ToSet(s) \cup {e}
  BY <1>1 DEF ToSet
<1> QED BY <1>1, <1>2, <1>3 DEF r
-----------------------------------------------------------------------------
(* What the operations on an inode keep and what they change.              *)

LEMMA InodeInit ==
    ASSUME NEW now \in Nat
    PROVE  /\ inode_init(now) \in Inodes
           /\ inode_init(now).locked = NoPid /\ inode_init(now).pending = 0
           /\ inode_init(now).ptr = NULL /\ inode_init(now).btime = now
           /\ \A p \in Pids : inode_init(now).refs[p] = 0
BY DEF inode_init, Inodes

LEMMA InodeLock ==
    ASSUME NEW x \in Inodes, NEW p \in Pids, NEW now \in Nat
    PROVE  LET y == file_lock(x, p, now)
           IN  /\ y \in Inodes /\ y.locked = p
               /\ y.refs = x.refs /\ y.pending = x.pending
               /\ y.ptr = x.ptr /\ y.btime = x.btime
BY DEF Inodes, file_lock

LEMMA InodeUnlock ==
    ASSUME NEW x \in Inodes, NEW now \in Nat
    PROVE  LET y == file_unlock(x, now)
           IN  /\ y \in Inodes /\ y.locked = NoPid
               /\ y.refs = x.refs /\ y.pending = x.pending
               /\ y.ptr = x.ptr /\ y.btime = x.btime
BY DEF Inodes, file_unlock

LEMMA InodeRefs ==
    ASSUME NEW x \in Inodes, NEW p \in Pids, NEW now \in Nat
    PROVE  LET y == increase_refs(x, p, now)
           IN  /\ y \in Inodes
               /\ y.refs = [x.refs EXCEPT ![p] = x.refs[p] + 1]
               /\ y.locked = x.locked /\ y.pending = x.pending
               /\ y.ptr = x.ptr /\ y.btime = x.btime
<1> DEFINE r == [x.refs EXCEPT ![p] = x.refs[p] + 1]
<1>1. r \in [Pids -> Nat]
  BY DEF Inodes
<1>2. increase_refs(x, p, now) = [x EXCEPT !.refs = r, !.ctime = now]
  BY DEF increase_refs
<1> HIDE DEF r
<1>3. LET y == [x EXCEPT !.refs = r, !.ctime = now]
      IN  /\ y \in Inodes /\ y.refs = r
          /\ y.locked = x.locked /\ y.pending = x.pending
          /\ y.ptr = x.ptr /\ y.btime = x.btime
  BY <1>1 DEF Inodes
<1> QED BY <1>2, <1>3 DEF r

LEMMA InodeUnref ==
    ASSUME NEW x \in Inodes, NEW p \in Pids, NEW now \in Nat, NEW n \in 0..x.refs[p]
    PROVE  LET y == decrease_refs(x, p, n, now)
           IN  /\ y \in Inodes
               /\ y.refs = [x.refs EXCEPT ![p] = x.refs[p] - n]
               /\ y.locked = x.locked /\ y.pending = x.pending
               /\ y.ptr = x.ptr /\ y.btime = x.btime
<1> DEFINE r == [x.refs EXCEPT ![p] = x.refs[p] - n]
<1>0. x.refs \in [Pids -> Nat]
  BY DEF Inodes
<1>1. r \in [Pids -> Nat]
  BY <1>0
<1>2. CASE n = 0
  <2>1. r = x.refs
    BY <1>0, <1>2
  <2> QED BY <1>2, <2>1 DEF decrease_refs
<1>3. CASE n # 0
  <2>1. decrease_refs(x, p, n, now) = [x EXCEPT !.refs = r, !.ctime = now]
    BY <1>3 DEF decrease_refs
  <2> HIDE DEF r
  <2>2. LET y == [x EXCEPT !.refs = r, !.ctime = now]
        IN  /\ y \in Inodes /\ y.refs = r
            /\ y.locked = x.locked /\ y.pending = x.pending
            /\ y.ptr = x.ptr /\ y.btime = x.btime
    BY <1>1 DEF Inodes
  <2> QED BY <2>1, <2>2 DEF r
<1> QED BY <1>2, <1>3

LEMMA InodePending ==
    ASSUME NEW x \in Inodes, NEW now \in Nat
    PROVE  LET y == increase_pending_locks(x, now)
           IN  /\ y \in Inodes /\ y.pending = x.pending + 1
               /\ y.refs = x.refs /\ y.locked = x.locked
               /\ y.ptr = x.ptr /\ y.btime = x.btime
<1> DEFINE n == x.pending + 1
<1>1. n \in Nat
  BY DEF Inodes
<1>2. increase_pending_locks(x, now) = [x EXCEPT !.pending = n, !.ctime = now]
  BY DEF increase_pending_locks
<1> HIDE DEF n
<1>3. LET y == [x EXCEPT !.pending = n, !.ctime = now]
      IN  /\ y \in Inodes /\ y.pending = n
          /\ y.refs = x.refs /\ y.locked = x.locked
          /\ y.ptr = x.ptr /\ y.btime = x.btime
  BY <1>1 DEF Inodes
<1> QED BY <1>2, <1>3 DEF n

LEMMA InodeNotPending ==
    ASSUME NEW x \in Inodes, NEW now \in Nat, x.pending = 1
    PROVE  LET y == decrease_pending_locks(x, now)
           IN  /\ y \in Inodes /\ y.pending = 0
               /\ y.refs = x.refs /\ y.locked = x.locked
               /\ y.ptr = x.ptr /\ y.btime = x.btime
<1>1. decrease_pending_locks(x, now) = [x EXCEPT !.pending = 0, !.ctime = now]
  BY DEF decrease_pending_locks
<1>3. LET y == [x EXCEPT !.pending = 0, !.ctime = now]
      IN  /\ y \in Inodes /\ y.pending = 0
          /\ y.refs = x.refs /\ y.locked = x.locked
          /\ y.ptr = x.ptr /\ y.btime = x.btime
  BY DEF Inodes
<1> QED BY <1>1, <1>3

LEMMA InodeContent ==
    ASSUME NEW x \in Inodes, NEW a \in Addrs \cup {NULL}, NEW n \in Int, NEW now \in Nat
    PROVE  LET y == inode_read(x, a, n, now)
           IN  /\ y \in Inodes /\ y.ptr = a
               /\ y.refs = x.refs /\ y.locked = x.locked
               /\ y.pending = x.pending /\ y.btime = x.btime
BY DEF Inodes, inode_read

LEMMA InodeFlushed ==
    ASSUME NEW x \in Inodes, NEW a \in Addrs, NEW n \in Int, clock \in Nat
    PROVE  LET y == flushed(x, a, n)
           IN  /\ y \in Inodes /\ y.ptr = a
               /\ y.refs = x.refs /\ y.locked = x.locked
               /\ y.pending = x.pending /\ y.btime = x.btime
<1> DEFINE m == x.size + n
<1>1. m \in Int
  BY DEF Inodes
<1>2. flushed(x, a, n) = [x EXCEPT !.ptr = a, !.size = m, !.ctime = clock]
  BY DEF flushed
<1> HIDE DEF m
<1>3. LET y == [x EXCEPT !.ptr = a, !.size = m, !.ctime = clock]
      IN  /\ y \in Inodes /\ y.ptr = a
          /\ y.refs = x.refs /\ y.locked = x.locked
          /\ y.pending = x.pending /\ y.btime = x.btime
  BY <1>1 DEF Inodes
<1> QED BY <1>2, <1>3
-----------------------------------------------------------------------------
(* How the number of descriptors of a pid for a name follows the table.    *)
Slots(t, p, f) == {fd \in InUse(t) : t.table[fd].owner = p /\ t.table[fd].inode.name = f}

LEMMA SlotsCounted ==
    ASSUME NEW t, t.max_fd \in Nat, Sound(t), NEW p, NEW f
    PROVE  /\ fdt_pid_inode_size(t, f, p) = Cardinality(Slots(t, p, f))
           /\ IsFiniteSet(Slots(t, p, f))
           /\ fdt_pid_inode_size(t, f, p) \in Nat
<1>1. {fd \in OwnedBy(t, p) : t.table[fd].inode.name = f} = Slots(t, p, f)
  BY OwnedAreInUse DEF Slots
<1>2. IsFiniteSet(Slots(t, p, f))
  BY SoundFinite, FS_Subset DEF Slots
<1> QED BY <1>1, <1>2, FS_CardinalityType DEF fdt_pid_inode_size

LEMMA PutCounted ==
    ASSUME NEW t, t.max_fd \in Nat, Sound(t), NEW e, e # NULL, NEW p, NEW f
    PROVE  LET n == fdt_pid_inode_size(t, f, p)
           IN  fdt_pid_inode_size(fdt_put(t, e), f, p)
                   = IF e.owner = p /\ e.inode.name = f THEN n + 1 ELSE n
<1> DEFINE u == fdt_put(t, e)
           fd == get_file_descriptor(t)
<1>1. /\ Sound(u) /\ u.max_fd \in Nat
      /\ InUse(u) = InUse(t) \cup {fd} /\ u.table[fd] = e
      /\ \A i \in InUse(t) : u.table[i] = t.table[i]
  BY PutSound, LeastUnusedDescriptor
<1>2. fd \notin InUse(t)
  BY LeastUnusedDescriptor
<1> HIDE DEF u, fd
<1>3. CASE e.owner = p /\ e.inode.name = f
  <2>1. Slots(u, p, f) = Slots(t, p, f) \cup {fd} /\ fd \notin Slots(t, p, f)
    BY <1>1, <1>2, <1>3 DEF Slots
  <2> QED BY <1>1, <1>3, <2>1, SlotsCounted, FS_AddElement DEF u
<1>4. CASE ~(e.owner = p /\ e.inode.name = f)
  <2>1. Slots(u, p, f) = Slots(t, p, f)
    BY <1>1, <1>2, <1>4 DEF Slots
  <2> QED BY <1>1, <1>4, <2>1, SlotsCounted DEF u
<1> QED BY <1>3, <1>4

LEMMA RemoveCounted ==
    ASSUME NEW t, t.max_fd \in Nat, Sound(t), NEW fd \in InUse(t), NEW p, NEW f
    PROVE  LET n == fdt_pid_inode_size(t, f, p)
           IN  fdt_pid_inode_size(remove_fd(t, fd), f, p)
                   = IF t.table[fd].owner = p /\ t.table[fd].inode.name = f THEN n - 1 ELSE n
<1> DEFINE u == remove_fd(t, fd)
<1>1. /\ Sound(u) /\ u.max_fd \in Nat
      /\ InUse(u) = InUse(t) \ {fd}
      /\ \A i \in InUse(u) : u.table[i] = t.table[i]
  BY RemoveSound
<1> HIDE DEF u
<1>2. CASE t.table[fd].owner = p /\ t.table[fd].inode.name = f
  <2>1. Slots(u, p, f) = Slots(t, p, f) \ {fd} /\ fd \in Slots(t, p, f)
    BY <1>1, <1>2 DEF Slots
  <2> QED BY <1>1, <1>2, <2>1, SlotsCounted, FS_RemoveElement DEF u
<1>3. CASE ~(t.table[fd].owner = p /\ t.table[fd].inode.name = f)
  <2>1. Slots(u, p, f) = Slots(t, p, f)
    BY <1>1, <1>3 DEF Slots
  <2> QED BY <1>1, <1>3, <2>1, SlotsCounted DEF u
<1> QED BY <1>2, <1>3

LEMMA RemovePidCounted ==
    ASSUME NEW t, t.max_fd \in Nat, Sound(t), NEW pid, NEW p, NEW f, p # pid
    PROVE  fdt_pid_inode_size(fdt_remove_pid(t, pid), f, p) = fdt_pid_inode_size(t, f, p)
<1> DEFINE u == fdt_remove_pid(t, pid)
<1>1. /\ Sound(u) /\ u.max_fd \in Nat
      /\ InUse(u) = {fd \in InUse(t) : t.table[fd].owner # pid}
      /\ \A i \in InUse(u) : u.table[i] = t.table[i]
  BY RemovePidSound
<1> HIDE DEF u
<1>2. Slots(u, p, f) = Slots(t, p, f)
  BY <1>1 DEF Slots
<1> QED BY <1>1, <1>2, SlotsCounted DEF u
-----------------------------------------------------------------------------
(* The fd table of the file system. *)
LEMMA TableFacts ==
    ASSUME Tables
    PROVE  /\ fdt.max_fd \in Nat /\ fdt.size \in Nat /\ Sound(fdt)
           /\ InUse(fdt) \subseteq Fds
           /\ \A p \in Pids, f \in Names : Descriptors(p, f) \in Nat
<1>1. fdt.max_fd \in Nat /\ Sound(fdt) /\ fdt.max_fd \in 0..MAX_OPEN_FILES - 1
  BY SimFSAssumption DEF Tables, TableInLimit, TableSound
<1>2. fdt.size \in Nat /\ DOMAIN fdt.table \subseteq 0..fdt.max_fd
  BY <1>1, SoundFinite
<1>3. InUse(fdt) \subseteq Fds
  BY <1>1, <1>2, SimFSAssumption DEF InUse, Fds
<1> QED BY <1>1, <1>2, <1>3, SlotsCounted DEF Descriptors

(* A descriptor that passes the tests of a call. *)
LEMMA Accepted ==
    ASSUME Tables, NEW p \in Pids, NEW fd \in Nat, fdt_error(fdt, fd, p) = "ok"
    PROVE  /\ fd \in InUse(fdt) /\ fdt.table[fd].owner = p
           /\ fdt.table[fd] \in Entries /\ Copy(fd) \in Copies /\ Copy(fd).name \in Names
<1>1. fd \in InUse(fdt) /\ fdt.table[fd].owner = p
  BY TableFacts, AcceptedIsOwned
<1>2. fdt.table[fd] \in Entries
  BY <1>1 DEF Tables, TypeOK
<1>3. Copy(fd) \in Copies
  BY <1>2 DEF Entries, Copy, fdt_get
<1>4. Copy(fd).name \in Names
  BY <1>3 DEF Copies
<1> QED BY <1>1, <1>2, <1>3, <1>4

(* The effect of opening a file, whose inode is then `inode', on the fd    *)
(* table and on what relates it to the file table.                         *)
FileOpened(p, f, inode) ==
    /\ files' \in [Names -> Inodes \cup {NULL}]
    /\ files'[f] # NULL /\ \A g \in Names \ {f} : files'[g] = files[g]
    /\ files'[f].refs = [inode.refs EXCEPT ![p] = inode.refs[p] + 1]
    /\ files'[f].locked = inode.locked /\ files'[f].pending = inode.pending
    /\ files'[f].btime = inode.btime
    /\ \A fd \in InUse(fdt') : fdt'.table[fd] \in Entries
    /\ TableSound' /\ TableInLimit'
    /\ CopiesAreAccessible' /\ RefsHaveDescriptors' /\ Artifacts'

LEMMA OpenedEffect ==
    ASSUME IInv, NEW p \in Pids, NEW f \in Names, NEW inode \in Inodes,
           fdt.size # MAX_OPEN_FILES, Opened(p, f, inode), heap' = heap, clock \in Nat,
           inode.locked \in {NoPid, p},
           Exists(f) => inode.refs = files[f].refs /\ inode.ptr = files[f].ptr,
           ~Exists(f) => inode.ptr = NULL /\ \A q \in Pids : inode.refs[q] = 0
    PROVE  FileOpened(p, f, inode)
<1> DEFINE c == inode_copy(f, inode)
           e == [owner |-> p, inode |-> c]
           fd0 == get_file_descriptor(fdt)
           new == increase_refs(inode, p, clock)
<1>1. c \in Copies /\ c.name = f /\ c.locked = inode.locked /\ c.ptr = inode.ptr
  BY DEF inode_copy, Inodes, Copies
<1>2. e \in Entries /\ e # NULL /\ e.owner = p /\ e.inode = c
  BY <1>1, NullAssumption DEF Entries
<1>3. fdt' = fdt_put(fdt, e) /\ files' = [files EXCEPT ![f] = new]
  BY DEF Opened
<1>4. /\ new \in Inodes /\ new # NULL
      /\ new.refs = [inode.refs EXCEPT ![p] = inode.refs[p] + 1]
      /\ new.locked = inode.locked /\ new.pending = inode.pending
      /\ new.ptr = inode.ptr /\ new.btime = inode.btime
  BY InodeRefs, NullAssumption
<1>5. Tables /\ TypeOK /\ files \in [Names -> Inodes \cup {NULL}]
  BY DEF IInv, Tables, TypeOK
<1>6. /\ Sound(fdt') /\ fdt'.size = fdt.size + 1
      /\ fdt'.max_fd = IF fd0 > fdt.max_fd THEN fd0 ELSE fdt.max_fd
      /\ InUse(fdt') = InUse(fdt) \cup {fd0}
      /\ fdt'.table[fd0] = e
      /\ \A i \in InUse(fdt) : fdt'.table[i] = fdt.table[i]
  BY <1>2, <1>3, <1>5, TableFacts, PutSound
<1>7. \A q \in Pids, g \in Names :
         fdt_pid_inode_size(fdt', g, q)
            = IF q = p /\ g = f THEN Descriptors(q, g) + 1 ELSE Descriptors(q, g)
  BY <1>1, <1>2, <1>3, <1>5, TableFacts, PutCounted DEF Descriptors
<1>8. fdt' = [size |-> fdt'.size, max_fd |-> fdt'.max_fd,
              free_index_map |-> fdt'.free_index_map, table |-> fdt'.table]
  BY <1>3 DEF fdt_put
<1> HIDE DEF c, e, fd0, new
<1>9. files' \in [Names -> Inodes \cup {NULL}] /\ files'[f] = new
      /\ \A g \in Names \ {f} : files'[g] = files[g]
  BY <1>3, <1>4, <1>5
<1>10. TableInLimit'
  <2>1. fdt.size \in 0..MAX_OPEN_FILES - 1 /\ fdt.max_fd \in 0..MAX_OPEN_FILES - 1
    BY <1>5, TableFacts, SimFSAssumption DEF Tables, TableInLimit
  <2>2. fd0 \in Nat /\ fd0 <= fdt.size
    BY <1>5, TableFacts, NextIsCounted DEF fd0
  <2>3. fdt'.size <= MAX_OPEN_FILES /\ fdt'.max_fd \in 0..MAX_OPEN_FILES - 1
    BY <1>6, <2>1, <2>2, SimFSAssumption
  <2> QED BY <1>8, <2>3 DEF TableInLimit
<1>11. \A fd \in InUse(fdt') : fdt'.table[fd] \in Entries
  BY <1>2, <1>5, <1>6 DEF TypeOK
<1>12. CopiesAreAccessible'
  BY <1>1, <1>2, <1>6 DEF IInv, Locks, CopiesAreAccessible, Copy, fdt_get
<1>13. RefsHaveDescriptors'
  <2> SUFFICES ASSUME NEW g \in Names, NEW q \in Pids, files'[g] # NULL
               PROVE  files'[g].refs[q] <= fdt_pid_inode_size(fdt', g, q)
    BY DEF RefsHaveDescriptors, Exists, Descriptors
  <2>1. Descriptors(q, g) \in Nat
    BY <1>5, TableFacts
  <2>2. CASE g # f
    BY <1>7, <1>9, <2>1, <2>2 DEF IInv, Locks, RefsHaveDescriptors, Exists
  <2>3. CASE g = f
    <3>1. inode.refs[q] <= Descriptors(q, f) /\ inode.refs \in [Pids -> Nat]
      BY <2>1, <2>3 DEF IInv, Locks, RefsHaveDescriptors, Inodes
    <3> QED BY <1>4, <1>7, <1>9, <2>1, <2>3, <3>1
  <2> QED BY <2>2, <2>3
<1>14. Artifacts'
  <2>0. NULL \notin Addrs
    BY SimFSAssumption
  <2>1. \A g \in Names : files'[g] # NULL /\ files'[g].ptr # NULL
                             => files[g] # NULL /\ files'[g].ptr = files[g].ptr
    BY <1>4, <1>9 DEF Exists
  <2>2. \A g \in Names : files[g] # NULL /\ files[g].ptr # NULL
                             => files'[g] # NULL /\ files'[g].ptr = files[g].ptr
    BY <1>4, <1>9 DEF Exists
  <2>3. InodePointersLive'
    BY <2>1, <2>2 DEF IInv, Artifacts, InodePointersLive, Exists
  <2>4. CopyPointersLive'
    <3> SUFFICES ASSUME NEW fd \in InUse(fdt'), fdt'.table[fd].inode.ptr \in Addrs
                 PROVE  LET k == fdt'.table[fd].inode
                        IN  /\ heap[k.ptr] # NULL
                            /\ \A g \in Names : files'[g] # NULL /\ files'[g].ptr = k.ptr
                                                    => g = k.name
      BY DEF CopyPointersLive, Copy, fdt_get, Exists
    <3>1. CASE fd \in InUse(fdt)
      <4>1. fdt'.table[fd] = fdt.table[fd]
        BY <1>6, <3>1
      <4> QED BY <2>0, <2>1, <3>1, <4>1
              DEF IInv, Artifacts, CopyPointersLive, Copy, fdt_get, Exists
    <3>2. CASE fd = fd0
      <4>1. fdt'.table[fd].inode.ptr = inode.ptr /\ fdt'.table[fd].inode.name = f
        BY <1>1, <1>2, <1>6, <3>2
      <4>2. Exists(f) /\ files[f].ptr = inode.ptr /\ inode.ptr # NULL
        BY <2>0, <4>1
      <4> QED BY <2>0, <2>1, <4>1, <4>2 DEF IInv, Artifacts, InodePointersLive, Exists
    <3> QED BY <1>6, <3>1, <3>2
  <2> QED BY <2>3, <2>4 DEF Artifacts
<1> QED BY <1>3, <1>4, <1>6, <1>9, <1>10, <1>11, <1>12, <1>13, <1>14 DEF FileOpened, TableSound, new
-----------------------------------------------------------------------------
(* A step that neither creates nor removes a file. *)
SameFiles ==
    /\ presence' = presence /\ monitor'.file_counter = monitor.file_counter
    /\ clock' \in Nat /\ clock <= clock'
    /\ \A f \in Names :
          /\ files'[f] # NULL <=> files[f] # NULL
          /\ files[f] # NULL => files'[f].btime = files[f].btime

LEMMA SameFilesKept ==
    ASSUME IInv, SameFiles
    PROVE  ListMatchesTable' /\ FilesAreCounted' /\ Ages'
<1>1. presence \in Seq(Names) /\ clock \in Nat
  BY SimFSAssumption DEF IInv, Tables, TypeOK
<1>2. \A i \in DOMAIN presence : presence[i] \in Names /\ files[presence[i]] # NULL
  BY <1>1 DEF IInv, Tables, ListMatchesTable, Exists, ToSet
<1>3. ListMatchesTable'
  BY DEF IInv, Tables, ListMatchesTable, Exists, SameFiles
<1>4. FilesAreCounted'
  BY DEF IInv, FilesAreCounted, SameFiles
<1>5. BornInThePast'
  <2> SUFFICES ASSUME NEW f \in Names, files'[f] # NULL
               PROVE  files'[f].btime <= clock'
    BY DEF BornInThePast, Exists
  <2>1. files[f] \in Inodes /\ files'[f].btime = files[f].btime
    BY DEF IInv, Tables, TypeOK, SameFiles
  <2>2. files[f].btime \in Nat
    BY <2>1 DEF Inodes
  <2> QED BY <1>1, <2>1, <2>2 DEF IInv, Ages, BornInThePast, Exists, SameFiles
<1>6. ListedByAge'
  BY <1>2 DEF IInv, Ages, ListedByAge, SameFiles
<1> QED BY <1>3, <1>4, <1>5, <1>6 DEF Ages

(* A step after which every waiter still waits for the same file, the      *)
(* locks and the references of that file are as before, and no waiter that *)
(* has no reason to wait is left without a signal.                         *)
SameWaiters ==
    /\ undefined' = "no" => undefined = "no"
    /\ \A f \in Names :
          /\ files'[f] # NULL <=> files[f] # NULL
          /\ files[f] # NULL =>
                /\ files'[f].pending = files[f].pending
                /\ files[f].pending > 0 => files'[f].locked = files[f].locked
    /\ \A q \in Pids :
          /\ waiting'[q] # NULL <=> waiting[q] # NULL
          /\ waiting[q] # NULL =>
                /\ waiting'[q].name = waiting[q].name
                /\ \/ waiting'[q].signalled
                   \/ /\ ~waiting[q].signalled
                      /\ MustWait(files[waiting[q].name], q)
                            => MustWait(files'[waiting[q].name], q)
                   \/ MustWait(files'[waiting[q].name], q)

LEMMA SameWaitersKept ==
    ASSUME IInv, SameWaiters
    PROVE  PendingIsOneWaiter' /\ NoLostWakeup'
<1> SUFFICES ASSUME undefined' = "no" PROVE PendingIsOneWaiter' /\ NoLostWakeup'
  BY DEF PendingIsOneWaiter, NoLostWakeup
<1>1. undefined = "no" /\ PendingIsOneWaiter /\ NoLostWakeup
  BY DEF IInv, Locks, SameWaiters
<1>2. \A q \in Pids : waiting[q] # NULL => waiting[q].name \in Names
  BY DEF IInv, Tables, TypeOK, Waits
<1>3. \A f \in Names : Waiters(f)' = Waiters(f)
  BY DEF Waiters, SameWaiters
<1>4. PendingIsOneWaiter'
  <2>1. ASSUME NEW f \in Names, files'[f] # NULL
        PROVE  \/ files'[f].pending = 0 /\ Waiters(f)' = {}
               \/ /\ files'[f].pending = 1 /\ files'[f].locked = NoPid
                  /\ \E p \in Pids : Waiters(f)' = {p}
    <3>1. /\ files[f] # NULL /\ files'[f].pending = files[f].pending
          /\ files[f].pending > 0 => files'[f].locked = files[f].locked
      BY <2>1 DEF SameWaiters
    <3>2. \/ files[f].pending = 0 /\ Waiters(f) = {}
          \/ /\ files[f].pending = 1 /\ files[f].locked = NoPid
             /\ \E p \in Pids : Waiters(f) = {p}
      BY <1>1, <3>1 DEF PendingIsOneWaiter, Exists
    <3> QED BY <1>3, <3>1, <3>2
  <2>2. ASSUME NEW q \in Pids, waiting'[q] # NULL PROVE files'[waiting'[q].name] # NULL
    BY <1>1, <1>2, <2>2 DEF PendingIsOneWaiter, Exists, SameWaiters
  <2> QED BY <2>1, <2>2 DEF PendingIsOneWaiter, Exists
<1>5. NoLostWakeup'
  <2> SUFFICES ASSUME NEW q \in Pids, waiting'[q] # NULL, ~waiting'[q].signalled
               PROVE  MustWait(files'[waiting'[q].name], q)
    BY DEF NoLostWakeup
  <2> QED BY <1>1 DEF NoLostWakeup, SameWaiters
<1> QED BY <1>4, <1>5
-----------------------------------------------------------------------------
(* What a step may do to locks and references: the three action properties *)
(* of SimFS, about one step.                                               *)

LockPasses ==
    \A f \in Names : Exists(f) /\ files'[f] # NULL =>
        LET owner == files[f].locked IN
        owner # NoPid =>
            /\ files'[f].locked \in {owner, NoPid}
            /\ \A q \in Pids \ {owner} : files'[f].refs[q] <= files[f].refs[q]

LockTaken ==
    \A f \in Names : Exists(f) /\ files'[f] # NULL =>
        \A p \in Pids :
            files[f].locked # p /\ files'[f].locked = p /\ files[f].refs[p] > 0
                => ~HeldByOthers(files'[f], p)

WaitShrinks ==
    \A p \in Pids : waiting[p] # NULL /\ waiting'[p] # NULL /\ undefined' = "no" =>
        LET f == waiting[p].name IN
        \A q \in Pids \ {p} : files'[f].refs[q] <= files[f].refs[q]

LockStep == LockPasses /\ LockTaken /\ WaitShrinks

(* A step that gives no lock and no reference. *)
LEMMA NothingTaken ==
    ASSUME IInv, undefined' = "no" => undefined = "no",
           \A f \in Names : Exists(f) /\ files'[f] # NULL =>
               /\ files'[f].locked \in {files[f].locked, NoPid}
               /\ \A q \in Pids : files'[f].refs[q] <= files[f].refs[q],
           \A p \in Pids : waiting[p] # NULL /\ waiting'[p] # NULL /\ undefined' = "no" =>
               files'[waiting[p].name] # NULL
    PROVE  LockStep
<1>1. LockPasses
  BY DEF LockPasses
<1>2. LockTaken
  BY NoPidAssumption DEF LockTaken
<1>3. WaitShrinks
  <2> SUFFICES ASSUME NEW p \in Pids, waiting[p] # NULL, waiting'[p] # NULL, undefined' = "no",
                      NEW q \in Pids \ {p}
               PROVE  files'[waiting[p].name].refs[q] <= files[waiting[p].name].refs[q]
    BY DEF WaitShrinks
  <2>1. waiting[p].name \in Names
    BY DEF IInv, Tables, TypeOK, Waits
  <2>2. Exists(waiting[p].name)
    BY DEF IInv, Locks, PendingIsOneWaiter
  <2> QED BY <2>1, <2>2
<1> QED BY <1>1, <1>2, <1>3 DEF LockStep

(* A step that gives pid p a lock or a reference of one file. *)
LEMMA OneTakes ==
    ASSUME IInv, undefined = "no", NEW p \in Pids, NEW f \in Names,
           \A g \in Names \ {f} : files'[g] = files[g], Exists(f), files'[f] # NULL,
           files[f].locked \in {NoPid, p}, files'[f].locked \in {files[f].locked, p},
           \A q \in Pids \ {p} : files'[f].refs[q] = files[f].refs[q],
           files'[f].locked # files[f].locked => ~MustWait(files[f], p),
           \A q \in Pids : waiting[q] # NULL /\ waiting'[q] # NULL => waiting[q].name # f
    PROVE  LockStep
<1>1. \A g \in Names, q \in Pids : Exists(g) => files[g].refs[q] \in Nat
  BY DEF IInv, Tables, TypeOK, Exists, Inodes
<1>2. LockPasses
  <2> SUFFICES ASSUME NEW g \in Names, Exists(g), files'[g] # NULL, files[g].locked # NoPid
               PROVE  /\ files'[g].locked \in {files[g].locked, NoPid}
                      /\ \A q \in Pids \ {files[g].locked} : files'[g].refs[q] <= files[g].refs[q]
    BY DEF LockPasses
  <2>1. CASE g = f
    BY <1>1, <2>1
  <2>2. CASE g # f
    BY <1>1, <2>2
  <2> QED BY <2>1, <2>2
<1>3. LockTaken
  <2> SUFFICES ASSUME NEW g \in Names, Exists(g), files'[g] # NULL, NEW r \in Pids,
                      files[g].locked # r, files'[g].locked = r, files[g].refs[r] > 0
               PROVE  ~HeldByOthers(files'[g], r)
    BY DEF LockTaken
  <2>1. g = f /\ r = p /\ ~MustWait(files[f], p)
    OBVIOUS
  <2>2. ~HeldByOthers(files[f], p)
    BY <2>1 DEF MustWait, has_refs, has_other_pid_refs
  <2> QED BY <2>1, <2>2 DEF HeldByOthers
<1>4. WaitShrinks
  <2> SUFFICES ASSUME NEW r \in Pids, waiting[r] # NULL, waiting'[r] # NULL,
                      NEW q \in Pids \ {r}
               PROVE  files'[waiting[r].name].refs[q] <= files[waiting[r].name].refs[q]
    BY DEF WaitShrinks
  <2>1. waiting[r].name \in Names /\ waiting[r].name # f
    BY DEF IInv, Tables, TypeOK, Waits
  <2>2. Exists(waiting[r].name)
    BY DEF IInv, Locks, PendingIsOneWaiter
  <2> QED BY <1>1, <2>1, <2>2
<1> QED BY <1>2, <1>3, <1>4 DEF LockStep
-----------------------------------------------------------------------------
(* Every action keeps the invariant.  First the steps that open a file.    *)

LEMMA OpenCreateInv ==
    ASSUME IInv, NEW p \in Pids, NEW f \in Names, NEW lock \in BOOLEAN,
           OpenCreate(p, f, lock)
    PROVE  IInv' /\ LockStep
<1>1. /\ undefined = "no" /\ undefined' = "no" /\ writing' = writing
      /\ open_error(p, f, TRUE, lock) = "ok"
      /\ presence' = Append(presence, f) /\ monitor' = file_added(monitor)
      /\ UNCHANGED <<used, heap, waiting, clock>>
  BY DEF OpenCreate, Ready
<1>2. fdt.size # MAX_OPEN_FILES /\ ~Exists(f)
  BY <1>1 DEF open_error
<1>3. Tables /\ TypeOK /\ clock \in Nat /\ clock \in 0..MaxTime
  BY SimFSAssumption DEF IInv, Tables, TypeOK
<1>4. PICK i \in Inodes : /\ i.locked \in {NoPid, p} /\ i.pending = 0 /\ i.btime = clock
                          /\ i.ptr = NULL /\ \A q \in Pids : i.refs[q] = 0
                          /\ Opened(p, f, i)
  <2> DEFINE new == inode_init(clock)
             inode == IF lock THEN file_lock(new, p, clock) ELSE new
  <2>1. /\ new \in Inodes /\ new.locked = NoPid /\ new.pending = 0
        /\ new.ptr = NULL /\ new.btime = clock /\ \A q \in Pids : new.refs[q] = 0
    BY <1>3, InodeInit
  <2>2. Opened(p, f, inode)
    BY DEF OpenCreate
  <2> HIDE DEF new
  <2>3. /\ inode \in Inodes /\ inode.locked \in {NoPid, p} /\ inode.pending = 0
        /\ inode.ptr = NULL /\ inode.btime = clock /\ \A q \in Pids : inode.refs[q] = 0
    BY <1>3, <2>1, InodeLock
  <2> HIDE DEF inode
  <2>4. PICK i \in Inodes : i = inode
    BY <2>3
  <2>5. Opened(p, f, i)
    BY <2>2, <2>4 DEF Opened
  <2> QED BY <2>3, <2>4, <2>5
<1>5. /\ files' \in [Names -> Inodes \cup {NULL}]
      /\ files'[f] # NULL
      /\ files'[f].pending = 0 /\ files'[f].btime = clock
      /\ \A g \in Names \ {f} : files'[g] = files[g]
      /\ \A fd \in InUse(fdt') : fdt'.table[fd] \in Entries
      /\ TableSound' /\ TableInLimit'
      /\ CopiesAreAccessible' /\ RefsHaveDescriptors' /\ Artifacts'
  <2>1. heap' = heap /\ clock \in Nat /\ fdt.size # MAX_OPEN_FILES
    BY <1>1, <1>2, <1>3
  <2>2. /\ Exists(f) => i.refs = files[f].refs /\ i.ptr = files[f].ptr
        /\ ~Exists(f) => i.ptr = NULL /\ \A q \in Pids : i.refs[q] = 0
    BY <1>2, <1>4
  <2>3. i.locked \in {NoPid, p} /\ Opened(p, f, i)
    BY <1>4
  <2>4. FileOpened(p, f, i)
    BY <2>1, <2>2, <2>3, OpenedEffect, Zenon
  <2>5. files'[f].pending = 0 /\ files'[f].btime = clock
    BY <1>4, <2>4 DEF FileOpened
  <2> QED BY <2>4, <2>5, Zenon DEF FileOpened
<1>6. \A g \in Names \ {f} : files'[g] = files[g]
  BY <1>5
<1>7. f \notin ToSet(presence) /\ IsInjective(presence) /\ presence \in Seq(Names)
  BY <1>2, <1>3 DEF Tables, ListMatchesTable, TypeOK
<1>8. /\ presence' \in Seq(Names) /\ Len(presence') = Len(presence) + 1
      /\ IsInjective(presence') /\ ToSet(presence') = ToSet(presence) \cup {f}
  BY <1>1, <1>7, AppendNew
<1>9. TypeOK'
  <2>1. monitor' \in [file_counter : Nat, bytes_counter : Int]
    BY <1>1, <1>3 DEF TypeOK, file_added
  <2> QED BY <1>1, <1>3, <1>5, <1>8, <2>1 DEF TypeOK
<1>10. ListMatchesTable'
  BY <1>3, <1>5, <1>6, <1>8 DEF Tables, ListMatchesTable, Exists
<1>11. FilesAreCounted'
  <2>1. monitor'.file_counter = monitor.file_counter + 1 /\ monitor.file_counter \in Nat
    BY <1>1, <1>3 DEF TypeOK, file_added
  <2> QED BY <1>7, <1>8, <2>1 DEF IInv, FilesAreCounted
<1>12. PendingIsOneWaiter' /\ NoLostWakeup'
  <2>1. \A q \in Pids : waiting[q] # NULL => waiting[q].name # f /\ Exists(waiting[q].name)
    BY <1>1, <1>2 DEF IInv, Locks, PendingIsOneWaiter
  <2>2. \A q \in Pids : waiting[q] # NULL => waiting[q].name \in Names
    BY <1>3 DEF TypeOK, Waits
  <2>3. PendingIsOneWaiter'
    BY <1>1, <1>5, <1>6, <2>1, <2>2
       DEF IInv, Locks, PendingIsOneWaiter, Waiters, Exists
  <2>4. NoLostWakeup'
    BY <1>1, <1>6, <2>1, <2>2 DEF IInv, Locks, NoLostWakeup
  <2> QED BY <2>3, <2>4
<1>13. BornInThePast'
  BY <1>1, <1>3, <1>5, <1>6 DEF IInv, Ages, BornInThePast, Exists
<1>14. ListedByAge'
  <2> SUFFICES ASSUME NEW k \in DOMAIN presence', NEW l \in DOMAIN presence', k < l
               PROVE  files'[presence'[k]].btime <= files'[presence'[l]].btime
    BY DEF ListedByAge
  <2>1. k \in DOMAIN presence /\ presence'[k] = presence[k]
    BY <1>1, <1>7
  <2>2. presence[k] \in Names /\ presence[k] # f /\ Exists(presence[k])
    BY <1>3, <1>7, <2>1 DEF Tables, ListMatchesTable, ToSet
  <2>3. CASE l \in DOMAIN presence
    <3>1. presence'[l] = presence[l] /\ presence[l] \in Names /\ presence[l] # f
      BY <1>1, <1>7, <2>3 DEF ToSet
    <3> QED BY <1>6, <2>1, <2>2, <2>3, <3>1 DEF IInv, Ages, ListedByAge
  <2>4. CASE l \notin DOMAIN presence
    <3>1. presence'[l] = f
      BY <1>1, <1>7, <2>4
    <3> QED BY <1>5, <1>6, <2>1, <2>2, <3>1 DEF IInv, Ages, BornInThePast
  <2> QED BY <2>3, <2>4
<1>15. LockStep
  <2>1. \A g \in Names : Exists(g) =>
            /\ files'[g] = files[g]
            /\ \A q \in Pids : files'[g].refs[q] <= files[g].refs[q]
    <3>1. \A g \in Names, q \in Pids : Exists(g) => files[g].refs[q] \in Nat
      BY <1>3 DEF TypeOK, Exists, Inodes
    <3> QED BY <1>2, <1>6, <3>1
  <2>2. \A q \in Pids : waiting[q] # NULL => files'[waiting[q].name] # NULL
    <3>1. \A q \in Pids : waiting[q] # NULL => waiting[q].name \in Names
      BY <1>3 DEF TypeOK, Waits
    <3>2. \A q \in Pids : waiting[q] # NULL => Exists(waiting[q].name)
      BY <1>1 DEF IInv, Locks, PendingIsOneWaiter
    <3> QED BY <2>1, <3>1, <3>2 DEF Exists
  <2> QED BY <1>1, <2>1, <2>2, NothingTaken
<1> QED BY <1>5, <1>9, <1>10, <1>11, <1>12, <1>13, <1>14, <1>15
    DEF IInv, Tables, Locks, Ages

(* At most one waiter, and then nobody owns the lock.                      *)
LEMMA PendingCases ==
    ASSUME IInv, undefined = "no", NEW f \in Names, Exists(f)
    PROVE  \/ files[f].pending = 0 /\ Waiters(f) = {}
           \/ /\ files[f].pending = 1 /\ files[f].locked = NoPid
              /\ \E p \in Pids : Waiters(f) = {p}
BY DEF IInv, Locks, PendingIsOneWaiter

(* A file with a waiter is one nobody opens: open answers EBUSY, or        *)
(* EDEADLK, because the inode has a pending lock.                          *)
LEMMA NoWaiterWithoutPending ==
    ASSUME IInv, undefined = "no", NEW f \in Names, Exists(f), files[f].pending = 0,
           NEW q \in Pids, waiting[q] # NULL
    PROVE  waiting[q].name \in Names /\ waiting[q].name # f
<1>1. Waiters(f) = {}
  BY DEF IInv, Locks, PendingIsOneWaiter
<1>2. waiting[q].name \in Names
  BY DEF IInv, Tables, TypeOK, Waits
<1> QED BY <1>1, <1>2 DEF Waiters

LEMMA OpenExistingInv ==
    ASSUME IInv, NEW p \in Pids, NEW f \in Names, NEW lock \in BOOLEAN,
           OpenExisting(p, f, lock)
    PROVE  IInv' /\ LockStep
<1>1. /\ undefined = "no" /\ undefined' = "no" /\ writing' = writing
      /\ open_error(p, f, FALSE, lock) = "ok"
      /\ UNCHANGED <<presence, used, monitor, heap, waiting, clock>>
  BY DEF OpenExisting, Ready
<1>2. Tables /\ TypeOK /\ clock \in Nat
  BY SimFSAssumption DEF IInv, Tables, TypeOK
<1>3. fdt.size # MAX_OPEN_FILES /\ Exists(f) /\ files[f] \in Inodes
  BY <1>1, <1>2 DEF open_error, TypeOK, Exists
<1>4. files[f].locked \in {NoPid, p} /\ files[f].pending = 0
  <2>1. /\ ~LockedByOther(files[f], p)
        /\ (lock /\ files[f].locked = p) \/ ~has_pending_locks(files[f])
    BY <1>1, <1>3 DEF open_error
  <2>2. \/ files[f].pending = 0
        \/ files[f].pending = 1 /\ files[f].locked = NoPid
    <3>1. undefined = "no" /\ Exists(f)
      BY <1>1, <1>3
    <3> QED BY <3>1, PendingCases
  <2> QED BY <2>1, <2>2, NoPidAssumption DEF LockedByOther, has_pending_locks
<1>5. PICK i \in Inodes : /\ i.locked \in {NoPid, p} /\ i.pending = 0
                          /\ i.btime = files[f].btime
                          /\ i.ptr = files[f].ptr /\ i.refs = files[f].refs
                          /\ i.locked \in {files[f].locked, p}
                          /\ i.locked # files[f].locked => ~MustWait(files[f], p)
                          /\ Opened(p, f, i)
  <2> DEFINE inode == IF NeedsLock(p, f, lock) THEN file_lock(files[f], p, clock)
                                               ELSE files[f]
  <2>1. Opened(p, f, inode)
    BY DEF OpenExisting
  <2>2. /\ inode \in Inodes /\ inode.locked \in {NoPid, p} /\ inode.pending = 0
        /\ inode.ptr = files[f].ptr /\ inode.btime = files[f].btime
        /\ inode.refs = files[f].refs
        /\ inode.locked \in {files[f].locked, p}
        /\ inode.locked # files[f].locked => NeedsLock(p, f, lock)
    BY <1>2, <1>3, <1>4, InodeLock
  <2> HIDE DEF inode
  <2>5. NeedsLock(p, f, lock) => ~MustWait(files[f], p)
    BY DEF OpenExisting
  <2>3. PICK i \in Inodes : i = inode
    BY <2>2
  <2>4. Opened(p, f, i)
    BY <2>1, <2>3 DEF Opened
  <2> QED BY <2>2, <2>3, <2>4, <2>5
<1>6. FileOpened(p, f, i)
  <2>1. heap' = heap /\ clock \in Nat /\ fdt.size # MAX_OPEN_FILES
    BY <1>1, <1>2, <1>3
  <2>2. /\ Exists(f) => i.refs = files[f].refs /\ i.ptr = files[f].ptr
        /\ ~Exists(f) => i.ptr = NULL /\ \A q \in Pids : i.refs[q] = 0
    BY <1>3, <1>5
  <2>3. i.locked \in {NoPid, p} /\ Opened(p, f, i)
    BY <1>5
  <2> QED BY <2>1, <2>2, <2>3, OpenedEffect, Zenon
<1>7. /\ files' \in [Names -> Inodes \cup {NULL}] /\ files'[f] # NULL
      /\ files'[f].pending = 0 /\ files'[f].btime = files[f].btime
      /\ \A g \in Names \ {f} : files'[g] = files[g]
  BY <1>5, <1>6 DEF FileOpened
<1>8. /\ \A fd \in InUse(fdt') : fdt'.table[fd] \in Entries
      /\ TableSound' /\ TableInLimit'
      /\ CopiesAreAccessible' /\ RefsHaveDescriptors' /\ Artifacts'
  BY <1>6, Zenon DEF FileOpened
<1>9. TypeOK'
  BY <1>1, <1>2, <1>7, <1>8 DEF TypeOK
<1>10. ListMatchesTable' /\ FilesAreCounted' /\ Ages'
  <2>1. SameFiles
    BY <1>1, <1>2, <1>3, <1>7 DEF SameFiles, Exists
  <2> QED BY <2>1, SameFilesKept
<1>11. PendingIsOneWaiter' /\ NoLostWakeup'
  <2>1. \A q \in Pids : waiting[q] # NULL => waiting[q].name \in Names /\ waiting[q].name # f
    BY <1>1, <1>3, <1>4, NoWaiterWithoutPending
  <2>2. SameWaiters
    BY <1>1, <1>3, <1>4, <1>7, <2>1 DEF SameWaiters, Exists
  <2> QED BY <2>2, SameWaitersKept
<1>12. LockStep
  <2>1. \A q \in Pids : waiting[q] # NULL => waiting[q].name # f
    BY <1>1, <1>3, <1>4, NoWaiterWithoutPending
  <2>2. /\ files'[f].locked \in {files[f].locked, p}
        /\ files'[f].locked # files[f].locked => ~MustWait(files[f], p)
        /\ files'[f].refs = [files[f].refs EXCEPT ![p] = files[f].refs[p] + 1]
    BY <1>5, <1>6 DEF FileOpened
  <2>3. \A q \in Pids \ {p} : files'[f].refs[q] = files[f].refs[q]
    BY <1>3, <2>2 DEF Inodes
  <2> QED BY <1>1, <1>3, <1>4, <1>7, <2>1, <2>2, <2>3, OneTakes
<1> QED BY <1>8, <1>9, <1>10, <1>11, <1>12 DEF IInv, Tables, Locks

(* A step that changes the lock, the pending locks or the times of one     *)
(* inode and nothing else but the waiters.                                 *)
OnlyLockOf(f) ==
    /\ files' \in [Names -> Inodes \cup {NULL}]
    /\ \A g \in Names \ {f} : files'[g] = files[g]
    /\ files[f] # NULL /\ files'[f] # NULL
    /\ files'[f].refs = files[f].refs
    /\ files'[f].ptr = files[f].ptr /\ files'[f].btime = files[f].btime
    /\ UNCHANGED <<presence, used, monitor, fdt, heap, writing, clock>>
    /\ undefined = "no" /\ undefined' = "no"

LEMMA OnlyLockKept ==
    ASSUME IInv, NEW f \in Names, OnlyLockOf(f), waiting' \in [Pids -> Waits \cup {NULL}],
           PendingIsOneWaiter', NoLostWakeup'
    PROVE  IInv'
<1>1. Tables /\ TypeOK /\ clock \in Nat
  BY SimFSAssumption DEF IInv, Tables, TypeOK
<1>2. TypeOK'
  BY <1>1 DEF TypeOK, OnlyLockOf
<1>3. TableSound' /\ TableInLimit' /\ CopiesAreAccessible'
  BY DEF IInv, Tables, TableSound, TableInLimit, Locks, CopiesAreAccessible, Copy, OnlyLockOf
<1>4. RefsHaveDescriptors'
  BY DEF IInv, Locks, RefsHaveDescriptors, Descriptors, Exists, OnlyLockOf
<1>5. Artifacts'
  BY DEF IInv, Artifacts, InodePointersLive, CopyPointersLive, Copy, Exists, OnlyLockOf
<1>6. ListMatchesTable' /\ FilesAreCounted' /\ Ages'
  <2>1. SameFiles
    BY <1>1 DEF SameFiles, Exists, OnlyLockOf
  <2> QED BY <2>1, SameFilesKept
<1> QED BY <1>2, <1>3, <1>4, <1>5, <1>6 DEF IInv, Tables, Locks

(* A pid goes to sleep on a file that nobody locked or waits for, and that *)
(* others have open besides it.                                            *)
LEMMA SleepInv ==
    ASSUME IInv, NEW p \in Pids, NEW f \in Names, NEW op \in {"open", "lock"},
           Ready(p), Exists(f), files[f].locked = NoPid, files[f].pending = 0,
           MustWait(files[f], p), Sleep(p, f, op)
    PROVE  IInv' /\ LockStep
<1> DEFINE new == increase_pending_locks(files[f], clock)
           rec == [name |-> f, op |-> op, signalled |-> FALSE]
<1>1. /\ undefined = "no" /\ undefined' = "no" /\ waiting[p] = NULL
      /\ UNCHANGED <<presence, used, monitor, fdt, heap, writing, clock>>
  BY DEF Ready, Sleep
<1>2. files' = [files EXCEPT ![f] = new] /\ waiting' = [waiting EXCEPT ![p] = rec]
  BY DEF Sleep
<1>3. Tables /\ TypeOK /\ clock \in Nat /\ files[f] \in Inodes
  BY SimFSAssumption DEF IInv, Tables, TypeOK, Exists
<1>4. /\ new \in Inodes /\ new # NULL /\ new.pending = 1 /\ new.locked = NoPid
      /\ new.refs = files[f].refs /\ new.ptr = files[f].ptr /\ new.btime = files[f].btime
  <2>1. /\ new \in Inodes /\ new.pending = files[f].pending + 1
        /\ new.locked = files[f].locked /\ new.refs = files[f].refs
        /\ new.ptr = files[f].ptr /\ new.btime = files[f].btime
    BY <1>3, InodePending
  <2> HIDE DEF new
  <2> QED BY <2>1, NullAssumption
<1>5. rec \in Waits /\ rec # NULL /\ rec.name = f /\ rec.signalled = FALSE
  <2>1. rec \in Waits
    BY DEF Waits
  <2>2. rec # NULL
    BY <2>1, NullAssumption, Zenon
  <2> QED BY <2>1, <2>2
<1> HIDE DEF new, rec
<1>6. /\ files' \in [Names -> Inodes \cup {NULL}] /\ files'[f] = new
      /\ \A g \in Names \ {f} : files'[g] = files[g]
  BY <1>2, <1>3, <1>4 DEF TypeOK
<1>7. /\ waiting' \in [Pids -> Waits \cup {NULL}] /\ waiting'[p] = rec
      /\ \A q \in Pids \ {p} : waiting'[q] = waiting[q]
  BY <1>2, <1>3, <1>5 DEF TypeOK
<1>8. OnlyLockOf(f)
  BY <1>1, <1>3, <1>4, <1>6 DEF OnlyLockOf, Exists
<1>9. \A q \in Pids : waiting[q] # NULL => waiting[q].name \in Names /\ waiting[q].name # f
  BY <1>1, NoWaiterWithoutPending
<1>10. PendingIsOneWaiter'
  <2>1. /\ \A g \in Names \ {f} : Waiters(g)' = Waiters(g)
        /\ Waiters(f)' = {p}
    BY <1>1, <1>5, <1>7, <1>9 DEF Waiters
  <2>2. ASSUME NEW g \in Names, files'[g] # NULL
        PROVE  \/ files'[g].pending = 0 /\ Waiters(g)' = {}
               \/ /\ files'[g].pending = 1 /\ files'[g].locked = NoPid
                  /\ \E q \in Pids : Waiters(g)' = {q}
    <3>1. CASE g = f
      BY <1>4, <1>6, <2>1, <3>1
    <3>2. CASE g # f
      <4>1. Exists(g) /\ files'[g] = files[g] /\ Waiters(g)' = Waiters(g)
        BY <1>6, <2>1, <2>2, <3>2 DEF Exists
      <4> QED BY <1>1, <4>1, PendingCases
    <3> QED BY <3>1, <3>2
  <2>3. ASSUME NEW q \in Pids, waiting'[q] # NULL PROVE files'[waiting'[q].name] # NULL
    <3>1. CASE q = p
      BY <1>4, <1>5, <1>6, <1>7, <3>1
    <3>2. CASE q # p
      BY <1>1, <1>6, <1>7, <1>9, <2>3, <3>2 DEF IInv, Locks, PendingIsOneWaiter, Exists
    <3> QED BY <3>1, <3>2
  <2> QED BY <2>2, <2>3 DEF PendingIsOneWaiter, Exists
<1>11. NoLostWakeup'
  <2> SUFFICES ASSUME NEW q \in Pids, waiting'[q] # NULL, ~waiting'[q].signalled
               PROVE  MustWait(files'[waiting'[q].name], q)
    BY DEF NoLostWakeup
  <2>1. CASE q = p
    <3>1. MustWait(new, p)
      BY <1>4 DEF MustWait, has_refs, has_other_pid_refs, HeldByOthers
    <3> QED BY <1>5, <1>6, <1>7, <2>1, <3>1
  <2>2. CASE q # p
    BY <1>1, <1>6, <1>7, <1>9, <2>2 DEF IInv, Locks, NoLostWakeup
  <2> QED BY <2>1, <2>2
<1>12. LockStep
  <2>1. \A g \in Names : files[g] # NULL =>
            /\ files'[g] # NULL /\ files'[g].locked = files[g].locked
            /\ \A q \in Pids : files'[g].refs[q] = files[g].refs[q] /\ files[g].refs[q] \in Nat
    <3>1. \A g \in Names, q \in Pids : files[g] # NULL => files[g].refs[q] \in Nat
      BY <1>3 DEF TypeOK, Inodes
    <3> QED BY <1>4, <1>6, <3>1
  <2>2. \A q \in Pids : waiting[q] # NULL => files'[waiting[q].name] # NULL
    BY <1>1, <1>9, <2>1 DEF IInv, Locks, PendingIsOneWaiter, Exists
  <2>3. \A g \in Names : Exists(g) /\ files'[g] # NULL =>
            /\ files'[g].locked \in {files[g].locked, NoPid}
            /\ \A q \in Pids : files'[g].refs[q] <= files[g].refs[q]
    BY <2>1 DEF Exists
  <2> QED BY <1>1, <2>2, <2>3, NothingTaken
<1> QED BY <1>7, <1>8, <1>10, <1>11, <1>12, OnlyLockKept

LEMMA OpenWaitsInv ==
    ASSUME IInv, NEW p \in Pids, NEW f \in Names, OpenWaits(p, f)
    PROVE  IInv' /\ LockStep
<1>1. /\ Ready(p) /\ Sleep(p, f, "open") /\ MustWait(files[f], p)
      /\ open_error(p, f, FALSE, TRUE) = "ok" /\ files[f].locked # p
  BY DEF OpenWaits, NeedsLock
<1>2. /\ Exists(f) /\ ~LockedByOther(files[f], p) /\ ~has_pending_locks(files[f])
  BY <1>1 DEF open_error
<1>3. files[f] \in Inodes
  BY <1>2 DEF IInv, Tables, TypeOK, Exists
<1>4. files[f].locked = NoPid /\ files[f].pending = 0
  BY <1>1, <1>2, <1>3 DEF LockedByOther, has_pending_locks, Inodes
<1> QED BY <1>1, <1>2, <1>4, SleepInv

(* The file behind a descriptor that passes the tests of lock or unlock. *)
LEMMA FileOfDescriptor ==
    ASSUME IInv, NEW p \in Pids, NEW fd \in Fds, fd_error(p, fd) = "ok"
    PROVE  /\ fd \in InUse(fdt) /\ fdt.table[fd].owner = p
           /\ Copy(fd) \in Copies /\ Copy(fd).name \in Names
           /\ Exists(Copy(fd).name) /\ files[Copy(fd).name] \in Inodes
<1>1. fdt_error(fdt, fd, p) = "ok" /\ Exists(Copy(fd).name)
  BY DEF fd_error
<1>2. fd \in Nat /\ Tables
  BY SimFSAssumption DEF Fds, IInv
<1>3. /\ fd \in InUse(fdt) /\ fdt.table[fd].owner = p
      /\ Copy(fd) \in Copies /\ Copy(fd).name \in Names
  BY <1>1, <1>2, Accepted
<1> QED BY <1>1, <1>2, <1>3 DEF Tables, TypeOK, Exists

LEMMA LockWaitsInv ==
    ASSUME IInv, NEW p \in Pids, NEW fd \in Fds, LockWaits(p, fd)
    PROVE  IInv' /\ LockStep
<1>1. Ready(p) /\ lock_error(p, fd) = "ok"
  BY DEF LockWaits
<1>2. fd_error(p, fd) = "ok"
  BY <1>1 DEF lock_error
<1>3. PICK f \in Names : f = Copy(fd).name
  BY <1>2, FileOfDescriptor
<1>4. Exists(f) /\ files[f] \in Inodes
  BY <1>2, <1>3, FileOfDescriptor
<1>5. files[f].locked = NoPid /\ MustWait(files[f], p)
  BY <1>3 DEF LockWaits
<1>6. Sleep(p, f, "lock")
  BY <1>3 DEF LockWaits, Sleep
<1>7. files[f].pending = 0
  <2>1. ~(files[f].locked # p /\ has_pending_locks(files[f]))
    BY <1>1, <1>2, <1>3 DEF lock_error
  <2> QED BY <1>4, <1>5, <2>1, NoPidAssumption DEF has_pending_locks, Inodes
<1> QED BY <1>1, <1>4, <1>5, <1>6, <1>7, SleepInv

(* Locking and unlocking a file that has no waiter. *)
LEMMA LockChangeInv ==
    ASSUME IInv, NEW f \in Names, OnlyLockOf(f), waiting' = waiting,
           files[f].pending = 0, files'[f].pending = 0
    PROVE  IInv'
<1>1. undefined = "no" /\ Exists(f) /\ files'[f] # NULL
      /\ \A g \in Names \ {f} : files'[g] = files[g]
  BY DEF OnlyLockOf, Exists
<1>2. \A q \in Pids : waiting[q] # NULL => waiting[q].name \in Names /\ waiting[q].name # f
  BY <1>1, NoWaiterWithoutPending
<1>3. SameWaiters
  BY <1>1, <1>2 DEF SameWaiters, Exists, OnlyLockOf
<1>4. PendingIsOneWaiter' /\ NoLostWakeup'
  BY <1>3, SameWaitersKept
<1>5. waiting' \in [Pids -> Waits \cup {NULL}]
  BY DEF IInv, Tables, TypeOK
<1> QED BY <1>4, <1>5, OnlyLockKept

LEMMA LockInv ==
    ASSUME IInv, NEW p \in Pids, NEW fd \in Fds, Lock(p, fd)
    PROVE  IInv' /\ LockStep
<1>1. Ready(p) /\ lock_error(p, fd) = "ok"
  BY DEF Lock
<1>2. fd_error(p, fd) = "ok"
  BY <1>1 DEF lock_error
<1>3. PICK f \in Names : f = Copy(fd).name
  BY <1>2, FileOfDescriptor
<1>4. Exists(f) /\ files[f] \in Inodes
  BY <1>2, <1>3, FileOfDescriptor
<1>5. /\ files[f].locked = NoPid /\ ~MustWait(files[f], p)
      /\ files' = [files EXCEPT ![f] = file_lock(files[f], p, clock)]
      /\ UNCHANGED <<presence, used, monitor, fdt, heap, waiting, writing, clock, undefined>>
  BY <1>3 DEF Lock
<1>6. files[f].pending = 0
  <2>1. ~(files[f].locked # p /\ has_pending_locks(files[f]))
    BY <1>1, <1>2, <1>3 DEF lock_error
  <2> QED BY <1>4, <1>5, <2>1, NoPidAssumption DEF has_pending_locks, Inodes
<1>7. OnlyLockOf(f) /\ files'[f].pending = 0
  <2> DEFINE new == file_lock(files[f], p, clock)
  <2>1. clock \in Nat /\ files \in [Names -> Inodes \cup {NULL}]
    BY SimFSAssumption DEF IInv, Tables, TypeOK
  <2>2. /\ new \in Inodes /\ new.pending = 0 /\ new.refs = files[f].refs
        /\ new.ptr = files[f].ptr /\ new.btime = files[f].btime
    BY <1>4, <1>6, <2>1, InodeLock
  <2>3. files' = [files EXCEPT ![f] = new]
    BY <1>5
  <2> HIDE DEF new
  <2>4. new # NULL
    BY <2>2, NullAssumption
  <2> QED BY <1>1, <1>4, <1>5, <2>1, <2>2, <2>3, <2>4 DEF OnlyLockOf, Ready, Exists
<1>8. LockStep
  <2>1. files'[f].locked = p
    <3>1. clock \in Nat /\ files \in [Names -> Inodes \cup {NULL}]
      BY SimFSAssumption DEF IInv, Tables, TypeOK
    <3> QED BY <1>4, <1>5, <3>1, InodeLock
  <2>2. undefined = "no"
    BY <1>1 DEF Ready
  <2>3. \A q \in Pids : waiting[q] # NULL => waiting[q].name # f
    BY <1>4, <1>6, <2>2, NoWaiterWithoutPending
  <2>4. /\ files'[f] # NULL /\ files'[f].refs = files[f].refs
        /\ \A g \in Names \ {f} : files'[g] = files[g]
    BY <1>7 DEF OnlyLockOf
  <2> QED BY <1>4, <1>5, <2>1, <2>2, <2>3, <2>4, OneTakes
<1> QED BY <1>5, <1>6, <1>7, <1>8, LockChangeInv

LEMMA UnlockInv ==
    ASSUME IInv, NEW p \in Pids, NEW fd \in Fds, Unlock(p, fd)
    PROVE  IInv' /\ LockStep
<1>1. Ready(p) /\ unlock_error(p, fd) = "ok"
  BY DEF Unlock
<1>2. fd_error(p, fd) = "ok"
  BY <1>1 DEF unlock_error
<1>3. PICK f \in Names : f = Copy(fd).name
  BY <1>2, FileOfDescriptor
<1>4. Exists(f) /\ files[f] \in Inodes
  BY <1>2, <1>3, FileOfDescriptor
<1>5. /\ files' = [files EXCEPT ![f] = file_unlock(files[f], clock)]
      /\ UNCHANGED <<presence, used, monitor, fdt, heap, waiting, writing, clock, undefined>>
  BY <1>3 DEF Unlock
<1>6. files[f].pending = 0
  <2>1. files[f].locked # NoPid
    BY <1>1, <1>2, <1>3, NoPidAssumption DEF unlock_error
  <2>2. undefined = "no"
    BY <1>1 DEF Ready
  <2> QED BY <1>4, <2>1, <2>2, PendingCases
<1>7. OnlyLockOf(f) /\ files'[f].pending = 0
  <2> DEFINE new == file_unlock(files[f], clock)
  <2>1. clock \in Nat /\ files \in [Names -> Inodes \cup {NULL}]
    BY SimFSAssumption DEF IInv, Tables, TypeOK
  <2>2. /\ new \in Inodes /\ new.pending = 0 /\ new.refs = files[f].refs
        /\ new.ptr = files[f].ptr /\ new.btime = files[f].btime
    BY <1>4, <1>6, <2>1, InodeUnlock
  <2>3. files' = [files EXCEPT ![f] = new]
    BY <1>5
  <2> HIDE DEF new
  <2>4. new # NULL
    BY <2>2, NullAssumption
  <2> QED BY <1>1, <1>4, <1>5, <2>1, <2>2, <2>3, <2>4 DEF OnlyLockOf, Ready, Exists
<1>8. LockStep
  <2>1. files'[f].locked = NoPid
    <3>1. clock \in Nat /\ files \in [Names -> Inodes \cup {NULL}]
      BY SimFSAssumption DEF IInv, Tables, TypeOK
    <3> QED BY <1>4, <1>5, <3>1, InodeUnlock
  <2>2. \A g \in Names, q \in Pids : files[g] # NULL => files[g].refs[q] \in Nat
    BY DEF IInv, Tables, TypeOK, Inodes
  <2>3. \A g \in Names : Exists(g) /\ files'[g] # NULL =>
            /\ files'[g].locked \in {files[g].locked, NoPid}
            /\ \A q \in Pids : files'[g].refs[q] <= files[g].refs[q]
    BY <1>7, <2>1, <2>2 DEF OnlyLockOf, Exists
  <2>4. undefined = "no" /\ \A q \in Pids : waiting[q] # NULL => files'[waiting[q].name] # NULL
    <3>1. \A q \in Pids : waiting[q] # NULL => waiting[q].name \in Names
      BY DEF IInv, Tables, TypeOK, Waits
    <3> QED BY <1>7, <3>1 DEF IInv, Locks, PendingIsOneWaiter, Exists, OnlyLockOf
  <2> QED BY <2>3, <2>4, NothingTaken
<1> QED BY <1>5, <1>6, <1>7, <1>8, LockChangeInv

(* Steps that touch neither files nor descriptors. *)
LEMMA QuietInv ==
    ASSUME IInv, UNCHANGED <<files, presence, used, monitor, fdt, heap, undefined>>,
           clock' \in 0..MaxTime, clock <= clock',
           writing' \in [pid : Pids, fd : Fds, buf : Payloads] \cup {NULL},
           waiting' \in [Pids -> Waits \cup {NULL}],
           \A q \in Pids :
              /\ waiting'[q] # NULL <=> waiting[q] # NULL
              /\ waiting[q] # NULL =>
                    /\ waiting'[q].name = waiting[q].name
                    /\ \/ waiting'[q].signalled
                       \/ ~waiting[q].signalled
                       \/ MustWait(files[waiting[q].name], q)
    PROVE  IInv' /\ LockStep
<1>1. TypeOK' /\ clock' \in Nat
  BY SimFSAssumption DEF IInv, Tables, TypeOK
<1>2. TableSound' /\ TableInLimit' /\ CopiesAreAccessible'
  BY DEF IInv, Tables, TableSound, TableInLimit, Locks, CopiesAreAccessible, Copy
<1>3. RefsHaveDescriptors'
  BY DEF IInv, Locks, RefsHaveDescriptors, Descriptors, Exists
<1>4. Artifacts'
  BY DEF IInv, Artifacts, InodePointersLive, CopyPointersLive, Copy, Exists
<1>5. ListMatchesTable' /\ FilesAreCounted' /\ Ages'
  <2>1. SameFiles
    BY <1>1 DEF SameFiles
  <2> QED BY <2>1, SameFilesKept
<1>6. PendingIsOneWaiter' /\ NoLostWakeup'
  <2>1. SameWaiters
    BY DEF SameWaiters
  <2> QED BY <2>1, SameWaitersKept
<1>7. LockStep
  <2>1. \A f \in Names, q \in Pids : files[f] # NULL => files[f].refs[q] \in Nat
    BY DEF IInv, Tables, TypeOK, Inodes
  <2>2. \A f \in Names : Exists(f) =>
            /\ files'[f].locked \in {files[f].locked, NoPid}
            /\ \A q \in Pids : files'[f].refs[q] <= files[f].refs[q]
    BY <2>1 DEF Exists
  <2>3. \A q \in Pids : waiting[q] # NULL /\ undefined' = "no" => files'[waiting[q].name] # NULL
    BY DEF IInv, Locks, PendingIsOneWaiter, Exists
  <2> QED BY <2>2, <2>3, NothingTaken
<1> QED BY <1>1, <1>2, <1>3, <1>4, <1>5, <1>6, <1>7 DEF IInv, Tables, Locks

LEMMA SpuriousInv ==
    ASSUME IInv, NEW p \in Pids, Spurious(p)
    PROVE  IInv' /\ LockStep
<1> DEFINE rec == [waiting[p] EXCEPT !.signalled = TRUE]
<1>1. /\ UNCHANGED <<files, presence, used, monitor, fdt, heap, undefined, clock, writing>>
      /\ waiting' = [waiting EXCEPT ![p] = rec] /\ waiting[p] # NULL
  BY DEF Spurious, table
<1>2. TypeOK /\ waiting \in [Pids -> Waits \cup {NULL}] /\ waiting[p] \in Waits
  BY <1>1 DEF IInv, Tables, TypeOK
<1>3. rec \in Waits /\ rec.name = waiting[p].name /\ rec.signalled
  BY <1>2 DEF Waits
<1> HIDE DEF rec
<1>4. rec # NULL
  BY <1>3, NullAssumption
<1> QED BY <1>1, <1>2, <1>3, <1>4, QuietInv, SimFSAssumption DEF TypeOK

LEMMA SleepAgainInv ==
    ASSUME IInv, NEW p \in Pids, SleepAgain(p)
    PROVE  IInv' /\ LockStep
<1> DEFINE rec == [waiting[p] EXCEPT !.signalled = FALSE]
<1>1. /\ UNCHANGED <<files, presence, used, monitor, fdt, heap, undefined, clock, writing>>
      /\ waiting' = [waiting EXCEPT ![p] = rec] /\ waiting[p] # NULL
      /\ MustWait(files[waiting[p].name], p)
  BY DEF SleepAgain, Awake, table
<1>2. TypeOK /\ waiting \in [Pids -> Waits \cup {NULL}] /\ waiting[p] \in Waits
  BY <1>1 DEF IInv, Tables, TypeOK
<1>3. rec \in Waits /\ rec.name = waiting[p].name
  BY <1>2 DEF Waits
<1> HIDE DEF rec
<1>4. rec # NULL
  BY <1>3, NullAssumption
<1> QED BY <1>1, <1>2, <1>3, <1>4, QuietInv, SimFSAssumption DEF TypeOK

LEMMA StutterInv ==
    ASSUME IInv, UNCHANGED <<files, presence, used, monitor, fdt, heap, undefined, waiting>>,
           clock' \in 0..MaxTime, clock <= clock',
           writing' \in [pid : Pids, fd : Fds, buf : Payloads] \cup {NULL}
    PROVE  IInv' /\ LockStep
<1>1. waiting \in [Pids -> Waits \cup {NULL}]
  BY DEF IInv, Tables, TypeOK
<1>2. \A q \in Pids : waiting[q] # NULL =>
         \/ waiting[q].signalled \/ ~waiting[q].signalled
  OBVIOUS
<1> QED BY <1>1, <1>2, QuietInv

LEMMA TickInv ==
    ASSUME IInv, Tick
    PROVE  IInv' /\ LockStep
<1>1. /\ UNCHANGED <<files, presence, used, monitor, fdt, heap, undefined, waiting, writing>>
      /\ clock < MaxTime /\ clock' = clock + 1
  BY DEF Tick, table
<1>2. TypeOK
  BY DEF IInv, Tables
<1>3. /\ clock' \in 0..MaxTime /\ clock <= clock'
      /\ writing' \in [pid : Pids, fd : Fds, buf : Payloads] \cup {NULL}
  BY <1>1, <1>2, SimFSAssumption DEF TypeOK
<1> QED BY <1>1, <1>3, StutterInv

LEMMA UnchangedInv ==
    ASSUME IInv, UNCHANGED <<files, presence, used, monitor, fdt, heap, undefined, waiting>>,
           clock' = clock,
           writing' \in [pid : Pids, fd : Fds, buf : Payloads] \cup {NULL}
    PROVE  IInv' /\ LockStep
<1>1. TypeOK
  BY DEF IInv, Tables
<1>2. clock' \in 0..MaxTime /\ clock <= clock'
  BY <1>1, SimFSAssumption DEF TypeOK
<1> QED BY <1>2, StutterInv

(* A waiter that finds the file lockable owns the lock. *)
LEMMA WakeUpInv ==
    ASSUME IInv, NEW p \in Pids, WakeUp(p)
    PROVE  IInv' /\ LockStep
<1>1. /\ undefined = "no" /\ undefined' = "no" /\ writing' = writing
      /\ waiting[p] # NULL /\ waiting' = [waiting EXCEPT ![p] = NULL]
      /\ UNCHANGED <<presence, used, monitor, heap, clock>>
  BY DEF WakeUp, Awake
<1>2. /\ Tables /\ TypeOK /\ clock \in Nat /\ waiting[p] \in Waits
      /\ files \in [Names -> Inodes \cup {NULL}]
  BY <1>1, SimFSAssumption DEF IInv, Tables, TypeOK
<1>3. PICK f \in Names : f = waiting[p].name
  BY <1>2 DEF Waits
<1>4. Exists(f) /\ files[f] \in Inodes
  BY <1>1, <1>2, <1>3 DEF IInv, Locks, PendingIsOneWaiter, Exists
<1>5. files[f].pending = 1 /\ files[f].locked = NoPid /\ Waiters(f) = {p}
  <2>1. p \in Waiters(f)
    BY <1>1, <1>3 DEF Waiters
  <2> QED BY <1>1, <1>4, <2>1, PendingCases
<1>6. \A q \in Pids \ {p} : waiting[q] # NULL => waiting[q].name \in Names /\ waiting[q].name # f
  <2>1. \A q \in Pids : waiting[q] # NULL => waiting[q].name \in Names
    BY <1>2 DEF TypeOK, Waits
  <2> QED BY <1>5, <2>1 DEF Waiters
<1>7. /\ waiting' \in [Pids -> Waits \cup {NULL}] /\ waiting'[p] = NULL
      /\ \A q \in Pids \ {p} : waiting'[q] = waiting[q]
  BY <1>1, <1>2 DEF TypeOK
<1>8. PICK i \in Inodes : /\ i = decrease_pending_locks(file_lock(files[f], p, clock), clock)
                          /\ i.pending = 0 /\ i.locked = p /\ i.refs = files[f].refs
                          /\ i.ptr = files[f].ptr /\ i.btime = files[f].btime
  <2> DEFINE x == file_lock(files[f], p, clock)
             y == decrease_pending_locks(x, clock)
  <2>1. /\ x \in Inodes /\ x.locked = p /\ x.pending = 1 /\ x.refs = files[f].refs
        /\ x.ptr = files[f].ptr /\ x.btime = files[f].btime
    BY <1>2, <1>4, <1>5, InodeLock
  <2> HIDE DEF x
  <2>2. /\ y \in Inodes /\ y.pending = 0 /\ y.refs = x.refs /\ y.locked = x.locked
        /\ y.ptr = x.ptr /\ y.btime = x.btime
    BY <1>2, <2>1, InodeNotPending
  <2> HIDE DEF y
  <2> QED BY <2>1, <2>2 DEF x, y
(* Whatever becomes of the descriptor, the locks are consistent. *)
<1>9. ASSUME files'[f] # NULL, files'[f].pending = 0,
             \A g \in Names \ {f} : files'[g] = files[g]
      PROVE  PendingIsOneWaiter' /\ NoLostWakeup'
  <2>1. /\ \A g \in Names \ {f} : Waiters(g)' = Waiters(g)
        /\ Waiters(f)' = {}
    BY <1>3, <1>6, <1>7 DEF Waiters
  <2>2. ASSUME NEW g \in Names, files'[g] # NULL
        PROVE  \/ files'[g].pending = 0 /\ Waiters(g)' = {}
               \/ /\ files'[g].pending = 1 /\ files'[g].locked = NoPid
                  /\ \E q \in Pids : Waiters(g)' = {q}
    <3>1. CASE g = f
      BY <1>9, <2>1, <3>1
    <3>2. CASE g # f
      <4>1. Exists(g) /\ files'[g] = files[g] /\ Waiters(g)' = Waiters(g)
        BY <1>9, <2>1, <2>2, <3>2 DEF Exists
      <4> QED BY <1>1, <4>1, PendingCases
    <3> QED BY <3>1, <3>2
  <2>3. ASSUME NEW q \in Pids, waiting'[q] # NULL PROVE files'[waiting'[q].name] # NULL
    BY <1>1, <1>6, <1>7, <1>9, <2>3 DEF IInv, Locks, PendingIsOneWaiter, Exists
  <2>4. PendingIsOneWaiter'
    BY <2>2, <2>3 DEF PendingIsOneWaiter, Exists
  <2>5. NoLostWakeup'
    BY <1>1, <1>6, <1>7, <1>9 DEF IInv, Locks, NoLostWakeup
  <2> QED BY <2>4, <2>5
<1>10. ASSUME waiting[p].op = "open", fdt.size # MAX_OPEN_FILES PROVE IInv'
  <2>1. Opened(p, f, i)
    BY <1>3, <1>8, <1>10 DEF WakeUp, Opened
  <2>2. FileOpened(p, f, i)
    <3>1. heap' = heap /\ clock \in Nat /\ fdt.size # MAX_OPEN_FILES
      BY <1>1, <1>2, <1>10
    <3>2. /\ Exists(f) => i.refs = files[f].refs /\ i.ptr = files[f].ptr
          /\ ~Exists(f) => i.ptr = NULL /\ \A q \in Pids : i.refs[q] = 0
      BY <1>4, <1>8
    <3>3. i.locked \in {NoPid, p}
      BY <1>8
    <3> QED BY <2>1, <3>1, <3>2, <3>3, OpenedEffect, Zenon
  <2>3. /\ files' \in [Names -> Inodes \cup {NULL}] /\ files'[f] # NULL
        /\ files'[f].pending = 0 /\ files'[f].btime = files[f].btime
        /\ \A g \in Names \ {f} : files'[g] = files[g]
    BY <1>8, <2>2 DEF FileOpened
  <2>4. /\ \A fd \in InUse(fdt') : fdt'.table[fd] \in Entries
        /\ TableSound' /\ TableInLimit'
        /\ CopiesAreAccessible' /\ RefsHaveDescriptors' /\ Artifacts'
    BY <2>2, Zenon DEF FileOpened
  <2>5. TypeOK'
    BY <1>1, <1>2, <1>7, <2>3, <2>4 DEF TypeOK
  <2>6. ListMatchesTable' /\ FilesAreCounted' /\ Ages'
    <3>1. SameFiles
      BY <1>1, <1>2, <1>4, <2>3 DEF SameFiles, Exists
    <3> QED BY <3>1, SameFilesKept
  <2>7. PendingIsOneWaiter' /\ NoLostWakeup'
    BY <1>9, <2>3
  <2> QED BY <2>4, <2>5, <2>6, <2>7 DEF IInv, Tables, Locks
<1>11. ASSUME ~(waiting[p].op = "open" /\ fdt.size # MAX_OPEN_FILES) PROVE IInv'
  <2>1. files' = [files EXCEPT ![f] = i] /\ fdt' = fdt
    BY <1>3, <1>8, <1>11 DEF WakeUp
  <2>2. i # NULL
    BY <1>8, NullAssumption
  <2>3. /\ files' \in [Names -> Inodes \cup {NULL}] /\ files'[f] = i
        /\ \A g \in Names \ {f} : files'[g] = files[g]
    BY <1>2, <2>1
  <2>4. OnlyLockOf(f)
    BY <1>1, <1>4, <1>8, <2>1, <2>2, <2>3 DEF OnlyLockOf, Exists
  <2>5. PendingIsOneWaiter' /\ NoLostWakeup'
    BY <1>8, <1>9, <2>2, <2>3
  <2> QED BY <1>7, <2>4, <2>5, OnlyLockKept
(* Either way the caller gets a lock that nobody holds it from. *)
<1>12. LockStep
  <2>1. ~MustWait(files[f], p)
    BY <1>3 DEF WakeUp
  <2>2. /\ files'[f] # NULL /\ files'[f].locked = p
        /\ \A q \in Pids \ {p} : files'[f].refs[q] = files[f].refs[q]
        /\ \A g \in Names \ {f} : files'[g] = files[g]
    <3>1. PICK r \in [Pids -> Nat] : r = files[f].refs
      BY <1>4 DEF Inodes
    <3>2. PICK j \in Inodes : /\ files' = [files EXCEPT ![f] = j] /\ j.locked = p
                              /\ \A q \in Pids \ {p} : j.refs[q] = r[q]
      <4>1. CASE waiting[p].op = "open" /\ fdt.size # MAX_OPEN_FILES
        <5> DEFINE y == increase_refs(i, p, clock)
        <5>1. files' = [files EXCEPT ![f] = y]
          BY <1>3, <1>8, <4>1 DEF WakeUp, Opened
        <5>2. y \in Inodes /\ y.locked = p /\ y.refs = [i.refs EXCEPT ![p] = i.refs[p] + 1]
          BY <1>2, <1>8, InodeRefs
        <5> HIDE DEF y
        <5>3. \A q \in Pids \ {p} : y.refs[q] = r[q]
          BY <1>8, <3>1, <5>2
        <5> QED BY <5>1, <5>2, <5>3
      <4>2. CASE ~(waiting[p].op = "open" /\ fdt.size # MAX_OPEN_FILES)
        <5>1. files' = [files EXCEPT ![f] = i]
          BY <1>3, <1>8, <4>2 DEF WakeUp
        <5> QED BY <1>8, <3>1, <5>1
      <4> QED BY <4>1, <4>2
    <3> QED BY <1>2, <3>1, <3>2, NullAssumption
  <2>3. \A q \in Pids : waiting[q] # NULL /\ waiting'[q] # NULL => waiting[q].name # f
    BY <1>6, <1>7
  <2> QED BY <1>1, <1>4, <1>5, <2>1, <2>2, <2>3, OneTakes
<1> QED BY <1>10, <1>11, <1>12
-----------------------------------------------------------------------------
(* Close and the end of a session.                                         *)

LEMMA ReachableFacts ==
    ASSUME NEW h \in [Addrs -> Seq(Bytes) \cup {NULL}], NEW fs, NEW t
    PROVE  /\ Reachable(h, fs, t) \in [Addrs -> Seq(Bytes) \cup {NULL}]
           /\ \A f \in Names : fs[f] # NULL /\ fs[f].ptr \in Addrs
                 => Reachable(h, fs, t)[fs[f].ptr] = h[fs[f].ptr]
           /\ \A fd \in InUse(t) : t.table[fd].inode.ptr \in Addrs
                 => Reachable(h, fs, t)[t.table[fd].inode.ptr] = h[t.table[fd].inode.ptr]
<1>1. Reachable(h, fs, t) \in [Addrs -> Seq(Bytes) \cup {NULL}]
  BY DEF Reachable
<1>2. \A a \in Addrs : a \in Referenced(fs, t) => Reachable(h, fs, t)[a] = h[a]
  BY DEF Reachable
<1>3. \A f \in Names : fs[f] # NULL => fs[f].ptr \in Referenced(fs, t)
  BY DEF Referenced
<1>4. \A fd \in InUse(t) : t.table[fd].inode.ptr \in Referenced(fs, t)
  BY DEF Referenced
<1> QED BY <1>1, <1>2, <1>3, <1>4

(* Descriptors go and inodes keep their pointers. *)
LEMMA ArtifactsShrink ==
    ASSUME IInv, files' \in [Names -> Inodes \cup {NULL}],
           \A g \in Names : files'[g] # NULL => files[g] # NULL /\ files'[g].ptr = files[g].ptr,
           InUse(fdt') \subseteq InUse(fdt),
           \A i \in InUse(fdt') : fdt'.table[i] = fdt.table[i],
           heap' = Reachable(heap, files', fdt')
    PROVE  Artifacts' /\ heap' \in [Addrs -> Seq(Bytes) \cup {NULL}]
<1>1. heap \in [Addrs -> Seq(Bytes) \cup {NULL}] /\ NULL \notin Addrs
  BY SimFSAssumption DEF IInv, Tables, TypeOK
<1>2. \A f \in Names : files'[f] # NULL /\ files'[f].ptr # NULL
                          => files'[f].ptr \in Addrs /\ heap'[files'[f].ptr] = heap[files'[f].ptr]
  <2>1. \A f \in Names : files'[f] # NULL => files'[f].ptr \in Addrs \cup {NULL}
    BY DEF Inodes
  <2> QED BY <1>1, <2>1, ReachableFacts
<1>3. \A i \in InUse(fdt') : fdt'.table[i].inode.ptr \in Addrs
                                => heap'[fdt'.table[i].inode.ptr] = heap[fdt'.table[i].inode.ptr]
  BY <1>1, ReachableFacts
<1>4. InodePointersLive'
  BY <1>2 DEF IInv, Artifacts, InodePointersLive, Exists
<1>5. CopyPointersLive'
  BY <1>3 DEF IInv, Artifacts, CopyPointersLive, Copy, fdt_get, Exists
<1>6. heap' \in [Addrs -> Seq(Bytes) \cup {NULL}]
  BY <1>1, ReachableFacts
<1> QED BY <1>4, <1>5, <1>6 DEF Artifacts

(* A decrease that does not signal leaves no waiter that could go on.      *)
LEMMA UnsignalledMayWait ==
    ASSUME NEW x \in Inodes, NEW y \in Inodes, NEW p \in Pids, NEW q \in Pids, q # p,
           \A r \in Pids \ {p} : y.refs[r] = x.refs[r], ~Signals(y, p)
    PROVE  ~MustWait(x, q)
<1>1. ~(y.refs[q] > 0)
  BY DEF Signals, HeldByOthers
<1> QED BY <1>1 DEF MustWait, has_other_pid_refs

LEMMA CloseInv ==
    ASSUME IInv, NEW p \in Pids, NEW fd \in Fds, Close(p, fd)
    PROVE  IInv' /\ LockStep
<1>1. /\ undefined = "no" /\ undefined' = "no" /\ waiting[p] = NULL
      /\ fdt_error(fdt, fd, p) = "ok" /\ fdt' = remove_fd(fdt, fd)
      /\ heap' = Reachable(heap, files', fdt')
      /\ UNCHANGED <<presence, used, monitor, writing, clock>>
  BY DEF Close, Ready
<1>2. /\ Tables /\ TypeOK /\ clock \in Nat /\ fd \in Nat
      /\ files \in [Names -> Inodes \cup {NULL}] /\ waiting \in [Pids -> Waits \cup {NULL}]
  BY SimFSAssumption DEF IInv, Tables, TypeOK, Fds
<1>3. /\ fd \in InUse(fdt) /\ fdt.table[fd].owner = p /\ Copy(fd).name \in Names
  BY <1>1, <1>2, Accepted
<1>4. PICK f \in Names : f = Copy(fd).name
  BY <1>3
<1>5. /\ Sound(fdt') /\ fdt'.max_fd = fdt.max_fd /\ fdt'.size = fdt.size - 1
      /\ InUse(fdt') = InUse(fdt) \ {fd}
      /\ \A i \in InUse(fdt') : fdt'.table[i] = fdt.table[i]
  BY <1>1, <1>2, <1>3, TableFacts, RemoveSound
<1>6. \A q \in Pids, g \in Names :
         fdt_pid_inode_size(fdt', g, q)
            = IF q = p /\ g = f THEN Descriptors(q, g) - 1 ELSE Descriptors(q, g)
  BY <1>1, <1>2, <1>3, <1>4, TableFacts, RemoveCounted DEF Descriptors, Copy, fdt_get
<1>7. TableSound' /\ TableInLimit'
  <2>1. fdt' = [size |-> fdt'.size, max_fd |-> fdt'.max_fd,
                free_index_map |-> fdt'.free_index_map, table |-> fdt'.table]
    BY <1>1 DEF remove_fd
  <2>2. fdt'.size <= MAX_OPEN_FILES /\ fdt'.max_fd \in 0..MAX_OPEN_FILES - 1
    BY <1>2, <1>5, TableFacts, SimFSAssumption DEF Tables, TableInLimit
  <2> QED BY <1>5, <2>1, <2>2 DEF TableSound, TableInLimit
<1>8. CopiesAreAccessible' /\ \A i \in InUse(fdt') : fdt'.table[i] \in Entries
  BY <1>2, <1>5 DEF IInv, Locks, CopiesAreAccessible, Copy, fdt_get, TypeOK
(* The reference of the closed descriptor is gone, if there was one. *)
<1>9. /\ files' \in [Names -> Inodes \cup {NULL}]
      /\ \A g \in Names \ {f} : files'[g] = files[g]
      /\ files'[f] # NULL <=> files[f] # NULL
      /\ files[f] # NULL =>
            /\ files'[f].ptr = files[f].ptr /\ files'[f].btime = files[f].btime
            /\ files'[f].pending = files[f].pending /\ files'[f].locked = files[f].locked
            /\ \A q \in Pids \ {p} : files'[f].refs[q] = files[f].refs[q]
            /\ \/ files[f].refs[p] > 0 /\ files'[f].refs[p] = files[f].refs[p] - 1
               \/ ~(files[f].refs[p] > 0) /\ files'[f].refs[p] = files[f].refs[p]
      /\ waiting' \in [Pids -> Waits \cup {NULL}]
      /\ \A q \in Pids :
            /\ waiting'[q] # NULL <=> waiting[q] # NULL
            /\ waiting[q] # NULL =>
                  /\ waiting'[q].name = waiting[q].name
                  /\ waiting[q].signalled => waiting'[q].signalled
                  /\ \/ waiting'[q].signalled
                     \/ waiting[q].name # f
                     \/ files' = files
                     \/ ~Signals(files'[f], p)
  <2>1. CASE Exists(f) /\ files[f].refs[p] > 0
    <3> DEFINE new == decrease_refs(files[f], p, 1, clock)
    <3>1. files' = [files EXCEPT ![f] = new]
      BY <1>4, <2>1 DEF Close
    <3>2. waiting' = IF Signals(new, p) THEN Signalled(waiting, f) ELSE waiting
      BY <1>4, <2>1 DEF Close
    <3>3. files[f] \in Inodes /\ 1 \in 0..files[f].refs[p] /\ files[f].refs \in [Pids -> Nat]
      BY <1>2, <2>1 DEF Exists, Inodes
    <3>4. /\ new \in Inodes
          /\ new.refs = [files[f].refs EXCEPT ![p] = files[f].refs[p] - 1]
          /\ new.locked = files[f].locked /\ new.pending = files[f].pending
          /\ new.ptr = files[f].ptr /\ new.btime = files[f].btime
      <4>1. PICK x \in Inodes : x = files[f]
        BY <3>3
      <4>2. PICK n \in 0..x.refs[p] : n = 1
        BY <3>3, <4>1
      <4> DEFINE y == decrease_refs(x, p, n, clock)
      <4>3. /\ y \in Inodes /\ y.refs = [x.refs EXCEPT ![p] = x.refs[p] - n]
            /\ y.locked = x.locked /\ y.pending = x.pending
            /\ y.ptr = x.ptr /\ y.btime = x.btime
        BY <1>2, InodeUnref
      <4>4. y = new
        BY <4>1, <4>2
      <4> HIDE DEF y, new
      <4> QED BY <4>1, <4>2, <4>3, <4>4
    <3> HIDE DEF new
    <3>5. new # NULL
      BY <3>4, NullAssumption
    <3>6. files' \in [Names -> Inodes \cup {NULL}] /\ files'[f] = new
          /\ \A g \in Names \ {f} : files'[g] = files[g]
      BY <1>2, <3>1, <3>4
    <3>7. \A q \in Pids \ {p} : files'[f].refs[q] = files[f].refs[q]
      BY <3>3, <3>4, <3>6
    <3>8. files'[f].refs[p] = files[f].refs[p] - 1
      BY <3>3, <3>4, <3>6
    <3>9. ASSUME NEW q \in Pids, waiting[q] # NULL
          PROVE  LET rec == [waiting[q] EXCEPT !.signalled = TRUE]
                 IN  rec \in Waits /\ rec # NULL /\ rec.name = waiting[q].name /\ rec.signalled
      <4> DEFINE rec == [waiting[q] EXCEPT !.signalled = TRUE]
      <4>1. waiting[q] \in Waits
        BY <1>2, <3>9
      <4>2. rec \in Waits /\ rec.name = waiting[q].name /\ rec.signalled
        BY <4>1 DEF Waits
      <4>3. rec # NULL
        BY <4>2, NullAssumption, Zenon
      <4> QED BY <4>2, <4>3
    <3>10. waiting' \in [Pids -> Waits \cup {NULL}]
      BY <1>2, <3>2, <3>9 DEF Signalled
    <3>11. ASSUME NEW q \in Pids
           PROVE  /\ waiting'[q] # NULL <=> waiting[q] # NULL
                  /\ waiting[q] # NULL =>
                        /\ waiting'[q].name = waiting[q].name
                        /\ waiting[q].signalled => waiting'[q].signalled
                        /\ \/ waiting'[q].signalled
                           \/ waiting[q].name # f
                           \/ ~Signals(new, p)
      <4>1. CASE Signals(new, p)
        <5>1. waiting'[q] = IF waiting[q] # NULL /\ waiting[q].name = f
                            THEN [waiting[q] EXCEPT !.signalled = TRUE] ELSE waiting[q]
          BY <3>2, <4>1 DEF Signalled
        <5> QED BY <3>9, <5>1
      <4>2. CASE ~Signals(new, p)
        BY <3>2, <4>2
      <4> QED BY <4>1, <4>2
    <3> QED BY <2>1, <3>4, <3>5, <3>6, <3>7, <3>8, <3>10, <3>11 DEF Exists
  <2>2. CASE ~(Exists(f) /\ files[f].refs[p] > 0)
    <3>1. files' = files /\ waiting' = waiting
      BY <1>4, <2>2 DEF Close
    <3> QED BY <1>2, <2>2, <3>1 DEF Exists
  <2> QED BY <2>1, <2>2
<1>10. Artifacts' /\ heap' \in [Addrs -> Seq(Bytes) \cup {NULL}]
  BY <1>1, <1>5, <1>9, ArtifactsShrink
<1>11. TypeOK'
  BY <1>1, <1>2, <1>8, <1>9, <1>10 DEF TypeOK
<1>12. ListMatchesTable' /\ FilesAreCounted' /\ Ages'
  <2>1. SameFiles
    BY <1>1, <1>2, <1>9 DEF SameFiles
  <2> QED BY <2>1, SameFilesKept
<1>13. RefsHaveDescriptors'
  <2> SUFFICES ASSUME NEW g \in Names, NEW q \in Pids, files'[g] # NULL
               PROVE  files'[g].refs[q] <= fdt_pid_inode_size(fdt', g, q)
    BY DEF RefsHaveDescriptors, Exists, Descriptors
  <2>1. /\ files[g] # NULL /\ files[g] \in Inodes
        /\ files[g].refs[q] \in Nat /\ Descriptors(q, g) \in Nat
        /\ files[g].refs[q] <= Descriptors(q, g)
    <3>1. files[g] # NULL /\ files[g] \in Inodes
      BY <1>2, <1>9
    <3> QED BY <1>2, <3>1, TableFacts DEF IInv, Locks, RefsHaveDescriptors, Exists, Inodes
  <2>2. CASE g = f /\ q = p
    <3>1. Descriptors(p, f) >= 1
      <4>1. fdt_pid_inode_size(fdt', f, p) \in Nat
        BY <1>2, <1>5, TableFacts, SlotsCounted
      <4>2. fdt_pid_inode_size(fdt', f, p) = Descriptors(p, f) - 1
        BY <1>6
      <4> QED BY <2>1, <2>2, <4>1, <4>2
    <3> QED BY <1>6, <1>9, <2>1, <2>2, <3>1
  <2>3. CASE ~(g = f /\ q = p)
    <3>1. files'[g].refs[q] = files[g].refs[q]
      BY <1>9, <2>1, <2>3
    <3> QED BY <1>6, <2>1, <2>3, <3>1
  <2> QED BY <2>2, <2>3
<1>14. PendingIsOneWaiter' /\ NoLostWakeup'
  <2>1. ASSUME NEW q \in Pids, waiting[q] # NULL
        PROVE  \/ waiting'[q].signalled
               \/ /\ ~waiting[q].signalled
                  /\ MustWait(files[waiting[q].name], q) => MustWait(files'[waiting[q].name], q)
    <3>1. /\ q # p /\ waiting[q].name \in Names /\ files[waiting[q].name] # NULL
      BY <1>1, <1>2, <2>1 DEF IInv, Locks, PendingIsOneWaiter, Exists, TypeOK, Waits
    <3>2. CASE waiting'[q].signalled \/ waiting[q].name # f \/ files' = files
      BY <1>9, <2>1, <3>1, <3>2
    <3>3. CASE waiting[q].name = f /\ ~Signals(files'[f], p)
      <4>1. files[f] \in Inodes /\ files'[f] \in Inodes
        BY <1>2, <1>9, <3>1, <3>3
      <4>2. ~MustWait(files[f], q)
        BY <1>9, <3>1, <3>3, <4>1, UnsignalledMayWait
      <4> QED BY <1>9, <2>1, <3>3, <4>2
    <3> QED BY <1>9, <2>1, <3>2, <3>3
  <2>2. SameWaiters
    BY <1>1, <1>9, <2>1 DEF SameWaiters
  <2> QED BY <2>2, SameWaitersKept
<1>15. LockStep
  <2>1. \A g \in Names, q \in Pids : files[g] # NULL => files[g].refs[q] \in Nat
    BY <1>2 DEF Inodes
  <2>2. \A g \in Names : Exists(g) /\ files'[g] # NULL =>
            /\ files'[g].locked \in {files[g].locked, NoPid}
            /\ \A q \in Pids : files'[g].refs[q] <= files[g].refs[q]
    BY <1>9, <2>1 DEF Exists
  <2>3. \A q \in Pids : waiting[q] # NULL => files'[waiting[q].name] # NULL
    <3>1. \A q \in Pids : waiting[q] # NULL => waiting[q].name \in Names
      BY <1>2 DEF Waits
    <3> QED BY <1>1, <1>9, <3>1 DEF IInv, Locks, PendingIsOneWaiter, Exists
  <2> QED BY <1>1, <2>2, <2>3, NothingTaken
<1> QED BY <1>7, <1>8, <1>10, <1>11, <1>12, <1>13, <1>14, <1>15 DEF IInv, Tables, Locks

(* What leaving a file does to its inode: n references of the pid go, and  *)
(* its lock if the visit is complete.                                      *)
Left(x, y, p, n) ==
    /\ y \in Inodes
    /\ y.ptr = x.ptr /\ y.btime = x.btime /\ y.pending = x.pending
    /\ y.locked = x.locked \/ (x.locked = p /\ y.locked = NoPid)
    /\ y.refs[p] = x.refs[p] - n
    /\ \A q \in Pids \ {p} : y.refs[q] = x.refs[q]

LEMMA LeftByDecrease ==
    ASSUME NEW x \in Inodes, NEW p \in Pids, NEW n \in 0..x.refs[p], clock \in Nat
    PROVE  /\ Left(x, decrease_refs(x, p, n, clock), p, n)
           /\ Left(x, LeaveFile(p, x, n), p, n)
<1> DEFINE y == decrease_refs(x, p, n, clock)
           z == file_unlock(y, clock)
<1>1. /\ y \in Inodes /\ y.refs = [x.refs EXCEPT ![p] = x.refs[p] - n]
      /\ y.locked = x.locked /\ y.pending = x.pending
      /\ y.ptr = x.ptr /\ y.btime = x.btime
  BY InodeUnref
<1>2. LeaveFile(p, x, n) = IF y.locked = p THEN z ELSE y
  BY DEF LeaveFile
<1> HIDE DEF y
<1>3. /\ z \in Inodes /\ z.locked = NoPid /\ z.refs = y.refs /\ z.pending = y.pending
      /\ z.ptr = y.ptr /\ z.btime = y.btime
  BY <1>1, InodeUnlock
<1> HIDE DEF z
<1>4. x.refs \in [Pids -> Nat]
  BY DEF Inodes
<1>5. y.refs[p] = x.refs[p] - n /\ \A q \in Pids \ {p} : y.refs[q] = x.refs[q]
  BY <1>1, <1>4
<1>6. Left(x, y, p, n)
  BY <1>1, <1>5 DEF Left
<1>7. y.locked = p => Left(x, z, p, n)
  BY <1>1, <1>3, <1>5 DEF Left
<1> QED BY <1>2, <1>6, <1>7 DEF y

LEMMA RemoveSessionInv ==
    ASSUME IInv, NEW p \in Pids, RemoveSession(p)
    PROVE  IInv' /\ LockStep
<1> DEFINE Before(f) == \E i \in 1..StopsAt(p) - 1 : i <= Len(presence) /\ presence[i] = f
           At(f)     == StopsAt(p) <= Len(presence) /\ presence[StopsAt(p)] = f
           held(f)   == IF Before(f) THEN Descriptors(p, f)
                        ELSE IF At(f) THEN files[f].refs[p] ELSE 0
<1>1. /\ undefined = "no" /\ undefined' = "no" /\ waiting[p] = NULL
      /\ heap' = Reachable(heap, files', fdt')
      /\ UNCHANGED <<presence, used, monitor, writing, clock>>
  BY DEF RemoveSession, Ready
<1>2. files' = [f \in Names |-> IF Before(f) THEN LeaveFile(p, files[f], held(f))
                                ELSE IF At(f) THEN decrease_refs(files[f], p, held(f), clock)
                                ELSE files[f]]
  BY DEF RemoveSession
<1>3. waiting' = [q \in Pids |->
                     IF /\ waiting[q] # NULL
                        /\ held(waiting[q].name) > 0
                        /\ Signals(files'[waiting[q].name], p)
                     THEN [waiting[q] EXCEPT !.signalled = TRUE] ELSE waiting[q]]
  BY DEF RemoveSession
<1>4. fdt' = IF StopsAt(p) > Len(presence) THEN fdt_remove_pid(fdt, p) ELSE fdt
  BY DEF RemoveSession
<1>5. /\ Tables /\ TypeOK /\ clock \in Nat /\ presence \in Seq(Names)
      /\ files \in [Names -> Inodes \cup {NULL}] /\ waiting \in [Pids -> Waits \cup {NULL}]
  BY SimFSAssumption DEF IInv, Tables, TypeOK
<1>6. \A i \in DOMAIN presence : presence[i] \in Names /\ files[presence[i]] \in Inodes
  BY <1>5 DEF Tables, ListMatchesTable, ToSet, Exists
(* Where the loop stops. *)
<1>7. /\ StopsAt(p) \in 1..Len(presence) + 1
      /\ \A i \in 1..StopsAt(p) - 1 : i <= Len(presence) => ~Short(p, i)
  <2> DEFINE S == {i \in DOMAIN presence : Short(p, i)} \cup {Len(presence) + 1}
  <2>1. S \in SUBSET Nat /\ S # {} /\ S \subseteq 1..Len(presence) + 1
    BY <1>5
  <2>2. Min(S) \in S /\ \A i \in S : Min(S) <= i
    BY <2>1, MinIsLeast
  <2>3. StopsAt(p) = Min(S)
    BY DEF StopsAt
  <2> HIDE DEF S
  <2>4. StopsAt(p) \in 1..Len(presence) + 1
    BY <2>1, <2>2, <2>3
  <2>5. ASSUME NEW i \in 1..StopsAt(p) - 1, i <= Len(presence), Short(p, i) PROVE FALSE
    <3>1. i \in S
      BY <1>5, <2>5, <2>4 DEF S
    <3> QED BY <2>2, <2>3, <2>4, <3>1
  <2> QED BY <2>4, <2>5
(* A file that is visited loses the references of the pid. *)
<1>8. ASSUME NEW f \in Names, Before(f) \/ At(f)
      PROVE  files[f] \in Inodes /\ held(f) = files[f].refs[p] /\ held(f) \in Nat
  <2>1. PICK i \in DOMAIN presence : presence[i] = f
    BY <1>5, <1>7, <1>8
  <2>2. files[f] \in Inodes /\ files[f].refs[p] \in Nat /\ Exists(f)
    BY <1>6, <2>1, NullAssumption DEF Inodes, Exists
  <2>3. CASE Before(f)
    <3>1. PICK j \in 1..StopsAt(p) - 1 : j <= Len(presence) /\ presence[j] = f
      BY <2>3
    <3>2. ~(files[f].refs[p] < Descriptors(p, f))
      BY <1>7, <3>1 DEF Short
    <3>3. files[f].refs[p] <= Descriptors(p, f) /\ Descriptors(p, f) \in Nat
      BY <1>5, <2>2, TableFacts DEF IInv, Locks, RefsHaveDescriptors
    <3> QED BY <2>2, <2>3, <3>2, <3>3
  <2>4. CASE ~Before(f)
    BY <1>8, <2>2, <2>4
  <2> QED BY <2>3, <2>4
<1>9. ASSUME NEW f \in Names, Before(f) \/ At(f)
      PROVE  /\ files[f] \in Inodes /\ files'[f] \in Inodes
             /\ files'[f].refs[p] = 0
             /\ Left(files[f], files'[f], p, held(f))
  <2>1. PICK x \in Inodes : x = files[f] /\ held(f) = x.refs[p] /\ held(f) \in Nat
    BY <1>8, <1>9
  <2>2. PICK n \in 0..x.refs[p] : n = held(f) /\ n = x.refs[p]
    BY <2>1
  <2>3. Left(x, decrease_refs(x, p, n, clock), p, n) /\ Left(x, LeaveFile(p, x, n), p, n)
    BY <1>5, LeftByDecrease
  <2>4. files'[f] \in {decrease_refs(x, p, n, clock), LeaveFile(p, x, n)}
    <3> HIDE DEF Before, At, held
    <3> QED BY <1>2, <1>9, <2>1, <2>2
  <2>5. Left(x, files'[f], p, n)
    BY <2>3, <2>4
  <2>6. files'[f] \in Inodes /\ files'[f].refs[p] = x.refs[p] - n
    BY <2>5 DEF Left
  <2> QED BY <2>1, <2>2, <2>5, <2>6
<1>10. ASSUME NEW f \in Names, ~(Before(f) \/ At(f))
       PROVE  files'[f] = files[f] /\ held(f) = 0
  BY <1>2, <1>10
<1> HIDE DEF Before, At, held
<1>11. /\ files' \in [Names -> Inodes \cup {NULL}]
       /\ \A f \in Names : files'[f] # NULL <=> files[f] # NULL
  <2>1. \A f \in Names : files'[f] \in Inodes \cup {NULL} /\ (files'[f] # NULL <=> files[f] # NULL)
    BY <1>5, <1>9, <1>10, NullAssumption
  <2>2. DOMAIN files' = Names /\ files' = [f \in Names |-> files'[f]]
    BY <1>2
  <2> QED BY <2>1, <2>2
<1>12. ASSUME NEW f \in Names, files[f] # NULL
       PROVE  /\ files'[f].ptr = files[f].ptr /\ files'[f].btime = files[f].btime
              /\ files'[f].pending = files[f].pending
              /\ files'[f].locked = files[f].locked \/ files[f].locked = p
              /\ \A q \in Pids \ {p} : files'[f].refs[q] = files[f].refs[q]
              /\ files'[f].refs[p] = files[f].refs[p] \/ files'[f].refs[p] = 0
              /\ held(f) = 0 => files'[f].refs[p] = files[f].refs[p]
  <2>1. CASE Before(f) \/ At(f)
    <3>1. Left(files[f], files'[f], p, held(f)) /\ files'[f].refs[p] = 0
      BY <1>9, <2>1
    <3>2. files[f].refs[p] = held(f)
      BY <1>8, <2>1
    <3> QED BY <3>1, <3>2 DEF Left
  <2>2. CASE ~(Before(f) \/ At(f))
    BY <1>10, <2>2
  <2> QED BY <2>1, <2>2
<1>13. /\ Sound(fdt') /\ TableInLimit' /\ InUse(fdt') \subseteq InUse(fdt)
       /\ \A i \in InUse(fdt') : fdt'.table[i] = fdt.table[i]
       /\ \A q \in Pids \ {p}, g \in Names : fdt_pid_inode_size(fdt', g, q) = Descriptors(q, g)
       /\ fdt'.max_fd = fdt.max_fd
  <2>1. CASE StopsAt(p) > Len(presence)
    <3>1. fdt' = fdt_remove_pid(fdt, p)
      BY <1>4, <2>1
    <3>2. /\ Sound(fdt') /\ fdt'.max_fd = fdt.max_fd /\ fdt'.size <= fdt.size
          /\ InUse(fdt') = {fd \in InUse(fdt) : fdt.table[fd].owner # p}
          /\ \A i \in InUse(fdt') : fdt'.table[i] = fdt.table[i]
      BY <1>5, <3>1, TableFacts, RemovePidSound
    <3>3. fdt' = [size |-> fdt'.size, max_fd |-> fdt'.max_fd,
                  free_index_map |-> fdt'.free_index_map, table |-> fdt'.table]
      BY <3>1 DEF fdt_remove_pid
    <3>4. fdt'.size <= MAX_OPEN_FILES /\ fdt'.max_fd \in 0..MAX_OPEN_FILES - 1
      <4>1. fdt'.size \in Int
        BY <1>5, <3>2, TableFacts, SoundFinite
      <4> QED BY <1>5, <3>2, <4>1, TableFacts, SimFSAssumption DEF Tables, TableInLimit
    <3>5. TableInLimit'
      BY <3>3, <3>4 DEF TableInLimit
    <3>6. \A q \in Pids \ {p}, g \in Names : fdt_pid_inode_size(fdt', g, q) = Descriptors(q, g)
      BY <1>5, <3>1, TableFacts, RemovePidCounted DEF Descriptors
    <3> QED BY <3>2, <3>5, <3>6
  <2>2. CASE ~(StopsAt(p) > Len(presence))
    BY <1>4, <1>5, <2>2 DEF Tables, TableSound, TableInLimit, Descriptors
  <2> QED BY <2>1, <2>2
<1>14. CopiesAreAccessible' /\ \A i \in InUse(fdt') : fdt'.table[i] \in Entries
  BY <1>5, <1>13 DEF IInv, Locks, CopiesAreAccessible, Copy, fdt_get, TypeOK
<1>15. RefsHaveDescriptors'
  <2> SUFFICES ASSUME NEW g \in Names, NEW q \in Pids, files'[g] # NULL
               PROVE  files'[g].refs[q] <= fdt_pid_inode_size(fdt', g, q)
    BY DEF RefsHaveDescriptors, Exists, Descriptors
  <2>1. files[g] # NULL /\ files[g] \in Inodes
    BY <1>5, <1>11
  <2>2. /\ files[g].refs[q] \in Nat /\ Descriptors(q, g) \in Nat
        /\ files[g].refs[q] <= Descriptors(q, g)
    BY <1>5, <2>1, TableFacts DEF IInv, Locks, RefsHaveDescriptors, Exists, Inodes
  <2>3. fdt_pid_inode_size(fdt', g, q) \in Nat
    BY <1>5, <1>13, TableFacts, SlotsCounted
  <2>4. CASE q # p
    BY <1>12, <1>13, <2>1, <2>2, <2>4
  <2>5. CASE q = p /\ StopsAt(p) > Len(presence)
    <3>1. PICK i \in DOMAIN presence : presence[i] = g
      BY <1>5, <2>1 DEF Tables, ListMatchesTable, ToSet, Exists
    <3>2. Before(g)
      BY <1>5, <1>7, <2>5, <3>1 DEF Before
    <3> QED BY <1>9, <2>3, <2>5, <3>2
  <2>6. CASE q = p /\ ~(StopsAt(p) > Len(presence))
    <3>1. fdt_pid_inode_size(fdt', g, q) = Descriptors(q, g)
      BY <1>4, <2>6 DEF Descriptors
    <3> QED BY <1>12, <2>1, <2>2, <2>6, <3>1
  <2> QED BY <2>4, <2>5, <2>6
<1>16. Artifacts' /\ heap' \in [Addrs -> Seq(Bytes) \cup {NULL}]
  BY <1>1, <1>11, <1>12, <1>13, ArtifactsShrink
<1>17. ASSUME NEW q \in Pids
       PROVE  /\ waiting'[q] \in Waits \cup {NULL}
              /\ waiting'[q] # NULL <=> waiting[q] # NULL
              /\ waiting[q] # NULL =>
                    /\ waiting'[q].name = waiting[q].name
                    /\ waiting[q].signalled => waiting'[q].signalled
                    /\ \/ waiting'[q].signalled
                       \/ ~(held(waiting[q].name) > 0)
                       \/ ~Signals(files'[waiting[q].name], p)
  <2> DEFINE rec == [waiting[q] EXCEPT !.signalled = TRUE]
  <2>1. CASE waiting[q] = NULL
    BY <1>3, <2>1
  <2>2. CASE waiting[q] # NULL
    <3>1. waiting[q] \in Waits
      BY <1>5, <2>2
    <3>2. rec \in Waits /\ rec.name = waiting[q].name /\ rec.signalled
      BY <3>1 DEF Waits
    <3>3. rec # NULL
      BY <3>2, NullAssumption, Zenon
    <3> HIDE DEF rec
    <3>4. waiting'[q] = IF held(waiting[q].name) > 0 /\ Signals(files'[waiting[q].name], p)
                        THEN rec ELSE waiting[q]
      BY <1>3, <2>2 DEF rec
    <3> QED BY <2>2, <3>1, <3>2, <3>3, <3>4
  <2> QED BY <2>1, <2>2
<1>18. TypeOK'
  <2>1. waiting' \in [Pids -> Waits \cup {NULL}]
    <3>1. waiting' = [q \in Pids |-> waiting'[q]]
      BY <1>3
    <3> QED BY <1>17, <3>1
  <2> QED BY <1>1, <1>5, <1>11, <1>14, <1>16, <2>1 DEF TypeOK
<1>19. ListMatchesTable' /\ FilesAreCounted' /\ Ages'
  <2>1. SameFiles
    BY <1>1, <1>5, <1>11, <1>12 DEF SameFiles
  <2> QED BY <2>1, SameFilesKept
<1>20. PendingIsOneWaiter' /\ NoLostWakeup'
  <2>1. ASSUME NEW q \in Pids, waiting[q] # NULL
        PROVE  \/ waiting'[q].signalled
               \/ /\ ~waiting[q].signalled
                  /\ MustWait(files[waiting[q].name], q) => MustWait(files'[waiting[q].name], q)
    <3>1. PICK f \in Names : f = waiting[q].name /\ files[f] # NULL /\ q # p
      BY <1>1, <1>5, <2>1 DEF IInv, Locks, PendingIsOneWaiter, Exists, TypeOK, Waits
    <3>2. files[f] \in Inodes /\ files'[f] \in Inodes
      BY <1>5, <1>11, <3>1
    <3>3. CASE held(f) > 0 /\ ~Signals(files'[f], p)
      <4>1. ~MustWait(files[f], q)
        BY <1>12, <3>1, <3>2, <3>3, UnsignalledMayWait
      <4> QED BY <1>17, <2>1, <3>1, <4>1
    <3>4. CASE ~(held(f) > 0)
      <4>1. held(f) = 0
        BY <1>8, <1>10, <3>1, <3>4
      <4>2. \A r \in Pids : files'[f].refs[r] = files[f].refs[r]
        BY <1>12, <3>1, <4>1
      <4>3. MustWait(files[f], q) => MustWait(files'[f], q)
        BY <4>2 DEF MustWait, has_refs, has_other_pid_refs, HeldByOthers
      <4> QED BY <1>17, <2>1, <3>1, <4>3
    <3> QED BY <1>17, <2>1, <3>1, <3>3, <3>4
  <2>2. ASSUME NEW f \in Names, files[f] # NULL, files[f].pending > 0
        PROVE  files'[f].locked = files[f].locked
    <3>1. files[f].locked = NoPid
      <4>1. Exists(f) /\ undefined = "no"
        BY <1>1, <2>2 DEF Exists
      <4> QED BY <2>2, <4>1, PendingCases
    <3> QED BY <1>12, <2>2, <3>1, NoPidAssumption
  <2>3. SameWaiters
    BY <1>1, <1>11, <1>12, <1>17, <2>1, <2>2 DEF SameWaiters
  <2> QED BY <2>3, SameWaitersKept
<1>21. LockStep
  <2>1. \A g \in Names, q \in Pids : files[g] # NULL => files[g].refs[q] \in Nat
    BY <1>5 DEF Inodes
  <2>2. ASSUME NEW g \in Names, files[g] # NULL
        PROVE  /\ files'[g].locked \in {files[g].locked, NoPid}
               /\ \A q \in Pids : files'[g].refs[q] <= files[g].refs[q]
    <3>1. files'[g].locked \in {files[g].locked, NoPid}
      <4>1. CASE Before(g) \/ At(g)
        BY <1>9, <4>1 DEF Left
      <4>2. CASE ~(Before(g) \/ At(g))
        BY <1>10, <4>2
      <4> QED BY <4>1, <4>2
    <3> QED BY <1>12, <2>1, <2>2, <3>1
  <2>3. \A q \in Pids : waiting[q] # NULL => files'[waiting[q].name] # NULL
    <3>1. \A q \in Pids : waiting[q] # NULL => waiting[q].name \in Names
      BY <1>5 DEF Waits
    <3> QED BY <1>1, <1>11, <3>1 DEF IInv, Locks, PendingIsOneWaiter, Exists
  <2>4. \A g \in Names : Exists(g) /\ files'[g] # NULL =>
            /\ files'[g].locked \in {files[g].locked, NoPid}
            /\ \A q \in Pids : files'[g].refs[q] <= files[g].refs[q]
    BY <2>2 DEF Exists
  <2> QED BY <1>1, <2>3, <2>4, NothingTaken
<1> QED BY <1>13, <1>14, <1>15, <1>16, <1>18, <1>19, <1>20, <1>21
    DEF IInv, Tables, Locks, TableSound
-----------------------------------------------------------------------------
(* Steps that move contents.  A table with entries of the right type, and  *)
(* one that differs from it in sizes, pointers and buffers only.           *)

IsTable(t) ==
    /\ t = [size |-> t.size, max_fd |-> t.max_fd,
            free_index_map |-> t.free_index_map, table |-> t.table]
    /\ t.max_fd \in Nat /\ Sound(t)
    /\ \A fd \in InUse(t) : t.table[fd] \in Entries

LikeTable(t, u) ==
    /\ IsTable(u) /\ InUse(u) = InUse(t)
    /\ u.size = t.size /\ u.max_fd = t.max_fd
    /\ \A fd \in InUse(t) :
          /\ u.table[fd].owner = t.table[fd].owner
          /\ u.table[fd].inode.name = t.table[fd].inode.name
          /\ u.table[fd].inode.locked = t.table[fd].inode.locked

LEMMA LikeTableTransitive ==
    ASSUME NEW t, NEW u, NEW v, LikeTable(t, u), LikeTable(u, v)
    PROVE  LikeTable(t, v)
BY DEF LikeTable

LEMMA LikeTableCounted ==
    ASSUME NEW t, NEW u, IsTable(t), LikeTable(t, u), NEW p, NEW f
    PROVE  fdt_pid_inode_size(u, f, p) = fdt_pid_inode_size(t, f, p)
<1>1. Slots(u, p, f) = Slots(t, p, f)
  BY DEF LikeTable, Slots
<1> QED BY <1>1, SlotsCounted DEF LikeTable, IsTable

(* Another copy behind one descriptor. *)
LEMMA SetCopy ==
    ASSUME NEW t, IsTable(t), NEW fd \in InUse(t), NEW c \in Copies,
           c.name = t.table[fd].inode.name, c.locked = t.table[fd].inode.locked
    PROVE  LET u == [t EXCEPT !.table[fd].inode = c]
           IN  /\ LikeTable(t, u) /\ u.table[fd].inode = c
               /\ \A i \in InUse(t) \ {fd} : u.table[i] = t.table[i]
<1> DEFINE e == [t.table[fd] EXCEPT !.inode = c]
           tab == [t.table EXCEPT ![fd] = e]
           u == [t EXCEPT !.table[fd].inode = c]
<1>1. t.table[fd] \in Entries /\ fd \in DOMAIN t.table
  BY DEF IsTable, InUse
<1>2. e \in Entries /\ e.inode = c /\ e.owner = t.table[fd].owner
  BY <1>1 DEF Entries
<1>3. e # NULL
  BY <1>2, NullAssumption, Zenon
<1>4. u = [t EXCEPT !.table = tab]
  OBVIOUS
<1> HIDE DEF e
<1>5. /\ DOMAIN tab = DOMAIN t.table /\ tab[fd] = e
      /\ \A i \in DOMAIN t.table \ {fd} : tab[i] = t.table[i]
  BY <1>1
<1> HIDE DEF tab
<1>6. /\ u.size = t.size /\ u.max_fd = t.max_fd /\ u.free_index_map = t.free_index_map
      /\ u.table = tab
      /\ u = [size |-> u.size, max_fd |-> u.max_fd,
              free_index_map |-> u.free_index_map, table |-> u.table]
  BY <1>4 DEF IsTable
<1> HIDE DEF u
<1>7. \A i \in DOMAIN t.table : u.table[i] = NULL <=> t.table[i] = NULL
  BY <1>3, <1>5, <1>6 DEF InUse
<1>8. Sound(u) /\ InUse(u) = InUse(t)
  BY <1>5, <1>6, <1>7, SameSlotsSound DEF IsTable
<1>9. \A i \in InUse(t) \ {fd} : u.table[i] = t.table[i]
  BY <1>5, <1>6 DEF InUse
<1>10. IsTable(u)
  BY <1>2, <1>5, <1>6, <1>8, <1>9 DEF IsTable
<1>11. LikeTable(t, u)
  BY <1>2, <1>5, <1>6, <1>8, <1>9, <1>10 DEF LikeTable
<1> QED BY <1>2, <1>5, <1>6, <1>9, <1>11 DEF u

(* The copies that point to an artifact that is freed. *)
LEMMA DanglingFacts ==
    ASSUME NEW t, IsTable(t), NEW ptr
    PROVE  LET u == Dangling(t, ptr)
           IN  /\ LikeTable(t, u)
               /\ \A i \in InUse(t) :
                     u.table[i].inode.ptr = IF ptr # NULL /\ t.table[i].inode.ptr = ptr
                                            THEN FREED ELSE t.table[i].inode.ptr
<1> DEFINE Points(fd) == t.table[fd] # NULL /\ ptr # NULL /\ t.table[fd].inode.ptr = ptr
           new(fd) == [t.table[fd] EXCEPT !.inode.ptr = FREED]
           tab == [fd \in DOMAIN t.table |-> IF Points(fd) THEN new(fd) ELSE t.table[fd]]
           u == Dangling(t, ptr)
<1>1. u = [t EXCEPT !.table = tab]
  BY DEF Dangling
<1>2. ASSUME NEW fd \in InUse(t)
      PROVE  /\ new(fd) \in Entries /\ new(fd) # NULL
             /\ new(fd).owner = t.table[fd].owner
             /\ new(fd).inode.name = t.table[fd].inode.name
             /\ new(fd).inode.locked = t.table[fd].inode.locked
             /\ new(fd).inode.ptr = FREED
  <2> DEFINE c == [t.table[fd].inode EXCEPT !.ptr = FREED]
  <2>1. t.table[fd] \in Entries /\ t.table[fd].inode \in Copies
    BY DEF IsTable, Entries
  <2>2. /\ c \in Copies /\ c.name = t.table[fd].inode.name
        /\ c.locked = t.table[fd].inode.locked /\ c.ptr = FREED
    BY <2>1 DEF Copies
  <2>3. new(fd) = [t.table[fd] EXCEPT !.inode = c]
    OBVIOUS
  <2> HIDE DEF c
  <2>4. /\ new(fd) \in Entries /\ new(fd).owner = t.table[fd].owner /\ new(fd).inode = c
    BY <2>1, <2>2, <2>3 DEF Entries
  <2>5. new(fd) # NULL
    BY <2>4, NullAssumption, Zenon
  <2> QED BY <2>2, <2>4, <2>5
<1>3. /\ u.size = t.size /\ u.max_fd = t.max_fd /\ u.free_index_map = t.free_index_map
      /\ u.table = tab
      /\ u = [size |-> u.size, max_fd |-> u.max_fd,
              free_index_map |-> u.free_index_map, table |-> u.table]
  BY <1>1 DEF IsTable
<1>4. /\ DOMAIN tab = DOMAIN t.table
      /\ \A i \in DOMAIN t.table : tab[i] = IF Points(i) THEN new(i) ELSE t.table[i]
  OBVIOUS
<1> HIDE DEF u, tab, new
<1>5. \A i \in DOMAIN t.table : u.table[i] = NULL <=> t.table[i] = NULL
  BY <1>2, <1>3, <1>4 DEF InUse
<1>6. Sound(u) /\ InUse(u) = InUse(t)
  BY <1>3, <1>4, <1>5, SameSlotsSound DEF IsTable
<1>7. ASSUME NEW i \in InUse(t)
      PROVE  /\ u.table[i] \in Entries
             /\ u.table[i].owner = t.table[i].owner
             /\ u.table[i].inode.name = t.table[i].inode.name
             /\ u.table[i].inode.locked = t.table[i].inode.locked
             /\ u.table[i].inode.ptr = IF ptr # NULL /\ t.table[i].inode.ptr = ptr
                                       THEN FREED ELSE t.table[i].inode.ptr
  <2>1. i \in DOMAIN t.table /\ t.table[i] # NULL /\ t.table[i] \in Entries
    BY DEF InUse, IsTable
  <2>2. u.table[i] = IF Points(i) THEN new(i) ELSE t.table[i]
    BY <1>3, <1>4, <2>1
  <2> QED BY <1>2, <2>1, <2>2
<1>8. IsTable(u)
  BY <1>3, <1>6, <1>7 DEF IsTable
<1>9. LikeTable(t, u)
  BY <1>3, <1>6, <1>7, <1>8 DEF LikeTable
<1> QED BY <1>7, <1>9 DEF u

(* The two parts of Artifacts, of any heap, files and table. *)
PointersLive(h, fs, t) ==
    /\ \A f \in Names :
          fs[f] # NULL /\ fs[f].ptr # NULL =>
              /\ h[fs[f].ptr] # NULL
              /\ \A g \in Names \ {f} : fs[g] # NULL => fs[g].ptr # fs[f].ptr
    /\ \A fd \in InUse(t) :
          t.table[fd].inode.ptr \in Addrs =>
              /\ h[t.table[fd].inode.ptr] # NULL
              /\ \A g \in Names : fs[g] # NULL /\ fs[g].ptr = t.table[fd].inode.ptr
                                      => g = t.table[fd].inode.name

LEMMA ReachableLive ==
    ASSUME NEW h \in [Addrs -> Seq(Bytes) \cup {NULL}],
           NEW fs \in [Names -> Inodes \cup {NULL}], NEW t, PointersLive(h, fs, t)
    PROVE  /\ Reachable(h, fs, t) \in [Addrs -> Seq(Bytes) \cup {NULL}]
           /\ PointersLive(Reachable(h, fs, t), fs, t)
<1> DEFINE k == Reachable(h, fs, t)
<1>1. /\ k \in [Addrs -> Seq(Bytes) \cup {NULL}]
      /\ \A f \in Names : fs[f] # NULL /\ fs[f].ptr \in Addrs => k[fs[f].ptr] = h[fs[f].ptr]
      /\ \A fd \in InUse(t) : t.table[fd].inode.ptr \in Addrs
            => k[t.table[fd].inode.ptr] = h[t.table[fd].inode.ptr]
  BY ReachableFacts
<1>2. \A f \in Names : fs[f] # NULL /\ fs[f].ptr # NULL => fs[f].ptr \in Addrs
  BY DEF Inodes
<1> HIDE DEF k
<1>3. PointersLive(k, fs, t)
  BY <1>1, <1>2 DEF PointersLive
<1> QED BY <1>1, <1>3 DEF k

(* An artifact is freed that none of the pointers left behind points to. *)
LEMMA FreedLive ==
    ASSUME NEW h \in [Addrs -> Seq(Bytes) \cup {NULL}],
           NEW fs, NEW gs \in [Names -> Inodes \cup {NULL}],
           NEW t, NEW u, NEW b \in Addrs \cup {NULL},
           PointersLive(h, fs, t), LikeTable(t, u),
           \A g \in Names : gs[g] # NULL /\ gs[g].ptr # NULL =>
               fs[g] # NULL /\ gs[g].ptr = fs[g].ptr /\ gs[g].ptr # b,
           \A i \in InUse(t) : u.table[i].inode.ptr \in Addrs =>
               u.table[i].inode.ptr = t.table[i].inode.ptr /\ u.table[i].inode.ptr # b
    PROVE  /\ Freed(h, b) \in [Addrs -> Seq(Bytes) \cup {NULL}]
           /\ PointersLive(Freed(h, b), gs, u)
<1> DEFINE k == Freed(h, b)
<1>1. k \in [Addrs -> Seq(Bytes) \cup {NULL}] /\ \A a \in Addrs : a # b => k[a] = h[a]
  BY DEF Freed
<1> HIDE DEF k
<1>2. \A f \in Names : gs[f] # NULL /\ gs[f].ptr # NULL => gs[f].ptr \in Addrs
  BY DEF Inodes
<1>3. NULL \notin Addrs
  BY SimFSAssumption
<1>4. ASSUME NEW f \in Names, gs[f] # NULL, gs[f].ptr # NULL
      PROVE  /\ k[gs[f].ptr] # NULL
             /\ \A g \in Names \ {f} : gs[g] # NULL => gs[g].ptr # gs[f].ptr
  BY <1>1, <1>2, <1>4 DEF PointersLive
<1>5. ASSUME NEW i \in InUse(u), u.table[i].inode.ptr \in Addrs
      PROVE  /\ k[u.table[i].inode.ptr] # NULL
             /\ \A g \in Names : gs[g] # NULL /\ gs[g].ptr = u.table[i].inode.ptr
                                     => g = u.table[i].inode.name
  <2>1. /\ i \in InUse(t) /\ u.table[i].inode.ptr = t.table[i].inode.ptr
        /\ u.table[i].inode.ptr # b /\ u.table[i].inode.name = t.table[i].inode.name
    BY <1>5 DEF LikeTable
  <2> QED BY <1>1, <1>3, <1>5, <2>1 DEF PointersLive
<1>6. PointersLive(k, gs, u)
  BY <1>4, <1>5 DEF PointersLive
<1> QED BY <1>1, <1>6 DEF k

(* Artifact b, which no file but f has, is replaced by a new one at a,     *)
(* which f and perhaps copies of f get.                                    *)
Replaces(fs, gs, t, u, f, b, a) ==
    /\ LikeTable(t, u)
    /\ fs[f] # NULL /\ gs[f] # NULL /\ gs[f].ptr = a
    /\ \A g \in Names \ {f} : gs[g] = fs[g]
    /\ b # NULL => \A g \in Names \ {f} : fs[g] # NULL => fs[g].ptr # b
    /\ \A i \in InUse(t) : u.table[i].inode.ptr \in Addrs =>
          \/ u.table[i].inode.ptr = t.table[i].inode.ptr /\ u.table[i].inode.ptr # b
          \/ u.table[i].inode.ptr = a /\ u.table[i].inode.name = f

LEMMA ReplacedLive ==
    ASSUME NEW h \in [Addrs -> Seq(Bytes) \cup {NULL}],
           NEW fs, NEW gs \in [Names -> Inodes \cup {NULL}],
           NEW t, NEW u, NEW b \in Addrs \cup {NULL}, NEW f \in Names,
           NEW a \in Addrs \ Referenced(fs, t), NEW bytes \in Seq(Bytes),
           PointersLive(h, fs, t), Replaces(fs, gs, t, u, f, b, a)
    PROVE  /\ [Freed(h, b) EXCEPT ![a] = bytes] \in [Addrs -> Seq(Bytes) \cup {NULL}]
           /\ PointersLive([Freed(h, b) EXCEPT ![a] = bytes], gs, u)
<1>0. /\ LikeTable(t, u)
      /\ fs[f] # NULL /\ gs[f] # NULL /\ gs[f].ptr = a
      /\ \A g \in Names \ {f} : gs[g] = fs[g]
      /\ b # NULL => \A g \in Names \ {f} : fs[g] # NULL => fs[g].ptr # b
      /\ \A i \in InUse(t) : u.table[i].inode.ptr \in Addrs =>
            \/ u.table[i].inode.ptr = t.table[i].inode.ptr /\ u.table[i].inode.ptr # b
            \/ u.table[i].inode.ptr = a /\ u.table[i].inode.name = f
  BY DEF Replaces
<1> USE <1>0
<1> DEFINE k == [Freed(h, b) EXCEPT ![a] = bytes]
<1>1. bytes # NULL /\ NULL \notin Addrs
  BY NullAssumption, SimFSAssumption
<1>2. /\ k \in [Addrs -> Seq(Bytes) \cup {NULL}] /\ k[a] # NULL
      /\ \A c \in Addrs \ {a} : c # b => k[c] = h[c]
  BY <1>1 DEF Freed
<1> HIDE DEF k
<1>3. /\ \A g \in Names : fs[g] # NULL => fs[g].ptr # a
      /\ \A i \in InUse(t) : t.table[i].inode.ptr # a
  BY DEF Referenced
<1>4. \A g \in Names : gs[g] # NULL /\ gs[g].ptr # NULL => gs[g].ptr \in Addrs
  BY DEF Inodes
<1>5. ASSUME NEW g \in Names, gs[g] # NULL, gs[g].ptr # NULL
      PROVE  /\ k[gs[g].ptr] # NULL
             /\ \A e \in Names \ {g} : gs[e] # NULL => gs[e].ptr # gs[g].ptr
  <2>1. CASE g = f
    BY <1>2, <1>3, <2>1
  <2>2. CASE g # f
    <3>1. gs[g] = fs[g] /\ fs[g].ptr # a /\ gs[g].ptr \in Addrs /\ gs[g].ptr # b
      BY <1>3, <1>4, <1>5, <2>2
    <3>2. /\ h[fs[g].ptr] # NULL
          /\ \A e \in Names \ {g} : fs[e] # NULL => fs[e].ptr # fs[g].ptr
      BY <1>5, <3>1 DEF PointersLive
    <3>3. k[gs[g].ptr] # NULL
      BY <1>2, <3>1, <3>2
    <3>4. ASSUME NEW e \in Names \ {g}, gs[e] # NULL PROVE gs[e].ptr # gs[g].ptr
      BY <3>1, <3>2, <3>4
    <3> QED BY <3>3, <3>4
  <2> QED BY <2>1, <2>2
<1>6. ASSUME NEW i \in InUse(u), u.table[i].inode.ptr \in Addrs
      PROVE  /\ k[u.table[i].inode.ptr] # NULL
             /\ \A g \in Names : gs[g] # NULL /\ gs[g].ptr = u.table[i].inode.ptr
                                     => g = u.table[i].inode.name
  <2>1. i \in InUse(t) /\ u.table[i].inode.name = t.table[i].inode.name
    BY <1>6 DEF LikeTable
  <2>2. CASE u.table[i].inode.ptr = a /\ u.table[i].inode.name = f
    BY <1>2, <1>3, <2>2
  <2>3. CASE u.table[i].inode.ptr = t.table[i].inode.ptr /\ u.table[i].inode.ptr # b
    <3>1. u.table[i].inode.ptr # a
      BY <1>3, <2>1, <2>3
    <3>2. h[t.table[i].inode.ptr] # NULL
      BY <1>6, <2>1, <2>3 DEF PointersLive
    <3>3. k[u.table[i].inode.ptr] # NULL
      BY <1>2, <1>6, <2>3, <3>1, <3>2
    <3>4. ASSUME NEW g \in Names, gs[g] # NULL, gs[g].ptr = u.table[i].inode.ptr
          PROVE  g = u.table[i].inode.name
      <4>1. g # f /\ gs[g] = fs[g]
        BY <3>1, <3>4
      <4> QED BY <1>6, <2>1, <2>3, <3>4, <4>1 DEF PointersLive
    <3> QED BY <3>3, <3>4
  <2> QED BY <1>6, <2>1, <2>2, <2>3
<1>7. PointersLive(k, gs, u)
  BY <1>5, <1>6 DEF PointersLive
<1> QED BY <1>2, <1>7 DEF k

(* The files keep their references, locks and creation times. *)
LikeFiles(fs, gs) ==
    /\ gs \in [Names -> Inodes \cup {NULL}]
    /\ \A f \in Names :
          /\ gs[f] # NULL <=> fs[f] # NULL
          /\ fs[f] # NULL =>
                /\ gs[f].refs = fs[f].refs /\ gs[f].locked = fs[f].locked
                /\ gs[f].pending = fs[f].pending /\ gs[f].btime = fs[f].btime

(* A step that changes contents only. *)
DataStep ==
    /\ LikeFiles(files, files') /\ LikeTable(fdt, fdt')
    /\ heap' \in [Addrs -> Seq(Bytes) \cup {NULL}]
    /\ PointersLive(heap', files', fdt')
    /\ used' \in Int /\ monitor' \in [file_counter : Nat, bytes_counter : Int]
    /\ monitor'.file_counter = monitor.file_counter
    /\ undefined' \in {undefined, "artifact"}

LEMMA TableIs ==
    ASSUME IInv
    PROVE  IsTable(fdt) /\ PointersLive(heap, files, fdt)
<1>1. IsTable(fdt)
  BY TableFacts DEF IInv, Tables, TypeOK, TableInLimit, IsTable
<1>2. PointersLive(heap, files, fdt)
  BY DEF IInv, Artifacts, InodePointersLive, CopyPointersLive, PointersLive, Exists, Copy, fdt_get
<1> QED BY <1>1, <1>2

(* The same entries but for what they point to, in the limit as before. *)
LEMMA LikeTableKept ==
    ASSUME IInv, LikeTable(fdt, fdt')
    PROVE  /\ \A fd \in InUse(fdt') : fdt'.table[fd] \in Entries
           /\ TableSound' /\ TableInLimit' /\ CopiesAreAccessible'
<1>1. \A fd \in InUse(fdt') : fdt'.table[fd] \in Entries
  BY DEF LikeTable, IsTable
<1>2. TableSound' /\ TableInLimit'
  BY DEF LikeTable, IsTable, IInv, Tables, TableSound, TableInLimit
<1>3. CopiesAreAccessible'
  BY DEF LikeTable, IInv, Locks, CopiesAreAccessible, Copy, fdt_get
<1> QED BY <1>1, <1>2, <1>3

LEMMA DataStepInv ==
    ASSUME IInv, DataStep, undefined = "no", UNCHANGED <<presence, waiting, clock>>,
           writing' \in [pid : Pids, fd : Fds, buf : Payloads] \cup {NULL}
    PROVE  IInv' /\ LockStep
<1>1. Tables /\ TypeOK /\ clock \in Nat
  BY SimFSAssumption DEF IInv, Tables, TypeOK
<1>2. LikeFiles(files, files') /\ LikeTable(fdt, fdt')
  BY DEF DataStep
<1>3. /\ \A fd \in InUse(fdt') : fdt'.table[fd] \in Entries
      /\ TableSound' /\ TableInLimit' /\ CopiesAreAccessible'
  BY <1>2, LikeTableKept
<1>4. TypeOK'
  BY <1>1, <1>2, <1>3 DEF TypeOK, DataStep, LikeFiles
<1>5. Artifacts'
  <2>1. PointersLive(heap', files', fdt')
    BY DEF DataStep
  <2> QED BY <2>1 DEF Artifacts, InodePointersLive, CopyPointersLive, PointersLive,
                      Exists, Copy, fdt_get
<1>6. ListMatchesTable' /\ FilesAreCounted' /\ Ages'
  <2>1. SameFiles
    BY <1>1, <1>2 DEF SameFiles, LikeFiles, DataStep
  <2> QED BY <2>1, SameFilesKept
<1>7. RefsHaveDescriptors'
  <2>1. \A q \in Pids, g \in Names : fdt_pid_inode_size(fdt', g, q) = Descriptors(q, g)
    BY <1>2, TableIs, LikeTableCounted DEF Descriptors
  <2> QED BY <1>2, <2>1 DEF IInv, Locks, RefsHaveDescriptors, Descriptors, Exists, LikeFiles
<1>8. PendingIsOneWaiter' /\ NoLostWakeup'
  <2>1. \A q \in Pids : waiting[q] # NULL =>
            waiting[q].name \in Names /\ files[waiting[q].name] # NULL
    BY <1>1 DEF IInv, Locks, PendingIsOneWaiter, Exists, TypeOK, Waits
  <2>2. \A q \in Pids, f \in Names : files[f] # NULL /\ MustWait(files[f], q)
                                         => MustWait(files'[f], q)
    BY <1>2 DEF LikeFiles, MustWait, has_refs, has_other_pid_refs, HeldByOthers
  <2>3. /\ \A f \in Names :
              /\ files'[f] # NULL <=> files[f] # NULL
              /\ files[f] # NULL => /\ files'[f].pending = files[f].pending
                                    /\ files'[f].locked = files[f].locked
        /\ waiting' = waiting
    BY <1>2 DEF LikeFiles
  <2>4. ASSUME NEW q \in Pids, waiting[q] # NULL
        PROVE  \/ waiting'[q].signalled
               \/ /\ ~waiting[q].signalled
                  /\ MustWait(files[waiting[q].name], q) => MustWait(files'[waiting[q].name], q)
    BY <2>1, <2>2, <2>4
  <2>5. SameWaiters
    BY <2>3, <2>4 DEF SameWaiters
  <2> QED BY <2>5, SameWaitersKept
<1>9. LockStep
  <2>1. \A g \in Names, q \in Pids : files[g] # NULL => files[g].refs[q] \in Nat
    BY <1>1 DEF TypeOK, Inodes
  <2>2. \A g \in Names : Exists(g) /\ files'[g] # NULL =>
            /\ files'[g].locked \in {files[g].locked, NoPid}
            /\ \A q \in Pids : files'[g].refs[q] <= files[g].refs[q]
    BY <1>2, <2>1 DEF Exists, LikeFiles
  <2>3. \A q \in Pids : waiting[q] # NULL => files'[waiting[q].name] # NULL
    <3>1. \A q \in Pids : waiting[q] # NULL => waiting[q].name \in Names
      BY <1>1 DEF TypeOK, Waits
    <3> QED BY <1>2, <3>1 DEF IInv, Locks, PendingIsOneWaiter, Exists, LikeFiles
  <2> QED BY <2>2, <2>3, NothingTaken
<1> QED BY <1>3, <1>4, <1>5, <1>6, <1>7, <1>8, <1>9 DEF IInv, Tables, Locks
-----------------------------------------------------------------------------
(* The artifact of a file is freed, the file forgets it or is gone, and    *)
(* the copies that had it dangle.                                          *)
LEMMA ArtifactFreed ==
    ASSUME IInv, NEW f \in Names, Exists(f), files' \in [Names -> Inodes \cup {NULL}],
           files'[f] = NULL \/ files'[f].ptr = NULL,
           \A g \in Names \ {f} : files'[g] = files[g],
           fdt' = Dangling(fdt, files[f].ptr),
           heap' = Reachable(Freed(heap, files[f].ptr), files', fdt')
    PROVE  /\ LikeTable(fdt, fdt')
           /\ heap' \in [Addrs -> Seq(Bytes) \cup {NULL}]
           /\ PointersLive(heap', files', fdt')
<1>1. PICK b \in Addrs \cup {NULL} : b = files[f].ptr
  BY DEF IInv, Tables, TypeOK, Exists, Inodes
<1>2. /\ LikeTable(fdt, fdt')
      /\ \A i \in InUse(fdt) :
            fdt'.table[i].inode.ptr = IF b # NULL /\ fdt.table[i].inode.ptr = b
                                      THEN FREED ELSE fdt.table[i].inode.ptr
  BY <1>1, TableIs, DanglingFacts
<1>3. PICK h, fs, t, gs, u : h = heap /\ fs = files /\ t = fdt /\ gs = files' /\ u = fdt'
  OBVIOUS
<1>4. /\ h \in [Addrs -> Seq(Bytes) \cup {NULL}] /\ gs \in [Names -> Inodes \cup {NULL}]
      /\ PointersLive(h, fs, t) /\ LikeTable(t, u)
  BY <1>2, <1>3, TableIs DEF IInv, Tables, TypeOK
<1>5. \A g \in Names : gs[g] # NULL /\ gs[g].ptr # NULL =>
          fs[g] # NULL /\ gs[g].ptr = fs[g].ptr /\ gs[g].ptr # b
  BY <1>1, <1>3 DEF IInv, Artifacts, InodePointersLive, Exists
<1>6. \A i \in InUse(t) : u.table[i].inode.ptr \in Addrs =>
          u.table[i].inode.ptr = t.table[i].inode.ptr /\ u.table[i].inode.ptr # b
  BY <1>2, <1>3, SimFSAssumption
<1>7. /\ Freed(h, b) \in [Addrs -> Seq(Bytes) \cup {NULL}]
      /\ PointersLive(Freed(h, b), gs, u)
  BY <1>4, <1>5, <1>6, FreedLive
<1> QED BY <1>1, <1>2, <1>3, <1>4, <1>7, ReachableLive

(* Removing a file. *)
LEMMA DestroyInv ==
    ASSUME IInv, NEW f \in Names, NEW n \in Int, Exists(f), undefined = "no",
           DestroyFile(f, n), UNCHANGED <<waiting, clock>>,
           writing' \in [pid : Pids, fd : Fds, buf : Payloads] \cup {NULL}
    PROVE  IInv' /\ LockStep
<1>1. /\ files' = [files EXCEPT ![f] = NULL]
      /\ presence' = RemoveFirst(presence, f)
      /\ used' = used - n /\ monitor' = removed(monitor, n)
      /\ fdt' = Dangling(fdt, files[f].ptr)
      /\ heap' = Reachable(Freed(heap, files[f].ptr), files', fdt')
      /\ undefined' = IF Waiters(f) # {} THEN "inode" ELSE "no"
  BY DEF DestroyFile, Unlisted
<1>2. /\ Tables /\ TypeOK /\ clock \in Nat /\ presence \in Seq(Names)
      /\ files \in [Names -> Inodes \cup {NULL}] /\ waiting \in [Pids -> Waits \cup {NULL}]
      /\ heap \in [Addrs -> Seq(Bytes) \cup {NULL}]
      /\ monitor \in [file_counter : Nat, bytes_counter : Int]
  BY SimFSAssumption DEF IInv, Tables, TypeOK
<1>3. /\ files' \in [Names -> Inodes \cup {NULL}] /\ files'[f] = NULL
      /\ \A g \in Names \ {f} : files'[g] = files[g]
  BY <1>1, <1>2
<1>4. files[f] \in Inodes /\ files[f].ptr \in Addrs \cup {NULL}
  BY <1>2 DEF Exists, Inodes
<1>5. IsInjective(presence) /\ f \in ToSet(presence)
  BY <1>2 DEF Tables, ListMatchesTable
<1>6. /\ presence' \in Seq(Names) /\ Len(presence') = Len(presence) - 1
      /\ IsInjective(presence') /\ ToSet(presence') = ToSet(presence) \ {f}
      /\ \A i, j \in DOMAIN presence' : i < j =>
            \E k, l \in DOMAIN presence : /\ k < l /\ presence'[i] = presence[k]
                                          /\ presence'[j] = presence[l]
  BY <1>1, <1>2, <1>5, RemoveFirstProperties
<1>7. /\ LikeTable(fdt, fdt')
      /\ heap' \in [Addrs -> Seq(Bytes) \cup {NULL}] /\ PointersLive(heap', files', fdt')
  BY <1>1, <1>3, ArtifactFreed
<1>8. /\ \A fd \in InUse(fdt') : fdt'.table[fd] \in Entries
      /\ TableSound' /\ TableInLimit' /\ CopiesAreAccessible'
  BY <1>7, LikeTableKept
<1>10. Artifacts'
  BY <1>7 DEF Artifacts, InodePointersLive, CopyPointersLive, PointersLive, Exists, Copy, fdt_get
<1>11. /\ monitor' \in [file_counter : Nat, bytes_counter : Int]
       /\ monitor.file_counter - 1 <= monitor'.file_counter
  <2> DEFINE fc == IF monitor.file_counter = 0 THEN 0 ELSE monitor.file_counter - 1
             bc == monitor.bytes_counter - n
  <2>1. monitor.file_counter \in Nat /\ monitor.bytes_counter \in Int
    BY <1>2
  <2>2. fc \in Nat /\ monitor.file_counter - 1 <= fc /\ bc \in Int
    BY <2>1
  <2>3. monitor' = IF monitor.bytes_counter = 0 THEN monitor
                   ELSE [file_counter |-> fc, bytes_counter |-> bc]
    BY <1>1 DEF removed
  <2> HIDE DEF fc, bc
  <2> QED BY <1>2, <2>1, <2>2, <2>3
<1>12. TypeOK'
  <2>1. used' \in Int /\ undefined' \in {"no", "artifact", "inode"}
    BY <1>1, <1>2 DEF TypeOK
  <2> QED BY <1>2, <1>3, <1>6, <1>7, <1>8, <1>11, <2>1 DEF TypeOK
<1>13. ListMatchesTable'
  BY <1>2, <1>3, <1>6 DEF Tables, ListMatchesTable, Exists
<1>14. FilesAreCounted'
  BY <1>2, <1>6, <1>11 DEF IInv, FilesAreCounted
<1>15. RefsHaveDescriptors'
  <2>1. \A q \in Pids, g \in Names : fdt_pid_inode_size(fdt', g, q) = Descriptors(q, g)
    BY <1>7, TableIs, LikeTableCounted DEF Descriptors
  <2> QED BY <1>3, <2>1 DEF IInv, Locks, RefsHaveDescriptors, Descriptors, Exists
<1>16. PendingIsOneWaiter' /\ NoLostWakeup'
  <2> SUFFICES ASSUME undefined' = "no" PROVE PendingIsOneWaiter' /\ NoLostWakeup'
    BY DEF PendingIsOneWaiter, NoLostWakeup
  <2>1. Waiters(f) = {}
    BY <1>1
  <2>2. ASSUME NEW q \in Pids, waiting[q] # NULL
        PROVE  /\ waiting[q].name \in Names /\ waiting[q].name # f
               /\ files'[waiting[q].name] = files[waiting[q].name]
               /\ files[waiting[q].name] # NULL
    <3>1. waiting[q].name \in Names /\ waiting[q].name # f
      BY <1>2, <2>1, <2>2 DEF Waiters, Waits
    <3> QED BY <1>3, <2>2, <3>1 DEF IInv, Locks, PendingIsOneWaiter, Exists
  <2>3. ASSUME NEW g \in Names, files'[g] # NULL
        PROVE  \/ files'[g].pending = 0 /\ Waiters(g)' = {}
               \/ /\ files'[g].pending = 1 /\ files'[g].locked = NoPid
                  /\ \E q \in Pids : Waiters(g)' = {q}
    <3>1. g # f /\ files'[g] = files[g] /\ Exists(g)
      BY <1>3, <2>3 DEF Exists
    <3>2. Waiters(g)' = Waiters(g)
      BY DEF Waiters
    <3> QED BY <3>1, <3>2, PendingCases
  <2>4. PendingIsOneWaiter'
    BY <2>2, <2>3 DEF PendingIsOneWaiter, Exists
  <2>5. NoLostWakeup'
    BY <2>2 DEF IInv, Locks, NoLostWakeup
  <2> QED BY <2>4, <2>5
<1>17. Ages'
  <2>1. BornInThePast'
    BY <1>3 DEF IInv, Ages, BornInThePast, Exists
  <2>2. ListedByAge'
    <3> SUFFICES ASSUME NEW i \in DOMAIN presence', NEW j \in DOMAIN presence', i < j
                 PROVE  files'[presence'[i]].btime <= files'[presence'[j]].btime
      BY DEF ListedByAge
    <3>1. PICK k, l \in DOMAIN presence : /\ k < l /\ presence'[i] = presence[k]
                                          /\ presence'[j] = presence[l]
      BY <1>6
    <3>2. presence'[i] \in ToSet(presence') /\ presence'[j] \in ToSet(presence')
      BY DEF ToSet
    <3>3. presence'[i] \in Names \ {f} /\ presence'[j] \in Names \ {f}
      BY <1>6, <3>2
    <3> QED BY <1>3, <3>1, <3>3 DEF IInv, Ages, ListedByAge
  <2> QED BY <2>1, <2>2 DEF Ages
<1>18. LockStep
  <2>1. \A g \in Names, q \in Pids : files[g] # NULL => files[g].refs[q] \in Nat
    BY <1>2 DEF Inodes
  <2>2. \A g \in Names : Exists(g) /\ files'[g] # NULL =>
            /\ files'[g].locked \in {files[g].locked, NoPid}
            /\ \A q \in Pids : files'[g].refs[q] <= files[g].refs[q]
    BY <1>3, <2>1 DEF Exists
  <2>3. \A q \in Pids : waiting[q] # NULL /\ undefined' = "no" => files'[waiting[q].name] # NULL
    <3>1. \A q \in Pids : waiting[q] # NULL => waiting[q].name \in Names
      BY <1>2 DEF Waits
    <3>2. undefined' = "no" => \A q \in Pids : waiting[q] # NULL => waiting[q].name # f
      BY <1>1 DEF Waiters
    <3> QED BY <1>3, <3>1, <3>2 DEF IInv, Locks, PendingIsOneWaiter, Exists
  <2> QED BY <2>2, <2>3, NothingTaken
<1> QED BY <1>8, <1>10, <1>12, <1>13, <1>14, <1>15, <1>16, <1>17, <1>18
    DEF IInv, Tables, Locks

LEMMA RemoveFileInv ==
    ASSUME IInv, NEW p \in Pids, NEW f \in Names, RemoveFile(p, f)
    PROVE  IInv' /\ LockStep
<1>1. /\ Exists(f) /\ undefined = "no" /\ UNCHANGED <<waiting, clock, writing>>
      /\ DestroyFile(f, files[f].size)
  BY DEF RemoveFile, Ready, remove_error
<1>2. files[f].size \in Int /\ writing \in [pid : Pids, fd : Fds, buf : Payloads] \cup {NULL}
  BY <1>1 DEF IInv, Tables, TypeOK, Exists, Inodes
<1>3. PICK n \in Int : n = files[f].size
  BY <1>2
<1>4. DestroyFile(f, n)
  BY <1>1, <1>3 DEF DestroyFile
<1> QED BY <1>1, <1>2, <1>4, DestroyInv

(* A read that finds nothing frees the artifact all the same. *)
LEMMA FailedReadStep ==
    ASSUME IInv, NEW f \in Names, Exists(f), FailedRead(f),
           UNCHANGED <<used, monitor, undefined>>
    PROVE  DataStep
<1>1. /\ TypeOK /\ clock \in Nat /\ files[f] \in Inodes
      /\ files \in [Names -> Inodes \cup {NULL}]
  BY SimFSAssumption DEF IInv, Tables, TypeOK, Exists
<1>2. /\ fdt' = Dangling(fdt, files[f].ptr)
      /\ heap' = Reachable(Freed(heap, files[f].ptr), files', fdt')
      /\ files' = IF files[f].ptr = NULL THEN files
                  ELSE [files EXCEPT ![f] = inode_read(files[f], NULL, 0, clock)]
  BY DEF FailedRead
<1>3. /\ LikeFiles(files, files') /\ files'[f].ptr = NULL
      /\ \A g \in Names \ {f} : files'[g] = files[g]
  <2>1. CASE files[f].ptr = NULL
    BY <1>1, <1>2, <2>1 DEF LikeFiles
  <2>2. CASE files[f].ptr # NULL
    <3> DEFINE y == inode_read(files[f], NULL, 0, clock)
    <3>1. /\ y \in Inodes /\ y.ptr = NULL /\ y.refs = files[f].refs
          /\ y.locked = files[f].locked /\ y.pending = files[f].pending
          /\ y.btime = files[f].btime
      BY <1>1, InodeContent
    <3> HIDE DEF y
    <3>2. y # NULL
      BY <3>1, NullAssumption
    <3>3. files' = [files EXCEPT ![f] = y]
      BY <1>2, <2>2 DEF y
    <3>4. /\ files' \in [Names -> Inodes \cup {NULL}] /\ files'[f] = y
          /\ \A g \in Names \ {f} : files'[g] = files[g]
      BY <1>1, <3>1, <3>3
    <3> QED BY <3>1, <3>2, <3>4 DEF LikeFiles, Exists
  <2> QED BY <2>1, <2>2
<1>4. /\ LikeTable(fdt, fdt')
      /\ heap' \in [Addrs -> Seq(Bytes) \cup {NULL}] /\ PointersLive(heap', files', fdt')
  BY <1>2, <1>3, ArtifactFreed DEF LikeFiles
<1> QED BY <1>1, <1>3, <1>4 DEF DataStep, TypeOK

LEMMA ReadNothingInv ==
    ASSUME IInv, NEW p \in Pids, NEW fd \in Fds, ReadNothing(p, fd)
    PROVE  IInv' /\ LockStep
<1>1. /\ undefined = "no" /\ read_error(p, fd) = "ok"
      /\ FailedRead(Copy(fd).name)
      /\ UNCHANGED <<presence, used, monitor, waiting, writing, clock, undefined>>
  BY DEF ReadNothing, Ready
<1>2. fd_error(p, fd) = "ok"
  BY <1>1 DEF read_error, access_error, fd_error
<1>3. PICK f \in Names : f = Copy(fd).name /\ Exists(f)
  BY <1>2, FileOfDescriptor
<1>4. FailedRead(f)
  BY <1>1, <1>3 DEF FailedRead
<1>5. DataStep
  BY <1>1, <1>3, <1>4, FailedReadStep
<1>6. writing' \in [pid : Pids, fd : Fds, buf : Payloads] \cup {NULL}
  BY <1>1 DEF IInv, Tables, TypeOK
<1> QED BY <1>1, <1>5, <1>6, DataStepInv
-----------------------------------------------------------------------------
(* The victim of an eviction.  Among finitely many keys one is least.      *)
LEMMA LeastKey ==
    ASSUME NEW n \in Nat \ {0}, NEW K \in [1..n -> Int]
    PROVE  \E i \in 1..n : \A j \in 1..n : K[i] <= K[j]
<1> DEFINE Least(m) == \E i \in 1..n : \A j \in 1..m : K[i] <= K[j]
           Bad == {m \in 1..n : ~Least(m)}
<1>0. \A i \in 1..n : K[i] \in Int
  OBVIOUS
<1> SUFFICES ASSUME ~Least(n) PROVE FALSE
  OBVIOUS
<1> HIDE DEF Least
<1>1. n \in Bad /\ Bad \in SUBSET Nat
  OBVIOUS
<1>2. PICK m \in Bad : \A k \in Bad : m <= k
  <2> HIDE DEF Bad
  <2> QED BY <1>1, MinIsLeast
<1>3. m \in 1..n /\ ~Least(m)
  OBVIOUS
<1>4. CASE m = 1
  <2>1. 1 \in 1..n /\ \A j \in 1..1 : K[1] <= K[j]
    BY <1>0
  <2>2. Least(1)
    BY <2>1 DEF Least
  <2> QED BY <1>3, <1>4, <2>2
<1>5. CASE m # 1
  <2>1. m - 1 \in 1..n /\ ~(m <= m - 1)
    BY <1>3, <1>5
  <2>2. Least(m - 1)
    BY <1>2, <2>1
  <2>3. PICK i \in 1..n : \A j \in 1..m - 1 : K[i] <= K[j]
    BY <2>2 DEF Least
  <2>4. PICK l \in {i, m} : \A j \in 1..m : K[l] <= K[j]
    <3>1. K[i] \in Int /\ K[m] \in Int /\ \A j \in 1..m : K[j] \in Int
      BY <1>0, <1>3
    <3>2. \A j \in 1..m : j = m \/ j \in 1..m - 1
      BY <1>3
    <3>3. CASE K[i] <= K[m]
      <4>1. \A j \in 1..m : K[i] <= K[j]
        BY <2>3, <3>2, <3>3
      <4> QED BY <4>1
    <3>4. CASE ~(K[i] <= K[m])
      <4>1. \A j \in 1..m : K[m] <= K[j]
        BY <2>3, <3>1, <3>2, <3>4
      <4> QED BY <4>1
    <3> QED BY <3>3, <3>4
  <2>5. Least(m)
    BY <1>3, <2>4 DEF Least
  <2> QED BY <1>3, <2>5
<1> QED BY <1>4, <1>5

LEMMA ReferenceCount ==
    ASSUME NEW x \in Inodes
    PROVE  reference_count(x) \in Nat
<1> DEFINE node(p) == {p} \X (1..x.refs[p])
           N == {node(p) : p \in Pids}
<1>1. \A p \in Pids : IsFiniteSet(node(p))
  <2>1. ASSUME NEW p \in Pids PROVE IsFiniteSet(node(p))
    <3>1. x.refs[p] \in Int
      BY DEF Inodes
    <3>2. IsFiniteSet(1..x.refs[p])
      BY <3>1, FS_Interval
    <3>3. IsFiniteSet({p})
      BY FS_Singleton
    <3> QED BY <3>2, <3>3, FS_Product
  <2> QED BY <2>1
<1>2. IsFiniteSet(N)
  <2> HIDE DEF node
  <2> DEFINE F == [p \in Pids |-> node(p)]
  <2>1. F \in Surjection(Pids, N)
    BY DEF Surjection
  <2> HIDE DEF F, N
  <2> QED BY <2>1, NoPidAssumption, FS_Surjection
<1>3. \A S \in N : IsFiniteSet(S)
  BY <1>1
<1>4. IsFiniteSet(UNION N)
  <2> HIDE DEF N
  <2> QED BY <1>2, <1>3, FS_UNION
<1>5. reference_count(x) = Cardinality(UNION N)
  BY DEF reference_count
<1> HIDE DEF N
<1> QED BY <1>4, <1>5, FS_CardinalityType

LEMMA VictimKey ==
    ASSUME NEW x \in Inodes, replacement_policy # "NONE"
    PROVE  victim_key(x) \in Int
<1>1. x.btime \in Nat /\ x.ctime \in Nat /\ reference_count(x) \in Nat
  BY ReferenceCount DEF Inodes
<1>2. replacement_policy \in {"FIFO", "LIFO", "LRU", "MRU", "LFU"}
  BY SimFSAssumption
<1> QED BY <1>1, <1>2 DEF victim_key

(* The file at the root of the heap is one of the table. *)
LEMMA VictimExists ==
    ASSUME IInv, presence # <<>>, replacement_policy # "NONE"
    PROVE  Victim \in Names /\ Exists(Victim)
<1> DEFINE I == {i \in DOMAIN presence : \A j \in DOMAIN presence :
                     victim_key(files[presence[i]]) <= victim_key(files[presence[j]])}
<1>1. presence \in Seq(Names) /\ Len(presence) \in Nat \ {0} /\ DOMAIN presence = 1..Len(presence)
  BY DEF IInv, Tables, TypeOK
<1>2. \A i \in DOMAIN presence : presence[i] \in Names /\ files[presence[i]] \in Inodes
  BY <1>1 DEF IInv, Tables, TypeOK, ListMatchesTable, ToSet, Exists
<1>3. I # {}
  <2> DEFINE K == [i \in 1..Len(presence) |-> victim_key(files[presence[i]])]
  <2>1. K \in [1..Len(presence) -> Int]
    BY <1>1, <1>2, VictimKey
  <2>2. \E i \in 1..Len(presence) : \A j \in 1..Len(presence) : K[i] <= K[j]
    <3> HIDE DEF K
    <3> QED BY <1>1, <2>1, LeastKey
  <2> QED BY <1>1, <2>2
<1>4. Min(I) \in DOMAIN presence
  <2>1. I \in SUBSET Nat
    BY <1>1
  <2>2. Min(I) \in I
    <3> HIDE DEF I
    <3> QED BY <1>3, <2>1, MinIsLeast
  <2> QED BY <2>2
<1>5. Victim = presence[Min(I)]
  BY DEF Victim
<1> HIDE DEF I
<1> QED BY <1>2, <1>4, <1>5, NullAssumption DEF Exists

(* The size of an artifact. *)
LEMMA SizeIsNat ==
    ASSUME NEW bytes \in Seq(Bytes)
    PROVE  encode_size(bytes) \in Int
<1>1. Len(bytes) + WordBits - 1 \in Int /\ WordBits \in Int /\ WordBits > 0
  BY HuffmanAssumption
<1>2. PICK n \in Int, w \in Int : n = Len(bytes) + WordBits - 1 /\ w = WordBits /\ w > 0
  BY <1>1
<1>3. n \div w \in Int
  BY <1>2
<1> QED BY <1>2, <1>3 DEF encode_size

(* What a file that was written points to. *)
LEMMA ContentOf ==
    ASSUME IInv, NEW f \in Names, Exists(f), files[f].ptr # NULL
    PROVE  files[f].ptr \in Addrs /\ heap[files[f].ptr] \in Seq(Bytes)
<1>1. files[f].ptr \in Addrs
  BY DEF IInv, Tables, TypeOK, Exists, Inodes
<1> QED BY <1>1 DEF IInv, Tables, TypeOK, Artifacts, InodePointersLive

LEMMA EvictInv ==
    ASSUME IInv, Evict
    PROVE  IInv' /\ LockStep
<1>1. /\ undefined = "no" /\ writing # NULL /\ no_victim_error = "ok"
      /\ Readable(files[Victim]) /\ UNCHANGED <<waiting, clock>>
      /\ DestroyFile(Victim, encode_size(heap[files[Victim].ptr]))
      /\ writing' \in {writing, NULL}
  BY DEF Evict, InWrite
<1>2. presence # <<>> /\ replacement_policy # "NONE"
  BY <1>1 DEF no_victim_error
<1>3. PICK f \in Names : f = Victim /\ Exists(f)
  BY <1>2, VictimExists
<1>4. files[f].ptr # NULL
  BY <1>1, <1>3 DEF Readable
<1>5. PICK n \in Int : n = encode_size(heap[files[f].ptr])
  BY <1>3, <1>4, ContentOf, SizeIsNat
<1>6. DestroyFile(f, n)
  BY <1>1, <1>3, <1>5 DEF DestroyFile
<1>7. writing' \in [pid : Pids, fd : Fds, buf : Payloads] \cup {NULL}
  BY <1>1 DEF IInv, Tables, TypeOK
<1> QED BY <1>1, <1>3, <1>6, <1>7, DestroyInv

LEMMA EvictFailsInv ==
    ASSUME IInv, EvictFails
    PROVE  IInv' /\ LockStep
<1>1. /\ undefined = "no" /\ no_victim_error = "ok" /\ FailedRead(Victim) /\ writing' = NULL
      /\ UNCHANGED <<presence, used, monitor, waiting, clock, undefined>>
  BY DEF EvictFails, InWrite
<1>2. presence # <<>> /\ replacement_policy # "NONE"
  BY <1>1 DEF no_victim_error
<1>3. PICK f \in Names : f = Victim /\ Exists(f)
  BY <1>2, VictimExists
<1>4. FailedRead(f)
  BY <1>1, <1>3 DEF FailedRead
<1>5. DataStep
  BY <1>1, <1>3, <1>4, FailedReadStep
<1> QED BY <1>1, <1>5, DataStepInv
-----------------------------------------------------------------------------
(* Writing and reading.  The address malloc returns points to nothing yet. *)
LEMMA FreshFacts ==
    ASSUME NEW fs, NEW t, HasMemory(fs, t)
    PROVE  Fresh(fs, t) \in Addrs \ Referenced(fs, t)
<1> DEFINE S == Addrs \ Referenced(fs, t)
<1>1. S \in SUBSET Nat /\ S # {}
  BY SimFSAssumption DEF HasMemory
<1>2. Fresh(fs, t) = Min(S)
  BY DEF Fresh
<1> HIDE DEF S
<1>3. Min(S) \in S
  BY <1>1, MinIsLeast
<1> QED BY <1>2, <1>3 DEF S

(* Flushing a copy, whatever the caller did to the contents before. *)
LEMMA FlushStep ==
    ASSUME IInv, undefined = "no",
           NEW fs, NEW h \in [Addrs -> Seq(Bytes) \cup {NULL}], NEW t, NEW fd \in InUse(t),
           LikeFiles(files, fs), LikeTable(fdt, t), PointersLive(h, fs, t),
           fs[t.table[fd].inode.name] # NULL, Flush(fd, fs, h, t)
    PROVE  DataStep
<1> DEFINE copy == t.table[fd].inode
           old  == IF copy.ptr = NULL THEN <<>> ELSE decode(h[copy.ptr])
           new  == old \o copy.buffer
           a    == Fresh(fs, t)
           grew == encode_size(new) - copy.size
           done == inode_fflush(copy, a, encode_size(new))
<1>1. /\ Tables /\ TypeOK /\ clock \in Nat /\ fs \in [Names -> Inodes \cup {NULL}]
      /\ heap \in [Addrs -> Seq(Bytes) \cup {NULL}]
      /\ files \in [Names -> Inodes \cup {NULL}] /\ used \in Int
      /\ monitor \in [file_counter : Nat, bytes_counter : Int]
      /\ IsTable(fdt) /\ PointersLive(heap, files, fdt) /\ IsTable(t)
  BY SimFSAssumption, TableIs DEF IInv, Tables, TypeOK, LikeFiles, LikeTable
<1>3. copy \in Copies
  BY <1>1 DEF IsTable, Entries
<1>2. PICK f \in Names : f = copy.name /\ fs[f] # NULL /\ fs[f] \in Inodes
  <2>1. copy.name \in Names
    BY <1>3 DEF Copies
  <2>2. fs[copy.name] # NULL /\ fs[copy.name] \in Inodes
    BY <1>1, <2>1
  <2> HIDE DEF copy
  <2> QED BY <2>1, <2>2
(* A step to an inode of f that differs in content, size and ctime. *)
<1>4. ASSUME NEW y \in Inodes, files' = [fs EXCEPT ![f] = y],
             y.refs = fs[f].refs, y.locked = fs[f].locked,
             y.pending = fs[f].pending, y.btime = fs[f].btime
      PROVE  /\ LikeFiles(files, files') /\ files'[f] = y /\ y # NULL
             /\ \A g \in Names \ {f} : files'[g] = fs[g]
  <2>1. y # NULL
    BY NullAssumption
  <2>2. /\ files' \in [Names -> Inodes \cup {NULL}] /\ files'[f] = y
        /\ \A g \in Names \ {f} : files'[g] = fs[g]
    BY <1>1, <1>4
  <2> QED BY <1>2, <1>4, <2>1, <2>2 DEF LikeFiles
<1>5. CASE copy.buffer = <<>>
  <2> DEFINE y == [fs[f] EXCEPT !.ctime = clock]
  <2>1. /\ files' = [fs EXCEPT ![f] = y] /\ fdt' = t
        /\ heap' = Reachable(h, files', fdt') /\ UNCHANGED <<used, monitor, undefined>>
    BY <1>2, <1>5 DEF Flush
  <2>2. /\ y \in Inodes /\ y.refs = fs[f].refs /\ y.locked = fs[f].locked
        /\ y.pending = fs[f].pending /\ y.btime = fs[f].btime /\ y.ptr = fs[f].ptr
    BY <1>1, <1>2 DEF Inodes
  <2> HIDE DEF y
  <2>3. /\ LikeFiles(files, files') /\ files'[f] = y /\ y # NULL
        /\ \A g \in Names \ {f} : files'[g] = fs[g]
    BY <1>4, <2>1, <2>2
  <2>4. \A g \in Names : /\ files'[g] # NULL <=> fs[g] # NULL
                         /\ fs[g] # NULL => files'[g].ptr = fs[g].ptr
    BY <1>2, <2>2, <2>3
  <2>5. PointersLive(h, files', t)
    BY <2>4 DEF PointersLive
  <2>6. heap' \in [Addrs -> Seq(Bytes) \cup {NULL}] /\ PointersLive(heap', files', fdt')
    BY <2>1, <2>3, <2>5, ReachableLive DEF LikeFiles
  <2> QED BY <1>1, <2>1, <2>3, <2>6 DEF DataStep
<1>6. CASE copy.buffer # <<>> /\ copy.ptr = FREED
  <2>1. undefined' = "artifact" /\ UNCHANGED <<files, used, monitor, fdt, heap>>
    BY <1>6, Zenon DEF Flush
  <2> QED BY <1>1, <2>1 DEF DataStep, LikeFiles, LikeTable
<1>7. CASE copy.buffer # <<>> /\ copy.ptr # FREED
  <2> DEFINE s == [t EXCEPT !.table[fd].inode = done]
             y == flushed(fs[f], a, grew)
  <2>1. /\ HasMemory(fs, t) /\ fdt' = Dangling(s, copy.ptr)
        /\ files' = [fs EXCEPT ![f] = y]
        /\ heap' = Reachable([Freed(h, copy.ptr) EXCEPT ![a] = new], files', fdt')
        /\ used' = used + grew /\ monitor' = bytes_added(monitor, grew)
        /\ UNCHANGED undefined
    BY <1>2, <1>7, Zenon DEF Flush
  <2>2. a \in Addrs \ Referenced(fs, t)
    BY <2>1, FreshFacts, Zenon
  <2>3. copy.ptr \in Addrs \cup {NULL} /\ copy.buffer \in Seq(Bytes) /\ copy.size \in Int
    BY <1>3, <1>7 DEF Copies
  <2>4. new \in Seq(Bytes)
    <3>1. old \in Seq(Bytes)
      <4>1. CASE copy.ptr = NULL
        BY <4>1
      <4>2. CASE copy.ptr # NULL
        <5>1. h[copy.ptr] # NULL /\ h[copy.ptr] \in Seq(Bytes) \cup {NULL}
          BY <2>3, <4>2 DEF PointersLive
        <5> QED BY <4>2, <5>1 DEF decode
      <4> QED BY <4>1, <4>2
    <3> HIDE DEF old
    <3> QED BY <2>3, <3>1
  <2> HIDE DEF new
  <2>5. encode_size(new) \in Int
    BY <2>4, SizeIsNat
  <2>6. grew \in Int
    BY <2>3, <2>5
  <2> HIDE DEF a, grew
  <2>7. /\ y \in Inodes /\ y.ptr = a /\ y.refs = fs[f].refs /\ y.locked = fs[f].locked
        /\ y.pending = fs[f].pending /\ y.btime = fs[f].btime
    <3>1. PICK x \in Inodes, k \in Addrs, n \in Int : x = fs[f] /\ k = a /\ n = grew
      BY <1>2, <2>2, <2>6
    <3> DEFINE z == flushed(x, k, n)
    <3>2. /\ z \in Inodes /\ z.ptr = k /\ z.refs = x.refs /\ z.locked = x.locked
          /\ z.pending = x.pending /\ z.btime = x.btime
      BY <1>1, InodeFlushed
    <3>3. y = z
      BY <3>1
    <3> HIDE DEF y, z
    <3> QED BY <3>1, <3>2, <3>3
  <2> HIDE DEF y
  <2>8. /\ LikeFiles(files, files') /\ files'[f] = y /\ y # NULL
        /\ \A g \in Names \ {f} : files'[g] = fs[g]
    BY <1>4, <2>1, <2>7
  <2>9. done \in Copies /\ done.name = copy.name /\ done.locked = copy.locked /\ done.ptr = a
    <3>1. PICK x \in Copies, k \in Addrs, n \in Int : x = copy /\ k = a /\ n = encode_size(new)
      BY <1>3, <2>2, <2>5
    <3> DEFINE z == inode_fflush(x, k, n)
    <3>2. z \in Copies /\ z.name = x.name /\ z.locked = x.locked /\ z.ptr = k
      <4>0. <<>> \in Seq(Bytes)
        OBVIOUS
      <4>1. PICK e \in Seq(Bytes) : e = <<>>
        BY <4>0, Zenon
      <4>2. z = [x EXCEPT !.buffer = e, !.ptr = k, !.size = n]
        BY <4>1 DEF inode_fflush
      <4> HIDE DEF z
      <4> QED BY <4>2 DEF Copies
    <3>3. done = z
      BY <3>1
    <3> HIDE DEF z, copy, done
    <3> QED BY <3>1, <3>2, <3>3
  <2> HIDE DEF done
  <2>10. /\ LikeTable(t, s) /\ s.table[fd].inode = done
         /\ \A i \in InUse(t) \ {fd} : s.table[i] = t.table[i]
    BY <1>1, <2>9, SetCopy
  <2> HIDE DEF s
  <2>11. /\ LikeTable(s, fdt')
         /\ \A i \in InUse(s) :
               fdt'.table[i].inode.ptr = IF copy.ptr # NULL /\ s.table[i].inode.ptr = copy.ptr
                                         THEN FREED ELSE s.table[i].inode.ptr
    <3>1. IsTable(s)
      BY <2>10 DEF LikeTable
    <3>2. PICK k : k = copy.ptr
      OBVIOUS
    <3> DEFINE v == Dangling(s, k)
    <3>3. /\ LikeTable(s, v)
          /\ \A i \in InUse(s) :
                v.table[i].inode.ptr = IF k # NULL /\ s.table[i].inode.ptr = k
                                       THEN FREED ELSE s.table[i].inode.ptr
      BY <3>1, DanglingFacts
    <3>4. v = fdt'
      BY <2>1, <3>2
    <3> HIDE DEF v
    <3> QED BY <3>2, <3>3, <3>4
  <2>12. LikeTable(t, fdt') /\ LikeTable(fdt, fdt') /\ InUse(s) = InUse(t)
    BY <2>10, <2>11, LikeTableTransitive DEF LikeTable
  <2>13. PICK b \in Addrs \cup {NULL}, c \in Addrs \ Referenced(fs, t), bytes \in Seq(Bytes) :
             b = copy.ptr /\ c = a /\ bytes = new
    BY <2>2, <2>3, <2>4
  <2>14. b # NULL => \A g \in Names \ {f} : fs[g] # NULL => fs[g].ptr # b
    BY <1>2, <2>13 DEF PointersLive
  <2>15. ASSUME NEW i \in InUse(t), fdt'.table[i].inode.ptr \in Addrs
         PROVE  \/ /\ fdt'.table[i].inode.ptr = t.table[i].inode.ptr
                   /\ fdt'.table[i].inode.ptr # b
                \/ fdt'.table[i].inode.ptr = c /\ fdt'.table[i].inode.name = f
    <3>1. FREED \notin Addrs /\ NULL \notin Addrs
      BY SimFSAssumption
    <3>2. CASE i = fd
      <4>1. s.table[i].inode.ptr = a /\ fdt'.table[i].inode.name = f
        BY <1>2, <2>9, <2>10, <2>12, <3>2 DEF LikeTable
      <4> QED BY <2>11, <2>12, <2>13, <2>15, <3>1, <4>1
    <3>3. CASE i # fd
      <4>1. s.table[i].inode.ptr = t.table[i].inode.ptr
        BY <2>10, <3>3
      <4> QED BY <2>11, <2>12, <2>13, <2>15, <3>1, <4>1
    <3> QED BY <3>2, <3>3
  <2>16. PICK gs, u : gs = files' /\ u = fdt'
    OBVIOUS
  <2>17. gs \in [Names -> Inodes \cup {NULL}] /\ Replaces(fs, gs, t, u, f, b, c)
    <3>1. /\ gs \in [Names -> Inodes \cup {NULL}] /\ LikeTable(t, u)
          /\ fs[f] # NULL /\ gs[f] # NULL /\ gs[f].ptr = c
          /\ \A g \in Names \ {f} : gs[g] = fs[g]
          /\ \A i \in InUse(t) : u.table[i].inode.ptr \in Addrs =>
                \/ u.table[i].inode.ptr = t.table[i].inode.ptr /\ u.table[i].inode.ptr # b
                \/ u.table[i].inode.ptr = c /\ u.table[i].inode.name = f
      BY <1>2, <2>7, <2>8, <2>12, <2>13, <2>15, <2>16, ZenonT(40) DEF LikeFiles
    <3> QED BY <2>14, <3>1, Zenon DEF Replaces
  <2>18. /\ [Freed(h, b) EXCEPT ![c] = bytes] \in [Addrs -> Seq(Bytes) \cup {NULL}]
         /\ PointersLive([Freed(h, b) EXCEPT ![c] = bytes], gs, u)
    BY <2>17, ReplacedLive
  <2>19. heap' \in [Addrs -> Seq(Bytes) \cup {NULL}] /\ PointersLive(heap', files', fdt')
    <3>1. heap' = Reachable([Freed(h, b) EXCEPT ![c] = bytes], gs, u)
      BY <2>1, <2>13, <2>16
    <3> QED BY <2>16, <2>17, <2>18, <3>1, ReachableLive
  <2>20. /\ monitor' \in [file_counter : Nat, bytes_counter : Int]
         /\ monitor'.file_counter = monitor.file_counter
    <3> DEFINE n == monitor.bytes_counter + grew
    <3>1. n \in Int
      BY <1>1, <2>6
    <3>2. monitor' = [monitor EXCEPT !.bytes_counter = n]
      BY <2>1 DEF bytes_added
    <3> HIDE DEF n
    <3> QED BY <1>1, <3>1, <3>2
  <2>21. used' \in Int
    BY <1>1, <2>1, <2>6
  <2> QED BY <2>1, <2>8, <2>12, <2>19, <2>20, <2>21, ZenonT(40) DEF DataStep
<1> QED BY <1>5, <1>6, <1>7

LEMMA NothingMoved ==
    ASSUME IInv, UNCHANGED <<files, used, monitor, fdt, heap, undefined>>
    PROVE  DataStep
<1>1. IsTable(fdt) /\ PointersLive(heap, files, fdt)
  BY TableIs
<1> QED BY <1>1 DEF DataStep, LikeFiles, LikeTable, IInv, Tables, TypeOK

LEMMA WriteCopyStep ==
    ASSUME IInv, undefined = "no", NEW p \in Pids, NEW fd \in Fds, NEW buf \in Payloads,
           WriteCopy(p, fd, buf)
    PROVE  DataStep
<1> DEFINE c == inode_write(fdt.table[fd].inode, buf)
           t == [fdt EXCEPT !.table[fd].inode = c]
<1>1. CASE access_error(p, fd) # "ok"
  BY <1>1, NothingMoved DEF WriteCopy
<1>2. CASE access_error(p, fd) = "ok"
  <2>1. fdt_error(fdt, fd, p) = "ok" /\ fd \in Nat /\ Tables
    BY <1>2, SimFSAssumption DEF access_error, IInv, Fds
  <2>2. fd \in InUse(fdt) /\ Copy(fd) \in Copies /\ Copy(fd) = fdt.table[fd].inode
    BY <2>1, Accepted DEF Copy, fdt_get
  <2>3. /\ c \in Copies /\ c.name = fdt.table[fd].inode.name
        /\ c.locked = fdt.table[fd].inode.locked /\ c.ptr = fdt.table[fd].inode.ptr
    <3>1. PICK x \in Copies : x = fdt.table[fd].inode
      BY <2>2
    <3>2. PICK b : b = x.buffer \o buf
      OBVIOUS
    <3>3. b \in Seq(Bytes)
      BY <3>2, SimFSAssumption DEF Copies
    <3>4. c = [x EXCEPT !.buffer = b]
      BY <3>1, <3>2 DEF inode_write
    <3> HIDE DEF c
    <3>5. c \in Copies /\ c.name = x.name /\ c.locked = x.locked /\ c.ptr = x.ptr
      BY <3>3, <3>4 DEF Copies
    <3> QED BY <3>1, <3>5
  <2>4. WriteCopy(p, fd, buf) /\ [fdt EXCEPT !.table[fd].inode = inode_write(@, buf)] = t
    OBVIOUS
  <2>5. \/ ~Exists(Copy(fd).name) /\ fdt' = t /\ UNCHANGED <<files, used, monitor, heap, undefined>>
        \/ Exists(Copy(fd).name) /\ Flush(fd, files, heap, t)
    BY <1>2, <2>4 DEF WriteCopy
  <2> HIDE DEF c
  <2>6. /\ LikeTable(fdt, t) /\ t.table[fd].inode = c
        /\ \A i \in InUse(fdt) \ {fd} : t.table[i] = fdt.table[i]
    BY <2>2, <2>3, TableIs, SetCopy
  <2> HIDE DEF t
  <2>7. \A i \in InUse(fdt) : t.table[i].inode.ptr = fdt.table[i].inode.ptr
    BY <2>3, <2>6
  <2>8. PointersLive(heap, files, t)
    BY <2>6, <2>7, TableIs DEF PointersLive, LikeTable
  <2>9. /\ heap \in [Addrs -> Seq(Bytes) \cup {NULL}] /\ files \in [Names -> Inodes \cup {NULL}]
        /\ used \in Int /\ monitor \in [file_counter : Nat, bytes_counter : Int]
        /\ LikeFiles(files, files)
    BY DEF IInv, Tables, TypeOK, LikeFiles
  <2>10. CASE ~Exists(Copy(fd).name)
    BY <2>5, <2>6, <2>8, <2>9, <2>10 DEF DataStep
  <2>11. CASE Exists(Copy(fd).name)
    <3>1. PICK fs, h, u : fs = files /\ h = heap /\ u = t
      OBVIOUS
    <3>2. Flush(fd, fs, h, u)
      BY <2>5, <2>11, <3>1
    <3>3. /\ h \in [Addrs -> Seq(Bytes) \cup {NULL}] /\ fd \in InUse(u)
          /\ LikeFiles(files, fs) /\ LikeTable(fdt, u) /\ PointersLive(h, fs, u)
          /\ fs[u.table[fd].inode.name] # NULL
      BY <2>2, <2>3, <2>6, <2>8, <2>9, <2>11, <3>1 DEF LikeTable, Exists
    <3> QED BY <3>2, <3>3, FlushStep
  <2> QED BY <2>10, <2>11
<1> QED BY <1>1, <1>2

LEMMA WriteInv ==
    ASSUME IInv, NEW p \in Pids, NEW fd \in Fds, NEW buf \in Payloads, Write(p, fd, buf)
    PROVE  IInv' /\ LockStep
<1>1. /\ undefined = "no" /\ WriteCopy(p, fd, buf)
      /\ UNCHANGED <<presence, waiting, writing, clock>>
  BY DEF Write, Ready
<1>2. DataStep
  BY <1>1, WriteCopyStep
<1>3. writing' \in [pid : Pids, fd : Fds, buf : Payloads] \cup {NULL}
  BY <1>1 DEF IInv, Tables, TypeOK
<1> QED BY <1>1, <1>2, <1>3, DataStepInv

LEMMA WriteEndInv ==
    ASSUME IInv, WriteEnd
    PROVE  IInv' /\ LockStep
<1>1. /\ undefined = "no" /\ writing # NULL /\ writing' = NULL
      /\ WriteCopy(writing.pid, writing.fd, writing.buf)
      /\ UNCHANGED <<presence, waiting, clock>>
  BY DEF WriteEnd, InWrite
<1>2. PICK p \in Pids, fd \in Fds, buf \in Payloads :
          p = writing.pid /\ fd = writing.fd /\ buf = writing.buf
  BY <1>1 DEF IInv, Tables, TypeOK
<1>3. WriteCopy(p, fd, buf)
  BY <1>1, <1>2
<1>4. DataStep
  BY <1>1, <1>3, WriteCopyStep
<1> QED BY <1>1, <1>4, DataStepInv

LEMMA ReadStep ==
    ASSUME IInv, NEW p \in Pids, NEW fd \in Fds, Read(p, fd)
    PROVE  DataStep
<1>1. /\ undefined = "no" /\ read_error(p, fd) = "ok"
      /\ UNCHANGED <<presence, waiting, writing, clock>>
  BY DEF Read, Ready
<1>2. fd_error(p, fd) = "ok"
  BY <1>1 DEF read_error, access_error, fd_error
<1>3. fd \in InUse(fdt) /\ Copy(fd).name = fdt.table[fd].inode.name
  BY <1>2, FileOfDescriptor DEF Copy, fdt_get
<1>4. PICK f \in Names : f = Copy(fd).name /\ Exists(f)
  BY <1>2, FileOfDescriptor
<1> DEFINE a0 == Fresh(files, fdt)
           old0 == heap[files[f].ptr]
           y0 == inode_read(files[f], a0, encode_size(old0), clock)
           fs0 == [files EXCEPT ![f] = y0]
           h0 == [Freed(heap, files[f].ptr) EXCEPT ![a0] = old0]
           t0 == Dangling(fdt, files[f].ptr)
<1>5. /\ Readable(files[f]) /\ HasMemory(files, fdt)
      /\ Flush(fd, fs0, h0, t0)
  BY <1>4 DEF Read
<1>6. /\ clock \in Nat /\ files[f] \in Inodes /\ files \in [Names -> Inodes \cup {NULL}]
      /\ heap \in [Addrs -> Seq(Bytes) \cup {NULL}]
      /\ IsTable(fdt) /\ PointersLive(heap, files, fdt)
  BY <1>4, SimFSAssumption, TableIs DEF IInv, Tables, TypeOK, Exists
<1>7. PICK b \in Addrs, bytes \in Seq(Bytes) : b = files[f].ptr /\ bytes = old0
  <2>1. files[f].ptr # NULL
    BY <1>5 DEF Readable
  <2> QED BY <1>4, <2>1, ContentOf
<1>8. PICK a \in Addrs \ Referenced(files, fdt) : a = a0
  BY <1>5, FreshFacts
<1>9. PICK n \in Int : n = encode_size(bytes)
  BY SizeIsNat
<1>10. PICK y \in Inodes : /\ y = y0 /\ y.ptr = a /\ y.refs = files[f].refs
                           /\ y.locked = files[f].locked /\ y.pending = files[f].pending
                           /\ y.btime = files[f].btime
  <2>1. PICK x \in Inodes : x = files[f]
    BY <1>6
  <2> DEFINE z == inode_read(x, a, n, clock)
  <2>2. /\ z \in Inodes /\ z.ptr = a /\ z.refs = x.refs /\ z.locked = x.locked
        /\ z.pending = x.pending /\ z.btime = x.btime
    BY <1>6, InodeContent
  <2>3. z = y0
    BY <1>7, <1>8, <1>9, <2>1
  <2> HIDE DEF z, y0
  <2> QED BY <2>1, <2>2, <2>3
<1>11. PICK fs, h, t : fs = fs0 /\ h = h0 /\ t = t0
  OBVIOUS
<1>12. Flush(fd, fs, h, t)
  <2> HIDE DEF fs0, h0, t0
  <2> QED BY <1>5, <1>11
<1>13. y # NULL
  BY NullAssumption
<1>14. /\ fs \in [Names -> Inodes \cup {NULL}] /\ fs[f] = y
       /\ \A g \in Names \ {f} : fs[g] = files[g]
  <2> HIDE DEF y0
  <2> QED BY <1>6, <1>10, <1>11
<1>15. LikeFiles(files, fs)
  BY <1>4, <1>10, <1>13, <1>14 DEF LikeFiles, Exists
<1>16. /\ LikeTable(fdt, t)
       /\ \A i \in InUse(fdt) :
             t.table[i].inode.ptr = IF b # NULL /\ fdt.table[i].inode.ptr = b
                                    THEN FREED ELSE fdt.table[i].inode.ptr
  <2>1. t = Dangling(fdt, b)
    BY <1>7, <1>11
  <2> QED BY <1>6, <2>1, DanglingFacts
<1>17. h = [Freed(heap, b) EXCEPT ![a] = bytes]
  BY <1>7, <1>8, <1>11, SMTT(40)
<1>18. Replaces(files, fs, fdt, t, f, b, a)
  <2>1. \A g \in Names \ {f} : files[g] # NULL => files[g].ptr # b
    BY <1>4, <1>7, SimFSAssumption DEF IInv, Artifacts, InodePointersLive, Exists
  <2>2. \A i \in InUse(fdt) : t.table[i].inode.ptr \in Addrs =>
            t.table[i].inode.ptr = fdt.table[i].inode.ptr /\ t.table[i].inode.ptr # b
    BY <1>16, SimFSAssumption
  <2> QED BY <1>4, <1>10, <1>13, <1>14, <1>16, <2>1, <2>2 DEF Replaces, Exists
<1>19. h \in [Addrs -> Seq(Bytes) \cup {NULL}] /\ PointersLive(h, fs, t)
  <2>1. PICK gs, u, k : gs = files /\ u = fdt /\ k = heap
    OBVIOUS
  <2>2. PICK c \in Addrs \ Referenced(gs, u) : c = a
    BY <2>1
  <2>3. Replaces(gs, fs, u, t, f, b, c) /\ PointersLive(k, gs, u)
        /\ k \in [Addrs -> Seq(Bytes) \cup {NULL}]
    BY <1>6, <1>18, <2>1, <2>2
  <2>4. /\ [Freed(k, b) EXCEPT ![c] = bytes] \in [Addrs -> Seq(Bytes) \cup {NULL}]
        /\ PointersLive([Freed(k, b) EXCEPT ![c] = bytes], fs, t)
    BY <1>14, <2>3, ReplacedLive
  <2> QED BY <1>17, <2>1, <2>2, <2>4
<1>20. fd \in InUse(t) /\ fs[t.table[fd].inode.name] # NULL
  BY <1>3, <1>4, <1>13, <1>14, <1>16 DEF LikeTable
<1> QED BY <1>1, <1>12, <1>15, <1>16, <1>19, <1>20, FlushStep

LEMMA ReadInv ==
    ASSUME IInv, NEW p \in Pids, NEW fd \in Fds, Read(p, fd)
    PROVE  IInv' /\ LockStep
<1>1. undefined = "no" /\ UNCHANGED <<presence, waiting, writing, clock>>
  BY DEF Read, Ready
<1>2. DataStep
  BY ReadStep
<1>3. writing' \in [pid : Pids, fd : Fds, buf : Payloads] \cup {NULL}
  BY <1>1 DEF IInv, Tables, TypeOK
<1> QED BY <1>1, <1>2, <1>3, DataStepInv

LEMMA WriteLoopInv ==
    ASSUME IInv,
           \/ WriteGivesUp
           \/ \E p \in Pids, fd \in Fds, buf \in Payloads : WriteBegin(p, fd, buf)
    PROVE  IInv' /\ LockStep
<1>1. UNCHANGED <<files, presence, used, monitor, fdt, heap, undefined, waiting>> /\ clock' = clock
  BY DEF WriteGivesUp, WriteBegin, table
<1>2. writing' \in [pid : Pids, fd : Fds, buf : Payloads] \cup {NULL}
  BY DEF WriteGivesUp, WriteBegin
<1> QED BY <1>1, <1>2, UnchangedInv

LEMMA InitInv == Init => IInv
<1> SUFFICES ASSUME Init PROVE IInv
  OBVIOUS
<1>1. /\ files = [f \in Names |-> NULL] /\ presence = <<>> /\ used = 0
      /\ monitor = [file_counter |-> 0, bytes_counter |-> 0]
      /\ fdt = [size |-> 0, max_fd |-> 0, free_index_map |-> {}, table |-> [i \in {} |-> NULL]]
      /\ heap = [a \in Addrs |-> NULL] /\ waiting = [p \in Pids |-> NULL]
      /\ writing = NULL /\ clock = 0 /\ undefined = "no"
  BY DEF Init, fdt_init
<1>2. InUse(fdt) = {} /\ fdt.size = 0 /\ fdt.max_fd = 0
  BY <1>1 DEF InUse
<1>3. TypeOK
  <2>1. clock \in 0..MaxTime /\ <<>> \in Seq(Names)
    BY <1>1, SimFSAssumption
  <2>2. monitor \in [file_counter : Nat, bytes_counter : Int]
    BY <1>1
  <2> QED BY <1>1, <1>2, <2>1, <2>2 DEF TypeOK
<1>4. TableSound /\ TableInLimit
  <2>1. Cardinality(InUse(fdt)) = 0
    BY <1>2, FS_EmptySet
  <2>2. TableSound
    BY <1>1, <1>2, <2>1 DEF TableSound, Sound
  <2>3. TableInLimit
    BY <1>1, <1>2, SimFSAssumption DEF TableInLimit
  <2> QED BY <2>2, <2>3
<1>5. ListMatchesTable /\ FilesAreCounted
  <2>1. DOMAIN presence = {} /\ Len(presence) = 0 /\ ToSet(presence) = {}
    BY <1>1 DEF ToSet
  <2>2. \A f \in Names : ~Exists(f)
    BY <1>1 DEF Exists
  <2>3. monitor.file_counter = 0
    BY <1>1
  <2>4. IsInjective(presence)
    BY <2>1 DEF IsInjective
  <2> QED BY <2>1, <2>2, <2>3, <2>4 DEF ListMatchesTable, FilesAreCounted
<1>6. Locks
  <2>1. \A f \in Names : ~Exists(f)
    BY <1>1 DEF Exists
  <2>2. \A p \in Pids : waiting[p] = NULL
    BY <1>1
  <2> QED BY <1>2, <2>1, <2>2 DEF Locks, PendingIsOneWaiter, NoLostWakeup,
                                  RefsHaveDescriptors, CopiesAreAccessible
<1>7. Artifacts /\ Ages
  <2>1. \A f \in Names : ~Exists(f)
    BY <1>1 DEF Exists
  <2>2. DOMAIN presence = {}
    BY <1>1
  <2> QED BY <1>2, <2>1, <2>2 DEF Artifacts, InodePointersLive, CopyPointersLive,
                                  Ages, BornInThePast, ListedByAge
<1> QED BY <1>3, <1>4, <1>5, <1>6, <1>7 DEF IInv, Tables

LEMMA NextInv == IInv /\ [Next]_vars => IInv' /\ LockStep
<1> SUFFICES ASSUME IInv, [Next]_vars PROVE IInv' /\ LockStep
  OBVIOUS
<1>1. ASSUME NEW p \in Pids, NEW f \in Names, OnName(p, f) PROVE IInv' /\ LockStep
  <2>1. CASE \E lock \in BOOLEAN : OpenCreate(p, f, lock)
    BY <2>1, OpenCreateInv
  <2>2. CASE \E lock \in BOOLEAN : OpenExisting(p, f, lock)
    BY <2>2, OpenExistingInv
  <2>3. CASE OpenWaits(p, f)
    BY <2>3, OpenWaitsInv
  <2>4. CASE RemoveFile(p, f)
    BY <2>4, RemoveFileInv
  <2> QED BY <1>1, <2>1, <2>2, <2>3, <2>4 DEF OnName
<1>2. ASSUME NEW p \in Pids, NEW fd \in Fds, OnDescriptor(p, fd) PROVE IInv' /\ LockStep
  <2>1. CASE Close(p, fd)
    BY <2>1, CloseInv
  <2>2. CASE Lock(p, fd)
    BY <2>2, LockInv
  <2>3. CASE LockWaits(p, fd)
    BY <2>3, LockWaitsInv
  <2>4. CASE Unlock(p, fd)
    BY <2>4, UnlockInv
  <2>5. CASE Read(p, fd)
    BY <2>5, ReadInv
  <2>6. CASE ReadNothing(p, fd)
    BY <2>6, ReadNothingInv
  <2>7. CASE \E buf \in Payloads : Write(p, fd, buf)
    BY <2>7, WriteInv
  <2>8. CASE \E buf \in Payloads : WriteBegin(p, fd, buf)
    BY <2>8, WriteLoopInv
  <2> QED BY <1>2, <2>1, <2>2, <2>3, <2>4, <2>5, <2>6, <2>7, <2>8 DEF OnDescriptor
<1>3. ASSUME NEW p \in Pids, RemoveSession(p) PROVE IInv' /\ LockStep
  BY <1>3, RemoveSessionInv
<1>4. ASSUME UNCHANGED vars PROVE IInv' /\ LockStep
  <2>1. UNCHANGED <<files, presence, used, monitor, fdt, heap, undefined, waiting>>
        /\ clock' = clock /\ writing' = writing
    BY <1>4 DEF vars
  <2>2. writing' \in [pid : Pids, fd : Fds, buf : Payloads] \cup {NULL}
    BY <2>1 DEF IInv, Tables, TypeOK
  <2> QED BY <2>1, <2>2, UnchangedInv
<1>5. ASSUME NEW p \in Pids, Refused(p) PROVE IInv' /\ LockStep
  BY <1>4, <1>5 DEF Refused
<1>6. ASSUME NEW p \in Pids, Spurious(p) PROVE IInv' /\ LockStep
  BY <1>6, SpuriousInv
<1>7. ASSUME NEW p \in Pids, SleepAgain(p) PROVE IInv' /\ LockStep
  BY <1>7, SleepAgainInv
<1>8. ASSUME NEW p \in Pids, WakeUp(p) PROVE IInv' /\ LockStep
  BY <1>8, WakeUpInv
<1>9. ASSUME WriteStep PROVE IInv' /\ LockStep
  BY <1>9, WriteLoopInv, EvictFailsInv, EvictInv, WriteEndInv DEF WriteStep
<1>10. ASSUME Tick PROVE IInv' /\ LockStep
  BY <1>10, TickInv
<1>11. ASSUME Halted PROVE IInv' /\ LockStep
  BY <1>4, <1>11 DEF Halted
<1> QED BY <1>1, <1>2, <1>3, <1>4, <1>5, <1>6, <1>7, <1>8, <1>9, <1>10, <1>11 DEF Next

(* The inductive invariant holds in every reachable state of the file      *)
(* system, whatever its limits, its policy and its clients.                *)
THEOREM FileSystemInvariant == Spec => []IInv
BY InitInv, NextInv, PTL DEF Spec

(* The head of a list in the order of creation is the victim of FIFO. *)
LEMMA HeadIsOldest ==
    ASSUME IInv
    PROVE  OldestFirst
<1>1. ListedByAge
  BY DEF IInv, Ages
<1>2. ASSUME replacement_policy = "FIFO", presence # <<>>
      PROVE  Victim = Head(presence)
  <2> DEFINE I == {i \in DOMAIN presence : \A j \in DOMAIN presence :
                       victim_key(files[presence[i]]) <= victim_key(files[presence[j]])}
  <2>1. /\ presence \in Seq(Names) /\ DOMAIN presence = 1..Len(presence)
        /\ Len(presence) \in Nat \ {0}
    BY <1>2 DEF IInv, Tables, TypeOK
  <2>2. \A i \in DOMAIN presence : files[presence[i]].btime \in Nat
    BY <2>1 DEF IInv, Tables, TypeOK, ListMatchesTable, ToSet, Exists, Inodes
  <2>3. \A x : victim_key(x) = x.btime
    BY <1>2 DEF victim_key
  <2>4. 1 \in I
    BY <1>1, <2>1, <2>2, <2>3 DEF ListedByAge
  <2>5. I \in SUBSET Nat /\ \A i \in I : i >= 1
    BY <2>1
  <2>6. Victim = presence[Min(I)]
    BY DEF Victim
  <2> HIDE DEF I
  <2>7. Min(I) = 1
    <3>1. Min(I) \in I /\ Min(I) <= 1
      BY <2>4, <2>5, MinIsLeast
    <3>2. Min(I) \in Nat /\ Min(I) >= 1
      BY <2>5, <3>1
    <3> QED BY <3>1, <3>2
  <2> QED BY <2>1, <2>6, <2>7
<1> QED BY <1>1, <1>2 DEF OldestFirst, ListedByAge

(* Every variable keeps its type: in particular the clock stays in its     *)
(* bound and an inode never has a negative number of references.           *)
THEOREM FileSystemTypes == Spec => []TypeOK
<1>1. IInv => TypeOK
  BY DEF IInv, Tables
<1> QED BY <1>1, FileSystemInvariant, PTL

(* The presence list and the tree of inodes agree. *)
THEOREM ListIsTheTable == Spec => []ListMatchesTable
<1>1. IInv => ListMatchesTable
  BY DEF IInv, Tables
<1> QED BY <1>1, FileSystemInvariant, PTL

(* file_removed of the monitor never finds its counter at zero. *)
THEOREM EveryFileIsCounted == Spec => []FilesAreCounted
<1>1. IInv => FilesAreCounted
  BY DEF IInv
<1> QED BY <1>1, FileSystemInvariant, PTL

(* One thread at most sleeps on an inode, and its pending lock is counted. *)
THEOREM OneWaiterPerFile == Spec => []PendingIsOneWaiter
<1>1. IInv => PendingIsOneWaiter
  BY DEF IInv, Locks
<1> QED BY <1>1, FileSystemInvariant, PTL

(* A waiter whose file became lockable was signalled. *)
THEOREM WaitersAreSignalled == Spec => []NoLostWakeup
<1>1. IInv => NoLostWakeup
  BY DEF IInv, Locks
<1> QED BY <1>1, FileSystemInvariant, PTL

(* The references of a file are covered by open descriptors. *)
THEOREM ReferencesAreCovered == Spec => []RefsHaveDescriptors
<1>1. IInv => RefsHaveDescriptors
  BY DEF IInv, Locks
<1> QED BY <1>1, FileSystemInvariant, PTL

(* No descriptor refers to a copy locked by somebody else. *)
THEOREM CopiesStayAccessible == Spec => []CopiesAreAccessible
<1>1. IInv => CopiesAreAccessible
  BY DEF IInv, Locks
<1> QED BY <1>1, FileSystemInvariant, PTL

(* A file never points to freed memory or to the content of another one,   *)
(* although its descriptors may.                                           *)
THEOREM ContentsStayLive == Spec => []InodePointersLive
<1>1. IInv => InodePointersLive
  BY DEF IInv, Artifacts
<1> QED BY <1>1, FileSystemInvariant, PTL

(* The list is in the order of creation, and FIFO evicts its head. *)
THEOREM FifoEvictsTheOldest == Spec => []OldestFirst
<1>1. IInv => OldestFirst
  BY HeadIsOldest
<1> QED BY <1>1, FileSystemInvariant, PTL

(* A lock passes from one pid to another through an unlock only. *)
THEOREM LocksAreExclusive == Spec => LockIsExclusive
<1>1. IInv /\ [Next]_vars => [LockPasses]_vars
  BY NextInv DEF LockStep
<1>2. Spec => [][LockPasses]_vars
  BY <1>1, FileSystemInvariant, PTL DEF Spec
<1> QED BY <1>2 DEF LockIsExclusive, LockPasses

(* Who gets the lock of a file it has open holds it alone. *)
THEOREM LockersAreAlone == Spec => LockedAlone
<1>1. IInv /\ [Next]_vars => [LockTaken]_vars
  BY NextInv DEF LockStep
<1>2. Spec => [][LockTaken]_vars
  BY <1>1, FileSystemInvariant, PTL DEF Spec
<1> QED BY <1>2 DEF LockedAlone, LockTaken

(* While a pid waits for a file, the references it waits for shrink. *)
THEOREM WaitsGetShorter == Spec => WaitedRefsShrink
<1>1. IInv /\ [Next]_vars => [WaitShrinks]_vars
  BY NextInv DEF LockStep
<1>2. Spec => [][WaitShrinks]_vars
  BY <1>1, FileSystemInvariant, PTL DEF Spec
<1> QED BY <1>2 DEF WaitedRefsShrink, WaitShrinks
=============================================================================
