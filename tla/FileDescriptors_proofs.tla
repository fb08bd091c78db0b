------------------------ MODULE FileDescriptors_proofs ------------------------
(***************************************************************************)
(* For every set of pids, of inodes and every limit: the table stays sound *)
(* and implements the allocator of the least unused descriptor.            *)
(***************************************************************************)
EXTENDS FileDescriptors, FileDescriptorTable_proofs

(* TypeOK and TableSound together are inductive: TypeOK alone is not,      *)
(* because only a sound table keeps the next descriptor below Limit.       *)
Inv == TypeOK /\ TableSound

LEMMA KnownHere ==
    ASSUME Inv, NEW fd \in Nat
    PROVE  Known(fdt, fd) <=> fd \in InUse(fdt)
BY KnownIsInUse, FdAssumption DEF Inv, TypeOK, TableSound

(* The next descriptor is below the limit as long as the table is not      *)
(* full.                                                                   *)
LEMMA NextBelowLimit ==
    ASSUME Inv, fdt.size # Limit
    PROVE  get_file_descriptor(fdt) \in 0..Limit - 1
BY NextIsCounted, FdAssumption DEF Inv, TypeOK, TableSound

LEMMA PutInv ==
    ASSUME Inv, NEW pid \in Pids, NEW inode \in Inodes, Put(pid, inode)
    PROVE  Inv'
<1>1. CASE UNCHANGED fdt
  BY <1>1 DEF Inv, TypeOK, TableSound
<1>2. CASE fdt.size # Limit /\ fdt' = fdt_put(fdt, [owner |-> pid, inode |-> inode])
  <2> DEFINE e == [owner |-> pid, inode |-> inode]
             fd == get_file_descriptor(fdt)
  <2>1. e \in Entries /\ e # NULL
    BY FdAssumption DEF Entries
  <2>2. fdt.max_fd \in Nat /\ Sound(fdt) /\ fd \in 0..Limit - 1
    BY NextBelowLimit, FdAssumption, <1>2 DEF Inv, TypeOK, TableSound
  <2>3. /\ Sound(fdt')
        /\ fdt'.max_fd = IF fd > fdt.max_fd THEN fd ELSE fdt.max_fd
        /\ fdt'.size = fdt.size + 1
        /\ InUse(fdt') = InUse(fdt) \cup {fd}
        /\ fdt'.table[fd] = e
        /\ \A i \in InUse(fdt) : fdt'.table[i] = fdt.table[i]
    BY <1>2, <2>1, <2>2, PutSound
  <2>4. fdt'.max_fd \in 0..Limit - 1
    BY <2>2, <2>3 DEF Inv, TypeOK
  <2>5. fdt'.size \in 0..Limit
    BY <1>2, <2>3, FdAssumption DEF Inv, TypeOK
  <2>6. DOMAIN fdt'.table \subseteq 0..Limit - 1
    BY <2>3, <2>4, FdAssumption DEF Sound
  <2>7. ASSUME NEW i \in DOMAIN fdt'.table
        PROVE  fdt'.table[i] \in Entries \cup {NULL}
    BY <2>1, <2>3 DEF InUse, Inv, TypeOK
  <2>8. fdt'.free_index_map \subseteq 0..Limit - 1
    BY <2>3, <2>6 DEF Sound
  <2> QED BY <2>3, <2>4, <2>5, <2>6, <2>7, <2>8 DEF Inv, TypeOK, TableSound
<1> QED BY <1>1, <1>2 DEF Put

LEMMA RemoveInv ==
    ASSUME Inv, NEW pid \in Pids, NEW fd \in Fds, Remove(pid, fd)
    PROVE  Inv'
<1>1. CASE UNCHANGED fdt
  BY <1>1 DEF Inv, TypeOK, TableSound
<1>2. CASE fdt_error(fdt, fd, pid) = "ok" /\ fdt' = remove_fd(fdt, fd)
  <2>1. fd \in InUse(fdt)
    BY <1>2, KnownHere, FdAssumption DEF fdt_error
  <2>2. fdt.max_fd \in Nat /\ Sound(fdt)
    BY FdAssumption DEF Inv, TypeOK, TableSound
  <2>3. /\ Sound(fdt') /\ fdt'.max_fd = fdt.max_fd /\ fdt'.size = fdt.size - 1
        /\ InUse(fdt') = InUse(fdt) \ {fd}
        /\ \A i \in InUse(fdt') : fdt'.table[i] = fdt.table[i]
    BY <1>2, <2>1, <2>2, RemoveSound
  <2>4. fdt'.max_fd \in 0..Limit - 1
    BY <2>3 DEF Inv, TypeOK
  <2>5. fdt'.size \in 0..Limit
    <3>1. fdt'.size \in Nat
      BY <2>2, <2>3, SoundFinite
    <3> QED BY <2>3, <3>1, FdAssumption DEF Inv, TypeOK
  <2>6. DOMAIN fdt'.table \subseteq 0..Limit - 1
    BY <2>3, <2>4, FdAssumption DEF Sound
  <2>7. ASSUME NEW i \in DOMAIN fdt'.table
        PROVE  fdt'.table[i] \in Entries \cup {NULL}
    BY <2>3 DEF InUse, Inv, TypeOK
  <2>8. fdt'.free_index_map \subseteq 0..Limit - 1
    BY <2>3, <2>6 DEF Sound
  <2> QED BY <2>3, <2>4, <2>5, <2>6, <2>7, <2>8 DEF Inv, TypeOK, TableSound
<1> QED BY <1>1, <1>2 DEF Remove, Refuse

LEMMA RemovePidInv ==
    ASSUME Inv, NEW pid \in Pids, RemovePid(pid)
    PROVE  Inv'
<1>1. fdt.max_fd \in Nat /\ Sound(fdt)
  BY FdAssumption DEF Inv, TypeOK, TableSound
<1>2. /\ Sound(fdt') /\ fdt'.max_fd = fdt.max_fd /\ fdt'.size <= fdt.size
      /\ InUse(fdt') = {fd \in InUse(fdt) : fdt.table[fd].owner # pid}
      /\ \A i \in InUse(fdt') : fdt'.table[i] = fdt.table[i]
  BY <1>1, RemovePidSound DEF RemovePid
<1>3. fdt'.max_fd \in 0..Limit - 1
  BY <1>2 DEF Inv, TypeOK
<1>4. fdt'.size \in 0..Limit
  <2>1. fdt'.size \in Nat
    BY <1>1, <1>2, SoundFinite
  <2> QED BY <1>2, <2>1, FdAssumption DEF Inv, TypeOK
<1>5. DOMAIN fdt'.table \subseteq 0..Limit - 1
  BY <1>2, <1>3, FdAssumption DEF Sound
<1>6. ASSUME NEW i \in DOMAIN fdt'.table
      PROVE  fdt'.table[i] \in Entries \cup {NULL}
  BY <1>2 DEF InUse, Inv, TypeOK
<1>7. fdt'.free_index_map \subseteq 0..Limit - 1
  BY <1>2, <1>5 DEF Sound
<1> QED BY <1>2, <1>3, <1>4, <1>5, <1>6, <1>7 DEF Inv, TypeOK, TableSound

LEMMA InitInv == Init => Inv
<1> SUFFICES ASSUME Init PROVE Inv
  OBVIOUS
<1>1. fdt.size = 0 /\ fdt.max_fd = 0 /\ fdt.free_index_map = {} /\ DOMAIN fdt.table = {}
  BY DEF Init, fdt_init
<1>2. InUse(fdt) = {}
  BY <1>1 DEF InUse
<1> QED BY <1>1, <1>2, FS_EmptySet, FdAssumption DEF Inv, TypeOK, TableSound, Sound

LEMMA NextInv == Inv /\ [Next]_vars => Inv'
<1> SUFFICES ASSUME Inv, [Next]_vars PROVE Inv'
  OBVIOUS
<1>1. ASSUME NEW pid \in Pids, NEW inode \in Inodes, Put(pid, inode) PROVE Inv'
  BY <1>1, PutInv
<1>2. ASSUME NEW pid \in Pids, NEW fd \in Fds, Get(pid, fd) PROVE Inv'
  <2>1. UNCHANGED fdt
    BY <1>2 DEF Get, Refuse
  <2> QED BY <2>1 DEF Inv, TypeOK, TableSound
<1>3. ASSUME NEW pid \in Pids, NEW fd \in Fds, Remove(pid, fd) PROVE Inv'
  BY <1>3, RemoveInv
<1>4. ASSUME NEW pid \in Pids, RemovePid(pid) PROVE Inv'
  BY <1>4, RemovePidInv
<1>5. CASE UNCHANGED vars
  BY <1>5 DEF vars, Inv, TypeOK, TableSound
<1> QED BY <1>1, <1>2, <1>3, <1>4, <1>5 DEF Next

(* In every reachable state the table has its type and its holes, entries  *)
(* and counters agree (put, remove and remove_pid in any order).           *)
THEOREM TableInvariant == Spec => [](TypeOK /\ TableSound)
<1>1. Init => Inv
  BY InitInv
<1>2. Inv /\ [Next]_vars => Inv'
  BY NextInv
<1>3. Inv => TypeOK /\ TableSound
  BY DEF Inv
<1> QED BY <1>1, <1>2, <1>3, PTL DEF Spec
-----------------------------------------------------------------------------
(* The refinement.  The abstract map is defined exactly on the descriptors *)
(* in use, it is full when the table's counter says so, and the abstract   *)
(* choice of the least unused descriptor is what get_file_descriptor       *)
(* computes.                                                               *)
LEMMA AbstractMap ==
    ASSUME Inv
    PROVE  /\ DOMAIN open = InUse(fdt)
           /\ \A fd \in InUse(fdt) : open[fd] = fdt.table[fd]
BY DEF open

LEMMA AbstractFull ==
    ASSUME Inv, fdt.size = Limit
    PROVE  Allocator!Unused = {}
<1>1. fdt.max_fd \in Nat /\ Sound(fdt) /\ Limit \in Nat
  BY FdAssumption DEF Inv, TypeOK, TableSound
<1>2. InUse(fdt) \in SUBSET (0..Limit - 1)
  BY DEF Inv, TypeOK, InUse
<1>3. IsFiniteSet(0..Limit - 1) /\ Cardinality(0..Limit - 1) = Limit
  <2>1. 0 \in Int /\ Limit - 1 \in Int /\ (0 > Limit - 1 <=> Limit = 0) /\ (Limit - 1) - 0 + 1 = Limit
    BY <1>1
  <2>2. /\ IsFiniteSet(0..Limit - 1)
        /\ Cardinality(0..Limit - 1) = IF 0 > Limit - 1 THEN 0 ELSE (Limit - 1) - 0 + 1
    BY <2>1, FS_Interval
  <2> QED BY <2>1, <2>2
<1>4. Cardinality(InUse(fdt)) = Limit
  BY <1>1 DEF Sound
<1>5. InUse(fdt) = 0..Limit - 1
  BY <1>2, <1>3, <1>4, FS_Subset
<1> QED BY <1>5, AbstractMap DEF Allocator!Unused

LEMMA AbstractChoice ==
    ASSUME Inv, fdt.size # Limit
    PROVE  /\ Allocator!Unused # {}
           /\ Allocator!LeastUnused = get_file_descriptor(fdt)
<1> DEFINE fd == get_file_descriptor(fdt)
           S == (0..Limit - 1) \ DOMAIN open
<1>1. fdt.max_fd \in Nat /\ Sound(fdt)
  BY FdAssumption DEF Inv, TypeOK, TableSound
<1>2. fd \in 0..Limit - 1 /\ fd \in Nat
  BY NextBelowLimit
<1>3. fd \in S
  BY <1>1, <1>2, LeastUnusedDescriptor, AbstractMap
<1>4. ASSUME NEW y \in S PROVE fd <= y
  <2>1. y \in Nat /\ y \notin InUse(fdt)
    BY <1>4, AbstractMap, FdAssumption
  <2>2. y \notin 0..fd - 1
    BY <1>1, <2>1, LeastUnusedDescriptor
  <2> QED BY <1>2, <2>1, <2>2
<1>5. S \in SUBSET Nat /\ S # {}
  BY <1>3, FdAssumption
<1>6. Min(S) \in S /\ \A y \in S : Min(S) <= y
  BY <1>5, MinIsLeast
<1>7. Min(S) = fd
  <2>1. Min(S) <= fd /\ fd <= Min(S) /\ Min(S) \in Nat
    BY <1>3, <1>4, <1>5, <1>6
  <2> QED BY <1>2, <2>1
<1>8. Allocator!LeastUnused = Min(S)
  BY DEF Allocator!LeastUnused, Allocator!Unused, Allocator!Min, Min
<1> QED BY <1>3, <1>7, <1>8 DEF Allocator!Unused

LEMMA PutRefines ==
    ASSUME Inv, NEW pid \in Pids, NEW inode \in Inodes, Put(pid, inode)
    PROVE  Allocator!Put(pid, inode)
<1>1. fdt.max_fd \in Nat /\ Sound(fdt) /\ fdt.size \in 0..Limit
  BY FdAssumption DEF Inv, TypeOK, TableSound
<1>2. CASE fdt.size = Limit /\ ret' = <<"error", "EMFILE">> /\ UNCHANGED fdt
  BY <1>2, AbstractFull DEF Allocator!Put, open
<1>3. CASE /\ fdt.size # Limit
           /\ ret' = <<"fd", get_file_descriptor(fdt)>>
           /\ fdt' = fdt_put(fdt, [owner |-> pid, inode |-> inode])
  <2> DEFINE e == [owner |-> pid, inode |-> inode]
             fd == get_file_descriptor(fdt)
  <2>1. e # NULL
    BY FdAssumption
  <2>2. /\ InUse(fdt') = InUse(fdt) \cup {fd}
        /\ fdt'.table[fd] = e
        /\ \A i \in InUse(fdt) : fdt'.table[i] = fdt.table[i]
    BY <1>1, <1>3, <2>1, PutSound
  <2>3. fd \notin InUse(fdt)
    BY <1>1, LeastUnusedDescriptor
  <2>4. Allocator!Unused # {} /\ Allocator!LeastUnused = fd
    BY <1>3, AbstractChoice
  <2>5. open' = [i \in DOMAIN open \cup {fd} |-> IF i = fd THEN e ELSE open[i]]
    BY <2>2, <2>3, AbstractMap DEF open
  <2> QED BY <1>3, <2>4, <2>5 DEF Allocator!Put
<1> QED BY <1>2, <1>3 DEF Put

LEMMA RefuseRefines ==
    ASSUME Inv, NEW pid \in Pids, NEW fd \in Fds, Refuse(pid, fd)
    PROVE  Allocator!Refuse(pid, fd)
<1>1. UNCHANGED open
  BY DEF Refuse, open
<1>2. Known(fdt, fd) <=> fd \in DOMAIN open
  BY KnownHere, AbstractMap, FdAssumption
<1>3. fd \in DOMAIN open => open[fd] = fdt.table[fd]
  BY AbstractMap
<1>4. CASE ~Known(fdt, fd)
  BY <1>1, <1>2, <1>4 DEF Refuse, fdt_error, Allocator!Refuse
<1>5. CASE Known(fdt, fd)
  BY <1>1, <1>2, <1>3, <1>5 DEF Refuse, fdt_error, Allocator!Refuse
<1> QED BY <1>4, <1>5

(* A descriptor the table accepts is the caller's in the abstract map.     *)
LEMMA AcceptedIsMine ==
    ASSUME Inv, NEW pid \in Pids, NEW fd \in Fds, fdt_error(fdt, fd, pid) = "ok"
    PROVE  Allocator!Mine(pid, fd) /\ fd \in InUse(fdt)
<1>1. Known(fdt, fd) <=> fd \in DOMAIN open
  BY KnownHere, AbstractMap, FdAssumption
<1>2. Known(fdt, fd) /\ fdt.table[fd].owner = pid
  BY DEF fdt_error
<1> QED BY <1>1, <1>2, AbstractMap DEF Allocator!Mine

LEMMA RemoveRefines ==
    ASSUME Inv, NEW pid \in Pids, NEW fd \in Fds, Remove(pid, fd)
    PROVE  Allocator!Remove(pid, fd)
<1>1. CASE Refuse(pid, fd)
  BY <1>1, RefuseRefines DEF Allocator!Remove
<1>2. CASE fdt_error(fdt, fd, pid) = "ok" /\ fdt' = remove_fd(fdt, fd) /\ ret' = <<"ok">>
  <2>1. fdt.max_fd \in Nat /\ Sound(fdt)
    BY FdAssumption DEF Inv, TypeOK, TableSound
  <2>2. Allocator!Mine(pid, fd) /\ fd \in InUse(fdt)
    BY <1>2, AcceptedIsMine
  <2>3. /\ InUse(fdt') = InUse(fdt) \ {fd}
        /\ \A i \in InUse(fdt') : fdt'.table[i] = fdt.table[i]
    BY <1>2, <2>1, <2>2, RemoveSound
  <2>4. open' = Allocator!Without({fd})
    BY <2>3, AbstractMap DEF open, Allocator!Without
  <2> QED BY <1>2, <2>2, <2>4 DEF Allocator!Remove
<1> QED BY <1>1, <1>2 DEF Remove

LEMMA RemovePidRefines ==
    ASSUME Inv, NEW pid \in Pids, RemovePid(pid)
    PROVE  Allocator!RemovePid(pid)
<1>1. fdt.max_fd \in Nat /\ Sound(fdt)
  BY FdAssumption DEF Inv, TypeOK, TableSound
<1>2. /\ InUse(fdt') = {fd \in InUse(fdt) : fdt.table[fd].owner # pid}
      /\ \A i \in InUse(fdt') : fdt'.table[i] = fdt.table[i]
  BY <1>1, RemovePidSound DEF RemovePid
<1>3. InUse(fdt') = DOMAIN open \ {fd \in DOMAIN open : open[fd].owner = pid}
  BY <1>2, AbstractMap
<1>4. open' = Allocator!Without({fd \in DOMAIN open : open[fd].owner = pid})
  BY <1>2, <1>3, AbstractMap DEF open, Allocator!Without
<1> QED BY <1>4 DEF RemovePid, Allocator!RemovePid

(* The table implements the allocator: each open gets the least unused     *)
(* descriptor, each lookup and close answers as the abstract map does, and *)
(* the end of a session drops exactly the descriptors of its pid.          *)
THEOREM TableImplementsAllocator == Spec => LeastDescriptorFirst
<1>1. Init => Allocator!Init
  <2> SUFFICES ASSUME Init PROVE Allocator!Init
    OBVIOUS
  <2>1. InUse(fdt) = {}
    BY DEF Init, fdt_init, InUse
  <2>2. open = [fd \in {} |-> 0]
    BY <2>1 DEF open
  <2> QED BY <2>2 DEF Init, Allocator!Init
<1>2. Inv /\ [Next]_vars => [Allocator!Next]_<<open, ret>>
  <2> SUFFICES ASSUME Inv, [Next]_vars PROVE [Allocator!Next]_<<open, ret>>
    OBVIOUS
  <2>1. ASSUME NEW pid \in Pids, NEW inode \in Inodes, Put(pid, inode)
        PROVE  Allocator!Next
    BY <2>1, PutRefines DEF Allocator!Next
  <2>2. ASSUME NEW pid \in Pids, NEW fd \in Fds, Get(pid, fd)
        PROVE  Allocator!Next
    <3>1. CASE Refuse(pid, fd)
      BY <3>1, RefuseRefines DEF Allocator!Next, Allocator!Get
    <3>2. CASE /\ fdt_error(fdt, fd, pid) = "ok"
               /\ ret' = <<"inode", fdt_get(fdt, fd)>>
               /\ UNCHANGED fdt
      <4>1. Allocator!Mine(pid, fd) /\ fd \in InUse(fdt)
        BY <3>2, AcceptedIsMine
      <4>2. fdt_get(fdt, fd) = open[fd].inode
        BY <4>1, AbstractMap DEF fdt_get
      <4>3. UNCHANGED open
        BY <3>2 DEF open
      <4> QED BY <3>2, <4>1, <4>2, <4>3 DEF Allocator!Next, Allocator!Get
    <3> QED BY <2>2, <3>1, <3>2 DEF Get
  <2>3. ASSUME NEW pid \in Pids, NEW fd \in Fds, Remove(pid, fd)
        PROVE  Allocator!Next
    BY <2>3, RemoveRefines DEF Allocator!Next
  <2>4. ASSUME NEW pid \in Pids, RemovePid(pid)
        PROVE  Allocator!Next
    BY <2>4, RemovePidRefines DEF Allocator!Next
  <2>5. CASE UNCHANGED vars
    BY <2>5 DEF vars, open
  <2> QED BY <2>1, <2>2, <2>3, <2>4, <2>5 DEF Next
<1>3. Spec => []Inv
  BY TableInvariant, PTL DEF Inv
<1> QED BY <1>1, <1>2, <1>3, PTL DEF Spec, LeastDescriptorFirst, Allocator!Spec
=============================================================================
