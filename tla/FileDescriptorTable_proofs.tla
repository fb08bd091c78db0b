---------------------- MODULE FileDescriptorTable_proofs ----------------------
(***************************************************************************)
(* Lemmas about the operators of the file descriptor table: each of them   *)
(* keeps a sound table sound, and a sound table hands out the least unused *)
(* descriptor.  They are used by the proofs about the table alone          *)
(* (FileDescriptors_proofs) and about the whole file system.               *)
(***************************************************************************)
EXTENDS FileDescriptorTable, FiniteSetTheorems, TLAPS

(* A non-empty set of naturals has a least element, and Min is that        *)
(* element (the root of the free index map's heap).                        *)
LEMMA MinIsLeast ==
    ASSUME NEW S \in SUBSET Nat, S # {}
    PROVE  Min(S) \in S /\ \A y \in S : Min(S) <= y
<1>1. \E x \in S : \A y \in S : x <= y
  <2>1. \E x \in S : \A y \in S : <<y, x>> \notin OpToRel(<, Nat)
    BY WFMin, NatLessThanWellFounded
  <2>2. PICK x \in S : \A y \in S : <<y, x>> \notin OpToRel(<, Nat)
    BY <2>1
  <2>3. ASSUME NEW y \in S PROVE x <= y
    <3>1. ~(y < x)
      BY <2>2 DEF OpToRel
    <3> QED BY <3>1
  <2> QED BY <2>3
<1> QED BY <1>1 DEF Min
-----------------------------------------------------------------------------
(* In a sound table everything that is counted is finite. *)
LEMMA SoundFinite ==
    ASSUME NEW t, t.max_fd \in Nat, Sound(t)
    PROVE  /\ IsFiniteSet(DOMAIN t.table)
           /\ DOMAIN t.table \subseteq 0..t.max_fd
           /\ IsFiniteSet(InUse(t))
           /\ IsFiniteSet(t.free_index_map)
           /\ t.size \in Nat
<1>1. IsFiniteSet(0..t.max_fd)
  BY FS_Interval
<1>2. DOMAIN t.table \in SUBSET (0..t.max_fd)
  BY DEF Sound
<1>3. IsFiniteSet(DOMAIN t.table)
  BY <1>1, <1>2, FS_Subset
<1>4. InUse(t) \in SUBSET (DOMAIN t.table) /\ t.free_index_map \in SUBSET (DOMAIN t.table)
  BY DEF InUse, Sound
<1>5. IsFiniteSet(InUse(t)) /\ IsFiniteSet(t.free_index_map)
  BY <1>3, <1>4, FS_Subset
<1>6. t.size \in Nat
  BY <1>5, FS_CardinalityType DEF Sound
<1> QED BY <1>2, <1>3, <1>5, <1>6

(* Without holes every slot is in use, so the array ends at size - 1. *)
LEMMA NoHoles ==
    ASSUME NEW t, t.max_fd \in Nat, Sound(t), t.free_index_map = {}
    PROVE  /\ InUse(t) = DOMAIN t.table
           /\ DOMAIN t.table = 0..t.size - 1
           /\ t.size # 0 => t.size = t.max_fd + 1
           /\ t.size = 0 => t.max_fd = 0
<1>1. InUse(t) = DOMAIN t.table
  BY DEF InUse, Sound
<1>2. CASE DOMAIN t.table = 0..t.max_fd
  <2>1. Cardinality(0..t.max_fd) = t.max_fd + 1
    BY FS_Interval
  <2>2. t.size = t.max_fd + 1
    BY <1>1, <1>2, <2>1 DEF Sound
  <2> QED BY <1>1, <1>2, <2>2
<1>3. CASE DOMAIN t.table = {} /\ t.max_fd = 0
  <2>1. t.size = 0
    BY <1>1, <1>3, FS_EmptySet DEF Sound
  <2> QED BY <1>1, <1>3, <2>1
<1> QED BY <1>2, <1>3 DEF Sound

(* The descriptor handed out is unused, everything below it is in use, and *)
(* it is at most one past the array: the least unused descriptor, whose    *)
(* slot exists or is provided by the realloc.                              *)
LEMMA LeastUnusedDescriptor ==
    ASSUME NEW t, t.max_fd \in Nat, Sound(t)
    PROVE  /\ get_file_descriptor(t) \in Nat
           /\ get_file_descriptor(t) \notin InUse(t)
           /\ \A i \in 0..get_file_descriptor(t) - 1 : i \in InUse(t)
           /\ t.free_index_map # {} => get_file_descriptor(t) \in t.free_index_map
           /\ t.free_index_map = {} => get_file_descriptor(t) = t.size
<1>1. CASE t.free_index_map # {}
  <2> DEFINE fd == Min(t.free_index_map)
  <2>1. get_file_descriptor(t) = fd
    BY <1>1 DEF get_file_descriptor
  <2>2. t.free_index_map \in SUBSET Nat
    BY SoundFinite DEF Sound
  <2>3. fd \in t.free_index_map /\ \A y \in t.free_index_map : fd <= y
    BY <1>1, <2>2, MinIsLeast
  <2>4. fd \in Nat /\ fd \in DOMAIN t.table /\ t.table[fd] = NULL
    BY <2>2, <2>3 DEF Sound
  <2>5. DOMAIN t.table = 0..t.max_fd
    BY <2>4 DEF Sound
  <2>6. ASSUME NEW i \in 0..fd - 1 PROVE i \in InUse(t)
    <3>1. i \in DOMAIN t.table /\ i \notin t.free_index_map
      BY <2>3, <2>4, <2>5
    <3> QED BY <3>1 DEF InUse, Sound
  <2> QED BY <1>1, <2>1, <2>3, <2>4, <2>6 DEF InUse
<1>2. CASE t.free_index_map = {}
  <2>1. get_file_descriptor(t) = t.size /\ t.size \in Nat
    BY <1>2, SoundFinite DEF get_file_descriptor
  <2>2. InUse(t) = 0..t.size - 1
    BY <1>2, NoHoles
  <2> QED BY <1>2, <2>1, <2>2
<1> QED BY <1>1, <1>2
(* A known descriptor is one in use. *)
LEMMA KnownIsInUse ==
    ASSUME NEW t, t.max_fd \in Nat, Sound(t), NEW fd \in Nat
    PROVE  Known(t, fd) <=> fd \in InUse(t)
<1>1. CASE fd \in InUse(t)
  <2>1. t.size # 0
    BY <1>1, SoundFinite, FS_EmptySet DEF Sound
  <2>2. fd \in 0..t.max_fd
    BY <1>1, SoundFinite DEF InUse
  <2> QED BY <1>1, <2>1, <2>2 DEF Known, InUse
<1>2. CASE fd \notin InUse(t)
  <2> SUFFICES ASSUME Known(t, fd) PROVE FALSE
    BY <1>2
  <2>1. DOMAIN t.table # {}
    BY FS_EmptySet DEF Sound, InUse, Known
  <2>2. fd \in DOMAIN t.table
    BY <2>1 DEF Sound, Known
  <2> QED BY <1>2, <2>2 DEF InUse, Known
<1> QED BY <1>1, <1>2

(* A descriptor that is accepted is one of the caller. *)
LEMMA AcceptedIsOwned ==
    ASSUME NEW t, t.max_fd \in Nat, Sound(t), NEW fd \in Nat, NEW pid,
           fdt_error(t, fd, pid) = "ok"
    PROVE  fd \in InUse(t) /\ t.table[fd].owner = pid
<1>1. Known(t, fd) /\ t.table[fd].owner = pid
  BY DEF fdt_error
<1> QED BY <1>1, KnownIsInUse

(* Everything below the next descriptor is in use and counted by size. *)
LEMMA NextIsCounted ==
    ASSUME NEW t, t.max_fd \in Nat, Sound(t)
    PROVE  get_file_descriptor(t) \in Nat /\ get_file_descriptor(t) <= t.size
<1> DEFINE fd == get_file_descriptor(t)
<1>1. fd \in Nat /\ 0..fd - 1 \in SUBSET InUse(t)
  BY LeastUnusedDescriptor
<1>2. IsFiniteSet(InUse(t)) /\ t.size = Cardinality(InUse(t))
  BY SoundFinite DEF Sound
<1>3. Cardinality(0..fd - 1) <= t.size
  BY <1>1, <1>2, FS_Subset
<1>4. Cardinality(0..fd - 1) = fd
  BY <1>1, FS_Interval
<1> QED BY <1>1, <1>3, <1>4

(* A table that differs only in the content of its entries is sound too. *)
LEMMA SameSlotsSound ==
    ASSUME NEW t, NEW u, Sound(t),
           u.size = t.size, u.max_fd = t.max_fd, u.free_index_map = t.free_index_map,
           DOMAIN u.table = DOMAIN t.table,
           \A fd \in DOMAIN t.table : u.table[fd] = NULL <=> t.table[fd] = NULL
    PROVE  Sound(u) /\ InUse(u) = InUse(t)
<1>1. InUse(u) = InUse(t)
  BY DEF InUse
<1> QED BY <1>1 DEF Sound
-----------------------------------------------------------------------------
(* A put into a sound table adds exactly the new entry, at the descriptor  *)
(* it returns, and leaves a sound table.                                   *)
LEMMA PutSound ==
    ASSUME NEW t, t.max_fd \in Nat, Sound(t), NEW entry, entry # NULL
    PROVE  LET fd == get_file_descriptor(t)
               u  == fdt_put(t, entry)
           IN  /\ Sound(u)
               /\ u.max_fd = IF fd > t.max_fd THEN fd ELSE t.max_fd
               /\ u.size = t.size + 1
               /\ InUse(u) = InUse(t) \cup {fd}
               /\ u.table[fd] = entry
               /\ \A i \in InUse(t) : u.table[i] = t.table[i]
<1> DEFINE fd == get_file_descriptor(t)
           u  == fdt_put(t, entry)
<1>1. /\ fd \in Nat /\ fd \notin InUse(t) /\ t.size \in Nat
      /\ IsFiniteSet(InUse(t))
  BY LeastUnusedDescriptor, SoundFinite
<1>2. /\ u.size = t.size + 1
      /\ u.max_fd = IF fd > t.max_fd THEN fd ELSE t.max_fd
      /\ u.free_index_map = t.free_index_map \ {fd}
      /\ u.table = IF t.max_fd = 0 \/ fd > t.max_fd
                   THEN [i \in 0..fd |-> IF i = fd THEN entry ELSE t.table[i]]
                   ELSE [t.table EXCEPT ![fd] = entry]
  BY DEF fdt_put
<1>3. /\ DOMAIN u.table = 0..u.max_fd
      /\ DOMAIN u.table = DOMAIN t.table \cup {fd}
      /\ \A i \in DOMAIN u.table : u.table[i] = IF i = fd THEN entry ELSE t.table[i]
  <2>1. CASE t.free_index_map # {}
    <3>1. fd \in t.free_index_map
      BY <2>1, LeastUnusedDescriptor
    <3>2. DOMAIN t.table = 0..t.max_fd /\ fd \in 0..t.max_fd
      BY <3>1, SoundFinite DEF Sound
    <3>3. CASE t.max_fd = 0
      BY <1>1, <1>2, <3>2, <3>3
    <3>4. CASE t.max_fd # 0
      BY <1>1, <1>2, <3>2, <3>4
    <3> QED BY <3>3, <3>4
  <2>2. CASE t.free_index_map = {}
    <3>1. fd = t.size
      BY <2>2, LeastUnusedDescriptor
    <3>2. /\ DOMAIN t.table = 0..t.size - 1
          /\ t.size # 0 => t.size = t.max_fd + 1
          /\ t.size = 0 => t.max_fd = 0
      BY <2>2, NoHoles
    <3>3. t.max_fd = 0 \/ fd > t.max_fd
      BY <1>1, <3>1, <3>2
    <3>4. u.table = [i \in 0..fd |-> IF i = fd THEN entry ELSE t.table[i]]
      BY <1>2, <3>3
    <3>5. u.max_fd = fd
      BY <1>1, <1>2, <3>1, <3>2
    <3> QED BY <1>1, <3>1, <3>2, <3>4, <3>5
  <2> QED BY <2>1, <2>2
<1>4. InUse(u) = InUse(t) \cup {fd}
  BY <1>3 DEF InUse
<1>5. Cardinality(InUse(u)) = Cardinality(InUse(t)) + 1
  BY <1>1, <1>4, FS_AddElement
<1>6. u.free_index_map = {i \in DOMAIN u.table : u.table[i] = NULL}
  BY <1>2, <1>3 DEF Sound
<1>7. Sound(u)
  BY <1>2, <1>3, <1>5, <1>6 DEF Sound
<1> QED BY <1>1, <1>2, <1>3, <1>4, <1>7 DEF InUse

(* A removal of a descriptor in use frees exactly that one. *)
LEMMA RemoveSound ==
    ASSUME NEW t, t.max_fd \in Nat, Sound(t), NEW fd \in InUse(t)
    PROVE  LET u == remove_fd(t, fd)
           IN  /\ Sound(u)
               /\ u.max_fd = t.max_fd
               /\ u.size = t.size - 1
               /\ InUse(u) = InUse(t) \ {fd}
               /\ \A i \in InUse(u) : u.table[i] = t.table[i]
<1> DEFINE u == remove_fd(t, fd)
<1>1. /\ u.size = t.size - 1 /\ u.max_fd = t.max_fd
      /\ u.free_index_map = t.free_index_map \cup {fd}
      /\ u.table = [t.table EXCEPT ![fd] = NULL]
  BY DEF remove_fd
<1>2. fd \in DOMAIN t.table /\ t.table[fd] # NULL
  BY DEF InUse
<1>3. DOMAIN u.table = DOMAIN t.table
  BY <1>1
<1>4. \A i \in DOMAIN u.table : u.table[i] = IF i = fd THEN NULL ELSE t.table[i]
  BY <1>1, <1>2
<1>5. InUse(u) = InUse(t) \ {fd}
  BY <1>3, <1>4 DEF InUse
<1>6. Cardinality(InUse(u)) = Cardinality(InUse(t)) - 1
  BY <1>5, SoundFinite, FS_RemoveElement
<1>7. u.free_index_map = {i \in DOMAIN u.table : u.table[i] = NULL}
  BY <1>1, <1>2, <1>3, <1>4 DEF Sound
<1>8. Sound(u)
  BY <1>1, <1>3, <1>6, <1>7 DEF Sound
<1> QED BY <1>1, <1>3, <1>4, <1>5, <1>8 DEF InUse

(* In a sound table the loop of remove_pid meets exactly the descriptors   *)
(* in use whose owner is pid. *)
LEMMA OwnedAreInUse ==
    ASSUME NEW t, t.max_fd \in Nat, Sound(t), NEW pid
    PROVE  OwnedBy(t, pid) = {fd \in InUse(t) : t.table[fd].owner = pid}
<1>1. CASE t.size = 0
  <2>1. InUse(t) = {}
    BY <1>1, SoundFinite, FS_EmptySet DEF Sound
  <2> QED BY <1>1, <2>1 DEF OwnedBy
<1>2. CASE t.size # 0
  <2>1. DOMAIN t.table = 0..t.max_fd
    <3>1. ASSUME DOMAIN t.table = {} PROVE FALSE
      <4>1. InUse(t) = {}
        BY <3>1 DEF InUse
      <4> QED BY <1>2, <4>1, FS_EmptySet DEF Sound
    <3> QED BY <3>1 DEF Sound
  <2> QED BY <1>2, <2>1 DEF OwnedBy, InUse
<1> QED BY <1>1, <1>2

(* The end of a session frees exactly the descriptors of its pid. *)
LEMMA RemovePidSound ==
    ASSUME NEW t, t.max_fd \in Nat, Sound(t), NEW pid
    PROVE  LET u == fdt_remove_pid(t, pid)
           IN  /\ Sound(u)
               /\ u.max_fd = t.max_fd
               /\ u.size <= t.size
               /\ InUse(u) = {fd \in InUse(t) : t.table[fd].owner # pid}
               /\ \A i \in InUse(u) : u.table[i] = t.table[i]
<1> DEFINE u == fdt_remove_pid(t, pid)
           gone == OwnedBy(t, pid)
<1>1. /\ u.size = t.size - Cardinality(gone) /\ u.max_fd = t.max_fd
      /\ u.free_index_map = t.free_index_map \cup gone
      /\ u.table = [fd \in DOMAIN t.table |-> IF fd \in gone THEN NULL ELSE t.table[fd]]
  BY DEF fdt_remove_pid
<1>2. gone = {fd \in InUse(t) : t.table[fd].owner = pid}
  BY OwnedAreInUse
<1>3. DOMAIN u.table = DOMAIN t.table
  BY <1>1
<1>4. \A i \in DOMAIN u.table : u.table[i] = IF i \in gone THEN NULL ELSE t.table[i]
  BY <1>1
<1>5. InUse(u) = InUse(t) \ gone /\ gone \in SUBSET InUse(t)
  BY <1>2, <1>3, <1>4 DEF InUse
<1>6. IsFiniteSet(InUse(t)) /\ IsFiniteSet(gone)
  BY <1>5, SoundFinite, FS_Subset
<1>7. /\ Cardinality(InUse(t)) \in Nat /\ Cardinality(gone) \in Nat
      /\ Cardinality(InUse(u)) = Cardinality(InUse(t)) - Cardinality(gone)
  <2>1. IsFiniteSet(InUse(u))
    BY <1>5, <1>6, FS_Subset
  <2>2. Cardinality(InUse(u) \cup gone)
           = Cardinality(InUse(u)) + Cardinality(gone) - Cardinality(InUse(u) \cap gone)
    BY <1>6, <2>1, FS_Union
  <2>3. InUse(u) \cup gone = InUse(t) /\ InUse(u) \cap gone = {}
    BY <1>5
  <2>4. Cardinality(InUse(u)) \in Nat /\ Cardinality(gone) \in Nat /\ Cardinality(InUse(t)) \in Nat
    BY <1>6, <2>1, FS_CardinalityType
  <2>5. Cardinality(InUse(u) \cup gone) = Cardinality(InUse(t))
    BY <2>3
  <2>6. Cardinality(InUse(u) \cap gone) = 0
    BY <2>3, FS_EmptySet
  <2> HIDE DEF u, gone
  <2> QED BY <2>2, <2>4, <2>5, <2>6
<1>8. u.free_index_map = {i \in DOMAIN u.table : u.table[i] = NULL}
  <2>1. gone \subseteq DOMAIN t.table
    BY <1>2 DEF InUse
  <2> QED BY <1>1, <1>3, <1>4, <2>1 DEF Sound
<1>9. Sound(u)
  BY <1>1, <1>3, <1>7, <1>8 DEF Sound
<1>10. u.size <= t.size
  BY <1>1, <1>7 DEF Sound
<1> QED BY <1>1, <1>2, <1>3, <1>4, <1>5, <1>9, <1>10 DEF InUse
=============================================================================
