---------------------------- MODULE Server_proofs ----------------------------
(***************************************************************************)
(* For every set of clients, workers, files and requests: the server uses  *)
(* the file system through its operations only, and the invariants of the  *)
(* server hold.                                                            *)
(***************************************************************************)
EXTENDS Server, SimFS_proofs

(* A worker has a client exactly in the middle of a handling; the client   *)
(* has then nothing in its socket, and either waits for the answer to the  *)
(* request the worker has or has hung up.                                  *)
AtWork(s) ==
    /\ s.pid = NoPid <=> s.pc \in {"idle", "broadcast", "announce", "ended"}
    /\ s.pid \notin unread
    /\ s.pc \in {"call", "asleep", "respond"} => s.req \in Requests /\ asked[s.pid] = s.req
    /\ s.pc = "asleep" => Waitable(s.req)
    /\ s.pc \in {"leave", "close"} => conn[s.pid] = "hungup"
    /\ s.pc = "broadcast" => s.target \in Names

WorkersAtWork == \A w \in Workers : AtWork(worker[w])

(* The descriptor of a lock that was refused and of an unlock that was     *)
(* done is still open when its target is asked for.                        *)
TargetsAreOpen ==
    \A w \in Workers :
        LET s == worker[w]
        IN  s.pc = "respond" /\ <<s.req.type, s.res>> \in {<<"lock", "EBUSY">>, <<"unlock", "ok">>}
                => s.req.fd \in InUse(fdt) /\ fdt.table[s.req.fd].owner = s.pid

(* Something to read, or the end of file. *)
HasCome(p) == p \in unread \/ conn[p] = "hungup"

(* What the pass over the ready descriptors finds is still there when it   *)
(* comes to it, and there is still something to read when a worker does.   *)
PassIsCurrent ==
    /\ \A p \in Pids \cap rdset : p \in set /\ HasCome(p)
    /\ \A i \in DOMAIN queue : queue[i] \in Pids => HasCome(queue[i])
    /\ Channel \in rdset => pipe # <<>>
    /\ Listener \in rdset => backlog
    /\ backlog => \E p \in Pids : conn[p] = "closed"

(* A request that is unread, or in the waiting list, is not answered yet.  *)
PendingIsAsked ==
    /\ \A p \in unread : asked[p] \in Requests
    /\ \A p \in Pids : wl.presence[p] > 0 => p \notin unread /\ asked[p] # NULL

(* No client is in the waiting list twice. *)
WaitersDiffer ==
    \A t, u \in Names :
        \A i \in DOMAIN wl.queues[t], j \in DOMAIN wl.queues[u] :
            wl.queues[t][i].pid = wl.queues[u][j].pid => t = u /\ i = j

(* The server goes down after a hard signal, or a soft one and every       *)
(* client.                                                                 *)
DownForAReason ==
    master # "running" =>
        \/ "hard" \in signals
        \/ "soft" \in signals /\ \A p \in Pids : conn[p] = "closed"

(* A worker sleeps in the file system exactly when its client waits there. *)
SleepersMatch ==
    undefined = "no" =>
        \A p \in Pids :
            waiting[p] # NULL <=> \E w \in Workers : worker[w].pid = p /\ worker[w].pc = "asleep"

Handling == WorkersAtWork /\ PassIsCurrent /\ PendingIsAsked
Queues   == WaitersArePresent /\ WaitersDiffer
Files    == TargetsAreOpen /\ SleepersMatch

SInv ==
    /\ IInv /\ ServerTypeOK
    /\ EachClientInOnePlace /\ Handling
    /\ SelectSeesAll /\ ConnectionsAreCounted /\ DownForAReason
    /\ Queues /\ Files
-----------------------------------------------------------------------------
(* Counting.                                                               *)

(* One when something is so. *)
One(b) == IF b THEN 1 ELSE 0

LEMMA CountIn ==
    ASSUME NEW S, NEW p
    PROVE  Cardinality({p} \cap S) = One(p \in S)
<1>1. CASE p \in S
  <2>1. {p} \cap S = {p}
    BY <1>1
  <2> QED BY <1>1, <2>1, FS_Singleton DEF One
<1>2. CASE p \notin S
  <2>1. {p} \cap S = {}
    BY <1>2
  <2> QED BY <1>2, <2>1, FS_EmptySet DEF One
<1> QED BY <1>1, <1>2

(* Two finite sets that agree on everything but one element.               *)
LEMMA CountBut ==
    ASSUME NEW A, NEW B, IsFiniteSet(A), NEW x, A \ {x} = B \ {x}
    PROVE  /\ IsFiniteSet(B)
           /\ Cardinality(A) \in Nat /\ Cardinality(B) \in Nat
           /\ Cardinality(B) = Cardinality(A) - One(x \in A) + One(x \in B)
<1> DEFINE C == A \ {x}
<1>1. IsFiniteSet(C) /\ Cardinality(C) = Cardinality(A) - One(x \in A)
  BY FS_RemoveElement, FS_CardinalityType DEF One
<1>2. B = IF x \in B THEN C \cup {x} ELSE C
  OBVIOUS
<1>3. x \notin C
  OBVIOUS
<1> HIDE DEF C
<1>4. Cardinality(A) \in Nat /\ Cardinality(C) \in Nat
  BY <1>1, FS_CardinalityType
<1>5. IsFiniteSet(C \cup {x}) /\ Cardinality(C \cup {x}) = Cardinality(C) + 1
  BY <1>1, <1>3, FS_AddElement
<1>6. IsFiniteSet(B) /\ Cardinality(B) = Cardinality(C) + One(x \in B)
  <2>1. CASE x \in B
    BY <1>2, <1>4, <1>5, <2>1 DEF One
  <2>2. CASE x \notin B
    BY <1>1, <1>2, <1>4, <2>2 DEF One
  <2> QED BY <2>1, <2>2
<1>7. One(x \in A) \in 0..1 /\ One(x \in B) \in 0..1
  BY DEF One
<1> QED BY <1>1, <1>4, <1>6, <1>7

LEMMA CountType ==
    ASSUME NEW S, NEW s \in Seq(S), NEW x
    PROVE  /\ IsFiniteSet({i \in DOMAIN s : s[i] = x})
           /\ Count(s, x) \in Nat
           /\ Count(s, x) = 0 <=> \A i \in DOMAIN s : s[i] # x
<1> DEFINE I == {i \in DOMAIN s : s[i] = x}
<1>1. IsFiniteSet(1..Len(s)) /\ I \in SUBSET (1..Len(s))
  BY FS_Interval
<1>2. IsFiniteSet(I)
  BY <1>1, FS_Subset
<1>3. Cardinality(I) \in Nat /\ (Cardinality(I) = 0 <=> I = {})
  BY <1>2, FS_CardinalityType, FS_EmptySet
<1> QED BY <1>2, <1>3 DEF Count

LEMMA CountAppend ==
    ASSUME NEW S, NEW s \in Seq(S), NEW e \in S, NEW x
    PROVE  Count(Append(s, e), x) = Count(s, x) + One(e = x)
<1> DEFINE I == {i \in DOMAIN s : s[i] = x}
           r == Append(s, e)
           J == {i \in DOMAIN r : r[i] = x}
           n == Len(s) + 1
<1>1. IsFiniteSet(I)
  BY CountType
<1>2. DOMAIN r = 1..n /\ DOMAIN s = 1..n - 1 /\ r[n] = e /\ \A i \in 1..n - 1 : r[i] = s[i]
  OBVIOUS
<1> HIDE DEF r
<1>3. I \ {n} = J \ {n} /\ n \notin I /\ (n \in J <=> e = x)
  BY <1>2
<1> HIDE DEF I, J, n
<1>4. Cardinality(J) = Cardinality(I) - One(n \in I) + One(n \in J) /\ Cardinality(I) \in Nat
  BY <1>1, <1>3, CountBut DEF One
<1>5. Cardinality(J) = Cardinality(I) + One(e = x)
  BY <1>3, <1>4 DEF One
<1> QED BY <1>5 DEF Count, I, J, r

LEMMA CountTail ==
    ASSUME NEW S, NEW s \in Seq(S), s # <<>>, NEW x
    PROVE  Count(Tail(s), x) = Count(s, x) - One(Head(s) = x)
<1> DEFINE I == {i \in DOMAIN s : s[i] = x}
           r == Tail(s)
           J == {i \in DOMAIN r : r[i] = x}
           K == I \ {1}
<1>1. Len(s) \in Nat \ {0} /\ DOMAIN s = 1..Len(s) /\ Head(s) = s[1]
  OBVIOUS
<1>2. DOMAIN r = 1..Len(s) - 1 /\ \A i \in 1..Len(s) - 1 : r[i] = s[i + 1]
  OBVIOUS
<1>3. IsFiniteSet(I) /\ Cardinality(I) \in Nat
  BY CountType DEF Count
<1>10. 1 \in I <=> Head(s) = x
  BY <1>1
<1> HIDE DEF r
<1> DEFINE g == [j \in J |-> j + 1]
<1>4. g \in Injection(J, K)
  <2>1. \A j \in J : j \in Nat /\ j + 1 \in K
    BY <1>1, <1>2
  <2> HIDE DEF J, K
  <2> QED BY <2>1 DEF Injection, IsInjective
<1>5. g \in Surjection(J, K)
  <2>1. \A i \in K : i - 1 \in J /\ (i - 1) + 1 = i
    BY <1>1, <1>2
  <2>2. \A j \in J : j + 1 \in K
    BY <1>1, <1>2
  <2> HIDE DEF J, K
  <2> QED BY <2>1, <2>2 DEF Surjection
<1>6. IsFiniteSet(K) /\ Cardinality(K) = Cardinality(I) - One(Head(s) = x)
  <2> HIDE DEF I
  <2> QED BY <1>3, <1>10, FS_RemoveElement DEF One
<1>7. IsFiniteSet(J)
  <2>1. IsFiniteSet(1..Len(s) - 1) /\ J \in SUBSET (1..Len(s) - 1)
    BY <1>1, <1>2, FS_Interval
  <2> QED BY <2>1, FS_Subset
<1> HIDE DEF J, K, g
<1>8. ExistsBijection(J, K)
  BY <1>4, <1>5 DEF ExistsBijection, Bijection
<1>9. Cardinality(K) = Cardinality(J)
  BY <1>7, <1>8, FS_Bijection
<1> QED BY <1>6, <1>9 DEF Count, J, r
-----------------------------------------------------------------------------
(* The places of a client.                                                 *)

Holders(W, p) == {w \in Workers : W[w].pid = p}

LEMMA PlacesAre ==
    ASSUME ServerTypeOK, NEW p \in Pids
    PROVE  /\ Places(p) = One(p \in set) + Count(queue, p) + Count(pipe, p)
                             + wl.presence[p] + Cardinality(Holders(worker, p))
           /\ One(p \in set) \in Nat /\ Count(queue, p) \in Nat /\ Count(pipe, p) \in Nat
           /\ wl.presence[p] \in Nat /\ Cardinality(Holders(worker, p)) \in Nat
<1>1. queue \in Seq(Pids \cup {TERMINATE}) /\ pipe \in Seq(Pids \cup {Gone})
  BY DEF ServerTypeOK, ClientsOK, PoolOK
<1>2. Count(queue, p) \in Nat /\ Count(pipe, p) \in Nat
  BY <1>1, CountType
<1>3. wl.presence[p] \in Nat
  BY DEF ServerTypeOK, ClientsOK, PoolOK
<1>4. Cardinality(Holders(worker, p)) \in Nat
  <2>1. Holders(worker, p) \in SUBSET Workers
    BY DEF Holders
  <2> QED BY <2>1, ServerAssumption, FS_Subset, FS_CardinalityType
<1>5. Cardinality({p} \cap set) = One(p \in set)
  BY CountIn
<1> QED BY <1>2, <1>3, <1>4, <1>5 DEF Places, Holders, One

(* A client with a worker is nowhere else, and neither is one that waits.  *)
LEMMA HeldOnce ==
    ASSUME ServerTypeOK, EachClientInOnePlace, NEW p \in Pids
    PROVE  /\ Places(p) \in Nat /\ Places(p) <= 1
           /\ Places(p) = 1 => conn[p] # "closed"
           /\ \A w \in Workers : worker[w].pid = p =>
                 /\ Places(p) = 1
                 /\ p \notin set /\ Count(queue, p) = 0 /\ Count(pipe, p) = 0
                 /\ wl.presence[p] = 0 /\ Cardinality(Holders(worker, p)) = 1
                 /\ \A v \in Workers : worker[v].pid = p => v = w
           /\ wl.presence[p] > 0 =>
                 /\ Places(p) = 1
                 /\ p \notin set /\ Count(queue, p) = 0 /\ Count(pipe, p) = 0
                 /\ wl.presence[p] = 1 /\ Cardinality(Holders(worker, p)) = 0
                 /\ \A v \in Workers : worker[v].pid # p
<1> DEFINE n == Cardinality(Holders(worker, p))
<1>1. /\ Places(p) = One(p \in set) + Count(queue, p) + Count(pipe, p) + wl.presence[p] + n
      /\ Count(queue, p) \in Nat /\ Count(pipe, p) \in Nat /\ wl.presence[p] \in Nat /\ n \in Nat
  BY PlacesAre
<1>2. Places(p) \in Nat /\ Places(p) <= 1 /\ (Places(p) = 1 => conn[p] # "closed")
  <2>1. One(p \in set) \in Nat
    BY DEF One
  <2>2. Places(p) \in Nat
    BY <1>1, <2>1
  <2>3. conn[p] \in {"closed", "open", "hungup"}
    BY DEF ServerTypeOK, ClientsOK, PoolOK
  <2> QED BY <2>2, <2>3 DEF EachClientInOnePlace
<1>3. IsFiniteSet(Holders(worker, p))
  <2>1. Holders(worker, p) \in SUBSET Workers
    BY DEF Holders
  <2> QED BY <2>1, ServerAssumption, FS_Subset
<1>4. ASSUME NEW w \in Workers, worker[w].pid = p
      PROVE  n >= 1
  <2>1. Holders(worker, p) # {}
    BY <1>4 DEF Holders
  <2> QED BY <1>1, <1>3, <2>1, FS_EmptySet
<1>5. ASSUME NEW w \in Workers, worker[w].pid = p, n = 1, NEW v \in Workers, worker[v].pid = p
      PROVE  v = w
  <2>1. \E x : Holders(worker, p) = {x}
    BY <1>3, <1>5, FS_Singleton
  <2>2. v \in Holders(worker, p) /\ w \in Holders(worker, p)
    BY <1>5 DEF Holders
  <2> QED BY <2>1, <2>2
<1> HIDE DEF n
<1>6. ASSUME NEW w \in Workers, worker[w].pid = p
      PROVE  /\ Places(p) = 1 /\ p \notin set /\ Count(queue, p) = 0 /\ Count(pipe, p) = 0
             /\ wl.presence[p] = 0 /\ n = 1
  <2>1. n >= 1
    BY <1>4, <1>6
  <2> QED BY <1>1, <1>2, <2>1 DEF One
<1>7. ASSUME wl.presence[p] > 0
      PROVE  /\ Places(p) = 1 /\ p \notin set /\ Count(queue, p) = 0 /\ Count(pipe, p) = 0
             /\ wl.presence[p] = 1 /\ n = 0
  BY <1>1, <1>2, <1>7 DEF One
<1>8. ASSUME n = 0, NEW v \in Workers PROVE worker[v].pid # p
  BY <1>4, <1>8
<1> QED BY <1>2, <1>5, <1>6, <1>7, <1>8 DEF n
-----------------------------------------------------------------------------
(* What a call for one pid leaves alone: the descriptors of the others,    *)
(* whether they sleep and for which file.                                  *)

KeepsEntries(p) ==
    \A fd \in InUse(fdt) :
        fdt.table[fd].owner # p =>
            /\ fd \in InUse(fdt') /\ fdt'.table[fd].owner = fdt.table[fd].owner
            /\ fdt'.table[fd].inode.name = fdt.table[fd].inode.name

StillSleeps(q) ==
    /\ waiting'[q] = NULL <=> waiting[q] = NULL
    /\ waiting[q] # NULL => waiting'[q].name = waiting[q].name

KeepsSleepers(p) == \A q \in Pids \ {p} : StillSleeps(q)

LEMMA PutKeeps ==
    ASSUME NEW t, t.max_fd \in Nat, Sound(t), NEW e, NEW i \in InUse(t)
    PROVE  i \in InUse(fdt_put(t, e)) /\ fdt_put(t, e).table[i] = t.table[i]
<1> DEFINE fd == get_file_descriptor(t)
           tab == IF t.max_fd = 0 \/ fd > t.max_fd
                  THEN [j \in 0..fd |-> IF j = fd THEN e ELSE t.table[j]]
                  ELSE [t.table EXCEPT ![fd] = e]
<1>1. fd \in Nat /\ fd # i
  BY LeastUnusedDescriptor
<1>2. i \in DOMAIN t.table /\ t.table[i] # NULL /\ i \in 0..t.max_fd
  <2>1. DOMAIN t.table \subseteq 0..t.max_fd
    BY SoundFinite
  <2> QED BY <2>1 DEF InUse
<1>3. fdt_put(t, e).table = tab
  BY DEF fdt_put
<1> HIDE DEF fd
<1>4. i \in DOMAIN tab /\ tab[i] = t.table[i]
  BY <1>1, <1>2
<1> HIDE DEF tab
<1> QED BY <1>2, <1>3, <1>4 DEF InUse

LEMMA OpenedKeeps ==
    ASSUME IInv, NEW p, NEW f, NEW inode, Opened(p, f, inode)
    PROVE  KeepsEntries(p)
<1>1. fdt.max_fd \in Nat /\ Sound(fdt)
  BY TableFacts DEF IInv
<1>2. PICK e : fdt' = fdt_put(fdt, e)
  BY DEF Opened
<1>3. ASSUME NEW i \in InUse(fdt) PROVE i \in InUse(fdt') /\ fdt'.table[i] = fdt.table[i]
  BY <1>1, <1>2, PutKeeps
<1> QED BY <1>3 DEF KeepsEntries

LEMMA SignalledKeeps ==
    ASSUME NEW w \in [Pids -> Waits \cup {NULL}], NEW q \in Pids, NEW x,
           x = w[q] \/ (w[q] # NULL /\ x = [w[q] EXCEPT !.signalled = TRUE])
    PROVE  (x = NULL <=> w[q] = NULL) /\ (w[q] # NULL => x.name = w[q].name)
<1>1. CASE x = w[q]
  BY <1>1
<1>2. CASE w[q] # NULL /\ x = [w[q] EXCEPT !.signalled = TRUE]
  <2>1. x \in Waits /\ x.name = w[q].name
    BY <1>2 DEF Waits
  <2> QED BY <1>2, <2>1, NullAssumption
<1> QED BY <1>1, <1>2

(* A call that neither opens, closes nor waits. *)
LEMMA QuietKeeps ==
    ASSUME UNCHANGED <<fdt, waiting>>, NEW p
    PROVE  KeepsEntries(p) /\ KeepsSleepers(p)
BY DEF KeepsEntries, KeepsSleepers, StillSleeps, InUse

LEMMA OpenKeeps ==
    ASSUME IInv, NEW p \in Pids, NEW f \in Names, NEW lock \in BOOLEAN,
           OpenCreate(p, f, lock) \/ OpenExisting(p, f, lock)
    PROVE  KeepsEntries(p) /\ KeepsSleepers(p) /\ waiting' = waiting /\ undefined = "no"
<1>1. waiting' = waiting /\ undefined = "no"
  BY DEF OpenCreate, OpenExisting, Ready
<1>2. \E inode : Opened(p, f, inode)
  BY DEF OpenCreate, OpenExisting
<1> QED BY <1>1, <1>2, OpenedKeeps DEF KeepsSleepers, StillSleeps

LEMMA SleepKeeps ==
    ASSUME IInv, NEW p \in Pids, NEW f \in Names, NEW op \in {"open", "lock"}, Sleep(p, f, op)
    PROVE  KeepsEntries(p) /\ KeepsSleepers(p) /\ waiting'[p] # NULL
<1>1. waiting \in [Pids -> Waits \cup {NULL}]
  BY DEF IInv, Tables, TypeOK
<1> DEFINE x == [name |-> f, op |-> op, signalled |-> FALSE]
<1>2. fdt' = fdt /\ waiting' = [waiting EXCEPT ![p] = x]
  BY DEF Sleep
<1>3. x # NULL
  <2>1. x \in Waits
    BY DEF Waits
  <2> QED BY <2>1, NullAssumption
<1> HIDE DEF x
<1> QED BY <1>1, <1>2, <1>3 DEF KeepsEntries, KeepsSleepers, StillSleeps, InUse

LEMMA CloseKeeps ==
    ASSUME IInv, NEW p \in Pids, NEW fd \in Nat, Close(p, fd)
    PROVE  /\ KeepsEntries(p) /\ KeepsSleepers(p)
           /\ waiting[p] = NULL /\ waiting'[p] = NULL /\ undefined = "no"
<1>1. /\ waiting[p] = NULL /\ undefined = "no"
      /\ fdt' = remove_fd(fdt, fd) /\ fdt_error(fdt, fd, p) = "ok"
  BY DEF Close, Ready
<1>2. Tables /\ fdt.max_fd \in Nat /\ Sound(fdt) /\ waiting \in [Pids -> Waits \cup {NULL}]
  BY TableFacts DEF IInv, Tables, TypeOK
<1>3. fd \in InUse(fdt) /\ fdt.table[fd].owner = p
  BY <1>1, <1>2, Accepted
<1>4. InUse(fdt') = InUse(fdt) \ {fd} /\ \A i \in InUse(fdt') : fdt'.table[i] = fdt.table[i]
  <2>1. PICK t : t = fdt
    OBVIOUS
  <2>2. /\ InUse(remove_fd(t, fd)) = InUse(t) \ {fd}
        /\ \A i \in InUse(remove_fd(t, fd)) : remove_fd(t, fd).table[i] = t.table[i]
    BY <1>2, <1>3, <2>1, RemoveSound
  <2> QED BY <1>1, <2>1, <2>2
<1>5. KeepsEntries(p)
  BY <1>3, <1>4 DEF KeepsEntries
<1>6. waiting' = waiting \/ \E f : waiting' = Signalled(waiting, f)
  BY DEF Close
<1>7. ASSUME NEW q \in Pids PROVE StillSleeps(q)
  <2>1. CASE waiting' = waiting
    BY <2>1 DEF StillSleeps
  <2>2. CASE \E f : waiting' = Signalled(waiting, f)
    <3>1. \/ waiting'[q] = waiting[q]
          \/ waiting[q] # NULL /\ waiting'[q] = [waiting[q] EXCEPT !.signalled = TRUE]
      BY <2>2 DEF Signalled
    <3>2. PICK x : x = waiting'[q]
      OBVIOUS
    <3> QED BY <1>2, <3>1, <3>2, SignalledKeeps DEF StillSleeps
  <2> QED BY <1>6, <2>1, <2>2
<1> QED BY <1>1, <1>5, <1>7 DEF KeepsSleepers, StillSleeps

LEMMA RemoveFileKeeps ==
    ASSUME IInv, NEW p \in Pids, NEW f \in Names, RemoveFile(p, f)
    PROVE  KeepsEntries(p) /\ KeepsSleepers(p) /\ waiting' = waiting /\ undefined = "no"
<1>1. waiting' = waiting /\ undefined = "no" /\ fdt' = Dangling(fdt, files[f].ptr)
  BY DEF RemoveFile, DestroyFile, Ready
<1>2. LikeTable(fdt, fdt')
  <2>1. PICK ptr : ptr = files[f].ptr
    OBVIOUS
  <2> QED BY <1>1, <2>1, TableIs, DanglingFacts
<1> QED BY <1>1, <1>2 DEF LikeTable, KeepsEntries, KeepsSleepers, StillSleeps

LEMMA SessionKeeps ==
    ASSUME IInv, NEW p \in Pids, RemoveSession(p)
    PROVE  /\ KeepsEntries(p) /\ KeepsSleepers(p)
           /\ waiting[p] = NULL /\ waiting'[p] = NULL /\ undefined = "no"
<1>1. /\ waiting[p] = NULL /\ undefined = "no"
      /\ fdt' = fdt_remove_pid(fdt, p) \/ fdt' = fdt
  BY DEF RemoveSession, Ready
<1>2. Tables /\ fdt.max_fd \in Nat /\ Sound(fdt) /\ waiting \in [Pids -> Waits \cup {NULL}]
  BY TableFacts DEF IInv, Tables, TypeOK
<1>3. KeepsEntries(p)
  <2>1. CASE fdt' = fdt
    BY <2>1 DEF KeepsEntries, InUse
  <2>2. CASE fdt' = fdt_remove_pid(fdt, p)
    <3>1. /\ InUse(fdt') = {fd \in InUse(fdt) : fdt.table[fd].owner # p}
          /\ \A i \in InUse(fdt') : fdt'.table[i] = fdt.table[i]
      BY <1>2, <2>2, RemovePidSound
    <3> QED BY <3>1 DEF KeepsEntries
  <2> QED BY <1>1, <2>1, <2>2
<1>4. ASSUME NEW q \in Pids PROVE StillSleeps(q)
  <2>1. \/ waiting'[q] = waiting[q]
        \/ waiting[q] # NULL /\ waiting'[q] = [waiting[q] EXCEPT !.signalled = TRUE]
    BY DEF RemoveSession
  <2>2. PICK x : x = waiting'[q]
    OBVIOUS
  <2> QED BY <1>2, <2>1, <2>2, SignalledKeeps DEF StillSleeps
<1> QED BY <1>1, <1>3, <1>4 DEF KeepsSleepers, StillSleeps

LEMMA WakeUpKeeps ==
    ASSUME IInv, NEW p \in Pids, WakeUp(p)
    PROVE  KeepsEntries(p) /\ KeepsSleepers(p) /\ waiting'[p] = NULL /\ undefined = "no"
<1>1. waiting \in [Pids -> Waits \cup {NULL}]
  BY DEF IInv, Tables, TypeOK
<1>2. waiting' = [waiting EXCEPT ![p] = NULL] /\ undefined = "no"
  BY DEF WakeUp, Awake
<1>3. fdt' = fdt \/ \E inode : Opened(p, waiting[p].name, inode)
  BY DEF WakeUp
<1>4. KeepsEntries(p)
  <2>1. CASE fdt' = fdt
    BY <2>1 DEF KeepsEntries, InUse
  <2>2. CASE \E inode : Opened(p, waiting[p].name, inode)
    <3>1. PICK f, inode : f = waiting[p].name /\ Opened(p, f, inode)
      BY <2>2
    <3> QED BY <3>1, OpenedKeeps
  <2> QED BY <1>3, <2>1, <2>2
<1> QED BY <1>1, <1>2, <1>4 DEF KeepsSleepers, StillSleeps

LEMMA FlagKeeps ==
    ASSUME IInv, NEW p \in Pids, SleepAgain(p) \/ Spurious(p)
    PROVE  /\ KeepsEntries(p) /\ KeepsSleepers(p)
           /\ waiting[p] # NULL /\ waiting'[p] # NULL /\ undefined = "no"
<1>1. waiting \in [Pids -> Waits \cup {NULL}]
  BY DEF IInv, Tables, TypeOK
<1>2. /\ fdt' = fdt /\ waiting[p] # NULL /\ undefined = "no"
      /\ \E b \in BOOLEAN : waiting' = [waiting EXCEPT ![p].signalled = b]
  BY DEF SleepAgain, Spurious, Awake
<1>3. PICK b \in BOOLEAN : waiting' = [waiting EXCEPT ![p].signalled = b]
  BY <1>2
<1>4. [waiting[p] EXCEPT !.signalled = b] \in Waits
  BY <1>1, <1>2 DEF Waits
<1>5. waiting'[p] # NULL
  BY <1>1, <1>3, <1>4, NullAssumption
<1> QED BY <1>1, <1>2, <1>3, <1>5 DEF KeepsEntries, KeepsSleepers, StillSleeps, InUse
-----------------------------------------------------------------------------
(* A call of a worker is a step of the file system.                        *)

LEMMA RequestShape ==
    ASSUME NEW r \in Requests
    PROVE  /\ r # NULL /\ r.type \in {"open", "lock", "unlock", "close", "remove"}
           /\ r.type = "open" => r.name \in Names /\ r.create \in BOOLEAN /\ r.lock \in BOOLEAN
           /\ r.type \in {"lock", "unlock", "close"} => r.fd \in Nat
           /\ r.type = "remove" => r.name \in Names
BY ServerAssumption

(* The answers after which the target of the request is asked for. *)
Targeted == {<<"lock", "EBUSY">>, <<"unlock", "ok">>}

(* Worker w has called the file system for p and its request r: it has the *)
(* answer, or sleeps there.                                                *)
Served(w, p, r) ==
    /\ [Next]_vars /\ KeepsEntries(p) /\ KeepsSleepers(p) /\ undefined = "no"
    /\ \/ \E res \in Results :
             /\ Returns(w, res) /\ waiting'[p] = NULL
             /\ <<r.type, res>> \in Targeted =>
                   r.fd \in InUse(fdt') /\ fdt'.table[r.fd].owner = p
       \/ worker' = [worker EXCEPT ![w].pc = "asleep"] /\ waiting'[p] # NULL /\ Waitable(r)

LEMMA RefusedServed ==
    ASSUME IInv, NEW w \in Workers, NEW p \in Pids, NEW r \in Requests, Refused(p),
           NEW res \in Results, Returns(w, res),
           <<r.type, res>> \in Targeted => r.fd \in InUse(fdt) /\ fdt.table[r.fd].owner = p
    PROVE  Served(w, p, r)
<1>1. UNCHANGED vars /\ waiting[p] = NULL /\ undefined = "no"
  BY DEF Refused, Ready
<1>2. UNCHANGED <<fdt, waiting>>
  BY <1>1 DEF vars
<1>3. KeepsEntries(p) /\ KeepsSleepers(p)
  BY <1>2, QuietKeeps
<1>4. <<r.type, res>> \in Targeted => r.fd \in InUse(fdt') /\ fdt'.table[r.fd].owner = p
  BY <1>2 DEF InUse
<1> QED BY <1>1, <1>2, <1>3, <1>4 DEF Served

LEMMA DescriptorOk ==
    ASSUME IInv, NEW p \in Pids, NEW fd \in Nat, fdt_error(fdt, fd, p) = "ok"
    PROVE  fd \in Fds /\ fd \in InUse(fdt) /\ fdt.table[fd].owner = p /\ Copy(fd).name \in Names
BY Accepted, TableFacts DEF IInv

LEMMA FdErrors ==
    ASSUME NEW p, NEW fd
    PROVE  /\ fdt_error(fdt, fd, p) \in {"EBADF", "EPERM", "ok"}
           /\ fd_error(p, fd) \in {"EBADF", "EPERM", "ENOENT", "ok"}
           /\ fd_error(p, fd) = "ok" => fdt_error(fdt, fd, p) = "ok"
BY DEF fdt_error, fd_error

LEMMA CallOpenServed ==
    ASSUME IInv, NEW w \in Workers, NEW p \in Pids, NEW r \in Requests, r.type = "open",
           CallOpen(w, p, r)
    PROVE  Served(w, p, r)
<1>1. r.name \in Names /\ r.create \in BOOLEAN /\ r.lock \in BOOLEAN
  BY RequestShape
<1>2. \A res : <<r.type, res>> \notin Targeted
  BY DEF Targeted
<1> DEFINE error == open_error(p, r.name, r.create, r.lock)
<1>3. error \in Results
  BY DEF open_error, create_error, Results
<1>4. ASSUME OpenCreate(p, r.name, r.lock) \/ OpenExisting(p, r.name, r.lock), Returns(w, "ok")
      PROVE  Served(w, p, r)
  <2>1. Next
    BY <1>1, <1>4 DEF Next, OnName
  <2>2. KeepsEntries(p) /\ KeepsSleepers(p) /\ waiting' = waiting /\ undefined = "no"
    BY <1>1, <1>4, OpenKeeps
  <2>3. waiting[p] = NULL
    BY <1>4 DEF OpenCreate, OpenExisting, Ready
  <2> QED BY <1>2, <1>4, <2>1, <2>2, <2>3 DEF Served, Results
<1>5. ASSUME OpenWaits(p, r.name), worker' = [worker EXCEPT ![w].pc = "asleep"]
      PROVE  Served(w, p, r)
  <2>1. Next
    BY <1>1, <1>5 DEF Next, OnName
  <2>2. Sleep(p, r.name, "open") /\ undefined = "no"
    BY <1>5 DEF OpenWaits, Ready
  <2>3. KeepsEntries(p) /\ KeepsSleepers(p) /\ waiting'[p] # NULL
    BY <1>1, <2>2, SleepKeeps
  <2> QED BY <1>5, <2>1, <2>2, <2>3 DEF Served, Waitable
<1>6. ASSUME Refused(p), Returns(w, error) PROVE Served(w, p, r)
  <2> HIDE DEF error
  <2> QED BY <1>2, <1>3, <1>6, RefusedServed
<1> QED BY <1>4, <1>5, <1>6 DEF CallOpen

LEMMA CallLockServed ==
    ASSUME IInv, NEW w \in Workers, NEW p \in Pids, NEW r \in Requests, r.type = "lock",
           CallLock(w, p, r.fd)
    PROVE  Served(w, p, r)
<1>1. PICK fd \in Nat : fd = r.fd
  BY RequestShape
<1> DEFINE error == lock_error(p, fd)
<1>2. /\ error \in Results
      /\ error \in {"ok", "EBUSY"} => fdt_error(fdt, fd, p) = "ok" /\ fd_error(p, fd) = "ok"
  BY FdErrors DEF lock_error, Results
<1>3. error \in {"ok", "EBUSY"} =>
          fd \in Fds /\ fd \in InUse(fdt) /\ fdt.table[fd].owner = p /\ Copy(fd).name \in Names
  BY <1>2, DescriptorOk
<1>4. <<r.type, "ok">> \notin Targeted
  BY DEF Targeted
<1>5. ASSUME Lock(p, fd), Returns(w, "ok") PROVE Served(w, p, r)
  <2>1. UNCHANGED <<fdt, waiting>> /\ waiting[p] = NULL /\ undefined = "no" /\ error = "ok"
    BY <1>5 DEF Lock, Ready
  <2>2. Next
    BY <1>3, <1>5, <2>1 DEF Next, OnDescriptor
  <2>3. KeepsEntries(p) /\ KeepsSleepers(p)
    BY <2>1, QuietKeeps
  <2> QED BY <1>4, <1>5, <2>1, <2>2, <2>3 DEF Served, Results
<1>6. ASSUME LockWaits(p, fd), worker' = [worker EXCEPT ![w].pc = "asleep"]
      PROVE  Served(w, p, r)
  <2>1. error = "ok" /\ undefined = "no" /\ Sleep(p, Copy(fd).name, "lock")
    BY <1>6 DEF LockWaits, Ready
  <2>2. Next
    BY <1>3, <1>6, <2>1 DEF Next, OnDescriptor
  <2>3. PICK f \in Names : Sleep(p, f, "lock")
    BY <1>3, <2>1
  <2>4. KeepsEntries(p) /\ KeepsSleepers(p) /\ waiting'[p] # NULL
    BY <2>3, SleepKeeps
  <2> QED BY <1>6, <2>1, <2>2, <2>4 DEF Served, Waitable
<1>7. ASSUME Refused(p), Returns(w, "ok") PROVE Served(w, p, r)
  BY <1>4, <1>7, RefusedServed DEF Results
<1>8. ASSUME Refused(p), Returns(w, error) PROVE Served(w, p, r)
  <2>1. <<r.type, error>> \in Targeted => error = "EBUSY"
    BY DEF Targeted
  <2> HIDE DEF error
  <2> QED BY <1>1, <1>2, <1>3, <1>8, <2>1, RefusedServed
<1> QED BY <1>1, <1>5, <1>6, <1>7, <1>8 DEF CallLock

LEMMA CallUnlockServed ==
    ASSUME IInv, NEW w \in Workers, NEW p \in Pids, NEW r \in Requests, r.type = "unlock",
           CallUnlock(w, p, r.fd)
    PROVE  Served(w, p, r)
<1>1. PICK fd \in Nat : fd = r.fd
  BY RequestShape
<1> DEFINE error == unlock_error(p, fd)
<1>2. error \in Results /\ (error = "ok" => fdt_error(fdt, fd, p) = "ok")
  BY FdErrors DEF unlock_error, Results
<1>3. ASSUME Unlock(p, fd), Returns(w, "ok") PROVE Served(w, p, r)
  <2>1. UNCHANGED <<fdt, waiting>> /\ waiting[p] = NULL /\ undefined = "no" /\ error = "ok"
    BY <1>3 DEF Unlock, Ready
  <2>2. fd \in Fds /\ fd \in InUse(fdt) /\ fdt.table[fd].owner = p
    BY <1>2, <2>1, DescriptorOk
  <2>3. Next
    BY <1>3, <2>2 DEF Next, OnDescriptor
  <2>4. KeepsEntries(p) /\ KeepsSleepers(p)
    BY <2>1, QuietKeeps
  <2>5. fd \in InUse(fdt') /\ fdt'.table[fd].owner = p
    BY <2>1, <2>2 DEF InUse
  <2> QED BY <1>1, <1>3, <2>1, <2>3, <2>4, <2>5 DEF Served, Results
<1>4. ASSUME error # "ok", Refused(p), Returns(w, error) PROVE Served(w, p, r)
  <2>1. <<r.type, error>> \notin Targeted
    BY <1>4 DEF Targeted
  <2> HIDE DEF error
  <2> QED BY <1>2, <1>4, <2>1, RefusedServed
<1> QED BY <1>1, <1>3, <1>4 DEF CallUnlock

LEMMA CallCloseServed ==
    ASSUME IInv, NEW w \in Workers, NEW p \in Pids, NEW r \in Requests, r.type = "close",
           CallClose(w, p, r.fd)
    PROVE  Served(w, p, r)
<1>1. PICK fd \in Nat : fd = r.fd
  BY RequestShape
<1>2. \A res : <<r.type, res>> \notin Targeted
  BY DEF Targeted
<1>3. ASSUME Close(p, fd), NEW res \in Results, Returns(w, res) PROVE Served(w, p, r)
  <2>1. /\ KeepsEntries(p) /\ KeepsSleepers(p)
        /\ waiting'[p] = NULL /\ undefined = "no"
    BY <1>3, CloseKeeps
  <2>2. fdt_error(fdt, fd, p) = "ok"
    BY <1>3 DEF Close
  <2>3. fd \in Fds
    BY <2>2, DescriptorOk
  <2>4. Next
    BY <1>3, <2>3 DEF Next, OnDescriptor
  <2> QED BY <1>2, <1>3, <2>1, <2>4 DEF Served
<1>4. ASSUME Refused(p), Returns(w, fdt_error(fdt, fd, p)) PROVE Served(w, p, r)
  <2>1. PICK res \in Results : res = fdt_error(fdt, fd, p)
    BY FdErrors DEF Results
  <2> QED BY <1>2, <1>4, <2>1, RefusedServed
<1>5. \/ Close(p, fd) /\ (Returns(w, "EPERM") \/ Returns(w, "ok"))
      \/ Refused(p) /\ Returns(w, fdt_error(fdt, fd, p))
  BY <1>1 DEF CallClose
<1>6. "EPERM" \in Results /\ "ok" \in Results
  BY DEF Results
<1> QED BY <1>3, <1>4, <1>5, <1>6

LEMMA CallRemoveServed ==
    ASSUME IInv, NEW w \in Workers, NEW p \in Pids, NEW r \in Requests, r.type = "remove",
           CallRemove(w, p, r.name)
    PROVE  Served(w, p, r)
<1>1. PICK f \in Names : f = r.name
  BY RequestShape
<1>2. \A res : <<r.type, res>> \notin Targeted
  BY DEF Targeted
<1>3. destroy_error(files[f].size) \in Results /\ remove_error(p, f) \in Results
  BY DEF destroy_error, removed_error, remove_error, Results
<1>4. ASSUME RemoveFile(p, f), NEW res \in Results, Returns(w, res) PROVE Served(w, p, r)
  <2>1. KeepsEntries(p) /\ KeepsSleepers(p) /\ waiting' = waiting /\ undefined = "no"
    BY <1>4, RemoveFileKeeps
  <2>2. waiting[p] = NULL
    BY <1>4 DEF RemoveFile, Ready
  <2>3. Next
    BY <1>4 DEF Next, OnName
  <2> QED BY <1>2, <1>4, <2>1, <2>2, <2>3 DEF Served, Results
<1>5. ASSUME Refused(p), NEW res \in Results, Returns(w, res) PROVE Served(w, p, r)
  BY <1>2, <1>5, RefusedServed
<1> QED BY <1>1, <1>3, <1>4, <1>5 DEF CallRemove
-----------------------------------------------------------------------------
(* The steps of the clients and of the master leave the file system alone. *)

LEMMA FilesUntouched ==
    ASSUME SInv, UNCHANGED <<vars, worker>>
    PROVE  IInv' /\ Files'
<1>1. IInv'
  BY NextInv DEF SInv
<1>2. UNCHANGED <<fdt, waiting, undefined>>
  BY DEF vars
<1>3. TargetsAreOpen'
  BY <1>2 DEF SInv, Files, TargetsAreOpen, InUse
<1>4. SleepersMatch'
  BY <1>2 DEF SInv, Files, SleepersMatch
<1> QED BY <1>1, <1>3, <1>4 DEF Files

LEMMA ConnectInv ==
    ASSUME SInv, Connect
    PROVE  SInv'
<1>1. UNCHANGED <<vars, conn, asked, unread, master, set, fd_num, rdset, active, signals, sent,
                  queue, pipe, worker, wl>>
  BY DEF Connect, loop, pool
<1>2. ServerTypeOK'
  <2>1. backlog' \in BOOLEAN /\ connects' \in 0..MaxConnections
    BY ServerAssumption DEF SInv, ServerTypeOK, ClientsOK, Connect
  <2> QED BY <1>1, <2>1 DEF SInv, ServerTypeOK, ClientsOK, LoopOK, PoolOK
<1>3. PassIsCurrent'
  BY <1>1 DEF SInv, Handling, PassIsCurrent, HasCome, Connect
<1>4. /\ EachClientInOnePlace' /\ WorkersAtWork' /\ PendingIsAsked' /\ SelectSeesAll'
      /\ ConnectionsAreCounted' /\ DownForAReason' /\ Queues'
  BY <1>1 DEF SInv, EachClientInOnePlace, Places, Count, Handling, WorkersAtWork, AtWork,
              PendingIsAsked, SelectSeesAll, ConnectionsAreCounted, DownForAReason,
              Queues, WaitersArePresent, WaitersDiffer
<1>5. IInv' /\ Files'
  BY <1>1, FilesUntouched
<1> QED BY <1>2, <1>3, <1>4, <1>5 DEF SInv, Handling

(* A client that has nothing asked is with no worker unless it has gone,   *)
(* and in no list.                                                         *)
LEMMA IdleClient ==
    ASSUME SInv, NEW p \in Pids, asked[p] = NULL, conn[p] = "open"
    PROVE  (\A w \in Workers : worker[w].pid # p) /\ wl.presence[p] = 0
<1>1. worker \in [Workers -> Handlings] /\ wl.presence[p] \in Nat
  BY DEF SInv, ServerTypeOK, PoolOK
<1>2. p # NoPid /\ NULL \notin Requests
  BY NoPidAssumption, ServerAssumption
<1>3. ASSUME NEW w \in Workers, worker[w].pid = p PROVE FALSE
  <2>1. worker[w].pc \in Steps
    BY <1>1 DEF Handlings
  <2>2. worker[w].pc \in {"call", "asleep", "respond", "leave", "close"}
    BY <1>2, <1>3, <2>1 DEF SInv, Handling, WorkersAtWork, AtWork, Steps
  <2> QED BY <1>2, <1>3, <2>2 DEF SInv, Handling, WorkersAtWork, AtWork
<1>4. wl.presence[p] = 0
  BY <1>1 DEF SInv, Handling, PendingIsAsked
<1> QED BY <1>3, <1>4

LEMMA Queued ==
    ASSUME SInv, NEW t \in Names
    PROVE  /\ wl.queues[t] \in Seq([pid : Pids, req : Requests])
           /\ \A i \in DOMAIN wl.queues[t] :
                 LET el == wl.queues[t][i]
                 IN  /\ el.pid \in Pids /\ el.req \in Requests
                     /\ wl.presence[el.pid] > 0
                     /\ conn[el.pid] # "closed" /\ asked[el.pid] = el.req
<1>1. PICK q : q = wl.queues[t]
  OBVIOUS
<1>2. q \in Seq([pid : Pids, req : Requests])
  BY <1>1 DEF SInv, ServerTypeOK, PoolOK
<1>3. ASSUME NEW i \in DOMAIN q PROVE q[i].pid \in Pids /\ q[i].req \in Requests
  <2> DEFINE S == [pid : Pids, req : Requests]
  <2>1. q \in Seq(S)
    BY <1>2
  <2> HIDE DEF S
  <2>2. q[i] \in S
    BY <2>1
  <2> QED BY <2>2 DEF S
<1>4. ASSUME NEW i \in DOMAIN q
      PROVE  wl.presence[q[i].pid] > 0 /\ conn[q[i].pid] # "closed" /\ asked[q[i].pid] = q[i].req
  BY <1>1 DEF SInv, Queues, WaitersArePresent
<1> QED BY <1>1, <1>2, <1>3, <1>4

LEMMA SendInv ==
    ASSUME SInv, NEW p \in Pids, NEW req \in Requests, Send(p, req)
    PROVE  SInv'
<1>1. UNCHANGED <<vars, conn, backlog, connects, master, set, fd_num, rdset, active, signals, sent,
                  queue, pipe, worker, wl>>
  BY DEF Send, loop, pool
<1>2. /\ conn[p] = "open" /\ asked[p] = NULL
      /\ asked' = [asked EXCEPT ![p] = req] /\ unread' = unread \cup {p}
  BY DEF Send
<1>3. (\A w \in Workers : worker[w].pid # p) /\ wl.presence[p] = 0
  BY <1>2, IdleClient
<1>4. ClientsOK /\ PoolOK /\ NULL \notin Requests
  BY ServerAssumption DEF SInv, ServerTypeOK
<1>5. ServerTypeOK'
  BY <1>1, <1>2, <1>4 DEF SInv, ServerTypeOK, ClientsOK, LoopOK, PoolOK
<1>6. WorkersAtWork'
  <2>1. ASSUME NEW w \in Workers, worker[w].pc \in {"call", "asleep", "respond"}
        PROVE  asked'[worker[w].pid] = asked[worker[w].pid]
    <3>1. worker[w].pid \in Pids \cup {NoPid} /\ worker[w].pid # NoPid
      BY <1>4, <2>1 DEF PoolOK, Handlings, SInv, Handling, WorkersAtWork, AtWork
    <3> QED BY <1>2, <1>3, <1>4, <3>1 DEF ClientsOK
  <2> QED BY <1>1, <1>2, <1>3, <2>1 DEF SInv, Handling, WorkersAtWork, AtWork
<1>7. PassIsCurrent'
  BY <1>1, <1>2 DEF SInv, Handling, PassIsCurrent, HasCome
<1>8. PendingIsAsked'
  BY <1>1, <1>2, <1>3, <1>4 DEF SInv, Handling, PendingIsAsked, ClientsOK
<1>9. Queues'
  <2>1. ASSUME NEW t \in Names, NEW i \in DOMAIN wl.queues[t]
        PROVE  asked'[wl.queues[t][i].pid] = asked[wl.queues[t][i].pid]
    <3>1. wl.queues[t][i].pid \in Pids /\ wl.queues[t][i].req \in Requests
      BY Queued
    <3>2. wl.queues[t][i].pid # p
      BY <1>2, <1>4, Queued
    <3> QED BY <1>2, <1>4, <3>1, <3>2 DEF ClientsOK
  <2> QED BY <1>1, <2>1 DEF SInv, Queues, WaitersArePresent, WaitersDiffer
<1>10. EachClientInOnePlace' /\ SelectSeesAll' /\ ConnectionsAreCounted' /\ DownForAReason'
  BY <1>1 DEF SInv, EachClientInOnePlace, Places, Count, SelectSeesAll, ConnectionsAreCounted,
              DownForAReason
<1>11. IInv' /\ Files'
  BY <1>1, FilesUntouched
<1> QED BY <1>5, <1>6, <1>7, <1>8, <1>9, <1>10, <1>11 DEF SInv, Handling

LEMMA HangUpInv ==
    ASSUME SInv, NEW p \in Pids, HangUp(p)
    PROVE  SInv'
<1>1. UNCHANGED <<vars, asked, unread, backlog, connects, master, set, fd_num, rdset, active,
                  signals, sent, queue, pipe, worker, wl>>
  BY DEF HangUp, loop, pool
<1>2. conn[p] = "open" /\ conn' = [conn EXCEPT ![p] = "hungup"]
  BY DEF HangUp
<1>3. /\ conn \in [Pids -> {"closed", "open", "hungup"}]
      /\ conn' \in [Pids -> {"closed", "open", "hungup"}]
      /\ \A q \in Pids : conn'[q] = IF q = p THEN "hungup" ELSE conn[q]
  BY <1>2 DEF SInv, ServerTypeOK, ClientsOK
<1>4. ServerTypeOK'
  BY <1>1, <1>3 DEF SInv, ServerTypeOK, ClientsOK, LoopOK, PoolOK
<1>5. PoolOK /\ LoopOK
  BY DEF SInv, ServerTypeOK
<1>6. EachClientInOnePlace'
  <2>1. \A q \in Pids : Places(q)' = Places(q)
    BY <1>1 DEF Places, Count
  <2>2. Places(p) = 1
    BY <1>2 DEF SInv, EachClientInOnePlace
  <2> QED BY <1>3, <2>1, <2>2 DEF SInv, EachClientInOnePlace
<1>7. WorkersAtWork'
  <2>1. ASSUME NEW w \in Workers, worker[w].pc \in {"leave", "close"}
        PROVE  conn'[worker[w].pid] = "hungup"
    <3>1. worker[w].pid \in Pids
      BY <1>5, <2>1 DEF PoolOK, Handlings, SInv, Handling, WorkersAtWork, AtWork
    <3> QED BY <1>3, <2>1, <3>1 DEF SInv, Handling, WorkersAtWork, AtWork
  <2> QED BY <1>1, <2>1 DEF SInv, Handling, WorkersAtWork, AtWork
<1>8. PassIsCurrent'
  BY <1>1, <1>2, <1>3 DEF SInv, Handling, PassIsCurrent, HasCome
<1>9. ConnectionsAreCounted'
  <2>1. {q \in Pids : conn'[q] # "closed"} = {q \in Pids : conn[q] # "closed"}
    BY <1>2, <1>3
  <2> QED BY <1>1, <2>1 DEF SInv, ConnectionsAreCounted, Count
<1>10. DownForAReason'
  BY <1>1, <1>2, <1>3 DEF SInv, DownForAReason
<1>11. Queues'
  <2>1. ASSUME NEW t \in Names, NEW i \in DOMAIN wl.queues[t]
        PROVE  conn'[wl.queues[t][i].pid] # "closed"
    <3>1. wl.queues[t][i].pid \in Pids /\ conn[wl.queues[t][i].pid] # "closed"
      BY Queued
    <3> QED BY <1>3, <3>1
  <2> QED BY <1>1, <2>1 DEF SInv, Queues, WaitersArePresent, WaitersDiffer
<1>12. PendingIsAsked' /\ SelectSeesAll'
  BY <1>1 DEF SInv, Handling, PendingIsAsked, SelectSeesAll
<1>13. IInv' /\ Files'
  BY <1>1, FilesUntouched
<1> QED BY <1>4, <1>6, <1>7, <1>8, <1>9, <1>10, <1>11, <1>12, <1>13 DEF SInv, Handling

(* When no connection is counted, none is there. *)
LEMMA CountedOut ==
    ASSUME NEW con, NEW msgs \in Seq(Pids \cup {Gone}), NEW work, NEW n,
           n = Cardinality({p \in Pids : con[p] # "closed"}) + Count(msgs, Gone)
                  + Cardinality({w \in Workers : work[w].pc = "announce"}),
           n = 0
    PROVE  \A p \in Pids : con[p] = "closed"
<1> DEFINE C == {p \in Pids : con[p] # "closed"}
           A == {w \in Workers : work[w].pc = "announce"}
<1>1. C \in SUBSET Pids /\ A \in SUBSET Workers /\ IsFiniteSet(Pids) /\ IsFiniteSet(Workers)
  BY ServerAssumption
<1>2. IsFiniteSet(C) /\ IsFiniteSet(A)
  BY <1>1, FS_Subset
<1>3. Cardinality(C) \in Nat /\ Cardinality(A) \in Nat /\ (Cardinality(C) = 0 <=> C = {})
  BY <1>2, FS_CardinalityType, FS_EmptySet
<1>5. Count(msgs, Gone) \in Nat
  BY CountType
<1>6. 0 = Cardinality(C) + Count(msgs, Gone) + Cardinality(A)
  OBVIOUS
<1>7. C = {}
  <2> HIDE DEF C, A
  <2> QED BY <1>3, <1>5, <1>6
<1> QED BY <1>7

LEMMA NoneIsLeft ==
    ASSUME SInv, active = 0
    PROVE  \A p \in Pids : conn[p] = "closed"
<1>1. pipe \in Seq(Pids \cup {Gone}) /\ ConnectionsAreCounted
  BY DEF SInv, ServerTypeOK, PoolOK
<1> QED BY <1>1, CountedOut DEF ConnectionsAreCounted

LEMMA SignalInv ==
    ASSUME SInv, NEW kind \in Terminations, NEW interrupts \in BOOLEAN, Signal(kind, interrupts)
    PROVE  SInv'
<1>1. UNCHANGED <<vars, conn, asked, unread, backlog, connects, set, fd_num, rdset, active, sent,
                  queue, pipe, worker, wl>>
  BY DEF Signal, clients, pool
<1>2. /\ signals' = signals \cup {kind}
      /\ \/ master' = master
         \/ "hard" \in signals' \/ Drained(signals', active)
  BY DEF Signal
<1>3. master' \in {master, "terminating"}
  BY DEF Signal
<1>4. ServerTypeOK'
  <2>1. LoopOK'
    BY <1>1, <1>2, <1>3 DEF SInv, ServerTypeOK, LoopOK
  <2> QED BY <1>1, <2>1 DEF SInv, ServerTypeOK, ClientsOK, PoolOK
<1>5. DownForAReason'
  <2>1. Drained(signals', active) => "soft" \in signals' /\ \A p \in Pids : conn[p] = "closed"
    BY NoneIsLeft DEF Drained
  <2> QED BY <1>1, <1>2, <2>1 DEF SInv, DownForAReason
<1>6. /\ EachClientInOnePlace' /\ WorkersAtWork' /\ PassIsCurrent' /\ PendingIsAsked'
      /\ SelectSeesAll' /\ ConnectionsAreCounted' /\ Queues'
  BY <1>1 DEF SInv, EachClientInOnePlace, Places, Count, Handling, WorkersAtWork, AtWork,
              PassIsCurrent, HasCome, PendingIsAsked, SelectSeesAll, ConnectionsAreCounted,
              Queues, WaitersArePresent, WaitersDiffer
<1>7. IInv' /\ Files'
  BY <1>1, FilesUntouched
<1> QED BY <1>4, <1>5, <1>6, <1>7 DEF SInv, Handling

LEMMA SelectInv ==
    ASSUME SInv, Select
    PROVE  SInv'
<1>1. UNCHANGED <<vars, conn, asked, unread, backlog, connects, master, set, fd_num, active,
                  signals, sent, queue, pipe, worker, wl>>
  BY DEF Select, clients, pool
<1>2. /\ rdset' \subseteq set \cup {Channel, Listener}
      /\ \A fd \in rdset' : HasInput(fd)
  BY DEF Select
<1>3. ServerTypeOK'
  <2>1. LoopOK'
    BY <1>1, <1>2 DEF SInv, ServerTypeOK, LoopOK
  <2> QED BY <1>1, <2>1 DEF SInv, ServerTypeOK, ClientsOK, PoolOK
<1>4. PassIsCurrent'
  <2>1. \A p \in Pids : p # Channel /\ p # Listener
    BY ServerAssumption DEF Channel, Listener
  <2>2. \A p \in Pids \cap rdset' : p \in set /\ HasCome(p)
    BY <1>2, <2>1 DEF HasInput, HasCome
  <2>3. Channel \in rdset' => pipe # <<>>
    <3>1. HasInput(Channel) => pipe # <<>>
      BY DEF HasInput, Channel, Listener
    <3> QED BY <1>2, <3>1
  <2>4. Listener \in rdset' => backlog
    BY <1>2 DEF HasInput, Channel, Listener
  <2> QED BY <1>1, <2>2, <2>3, <2>4 DEF SInv, Handling, PassIsCurrent, HasCome
<1>5. /\ EachClientInOnePlace' /\ WorkersAtWork' /\ PendingIsAsked'
      /\ SelectSeesAll' /\ ConnectionsAreCounted' /\ DownForAReason' /\ Queues'
  BY <1>1 DEF SInv, EachClientInOnePlace, Places, Count, Handling, WorkersAtWork, AtWork,
              PendingIsAsked, SelectSeesAll, ConnectionsAreCounted, DownForAReason,
              Queues, WaitersArePresent, WaitersDiffer
<1>6. IInv' /\ Files'
  BY <1>1, FilesUntouched
<1> QED BY <1>3, <1>4, <1>5, <1>6 DEF SInv, Handling

(* The step from the places of a client before to those after. *)
LEMMA PlacesAfter ==
    ASSUME NEW p \in Pids, PoolOK'
    PROVE  Places(p)' = One(p \in set') + Count(queue', p) + Count(pipe', p)
                            + wl'.presence[p] + Cardinality(Holders(worker', p))
BY CountIn DEF Places, Holders, One, Count

LEMMA AcceptInv ==
    ASSUME SInv, Accept
    PROVE  SInv'
<1>1. UNCHANGED <<vars, asked, unread, connects, master, signals, sent, queue, pipe, worker, wl>>
  BY DEF Accept, pool
<1>2. /\ master = "running" /\ Listener \in rdset
      /\ rdset' = rdset \ {Listener} /\ backlog' = FALSE
  BY DEF Accept, Visits
<1>3. ClientsOK /\ LoopOK /\ PoolOK /\ (\A p \in Pids : p \in Nat /\ p # Listener)
  BY ServerAssumption DEF SInv, ServerTypeOK, Listener
<1>4. IInv' /\ Files'
  BY <1>1, FilesUntouched
<1>5. CASE UNCHANGED <<conn, set, fd_num, active>>
  <2>1. ServerTypeOK'
    BY <1>1, <1>2, <1>3, <1>5 DEF ServerTypeOK, ClientsOK, LoopOK, PoolOK
  <2>2. PassIsCurrent'
    BY <1>1, <1>2, <1>3, <1>5 DEF SInv, Handling, PassIsCurrent, HasCome
  <2>3. /\ EachClientInOnePlace' /\ WorkersAtWork' /\ PendingIsAsked'
        /\ SelectSeesAll' /\ ConnectionsAreCounted' /\ DownForAReason' /\ Queues'
    BY <1>1, <1>5 DEF SInv, EachClientInOnePlace, Places, Count, Handling, WorkersAtWork, AtWork,
                PendingIsAsked, SelectSeesAll, ConnectionsAreCounted, DownForAReason,
                Queues, WaitersArePresent, WaitersDiffer
  <2> QED BY <1>4, <2>1, <2>2, <2>3 DEF SInv, Handling
<1>6. CASE ~UNCHANGED <<conn, set, fd_num, active>>
  <2> DEFINE free == {p \in Pids : conn[p] = "closed"}
  <2>1. /\ conn' = [conn EXCEPT ![Min(free)] = "open"] /\ set' = set \cup {Min(free)}
        /\ fd_num' = Raised(Min(free)) /\ active' = active + 1
    BY <1>6 DEF Accept
  <2>2. PICK c \in Pids : c = Min(free) /\ conn[c] = "closed"
    <3>1. free # {} /\ free \in SUBSET Nat
      BY <1>2, <1>3 DEF SInv, Handling, PassIsCurrent
    <3>2. Min(free) \in free
      BY <3>1, MinIsLeast
    <3> HIDE DEF free
    <3>3. Min(free) \in Pids /\ conn[Min(free)] = "closed"
      BY <3>2 DEF free
    <3> QED BY <3>3
  <2> HIDE DEF free
  <2>3. /\ conn \in [Pids -> {"closed", "open", "hungup"}]
        /\ conn' \in [Pids -> {"closed", "open", "hungup"}]
        /\ \A q \in Pids : conn'[q] = IF q = c THEN "open" ELSE conn[q]
    BY <1>3, <2>1, <2>2 DEF ClientsOK
  <2>4. set' = set \cup {c} /\ fd_num' = IF c > fd_num THEN c ELSE fd_num
    BY <2>1, <2>2 DEF Raised
  <2>5. ServerTypeOK'
    <3>1. ClientsOK'
      BY <1>1, <1>2, <1>3, <2>3 DEF ClientsOK
    <3>2. LoopOK'
      BY <1>1, <1>2, <1>3, <2>1, <2>2, <2>4 DEF LoopOK
    <3> QED BY <1>1, <1>3, <3>1, <3>2 DEF ServerTypeOK, PoolOK
  <2>6. EachClientInOnePlace'
    <3> SUFFICES ASSUME NEW p \in Pids
                 PROVE  /\ conn'[p] = "closed" => Places(p)' = 0
                        /\ conn'[p] = "open" => Places(p)' = 1
                        /\ conn'[p] = "hungup" => Places(p)' <= 1
      BY DEF EachClientInOnePlace
    <3>1. /\ Places(p) = One(p \in set) + Count(queue, p) + Count(pipe, p)
                             + wl.presence[p] + Cardinality(Holders(worker, p))
          /\ Count(queue, p) \in Nat /\ Count(pipe, p) \in Nat
          /\ wl.presence[p] \in Nat /\ Cardinality(Holders(worker, p)) \in Nat
      BY PlacesAre DEF SInv
    <3>2. Places(p)' = One(p \in set') + Count(queue, p) + Count(pipe, p)
                             + wl.presence[p] + Cardinality(Holders(worker, p))
      BY <1>1, <2>5, PlacesAfter DEF ServerTypeOK
    <3>3. CASE p = c
      <4>1. Places(p) = 0
        BY <2>2, <3>3 DEF SInv, EachClientInOnePlace
      <4>2. Places(p)' = 1
        BY <2>4, <3>1, <3>2, <3>3, <4>1 DEF One
      <4> QED BY <2>3, <3>3, <4>2
    <3>4. CASE p # c
      <4>1. Places(p)' = Places(p)
        BY <2>4, <3>1, <3>2, <3>4 DEF One
      <4> QED BY <2>3, <3>4, <4>1 DEF SInv, EachClientInOnePlace
    <3> QED BY <3>3, <3>4
  <2>7. WorkersAtWork'
    <3>1. ASSUME NEW w \in Workers, worker[w].pc \in {"leave", "close"}
          PROVE  conn'[worker[w].pid] = "hungup"
      <4>1. worker[w].pid \in Pids /\ conn[worker[w].pid] = "hungup"
        BY <1>3, <3>1 DEF PoolOK, Handlings, SInv, Handling, WorkersAtWork, AtWork
      <4> QED BY <2>2, <2>3, <4>1
    <3> QED BY <1>1, <3>1 DEF SInv, Handling, WorkersAtWork, AtWork
  <2>8. PassIsCurrent'
    BY <1>1, <1>2, <1>3, <2>2, <2>3, <2>4 DEF SInv, Handling, PassIsCurrent, HasCome
  <2>9. SelectSeesAll'
    <3>1. ASSUME NEW fd \in set' \cup {Channel, Listener} PROVE fd <= fd_num'
      <4>1. CASE fd = c
        BY <1>3, <2>4, <4>1 DEF LoopOK
      <4>2. CASE fd # c
        <5>1. fd \in set \cup {Channel, Listener} /\ fd \in Nat
          BY <1>3, <2>4, <3>1, <4>2 DEF LoopOK, Channel, Listener
        <5>2. fd <= fd_num
          BY <5>1 DEF SInv, SelectSeesAll
        <5> QED BY <1>3, <2>4, <5>1, <5>2 DEF LoopOK
      <4> QED BY <4>1, <4>2
    <3> QED BY <3>1 DEF SelectSeesAll
  <2>10. ConnectionsAreCounted'
    <3> DEFINE C == {q \in Pids : conn[q] # "closed"}
               D == {q \in Pids : conn'[q] # "closed"}
    <3>1. C \ {c} = D \ {c} /\ c \notin C /\ c \in D
      BY <2>2, <2>3
    <3>2. IsFiniteSet(C)
      <4>1. C \in SUBSET Pids /\ IsFiniteSet(Pids)
        BY ServerAssumption
      <4> QED BY <4>1, FS_Subset
    <3>3. active = Cardinality(C) + Count(pipe, Gone)
                       + Cardinality({w \in Workers : worker[w].pc = "announce"})
      BY DEF SInv, ConnectionsAreCounted
    <3> HIDE DEF C, D
    <3>4. Cardinality(D) = Cardinality(C) + 1 /\ Cardinality(C) \in Nat
      <4>1. /\ Cardinality(D) = Cardinality(C) - One(c \in C) + One(c \in D)
            /\ Cardinality(C) \in Nat
        <5>1. PICK A, B : A = C /\ B = D
          OBVIOUS
        <5>2. IsFiniteSet(A) /\ A \ {c} = B \ {c}
          BY <3>1, <3>2, <5>1
        <5>3. /\ Cardinality(B) = Cardinality(A) - One(c \in A) + One(c \in B)
              /\ Cardinality(A) \in Nat
          BY <5>2, CountBut DEF One
        <5> QED BY <5>1, <5>3
      <4> QED BY <3>1, <4>1 DEF One
    <3>5. /\ Count(pipe, Gone) \in Nat
          /\ Cardinality({w \in Workers : worker[w].pc = "announce"}) \in Nat
      <4>1. {w \in Workers : worker[w].pc = "announce"} \in SUBSET Workers
        OBVIOUS
      <4>2. Cardinality({w \in Workers : worker[w].pc = "announce"}) \in Nat
        BY <4>1, ServerAssumption, FS_Subset, FS_CardinalityType
      <4> QED BY <1>3, <4>2, CountType DEF PoolOK
    <3>6. active' = Cardinality(D) + Count(pipe, Gone)
                       + Cardinality({w \in Workers : worker[w].pc = "announce"})
      BY <2>1, <3>3, <3>4, <3>5
    <3> QED BY <1>1, <3>6 DEF ConnectionsAreCounted, D, Count
  <2>11. DownForAReason'
    BY <1>1, <1>2 DEF DownForAReason
  <2>12. Queues'
    <3>1. ASSUME NEW t \in Names, NEW i \in DOMAIN wl.queues[t]
          PROVE  conn'[wl.queues[t][i].pid] # "closed"
      BY <2>3, Queued
    <3> QED BY <1>1, <3>1 DEF SInv, Queues, WaitersArePresent, WaitersDiffer
  <2>13. PendingIsAsked'
    BY <1>1 DEF SInv, Handling, PendingIsAsked
  <2> QED BY <1>4, <2>5, <2>6, <2>7, <2>8, <2>9, <2>10, <2>11, <2>12, <2>13 DEF SInv, Handling
<1> QED BY <1>5, <1>6

(* When every client has as many places as before, or as its socket says.  *)
LEMMA PlacesKept ==
    ASSUME SInv, conn' = conn, \A p \in Pids : Places(p)' = Places(p)
    PROVE  EachClientInOnePlace'
BY DEF SInv, EachClientInOnePlace

LEMMA HandleMessageInv ==
    ASSUME SInv, HandleMessage
    PROVE  SInv'
<1>1. UNCHANGED <<vars, conn, asked, unread, backlog, connects, signals, sent, queue, worker, wl>>
  BY DEF HandleMessage, clients
<1>2. /\ Channel \in rdset /\ rdset' = rdset \ {Channel} /\ pipe' = Tail(pipe)
      /\ master = "running"
  BY DEF HandleMessage, Visits
<1>3. ClientsOK /\ LoopOK /\ PoolOK /\ pipe # <<>> /\ SelectSeesAll
  BY <1>2 DEF SInv, ServerTypeOK, Handling, PassIsCurrent
<1>4. \A p \in Pids : p \in Nat /\ p # Gone /\ p # Channel /\ p # Listener
  BY ServerAssumption DEF Gone, Channel, Listener
<1>5. PICK c \in Pids \cup {Gone} : c = Head(pipe)
  BY <1>3 DEF PoolOK
<1>6. pipe' \in Seq(Pids \cup {Gone}) /\ pipe \in Seq(Pids \cup {Gone})
  BY <1>2, <1>3 DEF PoolOK
<1>7. PoolOK'
  BY <1>1, <1>3, <1>6 DEF PoolOK
<1>8. \A x : Count(pipe', x) = Count(pipe, x) - One(c = x)
  BY <1>2, <1>3, <1>5, <1>6, CountTail DEF One
<1>9. ClientsOK' /\ IInv' /\ Files'
  BY <1>1, <1>3, FilesUntouched DEF ClientsOK
<1>10. WorkersAtWork' /\ PendingIsAsked' /\ Queues'
  BY <1>1 DEF SInv, Handling, WorkersAtWork, AtWork, PendingIsAsked, Queues, WaitersArePresent,
              WaitersDiffer
<1>11. ASSUME NEW p \in Pids
       PROVE  /\ Places(p) = One(p \in set) + Count(queue, p) + Count(pipe, p)
                                + wl.presence[p] + Cardinality(Holders(worker, p))
              /\ Places(p)' = One(p \in set') + Count(queue, p) + Count(pipe, p) - One(c = p)
                                 + wl.presence[p] + Cardinality(Holders(worker, p))
              /\ Count(queue, p) \in Nat /\ Count(pipe, p) \in Nat /\ wl.presence[p] \in Nat
              /\ Cardinality(Holders(worker, p)) \in Nat
              /\ Places(p) \in Nat /\ Places(p) <= 1
  <2>1. /\ Places(p) = One(p \in set) + Count(queue, p) + Count(pipe, p)
                          + wl.presence[p] + Cardinality(Holders(worker, p))
        /\ Count(queue, p) \in Nat /\ Count(pipe, p) \in Nat /\ wl.presence[p] \in Nat
        /\ Cardinality(Holders(worker, p)) \in Nat
    BY PlacesAre DEF SInv
  <2>2. Places(p)' = One(p \in set') + Count(queue, p) + Count(pipe', p)
                        + wl.presence[p] + Cardinality(Holders(worker, p))
    BY <1>1, <1>7, PlacesAfter
  <2>3. Places(p) \in Nat /\ Places(p) <= 1
    BY HeldOnce DEF SInv
  <2>4. Count(pipe', p) = Count(pipe, p) - One(c = p)
    BY <1>8
  <2> QED BY <2>1, <2>2, <2>3, <2>4 DEF One
<1>12. CASE c = Gone
  <2>1. /\ active' = active - 1 /\ set' = set /\ fd_num' = fd_num
        /\ master' = master \/ Drained(signals, active')
        /\ master' \in {master, "terminating"}
    BY <1>4, <1>5, <1>12 DEF HandleMessage
  <2>2. LoopOK'
    BY <1>1, <1>2, <1>3, <2>1 DEF LoopOK
  <2>3. EachClientInOnePlace'
    <3>1. ASSUME NEW p \in Pids PROVE Places(p)' = Places(p)
      BY <1>4, <1>11, <1>12, <2>1 DEF One
    <3> QED BY <1>1, <3>1, PlacesKept
  <2>4. PassIsCurrent'
    BY <1>1, <1>2, <1>4, <2>1 DEF SInv, Handling, PassIsCurrent, HasCome
  <2>5. ConnectionsAreCounted'
    <3> DEFINE n == Cardinality({p \in Pids : conn[p] # "closed"})
               m == Cardinality({w \in Workers : worker[w].pc = "announce"})
    <3>1. active = n + Count(pipe, Gone) + m
      BY DEF SInv, ConnectionsAreCounted
    <3>2. Count(pipe', Gone) = Count(pipe, Gone) - 1 /\ Count(pipe, Gone) \in Nat
      BY <1>6, <1>8, <1>12, CountType DEF One
    <3>3. n \in Nat /\ m \in Nat
      <4>1. {p \in Pids : conn[p] # "closed"} \in SUBSET Pids
            /\ {w \in Workers : worker[w].pc = "announce"} \in SUBSET Workers
        OBVIOUS
      <4> QED BY <4>1, ServerAssumption, FS_Subset, FS_CardinalityType
    <3> HIDE DEF n, m
    <3>4. active' = n + Count(pipe', Gone) + m
      BY <2>1, <3>1, <3>2, <3>3
    <3> QED BY <1>1, <3>4 DEF ConnectionsAreCounted, n, m, Count
  <2>6. DownForAReason'
    <3>1. ASSUME active' = 0 PROVE \A p \in Pids : conn'[p] = "closed"
      <4>1. PICK con, msgs, work : con = conn' /\ msgs = pipe' /\ work = worker'
        OBVIOUS
      <4> QED BY <1>6, <2>5, <3>1, <4>1, CountedOut DEF ConnectionsAreCounted
    <3> QED BY <1>1, <1>2, <2>1, <3>1 DEF DownForAReason, Drained
  <2>7. SelectSeesAll'
    BY <1>3, <2>1 DEF SelectSeesAll
  <2> QED BY <1>7, <1>9, <1>10, <2>2, <2>3, <2>4, <2>5, <2>6, <2>7
        DEF SInv, Handling, ServerTypeOK
<1>13. CASE c # Gone
  <2>1. /\ c \in Pids /\ active' = active /\ master' = master
        /\ set' = set \cup {c} /\ fd_num' = IF c > fd_num THEN c ELSE fd_num
    BY <1>5, <1>13 DEF HandleMessage, Raised
  <2>2. LoopOK'
    BY <1>1, <1>2, <1>3, <1>4, <2>1 DEF LoopOK
  <2>3. c \notin set
    <3>1. Count(pipe, c) # 0
      <4>1. 1 \in DOMAIN pipe /\ pipe[1] = c
        BY <1>3, <1>5, <1>6
      <4> QED BY <1>6, <4>1, CountType
    <3>2. /\ Places(c) = One(c \in set) + Count(queue, c) + Count(pipe, c)
                            + wl.presence[c] + Cardinality(Holders(worker, c))
          /\ Count(queue, c) \in Nat /\ Count(pipe, c) \in Nat /\ wl.presence[c] \in Nat
          /\ Cardinality(Holders(worker, c)) \in Nat /\ Places(c) <= 1
      BY <1>11, <2>1
    <3> QED BY <3>1, <3>2 DEF One
  <2>4. EachClientInOnePlace'
    <3>1. ASSUME NEW p \in Pids PROVE Places(p)' = Places(p)
      BY <1>11, <2>1, <2>3 DEF One
    <3> QED BY <1>1, <3>1, PlacesKept
  <2>5. PassIsCurrent'
    BY <1>1, <1>2, <1>4, <2>1 DEF SInv, Handling, PassIsCurrent, HasCome
  <2>6. ConnectionsAreCounted'
    <3>1. Count(pipe', Gone) = Count(pipe, Gone)
      <4>1. Count(pipe, Gone) \in Nat
        BY <1>6, CountType
      <4>2. Count(pipe', Gone) = Count(pipe, Gone) - One(c = Gone)
        BY <1>8
      <4> QED BY <1>13, <4>1, <4>2 DEF One
    <3> QED BY <1>1, <2>1, <3>1 DEF SInv, ConnectionsAreCounted, Count
  <2>7. SelectSeesAll'
    <3>1. ASSUME NEW fd \in set' \cup {Channel, Listener} PROVE fd <= fd_num'
      <4>1. fd \in Nat /\ fd_num \in Nat /\ c \in Nat
        BY <1>3, <1>4, <2>1 DEF LoopOK, Channel, Listener
      <4>2. fd = c \/ fd <= fd_num
        BY <1>3, <2>1 DEF SelectSeesAll
      <4> QED BY <2>1, <4>1, <4>2
    <3> QED BY <3>1 DEF SelectSeesAll
  <2>8. DownForAReason'
    BY <1>2, <2>1 DEF DownForAReason
  <2> QED BY <1>7, <1>9, <1>10, <2>2, <2>4, <2>5, <2>6, <2>7, <2>8
        DEF SInv, Handling, ServerTypeOK
<1> QED BY <1>12, <1>13

(* A message that is put into the queue of the workers. *)
LEMMA EnqueueFacts ==
    ASSUME SInv, NEW el \in Pids \cup {TERMINATE}, Enqueue(el),
           UNCHANGED <<pipe, worker, wl>>
    PROVE  /\ PoolOK' /\ \A p \in Pids : Count(queue', p) = Count(queue, p) + One(el = p)
           /\ \A i \in DOMAIN queue' :
                 queue'[i] = el \/ (i \in DOMAIN queue /\ queue'[i] = queue[i])
<1>1. PoolOK
  BY DEF SInv, ServerTypeOK
<1>2. queue \in Seq(Pids \cup {TERMINATE}) /\ queue' = Append(queue, el)
  BY <1>1 DEF PoolOK, Enqueue
<1>3. queue' \in Seq(Pids \cup {TERMINATE})
  BY <1>2
<1>4. PoolOK'
  BY <1>1, <1>3 DEF PoolOK
<1>5. \A p \in Pids : Count(queue', p) = Count(queue, p) + One(el = p)
  BY <1>2, CountAppend DEF One
<1>6. \A i \in DOMAIN queue' : queue'[i] = el \/ (i \in DOMAIN queue /\ queue'[i] = queue[i])
  BY <1>2
<1> QED BY <1>4, <1>5, <1>6

LEMMA DispatchInv ==
    ASSUME SInv, NEW fd \in Pids, Dispatch(fd)
    PROVE  SInv'
<1>1. UNCHANGED <<vars, conn, asked, unread, backlog, connects, master, active, signals, sent,
                  pipe, worker, wl>>
  BY DEF Dispatch, clients
<1>2. /\ fd \in rdset /\ rdset' = rdset \ {fd} /\ set' = set \ {fd}
      /\ fd_num' = IF fd = fd_num THEN fd_num - 1 ELSE fd_num
  BY DEF Dispatch, Visits, Cleared, Lowered
<1>3. /\ PoolOK' /\ \A p \in Pids : Count(queue', p) = Count(queue, p) + One(fd = p)
      /\ \A i \in DOMAIN queue' : queue'[i] = fd \/ (i \in DOMAIN queue /\ queue'[i] = queue[i])
  BY <1>1, EnqueueFacts DEF Dispatch
<1>4. LoopOK /\ ClientsOK /\ fd \in set /\ HasCome(fd) /\ SelectSeesAll /\ PassIsCurrent
  BY <1>2 DEF SInv, ServerTypeOK, Handling, PassIsCurrent
<1>5. \A p \in Pids : p \in Nat /\ p > 2
  BY ServerAssumption DEF Listener
<1>6. fd_num \in Nat /\ fd <= fd_num
  BY <1>4 DEF LoopOK, SelectSeesAll
<1>7. ServerTypeOK'
  <2>1. fd_num' \in Nat
    BY <1>2, <1>5, <1>6
  <2>2. LoopOK'
    BY <1>1, <1>2, <1>4, <2>1 DEF LoopOK
  <2> QED BY <1>1, <1>3, <1>4, <2>2 DEF ServerTypeOK, ClientsOK
<1>8. EachClientInOnePlace'
  <2>1. ASSUME NEW p \in Pids PROVE Places(p)' = Places(p)
    <3>1. /\ Places(p) = One(p \in set) + Count(queue, p) + Count(pipe, p)
                            + wl.presence[p] + Cardinality(Holders(worker, p))
          /\ Count(queue, p) \in Nat /\ Count(pipe, p) \in Nat /\ wl.presence[p] \in Nat
          /\ Cardinality(Holders(worker, p)) \in Nat
      BY PlacesAre DEF SInv
    <3>2. Places(p)' = One(p \in set') + Count(queue', p) + Count(pipe, p)
                          + wl.presence[p] + Cardinality(Holders(worker, p))
      BY <1>1, <1>3, PlacesAfter
    <3>3. Count(queue', p) = Count(queue, p) + One(fd = p)
      BY <1>3
    <3> QED BY <1>2, <1>4, <3>1, <3>2, <3>3 DEF One
  <2> QED BY <1>1, <2>1, PlacesKept
<1>9. PassIsCurrent'
  BY <1>1, <1>2, <1>3, <1>4 DEF PassIsCurrent, HasCome
<1>10. SelectSeesAll'
  <2>1. ASSUME NEW x \in set' \cup {Channel, Listener} PROVE x <= fd_num'
    <3>1. x \in Nat /\ x <= fd_num /\ x # fd
      BY <1>2, <1>4, <1>5 DEF LoopOK, SelectSeesAll, Channel, Listener
    <3> QED BY <1>2, <1>6, <3>1
  <2> QED BY <2>1 DEF SelectSeesAll
<1>11. /\ WorkersAtWork' /\ PendingIsAsked' /\ Queues'
       /\ ConnectionsAreCounted' /\ DownForAReason'
  BY <1>1 DEF SInv, Handling, WorkersAtWork, AtWork, PendingIsAsked, Queues, WaitersArePresent,
              WaitersDiffer, ConnectionsAreCounted, Count, DownForAReason
<1>12. IInv' /\ Files'
  BY <1>1, FilesUntouched
<1> QED BY <1>7, <1>8, <1>9, <1>10, <1>11, <1>12 DEF SInv, Handling

LEMMA SendTerminationInv ==
    ASSUME SInv, SendTermination
    PROVE  SInv'
<1>1. UNCHANGED <<vars, conn, asked, unread, backlog, connects, set, fd_num, rdset, active,
                  signals, pipe, worker, wl>>
  BY DEF SendTermination, clients
<1>2. master = "terminating" /\ sent' = sent + 1 /\ master' \in {"joining", master}
  BY DEF SendTermination
<1>3. /\ PoolOK' /\ \A p \in Pids : Count(queue', p) = Count(queue, p) + One(TERMINATE = p)
      /\ \A i \in DOMAIN queue' :
            queue'[i] = TERMINATE \/ (i \in DOMAIN queue /\ queue'[i] = queue[i])
  <2>1. PICK el \in Pids \cup {TERMINATE} : el = TERMINATE
    OBVIOUS
  <2>2. Enqueue(el)
    BY <2>1 DEF SendTermination
  <2> QED BY <1>1, <2>1, <2>2, EnqueueFacts
<1>4. \A p \in Pids : p # TERMINATE
  BY ServerAssumption DEF TERMINATE
<1>5. ServerTypeOK'
  <2>1. LoopOK'
    BY <1>1, <1>2 DEF SInv, ServerTypeOK, LoopOK
  <2> QED BY <1>1, <1>3, <2>1 DEF SInv, ServerTypeOK, ClientsOK
<1>6. EachClientInOnePlace'
  <2>1. ASSUME NEW p \in Pids PROVE Places(p)' = Places(p)
    <3>1. /\ Places(p) = One(p \in set) + Count(queue, p) + Count(pipe, p)
                            + wl.presence[p] + Cardinality(Holders(worker, p))
          /\ Count(queue, p) \in Nat
      BY PlacesAre DEF SInv
    <3>2. Places(p)' = One(p \in set) + Count(queue', p) + Count(pipe, p)
                          + wl.presence[p] + Cardinality(Holders(worker, p))
      BY <1>1, <1>3, PlacesAfter
    <3>3. Count(queue', p) = Count(queue, p)
      BY <1>3, <1>4, <3>1 DEF One
    <3> QED BY <3>1, <3>2, <3>3
  <2> QED BY <1>1, <2>1, PlacesKept
<1>7. PassIsCurrent'
  BY <1>1, <1>3, <1>4 DEF SInv, Handling, PassIsCurrent, HasCome
<1>8. /\ WorkersAtWork' /\ PendingIsAsked' /\ Queues' /\ SelectSeesAll' /\ ConnectionsAreCounted'
  BY <1>1 DEF SInv, Handling, WorkersAtWork, AtWork, PendingIsAsked, Queues, WaitersArePresent,
              WaitersDiffer, ConnectionsAreCounted, Count, SelectSeesAll
<1>9. DownForAReason'
  BY <1>1, <1>2 DEF SInv, DownForAReason
<1>10. IInv' /\ Files'
  BY <1>1, FilesUntouched
<1> QED BY <1>5, <1>6, <1>7, <1>8, <1>9, <1>10 DEF SInv, Handling

LEMMA JoinInv ==
    ASSUME SInv, Join
    PROVE  SInv'
<1>1. UNCHANGED <<vars, conn, asked, unread, backlog, connects, set, fd_num, rdset, active,
                  signals, sent, queue, pipe, worker, wl>>
  BY DEF Join, clients, pool
<1>2. master = "joining" /\ master' = "stopped"
  BY DEF Join
<1>3. ServerTypeOK' /\ DownForAReason'
  BY <1>1, <1>2 DEF SInv, ServerTypeOK, ClientsOK, LoopOK, PoolOK, DownForAReason
<1>4. /\ EachClientInOnePlace' /\ WorkersAtWork' /\ PassIsCurrent' /\ PendingIsAsked'
      /\ SelectSeesAll' /\ ConnectionsAreCounted' /\ Queues'
  BY <1>1 DEF SInv, EachClientInOnePlace, Places, Count, Handling, WorkersAtWork, AtWork,
              PassIsCurrent, HasCome, PendingIsAsked, SelectSeesAll, ConnectionsAreCounted,
              Queues, WaitersArePresent, WaitersDiffer
<1>5. IInv' /\ Files'
  BY <1>1, FilesUntouched
<1> QED BY <1>3, <1>4, <1>5 DEF SInv, Handling
-----------------------------------------------------------------------------
(* A step of a worker, which goes on as s.                                 *)

Goes(w, s) == worker' = [worker EXCEPT ![w] = s]

Announcing(W) == {w \in Workers : W[w].pc = "announce"}

LEMMA WorkerIs ==
    ASSUME SInv, NEW w \in Workers
    PROVE  /\ worker[w] \in Handlings /\ AtWork(worker[w])
           /\ worker[w].pid \in Pids \/ worker[w].pid = NoPid
           /\ worker[w].pc \notin {"idle", "broadcast", "announce", "ended"} =>
                 worker[w].pid \in Pids
           /\ NoPid \notin Pids
<1>1. worker[w] \in Handlings /\ AtWork(worker[w])
  BY DEF SInv, ServerTypeOK, PoolOK, Handling, WorkersAtWork
<1> QED BY <1>1, NoPidAssumption DEF Handlings, AtWork

LEMMA GoesFacts ==
    ASSUME SInv, NEW w \in Workers, NEW s \in Handlings, Goes(w, s)
    PROVE  /\ worker' \in [Workers -> Handlings] /\ worker'[w] = s
           /\ \A v \in Workers \ {w} : worker'[v] = worker[v]
           /\ \A p \in Pids :
                 /\ Cardinality(Holders(worker, p)) \in Nat
                 /\ Cardinality(Holders(worker', p)) =
                       Cardinality(Holders(worker, p)) - One(worker[w].pid = p) + One(s.pid = p)
           /\ Cardinality(Announcing(worker)) \in Nat
           /\ Cardinality(Announcing(worker')) =
                 Cardinality(Announcing(worker)) - One(worker[w].pc = "announce")
                    + One(s.pc = "announce")
<1>1. worker \in [Workers -> Handlings]
  BY DEF SInv, ServerTypeOK, PoolOK
<1>2. worker' \in [Workers -> Handlings] /\ worker'[w] = s
      /\ \A v \in Workers \ {w} : worker'[v] = worker[v]
  BY <1>1 DEF Goes
<1>3. ASSUME NEW p \in Pids
      PROVE  /\ Cardinality(Holders(worker, p)) \in Nat
             /\ Cardinality(Holders(worker', p)) =
                   Cardinality(Holders(worker, p)) - One(worker[w].pid = p) + One(s.pid = p)
  <2>1. Holders(worker, p) \in SUBSET Workers
    BY DEF Holders
  <2>2. IsFiniteSet(Holders(worker, p))
    BY <2>1, ServerAssumption, FS_Subset
  <2>3. Holders(worker, p) \ {w} = Holders(worker', p) \ {w}
    BY <1>2 DEF Holders
  <2>4. /\ w \in Holders(worker, p) <=> worker[w].pid = p
        /\ w \in Holders(worker', p) <=> s.pid = p
    BY <1>2 DEF Holders
  <2>5. PICK A, B : A = Holders(worker, p) /\ B = Holders(worker', p)
    OBVIOUS
  <2>6. IsFiniteSet(A) /\ A \ {w} = B \ {w}
    BY <2>2, <2>3, <2>5
  <2>7. /\ Cardinality(A) \in Nat
        /\ Cardinality(B) = Cardinality(A) - One(w \in A) + One(w \in B)
    BY <2>6, CountBut DEF One
  <2> QED BY <2>4, <2>5, <2>7 DEF One
<1>4. /\ Cardinality(Announcing(worker)) \in Nat
      /\ Cardinality(Announcing(worker')) =
            Cardinality(Announcing(worker)) - One(worker[w].pc = "announce")
               + One(s.pc = "announce")
  <2>1. Announcing(worker) \in SUBSET Workers
    BY DEF Announcing
  <2>2. IsFiniteSet(Announcing(worker))
    BY <2>1, ServerAssumption, FS_Subset
  <2>3. Announcing(worker) \ {w} = Announcing(worker') \ {w}
    BY <1>2 DEF Announcing
  <2>4. /\ w \in Announcing(worker) <=> worker[w].pc = "announce"
        /\ w \in Announcing(worker') <=> s.pc = "announce"
    BY <1>2 DEF Announcing
  <2>5. PICK A, B : A = Announcing(worker) /\ B = Announcing(worker')
    OBVIOUS
  <2>6. IsFiniteSet(A) /\ A \ {w} = B \ {w}
    BY <2>2, <2>3, <2>5
  <2>7. /\ Cardinality(A) \in Nat
        /\ Cardinality(B) = Cardinality(A) - One(w \in A) + One(w \in B)
    BY <2>6, CountBut DEF One
  <2> QED BY <2>4, <2>5, <2>7 DEF One
<1> QED BY <1>2, <1>3, <1>4

(* The places of a client before and after. *)
LEMMA PlacesMoved ==
    ASSUME SInv, NEW w \in Workers, NEW s \in Handlings, Goes(w, s), PoolOK', set' = set,
           NEW p \in Pids
    PROVE  /\ Places(p) = One(p \in set) + Count(queue, p) + Count(pipe, p)
                             + wl.presence[p] + Cardinality(Holders(worker, p))
           /\ Places(p)' = One(p \in set) + Count(queue', p) + Count(pipe', p)
                             + wl'.presence[p] + Cardinality(Holders(worker, p))
                             - One(worker[w].pid = p) + One(s.pid = p)
           /\ Count(queue, p) \in Nat /\ Count(pipe, p) \in Nat
           /\ wl.presence[p] \in Nat /\ Cardinality(Holders(worker, p)) \in Nat
<1>1. /\ Places(p) = One(p \in set) + Count(queue, p) + Count(pipe, p)
                        + wl.presence[p] + Cardinality(Holders(worker, p))
      /\ Count(queue, p) \in Nat /\ Count(pipe, p) \in Nat
      /\ wl.presence[p] \in Nat /\ Cardinality(Holders(worker, p)) \in Nat
  BY PlacesAre DEF SInv
<1>2. Places(p)' = One(p \in set) + Count(queue', p) + Count(pipe', p)
                      + wl'.presence[p] + Cardinality(Holders(worker', p))
  BY PlacesAfter
<1>3. Cardinality(Holders(worker', p)) =
          Cardinality(Holders(worker, p)) - One(worker[w].pid = p) + One(s.pid = p)
  BY GoesFacts
<1>4. queue' \in Seq(Pids \cup {TERMINATE}) /\ pipe' \in Seq(Pids \cup {Gone})
      /\ wl'.presence[p] \in Nat
  BY DEF PoolOK
<1>5. Count(queue', p) \in Nat /\ Count(pipe', p) \in Nat
  BY <1>4, CountType
<1>6. PICK a \in Nat, b \in Nat, c \in Nat :
          a = One(p \in set) /\ b = One(worker[w].pid = p) /\ c = One(s.pid = p)
  BY DEF One
<1>7. Places(p)' = a + Count(queue', p) + Count(pipe', p)
                      + wl'.presence[p] + (Cardinality(Holders(worker, p)) - b + c)
  BY <1>2, <1>3, <1>6 DEF One
<1>8. Places(p)' = a + Count(queue', p) + Count(pipe', p)
                      + wl'.presence[p] + Cardinality(Holders(worker, p)) - b + c
  <2>1. PICK i \in Nat, j \in Nat, k \in Nat, h \in Nat :
            /\ i = Count(queue', p) /\ j = Count(pipe', p) /\ k = wl'.presence[p]
            /\ h = Cardinality(Holders(worker, p))
    BY <1>1, <1>4, <1>5
  <2>2. a + i + j + k + (h - b + c) = a + i + j + k + h - b + c
    OBVIOUS
  <2> QED BY <1>7, <2>1, <2>2
<1> QED BY <1>1, <1>6, <1>8 DEF One

(* The others are where they were, when p is with none of them. *)
LEMMA OthersAtWork ==
    ASSUME SInv, NEW w \in Workers, NEW s \in Handlings, Goes(w, s), NEW p,
           \A v \in Workers \ {w} : worker[v].pid = p => p = NoPid,
           \A q \in Pids \ {p} : asked'[q] = asked[q] /\ conn'[q] = conn[q],
           unread' \subseteq unread, AtWork(s)'
    PROVE  WorkersAtWork'
<1>1. ASSUME NEW v \in Workers PROVE AtWork(worker[v])'
  <2>1. CASE v = w
    BY <2>1, GoesFacts
  <2>2. CASE v # w
    <3>1. worker'[v] = worker[v]
      BY <2>2, GoesFacts
    <3>2. AtWork(worker[v]) /\ (worker[v].pid \in Pids \/ worker[v].pid = NoPid)
      BY WorkerIs
    <3>3. worker[v].pid \in Pids \ {p} \/ worker[v].pid = NoPid
      BY <2>2, <3>2
    <3> QED BY <3>1, <3>2, <3>3 DEF AtWork
  <2> QED BY <2>1, <2>2
<1> QED BY <1>1 DEF WorkersAtWork

LEMMA CountedStill ==
    ASSUME SInv, NEW w \in Workers, NEW s \in Handlings, Goes(w, s), UNCHANGED <<conn, active>>,
           Count(pipe', Gone) = Count(pipe, Gone), worker[w].pc # "announce", s.pc # "announce"
    PROVE  ConnectionsAreCounted'
<1>1. {v \in Workers : worker'[v].pc = "announce"} = {v \in Workers : worker[v].pc = "announce"}
  BY GoesFacts
<1> QED BY <1>1 DEF SInv, ConnectionsAreCounted, Count

(* The file system after a step of a worker outside of it. *)
LEMMA FilesQuiet ==
    ASSUME SInv, NEW w \in Workers, NEW s \in Handlings, Goes(w, s), UNCHANGED vars,
           worker[w].pc # "asleep", s.pc \notin {"asleep", "respond"}
    PROVE  IInv' /\ Files'
<1>1. IInv'
  BY NextInv DEF SInv
<1>2. UNCHANGED <<fdt, waiting, undefined>>
  BY DEF vars
<1>3. worker'[w] = s /\ \A v \in Workers \ {w} : worker'[v] = worker[v]
  BY GoesFacts
<1>4. TargetsAreOpen'
  BY <1>2, <1>3 DEF SInv, Files, TargetsAreOpen, InUse
<1>5. SleepersMatch'
  BY <1>2, <1>3 DEF SInv, Files, SleepersMatch
<1> QED BY <1>1, <1>4, <1>5 DEF Files

(* The file system after a call for the client of the worker. *)
LEMMA FilesServed ==
    ASSUME SInv, NEW w \in Workers, NEW s \in Handlings, Goes(w, s), NEW p \in Pids,
           worker[w].pid = p, s.pid = p,
           [Next]_vars, KeepsEntries(p), KeepsSleepers(p), undefined = "no",
           s.pc = "asleep" <=> waiting'[p] # NULL,
           s.pc = "respond" /\ <<s.req.type, s.res>> \in Targeted =>
              s.req.fd \in InUse(fdt') /\ fdt'.table[s.req.fd].owner = p
    PROVE  IInv' /\ Files'
<1>1. IInv'
  BY NextInv DEF SInv
<1>2. worker'[w] = s /\ \A v \in Workers \ {w} : worker'[v] = worker[v]
  BY GoesFacts
<1>3. \A v \in Workers \ {w} : worker[v].pid # p
  BY HeldOnce DEF SInv
<1>4. TargetsAreOpen'
  <2>1. ASSUME NEW v \in Workers, worker'[v].pc = "respond",
               <<worker'[v].req.type, worker'[v].res>> \in Targeted
        PROVE  /\ worker'[v].req.fd \in InUse(fdt')
               /\ fdt'.table[worker'[v].req.fd].owner = worker'[v].pid
    <3>1. CASE v = w
      BY <1>2, <2>1, <3>1
    <3>2. CASE v # w
      <4>1. worker'[v] = worker[v] /\ worker[v].pid # p
        BY <1>2, <1>3, <3>2
      <4>2. worker[v].req.fd \in InUse(fdt) /\ fdt.table[worker[v].req.fd].owner = worker[v].pid
        BY <2>1, <4>1 DEF SInv, Files, TargetsAreOpen, Targeted
      <4> QED BY <4>1, <4>2 DEF KeepsEntries
    <3> QED BY <3>1, <3>2
  <2> QED BY <2>1 DEF TargetsAreOpen, Targeted, InUse
<1>5. SleepersMatch'
  <2>1. ASSUME NEW q \in Pids
        PROVE  waiting'[q] # NULL <=>
                   \E v \in Workers : worker'[v].pid = q /\ worker'[v].pc = "asleep"
    <3>1. CASE q = p
      BY <1>2, <1>3, <3>1
    <3>2. CASE q # p
      <4>1. waiting'[q] = NULL <=> waiting[q] = NULL
        BY <3>2 DEF KeepsSleepers, StillSleeps
      <4>2. waiting[q] # NULL <=> \E v \in Workers : worker[v].pid = q /\ worker[v].pc = "asleep"
        BY DEF SInv, Files, SleepersMatch
      <4>3. \A v \in Workers : worker'[v].pid = q <=> worker[v].pid = q
        BY <1>2, <3>2
      <4>4. \A v \in Workers : worker[v].pid = q => worker'[v] = worker[v]
        BY <1>2, <3>2
      <4> QED BY <4>1, <4>2, <4>3, <4>4
    <3> QED BY <3>1, <3>2
  <2> QED BY <2>1 DEF SleepersMatch
<1> QED BY <1>1, <1>4, <1>5 DEF Files
-----------------------------------------------------------------------------
(* What a step of a worker leaves alone when only the worker changes.      *)
LEMMA Kept ==
    ASSUME SInv, UNCHANGED <<conn, master, set, fd_num, signals>>
    PROVE  SelectSeesAll' /\ DownForAReason'
BY DEF SInv, SelectSeesAll, DownForAReason

LEMMA CallInv ==
    ASSUME SInv, NEW w \in Workers, Call(w)
    PROVE  SInv' /\ [Next]_vars
<1>1. UNCHANGED <<conn, asked, unread, backlog, connects, master, set, fd_num, rdset, active,
                  signals, sent, queue, pipe, wl>>
  BY DEF Call, clients, loop
<1>2. /\ worker[w].pc = "call" /\ worker[w] \in Handlings /\ AtWork(worker[w])
      /\ worker[w].pid \in Pids
  BY WorkerIs DEF Call
<1>3. PICK p \in Pids, r \in Requests : p = worker[w].pid /\ r = worker[w].req
  BY <1>2 DEF AtWork
<1>4. IInv /\ worker \in [Workers -> Handlings]
  BY DEF SInv, ServerTypeOK, PoolOK
<1>5. Served(w, p, r)
  <2>1. \/ r.type = "open"   /\ CallOpen(w, p, r)
        \/ r.type = "lock"   /\ CallLock(w, p, r.fd)
        \/ r.type = "unlock" /\ CallUnlock(w, p, r.fd)
        \/ r.type = "close"  /\ CallClose(w, p, r.fd)
        \/ r.type = "remove" /\ CallRemove(w, p, r.name)
    BY <1>3 DEF Call
  <2> QED BY <1>4, <2>1, CallOpenServed, CallLockServed, CallUnlockServed, CallCloseServed,
             CallRemoveServed
<1>6. PICK s \in Handlings :
          /\ Goes(w, s) /\ s.pid = p /\ s.req = r /\ s.pc \in {"respond", "asleep"}
          /\ s.pc = "asleep" <=> waiting'[p] # NULL
          /\ s.pc = "asleep" => Waitable(r)
          /\ s.pc = "respond" /\ <<s.req.type, s.res>> \in Targeted =>
                s.req.fd \in InUse(fdt') /\ fdt'.table[s.req.fd].owner = p
  <2>1. ASSUME NEW res \in Results, Returns(w, res), waiting'[p] = NULL,
               <<r.type, res>> \in Targeted => r.fd \in InUse(fdt') /\ fdt'.table[r.fd].owner = p
        PROVE  \E s \in Handlings :
                   /\ Goes(w, s) /\ s.pid = p /\ s.req = r /\ s.pc \in {"respond", "asleep"}
                   /\ s.pc = "asleep" <=> waiting'[p] # NULL
                   /\ s.pc = "asleep" => Waitable(r)
                   /\ s.pc = "respond" /\ <<s.req.type, s.res>> \in Targeted =>
                         s.req.fd \in InUse(fdt') /\ fdt'.table[s.req.fd].owner = p
    <3> DEFINE s == [worker[w] EXCEPT !.pc = "respond", !.res = res]
    <3>1. Goes(w, s)
      BY <1>4, <2>1 DEF Returns, Goes
    <3>2. s \in Handlings /\ s.pid = p /\ s.req = r /\ s.pc = "respond" /\ s.res = res
      BY <1>2, <1>3 DEF Handlings, Steps
    <3> HIDE DEF s
    <3> QED BY <2>1, <3>1, <3>2
  <2>2. ASSUME worker' = [worker EXCEPT ![w].pc = "asleep"], waiting'[p] # NULL, Waitable(r)
        PROVE  \E s \in Handlings :
                   /\ Goes(w, s) /\ s.pid = p /\ s.req = r /\ s.pc \in {"respond", "asleep"}
                   /\ s.pc = "asleep" <=> waiting'[p] # NULL
                   /\ s.pc = "asleep" => Waitable(r)
                   /\ s.pc = "respond" /\ <<s.req.type, s.res>> \in Targeted =>
                         s.req.fd \in InUse(fdt') /\ fdt'.table[s.req.fd].owner = p
    <3> DEFINE s == [worker[w] EXCEPT !.pc = "asleep"]
    <3>1. Goes(w, s)
      BY <1>4, <2>2 DEF Goes
    <3>2. s \in Handlings /\ s.pid = p /\ s.req = r /\ s.pc = "asleep"
      BY <1>2, <1>3 DEF Handlings, Steps
    <3> HIDE DEF s
    <3> QED BY <2>2, <3>1, <3>2
  <2> QED BY <1>5, <2>1, <2>2 DEF Served
<1>7. [Next]_vars /\ KeepsEntries(p) /\ KeepsSleepers(p) /\ undefined = "no"
  BY <1>5 DEF Served
<1>8. IInv' /\ Files'
  BY <1>3, <1>6, <1>7, FilesServed
<1>9. worker' \in [Workers -> Handlings]
  BY <1>6, GoesFacts
<1>10. ServerTypeOK'
  <2>1. ClientsOK' /\ LoopOK'
    BY <1>1 DEF SInv, ServerTypeOK, ClientsOK, LoopOK
  <2>2. PoolOK'
    BY <1>1, <1>9 DEF SInv, ServerTypeOK, PoolOK
  <2> QED BY <2>1, <2>2 DEF ServerTypeOK
<1>11. EachClientInOnePlace'
  <2>1. ASSUME NEW q \in Pids PROVE Places(q)' = Places(q)
    <3>1. \A v \in Workers : worker'[v].pid = worker[v].pid
      BY <1>3, <1>6, GoesFacts
    <3> QED BY <1>1, <3>1 DEF Places, Count
  <2> QED BY <1>1, <2>1, PlacesKept
<1>12. WorkersAtWork'
  <2>1. AtWork(s)'
    BY <1>1, <1>2, <1>3, <1>6, WorkerIs DEF AtWork
  <2>2. \A v \in Workers \ {w} : worker[v].pid # p
    BY <1>3, HeldOnce DEF SInv
  <2> QED BY <1>1, <1>6, <2>1, <2>2, OthersAtWork
<1>13. PassIsCurrent' /\ PendingIsAsked' /\ Queues'
  BY <1>1 DEF SInv, Handling, PassIsCurrent, HasCome, PendingIsAsked, Queues, WaitersArePresent,
              WaitersDiffer
<1>14. ConnectionsAreCounted'
  BY <1>1, <1>2, <1>6, CountedStill
<1>15. SelectSeesAll' /\ DownForAReason'
  BY <1>1, Kept
<1> QED BY <1>7, <1>8, <1>10, <1>11, <1>12, <1>13, <1>14, <1>15 DEF SInv, Handling

LEMMA ResumeInv ==
    ASSUME SInv, NEW w \in Workers, Resume(w)
    PROVE  SInv' /\ [Next]_vars
<1>1. UNCHANGED <<conn, asked, unread, backlog, connects, master, set, fd_num, rdset, active,
                  signals, sent, queue, pipe, wl>>
  BY DEF Resume, clients, loop
<1>2. /\ worker[w].pc = "asleep" /\ worker[w] \in Handlings /\ AtWork(worker[w])
      /\ worker[w].pid \in Pids
  BY WorkerIs DEF Resume
<1>3. PICK p \in Pids, r \in Requests : p = worker[w].pid /\ r = worker[w].req
  BY <1>2 DEF AtWork
<1>4. IInv /\ worker \in [Workers -> Handlings]
  BY DEF SInv, ServerTypeOK, PoolOK
<1>5. PICK s \in Handlings :
          /\ Goes(w, s) /\ s.pid = p /\ s.req = r /\ s.pc \in {"respond", "asleep"}
          /\ s.pc = "asleep" <=> waiting'[p] # NULL
          /\ s.pc = "respond" => <<s.req.type, s.res>> \notin Targeted
  <2>1. ASSUME WakeUp(p), NEW res \in {"EMFILE", "ok"}, Returns(w, res)
        PROVE  \E s \in Handlings :
                   /\ Goes(w, s) /\ s.pid = p /\ s.req = r /\ s.pc \in {"respond", "asleep"}
                   /\ s.pc = "asleep" <=> waiting'[p] # NULL
                   /\ s.pc = "respond" => <<s.req.type, s.res>> \notin Targeted
    <3> DEFINE s == [worker[w] EXCEPT !.pc = "respond", !.res = res]
    <3>1. Goes(w, s)
      BY <1>4, <2>1 DEF Returns, Goes
    <3>2. s \in Handlings /\ s.pid = p /\ s.req = r /\ s.pc = "respond" /\ s.res = res
      BY <1>2, <1>3, <2>1 DEF Handlings, Steps, Results
    <3>3. waiting'[p] = NULL
      BY <1>4, <2>1, WakeUpKeeps
    <3>4. <<r.type, res>> \notin Targeted
      BY <1>2, <1>3, <2>1 DEF Targeted, AtWork, Waitable
    <3> HIDE DEF s
    <3> QED BY <3>1, <3>2, <3>3, <3>4
  <2>2. ASSUME SleepAgain(p), UNCHANGED worker
        PROVE  \E s \in Handlings :
                   /\ Goes(w, s) /\ s.pid = p /\ s.req = r /\ s.pc \in {"respond", "asleep"}
                   /\ s.pc = "asleep" <=> waiting'[p] # NULL
                   /\ s.pc = "respond" => <<s.req.type, s.res>> \notin Targeted
    <3>1. Goes(w, worker[w])
      BY <1>4, <2>2 DEF Goes
    <3>2. waiting'[p] # NULL
      BY <1>4, <2>2, FlagKeeps
    <3> QED BY <1>2, <1>3, <3>1, <3>2
  <2>3. \/ WakeUp(p) /\ \E res \in {"EMFILE", "ok"} : Returns(w, res)
        \/ SleepAgain(p) /\ UNCHANGED worker
    BY <1>3 DEF Resume
  <2> QED BY <2>1, <2>2, <2>3
<1>6. WakeUp(p) \/ SleepAgain(p)
  BY <1>3 DEF Resume
<1>7. [Next]_vars /\ KeepsEntries(p) /\ KeepsSleepers(p) /\ undefined = "no"
  BY <1>4, <1>6, WakeUpKeeps, FlagKeeps DEF Next
<1>8. IInv' /\ Files'
  BY <1>3, <1>5, <1>7, FilesServed
<1>9. worker' \in [Workers -> Handlings]
  BY <1>5, GoesFacts
<1>10. ServerTypeOK'
  <2>1. ClientsOK' /\ LoopOK'
    BY <1>1 DEF SInv, ServerTypeOK, ClientsOK, LoopOK
  <2>2. PoolOK'
    BY <1>1, <1>9 DEF SInv, ServerTypeOK, PoolOK
  <2> QED BY <2>1, <2>2 DEF ServerTypeOK
<1>11. EachClientInOnePlace'
  <2>1. ASSUME NEW q \in Pids PROVE Places(q)' = Places(q)
    <3>1. \A v \in Workers : worker'[v].pid = worker[v].pid
      BY <1>3, <1>5, GoesFacts
    <3> QED BY <1>1, <3>1 DEF Places, Count
  <2> QED BY <1>1, <2>1, PlacesKept
<1>12. WorkersAtWork'
  <2>1. AtWork(s)'
    BY <1>1, <1>2, <1>3, <1>5, WorkerIs DEF AtWork
  <2>2. \A v \in Workers \ {w} : worker[v].pid # p
    BY <1>3, HeldOnce DEF SInv
  <2> QED BY <1>1, <1>5, <2>1, <2>2, OthersAtWork
<1>13. PassIsCurrent' /\ PendingIsAsked' /\ Queues'
  BY <1>1 DEF SInv, Handling, PassIsCurrent, HasCome, PendingIsAsked, Queues, WaitersArePresent,
              WaitersDiffer
<1>14. ConnectionsAreCounted'
  BY <1>1, <1>2, <1>5, CountedStill
<1>15. SelectSeesAll' /\ DownForAReason'
  BY <1>1, Kept
<1> QED BY <1>7, <1>8, <1>10, <1>11, <1>12, <1>13, <1>14, <1>15 DEF SInv, Handling

LEMMA DequeueInv ==
    ASSUME SInv, NEW w \in Workers, Dequeue(w)
    PROVE  SInv'
<1>1. UNCHANGED <<vars, conn, asked, backlog, connects, master, set, fd_num, rdset, active,
                  signals, sent, pipe, wl>>
  BY DEF Dequeue, loop
<1>2. /\ worker[w].pc = "idle" /\ worker[w].pid = NoPid /\ worker[w] \in Handlings
      /\ NoPid \notin Pids
  BY WorkerIs DEF Dequeue, AtWork
<1>3. /\ queue \in Seq(Pids \cup {TERMINATE}) /\ queue # <<>> /\ queue' = Tail(queue)
      /\ worker \in [Workers -> Handlings] /\ asked \in [Pids -> Requests \cup {NULL}]
      /\ unread \subseteq Pids
  BY DEF Dequeue, TakeOut, SInv, ServerTypeOK, PoolOK, ClientsOK
<1>4. PICK c \in Pids \cup {TERMINATE} : c = Head(queue)
  BY <1>3
<1>5. /\ queue' \in Seq(Pids \cup {TERMINATE})
      /\ 1 \in DOMAIN queue /\ queue[1] = c
      /\ \A i \in DOMAIN queue' : i + 1 \in DOMAIN queue /\ queue'[i] = queue[i + 1]
  BY <1>3, <1>4
<1>6. \A p : Count(queue', p) = Count(queue, p) - One(c = p)
  BY <1>3, <1>4, CountTail DEF One
<1>7. TERMINATE \notin Pids
  BY ServerAssumption DEF TERMINATE
<1>8. PICK s \in Handlings :
          /\ Goes(w, s) /\ s.pc \in {"ended", "call", "leave"}
          /\ c = TERMINATE => s.pc = "ended" /\ s.pid = NoPid
          /\ c # TERMINATE => s.pc # "ended" /\ s.pid = c
          /\ s.pc = "call" => c \in unread /\ s.req = asked[c]
          /\ s.pc = "leave" => c \notin unread
          /\ unread' = unread \ {c}
  <2>1. CASE c = TERMINATE
    <3> DEFINE s == [worker[w] EXCEPT !.pc = "ended"]
    <3>1. worker' = [worker EXCEPT ![w].pc = "ended"] /\ unread' = unread
      BY <1>3, <1>4, <1>7, <2>1 DEF Dequeue
    <3>2. Goes(w, s)
      BY <1>3, <3>1 DEF Goes
    <3>3. s \in Handlings /\ s.pc = "ended" /\ s.pid = NoPid
      BY <1>2 DEF Handlings, Steps
    <3> HIDE DEF s
    <3> QED BY <1>3, <1>7, <2>1, <3>1, <3>2, <3>3
  <2>2. CASE c # TERMINATE /\ c \in unread
    <3> DEFINE s == [Idle EXCEPT !.pc = "call", !.pid = c, !.req = asked[c]]
    <3>1. Goes(w, s) /\ unread' = unread \ {c}
      BY <1>4, <2>2 DEF Dequeue, Goes
    <3>2. s \in Handlings /\ s.pc = "call" /\ s.pid = c /\ s.req = asked[c]
      BY <1>3, <2>2 DEF Handlings, Steps, Idle
    <3> HIDE DEF s
    <3> QED BY <2>2, <3>1, <3>2
  <2>3. CASE c # TERMINATE /\ c \notin unread
    <3> DEFINE s == [Idle EXCEPT !.pc = "leave", !.pid = c]
    <3>1. Goes(w, s) /\ unread' = unread
      BY <1>4, <2>3 DEF Dequeue, Goes
    <3>2. s \in Handlings /\ s.pc = "leave" /\ s.pid = c
      BY <2>3 DEF Handlings, Steps, Idle
    <3> HIDE DEF s
    <3> QED BY <2>3, <3>1, <3>2
  <2> QED BY <2>1, <2>2, <2>3
<1>9. worker' \in [Workers -> Handlings] /\ unread' \subseteq Pids
  BY <1>3, <1>8, GoesFacts
<1>10. ServerTypeOK' /\ PoolOK'
  <2>1. ClientsOK' /\ LoopOK'
    BY <1>1, <1>9 DEF SInv, ServerTypeOK, ClientsOK, LoopOK
  <2>2. PoolOK'
    BY <1>1, <1>5, <1>9 DEF SInv, ServerTypeOK, PoolOK
  <2> QED BY <2>1, <2>2 DEF ServerTypeOK
(* The client is nowhere else. *)
<1>11. ASSUME c \in Pids
       PROVE  /\ c \notin set /\ (\A v \in Workers : worker[v].pid # c)
              /\ \A i \in DOMAIN queue' : queue'[i] # c
  <2>1. Count(queue, c) \in Nat /\ Count(queue, c) # 0
    BY <1>3, <1>5, CountType
  <2>2. Places(c) \in Nat /\ Places(c) <= 1
    BY <1>11, HeldOnce DEF SInv
  <2>3. /\ Places(c) = One(c \in set) + Count(queue, c) + Count(pipe, c)
                          + wl.presence[c] + Cardinality(Holders(worker, c))
        /\ Count(pipe, c) \in Nat /\ wl.presence[c] \in Nat
        /\ Cardinality(Holders(worker, c)) \in Nat
    BY <1>11, PlacesAre DEF SInv
  <2>4. c \notin set /\ Count(queue, c) = 1
    BY <2>1, <2>2, <2>3 DEF One
  <2>5. \A v \in Workers : worker[v].pid # c
    BY <1>11, <2>1, HeldOnce DEF SInv
  <2>6. Count(queue', c) = 0
    <3>1. Count(queue', c) = Count(queue, c) - One(c = c)
      BY <1>6
    <3> QED BY <2>4, <3>1 DEF One
  <2>7. \A i \in DOMAIN queue' : queue'[i] # c
    <3>1. PICK q \in Seq(Pids \cup {TERMINATE}) : q = queue'
      BY <1>5
    <3>2. Count(q, c) = 0 <=> \A i \in DOMAIN q : q[i] # c
      BY CountType
    <3> QED BY <2>6, <3>1, <3>2
  <2> QED BY <2>4, <2>5, <2>7
<1>12. EachClientInOnePlace'
  <2>1. ASSUME NEW p \in Pids PROVE Places(p)' = Places(p)
    <3>1. /\ Places(p) = One(p \in set) + Count(queue, p) + Count(pipe, p)
                            + wl.presence[p] + Cardinality(Holders(worker, p))
          /\ Places(p)' = One(p \in set) + Count(queue', p) + Count(pipe', p)
                             + wl'.presence[p] + Cardinality(Holders(worker, p))
                             - One(worker[w].pid = p) + One(s.pid = p)
          /\ Count(queue, p) \in Nat /\ Count(pipe, p) \in Nat
          /\ wl.presence[p] \in Nat /\ Cardinality(Holders(worker, p)) \in Nat
      BY <1>1, <1>8, <1>10, PlacesMoved
    <3>2. Count(queue', p) = Count(queue, p) - One(c = p)
      BY <1>6
    <3>3. One(worker[w].pid = p) = 0 /\ One(s.pid = p) = One(c = p) /\ One(c = p) \in Nat
      BY <1>2, <1>7, <1>8 DEF One
    <3>4. PICK a \in Nat, d \in Nat : a = One(p \in set) /\ d = One(c = p)
      BY DEF One
    <3> QED BY <1>1, <3>1, <3>2, <3>3, <3>4 DEF One
  <2> QED BY <1>1, <2>1, PlacesKept
<1>13. WorkersAtWork'
  <2>1. AtWork(s)'
    <3>1. c \in Pids => HasCome(c)
      BY <1>5 DEF SInv, Handling, PassIsCurrent
    <3>2. c \in unread => asked[c] \in Requests
      BY DEF SInv, Handling, PendingIsAsked
    <3> QED BY <1>1, <1>2, <1>3, <1>7, <1>8, <3>1, <3>2 DEF AtWork, HasCome
  <2>2. ASSUME NEW v \in Workers \ {w}, worker[v].pid = s.pid PROVE s.pid = NoPid
    BY <1>8, <1>11, <2>2
  <2>3. \A q \in Pids \ {s.pid} : asked'[q] = asked[q] /\ conn'[q] = conn[q]
    BY <1>1
  <2>4. unread' \subseteq unread
    BY <1>8
  <2>5. PICK p : p = s.pid
    OBVIOUS
  <2> QED BY <1>8, <2>1, <2>2, <2>3, <2>4, <2>5, OthersAtWork
<1>14. PassIsCurrent'
  <2>1. \A p \in Pids \cap rdset : p \in set /\ p # c /\ HasCome(p)
    BY <1>11 DEF SInv, Handling, PassIsCurrent
  <2>2. \A i \in DOMAIN queue' : queue'[i] \in Pids => queue'[i] # c /\ HasCome(queue'[i])
    BY <1>5, <1>11 DEF SInv, Handling, PassIsCurrent
  <2> QED BY <1>1, <1>8, <2>1, <2>2 DEF SInv, Handling, PassIsCurrent, HasCome
<1>15. PendingIsAsked' /\ Queues'
  BY <1>1, <1>8 DEF SInv, Handling, PendingIsAsked, Queues, WaitersArePresent, WaitersDiffer
<1>16. ConnectionsAreCounted'
  BY <1>1, <1>2, <1>8, CountedStill
<1>17. SelectSeesAll' /\ DownForAReason'
  BY <1>1, Kept
<1>18. IInv' /\ Files'
  BY <1>1, <1>2, <1>8, FilesQuiet
<1> QED BY <1>10, <1>12, <1>13, <1>14, <1>15, <1>16, <1>17, <1>18 DEF SInv, Handling
-----------------------------------------------------------------------------
(* The answer, the waiting list and the end of a client.                   *)

LEMMA TargetIsNamed ==
    ASSUME SInv, NEW w \in Workers, worker[w].pc = "respond",
           \/ Waitable(worker[w].req) /\ worker[w].res = "EBUSY"
           \/ worker[w].req.type = "unlock" /\ worker[w].res = "ok"
    PROVE  Target(worker[w].req) \in Names
<1>1. PICK r \in Requests : r = worker[w].req
  BY WorkerIs DEF AtWork
<1>2. CASE r.type = "open"
  BY <1>1, <1>2, RequestShape DEF Target
<1>3. CASE r.type # "open"
  <2>1. <<worker[w].req.type, worker[w].res>> \in {<<"lock", "EBUSY">>, <<"unlock", "ok">>}
    BY <1>1, <1>3 DEF Waitable
  <2>2. r.fd \in InUse(fdt)
    BY <1>1, <2>1 DEF SInv, Files, TargetsAreOpen
  <2>3. fdt.table[r.fd] \in Entries
    BY <2>2 DEF SInv, IInv, Tables, TypeOK
  <2>4. Copy(r.fd) \in Copies
    BY <2>3 DEF Entries, Copy, fdt_get
  <2>5. Copy(r.fd).name \in Names
    BY <2>4 DEF Copies
  <2> QED BY <1>1, <1>3, <2>5 DEF Target
<1> QED BY <1>2, <1>3

(* What the worker does after the answer. *)
LEMMA ProceedsFacts ==
    ASSUME NEW w \in Workers, NEW target \in Names \cup {NULL}, Proceeds(w, target)
    PROVE  \E s \in Handlings :
               /\ Goes(w, s) /\ s.pid = NoPid /\ s.pc \in {"idle", "broadcast"}
               /\ s.pc = "broadcast" => s.target \in Names
<1>1. CASE target = NULL
  <2>1. Idle \in Handlings /\ Idle.pid = NoPid /\ Idle.pc = "idle"
    BY DEF Idle, Handlings, Steps
  <2> QED BY <1>1, <2>1 DEF Proceeds, Goes
<1>2. CASE target # NULL
  <2> DEFINE s == [Idle EXCEPT !.pc = "broadcast", !.target = target]
  <2>1. s \in Handlings /\ s.pid = NoPid /\ s.pc = "broadcast" /\ s.target = target
    BY DEF Idle, Handlings, Steps
  <2>2. Goes(w, s)
    BY <1>2 DEF Proceeds, Goes
  <2> HIDE DEF s
  <2> QED BY <1>2, <2>1, <2>2
<1> QED BY <1>1, <1>2

LEMMA SubscribeInv ==
    ASSUME SInv, NEW w \in Workers, Subscribe(w)
    PROVE  SInv'
<1>1. UNCHANGED <<vars, conn, asked, unread, backlog, connects, master, set, fd_num, rdset, active,
                  signals, sent, queue, pipe>>
  BY DEF Subscribe, clients, loop
<1>2. /\ worker[w].pc = "respond" /\ worker[w] \in Handlings /\ AtWork(worker[w])
      /\ worker[w].pid \in Pids /\ NoPid \notin Pids
  BY WorkerIs DEF Subscribe
<1>3. PICK p \in Pids, r \in Requests, t \in Names :
          /\ p = worker[w].pid /\ r = worker[w].req /\ t = Target(worker[w].req)
  BY <1>2, TargetIsNamed DEF Subscribe, AtWork
<1>4. asked[p] = r /\ p \notin unread /\ r # NULL
  BY <1>2, <1>3, RequestShape DEF AtWork
<1>5. /\ wl.presence[p] = 0 /\ Places(p) = 1 /\ conn[p] # "closed"
      /\ \A v \in Workers \ {w} : worker[v].pid # p
  BY <1>3, HeldOnce DEF SInv
<1>6. PICK s \in Handlings :
          /\ Goes(w, s) /\ s.pid = NoPid /\ s.pc \in {"idle", "broadcast"}
          /\ s.pc = "broadcast" => s.target \in Names
  <2>1. Proceeds(w, worker[w].target) /\ worker[w].target \in Names \cup {NULL}
    BY <1>2 DEF Subscribe, Handlings
  <2>2. PICK target \in Names \cup {NULL} : Proceeds(w, target)
    BY <2>1
  <2> QED BY <2>2, ProceedsFacts
<1> DEFINE el == [pid |-> p, req |-> r]
           S == [pid : Pids, req : Requests]
<1>7. wl.queues \in [Names -> Seq(S)] /\ wl.presence \in [Pids -> Nat]
  BY DEF SInv, ServerTypeOK, PoolOK
<1>8. el \in S /\ el.pid = p /\ el.req = r
  OBVIOUS
<1>9. wl' = [queues   |-> [wl.queues EXCEPT ![t] = Append(@, el)],
             presence |-> [wl.presence EXCEPT ![p] = @ + 1]]
  BY <1>3 DEF Subscribe, waiting_list_push
<1> HIDE DEF el, S
<1>10. /\ wl'.queues \in [Names -> Seq(S)] /\ wl'.presence \in [Pids -> Nat]
       /\ wl' = [queues |-> wl'.queues, presence |-> wl'.presence]
       /\ wl'.presence[p] = 1 /\ \A q \in Pids \ {p} : wl'.presence[q] = wl.presence[q]
       /\ wl'.queues[t] = Append(wl.queues[t], el)
       /\ \A u \in Names \ {t} : wl'.queues[u] = wl.queues[u]
  BY <1>5, <1>7, <1>8, <1>9
<1>11. ServerTypeOK' /\ PoolOK'
  <2>1. worker' \in [Workers -> Handlings]
    BY <1>6, GoesFacts
  <2>2. ClientsOK' /\ LoopOK'
    BY <1>1 DEF SInv, ServerTypeOK, ClientsOK, LoopOK
  <2>3. wl' \in [queues : [Names -> Seq(S)], presence : [Pids -> Nat]]
    BY <1>10
  <2>4. PoolOK'
    BY <1>1, <2>1, <2>3 DEF SInv, ServerTypeOK, PoolOK, S
  <2> QED BY <2>2, <2>4 DEF ServerTypeOK
<1>12. EachClientInOnePlace'
  <2>1. ASSUME NEW q \in Pids PROVE Places(q)' = Places(q)
    <3>1. /\ Places(q) = One(q \in set) + Count(queue, q) + Count(pipe, q)
                            + wl.presence[q] + Cardinality(Holders(worker, q))
          /\ Places(q)' = One(q \in set) + Count(queue', q) + Count(pipe', q)
                             + wl'.presence[q] + Cardinality(Holders(worker, q))
                             - One(worker[w].pid = q) + One(s.pid = q)
          /\ Count(queue, q) \in Nat /\ Count(pipe, q) \in Nat
          /\ wl.presence[q] \in Nat /\ Cardinality(Holders(worker, q)) \in Nat
      BY <1>1, <1>6, <1>11, PlacesMoved
    <3>2. One(s.pid = q) = 0 /\ One(worker[w].pid = q) = One(p = q)
      BY <1>2, <1>3, <1>6 DEF One
    <3>3. wl'.presence[q] = wl.presence[q] + One(p = q)
      BY <1>5, <1>7, <1>10 DEF One
    <3>4. PICK a \in Nat, d \in Nat : a = One(q \in set) /\ d = One(p = q)
      BY DEF One
    <3> QED BY <1>1, <3>1, <3>2, <3>3, <3>4 DEF One
  <2> QED BY <1>1, <2>1, PlacesKept
<1>13. WorkersAtWork'
  <2>1. AtWork(s)'
    BY <1>1, <1>2, <1>6 DEF AtWork, SInv, ServerTypeOK, ClientsOK
  <2> QED BY <1>1, <1>5, <1>6, <2>1, OthersAtWork
<1>14. PassIsCurrent'
  BY <1>1 DEF SInv, Handling, PassIsCurrent, HasCome
<1>15. PendingIsAsked'
  <2>1. ASSUME NEW q \in Pids, wl'.presence[q] > 0 PROVE q \notin unread /\ asked[q] # NULL
    <3>1. CASE q = p
      BY <1>4, <3>1
    <3>2. CASE q # p
      BY <1>10, <2>1, <3>2 DEF SInv, Handling, PendingIsAsked
    <3> QED BY <3>1, <3>2
  <2> QED BY <1>1, <2>1 DEF SInv, Handling, PendingIsAsked
<1>16. Queues'
  <2>1. ASSUME NEW u \in Names, NEW i \in DOMAIN wl'.queues[u]
        PROVE  \/ /\ i \in DOMAIN wl.queues[u] /\ wl'.queues[u][i] = wl.queues[u][i]
                  /\ wl.queues[u][i].pid \in Pids \ {p}
               \/ u = t /\ i = Len(wl.queues[t]) + 1 /\ wl'.queues[u][i] = el
    <3>1. PICK old \in Seq(S) : old = wl.queues[u]
      BY <1>7
    <3>2. \A j \in DOMAIN old : old[j].pid \in Pids \ {p}
      BY <1>5, <3>1, Queued
    <3>3. wl'.queues[u] = old \/ (u = t /\ wl'.queues[u] = Append(old, el))
      BY <1>10, <3>1
    <3> QED BY <1>8, <2>1, <3>1, <3>2, <3>3, SMTT(20)
  <2>2. WaitersArePresent'
    <3>1. ASSUME NEW u \in Names, NEW i \in DOMAIN wl'.queues[u]
          PROVE  LET e == wl'.queues[u][i]
                 IN  wl'.presence[e.pid] > 0 /\ conn[e.pid] # "closed" /\ asked[e.pid] = e.req
      <4>1. CASE wl'.queues[u][i] = el
        BY <1>4, <1>5, <1>8, <1>10, <4>1
      <4>2. CASE /\ i \in DOMAIN wl.queues[u] /\ wl'.queues[u][i] = wl.queues[u][i]
                 /\ wl.queues[u][i].pid \in Pids \ {p}
        <5>1. LET e == wl.queues[u][i]
              IN  wl.presence[e.pid] > 0 /\ conn[e.pid] # "closed" /\ asked[e.pid] = e.req
          BY <4>2, Queued
        <5> QED BY <1>10, <4>2, <5>1
      <4> QED BY <2>1, <4>1, <4>2
    <3> QED BY <1>1, <3>1 DEF WaitersArePresent
  <2>3. WaitersDiffer'
    <3>1. ASSUME NEW u \in Names, NEW i \in DOMAIN wl'.queues[u],
                 NEW x \in Names, NEW j \in DOMAIN wl'.queues[x],
                 wl'.queues[u][i].pid = wl'.queues[x][j].pid
          PROVE  u = x /\ i = j
      <4>1. \/ /\ i \in DOMAIN wl.queues[u] /\ wl'.queues[u][i] = wl.queues[u][i]
               /\ wl.queues[u][i].pid \in Pids \ {p}
            \/ u = t /\ i = Len(wl.queues[t]) + 1 /\ wl'.queues[u][i].pid = p
        BY <1>8, <2>1
      <4>2. \/ /\ j \in DOMAIN wl.queues[x] /\ wl'.queues[x][j] = wl.queues[x][j]
               /\ wl.queues[x][j].pid \in Pids \ {p}
            \/ x = t /\ j = Len(wl.queues[t]) + 1 /\ wl'.queues[x][j].pid = p
        BY <1>8, <2>1
      <4>3. WaitersDiffer
        BY DEF SInv, Queues
      <4> QED BY <3>1, <4>1, <4>2, <4>3 DEF WaitersDiffer
    <3> QED BY <3>1 DEF WaitersDiffer
  <2> QED BY <2>2, <2>3 DEF Queues
<1>17. ConnectionsAreCounted'
  BY <1>1, <1>2, <1>6, CountedStill
<1>18. SelectSeesAll' /\ DownForAReason'
  BY <1>1, Kept
<1>19. IInv' /\ Files'
  BY <1>1, <1>2, <1>6, FilesQuiet
<1> QED BY <1>11, <1>12, <1>13, <1>14, <1>15, <1>16, <1>17, <1>18, <1>19 DEF SInv, Handling

LEMMA RespondInv ==
    ASSUME SInv, NEW w \in Workers, Respond(w)
    PROVE  SInv'
<1>1. UNCHANGED <<vars, conn, unread, backlog, connects, master, set, fd_num, rdset, active,
                  signals, sent, queue, wl>>
  BY DEF Respond, loop
<1>2. /\ worker[w].pc = "respond" /\ worker[w] \in Handlings /\ AtWork(worker[w])
      /\ worker[w].pid \in Pids /\ NoPid \notin Pids
  BY WorkerIs DEF Respond
<1>3. PICK p \in Pids : p = worker[w].pid
  BY <1>2
<1>4. p \notin unread
  BY <1>2, <1>3 DEF AtWork
<1>5. /\ wl.presence[p] = 0 /\ Places(p) = 1 /\ conn[p] # "closed"
      /\ \A v \in Workers \ {w} : worker[v].pid # p
  BY <1>3, HeldOnce DEF SInv
<1>6. PICK s \in Handlings :
          /\ Goes(w, s) /\ s.pid = NoPid /\ s.pc \in {"idle", "broadcast"}
          /\ s.pc = "broadcast" => s.target \in Names
  <2>1. worker[w].target \in Names \cup {NULL}
    BY <1>2 DEF Handlings
  <2>2. worker[w].req.type = "unlock" /\ worker[w].res = "ok" => Target(worker[w].req) \in Names
    BY <1>2, TargetIsNamed
  <2>3. PICK target \in Names \cup {NULL} : Proceeds(w, target)
    BY <2>1, <2>2 DEF Respond
  <2> QED BY <2>3, ProceedsFacts
<1>7. \/ conn[p] = "open" /\ asked' = [asked EXCEPT ![p] = NULL] /\ pipe' = Append(pipe, p)
      \/ conn[p] # "open" /\ UNCHANGED <<asked, pipe>>
  BY <1>3 DEF Respond
<1>8. /\ asked \in [Pids -> Requests \cup {NULL}] /\ asked' \in [Pids -> Requests \cup {NULL}]
      /\ \A q \in Pids \ {p} : asked'[q] = asked[q]
  BY <1>7 DEF SInv, ServerTypeOK, ClientsOK
<1>9. /\ pipe \in Seq(Pids \cup {Gone}) /\ pipe' \in Seq(Pids \cup {Gone})
      /\ pipe # <<>> => pipe' # <<>>
  <2>1. pipe \in Seq(Pids \cup {Gone})
    BY DEF SInv, ServerTypeOK, PoolOK
  <2>2. CASE pipe' = Append(pipe, p)
    BY <2>1, <2>2
  <2>3. CASE pipe' = pipe
    BY <2>1, <2>3
  <2> QED BY <1>7, <2>2, <2>3
<1>10. Gone \notin Pids
  BY ServerAssumption DEF Gone, Listener
<1>11. ServerTypeOK' /\ PoolOK'
  <2>1. worker' \in [Workers -> Handlings]
    BY <1>6, GoesFacts
  <2>2. ClientsOK' /\ LoopOK'
    BY <1>1, <1>8 DEF SInv, ServerTypeOK, ClientsOK, LoopOK
  <2>3. PoolOK'
    BY <1>1, <1>9, <2>1 DEF SInv, ServerTypeOK, PoolOK
  <2> QED BY <2>2, <2>3 DEF ServerTypeOK
<1>12. \A x : Count(pipe, x) \in Nat
  BY <1>9, CountType
<1>13. \A x : pipe' = Append(pipe, p) => Count(pipe', x) = Count(pipe, x) + One(p = x)
  BY <1>9, CountAppend DEF One
<1>14. ASSUME NEW q \in Pids
       PROVE  /\ Places(q) = One(q \in set) + Count(queue, q) + Count(pipe, q)
                                + wl.presence[q] + Cardinality(Holders(worker, q))
              /\ Places(q)' = One(q \in set) + Count(queue, q) + Count(pipe', q)
                                 + wl.presence[q] + Cardinality(Holders(worker, q)) - One(p = q)
              /\ Count(queue, q) \in Nat
              /\ wl.presence[q] \in Nat /\ Cardinality(Holders(worker, q)) \in Nat
  <2>1. /\ Places(q) = One(q \in set) + Count(queue, q) + Count(pipe, q)
                          + wl.presence[q] + Cardinality(Holders(worker, q))
        /\ Places(q)' = One(q \in set) + Count(queue', q) + Count(pipe', q)
                           + wl'.presence[q] + Cardinality(Holders(worker, q))
                           - One(worker[w].pid = q) + One(s.pid = q)
        /\ Count(queue, q) \in Nat /\ Count(pipe, q) \in Nat
        /\ wl.presence[q] \in Nat /\ Cardinality(Holders(worker, q)) \in Nat
    BY <1>1, <1>6, <1>11, PlacesMoved
  <2>2. One(s.pid = q) = 0 /\ One(worker[w].pid = q) = One(p = q)
    BY <1>2, <1>3, <1>6 DEF One
  <2>3. Count(pipe', q) \in Nat
    BY <1>9, CountType
  <2>4. PICK a \in Nat, d \in Nat : a = One(q \in set) /\ d = One(p = q)
    BY DEF One
  <2> QED BY <1>1, <2>1, <2>2, <2>3, <2>4 DEF One
<1>15. EachClientInOnePlace'
  <2>1. CASE pipe' = Append(pipe, p)
    <3>1. ASSUME NEW q \in Pids PROVE Places(q)' = Places(q)
      <4>1. Count(pipe', q) = Count(pipe, q) + One(p = q) /\ Count(pipe, q) \in Nat
        BY <1>12, <1>13, <2>1
      <4>2. PICK a \in Nat, d \in Nat : a = One(q \in set) /\ d = One(p = q)
        BY DEF One
      <4> QED BY <1>14, <4>1, <4>2 DEF One
    <3> QED BY <1>1, <3>1, PlacesKept
  <2>2. CASE conn[p] # "open" /\ UNCHANGED <<asked, pipe>>
    <3>1. conn[p] = "hungup"
      BY <1>5, <2>2 DEF SInv, ServerTypeOK, ClientsOK
    <3>2. ASSUME NEW q \in Pids PROVE Places(q)' = Places(q) - One(p = q)
      <4>1. Count(pipe', q) = Count(pipe, q) /\ Count(pipe, q) \in Nat
        BY <1>12, <2>2
      <4>2. PICK a \in Nat, d \in Nat : a = One(q \in set) /\ d = One(p = q)
        BY DEF One
      <4> QED BY <1>14, <4>1, <4>2 DEF One
    <3>3. ASSUME NEW q \in Pids
          PROVE  /\ conn[q] = "closed" => Places(q)' = 0
                 /\ conn[q] = "open" => Places(q)' = 1
                 /\ conn[q] = "hungup" => Places(q)' <= 1
      <4>1. CASE q = p
        BY <1>5, <3>1, <3>2, <4>1 DEF One
      <4>2. CASE q # p
        <5>1. Places(q) \in Nat
          BY HeldOnce DEF SInv
        <5>2. Places(q)' = Places(q)
          BY <3>2, <4>2, <5>1 DEF One
        <5> QED BY <5>2 DEF SInv, EachClientInOnePlace
      <4> QED BY <4>1, <4>2
    <3> QED BY <1>1, <3>3 DEF EachClientInOnePlace
  <2> QED BY <1>7, <2>1, <2>2
<1>16. WorkersAtWork'
  <2>1. AtWork(s)'
    BY <1>1, <1>2, <1>6 DEF AtWork, SInv, ServerTypeOK, ClientsOK
  <2> QED BY <1>1, <1>5, <1>6, <1>8, <2>1, OthersAtWork
<1>17. PassIsCurrent'
  BY <1>1, <1>9 DEF SInv, Handling, PassIsCurrent, HasCome
<1>18. PendingIsAsked'
  <2>1. unread \subseteq Pids
    BY DEF SInv, ServerTypeOK, ClientsOK
  <2> QED BY <1>1, <1>4, <1>5, <1>8, <2>1 DEF SInv, Handling, PendingIsAsked
<1>19. Queues'
  <2>1. ASSUME NEW t \in Names, NEW i \in DOMAIN wl.queues[t]
        PROVE  asked'[wl.queues[t][i].pid] = asked[wl.queues[t][i].pid]
    <3>1. wl.queues[t][i].pid \in Pids /\ wl.presence[wl.queues[t][i].pid] > 0
      BY Queued
    <3> QED BY <1>5, <1>8, <3>1
  <2> QED BY <1>1, <2>1 DEF SInv, Queues, WaitersArePresent, WaitersDiffer
<1>20. ConnectionsAreCounted'
  <2>1. Count(pipe', Gone) = Count(pipe, Gone)
    <3>1. CASE pipe' = Append(pipe, p)
      <4>1. Count(pipe', Gone) = Count(pipe, Gone) + One(p = Gone) /\ Count(pipe, Gone) \in Nat
        BY <1>12, <1>13, <3>1
      <4> QED BY <1>10, <4>1 DEF One
    <3>2. CASE pipe' = pipe
      BY <3>2
    <3> QED BY <1>7, <3>1, <3>2
  <2> QED BY <1>1, <1>2, <1>6, <2>1, CountedStill
<1>21. SelectSeesAll' /\ DownForAReason'
  BY <1>1, Kept
<1>22. IInv' /\ Files'
  BY <1>1, <1>2, <1>6, FilesQuiet
<1> QED BY <1>11, <1>15, <1>16, <1>17, <1>18, <1>19, <1>20, <1>21, <1>22 DEF SInv, Handling

(* Every element of a queue is of a client that is present: pop returns    *)
(* the first one.                                                          *)
LEMMA PopTakesFirst ==
    ASSUME SInv, NEW t \in Names
    PROVE  /\ Valid(wl, t) = DOMAIN wl.queues[t]
           /\ Valid(wl, t) = {} => wl.queues[t] = <<>>
           /\ Valid(wl, t) # {} => Min(Valid(wl, t)) = 1 /\ 1 \in DOMAIN wl.queues[t]
<1>1. PICK q \in Seq([pid : Pids, req : Requests]) : q = wl.queues[t]
  BY Queued
<1>2. Valid(wl, t) = DOMAIN q
  BY <1>1, Queued DEF Valid
<1>3. DOMAIN q = {} => q = <<>>
  OBVIOUS
<1>4. ASSUME DOMAIN q # {} PROVE Min(DOMAIN q) = 1 /\ 1 \in DOMAIN q
  <2>1. DOMAIN q \in SUBSET Nat /\ 1 \in DOMAIN q /\ \A i \in DOMAIN q : i >= 1
    BY <1>4
  <2>2. Min(DOMAIN q) \in DOMAIN q /\ Min(DOMAIN q) <= 1
    BY <1>4, <2>1, MinIsLeast
  <2> QED BY <2>1, <2>2
<1> QED BY <1>1, <1>2, <1>3, <1>4

LEMMA BroadcastInv ==
    ASSUME SInv, NEW w \in Workers, Broadcast(w)
    PROVE  SInv'
<1>1. UNCHANGED <<vars, conn, asked, unread, backlog, connects, master, set, fd_num, rdset, active,
                  signals, sent, queue, pipe>>
  BY DEF Broadcast, clients, loop
<1>2. /\ worker[w].pc = "broadcast" /\ worker[w] \in Handlings /\ AtWork(worker[w])
      /\ worker[w].pid = NoPid /\ NoPid \notin Pids
  BY WorkerIs DEF Broadcast, AtWork
<1>3. PICK t \in Names : t = worker[w].target
  BY <1>2 DEF AtWork
<1> DEFINE S == [pid : Pids, req : Requests]
<1>4. /\ wl.queues \in [Names -> Seq(S)] /\ wl.presence \in [Pids -> Nat]
      /\ worker \in [Workers -> Handlings]
  BY DEF SInv, ServerTypeOK, PoolOK
<1>5. wl = [queues |-> wl.queues, presence |-> wl.presence]
  BY DEF SInv, ServerTypeOK, PoolOK
<1>6. PassIsCurrent'
  BY <1>1 DEF SInv, Handling, PassIsCurrent, HasCome
<1>7. SelectSeesAll' /\ DownForAReason'
  BY <1>1, Kept
<1>8. CASE Valid(wl, t) = {}
  <2>1. wl.queues[t] = <<>>
    BY <1>8, PopTakesFirst
  <2>2. /\ wl' = [wl EXCEPT !.queues[t] = <<>>]
        /\ Goes(w, Idle)
    BY <1>3, <1>8 DEF Broadcast, waiting_list_pop, Goes
  <2>3. wl' = wl
    BY <1>4, <1>5, <2>1, <2>2
  <2>4. Idle \in Handlings /\ Idle.pid = NoPid /\ Idle.pc = "idle"
    BY DEF Idle, Handlings, Steps
  <2>5. PICK s \in Handlings : s = Idle /\ Goes(w, s) /\ s.pid = NoPid /\ s.pc = "idle"
    BY <2>2, <2>4
  <2>6. ServerTypeOK' /\ PoolOK'
    <3>1. worker' \in [Workers -> Handlings]
      BY <2>5, GoesFacts
    <3>2. ClientsOK' /\ LoopOK'
      BY <1>1 DEF SInv, ServerTypeOK, ClientsOK, LoopOK
    <3>3. PoolOK'
      BY <1>1, <2>3, <3>1 DEF SInv, ServerTypeOK, PoolOK
    <3> QED BY <3>2, <3>3 DEF ServerTypeOK
  <2>7. EachClientInOnePlace'
    <3>1. ASSUME NEW q \in Pids PROVE Places(q)' = Places(q)
      <4>1. \A v \in Workers : worker'[v].pid = worker[v].pid
        BY <1>2, <2>5, GoesFacts
      <4> QED BY <1>1, <2>3, <4>1 DEF Places, Count
    <3> QED BY <1>1, <3>1, PlacesKept
  <2>8. WorkersAtWork'
    <3>1. AtWork(s)'
      BY <1>1, <1>2, <2>5 DEF AtWork, SInv, ServerTypeOK, ClientsOK
    <3> QED BY <1>1, <2>5, <3>1, OthersAtWork
  <2>9. PendingIsAsked' /\ Queues'
    BY <1>1, <2>3 DEF SInv, Handling, PendingIsAsked, Queues, WaitersArePresent, WaitersDiffer
  <2>10. ConnectionsAreCounted'
    BY <1>1, <1>2, <2>5, CountedStill
  <2>11. IInv' /\ Files'
    BY <1>1, <1>2, <2>5, FilesQuiet
  <2> QED BY <1>6, <1>7, <2>6, <2>7, <2>8, <2>9, <2>10, <2>11 DEF SInv, Handling
<1>9. CASE Valid(wl, t) # {}
  <2>1. PICK q \in Seq(S) : q = wl.queues[t]
    BY <1>4
  <2>2. Min(Valid(wl, t)) = 1 /\ 1 \in DOMAIN q
    BY <1>9, <2>1, PopTakesFirst
  <2>3. PICK p \in Pids, r \in Requests :
            /\ p = q[1].pid /\ r = q[1].req
            /\ wl.presence[p] > 0 /\ asked[p] = r /\ conn[p] # "closed"
    BY <2>1, <2>2, Queued
  <2>4. /\ wl.presence[p] = 1 /\ (\A v \in Workers : worker[v].pid # p)
        /\ p \notin unread
    BY <2>3, HeldOnce DEF SInv, Handling, PendingIsAsked
  <2>5. wl' = [queues   |-> [wl.queues EXCEPT ![t] = SubSeq(q, 2, Len(q))],
               presence |-> [wl.presence EXCEPT ![p] = @ - 1]]
    <3>1. wl' = waiting_list_pop(wl, t)
      BY <1>3 DEF Broadcast
    <3>2. wl' = [queues   |-> [wl.queues EXCEPT ![t] = SubSeq(q, 1 + 1, Len(q))],
                 presence |-> [wl.presence EXCEPT ![q[1].pid] = @ - 1]]
      BY <1>9, <2>1, <2>2, <3>1, SMTT(20) DEF waiting_list_pop
    <3> QED BY <2>3, <3>2
  <2> DEFINE s0 == [worker[w] EXCEPT !.pc = "call", !.pid = p, !.req = r]
  <2>6. Goes(w, s0)
    BY <1>3, <1>4, <1>9, <2>1, <2>2, <2>3 DEF Broadcast, Popped, Goes
  <2>7. s0 \in Handlings /\ s0.pid = p /\ s0.pc = "call" /\ s0.req = r
    BY <1>2 DEF Handlings, Steps
  <2> HIDE DEF s0
  <2>8. PICK s \in Handlings : Goes(w, s) /\ s.pid = p /\ s.pc = "call" /\ s.req = r
    BY <2>6, <2>7
  <2>9. /\ SubSeq(q, 2, Len(q)) \in Seq(S)
        /\ \A i \in DOMAIN SubSeq(q, 2, Len(q)) :
              i + 1 \in DOMAIN q /\ SubSeq(q, 2, Len(q))[i] = q[i + 1] /\ i \in Nat /\ i + 1 # 1
    <3> HIDE DEF S
    <3> QED BY <2>2
  <2>10. PICK rest \in Seq(S) : rest = SubSeq(q, 2, Len(q))
    BY <2>9
  <2>11. /\ \A i \in DOMAIN rest :
               i + 1 \in DOMAIN q /\ rest[i] = q[i + 1] /\ i \in Nat /\ i + 1 # 1
         /\ wl' = [queues   |-> [wl.queues EXCEPT ![t] = rest],
                   presence |-> [wl.presence EXCEPT ![p] = @ - 1]]
    BY <2>5, <2>9, <2>10
  <2> HIDE DEF S
  <2>12. /\ wl'.queues \in [Names -> Seq(S)] /\ wl'.presence \in [Pids -> Nat]
         /\ wl' = [queues |-> wl'.queues, presence |-> wl'.presence]
         /\ wl'.presence[p] = 0 /\ \A x \in Pids \ {p} : wl'.presence[x] = wl.presence[x]
         /\ wl'.queues[t] = rest
         /\ \A u \in Names \ {t} : wl'.queues[u] = wl.queues[u]
    BY <1>4, <2>4, <2>11
  <2>13. ServerTypeOK' /\ PoolOK'
    <3>1. worker' \in [Workers -> Handlings]
      BY <2>8, GoesFacts
    <3>2. ClientsOK' /\ LoopOK'
      BY <1>1 DEF SInv, ServerTypeOK, ClientsOK, LoopOK
    <3>3. wl' \in [queues : [Names -> Seq(S)], presence : [Pids -> Nat]]
      BY <2>12
    <3>4. PoolOK'
      BY <1>1, <3>1, <3>3 DEF SInv, ServerTypeOK, PoolOK, S
    <3> QED BY <3>2, <3>4 DEF ServerTypeOK
  <2>14. EachClientInOnePlace'
    <3>1. ASSUME NEW x \in Pids PROVE Places(x)' = Places(x)
      <4>1. /\ Places(x) = One(x \in set) + Count(queue, x) + Count(pipe, x)
                              + wl.presence[x] + Cardinality(Holders(worker, x))
            /\ Places(x)' = One(x \in set) + Count(queue', x) + Count(pipe', x)
                               + wl'.presence[x] + Cardinality(Holders(worker, x))
                               - One(worker[w].pid = x) + One(s.pid = x)
            /\ Count(queue, x) \in Nat /\ Count(pipe, x) \in Nat
            /\ wl.presence[x] \in Nat /\ Cardinality(Holders(worker, x)) \in Nat
        BY <1>1, <2>8, <2>13, PlacesMoved
      <4>2. One(worker[w].pid = x) = 0 /\ One(s.pid = x) = One(p = x)
        BY <1>2, <2>8 DEF One
      <4>3. wl'.presence[x] = wl.presence[x] - One(p = x)
        BY <1>4, <2>4, <2>12 DEF One
      <4>4. PICK a \in Nat, d \in Nat : a = One(x \in set) /\ d = One(p = x)
        BY DEF One
      <4>5. PICK i \in Nat, j \in Nat, k \in Nat, h \in Nat :
                /\ i = Count(queue, x) /\ j = Count(pipe, x) /\ k = wl.presence[x]
                /\ h = Cardinality(Holders(worker, x))
        BY <4>1
      <4>6. Places(x)' = a + i + j + (k - d) + h - 0 + d /\ Places(x) = a + i + j + k + h
        BY <1>1, <4>1, <4>2, <4>3, <4>4, <4>5
      <4>7. a + i + j + (k - d) + h - 0 + d = a + i + j + k + h
        OBVIOUS
      <4> QED BY <4>6, <4>7
    <3> QED BY <1>1, <3>1, PlacesKept
  <2>15. WorkersAtWork'
    <3>1. AtWork(s)'
      BY <1>1, <1>2, <2>3, <2>4, <2>8 DEF AtWork
    <3> QED BY <1>1, <2>4, <2>8, <3>1, OthersAtWork
  <2>16. PendingIsAsked'
    <3>1. ASSUME NEW x \in Pids, wl'.presence[x] > 0 PROVE wl.presence[x] > 0
      <4>1. x = p \/ wl'.presence[x] = wl.presence[x]
        BY <2>12
      <4> QED BY <2>4, <3>1, <4>1
    <3> QED BY <1>1, <3>1 DEF SInv, Handling, PendingIsAsked
  (* What is left in the queues was there, and is of other clients. *)
  <2>17. ASSUME NEW u \in Names, NEW i \in DOMAIN wl'.queues[u]
         PROVE  \E j \in DOMAIN wl.queues[u] :
                   /\ wl'.queues[u][i] = wl.queues[u][j]
                   /\ j = IF u = t THEN i + 1 ELSE i
                   /\ i \in Nat
                   /\ wl.queues[u][j].pid \in Pids \ {p}
    <3>1. WaitersDiffer
      BY DEF SInv, Queues
    <3>2. CASE u = t
      <4>1. i \in DOMAIN rest
        BY <2>12, <2>17, <3>2
      <4>2. i + 1 \in DOMAIN q /\ rest[i] = q[i + 1] /\ i \in Nat /\ i + 1 # 1
        BY <2>11, <4>1
      <4>3. q[i + 1].pid # q[1].pid
        BY <2>1, <2>2, <3>1, <4>2 DEF WaitersDiffer
      <4>4. q[i + 1].pid \in Pids
        BY <2>1, <4>2, Queued
      <4> QED BY <2>1, <2>3, <2>12, <3>2, <4>2, <4>3, <4>4
    <3>3. CASE u # t
      <4>1. i \in DOMAIN wl.queues[u] /\ wl'.queues[u] = wl.queues[u]
        BY <2>12, <2>17, <3>3
      <4>2. wl.queues[u][i].pid # wl.queues[t][1].pid
        BY <2>1, <2>2, <3>1, <3>3, <4>1 DEF WaitersDiffer
      <4>3. wl.queues[u][i].pid \in Pids /\ wl.queues[u] \in Seq(S)
        BY <1>4, <4>1, Queued
      <4>4. i \in Nat
        BY <4>1, <4>3
      <4> QED BY <2>1, <2>3, <3>3, <4>1, <4>2, <4>3, <4>4
    <3> QED BY <3>2, <3>3
  <2>18. WaitersArePresent'
    <3>1. ASSUME NEW u \in Names, NEW i \in DOMAIN wl'.queues[u]
          PROVE  LET e == wl'.queues[u][i]
                 IN  wl'.presence[e.pid] > 0 /\ conn[e.pid] # "closed" /\ asked[e.pid] = e.req
      <4>1. PICK j \in DOMAIN wl.queues[u] :
                wl'.queues[u][i] = wl.queues[u][j] /\ wl.queues[u][j].pid \in Pids \ {p}
        BY <2>17
      <4>2. LET e == wl.queues[u][j]
            IN  wl.presence[e.pid] > 0 /\ conn[e.pid] # "closed" /\ asked[e.pid] = e.req
        BY Queued
      <4> QED BY <2>12, <4>1, <4>2
    <3> QED BY <1>1, <3>1 DEF WaitersArePresent
  <2>19. WaitersDiffer'
    <3>1. ASSUME NEW u \in Names, NEW i \in DOMAIN wl'.queues[u],
                 NEW x \in Names, NEW j \in DOMAIN wl'.queues[x],
                 wl'.queues[u][i].pid = wl'.queues[x][j].pid
          PROVE  u = x /\ i = j
      <4>1. PICK k \in DOMAIN wl.queues[u] :
                /\ wl'.queues[u][i] = wl.queues[u][k] /\ k = IF u = t THEN i + 1 ELSE i
                /\ i \in Nat
        BY <2>17
      <4>2. PICK l \in DOMAIN wl.queues[x] :
                /\ wl'.queues[x][j] = wl.queues[x][l] /\ l = IF x = t THEN j + 1 ELSE j
                /\ j \in Nat
        BY <2>17
      <4>3. u = x /\ k = l
        BY <3>1, <4>1, <4>2 DEF SInv, Queues, WaitersDiffer
      <4> QED BY <4>1, <4>2, <4>3
    <3> QED BY <3>1 DEF WaitersDiffer
  <2>20. ConnectionsAreCounted'
    BY <1>1, <1>2, <2>8, CountedStill
  <2>21. IInv' /\ Files'
    BY <1>1, <1>2, <2>8, FilesQuiet
  <2> QED BY <1>6, <1>7, <2>13, <2>14, <2>15, <2>16, <2>18, <2>19, <2>20, <2>21
        DEF SInv, Handling, Queues
<1> QED BY <1>8, <1>9

LEMMA EndSessionInv ==
    ASSUME SInv, NEW w \in Workers, EndSession(w)
    PROVE  SInv' /\ [Next]_vars
<1>1. UNCHANGED <<conn, asked, unread, backlog, connects, master, set, fd_num, rdset, active,
                  signals, sent, queue, pipe>>
  BY DEF EndSession, clients, loop
<1>2. /\ worker[w].pc = "leave" /\ worker[w] \in Handlings /\ AtWork(worker[w])
      /\ worker[w].pid \in Pids /\ NoPid \notin Pids
  BY WorkerIs DEF EndSession
<1>3. PICK p \in Pids : p = worker[w].pid
  BY <1>2
<1>4. /\ IInv /\ worker \in [Workers -> Handlings] /\ wl.presence \in [Pids -> Nat]
      /\ wl = [queues |-> wl.queues, presence |-> wl.presence]
  BY DEF SInv, ServerTypeOK, PoolOK
<1>5. wl.presence[p] = 0 /\ \A v \in Workers \ {w} : worker[v].pid # p
  BY <1>3, HeldOnce DEF SInv
<1>6. wl' = wl
  BY <1>3, <1>4, <1>5 DEF EndSession, waiting_list_remove
<1> DEFINE s0 == [worker[w] EXCEPT !.pc = "close"]
<1>7. Goes(w, s0)
  BY <1>4 DEF EndSession, Goes
<1>8. s0 \in Handlings /\ s0.pid = p /\ s0.pc = "close"
  BY <1>2, <1>3 DEF Handlings, Steps
<1> HIDE DEF s0
<1>9. PICK s \in Handlings : Goes(w, s) /\ s.pid = p /\ s.pc = "close"
  BY <1>7, <1>8
<1>10. /\ [Next]_vars /\ KeepsEntries(p) /\ KeepsSleepers(p) /\ waiting'[p] = NULL
       /\ undefined = "no"
  <2>1. CASE RemoveSession(p)
    BY <1>4, <2>1, SessionKeeps DEF Next
  <2>2. CASE Refused(p)
    <3>1. UNCHANGED vars /\ waiting[p] = NULL /\ undefined = "no"
      BY <2>2 DEF Refused, Ready
    <3>2. UNCHANGED <<fdt, waiting>>
      BY <3>1 DEF vars
    <3> QED BY <3>1, <3>2, QuietKeeps
  <2> QED BY <1>3, <2>1, <2>2 DEF EndSession
<1>11. IInv' /\ Files'
  BY <1>3, <1>9, <1>10, FilesServed
<1>12. worker' \in [Workers -> Handlings]
  BY <1>9, GoesFacts
<1>13. ServerTypeOK'
  <2>1. ClientsOK' /\ LoopOK'
    BY <1>1 DEF SInv, ServerTypeOK, ClientsOK, LoopOK
  <2>2. PoolOK'
    BY <1>1, <1>6, <1>12 DEF SInv, ServerTypeOK, PoolOK
  <2> QED BY <2>1, <2>2 DEF ServerTypeOK
<1>14. EachClientInOnePlace'
  <2>1. ASSUME NEW q \in Pids PROVE Places(q)' = Places(q)
    <3>1. \A v \in Workers : worker'[v].pid = worker[v].pid
      BY <1>3, <1>9, GoesFacts
    <3> QED BY <1>1, <1>6, <3>1 DEF Places, Count
  <2> QED BY <1>1, <2>1, PlacesKept
<1>15. WorkersAtWork'
  <2>1. AtWork(s)'
    BY <1>1, <1>2, <1>3, <1>9 DEF AtWork
  <2> QED BY <1>1, <1>5, <1>9, <2>1, OthersAtWork
<1>16. PassIsCurrent' /\ PendingIsAsked' /\ Queues'
  BY <1>1, <1>6 DEF SInv, Handling, PassIsCurrent, HasCome, PendingIsAsked, Queues,
                    WaitersArePresent, WaitersDiffer
<1>17. ConnectionsAreCounted'
  BY <1>1, <1>2, <1>9, CountedStill
<1>18. SelectSeesAll' /\ DownForAReason'
  BY <1>1, Kept
<1> QED BY <1>10, <1>11, <1>13, <1>14, <1>15, <1>16, <1>17, <1>18 DEF SInv, Handling

(* The sockets that are not closed. *)
Connected(con) == {p \in Pids : con[p] # "closed"}

LEMMA CloseClientInv ==
    ASSUME SInv, NEW w \in Workers, CloseClient(w)
    PROVE  SInv'
<1>1. UNCHANGED <<vars, unread, backlog, connects, master, set, fd_num, rdset, active,
                  signals, sent, queue, pipe, wl>>
  BY DEF CloseClient, loop
<1>2. /\ worker[w].pc = "close" /\ worker[w] \in Handlings /\ AtWork(worker[w])
      /\ worker[w].pid \in Pids /\ NoPid \notin Pids
  BY WorkerIs DEF CloseClient
<1>3. PICK p \in Pids : p = worker[w].pid
  BY <1>2
<1>4. p \notin unread /\ conn[p] = "hungup"
  BY <1>2, <1>3 DEF AtWork
<1>5. /\ wl.presence[p] = 0 /\ Places(p) = 1 /\ p \notin set /\ Count(queue, p) = 0
      /\ \A v \in Workers \ {w} : worker[v].pid # p
  BY <1>3, HeldOnce DEF SInv
<1>6. /\ conn \in [Pids -> {"closed", "open", "hungup"}]
      /\ asked \in [Pids -> Requests \cup {NULL}]
      /\ unread \subseteq Pids /\ queue \in Seq(Pids \cup {TERMINATE})
  BY DEF SInv, ServerTypeOK, ClientsOK, PoolOK
<1>7. /\ conn' = [conn EXCEPT ![p] = "closed"] /\ asked' = [asked EXCEPT ![p] = NULL]
      /\ Goes(w, [Idle EXCEPT !.pc = "announce"])
  BY <1>3 DEF CloseClient, Goes
<1>8. /\ conn' \in [Pids -> {"closed", "open", "hungup"}] /\ conn'[p] = "closed"
      /\ asked' \in [Pids -> Requests \cup {NULL}]
      /\ \A q \in Pids \ {p} : asked'[q] = asked[q] /\ conn'[q] = conn[q]
  BY <1>6, <1>7
<1>9. PICK s \in Handlings : Goes(w, s) /\ s.pid = NoPid /\ s.pc = "announce"
  <2>1. /\ [Idle EXCEPT !.pc = "announce"] \in Handlings
        /\ [Idle EXCEPT !.pc = "announce"].pid = NoPid
        /\ [Idle EXCEPT !.pc = "announce"].pc = "announce"
    BY DEF Idle, Handlings, Steps
  <2> QED BY <1>7, <2>1
<1>10. ServerTypeOK' /\ PoolOK'
  <2>1. worker' \in [Workers -> Handlings]
    BY <1>9, GoesFacts
  <2>2. ClientsOK' /\ LoopOK'
    BY <1>1, <1>8 DEF SInv, ServerTypeOK, ClientsOK, LoopOK
  <2>3. PoolOK'
    BY <1>1, <2>1 DEF SInv, ServerTypeOK, PoolOK
  <2> QED BY <2>2, <2>3 DEF ServerTypeOK
<1>11. EachClientInOnePlace'
  <2>1. ASSUME NEW q \in Pids PROVE Places(q)' = Places(q) - One(p = q)
    <3>1. /\ Places(q) = One(q \in set) + Count(queue, q) + Count(pipe, q)
                            + wl.presence[q] + Cardinality(Holders(worker, q))
          /\ Places(q)' = One(q \in set) + Count(queue', q) + Count(pipe', q)
                             + wl'.presence[q] + Cardinality(Holders(worker, q))
                             - One(worker[w].pid = q) + One(s.pid = q)
          /\ Count(queue, q) \in Nat /\ Count(pipe, q) \in Nat
          /\ wl.presence[q] \in Nat /\ Cardinality(Holders(worker, q)) \in Nat
      BY <1>1, <1>9, <1>10, PlacesMoved
    <3>2. One(s.pid = q) = 0 /\ One(worker[w].pid = q) = One(p = q)
      BY <1>2, <1>3, <1>9 DEF One
    <3>3. PICK a \in Nat, d \in Nat : a = One(q \in set) /\ d = One(p = q)
      BY DEF One
    <3> QED BY <1>1, <3>1, <3>2, <3>3 DEF One
  <2>2. ASSUME NEW q \in Pids
        PROVE  /\ conn'[q] = "closed" => Places(q)' = 0
               /\ conn'[q] = "open" => Places(q)' = 1
               /\ conn'[q] = "hungup" => Places(q)' <= 1
    <3>1. CASE q = p
      BY <1>5, <1>8, <2>1, <3>1 DEF One
    <3>2. CASE q # p
      <4>1. Places(q) \in Nat
        BY HeldOnce DEF SInv
      <4>2. Places(q)' = Places(q) /\ conn'[q] = conn[q]
        BY <1>8, <2>1, <3>2, <4>1 DEF One
      <4> QED BY <4>2 DEF SInv, EachClientInOnePlace
    <3> QED BY <3>1, <3>2
  <2> QED BY <2>2 DEF EachClientInOnePlace
<1>12. WorkersAtWork'
  <2>1. AtWork(s)'
    BY <1>1, <1>2, <1>6, <1>9 DEF AtWork
  <2>2. unread' \subseteq unread
    BY <1>1
  <2> QED BY <1>5, <1>8, <1>9, <2>1, <2>2, OthersAtWork
<1>13. PassIsCurrent'
  <2>1. \A x \in Pids \cap rdset : x \in set /\ x # p /\ HasCome(x)
    BY <1>5 DEF SInv, Handling, PassIsCurrent
  <2>2. \A i \in DOMAIN queue : queue[i] # p
    BY <1>5, <1>6, CountType
  <2>3. \A i \in DOMAIN queue : queue[i] \in Pids => queue[i] # p /\ HasCome(queue[i])
    BY <2>2 DEF SInv, Handling, PassIsCurrent
  <2> QED BY <1>1, <1>8, <2>1, <2>3 DEF SInv, Handling, PassIsCurrent, HasCome
<1>14. PendingIsAsked'
  BY <1>1, <1>4, <1>5, <1>6, <1>8 DEF SInv, Handling, PendingIsAsked
<1>15. Queues'
  <2>1. ASSUME NEW t \in Names, NEW i \in DOMAIN wl.queues[t]
        PROVE  /\ asked'[wl.queues[t][i].pid] = asked[wl.queues[t][i].pid]
               /\ conn'[wl.queues[t][i].pid] = conn[wl.queues[t][i].pid]
    <3>1. wl.queues[t][i].pid \in Pids /\ wl.presence[wl.queues[t][i].pid] > 0
      BY Queued
    <3> QED BY <1>5, <1>8, <3>1
  <2> QED BY <1>1, <2>1 DEF SInv, Queues, WaitersArePresent, WaitersDiffer
<1>16. ConnectionsAreCounted'
  <2>1. PICK A, B : A = Connected(conn) /\ B = Connected(conn')
    OBVIOUS
  <2>2. A \in SUBSET Pids /\ A \ {p} = B \ {p} /\ p \in A /\ p \notin B
    BY <1>4, <1>8, <2>1 DEF Connected
  <2>3. IsFiniteSet(A)
    BY <2>2, ServerAssumption, FS_Subset
  <2>4. /\ Cardinality(A) \in Nat
        /\ Cardinality(B) = Cardinality(A) - One(p \in A) + One(p \in B)
    BY <2>2, <2>3, CountBut DEF One
  <2>5. Cardinality(B) = Cardinality(A) - 1
    BY <2>2, <2>4 DEF One
  <2>6. /\ Cardinality(Announcing(worker)) \in Nat
        /\ Cardinality(Announcing(worker')) = Cardinality(Announcing(worker)) + 1
    <3>1. /\ Cardinality(Announcing(worker)) \in Nat
          /\ Cardinality(Announcing(worker')) =
                Cardinality(Announcing(worker)) - One(worker[w].pc = "announce")
                   + One(s.pc = "announce")
      BY <1>9, GoesFacts
    <3>2. One(worker[w].pc = "announce") = 0 /\ One(s.pc = "announce") = 1
      BY <1>2, <1>9 DEF One
    <3> QED BY <3>1, <3>2
  <2>7. pipe \in Seq(Pids \cup {Gone})
    BY DEF SInv, ServerTypeOK, PoolOK
  <2>8. Count(pipe, Gone) \in Nat
    BY <2>7, CountType
  <2>9. active = Cardinality(A) + Count(pipe, Gone) + Cardinality(Announcing(worker))
    BY <2>1 DEF SInv, ConnectionsAreCounted, Connected, Announcing
  <2>10. active = Cardinality(B) + Count(pipe, Gone) + Cardinality(Announcing(worker'))
    BY <2>4, <2>5, <2>6, <2>8, <2>9
  <2> QED BY <1>1, <2>1, <2>10 DEF ConnectionsAreCounted, Connected, Announcing, Count
<1>17. SelectSeesAll' /\ DownForAReason'
  BY <1>1, <1>8 DEF SInv, SelectSeesAll, DownForAReason
<1>18. IInv' /\ Files'
  BY <1>1, <1>2, <1>9, FilesQuiet
<1> QED BY <1>10, <1>11, <1>12, <1>13, <1>14, <1>15, <1>16, <1>17, <1>18 DEF SInv, Handling

LEMMA AnnounceInv ==
    ASSUME SInv, NEW w \in Workers, Announce(w)
    PROVE  SInv'
<1>1. UNCHANGED <<vars, conn, asked, unread, backlog, connects, master, set, fd_num, rdset, active,
                  signals, sent, queue, wl>>
  BY DEF Announce, clients, loop
<1>2. /\ worker[w].pc = "announce" /\ worker[w] \in Handlings /\ AtWork(worker[w])
      /\ worker[w].pid = NoPid /\ NoPid \notin Pids
  BY WorkerIs DEF Announce, AtWork
<1>3. pipe' = Append(pipe, Gone) /\ Goes(w, Idle)
  BY DEF Announce, Goes
<1>4. PICK s \in Handlings : Goes(w, s) /\ s.pid = NoPid /\ s.pc = "idle"
  <2>1. Idle \in Handlings /\ Idle.pid = NoPid /\ Idle.pc = "idle"
    BY DEF Idle, Handlings, Steps
  <2> QED BY <1>3, <2>1
<1>5. /\ pipe \in Seq(Pids \cup {Gone}) /\ pipe' \in Seq(Pids \cup {Gone}) /\ pipe' # <<>>
  <2>1. pipe \in Seq(Pids \cup {Gone})
    BY DEF SInv, ServerTypeOK, PoolOK
  <2> QED BY <1>3, <2>1
<1>6. \A x : Count(pipe', x) = Count(pipe, x) + One(Gone = x)
  BY <1>3, <1>5, CountAppend DEF One
<1>7. Gone \notin Pids
  BY ServerAssumption DEF Gone, Listener
<1>8. ServerTypeOK' /\ PoolOK'
  <2>1. worker' \in [Workers -> Handlings]
    BY <1>4, GoesFacts
  <2>2. ClientsOK' /\ LoopOK'
    BY <1>1 DEF SInv, ServerTypeOK, ClientsOK, LoopOK
  <2>3. PoolOK'
    BY <1>1, <1>5, <2>1 DEF SInv, ServerTypeOK, PoolOK
  <2> QED BY <2>2, <2>3 DEF ServerTypeOK
<1>9. EachClientInOnePlace'
  <2>1. ASSUME NEW q \in Pids PROVE Places(q)' = Places(q)
    <3>1. /\ Places(q) = One(q \in set) + Count(queue, q) + Count(pipe, q)
                            + wl.presence[q] + Cardinality(Holders(worker, q))
          /\ Places(q)' = One(q \in set) + Count(queue', q) + Count(pipe', q)
                             + wl'.presence[q] + Cardinality(Holders(worker, q))
                             - One(worker[w].pid = q) + One(s.pid = q)
          /\ Count(queue, q) \in Nat /\ Count(pipe, q) \in Nat
          /\ wl.presence[q] \in Nat /\ Cardinality(Holders(worker, q)) \in Nat
      BY <1>1, <1>4, <1>8, PlacesMoved
    <3>2. One(s.pid = q) = 0 /\ One(worker[w].pid = q) = 0 /\ One(Gone = q) = 0
      BY <1>2, <1>4, <1>7 DEF One
    <3>3. Count(pipe', q) = Count(pipe, q)
      <4>1. Count(pipe', q) = Count(pipe, q) + One(Gone = q)
        BY <1>6
      <4> QED BY <3>1, <3>2, <4>1
    <3>4. PICK a \in Nat : a = One(q \in set)
      BY DEF One
    <3> QED BY <1>1, <3>1, <3>2, <3>3, <3>4
  <2> QED BY <1>1, <2>1, PlacesKept
<1>10. WorkersAtWork'
  <2>1. AtWork(s)'
    BY <1>1, <1>2, <1>4 DEF AtWork, SInv, ServerTypeOK, ClientsOK
  <2>2. unread' \subseteq unread
    BY <1>1
  <2>3. PICK p : p = NoPid
    OBVIOUS
  <2> QED BY <1>1, <1>4, <2>1, <2>2, <2>3, OthersAtWork
<1>11. PassIsCurrent'
  BY <1>1, <1>5 DEF SInv, Handling, PassIsCurrent, HasCome
<1>12. PendingIsAsked' /\ Queues'
  BY <1>1 DEF SInv, Handling, PendingIsAsked, Queues, WaitersArePresent, WaitersDiffer
<1>13. ConnectionsAreCounted'
  <2>1. /\ Cardinality(Announcing(worker)) \in Nat
        /\ Cardinality(Announcing(worker')) = Cardinality(Announcing(worker)) - 1
    <3>1. /\ Cardinality(Announcing(worker)) \in Nat
          /\ Cardinality(Announcing(worker')) =
                Cardinality(Announcing(worker)) - One(worker[w].pc = "announce")
                   + One(s.pc = "announce")
      BY <1>4, GoesFacts
    <3>2. One(worker[w].pc = "announce") = 1 /\ One(s.pc = "announce") = 0
      BY <1>2, <1>4 DEF One
    <3> QED BY <3>1, <3>2
  <2>2. Count(pipe, Gone) \in Nat
    BY <1>5, CountType
  <2>3. Count(pipe', Gone) = Count(pipe, Gone) + 1
    <3>1. Count(pipe', Gone) = Count(pipe, Gone) + One(Gone = Gone)
      BY <1>6
    <3> QED BY <3>1 DEF One
  <2>4. Cardinality(Connected(conn)) \in Nat
    <3>1. Connected(conn) \in SUBSET Pids
      BY DEF Connected
    <3> QED BY <3>1, ServerAssumption, FS_Subset, FS_CardinalityType
  <2>5. active = Cardinality(Connected(conn)) + Count(pipe, Gone) + Cardinality(Announcing(worker))
    BY DEF SInv, ConnectionsAreCounted, Connected, Announcing
  <2>6. active = Cardinality(Connected(conn)) + Count(pipe', Gone)
                    + Cardinality(Announcing(worker'))
    BY <2>1, <2>2, <2>3, <2>4, <2>5
  <2> QED BY <1>1, <2>6 DEF ConnectionsAreCounted, Connected, Announcing, Count
<1>14. SelectSeesAll' /\ DownForAReason'
  BY <1>1, Kept
<1>15. IInv' /\ Files'
  BY <1>1, <1>2, <1>4, FilesQuiet
<1> QED BY <1>8, <1>9, <1>10, <1>11, <1>12, <1>13, <1>14, <1>15 DEF SInv, Handling

LEMMA WakesInv ==
    ASSUME SInv, Wakes
    PROVE  SInv' /\ [Next]_vars
<1>1. UNCHANGED <<conn, asked, unread, backlog, connects, master, set, fd_num, rdset, active,
                  signals, sent, queue, pipe, worker, wl>>
  BY DEF Wakes, clients, loop, pool
<1>2. PICK p \in Pids : Spurious(p)
  BY DEF Wakes
<1>3. [Next]_vars /\ IInv
  BY <1>2 DEF Next, SInv
<1>4. IInv'
  BY <1>3, NextInv
<1>5. /\ KeepsSleepers(p) /\ waiting[p] # NULL /\ waiting'[p] # NULL /\ undefined = "no"
      /\ fdt' = fdt
  BY <1>2, <1>3, FlagKeeps DEF Spurious
<1>6. Files'
  <2>1. \A q \in Pids : waiting'[q] = NULL <=> waiting[q] = NULL
    BY <1>5 DEF KeepsSleepers, StillSleeps
  <2>2. SleepersMatch'
    BY <1>1, <1>5, <2>1 DEF SInv, Files, SleepersMatch
  <2>3. TargetsAreOpen'
    BY <1>1, <1>5 DEF SInv, Files, TargetsAreOpen, InUse
  <2> QED BY <2>2, <2>3 DEF Files
<1>7. ServerTypeOK'
  BY <1>1 DEF SInv, ServerTypeOK, ClientsOK, LoopOK, PoolOK
<1>8. /\ EachClientInOnePlace' /\ WorkersAtWork' /\ PassIsCurrent' /\ PendingIsAsked'
      /\ SelectSeesAll' /\ ConnectionsAreCounted' /\ DownForAReason' /\ Queues'
  BY <1>1 DEF SInv, EachClientInOnePlace, Places, Count, Handling, WorkersAtWork, AtWork,
              PassIsCurrent, HasCome, PendingIsAsked, SelectSeesAll, ConnectionsAreCounted,
              DownForAReason, Queues, WaitersArePresent, WaitersDiffer
<1> QED BY <1>3, <1>4, <1>6, <1>7, <1>8 DEF SInv, Handling
-----------------------------------------------------------------------------
(* The locks of the others survive a call for p.                           *)

KeepsLocks(p) ==
    \A f \in Names, q \in Pids \ {p} :
        Exists(f) /\ files[f].locked = q => files'[f] # NULL /\ files'[f].locked = q

(* The file the call changes is locked by p or by nobody. *)
LEMMA OwnFileChanged ==
    ASSUME IInv, NEW p \in Pids, NEW f \in Names, NEW x, files' = [files EXCEPT ![f] = x],
           Exists(f) => files[f].locked \in {p, NoPid}
    PROVE  KeepsLocks(p)
<1>1. files \in [Names -> Inodes \cup {NULL}] /\ NoPid \notin Pids
  BY NoPidAssumption DEF IInv, Tables, TypeOK
<1> QED BY <1>1 DEF KeepsLocks, Exists

LEMMA OpenKeepsLocks ==
    ASSUME IInv, NEW p \in Pids, NEW f \in Names, NEW lock \in BOOLEAN,
           \/ OpenCreate(p, f, lock) \/ OpenExisting(p, f, lock)
           \/ lock /\ OpenWaits(p, f)
    PROVE  KeepsLocks(p)
<1>1. PICK x : files' = [files EXCEPT ![f] = x]
  BY DEF OpenCreate, OpenExisting, OpenWaits, Sleep, Opened
<1>2. \/ open_error(p, f, TRUE, lock) = "ok"
      \/ open_error(p, f, FALSE, lock) = "ok"
  BY DEF OpenCreate, OpenExisting, OpenWaits
<1>3. Exists(f) => files[f].locked \in {p, NoPid}
  BY <1>2 DEF open_error, LockedByOther
<1> QED BY <1>1, <1>3, OwnFileChanged

LEMMA LockKeepsLocks ==
    ASSUME IInv, NEW p \in Pids, NEW fd \in Nat,
           Lock(p, fd) \/ LockWaits(p, fd) \/ Unlock(p, fd)
    PROVE  KeepsLocks(p)
<1>1. fd_error(p, fd) = "ok"
  BY DEF Lock, LockWaits, Unlock, lock_error, unlock_error
<1>2. PICK f \in Names : f = Copy(fd).name
  BY <1>1, FdErrors, DescriptorOk
<1>3. PICK x : files' = [files EXCEPT ![f] = x]
  BY <1>2 DEF Lock, LockWaits, Unlock, Sleep
<1>4. files[f].locked \in {p, NoPid}
  BY <1>2 DEF Lock, LockWaits, Unlock, unlock_error
<1> QED BY <1>3, <1>4, OwnFileChanged

LEMMA RemoveFileKeepsLocks ==
    ASSUME IInv, NEW p \in Pids, NEW f \in Names, RemoveFile(p, f)
    PROVE  KeepsLocks(p)
<1>1. files' = [files EXCEPT ![f] = NULL] /\ files[f].locked = p
  BY DEF RemoveFile, DestroyFile, remove_error
<1> QED BY <1>1, OwnFileChanged

LEMMA WakeUpKeepsLocks ==
    ASSUME IInv, NEW p \in Pids, WakeUp(p)
    PROVE  KeepsLocks(p)
<1>1. waiting[p] # NULL /\ undefined = "no"
  BY DEF WakeUp, Awake
<1>2. PICK f \in Names : f = waiting[p].name
  BY <1>1 DEF IInv, Tables, TypeOK, Waits
<1>3. p \in Waiters(f)
  BY <1>1, <1>2 DEF Waiters
<1>4. Exists(f) => files[f].locked = NoPid
  BY <1>1, <1>3, PendingCases
<1>5. PICK x : files' = [files EXCEPT ![f] = x]
  BY <1>2 DEF WakeUp, Opened
<1> QED BY <1>4, <1>5, OwnFileChanged

LEMMA InodeKeepsLock ==
    ASSUME NEW x \in Inodes, NEW p, NEW n
    PROVE  /\ decrease_refs(x, p, n, clock).locked = x.locked
           /\ x.locked # p => LeaveFile(p, x, n).locked = x.locked
<1>1. decrease_refs(x, p, n, clock).locked = x.locked
  BY DEF Inodes, decrease_refs
<1> QED BY <1>1 DEF LeaveFile

LEMMA RefsKeepLock ==
    ASSUME NEW x \in Inodes, NEW p \in Pids, NEW now \in Nat
    PROVE  increase_refs(x, p, now) \in Inodes /\ increase_refs(x, p, now).locked = x.locked
BY InodeRefs

(* A file that is in the list before and after the call is in the table. *)
LEMMA SameFilesThere ==
    ASSUME IInv, IInv', presence' = presence, NEW f \in Names, Exists(f)
    PROVE  files'[f] # NULL
BY DEF IInv, Tables, ListMatchesTable, Exists

LEMMA LeavingKeepsLocks ==
    ASSUME IInv, IInv', NEW p \in Pids, RemoveSession(p) \/ \E fd \in Nat : Close(p, fd)
    PROVE  KeepsLocks(p)
<1>1. presence' = presence /\ files \in [Names -> Inodes \cup {NULL}]
  BY DEF RemoveSession, Close, IInv, Tables, TypeOK
<1>2. ASSUME NEW f \in Names, NEW q \in Pids \ {p}, Exists(f), files[f].locked = q
      PROVE  files'[f].locked = q
  <2>1. files[f] \in Inodes
    BY <1>1, <1>2 DEF Exists
  <2>2. PICK x \in Inodes : x = files[f]
    BY <2>1
  <2>3. \/ files'[f] = x
        \/ \E n : files'[f] = decrease_refs(x, p, n, clock)
        \/ \E n : files'[f] = LeaveFile(p, x, n)
    <3>1. CASE RemoveSession(p)
      BY <2>2, <3>1 DEF RemoveSession
    <3>2. CASE \E fd \in Nat : Close(p, fd)
      <4>1. PICK fd \in Nat : Close(p, fd)
        BY <3>2
      <4>2. PICK g : g = Copy(fd).name
        OBVIOUS
      <4>3. files' = files \/ files' = [files EXCEPT ![g] = decrease_refs(files[g], p, 1, clock)]
        BY <4>1, <4>2 DEF Close
      <4> QED BY <1>1, <2>2, <4>3
    <3> QED BY <3>1, <3>2
  <2> QED BY <1>2, <2>2, <2>3, InodeKeepsLock
<1> QED BY <1>1, <1>2, SameFilesThere DEF KeepsLocks

LEMMA SameFilesKeepLocks ==
    ASSUME files' = files, NEW p
    PROVE  KeepsLocks(p)
BY DEF KeepsLocks, Exists
-----------------------------------------------------------------------------
(* What a worker knows of the lock its client asked for.  A request means  *)
(* a file by its name, or by a descriptor that is open.                    *)

Means(p, r, f) ==
    \/ r.type = "open" /\ f = r.name
    \/ /\ r.type = "lock" /\ r.fd \in InUse(fdt)
       /\ fdt.table[r.fd].owner = p /\ fdt.table[r.fd].inode.name = f

HasLock(p, r) == \E f \in Names : Means(p, r, f) /\ Exists(f) /\ files[f].locked = p

WaitsLock(p, r) == AsksLock(r) /\ waiting[p] # NULL /\ Means(p, r, waiting[p].name)

Knows(s) ==
    /\ s.pc = "asleep" => WaitsLock(s.pid, s.req)
    /\ s.pc = "respond" /\ s.res = "ok" /\ AsksLock(s.req) => HasLock(s.pid, s.req)

LInv == \A w \in Workers : Knows(worker[w])

Keeps(p) == KeepsEntries(p) /\ KeepsSleepers(p) /\ KeepsLocks(p)

(* A worker with another client knows what it knew. *)
LEMMA OthersKnow ==
    ASSUME NEW p, Keeps(p), NEW s, s.pid # p, s.pc \in {"asleep", "respond"} => s.pid \in Pids,
           Knows(s)
    PROVE  Knows(s)'
<1>1. PICK q, r : q = s.pid /\ r = s.req
  OBVIOUS
<1>2. ASSUME NEW f, Means(q, r, f) PROVE Means(q, r, f)'
  BY <1>1, <1>2 DEF Means, Keeps, KeepsEntries
<1>3. ASSUME q \in Pids, WaitsLock(q, r) PROVE WaitsLock(q, r)'
  <2>1. waiting[q] # NULL /\ waiting'[q] # NULL /\ waiting'[q].name = waiting[q].name
    BY <1>1, <1>3 DEF WaitsLock, Keeps, KeepsSleepers, StillSleeps
  <2> QED BY <1>2, <1>3, <2>1 DEF WaitsLock
<1>4. ASSUME q \in Pids, HasLock(q, r) PROVE HasLock(q, r)'
  <2>1. PICK f \in Names : Means(q, r, f) /\ Exists(f) /\ files[f].locked = q
    BY <1>4 DEF HasLock
  <2>2. files'[f] # NULL /\ files'[f].locked = q
    BY <1>1, <1>4, <2>1 DEF Keeps, KeepsLocks
  <2> QED BY <1>2, <2>1, <2>2 DEF HasLock, Exists
<1>5. (s.pc = "asleep" => WaitsLock(q, r)) /\ (s.pc = "respond" /\ s.res = "ok" /\ AsksLock(r) => HasLock(q, r))
  BY <1>1 DEF Knows
<1>6. (s.pc = "asleep" => WaitsLock(q, r)') /\ (s.pc = "respond" /\ s.res = "ok" /\ AsksLock(r) => HasLock(q, r)')
  BY <1>1, <1>3, <1>4, <1>5
<1> QED BY <1>1, <1>6 DEF Knows

LEMMA CallerKnows ==
    ASSUME SInv, LInv, NEW w \in Workers, NEW p \in Pids, worker[w].pid = p, Keeps(p),
           NEW s, Goes(w, s), Knows(s)'
    PROVE  LInv'
<1>1. worker \in [Workers -> Handlings]
  BY DEF SInv, ServerTypeOK, PoolOK
<1>2. worker'[w] = s /\ \A v \in Workers \ {w} : worker'[v] = worker[v]
  BY <1>1 DEF Goes
<1>3. \A v \in Workers \ {w} : worker[v].pid # p
  BY HeldOnce DEF SInv
<1>4. ASSUME NEW v \in Workers PROVE Knows(worker[v])'
  <2>1. CASE v = w
    BY <1>2, <2>1
  <2>2. CASE v # w
    <3>1. PICK t : t = worker[v]
      OBVIOUS
    <3>2. t.pid # p /\ Knows(t) /\ (t.pc \in {"asleep", "respond"} => t.pid \in Pids)
      BY <1>3, <2>2, <3>1, WorkerIs DEF LInv
    <3>3. Knows(t)'
      BY <3>2, OthersKnow
    <3> QED BY <1>2, <2>2, <3>1, <3>3
  <2> QED BY <2>1, <2>2
<1> QED BY <1>4 DEF LInv

LEMMA ReturnKnows ==
    ASSUME SInv, LInv, NEW w \in Workers, NEW p \in Pids, NEW r, worker[w].pid = p,
           worker[w].req = r, Keeps(p), NEW res, Returns(w, res),
           res = "ok" /\ AsksLock(r) => HasLock(p, r)'
    PROVE  LInv'
<1> DEFINE s0 == [worker[w] EXCEPT !.pc = "respond", !.res = res]
<1>1. worker \in [Workers -> Handlings]
  BY DEF SInv, ServerTypeOK, PoolOK
<1>2. Goes(w, s0)
  BY <1>1 DEF Returns, Goes
<1>3. s0.pid = p /\ s0.req = r /\ s0.pc = "respond" /\ s0.res = res
  BY <1>1 DEF Handlings
<1> HIDE DEF s0
<1>4. PICK s : Goes(w, s) /\ s.pid = p /\ s.req = r /\ s.pc = "respond" /\ s.res = res
  BY <1>2, <1>3
<1>5. Knows(s)'
  BY <1>4 DEF Knows
<1> QED BY <1>4, <1>5, CallerKnows

LEMMA SleepKnows ==
    ASSUME SInv, LInv, NEW w \in Workers, NEW p \in Pids, NEW r, worker[w].pid = p,
           worker[w].req = r, Keeps(p), worker' = [worker EXCEPT ![w].pc = "asleep"],
           WaitsLock(p, r)'
    PROVE  LInv'
<1> DEFINE s0 == [worker[w] EXCEPT !.pc = "asleep"]
<1>1. worker \in [Workers -> Handlings]
  BY DEF SInv, ServerTypeOK, PoolOK
<1>2. Goes(w, s0)
  BY <1>1 DEF Goes
<1>3. s0.pid = p /\ s0.req = r /\ s0.pc = "asleep"
  BY <1>1 DEF Handlings
<1> HIDE DEF s0
<1>4. PICK s : Goes(w, s) /\ s.pid = p /\ s.req = r /\ s.pc = "asleep"
  BY <1>2, <1>3
<1>5. Knows(s)'
  BY <1>4 DEF Knows
<1> QED BY <1>4, <1>5, CallerKnows

(* A step of a worker outside of the file system. *)
LEMMA OutsideKnows ==
    ASSUME SInv, LInv, NEW w \in Workers, NEW s, Goes(w, s), UNCHANGED vars,
           s.pc \notin {"asleep", "respond"}
    PROVE  LInv'
<1>1. worker \in [Workers -> Handlings] /\ UNCHANGED <<files, fdt, waiting>>
  BY DEF SInv, ServerTypeOK, PoolOK, vars
<1>2. worker'[w] = s /\ \A v \in Workers \ {w} : worker'[v] = worker[v]
  BY <1>1 DEF Goes
<1> QED BY <1>1, <1>2 DEF LInv, Knows, WaitsLock, HasLock, Means, InUse, Exists

LEMMA UntouchedKnows ==
    ASSUME LInv, UNCHANGED <<vars, worker>>
    PROVE  LInv'
<1>1. UNCHANGED <<files, fdt, waiting>>
  BY DEF vars
<1> QED BY <1>1 DEF LInv, Knows, WaitsLock, HasLock, Means, InUse, Exists

(* The calls that may end with the lock. *)
LEMMA CallOpenKnows ==
    ASSUME SInv, SInv', LInv, NEW w \in Workers, NEW p \in Pids, NEW r \in Requests,
           worker[w].pid = p, worker[w].req = r, KeepsEntries(p), KeepsSleepers(p),
           r.type = "open", CallOpen(w, p, r)
    PROVE  LInv'
<1>1. PICK f \in Names, lock \in BOOLEAN : f = r.name /\ lock = r.lock
  BY RequestShape
<1>2. /\ IInv /\ IInv' /\ clock \in Nat /\ files \in [Names -> Inodes \cup {NULL}]
      /\ waiting \in [Pids -> Waits \cup {NULL}]
  BY SimFSAssumption DEF SInv, IInv, Tables, TypeOK
<1>3. ASSUME OpenCreate(p, f, lock) \/ OpenExisting(p, f, lock), Returns(w, "ok")
      PROVE  LInv'
  <2>1. Keeps(p)
    BY <1>2, <1>3, OpenKeepsLocks DEF Keeps
  <2>2. ASSUME lock PROVE files'[f] # NULL /\ files'[f].locked = p
    <3>1. PICK x \in Inodes : x.locked = p /\ files' = [files EXCEPT ![f] = increase_refs(x, p, clock)]
      <4>1. CASE OpenCreate(p, f, lock)
        <5>1. PICK i \in Inodes : i = inode_init(clock)
          BY <1>2, InodeInit
        <5>2. PICK x \in Inodes : x = file_lock(i, p, clock) /\ x.locked = p
          BY <1>2, InodeLock
        <5> QED BY <2>2, <4>1, <5>1, <5>2 DEF OpenCreate, Opened
      <4>2. CASE OpenExisting(p, f, lock)
        <5>1. Exists(f)
          BY <4>2 DEF OpenExisting, open_error
        <5>2. PICK i \in Inodes : i = files[f]
          BY <1>2, <5>1 DEF Exists
        <5>3. PICK x \in Inodes : x = file_lock(i, p, clock) /\ x.locked = p
          BY <1>2, InodeLock
        <5> QED BY <2>2, <4>2, <5>2, <5>3 DEF OpenExisting, Opened, NeedsLock
      <4> QED BY <1>3, <4>1, <4>2
    <3>2. clock \in Nat /\ x.locked = p
      BY <1>2, <3>1
    <3>3. PICK y \in Inodes : y = increase_refs(x, p, clock) /\ y.locked = p
      BY <3>2, RefsKeepLock
    <3> QED BY <1>2, <3>1, <3>3, NullAssumption
  <2>3. AsksLock(r) => HasLock(p, r)'
    BY <1>1, <2>2 DEF AsksLock, HasLock, Means, Exists
  <2> QED BY <1>3, <2>1, <2>3, ReturnKnows
<1>4. ASSUME lock, OpenWaits(p, f), worker' = [worker EXCEPT ![w].pc = "asleep"]
      PROVE  LInv'
  <2>1. Keeps(p)
    BY <1>2, <1>4, OpenKeepsLocks DEF Keeps
  <2>2. Sleep(p, f, "open")
    BY <1>4 DEF OpenWaits
  <2>3. waiting'[p] # NULL /\ waiting'[p].name = f
    BY <1>2, <2>2, SleepKeeps DEF Sleep
  <2>4. WaitsLock(p, r)'
    BY <1>1, <1>4, <2>3 DEF WaitsLock, AsksLock, Means
  <2> QED BY <1>4, <2>1, <2>4, SleepKnows
<1>5. ASSUME Refused(p), NEW error, error # "ok", Returns(w, error) PROVE LInv'
  <2>1. files' = files
    BY <1>5 DEF Refused, vars
  <2>2. Keeps(p)
    BY <2>1, SameFilesKeepLocks DEF Keeps
  <2> QED BY <1>5, <2>2, ReturnKnows
<1> QED BY <1>1, <1>3, <1>4, <1>5 DEF CallOpen

LEMMA CallLockKnows ==
    ASSUME SInv, SInv', LInv, NEW w \in Workers, NEW p \in Pids, NEW r \in Requests,
           worker[w].pid = p, worker[w].req = r, KeepsEntries(p), KeepsSleepers(p),
           r.type = "lock", CallLock(w, p, r.fd)
    PROVE  LInv'
<1>1. PICK fd \in Nat : fd = r.fd
  BY RequestShape
<1>2. /\ IInv /\ IInv' /\ clock \in Nat /\ files \in [Names -> Inodes \cup {NULL}]
      /\ waiting \in [Pids -> Waits \cup {NULL}]
  BY SimFSAssumption DEF SInv, IInv, Tables, TypeOK
<1>3. ASSUME lock_error(p, fd) = "ok"
      PROVE  /\ fd \in InUse(fdt) /\ fdt.table[fd].owner = p /\ Copy(fd).name \in Names
             /\ Exists(Copy(fd).name)
  <2>1. fd_error(p, fd) = "ok"
    BY <1>3 DEF lock_error
  <2> QED BY <1>2, <2>1, FdErrors, DescriptorOk DEF fd_error
<1>4. PICK f : f = Copy(fd).name
  OBVIOUS
<1>5. ASSUME lock_error(p, fd) = "ok", fdt' = fdt PROVE Means(p, r, f)'
  <2>1. fdt.table[fd].inode.name = f
    BY <1>4 DEF Copy, fdt_get
  <2>2. Means(p, r, f)
    BY <1>1, <1>3, <1>5, <2>1 DEF Means
  <2> QED BY <1>5, <2>2 DEF Means, InUse
<1>6. ASSUME Lock(p, fd), Returns(w, "ok") PROVE LInv'
  <2>1. Keeps(p)
    BY <1>2, <1>6, LockKeepsLocks DEF Keeps
  <2>2. lock_error(p, fd) = "ok" /\ fdt' = fdt /\ files' = [files EXCEPT ![f] = file_lock(files[f], p, clock)]
    BY <1>4, <1>6 DEF Lock
  <2>3. f \in Names /\ files[f] \in Inodes
    BY <1>2, <1>3, <1>4, <2>2 DEF Exists
  <2>4. PICK x \in Inodes : x = file_lock(files[f], p, clock) /\ x.locked = p
    BY <1>2, <2>3, InodeLock
  <2>5. files'[f] # NULL /\ files'[f].locked = p
    BY <1>2, <2>2, <2>3, <2>4, NullAssumption
  <2>6. HasLock(p, r)'
    BY <1>5, <2>2, <2>3, <2>5 DEF HasLock, Exists
  <2> QED BY <1>6, <2>1, <2>6, ReturnKnows
<1>7. ASSUME LockWaits(p, fd), worker' = [worker EXCEPT ![w].pc = "asleep"] PROVE LInv'
  <2>1. Keeps(p)
    BY <1>2, <1>7, LockKeepsLocks DEF Keeps
  <2>2. lock_error(p, fd) = "ok" /\ Sleep(p, f, "lock")
    BY <1>4, <1>7 DEF LockWaits
  <2>3. f \in Names /\ fdt' = fdt
    BY <1>3, <1>4, <2>2 DEF Sleep
  <2>4. waiting'[p] # NULL /\ waiting'[p].name = f
    BY <1>2, <2>2, <2>3, SleepKeeps DEF Sleep
  <2>5. WaitsLock(p, r)'
    BY <1>5, <2>2, <2>3, <2>4 DEF WaitsLock, AsksLock
  <2> QED BY <1>7, <2>1, <2>5, SleepKnows
<1>8. ASSUME Refused(p), NEW error, Returns(w, error),
             error = "ok" => lock_error(p, fd) = "ok" /\ files[f].locked = p
      PROVE  LInv'
  <2>1. files' = files /\ fdt' = fdt
    BY <1>8 DEF Refused, vars
  <2>2. Keeps(p)
    BY <2>1, SameFilesKeepLocks DEF Keeps
  <2>3. error = "ok" => HasLock(p, r)'
    BY <1>3, <1>4, <1>5, <1>8, <2>1 DEF HasLock, Exists
  <2> QED BY <1>8, <2>2, <2>3, ReturnKnows
<1> QED BY <1>1, <1>4, <1>6, <1>7, <1>8 DEF CallLock

LEMMA CallKnows ==
    ASSUME SInv, SInv', LInv, NEW w \in Workers, Call(w)
    PROVE  LInv'
<1>1. /\ worker[w].pc = "call" /\ AtWork(worker[w]) /\ worker[w].pid \in Pids
      /\ IInv /\ IInv'
  BY WorkerIs DEF Call, SInv
<1>2. PICK p \in Pids, r \in Requests : p = worker[w].pid /\ r = worker[w].req
  BY <1>1 DEF AtWork
<1>3. \/ r.type = "open"   /\ CallOpen(w, p, r)
      \/ r.type = "lock"   /\ CallLock(w, p, r.fd)
      \/ r.type = "unlock" /\ CallUnlock(w, p, r.fd)
      \/ r.type = "close"  /\ CallClose(w, p, r.fd)
      \/ r.type = "remove" /\ CallRemove(w, p, r.name)
  BY <1>2 DEF Call
<1>4. KeepsEntries(p) /\ KeepsSleepers(p)
  BY <1>1, <1>3, CallOpenServed, CallLockServed, CallUnlockServed, CallCloseServed,
     CallRemoveServed DEF Served
<1>5. ASSUME KeepsLocks(p), \E res : Returns(w, res), ~AsksLock(r) PROVE LInv'
  BY <1>2, <1>4, <1>5, ReturnKnows DEF Keeps
<1>6. Refused(p) => KeepsLocks(p)
  <2>1. Refused(p) => files' = files
    BY DEF Refused, vars
  <2> QED BY <2>1, SameFilesKeepLocks
<1>7. CASE r.type = "open" /\ CallOpen(w, p, r)
  BY <1>2, <1>4, <1>7, CallOpenKnows
<1>8. CASE r.type = "lock" /\ CallLock(w, p, r.fd)
  BY <1>2, <1>4, <1>8, CallLockKnows
<1>9. CASE r.type = "unlock" /\ CallUnlock(w, p, r.fd)
  <2>1. PICK fd \in Nat : fd = r.fd
    BY <1>9, RequestShape
  <2>2. (Unlock(p, fd) \/ Refused(p)) /\ \E res : Returns(w, res)
    BY <1>9, <2>1 DEF CallUnlock
  <2>3. KeepsLocks(p)
    BY <1>1, <1>6, <2>2, LockKeepsLocks
  <2> QED BY <1>5, <1>9, <2>2, <2>3 DEF AsksLock
<1>10. CASE r.type = "close" /\ CallClose(w, p, r.fd)
  <2>1. PICK fd \in Nat : fd = r.fd
    BY <1>10, RequestShape
  <2>2. (Close(p, fd) \/ Refused(p)) /\ \E res : Returns(w, res)
    BY <1>10, <2>1 DEF CallClose
  <2>3. KeepsLocks(p)
    BY <1>1, <1>6, <2>2, LeavingKeepsLocks
  <2> QED BY <1>5, <1>10, <2>2, <2>3 DEF AsksLock
<1>11. CASE r.type = "remove" /\ CallRemove(w, p, r.name)
  <2>1. PICK f \in Names : f = r.name
    BY <1>11, RequestShape
  <2>2. (RemoveFile(p, f) \/ Refused(p)) /\ \E res : Returns(w, res)
    BY <1>11, <2>1 DEF CallRemove
  <2>3. KeepsLocks(p)
    BY <1>1, <1>6, <2>2, RemoveFileKeepsLocks
  <2> QED BY <1>5, <1>11, <2>2, <2>3 DEF AsksLock
<1> QED BY <1>3, <1>7, <1>8, <1>9, <1>10, <1>11

(* A waiter that has the lock opens the file or finds the table full. *)
LEMMA WakeUpKnows ==
    ASSUME IInv, NEW p \in Pids, WakeUp(p), NEW r, WaitsLock(p, r)
    PROVE  HasLock(p, r)'
<1>1. /\ waiting[p] # NULL /\ undefined = "no" /\ clock \in Nat
      /\ files \in [Names -> Inodes \cup {NULL}]
  BY SimFSAssumption DEF WakeUp, Awake, IInv, Tables, TypeOK
<1>2. PICK f \in Names : f = waiting[p].name
  BY <1>1 DEF IInv, Tables, TypeOK, Waits
<1>3. Exists(f) /\ p \in Waiters(f)
  BY <1>1, <1>2 DEF IInv, Locks, PendingIsOneWaiter, Exists, Waiters
<1>4. PICK x \in Inodes : x = files[f] /\ x.pending = 1
  BY <1>1, <1>3, PendingCases DEF Exists
<1>5. PICK y \in Inodes : y = file_lock(x, p, clock) /\ y.locked = p /\ y.pending = 1
  BY ONLY <1>1, <1>4, x \in Inodes, p \in Pids, InodeLock
<1>6. PICK z \in Inodes : z = decrease_pending_locks(y, clock) /\ z.locked = p
  BY ONLY <1>1, <1>5, y \in Inodes, InodeNotPending
<1>7. PICK u \in Inodes : u = increase_refs(z, p, clock) /\ u.locked = p
  BY <1>1, <1>6, RefsKeepLock
<1>8. \/ files' = [files EXCEPT ![f] = z] /\ fdt' = fdt
      \/ files' = [files EXCEPT ![f] = u] /\ \E e : fdt' = fdt_put(fdt, e)
  BY <1>2, <1>4, <1>5, <1>6, <1>7 DEF WakeUp, Opened
<1>9. files'[f] # NULL /\ files'[f].locked = p
  BY <1>1, <1>6, <1>7, <1>8, NullAssumption
<1>10. \A i \in InUse(fdt) : i \in InUse(fdt') /\ fdt'.table[i] = fdt.table[i]
  <2>1. CASE fdt' = fdt
    BY <2>1
  <2>2. CASE \E e : fdt' = fdt_put(fdt, e)
    <3>1. PICK e : fdt' = fdt_put(fdt, e)
      BY <2>2
    <3>2. fdt.max_fd \in Nat /\ Sound(fdt)
      BY TableFacts DEF IInv
    <3> QED BY <3>1, <3>2, PutKeeps
  <2> QED BY <1>8, <2>1, <2>2
<1>11. Means(p, r, f)'
  BY <1>2, <1>10 DEF WaitsLock, Means
<1> QED BY <1>9, <1>11 DEF HasLock, Exists

(* A waiter that is woken for nothing still waits for its file. *)
LEMMA FlagKnows ==
    ASSUME SInv, LInv, NEW p \in Pids, SleepAgain(p) \/ Spurious(p), worker' = worker
    PROVE  LInv'
<1>1. /\ waiting \in [Pids -> Waits \cup {NULL}] /\ IInv
      /\ \A w \in Workers : worker[w].pc = "asleep" => worker[w].pid \in Pids
  BY WorkerIs DEF SInv, IInv, Tables, TypeOK
<1>2. /\ UNCHANGED <<files, fdt>> /\ waiting[p] # NULL
      /\ \E b \in BOOLEAN : waiting' = [waiting EXCEPT ![p].signalled = b]
  BY DEF SleepAgain, Spurious, Awake, table
<1>3. PICK b \in BOOLEAN : waiting' = [waiting EXCEPT ![p].signalled = b]
  BY <1>2
<1>4. waiting'[p] # NULL /\ waiting'[p].name = waiting[p].name
  <2>1. [waiting[p] EXCEPT !.signalled = b] \in Waits
    BY <1>1, <1>2 DEF Waits
  <2>2. waiting'[p] = [waiting[p] EXCEPT !.signalled = b]
    BY <1>1, <1>3
  <2> QED BY <1>1, <1>2, <2>1, <2>2, NullAssumption DEF Waits
<1>5. \A q \in Pids : waiting[q] # NULL => waiting'[q] # NULL /\ waiting'[q].name = waiting[q].name
  BY <1>1, <1>3, <1>4
<1>6. ASSUME NEW q \in Pids, NEW r, WaitsLock(q, r) PROVE WaitsLock(q, r)'
  <2>1. waiting'[q] # NULL /\ waiting'[q].name = waiting[q].name
    BY <1>5, <1>6 DEF WaitsLock
  <2> QED BY <1>2, <1>6, <2>1 DEF WaitsLock, Means, InUse
<1>7. ASSUME NEW q, NEW r, HasLock(q, r) PROVE HasLock(q, r)'
  BY <1>2, <1>7 DEF HasLock, Means, InUse, Exists
<1>8. ASSUME NEW w \in Workers PROVE Knows(worker[w])'
  <2>1. PICK s : s = worker[w]
    OBVIOUS
  <2>2. Knows(s) /\ (s.pc = "asleep" => s.pid \in Pids)
    BY <1>1, <2>1 DEF LInv
  <2>3. Knows(s)'
    BY <1>6, <1>7, <2>2 DEF Knows
  <2> QED BY <2>1, <2>3
<1> QED BY <1>8 DEF LInv

LEMMA ResumeKnows ==
    ASSUME SInv, LInv, NEW w \in Workers, Resume(w)
    PROVE  LInv'
<1>1. worker[w].pc = "asleep" /\ AtWork(worker[w]) /\ worker[w].pid \in Pids /\ IInv
  BY WorkerIs DEF Resume, SInv
<1>2. PICK p \in Pids, r \in Requests : p = worker[w].pid /\ r = worker[w].req
  BY <1>1 DEF AtWork
<1>3. WaitsLock(p, r)
  BY <1>1, <1>2 DEF LInv, Knows
<1>4. CASE WakeUp(p) /\ \E res : Returns(w, res)
  <2>1. Keeps(p)
    BY <1>1, <1>4, WakeUpKeeps, WakeUpKeepsLocks DEF Keeps
  <2>2. HasLock(p, r)'
    BY <1>1, <1>3, <1>4, WakeUpKnows
  <2> QED BY <1>2, <1>4, <2>1, <2>2, ReturnKnows
<1>5. CASE SleepAgain(p) /\ UNCHANGED worker
  BY <1>5, FlagKnows
<1> QED BY <1>2, <1>4, <1>5 DEF Resume

LEMMA EndSessionKnows ==
    ASSUME SInv, SInv', LInv, NEW w \in Workers, EndSession(w)
    PROVE  LInv'
<1>1. /\ worker[w].pc = "leave" /\ worker[w].pid \in Pids /\ IInv /\ IInv'
      /\ worker \in [Workers -> Handlings]
  BY WorkerIs DEF EndSession, SInv, ServerTypeOK, PoolOK
<1>2. PICK p \in Pids : p = worker[w].pid
  BY <1>1
<1>3. Keeps(p)
  <2>1. CASE RemoveSession(p)
    BY <1>1, <2>1, SessionKeeps, LeavingKeepsLocks DEF Keeps
  <2>2. CASE Refused(p)
    <3>1. UNCHANGED <<files, fdt, waiting>>
      BY <2>2 DEF Refused, vars
    <3> QED BY <3>1, QuietKeeps, SameFilesKeepLocks DEF Keeps
  <2> QED BY <1>2, <2>1, <2>2 DEF EndSession
<1> DEFINE s0 == [worker[w] EXCEPT !.pc = "close"]
<1>4. Goes(w, s0) /\ s0.pc = "close"
  BY <1>1 DEF EndSession, Goes, Handlings
<1> HIDE DEF s0
<1>5. PICK s : Goes(w, s) /\ s.pc = "close"
  BY <1>4
<1>6. Knows(s)'
  BY <1>5 DEF Knows
<1> QED BY <1>2, <1>3, <1>5, <1>6, CallerKnows

(* The steps of a worker between its calls. *)
LEMMA BetweenCallsKnows ==
    ASSUME SInv, LInv, NEW w \in Workers,
           \/ Dequeue(w) \/ Subscribe(w) \/ Respond(w) \/ Broadcast(w)
           \/ CloseClient(w) \/ Announce(w)
    PROVE  LInv'
<1>1. UNCHANGED vars
  BY DEF Dequeue, Subscribe, Respond, Broadcast, CloseClient, Announce
<1>2. worker \in [Workers -> Handlings] /\ worker[w] \in Handlings
  BY DEF SInv, ServerTypeOK, PoolOK
<1>3. ASSUME NEW target, Proceeds(w, target)
      PROVE  \E s : Goes(w, s) /\ s.pc \notin {"asleep", "respond"}
  <2> DEFINE s0 == IF target = NULL THEN Idle
                   ELSE [Idle EXCEPT !.pc = "broadcast", !.target = target]
  <2>1. Goes(w, s0)
    BY <1>3 DEF Proceeds, Goes
  <2>2. s0.pc \notin {"asleep", "respond"}
    BY DEF Idle
  <2> HIDE DEF s0
  <2> QED BY <2>1, <2>2
<1>4. \E s : Goes(w, s) /\ s.pc \notin {"asleep", "respond"}
  <2>1. CASE Dequeue(w)
    <3>1. PICK fd_c : fd_c = Head(queue)
      OBVIOUS
    <3> DEFINE s1 == [worker[w] EXCEPT !.pc = "ended"]
               s2 == [Idle EXCEPT !.pc = "call", !.pid = fd_c, !.req = asked[fd_c]]
               s3 == [Idle EXCEPT !.pc = "leave", !.pid = fd_c]
    <3>2. Goes(w, s1) \/ Goes(w, s2) \/ Goes(w, s3)
      BY <1>2, <2>1, <3>1 DEF Dequeue, Goes
    <3>3. s1.pc = "ended" /\ s2.pc = "call" /\ s3.pc = "leave"
      BY <1>2 DEF Idle, Handlings
    <3> HIDE DEF s1, s2, s3
    <3> QED BY <3>2, <3>3
  <2>2. CASE Subscribe(w) \/ Respond(w)
    BY <1>3, <2>2 DEF Subscribe, Respond
  <2>3. CASE Broadcast(w)
    <3>1. PICK el : el = Popped(wl, worker[w].target)
      OBVIOUS
    <3> DEFINE s2 == [worker[w] EXCEPT !.pc = "call", !.pid = el.pid, !.req = el.req]
    <3>2. Goes(w, Idle) \/ Goes(w, s2)
      BY <1>2, <2>3, <3>1 DEF Broadcast, Goes
    <3>3. Idle.pc = "idle" /\ s2.pc = "call"
      BY <1>2 DEF Idle, Handlings
    <3> HIDE DEF s2
    <3> QED BY <3>2, <3>3
  <2>4. CASE CloseClient(w)
    <3> DEFINE s2 == [Idle EXCEPT !.pc = "announce"]
    <3>1. Goes(w, s2) /\ s2.pc = "announce"
      BY <2>4 DEF CloseClient, Goes, Idle
    <3> HIDE DEF s2
    <3> QED BY <3>1
  <2>5. CASE Announce(w)
    <3>1. Goes(w, Idle) /\ Idle.pc = "idle"
      BY <2>5 DEF Announce, Goes, Idle
    <3> QED BY <3>1
  <2> QED BY <2>1, <2>2, <2>3, <2>4, <2>5
<1>5. PICK s : Goes(w, s) /\ s.pc \notin {"asleep", "respond"}
  BY <1>4
<1> QED BY <1>1, <1>5, OutsideKnows
-----------------------------------------------------------------------------
(* The theorems.                                                           *)

LEMMA ServerInitInv == ServerInit => SInv
<1> SUFFICES ASSUME ServerInit PROVE SInv
  OBVIOUS
<1>1. Init
  BY DEF ServerInit
<1>2. IInv
  BY <1>1, InitInv
<1>3. /\ conn = [p \in Pids |-> "closed"] /\ asked = [p \in Pids |-> NULL]
      /\ unread = {} /\ backlog = FALSE /\ connects = 0
      /\ master = "running" /\ set = {} /\ fd_num = Listener /\ rdset = {}
      /\ active = 0 /\ signals = {} /\ sent = 0
      /\ queue = <<>> /\ pipe = <<>>
      /\ worker = [w \in Workers |-> Idle]
      /\ wl = [queues |-> [t \in Names |-> <<>>], presence |-> [p \in Pids |-> 0]]
  BY DEF ServerInit, waiting_list_init
<1>4. Idle \in Handlings /\ Idle.pid = NoPid /\ Idle.pc = "idle"
  BY DEF Idle, Handlings, Steps
<1>5. NoPid \notin Pids
  BY NoPidAssumption
<1>6. ServerTypeOK
  <2>1. ClientsOK
    <3>1. 0 \in 0..MaxConnections
      BY ServerAssumption
    <3>2. /\ [p \in Pids |-> "closed"] \in [Pids -> {"closed", "open", "hungup"}]
          /\ [p \in Pids |-> NULL] \in [Pids -> Requests \cup {NULL}]
      OBVIOUS
    <3> QED BY <1>3, <3>1, <3>2 DEF ClientsOK
  <2>4. LoopOK
    BY <1>3 DEF LoopOK, Listener
  <2>2. worker \in [Workers -> Handlings]
    BY <1>3, <1>4
  <2>3. PoolOK
    BY <1>3, <2>2 DEF PoolOK
  <2> QED BY <2>1, <2>3, <2>4 DEF ServerTypeOK
<1>7. Count(queue, Gone) = 0 /\ Count(pipe, Gone) = 0
      /\ \A p \in Pids : Count(queue, p) = 0 /\ Count(pipe, p) = 0
  <2>1. \A x : {i \in DOMAIN queue : queue[i] = x} = {} /\ {i \in DOMAIN pipe : pipe[i] = x} = {}
    BY <1>3
  <2> QED BY <2>1, FS_EmptySet DEF Count
<1>8. EachClientInOnePlace
  <2>1. ASSUME NEW p \in Pids PROVE conn[p] = "closed" /\ Places(p) = 0
    <3>1. {p} \cap set = {} /\ {w \in Workers : worker[w].pid = p} = {} /\ wl.presence[p] = 0
      BY <1>3, <1>4, <1>5
    <3>2. Cardinality({p} \cap set) = 0 /\ Cardinality({w \in Workers : worker[w].pid = p}) = 0
      BY <3>1, FS_EmptySet
    <3>3. Count(queue, p) = 0 /\ Count(pipe, p) = 0 /\ conn[p] = "closed"
      BY <1>3, <1>7
    <3> QED BY <3>1, <3>2, <3>3 DEF Places
  <2> QED BY <2>1 DEF EachClientInOnePlace
<1>9. Handling
  BY <1>3, <1>4, <1>5 DEF Handling, WorkersAtWork, AtWork, PassIsCurrent, PendingIsAsked
<1>10. SelectSeesAll
  BY <1>3 DEF SelectSeesAll, Channel, Listener
<1>11. ConnectionsAreCounted
  <2>1. {p \in Pids : conn[p] # "closed"} = {} /\ {w \in Workers : worker[w].pc = "announce"} = {}
    BY <1>3, <1>4
  <2>2. /\ Cardinality({p \in Pids : conn[p] # "closed"}) = 0
        /\ Cardinality({w \in Workers : worker[w].pc = "announce"}) = 0
    BY <2>1, FS_EmptySet
  <2> QED BY <1>3, <1>7, <2>2 DEF ConnectionsAreCounted
<1>12. DownForAReason /\ Queues
  BY <1>3 DEF DownForAReason, Queues, WaitersArePresent, WaitersDiffer
<1>13. Files
  <2>1. waiting = [p \in Pids |-> NULL]
    BY <1>1 DEF Init
  <2> QED BY <1>3, <1>4, <2>1 DEF Files, TargetsAreOpen, SleepersMatch
<1> QED BY <1>2, <1>6, <1>8, <1>9, <1>10, <1>11, <1>12, <1>13 DEF SInv

LEMMA ServerNextInv == SInv /\ [ServerNext]_allvars => SInv' /\ [Next]_vars
<1> SUFFICES ASSUME SInv, [ServerNext]_allvars PROVE SInv' /\ [Next]_vars
  OBVIOUS
<1>1. CASE MasterStep
  <2>1. UNCHANGED vars
    BY <1>1 DEF MasterStep, Select, Accept, HandleMessage, Dispatch, SendTermination, Join
  <2> QED BY <1>1, <2>1, SelectInv, AcceptInv, HandleMessageInv, DispatchInv, SendTerminationInv,
             JoinInv DEF MasterStep
<1>2. ASSUME NEW w \in Workers, WorkerStep(w) PROVE SInv' /\ [Next]_vars
  <2>1. CASE Call(w) \/ Resume(w) \/ EndSession(w)
    BY <2>1, CallInv, ResumeInv, EndSessionInv
  <2>2. CASE \/ Dequeue(w) \/ Subscribe(w) \/ Respond(w) \/ Broadcast(w)
             \/ CloseClient(w) \/ Announce(w)
    <3>1. UNCHANGED vars
      BY <2>2 DEF Dequeue, Subscribe, Respond, Broadcast, CloseClient, Announce
    <3> QED BY <2>2, <3>1, DequeueInv, SubscribeInv, RespondInv, BroadcastInv, CloseClientInv,
               AnnounceInv
  <2> QED BY <1>2, <2>1, <2>2 DEF WorkerStep
<1>3. CASE ClientStep
  <2>1. UNCHANGED vars
    BY <1>3 DEF ClientStep, Connect, HangUp, Send
  <2> QED BY <1>3, <2>1, ConnectInv, HangUpInv, SendInv DEF ClientStep
<1>4. ASSUME NEW kind \in Terminations, NEW interrupts \in BOOLEAN, Signal(kind, interrupts)
      PROVE  SInv' /\ [Next]_vars
  <2>1. UNCHANGED vars
    BY <1>4 DEF Signal
  <2> QED BY <1>4, <2>1, SignalInv
<1>5. CASE Wakes
  BY <1>5, WakesInv
<1>6. CASE UNCHANGED allvars
  <2>1. UNCHANGED <<vars, conn, asked, unread, backlog, connects, master, set, fd_num, rdset,
                    active, signals, sent, queue, pipe, worker, wl>>
    BY <1>6 DEF allvars, clients, loop, pool
  <2>2. ServerTypeOK'
    BY <2>1 DEF SInv, ServerTypeOK, ClientsOK, LoopOK, PoolOK
  <2>3. /\ EachClientInOnePlace' /\ WorkersAtWork' /\ PassIsCurrent' /\ PendingIsAsked'
        /\ SelectSeesAll' /\ ConnectionsAreCounted' /\ DownForAReason' /\ Queues'
    BY <2>1 DEF SInv, EachClientInOnePlace, Places, Count, Handling, WorkersAtWork, AtWork,
                PassIsCurrent, HasCome, PendingIsAsked, SelectSeesAll, ConnectionsAreCounted,
                DownForAReason, Queues, WaitersArePresent, WaitersDiffer
  <2>4. IInv' /\ Files'
    BY <2>1, FilesUntouched
  <2> QED BY <2>1, <2>2, <2>3, <2>4 DEF SInv, Handling
<1> QED BY <1>1, <1>2, <1>3, <1>4, <1>5, <1>6 DEF ServerNext

(* The server keeps SInv: its own types and invariants, and IInv, the      *)
(* invariant of the file system that its workers share.                    *)
THEOREM ServerInvariant == ServerSpec => []SInv
BY ServerInitInv, ServerNextInv, PTL DEF ServerSpec

(* Every behaviour of the server is one of the file system: a worker calls *)
(* it as its callers may (a pid that sleeps in it calls nothing else), and *)
(* whatever SimFS_proofs proves of the file system holds in the server.    *)
THEOREM ServerUsesFileSystem == ServerSpec => Spec
<1>1. ServerInit => Init
  BY DEF ServerInit
<1> QED BY <1>1, ServerInitInv, ServerNextInv, PTL DEF ServerSpec, Spec

(* The master and the workers never have a client twice, and a client that *)
(* has not hung up is never dropped: FD_CLR before the queue, the pipe or  *)
(* the waiting list after it, and FD_SET again.                            *)
THEOREM ClientsAreHandedOver == ServerSpec => []EachClientInOnePlace
<1>1. SInv => EachClientInOnePlace
  BY DEF SInv
<1> QED BY <1>1, ServerInvariant, PTL

(* fd_num, counted up and down by the master, stays above the listening    *)
(* socket, the pipe and every client select is to look at.                 *)
THEOREM SelectMissesNone == ServerSpec => []SelectSeesAll
<1>1. SInv => SelectSeesAll
  BY DEF SInv
<1> QED BY <1>1, ServerInvariant, PTL

(* active_connections is the number of sockets that are open and of the    *)
(* departures on their way to the master.                                  *)
THEOREM ActiveConnections == ServerSpec => []ConnectionsAreCounted
<1>1. SInv => ConnectionsAreCounted
  BY DEF SInv
<1> QED BY <1>1, ServerInvariant, PTL

(* The elements of the waiting list are of clients that are present, with  *)
(* the request they still wait for.                                        *)
THEOREM NoStaleWaiters == ServerSpec => []WaitersArePresent
<1>1. SInv => WaitersArePresent
  BY DEF SInv, Queues
<1> QED BY <1>1, ServerInvariant, PTL

LEMMA LocksInit == ServerInit => LInv
<1> SUFFICES ASSUME ServerInit PROVE LInv
  OBVIOUS
<1>1. worker = [w \in Workers |-> Idle] /\ Idle.pc = "idle"
  BY DEF ServerInit, Idle
<1> QED BY <1>1 DEF LInv, Knows

LEMMA LocksNext == SInv /\ SInv' /\ LInv /\ [ServerNext]_allvars => LInv'
<1> SUFFICES ASSUME SInv, SInv', LInv, [ServerNext]_allvars PROVE LInv'
  OBVIOUS
<1>1. ASSUME NEW w \in Workers, WorkerStep(w) PROVE LInv'
  BY <1>1, CallKnows, ResumeKnows, EndSessionKnows, BetweenCallsKnows DEF WorkerStep
<1>2. CASE MasterStep
  <2>1. UNCHANGED <<vars, worker>>
    BY <1>2 DEF MasterStep, Select, Accept, HandleMessage, Dispatch, SendTermination, Join, pool
  <2> QED BY <2>1, UntouchedKnows
<1>3. CASE ClientStep
  <2>1. UNCHANGED <<vars, worker>>
    BY <1>3 DEF ClientStep, Connect, HangUp, Send, pool
  <2> QED BY <2>1, UntouchedKnows
<1>4. ASSUME NEW kind \in Terminations, NEW interrupts \in BOOLEAN, Signal(kind, interrupts)
      PROVE  LInv'
  <2>1. UNCHANGED <<vars, worker>>
    BY <1>4 DEF Signal, pool
  <2> QED BY <2>1, UntouchedKnows
<1>5. CASE Wakes
  <2>1. PICK p \in Pids : Spurious(p)
    BY <1>5 DEF Wakes
  <2>2. worker' = worker
    BY <1>5 DEF Wakes, pool
  <2> QED BY <2>1, <2>2, FlagKnows
<1>6. CASE UNCHANGED allvars
  <2>1. UNCHANGED <<vars, worker>>
    BY <1>6 DEF allvars, pool
  <2> QED BY <2>1, UntouchedKnows
<1> QED BY <1>1, <1>2, <1>3, <1>4, <1>5, <1>6 DEF ServerNext

LEMMA KnownIsTrue == LInv => LockAnswersAreTrue
<1> SUFFICES ASSUME LInv, NEW w \in Workers, worker[w].pc = "respond", worker[w].res = "ok",
                    AsksLock(worker[w].req)
             PROVE  /\ Exists(Target(worker[w].req))
                    /\ files[Target(worker[w].req)].locked = worker[w].pid
  BY DEF LockAnswersAreTrue
<1>1. PICK p, r : p = worker[w].pid /\ r = worker[w].req
  OBVIOUS
<1>2. HasLock(p, r)
  BY <1>1 DEF LInv, Knows
<1>3. PICK f \in Names : Means(p, r, f) /\ Exists(f) /\ files[f].locked = p
  BY <1>2 DEF HasLock
<1>4. Target(r) = f
  BY <1>3 DEF Means, Target, Copy, fdt_get
<1> QED BY <1>1, <1>3, <1>4

(* A client that is told it has the lock of a file has it, at once or      *)
(* after a sleep, whatever the workers open, lock, unlock, close, remove   *)
(* and end for others between the call for the lock and the answer to it.  *)
THEOREM LockAnswersHold == ServerSpec => []LockAnswersAreTrue
<1>1. SInv /\ LInv /\ [ServerNext]_allvars => SInv' /\ LInv'
  BY ServerNextInv, LocksNext
<1> QED BY <1>1, ServerInitInv, LocksInit, KnownIsTrue, PTL DEF ServerSpec

(* After SIGHUP alone the server stops only when every client has gone.    *)
THEOREM SoftTerminationIsSoft == ServerSpec => []SoftTerminationWaits
<1>1. SInv => SoftTerminationWaits
  BY DEF SInv, DownForAReason, SoftTerminationWaits
<1> QED BY <1>1, ServerInvariant, PTL
=============================================================================
