# TLA+ models of the in-memory file storage server

This directory specifies the file storage server: the in-memory file system
(`file-system/`), the server around it (`server/`), the protocol between server
and clients (`socket/`, `message/`), the client API and the command line client
(`server/src/gnl_fss_api.c`, `client/`), and the containers below all of them
(`data-structures/`). TLC checks the models on small instances, TLAPS proves
theorems about them for every value of the constants. `PROJECT.json` lists the
components, the runs, the source lines of every definition, the hazards and the
theorems.

## The system

| Part | State | Operations | Talks to |
|---|---|---|---|
| file descriptor table (`gnl_simfs_file_descriptor_table.c`) | array of entries, min heap of holes, `size`, `max_fd` | `put`, `get`, `remove`, `remove_pid`, `pid_inode_size` | called by the file system |
| inode (`gnl_simfs_inode.c`) | lock, reference list, pending locks, content pointer, write buffer, condition variable | lock, unlock, references, read, write, flush, copy | called by the file system and the file table |
| file table (`gnl_simfs_file_table.c`) | tree of inodes, list of names, size in bytes | create, get, flush, remove | called by the file system |
| monitor (`gnl_simfs_monitor.c`) | counters of files and bytes | added, removed | called by the file system |
| compression (`gnl_huffman_tree.c`) | none | encode, decode | called by the inode; uses the min heap |
| file system (`gnl_simfs_file_system.c`, `_rts.c`) | all of the above under one mutex | open, close, read, write, lock, unlock, remove, remove_session | called by the workers; waits on the inodes' condition variables |
| waiting list (`gnl_fss_waiting_list.c`) | a queue of requests for each file, the list of present pids | push, pop, remove | shared by the workers |
| master (`gnl_fss_server.c`) | set of descriptors it selects on, `fd_num`, `active_connections`, signal flags | select, accept, read the pipe, dispatch, terminate | queue to the workers, pipe from them |
| thread pool and worker (`gnl_fss_thread_pool.c`, `gnl_fss_worker.c`) | worker queue, pipe, waiting list | read a request, call the file system, answer, subscribe, broadcast, end a session | everything |
| thread-safe bounded queue and stack (`gnl_ts_bb_queue_t.c`, `gnl_ts_bb_stack_t.c`) | the elements, a mutex, two condition variables | enqueue, dequeue, push, pop, size | the queue carries descriptors from the master to the workers |
| containers (`gnl_min_heap_t.c`, `gnl_ternary_search_tree_t.c`, `gnl_list_t.c`, `gnl_queue_t.c`, `gnl_stack_t.c`) | an array, linked nodes, a tree | insert, extract, put, get, remove, append, delete, enqueue, push, pop, destroy | called by everything |
| socket protocol and messages (`socket/src/`, `message/src/`) | the bytes read and written so far | encode, decode, `writen`, `readn`, send and get a request or a response | both ends of a connection |
| client API (`gnl_fss_api.c`) | the connection, the descriptor of each path, `open_with_create_lock_flags` | open and close a connection; open, read, write, lock, unlock, close and remove a file; read N files | one request at a time to the server |
| command line client (`client/`) | the queue of commands | parse the options, run the commands in order, stop at the first failure | calls the API, reads and stores files of the host |
| configuration, helpers | not modelled, see below | | |

The hard behaviours: a lock that waits releases the mutex in the middle of a
call; a write evicts the files of others; every descriptor keeps a COPY of its
inode, made at open, which grows old; a client travels between the master, the
queue, a worker, the waiting list and the pipe; clients hang up and descriptor
numbers are used again; signals arrive at any moment; a message crosses the
socket in pieces and either end may vanish at any byte; a command of a client is
several calls, any of which may fail or wait.

What makes each part correct:

* the descriptor table hands out the least unused descriptor, answers only the
  owner, and never reads a slot that does not exist;
* a lock has one owner, is not taken from it, is waited for by one pid at a
  time, and nobody who waits for it is forgotten;
* the two views of the file table agree, inodes never point to freed memory,
  eviction follows the policy, sizes and counters are those of the files;
* a client is in exactly one place, every request that has no lock to wait for is
  answered, an answer about a lock is true when it goes out, departures are
  counted, and termination ends the server at the right moment;
* the bounded queue keeps its bound and its order, and nobody sleeps in it while
  there is something to do;
* a container behaves as the sequence, the map or the priority queue its users
  take it for, and the code of a content decodes to it;
* the byte stream carries whole messages in their order, nobody hangs in a read
  or a write, so that a call of a client returns unless its request waits for a
  lock, and departures are noticed;
* a client uses its own descriptors only, leaves nothing open or locked behind,
  and what it stores is the file it has.

## Modules

| Module | Models |
|---|---|
| `Pointers` | the constant `NULL` |
| `FileDescriptorTable` | the table as operators on a record; `Sound` is its representation invariant |
| `FileDescriptors` | the table as a state machine: its interface called in any order |
| `DescriptorAllocator` | abstract specification: a partial function in which a new entry gets the least unused descriptor |
| `Inode`, `Huffman` | operators on an inode and on contents |
| `SimFS` | the file system as its callers drive it; composes the three above |
| `BlockingQueue` | the monitor around the bounded queue or stack, with its condition variables |
| `BoundedChannel` | abstract specification: calls that take effect in one step; `Server` uses the queue in this form |
| `WaitingList` | operators on the waiting list |
| `Server` | master, workers, queue, pipe, clients and signals around `SimFS` and `WaitingList` |
| `MinHeap`, `TernarySearchTree`, `LinkedNodes`, `HuffmanTree` | the containers and the code as operators, with the links and the memory they take |
| `Structures` | the containers under any sequence of calls, one container per behaviour |
| `PriorityQueue`, `StringMap`, `ElementSequence` | abstract specifications of the containers |
| `Codec` | the layouts of messages, requests and responses, and the frame around them, byte by byte |
| `Socket` | one connection: both ends, the stream in both directions, short reads and writes, departures |
| `MessageChannel` | abstract specification: whole messages, in order, at most once |
| `Client` | command line clients and programs of the API around `SimFS` |
| `SimFSClaims`, `ServerClaims` | statements of docs and comments that the code does not keep |
| `MCFileDescriptors`, `MCSimFS`, `MCServer`, `MCStructures`, `MCSocket`, `MCClient` | finite instances for TLC |
| `FileDescriptorTable_proofs`, `FileDescriptors_proofs`, `BlockingQueue_proofs`, `SimFS_proofs`, `Server_proofs`, `Client_proofs`, `ClientData_proofs`, `Socket_proofs` | theorems |

### How the models correspond to the code

**The table.** `t.table` is a function whose domain is what `realloc` has
provided, so that reading a slot that was never allocated is an error of TLC
and an obligation of the proofs. The min heap of holes is a set, of which only
the minimum is taken. `destroy` is left out.

**The file system.** Every interface function takes the one mutex, so a call
is one step, except where it waits (`OpenWaits`/`LockWaits`, then `SleepAgain`
or `WakeUp`; `pthread_cond_wait` releases the mutex and may return for no
reason, `Spurious`) and in the eviction loop of a write (`WriteBegin`, `Evict`,
`EvictFails`, `WriteGivesUp`, `WriteEnd`; `writing` is the mutex held between
them). The `*_error` operators give the errno in the order of the code's tests;
`Refused` is a call that fails without a change. The reference list is the
number of its nodes for each pid. The heap is explicit: artifacts have
addresses, freeing one turns the pointers of the copies into `FREED`, and using
such a pointer, or the inode of a destroyed file, sets `undefined` and ends the
behaviour. A content is a sequence over two bytes; `encode_size` is exact for
them, in words of `WordBits` bits. `time(NULL)` is `clock`.

**The server.** A client is the number of its socket and its pid at the same
time; the kernel gives the least free number. `Select` takes the ready
descriptors, the pass over them is one step for each. A worker is a record with
a program counter: `idle`, `call`, `asleep` (in the file system), `respond`,
`broadcast`, `leave`, `close`, `announce`, `ended`. The answer of the file
system, the answer to the client or the subscription, and every pop of a
broadcast are separate steps, because nothing holds a lock over them. Removing
a client from the waiting list and from the file system is one step: no other
thread has that client (`EachClientInOnePlace`). The list of present pids in the
waiting list is the number of its nodes for each pid: one for every push that was
neither popped nor removed. READ, READ_N and WRITE requests
are left out here: they never wait, and `CopiesAreAccessible` shows that they are
never answered EBUSY; `Client` has them, with one step for a request and its
answer. Failing system calls other than a send to a client that
has gone are left out.

**The bounded queue.** The stack is the same monitor around another linked
structure, so one module models both and `kind`, fixed at the start, says which
one it is. The body of a call runs under the mutex until it returns or waits:
one step (`Enqueue`, `Dequeue`). A signalled thread competes for the mutex with
those just entering, and both begin with the test of the loop, so both are
`awake`. A signal wakes one sleeper of its condition variable, `Spurious` any.
The pthread functions of the code are compared with -1, which they never
return, and allocation is taken to succeed, so the error returns are left out.

**The containers.** `MinHeap` keeps the array and its swaps, with indices from
1; `TernarySearchTree` the nodes, and in `remove_node` the result that tells the
node above to free it; `LinkedNodes` the addresses, so that a freed node that is
still linked, or a node nobody links, shows. `HuffmanTree` builds the tree with
the very heap of `MinHeap`, because the order of equal frequencies decides the
code. `SimFS` uses simpler forms: a function for the tree, a sequence for the
list, the first of the least keys for a victim (`RootIsFirstInserted`), and the
module `Huffman` for contents of two symbols (`CodeIsHuffman`).

**The protocol.** A byte is a number. A number is written in a field of
`MAX_DIGITS` characters, 10 in the code and 2 in the run, and is taken to fit.
The socket holds `Capacity` bytes in each direction; a `write` or `read` moves
any number of them (`WriteSome`, `ReadSome`), which is what the loops of
`writen` and `readn` are for. A departure loses what the leaving end has not
read, and the other end then reads an error instead of an end of stream, as
local sockets do; a client that writes to a closed socket is ended by SIGPIPE,
the server ignores it. `read_error` is the errno of a read that ends early, on
which the worker decides between an orderly departure (EPIPE) and `handle_error`.
When that error cannot be sent either, nobody looks at the socket any more:
`abandoned`. The call of the file system is a step that need not come (`Answer`):
it may sleep for a lock. A request answered EBUSY gets no response; it is
`waiting` until a broadcast handles it again (`Subscribe`, `Broadcast`), and the
socket is not looked at meanwhile.

**The clients.** `parse_opt` folds the options into the queue of commands; the
uninitialised `previous_opt` is any value. A command is, for each of its files, a
fixed series of API calls (`send_file`, `remove_file`, ...); after a failed one the
series goes on to the close, as in the code, unless the open itself failed
(`SkipsTheRest`). An API call is one step together with what the server does for
it, since a client waits for its answer; a call that sleeps in the file system and
a write that evicts take several. A request answered EBUSY stays in the waiting
list and is tried again at any later moment: when exactly is the matter of
`Server`, so no liveness is stated about clients. All clients see one disk
(`Local`) and name files by absolute paths. Storing an evicted or read file
succeeds or fails; delays and printing are left out. A killed client leaves
between two calls (`Dies`), and its number is not used again: the session it
leaves may not be removed completely, see `SessionIsRemoved` below.

A short operator just before another one with the same parameters is a faulty
form of it (`remove_fd_uncounted`, `StillSelected`, ...). `PROJECT.json` names
for every property one that makes TLC find a violation.

## Runs

| Run | Instance | Properties |
|---|---|---|
| `fd_table` | 2 pids, 2 names, 4 slots | `TableSound`, refinement `LeastDescriptorFirst` |
| `fs_locks` | 3 pids, 1 file, 3 slots, clock 0..1, fair | `PendingIsOneWaiter`, `NoLostWakeup`, `RefsHaveDescriptors`, `CopiesAreAccessible`, `LockIsExclusive`, `LockedAlone`, `WaitedRefsShrink`, `LockableIsLocked` |
| `fs_data` | 2 pids, 1 file, contents up to 3 bytes in a memory of 2 words, LRU | `InodePointersLive` |
| `fs_evict` | 2 pids, 2 files, room for one, FIFO | `ListMatchesTable`, `FilesAreCounted` |
| `server` | 2 workers, 2 clients, 2 connections, locks, signals | `EachClientInOnePlace`, `SelectSeesAll`, `ConnectionsAreCounted`, `WaitersArePresent`, `SoftTerminationWaits` |
| `server_waits` | 2 workers, 2 clients, locks that sleep | `LockAnswersAreTrue` |
| `server_answers` | 1 worker, 2 clients, 3 connections, no locks, fair | `RequestsAreAnswered` |
| `queue` | 2 producers, 3 consumers, 2 elements, bound 2, fair | `SleepersAreSignalled`, refinement `ImplementsChannel` with its fairness |
| `structures` | heaps of 5 insertions with 3 keys, 6 names that share prefixes, chains of 4 nodes, contents of 6 symbols out of 4 | `RootIsFirstInserted`, `NoNodeLeaks`, `DecodeInverts`, `CodeIsOptimal`, `CodeIsHuffman`, refinements `HeapIsPriorityQueue`, `TreeIsMap`, `ChainIsSequence` |
| `socket` | 2 requests of 6 kinds with their answers, 4 bytes in a direction, fields of 2 characters, fair | `AbandonsOnlyInterrupted`, refinement `StreamIsMessages`, `TransfersEnd`, `DepartureIsNoticed` |
| `client` | 2 clients, 4 starts, 6 command lines, 3 names, room for 2 words and 2 files, FIFO, clock 0..1 | `OldestFirst`, `UsesOwnDescriptors`, `NothingLeftOpen`, `LocksAreAsked`, `LeavesNothing`, `StoredIsLocal` |
| `fs_LockedFileIsNotWritten` | 2 pids, 1 file | a refuted statement, see below |

Bounds. Four slots give holes below, between and above the descriptors in use.
Three pids are the least in which one waits, one holds the file and one comes
in between; one file is enough for the locks, since no operation but an eviction
and a mutual wait relates two. Two files with room for one make every second
write evict. `MaxLen`, `MaxTime`, `MaxCounted`, `MaxConnections` bound contents,
the clock, files ever counted and connections; `Addrs` is larger than the number
of pointers that can be alive, so `malloc` never fails. With as many connections
as clients a socket number is used a second time. Two workers are the least for
which a step of one falls between two of the other. In `queue` two sleepers on
both sides are the least for which one signal is not enough, and the third
consumer can overtake them. In `structures` five nodes are the least for which
`min_heapify` chooses between two children on two levels; the names include a
prefix of another, siblings on both sides and a name of three characters; four
nodes give a first, a last and two inner ones; four symbols the least code whose
lengths differ by two. In `socket` four bytes are fewer than a header, so every
frame is cut, and the messages hold digits, zeros, an empty content, a negative
number and lists of one and two files. In `client` two files do not fit together,
so sending evicts; one name is not on the disk; four starts let each client be
started twice.

Deadlock is not checked in the server, socket and client runs: after `stopped`,
or once the connections, requests or starts are used up, nothing need happen.

Fairness. `FairSpec` (file system): a thread inside a write goes on, and a
signalled waiter is not kept from the mutex for ever; the latter is strong
fairness, since a waiter finds the mutex taken again and again, and is what a
pthread mutex gives in practice on a scheduler that starves nobody. `FairServer`:
the master and every worker run when they can. `BlockingQueue`: a thread that is
awake in a call gets the mutex some time (weak fairness, for every thread);
nobody has to call. `Socket`: both processes run and the kernel moves the bytes
(weak fairness of `Transfer`, the reads, writes and dispatches of each end);
nobody has to ask or to leave, and nothing is owed by `Answer`, `Subscribe` and
`Broadcast`: a request may sleep in the file system, or stay in the waiting list,
for ever, as `CloseIsServed` and `WaitersWaitForAnUnlock` below show. So
`TransfersEnd` promises the return of a call only while the server is not in the
call or waiting, and `RequestsAreAnswered` is checked where no request can wait.
Clients, signals and spurious wakeups owe nothing.

## Refinements

| Detailed | Abstract | Under |
|---|---|---|
| `FileDescriptors` | `DescriptorAllocator` | the entries in use (checked and proved) |
| `BlockingQueue` | `BoundedChannel` | a thread is inside while it is in a call (checked with fairness, safety proved) |
| `Structures` | `PriorityQueue` | the set of nodes in the array |
| `Structures` | `StringMap` | what `tree_get` finds for each name |
| `Structures` | `ElementSequence` | the data along the links |
| `Socket` | `MessageChannel` | the messages begun to be written, and those decoded (checked and proved) |

Those of `Structures` are about recursive operators, out of the prover's reach,
and are checked by TLC.

## Statements the code does not keep

`SimFSClaims` and `ServerClaims` state what the documentation, the headers or
the comments say, and TLC finds a behaviour of the code against each. One is a
run of the project, with a finding: `LockedFileIsNotWritten`, a write through an
older descriptor succeeds while another pid owns the lock.

The others can be run in the same way, `tlc -config X.cfg MCSimFS` or, for
`MCServer*.cfg`, `MCServer`. Where a configuration holds several statements,
`-continue` makes TLC report them all (in the four of `MCSimFSClaims*` after so many counterexamples that
TLC's trace file gives out in the end); the four of `MCServerSleepers` are
temporal, and TLC stops at the first: name one alone to see it.

| Configuration | Statements |
|---|---|
| `MCSimFSClaimsLocks` | `LockedFileIsOwners`, `CloseUnlocks`, `SessionIsRemoved`, `FilesAreCountedExactly`, `NoMutualWait` |
| `MCSimFSClaimsWrites` | `WritesAppend`, `NoFreedArtifactDecoded`, `SizeIsAllocated` |
| `MCSimFSClaimsTexts` | `WithinMemoryLimit`, `ReadKeepsContent` |
| `MCSimFSClaimsEvict` | `WaitedFileSurvives`, `CreateIsNotRefused` |
| `MCServerClaims` | `SubscribesToBusyFile`, `WaitersWaitForAnUnlock` |
| `MCServerSleepers` | `HardTerminationStops`, `CloseIsServed`, `HungUpIsClosed`, `SoftTerminationStops` |
| `MCServer_BroadcastEnds` | `BroadcastEnds` |

The comment of each quotes the statement and says how the code departs from it.

Met while modelling the clients, and not stated as properties: `openFile` sets
the flag that lets `writeFile` write for O_CREATE or O_LOCK alone, and for any
path, while `server/include/gnl_fss_api.h:70-71` asks for both flags on that file;
`readNFiles` reports success when a file could not be read; the contents of files
evicted for a write that then fails are lost; the removal of a file while no byte
is counted answers EPERM although the file is gone; clients that run `-l` on two
files in opposite orders wait for each other.

## Theorems

`TableInvariant`: `Spec => [](TypeOK /\ TableSound)` for `FileDescriptors`, for
every limit, set of pids, inodes and descriptors. The inductive invariant is
`TypeOK /\ Sound(fdt)`. `Sound` alone gives that `get_file_descriptor` returns
an unused slot: without holes the slots in use are `0..max_fd`, so `size`, their
number, is the first slot after them; with holes the least one is empty. The
cardinality steps (`fdt_put`, `remove_fd`, `fdt_remove_pid`) are lemmas of
`FileDescriptorTable_proofs` over any sound table, so that they can be cited for
the table inside the file system too.

`TableImplementsAllocator`: `Spec => LeastDescriptorFirst`, the refinement of
`DescriptorAllocator` under `open == [fd \in InUse(fdt) |-> fdt.table[fd]]`.
It rests on `TableInvariant` and on the fact that in a sound table the
descriptor handed out is the least unused one, and that the table is full
exactly when all of `0..Limit - 1` is in use.

`NoWakeupIsLost`: `Spec => []SleepersAreSignalled` for `BlockingQueue`, for any
numbers of producers and consumers and any bound. That nobody sleeps while all
the others of its side do, with an element (a place) at hand, is not inductive:
one awake thread may take the element it was woken for while a second element
is there. Counting makes it so: while someone sleeps, there are at least as many
awake threads of its side as elements (places). An insertion adds an element and
an awake consumer, a removal takes one element and one awake consumer away, an
overtaken thread goes to sleep only at zero. `SignalCounts` and `CountAwake`
are the lemmas on the cardinalities, used for both sides.

`QueueImplementsChannel`: `Spec => Channel!SafeSpec`, the safety part of
`ImplementsChannel`, where a thread is `inside` the channel while its `pc` is
not `out`. Waiting and waking are stutters of the channel; that the bound is
tested by `==` in the code and by `<` in the channel needs the type invariant.

`FileSystemInvariant`: `Spec => []IInv` for `SimFS`, for every set of pids,
names, payloads and addresses, every limit and every policy. `IInv` has five
parts, and every action of `Next` has a lemma that it keeps them all:

* `Tables`: the types, `TableSound`, `ListMatchesTable`, and `TableInLimit`,
  that the fd table stays within the limit it was made with. Without it the
  descriptor handed out, and so what an open overwrites, is not known. The
  lemmas on the fd table are those of `FileDescriptorTable_proofs`.
* `FilesAreCounted`. That no list of files is longer than the counter says is
  inductive with `Tables`; that they are equal is not true
  (`FilesAreCountedExactly`), since a removal may take the file away and leave
  the counter.
* `Locks`: `PendingIsOneWaiter`, `NoLostWakeup`, `RefsHaveDescriptors` and
  `CopiesAreAccessible`, which need each other: that the waiter of a file is the
  only one lets the one `pthread_cond_signal` of `decrease_refs` be enough, and
  that its file stays needs that removal is refused to others or ends in
  `undefined`. References are bounded by descriptors and not equal to them,
  since a file may be removed and created anew under the same name while old
  descriptors are open.
* `Artifacts`: `InodePointersLive` is not inductive. A flush frees what the
  *copy* behind the descriptor points to, so it needs `CopyPointersLive`: a
  pointer of a copy that was not freed is on the heap, and an inode that has it
  too is the one of the same name.
* `Ages`: the list is in the order of creation times (`ListedByAge`), which a
  creation keeps because no file is younger than the clock (`BornInThePast`).

From it follow `FileSystemTypes`, `ListIsTheTable`, `EveryFileIsCounted`,
`OneWaiterPerFile`, `WaitersAreSignalled`, `ReferencesAreCovered`,
`CopiesStayAccessible`, `ContentsStayLive` and `FifoEvictsTheOldest` (the least
key of the heap of victims under FIFO is the birth of the head of the list). The
same lemmas show that every step is a `LockStep`, which gives the action
properties `LocksAreExclusive` (`LockIsExclusive`), `LockersAreAlone`
(`LockedAlone`) and `WaitsGetShorter` (`WaitedRefsShrink`).

`ServerInvariant`: `ServerSpec => []SInv` for `Server`, for every set of
workers, clients, files and requests and any number of connections. `SInv` is
`IInv`, the types, the properties below and what they need:

* `EachClientInOnePlace` alone is not inductive: a step moves a client because
  of what an earlier step found. `PassIsCurrent` says that what `select` found
  (and what the queue holds) is still so when the pass, or a worker, comes to
  it: the socket is still in the set, there is still a request or an end of file
  to read. `WorkersAtWork` says what a worker in the middle of a handling knows:
  the request is the one its client waits an answer for, the socket is empty, a
  client that is being removed has hung up. `PendingIsAsked` relates the unread
  requests and the waiting list to the clients that wait.
* `WaitersArePresent` needs `WaitersDiffer`: no client is in the waiting list
  twice, so that popping an element of a client leaves no other one behind.
* `SleepersMatch`, that a worker sleeps in the file system exactly when its pid
  waits there, needs `EachClientInOnePlace`: a pid calls the file system through
  one worker only. `TargetsAreOpen` says that the descriptor of a lock
  that was refused, or of an unlock that was done, is still the client's when its
  file is looked up, so a subscription and a broadcast are for a file.
* `SoftTerminationWaits` needs `DownForAReason`, what was true when the master
  left its loop: a hard signal, or a soft one with all sockets closed, by
  `ConnectionsAreCounted`.

Every action has a lemma that it keeps `SInv`; the handling of a client by a
worker is cut into the lemmas for each of its steps, and the counting
(`Places`, the elements of the pipe and the queue, `active_connections`) is in
lemmas of its own at the head of the module.

`ServerUsesFileSystem`: `ServerSpec => Spec`. Every step of the server is a step
of the file system or leaves it alone, so all the theorems of `SimFS_proofs` hold
in the server. It rests on `SInv`: a worker calls for a pid only when that pid
does not sleep inside another call.

From these follow `ClientsAreHandedOver` (`EachClientInOnePlace`),
`SelectMissesNone` (`SelectSeesAll`), `ActiveConnections`
(`ConnectionsAreCounted`), `NoStaleWaiters` (`WaitersArePresent`) and
`SoftTerminationIsSoft` (`SoftTerminationWaits`).

`LockAnswersHold`: `ServerSpec => []LockAnswersAreTrue`. The worker answers after
it has left the file system, and a call may have slept in it, so the property is
about what others do meanwhile. The invariant `LInv`, kept together with `SInv`,
says of each worker that

* while it sleeps, its pid waits for the very file its request means, by name or
  by a descriptor that is still the client's: otherwise the lock it wakes up with
  would be that of another file (`WaitsLock`);
* when it is about to answer "ok" to a lock or an open with a lock, its client owns
  the lock of the file the request means (`HasLock`).

A call for one pid keeps the descriptors, the waits and the locks of all others
(`KeepsEntries`, `KeepsSleepers`, `KeepsLocks`): it changes only files that are
locked by its own pid or by nobody, except for the end of a session and a close,
which visit the files of others and leave their lock. `OthersKnow` concludes that a
worker with another client knows what it knew, so every step has only its own
worker to be looked at (`CallKnows`, `ResumeKnows`, `EndSessionKnows`,
`BetweenCallsKnows`). Requests that write, and so evict, are not in `Server`: an
eviction may remove a file whose lock has just been promised.

`ClientInvariant`: `ClientSpec => []CInv` for `Client`, for any number of clients
and starts, every command line and every content of the disk, with clients that
are killed. `CInv` is `IInv`, the types and, of each client:

* `LineOK`, the commands that are left are the end of the line, with an `api`
  only as the last one, and `CallOK`, a busy client is at a call of its script and
  has a name to make it for. That every command of the queue is one the client
  can run comes from `parse_opt`, a recursive function: the induction over the
  options is over a set of indices (`UpTo`), from which the fact about all of them
  follows (`ParseKeeps`, `ParseOptFacts`).
* `SleepOK` and `WriteOK`: who sleeps in the file system, or holds its mutex in a
  write, is in the call that says so, for the name and with the bytes of that
  call. An answer is thus one to the call the client waits in.
* `DescriptorsOK`: a command line client owns in the server's table the
  descriptor of the file it works on and no other, none before the open and none
  between commands. `UsesOwnDescriptors` is not inductive without it: the server
  gives the number of a closed descriptor out again.
* `LocksOK`: a busy client that has not failed owns a lock for a `Reason`: it was
  asked for with `-l`, a `-u` or `-c` has still to give it back, or the file was
  created and not unlocked yet.

For each operation of the file system one lemma (`OpenCreateSeen`, ...,
`RemoveSessionSeen`) says what it means for the pid that calls and that it is
`Unseen` by the others: their descriptors, locks and waits stay, but for the locks
they lose with a file. So a step of one client is checked against that client
only (`StepOf`).

`ClientUsesFileSystem`: `ClientSpec => Spec`, so the theorems of `SimFS_proofs`
hold with these clients. `DescriptorsAreOwn` (`UsesOwnDescriptors`),
`CommandsClose` (`NothingLeftOpen`), `CommandsUnlock` (`LocksAreAsked`) and
`ClientsLeaveNothing` (`LeavesNothing`) follow from `CInv`.

`StoredFilesAreLocal`: `ClientSpec => []StoredIsLocal`. A write appends the buffer
of the *copy* behind the descriptor to what the copy points to, so the content of
the file after it depends on the copy and not on the file: another client may have
had the file evicted, created it anew and sent it since the open. The inductive
invariant `DInv`, kept by every action together with `CInv`, has besides
`StoredIsLocal`

* `BuffersOK`: when a client is about to write, the copy behind its descriptor
  still points nowhere and its buffer is empty, so that the write stores `Local` of
  the name once; and who does not send has empty buffers, so a read, which
  flushes them, stores nothing.
* `FlagOK`: `open_with_create_lock_flags` lets only a command that sends write, in
  the call after its own open, and never the other program.

What an operation does to contents and buffers is in lemmas of its own
(`OpenCreateData`, ..., `WriteCopyData`): only a write through `fd` changes the
content of a file or the buffer of a copy, and freed pointers never become `NULL`
or live again.

`RequestsDecode` and `ResponsesDecode`: what `request_from_string` and
`response_from_string` make of an encoded message is the message, for every width
of the fields, every name and content of bytes, every number that fits and every
list of files. The recursive functions of `Codec` (the digits of a number, the
value of a field, the files written so far and those left to read) are shown to
exist and to be what their definitions say by induction over an interval (`UpTo`,
from the least counterexample); `ReadBack` follows the quotients of a number down
and up again, `ListBack` shows that what is left after `i` files is the message
behind the first `i`. `At(m, o, s)`, that `m` holds `s` behind its first `o`
bytes, is what the lemmas about parts of messages speak of.

`ConnectionInvariant`: `Spec => []SInv` for `Socket`, for every capacity, number
of requests and set of messages. `SInv` has, besides the types,

* `Turns`: requests asked, heard, answered and returned are counted in this order,
  and as long as no call of the client has failed at most one is under way; after a
  failure the server is closed.
* `ServerReads`, `ClientReads`: an end to which nothing is being sent has read
  nothing and has nothing on its way; otherwise (`Flow`) what it has read and what
  is on its way are the next bytes of the frame of the next message, and the other
  end, unless it has left, will write the bytes behind these.
* `Writers`: who writes, to an end that is still there, writes such a frame.
* `Troubles`: a complaint, a reset or an abandoned socket means that the client has
  left during an exchange.

`WriteFlow` and `ReadFlow` show once for both ends that a piece of any size keeps
`Flow`, and that the read that completes a message decodes the one that was sent,
with nothing of the frame left over.

`AbandonsInterrupted` (`Spec => []AbandonsOnlyInterrupted`) follows from
`Troubles`. `StreamImplementsMessages` (`Spec => StreamIsMessages`): the read that
completes a message is `Deliver`, a failed read of the client is `Fail`, `Ask` and
`Answer` are themselves, everything else is a stutter.

Assumptions: `FdAssumption` (the limit is positive, descriptors passed by
callers are natural numbers, `NULL` is not an entry) and `QueueAssumption` (the bound is positive, as `init`
requires; finitely many threads; who enqueues does not dequeue),
`SimFSAssumption` (the limits and bounds are natural numbers, payloads are
sequences of bytes, the policy is one of the code's six, addresses are numbers
and neither `NULL` nor `FREED`), `HuffmanAssumption` (two bytes are enough), `NoPidAssumption` (the pid
that means "unlocked" belongs to nobody, and there are finitely many pids),
`NullAssumption` (`NULL` is no value of the types it marks the absence of) and
`ServerAssumption` (finitely many workers, at least one; finitely many clients,
whose numbers are above the listening socket's; the "unlocked" pid is 0, which
on the pipe means a departure; requests are of the types the model has),
`ClientAssumption` (the disk holds payloads; the files of a directory and those of
the other program are on it; `api` stands alone at the end of its line) and
`ProgramAssumption` (the other program writes only where `writeFile` refuses:
what a program stores with a buffer of its own is no file of the disk),
`CodecAssumption` (a field has a digit) and `SocketAssumption` (the socket holds a
byte; names and contents are bytes, and the numbers, the lengths among them, fit
into their fields: the 10 characters of the code hold every `int` but the negative
ones of ten digits, which are left out).

Only model-checked: `Structures`, which is about recursive operators on trees and
lists of nodes; and all liveness
(`LockableIsLocked`, `RequestsAreAnswered`, `TransfersEnd`, `DepartureIsNoticed`,
the fairness of `ImplementsChannel`), which is out of the prover's reach.

## Not modelled

* `stat`, `fstat`, `status`, `get_replacement_policy`: they read only, and nothing
  depends on them but the target of a broadcast, which `Server` has.
* The names of types for the log, the getters of requests and responses, numbers
  too wide for their field.
* `appendToFile` with a buffer of the program (the client sends whole files), a
  second connection of one process, responses of an unexpected type.
* The disk of the host beyond success and failure, delays, printing, logging,
  configuration.
* READ, READ_N and WRITE between the threads of `Server`; they are in `Client`.
* The thread-safe unbounded queue: nothing uses it. The record of an evicted file:
  an allocation around a name and its bytes.
* In `Server`, a request whose reading fails with anything but the end of the
  stream: `Socket` has it (`ReadEnds`).
* The errors of `-t`, `-R` and `-w` with a number that is none: the command fails,
  the state is that of any command that failed.
* In `Client`, a program that opens with O_LOCK alone and writes with `writeFile`,
  which the API lets it do (`ProgramAssumption`, and the note on the flags above).
* `StoredIsLocal` speaks of the text that was encoded for a file; that the artifact
  of a single repeated byte decodes to nothing is `ReadKeepsContent` above.
* `malloc` and other system calls that fail; the destruction of the program's
  structures at exit.

## What is left

* What a failed open may leave behind: the lock it took before it found the
  descriptor table full stays until the session ends, and nothing in the repository
  says whether it should.
* Theorems about `Structures`, whose operators would have to be written as
  recursive functions first, as those of `Codec` are.
