-------------------------------- MODULE Server --------------------------------
(***************************************************************************)
(* The server (server/src/): the master thread with its select loop        *)
(* (gnl_fss_server.c), the worker threads and the bounded queue that feeds *)
(* them (gnl_fss_thread_pool.c, gnl_fss_worker.c), the pipe on which they  *)
(* answer, the waiting list, and the file system they all call (SimFS).    *)
(*                                                                         *)
(* A client is known by the descriptor of its socket, which is also its    *)
(* pid in the file system.  It sends one request at a time and may hang up *)
(* at any moment.  READ, READ_N and WRITE requests are left out: none of   *)
(* them can be answered EBUSY or wait, see CopiesAreAccessible.            *)
(***************************************************************************)
EXTENDS SimFS, WaitingList

CONSTANTS Workers,
          Requests,       \* what the clients send
          Terminations,   \* the kinds of termination signals that arrive
          MaxConnections  \* bound of the connections a behaviour makes

(* Descriptors are numbers: 0 is "a client has gone" on the pipe and       *)
(* "unlocked" in an inode; the pipe is opened before the listening socket, *)
(* and the clients come after it.                                          *)
Gone == 0
Channel == 1
Listener == 2
TERMINATE == -1

ASSUME ServerAssumption ==
    /\ IsFiniteSet(Workers) /\ Workers # {}
    /\ IsFiniteSet(Pids) /\ \A p \in Pids : p \in Nat /\ p > Listener
    /\ NoPid = Gone /\ MaxConnections \in Nat
    /\ Terminations \subseteq {"soft", "hard"}
    /\ NULL \notin Requests
    /\ Requests \subseteq
          [type : {"open"}, name : Names, create : BOOLEAN, lock : BOOLEAN]
            \cup [type : {"lock", "unlock", "close"}, fd : Nat]
            \cup [type : {"remove"}, name : Names]

VARIABLES conn,      \* the socket of each descriptor: closed, open, hungup
          asked,     \* the request a client waits an answer for, or NULL
          unread,    \* the clients whose request is still in the socket
          backlog,   \* whether a client is connecting
          connects,  \* how many have, up to MaxConnections
          master,    \* "running", "terminating", "joining", "stopped"
          set,       \* the clients the master selects on
          fd_num,    \* the largest descriptor select looks at
          rdset,     \* what is left of the pass over the ready descriptors
          active,    \* active_connections
          signals,   \* the termination flags that are set
          sent,      \* termination messages sent by thread_pool_destroy
          queue,     \* worker_queue
          pipe,      \* the messages of the workers to the master
          worker,    \* the state of each worker
          wl         \* the waiting list

clients == <<conn, asked, unread, backlog, connects>>
loop    == <<master, set, fd_num, rdset, active, signals, sent>>
pool    == <<queue, pipe, worker, wl>>

(* A worker: what it does next, for which client and request, with which   *)
(* response, and the target of the broadcast it is in, or NULL.            *)
Idle == [pc |-> "idle", pid |-> NoPid, req |-> NULL, res |-> NULL, target |-> NULL]

ServerInit ==
    /\ Init
    /\ conn = [p \in Pids |-> "closed"] /\ asked = [p \in Pids |-> NULL]
    /\ unread = {} /\ backlog = FALSE /\ connects = 0
    /\ master = "running" /\ set = {} /\ fd_num = Listener /\ rdset = {}
    /\ active = 0 /\ signals = {} /\ sent = 0
    /\ queue = <<>> /\ pipe = <<>>
    /\ worker = [w \in Workers |-> Idle]
    /\ wl = waiting_list_init(Names, Pids)
-----------------------------------------------------------------------------
(* The clients and the signals.                                            *)

(* Pids bounds the number of clients that are connected at the same time. *)
Connect ==
    /\ ~backlog /\ (\E p \in Pids : conn[p] = "closed")
    /\ connects < MaxConnections
    /\ backlog' = TRUE /\ connects' = connects + 1
    /\ UNCHANGED <<vars, conn, asked, unread, loop, pool>>

Send(p, req) ==
    /\ conn[p] = "open" /\ asked[p] = NULL
    /\ asked' = [asked EXCEPT ![p] = req]
    /\ unread' = unread \cup {p}
    /\ UNCHANGED <<vars, conn, backlog, connects, loop, pool>>

HangUp(p) ==
    /\ conn[p] = "open"
    /\ conn' = [conn EXCEPT ![p] = "hungup"]
    /\ UNCHANGED <<vars, asked, unread, backlog, connects, loop, pool>>

(* A soft termination is over when no connection is left. *)
DrainedAtOnce(flags, n) == "soft" \in flags
Drained(flags, n) == "soft" \in flags /\ n = 0

(* The flags are looked at when a signal interrupts select; one that comes *)
(* at another moment (interrupts = FALSE) is only remembered.              *)
Signal(kind, interrupts) ==
    /\ interrupts => master = "running" /\ rdset = {}
    /\ signals' = signals \cup {kind}
    /\ master' = IF interrupts /\ ("hard" \in signals' \/ Drained(signals', active))
                 THEN "terminating" ELSE master
    /\ UNCHANGED <<vars, clients, set, fd_num, rdset, active, sent, pool>>
-----------------------------------------------------------------------------
(* The master: run_server.                                                 *)

HasInput(fd) ==
    CASE fd = Channel  -> pipe # <<>>
      [] fd = Listener -> backlog
      [] OTHER         -> fd \in unread \/ conn[fd] = "hungup"

Select ==
    /\ master = "running" /\ rdset = {}
    /\ rdset' = {fd \in set \cup {Channel, Listener} : fd <= fd_num /\ HasInput(fd)}
    /\ rdset' # {}
    /\ UNCHANGED <<vars, clients, master, set, fd_num, active, signals, sent, pool>>

(* The pass visits the ready descriptors in ascending order. *)
Visits(fd) ==
    /\ master = "running" /\ fd \in rdset /\ fd = Min(rdset)
    /\ rdset' = rdset \ {fd}

(* The set of clients without one that is dispatched, and the bound of     *)
(* select when a client is put in and taken out.                           *)
StillSelected(fd) == set
Cleared(fd) == set \ {fd}

NotRaised(fd) == fd_num
Raised(fd) == IF fd > fd_num THEN fd ELSE fd_num

AlwaysLowered(fd) == fd_num - 1
Lowered(fd) == IF fd = fd_num THEN fd_num - 1 ELSE fd_num

(* accept gives the least free descriptor. *)
Accept ==
    /\ Visits(Listener)
    /\ backlog' = FALSE
    /\ LET free == {p \in Pids : conn[p] = "closed"}
           fd_c == Min(free)
       IN  \/ /\ "soft" \in signals
              /\ UNCHANGED <<conn, set, fd_num, active>>
           \/ /\ "soft" \notin signals
              /\ conn' = [conn EXCEPT ![fd_c] = "open"]
              /\ set' = set \cup {fd_c} /\ fd_num' = Raised(fd_c)
              /\ active' = active + 1
    /\ UNCHANGED <<vars, asked, unread, connects, master, signals, sent, pool>>

(* A worker is done with a client, or the client has gone. *)
HandleMessage ==
    /\ Visits(Channel)
    /\ LET fd_c == Head(pipe)
       IN  \/ /\ fd_c = Gone
              /\ active' = active - 1
              /\ master' = IF Drained(signals, active') THEN "terminating" ELSE master
              /\ UNCHANGED <<set, fd_num>>
           \/ /\ fd_c # Gone
              /\ set' = set \cup {fd_c} /\ fd_num' = Raised(fd_c)
              /\ UNCHANGED <<active, master>>
    /\ pipe' = Tail(pipe)
    /\ UNCHANGED <<vars, clients, signals, sent, queue, worker, wl>>

(* The bounded queue (gnl_ts_bb_queue_t.c): enqueue blocks while it holds  *)
(* as many elements as there are workers, dequeue while it is empty.       *)
Enqueue(el) == Len(queue) # Cardinality(Workers) /\ queue' = Append(queue, el)
TakeOut     == queue # <<>> /\ queue' = Tail(queue)

Dispatch(fd) ==
    /\ Visits(fd) /\ fd \in Pids
    /\ Enqueue(fd)
    /\ set' = Cleared(fd) /\ fd_num' = Lowered(fd)
    /\ UNCHANGED <<vars, clients, master, active, signals, sent, pipe, worker, wl>>

(* gnl_fss_thread_pool_destroy *)
SendTermination ==
    /\ master = "terminating" /\ Enqueue(TERMINATE)
    /\ sent' = sent + 1
    /\ master' = IF sent' = Cardinality(Workers) THEN "joining" ELSE master
    /\ UNCHANGED <<vars, clients, set, fd_num, rdset, active, signals, pipe, worker, wl>>

Join ==
    /\ master = "joining" /\ \A w \in Workers : worker[w].pc = "ended"
    /\ master' = "stopped"
    /\ UNCHANGED <<vars, clients, set, fd_num, rdset, active, signals, sent, pool>>
-----------------------------------------------------------------------------
(* A worker: gnl_fss_worker_handle.                                        *)

(* The message is taken from the queue and the request from the socket; an *)
(* empty socket that was hung up is the end of the client.                 *)
Dequeue(w) ==
    /\ worker[w].pc = "idle" /\ TakeOut
    /\ LET fd_c == Head(queue)
       IN  \/ /\ fd_c = TERMINATE
              /\ worker' = [worker EXCEPT ![w].pc = "ended"]
              /\ UNCHANGED unread
           \/ /\ fd_c \in unread
              /\ worker' = [worker EXCEPT ![w] = [Idle EXCEPT !.pc = "call", !.pid = fd_c,
                                                              !.req = asked[fd_c]]]
              /\ unread' = unread \ {fd_c}
           \/ /\ fd_c # TERMINATE /\ fd_c \notin unread
              /\ worker' = [worker EXCEPT ![w] = [Idle EXCEPT !.pc = "leave", !.pid = fd_c]]
              /\ UNCHANGED unread
    /\ UNCHANGED <<vars, conn, asked, backlog, connects, loop, pipe, wl>>

Returns(w, res) == worker' = [worker EXCEPT ![w].pc = "respond", ![w].res = res]

CallOpen(w, p, r) ==
    LET error == open_error(p, r.name, r.create, r.lock)
    IN  \/ r.create /\ OpenCreate(p, r.name, r.lock) /\ Returns(w, "ok")
        \/ ~r.create /\ OpenExisting(p, r.name, r.lock) /\ Returns(w, "ok")
        \/ /\ ~r.create /\ r.lock /\ OpenWaits(p, r.name)
           /\ worker' = [worker EXCEPT ![w].pc = "asleep"]
        \/ error # "ok" /\ Refused(p) /\ Returns(w, error)

(* Locking a file twice changes nothing and succeeds. *)
CallLock(w, p, fd) ==
    LET error == lock_error(p, fd)
    IN  \/ Lock(p, fd) /\ Returns(w, "ok")
        \/ LockWaits(p, fd) /\ worker' = [worker EXCEPT ![w].pc = "asleep"]
        \/ error = "ok" /\ files[Copy(fd).name].locked = p /\ Refused(p) /\ Returns(w, "ok")
        \/ error # "ok" /\ Refused(p) /\ Returns(w, error)

CallUnlock(w, p, fd) ==
    LET error == unlock_error(p, fd)
    IN  \/ Unlock(p, fd) /\ Returns(w, "ok")
        \/ error # "ok" /\ Refused(p) /\ Returns(w, error)

(* Closing succeeds when the file is gone; the pid has no reference to a   *)
(* file that was created anew under the name.                              *)
CallClose(w, p, fd) ==
    LET error   == fdt_error(fdt, fd, p)
        another == Exists(Copy(fd).name) /\ files[Copy(fd).name].refs[p] = 0
    IN  \/ Close(p, fd) /\ Returns(w, IF another THEN "EPERM" ELSE "ok")
        \/ error # "ok" /\ Refused(p) /\ Returns(w, error)

CallRemove(w, p, f) ==
    LET error == remove_error(p, f)
    IN  \/ RemoveFile(p, f) /\ Returns(w, destroy_error(files[f].size))
        \/ error # "ok" /\ Refused(p) /\ Returns(w, error)

(* handle_request: the file system is called for the client. *)
Call(w) ==
    LET p == worker[w].pid
        r == worker[w].req
    IN  /\ worker[w].pc = "call"
        /\ \/ r.type = "open"   /\ CallOpen(w, p, r)
           \/ r.type = "lock"   /\ CallLock(w, p, r.fd)
           \/ r.type = "unlock" /\ CallUnlock(w, p, r.fd)
           \/ r.type = "close"  /\ CallClose(w, p, r.fd)
           \/ r.type = "remove" /\ CallRemove(w, p, r.name)
        /\ UNCHANGED <<clients, loop, queue, pipe, wl>>

(* The call of a worker that sleeps on file_is_lockable goes on. *)
Resume(w) ==
    LET p    == worker[w].pid
        full == waiting[p].op = "open" /\ fdt.size = MAX_OPEN_FILES
    IN  /\ worker[w].pc = "asleep"
        /\ \/ WakeUp(p) /\ Returns(w, IF full THEN "EMFILE" ELSE "ok")
           \/ SleepAgain(p) /\ UNCHANGED worker
        /\ UNCHANGED <<clients, loop, queue, pipe, wl>>

(* handle_fd_c_response.  The worker goes on with its broadcast, with one  *)
(* of its own when it has answered an unlock, or is done.                  *)
Proceeds(w, target) ==
    worker' = [worker EXCEPT ![w] =
                  IF target = NULL THEN Idle
                  ELSE [Idle EXCEPT !.pc = "broadcast", !.target = target]]

Waitable(r) == r.type \in {"open", "lock"}

Target(r) == IF r.type = "open" THEN r.name ELSE Copy(r.fd).name

(* EBUSY: the client is put into the waiting list and gets no answer. *)
Subscribe(w) ==
    LET s == worker[w]
    IN  /\ s.pc = "respond" /\ s.res = "EBUSY" /\ Waitable(s.req)
        /\ wl' = waiting_list_push(wl, Target(s.req), s.pid, s.req)
        /\ Proceeds(w, s.target)
        /\ UNCHANGED <<vars, clients, loop, queue, pipe>>

(* The answer of a client that hung up cannot be sent; handle_error fails  *)
(* in the same way, and nobody is told.                                    *)
Respond(w) ==
    LET s        == worker[w]
        unlocked == IF s.req.type = "unlock" /\ s.res = "ok" THEN Target(s.req) ELSE s.target
    IN  /\ s.pc = "respond" /\ ~(s.res = "EBUSY" /\ Waitable(s.req))
        /\ \/ /\ conn[s.pid] = "open"
              /\ asked' = [asked EXCEPT ![s.pid] = NULL]
              /\ pipe' = Append(pipe, s.pid)
              /\ Proceeds(w, unlocked)
           \/ /\ conn[s.pid] # "open"
              /\ Proceeds(w, s.target)
              /\ UNCHANGED <<asked, pipe>>
        /\ UNCHANGED <<vars, conn, unread, backlog, connects, loop, queue, wl>>

(* The clients that wait for the target are served, one after the other,   *)
(* until the list has none.                                                *)
Broadcast(w) ==
    LET target == worker[w].target
        el     == Popped(wl, target)
    IN  /\ worker[w].pc = "broadcast"
        /\ wl' = waiting_list_pop(wl, target)
        /\ worker' = [worker EXCEPT ![w] =
                         IF Valid(wl, target) = {} THEN Idle
                         ELSE [@ EXCEPT !.pc = "call", !.pid = el.pid, !.req = el.req]]
        /\ UNCHANGED <<vars, clients, loop, queue, pipe>>

(* The end of a client: out of the waiting list and out of the file        *)
(* system, an error of which is ignored, then closed, then announced.      *)
EndSession(w) ==
    LET p == worker[w].pid
    IN  /\ worker[w].pc = "leave"
        /\ \/ RemoveSession(p)
           \/ presence = <<>> /\ Refused(p)
        /\ wl' = waiting_list_remove(wl, p)
        /\ worker' = [worker EXCEPT ![w].pc = "close"]
        /\ UNCHANGED <<clients, loop, queue, pipe>>

CloseClient(w) ==
    LET p == worker[w].pid
    IN  /\ worker[w].pc = "close"
        /\ conn' = [conn EXCEPT ![p] = "closed"]
        /\ asked' = [asked EXCEPT ![p] = NULL]
        /\ worker' = [worker EXCEPT ![w] = [Idle EXCEPT !.pc = "announce"]]
        /\ UNCHANGED <<vars, unread, backlog, connects, loop, queue, pipe, wl>>

AnnounceNothing(w) ==
    /\ worker[w].pc = "announce"
    /\ worker' = [worker EXCEPT ![w] = Idle]
    /\ UNCHANGED <<vars, clients, loop, queue, pipe, wl>>

Announce(w) ==
    /\ worker[w].pc = "announce"
    /\ pipe' = Append(pipe, Gone)
    /\ worker' = [worker EXCEPT ![w] = Idle]
    /\ UNCHANGED <<vars, clients, loop, queue, wl>>
-----------------------------------------------------------------------------
MasterStep ==
    \/ Select \/ Accept \/ HandleMessage
    \/ \E fd \in Pids : Dispatch(fd)
    \/ SendTermination \/ Join

WorkerStep(w) ==
    \/ Dequeue(w) \/ Call(w) \/ Resume(w)
    \/ Subscribe(w) \/ Respond(w) \/ Broadcast(w)
    \/ EndSession(w) \/ CloseClient(w) \/ Announce(w)

ClientStep ==
    \/ Connect
    \/ \E p \in Pids : HangUp(p) \/ \E req \in Requests : Send(p, req)

Wakes == \E p \in Pids : Spurious(p) /\ UNCHANGED <<clients, loop, pool>>

ServerNext ==
    \/ MasterStep
    \/ \E w \in Workers : WorkerStep(w)
    \/ ClientStep
    \/ \E kind \in Terminations, interrupts \in BOOLEAN : Signal(kind, interrupts)
    \/ Wakes

allvars == <<vars, clients, loop, pool>>

ServerSpec == ServerInit /\ [][ServerNext]_allvars

(* Threads run; clients and signals owe nothing. *)
FairServer ==
    /\ ServerSpec
    /\ WF_allvars(MasterStep)
    /\ \A w \in Workers : WF_allvars(WorkerStep(w))
-----------------------------------------------------------------------------
Steps == {"idle", "call", "asleep", "respond", "broadcast", "leave", "close", "announce", "ended"}

(* What a call of the file system ends with. *)
Results == {"ok", "stale", "EBADF", "EBUSY", "EDEADLK", "EDQUOT", "EEXIST", "EMFILE",
            "ENFILE", "ENOENT", "EPERM"}

ClientsOK ==
    /\ conn \in [Pids -> {"closed", "open", "hungup"}]
    /\ asked \in [Pids -> Requests \cup {NULL}]
    /\ unread \subseteq Pids
    /\ backlog \in BOOLEAN /\ connects \in 0..MaxConnections

LoopOK ==
    /\ master \in {"running", "terminating", "joining", "stopped"}
    /\ set \subseteq Pids /\ fd_num \in Nat
    /\ rdset \subseteq Pids \cup {Channel, Listener}
    /\ active \in Int /\ signals \subseteq Terminations /\ sent \in Nat

Handlings == [pc : Steps, pid : Pids \cup {NoPid}, req : Requests \cup {NULL},
              res : Results \cup {NULL}, target : Names \cup {NULL}]

PoolOK ==
    /\ queue \in Seq(Pids \cup {TERMINATE}) /\ pipe \in Seq(Pids \cup {Gone})
    /\ worker \in [Workers -> Handlings]
    /\ wl \in [queues : [Names -> Seq([pid : Pids, req : Requests])], presence : [Pids -> Nat]]

ServerTypeOK == ClientsOK /\ LoopOK /\ PoolOK

Count(s, x) == Cardinality({i \in DOMAIN s : s[i] = x})

(* How often the server holds a client: selected on, on its way to or from *)
(* a worker, with a worker, or in the waiting list.                        *)
Places(p) ==
    Cardinality({p} \cap set) + Count(queue, p) + Count(pipe, p) + wl.presence[p]
        + Cardinality({w \in Workers : worker[w].pid = p})

(* The master and the workers pass a client to each other and never have   *)
(* it twice, so that no two of them read or answer it at the same time;    *)
(* a client that is there is never dropped (FD_CLR, the queue, the pipe,   *)
(* the waiting list and FD_SET together).                                  *)
EachClientInOnePlace ==
    \A p \in Pids :
        /\ conn[p] = "closed" => Places(p) = 0
        /\ conn[p] = "open"   => Places(p) = 1
        /\ conn[p] = "hungup" => Places(p) <= 1

(* fd_num, which is counted down when the largest descriptor is taken out, *)
(* stays above every descriptor select has to look at.                     *)
SelectSeesAll == \A fd \in set \cup {Channel, Listener} : fd <= fd_num

(* active_connections counts the sockets that are open and the departures  *)
(* the master has not heard of; a soft termination relies on it.           *)
ConnectionsAreCounted ==
    active = Cardinality({p \in Pids : conn[p] # "closed"}) + Count(pipe, Gone)
                + Cardinality({w \in Workers : worker[w].pc = "announce"})

(* Every element of the waiting list is of a pid that is present and whose *)
(* client is still connected to that descriptor: pop never meets a request *)
(* of an earlier client of the same number.                                *)
WaitersArePresent ==
    \A t \in Names : \A i \in DOMAIN wl.queues[t] :
        LET el == wl.queues[t][i]
        IN  /\ wl.presence[el.pid] > 0
            /\ conn[el.pid] # "closed" /\ asked[el.pid] = el.req

AsksLock(r) == r.type = "lock" \/ (r.type = "open" /\ r.lock)

(* The answer to a lock is sent after the file system was left, and maybe  *)
(* after a sleep in it; whatever the other workers lock, unlock, close,    *)
(* remove or end in between, a client that is told it has the lock of a    *)
(* file has it (handle_fd_c_request, then handle_fd_c_response).  Only the *)
(* eviction of a WRITE, which is not among these requests, could take the  *)
(* locked file away before the answer.                                     *)
LockAnswersAreTrue ==
    \A w \in Workers :
        LET s == worker[w]
        IN  s.pc = "respond" /\ s.res = "ok" /\ AsksLock(s.req)
                => Exists(Target(s.req)) /\ files[Target(s.req)].locked = s.pid

(* With SIGHUP alone the server goes down only when every client has gone. *)
SoftTerminationWaits ==
    signals = {"soft"} /\ master # "running" => \A p \in Pids : conn[p] = "closed"

(* When no request can wait for a lock, every client that does not hang up *)
(* gets its answer.                                                        *)
RequestsAreAnswered ==
    \A p \in Pids :
        asked[p] # NULL ~> asked[p] = NULL \/ conn[p] # "open" \/ master # "running"
=============================================================================
