-------------------------------- MODULE Client --------------------------------
(***************************************************************************)
(* The command line client (client/src/gnl_opt_handler.c, gnl_opt_arg.c,   *)
(* gnl_opt_rts.c) on top of the API (server/src/gnl_fss_api.c), several of *)
(* them at work on one server.                                             *)
(*                                                                         *)
(* A client parses its options into a queue of commands, connects, and     *)
(* runs the commands one by one; a command makes, for each of its files, a *)
(* fixed series of API calls.  A call is one step with what the server     *)
(* does for it (SimFS), as a client has one request at a time.  A request  *)
(* that is answered EBUSY stays in the waiting list of the server, which   *)
(* tries it again when it likes: Server says when.  All clients see one    *)
(* disk, the server being reached through a local socket, and name files   *)
(* by absolute paths.                                                      *)
(*                                                                         *)
(* send_file_locked, AlwaysSkips, put_once and CreatesIfAbsent are faulty  *)
(* forms of send_file, SkipsTheRest, put and Creates.                      *)
(***************************************************************************)
EXTENDS SimFS

CONSTANTS Local,         \* the content of each file on the disk, or NULL
          CommandLines,  \* the options clients are started with
          ApiProgram,    \* calls of another program that uses the API
          Mortal,        \* the clients that may be killed
          MaxStarts      \* bound of the clients a behaviour starts

(* What getopt returns ("?" for a missing argument, too), and "api" for    *)
(* the other program.                                                      *)
Options == {"f", "p", "h", "?", "t", "D", "d", "w", "W", "c", "l", "u", "r", "R", "api"}

Commands == [opt : Options, files : Seq(Names), n : Int]

(* The files of a directory are on the disk, and so are those of the other *)
(* program, which does nothing else.                                       *)
ASSUME ClientAssumption ==
    /\ Local \in [Names -> Payloads \cup {NULL}]
    /\ \A argv \in CommandLines :
          /\ argv \in Seq(Commands)
          /\ \A i \in DOMAIN argv :
                /\ argv[i].opt = "api" => i = Len(argv)
                /\ argv[i].opt \in {"w", "api"} =>
                      \A k \in DOMAIN argv[i].files : Local[argv[i].files[k]] # NULL
    /\ NULL \notin Nat /\ NULL \notin Commands
    /\ Mortal \subseteq Pids /\ MaxStarts \in Nat

(* The other program tries to write without O_CREATE and O_LOCK only,      *)
(* which writeFile refuses: what it would store is not a file of the disk. *)
ASSUME ProgramAssumption ==
    /\ ApiProgram \in Seq(STRING) /\ ApiProgram # <<>>
    /\ ApiProgram[Len(ApiProgram)] \notin {"open_create", "open_lock"}
    /\ \A i \in DOMAIN ApiProgram : ApiProgram[i] = "write" =>
          \A j \in 1..i - 1 : ApiProgram[j] \notin {"open_create", "open_lock"}

(* Of each client: where it is, its commands, those it has still to run,   *)
(* the one it runs with its remaining files and the number of its next     *)
(* call, whether a call of the command failed,                             *)
(* open_with_create_lock_flags, and file_descriptor_table.                 *)
VARIABLES client,
          starts   \* how many clients were started

clientvars == <<vars, client, starts>>

NotStarted ==
    [pc |-> "off", line |-> <<>>, queue |-> <<>>, cmd |-> NULL, names |-> <<>>, step |-> 1, failed |-> FALSE,
     flag |-> FALSE, fds |-> [f \in Names |-> NULL]]

ClientInit == Init /\ client = [p \in Pids |-> NotStarted] /\ starts = 0
-----------------------------------------------------------------------------
(* The options.                                                            *)

Parse(s, o) ==
    LET bad == \/ o.opt \in {"f", "p"} \cap s.seen
               \/ o.opt \in {"h", "?"}
               \/ o.opt = "D" /\ s.previous \notin {"w", "W"}
               \/ o.opt = "d" /\ s.previous \notin {"r", "R"}
    IN  [ok |-> s.ok /\ ~bad, seen |-> s.seen \cup {o.opt}, previous |-> o.opt,
         queue |-> IF o.opt \in {"f", "p"} THEN s.queue ELSE Append(s.queue, o)]

(* previous_opt is not initialised: it may hold any value at first. *)
parse_opt(argv, garbage) ==
    LET parsed[i \in 0..Len(argv)] ==
            IF i = 0 THEN [ok |-> TRUE, seen |-> {}, previous |-> garbage, queue |-> <<>>]
            ELSE Parse(parsed[i - 1], argv[i])
    IN  parsed[Len(argv)]

(* Options that are refused, or without a socket, end the program at once. *)
(* The attempts to connect are repeated while the socket is not there, for *)
(* a limited time: found says whether it was there in time.                *)
Start(p, argv, garbage, found) ==
    LET parsed == parse_opt(argv, garbage)
    IN  /\ client[p].pc \in {"off", "gone"} /\ starts < MaxStarts
        /\ starts' = starts + 1
        /\ client' = [client EXCEPT ![p] =
              IF parsed.ok /\ "f" \in parsed.seen /\ found
              THEN [NotStarted EXCEPT !.pc = "idle", !.line = parsed.queue,
                                      !.queue = parsed.queue]
              ELSE [NotStarted EXCEPT !.pc = "gone"]]
        /\ UNCHANGED vars
-----------------------------------------------------------------------------
(* The commands.                                                           *)

send_file_locked == <<"open_create", "write", "close">>
send_file        == <<"open_create", "write", "unlock", "close">>
remove_file      == <<"open_lock", "remove", "close">>
lock_file        == <<"open", "lock", "close">>
unlock_file      == <<"open", "unlock", "close">>
read_file        == <<"open", "read", "close">>

Script(cmd) ==
    CASE cmd.opt \in {"w", "W"} -> send_file
      [] cmd.opt = "c"          -> remove_file
      [] cmd.opt = "l"          -> lock_file
      [] cmd.opt = "u"          -> unlock_file
      [] cmd.opt \in {"r", "R"} -> read_file
      [] cmd.opt = "api"        -> ApiProgram

FirstOf(list, n) == IF n > 0 /\ n < Len(list) THEN SubSeq(list, 1, n) ELSE list

(* A file that is not on the disk has no absolute path. *)
NotFound(cmd) ==
    /\ cmd.opt \in {"W", "c", "l", "u", "r"}
    /\ \E i \in DOMAIN cmd.files : Local[cmd.files[i]] = NULL

(* The files of a command: a part of a directory, what the server lists    *)
(* (gnl_simfs_file_system_ls), or those that were named.                   *)
Files(cmd) ==
    CASE cmd.opt = "w" -> FirstOf(cmd.files, cmd.n)
      [] cmd.opt = "R" -> FirstOf(presence, cmd.n)
      [] OTHER         -> cmd.files

(* -t, -D and -d make no call. *)
NextCommand(p) ==
    LET c    == client[p]
        cmd  == Head(c.queue)
        bad  == NotFound(cmd) \/ (cmd.opt = "w" /\ cmd.n < 0)
        list == IF bad \/ cmd.opt \in {"t", "D", "d"} THEN <<>> ELSE Files(cmd)
    IN  /\ c.pc = "idle" /\ ~c.failed /\ c.queue # <<>>
        /\ cmd.opt = "R" => Ready(p)
        /\ client' = [client EXCEPT ![p] =
              [c EXCEPT !.pc = IF list = <<>> THEN "idle" ELSE "call",
                        !.queue = Tail(c.queue), !.cmd = cmd, !.names = list,
                        !.step = 1, !.failed = bad]]
        /\ UNCHANGED vars

(* The argument of a -D or -d that comes next. *)
Stores(c, opt) == c.queue # <<>> /\ Head(c.queue).opt = opt

Ended(c, failed) == [c EXCEPT !.pc = "idle", !.names = <<>>, !.failed = failed]

NextFile(c) ==
    IF Len(c.names) = 1 THEN Ended(c, FALSE)
    ELSE [c EXCEPT !.pc = "call", !.names = Tail(@), !.step = 1]

AlwaysSkips(c, ok) == ~ok

(* Without an open file there is nothing else to do. *)
SkipsTheRest(c, ok) == c.step = 1 /\ ~ok

(* The client after a call.  Errors are looked at once the file is closed, *)
(* and end the command, which for read_N_files is no failure.              *)
After(c, ok) ==
    LET failed == c.failed \/ ~ok
        n      == Len(Script(c.cmd))
    IN  IF SkipsTheRest(c, ok) THEN Ended(c, TRUE)
        ELSE IF c.step < n
        THEN [c EXCEPT !.pc = "call", !.step = @ + 1, !.failed = failed]
        ELSE IF failed THEN Ended(c, c.cmd.opt # "R") ELSE NextFile(c)
-----------------------------------------------------------------------------
(* The API.                                                                *)

Name(p) == Head(client[p].names)
Fd(p)   == client[p].fds[Name(p)]

Calls(p, api) ==
    client[p].pc = "call" /\ Script(client[p].cmd)[client[p].step] = api

Answer(p, c, ok) == client' = [client EXCEPT ![p] = After(c, ok)]

(* Every call but a successful open clears the flag when it succeeds. *)
Success(p) == Answer(p, [client[p] EXCEPT !.flag = FALSE], TRUE)
Failure(p) == Answer(p, client[p], FALSE)

Sleeps(p) == client' = [client EXCEPT ![p].pc = "asleep"]

(* An older descriptor of the same file is overwritten. *)
put_once(fds, f, fd) == IF fds[f] = NULL THEN [fds EXCEPT ![f] = fd] ELSE fds
put(fds, f, fd) == [fds EXCEPT ![f] = fd]

(* The flag is set by either of the two flags. *)
GotFd(p, flags) ==
    Answer(p, [client[p] EXCEPT !.flag = flags # {},
                                !.fds = put(@, Name(p), get_file_descriptor(fdt))], TRUE)

Flags(api) ==
    CASE api = "open_create" -> {"O_CREATE", "O_LOCK"}
      [] api = "open_lock"   -> {"O_LOCK"}
      [] api = "open"        -> {}

(* A file that exists is not created again (EEXIST). *)
CreatesIfAbsent(flags, f) == "O_CREATE" \in flags /\ ~Exists(f)
Creates(flags, f) == "O_CREATE" \in flags

(* An open or a lock that meets EBUSY goes on waiting. *)
OpenFile(p, api) ==
    LET f      == Name(p)
        flags  == Flags(api)
        create == Creates(flags, f)
        lock   == "O_LOCK" \in flags
    IN  /\ Calls(p, api)
        /\ \/ create /\ OpenCreate(p, f, lock) /\ GotFd(p, flags)
           \/ ~create /\ OpenExisting(p, f, lock) /\ GotFd(p, flags)
           \/ ~create /\ lock /\ OpenWaits(p, f) /\ Sleeps(p)
           \/ /\ open_error(p, f, create, lock) \notin {"ok", "EBUSY"}
              /\ Refused(p) /\ Failure(p)

(* The calls that need a descriptor, of a file that has none, and writeFile *)
(* unless the flag is set, fail without a request.                          *)
NoRequest(p) ==
    LET c   == client[p]
        api == Script(c.cmd)[c.step]
    IN  /\ c.pc = "call" /\ api \in {"write", "read", "lock", "unlock", "close"}
        /\ Fd(p) = NULL \/ (api = "write" /\ ~c.flag)
        /\ Failure(p)
        /\ UNCHANGED vars

Requests(p, api) == Calls(p, api) /\ Fd(p) # NULL

LockFile(p) ==
    /\ Requests(p, "lock")
    /\ \/ Lock(p, Fd(p)) /\ Success(p)
       \/ LockWaits(p, Fd(p)) /\ Sleeps(p)
       \/ /\ lock_error(p, Fd(p)) = "ok" /\ files[Name(p)].locked = p
          /\ Refused(p) /\ Success(p)
       \/ lock_error(p, Fd(p)) \notin {"ok", "EBUSY"} /\ Refused(p) /\ Failure(p)

UnlockFile(p) ==
    /\ Requests(p, "unlock")
    /\ \/ Unlock(p, Fd(p)) /\ Success(p)
       \/ unlock_error(p, Fd(p)) # "ok" /\ Refused(p) /\ Failure(p)

ReadFile(p) ==
    /\ Requests(p, "read")
    /\ \/ Read(p, Fd(p)) /\ Success(p)
       \/ ReadNothing(p, Fd(p)) /\ Failure(p)
       \/ read_error(p, Fd(p)) # "ok" /\ Refused(p) /\ Failure(p)

(* The descriptor is forgotten when the server says that it was closed.    *)
(* What was read is stored then, if it was.                                *)
CloseFile(p, stored) ==
    LET c       == client[p]
        fd      == Fd(p)
        closed  == [c EXCEPT !.flag = FALSE, !.fds[Name(p)] = NULL]
        another == Exists(Copy(fd).name) /\ files[Copy(fd).name].refs[p] = 0
    IN  /\ Requests(p, "close")
        /\ stored \/ (c.cmd.opt \in {"r", "R"} /\ Stores(c, "d") /\ ~c.failed)
        /\ \/ /\ Close(p, fd)
              /\ IF another THEN Failure(p)
                 ELSE IF stored THEN Answer(p, closed, TRUE)
                 ELSE client' = [client EXCEPT ![p] = Ended(closed, TRUE)]
           \/ fdt_error(fdt, fd, p) # "ok" /\ Refused(p) /\ Failure(p)

RemovesFile(p) ==
    LET f == Name(p)
    IN  /\ Calls(p, "remove")
        /\ \/ /\ RemoveFile(p, f)
              /\ IF destroy_error(files[f].size) = "ok" THEN Success(p) ELSE Failure(p)
           \/ remove_error(p, f) # "ok" /\ Refused(p) /\ Failure(p)

(* A write that got the space it needs. *)
Written(p, fd) ==
    IF access_error(p, fd) = "ok" /\ Exists(Copy(fd).name) THEN Success(p) ELSE Failure(p)

WriteFile(p) ==
    LET fd    == Fd(p)
        buf   == Local[Name(p)]
        error == \/ write_error(buf) # "ok"
                 \/ NoSpace(buf) /\ no_victim_error # "ok"
    IN  /\ Requests(p, "write") /\ client[p].flag
        /\ \/ Write(p, fd, buf) /\ Written(p, fd)
           \/ WriteBegin(p, fd, buf) /\ client' = [client EXCEPT ![p].pc = "writing"]
           \/ error /\ Refused(p) /\ Failure(p)

(* The server evicts files for a write; the client stores those it gets    *)
(* with the answer, if -D says so, and reports a failure of that as one of *)
(* the write.                                                              *)
WriteGoesOn(p, stored) ==
    /\ writing # NULL /\ writing.pid = p
    /\ stored \/ Stores(client[p], "D")
    /\ \/ WriteEnd /\ IF stored THEN Written(p, writing.fd) ELSE Failure(p)
       \/ (WriteGivesUp \/ EvictFails) /\ Failure(p)
       \/ Evict /\ IF writing' = NULL THEN Failure(p) ELSE UNCHANGED client

(* The server thread of a call that waits on file_is_lockable. *)
GoesOn(p) ==
    LET full == waiting[p].op = "open" /\ fdt.size = MAX_OPEN_FILES
    IN  /\ client[p].pc = "asleep"
        /\ \/ SleepAgain(p) /\ UNCHANGED client
           \/ /\ WakeUp(p)
              /\ IF full THEN Failure(p)
                 ELSE IF waiting[p].op = "open" THEN GotFd(p, {"O_LOCK"}) ELSE Success(p)
-----------------------------------------------------------------------------
(* The connection is closed after the last command, or the first that      *)
(* failed, and the server ends the session.  A client that is killed       *)
(* leaves with a file open; at other moments it leaves as one that failed. *)
(* Another program may leave with files open, too.                         *)
Orderly(p) == client[p].pc = "idle" /\ (client[p].cmd # NULL => client[p].cmd.opt # "api")

Leave(p) ==
    LET c == client[p]
    IN  /\ \/ c.pc = "idle" /\ (c.failed \/ c.queue = <<>>)
           \/ c.pc = "killed"
        /\ RemoveSession(p) \/ (presence = <<>> /\ Refused(p))
        /\ client' = [client EXCEPT ![p] =
              [NotStarted EXCEPT !.pc = IF Orderly(p) THEN "gone" ELSE "dead"]]

Dies(p) ==
    /\ p \in Mortal /\ client[p].pc = "call" /\ client[p].step > 1
    /\ client' = [client EXCEPT ![p] = [NotStarted EXCEPT !.pc = "killed"]]
    /\ UNCHANGED vars
-----------------------------------------------------------------------------
ApiCall(p) ==
    \/ \E api \in {"open_create", "open_lock", "open"} : OpenFile(p, api)
    \/ NoRequest(p)
    \/ LockFile(p) \/ UnlockFile(p) \/ ReadFile(p) \/ WriteFile(p) \/ RemovesFile(p)
    \/ \E stored \in BOOLEAN : CloseFile(p, stored) \/ WriteGoesOn(p, stored)
    \/ GoesOn(p)

ClientStep(p) ==
    \/ NextCommand(p) \/ ApiCall(p) \/ Leave(p) \/ Dies(p)
    \/ (Spurious(p) \/ Tick) /\ UNCHANGED client

ClientNext ==
    \E p \in Pids :
        \/ \E argv \in CommandLines, garbage \in {"none", "W", "r"}, found \in BOOLEAN :
              Start(p, argv, garbage, found)
        \/ ClientStep(p) /\ UNCHANGED starts

ClientSpec == ClientInit /\ [][ClientNext]_clientvars
-----------------------------------------------------------------------------
CommandLine(p) == client[p].cmd # NULL /\ client[p].cmd.opt # "api"

(* A descriptor the command line client sends to the server is its own,    *)
(* open, and of the file the client takes it for, although the record of a *)
(* descriptor outlives a close the server refused, and the server gives    *)
(* numbers out again (file_descriptor_table against the server's table).   *)
UsesOwnDescriptors ==
    \A p \in Pids :
        client[p].pc = "call" /\ CommandLine(p)
            /\ Script(client[p].cmd)[client[p].step]
                   \in {"write", "read", "lock", "unlock", "close"} =>
            /\ Fd(p) \in InUse(fdt)
            /\ fdt.table[Fd(p)].owner = p /\ Copy(Fd(p)).name = Name(p)

(* Between two commands, failed ones too, a client has no file open: each  *)
(* command closes what it opened, whatever happened to the file since.     *)
NothingLeftOpen ==
    \A p \in Pids : client[p].pc = "idle" /\ CommandLine(p) =>
        /\ \A fd \in InUse(fdt) : fdt.table[fd].owner # p
        /\ \A f \in Names : Exists(f) => files[f].refs[p] = 0

(* The commands the client has run. *)
Done(p) == SubSeq(client[p].line, 1, Len(client[p].line) - Len(client[p].queue))

(* A client that goes on to its next command owns only locks that it asked *)
(* for with -l and did not give back with -u: those that sending and       *)
(* removing files take are all released.                                   *)
LocksAreAsked ==
    \A p \in Pids, f \in Names :
        (/\ client[p].pc = "idle" /\ CommandLine(p) /\ ~client[p].failed
         /\ Exists(f) /\ files[f].locked = p)
        => \E i \in DOMAIN Done(p) :
              /\ Done(p)[i].opt = "l" /\ f \in ToSet(Done(p)[i].files)
              /\ \A j \in i + 1..Len(Done(p)) :
                    Done(p)[j].opt \in {"u", "c"} => f \notin ToSet(Done(p)[j].files)

(* A client that closed its connection, after a failure too, leaves        *)
(* neither a lock nor a reference nor a descriptor behind: ending its      *)
(* session finds all that it had.                                          *)
LeavesNothing ==
    \A p \in Pids : client[p].pc = "gone" =>
        /\ \A fd \in InUse(fdt) : fdt.table[fd].owner # p
        /\ \A f \in Names : Exists(f) => files[f].refs[p] = 0 /\ files[f].locked # p

(* What the server holds of a file is the file on the disk, once: clients  *)
(* that send the same file, evictions and clients that die in between      *)
(* never leave a part of it, two of it, or something else under its name   *)
(* (O_CREATE|O_LOCK before writeFile).                                     *)
StoredIsLocal ==
    \A f \in Names :
        Exists(f) /\ files[f].ptr # NULL => heap[files[f].ptr] = Local[f]
=============================================================================
