----------------------------- MODULE ServerClaims -----------------------------
(***************************************************************************)
(* What the comments and messages of the server, and doc/filesystem.md,    *)
(* say and the code does not do.  TLC refutes each of them.                *)
(***************************************************************************)
EXTENDS Server

(* handle_fd_c_response subscribes a client "if the target file of the     *)
(* request is locked".  The lock may be gone, and its broadcast over,      *)
(* between the answer of the file system and the subscription.             *)
SubscribesToBusyFile ==
    [][\A w \in Workers : Subscribe(w) =>
          LET s == worker[w]
          IN  /\ Exists(Target(s.req))
              /\ \/ LockedByOther(files[Target(s.req)], s.pid)
                 \/ has_pending_locks(files[Target(s.req)])]_allvars

(* The thread pool keeps "the clients waiting for a file unlocking".  The  *)
(* end of a session unlocks files too, and does not look at the list.      *)
WaitersWaitForAnUnlock ==
    (\A w \in Workers : worker[w].pc = "idle") =>
        \A t \in Names : wl.queues[t] # <<>> =>
            Exists(t) /\ (files[t].locked # NoPid \/ has_pending_locks(files[t]))

(* The broadcast is "for each waiting pid".  A client that is refused      *)
(* again goes to the end of the same list and is popped again.             *)
BroadcastEnds ==
    \A w \in Workers : worker[w].pc = "broadcast" ~> worker[w].pc = "idle"

(* "hard termination: the server will shut down immediately".  A worker    *)
(* that sleeps in the file system takes no termination message.            *)
HardTerminationStops ==
    "hard" \in signals /\ master = "terminating" ~> master = "stopped"

(* "soft termination: the server will shut down after every clients        *)
(* request will be handled": once all clients have hung up, it stops.      *)
SoftTerminationStops ==
    [](("soft" \in signals /\ \A p \in Pids : conn[p] # "open")
          => <>(master # "running" \/ \E p \in Pids : conn[p] = "open"))

(* handle_error: "Send a [...] response to the given client and notify the *)
(* master that the handling is done".  When the client has hung up, the    *)
(* send fails, the master is never told, and nobody reads the end of file. *)
HungUpIsClosed ==
    \A p \in Pids : conn[p] = "hungup" ~> conn[p] # "hungup" \/ master # "running"

(* doc/filesystem.md: a lock "will wait until each thread closes it [...], *)
(* then it will lock the file as soon as possible".  The close needs a     *)
(* worker, and every worker may be asleep.                                 *)
CloseIsServed ==
    \A p \in Pids :
        asked[p] # NULL /\ asked[p].type = "close"
            ~> asked[p] = NULL \/ conn[p] # "open" \/ master # "running"
=============================================================================
