-------------------------------- MODULE Socket --------------------------------
(***************************************************************************)
(* One connection between a client and the server, byte by byte:           *)
(* socket/src/gnl_socket_service.c on both ends, the worker's handling of  *)
(* what it reads (server/src/gnl_fss_worker.c), and the stream socket      *)
(* between them, which moves any number of bytes at a time, blocks a       *)
(* writer when it is full, and tells an end of stream or an error when the *)
(* other end is closed.  Either end may stop at any point.                 *)
(*                                                                         *)
(* DispatchOnData and read_error_always are faulty forms of Dispatch and   *)
(* read_error, that the runs must tell from the real ones.                 *)
(***************************************************************************)
EXTENDS Codec, Pointers, SequencesExt

CONSTANTS Requests,       \* what the client sends
          Responses(_),   \* what the server may answer to a request
          Capacity,       \* how many bytes the socket holds in a direction
          MaxRequests     \* bound of the requests of a behaviour

ASSUME SocketAssumption ==
    /\ Capacity \in Nat \ {0} /\ MaxRequests \in Nat
    /\ \A m \in Requests :
          /\ m \in EncodableRequests /\ Fits(Len(request_to_string(m)))
          /\ \A r \in Responses(m) :
                r \in EncodableResponses /\ Fits(Len(response_to_string(r)))

Ends == {"client", "server"}
Other(e) == IF e = "client" THEN "server" ELSE "client"

VARIABLES
    pc,        \* of each end: idle, write, head, body, closed, and for the
               \* server also call, waiting: the request is in the waiting
               \* list, and abandoned: nobody looks at the socket
    out,       \* the frame an end is writing [frame, done], or NULL
    in,        \* what an end has read of the current header or message
    head,      \* the header an end has read, or NULL
    inbox,     \* the bytes on their way to an end
    reset,     \* whether the next read of an end at the end of its stream fails
    sent,      \* the messages each end has begun to write
    received,  \* the messages each end has read and decoded
    complaint, \* whether the server is sending an error of its own
    result     \* what the last call of the client returned

vars == <<pc, out, in, head, inbox, reset, sent, received, complaint, result>>

Nothing == [e \in Ends |-> <<>>]

Init ==
    /\ pc = [e \in Ends |-> "idle"]
    /\ out = [e \in Ends |-> NULL] /\ in = Nothing /\ head = [e \in Ends |-> NULL]
    /\ inbox = Nothing /\ reset = [e \in Ends |-> FALSE]
    /\ sent = Nothing /\ received = Nothing
    /\ complaint = FALSE /\ result = "ok"

Closed(e) == pc[e] = "closed"

-----------------------------------------------------------------------------
(* gnl_socket_service_send_request, send_response: writen *)

Writes(e, f) ==
    /\ pc' = [pc EXCEPT ![e] = "write"]
    /\ out' = [out EXCEPT ![e] = [frame |-> f, done |-> 0]]

(* The client waits for the response, the server for the next request. *)
AfterWrite(e) ==
    /\ pc' = [pc EXCEPT ![e] = IF e = "client" THEN "head" ELSE "idle"]
    /\ out' = [out EXCEPT ![e] = NULL]

Ask(m) ==
    /\ pc["client"] = "idle" /\ Len(sent["client"]) < MaxRequests
    /\ sent' = [sent EXCEPT !["client"] = Append(@, m)]
    /\ Writes("client", frame(type_code(RequestTypes, m.type), request_to_string(m)))
    /\ UNCHANGED <<in, head, inbox, reset, received, complaint, result>>

WriteSome(e, k) ==
    /\ pc[e] = "write" /\ ~Closed(Other(e))
    /\ out[e].done + k <= Len(out[e].frame)
    /\ Len(inbox[Other(e)]) + k <= Capacity
    /\ inbox' = [inbox EXCEPT ![Other(e)] = @ \o Part(out[e].frame, out[e].done, k)]
    /\ \/ /\ out[e].done + k < Len(out[e].frame)
          /\ out' = [out EXCEPT ![e].done = @ + k] /\ UNCHANGED pc
       \/ /\ out[e].done + k = Len(out[e].frame)
          /\ AfterWrite(e)
    /\ UNCHANGED <<in, head, reset, sent, received, complaint, result>>

(* An end stops: what it has not read is lost, and makes the other end's   *)
(* next read at the end of its stream fail.                                *)
Stops(e) ==
    /\ pc' = [pc EXCEPT ![e] = "closed"]
    /\ out' = [out EXCEPT ![e] = NULL] /\ in' = [in EXCEPT ![e] = <<>>]
    /\ head' = [head EXCEPT ![e] = NULL] /\ inbox' = [inbox EXCEPT ![e] = <<>>]
    /\ reset' = [reset EXCEPT ![Other(e)] = inbox[e] # <<>>]

(* A client that writes to a closed socket is ended by SIGPIPE. *)
ClientWriteFails ==
    /\ pc["client"] = "write" /\ Closed("server")
    /\ Stops("client")
    /\ UNCHANGED <<sent, received, complaint, result>>

(* handle_error *)
Complain(errno) ==
    /\ complaint' = TRUE
    /\ Writes("server", frame(type_code(ResponseTypes, "ERROR"), n_to_string(errno)))

(* The server ignores SIGPIPE.  A frame of which something was written     *)
(* counts as sent; otherwise the error is answered, and when that answer   *)
(* fails too nobody looks at the client any more.                          *)
ServerWriteFails ==
    /\ pc["server"] = "write" /\ Closed("client")
    /\ \/ /\ out["server"].done > 0
          /\ AfterWrite("server") /\ complaint' = FALSE
       \/ /\ out["server"].done = 0 /\ ~complaint
          /\ Complain(1)
       \/ /\ out["server"].done = 0 /\ complaint
          /\ pc' = [pc EXCEPT !["server"] = "abandoned"]
          /\ out' = [out EXCEPT !["server"] = NULL] /\ UNCHANGED complaint
    /\ UNCHANGED <<in, head, inbox, reset, sent, received, result>>

-----------------------------------------------------------------------------
(* gnl_socket_service_get_request, get_response: readn *)

DispatchOnData ==
    /\ pc["server"] = "idle" /\ inbox["server"] # <<>>
    /\ pc' = [pc EXCEPT !["server"] = "head"]
    /\ UNCHANGED <<out, in, head, inbox, reset, sent, received, complaint, result>>

(* The master dispatches a client whose socket can be read. *)
Dispatch ==
    /\ pc["server"] = "idle"
    /\ inbox["server"] # <<>> \/ Closed("client")
    /\ pc' = [pc EXCEPT !["server"] = "head"]
    /\ UNCHANGED <<out, in, head, inbox, reset, sent, received, complaint, result>>

Wanted(e) == IF pc[e] = "head" THEN PROTOCOL_SIZE + 1 ELSE head_len(head[e])

Decoded(e, h, message) ==
    IF e = "server" THEN request_from_string(message, head_type(RequestTypes, h))
    ELSE response_from_string(message, head_type(ResponseTypes, h))

(* The message m is complete: the client's call returns, the server has    *)
(* a request to handle.                                                    *)
Got(e, m) ==
    /\ received' = [received EXCEPT ![e] = Append(@, m)]
    /\ head' = [head EXCEPT ![e] = NULL]
    /\ pc' = [pc EXCEPT ![e] = IF e = "client" THEN "idle" ELSE "call"]
    /\ result' = IF e = "client" THEN "ok" ELSE result

ReadSome(e, k) ==
    LET bytes == in[e] \o SubSeq(inbox[e], 1, k)
    IN  /\ pc[e] \in {"head", "body"} /\ k <= Len(inbox[e]) /\ Len(bytes) <= Wanted(e)
        /\ inbox' = [inbox EXCEPT ![e] = SubSeq(@, k + 1, Len(@))]
        /\ \/ /\ Len(bytes) < Wanted(e)
              /\ in' = [in EXCEPT ![e] = bytes]
              /\ UNCHANGED <<pc, head, received, result>>
           \/ /\ Len(bytes) = Wanted(e) /\ in' = [in EXCEPT ![e] = <<>>]
              /\ \/ /\ pc[e] = "head" /\ head_len(bytes) > 0
                    /\ pc' = [pc EXCEPT ![e] = "body"] /\ head' = [head EXCEPT ![e] = bytes]
                    /\ UNCHANGED <<received, result>>
                 \/ /\ pc[e] = "head" /\ head_len(bytes) = 0
                    /\ Got(e, Decoded(e, bytes, <<>>))
                 \/ /\ pc[e] = "body"
                    /\ Got(e, Decoded(e, head[e], bytes))
        /\ UNCHANGED <<out, reset, sent, complaint>>

read_error_always(e) ==
    IF reset[e] /\ in[e] = <<>> THEN "ECONNRESET" ELSE "EBADMSG"

(* errno when a read ends early: nothing at all of a header is the end of  *)
(* the connection, a part is a bad message, a failed read its own error.   *)
read_error(e) ==
    IF reset[e] /\ in[e] = <<>> THEN "ECONNRESET"
    ELSE IF pc[e] = "head" /\ in[e] = <<>> THEN "EPIPE"
    ELSE "EBADMSG"

ReadEnds(e) ==
    /\ pc[e] \in {"head", "body"} /\ inbox[e] = <<>> /\ Closed(Other(e))
    /\ reset' = [reset EXCEPT ![e] = FALSE]
    /\ in' = [in EXCEPT ![e] = <<>>] /\ head' = [head EXCEPT ![e] = NULL]
    /\ \/ /\ e = "client"
          /\ result' = read_error(e) /\ pc' = [pc EXCEPT ![e] = "idle"]
          /\ UNCHANGED <<out, complaint>>
       \/ /\ e = "server" /\ read_error(e) = "EPIPE"
          /\ pc' = [pc EXCEPT ![e] = "closed"]
          /\ UNCHANGED <<out, complaint, result>>
       \/ /\ e = "server" /\ read_error(e) # "EPIPE"
          /\ Complain(1) /\ UNCHANGED result
    /\ UNCHANGED <<inbox, sent, received>>

(* handle_fd_c_request, handle_fd_c_response.  The call of the file system *)
(* may sleep for a lock before its answer is there.                        *)
Answer(r) ==
    /\ pc["server"] = "call" /\ r \in Responses(Last(received["server"]))
    /\ sent' = [sent EXCEPT !["server"] = Append(@, r)]
    /\ Writes("server", frame(type_code(ResponseTypes, r.type), response_to_string(r)))
    /\ UNCHANGED <<in, head, inbox, reset, received, complaint, result>>

(* EBUSY is not answered: the request waits, and the socket is not looked  *)
(* at, until the unlock of another client makes its worker handle the      *)
(* request again.                                                          *)
Waitable(m) == m.type \in {"OPEN", "LOCK"}

Subscribe ==
    /\ pc["server"] = "call" /\ Waitable(Last(received["server"]))
    /\ pc' = [pc EXCEPT !["server"] = "waiting"]
    /\ UNCHANGED <<out, in, head, inbox, reset, sent, received, complaint, result>>

Broadcast ==
    /\ pc["server"] = "waiting"
    /\ pc' = [pc EXCEPT !["server"] = "call"]
    /\ UNCHANGED <<out, in, head, inbox, reset, sent, received, complaint, result>>

-----------------------------------------------------------------------------
(* The client disconnects or dies, the server goes down. *)
Leave(e) ==
    /\ ~Closed(e) /\ Stops(e)
    /\ UNCHANGED <<sent, received, complaint, result>>

Transfer(e) ==
    \/ \E k \in 1..Capacity : WriteSome(e, k) \/ ReadSome(e, k)
    \/ ReadEnds(e)
    \/ e = "client" /\ ClientWriteFails
    \/ e = "server" /\ (ServerWriteFails \/ Dispatch)

Handle ==
    \/ \E q \in Requests : \E r \in Responses(q) : Answer(r)
    \/ Subscribe \/ Broadcast

Next == \/ \E m \in Requests : Ask(m)
        \/ Handle
        \/ \E e \in Ends : Transfer(e) \/ Leave(e)

Spec == Init /\ [][Next]_vars

(* Both processes run and the kernel moves the bytes.  Nobody has to ask   *)
(* or to leave, and a call need not come to an answer: it may sleep for a  *)
(* lock, or wait for an unlock, for ever.                                  *)
FairSpec == Spec /\ \A e \in Ends : WF_vars(Transfer(e))

-----------------------------------------------------------------------------
Messages == INSTANCE MessageChannel WITH
              sent <- sent, received <- received, broken <- (result # "ok"),
              Requests <- Requests, Responses <- Responses

(* Framing and encoding give a channel of messages: however the bytes are  *)
(* cut into reads and writes and whatever digits and zeros the names and   *)
(* contents hold, each end decodes exactly the messages the other encoded, *)
(* in their order, and no frame of an interrupted or failed exchange is    *)
(* taken for another.                                                      *)
StreamIsMessages == Messages!Spec

(* The server gives up a socket without closing it only when the client    *)
(* went away in the middle of an exchange (handle_error fails).            *)
AbandonsOnlyInterrupted ==
    pc["server"] = "abandoned" =>
        Closed("client") /\ Len(received["client"]) < Len(sent["client"])

(* No end hangs in readn or writen, although the other may vanish at any   *)
(* byte and the socket may be full: a worker gets through with what it     *)
(* reads or writes, and a call of the client returns, with an answer or an *)
(* error, unless the file system is to blame, where the request may wait   *)
(* for a lock for ever.                                                    *)
Busy(e) == pc[e] \in {"write", "head", "body"}

TransfersEnd ==
    /\ Busy("server") ~> ~Busy("server")
    /\ Busy("client") ~> ~Busy("client") \/ pc["server"] \in {"call", "waiting"}

(* A client that leaves after its last answer is noticed and its socket    *)
(* closed.                                                                 *)
DepartureIsNoticed ==
    Closed("client") /\ Len(received["client"]) = Len(sent["client"]) ~> Closed("server")
=============================================================================
