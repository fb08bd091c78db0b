---------------------------- MODULE MessageChannel ----------------------------
(***************************************************************************)
(* What a connection promises its two ends: whole messages, in their       *)
(* order, each delivered at most once, and an answer for every request     *)
(* that was delivered before.  Either end may vanish, which only stops     *)
(* deliveries.                                                             *)
(***************************************************************************)
EXTENDS Integers, Sequences

CONSTANTS Requests, Responses(_)

VARIABLES sent, received,   \* the messages of each end, "client" or "server"
          broken            \* whether a call of the client has failed

channel == <<sent, received, broken>>

Init ==
    /\ sent = [e \in {"client", "server"} |-> <<>>] /\ received = sent
    /\ broken = FALSE

(* A client sends one request at a time. *)
Ask(m) ==
    /\ broken \/ Len(received["client"]) = Len(sent["client"])
    /\ sent' = [sent EXCEPT !["client"] = Append(@, m)]
    /\ UNCHANGED <<received, broken>>

Answer(m) ==
    /\ Len(sent["server"]) < Len(received["server"])
    /\ m \in Responses(received["server"][Len(sent["server"]) + 1])
    /\ sent' = [sent EXCEPT !["server"] = Append(@, m)]
    /\ UNCHANGED <<received, broken>>

Deliver(from, to) ==
    /\ Len(received[to]) < Len(sent[from]) /\ ~broken
    /\ received' = [received EXCEPT ![to] = Append(@, sent[from][Len(@) + 1])]
    /\ UNCHANGED <<sent, broken>>

(* After a failure nothing is delivered any more. *)
Fail == broken' = TRUE /\ UNCHANGED <<sent, received>>

Next ==
    \/ \E m \in Requests : Ask(m)
    \/ \E r \in Requests : \E m \in Responses(r) : Answer(m)
    \/ Deliver("client", "server") \/ Deliver("server", "client")
    \/ Fail

Spec == Init /\ [][Next]_channel
=============================================================================
