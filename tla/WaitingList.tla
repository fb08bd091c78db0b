----------------------------- MODULE WaitingList -----------------------------
(***************************************************************************)
(* The list of the clients that wait for a file to be unlocked             *)
(* (server/src/gnl_fss_waiting_list.c), as operators on a value:           *)
(*                                                                         *)
(*   queues     target_list: for each target the queue of its [pid, req]   *)
(*   presence   presence_list: how many nodes it has for each pid, one for *)
(*              each push that was neither popped nor removed              *)
(*                                                                         *)
(* Removing a pid takes it off the presence list only; its elements stay   *)
(* in the queues, and pop drops those whose pid is not present.            *)
(***************************************************************************)
EXTENDS Integers, Sequences, FiniteSetsExt

waiting_list_init(targets, pids) ==
    [queues |-> [t \in targets |-> <<>>], presence |-> [p \in pids |-> 0]]

push_absent(wl, target, pid, req) ==
    [wl EXCEPT !.queues[target] = Append(@, [pid |-> pid, req |-> req])]

waiting_list_push(wl, target, pid, req) ==
    [queues   |-> [wl.queues EXCEPT ![target] = Append(@, [pid |-> pid, req |-> req])],
     presence |-> [wl.presence EXCEPT ![pid] = @ + 1]]

(* The positions of the elements that pop may return. *)
Valid(wl, target) ==
    {i \in DOMAIN wl.queues[target] : wl.presence[wl.queues[target][i].pid] > 0}

(* The popped element, when Valid(wl, target) is not empty. *)
Popped(wl, target) == wl.queues[target][Min(Valid(wl, target))]

(* The list after a pop; one that returned NULL has emptied the queue. *)
waiting_list_pop(wl, target) ==
    LET queue == wl.queues[target]
        i     == Min(Valid(wl, target))
    IN  IF Valid(wl, target) = {}
        THEN [wl EXCEPT !.queues[target] = <<>>]
        ELSE [queues   |-> [wl.queues EXCEPT ![target] = SubSeq(queue, i + 1, Len(queue))],
              presence |-> [wl.presence EXCEPT ![queue[i].pid] = @ - 1]]

waiting_list_remove(wl, pid) == [wl EXCEPT !.presence[pid] = 0]
=============================================================================
