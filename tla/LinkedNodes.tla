----------------------------- MODULE LinkedNodes -----------------------------
(***************************************************************************)
(* The list, the queue and the stack of data-structures/src/ (gnl_list_t.c, *)
(* gnl_queue_t.c, gnl_stack_t.c): chains of malloc'ed nodes.  A chain is   *)
(* [mem, front, rear, size], where mem holds the allocated nodes           *)
(* [data, next]; the list uses front alone, the stack no rear.             *)
(*                                                                         *)
(* dequeue_front_only and destroy_but_last are faulty forms of dequeue and *)
(* chain_destroy, that the runs must tell from the real ones.              *)
(***************************************************************************)
EXTENDS Integers, Sequences, SequencesExt, Pointers

CONSTANT Nodes     \* the addresses of nodes, bounding the length of a chain

chain_init == [mem |-> [a \in {} |-> NULL], front |-> NULL, rear |-> NULL, size |-> 0]

free_nodes(s) == Nodes \ DOMAIN s.mem
malloc(s) == Min(free_nodes(s))

(* The addresses from a on, in the order of the links. *)
RECURSIVE Cells(_, _)
Cells(mem, a) == IF a = NULL THEN <<>> ELSE <<a>> \o Cells(mem, mem[a].next)

Elements(s) == LET c == Cells(s.mem, s.front) IN [i \in DOMAIN c |-> s.mem[c[i]].data]

Allocated(mem, a, el, next) ==
    [b \in DOMAIN mem \cup {a} |-> IF b = a THEN [data |-> el, next |-> next] ELSE mem[b]]

free(mem, a) == Restrict(mem, DOMAIN mem \ {a})

(* gnl_list_insert and gnl_stack_push *)
list_insert(s, el) ==
    LET a == malloc(s)
    IN  [s EXCEPT !.mem = Allocated(@, a, el, s.front), !.front = a, !.size = @ + 1]

list_append(s, el) ==
    LET a   == malloc(s)
        c   == Cells(s.mem, s.front)
        new == Allocated(s.mem, a, el, NULL)
    IN  IF s.front = NULL THEN [s EXCEPT !.mem = new, !.front = a, !.size = @ + 1]
        ELSE [s EXCEPT !.mem = [new EXCEPT ![c[Len(c)]].next = a], !.size = @ + 1]

enqueue(s, el) ==
    LET a   == malloc(s)
        new == Allocated(s.mem, a, el, NULL)
    IN  IF s.rear = NULL
        THEN [mem |-> new, front |-> a, rear |-> a, size |-> s.size + 1]
        ELSE [s EXCEPT !.mem = [new EXCEPT ![s.rear].next = a], !.rear = a, !.size = @ + 1]

dequeue_front_only(s) ==
    [s EXCEPT !.mem = free(@, s.front), !.front = s.mem[s.front].next, !.size = @ - 1]

(* gnl_queue_dequeue and, without a rear, gnl_stack_pop; an empty one      *)
(* returns NULL and stays as it is.                                        *)
dequeue(s) ==
    LET next == s.mem[s.front].next
    IN  [mem |-> free(s.mem, s.front), front |-> next,
         rear |-> IF next = NULL THEN NULL ELSE s.rear, size |-> s.size - 1]

(* gnl_list_delete: the first node that holds the element, if any. *)
list_delete(s, el) ==
    LET c  == Cells(s.mem, s.front)
        at == {i \in DOMAIN c : s.mem[c[i]].data = el}
        i  == Min(at)
    IN  IF at = {} THEN s
        ELSE IF i = 1
        THEN [s EXCEPT !.mem = free(@, c[1]), !.front = s.mem[c[1]].next, !.size = @ - 1]
        ELSE [s EXCEPT !.mem = free([@ EXCEPT ![c[i - 1]].next = s.mem[c[i]].next], c[i]),
                       !.size = @ - 1]

RECURSIVE destroy_but_last(_)
destroy_but_last(s) ==
    IF s.front = NULL THEN s
    ELSE IF s.mem[s.front].next = NULL THEN [s EXCEPT !.front = NULL, !.rear = NULL, !.size = 0]
    ELSE destroy_but_last(dequeue(s))

(* gnl_list_destroy, gnl_queue_destroy, gnl_stack_destroy *)
RECURSIVE chain_destroy(_)
chain_destroy(s) == IF s.front = NULL THEN s ELSE chain_destroy(dequeue(s))
=============================================================================
