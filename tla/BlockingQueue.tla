---------------------------- MODULE BlockingQueue ----------------------------
(***************************************************************************)
(* The thread-safe blocking bounded queue and stack of data-structures     *)
(* (gnl_ts_bb_queue_t.c, gnl_ts_bb_stack_t.c): one monitor, with a mutex   *)
(* and the condition variables el_added and el_removed, around a linked    *)
(* queue or a linked stack.  The body of a call runs under the mutex until *)
(* it returns or waits, so it is one step; a thread that was woken up      *)
(* competes for the mutex with the threads that are just entering and,     *)
(* like them, tests the condition of the loop first.                       *)
(***************************************************************************)
EXTENDS Integers, Sequences, FiniteSets

CONSTANTS Producers, Consumers,  \* the threads that enqueue, that dequeue
          Items,                 \* the elements
          Bound,                 \* the bound given to init
          Nothing                \* not an element

ASSUME QueueAssumption ==
    /\ Bound \in Nat \ {0}
    /\ IsFiniteSet(Producers) /\ IsFiniteSet(Consumers)
    /\ Producers \cap Consumers = {}

Threads == Producers \cup Consumers

VARIABLES kind,  \* whether the structure is the queue or the stack
          q,     \* its elements, from front (top) on
          pc,    \* "out" of a call, "awake" in one, "asleep" on the condition variable
          item   \* what a producer brings, what a consumer has got

vars == <<kind, q, pc, item>>

Init ==
    /\ kind \in {"queue", "stack"} /\ q = <<>>
    /\ pc = [t \in Threads |-> "out"]
    /\ item = [t \in Threads |-> Nothing]

Asleep(S) == {t \in S : pc[t] = "asleep"}
Awake(S)  == {t \in S : pc[t] = "awake"}

(* gnl_stack_push, at the top *)
Pushed(el) == <<el>> \o q

(* gnl_queue_enqueue, at the rear *)
Enqueued(el) == Append(q, el)

Inserted(el) == IF kind = "queue" THEN Enqueued(el) ELSE Pushed(el)

(* gnl_queue_dequeue, gnl_stack_pop: both take the first node. *)
Shortened == Tail(q)
First     == Head(q)

(* t returns after a signal on the condition variable of S, which wakes    *)
(* one of its sleepers if there is any; that it may wake more is Spurious. *)
SignalAndReturn(t, S) ==
    \/ /\ Asleep(S) = {}
       /\ pc' = [pc EXCEPT ![t] = "out"]
    \/ \E s \in Asleep(S) : pc' = [pc EXCEPT ![t] = "out", ![s] = "awake"]

CallEnqueue(p, el) ==
    /\ pc[p] = "out"
    /\ pc' = [pc EXCEPT ![p] = "awake"] /\ item' = [item EXCEPT ![p] = el]
    /\ UNCHANGED <<kind, q>>

CallDequeue(c) ==
    /\ pc[c] = "out"
    /\ pc' = [pc EXCEPT ![c] = "awake"] /\ item' = [item EXCEPT ![c] = Nothing]
    /\ UNCHANGED <<kind, q>>

Wait(t) == pc' = [pc EXCEPT ![t] = "asleep"] /\ UNCHANGED <<kind, q, item>>

Enqueue(p) ==
    /\ pc[p] = "awake"
    /\ \/ Len(q) = Bound /\ Wait(p)
       \/ /\ Len(q) # Bound
          /\ q' = Inserted(item[p])
          /\ SignalAndReturn(p, Consumers)
          /\ UNCHANGED <<kind, item>>

(* A faulty dequeue, that signals only when the structure was full. *)
DequeueSignalsWhenFull(c) ==
    /\ pc[c] = "awake"
    /\ \/ q = <<>> /\ Wait(c)
       \/ /\ q # <<>>
          /\ q' = Shortened /\ item' = [item EXCEPT ![c] = First]
          /\ \/ Len(q) = Bound /\ SignalAndReturn(c, Producers)
             \/ Len(q) # Bound /\ pc' = [pc EXCEPT ![c] = "out"]
          /\ UNCHANGED kind

Dequeue(c) ==
    /\ pc[c] = "awake"
    /\ \/ q = <<>> /\ Wait(c)
       \/ /\ q # <<>>
          /\ q' = Shortened /\ item' = [item EXCEPT ![c] = First]
          /\ SignalAndReturn(c, Producers)
          /\ UNCHANGED kind

(* pthread_cond_wait may return without a signal. *)
Spurious(t) ==
    /\ pc[t] = "asleep" /\ pc' = [pc EXCEPT ![t] = "awake"]
    /\ UNCHANGED <<kind, q, item>>

Next ==
    \/ \E p \in Producers : (\E el \in Items : CallEnqueue(p, el)) \/ Enqueue(p)
    \/ \E c \in Consumers : CallDequeue(c) \/ Dequeue(c)
    \/ \E t \in Threads : Spurious(t)

(* A thread in a call and awake gets the mutex some time; nobody has to    *)
(* call, and no wakeup without a signal is promised.                       *)
Fairness ==
    /\ \A p \in Producers : WF_vars(Enqueue(p))
    /\ \A c \in Consumers : WF_vars(Dequeue(c))

Spec == Init /\ [][Next]_vars /\ Fairness
-----------------------------------------------------------------------------
(* Type invariant; that the structure never holds more than its bound is   *)
(* what the loop around pthread_cond_wait in enqueue and push is for.      *)
TypeOK ==
    /\ kind \in {"queue", "stack"}
    /\ q \in Seq(Items) /\ Len(q) <= Bound
    /\ pc \in [Threads -> {"out", "awake", "asleep"}]
    /\ item \in [Threads -> Items \cup {Nothing}]
    /\ \A p \in Producers : pc[p] # "out" => item[p] \in Items

(* No wakeup is lost although each enqueue and each dequeue signals one    *)
(* thread only and a thread just entering may overtake the one that was    *)
(* signalled: while a consumer sleeps on el_added there is an awake        *)
(* consumer for every element, while a producer sleeps on el_removed there *)
(* is an awake producer for every free place.                              *)
SleepersAreSignalled ==
    /\ Asleep(Consumers) # {} => Len(q) <= Cardinality(Awake(Consumers))
    /\ Asleep(Producers) # {} => Bound - Len(q) <= Cardinality(Awake(Producers))

inside == {t \in Threads : pc[t] # "out"}

Channel == INSTANCE BoundedChannel WITH
              kind <- kind, q <- q, item <- item, inside <- inside

(* The monitor implements the channel: enqueue and dequeue take effect in  *)
(* one step, in the order of the structure, and while there is room (an    *)
(* element) and a thread in enqueue (dequeue), one of those calls returns. *)
ImplementsChannel == Channel!Spec
=============================================================================
