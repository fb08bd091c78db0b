---------------------------- MODULE BoundedChannel ----------------------------
(***************************************************************************)
(* What the blocking bounded queue and stack promise, without their mutex  *)
(* and condition variables: a caller is in its call until the element is   *)
(* stored or taken in one step, a store happens only where there is room,  *)
(* a take only where there is an element, and a call that can end is not   *)
(* left hanging together with all the others.  Server.tla uses the queue   *)
(* in this form.                                                           *)
(***************************************************************************)
EXTENDS Integers, Sequences

CONSTANTS Producers, Consumers, Items, Bound, Nothing

VARIABLES kind,    \* "queue" or "stack"
          q,       \* the elements, the next one to be taken first
          inside,  \* the threads that are in a call
          item     \* what a producer brings, what a consumer has got

Init ==
    /\ kind \in {"queue", "stack"} /\ q = <<>> /\ inside = {}
    /\ item = [t \in Producers \cup Consumers |-> Nothing]

Bring(p, el) ==
    /\ p \notin inside /\ inside' = inside \cup {p}
    /\ item' = [item EXCEPT ![p] = el]
    /\ UNCHANGED <<kind, q>>

Ask(c) ==
    /\ c \notin inside /\ inside' = inside \cup {c}
    /\ item' = [item EXCEPT ![c] = Nothing]
    /\ UNCHANGED <<kind, q>>

Store(p) ==
    /\ p \in inside /\ inside' = inside \ {p}
    /\ Len(q) < Bound
    /\ \/ kind = "queue" /\ q' = Append(q, item[p])
       \/ kind = "stack" /\ q' = <<item[p]>> \o q
    /\ UNCHANGED <<kind, item>>

Take(c) ==
    /\ c \in inside /\ inside' = inside \ {c}
    /\ q # <<>> /\ q' = Tail(q)
    /\ item' = [item EXCEPT ![c] = Head(q)]
    /\ UNCHANGED kind

StoreSome == \E p \in Producers : Store(p)
TakeSome  == \E c \in Consumers : Take(c)

Next ==
    \/ \E p \in Producers, el \in Items : Bring(p, el)
    \/ \E c \in Consumers : Ask(c)
    \/ StoreSome
    \/ TakeSome

channel == <<kind, q, inside, item>>

SafeSpec == Init /\ [][Next]_channel

Spec == SafeSpec /\ WF_channel(StoreSome) /\ WF_channel(TakeSome)
=============================================================================
