------------------------------- MODULE MinHeap -------------------------------
(***************************************************************************)
(* The min heap (data-structures/src/gnl_min_heap_t.c) as operators on the *)
(* array h of nodes [data, key].  Indices start at 1 here and at 0 in C.   *)
(* Calls on an empty heap fail (EPERM) and are guarded by the callers.     *)
(*                                                                         *)
(* left_only and BubbleOverEqual are faulty forms of min_heapify and       *)
(* BubbleUp, that the runs must tell from the real ones.                   *)
(***************************************************************************)
EXTENDS Integers, Sequences

CONSTANT INT_MAX

parent(i) == i \div 2
left(i)   == 2 * i
right(i)  == 2 * i + 1

swap(h, i, j) == [h EXCEPT ![i] = h[j], ![j] = h[i]]

RECURSIVE BubbleOverEqual(_, _)
BubbleOverEqual(h, i) ==
    IF i > 1 /\ h[parent(i)].key >= h[i].key
    THEN BubbleOverEqual(swap(h, i, parent(i)), parent(i)) ELSE h

(* The loop of decrease_key. *)
RECURSIVE BubbleUp(_, _)
BubbleUp(h, i) ==
    IF i > 1 /\ h[parent(i)].key > h[i].key
    THEN BubbleUp(swap(h, i, parent(i)), parent(i)) ELSE h

(* A greater key is refused (EINVAL). *)
decrease_key(h, i, key) ==
    IF key > h[i].key THEN h ELSE BubbleUp([h EXCEPT ![i].key = key], i)

heap_insert(h, el, key) ==
    decrease_key(Append(h, [data |-> el, key |-> INT_MAX]), Len(h) + 1, key)

RECURSIVE left_only(_, _)
left_only(h, i) ==
    IF left(i) <= Len(h) /\ h[left(i)].key < h[i].key
    THEN left_only(swap(h, i, left(i)), left(i)) ELSE h

RECURSIVE min_heapify(_, _)
min_heapify(h, i) ==
    LET Less(j, k) == j <= Len(h) /\ h[j].key < h[k].key
        l          == IF Less(left(i), i) THEN left(i) ELSE i
        smallest   == IF Less(right(i), l) THEN right(i) ELSE l
    IN  IF smallest # i THEN min_heapify(swap(h, i, smallest), smallest) ELSE h

(* The last node takes the place of the first. *)
extract_min(h) ==
    LET rest == SubSeq(h, 1, Len(h) - 1)
    IN  IF rest = <<>> THEN rest ELSE min_heapify([rest EXCEPT ![1] = h[Len(h)]], 1)
=============================================================================
