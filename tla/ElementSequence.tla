--------------------------- MODULE ElementSequence ---------------------------
(***************************************************************************)
(* What the list, the queue and the stack promise: a sequence of elements. *)
(* A queue takes them in at the back, a stack at the front, both give out  *)
(* the front; a list takes them in at either end and drops the first equal *)
(* element wherever it is.                                                 *)
(***************************************************************************)
EXTENDS SequencesExt

CONSTANT Values

VARIABLES contents,
          call     \* the last call and its argument or result

Init == contents = <<>> /\ call = <<>>

PushBack(x)  == call' \in {<<"append", x>>, <<"enqueue", x>>} /\ contents' = Append(contents, x)
PushFront(x) == call' \in {<<"insert", x>>, <<"push", x>>} /\ contents' = <<x>> \o contents
PopFront     == /\ contents # <<>> /\ contents' = Tail(contents)
                /\ call' \in {<<"dequeue", Head(contents)>>, <<"pop", Head(contents)>>}
DropFirst(x) == /\ call' = <<"delete", x>>
                /\ contents' = ReplaceFirstSubSeq(<<>>, <<x>>, contents)

Next == Init' \/ PopFront \/ \E x \in Values : PushBack(x) \/ PushFront(x) \/ DropFirst(x)

Spec == Init /\ [][Next]_<<contents, call>>
=============================================================================
