---------------------------- MODULE PriorityQueue ----------------------------
(***************************************************************************)
(* What a min heap promises its users: an element of least key comes out,  *)
(* and every element that went in comes out once.                          *)
(***************************************************************************)
EXTENDS Integers

VARIABLES contents,   \* the elements [data, key] inside
          call        \* the last call and its argument or result

Init == contents = {} /\ call = <<>>

Put(x) == call' = <<"insert", x>> /\ contents' = contents \cup {x}

Take(x) ==
    /\ \A y \in contents : x.key <= y.key
    /\ call' = <<"extract_min", x>> /\ contents' = contents \ {x}

Next == \/ Init'
        \/ \E x \in contents' \ contents : Put(x)
        \/ \E x \in contents : Take(x)

Spec == Init /\ [][Next]_<<contents, call>>
=============================================================================
