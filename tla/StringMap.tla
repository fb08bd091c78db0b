------------------------------ MODULE StringMap ------------------------------
(***************************************************************************)
(* What the ternary search tree promises: a map from names to values, of   *)
(* which a put or a removal changes one entry, until all are dropped.      *)
(***************************************************************************)
EXTENDS Pointers

CONSTANTS Names, Values

VARIABLES map,
          call    \* the last call and its arguments

Init == map = [k \in Names |-> NULL] /\ call = <<>>

Put(k, v) == call' = <<"put", k, v>> /\ map' = [map EXCEPT ![k] = v]

Remove(k) == call' = <<"remove", k>> /\ map' = [map EXCEPT ![k] = NULL]

Next == Init' \/ \E k \in Names : Remove(k) \/ \E v \in Values : Put(k, v)

Spec == Init /\ [][Next]_<<map, call>>
=============================================================================
