------------------------------- MODULE MCClient -------------------------------
(* A finite instance of the clients for TLC. *)
EXTENDS Client

CONSTANTS p1, p2, p3, F1, F2, F3, B1, B2

(* F1 takes one word on the server and F2 two; F3 is not on the disk. *)
Disk == F1 :> <<B1, B2>> @@ F2 :> <<B1, B2, B1>> @@ F3 :> NULL
Contents == {<<B1, B2>>, <<B1, B2, B1>>}

O(opt, list) == [opt |-> opt, files |-> list, n |-> 0]
Socket == O("f", <<>>)

OneProgram == <<"open", "write", "read", "open_lock", "close", "close">>

Lines ==
    {<<Socket, O("W", <<F1, F2>>), O("D", <<>>)>>,
     <<Socket, O("W", <<F1>>), O("R", <<>>), O("d", <<>>), O("r", <<F1>>)>>,
     <<Socket, O("c", <<F1>>), [opt |-> "w", files |-> <<F1, F2>>, n |-> 1], O("r", <<F1>>)>>,
     <<Socket, O("l", <<F1>>), O("u", <<F1>>), O("l", <<F1>>), O("r", <<F3>>)>>,
     <<Socket, O("t", <<>>), O("api", <<F1>>)>>,
     <<O("d", <<>>), Socket>>}

Symmetric == Permutations(Pids)
=============================================================================
