----------------------------- MODULE MCStructures -----------------------------
(* Containers small enough to be filled in every order. *)
EXTENDS Structures

MCContainers == {"heap", "tree", "list", "queue", "stack", "code"}
MCNames == {<<2>>, <<2, 1>>, <<2, 2>>, <<1, 1>>, <<3, 1>>, <<2, 1, 3>>}
MCNodes == 1..4
MCValues == {"x", "y"}
MCPriorities == 1..3
MCAlphabet == 1..4
=============================================================================
