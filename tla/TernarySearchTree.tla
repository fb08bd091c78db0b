-------------------------- MODULE TernarySearchTree --------------------------
(***************************************************************************)
(* The ternary search tree                                                 *)
(* (data-structures/src/gnl_ternary_search_tree_t.c), which maps names to  *)
(* inodes in the file table and paths to descriptors in the client.  A key *)
(* is a non-empty sequence of numbers, the characters; a tree is NULL or a *)
(* node [key, data, left, mid, right].                                     *)
(*                                                                         *)
(* middle_child is a faulty form of has_child, that the runs must tell     *)
(* from the real one.                                                      *)
(***************************************************************************)
EXTENDS Integers, Sequences, Pointers

tree_node(c) == [key |-> c, data |-> NULL, left |-> NULL, mid |-> NULL, right |-> NULL]

RECURSIVE tree_put(_, _, _)
tree_put(t, k, el) ==
    LET node == IF t = NULL THEN tree_node(Head(k)) ELSE t
    IN  CASE Head(k) < node.key -> [node EXCEPT !.left  = tree_put(@, k, el)]
          [] Head(k) > node.key -> [node EXCEPT !.right = tree_put(@, k, el)]
          [] Head(k) = node.key ->
                IF Len(k) = 1 THEN [node EXCEPT !.data = el]
                ELSE [node EXCEPT !.mid = tree_put(@, Tail(k), el)]

RECURSIVE tree_get(_, _)
tree_get(t, k) ==
    IF t = NULL THEN NULL
    ELSE CASE Head(k) < t.key -> tree_get(t.left, k)
           [] Head(k) > t.key -> tree_get(t.right, k)
           [] Head(k) = t.key -> IF Len(k) = 1 THEN t.data ELSE tree_get(t.mid, Tail(k))

middle_child(t) == t.mid # NULL
has_child(t) == t.left # NULL \/ t.mid # NULL \/ t.right # NULL

(* The tree after the removal, and whether its root is to be freed by the  *)
(* caller, which only the node above a middle child does.  A missing child *)
(* is dereferenced: the key must be there.                                 *)
RECURSIVE remove_node(_, _)
remove_node(t, k) ==
    LET Kept(u)   == [tree |-> u, dead |-> FALSE]
        Ends(u)   == [tree |-> u, dead |-> u.data = NULL /\ ~has_child(u)]
        Below     == remove_node(t.mid, Tail(k))
    IN  CASE Head(k) < t.key -> Kept([t EXCEPT !.left  = remove_node(@, k).tree])
          [] Head(k) > t.key -> Kept([t EXCEPT !.right = remove_node(@, k).tree])
          [] Head(k) = t.key ->
                IF Len(k) = 1 THEN IF t.data = NULL THEN Kept(t) ELSE Ends([t EXCEPT !.data = NULL])
                ELSE IF Below.dead THEN Ends([t EXCEPT !.mid = NULL])
                ELSE Kept([t EXCEPT !.mid = Below.tree])

tree_remove(t, k) == remove_node(t, k).tree
=============================================================================
