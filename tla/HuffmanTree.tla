----------------------------- MODULE HuffmanTree -----------------------------
(***************************************************************************)
(* The Huffman code (data-structures/src/gnl_huffman_tree.c) for contents  *)
(* of any number of symbols, symbols being numbers: frequencies, the tree  *)
(* built with the min heap, the dictionary, encoding into words of         *)
(* WordBits bits and decoding.  Huffman.tla is what the file system needs  *)
(* of it; CodeIsHuffman shows that the two agree.                          *)
(*                                                                         *)
(* descend_only, heavier_tree and whole_words are faulty forms of the      *)
(* operators after them, that the runs must tell from the real ones.       *)
(***************************************************************************)
EXTENDS MinHeap, Pointers, FiniteSets, SequencesExt

Symbols(bytes) == ToSet(bytes)

calculate_frequencies(bytes) ==
    [b \in Symbols(bytes) |-> Cardinality({i \in DOMAIN bytes : bytes[i] = b})]

create_node(freq, b) == [freq |-> freq, byte |-> b, left |-> NULL, right |-> NULL]

is_leaf(node) == node.left = NULL /\ node.right = NULL

(* The leaves are inserted in ascending order of their symbols. *)
create_min_heap(freq) ==
    FoldLeft(LAMBDA h, b : heap_insert(h, create_node(freq[b], b), freq[b]),
             <<>>, SetToSortSeq(DOMAIN freq, <))

Joined(l, r) == [create_node(l.freq + r.freq, 0) EXCEPT !.left = l, !.right = r]

RECURSIVE heavier_tree(_)
heavier_tree(h) ==
    IF Len(h) = 1 THEN h[1].data
    ELSE LET node == Joined(h[1].data, h[Len(h)].data)
         IN  heavier_tree(heap_insert(Tail(Front(h)), node, node.freq))

RECURSIVE create_tree(_)
create_tree(h) ==
    IF Len(h) = 1 THEN h[1].data
    ELSE LET rest == extract_min(h)
             node == Joined(h[1].data, rest[1].data)
         IN  create_tree(heap_insert(extract_min(rest), node, node.freq))

(* The code of each symbol, as a set of pairs. *)
RECURSIVE create_dictionary(_, _)
create_dictionary(node, code) ==
    IF is_leaf(node) THEN {<<node.byte, code>>}
    ELSE create_dictionary(node.left, Append(code, 0))
            \cup create_dictionary(node.right, Append(code, 1))

CodeOf(dictionary, b) == (CHOOSE d \in dictionary : d[1] = b)[2]

tree_init(bytes) == create_tree(create_min_heap(calculate_frequencies(bytes)))

whole_words(bytes, wordbits) ==
    LET root == tree_init(bytes)
        bits == FlattenSeq([i \in DOMAIN bytes |-> CodeOf(create_dictionary(root, <<>>), bytes[i])])
    IN  [root |-> root, code |-> bits, size |-> Len(bits) \div wordbits]

(* The artifact: its tree, its bits, and the words they were written to,   *)
(* one more whenever the last one is full.                                 *)
tree_encode(bytes, wordbits) ==
    LET root == tree_init(bytes)
        dictionary == create_dictionary(root, <<>>)
        bits == FlattenSeq([i \in DOMAIN bytes |-> CodeOf(dictionary, bytes[i])])
    IN  [root |-> root, code |-> bits,
         size |-> Cardinality({i \in 0..Len(bits) - 1 : i % wordbits = 0})]

descend_only(s, bit, root) ==
    LET node == IF bit = 0 THEN s.node.left ELSE s.node.right
    IN  IF is_leaf(node) THEN [s EXCEPT !.out = Append(@, node.byte)]
        ELSE [s EXCEPT !.node = node]

(* One bit: down the tree, and back to the root at a leaf. *)
descend(s, bit, root) ==
    LET node == IF bit = 0 THEN s.node.left ELSE s.node.right
    IN  IF is_leaf(node) THEN [node |-> root, out |-> Append(s.out, node.byte)]
        ELSE [s EXCEPT !.node = node]

(* A code that ends inside the tree is invalid: NULL is the error. *)
tree_decode(a) ==
    LET end == FoldLeft(LAMBDA s, bit : descend(s, bit, a.root),
                        [node |-> a.root, out |-> <<>>], a.code)
    IN  IF end.node = a.root THEN end.out ELSE NULL
=============================================================================
