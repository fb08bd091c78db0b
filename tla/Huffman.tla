------------------------------- MODULE Huffman -------------------------------
(***************************************************************************)
(* The compression of file contents                                        *)
(* (data-structures/src/gnl_huffman_tree.c), as the file system uses it.   *)
(*                                                                         *)
(* An artifact is modelled by the bytes it was encoded from.  The code of  *)
(* every symbol of a two symbol content is one bit; a content of a single  *)
(* symbol has a tree of one node, whose code is the empty string, so its   *)
(* artifact holds no bit at all.  The size of an artifact counts the       *)
(* WordBits-bit words (int, 32 bits) the code was written into.  Alphabets *)
(* of at most two symbols keep the size exact.                             *)
(***************************************************************************)
EXTENDS Naturals, Sequences, FiniteSets

CONSTANTS Bytes, WordBits

ASSUME HuffmanAssumption ==
    /\ IsFiniteSet(Bytes)
    /\ Cardinality(Bytes) <= 2
    /\ WordBits \in Nat \ {0}

(* The tree has an inner node, that is two different symbols. *)
Branching(bytes) == \E i, j \in DOMAIN bytes : bytes[i] # bytes[j]

(* gnl_huffman_tree_encode fails on an empty content. *)
Encodable(bytes) == bytes # <<>>

encode_size(bytes) ==
    IF Branching(bytes) THEN (Len(bytes) + WordBits - 1) \div WordBits ELSE 0

(* What decoding gives back: nothing when the artifact holds no bit. *)
decode(bytes) == IF Branching(bytes) THEN bytes ELSE <<>>
=============================================================================
