------------------------------ MODULE Structures ------------------------------
(***************************************************************************)
(* The containers of data-structures/src/ under any sequence of legal      *)
(* calls: the min heap, the ternary search tree, the list, the queue, the  *)
(* stack, and the Huffman code on every short content.  "which" chooses    *)
(* the container a behaviour is about, so the state spaces add up instead  *)
(* of multiplying.  Each is shown to implement the abstract container its  *)
(* users take it for: PriorityQueue, StringMap, ElementSequence.           *)
(***************************************************************************)
EXTENDS HuffmanTree, TernarySearchTree, LinkedNodes

CONSTANTS Containers,   \* the containers checked
          Priorities,   \* the keys of the heap
          MaxInserts,   \* bound on the insertions into a heap
          Names,        \* the keys of the tree
          Values,       \* the elements of the tree and of the chains
          Alphabet,     \* the symbols of the contents
          MaxContent,   \* bound on the length of a content
          WordBits      \* the bits of a word of the code

ASSUME StructuresAssumption ==
    /\ Containers \subseteq {"heap", "tree", "list", "queue", "stack", "code"}
    /\ Priorities \subseteq Int /\ \A k \in Priorities : k <= INT_MAX
    /\ MaxInserts \in Nat /\ MaxContent \in Nat /\ WordBits \in Nat \ {0}
    /\ \A k \in Names : k # <<>>

VARIABLES
    which,      \* the container under test
    call,       \* the last call on it, with its arguments or its result
    heap,       \* the array of a min heap
    inserted,   \* history: the nodes put into the heap, in their order
    tree,       \* a ternary search tree
    chain,      \* a list, a queue or a stack
    content     \* the bytes to be encoded

vars == <<which, call, heap, inserted, tree, chain, content>>

Init ==
    /\ which \in Containers /\ call = <<>>
    /\ heap = <<>> /\ inserted = <<>>
    /\ tree = NULL
    /\ chain = chain_init
    /\ content = <<>>

Insert(key) ==
    /\ which = "heap" /\ Len(inserted) < MaxInserts
    /\ LET node == [data |-> Len(inserted) + 1, key |-> key]
       IN  /\ call' = <<"insert", node>>
           /\ heap' = heap_insert(heap, node.data, key)
           /\ inserted' = Append(inserted, node)
    /\ UNCHANGED <<which, tree, chain, content>>

ExtractMin ==
    /\ which = "heap" /\ heap # <<>>
    /\ call' = <<"extract_min", heap[1]>>
    /\ heap' = extract_min(heap)
    /\ UNCHANGED <<which, inserted, tree, chain, content>>

PutKey(k, v) ==
    /\ which = "tree"
    /\ call' = <<"put", k, v>>
    /\ tree' = tree_put(tree, k, v)
    /\ UNCHANGED <<which, heap, inserted, chain, content>>

(* Every caller removes a key it has just found. *)
RemoveKey(k) ==
    /\ which = "tree" /\ tree_get(tree, k) # NULL
    /\ call' = <<"remove", k>>
    /\ tree' = tree_remove(tree, k)
    /\ UNCHANGED <<which, heap, inserted, chain, content>>

ListInsert(v) == which = "list"  /\ call' = <<"insert", v>>  /\ chain' = list_insert(chain, v)
ListAppend(v) == which = "list"  /\ call' = <<"append", v>>  /\ chain' = list_append(chain, v)
StackPush(v)  == which = "stack" /\ call' = <<"push", v>>    /\ chain' = list_insert(chain, v)
Enqueue(v)    == which = "queue" /\ call' = <<"enqueue", v>> /\ chain' = enqueue(chain, v)

Grow(v) ==
    /\ free_nodes(chain) # {}
    /\ ListInsert(v) \/ ListAppend(v) \/ StackPush(v) \/ Enqueue(v)
    /\ UNCHANGED <<which, heap, inserted, tree, content>>

ListDelete(v) ==
    /\ which = "list"
    /\ call' = <<"delete", v>>
    /\ chain' = list_delete(chain, v)
    /\ UNCHANGED <<which, heap, inserted, tree, content>>

(* gnl_queue_dequeue, gnl_stack_pop *)
Pop ==
    /\ which \in {"queue", "stack"} /\ chain.front # NULL
    /\ call' = <<IF which = "queue" THEN "dequeue" ELSE "pop", chain.mem[chain.front].data>>
    /\ chain' = dequeue(chain)
    /\ UNCHANGED <<which, heap, inserted, tree, content>>

Extend(b) ==
    /\ which = "code" /\ Len(content) < MaxContent
    /\ content' = Append(content, b)
    /\ UNCHANGED <<which, call, heap, inserted, tree, chain>>

(* The container is destroyed and a new one made. *)
Destroy ==
    /\ call' = <<>>
    /\ heap' = <<>> /\ inserted' = <<>>
    /\ tree' = NULL
    /\ chain' = chain_destroy(chain)
    /\ content' = <<>>
    /\ UNCHANGED which

Next ==
    \/ \E key \in Priorities : Insert(key)
    \/ ExtractMin
    \/ \E k \in Names : RemoveKey(k) \/ \E v \in Values : PutKey(k, v)
    \/ \E v \in Values : Grow(v) \/ ListDelete(v)
    \/ Pop
    \/ \E b \in Alphabet : Extend(b)
    \/ Destroy

Spec == Init /\ [][Next]_vars

-----------------------------------------------------------------------------
(* Correctness *)

Queued == INSTANCE PriorityQueue WITH
            contents <- ToSet(heap), call <- IF which = "heap" THEN call ELSE <<>>

(* Whatever the order of insertions and extractions, the heap gives out a  *)
(* node of least key, and neither loses nor repeats one while              *)
(* min_heapify moves the last node down.                                   *)
HeapIsPriorityQueue == Queued!Spec

(* Until something is extracted, the root is the first inserted among the  *)
(* nodes of least key: the choice of a victim, made with one extraction    *)
(* from a heap filled in the order of the files' list, is that of SimFS.   *)
RootIsFirstInserted ==
    heap # <<>> /\ Len(heap) = Len(inserted) =>
        \A i \in DOMAIN inserted :
            \/ inserted[i].key > heap[1].key
            \/ inserted[i].key = heap[1].key /\ i >= heap[1].data

Mapped == INSTANCE StringMap WITH
            map <- [k \in Names |-> tree_get(tree, k)], Names <- Names, Values <- Values,
            call <- IF which = "tree" THEN call ELSE <<>>

(* A put or a removal of one name leaves the others as they were, although *)
(* names share the nodes of their prefixes and a removal frees nodes on    *)
(* its way back (remove_node's cases).                                     *)
TreeIsMap == Mapped!Spec

Sequenced == INSTANCE ElementSequence WITH
            contents <- Elements(chain), Values <- Values,
            call <- IF which \in {"list", "queue", "stack"} THEN call ELSE <<>>

(* The linked nodes behave as the sequence their users see, through every  *)
(* emptying and refilling.                                                 *)
ChainIsSequence == Sequenced!Spec

(* Every node allocated is reachable, once, and the size counts them; a    *)
(* queue's rear is its last node, or nothing when it is empty.             *)
NoNodeLeaks ==
    LET c == Cells(chain.mem, chain.front)
    IN  /\ ToSet(c) = DOMAIN chain.mem
        /\ chain.size = Cardinality(DOMAIN chain.mem)
        /\ which = "queue" => chain.rear = IF c = <<>> THEN NULL ELSE c[Len(c)]

Branches == \E i, j \in DOMAIN content : content[i] # content[j]

(* Decoding an artifact gives back the bytes it was made of, when they     *)
(* hold two different ones.                                                *)
DecodeInverts ==
    which = "code" /\ Branches => tree_decode(tree_encode(content, WordBits)) = content

(* The lengths of the codes of some prefix code (Kraft's inequality).      *)
PrefixLengths(S) ==
    LET n == Cardinality(S)
    IN  {f \in [S -> 1..n - 1] : SumFunction([b \in S |-> 2 ^ (n - f[b])]) <= 2 ^ n}

(* No prefix code has fewer bits: the heap really gave the two lightest    *)
(* trees at each join.                                                     *)
CodeIsOptimal ==
    which = "code" /\ Branches =>
        LET freq    == calculate_frequencies(content)
            Bits(f) == SumFunction([b \in DOMAIN freq |-> freq[b] * f[b]])
        IN  \A f \in PrefixLengths(DOMAIN freq) :
                Len(tree_encode(content, WordBits).code) <= Bits(f)

H == INSTANCE Huffman WITH Bytes <- {}, WordBits <- WordBits

(* The file system model's compression, Huffman.tla, is this code on       *)
(* contents of at most two symbols: the same size in words, and the same   *)
(* bytes back, which are none when all the bytes are equal.                *)
CodeIsHuffman ==
    which = "code" /\ content # <<>> /\ Cardinality(Symbols(content)) <= 2 =>
        LET a == tree_encode(content, WordBits)
        IN  a.size = H!encode_size(content) /\ tree_decode(a) = H!decode(content)
=============================================================================
