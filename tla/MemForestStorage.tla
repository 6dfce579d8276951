-------------------------- MODULE MemForestStorage --------------------------
(***************************************************************************)
(* A MemForest that is written out between calls and read back, in a new   *)
(* process: serialize, deserialize, Node::write_one and Node::read_one of  *)
(* src/mem_forest/mod.rs.  The file is a sequence of tokens: a number, the *)
(* tag of a hash, or the 32 bytes of one.                                  *)
(***************************************************************************)
EXTENDS MemForest

RECURSIVE ReadOne(_, _)

-----------------------------------------------------------------------------
\* Fault: the right subtree is written first.
WriteOneMirrored(n) ==
    LET write[m \in Nodes \cup {Nil}] ==
            IF m = Nil THEN <<>>
            ELSE <<IF heap[m].ty = "Leaf" THEN 1 ELSE 0>> \o WriteHash(data[m])
                     \o write[heap[m].right] \o write[heap[m].left]
    IN  write[n]

\* A node, then its subtrees, in this order.
WriteOne(n) ==
    LET write[m \in Nodes \cup {Nil}] ==
            IF m = Nil THEN <<>>
            ELSE <<IF heap[m].ty = "Leaf" THEN 1 ELSE 0>> \o WriteHash(data[m])
                     \o write[heap[m].left] \o write[heap[m].right]
    IN  write[n]

Serialize ==
    <<leaves, Len(roots)>> \o FlattenSeq([i \in 1..Len(roots) |-> WriteOne(roots[i])])

\* Reads one subtree into the heap of `st`: a leaf is indexed by its hash, a
\* branch that is not empty is followed by its two subtrees.
ReadOne(st, parent) ==
    LET n      == st.next
        isLeaf == Head(st.in) = 1
        hash   == ReadHash(Tail(st.in))
        blank  == IF isLeaf THEN LeafNode ELSE BranchNode
        here   == [in   |-> hash.rest,
                   next |-> n + 1,
                   heap |-> [st.heap EXCEPT ![n] = [blank EXCEPT !.parent = parent]],
                   data |-> [st.data EXCEPT ![n] = hash.hash],
                   map  |-> IF isLeaf THEN (hash.hash :> n) @@ st.map ELSE st.map]
        left   == ReadOne(here, n)
        right  == ReadOne(left, n)
    IN  IF isLeaf \/ IsEmpty(hash.hash) THEN here
        ELSE [right EXCEPT !.heap[n].left = here.next, !.heap[n].right = left.next]

Deserialize(in) ==
    LET Root(acc, i) ==
            [st |-> ReadOne(acc.st, Nil), roots |-> Append(acc.roots, acc.st.next)]
        blank == [in   |-> SubSeq(in, 3, Len(in)),
                  next |-> 1,
                  heap |-> [n \in Nodes |-> FreeNode],
                  data |-> [n \in Nodes |-> Empty],
                  map  |-> <<>>]
    IN  [leaves |-> in[1]] @@ FoldLeft(Root, [st |-> blank, roots |-> <<>>], [i \in 1..in[2] |-> i])

-----------------------------------------------------------------------------
\* The process ends between two calls; a new one reads the forest back.
Reload ==
    LET read == Deserialize(Serialize)
    IN  /\ pc = "idle"
        /\ roots' = read.roots
        /\ leaves' = read.leaves
        /\ map' = read.st.map
        /\ heap' = read.st.heap
        /\ data' = read.st.data
        /\ UNCHANGED call

StorageNext == Next \/ Reload

StorageSpec == Init /\ [][StorageNext]_vars

\* A call that has started goes on executing.
FairStorageSpec == StorageSpec /\ WF_vars(Step)
=============================================================================
