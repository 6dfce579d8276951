----------------------------- MODULE MemForest -----------------------------
(***************************************************************************)
(* The full in-memory accumulator (src/mem_forest/mod.rs): a forest of     *)
(* perfect-shaped binary trees of reference-counted nodes.                 *)
(*                                                                         *)
(* A node owns its children and refers weakly to its parent; the forest    *)
(* owns the roots and maps each leaf hash, weakly, to its node.  `heap`    *)
(* holds the pointers of every allocated node and `data` its hash; a node  *)
(* whose last owner goes is freed at once, as Rc does.                     *)
(*                                                                         *)
(* modify is one call that deletes, then adds.  Its loops (one deletion,   *)
(* one level of rehashing, one merge with an older tree) are the steps of  *)
(* this specification, in the order in which the code takes them; `pc`     *)
(* says where the call is, and the forest is between calls when it is      *)
(* "idle".                                                                 *)
(***************************************************************************)
EXTENDS ForestPositions, TLC

CONSTANTS
    MaxLeaves,  \* bound: leaves ever added
    AddSizes,   \* bound: how many leaves one call may add
    MaxDels,    \* bound: targets deleted by one call
    MaxNodes    \* bound: nodes allocated at the same time

ASSUME BoundsAssumption ==
    /\ MaxLeaves \in Nat
    /\ AddSizes \subseteq Nat
    /\ MaxDels \in Nat
    /\ MaxNodes \in Nat

\* A forest has fewer than MaxForestRows rows: at MaxForestRows the code's
\* masks and shifts over its rows overflow the word.
ASSUME PositionsAssumption == MaxLeaves <= 2^(MaxForestRows - 1)

VARIABLES
    roots,      \* Vec<Rc<Node>>: the biggest tree first
    leaves,     \* number of leaves ever added
    map,        \* leaf hash -> node, of the leaves that are present
    heap,       \* node -> type and pointers
    data,       \* node -> hash
    pc,         \* the loop modify is in
    todo,       \* hashes still to delete, by position
    toAdd,      \* number of leaves still to add
    node,       \* the node the current loop is at
    carry,      \* what add_single has left of the number of leaves
    result      \* outcome of the last modify

forest  == <<roots, leaves, map, heap, data>>
call    == <<pc, todo, toAdd, node, carry, result>>
vars    == <<forest, call>>

-----------------------------------------------------------------------------
CountOnes[n \in Nat] == IF n = 0 THEN 0 ELSE (n % 2) + CountOnes[n \div 2]    \* u64::count_ones

Nodes == 1..MaxNodes
Nil   == 0

FreeNode   == [ty |-> "Free",   parent |-> Nil, left |-> Nil, right |-> Nil]
LeafNode   == [ty |-> "Leaf",   parent |-> Nil, left |-> Nil, right |-> Nil]
BranchNode == [ty |-> "Branch", parent |-> Nil, left |-> Nil, right |-> Nil]

\* Fault: the child keeps its old parent pointer.
ParentKept(n, p) == n

\* A node with one of its pointers changed.
WithParent(n, p) == [ty |-> n.ty, parent |-> p, left |-> n.left, right |-> n.right]
WithLeft(n, c)   == [ty |-> n.ty, parent |-> n.parent, left |-> c, right |-> n.right]
WithRight(n, c)  == [ty |-> n.ty, parent |-> n.parent, left |-> n.left, right |-> c]

Live == {n \in Nodes : heap[n].ty # "Free"}

\* Where Rc::new puts the next node: after the allocated ones, so that the
\* names of a forest's nodes do not depend on everything that ever happened.
Fresh == {n \in Nodes : n - 1 \in Live \cup {Nil} /\ \A m \in Live : m < n}

\* Fault: the last owner goes and the node stays.
FreeNothing(h, S) == h

Free(h, S) == [n \in Nodes |-> IF n \in S THEN FreeNode ELSE h[n]]

\* self.roots.iter().position(|x| x.data == h).unwrap()
RootIndex(h) == CHOOSE i \in 1..Len(roots) :
                    /\ data[roots[i]] = h
                    /\ \A j \in 1..(i - 1) : data[roots[j]] # h

\* Fault: left and right are mixed up.
IsRightChild(n) == data[heap[heap[n].parent].right] = data[n]

\* The code asks "am I the left child?" by comparing hashes, not nodes.
IsLeftChild(n) == data[heap[heap[n].parent].left] = data[n]

-----------------------------------------------------------------------------
(***************************************************************************)
(* get_pos: climb from a node to its root remembering the turns, find the  *)
(* root's row by its hash, and walk the position back down.                *)
(***************************************************************************)
\* Index in `roots` of the tree at a populated row: the last root is the lowest.
RootAtRow(row) == Len(roots) - Cardinality({r \in 0..(row - 1) : IsRootPopulated(r, leaves)})

RootRow(n) ==
    CHOOSE row \in 0..TreeRows(leaves) :
        LET Matches(r) == IsRootPopulated(r, leaves) /\ data[roots[RootAtRow(r)]] = data[n]
        IN  Matches(row) /\ \A r \in 0..(row - 1) : ~ Matches(r)

GetPos(n) ==
    LET rows == TreeRows(leaves)
        pos[m \in Live] ==
            IF heap[m].parent = Nil THEN RootPosition(leaves, RootRow(m), rows)
            ELSE IF IsLeftChild(m) THEN LeftChild(pos[heap[m].parent], rows)
            ELSE RightChild(pos[heap[m].parent], rows)
    IN  pos[n]

(***************************************************************************)
(* grab_node: walk from the roots down to a position.  Besides the node it *)
(* returns what it calls the sibling and the parent.                       *)
(***************************************************************************)
GrabNiece(g, nieceIsLeft) ==
    IF nieceIsLeft
    THEN [node |-> heap[g.node].right, sibling |-> heap[g.node].left,  parent |-> g.sibling]
    ELSE [node |-> heap[g.node].left,  sibling |-> heap[g.node].right, parent |-> g.sibling]

GrabNode(pos) ==
    LET offset == DetectOffset(pos, leaves)
        root   == roots[offset.tree + 1]
        down[k \in 0..offset.branchLen] ==
            IF k = 0 THEN [node |-> root, sibling |-> root, parent |-> root]
            ELSE GrabNiece(down[k - 1], IsLeftNiece(Bit(offset.bits, offset.branchLen - k)))
    IN  down[offset.branchLen]

\* Fault: the hash next to the one asked for.
GetSiblingHash(pos) == data[GrabNode(pos).sibling]

GetHash(pos) == data[GrabNode(pos).node]

(***************************************************************************)
(* prove: the targets in the caller's order, as positions of a forest with *)
(* MaxForestRows rows, and the hashes the verifier cannot compute.         *)
(***************************************************************************)
Prove(targets) ==
    LET rows == TreeRows(leaves)
        positions == [i \in 1..Len(targets) |-> GetPos(map[targets[i]])]
        needed == GetProofPositions({positions[i] : i \in 1..Len(targets)}, leaves, rows)
    IN  [targets |-> [i \in 1..Len(targets) |-> Translate(positions[i], rows, MaxForestRows)],
         hashes  |-> [i \in 1..Len(needed) |-> GetHash(needed[i])]]

Roots == [i \in 1..Len(roots) |-> data[roots[i]]]       \* get_roots, their data

-----------------------------------------------------------------------------
Init ==
    /\ roots = <<>>
    /\ leaves = 0
    /\ map = <<>>
    /\ heap = [n \in Nodes |-> FreeNode]
    /\ data = [n \in Nodes |-> Empty]
    /\ pc = "idle"
    /\ todo = <<>>
    /\ toAdd = 0
    /\ node = Nil
    /\ carry = 0
    /\ result = "None"

(***************************************************************************)
(* modify(add, del), and del's first loop: every target is looked up, and  *)
(* the list is sorted by position.  The same hash may be listed twice.     *)
(***************************************************************************)
Modify ==
    \E adds \in AddSizes, dels \in 0..MaxDels :
    \E targets \in [1..dels -> DOMAIN map] :
        /\ pc = "idle"
        /\ leaves + adds <= MaxLeaves
        /\ \A i, j \in 1..dels : i < j => GetPos(map[targets[i]]) <= GetPos(map[targets[j]])
        /\ todo' = targets
        /\ toAdd' = adds
        /\ pc' = "del"
        /\ UNCHANGED <<forest, node, carry, result>>

\* A target that is not in the map: an error before anything changes.
ModifyUnknownTarget ==
    /\ pc = "idle"
    /\ result' = "Err"
    /\ UNCHANGED <<forest, pc, todo, toAdd, node, carry>>

-----------------------------------------------------------------------------
(***************************************************************************)
(* del, second loop, and del_single.                                       *)
(***************************************************************************)
NextTarget(h) ==
    /\ pc = "del"
    /\ todo # <<>>
    /\ h = Head(todo)

\* Fault: the deletion loop goes on with the next target.
TargetSkipped ==
    /\ NextTarget(Head(todo))
    /\ Head(todo) \notin DOMAIN map
    /\ todo' = Tail(todo)
    /\ UNCHANGED <<forest, pc, toAdd, node, carry, result>>

\* The target has been removed already: the rest of the call is abandoned.
TargetGone ==
    /\ NextTarget(Head(todo))
    /\ Head(todo) \notin DOMAIN map
    /\ pc' = "idle"
    /\ todo' = <<>>
    /\ toAdd' = 0
    /\ result' = "Err"
    /\ UNCHANGED <<forest, node, carry>>

\* Fault: the deleted leaf stays in the map.
TakeTargetKeepsEntry(h) ==
    /\ NextTarget(h)
    /\ h \in DOMAIN map
    /\ todo' = Tail(todo)
    /\ UNCHANGED <<leaves, map, toAdd, carry, result>>

TakeTarget(h) ==
    /\ NextTarget(h)
    /\ h \in DOMAIN map
    /\ map' = [k \in DOMAIN map \ {h} |-> map[k]]
    /\ todo' = Tail(todo)
    /\ UNCHANGED <<leaves, toAdd, carry, result>>

\* A root is deleted: an empty branch takes its place.
DelRoot ==
    \E h \in DOMAIN map, e \in Fresh :
        /\ TakeTarget(h)
        /\ heap[map[h]].parent = Nil
        /\ roots' = [roots EXCEPT ![RootIndex(data[map[h]])] = e]
        /\ heap' = [Free(heap, {map[h]}) EXCEPT ![e] = BranchNode]
        /\ data' = [data EXCEPT ![map[h]] = Empty, ![e] = Empty]
        /\ UNCHANGED <<pc, node>>

Kin(x) ==   \* the nodes del_single looks at
    LET p == heap[x].parent
    IN  [parent |-> p,
         sibling |-> IF data[heap[p].left] = data[x] THEN heap[p].right ELSE heap[p].left,
         grandparent |-> heap[p].parent]

\* A child of a root is deleted: its sibling becomes the root.
DelRootChild ==
    \E h \in DOMAIN map :
        LET x == map[h]
            p == Kin(x).parent
            s == Kin(x).sibling
        IN  /\ TakeTarget(h)
            /\ heap[x].parent \in Live
            /\ Kin(x).grandparent = Nil
            /\ roots' = [roots EXCEPT ![RootIndex(data[p])] = s]
            /\ heap' = [Free(heap, {x, p}) EXCEPT ![s] = WithParent(@, Nil)]
            /\ data' = [data EXCEPT ![x] = Empty, ![p] = Empty]
            /\ UNCHANGED <<pc, node>>

\* Deeper down the sibling takes its parent's place under the grandparent,
\* and rehashing starts at the sibling.
DelInner ==
    \E h \in DOMAIN map :
        LET x == map[h]
            p == Kin(x).parent
            s == Kin(x).sibling
            g == Kin(x).grandparent
        IN  /\ TakeTarget(h)
            /\ heap[x].parent \in Live
            /\ g \in Live
            /\ heap' = [Free(heap, {x, p}) EXCEPT
                            ![s] = WithParent(@, g),
                            ![g] = IF data[heap[g].left] = data[p]
                                   THEN WithLeft(@, s) ELSE WithRight(@, s)]
            /\ data' = [data EXCEPT ![x] = Empty, ![p] = Empty]
            /\ pc' = "hash"
            /\ node' = s
            /\ UNCHANGED roots

\* What recompute_hashes makes of a node's hash, and two faults in it.
RehashedSwapped(n) ==
    IF heap[n].left # Nil /\ heap[n].right # Nil
    THEN ParentHash(data[heap[n].right], data[heap[n].left]) ELSE data[n]

NotRehashed(n) == data[n]

Rehashed(n) ==
    IF heap[n].left # Nil /\ heap[n].right # Nil
    THEN ParentHash(data[heap[n].left], data[heap[n].right]) ELSE data[n]

\* Fault: the loop does not climb.
RecomputeHashStays ==
    /\ pc = "hash"
    /\ data' = [data EXCEPT ![node] = Rehashed(node)]
    /\ pc' = IF heap[node].parent = Nil THEN "del" ELSE "hash"
    /\ UNCHANGED <<roots, leaves, map, heap, todo, toAdd, node, carry, result>>

\* recompute_hashes, one level: rehash this node, go on with its parent.
RecomputeHash ==
    /\ pc = "hash"
    /\ data' = [data EXCEPT ![node] = Rehashed(node)]
    /\ node' = heap[node].parent
    /\ pc' = IF heap[node].parent = Nil THEN "del" ELSE "hash"
    /\ UNCHANGED <<roots, leaves, map, heap, todo, toAdd, carry, result>>

Deleted ==
    /\ pc = "del"
    /\ todo = <<>>
    /\ pc' = "add"
    /\ UNCHANGED <<forest, todo, toAdd, node, carry, result>>

-----------------------------------------------------------------------------
(***************************************************************************)
(* add and add_single.                                                     *)
(***************************************************************************)
NewLeaf ==
    \E x \in Fresh :
        /\ pc = "add"
        /\ toAdd > 0
        /\ heap' = [heap EXCEPT ![x] = LeafNode]
        /\ data' = [data EXCEPT ![x] = LeafHash(leaves + 1)]
        /\ map' = [h \in DOMAIN map \cup {LeafHash(leaves + 1)} |->
                       IF h = LeafHash(leaves + 1) THEN x ELSE map[h]]
        /\ node' = x
        /\ carry' = leaves
        /\ toAdd' = toAdd - 1
        /\ pc' = "merge"
        /\ UNCHANGED <<roots, leaves, todo, result>>

\* Fault: the root is looked at and left where it is.
PeekRoot ==
    /\ pc = "merge"
    /\ carry % 2 = 1
    /\ carry' = carry \div 2
    /\ UNCHANGED <<roots, leaves, map, pc, todo, toAdd, result>>

PopRoot ==      \* while leaves & 1 != 0 { let root = self.roots.pop().unwrap(); ... }
    /\ pc = "merge"
    /\ carry % 2 = 1
    /\ roots' = SubSeq(roots, 1, Len(roots) - 1)
    /\ carry' = carry \div 2
    /\ UNCHANGED <<leaves, map, pc, todo, toAdd, result>>

\* Fault: the biggest tree is taken instead of the smallest.
FirstRoot == roots[1]

LastRoot == roots[Len(roots)]

SkipEmptyRoot ==
    /\ PopRoot
    /\ data[LastRoot] = Empty
    /\ heap' = Free(heap, {LastRoot})
    /\ UNCHANGED <<data, node>>

MergeRoot ==
    \E b \in Fresh :
        /\ PopRoot
        /\ data[LastRoot] # Empty
        /\ heap' = [heap EXCEPT
                        ![b] = WithRight(WithLeft(BranchNode, LastRoot), node),
                        ![LastRoot] = WithParent(@, b),
                        ![node] = WithParent(@, b)]
        /\ data' = [data EXCEPT ![b] = ParentHash(data[LastRoot], data[node])]
        /\ node' = b

PushRoot ==
    /\ pc = "merge"
    /\ carry % 2 = 0
    /\ roots' = Append(roots, node)
    /\ leaves' = leaves + 1
    /\ node' = Nil
    /\ carry' = 0
    /\ pc' = "add"
    /\ UNCHANGED <<map, heap, data, todo, toAdd, result>>

Return ==
    /\ pc = "add"
    /\ toAdd = 0
    /\ pc' = "idle"
    /\ result' = "Ok"
    /\ UNCHANGED <<forest, todo, toAdd, node, carry>>

-----------------------------------------------------------------------------
\* The steps of a call under way.
Step ==
    \/ TargetGone \/ DelRoot \/ DelRootChild \/ DelInner \/ RecomputeHash \/ Deleted
    \/ NewLeaf \/ SkipEmptyRoot \/ MergeRoot \/ PushRoot \/ Return

Next == Modify \/ ModifyUnknownTarget \/ Step

Spec == Init /\ [][Next]_vars

-----------------------------------------------------------------------------
(***************************************************************************)
(* Invariants.                                                             *)
(***************************************************************************)
LeafHashes(n) == {LeafHash(i) : i \in 1..n}

\* Leaves whose node exists; the last one may not have reached the roots yet.
LeavesMade == IF pc = "merge" THEN leaves + 1 ELSE leaves

NodeRecords == [ty : {"Free", "Leaf", "Branch"}, parent : Nodes \cup {Nil},
                left : Nodes \cup {Nil}, right : Nodes \cup {Nil}]

TypeOK ==
    /\ leaves \in Nat
    /\ toAdd \in Nat
    /\ LeavesMade + toAdd <= MaxLeaves
    /\ roots \in Seq(Nodes)
    /\ DOMAIN map \subseteq LeafHashes(LeavesMade)
    /\ map \in [DOMAIN map -> Nodes]
    /\ heap \in [Nodes -> NodeRecords]
    /\ data = [n \in Nodes |-> data[n]]
    /\ pc \in {"idle", "del", "hash", "add", "merge"}
    /\ todo \in Seq(LeafHashes(MaxLeaves))
    /\ node \in Nodes \cup {Nil}
    /\ carry \in 0..leaves
    /\ result \in {"None", "Ok", "Err"}

\* roots.pop().unwrap() in add_single always has a root to take: between
\* additions there is one root per one bit of `leaves`, and during one there
\* is a root for every one bit of the carry that is left.
RootsMatchLeafCount ==
    IF pc = "merge"
    THEN /\ Len(roots) = CountOnes[carry]
         /\ CountOnes[carry + 1] = CountOnes[leaves + 1]
    ELSE Len(roots) = CountOnes[leaves]

HasChildren(n) == heap[n].left # Nil

Linked(n) ==
    /\ heap[n].parent # Nil =>
           /\ heap[n].parent \in Live
           /\ n \in {heap[heap[n].parent].left, heap[heap[n].parent].right}
           /\ n < heap[n].parent
    /\ heap[n].left # Nil <=> heap[n].right # Nil
    /\ HasChildren(n) =>
           /\ heap[n].ty = "Branch"
           /\ heap[n].left # heap[n].right
           /\ \A c \in {heap[n].left, heap[n].right} : c \in Live /\ heap[c].parent = n

\* Parent and child pointers mirror each other, a branch has two children or
\* none, and a parent is younger than its children: the pointers form trees.
PointersAgree == \A n \in Live : Linked(n)

\* The nodes without a parent are the roots, listed once each, and the tree
\* that is being merged in.
RootsAreTheTops ==
    /\ \A i \in 1..Len(roots) : roots[i] \in Live /\ heap[roots[i]].parent = Nil
    /\ \A i, j \in 1..Len(roots) : roots[i] = roots[j] => i = j
    /\ pc = "merge" => /\ node \in Live
                       /\ heap[node].parent = Nil
                       /\ \A i \in 1..Len(roots) : roots[i] # node
    /\ pc = "hash" => node \in Live
    /\ \A n \in Live : heap[n].parent = Nil =>
           \/ \E i \in 1..Len(roots) : roots[i] = n
           \/ pc = "merge" /\ n = node

\* The map indexes exactly the leaves that are present: no entry dangles,
\* and no leaf in a tree is unknown to the map.
MapIsTheLeaves ==
    /\ \A h \in DOMAIN map :
           map[h] \in Live /\ heap[map[h]].ty = "Leaf" /\ data[map[h]] = h
    /\ \A n \in Live : heap[n].ty = "Leaf" => data[n] \in DOMAIN map /\ map[data[n]] = n

\* Only a branch without children has the empty hash, and it is a root.
EmptyMeansDeletedTree ==
    \A n \in Live : heap[n].ty = "Branch" =>
        IF HasChildren(n) THEN IsBranchHash(data[n])
        ELSE data[n] = Empty /\ \E i \in 1..Len(roots) : roots[i] = n

\* Two nodes never have the same hash, so that telling a left child from a
\* right one, or finding a root, by comparing hashes is right.
HashesIdentifyNodes ==
    \A m, n \in Live : data[m] = data[n] /\ data[m] # Empty => m = n

Hashed(n) == HasChildren(n) => data[n] = ParentHash(data[heap[n].left], data[heap[n].right])

\* Every hash is the hash of its children's, but for the one node that
\* recompute_hashes has still to get to.
HashesCommit ==
    IF pc = "hash"
    THEN /\ \A n \in Live \ {node, heap[node].parent} : Hashed(n)
         /\ heap[node].parent # Nil => Hashed(node) \/ Hashed(heap[node].parent)
    ELSE \A n \in Live : Hashed(n)

Inv ==
    /\ TypeOK
    /\ RootsMatchLeafCount
    /\ PointersAgree
    /\ RootsAreTheTops
    /\ MapIsTheLeaves
    /\ EmptyMeansDeletedTree
    /\ HashesIdentifyNodes
    /\ HashesCommit

-----------------------------------------------------------------------------
(***************************************************************************)
(* Who owns a node: the forest, the call under way, or another node.       *)
(***************************************************************************)
Owned(n) == {heap[n].left, heap[n].right} \ {Nil}

Held == {roots[i] : i \in 1..Len(roots)} \cup (IF pc = "merge" THEN {node} ELSE {})

\* What the owners hold, directly or not.
Reachable ==
    LET down[k \in 0..MaxNodes] ==
            IF k = 0 THEN Held
            ELSE LET above == down[k - 1] IN above \cup UNION {Owned(n) : n \in above}
    IN  down[MaxNodes]

\* Every node is owned as long as it is allocated: deletions free exactly
\* the deleted leaf and the parent it leaves without a purpose, and nothing
\* that is still owned is freed.
NothingLeaks == Live = Reachable

-----------------------------------------------------------------------------
\* The two ways through the forest agree: the position found by climbing
\* from a leaf leads grab_node, from the roots down, back to that leaf and
\* its sibling.
PositionsLeadBack ==
    pc \in {"idle", "add"} =>
        \A h \in DOMAIN map :
            LET g == GrabNode(GetPos(map[h]))
            IN  /\ g.node = map[h]
                /\ heap[map[h]].parent # Nil =>
                       {g.node, g.sibling} = Owned(heap[map[h]].parent)

-----------------------------------------------------------------------------
(***************************************************************************)
(* The trees, read off the pointers and the leaves and not off the hashes  *)
(* of the branches.                                                        *)
(***************************************************************************)
TreesIn(hp, d) ==
    LET tree[n \in Nodes] ==
            IF hp[n].ty = "Leaf" THEN d[n]
            ELSE IF hp[n].ty = "Branch" /\ hp[n].left # Nil
                 THEN ParentHash(tree[hp[n].left], tree[hp[n].right])
            ELSE Empty
    IN  tree

TreeAt == TreesIn(heap, data)

RootTrees == LET tree == TreeAt IN [i \in 1..Len(roots) |-> tree[roots[i]]]

\* The hashes of the roots commit to the trees below them, also between the
\* deletions and the additions of a call.
RootHashesCommit == pc \notin {"hash", "merge"} => Roots = RootTrees

Tree == INSTANCE HashTrees WITH MaxHeight <- MaxNodes

\* A leaf counts as added when its node is created: what the merges still to
\* come will make of it is already settled.
Abstract == INSTANCE Accumulator WITH
    MaxHeight <- MaxNodes,
    roots  <- IF pc = "merge" THEN Tree!JoinTree(RootTrees, TreeAt[node], carry) ELSE RootTrees,
    leaves <- LeavesMade

\* The pointer forest implements the abstract accumulator: a deletion takes
\* one leaf out of the forest and an addition merges one leaf in.
ImplementsAccumulator == Abstract!AccSpec

-----------------------------------------------------------------------------
\* The leaves that are in the trees, read off the nodes and not off the map.
Present == {data[n] : n \in {m \in Live : heap[m].ty = "Leaf"}}

Contract == INSTANCE LeafSet WITH
    members <- Present, added <- LeavesMade, asked <- todo, growth <- toAdd, answer <- result

\* modify keeps its promise about the set of leaves: no step of a call, not
\* even of a rehash or a merge, takes a leaf that is not the next target out
\* of the trees, brings one back, or adds one before the deletions are done;
\* an abandoned call adds nothing, and Ok is only ever said of a call that
\* was carried out to the end.
ImplementsLeafSet == Contract!Spec
=============================================================================
