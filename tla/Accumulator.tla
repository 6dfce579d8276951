---------------------------- MODULE Accumulator ----------------------------
(***************************************************************************)
(* What an implementation of the accumulator promises, whatever it keeps:  *)
(* a forest that is the binary decomposition of the number of leaves ever  *)
(* added, biggest tree first, from which leaves can be deleted.            *)
(*                                                                         *)
(* Trees, and what becomes of them, are those of module HashTrees.         *)
(* MemForest and Stump both implement this specification, and therefore    *)
(* agree with each other.                                                  *)
(***************************************************************************)
EXTENDS ForestPositions, HashTrees

CONSTANT MaxLeaves       \* bound: leaves ever added

VARIABLES roots, leaves

accVars == <<roots, leaves>>

-----------------------------------------------------------------------------
(***************************************************************************)
(* Where everything is: the <<position, hash>> pairs of all the nodes of a *)
(* forest, and the proof that some of its leaves are in it.                *)
(***************************************************************************)
Placed(t, pos, rows) ==
    LET placed[u \in Trees] == [p \in Nat |->
            {<<p, u>>} \cup
            (IF IsBranchHash(u)
             THEN placed[u[1]][LeftChild(p, rows)] \cup placed[u[2]][RightChild(p, rows)]
             ELSE {})]
    IN  placed[t][pos]

\* The rows that have a root, the highest first, as `roots` lists them.
RootRows(n) == Reverse(Ascending({r \in 0..TreeRows(n) : IsRootPopulated(r, n)}))

NodesOf(rs, n) ==
    UNION {Placed(rs[i], RootPosition(n, RootRows(n)[i], TreeRows(n)), TreeRows(n)) :
               i \in 1..Len(rs)}

PositionIn(nodes, h) == (CHOOSE p \in nodes : p[2] = h)[1]
HashIn(nodes, pos)   == (CHOOSE p \in nodes : p[1] = pos)[2]

\* Leaves in the order of their positions, as the forest sorts them.
InOrder(rs, n, D) ==
    LET nodes == NodesOf(rs, n)
        where == Ascending({PositionIn(nodes, h) : h \in D})
    IN  [i \in 1..Len(where) |-> HashIn(nodes, where[i])]

\* The next k leaves, as a block lists them.
NewLeaves(n, k) == [i \in 1..k |-> LeafHash(n + i)]

\* A proof whose targets are positions in the forest as high as it is, and
\* one to be sent to others.
ProofInPlace(rs, n, targets) ==
    LET nodes  == NodesOf(rs, n)
        where  == [i \in 1..Len(targets) |-> PositionIn(nodes, targets[i])]
        needed == GetProofPositions({where[i] : i \in 1..Len(targets)}, n, TreeRows(n))
    IN  [targets |-> where, hashes |-> [i \in 1..Len(needed) |-> HashIn(nodes, needed[i])]]

ProofOf(rs, n, targets) ==
    [ProofInPlace(rs, n, targets) EXCEPT
        !.targets = [i \in 1..Len(targets) |-> Translate(@[i], TreeRows(n), MaxForestRows)]]

\* A block of several leaves that finds an emptied tree in the forest.
BatchOverEmpty(rs, D, k) == k > 1 /\ Empty \in ToSet(Deletion(rs, D))

-----------------------------------------------------------------------------
AccInit == roots = <<>> /\ leaves = 0

\* One change of the set: the leaves of D go, then k new ones come.
Change(D, k) ==
    /\ leaves' = leaves + k
    /\ roots' = Addition(Deletion(roots, D), leaves, k)

AccNext ==
    \E k \in 0..(MaxLeaves - leaves) : \E D \in SUBSET Members(roots) : Change(D, k)

AccSpec == AccInit /\ [][AccNext]_accVars
=============================================================================
