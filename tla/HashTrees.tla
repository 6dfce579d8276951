----------------------------- MODULE HashTrees -----------------------------
(***************************************************************************)
(* Trees written as the hash of their root: a leaf hash, the pair of two   *)
(* trees, or Empty when all the leaves are gone; and what deleting and     *)
(* adding leaves makes of them (del_single and add_single of               *)
(* src/mem_forest/mod.rs, without the pointers).                           *)
(***************************************************************************)
EXTENDS Integers, Sequences, NodeHash

CONSTANT MaxHeight       \* bound: height of a tree

ASSUME MaxHeightAssumption == MaxHeight \in Nat

\* The hashes of leaves.
LeafTrees == [1..1 -> Nat]

\* The trees of a height up to h.
TreesUpTo[h \in Nat] ==
    {Empty} \cup LeafTrees \cup
    (IF h = 0 THEN {} ELSE LET lower == TreesUpTo[h - 1] IN lower \X lower)

Trees == TreesUpTo[MaxHeight]

LeafSets[t \in Trees] ==
    IF IsLeafHash(t) THEN {t}
    ELSE IF IsBranchHash(t) THEN LeafSets[t[1]] \cup LeafSets[t[2]]
    ELSE {}

LeavesOf(t) == LeafSets[t]

\* What remains of a pair whose other half is gone takes the pair's place.
Joined(l, r) == IF l = Empty THEN r ELSE IF r = Empty THEN l ELSE ParentHash(l, r)

\* A tree without the leaves of D.
Without(t, D) ==
    LET without[u \in Trees] ==
            IF IsBranchHash(u) THEN Joined(without[u[1]], without[u[2]])
            ELSE IF u \in D THEN Empty ELSE u
    IN  without[t]

Members(rs) == UNION {LeavesOf(rs[i]) : i \in 1..Len(rs)}

Deletion(rs, D) == [i \in 1..Len(rs) |-> Without(rs[i], D)]

TrailingOnes[n \in Nat] == IF n % 2 = 0 THEN 0 ELSE 1 + TrailingOnes[n \div 2]

(***************************************************************************)
(* A new tree t joins a forest of n leaves: it merges with the trees at    *)
(* the trailing one bits of n, the smallest first, and an empty one adds   *)
(* nothing.                                                                *)
(***************************************************************************)
JoinTree(rs, t, n) ==
    LET ones == TrailingOnes[n]
        merged[k \in 0..ones] == IF k = 0 THEN t ELSE Joined(rs[Len(rs) - k + 1], merged[k - 1])
    IN  Append(SubSeq(rs, 1, Len(rs) - ones), merged[ones])

\* The next k leaves, named by their number.
Addition(rs, n, k) ==
    LET grown[i \in 0..k] == IF i = 0 THEN rs ELSE JoinTree(grown[i - 1], LeafHash(n + i), n + i - 1)
    IN  grown[k]
=============================================================================
