------------------------- MODULE MCForestPositions -------------------------
(***************************************************************************)
(* Position arithmetic checked against the geometry of the forest.         *)
(*                                                                         *)
(* One node is followed through a life of the forest.  The reference knows *)
(* it by its row and its offset in that row; `pos` is computed with the    *)
(* operators of ForestPositions alone, step after step.                    *)
(***************************************************************************)
EXTENDS ForestPositions

CONSTANT MaxLeaves      \* bound on the number of leaves

\* The forest has fewer than MaxForestRows rows: at MaxForestRows the code's
\* masks and shifts over its rows overflow the word.
ASSUME MaxLeavesAssumption == MaxLeaves \in Nat /\ MaxLeaves <= 2^(MaxForestRows - 1)

VARIABLES n, row, off, pos

vars == <<n, row, off, pos>>

rows == TreeRows(n)

-----------------------------------------------------------------------------
\* Reference geometry: the subtree of `row` and `off` covers the leaf slots
\* off * 2^row .. (off + 1) * 2^row - 1.
Start[r \in 0..rows] == IF r = 0 THEN 0 ELSE Start[r - 1] + 2^(rows - (r - 1))
InForest(r, o)   == (o + 1) * 2^r <= n
IsRoot(r, o)     == InForest(r, o) /\ ~ InForest(r + 1, o \div 2)
RootRow          == CHOOSE r \in 0..rows : r >= row /\ IsRoot(r, off \div 2^(r - row))

Init == n = 1 /\ row = 0 /\ off = 0 /\ pos = 0

\* Add a leaf (the positions above row 0 move when the forest gets a row).
AddLeaf ==
    /\ n < MaxLeaves
    /\ n' = n + 1
    /\ pos' = Translate(pos, TreeRows(n), TreeRows(n + 1))
    /\ UNCHANGED <<row, off>>

Climb ==
    /\ ~ IsRootPosition(pos, n, rows)
    /\ pos' = Parent(pos, rows)
    /\ row' = row + 1
    /\ off' = off \div 2
    /\ UNCHANGED n

Descend ==
    /\ row > 0
    /\ \/ pos' = LeftChild(pos, rows)  /\ off' = 2 * off
       \/ pos' = RightChild(pos, rows) /\ off' = 2 * off + 1
    /\ row' = row - 1
    /\ UNCHANGED n

SwitchToSibling ==
    /\ ~ IsRootPosition(pos, n, rows)
    /\ pos' = Sibling(pos)
    /\ off' = IF off % 2 = 0 THEN off + 1 ELSE off - 1
    /\ UNCHANGED <<n, row>>

NextTree ==     \* the same row of the next tree, where it has that row
    /\ InForest(row, off + 1)
    /\ pos' = pos + 1
    /\ off' = off + 1
    /\ UNCHANGED <<n, row>>

\* The subtree next to the ancestor d rows up is deleted: bit d of the
\* offset goes and the node rises one row.  Left out: a d for which the masks
\* of remove_bit overflow their 32 bits (RemoveBitLosesTheTop says to what).
SiblingDeleted ==
    \E d \in 0..(RootRow - row - 1) :
        /\ MasksFit(d)
        /\ pos' = CalcNextPos(pos, Sibling(ParentMany(pos, d, rows)), rows)
        /\ row' = row + 1
        /\ off' = (off \div 2^(d + 1)) * 2^d + (off % (2^d))
        /\ UNCHANGED n

Next == AddLeaf \/ Climb \/ Descend \/ SwitchToSibling \/ NextTree \/ SiblingDeleted

Spec == Init /\ [][Next]_vars

-----------------------------------------------------------------------------
\* Whatever mixture of growth, moves and deletions led here, the arithmetic
\* of parent, children, translate and calc_next_pos has kept the position of
\* the node it follows, and detect_row reads its row back.
PositionTracksNode ==
    /\ pos = Start[row] + off
    /\ DetectRow(pos, rows) = row
    /\ StartPositionAtRow(row, rows) = Start[row]

\* is_root_position says root exactly of the nodes whose parent would cover
\* leaf slots the forest has not filled, and root_position finds them.
RootPositionsMatchForest ==
    /\ IsRootPosition(pos, n, rows) <=> IsRoot(row, off)
    /\ NumRoots(n) = Cardinality({r \in 0..rows : \E o \in 0..n : IsRoot(r, o)})
    /\ \A r \in 0..rows : \A o \in 0..n :
            IsRoot(r, o) => RootPosition(n, r, rows) = Start[r] + o

\* detect_offset, which navigates from the roots down, arrives at the node
\* the position belongs to: the right tree, the right depth, and at each
\* level a turn that is the complement of the path (grab_node descends
\* through nieces).
OffsetLeadsToNode ==
    LET d == DetectOffset(pos, n)
    IN  /\ d.tree = Cardinality({r \in (RootRow + 1)..rows : IsRootPopulated(r, n)})
        /\ d.branchLen = RootRow - row
        /\ \A k \in 0..(d.branchLen - 1) : Bit(d.bits, k) = 1 - Bit(off, k)

\* is_ancestor recognises the proper ancestors of the node inside the forest
\* and no other position.
AncestorsAreThePathUp ==
    \A r \in 0..rows : \A o \in 0..n :
        InForest(r, o) =>
            (IsAncestor(Start[r] + o, pos, rows) <=> r > row /\ o = off \div 2^(r - row))

\* The position told to other parties (translated to MaxForestRows rows)
\* never changes because the forest grows, and can always be read back.
SharedPositionIsStable ==
    [][ n' # n =>
          LET shared == Translate(pos, rows, MaxForestRows)
          IN  /\ Translate(pos, rows, MaxForestRows)' = shared
              /\ Translate(shared, MaxForestRows, rows') = pos' ]_vars
=============================================================================
