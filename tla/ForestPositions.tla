-------------------------- MODULE ForestPositions --------------------------
(***************************************************************************)
(* Position arithmetic of the forest (src/util/mod.rs).                    *)
(*                                                                         *)
(* A forest of n leaves is drawn in TreeRows(n) + 1 rows.  Row 0 has       *)
(* 2^rows slots numbered from 0, row 1 has half as many, numbered from     *)
(* 2^rows, and so on: the top slot is 2^(rows+1) - 2.  Positions sent to   *)
(* other parties are those of a forest with MaxForestRows rows.            *)
(*                                                                         *)
(* Shifts and masks are written with \div, % and powers of two.  Words     *)
(* have MaxForestRows + 1 bits: 64 in the code, where MAX_FOREST_ROWS is   *)
(* 63.  Where arithmetic overflows the modules follow a build without      *)
(* overflow checks; one with them stops there.                             *)
(***************************************************************************)
EXTENDS Integers, Sequences, FiniteSets, SequencesExt, NodeHash

CONSTANTS
    MaxForestRows,      \* MAX_FOREST_ROWS
    LiteralBits         \* width of an integer literal nothing gives a type: i32

ASSUME MaxForestRowsAssumption == MaxForestRows \in Nat \ {0}
ASSUME LiteralBitsAssumption == LiteralBits \in Nat \ {0, 1}

Width  == MaxForestRows + 1
\* Fault: the mask is one too large.
OneTooMany == 2^Width

U64Max == 2^Width - 1

Bit(x, k) == (x \div 2^k) % 2

-----------------------------------------------------------------------------
(***************************************************************************)
(* Rows and their first positions.                                         *)
(***************************************************************************)
TreeRows(n) == IF n = 0 THEN 0 ELSE CHOOSE r \in 0..Width :
                                        /\ 2^r >= n
                                        /\ \A q \in 0..(r - 1) : 2^q < n

NumRoots(n) == Cardinality({k \in 0..MaxForestRows : Bit(n, k) = 1})

\* Fault: the row above is looked at.
IsRootPopulatedAbove(row, n) == Bit(n, row + 1) = 1

IsRootPopulated(row, n) == Bit(n, row) = 1

\* The marker walks down from bit `rows` while the position has it set.
DetectRow(pos, rows) ==
    CHOOSE h \in 0..(rows + 1) :
        /\ h <= rows => Bit(pos, rows - h) = 0
        /\ \A g \in 0..(h - 1) : Bit(pos, rows - g) = 1

StartPositionAtRow(row, rows) == (2^(rows + 1) - 2^((rows + 1) - row)) % (2^Width)

-----------------------------------------------------------------------------
(***************************************************************************)
(* Moving between a node, its sibling, its parent and its children.        *)
(***************************************************************************)
IsLeftNiece(pos)  == pos % 2 = 0
LeftSibling(pos)  == pos - (pos % 2)
RightSibling(pos) == LeftSibling(pos) + 1                   \* pos | 1
Sibling(pos)      == IF IsLeftNiece(pos) THEN pos + 1 ELSE pos - 1  \* pos ^ 1

SetBit(x, k) == IF Bit(x, k) = 1 THEN x ELSE x + 2^k

Parent(pos, rows)     == SetBit(pos \div 2, rows)
LeftChild(pos, rows)  == (2 * pos) % 2^(rows + 1)
RightChild(pos, rows) == LeftChild(pos, rows) + 1

\* An Err of the code (rise above the top row) is NoPosition.
NoPosition == -1

ParentMany(pos, rise, rows) ==
    CASE rise = 0    -> pos
      [] rise > rows -> NoPosition
      [] OTHER       -> \* the top `rise` bits of the rows + 1 are set
            ((pos \div 2^rise) % 2^((rows + 1) - rise)) + 2^(rows + 1) - 2^((rows + 1) - rise)

\* Fault: a position counts as its own ancestor.
IsAncestorOrSelf(higher, lower, rows) ==
    LET lowRow  == DetectRow(lower, rows)
        highRow == DetectRow(higher, rows)
    IN  highRow >= lowRow /\ higher = ParentMany(lower, highRow - lowRow, rows)

IsAncestor(higher, lower, rows) ==
    LET lowRow  == DetectRow(lower, rows)
        highRow == DetectRow(higher, rows)
    IN  /\ higher # lower
        /\ highRow >= lowRow
        /\ higher = ParentMany(lower, highRow - lowRow, rows)

-----------------------------------------------------------------------------
(***************************************************************************)
(* Roots.                                                                  *)
(***************************************************************************)
RootPosition(n, row, rows) ==
    LET before == ((n \div 2^(row + 1)) % 2^(rows + 1)) * 2^(row + 1)
        low    == 2^(rows + 1 - row)          \* bits below the `row` set ones
    IN  ((before \div 2^row) % low) + 2^(rows + 1) - low

IsRootPosition(pos, n, rows) ==
    LET row == DetectRow(pos, rows)
    IN  /\ IsRootPopulated(row, n)
        /\ RootPosition(n, row, rows) = pos

-----------------------------------------------------------------------------
(***************************************************************************)
(* translate: the same node in a forest of another height.                 *)
(***************************************************************************)
\* Fault: the start of the old row is not taken off.
TranslateFromZero(pos, fromRows, toRows) ==
    LET row == DetectRow(pos, fromRows)
    IN  IF row = 0 THEN pos ELSE pos + StartPositionAtRow(row, toRows)

Translate(pos, fromRows, toRows) ==
    LET row == DetectRow(pos, fromRows)
    IN  IF row = 0 THEN pos
        ELSE pos - StartPositionAtRow(row, fromRows) + StartPositionAtRow(row, toRows)

(***************************************************************************)
(* calc_next_pos: where `pos` goes when the subtree at `delPos`, which     *)
(* hangs from one of its ancestors or is its sibling, is deleted.  The     *)
(* node rises one row and the bit of its path below that ancestor goes.    *)
(***************************************************************************)
\* How many low bits the masks ((2 << bit) - 1) as u64 and ((1 << bit) - 1) as
\* u64 have set.  The literals are signed and LiteralBits wide: the shift is
\* taken modulo that width, and the first mask, shifted out whole, becomes -1.
UpperOnes(bit) ==
    IF bit % LiteralBits = LiteralBits - 1 THEN Width ELSE (bit % LiteralBits) + 1
LowerOnes(bit) == bit % LiteralBits

\* Elsewhere a build with overflow checks stops at the first mask or its shift.
MasksFit(bit) == bit < LiteralBits - 2

\* Fault: the bit above is removed.
RemoveBitAbove(val, bit) == (val \div 2^(bit + 2)) * 2^(bit + 1) + (val % 2^(bit + 1))

RemoveBit(val, bit) ==
    ((val \div 2^UpperOnes(bit)) * 2^UpperOnes(bit)) \div 2 + (val % 2^LowerOnes(bit))

CalcNextPos(pos, delPos, rows) ==
    LET delRow == DetectRow(delPos, rows)
        posRow == DetectRow(pos, rows)
    IN  IF delRow < posRow THEN NoPosition
        ELSE SetBit(RemoveBit(pos, delRow - posRow), rows)

-----------------------------------------------------------------------------
(***************************************************************************)
(* detect_offset: the tree that holds a position (how many bigger trees    *)
(* come before it), the length of the branch from its root to the node,    *)
(* and the complemented path, whose low bits say which way to turn.        *)
(***************************************************************************)
TreeSize(tr, n) == IF Bit(n, tr) = 1 THEN 2^tr ELSE 0       \* (1 << tr) & num_leaves

\* The loop stops at the tree that holds the node, which is in row nr.
HoldsNode(st, nr, n) == ((st.marker * 2^nr) % 2^Width) % 2^(st.tr + 1) < TreeSize(st.tr, n)

OffsetTurn(st, nr, n) ==
    IF HoldsNode(st, nr, n) THEN st
    ELSE [tr     |-> st.tr - 1,
          trees  |-> IF TreeSize(st.tr, n) # 0 THEN st.trees + 1 ELSE st.trees,
          marker |-> st.marker - TreeSize(st.tr, n)]

DetectOffset(pos, n) ==
    LET rows == TreeRows(n)
        nr == DetectRow(pos, rows)
        turn[k \in 0..rows] ==
            IF k = 0 THEN [tr |-> rows, trees |-> 0, marker |-> pos] ELSE OffsetTurn(turn[k - 1], nr, n)
        st == turn[rows]
    IN  [tree |-> st.trees, branchLen |-> st.tr - nr, bits |-> U64Max - st.marker]

-----------------------------------------------------------------------------
(***************************************************************************)
(* get_proof_positions: the siblings that are not computed themselves, in  *)
(* ascending order.  The computed positions are the targets and, up to the *)
(* roots, their parents.                                                   *)
(***************************************************************************)
ComputedPositions(targets, n, rows) ==
    LET Up(S) == S \cup {Parent(p, rows) : p \in {q \in S : ~ IsRootPosition(q, n, rows)}}
        climb[k \in 0..(rows + 1)] == IF k = 0 THEN targets ELSE Up(climb[k - 1])
    IN  climb[rows + 1]

ProofPositionSet(targets, n, rows) ==
    LET computed == ComputedPositions(targets, n, rows)
    IN  {Sibling(p) : p \in {q \in computed : ~ IsRootPosition(q, n, rows)}} \ computed

\* The elements of a set in some order (SetToSeq searches all the functions onto it).
Listing(S)   == FoldSet(LAMBDA x, s : Append(s, x), <<>>, S)

\* The numbers of a set in ascending order: each comes after those below it.
Ascending(S) ==
    [i \in 1..Cardinality(S) |-> CHOOSE x \in S : Cardinality({y \in S : y < x}) = i - 1]

GetProofPositions(targets, n, rows) == Ascending(ProofPositionSet(targets, n, rows))

-----------------------------------------------------------------------------
(***************************************************************************)
(* roots_to_destroy: the positions of the empty roots that numAdds         *)
(* additions write over.  The row counter h is declared outside the loop   *)
(* over the additions, as in the code.  One element of the fold per        *)
(* addition; `climb` is the inner while.                                   *)
(***************************************************************************)
\* Fault: empty roots are not looked for.
NothingDestroyed(numAdds, n, origRoots) == <<>>

RootsToDestroy(numAdds, n, origRoots) ==
    LET climb[roots \in Seq({TRUE, FALSE}), h \in Nat, m \in Nat, after \in Nat, out \in Seq(Nat)] ==
            IF ~ IsRootPopulated(h, m) THEN [roots |-> roots, h |-> h, out |-> out]
            ELSE climb[Front(roots), h + 1, m, after,
                       IF Last(roots) THEN Append(out, RootPosition(m, h, TreeRows(after))) ELSE out]
        Add(st, add) ==
            LET c == climb[st.roots, st.h, n + add, n + numAdds, st.out]
            IN  [c EXCEPT !.roots = Append(@, FALSE)]
        empties == [i \in 1..Len(origRoots) |-> IsEmpty(origRoots[i])]
    IN  IF ~ \E i \in 1..Len(origRoots) : empties[i] THEN <<>>
        ELSE FoldLeft(Add, [roots |-> empties, h |-> 0, out |-> <<>>],
                      [i \in 1..numAdds |-> i - 1]).out
=============================================================================
