--------------------------- MODULE PositionProofs ---------------------------
(***************************************************************************)
(* Proofs about the life of a node that MCForestPositions follows: its     *)
(* position is right after any growth, moves and deletions, for forests of *)
(* any number of leaves that the code's words can count.                   *)
(***************************************************************************)
EXTENDS MCForestPositions, PositionArithmetic

\* The node is in the forest, and where its row and offset say.
IInv ==
    /\ n \in Nat /\ n <= 2^MaxForestRows
    /\ row \in Nat /\ off \in Nat
    /\ Covers(row, off, n)
    /\ pos = First(row, rows) + off

LEMMA InvFacts ==
    ASSUME IInv
    PROVE  /\ rows \in Nat /\ rows \in 0..MaxForestRows /\ rows <= MaxForestRows /\ MaxForestRows \in Nat
           /\ n \in Nat /\ n <= 2^rows /\ n <= 2^MaxForestRows
           /\ row \in 0..rows /\ row \in Nat
           /\ off \in Offsets(row, rows) /\ off \in Nat
           /\ pos = First(row, rows) + off
           /\ Covers(row, off, n)
  <1>1. rows \in Nat /\ rows \in 0..MaxForestRows /\ n <= 2^rows /\ MaxForestRows \in Nat
    BY TreeRowsFacts, MaxForestRowsAssumption DEF IInv, rows
  <1>2. row \in 0..rows /\ off \in Offsets(row, rows)
    BY <1>1, CoveredIsPlaced DEF IInv
  <1> QED
    BY <1>1, <1>2 DEF IInv

\* The reference geometry: Start gives the first position of each row.
LEMMA StartIsFirst ==
    ASSUME rows \in Nat
    PROVE  \A r \in 0..rows : Start[r] = First(r, rows)
  <1> DEFINE N    == 0..rows
             V    == [r \in N |-> Nat]
             rank == [r \in N |-> r]
             b    == [r \in N |-> r - 1]
             z    == [r \in N |-> 0]
             step == [r \in N |-> [x \in Nat |-> x + 2^(rows - (r - 1))]]
  <1>1. \A r \in N : V[r] = Nat
    OBVIOUS
  <1>2. Descends(N, rank, {0}, b)
    BY DEF Descends
  <1>3. \A r \in N : r # 0 => r - 1 \in N /\ b[r] = r - 1 /\ r - 1 \in Nat /\ rows - (r - 1) \in Nat
                              /\ 2^(rows - (r - 1)) \in Nat
    <2>1. \A r \in N : r # 0 => r - 1 \in N /\ b[r] = r - 1 /\ rows - (r - 1) \in Nat
      OBVIOUS
    <2> QED
      BY <2>1, Powers
  <1>4. LinearValuesIn(V, N, {0}, z, b, step)
    <2>1. \A r \in N : z[r] = 0
      OBVIOUS
    <2>2. \A r \in N \ {0} : \A x \in Nat : step[r][x] \in Nat
      BY <1>3
    <2> HIDE DEF V, z, step
    <2> QED
      BY <2>1, <2>2, <1>1, <1>3 DEF LinearValuesIn
  <1> HIDE DEF rank, V
  <1>5. PICK f : /\ f = [r \in N |-> f[r]]
                 /\ \A r \in N : f[r] \in V[r]
                 /\ LinearSolves(f, N, {0}, z, b, step)
    <2> HIDE DEF N, b, z, step
    <2> QED
      BY <1>2, <1>4, LinearRecursionExists
  <1> DEFINE Rhs(g) == [r \in 0..rows |-> IF r = 0 THEN 0 ELSE g[r - 1] + 2^(rows - (r - 1))]
             IsStart(g) == g = Rhs(g)
  <1>6. IsStart(f)
    <2>1. \A r \in N : f[r] = IF r = 0 THEN 0 ELSE f[r - 1] + 2^(rows - (r - 1))
      BY <1>1, <1>3, <1>5 DEF LinearSolves
    <2> HIDE DEF b, z, step
    <2> QED
      BY <2>1, <1>5
  <1>7. Start = CHOOSE g : IsStart(g)
    BY DEF Start
  <1> HIDE DEF IsStart
  <1>8. IsStart(Start)
    BY <1>6, <1>7
  <1>9. \A r \in 0..rows : Start[r] = IF r = 0 THEN 0 ELSE Start[r - 1] + 2^(rows - (r - 1))
    <2>1. Start = Rhs(Start)
      BY <1>8 DEF IsStart
    <2> QED
      BY <2>1
  <1> DEFINE S == {r \in Nat : r <= rows => Start[r] = First(r, rows)}
  <1>10. 0 \in S
    <2>1. First(0, rows) = 0
      <3>1. 2^(rows + 1) \in Nat /\ (rows + 1) - 0 = rows + 1
        BY Powers
      <3> QED
        BY <3>1 DEF First
    <2> QED
      BY <2>1, <1>9
  <1>11. ASSUME NEW r \in Nat, r \in S PROVE r + 1 \in S
    <2>1. SUFFICES ASSUME r + 1 <= rows PROVE Start[r + 1] = First(r + 1, rows)
      OBVIOUS
    <2>2. r \in 0..rows /\ r + 1 \in 0..rows /\ (r + 1) - 1 = r /\ rows - r \in Nat
          /\ rows - r = (rows - (r + 1)) + 1 /\ rows - (r + 1) \in Nat
      BY <2>1
    <2>3. Start[r + 1] = First(r, rows) + 2^(rows - r)
      BY <2>2, <1>9, <1>11
    <2>4. /\ First(r, rows) = 2^(rows + 1) - 2 * 2^(rows - r)
          /\ First(r + 1, rows) = 2^(rows + 1) - 2 * 2^(rows - (r + 1))
          /\ 2^(rows + 1) \in Nat
      BY <2>2, FirstFacts, Powers
    <2>5. 2^(rows - r) = 2 * 2^(rows - (r + 1)) /\ 2^(rows - (r + 1)) \in Nat
      <3>1. 2^((rows - (r + 1)) + 1) = 2 * 2^(rows - (r + 1)) /\ 2^(rows - (r + 1)) \in Nat
        BY <2>2, Powers
      <3> QED
        BY <3>1, <2>2
    <2> QED
      BY <2>3, <2>4, <2>5
  <1> HIDE DEF S
  <1>12. Nat \subseteq S
    BY <1>10, <1>11, NatInductionOn
  <1> QED
    BY <1>12 DEF S

\* The root that the node's subtree hangs from.
LEMMA RootRowFacts ==
    ASSUME IInv
    PROVE  /\ RootRow \in row..rows /\ RootRow \in 0..rows /\ RootRow - row \in Nat
           /\ Tops(RootRow, off \div 2^(RootRow - row), n)
           /\ \A d \in 0..(RootRow - row) : Covers(row + d, off \div 2^d, n)
  <1>1. /\ rows \in Nat /\ n \in Nat /\ n <= 2^rows /\ row \in 0..rows /\ row \in Nat
        /\ off \in Nat /\ Covers(row, off, n)
    BY InvFacts
  <1> DEFINE IsIt(r) == r >= row /\ IsRoot(r, off \div 2^(r - row))
  <1>2. \A r, o : IsRoot(r, o) <=> Tops(r, o, n)
    BY DEF IsRoot, InForest, Tops, Covers
  <1>3. \E r \in row..rows : Tops(r, off \div 2^(r - row), n)
    BY <1>1, RootExists
  <1>4. \E r \in 0..rows : IsIt(r)
    <2>1. \A r \in row..rows : r \in 0..rows /\ r >= row
      BY <1>1
    <2> QED
      BY <2>1, <1>2, <1>3
  <1>5. RootRow = CHOOSE r \in 0..rows : IsIt(r)
    BY DEF RootRow
  <1> HIDE DEF IsIt
  <1>6. RootRow \in 0..rows /\ IsIt(RootRow)
    BY <1>4, <1>5
  <1> DEFINE R == RootRow
  <1> HIDE DEF R
  <1>7. R \in 0..rows /\ R >= row /\ Tops(R, off \div 2^(R - row), n)
    BY <1>2, <1>6 DEF IsIt, R
  <1>8. R \in row..rows /\ R - row \in Nat
    BY <1>1, <1>7
  <1>9. ASSUME NEW d \in 0..(R - row) PROVE Covers(row + d, off \div 2^d, n)
    <2> DEFINE j == (R - row) - d
    <2>1. d \in Nat /\ j \in Nat /\ row + d \in Nat /\ (row + d) + j = R /\ d + j = R - row
      BY <1>1, <1>8
    <2> HIDE DEF j
    <2>2. (off \div 2^d) \div 2^j = off \div 2^(R - row)
      <3>1. 2^d \in Nat \ {0} /\ 2^j \in Nat \ {0} /\ 2^(d + j) = 2^d * 2^j
        <4>1. \A k \in Nat : 2^k \in Nat \ {0}
          BY Powers
        <4> QED
          BY <4>1, <2>1, PowerSum
      <3>2. (off \div 2^d) \div 2^j = off \div (2^d * 2^j)
        BY <3>1, <1>1, QuotientOfQuotient, Zenon
      <3> QED
        BY <3>1, <3>2, <2>1
    <2>3. off \div 2^d \in Nat
      BY <2>1, <1>1, HalfOfQuotient
    <2>4. Covers((row + d) + j, (off \div 2^d) \div 2^j, n)
      BY <2>1, <2>2, <1>7 DEF Tops
    <2> QED
      BY <2>1, <2>3, <2>4, <1>1, CoversBelow
  <1> QED
    BY <1>7, <1>8, <1>9 DEF R

\* A node that is not a root has its parent in the forest.
LEMMA ParentInForest ==
    ASSUME IInv, ~ IsRootPosition(pos, n, rows)
    PROVE  Covers(row + 1, off \div 2, n) /\ row \in 0..(rows - 1) /\ row + 1 \in Nat /\ off \div 2 \in Nat
  <1>1. /\ rows \in Nat /\ n \in Nat /\ n <= 2^rows /\ row \in 0..rows /\ row \in Nat
        /\ off \in Offsets(row, rows) /\ off \in Nat
        /\ pos = First(row, rows) + off /\ Covers(row, off, n)
    BY InvFacts
  <1>2. ~ Tops(row, off, n)
    BY <1>1, IsRootPositionOf
  <1>3. Covers(row + 1, off \div 2, n)
    BY <1>1, <1>2, TopsFacts
  <1>4. row + 1 \in Nat /\ off \div 2 \in Nat
    BY <1>1
  <1>5. row + 1 \in 0..rows
    BY <1>1, <1>3, <1>4, CoveredIsPlaced
  <1> QED
    BY <1>1, <1>3, <1>4, <1>5

-----------------------------------------------------------------------------
(***************************************************************************)
(* Every step keeps the node in the forest and its position right.         *)
(***************************************************************************)
LEMMA InitIInv == Init => IInv
  <1> SUFFICES ASSUME Init PROVE IInv
    OBVIOUS
  <1>1. n = 1 /\ row = 0 /\ off = 0 /\ pos = 0
    BY DEF Init
  <1>2. TreeRows(1) = 0
    <2>1. 2^MaxForestRows \in Nat /\ 2^MaxForestRows >= 1
      BY MaxForestRowsAssumption, Powers
    <2>2. TreeRows(1) \in Nat /\ \A q \in 0..(TreeRows(1) - 1) : 2^q < 1
      BY <2>1, TreeRowsFacts
    <2>3. SUFFICES ASSUME TreeRows(1) # 0 PROVE FALSE
      OBVIOUS
    <2>4. 0 \in 0..(TreeRows(1) - 1)
      BY <2>2, <2>3
    <2> QED
      BY <2>2, <2>4, Powers
  <1>3. First(0, 0) = 0
    BY DEF First
  <1>4. Covers(0, 0, 1)
    BY Powers DEF Covers
  <1>5. 1 <= 2^MaxForestRows
    BY MaxForestRowsAssumption, Powers
  <1> QED
    BY <1>1, <1>2, <1>3, <1>4, <1>5 DEF IInv, rows

LEMMA AddLeafKeepsIInv == ASSUME IInv, AddLeaf PROVE IInv' /\ rows' = TreeRows(n + 1) /\ row <= TreeRows(n + 1)
  <1>1. /\ rows \in 0..MaxForestRows /\ n \in Nat /\ row \in 0..rows /\ row \in Nat /\ off \in Nat
        /\ off \in Offsets(row, rows) /\ pos = First(row, rows) + off /\ Covers(row, off, n)
        /\ MaxForestRows \in Nat /\ rows \in Nat
    BY InvFacts
  <1>2. n' = n + 1 /\ row' = row /\ off' = off /\ pos' = Translate(pos, rows, TreeRows(n + 1)) /\ n + 1 <= MaxLeaves
    BY <1>1, MaxLeavesAssumption DEF AddLeaf, rows
  <1>3. n + 1 <= 2^MaxForestRows /\ n <= n + 1 /\ n + 1 \in Nat
    BY <1>1, <1>2, MaxLeavesAssumption, HalfTheRoom
  <1>4. TreeRows(n + 1) \in 0..MaxForestRows /\ TreeRows(n + 1) \in Nat
    BY <1>3, TreeRowsFacts
  <1>5. TreeRows(n) <= TreeRows(n + 1)
    BY <1>1, <1>3, TreeRowsGrow
  <1>6. row <= TreeRows(n + 1)
    BY <1>1, <1>4, <1>5 DEF rows
  <1>7. pos' = First(row, TreeRows(n + 1)) + off
    BY <1>1, <1>2, <1>4, <1>6, TranslateOf
  <1>8. Covers(row, off, n + 1)
    <2>1. (off + 1) * 2^row \in Nat
      BY <1>1, Powers
    <2> QED
      BY <2>1, <1>1, <1>3 DEF Covers
  <1>9. rows' = TreeRows(n + 1)
    BY <1>2 DEF rows
  <1> QED
    BY <1>1, <1>2, <1>3, <1>6, <1>7, <1>8, <1>9 DEF IInv

LEMMA ClimbKeepsIInv == ASSUME IInv, Climb PROVE IInv'
  <1>1. /\ rows \in Nat /\ n \in Nat /\ n <= 2^MaxForestRows /\ row \in Nat /\ off \in Offsets(row, rows)
        /\ pos = First(row, rows) + off
    BY InvFacts
  <1>2. /\ n' = n /\ row' = row + 1 /\ off' = off \div 2 /\ pos' = Parent(pos, rows) /\ rows' = rows
        /\ ~ IsRootPosition(pos, n, rows)
    BY DEF Climb, rows
  <1>3. Covers(row + 1, off \div 2, n) /\ row \in 0..(rows - 1) /\ row + 1 \in Nat /\ off \div 2 \in Nat
    BY <1>2, ParentInForest
  <1>4. Parent(pos, rows) = First(row + 1, rows) + (off \div 2)
    BY <1>1, <1>3, ParentOf
  <1> QED
    BY <1>1, <1>2, <1>3, <1>4 DEF IInv

LEMMA DescendKeepsIInv == ASSUME IInv, Descend PROVE IInv'
  <1>1. /\ rows \in Nat /\ n \in Nat /\ n <= 2^MaxForestRows /\ row \in 0..rows /\ row \in Nat
        /\ off \in Offsets(row, rows) /\ off \in Nat
        /\ pos = First(row, rows) + off /\ Covers(row, off, n)
    BY InvFacts
  <1>2. /\ n' = n /\ row' = row - 1 /\ rows' = rows /\ row > 0
        /\ \/ pos' = LeftChild(pos, rows) /\ off' = 2 * off
           \/ pos' = RightChild(pos, rows) /\ off' = 2 * off + 1
    BY DEF Descend, rows
  <1>3. row \in 1..rows /\ row - 1 \in Nat /\ (row - 1) + 1 = row
    BY <1>1, <1>2
  <1>4. /\ LeftChild(pos, rows) = First(row - 1, rows) + 2 * off
        /\ RightChild(pos, rows) = First(row - 1, rows) + (2 * off + 1)
    BY <1>1, <1>3, ChildrenOf
  <1>5. off' \in Nat /\ pos' = First(row - 1, rows) + off' /\ off' \div 2 = off
    BY <1>1, <1>2, <1>4
  <1>6. Covers(row - 1, off', n)
    <2>1. Covers((row - 1) + 1, off' \div 2, n)
      BY <1>1, <1>3, <1>5
    <2> QED
      BY <2>1, <1>1, <1>3, <1>5, TopsFacts
  <1> QED
    BY <1>1, <1>2, <1>3, <1>5, <1>6 DEF IInv

LEMMA SwitchToSiblingKeepsIInv == ASSUME IInv, SwitchToSibling PROVE IInv'
  <1>1. /\ rows \in Nat /\ n \in Nat /\ n <= 2^MaxForestRows /\ row \in 0..rows /\ row \in Nat
        /\ off \in Offsets(row, rows) /\ off \in Nat /\ pos = First(row, rows) + off
    BY InvFacts
  <1>2. /\ n' = n /\ row' = row /\ rows' = rows /\ pos' = Sibling(pos) /\ off' = OtherOffset(off)
        /\ ~ IsRootPosition(pos, n, rows)
    BY DEF SwitchToSibling, rows, OtherOffset
  <1>3. Covers(row + 1, off \div 2, n) /\ row \in 0..(rows - 1)
    BY <1>2, ParentInForest
  <1>4. Sibling(pos) = First(row, rows) + OtherOffset(off) /\ OtherOffset(off) \div 2 = off \div 2
    BY <1>1, <1>3, SiblingOf
  <1>5. OtherOffset(off) \in Nat
    BY <1>1 DEF OtherOffset
  <1>6. Covers(row, OtherOffset(off), n)
    BY <1>1, <1>3, <1>4, <1>5, TopsFacts
  <1> QED
    BY <1>1, <1>2, <1>4, <1>5, <1>6 DEF IInv

LEMMA NextTreeKeepsIInv == ASSUME IInv, NextTree PROVE IInv'
  <1>1. /\ rows \in Nat /\ n \in Nat /\ n <= 2^MaxForestRows /\ row \in 0..rows /\ row \in Nat
        /\ off \in Nat /\ pos = First(row, rows) + off
    BY InvFacts
  <1>2. n' = n /\ row' = row /\ rows' = rows /\ pos' = pos + 1 /\ off' = off + 1 /\ Covers(row, off + 1, n)
    BY DEF NextTree, InForest, rows, Covers
  <1>3. First(row, rows) \in Nat
    BY <1>1, FirstFacts
  <1> QED
    BY <1>1, <1>2, <1>3 DEF IInv

LEMMA SiblingDeletedKeepsIInv == ASSUME IInv, SiblingDeleted PROVE IInv'
  <1>1. /\ rows \in Nat /\ n \in Nat /\ n <= 2^MaxForestRows /\ row \in 0..rows /\ row \in Nat
        /\ off \in Offsets(row, rows) /\ off \in Nat /\ pos = First(row, rows) + off
    BY InvFacts
  <1>2. PICK d \in 0..(RootRow - row - 1) :
            /\ MasksFit(d)
            /\ pos' = CalcNextPos(pos, Sibling(ParentMany(pos, d, rows)), rows)
            /\ row' = row + 1 /\ off' = OffsetWithout(off, d) /\ n' = n /\ rows' = rows
    BY DEF SiblingDeleted, OffsetWithout, rows
  <1> DEFINE R == RootRow
             up == off \div 2^d
  <1> HIDE DEF R
  <1>3. /\ R \in row..rows /\ R - row \in Nat
        /\ \A k \in 0..(R - row) : Covers(row + k, off \div 2^k, n)
    BY RootRowFacts DEF R
  <1>4. d \in 0..(R - row - 1)
    BY <1>2 DEF R
  <1>5. /\ d \in Nat /\ d \in 0..(rows - row) /\ d \in 0..(rows - row - 1) /\ d + 1 \in 0..(R - row)
        /\ row + d \in 0..(rows - 1) /\ row \in 0..(rows - 1)
    BY <1>1, <1>3, <1>4
  <1>6. ParentMany(pos, d, rows) = First(row + d, rows) + up /\ up \in Offsets(row + d, rows)
    BY <1>1, <1>5, ParentManyOf, OffsetAbove
  <1> DEFINE high == row + d
             del  == OtherOffset(up)
  <1> HIDE DEF up, high
  <1>7. Sibling(First(high, rows) + up) = First(high, rows) + del /\ del \in Offsets(high, rows)
    <2>1. high \in 0..(rows - 1) /\ up \in Offsets(high, rows)
      BY <1>5, <1>6 DEF high
    <2> QED
      BY <1>1, <2>1, SiblingOf
  <1> HIDE DEF del
  <1>8. /\ pos' = First(row + 1, rows) + OffsetWithout(off, d)
        /\ OffsetWithout(off, d) \in Nat
        /\ OffsetWithout(off, d) < ((off \div 2^(d + 1)) + 1) * 2^d
    <2>1. pos' = CalcNextPos(First(row, rows) + off, First(row + d, rows) + del, rows)
      BY <1>1, <1>2, <1>6, <1>7 DEF high
    <2>2. rows \in Nat /\ row \in 0..(rows - 1) /\ off \in Offsets(row, rows)
          /\ d \in 0..(rows - row - 1) /\ del \in Offsets(row + d, rows) /\ MasksFit(d)
      BY <1>1, <1>2, <1>5, <1>7 DEF high
    <2>3. /\ CalcNextPos(First(row, rows) + off, First(row + d, rows) + del, rows)
                  = First(row + 1, rows) + OffsetWithout(off, d)
          /\ OffsetWithout(off, d) \in Nat
          /\ OffsetWithout(off, d) < ((off \div 2^(d + 1)) + 1) * 2^d
      BY <2>2, CalcNextPosOf, Zenon
    <2> QED
      BY <2>1, <2>3, Zenon
  <1>9. Covers(row + (d + 1), off \div 2^(d + 1), n)
    BY <1>3, <1>5
  <1>10. Covers(row + 1, OffsetWithout(off, d), n)
    BY <1>1, <1>5, <1>8, <1>9, RisenIsCovered
  <1> QED
    BY <1>1, <1>2, <1>8, <1>10 DEF IInv

LEMMA NextKeepsIInv == IInv /\ [Next]_vars => IInv'
  <1> SUFFICES ASSUME IInv, [Next]_vars PROVE IInv'
    OBVIOUS
  <1>1. CASE UNCHANGED vars
    BY <1>1 DEF vars, IInv, rows
  <1> QED
    BY <1>1, AddLeafKeepsIInv, ClimbKeepsIInv, DescendKeepsIInv, SwitchToSiblingKeepsIInv,
       NextTreeKeepsIInv, SiblingDeletedKeepsIInv DEF Next

LEMMA IInvHolds == Spec => []IInv
  BY InitIInv, NextKeepsIInv, PTL DEF Spec
-----------------------------------------------------------------------------
(***************************************************************************)
(* Where the arithmetic of the code goes wrong.                            *)
(***************************************************************************)
\* "removeBit removes the nth bit from the val passed in" (src/util/mod.rs:20)
\* is true only where the masks fit their literals.  At the literals' top bit,
\* 31 in the code, the upper mask comes out as all ones, and the bits above
\* are lost instead of moved down: the result is wrong for every value that
\* has any.  (A build with overflow checks stops there and at bit 30.)
THEOREM RemoveBitLosesTheTop ==
    ASSUME NEW val \in 0..U64Max
    PROVE  /\ RemoveBit(val, LiteralBits - 1) = val % 2^(LiteralBits - 1)
           /\ val >= 2^LiteralBits
                => RemoveBit(val, LiteralBits - 1) # OffsetWithout(val, LiteralBits - 1)
  <1> DEFINE b == LiteralBits - 1
             R == 2^b
             E == 2^(b + 1)
             W == 2^Width
  <1>1. b \in Nat /\ b + 1 = LiteralBits /\ LiteralBits \in Nat \ {0} /\ b < LiteralBits
    BY LiteralBitsAssumption
  <1>2. Width \in Nat
    BY MaxForestRowsAssumption DEF Width
  <1>3. /\ R \in Nat \ {0} /\ E \in Nat \ {0} /\ W \in Nat \ {0}
        /\ val \in Nat /\ val < W
    <2>1. R \in Nat /\ R >= 1 /\ E \in Nat /\ E >= 1 /\ W \in Nat /\ W >= 1
      BY <1>1, <1>2, Powers
    <2> QED
      BY <2>1 DEF U64Max
  <1> HIDE DEF b, R, E, W
  <1>4. b % LiteralBits = b
    BY <1>1, Small
  <1>5. UpperOnes(b) = Width /\ LowerOnes(b) = b
    BY <1>1, <1>4 DEF UpperOnes, LowerOnes
  <1>6. val \div W = 0
    BY <1>3, Small
  <1>7. val % R \in Nat
    BY <1>3
  <1>8. RemoveBit(val, b) = val % R
    <2>1. RemoveBit(val, b) = ((val \div W) * W) \div 2 + (val % R)
      BY <1>5 DEF RemoveBit, W, R
    <2>2. (0 * W) \div 2 = 0
      BY <1>3
    <2> QED
      BY <2>1, <2>2, <1>6, <1>7
  <1>9. ASSUME val >= E PROVE OffsetWithout(val, b) # val % R
    <2> DEFINE e == val \div E
    <2>1. e \in Nat /\ e >= 1
      <3>1. 1 \in Nat /\ 1 * E <= val
        BY <1>3, <1>9
      <3>2. 1 <= e
        BY <3>1, <1>3, QuotientBelow, Zenon
      <3> QED
        BY <3>2, <1>3
    <2>2. OffsetWithout(val, b) = e * R + (val % R)
      BY DEF OffsetWithout, E, R
    <2> HIDE DEF e
    <2>3. e * R \in Nat /\ e * R >= R
      <3>1. \A x, y \in Nat : x >= 1 => x * y \in Nat /\ x * y >= y
        BY Z3
      <3> QED
        BY <3>1, <2>1, <1>3
    <2> QED
      BY <2>2, <2>3, <1>3, <1>7
  <1>10. E = 2^LiteralBits
    BY <1>1 DEF E
  <1> QED
    BY <1>8, <1>9, <1>10 DEF b, R
-----------------------------------------------------------------------------
(***************************************************************************)
(* What the invariant says of the operators.                               *)
(***************************************************************************)
\* The position of the node is First(row, rows) + off in the reference
\* geometry too, and its row and the start of its row are read back.  Deleted
\* subtrees hang less than LiteralBits - 2 rows above the node (MasksFit in
\* SiblingDeleted): beyond that remove_bit overflows (RemoveBitLosesTheTop).
THEOREM PositionTracksNodeHolds == Spec => []PositionTracksNode
  <1>1. IInv => PositionTracksNode
    <2> SUFFICES ASSUME IInv PROVE PositionTracksNode
      OBVIOUS
    <2>1. /\ rows \in Nat /\ rows \in 0..MaxForestRows /\ row \in 0..rows
          /\ off \in Offsets(row, rows) /\ pos = First(row, rows) + off
      BY InvFacts
    <2>2. Start[row] = First(row, rows)
      BY <2>1, StartIsFirst
    <2>3. DetectRow(pos, rows) = row
      BY <2>1, DetectRowOf
    <2>4. StartPositionAtRow(row, rows) = First(row, rows)
      BY <2>1, StartPositionAtRowOf
    <2> QED
      BY <2>1, <2>2, <2>3, <2>4 DEF PositionTracksNode
  <1> QED
    BY <1>1, IInvHolds, PTL

\* is_root_position, num_roots and root_position agree with the geometry: a
\* root is a subtree that is full while the one above it is not.
THEOREM RootPositionsMatchForestHolds == Spec => []RootPositionsMatchForest
  <1>1. IInv => RootPositionsMatchForest
    <2> SUFFICES ASSUME IInv PROVE RootPositionsMatchForest
      OBVIOUS
    <2>1. /\ rows \in Nat /\ MaxForestRows \in Nat /\ rows <= MaxForestRows
          /\ n \in Nat /\ n <= 2^rows /\ row \in 0..rows
          /\ off \in Offsets(row, rows) /\ pos = First(row, rows) + off
      BY InvFacts
    <2>2. \A r, o : IsRoot(r, o) <=> Tops(r, o, n)
      BY DEF IsRoot, InForest, Tops, Covers
    <2>3. IsRootPosition(pos, n, rows) <=> IsRoot(row, off)
      BY <2>1, <2>2, IsRootPositionOf
    <2>4. ASSUME NEW k \in 0..MaxForestRows, Bit(n, k) = 1
          PROVE  k \in 0..rows /\ \E o \in 0..n : IsRoot(k, o)
      <3> DEFINE o == 2 * (n \div 2^(k + 1))
      <3>1. k \in Nat /\ n \div 2^(k + 1) \in Nat /\ o \in Nat
        <4>1. k \in Nat /\ k + 1 \in Nat
          BY <2>1
        <4>2. n \div 2^(k + 1) \in Nat
          BY <4>1, <2>1, HalfOfQuotient
        <4> QED
          BY <4>1, <4>2
      <3>2. Tops(k, o, n)
        <4>1. IsRootPopulated(k, n)
          BY <2>4 DEF IsRootPopulated
        <4> QED
          BY <3>1, <4>1, <2>1, TopsFacts
      <3> HIDE DEF o
      <3>3. Covers(k, o, n)
        BY <3>2 DEF Tops
      <3>4. k \in 0..rows
        BY <2>1, <3>1, <3>3, CoveredIsPlaced
      <3>5. o \in 0..n
        <4>1. \A a, b \in Nat : b >= 1 => a <= (a + 1) * b
          BY Z3
        <4>2. 2^k \in Nat /\ 2^k >= 1
          BY <3>1, Powers
        <4>3. o <= (o + 1) * 2^k /\ (o + 1) * 2^k <= n
          BY <3>1, <3>3, <4>1, <4>2 DEF Covers
        <4>4. (o + 1) * 2^k \in Nat
          BY <3>1, <4>2
        <4> QED
          BY <2>1, <3>1, <4>3, <4>4
      <3> QED
        BY <2>2, <3>2, <3>4, <3>5
    <2>5. ASSUME NEW r \in 0..rows, NEW o \in 0..n, IsRoot(r, o)
          PROVE  /\ r \in 0..MaxForestRows /\ Bit(n, r) = 1
                 /\ RootPosition(n, r, rows) = Start[r] + o
      <3>1. Tops(r, o, n) /\ r \in Nat /\ o \in Nat /\ r \in 0..MaxForestRows
        BY <2>1, <2>2, <2>5
      <3>2. IsRootPopulated(r, n) /\ o = 2 * (n \div 2^(r + 1))
        BY <2>1, <3>1, TopsFacts
      <3>3. RootPosition(n, r, rows) = First(r, rows) + 2 * (n \div 2^(r + 1))
        BY <2>1, RootPositionOf
      <3>4. Start[r] = First(r, rows)
        BY <2>1, StartIsFirst
      <3> QED
        BY <3>1, <3>2, <3>3, <3>4 DEF IsRootPopulated
    <2>6. {k \in 0..MaxForestRows : Bit(n, k) = 1} = {r \in 0..rows : \E o \in 0..n : IsRoot(r, o)}
      BY <2>4, <2>5
    <2> QED
      BY <2>3, <2>5, <2>6 DEF RootPositionsMatchForest, NumRoots
  <1> QED
    BY <1>1, IInvHolds, PTL

\* detect_offset finds the tree of the node, its depth below the root and,
\* turn for turn, the complement of its path.
THEOREM OffsetLeadsToNodeHolds == Spec => []OffsetLeadsToNode
  <1>1. IInv => OffsetLeadsToNode
    <2> SUFFICES ASSUME IInv PROVE OffsetLeadsToNode
      OBVIOUS
    <2> DEFINE R == RootRow
    <2>1. /\ n \in Nat /\ n <= 2^MaxForestRows /\ row \in Nat
          /\ off \in Offsets(row, rows) /\ pos = First(row, rows) + off
      BY InvFacts
    <2>2. RootRow \in row..rows /\ RootRow \in 0..rows /\ Tops(RootRow, off \div 2^(RootRow - row), n)
      BY RootRowFacts
    <2> HIDE DEF R
    <2>3. R \in 0..TreeRows(n) /\ row \in 0..R /\ off \in Offsets(row, TreeRows(n))
          /\ Tops(R, off \div 2^(R - row), n)
      BY <2>1, <2>2 DEF R, rows
    <2> DEFINE d == DetectOffset(pos, n)
    <2>4. /\ DetectOffset(First(row, TreeRows(n)) + off, n).tree = Cardinality(TreesAbove(R, TreeRows(n), n))
          /\ DetectOffset(First(row, TreeRows(n)) + off, n).branchLen = R - row
          /\ \A k \in 0..(R - row - 1) :
                Bit(DetectOffset(First(row, TreeRows(n)) + off, n).bits, k) = 1 - Bit(off, k)
      BY <2>1, <2>3, DetectOffsetOf
    <2>5. pos = First(row, TreeRows(n)) + off
      BY <2>1 DEF rows
    <2> HIDE DEF d
    <2>6. /\ d.tree = Cardinality(TreesAbove(R, rows, n)) /\ d.branchLen = R - row
          /\ \A k \in 0..(d.branchLen - 1) : Bit(d.bits, k) = 1 - Bit(off, k)
      BY <2>4, <2>5 DEF d, rows
    <2> QED
      BY <2>6 DEF OffsetLeadsToNode, TreesAbove, d, R
  <1> QED
    BY <1>1, IInvHolds, PTL

\* is_ancestor says yes of the positions on the node's path up and of no
\* other position of the forest.
THEOREM AncestorsAreThePathUpHolds == Spec => []AncestorsAreThePathUp
  <1>1. IInv => AncestorsAreThePathUp
    <2> SUFFICES ASSUME IInv, NEW r \in 0..rows, NEW o \in 0..n, InForest(r, o)
                 PROVE  IsAncestor(Start[r] + o, pos, rows) <=> r > row /\ o = off \div 2^(r - row)
      BY DEF AncestorsAreThePathUp
    <2>1. /\ rows \in Nat /\ n \in Nat /\ n <= 2^rows /\ row \in 0..rows
          /\ off \in Offsets(row, rows) /\ pos = First(row, rows) + off
      BY InvFacts
    <2>2. r \in Nat /\ o \in Nat /\ Covers(r, o, n)
      BY <2>1 DEF InForest, Covers
    <2>3. o \in Offsets(r, rows)
      BY <2>1, <2>2, CoveredIsPlaced
    <2>4. Start[r] = First(r, rows)
      BY <2>1, StartIsFirst
    <2> QED
      BY <2>1, <2>3, <2>4, IsAncestorOf
  <1> QED
    BY <1>1, IInvHolds, PTL

\* Growth does not change the position other parties know the node by, and
\* that position is read back in the grown forest.
THEOREM SharedPositionIsStableHolds == Spec => SharedPositionIsStable
  <1> DEFINE M == MaxForestRows
             Stable == n' # n =>
                 LET shared == Translate(pos, rows, MaxForestRows)
                 IN  /\ Translate(pos, rows, MaxForestRows)' = shared
                     /\ Translate(shared, MaxForestRows, rows') = pos'
  <1>1. ASSUME IInv, [Next]_vars PROVE Stable
    <2> SUFFICES ASSUME n' # n
                 PROVE  /\ Translate(pos, rows, M)' = Translate(pos, rows, M)
                        /\ Translate(Translate(pos, rows, M), M, rows') = pos'
      OBVIOUS
    <2>1. AddLeaf
      BY <1>1 DEF Next, vars, Climb, Descend, SwitchToSibling, NextTree, SiblingDeleted
    <2>2. IInv' /\ rows' = TreeRows(n + 1) /\ row <= rows'
      BY <1>1, <2>1, AddLeafKeepsIInv
    <2>3. /\ rows \in 0..M /\ M \in Nat /\ row \in 0..rows /\ row \in Nat /\ row <= M
          /\ off \in Offsets(row, rows) /\ off \in Nat /\ pos = First(row, rows) + off
      BY <1>1, InvFacts
    <2>4. n' \in Nat /\ n' <= 2^M /\ Covers(row, off, n') /\ pos' = First(row, rows') + off
      BY <2>1, <2>2 DEF IInv, AddLeaf
    <2>5. rows' \in 0..M /\ rows' \in Nat /\ n' <= 2^(rows')
      <3>1. rows' = TreeRows(n')
        BY DEF rows
      <3> QED
        BY <2>4, <3>1, TreeRowsFacts
    <2>6. row \in 0..rows' /\ off \in Offsets(row, rows')
      BY <2>3, <2>4, <2>5, CoveredIsPlaced
    <2>7. n' <= 2^M /\ M \in 0..M /\ row \in 0..M /\ off \in Offsets(row, M)
      <3>1. Covers(row, off, n')
        BY <2>4
      <3> QED
        BY <2>3, <2>4, <3>1, CoveredIsPlaced
    <2>8. Translate(pos, rows, M) = First(row, M) + off
      BY <2>3, TranslateOf
    <2>9. Translate(pos', rows', M) = First(row, M) + off
      BY <2>3, <2>4, <2>5, <2>6, <2>7, TranslateOf
    <2>10. Translate(First(row, M) + off, M, rows') = First(row, rows') + off
      BY <2>3, <2>5, <2>6, <2>7, TranslateOf
    <2> QED
      BY <2>4, <2>8, <2>9, <2>10
  <1>2. IInv /\ [Next]_vars => [Stable]_vars
    BY <1>1
  <1> QED
    BY <1>2, IInvHolds, PTL DEF Spec, SharedPositionIsStable
=============================================================================
