------------------------- MODULE StumpCompleteness -------------------------
(***************************************************************************)
(* What the stump does with the forest's own proofs: it accepts them, and  *)
(* so stump and forest have the same roots, for ever.                      *)
(*                                                                         *)
(* Soundness (StumpProofs) can leave out where the nodes of a proof are;   *)
(* here positions are what counts.  The nodes of a forest are at different *)
(* ones (NodesMapped), the positions computed from the targets and those   *)
(* that have to be provided are closed under siblings and parents          *)
(* (ClimbIsPlan), and so the loop, which goes up by position, always finds *)
(* the sibling (HashUpFinds) and ends with roots of the forest, each once. *)
(*                                                                         *)
(* Verification comes with it: verify hashes what modify hashes, less the  *)
(* new values (OldNodesInOrder); it finds the roots of lower trees first   *)
(* (LowerRowsFirst, RootSpotsFall), so going once over the stump's roots   *)
(* from the last reads them all (AllAreRead), and the forest's proof of    *)
(* leaves in the first row, whose positions need no translation, is        *)
(* accepted.                                                               *)
(***************************************************************************)
EXTENDS StumpProofs

-----------------------------------------------------------------------------
(***************************************************************************)
(* Numbers in ascending order.                                             *)
(***************************************************************************)
\* A set of numbers below n that has, with each, the smaller ones.
LEMMA InitialSegment ==
    ASSUME NEW n \in Nat, NEW S \in SUBSET (1..n), \A i \in S : \A j \in 1..n : j < i => j \in S
    PROVE  S = 1..Cardinality(S) /\ Cardinality(S) \in 0..n
  <1>1. CASE S = {}
    <2>1. Cardinality(S) = 0
      BY <1>1, FS_EmptySet
    <2> QED
      BY <1>1, <2>1
  <1>2. CASE S # {}
    <2>1. S \subseteq 0..n
      OBVIOUS
    <2>2. PICK m \in S : \A i \in S : i <= m
      BY <1>2, <2>1, GreatestNumber
    <2>3. m \in 1..n /\ m \in Nat
      OBVIOUS
    <2>7. \A i \in 1..m : i \in 1..n /\ (i = m \/ i < m)
      BY <2>3
    <2>8. \A i \in 1..m : i \in S
      BY <2>3, <2>7
    <2>9. \A i \in S : i \in 1..m
      BY <2>2, <2>3
    <2>4. S = 1..m
      BY <2>8, <2>9
    <2>5. Cardinality(1..m) = IF 1 > m THEN 0 ELSE m - 1 + 1
      BY <2>3, FS_Interval
    <2>6. Cardinality(S) = m
      BY <2>3, <2>4, <2>5
    <2> QED
      BY <2>3, <2>4, <2>6
  <1> QED
    BY <1>1, <1>2

\* How many numbers of S are smaller.
RankIn(S, x) == Cardinality({y \in S : y < x})

LEMMA RanksAscend ==
    ASSUME NEW S \in SUBSET Nat, IsFiniteSet(S)
    PROVE  /\ \A x \in S : RankIn(S, x) \in 0..(Cardinality(S) - 1)
           /\ \A x, y \in S : x < y => RankIn(S, x) < RankIn(S, y)
  <1> DEFINE B(x) == {y \in S : y < x}
  <1>1. ASSUME NEW x \in S PROVE IsFiniteSet(B(x)) /\ Cardinality(B(x)) \in Nat
    <2>1. B(x) \in SUBSET S
      OBVIOUS
    <2> HIDE DEF B
    <2> QED
      BY <2>1, FS_Subset, FS_CardinalityType
  <1>2. ASSUME NEW x \in S PROVE Cardinality(B(x)) < Cardinality(S)
    <2>1. B(x) \in SUBSET S /\ x \notin B(x)
      OBVIOUS
    <2> HIDE DEF B
    <2>2. Cardinality(B(x)) <= Cardinality(S) /\ Cardinality(S) # Cardinality(B(x))
      BY <2>1, FS_Subset
    <2> QED
      BY <1>1, <2>2, FS_CardinalityType
  <1>3. ASSUME NEW x \in S, NEW y \in S, x < y PROVE Cardinality(B(x)) < Cardinality(B(y))
    <2>3. \A z \in S : z < x => z < y
      BY <1>3
    <2>4. ~ (x < x)
      OBVIOUS
    <2>1. B(x) \in SUBSET B(y) /\ x \notin B(x) /\ x \in B(y)
      BY <1>3, <2>3, <2>4
    <2> HIDE DEF B
    <2>2. Cardinality(B(x)) <= Cardinality(B(y)) /\ Cardinality(B(y)) # Cardinality(B(x))
      BY <2>1, <1>1, FS_Subset
    <2> QED
      BY <1>1, <2>2
  <1>4. \A x : RankIn(S, x) = Cardinality(B(x))
    BY DEF RankIn
  <1>5. Cardinality(S) \in Nat
    BY FS_CardinalityType
  <1> HIDE DEF B
  <1> QED
    BY <1>1, <1>2, <1>3, <1>4, <1>5

LEMMA RanksAreAll ==
    ASSUME NEW S \in SUBSET Nat, IsFiniteSet(S)
    PROVE  \A k \in 0..(Cardinality(S) - 1) : \E x \in S : RankIn(S, x) = k
  <1> DEFINE N == Cardinality(S)
             f == [x \in S |-> RankIn(S, x)]
  <1>1. N \in Nat
    BY FS_CardinalityType
  <1>2. f \in [S -> 0..(N - 1)]
    BY RanksAscend
  <1>3. ASSUME NEW x \in S, NEW y \in S, f[x] = f[y] PROVE x = y
    <2>1. x \in Nat /\ y \in Nat
      OBVIOUS
    <2>2. f[x] \in Int /\ f[y] \in Int
      BY <1>2
    <2>3. ~ (x < y) /\ ~ (y < x)
      BY <1>3, <2>2, RanksAscend
    <2> QED
      BY <2>1, <2>3
  <1> HIDE DEF f
  <1>4. f \in Injection(S, 0..(N - 1))
    BY <1>2, <1>3 DEF Injection, IsInjective
  <1>5. IsFiniteSet(0..(N - 1)) /\ Cardinality(0..(N - 1)) = N
    <2>1. 0 \in Int /\ N - 1 \in Int
      BY <1>1
    <2>2. IsFiniteSet(0..(N - 1)) /\ Cardinality(0..(N - 1)) = IF 0 > N - 1 THEN 0 ELSE N - 1 - 0 + 1
      BY <2>1, FS_Interval
    <2> HIDE DEF N
    <2> QED
      BY <1>1, <2>2
  <1>6. f \in Surjection(S, 0..(N - 1))
    BY <1>4, <1>5, FS_Injection
  <1>7. \A k \in 0..(N - 1) : \E x \in S : f[x] = k
    BY <1>6 DEF Surjection
  <1> QED
    BY <1>7 DEF f

\* The elements of a finite set, the smallest first.
LEMMA AscendingFacts ==
    ASSUME NEW S \in SUBSET Nat, IsFiniteSet(S), NEW s, s = Ascending(S)
    PROVE  /\ IsList(s) /\ Len(s) = Cardinality(S)
           /\ \A i \in 1..Len(s) : s[i] \in S
           /\ \A x \in S : \E i \in 1..Len(s) : s[i] = x
           /\ \A i, j \in 1..Len(s) : i < j => s[i] < s[j]
  <1> DEFINE At(i) == CHOOSE x \in S : Cardinality({y \in S : y < x}) = i - 1
             N == Cardinality(S)
  <1>1. N \in Nat
    BY FS_CardinalityType
  <1>2. s = [i \in 1..N |-> At(i)]
    BY Zenon DEF Ascending
  <1>3. ASSUME NEW i \in 1..N PROVE At(i) \in S /\ RankIn(S, At(i)) = i - 1
    <2>1. i - 1 \in 0..(N - 1)
      BY <1>1
    <2>2. \E x \in S : Cardinality({y \in S : y < x}) = i - 1
      BY <2>1, RanksAreAll DEF RankIn
    <2>3. At(i) \in S /\ Cardinality({y \in S : y < At(i)}) = i - 1
      BY <2>2, Zenon
    <2> QED
      BY <2>3, Zenon DEF RankIn
  <1> HIDE DEF At
  <1>4. s = [i \in 1..N |-> s[i]]
    BY ONLY <1>2
  <1>5. IsList(s) /\ Len(s) = N
    BY <1>1, <1>4, ListBuilt
  <1>6. \A i \in 1..N : s[i] \in S /\ RankIn(S, s[i]) = i - 1
    BY <1>2, <1>3
  <1>7. ASSUME NEW x \in S, NEW y \in S, RankIn(S, x) <= RankIn(S, y) PROVE x <= y
    <2>1. x \in Nat /\ y \in Nat /\ RankIn(S, x) \in Int /\ RankIn(S, y) \in Int
      BY RanksAscend
    <2>2. ~ (y < x)
      BY <1>7, <2>1, RanksAscend
    <2> QED
      BY <2>1, <2>2
  <1>8. ASSUME NEW x \in S PROVE \E i \in 1..N : s[i] = x
    <2> DEFINE i == RankIn(S, x) + 1
    <2>1. i \in 1..N /\ RankIn(S, x) = i - 1 /\ i - 1 \in Int
      BY <1>1, RanksAscend
    <2> HIDE DEF i
    <2>2. s[i] \in S /\ RankIn(S, s[i]) = RankIn(S, x)
      BY <1>6, <2>1
    <2>5. RankIn(S, x) <= RankIn(S, s[i]) /\ RankIn(S, s[i]) <= RankIn(S, x)
      BY <2>1, <2>2
    <2>3. s[i] <= x /\ x <= s[i]
      BY <1>7, <2>2, <2>5
    <2>6. s[i] \in Nat /\ x \in Nat
      BY <2>2
    <2>4. s[i] = x
      BY <2>6, <2>3
    <2> QED
      BY <2>1, <2>4
  <1>9. ASSUME NEW i \in 1..N, NEW j \in 1..N, i < j PROVE s[i] < s[j]
    <2> DEFINE x == s[i]
               y == s[j]
    <2>1. x \in S /\ y \in S /\ RankIn(S, x) = i - 1 /\ RankIn(S, y) = j - 1 /\ x \in Nat /\ y \in Nat
      BY <1>6
    <2> HIDE DEF x, y
    <2>2. RankIn(S, x) <= RankIn(S, y) /\ RankIn(S, x) # RankIn(S, y)
      BY <1>1, <1>9, <2>1
    <2>3. x <= y /\ x # y
      BY <1>7, <2>1, <2>2
    <2>4. x < y
      BY <2>1, <2>3
    <2> QED
      BY <2>4 DEF x, y
  <1> QED
    BY <1>5, <1>6, <1>8, <1>9

(***************************************************************************)
(* Sorting sorts.                                                          *)
(***************************************************************************)
\* A list of nodes whose positions ascend, and one without equal positions.
AreRising(s) ==
    /\ IsList(s)
    /\ \A i \in 1..Len(s) : s[i].pos \in Nat
    /\ \A i, j \in 1..Len(s) : i < j => s[i].pos <= s[j].pos

AreStrictlyRising(s) ==
    /\ IsList(s)
    /\ \A i \in 1..Len(s) : s[i].pos \in Nat
    /\ \A i, j \in 1..Len(s) : i < j => s[i].pos < s[j].pos

LEMMA InsertNodeRises ==
    ASSUME NEW s, AreRising(s), NEW node, node.pos \in Nat
    PROVE  AreRising(InsertNode(s, node)) /\ Len(InsertNode(s, node)) = Len(s) + 1
  <1> DEFINE n == Len(s)
             B == {i \in 1..n : s[i].pos <= node.pos}
             c == Cardinality(B)
             j == c + 1
             u == InsertAt(s, j, node)
  <1>1. n \in Nat /\ IsList(s)
    BY ListFacts DEF AreRising
  <1>2. B = 1..c /\ c \in 0..n
    <2>1. B \in SUBSET (1..n)
      OBVIOUS
    <2>2. ASSUME NEW i \in B, NEW k \in 1..n, k < i PROVE k \in B
      <3>1. s[k].pos \in Nat /\ s[i].pos \in Nat /\ s[k].pos <= s[i].pos /\ s[i].pos <= node.pos
        BY <2>2 DEF AreRising
      <3>2. s[k].pos <= node.pos
        BY <3>1
      <3> QED
        BY <3>2
    <2> HIDE DEF B
    <2> QED
      BY <1>1, <2>1, <2>2, InitialSegment
  <1>3. InsertNode(s, node) = u
    <2>1. InsertNode(s, node) = InsertAt(s, 1 + c, node)
      BY DEF InsertNode
    <2>2. 1 + c = j
      BY <1>1, <1>2
    <2> QED
      BY <2>1, <2>2
  <1>4. \A i \in 1..n : i <= c <=> s[i].pos <= node.pos
    <2>1. \A i \in 1..n : i \in B <=> s[i].pos <= node.pos
      OBVIOUS
    <2>2. \A i \in 1..n : i \in 1..c <=> i <= c
      BY <1>2
    <2> HIDE DEF B
    <2> QED
      BY <1>2, <2>1, <2>2
  <1>5. j \in 1..(n + 1)
    BY <1>1, <1>2
  <1> HIDE DEF B, c
  <1>6. /\ IsList(u) /\ Len(u) = n + 1 /\ u[j] = node
        /\ \A i \in 1..n : u[Shifted(i, j)] = s[i]
    BY <1>1, <1>5, ListInsert
  <1> HIDE DEF n, j, u
  <1>7. \A i \in 1..n : s[i].pos \in Nat
    BY DEF AreRising, n
  <1>8. \A i, k \in 1..n : i < k => s[i].pos <= s[k].pos
    BY DEF AreRising, n
  <1>9. \A i \in 1..n : i < j <=> s[i].pos <= node.pos
    BY <1>1, <1>2, <1>4 DEF j
  <1>10. ASSUME NEW a \in 1..(n + 1)
         PROVE  a = j \/ \E i \in 1..n : a = Shifted(i, j)
    BY <1>1, <1>5, ShiftedFacts
  <1>11. ASSUME NEW a \in 1..(n + 1) PROVE u[a].pos \in Nat
    BY <1>6, <1>7, <1>10
  <1>12. ASSUME NEW a \in 1..(n + 1), NEW b \in 1..(n + 1), a < b PROVE u[a].pos <= u[b].pos
    <2>1. CASE a = j
      <3>1. PICK k \in 1..n : b = Shifted(k, j)
        BY <1>1, <1>5, <1>12, <2>1, <1>10
      <3>2. ~ (k < j)
        BY <1>1, <1>5, <1>12, <2>1, <3>1 DEF Shifted
      <3>3. ~ (s[k].pos <= node.pos) /\ s[k].pos \in Nat
        BY <1>7, <1>9, <3>2
      <3>4. node.pos <= s[k].pos
        BY <3>3
      <3> QED
        BY <1>6, <2>1, <3>1, <3>4
    <2>2. CASE b = j
      <3>1. PICK k \in 1..n : a = Shifted(k, j)
        BY <1>1, <1>5, <1>12, <2>2, <1>10
      <3>2. k < j
        BY <1>1, <1>5, <1>12, <2>2, <3>1 DEF Shifted
      <3>3. s[k].pos <= node.pos
        BY <1>9, <3>2
      <3> QED
        BY <1>6, <2>2, <3>1, <3>3
    <2>3. CASE a # j /\ b # j
      <3>1. PICK i \in 1..n : a = Shifted(i, j)
        BY <2>3, <1>10
      <3>2. PICK k \in 1..n : b = Shifted(k, j)
        BY <2>3, <1>10
      <3>3. i < k
        BY <1>1, <1>5, <1>12, <3>1, <3>2 DEF Shifted
      <3>4. s[i].pos <= s[k].pos
        BY <1>8, <3>3
      <3> QED
        BY <1>6, <3>1, <3>2, <3>4
    <2> QED
      BY <2>1, <2>2, <2>3
  <1>13. AreRising(u) /\ Len(u) = n + 1
    BY <1>6, <1>11, <1>12 DEF AreRising
  <1> QED
    BY <1>3, <1>13 DEF n

LEMMA SortNodesRises ==
    ASSUME NEW nodes, IsList(nodes), \A i \in 1..Len(nodes) : nodes[i].pos \in Nat
    PROVE  AreRising(SortNodes(nodes))
  <1> DEFINE N == Len(nodes)
             f == CHOOSE g : IsSorting(g, nodes)
             S == {k \in Nat : k <= N => AreRising(f[k])}
  <1>1. N \in Nat
    BY ListFacts
  <1>2. IsSorting(f, nodes)
    BY <1>1, SortingExists
  <1>3. SortNodes(nodes) = f[N]
    BY DEF SortNodes, IsSorting
  <1> HIDE DEF f
  <1>4. f[0] = <<>>
    BY <1>1, <1>2 DEF IsSorting
  <1>5. \A k \in 1..N : f[k] = InsertNode(f[k - 1], nodes[k])
    BY <1>1, <1>2 DEF IsSorting
  <1>6. \A k \in 1..N : nodes[k].pos \in Nat
    OBVIOUS
  <1> HIDE DEF N
  <1>7. 0 \in S
    BY <1>4, NoList DEF AreRising
  <1>8. ASSUME NEW k \in Nat, k \in S PROVE k + 1 \in S
    <2>0. CASE ~ (k + 1 <= N)
      BY <2>0
    <2>1. CASE k + 1 <= N
      <3>1. AreRising(f[k])
        BY <1>1, <1>8, <2>1
      <3>2. k + 1 \in 1..N /\ (k + 1) - 1 = k
        BY <1>1, <2>1
      <3>3. f[k + 1] = InsertNode(f[k], nodes[k + 1]) /\ nodes[k + 1].pos \in Nat
        BY <1>5, <1>6, <3>2
      <3>4. AreRising(f[k + 1])
        BY <3>1, <3>3, InsertNodeRises
      <3> QED
        BY <3>4
    <2> QED
      BY <2>0, <2>1
  <1>9. Nat \subseteq S
    <2> HIDE DEF S
    <2> QED
      BY <1>7, <1>8, NatInductionOn
  <1> QED
    BY <1>1, <1>3, <1>9

\* Nodes at different positions are sorted into a list of strictly rising ones,
\* which are the same nodes.
AreAmong(s, t) == \A i \in 1..Len(s) : \E j \in 1..Len(t) : s[i] = t[j]

LEMMA SortedNodes ==
    ASSUME NEW nodes, IsList(nodes), \A i \in 1..Len(nodes) : nodes[i].pos \in Nat,
           \A i, j \in 1..Len(nodes) : i # j => nodes[i].pos # nodes[j].pos,
           NEW s, s = SortNodes(nodes)
    PROVE  AreStrictlyRising(s) /\ Len(s) = Len(nodes) /\ AreAmong(nodes, s) /\ AreAmong(s, nodes)
  <1> DEFINE N == Len(nodes)
  <1>1. N \in Nat
    BY ListFacts
  <1>2. PICK p : Arranges(p, N, nodes, s)
    BY SortNodesArranges
  <1>3. /\ IsList(s) /\ Len(s) = N /\ p \in [1..N -> 1..N]
        /\ \A j \in 1..N : \E i \in 1..N : p[i] = j
        /\ \A i \in 1..N : s[p[i]] = nodes[i]
    BY <1>2 DEF Arranges
  <1>4. AreRising(s)
    BY SortNodesRises
  <1>5. ASSUME NEW a \in 1..N, NEW b \in 1..N, a < b PROVE s[a].pos < s[b].pos
    <2>1. s[a].pos \in Nat /\ s[b].pos \in Nat /\ s[a].pos <= s[b].pos
      BY <1>3, <1>4, <1>5 DEF AreRising
    <2>2. PICK i \in 1..N : p[i] = a
      BY <1>3
    <2>3. PICK j \in 1..N : p[j] = b
      BY <1>3
    <2>4. i # j
      BY <1>5, <2>2, <2>3
    <2>5. s[a] = nodes[i] /\ s[b] = nodes[j]
      BY <1>3, <2>2, <2>3
    <2>6. s[a].pos # s[b].pos
      BY <2>4, <2>5
    <2> QED
      BY <2>1, <2>6
  <1>6. \A i \in 1..N : s[i].pos \in Nat
    BY <1>3, <1>4 DEF AreRising
  <1> HIDE DEF N
  <1>7. AreStrictlyRising(s)
    BY <1>3, <1>5, <1>6 DEF AreStrictlyRising
  <1>8. \A i \in 1..N : \E j \in 1..N : s[j] = nodes[i]
    BY <1>3
  <1>9. ASSUME NEW j \in 1..N PROVE \E i \in 1..N : s[j] = nodes[i]
    <2>1. PICK i \in 1..N : p[i] = j
      BY <1>3
    <2> QED
      BY <1>3, <2>1
  <1> QED
    BY <1>3, <1>7, <1>8, <1>9 DEF AreAmong, N

-----------------------------------------------------------------------------
(***************************************************************************)
(* The nodes of a forest of n leaves, by row and offset, and the way up.   *)
(***************************************************************************)
IsSpot(p, row, off, n) ==
    row \in Nat /\ off \in Nat /\ Covers(row, off, n) /\ p = First(row, TreeRows(n)) + off

LEMMA SpotPlace ==
    ASSUME NEW n \in Nat, n <= 2^MaxForestRows, NEW row, NEW off, NEW p, IsSpot(p, row, off, n)
    PROVE  LET rows == TreeRows(n)
           IN  /\ rows \in Nat /\ n <= 2^rows
               /\ row \in 0..rows /\ off \in Offsets(row, rows)
               /\ p \in Nat /\ DetectRow(p, rows) = row
               /\ p % 2 = off % 2
               /\ IsRootPosition(p, n, rows) <=> Tops(row, off, n)
               /\ IsRootPosition(p, n, rows) => p % 2 = 0
  <1> DEFINE rows == TreeRows(n)
             Q == 2^(rows - row)
  <1>1. rows \in Nat /\ n <= 2^rows
    BY TreeRowsFacts
  <1> HIDE DEF rows
  <1>2. row \in 0..rows /\ off \in Offsets(row, rows)
    BY <1>1, CoveredIsPlaced DEF IsSpot
  <1>3. row \in Nat /\ off \in Nat /\ p = First(row, rows) + off
    BY DEF IsSpot, rows
  <1>4. /\ First(row, rows) = 2^(rows + 1) - 2 * Q /\ First(row, rows) \in Nat
        /\ Q \in Nat /\ 2^(rows + 1) = 2 * 2^rows /\ 2^rows \in Nat
    BY <1>1, <1>2, FirstFacts
  <1>5. p \in Nat /\ p % 2 = off % 2
    <2> DEFINE f == First(row, rows)
               h == 2^rows
    <2>1. f = 2 * h - 2 * Q /\ p = f + off
      BY <1>3, <1>4
    <2> HIDE DEF f, h, Q
    <2>2. f \in Nat /\ h \in Nat /\ Q \in Nat
      BY <1>4 DEF f, h
    <2> QED
      BY <2>1, <2>2, <1>3
  <1>6. DetectRow(p, rows) = row
    BY <1>1, <1>2, <1>3, DetectRowOf
  <1>7. IsRootPosition(p, n, rows) <=> Tops(row, off, n)
    BY <1>1, <1>2, <1>3, IsRootPositionOf
  <1>8. Tops(row, off, n) => off % 2 = 0
    <2>1. Tops(row, off, n) => off = 2 * (n \div 2^(row + 1))
      BY <1>3, TopsFacts
    <2>2. n \div 2^(row + 1) \in Nat
      <3>1. row + 1 \in Nat
        BY <1>3
      <3> QED
        BY <3>1, <1>3, CoversFacts
    <2> DEFINE q == n \div 2^(row + 1)
    <2> HIDE DEF q
    <2>3. q \in Nat /\ (Tops(row, off, n) => off = 2 * q)
      BY <2>1, <2>2 DEF q
    <2> QED
      BY <2>3
  <1> QED
    BY <1>1, <1>2, <1>5, <1>6, <1>7, <1>8 DEF rows


\* A node that is no root has a sibling and a parent; the parent comes after
\* both, and parents come in the order of their children.
\* The position q of the parent of p.
IsHalfOf(q, p, rows) ==
    /\ q \in Nat /\ 2^(rows + 1) \in Nat
    /\ 2 * q + (p % 2) = p + 2^(rows + 1)
    /\ q > RightSibling(p)

LEMMA SpotAbove ==
    ASSUME NEW n \in Nat, n <= 2^MaxForestRows, NEW row, NEW off, NEW p, IsSpot(p, row, off, n),
           NEW rows, rows = TreeRows(n), ~ IsRootPosition(p, n, rows)
    PROVE  /\ IsSpot(Parent(p, rows), row + 1, off \div 2, n)
           /\ IsSpot(Sibling(p), row, OtherOffset(off), n)
           /\ ~ IsRootPosition(Sibling(p), n, rows)
           /\ Parent(Sibling(p), rows) = Parent(p, rows)
           /\ IsHalfOf(Parent(p, rows), p, rows)
           /\ row + 1 \in 0..rows
  <1> DEFINE Q == 2^(rows - row)
             other == OtherOffset(off)
             h == off \div 2
  <1>1. /\ rows \in Nat /\ n <= 2^rows /\ row \in 0..rows /\ off \in Offsets(row, rows)
        /\ p \in Nat /\ p % 2 = off % 2
        /\ ~ Tops(row, off, n)
    BY SpotPlace
  <1>2. row \in Nat /\ off \in Nat /\ Covers(row, off, n) /\ p = First(row, rows) + off
    BY DEF IsSpot
  <1>3. h \in Nat /\ row + 1 \in Nat
    BY <1>2
  <1>4. Covers(row + 1, h, n)
    BY <1>1, <1>2, TopsFacts
  <1>5. row + 1 \in 0..rows
    BY <1>1, <1>3, <1>4, CoveredIsPlaced
  <1>6. row \in 0..(rows - 1)
    BY <1>1, <1>2, <1>5
  <1>7. Parent(p, rows) = First(row + 1, rows) + h
    BY <1>1, <1>2, <1>6, ParentOf
  <1>8. Sibling(p) = First(row, rows) + other /\ other \in Offsets(row, rows) /\ other \div 2 = h
    BY <1>1, <1>2, <1>6, SiblingOf
  <1>9. other \in Nat
    BY <1>8 DEF Offsets
  <1>10. Covers(row, other, n) /\ ~ Tops(row, other, n)
    <2> HIDE DEF other
    <2>1. Covers(row + 1, other \div 2, n)
      BY <1>4, <1>8
    <2> QED
      BY <2>1, <1>2, <1>9, TopsFacts
  <1>11. IsSpot(Sibling(p), row, other, n)
    BY <1>2, <1>8, <1>9, <1>10 DEF IsSpot
  <1>12. ~ IsRootPosition(Sibling(p), n, rows)
    <2> HIDE DEF other
    <2> QED
      BY <1>10, <1>11, SpotPlace
  <1>13. Parent(Sibling(p), rows) = Parent(p, rows)
    <2> HIDE DEF other, h
    <2>1. Parent(First(row, rows) + other, rows) = First(row + 1, rows) + (other \div 2)
      BY <1>1, <1>6, <1>8, ParentOf
    <2> QED
      BY <2>1, <1>7, <1>8
  <1>14. IsSpot(Parent(p, rows), row + 1, h, n)
    BY <1>3, <1>4, <1>7 DEF IsSpot
  <1>15. /\ First(row, rows) = 2^(rows + 1) - 2 * Q /\ First(row, rows) \in Nat
         /\ Q \in Nat /\ 2^(rows + 1) = 2 * 2^rows /\ 2^rows \in Nat
    BY <1>1, FirstFacts
  <1>16. First(row + 1, rows) = 2^(rows + 1) - Q /\ First(row + 1, rows) \in Nat
    <2> DEFINE k == rows - (row + 1)
    <2>1. k \in Nat /\ rows - row = k + 1
      BY <1>1, <1>2, <1>6
    <2>2. 2^(k + 1) = 2 * 2^k
      BY <2>1, Powers
    <2>3. First(row + 1, rows) = 2^(rows + 1) - 2 * 2^k /\ First(row + 1, rows) \in Nat
      BY <1>1, <1>5, FirstFacts
    <2> QED
      BY <2>1, <2>2, <2>3
  <1>17. off < Q /\ off = 2 * h + (off % 2) /\ off % 2 \in {0, 1} /\ (off % 2 = 0 => off + 1 < Q)
    <2>1. off <= Q - 1 /\ off \in Nat
      BY <1>1, <1>2 DEF Offsets
    <2>2. off = 2 * h + (off % 2) /\ off % 2 \in {0, 1}
      BY <1>2
    <2>3. off % 2 = 0 => other = off + 1
      BY DEF OtherOffset
    <2>4. other <= Q - 1
      BY <1>8 DEF Offsets
    <2> HIDE DEF Q, h, other
    <2> QED
      BY <1>15, <2>1, <2>2, <2>3, <2>4
  <1> DEFINE par == Parent(p, rows)
             K == 2^(rows + 1)
             b == off % 2
  <1>18. RightSibling(p) = p - (p % 2) + 1
    BY DEF RightSibling, LeftSibling
  <1>19. K \in Nat
    BY <1>15
  <1>20. 2 * par + b = p + K /\ par \in Nat /\ par > p - b + 1
    <2>1. par = K - Q + h /\ p = K - 2 * Q + off
      BY <1>2, <1>7, <1>15, <1>16
    <2>2. b \in {0, 1} /\ off = 2 * h + b /\ off < Q /\ (b = 0 => off + 1 < Q)
      BY <1>17
    <2>3. K - Q \in Nat /\ h \in Nat /\ Q \in Nat /\ off \in Nat /\ K \in Nat
      BY <1>2, <1>3, <1>15, <1>16, <1>19
    <2> HIDE DEF par, K, Q, h, b
    <2> QED
      BY <2>1, <2>2, <2>3
  <1>21. IsHalfOf(par, p, rows)
    BY <1>1, <1>18, <1>19, <1>20 DEF IsHalfOf
  <1> QED
    BY <1>5, <1>11, <1>12, <1>13, <1>14, <1>21

-----------------------------------------------------------------------------
(***************************************************************************)
(* The nodes of a tree, at their positions.                                *)
(***************************************************************************)
IsPlacing(f, rows) ==
    f = [u \in Trees |-> [p \in Nat |->
            {<<p, u>>} \cup
            (IF IsBranchHash(u)
             THEN f[u[1]][LeftChild(p, rows)] \cup f[u[2]][RightChild(p, rows)]
             ELSE {})]]

LEMMA ChildPositions ==
    ASSUME NEW rows \in Nat, NEW p \in Nat
    PROVE  LeftChild(p, rows) \in Nat /\ RightChild(p, rows) \in Nat
  <1>1. 2^(rows + 1) \in Nat /\ 2^(rows + 1) >= 1
    <2>1. rows + 1 \in Nat
      OBVIOUS
    <2> QED
      BY <2>1, Powers
  <1> DEFINE m == 2^(rows + 1)
  <1> HIDE DEF m
  <1>2. m \in Nat /\ m >= 1
    BY <1>1 DEF m
  <1>3. (2 * p) % m \in Nat
    BY <1>2
  <1> QED
    BY <1>3 DEF LeftChild, RightChild, m

LEMMA PlacingExists == ASSUME NEW rows \in Nat PROVE \E f : IsPlacing(f, rows)
  <1> DEFINE W == SUBSET (Nat \X Trees)
             z == [t \in Trees |-> [p \in Nat |-> {<<p, t>>}]]
             Join(t, x, y) == [p \in Nat |-> {<<p, t>>} \cup (x[LeftChild(p, rows)] \cup y[RightChild(p, rows)])]
             step == [t \in Trees |-> [x \in [Nat -> W] |-> [y \in [Nat -> W] |-> Join(t, x, y)]]]
             V == [t \in Trees |-> [Nat -> W]]
  <1>1. ASSUME NEW t \in Trees, NEW x \in [Nat -> W], NEW y \in [Nat -> W] PROVE Join(t, x, y) \in [Nat -> W]
    <2>1. ASSUME NEW p \in Nat PROVE {<<p, t>>} \cup (x[LeftChild(p, rows)] \cup y[RightChild(p, rows)]) \in W
      <3>1. x[LeftChild(p, rows)] \in W /\ y[RightChild(p, rows)] \in W
        BY ChildPositions
      <3>2. <<p, t>> \in Nat \X Trees
        OBVIOUS
      <3> QED
        BY <3>1, <3>2
    <2> QED
      BY <2>1
  <1>2. ValuesIn(V, Trees, NoPair, z, FirstHalf, SecondHalf, step)
    <2>1. ASSUME NEW t \in Trees, t \in NoPair PROVE z[t] \in V[t]
      OBVIOUS
    <2>2. ASSUME NEW t \in Trees \ NoPair, NEW x \in V[FirstHalf[t]], NEW y \in V[SecondHalf[t]]
          PROVE step[t][x][y] \in V[t]
      <3>1. FirstHalf[t] \in Trees /\ SecondHalf[t] \in Trees
        BY HalvesDescend DEF Descends
      <3>2. x \in [Nat -> W] /\ y \in [Nat -> W]
        BY <3>1
      <3> HIDE DEF Join, W
      <3> QED
        BY <3>2, <1>1
    <2> HIDE DEF z, step, V
    <2> QED
      BY <2>1, <2>2 DEF ValuesIn
  <1>3. PICK f : /\ f = [t \in Trees |-> f[t]]
                 /\ \A t \in Trees : f[t] \in V[t]
                 /\ Solves(f, Trees, NoPair, z, FirstHalf, SecondHalf, step)
    <2> HIDE DEF z, step, V
    <2> QED
      BY <1>2, HalvesDescend, RecursionExists
  <1> DEFINE Rhs(t) == [p \in Nat |->
            {<<p, t>>} \cup
            (IF IsBranchHash(t)
             THEN f[t[1]][LeftChild(p, rows)] \cup f[t[2]][RightChild(p, rows)]
             ELSE {})]
  <1>4. ASSUME NEW t \in Trees PROVE f[t] = Rhs(t)
    <2>1. CASE IsBranchHash(t)
      <3>1. t[1] \in Trees /\ t[2] \in Trees
        BY <2>1, Halves
      <3>2. f[t[1]] \in [Nat -> W] /\ f[t[2]] \in [Nat -> W]
        BY <1>3, <3>1
      <3>3. f[t] = step[t][f[t[1]]][f[t[2]]]
        BY <1>3, <2>1 DEF Solves, NoPair, FirstHalf, SecondHalf
      <3> HIDE DEF W
      <3>4. f[t] = Join(t, f[t[1]], f[t[2]])
        <4> HIDE DEF Join
        <4> QED
          BY <3>2, <3>3
      <3> QED
        BY <2>1, <3>4
    <2>2. CASE ~ IsBranchHash(t)
      <3>1. f[t] = z[t]
        BY <1>3, <2>2 DEF Solves, NoPair
      <3> QED
        BY <2>2, <3>1
    <2> QED
      BY <2>1, <2>2
  <1>5. f = [t \in Trees |-> Rhs(t)]
    <2> HIDE DEF z, step, V, Rhs
    <2> QED
      BY <1>3, <1>4
  <1>6. IsPlacing(f, rows)
    BY <1>5 DEF IsPlacing
  <1> QED
    BY <1>6

LEMMA PlacedEquation ==
    ASSUME NEW rows \in Nat, NEW t \in Trees, NEW p \in Nat
    PROVE  Placed(t, p, rows) =
               {<<p, t>>} \cup
               (IF IsBranchHash(t)
                THEN Placed(t[1], LeftChild(p, rows), rows) \cup Placed(t[2], RightChild(p, rows), rows)
                ELSE {})
  <1> DEFINE f == CHOOSE g : IsPlacing(g, rows)
  <1>1. IsPlacing(f, rows)
    BY PlacingExists
  <1>2. \A u, q : Placed(u, q, rows) = f[u][q]
    BY DEF Placed, IsPlacing
  <1> HIDE DEF f
  <1>3. f[t] = [q \in Nat |->
            {<<q, t>>} \cup
            (IF IsBranchHash(t)
             THEN f[t[1]][LeftChild(q, rows)] \cup f[t[2]][RightChild(q, rows)]
             ELSE {})]
    BY <1>1 DEF IsPlacing
  <1>4. f[t][p] = {<<p, t>>} \cup
            (IF IsBranchHash(t)
             THEN f[t[1]][LeftChild(p, rows)] \cup f[t[2]][RightChild(p, rows)]
             ELSE {})
    BY <1>3
  <1> QED
    BY <1>2, <1>4


\* The children of a node above the leaves' row are in the forest too.
LEMMA SpotBelow ==
    ASSUME NEW n \in Nat, n <= 2^MaxForestRows, NEW row, NEW off, NEW p, IsSpot(p, row, off, n), row # 0,
           NEW rows, rows = TreeRows(n)
    PROVE  /\ row - 1 \in Nat
           /\ IsSpot(LeftChild(p, rows), row - 1, 2 * off, n)
           /\ IsSpot(RightChild(p, rows), row - 1, 2 * off + 1, n)
           /\ LeftChild(p, rows) % 2 = 0 /\ RightChild(p, rows) % 2 = 1
           /\ RightChild(p, rows) = LeftChild(p, rows) + 1
           /\ ~ IsRootPosition(LeftChild(p, rows), n, rows)
           /\ ~ IsRootPosition(RightChild(p, rows), n, rows)
           /\ Parent(LeftChild(p, rows), rows) = p
           /\ Parent(RightChild(p, rows), rows) = p
  <1> DEFINE l == LeftChild(p, rows)
             r == RightChild(p, rows)
             below == row - 1
             lo == 2 * off
             ro == 2 * off + 1
  <1>1. rows \in Nat /\ n <= 2^rows /\ row \in 0..rows /\ off \in Offsets(row, rows)
    BY SpotPlace
  <1>2. row \in Nat /\ off \in Nat /\ Covers(row, off, n) /\ p = First(row, rows) + off
    BY DEF IsSpot
  <1>3. below \in Nat /\ below + 1 = row /\ row \in 1..rows /\ below \in 0..(rows - 1)
    BY <1>1, <1>2
  <1>4. lo \in Nat /\ ro \in Nat /\ lo \div 2 = off /\ ro \div 2 = off /\ lo % 2 = 0 /\ ro % 2 = 1
    BY <1>2
  <1>5. l = First(below, rows) + lo /\ r = First(below, rows) + ro
        /\ lo \in Offsets(below, rows) /\ ro \in Offsets(below, rows)
    BY <1>1, <1>2, <1>3, ChildrenOf
  <1> HIDE DEF l, r, lo, ro, below
  <1>6. ASSUME NEW k \in Nat, k \div 2 = off PROVE Covers(below, k, n) /\ ~ Tops(below, k, n)
    <2>1. Covers(below + 1, k \div 2, n)
      BY <1>2, <1>3, <1>6
    <2> QED
      BY <1>3, <2>1, TopsFacts, Zenon
  <1>7. Covers(below, lo, n) /\ ~ Tops(below, lo, n) /\ Covers(below, ro, n) /\ ~ Tops(below, ro, n)
    BY <1>4, <1>6
  <1>8. IsSpot(l, below, lo, n) /\ IsSpot(r, below, ro, n)
    BY <1>3, <1>4, <1>5, <1>7 DEF IsSpot
  <1>9. l % 2 = 0 /\ ~ IsRootPosition(l, n, rows) /\ r % 2 = 1 /\ ~ IsRootPosition(r, n, rows)
    BY <1>4, <1>7, <1>8, SpotPlace
  <1>10. Parent(l, rows) = First(below + 1, rows) + (lo \div 2)
    BY <1>1, <1>3, <1>5, ParentOf
  <1>11. Parent(r, rows) = First(below + 1, rows) + (ro \div 2)
    BY <1>1, <1>3, <1>5, ParentOf
  <1>12. r = l + 1
    BY DEF RightChild, l, r
  <1> QED
    BY <1>2, <1>3, <1>4, <1>8, <1>9, <1>10, <1>11, <1>12 DEF l, r, lo, ro, below

\* A node of the forest, and a tree that fits there.
IsNode(p, t, n) == t \in WholeTrees /\ \E row, off : IsSpot(p, row, off, n) /\ Height[t] <= row

Half(t, p) == IF p % 2 = 0 THEN t[1] ELSE t[2]

\* The node at p is a child of another node of X.
Hangs(X, p, t, n) ==
    /\ ~ IsRootPosition(p, n, TreeRows(n))
    /\ \E v : <<Parent(p, TreeRows(n)), v>> \in X /\ IsBranchHash(v) /\ t = Half(v, p)

HasChildren(X, p, t, n) ==
    <<LeftChild(p, TreeRows(n)), t[1]>> \in X /\ <<RightChild(p, TreeRows(n)), t[2]>> \in X

IsTreeAt(X, top, t, n) ==
    /\ <<top, t>> \in X
    /\ \A p, u : <<p, u>> \in X => IsNode(p, u, n)
    /\ \A p, u : <<p, u>> \in X => (p = top /\ u = t) \/ Hangs(X, p, u, n)
    /\ \A p, u : <<p, u>> \in X /\ IsBranchHash(u) => HasChildren(X, p, u, n)
    /\ \A h \in LeafSets[t] : \E p : <<p, h>> \in X

LEMMA TwoTreesAt ==
    ASSUME NEW n, NEW rows, rows = TreeRows(n), NEW p, NEW t, IsNode(p, t, n), IsBranchHash(t),
           LeafSets[t] = LeafSets[t[1]] \cup LeafSets[t[2]],
           NEW l, l = LeftChild(p, rows), l % 2 = 0, Parent(l, rows) = p, ~ IsRootPosition(l, n, rows),
           NEW r, r = RightChild(p, rows), r % 2 = 1, Parent(r, rows) = p, ~ IsRootPosition(r, n, rows),
           NEW L, IsTreeAt(L, l, t[1], n), NEW R, IsTreeAt(R, r, t[2], n)
    PROVE  IsTreeAt({<<p, t>>} \cup (L \cup R), p, t, n)
  <1> DEFINE X == {<<p, t>>} \cup (L \cup R)
  <1>1. \A q, u : <<q, u>> \in X => (q = p /\ u = t) \/ <<q, u>> \in L \/ <<q, u>> \in R
    OBVIOUS
  <1>2. <<p, t>> \in X /\ L \subseteq X /\ R \subseteq X
    OBVIOUS
  <1> HIDE DEF X
  <1>3. \A q, u : <<q, u>> \in X => IsNode(q, u, n)
    BY <1>1 DEF IsTreeAt
  <1>4. ASSUME NEW q, NEW u, <<q, u>> \in X PROVE (q = p /\ u = t) \/ Hangs(X, q, u, n)
    <2>1. \A Y : Y \subseteq X /\ Hangs(Y, q, u, n) => Hangs(X, q, u, n)
      BY DEF Hangs
    <2>2. CASE <<q, u>> \in L
      <3>1. CASE q = l /\ u = t[1]
        BY <3>1, <1>2 DEF Hangs, Half
      <3>2. CASE Hangs(L, q, u, n)
        BY <3>2, <2>1, <1>2
      <3> QED
        BY <2>2, <3>1, <3>2 DEF IsTreeAt
    <2>3. CASE <<q, u>> \in R
      <3>1. CASE q = r /\ u = t[2]
        <4>1. ~ (q % 2 = 0)
          BY <3>1
        <4> QED
          BY <3>1, <4>1, <1>2 DEF Hangs, Half
      <3>2. CASE Hangs(R, q, u, n)
        BY <3>2, <2>1, <1>2
      <3> QED
        BY <2>3, <3>1, <3>2 DEF IsTreeAt
    <2> QED
      BY <1>1, <1>4, <2>2, <2>3
  <1>5. ASSUME NEW q, NEW u, <<q, u>> \in X, IsBranchHash(u) PROVE HasChildren(X, q, u, n)
    <2>1. CASE q = p /\ u = t
      BY <2>1, <1>2 DEF HasChildren, IsTreeAt
    <2>2. CASE <<q, u>> \in L
      BY <2>2, <1>2, <1>5 DEF HasChildren, IsTreeAt
    <2>3. CASE <<q, u>> \in R
      BY <2>3, <1>2, <1>5 DEF HasChildren, IsTreeAt
    <2> QED
      BY <1>1, <1>5, <2>1, <2>2, <2>3
  <1>6. ASSUME NEW h \in LeafSets[t] PROVE \E q : <<q, h>> \in X
    <2>1. CASE h \in LeafSets[t[1]]
      BY <2>1, <1>2 DEF IsTreeAt
    <2>2. CASE h \in LeafSets[t[2]]
      BY <2>2, <1>2 DEF IsTreeAt
    <2> QED
      BY <2>1, <2>2
  <1>7. IsTreeAt(X, p, t, n)
    BY <1>2, <1>3, <1>4, <1>5, <1>6 DEF IsTreeAt
  <1> QED
    BY <1>7 DEF X

LEMMA PlacedIsTree ==
    ASSUME NEW n \in Nat, n <= 2^MaxForestRows
    PROVE  \A t \in WholeTrees : \A p : IsNode(p, t, n) => IsTreeAt(Placed(t, p, TreeRows(n)), p, t, n)
  <1> DEFINE rows == TreeRows(n)
             S == {t \in WholeTrees : \A p : IsNode(p, t, n) => IsTreeAt(Placed(t, p, rows), p, t, n)}
  <1>1. rows \in Nat
    BY TreeRowsFacts
  <1> HIDE DEF rows
  <1>2. ASSUME NEW t \in WholeTrees, ~ IsBranchHash(t), LeafSets[t] \subseteq {t} PROVE t \in S
    <2> SUFFICES ASSUME NEW p, IsNode(p, t, n) PROVE IsTreeAt(Placed(t, p, rows), p, t, n)
      OBVIOUS
    <2>1. p \in Nat /\ t \in Trees
      BY SpotPlace, WholeTreesAreWhole DEF IsNode
    <2>2. Placed(t, p, rows) = {<<p, t>>}
      BY <1>1, <1>2, <2>1, PlacedEquation
    <2>3. \A q, u : <<q, u>> \in {<<p, t>>} => q = p /\ u = t
      OBVIOUS
    <2>4. IsTreeAt({<<p, t>>}, p, t, n)
      BY <1>2, <2>3 DEF IsTreeAt
    <2> QED
      BY <2>2, <2>4
  <1>3. Empty \in S
    <2>1. Empty \in WholeTrees /\ Empty \in Trees
      BY LowTreesAreWhole, WholeTreesAreWhole
    <2>2. ~ IsBranchHash(Empty) /\ ~ IsLeafHash(Empty)
      BY DEF Empty, IsBranchHash, IsLeafHash
    <2>3. LeafSets[Empty] = {}
      BY <2>1, <2>2, LeafSetsEquation
    <2> QED
      BY <1>2, <2>1, <2>2, <2>3
  <1>4. LeafTrees \subseteq S
    <2> SUFFICES ASSUME NEW t \in LeafTrees PROVE t \in S
      OBVIOUS
    <2>1. LeafSets[t] = {t} /\ t \in WholeTrees
      BY LeafTreeFacts, LowTreesAreWhole
    <2>2. ~ IsBranchHash(t)
      <3>1. t \in TreesUpTo[0]
        <4>1. t \in Trees /\ Height[t] = 0
          BY LeafTreeFacts, WholeTreesAreWhole
        <4> QED
          BY <4>1, HeightFacts
      <3> QED
        BY <3>1, TreeKinds
    <2> QED
      BY <1>2, <2>1, <2>2
  <1>5. ASSUME NEW t \in WholeTrees, IsBranchHash(t), t[1] \in S, t[2] \in S PROVE t \in S
    <2> SUFFICES ASSUME NEW p, IsNode(p, t, n) PROVE IsTreeAt(Placed(t, p, rows), p, t, n)
      OBVIOUS
    <2> DEFINE l == LeftChild(p, rows)
               r == RightChild(p, rows)
    <2>1. PICK row, off : IsSpot(p, row, off, n) /\ Height[t] <= row
      BY DEF IsNode
    <2>2. /\ t \in Trees /\ LeafSets[t] = LeafSets[t[1]] \cup LeafSets[t[2]]
          /\ t[1] \in WholeTrees /\ t[2] \in WholeTrees
      BY <1>5, WholeHalves
    <2>3. /\ Height[t[1]] < Height[t] /\ Height[t[2]] < Height[t]
          /\ Height[t] \in Nat /\ Height[t[1]] \in Nat /\ Height[t[2]] \in Nat /\ row \in Nat
      BY <1>5, <2>1, <2>2, Halves, WholeHeights DEF IsSpot
    <2>4. row # 0 /\ Height[t[1]] <= row - 1 /\ Height[t[2]] <= row - 1
      BY <2>1, <2>3
    <2>5. /\ IsSpot(l, row - 1, 2 * off, n) /\ IsSpot(r, row - 1, 2 * off + 1, n)
          /\ l % 2 = 0 /\ r % 2 = 1
          /\ ~ IsRootPosition(l, n, rows) /\ ~ IsRootPosition(r, n, rows)
          /\ Parent(l, rows) = p /\ Parent(r, rows) = p
      BY <2>1, <2>4, SpotBelow DEF rows
    <2>6. p \in Nat
      BY <2>1, SpotPlace
    <2> HIDE DEF l, r
    <2>7. IsNode(l, t[1], n) /\ IsNode(r, t[2], n)
      BY <2>2, <2>4, <2>5 DEF IsNode
    <2>8. IsTreeAt(Placed(t[1], l, rows), l, t[1], n) /\ IsTreeAt(Placed(t[2], r, rows), r, t[2], n)
      BY <1>5, <2>7
    <2>9. Placed(t, p, rows) = {<<p, t>>} \cup (Placed(t[1], l, rows) \cup Placed(t[2], r, rows))
      BY <1>1, <1>5, <2>2, <2>6, PlacedEquation DEF l, r
    <2> DEFINE L == Placed(t[1], l, rows)
               R == Placed(t[2], r, rows)
    <2>10. rows = TreeRows(n) /\ l = LeftChild(p, rows) /\ r = RightChild(p, rows)
      BY DEF rows, l, r
    <2>11. IsTreeAt(L, l, t[1], n) /\ IsTreeAt(R, r, t[2], n)
      BY <2>8
    <2> HIDE DEF L, R
    <2>12. IsTreeAt({<<p, t>>} \cup (L \cup R), p, t, n)
      BY ONLY IsNode(p, t, n), <1>5, <2>2, <2>5, <2>10, <2>11, TwoTreesAt
    <2> QED
      BY <2>9, <2>12 DEF L, R
  <1>6. WholeTrees \subseteq S
    <2> HIDE DEF S
    <2> QED
      BY <1>3, <1>4, <1>5, WholeInduction
  <1> QED
    BY <1>6 DEF rows

-----------------------------------------------------------------------------
(***************************************************************************)
(* The rows of the roots, the highest first.                               *)
(***************************************************************************)
IsFalling(s) ==
    /\ IsList(s)
    /\ \A i \in 1..Len(s) : s[i] \in Nat
    /\ \A i, j \in 1..Len(s) : i < j => s[j] < s[i]

\* Of two falling lists of the same numbers, one begins as the other does.
LEMMA FallingAgree ==
    ASSUME NEW s, IsFalling(s), NEW t, IsFalling(t), AreAmong(s, t), AreAmong(t, s)
    PROVE  \A i \in Nat : i \in 1..Len(s) /\ i \in 1..Len(t) => s[i] = t[i]
  <1> DEFINE S == {i \in Nat : i \in 1..Len(s) /\ i \in 1..Len(t) => s[i] = t[i]}
  <1>0. Len(s) \in Nat /\ Len(t) \in Nat
    BY ListFacts DEF IsFalling
  <1>1. ASSUME NEW i \in Nat, \A k \in Nat : k < i => k \in S PROVE i \in S
    <2> SUFFICES ASSUME i \in 1..Len(s), i \in 1..Len(t) PROVE s[i] = t[i]
      OBVIOUS
    <2>1. PICK j \in 1..Len(t) : s[i] = t[j]
      BY DEF AreAmong
    <2>2. PICK k \in 1..Len(s) : t[i] = s[k]
      BY DEF AreAmong
    <2>3. s[i] \in Nat /\ t[i] \in Nat /\ s[k] \in Nat /\ t[j] \in Nat
      BY DEF IsFalling
    <2>4. ~ (j < i)
      <3> SUFFICES ASSUME j < i PROVE FALSE
        OBVIOUS
      <3>1. j \in Nat /\ j \in 1..Len(s)
        BY <1>0
      <3>2. s[j] = t[j]
        BY <1>1, <3>1
      <3>3. s[i] < s[j]
        BY <3>1 DEF IsFalling
      <3> QED
        BY <2>1, <2>3, <3>2, <3>3
    <2>5. ~ (k < i)
      <3> SUFFICES ASSUME k < i PROVE FALSE
        OBVIOUS
      <3>1. k \in Nat /\ k \in 1..Len(t)
        BY <1>0
      <3>2. s[k] = t[k]
        BY <1>1, <3>1
      <3>3. t[i] < t[k]
        BY <3>1 DEF IsFalling
      <3> QED
        BY <2>2, <2>3, <3>2, <3>3
    <2>6. t[j] <= t[i]
      <3>1. i < j => t[j] < t[i]
        BY DEF IsFalling
      <3> QED
        BY <2>3, <2>4, <3>1, <1>0
    <2>7. s[k] <= s[i]
      <3>1. i < k => s[k] < s[i]
        BY DEF IsFalling
      <3> QED
        BY <2>3, <2>5, <3>1, <1>0
    <2> QED
      BY <2>1, <2>2, <2>3, <2>6, <2>7
  <1>2. Nat \subseteq S
    <2> HIDE DEF S
    <2> QED
      BY <1>1, StrongInductionOn
  <1> QED
    BY <1>2

LEMMA FallingNoLonger ==
    ASSUME NEW s, IsFalling(s), NEW t, IsFalling(t), AreAmong(s, t), AreAmong(t, s)
    PROVE  ~ (Len(s) < Len(t))
  <1> SUFFICES ASSUME Len(s) < Len(t) PROVE FALSE
    OBVIOUS
  <1>0. Len(s) \in Nat /\ Len(t) \in Nat
    BY ListFacts DEF IsFalling
  <1> DEFINE k == Len(s) + 1
  <1>1. k \in 1..Len(t)
    BY <1>0
  <1>2. PICK j \in 1..Len(s) : t[k] = s[j]
    BY <1>1 DEF AreAmong
  <1>3. j \in Nat /\ j \in 1..Len(t) /\ j < k
    BY <1>0
  <1>4. s[j] = t[j]
    BY <1>3, FallingAgree
  <1>5. t[k] < t[j] /\ t[k] \in Nat
    BY <1>1, <1>3 DEF IsFalling
  <1> QED
    BY <1>2, <1>4, <1>5

LEMMA FallingUnique ==
    ASSUME NEW s, IsFalling(s), NEW t, IsFalling(t), AreAmong(s, t), AreAmong(t, s)
    PROVE  s = t
  <1>0. Len(s) \in Nat /\ Len(t) \in Nat /\ IsList(s) /\ IsList(t)
    BY ListFacts DEF IsFalling
  <1>1. Len(s) = Len(t)
    BY <1>0, FallingNoLonger
  <1>2. \A i \in 1..Len(s) : s[i] = t[i]
    BY <1>0, <1>1, FallingAgree
  <1> QED
    BY <1>0, <1>1, <1>2, ListEqual

RowsWithRoot(n) == {r \in 0..TreeRows(n) : IsRootPopulated(r, n)}

LEMMA RootRowsFall ==
    ASSUME NEW n \in Nat, n <= 2^MaxForestRows
    PROVE  /\ IsFalling(RootRows(n))
           /\ \A i \in 1..Len(RootRows(n)) : RootRows(n)[i] \in RowsWithRoot(n)
           /\ \A r \in RowsWithRoot(n) : \E i \in 1..Len(RootRows(n)) : RootRows(n)[i] = r
  <1> DEFINE S == RowsWithRoot(n)
             s == Ascending(S)
             q == RootRows(n)
             N == Len(s)
  <1>1. S \in SUBSET Nat /\ IsFiniteSet(S)
    <2>1. TreeRows(n) \in Nat
      BY TreeRowsFacts
    <2>2. 0 \in Int /\ TreeRows(n) \in Int
      BY <2>1
    <2>3. IsFiniteSet(0..TreeRows(n)) /\ S \subseteq 0..TreeRows(n)
      BY <2>2, FS_Interval DEF RowsWithRoot
    <2>4. IsFiniteSet(S)
      BY <2>3, FS_Subset
    <2> QED
      BY <2>1, <2>3, <2>4
  <1> HIDE DEF S
  <1>2. /\ IsList(s) /\ \A i \in 1..N : s[i] \in S
        /\ \A x \in S : \E i \in 1..N : s[i] = x
        /\ \A i, j \in 1..N : i < j => s[i] < s[j]
    BY <1>1, AscendingFacts
  <1>3. N \in Nat
    BY <1>2, ListFacts
  <1>4. q = [i \in 1..N |-> s[(N - i) + 1]]
    BY DEF RootRows, Reverse, RowsWithRoot, S
  <1> HIDE DEF s, q, N
  <1>5. \A i \in 1..N : q[i] = s[(N - i) + 1] /\ (N - i) + 1 \in 1..N
    BY <1>3, <1>4
  <1>6. IsList(q) /\ Len(q) = N
    <2>1. q = [i \in 1..N |-> q[i]]
      BY <1>4
    <2> QED
      BY <1>3, <2>1, ListBuilt
  <1>7. \A i \in 1..N : q[i] \in S /\ q[i] \in Nat
    BY <1>1, <1>2, <1>5
  <1>8. ASSUME NEW i \in 1..N, NEW j \in 1..N, i < j PROVE q[j] < q[i]
    <2> DEFINE a == (N - i) + 1
               b == (N - j) + 1
    <2>1. a \in 1..N /\ b \in 1..N /\ b < a
      BY <1>3, <1>8
    <2>2. q[i] = s[a] /\ q[j] = s[b]
      BY <1>5
    <2> HIDE DEF a, b
    <2> QED
      BY <2>1, <2>2, <1>2
  <1>9. ASSUME NEW x \in S PROVE \E i \in 1..N : q[i] = x
    <2>1. PICK j \in 1..N : s[j] = x
      BY <1>2
    <2> DEFINE i == (N - j) + 1
    <2>2. i \in 1..N /\ (N - i) + 1 = j
      BY <1>3
    <2> HIDE DEF i
    <2> QED
      BY <2>1, <2>2, <1>5
  <1> QED
    BY <1>6, <1>7, <1>8, <1>9 DEF IsFalling, q, S


\* A row for each root of a tower, as high as the root or higher.
AreRowsOf(R, rs, m, b) ==
    /\ IsFalling(R) /\ Len(R) = Len(rs)
    /\ \A i \in 1..Len(R) : R[i] >= b /\ Bit(m, R[i] - b) = 1 /\ Height[rs[i]] <= R[i]
    /\ \A k \in Nat : Bit(m, k) = 1 => \E i \in 1..Len(R) : R[i] = k + b

AreHigherRows(R, rs, m, b) ==
    /\ \A i \in 1..Len(R) : /\ R[i] \in Nat /\ R[i] >= b + 1
                            /\ Bit(m, R[i] - b) = 1 /\ Height[rs[i]] <= R[i]
    /\ \A k \in Nat : k # 0 /\ Bit(m, k) = 1 => \E i \in 1..Len(R) : R[i] = k + b

LEMMA RowsOfHalf ==
    ASSUME NEW m \in Nat, NEW b \in Nat, NEW R, NEW rs, AreRowsOf(R, rs, m \div 2, b + 1)
    PROVE  AreHigherRows(R, rs, m, b)
  <1>1. ASSUME NEW i \in 1..Len(R)
        PROVE  R[i] \in Nat /\ R[i] >= b + 1 /\ Bit(m, R[i] - b) = 1 /\ Height[rs[i]] <= R[i]
    <2> DEFINE k == R[i] - (b + 1)
    <2>1. R[i] \in Nat /\ R[i] >= b + 1 /\ Bit(m \div 2, k) = 1 /\ Height[rs[i]] <= R[i]
      BY DEF AreRowsOf, IsFalling
    <2>2. k \in Nat /\ R[i] - b = k + 1
      BY <2>1
    <2> HIDE DEF k
    <2>3. Bit(m, k + 1) = Bit(m \div 2, k)
      BY <2>2, HalvedBits
    <2> QED
      BY <2>1, <2>2, <2>3
  <1>2. ASSUME NEW k \in Nat, k # 0, Bit(m, k) = 1 PROVE \E i \in 1..Len(R) : R[i] = k + b
    <2> DEFINE j == k - 1
    <2>1. j \in Nat /\ k = j + 1 /\ j + (b + 1) = k + b
      BY <1>2
    <2> HIDE DEF j
    <2>2. Bit(m \div 2, j) = 1
      BY <1>2, <2>1, HalvedBits
    <2>3. \E i \in 1..Len(R) : R[i] = j + (b + 1)
      BY <2>1, <2>2 DEF AreRowsOf
    <2> QED
      BY <2>1, <2>3
  <1> QED
    BY <1>1, <1>2 DEF AreHigherRows

LEMMA TowerRows ==
    ASSUME NEW n \in Nat, NEW rs, IsList(rs), NEW b \in Nat, IsTower(rs, n, b)
    PROVE  \E R : AreRowsOf(R, rs, n, b)
  <1> DEFINE S == {m \in Nat : \A qs : \A c \in Nat :
                       IsList(qs) /\ IsTower(qs, m, c) => \E R : AreRowsOf(R, qs, m, c)}
  <1>1. ASSUME NEW m \in Nat, \A k \in Nat : k < m => k \in S PROVE m \in S
    <2> SUFFICES ASSUME NEW qs, NEW c \in Nat, IsList(qs), IsTower(qs, m, c)
                 PROVE  \E R : AreRowsOf(R, qs, m, c)
      OBVIOUS
    <2>0. Len(qs) \in Nat /\ Bit(m, 0) = m % 2 /\ c + 1 \in Nat
      <3>1. Len(qs) \in Nat
        BY ListFacts
      <3>2. 0 \in Nat /\ c + 1 \in Nat
        OBVIOUS
      <3>3. Bit(m, 0) = m % 2
        BY <3>2, HalvedBits, Zenon
      <3> QED
        BY <3>1, <3>2, <3>3
    <2>1. CASE m = 0
      <3>1. qs = <<>> /\ Len(qs) = 0
        <4>1. qs = <<>>
          BY <2>1, TowerCases
        <4> QED
          BY <4>1, NoList
      <3>2. \A k \in Nat : Bit(m, k) # 1
        <4>1. \A k \in Nat : 2^k \in Nat \ {0}
          BY Powers
        <4>2. \A k \in Nat : 0 \div 2^k = 0
          BY <4>1
        <4>3. ASSUME NEW k \in Nat PROVE Bit(0, k) = 0
          <5> DEFINE x == 0 \div 2^k
          <5>1. x = 0
            BY <4>2
          <5>2. Bit(0, k) = x % 2
            BY DEF Bit
          <5> HIDE DEF x
          <5> QED
            BY <5>1, <5>2
        <4> QED
          BY <2>1, <4>3
      <3>3. AreRowsOf(<<>>, qs, m, c)
        <4>1. Len(<<>>) = 0 /\ IsList(<<>>)
          BY NoList
        <4>2. IsFalling(<<>>)
          BY <4>1 DEF IsFalling
        <4> QED
          BY <3>1, <3>2, <4>1, <4>2 DEF AreRowsOf
      <3> QED
        BY <3>3
    <2>2. CASE m % 2 = 1
      <3> DEFINE front == SubSeq(qs, 1, Len(qs) - 1)
      <3>1. Len(qs) > 0 /\ Height[qs[Len(qs)]] <= c /\ IsTower(front, m \div 2, c + 1)
        BY <2>2, TowerCases
      <3>2. IsList(front) /\ Len(front) = Len(qs) - 1 /\ \A i \in 1..(Len(qs) - 1) : front[i] = qs[i]
        BY <3>1, ListFront
      <3>3. m \div 2 \in Nat /\ m \div 2 < m
        BY <2>2
      <3> HIDE DEF front
      <3>4. PICK R : AreRowsOf(R, front, m \div 2, c + 1)
        BY <1>1, <2>0, <3>1, <3>2, <3>3
      <3>5. IsFalling(R) /\ Len(R) = Len(front) /\ IsList(R)
        BY <3>4 DEF AreRowsOf, IsFalling
      <3>6. /\ \A i \in 1..Len(R) : /\ R[i] \in Nat /\ R[i] >= c + 1
                                    /\ Bit(m, R[i] - c) = 1 /\ Height[front[i]] <= R[i]
            /\ \A k \in Nat : k # 0 /\ Bit(m, k) = 1 => \E i \in 1..Len(R) : R[i] = k + c
        <4>1. AreHigherRows(R, front, m, c)
          BY <3>4, RowsOfHalf
        <4> QED
          BY <4>1 DEF AreHigherRows
      <3> DEFINE Q == Append(R, c)
                 N == Len(qs)
      <3>7. N \in Nat /\ N > 0 /\ Len(R) = N - 1
        BY <2>0, <3>1, <3>2, <3>5
      <3>8. IsList(Q) /\ Len(Q) = N /\ Q[N] = c /\ \A i \in 1..(N - 1) : Q[i] = R[i]
        <4>1. /\ IsList(Q) /\ Len(Q) = Len(R) + 1 /\ Q[Len(R) + 1] = c
              /\ \A i \in 1..Len(R) : Q[i] = R[i]
          BY <3>5, ListAppend
        <4>2. Len(R) + 1 = N
          BY <3>7
        <4> HIDE DEF Q, N
        <4> QED
          BY <4>1, <4>2, <3>7
      <3> HIDE DEF Q, N
      <3>9. ASSUME NEW i \in 1..N
            PROVE  /\ Q[i] \in Nat /\ Q[i] >= c /\ Bit(m, Q[i] - c) = 1 /\ Height[qs[i]] <= Q[i]
                   /\ i # N => i \in 1..Len(R) /\ Q[i] = R[i] /\ R[i] \in Nat /\ R[i] >= c + 1
        <4>1. CASE i = N
          <5>1. Q[i] = c /\ Q[i] - c = 0
            BY <3>8, <4>1
          <5> QED
            BY <2>0, <2>2, <3>1, <4>1, <5>1 DEF N
        <4>2. CASE i # N
          <5>1. i \in 1..(N - 1) /\ i \in 1..Len(R)
            BY <3>7, <4>2
          <5>2. Q[i] = R[i] /\ front[i] = qs[i]
            BY <5>1, <3>2, <3>8 DEF N
          <5>3. R[i] \in Nat /\ R[i] >= c + 1 /\ Bit(m, R[i] - c) = 1 /\ Height[front[i]] <= R[i]
            BY <5>1, <3>6
          <5>4. R[i] >= c
            BY <5>3
          <5> QED
            BY <5>1, <5>2, <5>3, <5>4
        <4> QED
          BY <4>1, <4>2
      <3>10. ASSUME NEW i \in 1..N, NEW j \in 1..N, i < j PROVE Q[j] < Q[i]
        <4>1. i # N
          BY <3>7, <3>10
        <4>2. CASE j = N
          <5>1. Q[j] = c /\ Q[i] \in Nat /\ Q[i] >= c + 1
            BY <3>8, <3>9, <4>1, <4>2
          <5> QED
            BY <5>1
        <4>3. CASE j # N
          <5>1. i \in 1..Len(R) /\ j \in 1..Len(R) /\ Q[i] = R[i] /\ Q[j] = R[j]
            BY <3>9, <4>1, <4>3
          <5> QED
            BY <5>1, <3>5, <3>10 DEF IsFalling
        <4> QED
          BY <4>2, <4>3
      <3>11. ASSUME NEW k \in Nat, Bit(m, k) = 1 PROVE \E i \in 1..N : Q[i] = k + c
        <4>1. CASE k = 0
          <5>1. N \in 1..N /\ Q[N] = k + c
            BY <3>7, <3>8, <4>1
          <5> QED
            BY <5>1
        <4>2. CASE k # 0
          <5>1. PICK i \in 1..Len(R) : R[i] = k + c
            BY <3>6, <3>11, <4>2
          <5>2. i \in 1..(N - 1) /\ i \in 1..N
            BY <3>7
          <5> QED
            BY <5>1, <5>2, <3>8
        <4> QED
          BY <4>1, <4>2
      <3>12. AreRowsOf(Q, qs, m, c)
        <4>1. IsFalling(Q)
          BY <3>8, <3>9, <3>10 DEF IsFalling
        <4> QED
          BY <4>1, <3>8, <3>9, <3>11 DEF AreRowsOf, N
      <3> QED
        BY <3>12
    <2>3. CASE m % 2 = 0 /\ m # 0
      <3>1. IsTower(qs, m \div 2, c + 1)
        BY <2>3, TowerCases
      <3>7. m \div 2 \in Nat /\ m \div 2 < m
        BY <2>3
      <3>2. PICK R : AreRowsOf(R, qs, m \div 2, c + 1)
        BY <1>1, <2>0, <3>1, <3>7
      <3>3. /\ \A i \in 1..Len(R) : /\ R[i] \in Nat /\ R[i] >= c + 1
                                    /\ Bit(m, R[i] - c) = 1 /\ Height[qs[i]] <= R[i]
            /\ \A k \in Nat : k # 0 /\ Bit(m, k) = 1 => \E i \in 1..Len(R) : R[i] = k + c
        <4>1. AreHigherRows(R, qs, m, c)
          BY <3>2, RowsOfHalf
        <4> QED
          BY <4>1 DEF AreHigherRows
      <3>4. \A k \in Nat : Bit(m, k) = 1 => k # 0
        BY <2>0, <2>3
      <3>5. \A i \in 1..Len(R) : R[i] >= c
        BY <3>3
      <3>6. AreRowsOf(R, qs, m, c)
        <4>1. IsFalling(R) /\ Len(R) = Len(qs)
          BY <3>2 DEF AreRowsOf
        <4> QED
          BY <4>1, <3>3, <3>4, <3>5 DEF AreRowsOf
      <3> QED
        BY <3>6
    <2> QED
      BY <2>1, <2>2, <2>3, OddOrEven
  <1>2. Nat \subseteq S
    <2> HIDE DEF S
    <2> QED
      BY <1>1, StrongInductionOn
  <1> QED
    BY <1>2


RootSpot(n, i) == RootPosition(n, RootRows(n)[i], TreeRows(n))

\* Each root has the row of a one bit of the number of leaves, and fits there.
LEMMA RootsOnRows ==
    ASSUME NEW n \in Nat, n <= 2^MaxForestRows, NEW rs, IsGrown(rs, n)
    PROVE  /\ \A i \in 1..Len(rs) :
                  /\ IsSpot(RootSpot(n, i), RootRows(n)[i], 2 * (n \div 2^(RootRows(n)[i] + 1)), n)
                  /\ IsRootPosition(RootSpot(n, i), n, TreeRows(n))
                  /\ IsNode(RootSpot(n, i), rs[i], n)
           /\ \A i, j \in 1..Len(rs) : i # j => RootSpot(n, i) # RootSpot(n, j)
           /\ IsFalling(RootRows(n)) /\ Len(RootRows(n)) = Len(rs)
  <1> DEFINE rows == TreeRows(n)
             Q == RootRows(n)
             Off(i) == 2 * (n \div 2^(Q[i] + 1))
             P(i) == RootSpot(n, i)
  <1>0. IsForest(rs) /\ IsList(rs) /\ IsTower(rs, n, 0) /\ Len(rs) \in Nat
    BY ListFacts DEF IsGrown, IsForest
  <1>1. rows \in Nat /\ n <= 2^rows
    BY TreeRowsFacts
  <1> HIDE DEF rows
  <1>2. PICK R : AreRowsOf(R, rs, n, 0)
    BY <1>0, TowerRows
  <1>3. IsFalling(R) /\ Len(R) = Len(rs) /\ \A i \in 1..Len(R) : R[i] \in Nat
    BY <1>2 DEF AreRowsOf, IsFalling
  <1>4. /\ IsFalling(Q)
        /\ \A i \in 1..Len(Q) : Q[i] \in RowsWithRoot(n)
        /\ \A r \in RowsWithRoot(n) : \E i \in 1..Len(Q) : Q[i] = r
    BY RootRowsFall
  <1> HIDE DEF Q
  <1>5. ASSUME NEW r \in Nat, IsRootPopulated(r, n) PROVE r \in 0..rows
    <2> DEFINE off == 2 * (n \div 2^(r + 1))
    <2>1. n \div 2^(r + 1) \in Nat
      <3>1. r + 1 \in Nat
        OBVIOUS
      <3> QED
        BY <3>1, CoversFacts
    <2>2. off \in Nat
      BY <2>1
    <2>3. off = 2 * (n \div 2^(r + 1))
      OBVIOUS
    <2> HIDE DEF off
    <2>4. Tops(r, off, n)
      BY <1>5, <2>2, <2>3, TopsFacts
    <2> QED
      BY <1>1, <2>2, <2>4, CoveredIsPlaced DEF Tops
  <1>6. AreAmong(R, Q)
    <2> SUFFICES ASSUME NEW i \in 1..Len(R) PROVE \E j \in 1..Len(Q) : R[i] = Q[j]
      BY DEF AreAmong
    <2>1. R[i] \in Nat /\ Bit(n, R[i] - 0) = 1 /\ R[i] - 0 = R[i]
      BY <1>2, <1>3 DEF AreRowsOf
    <2>2. IsRootPopulated(R[i], n)
      BY <2>1 DEF IsRootPopulated
    <2>3. R[i] \in RowsWithRoot(n)
      BY <2>1, <2>2, <1>5 DEF RowsWithRoot, rows
    <2> QED
      BY <2>3, <1>4
  <1>7. AreAmong(Q, R)
    <2> SUFFICES ASSUME NEW i \in 1..Len(Q) PROVE \E j \in 1..Len(R) : Q[i] = R[j]
      BY DEF AreAmong
    <2>1. Q[i] \in Nat /\ Bit(n, Q[i]) = 1
      BY <1>4 DEF RowsWithRoot, IsRootPopulated, IsFalling
    <2>2. PICK j \in 1..Len(R) : R[j] = Q[i] + 0
      BY <1>2, <2>1 DEF AreRowsOf
    <2> QED
      BY <2>1, <2>2
  <1>8. R = Q
    BY <1>3, <1>4, <1>6, <1>7, FallingUnique
  <1>9. ASSUME NEW i \in 1..Len(rs)
        PROVE  /\ IsSpot(P(i), Q[i], Off(i), n) /\ IsRootPosition(P(i), n, rows) /\ IsNode(P(i), rs[i], n)
    <2>1. Q[i] \in 0..rows /\ IsRootPopulated(Q[i], n) /\ Height[rs[i]] <= Q[i]
      BY <1>2, <1>3, <1>4, <1>8 DEF AreRowsOf, RowsWithRoot, rows
    <2>2. Q[i] \in Nat /\ Q[i] + 1 \in Nat
      BY <1>1, <2>1
    <2>3. P(i) = First(Q[i], rows) + Off(i)
      BY <1>1, <2>1, RootPositionOf DEF RootSpot, Q, rows
    <2>4. n \div 2^(Q[i] + 1) \in Nat
      BY <2>2, CoversFacts
    <2>5. Off(i) \in Nat
      BY <2>4
    <2>6. Tops(Q[i], Off(i), n)
      BY <2>1, <2>2, <2>5, TopsFacts
    <2> HIDE DEF Off
    <2>7. IsSpot(P(i), Q[i], Off(i), n)
      BY <2>2, <2>3, <2>5, <2>6 DEF IsSpot, Tops, rows
    <2>8. IsRootPosition(P(i), n, rows)
      BY <2>6, <2>7, SpotPlace DEF rows
    <2>9. rs[i] \in WholeTrees
      BY <1>0 DEF IsForest
    <2> HIDE DEF P
    <2> QED
      BY <2>1, <2>7, <2>8, <2>9 DEF IsNode
  <1>10. ASSUME NEW i \in 1..Len(rs), NEW j \in 1..Len(rs), P(i) = P(j) PROVE i = j
    <2>1. IsSpot(P(i), Q[i], Off(i), n) /\ IsSpot(P(j), Q[j], Off(j), n)
      BY <1>9
    <2> HIDE DEF P, Off
    <2>2. DetectRow(P(i), TreeRows(n)) = Q[i]
      BY <2>1, SpotPlace
    <2>3. DetectRow(P(j), TreeRows(n)) = Q[j]
      BY <2>1, SpotPlace
    <2>4. Q[i] = Q[j] /\ Q[i] \in Nat
      BY <1>3, <1>8, <1>10, <2>2, <2>3
    <2>5. i < j => Q[j] < Q[i]
      BY <1>3, <1>8 DEF IsFalling
    <2>6. j < i => Q[i] < Q[j]
      BY <1>3, <1>8 DEF IsFalling
    <2> QED
      BY <1>0, <2>4, <2>5, <2>6
  <1> QED
    BY <1>3, <1>8, <1>9, <1>10 DEF Q, rows

-----------------------------------------------------------------------------
(***************************************************************************)
(* NodesOf: every node of a forest at its position, and one at each.       *)
(***************************************************************************)
IsRootAt(rs, p, t, n) ==
    IsRootPosition(p, n, TreeRows(n)) /\ \E i \in 1..Len(rs) : t = rs[i] /\ p = RootSpot(n, i)

IsMap(X, rs, n) ==
    /\ \A p, t : <<p, t>> \in X => IsNode(p, t, n)
    /\ \A p, t : <<p, t>> \in X => IsRootAt(rs, p, t, n) \/ Hangs(X, p, t, n)
    /\ \A p, t : <<p, t>> \in X /\ IsBranchHash(t) => HasChildren(X, p, t, n)
    /\ \A h \in Members(rs) : \E p : <<p, h>> \in X
    /\ \A p, t, u : <<p, t>> \in X /\ <<p, u>> \in X => t = u

LEMMA NodesMapped ==
    ASSUME NEW n \in Nat, n <= 2^MaxForestRows, NEW rs, IsGrown(rs, n)
    PROVE  IsMap(NodesOf(rs, n), rs, n)
  <1> DEFINE rows == TreeRows(n)
             X == NodesOf(rs, n)
             At(i) == Placed(rs[i], RootSpot(n, i), rows)
  <1>1. X = UNION {At(i) : i \in 1..Len(rs)}
    BY DEF NodesOf, RootSpot
  <1>2. rows \in Nat
    BY TreeRowsFacts
  <1>3. \A i \in 1..Len(rs) : IsRootPosition(RootSpot(n, i), n, rows) /\ IsNode(RootSpot(n, i), rs[i], n)
    BY RootsOnRows
  <1>4. ASSUME NEW i \in 1..Len(rs) PROVE IsTreeAt(At(i), RootSpot(n, i), rs[i], n) /\ At(i) \subseteq X
    <2>1. rs[i] \in WholeTrees
      BY <1>3 DEF IsNode
    <2>2. IsTreeAt(Placed(rs[i], RootSpot(n, i), TreeRows(n)), RootSpot(n, i), rs[i], n)
      BY <2>1, <1>3, PlacedIsTree
    <2> QED
      BY <2>2, <1>1
  <1>5. \A x \in X : \E i \in 1..Len(rs) : x \in At(i)
    BY <1>1
  <1> HIDE DEF X, At, rows
  <1>6. \A p, t : <<p, t>> \in X => IsNode(p, t, n)
    BY <1>4, <1>5 DEF IsTreeAt
  <1>7. ASSUME NEW p, NEW t, <<p, t>> \in X PROVE IsRootAt(rs, p, t, n) \/ Hangs(X, p, t, n)
    <2>1. PICK i \in 1..Len(rs) : <<p, t>> \in At(i)
      BY <1>5, <1>7
    <2>2. CASE p = RootSpot(n, i) /\ t = rs[i]
      BY <2>2, <1>3 DEF IsRootAt, rows
    <2>3. CASE Hangs(At(i), p, t, n)
      BY <2>3, <1>4 DEF Hangs
    <2> QED
      BY <2>1, <2>2, <2>3, <1>4 DEF IsTreeAt
  <1>8. ASSUME NEW p, NEW t, <<p, t>> \in X, IsBranchHash(t) PROVE HasChildren(X, p, t, n)
    <2>1. PICK i \in 1..Len(rs) : <<p, t>> \in At(i)
      BY <1>5, <1>8
    <2>2. HasChildren(At(i), p, t, n)
      BY <2>1, <1>4, <1>8 DEF IsTreeAt
    <2> QED
      BY <2>2, <1>4 DEF HasChildren
  <1>9. ASSUME NEW h \in Members(rs) PROVE \E p : <<p, h>> \in X
    <2>1. PICK i \in 1..Len(rs) : h \in LeafSets[rs[i]]
      BY DEF Members, LeavesOf
    <2> QED
      BY <2>1, <1>4 DEF IsTreeAt
  <1> DEFINE Alike(p) == \A t, u : <<p, t>> \in X /\ <<p, u>> \in X => t = u
             S == {k \in Nat : \A p : \A row, off : IsSpot(p, row, off, n) /\ rows - row = k => Alike(p)}
  <1>10. ASSUME NEW k \in Nat, \A j \in Nat : j < k => j \in S PROVE k \in S
    <2> SUFFICES ASSUME NEW p, NEW row, NEW off, IsSpot(p, row, off, n), rows - row = k,
                        NEW t, NEW u, <<p, t>> \in X, <<p, u>> \in X
                 PROVE  t = u
      OBVIOUS
    <2>1. CASE IsRootPosition(p, n, rows)
      <3>1. IsRootAt(rs, p, t, n) /\ IsRootAt(rs, p, u, n)
        BY <2>1, <1>7 DEF Hangs, rows
      <3>2. PICK i \in 1..Len(rs) : t = rs[i] /\ p = RootSpot(n, i)
        BY <3>1 DEF IsRootAt
      <3>3. PICK j \in 1..Len(rs) : u = rs[j] /\ p = RootSpot(n, j)
        BY <3>1 DEF IsRootAt
      <3>4. i = j
        BY <3>2, <3>3, RootsOnRows
      <3> QED
        BY <3>2, <3>3, <3>4
    <2>2. CASE ~ IsRootPosition(p, n, rows)
      <3> DEFINE q == Parent(p, rows)
      <3>1. Hangs(X, p, t, n) /\ Hangs(X, p, u, n)
        BY <2>2, <1>7 DEF IsRootAt, rows
      <3>2. PICK v : <<q, v>> \in X /\ t = Half(v, p)
        BY <3>1 DEF Hangs, rows
      <3>3. PICK w : <<q, w>> \in X /\ u = Half(w, p)
        BY <3>1 DEF Hangs, rows
      <3>4. IsSpot(q, row + 1, off \div 2, n) /\ row + 1 \in 0..rows
        BY <2>2, SpotAbove DEF rows
      <3> HIDE DEF q
      <3>5. row \in Nat /\ rows - (row + 1) \in Nat /\ rows - (row + 1) < k
        BY <1>2, <3>4 DEF IsSpot
      <3>6. Alike(q)
        BY <1>10, <3>4, <3>5
      <3> QED
        BY <3>2, <3>3, <3>6
    <2> QED
      BY <2>1, <2>2
  <1>11. Nat \subseteq S
    <2> HIDE DEF S
    <2> QED
      BY <1>10, StrongInductionOn
  <1>12. ASSUME NEW p, NEW t, NEW u, <<p, t>> \in X, <<p, u>> \in X PROVE t = u
    <2>1. PICK row, off : IsSpot(p, row, off, n)
      BY <1>6, <1>12 DEF IsNode
    <2>2. row \in 0..rows
      BY <2>1, SpotPlace DEF rows
    <2>3. rows - row \in Nat
      BY <1>2, <2>2
    <2> QED
      BY <1>11, <1>12, <2>1, <2>3
  <1>13. IsMap(X, rs, n)
    BY <1>6, <1>7, <1>8, <1>9, <1>12 DEF IsMap
  <1> QED
    BY <1>13 DEF X

-----------------------------------------------------------------------------
(***************************************************************************)
(* What is computed from targets, and what has to be provided for it.      *)
(***************************************************************************)
IsPlace(p, n) == \E row, off : IsSpot(p, row, off, n)

AbovePlaces(P, n) ==
    \A p \in P : ~ IsRootPosition(p, n, TreeRows(n)) => Parent(p, TreeRows(n)) \in P

\* The targets and everything above them, and nothing else.
IsClimbOf(C, T, n) ==
    /\ T \subseteq C
    /\ AbovePlaces(C, n)
    /\ \A P : T \subseteq P /\ AbovePlaces(P, n) => C \subseteq P
    /\ \A p \in C : p \in T \/ \E q \in C : /\ ~ IsRootPosition(q, n, TreeRows(n))
                                            /\ p = Parent(q, TreeRows(n))

LEMMA ComputedIsClimb ==
    ASSUME NEW n \in Nat, n <= 2^MaxForestRows, NEW T, \A p \in T : IsPlace(p, n)
    PROVE  IsClimbOf(ComputedPositions(T, n, TreeRows(n)), T, n)
  <1> DEFINE rows == TreeRows(n)
             C == ComputedPositions(T, n, rows)
             f == CHOOSE g : IsClimbing(g, T, n, rows)
             R(p) == DetectRow(p, rows)
             Up(S) == ClimbUp(S, n, rows)
  <1>1. rows \in Nat /\ rows + 1 \in Nat
    BY TreeRowsFacts
  <1>2. IsClimbing(f, T, n, rows)
    BY <1>1, ClimbingExists
  <1>3. C = f[rows + 1]
    BY DEF ComputedPositions, IsClimbing, ClimbUp
  <1> HIDE DEF f, C
  <1>4. f[0] = T
    BY <1>1, <1>2 DEF IsClimbing
  <1>5. ASSUME NEW k \in Nat, k + 1 <= rows + 1 PROVE f[k + 1] = Up(f[k])
    <2>1. k + 1 \in 0..(rows + 1) /\ k + 1 # 0 /\ (k + 1) - 1 = k
      BY <1>1, <1>5
    <2>2. f[k + 1] = IF k + 1 = 0 THEN T ELSE Up(f[(k + 1) - 1])
      BY <2>1, <1>2 DEF IsClimbing
    <2> HIDE DEF Up
    <2> QED
      BY <2>1, <2>2
  <1>6. \A S, p : p \in Up(S) <=> p \in S \/ \E q \in S : ~ IsRootPosition(q, n, rows) /\ p = Parent(q, rows)
    BY DEF ClimbUp
  <1> HIDE DEF Up
  \* Everything in it is in the forest, and is a target or above something in it.
  <1> DEFINE Sound(k) == \A p \in f[k] :
                 /\ IsPlace(p, n)
                 /\ p \in T \/ \E q \in f[k] : ~ IsRootPosition(q, n, rows) /\ p = Parent(q, rows)
             S1 == {k \in Nat : k <= rows + 1 => Sound(k)}
  <1>7. ASSUME NEW p, IsPlace(p, n), ~ IsRootPosition(p, n, rows)
        PROVE  IsPlace(Parent(p, rows), n) /\ R(Parent(p, rows)) = R(p) + 1 /\ R(p) + 1 \in 0..rows
    <2>1. PICK row, off : IsSpot(p, row, off, n)
      BY <1>7 DEF IsPlace
    <2> DEFINE q == Parent(p, rows)
    <2>2. IsSpot(q, row + 1, off \div 2, n) /\ row + 1 \in 0..rows
      BY <1>7, <2>1, SpotAbove
    <2> HIDE DEF q
    <2>3. R(p) = row
      BY <2>1, SpotPlace
    <2>4. R(q) = row + 1
      BY <2>2, SpotPlace
    <2>5. IsPlace(q, n)
      BY <2>2 DEF IsPlace
    <2> QED
      BY <2>2, <2>3, <2>4, <2>5 DEF q
  <1>8. Nat \subseteq S1
    <2>1. 0 \in S1
      BY <1>4
    <2>2. ASSUME NEW k \in Nat, k \in S1 PROVE k + 1 \in S1
      <3> SUFFICES ASSUME k + 1 <= rows + 1, NEW p \in f[k + 1]
                   PROVE  /\ IsPlace(p, n)
                          /\ p \in T \/ \E q \in f[k + 1] : ~ IsRootPosition(q, n, rows) /\ p = Parent(q, rows)
        OBVIOUS
      <3>1. k <= rows + 1
        BY <1>1
      <3>2. Sound(k)
        BY <2>2, <3>1
      <3>3. f[k + 1] = Up(f[k])
        BY <1>5
      <3>4. \A q \in f[k] : q \in f[k + 1]
        BY <3>3, <1>6
      <3>5. CASE p \in f[k]
        BY <3>2, <3>4, <3>5
      <3>6. CASE p \notin f[k]
        <4>1. PICK q \in f[k] : ~ IsRootPosition(q, n, rows) /\ p = Parent(q, rows)
          BY <3>3, <3>6, <1>6
        <4>2. IsPlace(q, n)
          BY <3>2
        <4> QED
          BY <4>1, <4>2, <3>4, <1>7
      <3> QED
        BY <3>5, <3>6
    <2> HIDE DEF S1
    <2> QED
      BY <2>1, <2>2, NatInductionOn
  <1>9. \A k \in Nat : k <= rows + 1 => Sound(k)
    BY <1>8
  <1> HIDE DEF S1
  \* It grows.
  <1> DEFINE S2 == {k \in Nat : \A j \in Nat : j + k <= rows + 1 => f[j] \subseteq f[j + k]}
  <1>10. Nat \subseteq S2
    <2>1. 0 \in S2
      OBVIOUS
    <2>2. ASSUME NEW k \in Nat, k \in S2 PROVE k + 1 \in S2
      <3> SUFFICES ASSUME NEW j \in Nat, j + (k + 1) <= rows + 1 PROVE f[j] \subseteq f[j + (k + 1)]
        OBVIOUS
      <3>1. j + k <= rows + 1 /\ j + k \in Nat /\ (j + k) + 1 = j + (k + 1)
        BY <1>1
      <3>2. f[j] \subseteq f[j + k]
        BY <2>2, <3>1
      <3>3. f[(j + k) + 1] = Up(f[j + k])
        BY <1>5, <3>1
      <3>4. f[j + k] \subseteq f[(j + k) + 1]
        BY <3>3, <1>6
      <3> QED
        BY <3>1, <3>2, <3>4
    <2> HIDE DEF S2
    <2> QED
      BY <2>1, <2>2, NatInductionOn
  <1>11. ASSUME NEW i \in Nat, NEW j \in Nat, i <= j, j <= rows + 1 PROVE f[i] \subseteq f[j]
    <2>1. j - i \in Nat /\ i + (j - i) = j
      BY <1>11
    <2>2. j - i \in S2
      BY <2>1, <1>10
    <2> DEFINE d == j - i
    <2>3. i + d <= rows + 1 => f[i] \subseteq f[i + d]
      BY <2>2
    <2> QED
      BY <2>1, <2>3, <1>11
  <1> HIDE DEF S2
  \* What is of row r is there after r steps.
  <1> DEFINE Low(k) == \A p \in f[k] : R(p) <= rows + 1 => p \in f[R(p)]
             S3 == {k \in Nat : k <= rows + 1 => Low(k)}
  <1>12. ASSUME NEW p, IsPlace(p, n) PROVE R(p) \in 0..rows /\ R(p) \in Nat /\ R(p) <= rows + 1
    <2>1. PICK row, off : IsSpot(p, row, off, n)
      BY <1>12 DEF IsPlace
    <2>2. R(p) = row /\ row \in 0..rows
      BY <2>1, SpotPlace
    <2> QED
      BY <1>1, <2>2
  <1> HIDE DEF R
  <1>13. Nat \subseteq S3
    <2>1. 0 \in S3
      <3> SUFFICES ASSUME NEW p \in f[0] PROVE p \in f[R(p)]
        OBVIOUS
      <3>1. IsPlace(p, n)
        BY <1>4
      <3>2. R(p) \in Nat /\ R(p) <= rows + 1 /\ 0 <= R(p)
        BY <3>1, <1>12
      <3>3. f[0] \subseteq f[R(p)]
        BY <3>2, <1>11
      <3> QED
        BY <3>3
    <2>2. ASSUME NEW k \in Nat, k \in S3 PROVE k + 1 \in S3
      <3> SUFFICES ASSUME k + 1 <= rows + 1, NEW p \in f[k + 1] PROVE p \in f[R(p)]
        OBVIOUS
      <3>1. k <= rows + 1
        BY <1>1
      <3>2. Low(k) /\ Sound(k)
        BY <2>2, <3>1, <1>9
      <3>3. f[k + 1] = Up(f[k])
        BY <1>5
      <3>4. CASE p \in f[k]
        BY <3>2, <3>4, <1>12
      <3>5. CASE p \notin f[k]
        <4>1. PICK q \in f[k] : ~ IsRootPosition(q, n, rows) /\ p = Parent(q, rows)
          BY <3>3, <3>5, <1>6
        <4>2. IsPlace(q, n)
          BY <3>2
        <4>3. R(q) \in Nat /\ R(q) <= rows + 1
          BY <4>2, <1>12
        <4>4. q \in f[R(q)]
          BY <3>2, <4>3
        <4>5. R(p) = R(q) + 1 /\ R(q) + 1 \in 0..rows
          BY <4>1, <4>2, <1>7
        <4>6. R(q) + 1 <= rows + 1
          BY <4>3, <4>5, <1>1
        <4>7. f[R(q) + 1] = Up(f[R(q)])
          BY <4>3, <4>6, <1>5
        <4> QED
          BY <4>1, <4>4, <4>5, <4>7, <1>6
      <3> QED
        BY <3>4, <3>5
    <2> HIDE DEF S3
    <2> QED
      BY <2>1, <2>2, NatInductionOn
  <1>14. \A k \in Nat : k <= rows + 1 => Low(k)
    BY <1>13
  <1> HIDE DEF S3
  <1>15. Low(rows + 1) /\ Sound(rows + 1)
    BY <1>1, <1>9, <1>14
  <1>16. T \subseteq C
    <2>1. 0 \in Nat /\ 0 <= rows + 1 /\ rows + 1 <= rows + 1
      BY <1>1
    <2> QED
      BY <1>1, <2>1, <1>3, <1>4, <1>11
  <1>17. AbovePlaces(C, n)
    <2> SUFFICES ASSUME NEW p \in C, ~ IsRootPosition(p, n, rows) PROVE Parent(p, rows) \in C
      BY DEF AbovePlaces
    <2>1. IsPlace(p, n)
      BY <1>3, <1>15
    <2>2. R(p) \in Nat /\ R(p) <= rows + 1
      BY <2>1, <1>12
    <2>3. p \in f[R(p)]
      BY <1>3, <1>15, <2>2
    <2>4. R(p) + 1 \in 0..rows
      BY <2>1, <1>7
    <2>5. R(p) + 1 \in Nat /\ R(p) + 1 <= rows + 1
      BY <1>1, <2>4
    <2>6. f[R(p) + 1] = Up(f[R(p)])
      BY <2>2, <2>5, <1>5
    <2>7. Parent(p, rows) \in f[R(p) + 1]
      BY <2>3, <2>6, <1>6
    <2>8. f[R(p) + 1] \subseteq f[rows + 1]
      <3>1. rows + 1 <= rows + 1
        BY <1>1
      <3> QED
        BY <1>1, <2>5, <3>1, <1>11
    <2> QED
      BY <2>7, <2>8, <1>3
  <1>18. ASSUME NEW P, T \subseteq P, AbovePlaces(P, n) PROVE C \subseteq P
    <2> DEFINE S4 == {k \in Nat : k <= rows + 1 => f[k] \subseteq P}
    <2>1. 0 \in S4
      BY <1>4, <1>18
    <2>2. ASSUME NEW k \in Nat, k \in S4 PROVE k + 1 \in S4
      <3> SUFFICES ASSUME k + 1 <= rows + 1, NEW p \in f[k + 1] PROVE p \in P
        OBVIOUS
      <3>1. k <= rows + 1
        BY <1>1
      <3>2. f[k] \subseteq P /\ f[k + 1] = Up(f[k])
        BY <2>2, <3>1, <1>5
      <3> QED
        BY <3>2, <1>6, <1>18 DEF AbovePlaces
    <2>3. Nat \subseteq S4
      <3> HIDE DEF S4
      <3> QED
        BY <2>1, <2>2, NatInductionOn
    <2>4. \A k \in Nat : k <= rows + 1 => f[k] \subseteq P
      BY <2>3
    <2> QED
      BY <1>1, <1>3, <2>4
  <1>19. \A p \in C : p \in T \/ \E q \in C : ~ IsRootPosition(q, n, rows) /\ p = Parent(q, rows)
    BY <1>3, <1>15
  <1> QED
    BY <1>16, <1>17, <1>18, <1>19 DEF IsClimbOf, C

\* The node at p of the map, with its sibling and what they hang from.
IsUnder(X, p, t, v, rows) ==
    <<Parent(p, rows), v>> \in X /\ IsBranchHash(v) /\ t = Half(v, p) /\ v = ParentHash(v[1], v[2])

HasFamily(X, p, t, rows) == (\E v : IsUnder(X, p, t, v, rows)) /\ \E u : <<Sibling(p), u>> \in X

LEMMA MapAbove ==
    ASSUME NEW n \in Nat, n <= 2^MaxForestRows, NEW rs, NEW X, IsMap(X, rs, n),
           NEW rows, rows = TreeRows(n), NEW p, NEW t, <<p, t>> \in X, ~ IsRootPosition(p, n, rows)
    PROVE  HasFamily(X, p, t, rows)
  <1>1. Hangs(X, p, t, n)
    BY DEF IsMap, IsRootAt
  <1> DEFINE q == Parent(p, rows)
  <1>2. PICK v : <<q, v>> \in X /\ IsBranchHash(v) /\ t = Half(v, p)
    BY <1>1 DEF Hangs
  <1>3. HasChildren(X, q, v, n)
    BY <1>2 DEF IsMap
  <1>4. PICK row, off : IsSpot(p, row, off, n)
    BY DEF IsMap, IsNode
  <1> DEFINE h == off \div 2
             l == LeftChild(q, rows)
             r == RightChild(q, rows)
             o == OtherOffset(off)
  <1>5. IsSpot(q, row + 1, h, n) /\ IsSpot(Sibling(p), row, o, n)
    BY <1>4, SpotAbove
  <1>6. row \in Nat /\ off \in Nat
    BY <1>4 DEF IsSpot
  <1>7. IsSpot(l, row, 2 * h, n) /\ IsSpot(r, row, 2 * h + 1, n)
    <2>1. row + 1 # 0 /\ (row + 1) - 1 = row
      BY <1>6
    <2> HIDE DEF q, h
    <2>2. IsSpot(l, (row + 1) - 1, 2 * h, n) /\ IsSpot(r, (row + 1) - 1, 2 * h + 1, n)
      BY <1>5, <2>1, SpotBelow
    <2> QED
      BY <2>1, <2>2
  <1>8. o = 2 * h \/ o = 2 * h + 1
    BY <1>6 DEF OtherOffset
  <1> HIDE DEF h, l, r, o, q
  <1>9. Sibling(p) = l \/ Sibling(p) = r
    BY <1>5, <1>7, <1>8 DEF IsSpot
  <1>10. <<l, v[1]>> \in X /\ <<r, v[2]>> \in X
    BY <1>3 DEF HasChildren, l, r
  <1>11. v = ParentHash(v[1], v[2])
    <2>1. v \in WholeTrees
      BY <1>2 DEF IsMap, IsNode
    <2> QED
      BY <2>1, <1>2, WholeHalves
  <1>12. IsUnder(X, p, t, v, rows)
    BY <1>2, <1>11 DEF q, IsUnder
  <1> QED
    BY <1>9, <1>10, <1>12 DEF HasFamily

\* Two siblings of the map are hashed to the node they hang from.
LEMMA MapJoins ==
    ASSUME NEW n \in Nat, n <= 2^MaxForestRows, NEW rs, NEW X, IsMap(X, rs, n),
           NEW rows, rows = TreeRows(n), NEW p, NEW l, NEW r, <<p, l>> \in X, <<p + 1, r>> \in X,
           p \in Nat, p % 2 = 0, ~ IsRootPosition(p, n, rows), ~ IsRootPosition(p + 1, n, rows),
           Parent(p + 1, rows) = Parent(p, rows)
    PROVE  <<Parent(p, rows), ParentHash(l, r)>> \in X
  <1> DEFINE q == p + 1
  <1>0. HasFamily(X, p, l, rows)
    BY MapAbove
  <1>1. PICK v : <<Parent(p, rows), v>> \in X /\ l = Half(v, p) /\ v = ParentHash(v[1], v[2])
    BY <1>0 DEF HasFamily, IsUnder
  <1>2. PICK w : <<Parent(q, rows), w>> \in X /\ r = Half(w, q)
    <2>1. <<q, r>> \in X /\ ~ IsRootPosition(q, n, rows)
      OBVIOUS
    <2> HIDE DEF q
    <2>2. HasFamily(X, q, r, rows)
      BY <2>1, MapAbove
    <2> QED
      BY <2>2 DEF HasFamily, IsUnder
  <1>3. v = w
    BY <1>1, <1>2 DEF IsMap
  <1>4. ~ ((p + 1) % 2 = 0)
    OBVIOUS
  <1>5. l = v[1] /\ r = v[2]
    BY <1>1, <1>2, <1>3, <1>4 DEF Half
  <1> QED
    BY <1>1, <1>5

\* The nodes A that the hashing goes through, B of them provided: with a node
\* there are its sibling and, computed and not provided, its parent.
IsPlan(A, B, n) ==
    /\ B \subseteq A
    /\ \A a \in A : IsPlace(a, n)
    /\ \A a \in A : ~ IsRootPosition(a, n, TreeRows(n)) =>
           Sibling(a) \in A /\ Parent(a, TreeRows(n)) \in A \ B
    /\ \A a \in A : a \in B \/ \E q \in A : /\ ~ IsRootPosition(q, n, TreeRows(n))
                                            /\ a = Parent(q, TreeRows(n))

\* Places of leaves that are there.
AreLeafPlaces(T, X) == \A p \in T : \E t : <<p, t>> \in X /\ t # Empty /\ ~ IsBranchHash(t)

ArePlaces(A, X) == \A a \in A : \E t : <<a, t>> \in X

\* No root among A is that of an emptied tree.
FindNoEmpty(A, X, n) == \A a \in A : IsRootPosition(a, n, TreeRows(n)) => ~ <<a, Empty>> \in X

LEMMA ClimbIsPlan ==
    ASSUME NEW n \in Nat, n <= 2^MaxForestRows, NEW rs, NEW X, IsMap(X, rs, n),
           NEW T, AreLeafPlaces(T, X),
           NEW C, C = ComputedPositions(T, n, TreeRows(n)),
           NEW N, N = ProofPositionSet(T, n, TreeRows(n))
    PROVE  /\ IsPlan(C \cup N, T \cup N, n)
           /\ T \cap N = {}
           /\ ArePlaces(C \cup N, X)
           /\ FindNoEmpty(C \cup N, X, n)
  <1> DEFINE rows == TreeRows(n)
             A == C \cup N
             B == T \cup N
             P == {p \in Nat : \E t : <<p, t>> \in X}
             Root(p) == IsRootPosition(p, n, rows)
  <1>0. \A p \in T : \E t : <<p, t>> \in X /\ t # Empty /\ ~ IsBranchHash(t)
    BY DEF AreLeafPlaces
  <1>1. \A p, t : <<p, t>> \in X => p \in Nat /\ IsPlace(p, n)
    BY SpotPlace DEF IsMap, IsNode, IsPlace
  <1>2. ASSUME NEW p \in P, ~ Root(p)
        PROVE  /\ \E v : <<Parent(p, rows), v>> \in X /\ IsBranchHash(v)
               /\ Sibling(p) \in P /\ Parent(p, rows) \in P
    <2>1. PICK t : <<p, t>> \in X
      OBVIOUS
    <2>2. HasFamily(X, p, t, rows)
      BY <1>2, <2>1, MapAbove
    <2> QED
      BY <2>2, <1>1 DEF HasFamily, IsUnder
  <1>3. T \subseteq P /\ AbovePlaces(P, n)
    BY <1>0, <1>1, <1>2 DEF AbovePlaces
  <1>4. \A p \in P : IsPlace(p, n)
    BY <1>1
  <1>5. IsClimbOf(C, T, n)
    <2>1. \A p \in T : IsPlace(p, n)
      BY <1>3, <1>4
    <2> QED
      BY <2>1, ComputedIsClimb
  <1>6. C \subseteq P
    BY <1>3, <1>5 DEF IsClimbOf
  <1>7. /\ \A x \in N : x \notin C /\ \E p \in C : ~ Root(p) /\ x = Sibling(p)
        /\ \A p \in C : ~ Root(p) => Sibling(p) \in C \/ Sibling(p) \in N
    BY DEF ProofPositionSet
  <1> HIDE DEF P
  <1>8. ASSUME NEW p \in P, ~ Root(p)
        PROVE  ~ Root(Sibling(p)) /\ Sibling(Sibling(p)) = p /\ Parent(Sibling(p), rows) = Parent(p, rows)
    <2>1. PICK row, off : IsSpot(p, row, off, n)
      BY <1>4 DEF IsPlace
    <2>2. ~ Root(Sibling(p)) /\ Parent(Sibling(p), rows) = Parent(p, rows)
      <3>1. rows = TreeRows(n) /\ ~ IsRootPosition(p, n, rows)
        BY <1>8
      <3> HIDE DEF rows
      <3> QED
        BY <2>1, <3>1, SpotAbove
    <2>3. p \in Nat
      BY <2>1, SpotPlace
    <2>4. Sibling(Sibling(p)) = p
      BY <2>3 DEF Sibling, IsLeftNiece
    <2> QED
      BY <2>2, <2>4
  <1>9. ASSUME NEW a \in A
        PROVE  a \in P /\ \/ a \in C
                          \/ ~ Root(a) /\ \E c \in C : ~ Root(c) /\ a = Sibling(c) /\ Sibling(a) = c
                                                       /\ Parent(a, rows) = Parent(c, rows)
    <2>1. CASE a \in C
      BY <2>1, <1>6
    <2>2. CASE a \in N
      <3>1. PICK c \in C : ~ Root(c) /\ a = Sibling(c)
        BY <2>2, <1>7
      <3>2. c \in P
        BY <1>6
      <3> QED
        BY <3>1, <3>2, <1>2, <1>8
    <2> QED
      BY <2>1, <2>2
  <1>10. ASSUME NEW c \in C, ~ Root(c) PROVE Parent(c, rows) \in C /\ Parent(c, rows) \notin B
    <2>1. Parent(c, rows) \in C
      BY <1>5, <1>10 DEF IsClimbOf, AbovePlaces
    <2>2. c \in P
      BY <1>6
    <2>3. PICK v : <<Parent(c, rows), v>> \in X /\ IsBranchHash(v)
      BY <1>2, <1>10, <2>2
    <2>4. Parent(c, rows) \notin T
      BY <1>0, <2>3 DEF IsMap
    <2> QED
      BY <2>1, <2>4, <1>7
  <1>11. \A a \in A : ~ Root(a) => Sibling(a) \in A /\ Parent(a, rows) \in A \ B
    BY <1>7, <1>9, <1>10
  <1>12. \A a \in A : a \in B \/ \E q \in A : ~ Root(q) /\ a = Parent(q, rows)
    BY <1>5 DEF IsClimbOf
  <1>13. B \subseteq A /\ T \cap N = {}
    BY <1>5, <1>7 DEF IsClimbOf
  <1>14. \A a \in A : IsPlace(a, n)
    BY <1>4, <1>9
  <1>15. IsPlan(A, B, n)
    BY <1>11, <1>12, <1>13, <1>14 DEF IsPlan
  <1>16. ASSUME NEW a \in A, Root(a), <<a, Empty>> \in X PROVE FALSE
    <2>1. a \in C
      BY <1>9, <1>16
    <2>2. CASE a \in T
      BY <2>2, <1>0, <1>16 DEF IsMap
    <2>3. CASE \E q \in C : ~ Root(q) /\ a = Parent(q, rows)
      <3>1. PICK q \in C : ~ Root(q) /\ a = Parent(q, rows)
        BY <2>3
      <3>2. PICK v : <<a, v>> \in X /\ IsBranchHash(v)
        BY <3>1, <1>2, <1>6
      <3>3. v = Empty
        BY <3>2, <1>16 DEF IsMap
      <3> QED
        BY <3>2, <3>3 DEF Empty, IsBranchHash
    <2> QED
      BY <2>1, <2>2, <2>3, <1>5 DEF IsClimbOf
  <1>17. \A a \in A : \E t : <<a, t>> \in X
    BY <1>9 DEF P
  <1>18. ArePlaces(A, X) /\ FindNoEmpty(A, X, n)
    BY <1>16, <1>17 DEF ArePlaces, FindNoEmpty
  <1> QED
    BY <1>13, <1>15, <1>18

-----------------------------------------------------------------------------
(***************************************************************************)
(* The two queues of the hashing loop: all below b are taken.              *)
(***************************************************************************)
IsTakenTo(s, i, b) == \A k \in 1..Len(s) : k <= i <=> s[k].pos < b

\* m is the lowest position of s that is b or more, if there is one.
IsLowest(s, b, m) == \A k \in 1..Len(s) : s[k].pos >= b => s[k].pos >= m

LEMMA NextInQueue ==
    ASSUME NEW s, AreStrictlyRising(s), NEW i \in 0..Len(s), NEW b \in Nat, NEW m \in Nat, b <= m,
           IsTakenTo(s, i, b), IsLowest(s, b, m), NEW k \in 1..Len(s), s[k].pos = m
    PROVE  k = i + 1 /\ i # Len(s) /\ IsTakenTo(s, i + 1, m + 1)
  <1>1. Len(s) \in Nat /\ \A j \in 1..Len(s) : s[j].pos \in Nat
    BY ListFacts DEF AreStrictlyRising
  <1>2. i \in Nat /\ k \in Nat /\ 1 <= k /\ k <= Len(s) /\ i <= Len(s)
    BY <1>1
  <1>3. ~ (k <= i)
    BY <1>1 DEF IsTakenTo
  <1> DEFINE j == i + 1
  <1>4. j \in 1..Len(s) /\ j <= k /\ ~ (j <= i) /\ i # Len(s)
    BY <1>1, <1>2, <1>3
  <1> HIDE DEF j
  <1>5. s[j].pos >= m
    BY <1>1, <1>4 DEF IsTakenTo, IsLowest
  <1>6. j = k
    <2>1. j < k => s[j].pos < m
      BY <1>4 DEF AreStrictlyRising
    <2> QED
      BY <1>1, <1>2, <1>4, <1>5, <2>1
  <1>7. ASSUME NEW l \in 1..Len(s) PROVE l <= j <=> s[l].pos < m + 1
    <2>1. s[l].pos \in Nat
      BY <1>1
    <2>2. CASE l < k
      <3>1. s[l].pos < m
        BY <2>2 DEF AreStrictlyRising
      <3> QED
        BY <2>1, <2>2, <3>1, <1>1, <1>2, <1>6
    <2>3. CASE l = k
      BY <2>1, <2>3, <1>1, <1>2, <1>6
    <2>4. CASE k < l
      <3>1. m < s[l].pos
        BY <2>4 DEF AreStrictlyRising
      <3> QED
        BY <2>1, <2>4, <3>1, <1>1, <1>2, <1>6
    <2> QED
      BY <1>1, <1>2, <2>2, <2>3, <2>4
  <1> QED
    BY <1>4, <1>6, <1>7 DEF j, IsTakenTo

LEMMA NotInQueue ==
    ASSUME NEW s, AreStrictlyRising(s), NEW i \in 0..Len(s), NEW b \in Nat, NEW m \in Nat, b <= m,
           IsTakenTo(s, i, b), IsLowest(s, b, m), \A k \in 1..Len(s) : s[k].pos # m
    PROVE  IsTakenTo(s, i, m + 1) /\ (i # Len(s) => m < s[i + 1].pos)
  <1>1. Len(s) \in Nat /\ \A j \in 1..Len(s) : s[j].pos \in Nat
    BY ListFacts DEF AreStrictlyRising
  <1>2. ASSUME NEW l \in 1..Len(s) PROVE l <= i <=> s[l].pos < m + 1
    <2>1. s[l].pos \in Nat /\ s[l].pos # m /\ (l <= i <=> s[l].pos < b) /\ (s[l].pos >= b => s[l].pos >= m)
      BY <1>1 DEF IsTakenTo, IsLowest
    <2> DEFINE x == s[l].pos
    <2> HIDE DEF x
    <2>2. x \in Nat /\ x # m /\ (l <= i <=> x < b) /\ (x >= b => x >= m)
      BY <2>1 DEF x
    <2>3. x < b <=> x < m + 1
      BY <2>2
    <2> QED
      BY <2>2, <2>3 DEF x
  <1>3. ASSUME i # Len(s) PROVE m < s[i + 1].pos
    <2> DEFINE j == i + 1
    <2>1. j \in 1..Len(s) /\ ~ (j <= i)
      BY <1>1, <1>3
    <2> HIDE DEF j
    <2>2. s[j].pos \in Nat /\ ~ (s[j].pos < m + 1)
      BY <1>1, <1>2, <2>1
    <2> QED
      BY <2>2 DEF j
  <1> QED
    BY <1>2, <1>3 DEF IsTakenTo

IsQueue(nodes, st, b) ==
    /\ IsState(nodes, st) /\ ~ st.error
    /\ AreStrictlyRising(nodes) /\ IsTakenTo(nodes, st.provided, b)
    /\ AreStrictlyRising(st.parents) /\ IsTakenTo(st.parents, st.computed, b)

HasAt(s, m) == \E k \in 1..Len(s) : s[k].pos = m

IsIn(s, node) == \E k \in 1..Len(s) : node = s[k]

IsTaken(nodes, st, m, node, after) ==
    /\ ~ Exhausted(nodes, st)
    /\ node.pos = m /\ (IsIn(nodes, node) \/ IsIn(st.parents, node))
    /\ IsQueue(nodes, after, m + 1)
    /\ after.parents = st.parents /\ after.roots = st.roots

\* The lowest of what is not taken is taken next.
LEMMA NextIsLowest ==
    ASSUME NEW nodes, NEW st, NEW b \in Nat, IsQueue(nodes, st, b), NEW m \in Nat, b <= m,
           IsLowest(nodes, b, m), IsLowest(st.parents, b, m),
           HasAt(nodes, m) <=> ~ HasAt(st.parents, m)
    PROVE  IsTaken(nodes, st, m, GetNext(nodes, st), Advance(nodes, st))
  <1> DEFINE node  == GetNext(nodes, st)
             after == Advance(nodes, st)
             i == st.provided
             j == st.computed
             P == st.parents
  <1>1. /\ IsState(nodes, st) /\ ~ st.error
        /\ AreStrictlyRising(nodes) /\ IsTakenTo(nodes, i, b)
        /\ AreStrictlyRising(P) /\ IsTakenTo(P, j, b)
    BY DEF IsQueue
  <1>2. i \in 0..Len(nodes) /\ j \in 0..Len(P)
    BY <1>1 DEF IsState
  <1>3. CASE HasAt(nodes, m)
    <2>1. PICK k \in 1..Len(nodes) : nodes[k].pos = m
      BY <1>3 DEF HasAt
    <2>2. k = i + 1 /\ i # Len(nodes) /\ IsTakenTo(nodes, i + 1, m + 1)
      BY <1>1, <1>2, <2>1, NextInQueue
    <2>3. IsTakenTo(P, j, m + 1) /\ (j # Len(P) => m < P[j + 1].pos)
      <3>1. \A l \in 1..Len(P) : P[l].pos # m
        BY <1>3 DEF HasAt
      <3> QED
        BY <1>1, <1>2, <3>1, NotInQueue
    <2>4. ~ TakesComputed(nodes, st)
      <3>1. j # Len(P) => ~ (P[j + 1].pos < nodes[i + 1].pos)
        <4> SUFFICES ASSUME j # Len(P) PROVE ~ (P[j + 1].pos < m)
          BY <2>1, <2>2
        <4> DEFINE q == P[j + 1].pos
        <4>1. q \in Nat
          <5>1. Len(P) \in Nat
            BY <1>1, ListFacts DEF AreStrictlyRising
          <5>2. j + 1 \in 1..Len(P)
            BY <1>2, <5>1
          <5> QED
            BY <5>2, <1>1 DEF AreStrictlyRising
        <4>2. m < q
          BY <2>3
        <4> HIDE DEF q
        <4>3. ~ (q < m)
          BY <4>1, <4>2
        <4> QED
          BY <4>3 DEF q
      <3> QED
        BY <2>2, <3>1 DEF TakesComputed
    <2>5. node = nodes[k]
      BY <2>2, <2>4 DEF GetNext
    <2>6. ~ Exhausted(nodes, st)
      BY <2>2 DEF Exhausted
    <2>7. after = [st EXCEPT !.provided = @ + 1]
      BY <2>4 DEF Advance
    <2>8. IsState(nodes, after) /\ after.parents = P /\ after.roots = st.roots /\ after.error = st.error
      BY <1>1, <2>6, AdvanceFacts
    <2>9. after.provided = i + 1 /\ after.computed = j
      BY <2>7, <1>1 DEF IsState
    <2> HIDE DEF after, node, i, j, P
    <2>10. IsQueue(nodes, after, m + 1)
      BY <1>1, <2>2, <2>3, <2>8, <2>9 DEF IsQueue
    <2>11. node.pos = m /\ IsIn(nodes, node)
      BY <2>1, <2>5 DEF IsIn
    <2>12. IsTaken(nodes, st, m, node, after)
      BY <2>6, <2>8, <2>10, <2>11 DEF IsTaken, P
    <2> QED
      BY <2>12 DEF node, after
  <1>4. CASE HasAt(P, m)
    <2>1. PICK k \in 1..Len(P) : P[k].pos = m
      BY <1>4 DEF HasAt
    <2>2. k = j + 1 /\ j # Len(P) /\ IsTakenTo(P, j + 1, m + 1)
      BY <1>1, <1>2, <2>1, NextInQueue
    <2>3. IsTakenTo(nodes, i, m + 1) /\ (i # Len(nodes) => m < nodes[i + 1].pos)
      <3>1. \A l \in 1..Len(nodes) : nodes[l].pos # m
        BY <1>4 DEF HasAt
      <3> QED
        BY <1>1, <1>2, <3>1, NotInQueue
    <2>4. TakesComputed(nodes, st)
      BY <2>1, <2>2, <2>3 DEF TakesComputed
    <2>5. node = P[k]
      BY <2>2, <2>4 DEF GetNext
    <2>6. ~ Exhausted(nodes, st)
      BY <2>2 DEF Exhausted
    <2>7. after = [st EXCEPT !.computed = @ + 1]
      BY <2>4 DEF Advance
    <2>8. IsState(nodes, after) /\ after.parents = P /\ after.roots = st.roots /\ after.error = st.error
      BY <1>1, <2>6, AdvanceFacts
    <2>9. after.provided = i /\ after.computed = j + 1
      BY <2>7, <1>1 DEF IsState
    <2> HIDE DEF after, node, i, j, P
    <2>10. IsQueue(nodes, after, m + 1)
      BY <1>1, <2>2, <2>3, <2>8, <2>9 DEF IsQueue
    <2>11. node.pos = m /\ IsIn(P, node)
      BY <2>1, <2>5 DEF IsIn
    <2>12. IsTaken(nodes, st, m, node, after)
      BY <2>6, <2>8, <2>10, <2>11 DEF IsTaken, P
    <2> QED
      BY <2>12 DEF node, after
  <1> QED
    BY <1>3, <1>4

-----------------------------------------------------------------------------
(***************************************************************************)
(* The hashing of the forest's own nodes: X is where they are, A those the *)
(* hashing goes through, B those that are provided.                        *)
(***************************************************************************)
InMap(X, node) == <<node.pos, node.hash.old>> \in X

IsGiven(nodes, A, B, X, rs, n) ==
    /\ n \in Nat /\ n <= 2^MaxForestRows
    /\ IsMap(X, rs, n) /\ IsPlan(A, B, n)
    /\ AreStrictlyRising(nodes)
    /\ \A k \in 1..Len(nodes) : nodes[k].pos \in B /\ InMap(X, nodes[k])
    /\ \A p \in B : HasAt(nodes, p)

\* What is computed is what is above the nodes below c.
AreMade(P, A, X, c, n) ==
    /\ \A k \in 1..Len(P) : /\ InMap(X, P[k])
                            /\ \E a \in A : /\ ~ IsRootPosition(a, n, TreeRows(n)) /\ a < c
                                            /\ P[k].pos = Parent(a, TreeRows(n))
    /\ \A a \in A : ~ IsRootPosition(a, n, TreeRows(n)) /\ a < c => HasAt(P, Parent(a, TreeRows(n)))

\* The roots that are found are different ones of the forest, below c.
AreFoundAt(w, found, A, X, c, n) ==
    /\ \A k \in 1..Len(found) : /\ w[k] \in A /\ w[k] < c
                                /\ IsRootPosition(w[k], n, TreeRows(n))
                                /\ <<w[k], found[k].old>> \in X
    /\ \A k, l \in 1..Len(found) : k < l => w[k] < w[l]

IsUpTo(nodes, st, A, X, b, n) ==
    /\ IsQueue(nodes, st, b)
    /\ AreMade(st.parents, A, X, b, n)
    /\ \E w : AreFoundAt(w, st.roots, A, X, b, n)
    /\ \A a \in A : ~ IsRootPosition(a, n, TreeRows(n)) /\ a < b => Sibling(a) < b

\* The family of a node of the plan.
LEMMA PlanFamily ==
    ASSUME NEW n \in Nat, n <= 2^MaxForestRows, NEW rows, rows = TreeRows(n),
           NEW A, NEW B, IsPlan(A, B, n), NEW a \in A
    PROVE  /\ a \in Nat
           /\ ~ IsRootPosition(a, n, rows) =>
                  /\ Sibling(a) \in A /\ ~ IsRootPosition(Sibling(a), n, rows)
                  /\ Parent(Sibling(a), rows) = Parent(a, rows)
                  /\ Parent(a, rows) \in A /\ Parent(a, rows) \notin B /\ Parent(a, rows) \in Nat
                  /\ IsHalfOf(Parent(a, rows), a, rows)
                  /\ a < Parent(a, rows)
                  /\ a % 2 = 0 => Sibling(a) = a + 1 /\ RightSibling(a) = a + 1 /\ a + 1 < Parent(a, rows)
                  /\ a % 2 # 0 => Sibling(a) = a - 1
  <1>1. PICK row, off : IsSpot(a, row, off, n)
    BY DEF IsPlan, IsPlace
  <1>2. a \in Nat
    BY <1>1, SpotPlace
  <1>3. ASSUME ~ IsRootPosition(a, n, rows)
        PROVE  /\ ~ IsRootPosition(Sibling(a), n, rows)
               /\ Parent(Sibling(a), rows) = Parent(a, rows)
               /\ IsHalfOf(Parent(a, rows), a, rows)
               /\ Parent(a, rows) \in Nat /\ Parent(a, rows) > RightSibling(a)
    <2>1. /\ ~ IsRootPosition(Sibling(a), n, rows)
          /\ Parent(Sibling(a), rows) = Parent(a, rows)
          /\ IsHalfOf(Parent(a, rows), a, rows)
      BY <1>1, <1>3, SpotAbove
    <2> QED
      BY <2>1 DEF IsHalfOf
  <1>4. /\ RightSibling(a) \in Nat /\ a <= RightSibling(a)
        /\ a % 2 = 0 => Sibling(a) = a + 1 /\ RightSibling(a) = a + 1
        /\ a % 2 # 0 => Sibling(a) = a - 1
    BY <1>2 DEF RightSibling, LeftSibling, Sibling, IsLeftNiece
  <1>5. ASSUME ~ IsRootPosition(a, n, rows)
        PROVE  Sibling(a) \in A /\ Parent(a, rows) \in A /\ Parent(a, rows) \notin B
    BY <1>5 DEF IsPlan
  <1>6. ASSUME NEW q \in Nat, NEW r \in Nat, q > r, a <= r PROVE a < q
    BY <1>2, <1>6
  <1> QED
    BY <1>2, <1>3, <1>4, <1>5, <1>6

IsLeast(A, b, m) == \A a \in A : a >= b => a >= m

\* The nodes below that m is the parent of are below c.
AreSeen(A, m, c, n) ==
    \A a \in A : ~ IsRootPosition(a, n, TreeRows(n)) /\ Parent(a, TreeRows(n)) = m => a < c

LEMMA LowestIsTaken ==
    ASSUME NEW n, NEW nodes, NEW A, NEW B, NEW X, NEW rs, IsGiven(nodes, A, B, X, rs, n),
           NEW st, NEW b \in Nat, IsQueue(nodes, st, b), NEW c, AreMade(st.parents, A, X, c, n),
           NEW m \in A, b <= m, IsLeast(A, b, m), AreSeen(A, m, c, n)
    PROVE  /\ IsTaken(nodes, st, m, GetNext(nodes, st), Advance(nodes, st))
           /\ InMap(X, GetNext(nodes, st))
  <1> DEFINE rows == TreeRows(n)
             P == st.parents
  <1>1. /\ n \in Nat /\ n <= 2^MaxForestRows /\ IsPlan(A, B, n)
        /\ \A k \in 1..Len(nodes) : nodes[k].pos \in B /\ InMap(X, nodes[k])
        /\ \A p \in B : HasAt(nodes, p)
    BY DEF IsGiven
  <1>2. m \in Nat
    BY <1>1, PlanFamily
  <1>3. ASSUME NEW k \in 1..Len(P)
        PROVE  P[k].pos \in A /\ P[k].pos \notin B /\ InMap(X, P[k])
    BY <1>1 DEF AreMade, IsPlan
  <1>4. B \subseteq A
    BY <1>1 DEF IsPlan
  <1>5. IsLowest(nodes, b, m)
    BY <1>1, <1>4 DEF IsLowest, IsLeast
  <1>6. IsLowest(P, b, m)
    BY <1>3 DEF IsLowest, IsLeast
  <1>7. HasAt(nodes, m) => m \in B
    BY <1>1 DEF HasAt
  <1>8. HasAt(P, m) => m \notin B
    BY <1>3 DEF HasAt
  <1>9. ASSUME m \notin B PROVE HasAt(P, m)
    <2>1. PICK q \in A : ~ IsRootPosition(q, n, rows) /\ m = Parent(q, rows)
      BY <1>1, <1>9 DEF IsPlan
    <2>2. q < c
      BY <2>1 DEF AreSeen
    <2> QED
      BY <2>1, <2>2 DEF AreMade
  <1>10. HasAt(nodes, m) <=> ~ HasAt(P, m)
    BY <1>1, <1>7, <1>8, <1>9
  <1>11. IsTaken(nodes, st, m, GetNext(nodes, st), Advance(nodes, st))
    BY <1>2, <1>5, <1>6, <1>10, NextIsLowest
  <1>12. InMap(X, GetNext(nodes, st))
    <2>1. IsIn(nodes, GetNext(nodes, st)) \/ IsIn(P, GetNext(nodes, st))
      BY <1>11 DEF IsTaken
    <2> QED
      BY <2>1, <1>1, <1>3 DEF IsIn
  <1> QED
    BY <1>11, <1>12

\* A turn that takes a root.
LEMMA RootTurn ==
    ASSUME NEW n, NEW nodes, NEW A, NEW B, NEW X, NEW rs, IsGiven(nodes, A, B, X, rs, n),
           NEW st, NEW b \in Nat, IsUpTo(nodes, st, A, X, b, n),
           NEW m \in A, m \in Nat, b <= m, IsLeast(A, b, m),
           IsRootPosition(m, n, TreeRows(n)),
           IsTaken(nodes, st, m, GetNext(nodes, st), Advance(nodes, st)), InMap(X, GetNext(nodes, st))
    PROVE  IsUpTo(nodes, DeleteTurn(nodes, st, n), A, X, m + 1, n)
  <1> DEFINE rows == TreeRows(n)
             next  == GetNext(nodes, st)
             one   == Advance(nodes, st)
             after == WithRoot(one, next.hash)
             L     == Len(st.roots)
  <1>1. ~ st.error /\ ~ Exhausted(nodes, st) /\ next.pos = m
    BY DEF IsUpTo, IsQueue, IsTaken
  <1>2. DeleteTurn(nodes, st, n) = after
    BY <1>1 DEF DeleteTurn, HashTurn, WithRoot
  <1>3. IsQueue(nodes, one, m + 1) /\ one.parents = st.parents /\ one.roots = st.roots
    BY DEF IsTaken
  <1> HIDE DEF one
  <1>4. /\ IsState(nodes, after) /\ after.error = one.error
        /\ after.parents = one.parents /\ after.provided = one.provided /\ after.computed = one.computed
        /\ after.roots = Append(one.roots, next.hash)
    <2>1. IsState(nodes, one)
      BY <1>3 DEF IsQueue
    <2>2. IsState(nodes, after) /\ after.error = one.error
      BY <2>1, AddRootFacts
    <2> QED
      BY <2>1, <2>2 DEF WithRoot, IsState
  <1> HIDE DEF after
  <1>5. IsQueue(nodes, after, m + 1)
    BY <1>3, <1>4 DEF IsQueue
  <1>6. \A a \in A : a \in Nat
    BY PlanFamily DEF IsGiven
  <1>7. ASSUME NEW a \in A, ~ IsRootPosition(a, n, rows), a < m + 1 PROVE a < b
    <2>1. a # m
      BY <1>7
    <2>2. a \in Nat /\ (a >= b => a >= m)
      BY <1>6 DEF IsLeast
    <2> QED
      BY <1>7, <2>1, <2>2
  <1>8. ASSUME NEW x \in Nat, x < b PROVE x < m + 1
    BY <1>8
  <1>9. AreMade(st.parents, A, X, b, n)
    BY DEF IsUpTo
  <1>10. AreMade(after.parents, A, X, m + 1, n)
    BY <1>3, <1>4, <1>6, <1>7, <1>8, <1>9 DEF AreMade
  <1>11. \A a \in A : ~ IsRootPosition(a, n, rows) /\ a < m + 1 => Sibling(a) < m + 1
    <2> SUFFICES ASSUME NEW a \in A, ~ IsRootPosition(a, n, rows), a < m + 1 PROVE Sibling(a) < m + 1
      OBVIOUS
    <2>1. Sibling(a) < b
      BY <1>7 DEF IsUpTo
    <2>2. Sibling(a) \in A
      BY PlanFamily DEF IsGiven
    <2> QED
      BY <2>1, <2>2, <1>6, <1>8
  <1>12. PICK w : AreFoundAt(w, st.roots, A, X, b, n)
    BY DEF IsUpTo
  <1>13. L \in Nat /\ IsList(st.roots)
    BY ListFacts DEF IsUpTo, IsQueue, IsState
  <1> DEFINE v == [k \in 1..(L + 1) |-> IF k = L + 1 THEN m ELSE w[k]]
             found == after.roots
  <1>14. /\ Len(found) = L + 1 /\ found[L + 1] = next.hash
         /\ \A k \in 1..L : found[k] = st.roots[k]
    BY <1>3, <1>4, <1>13, ListAppend
  <1> HIDE DEF L, found
  <1>15. \A k \in 1..(L + 1) : k = L + 1 \/ k \in 1..L
    BY <1>13
  <1>16. v[L + 1] = m /\ \A k \in 1..L : v[k] = w[k]
    BY <1>13
  <1> HIDE DEF v
  <1>17. ASSUME NEW k \in 1..L
         PROVE  /\ v[k] \in A /\ v[k] < m /\ v[k] < m + 1
                /\ IsRootPosition(v[k], n, rows) /\ <<v[k], found[k].old>> \in X
    <2>1. w[k] \in A /\ w[k] < b /\ IsRootPosition(w[k], n, rows) /\ <<w[k], st.roots[k].old>> \in X
      BY <1>12 DEF AreFoundAt, L
    <2>2. w[k] \in Nat
      BY <2>1, <1>6
    <2>3. w[k] < m /\ w[k] < m + 1
      BY <2>1, <2>2
    <2> QED
      BY <2>1, <2>3, <1>14, <1>16
  <1>18. <<v[L + 1], found[L + 1].old>> \in X /\ m < m + 1
    BY <1>1, <1>14, <1>16 DEF InMap
  <1>19. ASSUME NEW k \in 1..(L + 1), NEW l \in 1..(L + 1), k < l PROVE v[k] < v[l]
    <2>1. k \in 1..L
      BY <1>13, <1>19
    <2>2. CASE l = L + 1
      BY <2>1, <2>2, <1>16, <1>17
    <2>3. CASE l \in 1..L
      <3>1. w[k] < w[l]
        BY <2>1, <2>3, <1>12, <1>19 DEF AreFoundAt, L
      <3> QED
        BY <2>1, <2>3, <3>1, <1>16
    <2> QED
      BY <2>2, <2>3, <1>15
  <1>20. AreFoundAt(v, found, A, X, m + 1, n)
    BY <1>14, <1>15, <1>16, <1>17, <1>18, <1>19 DEF AreFoundAt
  <1>21. IsUpTo(nodes, after, A, X, m + 1, n)
    BY <1>5, <1>10, <1>11, <1>20 DEF IsUpTo, found
  <1> QED
    BY <1>2, <1>21

LEMMA AppendRises ==
    ASSUME NEW s, AreStrictlyRising(s), NEW x, x.pos \in Nat, \A k \in 1..Len(s) : s[k].pos < x.pos,
           NEW i \in 0..Len(s), NEW b \in Nat, b <= x.pos, IsTakenTo(s, i, b)
    PROVE  AreStrictlyRising(Append(s, x)) /\ IsTakenTo(Append(s, x), i, b)
  <1> DEFINE N == Len(s)
             t == Append(s, x)
             z == x.pos
  <1>1. IsList(s) /\ N \in Nat
    BY ListFacts DEF AreStrictlyRising
  <1>2. IsList(t) /\ Len(t) = N + 1 /\ t[N + 1] = x /\ \A k \in 1..N : t[k] = s[k]
    BY <1>1, ListAppend
  <1>3. \A k \in 1..(N + 1) : k = N + 1 \/ k \in 1..N
    BY <1>1
  <1>4. \A k \in 1..N : s[k].pos \in Nat /\ s[k].pos < z /\ (k <= i <=> s[k].pos < b)
    BY DEF AreStrictlyRising, IsTakenTo
  <1>5. \A k, l \in 1..N : k < l => s[k].pos < s[l].pos
    BY DEF AreStrictlyRising
  <1>6. ~ (N + 1 <= i) /\ ~ (z < b)
    BY <1>1
  <1> HIDE DEF N, t
  <1>7. \A k \in 1..(N + 1) : t[k].pos \in Nat
    BY <1>2, <1>3, <1>4
  <1>8. ASSUME NEW k \in 1..(N + 1), NEW l \in 1..(N + 1), k < l PROVE t[k].pos < t[l].pos
    <2>1. k \in 1..N
      BY <1>1, <1>8
    <2>2. CASE l = N + 1
      BY <2>1, <2>2, <1>2, <1>4
    <2>3. CASE l \in 1..N
      BY <2>1, <2>3, <1>2, <1>5, <1>8
    <2> QED
      BY <1>3, <2>2, <2>3
  <1>9. \A k \in 1..(N + 1) : k <= i <=> t[k].pos < b
    <2> SUFFICES ASSUME NEW k \in 1..(N + 1) PROVE k <= i <=> t[k].pos < b
      OBVIOUS
    <2>1. CASE k = N + 1
      BY <2>1, <1>2, <1>6
    <2>2. CASE k \in 1..N
      BY <2>2, <1>2, <1>4
    <2> QED
      BY <1>3, <2>1, <2>2
  <1> QED
    BY <1>2, <1>7, <1>8, <1>9 DEF AreStrictlyRising, IsTakenTo, t

\* A turn that takes two siblings.
LEMMA PairTurn ==
    ASSUME NEW n, NEW nodes, NEW A, NEW B, NEW X, NEW rs, IsGiven(nodes, A, B, X, rs, n),
           NEW st, NEW b \in Nat, IsUpTo(nodes, st, A, X, b, n),
           NEW m \in A, m \in Nat, b <= m, IsLeast(A, b, m),
           ~ IsRootPosition(m, n, TreeRows(n)),
           IsTaken(nodes, st, m, GetNext(nodes, st), Advance(nodes, st)), InMap(X, GetNext(nodes, st))
    PROVE  IsUpTo(nodes, DeleteTurn(nodes, st, n), A, X, m + 2, n)
  <1> DEFINE rows   == TreeRows(n)
             Root(p) == IsRootPosition(p, n, rows)
             next   == GetNext(nodes, st)
             one    == Advance(nodes, st)
             right  == GetNext(nodes, one)
             two    == Advance(nodes, one)
             parent == [pos |-> Parent(m, rows), hash |-> JoinDelete(next.hash, right.hash)]
             after  == WithParent(two, parent)
             r == m + 1
             c == m + 2
             h == Parent(m, rows)
  <1>1. n \in Nat /\ n <= 2^MaxForestRows /\ IsPlan(A, B, n) /\ IsMap(X, rs, n)
    BY DEF IsGiven
  <1>2. ~ st.error /\ ~ Exhausted(nodes, st) /\ next.pos = m
    BY DEF IsUpTo, IsQueue, IsTaken
  <1>3. IsQueue(nodes, one, r) /\ one.parents = st.parents /\ one.roots = st.roots
    BY DEF IsTaken
  <1>4. AreMade(st.parents, A, X, b, n) /\ \A a \in A : ~ Root(a) /\ a < b => Sibling(a) < b
    BY DEF IsUpTo
  <1>5. \A a \in A : a \in Nat
    BY <1>1, PlanFamily
  <1>6. ASSUME NEW a \in A, a < m PROVE a < b
    <2>1. a \in Nat /\ (a >= b => a >= m)
      BY <1>5 DEF IsLeast
    <2> QED
      BY <1>6, <2>1
  <1>7. Sibling(m) \in A /\ ~ Root(Sibling(m)) /\ Parent(Sibling(m), rows) = h /\ h \in A /\ h \in Nat
    BY <1>1, PlanFamily
  <1>8. m % 2 = 0
    <2> SUFFICES ASSUME m % 2 # 0 PROVE FALSE
      OBVIOUS
    <2> DEFINE s == Sibling(m)
    <2>1. s = m - 1
      BY <1>1, PlanFamily
    <2>2. s < m
      BY <2>1
    <2>3. s < b
      BY <2>2, <1>6, <1>7
    <2>4. Sibling(s) = m
      <3>1. s \in Nat /\ s % 2 = 0 /\ s + 1 = m
        BY <2>1
      <3> HIDE DEF s
      <3> QED
        BY <3>1 DEF Sibling, IsLeftNiece
    <2>5. m < b
      BY <1>4, <1>7, <2>3, <2>4
    <2> QED
      BY <2>5
  <1>9. Sibling(m) = r /\ RightSibling(m) = r /\ r < h
    BY <1>1, <1>8, PlanFamily
  <1>10. r \in A /\ ~ Root(r) /\ Parent(r, rows) = h /\ r \in Nat
    BY <1>7, <1>9
  <1> HIDE DEF one, next
  <1>11. ASSUME NEW a \in A, ~ Root(a), Parent(a, rows) = r PROVE a < b
    <2>1. a \in Nat /\ a < r
      BY <1>1, <1>11, PlanFamily
    <2>2. a # m
      BY <1>9, <1>10, <1>11
    <2>3. a < m
      BY <2>1, <2>2
    <2> QED
      BY <2>3, <1>6
  <1>12. IsTaken(nodes, one, r, right, two) /\ InMap(X, right)
    <2>1. AreMade(one.parents, A, X, b, n)
      BY <1>3, <1>4
    <2>2. r <= r /\ IsLeast(A, r, r) /\ AreSeen(A, r, b, n)
      BY <1>10, <1>11 DEF IsLeast, AreSeen
    <2> HIDE DEF r
    <2> QED
      BY <1>3, <1>10, <2>1, <2>2, LowestIsTaken DEF right, two
  <1>13. DeleteTurn(nodes, st, n) = after
    <2>1. ~ Root(next.pos)
      BY <1>2
    <2>2. DeleteTurn(nodes, st, n) = HashPair(nodes, one, next, rows, JoinDelete)
      BY <1>2, <2>1 DEF DeleteTurn, HashTurn, next, one
    <2>3. ~ Exhausted(nodes, one) /\ right.pos = RightSibling(next.pos)
      BY <1>2, <1>9, <1>12 DEF IsTaken
    <2> QED
      BY <1>2, <2>2, <2>3 DEF HashPair, WithParent
  <1>14. IsQueue(nodes, two, r + 1) /\ two.parents = st.parents /\ two.roots = st.roots
    BY <1>3, <1>12 DEF IsTaken
  <1> HIDE DEF two, right
  <1>15. parent.pos = h /\ parent.hash.old = ParentHash(next.hash.old, right.hash.old)
    BY DEF JoinDelete
  <1> HIDE DEF parent
  <1>16. InMap(X, parent)
    <2>1. <<m, next.hash.old>> \in X
      BY <1>2 DEF InMap, next
    <2>2. <<m + 1, right.hash.old>> \in X
      BY <1>12 DEF InMap, IsTaken
    <2>3. <<h, ParentHash(next.hash.old, right.hash.old)>> \in X
      <3>1. m % 2 = 0 /\ ~ IsRootPosition(m, n, rows) /\ ~ IsRootPosition(m + 1, n, rows)
            /\ Parent(m + 1, rows) = Parent(m, rows) /\ rows = TreeRows(n) /\ m \in Nat
        BY <1>8, <1>10
      <3> DEFINE x == next.hash.old
                 y == right.hash.old
      <3> HIDE DEF x, y, rows
      <3>2. <<m, x>> \in X /\ <<m + 1, y>> \in X
        BY <2>1, <2>2 DEF x, y
      <3>3. <<Parent(m, rows), ParentHash(x, y)>> \in X
        BY ONLY <1>1, <3>1, <3>2, MapJoins
      <3> QED
        BY <3>3 DEF x, y
    <2> QED
      BY <1>15, <2>3 DEF InMap
  <1>17. /\ IsState(nodes, after) /\ after.error = two.error
         /\ after.roots = two.roots /\ after.provided = two.provided /\ after.computed = two.computed
         /\ after.parents = Append(two.parents, parent)
    <2>1. IsState(nodes, two)
      BY <1>14 DEF IsQueue
    <2>2. IsState(nodes, after) /\ after.error = two.error
      BY <2>1, AddParentFacts
    <2> QED
      BY <2>1, <2>2 DEF WithParent, IsState
  <1> HIDE DEF after
  <1> DEFINE P == two.parents
             L == Len(P)
  <1>18. r + 1 = c /\ c \in Nat /\ c <= h /\ m < c /\ r < c
    BY <1>7, <1>9
  <1>19. /\ AreStrictlyRising(P) /\ IsTakenTo(P, two.computed, c)
         /\ two.computed \in 0..L
    BY <1>14, <1>18 DEF IsQueue, IsState
  <1>20. \A k \in 1..L : P[k].pos < h
    <2> SUFFICES ASSUME NEW k \in 1..L PROVE P[k].pos < h
      OBVIOUS
    <2>1. PICK a \in A : ~ Root(a) /\ a < b /\ P[k].pos = Parent(a, rows)
      BY <1>4, <1>14 DEF AreMade
    <2> DEFINE g == Parent(a, rows)
               K == 2^(rows + 1)
    <2>2. 2 * g + (a % 2) = a + K /\ K \in Nat /\ g \in Nat /\ a \in Nat
      <3>1. IsHalfOf(g, a, rows) /\ a \in Nat
        BY <1>1, <2>1, PlanFamily
      <3> QED
        BY <3>1 DEF IsHalfOf
    <2>3. 2 * h + (m % 2) = m + K
      <3>1. IsHalfOf(h, m, rows)
        BY <1>1, PlanFamily
      <3> QED
        BY <3>1 DEF IsHalfOf
    <2>4. a < m
      BY <2>1, <2>2
    <2> HIDE DEF g, K, h
    <2>5. g < h
      BY <1>7, <1>8, <2>2, <2>3, <2>4
    <2> QED
      BY <2>1, <2>5 DEF g
  <1> HIDE DEF c, h
  <1>21. AreStrictlyRising(after.parents) /\ IsTakenTo(after.parents, two.computed, c)
    BY <1>7, <1>15, <1>17, <1>18, <1>19, <1>20, AppendRises
  <1>22. IsQueue(nodes, after, c)
    BY <1>14, <1>17, <1>18, <1>21 DEF IsQueue
  <1>23. L \in Nat /\ IsList(P)
    BY <1>19, ListFacts DEF AreStrictlyRising
  <1> DEFINE Q == after.parents
  <1>24. Len(Q) = L + 1 /\ Q[L + 1] = parent /\ \A k \in 1..L : Q[k] = P[k]
    BY <1>17, <1>23, ListAppend
  <1>25. \A k \in 1..(L + 1) : k = L + 1 \/ k \in 1..L
    BY <1>23
  <1>26. L + 1 \in 1..(L + 1) /\ \A k \in 1..L : k \in 1..(L + 1)
    BY <1>23
  <1>27. \A a \in A : a < b => a < c
    BY <1>5, <1>18
  <1> HIDE DEF L, Q, P
  <1>28. ASSUME NEW a \in A, a < c PROVE a < b \/ a = m \/ a = r
    <2>1. a \in Nat /\ c = m + 2
      BY <1>5 DEF c
    <2>2. a < m \/ a = m \/ a = m + 1
      BY <1>28, <2>1
    <2> QED
      BY <2>2, <1>6
  <1>29. AreMade(P, A, X, b, n)
    BY <1>4, <1>14 DEF P
  <1>30. AreMade(Q, A, X, c, n)
    <2>1. ASSUME NEW k \in 1..(L + 1)
          PROVE  InMap(X, Q[k]) /\ \E a \in A : ~ Root(a) /\ a < c /\ Q[k].pos = Parent(a, rows)
      <3>1. CASE k = L + 1
        BY <3>1, <1>15, <1>16, <1>18, <1>24 DEF h
      <3>2. CASE k \in 1..L
        <4>1. InMap(X, P[k]) /\ \E a \in A : ~ Root(a) /\ a < b /\ P[k].pos = Parent(a, rows)
          BY <3>2, <1>29 DEF AreMade, L
        <4> QED
          BY <3>2, <4>1, <1>24, <1>27
      <3> QED
        BY <3>1, <3>2, <1>25
    <2>2. ASSUME NEW a \in A, ~ Root(a), a < c PROVE HasAt(Q, Parent(a, rows))
      <3>1. CASE a < b
        <4>1. PICK k \in 1..L : P[k].pos = Parent(a, rows)
          BY <3>1, <2>2, <1>29 DEF AreMade, HasAt, L
        <4> QED
          BY <4>1, <1>24, <1>26 DEF HasAt
      <3>2. CASE a = m \/ a = r
        <4>1. Parent(a, rows) = h
          BY <3>2, <1>10 DEF h
        <4> QED
          BY <4>1, <1>15, <1>24, <1>26 DEF HasAt
      <3> QED
        BY <3>1, <3>2, <2>2, <1>28
    <2> QED
      BY <2>1, <2>2, <1>24 DEF AreMade
  <1>31. PICK w : AreFoundAt(w, st.roots, A, X, b, n)
    BY DEF IsUpTo
  <1>32. AreFoundAt(w, after.roots, A, X, c, n)
    BY <1>14, <1>17, <1>27, <1>31 DEF AreFoundAt
  <1>33. ASSUME NEW a \in A, ~ Root(a), a < c PROVE Sibling(a) < c
    <2>1. CASE a < b
      <3>1. Sibling(a) < b /\ Sibling(a) \in A
        BY <1>1, <1>4, <1>33, <2>1, PlanFamily
      <3> QED
        BY <3>1, <1>27
    <2>2. CASE a = m
      BY <2>2, <1>9, <1>18
    <2>3. CASE a = r
      <3>1. Sibling(r) = m
        <4>1. ~ (r % 2 = 0) /\ r - 1 = m
          BY <1>8
        <4> QED
          BY <4>1 DEF Sibling, IsLeftNiece
      <3> QED
        BY <2>3, <3>1, <1>18
    <2> QED
      BY <1>28, <1>33, <2>1, <2>2, <2>3
  <1>34. IsUpTo(nodes, after, A, X, c, n)
    BY <1>22, <1>30, <1>32, <1>33 DEF IsUpTo, Q
  <1> QED
    BY <1>13, <1>34 DEF c

\* Whatever it takes, the loop goes on.
LEMMA GivenTurn ==
    ASSUME NEW n, NEW nodes, NEW A, NEW B, NEW X, NEW rs, IsGiven(nodes, A, B, X, rs, n),
           NEW st, NEW b \in Nat, IsUpTo(nodes, st, A, X, b, n)
    PROVE  \E c \in Nat : IsUpTo(nodes, DeleteTurn(nodes, st, n), A, X, c, n)
  <1>1. /\ n \in Nat /\ n <= 2^MaxForestRows /\ IsPlan(A, B, n)
        /\ \A k \in 1..Len(nodes) : nodes[k].pos \in B
    BY DEF IsGiven
  <1>2. \A a \in A : a \in Nat
    BY <1>1, PlanFamily
  <1>3. CASE Exhausted(nodes, st)
    <2>1. DeleteTurn(nodes, st, n) = st
      BY <1>3 DEF DeleteTurn, HashTurn
    <2> QED
      BY <2>1
  <1>4. CASE ~ Exhausted(nodes, st)
    <2> DEFINE S == {a \in A : a >= b}
               P == st.parents
    <2>1. /\ IsState(nodes, st) /\ IsTakenTo(nodes, st.provided, b) /\ IsTakenTo(P, st.computed, b)
          /\ AreMade(P, A, X, b, n)
      BY DEF IsUpTo, IsQueue
    <2>2. /\ Len(nodes) \in Nat /\ Len(P) \in Nat
          /\ st.provided \in Nat /\ st.provided <= Len(nodes)
          /\ st.computed \in Nat /\ st.computed <= Len(P)
          /\ ~ (st.provided = Len(nodes) /\ st.computed = Len(P))
      BY <1>4, <2>1, StateTypes DEF Exhausted
    <2>3. ASSUME NEW p \in A, ~ (p < b) PROVE S # {}
      <3>1. p >= b
        BY <1>2, <2>3
      <3> QED
        BY <3>1
    <2>4. S # {}
      <3>1. CASE st.provided # Len(nodes)
        <4> DEFINE k == st.provided + 1
        <4>1. k \in 1..Len(nodes) /\ ~ (k <= st.provided)
          BY <2>2, <3>1
        <4> HIDE DEF k
        <4>2. nodes[k].pos \in A /\ ~ (nodes[k].pos < b)
          BY <1>1, <2>1, <4>1 DEF IsTakenTo, IsPlan
        <4> QED
          BY <4>2, <2>3
      <3>2. CASE st.computed # Len(P)
        <4> DEFINE k == st.computed + 1
        <4>1. k \in 1..Len(P) /\ ~ (k <= st.computed)
          BY <2>2, <3>2
        <4> HIDE DEF k
        <4>2. ~ (P[k].pos < b)
          BY <2>1, <4>1 DEF IsTakenTo
        <4>3. P[k].pos \in A
          BY <1>1, <2>1, <4>1 DEF AreMade, IsPlan
        <4> QED
          BY <4>2, <4>3, <2>3
      <3> QED
        BY <2>2, <3>1, <3>2
    <2>5. PICK m \in S : \A a \in S : m <= a
      <3>1. S \subseteq Nat
        BY <1>2
      <3> HIDE DEF S
      <3> QED
        BY <2>4, <3>1, LeastNumber
    <2>6. m \in A /\ m \in Nat /\ b <= m
      BY <1>2
    <2>7. IsLeast(A, b, m)
      BY <1>2, <2>5 DEF IsLeast
    <2> HIDE DEF S
    <2>8. AreSeen(A, m, b, n)
      <3> SUFFICES ASSUME NEW a \in A, ~ IsRootPosition(a, n, TreeRows(n)), Parent(a, TreeRows(n)) = m
                   PROVE  a < b
        BY DEF AreSeen
      <3>1. a \in Nat /\ a < m
        BY <1>1, PlanFamily
      <3>2. a >= b => a >= m
        BY <2>7 DEF IsLeast
      <3> QED
        BY <2>6, <3>1, <3>2
    <2>9. /\ IsTaken(nodes, st, m, GetNext(nodes, st), Advance(nodes, st))
          /\ InMap(X, GetNext(nodes, st))
      <3>1. IsQueue(nodes, st, b) /\ AreMade(st.parents, A, X, b, n)
        BY DEF IsUpTo
      <3> QED
        BY <2>6, <2>7, <2>8, <3>1, LowestIsTaken
    <2>10. CASE IsRootPosition(m, n, TreeRows(n))
      <3>1. IsUpTo(nodes, DeleteTurn(nodes, st, n), A, X, m + 1, n)
        BY <2>6, <2>7, <2>9, <2>10, RootTurn
      <3>2. m + 1 \in Nat
        BY <2>6
      <3> QED
        BY <3>1, <3>2
    <2>11. CASE ~ IsRootPosition(m, n, TreeRows(n))
      <3>1. IsUpTo(nodes, DeleteTurn(nodes, st, n), A, X, m + 2, n)
        BY <2>6, <2>7, <2>9, <2>11, PairTurn
      <3>2. m + 2 \in Nat
        BY <2>6
      <3> QED
        BY <3>1, <3>2
    <2> QED
      BY <2>10, <2>11
  <1> QED
    BY <1>3, <1>4

LEMMA HashUpFinds ==
    ASSUME NEW n, NEW nodes, NEW A, NEW B, NEW X, NEW rs, IsGiven(nodes, A, B, X, rs, n),
           NEW done, done = HashUp(nodes, n, JoinDelete)
    PROVE  \E c \in Nat : IsUpTo(nodes, done, A, X, c, n)
  <1> DEFINE N == Len(nodes)
  <1>1. IsList(nodes) /\ AreStrictlyRising(nodes) /\ n \in Nat /\ n <= 2^MaxForestRows /\ IsPlan(A, B, n)
    BY DEF IsGiven, AreStrictlyRising
  <1>2. N \in Nat
    BY <1>1, ListFacts
  <1>3. PICK f : /\ f[0] = StartState
                 /\ \A k \in 1..Len(nodes) : f[k] = DeleteTurn(nodes, f[k - 1], n)
                 /\ f[Len(nodes)] = HashUp(nodes, n, JoinDelete)
                 /\ \A k \in 0..Len(nodes) :
                        /\ IsState(nodes, f[k])
                        /\ ~ f[k].error => Left(nodes, f[k]) = Len(nodes) - k
    BY <1>1, HashUpTurns
  <1>4. /\ f[0] = StartState /\ IsState(nodes, f[0])
        /\ \A k \in 1..N : f[k] = DeleteTurn(nodes, f[k - 1], n)
        /\ f[N] = done
    <2>1. 0 \in 0..N
      BY <1>2
    <2> QED
      BY <1>3, <2>1
  <1> HIDE DEF N
  <1>5. Len(<<>>) = 0 /\ \A k \in 1..0 : FALSE
    OBVIOUS
  <1>6. IsUpTo(nodes, StartState, A, X, 0, n)
    <2> DEFINE P == StartState.parents
               F == StartState.roots
    <2>1. /\ StartState.provided = 0 /\ StartState.computed = 0 /\ ~ StartState.error
          /\ Len(P) = 0 /\ Len(F) = 0
      BY <1>5 DEF StartState
    <2>2. \A a \in A : a \in Nat /\ ~ (a < 0)
      <3>1. \A a \in A : a \in Nat
        BY <1>1, PlanFamily
      <3> QED
        BY <3>1
    <2>3. IsTakenTo(nodes, 0, 0)
      <3> SUFFICES ASSUME NEW k \in 1..Len(nodes) PROVE k <= 0 <=> nodes[k].pos < 0
        BY DEF IsTakenTo
      <3>1. nodes[k].pos \in Nat
        BY <1>1 DEF AreStrictlyRising
      <3>2. ~ (nodes[k].pos < 0)
        BY <3>1
      <3>3. ~ (k <= 0)
        BY <1>2 DEF N
      <3> QED
        BY <3>2, <3>3
    <2> HIDE DEF P, F
    <2>4. \A k \in 1..Len(P) : FALSE
      BY <2>1, <1>5
    <2>5. \A k \in 1..Len(F) : FALSE
      BY <2>1, <1>5
    <2>6. IsTakenTo(P, 0, 0)
      BY <2>4 DEF IsTakenTo
    <2>7. AreStrictlyRising(P)
      <3>1. IsList(P)
        BY <1>4 DEF IsState, P
      <3> QED
        BY <3>1, <2>4 DEF AreStrictlyRising
    <2>8. IsQueue(nodes, StartState, 0)
      BY <1>1, <1>4, <2>1, <2>3, <2>6, <2>7 DEF IsQueue, P
    <2>9. AreMade(P, A, X, 0, n)
      BY <2>2, <2>4 DEF AreMade
    <2>10. AreFoundAt(<<>>, F, A, X, 0, n)
      BY <2>5 DEF AreFoundAt
    <2> QED
      BY <2>2, <2>8, <2>9, <2>10 DEF IsUpTo, P, F
  <1> DEFINE S == {k \in Nat : k <= N => \E c \in Nat : IsUpTo(nodes, f[k], A, X, c, n)}
  <1>7. 0 \in S
    BY <1>4, <1>6
  <1>8. ASSUME NEW k \in Nat, k \in S PROVE k + 1 \in S
    <2> SUFFICES ASSUME k + 1 <= N PROVE \E c \in Nat : IsUpTo(nodes, f[k + 1], A, X, c, n)
      OBVIOUS
    <2>1. k + 1 \in 1..N /\ (k + 1) - 1 = k /\ k <= N
      BY <1>2
    <2>2. PICK b \in Nat : IsUpTo(nodes, f[k], A, X, b, n)
      BY <1>8, <2>1
    <2> DEFINE st == f[k]
    <2>3. f[k + 1] = DeleteTurn(nodes, st, n)
      BY <1>4, <2>1
    <2>4. IsUpTo(nodes, st, A, X, b, n)
      BY <2>2
    <2> HIDE DEF st
    <2> QED
      BY <2>3, <2>4, GivenTurn
  <1>9. Nat \subseteq S
    <2> HIDE DEF S
    <2> QED
      BY <1>7, <1>8, NatInductionOn
  <1>10. N \in S
    BY <1>2, <1>9
  <1> QED
    BY <1>2, <1>4, <1>10

LEMMA NoLeavesIsEmpty == ASSUME NEW t \in WholeTrees, LeafSets[t] = {} PROVE t = Empty
  <1>1. Without(t, {}) = Empty
    BY WithoutAll
  <1>2. Without(t, {}) = t
    BY WithoutOthers
  <1> QED
    BY <1>1, <1>2

\* Roots of rs, each once.
AreRootsOf(computed, rs) ==
    /\ IsList(computed)
    /\ \A k \in 1..Len(computed) : \E i \in 1..Len(rs) : computed[k].old = rs[i]
    /\ \A k, l \in 1..Len(computed) : k # l => computed[k].old # computed[l].old

LEMMA RootsAreFound ==
    ASSUME NEW n, NEW nodes, NEW A, NEW B, NEW X, NEW rs, IsGiven(nodes, A, B, X, rs, n),
           IsGrown(rs, n), FindNoEmpty(A, X, n),
           NEW done, done = HashUp(nodes, n, JoinDelete)
    PROVE  ~ done.error /\ AreRootsOf(done.roots, rs)
  <1> DEFINE found == done.roots
  <1>1. PICK c \in Nat : IsUpTo(nodes, done, A, X, c, n)
    BY HashUpFinds
  <1>2. ~ done.error /\ IsList(found)
    BY <1>1 DEF IsUpTo, IsQueue, IsState
  <1>3. PICK w : AreFoundAt(w, found, A, X, c, n)
    BY <1>1 DEF IsUpTo
  <1>4. n \in Nat /\ n <= 2^MaxForestRows /\ IsMap(X, rs, n) /\ IsPlan(A, B, n)
    BY DEF IsGiven
  <1> HIDE DEF found
  <1>5. ASSUME NEW k \in 1..Len(found)
        PROVE  w[k] \in Nat /\ \E i \in 1..Len(rs) : /\ found[k].old = rs[i] /\ w[k] = RootSpot(n, i)
                                                     /\ rs[i] # Empty
    <2> DEFINE p == w[k]
               t == found[k].old
    <2>1. p \in A /\ IsRootPosition(p, n, TreeRows(n)) /\ <<p, t>> \in X
      BY <1>3 DEF AreFoundAt
    <2> HIDE DEF p, t
    <2>2. IsRootAt(rs, p, t, n)
      BY <1>4, <2>1 DEF IsMap, Hangs
    <2>3. t # Empty
      BY <2>1 DEF FindNoEmpty
    <2>4. p \in Nat
      BY <1>4, <2>1, PlanFamily
    <2> QED
      BY <2>2, <2>3, <2>4 DEF IsRootAt, p, t
  <1>6. ASSUME NEW k \in 1..Len(found), NEW l \in 1..Len(found), k < l PROVE found[k].old # found[l].old
    <2>1. PICK i \in 1..Len(rs) : found[k].old = rs[i] /\ w[k] = RootSpot(n, i) /\ rs[i] # Empty
      BY <1>5
    <2>2. PICK j \in 1..Len(rs) : found[l].old = rs[j] /\ w[l] = RootSpot(n, j)
      BY <1>5
    <2>3. w[k] < w[l] /\ w[k] \in Nat
      BY <1>3, <1>5, <1>6 DEF AreFoundAt
    <2>4. i # j
      BY <2>1, <2>2, <2>3
    <2>5. LeafSets[rs[i]] \cap LeafSets[rs[j]] = {} /\ rs[i] \in WholeTrees
      BY <2>4 DEF IsGrown, IsForest
    <2>6. LeafSets[rs[i]] # {}
      BY <2>1, <2>5, NoLeavesIsEmpty
    <2> QED
      BY <2>1, <2>2, <2>5, <2>6
  <1>7. ASSUME NEW k \in 1..Len(found), NEW l \in 1..Len(found), k # l PROVE found[k].old # found[l].old
    <2>1. Len(found) \in Nat
      BY <1>2, ListFacts
    <2>2. k < l \/ l < k
      BY <1>7, <2>1
    <2> QED
      BY <2>2, <1>6
  <1> QED
    BY <1>2, <1>5, <1>7 DEF AreRootsOf, found

-----------------------------------------------------------------------------
(***************************************************************************)
(* Every computed root that is one of the stump's is matched.              *)
(***************************************************************************)
IsUnmatched(left, k, rs) ==
    /\ IsList(left)
    /\ \A j \in 1..Len(left) : \E i \in 1..Len(rs) : k < i /\ left[j].old = rs[i]
    /\ \A i, j \in 1..Len(left) : i # j => left[i].old # left[j].old

IsRestOf(left, k, rs) ==
    IsList(left) /\ Len(left) = Len(rs) - k /\ \A j \in 1..Len(left) : left[j].old = rs[k + j]

LEMMA LeastOf ==
    ASSUME NEW S, S \subseteq Nat, S # {}, NEW pos, pos = CHOOSE i \in S : \A j \in S : i <= j
    PROVE  pos \in S /\ \A j \in S : pos <= j
  <1>1. \E i \in S : \A j \in S : i <= j
    BY LeastNumber
  <1> QED
    BY <1>1

LEMMA MatchRootLeft ==
    ASSUME NEW st, IsList(st.left), NEW root, st = [left |-> st.left, roots |-> st.roots]
    PROVE  \/ /\ MatchRoot(st, root).left = st.left
              /\ \A i \in 1..Len(st.left) : st.left[i].old # root
           \/ \E pos \in 1..Len(st.left) :
                  /\ MatchRoot(st, root).left = RemoveAt(st.left, pos)
                  /\ st.left[pos].old = root
                  /\ \A j \in 1..Len(st.left) : st.left[j].old = root => pos <= j
  <1> DEFINE hits == {i \in 1..Len(st.left) : st.left[i].old = root}
             pos  == CHOOSE i \in hits : \A j \in hits : i <= j
             after == MatchRoot(st, root)
  <1>1. CASE hits = {}
    <2>1. after = [st EXCEPT !.roots = Append(@, root)]
      BY <1>1 DEF MatchRoot
    <2>2. after.left = st.left
      BY <2>1
    <2> QED
      BY <1>1, <2>2
  <1>2. CASE hits # {}
    <2>1. after = [left |-> RemoveAt(st.left, pos), roots |-> Append(st.roots, st.left[pos].new)]
      BY <1>2 DEF MatchRoot
    <2>2. hits \subseteq Nat
      OBVIOUS
    <2> HIDE DEF after, hits
    <2>3. pos \in hits /\ \A j \in hits : pos <= j
      BY <1>2, <2>2, LeastOf
    <2>4. after.left = RemoveAt(st.left, pos)
      BY <2>1
    <2> HIDE DEF pos
    <2>5. pos \in 1..Len(st.left) /\ st.left[pos].old = root
      BY <2>3 DEF hits
    <2>6. \A j \in 1..Len(st.left) : st.left[j].old = root => pos <= j
      BY <2>3 DEF hits
    <2> QED
      BY <2>4, <2>5, <2>6 DEF after
  <1> QED
    BY <1>1, <1>2

LEMMA RootsMatched ==
    ASSUME NEW rs, IsList(rs), NEW k \in Nat, k < Len(rs),
           NEW st, st = [left |-> st.left, roots |-> st.roots]
    PROVE  /\ IsUnmatched(st.left, k, rs) => IsUnmatched(MatchRoot(st, rs[k + 1]).left, k + 1, rs)
           /\ IsRestOf(st.left, k, rs) => IsRestOf(MatchRoot(st, rs[k + 1]).left, k + 1, rs)
  <1> DEFINE K     == Len(rs)
             root  == rs[k + 1]
             left  == st.left
             L     == Len(left)
             after == MatchRoot(st, root)
  <1>1. K \in Nat
    BY ListFacts
  <1>2. SUFFICES ASSUME IsUnmatched(left, k, rs) \/ IsRestOf(left, k, rs)
                 PROVE  /\ IsUnmatched(left, k, rs) => IsUnmatched(after.left, k + 1, rs)
                        /\ IsRestOf(left, k, rs) => IsRestOf(after.left, k + 1, rs)
    OBVIOUS
  <1>3. IsList(left) /\ L \in Nat
    BY <1>2, ListFacts DEF IsUnmatched, IsRestOf
  <1>4. \/ after.left = left /\ \A i \in 1..L : left[i].old # root
        \/ \E pos \in 1..L : /\ after.left = RemoveAt(left, pos)
                             /\ left[pos].old = root
                             /\ \A j \in 1..L : left[j].old = root => pos <= j
    BY <1>3, MatchRootLeft
  <1> HIDE DEF after, left, L
  <1>5. ASSUME NEW e, \E i \in 1..K : k < i /\ e = rs[i], e # root
        PROVE  \E i \in 1..K : k + 1 < i /\ e = rs[i]
    <2>1. PICK i \in 1..K : k < i /\ e = rs[i]
      BY <1>5
    <2>2. i # k + 1
      BY <1>5, <2>1
    <2>3. k + 1 < i
      BY <1>1, <2>1, <2>2
    <2> QED
      BY <2>1, <2>3
  <1> HIDE DEF root
  <1>6. CASE after.left = left /\ \A i \in 1..L : left[i].old # root
    <2>1. IsUnmatched(left, k, rs) => IsUnmatched(left, k + 1, rs)
      BY <1>5, <1>6 DEF IsUnmatched, K, L
    <2>2. ~ IsRestOf(left, k, rs)
      <3> SUFFICES ASSUME IsRestOf(left, k, rs) PROVE FALSE
        OBVIOUS
      <3>1. L = K - k /\ \A j \in 1..L : left[j].old = rs[k + j]
        BY DEF IsRestOf, K, L
      <3>2. 1 \in 1..L
        BY <1>1, <3>1 DEF K
      <3> QED
        BY <3>1, <3>2, <1>6 DEF root
    <2> QED
      BY <1>6, <2>1, <2>2
  <1>7. CASE \E pos \in 1..L : /\ after.left = RemoveAt(left, pos)
                               /\ left[pos].old = root
                               /\ \A j \in 1..L : left[j].old = root => pos <= j
    <2>1. PICK pos \in 1..L : /\ after.left = RemoveAt(left, pos)
                              /\ left[pos].old = root
                              /\ \A j \in 1..L : left[j].old = root => pos <= j
      BY <1>7
    <2> DEFINE s == after.left
    <2>2. IsList(s) /\ Len(s) = L - 1 /\ \A i \in 1..(L - 1) : s[i] = left[Shifted(i, pos)]
      BY <1>3, <2>1, ListRemove DEF L
    <2> HIDE DEF s
    <2>3. \A i \in 1..(L - 1) : Shifted(i, pos) \in 1..L /\ Shifted(i, pos) # pos
      BY <1>3 DEF Shifted
    <2>4. \A i, j \in 1..(L - 1) : i # j => Shifted(i, pos) # Shifted(j, pos)
      BY <1>3 DEF Shifted
    <2>5. ASSUME IsUnmatched(left, k, rs) PROVE IsUnmatched(s, k + 1, rs)
      <3>1. /\ \A j \in 1..L : \E i \in 1..K : k < i /\ left[j].old = rs[i]
            /\ \A i, j \in 1..L : i # j => left[i].old # left[j].old
        BY <2>5 DEF IsUnmatched, K, L
      <3>2. ASSUME NEW j \in 1..(L - 1) PROVE \E i \in 1..K : k + 1 < i /\ s[j].old = rs[i]
        <4> DEFINE o == Shifted(j, pos)
                   e == left[o].old
        <4>1. o \in 1..L /\ o # pos /\ s[j] = left[o]
          BY <2>2, <2>3
        <4> HIDE DEF o
        <4>2. e # root /\ \E i \in 1..K : k < i /\ e = rs[i]
          BY <2>1, <3>1, <4>1
        <4> HIDE DEF e
        <4>3. \E i \in 1..K : k + 1 < i /\ e = rs[i]
          BY <4>2, <1>5
        <4> QED
          BY <4>1, <4>3 DEF e
      <3>3. \A i, j \in 1..(L - 1) : i # j => s[i].old # s[j].old
        BY <2>2, <2>3, <2>4, <3>1
      <3> QED
        BY <2>2, <3>2, <3>3 DEF IsUnmatched, K
    <2>6. ASSUME IsRestOf(left, k, rs) PROVE IsRestOf(s, k + 1, rs)
      <3>1. L = K - k /\ \A j \in 1..L : left[j].old = rs[k + j]
        BY <2>6 DEF IsRestOf, K, L
      <3>2. 1 \in 1..L
        BY <1>1, <3>1 DEF K
      <3>3. pos = 1
        <4>1. left[1].old = root
          BY <3>1, <3>2 DEF root
        <4> QED
          BY <2>1, <3>2, <4>1
      <3>4. L - 1 = K - (k + 1)
        BY <1>1, <3>1
      <3>5. ASSUME NEW j \in 1..(L - 1) PROVE s[j].old = rs[(k + 1) + j]
        <4> DEFINE o == j + 1
        <4>1. Shifted(j, pos) = o /\ o \in 1..L /\ k + o = (k + 1) + j
          BY <1>3, <3>3 DEF Shifted
        <4> HIDE DEF o
        <4>2. s[j] = left[o]
          BY <2>2, <4>1
        <4>3. left[o].old = rs[k + o]
          BY <3>1, <4>1
        <4> QED
          BY <4>1, <4>2, <4>3
      <3> QED
        BY <2>2, <3>4, <3>5 DEF IsRestOf, K
    <2> QED
      BY <2>5, <2>6 DEF s
  <1>8. /\ IsUnmatched(left, k, rs) => IsUnmatched(after.left, k + 1, rs)
        /\ IsRestOf(left, k, rs) => IsRestOf(after.left, k + 1, rs)
    BY <1>4, <1>6, <1>7
  <1> QED
    BY <1>8 DEF after, left, root

LEMMA MatchRootFields ==
    ASSUME NEW st, NEW root, st = [left |-> st.left, roots |-> st.roots]
    PROVE  MatchRoot(st, root) = [left |-> MatchRoot(st, root).left, roots |-> MatchRoot(st, root).roots]
  BY DEF MatchRoot

LEMMA AllRootsMatched ==
    ASSUME NEW rs, IsList(rs), NEW computed,
           AreRootsOf(computed, rs) \/ IsRestOf(computed, 0, rs)
    PROVE  ReplaceRoots(rs, computed).left = <<>>
  <1> DEFINE K == Len(rs)
             f == CHOOSE g : IsReplacing(g, rs, computed)
             Is(st) == st = [left |-> st.left, roots |-> st.roots]
             Fits(left, k) == IsUnmatched(left, k, rs) \/ IsRestOf(left, k, rs)
             S == {k \in Nat : k <= K => Is(f[k]) /\ Fits(f[k].left, k)}
  <1>1. K \in Nat
    BY ListFacts
  <1>2. IsReplacing(f, rs, computed)
    BY <1>1, ReplacingExists
  <1>3. ReplaceRoots(rs, computed) = f[K]
    BY DEF ReplaceRoots, IsReplacing
  <1> HIDE DEF f
  <1>4. f[0] = [left |-> computed, roots |-> <<>>]
    BY <1>1, <1>2 DEF IsReplacing
  <1>5. \A k \in 1..K : f[k] = MatchRoot(f[k - 1], rs[k])
    BY <1>1, <1>2 DEF IsReplacing
  <1>6. 0 \in S
    <2>1. Is(f[0]) /\ f[0].left = computed
      BY <1>4
    <2>2. \A i \in 1..Len(rs) : 0 < i
      BY <1>1
    <2>3. AreRootsOf(computed, rs) => IsUnmatched(computed, 0, rs)
      BY <2>2 DEF AreRootsOf, IsUnmatched
    <2> QED
      BY <2>1, <2>3
  <1>7. ASSUME NEW k \in Nat, k \in S PROVE k + 1 \in S
    <2> SUFFICES ASSUME k + 1 <= K PROVE Is(f[k + 1]) /\ Fits(f[k + 1].left, k + 1)
      OBVIOUS
    <2>1. k + 1 \in 1..K /\ (k + 1) - 1 = k /\ k <= K /\ k < Len(rs)
      BY <1>1
    <2> DEFINE st == f[k]
    <2>2. Is(st) /\ Fits(st.left, k)
      BY <1>7, <2>1
    <2>3. f[k + 1] = MatchRoot(st, rs[k + 1])
      BY <1>5, <2>1
    <2> HIDE DEF st
    <2>4. /\ IsUnmatched(st.left, k, rs) => IsUnmatched(MatchRoot(st, rs[k + 1]).left, k + 1, rs)
          /\ IsRestOf(st.left, k, rs) => IsRestOf(MatchRoot(st, rs[k + 1]).left, k + 1, rs)
      BY <2>1, <2>2, RootsMatched
    <2>5. Is(MatchRoot(st, rs[k + 1]))
      BY <2>2, MatchRootFields
    <2> QED
      BY <2>2, <2>3, <2>4, <2>5
  <1>8. Nat \subseteq S
    <2> HIDE DEF S
    <2> QED
      BY <1>6, <1>7, NatInductionOn
  <1> DEFINE left == f[K].left
  <1>9. IsUnmatched(left, K, rs) \/ IsRestOf(left, K, rs)
    <2>1. K \in S
      <3> HIDE DEF S, K
      <3> QED
        BY <1>1, <1>8
    <2> HIDE DEF K, Fits
    <2>2. Fits(f[K].left, K)
      BY <1>1, <2>1
    <2> QED
      BY <2>2 DEF Fits
  <1> HIDE DEF left
  <1>10. IsList(left) /\ Len(left) = 0
    <2>1. CASE IsUnmatched(left, K, rs)
      <3>1. IsList(left) /\ \A j \in 1..Len(left) : FALSE
        BY <1>1, <2>1 DEF IsUnmatched
      <3>2. Len(left) \in Nat
        BY <3>1, ListFacts
      <3> QED
        BY <3>1, <3>2
    <2>2. CASE IsRestOf(left, K, rs)
      BY <1>1, <2>2 DEF IsRestOf
    <2> QED
      BY <1>9, <2>1, <2>2
  <1>11. left = <<>>
    BY <1>10, NoList, ListEqual
  <1> QED
    BY <1>3, <1>11 DEF left

-----------------------------------------------------------------------------
(***************************************************************************)
(* Looking up a node of the forest by its position or by its hash.         *)
(***************************************************************************)
IsPair(x) == x = <<x[1], x[2]>>

LEMMA PlacedArePairs ==
    ASSUME NEW rows \in Nat
    PROVE  \A t \in WholeTrees : \A p \in Nat : \A x \in Placed(t, p, rows) : IsPair(x)
  <1> DEFINE ArePairs(t) == \A p \in Nat : \A x \in Placed(t, p, rows) : IsPair(x)
             S == {t \in WholeTrees : ArePairs(t)}
  <1>1. ASSUME NEW p, NEW t PROVE IsPair(<<p, t>>)
    BY DEF IsPair
  <1>2. ASSUME NEW t \in WholeTrees, ~ IsBranchHash(t) PROVE t \in S
    <2>1. ASSUME NEW p \in Nat, NEW x \in Placed(t, p, rows) PROVE IsPair(x)
      <3>1. Placed(t, p, rows) = {<<p, t>>}
        BY <1>2, WholeHeights, PlacedEquation
      <3> QED
        BY <3>1, <1>1
    <2> QED
      BY <2>1
  <1>3. ASSUME NEW t \in WholeTrees, IsBranchHash(t), t[1] \in S, t[2] \in S PROVE t \in S
    <2>1. ASSUME NEW p \in Nat, NEW x \in Placed(t, p, rows) PROVE IsPair(x)
      <3> DEFINE l == LeftChild(p, rows)
                 r == RightChild(p, rows)
      <3>1. l \in Nat /\ r \in Nat
        BY ChildPositions
      <3>2. Placed(t, p, rows) = {<<p, t>>} \cup (Placed(t[1], l, rows) \cup Placed(t[2], r, rows))
        BY <1>3, WholeHeights, PlacedEquation
      <3> HIDE DEF l, r
      <3>3. ArePairs(t[1]) /\ ArePairs(t[2])
        BY <1>3
      <3>4. CASE x = <<p, t>>
        BY <3>4, <1>1
      <3>5. CASE x \in Placed(t[1], l, rows)
        BY <3>1, <3>3, <3>5
      <3>6. CASE x \in Placed(t[2], r, rows)
        BY <3>1, <3>3, <3>6
      <3> QED
        BY <3>2, <3>4, <3>5, <3>6
    <2> QED
      BY <2>1
  <1>4. Empty \in S /\ LeafTrees \subseteq S
    <2>1. Empty \in WholeTrees /\ LeafTrees \subseteq WholeTrees
      BY LowTreesAreWhole
    <2>2. ~ IsBranchHash(Empty) /\ \A t \in LeafTrees : ~ IsBranchHash(t)
      <3>1. \A t \in LeafTrees : t \in TreesUpTo[0]
        BY TreesUpToEquation
      <3>2. \A t \in LeafTrees : ~ IsBranchHash(t)
        BY <3>1, TreeKinds
      <3> QED
        BY <3>2, LowTrees, TreeKinds
    <2> QED
      BY <2>1, <2>2, <1>2
  <1>5. WholeTrees \subseteq S
    <2> HIDE DEF S
    <2> QED
      BY <1>3, <1>4, WholeInduction
  <1> QED
    BY <1>5

LEMMA NodesArePairs ==
    ASSUME NEW n \in Nat, n <= 2^MaxForestRows, NEW rs, IsGrown(rs, n)
    PROVE  \A x \in NodesOf(rs, n) : IsPair(x)
  <1> SUFFICES ASSUME NEW x \in NodesOf(rs, n) PROVE IsPair(x)
    OBVIOUS
  <1>1. PICK i \in 1..Len(rs) : x \in Placed(rs[i], RootSpot(n, i), TreeRows(n))
    BY DEF NodesOf, RootSpot
  <1>2. IsNode(RootSpot(n, i), rs[i], n)
    BY RootsOnRows
  <1>3. PICK row, off : IsSpot(RootSpot(n, i), row, off, n)
    BY <1>2 DEF IsNode
  <1>4. RootSpot(n, i) \in Nat /\ rs[i] \in WholeTrees /\ TreeRows(n) \in Nat
    BY <1>2, <1>3, SpotPlace, TreeRowsFacts DEF IsNode
  <1> QED
    BY <1>1, <1>4, PlacedArePairs

\* The hash of each place, and a place of each leaf.
IsIndex(X, rs, n) ==
    /\ IsMap(X, rs, n)
    /\ \A h \in Members(rs) : <<PositionIn(X, h), h>> \in X
    /\ \A p, t : <<p, t>> \in X => HashIn(X, p) = t

LEMMA NodesIndexed ==
    ASSUME NEW n \in Nat, n <= 2^MaxForestRows, NEW rs, IsGrown(rs, n)
    PROVE  IsIndex(NodesOf(rs, n), rs, n)
  <1> DEFINE X == NodesOf(rs, n)
  <1>1. IsMap(X, rs, n) /\ \A x \in X : IsPair(x)
    BY NodesMapped, NodesArePairs
  <1> HIDE DEF X
  <1>2. ASSUME NEW h \in Members(rs) PROVE <<PositionIn(X, h), h>> \in X
    <2> DEFINE x == CHOOSE y \in X : y[2] = h
    <2>1. PICK p : <<p, h>> \in X
      BY <1>1 DEF IsMap
    <2>2. <<p, h>>[2] = h
      OBVIOUS
    <2>3. \E y \in X : y[2] = h
      BY <2>1, <2>2
    <2>4. x \in X /\ x[2] = h
      BY <2>3
    <2>5. x[1] = PositionIn(X, h)
      BY DEF PositionIn
    <2> HIDE DEF x
    <2>6. x = <<x[1], x[2]>>
      BY <1>1, <2>4 DEF IsPair
    <2> QED
      BY <2>4, <2>5, <2>6
  <1>3. ASSUME NEW p, NEW t, <<p, t>> \in X PROVE HashIn(X, p) = t
    <2> DEFINE x == CHOOSE y \in X : y[1] = p
    <2>1. <<p, t>>[1] = p
      OBVIOUS
    <2>2. \E y \in X : y[1] = p
      BY <1>3, <2>1
    <2>3. x \in X /\ x[1] = p
      BY <2>2
    <2>4. x[2] = HashIn(X, p)
      BY DEF HashIn
    <2> HIDE DEF x
    <2>5. x = <<x[1], x[2]>>
      BY <1>1, <2>3 DEF IsPair
    <2>6. <<p, HashIn(X, p)>> \in X
      BY <2>3, <2>4, <2>5
    <2> QED
      BY <1>1, <1>3, <2>6 DEF IsMap
  <1> QED
    BY <1>1, <1>2, <1>3 DEF IsIndex, X

\* The leaves of D, each once.
Lists(s, D) ==
    /\ IsList(s)
    /\ \A i \in 1..Len(s) : s[i] \in D
    /\ \A h \in D : \E i \in 1..Len(s) : s[i] = h
    /\ \A i, j \in 1..Len(s) : i # j => s[i] # s[j]

LEMMA IndexedPositions ==
    ASSUME NEW X, NEW rs, NEW n \in Nat, n <= 2^MaxForestRows, IsIndex(X, rs, n)
    PROVE  \A h \in Members(rs) : /\ PositionIn(X, h) \in Nat /\ IsPlace(PositionIn(X, h), n)
                                  /\ HashIn(X, PositionIn(X, h)) = h
  <1> SUFFICES ASSUME NEW h \in Members(rs)
               PROVE  /\ PositionIn(X, h) \in Nat /\ IsPlace(PositionIn(X, h), n)
                      /\ HashIn(X, PositionIn(X, h)) = h
    OBVIOUS
  <1> DEFINE p == PositionIn(X, h)
  <1>1. <<p, h>> \in X
    BY DEF IsIndex
  <1> HIDE DEF p
  <1>2. HashIn(X, p) = h
    BY <1>1 DEF IsIndex
  <1>3. IsNode(p, h, n)
    BY <1>1 DEF IsIndex, IsMap
  <1>4. PICK row, off : IsSpot(p, row, off, n)
    BY <1>3 DEF IsNode
  <1>5. p \in Nat /\ IsPlace(p, n)
    BY <1>4, SpotPlace DEF IsPlace
  <1> QED
    BY <1>2, <1>5 DEF p

LEMMA InOrderLists ==
    ASSUME NEW n \in Nat, n <= 2^MaxForestRows, NEW rs, IsGrown(rs, n),
           NEW D \in SUBSET Members(rs), IsFiniteSet(D)
    PROVE  Lists(InOrder(rs, n, D), D)
  <1> DEFINE X == NodesOf(rs, n)
             f == [h \in D |-> PositionIn(X, h)]
             P == {f[h] : h \in D}
             where == Ascending(P)
             s == InOrder(rs, n, D)
  <1>1. IsIndex(X, rs, n)
    BY NodesIndexed
  <1>2. {PositionIn(X, h) : h \in D} = P
    OBVIOUS
  <1>3. s = [i \in 1..Len(where) |-> HashIn(X, where[i])]
    BY <1>2 DEF InOrder
  <1> HIDE DEF X
  <1>4. ASSUME NEW h \in D PROVE f[h] \in Nat /\ HashIn(X, f[h]) = h
    <2>1. PositionIn(X, h) \in Nat /\ HashIn(X, PositionIn(X, h)) = h
      BY <1>1, IndexedPositions
    <2> QED
      BY <2>1
  <1>5. f = [h \in D |-> f[h]]
    OBVIOUS
  <1> HIDE DEF f
  <1>6. IsFiniteSet(P) /\ P \in SUBSET Nat
    BY <1>4, <1>5, ImageIsFinite
  <1>7. \A p \in P : HashIn(X, p) \in D /\ p = f[HashIn(X, p)]
    BY <1>4
  <1>8. \A h \in D : f[h] \in P /\ HashIn(X, f[h]) = h
    BY <1>4
  <1> HIDE DEF P
  <1>9. where = Ascending(P)
    OBVIOUS
  <1> HIDE DEF where
  <1>10. /\ IsList(where)
         /\ \A i \in 1..Len(where) : where[i] \in P
         /\ \A x \in P : \E i \in 1..Len(where) : where[i] = x
         /\ \A i, j \in 1..Len(where) : i < j => where[i] < where[j]
    BY <1>6, <1>9, AscendingFacts
  <1> DEFINE N == Len(where)
  <1>11. N \in Nat
    BY <1>10, ListFacts
  <1>12. s = [i \in 1..N |-> s[i]] /\ \A i \in 1..N : s[i] = HashIn(X, where[i])
    BY <1>3
  <1> HIDE DEF s, N
  <1>13. IsList(s) /\ Len(s) = N
    BY <1>11, <1>12, ListBuilt
  <1>14. \A i \in 1..N : s[i] \in D
    BY <1>7, <1>10, <1>12 DEF N
  <1>15. ASSUME NEW h \in D PROVE \E i \in 1..N : s[i] = h
    <2>1. PICK i \in 1..N : where[i] = f[h]
      BY <1>8, <1>10 DEF N
    <2>2. s[i] = h
      BY <1>8, <1>12, <2>1
    <2> QED
      BY <2>2
  <1>16. ASSUME NEW i \in 1..N, NEW j \in 1..N, i # j PROVE s[i] # s[j]
    <2>1. i \in Nat /\ j \in Nat
      BY <1>11
    <2>2. i < j \/ j < i
      BY <2>1, <1>16
    <2>3. where[i] \in Nat /\ where[j] \in Nat
      BY <1>6, <1>10 DEF N
    <2>4. where[i] < where[j] \/ where[j] < where[i]
      BY <2>2, <1>10 DEF N
    <2>5. where[i] # where[j]
      BY <2>3, <2>4
    <2>6. where[i] = f[s[i]] /\ where[j] = f[s[j]]
      BY <1>7, <1>10, <1>12 DEF N
    <2> QED
      BY <2>5, <2>6
  <1>17. Lists(s, D)
    BY <1>13, <1>14, <1>15, <1>16 DEF Lists
  <1> QED
    BY <1>17 DEF s

\* The members of a forest are leaves, and those of a list of them are they.
LEMMA MembersAreLeaves == ASSUME NEW rs, IsForest(rs) PROVE Members(rs) \subseteq LeafTrees
  BY WholeLeaves DEF IsForest, Members, LeavesOf

LEMMA MembersListed ==
    ASSUME NEW D \in SUBSET LeafTrees, NEW s, Lists(s, D) PROVE Members(s) = D
  <1>1. \A i \in 1..Len(s) : s[i] \in D /\ LeafSets[s[i]] = {s[i]}
    BY LeafTreeFacts DEF Lists
  <1>2. \A h \in D : \E i \in 1..Len(s) : s[i] = h
    BY DEF Lists
  <1>3. ASSUME NEW h \in Members(s) PROVE h \in D
    <2>1. PICK i \in 1..Len(s) : h \in LeafSets[s[i]]
      BY DEF Members, LeavesOf
    <2> QED
      BY <1>1, <2>1
  <1>4. ASSUME NEW h \in D PROVE h \in Members(s)
    <2>1. PICK i \in 1..Len(s) : s[i] = h
      BY <1>2
    <2>2. h \in LeafSets[s[i]]
      BY <1>1, <2>1
    <2> QED
      BY <2>2 DEF Members, LeavesOf
  <1> QED
    BY <1>3, <1>4

-----------------------------------------------------------------------------
(***************************************************************************)
(* What the hashing loop is given with a proof that the forest makes.      *)
(***************************************************************************)
IsNodesAt(nodes, T, X) ==
    /\ IsList(nodes)
    /\ \A i \in 1..Len(nodes) : nodes[i].pos \in T /\ InMap(X, nodes[i])
    /\ \A p \in T : HasAt(nodes, p)
    /\ \A i, j \in 1..Len(nodes) : i # j => nodes[i].pos # nodes[j].pos

LEMMA ZippedNodes ==
    ASSUME NEW X, NEW T, NEW positions, Lists(positions, T), NEW hashes, IsList(hashes),
           Len(hashes) = Len(positions),
           \A i \in 1..Len(positions) : <<positions[i], hashes[i].old>> \in X
    PROVE  IsNodesAt(Zip2(positions, hashes), T, X)
  <1> DEFINE z == Zip2(positions, hashes)
             m == Min({Len(positions), Len(hashes)})
             N == Len(positions)
  <1>1. IsList(positions) /\ N \in Nat
    BY ListFacts DEF Lists
  <1>2. IsList(z) /\ Len(z) = N
    BY <1>1, ZipFacts
  <1>3. z = [i \in 1..m |-> [pos |-> positions[i], hash |-> hashes[i]]]
    BY DEF Zip2
  <1> HIDE DEF m
  <1>4. z = [i \in 1..m |-> z[i]] /\ \A i \in 1..m : z[i] = [pos |-> positions[i], hash |-> hashes[i]]
    BY <1>3
  <1>5. DOMAIN z = 1..m /\ DOMAIN z = 1..N
    <2>1. DOMAIN z = 1..m
      BY <1>3
    <2> HIDE DEF z
    <2> QED
      BY <2>1, <1>2, ListFacts
  <1> HIDE DEF z, N
  <1>6. \A i \in 1..N : z[i].pos = positions[i] /\ z[i].hash = hashes[i]
    <2> SUFFICES ASSUME NEW i \in 1..N PROVE z[i].pos = positions[i] /\ z[i].hash = hashes[i]
      OBVIOUS
    <2>1. z[i] = [pos |-> positions[i], hash |-> hashes[i]]
      BY <1>4, <1>5
    <2> QED
      BY ONLY <2>1
  <1> USE DEF N
  <1>7. \A i \in 1..N : positions[i] \in T
    BY DEF Lists
  <1>8. \A i \in 1..N : z[i].pos \in T /\ InMap(X, z[i])
    BY <1>6, <1>7 DEF InMap
  <1>9. \A p \in T : HasAt(z, p)
    <2>1. \A p \in T : \E i \in 1..N : positions[i] = p
      BY DEF Lists
    <2> QED
      BY <1>2, <1>6, <2>1 DEF HasAt
  <1>10. \A i, j \in 1..N : i # j => z[i].pos # z[j].pos
    BY <1>6 DEF Lists
  <1>11. IsNodesAt(z, T, X)
    BY <1>2, <1>8, <1>9, <1>10 DEF IsNodesAt
  <1> QED
    BY <1>11 DEF z

LEMMA JoinedNodes ==
    ASSUME NEW X, NEW T, NEW a, IsNodesAt(a, T, X), NEW N, NEW b, IsNodesAt(b, N, X), T \cap N = {}
    PROVE  IsNodesAt(a \o b, T \cup N, X)
  <1> DEFINE s == a \o b
             A == Len(a)
             B == Len(b)
  <1>1. IsList(a) /\ IsList(b) /\ A \in Nat /\ B \in Nat
    BY ListFacts DEF IsNodesAt
  <1>2. /\ IsList(s) /\ Len(s) = A + B
        /\ \A i \in 1..(A + B) : s[i] = IF i <= A THEN a[i] ELSE b[i - A]
    BY <1>1, ListConcat
  <1> HIDE DEF s
  <1>3. \A i \in 1..A : i \in 1..(A + B) /\ i <= A
    BY <1>1
  <1>4. \A i \in 1..B : A + i \in 1..(A + B) /\ ~ (A + i <= A) /\ (A + i) - A = i
    BY <1>1
  <1>5. \A i \in 1..A : s[i] = a[i]
    BY <1>2, <1>3
  <1>6. \A i \in 1..B : s[A + i] = b[i]
    BY <1>2, <1>4
  <1>7. \A i \in 1..(A + B) : i \in 1..A \/ \E j \in 1..B : i = A + j
    <2> SUFFICES ASSUME NEW i \in 1..(A + B), ~ (i \in 1..A) PROVE \E j \in 1..B : i = A + j
      OBVIOUS
    <2>1. i - A \in 1..B /\ i = A + (i - A)
      BY <1>1
    <2> QED
      BY <2>1
  <1>8. \A i \in 1..A : a[i].pos \in T /\ InMap(X, a[i])
    BY DEF IsNodesAt
  <1>9. \A i \in 1..B : b[i].pos \in N /\ InMap(X, b[i])
    BY DEF IsNodesAt
  <1>10. \A i \in 1..(A + B) : s[i].pos \in T \cup N /\ InMap(X, s[i])
    BY <1>5, <1>6, <1>7, <1>8, <1>9
  <1>11. ASSUME NEW p \in T \cup N PROVE HasAt(s, p)
    <2>1. CASE p \in T
      <3>1. PICK i \in 1..A : a[i].pos = p
        BY <2>1 DEF IsNodesAt, HasAt
      <3> QED
        BY <3>1, <1>2, <1>3, <1>5 DEF HasAt
    <2>2. CASE p \in N
      <3>1. PICK i \in 1..B : b[i].pos = p
        BY <2>2 DEF IsNodesAt, HasAt
      <3> DEFINE k == A + i
      <3>2. k \in 1..(A + B) /\ s[k].pos = p
        BY <3>1, <1>4, <1>6
      <3> HIDE DEF k
      <3> QED
        BY <3>2, <1>2 DEF HasAt
    <2> QED
      BY <2>1, <2>2
  <1>12. ASSUME NEW i \in 1..(A + B), NEW j \in 1..(A + B), i # j PROVE s[i].pos # s[j].pos
    <2>1. CASE i \in 1..A /\ j \in 1..A
      BY <2>1, <1>5, <1>12 DEF IsNodesAt
    <2>2. CASE i \in 1..A /\ ~ (j \in 1..A)
      BY <2>2, <1>5, <1>6, <1>7, <1>8, <1>9
    <2>3. CASE ~ (i \in 1..A) /\ j \in 1..A
      BY <2>3, <1>5, <1>6, <1>7, <1>8, <1>9
    <2>4. CASE ~ (i \in 1..A) /\ ~ (j \in 1..A)
      <3>1. PICK k \in 1..B : i = A + k
        BY <2>4, <1>7
      <3>2. PICK l \in 1..B : j = A + l
        BY <2>4, <1>7
      <3>3. k # l
        BY <3>1, <3>2, <1>12
      <3>4. b[k].pos # b[l].pos
        BY <3>3 DEF IsNodesAt
      <3> QED
        BY <3>1, <3>2, <3>4, <1>6
    <2> QED
      BY <2>1, <2>2, <2>3, <2>4
  <1>13. IsNodesAt(s, T \cup N, X)
    BY <1>2, <1>10, <1>11, <1>12 DEF IsNodesAt
  <1> QED
    BY <1>13 DEF s

LEMMA NodesInOrder ==
    ASSUME NEW X, NEW T \in SUBSET Nat, NEW a, IsNodesAt(a, T, X), NEW s, s = SortNodes(a)
    PROVE  /\ AreStrictlyRising(s)
           /\ \A k \in 1..Len(s) : s[k].pos \in T /\ InMap(X, s[k])
           /\ \A p \in T : HasAt(s, p)
  <1>1. /\ IsList(a) /\ \A i \in 1..Len(a) : a[i].pos \in Nat
    BY DEF IsNodesAt
  <1>6. \A i, j \in 1..Len(a) : i # j => a[i].pos # a[j].pos
    BY DEF IsNodesAt
  <1>2. AreStrictlyRising(s) /\ AreAmong(a, s) /\ AreAmong(s, a)
    BY <1>1, <1>6, SortedNodes
  <1>3. ASSUME NEW k \in 1..Len(s) PROVE s[k].pos \in T /\ InMap(X, s[k])
    <2>1. PICK i \in 1..Len(a) : s[k] = a[i]
      BY <1>2 DEF AreAmong
    <2> QED
      BY <2>1 DEF IsNodesAt
  <1>4. ASSUME NEW p \in T PROVE HasAt(s, p)
    <2>1. PICK i \in 1..Len(a) : a[i].pos = p
      BY DEF IsNodesAt, HasAt
    <2>2. PICK j \in 1..Len(s) : a[i] = s[j]
      BY <1>2 DEF AreAmong
    <2> QED
      BY <2>1, <2>2 DEF HasAt
  <1> QED
    BY <1>2, <1>3, <1>4

\* A proof for the members D of a forest whose nodes are X, which are listed
\* in `hashes`; T are their positions.
IsProofOf(proof, hashes, T, X, n) ==
    /\ Lists(TranslatedTargets(proof, n), T)
    /\ IsList(proof.targets)
    /\ Len(proof.targets) = Len(hashes) /\ Len(TranslatedTargets(proof, n)) = Len(hashes)
    /\ \A i \in 1..Len(hashes) :
           /\ <<TranslatedTargets(proof, n)[i], hashes[i]>> \in X
           /\ proof.targets[i] = Translate(TranslatedTargets(proof, n)[i], TreeRows(n), MaxForestRows)
    /\ Lists(ProofPositionsOf(proof, n), ProofPositionSet(T, n, TreeRows(n)))
    /\ IsList(proof.hashes) /\ Len(proof.hashes) = Len(ProofPositionsOf(proof, n))
    /\ \A i \in 1..Len(proof.hashes) : <<ProofPositionsOf(proof, n)[i], proof.hashes[i]>> \in X

\* A position that was written for others is read back.
LEMMA TranslatedBack ==
    ASSUME NEW n \in Nat, n <= 2^MaxForestRows, NEW p, IsPlace(p, n)
    PROVE  Translate(Translate(p, TreeRows(n), MaxForestRows), MaxForestRows, TreeRows(n)) = p
  <1> DEFINE rows == TreeRows(n)
             M == MaxForestRows
  <1>1. PICK row, off : IsSpot(p, row, off, n)
    BY DEF IsPlace
  <1>2. /\ row \in Nat /\ off \in Nat /\ Covers(row, off, n) /\ p = First(row, rows) + off
    BY <1>1 DEF IsSpot
  <1>3. row \in 0..rows /\ off \in Offsets(row, rows)
    BY <1>1, SpotPlace
  <1>4. rows \in 0..M /\ rows \in Nat
    BY TreeRowsFacts
  <1> HIDE DEF rows
  <1>5. M \in Nat /\ M \in 0..M
    BY MaxForestRowsAssumption
  <1>6. row \in 0..M /\ off \in Offsets(row, M)
    BY <1>2, <1>5, CoveredIsPlaced
  <1>7. row <= rows /\ row <= M
    BY <1>3, <1>6
  <1> HIDE DEF M
  <1>8. Translate(p, rows, M) = First(row, M) + off
    BY <1>2, <1>3, <1>4, <1>5, <1>7, TranslateOf DEF M
  <1>9. Translate(First(row, M) + off, M, rows) = First(row, rows) + off
    BY <1>4, <1>5, <1>6, <1>7, TranslateOf DEF M
  <1> QED
    BY <1>2, <1>8, <1>9 DEF rows, M

LEMMA AscendingLists ==
    ASSUME NEW S \in SUBSET Nat, IsFiniteSet(S) PROVE Lists(Ascending(S), S)
  <1> DEFINE s == Ascending(S)
  <1>1. s = Ascending(S)
    OBVIOUS
  <1> HIDE DEF s
  <1>2. /\ IsList(s) /\ \A i \in 1..Len(s) : s[i] \in S
        /\ \A x \in S : \E i \in 1..Len(s) : s[i] = x
        /\ \A i, j \in 1..Len(s) : i < j => s[i] < s[j]
    BY <1>1, AscendingFacts
  <1>3. Len(s) \in Nat
    BY <1>2, ListFacts
  <1>4. ASSUME NEW i \in 1..Len(s), NEW j \in 1..Len(s), i # j PROVE s[i] # s[j]
    <2>1. i < j \/ j < i
      BY <1>3, <1>4
    <2>2. s[i] \in Nat /\ s[j] \in Nat /\ (s[i] < s[j] \/ s[j] < s[i])
      BY <1>2, <2>1
    <2> QED
      BY <2>2
  <1> QED
    BY <1>1, <1>2, <1>4 DEF Lists

\* The positions of members are places of leaves that are there.
LEMMA PositionsOfLeaves ==
    ASSUME NEW n \in Nat, n <= 2^MaxForestRows, NEW rs, IsForest(rs), NEW X, IsIndex(X, rs, n),
           NEW D \in SUBSET Members(rs), NEW T, T = {PositionIn(X, h) : h \in D}
    PROVE  AreLeafPlaces(T, X)
  <1> SUFFICES ASSUME NEW h \in D PROVE \E t : <<PositionIn(X, h), t>> \in X /\ t # Empty /\ ~ IsBranchHash(t)
    BY DEF AreLeafPlaces
  <1>1. <<PositionIn(X, h), h>> \in X
    BY DEF IsIndex
  <1>2. h \in LeafTrees
    BY MembersAreLeaves
  <1>3. h \in TreesUpTo[0]
    BY <1>2, TreesUpToEquation
  <1>4. h # Empty /\ ~ IsBranchHash(h)
    BY <1>2, <1>3, TreeKinds, EmptyIsNoLeaf
  <1> QED
    BY <1>1, <1>4

\* Where the hashing goes: places of the forest, finitely many.
LEMMA NeededPlaces ==
    ASSUME NEW n \in Nat, n <= 2^MaxForestRows, NEW rs, NEW X, IsMap(X, rs, n),
           NEW T, AreLeafPlaces(T, X), IsFiniteSet(T),
           NEW N, N = ProofPositionSet(T, n, TreeRows(n))
    PROVE  /\ T \in SUBSET Nat /\ N \in SUBSET Nat /\ IsFiniteSet(N)
           /\ ArePlaces(N, X)
  <1> DEFINE C == ComputedPositions(T, n, TreeRows(n))
  <1>1. C = ComputedPositions(T, n, TreeRows(n))
    OBVIOUS
  <1> HIDE DEF C
  <1>2. \A p \in T : \E t : <<p, t>> \in X
    BY DEF AreLeafPlaces
  <1>3. ArePlaces(C \cup N, X)
    BY <1>1, ClimbIsPlan
  <1>4. ASSUME NEW a, NEW t, <<a, t>> \in X PROVE a \in Nat
    <2>1. PICK row, off : IsSpot(a, row, off, n)
      BY <1>4 DEF IsMap, IsNode
    <2> QED
      BY <2>1, SpotPlace
  <1>5. TreeRows(n) \in Nat
    BY TreeRowsFacts
  <1>6. IsFiniteSet(N)
    BY <1>5, NeededAreFinite
  <1>7. ArePlaces(N, X)
    BY <1>3 DEF ArePlaces
  <1>8. T \in SUBSET Nat /\ N \in SUBSET Nat
    BY <1>2, <1>4, <1>7 DEF ArePlaces
  <1> QED
    BY <1>6, <1>7, <1>8

\* The forest's proof of its members is one.
LEMMA MadeProof ==
    ASSUME NEW n \in Nat, n <= 2^MaxForestRows, NEW rs, IsGrown(rs, n), NEW X, X = NodesOf(rs, n),
           NEW D \in SUBSET Members(rs), NEW targets, Lists(targets, D),
           NEW T, T = {PositionIn(X, h) : h \in D},
           NEW proof, proof = ProofOf(rs, n, targets)
    PROVE  IsProofOf(proof, targets, T, X, n) /\ AreLeafPlaces(T, X) /\ IsFiniteSet(T)
  <1> DEFINE rows   == TreeRows(n)
             N      == Len(targets)
             where  == [i \in 1..N |-> PositionIn(X, targets[i])]
             needed == GetProofPositions({where[i] : i \in 1..N}, n, rows)
             hashes == [i \in 1..Len(needed) |-> HashIn(X, needed[i])]
             there  == [i \in 1..N |-> Translate(where[i], rows, MaxForestRows)]
             back   == [i \in 1..N |-> Translate(there[i], MaxForestRows, rows)]
             P      == ProofPositionSet(T, n, rows)
  <1>1. IsList(targets) /\ N \in Nat /\ rows \in Nat
    BY ListFacts, TreeRowsFacts DEF Lists
  <1>2. /\ \A i \in 1..N : targets[i] \in D
        /\ \A h \in D : \E i \in 1..N : targets[i] = h
        /\ \A i, j \in 1..N : i # j => targets[i] # targets[j]
    BY DEF Lists
  <1>3. proof = [targets |-> there, hashes |-> hashes]
    <2>1. ProofInPlace(rs, n, targets) = [targets |-> where, hashes |-> hashes]
      BY DEF ProofInPlace
    <2> HIDE DEF hashes, rows
    <2>2. proof = [ProofInPlace(rs, n, targets) EXCEPT
                      !.targets = [i \in 1..N |-> Translate(@[i], rows, MaxForestRows)]]
      BY DEF ProofOf, rows
    <2>3. ProofInPlace(rs, n, targets).targets = where
      BY <2>1
    <2> HIDE DEF where
    <2>4. proof = [[targets |-> where, hashes |-> hashes] EXCEPT !.targets = there]
      BY <2>1, <2>2, <2>3
    <2> HIDE DEF there
    <2> QED
      BY <2>4
  <1>4. IsIndex(X, rs, n)
    BY NodesIndexed
  <1>5. \A h \in D : /\ PositionIn(X, h) \in Nat /\ IsPlace(PositionIn(X, h), n)
                     /\ HashIn(X, PositionIn(X, h)) = h /\ <<PositionIn(X, h), h>> \in X
    <2>1. \A h \in Members(rs) : /\ PositionIn(X, h) \in Nat /\ IsPlace(PositionIn(X, h), n)
                                 /\ HashIn(X, PositionIn(X, h)) = h
      BY <1>4, IndexedPositions
    <2> QED
      BY <1>4, <2>1 DEF IsIndex
  <1>6. \A i \in 1..N : where[i] = PositionIn(X, targets[i])
    OBVIOUS
  <1>7. where = [i \in 1..N |-> where[i]]
    OBVIOUS
  <1> HIDE DEF where
  <1>8. {where[i] : i \in 1..N} = T
    <2>1. ASSUME NEW i \in 1..N PROVE where[i] \in T
      BY <1>2, <1>6
    <2>2. ASSUME NEW x \in T PROVE \E i \in 1..N : where[i] = x
      <3>1. PICK h \in D : x = PositionIn(X, h)
        OBVIOUS
      <3>2. PICK i \in 1..N : targets[i] = h
        BY <1>2
      <3> QED
        BY <3>1, <3>2, <1>6
    <2> QED
      BY <2>1, <2>2
  <1>9. IsFiniteSet(T)
    <2>1. 1 \in Int /\ N \in Int
      BY <1>1
    <2> HIDE DEF N
    <2>2. IsFiniteSet(1..N)
      BY <2>1, FS_Interval
    <2> DEFINE S == 1..N
    <2>3. where = [i \in S |-> where[i]] /\ IsFiniteSet(S)
      BY <1>7, <2>2
    <2>4. {where[i] : i \in S} = T
      BY <1>8
    <2> HIDE DEF S
    <2>5. IsFiniteSet({where[i] : i \in S})
      BY <2>3, ImageIsFinite
    <2> QED
      BY <2>4, <2>5
  <1>10. Lists(where, T)
    <2>1. IsList(where) /\ Len(where) = N
      BY <1>1, <1>7, ListBuilt
    <2>2. \A i \in 1..N : where[i] \in T
      BY <1>8
    <2>3. \A x \in T : \E i \in 1..N : where[i] = x
      BY <1>8
    <2>4. ASSUME NEW i \in 1..N, NEW j \in 1..N, i # j PROVE where[i] # where[j]
      <3>1. targets[i] \in D /\ targets[j] \in D /\ targets[i] # targets[j]
        BY <1>2, <2>4
      <3>2. HashIn(X, where[i]) = targets[i] /\ HashIn(X, where[j]) = targets[j]
        BY <1>5, <1>6, <3>1
      <3> QED
        BY <3>1, <3>2
    <2> QED
      BY <2>1, <2>2, <2>3, <2>4 DEF Lists
  <1>11. AreLeafPlaces(T, X)
    <2>1. IsForest(rs)
      BY DEF IsGrown
    <2> QED
      BY <1>4, <2>1, PositionsOfLeaves
  <1>12. /\ P \in SUBSET Nat /\ IsFiniteSet(P)
         /\ ArePlaces(P, X)
    <2>1. IsMap(X, rs, n)
      BY <1>4 DEF IsIndex
    <2>2. P = ProofPositionSet(T, n, TreeRows(n))
      OBVIOUS
    <2> HIDE DEF P
    <2> QED
      BY <1>9, <1>11, <2>1, <2>2, NeededPlaces
  <1>13. needed = Ascending(P)
    BY <1>8 DEF GetProofPositions
  <1>14. Lists(needed, P)
    <2> HIDE DEF needed, P
    <2> QED
      BY <1>12, <1>13, AscendingLists
  <1>15. back = where
    <2>1. ASSUME NEW i \in 1..N PROVE Translate(there[i], MaxForestRows, rows) = where[i]
      <3>1. IsPlace(where[i], n)
        BY <1>2, <1>5, <1>6
      <3>2. there[i] = Translate(where[i], rows, MaxForestRows)
        OBVIOUS
      <3> HIDE DEF there
      <3> QED
        BY <3>1, <3>2, TranslatedBack
    <2> HIDE DEF there
    <2>2. back = [i \in 1..N |-> where[i]]
      BY <2>1
    <2> QED
      BY <1>7, <2>2
  <1>16. there = [i \in 1..N |-> there[i]]
    OBVIOUS
  <1>17. \A i \in 1..N : /\ back[i] = Translate(there[i], MaxForestRows, rows)
                         /\ there[i] = Translate(where[i], rows, MaxForestRows)
    OBVIOUS
  <1>18. hashes = [i \in 1..Len(needed) |-> hashes[i]]
         /\ \A i \in 1..Len(needed) : hashes[i] = HashIn(X, needed[i])
    OBVIOUS
  <1> HIDE DEF there, hashes, needed, P, rows, N
  <1>19. IsList(there) /\ Len(there) = N
    BY <1>1, <1>16, ListBuilt
  <1>20. proof.targets = there /\ proof.hashes = hashes
    BY <1>3
  <1>21. TranslatedTargets(proof, n) = where
    <2>1. TranslatedTargets(proof, n) = back
      BY <1>19, <1>20 DEF TranslatedTargets, rows, back
    <2> QED
      BY <1>15, <2>1
  <1>22. ProofPositionsOf(proof, n) = needed
    <2>1. {Translate(there[i], MaxForestRows, rows) : i \in 1..N} = T
      BY <1>8, <1>15, <1>17
    <2>2. ProofPositionsOf(proof, n) = GetProofPositions(T, n, rows)
      BY <1>19, <1>20, <2>1 DEF ProofPositionsOf, rows
    <2> QED
      BY <1>13, <2>2 DEF GetProofPositions, P
  <1>23. Len(needed) \in Nat /\ \A i \in 1..Len(needed) : needed[i] \in P
    BY <1>14, ListFacts DEF Lists
  <1>24. IsList(hashes) /\ Len(hashes) = Len(needed)
    BY <1>18, <1>23, ListBuilt
  <1>25. \A i \in 1..Len(needed) : <<needed[i], hashes[i]>> \in X
    <2> SUFFICES ASSUME NEW i \in 1..Len(needed) PROVE <<needed[i], hashes[i]>> \in X
      OBVIOUS
    <2>1. PICK t : <<needed[i], t>> \in X
      BY <1>12, <1>23 DEF ArePlaces
    <2>2. HashIn(X, needed[i]) = t
      BY <1>4, <2>1 DEF IsIndex
    <2> QED
      BY <1>18, <2>1, <2>2
  <1>26. \A i \in 1..N : <<where[i], targets[i]>> \in X
    BY <1>2, <1>5, <1>6
  <1>27. Len(where) = N
    BY <1>1, <1>7, ListBuilt
  <1>28. IsProofOf(proof, targets, T, X, n)
    BY <1>10, <1>14, <1>17, <1>19, <1>20, <1>21, <1>22, <1>24, <1>25, <1>26, <1>27 DEF IsProofOf, N, P, rows
  <1> QED
    BY <1>9, <1>11, <1>28

\* With such a proof the loop is given the nodes it needs, and no others.
LEMMA ProofGives ==
    ASSUME NEW n \in Nat, n <= 2^MaxForestRows, NEW rs, NEW X, IsMap(X, rs, n),
           NEW T, AreLeafPlaces(T, X), IsFiniteSet(T),
           NEW targets, IsList(targets), NEW proof, IsProofOf(proof, targets, T, X, n),
           NEW pairs, IsList(pairs), Len(pairs) = Len(targets),
           \A i \in 1..Len(targets) : pairs[i].old = targets[i],
           NEW nodes, nodes = NodesToDelete(proof, pairs, n),
           NEW C, C = ComputedPositions(T, n, TreeRows(n)),
           NEW N, N = ProofPositionSet(T, n, TreeRows(n))
    PROVE  IsGiven(nodes, C \cup N, T \cup N, X, rs, n) /\ FindNoEmpty(C \cup N, X, n)
  <1> DEFINE where  == TranslatedTargets(proof, n)
             needed == ProofPositionsOf(proof, n)
             kept   == KeptHashes(proof)
             a      == Zip2(where, pairs)
             b      == Zip2(needed, kept)
  <1>1. /\ IsPlan(C \cup N, T \cup N, n) /\ T \cap N = {}
        /\ FindNoEmpty(C \cup N, X, n)
    BY ClimbIsPlan
  <1>2. T \in SUBSET Nat /\ N \in SUBSET Nat
    BY NeededPlaces
  <1>3. /\ Lists(where, T) /\ Len(where) = Len(targets)
        /\ \A i \in 1..Len(targets) : <<where[i], targets[i]>> \in X
        /\ Lists(needed, N)
        /\ IsList(proof.hashes) /\ Len(proof.hashes) = Len(needed)
        /\ \A i \in 1..Len(proof.hashes) : <<needed[i], proof.hashes[i]>> \in X
    BY DEF IsProofOf
  <1>4. nodes = SortNodes(a \o b)
    BY DEF NodesToDelete
  <1>5. kept = [i \in 1..Len(proof.hashes) |-> kept[i]]
        /\ \A i \in 1..Len(proof.hashes) : kept[i].old = proof.hashes[i]
    BY DEF KeptHashes
  <1> HIDE DEF where, needed, kept
  <1>6. IsList(kept) /\ Len(kept) = Len(needed)
    <2>1. Len(proof.hashes) \in Nat
      BY <1>3, ListFacts
    <2> QED
      BY <1>3, <1>5, <2>1, ListBuilt
  <1>7. IsNodesAt(a, T, X)
    <2>1. \A i \in 1..Len(where) : <<where[i], pairs[i].old>> \in X
      BY <1>3
    <2> QED
      BY <1>3, <2>1, ZippedNodes
  <1>8. IsNodesAt(b, N, X)
    <2>1. \A i \in 1..Len(needed) : <<needed[i], kept[i].old>> \in X
      BY <1>3, <1>5
    <2> QED
      BY <1>3, <1>6, <2>1, ZippedNodes
  <1> HIDE DEF a, b
  <1> DEFINE B == T \cup N
             raw == a \o b
  <1>9. IsNodesAt(raw, B, X)
    BY <1>1, <1>7, <1>8, JoinedNodes
  <1>10. B \in SUBSET Nat
    BY <1>2
  <1>11. nodes = SortNodes(raw)
    BY <1>4
  <1> HIDE DEF raw, B
  <1>12. /\ AreStrictlyRising(nodes)
         /\ \A k \in 1..Len(nodes) : nodes[k].pos \in B /\ InMap(X, nodes[k])
         /\ \A p \in B : HasAt(nodes, p)
    BY <1>9, <1>10, <1>11, NodesInOrder
  <1>13. IsGiven(nodes, C \cup N, B, X, rs, n)
    BY <1>1, <1>12 DEF IsGiven, B
  <1> QED
    BY <1>1, <1>13 DEF B

\* remove computes the forest's own roots, each once.
LEMMA RemoveFinds ==
    ASSUME NEW n \in Nat, n <= 2^MaxForestRows, NEW rs, IsGrown(rs, n),
           NEW D \in SUBSET Members(rs), NEW targets, Lists(targets, D), targets # <<>>,
           NEW proof, proof = ProofOf(rs, n, targets),
           NEW s, s = [leaves |-> n, roots |-> rs],
           NEW removed, removed = StumpRemove(s, targets, proof)
    PROVE  ~ removed.error /\ AreRootsOf(removed.roots, rs)
  <1> DEFINE X     == NodesOf(rs, n)
             T     == {PositionIn(X, h) : h \in D}
             pairs == [i \in 1..Len(targets) |-> [old |-> targets[i], new |-> Empty]]
             nodes == NodesToDelete(proof, pairs, n)
             done  == HashUp(nodes, n, JoinDelete)
             C     == ComputedPositions(T, n, TreeRows(n))
             N     == ProofPositionSet(T, n, TreeRows(n))
  <1>1. s.leaves = n
    OBVIOUS
  <1>2. removed = CalculateHashesDelete(proof, pairs, n)
    BY <1>1 DEF StumpRemove
  <1>3. IsProofOf(proof, targets, T, X, n) /\ AreLeafPlaces(T, X) /\ IsFiniteSet(T)
    <2>1. X = NodesOf(rs, n) /\ T = {PositionIn(X, h) : h \in D}
      OBVIOUS
    <2> HIDE DEF X, T
    <2> QED
      BY <2>1, MadeProof
  <1>4. IsMap(X, rs, n)
    BY NodesMapped
  <1>5. IsList(targets) /\ Len(targets) \in Nat
    BY ListFacts DEF Lists
  <1>6. IsList(pairs) /\ Len(pairs) = Len(targets)
    <2>1. pairs = [i \in 1..Len(targets) |-> pairs[i]]
      OBVIOUS
    <2> HIDE DEF pairs
    <2> QED
      BY <1>5, <2>1, ListBuilt
  <1>7. \A i \in 1..Len(targets) : pairs[i].old = targets[i]
    OBVIOUS
  <1> HIDE DEF X, T, pairs
  <1>8. nodes = NodesToDelete(proof, pairs, n) /\ C = ComputedPositions(T, n, TreeRows(n))
        /\ N = ProofPositionSet(T, n, TreeRows(n)) /\ done = HashUp(nodes, n, JoinDelete)
    OBVIOUS
  <1> HIDE DEF nodes, C, N, done
  <1>9. IsGiven(nodes, C \cup N, T \cup N, X, rs, n) /\ FindNoEmpty(C \cup N, X, n)
    BY <1>3, <1>4, <1>5, <1>6, <1>7, <1>8, ProofGives
  <1>10. ~ done.error /\ AreRootsOf(done.roots, rs)
    BY <1>8, <1>9, RootsAreFound
  <1>11. Len(proof.targets) = Len(pairs)
    BY <1>3, <1>6 DEF IsProofOf
  <1>12. removed.error = FALSE /\ removed.roots = done.roots
    BY <1>2, <1>8, <1>10, <1>11 DEF CalculateHashesDelete
  <1> QED
    BY <1>10, <1>12

\* The stump accepts a block with the proof that the forest makes for it.
LEMMA ModifyAccepts ==
    ASSUME NEW n \in Nat, n <= 2^MaxForestRows, NEW rs, IsGrown(rs, n),
           NEW D \in SUBSET Members(rs), NEW targets, Lists(targets, D),
           NEW proof, proof = ProofOf(rs, n, targets),
           NEW s, s = [leaves |-> n, roots |-> rs], NEW utxos
    PROVE  StumpModify(s, utxos, targets, proof).ok
  <1> DEFINE removed == StumpRemove(s, targets, proof)
             left    == ReplaceRoots(rs, removed.roots).left
  <1>1. IsList(rs) /\ s.roots = rs
    BY DEF IsGrown, IsForest
  <1>2. ~ removed.error /\ (AreRootsOf(removed.roots, rs) \/ IsRestOf(removed.roots, 0, rs))
    <2>1. CASE targets # <<>>
      <3>1. removed = StumpRemove(s, targets, proof)
        OBVIOUS
      <3> HIDE DEF removed
      <3> QED
        BY <2>1, <3>1, RemoveFinds
    <2>2. CASE targets = <<>>
      <3> DEFINE same == [i \in 1..Len(rs) |-> [old |-> rs[i], new |-> rs[i]]]
      <3>1. removed = [error |-> FALSE, nodes |-> <<>>, roots |-> same]
        BY <1>1, <2>2 DEF StumpRemove
      <3>2. removed.error = FALSE /\ removed.roots = same
        BY <3>1
      <3> HIDE DEF removed
      <3>3. same = [i \in 1..Len(rs) |-> same[i]] /\ \A i \in 1..Len(rs) : same[i].old = rs[i]
        OBVIOUS
      <3> HIDE DEF same
      <3>4. Len(rs) \in Nat
        BY <1>1, ListFacts
      <3>5. IsList(same) /\ Len(same) = Len(rs)
        BY <3>3, <3>4, ListBuilt
      <3>6. Len(rs) - 0 = Len(rs) /\ \A j \in 1..Len(rs) : 0 + j = j
        BY <3>4
      <3>7. \A j \in 1..Len(same) : same[j].old = rs[0 + j]
        BY <3>3, <3>5, <3>6
      <3> QED
        BY <3>2, <3>5, <3>6, <3>7 DEF IsRestOf
    <2> QED
      BY <2>1, <2>2
  <1> HIDE DEF removed
  <1>3. left = <<>>
    BY <1>1, <1>2, AllRootsMatched
  <1> USE DEF removed
  <1>4. StumpModify(s, utxos, targets, proof) =
            IF removed.error THEN [ok |-> FALSE]
            ELSE IF left # <<>> THEN [ok |-> FALSE]
            ELSE [ok        |-> TRUE,
                  stump     |-> [leaves |-> s.leaves + Len(utxos),
                                 roots |-> StumpAdd(ReplaceRoots(rs, removed.roots).roots, utxos, s.leaves).roots],
                  newAdd    |-> StumpAdd(ReplaceRoots(rs, removed.roots).roots, utxos, s.leaves).updated,
                  prevLeaves |-> s.leaves,
                  toDestroy |-> StumpAdd(ReplaceRoots(rs, removed.roots).roots, utxos, s.leaves).destroyed,
                  newDel    |-> removed.nodes]
    BY <1>1 DEF StumpModify
  <1> HIDE DEF removed, left
  <1> QED
    BY <1>2, <1>3, <1>4

-----------------------------------------------------------------------------
(***************************************************************************)
(* The stump follows the forest.                                           *)
(***************************************************************************)
Agreed(old) == old.stump = [leaves |-> old.leaves, roots |-> old.roots]

AreLeaves(hashes) == \A i \in 1..Len(hashes) : hashes[i] \in LeafTrees

\* The forest and the stump agree, before the last block as well, and the
\* held proof is for leaves.
FollowInv ==
    /\ NodeInv
    /\ StumpFollowsForest
    /\ \A old \in previous : Agreed(old)
    /\ AreLeaves(held.hashes)

LEMMA KeptTogether ==
    ASSUME StumpFollowsForest, previous' = {ForestNow}
    PROVE  \A old \in previous' : Agreed(old)
  <1>1. ForestNow.roots = roots /\ ForestNow.leaves = leaves /\ ForestNow.stump = stump
    BY DEF ForestNow
  <1>2. Agreed(ForestNow)
    BY <1>1 DEF StumpFollowsForest, Agreed
  <1> QED
    BY <1>2

\* A stump that accepts a block of the next leaves has the roots that the
\* accumulator promises.
LEMMA AcceptedFollows ==
    ASSUME NEW n, NEW rs, IsForestOf(rs, n), NEW k \in Nat, n + k <= MaxLeaves,
           NEW hashes, IsList(hashes),
           NEW proof, IsList(proof.targets), IsList(proof.hashes),
           NEW s, s = [leaves |-> n, roots |-> rs], NEW u, u = NewLeaves(n, k),
           NEW m, m = StumpModify(s, u, hashes, proof), m.ok
    PROVE  m.stump = [leaves |-> n + k, roots |-> Addition(Deletion(rs, Members(hashes)), n, k)]
  <1>1. n \in Nat /\ IsGrown(rs, n) /\ AreNamed(rs, n)
    BY DEF IsForestOf
  <1>2. s.leaves = n /\ s.roots = rs
    OBVIOUS
  <1>3. IsList(u) /\ Len(u) = k /\ \A i \in 1..k : u[i] = LeafHash(n + i)
    BY <1>1, NewLeavesFacts
  <1>4. AreNewLeaves(u, s.roots)
    BY <1>1, <1>2, NewLeavesAreNew
  <1>5. HaveRoom(s.leaves + Len(u))
    <2>1. n + k \in Nat
      BY <1>1
    <2> QED
      BY <1>2, <1>3, <2>1, BoundsGiveRoom
  <1>6. IsModified(m.stump, s, hashes, u)
    <2>1. s.leaves \in Nat /\ IsGrown(s.roots, s.leaves)
      BY <1>1, <1>2
    <2> QED
      BY <2>1, <1>4, <1>5, ModifyIsSound
  <1> DEFINE t == m.stump
             kept == Deletion(s.roots, Members(hashes))
  <1>7. /\ t = [leaves |-> s.leaves + Len(u), roots |-> t.roots]
        /\ (\A i \in 1..Len(u) : u[i] = LeafHash(s.leaves + i)) =>
               t.roots = Addition(kept, s.leaves, Len(u))
    BY <1>6 DEF IsModified
  <1> HIDE DEF t
  <1>8. t.roots = Addition(kept, n, k)
    BY <1>2, <1>3, <1>7
  <1>9. t = [leaves |-> n + k, roots |-> t.roots]
    BY <1>2, <1>3, <1>7
  <1> QED
    BY <1>2, <1>8, <1>9 DEF t

\* The forest lists the members it is asked about, and they are leaves.
LEMMA InOrderIsOfLeaves ==
    ASSUME NEW n, NEW rs, IsForestOf(rs, n), NEW D \in SUBSET Members(rs),
           NEW hashes, hashes = InOrder(rs, n, D)
    PROVE  /\ n \in Nat /\ n <= 2^MaxForestRows /\ IsGrown(rs, n)
           /\ Lists(hashes, D) /\ AreLeaves(hashes) /\ Members(hashes) = D
  <1>1. n \in Nat /\ n <= MaxLeaves /\ IsGrown(rs, n) /\ AreNamed(rs, n)
    BY DEF IsForestOf
  <1>2. n <= 2^MaxForestRows
    BY <1>1, BoundsGiveRoom
  <1>3. IsFiniteSet(D)
    BY <1>1, NamedIsFinite
  <1>4. Lists(hashes, D)
    BY <1>1, <1>2, <1>3, InOrderLists
  <1>5. D \in SUBSET LeafTrees
    BY <1>1, MembersAreLeaves DEF IsGrown
  <1>6. AreLeaves(hashes)
    BY <1>4, <1>5 DEF Lists, AreLeaves
  <1>7. Members(hashes) = D
    BY <1>4, <1>5, MembersListed
  <1> QED
    BY <1>1, <1>2, <1>4, <1>6, <1>7

LEMMA InitFollows == Init => FollowInv
  <1> SUFFICES ASSUME Init PROVE FollowInv
    OBVIOUS
  <1>1. NodeInv
    BY InitNodeInv
  <1>2. roots = <<>> /\ leaves = 0 /\ stump = [leaves |-> 0, roots |-> <<>>]
        /\ previous = {} /\ held = [hashes |-> <<>>, proof |-> [targets |-> <<>>, hashes |-> <<>>]]
    BY DEF Init, AccInit, NewStump, NoneHeld, NoProof
  <1>3. StumpFollowsForest
    BY <1>2 DEF StumpFollowsForest
  <1>4. Len(held.hashes) = 0
    BY <1>2
  <1> QED
    BY <1>1, <1>2, <1>3, <1>4 DEF FollowInv, AreLeaves

\* The forest's proof of a block is accepted, and it deletes what it is for.
LEMMA BlockFollows == ASSUME FollowInv, Block PROVE FollowInv'
  <1>0. NodeInv /\ StumpFollowsForest
    BY DEF FollowInv
  <1>1. NodeInv'
    BY <1>0, BlockKeeps
  <1>2. PICK k \in AddSizes, D \in SUBSET Members(roots) :
            /\ leaves + k <= IF held = NoneHeld THEN MaxLeaves ELSE HoldUpTo
            /\ Change(D, k)
            /\ ApplyToStump(NewLeaves(leaves, k), InOrder(roots, leaves, D),
                            ProofOf(roots, leaves, InOrder(roots, leaves, D)))
            /\ previous' = {ForestNow}
            /\ UNCHANGED held
    BY DEF Block
  <1> DEFINE hashes == InOrder(roots, leaves, D)
             proof == ProofOf(roots, leaves, hashes)
             u == NewLeaves(leaves, k)
  <1>3. IsForestOf(roots, leaves) /\ leaves \in Nat
    BY <1>0 DEF NodeInv, IsForestOf
  <1>4. k \in Nat /\ leaves + k <= MaxLeaves
    <2>1. k \in Nat /\ HoldUpTo \in Nat /\ HoldUpTo <= MaxLeaves /\ MaxLeaves \in Nat
      BY BoundsAssumption
    <2> QED
      BY <1>2, <1>3, <2>1
  <1>5. leaves' = leaves + k /\ roots' = Addition(Deletion(roots, D), leaves, k)
    BY <1>2 DEF Change
  <1>6. update' = StumpModify(stump, u, hashes, proof)
        /\ stump' = IF update'.ok THEN update'.stump ELSE stump
    BY <1>2 DEF ApplyToStump
  <1>7. hashes = InOrder(roots, leaves, D) /\ u = NewLeaves(leaves, k)
        /\ proof = ProofOf(roots, leaves, hashes)
    OBVIOUS
  <1> HIDE DEF hashes, proof, u
  <1>8. /\ leaves <= 2^MaxForestRows /\ IsGrown(roots, leaves)
        /\ Lists(hashes, D) /\ Members(hashes) = D
    BY <1>3, <1>7, InOrderIsOfLeaves
  <1>9. stump = [leaves |-> leaves, roots |-> roots]
    BY <1>0 DEF StumpFollowsForest
  <1>10. update'.ok
    <2>1. StumpModify(stump, u, hashes, proof).ok
      BY <1>3, <1>7, <1>8, <1>9, ModifyAccepts
    <2> QED
      BY <1>6, <2>1
  <1>11. IsList(hashes) /\ IsList(proof.targets) /\ IsList(proof.hashes)
    <2>1. IsList(hashes)
      BY <1>8 DEF Lists
    <2> QED
      BY <1>3, <1>7, <1>8, <2>1, ProofIsListed
  <1>12. stump' = [leaves |-> leaves + k, roots |-> Addition(Deletion(roots, D), leaves, k)]
    <2> DEFINE m == update'
    <2>1. m = StumpModify(stump, u, hashes, proof) /\ m.ok /\ stump' = m.stump
      BY <1>6, <1>10
    <2> HIDE DEF m
    <2>2. m.stump = [leaves |-> leaves + k, roots |-> Addition(Deletion(roots, Members(hashes)), leaves, k)]
      BY <1>3, <1>4, <1>7, <1>9, <1>11, <2>1, AcceptedFollows
    <2> QED
      BY <1>8, <2>1, <2>2
  <1>13. StumpFollowsForest'
    BY <1>5, <1>12 DEF StumpFollowsForest
  <1>14. \A old \in previous' : Agreed(old)
    BY <1>0, <1>2, KeptTogether
  <1>15. AreLeaves(held'.hashes)
    BY <1>2 DEF FollowInv
  <1> QED
    BY <1>1, <1>13, <1>14, <1>15 DEF FollowInv

LEMMA HoldFollows == ASSUME FollowInv, HoldProof PROVE FollowInv'
  <1>1. NodeInv'
    BY HoldKeeps DEF FollowInv
  <1>2. PICK k \in 1..MaxHeld : \E D \in kSubset(k, Members(roots)) :
            /\ held' = [hashes |-> InOrder(roots, leaves, D),
                        proof |-> ProofOf(roots, leaves, InOrder(roots, leaves, D))]
            /\ UNCHANGED <<roots, leaves, stump, update, previous>>
    BY DEF HoldProof
  <1>3. PICK D \in kSubset(k, Members(roots)) :
            /\ held' = [hashes |-> InOrder(roots, leaves, D),
                        proof |-> ProofOf(roots, leaves, InOrder(roots, leaves, D))]
            /\ UNCHANGED <<roots, leaves, stump, update, previous>>
    BY <1>2
  <1>4. D \in SUBSET Members(roots)
    BY DEF kSubset
  <1>5. IsForestOf(roots, leaves)
    BY DEF FollowInv, NodeInv
  <1>6. held'.hashes = InOrder(roots, leaves, D)
    BY <1>3
  <1>7. AreLeaves(held'.hashes)
    <2> DEFINE hashes == held'.hashes
    <2>1. hashes = InOrder(roots, leaves, D)
      BY <1>6
    <2> HIDE DEF hashes
    <2>2. AreLeaves(hashes)
      BY <1>4, <1>5, <2>1, InOrderIsOfLeaves
    <2> QED
      BY <2>2 DEF hashes
  <1>8. StumpFollowsForest'
    BY <1>3 DEF FollowInv, StumpFollowsForest
  <1>9. \A old \in previous' : Agreed(old)
    <2>1. previous' = previous
      BY <1>3
    <2> QED
      BY <2>1 DEF FollowInv
  <1> QED
    BY <1>1, <1>7, <1>8, <1>9 DEF FollowInv

LEMMA LeavesAreMembers ==
    ASSUME NEW hashes, IsList(hashes), AreLeaves(hashes) PROVE Members(hashes) = ToSet(hashes)
  <1>1. DOMAIN hashes = 1..Len(hashes)
    BY ListFacts
  <1>2. \A i \in 1..Len(hashes) : LeafSets[hashes[i]] = {hashes[i]}
    BY LeafTreeFacts DEF AreLeaves
  <1>3. ASSUME NEW h \in Members(hashes) PROVE h \in ToSet(hashes)
    <2>1. PICK i \in 1..Len(hashes) : h \in LeafSets[hashes[i]]
      BY DEF Members, LeavesOf
    <2> QED
      BY <1>1, <1>2, <2>1 DEF ToSet
  <1>4. ASSUME NEW h \in ToSet(hashes) PROVE h \in Members(hashes)
    <2>1. PICK i \in 1..Len(hashes) : h = hashes[i]
      BY <1>1 DEF ToSet
    <2>2. h \in LeafSets[hashes[i]]
      BY <1>2, <2>1
    <2> QED
      BY <2>2 DEF Members, LeavesOf
  <1> QED
    BY <1>3, <1>4

\* A proof that is accepted, however old, changes forest and stump alike.
LEMMA HeldBlockFollows == ASSUME FollowInv, BlockWithHeldProof PROVE FollowInv'
  <1>0. NodeInv /\ StumpFollowsForest
    BY DEF FollowInv
  <1>1. NodeInv'
    BY <1>0, HeldBlockKeeps
  <1>2. /\ ApplyToStump(<<>>, held.hashes, held.proof)
        /\ held' = NoneHeld
        /\ previous' = {ForestNow}
        /\ IF update'.ok THEN Change(ToSet(held.hashes), 0) ELSE UNCHANGED <<roots, leaves>>
    BY DEF BlockWithHeldProof
  <1>3. IsForestOf(roots, leaves) /\ leaves \in Nat /\ leaves <= MaxLeaves
        /\ IsList(held.hashes) /\ IsList(held.proof.targets) /\ IsList(held.proof.hashes)
    BY <1>0 DEF NodeInv, IsForestOf
  <1>4. stump = [leaves |-> leaves, roots |-> roots]
    BY <1>0 DEF StumpFollowsForest
  <1>5. \A old \in previous' : Agreed(old)
    BY <1>0, <1>2, KeptTogether
  <1>6. AreLeaves(held'.hashes)
    <2>1. Len(held'.hashes) = 0
      BY <1>2 DEF NoneHeld
    <2> QED
      BY <2>1 DEF AreLeaves
  <1>7. CASE update'.ok
    <2> DEFINE k == 0
               u == <<>>
               hashes == held.hashes
               proof == held.proof
               m == update'
               D == ToSet(hashes)
    <2>1. m = StumpModify(stump, u, hashes, proof) /\ m.ok /\ stump' = m.stump
      BY <1>2, <1>7 DEF ApplyToStump
    <2>2. IsList(hashes) /\ IsList(proof.targets) /\ IsList(proof.hashes)
      BY <1>3
    <2>3. u = NewLeaves(leaves, k)
      BY <1>3, NoNewLeaves
    <2>4. k \in Nat /\ leaves + k <= MaxLeaves
      BY <1>3
    <2>5. Members(hashes) = D
      BY <2>2, LeavesAreMembers DEF FollowInv
    <2>6. leaves' = leaves + k /\ roots' = Addition(Deletion(roots, D), leaves, k)
      BY <1>2, <1>7 DEF Change
    <2> HIDE DEF k, u, hashes, proof, m, D
    <2>7. m.stump = [leaves |-> leaves + k, roots |-> Addition(Deletion(roots, Members(hashes)), leaves, k)]
      BY <1>3, <1>4, <2>1, <2>2, <2>3, <2>4, AcceptedFollows
    <2>8. StumpFollowsForest'
      BY <2>1, <2>5, <2>6, <2>7 DEF StumpFollowsForest
    <2> QED
      BY <1>1, <1>5, <1>6, <2>8 DEF FollowInv
  <1>8. CASE ~ update'.ok
    <2>1. stump' = stump /\ roots' = roots /\ leaves' = leaves
      BY <1>2, <1>8 DEF ApplyToStump
    <2>2. StumpFollowsForest'
      BY <1>4, <2>1 DEF StumpFollowsForest
    <2> QED
      BY <1>1, <1>5, <1>6, <2>2 DEF FollowInv
  <1> QED
    BY <1>7, <1>8

LEMMA UndoFollows == ASSUME FollowInv, Undo PROVE FollowInv'
  <1>1. NodeInv'
    BY UndoKeeps DEF FollowInv
  <1>2. PICK old \in previous : /\ roots' = old.roots /\ leaves' = old.leaves /\ stump' = old.stump
                                /\ previous' = {} /\ held' = held
    BY DEF Undo
  <1>3. Agreed(old)
    BY DEF FollowInv
  <1>4. StumpFollowsForest'
    BY <1>2, <1>3 DEF StumpFollowsForest, Agreed
  <1> QED
    BY <1>1, <1>2, <1>4 DEF FollowInv

LEMMA RestartFollows == ASSUME FollowInv, Restart PROVE FollowInv'
  <1>1. NodeInv'
    BY RestartKeeps DEF FollowInv
  <1>2. stump = [leaves |-> leaves, roots |-> roots] /\ IsForest(roots)
    BY DEF FollowInv, StumpFollowsForest, NodeInv, IsForestOf, IsGrown
  <1>3. StumpDeserialize(StumpSerialize(stump)) = stump
    BY <1>2, WrittenIsRead
  <1>4. stump' = stump /\ UNCHANGED <<roots, leaves, held, previous>>
    BY <1>3 DEF Restart
  <1> QED
    BY <1>1, <1>4 DEF FollowInv, StumpFollowsForest

LEMMA FollowsOn == ASSUME FollowInv, [Next]_vars PROVE FollowInv'
  <1>1. CASE Block
    BY <1>1, BlockFollows
  <1>2. CASE HoldProof
    BY <1>2, HoldFollows
  <1>3. CASE BlockWithHeldProof
    BY <1>3, HeldBlockFollows
  <1>4. CASE Undo
    BY <1>4, UndoFollows
  <1>5. CASE Restart
    BY <1>5, RestartFollows
  <1>6. CASE UNCHANGED vars
    BY <1>6 DEF FollowInv, NodeInv, StumpFollowsForest, vars
  <1> QED
    BY <1>1, <1>2, <1>3, <1>4, <1>5, <1>6 DEF Next

\* After any history of blocks, stale proofs, reorganisations and restarts the
\* stump has the roots of the forest: it accepts every block that the forest
\* proves, and changes as the forest does.
THEOREM StumpFollows == Spec => []StumpFollowsForest
  <1>1. FollowInv /\ [Next]_vars => FollowInv'
    BY FollowsOn
  <1>2. FollowInv => StumpFollowsForest
    BY DEF FollowInv
  <1> QED
    BY <1>1, <1>2, InitFollows, PTL DEF Spec

-----------------------------------------------------------------------------
(***************************************************************************)
(* What verify hashes is what modify hashes, less the new values.          *)
(***************************************************************************)
\* The nodes p are the nodes q with their old hashes.
AreOldOf(p, q) ==
    /\ IsList(p) /\ IsList(q) /\ Len(p) = Len(q)
    /\ \A k \in 1..Len(p) : p[k].pos = q[k].pos /\ p[k].hash = q[k].hash.old

OldTurn(nodes, st, n) == HashTurn(nodes, st, n, ParentHash)

IsOldStateOf(p, ps, q, qs) ==
    /\ AreOldOf(p, q) /\ IsState(p, ps) /\ IsState(q, qs)
    /\ ps.provided = qs.provided /\ ps.computed = qs.computed /\ ps.error = qs.error
    /\ AreOldOf(ps.parents, qs.parents)
    /\ Len(ps.roots) = Len(qs.roots)
    /\ \A k \in 1..Len(ps.roots) : ps.roots[k] = qs.roots[k].old

LEMMA OldAppend ==
    ASSUME NEW p, NEW q, AreOldOf(p, q), NEW x, NEW y, x.pos = y.pos, x.hash = y.hash.old
    PROVE  AreOldOf(Append(p, x), Append(q, y))
  <1>1. /\ IsList(Append(p, x)) /\ Len(Append(p, x)) = Len(p) + 1
        /\ Append(p, x)[Len(p) + 1] = x /\ \A i \in 1..Len(p) : Append(p, x)[i] = p[i]
    BY ListAppend DEF AreOldOf
  <1>2. /\ IsList(Append(q, y)) /\ Len(Append(q, y)) = Len(q) + 1
        /\ Append(q, y)[Len(q) + 1] = y /\ \A i \in 1..Len(q) : Append(q, y)[i] = q[i]
    BY ListAppend DEF AreOldOf
  <1>3. Len(p) = Len(q) /\ Len(p) \in Nat
    BY ListFacts DEF AreOldOf
  <1> DEFINE u == Append(p, x)
             v == Append(q, y)
  <1>4. ASSUME NEW k \in 1..(Len(p) + 1) PROVE u[k].pos = v[k].pos /\ u[k].hash = v[k].hash.old
    <2>1. CASE k = Len(p) + 1
      BY <2>1, <1>1, <1>2, <1>3
    <2>2. CASE k # Len(p) + 1
      <3>1. k \in 1..Len(p)
        BY <1>3, <2>2
      <3>2. u[k] = p[k] /\ v[k] = q[k]
        BY <1>1, <1>2, <1>3, <3>1
      <3> HIDE DEF u, v
      <3> QED
        BY <3>1, <3>2 DEF AreOldOf
    <2> QED
      BY <2>1, <2>2
  <1> HIDE DEF u, v
  <1> QED
    BY <1>1, <1>2, <1>3, <1>4 DEF AreOldOf, u, v

\* Both take the same node next.
LEMMA OldNext ==
    ASSUME NEW p, NEW ps, NEW q, NEW qs, IsOldStateOf(p, ps, q, qs)
    PROVE  /\ Exhausted(p, ps) <=> Exhausted(q, qs)
           /\ ~ Exhausted(p, ps) => /\ GetNext(p, ps).pos = GetNext(q, qs).pos
                                    /\ GetNext(p, ps).hash = GetNext(q, qs).hash.old
                                    /\ IsOldStateOf(p, Advance(p, ps), q, Advance(q, qs))
  <1> DEFINE i == ps.provided
             j == ps.computed
  <1>1. /\ i = qs.provided /\ j = qs.computed /\ Len(p) = Len(q) /\ Len(ps.parents) = Len(qs.parents)
    BY DEF IsOldStateOf, AreOldOf
  <1>2. Exhausted(p, ps) <=> Exhausted(q, qs)
    BY <1>1 DEF Exhausted
  <1>3. /\ i \in Nat /\ i <= Len(p) /\ j \in Nat /\ j <= Len(ps.parents)
        /\ Len(p) \in Nat /\ Len(ps.parents) \in Nat
    BY StateTypes DEF IsOldStateOf
  <1>4. ASSUME i # Len(p) PROVE p[i + 1].pos = q[i + 1].pos /\ p[i + 1].hash = q[i + 1].hash.old
    <2>1. i + 1 \in 1..Len(p)
      BY <1>3, <1>4
    <2> QED
      BY <2>1 DEF IsOldStateOf, AreOldOf
  <1>5. ASSUME j # Len(ps.parents)
        PROVE  /\ ps.parents[j + 1].pos = qs.parents[j + 1].pos
               /\ ps.parents[j + 1].hash = qs.parents[j + 1].hash.old
    <2>1. j + 1 \in 1..Len(ps.parents)
      BY <1>3, <1>5
    <2> QED
      BY <2>1 DEF IsOldStateOf, AreOldOf
  <1>6. TakesComputed(p, ps) <=> TakesComputed(q, qs)
    BY <1>1, <1>4, <1>5 DEF TakesComputed
  <1> SUFFICES ASSUME ~ Exhausted(p, ps)
               PROVE  /\ GetNext(p, ps).pos = GetNext(q, qs).pos
                      /\ GetNext(p, ps).hash = GetNext(q, qs).hash.old
                      /\ IsOldStateOf(p, Advance(p, ps), q, Advance(q, qs))
    BY <1>2
  <1>7. IsState(p, ps) /\ IsState(q, qs) /\ ~ Exhausted(q, qs)
    BY <1>2 DEF IsOldStateOf
  <1>8. /\ IsState(p, Advance(p, ps)) /\ Advance(p, ps).parents = ps.parents
        /\ Advance(p, ps).roots = ps.roots /\ Advance(p, ps).error = ps.error
    BY <1>7, AdvanceFacts
  <1>9. /\ IsState(q, Advance(q, qs)) /\ Advance(q, qs).parents = qs.parents
        /\ Advance(q, qs).roots = qs.roots /\ Advance(q, qs).error = qs.error
    BY <1>7, AdvanceFacts
  <1>10. CASE TakesComputed(p, ps)
    <2>1. j # Len(ps.parents)
      BY <1>10 DEF TakesComputed
    <2>2. /\ GetNext(p, ps) = ps.parents[j + 1] /\ GetNext(q, qs) = qs.parents[j + 1]
      BY <1>1, <1>6, <1>10 DEF GetNext
    <2>3. Advance(p, ps) = [ps EXCEPT !.computed = @ + 1] /\ Advance(q, qs) = [qs EXCEPT !.computed = @ + 1]
      BY <1>6, <1>10 DEF Advance
    <2>4. Advance(p, ps).provided = i /\ Advance(p, ps).computed = j + 1
      BY <1>7, <2>3 DEF IsState
    <2>5. Advance(q, qs).provided = i /\ Advance(q, qs).computed = j + 1
      BY <1>1, <1>7, <2>3 DEF IsState
    <2> QED
      BY <1>5, <1>8, <1>9, <2>1, <2>2, <2>4, <2>5 DEF IsOldStateOf
  <1>11. CASE ~ TakesComputed(p, ps)
    <2>1. i # Len(p)
      BY <1>11 DEF TakesComputed, Exhausted
    <2>2. /\ GetNext(p, ps) = p[i + 1] /\ GetNext(q, qs) = q[i + 1]
      BY <1>1, <1>6, <1>11 DEF GetNext
    <2>3. Advance(p, ps) = [ps EXCEPT !.provided = @ + 1] /\ Advance(q, qs) = [qs EXCEPT !.provided = @ + 1]
      BY <1>6, <1>11 DEF Advance
    <2>4. Advance(p, ps).provided = i + 1 /\ Advance(p, ps).computed = j
      BY <1>7, <2>3 DEF IsState
    <2>5. Advance(q, qs).provided = i + 1 /\ Advance(q, qs).computed = j
      BY <1>1, <1>7, <2>3 DEF IsState
    <2> QED
      BY <1>4, <1>8, <1>9, <2>1, <2>2, <2>4, <2>5 DEF IsOldStateOf
  <1> QED
    BY <1>10, <1>11
LEMMA OldWithRoot ==
    ASSUME NEW p, NEW ps, NEW q, NEW qs, IsOldStateOf(p, ps, q, qs), NEW x, NEW y, x = y.old
    PROVE  IsOldStateOf(p, WithRoot(ps, x), q, WithRoot(qs, y))
  <1> DEFINE u == Append(ps.roots, x)
             v == Append(qs.roots, y)
             pt == WithRoot(ps, x)
             qt == WithRoot(qs, y)
  <1>1. IsState(p, ps) /\ IsState(q, qs)
    BY DEF IsOldStateOf
  <1>2. IsState(p, pt) /\ IsState(q, qt)
    BY <1>1, AddRootFacts
  <1>3. /\ pt.provided = ps.provided /\ pt.computed = ps.computed /\ pt.error = ps.error
        /\ pt.parents = ps.parents /\ pt.roots = u
    BY <1>1 DEF WithRoot, IsState
  <1>4. /\ qt.provided = qs.provided /\ qt.computed = qs.computed /\ qt.error = qs.error
        /\ qt.parents = qs.parents /\ qt.roots = v
    BY <1>1 DEF WithRoot, IsState
  <1>5. IsList(ps.roots) /\ IsList(qs.roots) /\ Len(ps.roots) = Len(qs.roots) /\ Len(ps.roots) \in Nat
    BY <1>1, ListFacts DEF IsState, IsOldStateOf
  <1>6. Len(u) = Len(ps.roots) + 1 /\ u[Len(ps.roots) + 1] = x /\ \A i \in 1..Len(ps.roots) : u[i] = ps.roots[i]
    BY <1>5, ListAppend
  <1>7. Len(v) = Len(ps.roots) + 1 /\ v[Len(ps.roots) + 1] = y /\ \A i \in 1..Len(ps.roots) : v[i] = qs.roots[i]
    BY <1>5, ListAppend
  <1>8. \A i \in 1..Len(ps.roots) : ps.roots[i] = qs.roots[i].old
    BY DEF IsOldStateOf
  <1> HIDE DEF u, v, pt, qt
  <1>9. \A i \in 1..Len(u) : u[i] = v[i].old
    BY <1>5, <1>6, <1>7, <1>8
  <1>10. IsOldStateOf(p, pt, q, qt)
    BY <1>2, <1>3, <1>4, <1>6, <1>7, <1>9 DEF IsOldStateOf
  <1> QED
    BY <1>10 DEF pt, qt

LEMMA OldWithParent ==
    ASSUME NEW p, NEW ps, NEW q, NEW qs, IsOldStateOf(p, ps, q, qs),
           NEW x, NEW y, x.pos = y.pos, x.hash = y.hash.old
    PROVE  IsOldStateOf(p, WithParent(ps, x), q, WithParent(qs, y))
  <1> DEFINE pt == WithParent(ps, x)
             qt == WithParent(qs, y)
  <1>1. IsState(p, ps) /\ IsState(q, qs) /\ AreOldOf(ps.parents, qs.parents)
    BY DEF IsOldStateOf
  <1>2. IsState(p, pt) /\ IsState(q, qt)
    BY <1>1, AddParentFacts
  <1>3. /\ pt.provided = ps.provided /\ pt.computed = ps.computed /\ pt.error = ps.error
        /\ pt.parents = Append(ps.parents, x) /\ pt.roots = ps.roots
    BY <1>1 DEF WithParent, IsState
  <1>4. /\ qt.provided = qs.provided /\ qt.computed = qs.computed /\ qt.error = qs.error
        /\ qt.parents = Append(qs.parents, y) /\ qt.roots = qs.roots
    BY <1>1 DEF WithParent, IsState
  <1>5. AreOldOf(pt.parents, qt.parents)
    BY <1>1, <1>3, <1>4, OldAppend
  <1> HIDE DEF pt, qt
  <1>6. IsOldStateOf(p, pt, q, qt)
    BY <1>2, <1>3, <1>4, <1>5 DEF IsOldStateOf
  <1> QED
    BY <1>6 DEF pt, qt

LEMMA OldFails ==
    ASSUME NEW p, NEW ps, NEW q, NEW qs, IsOldStateOf(p, ps, q, qs)
    PROVE  IsOldStateOf(p, [ps EXCEPT !.error = TRUE], q, [qs EXCEPT !.error = TRUE])
  <1> DEFINE pt == [ps EXCEPT !.error = TRUE]
             qt == [qs EXCEPT !.error = TRUE]
  <1>1. IsState(p, ps) /\ IsState(q, qs)
    BY DEF IsOldStateOf
  <1>2. pt = [provided |-> ps.provided, computed |-> ps.computed, parents |-> ps.parents,
              roots |-> ps.roots, error |-> TRUE]
    <2>1. pt = [ps EXCEPT !.error = TRUE]
      OBVIOUS
    <2> HIDE DEF pt
    <2>2. IsState(p, ps)
      BY <1>1
    <2> QED
      BY <2>1, <2>2 DEF IsState
  <1>3. qt = [provided |-> qs.provided, computed |-> qs.computed, parents |-> qs.parents,
              roots |-> qs.roots, error |-> TRUE]
    <2>1. qt = [qs EXCEPT !.error = TRUE]
      OBVIOUS
    <2> HIDE DEF qt
    <2>2. IsState(q, qs)
      BY <1>1
    <2> QED
      BY <2>1, <2>2 DEF IsState
  <1> HIDE DEF pt, qt
  <1>4. IsState(p, pt) /\ IsState(q, qt)
    BY <1>1, <1>2, <1>3 DEF IsState
  <1>5. IsOldStateOf(p, pt, q, qt)
    BY <1>2, <1>3, <1>4 DEF IsOldStateOf
  <1> QED
    BY <1>5 DEF pt, qt

LEMMA OldTurnFacts ==
    ASSUME NEW p, NEW ps, NEW q, NEW qs, IsOldStateOf(p, ps, q, qs), NEW n
    PROVE  IsOldStateOf(p, OldTurn(p, ps, n), q, DeleteTurn(q, qs, n))
  <1> DEFINE rows == TreeRows(n)
             x   == GetNext(p, ps)
             y   == GetNext(q, qs)
             pt  == Advance(p, ps)
             qt  == Advance(q, qs)
  <1>1. ps.error = qs.error /\ (Exhausted(p, ps) <=> Exhausted(q, qs))
    BY OldNext DEF IsOldStateOf
  <1>2. CASE ps.error \/ Exhausted(p, ps)
    <2>1. OldTurn(p, ps, n) = ps /\ DeleteTurn(q, qs, n) = qs
      BY <1>1, <1>2 DEF OldTurn, DeleteTurn, HashTurn
    <2> QED
      BY <2>1
  <1>3. CASE ~ (ps.error \/ Exhausted(p, ps))
    <2>1. x.pos = y.pos /\ x.hash = y.hash.old /\ IsOldStateOf(p, pt, q, qt)
      BY <1>3, OldNext
    <2>2. CASE IsRootPosition(x.pos, n, rows)
      <3>1. OldTurn(p, ps, n) = WithRoot(pt, x.hash)
        BY <1>3, <2>2 DEF OldTurn, HashTurn, WithRoot
      <3>2. DeleteTurn(q, qs, n) = WithRoot(qt, y.hash)
        BY <1>1, <1>3, <2>1, <2>2 DEF DeleteTurn, HashTurn, WithRoot
      <3> HIDE DEF x, y, pt, qt
      <3> QED
        BY <2>1, <3>1, <3>2, OldWithRoot
    <2>3. CASE ~ IsRootPosition(x.pos, n, rows)
      <3> DEFINE xr == GetNext(p, pt)
                 yr == GetNext(q, qt)
                 pu == Advance(p, pt)
                 qu == Advance(q, qt)
                 a  == [pos |-> Parent(x.pos, rows), hash |-> ParentHash(x.hash, xr.hash)]
                 b  == [pos |-> Parent(y.pos, rows), hash |-> JoinDelete(y.hash, yr.hash)]
      <3>1. OldTurn(p, ps, n) = IF Exhausted(p, pt) THEN [pt EXCEPT !.error = TRUE]
                                ELSE IF xr.pos # RightSibling(x.pos) THEN [pt EXCEPT !.error = TRUE]
                                ELSE WithParent(pu, a)
        BY <1>3, <2>3 DEF OldTurn, HashTurn, HashPair, WithParent
      <3>2. DeleteTurn(q, qs, n) = IF Exhausted(q, qt) THEN [qt EXCEPT !.error = TRUE]
                                   ELSE IF yr.pos # RightSibling(y.pos) THEN [qt EXCEPT !.error = TRUE]
                                   ELSE WithParent(qu, b)
        BY <1>1, <1>3, <2>1, <2>3 DEF DeleteTurn, HashTurn, HashPair, WithParent
      <3> HIDE DEF x, y, pt, qt
      <3>3. Exhausted(p, pt) <=> Exhausted(q, qt)
        BY <2>1, OldNext
      <3>4. CASE Exhausted(p, pt)
        BY <2>1, <3>1, <3>2, <3>3, <3>4, OldFails
      <3>5. CASE ~ Exhausted(p, pt)
        <4>1. xr.pos = yr.pos /\ xr.hash = yr.hash.old /\ IsOldStateOf(p, pu, q, qu)
          BY <2>1, <3>5, OldNext
        <4> HIDE DEF xr, yr, pu, qu
        <4>2. CASE xr.pos # RightSibling(x.pos)
          <5>1. yr.pos # RightSibling(y.pos)
            BY <2>1, <4>1, <4>2
          <5>2. OldTurn(p, ps, n) = [pt EXCEPT !.error = TRUE] /\ DeleteTurn(q, qs, n) = [qt EXCEPT !.error = TRUE]
            BY <3>1, <3>2, <3>3, <3>5, <4>2, <5>1
          <5> QED
            BY <2>1, <5>2, OldFails
        <4>3. CASE xr.pos = RightSibling(x.pos)
          <5>1. yr.pos = RightSibling(y.pos)
            BY <2>1, <4>1, <4>3
          <5>2. OldTurn(p, ps, n) = WithParent(pu, a) /\ DeleteTurn(q, qs, n) = WithParent(qu, b)
            BY <3>1, <3>2, <3>3, <3>5, <4>3, <5>1
          <5>3. a.pos = b.pos
            BY <2>1
          <5>4. a.hash = ParentHash(x.hash, xr.hash)
            OBVIOUS
          <5>5. b.hash.old = ParentHash(y.hash.old, yr.hash.old)
            BY DEF JoinDelete
          <5> HIDE DEF a, b
          <5>6. a.hash = b.hash.old
            BY <2>1, <4>1, <5>4, <5>5
          <5> QED
            BY <4>1, <5>2, <5>3, <5>6, OldWithParent
        <4> QED
          BY <4>2, <4>3
      <3> QED
        BY <3>4, <3>5
    <2> QED
      BY <2>2, <2>3
  <1> QED
    BY <1>2, <1>3

IsOldTurning(f, nodes, n) ==
    f = [k \in 0..Len(nodes) |-> IF k = 0 THEN StartState ELSE OldTurn(nodes, f[k - 1], n)]

LEMMA OldTurningExists == ASSUME NEW nodes, Len(nodes) \in Nat, NEW n PROVE \E f : IsOldTurning(f, nodes, n)
  <1> DEFINE Turn(st) == OldTurn(nodes, st, n)
             Fits(f, m) == f = [k \in 0..m |-> IF k = 0 THEN StartState ELSE Turn(f[k - 1])]
             S == {m \in Nat : \E f : Fits(f, m)}
  <1> HIDE DEF Turn
  <1>1. 0 \in S
    <2>1. Fits([k \in 0..0 |-> StartState], 0)
      OBVIOUS
    <2> QED
      BY <2>1
  <1>2. ASSUME NEW m \in Nat, m \in S PROVE m + 1 \in S
    <2>1. PICK g : Fits(g, m)
      BY <1>2
    <2> DEFINE f == [k \in 0..(m + 1) |-> IF k = m + 1 THEN Turn(g[m]) ELSE g[k]]
    <2>2. \A k \in 0..m : f[k] = g[k]
      OBVIOUS
    <2>3. ASSUME NEW k \in 0..(m + 1)
          PROVE  f[k] = IF k = 0 THEN StartState ELSE Turn(f[k - 1])
      <3>1. CASE k = m + 1
        <4>1. k # 0 /\ k - 1 = m /\ m \in 0..m
          BY <3>1
        <4>2. f[k] = Turn(g[m])
          BY <3>1
        <4> QED
          BY <4>1, <4>2, <3>1, <2>2
      <3>2. CASE k # m + 1
        <4>1. k \in 0..m /\ (k # 0 => k - 1 \in 0..m)
          BY <3>2
        <4>2. g[k] = IF k = 0 THEN StartState ELSE Turn(g[k - 1])
          BY <4>1, <2>1
        <4> HIDE DEF f
        <4> QED
          BY <4>1, <4>2, <2>2
      <3> QED
        BY <3>1, <3>2
    <2>4. f = [k \in 0..(m + 1) |-> f[k]]
      OBVIOUS
    <2> HIDE DEF f
    <2>5. Fits(f, m + 1)
      BY <2>3, <2>4
    <2> QED
      BY <2>5
  <1>3. Nat \subseteq S
    <2> HIDE DEF S
    <2> QED
      BY <1>1, <1>2, NatInductionOn
  <1>4. PICK f : Fits(f, Len(nodes))
    BY <1>3
  <1> QED
    BY <1>4 DEF IsOldTurning, Turn

\* What verify computes are the old hashes of what modify computes.
LEMMA HashUpOld ==
    ASSUME NEW p, NEW q, AreOldOf(p, q), NEW n
    PROVE  IsOldStateOf(p, HashUp(p, n, ParentHash), q, HashUp(q, n, JoinDelete))
  <1> DEFINE N == Len(p)
             f == CHOOSE g : IsOldTurning(g, p, n)
  <1>1. N \in Nat /\ IsList(p) /\ IsList(q) /\ Len(q) = N
    BY ListFacts DEF AreOldOf
  <1>2. IsOldTurning(f, p, n)
    BY <1>1, OldTurningExists
  <1>3. f[N] = HashUp(p, n, ParentHash)
    BY DEF HashUp, IsOldTurning, OldTurn, StartState
  <1> HIDE DEF f
  <1>4. f[0] = StartState
    BY <1>1, <1>2 DEF IsOldTurning
  <1>5. \A k \in 1..N : f[k] = OldTurn(p, f[k - 1], n)
    BY <1>1, <1>2 DEF IsOldTurning
  <1>6. PICK g : /\ g[0] = StartState
                 /\ \A k \in 1..N : g[k] = DeleteTurn(q, g[k - 1], n)
                 /\ g[N] = HashUp(q, n, JoinDelete)
                 /\ \A k \in 0..N : IsState(q, g[k])
    BY <1>1, HashUpTurns
  <1> DEFINE S == {k \in Nat : k <= N => IsOldStateOf(p, f[k], q, g[k])}
  <1> HIDE DEF N
  <1>7. 0 \in S
    <2>1. IsList(<<>>) /\ Len(<<>>) = 0
      BY NoList
    <2>2. IsState(p, StartState) /\ IsState(q, StartState)
      BY <1>1, <2>1 DEF IsState, StartState, N
    <2>3. AreOldOf(StartState.parents, StartState.parents)
      BY <2>1 DEF AreOldOf, StartState
    <2>4. StartState.roots = <<>>
      BY DEF StartState
    <2>5. IsOldStateOf(p, StartState, q, StartState)
      BY <2>1, <2>2, <2>3, <2>4 DEF IsOldStateOf
    <2> QED
      BY <1>4, <1>6, <2>5
  <1>8. ASSUME NEW k \in Nat, k \in S PROVE k + 1 \in S
    <2> SUFFICES ASSUME k + 1 <= N PROVE IsOldStateOf(p, f[k + 1], q, g[k + 1])
      OBVIOUS
    <2>1. k + 1 \in 1..N /\ (k + 1) - 1 = k /\ k <= N
      BY <1>1
    <2>2. f[k + 1] = OldTurn(p, f[k], n) /\ g[k + 1] = DeleteTurn(q, g[k], n)
      BY <1>5, <1>6, <2>1
    <2>3. IsOldStateOf(p, f[k], q, g[k])
      BY <1>8, <2>1
    <2> QED
      BY <2>2, <2>3, OldTurnFacts
  <1>9. Nat \subseteq S
    <2> HIDE DEF S
    <2> QED
      BY <1>7, <1>8, NatInductionOn
  <1>10. IsOldStateOf(p, f[N], q, g[N])
    BY <1>1, <1>9
  <1> QED
    BY <1>3, <1>6, <1>10 DEF N

-----------------------------------------------------------------------------
(***************************************************************************)
(* The roots that are computed come lowest first, and so are they read.    *)
(***************************************************************************)
LEMMA LowerRowsFirst ==
    ASSUME NEW rows \in Nat, NEW a \in 0..rows, NEW b \in 0..rows, a < b, NEW off \in Offsets(a, rows)
    PROVE  First(a, rows) + off < First(b, rows)
  <1> DEFINE A == 2^(rows - a)
             B == 2^(rows - b)
             T == 2^(rows + 1)
  <1>1. A \in Nat /\ First(a, rows) = T - 2 * A /\ T \in Nat
    BY FirstFacts
  <1>2. B \in Nat /\ First(b, rows) = T - 2 * B
    BY FirstFacts
  <1>3. 2 * B <= A
    <2>1. rows - a \in Nat /\ rows - b \in Nat /\ rows - b < rows - a
      OBVIOUS
    <2> QED
      BY <2>1, PowerMonotone
  <1>4. off \in Nat /\ off < A
    BY <1>1 DEF Offsets
  <1> HIDE DEF A, B, T
  <1> QED
    BY <1>1, <1>2, <1>3, <1>4

LEMMA RootSpotsFall ==
    ASSUME NEW n \in Nat, n <= 2^MaxForestRows, NEW rs, IsGrown(rs, n),
           NEW i \in 1..Len(rs), NEW j \in 1..Len(rs), i < j
    PROVE  RootSpot(n, j) < RootSpot(n, i)
  <1> DEFINE rows == TreeRows(n)
             Q == RootRows(n)
             Off(k) == 2 * (n \div 2^(Q[k] + 1))
  <1>1. \A k \in 1..Len(rs) : IsSpot(RootSpot(n, k), Q[k], Off(k), n)
    BY RootsOnRows
  <1>2. Len(Q) = Len(rs) /\ IsFalling(Q)
    BY RootsOnRows
  <1>3. Q[j] < Q[i]
    BY <1>2 DEF IsFalling
  <1> HIDE DEF Off, Q
  <1>4. /\ rows \in Nat /\ Q[j] \in 0..rows /\ Off(j) \in Offsets(Q[j], rows)
        /\ RootSpot(n, j) = First(Q[j], rows) + Off(j)
    BY <1>1, SpotPlace DEF IsSpot
  <1>5. /\ Q[i] \in 0..rows /\ Off(i) \in Nat
        /\ RootSpot(n, i) = First(Q[i], rows) + Off(i)
    BY <1>1, SpotPlace DEF IsSpot
  <1> HIDE DEF rows
  <1>6. First(Q[j], rows) + Off(j) < First(Q[i], rows)
    BY <1>3, <1>4, <1>5, LowerRowsFirst
  <1>7. First(Q[i], rows) \in Nat /\ First(Q[j], rows) \in Nat
    BY <1>4, <1>5, FirstFacts
  <1>8. /\ RootSpot(n, j) = First(Q[j], rows) + Off(j)
        /\ RootSpot(n, i) = First(Q[i], rows) + Off(i)
        /\ Off(j) \in Nat /\ Off(i) \in Nat
    BY <1>1, <1>4, <1>5 DEF IsSpot
  <1>9. RootSpot(n, j) \in Int /\ RootSpot(n, i) \in Int
    BY <1>7, <1>8
  <1> QED
    BY <1>6, <1>7, <1>8, <1>9

\* v says which of the roots rs those of `left` are: later ones come first.
ReadsBack(v, left, rs, m) ==
    /\ IsList(left)
    /\ \A j \in 1..Len(left) : v[j] \in 1..m /\ left[j] = rs[v[j]]
    /\ \A i, j \in 1..Len(left) : i < j => v[j] < v[i]

LEMMA RootsReadBack ==
    ASSUME NEW n, NEW nodes, NEW A, NEW B, NEW X, NEW rs, IsGiven(nodes, A, B, X, rs, n),
           IsGrown(rs, n), NEW p, AreOldOf(p, nodes),
           NEW done, done = HashUp(p, n, ParentHash)
    PROVE  ~ done.error /\ \E v : ReadsBack(v, done.roots, rs, Len(rs))
  <1> DEFINE full == HashUp(nodes, n, JoinDelete)
             found == full.roots
  <1>1. full = HashUp(nodes, n, JoinDelete)
    OBVIOUS
  <1>2. IsOldStateOf(p, done, nodes, full)
    BY HashUpOld
  <1> HIDE DEF full
  <1>3. PICK c \in Nat : IsUpTo(nodes, full, A, X, c, n)
    BY <1>1, HashUpFinds
  <1>4. ~ full.error /\ IsList(done.roots)
    BY <1>2, <1>3 DEF IsUpTo, IsQueue, IsOldStateOf, IsState
  <1>5. PICK w : AreFoundAt(w, found, A, X, c, n)
    BY <1>3 DEF IsUpTo
  <1>6. n \in Nat /\ n <= 2^MaxForestRows /\ IsMap(X, rs, n) /\ IsPlan(A, B, n)
    BY DEF IsGiven
  <1>7. Len(done.roots) = Len(found) /\ \A k \in 1..Len(found) : done.roots[k] = found[k].old
    BY <1>2 DEF IsOldStateOf
  <1>8. done.error = full.error
    BY <1>2 DEF IsOldStateOf
  <1> HIDE DEF found
  <1>9. ASSUME NEW k \in 1..Len(found)
        PROVE  \E i \in 1..Len(rs) : found[k].old = rs[i] /\ w[k] = RootSpot(n, i)
    <2> DEFINE q == w[k]
               t == found[k].old
    <2>1. q \in A /\ IsRootPosition(q, n, TreeRows(n)) /\ <<q, t>> \in X
      BY <1>5 DEF AreFoundAt
    <2> HIDE DEF q, t
    <2>2. IsRootAt(rs, q, t, n)
      BY <1>6, <2>1 DEF IsMap, Hangs
    <2> QED
      BY <2>2 DEF IsRootAt, q, t
  <1> DEFINE v == [k \in 1..Len(found) |->
                       CHOOSE i \in 1..Len(rs) : found[k].old = rs[i] /\ w[k] = RootSpot(n, i)]
  <1>10. \A k \in 1..Len(found) : v[k] \in 1..Len(rs) /\ found[k].old = rs[v[k]] /\ w[k] = RootSpot(n, v[k])
    BY <1>9
  <1> HIDE DEF v
  <1>11. IsList(rs) /\ Len(rs) \in Nat
    BY ListFacts DEF IsGrown, IsForest
  <1>12. ASSUME NEW k \in 1..Len(found), NEW l \in 1..Len(found), k < l PROVE v[l] < v[k]
    <2>1. w[k] < w[l]
      BY <1>5, <1>12 DEF AreFoundAt
    <2>2. w[k] \in Nat /\ w[l] \in Nat
      BY <1>5, <1>6, PlanFamily DEF AreFoundAt
    <2>3. v[k] \in 1..Len(rs) /\ v[l] \in 1..Len(rs) /\ w[k] = RootSpot(n, v[k]) /\ w[l] = RootSpot(n, v[l])
      BY <1>10
    <2>4. v[k] < v[l] => w[l] < w[k]
      BY <1>6, <2>3, RootSpotsFall
    <2>5. v[k] # v[l]
      BY <2>1, <2>2, <2>3
    <2> QED
      BY <1>11, <2>1, <2>2, <2>3, <2>4, <2>5
  <1>13. ReadsBack(v, done.roots, rs, Len(rs))
    BY <1>4, <1>7, <1>10, <1>12 DEF ReadsBack
  <1> QED
    BY <1>4, <1>8, <1>13

LEMMA ListRest ==
    ASSUME NEW s, IsList(s), s # <<>>
    PROVE  /\ Len(s) \in Nat \ {0} /\ Head(s) = s[1] /\ IsList(Tail(s)) /\ Len(Tail(s)) = Len(s) - 1
           /\ \A i \in 1..(Len(s) - 1) : Tail(s)[i] = s[i + 1]
  <1> DEFINE E == Elements(s)
  <1>1. s \in Seq(E)
    BY DEF IsList
  <1> HIDE DEF E
  <1>2. Tail(s) \in Seq(E) /\ Len(s) \in Nat \ {0} /\ Head(s) = s[1]
    BY <1>1
  <1>3. Len(Tail(s)) = Len(s) - 1 /\ \A i \in 1..(Len(s) - 1) : Tail(s)[i] = s[i + 1]
    BY <1>1
  <1>4. IsList(Tail(s))
    BY <1>2, ListOf
  <1> QED
    BY <1>2, <1>3, <1>4

LEMMA NextIsRead ==
    ASSUME NEW rs, NEW m \in Nat \ {0}, NEW v, NEW left, ReadsBack(v, left, rs, m),
           NEW st, st.left = left, NEW root, root = rs[m]
    PROVE  \E u : ReadsBack(u, MatchNext(st, root).left, rs, m - 1)
  <1>1. IsList(left) /\ Len(left) \in Nat
    BY ListFacts DEF ReadsBack
  <1>2. CASE left = <<>>
    <2>1. MatchNext(st, root) = st
      BY <1>2 DEF MatchNext
    <2>2. Len(left) = 0
      BY <1>2, NoList
    <2>3. ReadsBack(v, left, rs, m - 1)
      BY <1>1, <2>2 DEF ReadsBack
    <2> QED
      BY <2>1, <2>3
  <1>3. CASE left # <<>> /\ Head(left) = root
    <2> DEFINE rest == Tail(left)
               u == [j \in 1..Len(rest) |-> v[j + 1]]
    <2>1. MatchNext(st, root).left = rest
      BY <1>3 DEF MatchNext
    <2>2. /\ Len(left) \in Nat \ {0} /\ IsList(rest) /\ Len(rest) = Len(left) - 1
          /\ \A i \in 1..(Len(left) - 1) : rest[i] = left[i + 1]
      BY <1>1, <1>3, ListRest
    <2> HIDE DEF rest
    <2>3. \A j \in 1..Len(rest) : j + 1 \in 1..Len(left) /\ 1 \in 1..Len(left) /\ 1 < j + 1
      BY <2>2
    <2>4. \A j \in 1..Len(rest) : u[j] = v[j + 1]
      OBVIOUS
    <2> HIDE DEF u
    <2>5. ASSUME NEW j \in 1..Len(rest) PROVE u[j] \in 1..(m - 1) /\ rest[j] = rs[u[j]]
      <3>1. v[j + 1] < v[1] /\ v[j + 1] \in 1..m /\ v[1] \in 1..m /\ left[j + 1] = rs[v[j + 1]]
        BY <2>3 DEF ReadsBack
      <3>2. rest[j] = left[j + 1]
        BY <2>2
      <3> QED
        BY <2>4, <3>1, <3>2
    <2>6. ASSUME NEW i \in 1..Len(rest), NEW j \in 1..Len(rest), i < j PROVE u[j] < u[i]
      <3>1. i + 1 \in 1..Len(left) /\ j + 1 \in 1..Len(left) /\ i + 1 < j + 1
        BY <2>3, <2>6
      <3>2. v[j + 1] < v[i + 1]
        BY <3>1 DEF ReadsBack
      <3> QED
        BY <2>4, <3>2
    <2>7. ReadsBack(u, rest, rs, m - 1)
      BY <2>2, <2>5, <2>6 DEF ReadsBack
    <2> QED
      BY <2>1, <2>7
  <1>4. CASE left # <<>> /\ Head(left) # root
    <2>1. MatchNext(st, root) = st
      BY <1>4 DEF MatchNext
    <2>2. Len(left) \in Nat \ {0} /\ Head(left) = left[1]
      BY <1>1, <1>4, ListRest
    <2>3. 1 \in 1..Len(left)
      BY <2>2
    <2>4. v[1] \in 1..(m - 1)
      <3>1. v[1] \in 1..m /\ left[1] = rs[v[1]]
        BY <2>3 DEF ReadsBack
      <3>2. v[1] # m
        BY <1>4, <2>2, <3>1
      <3> QED
        BY <3>1, <3>2
    <2>5. ASSUME NEW j \in 1..Len(left) PROVE v[j] \in 1..(m - 1)
      <3>1. v[j] \in 1..m
        BY DEF ReadsBack
      <3>2. CASE j = 1
        BY <2>4, <3>2
      <3>3. CASE j # 1
        <4>1. 1 < j
          BY <3>3
        <4>2. v[j] < v[1]
          BY <2>3, <4>1 DEF ReadsBack
        <4> QED
          BY <2>4, <3>1, <4>2
      <3> QED
        BY <3>2, <3>3
    <2>6. ReadsBack(v, left, rs, m - 1)
      BY <2>5 DEF ReadsBack
    <2> QED
      BY <2>1, <2>6
  <1> QED
    BY <1>2, <1>3, <1>4

NoneMatched(computed) == [left |-> computed, matched |-> 0]

IsTally(f, computed, rs) ==
    f = [k \in 0..Len(rs) |-> IF k = 0 THEN NoneMatched(computed)
                              ELSE MatchNext(f[k - 1], rs[Len(rs) - k + 1])]

LEMMA TallyExists == ASSUME NEW rs, Len(rs) \in Nat, NEW computed PROVE \E f : IsTally(f, computed, rs)
  <1> DEFINE N == Len(rs)
             Turn(st, k) == MatchNext(st, rs[N - k + 1])
             start == NoneMatched(computed)
             Fits(f, m) == f = [k \in 0..m |-> IF k = 0 THEN start ELSE Turn(f[k - 1], k)]
             S == {m \in Nat : \E f : Fits(f, m)}
  <1> HIDE DEF Turn, start
  <1>1. 0 \in S
    <2>1. Fits([k \in 0..0 |-> start], 0)
      OBVIOUS
    <2> QED
      BY <2>1
  <1>2. ASSUME NEW m \in Nat, m \in S PROVE m + 1 \in S
    <2>1. PICK g : Fits(g, m)
      BY <1>2
    <2> DEFINE f == [k \in 0..(m + 1) |-> IF k = m + 1 THEN Turn(g[m], m + 1) ELSE g[k]]
    <2>2. \A k \in 0..m : f[k] = g[k]
      OBVIOUS
    <2>3. ASSUME NEW k \in 0..(m + 1)
          PROVE  f[k] = IF k = 0 THEN start ELSE Turn(f[k - 1], k)
      <3>1. CASE k = m + 1
        <4>1. k # 0 /\ k - 1 = m /\ m \in 0..m
          BY <3>1
        <4>2. f[k] = Turn(g[m], k)
          BY <3>1
        <4> QED
          BY <4>1, <4>2, <3>1, <2>2
      <3>2. CASE k # m + 1
        <4>1. k \in 0..m /\ (k # 0 => k - 1 \in 0..m)
          BY <3>2
        <4>2. g[k] = IF k = 0 THEN start ELSE Turn(g[k - 1], k)
          BY <4>1, <2>1
        <4> HIDE DEF f
        <4> QED
          BY <4>1, <4>2, <2>2
      <3> QED
        BY <3>1, <3>2
    <2>4. f = [k \in 0..(m + 1) |-> f[k]]
      OBVIOUS
    <2> HIDE DEF f
    <2>5. Fits(f, m + 1)
      BY <2>3, <2>4
    <2> QED
      BY <2>5
  <1>3. Nat \subseteq S
    <2> HIDE DEF S
    <2> QED
      BY <1>1, <1>2, NatInductionOn
  <1>4. PICK f : Fits(f, N)
    BY <1>3
  <1> QED
    BY <1>4 DEF IsTally, Turn, start

\* Roots that come lowest first are all matched.
LEMMA AllAreRead ==
    ASSUME NEW rs, IsList(rs), NEW v, NEW computed, ReadsBack(v, computed, rs, Len(rs))
    PROVE  Len(MatchRoots(computed, rs).left) = 0
  <1> DEFINE N == Len(rs)
             f == CHOOSE g : IsTally(g, computed, rs)
             S == {k \in Nat : k <= N => \E u : ReadsBack(u, f[k].left, rs, N - k)}
  <1>1. N \in Nat
    BY ListFacts
  <1>2. IsTally(f, computed, rs)
    BY <1>1, TallyExists
  <1>3. MatchRoots(computed, rs) = f[N]
    BY DEF MatchRoots, IsTally, NoneMatched
  <1> HIDE DEF f
  <1>4. f[0] = NoneMatched(computed)
    BY <1>1, <1>2 DEF IsTally
  <1>5. \A k \in 1..N : f[k] = MatchNext(f[k - 1], rs[N - k + 1])
    BY <1>1, <1>2 DEF IsTally
  <1>6. ReadsBack(v, computed, rs, N)
    OBVIOUS
  <1> HIDE DEF N
  <1>7. 0 \in S
    <2>1. f[0].left = computed /\ N - 0 = N
      BY <1>1, <1>4 DEF NoneMatched
    <2> QED
      BY <1>6, <2>1
  <1>8. ASSUME NEW k \in Nat, k \in S PROVE k + 1 \in S
    <2> SUFFICES ASSUME k + 1 <= N PROVE \E u : ReadsBack(u, f[k + 1].left, rs, N - (k + 1))
      OBVIOUS
    <2> DEFINE m == N - k
    <2>1. k + 1 \in 1..N /\ (k + 1) - 1 = k /\ k <= N /\ N - (k + 1) + 1 = m /\ m \in Nat \ {0} /\ N - (k + 1) = m - 1
      BY <1>1
    <2>2. f[k + 1] = MatchNext(f[k], rs[m])
      BY <1>5, <2>1
    <2>3. PICK u : ReadsBack(u, f[k].left, rs, m)
      BY <1>8, <2>1
    <2> HIDE DEF m
    <2> QED
      BY <2>1, <2>2, <2>3, NextIsRead
  <1>9. Nat \subseteq S
    <2> HIDE DEF S
    <2> QED
      BY <1>7, <1>8, NatInductionOn
  <1>10. PICK u : ReadsBack(u, f[N].left, rs, 0)
    <2>1. N - N = 0 /\ N <= N
      BY <1>1
    <2> QED
      BY <1>1, <1>9, <2>1
  <1>11. Len(f[N].left) \in Nat
    BY <1>10, ListFacts DEF ReadsBack
  <1>12. \A j \in 1..Len(f[N].left) : u[j] \in 1..0
    BY <1>10 DEF ReadsBack
  <1>13. Len(f[N].left) # 0 => 1 \in 1..Len(f[N].left)
    BY <1>11
  <1> QED
    BY <1>3, <1>12, <1>13

-----------------------------------------------------------------------------
(***************************************************************************)
(* verify with the forest's own proof of leaves that are in the first row: *)
(* there the positions that are exchanged are those of the forest.         *)
(***************************************************************************)
LEMMA FirstRowPlace ==
    ASSUME NEW n \in Nat, n <= 2^MaxForestRows, NEW p, IsPlace(p, n), p < n
    PROVE  Translate(p, TreeRows(n), MaxForestRows) = p
  <1> DEFINE rows == TreeRows(n)
  <1>1. PICK row, off : IsSpot(p, row, off, n)
    BY DEF IsPlace
  <1>2. /\ rows \in Nat /\ n <= 2^rows /\ row \in 0..rows /\ off \in Offsets(row, rows)
        /\ p \in Nat /\ DetectRow(p, rows) = row
    BY <1>1, SpotPlace
  <1>3. p = First(row, rows) + off /\ off \in Nat
    BY <1>1 DEF IsSpot
  <1> HIDE DEF rows
  <1>4. row = 0
    <2> SUFFICES ASSUME row # 0 PROVE FALSE
      OBVIOUS
    <2> DEFINE A == 2^(rows - row)
               R == 2^rows
    <2>1. A \in Nat /\ First(row, rows) = 2^(rows + 1) - 2 * A /\ 2^(rows + 1) = 2 * R /\ R \in Nat
      BY <1>2, FirstFacts
    <2>2. 2 * A <= R
      <3>1. rows - row \in Nat /\ rows - row < rows
        BY <1>2
      <3> QED
        BY <1>2, <3>1, PowerMonotone
    <2>3. n <= R
      BY <1>2
    <2> HIDE DEF A, R
    <2> QED
      BY <1>3, <2>1, <2>2, <2>3
  <1>5. DetectRow(p, rows) = 0
    BY <1>2, <1>4
  <1> QED
    BY <1>5 DEF Translate, rows

Doubled(hashes) == [i \in 1..Len(hashes) |-> [old |-> hashes[i], new |-> hashes[i]]]

LEMMA ZippedPairs ==
    ASSUME NEW positions, IsList(positions), NEW hashes, IsList(hashes), Len(hashes) = Len(positions)
    PROVE  /\ IsList(Zip2(positions, hashes)) /\ Len(Zip2(positions, hashes)) = Len(positions)
           /\ \A i \in 1..Len(positions) : /\ Zip2(positions, hashes)[i].pos = positions[i]
                                           /\ Zip2(positions, hashes)[i].hash = hashes[i]
  <1> DEFINE z == Zip2(positions, hashes)
             m == Min({Len(positions), Len(hashes)})
             N == Len(positions)
  <1>1. N \in Nat
    BY ListFacts
  <1>2. IsList(z) /\ Len(z) = N
    BY <1>1, ZipFacts
  <1>3. z = [i \in 1..m |-> [pos |-> positions[i], hash |-> hashes[i]]]
    BY DEF Zip2
  <1> HIDE DEF m
  <1>4. z = [i \in 1..m |-> z[i]] /\ \A i \in 1..m : z[i] = [pos |-> positions[i], hash |-> hashes[i]]
    BY <1>3
  <1>5. DOMAIN z = 1..m /\ DOMAIN z = 1..N
    <2>1. DOMAIN z = 1..m
      BY <1>3
    <2> HIDE DEF z
    <2> QED
      BY <2>1, <1>2, ListFacts
  <1> HIDE DEF z, N
  <1>6. ASSUME NEW i \in 1..N PROVE z[i].pos = positions[i] /\ z[i].hash = hashes[i]
    <2>1. z[i] = [pos |-> positions[i], hash |-> hashes[i]]
      BY <1>4, <1>5
    <2> QED
      BY ONLY <2>1
  <1> QED
    BY <1>2, <1>6 DEF z, N

LEMMA ZippedOld ==
    ASSUME NEW positions, IsList(positions), NEW hashes, IsList(hashes), Len(hashes) = Len(positions)
    PROVE  /\ IsList(Doubled(hashes)) /\ Len(Doubled(hashes)) = Len(hashes)
           /\ \A i \in 1..Len(hashes) : Doubled(hashes)[i].old = hashes[i]
           /\ AreOldOf(Zip2(positions, hashes), Zip2(positions, Doubled(hashes)))
  <1> DEFINE N == Len(positions)
             d == Doubled(hashes)
  <1>1. N \in Nat /\ Len(hashes) = N
    BY ListFacts
  <1>2. d = [i \in 1..Len(hashes) |-> d[i]] /\ \A i \in 1..Len(hashes) : d[i].old = hashes[i]
    BY DEF Doubled
  <1> HIDE DEF d
  <1>3. IsList(d) /\ Len(d) = N
    BY <1>1, <1>2, ListBuilt
  <1>4. /\ IsList(Zip2(positions, hashes)) /\ Len(Zip2(positions, hashes)) = N
        /\ \A i \in 1..N : /\ Zip2(positions, hashes)[i].pos = positions[i]
                           /\ Zip2(positions, hashes)[i].hash = hashes[i]
    BY <1>1, ZippedPairs
  <1>5. /\ IsList(Zip2(positions, d)) /\ Len(Zip2(positions, d)) = N
        /\ \A i \in 1..N : Zip2(positions, d)[i].pos = positions[i] /\ Zip2(positions, d)[i].hash = d[i]
    BY <1>1, <1>3, ZippedPairs
  <1> QED
    BY <1>1, <1>2, <1>3, <1>4, <1>5 DEF AreOldOf, d

LEMMA JoinedOld ==
    ASSUME NEW a, NEW b, AreOldOf(a, b), NEW c, NEW d, AreOldOf(c, d)
    PROVE  AreOldOf(a \o c, b \o d)
  <1> DEFINE A == Len(a)
             C == Len(c)
             u == a \o c
             v == b \o d
  <1>1. /\ IsList(a) /\ IsList(b) /\ IsList(c) /\ IsList(d) /\ Len(b) = A /\ Len(d) = C
        /\ A \in Nat /\ C \in Nat
    BY ListFacts DEF AreOldOf
  <1>2. /\ IsList(u) /\ Len(u) = A + C
        /\ \A i \in 1..(A + C) : u[i] = IF i <= A THEN a[i] ELSE c[i - A]
    BY <1>1, ListConcat
  <1>3. /\ IsList(v) /\ Len(v) = A + C
        /\ \A i \in 1..(A + C) : v[i] = IF i <= A THEN b[i] ELSE d[i - A]
    <2>1. /\ IsList(v) /\ Len(v) = Len(b) + Len(d)
          /\ \A i \in 1..(Len(b) + Len(d)) : v[i] = IF i <= Len(b) THEN b[i] ELSE d[i - Len(b)]
      BY <1>1, ListConcat
    <2> HIDE DEF v
    <2> QED
      BY <1>1, <2>1
  <1> HIDE DEF u, v
  <1>4. ASSUME NEW i \in 1..(A + C) PROVE u[i].pos = v[i].pos /\ u[i].hash = v[i].hash.old
    <2>1. CASE i <= A
      <3>1. u[i] = a[i] /\ v[i] = b[i] /\ i \in 1..A
        BY <1>1, <1>2, <1>3, <2>1
      <3> QED
        BY <3>1 DEF AreOldOf
    <2>2. CASE ~ (i <= A)
      <3>1. u[i] = c[i - A] /\ v[i] = d[i - A] /\ i - A \in 1..C
        BY <1>1, <1>2, <1>3, <2>2
      <3> QED
        BY <3>1 DEF AreOldOf
    <2> QED
      BY <2>1, <2>2
  <1> QED
    BY <1>2, <1>3, <1>4 DEF AreOldOf, u, v

\* The nodes s, each with its hash twice.
Paired(s) == [i \in 1..Len(s) |-> [pos |-> s[i].pos, hash |-> [old |-> s[i].hash, new |-> s[i].hash]]]

LEMMA PairedOld ==
    ASSUME NEW s, IsList(s)
    PROVE  /\ AreOldOf(s, Paired(s)) /\ Len(Paired(s)) = Len(s)
           /\ AreStrictlyRising(s) => AreStrictlyRising(Paired(s))
  <1> DEFINE d == Paired(s)
  <1>1. Len(s) \in Nat
    BY ListFacts
  <1>2. d = [i \in 1..Len(s) |-> d[i]]
        /\ \A i \in 1..Len(s) : d[i].pos = s[i].pos /\ d[i].hash.old = s[i].hash
    BY DEF Paired
  <1> HIDE DEF d
  <1>3. IsList(d) /\ Len(d) = Len(s)
    BY <1>1, <1>2, ListBuilt
  <1>4. AreOldOf(s, d)
    BY <1>2, <1>3 DEF AreOldOf
  <1>5. ASSUME AreStrictlyRising(s) PROVE AreStrictlyRising(d)
    BY <1>2, <1>3, <1>5 DEF AreStrictlyRising
  <1> QED
    BY <1>3, <1>4, <1>5 DEF d

\* Nodes with bare hashes, where the nodes of the map are, are sorted as the
\* nodes with old and new hashes are.
LEMMA OldNodesInOrder ==
    ASSUME NEW X, NEW T \in SUBSET Nat, NEW a, IsNodesAt(a, T, X), NEW raw, AreOldOf(raw, a),
           NEW s, s = SortNodes(raw)
    PROVE  LET nodes == Paired(s)
           IN  /\ AreOldOf(s, nodes)
               /\ AreStrictlyRising(nodes)
               /\ \A k \in 1..Len(nodes) : nodes[k].pos \in T /\ InMap(X, nodes[k])
               /\ \A p \in T : HasAt(nodes, p)
  <1> DEFINE nodes == Paired(s)
  <1>1. /\ IsList(raw) /\ Len(raw) = Len(a)
        /\ \A i \in 1..Len(raw) : raw[i].pos = a[i].pos /\ raw[i].hash = a[i].hash.old
    BY DEF AreOldOf
  <1>2. \A i \in 1..Len(raw) : raw[i].pos \in T /\ <<raw[i].pos, raw[i].hash>> \in X
    BY <1>1 DEF IsNodesAt, InMap
  <1>3. \A i, j \in 1..Len(raw) : i # j => raw[i].pos # raw[j].pos
    BY <1>1 DEF IsNodesAt
  <1>4. \A i \in 1..Len(raw) : raw[i].pos \in Nat
    BY <1>2
  <1>5. AreStrictlyRising(s) /\ Len(s) = Len(raw) /\ AreAmong(raw, s) /\ AreAmong(s, raw)
    BY <1>1, <1>3, <1>4, SortedNodes
  <1>6. AreOldOf(s, nodes) /\ AreStrictlyRising(nodes) /\ Len(nodes) = Len(s)
    BY <1>5, PairedOld DEF AreStrictlyRising
  <1>7. \A k \in 1..Len(s) : nodes[k].pos = s[k].pos /\ nodes[k].hash.old = s[k].hash
    BY <1>6 DEF AreOldOf
  <1> HIDE DEF nodes
  <1>8. ASSUME NEW k \in 1..Len(s) PROVE nodes[k].pos \in T /\ InMap(X, nodes[k])
    <2>1. PICK i \in 1..Len(raw) : s[k] = raw[i]
      BY <1>5 DEF AreAmong
    <2> QED
      BY <1>2, <1>7, <2>1 DEF InMap
  <1>9. ASSUME NEW p \in T PROVE HasAt(nodes, p)
    <2>1. PICK i \in 1..Len(a) : a[i].pos = p
      BY DEF IsNodesAt, HasAt
    <2>2. PICK j \in 1..Len(s) : raw[i] = s[j]
      BY <1>1, <1>5, <2>1 DEF AreAmong
    <2>3. nodes[j].pos = p
      BY <1>1, <1>7, <2>1, <2>2
    <2> QED
      BY <1>6, <2>3 DEF HasAt
  <1> QED
    BY <1>6, <1>8, <1>9 DEF nodes

\* The positions D's members have are all below n.
AreInFirstRow(D, X, n) == \A h \in D : PositionIn(X, h) < n

LEMMA VerifyAccepts ==
    ASSUME NEW n \in Nat, n <= 2^MaxForestRows, NEW rs, IsGrown(rs, n),
           NEW D \in SUBSET Members(rs), NEW targets, Lists(targets, D),
           AreInFirstRow(D, NodesOf(rs, n), n),
           NEW proof, proof = ProofOf(rs, n, targets)
    PROVE  Verify(proof, targets, rs, n) = "valid"
  <1> DEFINE X     == NodesOf(rs, n)
             T     == {PositionIn(X, h) : h \in D}
             where == TranslatedTargets(proof, n)
             needed == ProofPositionsOf(proof, n)
             C     == ComputedPositions(T, n, TreeRows(n))
             N     == ProofPositionSet(T, n, TreeRows(n))
             raw   == Zip2(proof.targets, targets) \o Zip2(needed, proof.hashes)
             s     == SortNodes(raw)
             nodes == Paired(s)
             done  == HashUp(s, n, ParentHash)
  <1>1. IsProofOf(proof, targets, T, X, n) /\ AreLeafPlaces(T, X) /\ IsFiniteSet(T)
    <2>1. X = NodesOf(rs, n) /\ T = {PositionIn(X, h) : h \in D}
      OBVIOUS
    <2> HIDE DEF X, T
    <2> QED
      BY <2>1, MadeProof
  <1>2. IsMap(X, rs, n)
    BY NodesMapped
  <1>3. IsList(targets) /\ Len(targets) \in Nat
    BY ListFacts DEF Lists
  <1>4. \A p \in T : p < n /\ IsPlace(p, n)
    <2>1. \A p \in T : p < n
      BY DEF AreInFirstRow
    <2>2. \A p \in T : \E t : <<p, t>> \in X
      BY <1>1 DEF AreLeafPlaces
    <2> HIDE DEF T, X
    <2> QED
      BY <1>2, <2>1, <2>2 DEF IsMap, IsNode, IsPlace
  <1> HIDE DEF X, T
  <1>5. /\ IsList(proof.targets) /\ Len(proof.targets) = Len(targets)
        /\ Lists(where, T) /\ Len(where) = Len(targets)
        /\ \A i \in 1..Len(targets) : /\ <<where[i], targets[i]>> \in X
                                      /\ proof.targets[i] = Translate(where[i], TreeRows(n), MaxForestRows)
        /\ Lists(needed, N)
        /\ IsList(proof.hashes) /\ Len(proof.hashes) = Len(needed)
        /\ \A i \in 1..Len(proof.hashes) : <<needed[i], proof.hashes[i]>> \in X
    BY <1>1 DEF IsProofOf
  <1> HIDE DEF where, needed
  <1>6. proof.targets = where
    <2>1. ASSUME NEW i \in 1..Len(targets) PROVE proof.targets[i] = where[i]
      <3>1. where[i] \in T
        BY <1>5 DEF Lists
      <3> QED
        BY <1>4, <1>5, <3>1, FirstRowPlace
    <2> DEFINE given == proof.targets
    <2>2. IsList(where) /\ Len(where) = Len(targets)
      BY <1>5 DEF Lists
    <2>3. IsList(given) /\ Len(given) = Len(targets) /\ \A i \in 1..Len(targets) : given[i] = where[i]
      BY <1>5, <2>1
    <2> HIDE DEF given
    <2>4. given = where
      BY <2>2, <2>3, ListEqual
    <2> QED
      BY <2>4 DEF given
  <1>7. /\ IsPlan(C \cup N, T \cup N, n) /\ T \cap N = {}
    BY <1>1, <1>2, ClimbIsPlan
  <1>8. T \in SUBSET Nat /\ N \in SUBSET Nat
    BY <1>1, <1>2, NeededPlaces
  <1> HIDE DEF C, N
  <1> DEFINE a == Zip2(where, Doubled(targets))
             b == Zip2(needed, Doubled(proof.hashes))
  <1>9. AreOldOf(Zip2(proof.targets, targets), a) /\ IsNodesAt(a, T, X)
    <2>1. IsList(where)
      BY <1>5 DEF Lists
    <2>2. /\ IsList(Doubled(targets)) /\ Len(Doubled(targets)) = Len(where)
          /\ \A i \in 1..Len(where) : <<where[i], Doubled(targets)[i].old>> \in X
      BY <1>3, <1>5, <2>1, ZippedOld
    <2>3. AreOldOf(Zip2(where, targets), Zip2(where, Doubled(targets)))
      BY <1>3, <1>5, <2>1, ZippedOld
    <2> QED
      BY <1>5, <1>6, <2>2, <2>3, ZippedNodes
  <1>10. AreOldOf(Zip2(needed, proof.hashes), b) /\ IsNodesAt(b, N, X)
    <2>1. IsList(needed)
      BY <1>5 DEF Lists
    <2>2. /\ IsList(Doubled(proof.hashes)) /\ Len(Doubled(proof.hashes)) = Len(needed)
          /\ \A i \in 1..Len(needed) : <<needed[i], Doubled(proof.hashes)[i].old>> \in X
      BY <1>5, <2>1, ZippedOld
    <2>3. AreOldOf(Zip2(needed, proof.hashes), Zip2(needed, Doubled(proof.hashes)))
      BY <1>5, <2>1, ZippedOld
    <2> QED
      BY <1>5, <2>2, <2>3, ZippedNodes
  <1> HIDE DEF a, b
  <1> DEFINE B == T \cup N
             full == a \o b
  <1>11. AreOldOf(raw, full) /\ IsNodesAt(full, B, X)
    BY <1>7, <1>9, <1>10, JoinedOld, JoinedNodes
  <1>12. B \in SUBSET Nat
    BY <1>8
  <1> HIDE DEF full, B, raw
  <1>13. /\ AreOldOf(s, nodes)
         /\ AreStrictlyRising(nodes)
         /\ \A k \in 1..Len(nodes) : nodes[k].pos \in B /\ InMap(X, nodes[k])
         /\ \A p \in B : HasAt(nodes, p)
    BY <1>11, <1>12, OldNodesInOrder
  <1> HIDE DEF nodes
  <1>14. IsGiven(nodes, C \cup N, B, X, rs, n)
    BY <1>2, <1>7, <1>13 DEF IsGiven, B
  <1>15. done = HashUp(s, n, ParentHash)
    OBVIOUS
  <1> HIDE DEF s, done
  <1>16. PICK v : ~ done.error /\ ReadsBack(v, done.roots, rs, Len(rs))
    BY <1>13, <1>14, <1>15, RootsReadBack
  <1> DEFINE calc == CalculateHashes(proof, targets, n)
  <1>17. calc.error = FALSE /\ calc.roots = done.roots
    <2> DEFINE Asked(x) == ~ \E i \in 1..Len(needed) : needed[i] = x.pos
               seen == SelectSeq(s \o done.parents, Asked)
    <2>1. calc = [error |-> FALSE, nodes |-> seen, roots |-> done.roots]
      BY <1>5, <1>16 DEF CalculateHashes, done, s, raw, needed
    <2> HIDE DEF seen, calc
    <2> QED
      BY <2>1
  <1> HIDE DEF calc
  <1>18. Len(MatchRoots(calc.roots, rs).left) = 0
    <2>1. IsList(rs)
      BY DEF IsGrown, IsForest
    <2> QED
      BY <1>16, <1>17, <2>1, AllAreRead
  <1> DEFINE last == MatchRoots(calc.roots, rs)
  <1>19. Verify(proof, targets, rs, n) =
             CASE proof.targets = <<>> -> "valid"
               [] calc.error -> "error"
               [] OTHER -> IF Len(last.left) # last.matched /\ Len(last.left) # 0 THEN "invalid" ELSE "valid"
    BY DEF Verify, calc
  <1> HIDE DEF last
  <1>20. Len(last.left) = 0
    BY <1>18 DEF last
  <1> QED
    BY <1>17, <1>19, <1>20

-----------------------------------------------------------------------------
LEMMA FollowsVerifies == ASSUME FollowInv PROVE FirstRowVerifies
  <1> DEFINE X == NodesOf(roots, leaves)
             first == {h \in Members(roots) : PositionIn(X, h) < leaves}
             List(a, b) == IF a = b THEN <<a>> ELSE <<a, b>>
  <1>1. IsForestOf(roots, leaves) /\ stump = [leaves |-> leaves, roots |-> roots]
    BY DEF FollowInv, NodeInv, StumpFollowsForest
  <1>2. leaves \in Nat /\ leaves <= 2^MaxForestRows /\ IsGrown(roots, leaves)
    BY <1>1, BoundsGiveRoom DEF IsForestOf
  <1>3. stump.leaves = leaves /\ stump.roots = roots
    BY <1>1
  <1>4. ASSUME NEW a \in first, NEW b \in first PROVE Verifies(List(a, b))
    <2> DEFINE D == {a, b}
               s == List(a, b)
    <2>1. D \in SUBSET Members(roots)
      OBVIOUS
    <2>2. AreInFirstRow(D, NodesOf(roots, leaves), leaves)
      BY DEF AreInFirstRow
    <2>3. Lists(s, D)
      <3>1. CASE a = b
        <4>1. s = <<a>> /\ D = {a} /\ <<a>> \in Seq({a}) /\ Len(<<a>>) = 1 /\ <<a>>[1] = a
          BY <3>1
        <4>2. IsList(<<a>>)
          BY <4>1, ListOf
        <4> QED
          BY <4>1, <4>2 DEF Lists
      <3>2. CASE a # b
        <4> DEFINE t == <<a, b>>
        <4>1. s = t /\ t \in Seq(D) /\ Len(t) = 2 /\ t[1] = a /\ t[2] = b
          BY <3>2
        <4>2. IsList(t)
          BY <4>1, ListOf
        <4>3. \A i \in 1..2 : i = 1 \/ i = 2
          OBVIOUS
        <4> HIDE DEF t, s
        <4> QED
          BY <3>2, <4>1, <4>2, <4>3 DEF Lists
      <3> QED
        BY <3>1, <3>2
    <2> HIDE DEF s, D, first
    <2>4. Verify(ProofOf(roots, leaves, s), s, roots, leaves) = "valid"
      BY <1>2, <2>1, <2>2, <2>3, VerifyAccepts
    <2> QED
      BY <1>3, <2>4 DEF Verifies, StumpVerify, s
  <1>5. FirstRowVerifies <=> \A a, b \in first : Verifies(List(a, b))
    BY DEF FirstRowVerifies
  <1> HIDE DEF first, List
  <1> QED
    BY <1>4, <1>5

(***************************************************************************)
(* verify accepts the forest's own proof of one leaf or two that no        *)
(* deletion has moved up from the first row, at any time and however big   *)
(* the forest is.  (Of others it does not: VerifyIsComplete is refuted.)   *)
(***************************************************************************)
THEOREM FirstRowProofsVerify == Spec => []FirstRowVerifies
  <1>1. Init => FollowInv
    BY InitFollows
  <1>2. FollowInv /\ [Next]_vars => FollowInv'
    BY FollowsOn
  <1>3. FollowInv => FirstRowVerifies
    BY FollowsVerifies
  <1> QED
    BY <1>1, <1>2, <1>3, PTL DEF Spec
=============================================================================
