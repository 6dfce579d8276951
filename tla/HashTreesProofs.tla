-------------------------- MODULE HashTreesProofs --------------------------
(***************************************************************************)
(* What the operators of HashTrees compute: the recursive definitions have *)
(* solutions, deleting leaves touches only the trees they are in, and a    *)
(* tree joins a forest one merge at a time.                                *)
(***************************************************************************)
EXTENDS HashTrees, Induction, SequenceTheorems

Pairs(S) == S \X S

\* The equation that defines TreesUpTo has a solution.
LEMMA TreesUpToExists ==
    \E f : f = [h \in Nat |-> {Empty} \cup LeafTrees \cup (IF h = 0 THEN {} ELSE Pairs(f[h - 1]))]
  <1> DEFINE Rhs(g, n) == {Empty} \cup LeafTrees \cup (IF n = 0 THEN {} ELSE Pairs(g[n - 1]))
             Sat(g, n) == \A m \in Nat : m <= n => g[m] = Rhs(g, m)
  <1>1. ASSUME NEW g, NEW h, NEW n \in Nat, \A m \in Nat : m < n => g[m] = h[m]
        PROVE  Rhs(g, n) = Rhs(h, n)
    <2>1. CASE n = 0
      BY <2>1
    <2>2. CASE n # 0
      <3>1. n - 1 \in Nat /\ n - 1 < n
        BY <2>2
      <3>2. g[n - 1] = h[n - 1]
        BY <3>1, <1>1
      <3> QED
        BY <3>2
    <2> QED
      BY <2>1, <2>2
  <1> HIDE DEF Rhs
  <1>2. ASSUME NEW n \in Nat, NEW h, \A m \in Nat : m < n => h[m] = Rhs(h, m)
        PROVE  \E g : Sat(g, n)
    <2> DEFINE g == [m \in Nat |-> Rhs(h, m)]
    <2>1. \A m \in Nat : m < n => g[m] = h[m]
      BY <1>2
    <2>2. ASSUME NEW m \in Nat, m <= n PROVE g[m] = Rhs(g, m)
      <3>1. \A k \in Nat : k < m => g[k] = h[k]
        BY <2>1, <2>2
      <3>2. Rhs(g, m) = Rhs(h, m)
        <4> HIDE DEF g
        <4> QED
          BY <1>1, <3>1
      <3> QED
        BY <3>2
    <2> HIDE DEF g
    <2> QED
      BY <2>2
  <1>3. \A n \in Nat : \E g : Sat(g, n)
    <2> DEFINE S == {n \in Nat : \E g : Sat(g, n)}
    <2>1. ASSUME NEW n \in Nat, \A m \in Nat : m < n => m \in S PROVE n \in S
      <3>1. \E h : \A m \in Nat : m < n => h[m] = Rhs(h, m)
        <4>1. CASE n = 0
          BY <4>1
        <4>2. CASE n # 0
          <5>1. n - 1 \in Nat /\ n - 1 < n /\ \A m \in Nat : m < n => m <= n - 1
            BY <4>2
          <5>2. PICK h : Sat(h, n - 1)
            BY <5>1, <2>1
          <5> QED
            BY <5>1, <5>2
        <4> QED
          BY <4>1, <4>2
      <3>2. \E g : Sat(g, n)
        <4> HIDE DEF Sat
        <4> QED
          BY <3>1, <1>2
      <3> QED
        BY <3>2
    <2> HIDE DEF S
    <2>2. Nat \subseteq S
      BY <2>1, StrongInductionOn
    <2> QED
      BY <2>2 DEF S
  <1>4. ASSUME NEW n \in Nat, NEW g, NEW h, Sat(g, n), Sat(h, n)
        PROVE  \A m \in Nat : m <= n => g[m] = h[m]
    <2> DEFINE S == {m \in Nat : m <= n => g[m] = h[m]}
    <2>1. ASSUME NEW m \in Nat, \A k \in Nat : k < m => k \in S PROVE m \in S
      <3> SUFFICES ASSUME m <= n PROVE g[m] = h[m]
        OBVIOUS
      <3>1. \A k \in Nat : k < m => g[k] = h[k]
        BY <2>1
      <3>2. Rhs(g, m) = Rhs(h, m)
        BY <1>1, <3>1
      <3> QED
        BY <3>2, <1>4
    <2>2. Nat \subseteq S
      <3> HIDE DEF S
      <3> QED
        BY <2>1, StrongInductionOn
    <2> QED
      BY <2>2
  <1> DEFINE One(n) == CHOOSE g : Sat(g, n)
             f      == [n \in Nat |-> One(n)[n]]
  <1>5. \A n \in Nat : Sat(One(n), n)
    <2> HIDE DEF Sat
    <2> QED
      BY <1>3
  <1>6. ASSUME NEW n \in Nat PROVE f[n] = Rhs(f, n)
    <2>1. ASSUME NEW m \in Nat, m < n PROVE f[m] = One(n)[m]
      <3>1. Sat(One(n), m)
        <4> HIDE DEF One
        <4> QED
          BY <1>5, <2>1
      <3>2. Sat(One(m), m)
        BY <1>5
      <3>3. One(m)[m] = One(n)[m]
        <4> HIDE DEF Sat, One
        <4>1. \A k \in Nat : k <= m => One(m)[k] = One(n)[k]
          BY <3>1, <3>2, <1>4
        <4> QED
          BY <4>1
      <3> QED
        BY <3>3
    <2>2. f[n] = One(n)[n]
      OBVIOUS
    <2>3. One(n)[n] = Rhs(One(n), n)
      <3> HIDE DEF One
      <3> QED
        BY <1>5
    <2> HIDE DEF f, One, Sat
    <2>4. Rhs(f, n) = Rhs(One(n), n)
      BY <1>1, <2>1
    <2> QED
      BY <2>2, <2>3, <2>4
  <1>7. f = [n \in Nat |-> f[n]]
    OBVIOUS
  <1> HIDE DEF f
  <1>8. f = [n \in Nat |-> Rhs(f, n)]
    BY <1>6, <1>7
  <1> QED
    BY <1>8 DEF Rhs

\* The trees of height up to 0 are the leaves and the empty tree, the others
\* are those and the pairs of trees that are one lower.
LEMMA TreesUpToEquation ==
    \A h \in Nat : TreesUpTo[h] = {Empty} \cup LeafTrees \cup
                                  (IF h = 0 THEN {} ELSE Pairs(TreesUpTo[h - 1]))
  <1> DEFINE IsOne(f) ==
                 f = [h \in Nat |-> {Empty} \cup LeafTrees \cup
                                    (IF h = 0 THEN {} ELSE Pairs(f[h - 1]))]
  <1>1. TreesUpTo = CHOOSE f : IsOne(f)
    BY DEF TreesUpTo, Pairs
  <1>2. \E f : IsOne(f)
    BY TreesUpToExists
  <1> HIDE DEF IsOne
  <1>3. IsOne(TreesUpTo)
    BY <1>1, <1>2
  <1> HIDE DEF IsOne
  <1> QED
    BY <1>3 DEF IsOne

-----------------------------------------------------------------------------
\* A tree is empty, a leaf, or a pair of lower trees.
LEMMA TreeKinds ==
    ASSUME NEW h \in Nat, NEW t \in TreesUpTo[h]
    PROVE  \/ t = Empty /\ ~ IsBranchHash(t) /\ ~ IsLeafHash(t)
           \/ t \in LeafTrees /\ t # Empty /\ ~ IsBranchHash(t) /\ IsLeafHash(t)
           \/ /\ h > 0 /\ t # Empty /\ IsBranchHash(t) /\ ~ IsLeafHash(t)
              /\ t = ParentHash(t[1], t[2])
              /\ t[1] \in TreesUpTo[h - 1] /\ t[2] \in TreesUpTo[h - 1]
  <1>1. CASE t = Empty
    BY <1>1 DEF Empty, IsBranchHash, IsLeafHash
  <1>2. CASE t \in LeafTrees
    <2>1. t \in Seq(Nat) /\ Len(t) = 1
      <3>1. t = [i \in 1..1 |-> t[i]] /\ \A i \in 1..1 : t[i] \in Nat
        BY <1>2 DEF LeafTrees
      <3> HIDE <1>2
      <3> QED
        BY <3>1, LenProperties
    <2>2. Len(<<>>) = 0
      OBVIOUS
    <2> QED
      BY <2>1, <2>2, <1>2 DEF Empty, IsBranchHash, IsLeafHash
  <1>3. CASE h > 0 /\ t \in Pairs(TreesUpTo[h - 1])
    <2>1. PICK l \in TreesUpTo[h - 1], r \in TreesUpTo[h - 1] : t = <<l, r>>
      BY <1>3 DEF Pairs
    <2> QED
      BY <2>1, <1>3 DEF Empty, IsBranchHash, IsLeafHash, ParentHash
  <1> QED
    BY <1>1, <1>2, <1>3, TreesUpToEquation

\* The empty tree and the leaves are of every height.
LEMMA LowTrees ==
    ASSUME NEW h \in Nat
    PROVE  Empty \in TreesUpTo[h] /\ \A i \in Nat : LeafHash(i) \in TreesUpTo[h] /\ LeafHash(i) \in LeafTrees
  <1>1. \A i \in Nat : LeafHash(i) \in LeafTrees
    BY DEF LeafHash, LeafTrees
  <1> QED
    BY <1>1, TreesUpToEquation

\* A pair is one higher than its halves.
LEMMA PairTree ==
    ASSUME NEW h \in Nat, NEW l \in TreesUpTo[h], NEW r \in TreesUpTo[h]
    PROVE  ParentHash(l, r) \in TreesUpTo[h + 1]
  <1>1. ParentHash(l, r) \in Pairs(TreesUpTo[h])
    BY DEF ParentHash, Pairs
  <1>2. h + 1 \in Nat /\ h + 1 # 0 /\ (h + 1) - 1 = h
    OBVIOUS
  <1> QED
    BY <1>1, <1>2, TreesUpToEquation

LEMMA TreesGrowByOne == \A h \in Nat : TreesUpTo[h] \subseteq TreesUpTo[h + 1]
  <1> DEFINE S == {h \in Nat : TreesUpTo[h] \subseteq TreesUpTo[h + 1]}
  <1>1. ASSUME NEW h \in Nat, h = 0 \/ h - 1 \in S PROVE h \in S
    <2> SUFFICES ASSUME NEW t \in TreesUpTo[h] PROVE t \in TreesUpTo[h + 1]
      OBVIOUS
    <2>1. CASE t \in {Empty} \cup LeafTrees
      BY <2>1, TreesUpToEquation
    <2>2. CASE IsBranchHash(t)
      <3>1. /\ h > 0
            /\ t = ParentHash(t[1], t[2])
            /\ t[1] \in TreesUpTo[h - 1] /\ t[2] \in TreesUpTo[h - 1]
        BY <2>2, TreeKinds
      <3>2. h # 0 /\ (h - 1) + 1 = h
        BY <3>1
      <3>3. t[1] \in TreesUpTo[h] /\ t[2] \in TreesUpTo[h]
        BY <3>1, <3>2, <1>1
      <3> QED
        BY <3>1, <3>3, PairTree
    <2> QED
      BY <2>1, <2>2, TreeKinds
  <1>2. 0 \in S
    BY <1>1
  <1>3. ASSUME NEW h \in Nat, h \in S PROVE h + 1 \in S
    <2>1. h + 1 \in Nat /\ (h + 1) - 1 = h
      OBVIOUS
    <2> HIDE DEF S
    <2> QED
      BY <1>1, <1>3, <2>1
  <1>4. Nat \subseteq S
    <2> HIDE DEF S
    <2> QED
      BY <1>2, <1>3, NatInductionOn
  <1> QED
    BY <1>4

\* A tree that is not too high for h is not too high for a greater k.
LEMMA TreesGrow ==
    ASSUME NEW h \in Nat, NEW k \in Nat, h <= k PROVE TreesUpTo[h] \subseteq TreesUpTo[k]
  <1> DEFINE S == {d \in Nat : TreesUpTo[h] \subseteq TreesUpTo[h + d]}
  <1>1. 0 \in S
    OBVIOUS
  <1>2. ASSUME NEW d \in Nat, d \in S PROVE d + 1 \in S
    <2>1. h + d \in Nat /\ (h + d) + 1 = h + (d + 1)
      OBVIOUS
    <2>2. TreesUpTo[h + d] \subseteq TreesUpTo[h + (d + 1)]
      BY <2>1, TreesGrowByOne
    <2> QED
      BY <2>2, <1>2
  <1>3. Nat \subseteq S
    <2> HIDE DEF S
    <2> QED
      BY <1>1, <1>2, NatInductionOn
  <1>4. k - h \in Nat /\ h + (k - h) = k
    OBVIOUS
  <1>5. k - h \in S
    <2> HIDE DEF S
    <2> QED
      BY <1>3, <1>4
  <1> QED
    BY <1>4, <1>5

\* The height of a tree, as the halves of a pair are lower than the pair.
Height == [t \in Trees |-> CHOOSE h \in 0..MaxHeight :
                               /\ t \in TreesUpTo[h]
                               /\ \A k \in 0..MaxHeight : t \in TreesUpTo[k] => h <= k]

LEMMA HeightFacts ==
    /\ Height \in [Trees -> 0..MaxHeight]
    /\ \A t \in Trees : t \in TreesUpTo[Height[t]]
    /\ \A t \in Trees : \A k \in 0..MaxHeight : t \in TreesUpTo[k] => Height[t] <= k
  <1> DEFINE IsHeight(h, t) == /\ t \in TreesUpTo[h]
                               /\ \A k \in 0..MaxHeight : t \in TreesUpTo[k] => h <= k
  <1>1. ASSUME NEW t \in Trees PROVE \E h \in 0..MaxHeight : IsHeight(h, t)
    <2> DEFINE S == {h \in 0..MaxHeight : t \in TreesUpTo[h]}
    <2>1. S \subseteq Nat /\ S # {}
      BY MaxHeightAssumption DEF Trees
    <2>2. PICK m \in S : \A n \in S : m <= n
      <3> HIDE DEF S
      <3> QED
        BY <2>1, LeastNumber
    <2> QED
      BY <2>2
  <1>2. Height = [t \in Trees |-> CHOOSE h \in 0..MaxHeight : IsHeight(h, t)]
    BY DEF Height
  <1> HIDE DEF IsHeight
  <1>3. \A t \in Trees : Height[t] \in 0..MaxHeight /\ IsHeight(Height[t], t)
    BY <1>1, <1>2
  <1>4. Height \in [Trees -> 0..MaxHeight]
    BY <1>2, <1>3
  <1> QED
    BY <1>3, <1>4 DEF IsHeight

\* The halves of a pair are trees, and lower.
LEMMA Halves ==
    ASSUME NEW t \in Trees, IsBranchHash(t)
    PROVE  /\ t = ParentHash(t[1], t[2])
           /\ t[1] \in Trees /\ Height[t[1]] < Height[t]
           /\ t[2] \in Trees /\ Height[t[2]] < Height[t]
  <1> DEFINE h == Height[t]
  <1>1. h \in 0..MaxHeight /\ h \in Nat /\ t \in TreesUpTo[h]
    BY HeightFacts, MaxHeightAssumption
  <1> HIDE DEF h
  <1>2. h > 0 /\ t = ParentHash(t[1], t[2]) /\ t[1] \in TreesUpTo[h - 1] /\ t[2] \in TreesUpTo[h - 1]
    BY <1>1, TreeKinds
  <1>3. h - 1 \in Nat /\ h - 1 <= MaxHeight /\ h - 1 \in 0..MaxHeight
    BY <1>1, <1>2, MaxHeightAssumption
  <1>4. t[1] \in Trees /\ t[2] \in Trees
    BY <1>2, <1>3, TreesGrow, MaxHeightAssumption DEF Trees
  <1>5. Height[t[1]] <= h - 1 /\ Height[t[2]] <= h - 1
    BY <1>2, <1>3, <1>4, HeightFacts
  <1>6. Height[t[1]] \in 0..MaxHeight /\ Height[t[2]] \in 0..MaxHeight
    BY <1>4, HeightFacts
  <1>7. Height[t[1]] < h /\ Height[t[2]] < h
    BY <1>1, <1>5, <1>6, MaxHeightAssumption
  <1> QED
    BY <1>2, <1>4, <1>7 DEF h

-----------------------------------------------------------------------------
NoPair == {t \in Trees : ~ IsBranchHash(t)}

FirstHalf  == [t \in Trees |-> t[1]]
SecondHalf == [t \in Trees |-> t[2]]

\* Recursion over the halves of a pair ends at the leaves.
LEMMA HalvesDescend ==
    /\ Descends(Trees, Height, NoPair, FirstHalf)
    /\ Descends(Trees, Height, NoPair, SecondHalf)
  <1>1. Height \in [Trees -> Nat]
    BY HeightFacts, MaxHeightAssumption
  <1>2. ASSUME NEW t \in Trees \ NoPair
        PROVE  /\ FirstHalf[t] \in Trees /\ Height[FirstHalf[t]] < Height[t]
               /\ SecondHalf[t] \in Trees /\ Height[SecondHalf[t]] < Height[t]
    BY Halves DEF NoPair, FirstHalf, SecondHalf
  <1> QED
    BY <1>1, <1>2 DEF Descends

\* The leaves of a tree are the leaves of its halves.
LEMMA LeafSetsEquation ==
    \A t \in Trees : LeafSets[t] = IF IsLeafHash(t) THEN {t}
                                   ELSE IF IsBranchHash(t) THEN LeafSets[t[1]] \cup LeafSets[t[2]]
                                   ELSE {}
  <1> DEFINE Rhs(f) == [t \in Trees |-> IF IsLeafHash(t) THEN {t}
                                        ELSE IF IsBranchHash(t) THEN f[t[1]] \cup f[t[2]]
                                        ELSE {}]
             z    == [t \in Trees |-> IF IsLeafHash(t) THEN {t} ELSE {}]
             step == [t \in Trees |-> [x \in SUBSET LeafTrees |-> [y \in SUBSET LeafTrees |-> x \cup y]]]
             V    == [t \in Trees |-> SUBSET LeafTrees]
  <1>1. ASSUME NEW t \in Trees
        PROVE  /\ IsLeafHash(t) => t \in LeafTrees /\ ~ IsBranchHash(t)
               /\ IsBranchHash(t) => t[1] \in Trees /\ t[2] \in Trees
    BY TreeKinds, Halves, MaxHeightAssumption DEF Trees
  <1>2. ValuesIn(V, Trees, NoPair, z, FirstHalf, SecondHalf, step)
    <2>1. ASSUME NEW t \in Trees, t \in NoPair PROVE z[t] \in V[t]
      BY <1>1, <2>1
    <2>2. ASSUME NEW t \in Trees \ NoPair, NEW x \in V[FirstHalf[t]], NEW y \in V[SecondHalf[t]]
          PROVE step[t][x][y] \in V[t]
      <3>1. FirstHalf[t] \in Trees /\ SecondHalf[t] \in Trees
        BY HalvesDescend DEF Descends
      <3> QED
        BY <3>1
    <2> HIDE DEF z, step, V
    <2> QED
      BY <2>1, <2>2 DEF ValuesIn
  <1>3. PICK f : /\ f = [t \in Trees |-> f[t]]
                 /\ \A t \in Trees : f[t] \in V[t]
                 /\ Solves(f, Trees, NoPair, z, FirstHalf, SecondHalf, step)
    <2> HIDE DEF z, step, V
    <2> QED
      BY <1>2, HalvesDescend, RecursionExists
  <1>4. ASSUME NEW t \in Trees PROVE f[t] = Rhs(f)[t]
    <2>1. CASE IsBranchHash(t)
      <3>1. t[1] \in Trees /\ t[2] \in Trees /\ ~ IsLeafHash(t)
        BY <1>1, <2>1
      <3>2. f[t[1]] \in SUBSET LeafTrees /\ f[t[2]] \in SUBSET LeafTrees
        BY <1>3, <3>1
      <3>3. f[t] = step[t][f[t[1]]][f[t[2]]]
        BY <1>3, <2>1 DEF Solves, NoPair, FirstHalf, SecondHalf
      <3> QED
        BY <2>1, <3>1, <3>2, <3>3
    <2>2. CASE ~ IsBranchHash(t)
      <3>1. f[t] = z[t]
        BY <1>3, <2>2 DEF Solves, NoPair
      <3> QED
        BY <2>2, <3>1
    <2> QED
      BY <2>1, <2>2
  <1> DEFINE IsOne(g) == g = Rhs(g)
  <1>5. IsOne(f)
    <2> HIDE DEF z, step, V
    <2> QED
      BY <1>3, <1>4
  <1>6. LeafSets = CHOOSE g : IsOne(g)
    BY DEF LeafSets
  <1> HIDE DEF IsOne
  <1>7. IsOne(LeafSets)
    BY <1>5, <1>6
  <1> QED
    BY <1>7 DEF IsOne

\* Joining two trees adds at most one to the height of the higher one.
LEMMA JoinedTree ==
    ASSUME NEW h \in Nat, NEW l \in TreesUpTo[h], NEW r \in TreesUpTo[h]
    PROVE  Joined(l, r) \in TreesUpTo[h + 1]
  BY PairTree, TreesGrowByOne DEF Joined

\* Deleting leaves from a pair deletes them from both halves, and what is
\* left of the one takes the pair's place when nothing is left of the other.
LEMMA WithoutEquation ==
    ASSUME NEW D, NEW t \in Trees
    PROVE  Without(t, D) = IF IsBranchHash(t) THEN Joined(Without(t[1], D), Without(t[2], D))
                           ELSE IF t \in D THEN Empty ELSE t
  <1> DEFINE Rhs(f) == [u \in Trees |-> IF IsBranchHash(u) THEN Joined(f[u[1]], f[u[2]])
                                        ELSE IF u \in D THEN Empty ELSE u]
             z    == [u \in Trees |-> IF u \in D THEN Empty ELSE u]
             V    == [u \in Trees |-> TreesUpTo[Height[u]]]
             step == [u \in Trees |-> [x \in V[FirstHalf[u]] |-> [y \in V[SecondHalf[u]] |-> Joined(x, y)]]]
  <1>1. \A u \in Trees : Height[u] \in Nat
    BY HeightFacts, MaxHeightAssumption
  <1>2. ValuesIn(V, Trees, NoPair, z, FirstHalf, SecondHalf, step)
    <2>1. ASSUME NEW u \in Trees, u \in NoPair PROVE z[u] \in V[u]
      BY <1>1, HeightFacts, LowTrees
    <2>2. ASSUME NEW u \in Trees \ NoPair, NEW x \in V[FirstHalf[u]], NEW y \in V[SecondHalf[u]]
          PROVE step[u][x][y] \in V[u]
      <3> DEFINE l == FirstHalf[u]
                 r == SecondHalf[u]
                 h == Height[u]
      <3>1. l \in Trees /\ r \in Trees /\ Height[l] < h /\ Height[r] < h
        BY HalvesDescend DEF Descends
      <3>2. Height[l] \in Nat /\ Height[r] \in Nat /\ h \in Nat
        BY <1>1, <3>1
      <3>3. x \in TreesUpTo[Height[l]] /\ y \in TreesUpTo[Height[r]]
        BY <3>1
      <3>4. step[u][x][y] = Joined(x, y)
        OBVIOUS
      <3>5. V[u] = TreesUpTo[h]
        OBVIOUS
      <3> HIDE DEF l, r, h, V, step
      <3>6. h - 1 \in Nat /\ Height[l] <= h - 1 /\ Height[r] <= h - 1 /\ (h - 1) + 1 = h
        BY <3>1, <3>2
      <3>7. x \in TreesUpTo[h - 1] /\ y \in TreesUpTo[h - 1]
        BY <3>2, <3>3, <3>6, TreesGrow
      <3>8. Joined(x, y) \in TreesUpTo[h]
        BY <3>6, <3>7, JoinedTree
      <3> QED
        BY <3>4, <3>5, <3>8
    <2> HIDE DEF z, step, V
    <2> QED
      BY <2>1, <2>2 DEF ValuesIn
  <1>3. PICK f : /\ f = [u \in Trees |-> f[u]]
                 /\ \A u \in Trees : f[u] \in V[u]
                 /\ Solves(f, Trees, NoPair, z, FirstHalf, SecondHalf, step)
    <2> HIDE DEF z, step, V
    <2> QED
      BY <1>2, HalvesDescend, RecursionExists
  <1>4. ASSUME NEW u \in Trees PROVE f[u] = Rhs(f)[u]
    <2>1. CASE IsBranchHash(u)
      <3>1. FirstHalf[u] = u[1] /\ SecondHalf[u] = u[2] /\ u[1] \in Trees /\ u[2] \in Trees
        BY Halves, <2>1 DEF FirstHalf, SecondHalf
      <3>2. f[u[1]] \in V[FirstHalf[u]] /\ f[u[2]] \in V[SecondHalf[u]]
        <4> HIDE DEF V, z, step
        <4> QED
          BY <1>3, <3>1
      <3>3. f[u] = step[u][f[u[1]]][f[u[2]]]
        <4> HIDE DEF V, z, step
        <4> QED
          BY <1>3, <2>1, <3>1 DEF Solves, NoPair
      <3>4. step[u][f[u[1]]][f[u[2]]] = Joined(f[u[1]], f[u[2]])
        <4> HIDE DEF V
        <4> QED
          BY <3>2
      <3> QED
        BY <2>1, <3>3, <3>4
    <2>2. CASE ~ IsBranchHash(u)
      <3>1. f[u] = z[u]
        <4> HIDE DEF V, z, step
        <4> QED
          BY <1>3, <2>2 DEF Solves, NoPair
      <3> QED
        BY <2>2, <3>1
    <2> QED
      BY <2>1, <2>2
  <1> DEFINE IsOne(g) == g = Rhs(g)
             w == CHOOSE g : IsOne(g)
  <1>5. IsOne(f)
    <2> HIDE DEF z, step, V
    <2> QED
      BY <1>3, <1>4
  <1>6. \A u : Without(u, D) = w[u]
    BY DEF Without
  <1> HIDE DEF IsOne
  <1>7. IsOne(w)
    BY <1>5
  <1> HIDE DEF w
  <1>8. w[t] = IF IsBranchHash(t) THEN Joined(w[t[1]], w[t[2]]) ELSE IF t \in D THEN Empty ELSE t
    BY <1>7 DEF IsOne
  <1> QED
    BY <1>6, <1>8

\* The same for a pair that is given by its halves.
LEMMA PairFacts ==
    ASSUME NEW D, NEW l, NEW r, ParentHash(l, r) \in Trees
    PROVE  /\ Without(ParentHash(l, r), D) = Joined(Without(l, D), Without(r, D))
           /\ LeafSets[ParentHash(l, r)] = LeafSets[l] \cup LeafSets[r]
  <1> DEFINE t == ParentHash(l, r)
  <1>1. IsBranchHash(t) /\ ~ IsLeafHash(t) /\ t[1] = l /\ t[2] = r
    BY DEF ParentHash, IsBranchHash, IsLeafHash
  <1>2. t \in Trees
    OBVIOUS
  <1> HIDE DEF t
  <1>3. /\ Without(t, D) = Joined(Without(t[1], D), Without(t[2], D))
        /\ LeafSets[t] = LeafSets[t[1]] \cup LeafSets[t[2]]
    BY <1>1, <1>2, WithoutEquation, LeafSetsEquation
  <1> QED
    BY <1>1, <1>3 DEF t

\* The empty tree has no leaves, and a leaf has one.
LEMMA LowFacts ==
    ASSUME NEW D
    PROVE  /\ Empty \in Trees /\ LeafSets[Empty] = {}
           /\ Without(Empty, D) = Empty
           /\ \A t \in LeafTrees : /\ t \in Trees
                                   /\ LeafSets[t] = {t}
                                   /\ Without(t, D) = IF t \in D THEN Empty ELSE t
  <1>1. Empty \in Trees /\ ~ IsBranchHash(Empty) /\ ~ IsLeafHash(Empty)
    BY LowTrees, TreeKinds, MaxHeightAssumption DEF Trees, Empty, IsBranchHash, IsLeafHash
  <1>2. ASSUME NEW t \in LeafTrees PROVE t \in Trees /\ ~ IsBranchHash(t) /\ IsLeafHash(t)
    <2>1. t \in TreesUpTo[0] /\ t \in Trees
      BY TreesUpToEquation, MaxHeightAssumption DEF Trees
    <2>2. ~ (0 > 0) /\ 0 \in Nat
      OBVIOUS
    <2>3. t # Empty
      <3>1. t = [i \in 1..1 |-> t[i]] /\ \A i \in 1..1 : t[i] \in Nat
        BY DEF LeafTrees
      <3>2. t \in Seq(Nat) /\ Len(t) = 1
        BY <3>1, LenProperties
      <3>3. Len(<<>>) = 0
        OBVIOUS
      <3> QED
        BY <3>2, <3>3 DEF Empty
    <2> QED
      BY <2>1, <2>2, <2>3, TreeKinds
  <1> QED
    BY <1>1, <1>2, WithoutEquation, LeafSetsEquation

-----------------------------------------------------------------------------
\* The number of the lowest bits that are one, counted one at a time.
LEMMA TrailingOnesFacts ==
    \A n \in Nat : /\ TrailingOnes[n] \in Nat
                   /\ n % 2 = 0 => TrailingOnes[n] = 0
                   /\ n % 2 = 1 => n \div 2 \in Nat /\ TrailingOnes[n] = 1 + TrailingOnes[n \div 2]
  <1> DEFINE Rhs(f) == [n \in Nat |-> IF n % 2 = 0 THEN 0 ELSE 1 + f[n \div 2]]
             Even   == {n \in Nat : n % 2 = 0}
             rank   == [n \in Nat |-> n]
             z      == [n \in Nat |-> 0]
             b      == [n \in Nat |-> n \div 2]
             step   == [n \in Nat |-> [x \in Nat |-> 1 + x]]
             V      == [n \in Nat |-> Nat]
  <1>1. Descends(Nat, rank, Even, b)
    BY DEF Descends
  <1>2. LinearValuesIn(V, Nat, Even, z, b, step)
    BY DEF LinearValuesIn
  <1>3. PICK f : /\ f = [n \in Nat |-> f[n]]
                 /\ \A n \in Nat : f[n] \in V[n]
                 /\ LinearSolves(f, Nat, Even, z, b, step)
    <2> HIDE DEF rank, z, b, step, V, Even
    <2> QED
      BY <1>1, <1>2, LinearRecursionExists
  <1>4. \A n \in Nat : f[n] = IF n % 2 = 0 THEN 0 ELSE 1 + f[n \div 2]
    <2>1. \A n \in Nat : n \div 2 \in Nat /\ f[n \div 2] \in Nat
      BY <1>3
    <2> QED
      BY <1>3, <2>1 DEF LinearSolves
  <1> DEFINE IsOne(g) == g = Rhs(g)
  <1>5. IsOne(f)
    <2> HIDE DEF rank, z, b, step, V, Even
    <2> QED
      BY <1>3, <1>4
  <1>6. TrailingOnes = CHOOSE g : IsOne(g)
    BY DEF TrailingOnes
  <1> HIDE DEF IsOne
  <1>7. IsOne(TrailingOnes)
    BY <1>5, <1>6
  <1>8. \A n \in Nat : TrailingOnes[n] = IF n % 2 = 0 THEN 0 ELSE 1 + TrailingOnes[n \div 2]
    BY <1>7 DEF IsOne
  <1> DEFINE S == {n \in Nat : TrailingOnes[n] \in Nat}
  <1>9. ASSUME NEW n \in Nat, \A m \in Nat : m < n => m \in S PROVE n \in S
    <2>1. n % 2 # 0 => n \div 2 \in Nat /\ n \div 2 < n
      OBVIOUS
    <2>2. n % 2 # 0 => TrailingOnes[n \div 2] \in Nat
      BY <2>1, <1>9
    <2> QED
      BY <2>2, <1>8
  <1>10. Nat \subseteq S
    <2> HIDE DEF S
    <2> QED
      BY <1>9, StrongInductionOn
  <1>11. \A n \in Nat : n \div 2 \in Nat
    OBVIOUS
  <1> QED
    BY <1>8, <1>10, <1>11

\* What a tree t has become after it has merged with k trees of rs.
IsMerging(m, rs, t, n) ==
    m = [k \in 0..TrailingOnes[n] |-> IF k = 0 THEN t ELSE Joined(rs[Len(rs) - k + 1], m[k - 1])]

LEMMA JoinTreeMerges ==
    ASSUME NEW h \in Nat, NEW rs \in Seq(TreesUpTo[h]), NEW t \in TreesUpTo[h], NEW n \in Nat,
           TrailingOnes[n] <= Len(rs)
    PROVE  \E m : /\ IsMerging(m, rs, t, n)
                  /\ JoinTree(rs, t, n) =
                         Append(SubSeq(rs, 1, Len(rs) - TrailingOnes[n]), m[TrailingOnes[n]])
  <1> DEFINE ones == TrailingOnes[n]
             N    == 0..ones
             rank == [k \in N |-> k]
             z    == [k \in N |-> t]
             b    == [k \in N |-> k - 1]
             V    == [k \in N |-> TreesUpTo[h + k]]
             step == [k \in N |-> [x \in TreesUpTo[h + (k - 1)] |-> Joined(rs[Len(rs) - k + 1], x)]]
  <1>1. ones \in Nat /\ Len(rs) \in Nat /\ \A i \in 1..Len(rs) : rs[i] \in TreesUpTo[h]
    BY TrailingOnesFacts
  <1> HIDE DEF ones
  <1>2. Descends(N, rank, {0}, b)
    BY <1>1 DEF Descends
  <1>3. LinearValuesIn(V, N, {0}, z, b, step)
    <2>1. ASSUME NEW k \in N, k = 0 PROVE z[k] \in V[k]
      BY <2>1
    <2>2. ASSUME NEW k \in N \ {0}, NEW x \in V[b[k]] PROVE step[k][x] \in V[k]
      <3>1. k \in Nat /\ k - 1 \in Nat /\ k - 1 \in N /\ Len(rs) - k + 1 \in 1..Len(rs)
        BY <1>1 DEF ones
      <3>2. b[k] = k - 1 /\ V[b[k]] = TreesUpTo[h + (k - 1)]
        BY <3>1
      <3>3. step[k][x] = Joined(rs[Len(rs) - k + 1], x)
        BY <3>2
      <3>4. h + (k - 1) \in Nat /\ h <= h + (k - 1) /\ (h + (k - 1)) + 1 = h + k
        BY <3>1
      <3>5. rs[Len(rs) - k + 1] \in TreesUpTo[h + (k - 1)]
        BY <1>1, <3>1, <3>4, TreesGrow
      <3>6. Joined(rs[Len(rs) - k + 1], x) \in TreesUpTo[h + k]
        BY <3>2, <3>4, <3>5, JoinedTree
      <3> QED
        BY <3>3, <3>6
    <2> HIDE DEF z, b, step, V, N
    <2> QED
      BY <2>1, <2>2 DEF LinearValuesIn
  <1>4. PICK f : /\ f = [k \in N |-> f[k]]
                 /\ \A k \in N : f[k] \in V[k]
                 /\ LinearSolves(f, N, {0}, z, b, step)
    <2> HIDE DEF rank, z, b, step, V, N
    <2> QED
      BY <1>2, <1>3, LinearRecursionExists
  <1>5. ASSUME NEW k \in N PROVE f[k] = IF k = 0 THEN t ELSE Joined(rs[Len(rs) - k + 1], f[k - 1])
    <2>1. CASE k = 0
      BY <1>4, <2>1 DEF LinearSolves
    <2>2. CASE k # 0
      <3>1. k - 1 \in N /\ b[k] = k - 1
        BY <1>1, <2>2
      <3>2. f[k - 1] \in TreesUpTo[h + (k - 1)]
        BY <1>4, <3>1
      <3>3. f[k] = step[k][f[k - 1]]
        <4> HIDE DEF z, b, step, V, N
        <4> QED
          BY <1>4, <2>2, <3>1 DEF LinearSolves
      <3> QED
        BY <2>2, <3>2, <3>3
    <2> QED
      BY <2>1, <2>2
  <1> DEFINE m == CHOOSE g : IsMerging(g, rs, t, n)
  <1>6. IsMerging(f, rs, t, n)
    <2> HIDE DEF z, b, step, V
    <2> QED
      BY <1>4, <1>5 DEF IsMerging, ones
  <1>7. IsMerging(m, rs, t, n)
    BY <1>6
  <1>8. JoinTree(rs, t, n) = Append(SubSeq(rs, 1, Len(rs) - TrailingOnes[n]), m[TrailingOnes[n]])
    BY DEF JoinTree, IsMerging
  <1> QED
    BY <1>7, <1>8

\* The first k elements of a sequence.
LEMMA Prefix ==
    ASSUME NEW S, NEW s \in Seq(S), NEW k \in 0..Len(s)
    PROVE  /\ SubSeq(s, 1, k) \in Seq(S)
           /\ Len(SubSeq(s, 1, k)) = k
           /\ \A i \in 1..k : SubSeq(s, 1, k)[i] = s[i]
  <1> DEFINE p == SubSeq(s, 1, k)
  <1>1. k \in Nat /\ \A i \in 1..k : s[i] \in S
    OBVIOUS
  <1>2. /\ p \in Seq(S)
        /\ Len(p) = IF 1 <= k THEN k - 1 + 1 ELSE 0
        /\ \A i \in 1..(k - 1 + 1) : p[i] = s[1 + i - 1]
    BY <1>1, SubSeqProperties
  <1> HIDE DEF p
  <1>3. Len(p) = k
    BY <1>1, <1>2
  <1>4. \A i \in 1..k : p[i] = s[i]
    BY <1>1, <1>2
  <1> QED
    BY <1>2, <1>3, <1>4 DEF p

LEMMA PrefixOfPrefix ==
    ASSUME NEW S, NEW s \in Seq(S), NEW k \in 0..Len(s), NEW j \in 0..k
    PROVE  SubSeq(SubSeq(s, 1, k), 1, j) = SubSeq(s, 1, j)
  <1> DEFINE p == SubSeq(s, 1, k)
             q == SubSeq(p, 1, j)
             r == SubSeq(s, 1, j)
  <1>1. p \in Seq(S) /\ Len(p) = k /\ \A i \in 1..k : p[i] = s[i]
    BY Prefix
  <1>2. j \in 0..Len(s) /\ j \in 0..Len(p)
    BY <1>1
  <1>3. r \in Seq(S) /\ Len(r) = j /\ \A i \in 1..j : r[i] = s[i]
    BY <1>2, Prefix
  <1> HIDE DEF p
  <1>4. q \in Seq(S) /\ Len(q) = j /\ \A i \in 1..j : q[i] = p[i]
    BY <1>1, <1>2, Prefix
  <1> HIDE DEF q, r
  <1>5. \A i \in 1..Len(q) : q[i] = r[i]
    BY <1>1, <1>3, <1>4
  <1>6. q = r
    BY <1>3, <1>4, <1>5, SeqEqual
  <1> QED
    BY <1>6 DEF p, q, r

\* A tree that joins an even number of leaves is a new root.
LEMMA JoinTreeEven ==
    ASSUME NEW h \in Nat, NEW rs \in Seq(TreesUpTo[h]), NEW t \in TreesUpTo[h],
           NEW n \in Nat, n % 2 = 0
    PROVE  JoinTree(rs, t, n) = Append(rs, t)
  <1>1. TrailingOnes[n] = 0 /\ Len(rs) \in Nat /\ TrailingOnes[n] <= Len(rs)
    BY TrailingOnesFacts
  <1>2. PICK m : /\ IsMerging(m, rs, t, n)
                 /\ JoinTree(rs, t, n) = Append(SubSeq(rs, 1, Len(rs) - TrailingOnes[n]), m[TrailingOnes[n]])
    BY <1>1, JoinTreeMerges
  <1>3. m[0] = t
    BY <1>1, <1>2 DEF IsMerging
  <1>4. Len(rs) - 0 = Len(rs) /\ SubSeq(rs, 1, Len(rs)) = rs
    BY <1>1, SubSeqFull
  <1> QED
    BY <1>1, <1>2, <1>3, <1>4

\* A tree that joins an odd number of leaves merges with the last root, and
\* what they make joins half as many.
LEMMA JoinTreeOdd ==
    ASSUME NEW h \in Nat, NEW rs \in Seq(TreesUpTo[h]), NEW t \in TreesUpTo[h],
           NEW n \in Nat, n % 2 = 1, TrailingOnes[n] <= Len(rs)
    PROVE  /\ Len(rs) > 0
           /\ JoinTree(rs, t, n) =
                  JoinTree(SubSeq(rs, 1, Len(rs) - 1), Joined(rs[Len(rs)], t), n \div 2)
  <1> DEFINE last  == Len(rs)
             front == SubSeq(rs, 1, last - 1)
             both  == Joined(rs[last], t)
             half  == n \div 2
             ones  == TrailingOnes[half]
  <1>1. half \in Nat /\ ones \in Nat /\ TrailingOnes[n] = 1 + ones /\ last \in Nat
    BY TrailingOnesFacts
  <1>2. last > 0 /\ ones <= last - 1 /\ last - 1 \in 0..last /\ last \in 1..last
    BY <1>1
  <1>3. front \in Seq(TreesUpTo[h]) /\ Len(front) = last - 1 /\ \A i \in 1..(last - 1) : front[i] = rs[i]
    <2> HIDE DEF last
    <2> QED
      BY <1>2, Prefix DEF last
  <1>4. rs[last] \in TreesUpTo[h] /\ both \in TreesUpTo[h + 1]
    BY <1>2, JoinedTree
  <1>5. h + 1 \in Nat /\ TreesUpTo[h] \subseteq TreesUpTo[h + 1]
    BY TreesGrowByOne
  <1>6. front \in Seq(TreesUpTo[h + 1])
    BY <1>3, <1>5, SeqMonotonic
  <1>7. PICK m : /\ IsMerging(m, rs, t, n)
                 /\ JoinTree(rs, t, n) = Append(SubSeq(rs, 1, last - TrailingOnes[n]), m[TrailingOnes[n]])
    BY JoinTreeMerges
  <1> HIDE DEF front, both, half, ones
  <1>8. PICK p : /\ IsMerging(p, front, both, half)
                 /\ JoinTree(front, both, half) = Append(SubSeq(front, 1, Len(front) - ones), p[ones])
    BY <1>1, <1>2, <1>3, <1>4, <1>5, <1>6, JoinTreeMerges DEF ones
  <1>9. \A k \in 0..(1 + ones) : m[k] = IF k = 0 THEN t ELSE Joined(rs[last - k + 1], m[k - 1])
    BY <1>1, <1>7 DEF IsMerging
  <1>10. \A k \in 0..ones : p[k] = IF k = 0 THEN both ELSE Joined(front[Len(front) - k + 1], p[k - 1])
    BY <1>8 DEF IsMerging, ones
  <1> HIDE DEF last
  <1> DEFINE S == {k \in Nat : k <= ones => p[k] = m[k + 1]}
  <1>11. 0 \in S
    <2>1. p[0] = both
      BY <1>1, <1>10
    <2>2. m[0] = t
      BY <1>1, <1>9
    <2>3. m[1] = Joined(rs[last], m[0])
      <3>1. 1 \in 0..(1 + ones) /\ last - 1 + 1 = last
        BY <1>1
      <3>2. m[1] = Joined(rs[last - 1 + 1], m[1 - 1])
        BY <3>1, <1>9
      <3> QED
        BY <3>1, <3>2
    <2> QED
      BY <2>1, <2>2, <2>3 DEF both
  <1>12. ASSUME NEW k \in Nat, k \in S PROVE k + 1 \in S
    <2> SUFFICES ASSUME k + 1 <= ones PROVE p[k + 1] = m[k + 2]
      OBVIOUS
    <2>1. p[k] = m[k + 1]
      BY <1>1, <1>12
    <2>2. k + 1 \in 0..ones /\ k + 1 # 0 /\ (k + 1) - 1 = k
      BY <1>1
    <2>3. k + 2 \in 0..(1 + ones) /\ k + 2 # 0 /\ (k + 2) - 1 = k + 1
      BY <1>1
    <2>4. Len(front) - (k + 1) + 1 = last - (k + 2) + 1 /\ last - (k + 2) + 1 \in 1..(last - 1)
      BY <1>1, <1>2, <1>3
    <2>5. p[k + 1] = Joined(front[Len(front) - (k + 1) + 1], p[k])
      BY <2>2, <1>10
    <2>6. m[k + 2] = Joined(rs[last - (k + 2) + 1], m[k + 1])
      BY <2>3, <1>9
    <2>7. front[Len(front) - (k + 1) + 1] = rs[last - (k + 2) + 1]
      BY <2>4, <1>3
    <2> QED
      BY <2>1, <2>5, <2>6, <2>7
  <1>13. ones \in S
    <2> HIDE DEF S
    <2> QED
      BY <1>1, <1>11, <1>12, NatInductionOn
  <1>14. p[ones] = m[TrailingOnes[n]]
    <2>1. ones + 1 = 1 + ones
      BY <1>1
    <2> QED
      BY <1>1, <1>13, <2>1
  <1>15. SubSeq(front, 1, Len(front) - ones) = SubSeq(rs, 1, last - TrailingOnes[n])
    <2> DEFINE j == Len(front) - ones
               l == last - 1
    <2>1. j \in 0..l /\ l \in 0..Len(rs) /\ j = last - TrailingOnes[n]
      BY <1>1, <1>2, <1>3 DEF last
    <2>2. front = SubSeq(rs, 1, l)
      BY DEF front, last
    <2> HIDE DEF j, l
    <2>3. SubSeq(front, 1, j) = SubSeq(rs, 1, j)
      BY <2>1, <2>2, PrefixOfPrefix
    <2> QED
      BY <2>1, <2>3 DEF j
  <1>16. JoinTree(rs, t, n) = JoinTree(front, both, half)
    BY <1>7, <1>8, <1>14, <1>15
  <1> QED
    BY <1>2, <1>16 DEF front, both, half, last

\* Adding no leaf changes nothing, and adding one is one tree that joins.
LEMMA AdditionNone == ASSUME NEW rs, NEW n PROVE Addition(rs, n, 0) = rs
  <1> DEFINE IsOne(g) == g = [i \in 0..0 |-> IF i = 0 THEN rs
                                             ELSE JoinTree(g[i - 1], LeafHash(n + i), n + i - 1)]
             c == CHOOSE g : IsOne(g)
  <1>1. IsOne([i \in 0..0 |-> rs])
    OBVIOUS
  <1>2. Addition(rs, n, 0) = c[0]
    BY DEF Addition
  <1> HIDE DEF IsOne
  <1>3. IsOne(c)
    BY <1>1
  <1> HIDE DEF c
  <1> QED
    BY <1>2, <1>3 DEF IsOne

LEMMA AdditionOne ==
    ASSUME NEW rs, NEW n \in Nat
    PROVE  Addition(rs, n, 1) = JoinTree(rs, LeafHash(n + 1), n)
  <1> DEFINE new == JoinTree(rs, LeafHash(n + 1), n)
             IsOne(g) == g = [i \in 0..1 |-> IF i = 0 THEN rs
                                             ELSE JoinTree(g[i - 1], LeafHash(n + i), n + i - 1)]
             c == CHOOSE g : IsOne(g)
             one == [i \in 0..1 |-> IF i = 0 THEN rs ELSE new]
  <1>1. n + 1 - 1 = n
    OBVIOUS
  <1>2. \A i \in 0..1 : i # 0 => i = 1 /\ i - 1 = 0
    OBVIOUS
  <1>3. IsOne(one)
    <2>1. one[0] = rs
      OBVIOUS
    <2>2. \A i \in 0..1 : i # 0 => JoinTree(one[i - 1], LeafHash(n + i), n + i - 1) = new
      BY <1>1, <1>2, <2>1
    <2> HIDE DEF new
    <2>3. one = [i \in 0..1 |-> IF i = 0 THEN rs
                                ELSE JoinTree(one[i - 1], LeafHash(n + i), n + i - 1)]
      BY <2>2
    <2> QED
      BY <2>3
  <1>4. Addition(rs, n, 1) = c[1]
    BY DEF Addition
  <1> HIDE DEF IsOne, one
  <1>5. IsOne(c)
    BY <1>3
  <1> HIDE DEF c, new
  <1>6. c[0] = rs /\ c[1] = JoinTree(c[1 - 1], LeafHash(n + 1), n + 1 - 1)
    BY <1>5 DEF IsOne
  <1> QED
    BY <1>1, <1>4, <1>6
-----------------------------------------------------------------------------
\* The trees a forest is made of: the halves of a pair are not empty, and
\* have no leaf in common.
AreWhole(W) ==
    \A t \in W : IsBranchHash(t) => /\ t[1] # Empty /\ t[1] \in W
                                    /\ t[2] # Empty /\ t[2] \in W
                                    /\ LeafSets[t[1]] \cap LeafSets[t[2]] = {}

WholeTrees == UNION {W \in SUBSET Trees : AreWhole(W)}

LEMMA WholeTreesAreWhole == WholeTrees \subseteq Trees /\ AreWhole(WholeTrees)
  <1>1. WholeTrees \subseteq Trees
    BY DEF WholeTrees
  <1>2. ASSUME NEW t \in WholeTrees, IsBranchHash(t)
        PROVE  /\ t[1] # Empty /\ t[1] \in WholeTrees
               /\ t[2] # Empty /\ t[2] \in WholeTrees
               /\ LeafSets[t[1]] \cap LeafSets[t[2]] = {}
    <2>1. PICK W \in SUBSET Trees : AreWhole(W) /\ t \in W
      BY DEF WholeTrees
    <2>2. W \subseteq WholeTrees
      BY <2>1 DEF WholeTrees
    <2>3. /\ t[1] # Empty /\ t[1] \in W
          /\ t[2] # Empty /\ t[2] \in W
          /\ LeafSets[t[1]] \cap LeafSets[t[2]] = {}
      BY <2>1, <1>2 DEF AreWhole
    <2> QED
      BY <2>2, <2>3
  <1> QED
    BY <1>1, <1>2 DEF AreWhole

\* A leaf is not the empty tree.
LEMMA EmptyIsNoLeaf == \A x \in LeafTrees : x # Empty
  <1> SUFFICES ASSUME NEW x \in LeafTrees PROVE x # Empty
    OBVIOUS
  <1>1. x = [i \in 1..1 |-> x[i]] /\ \A i \in 1..1 : x[i] \in Nat
    BY DEF LeafTrees
  <1>2. x \in Seq(Nat) /\ Len(x) = 1
    BY <1>1, LenProperties
  <1>3. Len(<<>>) = 0
    OBVIOUS
  <1> QED
    BY <1>2, <1>3 DEF Empty

\* The empty tree, the leaves, and the pairs of trees that share no leaf.
LEMMA LowTreesAreWhole == Empty \in WholeTrees /\ LeafTrees \subseteq WholeTrees
  <1> DEFINE W == {Empty} \cup LeafTrees
  <1>1. W \subseteq Trees
    BY LowFacts
  <1>2. ASSUME NEW t \in W PROVE ~ IsBranchHash(t)
    <2>1. t \in TreesUpTo[0]
      BY TreesUpToEquation
    <2>2. ~ (0 > 0) /\ 0 \in Nat
      OBVIOUS
    <2> QED
      BY <2>1, <2>2, TreeKinds
  <1>3. AreWhole(W)
    BY <1>2 DEF AreWhole
  <1> QED
    BY <1>1, <1>3 DEF WholeTrees

LEMMA PairIsWhole ==
    ASSUME NEW l \in WholeTrees, NEW r \in WholeTrees, l # Empty, r # Empty,
           LeafSets[l] \cap LeafSets[r] = {}, ParentHash(l, r) \in Trees
    PROVE  ParentHash(l, r) \in WholeTrees
  <1> DEFINE t == ParentHash(l, r)
             W == WholeTrees \cup {t}
  <1>1. t[1] = l /\ t[2] = r
    BY DEF ParentHash
  <1>2. t \in Trees
    OBVIOUS
  <1> HIDE DEF t
  <1>3. AreWhole(W)
    BY <1>1, WholeTreesAreWhole DEF AreWhole
  <1>4. W \subseteq Trees
    BY <1>2, WholeTreesAreWhole
  <1>5. t \in WholeTrees
    BY <1>3, <1>4 DEF WholeTrees
  <1> QED
    BY <1>5 DEF t

\* A tree is a whole tree because of its halves.
LEMMA WholeInduction ==
    ASSUME NEW S, Empty \in S, LeafTrees \subseteq S,
           \A t \in WholeTrees : IsBranchHash(t) /\ t[1] \in S /\ t[2] \in S => t \in S
    PROVE  WholeTrees \subseteq S
  <1> DEFINE H == {h \in Nat : \A t \in WholeTrees : Height[t] = h => t \in S}
  <1>1. ASSUME NEW h \in Nat, \A k \in Nat : k < h => k \in H PROVE h \in H
    <2> SUFFICES ASSUME NEW t \in WholeTrees, Height[t] = h PROVE t \in S
      OBVIOUS
    <2>1. t \in Trees /\ t \in TreesUpTo[h]
      BY WholeTreesAreWhole, HeightFacts
    <2>2. CASE IsBranchHash(t)
      <3>1. t[1] \in WholeTrees /\ t[2] \in WholeTrees /\ t[1] \in Trees /\ t[2] \in Trees
        BY <2>2, WholeTreesAreWhole DEF AreWhole
      <3>2. Height[t[1]] < h /\ Height[t[2]] < h
        BY <2>1, <2>2, Halves
      <3>3. Height[t[1]] \in Nat /\ Height[t[2]] \in Nat
        BY <3>1, HeightFacts, MaxHeightAssumption
      <3>4. t[1] \in S /\ t[2] \in S
        BY <3>1, <3>2, <3>3, <1>1
      <3> QED
        BY <2>2, <3>4
    <2>3. CASE ~ IsBranchHash(t)
      <3>1. t = Empty \/ t \in LeafTrees
        BY <2>1, <2>3, TreeKinds
      <3> QED
        BY <3>1
    <2> QED
      BY <2>2, <2>3
  <1>2. Nat \subseteq H
    <2> HIDE DEF H
    <2> QED
      BY <1>1, StrongInductionOn
  <1>3. \A t \in WholeTrees : Height[t] \in Nat
    BY WholeTreesAreWhole, HeightFacts, MaxHeightAssumption
  <1> QED
    BY <1>2, <1>3

\* A whole tree that is not empty is joined to another by hashing the two.
LEMMA WholeHalves ==
    ASSUME NEW t \in WholeTrees, IsBranchHash(t)
    PROVE  /\ t \in Trees /\ t = ParentHash(t[1], t[2]) /\ ~ IsLeafHash(t)
           /\ t[1] \in WholeTrees /\ t[1] # Empty /\ t[1] \in Trees
           /\ t[2] \in WholeTrees /\ t[2] # Empty /\ t[2] \in Trees
           /\ LeafSets[t[1]] \cap LeafSets[t[2]] = {}
           /\ LeafSets[t] = LeafSets[t[1]] \cup LeafSets[t[2]]
           /\ \A D : Without(t, D) = Joined(Without(t[1], D), Without(t[2], D))
  <1>1. t \in Trees /\ ~ IsLeafHash(t)
    BY WholeTreesAreWhole, TreeKinds, MaxHeightAssumption DEF Trees
  <1>2. t = ParentHash(t[1], t[2]) /\ t[1] \in Trees /\ t[2] \in Trees
    BY <1>1, Halves
  <1>3. /\ t[1] \in WholeTrees /\ t[1] # Empty
        /\ t[2] \in WholeTrees /\ t[2] # Empty
        /\ LeafSets[t[1]] \cap LeafSets[t[2]] = {}
    BY WholeTreesAreWhole DEF AreWhole
  <1>4. LeafSets[t] = LeafSets[t[1]] \cup LeafSets[t[2]]
    BY <1>1, LeafSetsEquation
  <1>5. \A D : Without(t, D) = Joined(Without(t[1], D), Without(t[2], D))
    BY <1>1, WithoutEquation
  <1> QED
    BY <1>1, <1>2, <1>3, <1>4, <1>5

\* Every leaf of a whole tree is the hash of a leaf.
LEMMA WholeLeaves == \A t \in WholeTrees : LeafSets[t] \subseteq LeafTrees
  <1> DEFINE S == {t \in WholeTrees : LeafSets[t] \subseteq LeafTrees}
  <1>1. Empty \in S /\ LeafTrees \subseteq S
    BY LowTreesAreWhole, LowFacts
  <1>2. ASSUME NEW t \in WholeTrees, IsBranchHash(t), t[1] \in S, t[2] \in S PROVE t \in S
    BY <1>2, WholeHalves
  <1>3. WholeTrees \subseteq S
    <2> HIDE DEF S
    <2> QED
      BY <1>1, <1>2, WholeInduction
  <1> QED
    BY <1>3

\* A tree that has none of the leaves that go stays as it is.
LEMMA WithoutOthers ==
    ASSUME NEW D, NEW t \in WholeTrees, LeafSets[t] \cap D = {}
    PROVE  Without(t, D) = t
  <1> DEFINE S == {u \in WholeTrees : LeafSets[u] \cap D = {} => Without(u, D) = u}
  <1>1. Empty \in S /\ LeafTrees \subseteq S
    BY LowTreesAreWhole, LowFacts
  <1>2. ASSUME NEW u \in WholeTrees, IsBranchHash(u), u[1] \in S, u[2] \in S PROVE u \in S
    <2> SUFFICES ASSUME LeafSets[u] \cap D = {} PROVE Without(u, D) = u
      OBVIOUS
    <2>1. LeafSets[u[1]] \cap D = {} /\ LeafSets[u[2]] \cap D = {}
      BY <1>2, WholeHalves
    <2>2. Without(u[1], D) = u[1] /\ Without(u[2], D) = u[2]
      BY <2>1, <1>2
    <2>3. Without(u, D) = Joined(u[1], u[2])
      BY <1>2, <2>2, WholeHalves
    <2>4. u[1] # Empty /\ u[2] # Empty /\ u = ParentHash(u[1], u[2])
      BY <1>2, WholeHalves
    <2> QED
      BY <2>3, <2>4 DEF Joined
  <1>3. WholeTrees \subseteq S
    <2> HIDE DEF S
    <2> QED
      BY <1>1, <1>2, WholeInduction
  <1> QED
    BY <1>3

\* Nothing is left of a tree all of whose leaves go.
LEMMA WithoutAll ==
    ASSUME NEW D, NEW t \in WholeTrees, LeafSets[t] \subseteq D
    PROVE  Without(t, D) = Empty
  <1> DEFINE S == {u \in WholeTrees : LeafSets[u] \subseteq D => Without(u, D) = Empty}
  <1>1. Empty \in S /\ LeafTrees \subseteq S
    BY LowTreesAreWhole, LowFacts
  <1>2. ASSUME NEW u \in WholeTrees, IsBranchHash(u), u[1] \in S, u[2] \in S PROVE u \in S
    <2> SUFFICES ASSUME LeafSets[u] \subseteq D PROVE Without(u, D) = Empty
      OBVIOUS
    <2>1. LeafSets[u[1]] \subseteq D /\ LeafSets[u[2]] \subseteq D
      BY <1>2, WholeHalves
    <2>2. Without(u[1], D) = Empty /\ Without(u[2], D) = Empty
      BY <2>1, <1>2
    <2>3. Without(u, D) = Joined(Empty, Empty)
      BY <1>2, <2>2, WholeHalves
    <2> QED
      BY <2>3 DEF Joined
  <1>3. WholeTrees \subseteq S
    <2> HIDE DEF S
    <2> QED
      BY <1>1, <1>2, WholeInduction
  <1> QED
    BY <1>3

\* What is left of a tree is a tree, no higher, with the leaves that are left.
LEMMA WithoutIsWhole ==
    ASSUME NEW D, NEW t \in WholeTrees
    PROVE  /\ Without(t, D) \in WholeTrees
           /\ LeafSets[Without(t, D)] = LeafSets[t] \ D
           /\ Height[Without(t, D)] <= Height[t]
  <1> DEFINE P(u, w) == /\ w \in WholeTrees
                        /\ LeafSets[w] = LeafSets[u] \ D
                        /\ Height[w] <= Height[u]
             S == {u \in WholeTrees : P(u, Without(u, D))}
  <1>0. \A x \in LeafTrees : x # Empty
    BY EmptyIsNoLeaf
  <1>h. \A u \in WholeTrees : u \in Trees /\ Height[u] \in Nat
    BY WholeTreesAreWhole, HeightFacts, MaxHeightAssumption
  <1>1. Empty \in S
    BY <1>0, <1>h, LowTreesAreWhole, LowFacts
  <1>2. ASSUME NEW u \in LeafTrees PROVE u \in S
    <2>1. u \in WholeTrees /\ LeafSets[u] = {u} /\ Without(u, D) = IF u \in D THEN Empty ELSE u
      BY LowTreesAreWhole, LowFacts
    <2>2. Height[Empty] = 0
      <3>1. Empty \in TreesUpTo[0] /\ Empty \in Trees /\ 0 \in 0..MaxHeight
        BY LowTrees, LowFacts, MaxHeightAssumption
      <3>2. Height[Empty] <= 0 /\ Height[Empty] \in Nat
        BY <3>1, HeightFacts, MaxHeightAssumption
      <3> QED
        BY <3>2
    <2>3. LeafSets[Empty] = {} /\ Empty \in WholeTrees
      BY LowFacts, LowTreesAreWhole
    <2> QED
      BY <2>1, <2>2, <2>3, <1>h
  <1>3. ASSUME NEW u \in WholeTrees, IsBranchHash(u), u[1] \in S, u[2] \in S PROVE u \in S
    <2> DEFINE l == Without(u[1], D)
               r == Without(u[2], D)
    <2>1. P(u[1], l) /\ P(u[2], r)
      BY <1>3
    <2>2. Without(u, D) = Joined(l, r)
      BY <1>3, WholeHalves
    <2>3. /\ u \in Trees /\ u[1] \in WholeTrees /\ u[2] \in WholeTrees
          /\ LeafSets[u[1]] \cap LeafSets[u[2]] = {}
          /\ LeafSets[u] = LeafSets[u[1]] \cup LeafSets[u[2]]
      BY <1>3, WholeHalves
    <2>4. Height[u[1]] < Height[u] /\ Height[u[2]] < Height[u]
      BY <1>3, <2>3, Halves
    <2> HIDE DEF l, r
    <2>5. l \in Trees /\ r \in Trees /\ Height[l] \in Nat /\ Height[r] \in Nat
          /\ Height[u] \in 0..MaxHeight /\ Height[u[1]] \in Nat /\ Height[u[2]] \in Nat
      BY <2>1, <2>3, <1>h, HeightFacts
    <2>6. CASE l = Empty
      <3>1. Joined(l, r) = r /\ LeafSets[l] = {}
        BY <2>6, LowFacts DEF Joined
      <3>2. LeafSets[r] = LeafSets[u] \ D
        BY <2>1, <2>3, <3>1
      <3>3. Height[r] <= Height[u]
        BY <2>1, <2>4, <2>5, MaxHeightAssumption
      <3> QED
        BY <2>1, <2>2, <3>1, <3>2, <3>3
    <2>7. CASE l # Empty /\ r = Empty
      <3>1. Joined(l, r) = l /\ LeafSets[r] = {}
        BY <2>7, LowFacts DEF Joined
      <3>2. LeafSets[l] = LeafSets[u] \ D
        BY <2>1, <2>3, <3>1
      <3>3. Height[l] <= Height[u]
        BY <2>1, <2>4, <2>5, MaxHeightAssumption
      <3> QED
        BY <2>1, <2>2, <3>1, <3>2, <3>3
    <2>8. CASE l # Empty /\ r # Empty
      <3> DEFINE h == Height[u] - 1
      <3>1. Joined(l, r) = ParentHash(l, r)
        BY <2>8 DEF Joined
      <3>2. h \in Nat /\ Height[l] <= h /\ Height[r] <= h /\ h + 1 = Height[u] /\ h + 1 <= MaxHeight
        BY <2>1, <2>4, <2>5, MaxHeightAssumption
      <3> HIDE DEF h
      <3>3. l \in TreesUpTo[h] /\ r \in TreesUpTo[h]
        BY <2>5, <3>2, HeightFacts, TreesGrow
      <3>4. ParentHash(l, r) \in TreesUpTo[h + 1]
        BY <3>2, <3>3, PairTree
      <3>5. ParentHash(l, r) \in Trees /\ h + 1 \in 0..MaxHeight
        BY <3>2, <3>4, TreesGrow, MaxHeightAssumption DEF Trees
      <3>6. Height[ParentHash(l, r)] <= Height[u]
        BY <3>2, <3>4, <3>5, HeightFacts
      <3>7. LeafSets[l] \cap LeafSets[r] = {}
        BY <2>1, <2>3
      <3>8. ParentHash(l, r) \in WholeTrees
        BY <2>1, <2>8, <3>5, <3>7, PairIsWhole
      <3>9. LeafSets[ParentHash(l, r)] = LeafSets[u] \ D
        <4>1. LeafSets[ParentHash(l, r)] = LeafSets[l] \cup LeafSets[r]
          BY <3>5, PairFacts
        <4> QED
          BY <4>1, <2>1, <2>3
      <3> QED
        BY <2>2, <3>1, <3>6, <3>8, <3>9
    <2> QED
      BY <2>6, <2>7, <2>8
  <1>4. WholeTrees \subseteq S
    <2> HIDE DEF S
    <2> QED
      BY <1>1, <1>2, <1>3, WholeInduction
  <1> QED
    BY <1>4
=============================================================================
