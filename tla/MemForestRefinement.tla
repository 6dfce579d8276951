------------------------ MODULE MemForestRefinement ------------------------
(***************************************************************************)
(* MemForest implements Accumulator: what modify does to the pointers is,  *)
(* on the trees they form, the deletion of one leaf or the addition of one *)
(* tree, whatever the number of leaves and the order of the calls.         *)
(*                                                                         *)
(* The trees are read off the pointers node by node, so that everything is *)
(* proved by induction on the nodes: a parent is younger than its          *)
(* children, and a node's number bounds the height of its tree.            *)
(*                                                                         *)
(* The last part is about the contract that only sees the set of leaves,   *)
(* LeafSet.                                                                *)
(***************************************************************************)
EXTENDS MemForestProofs

Facts == INSTANCE HashTreesProofs WITH MaxHeight <- MaxNodes

\* The hashes of the trees are those of the forest.
LEMMA SameHashes ==
    /\ Facts!Empty = Empty
    /\ \A i : Facts!LeafHash(i) = LeafHash(i)
    /\ \A l, r : Facts!ParentHash(l, r) = ParentHash(l, r)
  BY DEF Facts!Empty, Facts!LeafHash, Facts!ParentHash, Empty, LeafHash, ParentHash

HasPair(hp, n) == hp[n].ty = "Branch" /\ hp[n].left # Nil

\* Pointers that form trees, with leaf hashes at the leaves.
FormsTrees(hp, d) ==
    \A n \in Nodes :
        /\ hp[n].ty = "Leaf" => d[n] \in Facts!LeafTrees
        /\ HasPair(hp, n) => /\ hp[n].left \in Nodes /\ hp[n].left < n
                             /\ hp[n].right \in Nodes /\ hp[n].right < n

\* The tree at a node is made of those at its children, and no higher than
\* the node is young.
LEMMA TreesInEquation ==
    ASSUME NEW hp, NEW d, FormsTrees(hp, d)
    PROVE  \A n \in Nodes :
               /\ TreesIn(hp, d)[n] \in Facts!TreesUpTo[n]
               /\ TreesIn(hp, d)[n] =
                      IF hp[n].ty = "Leaf" THEN d[n]
                      ELSE IF HasPair(hp, n)
                           THEN ParentHash(TreesIn(hp, d)[hp[n].left], TreesIn(hp, d)[hp[n].right])
                      ELSE Empty
  <1> DEFINE Rhs(t) == [n \in Nodes |-> IF hp[n].ty = "Leaf" THEN d[n]
                                        ELSE IF hp[n].ty = "Branch" /\ hp[n].left # Nil
                                             THEN ParentHash(t[hp[n].left], t[hp[n].right])
                                        ELSE Empty]
             Z    == {n \in Nodes : ~ HasPair(hp, n)}
             rank == [n \in Nodes |-> n]
             z    == [n \in Nodes |-> IF hp[n].ty = "Leaf" THEN d[n] ELSE Empty]
             b    == [n \in Nodes |-> hp[n].left]
             c    == [n \in Nodes |-> hp[n].right]
             V    == [n \in Nodes |-> Facts!TreesUpTo[n]]
             step == [n \in Nodes |-> [x \in V[b[n]] |-> [y \in V[c[n]] |-> ParentHash(x, y)]]]
  <1>1. Nodes \subseteq Nat
    BY DEF Nodes
  <1>2. ASSUME NEW n \in Nodes, HasPair(hp, n)
        PROVE  /\ hp[n].left \in Nodes /\ hp[n].left < n
               /\ hp[n].right \in Nodes /\ hp[n].right < n
    BY <1>2 DEF FormsTrees
  <1>3. Descends(Nodes, rank, Z, b) /\ Descends(Nodes, rank, Z, c)
    <2>1. rank \in [Nodes -> Nat]
      BY <1>1
    <2>2. ASSUME NEW n \in Nodes \ Z
          PROVE b[n] \in Nodes /\ rank[b[n]] < rank[n] /\ c[n] \in Nodes /\ rank[c[n]] < rank[n]
      BY <1>2
    <2> HIDE DEF rank, Z, b, c
    <2> QED
      BY <2>1, <2>2 DEF Descends
  \* A pair of trees below n is no higher than n.
  <1>4. ASSUME NEW n \in Nodes, NEW l \in Nodes, NEW r \in Nodes, l < n, r < n,
               NEW x \in Facts!TreesUpTo[l], NEW y \in Facts!TreesUpTo[r]
        PROVE  ParentHash(x, y) \in Facts!TreesUpTo[n]
    <2>1. /\ n \in Nat /\ l \in Nat /\ r \in Nat
          /\ n - 1 \in Nat /\ (n - 1) + 1 = n /\ l <= n - 1 /\ r <= n - 1
      BY <1>1, <1>4
    <2>2. x \in Facts!TreesUpTo[n - 1] /\ y \in Facts!TreesUpTo[n - 1]
      BY <2>1, Facts!TreesGrow, BoundsAssumption
    <2>3. Facts!ParentHash(x, y) \in Facts!TreesUpTo[(n - 1) + 1]
      BY <2>1, <2>2, Facts!PairTree, BoundsAssumption
    <2> QED
      BY <2>1, <2>3, SameHashes
  <1>5. ASSUME NEW n \in Nodes
        PROVE  /\ Empty \in Facts!TreesUpTo[n]
               /\ hp[n].ty = "Leaf" => d[n] \in Facts!TreesUpTo[n]
    <2>1. n \in Nat
      BY <1>1
    <2>2. hp[n].ty = "Leaf" => d[n] \in Facts!LeafTrees
      BY DEF FormsTrees
    <2>3. Facts!Empty \in Facts!TreesUpTo[n] /\ Facts!LeafTrees \subseteq Facts!TreesUpTo[n]
      BY <2>1, Facts!TreesUpToEquation, BoundsAssumption
    <2> QED
      BY <2>2, <2>3, SameHashes
  <1>6. ValuesIn(V, Nodes, Z, z, b, c, step)
    <2>1. ASSUME NEW n \in Nodes, n \in Z PROVE z[n] \in V[n]
      BY <1>5
    <2>2. ASSUME NEW n \in Nodes \ Z, NEW x \in V[b[n]], NEW y \in V[c[n]]
          PROVE  step[n][x][y] \in V[n]
      <3>1. /\ b[n] = hp[n].left /\ hp[n].left \in Nodes /\ hp[n].left < n
            /\ c[n] = hp[n].right /\ hp[n].right \in Nodes /\ hp[n].right < n
        BY <1>2
      <3>2. x \in Facts!TreesUpTo[hp[n].left] /\ y \in Facts!TreesUpTo[hp[n].right]
        BY <3>1
      <3>3. step[n][x][y] = ParentHash(x, y)
        OBVIOUS
      <3>4. V[n] = Facts!TreesUpTo[n]
        OBVIOUS
      <3> HIDE DEF step, V
      <3> QED
        BY <1>4, <3>1, <3>2, <3>3, <3>4
    <2> HIDE DEF Z, z, b, c, V, step
    <2> QED
      BY <2>1, <2>2 DEF ValuesIn
  <1>7. PICK f : /\ f = [n \in Nodes |-> f[n]]
                 /\ \A n \in Nodes : f[n] \in V[n]
                 /\ Solves(f, Nodes, Z, z, b, c, step)
    <2> HIDE DEF Z, rank, z, b, c, V, step
    <2> QED
      BY <1>3, <1>6, RecursionExists
  <1>8. ASSUME NEW n \in Nodes PROVE f[n] = Rhs(f)[n]
    <2>1. CASE HasPair(hp, n)
      <3>1. n \notin Z /\ b[n] = hp[n].left /\ c[n] = hp[n].right /\ b[n] \in Nodes /\ c[n] \in Nodes
        BY <2>1, <1>2
      <3>2. f[b[n]] \in V[b[n]] /\ f[c[n]] \in V[c[n]] /\ f[n] = step[n][f[b[n]]][f[c[n]]]
        <4> HIDE DEF Z, z, b, c, V, step
        <4> QED
          BY <1>7, <3>1 DEF Solves
      <3>3. step[n][f[b[n]]][f[c[n]]] = ParentHash(f[b[n]], f[c[n]])
        <4> HIDE DEF V, b, c, ParentHash
        <4> QED
          BY <3>2
      <3> QED
        BY <2>1, <3>1, <3>2, <3>3 DEF HasPair
    <2>2. CASE ~ HasPair(hp, n)
      <3>1. f[n] = z[n]
        <4>1. n \in Z
          BY <2>2
        <4> HIDE DEF Z, z, b, c, V, step
        <4> QED
          BY <1>7, <4>1 DEF Solves
      <3> QED
        BY <2>2, <3>1 DEF HasPair
    <2> QED
      BY <2>1, <2>2
  <1> DEFINE IsOne(g) == g = Rhs(g)
             T        == TreesIn(hp, d)
  <1>9. IsOne(f)
    <2> HIDE DEF Z, z, b, c, V, step
    <2> QED
      BY <1>7, <1>8
  <1>10. T = CHOOSE g : IsOne(g)
    BY DEF TreesIn
  <1> HIDE DEF IsOne, T
  <1>11. IsOne(T)
    BY <1>9, <1>10
  <1>12. \A n \in Nodes : T[n] = IF hp[n].ty = "Leaf" THEN d[n]
                                 ELSE IF HasPair(hp, n) THEN ParentHash(T[hp[n].left], T[hp[n].right])
                                 ELSE Empty
    BY <1>11 DEF IsOne, HasPair
  <1> DEFINE S == {n \in Nodes : T[n] \in Facts!TreesUpTo[n]}
  <1>13. ASSUME NEW n \in Nodes, \A m \in Nodes : m < n => m \in S PROVE n \in S
    <2>1. CASE HasPair(hp, n)
      <3>1. hp[n].ty # "Leaf"
        BY <2>1 DEF HasPair
      <3>2. T[n] = ParentHash(T[hp[n].left], T[hp[n].right])
        BY <2>1, <3>1, <1>12
      <3> QED
        BY <2>1, <3>2, <1>2, <1>4, <1>13
    <2>2. CASE ~ HasPair(hp, n)
      BY <2>2, <1>5, <1>12
    <2> QED
      BY <2>1, <2>2
  <1>14. Nodes \subseteq S
    <2> HIDE DEF S
    <2> QED
      BY <1>1, <1>13, StrongInductionOn
  <1> QED
    BY <1>12, <1>14 DEF T

\* Nodes whose children and leaf hashes stay what they were keep their trees.
LEMMA CommonTrees ==
    ASSUME NEW hp, NEW d, FormsTrees(hp, d), NEW hq, NEW e, FormsTrees(hq, e),
           NEW Q \in SUBSET Nodes,
           \A n \in Q : /\ hq[n].ty = hp[n].ty
                        /\ hq[n].left = hp[n].left /\ hq[n].right = hp[n].right
                        /\ hp[n].ty = "Leaf" => e[n] = d[n]
                        /\ HasPair(hp, n) => hp[n].left \in Q /\ hp[n].right \in Q
    PROVE  \A n \in Q : TreesIn(hq, e)[n] = TreesIn(hp, d)[n]
  <1> DEFINE T == TreesIn(hp, d)
             U == TreesIn(hq, e)
             S == {n \in Q : U[n] = T[n]}
  <1>1. Q \subseteq Nat /\ Q \subseteq Nodes
    BY DEF Nodes
  <1>2. \A n \in Nodes : T[n] = IF hp[n].ty = "Leaf" THEN d[n]
                                ELSE IF HasPair(hp, n) THEN ParentHash(T[hp[n].left], T[hp[n].right])
                                ELSE Empty
    BY TreesInEquation
  <1>3. \A n \in Nodes : U[n] = IF hq[n].ty = "Leaf" THEN e[n]
                                ELSE IF HasPair(hq, n) THEN ParentHash(U[hq[n].left], U[hq[n].right])
                                ELSE Empty
    BY TreesInEquation
  <1> HIDE DEF T, U
  <1>4. ASSUME NEW n \in Q, \A m \in Q : m < n => m \in S PROVE n \in S
    <2>1. HasPair(hq, n) <=> HasPair(hp, n)
      BY DEF HasPair
    <2>2. HasPair(hp, n) => hp[n].left < n /\ hp[n].right < n
      BY <1>1 DEF FormsTrees
    <2>3. HasPair(hp, n) => U[hp[n].left] = T[hp[n].left] /\ U[hp[n].right] = T[hp[n].right]
      BY <1>4, <2>2
    <2> QED
      BY <1>1, <1>2, <1>3, <2>1, <2>3
  <1>5. Q \subseteq S
    <2> HIDE DEF S
    <2> QED
      BY <1>1, <1>4, StrongInductionOn
  <1> QED
    BY <1>5 DEF T, U

-----------------------------------------------------------------------------
\* The pointers of the forest form trees.
LEMMA InvFormsTrees == ASSUME Inv PROVE FormsTrees(heap, data)
  <1> SUFFICES ASSUME NEW n \in Nodes
               PROVE  /\ heap[n].ty = "Leaf" => data[n] \in Facts!LeafTrees
                      /\ HasPair(heap, n) => /\ heap[n].left \in Nodes /\ heap[n].left < n
                                             /\ heap[n].right \in Nodes /\ heap[n].right < n
    BY DEF FormsTrees
  <1>1. heap[n].ty = "Leaf" => data[n] \in Facts!LeafTrees
    <2> SUFFICES ASSUME heap[n].ty = "Leaf" PROVE data[n] \in Facts!LeafTrees
      OBVIOUS
    <2>1. n \in Live
      BY DEF Live
    <2>2. data[n] \in LeafHashes(LeavesMade) /\ LeavesMade \in Nat
      <3>1. data[n] \in DOMAIN map
        BY <2>1 DEF Inv, MapIsTheLeaves
      <3>2. DOMAIN map \subseteq LeafHashes(LeavesMade) /\ leaves \in Nat
        BY DEF Inv, TypeOK
      <3>3. LeavesMade \in Nat
        BY <3>2 DEF LeavesMade
      <3> QED
        BY <3>1, <3>2, <3>3
    <2>3. PICK i \in 1..LeavesMade : data[n] = LeafHash(i)
      BY <2>2 DEF LeafHashes
    <2>4. i \in Nat
      BY <2>2
    <2> QED
      BY <2>3, <2>4 DEF LeafHash, Facts!LeafTrees
  <1>2. HasPair(heap, n) => /\ heap[n].left \in Nodes /\ heap[n].left < n
                            /\ heap[n].right \in Nodes /\ heap[n].right < n
    <2> SUFFICES ASSUME HasPair(heap, n)
                 PROVE  \A c \in {heap[n].left, heap[n].right} : c \in Nodes /\ c < n
      OBVIOUS
    <2>1. n \in Live /\ HasChildren(n)
      BY DEF Live, HasPair, HasChildren
    <2>2. \A c \in {heap[n].left, heap[n].right} : c \in Live /\ heap[c].parent = n
      BY <2>1 DEF Inv, PointersAgree, Linked
    <2>3. n # Nil
      BY InvParts
    <2> QED
      BY <2>2, <2>3, InvParts DEF Inv, PointersAgree, Linked
  <1> QED
    BY <1>1, <1>2

LEMMA InvFormsTreesNext == Inv' => FormsTrees(heap', data')
  <1>1. Inv => FormsTrees(heap, data)
    BY InvFormsTrees
  <1>2. (Inv => FormsTrees(heap, data))'
    BY <1>1, PTL
  <1> QED
    BY <1>2 DEF FormsTrees, HasPair

LEMMA TreesNext == TreeAt' = TreesIn(heap', data')
  BY DEF TreeAt, TreesIn

\* Between rehashes the hash of every node is the tree below it.
LEMMA HashIsTree ==
    ASSUME Inv, pc # "hash"
    PROVE  \A n \in Live : data[n] = TreeAt[n]
  <1> DEFINE T == TreeAt
             S == {n \in Live : data[n] = T[n]}
  <1>1. \A n \in Nodes : T[n] = IF heap[n].ty = "Leaf" THEN data[n]
                                ELSE IF HasPair(heap, n)
                                     THEN ParentHash(T[heap[n].left], T[heap[n].right])
                                ELSE Empty
    BY InvFormsTrees, TreesInEquation DEF TreeAt
  <1> HIDE DEF T
  <1>2. Live \subseteq Nat /\ Live \subseteq Nodes
    BY InvParts
  <1>3. ASSUME NEW n \in Live, \A m \in Live : m < n => m \in S PROVE n \in S
    <2>1. CASE heap[n].ty = "Leaf"
      BY <2>1, <1>1, <1>2
    <2>2. CASE HasPair(heap, n)
      <3>1. HasChildren(n) /\ heap[n].ty = "Branch"
        BY <2>2 DEF HasPair, HasChildren
      <3>2. \A c \in {heap[n].left, heap[n].right} : c \in Live /\ c < n
        BY <3>1, <2>2, InvFormsTrees, <1>2 DEF Inv, PointersAgree, Linked, FormsTrees
      <3>3. data[n] = ParentHash(data[heap[n].left], data[heap[n].right])
        BY <3>1 DEF Inv, HashesCommit, Hashed
      <3>4. T[n] = ParentHash(T[heap[n].left], T[heap[n].right])
        BY <3>1, <2>2, <1>1, <1>2
      <3> QED
        BY <3>2, <3>3, <3>4, <1>3
    <2>3. CASE heap[n].ty = "Branch" /\ ~ HasPair(heap, n)
      <3>1. data[n] = Empty
        BY <2>3 DEF Inv, EmptyMeansDeletedTree, HasChildren, HasPair
      <3> QED
        BY <3>1, <2>3, <1>1, <1>2
    <2>4. heap[n].ty \in {"Leaf", "Branch"}
      <3>1. heap \in [Nodes -> NodeRecords] /\ heap[n].ty # "Free"
        BY DEF Inv, TypeOK, Live
      <3> QED
        BY <3>1, <1>2 DEF NodeRecords
    <2> QED
      BY <2>1, <2>2, <2>3, <2>4
  <1>4. Live \subseteq S
    <2> HIDE DEF S
    <2> QED
      BY <1>2, <1>3, StrongInductionOn
  <1> QED
    BY <1>4 DEF T

LEMMA InvImpliesRootHashesCommit == Inv => RootHashesCommit
  <1> SUFFICES ASSUME Inv, pc # "hash" PROVE Roots = RootTrees
    BY DEF RootHashesCommit
  <1>1. \A i \in 1..Len(roots) : roots[i] \in Live
    BY DEF Inv, RootsAreTheTops
  <1>2. \A i \in 1..Len(roots) : data[roots[i]] = TreeAt[roots[i]]
    BY <1>1, HashIsTree
  <1> QED
    BY <1>2 DEF Roots, RootTrees

\* What get_roots returns commits to the whole forest: each hash is the hash
\* of the tree below it, of any shape, after any deletions and additions.
THEOREM RootHashesCommitHolds == Spec => []RootHashesCommit
  BY InvHolds, InvImpliesRootHashesCommit, PTL

-----------------------------------------------------------------------------
(***************************************************************************)
(* One tree at a time.                                                     *)
(***************************************************************************)
\* A node is a leaf, or has two live children, or is all that is left of a
\* tree without leaves, and then it has no parent.
NodeKinds ==
    \A n \in Live :
        /\ TreeAt[n] \in Facts!Trees
        /\ \/ /\ heap[n].ty = "Leaf" /\ ~ HasPair(heap, n)
              /\ TreeAt[n] = data[n] /\ data[n] \in Facts!LeafTrees /\ data[n] # Empty
           \/ /\ heap[n].ty # "Leaf" /\ HasPair(heap, n)
              /\ \A c \in {heap[n].left, heap[n].right} :
                     c \in Live /\ c < n /\ heap[c].parent = n /\ TreeAt[c] # Empty
              /\ TreeAt[n] = ParentHash(TreeAt[heap[n].left], TreeAt[heap[n].right])
           \/ /\ heap[n].ty # "Leaf" /\ ~ HasPair(heap, n)
              /\ heap[n].parent = Nil /\ TreeAt[n] = Empty

LEMMA InvNodeKinds == Inv => NodeKinds
  <1> SUFFICES ASSUME Inv, NEW n \in Live
               PROVE  /\ TreeAt[n] \in Facts!Trees
                      /\ \/ /\ heap[n].ty = "Leaf" /\ ~ HasPair(heap, n)
                            /\ TreeAt[n] = data[n] /\ data[n] \in Facts!LeafTrees /\ data[n] # Empty
                         \/ /\ heap[n].ty # "Leaf" /\ HasPair(heap, n)
                            /\ \A c \in {heap[n].left, heap[n].right} :
                                   c \in Live /\ c < n /\ heap[c].parent = n /\ TreeAt[c] # Empty
                            /\ TreeAt[n] = ParentHash(TreeAt[heap[n].left], TreeAt[heap[n].right])
                         \/ /\ heap[n].ty # "Leaf" /\ ~ HasPair(heap, n)
                            /\ heap[n].parent = Nil /\ TreeAt[n] = Empty
    BY DEF NodeKinds
  <1>1. \A m \in Nodes :
            /\ TreeAt[m] \in Facts!TreesUpTo[m]
            /\ TreeAt[m] = IF heap[m].ty = "Leaf" THEN data[m]
                           ELSE IF HasPair(heap, m) THEN ParentHash(TreeAt[heap[m].left], TreeAt[heap[m].right])
                           ELSE Empty
    BY InvFormsTrees, TreesInEquation DEF TreeAt
  <1>2. Live \subseteq Nodes /\ Nodes \subseteq Nat /\ MaxNodes \in Nat /\ \A m \in Nodes : m <= MaxNodes
    BY InvParts, BoundsAssumption DEF Nodes
  <1>3. TreeAt[n] \in Facts!Trees
    <2>1. Facts!TreesUpTo[n] \subseteq Facts!TreesUpTo[MaxNodes]
      BY <1>2, Facts!TreesGrow, BoundsAssumption
    <2> QED
      BY <1>1, <1>2, <2>1 DEF Facts!Trees
  <1>4. heap[n].ty \in {"Leaf", "Branch"}
    <2>1. heap \in [Nodes -> NodeRecords] /\ heap[n].ty # "Free"
      BY DEF Inv, TypeOK, Live
    <2> QED
      BY <2>1, <1>2 DEF NodeRecords
  <1>5. ASSUME NEW c \in Live, heap[c].parent # Nil PROVE TreeAt[c] # Empty
    <2>1. heap[c].ty = "Leaf" => data[c] # Empty
      BY InvParts DEF Inv, MapIsTheLeaves
    <2>2. heap[c].ty = "Leaf" \/ HasPair(heap, c)
      <3>1. heap[c].ty \in {"Leaf", "Branch"}
        <4>1. heap \in [Nodes -> NodeRecords] /\ heap[c].ty # "Free"
          BY DEF Inv, TypeOK, Live
        <4> QED
          BY <4>1, <1>2 DEF NodeRecords
      <3>2. heap[c].ty = "Branch" => HasChildren(c)
        BY <1>5 DEF Inv, EmptyMeansDeletedTree, RootsAreTheTops
      <3> QED
        BY <3>1, <3>2 DEF HasPair, HasChildren
    <2>3. HasPair(heap, c) => heap[c].ty # "Leaf"
      BY DEF HasPair
    <2> QED
      BY <2>1, <2>2, <2>3, <1>1, <1>2, HashKinds
  <1>6. CASE heap[n].ty = "Leaf"
    <2>1. data[n] # Empty
      BY <1>6, InvParts DEF Inv, MapIsTheLeaves
    <2>2. data[n] \in Facts!LeafTrees
      BY <1>6, <1>2, InvFormsTrees DEF FormsTrees
    <2>3. ~ HasPair(heap, n)
      BY <1>6 DEF HasPair
    <2> QED
      BY <1>1, <1>2, <1>3, <1>6, <2>1, <2>2, <2>3
  <1>7. CASE HasPair(heap, n)
    <2>1. HasChildren(n) /\ heap[n].ty # "Leaf"
      BY <1>7 DEF HasPair, HasChildren
    <2>2. \A c \in {heap[n].left, heap[n].right} : c \in Live /\ c < n /\ heap[c].parent = n
      BY <1>2, <1>7, <2>1, InvFormsTrees DEF Inv, PointersAgree, Linked, FormsTrees
    <2>3. \A c \in {heap[n].left, heap[n].right} : TreeAt[c] # Empty
      BY <1>2, <1>5, <2>2, InvParts
    <2> QED
      BY <1>1, <1>2, <1>3, <1>7, <2>1, <2>2, <2>3
  <1>8. CASE heap[n].ty = "Branch" /\ ~ HasPair(heap, n)
    <2>1. ~ HasChildren(n)
      BY <1>8 DEF HasPair, HasChildren
    <2>2. heap[n].parent = Nil
      BY <1>8, <2>1 DEF Inv, EmptyMeansDeletedTree, RootsAreTheTops
    <2> QED
      BY <1>1, <1>2, <1>3, <1>8, <2>2
  <1> QED
    BY <1>4, <1>6, <1>7, <1>8

LEMMA InvNodeKindsNext == Inv' => NodeKinds'
  BY InvNodeKinds, PTL

\* What deleting leaves does to the tree at a node, and which leaves it has.
LEMMA NodeFacts ==
    ASSUME Inv, NEW D, Empty \notin D, NEW n \in Live
    PROVE  /\ Facts!Without(TreeAt[n], D) =
                  IF heap[n].ty = "Leaf" THEN (IF data[n] \in D THEN Empty ELSE data[n])
                  ELSE IF HasPair(heap, n)
                       THEN Facts!Joined(Facts!Without(TreeAt[heap[n].left], D),
                                         Facts!Without(TreeAt[heap[n].right], D))
                  ELSE Empty
           /\ heap[n].ty = "Leaf" => Facts!LeafSets[TreeAt[n]] = {data[n]}
           /\ HasPair(heap, n) => Facts!LeafSets[TreeAt[n]] =
                  Facts!LeafSets[TreeAt[heap[n].left]] \cup Facts!LeafSets[TreeAt[heap[n].right]]
  <1>1. NodeKinds
    BY InvNodeKinds
  <1>2. CASE heap[n].ty = "Leaf"
    <2>1. TreeAt[n] = data[n] /\ data[n] \in Facts!LeafTrees /\ ~ HasPair(heap, n)
      BY <1>1, <1>2 DEF NodeKinds
    <2>2. /\ Facts!LeafSets[data[n]] = {data[n]}
          /\ Facts!Without(data[n], D) = IF data[n] \in D THEN Empty ELSE data[n]
      BY <2>1, Facts!LowFacts, SameHashes, BoundsAssumption
    <2> QED
      BY <1>2, <2>1, <2>2
  <1>3. CASE HasPair(heap, n)
    <2> DEFINE l == TreeAt[heap[n].left]
               r == TreeAt[heap[n].right]
    <2>1. TreeAt[n] = ParentHash(l, r) /\ TreeAt[n] \in Facts!Trees /\ heap[n].ty # "Leaf"
      BY <1>1, <1>3 DEF NodeKinds
    <2> HIDE DEF l, r
    <2>2. Facts!ParentHash(l, r) = TreeAt[n]
      BY <2>1, SameHashes
    <2>3. /\ Facts!Without(TreeAt[n], D) = Facts!Joined(Facts!Without(l, D), Facts!Without(r, D))
          /\ Facts!LeafSets[TreeAt[n]] = Facts!LeafSets[l] \cup Facts!LeafSets[r]
      BY <2>1, <2>2, Facts!PairFacts, BoundsAssumption
    <2> QED
      BY <1>3, <2>1, <2>3 DEF l, r
  <1>4. CASE heap[n].ty # "Leaf" /\ ~ HasPair(heap, n)
    <2>1. TreeAt[n] = Empty
      BY <1>1, <1>4 DEF NodeKinds
    <2>2. Facts!Without(Empty, D) = Empty
      BY Facts!LowFacts, SameHashes, BoundsAssumption
    <2> QED
      BY <1>4, <2>1, <2>2
  <1> QED
    BY <1>2, <1>3, <1>4

\* Deleting leaves does nothing to the trees they are not in.
LEMMA UntouchedTrees ==
    ASSUME Inv, NEW D, Empty \notin D, NEW Q \in SUBSET Live,
           \A n \in Q : /\ heap[n].ty = "Leaf" => data[n] \notin D
                        /\ HasPair(heap, n) => heap[n].left \in Q /\ heap[n].right \in Q
    PROVE  \A n \in Q : Facts!Without(TreeAt[n], D) = TreeAt[n]
  <1> DEFINE S == {n \in Q : Facts!Without(TreeAt[n], D) = TreeAt[n]}
  <1>1. Q \subseteq Nat
    BY InvParts
  <1>2. NodeKinds
    BY InvNodeKinds
  <1>3. ASSUME NEW n \in Q, \A m \in Q : m < n => m \in S PROVE n \in S
    <2>1. CASE heap[n].ty = "Leaf"
      BY <1>2, <2>1, NodeFacts DEF NodeKinds
    <2>2. CASE HasPair(heap, n)
      <3> DEFINE l == heap[n].left
                 r == heap[n].right
      <3>1. /\ l \in Q /\ l < n /\ TreeAt[l] # Empty
            /\ r \in Q /\ r < n /\ TreeAt[r] # Empty
            /\ TreeAt[n] = ParentHash(TreeAt[l], TreeAt[r])
            /\ heap[n].ty # "Leaf"
        BY <1>2, <2>2 DEF NodeKinds
      <3>2. /\ Facts!Without(TreeAt[l], D) = TreeAt[l]
            /\ Facts!Without(TreeAt[r], D) = TreeAt[r]
        BY <1>3, <3>1
      <3>3. Facts!Without(TreeAt[n], D) = Facts!Joined(TreeAt[l], TreeAt[r])
        BY <2>2, <3>1, <3>2, NodeFacts
      <3> QED
        BY <3>1, <3>3, SameHashes DEF Facts!Joined
    <2>3. CASE heap[n].ty # "Leaf" /\ ~ HasPair(heap, n)
      BY <1>2, <2>3, NodeFacts DEF NodeKinds
    <2> QED
      BY <2>1, <2>2, <2>3
  <1>4. Q \subseteq S
    <2> HIDE DEF S
    <2> QED
      BY <1>1, <1>3, StrongInductionOn
  <1> QED
    BY <1>4

\* A step that changes neither the children of the nodes of Q nor the hashes
\* of its leaves changes none of their trees.
LEMMA StayedTrees ==
    ASSUME Inv, Inv', NEW Q \in SUBSET Live,
           \A n \in Q : /\ heap'[n].ty = heap[n].ty
                        /\ heap'[n].left = heap[n].left /\ heap'[n].right = heap[n].right
                        /\ heap[n].ty = "Leaf" => data'[n] = data[n]
                        /\ HasPair(heap, n) => heap[n].left \in Q /\ heap[n].right \in Q
    PROVE  \A n \in Q : TreeAt'[n] = TreeAt[n]
  <1>1. FormsTrees(heap, data) /\ FormsTrees(heap', data')
    BY InvFormsTrees, InvFormsTreesNext
  <1>2. Q \in SUBSET Nodes
    BY InvParts
  <1>3. \A n \in Q : TreesIn(heap', data')[n] = TreesIn(heap, data)[n]
    BY <1>1, <1>2, CommonTrees
  <1> QED
    BY <1>3, TreesNext DEF TreeAt

\* A leaf x and its parent p are taken out, and its sibling s takes p's place.
Spliced(x, p, s, hq, e) ==
    /\ heap[x].ty = "Leaf" /\ heap[x].parent = p
    /\ s # x /\ s # p /\ x # p
    /\ HasPair(heap, p) /\ {heap[p].left, heap[p].right} = {x, s}
    /\ \A n \in Nodes : hq[n].ty # "Free" <=> n \in Live \ {x, p}
    /\ \A n \in Live \ {x, p} :
           /\ hq[n].ty = heap[n].ty
           /\ heap[n].ty = "Leaf" => e[n] = data[n]
           /\ hq[n].left = IF heap[n].left = p THEN s ELSE heap[n].left
           /\ hq[n].right = IF heap[n].right = p THEN s ELSE heap[n].right

\* The tree at a node without the leaf x.
Pruned(n, x) == Facts!Without(TreeAt[n], {data[x]})

\* The trees are then what they were without the leaf.
LEMMA SplicedTrees ==
    ASSUME Inv, Inv', NEW x \in Live, NEW p \in Live, NEW s \in Live, Spliced(x, p, s, heap', data')
    PROVE  \A n \in Live \ {x} : Pruned(n, x) = IF n = p THEN TreeAt'[s] ELSE TreeAt'[n]
  <1> DEFINE D == {data[x]}
             W(n) == Facts!Without(TreeAt[n], D)
             Fine(n) == W(n) = IF n = p THEN TreeAt'[s] ELSE TreeAt'[n]
             S == {n \in Live \ {x} : Fine(n)}
  <1>0. Live' = Live \ {x, p}
    <2>1. \A n \in Nodes : heap'[n].ty # "Free" <=> n \in Live \ {x, p}
      BY DEF Spliced
    <2>2. Live' = {n \in Nodes : heap'[n].ty # "Free"}
      BY DEF Live
    <2> QED
      BY <2>1, <2>2, InvParts
  <1> SUFFICES ASSUME heap[x].ty = "Leaf", heap[x].parent = p, s # x, s # p, x # p,
                      HasPair(heap, p), {heap[p].left, heap[p].right} = {x, s},
                      Live' = Live \ {x, p},
                      \A n \in Live \ {x, p} :
                          /\ heap'[n].ty = heap[n].ty
                          /\ heap[n].ty = "Leaf" => data'[n] = data[n]
                          /\ heap'[n].left = IF heap[n].left = p THEN s ELSE heap[n].left
                          /\ heap'[n].right = IF heap[n].right = p THEN s ELSE heap[n].right
               PROVE  \A n \in Live \ {x} :
                          Facts!Without(TreeAt[n], {data[x]}) = IF n = p THEN TreeAt'[s] ELSE TreeAt'[n]
    BY <1>0 DEF Spliced, Pruned
  <1>1. NodeKinds /\ NodeKinds'
    BY InvNodeKinds, InvNodeKindsNext
  <1>2. Empty \notin D /\ data[x] # Empty
    BY <1>1 DEF NodeKinds
  <1>3. Live \subseteq Nat /\ Nil \notin Live
    BY InvParts
  <1>4. \A l : Facts!Joined(Empty, l) = l /\ Facts!Joined(l, Empty) = l
    BY SameHashes DEF Facts!Joined
  <1>5. \A l, r : l # Empty /\ r # Empty => Facts!Joined(l, r) = ParentHash(l, r)
    BY SameHashes DEF Facts!Joined
  <1>6. W(x) = Empty
    BY <1>2, NodeFacts
  <1>7. \A n \in Live \ {x, p} :
            /\ TreeAt'[n] = IF heap[n].ty = "Leaf" THEN data[n]
                            ELSE IF HasPair(heap, n)
                                 THEN ParentHash(TreeAt'[heap'[n].left], TreeAt'[heap'[n].right])
                            ELSE Empty
            /\ HasPair(heap, n) => TreeAt'[heap'[n].left] # Empty /\ TreeAt'[heap'[n].right] # Empty
    <2> SUFFICES ASSUME NEW n \in Live \ {x, p}
                 PROVE  /\ TreeAt'[n] = IF heap[n].ty = "Leaf" THEN data[n]
                                        ELSE IF HasPair(heap, n)
                                             THEN ParentHash(TreeAt'[heap'[n].left], TreeAt'[heap'[n].right])
                                        ELSE Empty
                        /\ HasPair(heap, n) =>
                               TreeAt'[heap'[n].left] # Empty /\ TreeAt'[heap'[n].right] # Empty
      OBVIOUS
    <2>1. n \in Live'
      OBVIOUS
    <2>2. HasPair(heap', n) <=> HasPair(heap, n)
      BY <1>3 DEF HasPair
    <2> QED
      BY <1>1, <2>1, <2>2 DEF NodeKinds, HasPair
  <1>8. \A n \in Live \ {x} : W(n) =
            IF heap[n].ty = "Leaf" THEN (IF data[n] \in D THEN Empty ELSE data[n])
            ELSE IF HasPair(heap, n) THEN Facts!Joined(W(heap[n].left), W(heap[n].right))
            ELSE Empty
    BY <1>2, NodeFacts
  <1> HIDE DEF W
  <1>9. ASSUME NEW n \in Live \ {x}, \A m \in Live \ {x} : m < n => m \in S PROVE n \in S
    <2>1. CASE n = p
      <3>1. s \in Live \ {x} /\ s < n /\ s # p
        BY <1>1, <2>1 DEF NodeKinds
      <3>2. W(s) = TreeAt'[s]
        BY <3>1, <1>9
      <3>3. W(n) = Facts!Joined(W(heap[n].left), W(heap[n].right))
        BY <1>8, <2>1 DEF HasPair
      <3>4. \/ heap[n].left = x /\ heap[n].right = s
            \/ heap[n].left = s /\ heap[n].right = x
        BY <2>1
      <3>5. W(n) = TreeAt'[s]
        BY <1>4, <1>6, <3>2, <3>3, <3>4
      <3> QED
        BY <2>1, <3>5
    <2>2. CASE n # p /\ heap[n].ty = "Leaf"
      <3>1. data[n] \notin D
        BY <1>2 DEF Inv, HashesIdentifyNodes
      <3>2. ~ HasPair(heap, n)
        BY <2>2 DEF HasPair
      <3> QED
        BY <1>7, <1>8, <2>2, <3>1, <3>2
    <2>3. CASE n # p /\ HasPair(heap, n)
      <3> DEFINE l == heap[n].left
                 r == heap[n].right
                 New(c) == IF c = p THEN s ELSE c
      <3>1. /\ l \in Live /\ l < n /\ heap[l].parent = n
            /\ r \in Live /\ r < n /\ heap[r].parent = n
            /\ heap[n].ty # "Leaf"
        BY <1>1, <2>3 DEF NodeKinds
      <3>2. l # x /\ r # x
        BY <2>3, <3>1
      <3>3. W(l) = TreeAt'[New(l)] /\ W(r) = TreeAt'[New(r)]
        BY <1>9, <3>1, <3>2
      <3>4. heap'[n].left = New(l) /\ heap'[n].right = New(r)
        BY <2>3
      <3>5. W(n) = Facts!Joined(W(l), W(r))
        BY <1>8, <2>3, <3>1
      <3> HIDE DEF New, l, r
      <3>6. TreeAt'[New(l)] # Empty /\ TreeAt'[New(r)] # Empty
        BY <1>7, <2>3, <3>4
      <3>7. TreeAt'[n] = ParentHash(TreeAt'[New(l)], TreeAt'[New(r)])
        BY <1>7, <2>3, <3>1, <3>4
      <3>8. W(n) = TreeAt'[n]
        BY <1>5, <3>3, <3>5, <3>6, <3>7
      <3> QED
        BY <2>3, <3>8
    <2>4. CASE n # p /\ heap[n].ty # "Leaf" /\ ~ HasPair(heap, n)
      BY <1>7, <1>8, <2>4
    <2> QED
      BY <2>1, <2>2, <2>3, <2>4
  <1>10. Live \ {x} \subseteq S
    <2> DEFINE N == Live \ {x}
    <2>1. N \subseteq Nat
      BY <1>3
    <2>2. \A n \in N : (\A m \in N : m < n => m \in S) => n \in S
      BY <1>9
    <2> HIDE DEF S, N
    <2>3. N \subseteq S
      BY <2>1, <2>2, StrongInductionOn
    <2> QED
      BY <2>3 DEF N
  <1> QED
    BY <1>10 DEF W

\* A leaf is a leaf of the tree of some root.
LEMMA LeafIsAMember ==
    ASSUME Inv, pc # "merge", NEW x \in Live, heap[x].ty = "Leaf"
    PROVE  data[x] \in Facts!Members(RootTrees)
  <1> DEFINE A == {n \in Live : data[x] \in Facts!LeafSets[TreeAt[n]]}
  <1>1. NodeKinds
    BY InvNodeKinds
  <1>2. MaxNodes \in Nat /\ Live \subseteq 0..MaxNodes
    BY InvParts, BoundsAssumption DEF Nodes
  <1>3. x \in A
    <2>1. Empty \notin {}
      OBVIOUS
    <2> QED
      BY <2>1, NodeFacts
  <1>4. PICK n \in A : \A m \in A : m <= n
    <2>1. A \subseteq 0..MaxNodes /\ A # {}
      BY <1>2, <1>3
    <2> HIDE DEF A
    <2> QED
      BY <1>2, <2>1, GreatestNumber
  <1>5. heap[n].parent = Nil
    <2> SUFFICES ASSUME heap[n].parent # Nil PROVE FALSE
      OBVIOUS
    <2> DEFINE q == heap[n].parent
    <2>1. q \in Live /\ n \in {heap[q].left, heap[q].right} /\ n < q
      BY <1>4 DEF Inv, PointersAgree, Linked
    <2>2. HasPair(heap, q)
      BY <1>1, <2>1, InvParts DEF NodeKinds, Inv, PointersAgree, Linked, HasChildren, HasPair
    <2>3. data[x] \in Facts!LeafSets[TreeAt[q]]
      <3>1. Empty \notin {}
        OBVIOUS
      <3>2. Facts!LeafSets[TreeAt[q]] =
                Facts!LeafSets[TreeAt[heap[q].left]] \cup Facts!LeafSets[TreeAt[heap[q].right]]
        BY <2>1, <2>2, <3>1, NodeFacts
      <3> QED
        BY <1>4, <2>1, <3>2
    <2>4. q \in A
      BY <2>1, <2>3
    <2>5. n \in Nat /\ q \in Nat
      <3>1. n \in Live
        BY <1>4
      <3>2. Live \subseteq Nat
        BY InvParts
      <3> HIDE DEF q, A
      <3> QED
        BY <2>1, <3>1, <3>2
    <2> HIDE DEF q, A
    <2>6. q <= n
      BY <1>4, <2>4
    <2> QED
      BY <2>1, <2>5, <2>6
  <1>6. PICK i \in 1..Len(roots) : roots[i] = n
    BY <1>4, <1>5 DEF Inv, RootsAreTheTops
  <1>7. Len(RootTrees) = Len(roots) /\ RootTrees[i] = TreeAt[n]
    BY <1>6, InvParts DEF RootTrees
  <1>8. Facts!LeavesOf(RootTrees[i]) = Facts!LeafSets[TreeAt[n]]
    BY <1>7 DEF Facts!LeavesOf
  <1> QED
    BY <1>4, <1>6, <1>7, <1>8 DEF Facts!Members

-----------------------------------------------------------------------------
(***************************************************************************)
(* The steps of modify on the trees.                                       *)
(***************************************************************************)
\* Module Accumulator says of trees what HashTrees says.
LEMMA SameOperators ==
    /\ \A rs, t, n : Tree!JoinTree(rs, t, n) = Facts!JoinTree(rs, t, n)
    /\ \A rs, D : Abstract!Deletion(rs, D) = Facts!Deletion(rs, D)
    /\ \A rs : Abstract!Members(rs) = Facts!Members(rs)
    /\ \A rs, n, k : Abstract!Addition(rs, n, k) = Facts!Addition(rs, n, k)
  <1>1. /\ \A rs, t, n : Tree!JoinTree(rs, t, n) = Facts!JoinTree(rs, t, n)
        /\ \A rs, t, n : Abstract!JoinTree(rs, t, n) = Facts!JoinTree(rs, t, n)
    BY DEF Tree!JoinTree, Facts!JoinTree, Abstract!JoinTree, Tree!TrailingOnes, Facts!TrailingOnes,
           Abstract!TrailingOnes, Tree!Joined, Facts!Joined, Abstract!Joined, Tree!Empty, Facts!Empty,
           Abstract!Empty, Tree!ParentHash, Facts!ParentHash, Abstract!ParentHash
  <1>2. \A rs, D : Abstract!Deletion(rs, D) = Facts!Deletion(rs, D)
    BY DEF Abstract!Deletion, Facts!Deletion, Abstract!Without, Facts!Without, Abstract!Trees, Facts!Trees,
           Abstract!TreesUpTo, Facts!TreesUpTo, Abstract!LeafTrees, Facts!LeafTrees,
           Abstract!IsBranchHash, Facts!IsBranchHash, Abstract!Joined, Facts!Joined,
           Abstract!Empty, Facts!Empty, Abstract!ParentHash, Facts!ParentHash
  <1>3. \A rs : Abstract!Members(rs) = Facts!Members(rs)
    BY DEF Abstract!Members, Facts!Members, Abstract!LeavesOf, Facts!LeavesOf, Abstract!LeafSets, Facts!LeafSets,
           Abstract!Trees, Facts!Trees, Abstract!TreesUpTo, Facts!TreesUpTo, Abstract!LeafTrees, Facts!LeafTrees,
           Abstract!IsBranchHash, Facts!IsBranchHash, Abstract!IsLeafHash, Facts!IsLeafHash,
           Abstract!Empty, Facts!Empty
  <1>4. \A rs, n, k : Abstract!Addition(rs, n, k) = Facts!Addition(rs, n, k)
    BY <1>1 DEF Abstract!Addition, Facts!Addition, Abstract!LeafHash, Facts!LeafHash
  <1> QED
    BY <1>1, <1>2, <1>3, <1>4

\* The roots the abstract accumulator has: those of the forest, or those it
\* will have when the merges under way are done.
AbstractRoots ==
    IF pc = "merge" THEN Facts!JoinTree(RootTrees, TreeAt[node], carry) ELSE RootTrees

LEMMA AbstractChange ==
    ASSUME NEW D \in SUBSET Facts!Members(AbstractRoots), NEW k \in 0..(MaxLeaves - LeavesMade),
           LeavesMade' = LeavesMade + k,
           AbstractRoots' = Facts!Addition(Facts!Deletion(AbstractRoots, D), LeavesMade, k)
    PROVE  Abstract!AccNext
  <1>1. /\ LeavesMade' = LeavesMade + k
        /\ AbstractRoots' = Abstract!Addition(Abstract!Deletion(AbstractRoots, D), LeavesMade, k)
        /\ D \in SUBSET Abstract!Members(AbstractRoots)
    BY SameOperators
  <1>2. AbstractRoots = IF pc = "merge" THEN Tree!JoinTree(RootTrees, TreeAt[node], carry) ELSE RootTrees
    BY SameOperators DEF AbstractRoots
  <1>3. AbstractRoots' = (IF pc = "merge" THEN Tree!JoinTree(RootTrees, TreeAt[node], carry) ELSE RootTrees)'
    BY SameOperators DEF AbstractRoots
  <1> QED
    BY <1>1, <1>2, <1>3 DEF Abstract!AccNext, Abstract!Change

LEMMA AbstractStutter ==
    ASSUME LeavesMade' = LeavesMade, AbstractRoots' = AbstractRoots
    PROVE  UNCHANGED Abstract!accVars
  <1>1. AbstractRoots = IF pc = "merge" THEN Tree!JoinTree(RootTrees, TreeAt[node], carry) ELSE RootTrees
    BY SameOperators DEF AbstractRoots
  <1>2. AbstractRoots' = (IF pc = "merge" THEN Tree!JoinTree(RootTrees, TreeAt[node], carry) ELSE RootTrees)'
    BY SameOperators DEF AbstractRoots
  <1> QED
    BY <1>1, <1>2 DEF Abstract!accVars

\* The trees of the roots, in the order of the roots.
RootsHaveTrees ==
    /\ RootTrees \in Seq(Facts!Trees)
    /\ Len(RootTrees) = Len(roots) /\ Len(roots) \in Nat
    /\ \A i \in 1..Len(roots) : roots[i] \in Live /\ RootTrees[i] = TreeAt[roots[i]]
    /\ RootTrees = [i \in 1..Len(roots) |-> TreeAt[roots[i]]]

LEMMA InvRootsHaveTrees == Inv => RootsHaveTrees
  <1> SUFFICES ASSUME Inv PROVE RootsHaveTrees
    OBVIOUS
  <1>1. Len(roots) \in Nat /\ \A i \in 1..Len(roots) : roots[i] \in Live
    BY InvParts DEF Inv, RootsAreTheTops
  <1>2. \A i \in 1..Len(roots) : TreeAt[roots[i]] \in Facts!Trees
    BY <1>1, InvNodeKinds DEF NodeKinds
  <1>3. RootTrees = [i \in 1..Len(roots) |-> TreeAt[roots[i]]]
    BY DEF RootTrees
  <1> QED
    BY <1>1, <1>2, <1>3 DEF RootsHaveTrees

LEMMA InvRootsHaveTreesNext == Inv' => RootsHaveTrees'
  BY InvRootsHaveTrees, PTL

\* Two states with the same trees at the roots have the same forest.
LEMMA SameRootTrees ==
    ASSUME Inv, Inv', Len(roots') = Len(roots),
           \A i \in 1..Len(roots) : TreeAt'[roots'[i]] = TreeAt[roots[i]]
    PROVE  RootTrees' = RootTrees
  BY InvRootsHaveTrees, InvRootsHaveTreesNext DEF RootsHaveTrees

\* The children of live nodes are live.
LEMMA LiveIsClosed ==
    ASSUME Inv, NEW n \in Live, HasPair(heap, n)
    PROVE  /\ heap[n].left \in Live /\ heap[heap[n].left].parent = n
           /\ heap[n].right \in Live /\ heap[heap[n].right].parent = n
  BY InvNodeKinds DEF NodeKinds

\* A step that takes a leaf out of the trees it is in is a deletion.
LEMMA DeletionIsChange ==
    ASSUME Inv, Inv', NEW x \in Live, heap[x].ty = "Leaf",
           pc = "del", pc' # "merge", leaves' = leaves, Len(roots') = Len(roots),
           \A i \in 1..Len(roots) :
               TreeAt'[roots'[i]] = Facts!Without(TreeAt[roots[i]], {data[x]})
    PROVE  Abstract!AccNext
  <1> DEFINE D == {data[x]}
  <1>1. D \in SUBSET Facts!Members(RootTrees)
    BY LeafIsAMember
  <1>2. AbstractRoots = RootTrees /\ AbstractRoots' = RootTrees'
    BY DEF AbstractRoots
  <1>3. LeavesMade = leaves /\ LeavesMade' = leaves
    BY DEF LeavesMade
  <1>4. RootsHaveTrees /\ RootsHaveTrees'
    BY InvRootsHaveTrees, InvRootsHaveTreesNext
  <1>5. RootTrees' = Facts!Deletion(RootTrees, D)
    BY <1>4 DEF RootsHaveTrees, Facts!Deletion
  <1>6. Facts!Addition(Facts!Deletion(RootTrees, D), leaves, 0) = Facts!Deletion(RootTrees, D)
    BY Facts!AdditionNone, BoundsAssumption
  <1>7. leaves \in Nat /\ leaves <= MaxLeaves /\ 0 \in 0..(MaxLeaves - leaves) /\ leaves + 0 = leaves
    BY <1>3, BoundsAssumption DEF Inv, TypeOK
  <1> HIDE DEF D
  <1> QED
    BY <1>1, <1>2, <1>3, <1>5, <1>6, <1>7, AbstractChange

\* del_single on a leaf that is a root leaves an empty tree in its place.
LEMMA DelRootIsDeletion == ASSUME Inv, Inv', DelRoot PROVE Abstract!AccNext
  <1>1. PICK h \in DOMAIN map, e \in Fresh :
            /\ TakeTarget(h)
            /\ heap[map[h]].parent = Nil
            /\ roots' = [roots EXCEPT ![RootIndex(data[map[h]])] = e]
            /\ heap' = [Free(heap, {map[h]}) EXCEPT ![e] = BranchNode]
            /\ data' = [data EXCEPT ![map[h]] = Empty, ![e] = Empty]
            /\ UNCHANGED <<pc, node>>
    BY DEF DelRoot
  <1> DEFINE x == map[h]
             Q == Live \ {x}
  <1>2. /\ x \in Live /\ heap[x].ty = "Leaf" /\ data[x] = h /\ h # Empty
        /\ pc = "del" /\ leaves' = leaves
    BY <1>1, TargetFacts
  <1>3. PICK i \in 1..Len(roots) : roots[i] = x
    BY <1>1, <1>2 DEF Inv, RootsAreTheTops
  <1>4. RootIndex(data[x]) = i
    BY <1>2, <1>3, RootIndexFinds
  <1>5. e \in Nodes /\ e \notin Live /\ e # x
    BY <1>2, FreshFacts
  <1> HIDE DEF x
  <1>6. /\ Len(roots') = Len(roots)
        /\ \A j \in 1..Len(roots) : roots'[j] = IF j = i THEN e ELSE roots[j]
    BY <1>1, <1>4, <1>5, InvParts, ExceptSeq DEF x
  <1>7. /\ heap'[e] = BranchNode
        /\ \A n \in Q : heap'[n] = heap[n] /\ data'[n] = data[n]
    BY <1>1, <1>5, InvParts DEF Free, x, Inv, TypeOK
  <1>8. \A n \in Q : HasPair(heap, n) => heap[n].left \in Q /\ heap[n].right \in Q
    BY <1>1, LiveIsClosed, InvParts DEF x
  <1>9. \A n \in Q : TreeAt'[n] = TreeAt[n]
    BY <1>7, <1>8, StayedTrees
  <1>10. \A n \in Q : Facts!Without(TreeAt[n], {data[x]}) = TreeAt[n]
    <2>1. \A n \in Q : heap[n].ty = "Leaf" => data[n] \notin {data[x]}
      BY <1>2 DEF Inv, HashesIdentifyNodes
    <2>2. Empty \notin {data[x]}
      BY <1>2
    <2> QED
      BY <2>1, <2>2, <1>8, UntouchedTrees
  <1>11. Facts!Without(TreeAt[x], {data[x]}) = Empty
    <2>1. Empty \notin {data[x]}
      BY <1>2
    <2> QED
      BY <1>2, <2>1, NodeFacts
  <1>12. TreeAt'[e] = Empty
    <2>1. e \in Live'
      BY <1>5, <1>7 DEF Live, BranchNode
    <2> QED
      BY <1>7, <2>1, InvNodeKindsNext DEF NodeKinds, BranchNode, HasPair
  <1>13. \A j \in 1..Len(roots) : j # i => roots[j] \in Q
    BY <1>3 DEF Inv, RootsAreTheTops
  <1>14. \A j \in 1..Len(roots) :
             TreeAt'[roots'[j]] = Facts!Without(TreeAt[roots[j]], {data[x]})
    BY <1>3, <1>6, <1>9, <1>10, <1>11, <1>12, <1>13
  <1>15. pc' # "merge"
    BY <1>1, <1>2
  <1> QED
    BY <1>2, <1>6, <1>14, <1>15, DeletionIsChange

\* del_single on a child of a root makes the sibling the root.
LEMMA DelRootChildIsDeletion == ASSUME Inv, Inv', DelRootChild PROVE Abstract!AccNext
  <1>1. PICK h \in DOMAIN map :
            LET x == map[h]
                p == Kin(x).parent
                s == Kin(x).sibling
            IN  /\ TakeTarget(h)
                /\ heap[x].parent \in Live
                /\ Kin(x).grandparent = Nil
                /\ roots' = [roots EXCEPT ![RootIndex(data[p])] = s]
                /\ heap' = [Free(heap, {x, p}) EXCEPT ![s] = WithParent(@, Nil)]
                /\ data' = [data EXCEPT ![x] = Empty, ![p] = Empty]
                /\ UNCHANGED <<pc, node>>
    BY DEF DelRootChild
  <1> DEFINE x == map[h]
             p == Kin(x).parent
             s == Kin(x).sibling
  <1>2. /\ x \in Live /\ heap[x].ty = "Leaf" /\ data[x] = h
        /\ pc = "del" /\ pc' # "merge" /\ leaves' = leaves
    BY <1>1, TargetFacts
  <1>3. /\ heap[x].parent = p
        /\ p \in Live /\ s \in Live
        /\ heap[p].parent = Nil
        /\ heap[s].parent = p
        /\ s # x /\ s # p /\ x # p
        /\ {heap[p].left, heap[p].right} = {x, s}
        /\ heap[p].ty = "Branch"
        /\ data[p] # Empty
    BY <1>1, <1>2, InvParts, KinFacts
  <1>4. PICK i \in 1..Len(roots) : roots[i] = p
    BY <1>2, <1>3 DEF Inv, RootsAreTheTops
  <1>5. RootIndex(data[p]) = i
    BY <1>3, <1>4, RootIndexFinds
  <1>6. roots' = [roots EXCEPT ![i] = s]
    BY <1>1, <1>5
  <1>7. heap' = [Free(heap, {x, p}) EXCEPT ![s] = WithParent(@, Nil)]
    BY <1>1
  <1>8. data' = [data EXCEPT ![x] = Empty, ![p] = Empty]
    BY <1>1
  <1> HIDE DEF x, p, s
  <1>9. /\ Len(roots') = Len(roots)
        /\ \A j \in 1..Len(roots) : roots'[j] = IF j = i THEN s ELSE roots[j]
    BY <1>3, <1>6, InvParts, ExceptSeq
  <1>10. HasPair(heap, p)
    <2>1. heap[p].left \in {x, s}
      BY <1>3
    <2>2. heap[p].left # Nil
      BY <2>1, <1>2, <1>3, InvParts
    <2> QED
      BY <2>2, <1>3 DEF HasPair
  <1>11. /\ \A n \in Nodes : heap'[n] = IF n = s THEN WithParent(heap[s], Nil)
                                        ELSE IF n \in {x, p} THEN FreeNode ELSE heap[n]
         /\ \A n \in Live \ {x, p} : data'[n] = data[n]
    BY <1>3, <1>7, <1>8, InvParts DEF Free, Inv, TypeOK
  <1>12. Live' = Live \ {x, p}
    <2>1. x \in Nodes /\ p \in Nodes /\ s \in Nodes
      BY <1>2, <1>3, InvParts
    <2>2. WithParent(heap[s], Nil).ty = heap[s].ty /\ FreeNode.ty = "Free"
      BY DEF WithParent, FreeNode
    <2>3. ASSUME NEW n \in Nodes
          PROVE  heap'[n].ty # "Free" <=> heap[n].ty # "Free" /\ n \notin {x, p}
      <3>1. CASE n = s
        <4>1. heap'[n].ty = heap[s].ty
          BY <2>2, <3>1, <1>11
        <4> QED
          BY <4>1, <3>1, <1>3
      <3>2. CASE n # s
        BY <2>2, <2>3, <3>2, <1>11
      <3> QED
        BY <3>1, <3>2
    <2> QED
      BY <2>3 DEF Live
  <1>13. \A n \in Live \ {x, p} : heap[n].left # p /\ heap[n].right # p
    <2> SUFFICES ASSUME NEW n \in Live, n # p, heap[n].left = p \/ heap[n].right = p PROVE FALSE
      OBVIOUS
    <2>1. HasChildren(n)
      BY <1>3, InvParts DEF Inv, PointersAgree, Linked, HasChildren
    <2>2. heap[p].parent = n
      BY <2>1 DEF Inv, PointersAgree, Linked
    <2> QED
      BY <1>3, <2>2, InvParts
  <1>14. \A n \in Live \ {x, p} :
             /\ heap'[n].ty = heap[n].ty
             /\ heap[n].ty = "Leaf" => data'[n] = data[n]
             /\ heap'[n].left = IF heap[n].left = p THEN s ELSE heap[n].left
             /\ heap'[n].right = IF heap[n].right = p THEN s ELSE heap[n].right
    BY <1>11, <1>13, InvParts DEF WithParent
  <1>15. \A n \in Live \ {x} : Pruned(n, x) = IF n = p THEN TreeAt'[s] ELSE TreeAt'[n]
    <2>1. \A n \in Nodes : heap'[n].ty # "Free" <=> n \in Live \ {x, p}
      BY <1>12 DEF Live
    <2>2. Spliced(x, p, s, heap', data')
      BY <1>2, <1>3, <1>10, <2>1, <1>14 DEF Spliced
    <2> QED
      BY <1>2, <1>3, <2>2, SplicedTrees
  <1>16. \A j \in 1..Len(roots) : roots[j] \in Live \ {x} /\ (roots[j] = p => j = i)
    BY <1>3, <1>4, InvParts DEF Inv, RootsAreTheTops
  <1>17. \A j \in 1..Len(roots) :
             TreeAt'[roots'[j]] = Facts!Without(TreeAt[roots[j]], {data[x]})
    BY <1>4, <1>9, <1>15, <1>16 DEF Pruned
  <1> QED
    BY <1>2, <1>9, <1>17, DeletionIsChange

\* del_single deeper in a tree puts the sibling in its parent's place.
LEMMA DelInnerIsDeletion == ASSUME Inv, Inv', DelInner PROVE Abstract!AccNext
  <1>1. PICK h \in DOMAIN map :
            LET x == map[h]
                p == Kin(x).parent
                s == Kin(x).sibling
                g == Kin(x).grandparent
            IN  /\ TakeTarget(h)
                /\ heap[x].parent \in Live
                /\ g \in Live
                /\ heap' = [Free(heap, {x, p}) EXCEPT
                                ![s] = WithParent(@, g),
                                ![g] = IF data[heap[g].left] = data[p]
                                       THEN WithLeft(@, s) ELSE WithRight(@, s)]
                /\ data' = [data EXCEPT ![x] = Empty, ![p] = Empty]
                /\ pc' = "hash"
                /\ node' = s
                /\ UNCHANGED roots
    BY DEF DelInner
  <1> DEFINE x == map[h]
             p == Kin(x).parent
             s == Kin(x).sibling
             g == Kin(x).grandparent
  <1>2. /\ x \in Live /\ heap[x].ty = "Leaf" /\ data[x] = h
        /\ pc = "del" /\ pc' = "hash" /\ leaves' = leaves /\ roots' = roots
    BY <1>1, TargetFacts
  <1>3. /\ heap[x].parent = p
        /\ p \in Live /\ s \in Live /\ g \in Live
        /\ heap[p].parent = g
        /\ heap[s].parent = p
        /\ s # x /\ s # p /\ x # p
        /\ {heap[p].left, heap[p].right} = {x, s}
        /\ heap[p].ty = "Branch"
        /\ data[p] # Empty
    BY <1>1, <1>2, InvParts, KinFacts
  <1>4. heap' = [Free(heap, {x, p}) EXCEPT
                     ![s] = WithParent(@, g),
                     ![g] = IF data[heap[g].left] = data[p] THEN WithLeft(@, s) ELSE WithRight(@, s)]
    BY <1>1
  <1>5. data' = [data EXCEPT ![x] = Empty, ![p] = Empty]
    BY <1>1
  <1> HIDE DEF x, p, s, g
  <1>6. HasPair(heap, p)
    <2>1. heap[p].left \in {x, s}
      BY <1>3
    <2>2. heap[p].left # Nil
      BY <2>1, <1>2, <1>3, InvParts
    <2> QED
      BY <2>2, <1>3 DEF HasPair
  <1>7. /\ p \in {heap[g].left, heap[g].right} /\ heap[g].left # heap[g].right
        /\ heap[g].left \in Live
        /\ g # x /\ g # p /\ g # s
    <2>1. p \in {heap[g].left, heap[g].right} /\ p < g
      BY <1>3, InvParts DEF Inv, PointersAgree, Linked
    <2>2. heap[g].left # Nil
      BY <1>3, <2>1, InvParts DEF Inv, PointersAgree, Linked
    <2>3. heap[g].left # heap[g].right /\ heap[g].left \in Live
      BY <1>3, <2>2 DEF Inv, PointersAgree, Linked, HasChildren
    <2>4. heap[x].left = Nil /\ heap[x].right = Nil
      BY <1>2 DEF Inv, PointersAgree, Linked, HasChildren
    <2>5. g # p /\ g # s /\ g # x
      <3>1. p # Nil
        BY <1>3, InvParts
      <3>2. s < p /\ p \in Nat /\ s \in Nat /\ g \in Nat
        BY <1>3, <3>1, InvParts DEF Inv, PointersAgree, Linked
      <3> QED
        BY <2>1, <2>4, <3>1, <3>2
    <2> QED
      BY <2>1, <2>3, <2>5
  <1>8. data[heap[g].left] = data[p] <=> heap[g].left = p
    BY <1>3, <1>7 DEF Inv, HashesIdentifyNodes
  <1> DEFINE newG == IF heap[g].left = p THEN WithLeft(heap[g], s) ELSE WithRight(heap[g], s)
  <1>9. /\ \A n \in Nodes : heap'[n] = IF n = g THEN newG
                                       ELSE IF n = s THEN WithParent(heap[s], g)
                                       ELSE IF n \in {x, p} THEN FreeNode ELSE heap[n]
        /\ \A n \in Live \ {x, p} : data'[n] = data[n]
    BY <1>3, <1>4, <1>5, <1>7, <1>8, InvParts DEF Free, Inv, TypeOK
  <1>10. /\ newG.ty = heap[g].ty
         /\ newG.left = IF heap[g].left = p THEN s ELSE heap[g].left
         /\ newG.right = IF heap[g].right = p THEN s ELSE heap[g].right
    BY <1>7 DEF WithLeft, WithRight
  <1> HIDE DEF newG
  <1>11. \A n \in Live : n # g => heap[n].left # p /\ heap[n].right # p
    <2> SUFFICES ASSUME NEW n \in Live, n # g, heap[n].left = p \/ heap[n].right = p PROVE FALSE
      OBVIOUS
    <2>1. HasChildren(n)
      BY <1>3, InvParts DEF Inv, PointersAgree, Linked, HasChildren
    <2>2. heap[p].parent = n
      BY <2>1 DEF Inv, PointersAgree, Linked
    <2> QED
      BY <1>3, <2>2
  <1>12. \A n \in Nodes : heap'[n].ty # "Free" <=> n \in Live \ {x, p}
    BY <1>3, <1>7, <1>9, <1>10 DEF Live, FreeNode, WithParent
  <1>13. \A n \in Live \ {x, p} :
             /\ heap'[n].ty = heap[n].ty
             /\ heap[n].ty = "Leaf" => data'[n] = data[n]
             /\ heap'[n].left = IF heap[n].left = p THEN s ELSE heap[n].left
             /\ heap'[n].right = IF heap[n].right = p THEN s ELSE heap[n].right
    <2>1. \A n \in Live \ {x, p, g} :
             /\ heap'[n].ty = heap[n].ty
             /\ heap'[n].left = heap[n].left
             /\ heap'[n].right = heap[n].right
      BY <1>9, InvParts DEF WithParent
    <2>2. heap'[g] = newG
      BY <1>3, <1>9, InvParts
    <2> QED
      BY <1>9, <1>10, <1>11, <2>1, <2>2
  <1>14. \A n \in Live \ {x} : Pruned(n, x) = IF n = p THEN TreeAt'[s] ELSE TreeAt'[n]
    <2>1. Spliced(x, p, s, heap', data')
      BY <1>2, <1>3, <1>6, <1>12, <1>13 DEF Spliced
    <2> QED
      BY <1>2, <1>3, <2>1, SplicedTrees
  <1>15. \A j \in 1..Len(roots) : roots[j] \in Live \ {x, p}
    BY <1>3, InvParts DEF Inv, RootsAreTheTops
  <1>16. /\ Len(roots') = Len(roots)
         /\ \A j \in 1..Len(roots) :
                TreeAt'[roots'[j]] = Facts!Without(TreeAt[roots[j]], {data[x]})
    BY <1>2, <1>14, <1>15 DEF Pruned
  <1> QED
    BY <1>2, <1>16, DeletionIsChange

\* recompute_hashes touches the hashes of branches and no tree.
LEMMA RecomputeHashIsStutter ==
    ASSUME Inv, Inv', RecomputeHash PROVE UNCHANGED Abstract!accVars
  <1>1. /\ pc = "hash" /\ pc' \in {"del", "hash"}
        /\ data' = [data EXCEPT ![node] = Rehashed(node)]
        /\ UNCHANGED <<roots, leaves, heap>>
    BY DEF RecomputeHash
  <1>2. \A n \in Live : heap[n].ty = "Leaf" => data'[n] = data[n]
    <2> SUFFICES ASSUME NEW n \in Live, heap[n].ty = "Leaf" PROVE data'[n] = data[n]
      OBVIOUS
    <2>1. ~ HasChildren(n)
      BY DEF Inv, PointersAgree, Linked
    <2>2. Rehashed(n) = data[n]
      BY <2>1 DEF Rehashed, HasChildren
    <2> QED
      BY <1>1, <2>2, InvParts DEF Inv, TypeOK
  <1>3. \A n \in Live : TreeAt'[n] = TreeAt[n]
    <2>1. \A n \in Live : HasPair(heap, n) => heap[n].left \in Live /\ heap[n].right \in Live
      BY LiveIsClosed
    <2> QED
      BY <1>1, <1>2, <2>1, StayedTrees
  <1>4. RootTrees' = RootTrees
    BY <1>1, <1>3, SameRootTrees DEF Inv, RootsAreTheTops
  <1>5. AbstractRoots' = AbstractRoots /\ LeavesMade' = LeavesMade
    BY <1>1, <1>4 DEF AbstractRoots, LeavesMade
  <1> QED
    BY <1>5, AbstractStutter

\* Nothing that leaves the forest alone changes its trees.
LEMMA ForestUntouchedIsStutter ==
    ASSUME UNCHANGED <<forest, node, carry>>, pc = "merge" <=> pc' = "merge"
    PROVE  UNCHANGED Abstract!accVars
  <1>1. TreeAt' = TreeAt
    BY TreesNext DEF TreeAt, forest
  <1>2. RootTrees' = RootTrees
    BY <1>1 DEF RootTrees, forest
  <1>3. AbstractRoots' = AbstractRoots /\ LeavesMade' = LeavesMade
    BY <1>1, <1>2 DEF AbstractRoots, LeavesMade, forest
  <1> QED
    BY <1>3, AbstractStutter

-----------------------------------------------------------------------------
\* A new leaf is a tree that joins the forest, before any merge is done.
LEMMA NewLeafIsAddition == ASSUME Inv, Inv', NewLeaf PROVE Abstract!AccNext
  <1>1. PICK x \in Fresh :
            /\ pc = "add" /\ pc' = "merge" /\ toAdd > 0
            /\ heap' = [heap EXCEPT ![x] = LeafNode]
            /\ data' = [data EXCEPT ![x] = LeafHash(leaves + 1)]
            /\ node' = x
            /\ carry' = leaves
            /\ UNCHANGED <<roots, leaves>>
    BY DEF NewLeaf
  <1>2. x \in Nodes /\ x \notin Live
    BY FreshFacts
  <1>3. /\ leaves \in Nat /\ LeavesMade = leaves /\ LeavesMade' = leaves + 1
        /\ 1 \in 0..(MaxLeaves - leaves)
    BY <1>1, BoundsAssumption DEF LeavesMade, Inv, TypeOK
  <1>4. /\ heap'[x] = LeafNode /\ data'[x] = LeafHash(leaves + 1)
        /\ \A n \in Live : heap'[n] = heap[n] /\ data'[n] = data[n]
    BY <1>1, <1>2, InvParts DEF Inv, TypeOK
  <1>5. \A n \in Live : HasPair(heap, n) => heap[n].left \in Live /\ heap[n].right \in Live
    BY LiveIsClosed
  <1>6. \A n \in Live : TreeAt'[n] = TreeAt[n]
    BY <1>4, <1>5, StayedTrees
  <1>7. RootTrees' = RootTrees
    BY <1>1, <1>6, SameRootTrees DEF Inv, RootsAreTheTops
  <1>8. Facts!Deletion(RootTrees, {}) = RootTrees
    <2>1. \A n \in Live : Facts!Without(TreeAt[n], {}) = TreeAt[n]
      BY <1>5, UntouchedTrees
    <2> QED
      BY <2>1, InvRootsHaveTrees DEF RootsHaveTrees, Facts!Deletion
  <1>9. TreeAt'[x] = LeafHash(leaves + 1)
    <2>1. x \in Live' /\ heap'[x].ty = "Leaf"
      BY <1>2, <1>4 DEF Live, LeafNode
    <2> QED
      BY <1>4, <2>1, InvNodeKindsNext DEF NodeKinds
  <1>10. AbstractRoots = RootTrees
    BY <1>1 DEF AbstractRoots
  <1>11. AbstractRoots' = Facts!JoinTree(RootTrees, LeafHash(leaves + 1), leaves)
    BY <1>1, <1>7, <1>9 DEF AbstractRoots
  <1>12. Facts!Addition(RootTrees, leaves, 1) = Facts!JoinTree(RootTrees, LeafHash(leaves + 1), leaves)
    BY <1>3, SameHashes, Facts!AdditionOne, BoundsAssumption
  <1> QED
    BY <1>3, <1>8, <1>10, <1>11, <1>12, AbstractChange

\* There are no fewer one bits than there are at the end.
LEMMA TrailingOnesAreOnes == \A n \in Nat : Facts!TrailingOnes[n] <= CountOnes[n]
  <1> DEFINE S == {n \in Nat : Facts!TrailingOnes[n] <= CountOnes[n]}
  <1>1. \A n \in Nat : /\ Facts!TrailingOnes[n] \in Nat
                       /\ n % 2 = 0 => Facts!TrailingOnes[n] = 0
                       /\ n % 2 = 1 => Facts!TrailingOnes[n] = 1 + Facts!TrailingOnes[n \div 2]
    BY Facts!TrailingOnesFacts, BoundsAssumption
  <1>2. \A n \in Nat : CountOnes[n] \in Nat
    BY CountOnesFacts
  <1>3. ASSUME NEW n \in Nat, \A m \in Nat : m < n => m \in S PROVE n \in S
    <2>1. CASE n % 2 = 0
      <3>1. Facts!TrailingOnes[n] = 0 /\ CountOnes[n] \in Nat
        BY <1>1, <1>2, <2>1
      <3> QED
        BY <3>1
    <2>2. CASE n % 2 = 1
      <3>1. n # 0 /\ n \div 2 \in Nat /\ n \div 2 < n
        BY <2>2
      <3>2. CountOnes[n] = 1 + CountOnes[n \div 2]
        BY <2>2, <3>1, CountOnesFacts
      <3>3. n \div 2 \in S
        BY <1>3, <3>1
      <3>4. Facts!TrailingOnes[n] = 1 + Facts!TrailingOnes[n \div 2]
        BY <1>1, <2>2
      <3> QED
        BY <1>1, <1>2, <3>1, <3>2, <3>3, <3>4
    <2> QED
      BY <2>1, <2>2
  <1>4. Nat \subseteq S
    <2> HIDE DEF S
    <2> QED
      BY <1>3, StrongInductionOn
  <1> QED
    BY <1>4

\* A merge with the last root leaves the merges that are still to come with
\* the same forest to make.
LEMMA PopIsStutter ==
    ASSUME Inv, Inv', PopRoot,
           \A i \in 1..(Len(roots) - 1) : TreeAt'[roots[i]] = TreeAt[roots[i]],
           TreeAt'[node'] = Facts!Joined(TreeAt[LastRoot], TreeAt[node])
    PROVE  UNCHANGED Abstract!accVars
  <1> DEFINE last == Len(roots)
  <1>1. /\ pc = "merge" /\ pc' = "merge" /\ leaves' = leaves
        /\ carry % 2 = 1 /\ carry' = carry \div 2
    BY DEF PopRoot
  <1>2. /\ last \in Nat /\ last > 0 /\ carry \in Nat
        /\ Len(roots') = last - 1
        /\ \A i \in 1..(last - 1) : roots'[i] = roots[i]
    BY <1>1, PopLemma, InvParts DEF Inv, TypeOK
  <1>3. Len(roots) = CountOnes[carry]
    BY <1>1 DEF Inv, RootsMatchLeafCount
  <1>4. RootsHaveTrees /\ RootsHaveTrees'
    BY InvRootsHaveTrees, InvRootsHaveTreesNext
  <1>5. Facts!TrailingOnes[carry] <= Len(RootTrees)
    BY <1>2, <1>3, <1>4, TrailingOnesAreOnes DEF RootsHaveTrees
  <1>6. /\ MaxNodes \in Nat
        /\ RootTrees \in Seq(Facts!TreesUpTo[MaxNodes])
        /\ TreeAt[node] \in Facts!TreesUpTo[MaxNodes]
    <2>1. node \in Live
      BY <1>1 DEF Inv, RootsAreTheTops
    <2> QED
      BY <1>4, <2>1, BoundsAssumption, InvNodeKinds DEF RootsHaveTrees, NodeKinds, Facts!Trees
  <1>7. Facts!JoinTree(RootTrees, TreeAt[node], carry) =
            Facts!JoinTree(SubSeq(RootTrees, 1, Len(RootTrees) - 1),
                           Facts!Joined(RootTrees[Len(RootTrees)], TreeAt[node]), carry \div 2)
    BY <1>1, <1>2, <1>5, <1>6, Facts!JoinTreeOdd, BoundsAssumption
  <1>8. RootTrees[Len(RootTrees)] = TreeAt[LastRoot]
    BY <1>2, <1>4 DEF RootsHaveTrees, LastRoot
  <1>9. RootTrees' = SubSeq(RootTrees, 1, Len(RootTrees) - 1)
    <2> DEFINE front == SubSeq(RootTrees, 1, Len(RootTrees) - 1)
    <2>1. Len(RootTrees) = last /\ Len(RootTrees') = last - 1
      BY <1>2, <1>4 DEF RootsHaveTrees
    <2>2. /\ front \in Seq(Facts!Trees) /\ Len(front) = last - 1
          /\ \A i \in 1..(last - 1) : front[i] = RootTrees[i]
      BY <1>2, <1>4, <2>1, DropLast DEF RootsHaveTrees
    <2>3. \A i \in 1..(last - 1) : RootTrees'[i] = RootTrees[i]
      <3> SUFFICES ASSUME NEW i \in 1..(last - 1) PROVE RootTrees'[i] = RootTrees[i]
        OBVIOUS
      <3>1. i \in 1..Len(roots) /\ i \in 1..Len(roots')
        BY <1>2
      <3>2. RootTrees[i] = TreeAt[roots[i]] /\ RootTrees'[i] = TreeAt'[roots'[i]]
        BY <1>4, <3>1 DEF RootsHaveTrees
      <3> QED
        BY <1>2, <3>2
    <2>4. RootTrees' \in Seq(Facts!Trees)
      BY <1>4 DEF RootsHaveTrees
    <2> HIDE DEF front, last
    <2> QED
      BY <2>1, <2>2, <2>3, <2>4 DEF front
  <1>10. AbstractRoots' = AbstractRoots /\ LeavesMade' = LeavesMade
    BY <1>1, <1>7, <1>8, <1>9 DEF AbstractRoots, LeavesMade
  <1> QED
    BY <1>10, AbstractStutter

\* An emptied tree is skipped.
LEMMA SkipEmptyRootIsStutter ==
    ASSUME Inv, Inv', SkipEmptyRoot PROVE UNCHANGED Abstract!accVars
  <1> DEFINE l == LastRoot
             Q == Live \ {l}
  <1>1. /\ PopRoot /\ pc = "merge" /\ data[l] = Empty
        /\ heap' = Free(heap, {l})
        /\ data' = data /\ node' = node
    BY DEF SkipEmptyRoot, PopRoot
  <1>2. Len(roots) \in Nat /\ Len(roots) > 0
    BY <1>1, PopLemma, InvParts
  <1>3. /\ l \in Live /\ heap[l].parent = Nil
        /\ node \in Q
        /\ \A i \in 1..(Len(roots) - 1) : roots[i] \in Q
    BY <1>1, <1>2 DEF LastRoot, Inv, RootsAreTheTops
  <1> HIDE DEF l
  <1>4. \A n \in Q : heap'[n] = heap[n] /\ data'[n] = data[n]
    BY <1>1, InvParts DEF Free
  <1>5. \A n \in Q : HasPair(heap, n) => heap[n].left \in Q /\ heap[n].right \in Q
    BY <1>3, LiveIsClosed, InvParts
  <1>6. \A n \in Q : TreeAt'[n] = TreeAt[n]
    BY <1>4, <1>5, StayedTrees
  <1>7. TreeAt[l] = Empty
    BY <1>1, <1>3, HashIsTree
  <1>8. TreeAt'[node'] = Facts!Joined(TreeAt[l], TreeAt[node])
    BY <1>1, <1>3, <1>6, <1>7, SameHashes DEF Facts!Joined
  <1> QED
    BY <1>1, <1>3, <1>6, <1>8, PopIsStutter DEF l

\* The node that is merged in has a tree.
LEMMA MergedNodeHasTree == ASSUME Inv, pc = "merge" PROVE TreeAt[node] # Empty
  <1>1. /\ node \in Live /\ \A i \in 1..Len(roots) : roots[i] # node
    BY DEF Inv, RootsAreTheTops
  <1>2. CASE heap[node].ty = "Leaf"
    BY <1>1, <1>2, InvNodeKinds DEF NodeKinds
  <1>3. CASE HasPair(heap, node)
    <2>1. TreeAt[node] = ParentHash(TreeAt[heap[node].left], TreeAt[heap[node].right])
      BY <1>1, <1>3, InvNodeKinds DEF NodeKinds
    <2> QED
      BY <2>1, HashKinds
  <1>4. CASE heap[node].ty # "Leaf" /\ ~ HasPair(heap, node)
    <2>1. heap[node].ty = "Branch"
      BY <1>1, <1>4, InvParts DEF Inv, TypeOK, Live, NodeRecords
    <2> QED
      BY <1>1, <1>4, <2>1 DEF Inv, EmptyMeansDeletedTree, HasChildren, HasPair
  <1> QED
    BY <1>2, <1>3, <1>4

\* Two trees become the children of a new node.
LEMMA MergeRootIsStutter ==
    ASSUME Inv, Inv', MergeRoot PROVE UNCHANGED Abstract!accVars
  <1> DEFINE l == LastRoot
  <1>1. PICK b \in Fresh :
            /\ PopRoot /\ pc = "merge" /\ data[l] # Empty
            /\ heap' = [heap EXCEPT
                            ![b] = WithRight(WithLeft(BranchNode, l), node),
                            ![l] = WithParent(@, b),
                            ![node] = WithParent(@, b)]
            /\ data' = [data EXCEPT ![b] = ParentHash(data[l], data[node])]
            /\ node' = b
    BY DEF MergeRoot, PopRoot
  <1>2. Len(roots) \in Nat /\ Len(roots) > 0
    BY <1>1, PopLemma, InvParts
  <1>3. /\ l \in Live /\ node \in Live /\ l # node
        /\ \A i \in 1..(Len(roots) - 1) : roots[i] \in Live
    BY <1>1, <1>2 DEF LastRoot, Inv, RootsAreTheTops
  <1>4. b \in Nodes /\ b \notin Live /\ b # l /\ b # node
    BY <1>3, FreshFacts
  <1> HIDE DEF l
  <1>5. /\ heap'[b].ty = "Branch" /\ heap'[b].left = l /\ heap'[b].right = node
        /\ \A n \in Live : /\ heap'[n].ty = heap[n].ty
                           /\ heap'[n].left = heap[n].left /\ heap'[n].right = heap[n].right
                           /\ data'[n] = data[n]
    BY <1>1, <1>3, <1>4, InvParts DEF WithLeft, WithRight, WithParent, BranchNode, Inv, TypeOK
  <1>6. \A n \in Live : HasPair(heap, n) => heap[n].left \in Live /\ heap[n].right \in Live
    BY LiveIsClosed
  <1>7. \A n \in Live : TreeAt'[n] = TreeAt[n]
    BY <1>5, <1>6, StayedTrees
  <1>8. TreeAt'[b] = ParentHash(TreeAt[l], TreeAt[node])
    <2>1. b \in Live' /\ HasPair(heap', b)
      BY <1>3, <1>4, <1>5, InvParts DEF Live, HasPair
    <2>2. TreeAt'[b] = ParentHash(TreeAt'[l], TreeAt'[node])
      BY <1>5, <2>1, InvNodeKindsNext DEF NodeKinds, HasPair
    <2> QED
      BY <1>3, <1>7, <2>2
  <1>9. TreeAt[l] # Empty /\ TreeAt[node] # Empty
    BY <1>1, <1>3, HashIsTree, MergedNodeHasTree
  <1>10. TreeAt'[node'] = Facts!Joined(TreeAt[l], TreeAt[node])
    BY <1>1, <1>8, <1>9, SameHashes DEF Facts!Joined
  <1> QED
    BY <1>1, <1>3, <1>7, <1>10, PopIsStutter DEF l

\* The tree that has no more merges to make is the last root.
LEMMA PushRootIsStutter ==
    ASSUME Inv, Inv', PushRoot PROVE UNCHANGED Abstract!accVars
  <1>1. /\ pc = "merge" /\ pc' = "add" /\ carry % 2 = 0
        /\ roots' = Append(roots, node) /\ leaves' = leaves + 1
        /\ UNCHANGED <<heap, data>>
    BY DEF PushRoot
  <1>2. RootsHaveTrees /\ RootsHaveTrees' /\ carry \in Nat /\ roots \in Seq(Nodes)
    BY InvRootsHaveTrees, InvRootsHaveTreesNext DEF Inv, TypeOK
  <1>3. /\ MaxNodes \in Nat
        /\ RootTrees \in Seq(Facts!TreesUpTo[MaxNodes])
        /\ TreeAt[node] \in Facts!TreesUpTo[MaxNodes]
    <2>1. node \in Live
      BY <1>1 DEF Inv, RootsAreTheTops
    <2> QED
      BY <1>2, <2>1, BoundsAssumption, InvNodeKinds DEF RootsHaveTrees, NodeKinds, Facts!Trees
  <1>4. AbstractRoots = Append(RootTrees, TreeAt[node])
    BY <1>1, <1>2, <1>3, Facts!JoinTreeEven, BoundsAssumption DEF AbstractRoots
  <1>5. TreeAt' = TreeAt
    BY <1>1, TreesNext DEF TreeAt
  <1>6. /\ Len(roots) \in Nat /\ Len(roots') = Len(roots) + 1
        /\ \A i \in 1..(Len(roots) + 1) : roots'[i] = IF i = Len(roots) + 1 THEN node ELSE roots[i]
    BY <1>1, <1>2
  <1>7. RootTrees' = Append(RootTrees, TreeAt[node])
    <2> DEFINE grown == Append(RootTrees, TreeAt[node])
    <2>1. /\ Len(RootTrees) = Len(roots) /\ RootTrees \in Seq(Facts!Trees)
          /\ \A i \in 1..Len(roots) : RootTrees[i] = TreeAt[roots[i]]
      BY <1>2 DEF RootsHaveTrees
    <2>2. /\ Len(RootTrees') = Len(roots) + 1 /\ RootTrees' \in Seq(Facts!Trees)
          /\ \A i \in 1..(Len(roots) + 1) : RootTrees'[i] = TreeAt[roots'[i]]
      BY <1>2, <1>5, <1>6 DEF RootsHaveTrees
    <2>3. /\ grown \in Seq(Facts!Trees) /\ Len(grown) = Len(roots) + 1
          /\ \A i \in 1..(Len(roots) + 1) :
                 grown[i] = IF i = Len(roots) + 1 THEN TreeAt[node] ELSE RootTrees[i]
      <3>1. TreeAt[node] \in Facts!Trees
        BY <1>3 DEF Facts!Trees
      <3>2. /\ grown \in Seq(Facts!Trees)
            /\ Len(grown) = Len(RootTrees) + 1
            /\ \A i \in 1..Len(RootTrees) : grown[i] = RootTrees[i]
            /\ grown[Len(RootTrees) + 1] = TreeAt[node]
        BY <2>1, <3>1, AppendProperties
      <3> HIDE DEF grown
      <3> QED
        BY <1>6, <2>1, <3>2
    <2>4. \A i \in 1..(Len(roots) + 1) : RootTrees'[i] = grown[i]
      BY <1>6, <2>1, <2>2, <2>3
    <2> HIDE DEF grown
    <2> QED
      BY <1>6, <2>2, <2>3, <2>4 DEF grown
  <1>8. AbstractRoots' = AbstractRoots /\ LeavesMade' = LeavesMade
    BY <1>1, <1>4, <1>7 DEF AbstractRoots, LeavesMade
  <1> QED
    BY <1>8, AbstractStutter

-----------------------------------------------------------------------------
LEMMA NextIsAbstract ==
    ASSUME Inv, Inv', [Next]_vars
    PROVE  Abstract!AccNext \/ UNCHANGED Abstract!accVars
  <1>1. CASE DelRoot
    BY <1>1, DelRootIsDeletion
  <1>2. CASE DelRootChild
    BY <1>2, DelRootChildIsDeletion
  <1>3. CASE DelInner
    BY <1>3, DelInnerIsDeletion
  <1>4. CASE RecomputeHash
    BY <1>4, RecomputeHashIsStutter
  <1>5. CASE NewLeaf
    BY <1>5, NewLeafIsAddition
  <1>6. CASE SkipEmptyRoot
    BY <1>6, SkipEmptyRootIsStutter
  <1>7. CASE MergeRoot
    BY <1>7, MergeRootIsStutter
  <1>8. CASE PushRoot
    BY <1>8, PushRootIsStutter
  <1>9. CASE Modify \/ ModifyUnknownTarget \/ TargetGone \/ Deleted \/ Return \/ UNCHANGED vars
    <2>1. UNCHANGED <<forest, node, carry>> /\ (pc = "merge" <=> pc' = "merge")
      BY <1>9 DEF Modify, ModifyUnknownTarget, TargetGone, NextTarget, Deleted, Return, vars, call
    <2> QED
      BY <2>1, ForestUntouchedIsStutter
  <1> QED
    BY <1>1, <1>2, <1>3, <1>4, <1>5, <1>6, <1>7, <1>8, <1>9 DEF Next, Step

LEMMA InitIsAbstract == Init => Abstract!AccInit
  <1> SUFFICES ASSUME Init PROVE Abstract!AccInit
    OBVIOUS
  <1>1. roots = <<>> /\ leaves = 0 /\ pc = "idle"
    BY DEF Init
  <1>2. RootTrees = <<>> /\ LeavesMade = 0
    BY <1>1 DEF RootTrees, LeavesMade
  <1> QED
    BY <1>1, <1>2 DEF Abstract!AccInit

\* The pointer forest implements the abstract accumulator: modify deletes
\* from the trees the leaves it is asked to delete and nothing else, and adds
\* its leaves as a binary counter carries, whatever has been deleted before.
THEOREM ImplementsAccumulatorHolds == Spec => ImplementsAccumulator
  <1>1. Inv /\ Inv' /\ [Next]_vars => [Abstract!AccNext]_(Abstract!accVars)
    BY NextIsAbstract
  <1> QED
    BY <1>1, InitIsAbstract, InvHolds, PTL DEF Spec, ImplementsAccumulator, Abstract!AccSpec
-----------------------------------------------------------------------------
(***************************************************************************)
(* MemForest implements LeafSet.  The leaves in the trees are the leaves in*)
(* the map, because Inv holds before and after every step; so a step       *)
(* changes the set of leaves as it changes the domain of the map, whatever *)
(* it does to the pointers.  When the loops of modify have nothing left to *)
(* do follows from where the call is, which CallState says.                *)
(***************************************************************************)
\* Between calls nothing is left to do, and while leaves are being added
\* nothing is left to delete.
CallState ==
    /\ pc \in {"idle", "add", "merge"} => todo = <<>>
    /\ pc = "idle" => toAdd = 0

\* The leaves in the trees are exactly the keys of the map.
LEMMA PresentIsTheMap == ASSUME Inv PROVE Present = DOMAIN map
  <1>1. ASSUME NEW h \in Present PROVE h \in DOMAIN map
    BY <1>1 DEF Present, Inv, MapIsTheLeaves
  <1>2. ASSUME NEW h \in DOMAIN map PROVE h \in Present
    BY <1>2 DEF Present, Inv, MapIsTheLeaves
  <1> QED
    BY <1>1, <1>2

LEMMA PresentIsTheMapNext == ASSUME Inv' PROVE Present' = (DOMAIN map)'
  <1>1. ASSUME NEW h \in Present' PROVE h \in (DOMAIN map)'
    BY <1>1 DEF Present, Inv, MapIsTheLeaves
  <1>2. ASSUME NEW h \in (DOMAIN map)' PROVE h \in Present'
    BY <1>2 DEF Present, Inv, MapIsTheLeaves
  <1> QED
    BY <1>1, <1>2

\* A deletion, whichever of the three it is, takes the next target.
LEMMA TakesTarget ==
    ASSUME DelRoot \/ DelRootChild \/ DelInner
    PROVE  \E h \in DOMAIN map : TakeTarget(h)
  BY DEF DelRoot, DelRootChild, DelInner

LEMMA TypesForCall == ASSUME Inv PROVE toAdd \in Nat /\ leaves \in Nat /\ \E S : todo \in Seq(S)
  BY DEF Inv, TypeOK

LEMMA InitCallState == Init => CallState
  BY DEF Init, CallState

\* Every step keeps what CallState says of the loops of modify.
LEMMA NextKeepsCallState == Inv /\ CallState /\ [Next]_vars => CallState'
  <1> SUFFICES ASSUME Inv, CallState, [Next]_vars PROVE CallState'
    OBVIOUS
  <1> USE DEF CallState
  <1>1. CASE Modify
    BY <1>1 DEF Modify
  <1>2. CASE ModifyUnknownTarget
    BY <1>2 DEF ModifyUnknownTarget
  <1>3. CASE TargetGone
    BY <1>3 DEF TargetGone
  <1>4. CASE DelRoot
    BY <1>4 DEF DelRoot, TakeTarget, NextTarget
  <1>5. CASE DelRootChild
    BY <1>5 DEF DelRootChild, TakeTarget, NextTarget
  <1>6. CASE DelInner
    BY <1>6 DEF DelInner
  <1>7. CASE RecomputeHash
    BY <1>7 DEF RecomputeHash
  <1>8. CASE Deleted
    BY <1>8 DEF Deleted
  <1>9. CASE NewLeaf
    BY <1>9 DEF NewLeaf
  <1>10. CASE SkipEmptyRoot
    BY <1>10 DEF SkipEmptyRoot, PopRoot
  <1>11. CASE MergeRoot
    BY <1>11 DEF MergeRoot, PopRoot
  <1>12. CASE PushRoot
    BY <1>12 DEF PushRoot
  <1>13. CASE Return
    BY <1>13 DEF Return
  <1>14. CASE UNCHANGED vars
    BY <1>14 DEF vars, call
  <1> QED
    BY <1>1, <1>2, <1>3, <1>4, <1>5, <1>6, <1>7, <1>8, <1>9, <1>10, <1>11, <1>12, <1>13, <1>14
       DEF Next, Step

-----------------------------------------------------------------------------
\* The empty forest has no leaves.
LEMMA InitIsContractInit == Init => Contract!Init
  <1> SUFFICES ASSUME Init PROVE Contract!Init
    OBVIOUS
  <1>1. Live = {} /\ Present = {}
    BY DEF Init, Live, FreeNode, Present
  <1> QED
    BY <1>1 DEF Init, Contract!Init, LeavesMade

\* A deletion takes the next target, and nothing else, out of the set.
LEMMA DeletionIsDelete ==
    ASSUME Inv, Inv', DelRoot \/ DelRootChild \/ DelInner
    PROVE  Contract!Delete
  <1>1. PICK h \in DOMAIN map : TakeTarget(h)
    BY TakesTarget
  <1>2. /\ h = Head(todo) /\ todo # <<>> /\ todo' = Tail(todo) /\ pc = "del"
        /\ map' = [k \in DOMAIN map \ {h} |-> map[k]]
        /\ UNCHANGED <<leaves, toAdd, result>>
    BY <1>1 DEF TakeTarget, NextTarget
  <1>3. pc' # "merge"
    BY <1>2 DEF DelRoot, DelRootChild, DelInner
  <1>4. UNCHANGED LeavesMade
    BY <1>2, <1>3 DEF LeavesMade
  <1>5. Present = DOMAIN map /\ Present' = DOMAIN map \ {h}
    BY <1>2, PresentIsTheMap, PresentIsTheMapNext
  <1> QED
    BY <1>2, <1>4, <1>5 DEF Contract!Delete

\* A new leaf joins the set when its node is made.
LEMMA NewLeafIsAdd == ASSUME Inv, Inv', CallState, NewLeaf PROVE Contract!Add
  <1>1. /\ pc = "add" /\ pc' = "merge" /\ toAdd > 0 /\ toAdd' = toAdd - 1
        /\ DOMAIN map' = DOMAIN map \cup {LeafHash(leaves + 1)}
        /\ UNCHANGED <<leaves, todo, result>>
    BY DEF NewLeaf
  <1>2. todo = <<>>
    BY <1>1 DEF CallState
  <1>3. LeavesMade = leaves /\ LeavesMade' = leaves + 1
    BY <1>1 DEF LeavesMade
  <1>4. Present' = Present \cup {LeafHash(leaves + 1)}
    BY <1>1, PresentIsTheMap, PresentIsTheMapNext
  <1> QED
    BY <1>1, <1>2, <1>3, <1>4 DEF Contract!Add, Contract!LeafHash, LeafHash

\* A call asks for leaves that are there.
LEMMA ModifyIsCall == ASSUME Inv, Inv', CallState, Modify PROVE Contract!Call
  <1>1. PICK adds \in AddSizes, dels \in 0..MaxDels : \E targets \in [1..dels -> DOMAIN map] :
            /\ pc = "idle"
            /\ todo' = targets
            /\ toAdd' = adds
            /\ pc' = "del"
            /\ UNCHANGED <<forest, node, carry, result>>
    BY DEF Modify
  <1>2. PICK targets \in [1..dels -> DOMAIN map] : todo' = targets
    BY <1>1
  <1>3. dels \in Nat /\ adds \in Nat
    BY BoundsAssumption
  <1>4. todo' \in Seq(DOMAIN map)
    BY <1>2, <1>3
  <1>5. todo = <<>> /\ toAdd = 0
    BY <1>1 DEF CallState
  <1>6. UNCHANGED <<map, leaves, result>> /\ UNCHANGED LeavesMade
    BY <1>1 DEF forest, LeavesMade
  <1>7. Present = DOMAIN map /\ Present' = DOMAIN map
    BY <1>6, PresentIsTheMap, PresentIsTheMapNext
  <1> QED
    BY <1>1, <1>3, <1>4, <1>5, <1>6, <1>7 DEF Contract!Call, Contract!NothingLeftToDo

\* A step that leaves the map, the targets and the leaves to add alone is not
\* seen in the set, if the leaves made stay the same too.
LEMMA UnseenStep ==
    ASSUME Inv, Inv', UNCHANGED <<map, todo, toAdd, result>>, UNCHANGED LeavesMade
    PROVE  UNCHANGED Contract!vars
  BY PresentIsTheMap, PresentIsTheMapNext DEF Contract!vars

\* Every step of modify is a step on the set of leaves, or is not seen in it.
LEMMA NextIsContractNext ==
    Inv /\ Inv' /\ CallState /\ [Next]_vars => [Contract!Next]_Contract!vars
  <1> SUFFICES ASSUME Inv, Inv', CallState, [Next]_vars
               PROVE  Contract!Next \/ UNCHANGED Contract!vars
    OBVIOUS
  <1>1. CASE Modify
    BY <1>1, ModifyIsCall DEF Contract!Next
  <1>2. CASE ModifyUnknownTarget
    <2>1. UNCHANGED <<map, leaves, pc, todo, toAdd>> /\ result' = "Err" /\ pc = "idle"
      BY <1>2 DEF ModifyUnknownTarget, forest
    <2>2. UNCHANGED Present /\ UNCHANGED LeavesMade
      BY <2>1, PresentIsTheMap, PresentIsTheMapNext DEF LeavesMade
    <2>3. Contract!Refuse
      BY <2>1, <2>2 DEF Contract!Refuse, Contract!NothingLeftToDo, CallState
    <2> QED
      BY <2>3 DEF Contract!Next
  <1>3. CASE TargetGone
    <2>1. /\ UNCHANGED <<map, leaves>> /\ pc = "del" /\ pc' = "idle" /\ result' = "Err"
          /\ todo # <<>> /\ Head(todo) \notin DOMAIN map /\ todo' = <<>> /\ toAdd' = 0
      BY <1>3 DEF TargetGone, NextTarget, forest
    <2>2. Present = DOMAIN map /\ UNCHANGED Present /\ UNCHANGED LeavesMade
      BY <2>1, PresentIsTheMap, PresentIsTheMapNext DEF LeavesMade
    <2>3. Contract!Abandon
      BY <2>1, <2>2 DEF Contract!Abandon
    <2> QED
      BY <2>3 DEF Contract!Next
  <1>4. CASE DelRoot \/ DelRootChild \/ DelInner
    BY <1>4, DeletionIsDelete DEF Contract!Next
  <1>5. CASE RecomputeHash
    BY <1>5, UnseenStep DEF RecomputeHash, LeavesMade
  <1>6. CASE Deleted
    BY <1>6, UnseenStep DEF Deleted, LeavesMade, forest
  <1>7. CASE NewLeaf
    BY <1>7, NewLeafIsAdd DEF Contract!Next
  <1>8. CASE SkipEmptyRoot
    BY <1>8, UnseenStep DEF SkipEmptyRoot, PopRoot, LeavesMade
  <1>9. CASE MergeRoot
    BY <1>9, UnseenStep DEF MergeRoot, PopRoot, LeavesMade
  <1>10. CASE PushRoot
    BY <1>10, UnseenStep DEF PushRoot, LeavesMade
  <1>11. CASE Return
    <2>1. /\ UNCHANGED <<map, leaves, todo, toAdd>> /\ pc = "add" /\ pc' = "idle"
          /\ result' = "Ok" /\ toAdd = 0
      BY <1>11 DEF Return, forest
    <2>2. UNCHANGED Present /\ UNCHANGED LeavesMade
      BY <2>1, PresentIsTheMap, PresentIsTheMapNext DEF LeavesMade
    <2>3. Contract!Finish
      BY <2>1, <2>2 DEF Contract!Finish, Contract!NothingLeftToDo, CallState
    <2> QED
      BY <2>3 DEF Contract!Next
  <1>12. CASE UNCHANGED vars
    BY <1>12, UnseenStep DEF vars, forest, call, LeavesMade
  <1> QED
    BY <1>1, <1>2, <1>3, <1>4, <1>5, <1>6, <1>7, <1>8, <1>9, <1>10, <1>11, <1>12 DEF Next, Step

\* The pointer forest of src/mem_forest/mod.rs keeps the promise of modify
\* about the set of leaves, for any number of leaves and any order of calls:
\* a deletion takes exactly the target out of the trees, an addition puts
\* exactly the new leaf in, and rehashing and merging move leaves but lose
\* none.
THEOREM ImplementsLeafSetHolds == Spec => ImplementsLeafSet
  <1>1. Spec => []CallState
    BY InitCallState, NextKeepsCallState, InvHolds, PTL DEF Spec
  <1> QED
    BY <1>1, InvHolds, InitIsContractInit, NextIsContractNext, PTL
       DEF Spec, ImplementsLeafSet, Contract!Spec
=============================================================================
