-------------------------- MODULE MemForestProofs --------------------------
(***************************************************************************)
(* The invariant of MemForest holds for every number of leaves, every heap *)
(* and every sequence of calls.                                            *)
(*                                                                         *)
(* Inv is inductive as a whole: none of its conjuncts is alone.  That a    *)
(* child or a root is found by comparing hashes is right only because no   *)
(* two nodes have one hash; that holds because equal parents would have    *)
(* equal children; that needs hashes that agree with the children, and     *)
(* pointers that agree with each other.  One lemma per action, with one    *)
(* step per conjunct of Inv.                                               *)
(*                                                                         *)
(* The second part is about the nodes: none leaks, none that is owned is   *)
(* freed (NothingLeaks), and the two ways between a leaf and its position  *)
(* agree (PositionsLeadBack).                                              *)
(*                                                                         *)
(* NothingLeaks follows from Inv alone: the owners of a node are its       *)
(* parent or the forest, a parent is younger than its children, and so the *)
(* chain of parents of a live node ends, at a node without a parent, which *)
(* is a root or the tree being merged in.                                  *)
(*                                                                         *)
(* PositionsLeadBack does not: it needs that no tree is higher than the    *)
(* row of its root, whatever was deleted and skipped on the way            *)
(* (HeightsFit, which is inductive relative to Inv).  Then every node has  *)
(* a row and an offset below its root, get_pos computes First(row) +       *)
(* offset (EveryNodeIsPlaced), detect_offset reads the turns back out of   *)
(* that number (DetectOffsetOf), and grab_node takes them                  *)
(* (GrabNodeArrives).                                                      *)
(***************************************************************************)
EXTENDS MemForest, PositionArithmetic, Induction, SequenceTheorems, TLAPS

\* Hashes of different kinds differ, and a parent hash determines the hashes
\* of its children: AccumulatorHash::parent_hash does not collide.
LEMMA HashKinds ==
    ASSUME NEW i, NEW a, NEW b, NEW c, NEW d
    PROVE  /\ LeafHash(i) # Empty
           /\ ParentHash(a, b) # Empty
           /\ LeafHash(i) # ParentHash(a, b)
           /\ IsBranchHash(ParentHash(a, b))
           /\ ~ IsBranchHash(LeafHash(i))
           /\ ~ IsBranchHash(Empty)
           /\ ParentHash(a, b) = ParentHash(c, d) => a = c /\ b = d
  BY DEF LeafHash, ParentHash, Empty, IsBranchHash

\* Two leaves never have the same hash.
LEMMA LeafHashInjective ==
    ASSUME NEW i, NEW j, LeafHash(i) = LeafHash(j) PROVE i = j
  BY DEF LeafHash

\* The recursive definition of CountOnes has a solution, which is the number
\* of one bits.
LEMMA CountOnesFacts ==
    /\ CountOnes \in [Nat -> Nat]
    /\ CountOnes[0] = 0
    /\ \A n \in Nat \ {0} : CountOnes[n] = (n % 2) + CountOnes[n \div 2]
  <1> DEFINE Rhs(f) == [n \in Nat |-> IF n = 0 THEN 0 ELSE (n % 2) + f[n \div 2]]
             rank   == [n \in Nat |-> n]
             z      == [n \in Nat |-> 0]
             b      == [n \in Nat |-> n \div 2]
             step   == [n \in Nat |-> [x \in Nat |-> (n % 2) + x]]
  <1>1. Descends(Nat, rank, {0}, b)
    BY DEF Descends
  <1>2. PICK f : f = [n \in Nat |-> f[n]] /\ LinearSolves(f, Nat, {0}, z, b, step)
             /\ \A n \in Nat : f[n] \in Nat
    <2> DEFINE V == [n \in Nat |-> Nat]
    <2>1. LinearValuesIn(V, Nat, {0}, z, b, step)
      BY DEF LinearValuesIn
    <2>2. \A n \in Nat : V[n] = Nat
      OBVIOUS
    <2> HIDE DEF rank, z, b, step, V
    <2>3. \E f : /\ f = [n \in Nat |-> f[n]]
                 /\ \A n \in Nat : f[n] \in V[n]
                 /\ LinearSolves(f, Nat, {0}, z, b, step)
      BY <1>1, <2>1, LinearRecursionExists
    <2> QED
      BY <2>2, <2>3
  <1>3. \A n \in Nat : f[n] = IF n = 0 THEN 0 ELSE (n % 2) + f[n \div 2]
    <2>1. \A n \in Nat : n \div 2 \in Nat
      OBVIOUS
    <2> QED
      BY <1>2, <2>1 DEF LinearSolves
  <1>4. f = Rhs(f)
    <2> HIDE DEF rank, z, b, step
    <2> QED
      BY <1>2, <1>3
  <1> DEFINE IsOne(g) == g = Rhs(g)
  <1>5. CountOnes = CHOOSE g : IsOne(g)
    BY DEF CountOnes
  <1>6. IsOne(f)
    BY <1>4
  <1> HIDE DEF IsOne
  <1>7. IsOne(CountOnes)
    BY <1>5, <1>6
  <1>8. CountOnes = Rhs(CountOnes)
    BY <1>7 DEF IsOne
  <1> QED
    <2> DEFINE S == {n \in Nat : CountOnes[n] \in Nat}
    <2>1. \A n \in Nat : CountOnes[n] = IF n = 0 THEN 0 ELSE (n % 2) + CountOnes[n \div 2]
      BY <1>8
    <2>2. Nat \subseteq S
      <3>1. ASSUME NEW n \in Nat, \A m \in Nat : m < n => m \in S PROVE n \in S
        <4>1. n # 0 => n \div 2 \in Nat /\ n \div 2 < n
          OBVIOUS
        <4>2. n # 0 => CountOnes[n \div 2] \in Nat
          BY <4>1, <3>1
        <4> QED
          BY <4>2, <2>1
      <3> HIDE DEF S
      <3> QED
        BY <3>1, StrongInductionOn
    <2>3. CountOnes = [n \in Nat |-> CountOnes[n]]
      BY <1>8
    <2> QED
      BY <2>1, <2>2, <2>3

\* add_single halves an odd number of leaves: one bit is taken off, and the
\* carry of adding one moves one bit up.
LEMMA Halving ==
    ASSUME NEW n \in 1..MaxLeaves, n % 2 = 1
    PROVE  /\ n \div 2 \in 0..MaxLeaves
           /\ CountOnes[n] = 1 + CountOnes[n \div 2]
           /\ n + 1 \in 1..MaxLeaves => /\ (n + 1) \div 2 = (n \div 2) + 1
                                        /\ CountOnes[n + 1] = CountOnes[(n \div 2) + 1]
  <1>1. n \div 2 \in 0..MaxLeaves /\ (n + 1) \div 2 = (n \div 2) + 1 /\ (n + 1) % 2 = 0
    BY BoundsAssumption
  <1>2. CountOnes[n] = 1 + CountOnes[n \div 2]
    BY CountOnesFacts, BoundsAssumption
  <1>3. ASSUME n + 1 \in 1..MaxLeaves PROVE CountOnes[n + 1] = CountOnes[(n \div 2) + 1]
    <2>1. (n \div 2) + 1 \in 0..MaxLeaves
      BY <1>3, BoundsAssumption
    <2>2. CountOnes[n + 1] = ((n + 1) % 2) + CountOnes[(n + 1) \div 2]
      BY <1>3, CountOnesFacts
    <2>3. CountOnes[(n \div 2) + 1] \in Nat
      BY <2>1, CountOnesFacts
    <2> QED
      BY <1>1, <2>2, <2>3
  <1> QED
    BY <1>1, <1>2, <1>3

\* What Vec::pop leaves.
LEMMA DropLast ==
    ASSUME NEW S, NEW s \in Seq(S), Len(s) > 0
    PROVE  /\ SubSeq(s, 1, Len(s) - 1) \in Seq(S)
           /\ Len(SubSeq(s, 1, Len(s) - 1)) = Len(s) - 1
           /\ \A i \in 1..(Len(s) - 1) : SubSeq(s, 1, Len(s) - 1)[i] = s[i]
  <1> DEFINE n == Len(s) - 1
             t == SubSeq(s, 1, n)
  <1>1. n \in Nat
    OBVIOUS
  <1>2. \A i \in 1..n : s[i] \in S
    OBVIOUS
  <1> HIDE DEF n
  <1>3. /\ t \in Seq(S)
        /\ Len(t) = IF 1 <= n THEN n - 1 + 1 ELSE 0
        /\ \A i \in 1..(n - 1 + 1) : t[i] = s[1 + i - 1]
    BY <1>1, <1>2, SubSeqProperties
  <1> HIDE DEF t
  <1>4. Len(t) = n
    BY <1>1, <1>3
  <1>5. \A i \in 1..n : t[i] = s[i]
    BY <1>1, <1>3
  <1> QED
    BY <1>3, <1>4, <1>5 DEF n, t

\* A one bit of the carry means that there is a root to pop.
LEMMA OddCarryHasRoot ==
    ASSUME Inv, pc = "merge", carry % 2 = 1
    PROVE  /\ Len(roots) \in Nat
           /\ Len(roots) > 0
           /\ carry \in 1..MaxLeaves
           /\ carry + 1 \in 1..MaxLeaves
           /\ CountOnes[carry \div 2] \in Nat
  <1>1. roots \in Seq(Nodes) /\ carry \in 0..leaves /\ leaves \in Nat /\ leaves + 1 <= MaxLeaves
    BY BoundsAssumption DEF Inv, TypeOK, LeavesMade
  <1>2. carry \in 1..MaxLeaves /\ carry + 1 \in 1..MaxLeaves
    BY <1>1, BoundsAssumption
  <1>3. Len(roots) = CountOnes[carry]
    BY DEF Inv, RootsMatchLeafCount
  <1>4. CountOnes[carry \div 2] \in Nat
    BY <1>2, Halving, CountOnesFacts
  <1>5. Len(roots) > 0
    BY <1>2, <1>3, <1>4, Halving
  <1> QED
    BY <1>1, <1>2, <1>4, <1>5

\* The step of add_single that pops a root keeps the count of the roots.
LEMMA PopLemma == ASSUME Inv, PopRoot
   PROVE /\ Len(roots) > 0
         /\ roots' \in Seq(Nodes)
         /\ Len(roots') = Len(roots) - 1
         /\ \A i \in 1..(Len(roots) - 1) : roots'[i] = roots[i]
         /\ Len(roots') = CountOnes[carry']
         /\ CountOnes[carry' + 1] = CountOnes[leaves + 1]
         /\ carry' \in 0..leaves
  <1> USE BoundsAssumption
  <1>1. roots \in Seq(Nodes) /\ carry \in 0..leaves /\ leaves \in Nat /\ leaves + 1 <= MaxLeaves /\ carry % 2 = 1
    BY DEF Inv, TypeOK, PopRoot, LeavesMade
  <1>2. /\ carry \in 1..MaxLeaves /\ carry + 1 \in 1..MaxLeaves
        /\ CountOnes[carry \div 2] \in Nat
        /\ Len(roots) \in Nat /\ Len(roots) > 0
    BY OddCarryHasRoot DEF PopRoot
  <1>3. Len(roots) = CountOnes[carry] /\ CountOnes[carry + 1] = CountOnes[leaves + 1]
    BY DEF Inv, PopRoot, RootsMatchLeafCount
  <1>6. roots' = SubSeq(roots, 1, Len(roots) - 1) /\ carry' = carry \div 2
    BY DEF PopRoot
  <1>8. /\ roots' \in Seq(Nodes)
        /\ Len(roots') = Len(roots) - 1
        /\ \A i \in 1..(Len(roots) - 1) : roots'[i] = roots[i]
    BY <1>1, <1>2, <1>6, DropLast
  <1>9. Len(roots') = CountOnes[carry'] /\ CountOnes[carry' + 1] = CountOnes[leaves + 1]
    <2>1. /\ CountOnes[carry] = 1 + CountOnes[carry \div 2]
          /\ CountOnes[carry + 1] = CountOnes[(carry \div 2) + 1]
      BY <1>1, <1>2, Halving
    <2>2. Len(roots') = CountOnes[carry \div 2]
      BY <2>1, <1>2, <1>3, <1>8
    <2> QED
      BY <2>1, <2>2, <1>3, <1>6
  <1>10. carry' \in 0..leaves
    BY <1>1, <1>6
  <1> QED
    BY <1>2, <1>8, <1>9, <1>10

\* Consequences of the invariant used almost everywhere.
LEMMA InvParts ==
    ASSUME Inv
    PROVE  /\ Live \subseteq Nodes
           /\ Nil \notin Nodes
           /\ Nodes \subseteq Nat
           /\ roots \in Seq(Nodes)
           /\ Len(roots) \in Nat
           /\ \A h \in DOMAIN map : h # Empty /\ ~ IsBranchHash(h)
  <1>1. ASSUME NEW h \in DOMAIN map PROVE h # Empty /\ ~ IsBranchHash(h)
    <2>1. PICK i : h = LeafHash(i)
      BY DEF Inv, TypeOK, LeafHashes
    <2> QED
      BY <2>1, HashKinds
  <1> QED
    BY <1>1, BoundsAssumption DEF Inv, TypeOK, Live, NodeRecords, Nodes, Nil

\* Looking a root up by its hash finds that root: no other root has the hash.
LEMMA RootIndexFinds ==
    ASSUME Inv, NEW i \in 1..Len(roots), data[roots[i]] # Empty
    PROVE  RootIndex(data[roots[i]]) = i
  <1>1. ASSUME NEW j \in 1..Len(roots), data[roots[j]] = data[roots[i]] PROVE j = i
    BY <1>1 DEF Inv, RootsAreTheTops, HashesIdentifyNodes
  <1>2. \A j \in 1..(i - 1) : j \in 1..Len(roots) /\ j # i
    BY InvParts
  <1>3. \A j \in 1..(i - 1) : data[roots[j]] # data[roots[i]]
    BY <1>1, <1>2
  <1> QED
    BY <1>1, <1>3 DEF RootIndex

\* A new node is not in use and is younger than all the others.
LEMMA FreshFacts ==
    ASSUME Inv, NEW e \in Fresh
    PROVE  /\ e \in Nodes
           /\ e \notin Live
           /\ \A m \in Live : m < e
  BY InvParts DEF Fresh, Live, Nodes

\* Deleting a leaf that is a root keeps the invariant.
LEMMA DelRootKeepsInv == ASSUME Inv, DelRoot PROVE Inv'
  <1>1. PICK h \in DOMAIN map, e \in Fresh :
            /\ TakeTarget(h)
            /\ heap[map[h]].parent = Nil
            /\ roots' = [roots EXCEPT ![RootIndex(data[map[h]])] = e]
            /\ heap' = [Free(heap, {map[h]}) EXCEPT ![e] = BranchNode]
            /\ data' = [data EXCEPT ![map[h]] = Empty, ![e] = Empty]
            /\ UNCHANGED <<pc, node>>
    BY DEF DelRoot
  <1> DEFINE x == map[h]
  <1>2. /\ map' = [k \in DOMAIN map \ {h} |-> map[k]]
        /\ todo' = Tail(todo)
        /\ UNCHANGED <<leaves, toAdd, carry, result, pc, node>>
        /\ pc = "del"
        /\ todo # <<>>
    BY <1>1 DEF TakeTarget, NextTarget
  <1>3. /\ x \in Live
        /\ heap[x].ty = "Leaf"
        /\ data[x] = h
        /\ h # Empty
        /\ heap[x].parent = Nil
    BY <1>1, InvParts DEF Inv, MapIsTheLeaves
  <1>4. PICK i \in 1..Len(roots) : roots[i] = x
    BY <1>2, <1>3 DEF Inv, RootsAreTheTops
  <1>5. RootIndex(data[x]) = i
    BY <1>3, <1>4, RootIndexFinds
  <1>6. e \in Nodes /\ e \notin Live /\ (\A m \in Live : m < e) /\ e # x
    BY <1>3, FreshFacts
  <1>7. /\ roots' \in Seq(Nodes)
        /\ Len(roots') = Len(roots)
        /\ \A j \in 1..Len(roots) : roots'[j] = IF j = i THEN e ELSE roots[j]
    BY <1>1, <1>5, <1>6, InvParts, ExceptSeq
  <1>8. \A n \in Nodes : heap'[n] = IF n = e THEN BranchNode ELSE IF n = x THEN FreeNode ELSE heap[n]
    BY <1>1, <1>6 DEF Free
  <1>9. Live' = (Live \ {x}) \cup {e}
    BY <1>8, <1>6, <1>3 DEF Live, FreeNode, BranchNode
  <1>10. /\ data' = [n \in Nodes |-> data'[n]]
         /\ \A n \in Nodes : data'[n] = IF n \in {e, x} THEN Empty ELSE data[n]
    BY <1>1 DEF Inv, TypeOK
  <1>11. TypeOK'
    <2>1. DOMAIN map' \subseteq DOMAIN map /\ \A k \in DOMAIN map' : map'[k] = map[k]
      BY <1>2
    <2>2. map' \in [DOMAIN map' -> Nodes]
      BY <1>2 DEF Inv, TypeOK
    <2>3. todo' \in Seq(LeafHashes(MaxLeaves))
      BY <1>2 DEF Inv, TypeOK
    <2>4. LeavesMade' = LeavesMade
      BY <1>2 DEF LeavesMade
    <2>5. heap' \in [Nodes -> NodeRecords]
      <3>1. FreeNode \in NodeRecords
        BY DEF FreeNode, NodeRecords
      <3>2. BranchNode \in NodeRecords
        BY DEF BranchNode, NodeRecords
      <3> QED
        BY <1>1, <3>1, <3>2 DEF Inv, TypeOK, Free
    <2> QED
      BY <1>2, <1>7, <1>10, <2>1, <2>2, <2>3, <2>4, <2>5 DEF Inv, TypeOK
  <1>12. RootsMatchLeafCount'
    BY <1>2, <1>7 DEF Inv, RootsMatchLeafCount
  <1>13. ASSUME NEW n \in Live', n # e
         PROVE  n \in Live /\ n # x /\ heap'[n] = heap[n] /\ data'[n] = data[n]
    BY <1>13, <1>3, <1>8, <1>9, <1>10, InvParts
  <1>14. heap'[e] = BranchNode /\ data'[e] = Empty
    BY <1>6, <1>8, <1>10
  <1>15. ASSUME NEW n \in Live
         PROVE  heap[n].parent # x /\ heap[n].left # x /\ heap[n].right # x
    <2>1. Linked(n) /\ Linked(x) /\ n \in Nodes /\ n # Nil
      BY <1>3, <1>15, InvParts DEF Inv, PointersAgree
    <2>2. heap[x].left = Nil /\ heap[x].right = Nil
      BY <2>1, <1>3 DEF Linked, HasChildren
    <2>3. heap[n].parent # x
      BY <2>1, <2>2, <1>3, InvParts DEF Linked
    <2>4. heap[n].left # x /\ heap[n].right # x
      BY <2>1, <1>3, InvParts DEF Linked, HasChildren
    <2> QED
      BY <2>3, <2>4
  <1>16. ASSUME NEW n \in Live, n # x
         PROVE  n \in Live' /\ heap'[n] = heap[n] /\ data'[n] = data[n]
    BY <1>16, <1>6, <1>8, <1>9, <1>10, InvParts
  <1>17. PointersAgree'
    <2> SUFFICES ASSUME NEW n \in Live' PROVE Linked(n)'
      BY DEF PointersAgree
    <2>1. CASE n = e
      BY <2>1, <1>14 DEF Linked, HasChildren, BranchNode
    <2>2. CASE n # e
      BY <2>2, <1>13, <1>15, <1>16, <1>9, <1>8, InvParts DEF Inv, PointersAgree, Linked, HasChildren
    <2> QED
      BY <2>1, <2>2
  <1>18. RootsAreTheTops'
    <2>1. ASSUME NEW j \in 1..Len(roots')
          PROVE  roots'[j] \in Live' /\ heap'[roots'[j]].parent = Nil
      <3>1. CASE j = i
        BY <3>1, <1>6, <1>7, <1>9, <1>14 DEF BranchNode
      <3>2. CASE j # i
        <4>1. roots'[j] = roots[j] /\ j \in 1..Len(roots)
          BY <2>1, <3>2, <1>7
        <4>2. roots[j] \in Live /\ heap[roots[j]].parent = Nil /\ roots[j] # x
          BY <4>1, <3>2, <1>4 DEF Inv, RootsAreTheTops
        <4> QED
          BY <4>1, <4>2, <1>16
      <3> QED
        BY <3>1, <3>2
    <2>2. \A j, k \in 1..Len(roots') : roots'[j] = roots'[k] => j = k
      <3>1. \A j, k \in 1..Len(roots) : roots[j] = roots[k] => j = k
        BY DEF Inv, RootsAreTheTops
      <3>2. \A j \in 1..Len(roots) : roots[j] # e
        BY <1>6 DEF Inv, RootsAreTheTops
      <3> QED
        BY <3>1, <3>2, <1>7
    <2>3. \A n \in Live' : heap'[n].parent = Nil => \E j \in 1..Len(roots') : roots'[j] = n
      BY <1>2, <1>4, <1>7, <1>13 DEF Inv, RootsAreTheTops
    <2> QED
      BY <2>1, <2>2, <2>3, <1>2 DEF RootsAreTheTops
  <1>19. MapIsTheLeaves'
    <2>1. ASSUME NEW k \in DOMAIN map'
          PROVE  map'[k] \in Live' /\ heap'[map'[k]].ty = "Leaf" /\ data'[map'[k]] = k
      <3>1. k \in DOMAIN map /\ k # h /\ map'[k] = map[k]
        BY <1>2, <2>1
      <3>2. map[k] \in Live /\ heap[map[k]].ty = "Leaf" /\ data[map[k]] = k
        BY <3>1 DEF Inv, MapIsTheLeaves
      <3>3. map[k] # x /\ map[k] # e
        BY <3>1, <3>2, <1>3, <1>6
      <3> QED
        BY <3>1, <3>2, <3>3, <1>9, <1>13
    <2>2. ASSUME NEW n \in Live', heap'[n].ty = "Leaf"
          PROVE  data'[n] \in DOMAIN map' /\ map'[data'[n]] = n
      <3>1. n # e
        BY <2>2, <1>14 DEF BranchNode
      <3> QED
        BY <3>1, <2>2, <1>13, <1>2, <1>3 DEF Inv, MapIsTheLeaves
    <2> QED
      BY <2>1, <2>2 DEF MapIsTheLeaves
  <1>20. EmptyMeansDeletedTree'
    <2>1. \E j \in 1..Len(roots') : roots'[j] = e
      BY <1>4, <1>7
    <2>2. ASSUME NEW n \in Live', n # e, NEW j \in 1..Len(roots), roots[j] = n
          PROVE  roots'[j] = n
      BY <2>2, <1>13, <1>4, <1>7
    <2> QED
      BY <2>1, <2>2, <1>13, <1>14, <1>7 DEF Inv, EmptyMeansDeletedTree, HasChildren, BranchNode
  <1>21. HashesIdentifyNodes'
    BY <1>13, <1>14 DEF Inv, HashesIdentifyNodes
  <1>22. HashesCommit'
    <2> SUFFICES ASSUME NEW n \in Live' PROVE Hashed(n)'
      BY <1>2 DEF HashesCommit
    <2>1. CASE n = e
      BY <2>1, <1>14 DEF Hashed, HasChildren, BranchNode
    <2>2. CASE n # e
      <3>1. Hashed(n) /\ Linked(n)
        BY <2>2, <1>2, <1>13 DEF Inv, HashesCommit, PointersAgree
      <3>2. HasChildren(n) => \A c \in {heap[n].left, heap[n].right} : c \in Live /\ c # x
        BY <3>1, <2>2, <1>13, <1>15 DEF Linked
      <3>3. HasChildren(n) => \A c \in {heap[n].left, heap[n].right} : data'[c] = data[c]
        BY <3>2, <1>16
      <3> QED
        BY <3>1, <3>3, <2>2, <1>13 DEF Hashed, HasChildren
    <2> QED
      BY <2>1, <2>2
  <1> QED
    BY <1>11, <1>12, <1>17, <1>18, <1>19, <1>20, <1>21, <1>22 DEF Inv

\* Only roots may have the empty hash.
LEMMA ChildNotEmpty ==
    ASSUME Inv, NEW n \in Live, heap[n].parent # Nil
    PROVE  data[n] # Empty
  <1>1. CASE heap[n].ty = "Leaf"
    BY <1>1, InvParts DEF Inv, MapIsTheLeaves
  <1>2. CASE heap[n].ty = "Branch"
    <2>1. HasChildren(n)
      BY <1>2 DEF Inv, EmptyMeansDeletedTree, RootsAreTheTops
    <2> QED
      BY <1>2, <2>1, HashKinds DEF Inv, EmptyMeansDeletedTree
  <1> QED
    BY <1>1, <1>2 DEF Inv, TypeOK, Live, NodeRecords

\* The nodes that del_single finds around a leaf by comparing hashes are its
\* parent, its sibling and its grandparent.
LEMMA KinFacts ==
    ASSUME Inv, NEW x \in Live, heap[x].ty = "Leaf", heap[x].parent # Nil
    PROVE  /\ Kin(x).parent = heap[x].parent
           /\ Kin(x).parent \in Live
           /\ Kin(x).sibling \in Live
           /\ Kin(x).grandparent = heap[Kin(x).parent].parent
           /\ heap[Kin(x).sibling].parent = Kin(x).parent
           /\ x < Kin(x).parent
           /\ Kin(x).sibling < Kin(x).parent
           /\ Kin(x).sibling # x
           /\ Kin(x).sibling # Kin(x).parent
           /\ x # Kin(x).parent
           /\ {heap[Kin(x).parent].left, heap[Kin(x).parent].right} = {x, Kin(x).sibling}
           /\ heap[x].left = Nil
           /\ heap[x].right = Nil
           /\ heap[Kin(x).parent].ty = "Branch"
           /\ data[Kin(x).parent] # Empty
           /\ data[Kin(x).sibling] # Empty
  <1> DEFINE p == heap[x].parent
             l == heap[p].left
             r == heap[p].right
             s == IF data[l] = data[x] THEN r ELSE l
  <1>1. Kin(x) = [parent |-> p, sibling |-> s, grandparent |-> heap[p].parent]
    BY DEF Kin
  <1>2. p \in Live /\ x \in {l, r} /\ x < p
    BY DEF Inv, PointersAgree, Linked
  <1>3. l # Nil
    BY <1>2, InvParts DEF Inv, PointersAgree, Linked, HasChildren
  <1>4. /\ heap[p].ty = "Branch"
        /\ l # r
        /\ l \in Live /\ heap[l].parent = p
        /\ r \in Live /\ heap[r].parent = p
    BY <1>2, <1>3 DEF Inv, PointersAgree, Linked, HasChildren
  <1>5. l < p /\ r < p
    BY <1>2, <1>4, InvParts DEF Inv, PointersAgree, Linked
  <1>6. l # p /\ r # p /\ x # p
    BY <1>2, <1>4, <1>5, InvParts
  <1>7. data[x] # Empty
    BY InvParts DEF Inv, MapIsTheLeaves
  <1>8. data[l] = data[x] <=> l = x
    BY <1>4, <1>7 DEF Inv, HashesIdentifyNodes
  <1>9. s \in {l, r} /\ s # x /\ {l, r} = {x, s}
    BY <1>2, <1>4, <1>8
  <1>10. heap[x].left = Nil /\ heap[x].right = Nil
    BY DEF Inv, PointersAgree, Linked, HasChildren
  <1>11. IsBranchHash(data[p])
    BY <1>2, <1>3, <1>4 DEF Inv, EmptyMeansDeletedTree, HasChildren
  <1>12. data[p] # Empty
    BY <1>11, HashKinds, SMTT(30)
  <1>13. s \in Live /\ heap[s].parent = p /\ heap[s].parent # Nil
    BY <1>2, <1>4, <1>9, InvParts
  <1>14. data[s] # Empty
    BY <1>13, ChildNotEmpty, SMTT(30)
  <1>15. s < p /\ s # p /\ l \in Live /\ r \in Live
    BY <1>4, <1>5, <1>6, <1>9
  <1>16. heap[p].ty = "Branch" /\ data[p] # Empty
    BY <1>2, <1>3, <1>4, <1>12 DEF Inv, PointersAgree, Linked, HasChildren
  <1>17. Kin(x).parent = p /\ Kin(x).sibling = s
    BY <1>1
  <1>18. Kin(x).grandparent = heap[p].parent /\ {heap[p].left, heap[p].right} = {l, r}
    BY <1>1
  <1> HIDE DEF s, l, r
  <1> QED
    BY <1>2, <1>6, <1>9, <1>10, <1>13, <1>14, <1>15, <1>16, <1>17, <1>18

\* Looking up the next target finds the leaf with that hash.
LEMMA TargetFacts ==
    ASSUME Inv, NEW h \in DOMAIN map, TakeTarget(h)
    PROVE  /\ map' = [k \in DOMAIN map \ {h} |-> map[k]]
           /\ UNCHANGED <<leaves, toAdd, carry, result>>
           /\ pc = "del"
           /\ map[h] \in Live
           /\ heap[map[h]].ty = "Leaf"
           /\ data[map[h]] = h
           /\ h # Empty
           /\ todo' \in Seq(LeafHashes(MaxLeaves))
           /\ map' \in [DOMAIN map' -> Nodes]
           /\ DOMAIN map' \subseteq LeafHashes(LeavesMade)
  <1>1. /\ map' = [k \in DOMAIN map \ {h} |-> map[k]]
        /\ todo' = Tail(todo)
        /\ UNCHANGED <<leaves, toAdd, carry, result>>
        /\ pc = "del"
        /\ todo # <<>>
    BY DEF TakeTarget, NextTarget
  <1>2. todo' \in Seq(LeafHashes(MaxLeaves))
    BY <1>1 DEF Inv, TypeOK
  <1>3. map' \in [DOMAIN map' -> Nodes] /\ DOMAIN map' \subseteq LeafHashes(LeavesMade)
    BY <1>1 DEF Inv, TypeOK
  <1> QED
    BY <1>1, <1>2, <1>3, InvParts DEF Inv, MapIsTheLeaves

\* Deleting a child of a root keeps the invariant: the sibling, the root now,
\* was the only other node that pointed to what is freed.
LEMMA DelRootChildKeepsInv == ASSUME Inv, DelRootChild PROVE Inv'
  <1>1. PICK h \in DOMAIN map :
            LET x == map[h]
                p == Kin(x).parent
                s == Kin(x).sibling
            IN  /\ TakeTarget(h)
                /\ heap[x].parent \in Live
                /\ Kin(x).grandparent = Nil
                /\ roots' = [roots EXCEPT ![RootIndex(data[p])] = s]
                /\ heap' = [Free(heap, {x, p}) EXCEPT ![s] = WithParent(@, Nil)]
                /\ data' = [data EXCEPT ![x] = Empty, ![p] = Empty]
                /\ UNCHANGED <<pc, node>>
    BY DEF DelRootChild
  <1> DEFINE x == map[h]
             p == Kin(x).parent
             s == Kin(x).sibling
  <1>2. /\ map' = [k \in DOMAIN map \ {h} |-> map[k]]
        /\ UNCHANGED <<leaves, toAdd, carry, result, pc, node>>
        /\ pc = "del"
        /\ x \in Live
        /\ heap[x].ty = "Leaf"
        /\ data[x] = h
        /\ h # Empty
        /\ todo' \in Seq(LeafHashes(MaxLeaves))
        /\ map' \in [DOMAIN map' -> Nodes]
        /\ DOMAIN map' \subseteq LeafHashes(LeavesMade)
    BY <1>1, TargetFacts
  <1>3. /\ heap[x].parent = p
        /\ p \in Live
        /\ s \in Live
        /\ heap[p].parent = Nil
        /\ heap[s].parent = p
        /\ x < p /\ s < p
        /\ s # x /\ s # p /\ x # p
        /\ {heap[p].left, heap[p].right} = {x, s}
        /\ heap[x].left = Nil /\ heap[x].right = Nil
        /\ heap[p].ty = "Branch"
        /\ data[p] # Empty /\ data[s] # Empty
    BY <1>1, <1>2, InvParts, KinFacts
  <1>4. PICK i \in 1..Len(roots) : roots[i] = p
    BY <1>2, <1>3 DEF Inv, RootsAreTheTops
  <1>5. RootIndex(data[p]) = i
    BY <1>3, <1>4, RootIndexFinds
  <1>6. roots' = [roots EXCEPT ![i] = s]
    BY <1>1, <1>5
  <1>7. heap' = [Free(heap, {x, p}) EXCEPT ![s] = WithParent(@, Nil)]
    BY <1>1
  <1>8. data' = [data EXCEPT ![x] = Empty, ![p] = Empty]
    BY <1>1
  <1> HIDE DEF x, p, s
  <1>9. /\ roots' \in Seq(Nodes)
        /\ Len(roots') = Len(roots)
        /\ \A j \in 1..Len(roots) : roots'[j] = IF j = i THEN s ELSE roots[j]
    BY <1>3, <1>6, InvParts, ExceptSeq
  <1>10. /\ heap' \in [Nodes -> NodeRecords]
         /\ \A n \in Nodes : heap'[n] = IF n = s THEN WithParent(heap[s], Nil)
                                         ELSE IF n \in {x, p} THEN FreeNode ELSE heap[n]
    <2>1. FreeNode \in NodeRecords /\ \A n \in Nodes : WithParent(heap[n], Nil) \in NodeRecords
      BY DEF FreeNode, WithParent, NodeRecords, Inv, TypeOK
    <2>2. heap \in [Nodes -> NodeRecords]
      BY DEF Inv, TypeOK, NodeRecords
    <2>3. \A n \in Nodes : heap'[n] = IF n = s THEN WithParent(heap[s], Nil)
                                      ELSE IF n \in {x, p} THEN FreeNode ELSE heap[n]
      BY <1>3, <1>7, <2>2, InvParts DEF Free
    <2>4. heap' = [n \in Nodes |-> heap'[n]]
      BY <1>7 DEF Free
    <2>5. \A n \in Nodes : heap'[n] \in NodeRecords
      BY <2>1, <2>2, <2>3, <1>3, InvParts
    <2>6. heap' \in [Nodes -> NodeRecords]
      BY <2>4, <2>5
    <2> QED
      BY <2>3, <2>6
  <1>11. /\ data' = [n \in Nodes |-> data'[n]]
         /\ \A n \in Nodes : data'[n] = IF n \in {x, p} THEN Empty ELSE data[n]
    BY <1>8 DEF Inv, TypeOK
  <1>12. Live' = Live \ {x, p}
    <2>1. heap[s].ty # "Free" /\ s \in Nodes /\ WithParent(heap[s], Nil).ty = heap[s].ty
      BY <1>3 DEF Live, WithParent
    <2>2. \A n \in Nodes : heap'[n].ty # "Free" <=> heap[n].ty # "Free" /\ n \notin {x, p}
      BY <1>3, <1>10, <2>1 DEF FreeNode
    <2> QED
      BY <2>2 DEF Live
  \* The other nodes keep their contents, and nothing points to x or p.
  <1>13. ASSUME NEW n \in Live, n \notin {x, p}
         PROVE  /\ n \in Live'
                /\ heap'[n] = IF n = s THEN WithParent(heap[s], Nil) ELSE heap[n]
                /\ data'[n] = data[n]
    BY <1>10, <1>11, <1>12, <1>13, InvParts
  <1>14. ASSUME NEW n \in Live, n \notin {x, p}
         PROVE  /\ heap[n].left \notin {x, p} /\ heap[n].right \notin {x, p}
                /\ heap[n].parent \in {x, p} => n = s
    <2>1. Linked(n) /\ Linked(p)
      BY <1>3, <1>14 DEF Inv, PointersAgree
    <2>2. heap[n].left # Nil \/ heap[n].right # Nil =>
              heap[heap[n].left].parent = n /\ heap[heap[n].right].parent = n
      BY <2>1 DEF Linked, HasChildren
    <2>3. heap[n].left # Nil <=> heap[n].right # Nil
      BY <2>1 DEF Linked
    <2>4. \A c \in {x, p} : c # Nil /\ heap[c].parent # n
      BY <1>2, <1>3, <1>14, InvParts
    <2>5. heap[n].left \notin {x, p} /\ heap[n].right \notin {x, p}
      BY <2>2, <2>3, <2>4
    <2>6. heap[n].parent = p => n \in {heap[p].left, heap[p].right}
      BY <2>1, <1>3, InvParts DEF Linked
    <2>7. heap[n].parent = x => n \in {heap[x].left, heap[x].right}
      BY <2>1, <1>2, InvParts DEF Linked
    <2> QED
      BY <2>5, <2>6, <2>7, <1>3, <1>14, InvParts
  <1>15. heap'[s] = [ty |-> heap[s].ty, parent |-> Nil, left |-> heap[s].left, right |-> heap[s].right]
    BY <1>3, <1>13 DEF WithParent
  <1>16. TypeOK'
    BY <1>2, <1>9, <1>10, <1>11 DEF Inv, TypeOK, LeavesMade, NodeRecords
  <1>17. RootsMatchLeafCount'
    BY <1>2, <1>9 DEF Inv, RootsMatchLeafCount
  <1>18. PointersAgree'
    <2> SUFFICES ASSUME NEW n \in Live' PROVE Linked(n)'
      BY DEF PointersAgree
    <2>1. n \in Live /\ n \notin {x, p} /\ Linked(n)
      BY <1>12 DEF Inv, PointersAgree
    <2>2. CASE n = s
      BY <2>1, <2>2, <1>13, <1>14, <1>15, InvParts, SMTT(30) DEF Linked, HasChildren, WithParent
    <2>3. CASE n # s
      <3>1. heap'[n] = heap[n]
        BY <2>1, <2>3, <1>13
      <3>2. \A c \in Live : c \notin {x, p} =>
                /\ c \in Live' /\ heap'[c].left = heap[c].left /\ heap'[c].right = heap[c].right
                /\ c # s => heap'[c].parent = heap[c].parent
        BY <1>13, <1>15
      <3>3. heap[n].left # s /\ heap[n].right # s
        BY <2>1, <1>3, InvParts DEF Linked, HasChildren
      <3>4. heap[n].parent \notin {x, p}
        BY <2>1, <2>3, <1>14
      <3> QED
        BY <2>1, <3>1, <3>2, <3>3, <3>4, <1>14 DEF Linked, HasChildren
    <2> QED
      BY <2>2, <2>3
  <1>19. RootsAreTheTops'
    <2>1. \A j \in 1..Len(roots) : roots[j] \in Live /\ heap[roots[j]].parent = Nil
      BY DEF Inv, RootsAreTheTops
    <2>2. \A j \in 1..Len(roots) : j # i => roots[j] \notin {x, p, s}
      <3>1. \A j, k \in 1..Len(roots) : roots[j] = roots[k] => j = k
        BY DEF Inv, RootsAreTheTops
      <3>2. heap[x].parent # Nil /\ heap[s].parent # Nil
        BY <1>3, InvParts
      <3> QED
        BY <3>1, <3>2, <1>4, <2>1
    <2>3. \A j \in 1..Len(roots') : roots'[j] \in Live' /\ heap'[roots'[j]].parent = Nil
      BY <2>1, <2>2, <1>3, <1>9, <1>12, <1>13, <1>15
    <2>4. \A j, k \in 1..Len(roots') : roots'[j] = roots'[k] => j = k
      BY <2>2, <1>9 DEF Inv, RootsAreTheTops
    <2>5. ASSUME NEW n \in Live', heap'[n].parent = Nil
          PROVE  \E j \in 1..Len(roots') : roots'[j] = n
      <3>1. CASE n = s
        BY <3>1, <1>4, <1>9
      <3>2. CASE n # s
        <4>1. n \in Live /\ n \notin {x, p} /\ heap[n].parent = Nil
          BY <2>5, <3>2, <1>12, <1>13
        <4>2. PICK j \in 1..Len(roots) : roots[j] = n
          BY <4>1, <1>2 DEF Inv, RootsAreTheTops
        <4> QED
          BY <4>1, <4>2, <1>4, <1>9
      <3> QED
        BY <3>1, <3>2
    <2> QED
      BY <2>3, <2>4, <2>5, <1>2 DEF RootsAreTheTops
  <1>20. MapIsTheLeaves'
    <2>1. ASSUME NEW k \in DOMAIN map'
          PROVE  map'[k] \in Live' /\ heap'[map'[k]].ty = "Leaf" /\ data'[map'[k]] = k
      <3>1. k \in DOMAIN map /\ k # h /\ map'[k] = map[k]
        BY <1>2, <2>1
      <3>2. map[k] \in Live /\ heap[map[k]].ty = "Leaf" /\ data[map[k]] = k
        BY <3>1 DEF Inv, MapIsTheLeaves
      <3>3. map[k] \notin {x, p}
        BY <3>1, <3>2, <1>2, <1>3
      <3> QED
        BY <3>1, <3>2, <3>3, <1>13, <1>15
    <2>2. ASSUME NEW n \in Live', heap'[n].ty = "Leaf"
          PROVE  data'[n] \in DOMAIN map' /\ map'[data'[n]] = n
      <3>1. n \in Live /\ n \notin {x, p} /\ heap[n].ty = "Leaf" /\ data'[n] = data[n]
        BY <2>2, <1>12, <1>13, <1>15
      <3>2. data[n] \in DOMAIN map /\ map[data[n]] = n
        BY <3>1 DEF Inv, MapIsTheLeaves
      <3>3. data[n] # h
        BY <3>1, <3>2 DEF x
      <3> QED
        BY <3>1, <3>2, <3>3, <1>2
    <2> QED
      BY <2>1, <2>2 DEF MapIsTheLeaves
  <1>21. EmptyMeansDeletedTree'
    <2> SUFFICES ASSUME NEW n \in Live', heap'[n].ty = "Branch"
                 PROVE  IF HasChildren(n)' THEN IsBranchHash(data'[n])
                        ELSE data'[n] = Empty /\ \E j \in 1..Len(roots') : roots'[j] = n
      BY DEF EmptyMeansDeletedTree
    <2>1. /\ n \in Live /\ n \notin {x, p} /\ heap[n].ty = "Branch" /\ data'[n] = data[n]
          /\ HasChildren(n)' <=> HasChildren(n)
      BY <1>12, <1>13, <1>15 DEF HasChildren
    <2>2. CASE HasChildren(n)
      BY <2>1, <2>2 DEF Inv, EmptyMeansDeletedTree
    <2>3. CASE ~ HasChildren(n)
      <3>1. data[n] = Empty /\ \E j \in 1..Len(roots) : roots[j] = n
        BY <2>1, <2>3 DEF Inv, EmptyMeansDeletedTree
      <3> QED
        BY <3>1, <2>1, <2>3, <1>4, <1>9
    <2> QED
      BY <2>2, <2>3
  <1>22. HashesIdentifyNodes'
    BY <1>12, <1>13 DEF Inv, HashesIdentifyNodes
  <1>23. HashesCommit'
    <2> SUFFICES ASSUME NEW n \in Live' PROVE Hashed(n)'
      BY <1>2 DEF HashesCommit
    <2>1. n \in Live /\ n \notin {x, p} /\ Hashed(n) /\ Linked(n)
      BY <1>2, <1>12 DEF Inv, HashesCommit, PointersAgree
    <2>2. heap'[n].left = heap[n].left /\ heap'[n].right = heap[n].right /\ data'[n] = data[n]
      BY <2>1, <1>13, <1>15
    <2>3. HasChildren(n) => \A c \in {heap[n].left, heap[n].right} : data'[c] = data[c]
      BY <2>1, <1>13, <1>14 DEF Linked
    <2> QED
      BY <2>1, <2>2, <2>3 DEF Hashed, HasChildren
  <1> QED
    BY <1>16, <1>17, <1>18, <1>19, <1>20, <1>21, <1>22, <1>23 DEF Inv

\* Deleting a leaf deeper down keeps the invariant: only the grandparent's
\* hash is out of date, and rehashing starts just below it.
LEMMA DelInnerKeepsInv == ASSUME Inv, DelInner PROVE Inv'
  <1>1. PICK h \in DOMAIN map :
            LET x == map[h]
                p == Kin(x).parent
                s == Kin(x).sibling
                g == Kin(x).grandparent
            IN  /\ TakeTarget(h)
                /\ heap[x].parent \in Live
                /\ g \in Live
                /\ heap' = [Free(heap, {x, p}) EXCEPT
                                ![s] = WithParent(@, g),
                                ![g] = IF data[heap[g].left] = data[p]
                                       THEN WithLeft(@, s) ELSE WithRight(@, s)]
                /\ data' = [data EXCEPT ![x] = Empty, ![p] = Empty]
                /\ pc' = "hash"
                /\ node' = s
                /\ UNCHANGED roots
    BY DEF DelInner
  <1> DEFINE x == map[h]
             p == Kin(x).parent
             s == Kin(x).sibling
             g == Kin(x).grandparent
  <1>2. /\ map' = [k \in DOMAIN map \ {h} |-> map[k]]
        /\ UNCHANGED <<leaves, toAdd, carry, result, roots>>
        /\ pc = "del" /\ pc' = "hash" /\ node' = s
        /\ x \in Live
        /\ heap[x].ty = "Leaf"
        /\ data[x] = h
        /\ h # Empty
        /\ todo' \in Seq(LeafHashes(MaxLeaves))
        /\ map' \in [DOMAIN map' -> Nodes]
        /\ DOMAIN map' \subseteq LeafHashes(LeavesMade)
    BY <1>1, TargetFacts
  <1>3. /\ heap[x].parent = p
        /\ p \in Live
        /\ s \in Live
        /\ heap[p].parent = g
        /\ heap[s].parent = p
        /\ x < p /\ s < p
        /\ s # x /\ s # p /\ x # p
        /\ {heap[p].left, heap[p].right} = {x, s}
        /\ heap[x].left = Nil /\ heap[x].right = Nil
        /\ heap[p].ty = "Branch"
        /\ data[p] # Empty /\ data[s] # Empty
        /\ g \in Live
    BY <1>1, <1>2, InvParts, KinFacts
  <1>4. data' = [data EXCEPT ![x] = Empty, ![p] = Empty]
    BY <1>1
  <1>5. heap' = [Free(heap, {x, p}) EXCEPT
                     ![s] = WithParent(@, g),
                     ![g] = IF data[heap[g].left] = data[p] THEN WithLeft(@, s) ELSE WithRight(@, s)]
    BY <1>1
  <1> HIDE DEF x, p, s, g
  <1>6. /\ p \in {heap[g].left, heap[g].right}
        /\ p < g
        /\ g # x /\ g # p /\ g # s
        /\ heap[g].left # heap[g].right
        /\ heap[g].left # Nil /\ heap[g].right # Nil
        /\ heap[g].left \in Live
        /\ heap[g].ty = "Branch"
    <2>1. p \in {heap[g].left, heap[g].right} /\ p < g
      BY <1>3, InvParts DEF Inv, PointersAgree, Linked
    <2>2. heap[g].left # Nil /\ heap[g].right # Nil
      BY <1>3, <2>1, InvParts DEF Inv, PointersAgree, Linked
    <2>3. heap[g].left # heap[g].right /\ heap[g].left \in Live /\ heap[g].ty = "Branch"
      BY <1>3, <2>2 DEF Inv, PointersAgree, Linked, HasChildren
    <2>4. g # x /\ g # p /\ g # s
      BY <1>3, <2>1, InvParts
    <2> QED
      BY <2>1, <2>2, <2>3, <2>4
  <1>7. data[heap[g].left] = data[p] <=> heap[g].left = p
    BY <1>3, <1>6 DEF Inv, HashesIdentifyNodes
  <1> DEFINE newG == IF heap[g].left = p THEN WithLeft(heap[g], s) ELSE WithRight(heap[g], s)
  <1>8. /\ heap' \in [Nodes -> NodeRecords]
        /\ \A n \in Nodes : heap'[n] = IF n = g THEN newG
                                        ELSE IF n = s THEN WithParent(heap[s], g)
                                        ELSE IF n \in {x, p} THEN FreeNode ELSE heap[n]
    <2>1. g \in Nodes /\ s \in Nodes
      BY <1>3, InvParts
    <2>2. heap \in [Nodes -> NodeRecords]
      BY DEF Inv, TypeOK, NodeRecords
    <2>3. \A n \in Nodes : heap'[n] = IF n = g THEN newG
                                      ELSE IF n = s THEN WithParent(heap[s], g)
                                      ELSE IF n \in {x, p} THEN FreeNode ELSE heap[n]
      BY <1>3, <1>5, <1>6, <1>7, <2>1, <2>2 DEF Free
    <2>4. heap' = [n \in Nodes |-> heap'[n]]
      BY <1>5 DEF Free
    <2>5. FreeNode \in NodeRecords
      BY DEF FreeNode, NodeRecords
    <2>6. WithParent(heap[s], g) \in NodeRecords /\ newG \in NodeRecords
      BY <2>1, <2>2 DEF WithParent, WithLeft, WithRight, NodeRecords
    <2> HIDE DEF newG
    <2>7. \A n \in Nodes : heap'[n] \in NodeRecords
      BY <2>2, <2>3, <2>5, <2>6
    <2>8. heap' \in [Nodes -> NodeRecords]
      BY <2>4, <2>7
    <2> QED
      BY <2>3, <2>8
  <1>9. newG = [ty |-> heap[g].ty, parent |-> heap[g].parent,
                left |-> IF heap[g].left = p THEN s ELSE heap[g].left,
                right |-> IF heap[g].left = p THEN heap[g].right ELSE s]
    BY DEF WithLeft, WithRight
  <1> HIDE DEF newG
  <1>10. heap'[g] = newG
         /\ heap'[s] = [ty |-> heap[s].ty, parent |-> g, left |-> heap[s].left, right |-> heap[s].right]
    BY <1>3, <1>6, <1>8, InvParts DEF WithParent
  <1>11. /\ data' = [n \in Nodes |-> data'[n]]
         /\ \A n \in Nodes : data'[n] = IF n \in {x, p} THEN Empty ELSE data[n]
    BY <1>4 DEF Inv, TypeOK
  <1>12. Live' = Live \ {x, p}
    <2>1. heap'[g].ty = heap[g].ty /\ heap'[s].ty = heap[s].ty
      BY <1>9, <1>10
    <2>2. \A n \in Nodes : heap'[n].ty # "Free" <=> heap[n].ty # "Free" /\ n \notin {x, p}
      BY <1>3, <1>6, <1>8, <2>1 DEF FreeNode
    <2> QED
      BY <2>2 DEF Live
  \* The other nodes keep their contents, and nothing else points to x or p.
  <1>13. ASSUME NEW n \in Live, n \notin {x, p}
         PROVE  /\ n \in Live'
                /\ n \notin {s, g} => heap'[n] = heap[n]
                /\ heap'[n].ty = heap[n].ty
                /\ data'[n] = data[n]
    BY <1>8, <1>9, <1>10, <1>11, <1>12, <1>13, InvParts
  <1>14. ASSUME NEW n \in Live, n \notin {x, p}
         PROVE  /\ n # g => heap[n].left \notin {x, p} /\ heap[n].right \notin {x, p}
                /\ heap[n].parent \in {x, p} => n = s
    <2>1. Linked(n) /\ Linked(p)
      BY <1>3, <1>14 DEF Inv, PointersAgree
    <2>2. heap[n].left # Nil \/ heap[n].right # Nil =>
              heap[heap[n].left].parent = n /\ heap[heap[n].right].parent = n
      BY <2>1 DEF Linked, HasChildren
    <2>3. heap[n].left # Nil <=> heap[n].right # Nil
      BY <2>1 DEF Linked
    <2>4. n # g => \A c \in {x, p} : c # Nil /\ heap[c].parent # n
      BY <1>2, <1>3, <1>14, InvParts
    <2>5. n # g => heap[n].left \notin {x, p} /\ heap[n].right \notin {x, p}
      BY <2>2, <2>3, <2>4
    <2>6. heap[n].parent = p => n \in {heap[p].left, heap[p].right}
      BY <2>1, <1>3, InvParts DEF Linked
    <2>7. heap[n].parent = x => n \in {heap[x].left, heap[x].right}
      BY <2>1, <1>2, InvParts DEF Linked
    <2> QED
      BY <2>5, <2>6, <2>7, <1>3, <1>14, InvParts
  <1>15. TypeOK'
    BY <1>2, <1>3, <1>8, <1>11, InvParts DEF Inv, TypeOK, LeavesMade, NodeRecords
  <1>16. RootsMatchLeafCount'
    BY <1>2 DEF Inv, RootsMatchLeafCount
  <1>17. PointersAgree'
    <2> SUFFICES ASSUME NEW n \in Live' PROVE Linked(n)'
      BY DEF PointersAgree
    <2>1. n \in Live /\ n \notin {x, p} /\ Linked(n)
      BY <1>12 DEF Inv, PointersAgree
    <2>2. \A c \in Live : c \notin {x, p, g} =>
              c \in Live' /\ heap'[c].left = heap[c].left /\ heap'[c].right = heap[c].right
      BY <1>10, <1>13
    <2>3. \A c \in Live : c \notin {x, p, s} => c \in Live' /\ heap'[c].parent = heap[c].parent
      BY <1>9, <1>10, <1>13
    <2>4. CASE n = s
      <3>1. /\ heap'[s].parent = g /\ g \in Live' /\ s < g
            /\ s \in {heap'[g].left, heap'[g].right}
        BY <1>3, <1>6, <1>9, <1>10, <1>12, InvParts
      <3>2. \A c \in {heap[s].left, heap[s].right} : c # s
        BY <2>1, <2>4, <1>3, InvParts DEF Linked, HasChildren
      <3>3. heap[s].left \notin {x, p} /\ heap[s].right \notin {x, p}
        BY <2>1, <2>4, <1>6, <1>14
      <3>4. heap'[s].ty = heap[s].ty /\ heap'[s].left = heap[s].left /\ heap'[s].right = heap[s].right
        BY <1>10
      <3> QED
        BY <2>1, <2>3, <2>4, <3>1, <3>2, <3>3, <3>4 DEF Linked, HasChildren
    <2>5. CASE n = g
      <3>1. \A c \in {heap'[g].left, heap'[g].right} : c \in Live' /\ heap'[c].parent = g
        <4> DEFINE o == IF heap[g].left = p THEN heap[g].right ELSE heap[g].left
        <4>1. {heap'[g].left, heap'[g].right} = {s, o}
          BY <1>9, <1>10
        <4>2. o \in Live /\ heap[o].parent = g /\ o # p
          BY <2>1, <2>5, <1>6 DEF Linked, HasChildren
        <4>3. o \notin {x, p, s}
          BY <4>2, <1>3, <1>6
        <4>4. o \in Live' /\ heap'[o].parent = g
          BY <4>2, <4>3, <2>3
        <4> QED
          BY <4>1, <4>4, <1>3, <1>10, <1>12
      <3>2. heap'[g].left # heap'[g].right /\ heap'[g].left # Nil /\ heap'[g].right # Nil
        BY <2>1, <2>5, <1>3, <1>6, <1>9, <1>10, InvParts DEF Linked, HasChildren
      <3>3. heap'[g].ty = "Branch" /\ heap'[g].parent = heap[g].parent
        BY <1>6, <1>9, <1>10
      <3>4. heap[g].parent \notin {x, p, g}
        BY <2>1, <2>5, <1>6, <1>14, InvParts DEF Linked
      <3>5. heap[g].parent # Nil =>
                /\ heap[g].parent \in Live'
                /\ g \in {heap'[heap[g].parent].left, heap'[heap[g].parent].right}
        BY <2>1, <2>2, <2>5, <3>4 DEF Linked
      <3> QED
        BY <2>1, <2>5, <3>1, <3>2, <3>3, <3>5 DEF Linked, HasChildren
    <2>6. CASE n \notin {s, g}
      <3>1. heap'[n] = heap[n]
        BY <2>1, <2>6, <1>13
      <3>2. \A c \in {heap[n].left, heap[n].right} : c # s /\ c \notin {x, p}
        BY <2>1, <2>6, <1>3, <1>14, InvParts DEF Linked, HasChildren
      <3>3. heap[n].parent \notin {x, p}
        BY <2>1, <2>6, <1>14
      <3>4. heap[n].parent = g => n \in {heap'[g].left, heap'[g].right}
        <4>1. heap[n].parent = g => n \in {heap[g].left, heap[g].right} /\ n # p
          BY <2>1, <1>3, InvParts DEF Linked
        <4> QED
          BY <4>1, <1>6, <1>9, <1>10
      <3>5. heap[n].parent # Nil =>
                /\ heap[n].parent \in Live'
                /\ n \in {heap'[heap[n].parent].left, heap'[heap[n].parent].right}
        <4>1. CASE heap[n].parent = g
          BY <4>1, <3>4, <1>3, <1>6, <1>12
        <4>2. CASE heap[n].parent # g
          BY <4>2, <2>1, <2>2, <3>3 DEF Linked
        <4> QED
          BY <4>1, <4>2
      <3> QED
        BY <2>1, <2>3, <3>1, <3>2, <3>5 DEF Linked, HasChildren
    <2> QED
      BY <2>4, <2>5, <2>6
  <1>18. RootsAreTheTops'
    <2>1. \A j \in 1..Len(roots) : roots[j] \in Live /\ heap[roots[j]].parent = Nil
      BY DEF Inv, RootsAreTheTops
    <2>2. \A j \in 1..Len(roots) : roots[j] \notin {x, p, s}
      BY <1>3, <2>1, InvParts
    <2>3. \A j \in 1..Len(roots) : roots[j] \in Live' /\ heap'[roots[j]].parent = Nil
      BY <2>1, <2>2, <1>9, <1>10, <1>13
    <2>4. \A j, k \in 1..Len(roots) : roots[j] = roots[k] => j = k
      BY DEF Inv, RootsAreTheTops
    <2>5. ASSUME NEW n \in Live', heap'[n].parent = Nil
          PROVE  \E j \in 1..Len(roots) : roots[j] = n
      <3>1. n \in Live /\ heap[n].parent = Nil
        BY <2>5, <1>3, <1>9, <1>10, <1>12, <1>13, InvParts
      <3> QED
        BY <3>1, <1>2 DEF Inv, RootsAreTheTops
    <2>6. node' \in Live'
      BY <1>2, <1>3, <1>12
    <2> QED
      BY <2>3, <2>4, <2>5, <2>6, <1>2 DEF RootsAreTheTops
  <1>19. MapIsTheLeaves'
    <2>1. ASSUME NEW k \in DOMAIN map'
          PROVE  map'[k] \in Live' /\ heap'[map'[k]].ty = "Leaf" /\ data'[map'[k]] = k
      <3>1. k \in DOMAIN map /\ k # h /\ map'[k] = map[k]
        BY <1>2, <2>1
      <3>2. map[k] \in Live /\ heap[map[k]].ty = "Leaf" /\ data[map[k]] = k
        BY <3>1 DEF Inv, MapIsTheLeaves
      <3>3. map[k] \notin {x, p}
        BY <3>1, <3>2, <1>2, <1>3
      <3> QED
        BY <3>1, <3>2, <3>3, <1>13
    <2>2. ASSUME NEW n \in Live', heap'[n].ty = "Leaf"
          PROVE  data'[n] \in DOMAIN map' /\ map'[data'[n]] = n
      <3>1. n \in Live /\ n \notin {x, p} /\ heap[n].ty = "Leaf" /\ data'[n] = data[n]
        BY <2>2, <1>12, <1>13
      <3>2. data[n] \in DOMAIN map /\ map[data[n]] = n
        BY <3>1 DEF Inv, MapIsTheLeaves
      <3>3. data[n] # h
        BY <3>1, <3>2 DEF x
      <3> QED
        BY <3>1, <3>2, <3>3, <1>2
    <2> QED
      BY <2>1, <2>2 DEF MapIsTheLeaves
  <1>20. EmptyMeansDeletedTree'
    <2> SUFFICES ASSUME NEW n \in Live', heap'[n].ty = "Branch"
                 PROVE  IF HasChildren(n)' THEN IsBranchHash(data'[n])
                        ELSE data'[n] = Empty /\ \E j \in 1..Len(roots') : roots'[j] = n
      BY DEF EmptyMeansDeletedTree
    <2>1. n \in Live /\ heap[n].ty = "Branch" /\ data'[n] = data[n]
      BY <1>12, <1>13
    <2>2. heap'[n].left # Nil <=> heap[n].left # Nil
      BY <2>1, <1>3, <1>6, <1>9, <1>10, <1>12, <1>13, InvParts
    <2> QED
      BY <2>1, <2>2, <1>2 DEF Inv, EmptyMeansDeletedTree, HasChildren
  <1>21. HashesIdentifyNodes'
    BY <1>12, <1>13 DEF Inv, HashesIdentifyNodes
  <1>22. HashesCommit'
    <2>1. ASSUME NEW n \in Live', n # g PROVE Hashed(n)'
      <3>1. n \in Live /\ n \notin {x, p} /\ Hashed(n) /\ Linked(n)
        BY <1>2, <1>12, <2>1 DEF Inv, HashesCommit, PointersAgree
      <3>2. heap'[n].left = heap[n].left /\ heap'[n].right = heap[n].right /\ data'[n] = data[n]
        BY <3>1, <2>1, <1>10, <1>13
      <3>3. HasChildren(n) => \A c \in {heap[n].left, heap[n].right} : data'[c] = data[c]
        BY <3>1, <2>1, <1>13, <1>14 DEF Linked
      <3> QED
        BY <3>1, <3>2, <3>3 DEF Hashed, HasChildren
    <2>2. heap'[node'].parent = g
      BY <1>2, <1>10
    <2>3. PICK m : m = s
      OBVIOUS
    <2>4. Hashed(m)' /\ node' = m
      BY <2>1, <2>3, <1>2, <1>3, <1>6, <1>12
    <2>5. Hashed(node)'
      BY <2>4 DEF Hashed, HasChildren
    <2> QED
      BY <2>1, <2>2, <2>5, <1>2 DEF HashesCommit
  <1> QED
    BY <1>15, <1>16, <1>17, <1>18, <1>19, <1>20, <1>21, <1>22 DEF Inv

\* Rehashing one level keeps the invariant: the only hash that may be out of
\* date is put right, it is nobody else's, and its parent is next.
LEMMA RecomputeHashKeepsInv == ASSUME Inv, RecomputeHash PROVE Inv'
  <1>1. /\ pc = "hash"
        /\ node \in Live
        /\ data' = [data EXCEPT ![node] = Rehashed(node)]
        /\ node' = heap[node].parent
        /\ pc' = IF heap[node].parent = Nil THEN "del" ELSE "hash"
        /\ UNCHANGED <<roots, leaves, map, heap, todo, toAdd, carry, result>>
    BY DEF RecomputeHash, Inv, RootsAreTheTops
  <1>2. Live' = Live
    BY <1>1 DEF Live
  <1>3. Linked(node)
    BY <1>1 DEF Inv, PointersAgree
  <1> PICK l, r, p : l = heap[node].left /\ r = heap[node].right /\ p = heap[node].parent
    OBVIOUS
  <1> PICK m : m = node
    OBVIOUS
  <1>4. /\ data' = [n \in Nodes |-> data'[n]]
        /\ \A n \in Nodes : data'[n] = IF n = m /\ HasChildren(m) THEN ParentHash(data[l], data[r])
                                        ELSE data[n]
    BY <1>1, <1>3, InvParts DEF Rehashed, Inv, TypeOK, HasChildren, Linked
  <1>5. HasChildren(m) =>
            /\ heap[m].ty = "Branch"
            /\ l # r
            /\ l \in Live /\ heap[l].parent = m /\ data[l] # Empty
            /\ r \in Live /\ heap[r].parent = m /\ data[r] # Empty
            /\ l # m /\ r # m
    <2> SUFFICES ASSUME HasChildren(m)
                 PROVE  \A c \in {l, r} : /\ c \in Live /\ heap[c].parent = m
                                          /\ data[c] # Empty /\ c # m
      BY <1>3 DEF Linked, HasChildren
    <2> TAKE c \in {l, r}
    <2>1. c \in Live /\ heap[c].parent = m /\ m # Nil
      BY <1>1, <1>3, InvParts DEF Linked, HasChildren
    <2>2. data[c] # Empty
      BY <2>1, ChildNotEmpty
    <2>3. c < m
      BY <2>1 DEF Inv, PointersAgree, Linked
    <2> QED
      BY <2>1, <2>2, <2>3, InvParts
  <1>6. TypeOK'
    <2>1. heap[node].parent \in Nodes \cup {Nil}
      BY <1>3, InvParts DEF Linked
    <2>2. LeavesMade' = LeavesMade
      BY <1>1 DEF LeavesMade
    <2> QED
      BY <2>1, <2>2, <1>1, <1>4 DEF Inv, TypeOK
  <1>7. RootsMatchLeafCount'
    BY <1>1 DEF Inv, RootsMatchLeafCount
  <1>8. PointersAgree'
    BY <1>1, <1>2 DEF Inv, PointersAgree, Linked, HasChildren
  <1>9. RootsAreTheTops'
    BY <1>1, <1>2, <1>3 DEF Inv, RootsAreTheTops, Linked
  <1>10. MapIsTheLeaves'
    <2>1. \A n \in Live : heap[n].ty = "Leaf" => data'[n] = data[n]
      BY <1>4, <1>5, InvParts
    <2> QED
      BY <2>1, <1>1, <1>2 DEF Inv, MapIsTheLeaves
  <1>11. EmptyMeansDeletedTree'
    <2> SUFFICES ASSUME NEW n \in Live, heap[n].ty = "Branch"
                 PROVE  IF HasChildren(n) THEN IsBranchHash(data'[n])
                        ELSE data'[n] = Empty /\ \E i \in 1..Len(roots) : roots[i] = n
      BY <1>1, <1>2 DEF EmptyMeansDeletedTree, HasChildren
    <2>1. IF HasChildren(n) THEN IsBranchHash(data[n])
          ELSE data[n] = Empty /\ \E i \in 1..Len(roots) : roots[i] = n
      BY DEF Inv, EmptyMeansDeletedTree
    <2>2. CASE n = m /\ HasChildren(m)
      <3>1. data'[n] = ParentHash(data[l], data[r])
        BY <2>2, <1>4, InvParts
      <3> QED
        BY <2>2, <3>1, HashKinds
    <2>3. CASE ~ (n = m /\ HasChildren(m))
      <3>1. data'[n] = data[n]
        BY <2>3, <1>4, InvParts
      <3> QED
        BY <2>1, <3>1
    <2> QED
      BY <2>2, <2>3
  \* A node whose children have the hashes of m's is m.
  <1>12. ASSUME NEW n \in Live, HasChildren(m), data[n] = ParentHash(data[l], data[r]), Hashed(n)
         PROVE  n = m
    <2>1. heap[n].ty = "Branch" /\ HasChildren(n)
      <3>1. heap[n].ty # "Leaf"
        <4>1. IsBranchHash(data[n])
          BY <1>12, HashKinds
        <4> QED
          BY <4>1, InvParts DEF Inv, MapIsTheLeaves
      <3>2. heap[n].ty = "Branch"
        BY <3>1 DEF Inv, TypeOK, Live, NodeRecords
      <3> QED
        BY <3>2, <1>12, HashKinds DEF Inv, EmptyMeansDeletedTree
    <2>2. heap[n].left \in Live /\ heap[heap[n].left].parent = n
      BY <2>1 DEF Inv, PointersAgree, Linked
    <2>3. data[heap[n].left] = data[l]
      BY <2>1, <1>12, HashKinds DEF Hashed
    <2>4. heap[n].left = l
      BY <2>2, <2>3, <1>5, <1>12 DEF Inv, HashesIdentifyNodes
    <2> QED
      BY <2>2, <2>4, <1>5, <1>12
  <1>13. Hashed(m) => \A n \in Live : data'[n] = data[n]
    BY <1>4, InvParts DEF Hashed
  <1>14. HashesIdentifyNodes'
    <2>1. CASE Hashed(m)
      BY <2>1, <1>2, <1>13 DEF Inv, HashesIdentifyNodes
    <2>2. CASE ~ Hashed(m)
      <3>1. \A n \in Live \ {m} : Hashed(n)
        <4>1. \A n \in Live \ {m, p} : Hashed(n)
          BY <1>1 DEF Inv, HashesCommit
        <4>2. p # Nil => Hashed(m) \/ Hashed(p)
          BY <1>1 DEF Inv, HashesCommit
        <4>3. p \in Live => p # Nil
          BY InvParts
        <4> QED
          BY <2>2, <4>1, <4>2, <4>3
      <3>2. HasChildren(m)
        BY <2>2 DEF Hashed
      <3>3. \A n \in Live \ {m} : data'[n] = data[n] /\ data[n] # ParentHash(data[l], data[r])
        BY <3>1, <3>2, <1>4, <1>12, InvParts
      <3>4. data'[m] = ParentHash(data[l], data[r])
        BY <3>2, <1>1, <1>4, InvParts
      <3> QED
        BY <3>3, <3>4, <1>2 DEF Inv, HashesIdentifyNodes
    <2> QED
      BY <2>1, <2>2
  <1>15. HashesCommit'
    <2>1. ASSUME NEW n \in Live, n # p, n = m \/ Hashed(n) PROVE Hashed(n)'
      <3>1. CASE n = m
        <4>1. HasChildren(m) => data'[l] = data[l] /\ data'[r] = data[r]
          BY <1>4, <1>5, InvParts
        <4> QED
          BY <3>1, <4>1, <1>1, <1>4, <2>1, InvParts DEF Hashed, HasChildren
      <3>2. CASE n # m
        <4>1. HasChildren(n) => \A c \in {heap[n].left, heap[n].right} : c \in Live /\ c # m
          BY <2>1, <3>2 DEF Inv, PointersAgree, Linked, HasChildren
        <4>2. HasChildren(n) => \A c \in {heap[n].left, heap[n].right} : data'[c] = data[c]
          BY <4>1, <1>4, InvParts
        <4> QED
          BY <2>1, <3>2, <4>2, <1>1, <1>4, InvParts DEF Hashed, HasChildren
      <3> QED
        BY <3>1, <3>2
    <2>2. \A n \in Live \ {m, p} : Hashed(n)
      BY <1>1 DEF Inv, HashesCommit
    <2>3. \A n \in Live \ {p} : Hashed(n)'
      BY <2>1, <2>2
    <2>4. CASE p = Nil
      BY <2>3, <2>4, <1>1, <1>2, InvParts DEF HashesCommit
    <2>5. CASE p # Nil
      <3>1. PICK q : q = heap[p].parent
        OBVIOUS
      <3>2. p \in Live
        BY <2>5, <1>3 DEF Linked
      <3>3. q # Nil => q \in Live /\ q # p
        BY <3>1, <3>2, InvParts DEF Inv, PointersAgree, Linked
      <3>4. q # Nil => Hashed(q)'
        BY <2>3, <3>3
      <3>5. node' = p /\ heap'[node'].parent = q
        BY <1>1, <3>1
      <3>6. q # Nil => Hashed(heap[node].parent)'
        BY <3>4, <3>5 DEF Hashed, HasChildren
      <3> QED
        BY <2>3, <2>5, <3>5, <3>6, <1>1, <1>2 DEF HashesCommit
    <2> QED
      BY <2>4, <2>5
  <1> QED
    BY <1>6, <1>7, <1>8, <1>9, <1>10, <1>11, <1>14, <1>15 DEF Inv

\* Creating the leaf keeps the invariant: no node has its hash yet.
LEMMA NewLeafKeepsInv == ASSUME Inv, NewLeaf PROVE Inv'
  <1>1. PICK x \in Fresh :
            /\ pc = "add"
            /\ toAdd > 0
            /\ heap' = [heap EXCEPT ![x] = LeafNode]
            /\ data' = [data EXCEPT ![x] = LeafHash(leaves + 1)]
            /\ map' = [h \in DOMAIN map \cup {LeafHash(leaves + 1)} |->
                            IF h = LeafHash(leaves + 1) THEN x ELSE map[h]]
            /\ node' = x
            /\ carry' = leaves
            /\ toAdd' = toAdd - 1
            /\ pc' = "merge"
            /\ UNCHANGED <<roots, leaves, todo, result>>
    BY DEF NewLeaf
  <1>2. x \in Nodes /\ x \notin Live /\ (\A m \in Live : m < x) /\ x # Nil
    BY FreshFacts, InvParts
  <1> PICK new : new = LeafHash(leaves + 1)
    OBVIOUS
  <1>3. \A n \in Nodes : /\ heap'[n] = IF n = x THEN LeafNode ELSE heap[n]
                         /\ data'[n] = IF n = x THEN new ELSE data[n]
    BY <1>1 DEF Inv, TypeOK
  <1>4. Live' = Live \cup {x}
    BY <1>2, <1>3 DEF Live, LeafNode
  <1>5. ASSUME NEW n \in Live
        PROVE  n # x /\ heap'[n] = heap[n] /\ data'[n] = data[n] /\ Linked(n)
    BY <1>2, <1>3, InvParts DEF Inv, PointersAgree
  <1>6. heap'[x] = LeafNode /\ data'[x] = new
    BY <1>2, <1>3
  <1>7. leaves \in Nat /\ LeavesMade = leaves /\ LeavesMade' = leaves + 1
    BY <1>1 DEF Inv, TypeOK, LeavesMade
  <1>8. new \notin DOMAIN map
    <2> SUFFICES ASSUME NEW i \in 1..leaves PROVE LeafHash(i) # LeafHash(leaves + 1)
      BY <1>7 DEF Inv, TypeOK, LeafHashes
    <2> QED
      BY <1>7, LeafHashInjective
  <1>9. DOMAIN map' = DOMAIN map \cup {new} /\ map'[new] = x /\ \A h \in DOMAIN map : map'[h] = map[h]
    BY <1>1, <1>8
  <1>10. TypeOK'
    <2>1. LeafNode \in NodeRecords
      BY DEF LeafNode, NodeRecords
    <2>2. heap' \in [Nodes -> NodeRecords]
      BY <2>1, <1>1 DEF Inv, TypeOK, NodeRecords
    <2>3. DOMAIN map' \subseteq LeafHashes(leaves + 1)
      <3>1. \A h \in LeafHashes(leaves) : h \in LeafHashes(leaves + 1)
        BY <1>7 DEF LeafHashes
      <3>2. new \in LeafHashes(leaves + 1)
        BY <1>7 DEF LeafHashes
      <3> QED
        BY <3>1, <3>2, <1>7, <1>9 DEF Inv, TypeOK
    <2>4. map' \in [DOMAIN map' -> Nodes]
      BY <1>1, <1>2 DEF Inv, TypeOK
    <2>5. data' = [n \in Nodes |-> data'[n]]
      BY <1>1 DEF Inv, TypeOK
    <2> QED
      BY <2>2, <2>3, <2>4, <2>5, <1>1, <1>2, <1>7, BoundsAssumption DEF Inv, TypeOK, NodeRecords
  <1>11. RootsMatchLeafCount'
    BY <1>1 DEF Inv, RootsMatchLeafCount
  <1>12. PointersAgree'
    <2>1. \A n \in Live : Linked(n)'
      BY <1>4, <1>5, <1>2 DEF Linked, HasChildren
    <2>2. Linked(x)'
      BY <1>6 DEF Linked, HasChildren, LeafNode
    <2> QED
      BY <2>1, <2>2, <1>4 DEF PointersAgree
  <1>13. RootsAreTheTops'
    BY <1>1, <1>2, <1>4, <1>5, <1>6 DEF Inv, RootsAreTheTops, LeafNode
  <1>14. MapIsTheLeaves'
    BY <1>2, <1>4, <1>5, <1>6, <1>8, <1>9 DEF Inv, MapIsTheLeaves, LeafNode
  <1>15. EmptyMeansDeletedTree'
    BY <1>1, <1>4, <1>5, <1>6 DEF Inv, EmptyMeansDeletedTree, HasChildren, LeafNode
  <1>16. HashesIdentifyNodes'
    <2>1. ASSUME NEW n \in Live PROVE data[n] # new
      <3>1. CASE heap[n].ty = "Leaf"
        BY <3>1, <1>8 DEF Inv, MapIsTheLeaves
      <3>2. CASE heap[n].ty = "Branch"
        BY <3>2, HashKinds DEF Inv, EmptyMeansDeletedTree
      <3> QED
        BY <3>1, <3>2 DEF Inv, TypeOK, Live, NodeRecords
    <2> QED
      BY <2>1, <1>4, <1>5, <1>6 DEF Inv, HashesIdentifyNodes
  <1>17. HashesCommit'
    <2>1. ASSUME NEW n \in Live PROVE Hashed(n)'
      BY <1>1, <1>5 DEF Inv, HashesCommit, Hashed, HasChildren, Linked
    <2>2. Hashed(x)'
      BY <1>6 DEF Hashed, HasChildren, LeafNode
    <2> QED
      BY <2>1, <2>2, <1>1, <1>4 DEF HashesCommit
  <1> QED
    BY <1>10, <1>11, <1>12, <1>13, <1>14, <1>15, <1>16, <1>17 DEF Inv

\* Popping an empty root keeps the invariant: nothing points to it.
LEMMA SkipEmptyRootKeepsInv == ASSUME Inv, SkipEmptyRoot PROVE Inv'
  <1> PICK l : l = roots[Len(roots)]
    OBVIOUS
  <1>1. /\ PopRoot
        /\ pc = "merge"
        /\ data[l] = Empty
        /\ heap' = Free(heap, {l})
        /\ UNCHANGED <<leaves, map, pc, todo, toAdd, result, data, node>>
    BY DEF SkipEmptyRoot, PopRoot, LastRoot
  <1>2. /\ Len(roots) \in Nat
        /\ Len(roots) > 0
        /\ roots' \in Seq(Nodes)
        /\ Len(roots') = Len(roots) - 1
        /\ \A i \in 1..(Len(roots) - 1) : roots'[i] = roots[i]
        /\ Len(roots') = CountOnes[carry']
        /\ CountOnes[carry' + 1] = CountOnes[leaves + 1]
        /\ carry' \in 0..leaves
    BY <1>1, PopLemma, InvParts
  <1>3. l \in Live /\ heap[l].parent = Nil /\ l # node /\ Linked(l)
    BY <1>1, <1>2 DEF Inv, RootsAreTheTops, PointersAgree
  <1>4. heap[l].ty = "Branch" /\ heap[l].left = Nil /\ heap[l].right = Nil
    <2>1. heap[l].ty # "Leaf"
      BY <1>1, <1>3, InvParts DEF Inv, MapIsTheLeaves
    <2>2. heap[l].ty = "Branch"
      BY <2>1, <1>3 DEF Inv, TypeOK, Live, NodeRecords
    <2> QED
      BY <2>2, <1>1, <1>3, HashKinds DEF Inv, EmptyMeansDeletedTree, HasChildren, Linked
  <1>5. \A n \in Nodes : heap'[n] = IF n = l THEN FreeNode ELSE heap[n]
    BY <1>1 DEF Free
  <1>6. Live' = Live \ {l}
    BY <1>3, <1>5 DEF Live, FreeNode
  <1>7. ASSUME NEW n \in Live, n # l
        PROVE  n \in Live' /\ heap'[n] = heap[n] /\ data'[n] = data[n] /\ Linked(n)
    BY <1>1, <1>5, <1>6, <1>7, InvParts DEF Inv, PointersAgree
  <1>8. ASSUME NEW n \in Live
        PROVE  heap[n].parent # l /\ heap[n].left # l /\ heap[n].right # l
    BY <1>3, <1>4, InvParts DEF Inv, PointersAgree, Linked, HasChildren
  <1>9. \A i \in 1..(Len(roots) - 1) : roots[i] # l
    BY <1>2 DEF Inv, RootsAreTheTops
  <1>10. TypeOK'
    <2>1. FreeNode \in NodeRecords
      BY DEF FreeNode, NodeRecords
    <2>2. heap' \in [Nodes -> NodeRecords]
      BY <2>1, <1>1 DEF Free, Inv, TypeOK, NodeRecords
    <2>3. LeavesMade' = LeavesMade
      BY <1>1 DEF LeavesMade
    <2> QED
      BY <2>2, <2>3, <1>1, <1>2 DEF Inv, TypeOK, NodeRecords
  <1>11. RootsMatchLeafCount'
    BY <1>1, <1>2 DEF RootsMatchLeafCount
  <1>12. PointersAgree'
    <2>1. \A n \in Live \ {l} : Linked(n)'
      BY <1>6, <1>7, <1>8 DEF Linked, HasChildren
    <2> QED
      BY <2>1, <1>6 DEF PointersAgree
  <1>13. RootsAreTheTops'
    <2>1. ASSUME NEW i \in 1..Len(roots')
          PROVE  roots'[i] \in Live' /\ heap'[roots'[i]].parent = Nil /\ roots'[i] # node
      <3>1. i \in 1..Len(roots) /\ roots'[i] = roots[i] /\ roots[i] # l
        BY <2>1, <1>2, <1>9
      <3>2. roots[i] \in Live /\ heap[roots[i]].parent = Nil /\ roots[i] # node
        BY <3>1, <1>1 DEF Inv, RootsAreTheTops
      <3> QED
        BY <3>1, <3>2, <1>7
    <2>2. \A i, j \in 1..Len(roots') : roots'[i] = roots'[j] => i = j
      <3>1. \A i, j \in 1..Len(roots) : roots[i] = roots[j] => i = j
        BY DEF Inv, RootsAreTheTops
      <3> QED
        BY <3>1, <1>2
    <2>3. node \in Live' /\ heap'[node].parent = Nil
      BY <1>1, <1>3, <1>7 DEF Inv, RootsAreTheTops
    <2>4. ASSUME NEW n \in Live', heap'[n].parent = Nil, n # node
          PROVE  \E i \in 1..Len(roots') : roots'[i] = n
      <3>1. n \in Live /\ n # l /\ heap[n].parent = Nil
        BY <2>4, <1>6, <1>7
      <3>2. PICK i \in 1..Len(roots) : roots[i] = n
        BY <3>1, <2>4, <1>1 DEF Inv, RootsAreTheTops
      <3>3. i \in 1..(Len(roots) - 1)
        BY <3>1, <3>2, <1>2
      <3> QED
        BY <3>2, <3>3, <1>2
    <2> QED
      BY <2>1, <2>2, <2>3, <2>4, <1>1 DEF RootsAreTheTops
  <1>14. MapIsTheLeaves'
    <2>1. ASSUME NEW h \in DOMAIN map
          PROVE  map[h] \in Live' /\ heap'[map[h]].ty = "Leaf" /\ data[map[h]] = h
      BY <1>4, <1>7 DEF Inv, MapIsTheLeaves
    <2>2. ASSUME NEW n \in Live', heap'[n].ty = "Leaf"
          PROVE  data[n] \in DOMAIN map /\ map[data[n]] = n
      BY <2>2, <1>6, <1>7 DEF Inv, MapIsTheLeaves
    <2> QED
      BY <2>1, <2>2, <1>1 DEF MapIsTheLeaves
  <1>15. EmptyMeansDeletedTree'
    <2>1. ASSUME NEW n \in Live, n # l, NEW i \in 1..Len(roots), roots[i] = n
          PROVE  \E j \in 1..Len(roots') : roots'[j] = n
      <3>1. i \in 1..(Len(roots) - 1)
        BY <2>1, <1>2
      <3> QED
        BY <2>1, <3>1, <1>2
    <2> SUFFICES ASSUME NEW n \in Live', heap'[n].ty = "Branch"
                 PROVE  IF HasChildren(n)' THEN IsBranchHash(data'[n])
                        ELSE data'[n] = Empty /\ \E j \in 1..Len(roots') : roots'[j] = n
      BY DEF EmptyMeansDeletedTree
    <2>2. n \in Live /\ n # l /\ heap[n].ty = "Branch" /\ (HasChildren(n)' <=> HasChildren(n)) /\ data'[n] = data[n]
      BY <1>6, <1>7 DEF HasChildren
    <2>3. IF HasChildren(n) THEN IsBranchHash(data[n])
          ELSE data[n] = Empty /\ \E i \in 1..Len(roots) : roots[i] = n
      BY <2>2 DEF Inv, EmptyMeansDeletedTree
    <2> QED
      BY <2>1, <2>2, <2>3
  <1>16. HashesIdentifyNodes'
    BY <1>1, <1>6 DEF Inv, HashesIdentifyNodes
  <1>17. HashesCommit'
    <2>1. \A n \in Live \ {l} : Hashed(n)'
      <3>1. ASSUME NEW n \in Live, n # l PROVE Hashed(n)'
        <4>1. Hashed(n) /\ Linked(n)
          BY <1>1, <1>7, <3>1 DEF Inv, HashesCommit
        <4>2. heap'[n] = heap[n] /\ data' = data
          BY <1>1, <1>7, <3>1
        <4> QED
          BY <4>1, <4>2 DEF Hashed, HasChildren
      <3> QED
        BY <3>1
    <2> QED
      BY <2>1, <1>1, <1>6 DEF HashesCommit
  <1> QED
    BY <1>10, <1>11, <1>12, <1>13, <1>14, <1>15, <1>16, <1>17 DEF Inv

\* Joining a root with the node being carried keeps the invariant: no node has
\* these two children, so none has the new parent's hash.
LEMMA MergeRootKeepsInv == ASSUME Inv, MergeRoot PROVE Inv'
  <1> PICK l, r : l = roots[Len(roots)] /\ r = node
    OBVIOUS
  <1>1. PICK b \in Fresh :
            /\ PopRoot
            /\ pc = "merge"
            /\ data[l] # Empty
            /\ heap' = [heap EXCEPT
                            ![b] = WithRight(WithLeft(BranchNode, l), r),
                            ![l] = WithParent(@, b),
                            ![r] = WithParent(@, b)]
            /\ data' = [data EXCEPT ![b] = ParentHash(data[l], data[r])]
            /\ node' = b
            /\ UNCHANGED <<leaves, map, pc, todo, toAdd, result>>
    BY DEF MergeRoot, PopRoot, LastRoot
  <1>2. /\ Len(roots) \in Nat
        /\ Len(roots) > 0
        /\ roots' \in Seq(Nodes)
        /\ Len(roots') = Len(roots) - 1
        /\ \A i \in 1..(Len(roots) - 1) : roots'[i] = roots[i]
        /\ Len(roots') = CountOnes[carry']
        /\ CountOnes[carry' + 1] = CountOnes[leaves + 1]
        /\ carry' \in 0..leaves
    BY <1>1, PopLemma, InvParts
  <1>3. /\ l \in Live /\ heap[l].parent = Nil
        /\ r \in Live /\ heap[r].parent = Nil
        /\ l # r
    BY <1>1, <1>2 DEF Inv, RootsAreTheTops
  <1>4. b \in Nodes /\ b \notin Live /\ (\A m \in Live : m < b) /\ b # Nil /\ b # l /\ b # r
    BY <1>3, FreshFacts, InvParts
  <1>5. heap \in [Nodes -> NodeRecords]
    BY DEF Inv, TypeOK, NodeRecords
  <1>6. /\ heap'[b] = [ty |-> "Branch", parent |-> Nil, left |-> l, right |-> r]
        /\ heap'[l] = [ty |-> heap[l].ty, parent |-> b, left |-> heap[l].left, right |-> heap[l].right]
        /\ heap'[r] = [ty |-> heap[r].ty, parent |-> b, left |-> heap[r].left, right |-> heap[r].right]
        /\ \A n \in Nodes \ {b, l, r} : heap'[n] = heap[n]
    BY <1>1, <1>3, <1>4, <1>5, InvParts DEF WithLeft, WithRight, WithParent, BranchNode
  <1>7. Live' = Live \cup {b}
    <2>1. \A n \in Nodes : n \in {l, r} => heap'[n].ty = heap[n].ty
      BY <1>4, <1>6
    <2>2. \A n \in Nodes : heap'[n].ty # "Free" <=> heap[n].ty # "Free" \/ n = b
      BY <2>1, <1>4, <1>6
    <2> QED
      BY <2>2, <1>4 DEF Live
  <1>8. ASSUME NEW n \in Live
        PROVE  /\ n # b /\ n \in Live'
               /\ heap'[n].ty = heap[n].ty
               /\ heap'[n].parent = IF n \in {l, r} THEN b ELSE heap[n].parent
               /\ heap'[n].left = heap[n].left
               /\ heap'[n].right = heap[n].right
               /\ data'[n] = data[n]
               /\ Linked(n)
    <2>1. n # b /\ n \in Nodes /\ n \in Live'
      BY <1>4, <1>7, InvParts
    <2>2. data'[n] = data[n]
      BY <2>1, <1>1
    <2>3. CASE n \in {l, r}
      BY <2>1, <2>2, <2>3, <1>6 DEF Inv, PointersAgree
    <2>4. CASE n \notin {l, r}
      BY <2>1, <2>2, <2>4, <1>6 DEF Inv, PointersAgree
    <2> QED
      BY <2>3, <2>4
  <1>9. /\ heap'[b].ty = "Branch"
        /\ heap'[b].parent = Nil
        /\ heap'[b].left = l
        /\ heap'[b].right = r
        /\ data'[b] = ParentHash(data[l], data[r])
    BY <1>1, <1>4, <1>6 DEF Inv, TypeOK
  <1>10. ASSUME NEW n \in Live
         PROVE  /\ heap[n].left \notin {l, r, b} /\ heap[n].right \notin {l, r, b}
                /\ heap[n].parent # b
    <2>1. Linked(n)
      BY <1>8
    <2> QED
      BY <2>1, <1>3, <1>4, InvParts DEF Linked, HasChildren
  <1>11. TypeOK'
    <2>1. \A n \in Nodes : heap'[n] \in NodeRecords
      <3>1. heap'[b] \in NodeRecords /\ heap'[l] \in NodeRecords /\ heap'[r] \in NodeRecords
        BY <1>3, <1>4, <1>5, <1>6, InvParts DEF NodeRecords
      <3> QED
        BY <3>1, <1>5, <1>6
    <2>2. heap' \in [Nodes -> NodeRecords]
      BY <2>1, <1>1, <1>5
    <2>3. data' = [n \in Nodes |-> data'[n]]
      BY <1>1 DEF Inv, TypeOK
    <2>4. LeavesMade' = LeavesMade
      BY <1>1 DEF LeavesMade
    <2> QED
      BY <2>2, <2>3, <2>4, <1>1, <1>2, <1>4 DEF Inv, TypeOK, NodeRecords
  <1>12. RootsMatchLeafCount'
    BY <1>1, <1>2 DEF RootsMatchLeafCount
  <1>13. PointersAgree'
    <2>1. ASSUME NEW n \in Live PROVE Linked(n)'
      <3>1. CASE n \in {l, r}
        BY <3>1, <1>3, <1>4, <1>7, <1>8, <1>9, <1>10 DEF Linked, HasChildren
      <3>2. CASE n \notin {l, r}
        BY <3>2, <1>7, <1>8, <1>10 DEF Linked, HasChildren
      <3> QED
        BY <3>1, <3>2
    <2>2. Linked(b)'
      BY <1>3, <1>4, <1>7, <1>8, <1>9, InvParts DEF Linked, HasChildren
    <2> QED
      BY <2>1, <2>2, <1>7 DEF PointersAgree
  <1>14. RootsAreTheTops'
    <2>1. \A i \in 1..(Len(roots) - 1) : roots[i] \in Live /\ heap[roots[i]].parent = Nil /\ roots[i] \notin {l, r}
      BY <1>1, <1>2 DEF Inv, RootsAreTheTops
    <2>2. \A i \in 1..Len(roots') : roots'[i] \in Live' /\ heap'[roots'[i]].parent = Nil /\ roots'[i] # b
      BY <2>1, <1>2, <1>8
    <2>3. \A i, j \in 1..Len(roots') : roots'[i] = roots'[j] => i = j
      <3>1. \A i \in 1..Len(roots') : i \in 1..Len(roots) /\ roots'[i] = roots[i]
        BY <1>2
      <3> QED
        BY <3>1 DEF Inv, RootsAreTheTops
    <2>4. ASSUME NEW n \in Live', heap'[n].parent = Nil, n # b
          PROVE  \E i \in 1..Len(roots') : roots'[i] = n
      <3>1. n \in Live /\ n \notin {l, r} /\ heap[n].parent = Nil
        BY <2>4, <1>4, <1>7, <1>8
      <3>2. PICK i \in 1..Len(roots) : roots[i] = n
        BY <3>1, <1>1 DEF Inv, RootsAreTheTops
      <3>3. i \in 1..(Len(roots) - 1)
        BY <3>1, <3>2, <1>2
      <3> QED
        BY <3>2, <3>3, <1>2
    <2> QED
      BY <2>2, <2>3, <2>4, <1>1, <1>7, <1>9 DEF RootsAreTheTops
  <1>15. MapIsTheLeaves'
    <2>1. ASSUME NEW h \in DOMAIN map
          PROVE  map[h] \in Live' /\ heap'[map[h]].ty = "Leaf" /\ data'[map[h]] = h
      BY <1>8 DEF Inv, MapIsTheLeaves
    <2>2. ASSUME NEW n \in Live', heap'[n].ty = "Leaf"
          PROVE  data'[n] \in DOMAIN map /\ map[data'[n]] = n
      BY <2>2, <1>7, <1>8, <1>9 DEF Inv, MapIsTheLeaves
    <2> QED
      BY <2>1, <2>2, <1>1 DEF MapIsTheLeaves
  <1>16. EmptyMeansDeletedTree'
    <2>1. HasChildren(b)' /\ IsBranchHash(data'[b])
      BY <1>3, <1>9, HashKinds, InvParts DEF HasChildren
    <2>2. ASSUME NEW n \in Live, data[n] = Empty, NEW i \in 1..Len(roots), roots[i] = n
          PROVE  \E j \in 1..Len(roots') : roots'[j] = n
      <3>1. i \in 1..(Len(roots) - 1)
        BY <2>2, <1>1, <1>2
      <3> QED
        BY <2>2, <3>1, <1>2
    <2> QED
      BY <2>1, <2>2, <1>7, <1>8 DEF Inv, EmptyMeansDeletedTree, HasChildren
  \* No node has these two children yet, so no node has the new hash.
  <1>17. ASSUME NEW n \in Live PROVE data[n] # ParentHash(data[l], data[r])
    <2> SUFFICES ASSUME data[n] = ParentHash(data[l], data[r]) PROVE FALSE
      OBVIOUS
    <2>1. IsBranchHash(data[n]) /\ data[n] # Empty
      BY HashKinds
    <2>2. heap[n].ty # "Leaf"
      BY <2>1, InvParts DEF Inv, MapIsTheLeaves
    <2>3. HasChildren(n)
      BY <2>1, <2>2 DEF Inv, EmptyMeansDeletedTree, TypeOK, Live, NodeRecords
    <2>4. heap[n].left \in Live
      BY <2>3, <1>8 DEF Linked
    <2>5. data[heap[n].left] = data[l]
      BY <2>3, <1>1, HashKinds DEF Inv, HashesCommit, Hashed
    <2>6. heap[n].left = l
      BY <2>4, <2>5, <1>1, <1>3 DEF Inv, HashesIdentifyNodes
    <2> QED
      BY <2>6, <1>10
  <1>18. HashesIdentifyNodes'
    BY <1>7, <1>8, <1>9, <1>17 DEF Inv, HashesIdentifyNodes
  <1>19. HashesCommit'
    <2>1. ASSUME NEW n \in Live PROVE Hashed(n)'
      <3>1. Hashed(n)
        BY <1>1 DEF Inv, HashesCommit
      <3>2. HasChildren(n) => \A c \in {heap[n].left, heap[n].right} : data'[c] = data[c]
        BY <1>8 DEF Linked
      <3> QED
        BY <3>1, <3>2, <1>8 DEF Hashed, HasChildren
    <2>2. Hashed(b)'
      BY <1>3, <1>8, <1>9 DEF Hashed, HasChildren
    <2> QED
      BY <2>1, <2>2, <1>1, <1>7 DEF HashesCommit
  <1> QED
    BY <1>11, <1>12, <1>13, <1>14, <1>15, <1>16, <1>18, <1>19 DEF Inv

\* Adding one to an even number sets one bit.
LEMMA HalvingEven ==
    ASSUME NEW n \in 0..MaxLeaves, n % 2 = 0, n + 1 \in 0..MaxLeaves
    PROVE  CountOnes[n + 1] = CountOnes[n] + 1
  <1>1. n \div 2 \in 0..MaxLeaves /\ (n + 1) \div 2 = n \div 2 /\ (n + 1) % 2 = 1
    BY BoundsAssumption
  <1>2. CountOnes[n + 1] = 1 + CountOnes[n \div 2]
    <2>1. n + 1 \in 1..MaxLeaves
      BY BoundsAssumption
    <2> QED
      BY <2>1, <1>1, CountOnesFacts
  <1>3. CountOnes[n] = CountOnes[n \div 2]
    <2>1. CASE n = 0
      BY <2>1, CountOnesFacts
    <2>2. CASE n # 0
      BY <2>2, <1>1, CountOnesFacts, BoundsAssumption
    <2> QED
      BY <2>1, <2>2
  <1> QED
    BY <1>1, <1>2, <1>3, CountOnesFacts

\* Pushing the new root keeps the invariant: one root more for one bit more.
LEMMA PushRootKeepsInv == ASSUME Inv, PushRoot PROVE Inv'
  <1> PICK r : r = node
    OBVIOUS
  <1>1. /\ pc = "merge"
        /\ carry % 2 = 0
        /\ roots' = Append(roots, r)
        /\ leaves' = leaves + 1
        /\ node' = Nil
        /\ carry' = 0
        /\ pc' = "add"
        /\ UNCHANGED <<map, heap, data, todo, toAdd, result>>
    BY DEF PushRoot
  <1>2. leaves \in Nat /\ carry \in 0..leaves /\ leaves + 1 <= MaxLeaves /\ toAdd \in Nat
    BY <1>1, BoundsAssumption DEF Inv, TypeOK, LeavesMade
  <1>3. r \in Live /\ heap[r].parent = Nil /\ \A i \in 1..Len(roots) : roots[i] # r
    BY <1>1 DEF Inv, RootsAreTheTops
  <1>4. /\ Len(roots) \in Nat
        /\ roots' \in Seq(Nodes)
        /\ Len(roots') = Len(roots) + 1
        /\ \A i \in 1..Len(roots) : roots'[i] = roots[i]
        /\ roots'[Len(roots) + 1] = r
    BY <1>1, <1>3, InvParts, AppendProperties
  <1>5. Live' = Live
    BY <1>1 DEF Live
  <1>6. \A i \in 1..Len(roots') : i \in 1..Len(roots) \/ i = Len(roots) + 1
    BY <1>4
  <1>7. TypeOK'
    BY <1>1, <1>2, <1>4 DEF Inv, TypeOK, LeavesMade
  <1>8. RootsMatchLeafCount'
    <2>1. Len(roots) = CountOnes[carry] /\ CountOnes[carry + 1] = CountOnes[leaves + 1]
      BY <1>1 DEF Inv, RootsMatchLeafCount
    <2>2. CountOnes[carry + 1] = CountOnes[carry] + 1
      BY <1>1, <1>2, HalvingEven, BoundsAssumption
    <2> QED
      BY <2>1, <2>2, <1>1, <1>4 DEF RootsMatchLeafCount
  <1>9. PointersAgree'
    BY <1>1, <1>5 DEF Inv, PointersAgree, Linked, HasChildren
  <1>10. RootsAreTheTops'
    <2>1. \A i \in 1..Len(roots') : roots'[i] \in Live /\ heap[roots'[i]].parent = Nil
      BY <1>3, <1>4, <1>6 DEF Inv, RootsAreTheTops
    <2>2. \A i, j \in 1..Len(roots') : roots'[i] = roots'[j] => i = j
      BY <1>3, <1>4, <1>6 DEF Inv, RootsAreTheTops
    <2>3. ASSUME NEW n \in Live, heap[n].parent = Nil
          PROVE  \E i \in 1..Len(roots') : roots'[i] = n
      <3>1. CASE n = r
        BY <3>1, <1>4
      <3>2. CASE n # r
        <4>1. PICK i \in 1..Len(roots) : roots[i] = n
          BY <2>3, <3>2, <1>1 DEF Inv, RootsAreTheTops
        <4> QED
          BY <4>1, <1>4
      <3> QED
        BY <3>1, <3>2
    <2> QED
      BY <2>1, <2>2, <2>3, <1>1, <1>5 DEF RootsAreTheTops
  <1>11. MapIsTheLeaves'
    BY <1>1, <1>5 DEF Inv, MapIsTheLeaves
  <1>12. EmptyMeansDeletedTree'
    <2>1. ASSUME NEW n, NEW i \in 1..Len(roots), roots[i] = n
          PROVE  \E j \in 1..Len(roots') : roots'[j] = n
      BY <2>1, <1>4
    <2> QED
      BY <2>1, <1>1, <1>5 DEF Inv, EmptyMeansDeletedTree, HasChildren
  <1>13. HashesIdentifyNodes'
    BY <1>1, <1>5 DEF Inv, HashesIdentifyNodes
  <1>14. HashesCommit'
    BY <1>1, <1>5 DEF Inv, HashesCommit, Hashed, HasChildren
  <1> QED
    BY <1>7, <1>8, <1>9, <1>10, <1>11, <1>12, <1>13, <1>14 DEF Inv

\* Steps that only move from loop to loop keep the invariant.
LEMMA ForestUntouchedKeepsInv ==
    ASSUME Inv,
           UNCHANGED <<roots, leaves, map, heap, data, node, carry>>,
           pc \in {"idle", "del", "add"},
           pc' \in {"idle", "del", "add"},
           toAdd' \in Nat,
           leaves + toAdd' <= MaxLeaves,
           todo' \in Seq(LeafHashes(MaxLeaves)),
           result' \in {"None", "Ok", "Err"}
    PROVE  Inv'
  <1>1. Live' = Live
    BY DEF Live
  <1>2. LeavesMade = leaves /\ LeavesMade' = leaves
    BY DEF LeavesMade
  <1>3. TypeOK'
    BY <1>2 DEF Inv, TypeOK
  <1>4. RootsMatchLeafCount'
    BY DEF Inv, RootsMatchLeafCount
  <1>5. PointersAgree'
    BY <1>1 DEF Inv, PointersAgree, Linked, HasChildren
  <1>6. RootsAreTheTops'
    BY <1>1 DEF Inv, RootsAreTheTops
  <1>7. MapIsTheLeaves'
    BY <1>1 DEF Inv, MapIsTheLeaves
  <1>8. EmptyMeansDeletedTree'
    BY <1>1 DEF Inv, EmptyMeansDeletedTree, HasChildren
  <1>9. HashesIdentifyNodes'
    BY <1>1 DEF Inv, HashesIdentifyNodes
  <1>10. HashesCommit'
    BY <1>1 DEF Inv, HashesCommit, Hashed, HasChildren
  <1> QED
    BY <1>3, <1>4, <1>5, <1>6, <1>7, <1>8, <1>9, <1>10 DEF Inv

\* A step that changes nothing keeps the invariant.
LEMMA StutterKeepsInv == ASSUME Inv, UNCHANGED vars PROVE Inv'
  <1>1. UNCHANGED <<roots, leaves, map, heap, data, pc, todo, toAdd, node, carry, result>>
    BY DEF vars, forest, call
  <1>2. Live' = Live /\ LeavesMade' = LeavesMade
    BY <1>1 DEF Live, LeavesMade
  <1>3. TypeOK'
    BY <1>1, <1>2 DEF Inv, TypeOK
  <1>4. RootsMatchLeafCount'
    BY <1>1 DEF Inv, RootsMatchLeafCount
  <1>5. PointersAgree'
    BY <1>1, <1>2 DEF Inv, PointersAgree, Linked, HasChildren
  <1>6. RootsAreTheTops'
    BY <1>1, <1>2 DEF Inv, RootsAreTheTops
  <1>7. MapIsTheLeaves'
    BY <1>1, <1>2 DEF Inv, MapIsTheLeaves
  <1>8. EmptyMeansDeletedTree'
    BY <1>1, <1>2 DEF Inv, EmptyMeansDeletedTree, HasChildren
  <1>9. HashesIdentifyNodes'
    BY <1>1, <1>2 DEF Inv, HashesIdentifyNodes
  <1>10. HashesCommit'
    BY <1>1, <1>2 DEF Inv, HashesCommit, Hashed, HasChildren
  <1> QED
    BY <1>3, <1>4, <1>5, <1>6, <1>7, <1>8, <1>9, <1>10 DEF Inv

\* The empty forest satisfies the invariant.
LEMMA InitInv == Init => Inv
  <1> SUFFICES ASSUME Init PROVE Inv
    OBVIOUS
  <1>1. /\ roots = <<>> /\ leaves = 0 /\ map = <<>> /\ pc = "idle" /\ todo = <<>>
        /\ toAdd = 0 /\ node = Nil /\ carry = 0 /\ result = "None"
        /\ heap = [n \in Nodes |-> FreeNode]
        /\ data = [n \in Nodes |-> Empty]
    BY DEF Init
  <1>2. Live = {}
    BY <1>1 DEF Live, FreeNode
  <1>3. DOMAIN map = {} /\ Len(roots) = 0 /\ map \in [DOMAIN map -> Nodes]
    BY <1>1
  <1>4. TypeOK
    <2>1. heap \in [Nodes -> NodeRecords]
      BY <1>1 DEF FreeNode, NodeRecords
    <2>2. data = [n \in Nodes |-> data[n]]
      BY <1>1
    <2> QED
      BY <2>1, <2>2, <1>1, <1>3, BoundsAssumption DEF TypeOK, LeavesMade, NodeRecords
  <1>5. RootsMatchLeafCount
    BY <1>1, <1>3, CountOnesFacts DEF RootsMatchLeafCount
  <1>6. PointersAgree /\ EmptyMeansDeletedTree /\ HashesIdentifyNodes
    BY <1>2 DEF PointersAgree, EmptyMeansDeletedTree, HashesIdentifyNodes
  <1>7. RootsAreTheTops
    BY <1>1, <1>2, <1>3 DEF RootsAreTheTops
  <1>8. MapIsTheLeaves
    BY <1>2, <1>3 DEF MapIsTheLeaves
  <1>9. HashesCommit
    BY <1>1, <1>2 DEF HashesCommit
  <1> QED
    BY <1>4, <1>5, <1>6, <1>7, <1>8, <1>9 DEF Inv

\* Every step of modify keeps the invariant.
LEMMA NextKeepsInv == Inv /\ [Next]_vars => Inv'
  <1> SUFFICES ASSUME Inv, [Next]_vars PROVE Inv'
    OBVIOUS
  <1> USE DEF forest
  <1>1. /\ leaves \in Nat /\ toAdd \in Nat /\ LeavesMade + toAdd <= MaxLeaves
        /\ MaxLeaves \in Nat
        /\ todo \in Seq(LeafHashes(MaxLeaves))
        /\ <<>> \in Seq(LeafHashes(MaxLeaves))
        /\ result \in {"None", "Ok", "Err"}
    BY BoundsAssumption DEF Inv, TypeOK
  <1>2. pc # "merge" => LeavesMade = leaves
    BY DEF LeavesMade
  <1>3. CASE Modify
    <2>1. PICK adds \in AddSizes, dels \in 0..MaxDels : \E targets \in [1..dels -> DOMAIN map] :
              /\ pc = "idle"
              /\ leaves + adds <= MaxLeaves
              /\ todo' = targets
              /\ toAdd' = adds
              /\ pc' = "del"
              /\ UNCHANGED <<forest, node, carry, result>>
      BY <1>3 DEF Modify
    <2>2. PICK targets \in [1..dels -> DOMAIN map] : todo' = targets
      BY <2>1
    <2>3. todo' \in Seq(LeafHashes(MaxLeaves))
      <3>1. DOMAIN map \subseteq LeafHashes(MaxLeaves)
        BY <2>1, <1>1, <1>2, BoundsAssumption DEF Inv, TypeOK, LeafHashes
      <3>2. \A i \in 1..dels : targets[i] \in LeafHashes(MaxLeaves)
        BY <3>1
      <3>3. dels \in Nat /\ targets = [i \in 1..dels |-> targets[i]]
        BY BoundsAssumption
      <3> QED
        BY <3>2, <3>3, <2>2
    <2> QED
      BY <2>1, <2>3, <1>1, BoundsAssumption, ForestUntouchedKeepsInv
  <1>4. CASE ModifyUnknownTarget
    BY <1>1, <1>2, <1>4, ForestUntouchedKeepsInv DEF ModifyUnknownTarget
  <1>5. CASE TargetGone
    BY <1>1, <1>2, <1>5, ForestUntouchedKeepsInv DEF TargetGone, NextTarget
  <1>6. CASE DelRoot
    BY <1>6, DelRootKeepsInv
  <1>7. CASE DelRootChild
    BY <1>7, DelRootChildKeepsInv
  <1>8. CASE DelInner
    BY <1>8, DelInnerKeepsInv
  <1>9. CASE RecomputeHash
    BY <1>9, RecomputeHashKeepsInv
  <1>10. CASE Deleted
    BY <1>1, <1>2, <1>10, ForestUntouchedKeepsInv DEF Deleted
  <1>11. CASE NewLeaf
    BY <1>11, NewLeafKeepsInv
  <1>12. CASE SkipEmptyRoot
    BY <1>12, SkipEmptyRootKeepsInv
  <1>13. CASE MergeRoot
    BY <1>13, MergeRootKeepsInv
  <1>14. CASE PushRoot
    BY <1>14, PushRootKeepsInv
  <1>15. CASE Return
    BY <1>1, <1>2, <1>15, ForestUntouchedKeepsInv DEF Return
  <1>16. CASE UNCHANGED vars
    BY <1>16, StutterKeepsInv
  <1> QED
    BY <1>3, <1>4, <1>5, <1>6, <1>7, <1>8, <1>9, <1>10, <1>11, <1>12, <1>13, <1>14, <1>15, <1>16
       DEF Next, Step

\* In every reachable state, also half way through a modify, the pointers
\* form trees, the map indexes the leaves, no two nodes share a hash, and each
\* hash is that of its children but for the one about to be recomputed
\* (modify, del_single, recompute_hashes, add_single of src/mem_forest/mod.rs).
THEOREM InvHolds == Spec => []Inv
  BY InitInv, NextKeepsInv, PTL DEF Spec

\* roots.pop().unwrap() in add_single never panics.
THEOREM PopFindsARoot == Spec => [](pc = "merge" /\ carry % 2 = 1 => roots # <<>>)
  <1>1. Inv => (pc = "merge" /\ carry % 2 = 1 => roots # <<>>)
    <2> SUFFICES ASSUME Inv, pc = "merge", carry % 2 = 1 PROVE roots # <<>>
      OBVIOUS
    <2>1. Len(roots) > 0
      BY OddCarryHasRoot
    <2> QED
      BY <2>1
  <1> QED
    BY <1>1, InvHolds, PTL

\* The number of roots is the number of one bits of the leaf count, so that
\* the arithmetic of src/util/mod.rs on `leaves` describes the forest there is.
THEOREM RootsMatchLeafCountHolds == Spec => []RootsMatchLeafCount
  <1>1. Inv => RootsMatchLeafCount
    BY DEF Inv
  <1> QED
    BY <1>1, InvHolds, PTL

\* The map never dangles: what prove and del look up, and unwrap, is the leaf
\* they ask for.
THEOREM MapIsTheLeavesHolds == Spec => []MapIsTheLeaves
  <1>1. Inv => MapIsTheLeaves
    BY DEF Inv
  <1> QED
    BY <1>1, InvHolds, PTL

\* Rehashing from the sibling of a deleted leaf is enough: no other hash of
\* the forest is left stale.
THEOREM HashesCommitHolds == Spec => []HashesCommit
  <1>1. Inv => HashesCommit
    BY DEF Inv
  <1> QED
    BY <1>1, InvHolds, PTL

-----------------------------------------------------------------------------
(***************************************************************************)
(* Who owns the nodes.                                                     *)
(***************************************************************************)
\* What is owned by the owners that k steps from the forest reach.
IsDown(down) ==
    down = [k \in 0..MaxNodes |->
                IF k = 0 THEN Held
                ELSE LET above == down[k - 1] IN above \cup UNION {Owned(n) : n \in above}]

LEMMA HeldIsLive == ASSUME Inv PROVE Held \subseteq Live
  BY DEF Inv, RootsAreTheTops, Held

\* The nodes a live node owns are live.
LEMMA OwnedIsLive == ASSUME Inv, NEW n \in Live PROVE Owned(n) \subseteq Live
  BY DEF Inv, PointersAgree, Linked, HasChildren, Owned

\* The recursive definition of what the owners hold has a solution.
LEMMA ReachableIsDown ==
    ASSUME Inv
    PROVE  \E down : IsDown(down) /\ Reachable = down[MaxNodes]
  <1> DEFINE N    == 0..MaxNodes
             rank == [k \in N |-> k]
             z    == [k \in N |-> Held]
             b    == [k \in N |-> k - 1]
             V    == [k \in N |-> SUBSET Live]
             step == [k \in N |-> [x \in SUBSET Live |-> x \cup UNION {Owned(n) : n \in x}]]
  <1>1. \A k \in N \ {0} : k - 1 \in N
    BY BoundsAssumption
  <1>2. Descends(N, rank, {0}, b)
    BY <1>1 DEF Descends
  <1>3. LinearValuesIn(V, N, {0}, z, b, step)
    <2>1. ASSUME NEW k \in N, k \in {0} PROVE z[k] \in V[k]
      BY HeldIsLive
    <2>2. ASSUME NEW k \in N \ {0}, NEW x \in V[b[k]] PROVE step[k][x] \in V[k]
      <3>1. x \in SUBSET Live
        BY <1>1
      <3>2. UNION {Owned(n) : n \in x} \subseteq Live
        BY <3>1, OwnedIsLive
      <3> QED
        BY <3>1, <3>2
    <2> HIDE DEF N, z, b, V, step
    <2> QED
      BY <2>1, <2>2 DEF LinearValuesIn
  <1>4. PICK f : /\ f = [k \in N |-> f[k]]
                 /\ \A k \in N : f[k] \in V[k]
                 /\ LinearSolves(f, N, {0}, z, b, step)
    <2> HIDE DEF N, rank, z, b, V, step
    <2> QED
      BY <1>2, <1>3, LinearRecursionExists
  <1>5. ASSUME NEW k \in N
        PROVE  f[k] = IF k = 0 THEN Held
                      ELSE LET above == f[k - 1] IN above \cup UNION {Owned(n) : n \in above}
    <2>1. CASE k = 0
      BY <1>4, <2>1 DEF LinearSolves
    <2>2. CASE k # 0
      <3>1. k - 1 \in N
        BY <1>1, <2>2
      <3>2. f[k - 1] \in SUBSET Live
        BY <1>4, <3>1
      <3>3. f[k] = step[k][f[k - 1]]
        <4> HIDE DEF step, V, z
        <4> QED
          BY <1>4, <2>2 DEF LinearSolves
      <3> QED
        BY <2>2, <3>2, <3>3
    <2> QED
      BY <2>1, <2>2
  <1>6. IsDown(f)
    <2> HIDE DEF z, b, V, step
    <2> QED
      BY <1>4, <1>5 DEF IsDown
  <1> DEFINE down == CHOOSE g : IsDown(g)
  <1>7. IsDown(down)
    BY <1>6
  <1>8. Reachable = down[MaxNodes]
    BY DEF Reachable, IsDown
  <1> QED
    BY <1>7, <1>8

\* The invariant of the pointers implies that exactly the live nodes are
\* owned.
LEMMA InvImpliesNothingLeaks == Inv => NothingLeaks
  <1> SUFFICES ASSUME Inv PROVE Live = Reachable
    BY DEF NothingLeaks
  <1>1. PICK down : IsDown(down) /\ Reachable = down[MaxNodes]
    BY ReachableIsDown
  <1>2. MaxNodes \in Nat
    BY BoundsAssumption
  <1>3. \A k \in 0..MaxNodes :
            down[k] = IF k = 0 THEN Held ELSE down[k - 1] \cup UNION {Owned(n) : n \in down[k - 1]}
    BY <1>1 DEF IsDown
  <1>4. down[0] = Held
    <2>1. 0 \in 0..MaxNodes
      BY <1>2
    <2> QED
      BY <2>1, <1>3
  <1>5. ASSUME NEW k \in Nat, k + 1 <= MaxNodes
        PROVE  down[k + 1] = down[k] \cup UNION {Owned(n) : n \in down[k]}
    <2>1. k + 1 \in 0..MaxNodes /\ k + 1 # 0 /\ (k + 1) - 1 = k
      BY <1>2, <1>5
    <2> QED
      BY <2>1, <1>3
  <1> DEFINE Reached(k) == /\ down[k] \subseteq Live
                           /\ Held \subseteq down[k]
                           /\ \A n \in Live : MaxNodes - n <= k => n \in down[k]
             S == {k \in Nat : k <= MaxNodes => Reached(k)}
  <1>6. ASSUME NEW n \in Live
        PROVE  n \in Held \/ \E p \in Live : n < p /\ n \in Owned(p)
    BY <1>6 DEF Inv, PointersAgree, Linked, RootsAreTheTops, Held, Owned, Live, Nodes, Nil
  <1>7. Live \subseteq 1..MaxNodes
    BY DEF Live, Nodes
  <1>8. 0 \in S
    <2>1. ASSUME NEW n \in Live, MaxNodes - n <= 0 PROVE n \in Held
      BY <2>1, <1>2, <1>6, <1>7
    <2> QED
      BY <2>1, <1>4, HeldIsLive
  <1>9. ASSUME NEW k \in Nat, k \in S PROVE k + 1 \in S
    <2> SUFFICES ASSUME k + 1 <= MaxNodes PROVE Reached(k + 1)
      OBVIOUS
    <2>1. Reached(k)
      BY <1>2, <1>9
    <2>2. down[k + 1] = down[k] \cup UNION {Owned(n) : n \in down[k]}
      BY <1>5
    <2>3. down[k + 1] \subseteq Live
      BY <2>1, <2>2, OwnedIsLive
    <2>4. ASSUME NEW n \in Live, MaxNodes - n <= k + 1 PROVE n \in down[k + 1]
      <3>1. CASE n \in Held
        BY <2>1, <2>2, <3>1
      <3>2. ASSUME NEW p \in Live, n < p, n \in Owned(p) PROVE n \in down[k + 1]
        <4>1. MaxNodes - p <= k
          BY <1>2, <1>7, <2>4, <3>2
        <4>2. p \in down[k]
          BY <4>1, <2>1
        <4> QED
          BY <4>2, <2>2, <3>2
      <3> QED
        BY <1>6, <3>1, <3>2
    <2> QED
      BY <2>1, <2>2, <2>3, <2>4
  <1>10. MaxNodes \in S
    <2> HIDE DEF S
    <2> QED
      BY <1>2, <1>8, <1>9, NatInductionOn
  <1>11. \A n \in Live : MaxNodes - n <= MaxNodes
    BY <1>2, <1>7
  <1> QED
    BY <1>1, <1>2, <1>10, <1>11

\* del_single and add_single free exactly what is not owned any more, at
\* every step of modify: after any sequence of calls the allocated nodes are
\* the ones that the roots, or the tree being merged in, lead to.
THEOREM NothingLeaksHolds == Spec => []NothingLeaks
  BY InvHolds, InvImpliesNothingLeaks, PTL

-----------------------------------------------------------------------------
(***************************************************************************)
(* The height of the trees.                                                *)
(***************************************************************************)
\* `lev` counts down along the pointers.
Falls(lev) ==
    /\ lev \in [Nodes -> Nat]
    /\ \A m \in Live : heap[m].parent # Nil => lev[m] < lev[heap[m].parent]

\* Which root, from the front, belongs to the one bit r of the leaf count.
RootOfBit(r) == CountOnes[leaves \div 2^r]

\* A tree is no higher than the row of its root.
FitsRoots(lev) ==
    \A r \in Nat : IsRootPopulated(r, leaves) /\ RootOfBit(r) \in 1..Len(roots) =>
                       lev[roots[RootOfBit(r)]] <= r

\* The tree being merged in has been carried to row j.
Carried(n, c, j)  == n + 1 = (c + 1) * 2^j
CarriedTo(j, lev) == lev[node] <= j /\ Carried(leaves, carry, j)

HeightsFit ==
    \E lev : /\ Falls(lev)
             /\ FitsRoots(lev)
             /\ pc = "merge" => \E j \in Nat : CarriedTo(j, lev)

-----------------------------------------------------------------------------
(***************************************************************************)
(* Leaf counts, carries and their one bits.                                *)
(***************************************************************************)
LEMMA ShiftTwice ==
    ASSUME NEW a \in Nat, NEW i \in Nat, NEW j \in Nat
    PROVE  (a \div 2^i) \div 2^j = a \div 2^(i + j)
  <1>1. 2^i \in Nat \ {0} /\ 2^j \in Nat \ {0} /\ 2^(i + j) = 2^i * 2^j
    <2>1. \A k \in Nat : 2^k \in Nat \ {0}
      <3>1. \A k \in Nat : 2^k \in Nat /\ 2^k >= 1
        BY Powers
      <3> QED
        BY <3>1
    <2>2. 2^(i + j) = 2^i * 2^j
      BY PowerSum
    <2> QED
      BY <2>1, <2>2
  <1>2. (a \div 2^i) \div 2^j = a \div (2^i * 2^j)
    BY <1>1, QuotientOfQuotient, Zenon
  <1> QED
    BY <1>1, <1>2

\* Numbers that agree above one bit agree above every higher one.
AgreeAbove(a, b, j) == (a \div 2^j) \div 2 = (b \div 2^j) \div 2

LEMMA AgreeFurtherUp ==
    ASSUME NEW a \in Nat, NEW b \in Nat, NEW j \in Nat, NEW i \in Nat, i >= 1, AgreeAbove(a, b, j)
    PROVE  /\ a \div 2^(j + i) = b \div 2^(j + i)
           /\ a \div 2^(j + i) = (a \div 2^j) \div 2^i
  <1>1. \A x, y, z \in Nat : (x \div 2^y) \div 2^z = x \div 2^(y + z)
    BY ShiftTwice
  <1>2. /\ (a \div 2^j) \div 2^i = a \div 2^(j + i)
        /\ (a \div 2^j) \div 2^1 = a \div 2^(j + 1)
        /\ (b \div 2^j) \div 2^1 = b \div 2^(j + 1)
    <2>1. (a \div 2^j) \div 2^i = a \div 2^(j + i)
      BY <1>1
    <2>2. ASSUME NEW k \in Nat
          PROVE  /\ (a \div 2^j) \div 2^k = a \div 2^(j + k)
                 /\ (b \div 2^j) \div 2^k = b \div 2^(j + k)
      BY <1>1
    <2> QED
      BY <2>1, <2>2
  <1>3. a \div 2^(j + 1) = b \div 2^(j + 1)
    <2>1. 2^1 = 2
      BY Powers
    <2> QED
      BY <2>1, <1>2 DEF AgreeAbove
  <1>4. a \div 2^(j + i) = b \div 2^(j + i)
    <2> PICK k \in Nat : (j + 1) + k = j + i
      <3>1. i - 1 \in Nat /\ (j + 1) + (i - 1) = j + i
        OBVIOUS
      <3> QED
        BY <3>1
    <2>1. /\ (a \div 2^(j + 1)) \div 2^k = a \div 2^((j + 1) + k)
          /\ (b \div 2^(j + 1)) \div 2^k = b \div 2^((j + 1) + k)
      <3>1. j + 1 \in Nat
        OBVIOUS
      <3> QED
        BY <1>1, <3>1
    <2> QED
      BY <2>1, <1>3
  <1> QED
    BY <1>2, <1>4

LEMMA ExactQuotient ==
    ASSUME NEW a \in Nat, NEW q \in Nat, NEW p \in Nat \ {0}, a = q * p
    PROVE  a \div p = q
  <1>1. q * p \in Nat /\ a = q * p + 0 /\ 0 < p
    OBVIOUS
  <1> QED
    BY <1>1, QuotientIs

\* The carry is what is left of the leaf count.
LEMMA CarryIsQuotient ==
    ASSUME NEW n \in Nat, NEW c \in Nat, NEW j \in Nat, Carried(n, c, j)
    PROVE  n \div 2^j = c
  <1> DEFINE p == 2^j
  <1>1. p \in Nat \ {0} /\ p - 1 \in Nat /\ p - 1 < p
    <2>1. p \in Nat /\ p >= 1
      BY Powers
    <2> QED
      BY <2>1
  <1> HIDE DEF p
  <1>2. n = c * p + (p - 1)
    <2>1. \A x, y \in Nat : (x + 1) * y = x * y + y /\ x * y \in Nat
      OBVIOUS
    <2>2. n + 1 = (c + 1) * p
      BY DEF p, Carried
    <2> QED
      BY <2>1, <2>2, <1>1
  <1>3. n \div p = c
    BY <1>1, <1>2, QuotientIs
  <1> QED
    BY <1>3 DEF p

\* Popping a root carries one row up.
LEMMA CarryMovesUp ==
    ASSUME NEW n \in Nat, NEW c \in Nat, NEW j \in Nat, Carried(n, c, j), c % 2 = 1
    PROVE  Carried(n, c \div 2, j + 1) /\ IsRootPopulated(j, n)
  <1> DEFINE p == 2^j
             h == c \div 2
  <1>1. p \in Nat /\ 2^(j + 1) = 2 * p /\ h \in Nat /\ c + 1 = 2 * (h + 1)
    BY Powers
  <1>2. n \div 2^j = c
    BY CarryIsQuotient
  <1>3. IsRootPopulated(j, n)
    BY <1>2 DEF IsRootPopulated, Bit
  <1> HIDE DEF p, h
  <1>4. \A x, y \in Nat : (2 * x) * y = x * (2 * y)
    OBVIOUS
  <1>5. (2 * (h + 1)) * p = (h + 1) * (2 * p)
    BY <1>1, <1>4
  <1>6. n + 1 = (2 * (h + 1)) * p
    BY <1>1 DEF p, Carried
  <1> QED
    BY <1>1, <1>3, <1>5, <1>6 DEF h, Carried

LEMMA CountOnesShrinks ==
    ASSUME NEW n \in Nat, NEW i \in Nat
    PROVE  CountOnes[n \div 2^i] <= CountOnes[n] /\ CountOnes[n \div 2^i] \in Nat /\ CountOnes[n] \in Nat
  <1> DEFINE S == {k \in Nat : CountOnes[n \div 2^k] <= CountOnes[n]}
  <1>1. \A x \in Nat : CountOnes[x] \in Nat /\ CountOnes[x \div 2] <= CountOnes[x]
    <2>1. ASSUME NEW x \in Nat PROVE CountOnes[x] \in Nat /\ CountOnes[x \div 2] <= CountOnes[x]
      <3>1. CountOnes[x] \in Nat /\ x \div 2 \in Nat /\ x % 2 \in Nat
        BY CountOnesFacts
      <3>2. CountOnes[x \div 2] \in Nat
        BY <3>1, CountOnesFacts
      <3>3. CASE x = 0
        BY <3>1, <3>3
      <3>4. CASE x # 0
        <4>1. CountOnes[x] = (x % 2) + CountOnes[x \div 2]
          BY <3>4, CountOnesFacts
        <4> QED
          BY <3>1, <3>2, <4>1
      <3> QED
        BY <3>3, <3>4
    <2> QED
      BY <2>1
  <1>2. \A k \in Nat : n \div 2^k \in Nat /\ (n \div 2^k) \div 2 = n \div 2^(k + 1)
    BY HalfOfQuotient
  <1>3. 0 \in S
    <2>1. n \div 2^0 = n
      BY Powers
    <2> QED
      BY <2>1, <1>1
  <1>4. ASSUME NEW k \in Nat, k \in S PROVE k + 1 \in S
    <2>1. CountOnes[n \div 2^(k + 1)] <= CountOnes[n \div 2^k] /\ CountOnes[n \div 2^k] <= CountOnes[n]
          /\ CountOnes[n \div 2^(k + 1)] \in Nat /\ CountOnes[n \div 2^k] \in Nat /\ CountOnes[n] \in Nat
      <3>1. k + 1 \in Nat /\ n \div 2^k \in Nat /\ n \div 2^(k + 1) \in Nat
            /\ (n \div 2^k) \div 2 = n \div 2^(k + 1)
        BY <1>2
      <3> HIDE DEF S
      <3>2. CountOnes[n \div 2^k] <= CountOnes[n]
        BY <1>4 DEF S
      <3> QED
        BY <3>1, <3>2, <1>1
    <2> QED
      BY <2>1
  <1> HIDE DEF S
  <1>5. Nat \subseteq S
    BY <1>3, <1>4, NatInductionOn
  <1>6. CountOnes[n \div 2^i] <= CountOnes[n]
    BY <1>5 DEF S
  <1> QED
    BY <1>1, <1>2, <1>6

\* One bit comes where the carry ends; those above it stay, those below it
\* were ones and go.
LEMMA CarryEnds ==
    ASSUME NEW n \in Nat, NEW c \in Nat, NEW j \in Nat, Carried(n, c, j), c % 2 = 0,
           NEW r \in Nat, IsRootPopulated(r, n + 1)
    PROVE  \/ r = j /\ CountOnes[(n + 1) \div 2^r] = CountOnes[c] + 1
           \/ /\ r > j
              /\ (n + 1) \div 2^r = n \div 2^r
              /\ IsRootPopulated(r, n)
              /\ CountOnes[n \div 2^r] <= CountOnes[c]
              /\ CountOnes[n \div 2^r] \in Nat
  <1> DEFINE m == n + 1
             d == c + 1
  <1>1. m \in Nat /\ d \in Nat /\ c \div 2 \in Nat /\ d \div 2 = c \div 2 /\ d % 2 = 1
    OBVIOUS
  <1>2. n \div 2^j = c
    BY CarryIsQuotient
  <1>7. m = d * 2^j
    BY DEF Carried
  <1>8. IsRootPopulated(r, m)
    OBVIOUS
  <1> HIDE DEF m, d
  <1>3. \A k \in Nat : 2^k \in Nat \ {0}
    <2>1. \A k \in Nat : 2^k \in Nat /\ 2^k >= 1
      BY Powers
    <2> QED
      BY <2>1
  <1>4. CASE r = j
    <2>1. m \div 2^j = d
      <3>1. m \in Nat /\ d \in Nat /\ 2^j \in Nat \ {0} /\ m = d * 2^j
        BY <1>1, <1>3, <1>7
      <3> QED
        BY <3>1, ExactQuotient, Zenon
    <2>2. CountOnes[d] = 1 + CountOnes[c \div 2] /\ CountOnes[c] = CountOnes[c \div 2]
          /\ CountOnes[c \div 2] \in Nat
      <3>1. d # 0 /\ CountOnes[c \div 2] \in Nat
        BY <1>1, CountOnesFacts
      <3>2. CountOnes[d] = 1 + CountOnes[c \div 2]
        BY <3>1, <1>1, CountOnesFacts
      <3>3. CountOnes[c] = CountOnes[c \div 2]
        <4>1. CASE c = 0
          BY <4>1
        <4>2. CASE c # 0
          BY <4>2, <3>1, CountOnesFacts
        <4> QED
          BY <4>1, <4>2
      <3> QED
        BY <3>1, <3>2, <3>3
    <2> QED
      BY <1>4, <2>1, <2>2 DEF m
  <1>5. CASE r > j
    <2> PICK i \in Nat : i >= 1 /\ j + i = r
      <3>1. r - j \in Nat /\ r - j >= 1 /\ j + (r - j) = r
        BY <1>5
      <3> QED
        BY <3>1
    <2>1. m \div 2^j = d
      <3>1. m \in Nat /\ d \in Nat /\ 2^j \in Nat \ {0} /\ m = d * 2^j
        BY <1>1, <1>3, <1>7
      <3> QED
        BY <3>1, ExactQuotient, Zenon
    <2>2. AgreeAbove(n, m, j)
      BY <1>1, <1>2, <2>1 DEF AgreeAbove
    <2>3. n \div 2^(j + i) = m \div 2^(j + i) /\ n \div 2^(j + i) = (n \div 2^j) \div 2^i
      BY <2>2, <1>1, AgreeFurtherUp
    <2>5. m \div 2^r = n \div 2^r /\ n \div 2^r = c \div 2^i
      BY <1>2, <2>3
    <2>6. CountOnes[n \div 2^r] <= CountOnes[c] /\ CountOnes[n \div 2^r] \in Nat
      BY <2>5, CountOnesShrinks
    <2>7. IsRootPopulated(r, n)
      BY <2>5, <1>8 DEF IsRootPopulated, Bit
    <2> QED
      BY <1>5, <2>5, <2>6, <2>7 DEF m
  <1>6. CASE r < j
    <2> DEFINE i == j - r
               q == 2^(i - 1)
    <2>1. i \in Nat /\ i - 1 \in Nat /\ r + i = j /\ (i - 1) + 1 = i
      BY <1>6
    <2>2. 2^j = 2^r * (2 * q) /\ q \in Nat /\ 2^r \in Nat \ {0}
      <3>1. 2^(r + i) = 2^r * 2^i /\ 2^((i - 1) + 1) = 2 * q /\ q \in Nat
        BY <2>1, Powers, PowerSum
      <3> QED
        BY <3>1, <2>1, <1>3
    <2> DEFINE p == 2^r
    <2> HIDE DEF q, p
    <2>3. m = (2 * (d * q)) * p + 0 /\ 2 * (d * q) \in Nat /\ d * q \in Nat
      <3>1. \A x, y, z \in Nat : x * (y * (2 * z)) = (2 * (x * z)) * y + 0 /\ 2 * (x * z) \in Nat /\ x * z \in Nat
        BY Z3
      <3>2. m = d * (p * (2 * q)) /\ p \in Nat
        BY <2>2, <1>7 DEF p
      <3> QED
        BY <3>1, <3>2, <2>2, <1>1
    <2> DEFINE v == d * q
    <2>4. v \in Nat /\ 2 * v \in Nat /\ m = (2 * v) * p + 0
      BY <2>3
    <2> HIDE DEF v
    <2>5. m \div p = 2 * v
      <3> DEFINE w == 2 * v
      <3>1. w \in Nat /\ m = w * p + 0 /\ p \in Nat \ {0} /\ w * p \in Nat
        BY <2>2, <2>4 DEF p
      <3> HIDE DEF w
      <3>2. m = w * p
        BY <3>1
      <3>3. m \div p = w
        BY <3>1, <3>2, <1>1, ExactQuotient, Zenon
      <3> QED
        BY <3>3 DEF w
    <2>6. (m \div 2^r) % 2 = 0
      <3>1. (2 * v) % 2 = 0
        BY <2>4
      <3> QED
        BY <3>1, <2>5 DEF p
    <2> QED
      BY <2>6, <1>8 DEF IsRootPopulated, Bit
  <1> QED
    BY <1>4, <1>5, <1>6 DEF m
-----------------------------------------------------------------------------
(***************************************************************************)
(* No action makes a tree higher than the row of its root.                 *)
(***************************************************************************)
LEMMA InitFits == Init => HeightsFit
  <1> SUFFICES ASSUME Init PROVE HeightsFit
    OBVIOUS
  <1> DEFINE lev == [n \in Nodes |-> 0]
  <1>1. Live = {} /\ Len(roots) = 0 /\ pc # "merge"
    BY DEF Init, Live, FreeNode
  <1>2. Falls(lev) /\ FitsRoots(lev)
    BY <1>1 DEF Falls, FitsRoots
  <1> QED
    BY <1>1, <1>2 DEF HeightsFit

\* Roots may be replaced by lower ones.
LEMMA LowerRoots ==
    ASSUME Inv, NEW old \in [Nodes -> Nat], NEW lev \in [Nodes -> Nat], FitsRoots(old),
           leaves' = leaves, roots' \in Seq(Nodes), Len(roots') = Len(roots),
           \A i \in 1..Len(roots) : lev[roots'[i]] <= old[roots[i]]
    PROVE  FitsRoots(lev)'
  <1>1. roots \in Seq(Nodes)
    BY InvParts
  <1> SUFFICES ASSUME NEW r \in Nat, IsRootPopulated(r, leaves), RootOfBit(r) \in 1..Len(roots)
               PROVE  lev[roots'[RootOfBit(r)]] <= r
    BY DEF FitsRoots, RootOfBit
  <1> DEFINE i == RootOfBit(r)
  <1>2. i \in 1..Len(roots) /\ old[roots[i]] <= r /\ lev[roots'[i]] <= old[roots[i]]
    BY DEF FitsRoots
  <1> HIDE DEF i
  <1>3. roots[i] \in Nodes /\ roots'[i] \in Nodes
    BY <1>1, <1>2
  <1>4. old[roots[i]] \in Nat /\ lev[roots'[i]] \in Nat
    BY <1>3
  <1>5. lev[roots'[i]] <= r
    BY <1>2, <1>4
  <1> QED
    BY <1>5 DEF i

LEMMA DelRootFits == ASSUME Inv, HeightsFit, DelRoot PROVE HeightsFit'
  <1>1. PICK h \in DOMAIN map, e \in Fresh :
            /\ TakeTarget(h)
            /\ heap[map[h]].parent = Nil
            /\ roots' = [roots EXCEPT ![RootIndex(data[map[h]])] = e]
            /\ heap' = [Free(heap, {map[h]}) EXCEPT ![e] = BranchNode]
            /\ UNCHANGED <<pc, node>>
    BY DEF DelRoot
  <1> DEFINE x == map[h]
  <1>2. /\ x \in Live /\ heap[x].ty = "Leaf" /\ data[x] = h /\ h # Empty
        /\ pc = "del" /\ leaves' = leaves
    BY <1>1, TargetFacts
  <1> HIDE DEF x
  <1>3. PICK i \in 1..Len(roots) : roots[i] = x
    BY <1>1, <1>2 DEF Inv, RootsAreTheTops, x
  <1>4. RootIndex(data[x]) = i
    BY <1>2, <1>3, RootIndexFinds
  <1>5. e \in Nodes /\ e \notin Live /\ x \in Nodes
    BY <1>2, FreshFacts, InvParts
  <1>6. /\ roots' \in Seq(Nodes)
        /\ Len(roots') = Len(roots)
        /\ \A k \in 1..Len(roots) : roots'[k] = IF k = i THEN e ELSE roots[k]
    BY <1>1, <1>4, <1>5, InvParts, ExceptSeq DEF x
  <1>7. \A n \in Nodes : heap'[n] = IF n = e THEN BranchNode ELSE IF n = x THEN FreeNode ELSE heap[n]
    BY <1>1, <1>5 DEF Free, x
  <1>8. Live' = (Live \ {x}) \cup {e}
    BY <1>7, <1>5, <1>2 DEF Live, FreeNode, BranchNode
  <1>9. PICK old : Falls(old) /\ FitsRoots(old)
    BY DEF HeightsFit
  <1> DEFINE lev == [old EXCEPT ![e] = 0]
  <1>10. /\ old \in [Nodes -> Nat] /\ lev \in [Nodes -> Nat]
         /\ \A n \in Nodes : lev[n] = IF n = e THEN 0 ELSE old[n]
    BY <1>9, <1>5 DEF Falls
  <1> HIDE DEF lev
  <1>11. Falls(lev)'
    <2> SUFFICES ASSUME NEW m \in Live', heap'[m].parent # Nil
                 PROVE  lev[m] < lev[heap'[m].parent]
      BY <1>10 DEF Falls, Nodes
    <2>1. m # e
      BY <1>5, <1>7 DEF BranchNode
    <2>2. m \in Live /\ m \in Nodes /\ heap'[m] = heap[m]
      BY <2>1, <1>8, <1>7, InvParts
    <2>3. heap[m].parent \in Live /\ heap[m].parent \in Nodes /\ heap[m].parent # e
      BY <2>2, <1>5, InvParts DEF Inv, PointersAgree, Linked
    <2>4. old[m] < old[heap[m].parent]
      BY <2>2, <1>9 DEF Falls
    <2> QED
      BY <2>1, <2>2, <2>3, <2>4, <1>10
  <1>12. \A k \in 1..Len(roots) : lev[roots'[k]] <= old[roots[k]]
    <2> TAKE k \in 1..Len(roots)
    <2>1. roots[k] \in Nodes /\ roots[k] \in Live
      BY InvParts DEF Inv, RootsAreTheTops
    <2>2. old[roots[k]] \in Nat /\ lev[roots[k]] = old[roots[k]]
      BY <2>1, <1>5, <1>10
    <2>3. lev[e] = 0
      BY <1>5, <1>10
    <2> QED
      BY <2>2, <2>3, <1>6
  <1>13. FitsRoots(lev)'
    BY <1>2, <1>6, <1>9, <1>10, <1>12, LowerRoots
  <1>14. pc' # "merge"
    BY <1>1, <1>2
  <1> QED
    BY <1>11, <1>13, <1>14 DEF HeightsFit

LEMMA DelRootChildFits == ASSUME Inv, HeightsFit, DelRootChild PROVE HeightsFit'
  <1>1. PICK h \in DOMAIN map :
            LET x == map[h]
                p == Kin(x).parent
                s == Kin(x).sibling
            IN  /\ TakeTarget(h)
                /\ heap[x].parent \in Live
                /\ Kin(x).grandparent = Nil
                /\ roots' = [roots EXCEPT ![RootIndex(data[p])] = s]
                /\ heap' = [Free(heap, {x, p}) EXCEPT ![s] = WithParent(@, Nil)]
                /\ UNCHANGED <<pc, node>>
    BY DEF DelRootChild
  <1> DEFINE x == map[h]
             p == Kin(x).parent
             s == Kin(x).sibling
  <1>2. /\ x \in Live /\ heap[x].ty = "Leaf"
        /\ pc = "del" /\ leaves' = leaves
    BY <1>1, TargetFacts
  <1>3. /\ p \in Live /\ s \in Live /\ heap[p].parent = Nil /\ heap[s].parent = p
        /\ s # x /\ s # p /\ x # p /\ data[p] # Empty
    BY <1>1, <1>2, InvParts, KinFacts
  <1>4. PICK i \in 1..Len(roots) : roots[i] = p
    BY <1>2, <1>3 DEF Inv, RootsAreTheTops
  <1>5. RootIndex(data[p]) = i
    BY <1>3, <1>4, RootIndexFinds
  <1>6. roots' = [roots EXCEPT ![i] = s]
    BY <1>1, <1>5
  <1>7. heap' = [Free(heap, {x, p}) EXCEPT ![s] = WithParent(@, Nil)]
    BY <1>1
  <1> HIDE DEF x, p, s
  <1>8. x \in Nodes /\ p \in Nodes /\ s \in Nodes
    BY <1>2, <1>3, InvParts
  <1>9. /\ roots' \in Seq(Nodes)
        /\ Len(roots') = Len(roots)
        /\ \A k \in 1..Len(roots) : roots'[k] = IF k = i THEN s ELSE roots[k]
    BY <1>6, <1>8, InvParts, ExceptSeq
  <1>10. \A n \in Nodes : heap'[n] = IF n = s THEN WithParent(heap[s], Nil)
                                     ELSE IF n \in {x, p} THEN FreeNode ELSE heap[n]
    BY <1>3, <1>7, <1>8 DEF Free
  <1>11. Live' = Live \ {x, p}
    BY <1>3, <1>8, <1>10 DEF Live, FreeNode, WithParent
  <1>12. PICK old : Falls(old) /\ FitsRoots(old)
    BY DEF HeightsFit
  <1>13. old \in [Nodes -> Nat]
    BY <1>12 DEF Falls
  <1>14. Falls(old)'
    <2> SUFFICES ASSUME NEW m \in Live', heap'[m].parent # Nil
                 PROVE  old[m] < old[heap'[m].parent]
      BY <1>13 DEF Falls, Nodes
    <2>1. m # s
      BY <1>8, <1>10 DEF WithParent
    <2>2. m \in Live /\ heap'[m] = heap[m]
      BY <2>1, <1>10, <1>11, InvParts
    <2> QED
      BY <2>2, <1>12 DEF Falls
  <1>15. old[s] < old[p] /\ old[s] \in Nat /\ old[p] \in Nat
    BY <1>3, <1>8, <1>12, <1>13, InvParts DEF Falls
  <1>16. \A k \in 1..Len(roots) : old[roots'[k]] <= old[roots[k]]
    <2> TAKE k \in 1..Len(roots)
    <2>1. roots[k] \in Nodes
      BY InvParts
    <2>2. old[roots[k]] \in Nat
      BY <2>1, <1>13
    <2> QED
      BY <2>2, <1>4, <1>9, <1>15
  <1>17. FitsRoots(old)'
    BY <1>2, <1>9, <1>12, <1>13, <1>16, LowerRoots
  <1>18. pc' # "merge"
    BY <1>1, <1>2
  <1> QED
    BY <1>14, <1>17, <1>18 DEF HeightsFit

LEMMA DelInnerFits == ASSUME Inv, HeightsFit, DelInner PROVE HeightsFit'
  <1>1. PICK h \in DOMAIN map :
            LET x == map[h]
                p == Kin(x).parent
                s == Kin(x).sibling
                g == Kin(x).grandparent
            IN  /\ TakeTarget(h)
                /\ heap[x].parent \in Live
                /\ g \in Live
                /\ heap' = [Free(heap, {x, p}) EXCEPT
                                ![s] = WithParent(@, g),
                                ![g] = IF data[heap[g].left] = data[p]
                                       THEN WithLeft(@, s) ELSE WithRight(@, s)]
                /\ pc' = "hash"
                /\ UNCHANGED roots
    BY DEF DelInner
  <1> DEFINE x == map[h]
             p == Kin(x).parent
             s == Kin(x).sibling
             g == Kin(x).grandparent
  <1>2. x \in Live /\ heap[x].ty = "Leaf" /\ leaves' = leaves /\ roots' = roots /\ pc' = "hash"
    BY <1>1, TargetFacts
  <1>3. /\ p \in Live /\ s \in Live /\ g \in Live /\ heap[p].parent = g /\ heap[s].parent = p
        /\ s # x /\ s # p /\ x # p /\ s < p /\ x < p
    BY <1>1, <1>2, InvParts, KinFacts
  <1>4. heap' = [Free(heap, {x, p}) EXCEPT
                     ![s] = WithParent(@, g),
                     ![g] = IF data[heap[g].left] = data[p] THEN WithLeft(@, s) ELSE WithRight(@, s)]
    BY <1>1
  <1> HIDE DEF x, p, s, g
  <1>5. x \in Nodes /\ p \in Nodes /\ s \in Nodes /\ g \in Nodes
    BY <1>2, <1>3, InvParts
  <1>6. p < g
    BY <1>3, InvParts DEF Inv, PointersAgree, Linked
  <1>7. g # x /\ g # p /\ g # s
    BY <1>3, <1>5, <1>6, InvParts
  <1> DEFINE newG == IF data[heap[g].left] = data[p] THEN WithLeft(heap[g], s) ELSE WithRight(heap[g], s)
  <1>8. \A n \in Nodes : heap'[n] = IF n = g THEN newG
                                    ELSE IF n = s THEN WithParent(heap[s], g)
                                    ELSE IF n \in {x, p} THEN FreeNode ELSE heap[n]
    BY <1>3, <1>4, <1>5, <1>7 DEF Free
  <1>9. newG.parent = heap[g].parent /\ newG.ty = heap[g].ty
    BY DEF WithLeft, WithRight
  <1> HIDE DEF newG
  <1>10. heap'[s].parent = g /\ heap'[s].ty = heap[s].ty
    BY <1>5, <1>7, <1>8 DEF WithParent
  <1>11. Live' \subseteq Live \ {x, p}
    <2>1. ASSUME NEW n \in Live' PROVE n \in Live \ {x, p}
      <3>1. n \in Nodes /\ heap'[n].ty # "Free"
        BY DEF Live, Nodes
      <3>2. n \notin {x, p}
        BY <3>1, <1>3, <1>7, <1>8 DEF FreeNode
      <3>3. heap[n].ty # "Free"
        BY <3>1, <3>2, <1>8, <1>9, <1>10
      <3> QED
        BY <3>1, <3>2, <3>3 DEF Live
    <2> QED
      BY <2>1
  <1>12. PICK old : Falls(old) /\ FitsRoots(old)
    BY DEF HeightsFit
  <1>13. old \in [Nodes -> Nat]
    BY <1>12 DEF Falls
  <1>14. old[s] < old[p] /\ old[p] < old[g] /\ old[s] \in Nat /\ old[p] \in Nat /\ old[g] \in Nat
    BY <1>3, <1>5, <1>12, <1>13, InvParts DEF Falls
  <1>15. Falls(old)'
    <2> SUFFICES ASSUME NEW m \in Live', heap'[m].parent # Nil
                 PROVE  old[m] < old[heap'[m].parent]
      BY <1>13 DEF Falls, Nodes
    <2>1. m \in Live /\ m \in Nodes /\ m \notin {x, p}
      BY <1>11, InvParts
    <2>2. CASE m = s
      BY <2>2, <1>10, <1>14
    <2>3. CASE m # s
      <3>1. heap'[m].parent = heap[m].parent
        BY <2>1, <2>3, <1>8, <1>9
      <3> QED
        BY <2>1, <3>1, <1>12 DEF Falls
    <2> QED
      BY <2>2, <2>3
  <1>16. \A k \in 1..Len(roots) : old[roots'[k]] <= old[roots[k]]
    <2> TAKE k \in 1..Len(roots)
    <2>1. roots[k] \in Nodes
      BY InvParts
    <2> QED
      BY <2>1, <1>2, <1>13
  <1>17. roots' \in Seq(Nodes) /\ Len(roots') = Len(roots)
    BY <1>2, InvParts
  <1>18. FitsRoots(old)'
    BY <1>2, <1>12, <1>13, <1>16, <1>17, LowerRoots
  <1> QED
    BY <1>2, <1>15, <1>18 DEF HeightsFit

\* Where the trees stay as they are, so do the heights.
LEMMA ForestUntouchedFits ==
    ASSUME Inv, HeightsFit, UNCHANGED <<roots, leaves, heap>>,
           pc' = "merge" => pc = "merge" /\ UNCHANGED <<node, carry>>
    PROVE  HeightsFit'
  <1>1. PICK old : /\ Falls(old) /\ FitsRoots(old)
                   /\ pc = "merge" => \E j \in Nat : CarriedTo(j, old)
    BY DEF HeightsFit
  <1>2. Falls(old)'
    BY <1>1 DEF Falls, Live, Nodes
  <1>3. FitsRoots(old)'
    BY <1>1 DEF FitsRoots, RootOfBit
  <1>4. ASSUME pc' = "merge" PROVE \E j \in Nat : CarriedTo(j, old)'
    <2>1. PICK j \in Nat : CarriedTo(j, old)
      BY <1>1, <1>4
    <2>2. CarriedTo(j, old)'
      BY <2>1, <1>4 DEF CarriedTo
    <2> QED
      BY <2>2
  <1> QED
    BY <1>2, <1>3, <1>4 DEF HeightsFit
LEMMA NewLeafFits == ASSUME Inv, HeightsFit, NewLeaf PROVE HeightsFit'
  <1>1. PICK x \in Fresh :
            /\ pc = "add"
            /\ heap' = [heap EXCEPT ![x] = LeafNode]
            /\ node' = x
            /\ carry' = leaves
            /\ pc' = "merge"
            /\ UNCHANGED <<roots, leaves>>
    BY DEF NewLeaf
  <1>2. x \in Nodes /\ x \notin Live /\ leaves \in Nat
    BY FreshFacts DEF Inv, TypeOK
  <1>3. \A n \in Nodes : heap'[n] = IF n = x THEN LeafNode ELSE heap[n]
    BY <1>1 DEF Inv, TypeOK
  <1>4. Live' = Live \cup {x}
    BY <1>2, <1>3 DEF Live, LeafNode
  <1>5. PICK old : Falls(old) /\ FitsRoots(old)
    BY DEF HeightsFit
  <1> DEFINE lev == [old EXCEPT ![x] = 0]
  <1>6. /\ old \in [Nodes -> Nat] /\ lev \in [Nodes -> Nat]
        /\ \A n \in Nodes : lev[n] = IF n = x THEN 0 ELSE old[n]
    BY <1>5, <1>2 DEF Falls
  <1> HIDE DEF lev
  <1>7. Falls(lev)'
    <2> SUFFICES ASSUME NEW m \in Live', heap'[m].parent # Nil
                 PROVE  lev[m] < lev[heap'[m].parent]
      BY <1>6 DEF Falls, Nodes
    <2>1. m # x
      BY <1>2, <1>3 DEF LeafNode
    <2>2. m \in Live /\ m \in Nodes /\ heap'[m] = heap[m]
      BY <2>1, <1>4, <1>3, InvParts
    <2>3. heap[m].parent \in Live /\ heap[m].parent \in Nodes /\ heap[m].parent # x
      BY <2>2, <1>2, InvParts DEF Inv, PointersAgree, Linked
    <2>4. old[m] < old[heap[m].parent]
      BY <2>2, <1>5 DEF Falls
    <2> QED
      BY <2>1, <2>2, <2>3, <2>4, <1>6
  <1>8. FitsRoots(lev)'
    <2>1. \A k \in 1..Len(roots) : lev[roots'[k]] <= old[roots[k]]
      <3> TAKE k \in 1..Len(roots)
      <3>1. roots[k] \in Nodes /\ roots[k] \in Live
        BY InvParts DEF Inv, RootsAreTheTops
      <3>2. old[roots[k]] \in Nat /\ lev[roots[k]] = old[roots[k]]
        BY <3>1, <1>2, <1>6
      <3> QED
        BY <3>2, <1>1
    <2>2. roots' \in Seq(Nodes) /\ Len(roots') = Len(roots) /\ leaves' = leaves
      BY <1>1, InvParts
    <2> QED
      BY <2>1, <2>2, <1>5, <1>6, LowerRoots
  <1>9. CarriedTo(0, lev)'
    <2>1. lev[x] = 0
      BY <1>2, <1>6
    <2>2. leaves + 1 = (leaves + 1) * 2^0
      <3>1. 2^0 = 1
        BY Powers
      <3> QED
        BY <3>1, <1>2
    <2> QED
      BY <2>1, <2>2, <1>1 DEF CarriedTo, Carried
  <1>10. \E j \in Nat : CarriedTo(j, lev)'
    BY <1>9
  <1> QED
    BY <1>7, <1>8, <1>10 DEF HeightsFit

\* A pop leaves the first roots where they are.
LEMMA PoppedRootsFit ==
    ASSUME Inv, NEW old \in [Nodes -> Nat], NEW lev \in [Nodes -> Nat], FitsRoots(old),
           leaves' = leaves, Len(roots) \in Nat, Len(roots') = Len(roots) - 1,
           \A i \in 1..(Len(roots) - 1) : roots'[i] = roots[i],
           \A i \in 1..(Len(roots) - 1) : lev[roots[i]] = old[roots[i]]
    PROVE  FitsRoots(lev)'
  <1> SUFFICES ASSUME NEW r \in Nat, IsRootPopulated(r, leaves), RootOfBit(r) \in 1..(Len(roots) - 1)
               PROVE  lev[roots'[RootOfBit(r)]] <= r
    BY DEF FitsRoots, RootOfBit
  <1>1. RootOfBit(r) \in 1..Len(roots)
    OBVIOUS
  <1>2. old[roots[RootOfBit(r)]] <= r
    BY <1>1 DEF FitsRoots
  <1> QED
    BY <1>2

LEMMA SkipEmptyRootFits == ASSUME Inv, HeightsFit, SkipEmptyRoot PROVE HeightsFit'
  <1> PICK l : l = roots[Len(roots)]
    OBVIOUS
  <1>1. /\ PopRoot /\ pc = "merge" /\ pc' = "merge" /\ carry % 2 = 1 /\ carry' = carry \div 2
        /\ heap' = Free(heap, {l})
        /\ UNCHANGED <<leaves, node>>
    BY DEF SkipEmptyRoot, PopRoot, LastRoot
  <1>2. /\ Len(roots) \in Nat /\ Len(roots) > 0
        /\ Len(roots') = Len(roots) - 1
        /\ \A i \in 1..(Len(roots) - 1) : roots'[i] = roots[i]
        /\ leaves \in Nat /\ carry \in Nat
    BY <1>1, PopLemma, InvParts DEF Inv, TypeOK
  <1>3. \A n \in Nodes : heap'[n] = IF n = l THEN FreeNode ELSE heap[n]
    BY <1>1 DEF Free
  <1>4. PICK old : /\ Falls(old) /\ FitsRoots(old)
                   /\ pc = "merge" => \E j \in Nat : CarriedTo(j, old)
    BY DEF HeightsFit
  <1>5. old \in [Nodes -> Nat]
    BY <1>4 DEF Falls
  <1>6. Falls(old)'
    <2> SUFFICES ASSUME NEW m \in Live', heap'[m].parent # Nil
                 PROVE  old[m] < old[heap'[m].parent]
      BY <1>5 DEF Falls, Nodes
    <2>1. m \in Nodes /\ m # l
      BY <1>3 DEF FreeNode, Live, Nodes
    <2>2. m \in Live /\ heap'[m] = heap[m]
      BY <2>1, <1>3 DEF Live
    <2> QED
      BY <2>2, <1>4 DEF Falls
  <1>7. FitsRoots(old)'
    BY <1>1, <1>2, <1>4, <1>5, PoppedRootsFit
  <1>8. PICK j \in Nat : CarriedTo(j, old)
    BY <1>1, <1>4
  <1>9. CarriedTo(j + 1, old)'
    <2>1. Carried(leaves, carry \div 2, j + 1)
      BY <1>1, <1>2, <1>8, CarryMovesUp DEF CarriedTo
    <2>2. node \in Nodes
      BY <1>1, InvParts DEF Inv, RootsAreTheTops
    <2>3. old[node] <= j /\ old[node] \in Nat
      BY <2>2, <1>5, <1>8 DEF CarriedTo
    <2> QED
      BY <2>1, <2>3, <1>1 DEF CarriedTo
  <1>10. \E i \in Nat : CarriedTo(i, old)'
    BY <1>9
  <1> QED
    BY <1>6, <1>7, <1>10 DEF HeightsFit

\* The root that is popped is the one of the bit that the carry has got to.
LEMMA LastRootIsAtCarry ==
    ASSUME Inv, pc = "merge", carry % 2 = 1, NEW j \in Nat, Carried(leaves, carry, j)
    PROVE  IsRootPopulated(j, leaves) /\ RootOfBit(j) = Len(roots)
  <1>1. leaves \in Nat /\ carry \in Nat
    BY DEF Inv, TypeOK
  <1>2. leaves \div 2^j = carry /\ IsRootPopulated(j, leaves)
    BY <1>1, CarryIsQuotient, CarryMovesUp
  <1> QED
    BY <1>2 DEF RootOfBit, Inv, RootsMatchLeafCount

LEMMA MergeRootFits == ASSUME Inv, HeightsFit, MergeRoot PROVE HeightsFit'
  <1> PICK l, r : l = roots[Len(roots)] /\ r = node
    OBVIOUS
  <1>1. PICK b \in Fresh :
            /\ PopRoot /\ pc = "merge" /\ pc' = "merge" /\ carry % 2 = 1 /\ carry' = carry \div 2
            /\ heap' = [heap EXCEPT
                            ![b] = WithRight(WithLeft(BranchNode, l), r),
                            ![l] = WithParent(@, b),
                            ![r] = WithParent(@, b)]
            /\ node' = b
            /\ UNCHANGED leaves
    BY DEF MergeRoot, PopRoot, LastRoot
  <1>2. /\ Len(roots) \in Nat /\ Len(roots) > 0
        /\ Len(roots') = Len(roots) - 1
        /\ \A i \in 1..(Len(roots) - 1) : roots'[i] = roots[i]
        /\ leaves \in Nat /\ carry \in Nat
    BY <1>1, PopLemma, InvParts DEF Inv, TypeOK
  <1>3. /\ l \in Live /\ r \in Live /\ l # r /\ l \in Nodes /\ r \in Nodes
    BY <1>1, <1>2, InvParts DEF Inv, RootsAreTheTops
  <1>4. b \in Nodes /\ b \notin Live /\ b # l /\ b # r
    BY <1>3, FreshFacts
  <1>5. /\ heap'[b].parent = Nil
        /\ heap'[l].parent = b
        /\ heap'[r].parent = b
        /\ \A n \in Nodes \ {b, l, r} : heap'[n] = heap[n]
    <2>1. heap \in [Nodes -> NodeRecords]
      BY DEF Inv, TypeOK, NodeRecords
    <2> QED
      BY <2>1, <1>1, <1>3, <1>4, InvParts DEF WithLeft, WithRight, WithParent, BranchNode
  <1>6. PICK old : /\ Falls(old) /\ FitsRoots(old)
                   /\ pc = "merge" => \E j \in Nat : CarriedTo(j, old)
    BY DEF HeightsFit
  <1>7. PICK j \in Nat : CarriedTo(j, old)
    BY <1>1, <1>6
  <1> DEFINE lev == [old EXCEPT ![b] = j + 1]
  <1>8. /\ old \in [Nodes -> Nat] /\ lev \in [Nodes -> Nat]
        /\ \A n \in Nodes : lev[n] = IF n = b THEN j + 1 ELSE old[n]
    BY <1>6, <1>4 DEF Falls
  <1> HIDE DEF lev
  <1>9. old[l] <= j /\ old[r] <= j /\ old[l] \in Nat /\ old[r] \in Nat
    <2>1. IsRootPopulated(j, leaves) /\ RootOfBit(j) = Len(roots)
      BY <1>1, <1>7, LastRootIsAtCarry DEF CarriedTo
    <2>2. RootOfBit(j) \in 1..Len(roots)
      BY <2>1, <1>2
    <2> QED
      BY <2>1, <2>2, <1>3, <1>6, <1>7, <1>8 DEF FitsRoots, CarriedTo
  <1>10. Falls(lev)'
    <2> SUFFICES ASSUME NEW m \in Live', heap'[m].parent # Nil
                 PROVE  lev[m] < lev[heap'[m].parent]
      BY <1>8 DEF Falls, Nodes
    <2>1. m \in Nodes /\ m # b /\ lev[b] = j + 1 /\ heap'[m].ty # "Free"
      BY <1>4, <1>5, <1>8 DEF Live, Nodes
    <2>2. CASE m \in {l, r}
      BY <2>1, <2>2, <1>5, <1>8, <1>9
    <2>3. CASE m \notin {l, r}
      <3>1. heap'[m] = heap[m] /\ m \in Live
        BY <2>1, <2>3, <1>5 DEF Live
      <3>2. heap[m].parent \in Live /\ heap[m].parent \in Nodes /\ heap[m].parent # b
        BY <3>1, <1>4, InvParts DEF Inv, PointersAgree, Linked
      <3>3. old[m] < old[heap[m].parent]
        BY <3>1, <1>6 DEF Falls
      <3> QED
        BY <2>1, <3>1, <3>2, <3>3, <1>8
    <2> QED
      BY <2>2, <2>3
  <1>11. FitsRoots(lev)'
    <2>1. \A i \in 1..(Len(roots) - 1) : lev[roots[i]] = old[roots[i]]
      <3> TAKE i \in 1..(Len(roots) - 1)
      <3>1. i \in 1..Len(roots)
        BY <1>2
      <3>2. roots[i] \in Nodes /\ roots[i] \in Live
        BY <3>1, InvParts DEF Inv, RootsAreTheTops
      <3> QED
        BY <3>2, <1>4, <1>8
    <2> QED
      BY <2>1, <1>1, <1>2, <1>6, <1>8, PoppedRootsFit
  <1>12. CarriedTo(j + 1, lev)'
    <2>1. Carried(leaves, carry \div 2, j + 1)
      BY <1>1, <1>2, <1>7, CarryMovesUp DEF CarriedTo
    <2>2. lev[b] <= j + 1
      BY <1>4, <1>8
    <2> QED
      BY <2>1, <2>2, <1>1 DEF CarriedTo
  <1>13. \E i \in Nat : CarriedTo(i, lev)'
    BY <1>12
  <1> QED
    BY <1>10, <1>11, <1>13 DEF HeightsFit

LEMMA PushRootFits == ASSUME Inv, HeightsFit, PushRoot PROVE HeightsFit'
  <1>1. /\ pc = "merge" /\ pc' = "add" /\ carry % 2 = 0
        /\ roots' = Append(roots, node)
        /\ leaves' = leaves + 1
        /\ UNCHANGED heap
    BY DEF PushRoot
  <1>2. leaves \in Nat /\ carry \in Nat /\ node \in Nodes
    BY <1>1, InvParts DEF Inv, TypeOK, RootsAreTheTops
  <1>3. /\ Len(roots) \in Nat
        /\ Len(roots') = Len(roots) + 1
        /\ \A i \in 1..Len(roots) : roots'[i] = roots[i]
        /\ roots'[Len(roots) + 1] = node
        /\ Len(roots) = CountOnes[carry]
    BY <1>1, <1>2, InvParts, AppendProperties DEF Inv, RootsMatchLeafCount
  <1>4. PICK old : /\ Falls(old) /\ FitsRoots(old)
                   /\ pc = "merge" => \E j \in Nat : CarriedTo(j, old)
    BY DEF HeightsFit
  <1>5. PICK j \in Nat : CarriedTo(j, old)
    BY <1>1, <1>4
  <1>6. Falls(old)'
    BY <1>1, <1>4 DEF Falls, Live, Nodes
  <1>7. FitsRoots(old)'
    <2> SUFFICES ASSUME NEW r \in Nat, IsRootPopulated(r, leaves + 1),
                        CountOnes[(leaves + 1) \div 2^r] \in 1..Len(roots')
                 PROVE  old[roots'[CountOnes[(leaves + 1) \div 2^r]]] <= r
      BY <1>1 DEF FitsRoots, RootOfBit
    <2>1. \/ r = j /\ CountOnes[(leaves + 1) \div 2^r] = CountOnes[carry] + 1
          \/ /\ r > j
             /\ (leaves + 1) \div 2^r = leaves \div 2^r
             /\ IsRootPopulated(r, leaves)
             /\ CountOnes[leaves \div 2^r] <= CountOnes[carry]
             /\ CountOnes[leaves \div 2^r] \in Nat
      <3>1. Carried(leaves, carry, j)
        BY <1>5 DEF CarriedTo
      <3> QED
        BY <3>1, <1>1, <1>2, CarryEnds
    <2>2. CASE r = j /\ CountOnes[(leaves + 1) \div 2^r] = CountOnes[carry] + 1
      BY <2>2, <1>3, <1>5 DEF CarriedTo
    <2>3. CASE /\ (leaves + 1) \div 2^r = leaves \div 2^r
               /\ IsRootPopulated(r, leaves)
               /\ CountOnes[leaves \div 2^r] <= CountOnes[carry]
      <3>1. RootOfBit(r) = CountOnes[(leaves + 1) \div 2^r] /\ RootOfBit(r) \in 1..Len(roots)
        BY <2>3, <1>3 DEF RootOfBit
      <3>2. old[roots[RootOfBit(r)]] <= r
        BY <3>1, <2>3, <1>4 DEF FitsRoots
      <3> QED
        BY <3>1, <3>2, <1>3
    <2> QED
      BY <2>1, <2>2, <2>3
  <1> QED
    BY <1>1, <1>6, <1>7 DEF HeightsFit

LEMMA NextKeepsFit == ASSUME Inv, HeightsFit, [Next]_vars PROVE HeightsFit'
  <1>1. CASE Modify
    BY <1>1, ForestUntouchedFits DEF Modify, forest
  <1>2. CASE ModifyUnknownTarget
    BY <1>2, ForestUntouchedFits DEF ModifyUnknownTarget, forest
  <1>3. CASE TargetGone
    BY <1>3, ForestUntouchedFits DEF TargetGone, forest
  <1>4. CASE RecomputeHash
    BY <1>4, ForestUntouchedFits DEF RecomputeHash
  <1>5. CASE Deleted
    BY <1>5, ForestUntouchedFits DEF Deleted, forest
  <1>6. CASE Return
    BY <1>6, ForestUntouchedFits DEF Return, forest
  <1>7. CASE UNCHANGED vars
    BY <1>7, ForestUntouchedFits DEF vars, forest, call
  <1>8. CASE DelRoot
    BY <1>8, DelRootFits
  <1>9. CASE DelRootChild
    BY <1>9, DelRootChildFits
  <1>10. CASE DelInner
    BY <1>10, DelInnerFits
  <1>11. CASE NewLeaf
    BY <1>11, NewLeafFits
  <1>12. CASE SkipEmptyRoot
    BY <1>12, SkipEmptyRootFits
  <1>13. CASE MergeRoot
    BY <1>13, MergeRootFits
  <1>14. CASE PushRoot
    BY <1>14, PushRootFits
  <1> QED
    BY <1>1, <1>2, <1>3, <1>4, <1>5, <1>6, <1>7, <1>8, <1>9, <1>10, <1>11, <1>12, <1>13, <1>14
       DEF Next, Step

\* No tree is higher than the row of its root, whatever was deleted from it.
THEOREM HeightsFitHolds == Spec => []HeightsFit
  <1>1. Init => Inv /\ HeightsFit
    BY InitInv, InitFits
  <1>2. Inv /\ HeightsFit /\ [Next]_vars => (Inv /\ HeightsFit)'
    BY NextKeepsInv, NextKeepsFit
  <1> QED
    BY <1>1, <1>2, PTL DEF Spec
-----------------------------------------------------------------------------
(***************************************************************************)
(* Rows and roots: one root per one bit, the lowest bit's is the last.     *)
(***************************************************************************)
LEMMA BitTakenOff ==
    ASSUME NEW n \in Nat, NEW r \in Nat
    PROVE  /\ CountOnes[n \div 2^r] = Bit(n, r) + CountOnes[n \div 2^(r + 1)]
           /\ CountOnes[n \div 2^r] \in Nat /\ CountOnes[n \div 2^(r + 1)] \in Nat
           /\ Bit(n, r) \in {0, 1}
  <1> DEFINE x == n \div 2^r
  <1>1. x \in Nat /\ x \div 2 = n \div 2^(r + 1)
    BY HalfOfQuotient
  <1>2. Bit(n, r) = x % 2
    BY DEF Bit
  <1> HIDE DEF x
  <1>3. x % 2 \in {0, 1} /\ x \div 2 \in Nat
    BY <1>1
  <1>4. CountOnes[x] \in Nat /\ CountOnes[x \div 2] \in Nat
    BY <1>1, <1>3, CountOnesFacts
  <1>5. CountOnes[x] = (x % 2) + CountOnes[x \div 2]
    <2>1. CASE x = 0
      BY <2>1, CountOnesFacts
    <2>2. CASE x # 0
      BY <2>2, <1>1, CountOnesFacts
    <2> QED
      BY <2>1, <2>2
  <1> QED
    BY <1>1, <1>2, <1>3, <1>4, <1>5 DEF x

\* detect_offset counts the bigger trees, which come first.
LEMMA BiggerTreesComeFirst ==
    ASSUME NEW n \in Nat, n <= 2^MaxForestRows, NEW R \in 0..TreeRows(n)
    PROVE  Cardinality(TreesAbove(R, TreeRows(n), n)) = CountOnes[n \div 2^(R + 1)]
  <1> DEFINE rows == TreeRows(n)
  <1>1. rows \in Nat /\ n <= 2^rows
    BY TreeRowsFacts
  <1> HIDE DEF rows
  <1> DEFINE Agreed(r) == Cardinality(TreesAbove(r, rows, n)) = CountOnes[n \div 2^(r + 1)]
             S == {k \in Nat : k <= rows => Agreed(rows - k)}
  <1>2. 0 \in S
    <2>1. n \div 2^(rows + 1) = 0
      <3>1. 2^(rows + 1) \in Nat \ {0} /\ n < 2^(rows + 1)
        <4>1. 2^(rows + 1) = 2 * 2^rows /\ 2^rows \in Nat /\ 2^rows >= 1
          BY <1>1, Powers
        <4> QED
          BY <4>1, <1>1
      <3> QED
        BY <3>1, Small
    <2>2. Cardinality(TreesAbove(rows, rows, n)) = 0
      <3>1. rows \in 0..rows
        BY <1>1
      <3> QED
        BY <3>1, <1>1, TreesAboveFacts
    <2>3. Agreed(rows)
      BY <2>1, <2>2, CountOnesFacts
    <2>4. rows - 0 = rows
      BY <1>1
    <2> QED
      BY <2>3, <2>4
  <1>3. ASSUME NEW k \in Nat, k \in S PROVE k + 1 \in S
    <2> SUFFICES ASSUME k + 1 <= rows PROVE Agreed(rows - (k + 1))
      OBVIOUS
    <2> DEFINE t == rows - k
    <2>1. t \in 0..rows /\ t # 0 /\ rows - (k + 1) = t - 1 /\ t - 1 \in Nat /\ (t - 1) + 1 = t
          /\ t \in Nat
      BY <1>1
    <2>2. Agreed(t)
      BY <1>1, <1>3
    <2> HIDE DEF t
    <2>3. Cardinality(TreesAbove(t - 1, rows, n)) =
              Cardinality(TreesAbove(t, rows, n)) + (IF IsRootPopulated(t, n) THEN 1 ELSE 0)
      BY <1>1, <2>1, TreesAboveFacts
    <2>4. CountOnes[n \div 2^t] = Bit(n, t) + CountOnes[n \div 2^(t + 1)]
          /\ CountOnes[n \div 2^(t + 1)] \in Nat /\ Bit(n, t) \in {0, 1}
      BY <2>1, BitTakenOff
    <2>5. Cardinality(TreesAbove(t - 1, rows, n)) = CountOnes[n \div 2^t]
      BY <2>2, <2>3, <2>4 DEF IsRootPopulated
    <2> QED
      BY <2>1, <2>5
  <1> HIDE DEF S, Agreed
  <1>4. Nat \subseteq S
    BY <1>2, <1>3, NatInductionOn
  <1>5. rows - R \in Nat /\ rows - R <= rows /\ rows - (rows - R) = R
    BY <1>1 DEF rows
  <1>6. Agreed(R)
    BY <1>4, <1>5 DEF S
  <1> QED
    BY <1>6 DEF Agreed, rows

RootsBelow(r, n) == {q \in 0..(r - 1) : IsRootPopulated(q, n)}

\* The search of get_pos passes the roots of the lower rows.
LEMMA RootsBelowAreLast ==
    ASSUME NEW n \in Nat, NEW r \in Nat
    PROVE  /\ Cardinality(RootsBelow(r, n)) \in Nat
           /\ CountOnes[n] = Cardinality(RootsBelow(r, n)) + CountOnes[n \div 2^r]
  <1> DEFINE S == {k \in Nat : /\ IsFiniteSet(RootsBelow(k, n))
                               /\ Cardinality(RootsBelow(k, n)) \in Nat
                               /\ CountOnes[n] = Cardinality(RootsBelow(k, n)) + CountOnes[n \div 2^k]}
  <1>1. 0 \in S
    <2>1. RootsBelow(0, n) = {}
      BY DEF RootsBelow
    <2>2. n \div 2^0 = n
      BY Powers
    <2>3. CountOnes[n] \in Nat
      BY CountOnesFacts
    <2>4. IsFiniteSet(RootsBelow(0, n)) /\ Cardinality(RootsBelow(0, n)) = 0
      BY <2>1, FS_EmptySet
    <2>5. CountOnes[n] = Cardinality(RootsBelow(0, n)) + CountOnes[n \div 2^0]
      BY <2>2, <2>3, <2>4
    <2> QED
      BY <2>4, <2>5
  <1>2. ASSUME NEW k \in Nat, k \in S PROVE k + 1 \in S
    <2> DEFINE B == RootsBelow(k, n)
    <2>1. IsFiniteSet(B) /\ Cardinality(B) \in Nat /\ CountOnes[n] = Cardinality(B) + CountOnes[n \div 2^k]
      BY <1>2
    <2>2. CountOnes[n \div 2^k] = Bit(n, k) + CountOnes[n \div 2^(k + 1)]
          /\ CountOnes[n \div 2^(k + 1)] \in Nat /\ Bit(n, k) \in {0, 1}
      BY BitTakenOff
    <2>3. RootsBelow(k + 1, n) = IF Bit(n, k) = 1 THEN B \cup {k} ELSE B
      BY DEF RootsBelow, IsRootPopulated
    <2>4. k \notin B
      BY DEF RootsBelow
    <2> HIDE DEF B
    <2>5. IsFiniteSet(B \cup {k}) /\ Cardinality(B \cup {k}) = Cardinality(B) + 1
      BY <2>1, <2>4, FS_AddElement
    <2> DEFINE C == RootsBelow(k + 1, n)
    <2>6. IsFiniteSet(C) /\ Cardinality(C) = Cardinality(B) + Bit(n, k)
      BY <2>1, <2>2, <2>3, <2>5
    <2> HIDE DEF C
    <2>7. Cardinality(C) \in Nat /\ CountOnes[n] = Cardinality(C) + CountOnes[n \div 2^(k + 1)]
      BY <2>1, <2>2, <2>6
    <2> QED
      BY <2>6, <2>7 DEF C
  <1> HIDE DEF S
  <1>3. Nat \subseteq S
    BY <1>1, <1>2, NatInductionOn
  <1> QED
    BY <1>3 DEF S

\* The roots, between additions.
Settled == Inv /\ pc \in {"idle", "add"}

LEMMA SettledFacts ==
    ASSUME Settled
    PROVE  /\ leaves \in Nat /\ leaves <= 2^MaxForestRows /\ leaves <= 2^TreeRows(leaves)
           /\ TreeRows(leaves) \in 0..MaxForestRows /\ TreeRows(leaves) \in Nat
           /\ Len(roots) = CountOnes[leaves] /\ Len(roots) \in Nat
           /\ \A i \in 1..Len(roots) : roots[i] \in Live /\ heap[roots[i]].parent = Nil
           /\ \A i, j \in 1..Len(roots) : roots[i] = roots[j] => i = j
           /\ \A n \in Live : heap[n].parent = Nil => \E i \in 1..Len(roots) : roots[i] = n
  <1>1. leaves \in Nat /\ leaves <= MaxLeaves /\ MaxLeaves \in Nat
    BY BoundsAssumption DEF Settled, Inv, TypeOK, LeavesMade
  <1>2. leaves <= 2^MaxForestRows
    BY <1>1, PositionsAssumption, HalfTheRoom
  <1>3. /\ leaves <= 2^TreeRows(leaves)
        /\ TreeRows(leaves) \in 0..MaxForestRows /\ TreeRows(leaves) \in Nat
    BY <1>1, <1>2, TreeRowsFacts
  <1>4. Len(roots) = CountOnes[leaves] /\ Len(roots) \in Nat
    BY InvParts DEF Settled, Inv, RootsMatchLeafCount
  <1> QED
    BY <1>1, <1>2, <1>3, <1>4 DEF Settled, Inv, RootsAreTheTops

\* A one bit has its root, and the roots of higher bits come before it.
LEMMA BitHasRoot ==
    ASSUME Settled, NEW r \in Nat, IsRootPopulated(r, leaves)
    PROVE  /\ RootOfBit(r) \in 1..Len(roots)
           /\ RootAtRow(r) = RootOfBit(r)
           /\ RootOfBit(r) = CountOnes[leaves \div 2^(r + 1)] + 1
           /\ CountOnes[leaves \div 2^(r + 1)] \in Nat
           /\ \A q \in Nat : q > r => CountOnes[leaves \div 2^q] <= CountOnes[leaves \div 2^(r + 1)]
  <1>1. leaves \in Nat /\ Len(roots) = CountOnes[leaves]
    BY SettledFacts
  <1>2. /\ CountOnes[leaves \div 2^r] = 1 + CountOnes[leaves \div 2^(r + 1)]
        /\ CountOnes[leaves \div 2^(r + 1)] \in Nat
    BY <1>1, BitTakenOff DEF IsRootPopulated
  <1>3. CountOnes[leaves \div 2^r] <= CountOnes[leaves] /\ CountOnes[leaves] \in Nat
    BY <1>1, CountOnesShrinks
  <1>4. /\ Cardinality(RootsBelow(r, leaves)) \in Nat
        /\ CountOnes[leaves] = Cardinality(RootsBelow(r, leaves)) + CountOnes[leaves \div 2^r]
    BY <1>1, RootsBelowAreLast
  <1>5. RootAtRow(r) = Len(roots) - Cardinality(RootsBelow(r, leaves))
    BY DEF RootAtRow, RootsBelow
  <1>6. RootAtRow(r) = CountOnes[leaves \div 2^r]
    BY <1>1, <1>2, <1>4, <1>5
  <1>7. ASSUME NEW q \in Nat, q > r
        PROVE  CountOnes[leaves \div 2^q] <= CountOnes[leaves \div 2^(r + 1)]
    <2> PICK k \in Nat : (r + 1) + k = q
      <3>1. q - (r + 1) \in Nat /\ (r + 1) + (q - (r + 1)) = q
        BY <1>7
      <3> QED
        BY <3>1
    <2> DEFINE u == r + 1
               x == leaves \div 2^u
    <2>1. u \in Nat
      OBVIOUS
    <2> HIDE DEF u
    <2>2. x \in Nat
      BY <1>1, <2>1, HalfOfQuotient
    <2>3. x \div 2^k = leaves \div 2^(u + k)
      BY <1>1, <2>1, ShiftTwice
    <2> HIDE DEF x
    <2>4. CountOnes[x \div 2^k] <= CountOnes[x]
      BY <2>2, CountOnesShrinks
    <2> QED
      BY <2>3, <2>4 DEF x, u
  <1> QED
    BY <1>1, <1>2, <1>3, <1>6, <1>7 DEF RootOfBit

\* Every root belongs to a one bit.
LEMMA RootHasBit ==
    ASSUME Settled, NEW i \in 1..Len(roots)
    PROVE  \E R \in 0..TreeRows(leaves) : IsRootPopulated(R, leaves) /\ RootOfBit(R) = i
  <1> DEFINE rows == TreeRows(leaves)
             S == {r \in Nat : CountOnes[leaves \div 2^r] < i}
  <1>1. leaves \in Nat /\ rows \in Nat /\ leaves <= 2^rows /\ i \in Nat /\ i > 0 /\ i <= CountOnes[leaves]
    BY SettledFacts
  <1> HIDE DEF rows
  <1>2. leaves \div 2^0 = leaves
    BY <1>1, Powers
  <1>3. leaves \div 2^(rows + 1) = 0
    <2>1. 2^(rows + 1) \in Nat \ {0} /\ leaves < 2^(rows + 1)
      <3>1. 2^(rows + 1) = 2 * 2^rows /\ 2^rows \in Nat /\ 2^rows >= 1
        BY <1>1, Powers
      <3> QED
        BY <3>1, <1>1
    <2> QED
      BY <2>1, <1>1, Small
  <1>4. 0 \notin S /\ rows + 1 \in S
    <2>1. CountOnes[leaves] \in Nat
      BY <1>1, CountOnesFacts
    <2>2. CountOnes[leaves \div 2^(rows + 1)] = 0
      BY <1>3, CountOnesFacts
    <2> QED
      BY <1>1, <1>2, <2>1, <2>2
  <1>5. PICK m \in S : \A r \in S : m <= r
    <2>1. S \subseteq Nat /\ S # {}
      BY <1>4
    <2> HIDE DEF S
    <2> QED
      BY <2>1, LeastNumber
  <1>6. PICK R \in Nat : R + 1 = m /\ R \in 0..rows /\ R \notin S
    <2>1. m \in Nat /\ m # 0 /\ m <= rows + 1
      BY <1>4, <1>5
    <2>2. m - 1 \in Nat /\ (m - 1) + 1 = m /\ m - 1 \in 0..rows /\ ~ (m <= m - 1)
      BY <2>1, <1>1
    <2> HIDE DEF S
    <2>3. m - 1 \notin S
      BY <2>2, <1>5
    <2> QED
      BY <2>2, <2>3
  <1>7. /\ CountOnes[leaves \div 2^R] = Bit(leaves, R) + CountOnes[leaves \div 2^(R + 1)]
        /\ CountOnes[leaves \div 2^R] \in Nat /\ CountOnes[leaves \div 2^(R + 1)] \in Nat
        /\ Bit(leaves, R) \in {0, 1}
    BY <1>1, BitTakenOff
  <1>8. CountOnes[leaves \div 2^(R + 1)] < i
    BY <1>6
  <1>9. ~ (CountOnes[leaves \div 2^R] < i)
    BY <1>6
  <1>10. Bit(leaves, R) = 1 /\ CountOnes[leaves \div 2^R] = i
    BY <1>1, <1>7, <1>8, <1>9
  <1> QED
    BY <1>6, <1>10 DEF IsRootPopulated, RootOfBit, rows

\* get_pos finds the row of a root by its hash: no lower row's root has it.
LEMMA RootRowFinds ==
    ASSUME Settled, NEW R \in 0..TreeRows(leaves), IsRootPopulated(R, leaves),
           NEW m \in Live, m = roots[RootOfBit(R)], data[m] # Empty
    PROVE  RootRow(m) = R
  <1> DEFINE Matches(r) == IsRootPopulated(r, leaves) /\ data[roots[RootAtRow(r)]] = data[m]
             Found(row) == Matches(row) /\ \A r \in 0..(row - 1) : ~ Matches(r)
  <1>1. R \in Nat /\ TreeRows(leaves) \in Nat
    BY SettledFacts
  <1>2. Matches(R)
    BY <1>1, BitHasRoot
  <1>3. ASSUME NEW r \in 0..TreeRows(leaves), Matches(r) PROVE r = R
    <2>1. r \in Nat /\ IsRootPopulated(r, leaves)
      BY <1>1, <1>3
    <2>2. /\ RootOfBit(r) \in 1..Len(roots) /\ RootAtRow(r) = RootOfBit(r)
          /\ RootOfBit(R) \in 1..Len(roots)
      BY <1>1, <2>1, BitHasRoot
    <2>3. roots[RootOfBit(r)] \in Live /\ data[roots[RootOfBit(r)]] = data[m]
      BY <1>3, <2>2, SettledFacts
    <2>4. roots[RootOfBit(r)] = m
      BY <2>3 DEF Settled, Inv, HashesIdentifyNodes
    <2>5. RootOfBit(r) = RootOfBit(R)
      BY <2>2, <2>4, SettledFacts
    <2>6. ~ (r < R)
      <3> SUFFICES ASSUME r < R PROVE FALSE
        OBVIOUS
      <3>1. RootOfBit(r) = CountOnes[leaves \div 2^(r + 1)] + 1 /\ CountOnes[leaves \div 2^(r + 1)] \in Nat
            /\ CountOnes[leaves \div 2^R] <= CountOnes[leaves \div 2^(r + 1)]
        BY <1>1, <2>1, BitHasRoot
      <3> QED
        BY <3>1, <2>5, <2>2 DEF RootOfBit
    <2>7. ~ (R < r)
      <3> SUFFICES ASSUME R < r PROVE FALSE
        OBVIOUS
      <3>1. RootOfBit(R) = CountOnes[leaves \div 2^(R + 1)] + 1 /\ CountOnes[leaves \div 2^(R + 1)] \in Nat
            /\ CountOnes[leaves \div 2^r] <= CountOnes[leaves \div 2^(R + 1)]
        BY <1>1, <2>1, BitHasRoot
      <3> QED
        BY <3>1, <2>5, <2>2 DEF RootOfBit
    <2> QED
      BY <1>1, <2>1, <2>6, <2>7
  <1> HIDE DEF Matches
  <1>4. Found(R)
    <2>1. \A r \in 0..(R - 1) : r \in 0..TreeRows(leaves) /\ r # R
      BY <1>1
    <2> QED
      BY <1>2, <1>3, <2>1
  <1>5. \A r \in 0..TreeRows(leaves) : Found(r) => r = R
    BY <1>3
  <1>6. RootRow(m) = CHOOSE row \in 0..TreeRows(leaves) : Found(row)
    BY DEF RootRow, Matches
  <1> HIDE DEF Found
  <1> QED
    BY <1>4, <1>5, <1>6
-----------------------------------------------------------------------------
(***************************************************************************)
(* Where a node is: its root, and the turns from there.                    *)
(***************************************************************************)
LEMMA RootRowIsARow ==
    ASSUME Settled, NEW m \in Live, heap[m].parent = Nil
    PROVE  RootRow(m) \in 0..TreeRows(leaves)
  <1> DEFINE Matches(r) == IsRootPopulated(r, leaves) /\ data[roots[RootAtRow(r)]] = data[m]
             Found(row) == Matches(row) /\ \A r \in 0..(row - 1) : ~ Matches(r)
             S == {r \in 0..TreeRows(leaves) : Matches(r)}
  <1>1. TreeRows(leaves) \in Nat
    BY SettledFacts
  <1>2. PICK i \in 1..Len(roots) : roots[i] = m
    BY SettledFacts
  <1>3. PICK R \in 0..TreeRows(leaves) : IsRootPopulated(R, leaves) /\ RootOfBit(R) = i
    BY RootHasBit
  <1>4. Matches(R)
    <2>1. R \in Nat
      BY <1>1
    <2>2. RootAtRow(R) = i
      BY <1>3, <2>1, BitHasRoot
    <2> QED
      BY <1>2, <1>3, <2>2
  <1> HIDE DEF Matches
  <1>5. PICK l \in S : \A r \in S : l <= r
    <2>1. S \subseteq Nat /\ S # {}
      BY <1>1, <1>4
    <2> HIDE DEF S
    <2> QED
      BY <2>1, LeastNumber
  <1>6. Found(l)
    <2>1. l \in 0..TreeRows(leaves) /\ Matches(l)
      OBVIOUS
    <2>2. ASSUME NEW r \in 0..(l - 1), Matches(r) PROVE FALSE
      <3>1. r \in S /\ ~ (l <= r)
        BY <1>1, <2>1, <2>2
      <3> HIDE DEF S
      <3> QED
        BY <3>1, <1>5
    <2> QED
      BY <2>1, <2>2
  <1>7. RootRow(m) = CHOOSE row \in 0..TreeRows(leaves) : Found(row)
    BY DEF RootRow, Matches
  <1> HIDE DEF Found
  <1>8. l \in 0..TreeRows(leaves)
    OBVIOUS
  <1> QED
    BY <1>6, <1>7, <1>8

\* The positions that get_pos walks through on its way down to a node.
PositionFrom(m, above) ==
    IF heap[m].parent = Nil THEN RootPosition(leaves, RootRow(m), TreeRows(leaves))
    ELSE IF IsLeftChild(m) THEN LeftChild(above, TreeRows(leaves))
    ELSE RightChild(above, TreeRows(leaves))

LEMMA GetPosWalks ==
    ASSUME Settled
    PROVE  \E pos : \A m \in Live : /\ pos[m] = PositionFrom(m, pos[heap[m].parent])
                                    /\ GetPos(m) = pos[m]
  <1> DEFINE rows == TreeRows(leaves)
             rank == [m \in Live |-> MaxNodes - m]
             Z    == {m \in Live : heap[m].parent = Nil}
             z    == [m \in Live |-> RootPosition(leaves, RootRow(m), rows)]
             b    == [m \in Live |-> heap[m].parent]
             V    == [m \in Live |-> Nat]
             step == [m \in Live |-> [x \in Nat |-> IF IsLeftChild(m) THEN LeftChild(x, rows)
                                                    ELSE RightChild(x, rows)]]
             IsPositions(g) == g = [m \in Live |->
                 IF heap[m].parent = Nil THEN RootPosition(leaves, RootRow(m), rows)
                 ELSE IF IsLeftChild(m) THEN LeftChild(g[heap[m].parent], rows)
                 ELSE RightChild(g[heap[m].parent], rows)]
             pos  == CHOOSE g : IsPositions(g)
  <1>1. \A m \in Live : m \in Nat /\ MaxNodes - m \in Nat
    BY BoundsAssumption DEF Live, Nodes
  <1>2. \A m \in Live \ Z : heap[m].parent \in Live /\ m < heap[m].parent
    BY DEF Settled, Inv, PointersAgree, Linked
  <1>3. Descends(Live, rank, Z, b)
    <2>1. rank \in [Live -> Nat]
      BY <1>1
    <2>2. ASSUME NEW m \in Live \ Z PROVE b[m] \in Live /\ rank[b[m]] < rank[m]
      BY <1>1, <1>2, BoundsAssumption
    <2> HIDE DEF rank, Z, b
    <2> QED
      BY <2>1, <2>2 DEF Descends
  <1>4. LinearValuesIn(V, Live, Z, z, b, step)
    <2>1. ASSUME NEW m \in Live, m \in Z PROVE z[m] \in Nat
      <3> DEFINE row == RootRow(m)
      <3>1. row \in 0..rows /\ rows \in Nat /\ leaves \in Nat /\ leaves <= 2^rows
        BY <2>1, RootRowIsARow, SettledFacts
      <3> HIDE DEF row, rows
      <3>2. RootPosition(leaves, row, rows) = First(row, rows) + 2 * (leaves \div 2^(row + 1))
        BY <3>1, RootPositionOf
      <3>3. First(row, rows) \in Nat
        BY <3>1, FirstFacts
      <3>4. leaves \div 2^(row + 1) \in Nat
        <4>1. row + 1 \in Nat
          BY <3>1
        <4> QED
          BY <4>1, <3>1, HalfOfQuotient
      <3>5. RootPosition(leaves, row, rows) \in Nat
        BY <3>2, <3>3, <3>4
      <3> QED
        BY <3>5 DEF row
    <2>2. ASSUME NEW m \in Live \ Z, NEW x \in Nat PROVE step[m][x] \in Nat
      <3>1. 2^(rows + 1) \in Nat \ {0}
        <4>1. rows + 1 \in Nat
          BY SettledFacts
        <4>2. 2^(rows + 1) \in Nat /\ 2^(rows + 1) >= 1
          BY <4>1, Powers
        <4> QED
          BY <4>2
      <3>2. \A c \in Nat \ {0} : \A y \in Nat : (2 * y) % c \in Nat
        OBVIOUS
      <3>3. LeftChild(x, rows) \in Nat /\ RightChild(x, rows) \in Nat
        BY <3>1, <3>2 DEF LeftChild, RightChild
      <3> HIDE DEF rows
      <3> QED
        BY <3>3
    <2>3. \A m \in Live : m \in Live \ Z => V[m] = Nat /\ V[b[m]] = Nat
      BY <1>2
    <2>4. \A m \in Live : V[m] = Nat
      OBVIOUS
    <2> HIDE DEF V, Z, z, b, step
    <2> QED
      BY <2>1, <2>2, <2>3, <2>4 DEF LinearValuesIn
  <1>5. PICK f : /\ f = [m \in Live |-> f[m]]
                 /\ \A m \in Live : f[m] \in V[m]
                 /\ LinearSolves(f, Live, Z, z, b, step)
    <2> HIDE DEF rank, V, Z, z, b, step
    <2> QED
      BY <1>3, <1>4, LinearRecursionExists
  <1>6. IsPositions(f)
    <2>1. ASSUME NEW m \in Live
          PROVE  f[m] = IF heap[m].parent = Nil THEN RootPosition(leaves, RootRow(m), rows)
                        ELSE IF IsLeftChild(m) THEN LeftChild(f[heap[m].parent], rows)
                        ELSE RightChild(f[heap[m].parent], rows)
      <3>1. f[m] = IF m \in Z THEN z[m] ELSE step[m][f[b[m]]]
        <4> HIDE DEF Z, z, b, step
        <4> QED
          BY <1>5 DEF LinearSolves
      <3>2. m \notin Z => f[heap[m].parent] \in Nat
        BY <1>2, <1>5
      <3> HIDE DEF rows
      <3> QED
        BY <3>1, <3>2
    <2> HIDE DEF rows
    <2> QED
      BY <1>5, <2>1
  <1>7. IsPositions(pos)
    <2> HIDE DEF IsPositions
    <2> QED
      BY <1>6
  <1>8. \A m \in Live : GetPos(m) = pos[m]
    BY DEF GetPos
  <1>9. ASSUME NEW m \in Live PROVE pos[m] = PositionFrom(m, pos[heap[m].parent])
    <2> HIDE DEF pos
    <2> QED
      BY <1>7 DEF PositionFrom
  <1> HIDE DEF pos
  <1> QED
    BY <1>8, <1>9

\* The d + 1 nodes on the way from a root down to m, whose turns are the
\* last d bits of `off`.
Path(m, d, off, way) ==
    /\ way \in [0..d -> Live]
    /\ way[d] = m
    /\ \A k \in 1..d :
           /\ heap[way[k]].parent = way[k - 1]
           /\ way[k] = IF Bit(off, d - k) = 0 THEN heap[way[k - 1]].left ELSE heap[way[k - 1]].right

\* The node m hangs d rows below the root of row R, at offset off of its row.
Placed(m, R, d, off, way) ==
    /\ R \in 0..TreeRows(leaves) /\ d \in 0..R
    /\ IsRootPopulated(R, leaves)
    /\ off \in Nat
    /\ Tops(R, off \div 2^d, leaves)
    /\ Path(m, d, off, way)
    /\ way[0] = roots[RootOfBit(R)]

LEMMA PlacedFacts ==
    ASSUME Settled, NEW m, NEW R, NEW d, NEW off, NEW way, Placed(m, R, d, off, way)
    PROVE  /\ R \in Nat /\ d \in Nat /\ R - d \in Nat /\ (R - d) + d = R /\ R - (R - d) = d
           /\ R - d \in 0..TreeRows(leaves) /\ R - d \in 0..R
           /\ off \in Offsets(R - d, TreeRows(leaves))
  <1>1. /\ R \in Nat /\ d \in Nat /\ R - d \in Nat /\ (R - d) + d = R /\ R - (R - d) = d
        /\ R - d \in 0..TreeRows(leaves) /\ R - d \in 0..R
        /\ leaves \in Nat /\ leaves <= 2^TreeRows(leaves) /\ TreeRows(leaves) \in Nat
    BY SettledFacts DEF Placed
  <1> DEFINE row == R - d
  <1>2. row \in Nat /\ row + d = R
    BY <1>1
  <1> HIDE DEF row
  <1>3. Covers(R, off \div 2^d, leaves) /\ off \in Nat
    BY DEF Placed, Tops
  <1>4. Covers(row, off, leaves)
    <2>1. Covers(row + d, off \div 2^d, leaves)
      BY <1>2, <1>3
    <2> QED
      BY <1>1, <1>2, <1>3, <2>1, CoversBelow
  <1>5. off \in Offsets(row, TreeRows(leaves))
    BY <1>1, <1>2, <1>3, <1>4, CoveredIsPlaced
  <1> QED
    BY <1>1, <1>5 DEF row

\* One turn further down.
LEMMA OneTurn ==
    ASSUME NEW off \in Nat, NEW t \in {0, 1}
    PROVE  /\ 2 * off + t \in Nat
           /\ Bit(2 * off + t, 0) = t
           /\ \A j \in Nat : (2 * off + t) \div 2^(j + 1) = off \div 2^j
           /\ \A j \in Nat : Bit(2 * off + t, j + 1) = Bit(off, j)
  <1> DEFINE o == 2 * off + t
  <1>1. o \in Nat /\ o \div 2 = off /\ o % 2 = t
    OBVIOUS
  <1> HIDE DEF o
  <1>2. o \div 2^0 = o /\ 2^1 = 2
    BY <1>1, Powers
  <1>3. ASSUME NEW j \in Nat PROVE o \div 2^(j + 1) = off \div 2^j
    <2>1. \A x, y, z \in Nat : (x \div 2^y) \div 2^z = x \div 2^(y + z)
      BY ShiftTwice
    <2>2. ASSUME NEW i \in Nat PROVE (o \div 2^i) \div 2^j = o \div 2^(i + j)
      BY <1>1, <2>1
    <2>3. (o \div 2^1) \div 2^j = o \div 2^(1 + j)
      BY <2>2
    <2>4. 1 + j = j + 1
      OBVIOUS
    <2> QED
      BY <2>3, <2>4, <1>1, <1>2
  <1> QED
    BY <1>1, <1>2, <1>3 DEF Bit, o

LEMMA RootIsPlaced ==
    ASSUME Settled, NEW lev, Falls(lev), FitsRoots(lev), NEW m \in Live, heap[m].parent = Nil, data[m] # Empty
    PROVE  \E R, off, way : /\ Placed(m, R, 0, off, way)
                            /\ PositionFrom(m, Nil) = First(R, TreeRows(leaves)) + off
                            /\ lev[m] <= R
  <1>1. PICK i \in 1..Len(roots) : roots[i] = m
    BY SettledFacts
  <1>2. PICK R \in 0..TreeRows(leaves) : IsRootPopulated(R, leaves) /\ RootOfBit(R) = i
    BY RootHasBit
  <1>3. R \in Nat /\ TreeRows(leaves) \in Nat /\ leaves \in Nat /\ leaves <= 2^TreeRows(leaves)
    BY SettledFacts
  <1> DEFINE off == 2 * (leaves \div 2^(R + 1))
             way == [k \in 0..0 |-> m]
  <1>4. off \in Nat
    <2>1. leaves \div 2^(R + 1) \in Nat
      <3>1. R + 1 \in Nat
        BY <1>3
      <3> QED
        BY <3>1, <1>3, HalfOfQuotient
    <2> QED
      BY <2>1
  <1>5. Path(m, 0, off, way)
    BY DEF Path
  <1>6. Tops(R, off, leaves)
    <2>1. IsRootPopulated(R, leaves) /\ off = 2 * (leaves \div 2^(R + 1))
      BY <1>2
    <2> HIDE DEF off
    <2> QED
      BY <2>1, <1>3, <1>4, TopsFacts
  <1>7. RootRow(m) = R
    BY <1>1, <1>2, RootRowFinds
  <1>8. PositionFrom(m, Nil) = First(R, TreeRows(leaves)) + off
    BY <1>3, <1>7, RootPositionOf DEF PositionFrom
  <1>9. lev[m] <= R
    BY <1>1, <1>2, <1>3 DEF FitsRoots
  <1> HIDE DEF off
  <1>10. off \div 2^0 = off
    BY <1>4, Powers
  <1>11. way[0] = m
    OBVIOUS
  <1> HIDE DEF way
  <1>12. Placed(m, R, 0, off, way)
    BY <1>1, <1>2, <1>3, <1>4, <1>5, <1>6, <1>10, <1>11 DEF Placed
  <1> QED
    BY <1>8, <1>9, <1>12

\* A child is recognised as the left one by its hash.
LEMMA ChildFacts ==
    ASSUME Inv, NEW m \in Live, heap[m].parent # Nil
    PROVE  /\ heap[m].parent \in Live
           /\ m < heap[m].parent
           /\ data[heap[m].parent] # Empty
           /\ m = IF IsLeftChild(m) THEN heap[heap[m].parent].left ELSE heap[heap[m].parent].right
           /\ Owned(heap[m].parent) = {heap[heap[m].parent].left, heap[heap[m].parent].right}
  <1> DEFINE p == heap[m].parent
  <1>1. p \in Live /\ m < p /\ m \in {heap[p].left, heap[p].right} /\ m # Nil
    BY InvParts DEF Inv, PointersAgree, Linked
  <1>2. /\ HasChildren(p) /\ heap[p].ty = "Branch"
        /\ heap[p].left \in Live /\ heap[p].right \in Live
        /\ heap[p].left # Nil /\ heap[p].right # Nil
    BY <1>1, InvParts DEF Inv, PointersAgree, Linked, HasChildren
  <1>3. data[p] # Empty
    BY <1>1, <1>2, HashKinds DEF Inv, EmptyMeansDeletedTree
  <1>4. data[m] # Empty
    BY ChildNotEmpty
  <1>5. IsLeftChild(m) <=> heap[p].left = m
    BY <1>2, <1>4 DEF Inv, HashesIdentifyNodes, IsLeftChild
  <1> QED
    BY <1>1, <1>2, <1>3, <1>5 DEF Owned

LEMMA ChildIsPlaced ==
    ASSUME Settled, NEW lev, Falls(lev), NEW m \in Live, heap[m].parent # Nil,
           NEW R, NEW d, NEW off, NEW way, NEW above,
           Placed(heap[m].parent, R, d, off, way),
           above = First(R - d, TreeRows(leaves)) + off,
           lev[heap[m].parent] + d <= R
    PROVE  \E o, w : /\ Placed(m, R, d + 1, o, w)
                     /\ PositionFrom(m, above) = First(R - (d + 1), TreeRows(leaves)) + o
                     /\ lev[m] + (d + 1) <= R
  <1> DEFINE p == heap[m].parent
             rows == TreeRows(leaves)
             t == IF IsLeftChild(m) THEN 0 ELSE 1
             o == 2 * off + t
             e == d + 1
             w == [k \in 0..e |-> IF k = e THEN m ELSE way[k]]
  <1>1. /\ p \in Live
        /\ m = IF IsLeftChild(m) THEN heap[p].left ELSE heap[p].right
    BY ChildFacts DEF Settled
  <1>2. lev[m] + e <= R /\ e \in Nat /\ e \in 0..R /\ R - d \in 1..rows /\ (R - d) - 1 = R - e
    <2>1. lev[m] < lev[p] /\ lev[m] \in Nat /\ lev[p] \in Nat
      BY <1>1 DEF Falls, Live
    <2>2. R \in Nat /\ d \in Nat /\ R - d \in 0..rows
      BY PlacedFacts
    <2> QED
      BY <2>1, <2>2
  <1>3. off \in Nat /\ t \in {0, 1} /\ off \in Offsets(R - d, rows)
    BY PlacedFacts DEF Placed
  <1>4. /\ o \in Nat /\ Bit(o, 0) = t
        /\ \A j \in Nat : o \div 2^(j + 1) = off \div 2^j
        /\ \A j \in Nat : Bit(o, j + 1) = Bit(off, j)
    <2> HIDE DEF t
    <2> QED
      BY <1>3, OneTurn
  <1>5. PositionFrom(m, above) = First(R - e, rows) + o
    <2> DEFINE row == R - d
    <2>1. rows \in Nat /\ row \in 1..rows /\ off \in Offsets(row, rows)
      BY <1>2, <1>3, SettledFacts
    <2> HIDE DEF row
    <2>2. /\ LeftChild(First(row, rows) + off, rows) = First(row - 1, rows) + 2 * off
          /\ RightChild(First(row, rows) + off, rows) = First(row - 1, rows) + (2 * off + 1)
      <3> HIDE DEF rows
      <3> QED
        BY <2>1, ChildrenOf
    <2>3. row - 1 = R - e /\ above = First(row, rows) + off
      BY <1>2 DEF row
    <2>4. 2 * off + 0 = 2 * off
      BY <1>3
    <2> QED
      BY <2>2, <2>3, <2>4 DEF PositionFrom
  <1>6. Path(p, d, off, way) /\ d \in Nat
    BY PlacedFacts DEF Placed
  <1>7. /\ w \in [0..e -> Live] /\ w[e] = m
        /\ \A k \in 0..d : w[k] = way[k]
    <2>1. \A k \in 0..e : k # e => k \in 0..d
      BY <1>6
    <2>2. \A k \in 0..d : k \in 0..e /\ k # e
      BY <1>6
    <2>3. e \in 0..e
      BY <1>6
    <2>4. way \in [0..d -> Live]
      BY <1>6 DEF Path
    <2> HIDE DEF e
    <2> QED
      BY <2>1, <2>2, <2>3, <2>4
  <1> HIDE DEF w
  <1>8. ASSUME NEW k \in 1..e
        PROVE  /\ heap[w[k]].parent = w[k - 1]
               /\ w[k] = IF Bit(o, e - k) = 0 THEN heap[w[k - 1]].left ELSE heap[w[k - 1]].right
    <2>1. CASE k = e
      <3>1. k - 1 = d /\ d \in 0..d /\ e - k = 0
        BY <2>1, <1>6
      <3>2. w[k] = m /\ w[k - 1] = p
        BY <2>1, <3>1, <1>6, <1>7 DEF Path
      <3>3. Bit(o, e - k) = t
        BY <3>1, <1>4
      <3> HIDE DEF e, o
      <3> QED
        BY <3>2, <3>3, <1>1
    <2>2. CASE k # e
      <3>1. k \in 1..d /\ k - 1 \in 0..d /\ k \in 0..d /\ d - k \in Nat /\ e - k = (d - k) + 1
        BY <2>2, <1>6
      <3>2. w[k] = way[k] /\ w[k - 1] = way[k - 1]
        BY <3>1, <1>7
      <3>3. Bit(o, e - k) = Bit(off, d - k)
        BY <3>1, <1>4
      <3>4. /\ heap[way[k]].parent = way[k - 1]
            /\ way[k] = IF Bit(off, d - k) = 0 THEN heap[way[k - 1]].left ELSE heap[way[k - 1]].right
        BY <3>1, <1>6 DEF Path
      <3> HIDE DEF e, o
      <3> QED
        BY <3>2, <3>3, <3>4
    <2> QED
      BY <2>1, <2>2
  <1>9. Path(m, e, o, w)
    <2> HIDE DEF e, o
    <2> QED
      BY <1>7, <1>8 DEF Path
  <1>10. w[0] = roots[RootOfBit(R)]
    <2>1. 0 \in 0..d
      BY <1>6
    <2> QED
      BY <2>1, <1>7 DEF Placed
  <1>11. Tops(R, o \div 2^e, leaves)
    <2>1. o \div 2^e = off \div 2^d
      BY <1>4, <1>6
    <2> HIDE DEF e, o
    <2> QED
      BY <2>1 DEF Placed
  <1>12. R \in 0..TreeRows(leaves) /\ IsRootPopulated(R, leaves)
    BY DEF Placed
  <1>13. Placed(m, R, e, o, w)
    <2> HIDE DEF e, o
    <2> QED
      BY <1>2, <1>4, <1>9, <1>10, <1>11, <1>12 DEF Placed
  <1> QED
    BY <1>2, <1>5, <1>13

\* get_pos gives every node its place in the tree it hangs from.
LEMMA EveryNodeIsPlaced ==
    ASSUME Settled, NEW lev, Falls(lev), FitsRoots(lev), NEW n \in Live, data[n] # Empty
    PROVE  \E R, d, off, way : /\ Placed(n, R, d, off, way)
                               /\ GetPos(n) = First(R - d, TreeRows(leaves)) + off
  <1>1. PICK pos : \A m \in Live : /\ pos[m] = PositionFrom(m, pos[heap[m].parent])
                                   /\ GetPos(m) = pos[m]
    BY GetPosWalks
  <1> DEFINE At(m, R, d, off, way) == /\ Placed(m, R, d, off, way)
                                      /\ pos[m] = First(R - d, TreeRows(leaves)) + off
                                      /\ lev[m] + d <= R
             Good(m) == data[m] # Empty => \E R, d, off, way : At(m, R, d, off, way)
             S == {k \in Nat : \A m \in Live : MaxNodes - m = k => Good(m)}
  <1>2. \A m \in Live : m \in Nat /\ MaxNodes - m \in Nat
    BY BoundsAssumption DEF Live, Nodes
  <1>3. ASSUME NEW m \in Live, heap[m].parent = Nil PROVE Good(m)
    <2> SUFFICES ASSUME data[m] # Empty PROVE \E R, d, off, way : At(m, R, d, off, way)
      OBVIOUS
    <2>1. PICK R, off, way : /\ Placed(m, R, 0, off, way)
                             /\ PositionFrom(m, Nil) = First(R, TreeRows(leaves)) + off
                             /\ lev[m] <= R
      BY <1>3, RootIsPlaced
    <2>2. pos[m] = PositionFrom(m, Nil)
      BY <1>1, <1>3 DEF PositionFrom
    <2>3. R \in Nat
      BY <2>1, PlacedFacts
    <2>4. R - 0 = R /\ lev[m] + 0 = lev[m]
      BY <2>3 DEF Falls, Live
    <2>5. At(m, R, 0, off, way)
      BY <2>1, <2>2, <2>4
    <2> HIDE DEF At
    <2> QED
      BY <2>5
  <1>4. ASSUME NEW m \in Live, heap[m].parent # Nil, Good(heap[m].parent) PROVE Good(m)
    <2> SUFFICES ASSUME data[m] # Empty PROVE \E R, d, off, way : At(m, R, d, off, way)
      OBVIOUS
    <2>1. heap[m].parent \in Live /\ data[heap[m].parent] # Empty
      BY <1>4, ChildFacts DEF Settled
    <2>2. PICK R, d, off, way : At(heap[m].parent, R, d, off, way)
      BY <1>4, <2>1
    <2>3. PICK o, w : /\ Placed(m, R, d + 1, o, w)
                      /\ PositionFrom(m, pos[heap[m].parent]) = First(R - (d + 1), TreeRows(leaves)) + o
                      /\ lev[m] + (d + 1) <= R
      BY <1>4, <2>2, ChildIsPlaced
    <2>4. At(m, R, d + 1, o, w)
      BY <1>1, <2>3
    <2> HIDE DEF At
    <2> QED
      BY <2>4
  <1> HIDE DEF Good
  <1>5. ASSUME NEW k \in Nat, \A j \in Nat : j < k => j \in S PROVE k \in S
    <2> SUFFICES ASSUME NEW m \in Live, MaxNodes - m = k PROVE Good(m)
      OBVIOUS
    <2>1. CASE heap[m].parent = Nil
      BY <1>3, <2>1
    <2>2. CASE heap[m].parent # Nil
      <3> DEFINE p == heap[m].parent
      <3>1. p \in Live /\ m < p
        BY <2>2, ChildFacts DEF Settled
      <3>2. MaxNodes - p \in Nat /\ MaxNodes - p < k
        BY <1>2, <3>1, BoundsAssumption
      <3>3. Good(p)
        BY <1>5, <3>1, <3>2
      <3> QED
        BY <1>4, <2>2, <3>3
    <2> QED
      BY <2>1, <2>2
  <1>6. Nat \subseteq S
    <2> HIDE DEF S
    <2> QED
      BY <1>5, StrongInductionOn
  <1>7. Good(n)
    BY <1>2, <1>6
  <1> QED
    BY <1>1, <1>7 DEF Good

\* From the root down, grab_node goes the way whose turns are the complement
\* of the offset's bits; next to the node it finds the sibling.
Stepped(g, k, way) ==
    /\ g.node = way[k]
    /\ k # 0 => {g.node, g.sibling} = Owned(way[k - 1])

Grabbed == [node : Nodes \cup {Nil}, sibling : Nodes \cup {Nil}, parent : Nodes \cup {Nil}]

LEMMA NieceIsOnTheWay ==
    ASSUME Inv, NEW m, NEW d \in Nat, NEW off \in Nat, NEW way, Path(m, d, off, way), NEW k \in 1..d,
           NEW bits, Bit(bits, d - k) = 1 - Bit(off, d - k),
           NEW g \in Grabbed, Stepped(g, k - 1, way)
    PROVE  /\ GrabNiece(g, IsLeftNiece(Bit(bits, d - k))) \in Grabbed
           /\ Stepped(GrabNiece(g, IsLeftNiece(Bit(bits, d - k))), k, way)
  <1> DEFINE p == way[k - 1]
             t == Bit(off, d - k)
  <1>1. k - 1 \in 0..d /\ k \in 0..d /\ d - k \in Nat /\ k # 0
    OBVIOUS
  <1>2. p \in Live /\ way[k] \in Live /\ g.node = p
    BY <1>1 DEF Path, Stepped
  <1>3. heap[way[k]].parent = p /\ way[k] = IF t = 0 THEN heap[p].left ELSE heap[p].right
    BY DEF Path
  <1>4. t \in {0, 1}
    BY <1>1, BitTakenOff
  <1> HIDE DEF p, t
  <1>5. /\ Owned(p) = {heap[p].left, heap[p].right}
        /\ heap[p].left \in Nodes /\ heap[p].right \in Nodes
    <2>1. way[k] # Nil /\ p # Nil /\ Linked(p)
      BY <1>2, InvParts DEF Inv, PointersAgree
    <2>2. heap[p].left # Nil /\ heap[p].right # Nil
      BY <2>1, <1>3 DEF Linked
    <2>3. heap[p].left \in Live /\ heap[p].right \in Live
      BY <2>1, <2>2 DEF Linked, HasChildren
    <2> QED
      BY <2>2, <2>3, InvParts DEF Owned
  <1>6. Bit(bits, d - k) = 1 - t
    BY DEF t
  <1>7. IsLeftNiece(Bit(bits, d - k)) <=> t = 1
    <2>1. \A b \in {0, 1} : (1 - b) % 2 = 0 <=> b = 1
      OBVIOUS
    <2> QED
      BY <2>1, <1>4, <1>6 DEF IsLeftNiece
  <1> DEFINE v == GrabNiece(g, t = 1)
  <1>8. v \in Grabbed
    BY <1>2, <1>4, <1>5 DEF GrabNiece, Grabbed
  <1>9. v.node = way[k] /\ {v.node, v.sibling} = {heap[p].left, heap[p].right}
    BY <1>2, <1>3, <1>4 DEF GrabNiece
  <1>10. GrabNiece(g, IsLeftNiece(Bit(bits, d - k))) = v
    BY <1>7 DEF GrabNiece
  <1> HIDE DEF v
  <1>11. Stepped(v, k, way)
    BY <1>5, <1>9 DEF Stepped, p
  <1> QED
    BY <1>8, <1>10, <1>11

LEMMA GrabNodeArrives ==
    ASSUME Settled, NEW m, NEW R, NEW d, NEW off, NEW way, Placed(m, R, d, off, way)
    PROVE  Stepped(GrabNode(First(R - d, TreeRows(leaves)) + off), d, way)
  <1> DEFINE rows   == TreeRows(leaves)
             row    == R - d
             at     == First(row, rows) + off
             offset == DetectOffset(at, leaves)
             root   == roots[offset.tree + 1]
             bits   == offset.bits
             start  == [node |-> root, sibling |-> root, parent |-> root]
             Turn(g, k) == GrabNiece(g, IsLeftNiece(Bit(bits, d - k)))
             IsDescent(g) == g = [k \in 0..d |-> IF k = 0 THEN start ELSE Turn(g[k - 1], k)]
             down == CHOOSE g : IsDescent(g)
  <1>1. /\ leaves \in Nat /\ leaves <= 2^MaxForestRows
        /\ R \in 0..rows /\ R \in Nat /\ row \in 0..R /\ R - row = d /\ d \in Nat
        /\ off \in Offsets(row, rows) /\ off \in Nat
        /\ IsRootPopulated(R, leaves) /\ Path(m, d, off, way) /\ way[0] = roots[RootOfBit(R)]
        /\ Tops(R, off \div 2^d, leaves)
    <2>1. leaves \in Nat /\ leaves <= 2^MaxForestRows
      BY SettledFacts
    <2>2. R \in Nat /\ row \in 0..R /\ R - row = d /\ d \in Nat /\ off \in Offsets(row, rows)
      BY PlacedFacts
    <2>3. /\ R \in 0..rows /\ off \in Nat
          /\ IsRootPopulated(R, leaves) /\ Path(m, d, off, way) /\ way[0] = roots[RootOfBit(R)]
          /\ Tops(R, off \div 2^d, leaves)
      BY DEF Placed
    <2> QED
      BY <2>1, <2>2, <2>3
  <1>2. /\ offset.tree = Cardinality(TreesAbove(R, rows, leaves))
        /\ offset.branchLen = d
        /\ \A k \in 0..(d - 1) : Bit(bits, k) = 1 - Bit(off, k)
    <2> HIDE DEF row
    <2>1. Tops(R, off \div 2^(R - row), leaves)
      BY <1>1
    <2>2. /\ offset.tree = Cardinality(TreesAbove(R, rows, leaves))
          /\ offset.branchLen = R - row
          /\ \A k \in 0..(R - row - 1) : Bit(bits, k) = 1 - Bit(off, k)
      BY <1>1, <2>1, DetectOffsetOf
    <2> QED
      BY <1>1, <2>2
  <1>3. offset.tree + 1 = RootOfBit(R) /\ RootOfBit(R) \in 1..Len(roots)
    BY <1>1, <1>2, BiggerTreesComeFirst, BitHasRoot
  <1>4. start \in Grabbed /\ Stepped(start, 0, way)
    <2>1. root = way[0] /\ root \in Nodes
      BY <1>1, <1>3, InvParts DEF Settled
    <2> HIDE DEF root
    <2> QED
      BY <2>1 DEF Grabbed, Stepped
  <1> HIDE DEF offset, bits, start
  <1>5. ASSUME NEW k \in 1..d, NEW g \in Grabbed, Stepped(g, k - 1, way)
        PROVE  Turn(g, k) \in Grabbed /\ Stepped(Turn(g, k), k, way)
    <2>1. d - k \in 0..(d - 1)
      BY <1>1
    <2>2. Bit(bits, d - k) = 1 - Bit(off, d - k)
      BY <1>2, <2>1 DEF bits
    <2> QED
      BY <1>1, <1>5, <2>2, NieceIsOnTheWay DEF Settled
  <1> HIDE DEF Turn
  <1> DEFINE N    == 0..d
             rank == [k \in N |-> k]
             z    == [k \in N |-> start]
             b    == [k \in N |-> k - 1]
             V    == [k \in N |-> {g \in Grabbed : Stepped(g, k, way)}]
             step == [k \in N |-> [g \in Grabbed |-> Turn(g, k)]]
  <1>6. \A k \in N \ {0} : k - 1 \in N /\ k \in 1..d
    BY <1>1
  <1>7. Descends(N, rank, {0}, b)
    <2>1. rank \in [N -> Nat]
      BY <1>1
    <2>2. ASSUME NEW k \in N \ {0} PROVE b[k] \in N /\ rank[b[k]] < rank[k]
      BY <1>1, <1>6
    <2> HIDE DEF N, rank, b
    <2> QED
      BY <2>1, <2>2 DEF Descends
  <1>8. LinearValuesIn(V, N, {0}, z, b, step)
    <2>1. ASSUME NEW k \in N, k \in {0} PROVE z[k] \in V[k]
      BY <2>1, <1>4
    <2>2. ASSUME NEW k \in N \ {0}, NEW x \in V[b[k]] PROVE step[k][x] \in V[k]
      <3>1. x \in Grabbed /\ Stepped(x, k - 1, way)
        BY <1>6
      <3>2. Turn(x, k) \in Grabbed /\ Stepped(Turn(x, k), k, way)
        BY <1>5, <1>6, <3>1
      <3> QED
        BY <3>1, <3>2
    <2> HIDE DEF N, z, b, V, step
    <2> QED
      BY <2>1, <2>2 DEF LinearValuesIn
  <1>9. PICK f : /\ f = [k \in N |-> f[k]]
                 /\ \A k \in N : f[k] \in V[k]
                 /\ LinearSolves(f, N, {0}, z, b, step)
    <2> HIDE DEF N, rank, z, b, V, step
    <2> QED
      BY <1>7, <1>8, LinearRecursionExists
  <1>10. IsDescent(f)
    <2>1. ASSUME NEW k \in N PROVE f[k] = IF k = 0 THEN start ELSE Turn(f[k - 1], k)
      <3>1. f[k] = IF k \in {0} THEN z[k] ELSE step[k][f[b[k]]]
        <4> HIDE DEF z, b, step
        <4> QED
          BY <1>9 DEF LinearSolves
      <3>2. k # 0 => f[k - 1] \in Grabbed
        BY <1>6, <1>9
      <3> QED
        BY <3>1, <3>2
    <2> QED
      BY <1>9, <2>1
  <1>11. IsDescent(down)
    <2> HIDE DEF IsDescent
    <2> QED
      BY <1>10
  <1>12. GrabNode(at) = down[d]
    BY <1>2 DEF GrabNode, offset, bits, start, Turn
  <1> HIDE DEF down
  <1> DEFINE S == {k \in Nat : k <= d => down[k] \in Grabbed /\ Stepped(down[k], k, way)}
  <1>13. 0 \in S
    <2>1. 0 \in 0..d
      BY <1>1
    <2>2. down[0] = start
      BY <1>11, <2>1
    <2> QED
      BY <2>2, <1>4
  <1>14. ASSUME NEW k \in Nat, k \in S PROVE k + 1 \in S
    <2> SUFFICES ASSUME k + 1 <= d
                 PROVE  down[k + 1] \in Grabbed /\ Stepped(down[k + 1], k + 1, way)
      OBVIOUS
    <2> DEFINE j == k + 1
    <2>1. j \in 0..d /\ j # 0 /\ j - 1 = k /\ j \in 1..d
      BY <1>1
    <2>2. down[k] \in Grabbed /\ Stepped(down[k], k, way)
      BY <1>1, <1>14
    <2> HIDE DEF j
    <2>3. down[j] = Turn(down[k], j)
      BY <1>11, <2>1
    <2>4. down[j] \in Grabbed /\ Stepped(down[j], j, way)
      BY <1>5, <2>1, <2>2, <2>3
    <2> QED
      BY <2>4 DEF j
  <1>15. d \in S
    <2> HIDE DEF S
    <2> QED
      BY <1>1, <1>13, <1>14, NatInductionOn
  <1> QED
    BY <1>1, <1>12, <1>15

LEMMA FitImpliesPositionsLeadBack == Inv /\ HeightsFit => PositionsLeadBack
  <1> SUFFICES ASSUME Inv, HeightsFit, pc \in {"idle", "add"}, NEW h \in DOMAIN map
               PROVE  LET g == GrabNode(GetPos(map[h]))
                      IN  /\ g.node = map[h]
                          /\ heap[map[h]].parent # Nil =>
                                 {g.node, g.sibling} = Owned(heap[map[h]].parent)
    BY DEF PositionsLeadBack
  <1> DEFINE n == map[h]
             g == GrabNode(GetPos(n))
  <1>1. Settled
    BY DEF Settled
  <1>2. n \in Live /\ data[n] # Empty
    BY InvParts DEF Inv, MapIsTheLeaves
  <1>3. PICK lev : Falls(lev) /\ FitsRoots(lev)
    BY DEF HeightsFit
  <1> HIDE DEF n
  <1>4. PICK R, d, off, way : /\ Placed(n, R, d, off, way)
                              /\ GetPos(n) = First(R - d, TreeRows(leaves)) + off
    BY <1>1, <1>2, <1>3, EveryNodeIsPlaced
  <1>5. Stepped(g, d, way)
    BY <1>1, <1>4, GrabNodeArrives
  <1>6. way[d] = n /\ d \in Nat
    BY <1>1, <1>4, PlacedFacts DEF Placed, Path
  <1>7. ASSUME heap[n].parent # Nil PROVE d # 0 /\ heap[n].parent = way[d - 1]
    <2>1. d # 0
      <3> SUFFICES ASSUME d = 0 PROVE FALSE
        OBVIOUS
      <3>1. n = roots[RootOfBit(R)] /\ IsRootPopulated(R, leaves) /\ R \in Nat
        BY <1>1, <1>4, <1>6, PlacedFacts DEF Placed
      <3>2. RootOfBit(R) \in 1..Len(roots)
        BY <1>1, <3>1, BitHasRoot
      <3> QED
        BY <1>1, <1>7, <3>1, <3>2, SettledFacts
    <2>2. d \in 1..d
      BY <1>6, <2>1
    <2> QED
      BY <1>4, <1>6, <2>1, <2>2 DEF Placed, Path
  <1> QED
    BY <1>5, <1>6, <1>7 DEF Stepped, n

\* At every point between calls and between additions, and whatever was
\* deleted before: the position get_pos computes for a leaf, by climbing to
\* its root, leads grab_node, from the roots down, back to that leaf, and
\* what it finds next to it is the sibling.
THEOREM PositionsLeadBackHolds == Spec => []PositionsLeadBack
  <1>1. Spec => []Inv
    BY InvHolds
  <1>2. Spec => []HeightsFit
    BY HeightsFitHolds
  <1> QED
    BY <1>1, <1>2, FitImpliesPositionsLeadBack, PTL
=============================================================================
