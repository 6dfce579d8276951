---------------------------- MODULE StumpProofs ----------------------------
(***************************************************************************)
(* What Stump::modify does with any proof.                                 *)
(*                                                                         *)
(* It is sound: if it accepts a proof then the leaves it was asked to      *)
(* delete are leaves of the stump's roots, they are all that goes, and the *)
(* new leaves join the trees as the accumulator promises.  The argument    *)
(* goes against the run of the hashing loop: the roots it found are roots  *)
(* of the stump, each another one, so they are whole trees without a       *)
(* common leaf; then so was all that they were hashed from, and what the   *)
(* loop makes of the pairs is what deletion makes of the trees.  Nothing   *)
(* is said of where the nodes of the proof are.                            *)
(*                                                                         *)
(* The last part is about the node: what its proofs, reorganisations and   *)
(* restarts do to the stump, and that no old proof does harm.              *)
(***************************************************************************)
EXTENDS MCStumpNode, HashTreesProofs, PositionArithmetic

-----------------------------------------------------------------------------
(***************************************************************************)
(* Sorting only rearranges.                                                *)
(***************************************************************************)
IsSorting(f, nodes) ==
    f = [k \in 0..Len(nodes) |-> IF k = 0 THEN <<>> ELSE InsertNode(f[k - 1], nodes[k])]

LEMMA SortingExists == ASSUME NEW nodes, Len(nodes) \in Nat PROVE \E f : IsSorting(f, nodes)
  <1> DEFINE Fits(f, n) == f = [k \in 0..n |-> IF k = 0 THEN <<>> ELSE InsertNode(f[k - 1], nodes[k])]
             S == {n \in Nat : \E f : Fits(f, n)}
  <1>1. 0 \in S
    <2>1. Fits([k \in 0..0 |-> <<>>], 0)
      OBVIOUS
    <2> QED
      BY <2>1
  <1>2. ASSUME NEW n \in Nat, n \in S PROVE n + 1 \in S
    <2>1. PICK g : Fits(g, n)
      BY <1>2
    <2> DEFINE f == [k \in 0..(n + 1) |-> IF k = n + 1 THEN InsertNode(g[n], nodes[n + 1]) ELSE g[k]]
    <2>2. \A k \in 0..n : f[k] = g[k]
      OBVIOUS
    <2>3. ASSUME NEW k \in 0..(n + 1)
          PROVE  f[k] = IF k = 0 THEN <<>> ELSE InsertNode(f[k - 1], nodes[k])
      <3>1. CASE k = n + 1
        <4>1. k # 0 /\ k - 1 = n /\ n \in 0..n
          BY <3>1
        <4>2. f[k] = InsertNode(g[n], nodes[n + 1])
          BY <3>1
        <4> QED
          BY <4>1, <4>2, <3>1, <2>2
      <3>2. CASE k # n + 1
        <4>1. k \in 0..n /\ (k # 0 => k - 1 \in 0..n)
          BY <3>2
        <4>2. g[k] = IF k = 0 THEN <<>> ELSE InsertNode(g[k - 1], nodes[k])
          BY <4>1, <2>1
        <4> HIDE DEF f
        <4> QED
          BY <4>1, <4>2, <2>2
      <3> QED
        BY <3>1, <3>2
    <2>4. f = [k \in 0..(n + 1) |-> f[k]]
      OBVIOUS
    <2> HIDE DEF f
    <2>5. Fits(f, n + 1)
      BY <2>3, <2>4
    <2> QED
      BY <2>5
  <1>3. Nat \subseteq S
    <2> HIDE DEF S
    <2> QED
      BY <1>1, <1>2, NatInductionOn
  <1>4. PICK f : Fits(f, Len(nodes))
    BY <1>3
  <1> QED
    BY <1>4 DEF IsSorting

\* Where the first k elements of s are in t.
Arranges(p, k, s, t) ==
    /\ IsList(t) /\ Len(t) = k
    /\ p \in [1..k -> 1..k]
    /\ \A i, j \in 1..k : p[i] = p[j] => i = j
    /\ \A j \in 1..k : \E i \in 1..k : p[i] = j
    /\ \A i \in 1..k : t[p[i]] = s[i]

LEMMA ShiftedFacts ==
    ASSUME NEW k \in Nat, NEW j \in 1..(k + 1)
    PROVE  /\ \A i \in 1..k : Shifted(i, j) \in 1..(k + 1) /\ Shifted(i, j) # j
           /\ \A a, b \in 1..k : Shifted(a, j) = Shifted(b, j) => a = b
           /\ \A c \in 1..(k + 1) : c # j => \E d \in 1..k : Shifted(d, j) = c
  <1>1. \A i \in 1..k : Shifted(i, j) \in 1..(k + 1) /\ Shifted(i, j) # j
    BY DEF Shifted
  <1>2. \A a, b \in 1..k : Shifted(a, j) = Shifted(b, j) => a = b
    BY DEF Shifted
  <1>3. ASSUME NEW c \in 1..(k + 1), c # j PROVE \E d \in 1..k : Shifted(d, j) = c
    <2>1. c < j => c \in 1..k /\ Shifted(c, j) = c
      BY <1>3 DEF Shifted
    <2>2. ~ (c < j) => c - 1 \in 1..k /\ Shifted(c - 1, j) = c
      BY <1>3 DEF Shifted
    <2> QED
      BY <2>1, <2>2
  <1> QED
    BY <1>1, <1>2, <1>3

\* One more element is put in at j.
LEMMA ArrangesOneMore ==
    ASSUME NEW k \in Nat, NEW s, NEW t, NEW p, Arranges(p, k, s, t),
           NEW j \in 1..(k + 1), NEW u, IsList(u), Len(u) = k + 1, u[j] = s[k + 1],
           \A i \in 1..k : u[Shifted(i, j)] = t[i]
    PROVE  \E q : Arranges(q, k + 1, s, u)
  <1> DEFINE q == [i \in 1..(k + 1) |-> IF i = k + 1 THEN j ELSE Shifted(p[i], j)]
  <1>1. \A i \in 1..k : p[i] \in 1..k
    BY DEF Arranges
  <1>2. \A i \in 1..k : i \in 1..(k + 1) /\ i # k + 1
    OBVIOUS
  <1>3. k + 1 \in 1..(k + 1) /\ \A i \in 1..(k + 1) : i # k + 1 => i \in 1..k
    OBVIOUS
  <1>4. q[k + 1] = j
    BY <1>3
  <1>5. \A i \in 1..k : q[i] = Shifted(p[i], j)
    BY <1>2
  <1>6. q = [i \in 1..(k + 1) |-> q[i]]
    OBVIOUS
  <1> HIDE DEF q
  <1>7. \A i \in 1..(k + 1) : q[i] \in 1..(k + 1)
    <2>1. ASSUME NEW i \in 1..k PROVE q[i] \in 1..(k + 1)
      <3>1. p[i] \in 1..k /\ q[i] = Shifted(p[i], j)
        BY <1>1, <1>5
      <3>2. \A m \in 1..k : Shifted(m, j) \in 1..(k + 1)
        BY ShiftedFacts
      <3> QED
        BY <3>1, <3>2
    <2>2. q[k + 1] \in 1..(k + 1)
      BY <1>4
    <2> QED
      BY <2>1, <2>2, <1>3
  <1>8. q \in [1..(k + 1) -> 1..(k + 1)]
    BY <1>6, <1>7
  <1>9. ASSUME NEW a \in 1..(k + 1), NEW b \in 1..(k + 1), q[a] = q[b] PROVE a = b
    <2>1. CASE a \in 1..k /\ b \in 1..k
      <3>1. Shifted(p[a], j) = Shifted(p[b], j)
        BY <1>5, <1>9, <2>1
      <3>2. p[a] = p[b]
        BY <1>1, <2>1, <3>1, ShiftedFacts
      <3> QED
        BY <2>1, <3>2 DEF Arranges
    <2>0. ASSUME NEW i \in 1..k PROVE q[i] # j
      <3>1. Shifted(p[i], j) # j
        BY <1>1, ShiftedFacts
      <3> QED
        BY <3>1, <1>5
    <2>2. CASE a = k + 1 /\ b # k + 1
      BY <1>3, <1>4, <1>9, <2>2, <2>0
    <2>3. CASE a # k + 1 /\ b = k + 1
      BY <1>3, <1>4, <1>9, <2>3, <2>0
    <2> QED
      BY <1>3, <2>1, <2>2, <2>3
  <1>10. ASSUME NEW c \in 1..(k + 1) PROVE \E i \in 1..(k + 1) : q[i] = c
    <2>1. CASE c = j
      BY <2>1, <1>3, <1>4
    <2>2. CASE c # j
      <3>1. PICK d \in 1..k : Shifted(d, j) = c
        BY <2>2, ShiftedFacts
      <3>2. PICK i \in 1..k : p[i] = d
        BY DEF Arranges
      <3> QED
        BY <3>1, <3>2, <1>2, <1>5
    <2> QED
      BY <2>1, <2>2
  <1>11. ASSUME NEW i \in 1..(k + 1) PROVE u[q[i]] = s[i]
    <2>1. CASE i = k + 1
      BY <2>1, <1>4
    <2>2. CASE i \in 1..k
      <3>1. t[p[i]] = s[i]
        BY <2>2 DEF Arranges
      <3> QED
        BY <3>1, <2>2, <1>1, <1>5
    <2> QED
      BY <1>3, <2>1, <2>2
  <1>12. Arranges(q, k + 1, s, u)
    BY <1>8, <1>9, <1>10, <1>11 DEF Arranges
  <1> QED
    BY <1>12

\* A node is put in somewhere.
LEMMA InsertNodePlace ==
    ASSUME NEW sorted, IsList(sorted), NEW node
    PROVE  \E j \in 1..(Len(sorted) + 1) : InsertNode(sorted, node) = InsertAt(sorted, j, node)
  <1> DEFINE below == {i \in 1..Len(sorted) : sorted[i].pos <= node.pos}
  <1>1. Len(sorted) \in Nat
    BY ListFacts
  <1>2. IsFiniteSet(1..Len(sorted)) /\ Cardinality(1..Len(sorted)) = Len(sorted)
    <2>1. 1 \in Int /\ Len(sorted) \in Int
      BY <1>1
    <2>2. IsFiniteSet(1..Len(sorted)) /\ Cardinality(1..Len(sorted)) = IF 1 > Len(sorted) THEN 0 ELSE Len(sorted) - 1 + 1
      BY <2>1, FS_Interval
    <2> HIDE <2>1
    <2> QED
      BY <1>1, <2>2
  <1>3. below \subseteq 1..Len(sorted)
    OBVIOUS
  <1> HIDE DEF below
  <1>4. Cardinality(below) \in Nat /\ Cardinality(below) <= Len(sorted)
    BY <1>2, <1>3, FS_Subset, FS_CardinalityType
  <1>5. 1 + Cardinality(below) \in 1..(Len(sorted) + 1)
    BY <1>1, <1>4
  <1>6. InsertNode(sorted, node) = InsertAt(sorted, 1 + Cardinality(below), node)
    BY DEF InsertNode, below
  <1> QED
    BY <1>5, <1>6

LEMMA SortNodesArranges ==
    ASSUME NEW nodes, IsList(nodes)
    PROVE  \E p : Arranges(p, Len(nodes), nodes, SortNodes(nodes))
  <1> DEFINE N == Len(nodes)
             f == CHOOSE g : IsSorting(g, nodes)
             S == {k \in Nat : k <= N => \E p : Arranges(p, k, nodes, f[k])}
  <1>1. N \in Nat
    BY ListFacts
  <1>2. IsSorting(f, nodes)
    BY <1>1, SortingExists
  <1>3. SortNodes(nodes) = f[N]
    BY DEF SortNodes, IsSorting
  <1> HIDE DEF f
  <1>4. f[0] = <<>>
    BY <1>1, <1>2 DEF IsSorting
  <1>5. \A k \in 1..N : f[k] = InsertNode(f[k - 1], nodes[k])
    BY <1>1, <1>2 DEF IsSorting
  <1> HIDE DEF N
  <1>6. 0 \in S
    <2> DEFINE p == [i \in 1..0 |-> 0]
    <2>1. <<>> \in Seq({}) /\ Len(<<>>) = 0 /\ 1..0 = {}
      OBVIOUS
    <2>2. IsList(f[0]) /\ Len(f[0]) = 0
      BY <1>4, <2>1, ListOf
    <2>3. p \in [1..0 -> 1..0]
      BY <2>1
    <2> HIDE DEF p
    <2>4. Arranges(p, 0, nodes, f[0])
      BY <2>1, <2>2, <2>3 DEF Arranges
    <2> QED
      BY <2>4
  <1>7. ASSUME NEW k \in Nat, k \in S PROVE k + 1 \in S
    <2>0. CASE ~ (k + 1 <= N)
      BY <2>0
    <2>a. CASE k + 1 <= N
      <3>1. PICK p : Arranges(p, k, nodes, f[k])
        BY <1>1, <1>7, <2>a
      <3> DEFINE s == f[k]
                 e == nodes[k + 1]
      <3>2. f[k + 1] = InsertNode(s, e)
        <4>1. k + 1 \in 1..N /\ (k + 1) - 1 = k
          BY <1>1, <2>a
        <4> QED
          BY <4>1, <1>5
      <3>3. IsList(s) /\ Len(s) = k
        BY <3>1 DEF Arranges
      <3> HIDE DEF s, e
      <3>4. PICK j \in 1..(Len(s) + 1) : InsertNode(s, e) = InsertAt(s, j, e)
        BY <3>3, InsertNodePlace
      <3> DEFINE u == InsertAt(s, j, e)
      <3>5. /\ IsList(u) /\ Len(u) = Len(s) + 1
            /\ u[j] = e
            /\ \A i \in 1..Len(s) : u[Shifted(i, j)] = s[i]
        BY <3>3, ListInsert
      <3> HIDE DEF u
      <3>6. j \in 1..(k + 1) /\ Len(u) = k + 1 /\ \A i \in 1..k : u[Shifted(i, j)] = s[i]
        BY <3>3, <3>4, <3>5
      <3>9. Arranges(p, k, nodes, s) /\ u[j] = nodes[k + 1] /\ IsList(u)
        BY <3>1, <3>5 DEF s, e
      <3>7. \E q : Arranges(q, k + 1, nodes, u)
        BY <3>9, <3>6, ArrangesOneMore
      <3>8. f[k + 1] = u
        BY <3>2, <3>4 DEF u
      <3> QED
        BY <3>7, <3>8
    <2> QED
      BY <2>0, <2>a
  <1>8. Nat \subseteq S
    <2> HIDE DEF S
    <2> QED
      BY <1>6, <1>7, NatInductionOn
  <1>9. PICK p : Arranges(p, N, nodes, f[N])
    BY <1>1, <1>8
  <1> QED
    BY <1>3, <1>9 DEF N
-----------------------------------------------------------------------------
(***************************************************************************)
(* The hashing loop.  What it still has to do with is held under keys: the *)
(* provided nodes under 1, 2, ..., the computed parents after them, and the*)
(* roots it has found under -1, -2, ...                                    *)
(***************************************************************************)
DeleteTurn(nodes, st, n) == HashTurn(nodes, st, n, JoinDelete)

IsState(nodes, st) ==
    /\ st = [provided |-> st.provided, computed |-> st.computed, parents |-> st.parents,
             roots |-> st.roots, error |-> st.error]
    /\ IsList(nodes) /\ IsList(st.parents) /\ IsList(st.roots)
    /\ st.provided \in 0..Len(nodes)
    /\ st.computed \in 0..Len(st.parents)
    /\ st.error \in {TRUE, FALSE}

\* How many nodes the loop has still to take.
Left(nodes, st) == (Len(nodes) - st.provided) + (Len(st.parents) - st.computed)

Keys(nodes, st) ==
    {k \in Int : \/ st.provided < k /\ k <= Len(nodes)
                 \/ Len(nodes) + st.computed < k /\ k <= Len(nodes) + Len(st.parents)
                 \/ -Len(st.roots) <= k /\ k < 0}

HashAt(nodes, st, k) ==
    IF k < 0 THEN st.roots[-k]
    ELSE IF k <= Len(nodes) THEN nodes[k].hash ELSE st.parents[k - Len(nodes)].hash

View(nodes, st) == [k \in Keys(nodes, st) |-> HashAt(nodes, st, k)]

NextKey(nodes, st) ==
    IF TakesComputed(nodes, st) THEN Len(nodes) + st.computed + 1 ELSE st.provided + 1

LEMMA StateTypes ==
    ASSUME NEW nodes, NEW st, IsState(nodes, st)
    PROVE  /\ Len(nodes) \in Nat /\ Len(st.parents) \in Nat /\ Len(st.roots) \in Nat
           /\ st.provided \in Nat /\ st.provided <= Len(nodes)
           /\ st.computed \in Nat /\ st.computed <= Len(st.parents)
           /\ Left(nodes, st) \in Nat
           /\ Exhausted(nodes, st) <=> Left(nodes, st) = 0
  <1>1. /\ Len(nodes) \in Nat /\ Len(st.parents) \in Nat /\ Len(st.roots) \in Nat
    BY ListFacts DEF IsState
  <1>2. st.provided \in 0..Len(nodes) /\ st.computed \in 0..Len(st.parents)
    BY DEF IsState
  <1>3. Exhausted(nodes, st) <=> st.provided = Len(nodes) /\ st.computed = Len(st.parents)
    BY DEF Exhausted
  <1> QED
    BY <1>1, <1>2, <1>3, SMTT(30) DEF Left

\* The next node is the lowest one that is not taken, and is taken.
LEMMA AdvanceFacts ==
    ASSUME NEW nodes, NEW st, IsState(nodes, st), ~ Exhausted(nodes, st)
    PROVE  LET after == Advance(nodes, st)
               key   == NextKey(nodes, st)
           IN  /\ IsState(nodes, after)
               /\ after.parents = st.parents /\ after.roots = st.roots /\ after.error = st.error
               /\ Left(nodes, after) = Left(nodes, st) - 1
               /\ key \in Keys(nodes, st) /\ key > 0
               /\ Keys(nodes, after) = Keys(nodes, st) \ {key}
               /\ GetNext(nodes, st).hash = HashAt(nodes, st, key)
               /\ \A k \in Int : HashAt(nodes, after, k) = HashAt(nodes, st, k)
  <1> DEFINE after == Advance(nodes, st)
             key   == NextKey(nodes, st)
             N     == Len(nodes)
             P     == Len(st.parents)
  <1>1. /\ N \in Nat /\ P \in Nat /\ Len(st.roots) \in Nat
        /\ st.provided \in Nat /\ st.provided <= N
        /\ st.computed \in Nat /\ st.computed <= P
        /\ ~ (st.provided = N /\ st.computed = P)
    BY StateTypes DEF Exhausted
  <1>2. CASE TakesComputed(nodes, st)
    <2>1. st.computed # P
      BY <1>2 DEF TakesComputed
    <2>2. after = [provided |-> st.provided, computed |-> st.computed + 1, parents |-> st.parents,
                   roots |-> st.roots, error |-> st.error]
      BY <1>2 DEF Advance, IsState
    <2>3. key = N + st.computed + 1 /\ GetNext(nodes, st) = st.parents[st.computed + 1]
      BY <1>2 DEF NextKey, GetNext
    <2> HIDE DEF after, key
    <2>4. /\ after.provided = st.provided /\ after.computed = st.computed + 1
          /\ after.parents = st.parents /\ after.roots = st.roots /\ after.error = st.error
      BY <2>2
    <2>5. IsState(nodes, after)
      <3>1. st.computed + 1 \in 0..P
        BY <1>1, <2>1
      <3>2. after = [provided |-> after.provided, computed |-> after.computed, parents |-> after.parents,
                     roots |-> after.roots, error |-> after.error]
        BY <2>2, <2>4
      <3>3. /\ IsList(nodes) /\ IsList(after.parents) /\ IsList(after.roots)
            /\ after.provided \in 0..Len(nodes) /\ after.error \in {TRUE, FALSE}
        BY <2>4 DEF IsState
      <3>4. after.computed \in 0..Len(after.parents)
        BY <2>4, <3>1
      <3> HIDE DEF N, P
      <3> QED
        BY <3>2, <3>3, <3>4 DEF IsState
    <2>6. Left(nodes, after) = Left(nodes, st) - 1
      BY <1>1, <2>4, SMTT(30) DEF Left
    <2>7. key \in Keys(nodes, st) /\ key > 0
      BY <1>1, <2>1, <2>3 DEF Keys
    <2>8. Keys(nodes, after) = Keys(nodes, st) \ {key}
      BY <1>1, <2>1, <2>3, <2>4 DEF Keys
    <2>9. HashAt(nodes, st, key) = GetNext(nodes, st).hash
      <3>1. ~ (key < 0) /\ ~ (key <= N) /\ key - N = st.computed + 1
        BY <1>1, <2>1, <2>3
      <3> QED
        BY <3>1, <2>3 DEF HashAt
    <2>10. \A k \in Int : HashAt(nodes, after, k) = HashAt(nodes, st, k)
      BY <2>4 DEF HashAt
    <2> QED
      BY <2>4, <2>5, <2>6, <2>7, <2>8, <2>9, <2>10 DEF after, key
  <1>3. CASE ~ TakesComputed(nodes, st)
    <2>1. st.provided # N
      BY <1>1, <1>3 DEF TakesComputed
    <2>2. after = [provided |-> st.provided + 1, computed |-> st.computed, parents |-> st.parents,
                   roots |-> st.roots, error |-> st.error]
      BY <1>3 DEF Advance, IsState
    <2>3. key = st.provided + 1 /\ GetNext(nodes, st) = nodes[st.provided + 1]
      BY <1>3 DEF NextKey, GetNext
    <2> HIDE DEF after, key
    <2>4. /\ after.provided = st.provided + 1 /\ after.computed = st.computed
          /\ after.parents = st.parents /\ after.roots = st.roots /\ after.error = st.error
      BY <2>2
    <2>5. IsState(nodes, after)
      <3>1. st.provided + 1 \in 0..N
        BY <1>1, <2>1
      <3>2. after = [provided |-> after.provided, computed |-> after.computed, parents |-> after.parents,
                     roots |-> after.roots, error |-> after.error]
        BY <2>2, <2>4
      <3>3. /\ IsList(nodes) /\ IsList(after.parents) /\ IsList(after.roots)
            /\ after.computed \in 0..Len(after.parents) /\ after.error \in {TRUE, FALSE}
        BY <2>4 DEF IsState
      <3>4. after.provided \in 0..Len(nodes)
        BY <2>4, <3>1
      <3> HIDE DEF N, P
      <3> QED
        BY <3>2, <3>3, <3>4 DEF IsState
    <2>6. Left(nodes, after) = Left(nodes, st) - 1
      BY <1>1, <2>4 DEF Left
    <2>7. key \in Keys(nodes, st) /\ key > 0
      BY <1>1, <2>1, <2>3 DEF Keys
    <2>8. Keys(nodes, after) = Keys(nodes, st) \ {key}
      BY <1>1, <2>1, <2>3, <2>4 DEF Keys
    <2>9. HashAt(nodes, st, key) = GetNext(nodes, st).hash
      <3>1. ~ (key < 0) /\ key <= N
        BY <1>1, <2>1, <2>3
      <3> QED
        BY <3>1, <2>3 DEF HashAt
    <2>10. \A k \in Int : HashAt(nodes, after, k) = HashAt(nodes, st, k)
      BY <2>4 DEF HashAt
    <2> QED
      BY <2>4, <2>5, <2>6, <2>7, <2>8, <2>9, <2>10 DEF after, key
  <1> QED
    BY <1>2, <1>3

WithParent(st, parent) == [st EXCEPT !.parents = Append(@, parent)]

LEMMA AddParentFacts ==
    ASSUME NEW nodes, NEW st, IsState(nodes, st), NEW parent,
           NEW after, after = WithParent(st, parent),
           NEW key, key = Len(nodes) + Len(st.parents) + 1
    PROVE  /\ IsState(nodes, after)
           /\ after.error = st.error
           /\ Left(nodes, after) = Left(nodes, st) + 1
           /\ key \notin Keys(nodes, st) /\ key \in Int
           /\ Keys(nodes, after) = Keys(nodes, st) \cup {key}
           /\ HashAt(nodes, after, key) = parent.hash
           /\ \A k \in Keys(nodes, st) : HashAt(nodes, after, k) = HashAt(nodes, st, k)
  <1> DEFINE longer == Append(st.parents, parent)
             N     == Len(nodes)
             P     == Len(st.parents)
  <1>0. key = N + P + 1
    OBVIOUS
  <1>1. /\ N \in Nat /\ P \in Nat /\ Len(st.roots) \in Nat
        /\ st.provided \in Nat /\ st.provided <= N
        /\ st.computed \in Nat /\ st.computed <= P
    BY StateTypes
  <1>2. after = [provided |-> st.provided, computed |-> st.computed, parents |-> longer,
                 roots |-> st.roots, error |-> st.error]
    <2>1. ASSUME NEW x
          PROVE  [st EXCEPT !.parents = x] = [provided |-> st.provided, computed |-> st.computed, parents |-> x,
                                              roots |-> st.roots, error |-> st.error]
      BY DEF IsState
    <2>2. after = [st EXCEPT !.parents = longer]
      BY DEF WithParent
    <2> HIDE DEF longer
    <2> QED
      BY <2>1, <2>2
  <1>3. IsList(longer) /\ Len(longer) = P + 1 /\ longer[P + 1] = parent
        /\ \A i \in 1..P : longer[i] = st.parents[i]
    BY ListAppend DEF IsState
  <1> HIDE DEF longer
  <1>4. /\ after.provided = st.provided /\ after.computed = st.computed
        /\ after.parents = longer /\ after.roots = st.roots /\ after.error = st.error
    BY <1>2
  <1>5. IsState(nodes, after)
    <2>1. after = [provided |-> after.provided, computed |-> after.computed, parents |-> after.parents,
                   roots |-> after.roots, error |-> after.error]
      BY <1>2, <1>4
    <2>2. /\ IsList(nodes) /\ IsList(after.parents) /\ IsList(after.roots)
          /\ after.provided \in 0..Len(nodes) /\ after.error \in {TRUE, FALSE}
      BY <1>3, <1>4 DEF IsState
    <2>3. after.computed \in 0..Len(after.parents)
      BY <1>1, <1>3, <1>4
    <2> HIDE DEF N, P
    <2> QED
      BY <2>1, <2>2, <2>3 DEF IsState
  <1>6. Left(nodes, after) = Left(nodes, st) + 1
    <2>1. Len(after.parents) = P + 1
      BY <1>3, <1>4
    <2> DEFINE a == N - st.provided
               b == P - st.computed
    <2>2. a \in Int /\ b \in Int /\ (P + 1) - st.computed = b + 1
      BY <1>1, SMTT(30)
    <2>3. Left(nodes, st) = a + b
      BY DEF Left
    <2>4. Left(nodes, after) = a + ((P + 1) - st.computed)
      BY <1>1, <1>4, <2>1 DEF Left
    <2> HIDE DEF P, N, a, b
    <2> QED
      BY <2>2, <2>3, <2>4
  <1>7. key \notin Keys(nodes, st) /\ key \in Int
    BY <1>0, <1>1 DEF Keys
  <1>8. Keys(nodes, after) = Keys(nodes, st) \cup {key}
    <2>1. Len(after.parents) = P + 1 /\ Len(after.roots) = Len(st.roots)
      BY <1>3, <1>4
    <2>2. ASSUME NEW k \in Int PROVE k \in Keys(nodes, after) <=> k \in Keys(nodes, st) \/ k = key
      BY <1>0, <1>1, <2>1, <1>4 DEF Keys
    <2>3. Keys(nodes, after) \subseteq Int /\ Keys(nodes, st) \subseteq Int
      BY DEF Keys
    <2> QED
      BY <2>2, <2>3, <1>7
  <1>9. HashAt(nodes, after, key) = parent.hash
    <2>1. ~ (key < 0) /\ ~ (key <= N) /\ key - N = P + 1
      BY <1>0, <1>1
    <2> QED
      BY <2>1, <1>3, <1>4 DEF HashAt
  <1>10. ASSUME NEW k \in Keys(nodes, st) PROVE HashAt(nodes, after, k) = HashAt(nodes, st, k)
    <2>1. k \in Int /\ (~ (k < 0) /\ ~ (k <= N) => k - N \in 1..P)
      BY <1>1 DEF Keys
    <2>2. ~ (k < 0) /\ ~ (k <= N) => longer[k - N] = st.parents[k - N]
      BY <2>1, <1>3
    <2> QED
      BY <2>1, <2>2, <1>4 DEF HashAt
  <1> QED
    BY <1>4, <1>5, <1>6, <1>7, <1>8, <1>9, <1>10

WithRoot(st, root) == [st EXCEPT !.roots = Append(@, root)]

LEMMA AddRootFacts ==
    ASSUME NEW nodes, NEW st, IsState(nodes, st), NEW root,
           NEW after, after = WithRoot(st, root),
           NEW key, key = -(Len(st.roots) + 1)
    PROVE  /\ IsState(nodes, after)
           /\ after.error = st.error
           /\ Left(nodes, after) = Left(nodes, st)
           /\ key \notin Keys(nodes, st) /\ key \in Int
           /\ Keys(nodes, after) = Keys(nodes, st) \cup {key}
           /\ HashAt(nodes, after, key) = root
           /\ \A k \in Keys(nodes, st) : HashAt(nodes, after, k) = HashAt(nodes, st, k)
  <1> DEFINE longer == Append(st.roots, root)
             N     == Len(nodes)
             R     == Len(st.roots)
  <1>0. key = -(R + 1)
    OBVIOUS
  <1>1. /\ N \in Nat /\ Len(st.parents) \in Nat /\ R \in Nat
        /\ st.provided \in Nat /\ st.provided <= N
        /\ st.computed \in Nat /\ st.computed <= Len(st.parents)
    BY StateTypes
  <1>2. after = [provided |-> st.provided, computed |-> st.computed, parents |-> st.parents,
                 roots |-> longer, error |-> st.error]
    <2>1. ASSUME NEW x
          PROVE  [st EXCEPT !.roots = x] = [provided |-> st.provided, computed |-> st.computed, parents |-> st.parents,
                                            roots |-> x, error |-> st.error]
      BY DEF IsState
    <2>2. after = [st EXCEPT !.roots = longer]
      BY DEF WithRoot
    <2> HIDE DEF longer
    <2> QED
      BY <2>1, <2>2
  <1>3. IsList(longer) /\ Len(longer) = R + 1 /\ longer[R + 1] = root
        /\ \A i \in 1..R : longer[i] = st.roots[i]
    BY ListAppend DEF IsState
  <1> HIDE DEF longer
  <1>4. /\ after.provided = st.provided /\ after.computed = st.computed
        /\ after.parents = st.parents /\ after.roots = longer /\ after.error = st.error
    BY <1>2
  <1>5. IsState(nodes, after)
    <2>1. after = [provided |-> after.provided, computed |-> after.computed, parents |-> after.parents,
                   roots |-> after.roots, error |-> after.error]
      BY <1>2, <1>4
    <2>2. /\ IsList(nodes) /\ IsList(after.parents) /\ IsList(after.roots)
          /\ after.provided \in 0..Len(nodes) /\ after.error \in {TRUE, FALSE}
          /\ after.computed \in 0..Len(after.parents)
      BY <1>3, <1>4 DEF IsState
    <2> QED
      BY <2>1, <2>2 DEF IsState
  <1>6. Left(nodes, after) = Left(nodes, st)
    BY <1>4 DEF Left
  <1>7. key \notin Keys(nodes, st) /\ key \in Int
    BY <1>0, <1>1 DEF Keys
  <1>8. Keys(nodes, after) = Keys(nodes, st) \cup {key}
    <2>1. Len(after.roots) = R + 1
      BY <1>3, <1>4
    <2>2. ASSUME NEW k \in Int PROVE k \in Keys(nodes, after) <=> k \in Keys(nodes, st) \/ k = key
      BY <1>0, <1>1, <2>1, <1>4 DEF Keys
    <2>3. Keys(nodes, after) \subseteq Int /\ Keys(nodes, st) \subseteq Int
      BY DEF Keys
    <2> QED
      BY <2>2, <2>3, <1>7
  <1>9. HashAt(nodes, after, key) = root
    <2>1. key < 0 /\ -key = R + 1
      BY <1>0, <1>1
    <2> QED
      BY <2>1, <1>3, <1>4 DEF HashAt
  <1>10. ASSUME NEW k \in Keys(nodes, st) PROVE HashAt(nodes, after, k) = HashAt(nodes, st, k)
    <2>1. k \in Int /\ (k < 0 => -k \in 1..R)
      BY <1>1 DEF Keys
    <2>2. k < 0 => longer[-k] = st.roots[-k]
      BY <2>1, <1>3
    <2> QED
      BY <2>1, <2>2, <1>4 DEF HashAt
  <1> QED
    BY <1>4, <1>5, <1>6, <1>7, <1>8, <1>9, <1>10

\* A turn takes one thing and keeps it (as a root), or takes two and joins them.
Moves(F, G, a, c) ==
    /\ a \in DOMAIN F
    /\ c \notin DOMAIN F \ {a}
    /\ DOMAIN G = (DOMAIN F \ {a}) \cup {c}
    /\ G[c] = F[a]
    /\ \A k \in DOMAIN F \ {a} : G[k] = F[k]

Merges(F, G, a, b, c) ==
    /\ a \in DOMAIN F /\ b \in DOMAIN F /\ a # b
    /\ c \notin DOMAIN F \ {a, b}
    /\ DOMAIN G = (DOMAIN F \ {a, b}) \cup {c}
    /\ G[c] = JoinDelete(F[a], F[b])
    /\ \A k \in DOMAIN F \ {a, b} : G[k] = F[k]

LEMMA ViewFacts ==
    ASSUME NEW nodes, NEW st
    PROVE  /\ DOMAIN View(nodes, st) = Keys(nodes, st)
           /\ \A k \in Keys(nodes, st) : View(nodes, st)[k] = HashAt(nodes, st, k)
           /\ Keys(nodes, st) \subseteq Int
  BY DEF View, Keys

LEMMA DeleteTurnFacts ==
    ASSUME NEW nodes, NEW st, IsState(nodes, st), NEW n
    PROVE  LET after == DeleteTurn(nodes, st, n)
           IN  /\ IsState(nodes, after)
               /\ st.error => after = st
               /\ ~ st.error /\ ~ after.error /\ ~ Exhausted(nodes, st) =>
                      /\ Left(nodes, after) = Left(nodes, st) - 1
                      /\ \E a, b, c : \/ Moves(View(nodes, st), View(nodes, after), a, c)
                                      \/ Merges(View(nodes, st), View(nodes, after), a, b, c)
  <1> DEFINE after == DeleteTurn(nodes, st, n)
             next  == GetNext(nodes, st)
             a     == NextKey(nodes, st)
             one   == Advance(nodes, st)
             Goal  == /\ Left(nodes, after) = Left(nodes, st) - 1
                      /\ \E x, y, z : \/ Moves(View(nodes, st), View(nodes, after), x, z)
                                      \/ Merges(View(nodes, st), View(nodes, after), x, y, z)
  <1>1. CASE st.error \/ Exhausted(nodes, st)
    <2>1. after = st
      BY <1>1 DEF DeleteTurn, HashTurn
    <2> HIDE DEF after
    <2>2. st.error => after = st
      BY <2>1
    <2>3. IsState(nodes, after)
      BY <2>1
    <2> QED
      BY <1>1, <2>2, <2>3 DEF after
  <1>2. CASE ~ st.error /\ ~ Exhausted(nodes, st)
    <2>1. /\ IsState(nodes, one)
          /\ one.parents = st.parents /\ one.roots = st.roots /\ one.error = st.error
          /\ Left(nodes, one) = Left(nodes, st) - 1
          /\ a \in Keys(nodes, st)
          /\ Keys(nodes, one) = Keys(nodes, st) \ {a}
          /\ next.hash = HashAt(nodes, st, a)
          /\ \A k \in Int : HashAt(nodes, one, k) = HashAt(nodes, st, k)
      BY <1>2, AdvanceFacts
    <2>2. CASE IsRootPosition(next.pos, n, TreeRows(n))
      <3> DEFINE c == -(Len(one.roots) + 1)
      <3>1. after = WithRoot(one, next.hash)
        BY <1>2, <2>2 DEF DeleteTurn, HashTurn, WithRoot
      <3> HIDE DEF after, next, one, a
      <3>2. /\ IsState(nodes, after)
            /\ Left(nodes, after) = Left(nodes, one)
            /\ c \notin Keys(nodes, one)
            /\ Keys(nodes, after) = Keys(nodes, one) \cup {c}
            /\ HashAt(nodes, after, c) = next.hash
            /\ \A k \in Keys(nodes, one) : HashAt(nodes, after, k) = HashAt(nodes, one, k)
        BY <2>1, <3>1, AddRootFacts
      <3> HIDE DEF c
      <3>3. \A k \in Keys(nodes, st) \ {a} : View(nodes, after)[k] = View(nodes, st)[k]
        BY <2>1, <3>2, ViewFacts
      <3>4. View(nodes, after)[c] = View(nodes, st)[a]
        BY <2>1, <3>2, ViewFacts
      <3>5. Moves(View(nodes, st), View(nodes, after), a, c)
        BY <2>1, <3>2, <3>3, <3>4, ViewFacts DEF Moves
      <3>6. Left(nodes, after) = Left(nodes, st) - 1
        BY <2>1, <3>2
      <3> QED
        BY <1>2, <3>2, <3>5, <3>6 DEF after
    <2>3. CASE ~ IsRootPosition(next.pos, n, TreeRows(n))
      <3> DEFINE right  == GetNext(nodes, one)
                 rows   == TreeRows(n)
                 parent == [pos |-> Parent(next.pos, rows), hash |-> JoinDelete(next.hash, right.hash)]
                 b      == NextKey(nodes, one)
                 two    == Advance(nodes, one)
                 c      == Len(nodes) + Len(two.parents) + 1
      <3>1. after = IF Exhausted(nodes, one) THEN [one EXCEPT !.error = TRUE]
                    ELSE IF right.pos # RightSibling(next.pos) THEN [one EXCEPT !.error = TRUE]
                    ELSE WithParent(two, parent)
        BY <1>2, <2>3 DEF DeleteTurn, HashTurn, HashPair, WithParent
      <3>2. CASE Exhausted(nodes, one) \/ right.pos # RightSibling(next.pos)
        <4>1. after = [one EXCEPT !.error = TRUE]
          BY <3>1, <3>2
        <4> HIDE DEF after, one
        <4>2. after = [provided |-> one.provided, computed |-> one.computed, parents |-> one.parents,
                       roots |-> one.roots, error |-> TRUE]
          BY <2>1, <4>1 DEF IsState
        <4>3. IsState(nodes, after) /\ after.error
          BY <2>1, <4>2 DEF IsState
        <4> QED
          BY <1>2, <4>3 DEF after
      <3>3. CASE ~ Exhausted(nodes, one) /\ right.pos = RightSibling(next.pos)
        <4>1. after = WithParent(two, parent)
          BY <3>1, <3>3
        <4> HIDE DEF after, next, one, a
        <4>2. /\ IsState(nodes, two)
              /\ Left(nodes, two) = Left(nodes, one) - 1
              /\ b \in Keys(nodes, one)
              /\ Keys(nodes, two) = Keys(nodes, one) \ {b}
              /\ right.hash = HashAt(nodes, one, b)
              /\ \A k \in Int : HashAt(nodes, two, k) = HashAt(nodes, one, k)
          BY <2>1, <3>3, AdvanceFacts
        <4> HIDE DEF two, right, b
        <4>3. parent.hash = JoinDelete(next.hash, right.hash)
          OBVIOUS
        <4> HIDE DEF parent
        <4>4. /\ IsState(nodes, after)
              /\ Left(nodes, after) = Left(nodes, two) + 1
              /\ c \notin Keys(nodes, two)
              /\ Keys(nodes, after) = Keys(nodes, two) \cup {c}
              /\ HashAt(nodes, after, c) = parent.hash
              /\ \A k \in Keys(nodes, two) : HashAt(nodes, after, k) = HashAt(nodes, two, k)
          BY <4>1, <4>2, AddParentFacts
        <4> HIDE DEF c
        <4>5. a # b /\ a \in Keys(nodes, st) /\ b \in Keys(nodes, st)
          BY <2>1, <4>2
        <4>6. Keys(nodes, two) = Keys(nodes, st) \ {a, b}
          BY <2>1, <4>2
        <4>7. ASSUME NEW k \in Keys(nodes, st) \ {a, b}
              PROVE  View(nodes, after)[k] = View(nodes, st)[k]
          <5>1. k \in Int /\ k \in Keys(nodes, two) /\ k \in Keys(nodes, after)
            BY <4>4, <4>6, ViewFacts
          <5>2. HashAt(nodes, after, k) = HashAt(nodes, st, k)
            BY <5>1, <2>1, <4>2, <4>4
          <5> QED
            BY <5>1, <5>2, ViewFacts
        <4>8. View(nodes, after)[c] = JoinDelete(View(nodes, st)[a], View(nodes, st)[b])
          <5>1. View(nodes, after)[c] = JoinDelete(next.hash, right.hash)
            BY <4>3, <4>4, ViewFacts
          <5>2. next.hash = View(nodes, st)[a]
            BY <2>1, ViewFacts
          <5>3. b \in Int
            BY <4>5, ViewFacts
          <5>4. right.hash = View(nodes, st)[b]
            BY <5>3, <2>1, <4>2, <4>5, ViewFacts
          <5> QED
            BY <5>1, <5>2, <5>4
        <4>9. Merges(View(nodes, st), View(nodes, after), a, b, c)
          <5> DEFINE F == View(nodes, st)
                     G == View(nodes, after)
          <5>1. DOMAIN F = Keys(nodes, st) /\ DOMAIN G = (Keys(nodes, st) \ {a, b}) \cup {c}
            BY <4>4, <4>6, ViewFacts
          <5>2. c \notin Keys(nodes, st) \ {a, b}
            BY <4>4, <4>6
          <5>3. G[c] = JoinDelete(F[a], F[b]) /\ \A k \in Keys(nodes, st) \ {a, b} : G[k] = F[k]
            BY <4>7, <4>8
          <5> HIDE DEF F, G
          <5>4. Merges(F, G, a, b, c)
            BY <4>5, <5>1, <5>2, <5>3 DEF Merges
          <5> QED
            BY <5>4 DEF F, G
        <4>10. Left(nodes, after) = Left(nodes, st) - 1
          <5>1. Left(nodes, st) \in Nat
            BY StateTypes
          <5> QED
            BY <5>1, <2>1, <4>2, <4>4
        <4> QED
          BY <1>2, <4>4, <4>9, <4>10 DEF after
      <3> QED
        BY <3>2, <3>3
    <2> QED
      BY <2>2, <2>3
  <1> QED
    BY <1>1, <1>2

-----------------------------------------------------------------------------
(***************************************************************************)
(* What is true of a forest's trees at the end was true on the way: if the *)
(* roots that were found are whole trees without a common leaf, so is all  *)
(* that they were made of.                                                 *)
(***************************************************************************)
AreTreesOf(F, L) ==
    /\ \A k \in DOMAIN F : F[k].old \in WholeTrees /\ LeafSets[F[k].old] \subseteq L
    /\ \A k, j \in DOMAIN F : k # j => LeafSets[F[k].old] \cap LeafSets[F[j].old] = {}

\* What is left of every tree is the tree without the leaves of D.
AreWithout(F, D) == \A k \in DOMAIN F : F[k].new = Without(F[k].old, D)

\* The same trees, or some of them, under other keys.
LEMMA RekeyedTrees ==
    ASSUME NEW F, NEW G, NEW m, \A k \in DOMAIN F : m[k] \in DOMAIN G /\ F[k] = G[m[k]],
           \A k, j \in DOMAIN F : m[k] = m[j] => k = j, NEW L, AreTreesOf(G, L)
    PROVE  AreTreesOf(F, L)
  <1>1. \A k \in DOMAIN F : F[k].old \in WholeTrees /\ LeafSets[F[k].old] \subseteq L
    BY DEF AreTreesOf
  <1>2. ASSUME NEW k \in DOMAIN F, NEW j \in DOMAIN F, k # j
        PROVE  LeafSets[F[k].old] \cap LeafSets[F[j].old] = {}
    <2>1. m[k] # m[j] /\ m[k] \in DOMAIN G /\ m[j] \in DOMAIN G /\ F[k] = G[m[k]] /\ F[j] = G[m[j]]
      BY <1>2
    <2> QED
      BY <2>1 DEF AreTreesOf
  <1> QED
    BY <1>1, <1>2 DEF AreTreesOf

LEMMA MovedTrees ==
    ASSUME NEW F, NEW G, NEW a, NEW c, Moves(F, G, a, c), NEW L, NEW D
    PROVE  /\ AreTreesOf(G, L) => AreTreesOf(F, L)
           /\ AreWithout(F, D) => AreWithout(G, D)
  <1> DEFINE At(k) == IF k = a THEN c ELSE k
  <1>1. \A k \in DOMAIN F : At(k) \in DOMAIN G /\ G[At(k)] = F[k]
    BY DEF Moves
  <1>2. \A k, j \in DOMAIN F : k # j => At(k) # At(j)
    BY DEF Moves
  <1>3. \A k \in DOMAIN G : \E j \in DOMAIN F : G[k] = F[j]
    BY DEF Moves
  <1> HIDE DEF At
  <1>4. AreTreesOf(G, L) => AreTreesOf(F, L)
    BY <1>1, <1>2 DEF AreTreesOf
  <1>5. AreWithout(F, D) => AreWithout(G, D)
    BY <1>3 DEF AreWithout
  <1> QED
    BY <1>4, <1>5

LEMMA MergedTrees ==
    ASSUME NEW F, NEW G, NEW a, NEW b, NEW c, Merges(F, G, a, b, c), NEW L, NEW D
    PROVE  /\ AreTreesOf(G, L) => AreTreesOf(F, L)
           /\ AreTreesOf(G, L) /\ AreWithout(F, D) => AreWithout(G, D)
  <1> DEFINE At(k) == IF k \in {a, b} THEN c ELSE k
             l == F[a].old
             r == F[b].old
  <1>1. /\ a \in DOMAIN F /\ b \in DOMAIN F /\ a # b /\ c \in DOMAIN G
        /\ G[c].old = ParentHash(l, r)
    BY DEF Merges, JoinDelete
  <1>2. \A k \in DOMAIN F : At(k) \in DOMAIN G
    BY DEF Merges
  <1>3. \A k \in DOMAIN F : k \notin {a, b} => At(k) = k /\ k # c /\ G[k] = F[k]
    BY DEF Merges
  <1>4. At(a) = c /\ At(b) = c
    OBVIOUS
  <1> HIDE DEF At
  <1>5. AreTreesOf(G, L) =>
            /\ ParentHash(l, r) \in WholeTrees /\ ParentHash(l, r) \in Trees
            /\ l \in WholeTrees /\ r \in WholeTrees
            /\ LeafSets[ParentHash(l, r)] = LeafSets[l] \cup LeafSets[r]
            /\ LeafSets[ParentHash(l, r)] \subseteq L
            /\ LeafSets[l] \cap LeafSets[r] = {}
    <2> SUFFICES ASSUME AreTreesOf(G, L)
                 PROVE  /\ ParentHash(l, r) \in WholeTrees /\ ParentHash(l, r) \in Trees
                        /\ l \in WholeTrees /\ r \in WholeTrees
                        /\ LeafSets[ParentHash(l, r)] = LeafSets[l] \cup LeafSets[r]
                        /\ LeafSets[ParentHash(l, r)] \subseteq L
                        /\ LeafSets[l] \cap LeafSets[r] = {}
      OBVIOUS
    <2> DEFINE t == ParentHash(l, r)
    <2>1. t \in WholeTrees /\ LeafSets[t] \subseteq L
      BY <1>1 DEF AreTreesOf
    <2>2. IsBranchHash(t) /\ t[1] = l /\ t[2] = r
      BY DEF ParentHash, IsBranchHash
    <2> HIDE DEF t, l, r
    <2>3. /\ t \in Trees /\ l \in WholeTrees /\ r \in WholeTrees
          /\ LeafSets[t] = LeafSets[l] \cup LeafSets[r]
          /\ LeafSets[l] \cap LeafSets[r] = {}
      BY <2>1, <2>2, WholeHalves
    <2> QED
      BY <2>1, <2>3 DEF t
  <1>6. ASSUME AreTreesOf(G, L) PROVE AreTreesOf(F, L)
    <2>1. ASSUME NEW k \in DOMAIN F
          PROVE  /\ F[k].old \in WholeTrees
                 /\ LeafSets[F[k].old] \subseteq LeafSets[G[At(k)].old]
                 /\ LeafSets[G[At(k)].old] \subseteq L
      <3>1. CASE k = a
        BY <3>1, <1>1, <1>4, <1>5, <1>6
      <3>2. CASE k = b
        BY <3>2, <1>1, <1>4, <1>5, <1>6
      <3>3. CASE k \notin {a, b}
        BY <3>3, <1>2, <1>3, <1>6 DEF AreTreesOf
      <3> QED
        BY <3>1, <3>2, <3>3
    <2>2. ASSUME NEW k \in DOMAIN F, NEW j \in DOMAIN F, k # j
          PROVE  LeafSets[F[k].old] \cap LeafSets[F[j].old] = {}
      <3>1. CASE At(k) # At(j)
        <4>1. LeafSets[G[At(k)].old] \cap LeafSets[G[At(j)].old] = {}
          BY <3>1, <1>2, <1>6 DEF AreTreesOf
        <4> QED
          BY <4>1, <2>1
      <3>2. CASE At(k) = At(j)
        <4>1. k \in {a, b} /\ j \in {a, b}
          BY <3>2, <2>2, <1>3, <1>4
        <4> QED
          BY <4>1, <2>2, <1>5, <1>6
      <3> QED
        BY <3>1, <3>2
    <2> QED
      BY <2>1, <2>2 DEF AreTreesOf
  <1>7. ASSUME AreTreesOf(G, L), AreWithout(F, D) PROVE AreWithout(G, D)
    <2>1. F[a].new = Without(l, D) /\ F[b].new = Without(r, D)
      BY <1>1, <1>7 DEF AreWithout
    <2>2. G[c].new = Joined(F[a].new, F[b].new)
      <3>1. G[c] = JoinDelete(F[a], F[b])
        BY DEF Merges
      <3> QED
        BY <3>1 DEF JoinDelete, Joined, IsEmpty
    <2>3. Without(ParentHash(l, r), D) = Joined(Without(l, D), Without(r, D))
      <3> HIDE DEF l, r
      <3> QED
        BY <1>5, <1>7, PairFacts
    <2>4. G[c].new = Without(G[c].old, D)
      BY <1>1, <2>1, <2>2, <2>3
    <2>5. \A k \in DOMAIN G : k # c => k \in DOMAIN F /\ k \notin {a, b}
      BY DEF Merges
    <2> QED
      BY <1>3, <1>7, <2>4, <2>5 DEF AreWithout
  <1> QED
    BY <1>6, <1>7
-----------------------------------------------------------------------------
StartState == [provided |-> 0, computed |-> 0, parents |-> <<>>, roots |-> <<>>, error |-> FALSE]

IsTurning(f, nodes, n) ==
    f = [k \in 0..Len(nodes) |-> IF k = 0 THEN StartState ELSE DeleteTurn(nodes, f[k - 1], n)]

LEMMA TurningExists == ASSUME NEW nodes, Len(nodes) \in Nat, NEW n PROVE \E f : IsTurning(f, nodes, n)
  <1> DEFINE Turn(st) == DeleteTurn(nodes, st, n)
             Fits(f, m) == f = [k \in 0..m |-> IF k = 0 THEN StartState ELSE Turn(f[k - 1])]
             S == {m \in Nat : \E f : Fits(f, m)}
  <1> HIDE DEF Turn
  <1>1. 0 \in S
    <2>1. Fits([k \in 0..0 |-> StartState], 0)
      OBVIOUS
    <2> QED
      BY <2>1
  <1>2. ASSUME NEW m \in Nat, m \in S PROVE m + 1 \in S
    <2>1. PICK g : Fits(g, m)
      BY <1>2
    <2> DEFINE f == [k \in 0..(m + 1) |-> IF k = m + 1 THEN Turn(g[m]) ELSE g[k]]
    <2>2. \A k \in 0..m : f[k] = g[k]
      OBVIOUS
    <2>3. ASSUME NEW k \in 0..(m + 1)
          PROVE  f[k] = IF k = 0 THEN StartState ELSE Turn(f[k - 1])
      <3>1. CASE k = m + 1
        <4>1. k # 0 /\ k - 1 = m /\ m \in 0..m
          BY <3>1
        <4>2. f[k] = Turn(g[m])
          BY <3>1
        <4> QED
          BY <4>1, <4>2, <3>1, <2>2
      <3>2. CASE k # m + 1
        <4>1. k \in 0..m /\ (k # 0 => k - 1 \in 0..m)
          BY <3>2
        <4>2. g[k] = IF k = 0 THEN StartState ELSE Turn(g[k - 1])
          BY <4>1, <2>1
        <4> HIDE DEF f
        <4> QED
          BY <4>1, <4>2, <2>2
      <3> QED
        BY <3>1, <3>2
    <2>4. f = [k \in 0..(m + 1) |-> f[k]]
      OBVIOUS
    <2> HIDE DEF f
    <2>5. Fits(f, m + 1)
      BY <2>3, <2>4
    <2> QED
      BY <2>5
  <1>3. Nat \subseteq S
    <2> HIDE DEF S
    <2> QED
      BY <1>1, <1>2, NatInductionOn
  <1>4. PICK f : Fits(f, Len(nodes))
    BY <1>3
  <1> QED
    BY <1>4 DEF IsTurning, Turn

\* The loop's states, from the first to the last: it takes a node per turn
\* unless it has failed.
LEMMA HashUpTurns ==
    ASSUME NEW nodes, IsList(nodes), NEW n
    PROVE  \E f : /\ f[0] = StartState
                  /\ \A k \in 1..Len(nodes) : f[k] = DeleteTurn(nodes, f[k - 1], n)
                  /\ f[Len(nodes)] = HashUp(nodes, n, JoinDelete)
                  /\ \A k \in 0..Len(nodes) :
                         /\ IsState(nodes, f[k])
                         /\ ~ f[k].error => Left(nodes, f[k]) = Len(nodes) - k
  <1> DEFINE N == Len(nodes)
             f == CHOOSE g : IsTurning(g, nodes, n)
             S == {k \in Nat : k <= N => /\ IsState(nodes, f[k])
                                         /\ ~ f[k].error => Left(nodes, f[k]) = N - k}
  <1>1. N \in Nat
    BY ListFacts
  <1>2. IsTurning(f, nodes, n)
    BY <1>1, TurningExists
  <1>3. f[N] = HashUp(nodes, n, JoinDelete)
    BY DEF HashUp, IsTurning, DeleteTurn, StartState
  <1> HIDE DEF f
  <1>4. f[0] = StartState
    BY <1>1, <1>2 DEF IsTurning
  <1>5. \A k \in 1..N : f[k] = DeleteTurn(nodes, f[k - 1], n)
    BY <1>1, <1>2 DEF IsTurning
  <1>6. 0 \in S
    <2>1. <<>> \in Seq({}) /\ Len(<<>>) = 0
      OBVIOUS
    <2>2. IsList(<<>>)
      BY <2>1, ListOf
    <2>3. IsState(nodes, StartState)
      BY <1>1, <2>1, <2>2 DEF IsState, StartState
    <2>4. Left(nodes, StartState) = N - 0
      BY <1>1, <2>1 DEF Left, StartState
    <2> QED
      BY <1>4, <2>3, <2>4
  <1>7. ASSUME NEW k \in Nat, k \in S PROVE k + 1 \in S
    <2> SUFFICES ASSUME k + 1 <= N
                 PROVE  /\ IsState(nodes, f[k + 1])
                        /\ ~ f[k + 1].error => Left(nodes, f[k + 1]) = N - (k + 1)
      OBVIOUS
    <2> DEFINE st    == f[k]
               after == f[k + 1]
    <2>1. IsState(nodes, st) /\ (~ st.error => Left(nodes, st) = N - k)
      BY <1>1, <1>7
    <2>2. after = DeleteTurn(nodes, st, n)
      <3>1. k + 1 \in 1..N /\ (k + 1) - 1 = k
        BY <1>1
      <3> QED
        BY <3>1, <1>5
    <2> HIDE DEF st, after
    <2>3. /\ IsState(nodes, after)
          /\ st.error => after = st
          /\ ~ st.error /\ ~ after.error /\ ~ Exhausted(nodes, st) => Left(nodes, after) = Left(nodes, st) - 1
      BY <2>1, <2>2, DeleteTurnFacts
    <2>4. ASSUME ~ after.error PROVE Left(nodes, after) = N - (k + 1)
      <3>1. ~ st.error
        BY <2>3, <2>4
      <3>2. Left(nodes, st) = N - k /\ N - k # 0
        BY <1>1, <2>1, <3>1
      <3>3. ~ Exhausted(nodes, st)
        BY <2>1, <3>2, StateTypes
      <3>4. Left(nodes, after) = Left(nodes, st) - 1
        BY <2>3, <2>4, <3>1, <3>3
      <3> QED
        BY <1>1, <3>2, <3>4
    <2> QED
      BY <2>3, <2>4 DEF after
  <1>8. Nat \subseteq S
    <2> HIDE DEF S
    <2> QED
      BY <1>6, <1>7, NatInductionOn
  <1>9. \A k \in 0..N : IsState(nodes, f[k]) /\ (~ f[k].error => Left(nodes, f[k]) = N - k)
    BY <1>1, <1>8
  <1> QED
    BY <1>3, <1>4, <1>5, <1>9

HashesOf(nodes) == [k \in 1..Len(nodes) |-> nodes[k].hash]

LEMMA HashUpSound ==
    ASSUME NEW nodes, IsList(nodes), NEW n, NEW done, done = HashUp(nodes, n, JoinDelete),
           ~ done.error
    PROVE  /\ IsList(done.roots)
           /\ \A L, D : AreTreesOf(done.roots, L) =>
                  /\ AreTreesOf(HashesOf(nodes), L)
                  /\ AreWithout(HashesOf(nodes), D) => AreWithout(done.roots, D)
  <1> DEFINE N == Len(nodes)
  <1>1. N \in Nat
    BY ListFacts
  <1>2. PICK f : /\ f[0] = StartState
                 /\ \A k \in 1..N : f[k] = DeleteTurn(nodes, f[k - 1], n)
                 /\ f[N] = done
                 /\ \A k \in 0..N : /\ IsState(nodes, f[k])
                                    /\ ~ f[k].error => Left(nodes, f[k]) = N - k
    <2> HIDE DEF N
    <2> QED
      BY HashUpTurns DEF N
  <1> DEFINE R == Len(done.roots)
             V(k) == View(nodes, f[k])
  <1>3. IsState(nodes, done) /\ Left(nodes, done) = 0
    BY <1>1, <1>2
  <1>4. IsList(done.roots) /\ R \in Nat
    BY <1>3, StateTypes DEF IsState
  <1>5. Keys(nodes, done) = {k \in Int : -R <= k /\ k < 0}
    <2>1. done.provided = N /\ done.computed = Len(done.parents) /\ Len(done.parents) \in Nat
      BY <1>3, StateTypes DEF Exhausted
    <2> QED
      BY <1>1, <1>4, <2>1 DEF Keys
  <1>6. \A k \in 1..R : -k \in DOMAIN V(N) /\ V(N)[-k] = done.roots[k]
    <2>1. \A k \in 1..R : -k \in Keys(nodes, done) /\ -k < 0 /\ -(-k) = k
      BY <1>4, <1>5
    <2>2. \A k \in 1..R : HashAt(nodes, done, -k) = done.roots[k]
      BY <2>1 DEF HashAt
    <2> QED
      BY <1>2, <2>1, <2>2, ViewFacts
  <1>7. \A k \in DOMAIN V(N) : -k \in 1..R /\ V(N)[k] = done.roots[-k]
    <2>1. \A k \in Keys(nodes, done) : -k \in 1..R /\ k < 0
      BY <1>4, <1>5
    <2>2. \A k \in Keys(nodes, done) : HashAt(nodes, done, k) = done.roots[-k]
      BY <2>1 DEF HashAt
    <2> QED
      BY <1>2, <2>1, <2>2, ViewFacts
  <1>8. V(0) = HashesOf(nodes)
    <2>1. Keys(nodes, StartState) = 1..N
      <3>1. Len(<<>>) = 0
        OBVIOUS
      <3> QED
        BY <1>1, <3>1 DEF Keys, StartState
    <2>2. \A k \in 1..N : HashAt(nodes, StartState, k) = nodes[k].hash
      BY <1>1 DEF HashAt
    <2> QED
      BY <1>2, <2>1, <2>2 DEF View, HashesOf
  <1>9. \A k \in 0..N : ~ f[k].error
    <2> DEFINE S == {j \in Nat : j <= N => ~ f[N - j].error}
    <2>1. 0 \in S
      BY <1>1, <1>2
    <2>2. ASSUME NEW j \in Nat, j \in S PROVE j + 1 \in S
      <3> SUFFICES ASSUME j + 1 <= N PROVE ~ f[N - (j + 1)].error
        OBVIOUS
      <3>1. ~ f[N - j].error
        BY <1>1, <2>2
      <3>2. N - j \in 1..N /\ N - (j + 1) = (N - j) - 1 /\ N - (j + 1) \in 0..N
        BY <1>1
      <3>3. f[N - j] = DeleteTurn(nodes, f[N - (j + 1)], n) /\ IsState(nodes, f[N - (j + 1)])
        BY <1>2, <3>2
      <3>4. f[N - (j + 1)].error => f[N - j] = f[N - (j + 1)]
        BY <3>3, DeleteTurnFacts
      <3> QED
        BY <3>1, <3>4
    <2>3. Nat \subseteq S
      <3> HIDE DEF S
      <3> QED
        BY <2>1, <2>2, NatInductionOn
    <2>4. \A k \in 0..N : N - k \in Nat /\ N - k <= N /\ N - (N - k) = k
      BY <1>1
    <2> QED
      BY <2>3, <2>4
  <1>10. ASSUME NEW k \in 1..N
         PROVE  \E a, b, c : Moves(V(k - 1), V(k), a, c) \/ Merges(V(k - 1), V(k), a, b, c)
    <2>1. k \in 0..N /\ k - 1 \in 0..N /\ N - (k - 1) # 0
      BY <1>1
    <2>2. ~ Exhausted(nodes, f[k - 1])
      <3>1. Left(nodes, f[k - 1]) # 0 /\ IsState(nodes, f[k - 1])
        BY <1>2, <1>9, <2>1
      <3> QED
        BY <3>1, StateTypes
    <2>3. IsState(nodes, f[k - 1]) /\ f[k] = DeleteTurn(nodes, f[k - 1], n)
      BY <1>2, <2>1
    <2> QED
      BY <1>9, <2>1, <2>2, <2>3, DeleteTurnFacts
  <1> HIDE DEF V, R
  <1>11. ASSUME NEW L, NEW D, AreTreesOf(done.roots, L)
         PROVE  /\ AreTreesOf(HashesOf(nodes), L)
                /\ AreWithout(HashesOf(nodes), D) => AreWithout(done.roots, D)
    <2>1. AreTreesOf(V(N), L)
      <3>1. DOMAIN done.roots = 1..R
        BY <1>4, ListFacts DEF R
      <3>2. \A k \in DOMAIN V(N) : k \in Int
        BY ViewFacts DEF V
      <3> DEFINE m == [k \in DOMAIN V(N) |-> -k]
      <3>3. \A k, j \in DOMAIN V(N) : m[k] = m[j] => k = j
        BY <3>2
      <3>4. \A k \in DOMAIN V(N) : m[k] \in DOMAIN done.roots /\ V(N)[k] = done.roots[m[k]]
        BY <1>7, <3>1
      <3> HIDE DEF m
      <3> QED
        BY <1>11, <3>3, <3>4, RekeyedTrees
    <2>2. \A k \in 0..N : AreTreesOf(V(k), L)
      <3> DEFINE S == {j \in Nat : j <= N => AreTreesOf(V(N - j), L)}
      <3>1. 0 \in S
        <4>1. N - 0 = N
          BY <1>1
        <4> QED
          BY <2>1, <4>1
      <3>2. ASSUME NEW j \in Nat, j \in S PROVE j + 1 \in S
        <4> SUFFICES ASSUME j + 1 <= N PROVE AreTreesOf(V(N - (j + 1)), L)
          OBVIOUS
        <4> DEFINE k == N - j
        <4>1. k \in 1..N /\ N - (j + 1) = k - 1
          BY <1>1
        <4>2. AreTreesOf(V(k), L)
          BY <1>1, <3>2
        <4> HIDE DEF k
        <4>3. AreTreesOf(V(k - 1), L)
          BY <1>10, <4>1, <4>2, MovedTrees, MergedTrees
        <4> QED
          BY <4>1, <4>3
      <3>3. Nat \subseteq S
        <4> HIDE DEF S
        <4> QED
          BY <3>1, <3>2, NatInductionOn
      <3>4. \A k \in 0..N : N - k \in Nat /\ N - k <= N /\ N - (N - k) = k
        BY <1>1
      <3> QED
        BY <3>3, <3>4
    <2>3. AreTreesOf(HashesOf(nodes), L)
      <3>1. 0 \in 0..N
        BY <1>1
      <3> QED
        BY <1>8, <2>2, <3>1
    <2>4. ASSUME AreWithout(HashesOf(nodes), D) PROVE AreWithout(done.roots, D)
      <3> DEFINE S == {k \in Nat : k <= N => AreWithout(V(k), D)}
      <3>1. 0 \in S
        BY <1>8, <2>4
      <3>2. ASSUME NEW k \in Nat, k \in S PROVE k + 1 \in S
        <4> SUFFICES ASSUME k + 1 <= N PROVE AreWithout(V(k + 1), D)
          OBVIOUS
        <4>1. k + 1 \in 1..N /\ (k + 1) - 1 = k /\ k + 1 \in 0..N
          BY <1>1
        <4>2. AreWithout(V(k), D) /\ AreTreesOf(V(k + 1), L)
          BY <1>1, <2>2, <3>2, <4>1
        <4>3. \E a, b, c : Moves(V(k), V(k + 1), a, c) \/ Merges(V(k), V(k + 1), a, b, c)
          BY <1>10, <4>1
        <4> QED
          BY <4>2, <4>3, MovedTrees, MergedTrees
      <3>3. Nat \subseteq S
        <4> HIDE DEF S
        <4> QED
          BY <3>1, <3>2, NatInductionOn
      <3>4. AreWithout(V(N), D)
        BY <1>1, <3>3
      <3>5. DOMAIN done.roots = 1..R
        BY <1>4, ListFacts DEF R
      <3> HIDE DEF S
      <3> QED
        BY <1>6, <3>4, <3>5 DEF AreWithout
    <2> QED
      BY <2>3, <2>4
  <1> QED
    BY <1>4, <1>11
-----------------------------------------------------------------------------
(***************************************************************************)
(* Matching the computed roots with those of the accumulator: if nothing is*)
(* left over, each is a root of its own.                                   *)
(***************************************************************************)
IsReplacing(f, rs, computed) ==
    f = [k \in 0..Len(rs) |-> IF k = 0 THEN [left |-> computed, roots |-> <<>>]
                                 ELSE MatchRoot(f[k - 1], rs[k])]

LEMMA ReplacingExists ==
    ASSUME NEW rs, Len(rs) \in Nat, NEW computed PROVE \E f : IsReplacing(f, rs, computed)
  <1> DEFINE start == [left |-> computed, roots |-> <<>>]
             Fits(f, m) == f = [k \in 0..m |-> IF k = 0 THEN start ELSE MatchRoot(f[k - 1], rs[k])]
             S == {m \in Nat : \E f : Fits(f, m)}
  <1> HIDE DEF start
  <1>1. 0 \in S
    <2>1. Fits([k \in 0..0 |-> start], 0)
      OBVIOUS
    <2> QED
      BY <2>1
  <1>2. ASSUME NEW m \in Nat, m \in S PROVE m + 1 \in S
    <2>1. PICK g : Fits(g, m)
      BY <1>2
    <2> DEFINE f == [k \in 0..(m + 1) |-> IF k = m + 1 THEN MatchRoot(g[m], rs[m + 1]) ELSE g[k]]
    <2>2. \A k \in 0..m : f[k] = g[k]
      OBVIOUS
    <2>3. ASSUME NEW k \in 0..(m + 1)
          PROVE  f[k] = IF k = 0 THEN start ELSE MatchRoot(f[k - 1], rs[k])
      <3>1. CASE k = m + 1
        <4>1. k # 0 /\ k - 1 = m /\ m \in 0..m
          BY <3>1
        <4>2. f[k] = MatchRoot(g[m], rs[m + 1])
          BY <3>1
        <4> QED
          BY <4>1, <4>2, <3>1, <2>2
      <3>2. CASE k # m + 1
        <4>1. k \in 0..m /\ (k # 0 => k - 1 \in 0..m)
          BY <3>2
        <4>2. g[k] = IF k = 0 THEN start ELSE MatchRoot(g[k - 1], rs[k])
          BY <4>1, <2>1
        <4> HIDE DEF f
        <4> QED
          BY <4>1, <4>2, <2>2
      <3> QED
        BY <3>1, <3>2
    <2>4. f = [k \in 0..(m + 1) |-> f[k]]
      OBVIOUS
    <2> HIDE DEF f
    <2>5. Fits(f, m + 1)
      BY <2>3, <2>4
    <2> QED
      BY <2>5
  <1>3. Nat \subseteq S
    <2> HIDE DEF S
    <2> QED
      BY <1>1, <1>2, NatInductionOn
  <1>4. PICK f : Fits(f, Len(rs))
    BY <1>3
  <1> QED
    BY <1>4 DEF IsReplacing, start

\* After k roots: q is the root that a computed root was matched with, 0 if
\* none, and e says which are left.
IsMatching(q, e, st, k, rs, computed) ==
    /\ st = [left |-> st.left, roots |-> st.roots]
    /\ IsList(st.left) /\ IsList(st.roots) /\ Len(st.roots) = k
    /\ q \in [1..Len(computed) -> 0..k]
    /\ e \in [1..Len(st.left) -> 1..Len(computed)]
    /\ \A i, j \in 1..Len(st.left) : e[i] = e[j] => i = j
    /\ \A j \in 1..Len(st.left) : q[e[j]] = 0 /\ st.left[j] = computed[e[j]]
    /\ \A c \in 1..Len(computed) : q[c] = 0 => \E j \in 1..Len(st.left) : e[j] = c
    /\ \A c \in 1..Len(computed) : q[c] # 0 =>
           rs[q[c]] = computed[c].old /\ st.roots[q[c]] = computed[c].new
    /\ \A c, d \in 1..Len(computed) : q[c] = q[d] /\ q[c] # 0 => c = d
    /\ \A i \in 1..k : (\A c \in 1..Len(computed) : q[c] # i) => st.roots[i] = rs[i]

LEMMA MatchRootStep ==
    ASSUME NEW rs, NEW computed, IsList(computed), NEW k \in Nat,
           NEW q, NEW e, NEW st, IsMatching(q, e, st, k, rs, computed)
    PROVE  \E p, d : IsMatching(p, d, MatchRoot(st, rs[k + 1]), k + 1, rs, computed)
  <1> DEFINE root  == rs[k + 1]
             C     == Len(computed)
             hits  == {i \in 1..Len(st.left) : st.left[i].old = root}
             after == MatchRoot(st, root)
  <1>1. C \in Nat /\ Len(st.left) \in Nat /\ Len(st.roots) = k /\ IsList(st.left) /\ IsList(st.roots)
    BY ListFacts DEF IsMatching
  <1>2. /\ q \in [1..C -> 0..k] /\ e \in [1..Len(st.left) -> 1..C]
        /\ \A i, j \in 1..Len(st.left) : e[i] = e[j] => i = j
        /\ \A j \in 1..Len(st.left) : q[e[j]] = 0 /\ st.left[j] = computed[e[j]]
        /\ \A c \in 1..C : q[c] = 0 => \E j \in 1..Len(st.left) : e[j] = c
        /\ \A c \in 1..C : q[c] # 0 =>
               rs[q[c]] = computed[c].old /\ st.roots[q[c]] = computed[c].new
        /\ \A c, d \in 1..C : q[c] = q[d] /\ q[c] # 0 => c = d
        /\ \A i \in 1..k : (\A c \in 1..C : q[c] # i) => st.roots[i] = rs[i]
    BY DEF IsMatching
  <1>3. \A i \in 0..k : i \in 0..(k + 1) /\ i # k + 1 /\ (i # 0 => i \in 1..k)
    OBVIOUS
  <1>4. \A i \in 1..(k + 1) : i # k + 1 => i \in 1..k
    OBVIOUS
  <1>5. CASE hits = {}
    <2> DEFINE longer == Append(st.roots, root)
    <2>1. after = [left |-> st.left, roots |-> longer]
      <3>1. after = [st EXCEPT !.roots = Append(@, root)]
        BY <1>5 DEF MatchRoot
      <3>2. ASSUME NEW x PROVE [st EXCEPT !.roots = x] = [left |-> st.left, roots |-> x]
        BY DEF IsMatching
      <3> QED
        BY <3>1, <3>2
    <2>2. /\ IsList(longer) /\ Len(longer) = k + 1 /\ longer[k + 1] = root
          /\ \A i \in 1..k : longer[i] = st.roots[i]
      BY <1>1, ListAppend
    <2> HIDE DEF after, longer, root, hits, C
    <2>3. after.left = st.left /\ after.roots = longer /\ after = [left |-> after.left, roots |-> after.roots]
      BY <2>1
    <2>4. q \in [1..C -> 0..(k + 1)]
      BY <1>2, <1>3
    <2>5. \A c \in 1..C : q[c] # 0 =>
              rs[q[c]] = computed[c].old /\ longer[q[c]] = computed[c].new
      BY <1>2, <1>3, <2>2
    <2>6. \A i \in 1..(k + 1) : (\A c \in 1..C : q[c] # i) => longer[i] = rs[i]
      BY <1>2, <1>4, <2>2 DEF root
    <2>7. IsMatching(q, e, after, k + 1, rs, computed)
      BY <1>1, <1>2, <2>2, <2>3, <2>4, <2>5, <2>6 DEF IsMatching, C
    <2> QED
      BY <2>7 DEF after, root
  <1>6. CASE hits # {}
    <2> DEFINE pos == CHOOSE i \in hits : \A j \in hits : i <= j
               a   == e[pos]
               shorter == RemoveAt(st.left, pos)
               longer  == Append(st.roots, st.left[pos].new)
               L   == Len(st.left)
               p   == [c \in 1..C |-> IF c = a THEN k + 1 ELSE q[c]]
               d   == [i \in 1..(L - 1) |-> e[Shifted(i, pos)]]
    <2>1. pos \in hits
      <3>1. hits \subseteq Nat
        OBVIOUS
      <3> HIDE DEF hits
      <3>2. \E i \in hits : \A j \in hits : i <= j
        BY <1>6, <3>1, LeastNumber
      <3> QED
        BY <3>2
    <2>2. after = [left |-> shorter, roots |-> longer]
      BY <1>6 DEF MatchRoot
    <2> HIDE DEF pos, after
    <2>3. pos \in 1..L /\ st.left[pos].old = root
      BY <2>1
    <2>4. a \in 1..C /\ q[a] = 0 /\ st.left[pos] = computed[a]
      BY <1>2, <2>3
    <2>5. IsList(shorter) /\ Len(shorter) = L - 1 /\ \A i \in 1..(L - 1) : shorter[i] = st.left[Shifted(i, pos)]
      BY <1>1, <2>3, ListRemove
    <2>6. /\ IsList(longer) /\ Len(longer) = k + 1 /\ longer[k + 1] = computed[a].new
          /\ \A i \in 1..k : longer[i] = st.roots[i]
      <3> DEFINE new == st.left[pos].new
      <3>1. new = computed[a].new
        BY <2>4
      <3> HIDE DEF new
      <3>2. /\ IsList(Append(st.roots, new)) /\ Len(Append(st.roots, new)) = Len(st.roots) + 1
            /\ Append(st.roots, new)[Len(st.roots) + 1] = new
            /\ \A i \in 1..Len(st.roots) : Append(st.roots, new)[i] = st.roots[i]
        BY <1>1, ListAppend
      <3>3. longer = Append(st.roots, new)
        BY DEF new
      <3> HIDE DEF longer
      <3> QED
        BY <1>1, <3>1, <3>2, <3>3
    <2> HIDE DEF shorter, longer, root, hits, C
    <2>7. /\ after.left = shorter /\ after.roots = longer
          /\ after = [left |-> after.left, roots |-> after.roots]
      BY <2>2
    <2>8. L \in Nat /\ L - 1 \in Nat /\ L = (L - 1) + 1
      BY <1>1, <2>3
    <2>9. /\ \A i \in 1..(L - 1) : Shifted(i, pos) \in 1..L /\ Shifted(i, pos) # pos
          /\ \A i, j \in 1..(L - 1) : Shifted(i, pos) = Shifted(j, pos) => i = j
          /\ \A c \in 1..L : c # pos => \E i \in 1..(L - 1) : Shifted(i, pos) = c
      <3> DEFINE m == L - 1
      <3> HIDE DEF L
      <3>1. m \in Nat /\ L = m + 1
        BY <2>8
      <3>2. pos \in 1..(m + 1)
        BY <2>3, <3>1
      <3> HIDE DEF m
      <3>3. /\ \A i \in 1..m : Shifted(i, pos) \in 1..(m + 1) /\ Shifted(i, pos) # pos
            /\ \A i, j \in 1..m : Shifted(i, pos) = Shifted(j, pos) => i = j
            /\ \A c \in 1..(m + 1) : c # pos => \E i \in 1..m : Shifted(i, pos) = c
        BY <3>1, <3>2, ShiftedFacts
      <3> QED
        BY <3>1, <3>3 DEF m
    <2> HIDE DEF a, L
    <2>10. \A i \in 1..(L - 1) : d[i] = e[Shifted(i, pos)] /\ d[i] \in 1..C /\ d[i] # a
      BY <1>2, <2>3, <2>9 DEF a, L
    <2>11. p[a] = k + 1 /\ \A c \in 1..C : c # a => p[c] = q[c] /\ q[c] # k + 1
      BY <1>2, <1>3, <2>4
    <2>12. p \in [1..C -> 0..(k + 1)]
      BY <1>2, <1>3
    <2>13. d \in [1..(L - 1) -> 1..C]
      BY <2>10
    <2>14. \A c \in 1..C : p[c] = IF c = a THEN k + 1 ELSE q[c]
      OBVIOUS
    <2> HIDE DEF p, d
    <2>15. \A i, j \in 1..(L - 1) : d[i] = d[j] => i = j
      BY <1>2, <2>9, <2>10 DEF L
    <2>16. \A j \in 1..(L - 1) : p[d[j]] = 0 /\ shorter[j] = computed[d[j]]
      <3> SUFFICES ASSUME NEW j \in 1..(L - 1) PROVE p[d[j]] = 0 /\ shorter[j] = computed[d[j]]
        OBVIOUS
      <3>1. d[j] = e[Shifted(j, pos)] /\ d[j] \in 1..C /\ d[j] # a
        BY <2>10
      <3>2. Shifted(j, pos) \in 1..Len(st.left)
        BY <2>9 DEF L
      <3>3. q[d[j]] = 0 /\ st.left[Shifted(j, pos)] = computed[d[j]]
        BY <1>2, <3>1, <3>2
      <3>4. p[d[j]] = q[d[j]]
        BY <2>11, <3>1
      <3> QED
        BY <2>5, <3>3, <3>4
    <2>17. ASSUME NEW c \in 1..C, p[c] = 0 PROVE \E j \in 1..(L - 1) : d[j] = c
      <3>1. k + 1 # 0
        OBVIOUS
      <3>2. c # a /\ q[c] = 0
        BY <2>11, <2>17, <3>1
      <3>3. PICK j \in 1..L : e[j] = c
        BY <1>2, <3>2 DEF L
      <3>4. j # pos
        BY <3>2, <3>3 DEF a
      <3>5. PICK i \in 1..(L - 1) : Shifted(i, pos) = j
        BY <2>9, <3>4
      <3> QED
        BY <2>10, <3>3, <3>5
    <2>18. ASSUME NEW c \in 1..C, p[c] # 0
           PROVE  rs[p[c]] = computed[c].old /\ longer[p[c]] = computed[c].new
      <3>1. CASE c = a
        BY <3>1, <2>3, <2>4, <2>6, <2>11 DEF root
      <3>2. CASE c # a
        <4>1. p[c] = q[c] /\ q[c] # 0 /\ q[c] \in 1..k
          BY <3>2, <1>2, <1>3, <2>11, <2>18
        <4> QED
          BY <4>1, <1>2, <2>6
      <3> QED
        BY <3>1, <3>2
    <2>19. \A c, b \in 1..C : p[c] = p[b] /\ p[c] # 0 => c = b
      BY <1>2, <2>11
    <2>20. ASSUME NEW i \in 1..(k + 1), \A c \in 1..C : p[c] # i PROVE longer[i] = rs[i]
      <3>1. i # k + 1
        BY <2>4, <2>11, <2>20
      <3>2. i \in 1..k /\ i # 0
        BY <3>1, <1>4
      <3>3. \A c \in 1..C : q[c] # i
        BY <2>4, <2>11, <2>20, <3>2
      <3> QED
        BY <1>2, <2>6, <3>2, <3>3
    <2>21. Len(after.left) = L - 1 /\ IsList(after.left) /\ IsList(after.roots) /\ Len(after.roots) = k + 1
      BY <2>5, <2>6, <2>7
    <2>22. IsMatching(p, d, after, k + 1, rs, computed)
      BY <2>7, <2>12, <2>13, <2>15, <2>16, <2>17, <2>18, <2>19, <2>20, <2>21 DEF IsMatching, C
    <2> QED
      BY <2>22 DEF after, root
  <1> QED
    BY <1>5, <1>6

LEMMA ReplaceRootsMatches ==
    ASSUME NEW rs, IsList(rs), NEW computed, IsList(computed)
    PROVE  \E q, e : IsMatching(q, e, ReplaceRoots(rs, computed), Len(rs), rs, computed)
  <1> DEFINE K == Len(rs)
             C == Len(computed)
             f == CHOOSE g : IsReplacing(g, rs, computed)
             S == {k \in Nat : k <= K => \E q, e : IsMatching(q, e, f[k], k, rs, computed)}
  <1>1. K \in Nat /\ C \in Nat
    BY ListFacts
  <1>2. IsReplacing(f, rs, computed)
    BY <1>1, ReplacingExists
  <1>3. ReplaceRoots(rs, computed) = f[K]
    BY DEF ReplaceRoots, IsReplacing
  <1> HIDE DEF f
  <1>4. f[0] = [left |-> computed, roots |-> <<>>]
    BY <1>1, <1>2 DEF IsReplacing
  <1>5. \A k \in 1..K : f[k] = MatchRoot(f[k - 1], rs[k])
    BY <1>1, <1>2 DEF IsReplacing
  <1>6. 0 \in S
    <2> DEFINE q == [c \in 1..C |-> 0]
               e == [c \in 1..C |-> c]
    <2>1. <<>> \in Seq({}) /\ Len(<<>>) = 0
      OBVIOUS
    <2>2. IsList(<<>>)
      BY <2>1, ListOf
    <2>3. f[0].left = computed /\ f[0].roots = <<>> /\ f[0] = [left |-> f[0].left, roots |-> f[0].roots]
      BY <1>4
    <2>4. q \in [1..C -> 0..0] /\ e \in [1..C -> 1..C] /\ \A c \in 1..C : q[c] = 0 /\ e[c] = c
      OBVIOUS
    <2> HIDE DEF q, e
    <2>5. \A i \in 1..0 : FALSE
      OBVIOUS
    <2>6. IsMatching(q, e, f[0], 0, rs, computed)
      BY <2>1, <2>2, <2>3, <2>4, <2>5 DEF IsMatching, C
    <2> QED
      BY <2>6
  <1>7. ASSUME NEW k \in Nat, k \in S PROVE k + 1 \in S
    <2> SUFFICES ASSUME k + 1 <= K PROVE \E q, e : IsMatching(q, e, f[k + 1], k + 1, rs, computed)
      OBVIOUS
    <2>1. PICK q, e : IsMatching(q, e, f[k], k, rs, computed)
      BY <1>1, <1>7
    <2>2. f[k + 1] = MatchRoot(f[k], rs[k + 1])
      <3>1. k + 1 \in 1..K /\ (k + 1) - 1 = k
        BY <1>1
      <3> QED
        BY <3>1, <1>5
    <2>3. \E p, d : IsMatching(p, d, MatchRoot(f[k], rs[k + 1]), k + 1, rs, computed)
      BY <2>1, MatchRootStep
    <2> QED
      BY <2>2, <2>3
  <1>8. Nat \subseteq S
    <2> HIDE DEF S
    <2> QED
      BY <1>6, <1>7, NatInductionOn
  <1> QED
    BY <1>1, <1>3, <1>8

\* Each computed root is another root, q says which, and puts its new value
\* there; the other roots stay.
TakesRoots(q, rs, computed, after) ==
    /\ q \in [1..Len(computed) -> 1..Len(rs)]
    /\ \A c, d \in 1..Len(computed) : q[c] = q[d] => c = d
    /\ \A c \in 1..Len(computed) : rs[q[c]] = computed[c].old /\ after[q[c]] = computed[c].new
    /\ \A i \in 1..Len(rs) : (\A c \in 1..Len(computed) : q[c] # i) => after[i] = rs[i]

LEMMA ReplaceRootsSound ==
    ASSUME NEW rs, IsList(rs), NEW computed, IsList(computed),
           NEW done, done = ReplaceRoots(rs, computed), done.left = <<>>
    PROVE  /\ IsList(done.roots) /\ Len(done.roots) = Len(rs)
           /\ \E q : TakesRoots(q, rs, computed, done.roots)
  <1>1. PICK q, e : IsMatching(q, e, done, Len(rs), rs, computed)
    BY ReplaceRootsMatches
  <1>2. Len(done.left) = 0 /\ Len(rs) \in Nat
    <2>1. Len(<<>>) = 0
      OBVIOUS
    <2> QED
      BY <2>1, ListFacts
  <1>3. \A c \in 1..Len(computed) : q[c] # 0
    <2>1. \A c \in 1..Len(computed) : q[c] = 0 => \E j \in 1..Len(done.left) : e[j] = c
      BY <1>1 DEF IsMatching
    <2>2. \A j \in 1..Len(done.left) : FALSE
      BY <1>2
    <2> QED
      BY <2>1, <2>2
  <1>4. q \in [1..Len(computed) -> 0..Len(rs)]
    BY <1>1 DEF IsMatching
  <1>5. \A i \in 0..Len(rs) : i # 0 => i \in 1..Len(rs)
    BY <1>2
  <1>6. q \in [1..Len(computed) -> 1..Len(rs)]
    BY <1>3, <1>4, <1>5
  <1>7. IsList(done.roots) /\ Len(done.roots) = Len(rs)
    BY <1>1 DEF IsMatching
  <1>8. \A c, d \in 1..Len(computed) : q[c] = q[d] => c = d
    BY <1>1, <1>3 DEF IsMatching
  <1>9. \A c \in 1..Len(computed) : rs[q[c]] = computed[c].old /\ done.roots[q[c]] = computed[c].new
    BY <1>1, <1>3 DEF IsMatching
  <1>10. \A i \in 1..Len(rs) : (\A c \in 1..Len(computed) : q[c] # i) => done.roots[i] = rs[i]
    BY <1>1 DEF IsMatching
  <1>11. TakesRoots(q, rs, computed, done.roots)
    BY <1>6, <1>8, <1>9, <1>10 DEF TakesRoots
  <1> QED
    BY <1>7, <1>11
-----------------------------------------------------------------------------
(***************************************************************************)
(* The nodes that a proof provides.                                        *)
(***************************************************************************)
LEMMA ImageIsFinite ==
    ASSUME NEW S, IsFiniteSet(S), NEW f, f = [x \in S |-> f[x]]
    PROVE  IsFiniteSet({f[x] : x \in S})
  <1> DEFINE T == {f[x] : x \in S}
  <1>1. f \in [S -> T]
    OBVIOUS
  <1>2. \A t \in T : \E s \in S : f[s] = t
    OBVIOUS
  <1> HIDE DEF T
  <1>3. f \in Surjection(S, T)
    BY <1>1, <1>2 DEF Surjection
  <1>4. IsFiniteSet(T)
    BY <1>3, FS_Surjection
  <1> QED
    BY <1>4 DEF T

ClimbUp(S, n, rows) == S \cup {Parent(p, rows) : p \in {q \in S : ~ IsRootPosition(q, n, rows)}}

IsClimbing(f, targets, n, rows) ==
    f = [k \in 0..(rows + 1) |-> IF k = 0 THEN targets ELSE ClimbUp(f[k - 1], n, rows)]

LEMMA ClimbingExists ==
    ASSUME NEW targets, NEW n, NEW rows \in Nat PROVE \E f : IsClimbing(f, targets, n, rows)
  <1> DEFINE Fits(f, m) == f = [k \in 0..m |-> IF k = 0 THEN targets ELSE ClimbUp(f[k - 1], n, rows)]
             S == {m \in Nat : \E f : Fits(f, m)}
  <1>1. 0 \in S
    <2>1. Fits([k \in 0..0 |-> targets], 0)
      OBVIOUS
    <2> QED
      BY <2>1
  <1>2. ASSUME NEW m \in Nat, m \in S PROVE m + 1 \in S
    <2>1. PICK g : Fits(g, m)
      BY <1>2
    <2> DEFINE f == [k \in 0..(m + 1) |-> IF k = m + 1 THEN ClimbUp(g[m], n, rows) ELSE g[k]]
    <2>2. \A k \in 0..m : f[k] = g[k]
      OBVIOUS
    <2>3. ASSUME NEW k \in 0..(m + 1)
          PROVE  f[k] = IF k = 0 THEN targets ELSE ClimbUp(f[k - 1], n, rows)
      <3>1. CASE k = m + 1
        <4>1. k # 0 /\ k - 1 = m /\ m \in 0..m
          BY <3>1
        <4>2. f[k] = ClimbUp(g[m], n, rows)
          BY <3>1
        <4> QED
          BY <4>1, <4>2, <3>1, <2>2
      <3>2. CASE k # m + 1
        <4>1. k \in 0..m /\ (k # 0 => k - 1 \in 0..m)
          BY <3>2
        <4>2. g[k] = IF k = 0 THEN targets ELSE ClimbUp(g[k - 1], n, rows)
          BY <4>1, <2>1
        <4> HIDE DEF f
        <4> QED
          BY <4>1, <4>2, <2>2
      <3> QED
        BY <3>1, <3>2
    <2>4. f = [k \in 0..(m + 1) |-> f[k]]
      OBVIOUS
    <2> HIDE DEF f
    <2>5. Fits(f, m + 1)
      BY <2>3, <2>4
    <2> QED
      BY <2>5
  <1>3. Nat \subseteq S
    <2> HIDE DEF S
    <2> QED
      BY <1>1, <1>2, NatInductionOn
  <1>4. rows + 1 \in Nat
    OBVIOUS
  <1>5. PICK f : Fits(f, rows + 1)
    BY <1>3, <1>4
  <1> QED
    BY <1>5 DEF IsClimbing

LEMMA ClimbIsFinite ==
    ASSUME NEW S, IsFiniteSet(S), NEW n, NEW rows
    PROVE  IsFiniteSet(ClimbUp(S, n, rows))
  <1> DEFINE below == {q \in S : ~ IsRootPosition(q, n, rows)}
             f == [p \in below |-> Parent(p, rows)]
             above == {f[p] : p \in below}
  <1>1. below \subseteq S
    OBVIOUS
  <1>2. IsFiniteSet(below)
    BY <1>1, FS_Subset
  <1> HIDE DEF below
  <1>3. f = [p \in below |-> f[p]] /\ \A p \in below : f[p] = Parent(p, rows)
    OBVIOUS
  <1> HIDE DEF f
  <1>4. IsFiniteSet(above)
    BY <1>2, <1>3, ImageIsFinite
  <1>5. ClimbUp(S, n, rows) = S \cup above
    BY <1>3 DEF ClimbUp, below
  <1> HIDE DEF above
  <1> QED
    BY <1>4, <1>5, FS_Union

LEMMA ComputedPositionsAreFinite ==
    ASSUME NEW targets, IsFiniteSet(targets), NEW n, NEW rows \in Nat
    PROVE  IsFiniteSet(ComputedPositions(targets, n, rows))
  <1> DEFINE f == CHOOSE g : IsClimbing(g, targets, n, rows)
             S == {k \in Nat : k <= rows + 1 => IsFiniteSet(f[k])}
  <1>1. IsClimbing(f, targets, n, rows)
    BY ClimbingExists
  <1>2. ComputedPositions(targets, n, rows) = f[rows + 1]
    BY DEF ComputedPositions, IsClimbing, ClimbUp
  <1> HIDE DEF f
  <1>3. f[0] = targets
    BY <1>1 DEF IsClimbing
  <1>4. \A k \in 1..(rows + 1) : f[k] = ClimbUp(f[k - 1], n, rows)
    BY <1>1 DEF IsClimbing
  <1>5. 0 \in S
    BY <1>3
  <1>6. ASSUME NEW k \in Nat, k \in S PROVE k + 1 \in S
    <2> SUFFICES ASSUME k + 1 <= rows + 1 PROVE IsFiniteSet(f[k + 1])
      OBVIOUS
    <2>1. k + 1 \in 1..(rows + 1) /\ (k + 1) - 1 = k /\ k <= rows + 1
      OBVIOUS
    <2>2. IsFiniteSet(f[k])
      BY <1>6, <2>1
    <2>3. f[k + 1] = ClimbUp(f[k], n, rows)
      BY <1>4, <2>1
    <2> QED
      BY <2>2, <2>3, ClimbIsFinite
  <1>7. Nat \subseteq S
    <2> HIDE DEF S
    <2> QED
      BY <1>5, <1>6, NatInductionOn
  <1>8. rows + 1 \in Nat
    OBVIOUS
  <1> QED
    BY <1>2, <1>7, <1>8

LEMMA AscendingIsList ==
    ASSUME NEW S, IsFiniteSet(S) PROVE IsList(Ascending(S))
  <1> DEFINE s == Ascending(S)
  <1>1. Cardinality(S) \in Nat
    BY FS_CardinalityType
  <1> DEFINE At(i) == CHOOSE x \in S : Cardinality({y \in S : y < x}) = i - 1
  <1>2. s = [i \in 1..Cardinality(S) |-> At(i)]
    BY Zenon DEF Ascending
  <1> HIDE DEF s, At
  <1>3. s = [i \in 1..Cardinality(S) |-> s[i]]
    BY ONLY <1>2
  <1>4. IsList(s)
    BY <1>1, <1>3, ListBuilt
  <1> QED
    BY <1>4 DEF s

\* The proof positions of finitely many targets are a list.
LEMMA NeededAreFinite ==
    ASSUME NEW T, IsFiniteSet(T), NEW n \in Nat, NEW rows \in Nat
    PROVE  IsFiniteSet(ProofPositionSet(T, n, rows))
  <1> DEFINE C == ComputedPositions(T, n, rows)
             below == {q \in C : ~ IsRootPosition(q, n, rows)}
             g == [p \in below |-> Sibling(p)]
             P == {g[p] : p \in below} \ C
  <1>1. IsFiniteSet(C)
    BY ComputedPositionsAreFinite
  <1>2. ProofPositionSet(T, n, rows) = P
    BY DEF ProofPositionSet
  <1> HIDE DEF C
  <1>3. IsFiniteSet(P)
    <2>1. IsFiniteSet(below)
      BY <1>1, FS_Subset
    <2>2. g = [p \in below |-> g[p]]
      OBVIOUS
    <2> HIDE DEF g, below
    <2>3. IsFiniteSet({g[p] : p \in below})
      BY <2>1, <2>2, ImageIsFinite
    <2> QED
      BY <2>3, FS_Difference
  <1> QED
    BY <1>2, <1>3

LEMMA NeededAreListed ==
    ASSUME NEW T, IsFiniteSet(T), NEW n \in Nat, NEW rows \in Nat
    PROVE  IsList(GetProofPositions(T, n, rows))
  BY NeededAreFinite, AscendingIsList DEF GetProofPositions

LEMMA ProofPositionsAreListed ==
    ASSUME NEW proof, IsList(proof.targets), NEW n \in Nat, n <= 2^MaxForestRows
    PROVE  IsList(ProofPositionsOf(proof, n))
  <1> DEFINE rows == TreeRows(n)
             N == Len(proof.targets)
             f == [i \in 1..N |-> Translate(proof.targets[i], MaxForestRows, rows)]
             T == {f[i] : i \in 1..N}
  <1>1. rows \in Nat /\ N \in Nat
    BY TreeRowsFacts, ListFacts
  <1>2. T = {Translate(proof.targets[i], MaxForestRows, TreeRows(n)) : i \in 1..Len(proof.targets)}
    OBVIOUS
  <1>3. IsFiniteSet(T)
    <2>0. 1 \in Int /\ N \in Int
      BY <1>1
    <2> HIDE DEF N
    <2>1. IsFiniteSet(1..N)
      BY <2>0, FS_Interval
    <2>2. f = [i \in 1..N |-> f[i]]
      OBVIOUS
    <2> HIDE DEF f
    <2> QED
      BY <2>1, <2>2, ImageIsFinite
  <1> HIDE DEF T, rows
  <1>4. IsList(GetProofPositions(T, n, rows))
    BY <1>1, <1>3, NeededAreListed
  <1> QED
    BY <1>2, <1>4 DEF ProofPositionsOf, rows

LEMMA ZipFacts ==
    ASSUME NEW positions, IsList(positions), NEW hashes, IsList(hashes)
    PROVE  /\ IsList(Zip2(positions, hashes))
           /\ Len(Zip2(positions, hashes)) <= Len(hashes)
           /\ Len(positions) = Len(hashes) => Len(Zip2(positions, hashes)) = Len(hashes)
           /\ \A i \in 1..Len(Zip2(positions, hashes)) : Zip2(positions, hashes)[i].hash = hashes[i]
  <1> DEFINE m == Min({Len(positions), Len(hashes)})
             z == Zip2(positions, hashes)
  <1>1. Len(positions) \in Nat /\ Len(hashes) \in Nat
    BY ListFacts
  <1>2. m \in Nat /\ m <= Len(hashes) /\ (Len(positions) = Len(hashes) => m = Len(hashes))
    <2> DEFINE S == {Len(positions), Len(hashes)}
    <2>1. \E x \in S : \A y \in S : x =< y
      BY <1>1
    <2>2. m \in S /\ \A y \in S : m <= y
      BY <2>1 DEF Min
    <2> QED
      BY <1>1, <2>2
  <1> HIDE DEF m
  <1>3. z = [i \in 1..m |-> [pos |-> positions[i], hash |-> hashes[i]]]
    BY DEF Zip2, m
  <1> HIDE DEF z
  <1>4. \A i \in 1..m : z[i].hash = hashes[i]
    BY <1>3
  <1>5. IsList(z) /\ Len(z) = m
    BY <1>2, <1>3, ListBuilt
  <1> QED
    BY <1>2, <1>4, <1>5 DEF z
-----------------------------------------------------------------------------
(***************************************************************************)
(* modify, with any proof.                                                 *)
(***************************************************************************)
\* Whole trees without a common leaf.
IsForest(rs) ==
    /\ IsList(rs)
    /\ \A i \in 1..Len(rs) : rs[i] \in WholeTrees
    /\ \A i, j \in 1..Len(rs) : i # j => LeafSets[rs[i]] \cap LeafSets[rs[j]] = {}

LEMMA DeletionIsForest ==
    ASSUME NEW rs, IsForest(rs), NEW D
    PROVE  /\ IsForest(Deletion(rs, D)) /\ Len(Deletion(rs, D)) = Len(rs)
           /\ \A i \in 1..Len(rs) : /\ Deletion(rs, D)[i] = Without(rs[i], D)
                                    /\ LeafSets[Deletion(rs, D)[i]] = LeafSets[rs[i]] \ D
           /\ Members(Deletion(rs, D)) = Members(rs) \ D
  <1> DEFINE ds == Deletion(rs, D)
  <1>1. Len(rs) \in Nat /\ \A i \in 1..Len(rs) : rs[i] \in WholeTrees
    BY ListFacts DEF IsForest
  <1>2. ds = [i \in 1..Len(rs) |-> ds[i]] /\ \A i \in 1..Len(rs) : ds[i] = Without(rs[i], D)
    BY DEF Deletion
  <1> HIDE DEF ds
  <1>3. IsList(ds) /\ Len(ds) = Len(rs)
    BY <1>1, <1>2, ListBuilt
  <1>4. \A i \in 1..Len(rs) : ds[i] \in WholeTrees /\ LeafSets[ds[i]] = LeafSets[rs[i]] \ D
    <2>1. \A t \in WholeTrees : Without(t, D) \in WholeTrees /\ LeafSets[Without(t, D)] = LeafSets[t] \ D
      BY WithoutIsWhole
    <2> QED
      BY <1>1, <1>2, <2>1
  <1>5. \A i, j \in 1..Len(rs) : i # j => LeafSets[ds[i]] \cap LeafSets[ds[j]] = {}
    <2>1. \A i, j \in 1..Len(rs) : i # j => LeafSets[rs[i]] \cap LeafSets[rs[j]] = {}
      BY DEF IsForest
    <2> QED
      BY <1>4, <2>1
  <1>6. IsForest(ds)
    BY <1>3, <1>4, <1>5 DEF IsForest
  <1>7. Members(ds) = Members(rs) \ D
    BY <1>3, <1>4 DEF Members, LeavesOf
  <1> QED
    BY <1>2, <1>3, <1>4, <1>6, <1>7 DEF ds

\* Nothing is deleted.
LEMMA DeletionOfNone ==
    ASSUME NEW rs, IsForest(rs)
    PROVE  Deletion(rs, {}) = rs
  <1>1. Len(rs) \in Nat /\ rs = [i \in 1..Len(rs) |-> rs[i]]
    BY ListFacts DEF IsForest
  <1>2. \A i \in 1..Len(rs) : Without(rs[i], {}) = rs[i]
    <2>1. \A t : LeafSets[t] \cap {} = {}
      OBVIOUS
    <2> QED
      BY <2>1, WithoutOthers DEF IsForest
  <1> QED
    BY <1>1, <1>2 DEF Deletion

\* The roots that are computed are roots, each another one, and become what
\* they would without the leaves of D; the other roots have no leaf of D.
LEMMA ReplacedByDeletion ==
    ASSUME NEW rs, IsForest(rs), NEW computed, IsList(computed),
           NEW done, done = ReplaceRoots(rs, computed), done.left = <<>>,
           NEW D, AreWithout(computed, D),
           D \subseteq UNION {LeafSets[computed[c].old] : c \in 1..Len(computed)}
    PROVE  /\ done.roots = Deletion(rs, D)
           /\ D \subseteq Members(rs)
  <1> DEFINE C == Len(computed)
             K == Len(rs)
             ds == Deletion(rs, D)
  <1>0. IsList(rs)
    BY DEF IsForest
  <1>a. IsList(done.roots) /\ Len(done.roots) = Len(rs) /\ \E q : TakesRoots(q, rs, computed, done.roots)
    BY <1>0, ReplaceRootsSound
  <1>1. PICK q \in [1..C -> 1..K] :
            /\ \A c, d \in 1..C : q[c] = q[d] => c = d
            /\ \A c \in 1..C : rs[q[c]] = computed[c].old /\ done.roots[q[c]] = computed[c].new
            /\ \A i \in 1..K : (\A c \in 1..C : q[c] # i) => done.roots[i] = rs[i]
    BY <1>a DEF TakesRoots
  <1>2. IsList(done.roots) /\ Len(done.roots) = K /\ K \in Nat /\ C \in Nat
    BY <1>0, <1>a, ListFacts
  <1>3. \A c \in 1..C : computed[c].new = Without(computed[c].old, D)
    BY <1>2, ListFacts DEF AreWithout
  <1>4. ds = [i \in 1..K |-> ds[i]] /\ \A i \in 1..K : ds[i] = Without(rs[i], D)
    BY DEF Deletion
  <1> HIDE DEF ds, C, K
  <1>5. IsList(ds) /\ Len(ds) = K
    BY <1>2, <1>4, ListBuilt
  <1>6. \A i \in 1..K : rs[i] \in WholeTrees
    BY DEF IsForest, K
  <1>7. \A i, j \in 1..K : i # j => LeafSets[rs[i]] \cap LeafSets[rs[j]] = {}
    BY DEF IsForest, K
  <1>8. ASSUME NEW d \in D PROVE \E c \in 1..C : d \in LeafSets[rs[q[c]]]
    <2>1. PICK c \in 1..C : d \in LeafSets[computed[c].old]
      BY DEF C
    <2> QED
      BY <1>1, <2>1
  <1>9. ASSUME NEW i \in 1..K PROVE done.roots[i] = ds[i]
    <2>1. CASE \E c \in 1..C : q[c] = i
      BY <2>1, <1>1, <1>3, <1>4
    <2>2. CASE \A c \in 1..C : q[c] # i
      <3>1. LeafSets[rs[i]] \cap D = {}
        <4> SUFFICES ASSUME NEW d \in D, d \in LeafSets[rs[i]] PROVE FALSE
          OBVIOUS
        <4>1. PICK c \in 1..C : d \in LeafSets[rs[q[c]]]
          BY <1>8
        <4>2. q[c] \in 1..K /\ q[c] # i
          BY <1>1, <2>2
        <4> QED
          BY <4>1, <4>2, <1>7
      <3>2. Without(rs[i], D) = rs[i]
        BY <1>6, <3>1, WithoutOthers
      <3>3. done.roots[i] = rs[i]
        BY <1>1, <2>2
      <3> QED
        BY <1>4, <3>2, <3>3
    <2> QED
      BY <2>1, <2>2
  <1>10. done.roots = ds
    BY <1>2, <1>5, <1>9, ListEqual
  <1>11. D \subseteq Members(rs)
    <2> SUFFICES ASSUME NEW d \in D PROVE d \in Members(rs)
      OBVIOUS
    <2>1. PICK c \in 1..C : d \in LeafSets[rs[q[c]]]
      BY <1>8
    <2>2. q[c] \in 1..K
      BY <1>1
    <2> QED
      BY <2>1, <2>2 DEF Members, LeavesOf, K
  <1> QED
    BY <1>10, <1>11 DEF ds

\* The nodes that the loop is given: the targets, which go, and the proof's
\* hashes, which stay.
Provided(hashes, raw) ==
    /\ IsList(raw) /\ Len(hashes) <= Len(raw)
    /\ \A i \in 1..Len(hashes) : raw[i].hash.old = hashes[i] /\ raw[i].hash.new = Empty
    /\ \A i \in (Len(hashes) + 1)..Len(raw) : raw[i].hash.new = raw[i].hash.old

LEMMA ProofProvides ==
    ASSUME NEW hashes, IsList(hashes), NEW where, IsList(where), Len(where) = Len(hashes),
           NEW pairs, IsList(pairs), Len(pairs) = Len(hashes),
           \A i \in 1..Len(hashes) : pairs[i].old = hashes[i] /\ pairs[i].new = Empty,
           NEW positions, IsList(positions),
           NEW kept, IsList(kept), \A i \in 1..Len(kept) : kept[i].new = kept[i].old
    PROVE  Provided(hashes, Zip2(where, pairs) \o Zip2(positions, kept))
  <1> DEFINE N == Len(hashes)
             a == Zip2(where, pairs)
             b == Zip2(positions, kept)
             raw == a \o b
  <1>1. N \in Nat
    BY ListFacts
  <1>6. IsList(a) /\ Len(a) = N /\ \A i \in 1..N : a[i].hash = pairs[i]
    <2>1. /\ IsList(Zip2(where, pairs))
          /\ Len(where) = Len(pairs) => Len(Zip2(where, pairs)) = Len(pairs)
          /\ \A i \in 1..Len(Zip2(where, pairs)) : Zip2(where, pairs)[i].hash = pairs[i]
      BY ZipFacts
    <2> QED
      BY <2>1
  <1>7. /\ IsList(b) /\ Len(b) \in Nat /\ Len(b) <= Len(kept)
        /\ \A i \in 1..Len(b) : b[i].hash = kept[i]
    <2>1. IsList(b) /\ Len(b) <= Len(kept) /\ \A i \in 1..Len(b) : b[i].hash = kept[i]
      BY ZipFacts
    <2> HIDE DEF b
    <2> QED
      BY <2>1, ListFacts
  <1> HIDE DEF a, b
  <1>8. /\ IsList(raw) /\ Len(raw) = Len(a) + Len(b)
        /\ \A i \in 1..(Len(a) + Len(b)) : raw[i] = IF i <= Len(a) THEN a[i] ELSE b[i - Len(a)]
    BY <1>6, <1>7, ListConcat
  <1> HIDE DEF raw
  <1>9. Len(raw) = N + Len(b) /\ N <= Len(raw)
    BY <1>1, <1>6, <1>7, <1>8
  <1>10. ASSUME NEW i \in 1..N PROVE raw[i].hash.old = hashes[i] /\ raw[i].hash.new = Empty
    <2>1. i \in 1..(Len(a) + Len(b)) /\ i <= Len(a)
      BY <1>1, <1>6, <1>7
    <2>2. raw[i] = a[i]
      BY <2>1, <1>8
    <2> QED
      BY <2>2, <1>6
  <1>11. ASSUME NEW i \in (N + 1)..Len(raw) PROVE raw[i].hash.new = raw[i].hash.old
    <2>1. i \in 1..(Len(a) + Len(b)) /\ ~ (i <= Len(a)) /\ i - Len(a) \in 1..Len(b)
      BY <1>1, <1>6, <1>7, <1>9
    <2>2. raw[i] = b[i - Len(a)]
      BY <2>1, <1>8
    <2> DEFINE j == i - Len(a)
    <2>3. Len(kept) \in Nat
      BY ListFacts
    <2>4. j \in 1..Len(b) /\ raw[i] = b[j]
      BY <2>1, <2>2
    <2> HIDE DEF j
    <2>5. j \in 1..Len(kept)
      BY <2>3, <2>4, <1>7
    <2>6. b[j].hash = kept[j]
      BY <2>4, <1>7
    <2>7. kept[j].new = kept[j].old
      BY <2>5
    <2> QED
      BY <2>4, <2>6, <2>7
  <1>12. Provided(hashes, raw)
    BY <1>8, <1>9, <1>10, <1>11 DEF Provided
  <1> QED
    BY <1>12 DEF raw, a, b

\* calculate_hashes_delete: if what it computes are trees of leaves L without
\* a common one, then the targets are such trees, and each computed tree
\* becomes what it would without the leaves of the targets.
LEMMA CalculatedWithout ==
    ASSUME NEW hashes, IsList(hashes), NEW raw, Provided(hashes, raw), NEW n,
           NEW nodes, nodes = SortNodes(raw),
           NEW done, done = HashUp(nodes, n, JoinDelete), ~ done.error,
           NEW L, AreTreesOf(done.roots, L)
    PROVE  Members(hashes) \subseteq L /\ AreWithout(done.roots, Members(hashes))
  <1> DEFINE N == Len(raw)
             T == Len(hashes)
             D == Members(hashes)
             H == HashesOf(nodes)
  <1>1. IsList(raw) /\ N \in Nat /\ T \in Nat /\ T <= N /\ D = UNION {LeafSets[hashes[i]] : i \in 1..T}
    BY ListFacts DEF Provided, Members, LeavesOf
  <1>2. PICK p : Arranges(p, N, raw, nodes)
    BY <1>1, SortNodesArranges
  <1>3. /\ IsList(nodes) /\ Len(nodes) = N
        /\ p \in [1..N -> 1..N]
        /\ \A i, j \in 1..N : p[i] = p[j] => i = j
        /\ \A j \in 1..N : \E i \in 1..N : p[i] = j
        /\ \A i \in 1..N : nodes[p[i]] = raw[i]
    BY <1>2 DEF Arranges
  <1>4. AreTreesOf(H, L) /\ (AreWithout(H, D) => AreWithout(done.roots, D))
    BY <1>3, HashUpSound
  <1>5. DOMAIN H = 1..N /\ \A i \in 1..N : H[p[i]] = raw[i].hash
    BY <1>3 DEF HashesOf
  <1> HIDE DEF H, D, N, T
  <1>6. ASSUME NEW i \in 1..T
        PROVE  i \in 1..N /\ p[i] \in DOMAIN H /\ H[p[i]].old = hashes[i] /\ H[p[i]].new = Empty
    <2>1. i \in 1..N
      BY <1>1
    <2>2. raw[i].hash.old = hashes[i] /\ raw[i].hash.new = Empty
      BY DEF Provided, T
    <2> QED
      BY <2>1, <2>2, <1>3, <1>5
  <1>7. D \subseteq L
    <2>1. ASSUME NEW i \in 1..T PROVE LeafSets[hashes[i]] \subseteq L
      BY <1>6, <1>4 DEF AreTreesOf
    <2> QED
      BY <2>1, <1>1
  <1>8. ASSUME NEW k \in DOMAIN H PROVE H[k].new = Without(H[k].old, D)
    <2>1. PICK i \in 1..N : p[i] = k
      BY <1>3, <1>5
    <2>2. H[k].old \in WholeTrees
      BY <1>4 DEF AreTreesOf
    <2>3. CASE i \in 1..T
      <3>1. H[k].old = hashes[i] /\ H[k].new = Empty
        BY <2>1, <2>3, <1>6
      <3>2. LeafSets[hashes[i]] \subseteq D
        BY <1>1, <2>3
      <3> QED
        BY <2>2, <3>1, <3>2, WithoutAll
    <2>4. CASE i \notin 1..T
      <3>1. i \in (T + 1)..N
        BY <2>4, <1>1
      <3>2. H[k].new = H[k].old
        <4>1. raw[i].hash.new = raw[i].hash.old
          BY <3>1 DEF Provided, T, N
        <4> QED
          BY <4>1, <2>1, <1>5
      <3>3. LeafSets[H[k].old] \cap D = {}
        <4> SUFFICES ASSUME NEW d \in D, d \in LeafSets[H[k].old] PROVE FALSE
          OBVIOUS
        <4>1. PICK j \in 1..T : d \in LeafSets[hashes[j]]
          BY <1>1
        <4>2. p[j] # k
          <5>1. j # i /\ j \in 1..N
            BY <2>4, <1>6
          <5> QED
            BY <5>1, <2>1, <1>3
        <4>3. p[j] \in DOMAIN H /\ d \in LeafSets[H[p[j]].old]
          BY <4>1, <1>6
        <4> QED
          BY <4>2, <4>3, <1>4 DEF AreTreesOf
      <3> QED
        BY <2>2, <3>2, <3>3, WithoutOthers
    <2> QED
      BY <2>3, <2>4
  <1>9. AreWithout(H, D)
    BY <1>8 DEF AreWithout
  <1> QED
    BY <1>4, <1>7, <1>9 DEF D

LEMMA CalculatedDeletion ==
    ASSUME NEW proof, NEW pairs, NEW n, NEW removed, removed = CalculateHashesDelete(proof, pairs, n),
           ~ removed.error,
           NEW done, done = HashUp(NodesToDelete(proof, pairs, n), n, JoinDelete)
    PROVE  Len(proof.targets) = Len(pairs) /\ ~ done.error /\ removed.roots = done.roots
  <1> DEFINE refused == Len(proof.targets) # Len(pairs) \/ done.error
  <1>1. /\ refused => removed = CalcError
        /\ ~ refused => removed.roots = done.roots
    BY DEF CalculateHashesDelete
  <1>2. CalcError.error
    BY DEF CalcError
  <1> QED
    BY <1>1, <1>2

LEMMA RemoveSound ==
    ASSUME NEW s, s.leaves \in Nat, s.leaves <= 2^MaxForestRows,
           NEW hashes, IsList(hashes), hashes # <<>>,
           NEW proof, IsList(proof.targets), IsList(proof.hashes),
           NEW removed, removed = StumpRemove(s, hashes, proof), ~ removed.error
    PROVE  /\ IsList(removed.roots)
           /\ \A L : AreTreesOf(removed.roots, L) =>
                  Members(hashes) \subseteq L /\ AreWithout(removed.roots, Members(hashes))
  <1> DEFINE n     == s.leaves
             pairs == [i \in 1..Len(hashes) |-> [old |-> hashes[i], new |-> Empty]]
             where == TranslatedTargets(proof, n)
             kept  == KeptHashes(proof)
             positions == ProofPositionsOf(proof, n)
             raw   == Zip2(where, pairs) \o Zip2(positions, kept)
             nodes == NodesToDelete(proof, pairs, n)
             done  == HashUp(nodes, n, JoinDelete)
  <1>1. IsList(hashes) /\ Len(hashes) \in Nat /\ Len(proof.targets) \in Nat /\ Len(proof.hashes) \in Nat
    BY ListFacts
  <1>2. IsList(positions)
    BY ProofPositionsAreListed
  <1>3. removed = CalculateHashesDelete(proof, pairs, n)
    BY DEF StumpRemove
  <1>4. IsList(where) /\ Len(where) = Len(proof.targets)
    <2>1. where = [i \in 1..Len(proof.targets) |-> where[i]]
      BY DEF TranslatedTargets
    <2> HIDE DEF where
    <2> QED
      BY <1>1, <2>1, ListBuilt
  <1>5. IsList(pairs) /\ Len(pairs) = Len(hashes)
        /\ \A i \in 1..Len(hashes) : pairs[i].old = hashes[i] /\ pairs[i].new = Empty
    <2>1. pairs = [i \in 1..Len(hashes) |-> pairs[i]]
      OBVIOUS
    <2>2. \A i \in 1..Len(hashes) : pairs[i].old = hashes[i] /\ pairs[i].new = Empty
      OBVIOUS
    <2> HIDE DEF pairs
    <2> QED
      BY <1>1, <2>1, <2>2, ListBuilt
  <1>6. IsList(kept) /\ \A i \in 1..Len(kept) : kept[i].new = kept[i].old
    <2>1. kept = [i \in 1..Len(proof.hashes) |-> kept[i]]
      BY DEF KeptHashes
    <2>2. \A i \in 1..Len(proof.hashes) : kept[i].new = kept[i].old
      BY DEF KeptHashes
    <2> HIDE DEF kept
    <2>3. IsList(kept) /\ Len(kept) = Len(proof.hashes)
      BY <1>1, <2>1, ListBuilt
    <2> QED
      BY <2>2, <2>3
  <1> HIDE DEF pairs
  <1>7. Len(proof.targets) = Len(pairs) /\ ~ done.error /\ removed.roots = done.roots
    BY <1>3, CalculatedDeletion
  <1>8. nodes = SortNodes(raw)
    BY DEF NodesToDelete
  <1> HIDE DEF where, kept, positions, nodes, n
  <1>9. Provided(hashes, raw)
    BY <1>1, <1>2, <1>4, <1>5, <1>6, <1>7, ProofProvides
  <1> HIDE DEF raw
  <1>10. IsList(nodes)
    <2>1. PICK p : Arranges(p, Len(raw), raw, SortNodes(raw))
      BY <1>9, SortNodesArranges DEF Provided
    <2> QED
      BY <2>1, <1>8 DEF Arranges
  <1>11. IsList(done.roots)
    BY <1>7, <1>10, HashUpSound
  <1>12. ASSUME NEW L, AreTreesOf(done.roots, L)
         PROVE  Members(hashes) \subseteq L /\ AreWithout(done.roots, Members(hashes))
    BY <1>7, <1>8, <1>9, <1>12, CalculatedWithout
  <1> HIDE DEF done
  <1> QED
    BY <1>7, <1>11, <1>12

\* The computed roots that are all found among a forest's are its trees.
LEMMA ComputedTrees ==
    ASSUME NEW rs, IsForest(rs), NEW computed, IsList(computed),
           NEW done, done = ReplaceRoots(rs, computed), done.left = <<>>
    PROVE  AreTreesOf(computed, UNION {LeafSets[computed[c].old] : c \in 1..Len(computed)})
  <1> DEFINE L == UNION {LeafSets[computed[c].old] : c \in 1..Len(computed)}
  <1>1. IsList(rs)
    BY DEF IsForest
  <1>2. \E q : TakesRoots(q, rs, computed, done.roots)
    BY <1>1, ReplaceRootsSound
  <1>3. PICK q \in [1..Len(computed) -> 1..Len(rs)] :
            /\ \A c, d \in 1..Len(computed) : q[c] = q[d] => c = d
            /\ \A c \in 1..Len(computed) : rs[q[c]] = computed[c].old
    BY <1>2 DEF TakesRoots
  <1>4. DOMAIN computed = 1..Len(computed)
    BY ListFacts
  <1>5. \A c \in 1..Len(computed) : computed[c].old \in WholeTrees
    BY <1>3 DEF IsForest
  <1>6. \A i, j \in 1..Len(rs) : i # j => LeafSets[rs[i]] \cap LeafSets[rs[j]] = {}
    BY DEF IsForest
  <1>7. ASSUME NEW c \in 1..Len(computed), NEW d \in 1..Len(computed), c # d
        PROVE  LeafSets[computed[c].old] \cap LeafSets[computed[d].old] = {}
    <2>1. q[c] # q[d] /\ q[c] \in 1..Len(rs) /\ q[d] \in 1..Len(rs)
      BY <1>3, <1>7
    <2>2. LeafSets[rs[q[c]]] \cap LeafSets[rs[q[d]]] = {}
      BY <1>6, <2>1
    <2> QED
      BY <2>2, <1>3
  <1>8. \A c \in 1..Len(computed) : LeafSets[computed[c].old] \subseteq L
    OBVIOUS
  <1> HIDE DEF L
  <1>9. AreTreesOf(computed, L)
    BY <1>4, <1>5, <1>7, <1>8 DEF AreTreesOf
  <1> QED
    BY <1>9 DEF L

\* Stump::modify accepts a block: then what it was asked to delete is there,
\* and its roots become what they are without it, before the new leaves come.
LEMMA ReplacedSound ==
    ASSUME NEW s, s.leaves \in Nat, s.leaves <= 2^MaxForestRows, IsForest(s.roots),
           NEW hashes, IsList(hashes),
           NEW proof, IsList(proof.targets), IsList(proof.hashes),
           NEW removed, removed = StumpRemove(s, hashes, proof), ~ removed.error,
           NEW done, done = ReplaceRoots(s.roots, removed.roots), done.left = <<>>
    PROVE  /\ Members(hashes) \subseteq Members(s.roots)
           /\ done.roots = Deletion(s.roots, Members(hashes))
  <1> DEFINE D == Members(hashes)
             rs == s.roots
             computed == removed.roots
  <1>1. IsList(rs) /\ Len(rs) \in Nat
    BY ListFacts DEF IsForest
  <1>4. CASE hashes = <<>>
    <2>1. D = {}
      <3>1. Len(<<>>) = 0
        OBVIOUS
      <3> QED
        BY <3>1, <1>4 DEF Members
    <2>2. computed = [i \in 1..Len(rs) |-> [old |-> rs[i], new |-> rs[i]]]
      BY <1>4 DEF StumpRemove
    <2> HIDE DEF computed
    <2>3. computed = [i \in 1..Len(rs) |-> computed[i]]
          /\ \A i \in 1..Len(rs) : computed[i].old = rs[i] /\ computed[i].new = rs[i]
      BY <2>2
    <2>4. IsList(computed) /\ Len(computed) = Len(rs)
      BY <1>1, <2>3, ListBuilt
    <2>5. AreWithout(computed, {})
      <3>1. \A t : LeafSets[t] \cap {} = {}
        OBVIOUS
      <3>2. \A i \in 1..Len(rs) : Without(rs[i], {}) = rs[i]
        BY <3>1, WithoutOthers DEF IsForest
      <3> QED
        BY <2>3, <2>4, <3>2, ListFacts DEF AreWithout
    <2>6. {} \subseteq UNION {LeafSets[computed[c].old] : c \in 1..Len(computed)}
      OBVIOUS
    <2> HIDE DEF rs, D
    <2>7. IsForest(rs) /\ done = ReplaceRoots(rs, computed)
      BY DEF rs, computed
    <2>8. done.roots = Deletion(rs, {}) /\ {} \subseteq Members(rs)
      BY <2>4, <2>5, <2>6, <2>7, ReplacedByDeletion
    <2> QED
      BY <2>1, <2>8 DEF D, rs
  <1>5. CASE hashes # <<>>
    <2> DEFINE L == UNION {LeafSets[computed[c].old] : c \in 1..Len(computed)}
    <2>1. /\ IsList(computed)
          /\ \A M : AreTreesOf(computed, M) => D \subseteq M /\ AreWithout(computed, D)
      BY <1>5, RemoveSound
    <2>2. AreTreesOf(computed, L)
      <3> HIDE DEF computed, rs, L
      <3>1. done = ReplaceRoots(rs, computed) /\ IsForest(rs)
        BY DEF rs, computed
      <3> QED
        BY <2>1, <3>1, ComputedTrees DEF L
    <2>3. D \subseteq L /\ AreWithout(computed, D)
      BY <2>1, <2>2
    <2> HIDE DEF rs, D, computed
    <2>4. IsForest(rs) /\ done = ReplaceRoots(rs, computed)
      BY DEF rs, computed
    <2>5. done.roots = Deletion(rs, D) /\ D \subseteq Members(rs)
      BY <2>1, <2>3, <2>4, ReplacedByDeletion
    <2> QED
      BY <2>5 DEF rs, D
  <1> QED
    BY <1>4, <1>5
-----------------------------------------------------------------------------
(***************************************************************************)
(* The heights of the roots: each fits in the row of its one bit.  A tower *)
(* of n at row b has a root of row b or lower at the end if n is odd, and  *)
(* what comes before it is a tower of n \div 2 at row b + 1.               *)
(***************************************************************************)
LEMMA OddOrEven == \A n \in Nat : n % 2 = 0 \/ n % 2 = 1
  OBVIOUS

AreTowers(W) ==
    \A rs, n, b : <<rs, n, b>> \in W =>
        /\ n = 0 => rs = <<>>
        /\ n % 2 = 1 => /\ Len(rs) > 0 /\ Height[rs[Len(rs)]] <= b
                        /\ <<SubSeq(rs, 1, Len(rs) - 1), n \div 2, b + 1>> \in W
        /\ n % 2 = 0 /\ n # 0 => <<rs, n \div 2, b + 1>> \in W

IsTower(rs, n, b) == \E W : AreTowers(W) /\ <<rs, n, b>> \in W

LEMMA TowerCases ==
    ASSUME NEW rs, NEW n, NEW b, IsTower(rs, n, b)
    PROVE  /\ n = 0 => rs = <<>>
           /\ n % 2 = 1 => /\ Len(rs) > 0 /\ Height[rs[Len(rs)]] <= b
                           /\ IsTower(SubSeq(rs, 1, Len(rs) - 1), n \div 2, b + 1)
           /\ n % 2 = 0 /\ n # 0 => IsTower(rs, n \div 2, b + 1)
  <1>1. PICK W : AreTowers(W) /\ <<rs, n, b>> \in W
    BY DEF IsTower
  <1>2. /\ n = 0 => rs = <<>>
        /\ n % 2 = 1 => /\ Len(rs) > 0 /\ Height[rs[Len(rs)]] <= b
                        /\ <<SubSeq(rs, 1, Len(rs) - 1), n \div 2, b + 1>> \in W
        /\ n % 2 = 0 /\ n # 0 => <<rs, n \div 2, b + 1>> \in W
    BY <1>1 DEF AreTowers
  <1> QED
    BY <1>1, <1>2 DEF IsTower

LEMMA TowerBuilt ==
    ASSUME NEW rs, NEW n, NEW b,
           n = 0 => rs = <<>>,
           n % 2 = 1 => /\ Len(rs) > 0 /\ Height[rs[Len(rs)]] <= b
                        /\ IsTower(SubSeq(rs, 1, Len(rs) - 1), n \div 2, b + 1),
           n % 2 = 0 /\ n # 0 => IsTower(rs, n \div 2, b + 1)
    PROVE  IsTower(rs, n, b)
  <1> DEFINE lower == <<SubSeq(rs, 1, Len(rs) - 1), n \div 2, b + 1>>
             same  == <<rs, n \div 2, b + 1>>
  <1>1. \E W : /\ AreTowers(W)
               /\ n % 2 = 1 => lower \in W
               /\ n % 2 = 0 /\ n # 0 => same \in W
    <2>1. CASE n % 2 = 1
      BY <2>1 DEF IsTower
    <2>2. CASE n % 2 = 0 /\ n # 0
      BY <2>2 DEF IsTower
    <2>3. CASE ~ (n % 2 = 1) /\ ~ (n % 2 = 0 /\ n # 0)
      <3>1. AreTowers({})
        BY DEF AreTowers
      <3> QED
        BY <2>3, <3>1
    <2> QED
      BY <2>1, <2>2, <2>3
  <1>2. PICK W : /\ AreTowers(W)
                 /\ n % 2 = 1 => lower \in W
                 /\ n % 2 = 0 /\ n # 0 => same \in W
    BY <1>1
  <1> DEFINE U == W \cup {<<rs, n, b>>}
  <1>3. AreTowers(U)
    <2> SUFFICES ASSUME NEW qs, NEW m, NEW c, <<qs, m, c>> \in U
                 PROVE  /\ m = 0 => qs = <<>>
                        /\ m % 2 = 1 => /\ Len(qs) > 0 /\ Height[qs[Len(qs)]] <= c
                                        /\ <<SubSeq(qs, 1, Len(qs) - 1), m \div 2, c + 1>> \in U
                        /\ m % 2 = 0 /\ m # 0 => <<qs, m \div 2, c + 1>> \in U
      BY DEF AreTowers
    <2>1. CASE <<qs, m, c>> \in W
      BY <2>1, <1>2 DEF AreTowers
    <2>2. CASE <<qs, m, c>> = <<rs, n, b>>
      <3>1. qs = rs /\ m = n /\ c = b
        BY <2>2
      <3> QED
        BY <3>1, <1>2
    <2> QED
      BY <2>1, <2>2
  <1> QED
    BY <1>3 DEF IsTower

LEMMA TowerEmpty == ASSUME NEW b PROVE IsTower(<<>>, 0, b)
  <1> DEFINE rs == <<>>
             n == 0
  <1>1. n = 0 /\ n % 2 = 0 /\ rs = <<>>
    OBVIOUS
  <1> HIDE DEF n, rs
  <1>2. IsTower(rs, n, b)
    BY <1>1, TowerBuilt
  <1> QED
    BY <1>1, <1>2

LEMMA TowerOdd ==
    ASSUME NEW n, n % 2 = 1, n # 0, NEW half, half = n \div 2, NEW rs, Len(rs) > 0,
           NEW b, Height[rs[Len(rs)]] <= b,
           IsTower(SubSeq(rs, 1, Len(rs) - 1), half, b + 1)
    PROVE  IsTower(rs, n, b)
  <1>1. ~ (n % 2 = 0)
    OBVIOUS
  <1> QED
    BY <1>1, TowerBuilt

LEMMA TowerEven ==
    ASSUME NEW n, n % 2 = 0, n # 0, NEW half, half = n \div 2, NEW rs,
           NEW b, IsTower(rs, half, b + 1)
    PROVE  IsTower(rs, n, b)
  <1>1. ~ (n % 2 = 1)
    OBVIOUS
  <1> QED
    BY <1>1, TowerBuilt

\* A tower has a root for each trailing one bit.
LEMMA TowerOnes ==
    ASSUME NEW n \in Nat, NEW rs, IsList(rs), NEW b, IsTower(rs, n, b)
    PROVE  TrailingOnes[n] <= Len(rs)
  <1> DEFINE S == {m \in Nat : \A qs, c : IsList(qs) /\ IsTower(qs, m, c) => TrailingOnes[m] <= Len(qs)}
  <1>1. ASSUME NEW m \in Nat, \A k \in Nat : k < m => k \in S PROVE m \in S
    <2> SUFFICES ASSUME NEW qs, NEW c, IsList(qs), IsTower(qs, m, c) PROVE TrailingOnes[m] <= Len(qs)
      OBVIOUS
    <2>0. Len(qs) \in Nat
      BY ListFacts
    <2>1. CASE m % 2 = 0
      <3>1. TrailingOnes[m] = 0
        BY <2>1, TrailingOnesFacts
      <3> QED
        BY <2>0, <3>1
    <2>2. CASE m % 2 = 1
      <3> DEFINE front == SubSeq(qs, 1, Len(qs) - 1)
      <3>1. Len(qs) > 0 /\ IsTower(front, m \div 2, c + 1)
        BY <2>2, TowerCases
      <3>2. IsList(front) /\ Len(front) = Len(qs) - 1
        BY <3>1, ListFront
      <3>3. m \div 2 \in Nat /\ m \div 2 < m
        BY <2>2
      <3> HIDE DEF front
      <3>4. TrailingOnes[m \div 2] <= Len(front)
        BY <1>1, <3>1, <3>2, <3>3
      <3>5. TrailingOnes[m] = 1 + TrailingOnes[m \div 2] /\ TrailingOnes[m \div 2] \in Nat
        BY <2>2, <3>3, TrailingOnesFacts
      <3> QED
        BY <2>0, <3>2, <3>4, <3>5
    <2> QED
      BY <2>1, <2>2, OddOrEven
  <1>2. Nat \subseteq S
    <2> HIDE DEF S
    <2> QED
      BY <1>1, StrongInductionOn
  <1> QED
    BY <1>2

\* A tower whose trees do not get higher stays one.
LEMMA TowerSame ==
    ASSUME NEW n \in Nat, NEW rs, IsList(rs), NEW b \in Nat, IsTower(rs, n, b),
           NEW after, IsList(after), Len(after) = Len(rs),
           \A i \in 1..Len(rs) : /\ Height[rs[i]] \in Nat /\ Height[after[i]] \in Nat
                                 /\ Height[after[i]] <= Height[rs[i]]
    PROVE  IsTower(after, n, b)
  <1> DEFINE Lower(qs, as) ==
                 /\ IsList(qs) /\ IsList(as) /\ Len(as) = Len(qs)
                 /\ \A i \in 1..Len(qs) : /\ Height[qs[i]] \in Nat /\ Height[as[i]] \in Nat
                                          /\ Height[as[i]] <= Height[qs[i]]
             S == {m \in Nat : \A qs, as : \A c \in Nat :
                                   IsTower(qs, m, c) /\ Lower(qs, as) => IsTower(as, m, c)}
  <1>1. ASSUME NEW m \in Nat, \A k \in Nat : k < m => k \in S PROVE m \in S
    <2> SUFFICES ASSUME NEW qs, NEW as, NEW c \in Nat, IsTower(qs, m, c), Lower(qs, as)
                 PROVE  IsTower(as, m, c)
      OBVIOUS
    <2>0. Len(qs) \in Nat
      BY ListFacts
    <2>1. m = 0 => as = <<>>
      <3> SUFFICES ASSUME m = 0 PROVE as = <<>>
        OBVIOUS
      <3>1. qs = <<>>
        BY TowerCases
      <3>2. Len(qs) = 0
        BY <3>1
      <3>3. Len(as) = 0 /\ IsList(as)
        BY <3>2
      <3> QED
        BY <3>3 DEF IsList
    <2>2. ASSUME m % 2 = 1
          PROVE  Len(as) > 0 /\ Height[as[Len(as)]] <= c
                 /\ IsTower(SubSeq(as, 1, Len(as) - 1), m \div 2, c + 1)
      <3>1. Len(qs) > 0 /\ Height[qs[Len(qs)]] <= c
            /\ IsTower(SubSeq(qs, 1, Len(qs) - 1), m \div 2, c + 1)
        BY <2>2, TowerCases
      <3>2. Len(qs) \in 1..Len(qs)
        BY <2>0, <3>1
      <3>3. Len(as) > 0 /\ Height[as[Len(as)]] <= c
        <4>1. Height[as[Len(qs)]] <= Height[qs[Len(qs)]]
              /\ Height[as[Len(qs)]] \in Nat /\ Height[qs[Len(qs)]] \in Nat
          BY <3>2
        <4>2. Len(as) = Len(qs)
          OBVIOUS
        <4>3. Height[as[Len(qs)]] <= c
          <5> DEFINE x == Height[as[Len(qs)]]
                     y == Height[qs[Len(qs)]]
          <5>1. x <= y /\ x \in Nat /\ y \in Nat /\ y <= c
            BY <4>1, <3>1
          <5> HIDE DEF x, y
          <5>2. x <= c
            BY <5>1
          <5> QED
            BY <5>2 DEF x
        <4> QED
          BY <4>2, <4>3, <3>1
      <3> DEFINE qf == SubSeq(qs, 1, Len(qs) - 1)
                 af == SubSeq(as, 1, Len(as) - 1)
      <3>4. IsList(qf) /\ Len(qf) = Len(qs) - 1 /\ \A i \in 1..(Len(qs) - 1) : qf[i] = qs[i]
        BY <3>1, ListFront
      <3>5. IsList(af) /\ Len(af) = Len(as) - 1 /\ \A i \in 1..(Len(as) - 1) : af[i] = as[i]
        BY <3>3, ListFront
      <3> HIDE DEF qf, af
      <3>6. Lower(qf, af)
        <4>0. Len(as) = Len(qs)
          OBVIOUS
        <4>1. \A i \in 1..Len(qf) : i \in 1..Len(qs) /\ qf[i] = qs[i] /\ af[i] = as[i]
          <5>1. Len(qf) = Len(qs) - 1 /\ \A i \in 1..(Len(qs) - 1) : i \in 1..Len(qs)
            BY <2>0, <3>4
          <5>2. \A i \in 1..(Len(qs) - 1) : af[i] = as[i]
            BY <3>5, <4>0
          <5> QED
            BY <3>4, <5>1, <5>2
        <4>2. Len(af) = Len(qf)
          BY <3>4, <3>5
        <4> QED
          BY <4>1, <4>2, <3>4, <3>5
      <3>7. m \div 2 \in Nat /\ m \div 2 < m /\ c + 1 \in Nat
        BY <2>2
      <3> HIDE DEF Lower
      <3>8. IsTower(af, m \div 2, c + 1)
        BY <3>1, <3>6, <3>7, <1>1 DEF qf
      <3> QED
        BY <3>3, <3>8 DEF af
    <2>3. ASSUME m % 2 = 0, m # 0 PROVE IsTower(as, m \div 2, c + 1)
      <3>1. IsTower(qs, m \div 2, c + 1)
        BY <2>3, TowerCases
      <3>2. m \div 2 \in Nat /\ m \div 2 < m /\ c + 1 \in Nat
        BY <2>3
      <3> HIDE DEF Lower
      <3> QED
        BY <3>1, <3>2, <1>1
    <2> HIDE DEF Lower, S
    <2> QED
      BY <2>1, <2>2, <2>3, TowerBuilt
  <1>2. Nat \subseteq S
    <2> HIDE DEF S
    <2> QED
      BY <1>1, StrongInductionOn
  <1>3. Lower(rs, after)
    OBVIOUS
  <1> HIDE DEF Lower
  <1> QED
    BY <1>2, <1>3

\* The height of a whole tree, and of what remains of it.
LEMMA WholeHeights == \A t \in WholeTrees : t \in Trees /\ Height[t] \in 0..MaxHeight /\ Height[t] \in Nat
  BY WholeTreesAreWhole, HeightFacts, MaxHeightAssumption

LEMMA TowerDeletion ==
    ASSUME NEW n \in Nat, NEW rs, IsForest(rs), NEW b \in Nat, IsTower(rs, n, b), NEW D
    PROVE  IsTower(Deletion(rs, D), n, b)
  <1> DEFINE after == Deletion(rs, D)
  <1>1. /\ IsForest(after) /\ Len(after) = Len(rs)
        /\ \A i \in 1..Len(rs) : after[i] = Without(rs[i], D)
    BY DeletionIsForest
  <1> HIDE DEF after
  <1>2. IsList(rs) /\ IsList(after) /\ \A i \in 1..Len(rs) : rs[i] \in WholeTrees /\ after[i] \in WholeTrees
    BY <1>1 DEF IsForest
  <1>3. ASSUME NEW i \in 1..Len(rs)
        PROVE  /\ Height[rs[i]] \in Nat /\ Height[after[i]] \in Nat
               /\ Height[after[i]] <= Height[rs[i]]
    <2>1. rs[i] \in WholeTrees /\ after[i] \in WholeTrees /\ after[i] = Without(rs[i], D)
      BY <1>1, <1>2
    <2>2. Height[Without(rs[i], D)] <= Height[rs[i]]
      BY <2>1, WithoutIsWhole
    <2> QED
      BY <2>1, <2>2, WholeHeights
  <1>4. IsTower(after, n, b)
    BY <1>1, <1>2, <1>3, TowerSame
  <1> QED
    BY <1>4 DEF after
-----------------------------------------------------------------------------
(***************************************************************************)
(* A tree that joins a forest.                                             *)
(***************************************************************************)
LEMMA ForestIsOfTrees ==
    ASSUME NEW rs, IsForest(rs) PROVE IsList(rs) /\ Len(rs) \in Nat /\ rs \in Seq(TreesUpTo[MaxHeight])
  <1>1. IsList(rs) /\ \A i \in 1..Len(rs) : rs[i] \in TreesUpTo[MaxHeight]
    BY WholeTreesAreWhole DEF IsForest, Trees
  <1>2. Len(rs) \in Nat /\ rs = [i \in 1..Len(rs) |-> rs[i]]
    BY <1>1, ListFacts
  <1>3. rs \in [1..Len(rs) -> TreesUpTo[MaxHeight]]
    BY <1>1, <1>2
  <1> QED
    BY <1>1, <1>2, <1>3

LEMMA JoinedIsWhole ==
    ASSUME NEW l \in WholeTrees, NEW r \in WholeTrees, LeafSets[l] \cap LeafSets[r] = {},
           NEW c \in Nat, c + 1 <= MaxHeight, Height[l] <= c, Height[r] <= c
    PROVE  /\ Joined(l, r) \in WholeTrees
           /\ LeafSets[Joined(l, r)] = LeafSets[l] \cup LeafSets[r]
           /\ Height[Joined(l, r)] <= c + 1
  <1>1. l \in Trees /\ r \in Trees /\ Height[l] \in Nat /\ Height[r] \in Nat
        /\ l \in TreesUpTo[Height[l]] /\ r \in TreesUpTo[Height[r]]
    BY WholeHeights, HeightFacts
  <1>2. l \in TreesUpTo[c] /\ r \in TreesUpTo[c]
    BY <1>1, TreesGrow
  <1>3. CASE l = Empty
    <2>1. Joined(l, r) = r /\ LeafSets[l] = {}
      BY <1>3, LowFacts DEF Joined
    <2>2. Height[r] <= c + 1
      BY <1>1
    <2> QED
      BY <2>1, <2>2
  <1>4. CASE l # Empty /\ r = Empty
    <2>1. Joined(l, r) = l /\ LeafSets[r] = {}
      BY <1>4, LowFacts DEF Joined
    <2>2. Height[l] <= c + 1
      BY <1>1
    <2> QED
      BY <2>1, <2>2
  <1>5. CASE l # Empty /\ r # Empty
    <2>1. Joined(l, r) = ParentHash(l, r)
      BY <1>5 DEF Joined
    <2>2. ParentHash(l, r) \in TreesUpTo[c + 1] /\ c + 1 \in Nat /\ c + 1 \in 0..MaxHeight
      BY <1>2, PairTree, MaxHeightAssumption
    <2>3. ParentHash(l, r) \in Trees
      BY <2>2, TreesGrow, MaxHeightAssumption DEF Trees
    <2>4. ParentHash(l, r) \in WholeTrees
      BY <1>5, <2>3, PairIsWhole
    <2>5. Height[ParentHash(l, r)] <= c + 1
      BY <2>2, <2>3, HeightFacts
    <2>6. LeafSets[ParentHash(l, r)] = LeafSets[l] \cup LeafSets[r]
      BY <2>3, PairFacts
    <2> QED
      BY <2>1, <2>4, <2>5, <2>6
  <1> QED
    BY <1>3, <1>4, <1>5

LEMMA ForestAppend ==
    ASSUME NEW rs, IsForest(rs), NEW t \in WholeTrees, LeafSets[t] \cap Members(rs) = {}
    PROVE  IsForest(Append(rs, t)) /\ Members(Append(rs, t)) = Members(rs) \cup LeafSets[t]
  <1> DEFINE as == Append(rs, t)
             L == Len(rs)
  <1>1. IsList(as) /\ Len(as) = L + 1 /\ as[L + 1] = t /\ \A i \in 1..L : as[i] = rs[i]
    BY ListAppend DEF IsForest
  <1>2. L \in Nat
    BY ForestIsOfTrees
  <1>3. /\ \A i \in 1..L : rs[i] \in WholeTrees
        /\ \A i, j \in 1..L : i # j => LeafSets[rs[i]] \cap LeafSets[rs[j]] = {}
        /\ Members(rs) = UNION {LeafSets[rs[i]] : i \in 1..L}
    BY DEF IsForest, Members, LeavesOf
  <1> HIDE DEF as, L
  <1>4. \A i \in 1..(L + 1) : i \in 1..L \/ i = L + 1
    BY <1>2
  <1>5. \A i \in 1..L : i \in 1..(L + 1) /\ i # L + 1
    BY <1>2
  <1>6. \A i \in 1..(L + 1) : as[i] \in WholeTrees
    BY <1>1, <1>3, <1>4
  <1>7. \A i \in 1..L : LeafSets[rs[i]] \cap LeafSets[t] = {}
    BY <1>3
  <1>8. \A i, j \in 1..(L + 1) : i # j => LeafSets[as[i]] \cap LeafSets[as[j]] = {}
    BY <1>1, <1>3, <1>4, <1>7
  <1>9. IsForest(as)
    BY <1>1, <1>6, <1>8 DEF IsForest
  <1>10. L + 1 \in 1..(L + 1)
    BY <1>2
  <1>11. UNION {LeafSets[as[i]] : i \in 1..(L + 1)} = (UNION {LeafSets[rs[i]] : i \in 1..L}) \cup LeafSets[t]
    BY <1>1, <1>4, <1>5, <1>10
  <1>12. Members(as) = Members(rs) \cup LeafSets[t]
    BY <1>1, <1>3, <1>11 DEF Members, LeavesOf
  <1> QED
    BY <1>9, <1>12 DEF as

LEMMA ForestFront ==
    ASSUME NEW rs, IsForest(rs), Len(rs) > 0, NEW front, front = SubSeq(rs, 1, Len(rs) - 1),
           NEW last, last = rs[Len(rs)]
    PROVE  /\ IsForest(front) /\ last \in WholeTrees
           /\ Members(rs) = Members(front) \cup LeafSets[last]
           /\ Members(front) \cap LeafSets[last] = {}
  <1> DEFINE L == Len(rs)
             K == L - 1
  <1>1. IsList(front) /\ Len(front) = K /\ \A i \in 1..K : front[i] = rs[i]
    BY ListFront DEF IsForest
  <1>2. L \in Nat /\ K \in Nat /\ L = K + 1
    BY ForestIsOfTrees
  <1>3. /\ \A i \in 1..L : rs[i] \in WholeTrees
        /\ \A i, j \in 1..L : i # j => LeafSets[rs[i]] \cap LeafSets[rs[j]] = {}
        /\ Members(rs) = UNION {LeafSets[rs[i]] : i \in 1..L}
    BY DEF IsForest, Members, LeavesOf
  <1>0. last = rs[L]
    OBVIOUS
  <1> HIDE DEF L, K
  <1>4. \A i \in 1..L : i \in 1..K \/ i = L
    BY <1>2
  <1>5. \A i \in 1..K : i \in 1..L /\ i # L
    BY <1>2
  <1>6. L \in 1..L
    BY <1>2
  <1>7. IsForest(front)
    <2>1. \A i \in 1..K : front[i] \in WholeTrees
      BY <1>1, <1>3, <1>5
    <2>2. \A i, j \in 1..K : i # j => LeafSets[front[i]] \cap LeafSets[front[j]] = {}
      BY <1>1, <1>3, <1>5
    <2> QED
      BY <1>1, <2>1, <2>2 DEF IsForest
  <1>8. Members(front) = UNION {LeafSets[rs[i]] : i \in 1..K}
    BY <1>1 DEF Members, LeavesOf
  <1>9. UNION {LeafSets[rs[i]] : i \in 1..L} = (UNION {LeafSets[rs[i]] : i \in 1..K}) \cup LeafSets[rs[L]]
    BY <1>4, <1>5, <1>6
  <1>10. \A i \in 1..K : LeafSets[rs[i]] \cap LeafSets[rs[L]] = {}
    BY <1>3, <1>5, <1>6
  <1>11. Members(front) \cap LeafSets[last] = {}
    BY <1>0, <1>8, <1>10
  <1> QED
    BY <1>0, <1>3, <1>6, <1>7, <1>8, <1>9, <1>11

\* A tree t may join a forest of n leaves at row b, e rows below the highest.
MayJoin(rs, t, n, b, e) ==
    /\ IsForest(rs) /\ IsTower(rs, n, b)
    /\ b \in Nat /\ e \in Nat /\ b + e = MaxHeight + 1 /\ n + 1 < 2^e
    /\ t \in WholeTrees /\ Height[t] <= b /\ LeafSets[t] \cap Members(rs) = {}

HasJoined(after, rs, t, n, b) ==
    /\ IsForest(after) /\ IsTower(after, n + 1, b)
    /\ Members(after) = Members(rs) \cup LeafSets[t]

LEMMA TreeJoins ==
    ASSUME NEW n \in Nat, NEW rs, NEW t, NEW b, NEW e, MayJoin(rs, t, n, b, e)
    PROVE  HasJoined(JoinTree(rs, t, n), rs, t, n, b)
  <1> DEFINE S == {m \in Nat : \A qs, u, c, d : MayJoin(qs, u, m, c, d) =>
                                   HasJoined(JoinTree(qs, u, m), qs, u, m, c)}
  <1>1. ASSUME NEW m \in Nat, \A k \in Nat : k < m => k \in S PROVE m \in S
    <2> SUFFICES ASSUME NEW qs, NEW u, NEW c, NEW d, MayJoin(qs, u, m, c, d)
                 PROVE  HasJoined(JoinTree(qs, u, m), qs, u, m, c)
      OBVIOUS
    <2>1. /\ IsForest(qs) /\ IsTower(qs, m, c)
          /\ c \in Nat /\ d \in Nat /\ c + d = MaxHeight + 1 /\ m + 1 < 2^d
          /\ u \in WholeTrees /\ Height[u] <= c /\ LeafSets[u] \cap Members(qs) = {}
      BY DEF MayJoin
    <2>2. /\ qs \in Seq(TreesUpTo[MaxHeight]) /\ u \in TreesUpTo[MaxHeight] /\ IsList(qs)
          /\ Len(qs) \in Nat
      BY <2>1, ForestIsOfTrees, WholeHeights DEF Trees
    <2>3. CASE m % 2 = 0
      <3> DEFINE as == Append(qs, u)
      <3>1. JoinTree(qs, u, m) = as
        BY <2>2, <2>3, JoinTreeEven, MaxHeightAssumption
      <3>2. IsForest(as) /\ Members(as) = Members(qs) \cup LeafSets[u]
        BY <2>1, ForestAppend
      <3>3. IsList(as) /\ Len(as) = Len(qs) + 1 /\ as[Len(qs) + 1] = u
            /\ \A i \in 1..Len(qs) : as[i] = qs[i]
        BY <2>2, ListAppend
      <3> HIDE DEF as
      <3>4. SubSeq(as, 1, Len(as) - 1) = qs
        <4>1. Len(as) - 1 = Len(qs) /\ Len(as) > 0
          BY <2>2, <3>3
        <4>2. /\ IsList(SubSeq(as, 1, Len(as) - 1)) /\ Len(SubSeq(as, 1, Len(as) - 1)) = Len(as) - 1
              /\ \A i \in 1..(Len(as) - 1) : SubSeq(as, 1, Len(as) - 1)[i] = as[i]
          BY <3>3, <4>1, ListFront
        <4> DEFINE f == SubSeq(as, 1, Len(as) - 1)
        <4> HIDE DEF f
        <4>3. IsList(f) /\ Len(f) = Len(qs) /\ \A i \in 1..Len(f) : f[i] = qs[i]
          BY <3>3, <4>1, <4>2 DEF f
        <4>4. f = qs
          BY <2>2, <4>3, ListEqual
        <4> QED
          BY <4>4 DEF f
      <3>5. IsTower(qs, m \div 2, c + 1)
        <4>1. CASE m = 0
          <5>1. qs = <<>>
            BY <2>1, <4>1, TowerCases
          <5>2. m \div 2 = 0 /\ 0 % 2 = 0
            BY <4>1
          <5>3. IsTower(qs, 0, c + 1)
            BY <5>1, TowerEmpty
          <5> QED
            BY <5>2, <5>3
        <4>2. CASE m # 0
          BY <2>1, <2>3, <4>2, TowerCases
        <4> QED
          BY <4>1, <4>2
      <3>6. (m + 1) % 2 = 1 /\ (m + 1) \div 2 = m \div 2 /\ m + 1 # 0
        BY <2>3
      <3>7. Len(as) > 0 /\ Height[as[Len(as)]] <= c
        BY <2>1, <2>2, <3>3
      <3>8. IsTower(as, m + 1, c)
        <4> DEFINE odd == m + 1
                   half == m \div 2
        <4>1. odd % 2 = 1 /\ odd # 0 /\ half = odd \div 2 /\ IsTower(qs, half, c + 1)
          BY <3>5, <3>6
        <4> HIDE DEF odd, half
        <4>3. IsTower(SubSeq(as, 1, Len(as) - 1), half, c + 1)
          BY <3>4, <4>1
        <4>2. IsTower(as, odd, c)
          BY <3>7, <4>1, <4>3, TowerOdd
        <4> QED
          BY <4>2 DEF odd
      <3> QED
        BY <3>1, <3>2, <3>8 DEF HasJoined
    <2>4. CASE m % 2 = 1
      <3> DEFINE front == SubSeq(qs, 1, Len(qs) - 1)
                 last  == qs[Len(qs)]
                 both  == Joined(last, u)
                 h     == m \div 2
                 up    == JoinTree(front, both, h)
      <3>1. Len(qs) > 0 /\ Height[last] <= c /\ IsTower(front, h, c + 1)
        BY <2>1, <2>4, TowerCases
      <3>2. JoinTree(qs, u, m) = up
        <4>1. TrailingOnes[m] <= Len(qs)
          BY <2>1, <2>2, TowerOnes
        <4> QED
          BY <2>2, <2>4, <4>1, JoinTreeOdd, MaxHeightAssumption
      <3>3. /\ IsForest(front) /\ last \in WholeTrees
            /\ Members(qs) = Members(front) \cup LeafSets[last]
            /\ Members(front) \cap LeafSets[last] = {}
        BY <2>1, <3>1, ForestFront
      <3>4. h \in Nat /\ h < m /\ m = 2 * h + 1
        BY <2>4
      <3> HIDE DEF front, last, h
      <3>5. /\ d >= 2 /\ d - 1 \in Nat /\ h + 1 < 2^(d - 1)
            /\ c + 1 \in Nat /\ (c + 1) + (d - 1) = MaxHeight + 1 /\ c + 1 <= MaxHeight
        <4>1. 2^0 = 1 /\ 2^1 = 2
          BY Powers
        <4>2. d # 0 /\ d # 1
          <5>1. m + 1 < 2^d /\ m + 1 >= 2
            BY <2>1, <3>4
          <5>2. d = 0 => 2^d = 1
            BY <4>1
          <5>3. d = 1 => 2^d = 2
            BY <4>1
          <5> DEFINE p == 2^d
          <5>4. p # 1 /\ p # 2
            <6>1. m + 1 < p
              BY <5>1
            <6> HIDE DEF p
            <6> QED
              BY <5>1, <6>1
          <5> QED
            BY <5>2, <5>3, <5>4
        <4>3. d >= 2 /\ d - 1 \in Nat /\ (d - 1) + 1 = d
          BY <2>1, <4>2
        <4>4. 2^d = 2 * 2^(d - 1) /\ 2^(d - 1) \in Nat
          <5> DEFINE k == d - 1
          <5>1. k \in Nat /\ d = k + 1
            BY <4>3
          <5> HIDE DEF k
          <5>2. 2^(k + 1) = 2 * 2^k /\ 2^k \in Nat
            BY <5>1, Powers
          <5> QED
            BY <5>1, <5>2 DEF k
        <4>5. h + 1 < 2^(d - 1)
          BY <2>1, <3>4, <4>4
        <4> QED
          BY <2>1, <4>3, <4>5, MaxHeightAssumption
      <3>6. LeafSets[last] \cap LeafSets[u] = {} /\ LeafSets[u] \cap Members(front) = {}
        BY <2>1, <3>3
      <3>7. /\ both \in WholeTrees /\ LeafSets[both] = LeafSets[last] \cup LeafSets[u]
            /\ Height[both] <= c + 1
        BY <2>1, <3>1, <3>3, <3>5, <3>6, JoinedIsWhole
      <3> HIDE DEF both
      <3>8. MayJoin(front, both, h, c + 1, d - 1)
        BY <3>1, <3>3, <3>5, <3>6, <3>7 DEF MayJoin
      <3>9. HasJoined(up, front, both, h, c + 1)
        <4> HIDE DEF S
        <4>1. h \in S
          BY <1>1, <3>4
        <4> QED
          BY <3>8, <4>1 DEF S
      <3> HIDE DEF up
      <3>10. IsForest(up) /\ IsTower(up, h + 1, c + 1) /\ Members(up) = Members(front) \cup LeafSets[both]
        BY <3>9 DEF HasJoined
      <3>11. (m + 1) % 2 = 0 /\ (m + 1) \div 2 = h + 1 /\ m + 1 # 0
        BY <3>4
      <3>12. IsTower(up, m + 1, c)
        <4> DEFINE even == m + 1
                   half == h + 1
        <4>1. even % 2 = 0 /\ even # 0 /\ half = even \div 2 /\ IsTower(up, half, c + 1)
          BY <3>10, <3>11
        <4> HIDE DEF even, half
        <4>2. IsTower(up, even, c)
          BY <4>1, TowerEven
        <4> QED
          BY <4>2 DEF even
      <3>13. Members(up) = Members(qs) \cup LeafSets[u]
        BY <3>3, <3>7, <3>10
      <3> QED
        BY <3>2, <3>10, <3>12, <3>13 DEF HasJoined
    <2> QED
      BY <2>3, <2>4, OddOrEven
  <1>2. Nat \subseteq S
    <2> HIDE DEF S
    <2> QED
      BY <1>1, StrongInductionOn
  <1> QED
    BY <1>2
-----------------------------------------------------------------------------
(***************************************************************************)
(* add: a leaf merges with the roots at the trailing one bits, as a tree   *)
(* that joins the forest does.                                             *)
(***************************************************************************)
\* The states of the loop of add_single.
IsMergingUp(f, start, ones, rows) ==
    f = [k \in 0..ones |-> IF k = 0 THEN start ELSE MergeUp(f[k - 1], rows)]

LEMMA MergingUpExists ==
    ASSUME NEW start, NEW ones, NEW rows, ones \in Nat PROVE \E f : IsMergingUp(f, start, ones, rows)
  <1> DEFINE Fits(f, m) == f = [k \in 0..m |-> IF k = 0 THEN start ELSE MergeUp(f[k - 1], rows)]
             S == {m \in Nat : \E f : Fits(f, m)}
  <1>1. 0 \in S
    <2>1. Fits([k \in 0..0 |-> start], 0)
      OBVIOUS
    <2> QED
      BY <2>1
  <1>2. ASSUME NEW m \in Nat, m \in S PROVE m + 1 \in S
    <2>1. PICK g : Fits(g, m)
      BY <1>2
    <2> DEFINE f == [k \in 0..(m + 1) |-> IF k = m + 1 THEN MergeUp(g[m], rows) ELSE g[k]]
    <2>2. \A k \in 0..m : f[k] = g[k]
      OBVIOUS
    <2>3. ASSUME NEW k \in 0..(m + 1)
          PROVE  f[k] = IF k = 0 THEN start ELSE MergeUp(f[k - 1], rows)
      <3>1. CASE k = m + 1
        <4>1. k # 0 /\ k - 1 = m /\ m \in 0..m
          BY <3>1
        <4>2. f[k] = MergeUp(g[m], rows)
          BY <3>1
        <4> QED
          BY <4>1, <4>2, <3>1, <2>2
      <3>2. CASE k # m + 1
        <4>1. k \in 0..m /\ (k # 0 => k - 1 \in 0..m)
          BY <3>2
        <4>2. g[k] = IF k = 0 THEN start ELSE MergeUp(g[k - 1], rows)
          BY <4>1, <2>1
        <4> HIDE DEF f
        <4> QED
          BY <4>1, <4>2, <2>2
      <3> QED
        BY <3>1, <3>2
    <2>4. f = [k \in 0..(m + 1) |-> f[k]]
      OBVIOUS
    <2> HIDE DEF f
    <2>5. Fits(f, m + 1)
      BY <2>3, <2>4
    <2> QED
      BY <2>5
  <1>3. Nat \subseteq S
    <2> HIDE DEF S
    <2> QED
      BY <1>1, <1>2, NatInductionOn
  <1>4. PICK f : Fits(f, ones)
    BY <1>3
  <1> QED
    BY <1>4 DEF IsMergingUp

\* The states of the loop of add.
IsAdding(f, rs, utxos, n, rows) ==
    f = [k \in 0..Len(utxos) |-> IF k = 0 THEN [roots |-> rs, updated |-> {}] ELSE AddLeaf(f[k - 1], utxos[k], Len(utxos), k, n + k - 1, rows)]

LEMMA AddingExists ==
    ASSUME NEW rs, NEW utxos, NEW n, NEW rows, Len(utxos) \in Nat PROVE \E f : IsAdding(f, rs, utxos, n, rows)
  <1> DEFINE start == [roots |-> rs, updated |-> {}]
             Fits(f, m) == f = [k \in 0..m |-> IF k = 0 THEN start ELSE AddLeaf(f[k - 1], utxos[k], Len(utxos), k, n + k - 1, rows)]
             S == {m \in Nat : \E f : Fits(f, m)}
  <1> HIDE DEF start
  <1>1. 0 \in S
    <2>1. Fits([k \in 0..0 |-> start], 0)
      OBVIOUS
    <2> QED
      BY <2>1
  <1>2. ASSUME NEW m \in Nat, m \in S PROVE m + 1 \in S
    <2>1. PICK g : Fits(g, m)
      BY <1>2
    <2> DEFINE f == [k \in 0..(m + 1) |-> IF k = m + 1 THEN AddLeaf(g[m], utxos[m + 1], Len(utxos), m + 1, n + (m + 1) - 1, rows) ELSE g[k]]
    <2>2. \A k \in 0..m : f[k] = g[k]
      OBVIOUS
    <2>3. ASSUME NEW k \in 0..(m + 1)
          PROVE  f[k] = IF k = 0 THEN start ELSE AddLeaf(f[k - 1], utxos[k], Len(utxos), k, n + k - 1, rows)
      <3>1. CASE k = m + 1
        <4>1. k # 0 /\ k - 1 = m /\ m \in 0..m
          BY <3>1
        <4>2. f[k] = AddLeaf(g[m], utxos[m + 1], Len(utxos), m + 1, n + (m + 1) - 1, rows)
          BY <3>1
        <4> QED
          BY <4>1, <4>2, <3>1, <2>2
      <3>2. CASE k # m + 1
        <4>1. k \in 0..m /\ (k # 0 => k - 1 \in 0..m)
          BY <3>2
        <4>2. g[k] = IF k = 0 THEN start ELSE AddLeaf(g[k - 1], utxos[k], Len(utxos), k, n + k - 1, rows)
          BY <4>1, <2>1
        <4> HIDE DEF f
        <4> QED
          BY <4>1, <4>2, <2>2
      <3> QED
        BY <3>1, <3>2
    <2>4. f = [k \in 0..(m + 1) |-> f[k]]
      OBVIOUS
    <2> HIDE DEF f
    <2>5. Fits(f, m + 1)
      BY <2>3, <2>4
    <2> QED
      BY <2>5
  <1>3. Nat \subseteq S
    <2> HIDE DEF S
    <2> QED
      BY <1>1, <1>2, NatInductionOn
  <1>4. PICK f : Fits(f, Len(utxos))
    BY <1>3
  <1> QED
    BY <1>4 DEF IsAdding, start

\* The bits below the first zero of n are ones.
AreOnes(n, k) == Bit(n, k) = 0 /\ \A h \in 0..(k - 1) : Bit(n, h) = 1

LEMMA HalvedBits ==
    ASSUME NEW n \in Nat, NEW k \in Nat
    PROVE  Bit(n, k + 1) = Bit(n \div 2, k) /\ Bit(n, 0) = n % 2
  <1>1. 2^k \in Nat \ {0} /\ 2^(k + 1) = 2 * 2^k /\ 2^0 = 1
    BY Powers
  <1>2. (n \div 2) \div 2^k = n \div (2 * 2^k)
    BY <1>1, QuotientOfQuotient
  <1>3. n \div 1 = n
    BY Z3
  <1> QED
    BY <1>1, <1>2, <1>3 DEF Bit

LEMMA TrailingOnesAre ==
    ASSUME NEW n \in Nat, NEW w \in Nat, n < 2^w
    PROVE  TrailingOnes[n] \in 0..w /\ AreOnes(n, TrailingOnes[n])
  <1> DEFINE S == {m \in Nat : \A v \in Nat : m < 2^v =>
                                   TrailingOnes[m] \in 0..v /\ AreOnes(m, TrailingOnes[m])}
  <1>1. ASSUME NEW m \in Nat, \A k \in Nat : k < m => k \in S PROVE m \in S
    <2> SUFFICES ASSUME NEW v \in Nat, m < 2^v
                 PROVE  TrailingOnes[m] \in 0..v /\ AreOnes(m, TrailingOnes[m])
      OBVIOUS
    <2>1. CASE m % 2 = 0
      <3>1. TrailingOnes[m] = 0
        BY <2>1, TrailingOnesFacts
      <3>2. Bit(m, 0) = 0
        BY <2>1, HalvedBits
      <3>3. \A h \in 0..(0 - 1) : FALSE
        OBVIOUS
      <3> QED
        BY <3>1, <3>2, <3>3 DEF AreOnes
    <2>2. CASE m % 2 = 1
      <3> DEFINE half == m \div 2
                 ones == TrailingOnes[half]
      <3>1. half \in Nat /\ half < m /\ m = 2 * half + 1
        BY <2>2
      <3> HIDE DEF half
      <3>2. v - 1 \in Nat /\ half < 2^(v - 1)
        <4>1. 2^0 = 1
          BY Powers
        <4>2. v # 0
          <5> SUFFICES ASSUME v = 0 PROVE FALSE
            OBVIOUS
          <5>1. 2^v = 1
            BY <4>1
          <5> QED
            BY <5>1, <3>1
        <4>3. v - 1 \in Nat /\ 2^v = 2 * 2^(v - 1) /\ 2^(v - 1) \in Nat
          BY <4>2, Powers
        <4> QED
          BY <4>3, <3>1
      <3>3. ones \in 0..(v - 1) /\ AreOnes(half, ones)
        BY <1>1, <3>1, <3>2
      <3>4. TrailingOnes[m] = 1 + ones
        BY <2>2, TrailingOnesFacts DEF half
      <3> HIDE DEF ones
      <3>5. ones \in Nat /\ TrailingOnes[m] = ones + 1 /\ TrailingOnes[m] \in 0..v
        BY <3>2, <3>3, <3>4
      <3>6. Bit(m, ones + 1) = 0
        BY <3>3, <3>5, HalvedBits DEF AreOnes, half
      <3>7. ASSUME NEW h \in 0..((ones + 1) - 1) PROVE Bit(m, h) = 1
        <4>1. CASE h = 0
          BY <2>2, <4>1, HalvedBits
        <4>2. CASE h # 0
          <5> DEFINE k == h - 1
          <5>1. k \in Nat /\ k \in 0..(ones - 1) /\ h = k + 1
            BY <3>5, <4>2
          <5> HIDE DEF k
          <5>2. Bit(half, k) = 1
            BY <3>3, <5>1 DEF AreOnes
          <5> QED
            BY <5>1, <5>2, HalvedBits DEF half
        <4> QED
          BY <4>1, <4>2
      <3> QED
        BY <3>5, <3>6, <3>7 DEF AreOnes
    <2> QED
      BY <2>1, <2>2, OddOrEven
  <1>2. Nat \subseteq S
    <2> HIDE DEF S
    <2> QED
      BY <1>1, StrongInductionOn
  <1> QED
    BY <1>2

LEMMA MergedRowsAreOnes ==
    ASSUME NEW n \in Nat, n < 2^Width PROVE MergedRows(n) = TrailingOnes[n]
  <1> DEFINE ones == TrailingOnes[n]
             m == MergedRows(n)
  <1>1. Width \in Nat
    BY MaxForestRowsAssumption DEF Width
  <1>2. ones \in 0..Width /\ AreOnes(n, ones)
    BY <1>1, TrailingOnesAre
  <1>3. m = CHOOSE k \in 0..Width : AreOnes(n, k)
    BY DEF MergedRows, AreOnes
  <1> HIDE DEF m, ones
  <1>4. m \in 0..Width /\ AreOnes(n, m)
    BY <1>2, <1>3
  <1>5. ~ (m < ones)
    <2> SUFFICES ASSUME m < ones PROVE FALSE
      OBVIOUS
    <2>1. m \in 0..(ones - 1)
      BY <1>1, <1>2, <1>4
    <2> QED
      BY <2>1, <1>2, <1>4 DEF AreOnes
  <1>6. ~ (ones < m)
    <2> SUFFICES ASSUME ones < m PROVE FALSE
      OBVIOUS
    <2>1. ones \in 0..(m - 1)
      BY <1>1, <1>2, <1>4
    <2> QED
      BY <2>1, <1>2, <1>4 DEF AreOnes
  <1>7. m = ones
    BY <1>1, <1>2, <1>4, <1>5, <1>6
  <1> QED
    BY <1>7 DEF m, ones

\* One turn of the loop merges as a tree does that joins.
LEMMA MergeUpJoins ==
    ASSUME NEW st, NEW rows, NEW q, q = st.roots, IsList(q), q # <<>>, st.hash # Empty,
           NEW next, next = MergeUp(st, rows),
           st = [roots |-> st.roots, hash |-> st.hash, pos |-> st.pos, updated |-> st.updated]
    PROVE  /\ next.roots = SubSeq(q, 1, Len(q) - 1)
           /\ next.hash = Joined(q[Len(q)], st.hash) /\ next.hash # Empty
           /\ next = [roots |-> next.roots, hash |-> next.hash, pos |-> next.pos, updated |-> next.updated]
  <1>1. Last(q) = q[Len(q)] /\ Front(q) = SubSeq(q, 1, Len(q) - 1)
    BY DEF Last, Front
  <1> DEFINE root == Last(q)
             merged == [roots   |-> Front(st.roots),
                        hash    |-> ParentHash(root, st.hash),
                        pos     |-> Parent(st.pos, rows),
                        updated |-> st.updated \cup {<<LeftSibling(st.pos), root>>, <<st.pos, st.hash>>}]
  <1>2. CASE root = Empty
    <2>1. next = [st EXCEPT !.roots = Front(@)]
      BY <1>2 DEF MergeUp, IsEmpty
    <2>2. next.roots = Front(q) /\ next.hash = st.hash /\ next.pos = st.pos /\ next.updated = st.updated
          /\ next = [roots |-> next.roots, hash |-> next.hash, pos |-> next.pos, updated |-> next.updated]
      BY <2>1
    <2>3. Joined(root, st.hash) = st.hash
      BY <1>2 DEF Joined
    <2> QED
      BY <1>1, <2>2, <2>3
  <1>3. CASE root # Empty
    <2>1. next = merged
      BY <1>3 DEF MergeUp, IsEmpty
    <2>2. next.roots = Front(q) /\ next.hash = ParentHash(root, st.hash)
          /\ next = [roots |-> next.roots, hash |-> next.hash, pos |-> next.pos, updated |-> next.updated]
      BY <2>1
    <2>3. Joined(root, st.hash) = ParentHash(root, st.hash)
      BY <1>3 DEF Joined
    <2>4. ParentHash(root, st.hash) # Empty
      BY DEF ParentHash, Empty
    <2> QED
      BY <1>1, <2>2, <2>3, <2>4
  <1> QED
    BY <1>2, <1>3

\* What the loop has after k turns.
Shows(st, q, m, k) ==
    /\ st = [roots |-> st.roots, hash |-> st.hash, pos |-> st.pos, updated |-> st.updated]
    /\ st.roots = SubSeq(q, 1, Len(q) - k) /\ st.hash = m[k] /\ st.hash # Empty

LEMMA MergingUpMerges ==
    ASSUME NEW q, IsList(q), NEW n \in Nat, TrailingOnes[n] <= Len(q),
           NEW t, NEW m, IsMerging(m, q, t, n),
           NEW start, Shows(start, q, m, 0),
           NEW rows, NEW f, IsMergingUp(f, start, TrailingOnes[n], rows)
    PROVE  Shows(f[TrailingOnes[n]], q, m, TrailingOnes[n])
  <1> DEFINE ones == TrailingOnes[n]
             S == {k \in Nat : k <= ones => Shows(f[k], q, m, k)}
  <1>1. ones \in Nat /\ Len(q) \in Nat /\ ones <= Len(q)
    BY TrailingOnesFacts, ListFacts
  <1>2. f[0] = start /\ \A k \in 1..ones : f[k] = MergeUp(f[k - 1], rows)
    BY <1>1 DEF IsMergingUp
  <1>3. \A k \in 1..ones : m[k] = Joined(q[Len(q) - k + 1], m[k - 1])
    BY <1>1 DEF IsMerging
  <1> HIDE DEF ones
  <1>4. 0 \in S
    BY <1>2
  <1>5. ASSUME NEW k \in Nat, k \in S PROVE k + 1 \in S
    <2> SUFFICES ASSUME k + 1 <= ones PROVE Shows(f[k + 1], q, m, k + 1)
      OBVIOUS
    <2> DEFINE st == f[k]
               next == f[k + 1]
               j == Len(q) - k
               p == SubSeq(q, 1, j)
    <2>1. k <= ones /\ k + 1 \in 1..ones /\ (k + 1) - 1 = k /\ j \in Nat /\ j > 0 /\ j <= Len(q)
          /\ Len(q) - (k + 1) = j - 1 /\ Len(q) - (k + 1) + 1 = j
      BY <1>1
    <2>2. Shows(st, q, m, k)
      BY <1>5, <2>1
    <2>3. next = MergeUp(st, rows)
      BY <1>2, <2>1
    <2>4. m[k + 1] = Joined(q[j], m[k])
      <3>1. m[k + 1] = Joined(q[Len(q) - (k + 1) + 1], m[(k + 1) - 1])
        BY <1>3, <2>1
      <3> QED
        BY <2>1, <3>1
    <2> HIDE DEF st, next, j
    <2>5. q \in Seq(Elements(q)) /\ j \in 0..Len(q) /\ j - 1 \in 0..j
      BY <1>1, <2>1 DEF IsList
    <2>6. p \in Seq(Elements(q)) /\ Len(p) = j /\ \A i \in 1..j : p[i] = q[i]
      BY <2>5, Prefix
    <2>7. SubSeq(p, 1, j - 1) = SubSeq(q, 1, j - 1)
      BY <2>5, PrefixOfPrefix
    <2>8. st.roots = p /\ st.hash = m[k] /\ st.hash # Empty
          /\ st = [roots |-> st.roots, hash |-> st.hash, pos |-> st.pos, updated |-> st.updated]
      BY <2>2 DEF Shows, j
    <2> HIDE DEF p
    <2>9. IsList(p) /\ p # <<>> /\ p[j] = q[j]
      <3>1. IsList(p)
        BY <2>6, ListOf
      <3>2. Len(<<>>) = 0
        OBVIOUS
      <3>3. j \in 1..j
        BY <2>1
      <3> QED
        BY <2>1, <2>6, <3>1, <3>2, <3>3
    <2>10. /\ next.roots = SubSeq(p, 1, Len(p) - 1)
           /\ next.hash = Joined(p[Len(p)], st.hash) /\ next.hash # Empty
           /\ next = [roots |-> next.roots, hash |-> next.hash, pos |-> next.pos, updated |-> next.updated]
      BY <2>3, <2>8, <2>9, MergeUpJoins
    <2>11. next.roots = SubSeq(q, 1, j - 1) /\ next.hash = m[k + 1]
      BY <2>4, <2>6, <2>7, <2>8, <2>9, <2>10
    <2>12. Shows(next, q, m, k + 1)
      BY <2>1, <2>10, <2>11 DEF Shows
    <2> QED
      BY <2>12 DEF next
  <1>6. Nat \subseteq S
    <2> HIDE DEF S
    <2> QED
      BY <1>4, <1>5, NatInductionOn
  <1>7. Shows(f[ones], q, m, ones)
    BY <1>1, <1>6
  <1> QED
    BY <1>7 DEF ones

\* add_single: the leaf joins the forest.
LEMMA AddLeafJoins ==
    ASSUME NEW st, NEW q, q = st.roots, IsForest(q), NEW n \in Nat, n < 2^Width,
           TrailingOnes[n] <= Len(q), NEW leaf \in WholeTrees, leaf # Empty,
           NEW adds, NEW i, NEW rows, NEW after, after = AddLeaf(st, leaf, adds, i, n, rows)
    PROVE  after.roots = JoinTree(q, leaf, n)
  <1> DEFINE ones == TrailingOnes[n]
             start == PlaceLeaf(st, leaf, adds, i, n, rows)
             f == CHOOSE g : IsMergingUp(g, start, MergedRows(n), rows)
             top == MergeLeaf(start, n, rows)
  <1>1. after.roots = Append(top.roots, top.hash)
    BY DEF AddLeaf
  <1>2. start.roots = q /\ start.hash = leaf
        /\ start = [roots |-> start.roots, hash |-> start.hash, pos |-> start.pos, updated |-> start.updated]
    BY DEF PlaceLeaf
  <1> HIDE DEF start
  <1>10. top = f[MergedRows(n)]
    BY DEF MergeLeaf, IsMergingUp
  <1>3. MergedRows(n) = ones /\ ones \in Nat
    BY MergedRowsAreOnes, TrailingOnesFacts
  <1>4. IsMergingUp(f, start, ones, rows)
    <2>1. \E g : IsMergingUp(g, start, ones, rows)
      BY <1>3, MergingUpExists
    <2> QED
      BY <1>3, <2>1
  <1>5. top = f[ones]
    BY <1>3, <1>10
  <1> HIDE DEF f, top
  <1>6. /\ q \in Seq(TreesUpTo[MaxHeight]) /\ leaf \in TreesUpTo[MaxHeight] /\ IsList(q)
        /\ Len(q) \in Nat
    BY ForestIsOfTrees, WholeHeights DEF Trees
  <1>7. PICK m : /\ IsMerging(m, q, leaf, n)
                 /\ JoinTree(q, leaf, n) = Append(SubSeq(q, 1, Len(q) - TrailingOnes[n]), m[TrailingOnes[n]])
    BY <1>6, JoinTreeMerges, MaxHeightAssumption
  <1>8. Shows(start, q, m, 0)
    <2>1. m[0] = leaf
      BY <1>3, <1>7 DEF IsMerging
    <2>2. Len(q) - 0 = Len(q) /\ SubSeq(q, 1, Len(q)) = q
      BY <1>6, SubSeqFull
    <2> QED
      BY <1>2, <2>1, <2>2 DEF Shows
  <1>9. Shows(top, q, m, ones)
    BY <1>4, <1>5, <1>6, <1>7, <1>8, MergingUpMerges
  <1> QED
    BY <1>1, <1>7, <1>9 DEF Shows

-----------------------------------------------------------------------------
(***************************************************************************)
(* add, of all the new leaves.                                             *)
(***************************************************************************)
\* The roots of an accumulator that n leaves have been added to.
IsGrown(rs, n) == IsForest(rs) /\ IsTower(rs, n, 0)

AreNewLeaves(utxos, rs) ==
    /\ IsList(utxos)
    /\ \A i \in 1..Len(utxos) : utxos[i] \in LeafTrees /\ utxos[i] \notin Members(rs)
    /\ \A i, j \in 1..Len(utxos) : i # j => utxos[i] # utxos[j]

\* There is room for n leaves: positions for them, and trees high enough.
HaveRoom(n) == n <= 2^MaxForestRows /\ n < 2^(MaxHeight + 1)

LEMMA LeafTreeFacts ==
    \A x \in LeafTrees : x \in WholeTrees /\ x # Empty /\ LeafSets[x] = {x} /\ Height[x] = 0
  <1> SUFFICES ASSUME NEW x \in LeafTrees
               PROVE  x \in WholeTrees /\ x # Empty /\ LeafSets[x] = {x} /\ Height[x] = 0
    OBVIOUS
  <1>1. x \in WholeTrees /\ x # Empty /\ LeafSets[x] = {x} /\ x \in Trees
    BY LowTreesAreWhole, EmptyIsNoLeaf, LowFacts
  <1>2. x \in TreesUpTo[0] /\ 0 \in 0..MaxHeight
    BY TreesUpToEquation, MaxHeightAssumption
  <1>3. Height[x] <= 0 /\ Height[x] \in Nat
    BY <1>1, <1>2, HeightFacts, WholeHeights
  <1> QED
    BY <1>1, <1>3

\* One leaf more.
LEMMA LeafGrows ==
    ASSUME NEW n \in Nat, HaveRoom(n + 1), NEW rs, IsGrown(rs, n),
           NEW leaf \in LeafTrees, leaf \notin Members(rs)
    PROVE  /\ IsGrown(JoinTree(rs, leaf, n), n + 1)
           /\ Members(JoinTree(rs, leaf, n)) = Members(rs) \cup {leaf}
           /\ \A st, adds, i, rows : st.roots = rs =>
                  AddLeaf(st, leaf, adds, i, n, rows).roots = JoinTree(rs, leaf, n)
  <1>1. leaf \in WholeTrees /\ leaf # Empty /\ LeafSets[leaf] = {leaf} /\ Height[leaf] <= 0
    BY LeafTreeFacts
  <1>2. MayJoin(rs, leaf, n, 0, MaxHeight + 1)
    <2>1. 0 \in Nat /\ MaxHeight + 1 \in Nat /\ 0 + (MaxHeight + 1) = MaxHeight + 1
      BY MaxHeightAssumption
    <2> QED
      BY <1>1, <2>1 DEF MayJoin, IsGrown, HaveRoom
  <1>3. HasJoined(JoinTree(rs, leaf, n), rs, leaf, n, 0)
    BY <1>2, TreeJoins
  <1>4. TrailingOnes[n] <= Len(rs) /\ IsForest(rs)
    BY TowerOnes DEF IsGrown, IsForest
  <1>5. n < 2^Width
    <2>1. MaxForestRows \in Nat /\ 2^Width = 2 * 2^MaxForestRows /\ 2^MaxForestRows \in Nat
      BY MaxForestRowsAssumption, Powers DEF Width
    <2>2. n + 1 <= 2^MaxForestRows
      BY DEF HaveRoom
    <2> QED
      BY <2>1, <2>2
  <1>6. ASSUME NEW st, NEW adds, NEW i, NEW rows, st.roots = rs
        PROVE  AddLeaf(st, leaf, adds, i, n, rows).roots = JoinTree(rs, leaf, n)
    BY <1>1, <1>4, <1>5, <1>6, AddLeafJoins
  <1> QED
    BY <1>1, <1>3, <1>6 DEF HasJoined, IsGrown

\* add has the new leaves, and those that were there.
HasAdded(after, rs, utxos, n, k) ==
    /\ IsGrown(after, n + k)
    /\ Members(after) = Members(rs) \cup {utxos[i] : i \in 1..k}

LEMMA AllLeavesGrow ==
    ASSUME NEW n \in Nat, NEW rs, IsGrown(rs, n), NEW utxos, AreNewLeaves(utxos, rs),
           HaveRoom(n + Len(utxos)), NEW rows, NEW f, IsAdding(f, rs, utxos, n, rows)
    PROVE  \A k \in 0..Len(utxos) :
               /\ HasAdded(f[k].roots, rs, utxos, n, k)
               /\ k # 0 => f[k].roots = JoinTree(f[k - 1].roots, utxos[k], n + k - 1)
  <1> DEFINE N == Len(utxos)
             S == {k \in Nat : k <= N =>
                      /\ HasAdded(f[k].roots, rs, utxos, n, k)
                      /\ k # 0 => f[k].roots = JoinTree(f[k - 1].roots, utxos[k], n + k - 1)}
  <1>1. N \in Nat
    BY ListFacts DEF AreNewLeaves
  <1>2. f[0].roots = rs
    BY <1>1 DEF IsAdding
  <1>3. \A k \in 1..N : f[k] = AddLeaf(f[k - 1], utxos[k], N, k, n + k - 1, rows)
    <2> SUFFICES ASSUME NEW k \in 1..N PROVE f[k] = AddLeaf(f[k - 1], utxos[k], N, k, n + k - 1, rows)
      OBVIOUS
    <2>1. k \in 0..N /\ k # 0
      BY <1>1
    <2> QED
      BY <2>1, Zenon DEF IsAdding
  <1>0. HaveRoom(n + N)
    OBVIOUS
  <1>u. /\ \A i \in 1..N : utxos[i] \in LeafTrees /\ utxos[i] \notin Members(rs)
        /\ \A i, j \in 1..N : i # j => utxos[i] # utxos[j]
    BY DEF AreNewLeaves
  <1> HIDE DEF N
  <1>4. 0 \in S
    <2>1. n + 0 = n /\ 1..0 = {}
      OBVIOUS
    <2>2. Members(rs) = Members(rs) \cup {utxos[i] : i \in 1..0}
      BY <2>1
    <2>3. HasAdded(f[0].roots, rs, utxos, n, 0)
      BY <1>2, <2>1, <2>2 DEF HasAdded
    <2> QED
      BY <2>3
  <1>5. ASSUME NEW k \in Nat, k \in S PROVE k + 1 \in S
    <2> SUFFICES ASSUME k + 1 <= N
                 PROVE  /\ HasAdded(f[k + 1].roots, rs, utxos, n, k + 1)
                        /\ f[k + 1].roots = JoinTree(f[(k + 1) - 1].roots, utxos[k + 1], n + (k + 1) - 1)
      OBVIOUS
    <2> DEFINE m == n + k
               leaf == utxos[k + 1]
               before == f[k].roots
               after == f[k + 1].roots
    <2>1. k + 1 \in 1..N /\ (k + 1) - 1 = k /\ n + (k + 1) - 1 = m /\ m \in Nat /\ n + (k + 1) = m + 1
          /\ k <= N /\ m + 1 <= n + N /\ n + N \in Nat
      BY <1>1
    <2>2. IsGrown(before, m) /\ Members(before) = Members(rs) \cup {utxos[i] : i \in 1..k}
      BY <1>5, <2>1 DEF HasAdded
    <2>3. f[k + 1] = AddLeaf(f[k], leaf, N, k + 1, m, rows)
      <3>1. f[k + 1] = AddLeaf(f[(k + 1) - 1], utxos[k + 1], N, k + 1, n + (k + 1) - 1, rows)
        BY <1>3, <2>1
      <3> QED
        BY <2>1, <3>1
    <2> HIDE DEF m
    <2>4. HaveRoom(m + 1)
      <3>1. 2^MaxForestRows \in Nat /\ 2^(MaxHeight + 1) \in Nat
        BY MaxForestRowsAssumption, MaxHeightAssumption, Powers
      <3> QED
        BY <1>0, <2>1, <3>1 DEF HaveRoom
    <2>5. leaf \in LeafTrees /\ leaf \notin Members(before)
      <3>1. leaf \in LeafTrees /\ leaf \notin Members(rs)
        BY <1>u, <2>1
      <3>2. ASSUME NEW i \in 1..k PROVE utxos[i] # leaf
        <4>1. i \in 1..N /\ i # k + 1
          BY <1>1, <2>1
        <4> QED
          BY <1>u, <2>1, <4>1
      <3> HIDE DEF leaf, before
      <3> QED
        BY <2>2, <3>1, <3>2
    <2> HIDE DEF leaf, before
    <2>6. /\ IsGrown(JoinTree(before, leaf, m), m + 1)
          /\ Members(JoinTree(before, leaf, m)) = Members(before) \cup {leaf}
          /\ \A st, adds, i, r : st.roots = before =>
                 AddLeaf(st, leaf, adds, i, m, r).roots = JoinTree(before, leaf, m)
      BY <2>1, <2>2, <2>4, <2>5, LeafGrows
    <2>7. after = JoinTree(before, leaf, m)
      BY <2>3, <2>6 DEF before
    <2>8. {utxos[i] : i \in 1..(k + 1)} = {utxos[i] : i \in 1..k} \cup {leaf}
      <3>1. \A i \in 1..(k + 1) : i \in 1..k \/ i = k + 1
        OBVIOUS
      <3>2. k + 1 \in 1..(k + 1) /\ \A i \in 1..k : i \in 1..(k + 1)
        OBVIOUS
      <3> QED
        BY <3>1, <3>2 DEF leaf
    <2> HIDE DEF after
    <2>9. HasAdded(after, rs, utxos, n, k + 1)
      <3>1. Members(after) = Members(rs) \cup {utxos[i] : i \in 1..(k + 1)}
        BY <2>2, <2>6, <2>7, <2>8
      <3> QED
        BY <2>1, <2>6, <2>7, <3>1 DEF HasAdded
    <2> QED
      BY <2>1, <2>7, <2>9 DEF after, before, leaf
  <1>6. Nat \subseteq S
    <2> HIDE DEF S
    <2> QED
      BY <1>4, <1>5, NatInductionOn
  <1>7. \A k \in 0..N : k \in Nat /\ k <= N
    BY <1>1
  <1> QED
    BY <1>6, <1>7 DEF N

LEMMA StumpAddTurns ==
    ASSUME NEW n, NEW rs, NEW utxos, Len(utxos) \in Nat, NEW after, after = StumpAdd(rs, utxos, n)
    PROVE  \E f : /\ IsAdding(f, rs, utxos, n, TreeRows(n + Len(utxos)))
                  /\ after.roots = f[Len(utxos)].roots
  <1> DEFINE rows == TreeRows(n + Len(utxos))
             f == CHOOSE g : IsAdding(g, rs, utxos, n, rows)
  <1>1. IsAdding(f, rs, utxos, n, rows)
    BY AddingExists
  <1>2. after.roots = f[Len(utxos)].roots
    BY DEF StumpAdd, IsAdding
  <1> QED
    BY <1>1, <1>2

\* The forests on the way to one of j leaves more.
IsAddition(f, rs, n, j) ==
    f = [k \in 0..j |-> IF k = 0 THEN rs ELSE JoinTree(f[k - 1], LeafHash(n + k), n + k - 1)]

LEMMA AdditionTurns ==
    ASSUME NEW rs, NEW n, NEW j, j \in Nat PROVE \E f : IsAddition(f, rs, n, j)
  <1> DEFINE Fits(f, m) == f = [k \in 0..m |-> IF k = 0 THEN rs ELSE JoinTree(f[k - 1], LeafHash(n + k), n + k - 1)]
             S == {m \in Nat : \E f : Fits(f, m)}
  <1>1. 0 \in S
    <2>1. Fits([k \in 0..0 |-> rs], 0)
      OBVIOUS
    <2> QED
      BY <2>1
  <1>2. ASSUME NEW m \in Nat, m \in S PROVE m + 1 \in S
    <2>1. PICK g : Fits(g, m)
      BY <1>2
    <2> DEFINE f == [k \in 0..(m + 1) |-> IF k = m + 1 THEN JoinTree(g[m], LeafHash(n + (m + 1)), n + (m + 1) - 1) ELSE g[k]]
    <2>2. \A k \in 0..m : f[k] = g[k]
      OBVIOUS
    <2>3. ASSUME NEW k \in 0..(m + 1)
          PROVE  f[k] = IF k = 0 THEN rs ELSE JoinTree(f[k - 1], LeafHash(n + k), n + k - 1)
      <3>1. CASE k = m + 1
        <4>1. k # 0 /\ k - 1 = m /\ m \in 0..m
          BY <3>1
        <4>2. f[k] = JoinTree(g[m], LeafHash(n + (m + 1)), n + (m + 1) - 1)
          BY <3>1
        <4> QED
          BY <4>1, <4>2, <3>1, <2>2
      <3>2. CASE k # m + 1
        <4>1. k \in 0..m /\ (k # 0 => k - 1 \in 0..m)
          BY <3>2
        <4>2. g[k] = IF k = 0 THEN rs ELSE JoinTree(g[k - 1], LeafHash(n + k), n + k - 1)
          BY <4>1, <2>1
        <4> HIDE DEF f
        <4> QED
          BY <4>1, <4>2, <2>2
      <3> QED
        BY <3>1, <3>2
    <2>4. f = [k \in 0..(m + 1) |-> f[k]]
      OBVIOUS
    <2> HIDE DEF f
    <2>5. Fits(f, m + 1)
      BY <2>3, <2>4
    <2> QED
      BY <2>5
  <1>3. Nat \subseteq S
    <2> HIDE DEF S
    <2> QED
      BY <1>1, <1>2, NatInductionOn
  <1>4. PICK f : Fits(f, j)
    BY <1>3
  <1> QED
    BY <1>4 DEF IsAddition

LEMMA StumpAddGrows ==
    ASSUME NEW n \in Nat, NEW rs, IsGrown(rs, n), NEW utxos, AreNewLeaves(utxos, rs),
           HaveRoom(n + Len(utxos)), NEW after, after = StumpAdd(rs, utxos, n)
    PROVE  /\ HasAdded(after.roots, rs, utxos, n, Len(utxos))
           /\ (\A i \in 1..Len(utxos) : utxos[i] = LeafHash(n + i)) =>
                  after.roots = Addition(rs, n, Len(utxos))
  <1> DEFINE N == Len(utxos)
             g == CHOOSE h : IsAddition(h, rs, n, N)
  <1>1. N \in Nat
    BY ListFacts DEF AreNewLeaves
  <1>2. PICK f : /\ IsAdding(f, rs, utxos, n, TreeRows(n + N))
                 /\ after.roots = f[N].roots
    BY <1>1, StumpAddTurns
  <1>3. \A k \in 0..N : /\ HasAdded(f[k].roots, rs, utxos, n, k)
                        /\ k # 0 => f[k].roots = JoinTree(f[k - 1].roots, utxos[k], n + k - 1)
    BY <1>2, AllLeavesGrow
  <1>4. f[0].roots = rs
    BY <1>1, <1>2 DEF IsAdding
  <1>5. IsAddition(g, rs, n, N)
    BY <1>1, AdditionTurns
  <1>6. Addition(rs, n, N) = g[N]
    BY DEF Addition, IsAddition
  <1> HIDE DEF g, N
  <1>7. g[0] = rs
    BY <1>1, <1>5 DEF IsAddition
  <1>8. ASSUME NEW k \in 1..N PROVE g[k] = JoinTree(g[k - 1], LeafHash(n + k), n + k - 1)
    <2>1. k \in 0..N /\ k # 0
      BY <1>1
    <2> QED
      BY <2>1, <1>5, Zenon DEF IsAddition
  <1>9. ASSUME \A i \in 1..N : utxos[i] = LeafHash(n + i) PROVE after.roots = g[N]
    <2> DEFINE S == {k \in Nat : k <= N => f[k].roots = g[k]}
    <2>1. 0 \in S
      BY <1>4, <1>7
    <2>2. ASSUME NEW k \in Nat, k \in S PROVE k + 1 \in S
      <3> SUFFICES ASSUME k + 1 <= N PROVE f[k + 1].roots = g[k + 1]
        OBVIOUS
      <3>1. k + 1 \in 0..N /\ k + 1 \in 1..N /\ k + 1 # 0 /\ (k + 1) - 1 = k /\ k <= N
        BY <1>1
      <3>2. f[k].roots = g[k]
        BY <2>2, <3>1
      <3>3. f[k + 1].roots = JoinTree(f[(k + 1) - 1].roots, utxos[k + 1], n + (k + 1) - 1)
        BY <1>3, <3>1
      <3>4. g[k + 1] = JoinTree(g[(k + 1) - 1], LeafHash(n + (k + 1)), n + (k + 1) - 1)
        BY <1>8, <3>1
      <3>5. utxos[k + 1] = LeafHash(n + (k + 1))
        BY <1>9, <3>1
      <3> QED
        BY <3>1, <3>2, <3>3, <3>4, <3>5
    <2>3. Nat \subseteq S
      <3> HIDE DEF S
      <3> QED
        BY <2>1, <2>2, NatInductionOn
    <2> QED
      BY <1>1, <1>2, <2>3
  <1>10. N \in 0..N
    BY <1>1
  <1> QED
    BY <1>2, <1>3, <1>6, <1>9, <1>10 DEF N
-----------------------------------------------------------------------------
(***************************************************************************)
(* modify.                                                                 *)
(***************************************************************************)
LEMMA ModifySteps ==
    ASSUME NEW s, NEW utxos, NEW hashes, NEW proof,
           NEW m, m = StumpModify(s, utxos, hashes, proof), m.ok,
           NEW removed, removed = StumpRemove(s, hashes, proof),
           NEW done, done = ReplaceRoots(s.roots, removed.roots)
    PROVE  /\ ~ removed.error /\ done.left = <<>>
           /\ m.stump = [leaves |-> s.leaves + Len(utxos),
                         roots  |-> StumpAdd(done.roots, utxos, s.leaves).roots]
  <1> DEFINE added == StumpAdd(done.roots, utxos, s.leaves)
             good == [ok        |-> TRUE,
                      stump     |-> [leaves |-> s.leaves + Len(utxos), roots |-> added.roots],
                      newAdd    |-> added.updated,
                      prevLeaves |-> s.leaves,
                      toDestroy |-> added.destroyed,
                      newDel    |-> removed.nodes]
             bad == [ok |-> FALSE]
  <1>1. m = IF removed.error THEN bad ELSE IF done.left # <<>> THEN bad ELSE good
    BY Zenon DEF StumpModify
  <1>2. ~ bad.ok
    OBVIOUS
  <1>3. good.stump = [leaves |-> s.leaves + Len(utxos), roots |-> added.roots]
    OBVIOUS
  <1> HIDE DEF good, bad, added
  <1>4. ~ removed.error /\ done.left = <<>> /\ m = good
    BY <1>1, <1>2
  <1> QED
    BY <1>3, <1>4 DEF added

\* The leaves that were asked to go were there (the hash of a branch asks for
\* all leaves of it), they are all that goes, the new leaves are all that
\* comes, and the stump is one that as many leaves have been added to.  With
\* new leaves that are named by their number the roots are those that the
\* accumulator promises.
IsModified(after, s, hashes, utxos) ==
    LET kept == Deletion(s.roots, Members(hashes))
    IN  /\ Members(hashes) \subseteq Members(s.roots)
        /\ Members(kept) = Members(s.roots) \ Members(hashes)
        /\ after = [leaves |-> s.leaves + Len(utxos), roots |-> after.roots]
        /\ HasAdded(after.roots, kept, utxos, s.leaves, Len(utxos))
        /\ (\A i \in 1..Len(utxos) : utxos[i] = LeafHash(s.leaves + i)) =>
               after.roots = Addition(kept, s.leaves, Len(utxos))

\* Whatever proof it is given, a stump that modify accepts a block for changes
\* as the accumulator promises.
THEOREM ModifyIsSound ==
    ASSUME NEW s, s.leaves \in Nat, IsGrown(s.roots, s.leaves),
           NEW hashes, IsList(hashes),
           NEW proof, IsList(proof.targets), IsList(proof.hashes),
           NEW utxos, AreNewLeaves(utxos, s.roots), HaveRoom(s.leaves + Len(utxos)),
           NEW m, m = StumpModify(s, utxos, hashes, proof), m.ok
    PROVE  IsModified(m.stump, s, hashes, utxos)
  <1> DEFINE D == Members(hashes)
             rs == s.roots
             n == s.leaves
             N == Len(utxos)
             after == Deletion(rs, D)
             removed == StumpRemove(s, hashes, proof)
             done == ReplaceRoots(rs, removed.roots)
  <1>1. /\ ~ removed.error /\ done.left = <<>>
        /\ m.stump = [leaves |-> n + N, roots |-> StumpAdd(done.roots, utxos, n).roots]
    BY ModifySteps
  <1>2. n \in Nat /\ N \in Nat /\ n + N <= 2^MaxForestRows /\ 2^MaxForestRows \in Nat
    BY ListFacts, MaxForestRowsAssumption, Powers DEF AreNewLeaves, HaveRoom
  <1>3. n <= 2^MaxForestRows
    BY <1>2
  <1>4. IsForest(rs) /\ IsTower(rs, n, 0)
    BY DEF IsGrown
  <1> HIDE DEF removed, done
  <1>5. D \subseteq Members(rs) /\ done.roots = after
    BY <1>1, <1>3, <1>4, ReplacedSound DEF removed, done
  <1>6. IsForest(after) /\ Members(after) = Members(rs) \ D
    BY <1>4, DeletionIsForest
  <1>7. IsTower(after, n, 0)
    BY <1>4, TowerDeletion
  <1>8. AreNewLeaves(utxos, rs) /\ HaveRoom(n + N)
    OBVIOUS
  <1> HIDE DEF after, D, n, rs
  <1>9. IsGrown(after, n)
    BY <1>6, <1>7 DEF IsGrown
  <1>10. AreNewLeaves(utxos, after)
    BY <1>6, <1>8 DEF AreNewLeaves
  <1> DEFINE added == StumpAdd(after, utxos, n)
  <1>11. /\ HasAdded(added.roots, after, utxos, n, Len(utxos))
         /\ (\A i \in 1..Len(utxos) : utxos[i] = LeafHash(n + i)) =>
                added.roots = Addition(after, n, Len(utxos))
    BY <1>2, <1>8, <1>9, <1>10, StumpAddGrows
  <1>12. m.stump = [leaves |-> n + Len(utxos), roots |-> added.roots]
    BY <1>1, <1>5
  <1> HIDE DEF added
  <1>13. m.stump.roots = added.roots
    BY <1>12
  <1> QED
    BY <1>5, <1>6, <1>11, <1>12, <1>13 DEF IsModified, after, D, rs, n

\* With no new leaves, the roots are those of the deletion.
LEMMA ModifyWithoutNew ==
    ASSUME NEW s, s.leaves \in Nat, IsGrown(s.roots, s.leaves), HaveRoom(s.leaves),
           NEW hashes, IsList(hashes),
           NEW proof, IsList(proof.targets), IsList(proof.hashes),
           NEW m, m = StumpModify(s, <<>>, hashes, proof), m.ok
    PROVE  /\ Members(hashes) \subseteq Members(s.roots)
           /\ m.stump.roots = Deletion(s.roots, Members(hashes))
  <1> DEFINE utxos == <<>>
  <1>1. Len(utxos) = 0 /\ IsList(utxos)
    <2>1. utxos \in Seq({}) /\ Len(utxos) = 0
      OBVIOUS
    <2> HIDE DEF utxos
    <2> QED
      BY <2>1, ListOf
  <1> HIDE DEF utxos
  <1>2. \A i \in 1..Len(utxos) : FALSE
    BY <1>1
  <1>3. AreNewLeaves(utxos, s.roots)
    BY <1>1, <1>2 DEF AreNewLeaves
  <1>4. s.leaves + Len(utxos) = s.leaves
    BY <1>1
  <1>5. m = StumpModify(s, utxos, hashes, proof) /\ HaveRoom(s.leaves + Len(utxos))
    BY <1>4 DEF utxos
  <1>6. IsModified(m.stump, s, hashes, utxos)
    BY <1>3, <1>5, ModifyIsSound
  <1>7. m.stump.roots = Addition(Deletion(s.roots, Members(hashes)), s.leaves, 0)
    BY <1>1, <1>2, <1>6 DEF IsModified
  <1>8. Members(hashes) \subseteq Members(s.roots)
    BY <1>6 DEF IsModified
  <1> QED
    BY <1>7, <1>8, AdditionNone
-----------------------------------------------------------------------------
(***************************************************************************)
(* A stump that is written is the stump that is read back.                 *)
(***************************************************************************)
\* A hash that is written is read back, and nothing that follows it is touched.
LEMMA ReadWritten ==
    ASSUME NEW h \in WholeTrees, NEW x, IsList(x)
    PROVE  /\ IsList(WriteHash(h))
           /\ ReadHash(WriteHash(h) \o x) = [hash |-> h, rest |-> x]
  <1> DEFINE w == WriteHash(h)
             s == w \o x
  <1>1. h # Placeholder
    <2>1. h \in TreesUpTo[MaxHeight] /\ MaxHeight \in Nat
      BY WholeTreesAreWhole, MaxHeightAssumption DEF Trees
    <2>2. h = Empty \/ h \in LeafTrees \/ h = ParentHash(h[1], h[2])
      BY <2>1, TreeKinds
    <2>3. Len(Placeholder) = 3 /\ Len(Empty) = 0
      BY DEF Placeholder, Empty
    <2>4. \A l, r : Len(ParentHash(l, r)) = 2
      BY DEF ParentHash
    <2>5. h \in LeafTrees => Len(h) = 1
      BY DEF LeafTrees
    <2> HIDE DEF Placeholder, Empty, ParentHash, LeafTrees
    <2> QED
      BY <2>2, <2>3, <2>4, <2>5
  <1>2. CASE h = Empty
    <2>0. Empty # Placeholder
      BY DEF Empty, Placeholder
    <2>1. w = <<"tag0">>
      BY <1>2, <2>0 DEF WriteHash
    <2>2. IsList(w)
      <3>1. <<"tag0">> \in Seq({"tag0"})
        OBVIOUS
      <3> QED
        BY <2>1, <3>1, ListOf
    <2>3. Head(s) = "tag0" /\ Tail(s) = x
      BY <2>1, ListTail
    <2> HIDE DEF s
    <2>4. ReadHash(s) = [hash |-> Empty, rest |-> Tail(s)]
      BY <2>3 DEF ReadHash
    <2> QED
      BY <1>2, <2>2, <2>3, <2>4 DEF s
  <1>3. CASE h # Empty
    <2> DEFINE a == <<"tag2">>
               b == <<h>>
               y == b \o x
    <2>1. w = <<"tag2", h>>
      BY <1>1, <1>3 DEF WriteHash
    <2>2. IsList(a) /\ IsList(b)
      <3>1. <<"tag2">> \in Seq({"tag2"}) /\ <<h>> \in Seq({h})
        OBVIOUS
      <3> QED
        BY <3>1, ListOf
    <2>3. a \o b = <<"tag2", h>>
      <3> DEFINE t == <<"tag2", h>>
      <3>1. Len(t) = 2 /\ t[1] = "tag2" /\ t[2] = h /\ t \in Seq({"tag2", h})
        OBVIOUS
      <3>2. Len(a) = 1 /\ Len(b) = 1 /\ a[1] = "tag2" /\ b[1] = h
        OBVIOUS
      <3> HIDE DEF t, a, b
      <3>3. IsList(t)
        BY <3>1, ListOf
      <3>4. /\ IsList(a \o b) /\ Len(a \o b) = Len(a) + Len(b)
            /\ \A i \in 1..(Len(a) + Len(b)) : (a \o b)[i] = IF i <= Len(a) THEN a[i] ELSE b[i - Len(a)]
        BY <2>2, ListConcat
      <3>5. Len(a) + Len(b) = 2 /\ 1 \in 1..2 /\ 2 \in 1..2 /\ 2 - 1 = 1
        BY <3>2
      <3>6. (a \o b)[1] = a[1] /\ (a \o b)[2] = b[1]
        BY <3>2, <3>4, <3>5
      <3>7. \A i \in 1..Len(a \o b) : (a \o b)[i] = t[i]
        BY <3>1, <3>2, <3>4, <3>5, <3>6
      <3> QED
        BY <3>1, <3>3, <3>4, <3>5, <3>7, ListEqual DEF t
    <2>4. IsList(a \o b)
      <3> HIDE DEF a, b
      <3> QED
        BY <2>2, ListConcat
    <2>5. IsList(w)
      BY <2>1, <2>3, <2>4
    <2>6. (a \o b) \o x = a \o (b \o x)
      <3> HIDE DEF a, b
      <3> QED
        BY <2>2, ConcatTwice
    <2>7. s = a \o y
      BY <2>1, <2>3, <2>6
    <2>8. IsList(y)
      <3> HIDE DEF b
      <3> QED
        BY <2>2, ListConcat
    <2>9. y[1] = h /\ Tail(y) = x
      <3>1. y = <<h>> \o x
        OBVIOUS
      <3> HIDE DEF y
      <3> QED
        BY <3>1, ListTail
    <2> HIDE DEF y, s, b
    <2>10. Head(s) = "tag2" /\ Tail(s) = y
      BY <2>7, <2>8, ListTail
    <2>11. s[2] = y[1]
      <3>1. /\ IsList(a \o y)
            /\ \A i \in 1..(Len(a) + Len(y)) : (a \o y)[i] = IF i <= Len(a) THEN a[i] ELSE y[i - Len(a)]
        <4> HIDE DEF a
        <4> QED
          BY <2>2, <2>8, ListConcat
      <3>2. Len(a) = 1
        OBVIOUS
      <3>3. Len(y) \in Nat /\ Len(y) >= 1
        <4>1. Len(b) = 1 /\ IsList(b)
          BY <2>2 DEF b
        <4>2. Len(x) \in Nat /\ Len(b \o x) = Len(b) + Len(x)
          BY <4>1, ListConcat, ListFacts
        <4> QED
          BY <4>1, <4>2 DEF y
      <3> HIDE DEF a
      <3>4. 2 \in 1..(Len(a) + Len(y)) /\ ~ (2 <= Len(a)) /\ 2 - Len(a) = 1
        BY <3>2, <3>3
      <3> QED
        BY <2>7, <3>1, <3>4
    <2>12. ReadHash(s) = [hash |-> s[2], rest |-> Tail(Tail(s))]
      BY <2>10 DEF ReadHash
    <2> QED
      BY <2>5, <2>9, <2>10, <2>11, <2>12 DEF s
  <1> QED
    BY <1>2, <1>3

\* The roots are read one after the other.
IsReading(f, flat, n) ==
    f = [k \in 0..n |-> IF k = 0 THEN [roots |-> <<>>, rest |-> flat] ELSE ReadRoot(f[k - 1])]

LEMMA ReadingExists ==
    ASSUME NEW flat, NEW n, n \in Nat PROVE \E f : IsReading(f, flat, n)
  <1> DEFINE start == [roots |-> <<>>, rest |-> flat]
             Fits(f, m) == f = [k \in 0..m |-> IF k = 0 THEN start ELSE ReadRoot(f[k - 1])]
             S == {m \in Nat : \E f : Fits(f, m)}
  <1> HIDE DEF start
  <1>1. 0 \in S
    <2>1. Fits([k \in 0..0 |-> start], 0)
      OBVIOUS
    <2> QED
      BY <2>1
  <1>2. ASSUME NEW m \in Nat, m \in S PROVE m + 1 \in S
    <2>1. PICK g : Fits(g, m)
      BY <1>2
    <2> DEFINE f == [k \in 0..(m + 1) |-> IF k = m + 1 THEN ReadRoot(g[m]) ELSE g[k]]
    <2>2. \A k \in 0..m : f[k] = g[k]
      OBVIOUS
    <2>3. ASSUME NEW k \in 0..(m + 1)
          PROVE  f[k] = IF k = 0 THEN start ELSE ReadRoot(f[k - 1])
      <3>1. CASE k = m + 1
        <4>1. k # 0 /\ k - 1 = m /\ m \in 0..m
          BY <3>1
        <4>2. f[k] = ReadRoot(g[m])
          BY <3>1
        <4> QED
          BY <4>1, <4>2, <3>1, <2>2
      <3>2. CASE k # m + 1
        <4>1. k \in 0..m /\ (k # 0 => k - 1 \in 0..m)
          BY <3>2
        <4>2. g[k] = IF k = 0 THEN start ELSE ReadRoot(g[k - 1])
          BY <4>1, <2>1
        <4> HIDE DEF f
        <4> QED
          BY <4>1, <4>2, <2>2
      <3> QED
        BY <3>1, <3>2
    <2>4. f = [k \in 0..(m + 1) |-> f[k]]
      OBVIOUS
    <2> HIDE DEF f
    <2>5. Fits(f, m + 1)
      BY <2>3, <2>4
    <2> QED
      BY <2>5
  <1>3. Nat \subseteq S
    <2> HIDE DEF S
    <2> QED
      BY <1>1, <1>2, NatInductionOn
  <1>4. PICK f : Fits(f, n)
    BY <1>3
  <1> QED
    BY <1>4 DEF IsReading, start

LEMMA ReadRootReads ==
    ASSUME NEW h \in WholeTrees, NEW x, IsList(x), NEW st, st.rest = WriteHash(h) \o x,
           NEW next, next = ReadRoot(st)
    PROVE  next.roots = Append(st.roots, h) /\ next.rest = x
  <1> DEFINE s == WriteHash(h) \o x
  <1>1. ReadHash(s) = [hash |-> h, rest |-> x]
    BY ReadWritten
  <1>2. st.rest = s
    OBVIOUS
  <1> HIDE DEF s
  <1>3. next = [roots |-> Append(st.roots, ReadHash(s).hash), rest |-> ReadHash(s).rest]
    BY <1>2 DEF ReadRoot
  <1>4. ReadHash(s).hash = h /\ ReadHash(s).rest = x
    BY <1>1
  <1> QED
    BY <1>3, <1>4

\* After k roots the first k of them are known, and the others are still to be read.
IsRead(st, rs, k, before, all) ==
    /\ IsList(st.roots) /\ Len(st.roots) = k
    /\ \A i \in 1..k : st.roots[i] = rs[i]
    /\ IsList(st.rest) /\ before \o st.rest = all

LEMMA RootIsRead ==
    ASSUME NEW rs, IsForest(rs), NEW w, AreLists(w), Len(w) = Len(rs),
           \A i \in 1..Len(rs) : w[i] = WriteHash(rs[i]),
           NEW g, IsJoining(g, w), NEW k \in 1..Len(rs),
           NEW st, IsRead(st, rs, k - 1, g[k - 1], g[Len(rs)]),
           NEW next, next = ReadRoot(st)
    PROVE  IsRead(next, rs, k, g[k], g[Len(rs)])
  <1> DEFINE N == Len(rs)
             b == g[k - 1]
             v == w[k]
             h == rs[k]
  <1>1. N \in Nat /\ k \in 0..N /\ k - 1 \in 0..N /\ k \in Nat /\ (k - 1) + 1 = k
    BY ListFacts DEF IsForest
  <1>2. PICK x : IsList(x) /\ g[N] = g[k] \o x
    <2>1. k \in 0..Len(w)
      BY <1>1
    <2>2. \E x : IsList(x) /\ g[Len(w)] = g[k] \o x
      BY <2>1, JoiningTails
    <2> QED
      BY <2>2
  <1>3. g[k] = b \o v /\ IsList(b)
    <2>1. k \in 1..Len(w) /\ k - 1 \in 0..Len(w)
      BY <1>1
    <2>2. /\ \A j \in 1..Len(w) : g[j] = g[j - 1] \o w[j]
          /\ \A j \in 0..Len(w) : IsList(g[j])
      BY JoiningFacts
    <2> QED
      BY <2>1, <2>2
  <1>4. IsList(v) /\ v = WriteHash(h) /\ h \in WholeTrees
    BY DEF AreLists, IsForest
  <1>5. IsList(st.rest) /\ b \o st.rest = g[N] /\ IsList(st.roots) /\ Len(st.roots) = k - 1
        /\ \A i \in 1..(k - 1) : st.roots[i] = rs[i]
    BY DEF IsRead
  <1> HIDE DEF b, v
  <1>6. g[N] = b \o (v \o x)
    <2>1. g[N] = (b \o v) \o x
      BY <1>2, <1>3
    <2>2. IsList(b) /\ IsList(v) /\ IsList(x)
      BY <1>2, <1>3, <1>4
    <2>3. (b \o v) \o x = b \o (v \o x)
      BY ONLY <2>2, ConcatTwice
    <2> QED
      BY <2>1, <2>3
  <1>7. st.rest = v \o x
    <2> DEFINE y == v \o x
    <2>1. IsList(y)
      BY <1>2, <1>4, ListConcat
    <2>2. b \o st.rest = b \o y
      BY <1>5, <1>6
    <2> DEFINE z == st.rest
    <2>3. IsList(z) /\ b \o z = b \o y
      BY <1>5, <2>2
    <2> HIDE DEF y, z
    <2>4. z = y
      BY <1>3, <2>1, <2>3, ConcatCancels
    <2> QED
      BY <2>4 DEF y, z
  <1> HIDE DEF h
  <1>8. next.roots = Append(st.roots, h) /\ next.rest = x
    <2>1. st.rest = WriteHash(h) \o x
      BY <1>4, <1>7
    <2>2. h \in WholeTrees /\ IsList(x) /\ next = ReadRoot(st)
      BY <1>2, <1>4
    <2> QED
      BY ONLY <2>1, <2>2, ReadRootReads
  <1> DEFINE old == st.roots
             new == next.roots
  <1>9. IsList(old) /\ Len(old) = k - 1 /\ new = Append(old, h)
    BY <1>5, <1>8
  <1> HIDE DEF old, new
  <1>10. /\ IsList(new) /\ Len(new) = k /\ new[k] = h
         /\ \A i \in 1..(k - 1) : new[i] = old[i]
    <2>1. /\ IsList(Append(old, h)) /\ Len(Append(old, h)) = Len(old) + 1
          /\ Append(old, h)[Len(old) + 1] = h
          /\ \A i \in 1..Len(old) : Append(old, h)[i] = old[i]
      BY <1>9, ListAppend
    <2> QED
      BY <2>1, <1>1, <1>9
  <1>11. \A i \in 1..k : new[i] = rs[i]
    <2>1. \A i \in 1..k : i = k \/ i \in 1..(k - 1)
      BY <1>1
    <2>2. \A i \in 1..(k - 1) : old[i] = rs[i]
      BY <1>5 DEF old
    <2> QED
      BY <2>1, <2>2, <1>10 DEF h
  <1> QED
    BY <1>2, <1>8, <1>10, <1>11 DEF IsRead, new, N

LEMMA RootsAreRead ==
    ASSUME NEW rs, IsForest(rs), NEW w, AreLists(w), Len(w) = Len(rs),
           \A i \in 1..Len(rs) : w[i] = WriteHash(rs[i]),
           NEW g, IsJoining(g, w), NEW f, IsReading(f, g[Len(rs)], Len(rs))
    PROVE  f[Len(rs)].roots = rs
  <1> DEFINE N == Len(rs)
             all == g[N]
             S == {k \in Nat : k <= N => IsRead(f[k], rs, k, g[k], all)}
  <1>1. N \in Nat /\ IsList(rs)
    BY ListFacts DEF IsForest
  <1>2. g[0] = <<>> /\ \A k \in 0..N : IsList(g[k])
    BY JoiningFacts
  <1>3. \A k \in 1..N : f[k] = ReadRoot(f[k - 1])
    <2> SUFFICES ASSUME NEW k \in 1..N PROVE f[k] = ReadRoot(f[k - 1])
      OBVIOUS
    <2>1. k \in 0..N /\ k # 0
      BY <1>1
    <2> QED
      BY <2>1, Zenon DEF IsReading
  <1>4. f[0] = [roots |-> <<>>, rest |-> all]
    BY <1>1 DEF IsReading
  <1>a. N \in 0..N
    BY <1>1
  <1>5. IsList(all)
    BY <1>a, <1>2
  <1>6. \A k \in 1..N : \A st, next : IsRead(st, rs, k - 1, g[k - 1], all) /\ next = ReadRoot(st)
                            => IsRead(next, rs, k, g[k], all)
    BY RootIsRead
  <1> HIDE DEF all, N
  <1>7. 0 \in S
    <2>1. f[0].roots = <<>> /\ f[0].rest = all
      BY <1>4
    <2>2. <<>> \o all = all
      BY <1>5, ConcatNone
    <2>3. \A i \in 1..0 : f[0].roots[i] = rs[i]
      OBVIOUS
    <2>4. IsRead(f[0], rs, 0, g[0], all)
      BY <1>2, <1>5, <2>1, <2>2, <2>3, NoList DEF IsRead
    <2> QED
      BY <2>4
  <1>8. ASSUME NEW k \in Nat, k \in S PROVE k + 1 \in S
    <2> SUFFICES ASSUME k + 1 <= N PROVE IsRead(f[k + 1], rs, k + 1, g[k + 1], all)
      OBVIOUS
    <2> DEFINE j == k + 1
    <2>1. j \in 1..N /\ j - 1 = k /\ k <= N
      BY <1>1
    <2> HIDE DEF j
    <2>2. IsRead(f[j - 1], rs, j - 1, g[j - 1], all)
      BY <1>8, <2>1
    <2>3. f[j] = ReadRoot(f[j - 1])
      BY <1>3, <2>1
    <2>4. IsRead(f[j], rs, j, g[j], all)
      BY <1>6, <2>1, <2>2, <2>3
    <2> QED
      BY <2>4 DEF j
  <1>9. Nat \subseteq S
    <2> HIDE DEF S
    <2> QED
      BY <1>7, <1>8, NatInductionOn
  <1>10. IsRead(f[N], rs, N, g[N], all)
    BY <1>1, <1>9
  <1> DEFINE r == f[N].roots
  <1>11. IsList(r) /\ Len(r) = N /\ \A i \in 1..N : r[i] = rs[i]
    BY <1>10 DEF IsRead
  <1> HIDE DEF r
  <1>12. r = rs
    BY <1>1, <1>11, ListEqual DEF N
  <1> QED
    BY <1>12 DEF r, N

LEMMA WrittenIsRead ==
    ASSUME NEW n, NEW rs, IsForest(rs), NEW s, s = [leaves |-> n, roots |-> rs]
    PROVE  StumpDeserialize(StumpSerialize(s)) = s
  <1> DEFINE N == Len(rs)
             w == [i \in 1..N |-> WriteHash(rs[i])]
             flat == FlattenSeq(w)
             a == <<n, N>>
             in == a \o flat
             rest == SubSeq(in, 3, Len(in))
             f == CHOOSE h : IsReading(h, rest, N)
  <1>1. N \in Nat /\ \A i \in 1..N : rs[i] \in WholeTrees
    BY ListFacts DEF IsForest
  <1>2. AreLists(w) /\ Len(w) = N /\ \A i \in 1..N : w[i] = WriteHash(rs[i])
    <2>1. w = [i \in 1..N |-> w[i]] /\ \A i \in 1..N : w[i] = WriteHash(rs[i])
      OBVIOUS
    <2>2. \A i \in 1..N : IsList(WriteHash(rs[i]))
      BY <1>1, NoList, ReadWritten
    <2> HIDE DEF w, N
    <2>3. IsList(w) /\ Len(w) = N
      BY <1>1, <2>1, ListBuilt
    <2> QED
      BY <2>1, <2>2, <2>3 DEF AreLists
  <1>3. StumpSerialize(s) = in
    <2>1. s.leaves = n /\ s.roots = rs
      OBVIOUS
    <2> QED
      BY <2>1, Zenon DEF StumpSerialize
  <1>4. PICK g : IsJoining(g, w)
    BY <1>1, <1>2, JoiningExists
  <1> HIDE DEF w
  <1>5. flat = g[N]
    BY <1>2, <1>4, FlattenJoins
  <1>6. IsList(flat)
    <2>1. \A k \in 0..Len(w) : IsList(g[k])
      BY <1>2, <1>4, JoiningFacts
    <2>2. N \in 0..Len(w)
      BY <1>1, <1>2
    <2> QED
      BY <2>1, <2>2, <1>5
  <1>7. IsList(a) /\ Len(a) = 2 /\ a[1] = n /\ a[2] = N
    <2>1. a \in Seq({n, N}) /\ Len(a) = 2 /\ a[1] = n /\ a[2] = N
      OBVIOUS
    <2> HIDE DEF a
    <2> QED
      BY <2>1, ListOf
  <1> HIDE DEF flat, a, N
  <1>8. /\ IsList(in) /\ Len(in) = 2 + Len(flat)
        /\ \A i \in 1..(2 + Len(flat)) : in[i] = IF i <= 2 THEN a[i] ELSE flat[i - 2]
    <2>1. /\ IsList(a \o flat) /\ Len(a \o flat) = Len(a) + Len(flat)
          /\ \A i \in 1..(Len(a) + Len(flat)) :
                (a \o flat)[i] = IF i <= Len(a) THEN a[i] ELSE flat[i - Len(a)]
      BY <1>6, <1>7, ListConcat
    <2> QED
      BY <2>1, <1>7
  <1>9. Len(flat) \in Nat
    BY <1>6, ListFacts
  <1> HIDE DEF in
  <1>10. in[1] = n /\ in[2] = N
    <2>1. 1 \in 1..(2 + Len(flat)) /\ 2 \in 1..(2 + Len(flat))
      BY <1>9
    <2> QED
      BY <2>1, <1>7, <1>8
  <1>11. rest = flat
    <2> DEFINE F == Len(flat)
               m == 3
               e == Len(in)
    <2>1. F \in Nat /\ Len(in) = 2 + F /\ e = Len(in) /\ m = 3
      BY <1>8, <1>9
    <2> HIDE DEF F, m, e
    <2>2. m \in 1..(Len(in) + 1) /\ e \in (m - 1)..Len(in) /\ e - m + 1 = F
      BY <2>1
    <2>3. /\ IsList(SubSeq(in, m, e)) /\ Len(SubSeq(in, m, e)) = e - m + 1
          /\ \A i \in 1..(e - m + 1) : SubSeq(in, m, e)[i] = in[m + i - 1]
      BY <1>8, <2>2, ListPart
    <2>4. IsList(rest) /\ Len(rest) = F /\ \A i \in 1..F : rest[i] = in[m + i - 1]
      BY <2>1, <2>2, <2>3
    <2> HIDE DEF rest
    <2>5. ASSUME NEW i \in 1..F PROVE rest[i] = flat[i]
      <3> DEFINE j == m + i - 1
      <3>1. j \in 1..(2 + F) /\ ~ (j <= 2) /\ j - 2 = i
        BY <2>1
      <3>2. rest[i] = in[j]
        BY <2>4
      <3> HIDE DEF j
      <3>3. in[j] = flat[j - 2]
        BY <1>8, <3>1 DEF F
      <3> QED
        BY <3>1, <3>2, <3>3
    <2> QED
      BY <1>6, <2>4, <2>5, ListEqual DEF F
  <1>12. IsReading(f, rest, N)
    BY <1>1, ReadingExists
  <1>13. StumpDeserialize(in) = [leaves |-> in[1], roots |-> f[in[2]].roots]
    <2>1. StumpDeserialize(in) =
            [leaves |-> in[1],
             roots  |-> (CHOOSE h : IsReading(h, rest, in[2]))[in[2]].roots]
      BY Zenon DEF StumpDeserialize, IsReading
    <2> QED
      BY <2>1, <1>10
  <1> HIDE DEF f, rest
  <1>14. f[N].roots = rs
    <2>1. IsReading(f, g[N], N)
      BY <1>5, <1>11, <1>12
    <2> QED
      BY <1>2, <1>4, <2>1, RootsAreRead DEF N
  <1> QED
    BY <1>3, <1>10, <1>13, <1>14

-----------------------------------------------------------------------------
(***************************************************************************)
(* The node.  The forest makes the proofs, and the leaves are named by     *)
(* their number.                                                           *)
(***************************************************************************)
LEMMA InOrderIsList ==
    ASSUME NEW rs, NEW n, NEW D, IsFiniteSet(D) PROVE IsList(InOrder(rs, n, D))
  <1> DEFINE nodes == NodesOf(rs, n)
             f == [h \in D |-> PositionIn(nodes, h)]
             where == Ascending({f[h] : h \in D})
             s == InOrder(rs, n, D)
  <1>1. f = [h \in D |-> f[h]]
    OBVIOUS
  <1>2. {PositionIn(nodes, h) : h \in D} = {f[h] : h \in D}
    OBVIOUS
  <1> HIDE DEF nodes
  <1>3. s = [i \in 1..Len(where) |-> HashIn(nodes, where[i])]
    BY <1>2 DEF InOrder, nodes
  <1> HIDE DEF f
  <1>4. IsFiniteSet({f[h] : h \in D})
    BY <1>1, ImageIsFinite
  <1>5. IsList(where)
    BY <1>4, AscendingIsList
  <1>6. Len(where) \in Nat
    BY <1>5, ListFacts
  <1> HIDE DEF where
  <1>7. s = [i \in 1..Len(where) |-> s[i]]
    BY <1>3
  <1> HIDE DEF s
  <1>8. IsList(s)
    BY <1>6, <1>7, ListBuilt
  <1> QED
    BY <1>8 DEF s

LEMMA ProofIsListed ==
    ASSUME NEW rs, NEW n \in Nat, n <= 2^MaxForestRows, NEW targets, IsList(targets),
           NEW p, p = ProofOf(rs, n, targets)
    PROVE  IsList(p.targets) /\ IsList(p.hashes)
  <1> DEFINE nodes  == NodesOf(rs, n)
             rows   == TreeRows(n)
             N      == Len(targets)
             where  == [i \in 1..N |-> PositionIn(nodes, targets[i])]
             T      == {where[i] : i \in 1..N}
             needed == GetProofPositions(T, n, rows)
             hashes == [i \in 1..Len(needed) |-> HashIn(nodes, needed[i])]
             there  == [i \in 1..N |-> Translate(where[i], rows, MaxForestRows)]
  <1>1. N \in Nat /\ rows \in Nat
    BY ListFacts, TreeRowsFacts
  <1>2. ProofInPlace(rs, n, targets) = [targets |-> where, hashes |-> hashes]
    BY DEF ProofInPlace
  <1>3. where = [i \in 1..N |-> where[i]]
    OBVIOUS
  <1>4. there = [i \in 1..N |-> there[i]]
    OBVIOUS
  <1>5. hashes = [i \in 1..Len(needed) |-> hashes[i]]
    OBVIOUS
  <1>6. p = [targets |-> there, hashes |-> hashes]
    <2>1. p = [[targets |-> where, hashes |-> hashes] EXCEPT !.targets = there]
      <3> HIDE DEF nodes, hashes, rows
      <3>1. p = [ProofInPlace(rs, n, targets) EXCEPT
                    !.targets = [i \in 1..N |-> Translate(@[i], rows, MaxForestRows)]]
        BY DEF ProofOf, rows
      <3>2. ProofInPlace(rs, n, targets).targets = where
        BY <1>2
      <3> HIDE DEF where
      <3> QED
        BY <1>2, <3>1, <3>2
    <2> HIDE DEF where, hashes, there
    <2> QED
      BY <2>1
  <1> HIDE DEF where, hashes, there
  <1>7. IsList(there)
    <2> HIDE DEF N
    <2> QED
      BY <1>1, <1>4, ListBuilt
  <1>8. IsFiniteSet(T)
    <2>1. 1 \in Int /\ N \in Int
      BY <1>1
    <2> HIDE DEF N
    <2>2. IsFiniteSet(1..N)
      BY <2>1, FS_Interval
    <2> QED
      BY <1>3, <2>2, ImageIsFinite
  <1> HIDE DEF T, rows
  <1>9. IsList(needed)
    BY <1>1, <1>8, NeededAreListed
  <1>10. Len(needed) \in Nat
    BY <1>9, ListFacts
  <1> HIDE DEF needed
  <1>11. IsList(hashes)
    BY <1>5, <1>10, ListBuilt
  <1> QED
    BY <1>6, <1>7, <1>11

LEMMA NewLeavesFacts ==
    ASSUME NEW n \in Nat, NEW k \in Nat
    PROVE  /\ IsList(NewLeaves(n, k)) /\ Len(NewLeaves(n, k)) = k
           /\ \A i \in 1..k : NewLeaves(n, k)[i] = LeafHash(n + i)
  <1> DEFINE u == NewLeaves(n, k)
  <1>1. u = [i \in 1..k |-> u[i]] /\ \A i \in 1..k : u[i] = LeafHash(n + i)
    BY DEF NewLeaves
  <1> HIDE DEF u
  <1>2. IsList(u) /\ Len(u) = k
    BY <1>1, ListBuilt
  <1> QED
    BY <1>1, <1>2 DEF u

LEMMA LeafHashFacts ==
    ASSUME NEW i \in Nat
    PROVE  LeafHash(i) \in LeafTrees /\ \A j \in Nat : LeafHash(i) = LeafHash(j) => i = j
  <1>1. \A j : LeafHash(j)[1] = j
    BY DEF LeafHash
  <1>2. LeafHash(i) \in LeafTrees
    BY DEF LeafHash, LeafTrees
  <1> QED
    BY <1>1, <1>2

\* The leaves of rs are among the first n.
AreNamed(rs, n) == Members(rs) \subseteq {LeafHash(i) : i \in 1..n}

LEMMA NamedIsFinite ==
    ASSUME NEW n \in Nat, NEW rs, AreNamed(rs, n), NEW D \in SUBSET Members(rs)
    PROVE  IsFiniteSet(D)
  <1> DEFINE f == [i \in 1..n |-> LeafHash(i)]
  <1>1. IsFiniteSet(1..n)
    <2>1. 1 \in Int /\ n \in Int
      OBVIOUS
    <2> QED
      BY <2>1, FS_Interval
  <1>2. f = [i \in 1..n |-> f[i]] /\ {LeafHash(i) : i \in 1..n} = {f[i] : i \in 1..n}
    OBVIOUS
  <1> HIDE DEF f
  <1>3. IsFiniteSet({f[i] : i \in 1..n})
    BY <1>1, <1>2, ImageIsFinite
  <1>4. D \subseteq {f[i] : i \in 1..n}
    BY <1>2 DEF AreNamed
  <1> QED
    BY <1>3, <1>4, FS_Subset

LEMMA NewLeavesAreNew ==
    ASSUME NEW n \in Nat, NEW k \in Nat, NEW rs, AreNamed(rs, n)
    PROVE  AreNewLeaves(NewLeaves(n, k), rs)
  <1> DEFINE u == NewLeaves(n, k)
  <1>1. IsList(u) /\ Len(u) = k /\ \A i \in 1..k : u[i] = LeafHash(n + i)
    BY NewLeavesFacts
  <1> HIDE DEF u
  <1>2. \A i, j \in Nat : LeafHash(i) \in LeafTrees /\ (LeafHash(i) = LeafHash(j) => i = j)
    BY LeafHashFacts
  <1>3. ASSUME NEW i \in 1..k PROVE u[i] \in LeafTrees /\ u[i] \notin Members(rs)
    <2>1. n + i \in Nat /\ \A j \in 1..n : j \in Nat /\ j # n + i
      OBVIOUS
    <2>2. u[i] = LeafHash(n + i)
      BY <1>1
    <2>3. \A x \in Members(rs) : \E j \in 1..n : x = LeafHash(j)
      BY DEF AreNamed
    <2>4. ASSUME u[i] \in Members(rs) PROVE FALSE
      <3>1. PICK j \in 1..n : u[i] = LeafHash(j)
        BY <2>3, <2>4
      <3> QED
        BY <1>2, <2>1, <2>2, <3>1
    <2> QED
      BY <1>2, <2>1, <2>2, <2>4
  <1>4. ASSUME NEW i \in 1..k, NEW j \in 1..k, i # j PROVE u[i] # u[j]
    <2>1. n + i \in Nat /\ n + j \in Nat /\ n + i # n + j
      BY <1>4
    <2>2. u[i] = LeafHash(n + i) /\ u[j] = LeafHash(n + j)
      BY <1>1
    <2> QED
      BY <1>2, <2>1, <2>2
  <1>5. AreNewLeaves(u, rs)
    BY <1>1, <1>3, <1>4 DEF AreNewLeaves
  <1> QED
    BY <1>5 DEF u

\* A stump that some of n leaves have been added to.
IsStump(s, n) ==
    /\ s = [leaves |-> s.leaves, roots |-> s.roots]
    /\ s.leaves \in Nat /\ s.leaves <= n
    /\ IsGrown(s.roots, s.leaves) /\ AreNamed(s.roots, n)

AreNext(u, n, k) == \A i \in 1..k : u[i] = LeafHash(n + i)

HasMembers(after, rs, u, k) == Members(after) = Members(rs) \cup {u[i] : i \in 1..k}

LEMMA NamedTogether ==
    ASSUME NEW n \in Nat, NEW k \in Nat, NEW rs, AreNamed(rs, n), NEW u, AreNext(u, n, k),
           NEW after, HasMembers(after, rs, u, k)
    PROVE  AreNamed(after, n + k)
  <1>0. /\ \A i \in 1..k : u[i] = LeafHash(n + i)
        /\ Members(after) = Members(rs) \cup {u[i] : i \in 1..k}
    BY DEF AreNext, HasMembers
  <1>1. \A i \in 1..n : i \in 1..(n + k)
    OBVIOUS
  <1>2. \A i \in 1..k : n + i \in 1..(n + k)
    OBVIOUS
  <1>3. ASSUME NEW x \in Members(after) PROVE \E j \in 1..(n + k) : x = LeafHash(j)
    <2>0. x \in Members(rs) \/ x \in {u[i] : i \in 1..k}
      BY <1>0
    <2>1. CASE x \in Members(rs)
      <3>1. PICK j \in 1..n : x = LeafHash(j)
        BY <2>1 DEF AreNamed
      <3> QED
        BY <1>1, <3>1
    <2>2. CASE x \in {u[i] : i \in 1..k}
      <3>1. PICK i \in 1..k : x = u[i]
        BY <2>2
      <3> DEFINE j == n + i
      <3>2. j \in 1..(n + k) /\ x = LeafHash(j)
        BY <1>0, <1>2, <3>1
      <3> QED
        BY <3>2
    <2> QED
      BY <2>0, <2>1, <2>2
  <1> QED
    BY <1>3 DEF AreNamed

\* A deletion of any leaves, then an addition of the next k.
LEMMA ChangeGrows ==
    ASSUME NEW n \in Nat, NEW rs, IsGrown(rs, n), AreNamed(rs, n), NEW D,
           NEW k \in Nat, HaveRoom(n + k),
           NEW after, after = Addition(Deletion(rs, D), n, k)
    PROVE  IsGrown(after, n + k) /\ AreNamed(after, n + k)
  <1> DEFINE kept == Deletion(rs, D)
             u == NewLeaves(n, k)
             added == StumpAdd(kept, u, n)
  <1>1. IsForest(rs) /\ IsTower(rs, n, 0)
    BY DEF IsGrown
  <1>2. IsForest(kept) /\ Members(kept) = Members(rs) \ D
    BY <1>1, DeletionIsForest
  <1>3. IsTower(kept, n, 0)
    BY <1>1, TowerDeletion
  <1>4. AreNamed(kept, n)
    BY <1>2 DEF AreNamed
  <1>a. after = Addition(kept, n, k)
    OBVIOUS
  <1> HIDE DEF kept
  <1>5. IsGrown(kept, n)
    BY <1>2, <1>3 DEF IsGrown
  <1>6. AreNewLeaves(u, kept)
    BY <1>4, NewLeavesAreNew
  <1>7. Len(u) = k /\ \A i \in 1..k : u[i] = LeafHash(n + i)
    BY NewLeavesFacts
  <1> HIDE DEF u
  <1>8. HaveRoom(n + Len(u))
    BY <1>7
  <1>9. /\ HasAdded(added.roots, kept, u, n, Len(u))
        /\ (\A i \in 1..Len(u) : u[i] = LeafHash(n + i)) => added.roots = Addition(kept, n, Len(u))
    BY <1>5, <1>6, <1>8, StumpAddGrows
  <1> HIDE DEF added
  <1>10. added.roots = after
    BY <1>7, <1>9, <1>a
  <1>11. IsGrown(after, n + k) /\ Members(after) = Members(kept) \cup {u[i] : i \in 1..k}
    BY <1>7, <1>9, <1>10 DEF HasAdded
  <1>12. AreNext(u, n, k) /\ HasMembers(after, kept, u, k)
    BY <1>7, <1>11 DEF AreNext, HasMembers
  <1>13. AreNamed(after, n + k)
    BY <1>4, <1>12, NamedTogether
  <1> QED
    BY <1>11, <1>13

\* What the stump is after a block, whatever proof came with it.
LEMMA AppliedGrows ==
    ASSUME NEW n \in Nat, NEW s, IsStump(s, n), NEW k \in Nat, HaveRoom(n + k),
           NEW hashes, IsList(hashes),
           NEW proof, IsList(proof.targets), IsList(proof.hashes),
           NEW u, u = NewLeaves(n, k), NEW m, m = StumpModify(s, u, hashes, proof),
           NEW after, after = IF m.ok THEN m.stump ELSE s
    PROVE  IsStump(after, n + k)
  <1> DEFINE b == s.leaves
             kept == Deletion(s.roots, Members(hashes))
  <1>1. b \in Nat /\ b <= n /\ IsGrown(s.roots, b) /\ AreNamed(s.roots, n)
        /\ s = [leaves |-> b, roots |-> s.roots]
    BY DEF IsStump
  <1>2. IsList(u) /\ Len(u) = k /\ \A i \in 1..k : u[i] = LeafHash(n + i)
    BY NewLeavesFacts
  <1>3. CASE m.ok
    <2>1. AreNewLeaves(u, s.roots)
      BY <1>1, NewLeavesAreNew
    <2>2. HaveRoom(b + Len(u))
      <3>0. MaxForestRows \in Nat /\ MaxHeight + 1 \in Nat
        BY MaxForestRowsAssumption, MaxHeightAssumption
      <3>1. 2^MaxForestRows \in Nat /\ 2^(MaxHeight + 1) \in Nat
        BY <3>0, Powers
      <3> HIDE DEF b
      <3> QED
        BY <1>1, <1>2, <3>1 DEF HaveRoom
    <2>3. IsModified(m.stump, s, hashes, u)
      <3>1. /\ s.leaves \in Nat /\ IsGrown(s.roots, s.leaves)
            /\ HaveRoom(s.leaves + Len(u))
            /\ m = StumpModify(s, u, hashes, proof)
        BY <1>1, <2>2
      <3>2. IsList(hashes) /\ IsList(proof.targets) /\ IsList(proof.hashes)
        OBVIOUS
      <3> QED
        BY ONLY <3>1, <3>2, <1>3, <2>1, ModifyIsSound
    <2> DEFINE t == m.stump
    <2>4. /\ t = [leaves |-> b + Len(u), roots |-> t.roots]
          /\ HasAdded(t.roots, kept, u, b, Len(u))
          /\ Members(kept) = Members(s.roots) \ Members(hashes)
      BY <2>3 DEF IsModified
    <2> HIDE DEF t, kept
    <2>5. t = [leaves |-> b + k, roots |-> t.roots] /\ HasAdded(t.roots, kept, u, b, k)
      BY <1>2, <2>4
    <2> HIDE DEF b
    <2>6. AreNamed(kept, n)
      BY <1>1, <2>4 DEF AreNamed
    <2>7. IsGrown(t.roots, b + k) /\ Members(t.roots) = Members(kept) \cup {u[i] : i \in 1..k}
      BY <2>5 DEF HasAdded
    <2>8. AreNamed(t.roots, n + k)
      <3> DEFINE rs == t.roots
      <3>1. AreNext(u, n, k) /\ HasMembers(rs, kept, u, k)
        BY <1>2, <2>7 DEF AreNext, HasMembers
      <3> HIDE DEF rs
      <3>2. AreNamed(rs, n + k)
        BY <2>6, <3>1, NamedTogether
      <3> QED
        BY <3>2 DEF rs
    <2>9. b + k \in Nat /\ b + k <= n + k
      BY <1>1
    <2>10. t.leaves = b + k
      BY <2>5
    <2>11. IsStump(t, n + k)
      BY <2>5, <2>7, <2>8, <2>9, <2>10 DEF IsStump
    <2> QED
      BY <1>3, <2>11 DEF t
  <1>4. CASE ~ m.ok
    <2>1. after = s
      BY <1>4
    <2>2. b <= n + k
      <3> HIDE DEF b
      <3> QED
        BY <1>1
    <2>3. AreNamed(s.roots, n + k)
      <3>1. \A i \in 1..n : i \in 1..(n + k)
        OBVIOUS
      <3> QED
        BY <1>1, <3>1 DEF AreNamed
    <2> QED
      BY <1>1, <2>1, <2>2, <2>3 DEF IsStump
  <1> QED
    BY <1>3, <1>4

\* A forest that n leaves have been added to, within the bound.
IsForestOf(rs, n) == n \in Nat /\ n <= MaxLeaves /\ IsGrown(rs, n) /\ AreNamed(rs, n)

\* The proof that is held may be as old as one likes, but it is a proof; what
\* a reorganisation puts back is a forest and a stump of that time.
NodeInv ==
    /\ IsForestOf(roots, leaves) /\ IsStump(stump, leaves)
    /\ IsList(held.hashes) /\ IsList(held.proof.targets) /\ IsList(held.proof.hashes)
    /\ \A old \in previous : IsForestOf(old.roots, old.leaves) /\ IsStump(old.stump, old.leaves)

LEMMA BoundsGiveRoom ==
    ASSUME NEW n \in Nat, n <= MaxLeaves PROVE HaveRoom(n) /\ n <= 2^MaxForestRows
  <1>1. MaxForestRows \in Nat /\ MaxHeight + 1 \in Nat
    BY MaxForestRowsAssumption, MaxHeightAssumption
  <1>2. 2^MaxForestRows \in Nat /\ 2^(MaxHeight + 1) \in Nat
    BY <1>1, Powers
  <1>3. MaxLeaves \in Nat /\ MaxLeaves <= 2^(MaxForestRows - 1) /\ MaxLeaves < 2^(MaxHeight + 1)
    BY BoundsAssumption
  <1>4. n <= 2^MaxForestRows
    BY <1>3, HalfTheRoom
  <1> QED
    BY <1>2, <1>3, <1>4 DEF HaveRoom

LEMMA EmptyIsGrown == IsGrown(<<>>, 0) /\ \A n : AreNamed(<<>>, n)
  <1> DEFINE rs == <<>>
  <1>1. Len(rs) = 0 /\ IsList(rs)
    BY NoList
  <1>2. IsTower(rs, 0, 0)
    BY TowerEmpty
  <1> HIDE DEF rs
  <1>3. \A i \in 1..Len(rs) : FALSE
    BY <1>1
  <1>4. IsForest(rs)
    BY <1>1, <1>3 DEF IsForest
  <1>5. Members(rs) = {}
    BY <1>3 DEF Members
  <1> QED
    BY <1>2, <1>4, <1>5 DEF IsGrown, AreNamed, rs

\* A forest after a change, and a stump after the block that made it.
LEMMA ChangeKeeps ==
    ASSUME NEW n, NEW rs, IsForestOf(rs, n), NEW k \in Nat, n + k <= MaxLeaves, NEW D,
           NEW after, after = Addition(Deletion(rs, D), n, k)
    PROVE  IsForestOf(after, n + k)
  <1>1. n \in Nat /\ IsGrown(rs, n) /\ AreNamed(rs, n)
    BY DEF IsForestOf
  <1>2. n + k \in Nat
    BY <1>1
  <1>3. HaveRoom(n + k)
    BY <1>2, BoundsGiveRoom
  <1>4. IsGrown(after, n + k) /\ AreNamed(after, n + k)
    BY <1>1, <1>3, ChangeGrows
  <1> QED
    BY <1>2, <1>4 DEF IsForestOf

LEMMA AppliedKeeps ==
    ASSUME NEW n \in Nat, NEW s, IsStump(s, n), NEW k \in Nat, n + k <= MaxLeaves,
           NEW hashes, IsList(hashes),
           NEW proof, IsList(proof.targets), IsList(proof.hashes),
           NEW u, u = NewLeaves(n, k), NEW m, m = StumpModify(s, u, hashes, proof),
           NEW after, after = IF m.ok THEN m.stump ELSE s
    PROVE  IsStump(after, n + k)
  <1>1. n + k \in Nat
    OBVIOUS
  <1>2. HaveRoom(n + k)
    BY <1>1, BoundsGiveRoom
  <1> QED
    BY <1>2, AppliedGrows

LEMMA InitNodeInv == Init => NodeInv
  <1> SUFFICES ASSUME Init PROVE NodeInv
    OBVIOUS
  <1>1. roots = <<>> /\ leaves = 0 /\ stump = [leaves |-> 0, roots |-> <<>>]
        /\ previous = {} /\ held = [hashes |-> <<>>, proof |-> [targets |-> <<>>, hashes |-> <<>>]]
    BY DEF Init, AccInit, NewStump, NoneHeld, NoProof
  <1>2. 0 \in Nat /\ 0 <= MaxLeaves
    BY BoundsAssumption
  <1>3. IsForestOf(roots, leaves)
    BY <1>1, <1>2, EmptyIsGrown DEF IsForestOf
  <1>4. stump.leaves = 0 /\ stump.roots = <<>>
    BY <1>1
  <1>5. IsStump(stump, leaves)
    BY <1>1, <1>4, EmptyIsGrown DEF IsStump
  <1>6. IsList(held.hashes) /\ IsList(held.proof.targets) /\ IsList(held.proof.hashes)
    BY <1>1, NoList
  <1> QED
    BY <1>1, <1>3, <1>5, <1>6 DEF NodeInv

\* The forest and the stump of a state that keeps the invariant may be put back.
LEMMA KeptForReorg ==
    ASSUME NodeInv, previous' = {ForestNow}
    PROVE  \A old \in previous' : IsForestOf(old.roots, old.leaves) /\ IsStump(old.stump, old.leaves)
  <1>1. ForestNow.roots = roots /\ ForestNow.leaves = leaves /\ ForestNow.stump = stump
    BY DEF ForestNow
  <1>2. IsForestOf(ForestNow.roots, ForestNow.leaves) /\ IsStump(ForestNow.stump, ForestNow.leaves)
    BY <1>1 DEF NodeInv
  <1> QED
    BY <1>2

LEMMA BlockKeeps == ASSUME NodeInv, Block PROVE NodeInv'
  <1>1. PICK k \in AddSizes, D \in SUBSET Members(roots) :
            /\ leaves + k <= IF held = NoneHeld THEN MaxLeaves ELSE HoldUpTo
            /\ Change(D, k)
            /\ ApplyToStump(NewLeaves(leaves, k), InOrder(roots, leaves, D),
                            ProofOf(roots, leaves, InOrder(roots, leaves, D)))
            /\ previous' = {ForestNow}
            /\ UNCHANGED held
    BY DEF Block
  <1>2. /\ leaves \in Nat /\ leaves <= MaxLeaves /\ IsGrown(roots, leaves) /\ AreNamed(roots, leaves)
        /\ IsForestOf(roots, leaves) /\ IsStump(stump, leaves)
    BY DEF NodeInv, IsForestOf
  <1>3. k \in Nat /\ leaves + k <= MaxLeaves
    <2>1. k \in Nat /\ HoldUpTo \in Nat /\ HoldUpTo <= MaxLeaves /\ MaxLeaves \in Nat
      BY BoundsAssumption
    <2> QED
      BY <1>1, <1>2, <2>1
  <1>4. leaves' = leaves + k /\ roots' = Addition(Deletion(roots, D), leaves, k)
    BY <1>1 DEF Change
  <1>5. IsForestOf(roots', leaves')
    BY <1>2, <1>3, <1>4, ChangeKeeps
  <1> DEFINE hashes == InOrder(roots, leaves, D)
             proof == ProofOf(roots, leaves, hashes)
             u == NewLeaves(leaves, k)
  <1>6. update' = StumpModify(stump, u, hashes, proof)
        /\ stump' = IF update'.ok THEN update'.stump ELSE stump
    BY <1>1 DEF ApplyToStump
  <1>7. IsList(hashes)
    <2>1. IsFiniteSet(D)
      BY <1>2, NamedIsFinite
    <2> QED
      BY <2>1, InOrderIsList
  <1> HIDE DEF hashes
  <1>8. IsList(proof.targets) /\ IsList(proof.hashes)
    <2>1. leaves <= 2^MaxForestRows
      BY <1>2, BoundsGiveRoom
    <2> QED
      BY <1>2, <1>7, <2>1, ProofIsListed
  <1>9. u = NewLeaves(leaves, k)
    OBVIOUS
  <1> HIDE DEF proof, u
  <1>10. IsStump(stump', leaves + k)
    BY <1>2, <1>3, <1>6, <1>7, <1>8, <1>9, AppliedKeeps
  <1>11. \A old \in previous' : IsForestOf(old.roots, old.leaves) /\ IsStump(old.stump, old.leaves)
    BY <1>1, KeptForReorg
  <1>12. held' = held
    BY <1>1
  <1> QED
    BY <1>4, <1>5, <1>10, <1>11, <1>12 DEF NodeInv

LEMMA HoldKeeps == ASSUME NodeInv, HoldProof PROVE NodeInv'
  <1>0. PICK k \in 1..MaxHeld : \E D \in kSubset(k, Members(roots)) :
            /\ held' = [hashes |-> InOrder(roots, leaves, D),
                        proof |-> ProofOf(roots, leaves, InOrder(roots, leaves, D))]
            /\ UNCHANGED <<roots, leaves, stump, update, previous>>
    BY DEF HoldProof
  <1>1. PICK D \in kSubset(k, Members(roots)) :
            /\ held' = [hashes |-> InOrder(roots, leaves, D),
                        proof |-> ProofOf(roots, leaves, InOrder(roots, leaves, D))]
            /\ UNCHANGED <<roots, leaves, stump, update, previous>>
    BY <1>0
  <1>2. /\ leaves \in Nat /\ leaves <= MaxLeaves /\ AreNamed(roots, leaves)
    BY DEF NodeInv, IsForestOf
  <1>3. D \in SUBSET Members(roots)
    BY DEF kSubset
  <1> DEFINE hashes == InOrder(roots, leaves, D)
             proof == ProofOf(roots, leaves, hashes)
  <1>4. held'.hashes = hashes /\ held'.proof = proof
    BY <1>1
  <1>5. IsList(hashes)
    <2>1. IsFiniteSet(D)
      BY <1>2, <1>3, NamedIsFinite
    <2> QED
      BY <2>1, InOrderIsList
  <1> HIDE DEF hashes
  <1>6. IsList(proof.targets) /\ IsList(proof.hashes)
    <2>1. leaves <= 2^MaxForestRows
      BY <1>2, BoundsGiveRoom
    <2> QED
      BY <1>2, <1>5, <2>1, ProofIsListed
  <1> HIDE DEF proof
  <1> QED
    BY <1>1, <1>4, <1>5, <1>6 DEF NodeInv

\* What the held proof does: it deletes its hashes and nothing else.
LEMMA HeldDeletes ==
    ASSUME NodeInv, BlockWithHeldProof, update'.ok
    PROVE  /\ Members(held.hashes) \subseteq Members(stump.roots)
           /\ stump'.roots = Deletion(stump.roots, Members(held.hashes))
  <1>1. /\ update' = StumpModify(stump, <<>>, held.hashes, held.proof)
        /\ stump' = update'.stump
    BY DEF BlockWithHeldProof, ApplyToStump
  <1>2. IsStump(stump, leaves) /\ leaves \in Nat /\ leaves <= MaxLeaves
        /\ IsList(held.hashes) /\ IsList(held.proof.targets) /\ IsList(held.proof.hashes)
    BY DEF NodeInv, IsForestOf
  <1>3. stump.leaves \in Nat /\ stump.leaves <= leaves /\ IsGrown(stump.roots, stump.leaves)
    BY <1>2 DEF IsStump
  <1>4. stump.leaves <= MaxLeaves
    BY <1>2, <1>3, BoundsAssumption
  <1>5. HaveRoom(stump.leaves)
    BY <1>3, <1>4, BoundsGiveRoom
  <1> DEFINE m == update'
             hashes == held.hashes
             proof == held.proof
  <1>6. m = StumpModify(stump, <<>>, hashes, proof) /\ m.ok
    BY <1>1
  <1>7. IsList(hashes) /\ IsList(proof.targets) /\ IsList(proof.hashes)
    BY <1>2
  <1>8. stump' = m.stump
    BY <1>1
  <1> HIDE DEF m, hashes, proof
  <1>9. /\ Members(hashes) \subseteq Members(stump.roots)
        /\ m.stump.roots = Deletion(stump.roots, Members(hashes))
    BY <1>3, <1>5, <1>6, <1>7, ModifyWithoutNew
  <1> QED
    BY <1>8, <1>9 DEF hashes

LEMMA NoNewLeaves == ASSUME NEW n \in Nat PROVE <<>> = NewLeaves(n, 0)
  <1> DEFINE u == <<>>
             v == NewLeaves(n, 0)
  <1>1. IsList(v) /\ Len(v) = 0
    BY NewLeavesFacts
  <1>2. IsList(u) /\ Len(u) = 0
    BY NoList
  <1> HIDE DEF v, u
  <1>3. Len(u) = Len(v) /\ \A i \in 1..Len(u) : u[i] = v[i]
    BY <1>1, <1>2
  <1>4. u = v
    BY <1>1, <1>2, <1>3, ListEqual
  <1> QED
    BY <1>4 DEF u, v

LEMMA HeldBlockKeeps == ASSUME NodeInv, BlockWithHeldProof PROVE NodeInv'
  <1>1. /\ ApplyToStump(<<>>, held.hashes, held.proof)
        /\ held' = NoneHeld
        /\ previous' = {ForestNow}
        /\ IF update'.ok THEN Change(ToSet(held.hashes), 0) ELSE UNCHANGED <<roots, leaves>>
    BY DEF BlockWithHeldProof
  <1>2. IsForestOf(roots, leaves) /\ IsStump(stump, leaves) /\ leaves \in Nat /\ leaves <= MaxLeaves
        /\ IsList(held.hashes) /\ IsList(held.proof.targets) /\ IsList(held.proof.hashes)
    BY DEF NodeInv, IsForestOf
  <1>3. leaves + 0 = leaves /\ 0 \in Nat
    BY <1>2
  <1>4. IsForestOf(roots', leaves') /\ leaves' = leaves
    <2>1. CASE update'.ok
      <3> DEFINE k == 0
                 D == ToSet(held.hashes)
      <3>1. leaves' = leaves + k /\ roots' = Addition(Deletion(roots, D), leaves, k)
        BY <1>1, <2>1 DEF Change
      <3>2. k = 0
        OBVIOUS
      <3> HIDE DEF k, D
      <3>3. k \in Nat /\ leaves + k <= MaxLeaves /\ leaves' = leaves
        BY <1>2, <1>3, <3>1, <3>2
      <3>4. IsForestOf(roots', leaves + k)
        BY <1>2, <3>1, <3>3, ChangeKeeps
      <3> QED
        BY <3>1, <3>3, <3>4
    <2>2. CASE ~ update'.ok
      BY <1>1, <1>2, <2>2
    <2> QED
      BY <2>1, <2>2
  <1>5. IsStump(stump', leaves)
    <2> DEFINE k == 0
               u == <<>>
               hashes == held.hashes
               proof == held.proof
    <2>1. update' = StumpModify(stump, u, hashes, proof)
          /\ stump' = IF update'.ok THEN update'.stump ELSE stump
      BY <1>1 DEF ApplyToStump
    <2>2. IsList(hashes) /\ IsList(proof.targets) /\ IsList(proof.hashes)
      BY <1>2
    <2>3. u = NewLeaves(leaves, k)
      BY <1>2, NoNewLeaves
    <2>4. k \in Nat /\ leaves + k = leaves /\ leaves + k <= MaxLeaves
      BY <1>2, <1>3
    <2> HIDE DEF k, u, hashes, proof
    <2>5. IsStump(stump', leaves + k)
      BY <1>2, <2>1, <2>2, <2>3, <2>4, AppliedKeeps
    <2> QED
      BY <2>4, <2>5
  <1>6. \A old \in previous' : IsForestOf(old.roots, old.leaves) /\ IsStump(old.stump, old.leaves)
    BY <1>1, KeptForReorg
  <1>7. IsList(held'.hashes) /\ IsList(held'.proof.targets) /\ IsList(held'.proof.hashes)
    BY <1>1, NoList DEF NoneHeld, NoProof
  <1> QED
    BY <1>4, <1>5, <1>6, <1>7 DEF NodeInv

LEMMA UndoKeeps == ASSUME NodeInv, Undo PROVE NodeInv'
  BY DEF NodeInv, Undo

LEMMA RestartKeeps == ASSUME NodeInv, Restart PROVE NodeInv'
  <1>1. IsForest(stump.roots) /\ stump = [leaves |-> stump.leaves, roots |-> stump.roots]
    BY DEF NodeInv, IsStump, IsGrown
  <1>2. StumpDeserialize(StumpSerialize(stump)) = stump
    BY <1>1, WrittenIsRead
  <1>3. stump' = stump /\ UNCHANGED <<roots, leaves, held, previous>>
    BY <1>2 DEF Restart
  <1> QED
    BY <1>3 DEF NodeInv

\* The roots of forest and stump are whole trees without a common leaf, as high
\* as the number of leaves says, whatever proofs the node used and however its
\* history was undone.
THEOREM NodeInvariant == Spec => []NodeInv
  <1>1. ASSUME NodeInv, [Next]_vars PROVE NodeInv'
    <2>1. CASE Block
      BY <1>1, <2>1, BlockKeeps
    <2>2. CASE HoldProof
      BY <1>1, <2>2, HoldKeeps
    <2>3. CASE BlockWithHeldProof
      BY <1>1, <2>3, HeldBlockKeeps
    <2>4. CASE Undo
      BY <1>1, <2>4, UndoKeeps
    <2>5. CASE Restart
      BY <1>1, <2>5, RestartKeeps
    <2>6. CASE UNCHANGED vars
      BY <1>1, <2>6 DEF NodeInv, vars
    <2> QED
      BY <1>1, <2>1, <2>2, <2>3, <2>4, <2>5, <2>6 DEF Next
  <1> QED
    BY <1>1, InitNodeInv, PTL DEF Spec

\* However old the proof of a block is, if the stump accepts it then the leaves
\* it names are the stump's, and they are the only leaves that go.
THEOREM StaleProofsAreSafe == Spec => OnlyMembersAreDeleted
  <1> DEFINE Step == BlockWithHeldProof /\ update'.ok =>
                        /\ Members(held.hashes) \subseteq Members(stump.roots)
                        /\ stump'.roots = Deletion(stump.roots, Members(held.hashes))
  <1>1. ASSUME NodeInv, [Next]_vars PROVE [Step]_vars
    BY <1>1, HeldDeletes
  <1> QED
    BY <1>1, NodeInvariant, PTL DEF Spec, OnlyMembersAreDeleted
=============================================================================
