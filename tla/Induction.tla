----------------------------- MODULE Induction -----------------------------
(***************************************************************************)
(* Induction and recursion, stated with sets and functions in place of     *)
(* operators: whoever proves P(n) for all n instantiates S with the set of *)
(* the n that satisfy P.  The lemmas on recursive functions say that the   *)
(* function a recursive definition chooses satisfies its equation.         *)
(* The last part is about lists, sequences of anything: their parts, joins,*)
(* insertions and removals, and what flattening a list of lists is.        *)
(***************************************************************************)
EXTENDS Integers, SequencesExt, WellFoundedInduction, SequenceTheorems, TLAPS

\* Every set of natural numbers that is not empty has a least element.
LEMMA LeastNumber ==
    ASSUME NEW S, S \subseteq Nat, S # {}
    PROVE  \E m \in S : \A n \in S : m <= n
  <1> DEFINE R == {ss \in Nat \X Nat : ss[1] < ss[2]}
  <1>1. IsWellFoundedOn(R, Nat)
    BY NatLessThanWellFounded DEF OpToRel
  <1>2. ASSUME NEW a \in Nat, NEW b \in Nat, a < b PROVE <<a, b>> \in R
    BY <1>2
  <1> HIDE DEF R
  <1>3. \E m \in S : \A n \in S : <<n, m>> \notin R
    BY <1>1, WFMin
  <1>4. PICK m \in S : \A n \in S : <<n, m>> \notin R
    BY <1>3
  <1>5. \A n \in S : ~ (n < m)
    BY <1>2, <1>4
  <1> QED
    BY <1>5

\* A set of natural numbers below a bound has a greatest element.
LEMMA GreatestNumber ==
    ASSUME NEW b \in Nat, NEW S, S \subseteq 0..b, S # {}
    PROVE  \E m \in S : \A n \in S : n <= m
  <1> DEFINE C == {b - n : n \in S}
  <1>1. C \subseteq Nat /\ C # {}
    <2>1. \A n \in S : n \in 0..b
      OBVIOUS
    <2>2. \A n \in S : b - n \in Nat
      BY <2>1
    <2> QED
      BY <2>2
  <1> HIDE DEF C
  <1>2. PICK c \in C : \A n \in C : c <= n
    BY <1>1, LeastNumber
  <1>3. PICK m \in S : c = b - m
    BY <1>2 DEF C
  <1>4. ASSUME NEW n \in S PROVE n <= m
    <2>1. b - n \in C
      BY DEF C
    <2> QED
      BY <2>1, <1>2, <1>3
  <1> QED
    BY <1>4

\* Induction.
LEMMA NatInductionOn ==
    ASSUME NEW S, 0 \in S, \A n \in Nat : n \in S => n + 1 \in S
    PROVE  Nat \subseteq S
  <1> SUFFICES ASSUME NEW k \in Nat, k \notin S PROVE FALSE
    OBVIOUS
  <1>1. PICK m \in Nat \ S : \A n \in Nat \ S : m <= n
    <2>1. Nat \ S \subseteq Nat /\ Nat \ S # {}
      OBVIOUS
    <2> QED
      BY <2>1, LeastNumber
  <1>2. m - 1 \in Nat /\ m - 1 \in S
    BY <1>1
  <1> QED
    BY <1>1, <1>2

\* Induction that may use all the smaller numbers, on a set of numbers.
LEMMA StrongInductionOn ==
    ASSUME NEW N, N \subseteq Nat, NEW S,
           \A n \in N : (\A m \in N : m < n => m \in S) => n \in S
    PROVE  N \subseteq S
  <1> SUFFICES ASSUME NEW k \in N, k \notin S PROVE FALSE
    OBVIOUS
  <1>1. PICK m \in N \ S : \A n \in N \ S : m <= n
    <2>1. N \ S \subseteq Nat /\ N \ S # {}
      OBVIOUS
    <2> QED
      BY <2>1, LeastNumber
  <1>2. \A n \in N : n < m => n \in S
    BY <1>1
  <1> QED
    BY <1>1, <1>2

(***************************************************************************)
(* A function defined by recursion exists: its value at n is z[n] for the  *)
(* n of Z, and is otherwise made by `step` of the values at b[n] and c[n], *)
(* which have a lower rank.  V[n] is a set its value at n belongs to.      *)
(***************************************************************************)
Descends(N, rank, Z, b) ==
    /\ rank \in [N -> Nat]
    /\ \A n \in N \ Z : b[n] \in N /\ rank[b[n]] < rank[n]

ValuesIn(V, N, Z, z, b, c, step) ==
    /\ \A n \in N : n \in Z => z[n] \in V[n]
    /\ \A n \in N \ Z : \A x \in V[b[n]], y \in V[c[n]] : step[n][x][y] \in V[n]

Solves(f, N, Z, z, b, c, step) ==
    \A n \in N : f[n] = IF n \in Z THEN z[n] ELSE step[n][f[b[n]]][f[c[n]]]

LEMMA RecursionExists ==
    ASSUME NEW N, NEW rank, NEW Z, NEW z, NEW b, NEW c, NEW step, NEW V,
           Descends(N, rank, Z, b), Descends(N, rank, Z, c), ValuesIn(V, N, Z, z, b, c, step)
    PROVE  \E f : /\ f = [n \in N |-> f[n]]
                  /\ \A n \in N : f[n] \in V[n]
                  /\ Solves(f, N, Z, z, b, c, step)
  <1>0. /\ rank \in [N -> Nat]
        /\ \A n \in N \ Z : /\ b[n] \in N /\ rank[b[n]] < rank[n]
                            /\ c[n] \in N /\ rank[c[n]] < rank[n]
        /\ \A n \in N : n \in Z => z[n] \in V[n]
        /\ \A n \in N \ Z : \A x \in V[b[n]], y \in V[c[n]] : step[n][x][y] \in V[n]
    BY DEF Descends, ValuesIn
  <1> USE <1>0
  <1> DEFINE Rhs(g, n) == IF n \in Z THEN z[n] ELSE step[n][g[b[n]]][g[c[n]]]
             Sat(g, r) == \A m \in N : rank[m] <= r => g[m] = Rhs(g, m)
  \* The value at n depends on the values at lower ranks only.
  <1>1. ASSUME NEW g, NEW h, NEW n \in N, \A m \in N : rank[m] < rank[n] => g[m] = h[m]
        PROVE  Rhs(g, n) = Rhs(h, n)
    <2>1. CASE n \in Z
      BY <2>1
    <2>2. CASE n \notin Z
      <3>1. g[b[n]] = h[b[n]] /\ g[c[n]] = h[c[n]]
        BY <1>1, <2>2
      <3> QED
        BY <2>2, <3>1
    <2> QED
      BY <2>1, <2>2
  <1>2. ASSUME NEW n \in N, rank[n] = 0 PROVE n \in Z
    BY <1>2
  <1> HIDE DEF Rhs
  \* A function that is right up to a rank can be continued to the next.
  <1>3. ASSUME NEW r \in Nat, NEW h, \A m \in N : rank[m] < r => h[m] = Rhs(h, m)
        PROVE  \E g : Sat(g, r)
    <2> DEFINE g == [m \in N |-> Rhs(h, m)]
    <2>1. \A m \in N : rank[m] < r => g[m] = h[m]
      BY <1>3
    <2>2. ASSUME NEW n \in N, rank[n] <= r PROVE g[n] = Rhs(g, n)
      <3>1. \A m \in N : rank[m] < rank[n] => g[m] = h[m]
        BY <2>1, <2>2
      <3>2. Rhs(g, n) = Rhs(h, n)
        <4> HIDE DEF g
        <4> QED
          BY <1>1, <3>1
      <3> QED
        BY <3>2
    <2> HIDE DEF g
    <2> QED
      BY <2>2
  <1>4. \A r \in Nat : \E g : Sat(g, r)
    <2> DEFINE S == {r \in Nat : \E g : Sat(g, r)}
    <2>1. 0 \in S
      <3>1. \A m \in N : ~ (rank[m] < 0)
        OBVIOUS
      <3>2. \E g : Sat(g, 0)
        <4> HIDE DEF Sat
        <4> QED
          BY <1>3, <3>1
      <3> QED
        BY <3>2
    <2>2. ASSUME NEW r \in Nat, r \in S PROVE r + 1 \in S
      <3>1. PICK h : Sat(h, r)
        BY <2>2
      <3>2. \A m \in N : rank[m] < r + 1 => h[m] = Rhs(h, m)
        BY <3>1
      <3>3. PICK q \in Nat : q = r + 1
        OBVIOUS
      <3>4. \E g : Sat(g, q)
        <4> HIDE DEF Sat
        <4>1. \A m \in N : rank[m] < q => h[m] = Rhs(h, m)
          BY <3>2, <3>3
        <4> QED
          BY <4>1, <1>3
      <3> QED
        BY <3>3, <3>4
    <2> HIDE DEF S
    <2>3. Nat \subseteq S
      BY <2>1, <2>2, NatInductionOn
    <2> QED
      BY <2>3 DEF S
  \* Two functions that are right up to a rank agree up to it.
  <1>5. ASSUME NEW r \in Nat, NEW g, NEW h, Sat(g, r), Sat(h, r)
        PROVE  \A m \in N : rank[m] <= r => g[m] = h[m]
    <2> DEFINE S == {k \in Nat : k <= r => \A m \in N : rank[m] = k => g[m] = h[m]}
    <2>1. ASSUME NEW k \in Nat, \A j \in Nat : j < k => j \in S PROVE k \in S
      <3> SUFFICES ASSUME k <= r, NEW n \in N, rank[n] = k PROVE g[n] = h[n]
        OBVIOUS
      <3>1. \A m \in N : rank[m] < rank[n] => g[m] = h[m]
        BY <2>1
      <3>2. Rhs(g, n) = Rhs(h, n)
        BY <1>1, <3>1
      <3> QED
        BY <3>2, <1>5
    <2>2. Nat \subseteq S
      <3> HIDE DEF S
      <3> QED
        BY <2>1, StrongInductionOn
    <2> QED
      BY <2>2
  <1> DEFINE One(r) == CHOOSE g : Sat(g, r)
             f      == [n \in N |-> One(rank[n])[n]]
  <1>6. \A r \in Nat : Sat(One(r), r)
    <2> HIDE DEF Sat
    <2> QED
      BY <1>4
  <1>7. ASSUME NEW n \in N PROVE f[n] = Rhs(f, n)
    <2> DEFINE g == One(rank[n])
    <2>1. Sat(g, rank[n])
      BY <1>6
    <2>2. ASSUME NEW m \in N, rank[m] < rank[n] PROVE f[m] = g[m]
      <3>1. Sat(g, rank[m])
        <4> HIDE DEF g
        <4> QED
          BY <2>1, <2>2
      <3>2. Sat(One(rank[m]), rank[m])
        BY <1>6
      <3>3. One(rank[m])[m] = g[m]
        <4> HIDE DEF Sat, g, One
        <4>1. rank[m] \in Nat
          OBVIOUS
        <4>2. \A k \in N : rank[k] <= rank[m] => One(rank[m])[k] = g[k]
          BY <3>1, <3>2, <4>1, <1>5
        <4> QED
          BY <4>1, <4>2
      <3> QED
        BY <3>3
    <2>3. f[n] = g[n]
      OBVIOUS
    <2>4. g[n] = Rhs(g, n)
      <3> HIDE DEF g
      <3> QED
        BY <2>1
    <2> HIDE DEF f, g, Sat
    <2>5. Rhs(f, n) = Rhs(g, n)
      BY <1>1, <2>2
    <2> QED
      BY <2>3, <2>4, <2>5
  <1>8. f = [n \in N |-> f[n]]
    OBVIOUS
  <1> HIDE DEF f, Sat
  <1>9. \A n \in N : f[n] \in V[n]
    <2> DEFINE S == {k \in Nat : \A m \in N : rank[m] = k => f[m] \in V[m]}
    <2>1. ASSUME NEW k \in Nat, \A j \in Nat : j < k => j \in S PROVE k \in S
      <3> SUFFICES ASSUME NEW n \in N, rank[n] = k PROVE f[n] \in V[n]
        OBVIOUS
      <3>1. CASE n \in Z
        BY <3>1, <1>7 DEF Rhs
      <3>2. CASE n \notin Z
        <4>1. b[n] \in N /\ c[n] \in N /\ rank[b[n]] < k /\ rank[c[n]] < k
          BY <3>2
        <4>2. f[b[n]] \in V[b[n]] /\ f[c[n]] \in V[c[n]]
          BY <4>1, <2>1
        <4> QED
          BY <4>2, <3>2, <1>7 DEF Rhs
      <3> QED
        BY <3>1, <3>2
    <2>2. Nat \subseteq S
      <3> HIDE DEF S
      <3> QED
        BY <2>1, StrongInductionOn
    <2> QED
      BY <2>2
  <1>10. Solves(f, N, Z, z, b, c, step)
    BY <1>7 DEF Rhs, Solves
  <1> QED
    BY <1>8, <1>9, <1>10

\* The same for a value that is made of one other value.
LinearValuesIn(V, N, Z, z, b, step) ==
    /\ \A n \in N : n \in Z => z[n] \in V[n]
    /\ \A n \in N \ Z : \A x \in V[b[n]] : step[n][x] \in V[n]

LinearSolves(f, N, Z, z, b, step) ==
    \A n \in N : f[n] = IF n \in Z THEN z[n] ELSE step[n][f[b[n]]]

LEMMA LinearRecursionExists ==
    ASSUME NEW N, NEW rank, NEW Z, NEW z, NEW b, NEW step, NEW V,
           Descends(N, rank, Z, b), LinearValuesIn(V, N, Z, z, b, step)
    PROVE  \E f : /\ f = [n \in N |-> f[n]]
                  /\ \A n \in N : f[n] \in V[n]
                  /\ LinearSolves(f, N, Z, z, b, step)
  <1> DEFINE both == [n \in N |-> [x \in V[b[n]] |-> [y \in V[b[n]] |-> step[n][x]]]]
  <1>1. \A n \in N : \A x, y \in V[b[n]] : both[n][x][y] = step[n][x]
    OBVIOUS
  <1> HIDE DEF both
  <1>2. ValuesIn(V, N, Z, z, b, b, both)
    BY <1>1 DEF LinearValuesIn, ValuesIn
  <1>3. PICK f : /\ f = [n \in N |-> f[n]]
                 /\ \A n \in N : f[n] \in V[n]
                 /\ Solves(f, N, Z, z, b, b, both)
    BY <1>2, RecursionExists
  <1>4. ASSUME NEW n \in N PROVE f[n] = IF n \in Z THEN z[n] ELSE step[n][f[b[n]]]
    <2>1. n \notin Z => b[n] \in N
      BY DEF Descends
    <2>2. n \notin Z => f[b[n]] \in V[b[n]]
      BY <2>1, <1>3
    <2> QED
      BY <2>2, <1>1, <1>3 DEF Solves
  <1>5. LinearSolves(f, N, Z, z, b, step)
    BY <1>4 DEF LinearSolves
  <1> QED
    BY <1>3, <1>5
-----------------------------------------------------------------------------
(***************************************************************************)
(* Sequences of anything.                                                  *)
(***************************************************************************)
Elements(s) == {s[i] : i \in DOMAIN s}

IsList(s) == s \in Seq(Elements(s))

LEMMA ListOf == ASSUME NEW S, NEW s \in Seq(S) PROVE IsList(s)
  <1>1. Len(s) \in Nat /\ DOMAIN s = 1..Len(s) /\ s = [i \in 1..Len(s) |-> s[i]]
    OBVIOUS
  <1>2. s \in [1..Len(s) -> Elements(s)]
    BY <1>1 DEF Elements
  <1> QED
    BY <1>1, <1>2 DEF IsList

LEMMA ListFacts ==
    ASSUME NEW s, IsList(s)
    PROVE  Len(s) \in Nat /\ DOMAIN s = 1..Len(s) /\ s = [i \in 1..Len(s) |-> s[i]]
  BY DEF IsList

LEMMA ListBuilt ==
    ASSUME NEW n \in Nat, NEW s, s = [i \in 1..n |-> s[i]]
    PROVE  IsList(s) /\ Len(s) = n
  <1>1. DOMAIN s = 1..n
    OBVIOUS
  <1>2. s \in [1..n -> Elements(s)]
    BY <1>1 DEF Elements
  <1>3. s \in Seq(Elements(s))
    BY <1>2
  <1> QED
    BY <1>1, <1>3 DEF IsList

LEMMA ListEqual ==
    ASSUME NEW s, NEW t, IsList(s), IsList(t), Len(s) = Len(t), \A i \in 1..Len(s) : s[i] = t[i]
    PROVE  s = t
  BY ListFacts

LEMMA ListAppend ==
    ASSUME NEW s, IsList(s), NEW e
    PROVE  /\ IsList(Append(s, e)) /\ Len(Append(s, e)) = Len(s) + 1
           /\ Append(s, e)[Len(s) + 1] = e
           /\ \A i \in 1..Len(s) : Append(s, e)[i] = s[i]
  <1> DEFINE S == Elements(s) \cup {e}
  <1>1. s \in Seq(S)
    BY SeqMonotonic DEF IsList
  <1> HIDE DEF S
  <1>2. e \in S
    BY DEF S
  <1>3. /\ Append(s, e) \in Seq(S) /\ Len(Append(s, e)) = Len(s) + 1
        /\ Append(s, e)[Len(s) + 1] = e
        /\ \A i \in 1..Len(s) : Append(s, e)[i] = s[i]
    BY <1>1, <1>2
  <1> QED
    BY <1>3, ListOf

LEMMA ListConcat ==
    ASSUME NEW s, IsList(s), NEW t, IsList(t)
    PROVE  /\ IsList(s \o t) /\ Len(s \o t) = Len(s) + Len(t)
           /\ \A i \in 1..(Len(s) + Len(t)) : (s \o t)[i] = IF i <= Len(s) THEN s[i] ELSE t[i - Len(s)]
  <1> DEFINE S == Elements(s) \cup Elements(t)
  <1>1. s \in Seq(S) /\ t \in Seq(S)
    BY SeqMonotonic DEF IsList
  <1> HIDE DEF S
  <1>2. /\ s \o t \in Seq(S) /\ Len(s \o t) = Len(s) + Len(t)
        /\ \A i \in 1..(Len(s) + Len(t)) : (s \o t)[i] = IF i <= Len(s) THEN s[i] ELSE t[i - Len(s)]
    BY <1>1, ConcatProperties
  <1> QED
    BY <1>2, ListOf

LEMMA ListPart ==
    ASSUME NEW s, IsList(s), NEW m \in 1..(Len(s) + 1), NEW n \in (m - 1)..Len(s)
    PROVE  /\ IsList(SubSeq(s, m, n)) /\ Len(SubSeq(s, m, n)) = n - m + 1
           /\ \A i \in 1..(n - m + 1) : SubSeq(s, m, n)[i] = s[m + i - 1]
  <1>1. Len(s) \in Nat /\ m \in Int /\ n \in Int /\ \A i \in m..n : s[i] \in Elements(s)
    BY ListFacts DEF Elements
  <1> DEFINE S == Elements(s)
  <1>2. \A i \in m..n : s[i] \in S
    BY <1>1
  <1> HIDE DEF S
  <1>3. /\ SubSeq(s, m, n) \in Seq(S)
        /\ Len(SubSeq(s, m, n)) = IF m <= n THEN n - m + 1 ELSE 0
        /\ \A i \in 1..(n - m + 1) : SubSeq(s, m, n)[i] = s[m + i - 1]
    BY <1>1, <1>2, SubSeqProperties
  <1>4. IsList(SubSeq(s, m, n))
    BY <1>3, ListOf
  <1>5. Len(SubSeq(s, m, n)) = n - m + 1
    BY <1>1, <1>3
  <1> QED
    BY <1>3, <1>4, <1>5

\* Where the elements go when one is put in at j.
Shifted(i, j) == IF i < j THEN i ELSE i + 1

LEMMA ListInsert ==
    ASSUME NEW s, IsList(s), NEW j \in 1..(Len(s) + 1), NEW e
    PROVE  /\ IsList(InsertAt(s, j, e)) /\ Len(InsertAt(s, j, e)) = Len(s) + 1
           /\ InsertAt(s, j, e)[j] = e
           /\ \A i \in 1..Len(s) : InsertAt(s, j, e)[Shifted(i, j)] = s[i]
  <1> DEFINE a == SubSeq(s, 1, j - 1)
             b == SubSeq(s, j, Len(s))
             o == <<e>>
             ao == a \o o
  <1>1. Len(s) \in Nat
    BY ListFacts
  <1>2. IsList(a) /\ Len(a) = j - 1 /\ \A i \in 1..(j - 1) : a[i] = s[i]
    <2>1. 1 \in 1..(Len(s) + 1) /\ j - 1 \in (1 - 1)..Len(s) /\ j - 1 - 1 + 1 = j - 1
          /\ \A i \in 1..(j - 1) : 1 + i - 1 = i
      BY <1>1
    <2> HIDE DEF a
    <2>2. /\ IsList(SubSeq(s, 1, j - 1)) /\ Len(SubSeq(s, 1, j - 1)) = j - 1 - 1 + 1
          /\ \A i \in 1..(j - 1 - 1 + 1) : SubSeq(s, 1, j - 1)[i] = s[1 + i - 1]
      BY <2>1, ListPart
    <2> QED
      BY <2>1, <2>2 DEF a
  <1>3. IsList(b) /\ Len(b) = Len(s) - j + 1 /\ \A i \in 1..(Len(s) - j + 1) : b[i] = s[j + i - 1]
    <2>1. Len(s) \in (j - 1)..Len(s)
      BY <1>1
    <2> QED
      BY <2>1, ListPart
  <1>4. IsList(o) /\ Len(o) = 1 /\ o[1] = e
    <2>1. o \in Seq({e})
      OBVIOUS
    <2> QED
      BY <2>1, ListOf
  <1> HIDE DEF a, b, o
  <1>5. /\ IsList(ao) /\ Len(ao) = j
        /\ \A i \in 1..j : ao[i] = IF i <= j - 1 THEN a[i] ELSE o[i - (j - 1)]
    <2>1. /\ IsList(a \o o) /\ Len(a \o o) = Len(a) + Len(o)
          /\ \A i \in 1..(Len(a) + Len(o)) : (a \o o)[i] = IF i <= Len(a) THEN a[i] ELSE o[i - Len(a)]
      BY <1>2, <1>4, ListConcat
    <2>2. Len(a) + Len(o) = j
      BY <1>1, <1>2, <1>4
    <2>3. Len(a) = j - 1
      BY <1>2
    <2> HIDE DEF ao
    <2> QED
      BY <2>1, <2>2, <2>3 DEF ao
  <1> HIDE DEF ao
  <1>6. /\ IsList(ao \o b) /\ Len(ao \o b) = Len(s) + 1
        /\ \A i \in 1..(Len(s) + 1) : (ao \o b)[i] = IF i <= j THEN ao[i] ELSE b[i - j]
    <2>1. /\ IsList(ao \o b) /\ Len(ao \o b) = Len(ao) + Len(b)
          /\ \A i \in 1..(Len(ao) + Len(b)) : (ao \o b)[i] = IF i <= Len(ao) THEN ao[i] ELSE b[i - Len(ao)]
      BY <1>3, <1>5, ListConcat
    <2>2. Len(ao) + Len(b) = Len(s) + 1 /\ Len(ao) = j
      BY <1>1, <1>3, <1>5
    <2> QED
      BY <2>1, <2>2
  <1>7. InsertAt(s, j, e) = ao \o b
    BY DEF InsertAt, ao, a, b, o
  <1> HIDE <1>7
  <1>8. (ao \o b)[j] = e
    <2>1. j \in 1..j /\ j \in 1..(Len(s) + 1) /\ ~ (j <= j - 1) /\ j - (j - 1) = 1
      BY <1>1
    <2> QED
      BY <2>1, <1>4, <1>5, <1>6
  <1>9. ASSUME NEW i \in 1..Len(s) PROVE (ao \o b)[Shifted(i, j)] = s[i]
    <2>1. CASE i < j
      <3>1. i \in 1..(j - 1) /\ i \in 1..j /\ i \in 1..(Len(s) + 1) /\ i <= j
        BY <2>1, <1>1
      <3> QED
        BY <3>1, <2>1, <1>2, <1>5, <1>6 DEF Shifted
    <2>2. CASE ~ (i < j)
      <3>1. i + 1 \in 1..(Len(s) + 1) /\ ~ (i + 1 <= j) /\ (i + 1) - j \in 1..(Len(s) - j + 1)
            /\ j + ((i + 1) - j) - 1 = i
        BY <2>2, <1>1
      <3>2. (ao \o b)[i + 1] = b[(i + 1) - j]
        BY <3>1, <1>6
      <3>3. b[(i + 1) - j] = s[j + ((i + 1) - j) - 1]
        BY <3>1, <1>3
      <3> QED
        BY <2>2, <3>1, <3>2, <3>3 DEF Shifted
    <2> QED
      BY <2>1, <2>2
  <1> QED
    BY <1>6, <1>7, <1>8, <1>9

LEMMA ListRemove ==
    ASSUME NEW s, IsList(s), NEW j \in 1..Len(s)
    PROVE  /\ IsList(RemoveAt(s, j)) /\ Len(RemoveAt(s, j)) = Len(s) - 1
           /\ \A i \in 1..(Len(s) - 1) : RemoveAt(s, j)[i] = s[Shifted(i, j)]
  <1> DEFINE a == SubSeq(s, 1, j - 1)
             b == SubSeq(s, j + 1, Len(s))
  <1>1. Len(s) \in Nat
    BY ListFacts
  <1>2. IsList(a) /\ Len(a) = j - 1 /\ \A i \in 1..(j - 1) : a[i] = s[i]
    <2>1. 1 \in 1..(Len(s) + 1) /\ j - 1 \in (1 - 1)..Len(s) /\ j - 1 - 1 + 1 = j - 1
          /\ \A i \in 1..(j - 1) : 1 + i - 1 = i
      BY <1>1
    <2> HIDE DEF a
    <2>2. /\ IsList(SubSeq(s, 1, j - 1)) /\ Len(SubSeq(s, 1, j - 1)) = j - 1 - 1 + 1
          /\ \A i \in 1..(j - 1 - 1 + 1) : SubSeq(s, 1, j - 1)[i] = s[1 + i - 1]
      BY <2>1, ListPart
    <2> QED
      BY <2>1, <2>2 DEF a
  <1>3. IsList(b) /\ Len(b) = Len(s) - j /\ \A i \in 1..(Len(s) - j) : b[i] = s[j + i]
    <2>1. Len(s) \in ((j + 1) - 1)..Len(s) /\ j + 1 \in 1..(Len(s) + 1) /\ Len(s) - (j + 1) + 1 = Len(s) - j
          /\ \A i \in 1..(Len(s) - j) : (j + 1) + i - 1 = j + i
      BY <1>1
    <2> HIDE DEF b
    <2>2. /\ IsList(SubSeq(s, j + 1, Len(s))) /\ Len(SubSeq(s, j + 1, Len(s))) = Len(s) - (j + 1) + 1
          /\ \A i \in 1..(Len(s) - (j + 1) + 1) : SubSeq(s, j + 1, Len(s))[i] = s[(j + 1) + i - 1]
      <3> DEFINE m == j + 1
                 n == Len(s)
      <3>1. m \in 1..(Len(s) + 1) /\ n \in (m - 1)..Len(s)
        BY <2>1
      <3> HIDE DEF m, n
      <3>2. /\ IsList(SubSeq(s, m, n)) /\ Len(SubSeq(s, m, n)) = n - m + 1
            /\ \A i \in 1..(n - m + 1) : SubSeq(s, m, n)[i] = s[m + i - 1]
        BY ONLY <3>1, IsList(s), ListPart
      <3> QED
        BY ONLY <3>2 DEF m, n
    <2> QED
      BY <2>1, <2>2 DEF b
  <1> HIDE DEF a, b
  <1>4. /\ IsList(a \o b) /\ Len(a \o b) = Len(s) - 1
        /\ \A i \in 1..(Len(s) - 1) : (a \o b)[i] = IF i <= j - 1 THEN a[i] ELSE b[i - (j - 1)]
    <2>1. /\ IsList(a \o b) /\ Len(a \o b) = Len(a) + Len(b)
          /\ \A i \in 1..(Len(a) + Len(b)) : (a \o b)[i] = IF i <= Len(a) THEN a[i] ELSE b[i - Len(a)]
      BY ONLY <1>2, <1>3, ListConcat
    <2>2. Len(a) + Len(b) = Len(s) - 1
      BY <1>1, <1>2, <1>3
    <2> QED
      BY ONLY <1>2, <2>1, <2>2
  <1>5. RemoveAt(s, j) = a \o b
    BY DEF RemoveAt, a, b
  <1>6. ASSUME NEW i \in 1..(Len(s) - 1) PROVE (a \o b)[i] = s[Shifted(i, j)]
    <2>1. i < j => i \in 1..(j - 1) /\ i <= j - 1
      BY <1>1
    <2>2. ~ (i < j) => i - (j - 1) \in 1..(Len(s) - j) /\ ~ (i <= j - 1) /\ j + (i - (j - 1)) = i + 1
      BY <1>1
    <2> QED
      BY <2>1, <2>2, <1>2, <1>3, <1>4 DEF Shifted
  <1> QED
    BY <1>4, <1>5, <1>6

\* A list without its last element.
LEMMA ListFront ==
    ASSUME NEW s, IsList(s), Len(s) > 0
    PROVE  /\ IsList(SubSeq(s, 1, Len(s) - 1)) /\ Len(SubSeq(s, 1, Len(s) - 1)) = Len(s) - 1
           /\ \A i \in 1..(Len(s) - 1) : SubSeq(s, 1, Len(s) - 1)[i] = s[i]
  <1>0. Len(s) \in Nat
    BY ListFacts
  <1>1. 1 \in 1..(Len(s) + 1) /\ Len(s) - 1 \in (1 - 1)..Len(s) /\ Len(s) - 1 - 1 + 1 = Len(s) - 1
        /\ \A i \in 1..(Len(s) - 1) : 1 + i - 1 = i
    BY <1>0
  <1> DEFINE f == SubSeq(s, 1, Len(s) - 1)
  <1>2. /\ IsList(f) /\ Len(f) = Len(s) - 1 - 1 + 1
        /\ \A i \in 1..(Len(s) - 1 - 1 + 1) : f[i] = s[1 + i - 1]
    BY <1>1, ListPart
  <1> HIDE DEF f
  <1> QED
    BY <1>1, <1>2 DEF f

LEMMA NoList == IsList(<<>>) /\ Len(<<>>) = 0
  <1>1. <<>> \in Seq({}) /\ Len(<<>>) = 0
    OBVIOUS
  <1> QED
    BY <1>1, ListOf

LEMMA ConcatNone ==
    ASSUME NEW s, IsList(s) PROVE s \o <<>> = s /\ <<>> \o s = s
  <1> DEFINE e == <<>>
             a == s \o e
             b == e \o s
  <1>1. IsList(e) /\ Len(e) = 0 /\ Len(s) \in Nat
    BY NoList, ListFacts
  <1> HIDE DEF e
  <1>2. /\ IsList(a) /\ Len(a) = Len(s) + Len(e)
        /\ \A i \in 1..(Len(s) + Len(e)) : a[i] = IF i <= Len(s) THEN s[i] ELSE e[i - Len(s)]
    BY <1>1, ListConcat
  <1>3. /\ IsList(b) /\ Len(b) = Len(e) + Len(s)
        /\ \A i \in 1..(Len(e) + Len(s)) : b[i] = IF i <= Len(e) THEN e[i] ELSE s[i - Len(e)]
    BY <1>1, ListConcat
  <1> HIDE DEF a, b
  <1>4. Len(a) = Len(s) /\ \A i \in 1..Len(s) : a[i] = s[i]
    BY <1>1, <1>2
  <1>5. Len(b) = Len(s) /\ \A i \in 1..Len(s) : b[i] = s[i]
    BY <1>1, <1>3
  <1>6. a = s
    BY <1>2, <1>4, ListEqual
  <1>7. b = s
    BY <1>3, <1>5, ListEqual
  <1> QED
    BY <1>6, <1>7 DEF a, b, e

LEMMA ConcatTwice ==
    ASSUME NEW s, IsList(s), NEW t, IsList(t), NEW u, IsList(u)
    PROVE  (s \o t) \o u = s \o (t \o u)
  <1> DEFINE st == s \o t
             tu == t \o u
             a == st \o u
             b == s \o tu
             S == Len(s)
             T == Len(t)
             U == Len(u)
  <1>1. S \in Nat /\ T \in Nat /\ U \in Nat
    BY ListFacts
  <1>2. /\ IsList(st) /\ Len(st) = S + T
        /\ \A i \in 1..(S + T) : st[i] = IF i <= S THEN s[i] ELSE t[i - S]
    BY ListConcat
  <1>3. /\ IsList(tu) /\ Len(tu) = T + U
        /\ \A i \in 1..(T + U) : tu[i] = IF i <= T THEN t[i] ELSE u[i - T]
    BY ListConcat
  <1> HIDE DEF st, tu
  <1>4. /\ IsList(a) /\ Len(a) = Len(st) + U
        /\ \A i \in 1..(Len(st) + U) : a[i] = IF i <= Len(st) THEN st[i] ELSE u[i - Len(st)]
    BY <1>2, ListConcat
  <1>5. /\ IsList(b) /\ Len(b) = S + Len(tu)
        /\ \A i \in 1..(S + Len(tu)) : b[i] = IF i <= S THEN s[i] ELSE tu[i - S]
    BY <1>3, ListConcat
  <1> HIDE DEF a, b, S, T, U
  <1>6. Len(a) = Len(b) /\ Len(a) = S + T + U
    BY <1>1, <1>2, <1>3, <1>4, <1>5
  <1>7. ASSUME NEW i \in 1..Len(a) PROVE a[i] = b[i]
    <2>0. i \in Nat /\ i >= 1 /\ i <= S + T + U /\ i \in 1..(Len(st) + U) /\ i \in 1..(S + Len(tu))
      BY <1>1, <1>2, <1>3, <1>6
    <2>1. CASE i <= S
      <3>1. i \in 1..(S + T) /\ i <= S + T
        BY <1>1, <2>0, <2>1
      <3> QED
        BY <1>2, <1>4, <1>5, <2>0, <2>1, <3>1
    <2>2. CASE ~ (i <= S) /\ i <= S + T
      <3>1. i \in 1..(S + T) /\ i - S \in 1..(T + U) /\ i - S <= T
        BY <1>1, <2>0, <2>2
      <3>2. a[i] = t[i - S]
        BY <1>2, <1>4, <2>0, <2>2, <3>1
      <3>3. b[i] = tu[i - S]
        BY <1>5, <2>0, <2>2
      <3> QED
        BY <1>3, <3>1, <3>2, <3>3
    <2>3. CASE ~ (i <= S + T)
      <3>1. ~ (i <= S) /\ i - S \in 1..(T + U) /\ ~ (i - S <= T) /\ (i - S) - T = i - (S + T)
        BY <1>1, <2>0, <2>3
      <3>2. a[i] = u[i - (S + T)]
        BY <1>2, <1>4, <2>0, <2>3
      <3>3. b[i] = tu[i - S]
        BY <1>5, <2>0, <3>1
      <3>4. tu[i - S] = u[(i - S) - T]
        BY <1>3, <3>1
      <3> QED
        BY <3>1, <3>2, <3>3, <3>4
    <2> QED
      BY <2>1, <2>2, <2>3
  <1>8. a = b
    BY <1>4, <1>5, <1>6, <1>7, ListEqual
  <1> QED
    BY <1>8 DEF a, b, st, tu

LEMMA ConcatCancels ==
    ASSUME NEW s, IsList(s), NEW t, IsList(t), NEW u, IsList(u), s \o t = s \o u
    PROVE  t = u
  <1> DEFINE a == s \o t
             S == Len(s)
  <1>1. S \in Nat /\ Len(t) \in Nat /\ Len(u) \in Nat
    BY ListFacts
  <1>2. Len(a) = S + Len(t) /\ \A i \in 1..(S + Len(t)) : a[i] = IF i <= S THEN s[i] ELSE t[i - S]
    BY ListConcat
  <1>3. Len(s \o u) = S + Len(u)
        /\ \A i \in 1..(S + Len(u)) : (s \o u)[i] = IF i <= S THEN s[i] ELSE u[i - S]
    BY ListConcat
  <1>4. s \o u = a
    OBVIOUS
  <1> HIDE DEF a, S
  <1>5. Len(t) = Len(u)
    BY <1>1, <1>2, <1>3, <1>4
  <1>6. ASSUME NEW i \in 1..Len(t) PROVE t[i] = u[i]
    <2> DEFINE k == S + i
    <2>1. k \in 1..(S + Len(t)) /\ k \in 1..(S + Len(u)) /\ ~ (k <= S) /\ k - S = i
      BY <1>1, <1>5
    <2> HIDE DEF k
    <2>2. a[k] = t[k - S] /\ a[k] = u[k - S]
      BY <1>2, <1>3, <1>4, <2>1
    <2> QED
      BY <2>1, <2>2
  <1> QED
    BY <1>5, <1>6, ListEqual


\* The concatenation of the first k lists of w.
IsJoining(f, w) ==
    f = [k \in 0..Len(w) |-> IF k = 0 THEN <<>> ELSE (f[k - 1] \o w[k])]

LEMMA JoiningExists ==
    ASSUME NEW w, Len(w) \in Nat PROVE \E f : IsJoining(f, w)
  <1> DEFINE start == <<>>
             Fits(f, m) == f = [k \in 0..m |-> IF k = 0 THEN start ELSE (f[k - 1] \o w[k])]
             S == {m \in Nat : \E f : Fits(f, m)}
  <1> HIDE DEF start
  <1>1. 0 \in S
    <2>1. Fits([k \in 0..0 |-> start], 0)
      OBVIOUS
    <2> QED
      BY <2>1
  <1>2. ASSUME NEW m \in Nat, m \in S PROVE m + 1 \in S
    <2>1. PICK g : Fits(g, m)
      BY <1>2
    <2> DEFINE f == [k \in 0..(m + 1) |-> IF k = m + 1 THEN (g[m] \o w[m + 1]) ELSE g[k]]
    <2>2. \A k \in 0..m : f[k] = g[k]
      OBVIOUS
    <2>3. ASSUME NEW k \in 0..(m + 1)
          PROVE  f[k] = IF k = 0 THEN start ELSE (f[k - 1] \o w[k])
      <3>1. CASE k = m + 1
        <4>1. k # 0 /\ k - 1 = m /\ m \in 0..m
          BY <3>1
        <4>2. f[k] = (g[m] \o w[m + 1])
          BY <3>1
        <4> QED
          BY <4>1, <4>2, <3>1, <2>2
      <3>2. CASE k # m + 1
        <4>1. k \in 0..m /\ (k # 0 => k - 1 \in 0..m)
          BY <3>2
        <4>2. g[k] = IF k = 0 THEN start ELSE (g[k - 1] \o w[k])
          BY <4>1, <2>1
        <4> HIDE DEF f
        <4> QED
          BY <4>1, <4>2, <2>2
      <3> QED
        BY <3>1, <3>2
    <2>4. f = [k \in 0..(m + 1) |-> f[k]]
      OBVIOUS
    <2> HIDE DEF f
    <2>5. Fits(f, m + 1)
      BY <2>3, <2>4
    <2> QED
      BY <2>5
  <1>3. Nat \subseteq S
    <2> HIDE DEF S
    <2> QED
      BY <1>1, <1>2, NatInductionOn
  <1>4. PICK f : Fits(f, Len(w))
    BY <1>3
  <1> QED
    BY <1>4 DEF IsJoining, start
AreLists(w) == IsList(w) /\ \A i \in 1..Len(w) : IsList(w[i])

LEMMA JoiningFacts ==
    ASSUME NEW w, AreLists(w), NEW g, IsJoining(g, w)
    PROVE  /\ g[0] = <<>>
           /\ \A k \in 1..Len(w) : g[k] = g[k - 1] \o w[k]
           /\ \A k \in 0..Len(w) : IsList(g[k])
  <1> DEFINE N == Len(w)
             S == {k \in Nat : k <= N => IsList(g[k])}
  <1>1. N \in Nat /\ \A i \in 1..N : IsList(w[i])
    BY ListFacts DEF AreLists
  <1>2. g[0] = <<>>
    BY <1>1 DEF IsJoining
  <1>3. ASSUME NEW k \in 1..N PROVE g[k] = g[k - 1] \o w[k]
    <2>1. k \in 0..N /\ k # 0
      BY <1>1
    <2> QED
      BY <2>1, Zenon DEF IsJoining
  <1> HIDE DEF N
  <1>4. 0 \in S
    BY <1>2, NoList
  <1>5. ASSUME NEW k \in Nat, k \in S PROVE k + 1 \in S
    <2> SUFFICES ASSUME k + 1 <= N PROVE IsList(g[k + 1])
      OBVIOUS
    <2>1. k + 1 \in 1..N /\ (k + 1) - 1 = k /\ k <= N
      BY <1>1
    <2>2. g[k + 1] = g[k] \o w[k + 1]
      BY <1>3, <2>1
    <2>3. IsList(g[k]) /\ IsList(w[k + 1])
      BY <1>1, <1>5, <2>1
    <2> QED
      BY <2>2, <2>3, ListConcat
  <1>6. Nat \subseteq S
    <2> HIDE DEF S
    <2> QED
      BY <1>4, <1>5, NatInductionOn
  <1>7. \A k \in 0..N : IsList(g[k])
    BY <1>1, <1>6
  <1> QED
    BY <1>2, <1>3, <1>7 DEF N

IsFlattening(f, w) == f = [i \in 1..Len(w) |-> IF i = 1 THEN w[i] ELSE f[i - 1] \o w[i]]

LEMMA FlattenJoins ==
    ASSUME NEW w, AreLists(w), NEW g, IsJoining(g, w)
    PROVE  FlattenSeq(w) = g[Len(w)]
  <1> DEFINE N == Len(w)
             f == CHOOSE h : IsFlattening(h, w)
             e == [i \in 1..N |-> g[i]]
  <1>1. N \in Nat /\ \A i \in 1..N : IsList(w[i])
    BY ListFacts DEF AreLists
  <1>2. g[0] = <<>> /\ \A k \in 1..N : g[k] = g[k - 1] \o w[k]
    BY JoiningFacts
  <1>3. CASE N = 0
    <2>1. FlattenSeq(w) = w
      BY <1>3 DEF FlattenSeq
    <2>2. w = <<>>
      BY <1>3 DEF AreLists, IsList
    <2> QED
      BY <1>2, <1>3, <2>1, <2>2
  <1>4. CASE N # 0
    <2>1. FlattenSeq(w) = f[N]
      BY <1>4 DEF FlattenSeq, IsFlattening
    <2> HIDE DEF N
    <2>2. \A i \in 1..N : e[i] = IF i = 1 THEN w[i] ELSE e[i - 1] \o w[i]
      <3> SUFFICES ASSUME NEW i \in 1..N
                   PROVE  e[i] = IF i = 1 THEN w[i] ELSE e[i - 1] \o w[i]
        OBVIOUS
      <3>1. CASE i = 1
        <4>1. g[i] = g[i - 1] \o w[i]
          BY <1>2
        <4>2. i - 1 = 0
          BY <3>1
        <4>3. IsList(w[i])
          BY <1>1
        <4>4. <<>> \o w[i] = w[i]
          BY <4>3, ConcatNone
        <4>5. g[i] = w[i]
          BY <4>1, <4>2, <4>4, <1>2
        <4>6. e[i] = g[i]
          OBVIOUS
        <4> QED
          BY <3>1, <4>5, <4>6
      <3>2. CASE i # 1
        <4>1. i - 1 \in 1..N
          BY <1>1, <3>2
        <4>2. g[i] = g[i - 1] \o w[i]
          BY <1>2
        <4>3. e[i] = g[i] /\ e[i - 1] = g[i - 1]
          BY <4>1
        <4> QED
          BY <3>2, <4>2, <4>3
      <3> QED
        BY <3>1, <3>2
    <2>3. IsFlattening(e, w)
      <3>1. e = [i \in 1..N |-> e[i]]
        OBVIOUS
      <3> HIDE DEF e
      <3>2. e = [i \in 1..N |-> IF i = 1 THEN w[i] ELSE e[i - 1] \o w[i]]
        BY <2>2, <3>1
      <3> QED
        BY <3>2 DEF IsFlattening, N
    <2>4. IsFlattening(f, w)
      BY <2>3
    <2> HIDE DEF f
    <2>5. \A i \in 1..N : f[i] = IF i = 1 THEN w[i] ELSE f[i - 1] \o w[i]
      BY <2>4, Zenon DEF IsFlattening, N
    <2>0. \A i \in 1..N : e[i] = g[i]
      OBVIOUS
    <2> HIDE DEF e
    <2> DEFINE S == {k \in Nat : k <= N /\ k # 0 => f[k] = g[k]}
    <2>6. 0 \in S
      OBVIOUS
    <2>7. ASSUME NEW k \in Nat, k \in S PROVE k + 1 \in S
      <3> SUFFICES ASSUME k + 1 <= N PROVE f[k + 1] = g[k + 1]
        OBVIOUS
      <3>1. k + 1 \in 1..N /\ (k + 1) - 1 = k /\ k <= N
        BY <1>1
      <3>2. CASE k = 0
        <4>1. k + 1 = 1 /\ 1 \in 1..N
          BY <3>1, <3>2
        <4>2. f[1] = w[1]
          BY <2>5, <4>1
        <4>3. e[1] = w[1]
          BY <2>2, <4>1
        <4>4. e[1] = g[1]
          BY <2>0, <4>1
        <4> QED
          BY <4>1, <4>2, <4>3, <4>4
      <3>3. CASE k # 0
        <4> DEFINE i == k + 1
        <4>0. i \in 1..N /\ i # 1 /\ i - 1 = k
          BY <3>1, <3>3
        <4>5. i = k + 1
          OBVIOUS
        <4> HIDE DEF i
        <4>1. f[i] = f[i - 1] \o w[i]
          BY <2>5, <4>0
        <4>2. g[i] = g[i - 1] \o w[i]
          BY <1>2, <4>0
        <4>3. f[k] = g[k]
          BY <2>7, <3>1, <3>3
        <4> QED
          BY <4>0, <4>1, <4>2, <4>3, <4>5
      <3> QED
        BY <3>2, <3>3
    <2>8. Nat \subseteq S
      <3> HIDE DEF S
      <3> QED
        BY <2>6, <2>7, NatInductionOn
    <2>9. f[N] = g[N]
      BY <1>1, <1>4, <2>8
    <2> QED
      BY <2>1, <2>9 DEF N
  <1> QED
    BY <1>3, <1>4

\* What follows the first k lists.
LEMMA JoiningTails ==
    ASSUME NEW w, AreLists(w), NEW g, IsJoining(g, w), NEW k \in 0..Len(w)
    PROVE  \E x : IsList(x) /\ g[Len(w)] = g[k] \o x
  <1> DEFINE N == Len(w)
             P(j) == \E x : IsList(x) /\ g[N] = g[j] \o x
             S == {d \in Nat : d <= N => P(N - d)}
  <1>1. N \in Nat /\ \A i \in 1..N : IsList(w[i])
    BY ListFacts DEF AreLists
  <1>2. /\ \A j \in 1..N : g[j] = g[j - 1] \o w[j]
        /\ \A j \in 0..N : IsList(g[j])
    BY JoiningFacts
  <1> HIDE DEF N
  <1>3. 0 \in S
    <2>1. N - 0 = N /\ IsList(g[N])
      BY <1>1, <1>2
    <2>2. IsList(<<>>)
      BY NoList
    <2>3. g[N] \o <<>> = g[N]
      BY <2>1, ConcatNone
    <2>4. P(N)
      BY <2>2, <2>3
    <2> QED
      BY <2>1, <2>4
  <1>4. ASSUME NEW d \in Nat, d \in S PROVE d + 1 \in S
    <2> SUFFICES ASSUME d + 1 <= N PROVE P(N - (d + 1))
      OBVIOUS
    <2> DEFINE j == N - d
    <2>1. j \in 1..N /\ d <= N /\ N - (d + 1) = j - 1 /\ j - 1 \in 0..N
      BY <1>1
    <2>2. PICK x : IsList(x) /\ g[N] = g[j] \o x
      BY <1>4, <2>1
    <2> HIDE DEF j
    <2>3. g[j] = g[j - 1] \o w[j] /\ IsList(w[j]) /\ IsList(g[j - 1])
      BY <1>1, <1>2, <2>1
    <2>4. g[N] = g[j - 1] \o (w[j] \o x)
      <3>1. g[N] = (g[j - 1] \o w[j]) \o x
        BY <2>2, <2>3
      <3> DEFINE a == g[j - 1]
                 b == w[j]
      <3>2. (a \o b) \o x = a \o (b \o x)
        <4>1. IsList(a) /\ IsList(b) /\ IsList(x)
          BY <2>2, <2>3
        <4> HIDE DEF a, b
        <4> QED
          BY <4>1, ConcatTwice
      <3> QED
        BY <3>1, <3>2
    <2>5. IsList(w[j] \o x)
      BY <2>2, <2>3, ListConcat
    <2> QED
      BY <2>1, <2>4, <2>5
  <1>5. Nat \subseteq S
    <2> HIDE DEF S
    <2> QED
      BY <1>3, <1>4, NatInductionOn
  <1>6. N - k \in Nat /\ N - k <= N /\ N - (N - k) = k
    BY <1>1 DEF N
  <1>7. P(k)
    <2> HIDE DEF P
    <2>1. P(N - (N - k))
      BY <1>5, <1>6
    <2> QED
      BY <1>6, <2>1
  <1> QED
    BY <1>7 DEF N

\* The first element of a list and the others.
LEMMA ListTail ==
    ASSUME NEW e, NEW x, IsList(x), NEW s, s = <<e>> \o x
    PROVE  IsList(s) /\ Head(s) = e /\ s[1] = e /\ Tail(s) = x
  <1> DEFINE o == <<e>>
             t == Tail(s)
             X == Len(x)
  <1>1. IsList(o) /\ Len(o) = 1 /\ o[1] = e
    <2>1. o \in Seq({e}) /\ Len(o) = 1 /\ o[1] = e
      OBVIOUS
    <2> HIDE DEF o
    <2> QED
      BY <2>1, ListOf
  <1>0. s = o \o x
    OBVIOUS
  <1> HIDE DEF o, X
  <1>2. /\ IsList(s) /\ Len(s) = 1 + X
        /\ \A i \in 1..(1 + X) : s[i] = IF i <= 1 THEN o[i] ELSE x[i - 1]
    <2>1. /\ IsList(o \o x) /\ Len(o \o x) = Len(o) + Len(x)
          /\ \A i \in 1..(Len(o) + Len(x)) :
                (o \o x)[i] = IF i <= Len(o) THEN o[i] ELSE x[i - Len(o)]
      BY <1>1, ListConcat
    <2> QED
      BY <2>1, <1>0, <1>1 DEF X
  <1>3. X \in Nat
    BY ListFacts DEF X
  <1>4. s[1] = e
    <2>1. 1 \in 1..(1 + X)
      BY <1>3
    <2> QED
      BY <1>1, <1>2, <2>1
  <1>5. s # <<>>
    BY <1>2, <1>3, NoList
  <1>6. Head(s) = e
    BY <1>2, <1>4, <1>5, HeadTailProperties DEF IsList
  <1>7. t \in Seq(Elements(s)) /\ Len(t) = Len(s) - 1 /\ \A i \in 1..Len(t) : t[i] = s[i + 1]
    BY <1>2, <1>5, HeadTailProperties DEF IsList
  <1> HIDE DEF t
  <1>8. IsList(t) /\ Len(t) = X
    BY <1>2, <1>3, <1>7, ListOf
  <1>9. ASSUME NEW i \in 1..Len(t) PROVE t[i] = x[i]
    <2>1. i + 1 \in 1..(1 + X) /\ ~ (i + 1 <= 1) /\ (i + 1) - 1 = i
      BY <1>3, <1>8
    <2>2. s[i + 1] = x[(i + 1) - 1]
      BY <1>2, <2>1
    <2> QED
      BY <1>7, <2>1, <2>2
  <1>10. t = x
    BY <1>8, <1>9, ListEqual DEF X
  <1> QED
    BY <1>2, <1>4, <1>6, <1>10 DEF t
=============================================================================
