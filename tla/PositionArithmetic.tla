------------------------- MODULE PositionArithmetic -------------------------
(***************************************************************************)
(* What the operators of ForestPositions compute, in terms of rows and     *)
(* offsets: the node with offset `off` in row `row` of a forest of rows    *)
(* `rows` is at position First(row, rows) + off.                           *)
(***************************************************************************)
EXTENDS ForestPositions, Induction, FiniteSetTheorems

-----------------------------------------------------------------------------
(***************************************************************************)
(* Powers of two, counted as the subsets of 1..k.                          *)
(***************************************************************************)

\* The number of subsets of 1..k is 2^k.
LEMMA PowerCounts ==
    ASSUME NEW k \in Nat
    PROVE  /\ IsFiniteSet(SUBSET (1..k))
           /\ Cardinality(SUBSET (1..k)) = 2^k
           /\ 2^k \in Nat
  <1>1. IsFiniteSet(1..k) /\ Cardinality(1..k) = k
    BY FS_Interval
  <1>2. IsFiniteSet(SUBSET (1..k)) /\ Cardinality(SUBSET (1..k)) = 2^Cardinality(1..k)
    BY <1>1, FS_SUBSET
  <1>3. Cardinality(SUBSET (1..k)) \in Nat
    BY <1>2, FS_CardinalityType
  <1> QED
    BY <1>1, <1>2, <1>3

\* A set has as many subsets with a new element as it has without it.
LEMMA PowerDoubles ==
    ASSUME NEW k \in Nat
    PROVE  2^(k + 1) = 2 * 2^k
  <1> DEFINE m == k + 1
             S == SUBSET (1..k)
             U == SUBSET (1..m)
             T == {A \cup {m} : A \in S}
             f == [A \in S |-> A \cup {m}]
  <1>0. m \in Nat /\ m \notin 1..k /\ 1..m = (1..k) \cup {m}
    OBVIOUS
  <1>1. IsFiniteSet(S) /\ Cardinality(S) = 2^k /\ 2^k \in Nat
    BY PowerCounts
  <1>2. Cardinality(U) = 2^m
    <2> HIDE DEF m
    <2> QED
      BY <1>0, PowerCounts
  <1> HIDE DEF m
  <1>3. U = S \cup T
    <2>1. ASSUME NEW B \in U PROVE B \in S \cup T
      <3>1. B \ {m} \in S
        BY <1>0
      <3>2. m \in B => B = (B \ {m}) \cup {m}
        OBVIOUS
      <3>3. m \in B => B \in T
        BY <3>1, <3>2
      <3>4. m \notin B => B \in S
        BY <1>0
      <3> QED
        BY <3>3, <3>4
    <2>2. ASSUME NEW A \in S PROVE A \in U /\ A \cup {m} \in U
      BY <1>0
    <2>3. S \cup T \subseteq U
      BY <2>2
    <2> HIDE DEF S, T, U
    <2> QED
      BY <2>1, <2>3
  <1>4. S \cap T = {}
    BY <1>0
  <1>5. f \in Bijection(S, T)
    <2>1. \A A \in S : m \notin A
      BY <1>0
    <2>2. \A A, B \in S : f[A] = f[B] => A = B
      BY <2>1
    <2>3. \A B \in T : \E A \in S : f[A] = B
      OBVIOUS
    <2>4. f \in [S -> T]
      OBVIOUS
    <2> HIDE DEF S, T, f
    <2> QED
      BY <2>2, <2>3, <2>4 DEF Bijection, Injection, IsInjective, Surjection
  <1> HIDE DEF S, T, U, f
  <1>6. IsFiniteSet(T) /\ Cardinality(T) = 2^k
    BY <1>1, <1>5, FS_Bijection DEF ExistsBijection
  <1>7. Cardinality(S \cup T) = Cardinality(S) + Cardinality(T) - Cardinality(S \cap T)
    BY <1>1, <1>6, FS_Union
  <1>8. Cardinality(S \cap T) = 0
    BY <1>4, FS_EmptySet
  <1>9. 2^m = 2^k + 2^k - 0
    BY <1>1, <1>2, <1>3, <1>6, <1>7, <1>8
  <1>10. 2^m = 2 * 2^k
    BY <1>9, <1>1
  <1> QED
    BY <1>10 DEF m

LEMMA Powers ==
    /\ 2^0 = 1 /\ 2^1 = 2
    /\ \A k \in Nat : 2^k \in Nat /\ 2^k >= 1 /\ 2^(k + 1) = 2 * 2^k
    /\ \A k \in Nat : k # 0 => k - 1 \in Nat /\ 2^k = 2 * 2^(k - 1)
  <1>1. 2^0 = 1 /\ 2^1 = 2
    OBVIOUS
  <1>2. \A k \in Nat : 2^k \in Nat /\ 2^(k + 1) = 2 * 2^k
    BY PowerCounts, PowerDoubles
  <1> DEFINE S == {k \in Nat : 2^k >= 1}
  <1>3. 0 \in S
    BY <1>1
  <1>4. \A k \in Nat : k \in S => k + 1 \in S
    BY <1>2
  <1>5. Nat \subseteq S
    <2> HIDE DEF S
    <2> QED
      BY <1>3, <1>4, NatInductionOn
  <1>6. ASSUME NEW k \in Nat, k # 0 PROVE k - 1 \in Nat /\ 2^k = 2 * 2^(k - 1)
    <2>1. k - 1 \in Nat /\ (k - 1) + 1 = k
      BY <1>6
    <2>2. 2^((k - 1) + 1) = 2 * 2^(k - 1)
      BY <2>1, <1>2
    <2> QED
      BY <2>1, <2>2
  <1> QED
    BY <1>1, <1>2, <1>5, <1>6

\* 2^(j + k) = 2^j * 2^k.
LEMMA PowerSum ==
    ASSUME NEW j \in Nat, NEW k \in Nat
    PROVE  2^(j + k) = 2^j * 2^k
  <1> DEFINE S == {i \in Nat : 2^(j + i) = 2^j * 2^i}
  <1>0. 2^j \in Nat
    BY Powers
  <1>1. 0 \in S
    BY <1>0, Powers
  <1>2. ASSUME NEW i \in Nat, i \in S PROVE i + 1 \in S
    <2>1. 2^(j + i) = 2^j * 2^i
      BY <1>2
    <2>2. 2^((j + i) + 1) = 2 * 2^(j + i) /\ 2^(i + 1) = 2 * 2^i /\ 2^i \in Nat
      BY Powers
    <2>3. 2^(j + (i + 1)) = 2 * (2^j * 2^i)
      BY <2>1, <2>2
    <2>4. \A a, b \in Nat : 2 * (a * b) = a * (2 * b)
      OBVIOUS
    <2>5. 2 * (2^j * 2^i) = 2^j * (2 * 2^i)
      BY <1>0, <2>2, <2>4
    <2> QED
      BY <2>2, <2>3, <2>5
  <1> HIDE DEF S
  <1>3. k \in S
    BY <1>1, <1>2, NatInductionOn
  <1> QED
    BY <1>3 DEF S

LEMMA PowerMonotone ==
    ASSUME NEW j \in Nat, NEW k \in Nat
    PROVE  /\ j <= k => 2^j <= 2^k
           /\ j < k => 2 * 2^j <= 2^k
           /\ 2^j < 2^k => j < k
           /\ 2^j = 2^k => j = k
  <1>1. ASSUME NEW a \in Nat, NEW b \in Nat, a <= b PROVE 2^a <= 2^b
    <2>1. b - a \in Nat /\ a + (b - a) = b
      BY <1>1
    <2>2. 2^b = 2^a * 2^(b - a)
      <3>1. 2^(a + (b - a)) = 2^a * 2^(b - a)
        BY <2>1, PowerSum
      <3> QED
        BY <2>1, <3>1
    <2>3. 2^a \in Nat /\ 2^(b - a) \in Nat /\ 2^(b - a) >= 1
      BY <2>1, Powers
    <2>4. \A x, y \in Nat : y >= 1 => x <= x * y
      BY Z3
    <2> QED
      BY <2>2, <2>3, <2>4
  <1>2. ASSUME NEW a \in Nat, NEW b \in Nat, a < b PROVE 2 * 2^a <= 2^b /\ 2^a >= 1 /\ 2^a \in Nat /\ 2^b \in Nat
    <2>1. a + 1 \in Nat /\ a + 1 <= b
      BY <1>2
    <2> QED
      BY <2>1, <1>1, Powers
  <1>3. CASE j < k
    BY <1>3, <1>2
  <1>4. CASE j = k
    BY <1>4, Powers
  <1>5. CASE k < j
    BY <1>5, <1>2
  <1> QED
    BY <1>3, <1>4, <1>5

\* A forest with fewer than MaxForestRows rows has positions for its leaves.
LEMMA HalfTheRoom ==
    ASSUME NEW n \in Nat, NEW m \in Nat, n <= m, m <= 2^(MaxForestRows - 1)
    PROVE  n <= 2^MaxForestRows
  <1>1. MaxForestRows \in Nat /\ MaxForestRows # 0
    BY MaxForestRowsAssumption
  <1>2. 2^(MaxForestRows - 1) \in Nat /\ 2^MaxForestRows = 2 * 2^(MaxForestRows - 1)
    BY <1>1, Powers
  <1> QED
    BY <1>2
-----------------------------------------------------------------------------
(***************************************************************************)
(* Quotients and remainders.                                               *)
(***************************************************************************)
LEMMA Quotient ==
    ASSUME NEW q \in Nat, NEW c \in Nat \ {0}, NEW r \in Nat
    PROVE  /\ (q * c + r) \div c = q + (r \div c)
           /\ (q * c + r) % c = r % c
           /\ r < c => r \div c = 0 /\ r % c = r
           /\ r \div c \in Nat /\ r % c \in 0..(c - 1)
           /\ r = (r \div c) * c + (r % c)
  BY Z3

LEMMA QuotientOfSum ==
    ASSUME NEW q \in Nat, NEW c \in Nat \ {0}, NEW r \in Nat
    PROVE  (q * c + r) \div c = q + (r \div c)
  BY Z3

LEMMA RemainderOfSum ==
    ASSUME NEW q \in Nat, NEW c \in Nat \ {0}, NEW r \in Nat
    PROVE  (q * c + r) % c = r % c
  BY Quotient, Zenon

LEMMA QuotientIs ==
    ASSUME NEW q \in Nat, NEW c \in Nat \ {0}, NEW r \in Nat, NEW a, a = q * c + r, r < c
    PROVE  a \div c = q /\ a % c = r
  BY Z3

LEMMA Small == ASSUME NEW c \in Nat \ {0}, NEW a \in Nat, a < c PROVE a \div c = 0 /\ a % c = a
  BY Z3

LEMMA QuotientBelow ==
    ASSUME NEW a \in Nat, NEW c \in Nat \ {0}, NEW q \in Nat
    PROVE  /\ a < q * c <=> a \div c < q
           /\ q * c <= a <=> q <= a \div c
  BY Z3

LEMMA QuotientOfQuotient ==
    ASSUME NEW a \in Nat, NEW b \in Nat \ {0}, NEW c \in Nat \ {0}
    PROVE  (a \div b) \div c = a \div (b * c)
  BY Z3

-----------------------------------------------------------------------------
(***************************************************************************)
(* Rows and their first positions.                                         *)
(***************************************************************************)
First(row, rows) == 2^(rows + 1) - 2^((rows + 1) - row)

\* The positions of a row.
Offsets(row, rows) == 0..(2^(rows - row) - 1)

\* The slots of a row, twice over, are what the rows below it leave.
LEMMA FirstFacts ==
    ASSUME NEW rows \in Nat, NEW row \in 0..rows
    PROVE  /\ rows - row \in Nat /\ 2^(rows - row) \in Nat /\ 2^(rows - row) >= 1
           /\ First(row, rows) = 2^(rows + 1) - 2 * 2^(rows - row)
           /\ First(row, rows) \in Nat
           /\ 2^(rows - row) <= 2^rows
           /\ 2^(rows + 1) = 2 * 2^rows /\ 2^rows \in Nat
  <1>1. rows - row \in Nat /\ (rows + 1) - row \in Nat /\ (rows + 1) - row = (rows - row) + 1
    OBVIOUS
  <1>2. 2^((rows - row) + 1) = 2 * 2^(rows - row) /\ 2^(rows - row) \in Nat /\ 2^(rows - row) >= 1
    BY <1>1, Powers
  <1>3. 2^(rows + 1) = 2 * 2^rows /\ 2^rows \in Nat
    BY Powers
  <1>4. 2^(rows - row) <= 2^rows
    BY <1>1, PowerMonotone
  <1>5. 2^((rows + 1) - row) = 2 * 2^(rows - row)
    BY <1>1, <1>2
  <1> QED
    BY <1>1, <1>2, <1>3, <1>4, <1>5 DEF First

\* A position has its bits down to its row set, and the next one clear.
LEMMA RowBits ==
    ASSUME NEW rows \in Nat, NEW row \in 0..rows, NEW off \in Offsets(row, rows)
    PROVE  /\ Bit(First(row, rows) + off, rows - row) = 0
           /\ \A g \in 0..(row - 1) : Bit(First(row, rows) + off, rows - g) = 1
  <1> DEFINE P == 2^(rows - row)
             pos == First(row, rows) + off
  <1>1. /\ rows - row \in Nat /\ P \in Nat /\ P >= 1 /\ First(row, rows) = 2^(rows + 1) - 2 * P
        /\ 2^(rows + 1) = 2 * 2^rows /\ 2^rows \in Nat /\ P <= 2^rows
    BY FirstFacts
  <1>2. off \in Nat /\ off < P
    BY <1>1 DEF Offsets
  <1>3. Bit(pos, rows - row) = 0
    <2>1. row \in Nat /\ row + 1 \in Nat /\ (row + 1) + (rows - row) = rows + 1
      OBVIOUS
    <2>2. 2^(rows + 1) = 2^(row + 1) * P
      <3>1. 2^((row + 1) + (rows - row)) = 2^(row + 1) * 2^(rows - row)
        BY <2>1, <1>1, PowerSum
      <3> QED
        BY <2>1, <3>1
    <2>3. 2^row \in Nat /\ 2^row >= 1 /\ 2^(row + 1) = 2 * 2^row
      BY <2>1, Powers
    <2> DEFINE q == 2 * (2^row - 1)
    <2>4. q \in Nat /\ q = 2^(row + 1) - 2
      BY <2>3
    <2>5. \A a, p \in Nat : (a - 2) * p = a * p - 2 * p
      OBVIOUS
    <2>6. pos = q * P + off
      BY <2>2, <2>3, <2>4, <2>5, <1>1, <1>2
    <2> HIDE DEF P, pos, q
    <2>7. pos \div P = q
      <3>1. P \in Nat \ {0} /\ q \in Nat /\ off \in Nat /\ off < P
        BY <2>4, <1>1, <1>2
      <3> QED
        BY <3>1, <2>6, QuotientIs, Zenon
    <2>8. q % 2 = 0
      BY <2>3, <2>4 DEF q
    <2> QED
      BY <2>7, <2>8 DEF Bit, P
  <1>4. ASSUME NEW g \in 0..(row - 1) PROVE Bit(pos, rows - g) = 1
    <2> DEFINE D == 2^(rows - g)
               q == 2^(g + 1) - 1
               r == D - 2 * P + off
    <2>1. g \in Nat /\ g + 1 \in Nat /\ rows - g \in Nat /\ rows - row < rows - g
          /\ (g + 1) + (rows - g) = rows + 1
      OBVIOUS
    <2>2. 2^(rows + 1) = 2^(g + 1) * D
      <3>1. 2^((g + 1) + (rows - g)) = 2^(g + 1) * 2^(rows - g)
        BY <2>1, PowerSum
      <3> QED
        BY <2>1, <3>1
    <2>3. 2^g \in Nat /\ 2^g >= 1 /\ 2^(g + 1) = 2 * 2^g /\ D \in Nat /\ D >= 1
      BY <2>1, Powers
    <2>4. 2 * P <= D
      BY <2>1, <1>1, PowerMonotone
    <2>5. \A a, p \in Nat : (a - 1) * p = a * p - p
      OBVIOUS
    <2>6. q \in Nat /\ q % 2 = 1
      BY <2>3
    <2>7. pos = q * D + r /\ r \in Nat /\ r < D
      BY <2>2, <2>3, <2>4, <2>5, <1>1, <1>2
    <2> HIDE DEF pos, q, r, D
    <2>8. pos \div D = q
      <3>1. D \in Nat \ {0}
        BY <2>3
      <3> QED
        BY <3>1, <2>6, <2>7, QuotientIs, Zenon
    <2> QED
      BY <2>8, <2>6 DEF Bit, D
  <1> QED
    BY <1>3, <1>4

\* detect_row finds the row of a position.
LEMMA DetectRowOf ==
    ASSUME NEW rows \in Nat, NEW row \in 0..rows, NEW off \in Offsets(row, rows)
    PROVE  DetectRow(First(row, rows) + off, rows) = row
  <1> DEFINE pos == First(row, rows) + off
             IsRow(h) == /\ h <= rows => Bit(pos, rows - h) = 0
                         /\ \A g \in 0..(h - 1) : Bit(pos, rows - g) = 1
  <1>1. Bit(pos, rows - row) = 0 /\ \A g \in 0..(row - 1) : Bit(pos, rows - g) = 1
    BY RowBits
  <1> HIDE DEF pos
  <1>2. row \in 0..(rows + 1) /\ IsRow(row)
    BY <1>1
  <1>3. ASSUME NEW h \in 0..(rows + 1), IsRow(h) PROVE h = row
    <2>1. CASE h < row
      <3>1. h \in 0..(row - 1) /\ h <= rows
        BY <2>1
      <3> QED
        BY <3>1, <1>1, <1>3
    <2>2. CASE row < h
      <3>1. row \in 0..(h - 1)
        BY <2>2
      <3> QED
        BY <3>1, <1>1, <1>3
    <2> QED
      BY <2>1, <2>2
  <1>4. DetectRow(pos, rows) = CHOOSE h \in 0..(rows + 1) : IsRow(h)
    BY DEF DetectRow
  <1> HIDE DEF IsRow
  <1> QED
    BY <1>2, <1>3, <1>4 DEF pos

\* start_position_at_row does not overflow.
LEMMA StartPositionAtRowOf ==
    ASSUME NEW rows \in 0..MaxForestRows, NEW row \in 0..rows
    PROVE  StartPositionAtRow(row, rows) = First(row, rows)
  <1>1. rows \in Nat /\ rows + 1 \in Nat /\ Width \in Nat /\ rows + 1 <= Width
    BY MaxForestRowsAssumption DEF Width
  <1>2. 2^(rows + 1) <= 2^Width /\ 2^Width \in Nat /\ 2^Width >= 1
    BY <1>1, PowerMonotone, Powers
  <1>3. First(row, rows) \in Nat /\ First(row, rows) < 2^Width
    <2>1. /\ 2^(rows - row) \in Nat /\ 2^(rows - row) >= 1 /\ 2^(rows + 1) \in Nat
          /\ First(row, rows) = 2^(rows + 1) - 2 * 2^(rows - row) /\ First(row, rows) \in Nat
      BY <1>1, FirstFacts, Powers
    <2> QED
      BY <1>2, <2>1
  <1>4. First(row, rows) % 2^Width = First(row, rows)
    BY <1>2, <1>3, Small
  <1> QED
    BY <1>4 DEF StartPositionAtRow, First
-----------------------------------------------------------------------------
(***************************************************************************)
(* Moving between a node, its sibling, its parent and its children.        *)
(***************************************************************************)

\* The ancestor k rows up has the offset without its last k bits.
LEMMA OffsetAbove ==
    ASSUME NEW rows \in Nat, NEW row \in 0..rows, NEW off \in Offsets(row, rows),
           NEW k \in 0..(rows - row)
    PROVE  /\ off \in Nat /\ row + k \in 0..rows
           /\ off \div 2^k \in Offsets(row + k, rows)
           /\ off \div 2^k \in Nat
  <1>1. k \in Nat /\ rows - row \in Nat /\ rows - (row + k) \in Nat
        /\ (rows - (row + k)) + k = rows - row /\ row + k \in 0..rows
    OBVIOUS
  <1>2. 2^k \in Nat \ {0} /\ 2^(rows - (row + k)) \in Nat /\ 2^(rows - row) \in Nat
    <2>1. 2^k \in Nat /\ 2^k >= 1
      BY <1>1, Powers
    <2> QED
      BY <2>1, <1>1, Powers
  <1>3. 2^(rows - row) = 2^(rows - (row + k)) * 2^k
    <2>1. 2^((rows - (row + k)) + k) = 2^(rows - (row + k)) * 2^k
      BY <1>1, PowerSum
    <2> QED
      BY <1>1, <2>1
  <1>4. off \in Nat /\ off < 2^(rows - row)
    BY <1>2 DEF Offsets
  <1>5. off < 2^(rows - (row + k)) * 2^k
    BY <1>3, <1>4
  <1>6. off \div 2^k < 2^(rows - (row + k))
    BY <1>2, <1>4, <1>5, QuotientBelow, Zenon
  <1>7. off \div 2^k \in Nat
    BY <1>2, <1>4
  <1> QED
    BY <1>1, <1>2, <1>4, <1>6, <1>7 DEF Offsets

\* A bit that is clear is set by adding it.
LEMMA SetClearBit ==
    ASSUME NEW k \in Nat, NEW x \in Nat, x < 2^k
    PROVE  SetBit(x, k) = x + 2^k
  <1>1. 2^k \in Nat \ {0}
    <2>1. 2^k \in Nat /\ 2^k >= 1
      BY Powers
    <2> QED
      BY <2>1
  <1>2. x \div 2^k = 0
    BY <1>1, Small
  <1>3. Bit(x, k) = 0
    BY <1>2 DEF Bit
  <1> QED
    BY <1>3 DEF SetBit

LEMMA ParentOf ==
    ASSUME NEW rows \in Nat, NEW row \in 0..(rows - 1), NEW off \in Offsets(row, rows)
    PROVE  /\ Parent(First(row, rows) + off, rows) = First(row + 1, rows) + (off \div 2)
           /\ off \div 2 \in Offsets(row + 1, rows)
           /\ row \in 0..rows /\ row + 1 \in 0..rows
  <1> DEFINE Q == 2^(rows - (row + 1))
             h == off \div 2
  <1>1. row \in 0..rows /\ row + 1 \in 0..rows /\ 1 \in 0..(rows - row)
        /\ rows - row = (rows - (row + 1)) + 1 /\ rows - (row + 1) \in Nat
    OBVIOUS
  <1>2. off \in Nat /\ h \in Offsets(row + 1, rows)
    <2>1. off \in Nat /\ off \div 2^1 \in Offsets(row + 1, rows)
      BY <1>1, OffsetAbove
    <2> QED
      BY <2>1, Powers
  <1>3. /\ First(row, rows) = 2^(rows + 1) - 2 * 2^(rows - row)
        /\ First(row + 1, rows) = 2^(rows + 1) - 2 * Q
        /\ 2^(rows + 1) = 2 * 2^rows /\ 2^rows \in Nat
        /\ Q \in Nat /\ Q >= 1 /\ First(row, rows) \in Nat
    BY <1>1, FirstFacts
  <1>4. 2^(rows - row) = 2 * Q /\ 2 * Q <= 2^rows
    <2>1. 2^((rows - (row + 1)) + 1) = 2 * Q
      BY <1>1, Powers
    <2>2. rows - row \in Nat /\ rows - row <= rows
      BY <1>1
    <2>3. 2^(rows - row) <= 2^rows
      BY <2>2, PowerMonotone
    <2> QED
      BY <2>1, <2>3, <1>1
  <1>5. h \in Nat /\ h < Q
    BY <1>2, <1>3 DEF Offsets
  <1>6. off = 2 * h \/ off = 2 * h + 1
    BY <1>2
  <1> DEFINE x == 2^rows - 2 * Q + h
  <1>7. x \in Nat /\ x < 2^rows
    BY <1>3, <1>4, <1>5
  <1>8. (First(row, rows) + off) \div 2 = x
    <2>1. First(row, rows) + off = 2 * x \/ First(row, rows) + off = 2 * x + 1
      BY <1>3, <1>4, <1>5, <1>6
    <2> HIDE DEF x
    <2> QED
      BY <2>1, <1>7
  <1>9. SetBit(x, rows) = x + 2^rows
    <2> HIDE DEF x
    <2> QED
      BY <1>7, SetClearBit
  <1>10. Parent(First(row, rows) + off, rows) = x + 2^rows
    BY <1>8, <1>9 DEF Parent
  <1> QED
    BY <1>1, <1>2, <1>3, <1>5, <1>10

\* parent_many rises any number of rows that the forest has.
LEMMA ParentManyOf ==
    ASSUME NEW rows \in Nat, NEW row \in 0..rows, NEW off \in Offsets(row, rows),
           NEW rise \in 0..(rows - row)
    PROVE  ParentMany(First(row, rows) + off, rise, rows) = First(row + rise, rows) + (off \div 2^rise)
  <1> DEFINE R == 2^rise
             L == 2^((rows + 1) - rise)
             Q == 2^(rows - (row + rise))
             h == off \div R
             pos == First(row, rows) + off
  <1>1. /\ rise \in Nat /\ (rows + 1) - rise \in Nat /\ row + rise \in 0..rows
        /\ ((rows + 1) - rise) + rise = rows + 1 /\ rise <= rows
        /\ rows - (row + rise) \in Nat /\ (rows - (row + rise)) + rise = rows - row
        /\ (rows - (row + rise)) + 1 <= (rows + 1) - rise
        /\ rows - (row + rise) < (rows + 1) - rise
    OBVIOUS
  <1>2. off \in Nat /\ h \in Offsets(row + rise, rows)
    BY OffsetAbove
  <1>3. /\ First(row, rows) = 2^(rows + 1) - 2 * 2^(rows - row) /\ First(row, rows) \in Nat
        /\ 2^(rows + 1) \in Nat /\ 2^(rows - row) \in Nat
    BY FirstFacts, Powers
  <1>4. First(row + rise, rows) = 2^(rows + 1) - 2 * Q /\ Q \in Nat /\ Q >= 1
    BY <1>1, FirstFacts
  <1>5. R \in Nat \ {0} /\ L \in Nat /\ L >= 1
    <2>1. R \in Nat /\ R >= 1
      BY <1>1, Powers
    <2> QED
      BY <2>1, <1>1, Powers
  <1>6. 2^(rows + 1) = L * R /\ 2^(rows - row) = Q * R
    <2>1. 2^(((rows + 1) - rise) + rise) = L * R
      BY <1>1, PowerSum
    <2>2. 2^((rows - (row + rise)) + rise) = Q * R
      BY <1>1, PowerSum
    <2> QED
      BY <2>1, <2>2, <1>1
  <1>7. 2 * Q <= L
    BY <1>1, PowerMonotone
  <1>8. h \in Nat /\ h < Q
    BY <1>2, <1>4 DEF Offsets
  <1>9. pos \div R = (L - 2 * Q) + h
    <2> DEFINE q == L - 2 * Q
    <2>1. q \in Nat
      BY <1>4, <1>5, <1>7
    <2>2. \A l, r, p \in Nat : (l - 2 * p) * r = l * r - 2 * (p * r)
      OBVIOUS
    <2>3. pos = q * R + off
      BY <2>2, <1>3, <1>4, <1>5, <1>6
    <2> HIDE DEF q, R, pos
    <2>4. (q * R + off) \div R = q + (off \div R)
      <3>1. q \in Nat /\ R \in Nat \ {0} /\ off \in Nat
        BY <2>1, <1>2, <1>5
      <3> QED
        BY <3>1, QuotientOfSum, Zenon
    <2> QED
      BY <2>3, <2>4 DEF q
  <1>10. ((L - 2 * Q) + h) % L = (L - 2 * Q) + h
    <2> DEFINE x == (L - 2 * Q) + h
    <2>1. x \in Nat /\ x < L /\ L \in Nat \ {0}
      BY <1>4, <1>5, <1>7, <1>8
    <2> HIDE DEF x, L
    <2>2. x % L = x
      BY <2>1, Small
    <2> QED
      BY <2>2 DEF x
  <1>11. CASE rise = 0
    <2>1. R = 1 /\ h = off /\ row + rise = row
      BY <1>11, <1>2, Powers
    <2> QED
      BY <2>1, <1>11 DEF ParentMany
  <1>12. CASE rise # 0
    <2>1. ParentMany(pos, rise, rows) = ((pos \div R) % L) + 2^(rows + 1) - L
      BY <1>12, <1>1 DEF ParentMany
    <2> HIDE DEF R, L, Q, h, pos
    <2>2. ParentMany(pos, rise, rows) = ((L - 2 * Q) + h) + 2^(rows + 1) - L
      BY <2>1, <1>9, <1>10
    <2>3. ParentMany(pos, rise, rows) = (2^(rows + 1) - 2 * Q) + h
      BY <2>2, <1>3, <1>4, <1>5, <1>8
    <2> QED
      BY <2>3, <1>4 DEF pos, h, R
  <1> QED
    BY <1>11, <1>12
LEMMA ChildrenOf ==
    ASSUME NEW rows \in Nat, NEW row \in 1..rows, NEW off \in Offsets(row, rows)
    PROVE  /\ LeftChild(First(row, rows) + off, rows) = First(row - 1, rows) + 2 * off
           /\ RightChild(First(row, rows) + off, rows) = First(row - 1, rows) + (2 * off + 1)
           /\ 2 * off \in Offsets(row - 1, rows) /\ 2 * off + 1 \in Offsets(row - 1, rows)
           /\ row \in 0..rows /\ row - 1 \in 0..rows
  <1> DEFINE P == 2^(rows - row)
             C == 2^(rows + 1)
             r == C - 4 * P + 2 * off
  <1>1. row \in 0..rows /\ row - 1 \in 0..rows /\ rows - (row - 1) = (rows - row) + 1
        /\ rows - row \in Nat /\ rows - row < rows
    OBVIOUS
  <1>2. 2^(rows - (row - 1)) = 2 * P /\ P \in Nat /\ P >= 1
    <2>1. 2^((rows - row) + 1) = 2 * P /\ P \in Nat /\ P >= 1
      BY <1>1, Powers
    <2> QED
      BY <2>1, <1>1
  <1>3. /\ First(row, rows) = C - 2 * P /\ C = 2 * 2^rows /\ 2^rows \in Nat
        /\ First(row - 1, rows) = C - 2 * (2 * P)
    BY <1>1, <1>2, FirstFacts
  <1>4. 2 * P <= 2^rows
    BY <1>1, PowerMonotone
  <1>5. off \in Nat /\ off < P
    BY <1>2 DEF Offsets
  <1>6. r \in Nat /\ r < C /\ C \in Nat \ {0}
    BY <1>2, <1>3, <1>4, <1>5
  <1>7. 2 * (First(row, rows) + off) = 1 * C + r
    BY <1>2, <1>3, <1>5
  <1>8. (2 * (First(row, rows) + off)) % C = r
    <2> HIDE DEF r, C
    <2> QED
      BY <1>6, <1>7, QuotientIs, 1 \in Nat, Zenon
  <1>9. LeftChild(First(row, rows) + off, rows) = r
    BY <1>8 DEF LeftChild
  <1>10. 2 * off \in Offsets(row - 1, rows) /\ 2 * off + 1 \in Offsets(row - 1, rows)
    BY <1>2, <1>5 DEF Offsets
  <1> QED
    BY <1>1, <1>2, <1>3, <1>5, <1>9, <1>10 DEF RightChild

OtherOffset(off) == IF off % 2 = 0 THEN off + 1 ELSE off - 1

LEMMA SiblingOf ==
    ASSUME NEW rows \in Nat, NEW row \in 0..(rows - 1), NEW off \in Offsets(row, rows)
    PROVE  /\ Sibling(First(row, rows) + off) = First(row, rows) + OtherOffset(off)
           /\ OtherOffset(off) \in Offsets(row, rows)
           /\ IsLeftNiece(First(row, rows) + off) <=> off % 2 = 0
           /\ OtherOffset(off) \div 2 = off \div 2
  <1> DEFINE Q == 2^(rows - (row + 1))
  <1>1. row \in 0..rows /\ rows - (row + 1) \in Nat /\ rows - row = (rows - (row + 1)) + 1
    OBVIOUS
  <1>2. 2^(rows - row) = 2 * Q /\ Q \in Nat /\ Q >= 1
    <2>1. 2^((rows - (row + 1)) + 1) = 2 * Q /\ Q \in Nat /\ Q >= 1
      BY <1>1, Powers
    <2> QED
      BY <2>1, <1>1
  <1>3. First(row, rows) = 2 * (2^rows - 2 * Q) /\ First(row, rows) \in Nat /\ 2^rows \in Nat
    <2>1. /\ First(row, rows) = 2^(rows + 1) - 2 * 2^(rows - row) /\ First(row, rows) \in Nat
          /\ 2^(rows + 1) = 2 * 2^rows /\ 2^rows \in Nat
      BY <1>1, FirstFacts
    <2> QED
      BY <2>1, <1>2
  <1>4. off \in Nat /\ off < 2 * Q
    BY <1>2 DEF Offsets
  <1>5. OtherOffset(off) \in Nat /\ OtherOffset(off) < 2 * Q /\ OtherOffset(off) \div 2 = off \div 2
    BY <1>2, <1>4 DEF OtherOffset
  <1>6. (First(row, rows) + off) % 2 = off % 2
    <2> DEFINE f == 2^rows - 2 * Q
    <2>1. f \in Int /\ First(row, rows) = 2 * f
      BY <1>2, <1>3
    <2> HIDE DEF f
    <2> QED
      BY <2>1, <1>4
  <1> QED
    BY <1>2, <1>3, <1>4, <1>5, <1>6 DEF Sibling, IsLeftNiece, OtherOffset, Offsets

\* The offset without bit d.
OffsetWithout(off, d) == (off \div 2^(d + 1)) * 2^d + (off % 2^d)

\* Where the masks do not overflow, the bits above `bit` come one down and
\* those below stay.
LEMMA RemoveBitThatFits ==
    ASSUME NEW val \in Nat, NEW bit \in Nat, MasksFit(bit)
    PROVE  RemoveBit(val, bit) = OffsetWithout(val, bit)
  <1>1. LiteralBits \in Nat \ {0} /\ bit < LiteralBits - 2
    BY LiteralBitsAssumption DEF MasksFit
  <1>2. bit % LiteralBits = bit
    BY <1>1, Small
  <1>3. UpperOnes(bit) = bit + 1 /\ LowerOnes(bit) = bit
    BY <1>1, <1>2 DEF UpperOnes, LowerOnes
  <1> DEFINE R == 2^bit
             E == 2^(bit + 1)
             q == val \div E
  <1>4. R \in Nat /\ E \in Nat \ {0} /\ E = 2 * R
    BY Powers
  <1> HIDE DEF R, E
  <1>5. q \in Nat
    BY <1>4, Quotient, 0 \in Nat, Zenon
  <1>6. \A a, r \in Nat : a * (2 * r) = 2 * (a * r) /\ a * r \in Nat
    OBVIOUS
  <1> HIDE DEF q
  <1>7. (q * E) \div 2 = q * R
    <2>1. q * E = 2 * (q * R) /\ q * R \in Nat
      BY <1>4, <1>5, <1>6
    <2> QED
      BY <2>1
  <1>8. RemoveBit(val, bit) = (q * E) \div 2 + (val % R)
    BY <1>3 DEF RemoveBit, q, E, R
  <1> QED
    BY <1>7, <1>8 DEF OffsetWithout, q, E, R

\* calc_next_pos takes the bit of the deleted subtree's row out of the path.
LEMMA CalcNextPosOf ==
    ASSUME NEW rows \in Nat, NEW row \in 0..(rows - 1), NEW off \in Offsets(row, rows),
           NEW d \in 0..(rows - row - 1), MasksFit(d), NEW del \in Offsets(row + d, rows)
    PROVE  /\ CalcNextPos(First(row, rows) + off, First(row + d, rows) + del, rows)
                  = First(row + 1, rows) + OffsetWithout(off, d)
           /\ OffsetWithout(off, d) \in Offsets(row + 1, rows)
           /\ OffsetWithout(off, d) \in Nat /\ 2^d \in Nat
           /\ OffsetWithout(off, d) < ((off \div 2^(d + 1)) + 1) * 2^d
  <1> DEFINE R == 2^d
             E == 2^(d + 1)
             M == 2^(rows - d)
             Q == 2^(rows - row - (d + 1))
             P == 2^(rows - row)
             C == 2^(rows + 1)
             pos == First(row, rows) + off
             o == OffsetWithout(off, d)
  <1>1. /\ row \in 0..rows /\ row + 1 \in 0..rows /\ row + d \in 0..rows /\ d \in Nat
        /\ d + 1 \in 0..(rows - row) /\ d + 1 \in Nat /\ rows - d \in Nat
        /\ rows - row - (d + 1) \in Nat /\ rows - row \in Nat /\ rows - (row + 1) \in Nat
        /\ (rows - row - (d + 1)) + (d + 1) = rows - row
        /\ (rows - row - (d + 1)) + d = rows - (row + 1)
        /\ (rows - d) + (d + 1) = rows + 1 /\ (rows - d) + d = rows
        /\ rows - row - (d + 1) < rows - d
        /\ (rows - (row + 1)) + 1 = rows - row
    OBVIOUS
  <1>2. /\ R \in Nat \ {0} /\ E \in Nat \ {0} /\ E = 2 * R
        /\ M \in Nat /\ Q \in Nat /\ Q >= 1 /\ C \in Nat /\ P \in Nat
    <2>1. R \in Nat /\ R >= 1 /\ E = 2 * R
      BY <1>1, Powers
    <2>2. M \in Nat /\ Q \in Nat /\ Q >= 1 /\ C \in Nat /\ P \in Nat
      BY <1>1, Powers
    <2> QED
      BY <2>1, <2>2
  <1>3. P = Q * E /\ C = M * E /\ 2^rows = M * R /\ 2^(rows - (row + 1)) = Q * R
    <2>1. 2^((rows - row - (d + 1)) + (d + 1)) = Q * E
      BY <1>1, PowerSum
    <2>2. 2^((rows - d) + (d + 1)) = M * E
      BY <1>1, PowerSum
    <2>3. 2^((rows - d) + d) = M * R
      BY <1>1, PowerSum
    <2>4. 2^((rows - row - (d + 1)) + d) = Q * R
      BY <1>1, PowerSum
    <2> QED
      BY <2>1, <2>2, <2>3, <2>4, <1>1
  <1>4. 2 * Q <= M
    BY <1>1, PowerMonotone
  <1>5. /\ First(row, rows) = C - 2 * P /\ C = 2 * 2^rows /\ 2^rows \in Nat
        /\ First(row + 1, rows) = C - 2 * 2^(rows - (row + 1)) /\ First(row, rows) \in Nat
    BY <1>1, FirstFacts
  <1>6. P = 2 * 2^(rows - (row + 1)) /\ 2^(rows - (row + 1)) \in Nat
    <2>1. 2^((rows - (row + 1)) + 1) = 2 * 2^(rows - (row + 1)) /\ 2^(rows - (row + 1)) \in Nat
      BY <1>1, Powers
    <2> QED
      BY <2>1, <1>1
  <1>7. off \in Nat /\ off \div E \in Nat /\ off \div E < Q
    <2>1. off \in Nat /\ off < Q * E
      BY <1>2, <1>3 DEF Offsets
    <2>2. off \div E < Q
      BY <2>1, <1>2, QuotientBelow, Zenon
    <2> QED
      BY <2>1, <2>2, <1>2
  <1>8. off % R \in Nat /\ off % R < R
    <2>1. off % R \in 0..(R - 1)
      BY <1>2, <1>7, Quotient, 0 \in Nat, Zenon
    <2> QED
      BY <2>1, <1>2
  <1>9. \A a, b, r \in Nat : /\ (a + b) * r = a * r + b * r
                             /\ (a + 1) * r = a * r + r
                             /\ a < b => (a + 1) * r <= b * r
                             /\ (a - 2 * b) * r = a * r - 2 * (b * r)
                             /\ a * (2 * r) = (2 * a) * r
                             /\ a * r \in Nat
    <2>1. \A a, b, r \in Nat : a < b => (a + 1) * r <= b * r
      BY Z3
    <2>2. \A a, r \in Nat : a * r \in Nat
      OBVIOUS
    <2> QED
      BY <2>1, <2>2
  <1>10. o \in Nat /\ o < ((off \div E) + 1) * R /\ o < 2^(rows - (row + 1))
    <2> DEFINE e == off \div E
    <2>1. e \in Nat /\ e < Q /\ o = e * R + (off % R)
      BY <1>7 DEF OffsetWithout
    <2> HIDE DEF e, o, R, E, Q
    <2>2. e * R \in Nat /\ (e + 1) * R = e * R + R /\ (e + 1) * R <= Q * R /\ Q * R \in Nat
      BY <2>1, <1>2, <1>9
    <2>3. o \in Nat /\ o < (e + 1) * R
      BY <2>1, <2>2, <1>2, <1>8
    <2>4. o < Q * R
      BY <2>2, <2>3, <1>2
    <2> QED
      BY <2>3, <2>4, <1>3 DEF e
  <1>11. pos \div E = (M - 2 * Q) + (off \div E) /\ pos % R = off % R
    <2> DEFINE q == M - 2 * Q
    <2>1. q \in Nat /\ 2 * q \in Nat
      BY <1>2, <1>4
    <2> HIDE DEF R, E, M, Q, P, C
    <2>2. q * E = M * E - 2 * (Q * E)
      BY <1>2, <1>9
    <2>3. pos = q * E + off
      BY <2>2, <1>2, <1>3, <1>5, <1>7
    <2> HIDE DEF q, pos
    <2>4. q * E = (2 * q) * R
      BY <2>1, <1>2, <1>9
    <2>5. pos = (2 * q) * R + off
      BY <2>3, <2>4
    <2>6. (q * E + off) \div E = q + (off \div E)
      <3>1. q \in Nat /\ E \in Nat \ {0} /\ off \in Nat
        BY <2>1, <1>2, <1>7
      <3> QED
        BY <3>1, QuotientOfSum, Zenon
    <2>7. ((2 * q) * R + off) % R = off % R
      <3>1. 2 * q \in Nat /\ R \in Nat \ {0} /\ off \in Nat
        BY <2>1, <1>2, <1>7
      <3> QED
        BY <3>1, RemainderOfSum, Zenon
    <2> QED
      BY <2>3, <2>5, <2>6, <2>7 DEF q
  <1>12. RemoveBit(pos, d) = 2^rows - P + o
    <2> DEFINE q == M - 2 * Q
               e == off \div E
    <2>0. q \in Nat /\ e \in Nat
      BY <1>2, <1>4, <1>7
    <2>1. RemoveBit(pos, d) = (q + e) * R + (off % R) /\ o = e * R + (off % R)
      <3>1. pos \in Nat
        BY <1>5, <1>7
      <3> HIDE DEF pos
      <3>2. RemoveBit(pos, d) = OffsetWithout(pos, d)
        BY <3>1, <1>1, RemoveBitThatFits
      <3> QED
        BY <3>2, <1>11 DEF OffsetWithout
    <2> HIDE DEF pos, o, R, E, M, Q, P, C
    <2>2. q * R = M * R - 2 * (Q * R)
      BY <1>2, <1>9
    <2> HIDE DEF q, e
    <2>3. (q + e) * R = q * R + e * R /\ q * R \in Nat /\ e * R \in Nat
      BY <2>0, <1>2, <1>9
    <2>4. P = 2 * (Q * R)
      BY <1>3, <1>6
    <2> QED
      BY <2>1, <2>2, <2>3, <2>4, <1>2, <1>3, <1>5, <1>8
  <1>13. P <= 2^rows
    BY FirstFacts, <1>1
  <1>14. SetBit(2^rows - P + o, rows) = (2^rows - P + o) + 2^rows
    <2> DEFINE x == 2^rows - P + o
    <2> HIDE DEF o
    <2>1. x \in Nat /\ x < 2^rows
      BY <1>2, <1>5, <1>6, <1>10, <1>13
    <2> HIDE DEF x
    <2>2. SetBit(x, rows) = x + 2^rows
      BY <2>1, SetClearBit
    <2> QED
      BY <2>2 DEF x
  <1>15. DetectRow(pos, rows) = row /\ DetectRow(First(row + d, rows) + del, rows) = row + d
    BY <1>1, DetectRowOf
  <1>16. CalcNextPos(pos, First(row + d, rows) + del, rows) = SetBit(RemoveBit(pos, d), rows)
    <2>1. ~ (row + d < row) /\ (row + d) - row = d
      BY <1>1
    <2> HIDE DEF pos
    <2> QED
      BY <2>1, <1>15 DEF CalcNextPos
  <1>17. CalcNextPos(pos, First(row + d, rows) + del, rows) = First(row + 1, rows) + o
    <2> HIDE DEF pos, o, P, C
    <2> QED
      BY <1>2, <1>5, <1>6, <1>10, <1>12, <1>14, <1>16
  <1>18. o \in Offsets(row + 1, rows)
    BY <1>10, <1>6 DEF Offsets
  <1> QED
    BY <1>2, <1>10, <1>17, <1>18
-----------------------------------------------------------------------------
(***************************************************************************)
(* The height of a forest, and positions in forests of different heights.  *)
(***************************************************************************)
LEMMA TreeRowsFacts ==
    ASSUME NEW n \in Nat, n <= 2^MaxForestRows
    PROVE  /\ TreeRows(n) \in 0..MaxForestRows /\ TreeRows(n) \in Nat
           /\ n <= 2^TreeRows(n)
           /\ \A q \in 0..(TreeRows(n) - 1) : 2^q < n
  <1> DEFINE Holds(r) == 2^r >= n /\ \A q \in 0..(r - 1) : 2^q < n
             S == {r \in Nat : 2^r >= n}
  <1>1. MaxForestRows \in Nat /\ Width = MaxForestRows + 1
    BY MaxForestRowsAssumption DEF Width
  <1>2. \A r \in Nat : 2^r \in Nat /\ 2^r >= 1
    BY Powers
  <1>3. PICK m \in S : \A r \in S : m <= r
    <2>1. MaxForestRows \in S
      BY <1>1, <1>2
    <2>2. S \subseteq Nat /\ S # {}
      BY <2>1
    <2> HIDE DEF S
    <2> QED
      BY <2>2, LeastNumber
  <1>4. m \in 0..MaxForestRows
    BY <1>1, <1>2, <1>3
  <1>5. Holds(m)
    BY <1>2, <1>3
  <1>6. CASE n = 0
    <2>1. TreeRows(n) = 0
      BY <1>6 DEF TreeRows
    <2> QED
      BY <2>1, <1>1, <1>2, <1>6
  <1>7. CASE n # 0
    <2>1. TreeRows(n) = CHOOSE r \in 0..Width : Holds(r)
      BY <1>7 DEF TreeRows
    <2>2. m \in 0..Width
      BY <1>1, <1>4
    <2> DEFINE t == TreeRows(n)
    <2> HIDE DEF Holds
    <2>3. t \in 0..Width /\ Holds(t)
      BY <2>1, <2>2, <1>5
    <2>4. t <= m
      <3>1. SUFFICES ASSUME m < t PROVE FALSE
        BY <2>3, <1>4
      <3>2. m \in 0..(t - 1)
        BY <3>1, <1>4, <2>3
      <3>3. 2^m < n
        BY <3>2, <2>3 DEF Holds
      <3> QED
        BY <3>3, <1>2, <1>3
    <2>5. t \in Nat
      BY <2>3
    <2>6. 2^t \in Nat
      BY <2>5, <1>2
    <2>7. t \in 0..MaxForestRows
      <3>1. m <= MaxForestRows /\ m \in Nat
        BY <1>1, <1>4
      <3> HIDE DEF t
      <3> QED
        BY <3>1, <2>4, <2>5, <1>1
    <2> QED
      BY <2>3, <2>5, <2>6, <2>7 DEF Holds
  <1> QED
    BY <1>6, <1>7

\* A forest never loses a row when leaves are added.
LEMMA TreeRowsGrow ==
    ASSUME NEW n \in Nat, NEW m \in Nat, n <= m, m <= 2^MaxForestRows
    PROVE  TreeRows(n) <= TreeRows(m)
  <1>1. MaxForestRows \in Nat /\ 2^MaxForestRows \in Nat
    BY MaxForestRowsAssumption, Powers
  <1>2. n <= 2^MaxForestRows
    BY <1>1
  <1>3. TreeRows(n) \in Nat /\ TreeRows(m) \in Nat /\ m <= 2^TreeRows(m)
    BY <1>2, TreeRowsFacts
  <1>4. SUFFICES ASSUME TreeRows(m) < TreeRows(n) PROVE FALSE
    BY <1>3
  <1>5. TreeRows(m) \in 0..(TreeRows(n) - 1)
    BY <1>3, <1>4
  <1>6. 2^TreeRows(m) < n /\ 2^TreeRows(m) \in Nat
    BY <1>2, <1>3, <1>5, TreeRowsFacts, Powers
  <1> QED
    BY <1>3, <1>6

\* translate keeps the row and the offset.
LEMMA TranslateOf ==
    ASSUME NEW from \in 0..MaxForestRows, NEW to \in 0..MaxForestRows,
           NEW row \in 0..from, row <= to, NEW off \in Offsets(row, from)
    PROVE  Translate(First(row, from) + off, from, to) = First(row, to) + off
  <1>1. from \in Nat /\ to \in Nat /\ row \in 0..to /\ row \in Nat
    BY MaxForestRowsAssumption
  <1>2. DetectRow(First(row, from) + off, from) = row
    BY <1>1, DetectRowOf
  <1>3. First(row, from) \in Nat /\ First(row, to) \in Nat
    BY <1>1, FirstFacts
  <1>4. off \in Nat
    <2>1. 2^(from - row) \in Nat
      BY <1>1, FirstFacts
    <2> QED
      BY <2>1 DEF Offsets
  <1>5. CASE row = 0
    <2>1. First(row, from) = 0 /\ First(row, to) = 0
      <3>1. 2^(from + 1) \in Nat /\ 2^(to + 1) \in Nat
        BY <1>1, Powers
      <3>2. (from + 1) - row = from + 1 /\ (to + 1) - row = to + 1
        BY <1>1, <1>5
      <3> QED
        BY <3>1, <3>2 DEF First
    <2> QED
      BY <2>1, <1>2, <1>4, <1>5 DEF Translate
  <1>6. CASE row # 0
    <2>1. StartPositionAtRow(row, from) = First(row, from) /\ StartPositionAtRow(row, to) = First(row, to)
      BY <1>1, StartPositionAtRowOf
    <2> QED
      BY <2>1, <1>2, <1>3, <1>4, <1>6 DEF Translate
  <1> QED
    BY <1>5, <1>6

-----------------------------------------------------------------------------
(***************************************************************************)
(* Roots.  The node covers the leaf slots off * 2^row up to, and without,  *)
(* (off + 1) * 2^row: it is in a forest of n leaves if these are filled,   *)
(* and it is a root if those of its parent are not.                        *)
(***************************************************************************)
Covers(row, off, n) == (off + 1) * 2^row <= n
Tops(row, off, n)   == Covers(row, off, n) /\ ~ Covers(row + 1, off \div 2, n)

LEMMA CoversFacts ==
    ASSUME NEW row \in Nat, NEW off \in Nat, NEW n \in Nat
    PROVE  /\ Covers(row, off, n) <=> off < n \div 2^row
           /\ n \div 2^row \in Nat
           /\ n \div 2^(row + 1) = (n \div 2^row) \div 2
  <1>1. 2^row \in Nat \ {0} /\ 2^(row + 1) = 2^row * 2
    <2>1. 2^row \in Nat /\ 2^row >= 1 /\ 2^(row + 1) = 2 * 2^row
      BY Powers
    <2> QED
      BY <2>1
  <1>2. (off + 1) * 2^row <= n <=> off + 1 <= n \div 2^row
    <2>1. off + 1 \in Nat
      OBVIOUS
    <2> QED
      BY <1>1, <2>1, QuotientBelow, Zenon
  <1>3. n \div 2^row \in Nat
    BY <1>1
  <1>4. (n \div 2^row) \div 2 = n \div (2^row * 2)
    <2>1. 2 \in Nat \ {0}
      OBVIOUS
    <2> QED
      BY <1>1, <2>1, QuotientOfQuotient, Zenon
  <1> QED
    BY <1>1, <1>2, <1>3, <1>4 DEF Covers

\* A row has at most one root: the last node of the row, if their number is odd.
LEMMA TopsFacts ==
    ASSUME NEW row \in Nat, NEW off \in Nat, NEW n \in Nat
    PROVE  /\ Tops(row, off, n) <=> IsRootPopulated(row, n) /\ off = 2 * (n \div 2^(row + 1))
           /\ Covers(row, off, n) => (Covers(row + 1, off \div 2, n) <=> ~ Tops(row, off, n))
           /\ Covers(row + 1, off \div 2, n) => Covers(row, off, n)
  <1> DEFINE q == n \div 2^row
  <1>1. off \div 2 \in Nat /\ row + 1 \in Nat
    OBVIOUS
  <1>2. Covers(row, off, n) <=> off < q
    BY CoversFacts
  <1>3. q \in Nat /\ n \div 2^(row + 1) = q \div 2
    BY CoversFacts
  <1>4. Covers(row + 1, off \div 2, n) <=> off \div 2 < n \div 2^(row + 1)
    BY <1>1, CoversFacts
  <1>5. IsRootPopulated(row, n) <=> q % 2 = 1
    BY DEF IsRootPopulated, Bit
  <1> HIDE DEF q
  <1>6. (off < q /\ ~ (off \div 2 < q \div 2)) <=> (q % 2 = 1 /\ off = 2 * (q \div 2))
    BY <1>3
  <1>7. off \div 2 < q \div 2 => off < q
    BY <1>3
  <1> QED
    BY <1>2, <1>3, <1>4, <1>5, <1>6, <1>7 DEF Tops

\* What is in the forest has a place in its rows.
LEMMA CoveredIsPlaced ==
    ASSUME NEW rows \in Nat, NEW row \in Nat, NEW off \in Nat, NEW n \in Nat,
           n <= 2^rows, Covers(row, off, n)
    PROVE  row \in 0..rows /\ off \in Offsets(row, rows)
  <1>1. 2^row \in Nat /\ 2^row >= 1 /\ 2^rows \in Nat
    BY Powers
  <1>2. \A a, b \in Nat : b <= (a + 1) * b
    BY Z3
  <1>3. 2^row <= (off + 1) * 2^row /\ (off + 1) * 2^row <= n
    BY <1>1, <1>2 DEF Covers
  <1>4. 2^row <= 2^rows
    BY <1>1, <1>3
  <1>5. row <= rows
    <2>1. rows < row => 2 * 2^rows <= 2^row /\ 2^rows >= 1
      BY PowerMonotone, Powers
    <2> QED
      BY <2>1, <1>1, <1>4
  <1>6. rows - row \in Nat /\ (rows - row) + row = rows
    BY <1>5
  <1>7. 2^rows = 2^(rows - row) * 2^row /\ 2^(rows - row) \in Nat
    <2>1. 2^((rows - row) + row) = 2^(rows - row) * 2^row
      BY <1>6, PowerSum
    <2> QED
      BY <2>1, <1>6, Powers
  <1>8. off < 2^(rows - row)
    <2>1. (off + 1) * 2^row <= 2^(rows - row) * 2^row
      BY <1>1, <1>3, <1>7
    <2>2. \A a, b, c \in Nat : c >= 1 /\ a * c <= b * c => a <= b
      BY Z3
    <2>3. off + 1 \in Nat
      OBVIOUS
    <2>4. off + 1 <= 2^(rows - row)
      BY <2>1, <2>2, <2>3, <1>1, <1>7
    <2> QED
      BY <2>4, <1>7
  <1> QED
    BY <1>5, <1>7, <1>8 DEF Offsets

\* root_position computes the root of a row, if the row has one.
LEMMA RootPositionOf ==
    ASSUME NEW rows \in Nat, NEW row \in 0..rows, NEW n \in Nat, n <= 2^rows
    PROVE  RootPosition(n, row, rows) = First(row, rows) + 2 * (n \div 2^(row + 1))
  <1> DEFINE k == n \div 2^(row + 1)
             C == 2^(rows + 1)
             E == 2^(row + 1)
             R == 2^row
             low == 2^(rows + 1 - row)
             P == 2^(rows - row)
  <1>1. /\ row \in Nat /\ row + 1 \in Nat /\ rows - row \in Nat /\ (rows - row) + row = rows
        /\ rows + 1 - row = (rows - row) + 1 /\ rows + 1 - row = (rows + 1) - row
    OBVIOUS
  <1>2. E = 2 * R /\ R \in Nat \ {0} /\ E \in Nat \ {0} /\ low = 2 * P /\ P \in Nat /\ P >= 1
    <2>1. E = 2 * R /\ R \in Nat /\ R >= 1 /\ 2^((rows - row) + 1) = 2 * P /\ P \in Nat /\ P >= 1
      BY <1>1, Powers
    <2> QED
      BY <2>1, <1>1
  <1>3. C = 2 * 2^rows /\ 2^rows \in Nat /\ 2^rows >= 1
    BY Powers
  <1>4. 2^rows = P * R
    <2>1. 2^((rows - row) + row) = P * R
      BY <1>1, PowerSum
    <2> QED
      BY <2>1, <1>1
  <1>5. k \in Nat /\ k * E <= n
    <2>1. k \in Nat
      BY <1>2
    <2> QED
      BY <2>1, <1>2, QuotientBelow, k <= k, Zenon
  <1>6. k * E = (2 * k) * R
    <2>1. \A a, b \in Nat : a * (2 * b) = (2 * a) * b
      OBVIOUS
    <2> HIDE DEF k, R, E
    <2> QED
      BY <2>1, <1>2, <1>5
  <1>7. 2 * k <= P
    <2>1. (2 * k) * R <= P * R
      <3> HIDE DEF k, R, E, P
      <3>1. (2 * k) * R \in Nat /\ P * R \in Nat
        BY <1>2, <1>5
      <3> QED
        BY <3>1, <1>3, <1>4, <1>5, <1>6
    <2>2. \A a, b, c \in Nat : c >= 1 /\ a * c <= b * c => a <= b
      BY Z3
    <2>3. 2 * k \in Nat /\ R >= 1
      BY <1>2, <1>5
    <2> HIDE DEF k, R, P
    <2> QED
      BY <2>1, <2>2, <2>3, <1>2
  <1>8. k % C = k
    <2>1. P <= 2^rows
      BY FirstFacts
    <2>2. C \in Nat \ {0} /\ k < C
      BY <2>1, <1>2, <1>3, <1>5, <1>7
    <2> HIDE DEF k, C
    <2> QED
      BY <2>2, <1>5, Small
  <1>9. (k * E) \div R = 2 * k
    <2>1. 2 * k \in Nat /\ 0 \in Nat /\ 0 < R
      BY <1>2, <1>5
    <2>2. k * E = (2 * k) * R + 0
      <3> HIDE DEF k, E, R
      <3> QED
        BY <1>2, <1>5, <1>6
    <2>3. R \in Nat \ {0}
      BY <1>2
    <2> DEFINE a == k * E
               q == 2 * k
    <2>4. a = q * R + 0 /\ q \in Nat
      BY <2>1, <2>2
    <2> HIDE DEF a, q, R
    <2>5. a \div R = q
      BY <2>1, <2>3, <2>4, QuotientIs, Zenon
    <2> QED
      BY <2>5 DEF a, q
  <1>10. (2 * k) % low = 2 * k
    <2>1. 2 * k \in Nat /\ 2 * k < low /\ low \in Nat \ {0}
      BY <1>2, <1>5, <1>7
    <2> HIDE DEF k, low
    <2> QED
      BY <2>1, Small
  <1>11. RootPosition(n, row, rows) = ((((k % C) * E) \div R) % low) + C - low
    BY DEF RootPosition
  <1>12. First(row, rows) = C - low
    BY <1>1 DEF First
  <1> HIDE DEF k, C, E, R, low, P
  <1>13. RootPosition(n, row, rows) = 2 * k + C - low
    BY <1>8, <1>9, <1>10, <1>11
  <1>14. C \in Nat /\ low \in Nat /\ 2 * k \in Nat
    BY <1>2, <1>3, <1>5
  <1> QED
    BY <1>12, <1>13, <1>14 DEF k

LEMMA IsRootPositionOf ==
    ASSUME NEW rows \in Nat, NEW row \in 0..rows, NEW off \in Offsets(row, rows),
           NEW n \in Nat, n <= 2^rows
    PROVE  IsRootPosition(First(row, rows) + off, n, rows) <=> Tops(row, off, n)
  <1>1. DetectRow(First(row, rows) + off, rows) = row
    BY DetectRowOf
  <1>2. RootPosition(n, row, rows) = First(row, rows) + 2 * (n \div 2^(row + 1))
    BY RootPositionOf
  <1>3. First(row, rows) \in Nat /\ row \in Nat /\ 2^(rows - row) \in Nat
    BY FirstFacts
  <1>4. off \in Nat
    BY <1>3 DEF Offsets
  <1>5. Tops(row, off, n) <=> IsRootPopulated(row, n) /\ off = 2 * (n \div 2^(row + 1))
    BY <1>3, <1>4, TopsFacts
  <1>6. n \div 2^(row + 1) \in Nat
    <2>1. row + 1 \in Nat
      BY <1>3
    <2> QED
      BY <2>1, <1>4, CoversFacts
  <1>7. First(row, rows) + 2 * (n \div 2^(row + 1)) = First(row, rows) + off
        <=> off = 2 * (n \div 2^(row + 1))
    BY <1>3, <1>4, <1>6
  <1> QED
    BY <1>1, <1>2, <1>5, <1>7 DEF IsRootPosition

\* is_ancestor recognises the path up.
LEMMA IsAncestorOf ==
    ASSUME NEW rows \in Nat, NEW row \in 0..rows, NEW off \in Offsets(row, rows),
           NEW r \in 0..rows, NEW o \in Offsets(r, rows)
    PROVE  IsAncestor(First(r, rows) + o, First(row, rows) + off, rows)
               <=> r > row /\ o = off \div 2^(r - row)
  <1> DEFINE pos == First(row, rows) + off
             higher == First(r, rows) + o
  <1>1. DetectRow(pos, rows) = row /\ DetectRow(higher, rows) = r
    BY DetectRowOf
  <1>2. CASE r < row
    BY <1>1, <1>2 DEF IsAncestor
  <1>3. CASE r >= row
    <2>1. r - row \in 0..(rows - row) /\ row + (r - row) = r /\ r - row \in Nat
      BY <1>3
    <2>2. ParentMany(pos, r - row, rows) = First(r, rows) + (off \div 2^(r - row))
      <3>1. ParentMany(pos, r - row, rows) = First(row + (r - row), rows) + (off \div 2^(r - row))
        BY <2>1, ParentManyOf
      <3> QED
        BY <2>1, <3>1
    <2>3. off \div 2^(r - row) \in Nat /\ off \in Nat
      BY <2>1, OffsetAbove
    <2>4. First(r, rows) \in Nat /\ o \in Nat
      <3>1. First(r, rows) \in Nat /\ 2^(rows - r) \in Nat
        BY FirstFacts
      <3> QED
        BY <3>1 DEF Offsets
    <2>5. higher = ParentMany(pos, r - row, rows) <=> o = off \div 2^(r - row)
      BY <2>2, <2>3, <2>4
    <2>6. CASE r = row
      <3>1. off \div 2^(r - row) = off
        BY <2>6, <2>3, Powers
      <3>2. higher = ParentMany(pos, r - row, rows) => higher = pos
        BY <2>5, <2>6, <3>1
      <3> QED
        BY <1>1, <2>6, <3>2 DEF IsAncestor
    <2>7. CASE r > row
      <3>1. higher # pos
        BY <1>1, <2>7
      <3> HIDE DEF higher, pos
      <3>2. IsAncestor(higher, pos, rows) <=> higher = ParentMany(pos, r - row, rows)
        BY <1>1, <1>3, <3>1 DEF IsAncestor
      <3> QED
        BY <3>2, <2>5, <2>7 DEF higher, pos
    <2> QED
      BY <1>3, <2>6, <2>7
  <1> QED
    BY <1>2, <1>3
-----------------------------------------------------------------------------
(***************************************************************************)
(* detect_offset.                                                          *)
(***************************************************************************)
LEMMA IntQuotientIs ==
    ASSUME NEW q \in Int, NEW c \in Nat \ {0}, NEW r \in Nat, NEW a, a = q * c + r, r < c
    PROVE  a \div c = q /\ a % c = r
  BY Z3

\* A remainder by 2^(k + 1) is below 2^k if bit k is clear.
LEMMA HighBit ==
    ASSUME NEW a \in Nat, NEW k \in Nat
    PROVE  a % 2^(k + 1) < 2^k <=> Bit(a, k) = 0
  <1> DEFINE p == 2^k
             q == a \div p
             r == a % p
             h == q \div 2
  <1>1. p \in Nat \ {0} /\ 2^(k + 1) = 2 * p
    <2>1. p \in Nat /\ p >= 1 /\ 2^(k + 1) = 2 * p
      BY Powers
    <2> QED
      BY <2>1
  <1>2. q \in Nat /\ r \in 0..(p - 1) /\ a = q * p + r
    <2> HIDE DEF p
    <2> QED
      BY <1>1, Quotient, 0 \in Nat, Zenon
  <1>3. Bit(a, k) = q % 2
    BY DEF Bit
  <1> HIDE DEF p, q, r
  <1>4. h \in Nat /\ 2 * p \in Nat \ {0} /\ r \in Nat /\ r < p /\ p + r \in Nat /\ p + r < 2 * p /\ r < 2 * p
    BY <1>1, <1>2
  <1>5. \A x, y \in Nat : (2 * x) * y = x * (2 * y) /\ (2 * x + 1) * y = x * (2 * y) + y
    OBVIOUS
  <1>6. CASE q % 2 = 0
    <2>1. q = 2 * h
      BY <1>2, <1>6
    <2> HIDE DEF h
    <2>2. a = h * (2 * p) + r
      BY <2>1, <1>1, <1>2, <1>4, <1>5
    <2>3. a % (2 * p) = r
      BY <2>2, <1>4, QuotientIs, Zenon
    <2> QED
      BY <2>3, <1>1, <1>3, <1>4, <1>6 DEF p
  <1>7. CASE q % 2 # 0
    <2>1. q = 2 * h + 1
      BY <1>2, <1>7
    <2> HIDE DEF h
    <2>2. a = h * (2 * p) + (p + r)
      <3>1. a = (h * (2 * p) + p) + r
        BY <2>1, <1>1, <1>2, <1>4, <1>5
      <3>2. h * (2 * p) \in Nat
        BY <1>4, <1>1
      <3> QED
        BY <3>1, <3>2, <1>1, <1>4
    <2>3. a % (2 * p) = p + r
      <3> DEFINE s == p + r
                 c == 2 * p
      <3>1. a = h * c + s /\ s \in Nat /\ c \in Nat \ {0} /\ s < c /\ h \in Nat
        BY <2>2, <1>4
      <3> HIDE DEF s, c
      <3>2. a % c = s
        BY <3>1, QuotientIs, Zenon
      <3> QED
        BY <3>2 DEF s, c
    <2>4. ~ (p + r < p)
      BY <1>1, <1>4
    <2> QED
      BY <2>3, <2>4, <1>1, <1>3, <1>7 DEF p
  <1> QED
    BY <1>6, <1>7

\* Numbers that agree on their bits up to bit k.
Agree(a, b, k) == \E z \in Int : a = b + z * 2^(k + 1)

LEMMA TreeSizeFacts ==
    ASSUME NEW tr \in Nat, NEW n \in Nat
    PROVE  /\ TreeSize(tr, n) \in Nat
           /\ TreeSize(tr, n) # 0 <=> IsRootPopulated(tr, n)
           /\ TreeSize(tr, n) \in {0, 2^tr}
           /\ IsRootPopulated(tr, n) => TreeSize(tr, n) = 2^tr
  <1>1. 2^tr \in Nat /\ 2^tr >= 1
    BY Powers
  <1> QED
    BY <1>1 DEF TreeSize, IsRootPopulated

LEMMA OffsetTurnTyped ==
    ASSUME NEW n \in Nat, NEW nr, NEW rows \in Nat, NEW a \in 1..rows,
           NEW st \in [tr : a..rows, trees : Nat, marker : Int]
    PROVE  OffsetTurn(st, nr, n) \in [tr : (a - 1)..rows, trees : Nat, marker : Int]
  <1>1. st.tr \in a..rows /\ st.trees \in Nat /\ st.marker \in Int /\ st.tr \in Nat
    OBVIOUS
  <1>2. TreeSize(st.tr, n) \in Nat
    BY <1>1, TreeSizeFacts
  <1>3. CASE HoldsNode(st, nr, n)
    <2>1. OffsetTurn(st, nr, n) = st
      BY <1>3 DEF OffsetTurn
    <2>2. a..rows \subseteq (a - 1)..rows
      OBVIOUS
    <2> QED
      BY <2>1, <2>2
  <1>4. CASE ~ HoldsNode(st, nr, n)
    <2>1. /\ st.tr - 1 \in (a - 1)..rows
          /\ (IF TreeSize(st.tr, n) # 0 THEN st.trees + 1 ELSE st.trees) \in Nat
          /\ st.marker - TreeSize(st.tr, n) \in Int
      BY <1>1, <1>2
    <2> QED
      BY <2>1, <1>4 DEF OffsetTurn
  <1> QED
    BY <1>3, <1>4

\* The turns of the loop.
LEMMA OffsetTurns ==
    ASSUME NEW n \in Nat, n <= 2^MaxForestRows, NEW pos \in Int
    PROVE  LET rows == TreeRows(n)
               nr   == DetectRow(pos, rows)
           IN  \E turn : /\ turn[0] = [tr |-> rows, trees |-> 0, marker |-> pos]
                         /\ \A k \in 1..rows : turn[k] = OffsetTurn(turn[k - 1], nr, n)
                         /\ DetectOffset(pos, n) =
                                [tree |-> turn[rows].trees, branchLen |-> turn[rows].tr - nr,
                                 bits |-> U64Max - turn[rows].marker]
  <1> DEFINE rows  == TreeRows(n)
             nr    == DetectRow(pos, rows)
             start == [tr |-> rows, trees |-> 0, marker |-> pos]
             N     == 0..rows
             V     == [k \in N |-> [tr : (rows - k)..rows, trees : Nat, marker : Int]]
             rank  == [k \in N |-> k]
             b     == [k \in N |-> k - 1]
             z     == [k \in N |-> start]
             step  == [k \in N |-> [x \in V[k - 1] |-> OffsetTurn(x, nr, n)]]
  <1>1. rows \in Nat
    BY TreeRowsFacts
  <1> HIDE DEF rows, nr
  <1>2. Descends(N, rank, {0}, b)
    BY <1>1 DEF Descends
  <1>3. LinearValuesIn(V, N, {0}, z, b, step)
    <2>1. z[0] \in V[0]
      BY <1>1
    <2>2. ASSUME NEW k \in N \ {0}, NEW x \in V[b[k]] PROVE step[k][x] \in V[k]
      <3>1. k - 1 \in N /\ b[k] = k - 1 /\ rows - (k - 1) \in 1..rows /\ rows - (k - 1) - 1 = rows - k
        BY <1>1
      <3>2. V[k - 1] = [tr : (rows - (k - 1))..rows, trees : Nat, marker : Int]
            /\ V[k] = [tr : (rows - k)..rows, trees : Nat, marker : Int]
        BY <3>1
      <3>3. step[k][x] = OffsetTurn(x, nr, n)
        BY <3>1
      <3> HIDE DEF V, step, b
      <3>4. OffsetTurn(x, nr, n) \in [tr : (rows - (k - 1) - 1)..rows, trees : Nat, marker : Int]
        BY <1>1, <3>1, <3>2, OffsetTurnTyped
      <3> QED
        BY <3>1, <3>2, <3>3, <3>4
    <2> HIDE DEF V, step, b, z
    <2> QED
      BY <2>1, <2>2 DEF LinearValuesIn
  <1> HIDE DEF rank, z, V
  <1>4. PICK f : /\ f = [k \in N |-> f[k]]
                 /\ \A k \in N : f[k] \in V[k]
                 /\ LinearSolves(f, N, {0}, z, b, step)
    <2> HIDE DEF N, b, step
    <2> QED
      BY <1>2, <1>3, LinearRecursionExists
  <1> DEFINE Rhs(g) == [k \in 0..rows |-> IF k = 0 THEN start ELSE OffsetTurn(g[k - 1], nr, n)]
             IsTurn(g) == g = Rhs(g)
  <1>5. \A k \in N : f[k] = IF k = 0 THEN start ELSE OffsetTurn(f[k - 1], nr, n)
    <2>1. \A k \in N : k # 0 => k - 1 \in N /\ b[k] = k - 1
      BY <1>1
    <2>2. \A k \in N : k # 0 => f[k - 1] \in V[k - 1]
      BY <2>1, <1>4
    <2>3. \A k \in N : z[k] = start
      BY DEF z
    <2> QED
      BY <2>1, <2>2, <2>3, <1>4 DEF LinearSolves
  <1>6. IsTurn(f)
    <2> HIDE DEF b, step
    <2> QED
      BY <1>4, <1>5
  <1> DEFINE turn == CHOOSE g : IsTurn(g)
  <1>7. DetectOffset(pos, n) = [tree |-> turn[rows].trees, branchLen |-> turn[rows].tr - nr,
                                bits |-> U64Max - turn[rows].marker]
    BY DEF DetectOffset, rows, nr
  <1> HIDE DEF IsTurn
  <1>8. IsTurn(turn)
    BY <1>6
  <1> HIDE DEF turn
  <1>9. turn = Rhs(turn)
    BY <1>8 DEF IsTurn
  <1>10. turn[0] = start /\ \A k \in 1..rows : turn[k] = OffsetTurn(turn[k - 1], nr, n)
    <2>1. 0 \in 0..rows /\ \A k \in 1..rows : k \in 0..rows /\ k # 0
      BY <1>1
    <2> QED
      BY <2>1, <1>9
  <1> QED
    BY <1>7, <1>10 DEF rows, nr
LEMMA IntQuotient ==
    ASSUME NEW x \in Int, NEW c \in Nat \ {0}
    PROVE  x = (x \div c) * c + (x % c) /\ x \div c \in Int /\ x % c \in 0..(c - 1)
  BY Z3

LEMMA IntRemainder ==
    ASSUME NEW s \in Nat, NEW y \in Int, NEW c \in Nat \ {0}
    PROVE  (s + y * c) % c = s % c
  <1> DEFINE q == s \div c
             r == s % c
             a == s + y * c
  <1>1. s = q * c + r /\ q \in Nat /\ r \in 0..(c - 1)
    BY Quotient, 0 \in Nat, Zenon
  <1> HIDE DEF q, r
  <1>2. \A i, j \in Int : (i + j) * c = i * c + j * c /\ i * c \in Int
    OBVIOUS
  <1>3. a = (q + y) * c + r
    <2>1. (q + y) * c = q * c + y * c /\ q * c \in Int /\ y * c \in Int /\ r \in Int
      BY <1>1, <1>2
    <2> HIDE <1>2
    <2> QED
      BY <2>1, <1>1
  <1>4. q + y \in Int /\ r \in Nat /\ r < c
    BY <1>1
  <1> HIDE DEF a
  <1>5. a % c = r
    BY <1>3, <1>4, IntQuotientIs, Zenon
  <1> QED
    BY <1>5 DEF a, r

\* The leaf slots below a node lie in the tree of its root: its bits are
\* those of the number of leaves above the root's row, and the root's own is
\* clear.
LEMMA SlotBits ==
    ASSUME NEW n \in Nat, NEW nr \in Nat, NEW off \in Nat, NEW R \in Nat, nr <= R,
           Tops(R, off \div 2^(R - nr), n)
    PROVE  /\ Bit(off * 2^nr, R) = 0
           /\ \A tr \in Nat : tr > R => Bit(off * 2^nr, tr) = Bit(n, tr)
           /\ off * 2^nr \in Nat
           /\ IsRootPopulated(R, n)
  <1> DEFINE s == off * 2^nr
             m == n \div 2^(R + 1)
  <1>1. R - nr \in Nat /\ nr + (R - nr) = R
    OBVIOUS
  <1>2. 2^nr \in Nat \ {0} /\ 2^(R - nr) \in Nat \ {0} /\ 2^R \in Nat \ {0} /\ 2^(R + 1) \in Nat \ {0}
    <2>1. \A k \in Nat : 2^k \in Nat \ {0}
      BY Powers
    <2> QED
      BY <1>1, <2>1
  <1>3. s \in Nat /\ m \in Nat /\ off \div 2^(R - nr) \in Nat
    BY <1>2
  <1>4. s \div 2^R = off \div 2^(R - nr)
    <2>1. s = off * 2^nr + 0 /\ 0 < 2^nr /\ 0 \in Nat
      BY <1>2
    <2> HIDE DEF s
    <2>2. s \div 2^nr = off
      BY <2>1, <1>2, QuotientIs, Zenon
    <2>3. (s \div 2^nr) \div 2^(R - nr) = s \div (2^nr * 2^(R - nr))
      <3>1. s \in Nat /\ 2^nr \in Nat \ {0} /\ 2^(R - nr) \in Nat \ {0}
        BY <1>2, <1>3
      <3> QED
        BY <3>1, QuotientOfQuotient, Zenon
    <2>4. 2^(nr + (R - nr)) = 2^nr * 2^(R - nr)
      BY <1>1, PowerSum
    <2> QED
      BY <2>2, <2>3, <2>4, <1>1
  <1>5. off \div 2^(R - nr) = 2 * m /\ IsRootPopulated(R, n)
    BY <1>3, TopsFacts
  <1>6. Bit(s, R) = 0
    <2>1. Bit(s, R) = (2 * m) % 2
      BY <1>4, <1>5 DEF Bit
    <2> HIDE DEF m
    <2> QED
      BY <2>1, <1>3
  <1>7. ASSUME NEW tr \in Nat, tr > R PROVE Bit(s, tr) = Bit(n, tr)
    <2> DEFINE j == tr - (R + 1)
    <2>1. j \in Nat /\ (R + 1) + j = tr /\ R + (j + 1) = tr /\ R + 1 \in Nat /\ j + 1 \in Nat
      BY <1>7
    <2> HIDE DEF j
    <2>2. 2^tr = 2^(R + 1) * 2^j /\ 2^tr = 2^R * 2^(j + 1)
      <3>1. 2^((R + 1) + j) = 2^(R + 1) * 2^j /\ 2^(R + (j + 1)) = 2^R * 2^(j + 1)
        BY <2>1, PowerSum
      <3> QED
        BY <2>1, <3>1
    <2>3. 2^(j + 1) = 2 * 2^j /\ 2^j \in Nat \ {0} /\ 2^(j + 1) \in Nat \ {0} /\ 2 \in Nat \ {0}
      <3>1. 2^(j + 1) = 2 * 2^j /\ 2^j \in Nat /\ 2^j >= 1
        BY <2>1, Powers
      <3> QED
        BY <3>1
    <2>4. (s \div 2^R) \div 2^(j + 1) = s \div (2^R * 2^(j + 1))
      <3>1. s \in Nat /\ 2^R \in Nat \ {0} /\ 2^(j + 1) \in Nat \ {0}
        BY <1>2, <1>3, <2>3
      <3> HIDE DEF s
      <3> QED
        BY <3>1, QuotientOfQuotient, Zenon
    <2>5. m \div 2^j = n \div (2^(R + 1) * 2^j)
      <3>1. 2^(R + 1) \in Nat \ {0} /\ 2^j \in Nat \ {0}
        BY <1>2, <2>3
      <3> QED
        BY <3>1, QuotientOfQuotient, Zenon
    <2> HIDE DEF s, m
    <2>6. (2 * m) \div 2^(j + 1) = m \div 2^j
      <3>1. ((2 * m) \div 2) \div 2^j = (2 * m) \div (2 * 2^j)
        <4>1. 2 * m \in Nat
          BY <1>3
        <4> QED
          BY <4>1, <2>3, QuotientOfQuotient, Zenon
      <3>2. (2 * m) \div 2 = m
        BY <1>3
      <3> QED
        BY <3>1, <3>2, <2>3
    <2>7. s \div 2^tr = n \div 2^tr
      BY <2>2, <2>4, <2>5, <2>6, <1>4, <1>5
    <2> QED
      BY <2>7 DEF Bit
  <1> QED
    BY <1>3, <1>5, <1>6, <1>7

\* The loop's predicate is about the leaf slots below the node.
LEMMA HoldsNodeOf ==
    ASSUME NEW n \in Nat, NEW nr \in Nat, NEW off \in Nat, NEW tr \in 0..MaxForestRows, nr <= tr,
           NEW st, st.tr = tr, st.marker \in Int, Agree(st.marker, off, tr - nr),
           off * 2^nr \in Nat
    PROVE  HoldsNode(st, nr, n) <=> (off * 2^nr) % 2^(tr + 1) < TreeSize(tr, n)
  <1> DEFINE s == off * 2^nr
             c == 2^(tr + 1)
             D == 2^Width
             u == 2^(Width - (tr + 1))
             x == st.marker * 2^nr
  <1>1. /\ tr \in Nat /\ tr + 1 \in Nat /\ Width - (tr + 1) \in Nat /\ (Width - (tr + 1)) + (tr + 1) = Width
        /\ (tr - nr) + 1 \in Nat /\ ((tr - nr) + 1) + nr = tr + 1 /\ Width \in Nat
    BY MaxForestRowsAssumption DEF Width
  <1>2. c \in Nat \ {0} /\ D \in Nat \ {0} /\ u \in Nat /\ 2^nr \in Nat /\ 2^((tr - nr) + 1) \in Nat
    <2>1. \A k \in Nat : 2^k \in Nat \ {0} /\ 2^k \in Nat
      BY Powers
    <2> QED
      BY <1>1, <2>1
  <1>3. D = u * c
    <2>1. 2^((Width - (tr + 1)) + (tr + 1)) = u * c
      BY <1>1, PowerSum
    <2> QED
      BY <1>1, <2>1
  <1>4. PICK z \in Int : st.marker = off + z * 2^((tr - nr) + 1)
    BY DEF Agree
  <1>5. x = s + z * c
    <2> DEFINE e == 2^((tr - nr) + 1)
    <2>1. e * 2^nr = c
      <3>1. 2^(((tr - nr) + 1) + nr) = e * 2^nr
        BY <1>1, PowerSum
      <3> QED
        BY <3>1, <1>1
    <2>2. \A i, j, k, l \in Int : (i + j * k) * l = i * l + j * (k * l)
      BY Z3
    <2>3. e \in Int /\ 2^nr \in Int /\ off \in Int /\ z \in Int
      BY <1>2
    <2> HIDE DEF e, c
    <2>4. (off + z * e) * 2^nr = off * 2^nr + z * (e * 2^nr)
      BY <2>2, <2>3
    <2> QED
      BY <1>4, <2>1, <2>4 DEF e
  <1> HIDE DEF s, c, D, u
  <1>6. x \in Int
    BY <1>2
  <1> HIDE DEF x
  <1>7. (x % D) % c = s % c
    <2> DEFINE w == x \div D
    <2>1. x = w * D + (x % D) /\ w \in Int /\ x % D \in 0..(D - 1)
      BY <1>2, <1>6, IntQuotient, Zenon
    <2> HIDE DEF w
    <2>2. x % D = s + (z - w * u) * c
      <3>1. \A i, j, k, l \in Int : (i - j * k) * l = i * l - j * (k * l)
        BY Z3
      <3>2. (z - w * u) * c = z * c - w * (u * c)
        BY <3>1, <2>1, <1>2
      <3>3. z * c \in Int /\ w * (u * c) \in Int /\ s \in Int /\ x % D \in Int
        <4>1. u * c \in Int
          BY <1>2
        <4> QED
          BY <4>1, <2>1, <1>2 DEF s
      <3>4. x = w * (u * c) + (x % D) /\ x = s + z * c
        BY <2>1, <1>3, <1>5
      <3> QED
        BY <3>2, <3>3, <3>4
    <2>3. z - w * u \in Int /\ s \in Nat
      BY <2>1, <1>2 DEF s
    <2> DEFINE y == z - w * u
    <2> HIDE DEF y
    <2>4. (s + y * c) % c = s % c
      BY <2>3, <1>2, IntRemainder, Zenon DEF y
    <2> QED
      BY <2>2, <2>4 DEF y
  <1>8. HoldsNode(st, nr, n) <=> (x % D) % c < TreeSize(tr, n)
    BY DEF HoldsNode, x, D, c
  <1> QED
    BY <1>7, <1>8 DEF s, c

\* The rows above tr that have a tree.
TreesAbove(tr, rows, n) == {t \in (tr + 1)..rows : IsRootPopulated(t, n)}

LEMMA TreesAboveFacts ==
    ASSUME NEW rows \in Nat, NEW tr \in 0..rows, NEW n \in Nat
    PROVE  /\ Cardinality(TreesAbove(tr, rows, n)) \in Nat
           /\ TreesAbove(rows, rows, n) = {}
           /\ Cardinality(TreesAbove(rows, rows, n)) = 0
           /\ tr # 0 => Cardinality(TreesAbove(tr - 1, rows, n)) =
                            Cardinality(TreesAbove(tr, rows, n)) + (IF IsRootPopulated(tr, n) THEN 1 ELSE 0)
  <1>1. IsFiniteSet(TreesAbove(tr, rows, n))
    <2>1. IsFiniteSet((tr + 1)..rows)
      BY FS_Interval
    <2>2. TreesAbove(tr, rows, n) \subseteq (tr + 1)..rows
      BY DEF TreesAbove
    <2> QED
      BY <2>1, <2>2, FS_Subset
  <1>2. TreesAbove(rows, rows, n) = {}
    BY DEF TreesAbove
  <1>3. ASSUME tr # 0
        PROVE  TreesAbove(tr - 1, rows, n) = IF IsRootPopulated(tr, n) THEN TreesAbove(tr, rows, n) \cup {tr}
                                             ELSE TreesAbove(tr, rows, n)
    <2>1. ((tr - 1) + 1)..rows = (tr..rows) /\ tr..rows = ((tr + 1)..rows) \cup {tr}
      BY <1>3
    <2> QED
      BY <2>1 DEF TreesAbove
  <1>4. tr \notin TreesAbove(tr, rows, n)
    BY DEF TreesAbove
  <1>5. Cardinality(TreesAbove(tr, rows, n) \cup {tr}) = Cardinality(TreesAbove(tr, rows, n)) + 1
    BY <1>1, <1>4, FS_AddElement
  <1>6. Cardinality(TreesAbove(tr, rows, n)) \in Nat
    BY <1>1, FS_CardinalityType
  <1> QED
    BY <1>2, <1>3, <1>5, <1>6, FS_EmptySet

\* A tree that is skipped leaves the low bits of the marker as they are.
LEMMA AgreeBelow ==
    ASSUME NEW tr \in Nat, NEW nr \in Nat, nr < tr, NEW n \in Nat, NEW off \in Nat,
           NEW marker \in Int, Agree(marker, off, tr - nr)
    PROVE  Agree(marker - TreeSize(tr, n), off, (tr - 1) - nr)
  <1>1. PICK z \in Int : marker = off + z * 2^((tr - nr) + 1)
    BY DEF Agree
  <1> DEFINE e == 2^(tr - nr)
  <1>2. tr - nr \in Nat /\ ((tr - 1) - nr) + 1 = tr - nr /\ nr + (tr - nr) = tr
    OBVIOUS
  <1>3. 2^((tr - nr) + 1) = 2 * e /\ e \in Nat /\ 2^nr \in Nat
    BY <1>2, Powers
  <1>4. 2^tr = 2^nr * e
    <2>1. 2^(nr + (tr - nr)) = 2^nr * e
      BY <1>2, PowerSum
    <2> QED
      BY <2>1, <1>2
  <1>5. PICK y \in Int : TreeSize(tr, n) = y * e
    <2>1. CASE TreeSize(tr, n) = 0
      <3>1. TreeSize(tr, n) = 0 * e
        BY <2>1, <1>3
      <3> QED
        BY <3>1
    <2>2. CASE TreeSize(tr, n) = 2^tr
      BY <2>2, <1>3, <1>4
    <2> QED
      BY <2>1, <2>2, TreeSizeFacts
  <1> HIDE DEF e
  <1>6. marker - TreeSize(tr, n) = off + (2 * z - y) * e
    <2>1. \A i, j, k \in Int : i * (2 * k) - j * k = (2 * i - j) * k
      BY Z3
    <2>2. z * (2 * e) - y * e = (2 * z - y) * e
      BY <2>1, <1>3
    <2>3. z * (2 * e) \in Int /\ y * e \in Int
      BY <1>3
    <2> QED
      BY <2>2, <2>3, <1>1, <1>3, <1>5
  <1>7. 2 * z - y \in Int
    OBVIOUS
  <1>8. marker - TreeSize(tr, n) = off + (2 * z - y) * 2^(((tr - 1) - nr) + 1)
    BY <1>2, <1>6 DEF e
  <1> QED
    BY <1>7, <1>8 DEF Agree

\* !marker: the complement has the opposite bits.
LEMMA ComplementBits ==
    ASSUME NEW off \in Nat, NEW j \in Nat, NEW marker \in Int, Agree(marker, off, j),
           NEW k \in 0..j, k < Width
    PROVE  Bit(U64Max - marker, k) = 1 - Bit(off, k)
  <1> DEFINE p == 2^k
             a == off \div p
             b == off % p
             u == 2^(Width - (k + 1))
             v == 2^(j - k)
  <1>1. /\ k \in Nat /\ Width - (k + 1) \in Nat /\ (Width - (k + 1)) + 1 = Width - k
        /\ (Width - k) + k = Width /\ Width - k \in Nat
        /\ j - k \in Nat /\ (j - k) + 1 \in Nat /\ ((j - k) + 1) + k = j + 1
    BY MaxForestRowsAssumption DEF Width
  <1>2. p \in Nat \ {0} /\ u \in Nat /\ v \in Nat /\ 2^(Width - k) = 2 * u /\ 2^((j - k) + 1) = 2 * v
    <2>1. p \in Nat /\ p >= 1 /\ u \in Nat /\ v \in Nat
      BY <1>1, Powers
    <2>2. 2^((Width - (k + 1)) + 1) = 2 * u /\ 2^((j - k) + 1) = 2 * v
      BY <1>1, Powers
    <2> QED
      BY <2>1, <2>2, <1>1
  <1>3. 2^Width = (2 * u) * p /\ 2^(j + 1) = (2 * v) * p
    <2>1. 2^((Width - k) + k) = 2^(Width - k) * p
      BY <1>1, PowerSum
    <2>2. 2^(((j - k) + 1) + k) = 2^((j - k) + 1) * p
      BY <1>1, PowerSum
    <2> QED
      BY <2>1, <2>2, <1>1, <1>2
  <1>4. off = a * p + b /\ a \in Nat /\ b \in 0..(p - 1)
    <2> HIDE DEF p
    <2> QED
      BY <1>2, Quotient, 0 \in Nat, Zenon
  <1>5. PICK z \in Int : marker = off + z * 2^(j + 1)
    BY DEF Agree
  <1>6. Bit(off, k) = a % 2
    BY DEF Bit
  <1> DEFINE w == z * v
             q == 2 * u - 1 - a - 2 * w
             r == p - 1 - b
             c == U64Max - marker
  <1> HIDE DEF p, a, b, u, v
  <1>7. w \in Int /\ q \in Int /\ r \in Nat /\ r < p
    BY <1>2, <1>4
  <1>8. c = q * p + r
    <2>1. \A i, l, m, h \in Int : (2 * i - 1 - l - 2 * m) * h = (2 * i) * h - h - l * h - (2 * m) * h
      BY Z3
    <2>2. \A i, l, h \in Int : i * ((2 * l) * h) = (2 * (i * l)) * h
      BY Z3
    <2>3. q * p = (2 * u) * p - p - a * p - (2 * w) * p
      BY <2>1, <1>2, <1>4, <1>7
    <2>4. z * 2^(j + 1) = (2 * w) * p
      BY <2>2, <1>2, <1>3
    <2>5. c = (2 * u) * p - 1 - (a * p + b + (2 * w) * p)
      BY <2>4, <1>3, <1>4, <1>5 DEF U64Max
    <2> HIDE DEF w, q, r, c
    <2>6. (2 * u) * p \in Int /\ a * p \in Int /\ (2 * w) * p \in Int /\ b \in Int /\ p \in Int
      BY <1>2, <1>4, <1>7
    <2>7. q * p + r = ((2 * u) * p - p - a * p - (2 * w) * p) + (p - 1 - b)
      BY <2>3 DEF r
    <2> QED
      BY <2>5, <2>6, <2>7
  <1> HIDE DEF c, q, r
  <1>9. c \div p = q
    BY <1>2, <1>7, <1>8, IntQuotientIs, Zenon
  <1>10. q % 2 = 1 - (a % 2)
    <2> HIDE DEF w
    <2> QED
      BY <1>2, <1>4, <1>7 DEF q
  <1>11. Bit(c, k) = q % 2
    BY <1>9 DEF Bit, p
  <1> QED
    BY <1>6, <1>10, <1>11 DEF c

\* detect_offset counts the trees before the node's, measures the branch, and
\* gives the complement of the path.
LEMMA DetectOffsetOf ==
    ASSUME NEW n \in Nat, n <= 2^MaxForestRows,
           NEW R \in 0..TreeRows(n), NEW row \in 0..R,
           NEW off \in Offsets(row, TreeRows(n)),
           Tops(R, off \div 2^(R - row), n)
    PROVE  LET d == DetectOffset(First(row, TreeRows(n)) + off, n)
           IN  /\ d.tree = Cardinality(TreesAbove(R, TreeRows(n), n))
               /\ d.branchLen = R - row
               /\ \A k \in 0..(R - row - 1) : Bit(d.bits, k) = 1 - Bit(off, k)
  <1> DEFINE rows == TreeRows(n)
             pos  == First(row, rows) + off
             s    == off * 2^row
             K    == rows - R
  <1>1. rows \in Nat /\ rows \in 0..MaxForestRows /\ rows <= MaxForestRows
    BY TreeRowsFacts
  <1> HIDE DEF rows
  <1>2. /\ R \in 0..rows /\ R \in Nat /\ row \in 0..rows /\ row \in Nat /\ row <= R
        /\ off \in Offsets(row, rows) /\ K \in 0..rows /\ K \in Nat /\ rows - K = R
    BY <1>1 DEF rows
  <1>3. off \in Nat
    <2>1. 2^(rows - row) \in Nat
      BY <1>1, <1>2, FirstFacts
    <2> QED
      BY <2>1, <1>2 DEF Offsets
  <1>4. DetectRow(pos, rows) = row
    BY <1>1, <1>2, DetectRowOf
  <1>5. pos \in Int /\ First(row, rows) \in Nat
    BY <1>1, <1>2, <1>3, FirstFacts
  <1>6. PICK turn : /\ turn[0] = [tr |-> rows, trees |-> 0, marker |-> pos]
                    /\ \A k \in 1..rows : turn[k] = OffsetTurn(turn[k - 1], row, n)
                    /\ DetectOffset(pos, n) =
                           [tree |-> turn[rows].trees, branchLen |-> turn[rows].tr - row,
                            bits |-> U64Max - turn[rows].marker]
    <2> HIDE DEF pos
    <2> QED
      BY <1>4, <1>5, OffsetTurns DEF rows
  <1>7. /\ s \in Nat /\ Bit(s, R) = 0 /\ IsRootPopulated(R, n)
        /\ \A tr \in Nat : tr > R => Bit(s, tr) = Bit(n, tr)
    BY <1>2, <1>3, SlotBits
  <1> HIDE DEF s
  \* The loop goes on above the root's row, and stops there.
  <1>8. ASSUME NEW tr \in R..rows, NEW st, st.tr = tr, st.marker \in Int, Agree(st.marker, off, tr - row)
        PROVE  HoldsNode(st, row, n) <=> tr = R
    <2>1. tr \in 0..MaxForestRows /\ tr \in Nat /\ row <= tr
      <3>1. tr \in Nat /\ row <= tr /\ tr <= rows
        BY <1>1, <1>2
      <3>2. MaxForestRows \in Nat
        BY MaxForestRowsAssumption
      <3> QED
        BY <3>1, <3>2, <1>1
    <2>2. HoldsNode(st, row, n) <=> s % 2^(tr + 1) < TreeSize(tr, n)
      BY <2>1, <1>2, <1>3, <1>7, <1>8, HoldsNodeOf DEF s
    <2>3. s % 2^(tr + 1) < 2^tr <=> Bit(s, tr) = 0
      BY <2>1, <1>7, HighBit
    <2>4. s % 2^(tr + 1) \in Nat
      <3>1. 2^(tr + 1) \in Nat /\ 2^(tr + 1) >= 1
        BY <2>1, Powers
      <3> QED
        BY <3>1, <1>7
    <2>5. CASE tr = R
      BY <2>1, <2>2, <2>3, <2>5, <1>7, TreeSizeFacts
    <2>6. CASE tr # R
      <3>1. Bit(s, tr) = Bit(n, tr)
        BY <2>1, <2>6, <1>2, <1>7
      <3>2. CASE Bit(n, tr) = 1
        <4>1. TreeSize(tr, n) = 2^tr
          BY <3>2 DEF TreeSize
        <4> QED
          BY <4>1, <3>1, <3>2, <2>2, <2>3, <2>6
      <3>3. CASE Bit(n, tr) # 1
        <4>1. TreeSize(tr, n) = 0
          BY <3>3 DEF TreeSize
        <4> QED
          BY <4>1, <2>2, <2>4, <2>6
      <3> QED
        BY <3>2, <3>3
    <2> QED
      BY <2>5, <2>6
  <1> DEFINE Good(k) == /\ turn[k].tr = rows - k
                        /\ turn[k].trees = Cardinality(TreesAbove(rows - k, rows, n))
                        /\ turn[k].marker \in Int
                        /\ Agree(turn[k].marker, off, (rows - k) - row)
  <1>9. Good(0)
    <2>1. rows - 0 = rows
      BY <1>1
    <2>2. Cardinality(TreesAbove(rows, rows, n)) = 0
      BY <1>1, TreesAboveFacts
    <2>3. Agree(pos, off, rows - row)
      <3>1. rows - row \in Nat /\ row + ((rows - row) + 1) = rows + 1 /\ (rows - row) + 1 \in Nat
            /\ (rows + 1) - row = (rows - row) + 1
        BY <1>1, <1>2
      <3> DEFINE e == 2^((rows - row) + 1)
      <3>2. 2^(rows + 1) = 2^row * e
        <4>1. 2^(row + ((rows - row) + 1)) = 2^row * e
          BY <3>1, <1>2, PowerSum
        <4> QED
          BY <4>1, <3>1
      <3>3. 2^row \in Nat /\ e \in Nat
        BY <3>1, <1>2, Powers
      <3>4. First(row, rows) = 2^row * e - e
        BY <3>1, <3>2 DEF First
      <3> HIDE DEF e
      <3>5. \A i, j \in Int : i * j - j = (i - 1) * j
        OBVIOUS
      <3>6. First(row, rows) = (2^row - 1) * e
        BY <3>3, <3>4, <3>5
      <3>7. pos = off + (2^row - 1) * e
        BY <3>6, <1>3, <1>5
      <3>8. 2^row - 1 \in Int
        BY <3>3
      <3> HIDE DEF pos
      <3> QED
        BY <3>7, <3>8 DEF Agree, e
    <2>4. turn[0].tr = rows /\ turn[0].trees = 0 /\ turn[0].marker = pos
      BY <1>6
    <2> HIDE DEF pos
    <2> QED
      BY <2>1, <2>2, <2>3, <2>4, <1>5
  <1>10. ASSUME NEW k \in Nat, k < K, Good(k) PROVE Good(k + 1)
    <2> DEFINE st == turn[k]
               tr == rows - k
    <2>1. /\ k + 1 \in 1..rows /\ (k + 1) - 1 = k /\ rows - (k + 1) = tr - 1
          /\ tr \in R..rows /\ tr # R /\ tr \in 0..rows /\ tr # 0 /\ tr \in Nat /\ row < tr
      BY <1>1, <1>2, <1>10
    <2>2. st.tr = tr /\ st.trees = Cardinality(TreesAbove(tr, rows, n)) /\ st.marker \in Int
          /\ Agree(st.marker, off, tr - row)
      BY <1>10
    <2> HIDE DEF st, tr
    <2>3. ~ HoldsNode(st, row, n)
      BY <2>1, <2>2, <1>8
    <2>4. turn[k + 1] = [tr     |-> tr - 1,
                         trees  |-> IF TreeSize(tr, n) # 0 THEN st.trees + 1 ELSE st.trees,
                         marker |-> st.marker - TreeSize(tr, n)]
      <3>1. turn[k + 1] = OffsetTurn(turn[(k + 1) - 1], row, n)
        BY <2>1, <1>6
      <3>2. turn[k + 1] = OffsetTurn(st, row, n)
        BY <3>1, <2>1 DEF st
      <3> QED
        BY <3>2, <2>2, <2>3 DEF OffsetTurn
    <2>5. TreeSize(tr, n) \in Nat /\ (TreeSize(tr, n) # 0 <=> IsRootPopulated(tr, n))
      BY <2>1, TreeSizeFacts
    <2>6. /\ Cardinality(TreesAbove(tr - 1, rows, n)) =
                Cardinality(TreesAbove(tr, rows, n)) + (IF IsRootPopulated(tr, n) THEN 1 ELSE 0)
          /\ Cardinality(TreesAbove(tr, rows, n)) \in Nat
      BY <2>1, <1>1, TreesAboveFacts
    <2>7. Agree(st.marker - TreeSize(tr, n), off, (tr - 1) - row)
      BY <2>1, <2>2, <1>2, <1>3, AgreeBelow
    <2>8. turn[k + 1].trees = Cardinality(TreesAbove(tr - 1, rows, n))
      BY <2>2, <2>4, <2>5, <2>6
    <2>9. turn[k + 1].marker \in Int
      BY <2>2, <2>4, <2>5
    <2> QED
      BY <2>1, <2>4, <2>7, <2>8, <2>9
  <1> HIDE DEF Good
  <1>11. Good(K)
    <2> DEFINE S == {k \in Nat : k <= K => Good(k)}
    <2>1. 0 \in S
      BY <1>9
    <2>2. \A k \in Nat : k \in S => k + 1 \in S
      BY <1>2, <1>10
    <2> HIDE DEF S
    <2>3. K \in S
      BY <2>1, <2>2, <1>2, NatInductionOn
    <2> QED
      BY <2>3, <1>2 DEF S
  <1>12. turn[K].tr = R /\ turn[K].marker \in Int /\ Agree(turn[K].marker, off, R - row)
         /\ turn[K].trees = Cardinality(TreesAbove(R, rows, n))
    BY <1>2, <1>11 DEF Good
  <1>13. HoldsNode(turn[K], row, n)
    <2>1. R \in R..rows
      BY <1>1, <1>2
    <2> QED
      BY <2>1, <1>8, <1>12
  <1> HIDE DEF K
  <1>14. turn[rows] = turn[K]
    <2> DEFINE S == {j \in Nat : K + j <= rows => turn[K + j] = turn[K]}
    <2>1. 0 \in S
      BY <1>2
    <2>2. ASSUME NEW j \in Nat, j \in S PROVE j + 1 \in S
      <3>1. SUFFICES ASSUME K + (j + 1) <= rows PROVE turn[K + (j + 1)] = turn[K]
        OBVIOUS
      <3>2. K + j <= rows /\ K + (j + 1) \in 1..rows /\ (K + (j + 1)) - 1 = K + j
        BY <3>1, <1>1, <1>2
      <3>3. turn[K + j] = turn[K]
        BY <3>2, <2>2
      <3>4. turn[K + (j + 1)] = OffsetTurn(turn[(K + (j + 1)) - 1], row, n)
        BY <3>2, <1>6
      <3>5. turn[K + (j + 1)] = OffsetTurn(turn[K], row, n)
        BY <3>2, <3>3, <3>4
      <3> QED
        BY <3>5, <1>13 DEF OffsetTurn
    <2> HIDE DEF S
    <2>3. rows - K \in S
      BY <2>1, <2>2, <1>2, NatInductionOn
    <2>4. K + (rows - K) = rows
      BY <1>1, <1>2
    <2> QED
      BY <2>3, <2>4, <1>1 DEF S
  <1>15. DetectOffset(pos, n) = [tree |-> Cardinality(TreesAbove(R, rows, n)), branchLen |-> R - row,
                                 bits |-> U64Max - turn[K].marker]
    <2> HIDE DEF pos
    <2> QED
      BY <1>6, <1>12, <1>14
  <1>16. ASSUME NEW k \in 0..(R - row - 1) PROVE Bit(U64Max - turn[K].marker, k) = 1 - Bit(off, k)
    <2>1. R - row \in Nat /\ k \in 0..(R - row) /\ k < Width
      BY <1>1, <1>2, MaxForestRowsAssumption DEF Width
    <2> QED
      BY <2>1, <1>3, <1>12, ComplementBits
  <1> HIDE DEF pos
  <1> QED
    BY <1>15, <1>16 DEF pos, rows
-----------------------------------------------------------------------------
(***************************************************************************)
(* The path from a node up to its root.                                    *)
(***************************************************************************)
LEMMA QuotientMonotone ==
    ASSUME NEW a \in Nat, NEW b \in Nat, NEW c \in Nat \ {0}, a \div c < b \div c
    PROVE  a < b
  BY Z3

\* What is above a node covers more than the node does.
LEMMA CoversBelow ==
    ASSUME NEW r \in Nat, NEW j \in Nat, NEW o \in Nat, NEW n \in Nat, Covers(r + j, o \div 2^j, n)
    PROVE  Covers(r, o, n)
  <1>1. 2^j \in Nat \ {0} /\ 2^r \in Nat \ {0} /\ r + j \in Nat
    BY Powers
  <1>2. o \div 2^j \in Nat
    BY <1>1
  <1>3. o \div 2^j < n \div 2^(r + j)
    BY <1>1, <1>2, CoversFacts
  <1>4. n \div 2^(r + j) = (n \div 2^r) \div 2^j
    <2>1. (n \div 2^r) \div 2^j = n \div (2^r * 2^j)
      BY <1>1, QuotientOfQuotient, Zenon
    <2> QED
      BY <2>1, PowerSum
  <1>5. n \div 2^r \in Nat
    BY CoversFacts
  <1>6. o < n \div 2^r
    BY <1>1, <1>3, <1>4, <1>5, QuotientMonotone
  <1> QED
    BY <1>6, CoversFacts

\* One row up is one bit less.
LEMMA HalfOfQuotient ==
    ASSUME NEW o \in Nat, NEW j \in Nat
    PROVE  (o \div 2^j) \div 2 = o \div 2^(j + 1) /\ o \div 2^j \in Nat
  <1>1. 2^j \in Nat \ {0} /\ 2 \in Nat \ {0} /\ 2^(j + 1) = 2^j * 2
    <2>1. 2^j \in Nat /\ 2^j >= 1 /\ 2^(j + 1) = 2 * 2^j
      BY Powers
    <2> QED
      BY <2>1
  <1>2. (o \div 2^j) \div 2 = o \div (2^j * 2)
    BY <1>1, QuotientOfQuotient, Zenon
  <1> QED
    BY <1>1, <1>2

\* Every node of the forest is below a root.
LEMMA RootExists ==
    ASSUME NEW rows \in Nat, NEW row \in Nat, NEW off \in Nat, NEW n \in Nat,
           n <= 2^rows, Covers(row, off, n)
    PROVE  \E r \in row..rows : Tops(r, off \div 2^(r - row), n)
  <1> DEFINE S == {r \in 0..rows : r >= row /\ Covers(r, off \div 2^(r - row), n)}
  <1>1. row \in S
    <2>1. row \in 0..rows
      BY CoveredIsPlaced
    <2>2. off \div 2^(row - row) = off
      BY Powers
    <2> QED
      BY <2>1, <2>2
  <1>2. PICK m \in S : \A r \in S : r <= m
    <2>1. S \subseteq 0..rows /\ S # {}
      BY <1>1
    <2> HIDE DEF S
    <2> QED
      BY <2>1, GreatestNumber
  <1>3. m \in 0..rows /\ m >= row /\ Covers(m, off \div 2^(m - row), n) /\ m - row \in Nat
        /\ m \in Nat /\ m + 1 \in Nat /\ (m + 1) - row = (m - row) + 1
    BY <1>2
  <1>4. (off \div 2^(m - row)) \div 2 = off \div 2^((m + 1) - row) /\ off \div 2^(m - row) \in Nat
    BY <1>3, HalfOfQuotient
  <1>5. ~ Covers(m + 1, (off \div 2^(m - row)) \div 2, n)
    <2>1. SUFFICES ASSUME Covers(m + 1, (off \div 2^(m - row)) \div 2, n) PROVE FALSE
      OBVIOUS
    <2>2. (off \div 2^(m - row)) \div 2 \in Nat
      <3>1. \A x \in Nat : x \div 2 \in Nat
        OBVIOUS
      <3> QED
        BY <3>1, <1>4
    <2>3. m + 1 \in 0..rows
      BY <2>1, <2>2, <1>3, CoveredIsPlaced
    <2>4. m + 1 \in S
      BY <2>1, <2>3, <1>3, <1>4
    <2> QED
      BY <2>4, <1>2, <1>3
  <1>6. Tops(m, off \div 2^(m - row), n)
    BY <1>3, <1>5 DEF Tops
  <1> QED
    BY <1>3, <1>6

\* A node that rises because a subtree next to its path is deleted stays
\* below the same ancestor.
LEMMA RisenIsCovered ==
    ASSUME NEW row \in Nat, NEW off \in Nat, NEW d \in Nat, NEW n \in Nat,
           Covers(row + (d + 1), off \div 2^(d + 1), n),
           OffsetWithout(off, d) \in Nat,
           OffsetWithout(off, d) < ((off \div 2^(d + 1)) + 1) * 2^d
    PROVE  Covers(row + 1, OffsetWithout(off, d), n)
  <1> DEFINE e == off \div 2^(d + 1)
             o == OffsetWithout(off, d)
             A == 2^d
             B == 2^(row + 1)
  <1>1. row + (d + 1) = d + (row + 1) /\ d + 1 \in Nat /\ row + 1 \in Nat
    OBVIOUS
  <1>2. A \in Nat /\ B \in Nat /\ 2^(d + 1) \in Nat \ {0}
    BY <1>1, Powers
  <1>3. 2^(row + (d + 1)) = A * B
    <2>1. 2^(d + (row + 1)) = A * B
      BY <1>1, PowerSum
    <2> QED
      BY <2>1, <1>1
  <1>4. e \in Nat
    BY <1>2
  <1>5. (e + 1) * (A * B) <= n
    BY <1>3 DEF Covers
  <1> HIDE DEF e, o, A, B
  <1>6. o \in Nat /\ o + 1 <= (e + 1) * A
    <2>1. (e + 1) * A \in Nat
      BY <1>2, <1>4
    <2>2. o \in Nat /\ o < (e + 1) * A
      BY DEF e, o, A
    <2> QED
      BY <2>1, <2>2
  <1>7. (o + 1) * B <= (e + 1) * (A * B)
    <2>1. \A i, j, b \in Nat : i <= j => i * b <= j * b
      BY Z3
    <2>2. \A i, a, b \in Nat : (i * a) * b = i * (a * b) /\ i * a \in Nat
      BY Z3
    <2>3. (o + 1) * B <= ((e + 1) * A) * B
      BY <2>1, <2>2, <1>2, <1>4, <1>6
    <2> QED
      BY <2>2, <2>3, <1>2, <1>4
  <1>8. (o + 1) * B <= n
    <2>1. (o + 1) * B \in Nat /\ (e + 1) * (A * B) \in Nat
      <3>1. A * B \in Nat
        BY <1>2
      <3> QED
        BY <3>1, <1>2, <1>4, <1>6
    <2> QED
      BY <2>1, <1>5, <1>7
  <1> QED
    BY <1>8 DEF Covers, o, B
=============================================================================
