--------------------------- MODULE KDIndexProofs ---------------------------
(***************************************************************************)
(* The arithmetic the KD search rests on: the three values it prunes by    *)
(* (box, split plane, partition gap) are lower bounds of the distance, and *)
(* a distance is below the value that marks an empty slot.                 *)
(***************************************************************************)
EXTENDS KDIndex, FiniteSetTheorems, WellFoundedInduction, TLAPS

(* A square is a natural number. *)
LEMMA SqNat == ASSUME NEW x \in Int PROVE Sq(x) \in Nat
  <1>1. x >= 0 => x * x >= 0
    BY Z3
  <1>2. x < 0 => x * x >= 0
    BY Z3
  <1> QED
    BY <1>1, <1>2 DEF Sq

(* The square grows with the distance from zero. *)
LEMMA SqMonotone ==
  ASSUME NEW a \in Int, NEW b \in Int, 0 <= a, a <= b \/ a <= -b
  PROVE  Sq(a) <= Sq(b)
  <1>1. CASE a <= b
    BY <1>1, Z3 DEF Sq
  <1>2. CASE a <= -b
    <2>1. a * a <= (-b) * (-b)
      BY <1>2, Z3
    <2>2. (-b) * (-b) = b * b
      BY Z3
    <2> QED
      BY <2>1, <2>2 DEF Sq
  <1> QED
    BY <1>1, <1>2

(* The sum over the dimensions is natural, no term exceeds it, and it grows
   with its terms. *)
LEMMA SumDimsTerm ==
  ASSUME NEW f \in [Dims -> Nat]
  PROVE  SumDims(f) \in Nat /\ \A d \in Dims : f[d] <= SumDims(f)
  <1> DEFINE a == f[0] + f[1] + f[2] + f[3] + f[4] + f[5] + f[6] + f[7]
             b == f[8] + f[9] + f[10] + f[11] + f[12] + f[13] + f[14] + f[15]
  <1>1. \A e \in Dims : f[e] \in Nat
    OBVIOUS
  <1>2. f[0] \in Nat /\ f[1] \in Nat /\ f[2] \in Nat /\ f[3] \in Nat
    BY <1>1 DEF Dims
  <1>3. f[4] \in Nat /\ f[5] \in Nat /\ f[6] \in Nat /\ f[7] \in Nat
    BY <1>1 DEF Dims
  <1>4. f[8] \in Nat /\ f[9] \in Nat /\ f[10] \in Nat /\ f[11] \in Nat
    BY <1>1 DEF Dims
  <1>5. f[12] \in Nat /\ f[13] \in Nat /\ f[14] \in Nat /\ f[15] \in Nat
    BY <1>1 DEF Dims
  <1>6. a \in Nat
    BY <1>2, <1>3
  <1>7. b \in Nat
    BY <1>4, <1>5
  <1>8. SumDims(f) = a + b
    BY <1>2, <1>3, <1>4, <1>5 DEF SumDims
  <1>9. ASSUME NEW d \in Dims PROVE f[d] <= SumDims(f)
    <2>1. CASE d \in 0..7
      <3>1. f[d] <= a
        BY <2>1, <1>2, <1>3
      <3> QED
        BY <3>1, <1>1, <1>6, <1>7, <1>8
    <2>2. CASE d \in 8..15
      <3>1. f[d] <= b
        BY <2>2, <1>4, <1>5
      <3> QED
        BY <3>1, <1>1, <1>6, <1>7, <1>8
    <2> QED
      BY <2>1, <2>2 DEF Dims
  <1> QED
    BY <1>6, <1>7, <1>8, <1>9

LEMMA SumDimsMonotone ==
  ASSUME NEW f \in [Dims -> Nat], NEW g \in [Dims -> Nat],
         \A d \in Dims : f[d] <= g[d]
  PROVE  SumDims(f) <= SumDims(g)
  BY DEF SumDims, Dims

-----------------------------------------------------------------------------
(* The terms of a distance. *)
LEMMA DistTerms ==
  ASSUME NEW q \in [Dims -> Int], NEW r \in [Dims -> Int]
  PROVE  /\ [d \in Dims |-> Sq(q[d] - r[d])] \in [Dims -> Nat]
         /\ sqDist(q, r) \in Nat
  <1>1. [d \in Dims |-> Sq(q[d] - r[d])] \in [Dims -> Nat]
    BY SqNat
  <1> QED
    BY <1>1, SumDimsTerm DEF sqDist

(* The distance of two quantized vectors is below the empty slot's. *)
LEMMA DistBelowInf ==
  ASSUME NEW q, NEW r, Quantized(q), Quantized(r)
  PROVE  sqDist(q, r) \in Nat /\ sqDist(q, r) < Inf
  <1> DEFINE f == [d \in Dims |-> Sq(q[d] - r[d])]
             g == [d \in Dims |-> 4 * (QScale * QScale)]
  <1>0. QScale \in Nat /\ QScale * QScale \in Nat
    BY QScaleAssumption, Z3
  <1>1. q \in [Dims -> Int] /\ r \in [Dims -> Int]
    BY <1>0 DEF Quantized
  <1>2. f \in [Dims -> Nat]
    BY <1>1, DistTerms
  <1>3. g \in [Dims -> Nat]
    BY <1>0
  <1>4. ASSUME NEW d \in Dims PROVE f[d] <= g[d]
    <2> DEFINE x == q[d] - r[d]
    <2>1. x \in Int /\ x <= 2 * QScale /\ -x <= 2 * QScale
      BY <1>0, QScaleAssumption DEF Quantized
    <2>2. (2 * QScale) * (2 * QScale) = 4 * (QScale * QScale)
      BY <1>0, Z3
    <2>3. CASE x >= 0
      BY <2>1, <2>2, <2>3, <1>0, SqMonotone DEF Sq
    <2>4. CASE x < 0
      <3>1. Sq(-x) <= Sq(2 * QScale)
        BY <2>1, <2>4, <1>0, SqMonotone
      <3>2. Sq(-x) = Sq(x)
        BY <2>1, Z3 DEF Sq
      <3> QED
        BY <3>1, <3>2, <2>2 DEF Sq
    <2> QED
      BY <2>1, <2>3, <2>4
  <1>5. SumDims(f) <= SumDims(g)
    BY <1>2, <1>3, <1>4, SumDimsMonotone
  <1>6. SumDims(g) = 64 * (QScale * QScale)
    BY <1>0 DEF SumDims, Dims
  <1>7. 64 * QScale * QScale = 64 * (QScale * QScale)
    BY <1>0, Z3
  <1>8. SumDims(f) = sqDist(q, r)
    BY DEF sqDist
  <1>9. sqDist(q, r) \in Nat
    BY <1>1, DistTerms
  <1> HIDE DEF f, g
  <1> QED
    BY <1>0, <1>5, <1>6, <1>7, <1>8, <1>9, InfAssumption

-----------------------------------------------------------------------------
(* The box of a node is a lower bound for every vector inside it: pruning a
   node by aabbLowerBound loses no better candidate. *)
THEOREM BoxLowerBound ==
  ASSUME NEW q \in [Dims -> Int], NEW r \in [Dims -> Int], NEW box,
         \A d \in Dims : /\ box.lo[d] \in Int /\ box.hi[d] \in Int
                         /\ box.lo[d] <= r[d] /\ r[d] <= box.hi[d]
  PROVE  aabbLowerBound(box, q) \in Nat /\ aabbLowerBound(box, q) <= sqDist(q, r)
  <1> DEFINE term(d) == CASE q[d] < box.lo[d] -> Sq(box.lo[d] - q[d])
                          [] q[d] > box.hi[d] -> Sq(q[d] - box.hi[d])
                          [] OTHER            -> 0
             f == [d \in Dims |-> term(d)]
             g == [d \in Dims |-> Sq(q[d] - r[d])]
  <1>1. ASSUME NEW d \in Dims PROVE term(d) \in Nat /\ term(d) <= Sq(q[d] - r[d])
    <2>0. /\ q[d] \in Int /\ r[d] \in Int /\ box.lo[d] \in Int /\ box.hi[d] \in Int
          /\ box.lo[d] <= r[d] /\ r[d] <= box.hi[d]
      OBVIOUS
    <2>1. CASE q[d] < box.lo[d]
      <3>1. Sq(box.lo[d] - q[d]) <= Sq(q[d] - r[d])
        BY <2>0, <2>1, SqMonotone
      <3> QED
        BY <3>1, <2>0, <2>1, SqNat
    <2>2. CASE q[d] > box.hi[d]
      <3>1. Sq(q[d] - box.hi[d]) <= Sq(q[d] - r[d])
        BY <2>0, <2>2, SqMonotone
      <3> QED
        BY <3>1, <2>0, <2>2, SqNat
    <2>3. CASE ~ (q[d] < box.lo[d]) /\ ~ (q[d] > box.hi[d])
      BY <2>0, <2>3, SqNat
    <2> QED
      BY <2>1, <2>2, <2>3
  <1> HIDE DEF term
  <1>2. f \in [Dims -> Nat] /\ g \in [Dims -> Nat]
    BY <1>1, DistTerms
  <1>3. SumDims(f) \in Nat /\ SumDims(f) <= SumDims(g)
    BY <1>1, <1>2, SumDimsMonotone, SumDimsTerm
  <1> QED
    BY <1>3 DEF term, aabbLowerBound, sqDist

(* A split plane between the query and a vector is no farther away than the
   vector: not pushing the far child loses no better candidate. *)
THEOREM PlaneLowerBound ==
  ASSUME NEW q \in [Dims -> Int], NEW r \in [Dims -> Int],
         NEW d \in Dims, NEW v \in Int,
         \/ q[d] <= v /\ v <= r[d]
         \/ q[d] >= v /\ v >= r[d]
  PROVE  Sq(q[d] - v) <= sqDist(q, r)
  <1> DEFINE f == [e \in Dims |-> Sq(q[e] - r[e])]
  <1>0. q[d] \in Int /\ r[d] \in Int
    OBVIOUS
  <1>1. Sq(q[d] - v) <= Sq(q[d] - r[d])
    <2>1. CASE q[d] <= v /\ v <= r[d]
      <3>1. Sq(v - q[d]) <= Sq(q[d] - r[d])
        BY <1>0, <2>1, SqMonotone
      <3>2. Sq(v - q[d]) = Sq(q[d] - v)
        BY <1>0, Z3 DEF Sq
      <3> QED
        BY <3>1, <3>2
    <2>2. CASE q[d] >= v /\ v >= r[d]
      BY <1>0, <2>2, SqMonotone
    <2> QED
      BY <2>1, <2>2
  <1>2. f \in [Dims -> Nat]
    BY DistTerms
  <1>3. SumDims(f) \in Nat /\ f[d] <= SumDims(f)
    BY <1>2, SumDimsTerm
  <1> QED
    BY <1>0, <1>1, <1>2, <1>3, SqNat DEF sqDist

-----------------------------------------------------------------------------
(* An integer within the range of its width is not changed by it. *)
LEMMA WrapInRange ==
  ASSUME NEW half \in Nat, NEW x \in Int, -half <= x, x < half
  PROVE  Wrap(x, half) = x
  <1>1. (x + half) % (2 * half) = x + half
    BY Z3
  <1> QED
    BY <1>1 DEF Wrap

(* The sum of the squares of two differences that fit a lane fits an integer of
   twice the width. *)
LEMMA PairSum ==
  ASSUME NEW half \in Nat, NEW x \in Int, NEW y \in Int,
         x < half, -x < half, y < half, -y < half
  PROVE  Wrap(x * x + y * y, 2 * half * half) = Sq(x) + Sq(y)
  <1> DEFINE m == half - 1
  <1>1. m \in Nat /\ (x <= m /\ -x <= m) /\ (y <= m /\ -y <= m)
    OBVIOUS
  <1>2. ASSUME NEW z \in Int, z <= m, -z <= m PROVE Sq(z) \in Nat /\ Sq(z) <= m * m
    <2>1. CASE z >= 0
      BY <1>1, <1>2, <2>1, SqNat, SqMonotone DEF Sq
    <2>2. CASE z < 0
      <3>1. Sq(-z) <= Sq(m)
        BY <1>1, <1>2, <2>2, SqMonotone
      <3>2. Sq(-z) = Sq(z)
        BY Z3 DEF Sq
      <3> QED
        BY <3>1, <3>2, SqNat DEF Sq
    <2> QED
      BY <2>1, <2>2
  <1>3. m * m + m * m < 2 * half * half /\ 2 * half * half \in Nat
    BY <1>1, Z3
  <1>4. Sq(x) \in Nat /\ Sq(x) <= m * m /\ Sq(y) \in Nat /\ Sq(y) <= m * m
    BY <1>1, <1>2
  <1>5. m * m \in Nat
    BY <1>1, Z3
  <1> HIDE DEF m
  <1>6. Sq(x) + Sq(y) \in Nat /\ Sq(x) + Sq(y) < 2 * half * half
    BY <1>3, <1>4, <1>5
  <1>7. Wrap(Sq(x) + Sq(y), 2 * half * half) = Sq(x) + Sq(y)
    BY <1>3, <1>6, WrapInRange
  <1> QED
    BY <1>7 DEF Sq

(* The vector kernel of dist_simd.go computes the distance of the scalar one: no
   difference of quantized vectors leaves its lane and no sum of two squares its
   integer, as long as a lane holds twice the scale. *)
THEOREM SimdKernelIsExact ==
  ASSUME NEW q, NEW r, Quantized(q), Quantized(r),
         NEW half \in Nat, 2 * QScale < half
  PROVE  sqDistSimd(half, q, r) = sqDist(q, r)
  <1> DEFINE v == Lane(half, q, r)
             f == [d \in Dims |-> Sq(q[d] - r[d])]
             out == DotProductPairs(half, v)
  <1>0. QScale \in Nat
    BY QScaleAssumption
  <1>1. ASSUME NEW d \in Dims
        PROVE  /\ v[d] = q[d] - r[d]
               /\ v[d] \in Int /\ v[d] < half /\ -v[d] < half
    <2>1. q[d] \in (-QScale)..QScale /\ r[d] \in (-QScale)..QScale
      BY DEF Quantized
    <2>2. q[d] - r[d] \in Int /\ q[d] - r[d] < half /\ -(q[d] - r[d]) < half
      BY <1>0, <2>1
    <2>3. Wrap(q[d] - r[d], half) = q[d] - r[d]
      BY <2>2, WrapInRange
    <2> QED
      BY <2>2, <2>3 DEF Lane
  <1>2. ASSUME NEW j \in 0..7
        PROVE  out[j] = f[2 * j] + f[2 * j + 1]
    <2>1. 2 * j \in Dims /\ 2 * j + 1 \in Dims
      BY DEF Dims
    <2>2. out[j] = Wrap(v[2 * j] * v[2 * j] + v[2 * j + 1] * v[2 * j + 1], 2 * half * half)
      BY DEF DotProductPairs
    <2>3. out[j] = Sq(v[2 * j]) + Sq(v[2 * j + 1])
      <3> HIDE DEF v, out
      <3> QED
        BY <1>1, <2>1, <2>2, PairSum
    <2> QED
      BY <1>1, <2>1, <2>3
  <1>3. \A d \in Dims : f[d] \in Nat
    <2>1. q \in [Dims -> Int] /\ r \in [Dims -> Int]
      BY <1>0 DEF Quantized
    <2> QED
      BY <2>1, DistTerms
  <1> HIDE DEF f, v, out
  <1>4. /\ out[0] = f[0] + f[1]   /\ out[1] = f[2] + f[3]
        /\ out[2] = f[4] + f[5]   /\ out[3] = f[6] + f[7]
        /\ out[4] = f[8] + f[9]   /\ out[5] = f[10] + f[11]
        /\ out[6] = f[12] + f[13] /\ out[7] = f[14] + f[15]
    BY <1>2
  <1>5. out[0] + out[1] + out[2] + out[3] + out[4] + out[5] + out[6] + out[7] = SumDims(f)
    BY <1>3, <1>4 DEF SumDims, Dims
  <1> QED
    BY <1>5 DEF sqDistSimd, sqDist, f, v, out

-----------------------------------------------------------------------------
(* The gap of two partitions is a lower bound on the distance of any two of
   their vectors: this is the bound that lets count skip every partition
   after the first whose gap exceeds the worst candidate. *)
THEOREM GapLowerBound ==
  ASSUME NEW q, NEW r, Quantized(q), Quantized(r)
  PROVE  /\ gapBits(partKey16(q), partKey16(r)) \in Nat
         /\ gapBits(partKey16(q), partKey16(r)) <= sqDist(q, r)
  <1> DEFINE f == [d \in Dims |-> Sq(q[d] - r[d])]
             QQ == Sq(QScale)
             diff == (partKey16(q) \ partKey16(r)) \cup (partKey16(r) \ partKey16(q))
  <1>0. QScale \in Nat /\ QScale > 0 /\ QQ \in Nat /\ Sq(-QScale) = QQ
    <2>1. QScale \in Nat /\ QScale > 0
      BY QScaleAssumption
    <2>2. Sq(-QScale) = QQ
      BY <2>1, Z3 DEF Sq
    <2> QED
      BY <2>1, <2>2, SqNat
  <1>1. q \in [Dims -> Int] /\ r \in [Dims -> Int]
    BY <1>0 DEF Quantized
  <1>2. f \in [Dims -> Nat]
    BY <1>1, DistTerms
  <1>3. ASSUME NEW d \in {9, 10, 11}, q[d] # 0 <=> r[d] = 0
        PROVE  f[d] = QQ
    <2>1. d \in Dims /\ f[d] = Sq(q[d] - r[d])
      BY DEF Dims
    <2>2. q[d] \in {0, QScale} /\ r[d] \in {0, QScale}
      BY DEF Quantized
    <2>3. q[d] - r[d] = QScale \/ q[d] - r[d] = -QScale
      BY <2>2, <1>3, <1>0
    <2> QED
      BY <2>1, <2>3, <1>0
  <1>4. ASSUME NEW d \in {5, 6}, q[5] # sentinel <=> r[5] = sentinel
        PROVE  QQ <= f[d]
    <2>1. d \in Dims /\ f[d] = Sq(q[d] - r[d]) /\ q[d] \in Int /\ r[d] \in Int
      BY <1>1 DEF Dims
    <2>2. \/ q[d] = -QScale /\ r[d] >= 0
          \/ r[d] = -QScale /\ q[d] >= 0
      BY <1>4, <1>0 DEF Quantized, sentinel
    <2>3. CASE r[d] = -QScale /\ q[d] >= 0
      BY <2>1, <2>3, <1>0, SqMonotone
    <2>4. CASE q[d] = -QScale /\ r[d] >= 0
      BY <2>1, <2>4, <1>0, SqMonotone
    <2> QED
      BY <2>2, <2>3, <2>4
  <1>5. /\ 1 \in diff => f[9] = QQ
        /\ 2 \in diff => f[10] = QQ
        /\ 4 \in diff => f[11] = QQ
    BY <1>3 DEF partKey16
  <1>6. 8 \in diff => QQ <= f[5] /\ QQ <= f[6]
    BY <1>4 DEF partKey16
  <1>7. \A d \in Dims : f[d] \in Nat
    BY <1>2
  <1>8. SumDims(f) >= f[5] + f[6] + f[9] + f[10] + f[11]
    BY <1>7 DEF SumDims, Dims
  <1>9. 5 \in Dims /\ 6 \in Dims /\ 9 \in Dims /\ 10 \in Dims /\ 11 \in Dims
    BY DEF Dims
  <1> DEFINE gap == gapBits(partKey16(q), partKey16(r))
             g1 == IF 1 \in diff THEN QQ ELSE 0
             g2 == IF 2 \in diff THEN QQ ELSE 0
             g4 == IF 4 \in diff THEN QQ ELSE 0
             g8 == IF 8 \in diff THEN 2 * QQ ELSE 0
  <1>10. gap = g1 + g2 + g4 + g8
    BY <1>0 DEF gapBits
  <1>11. /\ g1 \in Nat /\ g1 <= f[9]
         /\ g2 \in Nat /\ g2 <= f[10]
         /\ g4 \in Nat /\ g4 <= f[11]
         /\ g8 \in Nat /\ g8 <= f[5] + f[6]
    <2> HIDE DEF f, diff, QQ
    <2> QED
      BY <1>0, <1>5, <1>6, <1>7, <1>9
  <1>12. SumDims(f) = sqDist(q, r) /\ SumDims(f) \in Nat
    BY <1>2, SumDimsTerm DEF sqDist
  <1> HIDE DEF f, g1, g2, g4, g8, gap
  <1> QED
    <2>1. gap \in Nat /\ gap <= SumDims(f)
      BY <1>7, <1>8, <1>9, <1>10, <1>11, <1>12
    <2> QED
      BY <2>1, <1>12 DEF gap

-----------------------------------------------------------------------------
(* The order of candidates. *)

Entries == [dist : Nat, gidx : Nat]

LEMMA WorseOrder ==
  ASSUME NEW a \in Entries, NEW b \in Entries, NEW c \in Entries
  PROVE  /\ Worse(a, b) /\ Worse(b, c) => Worse(a, c)
         /\ Worse(a, b) /\ ~ Worse(c, b) => Worse(a, c)
         /\ ~ Worse(a, b) => a = b \/ Worse(b, a)
         /\ Worse(a, b) => ~ Worse(b, a)
         /\ a.dist > b.dist => Worse(a, b)
         /\ ~ Worse(a, b) => a.dist <= b.dist
  BY DEF Entries, Worse

(* The N elements that are better than all others are those with fewer than N
   better than them. *)
LEMMA TopN ==
  ASSUME NEW among, IsFiniteSet(among), NEW S \in SUBSET among,
         NEW N \in Nat, Cardinality(S) = N,
         NEW c, \A g \in among : c[g] \in Entries,
         \A g \in among \ S, s \in S : Worse(c[g], c[s])
  PROVE  {g \in among : Cardinality({h \in among : Worse(c[g], c[h])}) < N} = S
  <1> DEFINE better(g) == {h \in among : Worse(c[g], c[h])}
  <1>1. IsFiniteSet(S)
    BY FS_Subset
  <1>2. ASSUME NEW g \in S PROVE Cardinality(better(g)) < N
    <2>1. better(g) \subseteq S \ {g}
      BY WorseOrder
    <2>2. IsFiniteSet(S \ {g}) /\ Cardinality(S \ {g}) = N - 1
      BY <1>1, FS_RemoveElement
    <2>3. IsFiniteSet(better(g)) /\ Cardinality(better(g)) <= N - 1
      BY <2>1, <2>2, FS_Subset
    <2>4. Cardinality(better(g)) \in Nat
      BY <2>3, FS_CardinalityType
    <2> QED
      BY <2>3, <2>4
  <1>3. ASSUME NEW g \in among \ S PROVE ~ (Cardinality(better(g)) < N)
    <2>1. S \subseteq better(g)
      OBVIOUS
    <2>2. IsFiniteSet(better(g)) /\ Cardinality(better(g)) \in Nat
      BY FS_Subset, FS_CardinalityType
    <2>3. Cardinality(S) <= Cardinality(better(g))
      BY <2>1, <2>2, FS_Subset
    <2> QED
      BY <2>2, <2>3
  <1> QED
    BY <1>2, <1>3

(* A slice without repetitions has as many places as elements, also when only
   the places J and the elements T are counted. *)
LEMMA CountOnce ==
  ASSUME NEW J, IsFiniteSet(J), NEW T, NEW f,
         \A i \in J : f[i] \in T, \A t \in T : \E i \in J : f[i] = t,
         \A i, j \in J : f[i] = f[j] => i = j
  PROVE  IsFiniteSet(T) /\ Cardinality(T) = Cardinality(J)
  <1> DEFINE b == [i \in J |-> f[i]]
  <1>1. b \in [J -> T] /\ \A t \in T : \E i \in J : b[i] = t
    OBVIOUS
  <1>2. \A i, j \in J : b[i] = b[j] => i = j
    OBVIOUS
  <1> HIDE DEF b
  <1>3. ExistsBijection(J, T)
    BY <1>1, <1>2 DEF ExistsBijection, Bijection, Injection, Surjection, IsInjective
  <1> QED
    BY <1>3, FS_Bijection


-----------------------------------------------------------------------------
(* The slots of the best candidates b, the worst of them in slot w, after the
   references G have been considered with the candidates c: a slot holds Empty
   or a candidate of G, no reference twice, and each of G is in a slot or worse
   than all of them. *)
BestOf(I, c, b, w, G) ==
  /\ b \in [I -> Entries] /\ w \in I
  /\ \A j \in I : ~ Worse(b[j], b[w])
  /\ \A i \in I : b[i] = Empty \/ (b[i].gidx \in G /\ b[i] = c[b[i].gidx])
  /\ \A i, j \in I : b[i].gidx = b[j].gidx /\ b[i] # Empty => i = j
  /\ \A g \in G : \/ \E i \in I : b[i] = c[g]
                  \/ \A i \in I : Worse(c[g], b[i])

(* Considering one more reference, which takes the place of the worst candidate
   if it is better, keeps that so. *)
LEMMA OneMore ==
  ASSUME NEW I, NEW c, NEW b, NEW w, NEW G, BestOf(I, c, b, w, G),
         NEW n, n \notin G,
         \A g \in G \cup {n} : /\ c[g] \in Entries /\ c[g].gidx = g
                               /\ g # NoId /\ Worse(Empty, c[g]),
         NEW b2, NEW w2,
         \/ /\ Worse(b[w], c[n])
            /\ b2 = [b EXCEPT ![w] = c[n]]
            /\ w2 \in I /\ \A j \in I : ~ Worse(b2[j], b2[w2])
         \/ /\ ~ Worse(b[w], c[n])
            /\ b2 = b /\ w2 = w
  PROVE  BestOf(I, c, b2, w2, G \cup {n})
  <1>1. b \in [I -> Entries] /\ w \in I /\ \A j \in I : ~ Worse(b[j], b[w])
    BY DEF BestOf
  <1>2. /\ c[n] \in Entries /\ c[n].gidx = n
        /\ \A g \in G \cup {n} : c[g] # Empty
        /\ Empty.gidx # n
    BY DEF Empty, Entry
  <1>3. \A i \in I : b[i] # c[n]
    BY <1>2 DEF BestOf
  <1>4. CASE ~ Worse(b[w], c[n]) /\ b2 = b /\ w2 = w
    <2>1. ASSUME NEW i \in I PROVE Worse(c[n], b[i])
      <3>1. b[i] \in Entries /\ b[w] \in Entries /\ ~ Worse(b[i], b[w])
        BY <1>1
      <3>2. Worse(c[n], b[w])
        BY <1>1, <1>2, <1>3, <1>4, <3>1, WorseOrder
      <3> QED
        BY <1>2, <3>1, <3>2, WorseOrder
    <2> QED
      BY <1>4, <2>1 DEF BestOf
  <1>5. CASE /\ Worse(b[w], c[n]) /\ b2 = [b EXCEPT ![w] = c[n]]
             /\ w2 \in I /\ \A j \in I : ~ Worse(b2[j], b2[w2])
    <2>1. /\ b2 \in [I -> Entries] /\ b2[w] = c[n]
          /\ \A i \in I \ {w} : b2[i] = b[i]
      BY <1>1, <1>2, <1>5
    <2>2. \A i \in I : b2[i] = Empty \/ (b2[i].gidx \in G \cup {n} /\ b2[i] = c[b2[i].gidx])
      BY <1>2, <2>1 DEF BestOf
    <2>3. ASSUME NEW i \in I, NEW j \in I, b2[i].gidx = b2[j].gidx, b2[i] # Empty
          PROVE  i = j
      <3>1. CASE i # w /\ j # w
        BY <2>1, <2>3, <3>1 DEF BestOf
      <3>2. CASE i = w /\ j # w
        <4>1. b[j].gidx # n
          BY <1>2 DEF BestOf
        <4> QED
          BY <1>2, <2>1, <2>3, <3>2, <4>1
      <3>3. CASE i # w /\ j = w
        BY <1>2, <2>1, <2>3, <3>3 DEF BestOf
      <3> QED
        BY <3>1, <3>2, <3>3
    <2>4. ASSUME b[w] # Empty, NEW i \in I PROVE Worse(b[w], b2[i])
      <3>1. CASE i = w
        BY <1>5, <2>1, <3>1
      <3>2. CASE i # w
        <4>1. b2[i] = b[i] /\ b[i] \in Entries /\ b[w] \in Entries /\ ~ Worse(b[i], b[w])
          BY <1>1, <2>1, <3>2
        <4>2. b[i] # b[w]
          BY <2>4, <3>2 DEF BestOf
        <4> QED
          BY <4>1, <4>2, WorseOrder
      <3> QED
        BY <3>1, <3>2
    <2>5. ASSUME NEW g \in G \cup {n}
          PROVE  (\E i \in I : b2[i] = c[g]) \/ (\A i \in I : Worse(c[g], b2[i]))
      <3>1. CASE g = n
        BY <1>1, <2>1, <3>1
      <3>2. CASE g \in G /\ \E i \in I : b[i] = c[g]
        BY <1>2, <2>1, <2>4, <3>2
      <3>3. CASE g \in G /\ \A i \in I : Worse(c[g], b[i])
        <4>1. /\ c[g] \in Entries /\ b[w] \in Entries
              /\ Worse(c[g], b[w]) /\ Worse(b[w], c[n])
          BY <1>1, <1>5, <3>3
        <4>2. Worse(c[g], c[n])
          BY <1>2, <4>1, WorseOrder
        <4> QED
          BY <2>1, <3>3, <4>2
      <3> QED
        BY <3>1, <3>2, <3>3 DEF BestOf
    <2> QED
      BY <1>5, <2>1, <2>2, <2>3, <2>5 DEF BestOf
  <1> QED
    BY <1>4, <1>5

-----------------------------------------------------------------------------
(* The numbers of the partitions. *)

(* The number of a key. *)
Number(k) == (IF 1 \in k THEN 1 ELSE 0) + (IF 2 \in k THEN 2 ELSE 0)
           + (IF 4 \in k THEN 4 ELSE 0) + (IF 8 \in k THEN 8 ELSE 0)

LEMMA KeyNumber == \A j \in 0..15 : Key(j) \in Keys /\ Number(Key(j)) = j
  <1> SUFFICES ASSUME NEW j \in 0..15 PROVE Key(j) \in Keys /\ Number(Key(j)) = j
    OBVIOUS
  <1>1. /\ 1 \in Key(j) <=> (j \div 1) % 2 = 1 
        /\ 2 \in Key(j) <=> (j \div 2) % 2 = 1
        /\ 4 \in Key(j) <=> (j \div 4) % 2 = 1 
        /\ 8 \in Key(j) <=> (j \div 8) % 2 = 1
        /\ Key(j) \in Keys
    BY DEF Key, Keys
  <1> QED
    BY <1>1 DEF Number

LEMMA NumberKey == \A k \in Keys : Number(k) \in 0..15 /\ Key(Number(k)) = k
  <1> SUFFICES ASSUME NEW k \in Keys PROVE Number(k) \in 0..15 /\ Key(Number(k)) = k
    OBVIOUS
  <1>1. PICK j \in 0..15 : j = Number(k)
    BY DEF Number
  <1>2. /\ (j \div 1) % 2 = 1 <=> 1 \in k
        /\ (j \div 2) % 2 = 1 <=> 2 \in k
        /\ (j \div 4) % 2 = 1 <=> 4 \in k
        /\ (j \div 8) % 2 = 1 <=> 8 \in k
    BY <1>1 DEF Number
  <1>3. k \subseteq {1, 2, 4, 8}
    BY DEF Keys
  <1>4. Key(j) = k
    <2>1. \A b \in {1, 2, 4, 8} : b \in Key(j) <=> b \in k
      BY <1>2 DEF Key
    <2>2. Key(j) \subseteq {1, 2, 4, 8}
      BY DEF Key
    <2>3. PICK S : S = {1, 2, 4, 8}
      OBVIOUS
    <2>4. \A b : b \in Key(j) <=> b \in k
      BY <1>3, <2>1, <2>2, <2>3
    <2> QED
      BY <2>4
  <1> QED
    BY <1>1, <1>4

-----------------------------------------------------------------------------
(* A finite set has a member that no other precedes, for every strict order. *)
LEMMA HasFirst ==
  ASSUME NEW S, IsFiniteSet(S), S # {}, NEW R,
         \A a \in S : <<a, a>> \notin R,
         \A a, b, c \in S : <<a, b>> \in R /\ <<b, c>> \in R => <<a, c>> \in R
  PROVE  \E x \in S : \A y \in S : <<y, x>> \notin R
  <1> DEFINE Before(x) == {y \in S : <<y, x>> \in R}
             T == {Before(x) : x \in S}
  <1>1. T \subseteq FiniteSubsetsOf(S) /\ T # {}
    <2>1. T \subseteq SUBSET S
      OBVIOUS
    <2>2. PICK x \in S : TRUE
      OBVIOUS
    <2>3. Before(x) \in T
      OBVIOUS
    <2> HIDE DEF T, Before
    <2> QED
      BY <2>1, <2>3, FS_FiniteSubsetsOfFinite
  <1>2. PICK D \in T : \A E \in T : <<E, D>> \notin StrictSubsetOrdering(S)
    <2> HIDE DEF T
    <2> QED
      BY <1>1, FS_StrictSubsetOrderingWellFounded, WFMin
  <1>3. PICK x \in S : D = Before(x)
    OBVIOUS
  <1>4. ASSUME NEW y \in S, <<y, x>> \in R PROVE FALSE
    <2>1. Before(y) \in T /\ Before(y) \subseteq D /\ y \in D /\ y \notin Before(y)
      BY <1>3, <1>4
    <2>2. <<Before(y), D>> \in StrictSubsetOrdering(S)
      BY <1>3, <2>1 DEF StrictSubsetOrdering
    <2> QED
      BY <1>2, <2>1, <2>2
  <1> QED
    BY <1>4
=============================================================================
