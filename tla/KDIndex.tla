------------------------------ MODULE KDIndex ------------------------------
(***************************************************************************)
(* The data of the partitioned KD index (internal/index/kd.go,             *)
(* partition.go, dist_*.go) and the pure functions the builder and the     *)
(* search share: quantized vectors, the partition key, the distance and    *)
(* its two lower bounds (box and partition gap), and what it means for an  *)
(* index to be well formed.                                                *)
(***************************************************************************)
EXTENDS Integers, FiniteSets

CONSTANTS
  QScale,  (* vectorize.QScale, 10000 in the code: the value that stands for 1.0 *)
  Inf,     (* 1 << 62: the distance in an empty best5 slot                       *)
  NoId     (* 1 << 30: the reference number in an empty best5 slot               *)

\* An int16 holds the difference of two quantized values, an int32 the sum of
\* two of their squares, and a distance stays below the empty slot's.
ASSUME QScaleAssumption == QScale \in 1..16383
ASSUME InfAssumption    == Inf \in Nat /\ Inf > 64 * QScale * QScale
ASSUME NoIdAssumption   == NoId \in Nat

-----------------------------------------------------------------------------
(* Vectors. *)

Dims     == 0..15      \* Stride; the dimensions 14 and 15 are padding
RawDims  == 0..13
sentinel == -QScale    \* "no previous transaction", in dimensions 5 and 6

(* The loop over the Stride components, unrolled. *)
SumDims(f) == f[0] + f[1] + f[2]  + f[3]  + f[4]  + f[5]  + f[6]  + f[7]
            + f[8] + f[9] + f[10] + f[11] + f[12] + f[13] + f[14] + f[15]

(* What quantization produces (QueryFromBody, and Build on the official
   references): 0..QScale, except that dimensions 5 and 6 are sentinel
   together; flags are 0 or QScale; the padding is 0. *)
Quantized(v) ==
  /\ v \in [Dims -> (-QScale)..QScale]
  /\ \A d \in Dims \ {5, 6} : v[d] >= 0
  /\ \A d \in {9, 10, 11} : v[d] \in {0, QScale}
  /\ \/ v[5] = sentinel /\ v[6] = sentinel
     \/ v[5] >= 0 /\ v[6] >= 0
  /\ v[14] = 0 /\ v[15] = 0

Sq(x) == x * x

(* The squared Euclidean distance, dist_scalar.go. *)
sqDist(q, r) == SumDims([d \in Dims |-> Sq(q[d] - r[d])])

(* dist_simd.go: the same on vectors of integers with a width. A lane holds
   -half..half-1 (int16: half is 2^15); the squares of two neighbouring lanes are
   added in an integer of twice the width, and those sums in an int64. *)
Wrap(x, half) == ((x + half) % (2 * half)) - half

Lane(half, q, r)            == [d \in Dims |-> Wrap(q[d] - r[d], half)]
SumsOfLanes(half, v)        == [j \in 0..7 |->      \* bug: the sums stay in a lane
  Wrap(v[2 * j] * v[2 * j] + v[2 * j + 1] * v[2 * j + 1], half)]
DotProductPairs(half, v)    == [j \in 0..7 |->
  Wrap(v[2 * j] * v[2 * j] + v[2 * j + 1] * v[2 * j + 1], 2 * half * half)]
sqDistSimd(half, q, r) ==
  LET out == DotProductPairs(half, Lane(half, q, r))
  IN  out[0] + out[1] + out[2] + out[3] + out[4] + out[5] + out[6] + out[7]

(***************************************************************************)
(* partKey16: the partition of a vector. A 4-bit key is the set of its one *)
(* bits, so a ^ b is a symmetric difference.                               *)
(***************************************************************************)
Keys   == SUBSET {1, 2, 4, 8}
Key(j) == {b \in {1, 2, 4, 8} : (j \div b) % 2 = 1}    \* the key with number j

partKey16(v) ==
  {b \in {1, 2, 4, 8} : \/ b = 1 /\ v[9] # 0
                        \/ b = 2 /\ v[10] # 0
                        \/ b = 4 /\ v[11] # 0
                        \/ b = 8 /\ v[5] # sentinel}

(* The claimed lower bound on the distance between two partitions: 1e8 for
   each flag that differs and 2e8 (dimensions 5 and 6) for bit 8. *)
gapBits(a, b) ==
  LET diff  == (a \ b) \cup (b \ a)
      g(bit, weight) == IF bit \in diff THEN weight * Sq(QScale) ELSE 0
  IN  g(1, 1) + g(2, 1) + g(4, 1) + g(8, 2)

(* The squared distance from q to the box of a node. *)
aabbLowerBound(box, q) ==
  SumDims([d \in Dims |->
    CASE q[d] < box.lo[d] -> Sq(box.lo[d] - q[d])
      [] q[d] > box.hi[d] -> Sq(q[d] - box.hi[d])
      [] OTHER            -> 0])

(* A candidate: a reference and its distance; what an empty slot holds; and when
   a is a worse candidate than b. *)
Entry(d, g) == [dist |-> d, gidx |-> g]
Empty       == Entry(Inf, NoId)
Worse(a, b) == \/ a.dist > b.dist
               \/ a.dist = b.dist /\ a.gidx > b.gidx

-----------------------------------------------------------------------------
(***************************************************************************)
(* An index is a record                                                    *)
(*   n, vec, fraud   the references (Refs): numbers 0..n-1                 *)
(*   parts           a part for every key:                                 *)
(*     count         its number of rows                                    *)
(*     vec, gidx     row -> vector, row -> reference number                *)
(*     nodes, boxes  the KD tree in preorder, node 0 the root              *)
(*     lo, hi        (history) the rows lo..hi-1 that build(lo, hi) made   *)
(*                   the node for; the code does not keep them             *)
(***************************************************************************)
leafMark == 255

Ids(kd)  == 0..(kd.n - 1)
Rows(p)  == 0..(p.count - 1)
Nodes(p) == DOMAIN p.nodes
Span(p, n) == p.lo[n]..(p.hi[n] - 1)

(* A node bounds the rows below it; an inner node splits them at splitVal. *)
NodeOK(p, n) ==
  LET nd == p.nodes[n] IN
  /\ p.lo[n] \in Nat /\ p.hi[n] \in Nat
  /\ p.lo[n] < p.hi[n] /\ p.hi[n] <= p.count
  /\ \A d \in Dims : p.boxes[n].lo[d] \in Int /\ p.boxes[n].hi[d] \in Int
  /\ \A r \in Span(p, n), d \in Dims :
       p.boxes[n].lo[d] <= p.vec[r][d] /\ p.vec[r][d] <= p.boxes[n].hi[d]
  /\ nd.splitDim = leafMark => nd.left = p.lo[n] /\ nd.right = p.hi[n]
  /\ nd.splitDim # leafMark =>
       /\ nd.splitDim \in Dims /\ nd.splitVal \in Int
       /\ nd.left \in Nodes(p) /\ nd.left > n
       /\ nd.right \in Nodes(p) /\ nd.right > n
       /\ p.lo[nd.left] = p.lo[n]
       /\ p.hi[nd.left] = p.lo[nd.right]
       /\ p.hi[nd.right] = p.hi[n]
       /\ \A r \in Span(p, nd.left)  : p.vec[r][nd.splitDim] <= nd.splitVal
       /\ \A r \in Span(p, nd.right) : p.vec[r][nd.splitDim] >= nd.splitVal

(* A part holds exactly the references of its key, one per row. *)
PartOK(kd, k) ==
  LET p == kd.parts[k] IN
  /\ p.count \in Nat
  /\ \A r \in Rows(p) : /\ p.gidx[r] \in Ids(kd)
                        /\ p.vec[r] = kd.vec[p.gidx[r]]
                        /\ partKey16(p.vec[r]) = k
  /\ \A r, s \in Rows(p) : p.gidx[r] = p.gidx[s] => r = s
  /\ p.count > 0 => /\ 0 \in Nodes(p) /\ Nodes(p) \subseteq Nat
                    /\ p.lo[0] = 0 /\ p.hi[0] = p.count
                    /\ \A n \in Nodes(p) : NodeOK(p, n)

(* The slices are as long as count says, or as there are nodes. *)
SlicesOK(kd) ==
  LET whole(s, m) == s = [r \in 0..(m - 1) |-> s[r]] IN
  \A k \in Keys : LET p == kd.parts[k] IN
    /\ p.count \in Nat /\ whole(p.vec, p.count) /\ whole(p.gidx, p.count)
    /\ IsFiniteSet(Nodes(p)) /\ whole(p.nodes, Cardinality(Nodes(p)))
                             /\ whole(p.boxes, Cardinality(Nodes(p)))

(* A well-formed index over quantized references. *)
IndexOK(kd) ==
  /\ kd.n \in Nat /\ kd.n <= NoId
  /\ \A g \in Ids(kd) : Quantized(kd.vec[g]) /\ kd.fraud[g] \in BOOLEAN
  /\ \A k \in Keys : PartOK(kd, k)
  /\ \A g \in Ids(kd) : \E k \in Keys : \E r \in Rows(kd.parts[k]) :
       kd.parts[k].gidx[r] = g
=============================================================================
