-------------------------- MODULE RefsBuildProofs --------------------------
(***************************************************************************)
(* Proofs about the making of the index (modules RefsBuild and TreeBuild). *)
(* The inductive invariant BInv has two layers. RefsInv and PartsInv are   *)
(* about Build and the loops of BuildKD: the parts hold, each once, the    *)
(* references seen so far, the trees before the part with number i are     *)
(* finished and those after it not begun. TreeInv is about one call of     *)
(* buildPart: the nodes that no waiting call still owns are finished and   *)
(* lie before the rows of the call that runs, the calls that wait nest and *)
(* each has its rows cut at its median, and inside quickselect no row has  *)
(* crossed the range that is still being narrowed. A swap of quickselect   *)
(* stays inside the rows of the innermost call, which is why it disturbs   *)
(* neither a finished node nor the halves of a waiting one. WholeInv, at   *)
(* the end, needs none of this: the slices of a part only grow or are      *)
(* permuted.                                                               *)
(***************************************************************************)
EXTENDS RefsBuild, KDIndexProofs

LEMMA Extremes ==
  ASSUME NEW Q \in Nat, NEW S, S \subseteq (-Q)..Q, S # {}
  PROVE  /\ Min(S) \in S /\ \A x \in S : Min(S) <= x
         /\ Max(S) \in S /\ \A x \in S : x <= Max(S)
  <1>1. IsFiniteSet(S) /\ S \subseteq Int
    <2>1. IsFiniteSet((-Q)..Q)
      BY FS_Interval, -Q \in Int
    <2>2. S \in SUBSET ((-Q)..Q)
      OBVIOUS
    <2>3. IsFiniteSet(S)
      BY <2>1, <2>2, FS_Subset, Zenon
    <2>4. (-Q)..Q \subseteq Int
      OBVIOUS
    <2> QED
      BY <2>3, <2>4
  <1>2. \E x \in S : \A y \in S : x <= y
    <2> DEFINE R == {ss \in Int \X Int : ss[1] < ss[2]}
    <2>1. \A a, b \in S : <<a, b>> \in R <=> a < b
      BY <1>1
    <2> HIDE DEF R
    <2>2. PICK x \in S : \A y \in S : <<y, x>> \notin R
      <3>1. /\ \A a \in S : <<a, a>> \notin R
            /\ \A a, b, c \in S : <<a, b>> \in R /\ <<b, c>> \in R => <<a, c>> \in R
        BY <1>1, <2>1
      <3> QED
        BY <1>1, <3>1, HasFirst
    <2>3. \A y \in S : x <= y
      <3>1. \A y \in S : y \in Int /\ x \in Int /\ ~ (y < x)
        BY <1>1, <2>1, <2>2
      <3> QED
        BY <3>1
    <2> QED
      BY <2>3
  <1>3. \E x \in S : \A y \in S : x >= y
    <2> DEFINE R == {ss \in Int \X Int : ss[1] > ss[2]}
    <2>1. \A a, b \in S : <<a, b>> \in R <=> a > b
      BY <1>1
    <2> HIDE DEF R
    <2>2. PICK x \in S : \A y \in S : <<y, x>> \notin R
      <3>1. /\ \A a \in S : <<a, a>> \notin R
            /\ \A a, b, c \in S : <<a, b>> \in R /\ <<b, c>> \in R => <<a, c>> \in R
        BY <1>1, <2>1
      <3> QED
        BY <1>1, <3>1, HasFirst
    <2>3. \A y \in S : x >= y
      <3>1. \A y \in S : y \in Int /\ x \in Int /\ ~ (y > x)
        BY <1>1, <2>1, <2>2
      <3> QED
        BY <3>1
    <2> QED
      BY <2>3
  <1> QED
    BY <1>1, <1>2, <1>3 DEF Min, Max
-----------------------------------------------------------------------------
(* The rows as they stand. *)
rows == [r \in Rows(p) |-> p.vec[perm[r]]]

(* The box of node n of part q bounds its rows, when w are the rows. *)
BoxOK(q, w, n) ==
  /\ \A d \in Dims : q.boxes[n].lo[d] \in Int /\ q.boxes[n].hi[d] \in Int
  /\ \A r \in Span(q, n), d \in Dims :
       q.boxes[n].lo[d] <= w[r][d] /\ w[r][d] <= q.boxes[n].hi[d]

(* Component d of rows lo..mi-1 is at most x, of mi..hi-1 at least. *)
Halves(w, lo, mi, hi, d, x) ==
  /\ \A r \in lo..(mi - 1) : w[r][d] <= x
  /\ \A r \in mi..(hi - 1) : w[r][d] >= x

(* A finished node. *)
Done(q, w, n) ==
  LET nd == q.nodes[n]
      mi == SplitRow(q.lo[n], q.hi[n])
  IN  /\ q.lo[n] \in Nat /\ q.hi[n] \in Nat /\ q.lo[n] < q.hi[n] /\ q.hi[n] <= q.count
      /\ BoxOK(q, w, n)
      /\ nd.splitDim = leafMark =>
           /\ nd.left = q.lo[n] /\ nd.right = q.hi[n]
           /\ q.hi[n] - q.lo[n] <= leafSize \/ \A r, s \in Span(q, n) : w[r] = w[s]
      /\ nd.splitDim # leafMark =>
           /\ nd.splitDim \in Dims /\ nd.splitVal \in Int
           /\ nd.left \in Nodes(q) /\ nd.left > n /\ nd.right \in Nodes(q) /\ nd.right > n
           /\ q.lo[nd.left] = q.lo[n] /\ q.hi[nd.left] = mi
           /\ q.lo[nd.right] = mi /\ q.hi[nd.right] = q.hi[n]
           /\ q.lo[n] + 2 <= q.hi[n]
           /\ Halves(w, q.lo[n], mi, q.hi[n], nd.splitDim, nd.splitVal)

IsPart(q) == q = [count |-> q.count, vec |-> q.vec, gidx |-> q.gidx,
                  nodes |-> q.nodes, boxes |-> q.boxes, lo |-> q.lo, hi |-> q.hi]

PartInv ==
  /\ IsPart(p) /\ p.count \in Nat /\ p.count > 0
  /\ \A r \in Rows(p) : Quantized(p.vec[r])
  /\ idx \in Nat /\ Nodes(p) = 0..(idx - 1)
  /\ DOMAIN p.boxes = Nodes(p) /\ DOMAIN p.lo = Nodes(p) /\ DOMAIN p.hi = Nodes(p)
  /\ perm \in [Rows(p) -> Rows(p)]
  /\ \A r, s \in Rows(p) : perm[r] = perm[s] => r = s
  /\ \A x \in Rows(p) : \E r \in Rows(p) : perm[r] = x

Frames == [idx : Nat, lo : Nat, hi : Nat, dim : RawDims, sv : Int, l : Nat \cup {NoChild}]
Depth == 1..Len(stack)
Open == {stack[j].idx : j \in Depth}
ChildLo(f) == IF f.l = NoChild THEN f.lo ELSE mid(f)
ChildHi(f) == IF f.l = NoChild THEN mid(f) ELSE f.hi
Selecting == pc \in {"select", "partition", "selected"}

(* The rows of the call that runs, or of the node that is returned. *)
Lo == IF pc = "return" THEN p.lo[ret] ELSE call.lo
Hi == IF pc = "return" THEN p.hi[ret] ELSE call.hi
Edge == IF pc = "return" THEN Hi ELSE Lo

FrameInv(f) ==
  /\ f.idx \in Nodes(p) /\ p.lo[f.idx] = f.lo /\ p.hi[f.idx] = f.hi
  /\ f.lo + 2 <= f.hi /\ f.hi <= p.count
  /\ BoxOK(p, rows, f.idx)
  /\ f.l # NoChild => /\ f.l \in Nodes(p) \ Open /\ f.l > f.idx
                      /\ p.lo[f.l] = f.lo /\ p.hi[f.l] = mid(f)

StackInv ==
  /\ stack \in Seq(Frames)
  /\ \A j \in Depth : FrameInv(stack[j])
  /\ \A j \in Depth : j < Len(stack) \/ ~ Selecting =>
       Halves(rows, stack[j].lo, mid(stack[j]), stack[j].hi, stack[j].dim, stack[j].sv)
  /\ \A j, k \in Depth : j < k =>
       /\ stack[j].idx < stack[k].idx
       /\ ChildLo(stack[j]) <= stack[k].lo /\ stack[k].hi <= ChildHi(stack[j])
       /\ k = j + 1 => stack[k].lo = ChildLo(stack[j]) /\ stack[k].hi = ChildHi(stack[j])
  /\ stack # <<>> => stack[1].lo = 0 /\ stack[1].hi = p.count

CallInv ==
  /\ call \in [lo : Nat, hi : Nat] /\ ret \in Nat
  /\ Lo \in Nat /\ Hi \in Nat /\ Lo < Hi /\ Hi <= p.count
  /\ Selecting => stack # <<>> /\ Lo = Top.lo /\ Hi = Top.hi /\ Top.l = NoChild
  /\ ~ Selecting =>
       /\ stack = <<>> => Lo = 0 /\ Hi = p.count
       /\ stack # <<>> => Lo = ChildLo(Top) /\ Hi = ChildHi(Top)
       /\ \A j \in Depth : ChildLo(stack[j]) <= Lo /\ Hi <= ChildHi(stack[j])
  /\ pc = "return" => ret \in Nodes(p) \ Open /\ \A j \in Depth : stack[j].idx < ret
  /\ idx > 0 => p.lo[0] = 0 /\ p.hi[0] = p.count
  /\ pc = "build" /\ stack = <<>> => idx = 0

NodesInv == \A n \in Nodes(p) \ Open : Done(p, rows, n) /\ p.hi[n] <= Edge

(* No row of lo..c-1 is greater than one of c..hi-1, in component d. *)
Cut(w, lo, c, hi, d) == \A r \in lo..(c - 1), s \in c..(hi - 1) : w[r][d] <= w[s][d]

(* Those of sel.lo..sel.hi-1 with component x below, equal to and above the pivot. *)
Sides(w, x) ==
  /\ sel.lo <= sel.lt /\ sel.lt <= sel.i /\ sel.i <= sel.gt /\ sel.gt <= sel.hi
  /\ \A r \in sel.lo..(sel.lt - 1) : w[r][x] < sel.pivot
  /\ \A r \in sel.lt..(sel.i - 1)  : w[r][x] = sel.pivot
  /\ \A r \in sel.gt..(sel.hi - 1) : w[r][x] > sel.pivot

SelInv ==
  /\ sel \in [lo : Nat, hi : Nat, pivot : Int, lt : Nat, i : Nat, gt : Nat]
  /\ pc \in {"select", "partition"} =>
       /\ Top.lo <= sel.lo /\ sel.lo <= mid(Top) /\ mid(Top) < sel.hi /\ sel.hi <= Top.hi
       /\ Cut(rows, Top.lo, sel.lo, Top.hi, Top.dim) /\ Cut(rows, Top.lo, sel.hi, Top.hi, Top.dim)
  /\ pc = "partition" => Sides(rows, Top.dim)
  /\ pc = "selected" =>
       Halves(rows, Top.lo, mid(Top), Top.hi, Top.dim, rows[mid(Top)][Top.dim])

TreePcs == {"build", "select", "partition", "selected", "return"}
TreeInv == pc \in TreePcs /\ PartInv /\ StackInv /\ CallInv /\ NodesInv /\ SelInv

-----------------------------------------------------------------------------
(* Part q holds the references below b whose key is k. *)
Holds(q, k, b) ==
  /\ IsPart(q) /\ q.count \in Nat
  /\ DOMAIN q.vec = Rows(q) /\ DOMAIN q.gidx = Rows(q)
  /\ \A r \in Rows(q) : /\ q.gidx[r] \in 0..(b - 1) /\ q.vec[r] = refs.vec[q.gidx[r]]
                        /\ partKey16(q.vec[r]) = k
  /\ \A r, s \in Rows(q) : q.gidx[r] = q.gidx[s] => r = s
  /\ \A g \in 0..(b - 1) : partKey16(refs.vec[g]) = k => \E r \in Rows(q) : q.gidx[r] = g

Bare(q) == q.nodes = Nil /\ q.boxes = Nil /\ q.lo = Nil /\ q.hi = Nil

TreeOK(q) ==
  /\ Nodes(q) \subseteq Nat
  /\ q.count > 0 => 0 \in Nodes(q) /\ q.lo[0] = 0 /\ q.hi[0] = q.count
  /\ \A n \in Nodes(q) : Done(q, q.vec, n)

RefsInv ==
  /\ refs.n \in 0..MaxRefs /\ DOMAIN refs.vec = 0..(refs.n - 1) /\ DOMAIN refs.fraud = 0..(refs.n - 1)
  /\ refs = [n |-> refs.n, vec |-> refs.vec, fraud |-> refs.fraud]
  /\ \A g \in 0..(refs.n - 1) : Quantized(refs.vec[g]) /\ refs.fraud[g] \in BOOLEAN

PartsInv ==
  /\ DOMAIN parts = Keys
  /\ pc = "decode" => i = 0 /\ \A k \in Keys : Holds(parts[k], k, 0) /\ Bare(parts[k])
  /\ pc = "distribute" => i \in 0..refs.n /\ \A k \in Keys : Holds(parts[k], k, i) /\ Bare(parts[k])
  /\ pc \notin {"decode", "distribute"} =>
       /\ i \in 0..16 /\ \A k \in Keys : Holds(parts[k], k, refs.n)
       /\ \A j \in 0..15 : IF j < i THEN TreeOK(parts[Key(j)]) ELSE Bare(parts[Key(j)])
  /\ pc \in TreePcs => i < 16 /\ Holds(p, Key(i), refs.n)
  /\ pc = "built" => i = 16

BInv == RefsInv /\ PartsInv /\ i \in Nat /\ (IF pc \in TreePcs THEN TreeInv ELSE TypeOK)

-----------------------------------------------------------------------------
(* The helpers. *)

LEMMA Scale == /\ QScale \in Nat /\ QScale > 0 /\ (-QScale)..QScale \subseteq Int
               /\ leafSize \in Nat /\ leafSize > 0
  BY QScaleAssumption, LeafSizeAssumption

LEMMA QuantizedFacts ==
  ASSUME NEW u, Quantized(u)
  PROVE  u \in [Dims -> (-QScale)..QScale] /\ u[14] = 0 /\ u[15] = 0
  BY DEF Quantized

(* A box bounds the rows it is computed from. *)
LEMMA BoxFacts ==
  ASSUME NEW vs, NEW pm, NEW lo \in Nat, NEW hi \in Nat, lo < hi,
         \A r \in lo..(hi - 1) : Quantized(vs[pm[r]]),
         NEW b, b = computeBox(vs, pm, lo, hi), NEW d \in Dims
  PROVE  /\ b.lo[d] \in (-QScale)..QScale /\ b.hi[d] \in (-QScale)..QScale
         /\ \A r \in lo..(hi - 1) : b.lo[d] <= vs[pm[r]][d] /\ vs[pm[r]][d] <= b.hi[d]
  <1> DEFINE column == {vs[pm[r]][d] : r \in lo..(hi - 1)}
  <1>1. b.lo[d] = Min(column) /\ b.hi[d] = Max(column)
    BY DEF computeBox
  <1>2. column \subseteq (-QScale)..QScale /\ column # {}
    <2>1. \A r \in lo..(hi - 1) : vs[pm[r]][d] \in (-QScale)..QScale
      BY QuantizedFacts
    <2>2. lo \in lo..(hi - 1)
      OBVIOUS
    <2> QED
      BY <2>1, <2>2
  <1>3. /\ Min(column) \in column /\ \A x \in column : Min(column) <= x
        /\ Max(column) \in column /\ \A x \in column : x <= Max(column)
    <2> HIDE DEF column
    <2> QED
      BY <1>2, Scale, Extremes
  <1>4. \A r \in lo..(hi - 1) : vs[pm[r]][d] \in column
    OBVIOUS
  <1> HIDE DEF column
  <1> QED
    BY <1>1, <1>2, <1>3, <1>4

(* The dimension a box is split along is a widest one. *)
LEMMA WidestFacts ==
  ASSUME NEW b, \A d \in RawDims : b.lo[d] \in Int /\ b.hi[d] \in Int
  PROVE  /\ widestDim(b) \in RawDims
         /\ \A e \in RawDims : b.hi[e] - b.lo[e] <= b.hi[widestDim(b)] - b.lo[widestDim(b)]
  <1> DEFINE w(d) == b.hi[d] - b.lo[d]
             Wider(d, e) == w(d) > w(e) \/ (w(d) = w(e) /\ d < e)
             R == {ss \in RawDims \X RawDims : Wider(ss[1], ss[2])}
  <1>1. \A d \in RawDims : w(d) \in Int /\ d \in Int
    BY DEF RawDims
  <1>2. IsFiniteSet(RawDims) /\ RawDims # {}
    <2>1. 0 \in RawDims
      BY DEF RawDims
    <2>2. IsFiniteSet(0..13)
      BY FS_Interval, 0 \in Int, 13 \in Int
    <2> QED
      BY <2>1, <2>2 DEF RawDims
  <1>3. PICK d \in RawDims : \A e \in RawDims : ~ Wider(e, d)
    <2>1. \A d, e \in RawDims : <<d, e>> \in R <=> Wider(d, e)
      OBVIOUS
    <2>2. /\ \A d \in RawDims : ~ Wider(d, d)
          /\ \A d, e, f \in RawDims : Wider(d, e) /\ Wider(e, f) => Wider(d, f)
      <3> HIDE DEF w
      <3> QED
        BY <1>1
    <2> HIDE DEF R, Wider
    <2>3. \E d \in RawDims : \A e \in RawDims : <<e, d>> \notin R
      BY <1>2, <2>1, <2>2, HasFirst
    <2> QED
      BY <2>1, <2>3
  <1>4. \A e \in RawDims : w(e) < w(d) \/ (w(e) = w(d) /\ d <= e)
    <2> HIDE DEF w
    <2> QED
      BY <1>1, <1>3
  <1> DEFINE x == widestDim(b)
  <1>5. x \in RawDims /\ \A e \in RawDims : w(e) < w(x) \/ (w(e) = w(x) /\ x <= e)
    BY <1>4 DEF widestDim
  <1> HIDE DEF w, x
  <1>6. x \in RawDims /\ \A e \in RawDims : w(e) <= w(x)
    BY <1>1, <1>5
  <1> QED
    BY <1>6 DEF w, x

LEMMA MidFacts ==
  ASSUME NEW lo \in Nat, NEW hi \in Nat, lo + 2 <= hi
  PROVE  /\ SplitRow(lo, hi) \in Nat /\ lo < SplitRow(lo, hi) /\ SplitRow(lo, hi) < hi
         /\ SplitRow(lo, hi) - lo >= 1
         /\ (hi - SplitRow(lo, hi)) - (SplitRow(lo, hi) - lo) \in {0, 1}
  BY DEF SplitRow

(* f with x as its element n. *)
Longer(f, n, x) == [j \in 0..n |-> IF j = n THEN x ELSE f[j]]

LEMMA PushFacts ==
  ASSUME NEW n \in Nat, NEW f, DOMAIN f = 0..(n - 1), NEW x
  PROVE  Push(f, x) = Longer(f, n, x)
  <1>1. Cardinality(DOMAIN f) = n
    BY FS_Interval
  <1> QED
    BY <1>1 DEF Push, Longer

IsFun(f, S) == DOMAIN f = S /\ f = [r \in S |-> f[r]]

LEMMA SwapFacts ==
  ASSUME NEW S, NEW f, IsFun(f, S), NEW a \in S, NEW b \in S
  PROVE  IsFun(Swap(f, a, b), S)
  BY DEF Swap, IsFun

LEMMA SwapAt ==
  ASSUME NEW S, NEW f, IsFun(f, S), NEW a \in S, NEW b \in S, NEW r \in S
  PROVE  Swap(f, a, b)[r] = IF r = b THEN f[a] ELSE IF r = a THEN f[b] ELSE f[r]
  BY DEF Swap, IsFun

(* Every row of Z is in u what some row of Z is in w. *)
Within(Z, w, u) == \A r \in Z : \E s \in Z : u[r] = w[s]

(* Swapping two rows permutes every set of rows that has both or neither. *)
LEMMA SwapWithin ==
  ASSUME NEW S, NEW w, IsFun(w, S), NEW a \in S, NEW b \in S,
         NEW Z \in SUBSET S, a \in Z <=> b \in Z
  PROVE  Within(Z, w, Swap(w, a, b))
  <1>1. \A r \in S : Swap(w, a, b)[r] = IF r = b THEN w[a] ELSE IF r = a THEN w[b] ELSE w[r]
    BY SwapAt
  <1> QED
    BY <1>1 DEF Within

LEMMA SwapBox ==
  ASSUME NEW q, NEW w, NEW S, IsFun(w, S), NEW a \in S, NEW b \in S,
         NEW n, BoxOK(q, w, n), Span(q, n) \subseteq S, a \in Span(q, n) <=> b \in Span(q, n)
  PROVE  BoxOK(q, Swap(w, a, b), n)
  <1>1. Within(Span(q, n), w, Swap(w, a, b))
    BY SwapWithin
  <1> QED
    BY <1>1 DEF BoxOK, Within

LEMMA SwapHalves ==
  ASSUME NEW w, NEW S, IsFun(w, S), NEW a \in S, NEW b \in S,
         NEW lo, NEW mi, NEW hi, NEW d, NEW x, Halves(w, lo, mi, hi, d, x),
         lo..(mi - 1) \subseteq S, mi..(hi - 1) \subseteq S,
         a \in lo..(mi - 1) <=> b \in lo..(mi - 1), a \in mi..(hi - 1) <=> b \in mi..(hi - 1)
  PROVE  Halves(Swap(w, a, b), lo, mi, hi, d, x)
  <1>1. PICK Y, Z : Y = lo..(mi - 1) /\ Z = mi..(hi - 1)
    OBVIOUS
  <1>2. Within(Y, w, Swap(w, a, b)) /\ Within(Z, w, Swap(w, a, b))
    BY <1>1, SwapWithin
  <1> QED
    BY <1>1, <1>2 DEF Halves, Within

LEMMA SwapCut ==
  ASSUME NEW w, NEW S, IsFun(w, S), NEW a \in S, NEW b \in S,
         NEW lo, NEW c, NEW hi, NEW d, Cut(w, lo, c, hi, d),
         lo..(c - 1) \subseteq S, c..(hi - 1) \subseteq S,
         a \in lo..(c - 1) <=> b \in lo..(c - 1), a \in c..(hi - 1) <=> b \in c..(hi - 1)
  PROVE  Cut(Swap(w, a, b), lo, c, hi, d)
  <1>1. PICK Y, Z : Y = lo..(c - 1) /\ Z = c..(hi - 1)
    OBVIOUS
  <1>2. Within(Y, w, Swap(w, a, b)) /\ Within(Z, w, Swap(w, a, b))
    BY <1>1, SwapWithin
  <1> QED
    <2>1. \A r \in Y, t \in Z : w[r][d] <= w[t][d]
      BY <1>1 DEF Cut
    <2>2. /\ \A r \in Y : \E t \in Y : Swap(w, a, b)[r] = w[t]
          /\ \A r \in Z : \E t \in Z : Swap(w, a, b)[r] = w[t]
      BY <1>2 DEF Within
    <2>3. \A r \in Y, t \in Z : Swap(w, a, b)[r][d] <= Swap(w, a, b)[t][d]
      BY <2>1, <2>2
    <2> QED
      BY <1>1, <2>3 DEF Cut

(* A finished node keeps its promise when the rows below it stay. *)
LEMMA DoneStays ==
  ASSUME NEW q, NEW w, NEW u, NEW n, Done(q, w, n), \A r \in Span(q, n) : u[r] = w[r]
  PROVE  Done(q, u, n)
  <1>1. BoxOK(q, u, n)
    BY DEF Done, BoxOK
  <1>2. ASSUME q.nodes[n].splitDim # leafMark
        PROVE  Halves(u, q.lo[n], SplitRow(q.lo[n], q.hi[n]), q.hi[n],
                      q.nodes[n].splitDim, q.nodes[n].splitVal)
    <2>1. /\ q.lo[n] \in Nat /\ q.hi[n] \in Nat /\ q.lo[n] + 2 <= q.hi[n]
          /\ Halves(w, q.lo[n], SplitRow(q.lo[n], q.hi[n]), q.hi[n],
                    q.nodes[n].splitDim, q.nodes[n].splitVal)
      BY <1>2 DEF Done
    <2>2. PICK mi : mi = SplitRow(q.lo[n], q.hi[n])
      OBVIOUS
    <2>3. mi \in Nat /\ q.lo[n] < mi /\ mi < q.hi[n]
      BY <2>1, <2>2, MidFacts
    <2>4. /\ \A r \in q.lo[n]..(mi - 1) : r \in Span(q, n)
          /\ \A r \in mi..(q.hi[n] - 1) : r \in Span(q, n)
      BY <2>1, <2>3 DEF Span
    <2> QED
      BY <2>1, <2>2, <2>4 DEF Halves
  <1>3. /\ q.nodes[n].splitDim = leafMark =>
             q.hi[n] - q.lo[n] <= leafSize \/ \A r, s \in Span(q, n) : u[r] = u[s]
    BY DEF Done
  <1> QED
    BY <1>1, <1>2, <1>3 DEF Done

-----------------------------------------------------------------------------
(* What the invariant says of the rows and of the frame on top. *)

LEMMA RowsFacts ==
  ASSUME PartInv
  PROVE  /\ IsFun(rows, Rows(p))
         /\ \A r \in Rows(p) : /\ perm[r] \in Rows(p) /\ rows[r] = p.vec[perm[r]]
                               /\ Quantized(rows[r])
                               /\ \A d \in Dims : rows[r][d] \in Int
         /\ p.count \in Nat /\ Rows(p) \subseteq Nat
  <1>1. /\ \A r \in Rows(p) : perm[r] \in Rows(p) /\ rows[r] = p.vec[perm[r]] /\ Quantized(rows[r])
        /\ IsFun(rows, Rows(p))
        /\ p.count \in Nat /\ Rows(p) \subseteq Nat
    <2>1. p.count \in Nat /\ Rows(p) \subseteq Nat
      BY DEF PartInv, Rows
    <2>2. \A r \in Rows(p) : perm[r] \in Rows(p) /\ Quantized(p.vec[perm[r]])
      BY DEF PartInv
    <2> QED
      BY <2>1, <2>2 DEF rows, IsFun
  <1>2. \A r \in Rows(p) : \A d \in Dims : rows[r][d] \in Int
    BY <1>1, QuantizedFacts, Scale
  <1> QED
    BY <1>1, <1>2

LEMMA FrameFacts ==
  ASSUME PartInv, StackInv, NEW j \in Depth, NEW f, f = stack[j]
  PROVE  /\ f \in Frames /\ f.lo \in Nat /\ f.hi \in Nat /\ f.dim \in RawDims /\ f.dim \in Dims
         /\ f.idx \in Nat /\ mid(f) \in Nat /\ f.lo < mid(f) /\ mid(f) < f.hi /\ f.hi <= p.count
         /\ f.lo..(f.hi - 1) \subseteq Rows(p) /\ f.lo..(f.hi - 1) = Span(p, f.idx)
         /\ ChildLo(f) \in Nat /\ ChildHi(f) \in Nat
         /\ f.lo <= ChildLo(f) /\ ChildHi(f) <= f.hi
         /\ f.idx \in Nodes(p) /\ p.lo[f.idx] = f.lo /\ p.hi[f.idx] = f.hi
  <1>1. f \in Frames /\ FrameInv(f)
    BY DEF StackInv, Depth
  <1>2. f.lo \in Nat /\ f.hi \in Nat /\ f.dim \in RawDims /\ f.idx \in Nat /\ f.dim \in Dims
    BY <1>1 DEF Frames, RawDims, Dims
  <1>3. /\ mid(f) \in Nat /\ f.lo < mid(f) /\ mid(f) < f.hi /\ f.hi <= p.count
        /\ p.count \in Nat
    BY <1>1, <1>2, MidFacts DEF FrameInv, mid, PartInv
  <1>4. f.lo..(f.hi - 1) \subseteq Rows(p) /\ f.lo..(f.hi - 1) = Span(p, f.idx)
    BY <1>1, <1>2, <1>3 DEF FrameInv, Span, Rows
  <1>5. /\ ChildLo(f) \in Nat /\ ChildHi(f) \in Nat
        /\ f.lo <= ChildLo(f) /\ ChildHi(f) <= f.hi
    BY <1>2, <1>3 DEF ChildLo, ChildHi
  <1> QED
    BY <1>1, <1>2, <1>3, <1>4, <1>5 DEF FrameInv

LEMMA TopFacts ==
  ASSUME StackInv, stack # <<>>
  PROVE  Len(stack) \in Nat /\ Len(stack) > 0 /\ Len(stack) \in Depth /\ Top = stack[Len(stack)]
  BY DEF StackInv, Depth, Top

(* The frames below the top do not cut through the rows of the top. *)
LEMMA Nested ==
  ASSUME PartInv, StackInv, CallInv, Selecting, NEW j \in Depth, NEW f, f = stack[j]
  PROVE  /\ f.lo <= call.lo /\ call.hi <= f.hi
         /\ j < Len(stack) => call.hi <= mid(f) \/ mid(f) <= call.lo
  <1>1. /\ stack # <<>> /\ call.lo = Top.lo /\ call.hi = Top.hi
    BY DEF CallInv, Lo, Hi, Selecting
  <1>2. Len(stack) \in Nat /\ Len(stack) \in Depth /\ Top = stack[Len(stack)]
    BY <1>1, TopFacts
  <1>3. f.lo <= ChildLo(f) /\ ChildHi(f) <= f.hi /\ ChildLo(f) \in Nat /\ ChildHi(f) \in Nat
        /\ f.lo \in Nat /\ f.hi \in Nat
    BY FrameFacts
  <1>4. CASE j = Len(stack)
    BY <1>1, <1>2, <1>3, <1>4
  <1>5. CASE j # Len(stack)
    <2>1. j < Len(stack)
      BY <1>2, <1>5 DEF Depth
    <2>2. ChildLo(f) <= Top.lo /\ Top.hi <= ChildHi(f) /\ Top.lo \in Nat /\ Top.hi \in Nat
      <3>1. Top.lo \in Nat /\ Top.hi \in Nat
        BY <1>2, FrameFacts
      <3> QED
        BY <1>2, <2>1, <3>1 DEF StackInv
    <2>3. ChildHi(f) = mid(f) \/ ChildLo(f) = mid(f)
      BY DEF ChildLo, ChildHi
    <2> QED
      BY <1>1, <1>3, <2>1, <2>2, <2>3
  <1> QED
    BY <1>4, <1>5

(* Swapping two rows of the call that selects disturbs nothing else. *)
LEMMA SwapStep ==
  ASSUME PartInv, StackInv, CallInv, NodesInv, pc = "partition",
         NEW a \in call.lo..(call.hi - 1), NEW b \in call.lo..(call.hi - 1),
         perm' = Swap(perm, a, b), UNCHANGED <<pc, p, call, ret, stack>>
  PROVE  PartInv' /\ StackInv' /\ CallInv' /\ NodesInv' /\ rows' = Swap(rows, a, b)
  <1>1. p.count \in Nat /\ call.lo \in Nat /\ call.hi \in Nat /\ call.hi <= p.count /\ a \in Rows(p) /\ b \in Rows(p)
        /\ a \in Nat /\ b \in Nat /\ call.lo <= a /\ call.lo <= b /\ a < call.hi /\ b < call.hi
    <2>1. p.count \in Nat /\ call.lo \in Nat /\ call.hi \in Nat /\ call.hi <= p.count
      BY DEF CallInv, PartInv, Lo, Hi
    <2> QED
      BY <2>1 DEF Rows
  <1>2. /\ perm \in [Rows(p) -> Rows(p)] /\ IsFun(perm, Rows(p)) /\ IsFun(rows, Rows(p))
    BY RowsFacts DEF PartInv, IsFun
  <1>3. /\ IsFun(perm', Rows(p))
        /\ \A r \in Rows(p) : perm'[r] = IF r = b THEN perm[a] ELSE IF r = a THEN perm[b] ELSE perm[r]
    <2>1. IsFun(perm', Rows(p))
      BY <1>1, <1>2, SwapFacts
    <2>2. ASSUME NEW r \in Rows(p)
          PROVE  perm'[r] = IF r = b THEN perm[a] ELSE IF r = a THEN perm[b] ELSE perm[r]
      BY <1>1, <1>2, SwapAt, SMTT(20)
    <2> QED
      BY <2>1, <2>2
  <1>4. rows' = Swap(rows, a, b)
    <2>1. \A r \in Rows(p) : rows'[r] = IF r = b THEN rows[a] ELSE IF r = a THEN rows[b] ELSE rows[r]
      BY <1>1, <1>3 DEF rows
    <2>2. IsFun(rows', Rows(p))
      BY DEF rows, IsFun
    <2>3. IsFun(Swap(rows, a, b), Rows(p))
      BY <1>1, <1>2, SwapFacts
    <2>4. ASSUME NEW r \in Rows(p)
          PROVE  Swap(rows, a, b)[r] =
                   IF r = b THEN rows[a] ELSE IF r = a THEN rows[b] ELSE rows[r]
      BY <1>1, <1>2, SwapAt
    <2> HIDE DEF rows
    <2> QED
      BY <2>1, <2>2, <2>3, <2>4 DEF IsFun
  <1>5. PartInv'
    <2>1. perm' \in [Rows(p) -> Rows(p)]
      BY <1>1, <1>2, <1>3 DEF IsFun
    <2>2. \A r, s \in Rows(p) : perm'[r] = perm'[s] => r = s
      BY <1>1, <1>3 DEF PartInv
    <2>3. \A x \in Rows(p) : \E r \in Rows(p) : perm'[r] = x
      <3> SUFFICES ASSUME NEW x \in Rows(p) PROVE \E r \in Rows(p) : perm'[r] = x
        OBVIOUS
      <3>1. PICK r \in Rows(p) : perm[r] = x
        BY DEF PartInv
      <3>2. perm'[IF r = a THEN b ELSE IF r = b THEN a ELSE r] = x
        BY <1>1, <1>3, <3>1
      <3> QED
        BY <1>1, <3>2
    <2> QED
      BY <2>1, <2>2, <2>3 DEF PartInv, idx
  <1>6. ASSUME NEW j \in Depth, NEW f, f = stack[j]
        PROVE  /\ BoxOK(p, rows', f.idx)
               /\ j < Len(stack) => Halves(rows', f.lo, mid(f), f.hi, f.dim, f.sv)
    <2>1. /\ f.lo \in Nat /\ f.hi \in Nat /\ mid(f) \in Nat /\ f.lo < mid(f) /\ mid(f) < f.hi
          /\ f.lo..(f.hi - 1) \subseteq Rows(p) /\ f.lo..(f.hi - 1) = Span(p, f.idx)
      BY <1>6, FrameFacts
    <2>2. /\ f.lo <= call.lo /\ call.hi <= f.hi
          /\ j < Len(stack) => call.hi <= mid(f) \/ mid(f) <= call.lo
      BY <1>6, Nested DEF Selecting
    <2>3. BoxOK(p, rows', f.idx)
      <3>1. BoxOK(p, rows, f.idx)
        BY <1>6 DEF StackInv, FrameInv
      <3>2. a \in f.lo..(f.hi - 1) /\ b \in f.lo..(f.hi - 1)
        BY <1>1, <2>1, <2>2, SMTT(20)
      <3> QED
        BY <1>1, <1>2, <1>4, <2>1, <3>1, <3>2, SwapBox
    <2>4. ASSUME j < Len(stack) PROVE Halves(rows', f.lo, mid(f), f.hi, f.dim, f.sv)
      <3>1. Halves(rows, f.lo, mid(f), f.hi, f.dim, f.sv)
        BY <1>6, <2>4 DEF StackInv
      <3>2. PICK mi : mi = mid(f)
        OBVIOUS
      <3>3. /\ f.lo..(mi - 1) \subseteq Rows(p) /\ mi..(f.hi - 1) \subseteq Rows(p)
        BY <2>1, <3>2 DEF Rows
      <3>4. /\ a \in f.lo..(mi - 1) <=> b \in f.lo..(mi - 1)
            /\ a \in mi..(f.hi - 1) <=> b \in mi..(f.hi - 1)
        <4>1. CASE call.hi <= mi
          BY <1>1, <2>1, <2>2, <3>2, <4>1
        <4>2. CASE mi <= call.lo
          BY <1>1, <2>1, <2>2, <3>2, <4>2, SMTT(20)
        <4> QED
          BY <2>2, <2>4, <3>2, <4>1, <4>2
      <3> QED
        BY <1>1, <1>2, <1>4, <3>1, <3>2, <3>3, <3>4, SwapHalves
    <2> QED
      BY <2>3, <2>4
  <1>7. StackInv'
    <2>1. \A j \in Depth : FrameInv(stack[j])'
      BY <1>6 DEF StackInv, FrameInv, Open, Depth
    <2>2. \A j \in Depth : j < Len(stack) =>
            Halves(rows, stack[j].lo, mid(stack[j]), stack[j].hi, stack[j].dim, stack[j].sv)'
      BY <1>6
    <2> QED
      BY <2>1, <2>2 DEF StackInv, Depth, Selecting
  <1>8. CallInv'
    BY DEF CallInv, Lo, Hi, Selecting, Depth, Open, idx, Top
  <1>9. NodesInv'
    <2> SUFFICES ASSUME NEW n \in Nodes(p) \ Open
                 PROVE  Done(p, rows', n) /\ p.hi[n] <= call.lo
      BY DEF NodesInv, Open, Depth, Edge, Lo
    <2>1. Done(p, rows, n) /\ p.hi[n] <= call.lo
      BY DEF NodesInv, Edge, Lo
    <2>2. p.lo[n] \in Nat /\ p.hi[n] \in Nat /\ p.hi[n] <= p.count
      BY <2>1 DEF Done
    <2>3. \A r \in Span(p, n) : r \in Rows(p) /\ r # a /\ r # b
      BY <1>1, <2>1, <2>2 DEF Span, Rows
    <2>4. \A r \in Rows(p) : r # a /\ r # b => rows'[r] = rows[r]
      BY <1>1, <1>2, <1>4, SwapAt
    <2> QED
      BY <2>1, <2>3, <2>4, DoneStays
  <1> QED
    BY <1>4, <1>5, <1>7, <1>8, <1>9

-----------------------------------------------------------------------------
(* quickselect. *)

(* What is known while it runs. *)
LEMMA SelFacts ==
  ASSUME TreeInv, Selecting, NEW f, f = Top
  PROVE  /\ stack # <<>> /\ f = stack[Len(stack)] /\ Len(stack) \in Depth /\ Len(stack) \in Nat
         /\ f \in Frames /\ f.lo \in Nat /\ f.hi \in Nat /\ f.dim \in Dims /\ f.hi <= p.count
         /\ mid(f) \in Nat /\ f.lo < mid(f) /\ mid(f) < f.hi /\ p.count \in Nat
         /\ call.lo = f.lo /\ call.hi = f.hi /\ f.l = NoChild
         /\ sel.lo \in Nat /\ sel.hi \in Nat /\ sel.lt \in Nat /\ sel.i \in Nat /\ sel.gt \in Nat
         /\ sel.pivot \in Int
         /\ \A r \in f.lo..(f.hi - 1) : /\ r \in Rows(p) /\ r \in Nat /\ rows[r][f.dim] \in Int
                                        /\ p.vec[perm[r]][f.dim] = rows[r][f.dim]
  <1>1. /\ stack # <<>> /\ call.lo = f.lo /\ call.hi = f.hi /\ f.l = NoChild
    BY DEF TreeInv, CallInv, Lo, Hi, Selecting
  <1>2. f = stack[Len(stack)] /\ Len(stack) \in Depth /\ Len(stack) \in Nat
    BY <1>1, TopFacts DEF TreeInv
  <1>3. /\ f \in Frames /\ f.lo \in Nat /\ f.hi \in Nat /\ f.dim \in Dims /\ f.hi <= p.count
        /\ mid(f) \in Nat /\ f.lo < mid(f) /\ mid(f) < f.hi /\ f.lo..(f.hi - 1) \subseteq Rows(p)
    BY <1>2, FrameFacts DEF TreeInv
  <1>4. /\ p.count \in Nat
        /\ \A r \in Rows(p) : r \in Nat /\ rows[r] = p.vec[perm[r]] /\ rows[r][f.dim] \in Int
    BY <1>3, RowsFacts DEF TreeInv
  <1>5. sel \in [lo : Nat, hi : Nat, pivot : Int, lt : Nat, i : Nat, gt : Nat]
    BY DEF TreeInv, SelInv
  <1>6. \A r \in f.lo..(f.hi - 1) : /\ r \in Rows(p) /\ r \in Nat /\ rows[r][f.dim] \in Int
                                    /\ p.vec[perm[r]][f.dim] = rows[r][f.dim]
    BY <1>3, <1>4
  <1> QED
    BY <1>1, <1>2, <1>3, <1>4, <1>5, <1>6

(* A step of quickselect that moves no row leaves the rest of the invariant alone. *)
LEMMA SelStep ==
  ASSUME TreeInv, Selecting, Selecting', UNCHANGED <<p, perm, call, ret, stack>>
  PROVE  PartInv' /\ StackInv' /\ CallInv' /\ NodesInv' /\ rows' = rows /\ Top' = Top
  <1>1. rows' = rows /\ Top' = Top /\ Depth' = Depth /\ Open' = Open /\ idx' = idx
    BY DEF rows, Top, Depth, Open, idx
  <1>2. PartInv'
    BY DEF TreeInv, PartInv, idx
  <1>3. StackInv'
    <2>1. \A j \in Depth : FrameInv(stack[j])'
      BY <1>1 DEF TreeInv, StackInv, FrameInv
    <2> QED
      BY <1>1, <2>1 DEF TreeInv, StackInv
  <1>4. CallInv'
    BY <1>1 DEF TreeInv, CallInv, Lo, Hi, Selecting
  <1>5. NodesInv'
    BY <1>1 DEF TreeInv, NodesInv, Edge, Lo, Selecting
  <1> QED
    BY <1>1, <1>2, <1>3, <1>4, <1>5

LEMMA MedianFacts ==
  ASSUME NEW vs, NEW pm, NEW lo \in Nat, NEW hi \in Nat, lo < hi, NEW d
  PROVE  medianOfThree(vs, pm, lo, hi, d) \in lo..(hi - 1)
  <1>1. (lo + hi) \div 2 \in lo..(hi - 1) /\ lo \in lo..(hi - 1) /\ hi - 1 \in lo..(hi - 1)
    OBVIOUS
  <1> QED
    BY <1>1 DEF medianOfThree

LEMMA PivotStep == TreeInv /\ Pivot => TreeInv'
  <1> SUFFICES ASSUME TreeInv, Pivot PROVE TreeInv'
    OBVIOUS
  <1>1. /\ Selecting /\ Selecting' /\ pc = "select" /\ pc' = "partition"
        /\ sel.lo < sel.hi - 1 /\ UNCHANGED <<p, perm, call, ret, stack>>
    <2>1. sel.lo \in Nat /\ sel.hi \in Nat
      BY DEF TreeInv, SelInv
    <2> QED
      BY <2>1 DEF Pivot, Selecting
  <1>2. PartInv' /\ StackInv' /\ CallInv' /\ NodesInv' /\ rows' = rows /\ Top' = Top
    BY <1>1, SelStep
  <1>3. PICK f : f = Top
    OBVIOUS
  <1>4. /\ sel.lo \in Nat /\ sel.hi \in Nat
        /\ f.lo <= sel.lo /\ sel.lo <= mid(f) /\ mid(f) < sel.hi /\ sel.hi <= f.hi
        /\ Cut(rows, f.lo, sel.lo, f.hi, f.dim) /\ Cut(rows, f.lo, sel.hi, f.hi, f.dim)
    BY <1>1, <1>3 DEF TreeInv, SelInv
  <1>5. PICK m \in sel.lo..(sel.hi - 1) :
          sel' = [sel EXCEPT !.pivot = p.vec[perm[m]][f.dim],
                             !.lt = sel.lo, !.i = sel.lo, !.gt = sel.hi]
    <2>1. medianOfThree(p.vec, perm, sel.lo, sel.hi, f.dim) \in sel.lo..(sel.hi - 1)
      BY <1>1, <1>4, MedianFacts
    <2> QED
      BY <1>3, <2>1 DEF Pivot
  <1>6. p.vec[perm[m]][f.dim] \in Int
    <2>1. f.lo \in Nat /\ f.hi \in Nat /\ m \in f.lo..(f.hi - 1)
      BY <1>1, <1>3, <1>4, SelFacts, SMTT(20)
    <2> QED
      BY <1>1, <1>3, <2>1, SelFacts
  <1>7. /\ sel' \in [lo : Nat, hi : Nat, pivot : Int, lt : Nat, i : Nat, gt : Nat]
        /\ sel'.lo = sel.lo /\ sel'.hi = sel.hi /\ sel'.lt = sel.lo /\ sel'.i = sel.lo
        /\ sel'.gt = sel.hi
    BY <1>4, <1>5, <1>6 DEF TreeInv, SelInv
  <1>8. SelInv'
    <2>1. Sides(rows, f.dim)'
      BY <1>1, <1>4, <1>7 DEF Sides
    <2> QED
      BY <1>1, <1>2, <1>3, <1>4, <1>7, <2>1 DEF SelInv, Sides
  <1> QED
    BY <1>1, <1>2, <1>8 DEF TreeInv, TreePcs

(* A round of the loop of quickselect: the frame and the ranges. *)
LEMMA ScanFacts ==
  ASSUME TreeInv, Scans, NEW f, f = Top
  PROVE  /\ Selecting /\ pc = "partition" /\ f.dim \in Dims
         /\ f.lo \in Nat /\ f.hi \in Nat /\ mid(f) \in Nat /\ call.lo = f.lo /\ call.hi = f.hi
         /\ sel.lo \in Nat /\ sel.hi \in Nat /\ sel.lt \in Nat /\ sel.i \in Nat /\ sel.gt \in Nat
         /\ sel.pivot \in Int
         /\ f.lo <= sel.lo /\ sel.lo <= mid(f) /\ mid(f) < sel.hi /\ sel.hi <= f.hi
         /\ sel.lo <= sel.lt /\ sel.lt <= sel.i /\ sel.i < sel.gt /\ sel.gt <= sel.hi
         /\ Cut(rows, f.lo, sel.lo, f.hi, f.dim) /\ Cut(rows, f.lo, sel.hi, f.hi, f.dim)
         /\ Sides(rows, f.dim) /\ value = rows[sel.i][f.dim]
  <1>1. Selecting /\ pc = "partition" /\ sel.i < sel.gt
    BY DEF Scans, Selecting
  <1>2. /\ f.lo <= sel.lo /\ sel.lo <= mid(f) /\ mid(f) < sel.hi /\ sel.hi <= f.hi
        /\ Cut(rows, f.lo, sel.lo, f.hi, f.dim) /\ Cut(rows, f.lo, sel.hi, f.hi, f.dim)
        /\ Sides(rows, f.dim)
    BY <1>1 DEF TreeInv, SelInv
  <1>3. sel.lo <= sel.lt /\ sel.lt <= sel.i /\ sel.gt <= sel.hi
    BY <1>2 DEF Sides
  <1>4. /\ f.lo \in Nat /\ f.hi \in Nat /\ mid(f) \in Nat /\ call.lo = f.lo /\ call.hi = f.hi
        /\ sel.lo \in Nat /\ sel.hi \in Nat /\ sel.lt \in Nat /\ sel.i \in Nat /\ sel.gt \in Nat
        /\ sel.pivot \in Int /\ f.dim \in Dims
    BY <1>1, SelFacts
  <1>5. value = rows[sel.i][f.dim]
    <2>1. sel.i \in f.lo..(f.hi - 1)
      BY <1>1, <1>2, <1>3, <1>4
    <2> QED
      BY <1>1, <2>1, SelFacts DEF value
  <1> QED
    BY <1>1, <1>2, <1>3, <1>4, <1>5

(* The same after a swap of two rows that are not sorted yet. *)
LEMMA ScanSwap ==
  ASSUME TreeInv, Scans, NEW f, f = Top, NEW a \in sel.lo..(sel.hi - 1),
         NEW b \in sel.lo..(sel.hi - 1),
         perm' = Swap(perm, a, b), UNCHANGED <<pc, p, call, ret, stack>>
  PROVE  /\ PartInv' /\ StackInv' /\ CallInv' /\ NodesInv' /\ rows' = Swap(rows, a, b)
         /\ Top' = f
         /\ Cut(rows', f.lo, sel.lo, f.hi, f.dim) /\ Cut(rows', f.lo, sel.hi, f.hi, f.dim)
         /\ \A r \in f.lo..(f.hi - 1) :
              rows'[r] = IF r = b THEN rows[a] ELSE IF r = a THEN rows[b] ELSE rows[r]
  <1>1. /\ Selecting /\ pc = "partition"
        /\ f.lo \in Nat /\ f.hi \in Nat /\ mid(f) \in Nat /\ call.lo = f.lo /\ call.hi = f.hi
        /\ sel.lo \in Nat /\ sel.hi \in Nat
        /\ f.lo <= sel.lo /\ sel.lo <= mid(f) /\ mid(f) < sel.hi /\ sel.hi <= f.hi
        /\ Cut(rows, f.lo, sel.lo, f.hi, f.dim) /\ Cut(rows, f.lo, sel.hi, f.hi, f.dim)
    BY ScanFacts
  <1>2. a \in call.lo..(call.hi - 1) /\ b \in call.lo..(call.hi - 1)
    BY <1>1
  <1>3. PartInv' /\ StackInv' /\ CallInv' /\ NodesInv' /\ rows' = Swap(rows, a, b)
    BY <1>1, <1>2, SwapStep DEF TreeInv
  <1>4. IsFun(rows, Rows(p)) /\ \A r \in f.lo..(f.hi - 1) : r \in Rows(p)
    BY <1>1, RowsFacts, SelFacts DEF TreeInv
  <1>5. a \in Rows(p) /\ b \in Rows(p)
    BY <1>1, <1>2, <1>4
  <1>6. ASSUME NEW c \in {sel.lo, sel.hi}, Cut(rows, f.lo, c, f.hi, f.dim)
        PROVE  Cut(rows', f.lo, c, f.hi, f.dim)
    <2>1. /\ f.lo..(c - 1) \subseteq Rows(p) /\ c..(f.hi - 1) \subseteq Rows(p)
          /\ a \in f.lo..(c - 1) <=> b \in f.lo..(c - 1)
          /\ a \in c..(f.hi - 1) <=> b \in c..(f.hi - 1)
      <3>1. f.lo..(c - 1) \subseteq f.lo..(f.hi - 1) /\ c..(f.hi - 1) \subseteq f.lo..(f.hi - 1)
        BY <1>1
      <3>2. /\ a \in f.lo..(c - 1) <=> b \in f.lo..(c - 1)
            /\ a \in c..(f.hi - 1) <=> b \in c..(f.hi - 1)
        BY <1>1
      <3> QED
        BY <1>4, <3>1, <3>2
    <2> QED
      BY <1>3, <1>4, <1>5, <1>6, <2>1, SwapCut
  <1>7. ASSUME NEW r \in f.lo..(f.hi - 1)
        PROVE  rows'[r] = IF r = b THEN rows[a] ELSE IF r = a THEN rows[b] ELSE rows[r]
    <2>1. r \in Rows(p)
      BY <1>4
    <2> QED
      BY <1>3, <1>4, <1>5, <2>1, SwapAt
  <1>8. Top' = f
    BY DEF Top
  <1> QED
    BY <1>1, <1>3, <1>6, <1>7, <1>8

LEMMA BelowStep == TreeInv /\ Below => TreeInv'
  <1> SUFFICES ASSUME TreeInv, Below PROVE TreeInv'
    OBVIOUS
  <1>1. /\ Scans /\ value < sel.pivot /\ perm' = Swap(perm, sel.lt, sel.i)
        /\ sel' = [sel EXCEPT !.lt = sel.lt + 1, !.i = sel.i + 1]
        /\ UNCHANGED <<pc, p, call, ret, stack>>
    BY DEF Below
  <1>2. PICK f : f = Top
    OBVIOUS
  <1>3. /\ pc = "partition" /\ f.lo \in Nat /\ f.hi \in Nat /\ mid(f) \in Nat
        /\ sel.lo \in Nat /\ sel.hi \in Nat /\ sel.lt \in Nat /\ sel.i \in Nat /\ sel.gt \in Nat
        /\ f.lo <= sel.lo /\ sel.lo <= mid(f) /\ mid(f) < sel.hi /\ sel.hi <= f.hi
        /\ sel.lo <= sel.lt /\ sel.lt <= sel.i /\ sel.i < sel.gt /\ sel.gt <= sel.hi
        /\ Sides(rows, f.dim) /\ value = rows[sel.i][f.dim]
    BY <1>1, <1>2, ScanFacts
  <1>4. sel.lt \in sel.lo..(sel.hi - 1) /\ sel.i \in sel.lo..(sel.hi - 1)
    BY <1>3
  <1>5. /\ PartInv' /\ StackInv' /\ CallInv' /\ NodesInv' /\ Top' = f
        /\ Cut(rows', f.lo, sel.lo, f.hi, f.dim) /\ Cut(rows', f.lo, sel.hi, f.hi, f.dim)
        /\ \A r \in f.lo..(f.hi - 1) :
             rows'[r] = IF r = sel.i THEN rows[sel.lt] ELSE IF r = sel.lt THEN rows[sel.i] ELSE rows[r]
    BY <1>1, <1>2, <1>4, ScanSwap
  <1>6. /\ sel' \in [lo : Nat, hi : Nat, pivot : Int, lt : Nat, i : Nat, gt : Nat]
        /\ sel'.lo = sel.lo /\ sel'.hi = sel.hi /\ sel'.lt = sel.lt + 1 /\ sel'.i = sel.i + 1
        /\ sel'.gt = sel.gt /\ sel'.pivot = sel.pivot
    <2>1. sel \in [lo : Nat, hi : Nat, pivot : Int, lt : Nat, i : Nat, gt : Nat]
      BY DEF TreeInv, SelInv
    <2>2. sel.lt + 1 \in Nat /\ sel.i + 1 \in Nat
      BY <1>3
    <2> QED
      BY <1>1, <2>1, <2>2
  <1>7. Sides(rows, f.dim)'
    <2>1. ASSUME NEW r \in sel.lo..((sel.lt + 1) - 1) PROVE rows'[r][f.dim] < sel.pivot
      <3>1. r \in f.lo..(f.hi - 1) /\ r <= sel.i
        BY <1>3
      <3>2. CASE r = sel.lt
        BY <1>1, <1>3, <1>5, <3>1, <3>2
      <3>3. CASE r # sel.lt
        <4>1. r \in sel.lo..(sel.lt - 1) /\ r # sel.i
          BY <1>3, <3>3
        <4> QED
          BY <1>3, <1>5, <3>1, <3>3, <4>1 DEF Sides
      <3> QED
        BY <3>2, <3>3
    <2>2. ASSUME NEW r \in (sel.lt + 1)..((sel.i + 1) - 1) PROVE rows'[r][f.dim] = sel.pivot
      <3>1. r \in f.lo..(f.hi - 1) /\ r # sel.lt /\ sel.lt \in sel.lt..(sel.i - 1)
        BY <1>3
      <3>2. CASE r = sel.i
        BY <1>3, <1>5, <3>1, <3>2 DEF Sides
      <3>3. CASE r # sel.i
        <4>1. r \in sel.lt..(sel.i - 1)
          BY <1>3, <3>3
        <4> QED
          BY <1>3, <1>5, <3>1, <3>3, <4>1 DEF Sides
      <3> QED
        BY <3>2, <3>3
    <2>3. ASSUME NEW r \in sel.gt..(sel.hi - 1) PROVE rows'[r][f.dim] > sel.pivot
      <3>1. r \in f.lo..(f.hi - 1) /\ r # sel.lt /\ r # sel.i
        BY <1>3
      <3> QED
        BY <1>3, <1>5, <3>1 DEF Sides
    <2>4. /\ sel.lo <= sel.lt + 1 /\ sel.lt + 1 <= sel.i + 1 /\ sel.i + 1 <= sel.gt
      BY <1>3
    <2> QED
      BY <1>3, <1>6, <2>1, <2>2, <2>3, <2>4 DEF Sides
  <1>8. SelInv'
    BY <1>1, <1>3, <1>5, <1>6, <1>7 DEF SelInv
  <1> QED
    BY <1>1, <1>3, <1>5, <1>8 DEF TreeInv, TreePcs

LEMMA AboveStep == TreeInv /\ Above => TreeInv'
  <1> SUFFICES ASSUME TreeInv, Above PROVE TreeInv'
    OBVIOUS
  <1>1. /\ Scans /\ value > sel.pivot /\ perm' = Swap(perm, sel.i, sel.gt - 1)
        /\ sel' = [sel EXCEPT !.gt = sel.gt - 1]
        /\ UNCHANGED <<pc, p, call, ret, stack>>
    BY DEF Above
  <1>2. PICK f : f = Top
    OBVIOUS
  <1>3. /\ pc = "partition" /\ f.lo \in Nat /\ f.hi \in Nat /\ mid(f) \in Nat
        /\ sel.lo \in Nat /\ sel.hi \in Nat /\ sel.lt \in Nat /\ sel.i \in Nat /\ sel.gt \in Nat
        /\ f.lo <= sel.lo /\ sel.lo <= mid(f) /\ mid(f) < sel.hi /\ sel.hi <= f.hi
        /\ sel.lo <= sel.lt /\ sel.lt <= sel.i /\ sel.i < sel.gt /\ sel.gt <= sel.hi
        /\ Sides(rows, f.dim) /\ value = rows[sel.i][f.dim]
    BY <1>1, <1>2, ScanFacts
  <1>4. sel.gt - 1 \in sel.lo..(sel.hi - 1) /\ sel.i \in sel.lo..(sel.hi - 1)
    BY <1>3
  <1>5. /\ PartInv' /\ StackInv' /\ CallInv' /\ NodesInv' /\ Top' = f
        /\ Cut(rows', f.lo, sel.lo, f.hi, f.dim) /\ Cut(rows', f.lo, sel.hi, f.hi, f.dim)
        /\ \A r \in f.lo..(f.hi - 1) :
             rows'[r] = IF r = sel.gt - 1 THEN rows[sel.i]
                        ELSE IF r = sel.i THEN rows[sel.gt - 1] ELSE rows[r]
    BY <1>1, <1>2, <1>4, ScanSwap
  <1>6. /\ sel' \in [lo : Nat, hi : Nat, pivot : Int, lt : Nat, i : Nat, gt : Nat]
        /\ sel'.lo = sel.lo /\ sel'.hi = sel.hi /\ sel'.lt = sel.lt /\ sel'.i = sel.i
        /\ sel'.gt = sel.gt - 1 /\ sel'.pivot = sel.pivot
    BY <1>1, <1>3 DEF TreeInv, SelInv
  <1>7. Sides(rows, f.dim)'
    <2>1. ASSUME NEW r \in sel.lo..(sel.lt - 1) PROVE rows'[r][f.dim] < sel.pivot
      <3>1. r \in f.lo..(f.hi - 1) /\ r # sel.gt - 1 /\ r # sel.i
        BY <1>3
      <3> QED
        BY <1>3, <1>5, <3>1 DEF Sides
    <2>2. ASSUME NEW r \in sel.lt..(sel.i - 1) PROVE rows'[r][f.dim] = sel.pivot
      <3>1. r \in f.lo..(f.hi - 1) /\ r # sel.gt - 1 /\ r # sel.i
        BY <1>3
      <3> QED
        BY <1>3, <1>5, <3>1 DEF Sides
    <2>3. ASSUME NEW r \in (sel.gt - 1)..(sel.hi - 1) PROVE rows'[r][f.dim] > sel.pivot
      <3>1. r \in f.lo..(f.hi - 1) /\ sel.i <= sel.gt - 1
        BY <1>3
      <3>2. CASE r = sel.gt - 1
        BY <1>1, <1>3, <1>5, <3>1, <3>2
      <3>3. CASE r # sel.gt - 1
        <4>1. r \in sel.gt..(sel.hi - 1) /\ r # sel.i
          BY <1>3, <3>3
        <4> QED
          BY <1>3, <1>5, <3>1, <3>3, <4>1 DEF Sides
      <3> QED
        BY <3>2, <3>3
    <2>4. sel.i <= sel.gt - 1 /\ sel.gt - 1 <= sel.hi
      BY <1>3
    <2> QED
      BY <1>3, <1>6, <2>1, <2>2, <2>3, <2>4 DEF Sides
  <1>8. SelInv'
    BY <1>1, <1>3, <1>5, <1>6, <1>7 DEF SelInv
  <1> QED
    BY <1>1, <1>3, <1>5, <1>8 DEF TreeInv, TreePcs

LEMMA EqualStep == TreeInv /\ Equal => TreeInv'
  <1> SUFFICES ASSUME TreeInv, Equal PROVE TreeInv'
    OBVIOUS
  <1>1. /\ Scans /\ value = sel.pivot /\ sel' = [sel EXCEPT !.i = sel.i + 1]
        /\ UNCHANGED <<pc, p, perm, call, ret, stack>>
    BY DEF Equal
  <1>2. PICK f : f = Top
    OBVIOUS
  <1>3. /\ pc = "partition" /\ Selecting /\ Selecting'
        /\ sel.lo \in Nat /\ sel.hi \in Nat /\ sel.lt \in Nat /\ sel.i \in Nat /\ sel.gt \in Nat
        /\ f.lo <= sel.lo /\ sel.lo <= mid(f) /\ mid(f) < sel.hi /\ sel.hi <= f.hi
        /\ sel.lo <= sel.lt /\ sel.lt <= sel.i /\ sel.i < sel.gt /\ sel.gt <= sel.hi
        /\ Cut(rows, f.lo, sel.lo, f.hi, f.dim) /\ Cut(rows, f.lo, sel.hi, f.hi, f.dim)
        /\ Sides(rows, f.dim) /\ value = rows[sel.i][f.dim]
    BY <1>1, <1>2, ScanFacts DEF Selecting
  <1>4. PartInv' /\ StackInv' /\ CallInv' /\ NodesInv' /\ rows' = rows /\ Top' = f
    BY <1>1, <1>2, <1>3, SelStep
  <1>5. /\ sel' \in [lo : Nat, hi : Nat, pivot : Int, lt : Nat, i : Nat, gt : Nat]
        /\ sel'.lo = sel.lo /\ sel'.hi = sel.hi /\ sel'.lt = sel.lt /\ sel'.i = sel.i + 1
        /\ sel'.gt = sel.gt /\ sel'.pivot = sel.pivot
    <2>1. sel \in [lo : Nat, hi : Nat, pivot : Int, lt : Nat, i : Nat, gt : Nat]
      BY DEF TreeInv, SelInv
    <2>2. sel.lt + 1 \in Nat /\ sel.i + 1 \in Nat
      BY <1>3
    <2> QED
      BY <1>1, <2>1, <2>2
  <1>6. Sides(rows, f.dim)'
    <2>1. ASSUME NEW r \in sel.lt..((sel.i + 1) - 1) PROVE rows[r][f.dim] = sel.pivot
      <3>1. r = sel.i \/ r \in sel.lt..(sel.i - 1)
        BY <1>3
      <3> QED
        BY <1>1, <1>3, <3>1 DEF Sides
    <2>2. sel.lt <= sel.i + 1 /\ sel.i + 1 <= sel.gt
      BY <1>3
    <2> QED
      BY <1>3, <1>4, <1>5, <2>1, <2>2 DEF Sides
  <1>7. SelInv'
    BY <1>1, <1>2, <1>3, <1>4, <1>5, <1>6 DEF SelInv
  <1> QED
    BY <1>1, <1>3, <1>4, <1>7 DEF TreeInv, TreePcs

LEMMA NarrowStep == TreeInv /\ Narrow => TreeInv'
  <1> SUFFICES ASSUME TreeInv, Narrow PROVE TreeInv'
    OBVIOUS
  <1>1. /\ pc = "partition" /\ sel.i >= sel.gt /\ UNCHANGED <<p, perm, call, ret, stack>>
        /\ Selecting /\ Selecting'
    BY DEF Narrow, Selecting
  <1>2. PICK f : f = Top
    OBVIOUS
  <1>3. /\ f.dim \in Dims /\ f.lo \in Nat /\ f.hi \in Nat /\ mid(f) \in Nat
        /\ sel.lo \in Nat /\ sel.hi \in Nat /\ sel.lt \in Nat /\ sel.i \in Nat /\ sel.gt \in Nat
        /\ sel.pivot \in Int
        /\ \A r \in f.lo..(f.hi - 1) : rows[r][f.dim] \in Int
    BY <1>1, <1>2, SelFacts
  <1>4. /\ f.lo <= sel.lo /\ sel.lo <= mid(f) /\ mid(f) < sel.hi /\ sel.hi <= f.hi
        /\ Cut(rows, f.lo, sel.lo, f.hi, f.dim) /\ Cut(rows, f.lo, sel.hi, f.hi, f.dim)
        /\ Sides(rows, f.dim)
    BY <1>1, <1>2 DEF TreeInv, SelInv
  <1>5. sel.lo <= sel.lt /\ sel.lt <= sel.gt /\ sel.i = sel.gt /\ sel.gt <= sel.hi
    BY <1>1, <1>3, <1>4 DEF Sides
  <1>6. PartInv' /\ StackInv' /\ CallInv' /\ NodesInv' /\ rows' = rows /\ Top' = f
    BY <1>1, <1>2, SelStep
  <1>7. /\ \A r \in sel.lo..(sel.lt - 1) : rows[r][f.dim] < sel.pivot
        /\ \A r \in sel.lt..(sel.gt - 1) : rows[r][f.dim] = sel.pivot
        /\ \A r \in sel.gt..(sel.hi - 1) : rows[r][f.dim] > sel.pivot
    BY <1>4, <1>5 DEF Sides
  <1>8. /\ \A r \in f.lo..(sel.lo - 1), s \in sel.lo..(f.hi - 1) : rows[r][f.dim] <= rows[s][f.dim]
        /\ \A r \in f.lo..(sel.hi - 1), s \in sel.hi..(f.hi - 1) : rows[r][f.dim] <= rows[s][f.dim]
    BY <1>4 DEF Cut
  <1>9. ASSUME NEW r \in sel.lo..(sel.hi - 1)
        PROVE  /\ rows[r][f.dim] \in Int
               /\ r < sel.lt => rows[r][f.dim] < sel.pivot
               /\ r >= sel.lt /\ r < sel.gt => rows[r][f.dim] = sel.pivot
               /\ r >= sel.gt => rows[r][f.dim] > sel.pivot
    <2>1. r \in f.lo..(f.hi - 1)
      BY <1>3, <1>4
    <2>2. /\ r < sel.lt => r \in sel.lo..(sel.lt - 1)
          /\ r >= sel.lt /\ r < sel.gt => r \in sel.lt..(sel.gt - 1)
          /\ r >= sel.gt => r \in sel.gt..(sel.hi - 1)
      BY <1>3
    <2> QED
      BY <1>3, <1>7, <2>1, <2>2
  <1>10. ASSUME NEW c \in {sel.lt, sel.gt} PROVE Cut(rows, f.lo, c, f.hi, f.dim)
    <2> SUFFICES ASSUME NEW r \in f.lo..(c - 1), NEW s \in c..(f.hi - 1)
                 PROVE  rows[r][f.dim] <= rows[s][f.dim]
      BY DEF Cut
    <2>1. c \in Nat /\ sel.lo <= c /\ c <= sel.hi
      BY <1>3, <1>5
    <2>2. CASE r < sel.lo
      <3>1. r \in f.lo..(sel.lo - 1) /\ s \in sel.lo..(f.hi - 1)
        BY <1>3, <2>1, <2>2
      <3> QED
        BY <1>8, <3>1
    <2>3. CASE s >= sel.hi
      <3>1. r \in f.lo..(sel.hi - 1) /\ s \in sel.hi..(f.hi - 1)
        BY <1>3, <2>1, <2>3
      <3> QED
        BY <1>8, <3>1
    <2>4. CASE r >= sel.lo /\ s < sel.hi
      <3>1. r \in sel.lo..(sel.hi - 1) /\ s \in sel.lo..(sel.hi - 1) /\ r < c /\ c <= s
        BY <1>3, <2>1, <2>4
      <3>2. rows[r][f.dim] <= sel.pivot /\ sel.pivot <= rows[s][f.dim]
        BY <1>3, <1>5, <1>9, <3>1
      <3> QED
        BY <1>3, <1>9, <3>1, <3>2
    <2> QED
      BY <1>3, <2>1, <2>2, <2>3, <2>4
  <1>11. sel \in [lo : Nat, hi : Nat, pivot : Int, lt : Nat, i : Nat, gt : Nat]
    BY DEF TreeInv, SelInv
  <1>12. CASE mid(f) < sel.lt /\ sel' = [sel EXCEPT !.hi = sel.lt] /\ pc' = "select"
    <2>1. /\ sel' \in [lo : Nat, hi : Nat, pivot : Int, lt : Nat, i : Nat, gt : Nat]
          /\ sel'.lo = sel.lo /\ sel'.hi = sel.lt
      BY <1>3, <1>11, <1>12
    <2>2. sel.lt <= f.hi
      BY <1>3, <1>4, <1>5
    <2>3. SelInv'
      BY <1>4, <1>6, <1>10, <1>12, <2>1, <2>2 DEF SelInv
    <2> QED
      BY <1>6, <1>12, <2>3 DEF TreeInv, TreePcs
  <1>13. CASE mid(f) >= sel.gt /\ sel' = [sel EXCEPT !.lo = sel.gt] /\ pc' = "select"
    <2>1. /\ sel' \in [lo : Nat, hi : Nat, pivot : Int, lt : Nat, i : Nat, gt : Nat]
          /\ sel'.lo = sel.gt /\ sel'.hi = sel.hi
      BY <1>3, <1>11, <1>13
    <2>2. f.lo <= sel.gt /\ sel.gt <= mid(f)
      BY <1>3, <1>4, <1>5, <1>13
    <2>3. SelInv'
      BY <1>4, <1>6, <1>10, <1>13, <2>1, <2>2 DEF SelInv
    <2> QED
      BY <1>6, <1>13, <2>3 DEF TreeInv, TreePcs
  <1>14. CASE mid(f) \in sel.lt..(sel.gt - 1) /\ pc' = "selected" /\ sel' = sel
    <2>1. PICK m : m = mid(f)
      OBVIOUS
    <2>2. /\ m \in sel.lo..(sel.hi - 1) /\ sel.lt <= m /\ m < sel.gt
          /\ rows[m][f.dim] = sel.pivot /\ rows[m][f.dim] \in Int
      BY <1>3, <1>4, <1>9, <1>14, <2>1
    <2>3. ASSUME NEW r \in f.lo..(m - 1) PROVE rows[r][f.dim] <= rows[m][f.dim]
      <3>1. CASE r < sel.lo
        <4>1. r \in f.lo..(sel.lo - 1) /\ m \in sel.lo..(f.hi - 1)
          BY <1>3, <1>4, <2>2, <3>1
        <4> QED
          BY <1>8, <4>1
      <3>2. CASE r >= sel.lo
        <4>1. r \in sel.lo..(sel.hi - 1) /\ r < sel.gt
          BY <1>3, <2>2, <3>2
        <4> QED
          BY <1>3, <1>9, <2>2, <4>1
      <3> QED
        BY <1>3, <2>2, <3>1, <3>2
    <2>4. ASSUME NEW r \in m..(f.hi - 1) PROVE rows[r][f.dim] >= rows[m][f.dim]
      <3>1. CASE r >= sel.hi
        <4>1. m \in f.lo..(sel.hi - 1) /\ r \in sel.hi..(f.hi - 1)
          BY <1>3, <1>4, <2>2, <3>1
        <4>2. rows[m][f.dim] <= rows[r][f.dim] /\ rows[r][f.dim] \in Int
          <5>1. r \in f.lo..(f.hi - 1)
            BY <1>3, <1>4, <4>1
          <5> QED
            BY <1>3, <1>8, <4>1, <5>1
        <4> QED
          BY <2>2, <4>2
      <3>2. CASE r < sel.hi
        <4>1. r \in sel.lo..(sel.hi - 1) /\ r >= sel.lt
          BY <1>3, <2>2, <3>2
        <4> QED
          BY <1>3, <1>9, <2>2, <4>1
      <3> QED
        BY <1>3, <2>2, <3>1, <3>2
    <2>5. SelInv'
      BY <1>6, <1>11, <1>14, <2>1, <2>3, <2>4 DEF SelInv, Halves
    <2> QED
      BY <1>6, <1>14, <2>5 DEF TreeInv, TreePcs
  <1> QED
    BY <1>2, <1>12, <1>13, <1>14 DEF Narrow

-----------------------------------------------------------------------------
(* build. *)

(* The box of the call that begins, and the dimension it is widest in. *)
LEMMA CallFacts ==
  ASSUME TreeInv, pc = "build"
  PROVE  /\ call.lo \in Nat /\ call.hi \in Nat /\ call.lo < call.hi /\ call.hi <= p.count
         /\ call \in [lo : Nat, hi : Nat] /\ p.count \in Nat
         /\ call.lo..(call.hi - 1) \subseteq Rows(p)
         /\ \A d \in Dims : box.lo[d] \in Int /\ box.hi[d] \in Int
         /\ \A r \in call.lo..(call.hi - 1), d \in Dims :
              box.lo[d] <= rows[r][d] /\ rows[r][d] <= box.hi[d]
         /\ dim \in RawDims
         /\ spread = 0 => \A r, s \in call.lo..(call.hi - 1) : rows[r] = rows[s]
  <1>1. /\ call.lo \in Nat /\ call.hi \in Nat /\ call.lo < call.hi /\ call.hi <= p.count
        /\ call \in [lo : Nat, hi : Nat]
    BY DEF TreeInv, CallInv, Lo, Hi
  <1>2. p.count \in Nat /\ call.lo..(call.hi - 1) \subseteq Rows(p)
    BY <1>1 DEF TreeInv, PartInv, Rows
  <1>3. \A r \in call.lo..(call.hi - 1) : Quantized(rows[r]) /\ rows[r] = p.vec[perm[r]]
    BY <1>2, RowsFacts DEF TreeInv
  <1>4. ASSUME NEW d \in Dims
        PROVE  /\ box.lo[d] \in Int /\ box.hi[d] \in Int
               /\ \A r \in call.lo..(call.hi - 1) :
                    box.lo[d] <= rows[r][d] /\ rows[r][d] <= box.hi[d]
    <2>1. \A r \in call.lo..(call.hi - 1) : Quantized(p.vec[perm[r]])
      BY <1>3
    <2>2. /\ box.lo[d] \in (-QScale)..QScale /\ box.hi[d] \in (-QScale)..QScale
          /\ \A r \in call.lo..(call.hi - 1) :
               box.lo[d] <= p.vec[perm[r]][d] /\ p.vec[perm[r]][d] <= box.hi[d]
      BY <1>1, <2>1, BoxFacts DEF box
    <2> QED
      BY <1>3, <2>2, Scale
  <1>5. /\ dim \in RawDims
        /\ \A e \in RawDims : box.hi[e] - box.lo[e] <= spread
    <2>1. \A d \in RawDims : box.lo[d] \in Int /\ box.hi[d] \in Int
      BY <1>4 DEF RawDims, Dims
    <2> QED
      BY <2>1, WidestFacts DEF dim, spread
  <1>6. ASSUME spread = 0, NEW r \in call.lo..(call.hi - 1), NEW s \in call.lo..(call.hi - 1)
        PROVE  rows[r] = rows[s]
    <2>1. /\ rows[r] \in [Dims -> (-QScale)..QScale] /\ rows[s] \in [Dims -> (-QScale)..QScale]
          /\ rows[r][14] = rows[s][14] /\ rows[r][15] = rows[s][15]
      BY <1>3, QuantizedFacts
    <2>2. ASSUME NEW d \in RawDims PROVE rows[r][d] = rows[s][d]
      <3>1. /\ d \in Dims /\ box.lo[d] \in Int /\ box.hi[d] \in Int /\ box.hi[d] - box.lo[d] <= 0
            /\ rows[r][d] \in Int /\ rows[s][d] \in Int
        <4>1. d \in Dims
          BY DEF Dims, RawDims
        <4> QED
          BY <1>4, <1>5, <1>6, <2>1, <4>1, Scale
      <3> QED
        BY <1>4, <3>1
    <2>3. \A d \in Dims : d \in RawDims \/ d = 14 \/ d = 15
      BY DEF Dims, RawDims
    <2>4. \A d \in Dims : rows[r][d] = rows[s][d]
      BY <2>1, <2>2, <2>3
    <2> QED
      BY <2>1, <2>4
  <1> QED
    BY <1>1, <1>2, <1>4, <1>5, <1>6

(* The new node is the last; the older ones stay. *)
LEMMA AddNodeFacts ==
  ASSUME TreeInv, pc = "build", NEW nd, AddNode(nd), perm' = perm
  PROVE  /\ PartInv' /\ rows' = rows /\ p'.count = p.count /\ p'.vec = p.vec
         /\ idx \in Nat /\ Nodes(p) = 0..(idx - 1) /\ Nodes(p)' = Nodes(p) \cup {idx}
         /\ idx \notin Nodes(p) /\ idx \in Nodes(p)' /\ idx' = idx + 1
         /\ p'.nodes[idx] = nd /\ p'.lo[idx] = call.lo /\ p'.hi[idx] = call.hi
         /\ p'.boxes[idx] = box
         /\ \A n \in Nodes(p) : /\ p'.nodes[n] = p.nodes[n] /\ p'.boxes[n] = p.boxes[n]
                                /\ p'.lo[n] = p.lo[n] /\ p'.hi[n] = p.hi[n]
  <1>1. /\ IsPart(p) /\ p.count \in Nat /\ p.count > 0 /\ idx \in Nat
        /\ Nodes(p) = 0..(idx - 1) /\ DOMAIN p.nodes = 0..(idx - 1)
        /\ DOMAIN p.boxes = 0..(idx - 1) /\ DOMAIN p.lo = 0..(idx - 1)
        /\ DOMAIN p.hi = 0..(idx - 1)
    BY DEF TreeInv, PartInv, Nodes
  <1>2. PICK n : n = idx
    OBVIOUS
  <1>3. p' = [count |-> p.count, vec |-> p.vec, gidx |-> p.gidx,
              nodes |-> Push(p.nodes, nd), boxes |-> Push(p.boxes, box),
              lo |-> Push(p.lo, call.lo), hi |-> Push(p.hi, call.hi)]
    BY <1>1 DEF AddNode, IsPart
  <1>4. /\ p'.nodes = [j \in 0..n |-> IF j = n THEN nd ELSE p.nodes[j]]
        /\ p'.boxes = [j \in 0..n |-> IF j = n THEN box ELSE p.boxes[j]]
        /\ p'.lo = [j \in 0..n |-> IF j = n THEN call.lo ELSE p.lo[j]]
        /\ p'.hi = [j \in 0..n |-> IF j = n THEN call.hi ELSE p.hi[j]]
    <2>1. /\ p'.nodes = Push(p.nodes, nd) /\ p'.boxes = Push(p.boxes, box)
          /\ p'.lo = Push(p.lo, call.lo) /\ p'.hi = Push(p.hi, call.hi)
      BY <1>3
    <2>2. n \in Nat /\ DOMAIN p.nodes = 0..(n - 1) /\ DOMAIN p.boxes = 0..(n - 1)
          /\ DOMAIN p.lo = 0..(n - 1) /\ DOMAIN p.hi = 0..(n - 1)
      BY <1>1, <1>2
    <2>3. /\ Push(p.nodes, nd) = Longer(p.nodes, n, nd) /\ Push(p.boxes, box) = Longer(p.boxes, n, box)
          /\ Push(p.lo, call.lo) = Longer(p.lo, n, call.lo)
          /\ Push(p.hi, call.hi) = Longer(p.hi, n, call.hi)
      BY ONLY <2>2, PushFacts
    <2> QED
      BY <2>1, <2>3 DEF Longer
  <1>5. /\ p'.count = p.count /\ p'.vec = p.vec /\ IsPart(p')
    BY <1>3 DEF IsPart
  <1>6. /\ n \in Nat /\ n \in 0..n /\ n \notin 0..(n - 1) /\ 0..n = 0..(n - 1) \cup {n}
    BY <1>1, <1>2
  <1>7. idx' = n + 1
    <2>1. DOMAIN p'.nodes = 0..n
      BY <1>4
    <2>2. Cardinality(0..n) = n + 1
      BY <1>6, FS_Interval
    <2> QED
      BY <2>1, <2>2 DEF idx, Nodes
  <1>8. rows' = rows
    BY <1>5 DEF rows, Rows
  <1>9. PartInv'
    <2>1. /\ DOMAIN p'.nodes = 0..n /\ DOMAIN p'.boxes = 0..n /\ DOMAIN p'.lo = 0..n
          /\ DOMAIN p'.hi = 0..n /\ (n + 1) - 1 = n
      BY <1>4, <1>6
    <2>2. Rows(p)' = Rows(p)
      BY <1>5 DEF Rows
    <2> QED
      BY <1>1, <1>5, <1>6, <1>7, <2>1, <2>2 DEF TreeInv, PartInv, Nodes
  <1>10. Nodes(p)' = 0..n
    BY <1>4 DEF Nodes
  <1>11. /\ \A m \in 0..(n - 1) : /\ p'.nodes[m] = p.nodes[m] /\ p'.boxes[m] = p.boxes[m]
                                  /\ p'.lo[m] = p.lo[m] /\ p'.hi[m] = p.hi[m]
         /\ p'.nodes[n] = nd /\ p'.boxes[n] = box /\ p'.lo[n] = call.lo /\ p'.hi[n] = call.hi
    BY <1>4, <1>6
  <1> QED
    BY <1>1, <1>2, <1>5, <1>6, <1>7, <1>8, <1>9, <1>10, <1>11

(* A node is as good in a tree that has grown. *)
LEMMA DoneCopied ==
  ASSUME NEW q, NEW u, NEW w, NEW n, n \in Nodes(q), Done(q, w, n),
         Nodes(q) \subseteq Nodes(u), u.count = q.count,
         \A m \in Nodes(q) : u.lo[m] = q.lo[m] /\ u.hi[m] = q.hi[m],
         u.nodes[n] = q.nodes[n], u.boxes[n] = q.boxes[n]
  PROVE  Done(u, w, n)
  <1>1. u.lo[n] = q.lo[n] /\ u.hi[n] = q.hi[n] /\ Span(u, n) = Span(q, n)
    BY DEF Span
  <1>2. BoxOK(u, w, n)
    BY <1>1 DEF Done, BoxOK
  <1>3. ASSUME u.nodes[n].splitDim # leafMark
        PROVE  /\ u.nodes[n].left \in Nodes(q) /\ u.nodes[n].right \in Nodes(q)
    BY <1>3 DEF Done
  <1> QED
    BY <1>1, <1>2, <1>3 DEF Done

LEMMA OlderFrame ==
  ASSUME TreeInv, pc = "build", NEW nd, AddNode(nd), perm' = perm,
         NEW j \in Depth, NEW f, f = stack[j]
  PROVE  /\ f.idx \in Nodes(p) /\ f.idx \in Nodes(p)' /\ p'.lo[f.idx] = f.lo /\ p'.hi[f.idx] = f.hi
         /\ f.lo + 2 <= f.hi /\ f.hi <= p.count
         /\ BoxOK(p', rows, f.idx)
         /\ f.l # NoChild => /\ f.l \in Nodes(p) /\ f.l \in Nodes(p)' /\ f.l \notin Open /\ f.l > f.idx
                             /\ p'.lo[f.l] = f.lo /\ p'.hi[f.l] = mid(f)
  <1>1. FrameInv(f) /\ f.idx \in Nodes(p)
    BY DEF TreeInv, StackInv, FrameInv
  <1>2. /\ Nodes(p)' = Nodes(p) \cup {idx}
        /\ \A n \in Nodes(p) : /\ p'.nodes[n] = p.nodes[n] /\ p'.boxes[n] = p.boxes[n]
                               /\ p'.lo[n] = p.lo[n] /\ p'.hi[n] = p.hi[n]
    BY AddNodeFacts
  <1>3. p'.lo[f.idx] = f.lo /\ p'.hi[f.idx] = f.hi
    BY <1>1, <1>2 DEF FrameInv
  <1>4. BoxOK(p', rows, f.idx)
    <2>1. Span(p', f.idx) = Span(p, f.idx) /\ p'.boxes[f.idx] = p.boxes[f.idx]
      BY <1>1, <1>2 DEF Span
    <2> QED
      BY <1>1, <2>1 DEF FrameInv, BoxOK
  <1> QED
    BY <1>1, <1>2, <1>3, <1>4 DEF FrameInv

LEMMA LeafStep == TreeInv /\ Leaf => TreeInv'
  <1> SUFFICES ASSUME TreeInv, Leaf PROVE TreeInv'
    OBVIOUS
  <1>1. /\ pc = "build" /\ IsLeaf(call.lo, call.hi, spread) /\ pc' = "return" /\ ret' = idx
        /\ AddNode(Node(leafMark, 0, call.lo, call.hi))
        /\ UNCHANGED <<perm, call, stack, sel>>
    BY DEF Leaf
  <1>2. PICK nd : nd = Node(leafMark, 0, call.lo, call.hi)
    OBVIOUS
  <1>3. /\ PartInv' /\ rows' = rows /\ p'.count = p.count
        /\ idx \in Nat /\ Nodes(p) = 0..(idx - 1) /\ Nodes(p)' = Nodes(p) \cup {idx}
        /\ idx \notin Nodes(p) /\ idx \in Nodes(p)' /\ idx' = idx + 1
        /\ p'.nodes[idx] = nd /\ p'.lo[idx] = call.lo /\ p'.hi[idx] = call.hi
        /\ p'.boxes[idx] = box
        /\ \A n \in Nodes(p) : /\ p'.nodes[n] = p.nodes[n] /\ p'.boxes[n] = p.boxes[n]
                               /\ p'.lo[n] = p.lo[n] /\ p'.hi[n] = p.hi[n]
    BY <1>1, <1>2, AddNodeFacts
  <1>4. /\ call.lo \in Nat /\ call.hi \in Nat /\ call.lo < call.hi /\ call.hi <= p.count
        /\ p.count \in Nat
        /\ \A d \in Dims : box.lo[d] \in Int /\ box.hi[d] \in Int
        /\ \A r \in call.lo..(call.hi - 1), d \in Dims :
             box.lo[d] <= rows[r][d] /\ rows[r][d] <= box.hi[d]
        /\ spread = 0 => \A r, s \in call.lo..(call.hi - 1) : rows[r] = rows[s]
    BY <1>1, CallFacts
  <1>5. Open' = Open /\ Depth' = Depth /\ Top' = Top /\ ~ Selecting /\ ~ Selecting'
    BY <1>1 DEF Open, Depth, Top, Selecting
  <1>6. Lo = call.lo /\ Hi = call.hi /\ Lo' = call.lo /\ Hi' = call.hi
    BY <1>1, <1>3 DEF Lo, Hi
  <1>7. ASSUME NEW j \in Depth PROVE FrameInv(stack[j])'
    BY <1>1, <1>2, <1>3, <1>5, OlderFrame DEF FrameInv
  <1>8. StackInv'
    <2>1. \A j \in Depth :
            Halves(rows, stack[j].lo, mid(stack[j]), stack[j].hi, stack[j].dim, stack[j].sv)
      BY <1>5 DEF TreeInv, StackInv
    <2> QED
      BY <1>1, <1>3, <1>5, <1>7, <2>1 DEF TreeInv, StackInv
  <1>9. \A j \in Depth : stack[j].idx \in Nodes(p) /\ stack[j].idx < idx
    <2>1. \A j \in Depth : stack[j].idx \in Nodes(p)
      BY DEF TreeInv, StackInv, FrameInv
    <2> QED
      BY <1>3, <2>1
  <1>10. CallInv'
    <2>1. idx \notin Open
      BY <1>3, <1>9 DEF Open
    <2>2. p'.lo[0] = 0 /\ p'.hi[0] = p.count
      <3>1. CASE idx = 0
        <4>1. Depth = {}
          BY <1>3, <1>9, <3>1
        <4>2. stack = <<>>
          BY <4>1 DEF Depth, TreeInv, StackInv
        <4> QED
          BY <1>3, <1>5, <1>6, <3>1, <4>2 DEF TreeInv, CallInv
      <3>2. CASE idx > 0
        <4>1. 0 \in Nodes(p) /\ p.lo[0] = 0 /\ p.hi[0] = p.count
          BY <1>3, <3>2 DEF TreeInv, CallInv
        <4> QED
          BY <1>3, <4>1
      <3> QED
        BY <1>3, <3>1, <3>2
    <2>3. /\ stack = <<>> => Lo = 0 /\ Hi = p.count
          /\ stack # <<>> => Lo = ChildLo(Top) /\ Hi = ChildHi(Top)
          /\ \A j \in Depth : ChildLo(stack[j]) <= Lo /\ Hi <= ChildHi(stack[j])
      BY <1>5 DEF TreeInv, CallInv
    <2>4. call \in [lo : Nat, hi : Nat]
      BY <1>1, CallFacts
    <2> QED
      BY <1>1, <1>3, <1>4, <1>5, <1>6, <1>9, <2>1, <2>2, <2>3, <2>4 DEF CallInv, ChildLo, ChildHi
  <1>11. NodesInv'
    <2> SUFFICES ASSUME NEW n \in Nodes(p)' \ Open
                 PROVE  Done(p', rows', n) /\ p'.hi[n] <= call.hi
      BY <1>1, <1>5, <1>6 DEF NodesInv, Edge
    <2>1. CASE n = idx
      <3>1. Span(p', n) = call.lo..(call.hi - 1)
        BY <1>3, <2>1 DEF Span
      <3>2. BoxOK(p', rows', n)
        BY <1>3, <1>4, <2>1, <3>1 DEF BoxOK
      <3>3. p'.hi[n] - p'.lo[n] <= leafSize \/ \A r, s \in Span(p', n) : rows'[r] = rows'[s]
        BY <1>1, <1>3, <1>4, <2>1, <3>1 DEF IsLeaf
      <3>4. p'.nodes[n].splitDim = leafMark /\ p'.nodes[n].left = call.lo
            /\ p'.nodes[n].right = call.hi
        BY <1>2, <1>3, <2>1 DEF Node
      <3> QED
        BY <1>3, <1>4, <2>1, <3>2, <3>3, <3>4 DEF Done
    <2>2. CASE n # idx
      <3>1. n \in Nodes(p) \ Open
        BY <1>3, <2>2
      <3>2. Done(p, rows, n) /\ p.hi[n] <= call.lo
        BY <1>1, <1>6, <3>1 DEF TreeInv, NodesInv, Edge
      <3>3. Done(p', rows, n)
        BY <1>3, <3>1, <3>2, DoneCopied
      <3>4. p.hi[n] \in Nat
        BY <3>2 DEF Done
      <3> QED
        BY <1>3, <1>4, <3>1, <3>2, <3>3, <3>4
    <2> QED
      BY <2>1, <2>2
  <1>12. SelInv'
    BY <1>1 DEF TreeInv, SelInv
  <1> QED
    BY <1>1, <1>3, <1>8, <1>10, <1>11, <1>12 DEF TreeInv, TreePcs

LEMMA InnerStep == TreeInv /\ Inner => TreeInv'
  <1> SUFFICES ASSUME TreeInv, Inner PROVE TreeInv'
    OBVIOUS
  <1>1. /\ pc = "build" /\ ~ IsLeaf(call.lo, call.hi, spread) /\ pc' = "select"
        /\ AddNode(Node(0, 0, 0, 0)) /\ stack' = Append(stack, Frame(idx, call.lo, call.hi, dim))
        /\ sel' = [lo |-> call.lo, hi |-> call.hi, pivot |-> 0, lt |-> 0, i |-> 0, gt |-> 0]
        /\ UNCHANGED <<perm, call, ret>>
    BY DEF Inner
  <1>2. PICK nd, f : nd = Node(0, 0, 0, 0) /\ f = Frame(idx, call.lo, call.hi, dim)
    OBVIOUS
  <1>3. /\ PartInv' /\ rows' = rows /\ p'.count = p.count
        /\ idx \in Nat /\ Nodes(p) = 0..(idx - 1) /\ Nodes(p)' = Nodes(p) \cup {idx}
        /\ idx \notin Nodes(p) /\ idx \in Nodes(p)' /\ idx' = idx + 1
        /\ p'.lo[idx] = call.lo /\ p'.hi[idx] = call.hi /\ p'.boxes[idx] = box
        /\ \A n \in Nodes(p) : /\ p'.nodes[n] = p.nodes[n] /\ p'.boxes[n] = p.boxes[n]
                               /\ p'.lo[n] = p.lo[n] /\ p'.hi[n] = p.hi[n]
    BY <1>1, <1>2, AddNodeFacts
  <1>4. /\ call.lo \in Nat /\ call.hi \in Nat /\ call.lo < call.hi /\ call.hi <= p.count
        /\ call \in [lo : Nat, hi : Nat] /\ p.count \in Nat /\ dim \in RawDims
        /\ \A d \in Dims : box.lo[d] \in Int /\ box.hi[d] \in Int
        /\ \A r \in call.lo..(call.hi - 1), d \in Dims :
             box.lo[d] <= rows[r][d] /\ rows[r][d] <= box.hi[d]
    BY <1>1, CallFacts
  <1>5. call.lo + 2 <= call.hi
    BY <1>1, <1>4, Scale DEF IsLeaf
  <1>6. /\ f \in Frames /\ f.idx = idx /\ f.lo = call.lo /\ f.hi = call.hi /\ f.dim = dim
        /\ f.l = NoChild
    BY <1>2, <1>3, <1>4 DEF Frame, Frames, NoChild
  <1>7. PICK k : k = Len(stack) /\ k \in Nat /\ Depth = 1..k
    BY DEF TreeInv, StackInv, Depth
  <1>8. /\ stack' \in Seq(Frames) /\ Len(stack') = k + 1 /\ stack'[k + 1] = f
        /\ \A j \in Depth : stack'[j] = stack[j]
    BY <1>1, <1>2, <1>6, <1>7 DEF TreeInv, StackInv, Depth
  <1>9. /\ Depth' = 1..(k + 1) /\ \A j \in Depth' : j \in Depth \/ j = k + 1
        /\ stack' # <<>> /\ Top' = f
    BY <1>7, <1>8 DEF Depth, Top
  <1>10. Open' = Open \cup {idx} /\ Selecting' /\ ~ Selecting
    <2>1. Open' = {stack'[j].idx : j \in 1..(k + 1)}
      BY <1>9 DEF Open
    <2>2. Open = {stack[j].idx : j \in 1..k}
      BY <1>7 DEF Open
    <2> QED
      BY <1>1, <1>6, <1>7, <1>8, <1>9, <2>1, <2>2 DEF Selecting
  <1>11. \A j \in Depth : stack[j].idx \in Nodes(p) /\ stack[j].idx < idx
    <2>1. \A j \in Depth : stack[j].idx \in Nodes(p)
      BY DEF TreeInv, StackInv, FrameInv
    <2> QED
      BY <1>3, <2>1
  <1>12. /\ stack = <<>> => call.lo = 0 /\ call.hi = p.count
         /\ stack # <<>> => call.lo = ChildLo(Top) /\ call.hi = ChildHi(Top)
         /\ \A j \in Depth : ChildLo(stack[j]) <= call.lo /\ call.hi <= ChildHi(stack[j])
    BY <1>1, <1>10 DEF TreeInv, CallInv, Lo, Hi
  <1>13. StackInv'
    <2>1. ASSUME NEW j \in Depth' PROVE FrameInv(stack[j])'
      <3>1. CASE j \in Depth
        <4>1. stack'[j] = stack[j]
          BY <1>8, <3>1
        <4> QED
          BY <1>1, <1>3, <1>10, <3>1, <4>1, OlderFrame, SMTT(20) DEF FrameInv
      <3>2. CASE j = k + 1
        <4>1. BoxOK(p', rows', idx)
          <5>1. Span(p', idx) = call.lo..(call.hi - 1)
            BY <1>3 DEF Span
          <5> QED
            BY <1>3, <1>4, <5>1 DEF BoxOK
        <4> QED
          BY <1>3, <1>4, <1>5, <1>6, <1>8, <3>2, <4>1 DEF FrameInv
      <3> QED
        BY <1>9, <3>1, <3>2
    <2>2. ASSUME NEW j \in Depth'
          PROVE  j < Len(stack') \/ ~ Selecting' =>
                   Halves(rows', stack'[j].lo, mid(stack'[j]), stack'[j].hi, stack'[j].dim,
                          stack'[j].sv)
      <3>1. CASE j \in Depth
        BY <1>3, <1>8, <1>10, <3>1 DEF TreeInv, StackInv
      <3>2. CASE j = k + 1
        BY <1>7, <1>8, <1>10, <3>2
      <3> QED
        BY <1>9, <3>1, <3>2
    <2>3. ASSUME NEW j \in Depth', NEW m \in Depth', j < m
          PROVE  /\ stack'[j].idx < stack'[m].idx
                 /\ ChildLo(stack'[j]) <= stack'[m].lo /\ stack'[m].hi <= ChildHi(stack'[j])
                 /\ m = j + 1 => stack'[m].lo = ChildLo(stack'[j]) /\ stack'[m].hi = ChildHi(stack'[j])
      <3>1. j \in Depth /\ stack'[j] = stack[j]
        BY <1>7, <1>8, <1>9, <2>3
      <3>2. CASE m \in Depth
        BY <1>8, <2>3, <3>1, <3>2 DEF TreeInv, StackInv
      <3>3. CASE m = k + 1
        <4>1. m = j + 1 => Top = stack[j] /\ stack # <<>>
          BY <1>7, <3>1, <3>3 DEF Top
        <4> QED
          BY <1>6, <1>8, <1>11, <1>12, <3>1, <3>3, <4>1
      <3> QED
        BY <1>9, <3>2, <3>3
    <2>4. stack'[1].lo = 0 /\ stack'[1].hi = p'.count
      <3>1. CASE k = 0
        <4>1. stack = <<>>
          <5>1. stack \in Seq(Frames) /\ Len(stack) = 0
            BY <1>7, <3>1 DEF TreeInv, StackInv
          <5> QED
            BY <5>1
        <4> QED
          BY <1>3, <1>6, <1>8, <1>12, <3>1, <4>1
      <3>2. CASE k # 0
        <4>1. 1 \in Depth /\ stack # <<>>
          BY <1>7, <3>2
        <4> QED
          BY <1>3, <1>8, <4>1 DEF TreeInv, StackInv
      <3> QED
        BY <3>1, <3>2
    <2> QED
      BY <1>8, <2>1, <2>2, <2>3, <2>4 DEF StackInv, ChildLo, ChildHi
  <1>14. CallInv'
    <2>1. Lo' = call.lo /\ Hi' = call.hi
      BY <1>1 DEF Lo, Hi
    <2>2. p'.lo[0] = 0 /\ p'.hi[0] = p.count
      <3>1. CASE idx = 0
        <4>1. stack = <<>>
          <5>1. Depth = {}
            BY <1>3, <1>11, <3>1
          <5> QED
            BY <5>1 DEF Depth, TreeInv, StackInv
        <4> QED
          BY <1>3, <1>12, <3>1, <4>1
      <3>2. CASE idx > 0
        <4>1. 0 \in Nodes(p) /\ p.lo[0] = 0 /\ p.hi[0] = p.count
          BY <1>3, <3>2 DEF TreeInv, CallInv
        <4> QED
          BY <1>3, <4>1
      <3> QED
        BY <1>3, <3>1, <3>2
    <2>3. ret' \in Nat
      BY <1>1 DEF TreeInv, CallInv
    <2> QED
      BY <1>1, <1>3, <1>4, <1>6, <1>9, <1>10, <2>1, <2>2, <2>3 DEF CallInv
  <1>15. NodesInv'
    <2> SUFFICES ASSUME NEW n \in Nodes(p) \ Open
                 PROVE  Done(p', rows', n) /\ p'.hi[n] <= call.lo
      BY <1>1, <1>3, <1>10 DEF NodesInv, Edge, Lo
    <2>1. Done(p, rows, n) /\ p.hi[n] <= call.lo
      BY <1>1 DEF TreeInv, NodesInv, Edge, Lo
    <2>2. Done(p', rows, n)
      BY <1>3, <2>1, DoneCopied
    <2> QED
      BY <1>3, <2>1, <2>2
  <1>16. SelInv'
    <2>1. /\ sel' \in [lo : Nat, hi : Nat, pivot : Int, lt : Nat, i : Nat, gt : Nat]
          /\ sel'.lo = call.lo /\ sel'.hi = call.hi
      BY <1>1, <1>4
    <2>2. /\ call.lo <= mid(f) /\ mid(f) < call.hi
      BY <1>4, <1>5, <1>6, MidFacts DEF mid
    <2>3. Cut(rows', f.lo, call.lo, f.hi, f.dim) /\ Cut(rows', f.lo, call.hi, f.hi, f.dim)
      BY <1>4, <1>6 DEF Cut
    <2> QED
      BY <1>1, <1>4, <1>6, <1>9, <2>1, <2>2, <2>3 DEF SelInv
  <1> QED
    BY <1>1, <1>3, <1>13, <1>14, <1>15, <1>16 DEF TreeInv, TreePcs

(* quickselect has put the median row where it belongs. *)
LEMMA Selected ==
  ASSUME TreeInv, pc = "selected" \/ (pc = "select" /\ sel.hi - sel.lo <= 1), NEW f, f = Top
  PROVE  Halves(rows, f.lo, mid(f), f.hi, f.dim, rows[mid(f)][f.dim])
  <1>1. CASE pc = "selected"
    BY <1>1 DEF TreeInv, SelInv
  <1>2. CASE pc = "select" /\ sel.hi - sel.lo <= 1
    <2>1. PICK m : m = mid(f)
      OBVIOUS
    <2>2. /\ f.lo \in Nat /\ f.hi \in Nat /\ m \in Nat /\ f.lo < m /\ m < f.hi
          /\ sel.lo \in Nat /\ sel.hi \in Nat
          /\ \A r \in f.lo..(f.hi - 1) : rows[r][f.dim] \in Int
      BY <1>2, <2>1, SelFacts DEF Selecting
    <2>3. /\ sel.lo <= m /\ m < sel.hi
          /\ Cut(rows, f.lo, sel.lo, f.hi, f.dim) /\ Cut(rows, f.lo, sel.hi, f.hi, f.dim)
      BY <1>2, <2>1 DEF TreeInv, SelInv
    <2>4. sel.lo = m /\ sel.hi = m + 1
      BY <1>2, <2>2, <2>3
    <2>5. ASSUME NEW r \in f.lo..(m - 1) PROVE rows[r][f.dim] <= rows[m][f.dim]
      BY <2>2, <2>3, <2>4 DEF Cut
    <2>6. ASSUME NEW r \in m..(f.hi - 1) PROVE rows[r][f.dim] >= rows[m][f.dim]
      <3>1. r \in f.lo..(f.hi - 1) /\ m \in f.lo..(f.hi - 1)
        BY <2>2
      <3>2. CASE r = m
        BY <2>2, <3>1, <3>2
      <3>3. CASE r # m
        <4>1. m \in f.lo..((m + 1) - 1) /\ r \in (m + 1)..(f.hi - 1)
          BY <2>2, <3>3
        <4>2. rows[m][f.dim] <= rows[r][f.dim]
          BY <2>3, <2>4, <4>1 DEF Cut
        <4> QED
          BY <2>2, <3>1, <4>2
      <3> QED
        BY <3>2, <3>3
    <2> QED
      BY <2>1, <2>5, <2>6 DEF Halves
  <1> QED
    BY <1>1, <1>2

(* A change of the frame on top that leaves its rows and its node alone. *)
LEMMA TopChanged ==
  ASSUME stack \in Seq(Frames), stack # <<>>, NEW g \in Frames,
         stack' = [stack EXCEPT ![Len(stack)] = g]
  PROVE  /\ stack' \in Seq(Frames) /\ Len(stack') = Len(stack) /\ Depth' = Depth
         /\ stack' # <<>> /\ Top' = g
         /\ \A j \in Depth : stack'[j] = IF j = Len(stack) THEN g ELSE stack[j]
  <1>1. PICK k : k = Len(stack) /\ k \in Nat /\ k \in 1..k /\ DOMAIN stack = 1..k
    OBVIOUS
  <1>2. /\ stack' \in Seq(Frames) /\ Len(stack') = k
        /\ \A j \in 1..k : stack'[j] = IF j = k THEN g ELSE stack[j]
    BY <1>1
  <1> QED
    BY <1>1, <1>2 DEF Depth, Top

LEMMA BuildLeftStep == TreeInv /\ BuildLeft => TreeInv'
  <1> SUFFICES ASSUME TreeInv, BuildLeft PROVE TreeInv'
    OBVIOUS
  <1>1. PICK f : f = Top
    OBVIOUS
  <1>2. /\ pc = "selected" \/ (pc = "select" /\ sel.hi - sel.lo <= 1)
        /\ stack' = [stack EXCEPT ![Len(stack)].sv = p.vec[perm[mid(f)]][f.dim]]
        /\ call' = [lo |-> f.lo, hi |-> mid(f)] /\ pc' = "build"
        /\ UNCHANGED <<p, perm, ret, sel>>
    BY <1>1 DEF BuildLeft
  <1>3. Selecting /\ ~ Selecting'
    BY <1>2 DEF Selecting
  <1>4. /\ stack # <<>> /\ f = stack[Len(stack)] /\ Len(stack) \in Depth /\ Len(stack) \in Nat
        /\ f \in Frames /\ f.lo \in Nat /\ f.hi \in Nat /\ f.dim \in Dims /\ f.hi <= p.count
        /\ mid(f) \in Nat /\ f.lo < mid(f) /\ mid(f) < f.hi /\ p.count \in Nat
        /\ call.lo = f.lo /\ call.hi = f.hi /\ f.l = NoChild
        /\ \A r \in f.lo..(f.hi - 1) : /\ rows[r][f.dim] \in Int
                                       /\ p.vec[perm[r]][f.dim] = rows[r][f.dim]
    BY <1>1, <1>3, SelFacts
  <1>5. PICK x \in Int : x = rows[mid(f)][f.dim] /\ x = p.vec[perm[mid(f)]][f.dim]
    <2>1. mid(f) \in f.lo..(f.hi - 1)
      BY <1>4
    <2> QED
      BY <1>4, <2>1
  <1>6. PICK g : g = [f EXCEPT !.sv = x]
    OBVIOUS
  <1>7. /\ g \in Frames /\ g.idx = f.idx /\ g.lo = f.lo /\ g.hi = f.hi /\ g.dim = f.dim
        /\ g.l = f.l /\ g.sv = x /\ mid(g) = mid(f)
    BY <1>4, <1>6 DEF Frames, mid
  <1>8. stack \in Seq(Frames) /\ stack' = [stack EXCEPT ![Len(stack)] = g]
    BY <1>2, <1>4, <1>5, <1>6 DEF TreeInv, StackInv
  <1>9. /\ stack' \in Seq(Frames) /\ Len(stack') = Len(stack) /\ Depth' = Depth
        /\ stack' # <<>> /\ Top' = g
        /\ \A j \in Depth : stack'[j] = IF j = Len(stack) THEN g ELSE stack[j]
    BY <1>4, <1>7, <1>8, TopChanged
  <1>10. \A j \in Depth : /\ stack'[j].idx = stack[j].idx /\ stack'[j].lo = stack[j].lo
                          /\ stack'[j].hi = stack[j].hi /\ stack'[j].dim = stack[j].dim
                          /\ stack'[j].l = stack[j].l /\ mid(stack'[j]) = mid(stack[j])
                          /\ ChildLo(stack'[j]) = ChildLo(stack[j])
                          /\ ChildHi(stack'[j]) = ChildHi(stack[j])
    BY <1>4, <1>7, <1>9 DEF ChildLo, ChildHi
  <1>11. Open' = Open /\ rows' = rows /\ idx' = idx
    <2>1. Open' = {stack'[j].idx : j \in Depth}
      BY <1>9 DEF Open
    <2>2. Open' = Open
      BY <1>10, <2>1 DEF Open
    <2>3. p' = p /\ perm' = perm
      BY <1>2
    <2> QED
      BY <2>2, <2>3 DEF rows, idx
  <1>12. PartInv'
    BY <1>2, <1>11 DEF TreeInv, PartInv
  <1>13. StackInv'
    <2>1. \A j \in Depth : FrameInv(stack[j])'
      BY <1>2, <1>10, <1>11 DEF TreeInv, StackInv, FrameInv
    <2>2. ASSUME NEW j \in Depth
          PROVE  Halves(rows, stack'[j].lo, mid(stack'[j]), stack'[j].hi, stack'[j].dim, stack'[j].sv)
      <3>1. CASE j = Len(stack)
        <4>1. Halves(rows, f.lo, mid(f), f.hi, f.dim, x)
          BY <1>1, <1>2, <1>5, Selected
        <4> QED
          BY <1>7, <1>9, <3>1, <4>1
      <3>2. CASE j # Len(stack)
        <4>1. j < Len(stack)
          BY <1>4, <3>2 DEF Depth
        <4> QED
          BY <1>9, <3>2, <4>1 DEF TreeInv, StackInv
      <3> QED
        BY <3>1, <3>2
    <2>3. \A j, k \in Depth : j < k =>
            /\ stack'[j].idx < stack'[k].idx
            /\ ChildLo(stack'[j]) <= stack'[k].lo /\ stack'[k].hi <= ChildHi(stack'[j])
            /\ k = j + 1 => stack'[k].lo = ChildLo(stack'[j]) /\ stack'[k].hi = ChildHi(stack'[j])
      BY <1>10 DEF TreeInv, StackInv
    <2>4. stack'[1].lo = 0 /\ stack'[1].hi = p'.count
      <3>1. 1 \in Depth
        BY <1>4 DEF Depth
      <3> QED
        BY <1>2, <1>4, <1>10, <3>1 DEF TreeInv, StackInv
    <2> QED
      BY <1>9, <1>11, <2>1, <2>2, <2>3, <2>4 DEF StackInv, ChildLo, ChildHi
  <1>14. CallInv'
    <2>1. Lo' = f.lo /\ Hi' = mid(f) /\ call' \in [lo : Nat, hi : Nat]
      BY <1>2, <1>4 DEF Lo, Hi
    <2>2. ChildLo(g) = f.lo /\ ChildHi(g) = mid(f)
      BY <1>4, <1>7 DEF ChildLo, ChildHi
    <2>3. ASSUME NEW j \in Depth PROVE ChildLo(stack'[j]) <= f.lo /\ mid(f) <= ChildHi(stack'[j])
      <3>1. CASE j = Len(stack)
        BY <1>4, <1>9, <2>2, <3>1
      <3>2. CASE j # Len(stack)
        <4>1. j < Len(stack)
          BY <1>4, <3>2 DEF Depth
        <4>2. ChildLo(stack[j]) <= f.lo /\ f.hi <= ChildHi(stack[j])
          BY <1>4, <4>1 DEF TreeInv, StackInv
        <4>3. ChildHi(stack[j]) \in Nat
          BY FrameFacts DEF TreeInv
        <4> QED
          BY <1>4, <1>10, <4>2, <4>3
      <3> QED
        BY <3>1, <3>2
    <2>4. ret' \in Nat /\ (idx > 0 => p.lo[0] = 0 /\ p.hi[0] = p.count)
      BY <1>2 DEF TreeInv, CallInv
    <2>5. Lo' = ChildLo(Top)' /\ Hi' = ChildHi(Top)'
      BY <1>9, <2>1, <2>2 DEF ChildLo, ChildHi
    <2>6. \A j \in Depth' : ChildLo(stack[j])' <= Lo' /\ Hi' <= ChildHi(stack[j])'
      BY <1>9, <2>1, <2>3 DEF ChildLo, ChildHi
    <2>7. Lo' \in Nat /\ Hi' \in Nat /\ Lo' < Hi' /\ Hi' <= p'.count
      BY <1>2, <1>4, <2>1
    <2> HIDE DEF Lo, Hi
    <2> QED
      BY <1>2, <1>3, <1>9, <1>11, <2>1, <2>4, <2>5, <2>6, <2>7 DEF CallInv
  <1>15. NodesInv'
    <2>1. Edge = f.lo /\ Edge' = f.lo
      BY <1>2, <1>3, <1>4 DEF Edge, Lo, Selecting
    <2> QED
      BY <1>2, <1>11, <2>1 DEF TreeInv, NodesInv
  <1>16. SelInv'
    BY <1>2 DEF TreeInv, SelInv
  <1> QED
    BY <1>2, <1>12, <1>13, <1>14, <1>15, <1>16 DEF TreeInv, TreePcs

(* build has returned: the node it made, and the frame that waits for it. *)
LEMMA ReturnFacts ==
  ASSUME TreeInv, pc = "return", stack # <<>>, NEW f, f = Top
  PROVE  /\ f = stack[Len(stack)] /\ Len(stack) \in Depth /\ Len(stack) \in Nat
         /\ f \in Frames /\ f.lo \in Nat /\ f.hi \in Nat /\ f.hi <= p.count /\ f.idx \in Nat
         /\ mid(f) \in Nat /\ f.lo < mid(f) /\ mid(f) < f.hi /\ p.count \in Nat
         /\ ret \in Nat /\ ret \in Nodes(p) /\ ret \notin Open /\ f.idx < ret
         /\ p.lo[ret] = ChildLo(f) /\ p.hi[ret] = ChildHi(f)
         /\ FrameInv(f)
         /\ Halves(rows, f.lo, mid(f), f.hi, f.dim, f.sv)
         /\ stack \in Seq(Frames) /\ ~ Selecting
  <1>1. ~ Selecting /\ f = stack[Len(stack)] /\ Len(stack) \in Depth /\ Len(stack) \in Nat
    BY TopFacts DEF TreeInv, Selecting
  <1>2. /\ f \in Frames /\ f.lo \in Nat /\ f.hi \in Nat /\ f.hi <= p.count /\ f.idx \in Nat
        /\ mid(f) \in Nat /\ f.lo < mid(f) /\ mid(f) < f.hi /\ p.count \in Nat
    BY <1>1, FrameFacts DEF TreeInv, PartInv
  <1>3. /\ ret \in Nat /\ ret \in Nodes(p) /\ ret \notin Open /\ f.idx < ret
        /\ p.lo[ret] = ChildLo(f) /\ p.hi[ret] = ChildHi(f)
    BY <1>1 DEF TreeInv, CallInv, Lo, Hi
  <1>4. /\ stack \in Seq(Frames) /\ FrameInv(f)
        /\ Halves(rows, f.lo, mid(f), f.hi, f.dim, f.sv)
    BY <1>1 DEF TreeInv, StackInv
  <1> QED
    BY <1>1, <1>2, <1>3, <1>4

LEMMA BuildRightStep == TreeInv /\ BuildRight => TreeInv'
  <1> SUFFICES ASSUME TreeInv, BuildRight PROVE TreeInv'
    OBVIOUS
  <1>1. PICK f : f = Top
    OBVIOUS
  <1>2. /\ pc = "return" /\ stack # <<>> /\ f.l = NoChild
        /\ stack' = [stack EXCEPT ![Len(stack)].l = ret]
        /\ call' = [lo |-> mid(f), hi |-> f.hi] /\ pc' = "build"
        /\ UNCHANGED <<p, perm, ret, sel>>
    BY <1>1 DEF BuildRight
  <1>3. ~ Selecting /\ ~ Selecting'
    BY <1>2 DEF Selecting
  <1>4. /\ f = stack[Len(stack)] /\ Len(stack) \in Depth /\ Len(stack) \in Nat
        /\ f \in Frames /\ f.lo \in Nat /\ f.hi \in Nat /\ f.hi <= p.count /\ f.idx \in Nat
        /\ mid(f) \in Nat /\ f.lo < mid(f) /\ mid(f) < f.hi /\ p.count \in Nat
        /\ ret \in Nat /\ ret \in Nodes(p) /\ ret \notin Open /\ f.idx < ret
        /\ p.lo[ret] = ChildLo(f) /\ p.hi[ret] = ChildHi(f) /\ FrameInv(f)
        /\ stack \in Seq(Frames)
    BY <1>1, <1>2, ReturnFacts
  <1>5. PICK g : g = [f EXCEPT !.l = ret]
    OBVIOUS
  <1>6. /\ g \in Frames /\ g.idx = f.idx /\ g.lo = f.lo /\ g.hi = f.hi /\ g.dim = f.dim
        /\ g.l = ret /\ g.sv = f.sv /\ mid(g) = mid(f)
    BY <1>4, <1>5 DEF Frames, mid
  <1>7. stack' = [stack EXCEPT ![Len(stack)] = g]
    BY <1>2, <1>4, <1>5
  <1>8. /\ stack' \in Seq(Frames) /\ Len(stack') = Len(stack) /\ Depth' = Depth
        /\ stack' # <<>> /\ Top' = g
        /\ \A j \in Depth : stack'[j] = IF j = Len(stack) THEN g ELSE stack[j]
    BY <1>2, <1>4, <1>6, <1>7, TopChanged
  <1>9. \A j \in Depth : /\ stack'[j].idx = stack[j].idx /\ stack'[j].lo = stack[j].lo
                         /\ stack'[j].hi = stack[j].hi /\ stack'[j].dim = stack[j].dim
                         /\ stack'[j].sv = stack[j].sv /\ mid(stack'[j]) = mid(stack[j])
    BY <1>4, <1>6, <1>8
  <1>10. Open' = Open /\ rows' = rows /\ idx' = idx
    BY <1>2, <1>8, <1>9 DEF Open, rows, idx
  <1>11. PartInv'
    BY <1>2, <1>10 DEF TreeInv, PartInv
  <1>12. ret # NoChild
    BY <1>4 DEF NoChild
  <1>13. StackInv'
    <2>1. ASSUME NEW j \in Depth PROVE FrameInv(stack[j])'
      <3>1. CASE j = Len(stack)
        <4>1. ChildLo(f) = f.lo /\ ChildHi(f) = mid(f)
          BY <1>2 DEF ChildLo, ChildHi
        <4> QED
          BY <1>2, <1>4, <1>6, <1>8, <1>10, <3>1, <4>1, SMTT(20) DEF FrameInv
      <3>2. CASE j # Len(stack)
        BY <1>2, <1>8, <1>10, <3>2 DEF TreeInv, StackInv, FrameInv
      <3> QED
        BY <3>1, <3>2
    <2>2. \A j \in Depth :
            Halves(rows, stack'[j].lo, mid(stack'[j]), stack'[j].hi, stack'[j].dim, stack'[j].sv)
      BY <1>3, <1>9 DEF TreeInv, StackInv
    <2>3. ASSUME NEW j \in Depth, NEW k \in Depth, j < k
          PROVE  /\ stack'[j].idx < stack'[k].idx
                 /\ ChildLo(stack'[j]) <= stack'[k].lo /\ stack'[k].hi <= ChildHi(stack'[j])
                 /\ k = j + 1 => stack'[k].lo = ChildLo(stack'[j]) /\ stack'[k].hi = ChildHi(stack'[j])
      <3>1. stack'[j] = stack[j]
        BY <1>4, <1>8, <2>3 DEF Depth
      <3> QED
        BY <1>9, <2>3, <3>1 DEF TreeInv, StackInv
    <2>4. stack'[1].lo = 0 /\ stack'[1].hi = p'.count
      <3>1. 1 \in Depth
        BY <1>4 DEF Depth
      <3> QED
        BY <1>2, <1>9, <3>1 DEF TreeInv, StackInv
    <2> QED
      BY <1>8, <1>10, <2>1, <2>2, <2>3, <2>4 DEF StackInv, ChildLo, ChildHi
  <1>14. CallInv'
    <2>1. Lo' = mid(f) /\ Hi' = f.hi /\ call' \in [lo : Nat, hi : Nat]
      BY <1>2, <1>4 DEF Lo, Hi
    <2>2. ChildLo(g) = mid(f) /\ ChildHi(g) = f.hi
      BY <1>6, <1>12 DEF ChildLo, ChildHi
    <2>3. ASSUME NEW j \in Depth PROVE ChildLo(stack'[j]) <= mid(f) /\ f.hi <= ChildHi(stack'[j])
      <3>1. CASE j = Len(stack)
        BY <1>4, <1>8, <2>2, <3>1
      <3>2. CASE j # Len(stack)
        <4>1. j < Len(stack)
          BY <1>4, <3>2 DEF Depth
        <4>2. ChildLo(stack[j]) <= f.lo /\ f.hi <= ChildHi(stack[j])
          BY <1>4, <4>1 DEF TreeInv, StackInv
        <4>3. ChildLo(stack[j]) \in Nat
          BY FrameFacts DEF TreeInv
        <4> QED
          BY <1>4, <1>8, <3>2, <4>2, <4>3
      <3> QED
        BY <3>1, <3>2
    <2>4. ret' \in Nat /\ (idx > 0 => p.lo[0] = 0 /\ p.hi[0] = p.count)
      BY <1>2 DEF TreeInv, CallInv
    <2>5. Lo' = ChildLo(Top)' /\ Hi' = ChildHi(Top)'
      BY <1>8, <2>1, <2>2 DEF ChildLo, ChildHi
    <2>6. \A j \in Depth' : ChildLo(stack[j])' <= Lo' /\ Hi' <= ChildHi(stack[j])'
      BY <1>8, <2>1, <2>3 DEF ChildLo, ChildHi
    <2>7. Lo' \in Nat /\ Hi' \in Nat /\ Lo' < Hi' /\ Hi' <= p'.count
      BY <1>2, <1>4, <2>1
    <2> HIDE DEF Lo, Hi
    <2> QED
      BY <1>2, <1>3, <1>8, <1>10, <2>1, <2>4, <2>5, <2>6, <2>7 DEF CallInv
  <1>15. NodesInv'
    <2>1. Edge = mid(f) /\ Edge' = mid(f)
      BY <1>2, <1>4 DEF Edge, Lo, Hi, ChildHi
    <2> QED
      BY <1>2, <1>10, <2>1 DEF TreeInv, NodesInv
  <1>16. SelInv'
    BY <1>2 DEF TreeInv, SelInv
  <1> QED
    BY <1>2, <1>11, <1>13, <1>14, <1>15, <1>16 DEF TreeInv, TreePcs

LEMMA ReturnStep == TreeInv /\ Return => TreeInv'
  <1> SUFFICES ASSUME TreeInv, Return PROVE TreeInv'
    OBVIOUS
  <1>1. PICK f, nd : f = Top /\ nd = Node(f.dim, f.sv, f.l, ret)
    OBVIOUS
  <1>2. /\ pc = "return" /\ stack # <<>> /\ f.l # NoChild
        /\ p' = [p EXCEPT !.nodes = [p.nodes EXCEPT ![f.idx] = nd]] /\ ret' = f.idx
        /\ stack' = SubSeq(stack, 1, Len(stack) - 1)
        /\ UNCHANGED <<pc, perm, call, sel>>
    BY <1>1 DEF Return
  <1>3. /\ f = stack[Len(stack)] /\ Len(stack) \in Depth /\ Len(stack) \in Nat
        /\ f \in Frames /\ f.lo \in Nat /\ f.hi \in Nat /\ f.hi <= p.count /\ f.idx \in Nat
        /\ mid(f) \in Nat /\ f.lo < mid(f) /\ mid(f) < f.hi /\ p.count \in Nat
        /\ ret \in Nat /\ ret \in Nodes(p) /\ ret \notin Open /\ f.idx < ret
        /\ p.lo[ret] = ChildLo(f) /\ p.hi[ret] = ChildHi(f) /\ FrameInv(f)
        /\ Halves(rows, f.lo, mid(f), f.hi, f.dim, f.sv)
        /\ stack \in Seq(Frames) /\ ~ Selecting
    BY <1>1, <1>2, ReturnFacts
  <1>4. PICK k : k = Len(stack) /\ k \in Nat /\ k > 0 /\ Depth = 1..k
    BY <1>3 DEF Depth
  <1>5. /\ stack' \in Seq(Frames) /\ Len(stack') = k - 1
        /\ \A j \in 1..(k - 1) : stack'[j] = stack[j]
    BY <1>2, <1>3, <1>4
  <1>6. /\ Depth' = 1..(k - 1) /\ Depth' \subseteq Depth /\ \A j \in Depth : j \in Depth' \/ j = k
        /\ ~ Selecting'
    BY <1>2, <1>3, <1>4, <1>5 DEF Depth, Selecting
  <1>7. \A j \in 1..(k - 1) : stack[j].idx < f.idx
    BY <1>3, <1>4 DEF TreeInv, StackInv
  <1>8. Open = Open' \cup {f.idx} /\ f.idx \notin Open'
    <2>1. Open = {stack[j].idx : j \in 1..k} /\ Open' = {stack'[j].idx : j \in 1..(k - 1)}
      BY <1>4, <1>6 DEF Open
    <2>2. \A j \in 1..k : j \in 1..(k - 1) \/ j = k
      BY <1>4
    <2>3. \A j \in 1..(k - 1) : j \in 1..k /\ stack'[j].idx = stack[j].idx /\ stack[j].idx # f.idx
      BY <1>3, <1>4, <1>5, <1>7, SMTT(20)
    <2>4. k \in 1..k /\ stack[k].idx = f.idx
      BY <1>3, <1>4
    <2>5. f.idx \notin Open'
      BY <2>1, <2>3
    <2>6. Open' \subseteq Open /\ f.idx \in Open
      BY <2>1, <2>3, <2>4
    <2>7. ASSUME NEW x \in Open, x # f.idx PROVE x \in Open'
      BY <2>1, <2>2, <2>3, <2>4, <2>7
    <2> QED
      BY <2>5, <2>6, <2>7
  <1>9. IsPart(p) /\ Nodes(p) = 0..(idx - 1) /\ idx \in Nat /\ f.idx \in Nodes(p) /\ DOMAIN p.nodes = Nodes(p)
    BY <1>3 DEF TreeInv, PartInv, FrameInv, Nodes
  <1>10. /\ p'.nodes = [p.nodes EXCEPT ![f.idx] = nd] /\ p'.count = p.count /\ p'.vec = p.vec
         /\ p'.boxes = p.boxes /\ p'.lo = p.lo /\ p'.hi = p.hi /\ IsPart(p')
    BY <1>2, <1>9 DEF IsPart
  <1>11. /\ Nodes(p)' = Nodes(p) /\ p'.nodes[f.idx] = nd /\ idx' = idx /\ rows' = rows
         /\ \A n \in Nodes(p) : n # f.idx => p'.nodes[n] = p.nodes[n]
    <2>1. DOMAIN p'.nodes = DOMAIN p.nodes
      BY <1>10
    <2>2. rows' = rows
      BY <1>2, <1>10 DEF rows, Rows
    <2> QED
      BY <1>9, <1>10, <2>1, <2>2 DEF Nodes, idx
  <1>12. PartInv'
    BY <1>2, <1>10, <1>11, SMTT(20) DEF TreeInv, PartInv, Rows
  <1>13. StackInv'
    <2>1. ASSUME NEW j \in Depth' PROVE FrameInv(stack[j])'
      <3>1. j \in Depth /\ stack'[j] = stack[j] /\ FrameInv(stack[j])
        BY <1>5, <1>6 DEF TreeInv, StackInv
      <3>2. BoxOK(p', rows', stack[j].idx)
        BY <1>10, <1>11, <3>1 DEF FrameInv, BoxOK, Span
      <3> QED
        BY <1>8, <1>10, <1>11, <3>1, <3>2 DEF FrameInv
    <2>2. \A j \in Depth' :
            Halves(rows, stack'[j].lo, mid(stack'[j]), stack'[j].hi, stack'[j].dim, stack'[j].sv)
      BY <1>3, <1>5, <1>6 DEF TreeInv, StackInv
    <2>3. \A j, m \in Depth' : j < m =>
            /\ stack'[j].idx < stack'[m].idx
            /\ ChildLo(stack'[j]) <= stack'[m].lo /\ stack'[m].hi <= ChildHi(stack'[j])
            /\ m = j + 1 => stack'[m].lo = ChildLo(stack'[j]) /\ stack'[m].hi = ChildHi(stack'[j])
      BY <1>5, <1>6 DEF TreeInv, StackInv
    <2>4. stack' # <<>> => stack'[1].lo = 0 /\ stack'[1].hi = p'.count
      <3>1. stack[1].lo = 0 /\ stack[1].hi = p.count
        BY <1>2 DEF TreeInv, StackInv
      <3>2. stack' # <<>> => 1 \in 1..(k - 1)
        BY <1>5
      <3> QED
        BY <1>5, <1>10, <3>1, <3>2
    <2> QED
      BY <1>5, <1>11, <2>1, <2>2, <2>3, <2>4 DEF StackInv, ChildLo, ChildHi
  <1>14. p.lo[f.idx] = f.lo /\ p.hi[f.idx] = f.hi
    BY <1>3 DEF FrameInv
  <1>15. CallInv'
    <2>1. Lo' = f.lo /\ Hi' = f.hi /\ call' \in [lo : Nat, hi : Nat] /\ ret' \in Nat
      BY <1>2, <1>3, <1>10, <1>14 DEF Lo, Hi, TreeInv, CallInv
    <2>2. stack' = <<>> => f.lo = 0 /\ f.hi = p.count
      <3>1. ASSUME stack' = <<>> PROVE k = 1
        <4>1. Len(stack') = 0
          BY <3>1
        <4>2. k - 1 = 0
          BY <1>5, <4>1
        <4>3. k \in Nat
          BY <1>4
        <4> QED
          BY ONLY <4>2, <4>3
      <3> QED
        BY <1>2, <1>3, <1>4, <3>1 DEF TreeInv, StackInv
    <2>3. stack' # <<>> => f.lo = ChildLo(Top') /\ f.hi = ChildHi(Top')
      <3>1. ASSUME stack' # <<>> PROVE k - 1 \in Depth /\ k = (k - 1) + 1 /\ Top' = stack[k - 1]
        BY <1>4, <1>5, <3>1 DEF Top
      <3> QED
        BY <1>3, <1>4, <3>1 DEF TreeInv, StackInv
    <2>4. \A j \in Depth' : ChildLo(stack'[j]) <= f.lo /\ f.hi <= ChildHi(stack'[j])
      <3>1. \A j \in 1..(k - 1) : j \in Depth /\ j < k /\ k \in Depth
        BY <1>4
      <3>2. \A j \in 1..(k - 1) : ChildLo(stack[j]) <= f.lo /\ f.hi <= ChildHi(stack[j])
        BY <1>3, <1>4, <3>1 DEF TreeInv, StackInv
      <3> QED
        BY <1>5, <1>6, <3>2
    <2>5. \A j \in Depth' : stack'[j].idx < f.idx
      BY <1>5, <1>6, <1>7
    <2>6. idx > 0 => p.lo[0] = 0 /\ p.hi[0] = p.count
      BY DEF TreeInv, CallInv
    <2>7. /\ stack' # <<>> => Lo' = ChildLo(Top)' /\ Hi' = ChildHi(Top)'
          /\ \A j \in Depth' : ChildLo(stack[j])' <= Lo' /\ Hi' <= ChildHi(stack[j])'
      BY <2>1, <2>3, <2>4 DEF ChildLo, ChildHi
    <2>8. Lo' \in Nat /\ Hi' \in Nat /\ Lo' < Hi' /\ Hi' <= p'.count
      BY <1>3, <1>10, <2>1
    <2>9. ret' \in Nodes(p)' \ Open' /\ \A j \in Depth' : stack[j]'.idx < ret'
      BY <1>2, <1>8, <1>9, <1>11, <2>5
    <2>10. idx' > 0 => p'.lo[0] = 0 /\ p'.hi[0] = p'.count
      BY <1>10, <1>11, <2>6
    <2>11. stack' = <<>> => Lo' = 0 /\ Hi' = p'.count
      BY <1>10, <2>1, <2>2
    <2> HIDE DEF Lo, Hi
    <2> QED
      BY <1>2, <1>6, <2>1, <2>7, <2>8, <2>9, <2>10, <2>11 DEF CallInv
  <1>16. NodesInv'
    <2>1. ChildLo(f) = mid(f) /\ ChildHi(f) = f.hi
      BY <1>2 DEF ChildLo, ChildHi
    <2>2. Edge = f.hi /\ Edge' = f.hi
      BY <1>2, <1>3, <1>10, <1>14, <2>1 DEF Edge, Hi
    <2> SUFFICES ASSUME NEW n \in Nodes(p) \ Open'
                 PROVE  Done(p', rows, n) /\ p.hi[n] <= f.hi
      BY <1>10, <1>11, <2>2 DEF NodesInv
    <2>3. CASE n = f.idx
      <3>1. /\ f.l \in Nodes(p) /\ f.l > f.idx /\ p.lo[f.l] = f.lo /\ p.hi[f.l] = mid(f)
            /\ BoxOK(p, rows, f.idx) /\ f.lo + 2 <= f.hi
        BY <1>2, <1>3 DEF FrameInv
      <3>2. BoxOK(p', rows, n)
        BY <1>10, <2>3, <3>1 DEF BoxOK, Span
      <3>3. /\ nd.splitDim = f.dim /\ nd.splitVal = f.sv /\ nd.left = f.l /\ nd.right = ret
        BY <1>1 DEF Node
      <3>4. f.dim \in Dims /\ f.dim # leafMark /\ f.sv \in Int
        <4>1. f.dim \in RawDims /\ f.sv \in Int
          BY <1>3 DEF Frames
        <4>2. \A d \in RawDims : d \in Dims /\ d # leafMark
          BY DEF RawDims, Dims, leafMark
        <4> QED
          BY <4>1, <4>2
      <3>5. mid(f) = SplitRow(f.lo, f.hi)
        BY DEF mid
      <3>6. PICK m : m = mid(f) /\ m = SplitRow(p'.lo[n], p'.hi[n])
        BY <1>10, <1>14, <2>3, <3>5
      <3>7. /\ f.l \in Nodes(p)' /\ f.l > n /\ ret \in Nodes(p)' /\ ret > n
            /\ p'.lo[f.l] = f.lo /\ p'.hi[f.l] = m /\ p'.lo[ret] = m /\ p'.hi[ret] = f.hi
            /\ p'.lo[n] = f.lo /\ p'.hi[n] = f.hi /\ p'.nodes[n] = nd
            /\ f.lo \in Nat /\ f.hi \in Nat /\ f.lo < f.hi /\ f.hi <= p'.count
        <4>1. /\ p'.nodes[f.idx] = nd /\ Nodes(p)' = Nodes(p)
              /\ p'.lo = p.lo /\ p'.hi = p.hi /\ p'.count = p.count
          BY <1>10, <1>11
        <4>2. ret \in Nodes(p) /\ ret > f.idx /\ p.lo[ret] = m /\ p.hi[ret] = f.hi
          BY <1>3, <2>1, <3>6
        <4>3. f.lo \in Nat /\ f.hi \in Nat /\ f.lo < f.hi /\ f.hi <= p.count
          BY <1>3, <2>1
        <4>4. f.l \in Nodes(p) /\ f.l > f.idx /\ p.lo[f.l] = f.lo /\ p.hi[f.l] = m
          BY <3>1, <3>6
        <4> QED
          BY ONLY <1>14, <2>3, <4>1, <4>2, <4>3, <4>4
      <3>8. Halves(rows, f.lo, m, f.hi, f.dim, f.sv)
        BY <1>3, <3>6
      <3>9. Done(p', rows, n)
        BY <3>1, <3>2, <3>3, <3>4, <3>6, <3>7, <3>8 DEF Done
      <3> QED
        BY <1>3, <1>14, <2>3, <3>9
    <2>4. CASE n # f.idx
      <3>1. n \in Nodes(p) \ Open
        BY <1>8, <2>4
      <3>2. Done(p, rows, n) /\ p.hi[n] <= f.hi
        BY <2>2, <3>1 DEF TreeInv, NodesInv
      <3>3. Nodes(p') = Nodes(p)
        BY <1>11
      <3> QED
        BY <1>10, <1>11, <2>4, <3>1, <3>2, <3>3, DoneCopied
    <2> QED
      BY <2>3, <2>4
  <1>17. SelInv'
    BY <1>2 DEF TreeInv, SelInv
  <1> QED
    BY <1>2, <1>12, <1>13, <1>15, <1>16, <1>17 DEF TreeInv, TreePcs

(* What building a tree does not touch. *)
LEMMA TreeKeeps ==
  ASSUME TreeInv, TreeStep
  PROVE  p'.count = p.count /\ p'.vec = p.vec /\ p'.gidx = p.gidx
  <1>1. IsPart(p)
    BY DEF TreeInv, PartInv
  <1>2. ASSUME NEW nd, AddNode(nd)
        PROVE  p'.count = p.count /\ p'.vec = p.vec /\ p'.gidx = p.gidx
    BY <1>1, <1>2 DEF AddNode, IsPart
  <1>3. CASE Leaf
    BY <1>2, <1>3 DEF Leaf
  <1>4. CASE Inner
    BY <1>2, <1>4 DEF Inner
  <1>5. CASE Return
    BY <1>1, <1>5 DEF Return, IsPart
  <1>6. CASE UNCHANGED p
    BY <1>6
  <1> QED
    BY <1>3, <1>4, <1>5, <1>6
    DEF TreeStep, Pivot, Below, Above, Equal, Narrow, BuildLeft, BuildRight

LEMMA TreeStepInv == TreeInv /\ TreeStep => TreeInv'
  BY LeafStep, InnerStep, PivotStep, BelowStep, AboveStep, EqualStep, NarrowStep,
     BuildLeftStep, BuildRightStep, ReturnStep DEF TreeStep

LEMMA NilFacts == /\ DOMAIN Nil = {} /\ Cardinality(DOMAIN Nil) = 0
  <1>1. DOMAIN Nil = {}
    BY DEF Nil
  <1> QED
    BY <1>1, FS_EmptySet

(* The call build(0, count). *)
LEMMA BeginStep ==
  ASSUME NEW q, Begin(q), IsPart(q), q.count \in Nat, q.count > 0, Bare(q),
         \A r \in Rows(q) : Quantized(q.vec[r]), TypeOK
  PROVE  TreeInv'
  <1>1. /\ p' = q /\ perm' = [r \in Rows(q) |-> r] /\ call' = [lo |-> 0, hi |-> q.count]
        /\ stack' = <<>> /\ pc' = "build" /\ ret' = ret /\ sel' = sel
    BY DEF Begin
  <1>2. Nodes(p)' = {} /\ idx' = 0 /\ 0..(0 - 1) = {}
    BY <1>1, NilFacts DEF Nodes, idx, Bare
  <1>3. PartInv'
    <2>1. DOMAIN q.boxes = {} /\ DOMAIN q.lo = {} /\ DOMAIN q.hi = {}
      BY NilFacts DEF Bare
    <2>2. /\ perm' \in [Rows(q) -> Rows(q)]
          /\ \A r, s \in Rows(q) : perm'[r] = perm'[s] => r = s
          /\ \A x \in Rows(q) : \E r \in Rows(q) : perm'[r] = x
          /\ \A r \in Rows(q) : Quantized(q.vec[r])
      BY <1>1
    <2> QED
      BY <1>1, <1>2, <2>1, <2>2 DEF PartInv
  <1>4. Depth' = {} /\ stack' \in Seq(Frames) /\ ~ Selecting'
    BY <1>1 DEF Depth, Selecting
  <1>5. StackInv'
    BY <1>1, <1>4 DEF StackInv
  <1>6. CallInv'
    <2>1. Lo' = 0 /\ Hi' = q.count
      BY <1>1 DEF Lo, Hi
    <2>2. ret' \in Nat /\ call' \in [lo : Nat, hi : Nat]
      BY <1>1 DEF TypeOK
    <2>3. ~ (idx' > 0)
      BY <1>2
    <2> QED
      BY <1>1, <1>2, <1>4, <2>1, <2>2, <2>3 DEF CallInv
  <1>7. NodesInv'
    BY <1>2 DEF NodesInv
  <1>8. SelInv'
    BY <1>1 DEF SelInv, TypeOK
  <1> QED
    BY <1>1, <1>3, <1>5, <1>6, <1>7, <1>8 DEF TreeInv, TreePcs

(* The types are part of the invariant. *)
LEMMA TreeTypes ==
  ASSUME RefsInv, TreeInv, i \in Nat
  PROVE  TypeOK
  <1>1. ASSUME NEW f \in 1..Len(stack)
        PROVE  stack[f] \in [idx : Nat, lo : Nat, hi : Nat, dim : Dims, sv : Int,
                             l : Nat \cup {NoChild}]
    <2>1. stack[f] \in Frames
      BY DEF TreeInv, StackInv
    <2>2. RawDims \subseteq Dims
      BY DEF RawDims, Dims
    <2> QED
      BY <2>1, <2>2 DEF Frames
  <1>2. perm \in [Rows(p) -> Rows(p)] /\ call \in [lo : Nat, hi : Nat] /\ ret \in Nat
    BY DEF TreeInv, PartInv, CallInv
  <1>3. sel \in [lo : Nat, hi : Nat, pivot : Int, lt : Nat, i : Nat, gt : Nat]
    BY DEF TreeInv, SelInv
  <1> QED
    BY <1>1, <1>2, <1>3 DEF TypeOK, RefsInv, TreeInv, TreePcs

-----------------------------------------------------------------------------
(* The partitions. *)

LEMMA KeyOf == \A u : partKey16(u) \in Keys
  BY DEF partKey16, Keys

(* Quantizing: the rounding of the official references. *)
LEMMA RoundFacts ==
  ASSUME NEW h \in (-2 * QScale)..(2 * QScale)
  PROVE  /\ roundHalfAway(h) \in (-QScale)..QScale
         /\ h >= 0 => roundHalfAway(h) >= 0
         /\ h = 0 => roundHalfAway(h) = 0
         /\ h = 2 * QScale => roundHalfAway(h) = QScale
         /\ h = -2 * QScale => roundHalfAway(h) = -QScale
  <1>1. QScale \in Nat /\ h \in Int
    BY Scale
  <1>2. CASE h >= 0
    BY <1>1, <1>2, Scale DEF roundHalfAway
  <1>3. CASE h < 0
    BY <1>1, <1>3, Scale DEF roundHalfAway
  <1> QED
    BY <1>1, <1>2, <1>3

LEMMA QuantizeFacts == \A rec \in Records : Quantized(quantize(rec.vector))
  <1> SUFFICES ASSUME NEW rec \in Records PROVE Quantized(quantize(rec.vector))
    OBVIOUS
  <1>1. PICK u : u = rec.vector
    OBVIOUS
  <1>2. /\ u \in [RawDims -> (-2 * QScale)..(2 * QScale)]
        /\ \A d \in RawDims \ {5, 6} : u[d] >= 0
        /\ \A d \in {9, 10, 11} : u[d] \in {0, 2 * QScale}
        /\ \/ u[5] = -2 * QScale /\ u[6] = -2 * QScale
           \/ u[5] >= 0 /\ u[6] >= 0
    BY <1>1, RecordsAssumption
  <1>3. PICK v : v = quantize(u)
    OBVIOUS
  <1>4. /\ \A d \in RawDims : v[d] = roundHalfAway(u[d])
        /\ \A d \in Dims \ RawDims : v[d] = 0
        /\ v = [d \in Dims |-> v[d]]
    BY <1>3 DEF quantize, RawDims, Dims
  <1>5. ASSUME NEW d \in RawDims
        PROVE  /\ v[d] \in (-QScale)..QScale
               /\ u[d] >= 0 => v[d] >= 0
               /\ u[d] = 0 => v[d] = 0
               /\ u[d] = 2 * QScale => v[d] = QScale
               /\ u[d] = -2 * QScale => v[d] = -QScale
    <2>1. u[d] \in (-2 * QScale)..(2 * QScale)
      BY <1>2
    <2> QED
      BY <1>4, <2>1, RoundFacts
  <1>6. \A d \in Dims \ RawDims : v[d] \in (-QScale)..QScale /\ v[d] >= 0
    BY <1>4, Scale
  <1>7. v \in [Dims -> (-QScale)..QScale]
    BY <1>4, <1>5, <1>6
  <1>8. \A d \in Dims \ {5, 6} : v[d] >= 0
    BY <1>2, <1>5, <1>6
  <1>9. \A d \in {9, 10, 11} : v[d] \in {0, QScale}
    <2>1. \A d \in {9, 10, 11} : d \in RawDims
      BY DEF RawDims
    <2> QED
      BY <1>2, <1>5, <2>1
  <1>10. (v[5] = sentinel /\ v[6] = sentinel) \/ (v[5] >= 0 /\ v[6] >= 0)
    <2>1. 5 \in RawDims /\ 6 \in RawDims
      BY DEF RawDims
    <2> QED
      BY <1>2, <1>5, <2>1 DEF sentinel
  <1>11. v[14] = 0 /\ v[15] = 0
    BY <1>4 DEF RawDims, Dims
  <1> QED
    BY <1>1, <1>3, <1>7, <1>8, <1>9, <1>10, <1>11 DEF Quantized

-----------------------------------------------------------------------------
(* The steps of Build and BuildKD. *)

PartPcs == {"decode", "distribute", "parts", "built"}

LEMMA Pcs == PartPcs \cap TreePcs = {}
  BY DEF PartPcs, TreePcs

LEMMA BTypes == BInv => TypeOK
  BY TreeTypes DEF BInv

(* Between the trees the types are kept. *)
LEMMA TypesKept ==
  ASSUME TypeOK, RefsInv', i' \in Nat, pc' \in PartPcs, UNCHANGED <<p, perm, call, ret, stack, sel>>
  PROVE  TypeOK'
  BY DEF TypeOK, RefsInv, PartPcs

LEMMA InitBInv == Init => BInv
  <1> SUFFICES ASSUME Init PROVE BInv
    OBVIOUS
  <1>1. /\ refs = NoRefs /\ parts = [k \in Keys |-> NoPart] /\ i = 0 /\ pc = "decode"
        /\ p = NoPart /\ perm = Nil /\ call = [lo |-> 0, hi |-> 0] /\ ret = 0 /\ stack = <<>>
        /\ sel = [lo |-> 0, hi |-> 0, pivot |-> 0, lt |-> 0, i |-> 0, gt |-> 0]
    BY DEF Init
  <1>2. 0..(0 - 1) = {}
    OBVIOUS
  <1>3. RefsInv
    <2>1. 0 \in 0..MaxRefs
      BY MaxRefsAssumption
    <2> QED
      BY <1>1, <1>2, <2>1, NilFacts DEF RefsInv, NoRefs
  <1>4. Rows(NoPart) = {} /\ NoPart.vec = Nil /\ NoPart.gidx = Nil /\ NoPart.count = 0
    BY <1>2 DEF Rows, NoPart
  <1>5. \A k \in Keys : Holds(NoPart, k, 0) /\ Bare(NoPart)
    BY <1>2, <1>4, NilFacts DEF Holds, Bare, IsPart, NoPart
  <1>6. PartsInv
    <2>1. pc \notin TreePcs
      BY <1>1 DEF TreePcs
    <2> QED
      BY <1>1, <1>5, <2>1 DEF PartsInv
  <1>7. TypeOK
    <2>1. perm \in [Rows(p) -> Rows(p)]
      BY <1>1, <1>4, NilFacts DEF Nil
    <2> QED
      BY <1>1, <1>3, <2>1 DEF TypeOK, RefsInv
  <1> QED
    BY <1>1, <1>3, <1>6, <1>7 DEF BInv, TreePcs

LEMMA DecodeStep == ASSUME NEW rec \in Records PROVE BInv /\ Decode(rec) => BInv'
  <1> SUFFICES ASSUME BInv, Decode(rec) PROVE BInv'
    OBVIOUS
  <1>1. PICK u, v, x : u = quantize(rec.vector) /\ v = refs.vec /\ x = (rec.label = "fraud")
    OBVIOUS
  <1>2. /\ pc = "decode" /\ refs.n < MaxRefs
        /\ refs' = [n |-> refs.n + 1, vec |-> Push(v, u), fraud |-> Push(refs.fraud, x)]
        /\ UNCHANGED <<parts, i, pc, p, perm, call, ret, stack, sel>>
    BY <1>1 DEF Decode, treeVars
  <1>3. PICK n \in Nat : n = refs.n
    BY DEF BInv, RefsInv
  <1>4. /\ DOMAIN refs.vec = 0..(n - 1) /\ DOMAIN refs.fraud = 0..(n - 1)
        /\ \A g \in 0..(n - 1) : Quantized(refs.vec[g]) /\ refs.fraud[g] \in BOOLEAN
    BY <1>3 DEF BInv, RefsInv
  <1>5. /\ refs'.n = n + 1 /\ refs'.vec = Longer(v, n, u) /\ refs'.fraud = Longer(refs.fraud, n, x)
    <2>1. DOMAIN v = 0..(n - 1)
      BY <1>1, <1>4
    <2>2. Push(v, u) = Longer(v, n, u)
      BY ONLY <2>1, PushFacts
    <2>3. PICK f : f = refs.fraud
      OBVIOUS
    <2>4. DOMAIN f = 0..(n - 1)
      BY <1>4, <2>3
    <2>5. Push(f, x) = Longer(f, n, x)
      BY ONLY <2>4, PushFacts
    <2> QED
      BY <1>2, <1>3, <2>2, <2>3, <2>5
  <1>6. RefsInv'
    <2>1. n + 1 \in 0..MaxRefs /\ (n + 1) - 1 = n
      BY <1>2, <1>3, MaxRefsAssumption
    <2>2. DOMAIN refs'.vec = 0..n /\ DOMAIN refs'.fraud = 0..n
      BY <1>5 DEF Longer
    <2>3. Quantized(u) /\ x \in BOOLEAN
      BY <1>1, QuantizeFacts
    <2>4. ASSUME NEW g \in 0..n PROVE Quantized(refs'.vec[g]) /\ refs'.fraud[g] \in BOOLEAN
      <3>1. CASE g = n
        BY <1>5, <2>3, <3>1 DEF Longer
      <3>2. CASE g # n
        <4>1. g \in 0..(n - 1)
          BY <3>2
        <4>2. refs'.vec[g] = refs.vec[g] /\ refs'.fraud[g] = refs.fraud[g]
          BY <1>1, <1>5, <3>2 DEF Longer
        <4> QED
          BY <1>4, <4>1, <4>2
      <3> QED
        BY <3>1, <3>2
    <2>5. refs' = [n |-> refs'.n, vec |-> refs'.vec, fraud |-> refs'.fraud]
      BY <1>2
    <2> QED
      BY <1>5, <2>1, <2>2, <2>4, <2>5 DEF RefsInv
  <1>7. PartsInv'
    <2>1. i = 0 /\ DOMAIN parts = Keys /\ \A k \in Keys : Holds(parts[k], k, 0) /\ Bare(parts[k])
      BY <1>2 DEF BInv, PartsInv
    <2>2. ASSUME NEW k \in Keys PROVE Holds(parts[k], k, 0)'
      <3>1. Holds(parts[k], k, 0)
        BY <2>1
      <3>2. 0..(0 - 1) = {}
        OBVIOUS
      <3>3. \A r \in Rows(parts[k]) : FALSE
        BY <3>1, <3>2 DEF Holds
      <3> QED
        BY <1>2, <3>1, <3>2, <3>3 DEF Holds
    <2> QED
      BY <1>2, <2>1, <2>2 DEF PartsInv, TreePcs
  <1>8. pc' \in PartPcs /\ i' \in Nat
    BY <1>2 DEF PartPcs, BInv
  <1> QED
    BY <1>2, <1>6, <1>7, <1>8, TypesKept, BTypes, Pcs DEF BInv

LEMMA DecodedStep == BInv /\ Decoded => BInv'
  <1> SUFFICES ASSUME BInv, Decoded PROVE BInv'
    OBVIOUS
  <1>1. /\ pc = "decode" /\ pc' = "distribute"
        /\ UNCHANGED <<refs, parts, i, p, perm, call, ret, stack, sel>>
    BY DEF Decoded
  <1>2. RefsInv' /\ i' \in Nat /\ pc' \in PartPcs
    BY <1>1 DEF BInv, RefsInv, PartPcs
  <1>3. PartsInv'
    <2>1. i = 0 /\ refs.n \in Nat /\ DOMAIN parts = Keys
          /\ \A k \in Keys : Holds(parts[k], k, 0) /\ Bare(parts[k])
      BY <1>1 DEF BInv, PartsInv, RefsInv
    <2> QED
      BY <1>1, <2>1 DEF PartsInv, TreePcs, Holds
  <1> QED
    BY <1>1, <1>2, <1>3, TypesKept, BTypes, Pcs DEF BInv

LEMMA DistributeStep == BInv /\ Distribute => BInv'
  <1> SUFFICES ASSUME BInv, Distribute PROVE BInv'
    OBVIOUS
  <1>1. PICK u, b, q : u = refs.vec[i] /\ b = partKey16(u) /\ q = parts[b]
    OBVIOUS
  <1>2. /\ pc = "distribute" /\ i < refs.n /\ i' = i + 1
        /\ parts' = [parts EXCEPT ![b] =
             [q EXCEPT !.vec = Push(q.vec, u), !.gidx = Push(q.gidx, i), !.count = q.count + 1]]
        /\ UNCHANGED <<refs, pc, p, perm, call, ret, stack, sel>>
    <2>1. parts' = [parts EXCEPT ![partKey16(refs.vec[i])] =
                     AddRow(parts[partKey16(refs.vec[i])], refs.vec[i], i)]
      BY DEF Distribute
    <2>2. /\ pc = "distribute" /\ i < refs.n /\ i' = i + 1
          /\ UNCHANGED <<refs, pc, p, perm, call, ret, stack, sel>>
      BY DEF Distribute, treeVars
    <2> QED
      BY <1>1, <2>1, <2>2 DEF AddRow
  <1>3. /\ i \in Nat /\ refs.n \in Nat /\ DOMAIN parts = Keys /\ b \in Keys
        /\ \A k \in Keys : Holds(parts[k], k, i) /\ Bare(parts[k])
    BY <1>1, <1>2, KeyOf DEF BInv, PartsInv, RefsInv
  <1>4. PICK n \in Nat : /\ n = q.count /\ Rows(q) = 0..(n - 1) /\ IsPart(q)
                         /\ DOMAIN q.vec = 0..(n - 1) /\ DOMAIN q.gidx = 0..(n - 1)
    BY <1>1, <1>3 DEF Holds, Rows
  <1>5. PICK s : s = [q EXCEPT !.vec = Push(q.vec, u), !.gidx = Push(q.gidx, i), !.count = q.count + 1]
    OBVIOUS
  <1>6. /\ s.count = n + 1 /\ s.vec = Longer(q.vec, n, u) /\ s.gidx = Longer(q.gidx, n, i)
        /\ IsPart(s) /\ s.nodes = q.nodes /\ s.boxes = q.boxes /\ s.lo = q.lo /\ s.hi = q.hi
    <2>1. Push(q.vec, u) = Longer(q.vec, n, u) /\ Push(q.gidx, i) = Longer(q.gidx, n, i)
      BY <1>4, PushFacts
    <2> QED
      BY <1>4, <1>5, <2>1 DEF IsPart
  <1>7. /\ \A k \in Keys : parts'[k] = IF k = b THEN s ELSE parts[k]
        /\ DOMAIN parts' = Keys
    BY <1>2, <1>3, <1>5
  <1>8. Holds(s, b, i + 1)
    <2>1. /\ \A r \in 0..(n - 1) : /\ q.gidx[r] \in 0..(i - 1) /\ q.vec[r] = refs.vec[q.gidx[r]]
                                   /\ partKey16(q.vec[r]) = b
          /\ \A r, t \in 0..(n - 1) : q.gidx[r] = q.gidx[t] => r = t
          /\ \A g \in 0..(i - 1) : partKey16(refs.vec[g]) = b => \E r \in 0..(n - 1) : q.gidx[r] = g
      <3>1. Holds(q, b, i) /\ Rows(q) = 0..(n - 1)
        BY <1>1, <1>3, <1>4
      <3>2. /\ \A r \in Rows(q) : /\ q.gidx[r] \in 0..(i - 1) /\ q.vec[r] = refs.vec[q.gidx[r]]
                                  /\ partKey16(q.vec[r]) = b
            /\ \A r, t \in Rows(q) : q.gidx[r] = q.gidx[t] => r = t
            /\ \A g \in 0..(i - 1) : partKey16(refs.vec[g]) = b => \E r \in Rows(q) : q.gidx[r] = g
        BY <3>1 DEF Holds
      <3> QED
        BY <3>1, <3>2
    <2>2. Rows(s) = 0..n /\ DOMAIN s.vec = 0..n /\ DOMAIN s.gidx = 0..n
      BY <1>6 DEF Rows, Longer
    <2>3. /\ s.vec[n] = u /\ s.gidx[n] = i /\ n \in 0..n
          /\ \A r \in 0..(n - 1) : s.vec[r] = q.vec[r] /\ s.gidx[r] = q.gidx[r] /\ r \in 0..n
          /\ \A r \in 0..n : r = n \/ r \in 0..(n - 1)
      BY <1>6 DEF Longer
    <2>4. /\ i \in 0..((i + 1) - 1) /\ \A g \in 0..(i - 1) : g \in 0..((i + 1) - 1) /\ g # i
          /\ \A g \in 0..((i + 1) - 1) : g = i \/ g \in 0..(i - 1)
      BY <1>3
    <2>5. ASSUME NEW r \in 0..n
          PROVE  /\ s.gidx[r] \in 0..((i + 1) - 1) /\ s.vec[r] = refs.vec[s.gidx[r]]
                 /\ partKey16(s.vec[r]) = b
      <3>1. CASE r = n
        BY <1>1, <2>3, <2>4, <3>1
      <3>2. CASE r \in 0..(n - 1)
        BY <2>1, <2>3, <2>4, <3>2
      <3> QED
        BY <2>3, <3>1, <3>2
    <2>6. ASSUME NEW r \in 0..n, NEW t \in 0..n, s.gidx[r] = s.gidx[t] PROVE r = t
      <3>1. CASE r \in 0..(n - 1) /\ t \in 0..(n - 1)
        BY <2>1, <2>3, <2>6, <3>1
      <3>2. CASE r = n /\ t \in 0..(n - 1)
        BY <2>1, <2>3, <2>4, <2>6, <3>2
      <3>3. CASE r \in 0..(n - 1) /\ t = n
        BY <2>1, <2>3, <2>4, <2>6, <3>3
      <3> QED
        BY <2>3, <3>1, <3>2, <3>3
    <2>7. ASSUME NEW g \in 0..((i + 1) - 1), partKey16(refs.vec[g]) = b
          PROVE  \E r \in 0..n : s.gidx[r] = g
      <3>1. CASE g = i
        BY <2>3, <3>1
      <3>2. CASE g \in 0..(i - 1)
        BY <2>1, <2>3, <2>7, <3>2
      <3> QED
        BY <2>4, <3>1, <3>2
    <2> QED
      BY <1>6, <2>2, <2>5, <2>6, <2>7 DEF Holds
  <1>9. ASSUME NEW k \in Keys, k # b PROVE Holds(parts[k], k, i + 1)
    <2>1. Holds(parts[k], k, i) /\ partKey16(refs.vec[i]) # k
      BY <1>1, <1>3, <1>9
    <2>2. /\ \A g \in 0..(i - 1) : g \in 0..((i + 1) - 1)
          /\ \A g \in 0..((i + 1) - 1) : g = i \/ g \in 0..(i - 1)
      BY <1>3
    <2> QED
      BY <2>1, <2>2 DEF Holds
  <1>10. \A k \in Keys : Holds(parts'[k], k, i + 1) /\ Bare(parts'[k])
    BY <1>1, <1>3, <1>6, <1>7, <1>8, <1>9 DEF Bare
  <1>11. PartsInv'
    <2>1. i + 1 \in 0..refs.n
      BY <1>2, <1>3
    <2>2. \A k \in Keys : Holds(parts[k], k, i)'
      BY <1>2, <1>10 DEF Holds
    <2> QED
      BY <1>2, <1>7, <1>10, <2>1, <2>2 DEF PartsInv, TreePcs
  <1>12. RefsInv' /\ i' \in Nat /\ pc' \in PartPcs
    BY <1>2, <1>3 DEF BInv, RefsInv, PartPcs
  <1> QED
    BY <1>2, <1>11, <1>12, TypesKept, BTypes, Pcs DEF BInv

LEMMA DistributedStep == BInv /\ Distributed => BInv'
  <1> SUFFICES ASSUME BInv, Distributed PROVE BInv'
    OBVIOUS
  <1>1. /\ pc = "distribute" /\ i = refs.n /\ i' = 0 /\ pc' = "parts"
        /\ UNCHANGED <<refs, parts, p, perm, call, ret, stack, sel>>
    BY DEF Distributed
  <1>2. RefsInv' /\ i' \in Nat /\ pc' \in PartPcs
    BY <1>1 DEF BInv, RefsInv, PartPcs
  <1>3. PartsInv'
    <2>1. DOMAIN parts = Keys /\ \A k \in Keys : Holds(parts[k], k, refs.n) /\ Bare(parts[k])
      BY <1>1 DEF BInv, PartsInv
    <2>2. \A j \in 0..15 : Bare(parts[Key(j)]) /\ ~ (j < 0)
      BY <2>1, KeyNumber
    <2>3. \A k \in Keys : Holds(parts[k], k, refs.n)'
      BY <1>1, <2>1 DEF Holds
    <2>4. i' \in 0..16 /\ \A j \in 0..15 : Bare(parts'[Key(j)]) /\ ~ (j < i')
      BY <1>1, <2>2
    <2>5. \A j \in 0..15 : IF j < i' THEN TreeOK(parts'[Key(j)]) ELSE Bare(parts'[Key(j)])
      BY <2>4
    <2> QED
      BY <1>1, <2>1, <2>3, <2>4, <2>5 DEF PartsInv, TreePcs, Key
  <1> QED
    BY <1>1, <1>2, <1>3, TypesKept, BTypes, Pcs DEF BInv

(* What is known while the trees are built. *)
LEMMA PartFacts ==
  ASSUME BInv, pc \notin {"decode", "distribute"}
  PROVE  /\ DOMAIN parts = Keys /\ i \in 0..16 /\ \A k \in Keys : Holds(parts[k], k, refs.n)
         /\ \A j \in 0..15 : IF j < i THEN TreeOK(parts[Key(j)]) ELSE Bare(parts[Key(j)])
  BY DEF BInv, PartsInv

(* The same part again, in another state. *)
LEMMA HoldsKept ==
  ASSUME NEW q, NEW k, NEW b, Holds(q, k, b), refs' = refs
  PROVE  Holds(q, k, b)'
  BY DEF Holds

LEMMA BuildPartStep == BInv /\ BuildPart => BInv'
  <1> SUFFICES ASSUME BInv, BuildPart PROVE BInv'
    OBVIOUS
  <1>1. PICK q : q = parts[Key(i)]
    OBVIOUS
  <1>2. /\ pc = "parts" /\ i < 16 /\ q.count > 0 /\ Begin(q) /\ UNCHANGED <<refs, parts, i>>
    BY <1>1 DEF BuildPart
  <1>3. /\ DOMAIN parts = Keys /\ i \in 0..16 /\ \A k \in Keys : Holds(parts[k], k, refs.n)
        /\ \A j \in 0..15 : IF j < i THEN TreeOK(parts[Key(j)]) ELSE Bare(parts[Key(j)])
    BY <1>2, PartFacts
  <1>4. i \in 0..15 /\ Key(i) \in Keys
    BY <1>2, <1>3, KeyNumber
  <1>5. Holds(q, Key(i), refs.n) /\ Bare(q)
    BY <1>1, <1>3, <1>4
  <1>6. TypeOK /\ RefsInv
    BY BTypes DEF BInv
  <1>7. TreeInv'
    <2>1. \A r \in Rows(q) : Quantized(q.vec[r])
      BY <1>5, <1>6 DEF Holds, RefsInv
    <2> QED
      BY <1>2, <1>5, <1>6, <2>1, BeginStep DEF Holds
  <1>8. RefsInv' /\ i' \in Nat
    BY <1>2, <1>4, <1>6 DEF RefsInv
  <1>10. pc' = "build" /\ p' = q
    BY <1>2 DEF Begin
  <1>11. PartsInv'
    <2>1. Holds(p, Key(i), refs.n)'
      BY <1>2, <1>5, <1>10 DEF Holds, Key
    <2>2. \A k \in Keys : Holds(parts[k], k, refs.n)'
      BY <1>2, <1>3 DEF Holds
    <2>3. \A j \in 0..15 : IF j < i' THEN TreeOK(parts'[Key(j)]) ELSE Bare(parts'[Key(j)])
      BY <1>2, <1>3
    <2> QED
      BY <1>2, <1>3, <1>10, <2>1, <2>2, <2>3 DEF PartsInv, TreePcs, Key
  <1> QED
    BY <1>7, <1>8, <1>10, <1>11 DEF BInv, TreePcs

LEMMA SkipEmptyStep == BInv /\ SkipEmpty => BInv'
  <1> SUFFICES ASSUME BInv, SkipEmpty PROVE BInv'
    OBVIOUS
  <1>1. /\ pc = "parts" /\ i < 16 /\ parts[Key(i)].count = 0 /\ i' = i + 1
        /\ UNCHANGED <<refs, parts, pc, p, perm, call, ret, stack, sel>>
    BY DEF SkipEmpty, treeVars
  <1>2. /\ DOMAIN parts = Keys /\ i \in 0..16 /\ \A k \in Keys : Holds(parts[k], k, refs.n)
        /\ \A j \in 0..15 : IF j < i THEN TreeOK(parts[Key(j)]) ELSE Bare(parts[Key(j)])
    BY <1>1, PartFacts
  <1>3. RefsInv' /\ i' \in Nat /\ pc' \in PartPcs
    BY <1>1, <1>2, SMTT(20) DEF BInv, RefsInv, PartPcs
  <1>4. i \in 0..15 /\ i + 1 \in 0..16
    BY <1>1, <1>2
  <1>5. TreeOK(parts[Key(i)])
    <2>1. Bare(parts[Key(i)])
      BY <1>2, <1>4
    <2>2. Nodes(parts[Key(i)]) = {}
      BY <2>1, NilFacts DEF Nodes, Bare
    <2> QED
      BY <1>1, <2>2 DEF TreeOK
  <1>6. PartsInv'
    <2>1. ASSUME NEW j \in 0..15
          PROVE  IF j < i + 1 THEN TreeOK(parts[Key(j)]) ELSE Bare(parts[Key(j)])
      <3>1. CASE j = i
        BY <1>2, <1>5, <3>1
      <3>2. CASE j # i
        <4>1. j < i + 1 <=> j < i
          BY <1>4, <3>2
        <4> QED
          BY <1>2, <4>1
      <3> QED
        BY <3>1, <3>2
    <2>2. \A k \in Keys : Holds(parts[k], k, refs.n)'
      BY <1>1, <1>2 DEF Holds
    <2>3. \A j \in 0..15 : IF j < i' THEN TreeOK(parts'[Key(j)]) ELSE Bare(parts'[Key(j)])
      BY <1>1, <2>1
    <2> QED
      BY <1>1, <1>2, <1>4, <2>2, <2>3 DEF PartsInv, TreePcs, Key
  <1> QED
    BY <1>1, <1>3, <1>6, TypesKept, BTypes, Pcs DEF BInv

LEMMA TreesStep == BInv /\ TreeStep /\ UNCHANGED <<refs, parts, i>> => BInv'
  <1> SUFFICES ASSUME BInv, TreeStep, refs' = refs, parts' = parts, i' = i PROVE BInv'
    OBVIOUS
  <1>1. pc \in TreePcs
    BY DEF TreeStep, Leaf, Inner, Pivot, Below, Above, Equal, Scans, Narrow, BuildLeft,
           BuildRight, Return, TreePcs
  <1>2. TreeInv /\ TreeInv'
    BY <1>1, TreeStepInv DEF BInv
  <1>3. p'.count = p.count /\ p'.vec = p.vec /\ p'.gidx = p.gidx /\ IsPart(p')
    <2>1. IsPart(p')
      BY <1>2 DEF TreeInv, PartInv
    <2> QED
      BY <1>2, <2>1, TreeKeeps
  <1>4. pc' \in TreePcs /\ pc \notin {"decode", "distribute", "built"}
        /\ pc' \notin {"decode", "distribute", "built"}
    BY <1>1, <1>2 DEF TreeInv, TreePcs
  <1>5. RefsInv' /\ i' \in Nat
    BY DEF BInv, RefsInv
  <1>7. PartsInv'
    <2>1. Holds(p, Key(i), refs.n) /\ i < 16
      BY <1>1 DEF BInv, PartsInv
    <2>2. Holds(p, Key(i), refs.n)'
      BY <1>3, <2>1 DEF Holds, Rows, Key
    <2>3. /\ DOMAIN parts = Keys /\ i \in 0..16 /\ \A k \in Keys : Holds(parts[k], k, refs.n)
          /\ \A j \in 0..15 : IF j < i THEN TreeOK(parts[Key(j)]) ELSE Bare(parts[Key(j)])
      BY <1>4, PartFacts
    <2>4. \A k \in Keys : Holds(parts[k], k, refs.n)'
      BY <2>3 DEF Holds
    <2>5. \A j \in 0..15 : IF j < i' THEN TreeOK(parts'[Key(j)]) ELSE Bare(parts'[Key(j)])
      BY <2>3
    <2> QED
      BY <1>4, <2>1, <2>2, <2>3, <2>4, <2>5 DEF PartsInv, Key
  <1> QED
    BY <1>2, <1>4, <1>5, <1>7 DEF BInv

(* A part in another order of its rows still holds its references. *)
LEMMA OrderedHolds ==
  ASSUME PartInv, NEW k, NEW b, Holds(p, k, b), NEW q, q = Ordered(p, perm)
  PROVE  Holds(q, k, b) /\ q.vec = rows
  <1>1. /\ perm \in [Rows(p) -> Rows(p)]
        /\ \A r, s \in Rows(p) : perm[r] = perm[s] => r = s
        /\ \A x \in Rows(p) : \E r \in Rows(p) : perm[r] = x
    BY DEF PartInv
  <1>2. /\ q.count = p.count /\ Rows(q) = Rows(p) /\ IsPart(q)
        /\ q.vec = [r \in Rows(p) |-> p.vec[perm[r]]]
        /\ q.gidx = [r \in Rows(p) |-> p.gidx[perm[r]]]
    <2>1. IsPart(p)
      BY DEF PartInv
    <2>2. q = [count |-> p.count, vec |-> [r \in Rows(p) |-> p.vec[perm[r]]],
               gidx |-> [r \in Rows(p) |-> p.gidx[perm[r]]],
               nodes |-> p.nodes, boxes |-> p.boxes, lo |-> p.lo, hi |-> p.hi]
      BY <2>1 DEF Ordered, IsPart
    <2> QED
      BY <2>2 DEF IsPart, Rows
  <1>3. /\ \A r \in Rows(p) : /\ p.gidx[r] \in 0..(b - 1) /\ p.vec[r] = refs.vec[p.gidx[r]]
                              /\ partKey16(p.vec[r]) = k
        /\ \A r, s \in Rows(p) : p.gidx[r] = p.gidx[s] => r = s
        /\ \A g \in 0..(b - 1) : partKey16(refs.vec[g]) = k => \E r \in Rows(p) : p.gidx[r] = g
        /\ p.count \in Nat
    BY DEF Holds
  <1>4. \A r \in Rows(p) : /\ perm[r] \in Rows(p) /\ q.vec[r] = p.vec[perm[r]]
                           /\ q.gidx[r] = p.gidx[perm[r]]
    BY <1>1, <1>2
  <1>5. \A r \in Rows(p) : /\ q.gidx[r] \in 0..(b - 1) /\ q.vec[r] = refs.vec[q.gidx[r]]
                           /\ partKey16(q.vec[r]) = k
    BY <1>3, <1>4
  <1>6. \A r, s \in Rows(p) : q.gidx[r] = q.gidx[s] => r = s
    BY <1>1, <1>3, <1>4
  <1>7. ASSUME NEW g \in 0..(b - 1), partKey16(refs.vec[g]) = k
        PROVE  \E r \in Rows(p) : q.gidx[r] = g
    <2>1. PICK x \in Rows(p) : p.gidx[x] = g
      BY <1>3, <1>7
    <2>2. PICK r \in Rows(p) : perm[r] = x
      BY <1>1
    <2> QED
      BY <1>4, <2>1, <2>2
  <1>8. DOMAIN q.vec = Rows(p) /\ DOMAIN q.gidx = Rows(p)
    BY <1>2
  <1> QED
    BY <1>2, <1>3, <1>5, <1>6, <1>7, <1>8 DEF Holds, rows

LEMMA PartBuiltStep == BInv /\ PartBuilt => BInv'
  <1> SUFFICES ASSUME BInv, PartBuilt PROVE BInv'
    OBVIOUS
  <1>1. PICK q : q = Ordered(p, perm)
    OBVIOUS
  <1>2. /\ pc = "return" /\ stack = <<>> /\ pc' = "parts" /\ i' = i + 1
        /\ parts' = [parts EXCEPT ![Key(i)] = q]
        /\ UNCHANGED <<refs, p, perm, call, ret, stack, sel>>
    BY <1>1 DEF PartBuilt
  <1>3. TreeInv /\ RefsInv /\ i \in 0..16 /\ i < 16 /\ Holds(p, Key(i), refs.n)
    BY <1>2 DEF BInv, PartsInv, TreePcs
  <1>4. i \in 0..15 /\ i + 1 \in 0..16 /\ Key(i) \in Keys
    BY <1>3, KeyNumber
  <1>5. Holds(q, Key(i), refs.n) /\ q.vec = rows
    BY <1>1, <1>3, OrderedHolds DEF TreeInv
  <1>6. /\ q.count = p.count /\ q.nodes = p.nodes /\ q.boxes = p.boxes /\ q.lo = p.lo /\ q.hi = p.hi
    <2>1. IsPart(p)
      BY <1>3 DEF TreeInv, PartInv
    <2> QED
      BY <1>1, <2>1 DEF Ordered, IsPart
  <1>7. TreeOK(q)
    <2>1. Open = {} /\ Nodes(p) = 0..(idx - 1) /\ idx \in Nat
      BY <1>2, <1>3 DEF Open, Depth, TreeInv, PartInv
    <2>2. 0 \in Nodes(p) /\ p.lo[0] = 0 /\ p.hi[0] = p.count
      <3>1. ret \in Nodes(p)
        BY <1>2, <1>3 DEF TreeInv, CallInv
      <3>2. idx > 0
        BY <2>1, <3>1
      <3> QED
        BY <1>3, <2>1, <3>2 DEF TreeInv, CallInv
    <2>3. ASSUME NEW n \in Nodes(p) PROVE Done(q, rows, n)
      <3>1. Done(p, rows, n)
        BY <1>3, <2>1 DEF TreeInv, NodesInv
      <3>2. Nodes(q) = Nodes(p)
        BY <1>6 DEF Nodes
      <3> QED
        BY <1>6, <3>1, <3>2, DoneCopied
    <2>4. Nodes(q) = Nodes(p)
      BY <1>6 DEF Nodes
    <2> QED
      BY <1>5, <1>6, <2>1, <2>2, <2>3, <2>4 DEF TreeOK
  <1>8. /\ DOMAIN parts = Keys /\ \A k \in Keys : Holds(parts[k], k, refs.n)
        /\ \A j \in 0..15 : IF j < i THEN TreeOK(parts[Key(j)]) ELSE Bare(parts[Key(j)])
    BY <1>2, PartFacts
  <1>9. DOMAIN parts' = Keys /\ \A k \in Keys : parts'[k] = IF k = Key(i) THEN q ELSE parts[k]
    BY <1>2, <1>8
  <1>10. PartsInv'
    <2>1. ASSUME NEW k \in Keys PROVE Holds(parts[k], k, refs.n)'
      <3>1. Holds(parts'[k], k, refs.n)
        BY <1>5, <1>8, <1>9
      <3> QED
        BY <1>2, <3>1 DEF Holds
    <2>2. ASSUME NEW j \in 0..15
          PROVE  IF j < i + 1 THEN TreeOK(parts'[Key(j)]) ELSE Bare(parts'[Key(j)])
      <3>1. CASE j = i
        <4>1. parts'[Key(j)] = q /\ j < i + 1
          BY <1>4, <1>9, <3>1
        <4> QED
          BY <1>7, <4>1
      <3>2. CASE j # i
        <4>1. (j < i + 1 <=> j < i) /\ Key(j) \in Keys /\ Key(j) # Key(i)
          BY <1>4, <3>2, KeyNumber
        <4>2. parts'[Key(j)] = parts[Key(j)]
          BY <1>9, <4>1
        <4> QED
          BY <1>8, <4>1, <4>2
      <3> QED
        BY <3>1, <3>2
    <2>3. \A j \in 0..15 : IF j < i' THEN TreeOK(parts'[Key(j)]) ELSE Bare(parts'[Key(j)])
      BY <1>2, <2>2
    <2> QED
      BY <1>2, <1>4, <1>9, <2>1, <2>3 DEF PartsInv, TreePcs, Key
  <1>11. RefsInv' /\ i' \in Nat /\ pc' \in PartPcs
    BY <1>2, <1>3, <1>4 DEF RefsInv, PartPcs
  <1> QED
    BY <1>2, <1>10, <1>11, TypesKept, BTypes, Pcs DEF BInv

LEMMA AllBuiltStep == BInv /\ AllBuilt => BInv'
  <1> SUFFICES ASSUME BInv, AllBuilt PROVE BInv'
    OBVIOUS
  <1>1. /\ pc = "parts" /\ i = 16 /\ pc' = "built"
        /\ UNCHANGED <<refs, parts, i, p, perm, call, ret, stack, sel>>
    BY DEF AllBuilt
  <1>2. RefsInv' /\ i' \in Nat /\ pc' \in PartPcs
    BY <1>1 DEF BInv, RefsInv, PartPcs
  <1>3. PartsInv'
    BY <1>1 DEF BInv, PartsInv, TreePcs, Holds, Key
  <1> QED
    BY <1>1, <1>2, <1>3, TypesKept, BTypes, Pcs DEF BInv

LEMMA StutterBInv == BInv /\ UNCHANGED vars => BInv'
  <1> SUFFICES ASSUME BInv, UNCHANGED vars PROVE BInv'
    OBVIOUS
  <1>1. UNCHANGED <<refs, parts, i, pc, p, perm, call, ret, stack, sel>>
    BY DEF vars, treeVars
  <1>2. RefsInv' /\ i' \in Nat /\ (TypeOK => TypeOK')
    BY <1>1 DEF BInv, RefsInv, TypeOK
  <1>5. PartsInv'
    <2>1. \A k \in Keys, b \in {0, i, refs.n} : Holds(parts[k], k, b) => Holds(parts[k], k, b)'
      BY <1>1 DEF Holds
    <2>2. Holds(p, Key(i), refs.n) => Holds(p, Key(i), refs.n)'
      BY <1>1 DEF Holds, Key
    <2> QED
      BY <1>1, <2>1, <2>2 DEF BInv, PartsInv, Key
  <1>3. rows' = rows /\ idx' = idx /\ Open' = Open /\ Depth' = Depth /\ Top' = Top
        /\ Lo' = Lo /\ Hi' = Hi /\ Edge' = Edge /\ Selecting' = Selecting
    BY <1>1 DEF rows, idx, Open, Depth, Top, Lo, Hi, Edge, Selecting
  <1>4. TreeInv => TreeInv'
    <2>1. PartInv => PartInv'
      BY <1>1, <1>3 DEF PartInv
    <2>2. StackInv => StackInv'
      BY <1>1, <1>3 DEF StackInv, FrameInv
    <2>3. CallInv => CallInv'
      BY <1>1, <1>3 DEF CallInv
    <2>4. NodesInv => NodesInv'
      BY <1>1, <1>3 DEF NodesInv
    <2>5. SelInv => SelInv'
      BY <1>1, <1>3 DEF SelInv, Sides
    <2> QED
      BY <1>1, <2>1, <2>2, <2>3, <2>4, <2>5 DEF TreeInv
  <1> QED
    BY <1>1, <1>2, <1>4, <1>5 DEF BInv

-----------------------------------------------------------------------------
LEMMA NextBInv == BInv /\ [Next]_vars => BInv'
  <1> SUFFICES ASSUME BInv, [Next]_vars PROVE BInv'
    OBVIOUS
  <1>1. ASSUME NEW rec \in Records, Decode(rec) PROVE BInv'
    BY <1>1, DecodeStep
  <1> QED
    BY <1>1, DecodedStep, DistributeStep, DistributedStep, BuildPartStep, SkipEmptyStep,
       PartBuiltStep, AllBuiltStep, TreesStep, StutterBInv DEF Next

LEMMA Invariance == Spec => []BInv
  BY InitBInv, NextBInv, PTL DEF Spec

(* Every reachable state has the types the code relies on: in particular every vector of the
   table is quantized, and every index that build and quickselect compute is a natural number. *)
THEOREM TypeCorrect == Spec => []TypeOK
  BY Invariance, BTypes, PTL

(* Once all is built, each part holds its references and a finished tree. *)
LEMMA BuiltFacts ==
  ASSUME BInv, pc = "built", NEW k \in Keys
  PROVE  Holds(parts[k], k, refs.n) /\ TreeOK(parts[k])
  <1>1. /\ \A j \in Keys : Holds(parts[j], j, refs.n)
        /\ \A j \in 0..15 : IF j < i THEN TreeOK(parts[Key(j)]) ELSE Bare(parts[Key(j)])
    BY PartFacts
  <1>2. i = 16
    BY DEF BInv, PartsInv
  <1>3. Number(k) \in 0..15 /\ Key(Number(k)) = k
    BY NumberKey
  <1>4. Number(k) < i
    BY <1>2, <1>3
  <1> QED
    BY <1>1, <1>3, <1>4

(* A finished node is well formed, and its children are even. *)
LEMMA NodeFacts ==
  ASSUME NEW q, NEW n, Done(q, q.vec, n)
  PROVE  /\ NodeOK(q, n)
         /\ q.nodes[n].splitDim = leafMark =>
              q.hi[n] - q.lo[n] <= leafSize \/ \A r, s \in Span(q, n) : q.vec[r] = q.vec[s]
         /\ q.nodes[n].splitDim # leafMark =>
              LET l == q.nodes[n].left
                  r == q.nodes[n].right
              IN  /\ q.hi[l] - q.lo[l] >= 1
                  /\ (q.hi[r] - q.lo[r]) - (q.hi[l] - q.lo[l]) \in {0, 1}
  <1>1. /\ q.lo[n] \in Nat /\ q.hi[n] \in Nat /\ q.lo[n] < q.hi[n] /\ q.hi[n] <= q.count
        /\ BoxOK(q, q.vec, n)
    BY DEF Done
  <1>2. CASE q.nodes[n].splitDim = leafMark
    BY <1>1, <1>2 DEF Done, NodeOK, BoxOK
  <1>3. CASE q.nodes[n].splitDim # leafMark
    <2>1. PICK l, r, d, x, mi : /\ l = q.nodes[n].left /\ r = q.nodes[n].right
                                /\ d = q.nodes[n].splitDim /\ x = q.nodes[n].splitVal
                                /\ mi = SplitRow(q.lo[n], q.hi[n])
      OBVIOUS
    <2>2. /\ d \in Dims /\ x \in Int /\ l \in Nodes(q) /\ l > n /\ r \in Nodes(q) /\ r > n
          /\ q.lo[l] = q.lo[n] /\ q.hi[l] = mi /\ q.lo[r] = mi /\ q.hi[r] = q.hi[n]
          /\ q.lo[n] + 2 <= q.hi[n] /\ Halves(q.vec, q.lo[n], mi, q.hi[n], d, x)
      BY <1>3, <2>1 DEF Done
    <2>3. mi \in Nat /\ mi - q.lo[n] >= 1 /\ (q.hi[n] - mi) - (mi - q.lo[n]) \in {0, 1}
      BY <1>1, <2>1, <2>2, MidFacts
    <2>4. /\ \A s \in Span(q, l) : q.vec[s][d] <= x
          /\ \A s \in Span(q, r) : q.vec[s][d] >= x
      BY <2>2 DEF Halves, Span
    <2>5. NodeOK(q, n)
      BY <1>1, <1>3, <2>1, <2>2, <2>4 DEF NodeOK, BoxOK
    <2>6. /\ q.hi[l] - q.lo[l] >= 1
          /\ (q.hi[r] - q.lo[r]) - (q.hi[l] - q.lo[l]) \in {0, 1}
      BY <2>2, <2>3
    <2> QED
      BY <1>3, <2>1, <2>5, <2>6
  <1> QED
    BY <1>2, <1>3

(* BuildKD makes a well-formed index of every table of quantized references: what the
   search assumes of its index (IndexAssumption of KDSearch) is what the build produces. *)
THEOREM IndexIsWellFormed == Spec => []WellFormed
  <1>1. BInv => WellFormed
    <2> SUFFICES ASSUME BInv, pc = "built" PROVE IndexOK(kd)
      BY DEF WellFormed
    <2>1. /\ kd.n = refs.n /\ kd.vec = refs.vec /\ kd.fraud = refs.fraud /\ kd.parts = parts
          /\ Ids(kd) = 0..(refs.n - 1)
      BY DEF kd, Ids
    <2>2. /\ refs.n \in Nat /\ refs.n <= NoId
          /\ \A g \in 0..(refs.n - 1) : Quantized(refs.vec[g]) /\ refs.fraud[g] \in BOOLEAN
      BY MaxRefsAssumption, NoIdAssumption DEF BInv, RefsInv
    <2>3. ASSUME NEW k \in Keys PROVE PartOK(kd, k)
      <3>1. PICK q : q = parts[k] /\ Holds(q, k, refs.n) /\ TreeOK(q)
        BY BuiltFacts
      <3>2. \A n \in Nodes(q) : NodeOK(q, n)
        <4>1. ASSUME NEW n \in Nodes(q) PROVE NodeOK(q, n)
          <5>1. Done(q, q.vec, n)
            BY <3>1 DEF TreeOK
          <5> QED
            BY <5>1, NodeFacts
        <4> QED
          BY <4>1
      <3>3. /\ q.count \in Nat
            /\ \A r \in Rows(q) : /\ q.gidx[r] \in 0..(refs.n - 1)
                                  /\ q.vec[r] = refs.vec[q.gidx[r]] /\ partKey16(q.vec[r]) = k
            /\ \A r, s \in Rows(q) : q.gidx[r] = q.gidx[s] => r = s
        BY <3>1 DEF Holds
      <3>4. q.count > 0 => 0 \in Nodes(q) /\ Nodes(q) \subseteq Nat /\ q.lo[0] = 0 /\ q.hi[0] = q.count
        BY <3>1 DEF TreeOK
      <3> HIDE DEF kd
      <3> QED
        BY <2>1, <3>1, <3>2, <3>3, <3>4 DEF PartOK
    <2>4. ASSUME NEW g \in 0..(refs.n - 1)
          PROVE  \E k \in Keys : \E r \in Rows(parts[k]) : parts[k].gidx[r] = g
      <3>1. PICK k \in Keys : k = partKey16(refs.vec[g])
        BY KeyOf
      <3>2. Holds(parts[k], k, refs.n)
        BY BuiltFacts
      <3> QED
        BY <3>1, <3>2 DEF Holds
    <2> HIDE DEF kd
    <2> QED
      BY <2>1, <2>2, <2>3, <2>4 DEF IndexOK
  <1> QED
    BY <1>1, Invariance, PTL

(* Whatever the ties, the two children of a node differ by at most one row, so that the
   depth of a tree, and the stack of build and of a search, is logarithmic; and a leaf is no
   larger than leafSize unless its rows are all the same vector. *)
THEOREM TreesAreEven == Spec => []EvenTrees
  <1>1. BInv => EvenTrees
    <2> SUFFICES ASSUME BInv, pc = "built", NEW k \in Keys, NEW q, q = parts[k], NEW n \in Nodes(q)
                 PROVE  LET size(c) == q.hi[c] - q.lo[c]
                            nd      == q.nodes[n]
                        IN  IF nd.splitDim = leafMark
                            THEN size(n) <= leafSize \/ \A r, s \in Span(q, n) : q.vec[r] = q.vec[s]
                            ELSE size(nd.left) >= 1 /\ size(nd.right) - size(nd.left) \in {0, 1}
      BY Zenon DEF EvenTrees
    <2>1. Done(q, q.vec, n)
      BY BuiltFacts DEF TreeOK
    <2>2. CASE q.nodes[n].splitDim = leafMark
      <3>1. q.hi[n] - q.lo[n] <= leafSize \/ \A r, s \in Span(q, n) : q.vec[r] = q.vec[s]
        BY ONLY <2>1, <2>2, NodeFacts
      <3> QED
        BY ONLY <2>2, <3>1
    <2>3. CASE q.nodes[n].splitDim # leafMark
      <3>1. PICK l, r : l = q.nodes[n].left /\ r = q.nodes[n].right
        OBVIOUS
      <3>2. /\ q.hi[l] - q.lo[l] >= 1
            /\ (q.hi[r] - q.lo[r]) - (q.hi[l] - q.lo[l]) \in {0, 1}
        BY ONLY <2>1, <2>3, <3>1, NodeFacts
      <3> QED
        BY ONLY <2>3, <3>1, <3>2
    <2> QED
      BY ONLY <2>2, <2>3
  <1> QED
    BY <1>1, Invariance, PTL

-----------------------------------------------------------------------------
(* The slices of a part are as long as count says, or as there are nodes: an invariant of
   its own. *)
Whole(q) ==
  /\ q = [count |-> q.count, vec |-> q.vec, gidx |-> q.gidx,
          nodes |-> q.nodes, boxes |-> q.boxes, lo |-> q.lo, hi |-> q.hi]
  /\ q.count \in Nat /\ IsFun(q.vec, 0..(q.count - 1)) /\ IsFun(q.gidx, 0..(q.count - 1))
  /\ \E m \in Nat : IsFun(q.nodes, 0..(m - 1)) /\ IsFun(q.boxes, 0..(m - 1))

WholeInv == Whole(p) /\ DOMAIN parts = Keys /\ \A k \in Keys : Whole(parts[k])

LEMMA PushFun ==
  ASSUME NEW f, NEW m \in Nat, IsFun(f, 0..(m - 1)), NEW e
  PROVE  IsFun(Push(f, e), 0..m)
  <1>1. Cardinality(DOMAIN f) = m
    BY FS_Interval DEF IsFun
  <1> QED
    BY <1>1 DEF Push, IsFun

LEMMA AddNodeWhole ==
  ASSUME Whole(p), NEW nd, AddNode(nd)
  PROVE  Whole(p)'
  <1>1. PICK m \in Nat : IsFun(p.nodes, 0..(m - 1)) /\ IsFun(p.boxes, 0..(m - 1))
    BY DEF Whole
  <1>2. p' = [count |-> p.count, vec |-> p.vec, gidx |-> p.gidx,
              nodes |-> Push(p.nodes, nd), boxes |-> Push(p.boxes, box),
              lo |-> Push(p.lo, call.lo), hi |-> Push(p.hi, call.hi)]
    BY DEF Whole, AddNode
  <1>3. IsFun(p'.nodes, 0..m) /\ IsFun(p'.boxes, 0..m)
    BY <1>1, <1>2, PushFun
  <1>4. m + 1 \in Nat /\ (m + 1) - 1 = m
    OBVIOUS
  <1>5. \E w \in Nat : IsFun(p'.nodes, 0..(w - 1)) /\ IsFun(p'.boxes, 0..(w - 1))
    BY <1>3, <1>4
  <1> QED
    BY <1>2, <1>5 DEF Whole, IsFun

LEMMA ReturnWhole ==
  ASSUME Whole(p), Return
  PROVE  Whole(p)'
  <1>1. PICK m \in Nat : IsFun(p.nodes, 0..(m - 1)) /\ IsFun(p.boxes, 0..(m - 1))
    BY DEF Whole
  <1>2. PICK nd : p' = [p EXCEPT !.nodes[Top.idx] = nd]
    BY DEF Return
  <1>3. p' = [count |-> p.count, vec |-> p.vec, gidx |-> p.gidx,
              nodes |-> [p.nodes EXCEPT ![Top.idx] = nd], boxes |-> p.boxes,
              lo |-> p.lo, hi |-> p.hi]
    BY <1>2 DEF Whole
  <1>4. IsFun(p'.nodes, 0..(m - 1)) /\ IsFun(p'.boxes, 0..(m - 1))
    BY <1>1, <1>3 DEF IsFun
  <1> QED
    BY <1>3, <1>4 DEF Whole, IsFun

LEMMA AddRowWhole ==
  ASSUME NEW q, Whole(q), NEW u, NEW g
  PROVE  Whole(AddRow(q, u, g))
  <1>1. AddRow(q, u, g) = [count |-> q.count + 1, vec |-> Push(q.vec, u), gidx |-> Push(q.gidx, g),
                           nodes |-> q.nodes, boxes |-> q.boxes, lo |-> q.lo, hi |-> q.hi]
    <2>1. PICK c, v, h, nd, b, l, m :
            q = [count |-> c, vec |-> v, gidx |-> h, nodes |-> nd, boxes |-> b, lo |-> l, hi |-> m]
      BY DEF Whole
    <2> DEFINE V == Push(q.vec, u)
               G == Push(q.gidx, g)
               n == q.count + 1
    <2> HIDE DEF V, G, n
    <2>2. PICK w : w = [q EXCEPT !.vec = V]
      OBVIOUS
    <2>3. PICK x : x = [w EXCEPT !.gidx = G]
      OBVIOUS
    <2>4. AddRow(q, u, g) = [x EXCEPT !.count = n]
      BY <2>2, <2>3 DEF AddRow, V, G, n
    <2>5. w = [count |-> c, vec |-> V, gidx |-> h, nodes |-> nd, boxes |-> b, lo |-> l, hi |-> m]
      BY <2>1, <2>2
    <2>6. x = [count |-> c, vec |-> V, gidx |-> G, nodes |-> nd, boxes |-> b, lo |-> l, hi |-> m]
      BY <2>3, <2>5
    <2>7. AddRow(q, u, g)
          = [count |-> n, vec |-> V, gidx |-> G, nodes |-> nd, boxes |-> b, lo |-> l, hi |-> m]
      BY <2>4, <2>6
    <2>8. q.nodes = nd /\ q.boxes = b /\ q.lo = l /\ q.hi = m
      BY <2>1
    <2> QED
      BY <2>7, <2>8 DEF V, G, n
  <1>2. q.count \in Nat /\ (q.count + 1) - 1 = q.count /\ q.count + 1 \in Nat
    BY DEF Whole
  <1>3. IsFun(Push(q.vec, u), 0..q.count) /\ IsFun(Push(q.gidx, g), 0..q.count)
    BY <1>2, PushFun DEF Whole
  <1> QED
    BY <1>1, <1>2, <1>3 DEF Whole

LEMMA OrderedWhole ==
  ASSUME NEW q, Whole(q), NEW w
  PROVE  Whole(Ordered(q, w))
  <1>1. Ordered(q, w) = [count |-> q.count, vec |-> [r \in Rows(q) |-> q.vec[w[r]]],
                         gidx |-> [r \in Rows(q) |-> q.gidx[w[r]]],
                         nodes |-> q.nodes, boxes |-> q.boxes, lo |-> q.lo, hi |-> q.hi]
    <2>1. PICK c, v, h, nd, b, l, m :
            q = [count |-> c, vec |-> v, gidx |-> h, nodes |-> nd, boxes |-> b, lo |-> l, hi |-> m]
      BY DEF Whole
    <2> DEFINE A == [r \in Rows(q) |-> q.vec[w[r]]]
               B == [r \in Rows(q) |-> q.gidx[w[r]]]
    <2> HIDE DEF A, B
    <2>2. PICK x : x = [q EXCEPT !.vec = A]
      OBVIOUS
    <2>3. Ordered(q, w) = [x EXCEPT !.gidx = B]
      BY <2>2 DEF Ordered, A, B
    <2>4. x = [count |-> c, vec |-> A, gidx |-> h, nodes |-> nd, boxes |-> b, lo |-> l, hi |-> m]
      BY <2>1, <2>2
    <2>5. Ordered(q, w)
          = [count |-> c, vec |-> A, gidx |-> B, nodes |-> nd, boxes |-> b, lo |-> l, hi |-> m]
      BY <2>3, <2>4
    <2>6. /\ q.count = c /\ q.nodes = nd /\ q.boxes = b /\ q.lo = l /\ q.hi = m
      BY <2>1
    <2> QED
      BY <2>5, <2>6 DEF A, B
  <1> QED
    BY <1>1 DEF Whole, IsFun, Rows

LEMMA WholeInit == Init => WholeInv
  <1>1. IsFun(Nil, 0..(0 - 1))
    BY DEF Nil, IsFun
  <1>2. Whole(NoPart)
    BY <1>1, 0 \in Nat DEF Whole, NoPart
  <1> QED
    BY <1>2 DEF Init, WholeInv

LEMMA WholeNext == WholeInv /\ [Next]_vars => WholeInv'
  <1> SUFFICES ASSUME WholeInv, [Next]_vars PROVE WholeInv'
    OBVIOUS
  <1>1. \A j : Key(j) \in Keys
    BY DEF Key, Keys
  <1>2. CASE UNCHANGED <<p, parts>>
    BY <1>2 DEF WholeInv, Whole, IsFun
  <1>3. ASSUME UNCHANGED parts, Whole(p)' PROVE WholeInv'
    BY <1>3 DEF WholeInv, Whole, IsFun
  <1>4. CASE Leaf /\ UNCHANGED parts
    BY <1>3, <1>4, AddNodeWhole DEF Leaf, WholeInv
  <1>5. CASE Inner /\ UNCHANGED parts
    BY <1>3, <1>5, AddNodeWhole DEF Inner, WholeInv
  <1>6. CASE Return /\ UNCHANGED parts
    BY <1>3, <1>6, ReturnWhole DEF WholeInv
  <1>7. CASE BuildPart
    <2>1. p' = parts[Key(i)] /\ UNCHANGED parts
      BY <1>7 DEF BuildPart, Begin
    <2>2. Whole(parts[Key(i)])
      BY <1>1 DEF WholeInv
    <2> QED
      BY <1>3, <2>1, <2>2 DEF Whole, IsFun
  <1>8. ASSUME NEW k \in Keys, NEW q, Whole(q), parts' = [parts EXCEPT ![k] = q], UNCHANGED p
        PROVE  WholeInv'
    <2>1. DOMAIN parts' = Keys /\ \A j \in Keys : Whole(parts'[j])
      BY <1>8 DEF WholeInv
    <2>2. Whole(p')
      BY <1>8 DEF WholeInv
    <2> QED
      BY <2>1, <2>2 DEF WholeInv
  <1>9. CASE Distribute
    <2>1. PICK k : k = partKey16(refs.vec[i])
      OBVIOUS
    <2>2. k \in Keys
      BY <2>1, KeyOf
    <2>3. parts' = [parts EXCEPT ![k] = AddRow(parts[k], refs.vec[i], i)] /\ UNCHANGED p
      BY <1>9, <2>1 DEF Distribute, treeVars
    <2>4. Whole(AddRow(parts[k], refs.vec[i], i))
      BY <2>2, AddRowWhole DEF WholeInv
    <2> QED
      BY <1>8, <2>2, <2>3, <2>4
  <1>10. CASE PartBuilt
    <2>1. parts' = [parts EXCEPT ![Key(i)] = Ordered(p, perm)] /\ UNCHANGED p
      BY <1>10 DEF PartBuilt
    <2>2. Whole(Ordered(p, perm))
      BY OrderedWhole DEF WholeInv
    <2> QED
      BY <1>1, <1>8, <2>1, <2>2
  <1>11. CASE UNCHANGED vars
    BY <1>2, <1>11 DEF vars, treeVars
  <1>12. ASSUME NEW rec \in Records, Decode(rec) PROVE WholeInv'
    BY <1>2, <1>12 DEF Decode, treeVars
  <1>13. CASE Decoded \/ Distributed \/ SkipEmpty \/ AllBuilt
    BY <1>2, <1>13 DEF Decoded, Distributed, SkipEmpty, AllBuilt, treeVars
  <1>14. CASE TreeStep /\ UNCHANGED <<refs, parts, i>>
    BY <1>2, <1>4, <1>5, <1>6, <1>14
    DEF TreeStep, Pivot, Below, Above, Equal, Narrow, BuildLeft, BuildRight
  <1> QED
    BY <1>7, <1>9, <1>10, <1>11, <1>12, <1>13, <1>14 DEF Next

(* The slices of the index are whole, each from 0 to as many as its part counts, and the
   labels are those of the table: what IndexFile assumes of BuildKD (BuiltKDAssumption) is
   what the build produces. *)
THEOREM SlicesAreWhole == Spec => [](SlicesOK(kd) /\ kd.n = refs.n /\ kd.fraud = refs.fraud)
  <1>1. WholeInv => SlicesOK(kd) /\ kd.n = refs.n /\ kd.fraud = refs.fraud
    <2> SUFFICES ASSUME WholeInv PROVE SlicesOK(kd)
      BY DEF kd
    <2>1. kd.parts = parts
      BY DEF kd
    <2>2. ASSUME NEW k \in Keys, NEW q, q = parts[k]
          PROVE  /\ q.count \in Nat /\ q.vec = [r \in 0..(q.count - 1) |-> q.vec[r]]
                 /\ q.gidx = [r \in 0..(q.count - 1) |-> q.gidx[r]]
                 /\ IsFiniteSet(Nodes(q))
                 /\ q.nodes = [r \in 0..(Cardinality(Nodes(q)) - 1) |-> q.nodes[r]]
                 /\ q.boxes = [r \in 0..(Cardinality(Nodes(q)) - 1) |-> q.boxes[r]]
      <3>1. Whole(q)
        BY <2>2 DEF WholeInv
      <3>2. PICK m \in Nat : IsFun(q.nodes, 0..(m - 1)) /\ IsFun(q.boxes, 0..(m - 1))
        BY <3>1 DEF Whole
      <3>3. Nodes(q) = 0..(m - 1)
        BY <3>2 DEF Nodes, IsFun
      <3>4. IsFiniteSet(0..(m - 1)) /\ Cardinality(0..(m - 1)) = m
        BY FS_Interval
      <3> QED
        BY <3>1, <3>2, <3>3, <3>4 DEF Whole, IsFun
    <2> HIDE DEF kd
    <2> QED
      BY <2>1, <2>2 DEF SlicesOK
  <1> QED
    BY <1>1, WholeInit, WholeNext, PTL DEF Spec
=============================================================================
