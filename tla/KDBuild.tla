------------------------------ MODULE KDBuild ------------------------------
(***************************************************************************)
(* BuildKD of internal/index/kd.go as a function of the table, which gives *)
(* other modules their indexes. RefsBuild makes the same index step by     *)
(* step.                                                                   *)
(***************************************************************************)
EXTENDS KDTree, Sequences, SequencesExt

(* The three-way partition around pivot: [lo, lt) below, [lt, i) equal,
   [i, gt) not yet seen, [gt, hi) above. *)
RECURSIVE Partition3(_, _, _, _, _, _, _)
Partition3(vec, perm, dim, pivot, lt, i, gt) ==
  IF i >= gt
  THEN [perm |-> perm, lt |-> lt, gt |-> gt]
  ELSE LET v == vec[perm[i]][dim] IN
       CASE v < pivot ->
              Partition3(vec, Swap(perm, lt, i), dim, pivot, lt + 1, i + 1, gt)
         [] v > pivot ->
              Partition3(vec, Swap(perm, i, gt - 1), dim, pivot, lt, i, gt - 1)
         [] OTHER ->
              Partition3(vec, perm, dim, pivot, lt, i + 1, gt)

RECURSIVE quickselect(_, _, _, _, _, _)
quickselect(vec, perm, lo, hi, k, dim) ==
  IF hi - lo <= 1
  THEN perm
  ELSE LET pivot == vec[perm[medianOfThree(vec, perm, lo, hi, dim)]][dim]
           s     == Partition3(vec, perm, dim, pivot, lo, lo, hi)
       IN  CASE k < s.lt  -> quickselect(vec, s.perm, lo, s.lt, k, dim)
             [] k >= s.gt -> quickselect(vec, s.perm, s.gt, hi, k, dim)
             [] OTHER     -> s.perm

(* build(lo, hi): st collects the nodes in preorder; node i is nodes[i + 1]. *)
RECURSIVE build(_, _, _, _)
build(vec, st, lo, hi) ==
  LET idx == Len(st.nodes)
      box == computeBox(vec, st.perm, lo, hi)
      dim == widestDim(box)
      add(nd) == [st EXCEPT !.nodes = Append(@, nd), !.boxes = Append(@, box),
                            !.lo = Append(@, lo), !.hi = Append(@, hi)]
      leaf == [splitVal |-> 0, splitDim |-> leafMark, left |-> lo, right |-> hi]
  IN  IF IsLeaf(lo, hi, box.hi[dim] - box.lo[dim])
      THEN add(leaf)
      ELSE LET m     == SplitRow(lo, hi)
               perm  == quickselect(vec, st.perm, lo, hi, m, dim)
               left  == build(vec, [add(leaf) EXCEPT !.perm = perm], lo, m)
               right == build(vec, left, m, hi)
           IN  [right EXCEPT !.nodes[idx + 1] =
                  [splitVal |-> vec[perm[m]][dim], splitDim |-> dim,
                   left |-> idx + 1, right |-> Len(left.nodes)]]

ZeroBased(s) == [i \in 0..(Len(s) - 1) |-> s[i + 1]]

(* The part of the references ids: its tree, and its rows in tree order. *)
buildPart(refs, ids) ==
  LET n    == Cardinality(ids)
      gidx == ZeroBased(SetToSortSeq(ids, <))
      vec  == [r \in 0..(n - 1) |-> refs.vec[gidx[r]]]
      st0  == [perm |-> [r \in 0..(n - 1) |-> r],
               nodes |-> <<>>, boxes |-> <<>>, lo |-> <<>>, hi |-> <<>>]
      st   == IF n > 0 THEN build(vec, st0, 0, n) ELSE st0
  IN  [count |-> n,
       vec   |-> [r \in 0..(n - 1) |-> vec[st.perm[r]]],
       gidx  |-> [r \in 0..(n - 1) |-> gidx[st.perm[r]]],
       nodes |-> ZeroBased(st.nodes), boxes |-> ZeroBased(st.boxes),
       lo    |-> ZeroBased(st.lo),    hi    |-> ZeroBased(st.hi)]

BuildKD(refs) ==
  [n |-> refs.n, vec |-> refs.vec, fraud |-> refs.fraud,
   parts |-> [k \in Keys |->
                buildPart(refs, {i \in 0..(refs.n - 1) : partKey16(refs.vec[i]) = k})]]
=============================================================================
