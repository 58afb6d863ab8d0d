------------------------------- MODULE KDTree -------------------------------
(***************************************************************************)
(* What building a KD tree is made of (internal/index/kd.go): the box of a *)
(* range of rows, the component to split it along, the row to split it at  *)
(* and the median of three. A vector array with a permutation perm is a    *)
(* pair of functions: row r is vec[perm[r]].                               *)
(***************************************************************************)
EXTENDS KDIndex, FiniteSetsExt

CONSTANT leafSize    (* 64 in the code *)

ASSUME LeafSizeAssumption == leafSize \in Nat \ {0}

Swap(f, i, j) == [f EXCEPT ![i] = f[j], ![j] = f[i]]

medianOfThree(vec, perm, lo, hi, dim) ==
  LET mid == (lo + hi) \div 2
      a   == vec[perm[lo]][dim]
      b   == vec[perm[mid]][dim]
      c   == vec[perm[hi - 1]][dim]
  IN  IF a < b
      THEN CASE b < c -> mid [] b >= c /\ a < c -> hi - 1 [] OTHER -> lo
      ELSE CASE a < c -> lo  [] a >= c /\ b < c -> hi - 1 [] OTHER -> mid

computeBox(vec, perm, lo, hi) ==
  LET column(d) == {vec[perm[i]][d] : i \in lo..(hi - 1)}
  IN  [lo |-> [d \in Dims |-> Min(column(d))],
       hi |-> [d \in Dims |-> Max(column(d))]]

(* The first of the widest dimensions. *)
widestDim(box) ==
  LET spread(d) == box.hi[d] - box.lo[d]
  IN  CHOOSE d \in RawDims :
        \A e \in RawDims : \/ spread(e) < spread(d)
                           \/ spread(e) = spread(d) /\ d <= e

IsLeaf(lo, hi, spread) == hi - lo <= leafSize \/ spread = 0

SplitRow(lo, hi) == (lo + hi) \div 2
=============================================================================
