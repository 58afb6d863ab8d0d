----------------------------- MODULE TreeBuild ------------------------------
(***************************************************************************)
(* buildPart of internal/index/kd.go: build(lo, hi) makes the node of the  *)
(* rows lo..hi-1, calls quickselect, which permutes them around the median *)
(* of the widest component, and then itself for either half. A step is a   *)
(* call or a return of build, or one round of a loop of quickselect; the   *)
(* calls that wait for another are on a stack.                             *)
(***************************************************************************)
EXTENDS KDTree, Sequences

VARIABLES
  pc,     (* "build" a node, "select", "partition", "selected" or "return"  *)
  p,      (* the part: its rows as they came, and the tree so far           *)
  perm,   (* row -> where it was                                            *)
  call,   (* lo and hi of the call of build that begins                     *)
  ret,    (* what the call of build that ended returns                      *)
  stack,  (* the calls of build that wait, the outermost first              *)
  sel     (* the variables of quickselect                                   *)

treeVars == <<pc, p, perm, call, ret, stack, sel>>

Nil == [j \in {} |-> 0]

(* append. *)
Push(f, x) == LET n == Cardinality(DOMAIN f) IN [j \in 0..n |-> IF j = n THEN x ELSE f[j]]

Node(dim, val, l, r) == [splitVal |-> val, splitDim |-> dim, left |-> l, right |-> r]
NoChild == -1
Frame(idx, lo, hi, dim) ==
  [idx |-> idx, lo |-> lo, hi |-> hi, dim |-> dim, sv |-> 0, l |-> NoChild]
Top    == stack[Len(stack)]
mid(f) == SplitRow(f.lo, f.hi)

-----------------------------------------------------------------------------
(* build, up to the call of quickselect. *)

box    == computeBox(p.vec, perm, call.lo, call.hi)
dim    == widestDim(box)
spread == box.hi[dim] - box.lo[dim]
idx    == Cardinality(Nodes(p))
AddNode(nd) ==
  p' = [p EXCEPT !.nodes = Push(@, nd), !.boxes = Push(@, box),
                 !.lo = Push(@, call.lo), !.hi = Push(@, call.hi)]

Leaf ==
  /\ pc = "build" /\ IsLeaf(call.lo, call.hi, spread)
  /\ AddNode(Node(leafMark, 0, call.lo, call.hi))
  /\ ret' = idx
  /\ pc' = "return"
  /\ UNCHANGED <<perm, call, stack, sel>>

Inner ==
  /\ pc = "build" /\ ~ IsLeaf(call.lo, call.hi, spread)
  /\ AddNode(Node(0, 0, 0, 0))
  /\ stack' = Append(stack, Frame(idx, call.lo, call.hi, dim))
  /\ sel' = [lo |-> call.lo, hi |-> call.hi, pivot |-> 0, lt |-> 0, i |-> 0, gt |-> 0]
  /\ pc' = "select"
  /\ UNCHANGED <<perm, call, ret>>

-----------------------------------------------------------------------------
(* quickselect(lo, hi, m, dim): [lo, lt) is below the pivot, [lt, i) equal,
   [i, gt) not yet seen, [gt, hi) above. *)

Pivot ==
  /\ pc = "select" /\ sel.hi - sel.lo > 1
  /\ LET pi == medianOfThree(p.vec, perm, sel.lo, sel.hi, Top.dim)
     IN  sel' = [sel EXCEPT !.pivot = p.vec[perm[pi]][Top.dim],
                            !.lt = sel.lo, !.i = sel.lo, !.gt = sel.hi]
  /\ pc' = "partition"
  /\ UNCHANGED <<p, perm, call, ret, stack>>

Scans == pc = "partition" /\ sel.i < sel.gt
value == p.vec[perm[sel.i]][Top.dim]

Below ==
  /\ Scans /\ value < sel.pivot
  /\ perm' = Swap(perm, sel.lt, sel.i)
  /\ sel' = [sel EXCEPT !.lt = @ + 1, !.i = @ + 1]
  /\ UNCHANGED <<pc, p, call, ret, stack>>

AboveSkips ==                                        \* bug: skips what it swaps in
  /\ Scans /\ value > sel.pivot
  /\ perm' = Swap(perm, sel.i, sel.gt - 1)
  /\ sel' = [sel EXCEPT !.gt = @ - 1, !.i = @ + 1]
  /\ UNCHANGED <<pc, p, call, ret, stack>>

Above ==
  /\ Scans /\ value > sel.pivot
  /\ perm' = Swap(perm, sel.i, sel.gt - 1)
  /\ sel' = [sel EXCEPT !.gt = @ - 1]
  /\ UNCHANGED <<pc, p, call, ret, stack>>

Equal ==
  /\ Scans /\ value = sel.pivot
  /\ sel' = [sel EXCEPT !.i = @ + 1]
  /\ UNCHANGED <<pc, p, perm, call, ret, stack>>

Narrow ==
  /\ pc = "partition" /\ sel.i >= sel.gt
  /\ \/ mid(Top) < sel.lt  /\ sel' = [sel EXCEPT !.hi = sel.lt] /\ pc' = "select"
     \/ mid(Top) >= sel.gt /\ sel' = [sel EXCEPT !.lo = sel.gt] /\ pc' = "select"
     \/ mid(Top) \in sel.lt..(sel.gt - 1) /\ pc' = "selected" /\ UNCHANGED sel
  /\ UNCHANGED <<p, perm, call, ret, stack>>

-----------------------------------------------------------------------------
(* build, after the call of quickselect. *)

BuildLeft ==
  /\ pc = "selected" \/ (pc = "select" /\ sel.hi - sel.lo <= 1)
  /\ stack' = [stack EXCEPT ![Len(stack)].sv = p.vec[perm[mid(Top)]][Top.dim]]
  /\ call' = [lo |-> Top.lo, hi |-> mid(Top)]
  /\ pc' = "build"
  /\ UNCHANGED <<p, perm, ret, sel>>

BuildRight ==
  /\ pc = "return" /\ stack # <<>> /\ Top.l = NoChild
  /\ stack' = [stack EXCEPT ![Len(stack)].l = ret]
  /\ call' = [lo |-> mid(Top), hi |-> Top.hi]
  /\ pc' = "build"
  /\ UNCHANGED <<p, perm, ret, sel>>

Return ==
  /\ pc = "return" /\ stack # <<>> /\ Top.l # NoChild
  /\ p' = [p EXCEPT !.nodes[Top.idx] = Node(Top.dim, Top.sv, Top.l, ret)]
  /\ ret' = Top.idx
  /\ stack' = SubSeq(stack, 1, Len(stack) - 1)
  /\ UNCHANGED <<pc, perm, call, sel>>

TreeStep == \/ Leaf \/ Inner \/ Pivot \/ Below \/ Above \/ Equal \/ Narrow
            \/ BuildLeft \/ BuildRight \/ Return

-----------------------------------------------------------------------------
(* The call build(0, count) of a part, and what is left when it returns. *)

Begin(part) ==
  /\ p' = part
  /\ perm' = [r \in Rows(part) |-> r]
  /\ call' = [lo |-> 0, hi |-> part.count]
  /\ stack' = <<>>
  /\ pc' = "build"
  /\ UNCHANGED <<ret, sel>>

(* The part with its rows in the order of the tree. *)
Ordered(part, order) ==
  [part EXCEPT !.vec  = [r \in Rows(part) |-> part.vec[order[r]]],
               !.gidx = [r \in Rows(part) |-> part.gidx[order[r]]]]
=============================================================================
