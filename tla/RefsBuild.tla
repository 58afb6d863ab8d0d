----------------------------- MODULE RefsBuild ------------------------------
(***************************************************************************)
(* The making of the index: Build of internal/index/refs.go decodes the    *)
(* official references one by one and quantizes them, then BuildKD of      *)
(* kd.go distributes them over the partitions and builds a tree in each    *)
(* (module TreeBuild). A reference component is written as twice the value *)
(* the code multiplies by 10000, so that the halves roundHalfAway is about *)
(* are integers.                                                           *)
(***************************************************************************)
EXTENDS TreeBuild

CONSTANTS
  Records,  (* the records of the file: vector (doubled) and label          *)
  MaxRefs   (* bound: references in the file                                *)

\* A component of the official references is in 0..1, a flag 0 or 1; the fifth
\* and sixth are both -1 without a previous transaction.
ASSUME RecordsAssumption == \A rec \in Records :
  /\ rec.vector \in [RawDims -> (-2 * QScale)..(2 * QScale)]
  /\ \A d \in RawDims \ {5, 6} : rec.vector[d] >= 0
  /\ \A d \in {9, 10, 11} : rec.vector[d] \in {0, 2 * QScale}
  /\ \/ rec.vector[5] = -2 * QScale /\ rec.vector[6] = -2 * QScale
     \/ rec.vector[5] >= 0 /\ rec.vector[6] >= 0
ASSUME MaxRefsAssumption == MaxRefs \in Nat /\ MaxRefs <= NoId

VARIABLES
  refs,     (* the table Build has read                                     *)
  parts,    (* kd.parts                                                     *)
  i         (* the variable of BuildKD's loops                              *)

vars == <<refs, parts, i, treeVars>>

(* What BuildKD returns. *)
kd == [n |-> refs.n, vec |-> refs.vec, fraud |-> refs.fraud, parts |-> parts]

-----------------------------------------------------------------------------
roundWithoutSign(h) ==                               \* bug: adds 0.5 to negatives too
  IF h + 1 < 0 THEN -((-(h + 1)) \div 2) ELSE (h + 1) \div 2

(* roundHalfAway(h / 2): the conversion to int64 drops the fraction. *)
roundHalfAway(h) == IF h < 0 THEN -((1 - h) \div 2) ELSE (h + 1) \div 2

quantize(u) == [d \in Dims |-> IF d \in RawDims THEN roundHalfAway(u[d]) ELSE 0]

NoRefs == [n |-> 0, vec |-> Nil, fraud |-> Nil]
NoPart == [count |-> 0, vec |-> Nil, gidx |-> Nil,
           nodes |-> Nil, boxes |-> Nil, lo |-> Nil, hi |-> Nil]

Decode(rec) ==
  /\ pc = "decode" /\ refs.n < MaxRefs
  /\ refs' = [n     |-> refs.n + 1,
              vec   |-> Push(refs.vec, quantize(rec.vector)),
              fraud |-> Push(refs.fraud, rec.label = "fraud")]
  /\ UNCHANGED <<parts, i, treeVars>>

Decoded ==
  /\ pc = "decode"
  /\ pc' = "distribute"
  /\ UNCHANGED <<refs, parts, i, p, perm, call, ret, stack, sel>>

-----------------------------------------------------------------------------
(* BuildKD. *)

AddRow(part, u, g) ==
  [part EXCEPT !.vec = Push(@, u), !.gidx = Push(@, g), !.count = @ + 1]

Distribute ==
  /\ pc = "distribute" /\ i < refs.n
  /\ LET u == refs.vec[i]
     IN  parts' = [parts EXCEPT ![partKey16(u)] = AddRow(@, u, i)]
  /\ i' = i + 1
  /\ UNCHANGED <<refs, treeVars>>

Distributed ==
  /\ pc = "distribute" /\ i = refs.n
  /\ i' = 0
  /\ pc' = "parts"
  /\ UNCHANGED <<refs, parts, p, perm, call, ret, stack, sel>>

BuildPart ==
  /\ pc = "parts" /\ i < 16 /\ parts[Key(i)].count > 0
  /\ Begin(parts[Key(i)])
  /\ UNCHANGED <<refs, parts, i>>

SkipEmpty ==
  /\ pc = "parts" /\ i < 16 /\ parts[Key(i)].count = 0
  /\ i' = i + 1
  /\ UNCHANGED <<refs, parts, treeVars>>

PartBuilt ==
  /\ pc = "return" /\ stack = <<>>
  /\ parts' = [parts EXCEPT ![Key(i)] = Ordered(p, perm)]
  /\ i' = i + 1
  /\ pc' = "parts"
  /\ UNCHANGED <<refs, p, perm, call, ret, stack, sel>>

AllBuilt ==
  /\ pc = "parts" /\ i = 16
  /\ pc' = "built"
  /\ UNCHANGED <<refs, parts, i, p, perm, call, ret, stack, sel>>

Init ==
  /\ refs = NoRefs /\ parts = [k \in Keys |-> NoPart] /\ i = 0 /\ pc = "decode"
  /\ p = NoPart /\ perm = Nil /\ call = [lo |-> 0, hi |-> 0] /\ ret = 0 /\ stack = <<>>
  /\ sel = [lo |-> 0, hi |-> 0, pivot |-> 0, lt |-> 0, i |-> 0, gt |-> 0]

Next ==
  \/ Decoded \/ \E rec \in Records : Decode(rec)
  \/ Distribute \/ Distributed \/ BuildPart \/ SkipEmpty \/ PartBuilt \/ AllBuilt
  \/ TreeStep /\ UNCHANGED <<refs, parts, i>>
Spec == Init /\ [][Next]_vars

-----------------------------------------------------------------------------
(* Types: in particular every vector is quantized, the sentinel exactly. *)
TypeOK ==
  /\ refs.n \in 0..MaxRefs /\ i \in Nat
  /\ \A g \in 0..(refs.n - 1) : Quantized(refs.vec[g]) /\ refs.fraud[g] \in BOOLEAN
  /\ pc \in {"decode", "distribute", "parts", "build", "select", "partition", "selected",
             "return", "built"}
  /\ perm \in [Rows(p) -> Rows(p)]
  /\ call \in [lo : Nat, hi : Nat] /\ ret \in Nat
  /\ \A f \in 1..Len(stack) :
       stack[f] \in [idx : Nat, lo : Nat, hi : Nat, dim : Dims, sv : Int, l : Nat \cup {NoChild}]
  /\ sel \in [lo : Nat, hi : Nat, pivot : Int, lt : Nat, i : Nat, gt : Nat]

(* BuildKD makes a well-formed index of any table: each reference is in one row
   of its own partition, the permutation having lost none, each box bounds its
   rows, and each split plane separates the rows of the two children. This is
   all the search assumes (IndexAssumption of KDSearch). *)
WellFormed == pc = "built" => IndexOK(kd)

(* The trees are as deep as the logarithm of their size, which bounds the stack of a
   search: the children of a node differ by at most one row, whatever the ties, and
   a leaf has at most leafSize rows, unless they are all the same vector. *)
EvenTrees ==
  pc = "built" =>
    \A k \in Keys : LET q == parts[k] IN
      \A n \in Nodes(q) :
        LET size(c) == q.hi[c] - q.lo[c]
            nd      == q.nodes[n]
        IN  IF nd.splitDim = leafMark
            THEN size(n) <= leafSize \/ \A r, s \in Span(q, n) : q.vec[r] = q.vec[s]
            ELSE size(nd.left) >= 1 /\ size(nd.right) - size(nd.left) \in {0, 1}
=============================================================================
