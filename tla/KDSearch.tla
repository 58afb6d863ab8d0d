----------------------------- MODULE KDSearch ------------------------------
(***************************************************************************)
(* KD.count (FraudCount5, FraudCount5All) and searchPart of                *)
(* internal/index/kd.go: the search for the K nearest references of a      *)
(* query. The home partition is searched first, the others in order of     *)
(* their gap; a node is pruned by its box or its split plane, and, when    *)
(* stop is set, all remaining partitions by their gap. best5 keeps the K   *)
(* best candidates, ordered by distance and then reference number.         *)
(*                                                                         *)
(* One step is one partition entered, one node popped, one row considered  *)
(* or the final count. sort.Slice is unstable, so partitions with the same *)
(* gap are probed in any order.                                            *)
(***************************************************************************)
EXTENDS KDIndex, Sequences

CONSTANTS
  K,        (* the number of neighbours, 5 in the code                 *)
  Indexes,  (* the indexes BuildKD makes of some reference tables      *)
  Queries   (* the quantized queries                                   *)

ASSUME KAssumption     == K \in Nat \ {0}
ASSUME IndexAssumption == \A x \in Indexes : IndexOK(x) /\ x.n >= K
ASSUME QueryAssumption == \A v \in Queries : Quantized(v)

VARIABLES
  kd,       (* the index that was opened at startup                    *)
  q, stop,  (* the arguments of count                                  *)
  best,     (* best5.dist and best5.gidx, slot by slot                 *)
  worst,    (* best5.worst                                             *)
  cur,      (* the partition being searched                            *)
  todo,     (* the partitions of probeOrder not yet reached            *)
  stack,    (* searchPart's stack of nodes, top first                  *)
  row, end, (* the rows of the current leaf still to consider          *)
  pc,       (* where count is                                          *)
  result    (* what count returned, -1 before it does                  *)

vars == <<kd, q, stop, best, worst, cur, todo, stack, row, end, pc, result>>

Slots == 0..(K - 1)
p     == kd.parts[cur]
home  == partKey16(q)

-----------------------------------------------------------------------------
(* best5 *)

(* The slot the scan from slot 0 ends with: the first of the worst. *)
IsWorst(b, w) == /\ \A j \in Slots : ~ Worse(b[j], b[w])
                 /\ \A j \in Slots : j < w => Worse(b[w], b[j])

considerOnce(e) ==                                   \* bug: worst is not searched again
  /\ best' = IF Worse(best[worst], e) THEN [best EXCEPT ![worst] = e] ELSE best
  /\ UNCHANGED worst

considerTies(e) ==                                   \* bug: a later tie replaces
  IF e.dist <= best[worst].dist
  THEN /\ best' = [best EXCEPT ![worst] = e]
       /\ worst' \in {w \in Slots : IsWorst(best', w)}
  ELSE UNCHANGED <<best, worst>>

consider(e) ==
  IF Worse(best[worst], e)
  THEN /\ best' = [best EXCEPT ![worst] = e]
       /\ worst' \in {w \in Slots : IsWorst(best', w)}
  ELSE UNCHANGED <<best, worst>>

worstDist == best[worst].dist

-----------------------------------------------------------------------------
(* searchPart *)

EnterPart ==
  /\ pc = "enter"
  /\ IF p.count = 0
     THEN pc' = "probe" /\ UNCHANGED stack
     ELSE pc' = "pop" /\ stack' = <<0>>
  /\ UNCHANGED <<kd, q, stop, best, worst, cur, todo, row, end, result>>

(* The node on top of the stack cannot hold a better candidate. *)
PopPruned ==
  /\ pc = "pop" /\ stack # <<>>
  /\ aabbLowerBound(p.boxes[Head(stack)], q) > worstDist
  /\ stack' = Tail(stack)
  /\ UNCHANGED <<kd, q, stop, best, worst, cur, todo, row, end, pc, result>>

PopLeaf ==
  /\ pc = "pop" /\ stack # <<>>
  /\ aabbLowerBound(p.boxes[Head(stack)], q) <= worstDist
  /\ p.nodes[Head(stack)].splitDim = leafMark
  /\ row' = p.nodes[Head(stack)].left
  /\ end' = p.nodes[Head(stack)].right
  /\ stack' = Tail(stack)
  /\ pc' = "leaf"
  /\ UNCHANGED <<kd, q, stop, best, worst, cur, todo, result>>

PushFarFirst(nd) ==                                  \* bug: sides swapped
  LET delta == q[nd.splitDim] - nd.splitVal
      near  == IF delta <= 0 THEN nd.right ELSE nd.left
      far   == IF delta <= 0 THEN nd.left ELSE nd.right
  IN  IF Sq(delta) <= worstDist THEN <<near, far>> ELSE <<near>>

PushLeft(nd) ==                                      \* bug: left in both branches
  LET delta == q[nd.splitDim] - nd.splitVal
      near  == IF delta <= 0 THEN nd.left ELSE nd.right
  IN  IF Sq(delta) <= worstDist THEN <<near, nd.left>> ELSE <<near>>

(* The near child goes on top; the far child below it, if the split plane
   is not farther than the worst candidate. *)
Push(nd) ==
  LET delta == q[nd.splitDim] - nd.splitVal
      near  == IF delta <= 0 THEN nd.left ELSE nd.right
      far   == IF delta <= 0 THEN nd.right ELSE nd.left
  IN  IF Sq(delta) <= worstDist THEN <<near, far>> ELSE <<near>>

PopInner ==
  /\ pc = "pop" /\ stack # <<>>
  /\ aabbLowerBound(p.boxes[Head(stack)], q) <= worstDist
  /\ p.nodes[Head(stack)].splitDim # leafMark
  /\ stack' = Push(p.nodes[Head(stack)]) \o Tail(stack)
  /\ UNCHANGED <<kd, q, stop, best, worst, cur, todo, row, end, pc, result>>

ConsiderRow ==
  /\ pc = "leaf" /\ row < end
  /\ consider(Entry(sqDist(q, p.vec[row]), p.gidx[row]))
  /\ row' = row + 1
  /\ UNCHANGED <<kd, q, stop, cur, todo, stack, end, pc, result>>

LeafDone ==
  /\ pc = "leaf" /\ row = end
  /\ pc' = "pop"
  /\ UNCHANGED <<kd, q, stop, best, worst, cur, todo, stack, row, end, result>>

PartDone ==
  /\ pc = "pop" /\ stack = <<>>
  /\ pc' = "probe"
  /\ UNCHANGED <<kd, q, stop, best, worst, cur, todo, stack, row, end, result>>

-----------------------------------------------------------------------------
(* count *)

(* ob may come next in probeOrder[home], which is sorted by gap. *)
NextInOrder(ob) ==
  /\ ob \in todo
  /\ \A other \in todo : gapBits(home, ob) <= gapBits(home, other)

GapStopsAtTie(ob)  == stop /\ gapBits(home, ob) >= worstDist      \* bug: >= for >
GapStopsAtSlot(ob) == stop /\ gapBits(home, ob) > best[0].dist     \* bug: not the worst

GapStops(ob) == stop /\ gapBits(home, ob) > worstDist

ProbeStays(ob) ==                                    \* bug: does not advance
  /\ pc = "probe"
  /\ NextInOrder(ob)
  /\ ~ GapStops(ob)
  /\ cur' = ob
  /\ pc' = "enter"
  /\ UNCHANGED <<kd, q, stop, best, worst, todo, stack, row, end, result>>

Probe(ob) ==
  /\ pc = "probe"
  /\ NextInOrder(ob)
  /\ ~ GapStops(ob)
  /\ cur' = ob
  /\ todo' = todo \ {ob}
  /\ pc' = "enter"
  /\ UNCHANGED <<kd, q, stop, best, worst, stack, row, end, result>>

(* The frauds among the candidates; indexing kd.fraud with the reference
   number of an empty slot panics. *)
Count ==
  /\ pc = "probe"
  /\ todo = {} \/ \E ob \in todo : NextInOrder(ob) /\ GapStops(ob)
  /\ IF \A i \in Slots : best[i].gidx \in Ids(kd)
     THEN /\ pc' = "done"
          /\ result' = Cardinality({i \in Slots : kd.fraud[best[i].gidx]})
     ELSE pc' = "panic" /\ UNCHANGED result
  /\ UNCHANGED <<kd, q, stop, best, worst, cur, todo, stack, row, end>>

-----------------------------------------------------------------------------
(* The partitions in probeOrder[key]. *)
AllKeys(key)    == Keys                              \* bug: home is not left out
probeOrder(key) == Keys \ {key}

Init ==
  /\ kd \in Indexes
  /\ q \in Queries
  /\ stop \in BOOLEAN
  /\ best = [i \in Slots |-> Empty]
  /\ worst = 0
  /\ cur = partKey16(q)
  /\ todo = probeOrder(partKey16(q))
  /\ stack = <<>>
  /\ row = 0 /\ end = 0
  /\ pc = "enter"
  /\ result = -1

Next ==
  \/ EnterPart \/ PopPruned \/ PopLeaf \/ PopInner
  \/ ConsiderRow \/ LeafDone \/ PartDone
  \/ \E ob \in Keys : Probe(ob)
  \/ Count

Spec     == Init /\ [][Next]_vars
FairSpec == Spec /\ WF_vars(Next)

-----------------------------------------------------------------------------
(* What the search is for. *)

(* The entry consider is given for reference g. *)
Candidate(g) == Entry(sqDist(q, kd.vec[g]), g)

(* Row r of partition k has still to be considered or pruned. *)
Pending(k, r) ==
  \/ pc \notin {"done", "panic"} /\ k \in todo
  \/ pc = "enter" /\ k = cur
  \/ pc \in {"pop", "leaf"} /\ k = cur /\ \E i \in 1..Len(stack) : r \in Span(p, stack[i])
  \/ pc = "leaf" /\ k = cur /\ r \in row..(end - 1)

Chosen(g) == \E i \in Slots : best[i] = Candidate(g)
Beaten(g) == \A i \in Slots : Worse(Candidate(g), best[i])

-----------------------------------------------------------------------------
(* The index and the query do not change during a search. *)
ArgsOK == kd \in Indexes /\ q \in Queries

(* Types: in particular the count indexes the six prepared responses of
   server.Handler, so it stays within 0..K. *)
TypeOK ==
  /\ stop \in BOOLEAN
  /\ best \in [Slots -> [dist : Nat, gidx : Nat]]
  /\ worst \in Slots
  /\ cur \in Keys /\ todo \in SUBSET (Keys \ {cur})
  /\ stack \in Seq(Nat)
  /\ row \in Nat /\ end \in Nat
  /\ pc \in {"enter", "pop", "leaf", "probe", "done", "panic"}
  /\ result \in -1..K

(* best5 holds references with their own distances, no reference twice, and
   worst points at the worst of them: consider overwrites the right slot. *)
BestOK ==
  /\ \A j \in Slots : ~ Worse(best[j], best[worst])
  /\ \A i \in Slots : \/ best[i] = Empty
                      \/ best[i].gidx \in Ids(kd) /\ best[i] = Candidate(best[i].gidx)
  /\ \A i, j \in Slots : best[i].gidx = best[j].gidx /\ best[i] # Empty => i = j

(* searchPart's stack holds nodes of the current part whose rows are disjoint
   from one another and from the leaf being scanned: no row is seen twice. *)
StackOK ==
  pc \in {"pop", "leaf"} =>
    /\ p.count > 0
    /\ \A i \in 1..Len(stack) : stack[i] \in Nodes(p)
    /\ \A i, j \in 1..Len(stack) : i # j => Span(p, stack[i]) \cap Span(p, stack[j]) = {}
    /\ pc = "leaf" =>
         /\ row <= end /\ end <= p.count
         /\ \A i \in 1..Len(stack) : Span(p, stack[i]) \cap (row..(end - 1)) = {}

(* A row still pending is not among the candidates already. *)
Fresh ==
  \A k \in Keys : \A r \in Rows(kd.parts[k]) :
    Pending(k, r) => \A i \in Slots : best[i].gidx # kd.parts[k].gidx[r]

(* best5, the stack and the rows not yet seen agree at every step: no candidate
   is overwritten that is not the worst, and no row is considered twice. *)
Bookkeeping == BestOK /\ StackOK /\ Fresh

(* No row is lost: at every step of the search each row is pending, among the
   candidates, or worse than all of them, whatever box, plane or gap pruned
   it. *)
Covered ==
  \A k \in Keys : \A r \in Rows(kd.parts[k]) :
    LET g == kd.parts[k].gidx[r]
    IN  Pending(k, r) \/ Chosen(g) \/ Beaten(g)

(* count returns with K different references, each better than every
   reference it left out. *)
Exact ==
  pc = "done" =>
    /\ \A i \in Slots : best[i].gidx \in Ids(kd) /\ best[i] = Candidate(best[i].gidx)
    /\ \A i, j \in Slots : best[i].gidx = best[j].gidx => i = j
    /\ \A g \in Ids(kd) : (\A i \in Slots : best[i].gidx # g) => Beaten(g)

(* The search implements the abstract one: count answers once, with the number of
   frauds among the K nearest references, whatever it pruned on the way, and it
   does answer: FraudCount5 = FraudCount5All = the full scan. *)
Oracle == INSTANCE NearestCount WITH
            refs      <- kd,
            among     <- Ids(kd),
            query     <- q,
            neighbors <- IF pc = "done" THEN {best[i].gidx : i \in Slots} ELSE {},
            count     <- result
CountsNearest == Oracle!Spec

(* count never indexes kd.fraud with the number of an empty slot. *)
NoPanic == pc # "panic"

(* The worst candidate never gets worse, so what was pruned by it stays out. *)
WorstNeverGrows == [][~ Worse(best'[worst'], best[worst])]_vars
=============================================================================
