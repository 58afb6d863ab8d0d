-------------------------- MODULE KDSearchProofs ---------------------------
(***************************************************************************)
(* The search is exact, for every index BuildKD may produce, every query,  *)
(* every K and both values of stop.                                        *)
(*                                                                         *)
(* IInv is inductive. Its core is Covered: a row is pending, chosen or     *)
(* beaten. A row stops being pending only by being considered or by being  *)
(* pruned, and what is pruned is beaten because the box, the split plane   *)
(* and the gap are lower bounds (KDIndexProofs). A beaten row stays beaten *)
(* because the candidates only get better.                                 *)
(***************************************************************************)
EXTENDS KDSearch, KDIndexProofs

IInv == TypeOK /\ ArgsOK /\ BestOK /\ StackOK /\ Fresh /\ Covered

-----------------------------------------------------------------------------
(* What the assumptions on the index give. *)

LEMMA IndexFacts ==
  ASSUME ArgsOK
  PROVE  /\ IndexOK(kd) /\ Quantized(q)
         /\ K \in Nat /\ kd.n \in Nat /\ K <= kd.n /\ kd.n <= NoId
         /\ QScale \in Nat /\ Inf \in Nat /\ NoId \in Nat
         /\ q \in [Dims -> Int]
  <1>1. IndexOK(kd) /\ kd.n >= K /\ Quantized(q)
    BY IndexAssumption, QueryAssumption DEF ArgsOK
  <1>2. QScale \in Nat /\ Inf \in Nat /\ NoId \in Nat /\ K \in Nat
    BY QScaleAssumption, InfAssumption, NoIdAssumption, KAssumption
  <1>3. kd.n \in Nat /\ kd.n <= NoId
    BY <1>1 DEF IndexOK
  <1>4. q \in [Dims -> Int]
    BY <1>1, <1>2 DEF Quantized
  <1> QED
    BY <1>1, <1>2, <1>3, <1>4

(* A reference's candidate fits a slot and is better than an empty one. *)
LEMMA CandidateFacts ==
  ASSUME ArgsOK, NEW g \in Ids(kd)
  PROVE  /\ Candidate(g) \in Entries /\ Empty \in Entries
         /\ Candidate(g).gidx = g /\ g \in Nat /\ g < NoId
         /\ Candidate(g).dist = sqDist(q, kd.vec[g])
         /\ Worse(Empty, Candidate(g))
         /\ Candidate(g) # Empty
  <1>1. Quantized(kd.vec[g])
    BY IndexFacts DEF IndexOK
  <1>2. sqDist(q, kd.vec[g]) \in Nat /\ sqDist(q, kd.vec[g]) < Inf
    BY <1>1, IndexFacts, DistBelowInf
  <1>3. g \in Nat /\ g < NoId
    BY IndexFacts DEF Ids
  <1> QED
    BY <1>2, <1>3, IndexFacts DEF Candidate, Entry, Empty, Entries, Worse

(* A row of a partition stands for one reference of its key. *)
LEMMA RowFacts ==
  ASSUME ArgsOK, NEW k \in Keys, NEW r \in Rows(kd.parts[k])
  PROVE  /\ kd.parts[k].gidx[r] \in Ids(kd)
         /\ kd.parts[k].vec[r] = kd.vec[kd.parts[k].gidx[r]]
         /\ partKey16(kd.parts[k].vec[r]) = k
         /\ Quantized(kd.parts[k].vec[r])
         /\ kd.parts[k].vec[r] \in [Dims -> Int]
         /\ Candidate(kd.parts[k].gidx[r]) =
              Entry(sqDist(q, kd.parts[k].vec[r]), kd.parts[k].gidx[r])
  <1>1. PartOK(kd, k)
    BY IndexFacts DEF IndexOK
  <1>2. /\ kd.parts[k].gidx[r] \in Ids(kd)
        /\ kd.parts[k].vec[r] = kd.vec[kd.parts[k].gidx[r]]
        /\ partKey16(kd.parts[k].vec[r]) = k
    BY <1>1 DEF PartOK
  <1>3. Quantized(kd.parts[k].vec[r])
    BY <1>2, IndexFacts DEF IndexOK
  <1>4. kd.parts[k].vec[r] \in [Dims -> Int]
    BY <1>3, IndexFacts DEF Quantized
  <1> QED
    BY <1>2, <1>3, <1>4 DEF Candidate

LEMMA RowUnique ==
  ASSUME ArgsOK, NEW k \in Keys, NEW r \in Rows(kd.parts[k]),
         NEW j \in Keys, NEW s \in Rows(kd.parts[j]),
         kd.parts[k].gidx[r] = kd.parts[j].gidx[s]
  PROVE  k = j /\ r = s
  <1>1. k = j
    BY RowFacts
  <1>2. PartOK(kd, k)
    BY IndexFacts DEF IndexOK
  <1> QED
    BY <1>1, <1>2 DEF PartOK

(* A node of the current partition. *)
LEMMA NodeFacts ==
  ASSUME ArgsOK, cur \in Keys, p.count > 0, NEW n \in Nodes(p)
  PROVE  /\ NodeOK(p, n) /\ n \in Nat /\ 0 \in Nodes(p)
         /\ p.lo[0] = 0 /\ p.hi[0] = p.count /\ p.count \in Nat
         /\ Span(p, n) \subseteq Rows(p)
         /\ p.lo[n] \in Nat /\ p.hi[n] \in Nat
         /\ p.lo[n] < p.hi[n] /\ p.hi[n] <= p.count
  <1>1. PartOK(kd, cur)
    BY IndexFacts DEF IndexOK
  <1>2. NodeOK(p, n) /\ n \in Nat /\ 0 \in Nodes(p) /\ p.count \in Nat
        /\ p.lo[0] = 0 /\ p.hi[0] = p.count
    BY <1>1 DEF PartOK, p
  <1>3. p.lo[n] \in Nat /\ p.hi[n] \in Nat /\ p.lo[n] < p.hi[n] /\ p.hi[n] <= p.count
    BY <1>2 DEF NodeOK
  <1> QED
    BY <1>2, <1>3 DEF Span, Rows

-----------------------------------------------------------------------------
(* Pruning: what is farther than the worst candidate is beaten. *)
LEMMA FarIsBeaten ==
  ASSUME TypeOK, ArgsOK, BestOK, NEW g \in Ids(kd), Candidate(g).dist > worstDist
  PROVE  Beaten(g)
  <1> SUFFICES ASSUME NEW i \in Slots PROVE Worse(Candidate(g), best[i])
    BY DEF Beaten
  <1>1. best[i] \in Entries /\ best[worst] \in Entries /\ Candidate(g) \in Entries
    BY CandidateFacts DEF TypeOK, Entries
  <1>2. best[i].dist <= best[worst].dist
    BY <1>1, WorseOrder DEF BestOK
  <1>3. Candidate(g).dist > best[i].dist
    BY <1>1, <1>2 DEF worstDist, Entries
  <1> QED
    BY <1>1, <1>3, WorseOrder

(* Rows of the current partition farther than the worst candidate. *)
LEMMA FarRowIsBeaten ==
  ASSUME TypeOK, ArgsOK, BestOK, NEW k \in Keys, NEW r \in Rows(kd.parts[k]),
         NEW b \in Nat, b <= sqDist(q, kd.parts[k].vec[r]), b > worstDist
  PROVE  Beaten(kd.parts[k].gidx[r])
  <1> DEFINE g == kd.parts[k].gidx[r]
  <1>1. g \in Ids(kd) /\ Candidate(g) = Entry(sqDist(q, kd.parts[k].vec[r]), g)
    BY RowFacts
  <1>2. sqDist(q, kd.parts[k].vec[r]) \in Nat
    BY RowFacts, IndexFacts, DistBelowInf
  <1>3. worstDist \in Nat
    BY DEF TypeOK, worstDist
  <1>4. Candidate(g).dist > worstDist
    BY <1>1, <1>2, <1>3 DEF Entry
  <1> QED
    BY <1>1, <1>4, FarIsBeaten

-----------------------------------------------------------------------------
(* best5: what one call of consider does with a reference not yet chosen. *)

LEMMA ConsiderType ==
  ASSUME TypeOK, BestOK, NEW e \in Entries, consider(e)
  PROVE  /\ best' \in [Slots -> Entries] /\ worst' \in Slots
         /\ \A j \in Slots : ~ Worse(best'[j], best'[worst'])
         /\ \/ best' = best /\ worst' = worst /\ ~ Worse(best[worst], e)
            \/ best' = [best EXCEPT ![worst] = e] /\ Worse(best[worst], e)
  <1>1. best \in [Slots -> Entries] /\ worst \in Slots
    BY DEF TypeOK, Entries
  <1>2. CASE Worse(best[worst], e)
    <2>1. best' = [best EXCEPT ![worst] = e] /\ worst' \in Slots /\ IsWorst(best', worst')
      BY <1>2 DEF consider
    <2> QED
      BY <1>1, <1>2, <2>1 DEF IsWorst
  <1>3. CASE ~ Worse(best[worst], e)
    <2>1. best' = best /\ worst' = worst
      BY <1>3 DEF consider
    <2> QED
      BY <1>1, <1>3, <2>1 DEF BestOK
  <1> QED
    BY <1>2, <1>3

LEMMA ConsiderBest ==
  ASSUME TypeOK, ArgsOK, BestOK, NEW g \in Ids(kd),
         \A i \in Slots : best[i].gidx # g,
         consider(Candidate(g)), kd' = kd, q' = q
  PROVE  /\ BestOK'
         /\ \A h \in Ids(kd) : Chosen(h) \/ Beaten(h) => Chosen(h)' \/ Beaten(h)'
         /\ Chosen(g)' \/ Beaten(g)'
         /\ \A i \in Slots : best'[i].gidx = best[i].gidx \/ best'[i].gidx = g
         /\ ~ Worse(best'[worst'], best[worst])
  <1> DEFINE e == Candidate(g)
  <1>1. best \in [Slots -> Entries] /\ worst \in Slots
    BY DEF TypeOK, Entries
  <1>2. \A h : Candidate(h)' = Candidate(h)
    BY DEF Candidate, Entry
  <1>3. \A h \in Ids(kd) : /\ Candidate(h) \in Entries /\ Candidate(h).gidx = h
                           /\ Candidate(h) # Empty /\ Worse(Empty, Candidate(h))
    BY CandidateFacts
  <1>4. /\ best' \in [Slots -> Entries] /\ worst' \in Slots
        /\ \A j \in Slots : ~ Worse(best'[j], best'[worst'])
        /\ \/ best' = best /\ worst' = worst /\ ~ Worse(best[worst], e)
           \/ best' = [best EXCEPT ![worst] = e] /\ Worse(best[worst], e)
    BY <1>3, ConsiderType
  <1>5. Empty' = Empty /\ Ids(kd)' = Ids(kd) /\ Slots' = Slots
    BY DEF Empty, Entry, Ids, Slots
  <1>6. CASE best' = best /\ worst' = worst /\ ~ Worse(best[worst], e)
    <2>1. BestOK'
      BY <1>2, <1>5, <1>6 DEF BestOK
    <2>2. \A h \in Ids(kd) : Chosen(h) \/ Beaten(h) => Chosen(h)' \/ Beaten(h)'
      BY <1>2, <1>6 DEF Chosen, Beaten
    <2>3. ASSUME NEW i \in Slots PROVE Worse(e, best[i])
      <3>1. best[i] \in Entries /\ best[worst] \in Entries /\ e \in Entries
        BY <1>1, <1>3
      <3>2. ~ Worse(best[i], best[worst])
        BY DEF BestOK
      <3>3. best[worst] # e /\ best[i] # e
        BY <1>1, <1>3
      <3>4. Worse(e, best[worst])
        BY <1>6, <3>1, <3>3, WorseOrder
      <3> QED
        BY <3>1, <3>2, <3>4, WorseOrder
    <2>4. Beaten(g)'
      BY <1>2, <1>6, <2>3 DEF Beaten
    <2>5. ~ Worse(best'[worst'], best[worst])
      BY <1>1, <1>6, WorseOrder
    <2> QED
      BY <1>6, <2>1, <2>2, <2>4, <2>5
  <1>7. CASE best' = [best EXCEPT ![worst] = e] /\ Worse(best[worst], e)
    <2>1. best'[worst] = e /\ \A i \in Slots \ {worst} : best'[i] = best[i]
      BY <1>1, <1>7
    <2>2. Chosen(g)'
      BY <1>1, <1>2, <2>1 DEF Chosen
    <2>3. \A i \in Slots : best'[i].gidx = best[i].gidx \/ best'[i].gidx = g
      BY <1>1, <1>3, <2>1
    <2>4. BestOK'
      <3>1. \A i \in Slots : \/ best'[i] = Empty
                             \/ best'[i].gidx \in Ids(kd)
                                /\ best'[i] = Candidate(best'[i].gidx)
        BY <1>1, <1>3, <2>1 DEF BestOK
      <3>2. ASSUME NEW i \in Slots, NEW j \in Slots,
                   best'[i].gidx = best'[j].gidx, best'[i] # Empty
            PROVE  i = j
        <4>1. CASE i # worst /\ j # worst
          BY <2>1, <3>2, <4>1 DEF BestOK
        <4>2. CASE i = worst /\ j # worst
          BY <1>3, <2>1, <3>2, <4>2
        <4>3. CASE i # worst /\ j = worst
          BY <1>3, <2>1, <3>2, <4>3
        <4> QED
          BY <4>1, <4>2, <4>3
      <3> QED
        BY <1>2, <1>4, <1>5, <3>1, <3>2 DEF BestOK
    (* Every slot is now better than the candidate that was overwritten. *)
    <2>5. ASSUME best[worst] # Empty, NEW i \in Slots
          PROVE  Worse(best[worst], best'[i])
      <3>1. CASE i = worst
        BY <1>7, <2>1, <3>1
      <3>2. CASE i # worst
        <4>1. best'[i] = best[i]
          BY <2>1, <3>2
        <4>2. best[i] \in Entries /\ best[worst] \in Entries /\ ~ Worse(best[i], best[worst])
          BY <1>1 DEF BestOK
        <4>3. best[i] # best[worst]
          BY <1>1, <2>5, <3>2 DEF BestOK
        <4> QED
          BY <4>1, <4>2, <4>3, WorseOrder
      <3> QED
        BY <3>1, <3>2
    <2>6. ASSUME NEW h \in Ids(kd), Chosen(h) PROVE Chosen(h)' \/ Beaten(h)'
      <3>1. PICK i \in Slots : best[i] = Candidate(h)
        BY <2>6 DEF Chosen
      <3>2. CASE i = worst
        <4>1. best[worst] # Empty
          BY <1>3, <3>1, <3>2
        <4> QED
          BY <1>2, <2>5, <3>1, <3>2, <4>1 DEF Beaten
      <3>3. CASE i # worst
        BY <1>2, <2>1, <3>1, <3>3 DEF Chosen
      <3> QED
        BY <3>2, <3>3
    <2>7. ASSUME NEW h \in Ids(kd), Beaten(h) PROVE Beaten(h)'
      <3>1. Worse(Candidate(h), best[worst])
        BY <1>1, <2>7 DEF Beaten
      <3>2. ASSUME NEW i \in Slots PROVE Worse(Candidate(h), best'[i])
        <4>1. CASE i = worst
          <5>1. /\ Candidate(h) \in Entries /\ best[worst] \in Entries /\ e \in Entries
                /\ best'[i] = e /\ Worse(best[worst], e)
            BY <1>1, <1>3, <1>7, <2>1, <4>1
          <5> QED
            BY <3>1, <5>1, WorseOrder
        <4>2. CASE i # worst
          BY <2>1, <2>7, <4>2 DEF Beaten
        <4> QED
          BY <4>1, <4>2
      <3> QED
        BY <1>2, <3>2 DEF Beaten
    <2>8. ASSUME NEW i \in Slots PROVE ~ Worse(best'[i], best[worst])
      <3>1. CASE i = worst
        <4>1. best[worst] \in Entries /\ e \in Entries /\ best'[i] = e
          BY <1>1, <1>3, <2>1, <3>1
        <4> QED
          BY <1>7, <4>1, WorseOrder
      <3>2. CASE i # worst
        BY <2>1, <3>2 DEF BestOK
      <3> QED
        BY <3>1, <3>2
    <2> QED
      BY <1>4, <2>2, <2>3, <2>4, <2>6, <2>7, <2>8
  <1> QED
    BY <1>4, <1>6, <1>7

-----------------------------------------------------------------------------
(* A step that leaves the candidates alone keeps the invariant if no row
   becomes pending and each row that stops being pending is beaten. *)
LEMMA KeepBest ==
  ASSUME ArgsOK, BestOK, Fresh, Covered, UNCHANGED <<kd, q, best, worst>>,
         \A k \in Keys : \A r \in Rows(kd.parts[k]) :
           /\ Pending(k, r)' => Pending(k, r)
           /\ Pending(k, r)  => Pending(k, r)' \/ Beaten(kd.parts[k].gidx[r])
  PROVE  ArgsOK' /\ BestOK' /\ Fresh' /\ Covered'
  <1>1. ArgsOK'
    BY DEF ArgsOK
  <1>2. \A h : /\ Candidate(h)' = Candidate(h)
               /\ Chosen(h)' <=> Chosen(h)
               /\ Beaten(h)' <=> Beaten(h)
    BY DEF Candidate, Chosen, Beaten
  <1>3. BestOK'
    BY <1>2 DEF BestOK
  <1>4. Fresh'
    BY DEF Fresh
  <1>5. Covered'
    BY <1>2 DEF Covered
  <1> QED
    BY <1>1, <1>3, <1>4, <1>5

(* The stack as a sequence: what is on top and what is below. *)
LEMMA StackTop ==
  ASSUME NEW s \in Seq(Nat), s # <<>>
  PROVE  /\ Len(s) \in Nat /\ Len(s) >= 1 /\ 1 \in 1..Len(s)
         /\ Head(s) = s[1]
         /\ Tail(s) \in Seq(Nat) /\ Len(Tail(s)) = Len(s) - 1
         /\ \A i \in 1..Len(Tail(s)) : i + 1 \in 1..Len(s) /\ Tail(s)[i] = s[i + 1]
         /\ \A i \in 1..Len(s) : i # 1 => i - 1 \in 1..Len(Tail(s)) /\ Tail(s)[i - 1] = s[i]
  OBVIOUS

(* The stack while nodes are popped: its top, and the rest below it. *)
LEMMA StackRest ==
  ASSUME TypeOK, StackOK, pc = "pop", stack # <<>>
  PROVE  /\ Head(stack) \in Nodes(p) /\ Tail(stack) \in Seq(Nat)
         /\ \A i \in 1..Len(Tail(stack)) :
              /\ Tail(stack)[i] \in Nodes(p)
              /\ Span(p, Tail(stack)[i]) \cap Span(p, Head(stack)) = {}
         /\ \A i, j \in 1..Len(Tail(stack)) :
              i # j => Span(p, Tail(stack)[i]) \cap Span(p, Tail(stack)[j]) = {}
         /\ \A r : (\E i \in 1..Len(stack) : r \in Span(p, stack[i]))
                     <=> \/ r \in Span(p, Head(stack))
                         \/ \E i \in 1..Len(Tail(stack)) : r \in Span(p, Tail(stack)[i])
  <1> DEFINE T == Tail(stack)
  <1>1. /\ Head(stack) = stack[1] /\ 1 \in 1..Len(stack) /\ T \in Seq(Nat) /\ Len(T) \in Nat
        /\ \A i \in 1..Len(T) : i + 1 \in 1..Len(stack) /\ T[i] = stack[i + 1]
        /\ \A i \in 1..Len(stack) : i # 1 => i - 1 \in 1..Len(T) /\ T[i - 1] = stack[i]
    BY StackTop DEF TypeOK
  <1>2. /\ \A i \in 1..Len(stack) : stack[i] \in Nodes(p)
        /\ \A i, j \in 1..Len(stack) : i # j => Span(p, stack[i]) \cap Span(p, stack[j]) = {}
    BY DEF StackOK
  <1> HIDE DEF T
  <1>3. ASSUME NEW i \in 1..Len(T)
        PROVE  /\ T[i] \in Nodes(p)
               /\ Span(p, T[i]) \cap Span(p, Head(stack)) = {}
    <2>1. i + 1 \in 1..Len(stack) /\ i + 1 # 1 /\ T[i] = stack[i + 1]
      BY <1>1
    <2> QED
      BY <1>1, <1>2, <2>1
  <1>4. ASSUME NEW i \in 1..Len(T), NEW j \in 1..Len(T), i # j
        PROVE  Span(p, T[i]) \cap Span(p, T[j]) = {}
    <2>1. i + 1 \in 1..Len(stack) /\ j + 1 \in 1..Len(stack) /\ i + 1 # j + 1
      BY <1>1, <1>4
    <2> QED
      BY <1>1, <1>2, <2>1
  <1>5. \A r : (\E i \in 1..Len(stack) : r \in Span(p, stack[i]))
                 <=> \/ r \in Span(p, Head(stack))
                     \/ \E i \in 1..Len(T) : r \in Span(p, T[i])
    BY <1>1
  <1>6. T = Tail(stack)
    BY DEF T
  <1>7. Head(stack) \in Nodes(p)
    BY <1>1, <1>2
  <1> QED
    BY <1>1, <1>3, <1>4, <1>5, <1>6, <1>7, Zenon

LEMMA EnterPartStep == ASSUME IInv, EnterPart PROVE IInv'
  <1> USE DEF IInv
  <1>1. /\ pc = "enter"
        /\ UNCHANGED <<kd, q, stop, best, worst, cur, todo, row, end, result>>
    BY DEF EnterPart
  <1>2. cur \in Keys /\ p.count \in Nat
    <2>1. cur \in Keys
      BY DEF TypeOK
    <2>2. PartOK(kd, cur)
      BY <2>1, IndexFacts DEF IndexOK
    <2> QED
      BY <2>1, <2>2 DEF PartOK, p
  <1>3. p' = p
    BY <1>1 DEF p
  <1>4. CASE p.count = 0
    <2>1. pc' = "probe" /\ stack' = stack
      BY <1>4 DEF EnterPart
    <2>2. TypeOK' /\ StackOK'
      BY <1>1, <2>1 DEF TypeOK, StackOK
    <2>3. \A r : r \notin Rows(kd.parts[cur])
      BY <1>4 DEF Rows, p
    <2>4. \A k \in Keys : \A r \in Rows(kd.parts[k]) : Pending(k, r)' <=> Pending(k, r)
      BY <1>1, <2>1, <2>3 DEF Pending
    <2> QED
      BY <1>1, <2>2, <2>4, KeepBest
  <1>5. CASE p.count # 0
    <2>1. pc' = "pop" /\ stack' = <<0>>
      BY <1>5 DEF EnterPart
    <2>2. TypeOK'
      BY <1>1, <2>1 DEF TypeOK
    <2>3. 0 \in Nodes(p) /\ p.lo[0] = 0 /\ p.hi[0] = p.count
      <3>1. PartOK(kd, cur)
        BY <1>2, IndexFacts DEF IndexOK
      <3> QED
        BY <1>2, <1>5, <3>1 DEF PartOK, p
    <2>4. Len(stack') = 1 /\ stack'[1] = 0
      BY <2>1
    <2>5. StackOK'
      BY <1>2, <1>3, <1>5, <2>1, <2>3, <2>4 DEF StackOK
    <2>6. \A r \in Rows(kd.parts[cur]) : \E i \in 1..Len(stack') : r \in Span(p, stack'[i])
      BY <1>2, <2>3, <2>4 DEF Rows, Span, p
    <2>7. \A k \in Keys : \A r \in Rows(kd.parts[k]) : Pending(k, r)' <=> Pending(k, r)
      BY <1>1, <1>3, <2>1, <2>6 DEF Pending
    <2> QED
      BY <1>1, <2>2, <2>5, <2>7, KeepBest
  <1> QED
    BY <1>4, <1>5

LEMMA PopPrunedStep == ASSUME IInv, PopPruned PROVE IInv'
  <1> USE DEF IInv
  <1>1. /\ pc = "pop" /\ pc' = "pop" /\ stack # <<>> /\ stack' = Tail(stack)
        /\ aabbLowerBound(p.boxes[Head(stack)], q) > worstDist
        /\ UNCHANGED <<kd, q, stop, best, worst, cur, todo, row, end, result>>
    BY DEF PopPruned
  <1>2. p' = p /\ cur \in Keys /\ p.count > 0 /\ stack \in Seq(Nat)
    BY <1>1 DEF p, TypeOK, StackOK
  <1>3. TypeOK'
    BY <1>1, <1>2, StackTop DEF TypeOK
  <1>4. StackOK'
    BY <1>1, <1>2, StackRest DEF StackOK
  <1>5. ASSUME NEW r \in Rows(p), r \in Span(p, Head(stack))
        PROVE  Beaten(p.gidx[r])
    <2> DEFINE n == Head(stack)
    <2>1. n \in Nodes(p)
      BY <1>1, StackRest
    <2>2. NodeOK(p, n)
      BY <1>2, <2>1, NodeFacts
    <2>3. r \in Rows(kd.parts[cur]) /\ q \in [Dims -> Int] /\ p.vec[r] \in [Dims -> Int]
      BY <1>2, RowFacts, IndexFacts DEF p
    <2>4. \A d \in Dims : /\ p.boxes[n].lo[d] \in Int /\ p.boxes[n].hi[d] \in Int
                          /\ p.boxes[n].lo[d] <= p.vec[r][d]
                          /\ p.vec[r][d] <= p.boxes[n].hi[d]
      BY <1>5, <2>2 DEF NodeOK
    <2>5. /\ aabbLowerBound(p.boxes[n], q) \in Nat
          /\ aabbLowerBound(p.boxes[n], q) <= sqDist(q, p.vec[r])
      BY <2>3, <2>4, BoxLowerBound
    <2> QED
      BY <1>1, <1>2, <2>3, <2>5, FarRowIsBeaten DEF p
  <1>6. ASSUME NEW k \in Keys, NEW r \in Rows(kd.parts[k])
        PROVE  /\ Pending(k, r)' => Pending(k, r)
               /\ Pending(k, r)  => Pending(k, r)' \/ Beaten(kd.parts[k].gidx[r])
    <2>1. CASE k # cur
      BY <1>1, <2>1 DEF Pending
    <2>2. CASE k = cur
      <3>1. cur \notin todo /\ r \in Rows(p) /\ kd.parts[k] = p
        BY <2>2 DEF TypeOK, p
      <3>2. Pending(k, r)' <=> \E i \in 1..Len(stack') : r \in Span(p, stack'[i])
        BY <1>1, <1>2, <2>2, <3>1 DEF Pending
      <3>3. Pending(k, r) <=> \E i \in 1..Len(stack) : r \in Span(p, stack[i])
        BY <1>1, <2>2, <3>1 DEF Pending
      <3>4. (\E i \in 1..Len(stack) : r \in Span(p, stack[i]))
              <=> \/ r \in Span(p, Head(stack))
                  \/ \E i \in 1..Len(stack') : r \in Span(p, stack'[i])
        BY <1>1, StackRest
      <3> QED
        BY <1>5, <3>1, <3>2, <3>3, <3>4
    <2> QED
      BY <2>1, <2>2
  <1> QED
    BY <1>1, <1>3, <1>4, <1>6, KeepBest

LEMMA PopLeafStep == ASSUME IInv, PopLeaf PROVE IInv'
  <1> USE DEF IInv
  <1> DEFINE n == Head(stack)
  <1>1. /\ pc = "pop" /\ pc' = "leaf" /\ stack # <<>> /\ stack' = Tail(stack)
        /\ p.nodes[n].splitDim = leafMark
        /\ row' = p.nodes[n].left /\ end' = p.nodes[n].right
        /\ UNCHANGED <<kd, q, stop, best, worst, cur, todo, result>>
    BY DEF PopLeaf
  <1>2. p' = p /\ cur \in Keys /\ p.count > 0 /\ stack \in Seq(Nat)
    BY <1>1 DEF p, TypeOK, StackOK
  <1>3. n \in Nodes(p)
    BY <1>1, StackRest
  <1>4. /\ NodeOK(p, n) /\ p.lo[n] \in Nat /\ p.hi[n] \in Nat
        /\ p.lo[n] < p.hi[n] /\ p.hi[n] <= p.count
    BY <1>2, <1>3, NodeFacts
  <1>5. row' = p.lo[n] /\ end' = p.hi[n]
    BY <1>1, <1>4 DEF NodeOK
  <1>6. row'..(end' - 1) = Span(p, n)
    BY <1>5 DEF Span
  <1>7. TypeOK'
    BY <1>1, <1>2, <1>4, <1>5, StackRest DEF TypeOK
  <1>8. StackOK'
    <2>1. /\ row' <= end' /\ end' <= p.count
      BY <1>4, <1>5
    <2>2. \A i \in 1..Len(stack') : Span(p, stack'[i]) \cap (row'..(end' - 1)) = {}
      BY <1>1, <1>6, StackRest
    <2> QED
      BY <1>1, <1>2, <2>1, <2>2, StackRest DEF StackOK
  <1>9. ASSUME NEW k \in Keys, NEW r \in Rows(kd.parts[k])
        PROVE  Pending(k, r)' <=> Pending(k, r)
    <2>1. CASE k # cur
      BY <1>1, <2>1 DEF Pending
    <2>2. CASE k = cur
      <3>1. cur \notin todo
        BY DEF TypeOK
      <3>2. Pending(k, r)' <=> \/ \E i \in 1..Len(stack') : r \in Span(p, stack'[i])
                               \/ r \in Span(p, n)
        BY <1>1, <1>2, <1>6, <2>2, <3>1 DEF Pending
      <3>3. Pending(k, r) <=> \E i \in 1..Len(stack) : r \in Span(p, stack[i])
        BY <1>1, <2>2, <3>1 DEF Pending
      <3> QED
        BY <1>1, <3>2, <3>3, StackRest
    <2> QED
      BY <2>1, <2>2
  <1> QED
    BY <1>1, <1>7, <1>8, <1>9, KeepBest

(* The children of a node split its rows; a child that is not pushed has only
   rows beaten already. *)
LEMMA PushFacts ==
  ASSUME TypeOK, ArgsOK, BestOK, cur \in Keys, p.count > 0,
         NEW n \in Nodes(p), p.nodes[n].splitDim # leafMark
  PROVE  LET nd == p.nodes[n] IN
         /\ nd.left \in Nodes(p) /\ nd.right \in Nodes(p)
         /\ nd.left \in Nat /\ nd.right \in Nat
         /\ Span(p, nd.left) \cup Span(p, nd.right) = Span(p, n)
         /\ Span(p, nd.left) \cap Span(p, nd.right) = {}
         /\ \/ Push(nd) = <<nd.left, nd.right>>
            \/ Push(nd) = <<nd.right, nd.left>>
            \/ /\ Push(nd) = <<nd.left>>
               /\ \A r \in Span(p, nd.right) : Beaten(p.gidx[r])
            \/ /\ Push(nd) = <<nd.right>>
               /\ \A r \in Span(p, nd.left) : Beaten(p.gidx[r])
  <1> DEFINE nd == p.nodes[n]
             delta == q[nd.splitDim] - nd.splitVal
  <1>1. NodeOK(p, n)
    BY NodeFacts
  <1>2. /\ nd.splitDim \in Dims /\ nd.splitVal \in Int
        /\ nd.left \in Nodes(p) /\ nd.right \in Nodes(p)
        /\ p.lo[nd.left] = p.lo[n]
        /\ p.hi[nd.left] = p.lo[nd.right]
        /\ p.hi[nd.right] = p.hi[n]
        /\ \A r \in Span(p, nd.left)  : p.vec[r][nd.splitDim] <= nd.splitVal
        /\ \A r \in Span(p, nd.right) : p.vec[r][nd.splitDim] >= nd.splitVal
    BY <1>1 DEF NodeOK
  <1>3. /\ nd.left \in Nat /\ nd.right \in Nat
        /\ Span(p, nd.left) \subseteq Rows(p) /\ Span(p, nd.right) \subseteq Rows(p)
        /\ p.lo[nd.left] \in Nat /\ p.hi[nd.left] \in Nat /\ p.lo[nd.left] < p.hi[nd.left]
        /\ p.lo[nd.right] \in Nat /\ p.hi[nd.right] \in Nat /\ p.lo[nd.right] < p.hi[nd.right]
    BY <1>2, NodeFacts
  <1>4. /\ Span(p, nd.left) \cup Span(p, nd.right) = Span(p, n)
        /\ Span(p, nd.left) \cap Span(p, nd.right) = {}
    <2>1. PICK x \in Nat, y \in Nat, z \in Nat :
            /\ x = p.lo[nd.left] /\ y = p.hi[nd.left] /\ z = p.hi[nd.right]
            /\ x < y /\ y < z
      BY <1>2, <1>3
    <2>2. /\ Span(p, nd.left) = x..(y - 1) /\ Span(p, nd.right) = y..(z - 1)
          /\ Span(p, n) = x..(z - 1)
      BY <1>2, <2>1 DEF Span
    <2>3. x < y /\ y < z
      BY <2>1
    <2>4. /\ (x..(y - 1)) \cup (y..(z - 1)) = x..(z - 1)
          /\ (x..(y - 1)) \cap (y..(z - 1)) = {}
      BY <2>3
    <2> QED
      BY <2>2, <2>4
  <1>5. q[nd.splitDim] \in Int /\ delta \in Int
    BY <1>2, IndexFacts
  <1>6. ASSUME NEW r \in Rows(p), Sq(delta) > worstDist,
               \/ q[nd.splitDim] <= nd.splitVal /\ nd.splitVal <= p.vec[r][nd.splitDim]
               \/ q[nd.splitDim] >= nd.splitVal /\ nd.splitVal >= p.vec[r][nd.splitDim]
        PROVE  Beaten(p.gidx[r])
    <2>1. r \in Rows(kd.parts[cur]) /\ p.vec[r] \in [Dims -> Int] /\ q \in [Dims -> Int]
      BY RowFacts, IndexFacts DEF p
    <2>2. Sq(delta) <= sqDist(q, p.vec[r])
      BY <1>2, <1>6, <2>1, PlaneLowerBound
    <2>3. Sq(delta) \in Nat
      BY <1>5, SqNat
    <2> QED
      BY <1>6, <2>1, <2>2, <2>3, FarRowIsBeaten DEF p
  <1>7. CASE Sq(delta) <= worstDist
    BY <1>2, <1>3, <1>4, <1>7 DEF Push
  <1>8. CASE ~ (Sq(delta) <= worstDist)
    <2>1. Sq(delta) > worstDist
      BY <1>5, <1>8, SqNat DEF worstDist, TypeOK
    <2>2. CASE delta <= 0
      <3>1. Push(nd) = <<nd.left>>
        BY <1>8, <2>2 DEF Push
      <3>2. ASSUME NEW r \in Span(p, nd.right) PROVE Beaten(p.gidx[r])
        <4>1. q[nd.splitDim] <= nd.splitVal /\ nd.splitVal <= p.vec[r][nd.splitDim]
          BY <1>2, <1>5, <2>2
        <4> QED
          BY <1>3, <1>6, <2>1, <4>1
      <3> QED
        BY <1>2, <1>3, <1>4, <3>1, <3>2
    <2>3. CASE ~ (delta <= 0)
      <3>1. Push(nd) = <<nd.right>>
        BY <1>8, <2>3 DEF Push
      <3>2. ASSUME NEW r \in Span(p, nd.left) PROVE Beaten(p.gidx[r])
        <4>1. q[nd.splitDim] >= nd.splitVal /\ nd.splitVal >= p.vec[r][nd.splitDim]
          BY <1>2, <1>5, <2>3
        <4> QED
          BY <1>3, <1>6, <2>1, <4>1
      <3> QED
        BY <1>2, <1>3, <1>4, <3>1, <3>2
    <2> QED
      BY <2>2, <2>3
  <1> QED
    BY <1>7, <1>8

(* What is on the stack after one or two nodes are put on top of T. *)
LEMMA OnTop1 ==
  ASSUME NEW a \in Nat, NEW T \in Seq(Nat)
  PROVE  LET s == <<a>> \o T IN
         /\ s \in Seq(Nat) /\ Len(s) \in Nat /\ 1 \in 1..Len(s) /\ s[1] = a
         /\ \A i \in 1..Len(T) : i + 1 \in 1..Len(s) /\ s[i + 1] = T[i]
         /\ \A i \in 1..Len(s) : i = 1 \/ (i - 1 \in 1..Len(T) /\ s[i] = T[i - 1])
  <1> DEFINE s == <<a>> \o T
  <1>1. /\ s \in Seq(Nat) /\ Len(s) = Len(T) + 1 /\ Len(T) \in Nat
        /\ s[1] = a /\ \A i \in 1..Len(T) : s[i + 1] = T[i]
    OBVIOUS
  <1> HIDE DEF s
  <1>2. ASSUME NEW i \in 1..Len(s), i # 1
        PROVE  i - 1 \in 1..Len(T) /\ s[i] = T[i - 1]
    <2>1. i - 1 \in 1..Len(T) /\ (i - 1) + 1 = i
      BY <1>1, <1>2
    <2> QED
      BY <1>1, <2>1
  <1>3. Len(s) \in Nat /\ 1 \in 1..Len(s) /\ \A i \in 1..Len(T) : i + 1 \in 1..Len(s)
    BY <1>1
  <1> QED
    BY <1>1, <1>2, <1>3 DEF s

LEMMA OnTop2 ==
  ASSUME NEW a \in Nat, NEW b \in Nat, NEW T \in Seq(Nat)
  PROVE  LET s == <<a, b>> \o T IN
         /\ s \in Seq(Nat) /\ Len(s) \in Nat
         /\ 1 \in 1..Len(s) /\ s[1] = a /\ 2 \in 1..Len(s) /\ s[2] = b
         /\ \A i \in 1..Len(T) : i + 2 \in 1..Len(s) /\ s[i + 2] = T[i]
         /\ \A i \in 1..Len(s) : i = 1 \/ i = 2 \/ (i - 2 \in 1..Len(T) /\ s[i] = T[i - 2])
  OBVIOUS

(* Replacing the top of the stack by one or two nodes below it keeps the rows
   of the stack disjoint. *)
LEMMA ReplaceTop1 ==
  ASSUME TypeOK, StackOK, pc = "pop", stack # <<>>,
         NEW a \in Nodes(p), a \in Nat, Span(p, a) \subseteq Span(p, Head(stack)),
         NEW s, s = <<a>> \o Tail(stack)
  PROVE  /\ s \in Seq(Nat)
         /\ \A i \in 1..Len(s) : s[i] \in Nodes(p)
         /\ \A i, j \in 1..Len(s) : i # j => Span(p, s[i]) \cap Span(p, s[j]) = {}
         /\ \A r : (\E i \in 1..Len(s) : r \in Span(p, s[i]))
                     <=> \/ r \in Span(p, a)
                         \/ \E i \in 1..Len(Tail(stack)) : r \in Span(p, Tail(stack)[i])
  <1> DEFINE T == Tail(stack)
  <1>1. /\ T \in Seq(Nat) /\ Len(T) \in Nat
        /\ \A i \in 1..Len(T) : T[i] \in Nodes(p) /\ Span(p, T[i]) \cap Span(p, a) = {}
        /\ \A i, j \in 1..Len(T) : i # j => Span(p, T[i]) \cap Span(p, T[j]) = {}
    <2>1. T \in Seq(Nat)
      BY StackRest
    <2>2. \A i \in 1..Len(T) : T[i] \in Nodes(p) /\ Span(p, T[i]) \cap Span(p, Head(stack)) = {}
      BY StackRest
    <2>3. \A i, j \in 1..Len(T) : i # j => Span(p, T[i]) \cap Span(p, T[j]) = {}
      BY StackRest
    <2> HIDE DEF T
    <2>4. Len(T) \in Nat
      BY <2>1
    <2> QED
      BY <2>1, <2>2, <2>3, <2>4
  <1> HIDE DEF T
  <1>2. /\ s \in Seq(Nat) /\ Len(s) \in Nat /\ 1 \in 1..Len(s) /\ s[1] = a
        /\ \A i \in 1..Len(T) : i + 1 \in 1..Len(s) /\ s[i + 1] = T[i]
        /\ \A i \in 1..Len(s) : i = 1 \/ (i - 1 \in 1..Len(T) /\ s[i] = T[i - 1])
    BY <1>1, OnTop1 DEF T
  <1>3. \A i \in 1..Len(s) : s[i] \in Nodes(p)
    BY <1>1, <1>2
  <1>4. ASSUME NEW i \in 1..Len(s), NEW j \in 1..Len(s), i # j
        PROVE  Span(p, s[i]) \cap Span(p, s[j]) = {}
    <2>1. CASE i = 1
      BY <1>1, <1>2, <1>4, <2>1
    <2>2. CASE i # 1 /\ j = 1
      BY <1>1, <1>2, <1>4, <2>2
    <2>3. CASE i # 1 /\ j # 1
      <3>1. /\ i - 1 \in 1..Len(T) /\ s[i] = T[i - 1]
            /\ j - 1 \in 1..Len(T) /\ s[j] = T[j - 1] /\ i - 1 # j - 1
        BY <1>2, <1>4, <2>3
      <3> QED
        BY <1>1, <3>1
    <2> QED
      BY <2>1, <2>2, <2>3
  <1>5. \A r : (\E i \in 1..Len(s) : r \in Span(p, s[i]))
                 <=> r \in Span(p, a) \/ \E i \in 1..Len(T) : r \in Span(p, T[i])
    BY <1>2
  <1> QED
    BY <1>2, <1>3, <1>4, <1>5 DEF T

LEMMA ReplaceTop2 ==
  ASSUME TypeOK, StackOK, pc = "pop", stack # <<>>,
         NEW a \in Nodes(p), a \in Nat, NEW b \in Nodes(p), b \in Nat,
         Span(p, a) \cup Span(p, b) = Span(p, Head(stack)),
         Span(p, a) \cap Span(p, b) = {},
         NEW s, s = <<a, b>> \o Tail(stack)
  PROVE  /\ s \in Seq(Nat)
         /\ \A i \in 1..Len(s) : s[i] \in Nodes(p)
         /\ \A i, j \in 1..Len(s) : i # j => Span(p, s[i]) \cap Span(p, s[j]) = {}
         /\ \A r : (\E i \in 1..Len(s) : r \in Span(p, s[i]))
                     <=> \/ r \in Span(p, Head(stack))
                         \/ \E i \in 1..Len(Tail(stack)) : r \in Span(p, Tail(stack)[i])
  <1> DEFINE T == Tail(stack)
  <1>1. /\ T \in Seq(Nat) /\ Len(T) \in Nat
        /\ \A i \in 1..Len(T) : /\ T[i] \in Nodes(p)
                                /\ Span(p, T[i]) \cap Span(p, a) = {}
                                /\ Span(p, T[i]) \cap Span(p, b) = {}
        /\ \A i, j \in 1..Len(T) : i # j => Span(p, T[i]) \cap Span(p, T[j]) = {}
    <2>1. T \in Seq(Nat)
      BY StackRest
    <2>2. \A i \in 1..Len(T) : T[i] \in Nodes(p) /\ Span(p, T[i]) \cap Span(p, Head(stack)) = {}
      BY StackRest
    <2>3. \A i, j \in 1..Len(T) : i # j => Span(p, T[i]) \cap Span(p, T[j]) = {}
      BY StackRest
    <2> HIDE DEF T
    <2>4. Len(T) \in Nat
      BY <2>1
    <2> QED
      BY <2>1, <2>2, <2>3, <2>4
  <1> HIDE DEF T
  <1>2. /\ s \in Seq(Nat) /\ Len(s) \in Nat
        /\ 1 \in 1..Len(s) /\ s[1] = a /\ 2 \in 1..Len(s) /\ s[2] = b
        /\ \A i \in 1..Len(T) : i + 2 \in 1..Len(s) /\ s[i + 2] = T[i]
        /\ \A i \in 1..Len(s) : i = 1 \/ i = 2 \/ (i - 2 \in 1..Len(T) /\ s[i] = T[i - 2])
    BY <1>1, OnTop2 DEF T
  <1>3. \A i \in 1..Len(s) : s[i] \in Nodes(p)
    <2>1. \A i \in 1..Len(T) : T[i] \in Nodes(p)
      BY <1>1
    <2>2. \A i \in 1..Len(s) : s[i] = a \/ s[i] = b \/ \E j \in 1..Len(T) : s[i] = T[j]
      BY <1>2
    <2> QED
      BY <2>1, <2>2
  <1>4. ASSUME NEW i \in 1..Len(s), NEW j \in 1..Len(s), i # j
        PROVE  Span(p, s[i]) \cap Span(p, s[j]) = {}
    <2>1. CASE i \in {1, 2} /\ j \in {1, 2}
      BY <1>2, <1>4, <2>1
    <2>2. CASE i \in {1, 2} /\ j \notin {1, 2}
      BY <1>1, <1>2, <2>2
    <2>3. CASE i \notin {1, 2} /\ j \in {1, 2}
      BY <1>1, <1>2, <2>3
    <2>4. CASE i \notin {1, 2} /\ j \notin {1, 2}
      <3>1. /\ i - 2 \in 1..Len(T) /\ s[i] = T[i - 2]
            /\ j - 2 \in 1..Len(T) /\ s[j] = T[j - 2] /\ i - 2 # j - 2
        BY <1>2, <1>4, <2>4
      <3> QED
        BY <1>1, <3>1
    <2> QED
      BY <2>1, <2>2, <2>3, <2>4
  <1>5. \A r : (\E i \in 1..Len(s) : r \in Span(p, s[i]))
                 <=> \/ r \in Span(p, Head(stack))
                     \/ \E i \in 1..Len(T) : r \in Span(p, T[i])
    BY <1>2
  <1> QED
    BY <1>2, <1>3, <1>4, <1>5 DEF T

LEMMA PopInnerStep == ASSUME IInv, PopInner PROVE IInv'
  <1> USE DEF IInv
  <1> DEFINE n == Head(stack)
             nd == p.nodes[n]
  <1>1. /\ pc = "pop" /\ pc' = "pop" /\ stack # <<>> /\ nd.splitDim # leafMark
        /\ stack' = Push(nd) \o Tail(stack)
        /\ UNCHANGED <<kd, q, stop, best, worst, cur, todo, row, end, result>>
    BY DEF PopInner
  <1>2. p' = p /\ cur \in Keys /\ p.count > 0 /\ stack \in Seq(Nat)
    BY <1>1 DEF p, TypeOK, StackOK
  <1>3. n \in Nodes(p)
    BY <1>1, StackRest
  <1>4. /\ nd.left \in Nodes(p) /\ nd.right \in Nodes(p)
        /\ nd.left \in Nat /\ nd.right \in Nat
        /\ Span(p, nd.left) \cup Span(p, nd.right) = Span(p, n)
        /\ Span(p, nd.left) \cap Span(p, nd.right) = {}
        /\ \/ Push(nd) = <<nd.left, nd.right>>
           \/ Push(nd) = <<nd.right, nd.left>>
           \/ /\ Push(nd) = <<nd.left>>
              /\ \A r \in Span(p, nd.right) : Beaten(p.gidx[r])
           \/ /\ Push(nd) = <<nd.right>>
              /\ \A r \in Span(p, nd.left) : Beaten(p.gidx[r])
    BY <1>1, <1>2, <1>3, PushFacts
  <1>5. /\ stack' \in Seq(Nat)
        /\ \A i \in 1..Len(stack') : stack'[i] \in Nodes(p)
        /\ \A i, j \in 1..Len(stack') :
             i # j => Span(p, stack'[i]) \cap Span(p, stack'[j]) = {}
        /\ \A r : (\E i \in 1..Len(stack') : r \in Span(p, stack'[i]))
                    => (\E i \in 1..Len(stack) : r \in Span(p, stack[i]))
        /\ \A r : (\E i \in 1..Len(stack) : r \in Span(p, stack[i]))
                    => \/ \E i \in 1..Len(stack') : r \in Span(p, stack'[i])
                       \/ Beaten(p.gidx[r])
    <2>0. \A r : (\E i \in 1..Len(stack) : r \in Span(p, stack[i]))
                   <=> \/ r \in Span(p, Head(stack))
                       \/ \E i \in 1..Len(Tail(stack)) : r \in Span(p, Tail(stack)[i])
      BY <1>1, StackRest
    <2>1. CASE Push(nd) = <<nd.left, nd.right>>
      <3>1. stack' = <<nd.left, nd.right>> \o Tail(stack)
        BY <1>1, <2>1
      <3>2. /\ Span(p, nd.left) \cup Span(p, nd.right) = Span(p, Head(stack))
            /\ Span(p, nd.left) \cap Span(p, nd.right) = {}
        BY <1>4
      <3> HIDE DEF n, nd
      <3>3. /\ stack' \in Seq(Nat)
            /\ \A i \in 1..Len(stack') : stack'[i] \in Nodes(p)
            /\ \A i, j \in 1..Len(stack') :
                 i # j => Span(p, stack'[i]) \cap Span(p, stack'[j]) = {}
            /\ \A r : (\E i \in 1..Len(stack') : r \in Span(p, stack'[i]))
                 <=> \/ r \in Span(p, Head(stack))
                     \/ \E i \in 1..Len(Tail(stack)) : r \in Span(p, Tail(stack)[i])
        BY <1>1, <1>4, <3>1, <3>2, ReplaceTop2
      <3> QED
        BY <2>0, <3>3
    <2>2. CASE Push(nd) = <<nd.right, nd.left>>
      <3>1. stack' = <<nd.right, nd.left>> \o Tail(stack)
        BY <1>1, <2>2
      <3>2. /\ Span(p, nd.right) \cup Span(p, nd.left) = Span(p, Head(stack))
            /\ Span(p, nd.right) \cap Span(p, nd.left) = {}
        BY <1>4
      <3> HIDE DEF n, nd
      <3>3. /\ stack' \in Seq(Nat)
            /\ \A i \in 1..Len(stack') : stack'[i] \in Nodes(p)
            /\ \A i, j \in 1..Len(stack') :
                 i # j => Span(p, stack'[i]) \cap Span(p, stack'[j]) = {}
            /\ \A r : (\E i \in 1..Len(stack') : r \in Span(p, stack'[i]))
                 <=> \/ r \in Span(p, Head(stack))
                     \/ \E i \in 1..Len(Tail(stack)) : r \in Span(p, Tail(stack)[i])
        BY <1>1, <1>4, <3>1, <3>2, ReplaceTop2
      <3> QED
        BY <2>0, <3>3
    <2>3. CASE /\ Push(nd) = <<nd.left>>
               /\ \A r \in Span(p, nd.right) : Beaten(p.gidx[r])
      <3>1. stack' = <<nd.left>> \o Tail(stack)
        BY <1>1, <2>3
      <3>2. Span(p, nd.left) \subseteq Span(p, Head(stack))
        BY <1>4
      <3>3. \A r : r \in Span(p, Head(stack)) => r \in Span(p, nd.left) \/ Beaten(p.gidx[r])
        BY <1>4, <2>3
      <3> HIDE DEF n, nd
      <3>4. /\ stack' \in Seq(Nat)
            /\ \A i \in 1..Len(stack') : stack'[i] \in Nodes(p)
            /\ \A i, j \in 1..Len(stack') :
                 i # j => Span(p, stack'[i]) \cap Span(p, stack'[j]) = {}
            /\ \A r : (\E i \in 1..Len(stack') : r \in Span(p, stack'[i]))
                 <=> \/ r \in Span(p, nd.left)
                     \/ \E i \in 1..Len(Tail(stack)) : r \in Span(p, Tail(stack)[i])
        BY <1>1, <1>4, <3>1, <3>2, ReplaceTop1
      <3> QED
        BY <2>0, <3>2, <3>3, <3>4
    <2>4. CASE /\ Push(nd) = <<nd.right>>
               /\ \A r \in Span(p, nd.left) : Beaten(p.gidx[r])
      <3>1. stack' = <<nd.right>> \o Tail(stack)
        BY <1>1, <2>4
      <3>2. Span(p, nd.right) \subseteq Span(p, Head(stack))
        BY <1>4
      <3>3. \A r : r \in Span(p, Head(stack)) => r \in Span(p, nd.right) \/ Beaten(p.gidx[r])
        BY <1>4, <2>4
      <3> HIDE DEF n, nd
      <3>4. /\ stack' \in Seq(Nat)
            /\ \A i \in 1..Len(stack') : stack'[i] \in Nodes(p)
            /\ \A i, j \in 1..Len(stack') :
                 i # j => Span(p, stack'[i]) \cap Span(p, stack'[j]) = {}
            /\ \A r : (\E i \in 1..Len(stack') : r \in Span(p, stack'[i]))
                 <=> \/ r \in Span(p, nd.right)
                     \/ \E i \in 1..Len(Tail(stack)) : r \in Span(p, Tail(stack)[i])
        BY <1>1, <1>4, <3>1, <3>2, ReplaceTop1
      <3> QED
        BY <2>0, <3>2, <3>3, <3>4
    <2> QED
      BY <1>4, <2>1, <2>2, <2>3, <2>4
  <1>6. TypeOK'
    BY <1>1, <1>5 DEF TypeOK
  <1>7. StackOK'
    BY <1>1, <1>2, <1>5 DEF StackOK
  <1>8. ASSUME NEW k \in Keys, NEW r \in Rows(kd.parts[k])
        PROVE  /\ Pending(k, r)' => Pending(k, r)
               /\ Pending(k, r)  => Pending(k, r)' \/ Beaten(kd.parts[k].gidx[r])
    <2>1. CASE k # cur
      BY <1>1, <2>1 DEF Pending
    <2>2. CASE k = cur
      <3>1. cur \notin todo /\ kd.parts[k] = p
        BY <2>2 DEF TypeOK, p
      <3>2. Pending(k, r)' <=> \E i \in 1..Len(stack') : r \in Span(p, stack'[i])
        BY <1>1, <1>2, <2>2, <3>1 DEF Pending
      <3>3. Pending(k, r) <=> \E i \in 1..Len(stack) : r \in Span(p, stack[i])
        BY <1>1, <2>2, <3>1 DEF Pending
      <3> QED
        BY <1>5, <3>1, <3>2, <3>3
    <2> QED
      BY <2>1, <2>2
  <1> QED
    BY <1>1, <1>6, <1>7, <1>8, KeepBest

(* Considering a row: it is chosen or beaten at once, and no other row was
   made for the same reference. *)
LEMMA ConsiderRowStep ==
  ASSUME IInv, ConsiderRow
  PROVE  IInv' /\ ~ Worse(best'[worst'], best[worst])
  <1> USE DEF IInv
  <1>0. PICK g : g = p.gidx[row]
    OBVIOUS
  <1>1. /\ pc = "leaf" /\ pc' = "leaf" /\ row < end /\ row' = row + 1
        /\ consider(Entry(sqDist(q, p.vec[row]), g))
        /\ UNCHANGED <<kd, q, stop, cur, todo, stack, end, result>>
    BY <1>0 DEF ConsiderRow
  <1>2. p' = p /\ cur \in Keys /\ cur \notin todo /\ row \in Nat /\ end \in Nat
    BY <1>1 DEF p, TypeOK
  <1>3. /\ p.count > 0 /\ row <= end /\ end <= p.count
        /\ \A i \in 1..Len(stack) : Span(p, stack[i]) \cap (row..(end - 1)) = {}
    BY <1>1 DEF StackOK
  <1>4. p.count \in Nat
    <2>1. PartOK(kd, cur)
      BY <1>2, IndexFacts DEF IndexOK
    <2> QED
      BY <2>1 DEF PartOK, p
  <1>5. row \in Rows(kd.parts[cur]) /\ row \in row..(end - 1)
    BY <1>1, <1>2, <1>3, <1>4 DEF Rows, p
  <1>6. g \in Ids(kd) /\ Candidate(g) = Entry(sqDist(q, p.vec[row]), g)
    BY <1>0, <1>2, <1>5, RowFacts DEF p
  <1>7. Candidate(g) \in Entries
    BY <1>6, CandidateFacts
  <1>8. Pending(cur, row)
    BY <1>1, <1>5 DEF Pending
  <1>9. \A i \in Slots : best[i].gidx # g
    BY <1>0, <1>2, <1>5, <1>8 DEF Fresh, p
  <1>10. consider(Candidate(g))
    BY <1>1, <1>6
  <1>11. best' \in [Slots -> Entries] /\ worst' \in Slots
    BY <1>7, <1>10, ConsiderType
  <1>12. /\ BestOK'
         /\ \A h \in Ids(kd) : Chosen(h) \/ Beaten(h) => Chosen(h)' \/ Beaten(h)'
         /\ Chosen(g)' \/ Beaten(g)'
         /\ \A i \in Slots : best'[i].gidx = best[i].gidx \/ best'[i].gidx = g
         /\ ~ Worse(best'[worst'], best[worst])
    BY <1>1, <1>6, <1>9, <1>10, ConsiderBest
  <1>13. TypeOK'
    <2>1. row' \in Nat
      BY <1>1, <1>2
    <2>2. best' \in [Slots -> [dist : Nat, gidx : Nat]]
      BY <1>11 DEF Entries
    <2> QED
      BY <1>1, <1>11, <2>1, <2>2 DEF TypeOK
  <1>14. ArgsOK'
    BY <1>1 DEF ArgsOK
  <1>15. StackOK'
    <2>1. row' <= end /\ row'..(end - 1) \subseteq row..(end - 1)
      BY <1>1, <1>2
    <2>2. \A i \in 1..Len(stack) : Span(p, stack[i]) \cap (row'..(end - 1)) = {}
      BY <1>3, <2>1
    <2>3. /\ \A i \in 1..Len(stack) : stack[i] \in Nodes(p)
          /\ \A i, j \in 1..Len(stack) :
               i # j => Span(p, stack[i]) \cap Span(p, stack[j]) = {}
      BY <1>1 DEF StackOK
    <2> QED
      BY <1>1, <1>2, <1>3, <2>1, <2>2, <2>3 DEF StackOK
  <1>16. ASSUME NEW k \in Keys, NEW r \in Rows(kd.parts[k])
         PROVE  /\ Pending(k, r)' => Pending(k, r) /\ kd.parts[k].gidx[r] # g
                /\ Pending(k, r) => Pending(k, r)' \/ kd.parts[k].gidx[r] = g
    <2>1. CASE k # cur
      <3>1. kd.parts[k].gidx[r] # g
        BY <1>2, <1>5, <2>1, <1>0, RowUnique DEF p
      <3> QED
        BY <1>1, <2>1, <3>1 DEF Pending
    <2>2. CASE k = cur /\ r = row
      <3>1. ~ Pending(k, r)'
        BY <1>1, <1>2, <1>3, <1>5, <2>2 DEF Pending
      <3>2. kd.parts[k].gidx[r] = g
        BY <1>0, <2>2 DEF p
      <3> QED
        BY <3>1, <3>2
    <2>3. CASE k = cur /\ r # row
      <3>1. kd.parts[k].gidx[r] # g
        BY <1>2, <1>5, <2>3, <1>0, RowUnique DEF p
      <3>2. r \in Int
        BY DEF Rows
      <3>3. r \in row..(end - 1) <=> r \in row'..(end' - 1)
        BY <1>1, <1>2, <2>3, <3>2
      <3> QED
        BY <1>1, <1>2, <2>3, <3>1, <3>3 DEF Pending
    <2> QED
      BY <2>1, <2>2, <2>3
  <1>17. Fresh'
    <2> SUFFICES ASSUME NEW k \in Keys, NEW r \in Rows(kd.parts[k]), Pending(k, r)',
                        NEW i \in Slots
                 PROVE  best'[i].gidx # kd.parts[k].gidx[r]
      BY <1>1 DEF Fresh
    <2> QED
      BY <1>12, <1>16 DEF Fresh
  <1>18. Covered'
    <2> SUFFICES ASSUME NEW k \in Keys, NEW r \in Rows(kd.parts[k]),
                        NEW h, h = kd.parts[k].gidx[r]
                 PROVE  Pending(k, r)' \/ Chosen(h)' \/ Beaten(h)'
      BY <1>1 DEF Covered
    <2>1. h \in Ids(kd)
      BY RowFacts
    <2>2. CASE Pending(k, r)
      BY <1>12, <1>16, <2>2
    <2>3. CASE ~ Pending(k, r)
      <3>1. Chosen(h) \/ Beaten(h)
        BY <2>3 DEF Covered
      <3> QED
        BY <1>12, <2>1, <3>1
    <2> QED
      BY <2>2, <2>3
  <1> QED
    BY <1>12, <1>13, <1>14, <1>15, <1>17, <1>18

LEMMA LeafDoneStep == ASSUME IInv, LeafDone PROVE IInv'
  <1> USE DEF IInv
  <1>1. /\ pc = "leaf" /\ pc' = "pop" /\ row = end
        /\ UNCHANGED <<kd, q, stop, best, worst, cur, todo, stack, row, end, result>>
    BY DEF LeafDone
  <1>2. p' = p /\ row \in Nat
    BY <1>1 DEF p, TypeOK
  <1>3. TypeOK' /\ StackOK'
    BY <1>1, <1>2 DEF TypeOK, StackOK
  <1>4. \A k \in Keys : \A r \in Rows(kd.parts[k]) : Pending(k, r)' <=> Pending(k, r)
    BY <1>1, <1>2 DEF Pending
  <1> QED
    BY <1>1, <1>3, <1>4, KeepBest

LEMMA PartDoneStep == ASSUME IInv, PartDone PROVE IInv'
  <1> USE DEF IInv
  <1>1. /\ pc = "pop" /\ pc' = "probe" /\ stack = <<>>
        /\ UNCHANGED <<kd, q, stop, best, worst, cur, todo, stack, row, end, result>>
    BY DEF PartDone
  <1>2. p' = p /\ Len(stack) = 0
    BY <1>1 DEF p
  <1>3. TypeOK' /\ StackOK'
    BY <1>1, <1>2 DEF TypeOK, StackOK
  <1>4. \A k \in Keys : \A r \in Rows(kd.parts[k]) : Pending(k, r)' <=> Pending(k, r)
    BY <1>1, <1>2 DEF Pending
  <1> QED
    BY <1>1, <1>3, <1>4, KeepBest

LEMMA ProbeStep == ASSUME IInv, NEW ob \in Keys, Probe(ob) PROVE IInv'
  <1> USE DEF IInv
  <1>1. /\ pc = "probe" /\ pc' = "enter" /\ ob \in todo /\ cur' = ob /\ todo' = todo \ {ob}
        /\ UNCHANGED <<kd, q, stop, best, worst, stack, row, end, result>>
    BY DEF Probe, NextInOrder
  <1>2. TypeOK' /\ StackOK'
    BY <1>1 DEF TypeOK, StackOK
  <1>3. \A k \in Keys : \A r \in Rows(kd.parts[k]) : Pending(k, r)' <=> Pending(k, r)
    BY <1>1 DEF Pending
  <1> QED
    BY <1>1, <1>2, <1>3, KeepBest

LEMMA SlotCount == IsFiniteSet(Slots) /\ Cardinality(Slots) = K
  BY KAssumption, FS_Interval DEF Slots

LEMMA ReferenceCount ==
  ASSUME ArgsOK
  PROVE  IsFiniteSet(Ids(kd)) /\ Cardinality(Ids(kd)) = kd.n
  <1>1. PICK n \in Nat : n = kd.n
    BY IndexFacts
  <1>2. IsFiniteSet(0..(n - 1)) /\ Cardinality(0..(n - 1)) = n
    BY FS_Interval
  <1> QED
    BY <1>1, <1>2 DEF Ids

LEMMA GapNat == ASSUME NEW a, NEW b PROVE gapBits(a, b) \in Nat
  <1>1. Sq(QScale) \in Nat
    BY QScaleAssumption, SqNat
  <1> QED
    BY <1>1 DEF gapBits

(* The count: every row not reached lies beyond the gap, and is beaten. *)
LEMMA CountStep == ASSUME IInv, Count PROVE IInv'
  <1> USE DEF IInv
  <1>1. /\ pc = "probe" /\ pc' \in {"done", "panic"}
        /\ todo = {} \/ \E ob \in todo : NextInOrder(ob) /\ GapStops(ob)
        /\ \/ result' = result
           \/ result' = Cardinality({i \in Slots : kd.fraud[best[i].gidx]})
        /\ UNCHANGED <<kd, q, stop, best, worst, cur, todo, stack, row, end>>
    BY DEF Count
  <1>2. Cardinality({i \in Slots : kd.fraud[best[i].gidx]}) \in 0..K
    <2>1. IsFiniteSet(Slots) /\ Cardinality(Slots) = K
      BY SlotCount
    <2>2. {i \in Slots : kd.fraud[best[i].gidx]} \in SUBSET Slots
      OBVIOUS
    <2> QED
      BY <2>1, <2>2, KAssumption, FS_Subset, FS_CardinalityType
  <1>3. TypeOK' /\ StackOK'
    <2>1. result' \in -1..K
      BY <1>1, <1>2, KAssumption DEF TypeOK
    <2>2. StackOK'
      BY <1>1 DEF StackOK
    <2> QED
      BY <1>1, <2>1, <2>2 DEF TypeOK
  <1>4. ASSUME NEW k \in todo, NEW r \in Rows(kd.parts[k])
        PROVE  Beaten(kd.parts[k].gidx[r])
    <2>1. PICK ob \in todo : NextInOrder(ob) /\ GapStops(ob)
      BY <1>1
    <2>2. gapBits(home, ob) > worstDist /\ gapBits(home, ob) <= gapBits(home, k)
      BY <2>1 DEF NextInOrder, GapStops
    <2>3. worstDist \in Nat /\ gapBits(home, ob) \in Nat /\ gapBits(home, k) \in Nat
      BY GapNat DEF TypeOK, worstDist
    <2>4. k \in Keys
      BY DEF TypeOK
    <2>5. gapBits(home, k) <= sqDist(q, kd.parts[k].vec[r])
      BY <2>4, RowFacts, IndexFacts, GapLowerBound DEF home
    <2>6. gapBits(home, k) > worstDist
      BY <2>2, <2>3
    <2> QED
      BY <2>3, <2>4, <2>5, <2>6, FarRowIsBeaten
  <1>5. \A k \in Keys : \A r \in Rows(kd.parts[k]) :
          /\ ~ Pending(k, r)'
          /\ Pending(k, r) => Beaten(kd.parts[k].gidx[r])
    BY <1>1, <1>4 DEF Pending
  <1> QED
    BY <1>1, <1>3, <1>5, KeepBest

-----------------------------------------------------------------------------
(* When the search is over, no slot is empty: otherwise no reference could be
   beaten, and kd.n >= K references would have to fit into K - 1 slots. *)
LEMMA FullBest ==
  ASSUME IInv, pc \in {"done", "panic"}, NEW s \in Slots
  PROVE  best[s].gidx \in Ids(kd) /\ best[s] = Candidate(best[s].gidx)
  <1> USE DEF IInv
  <1> SUFFICES ASSUME best[s] = Empty PROVE FALSE
    BY DEF BestOK
  <1>1. \A k \in Keys : \A r \in Rows(kd.parts[k]) : ~ Pending(k, r)
    BY DEF Pending
  <1>2. ASSUME NEW g \in Ids(kd) PROVE \E i \in Slots \ {s} : best[i] = Candidate(g)
    <2>1. PICK k \in Keys : \E r \in Rows(kd.parts[k]) : kd.parts[k].gidx[r] = g
      BY IndexFacts DEF IndexOK
    <2>2. Chosen(g) \/ Beaten(g)
      <3>1. PICK r \in Rows(kd.parts[k]) : kd.parts[k].gidx[r] = g
        BY <2>1
      <3> QED
        BY <1>1, <3>1 DEF Covered
    <2>3. /\ Candidate(g) \in Entries /\ Empty \in Entries
          /\ Worse(Empty, Candidate(g)) /\ Candidate(g) # Empty
      BY CandidateFacts
    <2>4. ~ Beaten(g)
      BY <2>3, WorseOrder DEF Beaten
    <2> QED
      BY <2>2, <2>3, <2>4 DEF Chosen
  <1> DEFINE T == Slots \ {s}
             f == [g \in Ids(kd) |-> CHOOSE i \in T : best[i] = Candidate(g)]
  <1>3. \A g \in Ids(kd) : f[g] \in T /\ best[f[g]] = Candidate(g)
    BY <1>2
  <1>4. f \in [Ids(kd) -> T]
    BY <1>3
  <1>5. K \in Nat /\ K > 0 /\ kd.n \in Nat /\ K <= kd.n
    BY IndexFacts, KAssumption
  <1>6. IsFiniteSet(Slots) /\ Cardinality(Slots) = K
    BY SlotCount
  <1>7. IsFiniteSet(T) /\ Cardinality(T) = K - 1
    BY <1>6, FS_RemoveElement
  <1>8. IsFiniteSet(Ids(kd)) /\ Cardinality(Ids(kd)) = kd.n
    BY ReferenceCount
  <1>9. Cardinality(T) < Cardinality(Ids(kd))
    BY <1>5, <1>7, <1>8
  <1> HIDE DEF f, T
  <1>10. PICK x \in Ids(kd), y \in Ids(kd) : x # y /\ f[x] = f[y]
    BY <1>4, <1>7, <1>8, <1>9, FS_PigeonHole
  <1>11. Candidate(x) = Candidate(y)
    BY <1>3, <1>10
  <1>12. Candidate(x).gidx = x /\ Candidate(y).gidx = y
    BY CandidateFacts
  <1> QED
    BY <1>10, <1>11, <1>12

-----------------------------------------------------------------------------
(* Panicking needs an empty slot at the end. *)
PanicNeedsEmpty == pc = "panic" => \E i \in Slots : best[i].gidx \notin Ids(kd)

LEMMA InitInv == ASSUME Init PROVE IInv /\ PanicNeedsEmpty
  <1> USE DEF Init, probeOrder
  <1>1. ArgsOK
    BY DEF ArgsOK
  <1>2. 0 \in Slots /\ Inf \in Nat /\ NoId \in Nat /\ K \in Nat
    BY <1>1, IndexFacts, KAssumption DEF Slots
  <1>3. TypeOK
    BY <1>2 DEF TypeOK, Empty, Entry, Keys, partKey16
  <1>4. \A i \in Slots : best[i] = Empty
    OBVIOUS
  <1>5. BestOK
    BY <1>2, <1>4 DEF BestOK, Worse, Empty, Entry
  <1>6. StackOK
    BY DEF StackOK
  <1>7. \A k \in Keys : \A r \in Rows(kd.parts[k]) : Pending(k, r)
    BY DEF Pending
  <1>8. Covered
    BY <1>7 DEF Covered
  <1>9. ASSUME NEW k \in Keys, NEW r \in Rows(kd.parts[k]), NEW i \in Slots
        PROVE  best[i].gidx # kd.parts[k].gidx[r]
    <2>1. best[i].gidx = NoId
      BY DEF Empty, Entry
    <2>2. kd.parts[k].gidx[r] \in Ids(kd)
      BY <1>1, RowFacts
    <2> QED
      BY <1>1, <2>1, <2>2, CandidateFacts, <1>2
  <1>10. Fresh
    BY <1>9 DEF Fresh
  <1> QED
    BY <1>1, <1>3, <1>5, <1>6, <1>8, <1>10 DEF IInv, PanicNeedsEmpty

LEMMA StepInv ==
  ASSUME IInv, PanicNeedsEmpty, [Next]_vars
  PROVE  IInv' /\ PanicNeedsEmpty'
  <1>1. CASE EnterPart
    BY <1>1, EnterPartStep DEF EnterPart, PanicNeedsEmpty
  <1>2. CASE PopPruned
    BY <1>2, PopPrunedStep DEF PopPruned, PanicNeedsEmpty
  <1>3. CASE PopLeaf
    BY <1>3, PopLeafStep DEF PopLeaf, PanicNeedsEmpty
  <1>4. CASE PopInner
    BY <1>4, PopInnerStep DEF PopInner, PanicNeedsEmpty
  <1>5. CASE ConsiderRow
    BY <1>5, ConsiderRowStep DEF ConsiderRow, PanicNeedsEmpty
  <1>6. CASE LeafDone
    BY <1>6, LeafDoneStep DEF LeafDone, PanicNeedsEmpty
  <1>7. CASE PartDone
    BY <1>7, PartDoneStep DEF PartDone, PanicNeedsEmpty
  <1>8. CASE \E ob \in Keys : Probe(ob)
    BY <1>8, ProbeStep DEF Probe, PanicNeedsEmpty
  <1>9. CASE Count
    <2>1. IInv'
      BY <1>9, CountStep
    <2>2. PanicNeedsEmpty'
      BY <1>9 DEF Count, PanicNeedsEmpty
    <2> QED
      BY <2>1, <2>2
  <1>10. CASE UNCHANGED vars
    <2>1. \A k \in Keys : \A r \in Rows(kd.parts[k]) : Pending(k, r)' <=> Pending(k, r)
      BY <1>10 DEF vars, Pending, p
    <2>2. TypeOK' /\ StackOK' /\ PanicNeedsEmpty'
      BY <1>10 DEF IInv, vars, TypeOK, StackOK, p, PanicNeedsEmpty
    <2> QED
      BY <1>10, <2>1, <2>2, KeepBest DEF IInv, vars
  <1> QED
    BY <1>1, <1>2, <1>3, <1>4, <1>5, <1>6, <1>7, <1>8, <1>9, <1>10 DEF Next

LEMMA Invariance == Spec => [](IInv /\ PanicNeedsEmpty)
  <1>1. Init => IInv /\ PanicNeedsEmpty
    BY InitInv
  <1>2. IInv /\ PanicNeedsEmpty /\ [Next]_vars => IInv' /\ PanicNeedsEmpty'
    BY StepInv
  <1> QED
    BY <1>1, <1>2, PTL DEF Spec

LEMMA ExactInv == IInv => Exact
  <1> SUFFICES ASSUME IInv, pc = "done" PROVE Exact
    BY DEF Exact
  <1>1. \A i \in Slots : best[i].gidx \in Ids(kd) /\ best[i] = Candidate(best[i].gidx)
    BY FullBest
  <1>2. \A i \in Slots : best[i] # Empty
    BY <1>1, CandidateFacts DEF IInv
  <1>3. \A i, j \in Slots : best[i].gidx = best[j].gidx => i = j
    BY <1>2 DEF IInv, BestOK
  <1>4. ASSUME NEW g \in Ids(kd), \A i \in Slots : best[i].gidx # g PROVE Beaten(g)
    <2>1. PICK k \in Keys : \E r \in Rows(kd.parts[k]) : kd.parts[k].gidx[r] = g
      BY IndexFacts DEF IInv, IndexOK
    <2>2. PICK r \in Rows(kd.parts[k]) : kd.parts[k].gidx[r] = g
      BY <2>1
    <2>3. ~ Pending(k, r)
      BY DEF Pending
    <2>4. Candidate(g).gidx = g
      BY CandidateFacts DEF IInv
    <2>5. ~ Chosen(g)
      BY <1>4, <2>4 DEF Chosen
    <2> QED
      BY <2>2, <2>3, <2>5 DEF IInv, Covered
  <1> QED
    BY <1>1, <1>3, <1>4 DEF Exact

-----------------------------------------------------------------------------
(* Types; the count is a number of neighbours, 0..K. *)
THEOREM TypeCorrect == Spec => []TypeOK
  <1>1. IInv => TypeOK
    BY DEF IInv
  <1> QED
    BY <1>1, Invariance, PTL

(* No row is lost by pruning. *)
THEOREM NoRowLost == Spec => []Covered
  <1>1. IInv => Covered
    BY DEF IInv
  <1> QED
    BY <1>1, Invariance, PTL

(* The search never counts an empty slot: no index out of range. *)
THEOREM NeverPanics == Spec => []NoPanic
  <1>1. IInv /\ PanicNeedsEmpty => NoPanic
    BY FullBest DEF PanicNeedsEmpty, NoPanic
  <1> QED
    BY <1>1, Invariance, PTL

(* The search ends with the K nearest references: K different references,
   each better than every reference left out. *)
THEOREM SearchIsExact == Spec => []Exact
  BY Invariance, ExactInv, PTL

(* best5, the stack and the rows not yet seen agree at every step. *)
THEOREM BooksAgree == Spec => []Bookkeeping
  <1>1. IInv => Bookkeeping
    BY DEF IInv, Bookkeeping
  <1> QED
    BY <1>1, Invariance, PTL

(* The bound the search prunes by never grows. *)
THEOREM BoundShrinks == Spec => WorstNeverGrows
  <1>1. ASSUME IInv, [Next]_vars PROVE ~ Worse(best'[worst'], best[worst])
    <2>1. CASE ConsiderRow
      BY <1>1, <2>1, ConsiderRowStep
    <2>2. CASE ~ ConsiderRow
      <3>1. best' = best /\ worst' = worst
        BY <1>1, <2>2 DEF Next, vars, EnterPart, PopPruned, PopLeaf, PopInner,
                          LeafDone, PartDone, Probe, Count
      <3>2. ~ Worse(best[worst], best[worst])
        BY <1>1 DEF IInv, BestOK, TypeOK
      <3> QED
        BY <3>1, <3>2
    <2> QED
      BY <2>1, <2>2
  <1> QED
    BY <1>1, Invariance, PTL DEF Spec, WorstNeverGrows

-----------------------------------------------------------------------------
(* The search implements the abstract query. *)

LEMMA OracleCardinality == ASSUME NEW S PROVE Oracle!Cardinality(S) = Cardinality(S)
  BY DEF Oracle!Cardinality, Cardinality

LEMMA OracleCandidate == ASSUME NEW g PROVE Oracle!Candidate(g) = Candidate(g)
  BY DEF Oracle!Candidate, Oracle!Entry, Oracle!sqDist, Oracle!SumDims, Oracle!Sq, Oracle!Dims,
         Candidate, Entry, sqDist, SumDims, Sq, Dims

(* The candidates count ends with are the K nearest, and it counts each once. *)
LEMMA CountIsAnswer ==
  ASSUME IInv, Count, Exact', pc' = "done"
  PROVE  /\ {best[i].gidx : i \in Slots} = Oracle!Nearest
         /\ result' = Oracle!Cardinality({g \in Oracle!Nearest : kd.fraud[g]})
  <1> DEFINE S == {best[i].gidx : i \in Slots}
             c == [g \in Ids(kd) |-> Candidate(g)]
             f == [i \in Slots |-> best[i].gidx]
             J == {i \in Slots : kd.fraud[best[i].gidx]}
             T == {g \in S : kd.fraud[g]}
  <1>1. UNCHANGED <<kd, q, best>>
    BY DEF Count
  <1>2. \A g : Candidate(g)' = Candidate(g)
    BY <1>1 DEF Candidate
  <1>3. /\ \A i \in Slots : best[i].gidx \in Ids(kd) /\ best[i] = Candidate(best[i].gidx)
        /\ \A i, j \in Slots : best[i].gidx = best[j].gidx => i = j
        /\ \A g \in Ids(kd) : (\A i \in Slots : best[i].gidx # g) =>
             \A i \in Slots : Worse(Candidate(g), best[i])
    BY <1>1, <1>2 DEF Exact, Beaten
  <1>4. IsFiniteSet(Ids(kd)) /\ IsFiniteSet(Slots) /\ Cardinality(Slots) = K /\ K \in Nat
    BY ReferenceCount, SlotCount, KAssumption DEF IInv
  <1>5. \A g \in Ids(kd) : c[g] = Candidate(g) /\ Candidate(g) \in Entries
    BY CandidateFacts DEF IInv
  <1>6. /\ \A i \in Slots : f[i] \in S
        /\ \A g \in S : \E i \in Slots : f[i] = g
        /\ \A i, j \in Slots : f[i] = f[j] => i = j
    BY <1>3
  <1>7. Cardinality(S) = K
    <2> HIDE DEF f, S
    <2> QED
      BY <1>4, <1>6, CountOnce
  <1>8. S \in SUBSET Ids(kd)
    BY <1>3
  <1>9. \A g \in Ids(kd) \ S, s \in S : Worse(c[g], c[s])
    BY <1>3, <1>5
  <1>10. {g \in Ids(kd) : Cardinality({h \in Ids(kd) : Worse(c[g], c[h])}) < K} = S
    <2> HIDE DEF S, c
    <2> QED
      BY <1>4, <1>5, <1>7, <1>8, <1>9, TopN
  <1>11. Oracle!Nearest = S
    <2>1. \A g, h \in Ids(kd) :
            Oracle!Worse(Oracle!Candidate(g), Oracle!Candidate(h)) <=> Worse(c[g], c[h])
      BY <1>5, OracleCandidate DEF Oracle!Worse, Worse
    <2>2. \A g \in Ids(kd) :
            {h \in Ids(kd) : Oracle!Worse(Oracle!Candidate(g), Oracle!Candidate(h))}
              = {h \in Ids(kd) : Worse(c[g], c[h])}
      BY <2>1
    <2>3. Oracle!Nearest =
            {g \in Ids(kd) :
               Cardinality({h \in Ids(kd) :
                 Oracle!Worse(Oracle!Candidate(g), Oracle!Candidate(h))}) < K}
      BY OracleCardinality DEF Oracle!Nearest
    <2> HIDE DEF S, c
    <2>4. Oracle!Nearest =
            {g \in Ids(kd) : Cardinality({h \in Ids(kd) : Worse(c[g], c[h])}) < K}
      BY <2>2, <2>3
    <2> QED
      BY <1>10, <2>4
  <1>12. result' = Cardinality({i \in Slots : kd.fraud[best[i].gidx]})
    BY DEF Count
  <1>13. Cardinality(J) = Cardinality(T)
    <2>1. J \in SUBSET Slots /\ IsFiniteSet(J)
      BY <1>4, FS_Subset
    <2>2. (\A i \in J : f[i] \in T) /\ (\A g \in T : \E i \in J : f[i] = g)
      OBVIOUS
    <2>3. \A i, j \in J : f[i] = f[j] => i = j
      BY <1>6
    <2> HIDE DEF f, S, J, T
    <2> QED
      BY <2>1, <2>2, <2>3, CountOnce
  <1> QED
    BY <1>11, <1>12, <1>13, OracleCardinality

(* A search that has not returned has no result. *)
NotYet == pc # "done" => result = -1

(* FraudCount5 and FraudCount5All answer in one step, with the number of frauds
   among the K references nearest to the query, whatever the search pruned. *)
THEOREM AnswersLikeTheScan == Spec => Oracle!Safety
  <1> DEFINE neighbors == IF pc = "done" THEN {best[i].gidx : i \in Slots} ELSE {}
             Inv == IInv /\ PanicNeedsEmpty /\ NotYet
  <1>1. Init => NotYet /\ Oracle!Init
    BY DEF Init, NotYet, Oracle!Init
  <1>2. IInv /\ NotYet /\ [Next]_vars => NotYet'
    BY DEF Next, vars, NotYet, EnterPart, PopPruned, PopLeaf, PopInner, ConsiderRow, LeafDone,
           PartDone, Probe, Count
  <1>3. Spec => []Inv
    BY <1>1, <1>2, Invariance, PTL DEF Spec
  <1>4. Inv /\ Inv' /\ [Next]_vars => [Oracle!Answer]_<<kd, Ids(kd), q, neighbors, result>>
    <2> SUFFICES ASSUME Inv, Inv', [Next]_vars
                 PROVE  Oracle!Answer \/ UNCHANGED <<kd, Ids(kd), q, neighbors, result>>
      OBVIOUS
    <2>1. UNCHANGED <<kd, Ids(kd), q>>
      BY DEF Next, vars, EnterPart, PopPruned, PopLeaf, PopInner, ConsiderRow, LeafDone,
             PartDone, Probe, Count
    <2>2. CASE Count /\ pc' = "done"
      <3>1. Exact'
        BY ExactInv, PTL
      <3>2. result = -1
        BY <2>2 DEF NotYet, Count
      <3>3. neighbors' = {best[i].gidx : i \in Slots}
        BY <2>2 DEF Count
      <3>4. /\ {best[i].gidx : i \in Slots} = Oracle!Nearest
            /\ result' = Oracle!Cardinality({g \in Oracle!Nearest : kd.fraud[g]})
        BY <2>2, <3>1, CountIsAnswer
      <3> HIDE DEF neighbors
      <3>5. neighbors' = Oracle!Nearest
        BY <3>3, <3>4
      <3> QED
        BY <2>1, <3>2, <3>4, <3>5 DEF Oracle!Answer, neighbors
    <2>3. CASE ~ (Count /\ pc' = "done")
      <3>1. CASE pc' = "done"
        BY <2>3, <3>1 DEF Next, vars, EnterPart, PopPruned, PopLeaf, PopInner, ConsiderRow,
                          LeafDone, PartDone, Probe
      <3>2. CASE pc' # "done"
        <4>1. pc # "done" /\ result' = result
          BY <2>3, <3>2 DEF Next, vars, EnterPart, PopPruned, PopLeaf, PopInner, ConsiderRow,
                            LeafDone, PartDone, Probe, Count
        <4> QED
          BY <2>1, <3>2, <4>1
      <3> QED
        BY <2>1, <3>1, <3>2
    <2> QED
      BY <2>2, <2>3
  <1> QED
    BY <1>1, <1>3, <1>4, PTL DEF Spec, Oracle!Safety, Oracle!vars
=============================================================================
