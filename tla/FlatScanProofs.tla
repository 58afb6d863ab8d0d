-------------------------- MODULE FlatScanProofs ---------------------------
(***************************************************************************)
(* The scans answer with the K nearest references, for every table, query  *)
(* and K: the brute force with those of the table, the bucket scan with    *)
(* those of the partition of the query.                                    *)
(*                                                                         *)
(* FInv is inductive. Of the buckets it says that they hold every          *)
(* reference already looked at once, each in the bucket of its partition;  *)
(* of the candidates, that they are the best of the references already     *)
(* scanned (BestOf). At the end the scanned references are those the       *)
(* answer is about, and K of them that are better than all the others are  *)
(* the ones with fewer than K better than them (TopN).                     *)
(*                                                                         *)
(* The second part is about FraudCounts: its goroutines write every        *)
(* element of the result once, for every number of queries and of          *)
(* processors. CInv is inductive: the goroutine of chunk g writes within   *)
(* its chunk, has written the elements before its position and no other;   *)
(* elements of chunks not yet cut off are not written; and wg counts the   *)
(* goroutines that have not ended. The chunks are apart from one another,  *)
(* and because the division rounds up they reach the end of the queries.   *)
(***************************************************************************)
EXTENDS FlatScan, FraudCounts, KDIndexProofs

(* The candidate of a reference; the references the answer is about, and those
   a scan has gone through. *)
Cand    == [g \in Ids(refs) |-> Entry(sqDist(query, refs.vec[g]), g)]
Among   == {g \in Ids(refs) : all \/ partKey16(refs.vec[g]) = partKey16(query)}
Scanned == {rows[r] : r \in 1..i}

TypeInv ==
  /\ refs \in Tables /\ query \in Queries /\ all \in BOOLEAN
  /\ i \in Nat
  /\ buckets \in [Keys -> Seq(Nat)]
  /\ pc \in {"build", "scan", "done", "panic"}
  /\ pc # "build" => i <= Len(rows)
  /\ pc = "build" => /\ ~ all /\ i <= refs.n
                     /\ best = [s \in Slots |-> Empty] /\ worst = 0
  /\ pc \in {"build", "scan"} => count = -1

(* The first m references are in the buckets of their partitions, once. *)
Filled(m) ==
  /\ \A k \in Keys : \A r \in 1..Len(buckets[k]) :
       buckets[k][r] \in 0..(m - 1) /\ partKey16(refs.vec[buckets[k][r]]) = k
  /\ \A k \in Keys : \A r, s \in 1..Len(buckets[k]) : buckets[k][r] = buckets[k][s] => r = s
  /\ \A g \in 0..(m - 1) : \E r \in 1..Len(buckets[partKey16(refs.vec[g])]) :
       buckets[partKey16(refs.vec[g])][r] = g

FInv ==
  /\ TypeInv
  /\ ~ all => Filled(IF pc = "build" THEN i ELSE refs.n)
  /\ pc # "build" => BestOf(Slots, Cand, best, worst, Scanned)

-----------------------------------------------------------------------------
LEMMA TableFacts ==
  ASSUME TypeInv
  PROVE  /\ refs.n \in Nat /\ refs.n <= NoId /\ NoId \in Nat /\ Inf \in Nat
         /\ K \in Nat /\ 0 \in Slots
         /\ \A g \in Ids(refs) : /\ g \in Nat /\ g # NoId
                                 /\ Cand[g] = Entry(sqDist(query, refs.vec[g]), g)
                                 /\ Cand[g] \in Entries /\ Cand[g].gidx = g
                                 /\ Worse(Empty, Cand[g])
         /\ Empty \in Entries
  <1>1. /\ refs.n \in Nat /\ refs.n <= NoId /\ NoId \in Nat /\ Inf \in Nat
        /\ K \in Nat /\ 0 \in Slots /\ Quantized(query)
        /\ \A g \in Ids(refs) : Quantized(refs.vec[g])
    BY TableAssumption, QueryAssumption, KAssumption, NoIdAssumption, InfAssumption
       DEF TypeInv, Slots
  <1>2. ASSUME NEW g \in Ids(refs)
        PROVE  /\ g \in Nat /\ g # NoId
               /\ Cand[g] = Entry(sqDist(query, refs.vec[g]), g)
               /\ Cand[g] \in Entries /\ Cand[g].gidx = g
               /\ Worse(Empty, Cand[g])
    <2>1. sqDist(query, refs.vec[g]) \in Nat /\ sqDist(query, refs.vec[g]) < Inf
      BY <1>1, DistBelowInf
    <2>2. g \in Nat /\ g # NoId
      BY <1>1 DEF Ids
    <2>3. Cand[g] = Entry(sqDist(query, refs.vec[g]), g)
      BY DEF Cand
    <2> QED
      BY <1>1, <2>1, <2>2, <2>3 DEF Entry, Entries, Empty, Worse
  <1> QED
    BY <1>1, <1>2 DEF Empty, Entry, Entries

LEMMA KeyIsKey == ASSUME NEW v PROVE partKey16(v) \in Keys
  BY DEF partKey16, Keys

(* A scan goes through the references the answer is about, each once. *)
LEMMA RowsFacts ==
  ASSUME FInv, pc # "build"
  PROVE  /\ Len(rows) \in Nat
         /\ \A r \in 1..Len(rows) : rows[r] \in Among
         /\ \A r, s \in 1..Len(rows) : rows[r] = rows[s] => r = s
         /\ \A g \in Among : \E r \in 1..Len(rows) : rows[r] = g
  <1>1. refs.n \in Nat
    BY TableFacts DEF FInv
  <1>2. CASE all
    <2>1. Len(rows) = refs.n /\ \A r \in 1..refs.n : rows[r] = r - 1
      BY <1>1, <1>2 DEF rows
    <2>2. \A g \in Among : g \in Int /\ g + 1 \in 1..refs.n /\ rows[g + 1] = g
      BY <1>1, <2>1 DEF Among, Ids
    <2> QED
      BY <1>1, <1>2, <2>1, <2>2 DEF Among, Ids
  <1>3. CASE ~ all
    <2>1. Filled(refs.n) /\ rows = buckets[partKey16(query)] /\ partKey16(query) \in Keys
      BY <1>3, KeyIsKey DEF FInv, rows
    <2>2. rows \in Seq(Nat)
      BY <2>1 DEF FInv, TypeInv
    <2> QED
      BY <1>3, <2>1, <2>2 DEF Filled, Among, Ids
  <1> QED
    BY <1>2, <1>3 DEF FInv, TypeInv


LEMMA InitInv == ASSUME Init PROVE FInv
  <1>1. buckets \in [Keys -> Seq(Nat)] /\ \A k \in Keys : Len(buckets[k]) = 0
    BY DEF Init
  <1>2. TypeInv
    <2>1. refs.n \in Nat
      BY TableAssumption DEF Init
    <2>2. all => Len(rows) = refs.n
      BY <2>1 DEF rows
    <2> QED
      BY <1>1, <2>1, <2>2 DEF Init, TypeInv
  <1>3. Filled(0)
    BY <1>1 DEF Filled
  <1>4. i = 0 /\ Scanned = {}
    BY DEF Init, Scanned
  <1>5. BestOf(Slots, Cand, best, worst, {})
    <2>1. /\ best = [s \in Slots |-> Empty] /\ worst = 0 /\ Empty \in Entries /\ 0 \in Slots
      BY <1>2, TableFacts DEF Init
    <2>2. ~ Worse(Empty, Empty)
      BY <2>1, WorseOrder
    <2> QED
      BY <2>1, <2>2 DEF BestOf
  <1> QED
    BY <1>2, <1>3, <1>4, <1>5 DEF FInv, Init

(* The rows stay the same while they are scanned. *)
LEMMA SameArgs ==
  ASSUME [Next]_vars
  PROVE  UNCHANGED <<refs, query, all>>
         /\ Ids(refs)' = Ids(refs) /\ Cand' = Cand /\ Among' = Among
  BY DEF Next, vars, Fill, Built, Row, Count, Ids, Cand, Among

LEMMA FillStep == ASSUME FInv, Fill PROVE FInv'
  <1> DEFINE k == partKey16(refs.vec[i])
  <1>1. /\ refs.n \in Nat /\ i \in Nat /\ i < refs.n /\ ~ all /\ k \in Keys
        /\ buckets \in [Keys -> Seq(Nat)]
    BY TableFacts, KeyIsKey DEF FInv, TypeInv, Fill
  <1>2. UNCHANGED <<refs, query, all, best, worst, pc, count>> /\ pc = "build" /\ i' = i + 1
    BY DEF Fill
  <1>3. PICK b : b = Append(buckets[k], i)
    OBVIOUS
  <1>4. /\ b \in Seq(Nat) /\ Len(b) = Len(buckets[k]) + 1 /\ Len(buckets[k]) \in Nat
        /\ \A r \in 1..Len(buckets[k]) : b[r] = buckets[k][r]
        /\ b[Len(buckets[k]) + 1] = i
    BY <1>1, <1>3
  <1>5. /\ buckets' \in [Keys -> Seq(Nat)] /\ buckets'[k] = b
        /\ \A j \in Keys \ {k} : buckets'[j] = buckets[j]
    BY <1>1, <1>3, <1>4 DEF Fill
  <1>6. Filled(i)
    BY <1>1, <1>2 DEF FInv
  <1> HIDE DEF k
  <1>7. ASSUME NEW j \in Keys, NEW r \in 1..Len(buckets'[j])
        PROVE  buckets'[j][r] \in 0..((i + 1) - 1) /\ partKey16(refs.vec[buckets'[j][r]]) = j
    <2>1. CASE j # k
      BY <1>1, <1>5, <1>6, <1>7, <2>1 DEF Filled
    <2>2. CASE j = k /\ r \in 1..Len(buckets[k])
      <3>1. buckets'[j][r] = buckets[k][r]
        BY <1>4, <1>5, <2>2
      <3>2. buckets[k][r] \in 0..(i - 1) /\ partKey16(refs.vec[buckets[k][r]]) = k
        BY <1>1, <1>6, <2>2 DEF Filled
      <3> QED
        BY <1>1, <2>2, <3>1, <3>2
    <2>3. CASE j = k /\ r = Len(buckets[k]) + 1
      BY <1>1, <1>4, <1>5, <2>3 DEF k
    <2> QED
      BY <1>4, <1>5, <1>7, <2>1, <2>2, <2>3
  <1>8. ASSUME NEW j \in Keys, NEW r \in 1..Len(buckets'[j]), NEW s \in 1..Len(buckets'[j]),
               buckets'[j][r] = buckets'[j][s]
        PROVE  r = s
    <2>1. CASE j # k
      BY <1>5, <1>6, <1>8, <2>1 DEF Filled
    <2>2. CASE j = k
      <3>1. \A x \in 1..Len(buckets[k]) : b[x] # i
        BY <1>1, <1>4, <1>6 DEF Filled
      <3>2. CASE r \in 1..Len(buckets[k]) /\ s \in 1..Len(buckets[k])
        <4>1. buckets[k][r] = buckets[k][s]
          BY <1>4, <1>5, <1>8, <2>2, <3>2
        <4> QED
          BY <1>1, <1>6, <3>2, <4>1 DEF Filled
      <3>3. /\ \A x \in 1..Len(b) : x \in 1..Len(buckets[k]) \/ x = Len(buckets[k]) + 1
            /\ r \in 1..Len(b) /\ s \in 1..Len(b) /\ b[r] = b[s]
        <4>1. r \in 1..Len(b) /\ s \in 1..Len(b) /\ b[r] = b[s]
          BY <1>5, <1>8, <2>2
        <4>2. \A x \in 1..Len(b) : x \in 1..Len(buckets[k]) \/ x = Len(buckets[k]) + 1
          BY <1>4
        <4> QED
          BY <4>1, <4>2
      <3>4. CASE r = Len(buckets[k]) + 1
        <4>1. s \notin 1..Len(buckets[k])
          BY <1>4, <3>1, <3>3, <3>4
        <4> QED
          BY <3>3, <3>4, <4>1
      <3>5. CASE s = Len(buckets[k]) + 1
        <4>1. r \notin 1..Len(buckets[k])
          BY <1>4, <3>1, <3>3, <3>5
        <4> QED
          BY <3>3, <3>5, <4>1
      <3> QED
        BY <3>2, <3>3, <3>4, <3>5
    <2> QED
      BY <2>1, <2>2
  <1>9. ASSUME NEW g \in 0..((i + 1) - 1)
        PROVE  \E r \in 1..Len(buckets'[partKey16(refs.vec[g])]) :
                 buckets'[partKey16(refs.vec[g])][r] = g
    <2>1. CASE g = i
      <3>1. partKey16(refs.vec[g]) = k
        BY <2>1 DEF k
      <3> QED
        BY <1>4, <1>5, <2>1, <3>1
    <2>2. CASE g # i
      <3>1. g \in 0..(i - 1)
        BY <1>1, <2>2
      <3>2. PICK r \in 1..Len(buckets[partKey16(refs.vec[g])]) :
              buckets[partKey16(refs.vec[g])][r] = g
        BY <1>6, <3>1 DEF Filled
      <3>3. CASE partKey16(refs.vec[g]) = k
        <4>1. r \in 1..Len(buckets[k]) /\ b[r] = g
          BY <1>4, <3>2, <3>3
        <4>2. r \in 1..Len(b)
          BY <1>4, <4>1
        <4> QED
          BY <1>5, <3>3, <4>1, <4>2
      <3>4. CASE partKey16(refs.vec[g]) # k
        BY <1>5, <3>2, <3>4, KeyIsKey
      <3> QED
        BY <3>3, <3>4
    <2> QED
      BY <2>1, <2>2
  <1>10. Filled(i)'
    BY <1>2, <1>7, <1>8, <1>9 DEF Filled
  <1>11. TypeInv'
    BY <1>1, <1>2, <1>5 DEF FInv, TypeInv, Slots
  <1> QED
    BY <1>2, <1>10, <1>11 DEF FInv

LEMMA BuiltStep == ASSUME FInv, Built PROVE FInv'
  <1>1. /\ UNCHANGED <<refs, query, all, buckets, best, worst, count>>
        /\ pc = "build" /\ pc' = "scan" /\ i = refs.n /\ i' = 0 /\ ~ all
    BY DEF Built, FInv, TypeInv
  <1>2. Filled(refs.n)'
    BY <1>1 DEF FInv, Filled
  <1>3. Len(rows') \in Nat
    <2>1. rows' = buckets[partKey16(query)] /\ partKey16(query) \in Keys
      BY <1>1, KeyIsKey DEF rows
    <2> QED
      BY <2>1 DEF FInv, TypeInv
  <1>4. TypeInv'
    BY <1>1, <1>3 DEF FInv, TypeInv
  <1>5. BestOf(Slots, Cand, best, worst, Scanned)'
    <2>1. /\ best = [s \in Slots |-> Empty] /\ worst = 0 /\ Empty \in Entries /\ 0 \in Slots
      BY <1>1, TableFacts DEF FInv, TypeInv
    <2>2. ~ Worse(Empty, Empty)
      BY <2>1, WorseOrder
    <2>3. Scanned' = {}
      BY <1>1 DEF Scanned
    <2>4. BestOf(Slots, Cand', best, worst, {})
      BY <2>1, <2>2 DEF BestOf
    <2> QED
      BY <1>1, <2>3, <2>4 DEF Slots
  <1> QED
    BY <1>1, <1>2, <1>4, <1>5 DEF FInv

LEMMA RowStep == ASSUME FInv, Row PROVE FInv'
  <1>1. /\ UNCHANGED <<refs, query, all, buckets, pc, count>>
        /\ pc = "scan" /\ i < Len(rows) /\ i \in Nat /\ i' = i + 1
        /\ rows' = rows /\ Cand' = Cand /\ Slots' = Slots
    BY DEF Row, FInv, TypeInv, rows, Cand, Ids, Slots
  <1>2. /\ Len(rows) \in Nat
        /\ \A r \in 1..Len(rows) : rows[r] \in Ids(refs)
        /\ \A r, s \in 1..Len(rows) : rows[r] = rows[s] => r = s
    BY <1>1, RowsFacts DEF Among
  <1>3. PICK g : g = rows[i + 1]
    OBVIOUS
  <1>4. i + 1 \in 1..Len(rows) /\ g \in Ids(refs)
    BY <1>1, <1>2, <1>3
  <1>5. g \notin Scanned /\ Scanned \subseteq Ids(refs)
    BY <1>1, <1>2, <1>3, <1>4 DEF Scanned
  <1>6. Scanned' = Scanned \cup {g}
    BY <1>1, <1>3 DEF Scanned
  <1>7. /\ Cand[g] = Entry(sqDist(query, refs.vec[g]), g)
        /\ Cand[g] \in Entries
        /\ \A h \in Scanned \cup {g} : /\ Cand[h] \in Entries /\ Cand[h].gidx = h
                                       /\ h # NoId /\ Worse(Empty, Cand[h])
    BY <1>4, <1>5, TableFacts DEF FInv
  <1>8. BestOf(Slots, Cand, best, worst, Scanned)
    BY <1>1 DEF FInv
  <1>9. \/ /\ Worse(best[worst], Cand[g])
           /\ best' = [best EXCEPT ![worst] = Cand[g]]
           /\ worst' \in Slots /\ \A j \in Slots : ~ Worse(best'[j], best'[worst'])
        \/ /\ ~ Worse(best[worst], Cand[g])
           /\ best' = best /\ worst' = worst
    <2>1. best[worst] \in Entries
      BY <1>8 DEF BestOf
    <2>2. Replaces(sqDist(query, refs.vec[g]), g, best[worst]) <=> Worse(best[worst], Cand[g])
      BY <1>7, <2>1 DEF Replaces, Worse, Entry, Entries
    <2> QED
      BY <1>3, <1>7, <2>2 DEF Row, NewWorst
  <1>10. BestOf(Slots, Cand, best', worst', Scanned \cup {g})
    BY <1>5, <1>7, <1>8, <1>9, OneMore
  <1>11. Filled(refs.n)' <=> Filled(refs.n)
    BY <1>1 DEF Filled
  <1>12. TypeInv'
    BY <1>1, <1>2 DEF FInv, TypeInv
  <1> QED
    BY <1>1, <1>6, <1>10, <1>11, <1>12 DEF FInv

LEMMA CountStep == ASSUME FInv, Count PROVE FInv'
  <1>1. /\ UNCHANGED <<refs, query, all, buckets, i, best, worst>>
        /\ pc = "scan" /\ pc' \in {"done", "panic"}
        /\ rows' = rows /\ Cand' = Cand /\ Slots' = Slots /\ Scanned' = Scanned
    BY DEF Count, rows, Cand, Ids, Slots, Scanned
  <1>2. Filled(refs.n)' <=> Filled(refs.n)
    BY <1>1 DEF Filled
  <1>3. TypeInv'
    BY <1>1 DEF FInv, TypeInv
  <1> QED
    BY <1>1, <1>2, <1>3 DEF FInv

LEMMA Invariance == Spec => []FInv
  <1>1. ASSUME FInv, [Next]_vars PROVE FInv'
    <2>1. CASE Fill
      BY <1>1, <2>1, FillStep
    <2>2. CASE Built
      BY <1>1, <2>2, BuiltStep
    <2>3. CASE Row
      BY <1>1, <2>3, RowStep
    <2>4. CASE Count
      BY <1>1, <2>4, CountStep
    <2>5. CASE UNCHANGED vars
      <3>1. /\ UNCHANGED <<refs, query, all, buckets, i, best, worst, pc, count>>
            /\ rows' = rows /\ Cand' = Cand /\ Slots' = Slots /\ Scanned' = Scanned
        BY <2>5 DEF vars, rows, Cand, Ids, Slots, Scanned
      <3>2. TypeInv'
        BY <1>1, <3>1 DEF FInv, TypeInv
      <3>3. (Filled(i)' <=> Filled(i)) /\ (Filled(refs.n)' <=> Filled(refs.n))
        BY <3>1 DEF Filled
      <3> QED
        BY <1>1, <3>1, <3>2, <3>3 DEF FInv
    <2> QED
      BY <1>1, <2>1, <2>2, <2>3, <2>4, <2>5 DEF Next
  <1> QED
    BY InitInv, <1>1, PTL DEF Spec


-----------------------------------------------------------------------------
(* The scans implement the abstract query. *)

LEMMA OracleOps ==
  /\ \A S : Oracle!Cardinality(S) = Cardinality(S)
  /\ \A a, b : Oracle!Worse(a, b) <=> Worse(a, b)
  /\ Oracle!Ids(refs) = Ids(refs)
  BY DEF Oracle!Cardinality, Cardinality, Oracle!Worse, Worse, Oracle!Ids, Ids

LEMMA OracleCandidate ==
  ASSUME NEW g PROVE Oracle!Candidate(g) = Entry(sqDist(query, refs.vec[g]), g)
  BY DEF Oracle!Candidate, Oracle!Entry, Oracle!sqDist, Oracle!SumDims, Oracle!Sq, Oracle!Dims,
         Entry, sqDist, SumDims, Sq, Dims

LEMMA AmongFinite ==
  ASSUME TypeInv
  PROVE  IsFiniteSet(Among) /\ IsFiniteSet(Slots) /\ Cardinality(Slots) = K /\ K \in Nat
  <1>1. refs.n \in Nat /\ K \in Nat /\ K > 0
    BY TableFacts, KAssumption
  <1>2. IsFiniteSet(0..(refs.n - 1))
    <2>1. PICK m \in Nat : m = refs.n
      BY <1>1
    <2> QED
      BY <2>1, FS_Interval
  <1>3. Among \subseteq 0..(refs.n - 1)
    BY DEF Among, Ids
  <1>4. IsFiniteSet(Slots) /\ Cardinality(Slots) = K
    BY KAssumption, FS_Interval DEF Slots
  <1> QED
    BY <1>1, <1>2, <1>3, <1>4, FS_Subset

(* The candidates a scan ends with are the K nearest, and it counts each once. *)
LEMMA CountIsAnswer ==
  ASSUME FInv, Count, pc' = "done"
  PROVE  /\ {best[s].gidx : s \in Slots} = Oracle!Nearest
         /\ count' = Oracle!Cardinality({g \in Oracle!Nearest : refs.fraud[g]})
  <1> DEFINE S == {best[s].gidx : s \in Slots}
             f == [s \in Slots |-> best[s].gidx]
             J == {s \in Slots : refs.fraud[best[s].gidx]}
             T == {g \in S : refs.fraud[g]}
  <1>1. /\ pc = "scan" /\ i = Len(rows) /\ (\A s \in Slots : best[s].gidx \in Ids(refs))
        /\ count' = Cardinality(J)
    BY DEF Count
  <1>2. Scanned = Among
    BY <1>1, RowsFacts DEF Scanned
  <1>3. BestOf(Slots, Cand, best, worst, Among)
    BY <1>1, <1>2 DEF FInv
  <1>4. /\ IsFiniteSet(Among) /\ IsFiniteSet(Slots) /\ Cardinality(Slots) = K /\ K \in Nat
        /\ Among \subseteq Ids(refs)
        /\ \A g \in Ids(refs) : Cand[g] \in Entries /\ Cand[g].gidx = g /\ g # NoId
    BY AmongFinite, TableFacts DEF FInv, Among
  <1>5. ASSUME NEW s \in Slots
        PROVE  best[s].gidx \in Among /\ best[s] = Cand[best[s].gidx] /\ best[s] # Empty
    <2>1. best[s] # Empty
      BY <1>1, <1>4 DEF Empty, Entry
    <2> QED
      BY <1>3, <2>1 DEF BestOf
  <1>6. /\ \A s \in Slots : f[s] \in S
        /\ \A g \in S : \E s \in Slots : f[s] = g
        /\ \A s, t \in Slots : f[s] = f[t] => s = t
    BY <1>3, <1>5 DEF BestOf
  <1>7. Cardinality(S) = K
    <2> HIDE DEF f, S
    <2> QED
      BY <1>4, <1>6, CountOnce
  <1>8. S \in SUBSET Among
    BY <1>5
  <1>9. \A g \in Among \ S, h \in S : Worse(Cand[g], Cand[h])
    <2>1. ASSUME NEW g \in Among \ S, NEW s \in Slots PROVE Worse(Cand[g], best[s])
      <3>1. \A t \in Slots : best[t] # Cand[g]
        BY <1>4
      <3> QED
        BY <1>3, <3>1 DEF BestOf
    <2> QED
      BY <1>5, <2>1
  <1>10. {g \in Among : Cardinality({h \in Among : Worse(Cand[g], Cand[h])}) < K} = S
    <2>1. \A g \in Among : Cand[g] \in Entries
      BY <1>4
    <2> HIDE DEF S
    <2> QED
      BY <1>4, <1>7, <1>8, <1>9, <2>1, TopN
  <1>11. Oracle!Nearest = S
    <2>1. \A g, h \in Among :
            Oracle!Worse(Oracle!Candidate(g), Oracle!Candidate(h)) <=> Worse(Cand[g], Cand[h])
      BY <1>4, OracleCandidate, OracleOps DEF Cand
    <2>2. \A g \in Among :
            {h \in Among : Oracle!Worse(Oracle!Candidate(g), Oracle!Candidate(h))}
              = {h \in Among : Worse(Cand[g], Cand[h])}
      BY <2>1
    <2>3. Oracle!Nearest =
            {g \in Among :
               Cardinality({h \in Among :
                 Oracle!Worse(Oracle!Candidate(g), Oracle!Candidate(h))}) < K}
      BY OracleOps DEF Oracle!Nearest, Among
    <2> HIDE DEF S
    <2>4. Oracle!Nearest =
            {g \in Among : Cardinality({h \in Among : Worse(Cand[g], Cand[h])}) < K}
      BY <2>2, <2>3
    <2> QED
      BY <1>10, <2>4
  <1>12. Cardinality(J) = Cardinality(T)
    <2>1. J \in SUBSET Slots /\ IsFiniteSet(J)
      BY <1>4, FS_Subset
    <2>2. (\A s \in J : f[s] \in T) /\ (\A g \in T : \E s \in J : f[s] = g)
      OBVIOUS
    <2>3. \A s, t \in J : f[s] = f[t] => s = t
      BY <1>6
    <2> HIDE DEF f, S, J, T
    <2> QED
      BY <2>1, <2>2, <2>3, CountOnce
  <1> QED
    BY <1>1, <1>11, <1>12, OracleOps

(* A scan answers once, in one step, with the K nearest of the references it is
   asked about and the frauds among them: the brute force with those of the
   table, the bucket scan with those of the query's own partition. *)
THEOREM ScanIsExact == Spec => CountsNearest
  <1> DEFINE neighbors == IF pc = "done" THEN {best[s].gidx : s \in Slots} ELSE {}
  <1>1. Init => Oracle!Init
    BY DEF Init, Oracle!Init
  <1>2. ASSUME FInv, [Next]_vars
        PROVE  Oracle!Answer \/ UNCHANGED <<refs, Among, query, neighbors, count>>
    <2>1. UNCHANGED <<refs, Among, query>>
      BY <1>2, SameArgs
    <2>2. CASE Count /\ pc' = "done"
      <3>1. count = -1
        BY <1>2, <2>2 DEF FInv, TypeInv, Count
      <3>2. neighbors' = {best[s].gidx : s \in Slots}
        BY <2>2 DEF Count, Slots
      <3>3. /\ {best[s].gidx : s \in Slots} = Oracle!Nearest
            /\ count' = Oracle!Cardinality({g \in Oracle!Nearest : refs.fraud[g]})
        BY <1>2, <2>2, CountIsAnswer
      <3> HIDE DEF neighbors
      <3>4. neighbors' = Oracle!Nearest
        BY <3>2, <3>3
      <3>5. Oracle!Answer
        BY <2>1, <3>1, <3>3, <3>4 DEF Oracle!Answer, neighbors, Among
      <3> QED
        BY <3>5
    <2>3. CASE ~ (Count /\ pc' = "done")
      <3>1. count' = count /\ (pc' = "done" <=> pc = "done") /\ (pc = "done" => best' = best)
        BY <1>2, <2>3 DEF Next, vars, Fill, Built, Row, Count
      <3>2. neighbors' = neighbors
        BY <3>1 DEF Slots
      <3> QED
        BY <2>1, <3>1, <3>2
    <2> QED
      BY <2>2, <2>3
  <1> QED
    BY <1>1, <1>2, Invariance, PTL DEF Spec, CountsNearest, Oracle!Safety, Oracle!vars, Among

(* The kernel of the other build computes the same distances for every table and
   query whose quantized values fit a lane with their differences. *)
THEOREM BuildsAgree == Spec => []KernelsAgree
  <1>1. FInv => KernelsAgree
    BY TableAssumption, QueryAssumption, LaneAssumption, SimdKernelIsExact
       DEF FInv, TypeInv, KernelsAgree
  <1> QED
    BY <1>1, Invariance, PTL

-----------------------------------------------------------------------------
(* FraudCounts. *)

Gs       == 0 .. MaxCPU - 1
Start(g) == g * Chunk
Running  == {g \in Gs : span[g] # NoSpan}

ChunksTypeInv ==
  /\ n \in 0 .. MaxQueries /\ workers \in 1 .. MaxCPU /\ w \in 0 .. workers
  /\ caller \in {"spawn", "wait", "returned"}
  /\ wg \in Nat
  /\ span \in [Gs -> [i : Nat, hi : Nat]]
  /\ written \in [0 .. MaxQueries - 1 -> Nat]

(* A goroutine that runs is at a place of its chunk. *)
SpanInv ==
  \A g \in Gs : span[g] # NoSpan =>
    /\ g < w
    /\ span[g].hi = Hi(Start(g)) /\ span[g].hi > 0
    /\ Start(g) <= span[g].i /\ span[g].i <= span[g].hi

(* What is written: nothing beyond the chunks of the loop so far; of a chunk all
   elements, or those before the goroutine's place while it runs. *)
Ahead(g, q) == span[g] # NoSpan /\ q >= span[g].i
WrittenInv ==
  /\ \A q \in 0 .. MaxQueries - 1 : q >= Start(w) \/ q >= n => written[q] = 0
  /\ \A g \in Gs : g < w =>
       \A q \in 0 .. n - 1 : Start(g) <= q /\ q < Start(g) + Chunk =>
         written[q] = IF Ahead(g, q) THEN 0 ELSE 1

CInv ==
  /\ ChunksTypeInv /\ SpanInv /\ WrittenInv
  /\ wg = Cardinality(Running)
  /\ caller # "spawn" => Start(w) >= n
  /\ caller = "returned" => wg = 0

-----------------------------------------------------------------------------
LEMMA DivMod ==
  ASSUME NEW L \in Nat, L > 0, NEW x \in Nat
  PROVE  /\ x \div L \in Nat /\ x % L \in Nat /\ x % L < L
         /\ x = L * (x \div L) + (x % L)
  OBVIOUS

LEMMA Products ==
  ASSUME NEW C \in Nat, NEW g \in Nat, NEW h \in Nat
  PROVE  /\ g * C \in Nat /\ (g + 1) * C = g * C + C
         /\ g < h => g * C + C <= h * C
  <1>1. g * C \in Nat /\ (g + 1) * C = g * C + C
    BY Z3
  <1>2. ASSUME g < h PROVE g * C + C <= h * C
    <2>1. PICK d \in Nat : h = (g + 1) + d
      <3>1. h - (g + 1) \in Nat /\ h = (g + 1) + (h - (g + 1))
        BY <1>2
      <3> QED
        BY <3>1
    <2>2. h * C = (g + 1) * C + d * C /\ d * C \in Nat
      BY <2>1, Z3
    <2> QED
      BY <1>1, <2>2
  <1> QED
    BY <1>1, <1>2

(* The chunks follow one another, cover the queries, and there are enough of them. *)
LEMMA ChunkFacts ==
  ASSUME ChunksTypeInv
  PROVE  /\ n \in Nat /\ Chunk \in Nat /\ workers \in Nat /\ MaxCPU \in Nat /\ MaxQueries \in Nat
         /\ \A g \in Nat : Start(g) \in Nat /\ Start(g + 1) = Start(g) + Chunk
         /\ \A g, h \in Nat : g < h => Start(g) + Chunk <= Start(h)
         /\ Start(workers) >= n
         /\ n > 0 => Chunk > 0
         /\ \A q \in 0 .. n - 1 : \E g \in Nat : Start(g) <= q /\ q < Start(g) + Chunk
  <1>1. n \in Nat /\ workers \in Nat /\ workers > 0 /\ MaxCPU \in Nat /\ MaxQueries \in Nat
    BY BoundsAssumption DEF ChunksTypeInv
  <1>2. PICK x \in Nat : x = n + workers - 1
    BY <1>1
  <1>3. Chunk = x \div workers
    BY <1>2 DEF Chunk
  <1>4. /\ Chunk \in Nat /\ x % workers \in Nat /\ x % workers < workers
        /\ x = workers * Chunk + (x % workers)
    BY <1>1, <1>3, DivMod
  <1> HIDE DEF Chunk
  <1>5. Start(workers) >= n
    BY <1>1, <1>2, <1>4 DEF Start
  <1>6. n > 0 => Chunk > 0
    <2>1. Chunk = 0 => Start(workers) = 0
      BY <1>1, Z3 DEF Start
    <2> QED
      BY <1>1, <1>4, <1>5, <2>1
  <1>7. \A g \in Nat : Start(g) \in Nat /\ Start(g + 1) = Start(g) + Chunk
    BY <1>4, Products DEF Start
  <1>8. \A g, h \in Nat : g < h => Start(g) + Chunk <= Start(h)
    BY <1>4, Products DEF Start
  <1>9. ASSUME NEW q \in 0 .. n - 1
        PROVE  \E g \in Nat : Start(g) <= q /\ q < Start(g) + Chunk
    <2>1. Chunk > 0 /\ q \in Nat
      BY <1>1, <1>6
    <2>2. PICK g, r \in Nat : r < Chunk /\ q = Chunk * g + r
      <3>1. /\ q \div Chunk \in Nat /\ q % Chunk \in Nat /\ q % Chunk < Chunk
            /\ q = Chunk * (q \div Chunk) + (q % Chunk)
        BY <1>4, <2>1, DivMod
      <3> QED
        BY <3>1
    <2>3. Chunk * g = g * Chunk /\ g * Chunk \in Nat
      BY <1>4, Z3
    <2> QED
      BY <1>4, <2>2, <2>3 DEF Start
  <1> QED
    BY <1>1, <1>4, <1>5, <1>6, <1>7, <1>8, <1>9


LEMMA HiFacts ==
  ASSUME ChunksTypeInv, NEW lo \in Nat
  PROVE  /\ Hi(lo) \in Nat /\ Hi(lo) <= n /\ Hi(lo) <= lo + Chunk
         /\ \A q \in 0 .. n - 1 : lo <= q /\ q < lo + Chunk => q < Hi(lo)
  <1>1. n \in Nat /\ Chunk \in Nat
    BY ChunkFacts
  <1> HIDE DEF Chunk
  <1> QED
    BY <1>1 DEF Hi

(* An element of one chunk is not in another. *)
LEMMA ChunksApart ==
  ASSUME ChunksTypeInv, NEW g \in Nat, NEW h \in Nat, NEW q \in Int,
         Start(g) <= q, q < Start(g) + Chunk, Start(h) <= q, q < Start(h) + Chunk
  PROVE  g = h
  <1>1. Start(g) \in Nat /\ Start(h) \in Nat /\ Chunk \in Nat
    BY ChunkFacts
  <1>2. (g < h => Start(g) + Chunk <= Start(h)) /\ (h < g => Start(h) + Chunk <= Start(g))
    BY ChunkFacts
  <1> HIDE DEF Start, Chunk
  <1> QED
    BY <1>1, <1>2

LEMMA RunningFinite ==
  ASSUME ChunksTypeInv PROVE IsFiniteSet(Gs) /\ IsFiniteSet(Running)
  <1>1. IsFiniteSet(Gs)
    BY BoundsAssumption, FS_Interval DEF Gs
  <1> QED
    BY <1>1, FS_Subset DEF Running

LEMMA ChunksInitInv == ASSUME ChunksInit PROVE CInv
  <1>1. span \in [Gs -> [i : Nat, hi : Nat]] /\ \A g \in Gs : span[g] = NoSpan
    BY DEF ChunksInit, NoSpan, Gs
  <1>2. ChunksTypeInv
    BY <1>1, BoundsAssumption DEF ChunksInit, ChunksTypeInv
  <1>3. Running = {} /\ Cardinality({}) = 0
    BY <1>1, FS_EmptySet DEF Running
  <1>4. SpanInv
    BY <1>1 DEF SpanInv
  <1>5. WrittenInv
    BY <1>2 DEF ChunksInit, WrittenInv, ChunksTypeInv, Gs
  <1> QED
    BY <1>2, <1>3, <1>4, <1>5 DEF CInv, ChunksInit

(* The chunks do not move. *)
LEMMA SameChunks ==
  ASSUME n' = n, workers' = workers
  PROVE  /\ Chunk' = Chunk /\ \A g : Start(g)' = Start(g)
         /\ \A lo : Hi(lo)' = Hi(lo)
  BY DEF Chunk, Start, Hi

LEMMA SpawnStep == ASSUME CInv, Spawn PROVE CInv'
  <1>1. /\ caller = "spawn" /\ w < workers /\ w' = w + 1 /\ wg' = wg + 1
        /\ UNCHANGED <<n, workers, caller, written>>
    BY DEF Spawn
  <1>2. /\ w \in Gs /\ w \in Nat /\ Gs \subseteq Nat
        /\ Start(w) \in Nat /\ Start(w + 1) = Start(w) + Chunk /\ Chunk \in Nat
        /\ \A g \in Gs : Start(g) \in Nat
    <2>1. w \in Gs /\ w \in Nat /\ Gs \subseteq Nat
      BY <1>1, BoundsAssumption DEF CInv, ChunksTypeInv, Gs
    <2> QED
      BY <2>1, ChunkFacts DEF CInv
  <1>3. PICK s : s = [i |-> Start(w), hi |-> Hi(Start(w))]
    OBVIOUS
  <1>4. /\ s.i = Start(w) /\ s.hi = Hi(Start(w)) /\ s.i < s.hi /\ s.i \in Nat /\ s.hi \in Nat
        /\ s \in [i : Nat, hi : Nat]
    BY <1>2, <1>3, HiFacts DEF Spawn, CInv, Start
  <1>5. s # NoSpan
    BY <1>4 DEF NoSpan
  <1>6. /\ span' \in [Gs -> [i : Nat, hi : Nat]] /\ span'[w] = s
        /\ \A g \in Gs \ {w} : span'[g] = span[g]
    BY <1>2, <1>3, <1>4 DEF Spawn, Start, CInv, ChunksTypeInv
  <1>7. ChunksTypeInv'
    <2>1. w' \in 0 .. workers /\ wg' \in Nat
      BY <1>1, <1>2, BoundsAssumption DEF CInv, ChunksTypeInv
    <2> QED
      BY <1>1, <1>6, <2>1 DEF CInv, ChunksTypeInv
  <1>8. SpanInv'
    <2>1. ASSUME NEW g \in Gs, span'[g] # NoSpan
          PROVE  /\ g < w + 1
                 /\ span'[g].hi = Hi(Start(g)) /\ span'[g].hi > 0
                 /\ Start(g) <= span'[g].i /\ span'[g].i <= span'[g].hi
      <3>1. CASE g = w
        BY <1>2, <1>4, <1>6, <3>1
      <3>2. CASE g # w
        BY <1>2, <1>6, <2>1, <3>2 DEF CInv, SpanInv
      <3> QED
        BY <3>1, <3>2
    <2> QED
      BY <1>1, <2>1, SameChunks DEF SpanInv
  <1>9. WrittenInv'
    <2>1. ASSUME NEW q \in 0 .. MaxQueries - 1, q >= Start(w + 1) \/ q >= n
          PROVE  written[q] = 0
      BY <1>2, <2>1 DEF CInv, WrittenInv
    <2>2. ASSUME NEW g \in Gs, g < w + 1, NEW q \in 0 .. n - 1,
                 Start(g) <= q, q < Start(g) + Chunk
          PROVE  written[q] = IF Ahead(g, q)' THEN 0 ELSE 1
      <3>1. CASE g = w
        <4>1. written[q] = 0
          BY <1>2, <2>2, <3>1, BoundsAssumption DEF CInv, WrittenInv, ChunksTypeInv
        <4>2. Ahead(g, q)'
          BY <1>4, <1>5, <1>6, <2>2, <3>1 DEF Ahead, NoSpan
        <4> QED
          BY <4>1, <4>2
      <3>2. CASE g # w
        <4>1. Ahead(g, q)' <=> Ahead(g, q)
          BY <1>6, <3>2 DEF Ahead, NoSpan
        <4>2. g < w
          BY <1>2, <2>2, <3>2
        <4> QED
          BY <2>2, <4>1, <4>2 DEF CInv, WrittenInv
      <3> QED
        BY <3>1, <3>2
    <2> QED
      BY <1>1, <2>1, <2>2, SameChunks DEF WrittenInv
  <1>10. wg' = Cardinality(Running)'
    <2>1. span[w] = NoSpan
      BY <1>2 DEF CInv, SpanInv
    <2>2. Running' = Running \cup {w} /\ w \notin Running
      BY <1>2, <1>5, <1>6, <2>1 DEF Running, NoSpan
    <2> QED
      BY <1>1, <2>2, RunningFinite, FS_AddElement DEF CInv
  <1> QED
    BY <1>1, <1>7, <1>8, <1>9, <1>10 DEF CInv

(* A step that leaves the goroutines and the slice alone. *)
LEMMA CallerStep ==
  ASSUME CInv, UNCHANGED <<n, workers, w, wg, span, written>>,
         caller' \in {"spawn", "wait", "returned"},
         caller' # "spawn" => Start(w) >= n, caller' = "returned" => wg = 0
  PROVE  CInv'
  <1>1. ChunksTypeInv'
    BY DEF CInv, ChunksTypeInv
  <1>2. SpanInv'
    BY SameChunks DEF CInv, SpanInv, NoSpan
  <1>3. WrittenInv'
    <2>1. \A g, q : Ahead(g, q)' <=> Ahead(g, q)
      BY DEF Ahead, NoSpan
    <2> QED
      BY <2>1, SameChunks DEF CInv, WrittenInv
  <1>4. Running' = Running
    BY DEF Running, NoSpan
  <1> QED
    BY <1>1, <1>2, <1>3, <1>4, SameChunks DEF CInv

LEMMA SpawnedStep == ASSUME CInv, Spawned PROVE CInv'
  <1>1. caller' = "wait" /\ UNCHANGED <<n, workers, w, wg, span, written>> /\ LeavesLoop
    BY DEF Spawned
  <1>2. Start(w) >= n
    <2>1. /\ n \in Nat /\ Chunk \in Nat /\ Start(w) \in Nat /\ w \in Nat
          /\ Start(workers) >= n /\ (n > 0 => Chunk > 0)
      <3>1. w \in Nat
        BY BoundsAssumption DEF CInv, ChunksTypeInv
      <3> QED
        BY <3>1, ChunkFacts DEF CInv
    <2>2. CASE w = workers
      BY <2>1, <2>2
    <2>3. CASE Start(w) >= Hi(Start(w))
      BY <2>1, <2>3 DEF Hi
    <2> QED
      BY <1>1, <2>2, <2>3 DEF LeavesLoop, Start
  <1> QED
    BY <1>1, <1>2, CallerStep

LEMMA ReturnStep == ASSUME CInv, Return PROVE CInv'
  <1>1. Start(w) >= n
    BY DEF Return, CInv
  <1> QED
    BY <1>1, CallerStep DEF Return

LEMMA ComputeStep == ASSUME CInv, NEW g \in Gs, Compute(g) PROVE CInv'
  <1>1. /\ span[g].i < span[g].hi /\ UNCHANGED <<n, workers, w, caller, wg>>
        /\ g \in Nat /\ Gs \subseteq Nat
    BY BoundsAssumption DEF Compute, Gs
  <1>2. PICK s : s = [span[g] EXCEPT !.i = @ + 1]
    OBVIOUS
  <1>3. /\ span[g].i \in Nat /\ span[g].hi \in Nat /\ span[g] # NoSpan
    BY <1>1 DEF CInv, ChunksTypeInv, NoSpan
  <1>4. /\ s \in [i : Nat, hi : Nat] /\ s.i = span[g].i + 1 /\ s.hi = span[g].hi
        /\ s # NoSpan
    <2>1. span[g] \in [i : Nat, hi : Nat]
      BY DEF CInv, ChunksTypeInv
    <2>2. s \in [i : Nat, hi : Nat] /\ s.i = span[g].i + 1 /\ s.hi = span[g].hi
      BY <1>2, <1>3, <2>1
    <2> QED
      BY <1>3, <2>2 DEF NoSpan
  <1>5. /\ span' \in [Gs -> [i : Nat, hi : Nat]] /\ span'[g] = s
        /\ \A h \in Gs \ {g} : span'[h] = span[h]
    BY <1>2, <1>4 DEF Compute, CInv, ChunksTypeInv
  <1>6. /\ g < w /\ w \in Nat
        /\ span[g].hi = Hi(Start(g)) /\ Start(g) <= span[g].i /\ Start(g) \in Nat
    BY <1>1, <1>3, ChunkFacts DEF CInv, SpanInv, ChunksTypeInv
  <1>7. PICK x : x = span[g].i
    OBVIOUS
  <1>8. /\ x \in 0 .. n - 1 /\ x \in 0 .. MaxQueries - 1
        /\ Start(g) <= x /\ x < Start(g) + Chunk /\ n \in Nat /\ n <= MaxQueries
        /\ Chunk \in Nat /\ MaxQueries \in Nat
    <2>1. Hi(Start(g)) <= n /\ Hi(Start(g)) <= Start(g) + Chunk /\ Chunk \in Nat
      BY <1>6, HiFacts, ChunkFacts DEF CInv
    <2> QED
      BY <1>1, <1>3, <1>6, <1>7, <2>1, BoundsAssumption DEF CInv, ChunksTypeInv
  <1>9. written[x] = 0
    <2>1. Ahead(g, x)
      BY <1>3, <1>7, <1>8 DEF Ahead
    <2> QED
      BY <1>6, <1>8, <2>1 DEF CInv, WrittenInv
  <1>10. /\ written' \in [0 .. MaxQueries - 1 -> Nat] /\ written'[x] = 1
         /\ \A q \in (0 .. MaxQueries - 1) \ {x} : written'[q] = written[q]
    BY <1>7, <1>8, <1>9 DEF Compute, CInv, ChunksTypeInv
  <1>11. ChunksTypeInv'
    BY <1>1, <1>5, <1>10 DEF CInv, ChunksTypeInv
  <1>12. SpanInv'
    <2>1. ASSUME NEW h \in Gs, span'[h] # NoSpan
          PROVE  /\ h < w
                 /\ span'[h].hi = Hi(Start(h)) /\ span'[h].hi > 0
                 /\ Start(h) <= span'[h].i /\ span'[h].i <= span'[h].hi
      <3>1. CASE h = g
        BY <1>1, <1>3, <1>4, <1>5, <1>6, <3>1 DEF CInv, SpanInv
      <3>2. CASE h # g
        BY <1>5, <2>1, <3>2 DEF CInv, SpanInv
      <3> QED
        BY <3>1, <3>2
    <2> QED
      BY <1>1, <2>1, SameChunks DEF SpanInv, NoSpan
  <1>13. WrittenInv'
    <2>1. ASSUME NEW q \in 0 .. MaxQueries - 1, q >= Start(w) \/ q >= n
          PROVE  written'[q] = 0
      <3>1. Start(g) + Chunk <= Start(w) /\ Start(w) \in Nat
        BY <1>1, <1>6, ChunkFacts DEF CInv
      <3>2. q # x
        BY <1>6, <1>8, <2>1, <3>1
      <3> QED
        BY <1>10, <2>1, <3>2 DEF CInv, WrittenInv
    <2>2. ASSUME NEW h \in Gs, h < w, NEW q \in 0 .. n - 1,
                 Start(h) <= q, q < Start(h) + Chunk
          PROVE  written'[q] = IF Ahead(h, q)' THEN 0 ELSE 1
      <3>1. q \in 0 .. MaxQueries - 1
        BY <1>8
      <3>2. written[q] = IF Ahead(h, q) THEN 0 ELSE 1
        BY <2>2 DEF CInv, WrittenInv
      <3>3. CASE h # g
        <4>1. q # x
          BY <1>1, <1>8, <2>2, <3>3, ChunksApart DEF CInv
        <4>2. Ahead(h, q)' <=> Ahead(h, q)
          BY <1>5, <3>3 DEF Ahead, NoSpan
        <4> QED
          BY <1>10, <3>1, <3>2, <4>1, <4>2
      <3>4. CASE h = g
        <4>1. (Ahead(h, q)' <=> q >= x + 1) /\ (Ahead(h, q) <=> q >= x)
          BY <1>3, <1>4, <1>5, <1>7, <3>4 DEF Ahead, NoSpan
        <4> QED
          BY <1>8, <1>10, <3>1, <3>2, <4>1
      <3> QED
        BY <3>3, <3>4
    <2> QED
      BY <1>1, <2>1, <2>2, SameChunks DEF WrittenInv
  <1>14. Running' = Running
    BY <1>3, <1>4, <1>5 DEF Running, NoSpan
  <1> QED
    BY <1>1, <1>11, <1>12, <1>13, <1>14, SameChunks DEF CInv

LEMMA DoneStep == ASSUME CInv, NEW g \in Gs, Done(g) PROVE CInv'
  <1>1. /\ span[g].hi > 0 /\ span[g].i = span[g].hi /\ wg' = wg - 1
        /\ UNCHANGED <<n, workers, w, caller, written>>
        /\ g \in Nat /\ Gs \subseteq Nat
    BY BoundsAssumption DEF Done, Gs
  <1>2. /\ span' \in [Gs -> [i : Nat, hi : Nat]] /\ span'[g] = NoSpan
        /\ \A h \in Gs \ {g} : span'[h] = span[h]
    BY DEF Done, CInv, ChunksTypeInv, NoSpan
  <1>3. span[g] # NoSpan /\ span[g].hi = Hi(Start(g)) /\ span[g].i \in Nat
    BY <1>1 DEF CInv, SpanInv, ChunksTypeInv, NoSpan
  <1>4. SpanInv'
    <2>1. ASSUME NEW h \in Gs, span'[h] # NoSpan
          PROVE  h # g /\ span'[h] = span[h]
      BY <1>2, <2>1
    <2> QED
      BY <1>1, <2>1, SameChunks DEF CInv, SpanInv, NoSpan
  <1>5. WrittenInv'
    <2>1. ASSUME NEW h \in Gs, h < w, NEW q \in 0 .. n - 1,
                 Start(h) <= q, q < Start(h) + Chunk
          PROVE  Ahead(h, q)' <=> Ahead(h, q)
      <3>1. CASE h # g
        BY <1>2, <3>1 DEF Ahead, NoSpan
      <3>2. CASE h = g
        <4>1. Start(g) \in Nat
          BY <1>1, ChunkFacts DEF CInv
        <4>2. q < Hi(Start(g)) /\ Hi(Start(g)) \in Nat
          BY <2>1, <3>2, <4>1, HiFacts DEF CInv
        <4> QED
          BY <1>1, <1>2, <1>3, <3>2, <4>2 DEF Ahead, NoSpan
      <3> QED
        BY <3>1, <3>2
    <2> QED
      BY <1>1, <2>1, SameChunks DEF CInv, WrittenInv
  <1>6. g \in Running /\ Running' = Running \ {g}
    BY <1>2, <1>3 DEF Running, NoSpan
  <1>7. wg' = Cardinality(Running)' /\ wg' \in Nat
    <2>1. IsFiniteSet(Running) /\ IsFiniteSet(Running \ {g})
      BY RunningFinite, FS_RemoveElement DEF CInv
    <2>2. Cardinality(Running \ {g}) = Cardinality(Running) - 1
      BY <1>6, <2>1, FS_RemoveElement
    <2>3. Cardinality(Running \ {g}) \in Nat
      BY <2>1, FS_CardinalityType
    <2> QED
      BY <1>1, <1>6, <2>2, <2>3 DEF CInv
  <1>8. ChunksTypeInv'
    BY <1>1, <1>2, <1>7 DEF CInv, ChunksTypeInv
  <1>9. caller # "returned"
    <2>1. Cardinality(Running) # 0
      BY <1>6, RunningFinite, FS_EmptySet DEF CInv
    <2> QED
      BY <2>1 DEF CInv
  <1> QED
    BY <1>1, <1>4, <1>5, <1>7, <1>8, <1>9, SameChunks DEF CInv

LEMMA ChunksInvariance == ChunksSpec => []CInv
  <1>1. ASSUME CInv, [ChunksNext]_chunkVars PROVE CInv'
    <2>1. CASE Caller
      BY <1>1, <2>1, SpawnStep, SpawnedStep, ReturnStep DEF Caller
    <2>2. ASSUME NEW g \in DOMAIN span, Goroutine(g) PROVE CInv'
      <3>1. g \in Gs
        BY <1>1 DEF CInv, ChunksTypeInv
      <3> QED
        BY <1>1, <2>2, <3>1, ComputeStep, DoneStep DEF Goroutine
    <2>3. CASE UNCHANGED chunkVars
      <3>1. UNCHANGED <<n, workers, w, caller, wg, span, written>>
        BY <2>3 DEF chunkVars
      <3> QED
        BY <1>1, <3>1, CallerStep DEF CInv, ChunksTypeInv
    <2> QED
      BY <1>1, <2>1, <2>2, <2>3 DEF ChunksNext
  <1> QED
    BY ChunksInitInv, <1>1, PTL DEF ChunksSpec

(* The goroutines need no lock: no element is written twice, none beyond the
   queries of the call, and when FraudCounts returns each has been written by a
   goroutine that has ended, for every number of queries and processors. *)
THEOREM EachWrittenOnce == ChunksSpec => []WrittenOnce
  <1>1. ASSUME CInv PROVE WrittenOnce
    <2>0. /\ n \in Nat /\ n <= MaxQueries /\ MaxQueries \in Nat
          /\ w \in Nat /\ Start(w) \in Nat
      <3>1. w \in Nat /\ n <= MaxQueries
        BY <1>1, BoundsAssumption DEF CInv, ChunksTypeInv
      <3> QED
        BY <1>1, <3>1, ChunkFacts DEF CInv
    <2>1. ASSUME NEW q \in 0 .. n - 1, q < Start(w)
          PROVE  \E g \in Gs : g < w /\ Start(g) <= q /\ q < Start(g) + Chunk
      <3>1. PICK g \in Nat : Start(g) <= q /\ q < Start(g) + Chunk
        BY <1>1, ChunkFacts DEF CInv
      <3>2. g < w
        <4>1. w \in Nat /\ Chunk \in Nat /\ Start(w) \in Nat /\ Start(g) \in Nat /\ n \in Nat
          BY <1>1, <2>0, ChunkFacts DEF CInv
        <4>2. w < g => Start(w) + Chunk <= Start(g)
          BY <1>1, <4>1, ChunkFacts DEF CInv
        <4> QED
          BY <2>1, <3>1, <4>1, <4>2
      <3>3. g \in Gs
        BY <1>1, <3>2, BoundsAssumption DEF CInv, ChunksTypeInv, Gs
      <3> QED
        BY <3>1, <3>2, <3>3
    <2>3. ASSUME NEW q \in DOMAIN written
          PROVE  written[q] <= IF q < n THEN 1 ELSE 0
      <3>1. q \in 0 .. MaxQueries - 1
        BY <1>1 DEF CInv, ChunksTypeInv
      <3>2. CASE q >= n \/ q >= Start(w)
        BY <1>1, <2>0, <3>1, <3>2 DEF CInv, WrittenInv
      <3>3. CASE q < n /\ q < Start(w)
        <4>1. q \in 0 .. n - 1
          BY <2>0, <3>1, <3>3
        <4>2. written[q] \in {0, 1}
          BY <1>1, <2>1, <3>3, <4>1 DEF CInv, WrittenInv
        <4> QED
          BY <3>3, <4>2
      <3> QED
        BY <2>0, <3>1, <3>2, <3>3
    <2>4. ASSUME caller = "returned"
          PROVE  /\ \A q \in 0 .. n - 1 : written[q] = 1
                 /\ \A g \in DOMAIN span : span[g] = NoSpan
      <3>1. Running = {}
        BY <1>1, <2>4, RunningFinite, FS_EmptySet DEF CInv
      <3>2. \A g \in Gs : span[g] = NoSpan
        BY <3>1 DEF Running
      <3>3. ASSUME NEW q \in 0 .. n - 1 PROVE written[q] = 1
        <4>1. PICK g \in Gs : g < w /\ Start(g) <= q /\ q < Start(g) + Chunk
          BY <1>1, <2>1, <2>0, <2>4 DEF CInv
        <4> QED
          BY <1>1, <3>2, <4>1 DEF CInv, WrittenInv, Ahead
      <3> QED
        BY <1>1, <3>2, <3>3 DEF CInv, ChunksTypeInv
    <2> QED
      BY <2>3, <2>4 DEF WrittenOnce
  <1> QED
    BY <1>1, ChunksInvariance, PTL
=============================================================================
