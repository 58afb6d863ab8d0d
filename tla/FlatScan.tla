------------------------------ MODULE FlatScan ------------------------------
(***************************************************************************)
(* The scans without a tree. FraudCount5 and Neighbors5 of brute.go go     *)
(* through the whole table; Index.FraudCount5 of partition.go only through *)
(* the bucket of the query's own partition, after BuildIndex has filled    *)
(* the buckets. A step is one reference put in its bucket, one row         *)
(* scanned, or the count at the end. Neighbors5 returns the numbers in the *)
(* slots instead of the count: it looks at no labels, and does not panic   *)
(* when one is empty.                                                      *)
(***************************************************************************)
EXTENDS KDIndex, Sequences

CONSTANTS
  K,        (* the number of neighbours, 5 in the code                      *)
  Tables,   (* reference tables: n, vec, fraud                              *)
  Queries,  (* the quantized queries                                        *)
  LaneHalf  (* 2^15: a lane of the other distance kernel holds an int16     *)

ASSUME KAssumption     == K \in Nat \ {0}
ASSUME TableAssumption == \A t \in Tables :
  t.n \in Nat /\ t.n <= NoId /\ \A g \in Ids(t) : Quantized(t.vec[g])
ASSUME QueryAssumption == \A v \in Queries : Quantized(v)
ASSUME LaneAssumption  == LaneHalf \in Nat /\ LaneHalf > 2 * QScale

VARIABLES
  refs, query,   (* the table and the query                                 *)
  all,           (* whether the whole table is scanned, or a bucket         *)
  buckets,       (* the reference numbers in each bucket, in order          *)
  i,             (* the loop variable                                       *)
  best, worst,   (* the candidates, and the position of the worst of them   *)
  pc,            (* "build", "scan", "done" or "panic"                      *)
  count          (* the result, -1 before                                   *)

vars == <<refs, query, all, buckets, i, best, worst, pc, count>>

Slots == 0..(K - 1)

-----------------------------------------------------------------------------
FillHome ==                                           \* bug: all in the query's bucket
  /\ pc = "build" /\ i < refs.n
  /\ buckets' = [buckets EXCEPT ![partKey16(query)] = Append(@, i)]
  /\ i' = i + 1
  /\ UNCHANGED <<refs, query, all, best, worst, pc, count>>

(* BuildIndex: a reference goes to the end of the bucket of its partition. *)
Fill ==
  /\ pc = "build" /\ i < refs.n
  /\ buckets' = [buckets EXCEPT ![partKey16(refs.vec[i])] = Append(@, i)]
  /\ i' = i + 1
  /\ UNCHANGED <<refs, query, all, best, worst, pc, count>>

Built ==
  /\ pc = "build" /\ i = refs.n
  /\ pc' = "scan"
  /\ i' = 0
  /\ UNCHANGED <<refs, query, all, buckets, best, worst, count>>

(* The references a scan goes through. *)
rows == IF all THEN [r \in 1..refs.n |-> r - 1] ELSE buckets[partKey16(query)]

(* The loop over slots 1 .. K - 1 that starts from slot 0. *)
NewWorstOfRest(b) == {w \in Slots \ {0} : \A j \in Slots \ {0} :   \* bug: from slot 1
  ~ Worse(b[j], b[w])}
NewWorst(b) == {w \in Slots : /\ \A j \in Slots : ~ Worse(b[j], b[w])
                              /\ \A j \in Slots : j < w => Worse(b[w], b[j])}

ReplacesFarther(d, g, w) == d > w.dist                \* bug: the comparison turned round
Replaces(d, g, w)        == d < w.dist \/ (d = w.dist /\ g < w.gidx)

Row ==
  /\ pc = "scan" /\ i < Len(rows)
  /\ LET g == rows[i + 1]
         d == sqDist(query, refs.vec[g])
     IN  IF Replaces(d, g, best[worst])
         THEN /\ best' = [best EXCEPT ![worst] = Entry(d, g)]
              /\ worst' \in NewWorst(best')
         ELSE UNCHANGED <<best, worst>>
  /\ i' = i + 1
  /\ UNCHANGED <<refs, query, all, buckets, pc, count>>

(* The labels of the slots; that of a slot still empty is out of range. *)
Count ==
  /\ pc = "scan" /\ i = Len(rows)
  /\ IF \A s \in Slots : best[s].gidx \in Ids(refs)
     THEN /\ pc' = "done"
          /\ count' = Cardinality({s \in Slots : refs.fraud[best[s].gidx]})
     ELSE pc' = "panic" /\ UNCHANGED count
  /\ UNCHANGED <<refs, query, all, buckets, i, best, worst>>

Init ==
  /\ refs \in Tables
  /\ query \in Queries
  /\ all \in BOOLEAN
  /\ buckets = [k \in Keys |-> <<>>]
  /\ i = 0
  /\ best = [s \in Slots |-> Empty]
  /\ worst = 0
  /\ pc = IF all THEN "scan" ELSE "build"
  /\ count = -1

Next == Fill \/ Built \/ Row \/ Count
Spec == Init /\ [][Next]_vars /\ WF_vars(Next)

-----------------------------------------------------------------------------
(* A scan implements the abstract query over the references it goes through: the
   brute force, which the validation commands measure the search with, over all
   of them; the bucket scan over those of the query's own partition, which are
   not always the nearest of the table. *)
Oracle == INSTANCE NearestCount WITH
            among     <- {g \in Ids(refs) : all \/ partKey16(refs.vec[g]) = partKey16(query)},
            neighbors <- IF pc = "done" THEN {best[s].gidx : s \in Slots} ELSE {}
CountsNearest == Oracle!Safety

(* The two builds agree: the distance kernel with int16 differences and int32 sums
   of pairs computes what the scalar one does, up to the largest difference of
   quantized vectors. *)
KernelsAgree ==
  \A g \in Ids(refs) : sqDistSimd(LaneHalf, query, refs.vec[g]) = sqDist(query, refs.vec[g])

(* A scan of K references or more ends with an answer; one of fewer panics. *)
Answers == <>(IF Len(rows) >= K THEN pc = "done" ELSE pc = "panic")
=============================================================================
