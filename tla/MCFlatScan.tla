----------------------------- MODULE MCFlatScan -----------------------------
(***************************************************************************)
(* FlatScan on every table of up to MaxRefs references of four vectors:    *)
(* two equally far from the first query, two in other partitions, one of   *)
(* them as far from the queries in components 5 and 6 as can be.           *)
(***************************************************************************)
EXTENDS FlatScan

CONSTANT MaxRefs  (* references in a table *)

V(x, online, last) ==
  [d \in Dims |->
     CASE d = 0 -> x
       [] d = 9 -> IF online THEN QScale ELSE 0
       [] d \in {5, 6} -> last
       [] OTHER -> 0]

Pool == << V(1, FALSE, sentinel), V(3, FALSE, sentinel),
           V(2, TRUE, sentinel),  V(4, TRUE, QScale) >>

MCTables ==
  {[n |-> n,
    vec |-> [g \in 0..(n - 1) |-> Pool[s[g + 1]]],
    fraud |-> [g \in 0..(n - 1) |-> g % 2 = 0]] : <<n, s>> \in
   UNION {{m} \X [1..m -> 1..4] : m \in 0..MaxRefs}}
MCQueries == {V(2, FALSE, sentinel), V(4, FALSE, sentinel), V(2, TRUE, sentinel)}
=============================================================================
