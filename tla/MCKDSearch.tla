----------------------------- MODULE MCKDSearch -----------------------------
(***************************************************************************)
(* KDSearch on the indexes of many small tables, drawn from three pools of *)
(* vectors: ties within and between partitions, duplicates, empty          *)
(* partitions and trees of several levels all occur.                       *)
(***************************************************************************)
EXTENDS KDSearch, KDBuild

CONSTANTS
  mixed, tie  (* references in a table of MixedPool, of TiePool *)

(* Components 0 and 1 in 0..QScale; last: "no", or 5 and 6 are both 0. *)
V(x, y, online, last) ==
  [d \in Dims |->
     CASE d = 0 -> x
       [] d = 1 -> y
       [] d = 9 -> IF online THEN QScale ELSE 0
       [] d \in {5, 6} -> IF last = "no" THEN sentinel ELSE 0
       [] OTHER -> 0]

(* Three vectors in one partition and one in another; the first query is as far
   from two of them as the two partitions are apart. *)
MixedPool    == << V(0, 0, FALSE, "no"), V(4, 2, FALSE, "no"),
                   V(0, 2, TRUE, "no"),  V(2, 4, FALSE, "no") >>
MixedQueries == {V(0, 2, FALSE, "no"), V(2, 2, TRUE, "no"), V(4, 4, FALSE, "no")}

(* One partition, split in both components: a split plane may be farther than
   the best candidate while the box it cuts is not. *)
PlanePool    == << V(2, 2, FALSE, "no"), V(4, 3, FALSE, "no"),
                   V(0, 4, FALSE, "no"), V(1, 0, FALSE, "no") >>
PlaneQueries == {V(2, 0, FALSE, "no"), V(3, 1, FALSE, "no")}

(* Both as far from the first query as their partitions are apart. *)
TiePool      == << V(4, 4, FALSE, "no"), V(0, 0, FALSE, "now") >>
TieQueries   == {V(0, 0, FALSE, "no"), V(2, 2, TRUE, "no"), V(4, 4, FALSE, "no")}

(* The table of the members of a pool that s numbers. *)
Table(pool, s) ==
  [n |-> Len(s),
   vec |-> [g \in 0..(Len(s) - 1) |-> pool[s[g + 1]]],
   fraud |-> [g \in 0..(Len(s) - 1) |-> g % 2 = 0]]

MCIndexes == {BuildKD(Table(MixedPool, s)) : s \in [1..mixed -> 1..4]}
               \cup {BuildKD(Table(PlanePool, s)) : s \in Permutations(1..4)}
               \cup {BuildKD(Table(TiePool, s)) : s \in [1..tie -> 1..2]}
MCQueries == MixedQueries \cup PlaneQueries \cup TieQueries
=============================================================================
