---------------------------- MODULE MCRefsBuild -----------------------------
(***************************************************************************)
(* RefsBuild on the files of up to MaxRefs records drawn from five: four   *)
(* in one partition, with two components that order them differently and a *)
(* half to round, and one in another.                                      *)
(***************************************************************************)
EXTENDS RefsBuild

Rec(x, y, card, last, label) ==
  [vector |-> [d \in RawDims |->
                 CASE d = 2 -> x
                   [] d = 7 -> y
                   [] d = 10 -> IF card THEN 2 * QScale ELSE 0
                   [] d \in {5, 6} -> IF last THEN 1 ELSE -2 * QScale
                   [] OTHER -> 0],
   label |-> label]

MCRecords ==
  {Rec(0, 5, FALSE, FALSE, "legit"), Rec(3, 0, FALSE, FALSE, "fraud"),
   Rec(3, 4, FALSE, FALSE, "fraud"), Rec(8, 0, FALSE, FALSE, "legit"),
   Rec(8, 8, TRUE, TRUE, "legit")}
=============================================================================
