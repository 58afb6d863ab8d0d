---------------------------- MODULE MCIndexFile -----------------------------
(***************************************************************************)
(* IndexFile with a few tables of different sizes, partitions and labels.  *)
(***************************************************************************)
EXTENDS IndexFile

CONSTANT leafSize   (* references in a leaf of the trees *)

V(x, online) ==
  [d \in Dims |->
     CASE d = 0 -> x
       [] d = 9 -> IF online THEN QScale ELSE 0
       [] d \in {5, 6} -> sentinel
       [] OTHER -> 0]

Table(vecs, frauds) ==
  [n     |-> Len(vecs),
   vec   |-> [g \in 0..(Len(vecs) - 1) |-> vecs[g + 1]],
   fraud |-> [g \in 0..(Len(vecs) - 1) |-> g \in frauds]]

MCTables ==
  { Table(<<>>, {}),
    Table(<<V(1, FALSE)>>, {0}),
    Table(<<V(3, FALSE)>>, {}),
    Table(<<V(4, TRUE), V(0, FALSE), V(3, TRUE), V(2, FALSE), V(2, TRUE)>>, {1, 2, 4}) }

Trees        == INSTANCE KDBuild
MCIndexes    == [t \in MCTables |-> Trees!BuildKD(t)]
MCBuiltKD(t) == MCIndexes[t]
=============================================================================
