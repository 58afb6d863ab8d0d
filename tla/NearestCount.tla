---------------------------- MODULE NearestCount ----------------------------
(***************************************************************************)
(* What the search and the scans of internal/index promise: a query is     *)
(* answered in one step, with its K nearest references, the smaller number *)
(* first among equally distant ones, and with how many of them are frauds. *)
(*                                                                         *)
(*   refs       the table: vec and fraud of each reference number          *)
(*   among      the references the answer is about                         *)
(*   query      the query                                                  *)
(*   neighbors  the K nearest, {} before the answer                        *)
(*   count      the frauds among them, -1 before the answer                *)
(***************************************************************************)
EXTENDS KDIndex

CONSTANT K

VARIABLES refs, among, query, neighbors, count

vars == <<refs, among, query, neighbors, count>>

Candidate(g) == Entry(sqDist(query, refs.vec[g]), g)

(* Fewer than K references are better. *)
Nearest ==
  {g \in among : Cardinality({h \in among : Worse(Candidate(g), Candidate(h))}) < K}

Init == neighbors = {} /\ count = -1

Answer ==
  /\ count = -1
  /\ neighbors' = Nearest
  /\ count' = Cardinality({g \in Nearest : refs.fraud[g]})
  /\ UNCHANGED <<refs, among, query>>

Safety == Init /\ [][Answer]_vars
Spec   == Safety /\ <>(count # -1)
=============================================================================
