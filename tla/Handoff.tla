------------------------------ MODULE Handoff -------------------------------
(***************************************************************************)
(* What the load balancer and its workers promise a client: a connection   *)
(* waits, is given to one worker, once and for good, and is served by it;  *)
(* or it is closed, which happens to all connections of a worker that      *)
(* dies. How the worker is chosen and the descriptor travels is the        *)
(* subject of module LoadBalancer.                                         *)
(*                                                                         *)
(* place[c] is the set of places connection c is in, so that one in two    *)
(* places is a violation; before it is opened it is nowhere.               *)
(***************************************************************************)
CONSTANTS Clients, Workers, NoOne

VARIABLE place

At(status, w) == {<<status, w>>}
Waiting == At("waiting", NoOne)
Closed  == At("closed", NoOne)
Of(w)   == {At("given", w), At("served", w)}

Move(c, from, to) == place[c] = from /\ place' = [place EXCEPT ![c] = to]

Connect(c)  == Move(c, {}, Waiting)
Give(c, w)  == Move(c, Waiting, At("given", w))
Serve(c, w) == Move(c, At("given", w), At("served", w))
Refuse(c)   == Move(c, Waiting, Closed)
Die(w) == place' = [c \in Clients |-> IF place[c] \in Of(w) THEN Closed ELSE place[c]]

Init == place = [c \in Clients |-> {}]
Next ==
  \/ \E c \in Clients : Connect(c) \/ Refuse(c) \/ \E w \in Workers : Give(c, w) \/ Serve(c, w)
  \/ \E w \in Workers : Die(w)

Safety == Init /\ [][Next]_place
Spec ==
  /\ Safety
  /\ \A c \in Clients :
       (place[c] = Waiting) ~> (place[c] = Closed \/ \E w \in Workers : place[c] = At("served", w))
=============================================================================
