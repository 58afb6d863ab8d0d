--------------------------- MODULE RequestStream ----------------------------
(***************************************************************************)
(* What a worker promises the client of one connection: what it answers is *)
(* given by what the client sends and not by how the bytes arrive, request *)
(* after request; and a request is answered when its last byte has arrived *)
(* and before more is looked at. How that is done with a buffer and reads  *)
(* that end anywhere is the subject of module HttpFraming.                 *)
(***************************************************************************)
EXTENDS HttpRequest

CONSTANT Streams

VARIABLES
  stream,    (* what the client sends in all                                *)
  arrived,   (* how much of it has arrived                                  *)
  answered,  (* how much of it are requests that are answered               *)
  responses

streamVars == <<stream, arrived, answered, responses>>

Ahead == SubSeq(stream, answered + 1, Len(stream))
Whole == Complete(SubSeq(stream, answered + 1, arrived))

Arrive ==
  /\ ~ Whole
  /\ arrived' \in (arrived + 1)..Len(stream)
  /\ UNCHANGED <<stream, answered, responses>>

Answers ==
  /\ Whole
  /\ responses' = Append(responses, Answer(Ahead))
  /\ answered' = answered + total(Ahead)
  /\ UNCHANGED <<stream, arrived>>

Init == stream \in Streams /\ arrived = 0 /\ answered = 0 /\ responses = <<>>
Next == Arrive \/ Answers
Safety == Init /\ [][Next]_streamVars
Spec   == Safety /\ WF_streamVars(Answers)
=============================================================================
