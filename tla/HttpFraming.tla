---------------------------- MODULE HttpFraming -----------------------------
(***************************************************************************)
(* Handler.handle of internal/server/handle.go, called by readDrain:       *)
(* cutting the bytes of a connection into requests. A read ends anywhere,  *)
(* so rb may hold part of a request, or several and part of another; each  *)
(* complete one is answered at once and the rest is kept. A step is a      *)
(* read, a round of handle's loop, or the end of handle.                   *)
(***************************************************************************)
EXTENDS HttpRequest

CONSTANTS
  Pipelines,    (* well-formed requests and the bytes they are sent as      *)
  AnyStreams,   (* other bytes                                              *)
  Buf           (* tokens one read returns at most                          *)

ASSUME BufAssumption == Buf \in Nat \ {0}
ASSUME StreamsAssumption == AnyStreams \subseteq Seq(Tokens)

(* A request: its line, its headers and its body. A POST says once how long its
   body is, a GET has none. A body may look like a request. *)
Encode(q) == <<q.line>> \o q.headers \o <<cr2, lf2>> \o q.body
WellFormed(q) ==
  /\ q.line \in Tokens /\ q.line.kind \in Lines
  /\ q.headers \in Seq(Tokens) /\ q.body \in Seq(Tokens)
  /\ \A h \in 1..Len(q.headers) : q.headers[h] \notin {cr2, lf2}
  /\ IF q.line.kind \in Posts
     THEN \E h \in 1..Len(q.headers) :
            /\ q.headers[h] = Token(length, Len(q.body))
            /\ \A g \in 1..Len(q.headers) : q.headers[g].kind = length => g = h
     ELSE q.body = <<>>

(* Request k is what c.wire has between c.ends[k - 1] and c.ends[k]. *)
IsPipeline(c) ==
  LET n == Len(c.requests) IN
  /\ n \in Nat /\ c.wire \in Seq(Tokens)
  /\ c.ends \in [0..n -> 0..Len(c.wire)] /\ c.ends[0] = 0 /\ c.ends[n] = Len(c.wire)
  /\ \A k \in 1..n :
       /\ WellFormed(c.requests[k])
       /\ c.ends[k] = c.ends[k - 1] + Len(Encode(c.requests[k]))
       /\ SubSeq(c.wire, c.ends[k - 1] + 1, c.ends[k]) = Encode(c.requests[k])
ASSUME PipelinesAssumption == \A c \in Pipelines : IsPipeline(c)

Clients == Pipelines \cup {[wire |-> s] : s \in AnyStreams}
Streams == {c.wire : c \in Clients}

VARIABLES
  client,   (* who sends                                                    *)
  pos,      (* tokens read so far                                           *)
  phase,    (* "read", or "handle"                                          *)
  rb,       (* conn.rb: read but not consumed                               *)
  off,      (* off of handle: what of rb is consumed                        *)
  wb        (* the responses appended to conn.wb so far                     *)

framingVars == <<client, pos, phase, rb, off, wb>>

stream    == client.wire    \* what it sends in all
Pipelined == "requests" \in DOMAIN client

-----------------------------------------------------------------------------
FramingInit ==
  client \in Clients /\ pos = 0 /\ phase = "read" /\ rb = <<>> /\ off = 0 /\ wb = <<>>

ReadOnlyNew(n) ==                                    \* bug: the rest is not kept
  /\ phase = "read" /\ n <= Len(stream) - pos
  /\ rb' = SubSeq(stream, pos + 1, pos + n)
  /\ pos' = pos + n
  /\ off' = 0
  /\ phase' = "handle"
  /\ UNCHANGED <<client, wb>>

(* A read of n tokens; handle is called. *)
Read(n) ==
  /\ phase = "read" /\ n <= Len(stream) - pos
  /\ rb' = rb \o SubSeq(stream, pos + 1, pos + n)
  /\ pos' = pos + n
  /\ off' = 0
  /\ phase' = "handle"
  /\ UNCHANGED <<client, wb>>

Rest == SubSeq(rb, off + 1, Len(rb))

Respond ==
  /\ phase = "handle" /\ Complete(Rest)
  /\ wb' = Append(wb, Answer(Rest))
  /\ off' = off + total(Rest)
  /\ UNCHANGED <<client, pos, phase, rb>>

(* The break; the rest moves to the front of rb. *)
Keep ==
  /\ phase = "handle" /\ ~ Complete(Rest)
  /\ rb' = Rest
  /\ off' = 0
  /\ phase' = "read"
  /\ UNCHANGED <<client, pos, wb>>

FramingNext == Respond \/ Keep \/ \E n \in 1..Buf : Read(n)
(* handle runs to its end before the worker does anything else. *)
Safety      == FramingInit /\ [][FramingNext]_framingVars
FramingSpec == Safety /\ WF_framingVars(Respond \/ Keep)

-----------------------------------------------------------------------------
(* What a client expects for a request. *)
Expected(q) ==
  CASE q.line.kind = "POST /fraud-score" -> Response("score", q.body)
    [] q.line.kind \in {"GET /ready", "POST /ready"} -> Response("ready", <<>>)
    [] OTHER -> Response("notfound", <<>>)

(* Pipelined requests are answered in order, each once, each from its own body, and by
   the next read each whose last byte has been read, wherever the reads end and whatever
   the bodies look like (handle's loop, and the rest it keeps). *)
AnswersInOrder ==
  Pipelined =>
    LET n == Len(wb)
    IN  /\ n <= Len(client.requests)
        /\ \A k \in 1..n : wb[k] = Expected(client.requests[k])
        /\ client.ends[n] <= pos
        /\ phase = "read" => /\ rb = SubSeq(stream, client.ends[n] + 1, pos)
                             /\ n < Len(client.requests) => pos < client.ends[n + 1]

(* Whatever the bytes, well-formed or not, how they are cut into reads makes no
   difference: handle implements RequestStream, where a response is computed from
   the whole stream, and before more is read all that is complete is answered. *)
Promise == INSTANCE RequestStream
             WITH arrived <- pos, answered <- pos - Len(rb) + off, responses <- wb
AnswersTheStream == Promise!Spec
=============================================================================
