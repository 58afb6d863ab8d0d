---------------------------- MODULE HttpRequest -----------------------------
(***************************************************************************)
(* How Handler.handle of internal/server/handle.go reads the request at    *)
(* the front of some bytes: where its head ends, how long its body is, and *)
(* what it is answered.                                                    *)
(*                                                                         *)
(* Bytes are made of tokens: a request line, a header, either half of the  *)
(* blank line (crlf2 may be cut by a read) and bytes that mean nothing (x).*)
(* A body may hold any of them. Content lengths are taken to fit an int.   *)
(***************************************************************************)
EXTENDS Integers, Sequences

Token(kind, val) == [kind |-> kind, val |-> val]
cr2    == Token("crlf2 a", 0)      \* the two halves of crlf2
lf2    == Token("crlf2 b", 0)
Posts  == {"POST /fraud-score", "POST /ready", "POST /other"}
Lines  == Posts \cup {"GET /ready", "GET /other"}
length == "content-length"         \* a header; its val is the number
Tokens == [kind : Lines \cup {length, "crlf2 a", "crlf2 b", "x"}, val : Nat]

-----------------------------------------------------------------------------
(* parseReqLine, contentLength *)

(* The request line must come first; otherwise the path is nil. *)
Line(h) == IF h # <<>> /\ h[1].kind \in Lines THEN h[1].kind ELSE "no path"

postOfScore(h) == Line(h) = "POST /fraud-score"      \* bug: not for other paths
post(h)        == Line(h) \in Posts

(* The first Content-Length, wherever it is in the head. *)
contentLength(h) ==
  LET at == {i \in 1..Len(h) : h[i].kind = length}
  IN  IF at = {} THEN 0 ELSE h[CHOOSE i \in at : \A j \in at : i <= j].val

-----------------------------------------------------------------------------
(* The body of handle's loop. *)

(* bytes.Index(s, crlf2): the number of tokens before it, -1 if it is absent. *)
headEnd(s) ==
  LET at == {i \in 0..(Len(s) - 2) : s[i + 1] = cr2 /\ s[i + 2] = lf2}
  IN  IF at = {} THEN -1 ELSE CHOOSE i \in at : \A j \in at : i <= j

head(s)      == SubSeq(s, 1, headEnd(s))
bodyStart(s) == headEnd(s) + 2
bodyLen(s)   == IF post(head(s)) THEN contentLength(head(s)) ELSE 0

total(s)     == bodyStart(s) + bodyLen(s)
Complete(s)  == headEnd(s) >= 0 /\ Len(s) >= total(s)

Response(to, body) == [to |-> to, body |-> body]

(* The response to the request at the front of s, and what it is computed from. *)
Answer(s) ==
  CASE Line(head(s)) = "POST /fraud-score" ->
         Response("score", SubSeq(s, bodyStart(s) + 1, total(s)))
    [] Line(head(s)) \in {"GET /ready", "POST /ready"} -> Response("ready", <<>>)
    [] OTHER -> Response("notfound", <<>>)
=============================================================================
