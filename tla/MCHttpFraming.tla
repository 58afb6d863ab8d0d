--------------------------- MODULE MCHttpFraming ----------------------------
(***************************************************************************)
(* HttpFraming on pipelined well-formed requests, and on every short       *)
(* stream whether well-formed or not.                                      *)
(***************************************************************************)
EXTENDS HttpFraming, SequencesExt

CONSTANTS
  MaxRequests,  (* requests a client pipelines                              *)
  MaxTokens     (* length of an arbitrary stream                            *)

x == Token("x", 0)        \* a byte that means nothing
CL(n) == Token(length, n)

Req(line, headers, body) ==
  [line |-> Token(line, 0), headers |-> headers, body |-> body]

(* Two bodies look like a request themselves, or like the end of a head. *)
Requests ==
  { Req("POST /fraud-score", <<CL(2), x>>, <<x, x>>),
    Req("POST /fraud-score", <<CL(2)>>, <<cr2, lf2>>),
    Req("POST /fraud-score", <<x, CL(3)>>, Encode(Req("GET /ready", <<>>, <<>>))),
    Req("POST /other", <<CL(1)>>, <<x>>),
    Req("POST /ready", <<CL(1)>>, <<lf2>>),
    Req("GET /ready", <<x>>, <<>>),
    Req("GET /other", <<>>, <<>>) }

Wire(rs) == FlattenSeq([k \in 1..Len(rs) |-> Encode(rs[k])])
MCPipelines ==
  { [requests |-> rs, wire |-> Wire(rs),
     ends |-> [k \in 0..Len(rs) |-> Len(Wire(SubSeq(rs, 1, k)))]] :
    rs \in SeqOf(Requests, MaxRequests) }

AnyTokens == { Token("POST /fraud-score", 0), Token("GET /ready", 0), CL(1), CL(2), cr2, lf2 }
MCAnyStreams == SeqOf(AnyTokens, MaxTokens)
=============================================================================
