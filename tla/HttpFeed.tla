------------------------------ MODULE HttpFeed ------------------------------
(***************************************************************************)
(* The parser fed a byte stream in arbitrary segments, as the read handler *)
(* of a connection feeds it: append what arrived, call Parse, stop when a  *)
(* request is complete or std::stoull has thrown.                          *)
(***************************************************************************)
EXTENDS HttpRequest, SequencesExt

CONSTANTS Streams   \* what a peer may send in all

ASSUME StreamsAssumption == Streams \subseteq Seq(Tokens)

VARIABLES stream,   \* what the peer sends in all
          fed,      \* how many units of it have arrived
          req,      \* the HttpRequest object
          buf,      \* the readable part of the read buffer
          ret       \* what the last Parse returned

vars == <<stream, fed, req, buf, ret>>

Init ==
    /\ stream \in Streams
    /\ fed = 0
    /\ req = Fresh
    /\ buf = <<>>
    /\ ret = "false"

Feed(n) ==
    /\ ret = "false"
    /\ LET p == Parse(req, buf \o SubSeq(stream, fed + 1, fed + n))
       IN  req' = p.req /\ buf' = p.buf /\ ret' = p.ret
    /\ fed' = fed + n
    /\ UNCHANGED stream

Next == \E n \in 1 .. Len(stream) - fed : Feed(n)

Spec == Init /\ [][Next]_vars

-----------------------------------------------------------------------------
(* The grammar the parser is for, written without a parser: where the head *)
(* of a request ends, what its lines are, and how long its body is.        *)
Arrived == SubSeq(stream, 1, fed)

Ends(w) == {i \in 1 .. Len(w) - 1 : w[i] = CR /\ w[i + 1] = LF}

\* The lines of w: from the start, or after a CRLF, to the next CRLF.
LineStarts(w) == {1} \cup {i + 2 : i \in Ends(w)}
LineAt(w, i) == SubSeq(w, i, Min({e \in Ends(w) : e >= i}) - 1)
CompleteStarts(w) == {i \in LineStarts(w) : \E e \in Ends(w) : e >= i}

\* The head of a request ends with the blank line that starts at b.
HeadEnds(w, b) ==
    /\ b > 1 /\ b \in CompleteStarts(w) /\ LineAt(w, b) = <<>>
    /\ IsRequestLine(LineAt(w, 1))
    /\ \A i \in LineStarts(w) : (1 < i /\ i < b) => IsHeader(LineAt(w, i))

\* The value of the last Content-Length before b.
Declared(w, b) ==
    LET at == {i \in LineStarts(w) : 1 < i /\ i < b /\ w[i].t = "length"}
    IN  IF at = {} THEN Absent ELSE w[Max(at)].value

BodyLen(w, b) == IF Declared(w, b) = Absent THEN 0 ELSE Declared(w, b)

\* The first k units of w are exactly one request with blank line at b.
IsRequest(w, b, k) ==
    /\ HeadEnds(w, b)
    /\ Declared(w, b) # NotANumber
    /\ k = b + 1 + BodyLen(w, b)

-----------------------------------------------------------------------------
(* The variables have their types; a finished parse is in state FINISH.    *)
TypeOK ==
    /\ stream \in Seq(Tokens)
    /\ fed \in 0 .. Len(stream)
    /\ req \in Requests
    /\ buf \in Seq(Tokens)
    /\ ret \in {"false", "true", "throw"}
    /\ (ret = "true") = (req.state = "FINISH")

(* docs/3_http_handling.md says that the parser handles data arriving in   *)
(* pieces: whatever the segments, the state after each Parse is the one    *)
(* that a single Parse of everything arrived so far leaves.  (A finished   *)
(* parse leaves what follows the request in the buffer in both cases.)     *)
FragmentationIrrelevant ==
    fed > 0 => LET once == Parse(Fresh, Arrived)
               IN  /\ ret = once.ret
                   /\ req = once.req
                   /\ buf = once.buf

\* A request line put together from two texts has the path of neither.
PathOf(text) == IF text.t = "req" THEN text.path ELSE "glued"

(* Parse reports a request exactly when the stream starts with one by the  *)
(* grammar; it then holds that request's method, path and body and has     *)
(* taken exactly its bytes from the buffer, so that the next request       *)
(* starts where this one ended.                                            *)
ParsesTheGrammar ==
    /\ (ret = "true") <=> (\E b, k \in 1 .. fed : IsRequest(Arrived, b, k))
    /\ \A b, k \in 1 .. fed : IsRequest(Arrived, b, k) =>
         /\ req.method = stream[1].method /\ req.path = PathOf(stream[1])
         /\ req.body = SubSeq(stream, b + 2, k)
         /\ buf = SubSeq(stream, k + 1, fed)
=============================================================================
