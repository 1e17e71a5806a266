--------------------------- MODULE MCHttpRequest ---------------------------
(* The streams that TLC feeds to the parser.                               *)
EXTENDS HttpFeed

CONSTANTS MaxTail   \* how many pieces may follow the first text

(* Streams are a first text, or two that make a request line together, and *)
(* then up to MaxTail pieces, a CRLF being a piece like a CR or an LF      *)
(* alone; the parser is fed unit by unit all the same.                     *)
FirstPieces == {<<ReqLine("GET", "/a")>>, <<NoVersion("POST")>>, <<Byte>>,
                <<NoVersion("PUT"), NoVersion("POST")>>}
TailPieces == {<<CR, LF>>, <<CR>>, <<LF>>, <<Byte>>, <<ContentLength(1)>>,
               <<ContentLength(NotANumber)>>, <<Connection("close")>>}
Tails == UNION {[1 .. n -> TailPieces] : n \in 0 .. MaxTail}

MCStreams == {FlattenSeq(<<f>> \o t) : f \in FirstPieces, t \in Tails}
=============================================================================
