---------------------------- MODULE HttpRequest ----------------------------
(***************************************************************************)
(* The incremental HTTP request parser, class HttpRequest.                 *)
(*                                                                         *)
(* A byte stream is a sequence of tokens.  CR and LF are tokens of their   *)
(* own, since FindCRLF looks for the pair and a TCP segment may end        *)
(* between the two.  A stretch of text that Parse looks at only as a whole *)
(* is one token (a request line, a header, a body byte), and every token   *)
(* counts as one unit of length for Content-Length.  Splitting a segment   *)
(* inside a text token is the same as splitting it before the token: Parse *)
(* reads no line before its CRLF has arrived.                              *)
(***************************************************************************)
EXTENDS Integers, Sequences, FiniteSetsExt

Methods == {"GET", "POST", "HEAD", "PUT", "DELETE", "OPTIONS", "PATCH"}

CR == [t |-> "cr"]
LF == [t |-> "lf"]
Byte == [t |-> "byte"]                    \* a body byte, or text with no colon
ReqLine(m, p) == [t |-> "req", method |-> m, path |-> p]
NoVersion(m) == [t |-> "noversion", method |-> m]  \* "METHOD PATH", no 2nd space
Connection(v) == [t |-> "connection", value |-> v]
ContentLength(n) == [t |-> "length", value |-> n]
Header == [t |-> "header"]                \* any header the server never reads

Absent == -1                              \* no Content-Length in _headers
NotANumber == -2                          \* a value on which std::stoull throws

\* STRING, with the strings the parser itself puts together.
Texts == STRING \cup {"", "glued", "other"}

Tokens == {CR, LF, Byte, Header}
            \cup [t : {"req"}, method : Methods, path : Texts]
            \cup [t : {"noversion"}, method : Methods]
            \cup [t : {"connection"}, value : Texts]
            \cup [t : {"length"}, value : Nat \cup {NotANumber}]

(* The members of HttpRequest; of _headers only the two keys the server    *)
(* looks up are kept, connection being what GetHeader returns, "" when     *)
(* there is none.                                                          *)
Requests ==
    [ state : {"REQUEST_LINE", "HEADERS", "BODY", "FINISH"},
      method : Methods \cup {"INVALID"}, path : Texts,
      connection : Texts, length : Nat \cup {Absent, NotANumber},
      contentLength : Nat, body : Seq(Tokens) ]

\* A request after Reset.
Fresh == [ state |-> "REQUEST_LINE", method |-> "INVALID", path |-> "",
           connection |-> "", length |-> Absent,
           contentLength |-> 0, body |-> <<>> ]

(* Buffer::FindCRLF: the index of the first CR that an LF follows, or 0.   *)
FindCRLF(buf) ==
    LET at == {i \in 1 .. Len(buf) - 1 : buf[i] = CR /\ buf[i + 1] = LF}
    IN  IF at = {} THEN 0 ELSE Min(at)

(* Buffer::Retrieve(n): drop the first n units.                            *)
Retrieve(buf, n) == SubSeq(buf, n + 1, Len(buf))

-----------------------------------------------------------------------------
(* _parseRequestLine: a known method, a space, the path up to the second   *)
(* space; the rest of the line is the version.  A line glued together from *)
(* several texts has the spaces of all of them.                            *)
Spaces(line) ==
    2 * Cardinality({i \in 1 .. Len(line) : line[i].t = "req"})
      + Cardinality({i \in 1 .. Len(line) : line[i].t = "noversion"})

HasMethod(line) == line # <<>> /\ line[1].t \in {"req", "noversion"}
IsRequestLine(line) == HasMethod(line) /\ Spaces(line) >= 2

ParseRequestLine(req, line) ==
    [req EXCEPT !.method = IF HasMethod(line) THEN line[1].method ELSE "INVALID",
                !.path = CASE ~IsRequestLine(line) -> @
                           [] IsRequestLine(line) /\ line[1].t = "req" -> line[1].path
                           [] OTHER -> "glued"]

(* _parseHeader.  A line with a colon anywhere is a header, its key is what *)
(* precedes the first colon, and a later header replaces an earlier one of  *)
(* the same key.  stoull reads the digits a value starts with, so text      *)
(* after a length does not change it.                                       *)
IsHeader(line) ==
    \E i \in 1 .. Len(line) : line[i].t \in {"connection", "length", "header"}

ParseHeader(req, line) ==
    CASE line[1].t = "connection" ->
           [req EXCEPT !.connection = IF Len(line) = 1 THEN line[1].value
                                                       ELSE "other"]
      [] line[1].t = "length" -> [req EXCEPT !.length = line[1].value]
      [] OTHER -> req

-----------------------------------------------------------------------------
(* One iteration of the while loop of Parse.  ret is "loop" while the loop *)
(* goes on, then what Parse returned, or "throw" if std::stoull threw.     *)
OnRequestLine(s) ==
    LET i    == FindCRLF(s.buf)
        line == SubSeq(s.buf, 1, i - 1)
    IN  CASE i = 0 -> [s EXCEPT !.ret = "false"]
          [] i > 0 /\ ~IsRequestLine(line) ->
               [s EXCEPT !.req = ParseRequestLine(@, line), !.ret = "false"]
          [] i > 0 /\ IsRequestLine(line) ->
               [s EXCEPT !.req = [ParseRequestLine(@, line)
                                    EXCEPT !.state = "HEADERS"],
                         !.buf = Retrieve(@, i + 1)]

\* Slip: Content-Length is not looked up.
OnBlankLine_NoBody(s) ==
    [s EXCEPT !.buf = Retrieve(@, 2), !.req.state = "FINISH", !.ret = "true"]

\* Slip: the state is not moved to FINISH.
OnBlankLine_NoFinish(s) == [s EXCEPT !.buf = Retrieve(@, 2), !.ret = "true"]

OnBlankLine(s) ==
    LET t == [s EXCEPT !.buf = Retrieve(@, 2)]
    IN  CASE s.req.length = Absent ->
               [t EXCEPT !.req.state = "FINISH", !.ret = "true"]
          [] s.req.length = NotANumber -> [t EXCEPT !.ret = "throw"]
          [] OTHER -> [t EXCEPT !.req.contentLength = s.req.length,
                                !.req.state = "BODY"]

\* Slip: a header line that is not complete yet is thrown away.
OnHeaders_Drops(s) ==
    LET i    == FindCRLF(s.buf)
        line == SubSeq(s.buf, 1, i - 1)
    IN  CASE i = 0 -> [s EXCEPT !.buf = <<>>, !.ret = "false"]
          [] i = 1 -> OnBlankLine(s)
          [] i > 1 /\ ~IsHeader(line) -> [s EXCEPT !.ret = "false"]
          [] i > 1 /\ IsHeader(line) ->
               [s EXCEPT !.req = ParseHeader(@, line), !.buf = Retrieve(@, i + 1)]

OnHeaders(s) ==
    LET i    == FindCRLF(s.buf)
        line == SubSeq(s.buf, 1, i - 1)
    IN  CASE i = 0 -> [s EXCEPT !.ret = "false"]
          [] i = 1 -> OnBlankLine(s)
          [] i > 1 /\ ~IsHeader(line) -> [s EXCEPT !.ret = "false"]
          [] i > 1 /\ IsHeader(line) ->
               [s EXCEPT !.req = ParseHeader(@, line), !.buf = Retrieve(@, i + 1)]

OnBody(s) ==
    LET n == s.req.contentLength
    IN  IF Len(s.buf) >= n
        THEN [s EXCEPT !.req.body = SubSeq(s.buf, 1, n),
                       !.req.state = "FINISH",
                       !.buf = Retrieve(@, n),
                       !.ret = "true"]
        ELSE [s EXCEPT !.ret = "false"]

ParseStep(s) ==
    CASE s.ret # "loop" -> s
      [] s.ret = "loop" /\ s.req.state = "REQUEST_LINE" -> OnRequestLine(s)
      [] s.ret = "loop" /\ s.req.state = "HEADERS" -> OnHeaders(s)
      [] s.ret = "loop" /\ s.req.state = "BODY" -> OnBody(s)
      [] s.ret = "loop" /\ s.req.state = "FINISH" -> [s EXCEPT !.ret = "true"]

(* HttpRequest::Parse.  Every iteration that does not return consumes a    *)
(* CRLF, so Len(buf) + 1 of them are enough, and ParseStep leaves a        *)
(* finished loop alone.  (The singleton makes TLC compute a step once.)    *)
Parse(req, buf) ==
    LET iter[n \in Nat] ==
          IF n = 0 THEN [req |-> req, buf |-> buf, ret |-> "loop"]
          ELSE CHOOSE t \in {ParseStep(s) : s \in {iter[n - 1]}} : TRUE
    IN  iter[Len(buf) + 1]
=============================================================================
