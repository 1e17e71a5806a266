------------------------------ MODULE Session ------------------------------
(***************************************************************************)
(* One TCP connection of the server: class Session, the asio operations it *)
(* has in flight, and the client at the other end.                         *)
(*                                                                         *)
(* Every completion handler of a session runs on the thread that runs the  *)
(* executor of its socket, one at a time, in the order the completions     *)
(* were queued.  Session::Start alone runs on another thread, so its two   *)
(* calls are two steps that interleave with the handlers and the timer.    *)
(***************************************************************************)
EXTENDS HttpRequest, SequencesExt

CONSTANTS Plans,              \* what a client may want to send: sequences of messages
          Pipelining,         \* does it send a request before the last answer?
          HavePostgres,       \* HAVE_POSTGRESQL is defined
          ResourceDirExists,  \* _resourceDir names an existing directory
          ApiPaths,           \* the paths that start with "/api/"
          FileKind            \* what a path outside the API is on the disk

(* A message is the request a client means, spelled out by Encode: its body *)
(* is as long as it says, and without a length there is none.  Method      *)
(* "INVALID" stands for a line that is no request line.                    *)
Messages == [method : Methods \cup {"INVALID"}, path : STRING, connection : STRING,
             length : Nat \cup {Absent, NotANumber}, body : Seq({Byte})]

LengthIsTrue(m) == Len(m.body) = IF m.length \in Nat THEN m.length ELSE 0

ASSUME PlansAssumption ==
    \A p \in Plans : p \in Seq(Messages) /\ \A i \in 1 .. Len(p) : LengthIsTrue(p[i])
ASSUME FlagsAssumption == /\ Pipelining \in BOOLEAN
                          /\ HavePostgres \in BOOLEAN
                          /\ ResourceDirExists \in BOOLEAN
ASSUME FileKindAssumption ==
    \A f \in DOMAIN FileKind : FileKind[f] \in {"regular", "unreadable", "outside", "directory"}

VARIABLES
    plan,         \* the messages this client sends
    sent,         \* how many units of them it has sent
    client,       \* "open", "fin" once it has closed, "rst" once it has aborted
    inbox,        \* the receive buffer of the socket
    wire,         \* the responses handed to the socket in full
    start,        \* the next call of Session::Start: "timer", "read", "done"
    readBuffer,   \* _readBuffer, its readable part
    landed,       \* bytes read into its writable part, HasWritten not yet called
    writeBuffer,  \* _writeBuffer, a sequence of built responses
    request,      \* _request
    keepAlive,    \* _keepAlive
    closed,       \* _closed
    readOp,       \* "pending" while an async_read_some is in flight
    writeOp,      \* "pending" while an async_write is in flight
    timer,        \* "waiting" while an async_wait is in flight, else "idle"
    ready,        \* the handlers to be run, with the error codes they will get
    halted,       \* an exception has escaped a handler, and with it io_context::run
    served,       \* history: the requests that reached HandleRequest
    stopCause     \* history: the handler whose call of Stop closed the socket

peerVars == <<plan, sent, client>>
dataVars == <<readBuffer, landed, writeBuffer, request, keepAlive, served>>
opVars == <<readOp, writeOp, timer, ready>>
vars == <<peerVars, inbox, wire, start, dataVars, closed, stopCause, opVars, halted>>

-----------------------------------------------------------------------------
(* What the client puts on the wire.                                       *)
Line(text) == <<text, CR, LF>>

Encode(m) ==
    Line(IF m.method = "INVALID" THEN Byte ELSE ReqLine(m.method, m.path))
      \o (IF m.connection = "" THEN <<>> ELSE Line(Connection(m.connection)))
      \o (IF m.length = Absent THEN <<>> ELSE Line(ContentLength(m.length)))
      \o <<CR, LF>> \o m.body

Encoded(messages) == FlattenSeq([i \in 1 .. Len(messages) |-> Encode(messages[i])])
Stream == Encoded(plan)
EndIn(p, i) == Len(Encoded(SubSeq(p, 1, Min({i, Len(p)}))))
EndOf(i) == EndIn(plan, i)                                      \* where message i ends

-----------------------------------------------------------------------------
(* HandleRequest, as the set of ways it can end: a response with the status *)
(* and the Connection header it was built with, or an exception.            *)
KeepAliveAsked(req) == req.connection \in {"keep-alive", "Keep-Alive"}

\* Slip: the response is built with keep-alive whatever was asked.
Answer_KeepAlive(status, announce) == [throws |-> FALSE, status |-> status, announce |-> TRUE]

Answer(status, announce) == [throws |-> FALSE, status |-> status, announce |-> announce]
Throws == [throws |-> TRUE, status |-> 0, announce |-> FALSE]

(* The API handlers.  What _extractParam finds depends on the body; it     *)
(* finds nothing in an empty one.  std::stoi throws on an id that is not a *)
(* number.                                                                 *)
HandleApiLogin(req) ==
    CASE ~HavePostgres -> {503}
      [] HavePostgres /\ req.body = <<>> -> {400}
      [] OTHER -> {200, 400, 401}

HandleApiRegister(req) ==
    CASE ~HavePostgres -> {503}
      [] HavePostgres /\ req.body = <<>> -> {400}
      [] OTHER -> {200, 400, 409}

HandleApiGetUsers == IF HavePostgres THEN {200} ELSE {503}

IdNotANumber == 0
HandleApiGetUser(req) ==
    CASE ~HavePostgres -> {503}
      [] HavePostgres /\ req.body = <<>> -> {400}
      [] OTHER -> {200, 400, 404, IdNotANumber}

ApiStatuses(req) ==
    CASE req.path \in {"/api/health", "/api/info"} -> {200}
      [] req.path = "/api/login" /\ req.method = "POST" -> HandleApiLogin(req)
      [] req.path = "/api/register" /\ req.method = "POST" -> HandleApiRegister(req)
      [] req.path = "/api/users" /\ req.method = "GET" -> HandleApiGetUsers
      [] req.path = "/api/user" /\ req.method = "GET" -> HandleApiGetUser(req)
      [] OTHER -> {404}

(* Static files.  canonical() of a missing file throws and is answered at   *)
(* once, before SetKeepAlive: that response says "Connection: close"        *)
(* whatever was asked.  substr(1) of an empty path and canonical() of a     *)
(* missing resource directory throw out of the handler.                     *)
Kind(path) ==
    LET file == IF path = "/" THEN "/index.html" ELSE path
    IN  IF file \in DOMAIN FileKind THEN FileKind[file] ELSE "missing"

StaticAnswer(req) ==
    LET asked == KeepAliveAsked(req)
    IN  CASE req.path = "" \/ ~ResourceDirExists -> Throws
          [] OTHER -> CASE Kind(req.path) = "missing"    -> Answer(404, FALSE)
                        [] Kind(req.path) = "outside"    -> Answer(403, asked)
                        [] Kind(req.path) = "regular"    -> Answer(200, asked)
                        [] Kind(req.path) = "unreadable" -> Answer(500, asked)
                        [] Kind(req.path) = "directory"  -> Answer(404, asked)

Answers(req) ==
    IF req.path \in ApiPaths
    THEN {IF s = IdNotANumber THEN Throws ELSE Answer(s, KeepAliveAsked(req)) :
            s \in ApiStatuses(req)}
    ELSE {StaticAnswer(req)}

-----------------------------------------------------------------------------
(* The operations of asio.  A cancelled operation, or one started on a     *)
(* closed socket, completes with an error through the same queue.          *)
Completion(h, ec) == [h |-> h, ec |-> ec]

AbortTimer(q) == IF timer = "waiting" THEN Append(q, Completion("timer", "aborted")) ELSE q
AbortRead(q)  == IF readOp = "pending" THEN Append(q, Completion("read", "aborted")) ELSE q
AbortWrite(q) == IF writeOp = "pending" THEN Append(q, Completion("write", "aborted")) ELSE q

(* DoRead and DoWrite, called with q as the queue so far.                  *)
DoRead(q) ==
    IF closed THEN /\ ready' = Append(q, Completion("read", "bad"))
                   /\ UNCHANGED readOp
              ELSE /\ ready' = q
                   /\ readOp' = "pending"

\* Slip: the next read is started along with the write.
DoWrite_ReadsOn(q) == ready' = q /\ writeOp' = "pending" /\ readOp' = "pending"

DoWrite(q) ==
    /\ IF closed THEN /\ ready' = Append(q, Completion("write", "bad"))
                      /\ UNCHANGED writeOp
                 ELSE /\ ready' = q
                      /\ writeOp' = "pending"
    /\ UNCHANGED readOp

\* Slip: _closed is set, the socket is not closed.
Stop_OnlyMarks(q, cause) ==
    /\ closed' = TRUE
    /\ stopCause' = IF closed THEN stopCause ELSE cause
    /\ timer' = "idle"
    /\ ready' = AbortTimer(q)
    /\ UNCHANGED <<readOp, writeOp>>

\* Slip: CancelTimer is missing.
Stop_KeepsTimer(q, cause) ==
    /\ closed' = TRUE
    /\ stopCause' = IF closed THEN stopCause ELSE cause
    /\ readOp' = "none" /\ writeOp' = "none"
    /\ ready' = AbortWrite(AbortRead(q))
    /\ UNCHANGED timer

(* Stop: CancelTimer, then shutdown and close, which abort what is in       *)
(* flight.  A completion already in the queue stays there with its result.  *)
Stop(q, cause) ==
    IF closed
    THEN /\ ready' = q
         /\ UNCHANGED <<closed, stopCause, timer, readOp, writeOp>>
    ELSE /\ closed' = TRUE
         /\ stopCause' = cause
         /\ timer' = "idle" /\ readOp' = "none" /\ writeOp' = "none"
         /\ ready' = AbortWrite(AbortRead(AbortTimer(q)))

(* An exception leaves the handler and io_context::run.                    *)
Throw(q) == halted' = TRUE /\ ready' = q /\ UNCHANGED <<readOp, writeOp>>

-----------------------------------------------------------------------------
Init ==
    /\ plan \in Plans
    /\ sent = 0 /\ client = "open" /\ inbox = <<>> /\ wire = <<>>
    /\ start = "timer"
    /\ readBuffer = <<>> /\ landed = <<>> /\ writeBuffer = <<>>
    /\ request = Fresh /\ keepAlive = FALSE
    /\ closed = FALSE /\ halted = FALSE
    /\ readOp = "none" /\ writeOp = "none" /\ timer = "idle" /\ ready = <<>>
    /\ served = <<>> /\ stopCause = "none"

\* Slip: expires_after without async_wait.
AsyncWait_Missing == UNCHANGED timer

AsyncWait == timer' = "waiting"

(* Session::Start, on a thread of the pool: StartTimer, then DoRead.       *)
StartTimer ==
    /\ ~halted /\ start = "timer"
    /\ start' = "read"
    /\ AsyncWait
    /\ UNCHANGED <<peerVars, inbox, wire, dataVars, closed, stopCause, readOp,
                   writeOp, ready, halted>>

StartRead ==
    /\ ~halted /\ start = "read"
    /\ start' = "done"
    /\ DoRead(ready)
    /\ UNCHANGED <<peerVars, inbox, wire, dataVars, closed, stopCause, writeOp,
                   timer, halted>>

-----------------------------------------------------------------------------
(* The reactor completes an operation in flight.                           *)
ReadComplete ==
    /\ ~halted /\ readOp = "pending" /\ inbox # <<>>
    /\ readOp' = "none"
    /\ landed' = inbox /\ inbox' = <<>>
    /\ ready' = Append(ready, Completion("read", "ok"))
    /\ UNCHANGED <<peerVars, wire, start, readBuffer, writeBuffer, request, keepAlive,
                   served, closed, stopCause, writeOp, timer, halted>>

\* The peer has closed and everything it sent was read, or it has reset.
ReadFail(ec) ==
    /\ ~halted /\ readOp = "pending"
    /\ \/ ec = "eof" /\ client = "fin" /\ inbox = <<>>
       \/ ec = "reset" /\ client = "rst"
    /\ readOp' = "none"
    /\ ready' = Append(ready, Completion("read", ec))
    /\ UNCHANGED <<peerVars, inbox, wire, start, dataVars, closed, stopCause, writeOp,
                   timer, halted>>

WriteComplete ==
    /\ ~halted /\ writeOp = "pending" /\ client # "rst"
    /\ writeOp' = "none"
    /\ wire' = wire \o writeBuffer
    /\ ready' = Append(ready, Completion("write", "ok"))
    /\ UNCHANGED <<peerVars, inbox, start, dataVars, closed, stopCause, readOp, timer,
                   halted>>

WriteFail ==
    /\ ~halted /\ writeOp = "pending" /\ client # "open"
    /\ writeOp' = "none"
    /\ ready' = Append(ready, Completion("write", "reset"))
    /\ UNCHANGED <<peerVars, inbox, wire, start, dataVars, closed, stopCause, readOp,
                   timer, halted>>

\* Thirty seconds have passed and the wait was not cancelled.
TimerExpire ==
    /\ ~halted /\ timer = "waiting"
    /\ timer' = "idle"
    /\ ready' = Append(ready, Completion("timer", "ok"))
    /\ UNCHANGED <<peerVars, inbox, wire, start, dataVars, closed, stopCause, readOp,
                   writeOp, halted>>

-----------------------------------------------------------------------------
(* The completion handlers.  Runs(h) takes the head of the queue.          *)
Runs(h) == ~halted /\ ready # <<>> /\ Head(ready).h = h

\* Slip: a failed read is tried again.
HandleReadError_Retry ==
    /\ Runs("read") /\ Head(ready).ec # "ok"
    /\ DoRead(Tail(ready))
    /\ UNCHANGED <<peerVars, inbox, wire, start, dataVars, closed, stopCause, writeOp,
                   timer, halted>>

(* The lambda of DoRead, error branch.                                     *)
HandleReadError ==
    /\ Runs("read") /\ Head(ready).ec # "ok"
    /\ Stop(Tail(ready), "read")
    /\ UNCHANGED <<peerVars, inbox, wire, start, dataVars, halted>>

(* The lambda of DoRead: HasWritten, ResetTimer, Parse, then DoRead again, *)
(* HandleRequest, or an exception of std::stoull.  ResetTimer cancels the  *)
(* wait of StartTimer and nothing waits on the timer afterwards.           *)
Parsed == Parse(request, readBuffer \o landed)

ResetTimer == timer' = "idle"

TakeIn ==
    /\ request' = Parsed.req /\ readBuffer' = Parsed.buf /\ landed' = <<>>
    /\ ResetTimer
    /\ UNCHANGED <<peerVars, inbox, wire, start, closed, stopCause>>

HandleReadPartial ==
    /\ Runs("read") /\ Head(ready).ec = "ok" /\ Parsed.ret = "false"
    /\ TakeIn
    /\ DoRead(AbortTimer(Tail(ready)))
    /\ UNCHANGED <<writeBuffer, keepAlive, served, writeOp, halted>>

HandleReadThrow ==
    /\ Runs("read") /\ Head(ready).ec = "ok" /\ Parsed.ret = "throw"
    /\ TakeIn
    /\ Throw(AbortTimer(Tail(ready)))
    /\ UNCHANGED <<writeBuffer, keepAlive, served>>

Received(req) ==
    [method |-> req.method, path |-> req.path, connection |-> req.connection,
     length |-> req.length, body |-> req.body]

Respond(a, q) ==
    IF a.throws
    THEN Throw(q) /\ UNCHANGED writeBuffer
    ELSE /\ writeBuffer' = Append(writeBuffer, [to |-> Len(served'), status |-> a.status,
                                                announce |-> a.announce])
         /\ DoWrite(q)
         /\ UNCHANGED halted

HandleReadRequest ==
    /\ Runs("read") /\ Head(ready).ec = "ok" /\ Parsed.ret = "true"
    /\ TakeIn
    /\ served' = Append(served, Received(Parsed.req))
    /\ keepAlive' = KeepAliveAsked(Parsed.req)
    /\ \E a \in Answers(Parsed.req) : Respond(a, AbortTimer(Tail(ready)))

(* The lambda of DoWrite.                                                  *)
\* Slip: _headers is not cleared.
Reset_KeepsHeaders(req) == [Fresh EXCEPT !.connection = req.connection,
                                         !.length = req.length]

Reset(req) == Fresh

HandleWriteError ==
    /\ Runs("write") /\ Head(ready).ec # "ok"
    /\ Stop(Tail(ready), "write")
    /\ UNCHANGED <<peerVars, inbox, wire, start, dataVars, halted>>

\* Slips: RetrieveAll is missing; DoRead is missing.
RetrieveAll_Missing == UNCHANGED writeBuffer
ReadOn_Missing(q) == ready' = q /\ UNCHANGED readOp

RetrieveAll == writeBuffer' = <<>>
ReadOn(q) == DoRead(q)

HandleWriteAgain ==
    /\ Runs("write") /\ Head(ready).ec = "ok" /\ keepAlive /\ ~closed
    /\ RetrieveAll
    /\ request' = Reset(request)
    /\ ReadOn(Tail(ready))
    /\ UNCHANGED <<peerVars, inbox, wire, start, readBuffer, landed, keepAlive, served,
                   closed, stopCause, writeOp, timer, halted>>

HandleWriteLast ==
    /\ Runs("write") /\ Head(ready).ec = "ok" /\ ~(keepAlive /\ ~closed)
    /\ RetrieveAll
    /\ Stop(Tail(ready), "done")
    /\ UNCHANGED <<peerVars, inbox, wire, start, readBuffer, landed, request, keepAlive,
                   served, halted>>

(* The lambda of StartTimer and HandleTimeout.                             *)
HandleTimer ==
    /\ Runs("timer")
    /\ IF Head(ready).ec = "ok"
       THEN Stop(Tail(ready), "timeout")
       ELSE ready' = Tail(ready) /\ UNCHANGED <<closed, stopCause, timer, readOp, writeOp>>
    /\ UNCHANGED <<peerVars, inbox, wire, start, dataVars, halted>>

-----------------------------------------------------------------------------
(* The client: it sends its stream in pieces of any size, closes, aborts.  *)
ClientSend(n) ==
    /\ client = "open" /\ ~closed /\ ~halted
    /\ sent + n <= Len(Stream)
    /\ Pipelining \/ sent + n <= EndOf(Len(wire) + 1)
    /\ sent' = sent + n
    /\ inbox' = inbox \o SubSeq(Stream, sent + 1, sent + n)
    /\ UNCHANGED <<plan, client, wire, start, dataVars, closed, stopCause, opVars, halted>>

ClientLeave(how) ==
    /\ ~halted
    /\ \/ how = "fin" /\ client = "open"
       \/ how = "rst" /\ client \in {"open", "fin"}
    /\ client' = how
    /\ UNCHANGED <<plan, sent, inbox, wire, start, dataVars, closed, stopCause, opVars,
                   halted>>

Client == \/ \E n \in 1 .. Len(Stream) - sent : ClientSend(n)
          \/ \E how \in {"fin", "rst"} : ClientLeave(how)

Handler == \/ HandleReadError \/ HandleReadPartial \/ HandleReadThrow
           \/ HandleReadRequest \/ HandleWriteError \/ HandleWriteAgain
           \/ HandleWriteLast \/ HandleTimer

Reactor == \/ ReadComplete \/ ReadFail("eof") \/ ReadFail("reset")
           \/ WriteComplete \/ WriteFail \/ TimerExpire

Next == StartTimer \/ StartRead \/ Handler \/ Reactor \/ Client

Spec == Init /\ [][Next]_vars

(* io_context::run runs every queued handler, the pool thread ends Start,  *)
(* epoll reports what the socket has to report, and time passes.  Writing  *)
(* to a peer that has neither reset nor reads need not end, so nothing is  *)
(* assumed of WriteComplete; nor of the client.                            *)
ServerFairness ==
    /\ WF_vars(Handler)
    /\ WF_vars(StartTimer) /\ WF_vars(StartRead)
    /\ WF_vars(ReadComplete) /\ WF_vars(ReadFail("eof")) /\ WF_vars(ReadFail("reset"))
    /\ WF_vars(WriteFail)
    /\ WF_vars(TimerExpire)

FairSpec == Spec /\ ServerFairness

\* A client that reads what it is sent and sends all it means to send.
SendAny == \E n \in 1 .. Len(Stream) - sent : ClientSend(n)
ReadingClientSpec == FairSpec /\ WF_vars(WriteComplete) /\ WF_vars(SendAny)

-----------------------------------------------------------------------------
(* The variables have their types; _writeBuffer never holds more than the  *)
(* one response that is being written.                                     *)
Handlers == {"read", "write", "timer"}
ErrorCodes == {"ok", "aborted", "bad", "eof", "reset"}
Completions == [h : Handlers, ec : ErrorCodes]

ControlTypeOK ==
    /\ client \in {"open", "fin", "rst"}
    /\ start \in {"timer", "read", "done"}
    /\ closed \in BOOLEAN /\ halted \in BOOLEAN
    /\ readOp \in {"none", "pending"} /\ writeOp \in {"none", "pending"}
    /\ timer \in {"idle", "waiting"}
    /\ ready \in Seq(Completions)
    /\ stopCause \in {"none", "read", "write", "done", "timeout"}

Responses == [to : Nat, status : Nat, announce : BOOLEAN]

DataTypeOK ==
    /\ plan \in Plans
    /\ sent \in 0 .. Len(Stream)
    /\ wire \in Seq(Responses)
    /\ writeBuffer \in Seq(Responses) /\ Len(writeBuffer) <= 1
    /\ request.state \in {"REQUEST_LINE", "HEADERS", "BODY", "FINISH"}
    /\ keepAlive \in BOOLEAN
    /\ served \in Seq(Messages)

TypeOK == ControlTypeOK /\ DataTypeOK

(* The session is one chain: at any time at most one read or write is in   *)
(* flight or waits for its handler, across Start on another thread, the    *)
(* timer and Stop.  It is what makes the unlocked members of Session safe  *)
(* (Session.cpp has no strand and no mutex).                               *)
IsIO(c) == c.h \in {"read", "write"}
NoIO(q) == \A i \in 1 .. Len(q) : ~IsIO(q[i])
OneIO(q) == \A i, j \in 1 .. Len(q) : IsIO(q[i]) /\ IsIO(q[j]) => i = j
InFlight == readOp = "pending" \/ writeOp = "pending"

OneChain ==
    /\ ~(readOp = "pending" /\ writeOp = "pending")
    /\ InFlight => NoIO(ready)
    /\ OneIO(ready)

(* The chain never breaks: a started, open session always has a read or a  *)
(* write in flight or a handler to run, which alone keep the object and    *)
(* its socket alive (shared_from_this in DoRead and DoWrite).              *)
NeverAbandoned ==
    (start = "done" /\ ~closed /\ ~halted) => InFlight \/ ~NoIO(ready)

SingleChain == OneChain /\ NeverAbandoned

(* The memory an operation in flight was given is left alone until its     *)
(* handler runs: no step of another handler moves _readBuffer under a read *)
(* or appends to _writeBuffer under a write.                               *)
BuffersStable ==
    [][/\ readOp = "pending" => UNCHANGED readBuffer
       /\ writeOp = "pending" => UNCHANGED writeBuffer]_vars

(* However the stream is cut up, HandleRequest sees exactly the requests   *)
(* the client sent, whole and in order: nothing of one request (a header,  *)
(* a length, a body) is left over for the next one after Reset.            *)
ServedInOrder ==
    /\ Len(served) <= Len(plan)
    /\ \A i \in 1 .. Len(served) : served[i] = plan[i] /\ EndOf(i) <= sent

(* When the session closes after a response, that response said            *)
(* "Connection: close"; a response that said "keep-alive" is not followed  *)
(* by a close of that kind.  And a read or a write only fails once the     *)
(* client has left.                                                        *)
GracefulClose ==
    /\ stopCause = "done" => wire # <<>> /\ ~Last(wire).announce
    /\ stopCause \in {"read", "write"} => client # "open"

(* Nothing outlives Stop: once a handler has closed the session, no        *)
(* operation is in flight on its socket and no wait on its timer, then and *)
(* for ever, though Start may still have its DoRead to call on the pool    *)
(* thread and a read that had completed may yet be handled, serve one more *)
(* request and call DoWrite.                                               *)
ClosedIsQuiet ==
    closed => readOp = "none" /\ writeOp = "none" /\ timer = "idle"

(* A closed session lets go of every operation and handler, so that the    *)
(* last shared_ptr to it goes and it is destroyed.                         *)
Released == /\ start = "done" /\ readOp = "none" /\ writeOp = "none"
            /\ timer = "idle" /\ ready = <<>>
ClosedIsReleased == closed ~> (Released \/ halted)

(* A client that resets the connection is noticed, whatever the session    *)
(* was doing.                                                              *)
ResetIsReleased == (client = "rst") ~> (Released \/ halted)

(* A client that sends nothing at all is closed by the timer or leaves.    *)
SilentIsClosed == [](sent = 0) => <>(closed \/ halted)

(* A client that waits for each answer and reads what it is sent, so that  *)
(* every write ends, gets an answer to every well-formed request, unless   *)
(* the session is ended by the timer, by the client, by an exception or by *)
(* an answer that says so: no request is lost in between.                  *)
Ended == \/ stopCause \in {"read", "write", "timeout"} \/ halted
         \/ wire # <<>> /\ ~Last(wire).announce

Answered ==
    []<>(writeOp = "none") =>
        \A i \in 1 .. 3 :
            (/\ i <= Len(plan) /\ sent >= EndOf(i)
             /\ \A j \in 1 .. i : plan[j].method # "INVALID") ~> (Len(wire) >= i \/ Ended)

(* The same said of a client that does not wait.                           *)
PipelinedAnswered == Answered

(* docs/2_session_handling.md: a session without any I/O for the timeout   *)
(* is closed.  Every client sends finitely much, so every session is idle  *)
(* from some time on.                                                      *)
IdleIsClosed == <>(closed \/ halted)

(* What a client sees of a session: HttpExchange.                          *)
Asked == Cardinality({i \in 1 .. Len(plan) : EndOf(i) <= sent})
Exchange == INSTANCE HttpExchange WITH asked <- Asked,
                                       answered <- [i \in 1 .. Len(wire) |-> wire[i].to],
                                       open <- ~closed
ImplementsExchange == Exchange!Spec
=============================================================================
