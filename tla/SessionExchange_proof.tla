----------------------- MODULE SessionExchange_proof -----------------------
(***************************************************************************)
(* A session keeps the promises of HttpExchange.  Of the parser the proof  *)
(* uses only what RequestsServedInOrder says of it: a request is served    *)
(* when all of it has been sent.                                           *)
(***************************************************************************)
EXTENDS SessionServed_proof

-----------------------------------------------------------------------------
(* The client's side: what it has asked for only grows.                    *)
ClientInv == plan \in Plans /\ sent \in Nat

SentInFull == {i \in 1 .. Len(plan) : EndOf(i) <= sent}

LEMMA AskedIsNat ==
    ASSUME plan \in Plans
    PROVE  /\ IsFiniteSet(SentInFull) /\ Asked = Cardinality(SentInFull) /\ Asked \in Nat
           /\ Len(plan) \in Nat
<1>1. Len(plan) \in Nat
  BY PlansAssumption
<1>2. IsFiniteSet(1 .. Len(plan))
  BY <1>1, FS_Interval
<1>3. IsFiniteSet(SentInFull)
  BY <1>2, FS_Subset DEF SentInFull
<1>4. QED BY <1>1, <1>3, FS_CardinalityType DEF Asked, SentInFull

\* No message is empty.
LEMMA MessagesEnd == ASSUME plan \in Plans PROVE \A i \in 1 .. Len(plan) : EndOf(i) \in Nat \ {0}
<1> SUFFICES ASSUME NEW i \in 1 .. Len(plan) PROVE EndIn(plan, i) \in Nat \ {0}
  BY DEF EndOf
<1>1. TruePlan(plan)
  BY PlanIs
<1>2. plan[i] \in Messages /\ i - 1 \in 0 .. Len(plan)
  BY <1>1 DEF TruePlan
<1>3. /\ \A j \in 1 .. Len(plan) : EndIn(plan, j) = EndIn(plan, j - 1) + Len(Encode(plan[j]))
      /\ \A j \in 0 .. Len(plan) : EndIn(plan, j) \in 0 .. Len(Encoded(plan))
  BY <1>1, StreamIs DEF TruePlan, StreamIsMessages
<1>4. LengthEnd(plan[i]) \in {3, 6, 9} /\ HeadEnd(plan[i]) = LengthEnd(plan[i]) + 2
  BY <1>2, Places
<1>5. Len(plan[i].body) \in Nat /\ Len(Encode(plan[i])) = HeadEnd(plan[i]) + Len(plan[i].body)
  BY <1>2, Places
<1>6. Len(Encode(plan[i])) \in Nat \ {0}
  BY <1>4, <1>5
<1>7. EndIn(plan, i) = EndIn(plan, i - 1) + Len(Encode(plan[i])) /\ EndIn(plan, i - 1) \in Nat
  BY <1>2, <1>3
<1>8. QED BY <1>6, <1>7

LEMMA AskedGrows ==
    ASSUME ClientInv, plan' = plan, NEW n \in Nat, sent' = sent + n
    PROVE  ClientInv' /\ Asked' >= Asked /\ (n = 0 => Asked' = Asked)
<1>1. ClientInv'
  BY DEF ClientInv
<1>2. \A i \in 1 .. Len(plan) : EndOf(i) \in Nat
  BY MessagesEnd DEF ClientInv
<1>3. SentInFull \subseteq SentInFull'
  BY <1>2 DEF SentInFull, EndOf, ClientInv
<1>4. IsFiniteSet(SentInFull) /\ Asked = Cardinality(SentInFull) /\ Asked \in Nat
  BY AskedIsNat DEF ClientInv
<1>5. IsFiniteSet(SentInFull') /\ Asked' = Cardinality(SentInFull') /\ Asked' \in Nat
  <2>1. IsFiniteSet(1 .. Len(plan)) /\ SentInFull' \subseteq 1 .. Len(plan)
    BY AskedIsNat, FS_Interval DEF SentInFull, ClientInv
  <2>2. IsFiniteSet(SentInFull')
    BY <2>1, FS_Subset
  <2>3. QED BY <2>2, FS_CardinalityType DEF Asked, SentInFull
<1>6. Asked' >= Asked
  BY <1>3, <1>4, <1>5, FS_Subset
<1>7. n = 0 => Asked' = Asked
  BY DEF ClientInv, Asked, EndOf
<1>8. QED BY <1>1, <1>6, <1>7

(* A request that is served has been asked for.                            *)
LEMMA ServedIsAsked ==
    ASSUME ClientInv, ServedInOrder, Len(served) \in Nat PROVE Len(served) <= Asked
<1>1. 1 .. Len(served) \subseteq SentInFull
  BY AskedIsNat DEF ClientInv, ServedInOrder, SentInFull
<1>2. IsFiniteSet(SentInFull) /\ Asked = Cardinality(SentInFull) /\ Asked \in Nat
  BY AskedIsNat DEF ClientInv
<1>3. Cardinality(1 .. Len(served)) = Len(served)
  <2>1. 1 \in Int /\ Len(served) \in Int
    OBVIOUS
  <2>2. Cardinality(1 .. Len(served)) = IF 1 > Len(served) THEN 0 ELSE Len(served) - 1 + 1
    BY <2>1, FS_Interval, Zenon
  <2>3. QED BY <2>2
<1>4. QED BY <1>1, <1>2, <1>3, FS_Subset

-----------------------------------------------------------------------------
(* The answers: those on the wire are to the requests in their order, and  *)
(* while a write is in flight it is the answer to the last one served.     *)
Sent == Completion("write", "ok")

WireInv ==
    /\ \A i \in 1 .. Len(wire) : wire[i].to = i
    /\ Reading \/ start # "done" \/ Sent \in Queued(ready) => Len(wire) = Len(served)
    /\ writeOp = "pending" =>
         Len(served) = Len(wire) + 1 /\ writeBuffer[1].to = Len(served)

LEMMA InitWireInv == Init => WireInv /\ ClientInv
<1> SUFFICES ASSUME Init PROVE WireInv /\ ClientInv
  OBVIOUS
<1>1. Len(<<>>) = 0 /\ wire = <<>> /\ served = <<>> /\ writeOp = "none"
  BY DEF Init
<1>2. QED BY <1>1 DEF Init, WireInv, ClientInv

LEMMA SameWire ==
    ASSUME WireInv, UNCHANGED <<wire, served>>,
           Reading' \/ start' # "done" \/ Sent \in Queued(ready') => Len(wire) = Len(served),
           writeOp' = "pending" => writeOp = "pending" /\ writeBuffer' = writeBuffer
    PROVE  WireInv'
<1>1. QED BY DEF WireInv

(* One response more on the wire.                                          *)
LEMMA ConcatIs ==
    ASSUME NEW s, IsSeq(s), NEW w, IsSeq(w), Len(w) = 1
    PROVE  /\ Len(s) \in Nat /\ Len(s \o w) = Len(s) + 1
           /\ \A i \in 1 .. Len(s) : (s \o w)[i] = s[i]
           /\ (s \o w)[Len(s) + 1] = w[1]
<1>1. PICK S : s \in Seq(S)
  BY DEF IsSeq
<1>2. PICK T : w \in Seq(T)
  BY DEF IsSeq
<1>3. s \in Seq(S \cup T) /\ w \in Seq(S \cup T) /\ Len(s) \in Nat
  BY <1>1, <1>2
<1>4. Len(s) + 1 \in 1 .. Len(s) + Len(w)
  BY <1>3
<1>5. QED BY <1>3, <1>4, ConcatProperties

LEMMA WriteCompleteWire == ASSUME Inv, CloseInv, WireInv, WriteComplete PROVE WireInv'
<1>1. /\ writeOp = "pending" /\ writeOp' = "none" /\ wire' = wire \o writeBuffer
      /\ UNCHANGED <<served, start>>
  BY DEF WriteComplete, dataVars
<1>2. start = "done"
  BY <1>1 DEF Inv, BeforeStart, InFlight
<1>3. IsSeq(wire) /\ IsSeq(writeBuffer) /\ Len(writeBuffer) = 1
  BY <1>1 DEF CloseInv, SeqInv, WriteInv
<1>4. /\ Len(wire) \in Nat /\ Len(wire') = Len(wire) + 1
      /\ \A i \in 1 .. Len(wire) : wire'[i] = wire[i]
      /\ wire'[Len(wire) + 1] = writeBuffer[1]
  BY <1>1, <1>3, ConcatIs
<1>5. Len(served) = Len(wire) + 1 /\ writeBuffer[1].to = Len(served)
  BY <1>1 DEF WireInv
<1>6. \A i \in 1 .. Len(wire') : wire'[i].to = i
  <2>1. \A i \in 1 .. Len(wire') : i \in 1 .. Len(wire) \/ i = Len(wire) + 1
    BY <1>4
  <2>2. QED BY <1>4, <1>5, <2>1 DEF WireInv
<1>7. QED BY <1>1, <1>4, <1>5, <1>6 DEF WireInv

LEMMA RequestWire == ASSUME Inv, CloseInv, WireInv, HandleReadRequest PROVE WireInv'
<1> DEFINE q == AbortTimer(Tail(ready))
<1>1. /\ Runs("read") /\ served' = Append(served, Received(Parsed.req))
      /\ UNCHANGED <<start, wire>>
  BY DEF HandleReadRequest, TakeIn
<1>2. PICK a \in Answers(Parsed.req) : Respond(a, q)
  BY DEF HandleReadRequest
<1>3. /\ q \in Seq(Completions) /\ \A c \in Queued(q) : ~IsIO(c)
      /\ Reading /\ writeBuffer = <<>> /\ ~InFlight /\ start = "done"
  BY <1>1, CancelledQueue
<1> HIDE DEF q
<1>4. Len(wire) = Len(served) /\ Len(served') = Len(served) + 1
  <2>1. Len(served') = Len(served) + 1
    BY <1>1, AppendIsSeq DEF CloseInv, SeqInv
  <2>2. QED BY <1>3, <2>1 DEF WireInv
<1>5. /\ Completion("write", "bad") \in Completions /\ Completion("write", "bad").h = "write"
      /\ Sent # Completion("write", "bad") /\ IsIO(Sent)
  BY DEF Completion, Completions, Handlers, ErrorCodes, Sent, IsIO
<1>6. /\ readOp' = readOp /\ Queued(ready') \subseteq Queued(q) \cup {Completion("write", "bad")}
      /\ writeOp' = "pending" => ~a.throws
  <2>1. CASE a.throws
    BY <1>2, <1>3, <2>1 DEF Respond, Throw, InFlight
  <2>2. CASE ~a.throws /\ closed
    BY <1>2, <1>3, <1>5, <2>2, QueueAppend DEF Respond, DoWrite
  <2>3. CASE ~a.throws /\ ~closed
    BY <1>2, <2>3 DEF Respond, DoWrite
  <2>4. QED BY <2>1, <2>2, <2>3
<1>7. ~Reading' /\ Sent \notin Queued(ready')
  BY <1>3, <1>5, <1>6 DEF Reading, InFlight, IsIO
<1>8. ASSUME ~a.throws PROVE writeBuffer'[1].to = Len(served')
  <2> DEFINE r == [to |-> Len(served'), status |-> a.status, announce |-> a.announce]
  <2>1. writeBuffer' = Append(<<>>, r) /\ r.to = Len(served')
    BY <1>2, <1>3, <1>8 DEF Respond
  <2> HIDE DEF r
  <2>2. Append(<<>>, r)[1] = r
    OBVIOUS
  <2>3. QED BY <2>1, <2>2
<1>9. QED BY <1>1, <1>3, <1>4, <1>6, <1>7, <1>8 DEF WireInv

\* The handler of a link that ends with an equal count of answers and requests.
LEMMA HandlerWire ==
    ASSUME Inv, CloseInv, WireInv,
           \/ HandleReadError \/ HandleReadPartial \/ HandleReadThrow
           \/ HandleWriteAgain \/ HandleWriteLast
    PROVE  WireInv'
<1>1. UNCHANGED <<wire, served>>
  BY DEF HandleReadError, HandleReadPartial, HandleReadThrow, HandleWriteAgain,
         HandleWriteLast, TakeIn, dataVars
<1>2. Len(wire) = Len(served) /\ writeOp # "pending"
  <2>1. CASE Runs("read")
    <3>1. Head(ready) \in Queued(ready) /\ Head(ready).h = "read" /\ ~InFlight
      BY <2>1, HandlerQueue
    <3>2. QED BY <3>1 DEF WireInv, Reading, InFlight
  <2>2. CASE Runs("write") /\ Head(ready).ec = "ok"
    <3>1. /\ Head(ready) \in Queued(ready) /\ Head(ready).h = "write" /\ ~InFlight
          /\ Head(ready) \in Completions
      BY <2>2, HandlerQueue, QueueIs
    <3>2. Head(ready) = Sent
      BY <2>2, <3>1 DEF Completions, Completion, Sent
    <3>3. QED BY <3>1, <3>2 DEF WireInv, InFlight
  <2>3. QED BY <2>1, <2>2 DEF HandleReadError, HandleReadPartial, HandleReadThrow,
                              HandleWriteAgain, HandleWriteLast
<1>3. writeOp' # "pending"
  BY <1>2 DEF HandleReadError, HandleReadPartial, HandleReadThrow, HandleWriteAgain,
              HandleWriteLast, Stop, Throw, ReadOn, DoRead
<1>4. QED BY <1>1, <1>2, <1>3, SameWire

LEMMA WriteErrorWire ==
    ASSUME Inv, CloseInv, WireInv, HandleWriteError \/ WriteFail PROVE WireInv'
<1>1. UNCHANGED <<wire, served, start, writeBuffer>>
  BY DEF HandleWriteError, WriteFail, dataVars
<1>2. start = "done" /\ writeOp' # "pending" /\ ~Reading' /\ Sent \notin Queued(ready')
  <2>1. IsIO(Sent)
    BY DEF Sent, IsIO, Completion
  <2>2. CASE HandleWriteError
    <3>1. Runs("write") /\ Stop(Tail(ready), "write")
      BY <2>2 DEF HandleWriteError
    <3>2. ~InFlight' /\ ~Reading' /\ \A c \in Queued(ready') : ~IsIO(c)
      BY <3>1, StopEndsChain
    <3>3. start = "done"
      BY <3>1, HandlerQueue
    <3>4. QED BY <2>1, <3>2, <3>3 DEF InFlight
  <2>3. CASE WriteFail
    <3> DEFINE c == Completion("write", "reset")
    <3>1. /\ writeOp = "pending" /\ writeOp' = "none" /\ readOp' = readOp
          /\ ready' = Append(ready, c)
      BY <2>3 DEF WriteFail
    <3>2. c \in Completions /\ c.h = "write" /\ c # Sent
      BY DEF Completion, Completions, Handlers, ErrorCodes, Sent
    <3> HIDE DEF c
    <3>3. ready \in Seq(Completions) /\ readOp # "pending" /\ NoIO(ready) /\ start = "done"
      BY <3>1 DEF Inv, ControlTypeOK, OneChain, InFlight, BeforeStart
    <3>4. Queued(ready') = Queued(ready) \cup {c} /\ \A d \in Queued(ready) : ~IsIO(d)
      BY <3>1, <3>2, <3>3, QueueAppend, QueueIs
    <3>5. QED BY <2>1, <3>1, <3>2, <3>3, <3>4 DEF Reading, IsIO
  <2>4. QED BY <2>2, <2>3
<1>3. QED BY <1>1, <1>2, SameWire

LEMMA TimerWire == ASSUME Inv, CloseInv, WireInv, HandleTimer PROVE WireInv'
<1> DEFINE t == Tail(ready)
<1>1. /\ ready \in Seq(Completions) /\ ready # <<>> /\ Head(ready).h = "timer"
      /\ UNCHANGED <<start, wire, writeBuffer, served>>
  BY DEF HandleTimer, Runs, Inv, ControlTypeOK, dataVars
<1>2. /\ t \in Seq(Completions) /\ OneTimer(t) /\ NoTimer(t)
      /\ Queued(ready) = Queued(t) \cup {Head(ready)}
  BY <1>1, QueueTail DEF CloseInv, TimeInv
<1>3. \/ ready' = t /\ UNCHANGED <<closed, timer, readOp, writeOp>>
      \/ ~closed /\ Stop(t, "timeout")
  BY DEF HandleTimer, Stop
<1>4. /\ Reading' => Reading
      /\ Sent \in Queued(ready') => Sent \in Queued(ready)
      /\ writeOp' = "pending" => writeOp = "pending"
  <2>1. CASE ready' = t /\ UNCHANGED <<closed, timer, readOp, writeOp>>
    BY <1>2, <2>1 DEF Reading
  <2>2. CASE ~closed /\ Stop(t, "timeout")
    <3>1. /\ ~InFlight' /\ readOp' = "none" /\ writeOp' = "none"
          /\ \A c \in Queued(ready') : \/ c \in Queued(t)
                                       \/ /\ c.ec = "aborted"
                                          /\ c.h = "read" => readOp = "pending"
      BY <1>2, <2>2, StopQueue DEF Inv
    <3>2. Sent.ec = "ok"
      BY DEF Sent, Completion
    <3>3. QED BY <1>2, <3>1, <3>2 DEF Reading
  <2>3. QED BY <1>3, <2>1, <2>2
<1>5. QED BY <1>1, <1>4, SameWire DEF WireInv

\* A read or a wait that ends: its completion is queued.
LEMMA EndsWire ==
    ASSUME Inv, WireInv, ReadComplete \/ ReadFail("eof") \/ ReadFail("reset") \/ TimerExpire
    PROVE  WireInv'
<1>1. PICK c \in Completions :
           /\ ready' = Append(ready, c) /\ c.h # "write"
           /\ readOp = "pending" \/ (c.h = "timer" /\ readOp' = readOp)
           /\ UNCHANGED <<start, wire, writeBuffer, served, writeOp>>
  <2>1. \A ec \in {"ok", "eof", "reset"} :
            Completion("read", ec) \in Completions /\ Completion("read", ec).h = "read"
    BY DEF Completion, Completions, Handlers, ErrorCodes
  <2>2. Completion("timer", "ok") \in Completions /\ Completion("timer", "ok").h = "timer"
    BY DEF Completion, Completions, Handlers, ErrorCodes
  <2>3. CASE ReadComplete
    BY <2>1, <2>3 DEF ReadComplete
  <2>4. CASE ReadFail("eof") \/ ReadFail("reset")
    BY <2>1, <2>4 DEF ReadFail, dataVars
  <2>5. CASE TimerExpire
    BY <2>2, <2>5 DEF TimerExpire, dataVars
  <2>6. QED BY <2>3, <2>4, <2>5
<1>2. ready \in Seq(Completions)
  BY DEF Inv, ControlTypeOK
<1>3. Queued(ready') = Queued(ready) \cup {c}
  BY <1>1, <1>2, QueueAppend
<1>4. Sent # c /\ (Reading' => Reading)
  BY <1>1, <1>3 DEF Sent, Completion, Reading
<1>5. QED BY <1>1, <1>3, <1>4, SameWire DEF WireInv

LEMMA StepWireInv ==
    Inv /\ CloseInv /\ WireInv /\ ClientInv /\ [Next]_vars => WireInv' /\ ClientInv'
<1> SUFFICES ASSUME Inv, CloseInv, WireInv, ClientInv, [Next]_vars PROVE WireInv' /\ ClientInv'
  OBVIOUS
<1>1. ClientInv'
  <2>1. CASE Client
    BY <2>1, AskedGrows DEF Client, ClientSend, ClientLeave, ClientInv
  <2>2. CASE ~Client
    <3>1. UNCHANGED <<plan, sent>>
      BY <2>2 DEF Next, Handler, Reactor, StartTimer, StartRead, HandleReadError,
         HandleReadPartial, HandleReadThrow, HandleReadRequest, HandleWriteError,
         HandleWriteAgain, HandleWriteLast, HandleTimer, ReadComplete, ReadFail, WriteComplete,
         WriteFail, TimerExpire, TakeIn, peerVars, vars
    <3>2. QED BY <3>1 DEF ClientInv
  <2>3. QED BY <2>1, <2>2
<1>2. ASSUME StartTimer \/ StartRead PROVE WireInv'
  <2>1. /\ start # "done" /\ UNCHANGED <<wire, served, writeBuffer, writeOp>>
        /\ writeOp # "pending"
    BY <1>2 DEF StartTimer, StartRead, dataVars, Inv, BeforeStart, InFlight
  <2>2. Len(wire) = Len(served)
    BY <2>1 DEF WireInv
  <2>3. QED BY <2>1, <2>2, SameWire
<1>3. ASSUME Handler PROVE WireInv'
  BY <1>3, HandlerWire, WriteErrorWire, RequestWire, TimerWire DEF Handler
<1>4. ASSUME Reactor PROVE WireInv'
  BY <1>4, WriteErrorWire, WriteCompleteWire, EndsWire DEF Reactor
<1>5. ASSUME Client \/ UNCHANGED vars PROVE WireInv'
  <2>1. UNCHANGED <<wire, served, writeBuffer, start, readOp, writeOp, ready>>
    BY <1>5 DEF Client, ClientSend, ClientLeave, dataVars, opVars, vars
  <2>2. Reading' = Reading
    BY <2>1 DEF Reading, Queued
  <2>3. QED BY <2>1, <2>2 DEF WireInv
<1>6. QED BY <1>1, <1>2, <1>3, <1>4, <1>5 DEF Next

LEMMA AlwaysWireInv == Spec => [](Inv /\ CloseInv /\ WireInv /\ ClientInv)
<1>1. QED BY InitWireInv, StepWireInv, AlwaysInv, AlwaysCloseInv, PTL DEF Spec

-----------------------------------------------------------------------------
(* The refinement.                                                         *)
AnswersTo == [i \in 1 .. Len(wire) |-> wire[i].to]

\* What HttpExchange sees of a state.
Seen == <<Asked, AnswersTo, ~closed>>

\* A step that leaves the client's count and the wire alone is a close or a stutter.
LEMMA Unseen ==
    ASSUME UNCHANGED <<plan, sent, wire>>, closed' = closed \/ (~closed /\ closed' = TRUE)
    PROVE  Exchange!Close \/ UNCHANGED Seen
<1>1. Asked' = Asked /\ AnswersTo' = AnswersTo
  BY DEF Asked, AnswersTo, EndOf
<1>2. CASE closed' = closed
  BY <1>1, <1>2 DEF Seen
<1>3. CASE ~closed /\ closed' = TRUE
  BY <1>1, <1>3 DEF Exchange!Close, AnswersTo
<1>4. QED BY <1>2, <1>3

LEMMA AnswerStep ==
    ASSUME Inv, CloseInv, WireInv, ClientInv, ServedInOrder, WriteComplete
    PROVE  Exchange!AnswerNext
<1>1. /\ writeOp = "pending" /\ wire' = wire \o writeBuffer
      /\ UNCHANGED <<plan, sent, closed, served>>
  BY DEF WriteComplete, dataVars, peerVars
<1>2. closed \in BOOLEAN /\ ~closed
  BY <1>1 DEF Inv, ControlTypeOK, CloseInv, CauseInv, InFlight
<1>3. IsSeq(wire) /\ IsSeq(writeBuffer) /\ Len(writeBuffer) = 1
  BY <1>1 DEF CloseInv, SeqInv, WriteInv
<1>4. /\ Len(wire) \in Nat /\ Len(wire') = Len(wire) + 1
      /\ \A i \in 1 .. Len(wire) : wire'[i] = wire[i]
      /\ wire'[Len(wire) + 1] = writeBuffer[1]
  BY <1>1, <1>3, ConcatIs
<1>5. Len(served) = Len(wire) + 1 /\ writeBuffer[1].to = Len(wire) + 1
  BY <1>1 DEF WireInv
<1>6. Asked' = Asked /\ Asked \in Nat /\ Len(wire) < Asked
  <2>1. Len(served) <= Asked /\ Asked \in Nat
    BY <1>4, <1>5, ServedIsAsked, AskedIsNat DEF ClientInv
  <2>2. Asked' = Asked
    BY <1>1 DEF Asked, EndOf
  <2>3. QED BY <1>4, <1>5, <2>1, <2>2
<1>7. /\ AnswersTo = [i \in 1 .. Len(wire) |-> i] /\ AnswersTo \in Seq(Nat)
      /\ Len(AnswersTo) = Len(wire)
  <2>1. AnswersTo = [i \in 1 .. Len(wire) |-> i]
    BY DEF AnswersTo, WireInv
  <2>2. QED BY <1>4, <2>1
<1>8. AnswersTo' = [i \in 1 .. Len(wire) + 1 |-> i]
  <2>1. \A i \in 1 .. Len(wire) + 1 : i \in 1 .. Len(wire) \/ i = Len(wire) + 1
    BY <1>4
  <2>2. \A i \in 1 .. Len(wire) + 1 : wire'[i].to = i
    BY <1>4, <1>5, <2>1 DEF WireInv
  <2>3. QED BY <1>4, <2>2 DEF AnswersTo
<1>9. AnswersTo' = Append(AnswersTo, Len(AnswersTo) + 1)
  BY <1>4, <1>7, <1>8
<1>10. QED BY <1>1, <1>2, <1>6, <1>7, <1>9 DEF Exchange!AnswerNext, AnswersTo

LEMMA AskStep ==
    ASSUME ClientInv, NEW n \in 1 .. Len(Stream) - sent, ClientSend(n) PROVE Exchange!Ask
<1>1. n \in Nat /\ plan' = plan /\ sent' = sent + n /\ UNCHANGED <<wire, closed>>
  BY DEF ClientSend
<1>2. Asked' >= Asked
  BY <1>1, AskedGrows
<1>3. QED BY <1>1, <1>2 DEF Exchange!Ask

LEMMA StepExchange ==
    ASSUME Inv, CloseInv, WireInv, ClientInv, ServedInOrder, [Next]_vars
    PROVE  Exchange!Next \/ UNCHANGED Seen
<1>0. closed \in BOOLEAN
  BY DEF Inv, ControlTypeOK
<1>1. CASE \E n \in 1 .. Len(Stream) - sent : ClientSend(n)
  BY <1>1, AskStep DEF Exchange!Next
<1>2. CASE WriteComplete
  BY <1>2, AnswerStep DEF Exchange!Next
<1>3. CASE StartTimer \/ StartRead \/ UNCHANGED vars
           \/ \E how \in {"fin", "rst"} : ClientLeave(how)
  <2>1. UNCHANGED <<plan, sent, wire, closed>>
    BY <1>3 DEF StartTimer, StartRead, ClientLeave, vars, peerVars
  <2>2. QED BY <2>1, Unseen DEF Exchange!Next
<1>4. CASE ReadComplete \/ ReadFail("eof") \/ ReadFail("reset") \/ WriteFail \/ TimerExpire
  <2>1. UNCHANGED <<plan, sent, wire, closed>>
    BY <1>4 DEF ReadComplete, ReadFail, WriteFail, TimerExpire, peerVars
  <2>2. QED BY <2>1, Unseen DEF Exchange!Next
<1>5. CASE HandleReadPartial \/ HandleReadThrow \/ HandleReadRequest \/ HandleWriteAgain
  <2>1. UNCHANGED <<plan, sent, wire, closed>>
    BY <1>5 DEF HandleReadPartial, HandleReadThrow, HandleReadRequest, HandleWriteAgain,
                TakeIn, peerVars
  <2>2. QED BY <2>1, Unseen DEF Exchange!Next
<1>6. CASE HandleReadError \/ HandleWriteError \/ HandleWriteLast \/ HandleTimer
  <2>1. UNCHANGED <<plan, sent, wire>>
    BY <1>6 DEF HandleReadError, HandleWriteError, HandleWriteLast, HandleTimer, peerVars
  <2>2. closed' = closed \/ (~closed /\ closed' = TRUE)
    BY <1>0, <1>6 DEF HandleReadError, HandleWriteError, HandleWriteLast, HandleTimer, Stop
  <2>3. QED BY <2>1, <2>2, Unseen DEF Exchange!Next
<1>7. QED BY <1>1, <1>2, <1>3, <1>4, <1>5, <1>6 DEF Next, Handler, Reactor, Client

LEMMA InitExchange == Init => Exchange!Init
<1> SUFFICES ASSUME Init PROVE Exchange!Init
  OBVIOUS
<1>1. plan \in Plans /\ sent = 0 /\ wire = <<>> /\ closed = FALSE
  BY DEF Init
<1>2. Asked = 0
  <2>1. \A i \in 1 .. Len(plan) : EndOf(i) \in Nat \ {0}
    BY <1>1, MessagesEnd
  <2>2. SentInFull = {}
    BY <1>1, <2>1 DEF SentInFull
  <2>3. Asked = Cardinality({})
    BY <1>1, <2>2, AskedIsNat
  <2>4. QED BY <2>3, FS_EmptySet
<1>3. [i \in 1 .. Len(wire) |-> wire[i].to] = <<>>
  BY <1>1
<1>4. QED BY <1>1, <1>2, <1>3 DEF Exchange!Init

(* A session keeps the promises of HttpExchange, whatever the clients, the *)
(* disk and the build: one answer for each request, in the order they were *)
(* sent, none before its request was sent in full and none once Stop has   *)
(* closed the socket.                                                      *)
THEOREM SessionImplementsExchange == Spec => ImplementsExchange
<1>1. Init => Exchange!Init
  BY InitExchange
<1>2. Inv /\ CloseInv /\ WireInv /\ ClientInv /\ ServedInOrder /\ [Next]_vars
        => [Exchange!Next]_Seen
  BY StepExchange
<1>3. Spec => [](Inv /\ CloseInv /\ WireInv /\ ClientInv) /\ []ServedInOrder
  BY AlwaysWireInv, RequestsServedInOrder, PTL
<1>4. QED BY <1>1, <1>2, <1>3, PTL DEF Spec, ImplementsExchange, Exchange!Spec, Seen, AnswersTo
=============================================================================
