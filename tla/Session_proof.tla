--------------------------- MODULE Session_proof ---------------------------
(***************************************************************************)
(* What holds of a session for every client, disk and build: the control   *)
(* state has its type, the session is one unbroken chain of operations,    *)
(* the buffers of an operation in flight are left alone; and a session     *)
(* closes with the answer that announced it, because the client has left,  *)
(* or by the timer, and nothing is in flight from then on.  None of this   *)
(* looks into the parser.                                                  *)
(***************************************************************************)
EXTENDS Session, SequenceTheorems, TLAPS

-----------------------------------------------------------------------------
(* Queues of completions.                                                  *)

(* What Append does to the completions of reads and writes in a queue.     *)
LEMMA AppendCompletion ==
    ASSUME NEW q \in Seq(Completions), NEW c \in Completions
    PROVE  /\ Append(q, c) \in Seq(Completions)
           /\ ~NoIO(q) => ~NoIO(Append(q, c))
           /\ IsIO(c) => ~NoIO(Append(q, c))
           /\ NoIO(q) /\ ~IsIO(c) => NoIO(Append(q, c))
           /\ NoIO(q) => OneIO(Append(q, c))
           /\ OneIO(q) /\ ~IsIO(c) => OneIO(Append(q, c))
<1>1. /\ Append(q, c) \in Seq(Completions)
      /\ Len(Append(q, c)) = Len(q) + 1
      /\ \A i \in 1 .. Len(q) : Append(q, c)[i] = q[i]
      /\ Append(q, c)[Len(q) + 1] = c
      /\ Len(q) \in Nat
  OBVIOUS
<1>2. QED BY <1>1 DEF NoIO, OneIO

(* Taking the head of a queue: a read or write handler leaves none behind, *)
(* a timer handler leaves all of them.                                     *)
LEMMA TailCompletion ==
    ASSUME NEW q \in Seq(Completions), q # <<>>
    PROVE  /\ Tail(q) \in Seq(Completions)
           /\ Head(q) \in Completions
           /\ OneIO(q) => OneIO(Tail(q))
           /\ NoIO(q) => NoIO(Tail(q)) /\ ~IsIO(Head(q))
           /\ OneIO(q) /\ IsIO(Head(q)) => NoIO(Tail(q))
           /\ ~NoIO(q) /\ ~IsIO(Head(q)) => ~NoIO(Tail(q))
<1>1. /\ Tail(q) \in Seq(Completions) /\ Head(q) \in Completions
      /\ Head(q) = q[1]
      /\ Len(q) \in Nat /\ Len(q) > 0
      /\ Len(Tail(q)) = Len(q) - 1
      /\ \A i \in 1 .. Len(Tail(q)) : Tail(q)[i] = q[i + 1]
  OBVIOUS
<1>2. OneIO(q) => OneIO(Tail(q))
  <2>1. SUFFICES ASSUME OneIO(q), NEW i \in 1 .. Len(Tail(q)), NEW j \in 1 .. Len(Tail(q)),
                        IsIO(Tail(q)[i]), IsIO(Tail(q)[j])
                 PROVE  i = j
    BY DEF OneIO
  <2>2. i + 1 \in 1 .. Len(q) /\ j + 1 \in 1 .. Len(q)
    BY <1>1
  <2>3. i + 1 = j + 1
    BY <1>1, <2>1, <2>2 DEF OneIO
  <2>4. QED BY <2>3, <1>1
<1>3. NoIO(q) => NoIO(Tail(q)) /\ ~IsIO(Head(q))
  BY <1>1 DEF NoIO
<1>4. OneIO(q) /\ IsIO(Head(q)) => NoIO(Tail(q))
  BY <1>1 DEF NoIO, OneIO
<1>5. ~NoIO(q) /\ ~IsIO(Head(q)) => ~NoIO(Tail(q))
  <2>1. SUFFICES ASSUME NEW i \in 1 .. Len(q), IsIO(q[i]), ~IsIO(q[1])
                 PROVE  \E j \in 1 .. Len(Tail(q)) : IsIO(Tail(q)[j])
    BY <1>1 DEF NoIO
  <2>2. i # 1
    BY <2>1
  <2>3. i - 1 \in 1 .. Len(Tail(q)) /\ Tail(q)[i - 1] = q[i]
    BY <1>1, <2>2
  <2>4. QED BY <2>1, <2>3
<1>6. QED BY <1>1, <1>2, <1>3, <1>4, <1>5

(* A cancelled wait leaves the reads and writes of a queue as they are.    *)
LEMMA AbortTimerQueue ==
    ASSUME NEW q \in Seq(Completions)
    PROVE  /\ AbortTimer(q) \in Seq(Completions)
           /\ NoIO(q) => NoIO(AbortTimer(q))
           /\ OneIO(q) => OneIO(AbortTimer(q))
           /\ ~NoIO(q) => ~NoIO(AbortTimer(q))
<1>1. /\ Completion("timer", "aborted") \in Completions
      /\ ~IsIO(Completion("timer", "aborted"))
  BY DEF Completion, Completions, Handlers, ErrorCodes, IsIO
<1>2. QED BY <1>1, AppendCompletion DEF AbortTimer

-----------------------------------------------------------------------------
(* The inductive invariant.  OneChain and NeverAbandoned are inductive once *)
(* it is known that Start has not begun a read before its second call.      *)
BeforeStart == start # "done" => ~InFlight /\ NoIO(ready)

Inv == ControlTypeOK /\ OneChain /\ NeverAbandoned /\ BeforeStart

(* The parts of ControlTypeOK that Stop, DoRead and DoWrite assign.        *)
OpTypeOK ==
    /\ readOp \in {"none", "pending"} /\ writeOp \in {"none", "pending"}
    /\ timer \in {"idle", "waiting"}
    /\ ready \in Seq(Completions)

(* Stop, called with the queue q that is left once the running handler has *)
(* been taken from it, keeps the chain whole and leaves the session closed.*)
LEMMA StopKeepsChain ==
    ASSUME ControlTypeOK,
           ~(readOp = "pending" /\ writeOp = "pending"),
           NEW q \in Seq(Completions), OneIO(q), InFlight => NoIO(q),
           NEW cause \in {"read", "write", "done", "timeout"},
           Stop(q, cause)
    PROVE  /\ OpTypeOK' /\ OneChain' /\ closed' = TRUE
           /\ stopCause' \in {"none", "read", "write", "done", "timeout"}
           /\ ~InFlight /\ NoIO(q) => ~InFlight' /\ NoIO(ready')
<1>1. CASE closed
  BY <1>1 DEF Stop, ControlTypeOK, OpTypeOK, OneChain, InFlight
<1>2. CASE ~closed
  <2>1. /\ closed' = TRUE /\ stopCause' = cause /\ ~InFlight'
        /\ timer' = "idle" /\ readOp' = "none" /\ writeOp' = "none"
        /\ ready' = AbortWrite(AbortRead(AbortTimer(q)))
    BY <1>2 DEF Stop, InFlight
  <2> DEFINE t == AbortTimer(q)
  <2>2. /\ t \in Seq(Completions) /\ OneIO(t)
        /\ NoIO(q) => NoIO(t)
    BY AbortTimerQueue
  <2>3. /\ Completion("read", "aborted") \in Completions
        /\ Completion("write", "aborted") \in Completions
    BY DEF Completion, Completions, Handlers, ErrorCodes
  <2> HIDE DEF t
  <2>4. CASE readOp = "pending"
    <3>1. ready' = Append(t, Completion("read", "aborted"))
      BY <2>1, <2>4 DEF AbortRead, AbortWrite, t
    <3>2. NoIO(t)
      BY <2>2, <2>4 DEF InFlight
    <3>3. /\ ready' \in Seq(Completions) /\ OneIO(ready')
      BY <3>1, <3>2, <2>2, <2>3, AppendCompletion
    <3>4. QED BY <2>1, <2>4, <3>3 DEF OpTypeOK, OneChain, InFlight, OneIO, NoIO
  <2>5. CASE writeOp = "pending"
    <3>1. ready' = Append(t, Completion("write", "aborted"))
      BY <2>1, <2>5 DEF AbortRead, AbortWrite, t
    <3>2. NoIO(t)
      BY <2>2, <2>5 DEF InFlight
    <3>3. /\ ready' \in Seq(Completions) /\ OneIO(ready')
      BY <3>1, <3>2, <2>2, <2>3, AppendCompletion
    <3>4. QED BY <2>1, <2>5, <3>3 DEF OpTypeOK, OneChain, InFlight, OneIO, NoIO
  <2>6. CASE ~InFlight
    <3>1. ready' = t
      BY <2>1, <2>6 DEF AbortRead, AbortWrite, InFlight, t
    <3>2. QED BY <2>1, <2>2, <3>1 DEF OpTypeOK, OneChain, InFlight, OneIO, NoIO
  <2>7. QED BY <2>4, <2>5, <2>6 DEF InFlight
<1>3. QED BY <1>1, <1>2 DEF ControlTypeOK

(* DoRead and DoWrite, called when no other link of the chain is left, add  *)
(* the next one, on a closed socket too.                                    *)
LEMMA DoReadLinks ==
    ASSUME ControlTypeOK, ~InFlight, NEW q \in Seq(Completions), NoIO(q),
           DoRead(q), UNCHANGED writeOp
    PROVE  /\ readOp' \in {"none", "pending"} /\ writeOp' \in {"none", "pending"}
           /\ ready' \in Seq(Completions)
           /\ OneChain' /\ (InFlight' \/ ~NoIO(ready'))
<1>1. Completion("read", "bad") \in Completions /\ IsIO(Completion("read", "bad"))
  BY DEF Completion, Completions, Handlers, ErrorCodes, IsIO
<1>2. CASE closed
  <2>1. ready' = Append(q, Completion("read", "bad")) /\ ~InFlight' /\ readOp' = readOp
    BY <1>2 DEF DoRead, InFlight
  <2>2. ready' \in Seq(Completions) /\ OneIO(ready') /\ ~NoIO(ready')
    BY <1>1, <2>1, AppendCompletion
  <2>3. QED BY <2>1, <2>2 DEF ControlTypeOK, OneChain, InFlight, OneIO, NoIO
<1>3. CASE ~closed
  <2>1. ready' = q /\ readOp' = "pending" /\ writeOp' # "pending"
    BY <1>3 DEF DoRead, InFlight
  <2>2. OneIO(q)
    BY DEF NoIO, OneIO
  <2>3. QED BY <2>1, <2>2 DEF ControlTypeOK, OneChain, InFlight, OneIO, NoIO
<1>4. QED BY <1>2, <1>3

LEMMA DoWriteLinks ==
    ASSUME ControlTypeOK, ~InFlight, NEW q \in Seq(Completions), NoIO(q),
           DoWrite(q)
    PROVE  /\ readOp' \in {"none", "pending"} /\ writeOp' \in {"none", "pending"}
           /\ ready' \in Seq(Completions)
           /\ OneChain' /\ (InFlight' \/ ~NoIO(ready'))
<1>1. Completion("write", "bad") \in Completions /\ IsIO(Completion("write", "bad"))
  BY DEF Completion, Completions, Handlers, ErrorCodes, IsIO
<1>2. CASE closed
  <2>1. ready' = Append(q, Completion("write", "bad")) /\ ~InFlight'
        /\ readOp' = readOp /\ writeOp' = writeOp
    BY <1>2 DEF DoWrite, InFlight
  <2>2. ready' \in Seq(Completions) /\ OneIO(ready') /\ ~NoIO(ready')
    BY <1>1, <2>1, AppendCompletion
  <2>3. QED BY <2>1, <2>2 DEF ControlTypeOK, OneChain, InFlight, OneIO, NoIO
<1>3. CASE ~closed
  <2>1. ready' = q /\ writeOp' = "pending" /\ readOp' = readOp /\ readOp' # "pending"
    BY <1>3 DEF DoWrite, InFlight
  <2>2. OneIO(q)
    BY DEF NoIO, OneIO
  <2>3. QED BY <2>1, <2>2 DEF ControlTypeOK, OneChain, InFlight, OneIO, NoIO
<1>4. QED BY <1>2, <1>3

(* While the handler of a read or a write runs, it is all of the chain.    *)
LEMMA HandlerHoldsChain ==
    ASSUME Inv, Runs("read") \/ Runs("write")
    PROVE  /\ ~InFlight /\ Tail(ready) \in Seq(Completions) /\ NoIO(Tail(ready))
           /\ start = "done" /\ ~halted
<1>1. ready \in Seq(Completions) /\ ready # <<>> /\ IsIO(Head(ready)) /\ ~halted
  BY DEF Inv, ControlTypeOK, Runs, IsIO
<1>2. ~NoIO(ready)
  BY <1>1, TailCompletion
<1>3. ~InFlight /\ OneIO(ready) /\ start = "done"
  BY <1>2 DEF Inv, OneChain, BeforeStart
<1>4. QED BY <1>1, <1>3, TailCompletion

-----------------------------------------------------------------------------
LEMMA InitInv == Init => Inv
<1> SUFFICES ASSUME Init PROVE Inv
  OBVIOUS
<1>1. ready = <<>> /\ <<>> \in Seq(Completions) /\ Len(ready) = 0
  BY DEF Init
<1>2. NoIO(ready) /\ OneIO(ready)
  BY <1>1 DEF NoIO, OneIO
<1>3. QED
  BY <1>1, <1>2 DEF Init, Inv, ControlTypeOK, OneChain, NeverAbandoned, BeforeStart, InFlight

(* A step of the reactor that ends the pending read or write queues its    *)
(* handler: the link only changes its place.                               *)
LEMMA CompletionKeepsInv ==
    ASSUME Inv, InFlight, ~halted, NEW h \in {"read", "write"}, NEW ec \in ErrorCodes,
           readOp' = "none", writeOp' = "none",
           ready' = Append(ready, Completion(h, ec)),
           UNCHANGED <<client, start, closed, halted, stopCause, timer>>
    PROVE  Inv'
<1>1. Completion(h, ec) \in Completions /\ IsIO(Completion(h, ec))
  BY DEF Completion, Completions, Handlers, IsIO
<1>2. ready \in Seq(Completions) /\ NoIO(ready) /\ start = "done"
  BY DEF Inv, ControlTypeOK, OneChain, BeforeStart
<1>3. ready' \in Seq(Completions) /\ OneIO(ready') /\ ~NoIO(ready')
  BY <1>1, <1>2, AppendCompletion
<1>4. ControlTypeOK'
  BY <1>3 DEF Inv, ControlTypeOK
<1>5. ~InFlight'
  BY DEF InFlight
<1>6. OneChain' /\ NeverAbandoned' /\ BeforeStart'
  BY <1>2, <1>3, <1>5 DEF OneChain, NeverAbandoned, BeforeStart, OneIO, NoIO, InFlight
<1>7. QED BY <1>4, <1>6 DEF Inv

(* Every step of Start, of a handler, of the reactor and of the client     *)
(* keeps the invariant.                                                    *)
LEMMA StepInv == Inv /\ [Next]_vars => Inv'
<1> SUFFICES ASSUME Inv, [Next]_vars PROVE Inv'
  OBVIOUS
<1> USE DEF Inv
<1>0. ready \in Seq(Completions)
  BY DEF ControlTypeOK
<1>1. CASE StartTimer
  BY <1>1 DEF StartTimer, AsyncWait, peerVars, ControlTypeOK, OneChain, NeverAbandoned, BeforeStart, InFlight,
              NoIO, OneIO
<1>2. CASE StartRead
  <2>1. ~InFlight /\ NoIO(ready) /\ DoRead(ready) /\ start' = "done"
        /\ UNCHANGED <<client, closed, stopCause, writeOp, timer, halted>>
    BY <1>2 DEF StartRead, BeforeStart, peerVars
  <2>2. /\ readOp' \in {"none", "pending"} /\ ready' \in Seq(Completions)
        /\ OneChain' /\ (InFlight' \/ ~NoIO(ready'))
    BY <2>1, <1>0, DoReadLinks
  <2>3. ControlTypeOK'
    BY <2>1, <2>2 DEF ControlTypeOK
  <2>4. QED BY <2>1, <2>2, <2>3 DEF NeverAbandoned, BeforeStart
<1>3. CASE HandleReadError
  <2>1. /\ ~InFlight /\ Tail(ready) \in Seq(Completions) /\ NoIO(Tail(ready))
        /\ start = "done" /\ Stop(Tail(ready), "read")
        /\ UNCHANGED <<client, start, halted>>
    BY <1>3, HandlerHoldsChain DEF HandleReadError, peerVars
  <2>2. OpTypeOK' /\ OneChain' /\ closed' = TRUE
        /\ stopCause' \in {"none", "read", "write", "done", "timeout"}
    BY <2>1, StopKeepsChain DEF OneChain, OneIO, NoIO
  <2>3. QED BY <2>1, <2>2 DEF ControlTypeOK, OpTypeOK, NeverAbandoned, BeforeStart
<1>4. CASE HandleWriteError
  <2>1. /\ ~InFlight /\ Tail(ready) \in Seq(Completions) /\ NoIO(Tail(ready))
        /\ start = "done" /\ Stop(Tail(ready), "write")
        /\ UNCHANGED <<client, start, halted>>
    BY <1>4, HandlerHoldsChain DEF HandleWriteError, peerVars
  <2>2. OpTypeOK' /\ OneChain' /\ closed' = TRUE
        /\ stopCause' \in {"none", "read", "write", "done", "timeout"}
    BY <2>1, StopKeepsChain DEF OneChain, OneIO, NoIO
  <2>3. QED BY <2>1, <2>2 DEF ControlTypeOK, OpTypeOK, NeverAbandoned, BeforeStart
<1>5. CASE HandleWriteLast
  <2>1. /\ ~InFlight /\ Tail(ready) \in Seq(Completions) /\ NoIO(Tail(ready))
        /\ start = "done" /\ Stop(Tail(ready), "done")
        /\ UNCHANGED <<client, start, halted>>
    BY <1>5, HandlerHoldsChain DEF HandleWriteLast, peerVars
  <2>2. OpTypeOK' /\ OneChain' /\ closed' = TRUE
        /\ stopCause' \in {"none", "read", "write", "done", "timeout"}
    BY <2>1, StopKeepsChain DEF OneChain, OneIO, NoIO
  <2>3. QED BY <2>1, <2>2 DEF ControlTypeOK, OpTypeOK, NeverAbandoned, BeforeStart
<1>6. CASE HandleWriteAgain
  <2>1. /\ ~InFlight /\ Tail(ready) \in Seq(Completions) /\ NoIO(Tail(ready))
        /\ start = "done" /\ DoRead(Tail(ready))
        /\ UNCHANGED <<client, start, closed, stopCause, writeOp, timer, halted>>
    BY <1>6, HandlerHoldsChain DEF HandleWriteAgain, ReadOn, peerVars
  <2>2. /\ readOp' \in {"none", "pending"} /\ ready' \in Seq(Completions)
        /\ OneChain' /\ (InFlight' \/ ~NoIO(ready'))
    BY <2>1, DoReadLinks
  <2>3. QED BY <2>1, <2>2 DEF ControlTypeOK, NeverAbandoned, BeforeStart
<1>7. CASE HandleReadPartial
  <2> DEFINE q == AbortTimer(Tail(ready))
  <2>1. /\ ~InFlight /\ start = "done" /\ q \in Seq(Completions) /\ NoIO(q)
    BY <1>7, HandlerHoldsChain, AbortTimerQueue DEF HandleReadPartial
  <2>2. /\ DoRead(q) /\ timer' = "idle"
        /\ UNCHANGED <<client, start, closed, stopCause, writeOp, halted>>
    BY <1>7 DEF HandleReadPartial, TakeIn, ResetTimer, peerVars
  <2> HIDE DEF q
  <2>3. /\ readOp' \in {"none", "pending"} /\ ready' \in Seq(Completions)
        /\ OneChain' /\ (InFlight' \/ ~NoIO(ready'))
    BY <2>1, <2>2, DoReadLinks
  <2>4. QED BY <2>1, <2>2, <2>3 DEF ControlTypeOK, NeverAbandoned, BeforeStart
<1>8. CASE HandleReadThrow
  <2> DEFINE q == AbortTimer(Tail(ready))
  <2>1. /\ ~InFlight /\ start = "done" /\ q \in Seq(Completions) /\ NoIO(q)
    BY <1>8, HandlerHoldsChain, AbortTimerQueue DEF HandleReadThrow
  <2>2. /\ ready' = q /\ timer' = "idle" /\ halted' = TRUE
        /\ UNCHANGED <<client, start, closed, stopCause, readOp, writeOp>>
    BY <1>8 DEF HandleReadThrow, TakeIn, ResetTimer, Throw, peerVars
  <2> HIDE DEF q
  <2>3. QED BY <2>1, <2>2 DEF ControlTypeOK, OneChain, NeverAbandoned, BeforeStart,
                              InFlight, NoIO, OneIO
<1>9. CASE HandleReadRequest
  <2> DEFINE q == AbortTimer(Tail(ready))
  <2>1. /\ ~InFlight /\ start = "done" /\ q \in Seq(Completions) /\ NoIO(q)
    BY <1>9, HandlerHoldsChain, AbortTimerQueue DEF HandleReadRequest
  <2>2. /\ timer' = "idle"
        /\ UNCHANGED <<client, start, closed, stopCause>>
    BY <1>9 DEF HandleReadRequest, TakeIn, ResetTimer, peerVars
  <2>3. PICK a \in Answers(Parsed.req) : Respond(a, q)
    BY <1>9 DEF HandleReadRequest
  <2> HIDE DEF q
  <2>4. CASE a.throws
    <3>1. ready' = q /\ halted' = TRUE /\ UNCHANGED <<readOp, writeOp>>
      BY <2>3, <2>4 DEF Respond, Throw
    <3>2. QED BY <2>1, <2>2, <3>1 DEF ControlTypeOK, OneChain, NeverAbandoned, BeforeStart,
                                      InFlight, NoIO, OneIO
  <2>5. CASE ~a.throws
    <3>1. DoWrite(q) /\ UNCHANGED halted
      BY <2>3, <2>5 DEF Respond
    <3>2. /\ readOp' \in {"none", "pending"} /\ writeOp' \in {"none", "pending"}
          /\ ready' \in Seq(Completions)
          /\ OneChain' /\ (InFlight' \/ ~NoIO(ready'))
      BY <2>1, <3>1, DoWriteLinks
    <3>3. QED BY <2>1, <2>2, <3>1, <3>2 DEF ControlTypeOK, NeverAbandoned, BeforeStart
  <2>6. QED BY <2>4, <2>5
<1>10. CASE HandleTimer
  <2>1. /\ ready # <<>> /\ ~IsIO(Head(ready)) /\ UNCHANGED <<client, start, halted>>
    BY <1>10 DEF HandleTimer, Runs, IsIO, peerVars
  <2>2. /\ Tail(ready) \in Seq(Completions) /\ OneIO(Tail(ready))
        /\ NoIO(ready) => NoIO(Tail(ready))
        /\ ~NoIO(ready) => ~NoIO(Tail(ready))
    BY <1>0, <2>1, TailCompletion DEF OneChain
  <2>3. CASE Head(ready).ec = "ok"
    <3>1. Stop(Tail(ready), "timeout")
      BY <1>10, <2>3 DEF HandleTimer
    <3>2. /\ OpTypeOK' /\ OneChain' /\ closed' = TRUE
          /\ stopCause' \in {"none", "read", "write", "done", "timeout"}
          /\ ~InFlight /\ NoIO(Tail(ready)) => ~InFlight' /\ NoIO(ready')
      BY <2>2, <3>1, StopKeepsChain DEF OneChain
    <3>3. QED BY <2>1, <2>2, <3>2 DEF ControlTypeOK, OpTypeOK, NeverAbandoned, BeforeStart
  <2>4. CASE Head(ready).ec # "ok"
    <3>1. ready' = Tail(ready) /\ UNCHANGED <<closed, stopCause, timer, readOp, writeOp>>
      BY <1>10, <2>4 DEF HandleTimer
    <3>2. QED BY <2>1, <2>2, <3>1 DEF ControlTypeOK, OneChain, NeverAbandoned, BeforeStart,
                                      InFlight, NoIO, OneIO
  <2>5. QED BY <2>3, <2>4
<1>11. CASE ReadComplete
  <2>1. InFlight /\ writeOp = "none"
    BY <1>11 DEF ReadComplete, InFlight, OneChain, ControlTypeOK
  <2>2. QED BY <1>11, <2>1, CompletionKeepsInv DEF ReadComplete, peerVars, ErrorCodes
<1>12. ASSUME NEW ec \in {"eof", "reset"}, ReadFail(ec) PROVE Inv'
  <2>1. InFlight /\ writeOp = "none"
    BY <1>12 DEF ReadFail, InFlight, OneChain, ControlTypeOK
  <2>2. QED BY <1>12, <2>1, CompletionKeepsInv DEF ReadFail, peerVars, ErrorCodes
<1>13. CASE WriteComplete
  <2>1. InFlight /\ readOp = "none"
    BY <1>13 DEF WriteComplete, InFlight, OneChain, ControlTypeOK
  <2>2. QED BY <1>13, <2>1, CompletionKeepsInv DEF WriteComplete, peerVars, ErrorCodes
<1>14. CASE WriteFail
  <2>1. InFlight /\ readOp = "none"
    BY <1>14 DEF WriteFail, InFlight, OneChain, ControlTypeOK
  <2>2. QED BY <1>14, <2>1, CompletionKeepsInv DEF WriteFail, peerVars, ErrorCodes
<1>15. CASE TimerExpire
  <2>1. /\ Completion("timer", "ok") \in Completions
        /\ ~IsIO(Completion("timer", "ok"))
    BY DEF Completion, Completions, Handlers, ErrorCodes, IsIO
  <2>2. /\ ready' = Append(ready, Completion("timer", "ok")) /\ timer' = "idle"
        /\ UNCHANGED <<client, start, closed, stopCause, readOp, writeOp, halted>>
    BY <1>15 DEF TimerExpire, peerVars
  <2>3. /\ ready' \in Seq(Completions) /\ OneIO(ready')
        /\ NoIO(ready) => NoIO(ready')
        /\ ~NoIO(ready) => ~NoIO(ready')
    BY <1>0, <2>1, <2>2, AppendCompletion DEF OneChain
  <2>4. InFlight' <=> InFlight
    BY <2>2 DEF InFlight
  <2>5. ControlTypeOK' /\ ~(readOp' = "pending" /\ writeOp' = "pending")
    BY <2>2, <2>3 DEF ControlTypeOK, OneChain
  <2>6. (InFlight' => NoIO(ready')) /\ OneIO(ready')
    BY <2>3, <2>4 DEF OneChain
  <2>7. OneChain'
    BY <2>5, <2>6 DEF OneChain, OneIO, NoIO, InFlight
  <2>8. NeverAbandoned' /\ BeforeStart'
    BY <2>2, <2>3, <2>4 DEF NeverAbandoned, BeforeStart
  <2>9. QED BY <2>5, <2>7, <2>8
<1>16. CASE Client
  <2>1. /\ client' \in {"open", "fin", "rst"}
        /\ UNCHANGED <<start, closed, halted, stopCause, opVars>>
    BY <1>16 DEF Client, ClientSend, ClientLeave, ControlTypeOK
  <2>2. QED BY <2>1 DEF opVars, ControlTypeOK, OneChain, NeverAbandoned, BeforeStart,
                        InFlight, NoIO, OneIO
<1>17. CASE UNCHANGED vars
  BY <1>17 DEF vars, peerVars, opVars, ControlTypeOK, OneChain, NeverAbandoned, BeforeStart,
               InFlight, NoIO, OneIO
<1>18. QED
  BY <1>1, <1>2, <1>3, <1>4, <1>5, <1>6, <1>7, <1>8, <1>9, <1>10, <1>11, <1>12, <1>13,
     <1>14, <1>15, <1>16, <1>17 DEF Next, Handler, Reactor

LEMMA AlwaysInv == Spec => []Inv
<1>1. QED BY InitInv, StepInv, PTL DEF Spec

-----------------------------------------------------------------------------
(* Every variable that the code branches on keeps its type.                *)
THEOREM ControlTypeCorrect == Spec => []ControlTypeOK
<1>1. Inv => ControlTypeOK
  BY DEF Inv
<1>2. QED BY <1>1, AlwaysInv, PTL

(* At most one read or write of a session is in flight or queued, and a    *)
(* started, open session always has one: Session::Start on a pool thread,  *)
(* the timer and Stop never break or double the chain DoRead, HandleRequest,*)
(* DoWrite, DoRead.                                                        *)
THEOREM ChainIsSingle == Spec => []SingleChain
<1>1. Inv => SingleChain
  BY DEF Inv, SingleChain
<1>2. QED BY <1>1, AlwaysInv, PTL

(* No step moves _readBuffer while async_read_some holds its memory, or    *)
(* changes _writeBuffer while async_write reads from it.                   *)
THEOREM BuffersAreStable == Spec => BuffersStable
<1> DEFINE Stable == /\ readOp = "pending" => UNCHANGED readBuffer
                     /\ writeOp = "pending" => UNCHANGED writeBuffer
<1>1. Inv /\ [Next]_vars => [Stable]_vars
  <2> SUFFICES ASSUME Inv, Next PROVE Stable
    OBVIOUS
  <2>1. CASE Runs("read") \/ Runs("write")
    BY <2>1, HandlerHoldsChain DEF InFlight
  <2>2. CASE ~(Runs("read") \/ Runs("write"))
    BY <2>2 DEF Next, StartTimer, StartRead, Handler, HandleReadError, HandleReadPartial,
                HandleReadThrow, HandleReadRequest, HandleWriteError, HandleWriteAgain,
                HandleWriteLast, HandleTimer, Reactor, ReadComplete, ReadFail,
                WriteComplete, WriteFail, TimerExpire, Client, ClientSend, ClientLeave,
                dataVars
  <2>3. QED BY <2>1, <2>2
<1>2. QED BY <1>1, AlwaysInv, PTL DEF Spec, BuffersStable

-----------------------------------------------------------------------------
(* Sequences of whatever: those of responses and of requests.              *)
IsSeq(s) == \E S : s \in Seq(S)

LEMMA AppendIsSeq ==
    ASSUME NEW s, IsSeq(s), NEW x
    PROVE  /\ IsSeq(Append(s, x)) /\ Append(s, x) # <<>>
           /\ Len(Append(s, x)) = Len(s) + 1 /\ Append(s, x)[Len(s) + 1] = x
           /\ Len(s) \in Nat
<1>1. PICK S : s \in Seq(S)
  BY DEF IsSeq
<1>2. s \in Seq(S \cup {x})
  BY <1>1
<1>3. /\ Append(s, x) \in Seq(S \cup {x}) /\ Len(Append(s, x)) = Len(s) + 1
      /\ Append(s, x)[Len(s) + 1] = x /\ Len(s) \in Nat
  BY <1>2
<1>4. QED BY <1>3 DEF IsSeq

(* One response more on the wire.                                          *)
LEMMA ConcatOne ==
    ASSUME NEW s, IsSeq(s), NEW w, IsSeq(w), Len(w) = 1
    PROVE  /\ IsSeq(s \o w) /\ s \o w # <<>> /\ Last(s \o w) = w[1]
<1>1. PICK S : s \in Seq(S)
  BY DEF IsSeq
<1>2. PICK T : w \in Seq(T)
  BY DEF IsSeq
<1>3. PICK U : s \in Seq(U) /\ w \in Seq(U)
  <2>1. s \in Seq(S \cup T) /\ w \in Seq(S \cup T)
    BY <1>1, <1>2
  <2>2. QED BY <2>1
<1>4. /\ s \o w \in Seq(U) /\ Len(s \o w) = Len(s) + 1 /\ Len(s) \in Nat
      /\ (s \o w)[Len(s) + 1] = w[1]
  <2>1. Len(s) \in Nat /\ Len(w) = 1 /\ Len(s) + 1 \in 1 .. Len(s) + Len(w)
    BY <1>3
  <2>2. /\ s \o w \in Seq(U) /\ Len(s \o w) = Len(s) + Len(w)
        /\ \A i \in 1 .. Len(s) + Len(w) :
             (s \o w)[i] = IF i <= Len(s) THEN s[i] ELSE w[i - Len(s)]
    BY <1>3, ConcatProperties, Zenon
  <2>3. ~(Len(s) + 1 <= Len(s)) /\ (Len(s) + 1) - Len(s) = 1
    BY <2>1
  <2>4. (s \o w)[Len(s) + 1] = w[1]
    BY <2>1, <2>2, <2>3, Zenon
  <2>5. QED BY <2>1, <2>2, <2>4
<1>5. QED BY <1>4 DEF IsSeq, Last

-----------------------------------------------------------------------------
(* Queues of completions again: which there are, and the timer's.          *)
Queued(q) == {q[i] : i \in 1 .. Len(q)}

NoTimer(q) == \A i \in 1 .. Len(q) : q[i].h # "timer"
OneTimer(q) == \A i, j \in 1 .. Len(q) : q[i].h = "timer" /\ q[j].h = "timer" => i = j

LEMMA QueueIs ==
    ASSUME NEW q \in Seq(Completions)
    PROVE  /\ Queued(q) \subseteq Completions
           /\ NoIO(q) <=> \A c \in Queued(q) : ~IsIO(c)
           /\ NoTimer(q) <=> \A c \in Queued(q) : c.h # "timer"
           /\ NoTimer(q) => OneTimer(q)
<1>1. QED BY DEF Queued, NoIO, NoTimer, OneTimer

LEMMA QueueAppend ==
    ASSUME NEW q \in Seq(Completions), NEW c \in Completions
    PROVE  /\ Append(q, c) \in Seq(Completions)
           /\ Queued(Append(q, c)) = Queued(q) \cup {c}
           /\ NoTimer(q) => OneTimer(Append(q, c))
           /\ OneTimer(q) /\ c.h # "timer" => OneTimer(Append(q, c))
<1>1. /\ Append(q, c) \in Seq(Completions)
      /\ Len(Append(q, c)) = Len(q) + 1
      /\ \A i \in 1 .. Len(q) : Append(q, c)[i] = q[i]
      /\ Append(q, c)[Len(q) + 1] = c
      /\ Len(q) \in Nat
      /\ 1 .. Len(q) + 1 = (1 .. Len(q)) \cup {Len(q) + 1}
  OBVIOUS
<1>2. Queued(Append(q, c)) = Queued(q) \cup {c}
  BY <1>1 DEF Queued
<1>3. QED BY <1>1, <1>2 DEF NoTimer, OneTimer

LEMMA QueueTail ==
    ASSUME NEW q \in Seq(Completions), q # <<>>
    PROVE  /\ Tail(q) \in Seq(Completions)
           /\ Queued(q) = Queued(Tail(q)) \cup {Head(q)}
           /\ OneTimer(q) => OneTimer(Tail(q))
           /\ OneTimer(q) /\ Head(q).h = "timer" => NoTimer(Tail(q))
<1>1. /\ Tail(q) \in Seq(Completions) /\ Head(q) = q[1]
      /\ Len(q) \in Nat /\ Len(q) > 0
      /\ Len(Tail(q)) = Len(q) - 1
      /\ \A i \in 1 .. Len(Tail(q)) : Tail(q)[i] = q[i + 1]
  OBVIOUS
<1>2. Queued(q) = Queued(Tail(q)) \cup {Head(q)}
  <2>1. ASSUME NEW i \in 1 .. Len(q), i # 1 PROVE q[i] \in Queued(Tail(q))
    <3>1. i - 1 \in 1 .. Len(Tail(q)) /\ Tail(q)[i - 1] = q[i]
      BY <1>1, <2>1
    <3>2. QED BY <3>1 DEF Queued
  <2>2. ASSUME NEW i \in 1 .. Len(Tail(q)) PROVE Tail(q)[i] \in Queued(q)
    BY <1>1 DEF Queued
  <2>3. Head(q) \in Queued(q)
    BY <1>1 DEF Queued
  <2>4. Queued(q) \subseteq Queued(Tail(q)) \cup {Head(q)}
    BY <1>1, <2>1 DEF Queued
  <2>5. Queued(Tail(q)) \subseteq Queued(q)
    BY <2>2 DEF Queued
  <2>6. QED BY <2>3, <2>4, <2>5
<1>3. ASSUME OneTimer(q) PROVE OneTimer(Tail(q))
  <2>1. SUFFICES ASSUME NEW i \in 1 .. Len(Tail(q)), NEW j \in 1 .. Len(Tail(q)),
                        Tail(q)[i].h = "timer", Tail(q)[j].h = "timer"
                 PROVE  i = j
    BY DEF OneTimer
  <2>2. i + 1 \in 1 .. Len(q) /\ j + 1 \in 1 .. Len(q)
    BY <1>1
  <2>3. i + 1 = j + 1
    BY <1>1, <1>3, <2>1, <2>2 DEF OneTimer
  <2>4. QED BY <1>1, <2>3
<1>4. ASSUME OneTimer(q), Head(q).h = "timer" PROVE NoTimer(Tail(q))
  <2>1. SUFFICES ASSUME NEW i \in 1 .. Len(Tail(q)), Tail(q)[i].h = "timer" PROVE FALSE
    BY DEF NoTimer
  <2>2. i + 1 \in 1 .. Len(q) /\ 1 \in 1 .. Len(q) /\ i + 1 # 1
    BY <1>1
  <2>3. QED BY <1>1, <1>4, <2>1, <2>2 DEF OneTimer
<1>5. QED BY <1>1, <1>2, <1>3, <1>4

-----------------------------------------------------------------------------
(* The inductive invariant.  Reading, Writing: the link of the chain that  *)
(* there is, in flight or queued.                                          *)
Reading == readOp = "pending" \/ \E c \in Queued(ready) : c.h = "read"
Writing == writeOp = "pending" \/ \E c \in Queued(ready) : c.h = "write"

SeqInv == IsSeq(served) /\ IsSeq(wire) /\ IsSeq(writeBuffer)

(* A write is of one response, which announces what _keepAlive will do.    *)
WriteInv ==
    /\ Reading \/ start # "done" => writeBuffer = <<>>
    /\ writeOp = "pending" =>
         Len(writeBuffer) = 1 /\ (writeBuffer[1].announce => keepAlive)
    /\ Completion("write", "ok") \in Queued(ready) =>
         wire # <<>> /\ (Last(wire).announce => keepAlive)

(* The errors that handlers get, and why the session was closed.           *)
CauseInv ==
    /\ closed <=> stopCause # "none"
    /\ closed => ~InFlight
    /\ \A c \in Queued(ready) : IsIO(c) /\ c.ec \in {"aborted", "bad"} => closed
    /\ \A c \in Queued(ready) : IsIO(c) /\ c.ec \in {"eof", "reset"} => client # "open"
    /\ GracefulClose

(* One wait at a time, and none beside the completion of another: only      *)
(* Start begins one, before anything can have closed the session.          *)
TimeInv ==
    /\ timer = "waiting" \/ start = "timer" => NoTimer(ready)
    /\ start = "timer" => timer # "waiting" /\ ~closed
    /\ OneTimer(ready)
    /\ closed => timer # "waiting"

CloseInv == SeqInv /\ WriteInv /\ CauseInv /\ TimeInv

LEMMA InitCloseInv == Init => CloseInv
<1> SUFFICES ASSUME Init PROVE CloseInv
  OBVIOUS
<1>1. ready = <<>> /\ Queued(ready) = {} /\ NoTimer(ready) /\ OneTimer(ready)
  BY DEF Init, Queued, NoTimer, OneTimer
<1>2. IsSeq(<<>>)
  <2>1. <<>> \in Seq({})
    OBVIOUS
  <2>2. QED BY <2>1 DEF IsSeq
<1>3. SeqInv
  BY <1>2 DEF Init, SeqInv
<1>4. WriteInv /\ CauseInv
  BY <1>1 DEF Init, WriteInv, CauseInv, GracefulClose, InFlight
<1>5. TimeInv
  BY <1>1 DEF Init, TimeInv
<1>6. QED BY <1>3, <1>4, <1>5 DEF CloseInv

-----------------------------------------------------------------------------
(* What cancelling the timer, Stop and DoRead do to the queue.             *)
LEMMA CancelQueue ==
    ASSUME NEW q \in Seq(Completions), OneTimer(q), timer = "waiting" => NoTimer(q)
    PROVE  /\ AbortTimer(q) \in Seq(Completions) /\ OneTimer(AbortTimer(q))
           /\ Queued(AbortTimer(q)) \subseteq Queued(q) \cup {Completion("timer", "aborted")}
           /\ NoIO(q) => NoIO(AbortTimer(q))
           /\ timer # "waiting" => AbortTimer(q) = q
<1>1. Completion("timer", "aborted") \in Completions
  BY DEF Completion, Completions, Handlers, ErrorCodes
<1>2. QED BY <1>1, QueueAppend, AbortTimerQueue DEF AbortTimer

LEMMA StopQueue ==
    ASSUME ControlTypeOK, ~closed,
           NEW q \in Seq(Completions), OneTimer(q), timer = "waiting" => NoTimer(q),
           NEW cause, Stop(q, cause)
    PROVE  /\ closed' = TRUE /\ stopCause' = cause /\ ~InFlight' /\ timer' = "idle"
           /\ readOp' = "none" /\ writeOp' = "none"
           /\ OneTimer(ready') /\ ready' \in Seq(Completions)
           /\ \A c \in Queued(ready') : \/ c \in Queued(q)
                                        \/ /\ c.ec = "aborted"
                                           /\ c.h = "read" => readOp = "pending"
                                           /\ c.h = "write" => writeOp = "pending"
<1> DEFINE t == AbortTimer(q)
           r == AbortRead(t)
           w == AbortWrite(r)
<1>1. /\ closed' = TRUE /\ stopCause' = cause /\ timer' = "idle"
      /\ readOp' = "none" /\ writeOp' = "none" /\ ready' = w
  BY DEF Stop
<1>2. t \in Seq(Completions) /\ OneTimer(t)
      /\ Queued(t) \subseteq Queued(q) \cup {Completion("timer", "aborted")}
  BY CancelQueue
<1>3. /\ Completion("read", "aborted") \in Completions
      /\ Completion("write", "aborted") \in Completions
      /\ Completion("read", "aborted").h = "read"
      /\ Completion("write", "aborted").h = "write"
  BY DEF Completion, Completions, Handlers, ErrorCodes
<1> HIDE DEF t
<1>4. /\ r \in Seq(Completions) /\ OneTimer(r)
      /\ Queued(r) = Queued(t) \cup (IF readOp = "pending" THEN {Completion("read", "aborted")} ELSE {})
  BY <1>2, <1>3, QueueAppend DEF AbortRead
<1> HIDE DEF r
<1>5. /\ w \in Seq(Completions) /\ OneTimer(w)
      /\ Queued(w) = Queued(r) \cup (IF writeOp = "pending" THEN {Completion("write", "aborted")} ELSE {})
  BY <1>3, <1>4, QueueAppend DEF AbortWrite
<1> HIDE DEF w
<1>6. ASSUME NEW c \in Queued(w)
      PROVE  \/ c \in Queued(q)
             \/ /\ c.ec = "aborted"
                /\ c.h = "read" => readOp = "pending"
                /\ c.h = "write" => writeOp = "pending"
  BY <1>2, <1>4, <1>5 DEF Completion
<1>7. QED BY <1>1, <1>5, <1>6 DEF InFlight

LEMMA ReadQueue ==
    ASSUME NEW q \in Seq(Completions), OneTimer(q), DoRead(q)
    PROVE  /\ ready' \in Seq(Completions) /\ OneTimer(ready')
           /\ NoTimer(q) => NoTimer(ready')
           /\ Queued(ready') \subseteq Queued(q) \cup {Completion("read", "bad")}
           /\ closed => readOp' = readOp
           /\ ~closed => ready' = q
<1>1. Completion("read", "bad") \in Completions /\ Completion("read", "bad").h = "read"
  BY DEF Completion, Completions, Handlers, ErrorCodes
<1>2. CASE closed
  <2>1. ready' = Append(q, Completion("read", "bad")) /\ readOp' = readOp
    BY <1>2 DEF DoRead
  <2>2. /\ ready' \in Seq(Completions) /\ OneTimer(ready')
        /\ Queued(ready') = Queued(q) \cup {Completion("read", "bad")}
    BY <1>1, <2>1, QueueAppend
  <2>3. NoTimer(q) => NoTimer(ready')
    BY <1>1, <2>2, QueueIs
  <2>4. QED BY <1>2, <2>1, <2>2, <2>3
<1>3. CASE ~closed
  BY <1>3 DEF DoRead
<1>4. QED BY <1>2, <1>3

(* A handler of a read or a write, and the queue it leaves.                *)
LEMMA HandlerQueue ==
    ASSUME Inv, CloseInv, NEW h \in {"read", "write"}, Runs(h)
    PROVE  /\ ready \in Seq(Completions) /\ Head(ready) \in Queued(ready)
           /\ Head(ready).h = h /\ IsIO(Head(ready))
           /\ Tail(ready) \in Seq(Completions) /\ NoIO(Tail(ready)) /\ OneTimer(Tail(ready))
           /\ timer = "waiting" => NoTimer(Tail(ready))
           /\ Queued(Tail(ready)) \subseteq Queued(ready)
           /\ ~InFlight /\ start = "done" /\ ~halted
<1>1. ready \in Seq(Completions) /\ ready # <<>> /\ Head(ready).h = h
  BY DEF Inv, ControlTypeOK, Runs
<1>2. /\ Tail(ready) \in Seq(Completions) /\ NoIO(Tail(ready)) /\ ~InFlight
      /\ start = "done" /\ ~halted
  BY HandlerHoldsChain
<1>3. OneTimer(ready) /\ (timer = "waiting" => NoTimer(ready))
  BY DEF CloseInv, TimeInv
<1>4. Queued(ready) = Queued(Tail(ready)) \cup {Head(ready)} /\ OneTimer(Tail(ready))
  BY <1>1, <1>2, <1>3, QueueTail
<1>5. timer = "waiting" => NoTimer(Tail(ready))
  BY <1>1, <1>2, <1>3, <1>4, QueueIs
<1>6. QED BY <1>1, <1>2, <1>4, <1>5 DEF IsIO

-----------------------------------------------------------------------------
(* The steps.  First the ones that leave the session and its queue alone.  *)
LEMMA QuietStep ==
    ASSUME CloseInv,
           UNCHANGED <<start, wire, dataVars, closed, stopCause, opVars>>,
           client # "open" => client' # "open"
    PROVE  CloseInv'
<1>1. SeqInv' /\ WriteInv'
  BY DEF CloseInv, SeqInv, WriteInv, Reading, dataVars, opVars
<1>2. CauseInv'
  BY DEF CloseInv, CauseInv, GracefulClose, InFlight, dataVars, opVars
<1>3. TimeInv'
  BY DEF CloseInv, TimeInv, NoTimer, OneTimer, opVars
<1>4. QED BY <1>1, <1>2, <1>3 DEF CloseInv

LEMMA StartTimerStep == ASSUME Inv, CloseInv, StartTimer PROVE CloseInv'
<1>1. /\ start = "timer" /\ start' = "read" /\ timer' = "waiting"
      /\ UNCHANGED <<client, wire, dataVars, closed, stopCause, readOp, writeOp, ready>>
  BY DEF StartTimer, AsyncWait, peerVars
<1>2. NoTimer(ready) /\ OneTimer(ready) /\ ~closed
  BY <1>1 DEF CloseInv, TimeInv
<1>3. SeqInv' /\ WriteInv'
  BY <1>1 DEF CloseInv, SeqInv, WriteInv, Reading, dataVars
<1>4. CauseInv'
  BY <1>1 DEF CloseInv, CauseInv, GracefulClose, InFlight, dataVars
<1>5. TimeInv'
  BY <1>1, <1>2 DEF TimeInv, NoTimer, OneTimer
<1>6. QED BY <1>3, <1>4, <1>5 DEF CloseInv

(* DoRead, called when no link is left: by Start, by the handler of a read *)
(* that is not a whole request, and by the handler of a write.             *)
LEMMA ReadStep ==
    ASSUME Inv, CloseInv, ~InFlight, NEW q \in Seq(Completions), NoIO(q), OneTimer(q),
           Queued(q) \subseteq Queued(ready) \cup {Completion("timer", "aborted")},
           timer' = "waiting" => timer = "waiting" /\ NoTimer(q),
           DoRead(q), writeBuffer' = <<>>, start' = "done",
           UNCHANGED <<client, closed, stopCause, wire, served, writeOp>>
    PROVE  CloseInv'
<1>1. /\ ready' \in Seq(Completions) /\ OneTimer(ready') /\ (NoTimer(q) => NoTimer(ready'))
      /\ Queued(ready') \subseteq Queued(q) \cup {Completion("read", "bad")}
      /\ (closed => readOp' = readOp) /\ (~closed => ready' = q)
  BY ReadQueue
<1>2. \A c \in Queued(q) : ~IsIO(c)
  BY QueueIs
<1>3. /\ Completion("read", "bad").h = "read" /\ Completion("read", "bad").ec = "bad"
      /\ Completion("read", "bad") # Completion("write", "ok") /\ IsIO(Completion("write", "ok"))
  BY DEF Completion, IsIO
<1>4. writeOp' # "pending"
  BY DEF InFlight
<1>5. SeqInv'
  <2>1. <<>> \in Seq({})
    OBVIOUS
  <2>2. QED BY <2>1 DEF CloseInv, SeqInv, IsSeq
<1>6. WriteInv'
  BY <1>1, <1>2, <1>3, <1>4 DEF WriteInv
<1>7. CauseInv'
  <2>1. closed' => ~InFlight'
    BY <1>1 DEF InFlight
  <2>2. \A c \in Queued(ready') : IsIO(c) => closed /\ c.ec = "bad"
    <3>1. CASE closed
      BY <1>1, <1>2, <1>3, <3>1
    <3>2. CASE ~closed
      BY <1>1, <1>2, <3>2
    <3>3. QED BY <3>1, <3>2
  <2>3. QED BY <2>1, <2>2 DEF CloseInv, CauseInv, GracefulClose
<1>8. TimeInv'
  BY <1>1 DEF CloseInv, TimeInv
<1>9. QED BY <1>5, <1>6, <1>7, <1>8 DEF CloseInv

LEMMA StartReadStep == ASSUME Inv, CloseInv, StartRead PROVE CloseInv'
<1>1. /\ start = "read" /\ start' = "done" /\ DoRead(ready)
      /\ UNCHANGED <<client, wire, dataVars, closed, stopCause, writeOp, timer>>
  BY DEF StartRead, peerVars
<1>2. ~InFlight /\ NoIO(ready) /\ ready \in Seq(Completions)
  BY <1>1 DEF Inv, BeforeStart, ControlTypeOK
<1>3. writeBuffer = <<>> /\ OneTimer(ready) /\ (timer = "waiting" => NoTimer(ready))
  BY <1>1 DEF CloseInv, WriteInv, TimeInv
<1>4. QED BY <1>1, <1>2, <1>3, ReadStep DEF dataVars

LEMMA HandleReadPartialStep == ASSUME Inv, CloseInv, HandleReadPartial PROVE CloseInv'
<1> DEFINE t == Tail(ready)
           q == AbortTimer(t)
<1>1. /\ Runs("read") /\ DoRead(q) /\ timer' = "idle"
      /\ UNCHANGED <<client, start, wire, writeBuffer, served, closed, stopCause, writeOp>>
  BY DEF HandleReadPartial, TakeIn, ResetTimer, peerVars
<1>2. /\ t \in Seq(Completions) /\ NoIO(t) /\ OneTimer(t) /\ (timer = "waiting" => NoTimer(t))
      /\ Queued(t) \subseteq Queued(ready) /\ ~InFlight /\ start = "done"
      /\ Head(ready) \in Queued(ready) /\ Head(ready).h = "read"
  BY <1>1, HandlerQueue
<1>3. Reading
  BY <1>2 DEF Reading
<1>4. /\ q \in Seq(Completions) /\ OneTimer(q) /\ NoIO(q)
      /\ Queued(q) \subseteq Queued(ready) \cup {Completion("timer", "aborted")}
  BY <1>2, CancelQueue
<1> HIDE DEF q
<1>5. writeBuffer = <<>>
  BY <1>3 DEF CloseInv, WriteInv
<1>6. QED BY <1>1, <1>2, <1>4, <1>5, ReadStep

LEMMA HandleWriteAgainStep == ASSUME Inv, CloseInv, HandleWriteAgain PROVE CloseInv'
<1> DEFINE t == Tail(ready)
<1>1. /\ Runs("write") /\ DoRead(t) /\ ~closed /\ writeBuffer' = <<>>
      /\ UNCHANGED <<client, start, wire, served, closed, stopCause, writeOp, timer>>
  BY DEF HandleWriteAgain, ReadOn, RetrieveAll, peerVars
<1>2. /\ t \in Seq(Completions) /\ NoIO(t) /\ OneTimer(t) /\ (timer = "waiting" => NoTimer(t))
      /\ Queued(t) \subseteq Queued(ready) /\ ~InFlight /\ start = "done"
  BY <1>1, HandlerQueue
<1>3. QED BY <1>1, <1>2, ReadStep

(* Stop, called by the handler of a read or a write, leaves no link.       *)
LEMMA StopEndsChain ==
    ASSUME Inv, CloseInv, NEW h \in {"read", "write"}, Runs(h),
           NEW cause, Stop(Tail(ready), cause)
    PROVE  /\ closed' = TRUE /\ ~InFlight' /\ OneTimer(ready') /\ ready' \in Seq(Completions)
           /\ stopCause' = (IF closed THEN stopCause ELSE cause)
           /\ timer' = (IF closed THEN timer ELSE "idle")
           /\ \A c \in Queued(ready') : ~IsIO(c)
           /\ timer' = "waiting" => NoTimer(ready')
           /\ ~Reading' /\ ~Writing'
<1> DEFINE t == Tail(ready)
<1>1. /\ t \in Seq(Completions) /\ NoIO(t) /\ OneTimer(t) /\ (timer = "waiting" => NoTimer(t))
      /\ Queued(t) \subseteq Queued(ready) /\ ~InFlight
  BY HandlerQueue
<1>2. CASE closed
  <2>1. /\ ready' = t /\ UNCHANGED <<closed, stopCause, timer, readOp, writeOp>>
    BY <1>2 DEF Stop
  <2>2. ~Reading' /\ ~Writing'
    BY <1>1, <2>1, QueueIs DEF Reading, Writing, InFlight, IsIO
  <2>3. QED BY <1>1, <1>2, <2>1, <2>2, QueueIs DEF InFlight
<1>3. CASE ~closed
  <2>1. /\ closed' = TRUE /\ stopCause' = cause /\ ~InFlight' /\ timer' = "idle"
        /\ OneTimer(ready') /\ ready' \in Seq(Completions)
        /\ \A c \in Queued(ready') : \/ c \in Queued(t)
                                     \/ /\ c.ec = "aborted"
                                        /\ c.h = "read" => readOp = "pending"
                                        /\ c.h = "write" => writeOp = "pending"
    BY <1>1, <1>3, StopQueue DEF Inv
  <2>2. \A c \in Queued(t) : ~IsIO(c)
    BY <1>1, QueueIs
  <2>3. \A c \in Queued(ready') : ~IsIO(c)
    BY <1>1, <2>1, <2>2 DEF InFlight, IsIO
  <2>4. ~Reading' /\ ~Writing'
    BY <2>1, <2>3 DEF Reading, Writing, InFlight, IsIO
  <2>5. QED BY <1>3, <2>1, <2>3, <2>4
<1>4. QED BY <1>2, <1>3

LEMMA StopStep ==
    ASSUME Inv, CloseInv, NEW h \in {"read", "write"}, Runs(h),
           NEW cause \in {"read", "write", "done"}, Stop(Tail(ready), cause),
           ~closed /\ cause = "done" => wire # <<>> /\ ~Last(wire).announce,
           ~closed /\ cause # "done" => client # "open",
           writeBuffer' \in {writeBuffer, <<>>},
           UNCHANGED <<client, start, wire, served, keepAlive>>
    PROVE  CloseInv'
<1>1. /\ Queued(Tail(ready)) \subseteq Queued(ready) /\ ~InFlight /\ start = "done"
  BY HandlerQueue
<1>2. /\ closed' = TRUE /\ ~InFlight' /\ OneTimer(ready') /\ ready' \in Seq(Completions)
      /\ stopCause' = (IF closed THEN stopCause ELSE cause)
      /\ timer' = (IF closed THEN timer ELSE "idle")
      /\ \A c \in Queued(ready') : ~IsIO(c)
      /\ timer' = "waiting" => NoTimer(ready')
      /\ ~Reading' /\ ~Writing'
  BY StopEndsChain
<1>3. SeqInv'
  <2>1. <<>> \in Seq({})
    OBVIOUS
  <2>2. QED BY <2>1 DEF CloseInv, SeqInv, IsSeq
<1>4. WriteInv'
  <2>1. IsIO(Completion("write", "ok"))
    BY DEF IsIO, Completion
  <2>2. QED BY <1>1, <1>2, <2>1 DEF WriteInv, InFlight
<1>5. CauseInv'
  BY <1>2 DEF CloseInv, CauseInv, GracefulClose
<1>6. TimeInv'
  BY <1>1, <1>2 DEF CloseInv, TimeInv
<1>7. QED BY <1>3, <1>4, <1>5, <1>6 DEF CloseInv

LEMMA HandlerStops ==
    ASSUME Inv, CloseInv, HandleReadError \/ HandleWriteError \/ HandleWriteLast
    PROVE  CloseInv'
<1>1. ASSUME NEW h \in {"read", "write"}, Runs(h), Head(ready).ec # "ok", ~closed
      PROVE  client # "open"
  <2>1. Head(ready) \in Completions /\ Head(ready) \in Queued(ready) /\ IsIO(Head(ready))
    BY <1>1, HandlerQueue, QueueIs
  <2>2. Head(ready).ec \in {"aborted", "bad", "eof", "reset"}
    BY <1>1, <2>1 DEF Completions, ErrorCodes
  <2>3. /\ Head(ready).ec \in {"aborted", "bad"} => closed
        /\ Head(ready).ec \in {"eof", "reset"} => client # "open"
    BY <2>1 DEF CloseInv, CauseInv
  <2>4. QED BY <1>1, <2>2, <2>3
<1>2. CASE HandleReadError
  BY <1>1, <1>2, StopStep DEF HandleReadError, peerVars, dataVars
<1>3. CASE HandleWriteError
  BY <1>1, <1>3, StopStep DEF HandleWriteError, peerVars, dataVars
<1>4. CASE HandleWriteLast
  <2>1. Runs("write") /\ Head(ready).ec = "ok" /\ ~(keepAlive /\ ~closed)
    BY <1>4 DEF HandleWriteLast
  <2>2. Head(ready) = Completion("write", "ok") /\ Head(ready) \in Queued(ready)
    <3>1. Head(ready) \in Completions /\ Head(ready) \in Queued(ready) /\ Head(ready).h = "write"
      BY <2>1, HandlerQueue, QueueIs
    <3>2. QED BY <2>1, <3>1 DEF Completions, Completion
  <2>3. wire # <<>> /\ (Last(wire).announce => keepAlive)
    BY <2>2 DEF CloseInv, WriteInv
  <2>4. QED BY <1>4, <2>1, <2>3, StopStep DEF HandleWriteLast, RetrieveAll, peerVars
<1>5. QED BY <1>2, <1>3, <1>4

(* The queue that the handler of a read leaves when it has cancelled the   *)
(* timer: it holds no link.                                                *)
LEMMA CancelledQueue ==
    ASSUME Inv, CloseInv, Runs("read")
    PROVE  LET q == AbortTimer(Tail(ready)) IN
           /\ q \in Seq(Completions) /\ OneTimer(q)
           /\ \A c \in Queued(q) : ~IsIO(c)
           /\ Reading /\ writeBuffer = <<>> /\ ~InFlight /\ start = "done"
<1> DEFINE t == Tail(ready)
           q == AbortTimer(t)
<1>1. /\ t \in Seq(Completions) /\ NoIO(t) /\ OneTimer(t) /\ (timer = "waiting" => NoTimer(t))
      /\ Queued(t) \subseteq Queued(ready) /\ ~InFlight /\ start = "done"
      /\ Head(ready) \in Queued(ready) /\ Head(ready).h = "read"
  BY HandlerQueue
<1>2. Reading /\ writeBuffer = <<>>
  BY <1>1 DEF Reading, CloseInv, WriteInv
<1>3. /\ q \in Seq(Completions) /\ OneTimer(q) /\ NoIO(q)
  BY <1>1, CancelQueue
<1> HIDE DEF q
<1>4. \A c \in Queued(q) : ~IsIO(c)
  BY <1>3, QueueIs
<1>5. QED BY <1>1, <1>2, <1>3, <1>4 DEF q

(* An exception leaves no link; the request may have been taken in.        *)
LEMMA ThrowStep ==
    ASSUME Inv, CloseInv, Runs("read"), NEW x, served' \in {served, Append(served, x)},
           ready' = AbortTimer(Tail(ready)), timer' = "idle",
           UNCHANGED <<client, start, wire, writeBuffer, closed, stopCause, readOp, writeOp>>
    PROVE  CloseInv'
<1>1. /\ ready' \in Seq(Completions) /\ OneTimer(ready')
      /\ \A c \in Queued(ready') : ~IsIO(c)
      /\ Reading /\ writeBuffer = <<>> /\ ~InFlight /\ start = "done"
  BY CancelledQueue
<1>2. ~Reading' /\ ~InFlight'
  BY <1>1 DEF Reading, InFlight, IsIO
<1>3. IsSeq(served')
  BY AppendIsSeq DEF CloseInv, SeqInv
<1>4. SeqInv'
  BY <1>3 DEF CloseInv, SeqInv
<1>5. WriteInv'
  <2>1. IsIO(Completion("write", "ok"))
    BY DEF IsIO, Completion
  <2>2. QED BY <1>1, <1>2, <2>1 DEF WriteInv, InFlight
<1>6. CauseInv'
  BY <1>1, <1>2 DEF CloseInv, CauseInv, GracefulClose
<1>7. TimeInv'
  BY <1>1 DEF CloseInv, TimeInv
<1>8. QED BY <1>4, <1>5, <1>6, <1>7 DEF CloseInv

(* What is announced is what was asked for, or the connection's end.       *)
LEMMA AnnouncesKeepAlive ==
    ASSUME NEW req, NEW a \in Answers(req), a.announce PROVE KeepAliveAsked(req)
<1>1. CASE req.path \in ApiPaths
  BY <1>1 DEF Answers, Answer, Throws
<1>2. CASE req.path \notin ApiPaths
  <2>1. a = StaticAnswer(req)
    BY <1>2 DEF Answers
  <2>2. Kind(req.path) \in {"missing", "regular", "unreadable", "outside", "directory"}
    BY FileKindAssumption DEF Kind
  <2>3. QED BY <2>1, <2>2 DEF StaticAnswer, Answer, Throws
<1>3. QED BY <1>1, <1>2

(* A request and its response: the link is now a write, of that response.  *)
LEMMA RespondStep ==
    ASSUME Inv, CloseInv, Runs("read"), NEW x, served' = Append(served, x),
           NEW r, writeBuffer' = Append(writeBuffer, r), r.announce => keepAlive',
           DoWrite(AbortTimer(Tail(ready))), timer' = "idle",
           UNCHANGED <<client, start, wire, closed, stopCause>>
    PROVE  CloseInv'
<1> DEFINE q == AbortTimer(Tail(ready))
<1>1. /\ q \in Seq(Completions) /\ OneTimer(q)
      /\ \A c \in Queued(q) : ~IsIO(c)
      /\ Reading /\ writeBuffer = <<>> /\ ~InFlight /\ start = "done"
  BY CancelledQueue
<1>2. DoWrite(q)
  OBVIOUS
<1> HIDE DEF q
<1>3. /\ Completion("write", "bad") \in Completions /\ Completion("write", "bad").h = "write"
      /\ Completion("write", "bad").ec = "bad"
      /\ Completion("write", "bad") # Completion("write", "ok")
      /\ IsIO(Completion("write", "ok"))
  BY DEF Completion, Completions, Handlers, ErrorCodes, IsIO
<1>4. /\ ready' \in Seq(Completions) /\ OneTimer(ready') /\ readOp' = readOp
      /\ Queued(ready') \subseteq Queued(q) \cup {Completion("write", "bad")}
      /\ closed => writeOp' = writeOp
      /\ ~closed => ready' = q
  <2>1. CASE closed
    <3>1. ready' = Append(q, Completion("write", "bad")) /\ readOp' = readOp /\ writeOp' = writeOp
      BY <1>2, <2>1 DEF DoWrite
    <3>2. /\ ready' \in Seq(Completions) /\ OneTimer(ready')
          /\ Queued(ready') = Queued(q) \cup {Completion("write", "bad")}
      BY <1>1, <1>3, <3>1, QueueAppend
    <3>3. QED BY <2>1, <3>1, <3>2
  <2>2. CASE ~closed
    BY <1>1, <1>2, <2>2 DEF DoWrite
  <2>3. QED BY <2>1, <2>2
<1>5. ~Reading'
  BY <1>1, <1>3, <1>4 DEF Reading, InFlight, IsIO
<1>6. /\ IsSeq(served') /\ IsSeq(writeBuffer') /\ Len(writeBuffer') = 1 /\ writeBuffer'[1] = r
  <2>1. IsSeq(served) /\ IsSeq(writeBuffer) /\ Len(<<>>) = 0
    BY DEF CloseInv, SeqInv
  <2>2. IsSeq(Append(served, x))
    BY <2>1, AppendIsSeq
  <2>3. /\ IsSeq(Append(writeBuffer, r)) /\ Len(Append(writeBuffer, r)) = Len(writeBuffer) + 1
        /\ Append(writeBuffer, r)[Len(writeBuffer) + 1] = r
    BY <2>1, AppendIsSeq
  <2>4. QED BY <1>1, <2>1, <2>2, <2>3
<1>7. SeqInv'
  BY <1>6 DEF CloseInv, SeqInv
<1>8. WriteInv'
  BY <1>1, <1>3, <1>4, <1>5, <1>6 DEF WriteInv
<1>9. CauseInv'
  <2>1. closed' => ~InFlight'
    BY <1>1, <1>4 DEF InFlight
  <2>2. \A c \in Queued(ready') : IsIO(c) => closed /\ c.ec = "bad"
    <3>1. CASE closed
      BY <1>1, <1>3, <1>4, <3>1
    <3>2. CASE ~closed
      BY <1>1, <1>4, <3>2
    <3>3. QED BY <3>1, <3>2
  <2>3. QED BY <2>1, <2>2 DEF CloseInv, CauseInv, GracefulClose
<1>10. TimeInv'
  BY <1>1, <1>4 DEF CloseInv, TimeInv
<1>11. QED BY <1>7, <1>8, <1>9, <1>10 DEF CloseInv

LEMMA HandlerReads ==
    ASSUME Inv, CloseInv, HandleReadThrow \/ HandleReadRequest PROVE CloseInv'
<1>1. CASE HandleReadThrow
  BY <1>1, ThrowStep DEF HandleReadThrow, TakeIn, ResetTimer, Throw, peerVars
<1>2. CASE HandleReadRequest
  <2>1. /\ Runs("read") /\ timer' = "idle"
        /\ served' = Append(served, Received(Parsed.req))
        /\ keepAlive' = KeepAliveAsked(Parsed.req)
        /\ UNCHANGED <<client, start, wire, closed, stopCause>>
    BY <1>2 DEF HandleReadRequest, TakeIn, ResetTimer, peerVars
  <2>2. PICK a \in Answers(Parsed.req) : Respond(a, AbortTimer(Tail(ready)))
    BY <1>2 DEF HandleReadRequest
  <2>3. CASE a.throws
    <3>1. /\ ready' = AbortTimer(Tail(ready))
          /\ UNCHANGED <<writeBuffer, readOp, writeOp>>
      BY <2>2, <2>3 DEF Respond, Throw
    <3>2. QED BY <2>1, <3>1, ThrowStep
  <2>4. CASE ~a.throws
    <3> DEFINE r == [to |-> Len(served'), status |-> a.status, announce |-> a.announce]
    <3>1. writeBuffer' = Append(writeBuffer, r) /\ DoWrite(AbortTimer(Tail(ready)))
      BY <2>2, <2>4 DEF Respond
    <3>2. r.announce => keepAlive'
      BY <2>1, AnnouncesKeepAlive
    <3> HIDE DEF r
    <3>3. QED BY <2>1, <3>1, <3>2, RespondStep
  <2>5. QED BY <2>3, <2>4
<1>3. QED BY <1>1, <1>2

(* The timer's handler: a cancelled wait, a session that is closed         *)
(* already, or the close that cuts off the read or write in flight.        *)
LEMMA HandleTimerStep == ASSUME Inv, CloseInv, HandleTimer PROVE CloseInv'
<1> DEFINE t == Tail(ready)
<1>1. /\ ready \in Seq(Completions) /\ ready # <<>> /\ Head(ready).h = "timer"
      /\ UNCHANGED <<client, start, wire, writeBuffer, served, keepAlive>>
  BY DEF HandleTimer, Runs, Inv, ControlTypeOK, peerVars, dataVars
<1>2. OneTimer(ready)
  BY DEF CloseInv, TimeInv
<1>3. /\ t \in Seq(Completions) /\ OneTimer(t) /\ NoTimer(t)
      /\ Queued(ready) = Queued(t) \cup {Head(ready)}
  BY <1>1, <1>2, QueueTail
<1>4. /\ Head(ready) \in Completions /\ Head(ready) \in Queued(ready)
      /\ ~IsIO(Head(ready))
  BY <1>1, <1>3, QueueIs DEF IsIO
<1>5. timer # "waiting" /\ start # "timer"
  <2>1. NoTimer(ready) => Head(ready).h # "timer"
    BY <1>1, <1>4, QueueIs
  <2>2. QED BY <1>1, <2>1 DEF CloseInv, TimeInv
<1>6. \A c \in Queued(ready) : IsIO(c) => c \in Queued(t)
  BY <1>3, <1>4
<1>7. CASE ready' = t /\ UNCHANGED <<closed, stopCause, timer, readOp, writeOp>>
  <2>1. Reading' <=> Reading
    BY <1>3, <1>4, <1>7 DEF Reading, IsIO
  <2>2. SeqInv'
    BY <1>1 DEF CloseInv, SeqInv
  <2>3. WriteInv'
    BY <1>1, <1>3, <1>7, <2>1 DEF CloseInv, WriteInv
  <2>4. CauseInv'
    BY <1>1, <1>3, <1>7 DEF CloseInv, CauseInv, GracefulClose, InFlight
  <2>5. TimeInv'
    BY <1>1, <1>3, <1>5, <1>7 DEF CloseInv, TimeInv
  <2>6. QED BY <2>2, <2>3, <2>4, <2>5 DEF CloseInv
<1>8. CASE Head(ready).ec = "ok" /\ ~closed
  <2>1. Stop(t, "timeout")
    BY <1>8 DEF HandleTimer
  <2>2. /\ closed' = TRUE /\ stopCause' = "timeout" /\ ~InFlight' /\ timer' = "idle"
        /\ readOp' = "none" /\ writeOp' = "none"
        /\ OneTimer(ready') /\ ready' \in Seq(Completions)
        /\ \A c \in Queued(ready') : \/ c \in Queued(t)
                                     \/ /\ c.ec = "aborted"
                                        /\ c.h = "read" => readOp = "pending"
                                        /\ c.h = "write" => writeOp = "pending"
    BY <1>3, <1>5, <1>8, <2>1, StopQueue DEF Inv
  <2>3. Reading' => Reading
    BY <1>3, <2>2 DEF Reading
  <2>4. Completion("write", "ok") \in Queued(ready') => Completion("write", "ok") \in Queued(ready)
    <3>1. Completion("write", "ok").ec = "ok"
      BY DEF Completion
    <3>2. QED BY <1>3, <2>2, <3>1
  <2>5. SeqInv'
    BY <1>1 DEF CloseInv, SeqInv
  <2>6. WriteInv'
    BY <1>1, <2>2, <2>3, <2>4 DEF CloseInv, WriteInv
  <2>7. CauseInv'
    <3>1. \A c \in Queued(ready') : IsIO(c) /\ c.ec \in {"eof", "reset"} => client' # "open"
      BY <1>1, <1>3, <2>2 DEF CloseInv, CauseInv
    <3>2. QED BY <2>2, <3>1 DEF CauseInv, GracefulClose
  <2>8. TimeInv'
    BY <1>1, <1>5, <2>2 DEF TimeInv
  <2>9. QED BY <2>5, <2>6, <2>7, <2>8 DEF CloseInv
<1>9. QED BY <1>7, <1>8 DEF HandleTimer, Stop

(* A read that completes or fails: the link moves into the queue.          *)
LEMMA ReadEnds ==
    ASSUME Inv, CloseInv, readOp = "pending",
           NEW ec \in {"ok", "eof", "reset"}, ec # "ok" => client # "open",
           readOp' = "none", ready' = Append(ready, Completion("read", ec)),
           UNCHANGED <<client, start, wire, writeBuffer, served, keepAlive, closed, stopCause,
                       writeOp, timer>>
    PROVE  CloseInv'
<1> DEFINE c == Completion("read", ec)
<1>1. /\ c \in Completions /\ c.h = "read" /\ c.ec = ec
      /\ c # Completion("write", "ok")
  BY DEF Completion, Completions, Handlers, ErrorCodes
<1>2. ready \in Seq(Completions) /\ OneTimer(ready) /\ ready' = Append(ready, c)
  BY DEF Inv, ControlTypeOK, CloseInv, TimeInv
<1> HIDE DEF c
<1>3. /\ ready' \in Seq(Completions) /\ OneTimer(ready') /\ Queued(ready') = Queued(ready) \cup {c}
  BY <1>1, <1>2, QueueAppend
<1>4. NoTimer(ready) => NoTimer(ready')
  BY <1>1, <1>2, <1>3, QueueIs
<1>5. Reading /\ Reading'
  BY <1>1, <1>3 DEF Reading
<1>6. SeqInv' /\ WriteInv'
  BY <1>1, <1>3, <1>5 DEF CloseInv, SeqInv, WriteInv
<1>7. CauseInv'
  <2>1. ~closed
    BY DEF CloseInv, CauseInv, InFlight
  <2>2. QED BY <1>1, <1>3, <2>1 DEF CloseInv, CauseInv, GracefulClose
<1>8. TimeInv'
  BY <1>3, <1>4 DEF CloseInv, TimeInv
<1>9. QED BY <1>6, <1>7, <1>8 DEF CloseInv

LEMMA WriteEnds ==
    ASSUME Inv, CloseInv, WriteComplete \/ WriteFail PROVE CloseInv'
<1>1. PICK ec \in {"ok", "reset"} :
           /\ writeOp = "pending" /\ writeOp' = "none"
           /\ ready' = Append(ready, Completion("write", ec))
           /\ ec = "ok" => wire' = wire \o writeBuffer
           /\ ec # "ok" => client # "open" /\ wire' = wire
           /\ UNCHANGED <<client, start, writeBuffer, served, keepAlive, closed, stopCause,
                          readOp, timer>>
  BY DEF WriteComplete, WriteFail, peerVars, dataVars
<1> DEFINE c == Completion("write", ec)
<1>2. /\ c \in Completions /\ c.h = "write" /\ c.ec = ec
      /\ ec # "ok" => c # Completion("write", "ok")
  BY DEF Completion, Completions, Handlers, ErrorCodes
<1>3. /\ ready \in Seq(Completions) /\ OneTimer(ready) /\ ready' = Append(ready, c)
      /\ readOp # "pending" /\ NoIO(ready) /\ start = "done"
  BY <1>1 DEF Inv, ControlTypeOK, CloseInv, TimeInv, OneChain, InFlight, BeforeStart
<1> HIDE DEF c
<1>4. /\ ready' \in Seq(Completions) /\ OneTimer(ready') /\ Queued(ready') = Queued(ready) \cup {c}
  BY <1>2, <1>3, QueueAppend
<1>5. (\A d \in Queued(ready) : ~IsIO(d)) /\ (NoTimer(ready) => NoTimer(ready'))
  <2>1. NoTimer(ready) => NoTimer(ready')
    BY <1>2, <1>3, <1>4, QueueIs
  <2>2. QED BY <1>3, <2>1, QueueIs
<1>6. ~Reading' /\ ~closed
  BY <1>1, <1>2, <1>3, <1>4, <1>5 DEF Reading, IsIO, CloseInv, CauseInv, InFlight
<1>7. stopCause = "none"
  BY <1>6 DEF CloseInv, CauseInv
<1>8. /\ IsSeq(wire) /\ IsSeq(writeBuffer) /\ Len(writeBuffer) = 1
      /\ writeBuffer[1].announce => keepAlive
  BY <1>1 DEF CloseInv, SeqInv, WriteInv
<1>9. IsSeq(wire') /\ (ec = "ok" => wire' # <<>> /\ Last(wire') = writeBuffer[1])
  BY <1>1, <1>8, ConcatOne
<1>10. SeqInv'
  BY <1>1, <1>9 DEF CloseInv, SeqInv
<1>11. WriteInv'
  <2>1. IsIO(Completion("write", "ok"))
    BY DEF IsIO, Completion
  <2>2. Completion("write", "ok") \in Queued(ready') => ec = "ok"
    BY <1>2, <1>4, <1>5, <2>1
  <2>3. QED BY <1>1, <1>3, <1>6, <1>8, <1>9, <2>2 DEF WriteInv
<1>12. CauseInv'
  <2>1. \A d \in Queued(ready') : IsIO(d) => d.ec = ec
    BY <1>2, <1>4, <1>5
  <2>2. QED BY <1>1, <1>6, <1>7, <2>1 DEF CauseInv, GracefulClose
<1>13. TimeInv'
  BY <1>1, <1>3, <1>4, <1>5 DEF CloseInv, TimeInv
<1>14. QED BY <1>10, <1>11, <1>12, <1>13 DEF CloseInv

(* The wait expires: its completion is the only one of the timer's.        *)
LEMMA TimerExpireStep == ASSUME Inv, CloseInv, TimerExpire PROVE CloseInv'
<1> DEFINE c == Completion("timer", "ok")
<1>1. /\ timer = "waiting" /\ timer' = "idle" /\ ready' = Append(ready, c)
      /\ UNCHANGED <<client, start, wire, writeBuffer, served, keepAlive, closed, stopCause,
                     readOp, writeOp>>
  BY DEF TimerExpire, peerVars, dataVars
<1>2. c \in Completions /\ c.h = "timer" /\ ~IsIO(c) /\ c # Completion("write", "ok")
  BY DEF Completion, Completions, Handlers, ErrorCodes, IsIO
<1> HIDE DEF c
<1>3. ready \in Seq(Completions) /\ NoTimer(ready) /\ start # "timer" /\ ~closed
  BY <1>1 DEF Inv, ControlTypeOK, CloseInv, TimeInv
<1>4. OneTimer(ready') /\ Queued(ready') = Queued(ready) \cup {c}
  BY <1>1, <1>2, <1>3, QueueAppend
<1>5. Reading' <=> Reading
  BY <1>1, <1>2, <1>4 DEF Reading, IsIO
<1>6. SeqInv' /\ WriteInv'
  BY <1>1, <1>2, <1>4, <1>5 DEF CloseInv, SeqInv, WriteInv
<1>7. CauseInv'
  BY <1>1, <1>2, <1>4 DEF CloseInv, CauseInv, GracefulClose, InFlight
<1>8. TimeInv'
  BY <1>1, <1>3, <1>4 DEF TimeInv
<1>9. QED BY <1>6, <1>7, <1>8 DEF CloseInv

LEMMA StepCloseInv == Inv /\ CloseInv /\ [Next]_vars => CloseInv'
<1> SUFFICES ASSUME Inv, CloseInv, [Next]_vars PROVE CloseInv'
  OBVIOUS
<1>1. CASE StartTimer \/ StartRead
  BY <1>1, StartTimerStep, StartReadStep
<1>2. CASE Handler
  BY <1>2, HandlerStops, HandleReadPartialStep, HandlerReads, HandleWriteAgainStep,
     HandleTimerStep DEF Handler
<1>3. CASE ReadComplete
  BY <1>3, ReadEnds DEF ReadComplete, peerVars
<1>4. ASSUME NEW ec \in {"eof", "reset"}, ReadFail(ec) PROVE CloseInv'
  BY <1>4, ReadEnds DEF ReadFail, peerVars, dataVars
<1>5. CASE WriteComplete \/ WriteFail \/ TimerExpire
  BY <1>5, WriteEnds, TimerExpireStep
<1>6. CASE Client
  <2>1. UNCHANGED <<start, wire, dataVars, closed, stopCause, opVars>>
        /\ (client # "open" => client' # "open")
    BY <1>6 DEF Client, ClientSend, ClientLeave
  <2>2. QED BY <2>1, QuietStep
<1>7. CASE UNCHANGED vars
  BY <1>7, QuietStep DEF vars, peerVars
<1>8. QED BY <1>1, <1>2, <1>3, <1>4, <1>5, <1>6, <1>7 DEF Next, Reactor

LEMMA AlwaysCloseInv == Spec => []CloseInv
<1>1. QED BY InitCloseInv, StepCloseInv, AlwaysInv, PTL DEF Spec

-----------------------------------------------------------------------------
(* A session that closes after an answer has announced it in that answer,  *)
(* and a read or a write only fails once the client has left: so no client *)
(* that stays and was told "keep-alive" is cut off by the write handler.   *)
THEOREM CloseIsGraceful == Spec => []GracefulClose
<1>1. CloseInv => GracefulClose
  BY DEF CloseInv, CauseInv
<1>2. QED BY <1>1, AlwaysCloseInv, PTL

(* Nothing outlives Stop: whoever closes the session, and whoever goes on  *)
(* afterwards (Start with its DoRead, a queued read that answers one more  *)
(* request with DoWrite), no operation is in flight on the closed socket   *)
(* and no wait on the timer.                                               *)
THEOREM NothingOutlivesStop == Spec => []ClosedIsQuiet
<1>1. Inv /\ CloseInv => ClosedIsQuiet
  BY DEF Inv, ControlTypeOK, CloseInv, CauseInv, TimeInv, InFlight, ClosedIsQuiet
<1>2. QED BY <1>1, AlwaysInv, AlwaysCloseInv, PTL
=============================================================================
