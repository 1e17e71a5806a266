-------------------------- MODULE WebServer_proof --------------------------
(* Theorems about WebServer, for any number of connections and failures.   *)
EXTENDS WebServer, FiniteSetTheorems, TLAPS

AfterStart == {"accept", "run", "again", "reaccept", "stopPool", "unwind"}

(* What the two callers of Stop may rely on.  Before Start nobody gets past *)
(* the exchange; while the server runs nobody is past it; afterwards, and   *)
(* until the destructor, only the signal handler can have been.             *)
StopInv ==
    /\ (signalWait = "run") = (stop["signal"] # "none")
    /\ stop["main"] # "none" => main \in {"destruct", "exited"}
    /\ main = "exited" => stop["main"] = "done"
    /\ running => main \notin {"arm", "start"} /\ \A a \in Stoppers : ~Stopping(a)
    /\ main \in {"arm", "start"} => ~Stopping("signal") /\ ~stopped /\ ~threw
    /\ ~(Stopping("main") /\ Stopping("signal"))
    /\ main = "arm" => signalWait = "none"

(* The thread pool is there until a Stop that got past the exchange resets it. *)
ThreadPoolInv ==
    main # "exited" =>
      /\ main \in {"arm", "start"} => threadPool
      /\ running => threadPool
      /\ \A a \in Stoppers : Stopping(a) => threadPool

(* How _running got false after Start: the signal's Stop, which stops the   *)
(* context before it is done.                                               *)
EndInv ==
    /\ stop["signal"] = "threadPool" => stopped
    /\ main \in AfterStart /\ ~running => stop["signal"] # "none"
    /\ main \in AfterStart /\ ~running /\ stop["signal"] = "done" => stopped
    /\ main \in AfterStart /\ stopped => ~running
    /\ main \in {"stopPool", "unwind", "destruct", "exited"} /\ ~threw
         => signalWait = "run" /\ ~running
    /\ main \in {"unwind", "destruct", "exited"} /\ ~threw
         => stop["signal"] = "done" /\ stopped /\ ~poolRuns

IInv == ControlTypeOK /\ AcceptLoop /\ StopInv /\ ThreadPoolInv /\ EndInv

-----------------------------------------------------------------------------
LEMMA InitIInv == Init => IInv
  BY ServerAssumption
  DEF Init, IInv, ControlTypeOK, AcceptLoop, StopInv, ThreadPoolInv, EndInv, Stoppers,
      Stopping, AfterStart

USE DEF Stoppers

(* The types, one step per action that changes a function or the accept.   *)
LEMMA TypeStep == ControlTypeOK /\ AcceptLoop /\ [Next]_vars => ControlTypeOK'
  <1> SUFFICES ASSUME ControlTypeOK, AcceptLoop, [Next]_vars PROVE ControlTypeOK'
    OBVIOUS
  <1> USE ServerAssumption DEF ControlTypeOK, acceptVars, connVars, stopVars, signalVars
  <1>1. CASE MainThread
    <2>1. CASE ArmSignals  BY <2>1 DEF ArmSignals
    <2>2. CASE Start  BY <2>2 DEF Start
    <2>3. CASE StartAccept  BY <2>3 DEF StartAccept, AcceptLoop
    <2>4. CASE AcceptAgain  BY <2>4 DEF AcceptAgain
    <2>5. CASE AcceptHandlerPosts  BY <2>5 DEF AcceptHandlerPosts, Runs
    <2>6. CASE AcceptHandlerThrows  BY <2>6 DEF AcceptHandlerThrows, Runs
    <2>7. CASE AcceptHandlerFailed  BY <2>7 DEF AcceptHandlerFailed, Runs
    <2>8. CASE RunReturns  BY <2>8 DEF RunReturns
    <2>9. CASE StopPool
      <3>1. poolRuns' \in BOOLEAN
        BY <2>9, Zenon DEF StopPool
      <3>2. /\ main' = "unwind"
            /\ UNCHANGED <<acceptVars, connVars, stopVars, raised, signalWait, threw>>
        BY <2>9, Zenon DEF StopPool
      <3>3. QED BY <3>1, <3>2
    <2>10. CASE Unwind  BY <2>10 DEF Unwind
    <2>11. CASE DestructorStops
      <3>1. running' \in BOOLEAN
        BY <2>11, Zenon DEF DestructorStops, EnterStop
      <3>2. /\ stop' = [stop EXCEPT !["main"] = IF running THEN "stats" ELSE "done"]
            /\ UNCHANGED <<main, acceptVars, connVars, acceptorOpen, stopped, threadPool,
                           signalVars, threw>>
        BY <2>11, Zenon DEF DestructorStops, EnterStop
      <3>3. QED BY <3>1, <3>2
    <2>12. CASE Destroy  BY <2>12 DEF Destroy
    <2> QED
      BY <1>1, <2>1, <2>2, <2>3, <2>4, <2>5, <2>6, <2>7, <2>8, <2>9, <2>10, <2>11, <2>12 DEF MainThread
  <1>2. CASE Environment
    <2>1. CASE Raise  BY <2>1 DEF Raise
    <2>2. CASE AcceptFail  BY <2>2 DEF AcceptFail, Runs
    <2>3. ASSUME NEW c \in Conns, Connect(c) PROVE ControlTypeOK'
      BY <2>3 DEF Connect
    <2>4. ASSUME NEW c \in Conns, PeerReset(c) PROVE ControlTypeOK'
      BY <2>4 DEF PeerReset
    <2>5. ASSUME NEW c \in Conns, SessionHandler(c) PROVE ControlTypeOK'
      <3>1. conn' \in [Conns -> {"away", "backlog", "accepted", "posted", "open", "closed",
                                 "dropped", "refused"}]
        BY <2>5 DEF SessionHandler
      <3>2. main' \in {main, "unwind"} /\ threw' \in BOOLEAN
        BY <2>5 DEF SessionHandler
      <3> QED
        BY <2>5, <3>1, <3>2 DEF SessionHandler
    <2> QED
      BY <1>2, <2>1, <2>2, <2>3, <2>4, <2>5 DEF Environment
  <1>3. CASE DeliverSignal  BY <1>3 DEF DeliverSignal
  <1>4. CASE SignalStops
    <2>1. running' \in BOOLEAN
      BY <1>4, Zenon DEF SignalStops, EnterStop
    <2>2. /\ stop' = [stop EXCEPT !["signal"] = IF running THEN "stats" ELSE "done"]
          /\ signalWait' = "run"
          /\ UNCHANGED <<main, acceptVars, connVars, acceptorOpen, stopped, threadPool,
                         raised, poolRuns, threw>>
      BY <1>4, Zenon DEF SignalStops, EnterStop
    <2>3. QED BY <2>1, <2>2
  <1>5. ASSUME NEW a \in Stoppers, StopBody(a) PROVE ControlTypeOK'
    <2>1. CASE PrintStats(a)  BY <2>1 DEF PrintStats, Step
    <2>2. CASE CloseAcceptor(a)
      <3>1. conn' \in [Conns -> {"away", "backlog", "accepted", "posted", "open", "closed",
                                 "dropped", "refused"}]
        BY <2>2 DEF CloseAcceptor
      <3>2. stop' \in [Stoppers -> {"none", "stats", "acceptor", "context", "threadPool",
                                   "done"}]
        BY <2>2 DEF CloseAcceptor, Step
      <3>3. acceptOp' \in {"none", "ok", "failed"} /\ (acceptOp' = "ok") = (acceptOp = "ok")
        BY <2>2 DEF CloseAcceptor
      <3>4. acceptorOpen' \in BOOLEAN
        BY <2>2 DEF CloseAcceptor
      <3> QED
        BY <2>2, <3>1, <3>2, <3>3, <3>4 DEF CloseAcceptor
    <2>3. CASE StopContext(a)  BY <2>3 DEF StopContext, Step
    <2>4. CASE ResetThreadPool(a)
      <3>1. stop' \in [Stoppers -> {"none", "stats", "acceptor", "context", "threadPool",
                                   "done"}]
        BY <2>4 DEF ResetThreadPool, Step
      <3>2. threadPool' \in BOOLEAN
        BY <2>4 DEF ResetThreadPool
      <3> QED
        BY <2>4, <3>1, <3>2 DEF ResetThreadPool
    <2> QED
      BY <1>5, <2>1, <2>2, <2>3, <2>4 DEF StopBody
  <1>6. ASSUME NEW c \in Conns, AcceptComplete(c) PROVE ControlTypeOK'
    BY <1>6 DEF AcceptComplete, Runs
  <1>7. ASSUME NEW c \in Conns, HandOver(c) PROVE ControlTypeOK'
    BY <1>7 DEF HandOver
  <1>8. CASE UNCHANGED vars  BY <1>8 DEF vars
  <1> QED
    BY <1>1, <1>2, <1>3, <1>4, <1>5, <1>6, <1>7, <1>8 DEF Next

-----------------------------------------------------------------------------
(* The rest of the invariant, in the same cases.  No action but those of   *)
(* Stop changes the stop variables, and only Start sets _running.          *)
LEMMA RestStep == IInv /\ [Next]_vars => (AcceptLoop /\ StopInv /\ ThreadPoolInv /\ EndInv)'
  <1> SUFFICES ASSUME IInv, [Next]_vars PROVE (AcceptLoop /\ StopInv /\ ThreadPoolInv /\ EndInv)'
    OBVIOUS
  <1> USE DEF IInv, ControlTypeOK, AcceptLoop, StopInv, ThreadPoolInv, EndInv, AfterStart,
              Stopping, acceptVars, connVars, stopVars, signalVars
  <1>1. CASE MainThread
    <2>1. CASE ArmSignals  BY <2>1 DEF ArmSignals
    <2>2. CASE Start  BY <2>2 DEF Start
    <2>3. CASE StartAccept  BY <2>3 DEF StartAccept
    <2>4. CASE AcceptAgain  BY <2>4 DEF AcceptAgain
    <2>5. CASE AcceptHandlerPosts  BY <2>5 DEF AcceptHandlerPosts, Runs
    <2>6. CASE AcceptHandlerThrows  BY <2>6 DEF AcceptHandlerThrows, Runs
    <2>7. CASE AcceptHandlerFailed  BY <2>7 DEF AcceptHandlerFailed, Runs
    <2>8. CASE RunReturns  BY <2>8 DEF RunReturns, NoWork
    <2>9. CASE StopPool  BY <2>9 DEF StopPool
    <2>10. CASE Unwind  BY <2>10 DEF Unwind
    <2>11. CASE DestructorStops  BY <2>11 DEF DestructorStops, EnterStop
    <2>12. CASE Destroy  BY <2>12 DEF Destroy
    <2> QED
      BY <1>1, <2>1, <2>2, <2>3, <2>4, <2>5, <2>6, <2>7, <2>8, <2>9, <2>10, <2>11, <2>12 DEF MainThread
  <1>2. CASE Environment
    BY <1>2 DEF Environment, Raise, AcceptFail, Connect, PeerReset, SessionHandler, Runs
  <1>3. CASE DeliverSignal  BY <1>3 DEF DeliverSignal
  <1>4. CASE SignalStops  BY <1>4 DEF SignalStops, EnterStop
  <1>5. ASSUME NEW a \in Stoppers, StopBody(a) PROVE (AcceptLoop /\ StopInv /\ ThreadPoolInv /\ EndInv)'
    <2>1. CASE PrintStats(a)  BY <2>1 DEF PrintStats, Step
    <2>2. CASE CloseAcceptor(a)  BY <2>2 DEF CloseAcceptor, Step
    <2>3. CASE StopContext(a)  BY <2>3 DEF StopContext, Step
    <2>4. CASE ResetThreadPool(a)  BY <2>4 DEF ResetThreadPool, Step
    <2> QED
      BY <1>5, <2>1, <2>2, <2>3, <2>4 DEF StopBody
  <1>6. ASSUME NEW c \in Conns, AcceptComplete(c) PROVE (AcceptLoop /\ StopInv /\ ThreadPoolInv /\ EndInv)'
    BY <1>6 DEF AcceptComplete, Runs
  <1>7. ASSUME NEW c \in Conns, HandOver(c) PROVE (AcceptLoop /\ StopInv /\ ThreadPoolInv /\ EndInv)'
    BY <1>7 DEF HandOver
  <1>8. CASE UNCHANGED vars  BY <1>8 DEF vars
  <1> QED
    BY <1>1, <1>2, <1>3, <1>4, <1>5, <1>6, <1>7, <1>8 DEF Next

-----------------------------------------------------------------------------
(* The invariant implies the properties the runs check.                    *)
LEMMA Invariant == Spec => []IInv
  <1>1. Init => IInv
    BY InitIInv
  <1>2. IInv /\ [Next]_vars => IInv'
    BY TypeStep, RestStep DEF IInv
  <1> QED
    BY <1>1, <1>2, PTL DEF Spec

(* The accept loop is never broken while the server runs, and never doubled. *)
THEOREM AcceptLoopIsUnbroken == Spec => []AcceptLoop
  BY Invariant, PTL DEF IInv

(* Stop gets past its exchange on one thread at most, and finds the pool it *)
(* reports on and resets.                                                   *)
THEOREM StopRunsOnce == Spec => []StopsOnce
  <1>1. IInv => StopsOnce
    BY DEF IInv, StopInv, ThreadPoolInv, StopsOnce, Stopping
  <1> QED
    BY Invariant, <1>1, PTL

(* Without an exception main leaves Start after a signal only, and the      *)
(* server is destroyed after the signal's Stop has finished.                *)
THEOREM ExitIsGraceful == Spec => []GracefulExit
  <1>1. IInv => GracefulExit
    BY DEF IInv, EndInv, GracefulExit
  <1> QED
    BY Invariant, <1>1, PTL
-----------------------------------------------------------------------------
(* What a step may do to a connection.  These leave all of them alone.      *)
LEMMA ConnIsLeft ==
    ASSUME \/ ArmSignals \/ Start \/ StartAccept \/ AcceptAgain \/ AcceptHandlerFailed
           \/ RunReturns \/ StopPool \/ Unwind \/ DestructorStops \/ Raise \/ AcceptFail
           \/ DeliverSignal \/ SignalStops \/ UNCHANGED vars
           \/ \E c \in Conns : PeerReset(c)
           \/ \E a \in Stoppers : PrintStats(a) \/ StopContext(a) \/ ResetThreadPool(a)
    PROVE  conn' = conn
  BY Zenon DEF ArmSignals, Start, StartAccept, AcceptAgain, AcceptHandlerFailed, RunReturns,
     StopPool, Unwind, DestructorStops, Raise, AcceptFail, DeliverSignal, SignalStops,
     PeerReset, PrintStats, StopContext, ResetThreadPool, connVars, vars

(* A step that does change one comes from here.                             *)
LEMMA ConnStep ==
    ASSUME [Next]_vars, conn' # conn
    PROVE  \/ AcceptHandlerPosts \/ AcceptHandlerThrows \/ Destroy
           \/ \E a \in Stoppers : CloseAcceptor(a)
           \/ \E c \in Conns : \/ SessionHandler(c) \/ AcceptComplete(c)
                               \/ HandOver(c) \/ Connect(c)
  <1> USE ConnIsLeft
  <1>1. CASE MainThread
    BY <1>1 DEF MainThread
  <1>2. CASE Environment
    BY <1>2 DEF Environment
  <1>3. ASSUME NEW a \in Stoppers, StopBody(a) PROVE CloseAcceptor(a)
    BY <1>3 DEF StopBody
  <1> QED
    BY <1>1, <1>2, <1>3 DEF Next

(* A session is constructed in time: only a hand-over takes a socket out of *)
(* the queue of the io pool, and the pool is stopped before the server goes. *)
THEOREM HandOversComeInTime == Spec => HandOverInTime
  <1>1. ASSUME IInv, [Next]_vars, NEW c \in Conns, conn[c] = "posted", conn'[c] # "posted"
        PROVE  main # "exited" \/ threw
    <2>1. conn \in [Conns -> {"away", "backlog", "accepted", "posted", "open", "closed",
                             "dropped", "refused"}]
      BY <1>1 DEF IInv, ControlTypeOK
    <2>2. CASE AcceptHandlerPosts \/ AcceptHandlerThrows
      BY <2>2 DEF AcceptHandlerPosts, AcceptHandlerThrows, Runs
    <2>3. CASE Destroy
      BY <2>3 DEF Destroy
    <2>4. CASE \E a \in Stoppers : CloseAcceptor(a)
      BY <1>1, <2>1, <2>4 DEF CloseAcceptor
    <2>5. ASSUME NEW d \in Conns, SessionHandler(d) PROVE main # "exited"
      BY <2>5 DEF SessionHandler, Runs
    <2>6. ASSUME NEW d \in Conns, AcceptComplete(d) PROVE main # "exited"
      BY <2>6 DEF AcceptComplete, Runs
    <2>7. ASSUME NEW d \in Conns, HandOver(d) PROVE main # "exited" \/ threw
      BY <1>1, <2>7 DEF HandOver, IInv, EndInv
    <2>8. ASSUME NEW d \in Conns PROVE ~Connect(d)
      BY <1>1, <2>1, <2>8 DEF Connect
    <2>9. conn' # conn
      BY <1>1
    <2> QED
      BY <1>1, <2>2, <2>3, <2>4, <2>5, <2>6, <2>7, <2>8, <2>9, ConnStep
  <1>2. IInv /\ [Next]_vars =>
          [\A c \in Conns : conn[c] = "posted" /\ conn'[c] # "posted"
                               => main # "exited" \/ threw]_vars
    BY <1>1
  <1> QED
    BY Invariant, <1>2, PTL DEF Spec, HandOverInTime

(* Nobody is reset or dropped while the server runs: the acceptor is closed *)
(* by a Stop that got past the exchange, and the server goes after one, or  *)
(* after an exception.                                                      *)
THEOREM RunningServerKeepsPeers == Spec => PeersAreKept
  <1>1. ASSUME IInv, [Next]_vars, NEW c \in Conns, conn[c] # conn'[c],
               conn'[c] \in {"refused", "dropped"}
        PROVE  ~running \/ threw'
    <2>1. /\ conn \in [Conns -> {"away", "backlog", "accepted", "posted", "open", "closed",
                                "dropped", "refused"}]
          /\ acceptOp = "ok" => incoming \in Conns
      BY <1>1, ServerAssumption DEF IInv, ControlTypeOK
    <2>2. ~AcceptHandlerPosts
      BY <1>1, <2>1 DEF AcceptHandlerPosts
    <2>3. CASE AcceptHandlerThrows
      BY <2>3 DEF AcceptHandlerThrows
    <2>4. CASE Destroy
      BY <1>1, <2>4 DEF Destroy, IInv, EndInv
    <2>5. ASSUME NEW a \in Stoppers, CloseAcceptor(a) PROVE ~running
      BY <1>1, <2>5 DEF CloseAcceptor, Step, IInv, StopInv, Stopping
    <2>6. ASSUME NEW d \in Conns, SessionHandler(d) PROVE threw'
      BY <1>1, <2>1, <2>6 DEF SessionHandler
    <2>7. ASSUME NEW d \in Conns
          PROVE  ~AcceptComplete(d) /\ ~HandOver(d) /\ ~Connect(d)
      BY <1>1, <2>1, <2>7 DEF AcceptComplete, HandOver, Connect
    <2>8. conn' # conn
      BY <1>1
    <2> QED
      BY <1>1, <2>2, <2>3, <2>4, <2>5, <2>6, <2>7, <2>8, ConnStep
  <1>2. IInv /\ [Next]_vars =>
          [\A c \in Conns : conn[c] # conn'[c] /\ conn'[c] \in {"refused", "dropped"}
                               => ~running \/ threw']_vars
    BY <1>1
  <1> QED
    BY Invariant, <1>2, PTL DEF Spec, PeersAreKept
-----------------------------------------------------------------------------
(* The counters.  Until the server is destroyed they count exactly the      *)
(* connections whose accept handler has begun.                              *)
Past == {c \in Conns : conn[c] \in {"posted", "open", "closed", "dropped"}}

CountInv ==
    /\ errors \in 0 .. MaxErrors
    /\ acceptOp = "ok" => conn[incoming] = "accepted"
    /\ counted \in 0 .. Cardinality(Conns)
    /\ main # "exited" => counted = Cardinality(Past)

LEMMA PastIsFinite == IsFiniteSet(Past) /\ Cardinality(Past) \in 0 .. Cardinality(Conns)
  <1>1. Past \subseteq Conns /\ IsFiniteSet(Conns)
    BY ServerAssumption DEF Past
  <1>2. /\ IsFiniteSet(Past) /\ Cardinality(Past) <= Cardinality(Conns)
        /\ Cardinality(Past) \in Nat /\ Cardinality(Conns) \in Nat
    BY <1>1, FS_Subset, FS_CardinalityType
  <1> QED
    BY <1>2

LEMMA CountInit == Init => CountInv
  <1> SUFFICES ASSUME Init PROVE CountInv
    OBVIOUS
  <1>1. Past = {} /\ counted = 0 /\ errors = 0 /\ acceptOp = "none"
    BY DEF Init, Past
  <1>2. Cardinality(Past) = 0
    BY <1>1, FS_EmptySet
  <1>3. Cardinality(Conns) \in Nat
    BY ServerAssumption, FS_CardinalityType
  <1> QED
    BY <1>1, <1>2, <1>3, ServerAssumption DEF CountInv

(* A handler that counts its connection moves it past the accept.           *)
LEMMA HandlerCounts ==
    ASSUME ControlTypeOK, CountInv, main # "exited", acceptOp = "ok", Count,
           NEW next \in {"posted", "dropped"}, conn' = [conn EXCEPT ![incoming] = next],
           acceptOp' = "none", UNCHANGED errors
    PROVE  CountInv'
  <1>1. incoming \in Conns /\ conn \in [Conns -> {"away", "backlog", "accepted", "posted",
                                       "open", "closed", "dropped", "refused"}]
    BY ServerAssumption DEF ControlTypeOK
  <1>2. incoming \notin Past
    BY DEF CountInv, Past
  <1>3. Past' = Past \cup {incoming}
    BY <1>1 DEF Past
  <1>4. Cardinality(Past') = Cardinality(Past) + 1
    BY <1>2, <1>3, PastIsFinite, FS_AddElement
  <1>5. Past' \subseteq Conns /\ IsFiniteSet(Conns) /\ Cardinality(Conns) \in Nat
    BY <1>1, <1>3, ServerAssumption, FS_CardinalityType DEF Past
  <1>6. Cardinality(Past') \in Nat /\ Cardinality(Past') <= Cardinality(Conns)
    BY <1>5, FS_Subset, FS_CardinalityType
  <1>7. counted' = Cardinality(Past')
    BY <1>4 DEF CountInv, Count
  <1> QED
    BY <1>6, <1>7 DEF CountInv

(* No other step moves a connection past the accept or back.                *)
LEMMA SamePast ==
    ASSUME CountInv, Past' = Past, UNCHANGED counted, errors' \in 0 .. MaxErrors,
           acceptOp' = "ok" => conn'[incoming'] = "accepted",
           main' # "exited" => main # "exited"
    PROVE  CountInv'
  BY DEF CountInv

LEMMA CountStep == IInv /\ CountInv /\ [Next]_vars => CountInv'
  <1> SUFFICES ASSUME IInv, CountInv, [Next]_vars PROVE CountInv'
    OBVIOUS
  <1> USE ServerAssumption DEF IInv, acceptVars, connVars, stopVars, signalVars
  <1>1. /\ errors \in 0 .. MaxErrors
        /\ acceptOp = "ok" => conn[incoming] = "accepted" /\ incoming \in Conns
        /\ conn \in [Conns -> {"away", "backlog", "accepted", "posted", "open", "closed",
                               "dropped", "refused"}]
    BY DEF CountInv, ControlTypeOK
  <1>2. ASSUME UNCHANGED <<acceptVars, conn>>, main' # "exited" => main # "exited"
        PROVE  CountInv'
    BY <1>1, <1>2, SamePast DEF Past
  <1>3. CASE MainThread
    <2>1. CASE ArmSignals \/ Start \/ AcceptAgain \/ RunReturns \/ StopPool \/ Unwind
      <3>1. UNCHANGED <<acceptVars, conn>> /\ main # "exited"
        BY <2>1 DEF ArmSignals, Start, AcceptAgain, RunReturns, StopPool, Unwind
      <3> QED
        BY <1>2, <3>1
    <2>2. CASE DestructorStops
      <3>1. UNCHANGED <<acceptVars, conn, main>>
        BY <2>2 DEF DestructorStops
      <3> QED
        BY <1>2, <3>1
    <2>3. CASE StartAccept \/ AcceptHandlerFailed
      <3>1. /\ UNCHANGED <<counted, errors, conn>> /\ acceptOp' # "ok"
            /\ main # "exited"
        BY <2>3 DEF StartAccept, AcceptHandlerFailed, Runs
      <3> QED
        BY <1>1, <3>1, SamePast DEF Past
    <2>4. CASE AcceptHandlerPosts
      BY <2>4, HandlerCounts DEF AcceptHandlerPosts, Runs
    <2>5. CASE AcceptHandlerThrows
      BY <2>5, HandlerCounts DEF AcceptHandlerThrows, Runs
    <2>6. CASE Destroy
      BY <2>6 DEF Destroy, CountInv
    <2> QED
      BY <1>3, <2>1, <2>2, <2>3, <2>4, <2>5, <2>6 DEF MainThread
  <1>4. CASE Environment
    <2>1. CASE Raise
      <3>1. UNCHANGED <<acceptVars, conn, main>>
        BY <2>1 DEF Raise
      <3> QED
        BY <1>2, <3>1
    <2>2. CASE AcceptFail
      <3>1. /\ UNCHANGED <<counted, conn, main>> /\ acceptOp' = "failed"
            /\ errors' \in 0 .. MaxErrors
        BY <1>1, <2>2 DEF AcceptFail
      <3> QED
        BY <3>1, SamePast DEF Past
    <2>3. ASSUME NEW c \in Conns, Connect(c) PROVE CountInv'
      <3>1. conn' = [conn EXCEPT ![c] = "backlog"] /\ conn[c] = "away"
            /\ UNCHANGED <<acceptVars, main>>
        BY <2>3 DEF Connect
      <3>2. Past' = Past
        BY <1>1, <3>1 DEF Past
      <3> QED
        BY <1>1, <3>1, <3>2, SamePast
    <2>4. ASSUME NEW c \in Conns, PeerReset(c) PROVE CountInv'
      <3>1. UNCHANGED <<acceptVars, conn, main>>
        BY <2>4 DEF PeerReset
      <3> QED
        BY <1>2, <3>1
    <2>5. ASSUME NEW c \in Conns, SessionHandler(c) PROVE CountInv'
      <3>1. /\ conn[c] = "open"
            /\ \/ conn' = [conn EXCEPT ![c] = "closed"]
               \/ conn' = [conn EXCEPT ![c] = "dropped"]
               \/ conn' = conn
            /\ UNCHANGED acceptVars /\ main # "exited"
        BY <2>5 DEF SessionHandler, Runs
      <3>2. Past' = Past
        BY <1>1, <3>1 DEF Past
      <3> QED
        BY <1>1, <3>1, <3>2, SamePast
    <2> QED
      BY <1>4, <2>1, <2>2, <2>3, <2>4, <2>5 DEF Environment
  <1>5. CASE DeliverSignal \/ SignalStops
    <2>1. UNCHANGED <<acceptVars, conn, main>>
      BY <1>5 DEF DeliverSignal, SignalStops
    <2> QED
      BY <1>2, <2>1
  <1>6. ASSUME NEW a \in Stoppers, StopBody(a) PROVE CountInv'
    <2>1. CASE CloseAcceptor(a)
      <3>1. /\ conn' = [c \in Conns |-> IF conn[c] = "backlog" THEN "refused" ELSE conn[c]]
            /\ acceptOp' = "ok" => acceptOp = "ok"
            /\ UNCHANGED <<main, incoming, counted, errors>>
        BY <2>1 DEF CloseAcceptor
      <3>2. Past' = Past
        BY <1>1, <3>1 DEF Past
      <3> QED
        BY <1>1, <3>1, <3>2, SamePast
    <2>2. CASE PrintStats(a) \/ StopContext(a) \/ ResetThreadPool(a)
      <3>1. UNCHANGED <<acceptVars, conn, main>>
        BY <2>2 DEF PrintStats, StopContext, ResetThreadPool
      <3> QED
        BY <1>2, <3>1
    <2> QED
      BY <1>6, <2>1, <2>2 DEF StopBody
  <1>7. ASSUME NEW c \in Conns, AcceptComplete(c) PROVE CountInv'
    <2>1. /\ conn' = [conn EXCEPT ![c] = "accepted"] /\ conn[c] = "backlog" /\ incoming' = c
          /\ UNCHANGED <<main, counted, errors>>
      BY <1>7 DEF AcceptComplete
    <2>2. Past' = Past /\ conn'[incoming'] = "accepted"
      BY <1>1, <2>1 DEF Past
    <2> QED
      BY <1>1, <2>1, <2>2, SamePast
  <1>8. ASSUME NEW c \in Conns, HandOver(c) PROVE CountInv'
    <2>1. conn' = [conn EXCEPT ![c] = "open"] /\ conn[c] = "posted" /\ UNCHANGED <<acceptVars, main>>
      BY <1>8 DEF HandOver
    <2>2. Past' = Past
      BY <1>1, <2>1 DEF Past
    <2> QED
      BY <1>1, <2>1, <2>2, SamePast
  <1>9. CASE UNCHANGED vars
    <2>1. UNCHANGED <<acceptVars, conn, main>>
      BY <1>9 DEF vars
    <2> QED
      BY <1>2, <2>1
  <1> QED
    BY <1>3, <1>4, <1>5, <1>6, <1>7, <1>8, <1>9 DEF Next

(* No connection is counted twice, however the accept handler ends: the     *)
(* whole type invariant, counters and all.                                  *)
THEOREM TypeCorrect == Spec => []TypeOK
  <1>1. IInv /\ CountInv => TypeOK
    BY DEF IInv, CountInv, TypeOK
  <1> QED
    BY Invariant, CountInit, CountStep, <1>1, PTL DEF Spec
=============================================================================
