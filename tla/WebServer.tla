----------------------------- MODULE WebServer -----------------------------
(***************************************************************************)
(* The life of the server, from the constructed WebServer of main to the   *)
(* end of the process: class WebServer, main, the signal and the threads   *)
(* of the io pool.                                                         *)
(*                                                                         *)
(* The main thread runs Start, the accept handler, every handler of every  *)
(* session (see SessionHandler) and the destructors.  A pool thread runs   *)
(* the signal handler, and with it Stop, call by call beside the main      *)
(* thread; others run the posted hand-overs of accepted sockets.           *)
(***************************************************************************)
EXTENDS Naturals, FiniteSets

CONSTANTS Conns,      \* connections that peers make
          NoConn,     \* no connection
          MaxErrors   \* bound: how often accept(2) itself fails

ASSUME ServerAssumption == /\ IsFiniteSet(Conns)
                           /\ NoConn \notin Conns
                           /\ MaxErrors \in Nat

VARIABLES
    main,          \* where the main thread is
    running,       \* _running
    acceptorOpen,  \* _acceptor is open
    stopped,       \* _acceptorIoContext is stopped
    threadPool,    \* _threadPool is not null
    counted,       \* _totalConnections and _activeConnections: nothing decrements either
    stop,          \* the next call of Stop on each thread that may run it
    raised,        \* SIGINT or SIGTERM has been sent (later ones have no effect)
    signalWait,    \* the async_wait on the signal set
    acceptOp,      \* the async_accept: none, in flight, or completed and queued
    incoming,      \* the connection it completed with
    conn,          \* the connections
    gone,          \* those whose peer has reset them before they were handed over
    poolRuns,      \* the threads of AsioIOContextPool run
    errors,        \* how many accepts have failed
    threw          \* an exception has left Start

acceptVars == <<acceptOp, incoming, counted, errors>>
connVars == <<conn, gone>>
stopVars == <<running, acceptorOpen, stopped, threadPool, stop>>
signalVars == <<raised, signalWait, poolRuns>>
vars == <<main, acceptVars, connVars, stopVars, signalVars, threw>>

\* main and signal: the threads that call Stop, in ~WebServer and in the handler.
Stoppers == {"main", "signal"}
Stopping(a) == stop[a] \notin {"none", "done"}

Init ==
    /\ main = "arm" /\ running = FALSE /\ acceptorOpen = TRUE /\ stopped = FALSE
    /\ threadPool = TRUE /\ counted = 0
    /\ stop = [a \in Stoppers |-> "none"]
    /\ raised = FALSE /\ signalWait = "none" /\ poolRuns = TRUE
    /\ acceptOp = "none" /\ incoming = NoConn /\ errors = 0
    /\ conn = [c \in Conns |-> "away"] /\ gone = {}
    /\ threw = FALSE

-----------------------------------------------------------------------------
(* main up to WebServer::Start.                                            *)
ArmSignals ==
    /\ main = "arm"
    /\ main' = "start" /\ signalWait' = "armed"
    /\ UNCHANGED <<acceptVars, connVars, stopVars, raised, poolRuns, threw>>

Start ==
    /\ main = "start"
    /\ running' = TRUE /\ main' = "accept"
    /\ UNCHANGED <<acceptVars, connVars, acceptorOpen, stopped, threadPool, stop,
                   signalVars, threw>>

(* StartAccept, from Start and from the accept handler.  On a closed        *)
(* acceptor the operation completes at once with an error.                  *)
StartAccept ==
    /\ main \in {"accept", "reaccept"}
    /\ acceptOp' = IF acceptorOpen THEN "pending" ELSE "failed"
    /\ main' = "run"
    /\ UNCHANGED <<incoming, counted, errors, connVars, stopVars, signalVars, threw>>

-----------------------------------------------------------------------------
(* _acceptorIoContext.run() on the main thread.                            *)
Runs == main = "run" /\ ~stopped

AcceptComplete(c) ==
    /\ Runs /\ acceptOp = "pending" /\ conn[c] = "backlog"
    /\ acceptOp' = "ok" /\ incoming' = c
    /\ conn' = [conn EXCEPT ![c] = "accepted"]
    /\ UNCHANGED <<main, counted, errors, gone, stopVars, signalVars, threw>>

AcceptFail ==
    /\ Runs /\ acceptOp = "pending" /\ errors < MaxErrors
    /\ acceptOp' = "failed" /\ errors' = errors + 1
    /\ UNCHANGED <<main, incoming, counted, connVars, stopVars, signalVars, threw>>

\* Slip: the handler counts, and then calls HandleAccept, which counts too.
Count_Twice == counted' = counted + 2

Count == counted' = counted + 1

(* The accept handler up to its test of _running: it posts the socket to a *)
(* pool thread, unless remote_endpoint() throws because the peer has gone. *)
AcceptHandlerPosts ==
    /\ Runs /\ acceptOp = "ok" /\ incoming \notin gone
    /\ Count
    /\ conn' = [conn EXCEPT ![incoming] = "posted"]
    /\ acceptOp' = "none" /\ incoming' = NoConn
    /\ main' = "again"
    /\ UNCHANGED <<errors, gone, stopVars, signalVars, threw>>

AcceptHandlerThrows ==
    /\ Runs /\ acceptOp = "ok" /\ incoming \in gone
    /\ Count
    /\ conn' = [conn EXCEPT ![incoming] = "dropped"]
    /\ acceptOp' = "none" /\ incoming' = NoConn
    /\ threw' = TRUE /\ main' = "unwind"
    /\ UNCHANGED <<errors, gone, stopVars, signalVars>>

\* Slip: the handler returns when the accept has failed.
AcceptHandlerFailed_Returns ==
    /\ Runs /\ acceptOp = "failed"
    /\ acceptOp' = "none"
    /\ UNCHANGED <<main, incoming, counted, errors, connVars, stopVars, signalVars, threw>>

AcceptHandlerFailed ==
    /\ Runs /\ acceptOp = "failed"
    /\ acceptOp' = "none" /\ main' = "again"
    /\ UNCHANGED <<incoming, counted, errors, connVars, stopVars, signalVars, threw>>

AcceptAgain ==
    /\ main = "again"
    /\ main' = IF running THEN "reaccept" ELSE "run"
    /\ UNCHANGED <<acceptVars, connVars, stopVars, signalVars, threw>>

(* A handler of a session.  The socket has the executor of the acceptor,   *)
(* its timer that of the socket, so this is the main thread.  Session says *)
(* what it does; here the session closes or throws (to go on changes       *)
(* nothing here).                                                          *)
SessionHandler(c) ==
    /\ Runs /\ conn[c] = "open"
    /\ \/ conn' = [conn EXCEPT ![c] = "closed"] /\ UNCHANGED <<main, threw>>
       \/ threw' = TRUE /\ main' = "unwind" /\ UNCHANGED conn
    /\ UNCHANGED <<acceptVars, gone, stopVars, signalVars>>

(* run returns once stopped, or when nothing is left to wait for: an open   *)
(* session always has an operation (SingleChain in Session).                *)
NoWork == acceptOp = "none" /\ \A c \in Conns : conn[c] # "open"

RunReturns ==
    /\ main = "run" /\ (stopped \/ NoWork)
    /\ main' = "stopPool"
    /\ UNCHANGED <<acceptVars, connVars, stopVars, signalVars, threw>>

-----------------------------------------------------------------------------
(* The end of main: AsioIOContextPool::Stop stops the pool and joins its    *)
(* threads; what is posted and has not begun is not run.                    *)
\* Slip: the pool is not stopped before main leaves its try block.
StopPool_Skipped ==
    /\ main = "stopPool"
    /\ main' = "unwind"
    /\ UNCHANGED <<acceptVars, connVars, stopVars, signalVars, threw>>

StopPool ==
    /\ main = "stopPool" /\ ~Stopping("signal")
    /\ poolRuns' = FALSE
    /\ main' = "unwind"
    /\ UNCHANGED <<acceptVars, connVars, stopVars, raised, signalWait, threw>>

(* The try block is left, by its end or by an exception: the signal set is *)
(* destroyed, which cancels its wait, then the server.                     *)
Unwind ==
    /\ main = "unwind"
    /\ signalWait' = IF signalWait = "armed" THEN "cancelled" ELSE signalWait
    /\ main' = "destruct"
    /\ UNCHANGED <<acceptVars, connVars, stopVars, raised, poolRuns, threw>>

(* ~WebServer after its Stop: the members go, and with _acceptorIoContext  *)
(* every session and every socket that is queued in it.                    *)
Destroy ==
    /\ main = "destruct" /\ stop["main"] = "done"
    /\ main' = "exited"
    /\ acceptorOpen' = FALSE /\ threadPool' = FALSE
    /\ acceptOp' = "none" /\ incoming' = NoConn
    /\ conn' = [c \in Conns |-> CASE conn[c] \in {"open", "accepted"} -> "dropped"
                                  [] conn[c] = "backlog" -> "refused"
                                  [] OTHER -> conn[c]]
    /\ UNCHANGED <<counted, errors, gone, running, stopped, stop,
                   signalVars, threw>>

-----------------------------------------------------------------------------
(* WebServer::Stop, called in ~WebServer and in the signal handler.        *)
\* Slip: a test of _running and a store, instead of an exchange.
EnterStop_NoExchange(a) ==
    /\ stop[a] = "none"
    /\ stop' = [stop EXCEPT ![a] = IF running THEN "stats" ELSE "done"]
    /\ UNCHANGED running

EnterStop(a) ==
    /\ stop[a] = "none"
    /\ stop' = [stop EXCEPT ![a] = IF running THEN "stats" ELSE "done"]
    /\ running' = FALSE

DestructorStops ==
    /\ main = "destruct"
    /\ EnterStop("main")
    /\ UNCHANGED <<main, acceptVars, connVars, acceptorOpen, stopped, threadPool,
                   signalVars, threw>>

SignalStops ==
    /\ signalWait = "queued" /\ poolRuns
    /\ EnterStop("signal")
    /\ signalWait' = "run"
    /\ UNCHANGED <<main, acceptVars, connVars, acceptorOpen, stopped, threadPool,
                   raised, poolRuns, threw>>

Step(a, from, to) == stop[a] = from /\ stop' = [stop EXCEPT ![a] = to]

PrintStats(a) ==
    /\ Step(a, "stats", "acceptor")
    /\ UNCHANGED <<main, acceptVars, connVars, running, acceptorOpen, stopped,
                   threadPool, signalVars, threw>>

(* Closing aborts an accept in flight and resets whoever was not accepted. *)
CloseAcceptor(a) ==
    /\ Step(a, "acceptor", "context")
    /\ acceptorOpen' = FALSE
    /\ acceptOp' = IF acceptOp = "pending" THEN "failed" ELSE acceptOp
    /\ conn' = [c \in Conns |-> IF conn[c] = "backlog" THEN "refused" ELSE conn[c]]
    /\ UNCHANGED <<main, incoming, counted, errors, gone, running, stopped,
                   threadPool, signalVars, threw>>

\* Slip: the context is left to run out of work.
StopContext_Skipped(a) ==
    /\ Step(a, "context", "threadPool")
    /\ UNCHANGED <<main, acceptVars, connVars, running, acceptorOpen, stopped, threadPool,
                   signalVars, threw>>

StopContext(a) ==
    /\ Step(a, "context", "threadPool")
    /\ stopped' = TRUE
    /\ UNCHANGED <<main, acceptVars, connVars, running, acceptorOpen, threadPool,
                   signalVars, threw>>

ResetThreadPool(a) ==
    /\ Step(a, "threadPool", "done")
    /\ threadPool' = FALSE
    /\ UNCHANGED <<main, acceptVars, connVars, running, acceptorOpen, stopped,
                   signalVars, threw>>

StopBody(a) == PrintStats(a) \/ CloseAcceptor(a) \/ StopContext(a) \/ ResetThreadPool(a)

-----------------------------------------------------------------------------
(* A hand-over on a pool thread: the session is constructed and started.   *)
HandOver(c) ==
    /\ poolRuns /\ conn[c] = "posted"
    /\ conn' = [conn EXCEPT ![c] = "open"]
    /\ UNCHANGED <<main, acceptVars, gone, stopVars, signalVars, threw>>

(* The user and the peers.  A signal sent before the wait is kept for it.  *)
Raise ==
    /\ main # "exited" /\ ~raised
    /\ raised' = TRUE
    /\ UNCHANGED <<main, acceptVars, connVars, stopVars, signalWait, poolRuns, threw>>

DeliverSignal ==
    /\ raised /\ signalWait = "armed" /\ poolRuns
    /\ signalWait' = "queued"
    /\ UNCHANGED <<main, acceptVars, connVars, stopVars, raised, poolRuns, threw>>

Connect(c) ==
    /\ acceptorOpen /\ conn[c] = "away"
    /\ conn' = [conn EXCEPT ![c] = "backlog"]
    /\ UNCHANGED <<main, acceptVars, gone, stopVars, signalVars, threw>>

PeerReset(c) ==
    /\ conn[c] \in {"backlog", "accepted"} /\ c \notin gone
    /\ gone' = gone \cup {c}
    /\ UNCHANGED <<main, acceptVars, conn, stopVars, signalVars, threw>>

-----------------------------------------------------------------------------
MainThread == ArmSignals \/ Start \/ StartAccept \/ AcceptAgain \/ AcceptHandlerPosts
                \/ AcceptHandlerThrows \/ AcceptHandlerFailed \/ RunReturns \/ StopPool
                \/ Unwind \/ DestructorStops \/ Destroy

Environment == \/ Raise \/ AcceptFail
               \/ \E c \in Conns : Connect(c) \/ PeerReset(c) \/ SessionHandler(c)

Next == \/ MainThread \/ DeliverSignal \/ SignalStops
        \/ \E a \in Stoppers : StopBody(a)
        \/ \E c \in Conns : AcceptComplete(c) \/ HandOver(c)
        \/ Environment

Spec == Init /\ [][Next]_vars

(* Threads that can go on do, the reactor reports what has completed, and  *)
(* the pool delivers a signal.  Nothing is assumed of users and peers, nor *)
(* that a session ever does anything.                                      *)
FairSpec ==
    /\ Spec
    /\ WF_vars(MainThread) /\ WF_vars(DeliverSignal) /\ WF_vars(SignalStops)
    /\ \A a \in Stoppers : WF_vars(StopBody(a))
    /\ \A c \in Conns : WF_vars(AcceptComplete(c)) /\ WF_vars(HandOver(c))

-----------------------------------------------------------------------------
(* The variables have their types, there is a connection with an accept    *)
(* exactly if it has completed with one, and no connection is counted twice. *)
ControlTypeOK ==
    /\ main \in {"arm", "start", "accept", "run", "again", "reaccept", "stopPool",
                 "unwind", "destruct", "exited"}
    /\ running \in BOOLEAN /\ acceptorOpen \in BOOLEAN /\ stopped \in BOOLEAN
    /\ threadPool \in BOOLEAN /\ poolRuns \in BOOLEAN
    /\ raised \in BOOLEAN /\ threw \in BOOLEAN
    /\ stop \in [Stoppers ->
                   {"none", "stats", "acceptor", "context", "threadPool", "done"}]
    /\ signalWait \in {"none", "armed", "queued", "run", "cancelled"}
    /\ acceptOp \in {"none", "pending", "ok", "failed"}
    /\ incoming \in Conns \cup {NoConn} /\ (acceptOp = "ok") = (incoming # NoConn)
    /\ conn \in [Conns -> {"away", "backlog", "accepted", "posted", "open", "closed",
                           "dropped", "refused"}]
    /\ gone \subseteq Conns

TypeOK ==
    /\ ControlTypeOK
    /\ counted \in 0 .. Cardinality(Conns) /\ errors \in 0 .. MaxErrors

(* The accept loop never breaks while the server runs: between two steps of *)
(* the main thread there is an accept in flight or its handler is queued,   *)
(* whether accepts succeed, fail, or race with Stop.  (run would otherwise  *)
(* return, and main with it, once the last session has ended.)  And there   *)
(* is none in flight when StartAccept starts one.                           *)
AcceptLoop ==
    /\ main = "run" /\ running => acceptOp # "none"
    /\ main \in {"arm", "start", "accept", "again", "reaccept"} => acceptOp = "none"

(* Stop runs once: the exchange of _running lets one of its two callers in,  *)
(* so that the _threadPool PrintStats reads has not been reset by the other. *)
StopsOnce ==
    /\ ~(Stopping("main") /\ Stopping("signal"))
    /\ \A a \in Stoppers : stop[a] \in {"stats", "threadPool"} /\ main # "exited" => threadPool

(* Unless an exception ends it, the server ends gracefully: main only gets  *)
(* past Start after a signal, and the object is destroyed only when the     *)
(* signal's Stop has run to its end and no pool thread can use it any more. *)
GracefulExit ==
    /\ main \in {"stopPool", "unwind", "destruct", "exited"} /\ ~threw
         => signalWait = "run" /\ ~running
    /\ main = "exited" /\ ~threw
         => stop["signal"] = "done" /\ stopped /\ ~poolRuns

(* Unless an exception ends the server, a hand-over that is posted to the io *)
(* pool runs while the server is there, or never: no session is constructed  *)
(* on a socket whose io_context, a member of the server, has been destroyed. *)
HandOverInTime ==
    [][\A c \in Conns : conn[c] = "posted" /\ conn'[c] # "posted" => main # "exited" \/ threw]_vars

(* A server that runs loses nobody: whoever has connected is neither reset   *)
(* nor dropped before a Stop has won the exchange, unless an exception ends  *)
(* the server (see SessionsIsolated for how many that costs).                *)
PeersAreKept ==
    [][\A c \in Conns : conn[c] # conn'[c] /\ conn'[c] \in {"refused", "dropped"}
                           => ~running \/ threw']_vars

(* A signal ends the process once Start has set _running, at whatever point *)
(* of the accept loop it arrives.                                           *)
RunningServerStops ==
    (running /\ raised /\ signalWait \in {"armed", "queued"}) ~> (main = "exited")

(* A peer that has connected is accepted or, when the server stops, refused; *)
(* one that was accepted gets a session, unless the process ends first.      *)
PeersAreServed ==
    /\ \A c \in Conns : (conn[c] = "backlog") ~> (conn[c] # "backlog")
    /\ \A c \in Conns : (conn[c] = "posted") ~> (conn[c] # "posted" \/ ~poolRuns)

(* Start prints "Press Ctrl+C to stop..." (WebServer.cpp): a signal ends    *)
(* the process, whenever it is sent.                                        *)
SignalEndsServer == raised ~> (main = "exited")

(* The README promises that sessions are isolated from each other.  Then as *)
(* long as nobody has asked the server to stop, an exception costs at most   *)
(* the one connection whose handler it leaves.                               *)
SessionsIsolated ==
    stop["signal"] = "none" => Cardinality({c \in Conns : conn[c] = "dropped"}) <= 1
=============================================================================
