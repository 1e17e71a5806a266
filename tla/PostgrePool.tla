---------------------------- MODULE PostgrePool ----------------------------
(***************************************************************************)
(* The database connection pool, class PostgrePool, under threads that use *)
(* it the way every method of UserService does: ask IsInitialized, Acquire *)
(* a guard, work, and let the guard's destructor Return the connection.    *)
(*                                                                         *)
(* Each method is one critical section of _mutex, so each is one step;     *)
(* Acquire gives the mutex up when it waits and is a step again when it    *)
(* is woken.  Connecting happens with the mutex held and may fail.         *)
(***************************************************************************)
EXTENDS Naturals, Sequences, FiniteSets

CONSTANTS Threads,    \* the threads that call UserService
          Conns,      \* identities of pqxx::connection objects
          PoolSize,   \* db_pool_size
          MaxCalls,   \* how many calls a thread makes
          NoConn      \* an empty shared_ptr

ASSUME PoolAssumption == /\ PoolSize \in Nat \ {0}
                         /\ IsFiniteSet(Threads)
                         /\ NoConn \notin Conns
                         /\ IsFiniteSet(Conns) /\ Cardinality(Conns) > PoolSize
                         /\ MaxCalls \in Nat

VARIABLES
    pool,         \* _pool, the idle connections, first in first out
    initialized,  \* _initialized
    closing,      \* _closing
    pc,           \* where each thread is
    held,         \* the connection of each thread's guard
    calls,        \* how many calls each thread has begun
    broken,       \* the connections for which is_open() is false
    tried,        \* Init has been called
    terminated    \* std::terminate: an exception left ~ConnectionGuard

vars == <<pool, initialized, closing, pc, held, calls, broken, tried, terminated>>

Waiting == {t \in Threads : pc[t] = "waiting"}   \* the wait set of _condition
Woken == {t \in Threads : pc[t] = "woken"}       \* notified, waiting for _mutex
Holders == {t \in Threads : pc[t] = "holding"}
Pooled == {pool[i] : i \in 1 .. Len(pool)}
Held == {held[t] : t \in Threads} \ {NoConn}
Fresh == Conns \ (Pooled \cup Held)              \* free to be allocated

Init ==
    /\ pool = <<>> /\ initialized = FALSE /\ closing = FALSE
    /\ pc = [t \in Threads |-> "idle"]
    /\ held = [t \in Threads |-> NoConn]
    /\ calls = [t \in Threads |-> 0]
    /\ broken = {} /\ tried = FALSE /\ terminated = FALSE

-----------------------------------------------------------------------------
(* Init opens the connections one after the other; if one cannot be opened *)
(* it throws with those before it in _pool.  The server calls it once, in  *)
(* InitDatabase, before any request, and goes on without it if it throws.  *)
Distinct(q) == \A i, j \in 1 .. Len(q) : q[i] = q[j] => i = j

InitPool(n) ==
    /\ ~tried /\ n \in 0 .. PoolSize
    /\ tried' = TRUE
    /\ closing' = FALSE
    /\ initialized' = (n = PoolSize)
    /\ pool' \in {q \in [1 .. n -> Conns] : Distinct(q)}
    /\ UNCHANGED <<pc, held, calls, broken, terminated>>

\* Slip: Close leaves the waiters asleep.
Close_Silent ==
    /\ tried /\ ~terminated /\ (initialized \/ closing)
    /\ closing' = TRUE /\ initialized' = FALSE
    /\ pool' = <<>>
    /\ broken' = broken \cap Held
    /\ UNCHANGED <<pc, held, calls, tried, terminated>>

(* Close: the idle connections are freed and every waiter is woken.        *)
Close ==
    /\ tried /\ ~terminated /\ (initialized \/ closing)
    /\ closing' = TRUE /\ initialized' = FALSE
    /\ pool' = <<>>
    /\ broken' = broken \cap Held
    /\ pc' = [t \in Threads |-> IF pc[t] = "waiting" THEN "woken" ELSE pc[t]]
    /\ UNCHANGED <<held, calls, tried, terminated>>

-----------------------------------------------------------------------------
(* A call of UserService: it gives up if IsInitialized says no, and goes on *)
(* to Acquire in a later critical section.                                 *)
BeginCall(t) ==
    /\ tried /\ ~terminated /\ pc[t] = "idle" /\ calls[t] < MaxCalls
    /\ calls' = [calls EXCEPT ![t] = @ + 1]
    /\ pc' = [pc EXCEPT ![t] = IF initialized /\ ~closing THEN "checked" ELSE "idle"]
    /\ UNCHANGED <<pool, initialized, closing, held, broken, tried, terminated>>

\* Slip: the connection is copied out of the queue and not popped.
Take_NoPop(t) ==
    /\ held' = [held EXCEPT ![t] = Head(pool)]
    /\ pc' = [pc EXCEPT ![t] = "holding"]
    /\ UNCHANGED pool

Take(t) ==
    /\ held' = [held EXCEPT ![t] = Head(pool)]
    /\ pool' = Tail(pool)
    /\ pc' = [pc EXCEPT ![t] = "holding"]

\* UserService catches what Acquire throws and reports a failure.
AcquireThrows(t) == pc' = [pc EXCEPT ![t] = "idle"] /\ UNCHANGED <<pool, held>>

(* condition_variable::wait with a predicate, entered or woken.            *)
WaitPredicate(t) ==
    \/ closing /\ AcquireThrows(t)
    \/ ~closing /\ pool # <<>> /\ Take(t)
    \/ /\ ~closing /\ pool = <<>>
       /\ pc' = [pc EXCEPT ![t] = "waiting"]
       /\ UNCHANGED <<pool, held>>

Acquire(t) ==
    /\ ~terminated /\ pc[t] = "checked"
    /\ IF ~initialized THEN AcquireThrows(t) ELSE WaitPredicate(t)
    /\ UNCHANGED <<initialized, closing, calls, broken, tried, terminated>>

WakeUp(t) ==
    /\ ~terminated /\ pc[t] = "woken"
    /\ WaitPredicate(t)
    /\ UNCHANGED <<initialized, closing, calls, broken, tried, terminated>>

\* The standard lets a wait end without a notification.
SpuriousWakeUp(t) ==
    /\ ~terminated /\ pc[t] = "waiting"
    /\ pc' = [pc EXCEPT ![t] = "woken"]
    /\ UNCHANGED <<pool, initialized, closing, held, calls, broken, tried, terminated>>

-----------------------------------------------------------------------------
(* The destructor of t's guard: Release, and Return.                       *)
\* Slip: no notify_one.
NotifyOne_None(p) == pc' = p

\* One waiter, any one, is woken if there is one.
NotifyOne(p) ==
    LET sleeping == {w \in Threads : p[w] = "waiting"}
    IN  IF sleeping = {} THEN pc' = p
        ELSE \E w \in sleeping : pc' = [p EXCEPT ![w] = "woken"]

Push(c, t) ==
    /\ pool' = Append(pool, c)
    /\ held' = [held EXCEPT ![t] = NoConn]
    /\ NotifyOne([pc EXCEPT ![t] = "idle"])

\* Slip: the guard keeps its connection.
ReturnDropped_Keeps(t) ==
    /\ ~terminated /\ pc[t] = "holding" /\ (~initialized \/ closing)
    /\ pc' = [pc EXCEPT ![t] = "idle"]
    /\ UNCHANGED <<pool, initialized, closing, held, calls, broken, tried, terminated>>

\* Not initialized any more: the connection is freed.
ReturnDropped(t) ==
    /\ ~terminated /\ pc[t] = "holding" /\ (~initialized \/ closing)
    /\ held' = [held EXCEPT ![t] = NoConn]
    /\ pc' = [pc EXCEPT ![t] = "idle"]
    /\ broken' = broken \ {held[t]}
    /\ UNCHANGED <<pool, initialized, closing, calls, tried, terminated>>

ReturnOpen(t) ==
    /\ ~terminated /\ pc[t] = "holding" /\ initialized /\ ~closing
    /\ held[t] \notin broken
    /\ Push(held[t], t)
    /\ UNCHANGED <<initialized, closing, calls, broken, tried, terminated>>

\* Slip: a connection that was lost is dropped, no new one is opened.
ReturnReconnected_Drops(t, c) ==
    /\ ~terminated /\ pc[t] = "holding" /\ initialized /\ ~closing
    /\ held[t] \in broken /\ c \in Fresh
    /\ held' = [held EXCEPT ![t] = NoConn]
    /\ pc' = [pc EXCEPT ![t] = "idle"]
    /\ broken' = broken \ {held[t]}
    /\ UNCHANGED <<pool, initialized, closing, calls, tried, terminated>>

\* The connection was lost: a new one takes its place.
ReturnReconnected(t, c) ==
    /\ ~terminated /\ pc[t] = "holding" /\ initialized /\ ~closing
    /\ held[t] \in broken /\ c \in Fresh
    /\ Push(c, t)
    /\ broken' = broken \ {held[t]}
    /\ UNCHANGED <<initialized, closing, calls, tried, terminated>>

\* The database cannot be reached: the constructor of pqxx::connection
\* throws through Return and Release out of a destructor, which is noexcept.
ReturnFails(t) ==
    /\ ~terminated /\ pc[t] = "holding" /\ initialized /\ ~closing
    /\ held[t] \in broken
    /\ terminated' = TRUE
    /\ UNCHANGED <<pool, initialized, closing, pc, held, calls, broken, tried>>

(* The database drops a connection, lent or idle.                          *)
ConnectionLost(c) ==
    /\ ~terminated /\ c \in (Pooled \cup Held) \ broken
    /\ broken' = broken \cup {c}
    /\ UNCHANGED <<pool, initialized, closing, pc, held, calls, tried, terminated>>

Return(t) == \/ ReturnDropped(t) \/ ReturnOpen(t) \/ ReturnFails(t)
             \/ \E c \in Conns : ReturnReconnected(t, c)

Next == \/ \E n \in 0 .. PoolSize : InitPool(n)
        \/ Close
        \/ \E t \in Threads : \/ BeginCall(t) \/ Acquire(t) \/ WakeUp(t)
                              \/ SpuriousWakeUp(t) \/ Return(t)
        \/ \E c \in Conns : ConnectionLost(c)

Spec == Init /\ [][Next]_vars

(* A thread that holds a connection ends its query, a thread that is woken *)
(* gets the mutex.  Nothing is assumed of Close, of the database, of the   *)
(* order in which threads get the mutex, or of spurious wake-ups.          *)
Fairness == \A t \in Threads : WF_vars(Acquire(t)) /\ WF_vars(WakeUp(t)) /\ WF_vars(Return(t))

FairSpec == Spec /\ Fairness

-----------------------------------------------------------------------------
(* The variables have their types, and a guard holds a connection exactly  *)
(* while its thread works with it.                                         *)
TypeOK ==
    /\ pool \in Seq(Conns)
    /\ initialized \in BOOLEAN /\ closing \in BOOLEAN
    /\ tried \in BOOLEAN /\ terminated \in BOOLEAN
    /\ pc \in [Threads -> {"idle", "checked", "waiting", "woken", "holding"}]
    /\ held \in [Threads -> Conns \cup {NoConn}]
    /\ calls \in [Threads -> Nat]
    /\ broken \subseteq Conns
    /\ \A t \in Threads : (pc[t] = "holding") <=> (held[t] # NoConn)

(* No connection is used by two threads, or lent while it is in the queue, *)
(* or queued twice: pqxx connections are not thread safe, and only the     *)
(* pool keeps two threads from sharing one.                                *)
Exclusive ==
    /\ Distinct(pool)
    /\ \A t \in Threads : held[t] \notin Pooled
    /\ \A t, u \in Threads : held[t] = held[u] /\ held[t] # NoConn => t = u

(* No connection leaks: whatever was lost and reopened, the idle and the   *)
(* lent ones are as many as Init opened, until Close.                      *)
Conserved == initialized => Len(pool) + Cardinality(Holders) = PoolSize

(* No wake-up is lost: while threads sleep in Acquire, every idle          *)
(* connection has a thread on its way to it.  A newcomer may take it       *)
(* first; the woken thread then sleeps again.                              *)
NoLostWakeup == Waiting # {} => Len(pool) <= Cardinality(Woken)

(* Close leaves nobody asleep: every waiter is woken to throw.             *)
NobodySleepsOnClosed == closing => Waiting = {}

(* PostgrePool keeps the promises of ConnectionPool: a thread in Acquire,   *)
(* asleep or not, is one that asks, a guard is a loan.  The bound on loans  *)
(* and that nobody is turned away too early, or asks a pool that has not   *)
(* been opened in full, rest on the bookkeeping of every other method.     *)
Phase == CASE ~tried -> "new"
           [] tried /\ initialized -> "open"
           [] tried /\ ~initialized /\ closing -> "closed"
           [] tried /\ ~initialized /\ ~closing -> "failed"

Asking == {t \in Threads : pc[t] \in {"checked", "waiting", "woken"}}

Promise == INSTANCE ConnectionPool
             WITH phase <- Phase, asking <- Asking, lent <- held, alive <- ~terminated

ImplementsConnectionPool == Promise!Spec

(* Every call comes to an end, with a connection or an exception, if the   *)
(* holders end their queries.  (With a bounded number of calls: the mutex  *)
(* lets newcomers overtake a woken thread again and again.)                *)
CallsEnd == \A t \in Threads : (pc[t] # "idle") ~> (pc[t] = "idle" \/ terminated)

(* README.md, "PostgreSQL connection pool": automatic reconnection.  A     *)
(* lost database connection does not bring the server down.                *)
AutoReconnect == ~terminated
=============================================================================
