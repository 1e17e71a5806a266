------------------------- MODULE UserService_proof -------------------------
(***************************************************************************)
(* UserService keeps the promises of UserRegistry, for any number of       *)
(* threads and requests.  What is known of the pool is taken from the      *)
(* theorems about it: every step of the service is a step of the pool or   *)
(* leaves it alone.                                                        *)
(***************************************************************************)
EXTENDS UserService, FiniteSetTheorems, TLAPS

PoolProof == INSTANCE PostgrePool_proof

PoolOK == Pool!TypeOK /\ Pool!Exclusive

LEMMA PoolAssumed == Pool!PoolAssumption
<1>1. QED BY ServiceAssumption DEF ServiceAssumption

LEMMA PoolStep == [Next]_vars => [Pool!Next]_(Pool!vars)
<1> SUFFICES ASSUME [Next]_vars PROVE [Pool!Next]_(Pool!vars)
  OBVIOUS
<1>1. UNCHANGED poolVars => UNCHANGED Pool!vars
  BY DEF poolVars, Pool!vars
<1>2. ASSUME NEW t \in Threads, GoOn(t) PROVE [Pool!Next]_(Pool!vars)
  <2>1. Acquire(t) => Pool!Next
    BY DEF Acquire, Pool!Next
  <2>2. WakeUp(t) => Pool!Next
    BY DEF WakeUp, Pool!Next
  <2>3. Return(t) => Pool!Next
    BY DEF Return, Pool!Next
  <2>4. CommitInDoubt(t) => Pool!Next
    BY DEF CommitInDoubt, Pool!Next
  <2>5. Insert(t) \/ Delete(t) \/ Select(t) \/ Throw(t) \/ Commit(t) \/ EndWork(t) \/ Reply(t)
          => UNCHANGED poolVars
    BY DEF Insert, Delete, Select, Throw, Commit, EndWork, Reply
  <2>6. QED BY <1>1, <1>2, <2>1, <2>2, <2>3, <2>4, <2>5 DEF GoOn
<1>3. ASSUME NEW t \in Threads, NEW r \in Requests, Call(t, r) PROVE [Pool!Next]_(Pool!vars)
  <2>1. UNCHANGED poolVars \/ Pool!BeginCall(t)
    BY <1>3 DEF Call
  <2>2. QED BY <1>1, <2>1 DEF Pool!Next
<1>4. CASE Environment
  BY <1>4 DEF Environment, ConnectionLost, Pool!Next
<1>5. CASE UNCHANGED vars
  BY <1>1, <1>5 DEF vars
<1>6. QED BY <1>2, <1>3, <1>4, <1>5 DEF Next

(* The pool of UserService and the pool of the theorems are one.           *)
LEMMA SamePool ==
    /\ Pool!Init = PoolProof!Init /\ Pool!vars = PoolProof!vars /\ Pool!Next = PoolProof!Next
    /\ Pool!TypeOK = PoolProof!TypeOK /\ Pool!Exclusive = PoolProof!Exclusive
    /\ Pool!PoolAssumption = PoolProof!PoolAssumption
<1>1. /\ Pool!Init = PoolProof!Init /\ Pool!vars = PoolProof!vars
      /\ Pool!TypeOK = PoolProof!TypeOK
  BY DEF Pool!Init, PoolProof!Init, Pool!vars, PoolProof!vars, Pool!TypeOK, PoolProof!TypeOK
<1>2. Pool!Exclusive = PoolProof!Exclusive
  BY DEF Pool!Exclusive, PoolProof!Exclusive, Pool!Distinct, PoolProof!Distinct,
         Pool!Pooled, PoolProof!Pooled
<1>3. Pool!Next = PoolProof!Next
  BY DEF Pool!Next, PoolProof!Next, Pool!InitPool, PoolProof!InitPool,
         Pool!Distinct, PoolProof!Distinct, Pool!Close, PoolProof!Close,
         Pool!BeginCall, PoolProof!BeginCall, Pool!Acquire, PoolProof!Acquire,
         Pool!WakeUp, PoolProof!WakeUp, Pool!WaitPredicate, PoolProof!WaitPredicate,
         Pool!AcquireThrows, PoolProof!AcquireThrows, Pool!Take, PoolProof!Take,
         Pool!SpuriousWakeUp, PoolProof!SpuriousWakeUp, Pool!Return, PoolProof!Return,
         Pool!ReturnDropped, PoolProof!ReturnDropped, Pool!ReturnOpen, PoolProof!ReturnOpen,
         Pool!ReturnFails, PoolProof!ReturnFails, Pool!Push, PoolProof!Push,
         Pool!ReturnReconnected, PoolProof!ReturnReconnected, Pool!Fresh, PoolProof!Fresh,
         Pool!NotifyOne, PoolProof!NotifyOne, Pool!ConnectionLost, PoolProof!ConnectionLost,
         Pool!Pooled, PoolProof!Pooled, Pool!Held, PoolProof!Held
<1>4. Pool!PoolAssumption = PoolProof!PoolAssumption
  BY DEF Pool!PoolAssumption, PoolProof!PoolAssumption, Pool!IsFiniteSet, PoolProof!IsFiniteSet, Pool!Cardinality, PoolProof!Cardinality
<1>5. QED BY <1>1, <1>2, <1>3, <1>4

(* The methods use the pool as PostgrePool says its callers do, in every    *)
(* behaviour: what is proved of the pool for any callers holds under them.  *)
THEOREM ServiceUsesThePool == Spec => Pool!Spec
<1>1. Init => Pool!Init
  BY DEF Init
<1>2. QED BY <1>1, PoolStep, PTL DEF Spec, Pool!Spec

(* What the pool promises is the same in both.                             *)
LEMMA SamePromise ==
    /\ PoolProof!Promise!Init => Pool!Promise!Init
    /\ [PoolProof!Promise!Next]_(PoolProof!Promise!vars)
         => [Pool!Promise!Next]_(Pool!Promise!vars)
<1>1. QED BY
  DEF Pool!Phase, PoolProof!Phase, Pool!Asking, PoolProof!Asking,
      Pool!Promise!Init, PoolProof!Promise!Init, Pool!Promise!vars, PoolProof!Promise!vars,
      Pool!Promise!Next, PoolProof!Promise!Next, Pool!Promise!Open, PoolProof!Promise!Open,
      Pool!Promise!Close, PoolProof!Promise!Close, Pool!Promise!Die, PoolProof!Promise!Die,
      Pool!Promise!Ask, PoolProof!Promise!Ask, Pool!Promise!Lend, PoolProof!Promise!Lend,
      Pool!Promise!TurnAway, PoolProof!Promise!TurnAway,
      Pool!Promise!GiveBack, PoolProof!Promise!GiveBack,
      Pool!Promise!Borrowers, PoolProof!Promise!Borrowers,
      Pool!Promise!Cardinality, PoolProof!Promise!Cardinality

(* Under the methods of UserService, too, the pool lends each connection to *)
(* one call, and turns a call away only once it has been closed.            *)
THEOREM ServiceKeepsThePromise == Spec => Pool!ImplementsConnectionPool
<1>1. Init => PoolProof!Init
  BY SamePool DEF Init
<1>2. [Next]_vars => [PoolProof!Next]_(PoolProof!vars)
  BY PoolStep, SamePool DEF Pool!vars, PoolProof!vars
<1>3. PoolProof!Spec => PoolProof!ImplementsConnectionPool
  BY PoolAssumed, SamePool, PoolProof!PoolImplementsPromise
<1>4. QED BY <1>1, <1>2, <1>3, SamePromise, PTL
          DEF Spec, PoolProof!Spec, Pool!ImplementsConnectionPool, Pool!Promise!Spec,
              PoolProof!ImplementsConnectionPool, PoolProof!Promise!Spec

LEMMA AlwaysPoolOK == Spec => []PoolOK
<1>1. Init => PoolProof!Init
  BY SamePool DEF Init
<1>2. [Next]_vars => [PoolProof!Next]_(PoolProof!vars)
  BY PoolStep, SamePool DEF Pool!vars, PoolProof!vars
<1>3. PoolProof!TypeOK /\ PoolProof!Exclusive => PoolOK
  BY SamePool DEF PoolOK
<1>4. PoolProof!Spec => []PoolProof!TypeOK
  BY PoolAssumed, SamePool, PoolProof!TypeCorrect
<1>5. PoolProof!Spec => []PoolProof!Exclusive
  BY PoolAssumed, SamePool, PoolProof!ConnectionsAreExclusive
<1>6. QED BY <1>1, <1>2, <1>3, <1>4, <1>5, PTL DEF Spec, PoolProof!Spec
-----------------------------------------------------------------------------
(* The inductive invariant.  Open(t): thread t is about to commit.         *)
Open(t) == pc[t] = "holding" /\ answer[t] = Undecided /\ tx[held[t]] # NoTx

Adds(c) == IF tx[c] = NoTx THEN {} ELSE tx[c].add
Removes(c) == IF tx[c] = NoTx THEN {} ELSE tx[c].remove

IdsFresh == /\ \A u \in table : u.id < nextId
            /\ \A c \in Conns : \A u \in Adds(c) \cup Removes(c) : u.id < nextId

IdsKnown == \A t \in Threads : call[t] # NoCall /\ call[t].method = "DeleteUser" =>
                /\ call[t].id < nextId
                /\ \A c \in Conns : \A u \in Adds(c) : u.id # call[t].id

KeysUnique == \A u, v \in table : u.id = v.id \/ u.name = v.name => u = v

(* Two open transactions touch different rows and add different names.     *)
Separate == \A c, d \in Conns : c # d =>
    /\ \A u \in Adds(c) \cup Removes(c), v \in Adds(d) \cup Removes(d) : u.id # v.id
    /\ \A u \in Adds(c), v \in Adds(d) : u.name # v.name

NothingEmpty == \A t \in Threads : call[t] # NoCall /\ answer[t] = Undecided => ~HasEmpty(call[t])

(* What a thread is about to commit is what its request asks for.          *)
Inserts(t) == /\ call[t].method = "Register" /\ Removes(held[t]) = {}
              /\ \E u \in Adds(held[t]) :
                                /\ Adds(held[t]) = {u}
                                /\ u.name = call[t].name
                                /\ u.password = HashPassword(call[t].password)
                                /\ \A v \in table : v.id # u.id /\ v.name # u.name

Deletes(t) == /\ call[t].method = "DeleteUser" /\ Adds(held[t]) = {}
              /\ Removes(held[t]) = {u \in table : u.id = call[t].id}

WorkIsAsked == \A t \in Threads : Open(t) => Inserts(t) \/ Deletes(t)

Inv == /\ TypeOK /\ CleanConnections /\ IdsFresh /\ IdsKnown /\ KeysUnique /\ Separate
       /\ NothingEmpty /\ WorkIsAsked
-----------------------------------------------------------------------------
(* What the steps of the pool do to the place and the guard of a thread.   *)
Places == {"idle", "checked", "waiting", "woken", "holding"}

LEMMA PoolFacts ==
    ASSUME PoolOK
    PROVE  /\ pc \in [Threads -> Places] /\ held \in [Threads -> Conns \cup {NoConn}]
           /\ \A t \in Threads : pc[t] = "holding" <=> held[t] # NoConn
           /\ \A t \in Threads : pc[t] = "holding" => held[t] \in Conns
           /\ \A t, u \in Threads : pc[t] = "holding" /\ pc[u] = "holding" /\ t # u
                                      => held[t] # held[u]
<1>1. QED BY PoolAssumed DEF PoolOK, Pool!PoolAssumption, Pool!TypeOK, Pool!Exclusive, Places

LEMMA WaitStep ==
    ASSUME PoolOK, NEW t \in Threads, Pool!Acquire(t) \/ Pool!WakeUp(t)
    PROVE  /\ pc[t] \in {"checked", "woken"} /\ pc'[t] \in {"idle", "waiting", "holding"}
           /\ \A u \in Threads \ {t} : pc'[u] = pc[u] /\ held'[u] = held[u]
           /\ pc'[t] = "holding" => /\ held'[t] \in Conns
                                    /\ \A u \in Threads : held[u] # held'[t]
<1>1. pc[t] \in {"checked", "woken"} /\ (Pool!AcquireThrows(t) \/ Pool!WaitPredicate(t))
  BY DEF Pool!Acquire, Pool!WakeUp
<1>2. pc[t] # "holding" /\ held[t] = NoConn
  BY <1>1, PoolFacts
<1>3. CASE Pool!AcquireThrows(t)
  BY <1>1, <1>3, PoolFacts DEF Pool!AcquireThrows
<1>4. CASE ~closing /\ pool # <<>> /\ Pool!Take(t)
  <2>1. /\ held' = [held EXCEPT ![t] = Head(pool)] /\ pc' = [pc EXCEPT ![t] = "holding"]
        /\ pool # <<>> /\ pool \in Seq(Conns)
    BY <1>4 DEF Pool!Take, PoolOK, Pool!TypeOK
  <2>2. Head(pool) \in Pool!Pooled
    <3>1. Head(pool) = pool[1] /\ 1 \in 1 .. Len(pool)
      BY <2>1
    <3>2. QED BY <3>1 DEF Pool!Pooled
  <2>3. \A u \in Threads : held[u] # Head(pool)
    BY <2>2 DEF PoolOK, Pool!Exclusive
  <2>4. Head(pool) \in Conns
    BY <2>1
  <2>5. QED BY <1>1, <2>1, <2>3, <2>4, PoolFacts
<1>5. CASE pc' = [pc EXCEPT ![t] = "waiting"] /\ UNCHANGED <<pool, held>>
  BY <1>1, <1>5, PoolFacts
<1>6. QED BY <1>1, <1>3, <1>4, <1>5 DEF Pool!WaitPredicate

LEMMA ReturnStep ==
    ASSUME PoolOK, NEW t \in Threads, Pool!Return(t)
    PROVE  /\ \/ pc'[t] = "idle" /\ held'[t] = NoConn
              \/ pc'[t] = pc[t] /\ held'[t] = held[t]
           /\ \A u \in Threads \ {t} : /\ held'[u] = held[u]
                                       /\ \/ pc'[u] = pc[u]
                                          \/ pc[u] = "waiting" /\ pc'[u] = "woken"
<1>1. pc[t] = "holding"
  BY DEF Pool!Return, Pool!ReturnDropped, Pool!ReturnOpen, Pool!ReturnReconnected,
         Pool!ReturnFails
<1>2. CASE Pool!ReturnDropped(t) \/ Pool!ReturnFails(t)
  BY <1>2, PoolFacts DEF Pool!ReturnDropped, Pool!ReturnFails
<1>3. ASSUME NEW c, Pool!Push(c, t)
      PROVE  /\ pc'[t] = "idle" /\ held'[t] = NoConn
             /\ \A u \in Threads \ {t} : /\ held'[u] = held[u]
                                         /\ \/ pc'[u] = pc[u]
                                            \/ pc[u] = "waiting" /\ pc'[u] = "woken"
  <2> DEFINE p == [pc EXCEPT ![t] = "idle"]
  <2>1. held' = [held EXCEPT ![t] = NoConn] /\ Pool!NotifyOne(p)
    BY <1>3 DEF Pool!Push
  <2>2. p[t] = "idle" /\ \A u \in Threads \ {t} : p[u] = pc[u]
    BY PoolFacts
  <2>3. p \in [Threads -> Places]
    BY PoolFacts DEF Places
  <2>4. pc' = p \/ \E w \in Threads : p[w] = "waiting" /\ pc' = [p EXCEPT ![w] = "woken"]
    BY <2>1 DEF Pool!NotifyOne
  <2> HIDE DEF p
  <2>5. QED BY <2>1, <2>2, <2>3, <2>4, PoolFacts
<1>4. QED BY <1>2, <1>3 DEF Pool!Return, Pool!ReturnOpen, Pool!ReturnReconnected

-----------------------------------------------------------------------------
(* Nothing that is known of the rows changes while the table stays and      *)
(* transactions only end.                                                   *)
LEMMA TransactionsEnd ==
    ASSUME Inv, UNCHANGED <<table, nextId, call>>,
           \A c \in Conns : Adds(c)' \subseteq Adds(c) /\ Removes(c)' \subseteq Removes(c)
    PROVE  IdsFresh' /\ IdsKnown' /\ KeysUnique' /\ Separate'
<1>1. IdsFresh'
  BY DEF Inv, IdsFresh
<1>2. IdsKnown'
  BY DEF Inv, IdsKnown
<1>3. KeysUnique'
  BY DEF Inv, KeysUnique
<1>4. Separate'
  BY DEF Inv, Separate
<1>5. QED BY <1>1, <1>2, <1>3, <1>4

LEMMA SameWork ==
    ASSUME Inv, UNCHANGED table, NEW t \in Threads, Open(t), call'[t] = call[t],
           held'[t] = held[t], tx'[held[t]] = tx[held[t]]
    PROVE  (Inserts(t) \/ Deletes(t))'
<1>1. Adds(held[t])' = Adds(held[t]) /\ Removes(held[t])' = Removes(held[t])
  BY DEF Adds, Removes
<1>2. Inserts(t) \/ Deletes(t)
  BY DEF Inv, WorkIsAsked
<1>3. CASE Inserts(t)
  BY <1>1, <1>3 DEF Inserts, Adds, Removes
<1>4. CASE Deletes(t)
  BY <1>1, <1>4 DEF Deletes, Adds, Removes
<1>5. QED BY <1>2, <1>3, <1>4

LEMMA WorkKept ==
    ASSUME Inv, UNCHANGED table,
           \A t \in Threads : Open(t)' => /\ Open(t) /\ call'[t] = call[t]
                                          /\ held'[t] = held[t] /\ tx'[held[t]] = tx[held[t]]
    PROVE  WorkIsAsked'
<1>1. QED BY SameWork DEF WorkIsAsked

(* A step that leaves table, transactions and requests alone.              *)
LEMMA Quiet ==
    ASSUME Inv, UNCHANGED <<table, nextId, tx, call>>, TypeOK', CleanConnections', NothingEmpty',
           \A t \in Threads : Open(t)' => Open(t) /\ held'[t] = held[t]
    PROVE  Inv'
<1>1. IdsFresh' /\ IdsKnown' /\ KeysUnique' /\ Separate'
  BY TransactionsEnd DEF Adds, Removes
<1>2. WorkIsAsked'
  BY WorkKept
<1>3. QED BY <1>1, <1>2 DEF Inv
-----------------------------------------------------------------------------
LEMMA FailureIsAnswer == Failure \in Answers /\ Failure # Undecided
<1>1. Failure \in Answers
  BY DEF Failure, Said, Answers
<1>2. QED BY <1>1, ServiceAssumption DEF ServiceAssumption

LEMMA InitInv == Init => Inv
<1> SUFFICES ASSUME Init PROVE Inv
  OBVIOUS
<1>1. /\ table = {} /\ nextId = 1 /\ tx = [c \in Conns |-> NoTx]
      /\ \A t \in Threads : pc[t] = "idle" /\ call[t] = NoCall /\ answer[t] = Undecided
  BY DEF Init, Pool!Init
<1>2. TypeOK
  BY <1>1 DEF Init, TypeOK
<1>3. CleanConnections /\ NothingEmpty /\ WorkIsAsked
  BY <1>1 DEF CleanConnections, NothingEmpty, WorkIsAsked, Open
<1>4. IdsFresh /\ IdsKnown /\ KeysUnique /\ Separate
  BY <1>1 DEF IdsFresh, IdsKnown, KeysUnique, Separate, Adds, Removes
<1>5. QED BY <1>2, <1>3, <1>4 DEF Inv

LEMMA CallKeepsInv ==
    ASSUME Inv, PoolOK, NEW t \in Threads, NEW r \in Requests, Call(t, r)
    PROVE  Inv'
<1>1. /\ call[t] = NoCall /\ Known(r) /\ call' = [call EXCEPT ![t] = r]
      /\ UNCHANGED <<table, nextId, tx>>
      /\ pc[t] = "idle" /\ answer[t] = Undecided
  BY DEF Call, Inv, TypeOK
<1>2. r # NoCall /\ r \in AllRequests
  BY ServiceAssumption DEF ServiceAssumption
<1>3. /\ \/ pc'[t] = "idle" /\ answer' = [answer EXCEPT ![t] = Failure]
         \/ pc'[t] = "checked" /\ ~HasEmpty(r) /\ answer' = [answer EXCEPT ![t] = Undecided]
      /\ \A u \in Threads \ {t} : pc'[u] = pc[u]
      /\ held' = held
  <2>1. CASE HasEmpty(r)
    BY <1>1, <2>1 DEF Call, Fill, poolVars
  <2>2. CASE ~HasEmpty(r)
    <3>1. PICK s \in {"checked", "idle"} : pc' = [pc EXCEPT ![t] = s]
      BY <2>2 DEF Call, Pool!BeginCall
    <3>2. pc'[t] = s /\ \A u \in Threads \ {t} : pc'[u] = pc[u]
      BY <3>1, PoolFacts
    <3>3. held' = held /\ answer' = [answer EXCEPT ![t] = IF pc'[t] = "checked"
                                                         THEN Undecided ELSE Failure]
      BY <2>2 DEF Call, Pool!BeginCall, Fill
    <3>4. QED BY <2>2, <3>1, <3>2, <3>3
  <2>3. QED BY <2>1, <2>2
<1>4. answer \in [Threads -> Answers \cup {Undecided}]
  BY DEF Inv, TypeOK
<1>5. /\ \A u \in Threads \ {t} : answer'[u] = answer[u] /\ call'[u] = call[u]
      /\ call'[t] = r /\ (answer'[t] = Undecided => ~HasEmpty(r))
      /\ pc'[t] = "idle" <=> answer'[t] # Undecided
      /\ pc'[t] \in {"idle", "checked"}
  BY <1>1, <1>3, <1>4, FailureIsAnswer DEF Inv, TypeOK
<1>6. TypeOK'
  <2>1. call' \in [Threads -> Requests \cup {NoCall}]
    BY <1>1 DEF Inv, TypeOK
  <2>2. answer' \in [Threads -> Answers \cup {Undecided}]
    BY <1>3, <1>4, FailureIsAnswer
  <2>3. \A u \in Threads :
         /\ (call'[u] = NoCall) <=> (pc'[u] = "idle" /\ answer'[u] = Undecided)
         /\ pc'[u] \notin {"idle", "holding"} => answer'[u] = Undecided
    BY <1>2, <1>3, <1>5 DEF Inv, TypeOK
  <2>4. QED BY <1>1, <2>1, <2>2, <2>3 DEF Inv, TypeOK
<1>7. CleanConnections'
  BY <1>1, <1>3 DEF Inv, CleanConnections
<1>8. NothingEmpty'
  BY <1>5 DEF Inv, NothingEmpty, HasEmpty
<1>9. IdsFresh' /\ KeysUnique' /\ Separate'
  BY <1>1 DEF Inv, IdsFresh, KeysUnique, Separate, Adds, Removes
<1>10. IdsKnown'
  <2>1. r.method = "DeleteUser" => /\ r.id < nextId
                                   /\ \A c \in Conns : \A u \in Adds(c) : u.id # r.id
    BY <1>1 DEF Known, Adds
  <2>2. QED BY <1>1, <1>5, <2>1 DEF Inv, IdsKnown, Adds
<1>11. WorkIsAsked'
  <2>1. \A u \in Threads : Open(u)' => u # t /\ Open(u)
    BY <1>1, <1>3, <1>5 DEF Open
  <2>2. QED BY <1>1, <1>3, <1>5, <2>1, WorkKept
<1>12. QED BY <1>6, <1>7, <1>8, <1>9, <1>10, <1>11 DEF Inv

LEMMA WaitKeepsInv ==
    ASSUME Inv, PoolOK, NEW t \in Threads, Acquire(t) \/ WakeUp(t)
    PROVE  Inv'
<1>1. /\ Pool!Acquire(t) \/ Pool!WakeUp(t)
      /\ answer' = [answer EXCEPT ![t] = IF pc'[t] = "idle" THEN Failure ELSE Undecided]
      /\ UNCHANGED <<table, nextId, tx, call>>
  BY DEF Acquire, WakeUp, Acquired, Fill
<1>2. /\ pc[t] \in {"checked", "woken"} /\ pc'[t] \in {"idle", "waiting", "holding"}
      /\ \A u \in Threads \ {t} : pc'[u] = pc[u] /\ held'[u] = held[u]
      /\ pc'[t] = "holding" => held'[t] \in Conns /\ \A u \in Threads : held[u] # held'[t]
  BY <1>1, WaitStep
<1>3. answer \in [Threads -> Answers \cup {Undecided}] /\ answer[t] = Undecided
  BY <1>2 DEF Inv, TypeOK
<1>4. /\ \A u \in Threads \ {t} : answer'[u] = answer[u]
      /\ answer'[t] = IF pc'[t] = "idle" THEN Failure ELSE Undecided
      /\ answer' \in [Threads -> Answers \cup {Undecided}]
  BY <1>1, <1>3, FailureIsAnswer
<1>5. TypeOK'
  <2>1. call[t] # NoCall
    BY <1>2 DEF Inv, TypeOK
  <2>2. \A u \in Threads :
         /\ (call'[u] = NoCall) <=> (pc'[u] = "idle" /\ answer'[u] = Undecided)
         /\ pc'[u] \notin {"idle", "holding"} => answer'[u] = Undecided
    BY <1>1, <1>2, <1>4, <2>1, FailureIsAnswer DEF Inv, TypeOK
  <2>3. QED BY <1>1, <1>4, <2>2 DEF Inv, TypeOK
<1>6. CleanConnections'
  BY <1>1, <1>2 DEF Inv, CleanConnections
<1>7. NothingEmpty'
  BY <1>1, <1>3, <1>4 DEF Inv, NothingEmpty, HasEmpty
<1>8. \A u \in Threads : Open(u)' => Open(u) /\ held'[u] = held[u]
  <2>1. ~Open(t)'
    <3>1. ASSUME pc'[t] = "holding" PROVE tx[held'[t]] = NoTx
      BY <1>2, <3>1 DEF Inv, CleanConnections
    <3>2. QED BY <1>1, <3>1 DEF Open
  <2>2. QED BY <1>1, <1>2, <1>4, <2>1 DEF Open
<1>9. QED BY <1>1, <1>5, <1>6, <1>7, <1>8, Quiet
-----------------------------------------------------------------------------
(* A thread that sends its statement begins a transaction on a connection   *)
(* that is its own and has none.                                           *)
LEMMA BeginStep ==
    ASSUME Inv, PoolOK, NEW t \in Threads, Ready(t),
           NEW add \in SUBSET Row, NEW remove \in SUBSET Row, Begin(t, add, remove),
           UNCHANGED poolVars
    PROVE  /\ pc[t] = "holding" /\ held[t] \in Conns /\ answer[t] = Undecided
           /\ call[t] # NoCall /\ call[t] \in Requests
           /\ tx' \in [Conns -> Transactions \cup {NoTx}]
           /\ Adds(held[t]) = {} /\ Removes(held[t]) = {}
           /\ Adds(held[t])' = add /\ Removes(held[t])' = remove
           /\ \A c \in Conns \ {held[t]} :
                tx'[c] = tx[c] /\ Adds(c)' = Adds(c) /\ Removes(c)' = Removes(c)
           /\ \A u \in Threads \ {t} : pc[u] = "holding" => held[u] # held[t]
           /\ CleanConnections' /\ UNCHANGED <<pc, held>>
<1>1. pc[t] = "holding" /\ answer[t] = Undecided /\ tx[held[t]] = NoTx
  BY DEF Ready
<1>2. held[t] \in Conns /\ \A u \in Threads \ {t} : pc[u] = "holding" => held[u] # held[t]
  BY <1>1, PoolFacts
<1>3. Transaction(add, remove) \in Transactions /\ Transaction(add, remove) # NoTx
  <2>1. Transaction(add, remove) \in Transactions
    BY DEF Transaction, Transactions
  <2>2. QED BY <2>1, ServiceAssumption DEF ServiceAssumption
<1>4. /\ tx' = [tx EXCEPT ![held[t]] = Transaction(add, remove)]
      /\ tx \in [Conns -> Transactions \cup {NoTx}]
  BY DEF Begin, Inv, TypeOK
<1>5. /\ tx' \in [Conns -> Transactions \cup {NoTx}]
      /\ tx'[held[t]] = Transaction(add, remove)
      /\ \A c \in Conns \ {held[t]} : tx'[c] = tx[c]
  BY <1>2, <1>3, <1>4
<1>6. Adds(held[t]) = {} /\ Removes(held[t]) = {}
  BY <1>1 DEF Adds, Removes
<1>7. UNCHANGED <<pc, held>>
  BY DEF poolVars
<1>8. Adds(held[t])' = add /\ Removes(held[t])' = remove
  BY <1>3, <1>5, <1>7 DEF Adds, Removes, Transaction
<1>9. \A c \in Conns \ {held[t]} : Adds(c)' = Adds(c) /\ Removes(c)' = Removes(c)
  BY <1>5 DEF Adds, Removes
<1>10. call[t] # NoCall /\ call[t] \in Requests
  BY <1>1 DEF Inv, TypeOK
<1>11. CleanConnections'
  BY <1>1, <1>2, <1>5, <1>7 DEF Inv, CleanConnections
<1>12. QED BY <1>1, <1>2, <1>5, <1>6, <1>7, <1>8, <1>9, <1>10, <1>11

(* An answer in place of Undecided, for a thread that holds a connection.   *)
LEMMA FillStep ==
    ASSUME Inv, NEW t \in Threads, pc[t] = "holding", NEW a \in Answers, Fill(t, a)
    PROVE  /\ answer' \in [Threads -> Answers \cup {Undecided}]
           /\ answer'[t] = a /\ a # Undecided
           /\ \A u \in Threads \ {t} : answer'[u] = answer[u]
<1>1. answer \in [Threads -> Answers \cup {Undecided}] /\ a # Undecided
  BY ServiceAssumption DEF Inv, TypeOK, ServiceAssumption
<1>2. QED BY <1>1 DEF Fill

(* A statement that writes nothing: a SELECT, or an INSERT that failed.    *)
LEMMA EmptyBegin ==
    ASSUME Inv, PoolOK, NEW t \in Threads, Ready(t), Begin(t, {}, {}),
           NEW a \in Answers, Fill(t, a),
           UNCHANGED <<poolVars, table, call>>, nextId' = nextId \/ nextId' = nextId + 1
    PROVE  Inv'
<1>1. /\ pc[t] = "holding" /\ held[t] \in Conns /\ call[t] # NoCall
      /\ tx' \in [Conns -> Transactions \cup {NoTx}]
      /\ Adds(held[t])' = {} /\ Removes(held[t])' = {}
      /\ \A c \in Conns \ {held[t]} :
           tx'[c] = tx[c] /\ Adds(c)' = Adds(c) /\ Removes(c)' = Removes(c)
      /\ \A u \in Threads \ {t} : pc[u] = "holding" => held[u] # held[t]
      /\ CleanConnections' /\ UNCHANGED <<pc, held>>
  BY BeginStep
<1>2. /\ answer' \in [Threads -> Answers \cup {Undecided}]
      /\ answer'[t] # Undecided
      /\ \A u \in Threads \ {t} : answer'[u] = answer[u]
  BY <1>1, FillStep
<1>3. \A c \in Conns : Adds(c)' \subseteq Adds(c) /\ Removes(c)' \subseteq Removes(c)
  BY <1>1
<1>4. nextId \in Nat /\ nextId' \in Nat /\ nextId <= nextId'
  BY DEF Inv, TypeOK
<1>5. table \in SUBSET Row /\ \A c \in Conns : Adds(c) \in SUBSET Row /\ Removes(c) \in SUBSET Row
  BY DEF Inv, TypeOK, Adds, Removes, Transactions
<1>6. TypeOK'
  BY <1>1, <1>2, <1>4 DEF Inv, TypeOK
<1>7. IdsFresh'
  BY <1>3, <1>4, <1>5 DEF Inv, IdsFresh, Row
<1>8. IdsKnown'
  <2>1. ASSUME NEW u \in Threads, call'[u] # NoCall, call'[u].method = "DeleteUser"
        PROVE  call'[u].id < nextId' /\ \A c \in Conns : \A v \in Adds(c)' : v.id # call'[u].id
    <3>1. /\ call[u].id < nextId /\ \A c \in Conns : \A v \in Adds(c) : v.id # call[u].id
          /\ call'[u] = call[u]
      BY <2>1 DEF Inv, IdsKnown
    <3>2. call[u].id \in Int
      BY <2>1, <3>1, ServiceAssumption DEF Inv, TypeOK, AllRequests, ServiceAssumption
    <3>3. QED BY <1>3, <1>4, <3>1, <3>2
  <2>2. QED BY <2>1 DEF IdsKnown
<1>9. KeysUnique' /\ Separate'
  BY <1>3 DEF Inv, KeysUnique, Separate
<1>10. NothingEmpty'
  BY <1>2 DEF Inv, NothingEmpty, HasEmpty
<1>11. WorkIsAsked'
  <2>1. \A u \in Threads : Open(u)' => u # t /\ Open(u) /\ tx'[held[u]] = tx[held[u]]
    <3>1. SUFFICES ASSUME NEW u \in Threads, Open(u)'
                   PROVE  u # t /\ Open(u) /\ tx'[held[u]] = tx[held[u]]
      OBVIOUS
    <3>2. u # t /\ pc[u] = "holding" /\ answer[u] = Undecided /\ tx'[held[u]] # NoTx
      BY <1>1, <1>2, <3>1 DEF Open
    <3>3. held[u] \in Conns \ {held[t]}
      BY <1>1, <3>2, PoolFacts
    <3>4. QED BY <1>1, <3>2, <3>3 DEF Open
  <2>2. QED BY <1>1, <2>1, WorkKept
<1>12. QED BY <1>1, <1>6, <1>7, <1>8, <1>9, <1>10, <1>11 DEF Inv
LEMMA InsertKeepsInv == ASSUME Inv, PoolOK, NEW t \in Threads, Insert(t) PROVE Inv'
<1> DEFINE n == call[t].name
           row == [id |-> nextId, name |-> n, password |-> HashPassword(call[t].password)]
<1>1. /\ Ready(t) /\ call[t].method = "Register" /\ nextId' = nextId + 1
      /\ \A u \in Pending : u.name # n
      /\ UNCHANGED <<poolVars, table, call>>
  BY DEF Insert
<1>2. CASE Begin(t, {}, {}) /\ Fill(t, Failure)
  BY <1>1, <1>2, EmptyBegin, FailureIsAnswer
<1>3. CASE ~NameTaken(n) /\ Begin(t, {row}, {}) /\ UNCHANGED answer
  <2>1. call[t] # NoCall /\ call[t] \in Requests
    BY <1>1 DEF Ready, Inv, TypeOK
  <2>2. call[t].name \in STRING /\ call[t].password \in STRING
    BY <1>1, <2>1, ServiceAssumption DEF ServiceAssumption, AllRequests
  <2>3. nextId \in Nat /\ table \in SUBSET Row
    BY DEF Inv, TypeOK
  <2>4. row \in Row
    BY <2>2, <2>3 DEF Row, HashPassword
  <2>5. /\ row.id = nextId /\ row.name = n
        /\ row.password = HashPassword(call[t].password)
    OBVIOUS
  <2> HIDE DEF row, n
  <2>6. {row} \in SUBSET Row /\ {} \in SUBSET Row
    BY <2>4
  <2>7. /\ pc[t] = "holding" /\ held[t] \in Conns /\ answer[t] = Undecided
        /\ tx' \in [Conns -> Transactions \cup {NoTx}]
        /\ Adds(held[t])' = {row} /\ Removes(held[t])' = {}
        /\ \A c \in Conns \ {held[t]} :
             tx'[c] = tx[c] /\ Adds(c)' = Adds(c) /\ Removes(c)' = Removes(c)
        /\ \A u \in Threads \ {t} : pc[u] = "holding" => held[u] # held[t]
        /\ CleanConnections' /\ UNCHANGED <<pc, held>>
    BY <1>1, <1>3, <2>6, BeginStep
  <2>8. \A c \in Conns : \A u \in Adds(c) \cup Removes(c) : u \in Pending /\ u \in Row
    BY DEF Adds, Removes, Pending, Inv, TypeOK, Transactions
  <2>9. TypeOK'
    BY <1>1, <1>3, <2>3, <2>7 DEF Inv, TypeOK
  <2>10. IdsFresh'
    <3>1. \A u \in table : u.id < nextId'
      BY <1>1, <2>3 DEF Inv, IdsFresh, Row
    <3>2. \A c \in Conns : \A u \in Adds(c) \cup Removes(c) : u.id < nextId'
      BY <1>1, <2>3, <2>8 DEF Inv, IdsFresh, Row
    <3>3. row.id < nextId'
      BY <1>1, <2>3, <2>5
    <3>4. \A c \in Conns : \A u \in Adds(c)' \cup Removes(c)' : u.id < nextId'
      BY <2>7, <3>2, <3>3
    <3>5. QED BY <1>1, <3>1, <3>4 DEF IdsFresh
  <2>11. IdsKnown'
    <3>1. ASSUME NEW u \in Threads, call[u] # NoCall, call[u].method = "DeleteUser"
          PROVE  call[u].id < nextId' /\ \A c \in Conns : \A v \in Adds(c)' : v.id # call[u].id
      <4>1. call[u].id < nextId /\ \A c \in Conns : \A v \in Adds(c) : v.id # call[u].id
        BY <3>1 DEF Inv, IdsKnown
      <4>2. call[u].id \in Int
        BY <3>1, ServiceAssumption DEF Inv, TypeOK, AllRequests, ServiceAssumption
      <4>3. row.id # call[u].id /\ call[u].id < nextId'
        BY <1>1, <2>3, <2>5, <4>1, <4>2
      <4>4. QED BY <2>7, <4>1, <4>3
    <3>2. QED BY <1>1, <3>1 DEF IdsKnown
  <2>12. Separate'
    <3>1. \A c \in Conns \ {held[t]} :
            /\ \A u \in Adds(c) \cup Removes(c) : u.id # row.id
            /\ \A u \in Adds(c) : u.name # row.name
      <4>1. ASSUME NEW c \in Conns, NEW u \in Adds(c) \cup Removes(c)
            PROVE  u.id # row.id /\ u.name # row.name
        <5>1. u.id < nextId /\ u \in Row
          BY <2>8 DEF Inv, IdsFresh
        <5>2. u.name # n
          BY <1>1, <2>8
        <5>3. QED BY <2>3, <2>5, <5>1, <5>2 DEF Row
      <4>2. QED BY <4>1
    <3>2. SUFFICES ASSUME NEW c \in Conns, NEW d \in Conns, c # d
                   PROVE  /\ \A u \in Adds(c)' \cup Removes(c)', v \in Adds(d)' \cup Removes(d)' :
                               u.id # v.id
                          /\ \A u \in Adds(c)', v \in Adds(d)' : u.name # v.name
      BY DEF Separate
    <3>3. CASE c = held[t]
      BY <2>7, <3>1, <3>2, <3>3
    <3>4. CASE d = held[t]
      BY <2>7, <3>1, <3>2, <3>4
    <3>5. CASE c # held[t] /\ d # held[t]
      BY <2>7, <3>2, <3>5 DEF Inv, Separate
    <3>6. QED BY <3>3, <3>4, <3>5
  <2>13. KeysUnique' /\ NothingEmpty'
    BY <1>1, <1>3 DEF Inv, KeysUnique, NothingEmpty, HasEmpty
  <2>14. WorkIsAsked'
    <3>1. SUFFICES ASSUME NEW u \in Threads, Open(u)' PROVE (Inserts(u) \/ Deletes(u))'
      BY DEF WorkIsAsked
    <3>2. CASE u = t
      <4>1. \A v \in table : v.id # row.id /\ v.name # row.name
        <5>1. \A v \in table : v.id < nextId /\ v \in Row /\ v.name # n
          BY <1>3, <2>3 DEF Inv, IdsFresh, NameTaken
        <5>2. QED BY <2>3, <2>5, <5>1 DEF Row
      <4>2. Inserts(t)'
        BY <1>1, <2>5, <2>7, <4>1 DEF Inserts, n, HashPassword
      <4>3. QED BY <3>2, <4>2
    <3>3. CASE u # t
      <4>1. pc[u] = "holding" /\ held[u] \in Conns \ {held[t]} /\ held'[u] = held[u]
        BY <2>7, <3>1, <3>3, PoolFacts DEF Open
      <4>2. Open(u) /\ call'[u] = call[u] /\ tx'[held[u]] = tx[held[u]]
        BY <1>1, <1>3, <2>7, <3>1, <4>1 DEF Open
      <4>3. QED BY <1>1, <4>1, <4>2, SameWork
    <3>4. QED BY <3>2, <3>3
  <2>15. QED BY <2>7, <2>9, <2>10, <2>11, <2>12, <2>13, <2>14 DEF Inv
<1>4. QED BY <1>2, <1>3 DEF Insert
LEMMA DeleteKeepsInv == ASSUME Inv, PoolOK, NEW t \in Threads, Delete(t) PROVE Inv'
<1> DEFINE i == call[t].id
           rows == {u \in table : u.id = i}
<1>1. /\ Ready(t) /\ call[t].method = "DeleteUser" /\ \A u \in Pending : u.id # i
      /\ Begin(t, {}, rows) /\ UNCHANGED <<poolVars, table, nextId, call, answer>>
  BY DEF Delete
<1>2. table \in SUBSET Row /\ rows \in SUBSET Row /\ {} \in SUBSET Row
  BY DEF Inv, TypeOK
<1>3. \A u \in rows : u \in table /\ u.id = i
  OBVIOUS
<1>4. rows = {u \in table : u.id = call[t].id}
  OBVIOUS
<1> HIDE DEF i, rows
<1>5. /\ pc[t] = "holding" /\ held[t] \in Conns /\ answer[t] = Undecided
      /\ tx' \in [Conns -> Transactions \cup {NoTx}]
      /\ Adds(held[t])' = {} /\ Removes(held[t])' = rows
      /\ \A c \in Conns \ {held[t]} :
           tx'[c] = tx[c] /\ Adds(c)' = Adds(c) /\ Removes(c)' = Removes(c)
      /\ \A u \in Threads \ {t} : pc[u] = "holding" => held[u] # held[t]
      /\ CleanConnections' /\ UNCHANGED <<pc, held>>
  BY <1>1, <1>2, BeginStep
<1>6. \A c \in Conns : \A u \in Adds(c) \cup Removes(c) : u.id # i
  BY <1>1 DEF Adds, Removes, Pending
<1>7. TypeOK'
  BY <1>1, <1>5 DEF Inv, TypeOK
<1>8. IdsFresh'
  <2>1. \A u \in rows : u.id < nextId
    BY <1>3 DEF Inv, IdsFresh
  <2>2. QED BY <1>1, <1>5, <2>1 DEF Inv, IdsFresh
<1>9. IdsKnown'
  BY <1>1, <1>5 DEF Inv, IdsKnown
<1>10. Separate'
  <2>1. SUFFICES ASSUME NEW c \in Conns, NEW d \in Conns, c # d
                 PROVE  /\ \A u \in Adds(c)' \cup Removes(c)', v \in Adds(d)' \cup Removes(d)' :
                             u.id # v.id
                        /\ \A u \in Adds(c)', v \in Adds(d)' : u.name # v.name
    BY DEF Separate
  <2>2. CASE c = held[t]
    BY <1>3, <1>5, <1>6, <2>1, <2>2
  <2>3. CASE d = held[t]
    BY <1>3, <1>5, <1>6, <2>1, <2>3
  <2>4. CASE c # held[t] /\ d # held[t]
    BY <1>5, <2>1, <2>4 DEF Inv, Separate
  <2>5. QED BY <2>2, <2>3, <2>4
<1>11. KeysUnique' /\ NothingEmpty'
  BY <1>1 DEF Inv, KeysUnique, NothingEmpty, HasEmpty
<1>12. WorkIsAsked'
  <2>1. SUFFICES ASSUME NEW u \in Threads, Open(u)' PROVE (Inserts(u) \/ Deletes(u))'
    BY DEF WorkIsAsked
  <2>2. CASE u = t
    <3>1. Deletes(t)'
      BY <1>1, <1>4, <1>5 DEF Deletes
    <3>2. QED BY <2>2, <3>1
  <2>3. CASE u # t
    <3>1. pc[u] = "holding" /\ held[u] \in Conns \ {held[t]} /\ held'[u] = held[u]
      BY <1>5, <2>1, <2>3, PoolFacts DEF Open
    <3>2. Open(u) /\ call'[u] = call[u] /\ tx'[held[u]] = tx[held[u]]
      BY <1>1, <1>5, <2>1, <3>1 DEF Open
    <3>3. QED BY <1>1, <3>1, <3>2, SameWork
  <2>4. QED BY <2>2, <2>3
<1>13. QED BY <1>5, <1>7, <1>8, <1>9, <1>10, <1>11, <1>12 DEF Inv

LEMMA SelectKeepsInv == ASSUME Inv, PoolOK, NEW t \in Threads, Select(t) PROVE Inv'
<1> DEFINE found == {[id |-> u.id, name |-> u.name] : u \in Selected(call[t])}
<1>1. /\ Ready(t) /\ call[t].method \notin {"Register", "DeleteUser"} /\ Begin(t, {}, {})
      /\ Fill(t, Said(found # {}, found)) /\ UNCHANGED <<poolVars, table, nextId, call>>
  BY DEF Select
<1>2. call[t] \in AllRequests
  BY <1>1, ServiceAssumption DEF Ready, Inv, TypeOK, ServiceAssumption
<1>3. Selected(call[t]) \subseteq table
  BY <1>1, <1>2 DEF Selected, AllRequests
<1>4. Said(found # {}, found) \in Answers
  <2>1. \A u \in Selected(call[t]) : u.id \in Nat /\ u.name \in STRING
    BY <1>3 DEF Inv, TypeOK, Row
  <2>2. found \in SUBSET [id : Nat, name : STRING]
    BY <2>1
  <2> HIDE DEF found
  <2>3. QED BY <2>2 DEF Said, Answers
<1>5. QED BY <1>1, <1>4, EmptyBegin
-----------------------------------------------------------------------------
(* The transaction of a connection is closed.                              *)
LEMMA CloseStep ==
    ASSUME Inv, NEW c \in Conns, CloseTx(c)
    PROVE  /\ tx' \in [Conns -> Transactions \cup {NoTx}]
           /\ tx'[c] = NoTx /\ Adds(c)' = {} /\ Removes(c)' = {}
           /\ \A d \in Conns \ {c} :
                tx'[d] = tx[d] /\ Adds(d)' = Adds(d) /\ Removes(d)' = Removes(d)
<1>1. tx' = [tx EXCEPT ![c] = NoTx] /\ tx \in [Conns -> Transactions \cup {NoTx}]
  BY DEF CloseTx, Inv, TypeOK
<1>2. /\ tx' \in [Conns -> Transactions \cup {NoTx}]
      /\ tx'[c] = NoTx /\ \A d \in Conns \ {c} : tx'[d] = tx[d]
  BY <1>1
<1>3. QED BY <1>2 DEF Adds, Removes

(* It is rolled back: by ~work, or because its connection is lost.         *)
LEMMA RollbackKeepsInv ==
    ASSUME Inv, PoolOK, NEW c \in Conns, CloseTx(c),
           UNCHANGED <<table, nextId, call, pc, held>>,
           \/ UNCHANGED answer
           \/ \E t \in Threads : /\ pc[t] = "holding" /\ held[t] = c /\ Fill(t, Failure)
    PROVE  Inv'
<1>1. /\ tx' \in [Conns -> Transactions \cup {NoTx}]
      /\ tx'[c] = NoTx /\ Adds(c)' = {} /\ Removes(c)' = {}
      /\ \A d \in Conns \ {c} :
           tx'[d] = tx[d] /\ Adds(d)' = Adds(d) /\ Removes(d)' = Removes(d)
  BY CloseStep
<1>2. /\ answer' \in [Threads -> Answers \cup {Undecided}]
      /\ \A u \in Threads : \/ answer'[u] = answer[u]
                            \/ pc[u] = "holding" /\ answer'[u] # Undecided
  <2>1. CASE UNCHANGED answer
    BY <2>1 DEF Inv, TypeOK
  <2>2. ASSUME NEW t \in Threads, pc[t] = "holding", Fill(t, Failure)
        PROVE  /\ answer' \in [Threads -> Answers \cup {Undecided}]
               /\ answer'[t] # Undecided
               /\ \A u \in Threads \ {t} : answer'[u] = answer[u]
    BY <2>2, FillStep, FailureIsAnswer
  <2>3. QED BY <2>1, <2>2
<1>3. IdsFresh' /\ IdsKnown' /\ KeysUnique' /\ Separate'
  BY <1>1, TransactionsEnd
<1>4. TypeOK'
  BY <1>1, <1>2 DEF Inv, TypeOK
<1>5. CleanConnections'
  BY <1>1 DEF Inv, CleanConnections
<1>6. NothingEmpty'
  BY <1>2 DEF Inv, NothingEmpty, HasEmpty
<1>7. WorkIsAsked'
  <2>1. ASSUME NEW u \in Threads, Open(u)'
        PROVE  Open(u) /\ tx'[held[u]] = tx[held[u]]
    <3>1. pc[u] = "holding" /\ answer[u] = Undecided /\ tx'[held[u]] # NoTx
      BY <1>2, <2>1 DEF Open
    <3>2. held[u] \in Conns \ {c}
      BY <1>1, <3>1, PoolFacts
    <3>3. QED BY <1>1, <3>1, <3>2 DEF Open
  <2>2. QED BY <2>1, WorkKept
<1>8. QED BY <1>3, <1>4, <1>5, <1>6, <1>7 DEF Inv

(* It is committed, by the thread that has it open.                        *)
LEMMA ApplyKeepsInv ==
    ASSUME Inv, PoolOK, NEW t \in Threads, Open(t),
           NEW c \in Conns, held[t] = c, Apply(c), CloseTx(c), NEW a \in Answers, Fill(t, a),
           UNCHANGED <<nextId, call, pc, held>>
    PROVE  Inv'
<1>1. pc[t] = "holding" /\ tx[c] # NoTx
      /\ \A u \in Threads \ {t} : pc[u] = "holding" => held[u] # c
  BY PoolFacts DEF Open
<1>2. /\ tx' \in [Conns -> Transactions \cup {NoTx}]
      /\ tx'[c] = NoTx /\ Adds(c)' = {} /\ Removes(c)' = {}
      /\ \A d \in Conns \ {c} :
           tx'[d] = tx[d] /\ Adds(d)' = Adds(d) /\ Removes(d)' = Removes(d)
  BY <1>1, CloseStep
<1>3. /\ answer' \in [Threads -> Answers \cup {Undecided}] /\ answer'[t] # Undecided
      /\ \A u \in Threads \ {t} : answer'[u] = answer[u]
  BY <1>1, FillStep
<1>4. table' = (table \ Removes(c)) \cup Adds(c)
  BY <1>1 DEF Apply, Adds, Removes
<1>5. /\ table \in SUBSET Row
      /\ \A d \in Conns : Adds(d) \in SUBSET Row /\ Removes(d) \in SUBSET Row
  BY DEF Inv, TypeOK, Adds, Removes, Transactions
<1>6. Inserts(t) \/ Deletes(t)
  BY DEF Inv, WorkIsAsked
<1>7. TypeOK'
  <2>1. table' \in SUBSET Row
    BY <1>1, <1>4, <1>5
  <2>2. QED BY <1>1, <1>2, <1>3, <2>1 DEF Inv, TypeOK
<1>8. CleanConnections'
  BY <1>2 DEF Inv, CleanConnections
<1>9. IdsFresh' /\ IdsKnown' /\ Separate'
  <2>1. \A d \in Conns : Adds(d)' \subseteq Adds(d) /\ Removes(d)' \subseteq Removes(d)
    BY <1>2
  <2>2. \A u \in table' : u.id < nextId
    BY <1>1, <1>4 DEF Inv, IdsFresh
  <2>3. IdsFresh'
    BY <2>1, <2>2 DEF Inv, IdsFresh
  <2>4. IdsKnown'
    BY <2>1 DEF Inv, IdsKnown
  <2>5. Separate'
    BY <2>1 DEF Inv, Separate
  <2>6. QED BY <2>3, <2>4, <2>5
<1>10. \A u \in Adds(c), v \in table : u.id # v.id /\ u.name # v.name
  BY <1>6 DEF Inserts, Deletes
<1>11. KeysUnique'
  <2>1. \A u, v \in Adds(c) : u = v
    BY <1>6 DEF Inserts, Deletes
  <2>2. QED BY <1>4, <1>10, <2>1 DEF Inv, KeysUnique
<1>12. NothingEmpty'
  BY <1>3 DEF Inv, NothingEmpty, HasEmpty
<1>13. WorkIsAsked'
  <2>1. SUFFICES ASSUME NEW u \in Threads, Open(u)' PROVE (Inserts(u) \/ Deletes(u))'
    BY DEF WorkIsAsked
  <2>2. u # t /\ pc[u] = "holding" /\ answer[u] = Undecided /\ tx'[held[u]] # NoTx
    BY <1>3, <2>1 DEF Open
  <2>3. held[u] \in Conns /\ held[u] # c
    BY <1>1, <2>2, PoolFacts
  <2>4. /\ Open(u) /\ held'[u] = held[u] /\ call'[u] = call[u]
        /\ Adds(held[u])' = Adds(held[u]) /\ Removes(held[u])' = Removes(held[u])
    BY <1>2, <2>2, <2>3 DEF Open
  <2>5. /\ \A v \in Adds(held[u]) \cup Removes(held[u]), w \in Adds(c) \cup Removes(c) : v.id # w.id
        /\ \A v \in Adds(held[u]), w \in Adds(c) : v.name # w.name
    BY <1>1, <2>3 DEF Inv, Separate
  <2>6. CASE Inserts(u)
    <3>1. PICK row \in Adds(held[u]) :
                   /\ Adds(held[u]) = {row} /\ row.name = call[u].name
                   /\ row.password = HashPassword(call[u].password)
                   /\ \A v \in table : v.id # row.id /\ v.name # row.name
      BY <2>6 DEF Inserts
    <3>2. \A v \in table' : v.id # row.id /\ v.name # row.name
      BY <1>4, <2>5, <3>1
    <3>3. call[u].method = "Register" /\ Removes(held[u]) = {}
      BY <2>6 DEF Inserts
    <3>4. Inserts(u)'
      BY <2>4, <3>1, <3>2, <3>3 DEF Inserts, HashPassword
    <3>5. QED BY <3>4
  <2>7. CASE Deletes(u)
    <3>1. /\ call[u].method = "DeleteUser" /\ Adds(held[u]) = {}
          /\ Removes(held[u]) = {v \in table : v.id = call[u].id}
      BY <2>7 DEF Deletes
    <3>2. call[u] # NoCall
      BY <2>2 DEF Inv, TypeOK
    <3>3. \A w \in Adds(c) : w.id # call[u].id
      BY <1>1, <3>1, <3>2 DEF Inv, IdsKnown
    <3>4. \A w \in Removes(c) : w \in table => w.id # call[u].id
      BY <2>5, <3>1
    <3>5. Removes(held[u]) = {v \in table' : v.id = call[u].id}
      BY <1>4, <3>1, <3>3, <3>4
    <3>6. Deletes(u)'
      BY <2>4, <3>1, <3>5 DEF Deletes
    <3>7. QED BY <3>6
  <2>8. Inserts(u) \/ Deletes(u)
    BY <2>4 DEF Inv, WorkIsAsked
  <2>9. QED BY <2>6, <2>7, <2>8
<1>14. QED BY <1>7, <1>8, <1>9, <1>11, <1>12, <1>13 DEF Inv
LEMMA CommitKeepsInv == ASSUME Inv, PoolOK, NEW t \in Threads, Commit(t) \/ CommitInDoubt(t) PROVE Inv'
<1>1. /\ Open(t) /\ pc[t] = "holding" /\ CloseTx(held[t]) /\ UNCHANGED <<nextId, call, pc, held>>
      /\ \/ Apply(held[t]) /\ Fill(t, Said(TRUE, {}))
         \/ Apply(held[t]) /\ Fill(t, Failure)
         \/ UNCHANGED table /\ Fill(t, Failure)
  BY DEF Commit, CommitInDoubt, Committing, Open, poolVars, Pool!ConnectionLost
<1>2. held[t] \in Conns
  BY <1>1, PoolFacts
<1>3. Said(TRUE, {}) \in Answers
  BY DEF Said, Answers
<1>4. CASE UNCHANGED table /\ Fill(t, Failure)
  BY <1>1, <1>2, <1>4, RollbackKeepsInv
<1>5. CASE Apply(held[t])
  BY <1>1, <1>2, <1>3, <1>5, ApplyKeepsInv, FailureIsAnswer
<1>6. QED BY <1>1, <1>4, <1>5

(* The steps that move no rows and no transactions.                        *)
LEMMA ThrowKeepsInv == ASSUME Inv, PoolOK, NEW t \in Threads, Throw(t) PROVE Inv'
<1>1. /\ pc[t] = "holding" /\ Fill(t, Failure)
      /\ UNCHANGED <<table, nextId, tx, call, pc, held>>
  BY DEF Throw, poolVars
<1>2. /\ answer' \in [Threads -> Answers \cup {Undecided}] /\ answer'[t] # Undecided
      /\ \A u \in Threads \ {t} : answer'[u] = answer[u]
  BY <1>1, FillStep, FailureIsAnswer
<1>3. TypeOK'
  BY <1>1, <1>2 DEF Inv, TypeOK
<1>4. CleanConnections' /\ NothingEmpty'
  BY <1>1, <1>2 DEF Inv, CleanConnections, NothingEmpty, HasEmpty
<1>5. \A u \in Threads : Open(u)' => Open(u) /\ held'[u] = held[u]
  BY <1>1, <1>2 DEF Open
<1>6. QED BY <1>1, <1>3, <1>4, <1>5, Quiet

LEMMA ReturnKeepsInv == ASSUME Inv, PoolOK, NEW t \in Threads, Return(t) PROVE Inv'
<1>1. /\ pc[t] = "holding" /\ answer[t] # Undecided /\ tx[held[t]] = NoTx /\ Pool!Return(t)
      /\ UNCHANGED <<table, nextId, tx, call, answer>>
  BY DEF Return
<1>2. /\ \/ pc'[t] = "idle" /\ held'[t] = NoConn
         \/ pc'[t] = pc[t] /\ held'[t] = held[t]
      /\ \A u \in Threads \ {t} : /\ held'[u] = held[u]
                                  /\ \/ pc'[u] = pc[u]
                                     \/ pc[u] = "waiting" /\ pc'[u] = "woken"
  BY <1>1, ReturnStep
<1>3. TypeOK'
  <2>1. \A u \in Threads :
         /\ (call[u] = NoCall) <=> (pc'[u] = "idle" /\ answer[u] = Undecided)
         /\ pc'[u] \notin {"idle", "holding"} => answer[u] = Undecided
    BY <1>1, <1>2 DEF Inv, TypeOK
  <2>2. QED BY <1>1, <2>1 DEF Inv, TypeOK
<1>4. CleanConnections'
  BY <1>1, <1>2 DEF Inv, CleanConnections
<1>5. NothingEmpty'
  BY <1>1 DEF Inv, NothingEmpty, HasEmpty
<1>6. \A u \in Threads : Open(u)' => Open(u) /\ held'[u] = held[u]
  BY <1>1, <1>2 DEF Open
<1>7. QED BY <1>1, <1>3, <1>4, <1>5, <1>6, Quiet

LEMMA ReplyKeepsInv == ASSUME Inv, PoolOK, NEW t \in Threads, Reply(t) PROVE Inv'
<1>1. /\ pc[t] = "idle" /\ call' = [call EXCEPT ![t] = NoCall]
      /\ answer' = [answer EXCEPT ![t] = Undecided]
      /\ UNCHANGED <<table, nextId, tx, pc, held>>
  BY DEF Reply, Fill, poolVars
<1>2. /\ call \in [Threads -> Requests \cup {NoCall}]
      /\ answer \in [Threads -> Answers \cup {Undecided}]
  BY DEF Inv, TypeOK
<1>3. /\ call'[t] = NoCall /\ answer'[t] = Undecided
      /\ \A u \in Threads \ {t} : call'[u] = call[u] /\ answer'[u] = answer[u]
  BY <1>1, <1>2
<1>4. TypeOK'
  <2>1. /\ call' \in [Threads -> Requests \cup {NoCall}]
        /\ answer' \in [Threads -> Answers \cup {Undecided}]
    BY <1>1, <1>2
  <2>2. \A u \in Threads :
         /\ (call'[u] = NoCall) <=> (pc'[u] = "idle" /\ answer'[u] = Undecided)
         /\ pc'[u] \notin {"idle", "holding"} => answer'[u] = Undecided
    BY <1>1, <1>3 DEF Inv, TypeOK
  <2>3. QED BY <1>1, <2>1, <2>2 DEF Inv, TypeOK
<1>5. CleanConnections' /\ NothingEmpty'
  BY <1>1, <1>3 DEF Inv, CleanConnections, NothingEmpty, HasEmpty
<1>6. IdsFresh' /\ KeysUnique' /\ Separate'
  BY <1>1 DEF Inv, IdsFresh, KeysUnique, Separate, Adds, Removes
<1>7. IdsKnown'
  BY <1>1, <1>3 DEF Inv, IdsKnown, Adds
<1>8. WorkIsAsked'
  <2>1. \A u \in Threads : Open(u)' => u # t /\ Open(u)
    BY <1>1, <1>3 DEF Open
  <2>2. QED BY <1>1, <1>3, <2>1, WorkKept
<1>9. QED BY <1>4, <1>5, <1>6, <1>7, <1>8 DEF Inv

(* Init and Close of the pool, and a thread that wakes up for nothing.     *)
LEMMA PoolKeepsInv ==
    ASSUME Inv, PoolOK, UNCHANGED <<tx, table, nextId, call, answer>>,
           \/ \E n \in 0 .. PoolSize : Pool!InitPool(n)
           \/ Pool!Close
           \/ \E t \in Threads : Pool!SpuriousWakeUp(t)
    PROVE  Inv'
<1>1. /\ held' = held
      /\ \A u \in Threads : pc'[u] = pc[u] \/ (pc[u] = "waiting" /\ pc'[u] = "woken")
  <2>1. ASSUME NEW n \in 0 .. PoolSize, Pool!InitPool(n) PROVE held' = held /\ pc' = pc
    BY <2>1 DEF Pool!InitPool
  <2>2. CASE Pool!Close
    BY <2>2 DEF Pool!Close
  <2>3. ASSUME NEW t \in Threads, Pool!SpuriousWakeUp(t)
        PROVE  /\ held' = held
               /\ \A u \in Threads : pc'[u] = pc[u] \/ (pc[u] = "waiting" /\ pc'[u] = "woken")
    BY <2>3, PoolFacts DEF Pool!SpuriousWakeUp
  <2>4. QED BY <2>1, <2>2, <2>3
<1>2. TypeOK'
  <2>1. \A u \in Threads :
         /\ (call[u] = NoCall) <=> (pc'[u] = "idle" /\ answer[u] = Undecided)
         /\ pc'[u] \notin {"idle", "holding"} => answer[u] = Undecided
    BY <1>1 DEF Inv, TypeOK
  <2>2. QED BY <2>1 DEF Inv, TypeOK
<1>3. CleanConnections'
  <2>1. ASSUME NEW c \in Conns, tx[c] # NoTx
        PROVE  \E t \in Threads : pc'[t] = "holding" /\ held[t] = c
    <3>1. PICK t \in Threads : pc[t] = "holding" /\ held[t] = c
      BY <2>1 DEF Inv, CleanConnections
    <3>2. QED BY <1>1, <3>1
  <2>2. QED BY <1>1, <2>1 DEF CleanConnections
<1>4. NothingEmpty'
  BY DEF Inv, NothingEmpty, HasEmpty
<1>5. \A u \in Threads : Open(u)' => Open(u) /\ held'[u] = held[u]
  BY <1>1 DEF Open
<1>6. QED BY <1>2, <1>3, <1>4, <1>5, Quiet

LEMMA StepInv == Inv /\ PoolOK /\ [Next]_vars => Inv'
<1> SUFFICES ASSUME Inv, PoolOK, [Next]_vars PROVE Inv'
  OBVIOUS
<1>1. ASSUME NEW t \in Threads, GoOn(t) PROVE Inv'
  <2>1. Acquire(t) \/ WakeUp(t) => Inv'
    BY WaitKeepsInv
  <2>2. Insert(t) \/ Delete(t) \/ Select(t) => Inv'
    BY InsertKeepsInv, DeleteKeepsInv, SelectKeepsInv
  <2>3. Throw(t) \/ Return(t) \/ Reply(t) => Inv'
    BY ThrowKeepsInv, ReturnKeepsInv, ReplyKeepsInv
  <2>4. Commit(t) \/ CommitInDoubt(t) => Inv'
    BY CommitKeepsInv
  <2>5. EndWork(t) => Inv'
    <3>1. EndWork(t) => held[t] \in Conns
      BY PoolFacts DEF EndWork
    <3>2. QED BY <3>1, RollbackKeepsInv DEF EndWork, poolVars
  <2>6. QED BY <1>1, <2>1, <2>2, <2>3, <2>4, <2>5 DEF GoOn
<1>2. ASSUME NEW t \in Threads, NEW r \in Requests, Call(t, r) PROVE Inv'
  BY <1>2, CallKeepsInv
<1>3. ASSUME NEW c \in Conns, ConnectionLost(c) PROVE Inv'
  BY <1>3, RollbackKeepsInv DEF ConnectionLost, Unused, Pool!ConnectionLost
<1>4. CASE Environment
  BY <1>3, <1>4, PoolKeepsInv DEF Environment, Unused
<1>5. CASE UNCHANGED vars
  <2>1. UNCHANGED <<table, nextId, tx, call, answer, pc, held>>
    BY <1>5 DEF vars, poolVars
  <2>2. TypeOK' /\ CleanConnections' /\ NothingEmpty'
    BY <2>1 DEF Inv, TypeOK, CleanConnections, NothingEmpty, HasEmpty
  <2>3. QED BY <2>1, <2>2, Quiet DEF Open
<1>6. QED BY <1>1, <1>2, <1>4, <1>5 DEF Next

LEMMA AlwaysInv == Spec => []Inv
<1>1. QED BY InitInv, StepInv, AlwaysPoolOK, PTL DEF Spec

(* The variables of the service have their types, and a thread that is in  *)
(* no call has nothing to do with the pool and no answer to return.        *)
THEOREM TypeCorrect == Spec => []TypeOK
<1>1. Inv => TypeOK
  BY DEF Inv
<1>2. QED BY <1>1, AlwaysInv, PTL

(* However calls end, by return or by exception, and whatever is lost      *)
(* meanwhile, no connection in the pool has a transaction open.            *)
THEOREM ConnectionsAreClean == Spec => []CleanConnections
<1>1. Inv => CleanConnections
  BY DEF Inv
<1>2. QED BY <1>1, AlwaysInv, PTL
-----------------------------------------------------------------------------
(* Waiting.  A sleeper has a thread that holds a connection or is woken; a  *)
(* thread that holds one waits only for rows of an open transaction, whose *)
(* thread then goes on.                                                    *)
SleeperServed == (\E t \in Threads : pc[t] = "waiting") =>
                    \E t \in Threads : pc[t] \in {"holding", "woken"}

LEMMA AlwaysServed == Spec => []SleeperServed
<1>1. Init => PoolProof!Init
  BY SamePool DEF Init
<1>2. [Next]_vars => [PoolProof!Next]_(PoolProof!vars)
  BY PoolStep, SamePool DEF Pool!vars, PoolProof!vars
<1>3. PoolProof!SleepersAreServed => SleeperServed
  BY DEF PoolProof!SleepersAreServed, SleeperServed, PoolProof!Waiting, PoolProof!Holders,
         PoolProof!Woken
<1>4. PoolProof!Spec => []PoolProof!SleepersAreServed
  BY PoolAssumed, SamePool, PoolProof!SomebodyServes
<1>5. QED BY <1>1, <1>2, <1>3, <1>4, PTL DEF Spec, PoolProof!Spec

LEMMA LockHolderGoesOn ==
    ASSUME Inv, PoolOK, NEW t \in Threads, WaitsForLock(t)
    PROVE  \E u \in Threads : call[u] # NoCall /\ ~Waits(u)
<1>1. PICK c \in Conns : tx[c] # NoTx
  BY DEF WaitsForLock, Pending
<1>2. PICK u \in Threads : pc[u] = "holding" /\ held[u] = c
  BY <1>1 DEF Inv, CleanConnections
<1>3. call[u] # NoCall
  BY <1>2 DEF Inv, TypeOK
<1>4. ~Waits(u)
  BY <1>1, <1>2 DEF Waits, WaitsForLock, Ready
<1>5. QED BY <1>3, <1>4

(* For any number of threads and any size of the pool, with connections    *)
(* lost and the pool closed at any point: as long as a call of UserService *)
(* is not over there is one that waits neither in Acquire nor for rows.    *)
THEOREM NobodyWaitsInACircle == Spec => []NoCircularWait
<1>1. ASSUME Inv, PoolOK, SleeperServed PROVE NoCircularWait
  <2>1. SUFFICES ASSUME NEW t \in Threads, call[t] # NoCall
                 PROVE  \E u \in Threads : call[u] # NoCall /\ ~Waits(u)
    BY DEF NoCircularWait
  <2>2. CASE \E u \in Threads : WaitsForLock(u)
    BY <1>1, <2>2, LockHolderGoesOn
  <2>3. CASE ~(\E u \in Threads : WaitsForLock(u))
    <3>1. CASE pc[t] = "waiting"
      <4>1. PICK u \in Threads : pc[u] \in {"holding", "woken"}
        BY <1>1, <3>1 DEF SleeperServed
      <4>2. call[u] # NoCall
        BY <1>1, <4>1 DEF Inv, TypeOK
      <4>3. QED BY <2>3, <4>1, <4>2 DEF Waits
    <3>2. CASE pc[t] # "waiting"
      BY <2>1, <2>3, <3>2 DEF Waits
    <3>3. QED BY <3>1, <3>2
  <2>4. QED BY <2>2, <2>3
<1>2. QED BY <1>1, AlwaysInv, AlwaysPoolOK, AlwaysServed, PTL

-----------------------------------------------------------------------------
(* UserService implements UserRegistry.                                    *)
LEMMA SameFailure == Registry!Failure = Failure /\ \A ok, f : Registry!Said(ok, f) = Said(ok, f)
<1>1. QED BY DEF Registry!Failure, Registry!Said, Failure, Said

LEMMA FailRefines ==
    ASSUME Inv, NEW t \in Threads, call[t] # NoCall, answer[t] = Undecided, Fill(t, Failure),
           UNCHANGED <<table, call>>
    PROVE  Registry!Next
<1>1. Registry!Decide(t, Registry!Failure)
  BY SameFailure DEF Registry!Decide, Fill
<1>2. UNCHANGED Users
  BY DEF Users
<1>3. Registry!Fail(t)
  BY <1>1, <1>2 DEF Registry!Fail
<1>4. QED BY <1>3 DEF Registry!Next

LEMMA CallRefines ==
    ASSUME Inv, NEW t \in Threads, NEW r \in Requests, Call(t, r) PROVE Registry!Next
<1>1. /\ call[t] = NoCall /\ answer[t] = Undecided /\ call' = [call EXCEPT ![t] = r]
      /\ UNCHANGED table /\ (Fill(t, Failure) \/ Fill(t, Undecided))
  BY DEF Call, Inv, TypeOK
<1>2. \E a \in {Undecided, Registry!Failure} : answer' = [answer EXCEPT ![t] = a]
  BY <1>1, SameFailure DEF Fill
<1>3. UNCHANGED Users
  BY <1>1 DEF Users
<1>4. Registry!Ask(t, r)
  BY <1>1, <1>2, <1>3 DEF Registry!Ask
<1>5. QED BY <1>4 DEF Registry!Next

LEMMA WaitRefines ==
    ASSUME Inv, PoolOK, NEW t \in Threads, Acquire(t) \/ WakeUp(t)
    PROVE  Registry!Next \/ UNCHANGED <<table, call, answer>>
<1>1. /\ Pool!Acquire(t) \/ Pool!WakeUp(t)
      /\ Fill(t, IF pc'[t] = "idle" THEN Failure ELSE Undecided) /\ UNCHANGED <<table, call>>
  BY DEF Acquire, WakeUp, Acquired
<1>2. pc[t] \in {"checked", "woken"}
  BY <1>1, WaitStep
<1>3. answer[t] = Undecided /\ call[t] # NoCall
  BY <1>2 DEF Inv, TypeOK
<1>4. CASE pc'[t] = "idle"
  BY <1>1, <1>3, <1>4, FailRefines
<1>5. CASE pc'[t] # "idle"
  <2>1. answer' = [answer EXCEPT ![t] = answer[t]]
    BY <1>1, <1>3, <1>5 DEF Fill
  <2>2. answer' = answer
    BY <2>1 DEF Inv, TypeOK
  <2>3. QED BY <1>1, <2>2
<1>6. QED BY <1>4, <1>5

(* The page of the registry is the page of the table.                      *)
LEMMA SamePage ==
    ASSUME Inv, NEW u \in table, NEW r \in AllRequests, r.method = "GetAllUsers"
    PROVE  Registry!Asked(r, Shown(u)) <=> InPage(r, u)
<1>1. {v.id : v \in {w \in Users : w.id < Shown(u).id}} = {v.id : v \in {w \in table : w.id < u.id}}
  <2>1. Shown(u).id = u.id /\ \A w \in table : Shown(w).id = w.id
    BY DEF Shown
  <2>2. ASSUME NEW i \in {v.id : v \in {w \in Users : w.id < Shown(u).id}}
        PROVE  i \in {v.id : v \in {w \in table : w.id < u.id}}
    BY <2>1 DEF Users
  <2>3. ASSUME NEW i \in {v.id : v \in {w \in table : w.id < u.id}}
        PROVE  i \in {v.id : v \in {w \in Users : w.id < Shown(u).id}}
    <3>1. PICK w \in table : w.id < u.id /\ i = w.id
      OBVIOUS
    <3>2. Shown(w) \in Users /\ Shown(w).id < Shown(u).id /\ i = Shown(w).id
      BY <2>1, <3>1 DEF Users
    <3>3. QED BY <3>2
  <2>4. QED BY <2>2, <2>3
<1>2. Registry!Position(Shown(u)) = Position(u)
  BY <1>1 DEF Registry!Position, Position, Registry!Cardinality, Cardinality
<1>3. r.limit \in Nat /\ r.offset \in Nat
  BY DEF AllRequests
<1>4. Position(u) \in Nat
  <2>1. {v.id : v \in {w \in table : w.id < u.id}} \subseteq 0 .. u.id
    BY DEF Inv, TypeOK, Row
  <2>2. u.id \in Nat
    BY DEF Inv, TypeOK, Row
  <2>3. IsFiniteSet(0 .. u.id)
    BY <2>2, FS_Interval
  <2>4. IsFiniteSet({v.id : v \in {w \in table : w.id < u.id}})
    BY <2>1, <2>3, FS_Subset
  <2>5. QED BY <2>4, FS_CardinalityType DEF Position
<1>5. QED BY <1>2, <1>3, <1>4 DEF Registry!Asked, InPage
(* A SELECT is the look at the users that the registry promises.           *)
LEMMA SelectRefines ==
    ASSUME Inv, PoolOK, NEW t \in Threads, Select(t) PROVE Registry!Next
<1> DEFINE r == call[t]
           rows == Selected(r)
           found == {[id |-> u.id, name |-> u.name] : u \in rows}
           seen == {v \in Users : Registry!Asked(r, v)}
           shown == {Registry!Public(u) : u \in seen}
<1>1. /\ r.method \notin {"Register", "DeleteUser"} /\ answer[t] = Undecided
      /\ Fill(t, Said(found # {}, found)) /\ UNCHANGED <<table, call>>
      /\ pc[t] = "holding"
  BY DEF Select, Ready
<1>2. r # NoCall /\ r \in AllRequests
  BY <1>1, ServiceAssumption DEF Inv, TypeOK, ServiceAssumption
<1>3. ASSUME NEW u \in table
      PROVE  u \in rows <=> Registry!Asked(r, Shown(u))
  <2>1. /\ Shown(u).id = u.id /\ Shown(u).name = u.name
        /\ Shown(u).password = u.password.sha256
    BY DEF Shown
  <2>2. CASE r.method = "Login"
    <3>1. \A p : VerifyPassword(p, u.password) <=> u.password.sha256 = p
      BY DEF VerifyPassword, HashPassword, Inv, TypeOK, Row
    <3>2. QED BY <2>1, <2>2, <3>1 DEF Selected, Registry!Asked
  <2>3. CASE r.method = "GetUserById"
    BY <2>1, <2>3 DEF Selected, Registry!Asked
  <2>4. CASE r.method = "GetUserByUsername"
    BY <2>1, <2>4 DEF Selected, Registry!Asked
  <2>5. CASE r.method = "GetAllUsers"
    <3>1. rows = {v \in table : InPage(r, v)}
      BY <2>5 DEF Selected
    <3>2. QED BY <1>2, <2>5, <3>1, SamePage
  <2>6. QED BY <1>1, <1>2, <2>2, <2>3, <2>4, <2>5 DEF AllRequests
<1>4. rows \subseteq table
  BY <1>1, <1>2 DEF Selected, AllRequests
<1> HIDE DEF r, rows
<1>5. found = shown
  <2>1. \A u \in table : Registry!Public(Shown(u)) = [id |-> u.id, name |-> u.name]
    BY DEF Registry!Public, Shown
  <2>2. ASSUME NEW x \in found PROVE x \in shown
    <3>1. PICK u \in rows : x = [id |-> u.id, name |-> u.name]
      OBVIOUS
    <3>2. Shown(u) \in seen /\ x = Registry!Public(Shown(u))
      BY <1>3, <1>4, <2>1, <3>1 DEF Users
    <3>3. QED BY <3>2
  <2>3. ASSUME NEW x \in shown PROVE x \in found
    <3>1. PICK v \in seen : x = Registry!Public(v)
      OBVIOUS
    <3>2. PICK u \in table : v = Shown(u)
      BY DEF Users
    <3>3. u \in rows /\ x = [id |-> u.id, name |-> u.name]
      BY <1>3, <2>1, <3>1, <3>2
    <3>4. QED BY <3>3
  <2>4. QED BY <2>2, <2>3
<1>6. Registry!Decide(t, Registry!Said(shown # {}, shown))
  BY <1>1, <1>2, <1>5, SameFailure DEF Registry!Decide, Fill, r
<1>7. UNCHANGED Users
  BY <1>1 DEF Users
<1>8. Registry!Find(t)
  BY <1>1, <1>2, <1>6, <1>7 DEF Registry!Find, r
<1>9. QED BY <1>8 DEF Registry!Next

(* A commit is the instant at which a Register or a DeleteUser takes effect. *)
LEMMA ApplyRefines ==
    ASSUME Inv, PoolOK, NEW t \in Threads, Open(t), Apply(held[t]),
           NEW ok \in BOOLEAN, Fill(t, Said(ok, {})), UNCHANGED call
    PROVE  Registry!Next
<1>1. pc[t] = "holding" /\ answer[t] = Undecided /\ tx[held[t]] # NoTx
  BY DEF Open
<1>2. call[t] # NoCall /\ held[t] \in Conns
  BY <1>1, PoolFacts DEF Inv, TypeOK
<1>3. table' = (table \ Removes(held[t])) \cup Adds(held[t])
  BY <1>1 DEF Apply, Adds, Removes
<1>4. \E yes \in BOOLEAN : Registry!Decide(t, Registry!Said(yes, {}))
  BY <1>1, <1>2, SameFailure DEF Registry!Decide, Fill
<1>5. CASE Inserts(t)
  <2>1. PICK row \in Adds(held[t]) :
               /\ Adds(held[t]) = {row} /\ row.name = call[t].name
               /\ row.password = HashPassword(call[t].password)
               /\ \A v \in table : v.id # row.id /\ v.name # row.name
    BY <1>5 DEF Inserts
  <2>2. call[t].method = "Register" /\ table' = table \cup {row}
    BY <1>3, <1>5, <2>1 DEF Inserts
  <2>3. /\ Shown(row).name = call[t].name /\ Shown(row).password = call[t].password
        /\ Shown(row).id = row.id
    BY <2>1 DEF Shown, HashPassword
  <2>4. Users' = Users \cup {Shown(row)} /\ Shown(row) \in Users'
    BY <2>2 DEF Users, Shown
  <2>5. \A u \in Users : u.name # call[t].name /\ Shown(row).id # u.id
    BY <2>1, <2>3 DEF Users, Shown
  <2>6. call[t].name # "" /\ call[t].password # ""
    BY <1>1, <1>2, <2>2 DEF Inv, NothingEmpty, HasEmpty
  <2>7. Registry!Register(t)
    BY <1>2, <1>4, <2>2, <2>3, <2>4, <2>5, <2>6 DEF Registry!Register
  <2>8. QED BY <2>7 DEF Registry!Next
<1>6. CASE Deletes(t)
  <2>1. /\ call[t].method = "DeleteUser"
        /\ table' = {u \in table : u.id # call[t].id}
    BY <1>3, <1>6 DEF Deletes
  <2>2. Users' = {u \in Users : u.id # call[t].id}
    <3>1. \A u : Shown(u).id = u.id
      BY DEF Shown
    <3>2. ASSUME NEW x \in Users' PROVE x \in Users /\ x.id # call[t].id
      BY <2>1, <3>1, <3>2 DEF Users, Shown
    <3>3. ASSUME NEW x \in Users, x.id # call[t].id PROVE x \in Users'
      <4>1. PICK u \in table : x = Shown(u)
        BY DEF Users
      <4>2. u \in table'
        BY <2>1, <3>1, <3>3, <4>1
      <4>3. QED BY <4>1, <4>2 DEF Users, Shown
    <3>4. QED BY <3>2, <3>3
  <2>3. Registry!DeleteUser(t)
    BY <1>2, <1>4, <2>1, <2>2 DEF Registry!DeleteUser
  <2>4. QED BY <2>3 DEF Registry!Next
<1>7. QED BY <1>5, <1>6 DEF Inv, WorkIsAsked

(* Every step of the service is a step of the registry or none of its.     *)
LEMMA StepRefines == Inv /\ PoolOK /\ [Next]_vars => [Registry!Next]_(Registry!vars)
<1> SUFFICES ASSUME Inv, PoolOK, [Next]_vars PROVE [Registry!Next]_(Registry!vars)
  OBVIOUS
<1>1. UNCHANGED <<table, call, answer>> => UNCHANGED Registry!vars
  BY DEF Registry!vars, Users
<1>2. ASSUME NEW t \in Threads, GoOn(t)
      PROVE  Registry!Next \/ UNCHANGED <<table, call, answer>>
  <2>1. pc[t] = "holding" => call[t] # NoCall
    BY DEF Inv, TypeOK
  <2>2. CASE Acquire(t) \/ WakeUp(t)
    BY <2>2, WaitRefines
  <2>3. CASE Insert(t)
    BY <2>1, <2>3, FailRefines DEF Insert, Ready
  <2>4. CASE Select(t)
    BY <2>4, SelectRefines
  <2>5. CASE Throw(t)
    BY <2>1, <2>5, FailRefines DEF Throw
  <2>6. CASE Commit(t)
    <3>1. Open(t) /\ Apply(held[t]) /\ Fill(t, Said(TRUE, {})) /\ UNCHANGED call
      BY <2>6 DEF Commit, Committing, Open
    <3>2. QED BY <3>1, ApplyRefines
  <2>7. CASE CommitInDoubt(t)
    <3>1. Open(t) /\ Fill(t, Failure) /\ UNCHANGED call
      BY <2>7 DEF CommitInDoubt, Committing, Open
    <3>2. CASE Apply(held[t])
      <4>1. Fill(t, Said(FALSE, {}))
        BY <3>1 DEF Failure
      <4>2. QED BY <3>1, <3>2, <4>1, ApplyRefines
    <3>3. CASE UNCHANGED table
      BY <2>1, <3>1, <3>3, FailRefines DEF Open
    <3>4. QED BY <2>7, <3>2, <3>3 DEF CommitInDoubt
  <2>8. CASE Reply(t)
    <3>1. UNCHANGED Users
      BY <2>8 DEF Reply, Users
    <3>2. Registry!Reply(t)
      BY <2>8, <3>1 DEF Reply, Registry!Reply, Fill
    <3>3. QED BY <3>2 DEF Registry!Next
  <2>9. CASE Delete(t) \/ EndWork(t) \/ Return(t)
    BY <2>9 DEF Delete, EndWork, Return
  <2>10. QED BY <1>2, <2>2, <2>3, <2>4, <2>5, <2>6, <2>7, <2>8, <2>9 DEF GoOn
<1>3. ASSUME NEW t \in Threads, NEW r \in Requests, Call(t, r) PROVE Registry!Next
  BY <1>3, CallRefines
<1>4. CASE Environment
  <2>1. UNCHANGED <<table, call, answer>>
    BY <1>4 DEF Environment, ConnectionLost, Unused
  <2>2. QED BY <1>1, <2>1
<1>5. CASE UNCHANGED vars
  <2>1. UNCHANGED <<table, call, answer>>
    BY <1>5 DEF vars
  <2>2. QED BY <1>1, <2>1
<1>6. QED BY <1>1, <1>2, <1>3, <1>4, <1>5 DEF Next

(* Every behaviour of the service, its pool and its transactions shows its *)
(* callers a behaviour of the registry: a Register or a DeleteUser takes   *)
(* effect in one instant inside the call, TRUE only if it did, and a query *)
(* answers from one state of the users.                                    *)
THEOREM UserServiceImplementsRegistry == Spec => ImplementsRegistry
<1>1. Init => Registry!Init
  BY DEF Init, Registry!Init, Users
<1>2. QED BY <1>1, StepRefines, AlwaysInv, AlwaysPoolOK, PTL
          DEF Spec, ImplementsRegistry, Registry!Spec
=============================================================================
